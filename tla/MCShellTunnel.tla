--------------------------- MODULE MCShellTunnel ---------------------------
(* Instances of ShellTunnel for TLC: the configurations give the values.   *)
EXTENDS ShellTunnel
=============================================================================
