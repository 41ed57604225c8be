------------------------------ MODULE MCDlsExp ------------------------------
(* Instances of DlsExp for TLC: the configurations give the values.        *)
EXTENDS DlsExp
=============================================================================
