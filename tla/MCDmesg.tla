------------------------------ MODULE MCDmesg ------------------------------
(* Instances of Dmesg for TLC.                                             *)
EXTENDS Dmesg

CONSTANT w1
=============================================================================
