----------------------------- MODULE MCXtpArq -----------------------------
(* Instances of XtpArq for TLC: the configurations give the values.        *)
EXTENDS XtpArq
=============================================================================
