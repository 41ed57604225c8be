---------------------------- MODULE MCXtpDecoder ----------------------------
(* Instances of XtpDecoder for TLC.                                        *)
EXTENDS XtpDecoder

\* Two frames.  The data of the first holds a start byte, and together with its
\* check bytes enough to make up a frame of its own when its length is changed
\* to 1; the second has no data.
Two == << [id |-> 1, id_high |-> 0, seq |-> 129, data |-> <<192, 2, 1>>],
          [id |-> 1, id_high |-> 0, seq |-> 130, data |-> <<>>] >>
=============================================================================
