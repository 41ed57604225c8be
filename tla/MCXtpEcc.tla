------------------------------ MODULE MCXtpEcc ------------------------------
(* Instances of XtpEcc for TLC.                                            *)
EXTENDS XtpEcc

\* The shortest blocks, one between, and the longest.
FiveLengths == {1, 2, 100, 254, 255}

\* Bytes that are all 0x00, and bytes that count from 0x01.
Counted(n) == [k \in 1 .. n |-> {b \in Bits : (k \div 2^b) % 2 = 1}]
TwoBlocks(n) == {[k \in 1 .. n |-> {}], Counted(n)}

\* 0x01, the tap mask 0x8E, and 0xFF.
ThreeErrors == {{0}, {1, 2, 3, 7}, Bits}

\* The first two places, one between, and the last two.
Edges(n) == (1 .. n) \cap {1, 2, 77, n - 1, n}
=============================================================================
