----------------------------- MODULE MCModbusDecode -----------------------------
(* ModbusDecode with registers of two bits, ints of five and counts of four on   *)
(* the line.  Twice 9 is -14 as an int and four times 9 is 4, and both have low  *)
(* bits that a slave answers; so has -15.                                        *)
EXTENDS ModbusDecode

MCCounts == {-15, -1, 0, 1, 2, 3, 5, 9}
==============================================================================
