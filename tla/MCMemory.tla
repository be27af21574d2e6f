------------------------------ MODULE MCMemory ------------------------------
(***************************************************************************)
(* Instances of Memory: thirteen frames, of which the boot loader's tables *)
(* take five, and a device behind them.                                    *)
(***************************************************************************)
EXTENDS Memory, TLC

Segment(base, length, usable) == [base |-> base, length |-> length, usable |-> usable]

(* A pml4 in frame b with one table below it, and three for the frames.     *)
Boot(map, b) ==
  [map |-> map, pml4 |-> b,
   tables |-> [f \in Frames(map) |->
     IF f = b THEN [Empty EXCEPT ![HHDM] = b + 1]
     ELSE IF f = b + 1 THEN [i \in Index |-> IF i < 3 THEN b + 2 + i ELSE None]
     ELSE IF f \in (b + 2) .. (b + 4)
       THEN [i \in Index |-> LET g == (f - b - 2) * ENTRIES + i IN
                               IF g \in Frames(map) THEN g ELSE None]
     ELSE Empty]]

(* The low memory cannot hold the bitmap: it is in the entry of the heap,   *)
(* or in an earlier one.                                                    *)
HighBitmaps ==
  <<Boot(<<Segment(0, 1, TRUE), Segment(1, 1, FALSE), Segment(2, 6, TRUE),
           Segment(8, 5, FALSE)>>, 8),
    Boot(<<Segment(0, 1, TRUE), Segment(1, 1, FALSE), Segment(2, 2, TRUE),
           Segment(4, 5, FALSE), Segment(9, 4, TRUE)>>, 4)>>

(* The low memory can.                                                      *)
LowBitmap ==
  <<Boot(<<Segment(0, 2, TRUE), Segment(2, 5, FALSE), Segment(7, 6, TRUE)>>, 2)>>

Pages == {<<0, 0, 0>>, <<0, 0, 1>>}
=============================================================================
