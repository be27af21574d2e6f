------------------------------- MODULE MCConsole -------------------------------
(* Small screens for Console: one printer at a time on screens with fewer   *)
(* rows than the ring has lines, as many, and more, with texts beyond the   *)
(* end of the buffer; and two that meet.                                    *)
EXTENDS Console

CONSTANTS p1, p2

Pieces ==
  {<< <<"a">>, <<"nl">> >>, << <<"tab">> >>, << <<"a", "cr">>, <<>>, <<" ", "nl">> >>,
   << <<"nl", "b">>, <<"b", "tab">>, <<"a">> >>}
SmallModes ==
  [alone : {TRUE}, rows : {1, 2, 4}, cols : {1, 2, 4}, texts : {Pieces}] \cup
  [alone : {FALSE}, rows : {1}, cols : {2}, texts : {{<< <<"a", "nl">>, <<>> >>}}]
================================================================================
