-------------------------------- MODULE MCIde --------------------------------
(* Callers and requests for model checking Ide.                             *)
EXTENDS Ide, TLC

CONSTANTS p1, p2

ReadReq(l, n) == [op |-> "read", lba |-> l, n |-> n]
WriteReq(l, data) == [op |-> "write", lba |-> l, data |-> data]

(* Several commands, several sectors per command, one sector, none.         *)
Mixed ==
  p1 :> {ReadReq(0, 3), WriteReq(0, <<7, 7, 8>>)}
  @@ p2 :> {ReadReq(1, 1), WriteReq(2, << >>)}

OneSector == p1 :> {ReadReq(0, 1)}
=============================================================================
