-------------------------------- MODULE Screen --------------------------------
(***************************************************************************)
(* What the console promises: a screen of rows and columns, a cursor, and  *)
(* text that fills it and scrolls off the top; characters become visible   *)
(* together.  ScrollingTextRenderer implements it (module Console).        *)
(***************************************************************************)
EXTENDS Integers

CONSTANTS Chars, Blank  \* the characters that have a glyph; the space

VARIABLES
  size,   \* rows and columns
  text,   \* the cells, the cursor's row and its column
  shown   \* the cells as they are visible

BlankRow(s) == [c \in 0 .. (s.cols - 1) |-> Blank]
BlankGrid(s) == [r \in 0 .. (s.rows - 1) |-> BlankRow(s)]

Init ==
  /\ size.rows > 0 /\ size.cols > 0
  /\ text = [grid |-> BlankGrid(size), row |-> 0, col |-> 0]
  /\ shown = text.grid

(* The cursor goes to the next row; in the last one the rows move up.       *)
Feed(t) ==
  IF t.row < size.rows - 1 THEN [t EXCEPT !.row = @ + 1, !.col = 0]
  ELSE [t EXCEPT !.col = 0,
        !.grid = [r \in DOMAIN t.grid |->
                    IF r < size.rows - 1 THEN t.grid[r + 1] ELSE BlankRow(size)]]

Glyph(t, ch) ==
  LET u == [t EXCEPT !.grid[t.row][t.col] = ch, !.col = @ + 1]
  IN IF u.col = size.cols THEN Feed(u) ELSE u

(* A tab is spaces up to the next multiple of four, over the end of the row.*)
Tab(t) ==
  LET after[n \in 0 .. 4] == IF n = 0 THEN t ELSE Glyph(after[n - 1], Blank)
  IN after[4 - (t.col % 4)]

Put(ch) ==
  /\ text' = CASE ch = "nl" -> Feed(text)
               [] ch = "cr" -> [text EXCEPT !.col = 0]
               [] ch = "tab" -> Tab(text)
               [] OTHER -> Glyph(text, ch)
  /\ UNCHANGED <<size, shown>>

Show == shown' = text.grid /\ UNCHANGED <<size, text>>

Next == Show \/ \E ch \in Chars \cup {"nl", "cr", "tab"} : Put(ch)

Spec == Init /\ [][Next]_<<size, text, shown>>
===============================================================================
