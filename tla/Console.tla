-------------------------------- MODULE Console --------------------------------
(***************************************************************************)
(* The text console (framebuffer/src/lib.rs): println! formats into the    *)
(* shared LINE_WRITER_BUFFER without a lock, then writes the buffer to the *)
(* renderer under RENDERER's lock: write_char into a ring of lines, and    *)
(* render_dirty draws the lines that have changed.                         *)
(*                                                                         *)
(* A row of the framebuffer is the line drawn there: the glyphs' pixels    *)
(* and the colours are left out.  The loader leaves the screen blank.      *)
(***************************************************************************)
EXTENDS Integers, Sequences

CONSTANTS
  Printers,   \* processes that print
  Chars,      \* characters with a glyph
  Blank,      \* the space
  Modes,      \* how the console is used: see mode
  SIZE,       \* bytes of LINE_WRITER_BUFFER (512)
  MAX_LINES,  \* lines of the ring (30)
  MAX_COLS    \* (80)

Bytes == Chars \cup {"nl", "cr", "tab"}

ASSUME ConsoleConstants ==
  /\ Blank \in Chars /\ Chars \cap {"nl", "cr", "tab"} = {}
  /\ SIZE \in Nat \ {0} /\ MAX_LINES \in Nat \ {0} /\ MAX_COLS \in Nat \ {0}
  /\ \A m \in Modes :
       /\ m.rows \in Nat \ {0} /\ m.cols \in Nat \ {0}
       /\ m.alone \in BOOLEAN /\ m.texts \subseteq Seq(Seq(Bytes))

VARIABLES
  mode,     \* the rows and columns the framebuffer has room for, whether at
            \* most one process prints at a time, and what is printed:
            \* sequences of the pieces write! passes on
  size,     \* visible_lines and cols
  ring,     \* lines and their dirty bits, start_line and line_count
  cursor,   \* cursor_line and cursor_col
  fb,       \* fb[r]: the row r of the framebuffer
  lock,     \* the lock of RENDERER
  buffer,   \* LINE_WRITER_BUFFER
  pos,      \* LINE_WRITER_POS
  pc,       \* pc[p]: idle, format, advance, lock, write
  job,      \* job[p]: pieces left to format, and to_copy or the slice
  panicked, \* a subtraction has overflowed
  written,  \* history: the bytes given to write_char by the holder
  asked     \* history: asked: the text p prints

renderer == <<ring, cursor, fb>>
writer == <<buffer, pos>>
vars == <<mode, size, renderer, lock, writer, pc, job, panicked, written, asked>>

Line == [c \in 0 .. (size.cols - 1) |-> Blank]
NoJob == [pieces |-> <<>>, n |-> 0, next |-> 0]
SmallerOf(a, b) == IF a < b THEN a ELSE b

(* ScrollingTextRenderer::init.                                             *)
Init ==
  /\ mode \in Modes
  /\ size = [rows |-> SmallerOf(mode.rows, MAX_LINES), cols |-> SmallerOf(mode.cols, MAX_COLS)]
  /\ ring = [lines |-> [l \in 0 .. (MAX_LINES - 1) |-> Line],
             dirty |-> {}, start |-> 0, count |-> size.rows]
  /\ cursor = [line |-> 0, col |-> 0]
  /\ fb = [r \in 0 .. (size.rows - 1) |-> Line]
  /\ lock = FALSE
  /\ buffer = [i \in 1 .. SIZE |-> Blank] /\ pos = 0
  /\ pc = [p \in Printers |-> "idle"]
  /\ job = [p \in Printers |-> NoJob]
  /\ panicked = FALSE
  /\ written = <<>> /\ asked = <<>>

-----------------------------------------------------------------------------
(* The renderer, as functions of [ring, cursor].                            *)

PhysicalIndex(g, logical) == (g.start + logical) % MAX_LINES

(* The lines already drawn are not marked.                                  *)
ScrollUpUnmarked(t) ==
  LET g == t.ring
      new == IF g.count < MAX_LINES THEN PhysicalIndex(g, g.count) ELSE g.start
      count == SmallerOf(g.count + 1, MAX_LINES)
      start == IF g.count < MAX_LINES THEN g.start ELSE (g.start + 1) % MAX_LINES
  IN [ring |-> [lines |-> [g.lines EXCEPT ![new] = Line],
                dirty |-> g.dirty \cup {new}, start |-> start, count |-> count],
      cursor |-> [t.cursor EXCEPT !.line = count - 1]]

(* scroll_up takes a further line of the ring, or the oldest one when all   *)
(* are in use, and marks all lines in use.                                  *)
ScrollUp(t) ==
  LET g == t.ring
      new == IF g.count < MAX_LINES THEN PhysicalIndex(g, g.count) ELSE g.start
      count == SmallerOf(g.count + 1, MAX_LINES)
      start == IF g.count < MAX_LINES THEN g.start ELSE (g.start + 1) % MAX_LINES
      moved == [lines |-> [g.lines EXCEPT ![new] = Line],
                dirty |-> g.dirty, start |-> start, count |-> count]
  IN [ring |-> [moved EXCEPT !.dirty = @ \cup {PhysicalIndex(moved, i) : i \in 0 .. (count - 1)}],
      cursor |-> [t.cursor EXCEPT !.line = count - 1]]

NextLine(t) ==
  LET u == [t EXCEPT !.cursor = [line |-> @.line + 1, col |-> 0]]
  IN IF u.cursor.line >= t.ring.count THEN ScrollUp(u) ELSE u

(* get_line_mut and set_char, then the cursor.                              *)
SetChar(t, ch) ==
  LET at == PhysicalIndex(t.ring, t.cursor.line)
      put == IF t.cursor.line < t.ring.count /\ t.cursor.col < size.cols
             THEN [t.ring EXCEPT !.lines[at][t.cursor.col] = ch, !.dirty = @ \cup {at}]
             ELSE t.ring
      u == [ring |-> put, cursor |-> [t.cursor EXCEPT !.col = @ + 1]]
  IN IF u.cursor.col >= size.cols THEN NextLine(u) ELSE u

(* after[n] holds the one state after n spaces.                             *)
Tab(t) ==
  LET after[n \in 0 .. 4] == IF n = 0 THEN {t} ELSE {SetChar(u, Blank) : u \in after[n - 1]}
  IN CHOOSE u \in after[4 - (t.cursor.col % 4)] : TRUE

WriteChar(ch) ==
  LET t == [ring |-> ring, cursor |-> cursor]
      u == CASE ch = "nl" -> NextLine(t)
             [] ch = "cr" -> [t EXCEPT !.cursor.col = 0]
             [] ch = "tab" -> Tab(t)
             [] OTHER -> SetChar(t, ch)
  IN ring' = u.ring /\ cursor' = u.cursor

(* render_dirty draws the dirty lines of the last rows.                     *)
DisplayStart == ring.count - SmallerOf(size.rows, ring.count)
RowLine(r) == PhysicalIndex(ring, DisplayStart + r)
RenderDirty ==
  /\ fb' = [r \in DOMAIN fb |->
              IF RowLine(r) \in ring.dirty THEN ring.lines[RowLine(r)] ELSE fb[r]]
  /\ ring' = [ring EXCEPT !.dirty = @ \ {RowLine(r) : r \in DOMAIN fb}]
  /\ UNCHANGED cursor

-----------------------------------------------------------------------------
(* println! and print!.                                                     *)

Go(p, label) == pc' = [pc EXCEPT ![p] = label]

(* LINE_WRITER_POS keeps its value.                                         *)
NewNoReset(p, text) ==
  /\ ~panicked /\ pc[p] = "idle"
  /\ mode.alone => \A q \in Printers : pc[q] = "idle"
  /\ Go(p, "format")
  /\ job' = [job EXCEPT ![p].pieces = text]
  /\ asked' = IF mode.alone THEN text ELSE <<>>
  /\ UNCHANGED <<mode, size, renderer, lock, writer, panicked, written>>

(* LineWriter::new.                                                         *)
New(p, text) ==
  /\ ~panicked /\ pc[p] = "idle"
  /\ mode.alone => \A q \in Printers : pc[q] = "idle"
  /\ pos' = 0
  /\ Go(p, "format")
  /\ job' = [job EXCEPT ![p].pieces = text]
  /\ asked' = IF mode.alone THEN text ELSE <<>>
  /\ UNCHANGED <<mode, size, renderer, lock, buffer, panicked, written>>

Piece(p) == Head(job[p].pieces)

(* The bytes already in the buffer are not counted.                         *)
ToCopyWhole(p) == SmallerOf(Len(Piece(p)), SIZE)

(* What is left of the buffer limits the copy.                              *)
ToCopy(p) == SmallerOf(Len(Piece(p)), SIZE - pos)

(* write_str copies behind the position it reads, and later adds to it.     *)
Copy(p) ==
  /\ ~panicked /\ pc[p] = "format" /\ job[p].pieces # <<>> /\ pos <= SIZE
  /\ buffer' = [i \in 1 .. SIZE |->
                  IF i \in (pos + 1) .. (pos + ToCopy(p)) THEN Piece(p)[i - pos] ELSE buffer[i]]
  /\ job' = [job EXCEPT ![p] = [@ EXCEPT !.n = ToCopy(p), !.pieces = Tail(@)]]
  /\ Go(p, "advance")
  /\ UNCHANGED <<mode, size, renderer, lock, pos, panicked, written, asked>>

Advance(p) ==
  /\ ~panicked /\ pc[p] = "advance"
  /\ pos' = pos + job[p].n
  /\ job' = [job EXCEPT ![p].n = 0]
  /\ Go(p, "format")
  /\ UNCHANGED <<mode, size, renderer, lock, buffer, panicked, written, asked>>

(* The position is past the end: len() - pos overflows, which the checked   *)
(* build turns into a panic; what the panic handler prints is left out.     *)
Overrun(p) ==
  /\ ~panicked /\ pc[p] = "format" /\ job[p].pieces # <<>> /\ pos > SIZE
  /\ panicked' = TRUE
  /\ UNCHANGED <<mode, size, renderer, lock, writer, pc, job, written, asked>>

(* The slice of finish has the length pos had and the buffer's later bytes. *)
Finish(p) ==
  /\ ~panicked /\ pc[p] = "format" /\ job[p].pieces = <<>>
  /\ job' = [job EXCEPT ![p].n = pos, ![p].next = 1]
  /\ Go(p, "lock")
  /\ UNCHANGED <<mode, size, renderer, lock, writer, panicked, written, asked>>

(* The lock is taken whether it is free or not.                             *)
LockAnyway(p) ==
  /\ ~panicked /\ pc[p] = "lock"
  /\ lock' = TRUE /\ written' = <<>>
  /\ Go(p, "write")
  /\ UNCHANGED <<mode, size, renderer, writer, job, panicked, asked>>

Lock(p) ==
  /\ ~panicked /\ pc[p] = "lock" /\ ~lock
  /\ lock' = TRUE /\ written' = <<>>
  /\ Go(p, "write")
  /\ UNCHANGED <<mode, size, renderer, writer, job, panicked, asked>>

(* write_text, byte by byte; behind the buffer any byte is read.            *)
Byte(i) == IF i <= SIZE THEN {buffer[i]} ELSE Bytes

(* The loop over the slice does not go on to the next byte.                 *)
WriteTextStuck(p) ==
  /\ ~panicked /\ pc[p] = "write" /\ job[p].next <= job[p].n
  /\ \E ch \in Byte(job[p].next) : WriteChar(ch)
  /\ written' = <<>>
  /\ UNCHANGED <<mode, size, fb, lock, writer, pc, job, panicked, asked>>

WriteText(p) ==
  /\ ~panicked /\ pc[p] = "write" /\ job[p].next <= job[p].n
  /\ \E ch \in Byte(job[p].next) :
       /\ WriteChar(ch)
       /\ written' = IF mode.alone THEN Append(written, ch) ELSE <<>>
  /\ job' = [job EXCEPT ![p].next = @ + 1]
  /\ UNCHANGED <<mode, size, fb, lock, writer, pc, panicked, asked>>

(* The lines are drawn and the lock is given back.                          *)
Render(p) ==
  /\ ~panicked /\ pc[p] = "write" /\ job[p].next > job[p].n
  /\ RenderDirty
  /\ lock' = FALSE
  /\ Go(p, "idle") /\ job' = [job EXCEPT ![p] = NoJob]
  /\ written' = <<>> /\ asked' = <<>>
  /\ UNCHANGED <<mode, size, writer, panicked>>

Step(p) ==
  Copy(p) \/ Advance(p) \/ Overrun(p) \/ Finish(p) \/ Lock(p) \/ WriteText(p) \/ Render(p)

Next == \E p \in Printers : Step(p) \/ \E text \in mode.texts : New(p, text)

Spec == Init /\ [][Next]_vars /\ \A p \in Printers : WF_vars(Step(p))

-----------------------------------------------------------------------------
(* Properties.                                                              *)

TypeOK ==
  /\ ring.start \in 0 .. (MAX_LINES - 1) /\ ring.count \in size.rows .. MAX_LINES
  /\ cursor.line \in 0 .. (ring.count - 1) /\ cursor.col \in 0 .. (size.cols - 1)
  /\ mode.alone => pos \in 0 .. SIZE

(* Whatever the processes print at the same time, the framebuffer behaves   *)
(* as a scrolling screen: the ring, its start and the dirty bits do not     *)
(* show.                                                                    *)
TheScreen ==
  INSTANCE Screen WITH
    text <- [grid |-> [r \in DOMAIN fb |-> ring.lines[RowLine(r)]],
             row |-> cursor.line - DisplayStart, col |-> cursor.col],
    shown <- fb
IsScreen == TheScreen!Spec

(* One process at a time: what is drawn is its text, cut off at the size of *)
(* the buffer, across all pieces that write_str is called with.             *)
Flat(text) ==
  LET upto[n \in 0 .. Len(text)] == IF n = 0 THEN <<>> ELSE upto[n - 1] \o text[n]
  IN upto[Len(text)]
WholeText ==
  \A p \in Printers :
    mode.alone /\ pc[p] = "write" /\ job[p].next > job[p].n =>
      written = SubSeq(Flat(asked), 1, SmallerOf(SIZE, Len(Flat(asked))))

(* The renderer is used by one process at a time, and the lock is free when *)
(* none uses it; cursor and ring stay within the screen.                    *)
OneWriter ==
  /\ TypeOK
  /\ lock <=> \E p \in Printers : pc[p] = "write"
  /\ \A p, q \in Printers : pc[p] = "write" /\ pc[q] = "write" => p = q

(* A print that has the renderer comes to an end, also if its slice is not  *)
(* its own text any more; alone, every print does.                          *)
PrintsEnd ==
  \A p \in Printers :
    pc[p] = "write" \/ (mode.alone /\ pc[p] # "idle") ~> pc[p] = "idle" \/ panicked
================================================================================
