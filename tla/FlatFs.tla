------------------------------- MODULE FlatFs -------------------------------
(***************************************************************************)
(* What the public functions of fat12/src/lib.rs promise: a flat directory *)
(* of named files and subdirectories.  A call takes effect at once, on the *)
(* names it was given and no other; it returns an error, with no effect,   *)
(* only when it is not allowed; or the machine stops and restarts, and the *)
(* call has had no effect, but that the data of a file that was being      *)
(* written may be anything.                                                *)
(***************************************************************************)
EXTENDS Sequences

CONSTANTS
  Names,      \* file names
  LongNames,  \* those among them that are no 8.3 names
  Chunks      \* what a cluster can hold

VARIABLES
  files,   \* files[n]: what the directory holds under name n
  call     \* the call in progress, or Idle, or Stopped

Idle == [call |-> "idle"]

Stopped == [call |-> "off"]

(* data is what the caller passes, to the new name of a rename.             *)
Requests ==
  [call : {"create", "write", "append", "rename", "delete", "mkdir", "rmdir"},
   name : Names, to : Names, data : Seq(Chunks)]

Init == files = << >> /\ call = Idle

(* The documented conditions under which a call fails.                      *)
Allowed(r) ==
  /\ r.call \in {"create", "mkdir"} =>
        r.name \notin DOMAIN files \cup LongNames
  /\ r.call \in {"write", "append", "rename", "delete", "rmdir"} =>
        r.name \in DOMAIN files
  /\ r.call = "create" => r.data # << >>
  /\ r.call = "rename" => r.to \notin DOMAIN files \cup LongNames
  /\ r.call = "rmdir" => files[r.name].kind = "dir"

(* The directory with the entry n removed and the entry m set to c.         *)
Replace(n, m, c) ==
  [k \in (DOMAIN files \ {n}) \cup {m} |-> IF k = m THEN c ELSE files[k]]

Effect(r) ==
  CASE r.call = "create" ->
         Replace(r.name, r.name, [kind |-> "file", data |-> r.data])
    [] r.call = "mkdir" ->
         Replace(r.name, r.name, [kind |-> "dir", data |-> << >>])
    [] r.call = "write" -> [files EXCEPT ![r.name].data = r.data]
    [] r.call = "append" -> [files EXCEPT ![r.name].data = @ \o r.data]
    [] r.call = "rename" -> Replace(r.name, r.to, files[r.name])
    [] OTHER -> [k \in DOMAIN files \ {r.name} |-> files[k]]

Call ==
  /\ call = Idle
  /\ call' \in Requests
  /\ UNCHANGED files

Succeed ==
  /\ call \notin {Idle, Stopped} /\ Allowed(call)
  /\ files' = Effect(call)
  /\ call' = Idle

Fail ==
  /\ call \notin {Idle, Stopped} /\ ~Allowed(call)
  /\ call' = Idle
  /\ UNCHANGED files

(* A panic or the loss of power.  Of a file that was being written the      *)
(* entry is still there.                                                    *)
Halt ==
  /\ call # Stopped
  /\ call' = Stopped
  /\ \/ UNCHANGED files
     \/ /\ call.call \in {"write", "append"}
        /\ call.name \in DOMAIN files
        /\ files' = [files EXCEPT ![call.name].data = files'[call.name].data]

Restart ==
  /\ call = Stopped
  /\ call' = Idle
  /\ UNCHANGED files

Next == Call \/ Succeed \/ Fail \/ Halt \/ Restart

Spec == Init /\ [][Next]_<<files, call>>
=============================================================================
