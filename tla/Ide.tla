--------------------------------- MODULE Ide ---------------------------------
(***************************************************************************)
(* The IDE driver (ide/src/lib.rs) on one channel with one drive: reads    *)
(* that wait for an interrupt per sector, writes that poll, IDE_LOCK, the  *)
(* interrupt handler, and the detection of the drive.                      *)
(*                                                                         *)
(* The drive is external and is modelled from how the driver uses it: it   *)
(* works on a command on its own, sets BSY, DRQ and ERR or DF, and asserts *)
(* INTRQ, which reading the status register or a new command negates.  Its *)
(* interrupt is an edge that waits (irr) until the CPU takes it.           *)
(*                                                                         *)
(* A sector is one value; the padding of the last sector of a write, the   *)
(* split of an LBA over registers and the error codes of print_error are   *)
(* left out.  Writing the HOB bit for LBA48 is not: it also clears nIEN.   *)
(***************************************************************************)
EXTENDS Integers, Sequences, FiniteSets

CONSTANTS
  Callers,   \* the processes that use the driver
  Masked,    \* those in a system call, which runs with interrupts off
  Requests,  \* Requests[t]: what t asks for, [op, lba, n] or [op, lba, data]
  Kinds,     \* what may be attached: "ata", "other" or "none"
  MayFail,   \* whether a drive may end a command with ERR or DF set
  LastLba,   \* the last sector of the drive
  MAX_SECTORS_PER_TRANSFER

Lba == 0 .. LastLba

(* No sector: none sent yet, and what an idle data port reads.              *)
NoData == -1
Junk == -2

ASSUME IdeConstants ==
  /\ Masked \subseteq Callers
  /\ Kinds \subseteq {"ata", "other", "none"}
  /\ MayFail \in BOOLEAN
  /\ LastLba \in Nat
  /\ MAX_SECTORS_PER_TRANSFER \in Nat \ {0}

VARIABLES
  hw,        \* the drive: its kind, LBA48, whether it may exceed a timeout
  dev,       \* what the drive is doing
  cache,     \* its sectors as a read returns them
  media,     \* those that survive a loss of power
  nien,      \* the nIEN bit of the control register
  intrq,     \* INTRQ
  irr,       \* an interrupt waits for the CPU
  flag,      \* IDE_PRIMARY_IRQ
  lock,      \* IDE_LOCK
  boot,      \* how far detect_device is: identify, poll, done
  reserved,  \* IdeDevice.reserved: the drive was detected
  pc,        \* pc[t]: where the caller t is
  req,       \* req[t]: its arguments
  io         \* locals of the holder of IDE_LOCK: done, s, buffer

drive == <<dev, cache, media>>
lines == <<nien, intrq, irr>>
calls == <<pc, req>>
vars == <<hw, drive, lines, flag, lock, boot, reserved, calls, io>>

Idle == [phase |-> "idle", cmd |-> "none", lba |-> 0, left |-> 0,
         data |-> NoData, fault |-> FALSE]

NoRequest == [op |-> "read", lba |-> 0, n |-> 0]

Fresh == [done |-> 0, s |-> 0, buffer |-> << >>]

(* Sector l holds l at first, so that no two sectors are alike.             *)
Init ==
  /\ hw \in [kind : Kinds, lba48 : BOOLEAN, late : BOOLEAN]
  /\ dev = Idle
  /\ cache = [l \in Lba |-> l] /\ media = cache
  /\ nien = FALSE /\ intrq = FALSE /\ irr = FALSE /\ flag = FALSE
  /\ lock = FALSE
  /\ boot = "identify" /\ reserved = FALSE
  /\ pc = [t \in Callers |-> "idle"]
  /\ req = [t \in Callers |-> NoRequest]
  /\ io = Fresh

Total(t) == IF req[t].op = "read" THEN req[t].n ELSE Len(req[t].data)

Busy == dev.phase = "busy"

-----------------------------------------------------------------------------
(* The drive.                                                               *)

(* Only a rising INTRQ with nIEN clear is an interrupt.                     *)
AssertIntrq ==
  /\ intrq' = TRUE
  /\ irr' = (irr \/ (~intrq /\ ~nien))
  /\ UNCHANGED nien

(* A command ends with an error.  A drive that is no ATA disk answers       *)
(* IDENTIFY so.                                                             *)
DriveFails ==
  /\ Busy
  /\ MayFail \/ hw.kind = "other"
  /\ dev' = [Idle EXCEPT !.fault = TRUE]
  /\ AssertIntrq
  /\ UNCHANGED <<cache, media>>

(* A sector to read, or the answer to IDENTIFY, is ready.                   *)
DriveReads ==
  /\ Busy /\ dev.cmd \in {"read", "identify"} /\ hw.kind = "ata"
  /\ dev' = [dev EXCEPT !.phase = "drq"]
  /\ AssertIntrq
  /\ UNCHANGED <<cache, media>>

(* The first DRQ of a write comes without INTRQ.                            *)
DriveTakes ==
  /\ Busy /\ dev.cmd = "write" /\ dev.data = NoData
  /\ dev' = [dev EXCEPT !.phase = "drq"]
  /\ UNCHANGED <<cache, media, lines>>

(* The sector received is in the drive's cache.                             *)
DriveStores ==
  /\ Busy /\ dev.cmd = "write" /\ dev.data # NoData
  /\ cache' = [cache EXCEPT ![dev.lba] = dev.data]
  /\ dev' = IF dev.left = 1 THEN Idle
            ELSE [dev EXCEPT !.phase = "drq", !.lba = @ + 1, !.left = @ - 1]
  /\ AssertIntrq
  /\ UNCHANGED media

DriveFlushes ==
  /\ Busy /\ dev.cmd = "flush"
  /\ media' = cache
  /\ dev' = Idle
  /\ AssertIntrq
  /\ UNCHANGED cache

Drive ==
  /\ DriveFails \/ DriveReads \/ DriveTakes \/ DriveStores \/ DriveFlushes
  /\ UNCHANGED <<hw, flag, lock, boot, reserved, calls, io>>

(* The command register.  A drive that is busy does not take a command.     *)
Command(cmd, lba, n) ==
  IF Busy THEN UNCHANGED <<dev, intrq>>
  ELSE /\ dev' = [Idle EXCEPT !.phase = "busy", !.cmd = cmd, !.lba = lba, !.left = n]
       /\ intrq' = FALSE

(* nIEN is cleared.  An INTRQ that it held back may become an interrupt     *)
(* now; drives differ.                                                      *)
EnableIrq ==
  /\ nien' = FALSE
  /\ irr' \in {irr, irr \/ (nien /\ intrq)}

-----------------------------------------------------------------------------
(* Interrupts.                                                              *)

InterruptsOn == \A u \in Masked : pc[u] = "idle"

(* ide_primary_irq_handler: the read of the status negates INTRQ.           *)
IrqHandler ==
  /\ irr /\ InterruptsOn
  /\ irr' = FALSE /\ intrq' = FALSE
  /\ flag' = (flag \/ ~Busy)
  /\ UNCHANGED <<hw, drive, nien, lock, boot, reserved, calls, io>>

(* t has the CPU: no other process runs with interrupts off, and an         *)
(* interrupt that waits is taken first unless the hardware is slow.         *)
Runs(t) ==
  /\ \A u \in Masked \ {t} : pc[u] = "idle"
  /\ irr /\ InterruptsOn => hw.late

(* A loop that waits for something the drive has to do reaches its limit:   *)
(* the drive is too slow, or has nothing left to do.                        *)
GivesUp == hw.late \/ (~Busy /\ ~(irr /\ InterruptsOn))

-----------------------------------------------------------------------------
(* detect_device, called by ide_init from kmain.                            *)

(* IDENTIFY; a status of zero means that there is no drive.                 *)
Identify ==
  /\ boot = "identify"
  /\ IF hw.kind = "none"
     THEN boot' = "done" /\ UNCHANGED <<dev, intrq>>
     ELSE boot' = "poll" /\ Command("identify", 0, 0)
  /\ UNCHANGED <<hw, cache, media, nien, irr, flag, lock, reserved, calls, io>>

IdentifyDone ==
  /\ boot = "poll" /\ (irr => hw.late)
  /\ dev.phase = "drq" \/ dev.fault \/ GivesUp
  /\ boot' = "done"
  /\ reserved' = (dev.phase = "drq")
  /\ dev' = IF dev.phase = "drq" THEN Idle ELSE dev
  /\ intrq' = FALSE
  /\ UNCHANGED <<hw, cache, media, nien, irr, flag, lock, calls, io>>

-----------------------------------------------------------------------------
(* ide_read_sectors and ide_write_sectors.                                  *)

Call(t, r) ==
  /\ boot = "done" /\ pc[t] = "idle" /\ Runs(t)
  /\ pc' = [pc EXCEPT ![t] = "lock"]
  /\ req' = [req EXCEPT ![t] = r]
  /\ UNCHANGED <<hw, drive, lines, flag, lock, boot, reserved, io>>

At(t, place) == pc[t] = place /\ Runs(t)

Goto(t, place) == pc' = [pc EXCEPT ![t] = place] /\ UNCHANGED req

(* ide_unlock and return: 0 from Finish, an error code from anywhere else.  *)
Return(t) ==
  /\ lock' = FALSE
  /\ pc' = [pc EXCEPT ![t] = "idle"]
  /\ req' = [req EXCEPT ![t] = NoRequest]
  /\ io' = Fresh

(* ide_lock; a drive that was not detected is refused.                      *)
Lock(t) ==
  /\ At(t, "lock") /\ ~lock
  /\ IF reserved
     THEN lock' = TRUE /\ Goto(t, "loop") /\ UNCHANGED io
     ELSE Return(t)
  /\ UNCHANGED <<hw, drive, lines, flag, boot, reserved>>

(* Mutant: every command is for MAX_SECTORS_PER_TRANSFER sectors.           *)
CountFull(t) == MAX_SECTORS_PER_TRANSFER

(* The sectors of the next command.                                         *)
Count(t) ==
  LET rest == Total(t) - io.done
  IN  IF rest < MAX_SECTORS_PER_TRANSFER THEN rest ELSE MAX_SECTORS_PER_TRANSFER

(* Mutant: a read does not clear the flag that earlier commands left.       *)
StartCommandStale(t) ==
  /\ At(t, "loop") /\ io.done < Total(t)
  /\ IF req[t].op = "read" THEN UNCHANGED nien ELSE nien' = TRUE
  /\ Goto(t, "select")
  /\ UNCHANGED <<hw, drive, intrq, irr, flag, lock, boot, reserved, io>>

(* clear_irq or nIEN, up to the wait for BSY in select_drive.               *)
StartCommand(t) ==
  /\ At(t, "loop") /\ io.done < Total(t)
  /\ IF req[t].op = "read" THEN flag' = FALSE /\ UNCHANGED nien
     ELSE nien' = TRUE /\ UNCHANGED flag
  /\ Goto(t, "select")
  /\ UNCHANGED <<hw, drive, intrq, irr, lock, boot, reserved, io>>

(* Mutant: the second command starts where the first one did.               *)
FirstSectorSame(t) == req[t].lba

FirstSector(t) == req[t].lba + io.done

(* select_drive ignores the result of poll_bsy.                             *)
IssueCommand(t) ==
  /\ At(t, "select")
  /\ ~Busy \/ GivesUp
  /\ Command(req[t].op, FirstSector(t), Count(t))
  /\ IF hw.lba48 THEN EnableIrq ELSE UNCHANGED <<nien, irr>>
  /\ Goto(t, IF req[t].op = "read" THEN "wait" ELSE "drq")
  /\ UNCHANGED <<hw, cache, media, flag, lock, boot, reserved, io>>

Finish(t) ==
  /\ At(t, "loop") /\ io.done >= Total(t)
  /\ Return(t)
  /\ UNCHANGED <<hw, drive, lines, flag, boot, reserved>>

(* The next sector of this command, or the next command.                    *)
Advance(t, again, after) ==
  IF io.s + 1 < Count(t)
  THEN io' = [io EXCEPT !.s = @ + 1] /\ Goto(t, again)
  ELSE io' = io /\ Goto(t, after)

NextCommand(t) ==
  /\ io' = [io EXCEPT !.done = @ + Count(t), !.s = 0]
  /\ Goto(t, "loop")

-----------------------------------------------------------------------------
(* Reading.                                                                 *)

(* wait_irq reaches its limit.                                              *)
IrqTimesOut(t) == At(t, "wait") /\ ~flag /\ GivesUp

(* Mutant: wait_irq has no limit.                                           *)
WaitIrqForever(t) ==
  /\ \/ /\ At(t, "wait") /\ flag
        /\ flag' = FALSE
        /\ Goto(t, "status")
     \/ /\ IrqTimesOut(t)
        /\ UNCHANGED <<flag, calls>>
  /\ UNCHANGED <<hw, drive, lines, boot, reserved, lock, io>>

WaitIrq(t) ==
  /\ \/ /\ At(t, "wait") /\ flag
        /\ flag' = FALSE
        /\ Goto(t, "status")
        /\ UNCHANGED <<lock, io>>
     \/ /\ IrqTimesOut(t)
        /\ Return(t)
        /\ UNCHANGED flag
  /\ UNCHANGED <<hw, drive, lines, boot, reserved>>

(* The status shows no sector and no error: "Timeout / No Response" as well.*)
NoSector(t) == At(t, "status") /\ ~dev.fault /\ dev.phase # "drq"

(* The status, and the sector if DRQ is set.  A drive in a write puts no    *)
(* sector on the bus.                                                       *)
ReadSector(t) ==
  /\ At(t, "status")
  /\ intrq' = FALSE
  /\ \/ /\ dev.fault \/ NoSector(t)
        /\ Return(t)
        /\ UNCHANGED dev
     \/ /\ dev.phase = "drq"
        /\ io' = [io EXCEPT !.buffer =
                    Append(@, IF dev.cmd = "read" THEN cache[dev.lba] ELSE Junk)]
        /\ dev' = IF dev.cmd # "read" THEN dev
                  ELSE IF dev.left = 1 THEN Idle
                  ELSE [dev EXCEPT !.phase = "busy", !.lba = @ + 1, !.left = @ - 1]
        /\ Goto(t, "clear")
        /\ UNCHANGED lock
  /\ UNCHANGED <<hw, cache, media, nien, irr, flag, boot, reserved>>

(* clear_irq after the sector.                                              *)
ClearIrq(t) ==
  /\ At(t, "clear")
  /\ flag' = FALSE
  /\ IF io.s + 1 < Count(t)
     THEN io' = [io EXCEPT !.s = @ + 1] /\ Goto(t, "wait")
     ELSE NextCommand(t)
  /\ UNCHANGED <<hw, drive, lines, lock, boot, reserved>>

-----------------------------------------------------------------------------
(* Writing.                                                                 *)

(* Mutant: an error path of the write leaves nIEN set.                      *)
WriteReturnMasked(t) == Return(t) /\ UNCHANGED <<nien, irr>>

WriteReturn(t) == Return(t) /\ EnableIrq

(* poll_drq, and the sector.  A drive in a read takes no sector.            *)
PollDrq(t) ==
  /\ At(t, "drq")
  /\ \/ /\ dev.phase = "drq"
        /\ dev' = IF dev.cmd # "write" THEN dev
                  ELSE [dev EXCEPT !.phase = "busy",
                                   !.data = req[t].data[io.done + io.s + 1]]
        /\ Goto(t, "bsy")
        /\ UNCHANGED <<nien, irr, lock, io>>
     \/ /\ dev.phase # "drq" /\ (dev.fault \/ GivesUp)
        /\ WriteReturn(t)
        /\ UNCHANGED dev
  /\ UNCHANGED <<hw, cache, media, intrq, flag, boot, reserved>>

(* poll_bsy, and the status.                                                *)
PollBsy(t) ==
  /\ At(t, "bsy")
  /\ \/ /\ Busy /\ GivesUp
        /\ WriteReturn(t)
        /\ UNCHANGED intrq
     \/ /\ ~Busy /\ dev.fault
        /\ intrq' = FALSE
        /\ Return(t)
        /\ nien' = FALSE /\ UNCHANGED irr
     \/ /\ ~Busy /\ ~dev.fault
        /\ intrq' = FALSE
        /\ Advance(t, "drq", "flush")
        /\ UNCHANGED <<nien, irr, lock>>
  /\ UNCHANGED <<hw, drive, flag, boot, reserved>>

(* Mutant: the cache of the drive is not flushed.                           *)
FlushSkipped(t) ==
  /\ At(t, "flush")
  /\ Goto(t, "flushed")
  /\ UNCHANGED <<hw, drive, lines, flag, lock, boot, reserved, io>>

Flush(t) ==
  /\ At(t, "flush")
  /\ Command("flush", 0, 0)
  /\ Goto(t, "flushed")
  /\ UNCHANGED <<hw, cache, media, nien, irr, flag, lock, boot, reserved, io>>

(* The result of this poll_bsy, and the status, are not looked at.          *)
Flushed(t) ==
  /\ At(t, "flushed")
  /\ ~Busy \/ GivesUp
  /\ EnableIrq
  /\ NextCommand(t)
  /\ UNCHANGED <<hw, drive, intrq, flag, lock, boot, reserved>>

-----------------------------------------------------------------------------
Step(t) ==
  \/ StartCommand(t) \/ IssueCommand(t) \/ Finish(t)
  \/ WaitIrq(t) \/ ReadSector(t) \/ ClearIrq(t)
  \/ PollDrq(t) \/ PollBsy(t) \/ Flush(t) \/ Flushed(t)

Next ==
  \/ Drive \/ IrqHandler
  \/ Identify \/ IdentifyDone
  \/ \E t \in Callers : (\E r \in Requests[t] : Call(t, r)) \/ Lock(t) \/ Step(t)

Spec == Init /\ [][Next]_vars

(* The holder of IDE_LOCK gets the CPU again and again, the CPU takes       *)
(* interrupts, and a drive that is not late gets on with its command.       *)
FairSpec ==
  /\ Spec
  /\ WF_vars(Drive /\ ~hw.late)
  /\ WF_vars(IrqHandler)
  /\ \A t \in Callers : WF_vars(Step(t))

-----------------------------------------------------------------------------
(* Properties.                                                              *)

Places == {"idle", "lock", "loop", "select", "wait", "status", "clear", "drq",
           "bsy", "flush", "flushed"}

Inside(t) == pc[t] \notin {"idle", "lock"}

(* The lock holder's progress stays within what it was asked for.           *)
TypeOK ==
  /\ dev.phase \in {"idle", "busy", "drq"}
  /\ dev.lba \in Lba /\ dev.left \in 0 .. MAX_SECTORS_PER_TRANSFER
  /\ {nien, intrq, irr, flag, lock, reserved} \subseteq BOOLEAN
  /\ boot \in {"identify", "poll", "done"}
  /\ pc \in [Callers -> Places]
  /\ \A t \in Callers :
       Inside(t) => /\ io.done + io.s <= Total(t)
                    /\ req[t].op = "read" => Len(io.buffer) <= Total(t)

(* Every path out of ide_read_sectors and ide_write_sectors, error or not,  *)
(* gives IDE_LOCK back and leaves the drive's interrupts on, and there is   *)
(* never a second caller inside, whose progress stays within its request.   *)
Released ==
  /\ TypeOK
  /\ lock <=> \E t \in Callers : Inside(t)
  /\ \A t, u \in Callers : Inside(t) /\ Inside(u) => t = u
  /\ nien => lock

(* A read that is about to return 0 has put the sectors asked for into the  *)
(* buffer, in order, whatever interrupts and failures of earlier calls came *)
(* before it, as long as the drive keeps within the timeouts.               *)
ReadExact ==
  \A t \in Callers :
    pc[t] = "loop" /\ req[t].op = "read" /\ io.done = Total(t) /\ ~hw.late
      => io.buffer = [i \in 1 .. Total(t) |-> cache[req[t].lba + i - 1]]

(* A write that is about to return 0 has all of its sectors on the media,   *)
(* unless the drive failed the flush.                                       *)
WriteDurable ==
  \A t \in Callers :
    /\ pc[t] = "loop" /\ req[t].op = "write" /\ io.done = Total(t)
    /\ ~dev.fault /\ ~hw.late
    => \A i \in 1 .. Total(t) : media[req[t].lba + i - 1] = req[t].data[i]

(* The drive's sectors change only to what a caller in ide_write_sectors    *)
(* gave for that very sector, also after a call that failed half-way.       *)
WritesInPlace ==
  ~hw.late =>
    \A l \in Lba : cache'[l] # cache[l] =>
      \E t \in Callers :
        /\ Inside(t) /\ req[t].op = "write"
        /\ l \in req[t].lba .. req[t].lba + Total(t) - 1
        /\ cache'[l] = req[t].data[l - req[t].lba + 1]

(* Data go between the caller's buffer and the sectors asked for, exactly,  *)
(* in both directions and across the commands a transfer is split into.     *)
TransfersExact == [][WritesInPlace /\ ReadExact' /\ WriteDurable']_vars

(* A read of one sector never reports "Timeout / No Response" of a drive    *)
(* that answers in time: its interrupt is neither lost nor confused with an *)
(* earlier one.                                                             *)
OneSectorAnswered ==
  ~hw.late =>
    \A t \in Callers :
      Total(t) = 1 => ~(req[t].op = "read" /\ (IrqTimesOut(t) \/ NoSector(t)))

(* A caller that has IDE_LOCK returns and gives it back, also when the      *)
(* drive never answers.                                                     *)
CallsReturn == \A t \in Callers : Inside(t) ~> ~Inside(t)
=============================================================================
