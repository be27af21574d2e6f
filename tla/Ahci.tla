--------------------------------- MODULE Ahci ---------------------------------
(***************************************************************************)
(* The AHCI driver (ahci/src/lib.rs): init_ahci after the PCI walk, the    *)
(* rebasing of the ports with a drive, and ahci_read and ahci_write, which *)
(* use command slot 0 of a port under AHCI_LOCK and poll until the         *)
(* controller clears the slot's bit in CI or the loop has run out.         *)
(*                                                                         *)
(* The controller is external: it starts and stops the engines of a port   *)
(* after the bits of CMD, and takes up the command of slot 0 on its own.   *)
(* The two calls differ in the command code only.  A command is the caller *)
(* it is for; the bytes of its FIS and PRDT, and the data, are left out.   *)
(* frames and window count what alloc_frame and map_mmio (module Memory)   *)
(* can still give.                                                         *)
(***************************************************************************)
EXTENDS Pci

CONSTANTS
  Callers,     \* processes that read and write
  Ports,       \* the implemented ports: a finite set of numbers
  SLOTS        \* command slots of a port (32)

(* A machine has, besides its functions: bar, whether BAR 5 of its AHCI     *)
(* controller is set; drives, what is at each port; on, whether the firmware*)
(* left the ports running; frames and window, the frames and the pages of   *)
(* the MMIO window left; late, whether a command may outlast the poll loop  *)
(* or never end.                                                            *)
ASSUME AhciConstants ==
  /\ Ports \subseteq Nat /\ SLOTS \in Nat \ {0}
  /\ \A m \in Machines :
       /\ m.drives \in [Ports -> {"sata", "satapi", "other"}]
       /\ m.bar \in BOOLEAN /\ m.on \in BOOLEAN /\ m.late \in BOOLEAN
       /\ m.frames \in Nat /\ m.window \in Nat

VARIABLES
  phase,    \* "pci", "probe" or "up"
  at,       \* probe_ports: the port it is at and the step of rebase_port
  frames,   \* frames left
  window,   \* pages of the MMIO window left
  port,     \* port[p]: registers and the command of slot 0
  lock,     \* AHCI_LOCK
  pc,       \* pc[c]: idle, lock, check, table, poll
  request,  \* request[c]: the port it asks
  result,   \* result[c]: what its last call has returned
  done      \* done[c]: the controller has executed its last command

boot == <<phase, at, frames>>
calls == <<pc, request, result>>
vars == <<pciVars, boot, window, port, lock, calls, done>>

None == "none"
NoPort == -1

Init ==
  /\ PciInit
  /\ phase = "pci" /\ at = [port |-> 0, step |-> None]
  /\ frames = machine.frames /\ window = machine.window
  /\ port = [p \in Ports |->
       [st |-> machine.on, fre |-> machine.on, cr |-> machine.on, fr |-> machine.on,
        own |-> FALSE, ci |-> FALSE, command |-> None]]
  /\ lock = FALSE
  /\ pc = [c \in Callers |-> "idle"]
  /\ request = [c \in Callers |-> NoPort]
  /\ result = [c \in Callers |-> None]
  /\ done = [c \in Callers |-> FALSE]

Walk == PciStep /\ UNCHANGED <<boot, window, port, lock, calls, done>>

-----------------------------------------------------------------------------
(* init_ahci and probe_ports.                                               *)

ABAR_PAGES == 4

(* init_ahci has found a controller and mapped its registers.               *)
Mapped == FindClass("ahci") # {} /\ machine.bar /\ machine.window >= ABAR_PAGES

(* probe_ports rebases the ports with a SATA or SATAPI drive, in order.     *)
ToRebase(after) == {p \in Ports : p > after /\ machine.drives[p] \in {"sata", "satapi"}}
Goto(p) ==
  IF ToRebase(p) = {} THEN /\ phase' = "up" /\ at' = [port |-> 0, step |-> None]
  ELSE /\ phase' = "probe"
       /\ at' = [port |-> CHOOSE q \in ToRebase(p) : \A r \in ToRebase(p) : q <= r,
                 step |-> "stop"]

(* AHCI_LOCK is not given back when the window has no room.                 *)
InitAhciKeepsLock ==
  /\ phase = "pci" /\ PciDone
  /\ IF FindClass("ahci") # {} /\ machine.bar /\ window >= ABAR_PAGES
     THEN window' = window - ABAR_PAGES /\ Goto(-1) /\ lock' = FALSE
     ELSE /\ phase' = "up" /\ UNCHANGED <<window, at>>
          /\ lock' = (FindClass("ahci") # {} /\ machine.bar)
  /\ UNCHANGED <<pciVars, frames, port, calls, done>>

(* The lock is held until the registers are mapped, or an early return.     *)
InitAhci ==
  /\ phase = "pci" /\ PciDone
  /\ IF FindClass("ahci") # {} /\ machine.bar /\ window >= ABAR_PAGES
     THEN window' = window - ABAR_PAGES /\ Goto(-1)
     ELSE phase' = "up" /\ UNCHANGED <<window, at>>
  /\ lock' = FALSE
  /\ UNCHANGED <<pciVars, frames, port, calls, done>>

Rebasing(step) == phase = "probe" /\ at.step = step
Step(step) == at' = [at EXCEPT !.step = step] /\ UNCHANGED phase
Set(p, r) == port' = [port EXCEPT ![p] = r]

(* ST is not cleared.                                                       *)
StopCommandsLeft ==
  /\ Rebasing("stop") /\ Step("cr")
  /\ UNCHANGED <<pciVars, frames, window, port, lock, calls, done>>

(* stop_cmd: stop the command engine and wait, then the FIS engine and wait.*)
StopCommands ==
  /\ Rebasing("stop") /\ Step("cr")
  /\ Set(at.port, [port[at.port] EXCEPT !.st = FALSE])
  /\ UNCHANGED <<pciVars, frames, window, lock, calls, done>>

(* The loop on the CR bit is missing.                                       *)
StopFisAtOnce ==
  /\ Rebasing("cr") /\ Step("fr")
  /\ Set(at.port, [port[at.port] EXCEPT !.fre = FALSE])
  /\ UNCHANGED <<pciVars, frames, window, lock, calls, done>>

StopFis ==
  /\ Rebasing("cr") /\ ~port[at.port].cr /\ Step("fr")
  /\ Set(at.port, [port[at.port] EXCEPT !.fre = FALSE])
  /\ UNCHANGED <<pciVars, frames, window, lock, calls, done>>

Min2(a, b) == IF a < b THEN a ELSE b

(* The rest of rebase_port takes a frame each for the command list and the  *)
(* received FIS, maps both, and does the same for the command table of each *)
(* slot that gets one; without the first two it leaves the port stopped.    *)
RebaseFails ==
  /\ Rebasing("fr") /\ ~port[at.port].fr
  /\ frames < 2 \/ window < 2
  /\ frames' = frames - Min2(frames, 2)
  /\ window' = IF frames < 2 THEN window ELSE 0
  /\ Goto(at.port)
  /\ UNCHANGED <<pciVars, port, lock, calls, done>>

(* Whether the window has room is not looked at.                            *)
RebaseUnchecked ==
  /\ Rebasing("fr") /\ ~port[at.port].fr
  /\ frames >= 2
  /\ LET taken == Min2(SLOTS, frames - 2) IN
     /\ frames' = frames - 2 - taken
     /\ window' = window - 2 - taken
  /\ Set(at.port, [port[at.port] EXCEPT !.own = TRUE])
  /\ Step("start")
  /\ UNCHANGED <<pciVars, lock, calls, done>>

Rebase ==
  /\ Rebasing("fr") /\ ~port[at.port].fr
  /\ frames >= 2 /\ window >= 2
  /\ LET taken == Min2(SLOTS, frames - 2) IN
     /\ frames' = frames - 2 - taken
     /\ window' = window - 2 - Min2(taken, window - 2)
  /\ Set(at.port, [port[at.port] EXCEPT !.own = TRUE])
  /\ Step("start")
  /\ UNCHANGED <<pciVars, lock, calls, done>>

StartCmd ==
  /\ Rebasing("start") /\ ~port[at.port].cr
  /\ Set(at.port, [port[at.port] EXCEPT !.st = TRUE, !.fre = TRUE])
  /\ Goto(at.port)
  /\ UNCHANGED <<pciVars, frames, window, lock, calls, done>>

BootStep ==
  \/ Walk \/ InitAhci \/ StopCommands \/ StopFis
  \/ RebaseFails \/ Rebase \/ StartCmd

-----------------------------------------------------------------------------
(* ahci_read and ahci_write.                                                *)

Go(c, label) == pc' = [pc EXCEPT ![c] = label]
Return(c, r) ==
  /\ Go(c, "idle") /\ lock' = FALSE
  /\ result' = [result EXCEPT ![c] = r]
  /\ request' = [request EXCEPT ![c] = NoPort]
Mine(c) == port[request[c]]

Call(c, p) ==
  /\ phase = "up" /\ Mapped /\ pc[c] = "idle"
  /\ Go(c, "lock")
  /\ request' = [request EXCEPT ![c] = p]
  /\ result' = [result EXCEPT ![c] = None]
  /\ UNCHANGED <<pciVars, boot, window, port, lock, done>>

Lock(c) ==
  /\ pc[c] = "lock" /\ ~lock
  /\ lock' = TRUE /\ Go(c, "check")
  /\ UNCHANGED <<pciVars, boot, window, port, request, result, done>>

(* A command of an earlier call is still in the slot.                       *)
Busy(c) ==
  /\ pc[c] = "check" /\ Mine(c).ci
  /\ Return(c, "failed")
  /\ UNCHANGED <<pciVars, boot, window, port, done>>

(* CI is not looked at.                                                     *)
MapHeaderUnchecked(c) ==
  /\ pc[c] = "check" /\ window >= 1
  /\ window' = window - 1 /\ Go(c, "table")
  /\ UNCHANGED <<pciVars, boot, port, lock, request, result, done>>

MapHeader(c) ==
  /\ pc[c] = "check" /\ ~Mine(c).ci /\ window >= 1
  /\ window' = window - 1 /\ Go(c, "table")
  /\ UNCHANGED <<pciVars, boot, port, lock, request, result, done>>

(* Either map_mmio finds the window exhausted.                              *)
NoWindow(c) ==
  /\ window = 0
  /\ (pc[c] = "check" /\ ~Mine(c).ci) \/ pc[c] = "table"
  /\ Return(c, "failed")
  /\ UNCHANGED <<pciVars, boot, window, port, done>>

(* The command table is cleared and filled, and slot 0 issued.              *)
Issue(c) ==
  /\ pc[c] = "table" /\ window >= 1
  /\ window' = window - 1 /\ Go(c, "poll")
  /\ Set(request[c], [Mine(c) EXCEPT !.ci = TRUE, !.command = c])
  /\ done' = [done EXCEPT ![c] = FALSE]
  /\ UNCHANGED <<pciVars, boot, lock, request, result>>

Completed(c) ==
  /\ pc[c] = "poll" /\ ~Mine(c).ci
  /\ Return(c, "ok")
  /\ UNCHANGED <<pciVars, boot, window, port, done>>

Slow(c) == machine.late \/ ~Mine(c).st

(* The result says nothing of the loop having run out.                      *)
GiveUpTrue(c) ==
  /\ pc[c] = "poll" /\ Slow(c)
  /\ Return(c, "ok")
  /\ UNCHANGED <<pciVars, boot, window, port, done>>

(* The loop never gives up.                                                 *)
GiveUpNever(c) == pc[c] = "poll" /\ Slow(c) /\ UNCHANGED vars

(* timeout is 0: false, also if CI was cleared during the last round.       *)
GiveUp(c) ==
  /\ pc[c] = "poll" /\ Slow(c)
  /\ Return(c, "failed")
  /\ UNCHANGED <<pciVars, boot, window, port, done>>

Inside(c) == Busy(c) \/ MapHeader(c) \/ NoWindow(c) \/ Issue(c) \/ Completed(c) \/ GiveUp(c)

-----------------------------------------------------------------------------
(* The controller.                                                          *)

(* The engines follow ST and FRE; a stopped port forgets its commands.      *)
Engine(p) ==
  /\ port[p].cr # port[p].st \/ port[p].fr # port[p].fre
  /\ \/ Set(p, [port[p] EXCEPT !.cr = port[p].st, !.ci = @ /\ port[p].st])
     \/ Set(p, [port[p] EXCEPT !.fr = port[p].fre])
  /\ port' # port
  /\ UNCHANGED <<pciVars, boot, window, lock, calls, done>>

Execute(p) ==
  /\ port[p].ci /\ port[p].cr
  /\ Set(p, [port[p] EXCEPT !.ci = FALSE, !.command = None])
  /\ done' = [done EXCEPT ![port[p].command] = TRUE]
  /\ UNCHANGED <<pciVars, boot, window, lock, calls>>

ExecuteInTime(p) == ~machine.late /\ Execute(p)

Next ==
  \/ BootStep
  \/ \E c \in Callers, p \in Ports : Call(c, p)
  \/ \E c \in Callers : Lock(c) \/ Inside(c)
  \/ \E p \in Ports : Engine(p) \/ Execute(p)

(* The kernel's own steps are taken while it runs; a process inside is      *)
(* scheduled again; the engines follow their bits.                          *)
Fairness ==
  /\ WF_vars(BootStep)
  /\ \A c \in Callers : WF_vars(Inside(c))
  /\ \A p \in Ports : WF_vars(Engine(p)) /\ WF_vars(ExecuteInTime(p))

Spec == Init /\ [][Next]_vars /\ Fairness

-----------------------------------------------------------------------------
(* Properties.                                                              *)

TypeOK ==
  /\ phase \in {"pci", "probe", "up"}
  /\ frames \in Nat /\ window \in Nat
  /\ \A p \in Ports :
       /\ port[p].command \in {None} \cup Callers
       /\ port[p].ci => port[p].command # None

Within(c) == pc[c] \notin {"idle", "lock"}

(* AHCI_LOCK is held exactly while a call is inside, and by one call: every *)
(* early return of init_ahci, ahci_read and ahci_write gives it back, also  *)
(* when frames or window have run out.                                      *)
LockBalanced ==
  /\ TypeOK
  /\ lock <=> \E c \in Callers : Within(c)
  /\ \A c, d \in Callers : Within(c) /\ Within(d) => c = d

(* A call returns true only if the controller has executed its command,     *)
(* however late an earlier command that was given up is finished.           *)
TrueMeansDone == \A c \in Callers : result[c] = "ok" => done[c]

(* While the bit of slot 0 is set, its command table stays as it is: the    *)
(* command of a call that gave up is not overwritten by the next call's.    *)
TableStable ==
  [][\A p \in Ports :
       port[p].ci /\ port[p].command' # port[p].command => ~port'[p].ci]_vars

(* The bits of a drive's port are only set, once the driver is up, with the *)
(* driver's own command list and FIS area, and clb and fb are not exchanged *)
(* while an engine of the port runs.                                        *)
RunsOnOwn ==
  /\ \A p \in Ports : Rebasing("start") /\ at.port = p => ~port[p].cr /\ ~port[p].fr
  /\ phase = "up" /\ Mapped
       => \A p \in ToRebase(-1) : port[p].st => port[p].own

(* Start-up comes to an end: the walk of the buses, and the loops on the CR *)
(* and FR bits, which have no timeout.                                      *)
StartUpEnds == <>(phase = "up")

(* A call that has the lock returns, whatever the controller does.          *)
CallsReturn == \A c \in Callers : Within(c) ~> pc[c] = "idle"
=============================================================================
