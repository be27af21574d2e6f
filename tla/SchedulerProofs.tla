--------------------------- MODULE SchedulerProofs ---------------------------
(***************************************************************************)
(* Proofs about Scheduler for every size of the process table, every       *)
(* quantum and every set of services the processes call.                   *)
(***************************************************************************)
EXTENDS Scheduler, TLAPS

(* Slots that exist.                                                        *)
LEMMA PidFacts ==
  /\ 0 \in Pid
  /\ \A p \in Nat : p < MAX_PROCESSES => p \in Pid
  /\ \A p \in Pid : p \in Nat /\ p < MAX_PROCESSES
  BY SchedulerConstants DEF Pid

(* What a tick may do to the process table: st is the table after the       *)
(* sleepers were woken; either nothing else happens, or `current` is left   *)
(* for some process that is Ready in st.                                    *)
LEMMA ScheduleCases ==
  ASSUME NEW st, Schedule(st)
  PROVE  \/ /\ state' = st
            /\ UNCHANGED <<rsp, current, cpu>>
         \/ \E next \in Pid :
               /\ next < count
               /\ st[next] = "Ready"
               /\ SwitchTo(st, next)
  BY DEF Schedule, NextReady

(* The woken table has the same processes, some of them Ready.              *)
LEMMA WokenFacts ==
  ASSUME TypeOK
  PROVE  /\ TicksLeft \in [Pid -> Nat]
         /\ Woken \in [Pid -> LiveStates \cup {"None"}]
         /\ \A p \in Pid : \/ Woken[p] = state[p]
                           \/ /\ p < count
                              /\ state[p] = "Sleeping"
                              /\ TicksLeft[p] = 0
                              /\ Woken[p] = "Ready"
<1>1. TicksLeft \in [Pid -> Nat]
  BY DEF TypeOK, TicksLeft
<1>2. Woken \in [Pid -> LiveStates \cup {"None"}]
  BY DEF TypeOK, Woken, LiveStates
<1>3. ASSUME NEW p \in Pid
      PROVE  \/ Woken[p] = state[p]
             \/ /\ p < count /\ state[p] = "Sleeping" /\ TicksLeft[p] = 0
                /\ Woken[p] = "Ready"
  BY DEF Woken
<1> QED
  BY <1>1, <1>2, <1>3

(* Every variable keeps its type, whatever the processes call.              *)
LEMMA TypeStep == TypeOK /\ [Next]_vars => TypeOK'
<1> SUFFICES ASSUME TypeOK, [Next]_vars PROVE TypeOK'
  OBVIOUS
<1> USE DEF TypeOK, Places, LiveStates
<1>1. CASE HandleTimerInterrupt
  <2>1. /\ count' \in Nat /\ enabled' \in BOOLEAN /\ orphan' \in BOOLEAN
        /\ slots' \in [Pid -> SUBSET Pid] /\ pc' \in [Pid -> Places]
    BY <1>1 DEF HandleTimerInterrupt, EndHlt
  <2>2. CASE ~enabled
    BY <1>1, <2>1, <2>2 DEF HandleTimerInterrupt
  <2>3. CASE enabled
    <3>1. wake' = TicksLeft /\ Schedule(Woken)
      BY <1>1, <2>3 DEF HandleTimerInterrupt
    <3>2. wake' \in [Pid -> Nat]
      BY <3>1, WokenFacts
    <3>3. quantum' \in 0 .. QUANTUM_TICKS
      BY <3>1, SchedulerConstants DEF Schedule
    <3>4. CASE state' = Woken /\ UNCHANGED <<rsp, current, cpu>>
      BY <2>1, <3>2, <3>3, <3>4, WokenFacts
    <3>5. ASSUME NEW next \in Pid, SwitchTo(Woken, next)
          PROVE  TypeOK'
      <4>1. /\ rsp' \in [Pid -> Pid] /\ current' \in Pid /\ cpu' \in Pid
        BY <3>5 DEF SwitchTo
      <4>2. state' \in [Pid -> LiveStates \cup {"None"}]
        BY <3>5, WokenFacts DEF SwitchTo
      <4> QED
        BY <2>1, <3>2, <3>3, <4>1, <4>2
    <3> QED
      BY <3>1, <3>4, <3>5, ScheduleCases
  <2> QED
    BY <2>2, <2>3
<1>2. CASE DeviceInterrupt
  BY <1>2 DEF DeviceInterrupt
<1>3. CASE ProcessStep
  <2>1. CASE YieldProcess \/ BlockCurrent \/ SleepSet \/ ProcessExit
             \/ ExitCurrentProcess
    BY <2>1, SchedulerConstants DEF YieldProcess, BlockCurrent, SleepSet, ProcessExit,
                ExitCurrentProcess, SetCurrent, Goto
  <2>2. ASSUME NEW p \in Pid, UnblockProcess(p) PROVE TypeOK'
    BY <2>2 DEF UnblockProcess, Goto
  <2>3. ASSUME NEW ticks \in SleepTicks, SleepProc(ticks) PROVE TypeOK'
    BY <2>3, SchedulerConstants DEF SleepProc, Goto
  <2>4. CASE SleepReturn
    BY <2>4 DEF SleepReturn, Goto
  <2>5. ASSUME NEW on \in BOOLEAN, SetScheduler(on) PROVE TypeOK'
    BY <2>5 DEF SetScheduler
  <2>6. CASE CreateProcess \/ CreateFail
    <3>1. slots' \in [Pid -> SUBSET Pid]
      BY <2>6, PidFacts DEF CreateProcess, CreateFail
    <3> QED
      BY <2>6, <3>1 DEF CreateProcess, CreateFail, Goto
  <2>7. CASE CreateFinish
    BY <2>7, PidFacts DEF CreateFinish, FillSlot
  <2>8. CASE BootCreate
    BY <2>8, PidFacts, SchedulerConstants DEF BootCreate, FillSlot
  <2>9. CASE StartScheduler
    BY <2>9, PidFacts, SchedulerConstants DEF StartScheduler, Goto
  <2>10. ASSUME NEW p \in Pid, DestroyProcess(p) \/ CleanupSlot(p) PROVE TypeOK'
    <3>1. TakeSlot(p) \/ UNCHANGED <<state, current, orphan>>
      BY <2>10 DEF DestroyProcess, CleanupSlot
    <3>2. state' \in [Pid -> LiveStates \cup {"None"}] /\ current' \in Pid
      BY <3>1, PidFacts DEF TakeSlot
    <3>3. orphan' \in BOOLEAN
      BY <3>1, Zenon DEF TakeSlot
    <3>4. slots' \in [Pid -> SUBSET Pid]
      BY <2>10 DEF DestroyProcess, CleanupSlot
    <3> QED
      BY <2>10, <3>2, <3>3, <3>4 DEF DestroyProcess, CleanupSlot
  <2>11. CASE CleanupTerminatedProcesses \/ CleanupReturn
    BY <2>11 DEF CleanupTerminatedProcesses, CleanupReturn, Goto
  <2>12. CASE UnblockStore
    BY <2>12 DEF UnblockStore, Goto
  <2> QED
    BY <1>3, <2>1, <2>2, <2>3, <2>4, <2>5, <2>6, <2>7, <2>8, <2>9, <2>10, <2>11,
       <2>12 DEF ProcessStep
<1>4. CASE UNCHANGED vars
  BY <1>4 DEF vars
<1> QED
  BY <1>1, <1>2, <1>3, <1>4 DEF Next

LEMMA TypeInit == Init => TypeOK
<1> SUFFICES ASSUME Init PROVE TypeOK
  OBVIOUS
<1>1. state \in [Pid -> LiveStates \cup {"None"}] /\ pc \in [Pid -> Places]
  BY DEF Init, LiveStates, Places
<1>2. /\ rsp \in [Pid -> Pid] /\ wake \in [Pid -> Nat] /\ slots \in [Pid -> SUBSET Pid]
      /\ current \in Pid /\ cpu \in Pid
  BY PidFacts DEF Init
<1>3. count \in Nat /\ quantum \in 0 .. QUANTUM_TICKS
  BY SchedulerConstants DEF Init
<1> QED
  BY <1>1, <1>2, <1>3 DEF Init, TypeOK

(* No step of the scheduler or of a service takes a variable out of its     *)
(* type, for every table size, quantum and program: slots, PROCESS_COUNT    *)
(* and QUANTUM_REMAINING stay within what the code's types allow.           *)
THEOREM TypeCorrect == Spec => []TypeOK
  BY TypeInit, TypeStep, PTL DEF Spec
-----------------------------------------------------------------------------
(* The kernel process is in kmain until it starts the scheduler, during     *)
(* which nothing else runs, and in its idle loop from then on.              *)
KernelInv ==
  /\ count >= 1
  /\ pc[0] \in {"boot", "idle"}
  /\ \A p \in Pid : pc[p] \in {"boot", "idle"} => p = 0
  /\ pc[0] = "boot" => /\ cpu = 0 /\ current = 0 /\ ~enabled
                       /\ \A p \in Pid : p # 0 => pc[p] = "run"
  /\ \A p \in Pid : pc[p] = "create" => \A s \in slots[p] : s >= 1

LEMMA KernelInit == Init => KernelInv
  BY PidFacts DEF Init, KernelInv

LEMMA KernelStep == TypeOK /\ KernelInv /\ [Next]_vars => KernelInv'
<1> SUFFICES ASSUME TypeOK, KernelInv, [Next]_vars PROVE KernelInv'
  OBVIOUS
<1> USE PidFacts DEF TypeOK, KernelInv
<1>1. CASE HandleTimerInterrupt
  <2>1. count' = count /\ slots' = slots /\ enabled' = enabled
    BY <1>1 DEF HandleTimerInterrupt
  <2>2. pc' = pc \/ (pc[cpu] = "hlt" /\ pc' = [pc EXCEPT ![cpu] = "run"])
    BY <1>1 DEF HandleTimerInterrupt, EndHlt
  <2>3. pc[0] = "boot" => cpu' = cpu /\ current' = current
    BY <1>1 DEF HandleTimerInterrupt
  <2> QED
    BY <2>1, <2>2, <2>3
<1>2. CASE DeviceInterrupt
  BY <1>2 DEF DeviceInterrupt
<1>3. CASE ProcessStep
  <2>1. CASE YieldProcess \/ BlockCurrent \/ SleepSet \/ ProcessExit
             \/ ExitCurrentProcess \/ SleepReturn
    BY <2>1 DEF YieldProcess, BlockCurrent, SleepSet, ProcessExit,
                ExitCurrentProcess, SleepReturn, Calls, At, Goto
  <2>2. ASSUME NEW p \in Pid, UnblockProcess(p) PROVE KernelInv'
    BY <2>2 DEF UnblockProcess, Calls, At, Goto
  <2>3. ASSUME NEW ticks \in SleepTicks, SleepProc(ticks) PROVE KernelInv'
    BY <2>3 DEF SleepProc, Calls, At, Goto
  <2>4. ASSUME NEW on \in BOOLEAN, SetScheduler(on) PROVE KernelInv'
    BY <2>4 DEF SetScheduler, Calls, At
  <2>5. CASE CreateProcess \/ CreateFail
    BY <2>5 DEF CreateProcess, CreateFail, Calls, At, Goto
  <2>6. CASE CreateFinish
    BY <2>6 DEF CreateFinish, FillSlot, At
  <2>7. CASE BootCreate
    BY <2>7 DEF BootCreate, FillSlot, At
  <2>8. CASE StartScheduler
    BY <2>8 DEF StartScheduler, Goto, At
  <2>9. ASSUME NEW p \in Pid, DestroyProcess(p) \/ CleanupSlot(p)
        PROVE  KernelInv'
    BY <2>9 DEF DestroyProcess, CleanupSlot, TakeSlot, Calls, At
  <2>10. CASE CleanupTerminatedProcesses \/ CleanupReturn \/ UnblockStore
    BY <2>10 DEF CleanupTerminatedProcesses, CleanupReturn, UnblockStore, Calls,
                 At, Goto
  <2> QED
    BY <1>3, <2>1, <2>2, <2>3, <2>4, <2>5, <2>6, <2>7, <2>8, <2>9, <2>10
    DEF ProcessStep
<1>4. CASE UNCHANGED vars
  BY <1>4 DEF vars
<1> QED
  BY <1>1, <1>2, <1>3, <1>4 DEF Next

LEMMA KernelAlways == Spec => [](TypeOK /\ KernelInv)
  BY KernelInit, KernelStep, TypeCorrect, PTL DEF Spec
-----------------------------------------------------------------------------
(* At most one process is Running.                                          *)
LEMMA RunningStep ==
  TypeOK /\ KernelInv /\ RunningIsCurrent /\ [Next]_vars => RunningIsCurrent'
<1> SUFFICES ASSUME TypeOK, KernelInv, RunningIsCurrent, [Next]_vars
             PROVE  RunningIsCurrent'
  OBVIOUS
<1> USE PidFacts DEF TypeOK, RunningIsCurrent
<1>1. CASE HandleTimerInterrupt
  <2>1. CASE ~enabled
    BY <1>1, <2>1 DEF HandleTimerInterrupt
  <2>2. CASE enabled
    <3>1. Schedule(Woken)
      BY <1>1, <2>2 DEF HandleTimerInterrupt
    <3>2. \A p \in Pid : Woken[p] = "Running" => p = current
      BY WokenFacts
    <3>3. CASE state' = Woken /\ UNCHANGED <<rsp, current, cpu>>
      BY <3>2, <3>3
    <3>4. ASSUME NEW next \in Pid, SwitchTo(Woken, next)
          PROVE  RunningIsCurrent'
      BY <3>2, <3>4, WokenFacts DEF SwitchTo
    <3> QED
      BY <3>1, <3>3, <3>4, ScheduleCases
  <2> QED
    BY <2>1, <2>2
<1>2. CASE DeviceInterrupt
  BY <1>2 DEF DeviceInterrupt
<1>3. CASE ProcessStep
  <2>1. CASE YieldProcess \/ BlockCurrent \/ SleepSet \/ ProcessExit
             \/ ExitCurrentProcess
    BY <2>1 DEF YieldProcess, BlockCurrent, SleepSet, ProcessExit,
                ExitCurrentProcess, SetCurrent
  <2>2. ASSUME NEW p \in Pid, UnblockProcess(p) PROVE RunningIsCurrent'
    BY <2>2 DEF UnblockProcess
  <2>3. ASSUME NEW ticks \in SleepTicks, SleepProc(ticks)
        PROVE  RunningIsCurrent'
    BY <2>3 DEF SleepProc
  <2>4. ASSUME NEW on \in BOOLEAN, SetScheduler(on) PROVE RunningIsCurrent'
    BY <2>4 DEF SetScheduler
  <2>5. CASE SleepReturn \/ CreateProcess \/ CreateFail
    BY <2>5 DEF SleepReturn, CreateProcess, CreateFail
  <2>6. CASE CreateFinish
    BY <2>6 DEF CreateFinish, FillSlot
  <2>7. CASE BootCreate
    BY <2>7, SchedulerConstants DEF BootCreate, FillSlot
  <2>8. CASE StartScheduler
    BY <2>8 DEF StartScheduler, At, KernelInv
  <2>9. ASSUME NEW p \in Pid, DestroyProcess(p) \/ CleanupSlot(p)
        PROVE  RunningIsCurrent'
    BY <2>9 DEF DestroyProcess, CleanupSlot, TakeSlot
  <2>10. CASE CleanupTerminatedProcesses \/ CleanupReturn \/ UnblockStore
    BY <2>10 DEF CleanupTerminatedProcesses, CleanupReturn, UnblockStore
  <2> QED
    BY <1>3, <2>1, <2>2, <2>3, <2>4, <2>5, <2>6, <2>7, <2>8, <2>9, <2>10
    DEF ProcessStep
<1>4. CASE UNCHANGED vars
  BY <1>4 DEF vars
<1> QED
  BY <1>1, <1>2, <1>3, <1>4 DEF Next

(* At most one process is Running and it is PROCESS_TABLE.current, for      *)
(* every number of processes and whatever services they call.               *)
THEOREM OneRunning == Spec => []RunningIsCurrent
<1>1. Init => RunningIsCurrent
  BY DEF Init, RunningIsCurrent
<1> QED
  BY <1>1, RunningStep, KernelAlways, PTL DEF Spec

-----------------------------------------------------------------------------
(* Every process runs on its own stack.                                     *)
LEMMA ContextStep ==
  TypeOK /\ KernelInv /\ ContextIntegrity /\ [Next]_vars => ContextIntegrity'
<1> SUFFICES ASSUME TypeOK, KernelInv, ContextIntegrity, [Next]_vars, ~orphan'
             PROVE  cpu' = current' /\ \A p \in Pid : rsp'[p] = p
  BY DEF ContextIntegrity
<1> USE PidFacts DEF TypeOK
<1>1. CASE HandleTimerInterrupt
  <2>1. cpu = current /\ \A p \in Pid : rsp[p] = p
    BY <1>1 DEF HandleTimerInterrupt, ContextIntegrity
  <2>2. CASE ~enabled
    BY <1>1, <2>1, <2>2 DEF HandleTimerInterrupt
  <2>3. CASE enabled
    <3>1. Schedule(Woken)
      BY <1>1, <2>3 DEF HandleTimerInterrupt
    <3>2. ASSUME NEW next \in Pid, SwitchTo(Woken, next)
          PROVE  cpu' = current' /\ \A p \in Pid : rsp'[p] = p
      BY <2>1, <3>2 DEF SwitchTo
    <3> QED
      BY <2>1, <3>1, <3>2, ScheduleCases
  <2> QED
    BY <2>2, <2>3
<1>2. CASE DeviceInterrupt
  BY <1>2 DEF DeviceInterrupt, ContextIntegrity
<1>3. CASE ProcessStep
  <2>1. CASE \/ YieldProcess \/ BlockCurrent \/ SleepSet \/ ProcessExit
             \/ ExitCurrentProcess \/ SleepReturn \/ CreateProcess \/ CreateFail
    BY <2>1 DEF YieldProcess, BlockCurrent, SleepSet, ProcessExit, SleepReturn,
                ExitCurrentProcess, CreateProcess, CreateFail, ContextIntegrity
  <2>2. CASE \/ \E p \in Pid : UnblockProcess(p)
             \/ \E ticks \in SleepTicks : SleepProc(ticks)
             \/ \E on \in BOOLEAN : SetScheduler(on)
    BY <2>2 DEF UnblockProcess, SleepProc, SetScheduler, ContextIntegrity
  <2>3. CASE CreateFinish
    BY <2>3 DEF CreateFinish, FillSlot, ContextIntegrity
  <2>4. CASE BootCreate
    BY <2>4, SchedulerConstants DEF BootCreate, FillSlot, ContextIntegrity
  <2>5. CASE StartScheduler
    BY <2>5 DEF StartScheduler, At, KernelInv, ContextIntegrity
  <2>6. ASSUME NEW q \in Pid, DestroyProcess(q) \/ CleanupSlot(q)
        PROVE  cpu' = current' /\ \A p \in Pid : rsp'[p] = p
    BY <2>6 DEF DestroyProcess, CleanupSlot, TakeSlot, ContextIntegrity
  <2>7. CASE CleanupTerminatedProcesses \/ CleanupReturn \/ UnblockStore
    BY <2>7 DEF CleanupTerminatedProcesses, CleanupReturn, UnblockStore,
                ContextIntegrity
  <2> QED
    BY <1>3, <2>1, <2>2, <2>3, <2>4, <2>5, <2>6, <2>7 DEF ProcessStep
<1>4. CASE UNCHANGED vars
  BY <1>4 DEF vars, ContextIntegrity
<1> QED
  BY <1>1, <1>2, <1>3, <1>4 DEF Next

(* As long as no process is destroyed while it is current, no process is    *)
(* ever resumed on another one's stack.                                     *)
THEOREM OwnStack == Spec => []ContextIntegrity
<1>1. Init => ContextIntegrity
  BY DEF Init, ContextIntegrity
<1> QED
  BY <1>1, ContextStep, KernelAlways, PTL DEF Spec
-----------------------------------------------------------------------------
(* PROCESS_COUNT and the slots.                                             *)

(* Only one process ever calls create_process once the scheduler runs.      *)
OneCreator ==
  \A p, q \in Pid : "create" \in Program[p] \cap Program[q] => p = q

(* The pid a creator holds is still the first free slot.                    *)
CreateInv ==
  \A p \in Pid : pc[p] = "create" => /\ "create" \in Program[p]
                                     /\ slots[p] = {count}

LEMMA CreateStep ==
  ASSUME OneCreator
  PROVE  TypeOK /\ KernelInv /\ CreateInv /\ [Next]_vars => CreateInv'
<1> SUFFICES ASSUME TypeOK, KernelInv, CreateInv, [Next]_vars PROVE CreateInv'
  OBVIOUS
<1> USE PidFacts DEF TypeOK, CreateInv
<1>1. CASE HandleTimerInterrupt
  BY <1>1 DEF HandleTimerInterrupt, EndHlt
<1>2. CASE DeviceInterrupt
  BY <1>2 DEF DeviceInterrupt
<1>3. CASE ProcessStep
  <2>1. CASE YieldProcess \/ BlockCurrent \/ SleepSet \/ ProcessExit
             \/ ExitCurrentProcess \/ SleepReturn \/ UnblockStore
    BY <2>1 DEF YieldProcess, BlockCurrent, SleepSet, ProcessExit,
                ExitCurrentProcess, SleepReturn, UnblockStore, Goto
  <2>2. CASE \/ \E p \in Pid : UnblockProcess(p)
             \/ \E ticks \in SleepTicks : SleepProc(ticks)
             \/ \E on \in BOOLEAN : SetScheduler(on)
    BY <2>2 DEF UnblockProcess, SleepProc, SetScheduler, Goto
  <2>3. CASE CreateProcess \/ CreateFail
    BY <2>3 DEF CreateProcess, CreateFail, Calls, At, Goto
  <2>4. CASE CreateFinish
    BY <2>4 DEF CreateFinish, FillSlot, At, OneCreator
  <2>5. CASE BootCreate \/ StartScheduler
    BY <2>5 DEF BootCreate, StartScheduler, FillSlot, At, Goto, KernelInv
  <2>6. CASE \/ \E p \in Pid : DestroyProcess(p) \/ CleanupSlot(p)
             \/ CleanupTerminatedProcesses \/ CleanupReturn
    BY <2>6 DEF DestroyProcess, CleanupSlot, CleanupTerminatedProcesses,
                CleanupReturn, At, Goto
  <2> QED
    BY <1>3, <2>1, <2>2, <2>3, <2>4, <2>5, <2>6 DEF ProcessStep
<1>4. CASE UNCHANGED vars
  BY <1>4 DEF vars
<1> QED
  BY <1>1, <1>2, <1>3, <1>4 DEF Next

LEMMA DenseStep ==
  TypeOK /\ CreateInv /\ TableDense /\ [Next]_vars => TableDense'
<1> SUFFICES ASSUME TypeOK, CreateInv, TableDense, [Next]_vars
             PROVE  TableDense'
  OBVIOUS
<1> USE PidFacts DEF TypeOK, TableDense
<1>1. CASE HandleTimerInterrupt
  <2>1. CASE ~enabled
    BY <1>1, <2>1 DEF HandleTimerInterrupt
  <2>2. CASE enabled
    <3>1. Schedule(Woken) /\ count' = count
      BY <1>1, <2>2 DEF HandleTimerInterrupt
    <3>2. \A p \in Pid : p >= count => Woken[p] = "None"
      BY WokenFacts
    <3>3. ASSUME NEW next \in Pid, next < count, SwitchTo(Woken, next)
          PROVE  TableDense'
      BY <3>1, <3>2, <3>3, WokenFacts DEF SwitchTo
    <3> QED
      BY <3>1, <3>2, <3>3, ScheduleCases
  <2> QED
    BY <2>1, <2>2
<1>2. CASE DeviceInterrupt
  BY <1>2 DEF DeviceInterrupt
<1>3. CASE ProcessStep
  <2>1. CASE YieldProcess \/ BlockCurrent \/ SleepSet \/ ProcessExit
             \/ ExitCurrentProcess
    BY <2>1 DEF YieldProcess, BlockCurrent, SleepSet, ProcessExit,
                ExitCurrentProcess, SetCurrent
  <2>2. CASE SleepReturn \/ UnblockStore \/ CreateProcess \/ CreateFail
    BY <2>2 DEF SleepReturn, UnblockStore, CreateProcess, CreateFail
  <2>3. CASE \/ \E p \in Pid : UnblockProcess(p)
             \/ \E ticks \in SleepTicks : SleepProc(ticks)
             \/ \E on \in BOOLEAN : SetScheduler(on)
    BY <2>3 DEF UnblockProcess, SleepProc, SetScheduler
  <2>4. CASE CreateFinish
    <3>1. slots[cpu] = {count} /\ count < MAX_PROCESSES
      BY <2>4 DEF CreateFinish, At, CreateInv
    <3>2. count' = count + 1 /\ state' = [state EXCEPT ![count] = "Ready"]
      BY <2>4, <3>1 DEF CreateFinish, FillSlot
    <3> QED
      BY <3>1, <3>2, SchedulerConstants
  <2>5. CASE BootCreate \/ StartScheduler
    BY <2>5, SchedulerConstants DEF BootCreate, StartScheduler, FillSlot
  <2>6. ASSUME NEW p \in Pid, DestroyProcess(p) \/ CleanupSlot(p)
        PROVE  TableDense'
    BY <2>6 DEF DestroyProcess, CleanupSlot, TakeSlot
  <2>7. CASE CleanupTerminatedProcesses \/ CleanupReturn
    BY <2>7 DEF CleanupTerminatedProcesses, CleanupReturn
  <2> QED
    BY <1>3, <2>1, <2>2, <2>3, <2>4, <2>5, <2>6, <2>7 DEF ProcessStep
<1>4. CASE UNCHANGED vars
  BY <1>4 DEF vars
<1> QED
  BY <1>1, <1>2, <1>3, <1>4 DEF Next

(* PROCESS_COUNT stays within the table and every process sits below it, as *)
(* long as one process only calls create_process after the boot.            *)
THEOREM DenseTable ==
  ASSUME OneCreator
  PROVE  Spec => [](TableDense /\ CreateInv)
<1>1. Init => TableDense /\ CreateInv
  BY SchedulerConstants DEF Init, TableDense, CreateInv, Pid
<1>2. TypeOK /\ KernelInv /\ TableDense /\ CreateInv /\ [Next]_vars
      => TableDense' /\ CreateInv'
  BY CreateStep, DenseStep
<1> QED
  BY <1>1, <1>2, KernelAlways, PTL DEF Spec
-----------------------------------------------------------------------------
(* Sleeping.                                                                *)

(* Only one process ever calls unblock_process.                             *)
OneUnblocker ==
  \A p, q \in Pid : "unblock" \in Program[p] \cap Program[q] => p = q

(* What the unblocker found Blocked is still Blocked when it stores Ready.  *)
UnblockInv ==
  ~orphan => \A p \in Pid : pc[p] = "unblock" =>
     /\ "unblock" \in Program[p]
     /\ \A s \in slots[p] : /\ state[s] \in {"Blocked", "None"}
                            /\ s < count
                            /\ s = current => s = p

LEMMA UnblockStep ==
  ASSUME OneUnblocker
  PROVE  /\ TypeOK /\ KernelInv /\ ContextIntegrity /\ CreateInv /\ TableDense
         /\ UnblockInv /\ [Next]_vars
         => UnblockInv'
<1> SUFFICES ASSUME TypeOK, KernelInv, ContextIntegrity, CreateInv, TableDense,
                    UnblockInv, [Next]_vars, ~orphan',
                    NEW p \in Pid, pc'[p] = "unblock"
             PROVE  /\ "unblock" \in Program[p]
                    /\ \A s \in slots'[p] : /\ state'[s] \in {"Blocked", "None"}
                                            /\ s < count'
                                            /\ s = current' => s = p
  BY DEF UnblockInv
<1> USE PidFacts DEF TypeOK
<1>1. CASE HandleTimerInterrupt
  <2>1. ~orphan /\ pc[p] = "unblock" /\ slots' = slots /\ count' = count
    BY <1>1 DEF HandleTimerInterrupt, EndHlt
  <2>2. /\ "unblock" \in Program[p]
        /\ \A s \in slots[p] : s \in Pid /\ state[s] \in {"Blocked", "None"}
                               /\ s < count /\ (s = current => s = p)
    BY <2>1 DEF UnblockInv
  <2>3. CASE ~enabled
    BY <1>1, <2>1, <2>2, <2>3 DEF HandleTimerInterrupt
  <2>4. CASE enabled
    <3>1. Schedule(Woken)
      BY <1>1, <2>4 DEF HandleTimerInterrupt
    <3>2. \A s \in slots[p] : Woken[s] \in {"Blocked", "None"}
      BY <2>2, WokenFacts
    <3>3. CASE state' = Woken /\ current' = current
      BY <2>1, <2>2, <3>2, <3>3
    <3>4. ASSUME NEW next \in Pid, Woken[next] = "Ready", SwitchTo(Woken, next)
          PROVE  \A s \in slots[p] : state'[s] \in {"Blocked", "None"} /\ s # current'
      BY <2>2, <3>2, <3>4, WokenFacts DEF SwitchTo
    <3> QED
      BY <2>1, <2>2, <3>1, <3>3, <3>4, ScheduleCases
  <2> QED
    BY <2>3, <2>4
<1>2. CASE DeviceInterrupt
  BY <1>2 DEF DeviceInterrupt, UnblockInv
<1>3. CASE ProcessStep
  <2>1. CASE YieldProcess \/ BlockCurrent \/ ProcessExit
    BY <2>1 DEF YieldProcess, BlockCurrent, ProcessExit, SetCurrent, Calls, At,
                Goto, ContextIntegrity, UnblockInv
  <2>2. CASE ExitCurrentProcess \/ SleepSet
    BY <2>2 DEF ExitCurrentProcess, SleepSet, SetCurrent, Calls, At, Goto,
                ContextIntegrity, UnblockInv
  <2>3. CASE SleepReturn \/ CreateProcess \/ CreateFail
    BY <2>3 DEF SleepReturn, CreateProcess, CreateFail, Goto, UnblockInv
  <2>4. ASSUME NEW q \in Pid, UnblockProcess(q)
        PROVE  /\ "unblock" \in Program[p]
               /\ \A s \in slots'[p] : /\ state'[s] \in {"Blocked", "None"}
                                       /\ s < count'
                                       /\ s = current' => s = p
    <3>1. CASE p = cpu
      BY <2>4, <3>1 DEF UnblockProcess, Calls, At, Goto, TableDense,
                        ContextIntegrity
    <3>2. CASE p # cpu
      BY <2>4, <3>2 DEF UnblockProcess, Goto, UnblockInv
    <3> QED
      BY <3>1, <3>2
  <2>5. CASE UnblockStore
    BY <2>5 DEF UnblockStore, At, Goto, UnblockInv, OneUnblocker
  <2>6. ASSUME NEW ticks \in SleepTicks, SleepProc(ticks)
        PROVE  /\ "unblock" \in Program[p]
               /\ \A s \in slots'[p] : /\ state'[s] \in {"Blocked", "None"}
                                       /\ s < count'
                                       /\ s = current' => s = p
    BY <2>6 DEF SleepProc, Goto, UnblockInv
  <2>7. CASE \E on \in BOOLEAN : SetScheduler(on)
    BY <2>7 DEF SetScheduler, UnblockInv
  <2>8. CASE CreateFinish
    <3>1. slots[cpu] = {count}
      BY <2>8 DEF CreateFinish, At, CreateInv
    <3>2. /\ state' = [state EXCEPT ![count] = "Ready"]
          /\ pc' = [pc EXCEPT ![cpu] = "run", ![count] = "run"]
          /\ count' = count + 1 /\ current' = current /\ ~orphan
      BY <2>8, <3>1 DEF CreateFinish, FillSlot
    <3>3. p # cpu /\ pc[p] = "unblock" /\ slots'[p] = slots[p]
      BY <2>8, <3>2 DEF CreateFinish
    <3> QED
      BY <3>2, <3>3 DEF UnblockInv
  <2>9. CASE BootCreate \/ StartScheduler
    BY <2>9 DEF BootCreate, StartScheduler, At, Goto, KernelInv
  <2>10. ASSUME NEW q \in Pid, DestroyProcess(q) \/ CleanupSlot(q)
         PROVE  /\ "unblock" \in Program[p]
                /\ \A s \in slots'[p] : /\ state'[s] \in {"Blocked", "None"}
                                        /\ s < count'
                                        /\ s = current' => s = p
    <3>1. pc[p] = "unblock" /\ count' = count /\ slots'[p] = slots[p]
      BY <2>10 DEF DestroyProcess, CleanupSlot, At
    <3>2. TakeSlot(q) \/ UNCHANGED <<state, current, orphan>>
      BY <2>10 DEF DestroyProcess, CleanupSlot
    <3>3. ~orphan /\ current' = current
      BY <3>2 DEF TakeSlot
    <3>4. \A s \in Pid : state'[s] \in {state[s], "None"}
      BY <3>2 DEF TakeSlot
    <3> QED
      BY <3>1, <3>3, <3>4 DEF UnblockInv
  <2>11. CASE CleanupTerminatedProcesses \/ CleanupReturn
    BY <2>11 DEF CleanupTerminatedProcesses, CleanupReturn, Goto, UnblockInv
  <2> QED
    BY <1>3, <2>1, <2>2, <2>3, <2>4, <2>5, <2>6, <2>7, <2>8, <2>9, <2>10, <2>11
    DEF ProcessStep
<1>4. CASE UNCHANGED vars
  BY <1>4 DEF vars, UnblockInv
<1> QED
  BY <1>1, <1>2, <1>3, <1>4 DEF Next
(* A process inside sleep_proc_* is Sleeping until its time has come.       *)
LEMMA SleepStep ==
  /\ TypeOK /\ KernelInv /\ ContextIntegrity /\ UnblockInv /\ SleepNotEarly
  /\ [Next]_vars
  => SleepNotEarly'
<1> SUFFICES ASSUME TypeOK, KernelInv, ContextIntegrity, UnblockInv,
                    SleepNotEarly, [Next]_vars, ~orphan',
                    NEW p \in Pid, pc'[p] = "sleeping",
                    state'[p] \notin {"Sleeping", "None"}
             PROVE  wake'[p] = 0
  BY DEF SleepNotEarly
<1> USE PidFacts DEF TypeOK
<1>1. CASE HandleTimerInterrupt
  <2>1. ~orphan /\ pc[p] = "sleeping"
    BY <1>1 DEF HandleTimerInterrupt, EndHlt
  <2>2. state[p] \notin {"Sleeping", "None"} => wake[p] = 0
    BY <2>1 DEF SleepNotEarly
  <2>3. CASE ~enabled
    BY <1>1, <2>2, <2>3 DEF HandleTimerInterrupt
  <2>4. CASE enabled
    <3>1. wake' = TicksLeft /\ Schedule(Woken)
      BY <1>1, <2>4 DEF HandleTimerInterrupt
    <3>2. Woken[p] \notin {"Sleeping", "None"} => TicksLeft[p] = 0
      BY <2>2, WokenFacts DEF TicksLeft
    <3>3. CASE state' = Woken
      BY <3>1, <3>2, <3>3
    <3>4. ASSUME NEW next \in Pid, Woken[next] = "Ready", SwitchTo(Woken, next)
          PROVE  Woken[p] \notin {"Sleeping", "None"}
      BY <3>4, WokenFacts DEF SwitchTo
    <3> QED
      BY <3>1, <3>2, <3>3, <3>4, ScheduleCases
  <2> QED
    BY <2>3, <2>4
<1>2. CASE DeviceInterrupt
  BY <1>2 DEF DeviceInterrupt, SleepNotEarly
<1>3. CASE ProcessStep
  <2>1. CASE YieldProcess \/ BlockCurrent \/ ProcessExit
    BY <2>1 DEF YieldProcess, BlockCurrent, ProcessExit, SetCurrent, Calls, At,
                Goto, ContextIntegrity, SleepNotEarly
  <2>2. CASE ExitCurrentProcess
    BY <2>2 DEF ExitCurrentProcess, SetCurrent, Calls, At, ContextIntegrity,
                SleepNotEarly
  <2>3. CASE SleepSet
    BY <2>3 DEF SleepSet, SetCurrent, At, Goto, ContextIntegrity, SleepNotEarly
  <2>4. CASE SleepReturn \/ CreateProcess \/ CreateFail
    BY <2>4 DEF SleepReturn, CreateProcess, CreateFail, Goto, SleepNotEarly
  <2>5. CASE \E q \in Pid : UnblockProcess(q)
    BY <2>5 DEF UnblockProcess, Goto, SleepNotEarly
  <2>6. CASE UnblockStore
    BY <2>6 DEF UnblockStore, At, Goto, UnblockInv, SleepNotEarly
  <2>7. ASSUME NEW ticks \in SleepTicks, SleepProc(ticks) PROVE wake'[p] = 0
    BY <2>7, SchedulerConstants
    DEF SleepProc, Calls, At, Goto, ContextIntegrity, SleepNotEarly
  <2>8. CASE \E on \in BOOLEAN : SetScheduler(on)
    BY <2>8 DEF SetScheduler, SleepNotEarly
  <2>9. CASE CreateFinish
    BY <2>9 DEF CreateFinish, FillSlot, At, SleepNotEarly
  <2>10. CASE BootCreate \/ StartScheduler
    <3>1. pc[p] # "sleeping"
      BY <2>10 DEF BootCreate, StartScheduler, At, KernelInv
    <3> QED
      BY <2>10, <3>1 DEF BootCreate, StartScheduler, Goto
  <2>11. ASSUME NEW q \in Pid, DestroyProcess(q) \/ CleanupSlot(q)
         PROVE  wake'[p] = 0
    BY <2>11 DEF DestroyProcess, CleanupSlot, TakeSlot, SleepNotEarly
  <2>12. CASE CleanupTerminatedProcesses \/ CleanupReturn
    BY <2>12 DEF CleanupTerminatedProcesses, CleanupReturn, Goto, SleepNotEarly
  <2> QED
    BY <1>3, <2>1, <2>2, <2>3, <2>4, <2>5, <2>6, <2>7, <2>8, <2>9, <2>10, <2>11,
       <2>12 DEF ProcessStep
<1>4. CASE UNCHANGED vars
  BY <1>4 DEF vars, SleepNotEarly
<1> QED
  BY <1>1, <1>2, <1>3, <1>4 DEF Next

(* sleep_proc_ms and sleep_proc_us never return early, provided one process *)
(* only creates and one only unblocks: with two unblockers, one of them may *)
(* store Ready over the Sleeping of a process it found Blocked long ago.    *)
THEOREM SleepLongEnough ==
  ASSUME OneCreator, OneUnblocker
  PROVE  Spec => []SleepNotEarly
<1>1. Init => UnblockInv /\ SleepNotEarly
  BY DEF Init, UnblockInv, SleepNotEarly
<1>2. /\ TypeOK /\ KernelInv /\ ContextIntegrity /\ TableDense /\ CreateInv
      /\ UnblockInv /\ SleepNotEarly /\ [Next]_vars
      => UnblockInv' /\ SleepNotEarly'
  BY UnblockStep, SleepStep
<1> QED
  BY <1>1, <1>2, KernelAlways, OwnStack, DenseTable, PTL DEF Spec

-----------------------------------------------------------------------------
(* The idle process.                                                        *)

(* The kernel process can always run, as long as it exists.                 *)
IdleInv == ~orphan => state[0] \in {"Ready", "Running", "None"}

LEMMA IdleStep ==
  TypeOK /\ KernelInv /\ ContextIntegrity /\ IdleInv /\ [Next]_vars => IdleInv'
<1> SUFFICES ASSUME TypeOK, KernelInv, ContextIntegrity, IdleInv, [Next]_vars,
                    ~orphan'
             PROVE  state'[0] \in {"Ready", "Running", "None"}
  BY DEF IdleInv
<1> USE PidFacts DEF TypeOK
<1>1. CASE HandleTimerInterrupt
  <2>1. state[0] \in {"Ready", "Running", "None"}
    BY <1>1 DEF HandleTimerInterrupt, IdleInv
  <2>2. CASE ~enabled
    BY <1>1, <2>1, <2>2 DEF HandleTimerInterrupt
  <2>3. CASE enabled
    <3>1. Schedule(Woken)
      BY <1>1, <2>3 DEF HandleTimerInterrupt
    <3>2. Woken[0] \in {"Ready", "Running", "None"}
      BY <2>1, WokenFacts
    <3>3. ASSUME NEW next \in Pid, SwitchTo(Woken, next)
          PROVE  state'[0] \in {"Ready", "Running", "None"}
      BY <3>2, <3>3, WokenFacts DEF SwitchTo
    <3> QED
      BY <3>1, <3>2, <3>3, ScheduleCases
  <2> QED
    BY <2>2, <2>3
<1>2. CASE DeviceInterrupt
  BY <1>2 DEF DeviceInterrupt, IdleInv
<1>3. CASE ProcessStep
  <2>1. CASE YieldProcess \/ BlockCurrent \/ SleepSet \/ ProcessExit
             \/ ExitCurrentProcess
    BY <2>1 DEF YieldProcess, BlockCurrent, SleepSet, ProcessExit,
                ExitCurrentProcess, SetCurrent, Calls, At, ContextIntegrity,
                KernelInv, IdleInv
  <2>2. CASE SleepReturn \/ UnblockStore \/ CreateProcess \/ CreateFail
    BY <2>2 DEF SleepReturn, UnblockStore, CreateProcess, CreateFail, IdleInv
  <2>3. CASE \/ \E p \in Pid : UnblockProcess(p)
             \/ \E ticks \in SleepTicks : SleepProc(ticks)
             \/ \E on \in BOOLEAN : SetScheduler(on)
    BY <2>3 DEF UnblockProcess, SleepProc, SetScheduler, IdleInv
  <2>4. CASE CreateFinish
    BY <2>4 DEF CreateFinish, FillSlot, IdleInv
  <2>5. CASE BootCreate \/ StartScheduler
    BY <2>5 DEF BootCreate, StartScheduler, FillSlot, IdleInv
  <2>6. ASSUME NEW p \in Pid, CleanupSlot(p) \/ DestroyProcess(p)
        PROVE  state'[0] \in {"Ready", "Running", "None"}
    BY <2>6 DEF CleanupSlot, DestroyProcess, TakeSlot, IdleInv
  <2>7. CASE CleanupTerminatedProcesses \/ CleanupReturn
    BY <2>7 DEF CleanupTerminatedProcesses, CleanupReturn, IdleInv
  <2> QED
    BY <1>3, <2>1, <2>2, <2>3, <2>4, <2>5, <2>6, <2>7 DEF ProcessStep
<1>4. CASE UNCHANGED vars
  BY <1>4 DEF vars, IdleInv
<1> QED
  BY <1>1, <1>2, <1>3, <1>4 DEF Next

(* When the current process cannot go on, find_next_ready has a process to  *)
(* switch to, as long as the kernel process is not destroyed.               *)
THEOREM NeverStuck == Spec => []SomeoneToRun
<1>1. Init => IdleInv
  BY PidFacts DEF Init, IdleInv
<1>2. TypeOK /\ KernelInv /\ RunningIsCurrent /\ IdleInv => SomeoneToRun
  BY PidFacts DEF TypeOK, KernelInv, RunningIsCurrent, IdleInv, SomeoneToRun
<1> QED
  BY <1>1, <1>2, IdleStep, KernelAlways, OwnStack, OneRunning, PTL DEF Spec
=============================================================================
