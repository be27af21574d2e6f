---------------------------- MODULE MCScheduler ----------------------------
(***************************************************************************)
(* Workloads for Scheduler.  Process 0 is kmain's idle loop, 1 and 2 are   *)
(* the processes kmain creates, 3 is created by process 1 where it can.    *)
(***************************************************************************)
EXTENDS Scheduler, TLC

(* Every service: two processes sleep, block, yield, unblock one another,   *)
(* exit, and are cleaned up or destroyed, the kernel process included.      *)
MixedProgram ==
  0 :> {} @@ 1 :> {"sleep", "yield", "unblock", "create", "destroy"}
  @@ 2 :> {"sleep", "block", "exit", "exit_current", "cleanup", "disable", "enable"}
  @@ 3 :> {"sleep", "block", "exit"}

(* Two processes that sleep in a loop, as in main.rs, and one that computes *)
(* and never gives the CPU up by itself.                                    *)
SleepLoopProgram == 0 :> {} @@ 1 :> {} @@ 2 :> {"sleep"} @@ 3 :> {"sleep"}

(* One process that yields and one that computes.                           *)
YieldProgram == 0 :> {} @@ 1 :> {"yield"} @@ 2 :> {}
=============================================================================
