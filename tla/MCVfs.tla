-------------------------------- MODULE MCVfs --------------------------------
(***************************************************************************)
(* Workloads for Vfs.  The mount points are those of kmain, a file name is *)
(* "a" or "b", and a byte written is the number of the process that wrote. *)
(***************************************************************************)
EXTENDS Vfs, TLC

CONSTANTS p1, p2, p3

Drivers == [m \in Mounts |-> m]

Nothing == [m \in Mounts |-> [n \in Names |-> NoEntry]]

(* a is a file of two bytes.                                                *)
OneFile ==
  [m \in Mounts |-> [n \in Names |->
     IF n = "a" THEN [kind |-> "file", data |-> <<9, 9>>] ELSE NoEntry]]

Open(m, n, access, opts) ==
  [op |-> "open", m |-> m, n |-> n, access |-> access, opts |-> opts]
Close == [op |-> "close"]
Read(max) == [op |-> "read", max |-> max]
Write(data) == [op |-> "write", data |-> data]
Seek(to) == [op |-> "seek", to |-> to]
Mount(op, m) == [op |-> op, m |-> m]
Path(op, m, n) == [op |-> op, m |-> m, n |-> n]
PathData(op, m, n, data) == [op |-> op, m |-> m, n |-> n, data |-> data]
Rename(m, n, new) == [op |-> "rename", m |-> m, n |-> n, new |-> new]
Look == [op |-> "look"]

None == p1 :> {} @@ p2 :> {} @@ p3 :> {}

(* Two kernel threads that use every function, on mounted file systems.     *)
AllCalls ==
  p1 :> {Open("ram", "a", "rw", {"creat"}), Read(1), Write(<<1>>), Seek(1), Close,
         PathData("create_file", "fat12", "a", <<1>>),
         PathData("append_file", "ram", "a", <<1>>), Path("delete_file", "ram", "a")}
  @@ p2 :> {Open("fat12", "a", "w", {"trunc"}), Write(<<1>>), Close, Look,
            PathData("write_file", "ram", "a", <<1>>), Rename("ram", "a", "b"),
            Path("create_dir", "fat12", "b"), Path("delete_dir", "fat12", "b"),
            Path("query", "fat12", "a")}

(* Two user programs, and a kernel thread that mounts, unmounts, opens the  *)
(* same file, asks for a path that is not mounted and destroys the programs.*)
UserCalls ==
  p1 :> {Open("ram", "a", "rw", {"creat"}), Read(1), Close}
  @@ p2 :> {Open("ram", "a", "r", {}), Close} @@ p3 :> {}

ThreadCalls ==
  p1 :> {} @@ p2 :> {}
  @@ p3 :> {Mount("mount", "ram"), Mount("unmount", "ram"), Close,
            Open("ram", "a", "w", {"creat", "excl"}), Path("query", "fat12", "a")}

(* Two user programs, each with one descriptor and a file of its own.       *)
AppendCalls ==
  p1 :> {Open("ram", "a", "rw", {"creat", "append"}), Write(<<1>>), Write(<<1, 1>>),
         Read(1), Close}
  @@ p2 :> {Open("ram", "b", "rw", {"creat"}), Write(<<2>>), Read(1), Close}
  @@ p3 :> {}

(* One thread queries a mount point where nothing is mounted.               *)
UnknownMountCalls ==
  p1 :> {Path("query", "fat12", "a")} @@ p2 :> {Path("query", "ram", "a")}

Load(boot, kernel, system, destroyers, fdSlots) ==
  [boot |-> boot, kernel |-> kernel, system |-> system, destroyers |-> destroyers,
   fdSlots |-> fdSlots]

KernelThreads == {Load({"ram", "fat12"}, AllCalls, None, {}, {3})}
UserPrograms ==
  {Load({"ram"}, ThreadCalls, UserCalls, {p3}, {3, 4}),
   Load({"ram", "fat12"}, None, AppendCalls, {}, {3})}
UnknownMount == {Load({"ram"}, UnknownMountCalls, None, {}, {3})}
=============================================================================
