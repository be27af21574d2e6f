--------------------------------- MODULE Vfs ---------------------------------
(***************************************************************************)
(* The virtual file system (vfs/src/lib.rs), the file descriptors of a     *)
(* process (process/src/lib.rs) and the file system calls that use both    *)
(* (syscall/src/syscall_handler.rs).                                       *)
(*                                                                         *)
(* Every vfs_* function spins on VFS_LOCK, works on the mount table, the   *)
(* node table and one file system, and clears VFS_LOCK.  Only the owner of *)
(* the lock touches these tables, so a function is three steps here: the   *)
(* call, everything under the lock, and the unlock.  A kernel thread can   *)
(* be preempted at each of them; a system call cannot, because the CPU     *)
(* masks interrupts on entry (IA32_FMASK).                                 *)
(*                                                                         *)
(* The two FileSystem drivers are modelled by their effect on a map from   *)
(* names (taken up to case) to contents; the FAT12 one may also fail.      *)
(***************************************************************************)
EXTENDS Integers, Sequences, FiniteSets

CONSTANTS
  Procs,          \* the processes
  NoProc,         \* not a process
  Mounts,         \* mount points
  FsType,         \* FsType[m]: "ram" or "fat12", the driver mounted at m
  Names,          \* file names
  BootFiles,      \* BootFiles[m][n]: what is at m/n when kmain has mounted m
  Workloads,      \* what runs on the kernel: see load
  MAX_MOUNTS,     \* size of MOUNT_TABLE (8)
  MAX_NODES,      \* size of NODE_TABLE (64)
  LastNodeId,     \* bound: no vfs_open is called when NEXT_NODE_ID has got here
  MaxSize         \* bound: no write is called past this position of a file

FirstNodeId == 4              \* 1, 2 and 3 are stdin, stdout and stderr
NodeId == FirstNodeId .. LastNodeId
Free == 0                     \* FD::EMPTY

(* What is found under a name.                                              *)
Entry == [kind : {"none", "file", "dir"}, data : Seq(Int)]
NoEntry == [kind |-> "none", data |-> <<>>]

NoCall == [op |-> "none"]

PathOps == {"create_file", "write_file", "append_file", "delete_file", "rename",
            "create_dir", "delete_dir", "query"}
NodeOps == {"close", "read", "write", "seek"}

ASSUME VfsConstants ==
  /\ NoProc \notin Procs
  /\ FsType \in [Mounts -> {"ram", "fat12"}]
  /\ \A w \in Workloads :
       w.boot \subseteq Mounts /\ w.destroyers \subseteq Procs /\ w.fdSlots \subseteq Nat
  /\ MAX_MOUNTS \in Nat /\ MAX_NODES \in Nat /\ LastNodeId \in Nat /\ MaxSize \in Nat

VARIABLES
  load,      \* the workload: the mount points kmain mounts (boot), the vfs_*
             \* and the system calls the code of p makes (kernel[p], system[p]),
             \* the processes that call destroy_process (destroyers), and the
             \* FD indices from 3 on (fdSlots, 3 .. 1023 in the code)
  lock,      \* VFS_LOCK
  mounted,   \* MOUNT_TABLE
  files,     \* files[m][n]: the entry of the file system at m under n
  nodes,     \* ids of the nodes in NODE_TABLE
  node,      \* node[id]: the fields of VfsNode
  nextId,    \* NEXT_NODE_ID
  fds,       \* fds[p][i]: node_id of Process.fildes[i]
  pc,        \* pc[p]: where p is
  call,      \* call[p]: the call p is in
  arg,       \* arg[p]: its node id (the new one, after a vfs_open)
  ok,        \* ok[p]: whether the last call succeeded
  cli,       \* the process in a system call (interrupts are off), or NoProc
  handles,   \* handles[p]: nodes p opened with vfs_open itself
  closing,   \* closing[p]: nodes destroy_process, called by p, has to close
  gone       \* destroyed processes

tables == <<mounted, files, nodes, node, nextId>>
vars == <<lock, mounted, files, nodes, node, nextId, fds, pc, call, arg, ok, cli,
          handles, closing, gone>>

NoNode == [mount |-> CHOOSE m \in Mounts : TRUE, name |-> CHOOSE n \in Names : TRUE,
           kind |-> "none", size |-> 0, cursor |-> 0, access |-> "r", opts |-> {}]

FdSlots == load.fdSlots

(* kmain: vfs_init and vfs_mount.                                           *)
Init ==
  /\ load \in Workloads
  /\ lock = FALSE
  /\ mounted = load.boot
  /\ files = BootFiles
  /\ nodes = {}
  /\ node = [id \in NodeId |-> NoNode]
  /\ nextId = FirstNodeId
  /\ fds = [p \in Procs |-> [i \in FdSlots |-> Free]]
  /\ pc = [p \in Procs |-> "idle"]
  /\ call = [p \in Procs |-> NoCall]
  /\ arg = [p \in Procs |-> Free]
  /\ ok = [p \in Procs |-> FALSE]
  /\ cli = NoProc
  /\ handles = [p \in Procs |-> {}]
  /\ closing = [p \in Procs |-> {}]
  /\ gone = {}

(* p has the CPU: it exists and no other process is in a system call.       *)
Runs(p) == p \notin gone /\ cli \in {NoProc, p}

-----------------------------------------------------------------------------
(* Calls.                                                                   *)

(* The calls the bounds of the model allow.                                 *)
InBounds(c, id) ==
  /\ c.op = "open" =>
       nextId + Cardinality({q \in Procs : call[q].op = "open"}) <= LastNodeId
  /\ c.op = "write" =>
       (IF "append" \in node[id].opts THEN node[id].size ELSE node[id].cursor)
         + Len(c.data) <= MaxSize
  /\ c.op = "append_file" =>
       Len(files[c.m][c.n].data) + Len(c.data) <= MaxSize

Start(p, c, id) ==
  /\ InBounds(c, id)
  /\ pc' = [pc EXCEPT ![p] = "lock"]
  /\ call' = [call EXCEPT ![p] = c]
  /\ arg' = [arg EXCEPT ![p] = id]

(* The vfs_close of close_fd(i), and the one of destroy_process.            *)
CloseFd(i) == [op |-> "close", fd |-> i]
CloseOfDestroyed == [op |-> "close", destroy |-> TRUE]

(* A kernel thread calls a vfs_* function; nodes it names are its own.      *)
KernelCall(p, c) ==
  /\ Runs(p) /\ pc[p] = "idle"
  /\ \/ c.op \notin NodeOps /\ Start(p, c, Free)
     \/ c.op \in NodeOps /\ \E id \in handles[p] : Start(p, c, id)
  /\ UNCHANGED <<lock, tables, fds, ok, cli, handles, closing, gone>>

(* SyscallHandler::close, read and write return EBADF for an empty          *)
(* descriptor.                                                              *)
BadDescriptor(p, c) ==
  /\ Runs(p) /\ pc[p] = "idle" /\ c.op # "open"
  /\ \E i \in FdSlots : fds[p][i] = Free
  /\ UNCHANGED vars

(* SyscallHandler::open, close, read and write up to the vfs_* call.        *)
SystemCall(p, c) ==
  /\ Runs(p) /\ pc[p] = "idle" /\ cli = NoProc
  /\ \/ c.op = "open" /\ Start(p, c, Free)
     \/ /\ c.op \in {"close", "read", "write"}
        /\ \E i \in FdSlots :
             /\ fds[p][i] # Free
             /\ Start(p, IF c.op = "close" THEN CloseFd(i) ELSE c, fds[p][i])
  /\ cli' = p
  /\ UNCHANGED <<lock, tables, fds, ok, handles, closing, gone>>

(* destroy_process(q) takes the slot of q, then closes its descriptors.     *)
DestroyProcess(p, q) ==
  /\ Runs(p) /\ pc[p] = "idle" /\ cli = NoProc
  /\ p \in load.destroyers /\ q # p /\ q \notin gone
  /\ gone' = gone \cup {q}
  /\ closing' = [closing EXCEPT ![p] = {fds[q][i] : i \in FdSlots} \ {Free}]
  /\ fds' = [fds EXCEPT ![q] = [i \in FdSlots |-> Free]]
  /\ pc' = [pc EXCEPT ![p] = "destroy"]
  /\ UNCHANGED <<lock, tables, call, arg, ok, cli, handles>>

DestroyClose(p) ==
  /\ Runs(p) /\ pc[p] = "destroy"
  /\ \/ \E id \in closing[p] :
          /\ Start(p, CloseOfDestroyed, id)
          /\ closing' = [closing EXCEPT ![p] = @ \ {id}]
     \/ /\ closing[p] = {}
        /\ pc' = [pc EXCEPT ![p] = "idle"]
        /\ UNCHANGED <<call, arg, closing>>
  /\ UNCHANGED <<lock, tables, fds, ok, cli, handles, gone>>

-----------------------------------------------------------------------------
(* Under VFS_LOCK.                                                          *)

(* Mutant: vfs_lock stores TRUE without a test.                             *)
LockedUntested(p, op) ==
  /\ Runs(p) /\ pc[p] = "lock" /\ call[p].op = op
  /\ lock' = TRUE
  /\ UNCHANGED <<fds, call, cli, handles, closing, gone>>

(* vfs_lock succeeds for p, which is in a call of `op`.                     *)
Locked(p, op) ==
  /\ Runs(p) /\ pc[p] = "lock" /\ ~lock /\ call[p].op = op
  /\ lock' = TRUE
  /\ UNCHANGED <<fds, call, cli, handles, closing, gone>>

(* The function goes on to vfs_unlock with this result.                     *)
Result(p, r) ==
  /\ ok' = [ok EXCEPT ![p] = r]
  /\ pc' = [pc EXCEPT ![p] = "unlock"]

Fails(p) == Result(p, FALSE) /\ UNCHANGED <<tables, arg>>

SetEntry(m, n, e) == files' = [files EXCEPT ![m][n] = e]

Exists(m, n) == files[m][n].kind # "none"

VfsMount(p) ==
  /\ Locked(p, "mount")
  /\ LET m == call[p].m
     IN  IF m \in mounted \/ Cardinality(mounted) >= MAX_MOUNTS THEN Fails(p)
         ELSE /\ mounted' = mounted \cup {m}
              /\ files' = IF FsType[m] = "ram"
                          THEN [files EXCEPT ![m] = [n \in Names |-> NoEntry]]
                          ELSE files
              /\ Result(p, TRUE)
              /\ UNCHANGED <<nodes, node, nextId, arg>>

VfsUnmount(p) ==
  /\ Locked(p, "unmount")
  /\ IF call[p].m \notin mounted THEN Fails(p)
     ELSE /\ mounted' = mounted \ {call[p].m}
          /\ Result(p, TRUE)
          /\ UNCHANGED <<files, nodes, node, nextId, arg>>

(* create_file of the driver: FAT12 refuses an empty file.                  *)
CanCreate(m, n, data) ==
  /\ ~Exists(m, n)
  /\ FsType[m] = "fat12" => data # <<>>

(* Mutant: the node gets the id after the one fetch_add returned.           *)
VfsOpenSkipsId(p) ==
  /\ Locked(p, "open")
  /\ IF call[p].m \notin mounted THEN Fails(p)
     ELSE /\ nodes' = nodes \cup {nextId + 1}
          /\ nextId' = nextId + 1
          /\ arg' = [arg EXCEPT ![p] = nextId + 1]
          /\ Result(p, TRUE)
          /\ UNCHANGED <<mounted, files, node>>

(* vfs_open.  Both drivers say that a name exists as soon as it is in their *)
(* directory, so the branch for NodeKind::Dir is never taken.               *)
VfsOpen(p) ==
  /\ Locked(p, "open")
  /\ LET c == call[p]
         creates   == "creat" \in c.opts /\ ~Exists(c.m, c.n)
         truncates == "trunc" \in c.opts /\ Exists(c.m, c.n)
         e == IF creates THEN [kind |-> "file", data |-> <<>>]
              ELSE IF truncates THEN [files[c.m][c.n] EXCEPT !.data = <<>>]
              ELSE files[c.m][c.n]
         opened == [mount |-> c.m, name |-> c.n, kind |-> "file",
                    size |-> Len(e.data),
                    cursor |-> IF "append" \in c.opts THEN Len(e.data) ELSE 0,
                    access |-> c.access, opts |-> c.opts]
     IN  IF \/ Cardinality(nodes) >= MAX_NODES
            \/ c.m \notin mounted
            \/ {"creat", "excl"} \subseteq c.opts /\ Exists(c.m, c.n)
            \/ creates /\ ~CanCreate(c.m, c.n, <<>>)
            \/ e.kind = "none"
         THEN Fails(p)
         ELSE /\ SetEntry(c.m, c.n, e)
              /\ nodes' = nodes \cup {nextId}
              /\ node' = [node EXCEPT ![nextId] = opened]
              /\ nextId' = nextId + 1
              /\ arg' = [arg EXCEPT ![p] = nextId]
              /\ Result(p, TRUE)
              /\ UNCHANGED mounted

VfsClose(p) ==
  /\ Locked(p, "close")
  /\ nodes' = nodes \ {arg[p]}
  /\ node' = [node EXCEPT ![arg[p]] = NoNode]
  /\ Result(p, arg[p] \in nodes)
  /\ UNCHANGED <<mounted, files, nextId, arg>>

(* Sets the cursor position, clamped to the cached size.                    *)
VfsSeek(p) ==
  /\ Locked(p, "seek")
  /\ LET id == arg[p]
         to == IF call[p].to < node[id].size THEN call[p].to ELSE node[id].size
     IN  IF id \notin nodes THEN Fails(p)
         ELSE /\ node' = [node EXCEPT ![id].cursor = to]
              /\ Result(p, TRUE)
              /\ UNCHANGED <<mounted, files, nodes, nextId, arg>>

(* The node of a read or a write and the file behind it can be used.        *)
Usable(p, refused) ==
  LET n == node[arg[p]]
  IN  /\ arg[p] \in nodes
      /\ n.kind = "file" /\ n.access # refused
      /\ n.mount \in mounted /\ Exists(n.mount, n.name)

VfsRead(p) ==
  /\ Locked(p, "read")
  /\ IF ~Usable(p, "w") THEN Fails(p)
     ELSE LET n     == node[arg[p]]
              avail == Len(files[n.mount][n.name].data) - n.cursor
              count == IF avail < 0 THEN 0
                       ELSE IF avail < call[p].max THEN avail ELSE call[p].max
          IN  /\ node' = [node EXCEPT ![arg[p]].cursor = n.cursor + count]
              /\ Result(p, TRUE)
              /\ UNCHANGED <<mounted, files, nodes, nextId, arg>>


(* old with `data` written at position `at`, zero-filled up to there.       *)
Overwrite(old, at, data) ==
  [i \in 1 .. (IF at + Len(data) > Len(old) THEN at + Len(data) ELSE Len(old)) |->
     IF i > at /\ i <= at + Len(data) THEN data[i - at]
     ELSE IF i <= Len(old) THEN old[i] ELSE 0]

(* Mutant: vfs_write_node does not refresh node.size.                       *)
VfsWriteNodeStaleSize(p) ==
  /\ Locked(p, "write")
  /\ IF ~Usable(p, "r") THEN Fails(p)
     ELSE LET n   == node[arg[p]]
              at  == IF "append" \in n.opts THEN n.size ELSE n.cursor
              old == files[n.mount][n.name]
              new == IF at = 0 THEN call[p].data
                     ELSE Overwrite(old.data, at, call[p].data)
          IN  /\ SetEntry(n.mount, n.name, [old EXCEPT !.data = new])
              /\ node' = [node EXCEPT ![arg[p]].cursor = Len(new)]
              /\ Result(p, TRUE)
              /\ UNCHANGED <<mounted, nodes, nextId, arg>>

(* vfs_write_node.  At cursor 0 the data replace the whole file.            *)
VfsWriteNode(p) ==
  /\ Locked(p, "write")
  /\ IF ~Usable(p, "r") THEN Fails(p)
     ELSE LET n      == node[arg[p]]
              data   == call[p].data
              append == "append" \in n.opts
              at     == IF append THEN n.size ELSE n.cursor
              old    == files[n.mount][n.name]
              new    == IF at = 0 THEN data ELSE Overwrite(old.data, at, data)
              cursor == IF append THEN Len(new) ELSE n.cursor + Len(data)
          IN  /\ SetEntry(n.mount, n.name, [old EXCEPT !.data = new])
              /\ node' = [node EXCEPT ![arg[p]].size = Len(new),
                                      ![arg[p]].cursor = cursor]
              /\ Result(p, TRUE)
              /\ UNCHANGED <<mounted, nodes, nextId, arg>>

(* What a path operation makes of the entry under c.n.                      *)
PathEntry(c) ==
  LET e == files[c.m][c.n]
  IN  CASE c.op = "create_file" -> [kind |-> "file", data |-> c.data]
        [] c.op = "write_file"  -> [e EXCEPT !.data = c.data]
        [] c.op = "append_file" -> [e EXCEPT !.data = @ \o c.data]
        [] c.op = "create_dir"  -> [kind |-> "dir", data |-> <<>>]
        [] c.op = "query"       -> e
        [] OTHER                -> NoEntry

(* The driver carries the path operation out.                               *)
PathSucceeds(c) ==
  /\ c.op \in {"write_file", "append_file", "delete_file", "rename"}
       => Exists(c.m, c.n)
  /\ c.op = "create_file" => CanCreate(c.m, c.n, c.data)
  /\ c.op = "rename" => ~Exists(c.m, c.new)
  /\ c.op = "create_dir" => FsType[c.m] = "fat12" /\ ~Exists(c.m, c.n)
  /\ c.op = "delete_dir" => FsType[c.m] = "fat12" /\ files[c.m][c.n].kind = "dir"

(* The functions on paths: vfs_create_file, vfs_write_file, vfs_append_file,*)
(* vfs_delete_file, vfs_rename_file, vfs_create_dir, vfs_delete_dir, and    *)
(* "query" for the ones that only look (vfs_read_file, vfs_get_file_size,   *)
(* vfs_list_dir, vfs_stat).  `get_fs(mount)?` returns between vfs_lock and  *)
(* vfs_unlock when nothing is mounted there.                                *)
VfsPathOp(p, op) ==
  /\ Locked(p, op)
  /\ LET c == call[p]
     IN  \/ /\ c.m \notin mounted
            /\ ok' = [ok EXCEPT ![p] = FALSE]
            /\ pc' = [pc EXCEPT ![p] = "return"]
            /\ UNCHANGED <<tables, arg>>
         \/ c.m \in mounted /\ ~PathSucceeds(c) /\ Fails(p)
         \/ /\ c.m \in mounted /\ PathSucceeds(c)
            /\ files' = IF op = "rename"
                        THEN [files EXCEPT ![c.m][c.new] = files[c.m][c.n],
                                           ![c.m][c.n] = NoEntry]
                        ELSE [files EXCEPT ![c.m][c.n] = PathEntry(c)]
            /\ Result(p, TRUE)
            /\ UNCHANGED <<mounted, nodes, node, nextId, arg>>

(* A disk error in the FAT12 driver: every function that reaches it returns *)
(* the error and leaves the tables of the VFS alone.  What such an error    *)
(* can do to the files of the disk is the subject of module Fat12.          *)
DriverFails(p) ==
  /\ call[p].op \in PathOps \cup {"open", "read", "write"}
  /\ Locked(p, call[p].op)
  /\ LET m == IF call[p].op \in {"read", "write"} THEN node[arg[p]].mount
              ELSE call[p].m
     IN  m \in mounted /\ FsType[m] = "fat12"
  /\ Fails(p)

(* vfs_node_stat, vfs_list_nodes, vfs_file_exists and vfs_list_mounts       *)
(* change nothing, and unlock on every path.                                *)
VfsLook(p) == Locked(p, "look") /\ Result(p, TRUE) /\ UNCHANGED <<tables, arg>>

(* Mutant: a path that returns without vfs_unlock.                          *)
VfsUnlockForgotten(p) ==
  /\ Runs(p) /\ pc[p] = "unlock"
  /\ pc' = [pc EXCEPT ![p] = "return"]
  /\ UNCHANGED <<lock, tables, fds, call, arg, ok, cli, handles, closing, gone>>

VfsUnlock(p) ==
  /\ Runs(p) /\ pc[p] = "unlock"
  /\ lock' = FALSE
  /\ pc' = [pc EXCEPT ![p] = "return"]
  /\ UNCHANGED <<tables, fds, call, arg, ok, cli, handles, closing, gone>>

-----------------------------------------------------------------------------
(* Back in the caller.                                                      *)

Finish(p, place) ==
  /\ pc' = [pc EXCEPT ![p] = place]
  /\ call' = [call EXCEPT ![p] = NoCall]
  /\ arg' = [arg EXCEPT ![p] = Free]

(* The call returns to a kernel thread, or to the loop of destroy_process.  *)
KernelReturn(p) ==
  /\ Runs(p) /\ pc[p] = "return" /\ cli # p
  /\ handles' = [handles EXCEPT ![p] =
                    IF call[p].op = "open" /\ ok[p] THEN @ \cup {arg[p]}
                    ELSE IF call[p].op = "close" THEN @ \ {arg[p]} ELSE @]
  /\ Finish(p, IF call[p] = CloseOfDestroyed THEN "destroy" ELSE "idle")
  /\ UNCHANGED <<lock, tables, fds, ok, cli, closing, gone>>

(* get_free_fd_index: the first empty slot; a set of at most one.           *)
FreeFd(p) ==
  {i \in FdSlots : /\ fds[p][i] = Free
                   /\ \A j \in FdSlots : j < i => fds[p][j] # Free}

(* Mutant: open returns -1 and forgets the node.                            *)
SystemOpenFullForgets(p) ==
  /\ Runs(p) /\ pc[p] = "return" /\ cli = p
  /\ call[p].op = "open" /\ ok[p] /\ FreeFd(p) = {}
  /\ Finish(p, "idle")
  /\ cli' = NoProc
  /\ UNCHANGED <<lock, tables, fds, ok, handles, closing, gone>>

(* SyscallHandler::open: no descriptor is left, the node is closed again.   *)
SystemOpenFull(p) ==
  /\ Runs(p) /\ pc[p] = "return" /\ cli = p
  /\ call[p].op = "open" /\ ok[p] /\ FreeFd(p) = {}
  /\ Start(p, CloseFd(Free), arg[p])
  /\ UNCHANGED <<lock, tables, fds, ok, cli, handles, closing, gone>>

(* Mutant: close_fd leaves the closed node in the descriptor.               *)
SystemReturnKeepsFd(p) ==
  /\ Runs(p) /\ pc[p] = "return" /\ cli = p
  /\ IF call[p].op = "open" /\ ok[p]
     THEN \E i \in FreeFd(p) : fds' = [fds EXCEPT ![p][i] = arg[p]]
     ELSE fds' = fds
  /\ Finish(p, "idle")
  /\ cli' = NoProc
  /\ UNCHANGED <<lock, tables, ok, handles, closing, gone>>

(* The system call returns: open_fd stores the node in a free descriptor,   *)
(* close_fd empties the descriptor.                                         *)
SystemReturn(p) ==
  /\ Runs(p) /\ pc[p] = "return" /\ cli = p
  /\ IF call[p].op = "open" /\ ok[p]
     THEN \E i \in FreeFd(p) : fds' = [fds EXCEPT ![p][i] = arg[p]]
     ELSE IF call[p].op = "close" /\ call[p].fd \in FdSlots
     THEN fds' = [fds EXCEPT ![p][call[p].fd] = Free]
     ELSE fds' = fds
  /\ Finish(p, "idle")
  /\ cli' = NoProc
  /\ UNCHANGED <<lock, tables, ok, handles, closing, gone>>

-----------------------------------------------------------------------------
Body(p) ==
  \/ VfsMount(p)
  \/ VfsUnmount(p)
  \/ VfsOpen(p)
  \/ VfsClose(p)
  \/ VfsSeek(p)
  \/ VfsRead(p)
  \/ VfsWriteNode(p)
  \/ \E op \in PathOps : VfsPathOp(p, op)
  \/ DriverFails(p)
  \/ VfsLook(p)

Return(p) ==
  \/ VfsUnlock(p)
  \/ KernelReturn(p)
  \/ SystemOpenFull(p)
  \/ SystemReturn(p)

Next ==
  \E p \in Procs :
    \/ \E c \in load.kernel[p] : KernelCall(p, c)
    \/ \E c \in load.system[p] : BadDescriptor(p, c)
    \/ \E c \in load.system[p] : SystemCall(p, c)
    \/ \E q \in Procs : DestroyProcess(p, q)
    \/ DestroyClose(p)
    \/ Body(p)
    \/ Return(p)

Spec == Init /\ [][Next /\ UNCHANGED load]_<<vars, load>>

(* The scheduler gives every process the CPU again and again (RoundRobin of *)
(* Scheduler), so a process goes on, and one that spins tries the lock at   *)
(* some moment when it is free if it is free again and again.               *)
FairSpec ==
  /\ Spec
  /\ \A p \in Procs : /\ SF_vars(Body(p))
                      /\ WF_vars(Return(p))
                      /\ WF_vars(DestroyClose(p))

-----------------------------------------------------------------------------
(* Properties.                                                              *)

TypeOK ==
  /\ lock \in BOOLEAN
  /\ mounted \subseteq Mounts
  /\ files \in [Mounts -> [Names -> Entry]]
  /\ nodes \subseteq NodeId
  /\ nextId \in FirstNodeId .. LastNodeId + 1
  /\ node \in [NodeId -> [mount : Mounts, name : Names,
                          kind : {"none", "file"}, size : Nat, cursor : Nat,
                          access : {"r", "w", "rw"},
                          opts : SUBSET {"creat", "trunc", "append", "excl"}]]
  /\ fds \in [Procs -> [FdSlots -> NodeId \cup {Free}]]
  /\ pc \in [Procs -> {"idle", "lock", "unlock", "return", "destroy"}]
  /\ arg \in [Procs -> NodeId \cup {Free}]
  /\ ok \in [Procs -> BOOLEAN]
  /\ cli \in Procs \cup {NoProc}
  /\ handles \in [Procs -> SUBSET NodeId]
  /\ closing \in [Procs -> SUBSET NodeId]
  /\ gone \subseteq Procs

(* VFS_LOCK is set only while some process is between vfs_lock and          *)
(* vfs_unlock, and there is never a second one: the tables have one user    *)
(* and keep their types.                                                    *)
LockHeldInside ==
  /\ TypeOK
  /\ lock <=> \E p \in Procs : pc[p] = "unlock"
  /\ \A p, q \in Procs : pc[p] = "unlock" /\ pc[q] = "unlock" => p = q

(* Every function of the VFS returns to its caller: it does not spin on     *)
(* VFS_LOCK for ever, in a kernel thread or in a system call.               *)
CallsReturn ==
  \A p \in Procs :
    pc[p] = "lock" ~> (pc[p] \in {"idle", "destroy"} \/ p \in gone)

(* The descriptors p has, or destroy_process is about to close for it.      *)
Held(p) == ({fds[p][i] : i \in FdSlots} \ {Free}) \cup closing[p]

(* A descriptor's node stays in the node table until that descriptor is     *)
(* closed, and belongs to it alone: no other descriptor of this or another  *)
(* process, and no kernel thread, can close it underneath.                  *)
FdOwnsNode ==
  /\ \A p \in Procs : \A id \in Held(p) :
       \/ id \in nodes
       \/ cli = p /\ call[p].op = "close" /\ arg[p] = id
  /\ \A p, q \in Procs : p # q => Held(p) \cap (Held(q) \cup handles[q]) = {}
  /\ \A p \in Procs : \A i, j \in FdSlots :
       fds[p][i] = fds[p][j] /\ fds[p][i] # Free => i = j

(* No node is lost: each one in NODE_TABLE (there are only MAX_NODES) has a *)
(* holder that can still close it, also when open finds no free descriptor  *)
(* and when its process is destroyed.                                       *)
NoNodeLeak ==
  \A id \in nodes :
    \E p \in Procs \ gone : \/ id \in Held(p) \cup handles[p]
                            \/ arg[p] = id /\ call[p].op \in {"open", "close"}

(* A node with O_APPEND writes at the end of the file, as vfs_write_node    *)
(* says ("Honours [`O_APPEND`] by always writing at end of file.").         *)
AppendAtEnd ==
  \A p \in Procs :
    LET n == node[arg[p]]
    IN  VfsWriteNode(p) /\ ok'[p] /\ "append" \in n.opts
        => files'[n.mount][n.name].data
             = files[n.mount][n.name].data \o call[p].data

(* The size a node caches is the size of its file, on which vfs_seek and    *)
(* O_APPEND rely.                                                           *)
SizeCached ==
  \A id \in nodes :
    LET n == node[id] IN n.size = Len(files[n.mount][n.name].data)

(* A write past the start of a file keeps what lies outside the written     *)
(* range ("Writes to an open node at its cursor position.").  At cursor 0   *)
(* vfs_write_node replaces the file.                                        *)
WriteKeepsRest ==
  \A p \in Procs :
    LET n   == node[arg[p]]
        old == files[n.mount][n.name].data
        new == files'[n.mount][n.name].data
    IN  VfsWriteNode(p) /\ ok'[p] /\ "append" \notin n.opts /\ n.cursor > 0
        => \A i \in 1 .. Len(old) :
             \/ i \in n.cursor + 1 .. n.cursor + Len(call[p].data)
             \/ i <= Len(new) /\ new[i] = old[i]

=============================================================================
