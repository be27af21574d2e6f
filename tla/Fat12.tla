-------------------------------- MODULE Fat12 --------------------------------
(***************************************************************************)
(* The FAT12 driver (fat12/src/lib.rs): the FAT cached in memory, the FAT, *)
(* root directory and data clusters on the disk, and the calls that change *)
(* them one disk write at a time.                                          *)
(*                                                                         *)
(* Every caller holds VFS_LOCK (module Vfs), so one call is in progress at *)
(* a time; FAT_LOCK adds nothing.  What may come between two writes of a   *)
(* call is a disk error, a panic and the loss of power.                    *)
(*                                                                         *)
(* Data come in chunks that fill one cluster, so file_size counts chunks.  *)
(* The entries in use fit the first sector of the root directory, which    *)
(* the disk writes whole or not at all.  A call that returns an error      *)
(* before it has changed anything is a stuttering step and has no action.  *)
(***************************************************************************)
EXTENDS Integers, Sequences, FiniteSets, SequencesExt

CONSTANTS
  Names,        \* file names
  LongNames,    \* those that set_name rejects
  Chunks,       \* the cluster contents that callers write
  Data,         \* the `data` arguments of calls, sequences of chunks
  LastCluster,  \* the last cluster of the disk
  LastEntry,    \* the last entry of the FAT sectors, at least LastCluster
  ScanFits,     \* whether the FAT has all 0xFF0 entries allocate_cluster scans
  FatSectors,   \* BPB.fat_size_16
  IoErrors,     \* whether disk reads and writes may fail
  PowerLoss,    \* the values of pc at which the power may fail
  Calls,        \* the calls the kernel makes
  MaxSize       \* bound on the size of a file

Cluster == 2 .. LastEntry

FREE == 0

EOF == LastEntry + 1

(* What a cluster may hold besides a caller's chunk: a new directory with   *)
(* its "." and "..", zeros, or nothing for want of a place on the disk.     *)
Special == {"dots", "zeros", "no_sector"}

(* Names that are no names: of a deleted entry and of the volume label.     *)
NoNames == {"deleted", "label"}

ASSUME Fat12Constants ==
  /\ LongNames \subseteq Names /\ Names \cap NoNames = {}
  /\ Chunks \cap Special = {}
  /\ Data \subseteq Seq(Chunks)
  /\ LastCluster \in Nat /\ LastCluster >= 2
  /\ LastEntry \in Nat /\ LastEntry >= LastCluster
  /\ FatSectors \in Nat \ {0}
  /\ {ScanFits, IoErrors} \subseteq BOOLEAN
  /\ MaxSize \in Nat

VARIABLES
  fat,       \* FAT_CACHE, entry by entry
  diskFat,   \* the first FAT on the disk (the backups are never read)
  diskDir,   \* the root directory on the disk
  diskData,  \* the data clusters on the disk
  pc,        \* idle; data, root, flush: what is written next; off
  op,        \* the call in progress: its name and arguments
  work,      \* its local variables: index, data to write, clusters
  done,      \* sectors already written in this phase
  before     \* history: what the directory held when the call began

vars == <<fat, diskFat, diskDir, diskData, pc, op, work, done, before>>

disk == <<diskFat, diskDir, diskData>>

Entries == [name : Names \cup NoNames, kind : {"file", "dir", "volume"},
            first : Cluster \cup {FREE}, size : Nat]
-----------------------------------------------------------------------------
(* read_root_directory_unlocked drops deleted entries and volume labels.    *)
Visible(dir) ==
  LET Shown(e) == e.name # "deleted" /\ e.kind # "volume"
  IN  SelectSeq(dir, Shown)

(* find_entry_with_index_unlocked: 0 for "File not found".                  *)
Find(dir, n) ==
  LET v    == Visible(dir)
      hits == {i \in DOMAIN v : v[i].name = n}
  IN  IF hits = {} THEN 0 ELSE Min(hits)

(* The clusters a loop over get_fat_entry visits from c on; it stops at the *)
(* first value that is no cluster.                                          *)
Walk(f, c) ==
  LET w[k \in 0 .. LastEntry] ==
        IF k = 0 THEN c
        ELSE IF w[k - 1] \in Cluster THEN f[w[k - 1]] ELSE w[k - 1]
  IN  w

ChainOf(f, c) == {Walk(f, c)[k] : k \in 0 .. LastEntry} \cap Cluster

(* fat12_read_file: the clusters of the chain, truncated to file_size.      *)
ReadFile(f, data, e) ==
  LET w == Walk(f, e.first)
      n == Cardinality({k \in 1 .. e.size : w[k - 1] \in Cluster})
  IN  [k \in 1 .. n |-> data[w[k - 1]]]

(* The whole directory as fat12_list_entries and fat12_read_file show it.   *)
Files(f, dir, data) ==
  LET v == Visible(dir)
  IN  [n \in {v[i].name : i \in DOMAIN v} |->
         LET e == v[Find(dir, n)]
         IN  [kind |-> e.kind, data |-> ReadFile(f, data, e)]]

Seen == Files(fat, diskDir, diskData)

OnDisk == Files(diskFat, diskDir, diskData)

(* free_cluster_chain.                                                      *)
Freed(f, c) == [d \in Cluster |-> IF d \in ChainOf(f, c) THEN FREE ELSE f[d]]

(* allocate_cluster takes the lowest free cluster each time.                *)
FreeClusters(f) == SetToSortSeq({c \in Cluster : f[c] = FREE}, <)


(* The set_fat_entry calls that link the clusters of ch into a chain.       *)
Linked(f, ch) ==
  [c \in Cluster |->
     IF c \notin ToSet(ch) THEN f[c]
     ELSE LET i == CHOOSE i \in DOMAIN ch : ch[i] = c
          IN  IF i = Len(ch) THEN EOF ELSE ch[i + 1]]

SectorOf(c) == 1 + ((c - 2) * FatSectors) \div (LastEntry - 1)

Request(call, n, to, d) == [call |-> call, name |-> n, to |-> to, data |-> d]

NoRequest == Request("idle", "none", "none", << >>)

NoWork == [at |-> 0, data |-> << >>, chain |-> << >>]

Init ==
  /\ fat = [c \in Cluster |-> FREE]
  /\ diskFat = fat
  /\ diskDir = <<[name |-> "label", kind |-> "volume", first |-> FREE, size |-> 0]>>
  /\ diskData = [c \in Cluster |-> IF c <= LastCluster THEN "zeros" ELSE "no_sector"]
  /\ pc = "idle"
  /\ op = NoRequest
  /\ work = NoWork
  /\ done = 0
  /\ before = << >>
-----------------------------------------------------------------------------
Begins(r) == pc = "idle" /\ r.call \in Calls

(* The call r is at the first disk write of phase `next` with locals w.     *)
Enter(r, next, w) ==
  /\ pc' = next
  /\ op' = r
  /\ work' = w
  /\ done' = 0
  /\ before' = Seen

(* The call returns, or the machine stops: its locals are gone.             *)
Leave(next) ==
  /\ pc' = next
  /\ op' = NoRequest
  /\ work' = NoWork
  /\ done' = 0
  /\ before' = << >>

Return == Leave("idle")

(* allocate_and_write_chain up to its first write, on the cache f.  When    *)
(* the clusters run out, those already taken stay taken; a FAT shorter than *)
(* the scan makes get_fat_entry index past FAT_CACHE, which panics.         *)
AllocateChain(r, f, at, d) ==
  LET free == FreeClusters(f)
      ch   == SubSeq(free, 1, Len(d))
  IN  IF Len(d) <= Len(free)
      THEN /\ fat' = Linked(f, ch)
           /\ Enter(r, "data", [at |-> at, data |-> d, chain |-> ch])
      ELSE /\ fat' = [c \in Cluster |-> IF f[c] = FREE THEN EOF ELSE f[c]]
           /\ Leave(IF ScanFits THEN "idle" ELSE "off")

(* fat12_create_file up to the first cluster write.                         *)
CreateFile(n, d) ==
  LET r == Request("create", n, n, d)
  IN  /\ Begins(r)
      /\ d # << >>
      /\ AllocateChain(r, fat, 0, d)
      /\ UNCHANGED disk

(* What fat12_write_file does with data d before its first disk write: the  *)
(* old chain is free before the new one is allocated.  The second read of   *)
(* the root directory may fail in between.                                  *)
StartWrite(r, d) ==
  LET at == Find(diskDir, r.name)
      f  == Freed(fat, Visible(diskDir)[at].first)
  IN  /\ Begins(r)
      /\ at # 0 /\ Len(d) <= MaxSize
      /\ \/ /\ d # << >>
            /\ AllocateChain(r, f, at, d)
         \/ /\ d = << >>
            /\ fat' = f
            /\ Enter(r, "root", [NoWork EXCEPT !.at = at])
         \/ /\ IoErrors
            /\ fat' = f
            /\ Return
      /\ UNCHANGED disk

WriteFile(n, d) == StartWrite(Request("write", n, n, d), d)

(* fat12_append_file: read, concatenate, fat12_write_file.                  *)
AppendFile(n, d) ==
  /\ n \in DOMAIN Seen
  /\ "no_sector" \notin ToSet(Seen[n].data)
  /\ StartWrite(Request("append", n, n, d), Seen[n].data \o d)

(* fat12_rename_file.                                                       *)
RenameFile(n, to) ==
  LET r  == Request("rename", n, to, << >>)
      at == Find(diskDir, n)
  IN  /\ Begins(r)
      /\ Find(diskDir, to) = 0 /\ at # 0
      /\ to \notin LongNames
      /\ Enter(r, "root", [NoWork EXCEPT !.at = at])
      /\ UNCHANGED <<fat, disk>>

(* fat12_delete_file and fat12_delete_directory free the chain, read the    *)
(* directory again, which may fail, and mark the entry deleted.             *)
StartDelete(r) ==
  LET at == Find(diskDir, r.name)
  IN  /\ Begins(r)
      /\ at # 0
      /\ fat' = Freed(fat, Visible(diskDir)[at].first)
      /\ Enter(r, "root", [NoWork EXCEPT !.at = at]) \/ (IoErrors /\ Return)
      /\ UNCHANGED disk

DeleteFile(n) == StartDelete(Request("delete", n, n, << >>))

(* fat12_delete_directory.  No call puts an entry into a subdirectory, so   *)
(* it is empty; one whose clusters were overwritten by fat12_write_file may *)
(* also look full, and then the call changes nothing.                       *)
DeleteDirectory(n) ==
  /\ Find(diskDir, n) # 0
  /\ Visible(diskDir)[Find(diskDir, n)].kind = "dir"
  /\ StartDelete(Request("rmdir", n, n, << >>))

(* fat12_create_directory up to the write of its one cluster.               *)
CreateDirectory(n) ==
  LET r == Request("mkdir", n, n, << >>)
  IN  /\ Begins(r)
      /\ Find(diskDir, n) = 0
      /\ AllocateChain(r, fat, 0, <<"dots">>)
      /\ UNCHANGED disk
-----------------------------------------------------------------------------
(* The outcomes of a disk write that reached the disk: the call goes on to  *)
(* `next`, or the disk reported an error all the same and the call returns. *)
Continue(next, n) ==
  \/ /\ pc' = next /\ done' = n
     /\ UNCHANGED <<op, work, before>>
  \/ IoErrors /\ Return

(* write_cluster_unlocked for the next cluster of the chain.                *)
WriteCluster ==
  LET c    == work.chain[done + 1]
      last == done + 1 = Len(work.chain)
  IN  /\ pc = "data"
      /\ c <= LastCluster
      /\ diskData' = [diskData EXCEPT ![c] = work.data[done + 1]]
      /\ IF last THEN Continue("root", 0) ELSE Continue("data", done + 1)
      /\ UNCHANGED <<fat, diskFat, diskDir>>

(* A cluster past the end of the disk: the write always fails.              *)
WritePastEnd ==
  /\ pc = "data"
  /\ work.chain[done + 1] > LastCluster
  /\ Return
  /\ UNCHANGED <<fat, disk>>

NewEntry(kind, size) ==
  [name |-> op.name, kind |-> kind, first |-> work.chain[1], size |-> size]

(* Mutant: the index found among the visible entries is used in the list of *)
(* all entries.                                                             *)
NewDirUnfiltered ==
  CASE op.call = "create" -> Append(diskDir, NewEntry("file", Len(work.data)))
    [] op.call = "mkdir"  -> Append(diskDir, NewEntry("dir", 0))
    [] op.call \in {"write", "append"} ->
         [diskDir EXCEPT ![work.at].first = IF work.data = << >> THEN FREE
                                            ELSE work.chain[1],
                         ![work.at].size = Len(work.data)]
    [] op.call = "rename" -> [diskDir EXCEPT ![work.at].name = op.to]
    [] OTHER -> [diskDir EXCEPT ![work.at].name = "deleted"]

NewDir ==
  LET v == Visible(diskDir)
  IN  CASE op.call = "create" -> Append(v, NewEntry("file", Len(work.data)))
        [] op.call = "mkdir"  -> Append(v, NewEntry("dir", 0))
        [] op.call \in {"write", "append"} ->
             [v EXCEPT ![work.at].first = IF work.data = << >> THEN FREE
                                          ELSE work.chain[1],
                       ![work.at].size = Len(work.data)]
        [] op.call = "rename" -> [v EXCEPT ![work.at].name = op.to]
        [] OTHER -> [v EXCEPT ![work.at].name = "deleted"]

(* Only now does fat12_create_file look for the name, and only now do it    *)
(* and fat12_create_directory encode it.                                    *)
Rejected ==
  /\ op.call \in {"create", "mkdir"}
  /\ op.name \in LongNames \/ Find(diskDir, op.name) # 0

CreateRejected ==
  /\ pc = "root" /\ Rejected
  /\ Return
  /\ UNCHANGED <<fat, disk>>

(* write_root_directory_unlocked.  fat12_rename_file stops here.            *)
WriteRoot ==
  /\ pc = "root" /\ ~Rejected
  /\ diskDir' = NewDir
  /\ IF op.call = "rename" THEN Return ELSE Continue("flush", 0)
  /\ UNCHANGED <<fat, diskFat, diskData>>

(* Mutant: the loop over the FAT sectors runs once too often.               *)
FlushFatOneMore ==
  /\ pc = "flush"
  /\ diskFat' = [c \in Cluster |-> IF SectorOf(c) = done + 1 THEN fat[c] ELSE diskFat[c]]
  /\ IF done = FatSectors THEN Return ELSE Continue("flush", done + 1)
  /\ UNCHANGED <<fat, diskDir, diskData>>

(* flush_fat_unlocked, one sector of the first FAT.  The last one includes  *)
(* the backup FATs, which no code reads.                                    *)
FlushFat ==
  /\ pc = "flush"
  /\ diskFat' = [c \in Cluster |-> IF SectorOf(c) = done + 1 THEN fat[c] ELSE diskFat[c]]
  /\ IF done + 1 = FatSectors THEN Return ELSE Continue("flush", done + 1)
  /\ UNCHANGED <<fat, diskDir, diskData>>

(* A read or write of the disk fails and nothing reaches it: `?` returns.   *)
IoError ==
  /\ IoErrors /\ pc \in {"data", "root", "flush"}
  /\ Return
  /\ UNCHANGED <<fat, disk>>

(* The power fails.                                                         *)
Crash ==
  /\ pc \in PowerLoss \ {"off"}
  /\ Leave("off")
  /\ UNCHANGED <<fat, disk>>

(* After the restart fat12_init loads the first FAT.                        *)
Fat12Init ==
  /\ pc = "off"
  /\ fat' = diskFat
  /\ Return
  /\ UNCHANGED disk

Next ==
  \/ \E n \in Names :
       \/ \E d \in Data : CreateFile(n, d) \/ WriteFile(n, d) \/ AppendFile(n, d)
       \/ \E to \in Names : RenameFile(n, to)
       \/ DeleteFile(n) \/ CreateDirectory(n) \/ DeleteDirectory(n)
  \/ WriteCluster \/ WritePastEnd \/ CreateRejected \/ WriteRoot \/ FlushFat
  \/ IoError \/ Crash \/ Fat12Init

Spec == Init /\ [][Next]_vars
-----------------------------------------------------------------------------
(* The cache, the disk and the call in progress have their types.           *)
TypeOK ==
  /\ fat \in [Cluster -> Cluster \cup {FREE, EOF}]
  /\ diskFat \in [Cluster -> Cluster \cup {FREE, EOF}]
  /\ diskDir \in Seq(Entries)
  /\ diskData \in [Cluster -> Chunks \cup Special]
  /\ pc \in {"idle", "data", "root", "flush", "off"}
  /\ pc = "data" => done < Len(work.chain) /\ Len(work.chain) = Len(work.data)
  /\ pc = "flush" => done < FatSectors


(* The root directory entries under the name n.                             *)
EntriesOf(n) ==
  LET Named(e) == e.name = n IN SelectSeq(Visible(diskDir), Named)

(* Two views of the directory agree on the name n.                          *)
Same(n, f, g) ==
  /\ n \in DOMAIN f <=> n \in DOMAIN g
  /\ n \in DOMAIN f => f[n] = g[n]

(* Whatever the instant at which the machine stops, the disk shows every    *)
(* file that the call in progress was not given as it was before: cluster,  *)
(* directory and FAT writes of a call touch no other file.                  *)
OthersKept ==
  [][\A n \in Names \ {op.name, op.to} : Same(n, OnDisk, OnDisk')]_vars

(* No call rewrites, drops or duplicates the directory entry of a name it   *)
(* was not given, even when it fails half-way or the machine restarts: the  *)
(* index found in one read of the directory is used in the list of another. *)
EntriesKept == \A n \in Names \ {op.name, op.to} : EntriesOf(n) = EntriesOf(n)'

(* Under every fault the cache and the disk keep their types as well.       *)
EntriesSound == [][EntriesKept /\ TypeOK']_vars

(* Every call is atomic and does what FlatFs says: the directory shown      *)
(* between calls is the abstract one.                                       *)
Flat == INSTANCE FlatFs WITH
  files <- CASE pc = "idle" -> Seen [] pc = "off" -> OnDisk [] OTHER -> before,
  call  <- IF pc = "idle" THEN [call |-> "idle"]
           ELSE IF pc = "off" THEN [call |-> "off"] ELSE op

=============================================================================
