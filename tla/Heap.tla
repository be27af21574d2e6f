--------------------------------- MODULE Heap ---------------------------------
(***************************************************************************)
(* The kernel heap (memory/src/allocator.rs): LinkAllocator, which serves  *)
(* an allocation from its list of freed blocks or by moving HEAP_OFFSET,   *)
(* and sbrk, which moves HEAP_OFFSET for the user programs.                *)
(*                                                                         *)
(* Neither takes a lock.  A kernel thread can be preempted inside alloc and *)
(* dealloc: the steps here are the places where what another caller does   *)
(* makes a difference.  sbrk is called from a system call, with interrupts *)
(* masked, so it is one step.  With Exclusive = TRUE no caller comes in    *)
(* while another one is inside, which the kernel does not ensure; with     *)
(* FALSE they meet at any step.                                            *)
(*                                                                         *)
(* Addresses are offsets from HEAP_START.  A block is named by the address *)
(* of its LinkedListBlock; the bytes handed out follow the header.         *)
(***************************************************************************)
EXTENDS Integers, FiniteSets

CONSTANTS
  Threads,        \* kernel threads
  Programs,       \* user programs
  Sizes, Aligns,  \* sizes and alignments of the layouts asked for
  Increments,     \* increments given to sbrk
  HEADER,         \* size_of::<LinkedListBlock>() (24)
  HEADER_ALIGN,   \* align_of::<LinkedListBlock>() (8)
  HEAP_SIZE,
  Exclusive,      \* whether callers never meet inside the allocator
  MaxHeld         \* bound: a thread allocates when it holds fewer blocks

Address == 0 .. HEAP_SIZE
Null == -1
Layout == [size : Sizes, align : Aligns]
AnyLayout == CHOOSE l \in Layout : TRUE

ASSUME HeapConstants ==
  /\ Threads \cap Programs = {}
  /\ Sizes \subseteq Nat \ {0} /\ Aligns \subseteq Nat \ {0}
  /\ Increments \subseteq Int
  /\ HEADER \in Nat \ {0} /\ HEADER_ALIGN \in Nat \ {0}
  /\ HEAP_SIZE \in Nat /\ MaxHeld \in Nat
  /\ Exclusive \in BOOLEAN

VARIABLES
  offset,            \* HEAP_OFFSET
  head, tail, count, \* FREE_LIST
  size, next, prev,  \* size[b], next[b], prev[b]: the header at b
  pc,                \* pc[t]: where t is in alloc or dealloc
  current,           \* current[t]: local of alloc; the block of dealloc
  layout,            \* layout[t]: argument of alloc
  held,              \* held[t]: the blocks t has got and not given back
  areas,             \* areas[u]: the addresses u has got from sbrk
  freed              \* history: the blocks given back and not handed out again

list == <<head, tail, count, next, prev>>
vars == <<offset, list, size, pc, current, layout, held, areas, freed>>

(* init_allocator.                                                          *)
Init ==
  /\ offset = 0
  /\ head = Null /\ tail = Null /\ count = 0
  /\ size = [a \in Address |-> 0]
  /\ next = [a \in Address |-> Null]
  /\ prev = [a \in Address |-> Null]
  /\ pc = [t \in Threads |-> "out"]
  /\ current = [t \in Threads |-> Null]
  /\ layout = [t \in Threads |-> AnyLayout]
  /\ held = [t \in Threads |-> {}]
  /\ areas = [u \in Programs |-> {}]
  /\ freed = {}

(* A caller may come in.                                                    *)
ComesIn == Exclusive => \A t \in Threads : pc[t] = "out"

AlignUp(x, align) == x + ((-x) % align)

-----------------------------------------------------------------------------
(* LinkAllocator.                                                           *)

(* LinkedList::push_back.                                                   *)
PushBack(b) ==
  /\ next' = [a \in Address |->
                IF a = b THEN Null ELSE IF a = tail THEN b ELSE next[a]]
  /\ prev' = [prev EXCEPT ![b] = tail]
  /\ head' = IF tail = Null THEN b ELSE head
  /\ tail' = b
  /\ count' = count + 1

(* LinkedList::remove: the neighbours of b are linked with each other.      *)
Unlink(b, newTail) ==
  /\ head' = IF prev[b] = Null THEN next[b] ELSE head
  /\ next' = IF prev[b] = Null THEN next ELSE [next EXCEPT ![prev[b]] = next[b]]
  /\ tail' = newTail
  /\ prev' = IF next[b] = Null THEN prev ELSE [prev EXCEPT ![next[b]] = prev[b]]
  /\ count' = count - 1

(* The last block removed stays the tail.                                   *)
RemoveKeepsTail(b) == Unlink(b, tail)

Remove(b) == Unlink(b, IF next[b] = Null THEN prev[b] ELSE tail)

(* alloc is called.                                                         *)
Alloc(t, l) ==
  /\ pc[t] = "out" /\ Cardinality(held[t]) < MaxHeld
  /\ ComesIn
  /\ pc' = [pc EXCEPT ![t] = "walk"]
  /\ current' = [current EXCEPT ![t] = head]
  /\ layout' = [layout EXCEPT ![t] = l]
  /\ UNCHANGED <<offset, list, size, held, areas, freed>>

(* The locals of a call end with it.                                        *)
Returns(t) ==
  /\ pc' = [pc EXCEPT ![t] = "out"]
  /\ current' = [current EXCEPT ![t] = Null]
  /\ layout' = [layout EXCEPT ![t] = AnyLayout]

HandOut(t, b) == held' = [held EXCEPT ![t] = @ \cup {b}]

(* The block of the list that current points to is handed out, all of it.   *)
Reuse(t) ==
  /\ pc[t] = "walk" /\ current[t] # Null
  /\ Remove(current[t])
  /\ HandOut(t, current[t])
  /\ freed' = freed \ {current[t]}
  /\ Returns(t)
  /\ UNCHANGED <<offset, size, areas>>

(* The size is not compared.                                                *)
FirstFitAnySize(t) == Reuse(t)

(* It is the first that is large enough, whatever its alignment.            *)
FirstFit(t) ==
  current[t] # Null /\ size[current[t]] >= layout[t].size /\ Reuse(t)

(* The walk does not advance.                                               *)
TooSmallStays(t) ==
  /\ pc[t] = "walk" /\ current[t] # Null
  /\ size[current[t]] < layout[t].size
  /\ UNCHANGED vars

TooSmall(t) ==
  /\ pc[t] = "walk" /\ current[t] # Null
  /\ size[current[t]] < layout[t].size
  /\ current' = [current EXCEPT ![t] = next[current[t]]]
  /\ UNCHANGED <<offset, list, size, pc, layout, held, areas, freed>>

(* aligned_offset and total_size of the list's end, as alloc reads them.    *)
AlignedOffset(l) == AlignUp(offset, IF l.align > HEADER_ALIGN THEN l.align ELSE HEADER_ALIGN)

(* The header is not counted.                                               *)
FitsPayload(l) == AlignedOffset(l) + l.size <= HEAP_SIZE

Fits(l) == AlignedOffset(l) + HEADER + l.size <= HEAP_SIZE

OutOfMemory(t) ==
  /\ pc[t] = "walk" /\ current[t] = Null /\ ~Fits(layout[t])
  /\ Returns(t)
  /\ UNCHANGED <<offset, list, size, held, areas, freed>>

(* Block and size are computed from HEAP_OFFSET ...                         *)
Measure(t) ==
  /\ pc[t] = "walk" /\ current[t] = Null /\ Fits(layout[t])
  /\ current' = [current EXCEPT ![t] = AlignedOffset(layout[t])]
  /\ pc' = [pc EXCEPT ![t] = "bump"]
  /\ UNCHANGED <<offset, list, size, layout, held, areas, freed>>

(* ... and HEAP_OFFSET is stored after the header.                          *)
Store(t, newOffset) ==
  /\ pc[t] = "bump"
  /\ size' = [size EXCEPT ![current[t]] = layout[t].size]
  /\ next' = [next EXCEPT ![current[t]] = Null]
  /\ prev' = [prev EXCEPT ![current[t]] = Null]
  /\ offset' = newOffset
  /\ HandOut(t, current[t])
  /\ Returns(t)
  /\ UNCHANGED <<head, tail, count, areas, freed>>


Bump(t) == Store(t, current[t] + HEADER + layout[t].size)

(* dealloc is called with a block the thread holds ...                      *)
Dealloc(t) ==
  /\ pc[t] = "out"
  /\ ComesIn
  /\ \E b \in held[t] :
       /\ held' = [held EXCEPT ![t] = @ \ {b}]
       /\ current' = [current EXCEPT ![t] = b]
  /\ pc' = [pc EXCEPT ![t] = "free"]
  /\ UNCHANGED <<offset, list, size, layout, areas, freed>>

(* ... which goes to the end of the list.                                   *)
Free(t) ==
  /\ pc[t] = "free"
  /\ PushBack(current[t])
  /\ freed' = freed \cup {current[t]}
  /\ Returns(t)
  /\ UNCHANGED <<offset, size, held, areas>>

-----------------------------------------------------------------------------
(* sbrk.                                                                    *)

(* A program gives back only addresses at the end of the heap that are its  *)
(* own: external, what a C library's allocator does.                        *)
OwnEnd(u, n) == n < 0 => offset + n >= 0 /\ (offset + n) .. (offset - 1) \subseteq areas[u]

Sbrk(u, n) ==
  LET new_offset == offset + n IN
  /\ OwnEnd(u, n)
  /\ ComesIn
  /\ IF new_offset < 0 \/ new_offset > HEAP_SIZE
     THEN UNCHANGED <<offset, areas>>
     ELSE /\ offset' = new_offset
          /\ areas' = [areas EXCEPT ![u] =
                         IF n < 0 THEN @ \ (new_offset .. (offset - 1))
                                  ELSE @ \cup (offset .. (new_offset - 1))]
  /\ UNCHANGED <<list, size, pc, current, layout, held, freed>>

-----------------------------------------------------------------------------
ThreadStep(t) ==
  \/ FirstFit(t) \/ TooSmall(t) \/ OutOfMemory(t) \/ Measure(t) \/ Bump(t) \/ Free(t)

Next ==
  \/ \E t \in Threads :
       ThreadStep(t) \/ Dealloc(t) \/ \E l \in Layout : Alloc(t, l)
  \/ \E u \in Programs, n \in Increments : Sbrk(u, n)

Spec == Init /\ [][Next]_vars

(* A thread that is preempted gets the CPU again.                           *)
FairSpec == Spec /\ \A t \in Threads : WF_vars(ThreadStep(t))

-----------------------------------------------------------------------------
(* Properties.                                                              *)

TypeOK ==
  /\ offset \in Address
  /\ head \in Address \cup {Null} /\ tail \in Address \cup {Null} /\ count \in Int
  /\ size \in [Address -> Nat]
  /\ next \in [Address -> Address \cup {Null}]
  /\ prev \in [Address -> Address \cup {Null}]
  /\ pc \in [Threads -> {"out", "walk", "bump", "free"}]
  /\ current \in [Threads -> Address \cup {Null}]
  /\ layout \in [Threads -> Layout]
  /\ held \in [Threads -> SUBSET Address]
  /\ areas \in [Programs -> SUBSET Address]
  /\ freed \subseteq Address

(* A block with its header.                                                 *)
Extent(b) == b .. (b + HEADER + size[b] - 1)

Blocks == UNION {held[t] : t \in Threads} \cup freed
            \cup {current[t] : t \in {t \in Threads : pc[t] = "free"}}


(* FREE_LIST is a doubly linked list of exactly the blocks given back:      *)
(* every block has the neighbours that have it, the ends are head and tail, *)
(* count is their number and a walk from head meets all of them.            *)
Walk[n \in 0 .. HEAP_SIZE] ==
  IF n = 0 THEN head
  ELSE IF Walk[n - 1] = Null THEN Null ELSE next[Walk[n - 1]]

ListSound ==
  /\ count = Cardinality(freed)
  /\ {Walk[n] : n \in 0 .. (count - 1)} = freed
  /\ \A b \in freed :
         /\ IF next[b] = Null THEN tail = b ELSE next[b] \in freed /\ prev[next[b]] = b
         /\ IF prev[b] = Null THEN head = b ELSE prev[b] \in freed /\ next[prev[b]] = b
  /\ freed = {} => head = Null /\ tail = Null

(* What alloc hands out is as large as its layout says: also a block of the *)
(* list that was allocated for another size.                                *)
LargeEnough ==
  [][\A t \in Threads : \A b \in held'[t] \ held[t] :
       size'[b] >= layout[t].size /\ b + HEADER + layout[t].size <= HEAP_SIZE]_vars

(* alloc and dealloc return: the walk along the list comes to its end.      *)
CallsReturn == \A t \in Threads : pc[t] # "out" ~> pc[t] = "out"

(* sbrk gives a program addresses that nobody else has, whoever was inside  *)
(* the allocator at the time.                                               *)
SbrkGrows ==
  /\ \A u, v \in Programs : u # v => areas[u] \cap areas[v] = {}
  /\ \A u \in Programs : areas[u] \subseteq 0 .. (offset - 1)
=============================================================================
