-------------------------------- MODULE Memory --------------------------------
(***************************************************************************)
(* Physical frames and page tables: the bitmap of FrameAllocator           *)
(* (memory/src/frame_allocator.rs), the tables of Mapper (vmm.rs), the     *)
(* window of map_mmio (mmio.rs), the place of the heap (init_allocator)    *)
(* and the address spaces of processes (create_user_pml4).                 *)
(*                                                                         *)
(* A frame and a physical page are a number.  A virtual page is the        *)
(* sequence of its table indices, p4 first.  tables[f][i] is entry i of    *)
(* the table in frame f: the frame it points to, or None when not PRESENT. *)
(* Flags other than PRESENT are left out, and so are the TLB (every change *)
(* ends in flush_tlb) and huge pages, which the code does not know.        *)
(*                                                                         *)
(* The kernel reaches frame f at its page of the direct map, Hhdm(f).  The *)
(* window of map_mmio starts at the same address as the direct map.        *)
(***************************************************************************)
EXTENDS Integers, Sequences, FiniteSets

CONSTANTS
  Boots,          \* what boot loaders hand over: memory maps and page tables
  Devices,        \* the first physical pages of devices, two pages each
  LEVELS,         \* levels of tables (4)
  ENTRIES,        \* entries of a table (512)
  HHDM,           \* p4_index of the direct map (256, the first of the kernel half)
  LOW_FRAMES,     \* frames below 1 MiB (256)
  BITMAP_FRAMES,  \* frames of the bitmap
  HEAP_MIN,       \* the heap's entry is larger than this (16 MiB)
  MMIO_PAGES,     \* pages of the window, the last one unusable
  UserPages,      \* bound: virtual pages of the user half that are mapped
  MaxSpaces       \* bound: address spaces

Index == 0 .. (ENTRIES - 1)
KernelHalf == HHDM .. (ENTRIES - 1)
None == -1
Empty == [i \in Index |-> None]
DevicePages == UNION {d .. (d + 1) : d \in Devices}

(* Entries of the memory map have a first frame, a length and a type.       *)
EntryFrames(e) == e.base .. (e.base + e.length - 1)

VARIABLES
  boot,     \* the one of Boots that is handed over
  free,     \* FRAME_BITMAP: the frames whose bit is set
  tables,   \* the contents of the frames that hold tables
  kernel,   \* KERNEL_PAGE_TABLE
  spaces,   \* the pml4 frames of processes
  taken,    \* frames drivers have got from alloc_frame
  current,  \* MMIO_CURRENT, in pages from MMIO_LOWER
  mmio      \* history: page of the window |-> physical page, for what drivers use

Map == Boots[boot].map
vars == <<boot, free, tables, kernel, spaces, taken, current, mmio>>

-----------------------------------------------------------------------------
(* Start-up.                                                                *)

Usable(m) == {k \in DOMAIN m : m[k].usable}
First(S) == CHOOSE k \in S : \A j \in S : k <= j
Frames(m) == UNION {EntryFrames(m[k]) : k \in DOMAIN m}

(* The bitmap is at the start of the first usable entry that can hold it,   *)
(* the heap behind as many frames of the first usable entry that is large.  *)
BitmapEntry(m) == m[First({k \in Usable(m) : m[k].length >= BITMAP_FRAMES})]
Bitmap(m) == BitmapEntry(m).base .. (BitmapEntry(m).base + BITMAP_FRAMES - 1)
HeapEntry(m) == m[First({k \in Usable(m) : m[k].length > HEAP_MIN})]

Heap(m) == (HeapEntry(m).base + BITMAP_FRAMES) ..
             (HeapEntry(m).base + HeapEntry(m).length - 1)


(* FrameAllocator::init: usable frames are free, except the low ones and    *)
(* those of the bitmap.                                                     *)
InitFree(m) ==
  UNION {EntryFrames(m[k]) : k \in Usable(m)}
    \ (UNION {EntryFrames(m[k]) : k \in DOMAIN m \ Usable(m)}
         \cup 0 .. (LOW_FRAMES - 1) \cup Bitmap(m))

(* The page of the direct map where frame f is: HHDM_OFFSET | address.      *)
Hhdm(f) ==
  [l \in 1 .. LEVELS |->
     IF l = 1 THEN HHDM ELSE (f \div (ENTRIES ^ (LEVELS - l))) % ENTRIES]

(* The frames met on the way down to page v from pml4 p: a table for every  *)
(* level and, after the last, the frame that v is mapped to.                *)
WalkOf(tbls, p, v) ==
  LET w[l \in 1 .. (LEVELS + 1)] ==
        IF l = 1 THEN p
        ELSE IF w[l - 1] = None THEN None ELSE tbls[w[l - 1]][v[l - 1]]
  IN w

Translate(tbls, p, v) == WalkOf(tbls, p, v)[LEVELS + 1]

ASSUME MemoryConstants ==
  /\ LEVELS \in Nat \ {0, 1} /\ ENTRIES \in Nat \ {0} /\ HHDM \in Index
  /\ LOW_FRAMES \in Nat /\ BITMAP_FRAMES \in Nat /\ HEAP_MIN \in Nat
  /\ MMIO_PAGES \in Nat /\ MaxSpaces \in Nat
  /\ Devices \subseteq Nat
  /\ UserPages \subseteq [1 .. LEVELS -> Index]
  /\ \A v \in UserPages : v[1] \notin KernelHalf
  (* The tables map every frame in the direct map and are not in usable ones.*)
  /\ \A n \in DOMAIN Boots : LET b == Boots[n] IN
       /\ b.pml4 \in Frames(b.map) \ InitFree(b.map)
       /\ b.tables \in [Frames(b.map) -> [Index -> Frames(b.map) \cup {None}]]
       /\ \A f \in InitFree(b.map) : b.tables[f] = Empty
       /\ \A f \in Frames(b.map) : Translate(b.tables, b.pml4, Hhdm(f)) = f

(* VMM::init, init_allocator and mmio_map_range.                            *)
Init ==
  /\ boot \in DOMAIN Boots
  /\ free = InitFree(Map)
  /\ tables = Boots[boot].tables
  /\ kernel = Boots[boot].pml4
  /\ spaces = {}
  /\ taken = {}
  /\ current = 0
  /\ mmio = <<>>

-----------------------------------------------------------------------------
(* Page tables.                                                             *)

(* map_page.  A missing table is allocated, cleared and linked, from the    *)
(* top; without a free frame the function returns and leaves what it has    *)
(* linked.  The last entry is overwritten whatever it was.                  *)
LowestFree(f, n) == {x \in f : Cardinality({y \in f : y < x}) < n}
Nth(S, n) == CHOOSE x \in S : Cardinality({y \in S : y < x}) = n - 1

(* s has fields free, tables and ok.                                        *)
MapOne(s, p, v, frame) ==
  LET w == WalkOf(s.tables, p, v)
      missing == {l \in 2 .. LEVELS : w[l] = None}
      new == LowestFree(s.free, Cardinality(missing))
      done == Cardinality(new) = Cardinality(missing)
      top == IF missing = {} THEN LEVELS + 1 ELSE First(missing)
      last == IF done THEN LEVELS ELSE top + Cardinality(new) - 1
      table == [l \in 1 .. last |-> IF l < top THEN w[l] ELSE Nth(new, l - top + 1)]
      target(l) == IF l < last THEN table[l + 1] ELSE IF done THEN frame ELSE None
      level(t) == CHOOSE l \in 1 .. last : table[l] = t
  IN [free |-> s.free \ new,
      tables |-> [t \in DOMAIN s.tables |->
        IF \E l \in 1 .. last : table[l] = t
        THEN [(IF t \in new THEN Empty ELSE s.tables[t]) EXCEPT
                ![v[level(t)]] = IF ~done /\ level(t) = last THEN @ ELSE target(level(t))]
        ELSE s.tables[t]],
      ok |-> done]

Now == [free |-> free, tables |-> tables, ok |-> TRUE]

(* The loops of map_range and map_mmio over n pages, from the page of the   *)
(* direct map with number base on: the first page that cannot be mapped     *)
(* ends them.                                                               *)
MapPages(p, base, phys, n) ==
  LET s[i \in 0 .. n] ==
        IF i = 0 THEN Now
        ELSE IF s[i - 1].ok THEN MapOne(s[i - 1], p, Hhdm(base + i - 1), phys + i - 1)
        ELSE s[i - 1]
  IN s[n]

Becomes(s) == free' = s.free /\ tables' = s.tables

MapPage(p, v, frame) ==
  /\ Becomes(MapOne(Now, p, v, frame))
  /\ UNCHANGED <<boot, kernel, spaces, taken, current, mmio>>

(* The table itself is dropped with its last entry.                         *)
UnmappedTable(tbls, p, v) ==
  IF Translate(tbls, p, v) = None THEN tbls
  ELSE [tbls EXCEPT ![WalkOf(tbls, p, v)[LEVELS - 1]][v[LEVELS - 1]] = None]

(* unmap_page clears the last entry and keeps the tables.                   *)
Unmapped(tbls, p, v) ==
  IF Translate(tbls, p, v) = None THEN tbls
  ELSE [tbls EXCEPT ![WalkOf(tbls, p, v)[LEVELS]][v[LEVELS]] = None]

UnmapPage(p, v) ==
  /\ tables' = Unmapped(tables, p, v)
  /\ UNCHANGED <<boot, free, kernel, spaces, taken, current, mmio>>

-----------------------------------------------------------------------------
(* Users of frames and pages.                                               *)

(* alloc_frame: the frame of the lowest bit that is set.                    *)
TakenFrame == First(free)


(* A driver (ahci, usb) takes a frame.                                      *)
AllocFrame ==
  /\ IF free = {} THEN UNCHANGED <<free, taken>>
     ELSE free' = free \ {TakenFrame} /\ taken' = taken \cup {TakenFrame}
  /\ UNCHANGED <<boot, tables, kernel, spaces, current, mmio>>

(* A driver gives back a frame that is mapped nowhere else.                 *)
FreeFrame(f) ==
  /\ f \notin {mmio[w] : w \in DOMAIN mmio}
  /\ \A p \in spaces, v \in UserPages : Translate(tables, p, v) # f
  /\ free' = free \cup {f} /\ taken' = taken \ {f}
  /\ UNCHANGED <<boot, tables, kernel, spaces, current, mmio>>

(* map_mmio for n pages of a device or a frame of a driver.  On an error    *)
(* MMIO_CURRENT stays, and so do the pages mapped before it.                *)
MapWindow(phys, n, moves) ==
  LET s == MapPages(kernel, current, phys, n) IN
  /\ Becomes(s)
  /\ IF s.ok
     THEN /\ current' = current + moves
          /\ mmio' = [w \in DOMAIN mmio \cup current .. (current + n - 1) |->
                        IF w \in DOMAIN mmio THEN mmio[w] ELSE phys + w - current]
     ELSE UNCHANGED <<current, mmio>>
  /\ UNCHANGED <<boot, kernel, spaces, taken>>

(* MMIO_CURRENT moves by one page.                                          *)
MapMmioOnePage(phys, n) == current + n < MMIO_PAGES /\ MapWindow(phys, n, 1)

(* The end of the window is not looked at.                                  *)
MapMmioUnchecked(phys, n) == current < MMIO_PAGES /\ MapWindow(phys, n, n)

MapMmio(phys, n) == current + n < MMIO_PAGES /\ MapWindow(phys, n, n)

MmioExhausted(n) ==
  /\ current + n >= MMIO_PAGES
  /\ UNCHANGED <<boot, free, tables, kernel, spaces, taken, current, mmio>>

(* UsbMapper maps a device, or a frame, at its page of the direct map; the  *)
(* registers are unmapped when they are dropped.  A failure to map those is *)
(* a panic, after which the model goes on as it does for a frame.           *)
UsbMap(phys, n) ==
  /\ Becomes(MapPages(kernel, phys, phys, n))
  /\ UNCHANGED <<boot, kernel, spaces, taken, current, mmio>>

UsbUnmap(phys, n) ==
  LET left[i \in 0 .. n] ==
        IF i = 0 THEN tables ELSE Unmapped(left[i - 1], kernel, Hhdm(phys + i - 1))
  IN /\ tables' = left[n]
     /\ UNCHANGED <<boot, free, kernel, spaces, taken, current, mmio>>

(* The first entry of the kernel half is not copied.                        *)
UserTableNoHhdm == [i \in Index |-> IF i \in KernelHalf \ {HHDM} THEN tables[kernel][i] ELSE None]

UserTable == [i \in Index |-> IF i \in KernelHalf THEN tables[kernel][i] ELSE None]

(* create_process: a pml4 with the kernel half of the kernel's.             *)
CreateUserPml4 ==
  /\ Cardinality(spaces) < MaxSpaces
  /\ IF free = {} THEN UNCHANGED <<free, tables, spaces>>
     ELSE /\ free' = free \ {TakenFrame}
          /\ spaces' = spaces \cup {TakenFrame}
          /\ tables' = [tables EXCEPT ![TakenFrame] = UserTable]
  /\ UNCHANGED <<boot, kernel, taken, current, mmio>>

(* destroy_process drops the address space; its frames stay used.           *)
DestroyProcess(p) ==
  /\ spaces' = spaces \ {p}
  /\ UNCHANGED <<boot, free, tables, kernel, taken, current, mmio>>

-----------------------------------------------------------------------------
Next ==
  \/ AllocFrame \/ CreateUserPml4
  \/ \E f \in taken : FreeFrame(f) \/ MapMmio(f, 1) \/ UsbMap(f, 1)
  \/ \E d \in Devices : UsbMap(d, 2) \/ UsbUnmap(d, 2)
  \/ \E d \in Devices, n \in 1 .. 2 : MapMmio(d, n) \/ MmioExhausted(n)
  \/ \E p \in spaces : DestroyProcess(p)
  \/ \E p \in spaces, v \in UserPages, f \in taken \cup Devices : MapPage(p, v, f)
  \/ \E p \in spaces, v \in UserPages : UnmapPage(p, v)

Spec == Init /\ [][Next]_vars

-----------------------------------------------------------------------------
(* Properties.                                                              *)

Spaces == spaces \cup {kernel}

TypeOK ==
  /\ free \subseteq Frames(Map) /\ taken \subseteq Frames(Map)
  /\ Spaces \subseteq Frames(Map)
  /\ tables \in [Frames(Map) -> [Index -> Nat \cup {None}]]
  /\ current \in 0 .. (MMIO_PAGES - 1)
  /\ DOMAIN mmio \subseteq 0 .. MMIO_PAGES

(* The tables of level l in the address space of p, and all tables.         *)
TablesAt(p, l) ==
  LET at[k \in 1 .. LEVELS] ==
        IF k = 1 THEN {p}
        ELSE {tables[t][i] : t \in at[k - 1], i \in Index} \ {None}
  IN at[l]
Tables == UNION {TablesAt(p, l) : p \in Spaces, l \in 1 .. LEVELS}

(* The entries of level l that point to a table; those of the kernel half   *)
(* are the same entry in all address spaces.                                *)
Links(l) ==
  {<<IF l = 1 /\ k[2] \in KernelHalf THEN kernel ELSE k[1], k[2]>> :
     k \in {k \in (UNION {TablesAt(p, l) : p \in Spaces}) \X Index :
             tables[k[1]][k[2]] # None}}


(* The kernel half is the same in all address spaces, although              *)
(* create_user_pml4 copies it once: devices mapped later are seen by the    *)
(* processes that exist, because their p4 entry was there at the start.     *)
KernelShared == \A p \in spaces, i \in KernelHalf : tables[p][i] = tables[kernel][i]


(* A page that map_mmio returned stays mapped to its device in every        *)
(* address space, whenever that was created, also after a later call failed *)
(* half-way.                                                                *)
MmioStays ==
  /\ KernelShared
  /\ \A w \in DOMAIN mmio, p \in Spaces : Translate(tables, p, Hhdm(w)) = mmio[w]

(* A step changes one page of one process, or pages of the kernel half that *)
(* neither a driver uses nor a frame of memory is reached at.               *)
PagesKept ==
  [][LET kept == Spaces \cap Spaces'
         pages == UserPages \cup {Hhdm(f) : f \in Frames(Map) \cup DevicePages}
         changed == {c \in kept \X pages :
                       Translate(tables', c[1], c[2]) # Translate(tables, c[1], c[2])}
     IN \/ tables' = tables
        \/ Cardinality(changed) <= 1 /\ \A c \in changed : c[2] \in UserPages
        \/ \A c \in changed :
             \/ \E d \in DevicePages : c[2] = Hhdm(d)
             \/ \E w \in current .. (LOW_FRAMES - 1) : c[2] = Hhdm(w)]_vars

(* alloc_frame hands out no frame of the heap.                              *)
HeapApart == Heap(Map) \cap (taken \cup Tables) = {}
=============================================================================
