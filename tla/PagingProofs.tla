---------------------------- MODULE PagingProofs ----------------------------
(***************************************************************************)
(* Proofs about Paging, for every size of the directory, of the tables and *)
(* of memory: as long as callers are careful and no two tables had to be   *)
(* made without memory, every frame that is marked has one place, and the  *)
(* translations of the processor are those of the tables.                  *)
(***************************************************************************)
EXTENDS Paging, PmmProofs

(* What the tables hold for a page. *)
Place(v) == IF Mapped(v) THEN Entry(v) ELSE Absent

DirType == dir \in [0 .. Directory - 1 -> Bits \cup {Absent}]

TablesType ==
  /\ DOMAIN table = TableFrames
  /\ \A f \in TableFrames : table[f] \in [0 .. Entries - 1 -> Bits \cup {Absent}]
  /\ \A d, e \in DOMAIN dir : dir[d] = dir[e] /\ dir[d] # Absent => d = e

RestType ==
  /\ tlb \in [Watched -> Bits \cup {Absent}]
  /\ hand \subseteq Bits
  /\ unflushed \subseteq Watched

(* The pages a call has still to do are as its caller found them.          *)
Todo == PageRun(call.virt, call.num)
Calls == [op : {"map", "unmap", "alloc"}, virt : Pages, num : Nat \ {0},
          frame : Bits \cup {Absent}]
CallOK ==
  \/ call = Idle
  \/ /\ call \in Calls
     /\ Todo \subseteq Pages
     /\ call.op = "map" =>
          /\ Run(call.frame, call.num) \subseteq hand
          /\ \A v \in Todo : Place(v) = Absent
     /\ call.op = "unmap" => \A v \in Todo : HasTable(v) => Place(v) # Absent
     /\ call.op = "alloc" => \A v \in Todo : Place(v) = Absent

(* FramesHaveOnePlace, but for the tables, in terms of Place. *)
Placed == {Place(v) : v \in Pages} \ {Absent}
OnePlace ==
  /\ Taken = (TableFrames \ {0}) \cup Placed \cup hand \cup InFlight
  /\ TableFrames \cap (Placed \cup hand \cup InFlight) = {}
  /\ Placed \cap (hand \cup InFlight) = {} /\ hand \cap InFlight = {}
  /\ \A v, w \in Pages : Place(v) = Place(w) /\ Place(v) # Absent => v = w

Translated ==
  \A v \in Watched \ unflushed : tlb[v] # Absent => tlb[v] = Place(v)

PagesInv == IInv /\ TablesType /\ RestType /\ CallOK /\ OnePlace /\ Translated

(* Two tables in frame 0 stay there, so that nothing has to be said of the *)
(* steps after.                                                            *)
PagingInv == DirType /\ (~TableShared => PagesInv)
-----------------------------------------------------------------------------
(* Pages, indices and frames.                                              *)
LEMMA PagingSizes == Directory \in Nat \ {0} /\ Entries \in Nat \ {0}
BY PagingAssumption

LEMMA AbsentNoFrame ==
  /\ Absent \notin Bits /\ Absent # 0 /\ 0 \in Bits
  /\ Bits \subseteq Nat /\ Absent \in Int /\ Bits \cup {Absent} \subseteq Int
BY KernelEndType, ConstantTypes DEF Absent, Bits

(* A page is its directory index and its table index. *)
LEMMA PageIndices ==
  ASSUME NEW v \in Pages
  PROVE  /\ DIRECTORY_INDEX(v) \in 0 .. Directory - 1
         /\ TABLE_INDEX(v) \in 0 .. Entries - 1
         /\ v = DIRECTORY_INDEX(v) * Entries + TABLE_INDEX(v)
<1> DEFINE d == v \div Entries
           t == v % Entries
<1>1. v \in Nat /\ Directory * Entries \in Nat /\ v < Directory * Entries
  BY PagingSizes DEF Pages
<1>2. d \in Nat /\ t \in 0 .. Entries - 1 /\ v = d * Entries + t
  BY <1>1, PagingSizes
<1> HIDE DEF d, t
<1>3. d * Entries \in Nat /\ d * Entries < Directory * Entries
  BY <1>1, <1>2, PagingSizes
<1>4. d <= Directory - 1
  <2>1. d * Entries < ((Directory - 1) + 1) * Entries BY <1>3, PagingSizes
  <2> QED BY <1>2, <2>1, MultLess, PagingSizes
<1> QED BY <1>2, <1>4, PagingSizes DEF DIRECTORY_INDEX, TABLE_INDEX, d, t

LEMMA PagesDiffer ==
  ASSUME NEW v \in Pages, NEW w \in Pages,
         DIRECTORY_INDEX(v) = DIRECTORY_INDEX(w), TABLE_INDEX(v) = TABLE_INDEX(w)
  PROVE  v = w
BY PageIndices
-----------------------------------------------------------------------------
(* What the physical memory manager does for paging.                       *)
LEMMA FoundIsBlock == mmap_find_free \in Bits
<1>1. CASE mmap_find_free = 0 BY <1>1, AbsentNoFrame
<1>2. CASE mmap_find_free # 0
  BY <1>2, FoundBlockIsFree, ScannedInBitmap DEF Run, FreeBits
<1> QED BY <1>1, <1>2

LEMMA FreeAreNotTaken == ASSUME IInv PROVE FreeBits \cap Taken = {} /\ Taken \subseteq Bits \ {0}
BY DEF IInv, HeldAreMarked, BlockZeroReserved, FreeBits, Taken

LEMMA GivenTakes ==
  ASSUME IInv, NEW first \in Nat, NEW num \in Nat, Run(first, num) \subseteq FreeBits,
         Given(first, num)
  PROVE  Taken' = Taken \cup Run(first, num)
<1>1. \A b \in Bits : held[b] \in Nat BY DEF IInv, TypeOK
<1>2. Run(first, num) \subseteq Bits BY ScannedInBitmap DEF FreeBits
<1> HIDE DEF Run
<1> QED BY <1>1, <1>2 DEF Given, Hold, Taken

LEMMA PageTaken ==
  ASSUME IInv, pmm_alloc_page, UNCHANGED <<todo, usable>>
  PROVE  /\ IInv'
         /\ mmap_find_free = 0 => Taken' = Taken
         /\ mmap_find_free # 0 => /\ Taken' = Taken \cup {mmap_find_free}
                                  /\ mmap_find_free \in Bits \ (Taken \cup {0})
<1>1. report' \in {"none", "panic", "null", "page"} BY DEF pmm_alloc_page
<1>2. CASE mmap_find_free = 0
  <2>1. Refused BY <1>2 DEF pmm_alloc_page
  <2> QED BY <1>1, <1>2, <2>1, RefusedKeepsIInv DEF Refused, Taken
<1>3. CASE mmap_find_free # 0
  <2>1. Given(mmap_find_free, 1) BY <1>3 DEF pmm_alloc_page
  <2>2. mmap_find_free \in Nat /\ Run(mmap_find_free, 1) \subseteq FreeBits
    BY <1>3, FoundBlockIsFree
  <2> DEFINE f == mmap_find_free
  <2> HIDE DEF f
  <2>3. f \in Nat /\ Run(f, 1) \subseteq FreeBits /\ Given(f, 1) /\ 1 \in Nat /\ f # 0
    BY <1>3, <2>1, <2>2 DEF f
  <2>4. IInv' /\ Taken' = Taken \cup Run(f, 1) BY <1>1, <2>3, GivenKeepsIInv, GivenTakes
  <2>5. Run(f, 1) = {f} BY <2>3 DEF Run
  <2> QED BY <1>3, <2>3, <2>4, <2>5, FreeAreNotTaken, ScannedInBitmap DEF f, FreeBits
<1> QED BY <1>2, <1>3

LEMMA PageReturned ==
  ASSUME IInv, NEW f \in Taken, pmm_free_pages(f, 1), UNCHANGED <<todo, usable>>
  PROVE  IInv' /\ Taken' = Taken \ {f}
<1>1. f \in Bits /\ f \in Nat /\ Run(f, 1) = {f} /\ held[f] = 1
  BY ScannedInBitmap DEF Taken, Run, IInv, NoDoubleAllocation, TypeOK
<1>2. Free(f, 1) BY <1>1 DEF Free
<1>3. IInv' BY <1>1, <1>2, FreeKeepsIInv
<1>4. held' = [b \in Bits |-> IF b \in {f} THEN held[b] + -1 ELSE held[b]]
  BY <1>1 DEF pmm_free_pages, Hold
<1> QED BY <1>1, <1>3, <1>4 DEF Taken

LEMMA PagesTaken ==
  ASSUME IInv, NEW num \in Nat, pmm_alloc_pages(num), UNCHANGED <<todo, usable>>
  PROVE  /\ IInv'
         /\ PagesFound(num) = 0 => Taken' = Taken
         /\ PagesFound(num) # 0 => /\ Taken' = Taken \cup Run(PagesFound(num), num)
                                   /\ Run(PagesFound(num), num) \subseteq Bits \ (Taken \cup {0})
<1>1. report' \in {"none", "panic", "null", "page"} BY DEF pmm_alloc_pages, IInv, TypeOK
<1> DEFINE f == PagesFound(num)
<1>2. CASE f = 0
  <2>1. Refused BY <1>2 DEF pmm_alloc_pages
  <2> QED BY <1>1, <1>2, <2>1, RefusedKeepsIInv DEF Refused, Taken
<1>3. CASE f # 0
  <2>1. f \in Nat /\ Run(f, num) \subseteq FreeBits /\ Given(f, num)
    BY <1>3, FoundRunIsFree DEF IInv, BlockZeroReserved, pmm_alloc_pages
  <2> HIDE DEF f
  <2>2. IInv' /\ Taken' = Taken \cup Run(f, num) BY <1>1, <2>1, GivenKeepsIInv, GivenTakes
  <2>3. Run(f, num) \subseteq Bits \ (Taken \cup {0})
    BY <2>1, FreeAreNotTaken, ScannedInBitmap DEF FreeBits, IInv, BlockZeroReserved
  <2> QED BY <1>3, <2>2, <2>3 DEF f
<1> QED BY <1>2, <1>3
-----------------------------------------------------------------------------
(* What the operations do to the tables.                                   *)
LEMMA PlaceType ==
  ASSUME DirType, TablesType, NEW v \in Pages
  PROVE  /\ Place(v) \in Bits \cup {Absent}
         /\ Mapped(v) <=> Place(v) # Absent
         /\ dir[DIRECTORY_INDEX(v)] \in Bits \cup {Absent}
         /\ HasTable(v) => dir[DIRECTORY_INDEX(v)] \in TableFrames
<1>1. DIRECTORY_INDEX(v) \in DOMAIN dir /\ TABLE_INDEX(v) \in 0 .. Entries - 1
      /\ dir[DIRECTORY_INDEX(v)] \in Bits \cup {Absent}
  BY PageIndices DEF DirType
<1>2. HasTable(v) => dir[DIRECTORY_INDEX(v)] \in TableFrames BY <1>1 DEF HasTable, TableFrames
<1>3. HasTable(v) => Entry(v) \in Bits \cup {Absent} BY <1>1, <1>2 DEF Entry, TablesType
<1> QED BY <1>1, <1>2, <1>3 DEF Place, Mapped

(* An entry is written and all others stay, in a directory whose tables     *)
(* are apart.                                                              *)
LEMMA EntryWritten ==
  ASSUME DirType, TablesType, NEW v \in Pages, HasTable(v), NEW f \in Bits \cup {Absent},
         dir' = dir,
         table' = [table EXCEPT ![dir[DIRECTORY_INDEX(v)]][TABLE_INDEX(v)] = f]
  PROVE  /\ DirType' /\ TablesType' /\ TableFrames' = TableFrames
         /\ \A w \in Pages : Place(w)' = IF w = v THEN f ELSE Place(w)
         /\ \A w \in Pages : HasTable(w)' = HasTable(w)
<1> DEFINE d == DIRECTORY_INDEX(v)
           t == TABLE_INDEX(v)
<1>1. d \in DOMAIN dir /\ t \in 0 .. Entries - 1 /\ dir[d] \in TableFrames /\ dir[d] # Absent
  BY PageIndices, PlaceType DEF DirType, HasTable
<1>2. DirType' /\ TableFrames' = TableFrames BY DEF DirType, TableFrames
<1>3. /\ DOMAIN table' = TableFrames
      /\ table[dir[d]] \in [0 .. Entries - 1 -> Bits \cup {Absent}]
      /\ table'[dir[d]] = [table[dir[d]] EXCEPT ![t] = f]
      /\ \A g \in TableFrames \ {dir[d]} : table'[g] = table[g]
  BY <1>1 DEF TablesType
<1>4. TablesType' BY <1>1, <1>2, <1>3 DEF TablesType
<1>5. ASSUME NEW w \in Pages
      PROVE  Place(w)' = (IF w = v THEN f ELSE Place(w)) /\ HasTable(w)' = HasTable(w)
  <2> DEFINE e == DIRECTORY_INDEX(w)
             u == TABLE_INDEX(w)
  <2>1. e \in DOMAIN dir /\ u \in 0 .. Entries - 1 /\ HasTable(w)' = HasTable(w)
        /\ DIRECTORY_INDEX(w)' = e /\ TABLE_INDEX(w)' = u
    BY PageIndices DEF DirType, HasTable, DIRECTORY_INDEX, TABLE_INDEX
  <2>2. CASE ~HasTable(w)
    BY <1>1, <2>1, <2>2 DEF Place, Mapped, HasTable
  <2>3. CASE HasTable(w) /\ e # d
    <3>1. dir[e] # dir[d] /\ dir[e] \in TableFrames
      BY <1>1, <2>1, <2>3, PlaceType DEF TablesType, HasTable
    <3>2. Entry(w)' = Entry(w) /\ w # v BY <1>3, <2>1, <2>3, <3>1 DEF Entry
    <3> QED BY <2>1, <3>2 DEF Place, Mapped
  <2>4. CASE HasTable(w) /\ e = d /\ u # t
    <3>1. Entry(w)' = Entry(w) /\ w # v BY <1>1, <1>3, <2>1, <2>4 DEF Entry
    <3> QED BY <2>1, <3>1 DEF Place, Mapped
  <2>5. CASE HasTable(w) /\ e = d /\ u = t
    <3>1. w = v BY <2>5, PagesDiffer
    <3>2. Entry(w)' = f BY <1>1, <1>3, <2>1, <2>5 DEF Entry
    <3> QED BY <2>1, <2>5, <3>1, <3>2 DEF Place, Mapped
  <2> QED BY <2>2, <2>3, <2>4, <2>5
<1> QED BY <1>2, <1>4, <1>5

(* The table of a new directory entry is in a frame of its own, and empty.  *)
LEMMA TableMade ==
  ASSUME DirType, TablesType, NEW v \in Pages, ~HasTable(v), NEW f \in Bits \cup {Absent},
         NEW n \in Bits \ TableFrames,
         dir' = [dir EXCEPT ![DIRECTORY_INDEX(v)] = n],
         table' = [[g \in DOMAIN table \cup {n} |-> IF g = n THEN Cleared ELSE table[g]]
                     EXCEPT ![n][TABLE_INDEX(v)] = f]
  PROVE  /\ DirType' /\ TablesType' /\ TableFrames' = TableFrames \cup {n}
         /\ \A w \in Pages : Place(w)' = IF w = v THEN f ELSE Place(w)
<1> DEFINE d == DIRECTORY_INDEX(v)
           t == TABLE_INDEX(v)
<1>1. d \in DOMAIN dir /\ t \in 0 .. Entries - 1 /\ dir[d] = Absent /\ n # Absent
  BY PageIndices, AbsentNoFrame DEF DirType, HasTable
<1>2. DirType' /\ DOMAIN dir' = DOMAIN dir /\ dir'[d] = n
      /\ \A e \in DOMAIN dir \ {d} : dir'[e] = dir[e]
  BY <1>1 DEF DirType
<1>3. TableFrames' = TableFrames \cup {n} BY <1>1, <1>2 DEF TableFrames
<1>4. Cleared \in [0 .. Entries - 1 -> Bits \cup {Absent}] BY DEF Cleared
<1>5. /\ DOMAIN table' = TableFrames \cup {n}
      /\ table'[n] = [Cleared EXCEPT ![t] = f]
      /\ \A g \in TableFrames : table'[g] = table[g]
  BY DEF TablesType
<1>6. TablesType'
  <2>1. \A g \in TableFrames' : table'[g] \in [0 .. Entries - 1 -> Bits \cup {Absent}]
    BY <1>1, <1>3, <1>4, <1>5 DEF TablesType
  <2>2. ASSUME NEW e \in DOMAIN dir, NEW h \in DOMAIN dir, dir'[e] = dir'[h], dir'[e] # Absent
        PROVE  e = h
    <3>1. \A k \in DOMAIN dir : dir[k] # n BY <1>1 DEF TableFrames
    <3> QED BY <1>2, <2>2, <3>1 DEF TablesType
  <2> QED BY <1>2, <1>3, <1>5, <2>1, <2>2 DEF TablesType
<1>7. ASSUME NEW w \in Pages
      PROVE  Place(w)' = IF w = v THEN f ELSE Place(w)
  <2> DEFINE e == DIRECTORY_INDEX(w)
             u == TABLE_INDEX(w)
  <2>1. e \in DOMAIN dir /\ u \in 0 .. Entries - 1
        /\ DIRECTORY_INDEX(w)' = e /\ TABLE_INDEX(w)' = u
    BY PageIndices DEF DirType, DIRECTORY_INDEX, TABLE_INDEX
  <2>2. CASE e # d /\ ~HasTable(w)
    BY <1>2, <2>1, <2>2 DEF Place, Mapped, HasTable
  <2>3. CASE e # d /\ HasTable(w)
    <3>1. dir'[e] = dir[e] /\ dir[e] \in TableFrames BY <1>2, <2>1, <2>3, PlaceType
    <3>2. Entry(w)' = Entry(w) /\ HasTable(w)' = HasTable(w) /\ w # v
      BY <1>5, <2>1, <2>3, <3>1 DEF Entry, HasTable
    <3> QED BY <3>2 DEF Place, Mapped
  <2>4. CASE e = d /\ u # t
    <3>1. Entry(w)' = Absent /\ w # v BY <1>1, <1>2, <1>5, <2>1, <2>4 DEF Entry, Cleared
    <3> QED BY <1>1, <2>4, <3>1 DEF Place, Mapped, HasTable
  <2>5. CASE e = d /\ u = t
    <3>1. w = v BY <2>5, PagesDiffer
    <3>2. Entry(w)' = f /\ HasTable(w)'
      BY <1>1, <1>2, <1>5, <2>1, <2>5 DEF Entry, Cleared, HasTable
    <3> QED BY <3>1, <3>2 DEF Place, Mapped
  <2> QED BY <2>2, <2>3, <2>4, <2>5
<1> QED BY <1>2, <1>3, <1>6, <1>7

(* paging_get_page and the write of the entry: memory gives a frame for the *)
(* table, if one is made, that was nobody's.                               *)
LEMMA Entered ==
  ASSUME DirType, PagesInv, NEW v \in Pages, NEW f \in Bits, Enter(v, f), UNCHANGED <<todo, usable>>,
         ~TableShared'
  PROVE  /\ IInv' /\ TablesType'
         /\ \A w \in Pages : Place(w)' = IF w = v THEN f ELSE Place(w)
         /\ \E new \in SUBSET (Bits \ Taken) : /\ Taken' = Taken \cup (new \ {0})
                                              /\ TableFrames' = TableFrames \cup new
<1>1. IInv /\ TablesType /\ TableFrames \ {0} \subseteq Taken BY DEF PagesInv, OnePlace
<1> DEFINE d == DIRECTORY_INDEX(v)
<1>2. d \in DOMAIN dir BY PageIndices DEF DirType
<1>3. CASE ~CreatesTable(v)
  <2>1. dir' = dir /\ bitmap' = bitmap /\ used_blocks' = used_blocks /\ report' = report
        /\ held' = held
    BY <1>3 DEF Enter, paging_get_page
  <2>2. HasTable(v) BY <1>3 DEF CreatesTable
  <2>3. table' = [table EXCEPT ![dir[d]][TABLE_INDEX(v)] = f]
    BY <1>3, <2>1 DEF Enter, TablesWithPage
  <2>4. TablesType' /\ TableFrames' = TableFrames
        /\ \A w \in Pages : Place(w)' = IF w = v THEN f ELSE Place(w)
    BY <1>1, <2>1, <2>2, <2>3, EntryWritten
  <2>5. Refused /\ report' \in {"none", "panic", "null", "page"}
    BY <1>1, <2>1 DEF Refused, IInv, TypeOK
  <2>6. IInv' /\ Taken' = Taken BY <1>1, <2>1, <2>5, RefusedKeepsIInv DEF Taken
  <2>7. {} \in SUBSET (Bits \ Taken) /\ Taken' = Taken \cup ({} \ {0})
        /\ TableFrames' = TableFrames \cup {}
    BY <2>4, <2>6
  <2> QED BY <2>4, <2>6, <2>7
<1>4. CASE CreatesTable(v)
  <2> DEFINE n == mmap_find_free
  <2>1. pmm_alloc_page /\ dir' = [dir EXCEPT ![d] = n] BY <1>4 DEF Enter, paging_get_page
  <2>2. dir'[d] = n /\ DOMAIN dir' = DOMAIN dir BY <1>2, <2>1 DEF DirType
  <2>3. 0 \notin Taken BY <1>1, FreeAreNotTaken
  <2>4. IInv' /\ Taken' = Taken \cup ({n} \ {0}) /\ n \in Bits \ Taken
    <3>1. CASE n = 0
      <4>1. IInv' /\ Taken' = Taken BY <1>1, <2>1, <3>1, PageTaken
      <4> QED BY <2>3, <3>1, <4>1, AbsentNoFrame
    <3>2. CASE n # 0
      <4>1. IInv' /\ Taken' = Taken \cup {n} /\ n \in Bits \ (Taken \cup {0})
        BY <1>1, <2>1, <3>2, PageTaken
      <4> HIDE DEF n
      <4> QED BY <4>1
    <3> QED BY <3>1, <3>2
  <2>5. ~HasTable(v) BY <1>4 DEF CreatesTable
  <2>6. table' = [[g \in DOMAIN table \cup {n} |-> IF g = n THEN Cleared ELSE table[g]]
                    EXCEPT ![n][TABLE_INDEX(v)] = f]
    BY <1>4, <2>2 DEF Enter, TablesWithPage
  <2> HIDE DEF n
  <2>7. n \in Bits \ TableFrames
    <3>1. n # 0 => n \notin TableFrames BY <1>1, <2>4
    <3>2. ASSUME n = 0, NEW e \in DOMAIN dir, dir[e] = 0 PROVE FALSE
      <4>1. e # d BY <2>5, <3>2, AbsentNoFrame DEF HasTable
      <4>2. dir'[e] = 0 /\ dir'[d] = 0 BY <1>2, <2>1, <2>2, <3>2, <4>1 DEF DirType
      <4> QED BY <1>2, <2>2, <3>2, <4>1, <4>2 DEF TableShared
    <3> QED BY <2>4, <3>1, <3>2 DEF TableFrames
  <2>8. TablesType' /\ TableFrames' = TableFrames \cup {n}
        /\ \A w \in Pages : Place(w)' = IF w = v THEN f ELSE Place(w)
    BY <1>1, <2>1, <2>5, <2>6, <2>7, TableMade
  <2>9. {n} \in SUBSET (Bits \ Taken) BY <2>4
  <2> QED BY <2>4, <2>8, <2>9
<1> QED BY <1>3, <1>4

LEMMA PlacedEntered ==
  ASSUME NEW v \in Pages, NEW f \in Bits, Place(v) = Absent,
         \A w \in Pages : Place(w)' = IF w = v THEN f ELSE Place(w)
  PROVE  Placed' = Placed \cup {f}
<1>1. f # Absent BY AbsentNoFrame
<1>2. Placed' = {Place(w)' : w \in Pages} \ {Absent} BY DEF Placed, Pages, Absent
<1> QED BY <1>1, <1>2 DEF Placed

LEMMA PlacedCleared ==
  ASSUME NEW v \in Pages, OnePlace,
         \A w \in Pages : Place(w)' = IF w = v THEN Absent ELSE Place(w)
  PROVE  Placed' = Placed \ {Place(v)}
<1>1. Placed' = {Place(w)' : w \in Pages} \ {Absent} BY DEF Placed, Pages, Absent
<1>2. \A u, w \in Pages : Place(u) = Place(w) /\ Place(u) # Absent => u = w BY DEF OnePlace
<1> QED BY <1>1, <1>2 DEF Placed

(* The loops over the pages of a range. *)
LEMMA NextPageGoesOn ==
  ASSUME call \in Calls, Todo \subseteq Pages, NEW f \in Int,
         call.num # 1 => f \in Bits \cup {Absent}, NextPage(f)
  PROVE  /\ call.virt \in Todo /\ call.virt \in Pages
         /\ \/ call' = Idle
            \/ /\ call' \in Calls /\ call'.op = call.op /\ call'.frame = f
               /\ call'.virt = call.virt + 1 /\ call'.num = call.num - 1
               /\ Todo' = Todo \ {call.virt}
               /\ call.num # 1
<1>1. call.virt \in Nat /\ call.num \in Nat \ {0} /\ call.virt \in Pages
      /\ call.op \in {"map", "unmap", "alloc"}
  BY DEF Calls, Pages
<1>2. call.virt \in Todo BY <1>1 DEF Todo, PageRun
<1>3. CASE call.num = 1 BY <1>1, <1>2, <1>3 DEF NextPage
<1>4. CASE call.num # 1
  <2> DEFINE a == [call EXCEPT !.virt = call.virt + 1]
             b == [a EXCEPT !.num = call.num - 1]
  <2>1. call.virt + 1 \in Todo /\ call.virt + 1 \in Pages
    BY <1>1, <1>4 DEF Todo, PageRun
  <2>2. a \in Calls /\ a.op = call.op /\ a.virt = call.virt + 1 /\ a.num = call.num
    BY <2>1 DEF Calls
  <2>3. call' = [[a EXCEPT !.num = call.num - 1] EXCEPT !.frame = f]
    BY <1>4 DEF NextPage
  <2> HIDE DEF a
  <2>4. b \in Calls /\ b.op = call.op /\ b.virt = call.virt + 1 /\ b.num = call.num - 1
    BY <1>1, <1>4, <2>2 DEF Calls
  <2>5. call' = [b EXCEPT !.frame = f] BY <2>3
  <2> HIDE DEF b
  <2>6. call' \in Calls /\ call'.op = call.op /\ call'.frame = f
        /\ call'.virt = call.virt + 1 /\ call'.num = call.num - 1
    BY <1>4, <2>4, <2>5 DEF Calls
  <2>7. Todo' = Todo \ {call.virt} BY <1>1, <1>4, <2>6 DEF Todo, PageRun
  <2> QED BY <1>1, <1>2, <1>4, <2>6, <2>7
<1> QED BY <1>3, <1>4
-----------------------------------------------------------------------------
(* One lemma per step.  Until memory ran out for two tables, it keeps what  *)
(* holds of the tables, the frames and the TLB.                            *)
LEMMA MapKeepsPages ==
  ASSUME DirType, PagesInv, paging_map_page, ~TableShared'
  PROVE  PagesInv'
<1> DEFINE v == call.virt
           f == call.frame
<1>1. call \in Calls /\ Todo \subseteq Pages /\ call.op = "map" /\ call.num \in Nat \ {0}
      /\ Run(f, call.num) \subseteq hand /\ \A w \in Todo : Place(w) = Absent
  BY DEF PagesInv, CallOK, paging_map_page, Idle, Calls
<1>2. hand \subseteq Bits /\ f \in Int
  BY <1>1, AbsentNoFrame DEF PagesInv, RestType, Calls
<1>3. f \in hand /\ f \in Bits /\ f \in Nat /\ (call.num # 1 => f + 1 \in hand)
  BY <1>1, <1>2, AbsentNoFrame DEF Run
<1>4. /\ call.virt \in Todo /\ call.virt \in Pages
      /\ \/ call' = Idle
         \/ /\ call' \in Calls /\ call'.op = call.op /\ call'.frame = f + 1
            /\ call'.virt = call.virt + 1 /\ call'.num = call.num - 1
            /\ Todo' = Todo \ {call.virt}
            /\ call.num # 1
  BY <1>1, <1>2, <1>3, NextPageGoesOn DEF paging_map_page
<1>5. Enter(v, f) /\ UNCHANGED <<todo, usable>> /\ hand' = hand \ {f} /\ paging_invalidate_page(v)
  BY DEF paging_map_page
<1>6. PICK new \in SUBSET (Bits \ Taken) : /\ Taken' = Taken \cup (new \ {0})
                                           /\ TableFrames' = TableFrames \cup new
  BY <1>3, <1>4, <1>5, Entered
<1>7. IInv' /\ TablesType' /\ \A w \in Pages : Place(w)' = IF w = v THEN f ELSE Place(w)
  BY <1>3, <1>4, <1>5, Entered
<1>8. Place(v) = Absent BY <1>1, <1>4
<1> HIDE DEF v, f
<1>9. v \in Pages BY <1>4 DEF v
<1>10. Placed' = Placed \cup {f} BY <1>3, <1>7, <1>8, <1>9, PlacedEntered
<1>11. OnePlace'
  <2>1. InFlight = {} /\ InFlight' = {} BY <1>1, <1>4 DEF InFlight, Idle
  <2>2. Taken = (TableFrames \ {0}) \cup Placed \cup hand
        /\ TableFrames \cap (Placed \cup hand) = {} /\ Placed \cap hand = {}
    BY <2>1 DEF PagesInv, OnePlace
  <2>3. /\ Taken' = (TableFrames' \ {0}) \cup Placed' \cup hand'
        /\ TableFrames' \cap (Placed' \cup hand') = {}
        /\ Placed' \cap hand' = {}
    BY <1>3, <1>5, <1>6, <1>10, <2>2
  <2>4. \A w \in Pages : Place(w) # f BY <1>3, <2>2, AbsentNoFrame DEF Placed
  <2>5. \A u, w \in Pages : Place(u)' = Place(w)' /\ Place(u)' # Absent => u = w
    BY <1>7, <2>4 DEF PagesInv, OnePlace
  <2>6. \A u, w \in Pages' : Place(u)' = Place(w)' /\ Place(u)' # Absent' => u = w
    BY <2>5 DEF Pages, Absent
  <2> QED BY <2>1, <2>3, <2>6 DEF OnePlace
<1>12. RestType'
  BY <1>5 DEF PagesInv, RestType, paging_invalidate_page
<1>13. CallOK'
  <2>1. CASE call' = Idle BY <2>1 DEF CallOK, Idle
  <2>2. CASE call' # Idle
    <3>1. call' \in Calls /\ call'.op = "map" /\ call'.frame = f + 1 /\ call'.num = call.num - 1
          /\ Todo' = Todo \ {v}
      BY <1>1, <1>4, <2>2 DEF v
    <3>2. Run(f + 1, call.num - 1) \subseteq hand \ {f}
      BY <1>1, <1>3 DEF Run, f
    <3>3. \A w \in Todo' : Place(w)' = Absent BY <1>1, <1>7, <3>1
    <3>4. Calls' = Calls /\ Pages' = Pages /\ Absent' = Absent
          /\ Run(call.frame, call.num)' = Run(f + 1, call.num - 1)
      BY <3>1 DEF Calls, Pages, Absent, Bits, Run
    <3> QED BY <1>1, <1>5, <3>1, <3>2, <3>3, <3>4 DEF CallOK
  <2> QED BY <2>1, <2>2
<1>14. Translated'
  <2>1. ASSUME NEW w \in Watched, w \notin unflushed', tlb'[w] # Absent
        PROVE  tlb'[w] = Place(w)'
    <3>1. w # v /\ tlb'[w] = tlb[w] /\ w \notin unflushed
      BY <1>5, <2>1 DEF paging_invalidate_page
    <3>2. w \in Pages BY PagingAssumption DEF Pages
    <3> QED BY <1>7, <2>1, <3>1, <3>2 DEF PagesInv, Translated
  <2> QED BY <2>1 DEF Translated, Absent
<1> QED BY <1>7, <1>11, <1>12, <1>13, <1>14 DEF PagesInv

(* Steps that leave the tables alone. *)
LEMMA TablesSame ==
  ASSUME dir' = dir, table' = table
  PROVE  /\ DirType => DirType'
         /\ TablesType => TablesType'
         /\ TableFrames' = TableFrames /\ Placed' = Placed
         /\ \A w \in Pages : Place(w)' = Place(w) /\ HasTable(w)' = HasTable(w)
<1>1. TableFrames' = TableFrames BY DEF TableFrames
<1>2. \A w : Place(w)' = Place(w) /\ HasTable(w)' = HasTable(w)
  BY DEF Place, Mapped, HasTable, Entry
<1>3. Placed' = Placed BY <1>2 DEF Placed
<1> QED BY <1>1, <1>2, <1>3 DEF DirType, TablesType

LEMMA PagesTranslatedSame ==
  ASSUME dir' = dir, table' = table, tlb' = tlb, unflushed' = unflushed, Translated
  PROVE  Translated'
<1>1. \A w : Place(w)' = Place(w) BY DEF Place, Mapped, HasTable, Entry
<1> QED BY <1>1 DEF Translated

LEMMA UnmapKeepsPages ==
  ASSUME DirType, PagesInv, paging_unmap_page
  PROVE  PagesInv'
<1> DEFINE v == call.virt
           f == FrameFreed(v)
<1>1. call \in Calls /\ Todo \subseteq Pages /\ call.op = "unmap"
      /\ \A w \in Todo : HasTable(w) => Place(w) # Absent
  BY DEF PagesInv, CallOK, paging_unmap_page, Idle, Calls
<1>2. /\ v \in Todo /\ v \in Pages
      /\ \/ call' = Idle
         \/ call' \in Calls /\ call'.op = "unmap" /\ Todo' = Todo \ {v}
  BY <1>1, AbsentNoFrame, NextPageGoesOn DEF paging_unmap_page
<1>3. dir' = dir /\ tlb' = tlb /\ hand' = hand /\ todo' = todo /\ usable' = usable BY DEF paging_unmap_page
<1>4. InFlight = {} /\ InFlight' = {} BY <1>1, <1>2 DEF InFlight, Idle
<1>5. ASSUME \A w \in Todo \ {v} : HasTable(w)' => Place(w)' # Absent
      PROVE  CallOK'
  <2>1. CASE call' = Idle BY <2>1 DEF CallOK, Idle
  <2>2. CASE call' # Idle
    <3>1. Calls' = Calls /\ Pages' = Pages /\ Absent' = Absent
      BY DEF Calls, Pages, Absent, Bits
    <3>2. \A w \in Todo' : HasTable(w)' => Place(w)' # Absent' BY <1>2, <1>5, <2>2, <3>1
    <3> QED BY <1>1, <1>2, <2>2, <3>1, <3>2 DEF CallOK
  <2> QED BY <2>1, <2>2
<1> HIDE DEF v
<1>6. CASE ~HasTable(v)
  <2>1. table' = table /\ unflushed' = unflushed
        /\ bitmap' = bitmap /\ used_blocks' = used_blocks /\ report' = report /\ held' = held
    BY <1>6 DEF paging_unmap_page, v
  <2>2. TablesType' /\ TableFrames' = TableFrames /\ Placed' = Placed
        /\ \A w \in Pages : Place(w)' = Place(w) /\ HasTable(w)' = HasTable(w)
    BY <1>3, <2>1, TablesSame DEF PagesInv
  <2>3. IInv' /\ Taken' = Taken
    BY <1>3, <2>1, RefusedKeepsIInv DEF PagesInv, IInv, TypeOK, Refused, Taken
  <2>4. CallOK' BY <1>1, <1>2, <1>5, <2>2
  <2>5. OnePlace'
    BY <1>3, <1>4, <2>2, <2>3 DEF PagesInv, OnePlace, Pages, Absent
  <2>6. \A w \in Watched : w \in Pages BY PagingAssumption DEF Pages
  <2>7. Translated'
    BY <1>3, <2>1, <2>2, <2>6 DEF PagesInv, Translated, Absent
  <2> QED BY <1>3, <2>1, <2>2, <2>3, <2>4, <2>5, <2>7 DEF PagesInv, RestType
<1>7. CASE HasTable(v)
  <2>1. pmm_free_pages(f, 1) /\ table' = EntryCleared(v)
        /\ unflushed' = unflushed \cup ({v} \cap Watched)
    BY <1>7 DEF paging_unmap_page, v
  <2>2. f = Place(v) /\ Place(v) # Absent /\ Place(v) \in Placed
    BY <1>1, <1>2, <1>7 DEF FrameFreed, FrameBits, Place, Placed
  <2>3. f \in Taken BY <2>2 DEF PagesInv, OnePlace
  <2> HIDE DEF f
  <2>4. IInv' /\ Taken' = Taken \ {f} BY <1>3, <2>1, <2>3, PageReturned DEF PagesInv
  <2>5. table' = [table EXCEPT ![dir[DIRECTORY_INDEX(v)]][TABLE_INDEX(v)] = Absent]
    BY <2>1 DEF EntryCleared
  <2>6. TablesType' /\ TableFrames' = TableFrames
        /\ \A w \in Pages : Place(w)' = IF w = v THEN Absent ELSE Place(w)
    BY <1>2, <1>3, <1>7, <2>5, EntryWritten DEF PagesInv
  <2>7. \A w \in Pages : HasTable(w)' = HasTable(w)
    BY <1>2, <1>3, <1>7, <2>5, EntryWritten DEF PagesInv
  <2>8. Placed' = Placed \ {f} BY <1>2, <2>2, <2>6, PlacedCleared DEF PagesInv
  <2>9. OnePlace'
    <3>1. Taken = (TableFrames \ {0}) \cup Placed \cup hand
          /\ TableFrames \cap (Placed \cup hand) = {} /\ Placed \cap hand = {}
      BY <1>4 DEF PagesInv, OnePlace
    <3>2. /\ Taken' = (TableFrames' \ {0}) \cup Placed' \cup hand'
          /\ TableFrames' \cap (Placed' \cup hand') = {}
          /\ Placed' \cap hand' = {}
      BY <1>3, <2>2, <2>4, <2>6, <2>8, <3>1
    <3>3. \A u, w \in Pages' : Place(u)' = Place(w)' /\ Place(u)' # Absent' => u = w
      BY <2>6 DEF PagesInv, OnePlace, Pages, Absent
    <3> QED BY <1>4, <3>2, <3>3 DEF OnePlace
  <2>10. CallOK'
    <3>1. \A w \in Todo \ {v} : HasTable(w)' => Place(w)' # Absent
      BY <1>1, <1>2, <2>6, <2>7
    <3> QED BY <1>5, <3>1
  <2>11. Translated'
    <3>1. \A w \in Watched : w \in Pages BY PagingAssumption DEF Pages
    <3>2. \A w \in Watched \ unflushed' : w \in Watched \ unflushed /\ w # v BY <2>1
    <3> QED BY <1>3, <2>6, <3>1, <3>2 DEF PagesInv, Translated, Absent
  <2>12. RestType' BY <1>3, <2>1 DEF PagesInv, RestType
  <2> QED BY <2>4, <2>6, <2>9, <2>10, <2>11, <2>12 DEF PagesInv
<1> QED BY <1>6, <1>7

(* The two steps of paging_alloc_pages: between them the frame is in no     *)
(* table, and in no caller's hands either.                                 *)
LEMMA AllocFrameKeepsPages ==
  ASSUME DirType, PagesInv, AllocFrame
  PROVE  PagesInv'
<1> DEFINE n == mmap_find_free
<1>1. call \in Calls /\ Todo \subseteq Pages /\ call.op = "alloc" /\ call.frame = Absent
      /\ \A w \in Todo : Place(w) = Absent
  BY DEF PagesInv, CallOK, AllocFrame, Idle, Calls
<1>2. dir' = dir /\ table' = table /\ tlb' = tlb /\ hand' = hand /\ unflushed' = unflushed
      /\ todo' = todo /\ usable' = usable /\ pmm_alloc_page
  BY DEF AllocFrame
<1>3. DirType' /\ TablesType' /\ TableFrames' = TableFrames /\ Placed' = Placed
      /\ \A w \in Pages : Place(w)' = Place(w)
  BY <1>2, TablesSame DEF PagesInv
<1>4. InFlight = {} BY <1>1 DEF InFlight
<1>5. CASE n = 0
  <2>1. call' = Idle BY <1>5 DEF AllocFrame
  <2>2. IInv' /\ Taken' = Taken BY <1>2, <1>5, PageTaken DEF PagesInv
  <2>3. InFlight' = {} BY <2>1 DEF InFlight, Idle
  <2>4. CallOK' BY <2>1 DEF CallOK, Idle
  <2>5. OnePlace' BY <1>2, <1>3, <1>4, <2>2, <2>3 DEF PagesInv, OnePlace, Pages, Absent
  <2> QED BY <1>2, <1>3, <2>2, <2>4, <2>5, PagesTranslatedSame DEF PagesInv, RestType
<1>6. CASE n # 0
  <2>1. call' = [call EXCEPT !.frame = n] BY <1>6 DEF AllocFrame
  <2>2. IInv' /\ Taken' = Taken \cup {n} /\ n \in Bits \ (Taken \cup {0})
    BY <1>2, <1>6, PageTaken DEF PagesInv
  <2> HIDE DEF n
  <2>3. call' \in Calls /\ call'.op = "alloc" /\ call'.frame = n /\ n # Absent
        /\ call'.virt = call.virt /\ call'.num = call.num
    BY <1>1, <2>1, <2>2, AbsentNoFrame DEF Calls
  <2>4. InFlight' = {n} BY <2>3 DEF InFlight, Absent
  <2>5. CallOK'
    <3>1. Todo' = Todo /\ Calls' = Calls /\ Pages' = Pages /\ Absent' = Absent
      BY <2>3 DEF Todo, Calls, Pages, Absent, Bits
    <3> QED BY <1>1, <1>3, <2>3, <3>1 DEF CallOK
  <2>6. OnePlace'
    BY <1>2, <1>3, <1>4, <2>2, <2>4 DEF PagesInv, OnePlace, Pages, Absent
  <2> QED BY <1>2, <1>3, <2>2, <2>5, <2>6, PagesTranslatedSame DEF PagesInv, RestType
<1> QED BY <1>5, <1>6

LEMMA AllocEnterKeepsPages ==
  ASSUME DirType, PagesInv, AllocEnter, ~TableShared'
  PROVE  PagesInv'
<1> DEFINE v == call.virt
           f == call.frame
<1>1. call \in Calls /\ Todo \subseteq Pages /\ call.op = "alloc" /\ f \in Bits
      /\ \A w \in Todo : Place(w) = Absent
  BY DEF PagesInv, CallOK, AllocEnter, Idle, Calls
<1>2. /\ v \in Todo /\ v \in Pages
      /\ \/ call' = Idle
         \/ call' \in Calls /\ call'.op = "alloc" /\ call'.frame = Absent /\ Todo' = Todo \ {v}
  BY <1>1, AbsentNoFrame, NextPageGoesOn DEF AllocEnter
<1>3. Enter(v, f) /\ UNCHANGED <<todo, usable>> /\ tlb' = tlb /\ hand' = hand /\ unflushed' = unflushed
  BY DEF AllocEnter
<1>4. InFlight = {f} /\ InFlight' = {}
  BY <1>1, <1>2, AbsentNoFrame DEF InFlight, Idle, Absent
<1>5. PICK new \in SUBSET (Bits \ Taken) : /\ Taken' = Taken \cup (new \ {0})
                                           /\ TableFrames' = TableFrames \cup new
  BY <1>1, <1>2, <1>3, Entered
<1>6. IInv' /\ TablesType' /\ \A w \in Pages : Place(w)' = IF w = v THEN f ELSE Place(w)
  BY <1>1, <1>2, <1>3, Entered
<1>7. Place(v) = Absent BY <1>1, <1>2
<1> HIDE DEF v, f
<1>8. Placed' = Placed \cup {f} BY <1>1, <1>2, <1>6, <1>7, PlacedEntered
<1>9. OnePlace'
  <2>1. Taken = (TableFrames \ {0}) \cup Placed \cup hand \cup {f}
        /\ TableFrames \cap (Placed \cup hand \cup {f}) = {} /\ Placed \cap (hand \cup {f}) = {}
    BY <1>4 DEF PagesInv, OnePlace
  <2>2. f \notin hand
    BY <1>4 DEF PagesInv, OnePlace
  <2>3. /\ Taken' = (TableFrames' \ {0}) \cup Placed' \cup hand'
        /\ TableFrames' \cap (Placed' \cup hand') = {}
        /\ Placed' \cap hand' = {}
    BY <1>3, <1>5, <1>8, <2>1, <2>2
  <2>4. \A w \in Pages : Place(w) # f BY <1>1, <2>1, AbsentNoFrame DEF Placed
  <2>5. \A u, w \in Pages' : Place(u)' = Place(w)' /\ Place(u)' # Absent' => u = w
    BY <1>6, <2>4 DEF PagesInv, OnePlace, Pages, Absent
  <2> QED BY <1>4, <2>3, <2>5 DEF OnePlace
<1>10. CallOK'
  <2>1. CASE call' = Idle BY <2>1 DEF CallOK, Idle
  <2>2. CASE call' # Idle
    <3>1. Calls' = Calls /\ Pages' = Pages /\ Absent' = Absent
      BY DEF Calls, Pages, Absent, Bits
    <3>2. \A w \in Todo' : Place(w)' = Absent' BY <1>1, <1>2, <1>6, <2>2, <3>1
    <3> QED BY <1>1, <1>2, <2>2, <3>1, <3>2 DEF CallOK
  <2> QED BY <2>1, <2>2
<1>11. Translated'
  <2>1. ASSUME NEW w \in Watched \ unflushed, tlb[w] # Absent PROVE tlb[w] = Place(w)'
    <3>1. w \in Pages /\ tlb[w] = Place(w)
      BY <2>1, PagingAssumption DEF Pages, PagesInv, Translated
    <3>2. w # v BY <1>7, <2>1, <3>1
    <3> QED BY <1>6, <3>1, <3>2
  <2> QED BY <1>3, <2>1 DEF Translated, Absent
<1>12. RestType' BY <1>3 DEF PagesInv, RestType
<1> QED BY <1>6, <1>9, <1>10, <1>11, <1>12 DEF PagesInv

(* The calls: a careful caller has looked at the range.                     *)
LEMMA CallKeepsPages ==
  ASSUME Careful, PagesInv, call = Idle, NEW virt \in Pages, NEW num \in 1 .. MaxPages,
         PageRun(virt, num) \subseteq Pages,
         \/ \E frame \in hand : paging_map_pages(virt, frame, num)
         \/ paging_unmap_pages(virt, num)
         \/ paging_alloc_pages(virt, num)
  PROVE  PagesInv'
<1>1. num \in Nat \ {0} BY PagingAssumption
<1>2. /\ dir' = dir /\ table' = table /\ tlb' = tlb /\ hand' = hand /\ unflushed' = unflushed
      /\ bitmap' = bitmap /\ used_blocks' = used_blocks /\ report' = report /\ held' = held
      /\ todo' = todo /\ usable' = usable
  BY DEF paging_map_pages, paging_unmap_pages, paging_alloc_pages, Call, pmmVars
<1>3. TablesType' /\ TableFrames' = TableFrames /\ Placed' = Placed
      /\ \A w \in Pages : Place(w)' = Place(w) /\ HasTable(w)' = HasTable(w)
  BY <1>2, TablesSame DEF PagesInv
<1>4. IInv' /\ Taken' = Taken
  BY <1>2, RefusedKeepsIInv DEF PagesInv, IInv, TypeOK, Refused, Taken
<1>5. \A w \in Pages : Mapped(w) <=> Place(w) # Absent BY DEF Place, Mapped
<1>6. Translated' BY <1>2, PagesTranslatedSame DEF PagesInv
<1>7. Calls' = Calls /\ Pages' = Pages /\ Absent' = Absent
  BY DEF Calls, Pages, Absent, Bits
<1>8. ASSUME NEW op \in {"map", "unmap", "alloc"}, NEW f \in Bits \cup {Absent},
             call' = [op |-> op, virt |-> virt, num |-> num, frame |-> f]
      PROVE  call' \in Calls /\ call'.op = op /\ call'.frame = f
             /\ call'.num = num /\ Todo' = PageRun(virt, num)
  BY <1>1, <1>8 DEF Calls, Todo, PageRun
<1>9. InFlight = {} BY DEF InFlight, Idle
<1>10. ASSUME NEW frame \in hand, paging_map_pages(virt, frame, num)
       PROVE  CallOK' /\ InFlight' = {}
  <2>1. call' = [op |-> "map", virt |-> virt, num |-> num, frame |-> frame]
    BY <1>10 DEF paging_map_pages, Call
  <2>2. frame \in Bits \cup {Absent} BY DEF PagesInv, RestType
  <2>3. call' \in Calls /\ call'.op = "map" /\ call'.frame = frame /\ call'.num = num
        /\ Todo' = PageRun(virt, num)
    BY <1>8, <2>1, <2>2
  <2>4. \A w \in Todo' : Place(w)' = Absent
    BY <1>3, <1>5, <1>10, <2>3 DEF paging_map_pages, LooksUnmapped
  <2>5. Run(call.frame, call.num)' \subseteq hand'
    BY <1>2, <1>10, <2>3 DEF paging_map_pages, Run
  <2> QED BY <1>7, <2>3, <2>4, <2>5 DEF CallOK, InFlight
<1>11. CASE paging_unmap_pages(virt, num)
  <2>1. call' = [op |-> "unmap", virt |-> virt, num |-> num, frame |-> Absent]
    BY <1>11 DEF paging_unmap_pages, Call
  <2>2. call' \in Calls /\ call'.op = "unmap" /\ call'.frame = Absent
        /\ Todo' = PageRun(virt, num)
    BY <1>8, <2>1
  <2>3. \A w \in Todo' : HasTable(w)' => Place(w)' # Absent
    BY <1>3, <1>5, <1>11, <2>2 DEF paging_unmap_pages, LooksMapped
  <2>4. CallOK' /\ InFlight' = {} BY <1>7, <2>2, <2>3 DEF CallOK, InFlight
  <2> QED BY <1>2, <1>3, <1>4, <1>6, <1>7, <1>9, <2>4 DEF PagesInv, RestType, OnePlace
<1>12. CASE paging_alloc_pages(virt, num)
  <2>1. call' = [op |-> "alloc", virt |-> virt, num |-> num, frame |-> Absent]
    BY <1>12 DEF paging_alloc_pages, Call
  <2>2. call' \in Calls /\ call'.op = "alloc" /\ call'.frame = Absent
        /\ Todo' = PageRun(virt, num)
    BY <1>8, <2>1
  <2>3. \A w \in Todo' : Place(w)' = Absent
    BY <1>3, <1>5, <1>12, <2>2 DEF paging_alloc_pages, LooksUnmapped
  <2>4. CallOK' /\ InFlight' = {} BY <1>7, <2>2, <2>3 DEF CallOK, InFlight
  <2> QED BY <1>2, <1>3, <1>4, <1>6, <1>7, <1>9, <2>4 DEF PagesInv, RestType, OnePlace
<1> QED BY <1>2, <1>3, <1>4, <1>6, <1>7, <1>9, <1>10, <1>11, <1>12
        DEF PagesInv, RestType, OnePlace

(* Callers take and give frames, the memory map is passed, the TLB is       *)
(* flushed.  No call of paging runs.                                       *)
LEMMA CallerKeepsPages ==
  ASSUME Careful, PagesInv, Caller
  PROVE  PagesInv'
<1>1. call = Idle /\ InFlight = {} BY DEF Caller, InFlight, Idle
<1>2. ASSUME dir' = dir, table' = table, call' = call, IInv', RestType', Translated',
             Taken' = (TableFrames \ {0}) \cup Placed \cup hand',
             TableFrames \cap hand' = {}, Placed \cap hand' = {}
      PROVE  PagesInv'
  <2>1. TablesType' /\ TableFrames' = TableFrames /\ Placed' = Placed
        /\ \A w \in Pages : Place(w)' = Place(w)
    BY <1>2, TablesSame DEF PagesInv
  <2>2. InFlight' = {} /\ CallOK' BY <1>1, <1>2 DEF InFlight, Idle, CallOK
  <2>3. OnePlace' BY <1>1, <1>2, <2>1, <2>2 DEF PagesInv, OnePlace, Pages, Absent
  <2> QED BY <1>2, <2>1, <2>2, <2>3 DEF PagesInv
<1>3. Taken = (TableFrames \ {0}) \cup Placed \cup hand
      /\ TableFrames \cap hand = {} /\ Placed \cap hand = {}
  BY <1>1 DEF PagesInv, OnePlace
<1>4. ASSUME NEW num \in 1 .. MaxRequest, TakeFrames(num) PROVE PagesInv'
  <2> DEFINE f == PagesFound(num)
             got == IF f = 0 THEN {} ELSE Run(f, num)
  <2>1. num \in Nat /\ pmm_alloc_pages(num) /\ todo' = todo /\ usable' = usable /\ hand' = hand \cup got
        /\ dir' = dir /\ table' = table /\ call' = call /\ tlb' = tlb
        /\ unflushed' = unflushed
    BY <1>4 DEF TakeFrames
  <2>2. IInv' /\ Taken' = Taken \cup got /\ got \subseteq Bits \ (Taken \cup {0})
    BY <2>1, PagesTaken DEF PagesInv
  <2> HIDE DEF got
  <2>3. RestType' BY <2>1, <2>2 DEF PagesInv, RestType
  <2>4. Translated' BY <2>1, PagesTranslatedSame DEF PagesInv
  <2> QED BY <1>2, <1>3, <2>1, <2>2, <2>3, <2>4
<1>5. ASSUME NEW f \in hand, GiveFrame(f) PROVE PagesInv'
  <2>1. pmm_free_pages(f, 1) /\ todo' = todo /\ usable' = usable /\ hand' = hand \ {f}
        /\ dir' = dir /\ table' = table /\ call' = call /\ tlb' = tlb
        /\ unflushed' = unflushed
    BY <1>5 DEF GiveFrame
  <2>2. IInv' /\ Taken' = Taken \ {f} BY <1>3, <2>1, PageReturned DEF PagesInv
  <2>3. RestType' BY <2>1 DEF PagesInv, RestType
  <2>4. Translated' BY <2>1, PagesTranslatedSame DEF PagesInv
  <2> QED BY <1>2, <1>3, <2>1, <2>2, <2>3, <2>4
<1>6. ASSUME NEW r \in Regions, PassRegion(r), UNCHANGED pagingVars PROVE PagesInv'
  <2>1. dir' = dir /\ table' = table /\ call' = call /\ tlb' = tlb /\ hand' = hand
        /\ unflushed' = unflushed
    BY <1>6 DEF pagingVars
  <2>2. held' = held BY <1>6 DEF PassRegion, pmm_init_region, pmm_deinit_region
  <2>3. IInv' /\ Taken' = Taken BY <1>6, <2>2, RegionKeepsIInv DEF PagesInv, Taken
  <2>4. RestType' BY <2>1 DEF PagesInv, RestType
  <2>5. Translated' BY <2>1, PagesTranslatedSame DEF PagesInv
  <2> QED BY <1>2, <1>3, <2>1, <2>3, <2>4, <2>5
<1>7. ASSUME paging_invalidate_cache \/ \E virt \in unflushed : paging_invalidate_page(virt),
             UNCHANGED <<pmmVars, dir, table, call, hand>>
      PROVE  PagesInv'
  <2>1. dir' = dir /\ table' = table /\ call' = call /\ hand' = hand
        /\ bitmap' = bitmap /\ used_blocks' = used_blocks /\ report' = report /\ held' = held
        /\ todo' = todo /\ usable' = usable
    BY <1>7 DEF pmmVars
  <2>2. IInv' /\ Taken' = Taken
    BY <2>1, RefusedKeepsIInv DEF PagesInv, IInv, TypeOK, Refused, Taken
  <2>3. RestType'
    BY <1>7, <2>1 DEF PagesInv, RestType, paging_invalidate_cache, paging_invalidate_page
  <2>4. \A w : Place(w)' = Place(w) BY <2>1 DEF Place, Mapped, HasTable, Entry
  <2>5. \A w \in Watched \ unflushed' :
          tlb'[w] # Absent => tlb'[w] = tlb[w] /\ w \notin unflushed
    BY <1>7 DEF paging_invalidate_cache, paging_invalidate_page
  <2>6. Translated' BY <2>4, <2>5 DEF PagesInv, Translated, Absent
  <2> QED BY <1>2, <1>3, <2>1, <2>2, <2>3, <2>6
<1>8. ASSUME NEW virt \in Pages, NEW num \in 1 .. MaxPages,
             PageRun(virt, num) \subseteq Pages,
             \/ \E frame \in hand : paging_map_pages(virt, frame, num)
             \/ paging_unmap_pages(virt, num)
             \/ paging_alloc_pages(virt, num)
      PROVE  PagesInv'
  BY <1>1, <1>8, CallKeepsPages
<1> QED BY <1>4, <1>5, <1>6, <1>7, <1>8 DEF Caller

LEMMA AccessKeepsPages ==
  ASSUME DirType, PagesInv, NEW v \in Watched, Access(v)
  PROVE  PagesInv'
<1>1. dir' = dir /\ table' = table /\ call' = call /\ hand' = hand /\ unflushed' = unflushed
      /\ bitmap' = bitmap /\ used_blocks' = used_blocks /\ report' = report /\ held' = held
      /\ todo' = todo /\ usable' = usable /\ tlb' = [tlb EXCEPT ![v] = Entry(v)] /\ Mapped(v)
  BY DEF Access, pmmVars
<1>2. IInv' /\ Taken' = Taken
  BY <1>1, RefusedKeepsIInv DEF PagesInv, IInv, TypeOK, Refused, Taken
<1>3. TablesType' /\ TableFrames' = TableFrames /\ Placed' = Placed
      /\ \A w \in Pages : Place(w)' = Place(w)
  BY <1>1, TablesSame DEF PagesInv
<1>4. \A w : Place(w)' = Place(w) /\ HasTable(w)' = HasTable(w)
  BY <1>1 DEF Place, Mapped, HasTable, Entry
<1>5. v \in Pages /\ Place(v) = Entry(v) BY <1>1, PagingAssumption DEF Pages, Place
<1>6. Entry(v) \in Bits \cup {Absent}
  BY <1>5, PlaceType DEF PagesInv
<1>7. RestType' BY <1>1, <1>6 DEF PagesInv, RestType
<1>8. Translated' BY <1>1, <1>4, <1>5 DEF PagesInv, RestType, Translated, Absent
<1>9. CallOK' BY <1>1, <1>4 DEF PagesInv, CallOK, Calls, Todo, Pages, Absent, Bits
<1>10. OnePlace' BY <1>1, <1>2, <1>3 DEF PagesInv, OnePlace, InFlight, Pages, Absent
<1> QED BY <1>2, <1>3, <1>7, <1>8, <1>9, <1>10 DEF PagesInv
-----------------------------------------------------------------------------
(* A directory entry that has a table keeps it. *)
LEMMA GotPageKeepsTables ==
  ASSUME DirType, NEW v, paging_get_page(v)
  PROVE  DirType' /\ \A d \in DOMAIN dir : dir[d] # Absent => dir'[d] = dir[d]
<1>1. CASE dir' = dir BY <1>1 DEF DirType
<1>2. CASE CreatesTable(v) /\ dir' = [dir EXCEPT ![DIRECTORY_INDEX(v)] = mmap_find_free]
  <2>1. mmap_find_free \in Bits \cup {Absent} BY FoundIsBlock
  <2> DEFINE n == mmap_find_free
             i == DIRECTORY_INDEX(v)
  <2>2. i \in DOMAIN dir => dir[i] = Absent BY <1>2 DEF CreatesTable, HasTable
  <2>3. dir' = [dir EXCEPT ![i] = n] /\ n \in Bits \cup {Absent} BY <1>2, <2>1
  <2> HIDE DEF n, i
  <2> QED BY <2>2, <2>3 DEF DirType
<1> QED BY <1>1, <1>2 DEF paging_get_page

LEMMA DirKept ==
  ASSUME DirType, [PagingNext]_vars
  PROVE  DirType' /\ (TableShared => TableShared')
<1>1. CASE dir' = dir BY <1>1 DEF DirType, TableShared
<1>2. ASSUME NEW v, paging_get_page(v) PROVE DirType' /\ (TableShared => TableShared')
  <2>1. DirType' /\ \A d \in DOMAIN dir : dir[d] # Absent => dir'[d] = dir[d]
    BY <1>2, GotPageKeepsTables
  <2> QED BY <2>1, AbsentNoFrame DEF DirType, TableShared
<1>3. dir' = dir \/ \E v : paging_get_page(v)
  BY DEF PagingNext, Caller, paging_map_pages, paging_unmap_pages, paging_alloc_pages, Call,
         TakeFrames, GiveFrame, paging_map_page, paging_unmap_page, AllocFrame, AllocEnter,
         Access, Enter, vars, pagingVars
<1> QED BY <1>1, <1>2, <1>3

LEMMA PagingInitInv == PagingInit => PagingInv
<1> SUFFICES ASSUME PagingInit PROVE PagingInv OBVIOUS
<1>1. Init /\ init_paging /\ hand = {} /\ unflushed = {} /\ call = Idle BY DEF PagingInit, init_paging
<1>2. IInv BY <1>1, InitIInv
<1>3. DirType /\ \A d \in DOMAIN dir : dir[d] = Absent BY <1>1 DEF init_paging, DirType
<1>4. TableFrames = {} BY <1>3 DEF TableFrames
<1>5. \A v \in Pages : Place(v) = Absent
  BY <1>3, PageIndices DEF Place, Mapped, HasTable, DirType
<1>6. Placed = {} BY <1>5 DEF Placed
<1>7. TablesType
  <2>1. DOMAIN table = {} BY <1>1 DEF init_paging
  <2> QED BY <1>3, <1>4, <2>1 DEF TablesType
<1>8. RestType /\ Translated BY <1>1 DEF init_paging, RestType, Translated
<1>9. CallOK /\ InFlight = {} BY <1>1 DEF CallOK, InFlight, Idle
<1>10. Taken = {} BY <1>1 DEF Taken, Init
<1>11. OnePlace BY <1>1, <1>4, <1>5, <1>6, <1>9, <1>10 DEF OnePlace
<1> QED BY <1>2, <1>3, <1>7, <1>8, <1>9, <1>11 DEF PagingInv, PagesInv

LEMMA PagingStepInv == ASSUME Careful, PagingInv, [PagingNext]_vars PROVE PagingInv'
<1>1. DirType' /\ (TableShared => TableShared') BY DirKept DEF PagingInv
<1> SUFFICES ASSUME ~TableShared' PROVE PagesInv' BY <1>1 DEF PagingInv
<1>2. DirType /\ PagesInv BY <1>1 DEF PagingInv
<1>3. CASE Caller BY <1>2, <1>3, CallerKeepsPages
<1>4. CASE paging_map_page BY <1>2, <1>4, MapKeepsPages
<1>5. CASE paging_unmap_page BY <1>2, <1>5, UnmapKeepsPages
<1>6. CASE AllocFrame BY <1>2, <1>6, AllocFrameKeepsPages
<1>7. CASE AllocEnter BY <1>2, <1>7, AllocEnterKeepsPages
<1>8. ASSUME NEW v \in Watched, Access(v) PROVE PagesInv' BY <1>2, <1>8, AccessKeepsPages
<1>9. CASE UNCHANGED vars
  <2>1. dir' = dir /\ table' = table /\ call' = call /\ hand' = hand /\ unflushed' = unflushed
        /\ bitmap' = bitmap /\ used_blocks' = used_blocks /\ report' = report /\ held' = held
        /\ todo' = todo /\ usable' = usable /\ tlb' = tlb
    BY <1>9 DEF vars, pmmVars, pagingVars
  <2>2. IInv' /\ Taken' = Taken
    BY <1>2, <2>1, RefusedKeepsIInv DEF PagesInv, IInv, TypeOK, Refused, Taken
  <2>3. TablesType' /\ TableFrames' = TableFrames /\ Placed' = Placed
        /\ \A w \in Pages : Place(w)' = Place(w)
    BY <1>2, <2>1, TablesSame DEF PagesInv
  <2>4. \A w : Place(w)' = Place(w) /\ HasTable(w)' = HasTable(w)
    BY <2>1 DEF Place, Mapped, HasTable, Entry
  <2>5. RestType' /\ Translated'
    BY <1>2, <2>1, PagesTranslatedSame DEF PagesInv, RestType
  <2>6. CallOK' BY <1>2, <2>1, <2>4 DEF PagesInv, CallOK, Calls, Todo, Pages, Absent, Bits
  <2>7. OnePlace' BY <1>2, <2>1, <2>2, <2>3 DEF PagesInv, OnePlace, InFlight, Pages, Absent
  <2> QED BY <2>2, <2>3, <2>5, <2>6, <2>7 DEF PagesInv
<1> QED BY <1>3, <1>4, <1>5, <1>6, <1>7, <1>8, <1>9 DEF PagingNext

THEOREM PagingInvariance ==
  ASSUME Careful PROVE PagingSpec => []PagingInv
<1>1. PagingInv /\ [PagingNext]_vars => PagingInv' BY PagingStepInv
<1> QED BY PagingInitInv, <1>1, PTL DEF PagingSpec

(* Entries and tables name frames of the bitmap, a table of every directory *)
(* entry is there, and the manager below keeps its type, whatever careful   *)
(* callers map and unmap.                                                  *)
THEOREM PagingTypeCorrect ==
  ASSUME Careful PROVE PagingSpec => []PagingTypeOK
<1>1. PagingInv => PagingTypeOK
  BY DEF PagingInv, PagesInv, DirType, TablesType, RestType, IInv, PagingTypeOK
<1> QED BY PagingInvariance, <1>1, PTL

(* Every frame that is marked is a table, or mapped once, or with a caller, *)
(* or on its way into a table: none is lost and none is two of these.       *)
THEOREM FramesStayApart ==
  ASSUME Careful PROVE PagingSpec => []FramesHaveOnePlace
<1>1. ASSUME PagingInv, ~TableShared PROVE FramesHaveOnePlace
  <2>1. PagesInv /\ OnePlace /\ TablesType BY <1>1 DEF PagingInv, PagesInv
  <2>2. \A v \in Pages : (Mapped(v) <=> Place(v) # Absent) /\ (Mapped(v) => Entry(v) = Place(v))
    BY DEF Place, Mapped
  <2>3. MappedFrames = Placed BY <2>2 DEF MappedFrames, Placed
  <2>4. \A v, w \in Pages : Mapped(v) /\ Mapped(w) /\ Entry(v) = Entry(w) => v = w
    BY <2>1, <2>2 DEF OnePlace
  <2> QED BY <2>1, <2>3, <2>4 DEF FramesHaveOnePlace, OnePlace, TablesType, Taken
<1>2. PagingInv => FramesHaveOnePlace BY <1>1 DEF FramesHaveOnePlace
<1> QED BY PagingInvariance, <1>2, PTL

(* The processor translates as the tables say, but for pages that were      *)
(* unmapped and not invalidated since.                                     *)
THEOREM TranslationsAreFresh ==
  ASSUME Careful PROVE PagingSpec => []StaleOnlyIfUnflushed
<1>1. ASSUME PagingInv, ~TableShared, NEW v \in Watched \ unflushed, tlb[v] # Absent
      PROVE  Mapped(v) /\ tlb[v] = Entry(v)
  BY <1>1 DEF PagingInv, PagesInv, Translated, Place, Mapped
<1>2. PagingInv => StaleOnlyIfUnflushed BY <1>1 DEF StaleOnlyIfUnflushed
<1> QED BY PagingInvariance, <1>2, PTL

(* Until two tables are in frame 0, the mark of block 0 stays and the scan  *)
(* finds a frame whenever one is free.                                     *)
THEOREM MemoryIsFound ==
  ASSUME Careful PROVE PagingSpec => []FreeMemoryIsFound
<1>1. ASSUME PagingInv, ~TableShared, mmap_find_free = 0 PROVE FreeBits = {}
  <2>1. 0 \in bitmap BY <1>1 DEF PagingInv, PagesInv, IInv, BlockZeroReserved
  <2>2. ASSUME FreeBits # {} PROVE FALSE
    <3>1. FreeBits \in SUBSET Nat BY ScannedInBitmap DEF FreeBits
    <3>2. Least(FreeBits) \in FreeBits BY <2>2, <3>1, LeastIn
    <3>3. Least(FreeBits) = 0 BY <1>1, <2>2 DEF mmap_find_free
    <3> QED BY <2>1, <3>2, <3>3 DEF FreeBits
  <2> QED BY <2>2
<1>2. PagingInv => FreeMemoryIsFound BY <1>1 DEF FreeMemoryIsFound
<1> QED BY PagingInvariance, <1>2, PTL

(* The entry of a page is changed only by the step of a call that is at the *)
(* page: tables are apart, and a new one is empty.                         *)
LEMMA OnlyPlaceOfCall ==
  ASSUME DirType, PagesInv, ~TableShared', [PagingNext]_vars, NEW v \in Pages,
         call = Idle \/ call.virt # v
  PROVE  Place(v)' = Place(v)
<1>1. CASE dir' = dir /\ table' = table
  BY <1>1 DEF Place, Mapped, HasTable, Entry
<1>2. CASE paging_map_page \/ AllocEnter
  <2>1. call \in Calls /\ call.virt # v /\ call.virt \in Pages /\ UNCHANGED <<todo, usable>>
        /\ Enter(call.virt, call.frame)
    BY <1>2 DEF PagesInv, CallOK, paging_map_page, AllocEnter, Idle, Calls
  <2>2. call.frame \in Bits
    <3>1. CASE paging_map_page
      <4>1. Run(call.frame, call.num) \subseteq hand /\ hand \subseteq Bits
        BY <2>1, <3>1 DEF PagesInv, RestType, CallOK, paging_map_page, Idle
      <4>2. call.num \in Nat \ {0} /\ call.frame \in Int BY <2>1, AbsentNoFrame DEF Calls
      <4> QED BY <4>1, <4>2 DEF Run
    <3>2. CASE AllocEnter BY <2>1, <3>2 DEF AllocEnter, Calls
    <3> QED BY <1>2, <3>1, <3>2
  <2> QED BY <2>1, <2>2, Entered
<1>3. CASE paging_unmap_page
  <2>1. call \in Calls /\ call.virt # v /\ call.virt \in Pages /\ dir' = dir
    BY <1>3 DEF PagesInv, CallOK, paging_unmap_page, Idle, Calls
  <2>2. CASE table' = table BY <1>1, <2>1, <2>2
  <2>3. CASE HasTable(call.virt) /\ table' = EntryCleared(call.virt)
    BY <2>1, <2>3, EntryWritten DEF PagesInv, EntryCleared
  <2> QED BY <1>3, <2>2, <2>3 DEF paging_unmap_page
<1>4. (dir' = dir /\ table' = table) \/ paging_map_page \/ AllocEnter \/ paging_unmap_page
  BY DEF PagingNext, Caller, paging_map_pages, paging_unmap_pages, paging_alloc_pages, Call,
         TakeFrames, GiveFrame, AllocFrame, Access, vars, pagingVars
<1> QED BY <1>1, <1>2, <1>3, <1>4

(* A call of paging changes the translation of the page it is at and of no  *)
(* other, until memory ran out for two tables.                             *)
THEOREM OtherPagesStay ==
  ASSUME Careful PROVE PagingSpec => OnlyNamedPagesChange
<1>1. ASSUME PagingInv, PagingInv', [PagingNext]_vars, NEW v \in Pages,
             paging_virt_to_phys(v)' # paging_virt_to_phys(v), ~TableShared'
      PROVE  call # Idle /\ call.virt = v
  <2>1. DirType /\ PagesInv BY <1>1, DirKept DEF PagingInv
  <2>2. paging_virt_to_phys(v) = IF Place(v) # Absent THEN Place(v) ELSE 0
    BY DEF paging_virt_to_phys, FrameBits, Place, Mapped
  <2>3. paging_virt_to_phys(v)' = IF Place(v)' # Absent THEN Place(v)' ELSE 0
    BY DEF paging_virt_to_phys, FrameBits, Place, Mapped, Absent
  <2> QED BY <1>1, <2>1, <2>2, <2>3, OnlyPlaceOfCall
<1>2. PagingInv /\ PagingInv' /\ [PagingNext]_vars
      => [\A v \in Pages : paging_virt_to_phys(v)' # paging_virt_to_phys(v) =>
            TableShared' \/ (call # Idle /\ call.virt = v)]_vars
  BY <1>1
<1> QED BY PagingInvariance, <1>2, PTL DEF PagingSpec, OnlyNamedPagesChange
=============================================================================
