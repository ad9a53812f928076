------------------------------- MODULE Paging -------------------------------
(***************************************************************************)
(* Paging, kernel/src/mm/paging.c: a page directory whose tables lie in    *)
(* frames of the physical memory manager, and the TLB of the processor.    *)
(* Pages and frames are numbered; flags are left out.  A table is what the *)
(* frame it lies in contains, so that two directory entries with the same  *)
(* frame share it.                                                         *)
(*                                                                         *)
(* The tables are written through the recursive entry of the directory,    *)
(* which works once somebody has turned paging on; no code in this version *)
(* does, and nothing but init_paging is called.  The callers are external: *)
(* hand is the frames they hold and have not mapped, unflushed the pages   *)
(* they unmapped and have not invalidated since.  A careful caller asks    *)
(* paging_get_page for the entries of a range before it maps or unmaps it. *)
(* The ranges lie outside the recursive entry.                             *)
(***************************************************************************)
EXTENDS Pmm

CONSTANTS
  Directory,        \* 1023, the entries without the recursive one
  Entries,          \* 1024, the entries of a table
  MaxPages,         \* bound: the longest range of a call
  Watched,          \* bound: the pages whose place in the TLB is followed
  Careful           \* whether callers look before they map and unmap

VARIABLES
  dir,              \* directory index -> the frame of its table, or Absent
  table,            \* frame of a table -> table index -> frame, or Absent
  tlb,              \* watched page -> the frame the processor remembers, or Absent
  call,             \* the call that is running: operation and locals
  hand,             \* external: frames in the hands of callers
  unflushed         \* external: watched pages unmapped, not invalidated since

pagingVars == <<dir, table, tlb, call, hand, unflushed>>
vars == <<pmmVars, pagingVars>>

ASSUME PagingAssumption ==
  /\ {Directory, Entries, MaxPages} \subseteq Nat \ {0}
  /\ Watched \subseteq 0 .. Directory * Entries - 1
  /\ Careful \in BOOLEAN

Absent == -1        \* an entry that is 0
Idle == [op |-> "idle"]
Pages == 0 .. Directory * Entries - 1

DIRECTORY_INDEX(virt) == virt \div Entries
TABLE_INDEX(virt) == virt % Entries

(* The entry of a page, and what a walk of the tables finds. *)
HasTable(virt) == dir[DIRECTORY_INDEX(virt)] # Absent
Entry(virt) == table[dir[DIRECTORY_INDEX(virt)]][TABLE_INDEX(virt)]
Mapped(virt) == HasTable(virt) /\ Entry(virt) # Absent

(* The frame bits of the entry.  They are 0 when the entry is. *)
FrameBits(virt) == IF Mapped(virt) THEN Entry(virt) ELSE 0
paging_virt_to_phys(virt) == FrameBits(virt)
-----------------------------------------------------------------------------
(* paging_get_page with create: the directory gets a table in a frame of   *)
(* its own, which is cleared.  Whether there was a frame is not looked at: *)
(* the table is then in frame 0.                                           *)
CreatesTable_always(virt) == TRUE
CreatesTable(virt) == ~HasTable(virt)

paging_get_page(virt) ==
  \/ /\ ~CreatesTable(virt)
     /\ UNCHANGED <<dir, bitmap, used_blocks, report, held>>
  \/ /\ CreatesTable(virt)
     /\ pmm_alloc_page
     /\ dir' = [dir EXCEPT ![DIRECTORY_INDEX(virt)] = mmap_find_free]

Cleared == [t \in 0 .. Entries - 1 |-> Absent]
TablesWithPage_uncleared(virt) == table
TablesWithPage(virt) ==
  IF CreatesTable(virt)
  THEN [f \in DOMAIN table \cup {mmap_find_free} |->
          IF f = mmap_find_free THEN Cleared ELSE table[f]]
  ELSE table

(* The page's entry is made to name the frame, whatever it was. *)
Enter(virt, frame) ==
  /\ paging_get_page(virt)
  /\ table' = [TablesWithPage(virt) EXCEPT
                 ![dir'[DIRECTORY_INDEX(virt)]][TABLE_INDEX(virt)] = frame]

paging_invalidate_page_not(virt) == UNCHANGED tlb /\ unflushed' = unflushed \ {virt}
paging_invalidate_page(virt) ==
  /\ tlb' = [v \in Watched |-> IF v = virt THEN Absent ELSE tlb[v]]
  /\ unflushed' = unflushed \ {virt}

(* The loop over the pages of a range goes on, or the call returns. *)
NextPage(frame) ==
  call' = IF call.num = 1 THEN Idle
          ELSE [call EXCEPT !.virt = @ + 1, !.num = @ - 1, !.frame = frame]

(* paging_map_page, in the loop of paging_map_pages.  Over a page that is  *)
(* present it panics, and kpanic() returns.                                *)
paging_map_page ==
  /\ call.op = "map"
  /\ Enter(call.virt, call.frame)
  /\ paging_invalidate_page(call.virt)
  /\ hand' = hand \ {call.frame}
  /\ NextPage(call.frame + 1)
  /\ UNCHANGED <<todo, usable>>

(* The frame paging_unmap_page frees, and what it does to the tables.      *)
FrameFreed_late(virt) == 0
FrameFreed(virt) == FrameBits(virt)

EntryCleared_kept(virt) == table
EntryCleared(virt) ==
  [table EXCEPT ![dir[DIRECTORY_INDEX(virt)]][TABLE_INDEX(virt)] = Absent]

(* paging_unmap_page, in the loop of paging_unmap_pages.  The frame is     *)
(* freed also when the entry is 0, and the TLB is left as it is.           *)
paging_unmap_page ==
  /\ call.op = "unmap"
  /\ \/ /\ HasTable(call.virt)
        /\ pmm_free_pages(FrameFreed(call.virt), 1)
        /\ table' = EntryCleared(call.virt)
        /\ unflushed' = unflushed \cup ({call.virt} \cap Watched)
     \/ /\ ~HasTable(call.virt)
        /\ UNCHANGED <<bitmap, used_blocks, report, held, table, unflushed>>
  /\ NextPage(Absent)
  /\ UNCHANGED <<dir, tlb, hand, todo, usable>>

(* paging_alloc_pages takes a frame for its next page; with none left it   *)
(* returns NULL and keeps the pages it has entered.                        *)
AllocFrame ==
  /\ call.op = "alloc" /\ call.frame = Absent
  /\ pmm_alloc_page
  /\ call' = IF mmap_find_free = 0 THEN Idle
             ELSE [call EXCEPT !.frame = mmap_find_free]
  /\ UNCHANGED <<dir, table, tlb, hand, unflushed, todo, usable>>

(* It enters the frame, without looking at the entry or the TLB. *)
AllocEnter ==
  /\ call.op = "alloc" /\ call.frame # Absent
  /\ Enter(call.virt, call.frame)
  /\ NextPage(Absent)
  /\ UNCHANGED <<tlb, hand, unflushed, todo, usable>>

(* Loading cr3, with the directory there is, forgets every translation.    *)
paging_invalidate_cache ==
  /\ tlb' = [v \in Watched |-> Absent]
  /\ unflushed' = {}
-----------------------------------------------------------------------------
(* init_paging runs before init_pmm: pmm_get_kernel_end() is still 0, and  *)
(* no page is mapped.                                                      *)
init_paging ==
  /\ dir = [d \in 0 .. Directory - 1 |-> Absent]
  /\ table = [f \in {} |-> Cleared]
  /\ tlb = [v \in Watched |-> Absent]
  /\ call = Idle

PagingInit ==
  /\ init_paging
  /\ Init
  /\ hand = {}
  /\ unflushed = {}

(* Calls.  Only one runs at a time: no handler calls the manager or paging. *)
Call(op, virt, num, frame) ==
  /\ call' = [op |-> op, virt |-> virt, num |-> num, frame |-> frame]
  /\ UNCHANGED <<pmmVars, dir, table, tlb, hand, unflushed>>

PageRun(virt, num) == virt .. virt + num - 1

(* What a careful caller makes sure of.  A page without a table may be     *)
(* unmapped, a page with an entry that is 0 may not.                       *)
LooksUnmapped(virt, num) == Careful => \A v \in PageRun(virt, num) : ~Mapped(v)
LooksMapped(virt, num) ==
  Careful => \A v \in PageRun(virt, num) : HasTable(v) => Mapped(v)

paging_map_pages(virt, frame, num) ==
  /\ Run(frame, num) \subseteq hand
  /\ LooksUnmapped(virt, num)
  /\ Call("map", virt, num, frame)

paging_unmap_pages(virt, num) ==
  /\ LooksMapped(virt, num)
  /\ Call("unmap", virt, num, Absent)

paging_alloc_pages(virt, num) ==
  /\ LooksUnmapped(virt, num)
  /\ Call("alloc", virt, num, Absent)

TakeFrames(num) ==
  /\ pmm_alloc_pages(num)
  /\ hand' = hand \cup (IF PagesFound(num) = 0 THEN {} ELSE Run(PagesFound(num), num))
  /\ UNCHANGED <<todo, usable, dir, table, tlb, call, unflushed>>

GiveFrame(frame) ==
  /\ pmm_free_pages(frame, 1)
  /\ hand' = hand \ {frame}
  /\ UNCHANGED <<todo, usable, dir, table, tlb, call, unflushed>>

Caller ==
  /\ call = Idle
  /\ \/ \E virt \in Pages, num \in 1 .. MaxPages :
          /\ PageRun(virt, num) \subseteq Pages
          /\ \/ \E frame \in hand : paging_map_pages(virt, frame, num)
             \/ paging_unmap_pages(virt, num)
             \/ paging_alloc_pages(virt, num)
     \/ \E num \in 1 .. MaxRequest : TakeFrames(num)
     \/ \E frame \in hand : GiveFrame(frame)
     \/ \E r \in Regions : PassRegion(r) /\ UNCHANGED pagingVars
     \/ /\ \/ paging_invalidate_cache
           \/ \E virt \in unflushed : paging_invalidate_page(virt)
        /\ UNCHANGED <<pmmVars, dir, table, call, hand>>

(* The processor uses a page and remembers its frame, at any time. *)
Access(virt) ==
  /\ Mapped(virt) /\ tlb[virt] = Absent
  /\ tlb' = [tlb EXCEPT ![virt] = Entry(virt)]
  /\ UNCHANGED <<pmmVars, dir, table, call, hand, unflushed>>

PagingNext ==
  \/ Caller
  \/ paging_map_page
  \/ paging_unmap_page
  \/ AllocFrame
  \/ AllocEnter
  \/ \E virt \in Watched : Access(virt)

PagingSpec == PagingInit /\ [][PagingNext]_vars
-----------------------------------------------------------------------------
(* A table created with no memory left is in frame 0, and the next one     *)
(* that finds none is the same table.  A range that lies in both shows a   *)
(* caller the same entries twice; when it is unmapped, the second pass     *)
(* finds them 0 and frees frame 0.                                         *)
TableShared == \E d, e \in DOMAIN dir : d # e /\ dir[d] = 0 /\ dir[e] = 0

TableFrames == {dir[d] : d \in DOMAIN dir} \ {Absent}

PagingTypeOK ==
  /\ dir \in [0 .. Directory - 1 -> Bits \cup {Absent}]
  /\ ~TableShared =>
       /\ TypeOK
       /\ DOMAIN table = TableFrames
       /\ \A f \in TableFrames : table[f] \in [0 .. Entries - 1 -> Bits \cup {Absent}]
       /\ tlb \in [Watched -> Bits \cup {Absent}]
       /\ hand \subseteq Bits
       /\ unflushed \subseteq Watched

MappedFrames == {Entry(v) : v \in {w \in Pages : Mapped(w)}}
InFlight == IF call.op = "alloc" /\ call.frame # Absent THEN {call.frame} ELSE {}

(* Until memory ran out for two tables, the frames that are marked for     *)
(* somebody are the tables, but for one in frame 0, the mapped frames,     *)
(* those in the hands of callers and the one on its way into a table; no   *)
(* frame is two of these, holds two tables or is mapped twice.  None is    *)
(* lost, also when paging_alloc_pages gives up in the middle.              *)
FramesHaveOnePlace ==
  ~TableShared =>
    /\ {b \in Bits : held[b] > 0} = (TableFrames \ {0}) \cup MappedFrames \cup hand \cup InFlight
    /\ TableFrames \cap (MappedFrames \cup hand \cup InFlight) = {}
    /\ MappedFrames \cap (hand \cup InFlight) = {} /\ hand \cap InFlight = {}
    /\ \A d, e \in DOMAIN dir : dir[d] = dir[e] /\ dir[d] # Absent => d = e
    /\ \A v, w \in Pages : Mapped(v) /\ Mapped(w) /\ Entry(v) = Entry(w) => v = w

(* A call changes the translation of the page it is at and of no other,    *)
(* until memory ran out for two tables.                                    *)
OnlyNamedPagesChange ==
  [][\A v \in Pages : paging_virt_to_phys(v)' # paging_virt_to_phys(v) =>
       TableShared' \/ (call # Idle /\ call.virt = v)]_vars

(* The processor translates as the tables say, but for the pages that were *)
(* unmapped and not invalidated: paging_map_page is the only operation     *)
(* that sees to the TLB itself.                                            *)
StaleOnlyIfUnflushed ==
  ~TableShared =>
    \A v \in Watched \ unflushed : tlb[v] # Absent => Mapped(v) /\ tlb[v] = Entry(v)

(* pmm_alloc_page finds a frame as long as one is free: until memory ran   *)
(* out for two tables, no sequence of calls clears the mark of block 0,    *)
(* also when the first of them lies there.  The scan would return its      *)
(* number for ever after.                                                  *)
FreeMemoryIsFound == ~TableShared /\ mmap_find_free = 0 => FreeBits = {}

(* paging_map_page panics over a page that is present: "tried to map an    *)
(* already mapped virtual address".  The mapping that was there stays.     *)
NoRemapping ==
  [][paging_map_page =>
       \A v \in Pages : Mapped(v) => paging_virt_to_phys(v)' = paging_virt_to_phys(v)]_vars
=============================================================================
