-------------------------------- MODULE Heap --------------------------------
(***************************************************************************)
(* The kernel heap, lib/liballoc/src/liballoc.c, on top of the physical    *)
(* memory manager (hooks.c).  Majors are runs of pages in a doubly linked  *)
(* list; minors are the allocations inside one, in a doubly linked list    *)
(* ordered by address.  A header is a record kept under its address.       *)
(*                                                                         *)
(* kmalloc is modelled turn by turn: one step per turn of its loop over    *)
(* the majors and one per turn of its loop over the minors, so that its    *)
(* termination is something to check.  The locks of hooks.c do nothing,    *)
(* and no interrupt handler allocates: one call runs at a time.            *)
(*                                                                         *)
(* Callers pass kfree and krealloc only pointers they hold, or NULL, and   *)
(* write only inside their blocks, so the header of a live minor still has *)
(* its magic number and the byte under a pointer the offset ALIGN left.    *)
(* The warning and error counters are left out.                            *)
(***************************************************************************)
EXTENDS Pmm

CONSTANTS
  sizeof_major,     \* 24
  sizeof_minor,     \* 24
  ALIGNMENT,        \* 16
  ALIGN_INFO,       \* 16
  l_pageSize,       \* 4096
  l_pageCount,      \* 16, the fewest pages of a major
  Requests,         \* bound: the sizes callers ask for, in bytes
  Objects           \* bound: the pairs <<nobj, size>> callers ask kcalloc for

VARIABLES
  l_memRoot,        \* first major, or NULL
  l_bestBet,        \* a major, or NULL
  l_allocated,      \* running total of the sizes of the majors
  l_inuse,          \* running total of the sizes of the minors
  major,            \* address -> header of a major
  minor,            \* address -> header of a live minor
  call,             \* the call that is running: its position and locals
  given             \* external: pointer -> [asked, offset] callers hold

heapVars == <<l_memRoot, l_bestBet, l_allocated, l_inuse, major, minor, call, given>>
vars == <<pmmVars, heapVars>>

NULL == 0

ASSUME HeapAssumption ==
  /\ {sizeof_major, sizeof_minor, ALIGNMENT, ALIGN_INFO, l_pageCount} \subseteq Nat \ {0}
  /\ l_pageSize = PMM_BLOCK_SIZE
  /\ l_pageSize % ALIGNMENT = 0
  /\ BitmapBits * PMM_BLOCK_SIZE <= U32
  /\ Requests \subseteq 0 .. U32 - 1
  /\ Objects \subseteq (0 .. U32 - 1) \X (0 .. U32 - 1)

Idle == [pc |-> "idle"]

ALIGN_always(base) == ((base + ALIGN_INFO) \div ALIGNMENT + 1) * ALIGNMENT

(* The address of the first byte a caller may use, in a minor whose bytes  *)
(* start at base: past ALIGN_INFO bytes, rounded up.                       *)
ALIGN(base) == divide_up(base + ALIGN_INFO, ALIGNMENT) * ALIGNMENT

(* The byte below a pointer holds the distance ALIGN moved it; UNALIGN     *)
(* believes it only if ALIGN could have written it.                        *)
UNALIGN(ptr) ==
  LET diff == given[ptr].offset
  IN  IF diff < ALIGNMENT + ALIGN_INFO THEN ptr - diff ELSE ptr

(* The header of the minor behind a pointer. *)
MinorOf(ptr) == UNALIGN(ptr) - sizeof_minor
-----------------------------------------------------------------------------
(* How many pages a major for one minor of this size needs. *)
PagesFor(size) ==
  LET st == divide_up(Wrap(size + sizeof_major + sizeof_minor), l_pageSize)
  IN  IF st < l_pageCount THEN l_pageCount ELSE st

FirstMinor(maj) == maj + sizeof_major
EndOf(m) == m + sizeof_minor + minor[m].size

(* Bytes of a major that are in no header and no minor. *)
Room(maj) == Wrap(major[maj].size - major[maj].usage)

(* What the running call is looking for: its size and a header. *)
Needed == Wrap(call.size + sizeof_minor)

(* Where allocate_new_page puts the new major; NULL when it has no pages. *)
NewMajor == PagesFound(PagesFor(call.size)) * PMM_BLOCK_SIZE

(* The majors with a new one at address at, linked behind after if that is *)
(* not NULL.                                                               *)
WithNewMajor(at, after) ==
  LET st == PagesFor(call.size)
      new == [prev |-> after, next |-> NULL, pages |-> st,
              size |-> Wrap(st * l_pageSize), usage |-> sizeof_major, first |-> NULL]
  IN  [m \in DOMAIN major \cup {at} |->
         IF m = at THEN new
         ELSE IF m = after THEN [major[m] EXCEPT !.next = at] ELSE major[m]]

TakePages ==
  /\ NewMajor # NULL
  /\ pmm_alloc_pages(PagesFor(call.size))
  /\ l_allocated' = l_allocated + Wrap(PagesFor(call.size) * l_pageSize)
  /\ UNCHANGED <<todo, usable>>

KeepPages == UNCHANGED <<pmmVars, l_allocated>>

(* kmalloc has its result: kmalloc and kcalloc return it to their caller,  *)
(* krealloc goes on with it.                                               *)
Return(ptr, base) ==
  IF call.old # NULL
  THEN /\ call' = [call EXCEPT !.pc = "free_old", !.ptr = ptr, !.offset = ptr - base]
       /\ UNCHANGED given
  ELSE /\ call' = Idle
       /\ given' = IF ptr = NULL THEN given
                   ELSE [p \in DOMAIN given \cup {ptr} |->
                           IF p = ptr THEN [asked |-> call.asked, offset |-> ptr - base]
                           ELSE given[p]]

ReturnNull ==
  /\ Return(NULL, NULL)
  /\ UNCHANGED <<pmmVars, l_memRoot, l_allocated, l_inuse, major, minor>>

(* What a minor adds to the usage of its major. *)
Cost_noHeader(size) == size
Cost(size) == size + sizeof_minor

(* The links of another minor m once one at address at is between prv and  *)
(* nxt.                                                                    *)
Linked_oneWay(m, at, prv, nxt) ==
  IF m = prv THEN [minor[m] EXCEPT !.next = at] ELSE minor[m]
Linked(m, at, prv, nxt) ==
  CASE m = prv -> [minor[m] EXCEPT !.next = at]
    [] m = nxt -> [minor[m] EXCEPT !.prev = at]
    [] OTHER -> minor[m]

(* A minor at address at, between prv and nxt in the list of maj, is the   *)
(* result.  majors is the heap's majors, a new one included.               *)
Place(majors, maj, at, prv, nxt) ==
  LET new == [prev |-> prv, next |-> nxt, block |-> maj,
              size |-> call.size, req_size |-> call.req]
      base == at + sizeof_minor
  IN  /\ major' = [majors EXCEPT
                     ![maj].usage = Wrap(@ + Cost(call.size)),
                     ![maj].first = IF prv = NULL THEN at ELSE @]
      /\ minor' = [m \in DOMAIN minor \cup {at} |->
                     IF m = at THEN new ELSE Linked(m, at, prv, nxt)]
      /\ l_inuse' = l_inuse + call.size
      /\ Return(ALIGN(base), base)
-----------------------------------------------------------------------------
(* kmalloc.  The size grows by what alignment may need, on u32; a sum of   *)
(* 0 makes it start again for one byte.  old is the block of a krealloc.   *)
Begin(req_size, asked, old) ==
  LET Sized(n) == Wrap(n + ALIGNMENT + ALIGN_INFO)
      req == IF Sized(req_size) = 0 THEN 1 ELSE req_size
  IN  /\ call = Idle
      /\ call' = [pc |-> "start", req |-> req, size |-> Sized(req), asked |-> asked,
                  old |-> old, maj |-> NULL, min |-> NULL, startedBet |-> FALSE,
                  bestSize |-> 0, ptr |-> NULL, offset |-> 0]
      /\ UNCHANGED <<pmmVars, l_memRoot, l_bestBet, l_allocated, l_inuse, major,
                     minor, given>>

(* Start at the best bet if it has room, at the root otherwise. *)
StartSearch(root) ==
  LET bestSize == IF l_bestBet = NULL THEN 0 ELSE Room(l_bestBet)
      bet == bestSize > Needed
  IN  /\ call' = [call EXCEPT !.pc = "major", !.maj = IF bet THEN l_bestBet ELSE root,
                              !.startedBet = bet, !.bestSize = bestSize]
      /\ UNCHANGED <<l_bestBet, l_inuse, minor, given>>

Start ==
  /\ call.pc = "start"
  /\ \/ l_memRoot = NULL /\ NewMajor = NULL /\ ReturnNull /\ UNCHANGED l_bestBet
     \/ /\ l_memRoot = NULL
        /\ TakePages
        /\ major' = WithNewMajor(NewMajor, NULL)
        /\ l_memRoot' = NewMajor
        /\ StartSearch(NewMajor)
     \/ /\ l_memRoot # NULL
        /\ KeepPages
        /\ UNCHANGED <<l_memRoot, major>>
        /\ StartSearch(l_memRoot)

Last(maj) == major[maj].next = NULL

GoTo(maj, startedBet, bestSize) ==
  /\ call' = [call EXCEPT !.pc = "major", !.maj = maj, !.startedBet = startedBet,
                          !.bestSize = bestSize]
  /\ KeepPages
  /\ UNCHANGED <<l_memRoot, l_inuse, major, minor, given>>

Advance_betForever(bestSize) ==
  \/ ~Last(call.maj) /\ GoTo(major[call.maj].next, call.startedBet, bestSize)
  \/ Last(call.maj) /\ call.startedBet /\ GoTo(l_memRoot, TRUE, bestSize)
  \/ Last(call.maj) /\ ~call.startedBet /\ NewMajor = NULL /\ ReturnNull

Advance_noRestart(bestSize) ==
  \/ ~Last(call.maj) /\ GoTo(major[call.maj].next, call.startedBet, bestSize)
  \/ Last(call.maj) /\ NewMajor = NULL /\ ReturnNull

(* On to another major: the next one, or from the last one back to the     *)
(* root if the search started at the best bet; NULL when there is neither  *)
(* and no memory for a new one.                                            *)
Advance(bestSize) ==
  \/ ~Last(call.maj) /\ GoTo(major[call.maj].next, call.startedBet, bestSize)
  \/ Last(call.maj) /\ call.startedBet /\ GoTo(l_memRoot, FALSE, bestSize)
  \/ Last(call.maj) /\ ~call.startedBet /\ NewMajor = NULL /\ ReturnNull

(* It may grow the heap by a new major behind the last one. *)
Grow == Last(call.maj) /\ ~call.startedBet /\ TakePages /\ UNCHANGED l_memRoot

PlaceHere(at, prv, nxt) ==
  /\ Place(major, call.maj, at, prv, nxt)
  /\ KeepPages
  /\ UNCHANGED l_memRoot

(* One turn of the loop over the majors.  CASE 1: not enough room, and a   *)
(* new major falls through to CASE 2: a major without minors.  CASE 3:     *)
(* room in front of the first minor.  CASE 4: look between the minors.     *)
MajorTurn ==
  LET maj == call.maj
      diff == Room(maj)
      first == major[maj].first
      front == Wrap(first - maj - sizeof_major)
      best == IF call.bestSize < diff THEN diff ELSE call.bestSize
  IN  /\ call.pc = "major"
      /\ l_bestBet' = IF call.bestSize < diff THEN maj ELSE l_bestBet
      /\ \/ diff < Needed /\ Advance(best)
         \/ /\ diff < Needed /\ Grow
            /\ Place(WithNewMajor(NewMajor, maj), NewMajor, FirstMinor(NewMajor), NULL, NULL)
         \/ /\ diff >= Needed /\ first = NULL
            /\ PlaceHere(FirstMinor(maj), NULL, NULL)
         \/ /\ diff >= Needed /\ first # NULL /\ front >= Needed
            /\ PlaceHere(FirstMinor(maj), NULL, first)
         \/ /\ diff >= Needed /\ first # NULL /\ front < Needed
            /\ call' = [call EXCEPT !.pc = "minor", !.min = first, !.bestSize = best]
            /\ KeepPages
            /\ UNCHANGED <<l_memRoot, l_inuse, major, minor, given>>

(* One turn of the loop over the minors of a major.  CASE 4: room behind   *)
(* the last minor or between two.  CASE 5: the end of the major.           *)
MinorTurn ==
  LET min == call.min
      nxt == minor[min].next
      limit == IF nxt = NULL THEN call.maj + major[call.maj].size ELSE nxt
      diff == Wrap(limit - EndOf(min))
  IN  /\ call.pc = "minor"
      /\ UNCHANGED l_bestBet
      /\ \/ diff >= Needed /\ PlaceHere(EndOf(min), min, nxt)
         \/ /\ diff < Needed /\ nxt # NULL
            /\ call' = [call EXCEPT !.min = nxt]
            /\ KeepPages
            /\ UNCHANGED <<l_memRoot, l_inuse, major, minor, given>>
         \/ diff < Needed /\ nxt = NULL /\ Advance(call.bestSize)
         \/ /\ diff < Needed /\ nxt = NULL /\ Grow
            /\ major' = WithNewMajor(NewMajor, call.maj)
            /\ call' = [call EXCEPT !.pc = "major", !.maj = NewMajor]
            /\ UNCHANGED <<l_inuse, minor, given>>
-----------------------------------------------------------------------------
(* kfree. *)

(* The links of another major m once the one between prv and nxt is gone. *)
MajorUnlinked_oneWay(m, majors, prv, nxt) ==
  IF m = prv THEN [majors[m] EXCEPT !.next = nxt] ELSE majors[m]
MajorUnlinked(m, majors, prv, nxt) ==
  CASE m = prv -> [majors[m] EXCEPT !.next = nxt]
    [] m = nxt -> [majors[m] EXCEPT !.prev = prv]
    [] OTHER -> majors[m]

(* liballoc_free: the pages of a major go back to the memory manager. *)
GivePages_one(maj, pages) == pmm_free_pages(maj \div PMM_BLOCK_SIZE, 1)
GivePages(maj, pages) == pmm_free_pages(maj \div PMM_BLOCK_SIZE, pages)

BetAfterDrop_kept(maj) == l_bestBet
BetAfterDrop(maj) == IF l_bestBet = maj THEN NULL ELSE l_bestBet

(* A major without minors is given back. *)
DropMajor(majors, maj) ==
  LET prv == majors[maj].prev
      nxt == majors[maj].next
  IN  /\ l_memRoot' = IF l_memRoot = maj THEN nxt ELSE l_memRoot
      /\ l_bestBet' = BetAfterDrop(maj)
      /\ major' = [m \in DOMAIN majors \ {maj} |-> MajorUnlinked(m, majors, prv, nxt)]
      /\ l_allocated' = l_allocated - majors[maj].size
      /\ GivePages(maj, majors[maj].pages)
      /\ UNCHANGED <<todo, usable>>

(* Another stays, and may be the better bet now. *)
KeepMajor(majors, maj) ==
  LET Free_(m) == majors[m].size - majors[m].usage
      better == l_bestBet # NULL /\ Free_(maj) > Free_(l_bestBet)
  IN  /\ l_bestBet' = IF better THEN maj ELSE l_bestBet
      /\ major' = majors
      /\ KeepPages
      /\ UNCHANGED l_memRoot

(* The first minor of a major once the minor with header h is gone. *)
FirstWithout_kept(h, first) == first
FirstWithout(h, first) == IF h.prev = NULL THEN h.next ELSE first

Release(min) ==
  LET h == minor[min]
      majors == [major EXCEPT
                   ![h.block].usage = Wrap(@ - (h.size + sizeof_minor)),
                   ![h.block].first = FirstWithout(h, @)]
  IN  /\ l_inuse' = l_inuse - h.size
      /\ minor' = [m \in DOMAIN minor \ {min} |->
                     CASE m = h.next -> [minor[m] EXCEPT !.prev = h.prev]
                       [] m = h.prev -> [minor[m] EXCEPT !.next = h.next]
                       [] OTHER -> minor[m]]
      /\ \/ majors[h.block].first = NULL /\ DropMajor(majors, h.block)
         \/ majors[h.block].first # NULL /\ KeepMajor(majors, h.block)

Without(ptr) == [p \in DOMAIN given \ {ptr} |-> given[p]]

kfree(ptr) ==
  /\ call = Idle
  /\ Release(MinorOf(ptr))
  /\ given' = Without(ptr)
  /\ UNCHANGED call
-----------------------------------------------------------------------------
kmalloc(req_size) == Begin(req_size, req_size, NULL)

(* The product is an int.  memset writes to address 0 if there is none.    *)
kcalloc(nobj, size) == Begin(Wrap(nobj * size), nobj * size, NULL)

(* A block that was asked for with no fewer bytes only forgets its size. *)
InPlace_bySize(min, size) == minor[min].size >= size
InPlace(min, size) == minor[min].req_size >= size

krealloc(ptr, size) ==
  LET min == MinorOf(ptr)
  IN  \/ size = 0 /\ kfree(ptr)
      \/ /\ size # 0 /\ InPlace(min, size)
         /\ call = Idle
         /\ minor' = [minor EXCEPT ![min].req_size = size]
         /\ given' = [given EXCEPT ![ptr].asked = size]
         /\ UNCHANGED <<pmmVars, l_memRoot, l_bestBet, l_allocated, l_inuse, major, call>>
      \/ /\ size # 0 /\ ~InPlace(min, size)
         /\ Begin(size, size, ptr)

(* The end of krealloc: the bytes are copied, to address 0 if kmalloc      *)
(* returned NULL, and the old block is freed in either case.               *)
FreeOld ==
  /\ call.pc = "free_old"
  /\ Release(MinorOf(call.old))
  /\ call' = Idle
  /\ given' = IF call.ptr = NULL THEN Without(call.old)
              ELSE [p \in (DOMAIN given \ {call.old}) \cup {call.ptr} |->
                      IF p = call.ptr THEN [asked |-> call.asked, offset |-> call.offset]
                      ELSE given[p]]

HeapInit ==
  /\ Init
  /\ l_memRoot = NULL /\ l_bestBet = NULL
  /\ l_allocated = 0 /\ l_inuse = 0
  /\ major = <<>> /\ minor = <<>> /\ given = <<>>
  /\ call = Idle

(* The memory map may reach the memory manager after the first kmalloc. *)
Region(r) == call = Idle /\ PassRegion(r) /\ UNCHANGED heapVars

Running == Start \/ MajorTurn \/ MinorTurn \/ FreeOld

HeapNext ==
  \/ \E r \in Regions : Region(r)
  \/ \E n \in Requests : kmalloc(n)
  \/ \E o \in Objects : kcalloc(o[1], o[2])
  \/ \E ptr \in DOMAIN given : kfree(ptr)
  \/ \E ptr \in DOMAIN given, n \in Requests : krealloc(ptr, n)
  \/ Running

HeapSpec == HeapInit /\ [][HeapNext]_vars
FairHeapSpec == HeapSpec /\ WF_vars(Running)
-----------------------------------------------------------------------------
IsAddress(a) == a \in 0 .. U32 - 1

HeapTypeOK ==
  /\ TypeOK
  /\ l_memRoot \in DOMAIN major \cup {NULL}
  /\ l_allocated \in Nat /\ l_inuse \in Nat
  /\ \A m \in DOMAIN major :
       /\ IsAddress(m) /\ m # NULL
       /\ {major[m].prev, major[m].next} \subseteq DOMAIN major \cup {NULL}
       /\ major[m].first \in DOMAIN minor \cup {NULL}
       /\ {major[m].pages, major[m].size, major[m].usage} \subseteq 0 .. U32 - 1
  /\ \A m \in DOMAIN minor :
       /\ IsAddress(m) /\ m # NULL
       /\ {minor[m].prev, minor[m].next} \subseteq DOMAIN minor \cup {NULL}
       /\ minor[m].block \in DOMAIN major
       /\ {minor[m].size, minor[m].req_size} \subseteq 0 .. U32 - 1
  /\ call.pc \in {"idle", "start", "major", "minor", "free_old"}
  /\ \A p \in DOMAIN given : IsAddress(p) /\ given[p].offset \in 0 .. U32 - 1

(* The links forward lead to every major: no set of majors that begins at  *)
(* the root and is closed under them leaves one out.                       *)
FromRoot(S) ==
  /\ l_memRoot \in S \cup {NULL}
  /\ \A m \in S : major[m].next \in S \cup {NULL}
Reached == \A S \in SUBSET DOMAIN major : FromRoot(S) => S = DOMAIN major

(* Every major is reached from the root, the links back undo the links     *)
(* forward, no two majors share a page, and the best bet is one of them,   *)
(* never one that was given back.                                          *)
Pages(m) == Run(m \div PMM_BLOCK_SIZE, major[m].pages)
MajorsLinked ==
  /\ Reached
  /\ \A m \in DOMAIN major :
       /\ IF major[m].prev = NULL THEN m = l_memRoot
          ELSE major[m].prev \in DOMAIN major /\ major[major[m].prev].next = m
       /\ major[m].next # NULL => major[major[m].next].prev = m
       /\ \A k \in DOMAIN major \ {m} : Pages(m) \cap Pages(k) = {}
  /\ l_bestBet \in DOMAIN major \cup {NULL}

MinorsOf(maj) == {m \in DOMAIN minor : minor[m].block = maj}

(* The list of minors of a major is all of its minors in the order of      *)
(* their addresses, each ends where the next begins or before, and all lie *)
(* between the header and the end of the major: no header or allocation    *)
(* overlaps another.                                                       *)
MinorsInOrder ==
  \A maj \in DOMAIN major :
    LET mine == MinorsOf(maj)
    IN  /\ major[maj].first = IF mine = {} THEN NULL ELSE Least(mine)
        /\ \A m \in mine :
             LET before == {k \in mine : k < m}
                 after == {k \in mine : k > m}
             IN  /\ minor[m].next = IF after = {} THEN NULL ELSE Least(after)
                 /\ minor[m].prev # NULL => minor[minor[m].prev].next = m
                 /\ minor[m].prev = NULL => before = {}
                 /\ FirstMinor(maj) <= m
                 /\ EndOf(m) <= maj + major[maj].size
                 /\ after # {} => EndOf(m) <= minor[m].next

(* The totals are exact: the usage of a major counts the bytes of its      *)
(* header and of its minors with theirs, l_inuse the bytes of all minors   *)
(* without, l_allocated those of all majors.                               *)
TotalsExact ==
  /\ \A maj \in DOMAIN major :
       major[maj].usage = Cardinality(maj .. FirstMinor(maj) - 1
                            \cup UNION {m .. EndOf(m) - 1 : m \in MinorsOf(maj)})
  /\ l_inuse = Cardinality(UNION {m + sizeof_minor .. EndOf(m) - 1 : m \in DOMAIN minor})
  /\ l_allocated = Cardinality(UNION {m .. m + major[m].size - 1 : m \in DOMAIN major})

(* The heap holds exactly the pages of its majors, and between calls no    *)
(* major without minors: memory that is all freed has gone back.           *)
PagesAccounted ==
  /\ {b \in Bits : held[b] > 0} = UNION {Pages(m) : m \in DOMAIN major}
  /\ call = Idle => \A m \in DOMAIN major : major[m].first # NULL

(* Every pointer a caller holds has a minor of its own, with the bytes the *)
(* caller asked for behind the pointer and inside the minor; between calls *)
(* there are no other minors.                                              *)
AskedBytesFit ==
  /\ \A p \in DOMAIN given :
       /\ MinorOf(p) \in DOMAIN minor
       /\ MinorOf(p) + sizeof_minor <= p
       /\ p + given[p].asked <= EndOf(MinorOf(p))
  /\ \A p, q \in DOMAIN given : MinorOf(p) = MinorOf(q) => p = q
  /\ call = Idle => DOMAIN minor = {MinorOf(p) : p \in DOMAIN given}

(* Some major has a gap for a header and size bytes. *)
Gap(from, to) == to - from >= call.size + sizeof_minor
HasGap ==
  \E maj \in DOMAIN major :
    \/ /\ major[maj].first # NULL
       /\ Gap(FirstMinor(maj), major[maj].first)
    \/ \E m \in MinorsOf(maj) :
         Gap(EndOf(m), IF minor[m].next = NULL THEN maj + major[maj].size
                       ELSE minor[m].next)

(* The heap takes pages, or reports that there is no memory, only when no  *)
(* major has a gap that is large enough, wherever the search began.        *)
GrowsOnlyWhenFull ==
  [][/\ l_allocated' > l_allocated => ~HasGap
     /\ call # Idle /\ call.pc # "free_old"
          /\ (call' = Idle \/ call'.pc = "free_old") /\ UNCHANGED minor => ~HasGap]_vars

(* Every call returns, however many majors and minors there are.           *)
CallsReturn == call # Idle ~> call = Idle

(* The heap implements the promise of Blocks. *)
B == INSTANCE Blocks WITH
       Alignment <- ALIGNMENT,
       Sizes <- Requests \cup {o[1] * o[2] : o \in Objects},
       blocks <- {[at |-> p, len |-> given[p].asked] : p \in DOMAIN given}
ImplementsBlocks == B!Spec
=============================================================================
