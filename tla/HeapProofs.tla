----------------------------- MODULE HeapProofs -----------------------------
(***************************************************************************)
(* Proofs about Heap, for every size of header, alignment, page and        *)
(* memory, and every set of requests that are not so large that a size     *)
(* computed from one leaves u32 (NoOverflow; the code does not check, and  *)
(* what happens otherwise is a run of its own).                            *)
(***************************************************************************)
EXTENDS HeapListProofs

(* No request is so large that a size computed from it leaves u32. *)
Asked == Requests \cup {o[1] * o[2] : o \in Objects}
NoOverflow ==
  \A n \in Asked : n + ALIGNMENT + ALIGN_INFO + sizeof_major + sizeof_minor < U32

(* The heap's pages, and totals. *)
HeldPages ==
  \A b \in Bits : held[b] > 0 <=> \E m \in DOMAIN major : b \in PagesOf(major, m)

(* Both lists in order, and the totals what they should be. *)
Body(majors, minors, root, inuse, allocated) ==
  /\ Typed(majors, minors) /\ Extents(majors) /\ Ordered(majors, minors)
  /\ \A m \in DOMAIN majors : sizeof_major <= majors[m].size
  /\ UsageExact(majors, minors) /\ Chain(majors, root)
  /\ inuse = Cardinality(InUse(minors)) /\ allocated = Cardinality(Allocated(majors))
HeapShape ==
  /\ Body(major, minor, l_memRoot, l_inuse, l_allocated)
  /\ l_bestBet \in DOMAIN major \cup {NULL}
  /\ HeldPages

(* A call that is running. *)
Calls == [pc : {"start", "major", "minor", "free_old"}, req : Nat, size : Nat, asked : Nat,
          old : Nat, maj : Nat, min : Nat, startedBet : BOOLEAN, bestSize : Nat,
          ptr : Nat, offset : Nat]
CallOK ==
  \/ call = Idle
  \/ /\ call \in Calls
     /\ call.asked \in Asked /\ call.req = call.asked
     /\ call.size = call.asked + (ALIGNMENT + ALIGN_INFO)
     /\ call.old # NULL => call.old \in DOMAIN given /\ given[call.old].asked < call.asked
     /\ call.pc = "free_old" => call.old # NULL
     /\ call.pc \in {"major", "minor"} => call.maj \in DOMAIN major
     /\ call.pc = "minor" => call.min \in Mine(minor, call.maj)

(* The only major without minors is the one a search just added. *)
NoEmptyMajor ==
  \A m \in DOMAIN major : major[m].first = NULL =>
     call.pc = "major" /\ m = call.maj
       /\ sizeof_major + sizeof_minor + call.size <= major[m].size

(* Every pointer that is out, and the one krealloc is about to return,     *)
(* belongs to a minor of its own.                                          *)
HeaderOf(p, offset) == p - offset - sizeof_minor
Behind(minors, p, offset, asked) ==
  LET m == HeaderOf(p, offset)
  IN  /\ p \in Nat /\ offset \in Nat /\ m \in DOMAIN minors
      /\ p = ALIGN(m + sizeof_minor) /\ asked = minors[m].req_size
Pointer == [asked : Asked, offset : Nat]
InFlight == call.pc = "free_old" /\ call.ptr # NULL
GivenOK ==
  /\ \A m \in DOMAIN minor : minor[m].req_size + (ALIGNMENT + ALIGN_INFO) <= minor[m].size
  /\ \A p \in DOMAIN given :
       /\ given[p] \in Pointer
       /\ Behind(minor, p, given[p].offset, given[p].asked)
  /\ InFlight => /\ Behind(minor, call.ptr, call.offset, call.asked)
                 /\ call.ptr \notin DOMAIN given
  /\ \A m \in DOMAIN minor :
       \/ \E p \in DOMAIN given : m = HeaderOf(p, given[p].offset)
       \/ InFlight /\ m = HeaderOf(call.ptr, call.offset)

(* A step of a search hands out one pointer at most. *)
GivesOne ==
  \/ given' = given
  \/ \E ptr : /\ ptr \notin DOMAIN given /\ DOMAIN given' = DOMAIN given \cup {ptr}
              /\ \A p \in DOMAIN given : given'[p] = given[p]

HInv == IInv /\ HeapShape /\ CallOK /\ NoEmptyMajor /\ GivenOK
-----------------------------------------------------------------------------
LEMMA WrapIsSmall == ASSUME NEW n \in Nat PROVE Wrap(n) \in 0 .. U32 - 1 /\ Wrap(n) <= n
<1>1. n \in Int OBVIOUS
<1> QED BY <1>1, WrapType, HeapSizes DEF Wrap

LEMMA DivideUp ==
  ASSUME NEW n \in Nat, NEW d \in Nat \ {0}
  PROVE  /\ divide_up(n, d) \in Nat
         /\ n <= divide_up(n, d) * d /\ divide_up(n, d) * d < n + d
         /\ divide_up(n, d) * d \in Nat
<1> DEFINE q == n \div d
           r == n % d
<1>1. q \in Nat /\ r \in 0 .. d - 1 /\ n = (q * d) + r /\ (q * d) \in Nat
  <2>1. n \div d \in Nat /\ n % d \in 0 .. d - 1 /\ n = d * (n \div d) + (n % d) OBVIOUS
  <2>2. d * (n \div d) = (n \div d) * d /\ (n \div d) * d \in Nat BY <2>1
  <2> QED BY <2>1, <2>2
<1> HIDE DEF q, r
<1>2. (1 + q) * d = (q * d) + d BY <1>1
<1>3. divide_up(n, d) = IF r = 0 THEN q ELSE 1 + q BY DEF divide_up, q, r
<1>4. CASE r = 0 BY <1>1, <1>3, <1>4
<1>5. CASE r # 0 BY <1>1, <1>2, <1>3, <1>5
<1> QED BY <1>4, <1>5

(* A pointer is aligned, and has ALIGN_INFO bytes or somewhat more in      *)
(* front of it.                                                            *)
LEMMA AlignMoves ==
  ASSUME NEW base \in Nat
  PROVE  /\ ALIGN(base) \in Nat
         /\ base + ALIGN_INFO <= ALIGN(base) /\ ALIGN(base) < base + (ALIGNMENT + ALIGN_INFO)
         /\ ALIGN(base) % ALIGNMENT = 0
<1>1. ALIGNMENT \in Nat \ {0} /\ ALIGN_INFO \in Nat \ {0} BY HeapSizes
<1> DEFINE n == base + ALIGN_INFO
           q == divide_up(n, ALIGNMENT)
<1>2. n \in Nat BY <1>1
<1>3. q \in Nat /\ n <= q * ALIGNMENT /\ q * ALIGNMENT < n + ALIGNMENT /\ q * ALIGNMENT \in Nat
  BY <1>1, <1>2, DivideUp
<1> HIDE DEF q
<1>4. (q * ALIGNMENT) % ALIGNMENT = 0 BY <1>1, <1>3
<1>5. ALIGN(base) = q * ALIGNMENT BY DEF ALIGN, q
<1> QED BY <1>1, <1>3, <1>4, <1>5
-----------------------------------------------------------------------------
(* Taking the pages of a new major. *)
LEMMA MultDiv ==
  ASSUME NEW f \in Nat, NEW P \in Nat \ {0}
  PROVE  (f * P) \div P = f
<1> DEFINE q == (f * P) \div P
<1>1. f * P \in Nat OBVIOUS
<1>2. q \in Nat /\ q * P <= f * P /\ f * P < (q + 1) * P BY <1>1, DivType
<1> HIDE DEF q
<1>3. f <= q BY <1>2, MultLess
<1>4. q <= f
  <2>1. q * P < (f + 1) * P
    <3>1. (f + 1) * P = f * P + P BY <1>1
    <3>2. q * P \in Nat BY <1>2
    <3> QED BY <1>1, <1>2, <3>1, <3>2
  <2> QED BY <1>2, <2>1, MultLess
<1> QED BY <1>2, <1>3, <1>4 DEF q

Small(size) == size \in Nat /\ size + sizeof_major + sizeof_minor < U32

LEMMA PagesForFits ==
  ASSUME NEW size, Small(size)
  PROVE  /\ PagesFor(size) \in Nat \ {0}
         /\ sizeof_major + sizeof_minor + size <= PagesFor(size) * PMM_BLOCK_SIZE
<1> DEFINE n == size + sizeof_major + sizeof_minor
           P == PMM_BLOCK_SIZE
           st == divide_up(n, P)
<1>1. /\ sizeof_major \in Nat /\ sizeof_minor \in Nat \ {0} /\ P \in Nat \ {0} /\ l_pageSize = P
      /\ l_pageCount \in Nat \ {0}
  BY HeapSizes
<1>2. n \in Nat \ {0} /\ n < U32 BY <1>1 DEF Small
<1>3. Wrap(n) = n BY <1>2, WrapSmall
<1>4. PagesFor(size) = IF st < l_pageCount THEN l_pageCount ELSE st BY <1>1, <1>3 DEF PagesFor
<1>5. st \in Nat /\ n <= st * P /\ st * P \in Nat BY <1>1, <1>2, DivideUp
<1> HIDE DEF st, n
<1>6. st # 0 BY <1>2, <1>5, <1>1
<1>7. PagesFor(size) \in Nat \ {0} /\ st <= PagesFor(size) BY <1>1, <1>4, <1>5, <1>6
<1>8. st * P <= PagesFor(size) * P /\ PagesFor(size) * P \in Nat
  BY <1>1, <1>5, <1>7, MultiplesInOrder
<1>9. n <= PagesFor(size) * P BY <1>2, <1>5, <1>8
<1> QED BY <1>1, <1>7, <1>9 DEF n, Small

(* The pages are free, so they are no other major's. *)
LEMMA TakenPagesAreNew ==
  ASSUME IInv, HeapShape, Small(call.size), TakePages
  PROVE  LET at == NewMajor
             st == PagesFor(call.size)
             R == Run(at \div PMM_BLOCK_SIZE, st)
         IN  /\ IInv' /\ at \in Nat \ {0} /\ at \notin DOMAIN major
             /\ at = (at \div PMM_BLOCK_SIZE) * PMM_BLOCK_SIZE
             /\ R \subseteq Bits
             /\ \A m \in DOMAIN major : PagesOf(major, m) \cap R = {}
             /\ Wrap(st * l_pageSize) = st * PMM_BLOCK_SIZE
             /\ \A b \in Bits : held'[b] > 0 <=> held[b] > 0 \/ b \in R
<1> DEFINE P == PMM_BLOCK_SIZE
           st == PagesFor(call.size)
           f == PagesFound(st)
           R == Run(f, st)
<1>1. P \in Nat \ {0} /\ l_pageSize = P /\ BitmapBits \in Nat /\ U32 \in Nat
      /\ BitmapBits * P <= U32
  BY HeapSizes
<1>2. st \in Nat \ {0} BY PagesForFits
<1>3. NewMajor = f * P /\ f # 0
  <2>1. NewMajor = f * P /\ NewMajor # 0 BY DEF NewMajor, TakePages, NULL
  <2> QED BY <1>1, <2>1
<1>4. Given(f, st) /\ report' = report /\ todo' = todo /\ usable' = usable
  BY <1>3 DEF TakePages, pmm_alloc_pages
<1>5. f \in Nat \ {0} /\ R \subseteq FreeBits
  <2>1. 0 \in bitmap BY DEF IInv, BlockZeroReserved
  <2> QED BY <1>2, <1>3, <2>1, FoundRunIsFree
<1>6. IInv'
  <2>1. report' \in {"none", "panic", "null", "page"} BY <1>4 DEF IInv, TypeOK
  <2> QED BY <1>2, <1>4, <1>5, <2>1, GivenKeepsIInv
<1>7. NewMajor \div P = f /\ NewMajor \in Nat \ {0}
  <2>1. f \in Nat /\ 1 <= f BY <1>5
  <2>2. 1 * P <= f * P /\ f * P \in Nat BY <1>1, <2>1, MultiplesInOrder
  <2>3. (f * P) \div P = f BY <1>1, <2>1, MultDiv
  <2> QED BY <1>1, <1>3, <2>2, <2>3
<1> HIDE DEF f, st
<1>8. R \subseteq Bits /\ \A b \in R : held[b] = 0 /\ held[b] \in Nat
  <2> HIDE DEF R
  <2>1. \A b \in R : b \in Bits /\ b \notin bitmap BY <1>5, ScannedInBitmap DEF FreeBits
  <2>2. \A b \in Bits : held[b] \in Nat BY DEF IInv, TypeOK
  <2>3. \A b \in Bits : held[b] > 0 => b \in bitmap BY DEF IInv, HeldAreMarked
  <2> QED BY <2>1, <2>2, <2>3
<1>9. \A m \in DOMAIN major : PagesOf(major, m) \cap R = {}
  <2>1. ASSUME NEW m \in DOMAIN major, NEW b \in R, b \in PagesOf(major, m) PROVE FALSE
    <3>1. b \in Bits /\ held[b] = 0 BY <1>8
    <3>2. held[b] > 0 BY <2>1, <3>1 DEF HeapShape, HeldPages
    <3> QED BY <3>1, <3>2
  <2> QED BY <2>1
<1>10. NewMajor \notin DOMAIN major
  <2> SUFFICES ASSUME NewMajor \in DOMAIN major PROVE FALSE OBVIOUS
  <2>1. major[NewMajor].pages \in Nat \ {0}
    BY DEF HeapShape, Body, Typed, MajorHeader, Extents
  <2>2. f \in PagesOf(major, NewMajor) BY <1>5, <1>7, <2>1 DEF PagesOf, Run
  <2>3. f \in R BY <1>2, <1>5 DEF Run
  <2> QED BY <1>9, <2>2, <2>3
<1>11. Wrap(st * l_pageSize) = st * P
  <2>1. f + st - 1 \in R BY <1>2, <1>5 DEF Run
  <2>2. f + st - 1 <= BitmapBits - 1 BY <1>8, <2>1 DEF Bits
  <2>3. st + 1 <= BitmapBits /\ st + 1 \in Nat BY <1>1, <1>2, <1>5, <2>2
  <2>4. (st + 1) * P <= BitmapBits * P /\ (st + 1) * P \in Nat /\ BitmapBits * P \in Nat
    BY <1>1, <2>3, MultiplesInOrder
  <2>5. (st + 1) * P = st * P + P /\ st * P \in Nat BY <1>1, <1>2
  <2>6. st * P < U32 BY <1>1, <2>4, <2>5
  <2> QED BY <1>1, <2>5, <2>6, WrapSmall
<1>12. ASSUME NEW b \in Bits PROVE held'[b] > 0 <=> held[b] > 0 \/ b \in R
  <2>1. held[b] \in Nat BY DEF IInv, TypeOK
  <2>2. held'[b] = IF b \in R THEN held[b] + 1 ELSE held[b] BY <1>4 DEF Given, Hold
  <2> QED BY <2>1, <2>2
<1> QED BY <1>1, <1>3, <1>6, <1>7, <1>8, <1>9, <1>10, <1>11, <1>12 DEF st

(* A new major is added behind the last one, or as the first. *)
LEMMA NewMajorFields ==
  ASSUME HeapShape, NEW at \in Nat \ {0}, at \notin DOMAIN major, NEW after \in Nat,
         PagesFor(call.size) \in Nat
  PROVE  LET majors2 == WithNewMajor(at, after)
         IN  /\ Typed(majors2, minor) /\ LinkedMajor(major, majors2, at, after)
             /\ Added(major, majors2, at)
             /\ majors2[at].pages = PagesFor(call.size)
             /\ majors2[at].size = Wrap(PagesFor(call.size) * l_pageSize)
<1> DEFINE M == WithNewMajor(at, after)
           st == PagesFor(call.size)
<1>1. st \in Nat /\ Wrap(st * l_pageSize) \in Nat /\ sizeof_major \in Nat
  <2>1. st * l_pageSize \in Nat BY HeapSizes
  <2> QED BY <2>1, WrapIsSmall, HeapSizes
<1>2. Typed(major, minor) BY DEF HeapShape, Body
<1>3. DOMAIN M = DOMAIN major \cup {at} BY DEF WithNewMajor
<1>4. M[at] = [prev |-> after, next |-> NULL, pages |-> st,
               size |-> Wrap(st * l_pageSize), usage |-> sizeof_major, first |-> NULL]
  BY DEF WithNewMajor
<1>5. \A m \in DOMAIN major :
        M[m] = IF m = after THEN [major[m] EXCEPT !.next = at] ELSE major[m]
  BY DEF WithNewMajor
<1> HIDE DEF M, st
<1>6. M[at] \in MajorHeader BY <1>1, <1>4 DEF MajorHeader, NULL
<1>7. \A m \in DOMAIN major :
        /\ M[m] \in MajorHeader
        /\ M[m].prev = major[m].prev /\ M[m].next = IF m = after THEN at ELSE major[m].next
        /\ M[m].pages = major[m].pages /\ M[m].size = major[m].size
        /\ M[m].usage = major[m].usage /\ M[m].first = major[m].first
  <2> TAKE m \in DOMAIN major
  <2>1. major[m] \in MajorHeader BY <1>2 DEF Typed
  <2>2. CASE m = after
    <3>1. M[m] = [major[m] EXCEPT !.next = at] BY <1>5, <2>2
    <3> QED BY <2>1, <2>2, <3>1 DEF MajorHeader
  <2>3. CASE m # after
    <3>1. M[m] = major[m] BY <1>5, <2>3
    <3> QED BY <2>1, <2>3, <3>1
  <2> QED BY <2>2, <2>3
<1>8. Typed(M, minor) BY <1>2, <1>3, <1>6, <1>7 DEF Typed
<1>9. LinkedMajor(major, M, at, after) BY <1>3, <1>4, <1>7 DEF LinkedMajor
<1>10. Added(major, M, at) BY <1>3, <1>4, <1>7 DEF Added
<1>11. M[at].pages = st /\ M[at].size = Wrap(st * l_pageSize) BY <1>4
<1> QED BY <1>8, <1>9, <1>10, <1>11 DEF M, st

LEMMA NewMajorKeepsBody ==
  ASSUME IInv, HeapShape, Small(call.size), TakePages, NEW after \in Nat,
         IF after = NULL THEN l_memRoot = NULL
         ELSE after \in DOMAIN major /\ major[after].next = NULL
  PROVE  LET majors2 == WithNewMajor(NewMajor, after)
         IN  /\ Body(majors2, minor, IF after = NULL THEN NewMajor ELSE l_memRoot,
                     l_inuse, l_allocated')
             /\ sizeof_major + sizeof_minor + call.size <= majors2[NewMajor].size
             /\ NewMajor \notin DOMAIN major /\ Added(major, majors2, NewMajor)
             /\ majors2[NewMajor].next = NULL
             /\ l_allocated' > l_allocated
             /\ \A b \in Bits : held'[b] > 0 <=>
                                 \E m \in DOMAIN majors2 : b \in PagesOf(majors2, m)
<1> DEFINE M == WithNewMajor(NewMajor, after)
           at == NewMajor
           st == PagesFor(call.size)
           R == Run(at \div PMM_BLOCK_SIZE, st)
           root == IF after = NULL THEN at ELSE l_memRoot
<1>0. PMM_BLOCK_SIZE \in Nat \ {0} /\ sizeof_major \in Nat /\ sizeof_minor \in Nat BY HeapSizes
<1>1. /\ at \in Nat \ {0} /\ at \notin DOMAIN major
      /\ at = (at \div PMM_BLOCK_SIZE) * PMM_BLOCK_SIZE
      /\ R \subseteq Bits
      /\ \A m \in DOMAIN major : PagesOf(major, m) \cap R = {}
      /\ Wrap(st * l_pageSize) = st * PMM_BLOCK_SIZE
      /\ \A b \in Bits : held'[b] > 0 <=> held[b] > 0 \/ b \in R
  BY TakenPagesAreNew
<1>2. st \in Nat \ {0} /\ sizeof_major + sizeof_minor + call.size <= st * PMM_BLOCK_SIZE
  BY PagesForFits
<1>3. /\ Typed(M, minor) /\ LinkedMajor(major, M, at, after) /\ Added(major, M, at)
      /\ M[at].pages = st /\ M[at].size = st * PMM_BLOCK_SIZE
  BY <1>1, <1>2, NewMajorFields
<1>4. l_allocated' = l_allocated + st * PMM_BLOCK_SIZE BY <1>1 DEF TakePages
<1> HIDE DEF M, at, st
<1>5. /\ Typed(major, minor) /\ Extents(major) /\ Ordered(major, minor)
      /\ UsageExact(major, minor) /\ Chain(major, l_memRoot)
      /\ \A m \in DOMAIN major : sizeof_major <= major[m].size
      /\ l_inuse = Cardinality(InUse(minor)) /\ l_allocated = Cardinality(Allocated(major))
  BY DEF HeapShape, Body
<1>6. PagesOf(M, at) = R BY <1>3 DEF PagesOf
<1>7. Extents(M) /\ Ordered(M, minor) /\ UsageExact(M, minor)
  <2> HIDE DEF R
  <2> QED BY <1>1, <1>2, <1>3, <1>5, <1>6, AddKeepsOrder
<1>8. Chain(M, root)
  BY <1>1, <1>3, <1>5, NewMajorKeepsChain DEF NULL
<1>9. l_allocated' = Cardinality(Allocated(M))
  <2>1. Cardinality(Allocated(M)) = Cardinality(Allocated(major)) + M[at].size
    BY <1>1, <1>3, <1>5, <1>7, AddCountsAllocated
  <2> QED BY <1>3, <1>4, <1>5, <2>1
<1>10. sizeof_major + sizeof_minor + call.size <= M[at].size BY <1>2, <1>3
<1>11. \A m \in DOMAIN M : sizeof_major <= M[m].size
  <2> TAKE m \in DOMAIN M
  <2>1. CASE m = at
    <3>1. call.size \in Nat /\ M[at].size \in Nat BY <1>0, <1>2, <1>3 DEF Small
    <3> QED BY <1>0, <1>10, <2>1, <3>1
  <2>2. CASE m # at BY <1>3, <1>5, <2>2 DEF Added
  <2> QED BY <2>1, <2>2
<1>12. l_allocated' > l_allocated
  <2>1. l_allocated \in Nat BY <1>5, AllocatedIsFinite
  <2>2. 1 * PMM_BLOCK_SIZE <= st * PMM_BLOCK_SIZE /\ st * PMM_BLOCK_SIZE \in Nat
    <3>1. 1 <= st /\ st \in Nat BY <1>2
    <3> QED BY <1>0, <3>1, MultiplesInOrder
  <2> QED BY <1>0, <1>4, <2>1, <2>2
<1>13. ASSUME NEW b \in Bits
       PROVE  held'[b] > 0 <=> \E m \in DOMAIN M : b \in PagesOf(M, m)
  <2>1. held[b] > 0 <=> \E m \in DOMAIN major : b \in PagesOf(major, m)
    BY DEF HeapShape, HeldPages
  <2>2. \A m \in DOMAIN major : PagesOf(M, m) = PagesOf(major, m) BY <1>3 DEF Added, PagesOf
  <2>3. DOMAIN M = DOMAIN major \cup {at} BY <1>3 DEF Added
  <2> HIDE DEF R
  <2> QED BY <1>1, <1>6, <2>1, <2>2, <2>3
<1>14. Body(M, minor, root, l_inuse, l_allocated')
  <2> HIDE DEF root
  <2> QED BY <1>3, <1>5, <1>7, <1>8, <1>9, <1>11 DEF Body
<1>15. M[at].next = NULL BY <1>3 DEF LinkedMajor
<1> QED BY <1>1, <1>3, <1>10, <1>12, <1>13, <1>14, <1>15 DEF M, at
-----------------------------------------------------------------------------
(* Placing a minor in a gap of a major. *)
LEMMA PlaceFields ==
  ASSUME NEW majors, Typed(majors, minor), NEW maj \in DOMAIN majors,
         NEW at \in Nat \ {0}, NEW prv \in Nat, NEW nxt \in Nat, at \notin DOMAIN minor,
         call.size \in Nat, call.req \in Nat, prv = NULL \/ nxt # prv,
         Place(majors, maj, at, prv, nxt)
  PROVE  /\ Typed(major', minor')
         /\ Placed(majors, major', minor, minor', maj, at, call.size, prv, nxt)
         /\ minor'[at].req_size = call.req
         /\ \A m \in DOMAIN minor : minor'[m].req_size = minor[m].req_size
         /\ l_inuse' = l_inuse + call.size
         /\ Return(ALIGN(at + sizeof_minor), at + sizeof_minor)
<1> DEFINE new == [prev |-> prv, next |-> nxt, block |-> maj,
                   size |-> call.size, req_size |-> call.req]
           W == Wrap(majors[maj].usage + (call.size + sizeof_minor))
           head == IF prv = NULL THEN at ELSE majors[maj].first
           M == [majors EXCEPT ![maj].usage = W, ![maj].first = head]
           N == [m \in DOMAIN minor \cup {at} |->
                   IF m = at THEN new ELSE Linked(m, at, prv, nxt)]
<1>0. sizeof_minor \in Nat BY HeapSizes
<1>1. /\ major' = M /\ minor' = N /\ l_inuse' = l_inuse + call.size
      /\ Return(ALIGN(at + sizeof_minor), at + sizeof_minor)
  BY DEF Place, Cost
<1>2. /\ \A m \in DOMAIN majors : majors[m] \in MajorHeader /\ m \in Nat \ {0}
      /\ \A m \in DOMAIN minor : /\ minor[m] \in MinorHeader /\ m \in Nat \ {0}
                                 /\ minor[m].block \in DOMAIN majors
  BY DEF Typed
<1>3. W \in Nat /\ head \in Nat
  <2>1. majors[maj].usage \in Nat /\ majors[maj].first \in Nat BY <1>2 DEF MajorHeader
  <2>2. majors[maj].usage + (call.size + sizeof_minor) \in Nat BY <1>0, <2>1
  <2> QED BY <2>1, <2>2, WrapIsSmall, HeapSizes
<1>4. DOMAIN M = DOMAIN majors
      /\ \A m \in DOMAIN majors :
           M[m] = IF m = maj THEN [majors[m] EXCEPT !.usage = W, !.first = head] ELSE majors[m]
  <2> HIDE DEF W, head
  <2> QED OBVIOUS
<1>5. \A m \in DOMAIN majors :
        /\ M[m] \in MajorHeader
        /\ M[m].pages = majors[m].pages /\ M[m].size = majors[m].size
        /\ M[m].prev = majors[m].prev /\ M[m].next = majors[m].next
        /\ M[m].first = IF m = maj THEN head ELSE majors[m].first
        /\ M[m].usage = IF m = maj THEN W ELSE majors[m].usage
  <2> HIDE DEF W, head, M
  <2> TAKE m \in DOMAIN majors
  <2>1. majors[m] \in MajorHeader BY <1>2
  <2>2. CASE m = maj
    <3>1. M[m] = [majors[m] EXCEPT !.usage = W, !.first = head] BY <1>4, <2>2
    <3> QED BY <1>3, <2>1, <2>2, <3>1 DEF MajorHeader
  <2>3. CASE m # maj BY <1>4, <2>1, <2>3
  <2> QED BY <2>2, <2>3
<1>6. new \in MinorHeader /\ new.block \in DOMAIN majors BY <1>2 DEF MinorHeader
<1>7. DOMAIN N = DOMAIN minor \cup {at} /\ N[at] = new
      /\ \A m \in DOMAIN minor : N[m] = Linked(m, at, prv, nxt)
  <2> HIDE DEF new
  <2> QED OBVIOUS
<1>8. \A m \in DOMAIN minor :
        /\ N[m] \in MinorHeader
        /\ N[m].size = minor[m].size /\ N[m].block = minor[m].block
        /\ N[m].req_size = minor[m].req_size
        /\ N[m].next = IF m = prv THEN at ELSE minor[m].next
        /\ N[m].prev = IF m = nxt THEN at ELSE minor[m].prev
  <2> TAKE m \in DOMAIN minor
  <2>1. N[m] = Linked(m, at, prv, nxt) /\ minor[m] \in MinorHeader /\ m # NULL
    BY <1>2, <1>7 DEF NULL
  <2> HIDE DEF N
  <2>2. CASE m = prv
    <3>1. m # nxt BY <2>1, <2>2
    <3>2. N[m] = [minor[m] EXCEPT !.next = at] BY <2>1, <2>2 DEF Linked
    <3> QED BY <2>1, <2>2, <3>1, <3>2 DEF MinorHeader
  <2>3. CASE m # prv /\ m = nxt
    <3>1. N[m] = [minor[m] EXCEPT !.prev = at] BY <2>1, <2>3 DEF Linked
    <3> QED BY <2>1, <2>3, <3>1 DEF MinorHeader
  <2>4. CASE m # prv /\ m # nxt
    <3>1. N[m] = minor[m] BY <2>1, <2>4 DEF Linked
    <3> QED BY <2>1, <2>4, <3>1
  <2> QED BY <2>2, <2>3, <2>4
<1>9. Typed(M, N)
  <2>1. \A m \in DOMAIN N : N[m] \in MinorHeader /\ N[m].block \in DOMAIN majors /\ m \in Nat \ {0}
    <3> HIDE DEF N, new
    <3> QED BY <1>2, <1>6, <1>7, <1>8
  <2> HIDE DEF M, N
  <2> QED BY <1>2, <1>4, <1>5, <2>1 DEF Typed
<1>10. new.prev = prv /\ new.next = nxt /\ new.block = maj /\ new.size = call.size
       /\ new.req_size = call.req
  OBVIOUS
<1> HIDE DEF M, N, new
<1>11. Placed(majors, M, minor, N, maj, at, call.size, prv, nxt)
  <2>1. LinkedIn(minor, N, DOMAIN minor, at, call.size, prv, nxt)
    BY <1>7, <1>8, <1>10 DEF LinkedIn
  <2>2. N[at].block = maj BY <1>7, <1>10
  <2>3. \A m \in DOMAIN majors :
          /\ M[m].pages = majors[m].pages /\ M[m].size = majors[m].size
          /\ M[m].prev = majors[m].prev /\ M[m].next = majors[m].next
          /\ M[m].first = IF m = maj /\ prv = NULL THEN at ELSE majors[m].first
          /\ M[m].usage = IF m = maj THEN Wrap(majors[m].usage + (call.size + sizeof_minor))
                         ELSE majors[m].usage
    BY <1>5
  <2>4. \A m \in DOMAIN minor \ {at} : N[m].block = minor[m].block BY <1>8
  <2> HIDE DEF head, W
  <2> QED BY <1>4, <1>7, <2>1, <2>2, <2>3, <2>4 DEF Placed
<1>12. N[at].req_size = call.req BY <1>7, <1>10
<1> QED BY <1>1, <1>8, <1>9, <1>11, <1>12

LEMMA PlaceKeepsBody ==
  ASSUME NEW majors, NEW root, NEW allocated, Body(majors, minor, root, l_inuse, allocated),
         NEW maj \in DOMAIN majors,
         NEW at \in Nat \ {0}, NEW prv \in Nat, NEW nxt \in Nat,
         call.size \in Nat, call.req \in Nat,
         GapOf(majors, minor, maj, at, call.size, prv, nxt),
         Place(majors, maj, at, prv, nxt)
  PROVE  /\ Body(major', minor', root, l_inuse', allocated)
         /\ Placed(majors, major', minor, minor', maj, at, call.size, prv, nxt)
         /\ at \notin DOMAIN minor
         /\ minor'[at].req_size = call.req
         /\ \A m \in DOMAIN minor : minor'[m].req_size = minor[m].req_size
         /\ Return(ALIGN(at + sizeof_minor), at + sizeof_minor)
<1>1. /\ Typed(majors, minor) /\ Extents(majors) /\ Ordered(majors, minor)
      /\ UsageExact(majors, minor) /\ Chain(majors, root)
      /\ \A m \in DOMAIN majors : sizeof_major <= majors[m].size
      /\ l_inuse = Cardinality(InUse(minor)) /\ allocated = Cardinality(Allocated(majors))
  BY DEF Body
<1>2. at \notin DOMAIN minor BY <1>1, GapIsApartFromAll
<1>3. prv = NULL \/ nxt # prv
  <2> DEFINE S == Mine(minor, maj)
             first == majors[maj].first
             lo == FirstMinor(maj)
             hi == maj + majors[maj].size
  <2>1. ListType(minor, S) /\ first \in Nat /\ lo \in Nat /\ hi \in Nat
    BY <1>1, ListsAreTyped
  <2>2. InOrder(minor, S, first, lo, hi) /\ Gap_(minor, S, first, lo, hi, at, call.size, prv, nxt)
    BY <1>1 DEF Ordered, ListOf, GapOf
  <2> HIDE DEF S, first, lo, hi
  <2>3. Apart(minor, S, lo, hi, at, call.size, prv, nxt) BY <2>1, <2>2, GapIsApart
  <2> QED BY <2>3 DEF Apart
<1>4. /\ Typed(major', minor')
      /\ Placed(majors, major', minor, minor', maj, at, call.size, prv, nxt)
      /\ minor'[at].req_size = call.req
      /\ \A m \in DOMAIN minor : minor'[m].req_size = minor[m].req_size
      /\ l_inuse' = l_inuse + call.size
      /\ Return(ALIGN(at + sizeof_minor), at + sizeof_minor)
  BY <1>1, <1>2, <1>3, PlaceFields
<1>5. Ordered(major', minor') /\ Extents(major') BY <1>1, <1>4, PlaceKeepsOrder
<1>6. UsageExact(major', minor') BY <1>1, <1>4, PlaceKeepsUsage
<1>7. Cardinality(InUse(minor')) = Cardinality(InUse(minor)) + call.size
  BY <1>1, <1>4, PlaceCountsInUse
<1>8. /\ DOMAIN major' = DOMAIN majors
      /\ \A m \in DOMAIN majors : /\ major'[m].prev = majors[m].prev
                                 /\ major'[m].next = majors[m].next
                                 /\ major'[m].size = majors[m].size
  BY <1>4 DEF Placed
<1>9. Chain(major', root) BY <1>1, <1>8, ChainKept
<1>10. Allocated(major') = Allocated(majors)
  <2>1. \A m \in DOMAIN majors : ExtentOf(major', m) = ExtentOf(majors, m) BY <1>8 DEF ExtentOf
  <2>2. ASSUME NEW x PROVE x \in Allocated(major') <=> x \in Allocated(majors)
    BY <1>8, <2>1, UnionsOfBytes
  <2> QED BY <2>2
<1>11. Body(major', minor', root, l_inuse', allocated)
  BY <1>1, <1>4, <1>5, <1>6, <1>7, <1>8, <1>9, <1>10 DEF Body
<1> QED BY <1>2, <1>4, <1>11
-----------------------------------------------------------------------------
(* Releasing a minor, and its major if it was the last one. *)
WithoutMinor(min) ==
  LET h == minor[min]
  IN  [major EXCEPT ![h.block].usage = Wrap(@ - (h.size + sizeof_minor)),
                    ![h.block].first = FirstWithout(h, @)]

LEMMA ReleaseFields ==
  ASSUME Typed(major, minor), NEW min \in DOMAIN minor, Release(min),
         minor[min].next # NULL => minor[min].next # minor[min].prev
  PROVE  /\ Typed(WithoutMinor(min), minor')
         /\ Released(major, WithoutMinor(min), minor, minor', min)
         /\ \A m \in DOMAIN minor' : minor'[m].req_size = minor[m].req_size
<1> DEFINE h == minor[min]
           b == h.block
           W == Wrap(major[b].usage - (h.size + sizeof_minor))
           head == IF h.prev = NULL THEN h.next ELSE major[b].first
           M == WithoutMinor(min)
           N == minor'
<1>0. sizeof_minor \in Nat /\ U32 \in Nat \ {0} BY HeapSizes
<1>1. /\ \A m \in DOMAIN major : major[m] \in MajorHeader /\ m \in Nat \ {0}
      /\ \A m \in DOMAIN minor : /\ minor[m] \in MinorHeader /\ m \in Nat \ {0}
                                 /\ minor[m].block \in DOMAIN major
  BY DEF Typed
<1>2. W \in Nat /\ head \in Nat /\ b \in DOMAIN major
  <2>1. b \in DOMAIN major /\ h \in MinorHeader BY <1>1
  <2>2. major[b].usage \in Nat /\ major[b].first \in Nat BY <1>1, <2>1 DEF MajorHeader
  <2>3. h.size \in Nat /\ h.next \in Nat BY <2>1 DEF MinorHeader
  <2> HIDE DEF h, b
  <2>4. major[b].usage - (h.size + sizeof_minor) \in Int BY <1>0, <2>2, <2>3
  <2>5. W \in 0 .. U32 - 1 BY <2>4, WrapType
  <2> QED BY <1>0, <2>1, <2>2, <2>3, <2>5
<1>3. DOMAIN M = DOMAIN major
      /\ \A m \in DOMAIN major :
           M[m] = IF m = b THEN [major[m] EXCEPT !.usage = W, !.first = head] ELSE major[m]
  BY DEF WithoutMinor, FirstWithout
<1>4. \A m \in DOMAIN major :
        /\ M[m] \in MajorHeader
        /\ M[m].pages = major[m].pages /\ M[m].size = major[m].size
        /\ M[m].prev = major[m].prev /\ M[m].next = major[m].next
        /\ M[m].first = IF m = b THEN head ELSE major[m].first
        /\ M[m].usage = IF m = b THEN W ELSE major[m].usage
  <2> HIDE DEF W, head, M, b
  <2> TAKE m \in DOMAIN major
  <2>1. major[m] \in MajorHeader BY <1>1
  <2>2. CASE m = b
    <3>1. M[m] = [major[m] EXCEPT !.usage = W, !.first = head] BY <1>3, <2>2
    <3> QED BY <1>2, <2>1, <2>2, <3>1 DEF MajorHeader
  <2>3. CASE m # b BY <1>3, <2>1, <2>3
  <2> QED BY <2>2, <2>3
<1>5. N = [m \in DOMAIN minor \ {min} |->
             CASE m = h.next -> [minor[m] EXCEPT !.prev = h.prev]
               [] m = h.prev -> [minor[m] EXCEPT !.next = h.next]
               [] OTHER -> minor[m]]
  BY DEF Release
<1>6. DOMAIN N = DOMAIN minor \ {min} BY <1>5
<1>7. \A m \in DOMAIN minor \ {min} :
        /\ N[m] \in MinorHeader
        /\ N[m].size = minor[m].size /\ N[m].block = minor[m].block
        /\ N[m].req_size = minor[m].req_size
        /\ N[m].next = IF m = h.prev THEN h.next ELSE minor[m].next
        /\ N[m].prev = IF m = h.next THEN h.prev ELSE minor[m].prev
  <2> TAKE m \in DOMAIN minor \ {min}
  <2>1. minor[m] \in MinorHeader /\ m # NULL BY <1>1 DEF NULL
  <2>2. h.prev \in Nat /\ h.next \in Nat BY <1>1 DEF MinorHeader
  <2>3. h.next # NULL => h.next # h.prev OBVIOUS
  <2>4. N[m] = CASE m = h.next -> [minor[m] EXCEPT !.prev = h.prev]
                 [] m = h.prev -> [minor[m] EXCEPT !.next = h.next]
                 [] OTHER -> minor[m]
    <3> HIDE DEF N, h
    <3> QED BY <1>5
  <2> HIDE DEF N, h
  <2>5. CASE m = h.next
    <3>1. m # h.prev BY <2>1, <2>3, <2>5
    <3>2. N[m] = [minor[m] EXCEPT !.prev = h.prev] BY <2>4, <2>5, <3>1
    <3> QED BY <2>1, <2>2, <2>5, <3>1, <3>2 DEF MinorHeader
  <2>6. CASE m # h.next /\ m = h.prev
    <3>1. N[m] = [minor[m] EXCEPT !.next = h.next] BY <2>4, <2>6
    <3> QED BY <2>1, <2>2, <2>6, <3>1 DEF MinorHeader
  <2>7. CASE m # h.next /\ m # h.prev
    <3>1. N[m] = minor[m] BY <2>4, <2>7
    <3> QED BY <2>1, <2>7, <3>1
  <2> QED BY <2>5, <2>6, <2>7
<1> HIDE DEF M
<1>8. Typed(M, minor') BY <1>1, <1>3, <1>4, <1>6, <1>7 DEF Typed
<1>9. Released(major, M, minor, minor', min)
  <2>1. Unlinked(minor, minor', DOMAIN minor, min) BY <1>7 DEF Unlinked
  <2>2. \A m \in DOMAIN major :
          /\ M[m].pages = major[m].pages /\ M[m].size = major[m].size
          /\ M[m].prev = major[m].prev /\ M[m].next = major[m].next
          /\ M[m].first = IF m = minor[min].block /\ minor[min].prev = NULL
                          THEN minor[min].next ELSE major[m].first
          /\ M[m].usage = IF m = minor[min].block
                          THEN Wrap(major[m].usage - (minor[min].size + sizeof_minor))
                          ELSE major[m].usage
    BY <1>4
  <2>3. \A m \in DOMAIN minor \ {min} : minor'[m].block = minor[m].block BY <1>7
  <2>4. DOMAIN M = DOMAIN major /\ DOMAIN minor' = DOMAIN minor \ {min} BY <1>3, <1>6
  <2> QED BY <2>1, <2>2, <2>3, <2>4 DEF Released
<1>10. \A m \in DOMAIN minor' : minor'[m].req_size = minor[m].req_size BY <1>6, <1>7
<1> QED BY <1>8, <1>9, <1>10 DEF M

LEMMA ReleaseKeepsBody ==
  ASSUME HeapShape, NEW min \in DOMAIN minor, Release(min)
  PROVE  /\ Body(WithoutMinor(min), minor', l_memRoot, l_inuse', l_allocated)
         /\ Released(major, WithoutMinor(min), minor, minor', min)
         /\ \A m \in DOMAIN minor' : minor'[m].req_size = minor[m].req_size
<1> DEFINE M == WithoutMinor(min)
           maj == minor[min].block
<1>1. /\ Typed(major, minor) /\ Extents(major) /\ Ordered(major, minor)
      /\ UsageExact(major, minor) /\ Chain(major, l_memRoot)
      /\ \A m \in DOMAIN major : sizeof_major <= major[m].size
      /\ l_inuse = Cardinality(InUse(minor)) /\ l_allocated = Cardinality(Allocated(major))
  BY DEF HeapShape, Body
<1>2. minor[min].next # NULL => minor[min].next # minor[min].prev
  <2> DEFINE S == Mine(minor, maj)
             first == major[maj].first
             lo == FirstMinor(maj)
             hi == maj + major[maj].size
  <2>0. maj \in DOMAIN major BY <1>1 DEF Typed
  <2>1. ListType(minor, S) /\ first \in Nat /\ lo \in Nat /\ hi \in Nat
    BY <1>1, <2>0, ListsAreTyped
  <2>2. InOrder(minor, S, first, lo, hi) /\ min \in S BY <1>1, <2>0 DEF Ordered, ListOf, Mine
  <2> HIDE DEF S, first, lo, hi
  <2>3. /\ minor[min].next # NULL => min < minor[min].next
        /\ minor[min].prev # NULL => minor[min].prev < min
        /\ min \in Nat /\ minor[min].next \in Nat /\ minor[min].prev \in Nat
    BY <2>1, <2>2, Neighbours DEF ListType
  <2> QED BY <2>3
<1>3. /\ Typed(M, minor') /\ Released(major, M, minor, minor', min)
      /\ \A m \in DOMAIN minor' : minor'[m].req_size = minor[m].req_size
  BY <1>1, <1>2, ReleaseFields
<1> HIDE DEF M
<1>4. Ordered(M, minor') /\ Extents(M) BY <1>1, <1>3, ReleaseKeepsOrder
<1>5. UsageExact(M, minor') BY <1>1, <1>3, ReleaseKeepsUsage
<1>6. Cardinality(InUse(minor')) = Cardinality(InUse(minor)) - minor[min].size
  BY <1>1, <1>3, ReleaseCountsInUse
<1>7. l_inuse' = l_inuse - minor[min].size BY DEF Release
<1>8. /\ DOMAIN M = DOMAIN major
      /\ \A m \in DOMAIN major : /\ M[m].prev = major[m].prev /\ M[m].next = major[m].next
                                /\ M[m].size = major[m].size
  BY <1>3 DEF Released
<1>9. Chain(M, l_memRoot) BY <1>1, <1>8, ChainKept
<1>10. Allocated(M) = Allocated(major)
  <2>1. \A m \in DOMAIN major : ExtentOf(M, m) = ExtentOf(major, m) BY <1>8 DEF ExtentOf
  <2>2. ASSUME NEW x PROVE x \in Allocated(M) <=> x \in Allocated(major)
    BY <1>8, <2>1, UnionsOfBytes
  <2> QED BY <2>2
<1>11. Body(M, minor', l_memRoot, l_inuse', l_allocated)
  BY <1>1, <1>3, <1>4, <1>5, <1>6, <1>7, <1>8, <1>9, <1>10 DEF Body
<1> QED BY <1>3, <1>11 DEF M

(* The major stays: the memory manager is not called. *)
LEMMA KeepMajorKeepsShape ==
  ASSUME IInv, HeapShape, NEW min \in DOMAIN minor, Release(min),
         KeepMajor(WithoutMinor(min), minor[min].block)
  PROVE  IInv' /\ HeapShape' /\ major' = WithoutMinor(min)
<1> DEFINE M == WithoutMinor(min)
           maj == minor[min].block
<1>1. /\ Body(M, minor', l_memRoot, l_inuse', l_allocated)
      /\ Released(major, M, minor, minor', min)
  BY ReleaseKeepsBody
<1>2. /\ major' = M /\ UNCHANGED pmmVars /\ l_memRoot' = l_memRoot /\ l_allocated' = l_allocated
      /\ l_bestBet' \in {maj, l_bestBet}
  BY DEF KeepMajor, KeepPages
<1>3. IInv'
  BY <1>2 DEF pmmVars, IInv, TypeOK, NoDoubleAllocation, HeldAreMarked, BlockZeroReserved,
              OnlyUsableGiven
<1>4. Body(major, minor, l_memRoot, l_inuse, l_allocated)'
  BY <1>1, <1>2
<1> HIDE DEF M
<1>5. maj \in DOMAIN major BY DEF HeapShape, Body, Typed
<1>6. DOMAIN M = DOMAIN major /\ \A m \in DOMAIN major : PagesOf(M, m) = PagesOf(major, m)
  BY <1>1 DEF Released, PagesOf
<1>7. HeldPages'
  <2>1. held' = held BY <1>2 DEF pmmVars
  <2>2. \A b \in Bits : held[b] > 0 <=> \E m \in DOMAIN major : b \in PagesOf(major, m)
    BY DEF HeapShape, HeldPages
  <2>3. \A b \in Bits : held'[b] > 0 <=> \E m \in DOMAIN M : b \in PagesOf(M, m)
    BY <1>6, <2>1, <2>2
  <2>4. \A b \in Bits : held'[b] > 0 <=> \E m \in DOMAIN major' : b \in PagesOf(major', m)
    BY <1>2, <2>3
  <2> QED BY <2>4 DEF HeldPages
<1>8. l_bestBet' \in DOMAIN major' \cup {NULL}
  BY <1>2, <1>5, <1>6 DEF HeapShape
<1>9. HeapShape' BY <1>4, <1>7, <1>8 DEF HeapShape
<1> QED BY <1>2, <1>3, <1>9 DEF M

(* The major goes: its pages, and only they, are given back. *)
LEMMA DropMajorFields ==
  ASSUME NEW majors, NEW maj \in DOMAIN majors, DropMajor(majors, maj),
         Typed(majors, minor'), Mine(minor', maj) = {},
         majors[maj].next # NULL => majors[maj].next # majors[maj].prev
  PROVE  /\ Typed(major', minor') /\ UnlinkedMajor(majors, major', maj)
         /\ \A m \in DOMAIN major' :
              /\ major'[m].pages = majors[m].pages /\ major'[m].size = majors[m].size
              /\ major'[m].usage = majors[m].usage /\ major'[m].first = majors[m].first
<1> DEFINE prv == majors[maj].prev
           nxt == majors[maj].next
           N == major'
<1>1. /\ \A m \in DOMAIN majors : majors[m] \in MajorHeader /\ m \in Nat \ {0}
      /\ \A m \in DOMAIN minor' : /\ minor'[m] \in MinorHeader /\ m \in Nat \ {0}
                                  /\ minor'[m].block \in DOMAIN majors \ {maj}
  BY DEF Typed, Mine
<1>2. N = [m \in DOMAIN majors \ {maj} |-> MajorUnlinked(m, majors, prv, nxt)]
  BY DEF DropMajor
<1>3. DOMAIN N = DOMAIN majors \ {maj} BY <1>2
<1>4. \A m \in DOMAIN majors \ {maj} :
        /\ N[m] \in MajorHeader
        /\ N[m].pages = majors[m].pages /\ N[m].size = majors[m].size
        /\ N[m].usage = majors[m].usage /\ N[m].first = majors[m].first
        /\ N[m].next = IF m = prv THEN nxt ELSE majors[m].next
        /\ N[m].prev = IF m = nxt THEN prv ELSE majors[m].prev
  <2> TAKE m \in DOMAIN majors \ {maj}
  <2>1. majors[m] \in MajorHeader /\ m # NULL BY <1>1 DEF NULL
  <2>2. prv \in Nat /\ nxt \in Nat BY <1>1 DEF MajorHeader
  <2>3. nxt # NULL => nxt # prv OBVIOUS
  <2>4. N[m] = MajorUnlinked(m, majors, prv, nxt)
    <3> HIDE DEF N, prv, nxt
    <3> QED BY <1>2
  <2> HIDE DEF N, prv, nxt
  <2>5. CASE m = prv
    <3>1. m # nxt BY <2>1, <2>3, <2>5
    <3>2. N[m] = [majors[m] EXCEPT !.next = nxt] BY <2>4, <2>5, <3>1 DEF MajorUnlinked
    <3> QED BY <2>1, <2>2, <2>5, <3>1, <3>2 DEF MajorHeader
  <2>6. CASE m # prv /\ m = nxt
    <3>1. N[m] = [majors[m] EXCEPT !.prev = prv] BY <2>4, <2>6 DEF MajorUnlinked
    <3> QED BY <2>1, <2>2, <2>6, <3>1 DEF MajorHeader
  <2>7. CASE m # prv /\ m # nxt
    <3>1. N[m] = majors[m] BY <2>4, <2>7 DEF MajorUnlinked
    <3> QED BY <2>1, <2>7, <3>1
  <2> QED BY <2>5, <2>6, <2>7
<1>5. Typed(N, minor')
  <2> HIDE DEF N
  <2> QED BY <1>1, <1>3, <1>4 DEF Typed
<1>6. UnlinkedMajor(majors, N, maj)
  <2> HIDE DEF N
  <2> QED BY <1>3, <1>4 DEF UnlinkedMajor
<1> QED BY <1>3, <1>4, <1>5, <1>6

LEMMA GivenPagesBack ==
  ASSUME IInv, HeapShape, NEW maj \in DOMAIN major, GivePages(maj, major[maj].pages), UNCHANGED <<todo, usable>>
  PROVE  /\ IInv'
         /\ \A b \in Bits : held'[b] > 0 <=> held[b] > 0 /\ b \notin PagesOf(major, maj)
<1> DEFINE f == maj \div PMM_BLOCK_SIZE
           n == major[maj].pages
           R == PagesOf(major, maj)
<1>1. n \in Nat \ {0} /\ R \subseteq Bits /\ f \in Nat
  <2>1. maj \in Nat /\ major[maj].pages \in Nat BY DEF HeapShape, Body, Typed, MajorHeader
  <2>2. f \in Nat BY <2>1, DivType, HeapSizes
  <2>3. n # 0 /\ R \subseteq Bits BY DEF HeapShape, Body, Extents
  <2> QED BY <2>1, <2>2, <2>3
<1>2. R = Run(f, n) BY DEF PagesOf
<1>3. \A b \in R : b \in Bits /\ held[b] > 0 BY <1>1 DEF HeapShape, HeldPages
<1>4. pmm_free_pages(f, n) BY DEF GivePages
<1> HIDE DEF f, n, R
<1>5. Free(f, n) BY <1>2, <1>3, <1>4 DEF Free
<1>6. f \in Bits
  <2>1. f \in R BY <1>1, <1>2 DEF Run
  <2> QED BY <1>1, <2>1
<1>7. IInv' BY <1>1, <1>5, <1>6, FreeKeepsIInv
<1>8. ASSUME NEW b \in Bits PROVE held'[b] > 0 <=> held[b] > 0 /\ b \notin R
  <2>1. held[b] \in Nat /\ held[b] <= 1 BY DEF IInv, TypeOK, NoDoubleAllocation
  <2>2. held'[b] = IF b \in R THEN held[b] + (-1) ELSE held[b]
    BY <1>2, <1>4 DEF pmm_free_pages, Hold
  <2> QED BY <2>1, <2>2
<1> QED BY <1>7, <1>8 DEF R

LEMMA DropMajorKeepsShape ==
  ASSUME IInv, HeapShape, NEW min \in DOMAIN minor, Release(min),
         DropMajor(WithoutMinor(min), minor[min].block),
         WithoutMinor(min)[minor[min].block].first = NULL
  PROVE  IInv' /\ HeapShape'
         /\ DOMAIN major' = DOMAIN major \ {minor[min].block}
         /\ \A m \in DOMAIN major' : major'[m].first = WithoutMinor(min)[m].first
         /\ l_allocated' <= l_allocated
<1> DEFINE M == WithoutMinor(min)
           maj == minor[min].block
<1>1. /\ Body(M, minor', l_memRoot, l_inuse', l_allocated)
      /\ Released(major, M, minor, minor', min)
  BY ReleaseKeepsBody
<1>2. maj \in DOMAIN major BY DEF HeapShape, Body, Typed
<1>3. DropMajor(M, maj) /\ M[maj].first = NULL OBVIOUS
<1> HIDE DEF M, maj
<1>4. /\ Typed(M, minor') /\ Extents(M) /\ Ordered(M, minor') /\ UsageExact(M, minor')
      /\ \A m \in DOMAIN M : sizeof_major <= M[m].size
      /\ Chain(M, l_memRoot)
      /\ l_inuse' = Cardinality(InUse(minor')) /\ l_allocated = Cardinality(Allocated(M))
  BY <1>1 DEF Body
<1>5. DOMAIN M = DOMAIN major /\ M[maj].pages = major[maj].pages
      /\ \A m \in DOMAIN major : PagesOf(M, m) = PagesOf(major, m)
  BY <1>1, <1>2 DEF Released, PagesOf
<1>6. Mine(minor', maj) = {} BY <1>2, <1>3, <1>4, <1>5, NoFirstNoMinors
<1>7. M[maj].next # NULL => M[maj].next # M[maj].prev BY <1>2, <1>4, <1>5, NoCycle
<1>8. /\ Typed(major', minor') /\ UnlinkedMajor(M, major', maj)
      /\ \A m \in DOMAIN major' :
           /\ major'[m].pages = M[m].pages /\ major'[m].size = M[m].size
           /\ major'[m].usage = M[m].usage /\ major'[m].first = M[m].first
  BY <1>2, <1>3, <1>4, <1>5, <1>6, <1>7, DropMajorFields
<1>9. DOMAIN major' = DOMAIN major \ {maj} BY <1>5, <1>8 DEF UnlinkedMajor
<1>10. Extents(major') /\ Ordered(major', minor') /\ UsageExact(major', minor')
  BY <1>2, <1>4, <1>5, <1>8, <1>9, DropKeepsOrder
<1>11. Chain(major', l_memRoot')
  <2>1. l_memRoot' = IF l_memRoot = maj THEN M[maj].next ELSE l_memRoot
    BY <1>3 DEF DropMajor
  <2> QED BY <1>2, <1>4, <1>5, <1>8, <2>1, DropKeepsChain
<1>12. l_allocated' = Cardinality(Allocated(major'))
  <2>1. Cardinality(Allocated(major')) = Cardinality(Allocated(M)) - M[maj].size
    BY <1>2, <1>4, <1>5, <1>8, <1>9, DropCountsAllocated
  <2>2. l_allocated' = l_allocated - M[maj].size BY <1>3 DEF DropMajor
  <2> QED BY <1>4, <2>1, <2>2
<1>13. \A m \in DOMAIN major' : sizeof_major <= major'[m].size BY <1>4, <1>5, <1>8, <1>9
<1>14. Body(major', minor', l_memRoot', l_inuse', l_allocated')
  BY <1>4, <1>8, <1>10, <1>11, <1>12, <1>13 DEF Body
<1>15. GivePages(maj, major[maj].pages) /\ UNCHANGED <<todo, usable>> BY <1>3, <1>5 DEF DropMajor
<1>16. IInv' /\ \A b \in Bits : held'[b] > 0 <=> held[b] > 0 /\ b \notin PagesOf(major, maj)
  BY <1>2, <1>15, GivenPagesBack
<1>17. HeldPages'
  <2>1. \A m \in DOMAIN major' : PagesOf(major', m) = PagesOf(major, m)
    BY <1>5, <1>8, <1>9 DEF PagesOf
  <2>2. \A m \in DOMAIN major' : PagesOf(major, m) \cap PagesOf(major, maj) = {}
    BY <1>2, <1>9 DEF HeapShape, Body, Extents
  <2>3. \A b \in Bits : held[b] > 0 <=> \E m \in DOMAIN major : b \in PagesOf(major, m)
    BY DEF HeapShape, HeldPages
  <2>4. ASSUME NEW b \in Bits
        PROVE  held'[b] > 0 <=> \E m \in DOMAIN major' : b \in PagesOf(major', m)
    BY <1>2, <1>9, <1>16, <2>1, <2>2, <2>3
  <2> QED BY <2>4 DEF HeldPages
<1>18. l_bestBet' \in DOMAIN major' \cup {NULL}
  <2>1. l_bestBet' = IF l_bestBet = maj THEN NULL ELSE l_bestBet
    BY <1>3 DEF DropMajor, BetAfterDrop
  <2> QED BY <1>9, <2>1 DEF HeapShape
<1>19. HeapShape' BY <1>14, <1>17, <1>18 DEF HeapShape
<1>20. l_allocated' <= l_allocated
  <2>1. l_allocated' = l_allocated - M[maj].size BY <1>3 DEF DropMajor
  <2>2. M[maj].size \in Nat BY <1>2, <1>4, <1>5, ExtentsApart
  <2>3. l_allocated \in Nat BY <1>4, AllocatedIsFinite
  <2> QED BY <2>1, <2>2, <2>3
<1> QED BY <1>8, <1>9, <1>16, <1>19, <1>20 DEF M, maj

(* Every release keeps the shape, whatever becomes of the major. *)
LEMMA ReleaseKeepsShape ==
  ASSUME IInv, HeapShape, NEW min \in DOMAIN minor, Release(min),
         \A m \in DOMAIN major : major[m].first # NULL
  PROVE  /\ IInv' /\ HeapShape'
         /\ \A m \in DOMAIN major' : major'[m].first # NULL
         /\ DOMAIN minor' = DOMAIN minor \ {min}
         /\ \A m \in DOMAIN minor' : /\ minor'[m].req_size = minor[m].req_size
                                     /\ minor'[m].size = minor[m].size
<1> DEFINE M == WithoutMinor(min)
           maj == minor[min].block
<1>1. /\ Released(major, M, minor, minor', min)
      /\ \A m \in DOMAIN minor' : minor'[m].req_size = minor[m].req_size
  BY ReleaseKeepsBody
<1>2. /\ DOMAIN M = DOMAIN major
      /\ \A m \in DOMAIN major \ {maj} : M[m].first = major[m].first
  BY <1>1 DEF Released
<1>3. DOMAIN minor' = DOMAIN minor \ {min}
      /\ \A m \in DOMAIN minor' : minor'[m].size = minor[m].size
  BY <1>1 DEF Released, Unlinked
<1>4. \/ M[maj].first = NULL /\ DropMajor(M, maj)
      \/ M[maj].first # NULL /\ KeepMajor(M, maj)
  BY DEF Release, WithoutMinor
<1>5. CASE M[maj].first = NULL /\ DropMajor(M, maj)
  <2>1. /\ IInv' /\ HeapShape' /\ DOMAIN major' = DOMAIN major \ {maj}
        /\ \A m \in DOMAIN major' : major'[m].first = M[m].first
    BY <1>5, DropMajorKeepsShape
  <2> HIDE DEF M, maj
  <2> QED BY <1>1, <1>2, <1>3, <2>1
<1>6. CASE M[maj].first # NULL /\ KeepMajor(M, maj)
  <2>1. IInv' /\ HeapShape' /\ major' = M BY <1>6, KeepMajorKeepsShape
  <2> HIDE DEF M, maj
  <2> QED BY <1>1, <1>2, <1>3, <1>6, <2>1
<1> QED BY <1>4, <1>5, <1>6
-----------------------------------------------------------------------------
(* What a running call asks for is small, so nothing it computes wraps.    *)
LEMMA AskedIsSmall ==
  ASSUME NoOverflow, NEW n \in Asked
  PROVE  n \in Nat /\ n < U32 /\ Small(n + (ALIGNMENT + ALIGN_INFO))
<1>1. n \in Nat
  <2>1. CASE n \in Requests BY <2>1, HeapAssumption, HeapSizes
  <2>2. CASE n \in {o[1] * o[2] : o \in Objects}
    <3>1. PICK o \in Objects : n = o[1] * o[2] BY <2>2
    <3>2. o[1] \in Nat /\ o[2] \in Nat BY HeapAssumption, HeapSizes
    <3> QED BY <3>1, <3>2
  <2> QED BY <2>1, <2>2 DEF Asked
<1>2. n + ALIGNMENT + ALIGN_INFO + sizeof_major + sizeof_minor < U32 BY DEF NoOverflow
<1> QED BY <1>1, <1>2, HeapSizes DEF Small

LEMMA CallIsSmall ==
  ASSUME NoOverflow, CallOK, call # Idle
  PROVE  /\ call \in Calls /\ call.asked \in Asked /\ call.req = call.asked
         /\ call.size \in Nat /\ call.req \in Nat /\ Small(call.size)
         /\ call.size = call.req + (ALIGNMENT + ALIGN_INFO)
         /\ Needed = call.size + sizeof_minor
<1>1. /\ call \in Calls /\ call.asked \in Asked /\ call.req = call.asked
      /\ call.size = call.asked + (ALIGNMENT + ALIGN_INFO)
  BY DEF CallOK
<1>2. call.req \in Nat /\ Small(call.size) BY <1>1, AskedIsSmall
<1>3. call.size + sizeof_minor \in Nat /\ call.size + sizeof_minor < U32
  BY <1>2, HeapSizes DEF Small
<1>4. Needed = call.size + sizeof_minor BY <1>3, WrapSmall DEF Needed
<1> QED BY <1>1, <1>2, <1>4 DEF Small

LEMMA RoomIs ==
  ASSUME HeapShape, NEW maj \in DOMAIN major
  PROVE  /\ major[maj].usage \in Nat /\ major[maj].size \in Nat
         /\ Room(maj) = major[maj].size - major[maj].usage /\ Room(maj) \in Nat
<1>1. /\ Typed(major, minor) /\ Extents(major) /\ Ordered(major, minor)
      /\ UsageExact(major, minor) /\ sizeof_major <= major[maj].size
  BY DEF HeapShape, Body
<1>2. maj \in Nat \ {0} /\ major[maj].size \in Nat \ {0} /\ maj + major[maj].size <= U32
  BY <1>1, ExtentsApart
<1>3. major[maj].usage \in Nat /\ major[maj].usage <= major[maj].size
  <2>1. major[maj].usage = Cardinality(Used(minor, maj)) BY <1>1 DEF UsageExact
  <2> QED BY <1>1, <2>1, UsedIsInside
<1>4. major[maj].size - major[maj].usage \in Nat /\ major[maj].size - major[maj].usage < U32
  BY <1>2, <1>3, HeapSizes
<1> QED BY <1>2, <1>3, <1>4, WrapSmall DEF Room

(* The major a search added has room, so the search ends there. *)
LEMMA EmptyMajorHasRoom ==
  ASSUME NoOverflow, HeapShape, CallOK, NoEmptyMajor, call # Idle,
         NEW maj \in DOMAIN major, major[maj].first = NULL
  PROVE  call.pc = "major" /\ maj = call.maj /\ Room(maj) >= Needed
<1>1. /\ call.pc = "major" /\ maj = call.maj
      /\ sizeof_major + sizeof_minor + call.size <= major[maj].size
  BY DEF NoEmptyMajor
<1>2. Mine(minor, maj) = {} BY NoFirstNoMinors DEF HeapShape, Body
<1>3. major[maj].usage = sizeof_major
  <2>1. major[maj].usage = Cardinality(Used(minor, maj)) BY DEF HeapShape, Body, UsageExact
  <2>2. Used(minor, maj) = maj .. maj + sizeof_major - 1
    <3>1. ASSUME NEW x PROVE x \in Used(minor, maj) <=> x \in maj .. FirstMinor(maj) - 1
      BY <1>2, UnionsOfBytes
    <3>2. maj \in Nat BY DEF HeapShape, Body, Typed
    <3>3. FirstMinor(maj) - 1 = maj + sizeof_major - 1 BY <3>2, HeapSizes DEF FirstMinor
    <3> QED BY <3>1, <3>3
  <2>3. maj \in Nat BY DEF HeapShape, Body, Typed
  <2> QED BY <2>1, <2>2, <2>3, CountInterval, HeapSizes
<1> QED BY <1>1, <1>3, RoomIs, CallIsSmall, HeapSizes

(* The bytes behind a pointer lie inside its minor. *)
LEMMA PointerInside ==
  ASSUME NEW majors, NEW minors, Typed(majors, minors), Extents(majors), Ordered(majors, minors),
         NEW m \in DOMAIN minors, NEW p, p = ALIGN(m + sizeof_minor),
         NEW asked \in Nat, asked + (ALIGNMENT + ALIGN_INFO) <= minors[m].size
  PROVE  /\ p \in Nat \ {0} /\ p % ALIGNMENT = 0
         /\ m + sizeof_minor <= p /\ p - (m + sizeof_minor) \in Nat
         /\ p - (m + sizeof_minor) < ALIGNMENT + ALIGN_INFO
         /\ p + asked <= Ends(minors, m) /\ p < Ends(minors, m)
         /\ p < U32
<1>1. /\ m \in Nat \ {0} /\ minors[m].size \in Nat /\ Ends(minors, m) \in Nat
      /\ Ends(minors, m) = m + sizeof_minor + minors[m].size /\ Ends(minors, m) <= U32
  BY MinorsApart
<1>2. m + sizeof_minor \in Nat BY <1>1, HeapSizes
<1>3. /\ p \in Nat /\ m + sizeof_minor + ALIGN_INFO <= p
      /\ p < m + sizeof_minor + (ALIGNMENT + ALIGN_INFO) /\ p % ALIGNMENT = 0
  BY <1>2, AlignMoves
<1> DEFINE base == m + sizeof_minor
           extra == ALIGNMENT + ALIGN_INFO
<1>4. base \in Nat \ {0} /\ extra \in Nat \ {0} /\ ALIGN_INFO \in Nat BY <1>1, HeapSizes
<1>5. base <= p /\ p < base + extra BY <1>2, <1>3, HeapSizes
<1>6. Ends(minors, m) = base + minors[m].size /\ asked + extra <= minors[m].size BY <1>1
<1> HIDE DEF base, extra
<1>7. /\ p \in Nat \ {0} /\ p - base \in Nat /\ p - base < extra
      /\ p + asked <= Ends(minors, m) /\ p < Ends(minors, m) /\ p < U32
  BY <1>1, <1>3, <1>4, <1>5, <1>6, HeapSizes
<1> QED BY <1>3, <1>5, <1>7 DEF base, extra

(* So two minors have different pointers. *)
LEMMA PointersApart ==
  ASSUME NEW majors, NEW minors, Typed(majors, minors), Extents(majors), Ordered(majors, minors),
         \A m \in DOMAIN minors : minors[m].req_size \in Nat
           /\ minors[m].req_size + (ALIGNMENT + ALIGN_INFO) <= minors[m].size,
         NEW m \in DOMAIN minors, NEW k \in DOMAIN minors \ {m}
  PROVE  ALIGN(m + sizeof_minor) # ALIGN(k + sizeof_minor)
<1> DEFINE p == ALIGN(m + sizeof_minor)
           q == ALIGN(k + sizeof_minor)
<1>1. p \in Nat /\ m + sizeof_minor <= p /\ p < Ends(minors, m) BY PointerInside
<1>2. q \in Nat /\ k + sizeof_minor <= q /\ q < Ends(minors, k) BY PointerInside
<1> HIDE DEF p, q
<1>3. Ends(minors, m) <= k \/ Ends(minors, k) <= m BY MinorsApart
<1>4. m \in Nat /\ k \in Nat /\ Ends(minors, m) \in Nat /\ Ends(minors, k) \in Nat BY MinorsApart
<1>5. p # q BY <1>1, <1>2, <1>3, <1>4, HeapSizes
<1> QED BY <1>5 DEF p, q
-----------------------------------------------------------------------------
(* kmalloc returns the pointer of a minor that was just placed. *)
LEMMA PlacedPointer ==
  ASSUME NoOverflow, CallOK, call # Idle, call.pc # "free_old", GivenOK,
         Typed(major', minor'), Extents(major'), Ordered(major', minor'),
         NEW at \in Nat, at \notin DOMAIN minor, DOMAIN minor' = DOMAIN minor \cup {at},
         minor'[at].size = call.size, minor'[at].req_size = call.req,
         \A m \in DOMAIN minor : /\ minor'[m].req_size = minor[m].req_size
                                 /\ minor'[m].size = minor[m].size,
         Return(ALIGN(at + sizeof_minor), at + sizeof_minor)
  PROVE  CallOK' /\ GivenOK' /\ GivesOne
<1> DEFINE base == at + sizeof_minor
           ptr == ALIGN(base)
           offset == ptr - base
<1>1. /\ call \in Calls /\ call.asked \in Asked /\ call.req = call.asked
      /\ call.size = call.req + (ALIGNMENT + ALIGN_INFO) /\ call.req \in Nat
  BY CallIsSmall
<1>2. \A m \in DOMAIN minor' : minor'[m].req_size \in Nat
        /\ minor'[m].req_size + (ALIGNMENT + ALIGN_INFO) <= minor'[m].size
  <2> TAKE m \in DOMAIN minor'
  <2>1. minor'[m].req_size \in Nat BY DEF Typed, MinorHeader
  <2>2. CASE m = at
    <3>1. call.size \in Nat /\ call.req + (ALIGNMENT + ALIGN_INFO) <= call.size
      BY <1>1, HeapSizes
    <3> QED BY <2>1, <2>2, <3>1
  <2>3. CASE m \in DOMAIN minor BY <2>1, <2>3 DEF GivenOK
  <2> QED BY <2>2, <2>3
<1>3. /\ ptr \in Nat \ {0} /\ offset \in Nat /\ HeaderOf(ptr, offset) = at
  <2>1. ptr \in Nat \ {0} /\ offset \in Nat
    <3>1. at \in DOMAIN minor' OBVIOUS
    <3> QED BY <1>2, <3>1, PointerInside
  <2> HIDE DEF ptr
  <2> QED BY <2>1, HeapSizes DEF HeaderOf
<1>4. Behind(minor', ptr, offset, call.asked) BY <1>1, <1>3 DEF Behind
<1>5. \A p \in DOMAIN given :
        /\ given[p] \in Pointer
        /\ Behind(minor', p, given[p].offset, given[p].asked)
        /\ HeaderOf(p, given[p].offset) \in DOMAIN minor
        /\ p = ALIGN(HeaderOf(p, given[p].offset) + sizeof_minor)
  BY DEF GivenOK, Behind
<1>6. ptr \notin DOMAIN given
  <2> SUFFICES ASSUME ptr \in DOMAIN given PROVE FALSE OBVIOUS
  <2> DEFINE k == HeaderOf(ptr, given[ptr].offset)
  <2>1. k \in DOMAIN minor /\ ptr = ALIGN(k + sizeof_minor) BY <1>5
  <2>2. k \in DOMAIN minor' \ {at} BY <2>1
  <2> HIDE DEF k
  <2> QED BY <1>2, <2>1, <2>2, PointersApart
<1>7. \A m \in DOMAIN minor : \E p \in DOMAIN given : m = HeaderOf(p, given[p].offset)
  BY DEF GivenOK, InFlight
<1>8. Return(ptr, base) /\ ptr # NULL BY <1>3 DEF NULL
<1> HIDE DEF ptr, offset
<1>9. CASE call.old # NULL
  <2>1. call' = [call EXCEPT !.pc = "free_old", !.ptr = ptr, !.offset = offset] /\ given' = given
    BY <1>8, <1>9 DEF Return, offset
  <2>2. /\ call' \in Calls /\ call'.pc = "free_old" /\ call'.ptr = ptr /\ call'.offset = offset
        /\ call'.asked = call.asked /\ call'.req = call.req /\ call'.size = call.size
        /\ call'.old = call.old
    BY <1>1, <1>3, <2>1 DEF Calls
  <2>3. CallOK'
    <3>1. call.old \in DOMAIN given /\ given[call.old].asked < call.asked
      <4>1. call.pc # "idle" BY <1>1 DEF Calls
      <4> QED BY <1>9, <4>1 DEF CallOK, Idle
    <3> QED BY <1>1, <1>9, <2>1, <2>2, <3>1 DEF CallOK
  <2>4. GivenOK'
    <3>1. InFlight' BY <1>3, <2>2 DEF InFlight, NULL
    <3>2. \A m \in DOMAIN minor' : minor'[m].req_size + (ALIGNMENT + ALIGN_INFO) <= minor'[m].size
      BY <1>2
    <3>3. \A m \in DOMAIN minor' :
            \/ \E p \in DOMAIN given : m = HeaderOf(p, given[p].offset)
            \/ m = HeaderOf(call'.ptr, call'.offset)
      BY <1>3, <1>7, <2>2
    <3> QED BY <1>4, <1>5, <1>6, <2>1, <2>2, <3>1, <3>2, <3>3 DEF GivenOK
  <2> QED BY <2>1, <2>3, <2>4 DEF GivesOne
<1>10. CASE call.old = NULL
  <2> DEFINE D == DOMAIN given \cup {ptr}
  <2>1. /\ call' = Idle
        /\ given' = [p \in D |-> IF p = ptr THEN [asked |-> call.asked, offset |-> offset]
                                 ELSE given[p]]
    BY <1>8, <1>10 DEF Return, offset
  <2>2. /\ DOMAIN given' = D
        /\ given'[ptr].asked = call.asked /\ given'[ptr].offset = offset
        /\ given'[ptr] \in Pointer
        /\ \A p \in DOMAIN given : given'[p] = given[p]
    BY <1>1, <1>3, <1>6, <2>1 DEF Pointer
  <2>3. CallOK' BY <2>1 DEF CallOK
  <2>4. GivenOK'
    <3>1. ~InFlight' BY <2>1 DEF InFlight, Idle
    <3>2. \A m \in DOMAIN minor' : minor'[m].req_size + (ALIGNMENT + ALIGN_INFO) <= minor'[m].size
      BY <1>2
    <3>3. \A m \in DOMAIN minor' : \E p \in DOMAIN given' : m = HeaderOf(p, given'[p].offset)
      BY <1>3, <1>7, <2>2
    <3>4. \A p \in DOMAIN given' : given'[p] \in Pointer
             /\ Behind(minor', p, given'[p].offset, given'[p].asked)
      BY <1>1, <1>4, <1>5, <2>2
    <3> QED BY <3>1, <3>2, <3>3, <3>4 DEF GivenOK
  <2>5. GivesOne BY <1>6, <2>2 DEF GivesOne
  <2> QED BY <2>3, <2>4, <2>5
<1> QED BY <1>9, <1>10

LEMMA PlaceKeepsHInv ==
  ASSUME NoOverflow, CallOK, call # Idle, call.pc # "free_old", GivenOK, NEW majors,
         Body(majors, minor, l_memRoot', l_inuse, l_allocated'), NEW maj \in DOMAIN majors,
         \A m \in DOMAIN majors \ {maj} : majors[m].first # NULL,
         \A b \in Bits : held'[b] > 0 <=> \E m \in DOMAIN majors : b \in PagesOf(majors, m),
         l_bestBet' \in DOMAIN majors \cup {NULL},
         NEW at \in Nat \ {0}, NEW prv \in Nat, NEW nxt \in Nat,
         GapOf(majors, minor, maj, at, call.size, prv, nxt),
         Place(majors, maj, at, prv, nxt)
  PROVE  HeapShape' /\ CallOK' /\ NoEmptyMajor' /\ GivenOK' /\ GivesOne
<1>1. call.size \in Nat /\ call.req \in Nat BY CallIsSmall
<1>2. /\ Body(major', minor', l_memRoot', l_inuse', l_allocated')
      /\ Placed(majors, major', minor, minor', maj, at, call.size, prv, nxt)
      /\ at \notin DOMAIN minor
      /\ minor'[at].req_size = call.req
      /\ \A m \in DOMAIN minor : minor'[m].req_size = minor[m].req_size
      /\ Return(ALIGN(at + sizeof_minor), at + sizeof_minor)
  BY <1>1, PlaceKeepsBody
<1>3. /\ DOMAIN major' = DOMAIN majors
      /\ \A m \in DOMAIN majors :
           /\ PagesOf(major', m) = PagesOf(majors, m)
           /\ major'[m].first = IF m = maj /\ prv = NULL THEN at ELSE majors[m].first
      /\ DOMAIN minor' = DOMAIN minor \cup {at}
      /\ minor'[at].size = call.size
      /\ \A m \in DOMAIN minor : minor'[m].size = minor[m].size
  BY <1>2 DEF Placed, LinkedIn, PagesOf
<1>4. HeldPages' BY <1>3 DEF HeldPages
<1>5. HeapShape' BY <1>2, <1>3, <1>4 DEF HeapShape
<1>6. \A m \in DOMAIN major' : major'[m].first # NULL
  <2>1. prv # NULL => majors[maj].first # NULL
    <3>1. prv # NULL => prv \in Mine(minor, maj) BY DEF GapOf, Gap_
    <3>2. majors[maj].first = NULL <=> Mine(minor, maj) = {} BY NoFirstNoMinors DEF Body
    <3> QED BY <3>1, <3>2
  <2> QED BY <1>3, <2>1 DEF NULL
<1>7. NoEmptyMajor' BY <1>6 DEF NoEmptyMajor
<1>8. Typed(major', minor') /\ Extents(major') /\ Ordered(major', minor') BY <1>2 DEF Body
<1>9. CallOK' /\ GivenOK' /\ GivesOne BY <1>1, <1>2, <1>3, <1>8, PlacedPointer
<1> QED BY <1>5, <1>7, <1>9
-----------------------------------------------------------------------------
(* What stays true when a step leaves parts of the state alone. *)
LEMMA SamePmm == IInv /\ UNCHANGED pmmVars => IInv'
BY DEF pmmVars, IInv, TypeOK, NoDoubleAllocation, HeldAreMarked, BlockZeroReserved,
       OnlyUsableGiven

LEMMA SameShape ==
  ASSUME HeapShape, UNCHANGED <<held, l_memRoot, l_allocated, l_inuse, major, minor>>,
         l_bestBet' \in DOMAIN major \cup {NULL}
  PROVE  HeapShape'
<1>1. Body(major, minor, l_memRoot, l_inuse, l_allocated) BY DEF HeapShape
<1>2. Body(major', minor', l_memRoot', l_inuse', l_allocated') BY <1>1
<1>3. HeldPages' BY DEF HeapShape, HeldPages
<1>4. DOMAIN major' = DOMAIN major OBVIOUS
<1> QED BY <1>2, <1>3, <1>4 DEF HeapShape

(* A call that moves on without touching the heap. *)
LEMMA MovesOn ==
  ASSUME HInv, call # Idle, call.pc # "free_old",
         UNCHANGED <<pmmVars, l_memRoot, l_allocated, l_inuse, major, minor, given>>,
         l_bestBet' \in DOMAIN major \cup {NULL},
         NEW pc \in {"start", "major", "minor"}, NEW maj \in Nat, NEW min \in Nat,
         NEW bet \in BOOLEAN, NEW best \in Nat,
         call' = [call EXCEPT !.pc = pc, !.maj = maj, !.min = min, !.startedBet = bet,
                              !.bestSize = best],
         pc \in {"major", "minor"} => maj \in DOMAIN major,
         pc = "minor" => min \in Mine(minor, maj),
         \A m \in DOMAIN major : major[m].first = NULL => pc = "major" /\ m = maj
           /\ sizeof_major + sizeof_minor + call.size <= major[m].size
  PROVE  HInv' /\ GivesOne
<1>1. /\ call \in Calls /\ call.asked \in Asked /\ call.req = call.asked
      /\ call.size = call.asked + (ALIGNMENT + ALIGN_INFO)
      /\ call.old # NULL => call.old \in DOMAIN given /\ given[call.old].asked < call.asked
  BY DEF HInv, CallOK
<1>2. /\ call' \in Calls /\ call'.pc = pc /\ call'.maj = maj /\ call'.min = min
      /\ call'.asked = call.asked /\ call'.req = call.req /\ call'.size = call.size
      /\ call'.old = call.old
  BY <1>1 DEF Calls
<1>3. CallOK' BY <1>1, <1>2 DEF CallOK
<1>4. NoEmptyMajor' BY <1>2 DEF NoEmptyMajor
<1>5. GivenOK'
  <2>1. ~InFlight /\ ~InFlight' BY <1>2 DEF InFlight
  <2>2. minor' = minor /\ given' = given OBVIOUS
  <2> QED BY <2>1, <2>2 DEF HInv, GivenOK
<1>6. IInv' BY SamePmm DEF HInv
<1>7. HeapShape'
  <2>1. held' = held BY DEF pmmVars
  <2> QED BY <2>1, SameShape DEF HInv
<1> QED BY <1>3, <1>4, <1>5, <1>6, <1>7 DEF HInv, GivesOne

(* kmalloc gives up: nothing but the call changes. *)
LEMMA ReturnNullKeepsHInv ==
  ASSUME HInv, call # Idle, call.pc # "free_old", ReturnNull,
         l_bestBet' \in DOMAIN major \cup {NULL},
         \A m \in DOMAIN major : major[m].first # NULL
  PROVE  HInv' /\ GivesOne
<1>1. /\ Return(NULL, NULL)
      /\ UNCHANGED <<pmmVars, l_memRoot, l_allocated, l_inuse, major, minor>>
  BY DEF ReturnNull
<1>2. IInv' BY <1>1, SamePmm DEF HInv
<1>3. HeapShape'
  <2>1. held' = held BY <1>1 DEF pmmVars
  <2> QED BY <1>1, <2>1, SameShape DEF HInv
<1>4. NoEmptyMajor' BY <1>1 DEF NoEmptyMajor
<1>5. given' = given BY <1>1 DEF Return
<1>6. ~InFlight BY DEF InFlight
<1>7. CASE call.old # NULL
  <2>1. call' = [call EXCEPT !.pc = "free_old", !.ptr = NULL, !.offset = NULL - NULL]
    BY <1>1, <1>7 DEF Return
  <2>2. call' = [call EXCEPT !.pc = "free_old", !.ptr = 0, !.offset = 0] BY <2>1 DEF NULL
  <2>3. /\ call \in Calls /\ call.asked \in Asked /\ call.req = call.asked
        /\ call.size = call.asked + (ALIGNMENT + ALIGN_INFO)
        /\ call.old # NULL => call.old \in DOMAIN given /\ given[call.old].asked < call.asked
    BY DEF HInv, CallOK
  <2>4. /\ call' \in Calls /\ call'.pc = "free_old" /\ call'.ptr = NULL
        /\ call'.asked = call.asked /\ call'.req = call.req /\ call'.size = call.size
        /\ call'.old = call.old
    BY <2>2, <2>3 DEF Calls, NULL
  <2>5. CallOK' BY <1>5, <1>7, <2>3, <2>4 DEF CallOK
  <2>6. ~InFlight' BY <2>4 DEF InFlight
  <2>7. GivenOK' BY <1>1, <1>5, <1>6, <2>6 DEF HInv, GivenOK
  <2> QED BY <1>2, <1>3, <1>4, <1>5, <2>5, <2>7 DEF HInv, GivesOne
<1>8. CASE call.old = NULL
  <2>1. call' = Idle BY <1>1, <1>8 DEF Return
  <2>2. CallOK' BY <2>1 DEF CallOK
  <2>3. ~InFlight' BY <2>1 DEF InFlight, Idle
  <2>4. GivenOK' BY <1>1, <1>5, <1>6, <2>3 DEF HInv, GivenOK
  <2> QED BY <1>2, <1>3, <1>4, <1>5, <2>2, <2>4 DEF HInv, GivesOne
<1> QED BY <1>7, <1>8
-----------------------------------------------------------------------------
(* One lemma per action. *)
LEMMA InitHInv == HeapInit => HInv
<1> SUFFICES ASSUME HeapInit PROVE HInv OBVIOUS
<1>1. IInv BY InitIInv DEF HeapInit
<1>2. /\ DOMAIN major = {} /\ DOMAIN minor = {} /\ DOMAIN given = {} /\ call = Idle
      /\ l_memRoot = NULL /\ l_bestBet = NULL /\ l_allocated = 0 /\ l_inuse = 0
      /\ held = [b \in Bits |-> 0]
  BY DEF HeapInit, Init
<1>3. Typed(major, minor) /\ Extents(major) /\ Ordered(major, minor) /\ UsageExact(major, minor)
  BY <1>2 DEF Typed, Extents, Ordered, UsageExact
<1>4. Chain(major, l_memRoot)
  <2>1. \A S \in SUBSET DOMAIN major : S = DOMAIN major BY <1>2
  <2> QED BY <1>2, <2>1 DEF Chain
<1>5. l_inuse = Cardinality(InUse(minor)) /\ l_allocated = Cardinality(Allocated(major))
  <2>1. InUse(minor) = {}
    <3>1. ASSUME NEW x PROVE x \notin InUse(minor) BY <1>2, UnionsOfBytes
    <3> QED BY <3>1
  <2>2. Allocated(major) = {}
    <3>1. ASSUME NEW x PROVE x \notin Allocated(major) BY <1>2, UnionsOfBytes
    <3> QED BY <3>1
  <2> QED BY <1>2, <2>1, <2>2, FS_EmptySet
<1>6. HeldPages BY <1>2 DEF HeldPages
<1>7. HeapShape BY <1>2, <1>3, <1>4, <1>5, <1>6 DEF HeapShape, Body
<1>8. CallOK BY <1>2 DEF CallOK
<1>9. NoEmptyMajor BY <1>2 DEF NoEmptyMajor
<1>10. GivenOK
  <2>1. ~InFlight BY <1>2 DEF InFlight, Idle
  <2> QED BY <1>2, <2>1 DEF GivenOK
<1> QED BY <1>1, <1>7, <1>8, <1>9, <1>10 DEF HInv

LEMMA RegionKeepsHInv ==
  ASSUME HInv, NEW r \in Regions, Region(r)
  PROVE  HInv'
<1>1. IInv' BY RegionKeepsIInv DEF HInv, Region
<1>2. held' = held
  BY DEF Region, PassRegion, pmm_init_region, pmm_deinit_region
<1>3. UNCHANGED heapVars BY DEF Region
<1>4. HeapShape' BY <1>2, <1>3, SameShape DEF HInv, HeapShape, heapVars
<1>5. CallOK' BY <1>3 DEF HInv, CallOK, heapVars
<1>6. NoEmptyMajor' BY <1>3 DEF HInv, NoEmptyMajor, heapVars
<1>7. GivenOK' BY <1>3 DEF HInv, GivenOK, InFlight, heapVars
<1> QED BY <1>1, <1>4, <1>5, <1>6, <1>7 DEF HInv

LEMMA StutterKeepsHInv == HInv /\ UNCHANGED vars => HInv'
<1> SUFFICES ASSUME HInv, UNCHANGED vars PROVE HInv' OBVIOUS
<1>1. UNCHANGED pmmVars /\ UNCHANGED heapVars BY DEF vars
<1>2. IInv' BY <1>1, SamePmm DEF HInv
<1>3. held' = held BY <1>1 DEF pmmVars
<1>4. HeapShape' BY <1>1, <1>3, SameShape DEF HInv, HeapShape, heapVars
<1>5. CallOK' BY <1>1 DEF HInv, CallOK, heapVars
<1>6. NoEmptyMajor' BY <1>1 DEF HInv, NoEmptyMajor, heapVars
<1>7. GivenOK' BY <1>1 DEF HInv, GivenOK, InFlight, heapVars
<1> QED BY <1>2, <1>4, <1>5, <1>6, <1>7 DEF HInv

(* kmalloc, kcalloc and krealloc begin. *)
LEMMA BeginKeepsHInv ==
  ASSUME NoOverflow, HInv, NEW asked \in Asked, NEW old \in Nat,
         old # NULL => old \in DOMAIN given /\ given[old].asked < asked,
         Begin(asked, asked, old)
  PROVE  HInv'
<1> DEFINE size == Wrap(asked + ALIGNMENT + ALIGN_INFO)
<1>1. asked \in Nat /\ size = asked + (ALIGNMENT + ALIGN_INFO) /\ size \in Nat \ {0}
  <2>1. asked \in Nat /\ Small(asked + (ALIGNMENT + ALIGN_INFO)) BY AskedIsSmall
  <2>2. asked + ALIGNMENT + ALIGN_INFO \in Nat /\ asked + ALIGNMENT + ALIGN_INFO < U32
        /\ asked + ALIGNMENT + ALIGN_INFO = asked + (ALIGNMENT + ALIGN_INFO)
        /\ asked + ALIGNMENT + ALIGN_INFO # 0
    BY <2>1, HeapSizes DEF Small
  <2> QED BY <2>1, <2>2, WrapSmall
<1>2. /\ call = Idle
      /\ UNCHANGED <<pmmVars, l_memRoot, l_bestBet, l_allocated, l_inuse, major, minor, given>>
  BY DEF Begin
<1>3. call' = [pc |-> "start", req |-> asked, size |-> size, asked |-> asked,
               old |-> old, maj |-> NULL, min |-> NULL, startedBet |-> FALSE,
               bestSize |-> 0, ptr |-> NULL, offset |-> 0]
  BY <1>1 DEF Begin
<1> HIDE DEF size
<1>4. /\ call' \in Calls /\ call'.pc = "start" /\ call'.asked = asked /\ call'.req = asked
      /\ call'.size = size /\ call'.old = old
  BY <1>1, <1>3 DEF Calls, NULL
<1>5. CallOK' BY <1>1, <1>2, <1>4 DEF CallOK
<1>6. NoEmptyMajor' BY <1>2 DEF HInv, NoEmptyMajor, Idle
<1>7. GivenOK'
  <2>1. ~InFlight /\ ~InFlight' BY <1>2, <1>4 DEF InFlight, Idle
  <2> QED BY <1>2, <2>1 DEF HInv, GivenOK
<1>8. IInv' BY <1>2, SamePmm DEF HInv
<1>9. HeapShape'
  <2>1. held' = held BY <1>2 DEF pmmVars
  <2> QED BY <1>2, <2>1, SameShape DEF HInv, HeapShape
<1> QED BY <1>5, <1>6, <1>7, <1>8, <1>9 DEF HInv

(* The root is a major if there is one. *)
LEMMA RootIsMajor ==
  ASSUME HeapShape
  PROVE  /\ l_memRoot = NULL <=> DOMAIN major = {}
         /\ l_memRoot # NULL => l_memRoot \in DOMAIN major
         /\ NULL \notin DOMAIN major
         /\ \A m \in DOMAIN major :
              /\ m \in Nat \ {0} /\ major[m].first \in Nat
              /\ major[m].next # NULL => major[m].next \in DOMAIN major
<1>1. Chain(major, l_memRoot) /\ Typed(major, minor) BY DEF HeapShape, Body
<1>2. l_memRoot = NULL => DOMAIN major = {}
  <2>1. l_memRoot = NULL => ClosedFrom(major, l_memRoot, {}) BY DEF ClosedFrom
  <2> QED BY <1>1, <2>1 DEF Chain
<1>3. \A m \in DOMAIN major : m \in Nat \ {0} /\ major[m].first \in Nat
  BY <1>1 DEF Typed, MajorHeader
<1> QED BY <1>1, <1>2, <1>3 DEF Chain

(* The search goes on in a new major. *)
LEMMA SearchesNewMajor ==
  ASSUME NoOverflow, HInv, call # Idle, call.pc # "free_old", NEW after \in Nat, TakePages,
         IF after = NULL THEN l_memRoot = NULL
         ELSE after \in DOMAIN major /\ major[after].next = NULL,
         \A m \in DOMAIN major : major[m].first # NULL,
         l_memRoot' = IF after = NULL THEN NewMajor ELSE l_memRoot,
         major' = WithNewMajor(NewMajor, after),
         UNCHANGED <<l_bestBet, l_inuse, minor, given>>,
         NEW bet \in BOOLEAN, NEW best \in Nat,
         call' = [call EXCEPT !.pc = "major", !.maj = NewMajor, !.startedBet = bet,
                              !.bestSize = best]
  PROVE  HInv' /\ GivesOne
<1> DEFINE at == NewMajor
           M == WithNewMajor(at, after)
<1>1. /\ call \in Calls /\ call.asked \in Asked /\ call.req = call.asked
      /\ call.size = call.asked + (ALIGNMENT + ALIGN_INFO) /\ Small(call.size)
      /\ call.old # NULL => call.old \in DOMAIN given /\ given[call.old].asked < call.asked
  BY CallIsSmall DEF HInv, CallOK
<1>2. IInv' /\ at \in Nat \ {0} BY <1>1, TakenPagesAreNew DEF HInv
<1>3. /\ Body(M, minor, IF after = NULL THEN at ELSE l_memRoot, l_inuse, l_allocated')
      /\ sizeof_major + sizeof_minor + call.size <= M[at].size
      /\ at \notin DOMAIN major /\ Added(major, M, at)
      /\ \A b \in Bits : held'[b] > 0 <=> \E m \in DOMAIN M : b \in PagesOf(M, m)
  BY <1>1, NewMajorKeepsBody DEF HInv
<1>4. major' = M OBVIOUS
<1>5. l_memRoot' = IF after = NULL THEN at ELSE l_memRoot OBVIOUS
<1>6. call' = [call EXCEPT !.pc = "major", !.maj = at, !.startedBet = bet, !.bestSize = best]
  OBVIOUS
<1> HIDE DEF at, M
<1>7. HeapShape'
  <2>1. Body(major', minor', l_memRoot', l_inuse', l_allocated') BY <1>3, <1>4, <1>5
  <2>2. HeldPages' BY <1>3, <1>4 DEF HeldPages
  <2>3. l_bestBet' \in DOMAIN major' \cup {NULL}
    BY <1>3, <1>4 DEF HInv, HeapShape, Added
  <2> QED BY <2>1, <2>2, <2>3 DEF HeapShape
<1>8. /\ call' \in Calls /\ call'.pc = "major" /\ call'.maj = at
      /\ call'.asked = call.asked /\ call'.req = call.req /\ call'.size = call.size
      /\ call'.old = call.old
  <2>1. "major" \in {"start", "major", "minor", "free_old"} OBVIOUS
  <2>2. /\ call' = [call EXCEPT !.pc = "major", !.maj = at, !.startedBet = bet, !.bestSize = best]
        /\ call \in Calls /\ at \in Nat
    BY <1>1, <1>2, <1>6
  <2>3. call' = [pc |-> "major", req |-> call.req, size |-> call.size, asked |-> call.asked,
                 old |-> call.old, maj |-> at, min |-> call.min, startedBet |-> bet,
                 bestSize |-> best, ptr |-> call.ptr, offset |-> call.offset]
    BY <2>2 DEF Calls
  <2>4. /\ call.req \in Nat /\ call.size \in Nat /\ call.asked \in Nat /\ call.old \in Nat
        /\ call.min \in Nat /\ call.ptr \in Nat /\ call.offset \in Nat
    BY <2>2 DEF Calls
  <2>5. /\ call'.pc = "major" /\ call'.maj = at /\ call'.asked = call.asked
        /\ call'.req = call.req /\ call'.size = call.size /\ call'.old = call.old
    BY ONLY <2>3
  <2>6. at \in Nat BY <2>2
  <2>7. call' \in Calls BY <2>1, <2>3, <2>4, <2>6 DEF Calls
  <2> QED BY <2>5, <2>7
<1>9. DOMAIN major' = DOMAIN major \cup {at}
      /\ \A m \in DOMAIN major : major'[m].first = major[m].first
  BY <1>3, <1>4 DEF Added
<1>10. CallOK' BY <1>1, <1>8, <1>9 DEF CallOK
<1>11. NoEmptyMajor' BY <1>3, <1>4, <1>8, <1>9 DEF NoEmptyMajor
<1>12. GivenOK'
  <2>1. ~InFlight /\ ~InFlight' BY <1>8 DEF InFlight
  <2> QED BY <2>1 DEF HInv, GivenOK
<1> QED BY <1>2, <1>7, <1>10, <1>11, <1>12 DEF HInv, GivesOne

(* A call has its own majors in order before it searches. *)
LEMMA NoneEmpty ==
  ASSUME HInv, call.pc # "major"
  PROVE  \A m \in DOMAIN major : major[m].first # NULL
BY DEF HInv, NoEmptyMajor

LEMMA StartKeepsHInv ==
  ASSUME NoOverflow, HInv, Start
  PROVE  HInv' /\ GivesOne
<1>1. call.pc = "start" /\ call # Idle BY DEF Start, Idle
<1>2. \A m \in DOMAIN major : major[m].first # NULL BY <1>1, NoneEmpty
<1>3. call \in Calls BY <1>1 DEF HInv, CallOK
<1>4. HeapShape BY DEF HInv
<1>5. CASE l_memRoot = NULL /\ NewMajor = NULL /\ ReturnNull /\ UNCHANGED l_bestBet
  <2>1. l_bestBet' \in DOMAIN major \cup {NULL} BY <1>4, <1>5 DEF HeapShape
  <2> QED BY <1>1, <1>2, <1>5, <2>1, ReturnNullKeepsHInv
<1>6. CASE /\ l_memRoot = NULL
           /\ TakePages
           /\ major' = WithNewMajor(NewMajor, NULL)
           /\ l_memRoot' = NewMajor
           /\ StartSearch(NewMajor)
  <2>1. l_bestBet = NULL BY <1>4, <1>6, RootIsMajor DEF HeapShape
  <2>2. ~(0 > Needed)
    <3>1. Needed = call.size + sizeof_minor /\ call.size \in Nat
      BY <1>1, CallIsSmall DEF HInv
    <3> QED BY <3>1, HeapSizes
  <2>3. /\ call' = [call EXCEPT !.pc = "major", !.maj = NewMajor, !.startedBet = FALSE,
                                !.bestSize = 0]
        /\ UNCHANGED <<l_bestBet, l_inuse, minor, given>>
    <3> DEFINE bestSize == IF l_bestBet = NULL THEN 0 ELSE Room(l_bestBet)
               bet == bestSize > Needed
               maj == IF bet THEN l_bestBet ELSE NewMajor
    <3>1. /\ call' = [call EXCEPT !.pc = "major", !.maj = maj, !.startedBet = bet,
                                  !.bestSize = bestSize]
          /\ UNCHANGED <<l_bestBet, l_inuse, minor, given>>
      BY <1>6 DEF StartSearch
    <3>2. bestSize = 0 BY <2>1
    <3> HIDE DEF bestSize
    <3>3. bet = FALSE BY <2>2, <3>2
    <3> HIDE DEF bet
    <3>4. maj = NewMajor BY <3>3
    <3> HIDE DEF maj
    <3> QED BY <3>1, <3>2, <3>3, <3>4
  <2>4. NULL \in Nat BY DEF NULL
  <2> QED BY <1>1, <1>2, <1>6, <2>3, <2>4, SearchesNewMajor
<1>7. CASE /\ l_memRoot # NULL
           /\ KeepPages
           /\ UNCHANGED <<l_memRoot, major>>
           /\ StartSearch(l_memRoot)
  <2> DEFINE bestSize == IF l_bestBet = NULL THEN 0 ELSE Room(l_bestBet)
             bet == bestSize > Needed
             maj == IF bet THEN l_bestBet ELSE l_memRoot
  <2>1. /\ call' = [call EXCEPT !.pc = "major", !.maj = maj, !.startedBet = bet,
                                !.bestSize = bestSize]
        /\ UNCHANGED <<l_bestBet, l_inuse, minor, given>>
    BY <1>7 DEF StartSearch
  <2>2. bestSize \in Nat /\ bet \in BOOLEAN /\ maj \in DOMAIN major
    <3>1. Needed = call.size + sizeof_minor /\ call.size \in Nat
      BY <1>1, CallIsSmall DEF HInv
    <3>2. bestSize \in Nat
      <4>1. CASE l_bestBet = NULL BY <4>1
      <4>2. CASE l_bestBet # NULL
        <5>1. l_bestBet \in DOMAIN major BY <1>4, <4>2 DEF HeapShape
        <5> QED BY <1>4, <4>2, <5>1, RoomIs
      <4> QED BY <4>1, <4>2
    <3>3. l_memRoot \in DOMAIN major BY <1>4, <1>7, RootIsMajor
    <3>4. bet => l_bestBet \in DOMAIN major
      <4>1. l_bestBet = NULL => ~bet BY <3>1, HeapSizes
      <4> HIDE DEF bet
      <4> QED BY <1>4, <4>1 DEF HeapShape
    <3>5. bet \in BOOLEAN OBVIOUS
    <3> HIDE DEF bet, bestSize
    <3> QED BY <3>2, <3>3, <3>4, <3>5
  <2> HIDE DEF bestSize, bet, maj
  <2>3. maj \in Nat BY <1>4, <2>2, RootIsMajor
  <2>4. call' = [call EXCEPT !.pc = "major", !.maj = maj, !.min = call.min, !.startedBet = bet,
                             !.bestSize = bestSize]
        /\ call.min \in Nat
    BY <1>3, <2>1 DEF Calls
  <2>5. /\ UNCHANGED <<pmmVars, l_memRoot, l_allocated, l_inuse, major, minor, given>>
        /\ l_bestBet' \in DOMAIN major \cup {NULL}
    BY <1>4, <1>7, <2>1 DEF KeepPages, HeapShape
  <2>6. "major" # "minor" OBVIOUS
  <2> QED BY <1>1, <1>2, <2>2, <2>3, <2>4, <2>5, <2>6, MovesOn
<1> QED BY <1>5, <1>6, <1>7 DEF Start

(* On to another major, or to none. *)
LEMMA AdvanceKeepsHInv ==
  ASSUME NoOverflow, HInv, call.pc \in {"major", "minor"}, NEW best \in Nat, Advance(best),
         l_bestBet' \in DOMAIN major \cup {NULL},
         \A m \in DOMAIN major : major[m].first # NULL
  PROVE  HInv' /\ GivesOne
<1>1. call # Idle /\ call.pc # "free_old" BY DEF Idle
<1>2. call \in Calls /\ call.maj \in DOMAIN major BY <1>1 DEF HInv, CallOK
<1>3. HeapShape BY DEF HInv
<1>4. ASSUME NEW maj \in DOMAIN major, NEW bet \in BOOLEAN, GoTo(maj, bet, best)
      PROVE  HInv' /\ GivesOne
  <2>1. maj \in Nat /\ call.min \in Nat BY <1>2, <1>3, RootIsMajor DEF Calls
  <2>2. /\ call' = [call EXCEPT !.pc = "major", !.maj = maj, !.startedBet = bet,
                                !.bestSize = best]
        /\ UNCHANGED <<pmmVars, l_memRoot, l_allocated, l_inuse, major, minor, given>>
    BY <1>4 DEF GoTo, KeepPages
  <2>3. call' = [call EXCEPT !.pc = "major", !.maj = maj, !.min = call.min, !.startedBet = bet,
                             !.bestSize = best]
    BY <1>2, <2>2 DEF Calls
  <2>4. UNCHANGED <<pmmVars, l_memRoot, l_allocated, l_inuse, major, minor, given>> BY <2>2
  <2>5. "major" # "minor" OBVIOUS
  <2>6. \A m \in DOMAIN major : major[m].first = NULL => FALSE OBVIOUS
  <2> QED BY <1>1, <2>1, <2>3, <2>4, <2>5, <2>6, MovesOn
<1>5. CASE ~Last(call.maj) /\ GoTo(major[call.maj].next, call.startedBet, best)
  <2>1. major[call.maj].next \in DOMAIN major BY <1>2, <1>3, <1>5, RootIsMajor DEF Last
  <2>2. call.startedBet \in BOOLEAN BY <1>2 DEF Calls
  <2> QED BY <1>4, <1>5, <2>1, <2>2
<1>6. CASE Last(call.maj) /\ call.startedBet /\ GoTo(l_memRoot, FALSE, best)
  <2>1. l_memRoot \in DOMAIN major BY <1>2, <1>3, RootIsMajor
  <2> QED BY <1>4, <1>6, <2>1
<1>7. CASE ReturnNull BY <1>1, <1>7, ReturnNullKeepsHInv
<1> QED BY <1>5, <1>6, <1>7 DEF Advance

(* A minor in a major that is there already. *)
LEMMA PlaceHereKeepsHInv ==
  ASSUME NoOverflow, HInv, call.pc \in {"major", "minor"},
         NEW at \in Nat \ {0}, NEW prv \in Nat, NEW nxt \in Nat,
         GapOf(major, minor, call.maj, at, call.size, prv, nxt), PlaceHere(at, prv, nxt),
         l_bestBet' \in DOMAIN major \cup {NULL}
  PROVE  HInv' /\ GivesOne
<1>1. call # Idle /\ call.pc # "free_old" BY DEF Idle
<1>2. call.maj \in DOMAIN major BY <1>1 DEF HInv, CallOK
<1>3. /\ Place(major, call.maj, at, prv, nxt) /\ UNCHANGED pmmVars
      /\ l_allocated' = l_allocated /\ l_memRoot' = l_memRoot
  BY DEF PlaceHere, KeepPages
<1>4. held' = held BY <1>3 DEF pmmVars
<1>5. Body(major, minor, l_memRoot', l_inuse, l_allocated') BY <1>3 DEF HInv, HeapShape
<1>6. \A b \in Bits : held'[b] > 0 <=> \E m \in DOMAIN major : b \in PagesOf(major, m)
  BY <1>4 DEF HInv, HeapShape, HeldPages
<1>7. \A m \in DOMAIN major \ {call.maj} : major[m].first # NULL BY DEF HInv, NoEmptyMajor
<1>8. CallOK /\ GivenOK BY DEF HInv
<1>9. HeapShape' /\ CallOK' /\ NoEmptyMajor' /\ GivenOK' /\ GivesOne
  BY <1>1, <1>2, <1>3, <1>5, <1>6, <1>7, <1>8, PlaceKeepsHInv
<1>10. IInv' BY <1>3, SamePmm DEF HInv
<1> QED BY <1>9, <1>10 DEF HInv

(* Room in front of the first minor of a major, or in all of it. *)
LEMMA GapInFront ==
  ASSUME NEW majors, NEW minors, NEW maj \in Nat, majors[maj].first \in Nat, NEW size \in Nat,
         majors[maj].size \in Nat,
         IF majors[maj].first = NULL
         THEN sizeof_major + sizeof_minor + size <= majors[maj].size
         ELSE FirstMinor(maj) + sizeof_minor + size <= majors[maj].first
  PROVE  /\ GapOf(majors, minors, maj, FirstMinor(maj), size, NULL, majors[maj].first)
         /\ FirstMinor(maj) \in Nat \ {0}
<1>1. FirstMinor(maj) = maj + sizeof_major /\ FirstMinor(maj) \in Nat \ {0}
  BY HeapSizes DEF FirstMinor
<1>2. majors[maj].first = NULL =>
        FirstMinor(maj) + sizeof_minor + size <= maj + majors[maj].size
  BY <1>1, HeapSizes
<1> QED BY <1>1, <1>2 DEF GapOf, Gap_

(* A minor in a new major. *)
LEMMA GrowKeepsHInv ==
  ASSUME NoOverflow, HInv, call.pc \in {"major", "minor"}, Grow,
         Place(WithNewMajor(NewMajor, call.maj), NewMajor, FirstMinor(NewMajor), NULL, NULL),
         l_bestBet' \in DOMAIN major \cup {NULL},
         \A m \in DOMAIN major : major[m].first # NULL
  PROVE  HInv' /\ GivesOne
<1> DEFINE at == NewMajor
           maj == call.maj
           M == WithNewMajor(at, maj)
<1>1. call # Idle /\ call.pc # "free_old" BY DEF Idle
<1>2. maj \in DOMAIN major /\ maj \in Nat \ {0}
  BY <1>1, RootIsMajor DEF HInv, CallOK
<1>3. Small(call.size) /\ call.size \in Nat BY <1>1, CallIsSmall DEF HInv
<1>4. TakePages /\ major[maj].next = NULL /\ l_memRoot' = l_memRoot BY DEF Grow, Last
<1>5. maj # NULL BY <1>2 DEF NULL
<1>6. IInv' /\ at \in Nat \ {0} BY <1>3, <1>4, TakenPagesAreNew DEF HInv
<1>7. /\ Body(M, minor, l_memRoot, l_inuse, l_allocated')
      /\ sizeof_major + sizeof_minor + call.size <= M[at].size
      /\ at \notin DOMAIN major /\ Added(major, M, at)
      /\ \A b \in Bits : held'[b] > 0 <=> \E m \in DOMAIN M : b \in PagesOf(M, m)
  BY <1>2, <1>3, <1>4, <1>5, NewMajorKeepsBody DEF HInv
<1>8. Place(M, at, FirstMinor(at), NULL, NULL) OBVIOUS
<1> HIDE DEF at, M
<1>9. DOMAIN M = DOMAIN major \cup {at} /\ M[at].first = NULL
      /\ \A m \in DOMAIN major : M[m].first = major[m].first
  BY <1>7 DEF Added
<1>10. GapOf(M, minor, at, FirstMinor(at), call.size, NULL, NULL) /\ FirstMinor(at) \in Nat \ {0}
  <2>1. M[at].size \in Nat /\ M[at].first \in Nat /\ at \in Nat
    BY <1>6, <1>7, <1>9 DEF Body, Typed, MajorHeader
  <2> QED BY <1>3, <1>7, <1>9, <2>1, GapInFront
<1>11. Body(M, minor, l_memRoot', l_inuse, l_allocated') BY <1>4, <1>7
<1>12. CallOK /\ GivenOK /\ NULL \in Nat BY DEF HInv, NULL
<1>13. \A m \in DOMAIN M \ {at} : M[m].first # NULL BY <1>9
<1>14. l_bestBet' \in DOMAIN M \cup {NULL} BY <1>9
<1>15. HeapShape' /\ CallOK' /\ NoEmptyMajor' /\ GivenOK' /\ GivesOne
  BY <1>1, <1>7, <1>8, <1>9, <1>10, <1>11, <1>12, <1>13, <1>14, PlaceKeepsHInv
<1> QED BY <1>6, <1>15 DEF HInv

(* The first minor of a major, and the one behind a minor. *)
LEMMA FirstIsMine ==
  ASSUME HeapShape, NEW maj \in DOMAIN major, major[maj].first # NULL
  PROVE  LET first == major[maj].first
         IN  /\ first \in Mine(minor, maj) /\ first \in Nat /\ maj \in Nat
             /\ FirstMinor(maj) <= first
             /\ Wrap(first - maj - sizeof_major) = first - FirstMinor(maj)
<1> DEFINE first == major[maj].first
<1>1. Typed(major, minor) /\ Extents(major) /\ Ordered(major, minor) BY DEF HeapShape, Body
<1>2. first \in Mine(minor, maj) BY <1>1 DEF Ordered, ListOf, InOrder, FirstOf
<1>3. first \in DOMAIN minor /\ minor[first].block = maj BY <1>2 DEF Mine
<1> HIDE DEF first
<1>4. /\ first \in Nat /\ FirstMinor(maj) <= first /\ first < U32
  <2>1. /\ first \in Nat \ {0} /\ minor[first].size \in Nat
        /\ Ends(minor, first) = first + sizeof_minor + minor[first].size
        /\ FirstMinor(minor[first].block) <= first /\ Ends(minor, first) <= U32
    BY <1>1, <1>3, MinorsApart
  <2> QED BY <1>3, <2>1, HeapSizes
<1>5. maj \in Nat BY <1>1 DEF Typed
<1>6. /\ first - maj - sizeof_major = first - FirstMinor(maj)
      /\ first - FirstMinor(maj) \in Nat /\ first - FirstMinor(maj) < U32
  BY <1>4, <1>5, HeapSizes DEF FirstMinor
<1>7. Wrap(first - maj - sizeof_major) = first - FirstMinor(maj) BY <1>6, WrapSmall
<1> QED BY <1>2, <1>4, <1>5, <1>7 DEF first

LEMMA GapBehind ==
  ASSUME HeapShape, NEW maj \in DOMAIN major, NEW min \in Mine(minor, maj)
  PROVE  LET nxt == minor[min].next
             limit == IF nxt = NULL THEN maj + major[maj].size ELSE nxt
         IN  /\ EndOf(min) \in Nat \ {0} /\ min \in Nat \ {0} /\ nxt \in Nat /\ limit \in Nat
             /\ Wrap(limit - EndOf(min)) = limit - EndOf(min) /\ EndOf(min) <= limit
             /\ nxt # NULL => nxt \in Mine(minor, maj)
             /\ \A size \in Nat : EndOf(min) + sizeof_minor + size <= limit =>
                  GapOf(major, minor, maj, EndOf(min), size, min, nxt)
<1> DEFINE nxt == minor[min].next
           limit == IF nxt = NULL THEN maj + major[maj].size ELSE nxt
           S == Mine(minor, maj)
           first == major[maj].first
           lo == FirstMinor(maj)
           hi == maj + major[maj].size
<1>1. Typed(major, minor) /\ Extents(major) /\ Ordered(major, minor) BY DEF HeapShape, Body
<1>2. ListType(minor, S) /\ first \in Nat /\ lo \in Nat /\ hi \in Nat BY <1>1, ListsAreTyped
<1>3. InOrder(minor, S, first, lo, hi) BY <1>1 DEF Ordered, ListOf
<1>4. min \in DOMAIN minor /\ minor[min].block = maj BY DEF Mine
<1>5. /\ min \in Nat \ {0} /\ minor[min].size \in Nat /\ Ends(minor, min) \in Nat
      /\ Ends(minor, min) = min + sizeof_minor + minor[min].size
      /\ Ends(minor, min) <= hi
  BY <1>1, <1>4, MinorsApart
<1>6. hi <= U32 BY <1>1, ExtentsApart
<1>7. EndOf(min) = Ends(minor, min) BY DEF EndOf, Ends
<1>8. minor[min] \in MinorHeader BY <1>1, <1>4 DEF Typed
<1> HIDE DEF S, first, lo, hi
<1>9. nxt # NULL => /\ nxt \in S /\ min < nxt /\ Ends(minor, min) <= nxt
                    /\ nxt \in Nat /\ nxt <= hi
  <2> SUFFICES ASSUME nxt # NULL
               PROVE  /\ nxt \in S /\ min < nxt /\ Ends(minor, min) <= nxt
                      /\ nxt \in Nat /\ nxt <= hi
    OBVIOUS
  <2>1. nxt \in S /\ min < nxt BY <1>2, <1>3, Neighbours DEF S
  <2>2. Ends(minor, min) <= nxt BY <1>3, <2>1 DEF InOrder, S
  <2>3. Ends(minor, nxt) <= hi /\ nxt \in Nat /\ minor[nxt].size \in Nat
        /\ Ends(minor, nxt) = nxt + sizeof_minor + minor[nxt].size
    BY <1>2, <1>3, <2>1 DEF InOrder, ListType, Ends
  <2> QED BY <1>2, <2>1, <2>2, <2>3, HeapSizes
<1>10. nxt \in Nat BY <1>8 DEF MinorHeader
<1> HIDE DEF nxt
<1>11. limit \in Nat /\ Ends(minor, min) <= limit /\ limit <= hi
       /\ limit = IF nxt = NULL THEN hi ELSE nxt
  BY <1>2, <1>5, <1>9, <1>10 DEF hi
<1> HIDE DEF limit
<1>12. Wrap(limit - Ends(minor, min)) = limit - Ends(minor, min)
  <2>1. Ends(minor, min) > 0 BY <1>5, HeapSizes
  <2>2. limit - Ends(minor, min) \in Nat /\ limit - Ends(minor, min) < U32
    BY <1>2, <1>5, <1>6, <1>11, <2>1, HeapSizes
  <2> QED BY <2>2, WrapSmall
<1>13. Ends(minor, min) \in Nat \ {0} BY <1>5, HeapSizes
<1>14. ASSUME NEW size \in Nat, EndOf(min) + sizeof_minor + size <= limit
       PROVE  GapOf(major, minor, maj, EndOf(min), size, min, nxt)
  <2>1. min # NULL /\ min \in Mine(minor, maj) BY <1>5 DEF NULL
  <2>2. Ends(minor, min) <= EndOf(min) BY <1>5, <1>7
  <2>3. EndOf(min) + sizeof_minor + size <=
          (IF nxt = NULL THEN maj + major[maj].size ELSE nxt)
    BY <1>11, <1>14 DEF hi
  <2> QED BY <2>1, <2>2, <2>3 DEF GapOf, Gap_, nxt
<1> QED BY <1>5, <1>7, <1>9, <1>10, <1>11, <1>12, <1>13, <1>14 DEF nxt, limit, S

LEMMA MajorTurnKeepsHInv ==
  ASSUME NoOverflow, HInv, MajorTurn
  PROVE  HInv' /\ GivesOne
<1> DEFINE maj == call.maj
           diff == Room(maj)
           first == major[maj].first
           front == Wrap(first - maj - sizeof_major)
           best == IF call.bestSize < diff THEN diff ELSE call.bestSize
<1>1. call.pc = "major" /\ call # Idle /\ call.pc # "free_old" BY DEF MajorTurn, Idle
<1>2. HeapShape /\ CallOK /\ NoEmptyMajor BY DEF HInv
<1>3. maj \in DOMAIN major /\ call \in Calls BY <1>1, <1>2 DEF CallOK
<1>4. /\ call.size \in Nat /\ Needed = call.size + sizeof_minor /\ sizeof_minor \in Nat
      /\ sizeof_major \in Nat
  BY <1>1, <1>2, CallIsSmall, HeapSizes
<1>5. diff \in Nat /\ best \in Nat
  <2>1. diff \in Nat BY <1>2, <1>3, RoomIs
  <2>2. call.bestSize \in Nat BY <1>3 DEF Calls
  <2> HIDE DEF diff
  <2> QED BY <2>1, <2>2
<1>6. l_bestBet' \in DOMAIN major \cup {NULL}
  <2>1. l_bestBet' = IF call.bestSize < diff THEN maj ELSE l_bestBet BY DEF MajorTurn
  <2>2. l_bestBet \in DOMAIN major \cup {NULL} BY <1>2 DEF HeapShape
  <2> HIDE DEF diff, maj
  <2> QED BY <1>3, <2>1, <2>2
<1>7. maj \in Nat /\ first \in Nat /\ major[maj].size \in Nat
  BY <1>2, <1>3, RootIsMajor, RoomIs
<1>8. diff < Needed => \A m \in DOMAIN major : major[m].first # NULL
  <2> SUFFICES ASSUME diff < Needed, NEW m \in DOMAIN major, major[m].first = NULL
               PROVE  FALSE
    OBVIOUS
  <2>1. m = maj /\ Room(m) >= Needed BY <1>1, <1>2, EmptyMajorHasRoom
  <2>2. diff >= Needed BY <2>1
  <2> HIDE DEF diff
  <2> QED BY <1>4, <1>5, <2>2
<1>9. first # NULL => \A m \in DOMAIN major : major[m].first # NULL
  BY <1>2 DEF NoEmptyMajor
<1>10. first # NULL => /\ first \in Mine(minor, maj) /\ FirstMinor(maj) <= first
                       /\ front = first - FirstMinor(maj)
  BY <1>2, <1>3, FirstIsMine
<1>11. FirstMinor(maj) \in Nat /\ NULL \in Nat BY <1>4, <1>7 DEF FirstMinor, NULL
<1>12. CASE diff < Needed /\ Advance(best)
  <2> HIDE DEF best, diff
  <2> QED BY <1>1, <1>5, <1>6, <1>8, <1>12, AdvanceKeepsHInv
<1>13. CASE /\ diff < Needed /\ Grow
            /\ Place(WithNewMajor(NewMajor, maj), NewMajor, FirstMinor(NewMajor), NULL, NULL)
  <2>1. \A m \in DOMAIN major : major[m].first # NULL BY <1>8, <1>13
  <2> QED BY <1>1, <1>6, <1>13, <2>1, GrowKeepsHInv
<1>14. CASE diff >= Needed /\ first = NULL /\ PlaceHere(FirstMinor(maj), NULL, NULL)
  <2>1. sizeof_major + sizeof_minor + call.size <= major[maj].size
    BY <1>2, <1>3, <1>14 DEF NoEmptyMajor
  <2>2. GapOf(major, minor, maj, FirstMinor(maj), call.size, NULL, first)
        /\ FirstMinor(maj) \in Nat \ {0}
    BY <1>4, <1>7, <1>14, <2>1, GapInFront
  <2>3. GapOf(major, minor, maj, FirstMinor(maj), call.size, NULL, NULL) BY <1>14, <2>2
  <2> QED BY <1>1, <1>6, <1>11, <1>14, <2>2, <2>3, PlaceHereKeepsHInv
<1>15. CASE /\ diff >= Needed /\ first # NULL /\ front >= Needed
            /\ PlaceHere(FirstMinor(maj), NULL, first)
  <2>1. FirstMinor(maj) + sizeof_minor + call.size <= first
    <3> HIDE DEF first, front, maj
    <3> QED BY <1>4, <1>7, <1>10, <1>11, <1>15
  <2>2. GapOf(major, minor, maj, FirstMinor(maj), call.size, NULL, first)
        /\ FirstMinor(maj) \in Nat \ {0}
    BY <1>4, <1>7, <1>15, <2>1, GapInFront
  <2> QED BY <1>1, <1>6, <1>7, <1>11, <1>15, <2>2, PlaceHereKeepsHInv
<1>16. CASE /\ diff >= Needed /\ first # NULL /\ front < Needed
            /\ call' = [call EXCEPT !.pc = "minor", !.min = first, !.bestSize = best]
            /\ KeepPages
            /\ UNCHANGED <<l_memRoot, l_inuse, major, minor, given>>
  <2>1. UNCHANGED <<pmmVars, l_memRoot, l_allocated, l_inuse, major, minor, given>>
    BY <1>16 DEF KeepPages
  <2>2. call.startedBet \in BOOLEAN BY <1>3 DEF Calls
  <2>3. call' = [call EXCEPT !.pc = "minor", !.maj = maj, !.min = first,
                             !.startedBet = call.startedBet, !.bestSize = best]
    <3>1. call' = [call EXCEPT !.pc = "minor", !.min = first, !.bestSize = best] BY <1>16
    <3> HIDE DEF first, best
    <3> QED BY <1>3, <3>1 DEF Calls
  <2>4. \A m \in DOMAIN major : major[m].first # NULL BY <1>9, <1>16
  <2>5. first \in Mine(minor, maj) BY <1>10, <1>16
  <2> HIDE DEF first, best, maj
  <2> QED BY <1>1, <1>3, <1>5, <1>6, <1>7, <2>1, <2>2, <2>3, <2>4, <2>5, MovesOn
<1> QED BY <1>12, <1>13, <1>14, <1>15, <1>16 DEF MajorTurn

LEMMA MinorTurnKeepsHInv ==
  ASSUME NoOverflow, HInv, MinorTurn
  PROVE  HInv' /\ GivesOne
<1> DEFINE maj == call.maj
           min == call.min
           nxt == minor[min].next
           limit == IF nxt = NULL THEN maj + major[maj].size ELSE nxt
           diff == Wrap(limit - EndOf(min))
<1>1. call.pc = "minor" /\ call # Idle /\ call.pc # "free_old" /\ l_bestBet' = l_bestBet
  BY DEF MinorTurn, Idle
<1>2. HeapShape /\ CallOK /\ NoEmptyMajor BY DEF HInv
<1>3. maj \in DOMAIN major /\ call \in Calls /\ min \in Mine(minor, maj)
  BY <1>1, <1>2 DEF CallOK
<1>4. /\ call.size \in Nat /\ Needed = call.size + sizeof_minor /\ sizeof_minor \in Nat
  BY <1>1, <1>2, CallIsSmall, HeapSizes
<1>5. l_bestBet' \in DOMAIN major \cup {NULL} BY <1>1, <1>2 DEF HeapShape
<1>6. \A m \in DOMAIN major : major[m].first # NULL BY <1>1, NoneEmpty
<1>7. /\ EndOf(min) \in Nat \ {0} /\ min \in Nat \ {0} /\ nxt \in Nat /\ limit \in Nat
      /\ diff = limit - EndOf(min) /\ EndOf(min) <= limit
      /\ nxt # NULL => nxt \in Mine(minor, maj)
      /\ EndOf(min) + sizeof_minor + call.size <= limit =>
           GapOf(major, minor, maj, EndOf(min), call.size, min, nxt)
  BY <1>2, <1>3, <1>4, GapBehind
<1>8. call.bestSize \in Nat /\ call.startedBet \in BOOLEAN /\ maj \in Nat \ {0}
  BY <1>2, <1>3, RootIsMajor DEF Calls
<1>9. CASE diff >= Needed /\ PlaceHere(EndOf(min), min, nxt)
  <2>1. EndOf(min) + sizeof_minor + call.size <= limit
    <3> HIDE DEF limit, diff, min
    <3> QED BY <1>4, <1>7, <1>9
  <2>2. GapOf(major, minor, maj, EndOf(min), call.size, min, nxt) BY <1>7, <2>1
  <2> QED BY <1>1, <1>5, <1>7, <1>9, <2>2, PlaceHereKeepsHInv
<1>10. CASE /\ diff < Needed /\ nxt # NULL
            /\ call' = [call EXCEPT !.min = nxt]
            /\ KeepPages
            /\ UNCHANGED <<l_memRoot, l_inuse, major, minor, given>>
  <2>1. UNCHANGED <<pmmVars, l_memRoot, l_allocated, l_inuse, major, minor, given>>
    BY <1>10 DEF KeepPages
  <2>2. call' = [call EXCEPT !.pc = "minor", !.maj = maj, !.min = nxt,
                             !.startedBet = call.startedBet, !.bestSize = call.bestSize]
    <3>1. call' = [call EXCEPT !.min = nxt] BY <1>10
    <3> HIDE DEF nxt
    <3> QED BY <1>1, <1>3, <3>1 DEF Calls
  <2>3. nxt \in Mine(minor, maj) BY <1>7, <1>10
  <2> HIDE DEF nxt, maj
  <2> QED BY <1>1, <1>3, <1>5, <1>6, <1>7, <1>8, <2>1, <2>2, <2>3, MovesOn
<1>11. CASE diff < Needed /\ nxt = NULL /\ Advance(call.bestSize)
  BY <1>1, <1>5, <1>6, <1>8, <1>11, AdvanceKeepsHInv
<1>12. CASE /\ diff < Needed /\ nxt = NULL /\ Grow
            /\ major' = WithNewMajor(NewMajor, call.maj)
            /\ call' = [call EXCEPT !.pc = "major", !.maj = NewMajor]
            /\ UNCHANGED <<l_inuse, minor, given>>
  <2>1. TakePages /\ major[maj].next = NULL /\ l_memRoot' = l_memRoot BY <1>12 DEF Grow, Last
  <2>2. maj # NULL BY <1>8 DEF NULL
  <2>3. call' = [call EXCEPT !.pc = "major", !.maj = NewMajor,
                             !.startedBet = call.startedBet, !.bestSize = call.bestSize]
    <3>1. call' = [call EXCEPT !.pc = "major", !.maj = NewMajor] BY <1>12
    <3> QED BY <1>3, <3>1 DEF Calls
  <2>4. UNCHANGED <<l_bestBet, l_inuse, minor, given>> /\ major' = WithNewMajor(NewMajor, maj)
    BY <1>1, <1>12
  <2> HIDE DEF maj
  <2> QED BY <1>1, <1>3, <1>6, <1>8, <2>1, <2>2, <2>3, <2>4, SearchesNewMajor
<1> QED BY <1>9, <1>10, <1>11, <1>12 DEF MinorTurn
-----------------------------------------------------------------------------
(* The offset in front of a pointer leads back to its minor. *)
LEMMA PointerOf ==
  ASSUME HInv, NEW p, NEW offset, NEW asked, Behind(minor, p, offset, asked)
  PROVE  LET m == HeaderOf(p, offset)
         IN  /\ m \in DOMAIN minor /\ m \in Nat /\ asked \in Nat
             /\ p \in Nat \ {0} /\ p % ALIGNMENT = 0 /\ p < U32
             /\ p = ALIGN(m + sizeof_minor)
             /\ offset < ALIGNMENT + ALIGN_INFO /\ offset \in Nat
             /\ m + sizeof_minor <= p /\ p + asked <= Ends(minor, m)
<1> DEFINE m == HeaderOf(p, offset)
<1>1. /\ p \in Nat /\ offset \in Nat /\ m \in DOMAIN minor
      /\ p = ALIGN(m + sizeof_minor) /\ asked = minor[m].req_size
  BY DEF Behind
<1>2. Typed(major, minor) /\ Extents(major) /\ Ordered(major, minor)
  BY DEF HInv, HeapShape, Body
<1>3. m \in Nat /\ asked \in Nat BY <1>1, <1>2 DEF Typed, MinorHeader
<1>4. asked + (ALIGNMENT + ALIGN_INFO) <= minor[m].size BY <1>1 DEF HInv, GivenOK
<1>5. offset = p - (m + sizeof_minor) BY <1>1, <1>3, HeapSizes DEF HeaderOf
<1> HIDE DEF m
<1>6. /\ p \in Nat \ {0} /\ p % ALIGNMENT = 0
      /\ m + sizeof_minor <= p
      /\ p - (m + sizeof_minor) < ALIGNMENT + ALIGN_INFO
      /\ p + asked <= Ends(minor, m) /\ p < U32
  BY <1>1, <1>2, <1>3, <1>4, PointerInside
<1> QED BY <1>1, <1>3, <1>5, <1>6 DEF m

LEMMA MinorOfIs ==
  ASSUME HInv, NEW p \in DOMAIN given
  PROVE  MinorOf(p) = HeaderOf(p, given[p].offset)
<1>1. Behind(minor, p, given[p].offset, given[p].asked) BY DEF HInv, GivenOK
<1>2. given[p].offset < ALIGNMENT + ALIGN_INFO BY <1>1, PointerOf
<1> QED BY <1>2 DEF MinorOf, UNALIGN, HeaderOf

(* A pointer goes with its minor; the others keep theirs. *)
LEMMA ReleaseKeepsGiven ==
  ASSUME HInv, NEW ptr \in DOMAIN given, NEW min, min = HeaderOf(ptr, given[ptr].offset),
         DOMAIN minor' = DOMAIN minor \ {min},
         \A m \in DOMAIN minor' : /\ minor'[m].req_size = minor[m].req_size
                                  /\ minor'[m].size = minor[m].size
  PROVE  /\ \A m \in DOMAIN minor' :
              minor'[m].req_size + (ALIGNMENT + ALIGN_INFO) <= minor'[m].size
         /\ \A p \in DOMAIN given \ {ptr} :
              /\ given[p] \in Pointer
              /\ Behind(minor', p, given[p].offset, given[p].asked)
         /\ InFlight => Behind(minor', call.ptr, call.offset, call.asked)
                        /\ call.ptr \notin DOMAIN given
         /\ \A m \in DOMAIN minor' :
              \/ \E p \in DOMAIN given \ {ptr} : m = HeaderOf(p, given[p].offset)
              \/ InFlight /\ m = HeaderOf(call.ptr, call.offset)
<1>1. /\ \A m \in DOMAIN minor : minor[m].req_size + (ALIGNMENT + ALIGN_INFO) <= minor[m].size
      /\ \A p \in DOMAIN given : /\ given[p] \in Pointer
                                 /\ Behind(minor, p, given[p].offset, given[p].asked)
      /\ InFlight => Behind(minor, call.ptr, call.offset, call.asked)
                     /\ call.ptr \notin DOMAIN given
      /\ \A m \in DOMAIN minor :
           \/ \E p \in DOMAIN given : m = HeaderOf(p, given[p].offset)
           \/ InFlight /\ m = HeaderOf(call.ptr, call.offset)
  BY DEF HInv, GivenOK
<1>2. ptr = ALIGN(min + sizeof_minor) BY <1>1 DEF Behind
<1>3. ASSUME NEW p, NEW offset, NEW asked, Behind(minor, p, offset, asked), p # ptr
      PROVE  Behind(minor', p, offset, asked)
  <2>1. /\ p \in Nat /\ offset \in Nat /\ HeaderOf(p, offset) \in DOMAIN minor
        /\ p = ALIGN(HeaderOf(p, offset) + sizeof_minor)
        /\ asked = minor[HeaderOf(p, offset)].req_size
    BY <1>3 DEF Behind
  <2>2. HeaderOf(p, offset) # min BY <1>2, <1>3, <2>1
  <2> QED BY <2>1, <2>2 DEF Behind
<1>4. \A p \in DOMAIN given \ {ptr} : Behind(minor', p, given[p].offset, given[p].asked)
  BY <1>1, <1>3
<1>5. InFlight => Behind(minor', call.ptr, call.offset, call.asked)
                  /\ call.ptr \notin DOMAIN given
  BY <1>1, <1>3
<1>6. \A m \in DOMAIN minor' :
        \/ \E p \in DOMAIN given \ {ptr} : m = HeaderOf(p, given[p].offset)
        \/ InFlight /\ m = HeaderOf(call.ptr, call.offset)
  BY <1>1
<1> QED BY <1>1, <1>4, <1>5, <1>6

LEMMA KfreeKeepsHInv ==
  ASSUME HInv, NEW ptr \in DOMAIN given, kfree(ptr)
  PROVE  HInv'
<1> DEFINE min == HeaderOf(ptr, given[ptr].offset)
<1>1. call = Idle /\ call' = Idle /\ Release(min) /\ given' = Without(ptr)
  BY MinorOfIs DEF kfree
<1>2. min \in DOMAIN minor BY DEF HInv, GivenOK, Behind
<1>3. \A m \in DOMAIN major : major[m].first # NULL BY <1>1, NoneEmpty DEF Idle
<1> HIDE DEF min
<1>4. /\ IInv' /\ HeapShape'
      /\ \A m \in DOMAIN major' : major'[m].first # NULL
      /\ DOMAIN minor' = DOMAIN minor \ {min}
      /\ \A m \in DOMAIN minor' : /\ minor'[m].req_size = minor[m].req_size
                                  /\ minor'[m].size = minor[m].size
  BY <1>1, <1>2, <1>3, ReleaseKeepsShape DEF HInv
<1>5. CallOK' BY <1>1 DEF CallOK
<1>6. NoEmptyMajor' BY <1>4 DEF NoEmptyMajor
<1>7. GivenOK'
  <2>1. ~InFlight /\ ~InFlight' BY <1>1 DEF InFlight, Idle
  <2>2. DOMAIN given' = DOMAIN given \ {ptr} /\ \A p \in DOMAIN given' : given'[p] = given[p]
    BY <1>1 DEF Without
  <2>3. /\ \A m \in DOMAIN minor' :
             minor'[m].req_size + (ALIGNMENT + ALIGN_INFO) <= minor'[m].size
        /\ \A p \in DOMAIN given \ {ptr} :
             /\ given[p] \in Pointer
             /\ Behind(minor', p, given[p].offset, given[p].asked)
        /\ \A m \in DOMAIN minor' :
             \E p \in DOMAIN given \ {ptr} : m = HeaderOf(p, given[p].offset)
    BY <1>4, <2>1, ReleaseKeepsGiven DEF min
  <2> QED BY <2>1, <2>2, <2>3 DEF GivenOK
<1> QED BY <1>4, <1>5, <1>6, <1>7 DEF HInv

(* What FreeOld leaves with the callers. *)
LEMMA FreeOldGiven ==
  ASSUME HInv, FreeOld
  PROVE  /\ call.old \in DOMAIN given /\ given[call.old].asked < call.asked
         /\ call.asked \in Asked
         /\ Release(HeaderOf(call.old, given[call.old].offset))
         /\ call.ptr = NULL => given' = Without(call.old)
         /\ call.ptr # NULL =>
              /\ call.ptr \notin DOMAIN given
              /\ DOMAIN given' = (DOMAIN given \ {call.old}) \cup {call.ptr}
              /\ given'[call.ptr].asked = call.asked /\ given'[call.ptr].offset = call.offset
              /\ given'[call.ptr] \in Pointer
              /\ \A p \in DOMAIN given \ {call.old} : given'[p] = given[p]
<1>1. call.pc = "free_old" /\ call # Idle BY DEF FreeOld, Idle
<1>2. call.old \in DOMAIN given /\ given[call.old].asked < call.asked /\ call.asked \in Asked
  BY <1>1 DEF HInv, CallOK
<1>3. Release(HeaderOf(call.old, given[call.old].offset)) BY <1>2, MinorOfIs DEF FreeOld
<1>4. call.ptr # NULL => call.ptr \notin DOMAIN given BY <1>1 DEF HInv, GivenOK, InFlight
<1>5. call.ptr = NULL => given' = Without(call.old) BY DEF FreeOld
<1>6. call.ptr # NULL =>
        given' = [p \in (DOMAIN given \ {call.old}) \cup {call.ptr} |->
                    IF p = call.ptr THEN [asked |-> call.asked, offset |-> call.offset]
                    ELSE given[p]]
  BY DEF FreeOld
<1>7. call.offset \in Nat BY <1>1 DEF HInv, CallOK, Calls
<1> QED BY <1>2, <1>3, <1>4, <1>5, <1>6, <1>7 DEF Pointer

LEMMA FreeOldKeepsHInv ==
  ASSUME HInv, FreeOld
  PROVE  HInv'
<1> DEFINE ptr == call.old
           min == HeaderOf(ptr, given[ptr].offset)
<1>1. call.pc = "free_old" /\ call' = Idle BY DEF FreeOld
<1>2. ptr \in DOMAIN given /\ Release(min) BY FreeOldGiven
<1>3. min \in DOMAIN minor BY <1>2 DEF HInv, GivenOK, Behind
<1>4. \A m \in DOMAIN major : major[m].first # NULL BY <1>1, NoneEmpty
<1> HIDE DEF min
<1>5. /\ IInv' /\ HeapShape'
      /\ \A m \in DOMAIN major' : major'[m].first # NULL
      /\ DOMAIN minor' = DOMAIN minor \ {min}
      /\ \A m \in DOMAIN minor' : /\ minor'[m].req_size = minor[m].req_size
                                  /\ minor'[m].size = minor[m].size
  BY <1>2, <1>3, <1>4, ReleaseKeepsShape DEF HInv
<1>6. CallOK' BY <1>1 DEF CallOK
<1>7. NoEmptyMajor' BY <1>5 DEF NoEmptyMajor
<1>8. GivenOK'
  <2>1. ~InFlight' BY <1>1 DEF InFlight, Idle
  <2>2. InFlight <=> call.ptr # NULL BY <1>1 DEF InFlight
  <2>3. /\ \A m \in DOMAIN minor' :
             minor'[m].req_size + (ALIGNMENT + ALIGN_INFO) <= minor'[m].size
        /\ \A p \in DOMAIN given \ {ptr} :
             /\ given[p] \in Pointer
             /\ Behind(minor', p, given[p].offset, given[p].asked)
        /\ InFlight => Behind(minor', call.ptr, call.offset, call.asked)
        /\ \A m \in DOMAIN minor' :
             \/ \E p \in DOMAIN given \ {ptr} : m = HeaderOf(p, given[p].offset)
             \/ InFlight /\ m = HeaderOf(call.ptr, call.offset)
    BY <1>2, <1>5, ReleaseKeepsGiven DEF min
  <2>4. CASE call.ptr = NULL
    <3>1. given' = Without(ptr) BY <2>4, FreeOldGiven
    <3>2. DOMAIN given' = DOMAIN given \ {ptr} /\ \A p \in DOMAIN given' : given'[p] = given[p]
      BY <3>1 DEF Without
    <3> QED BY <2>1, <2>2, <2>3, <2>4, <3>2 DEF GivenOK
  <2>5. CASE call.ptr # NULL
    <3>1. /\ DOMAIN given' = (DOMAIN given \ {ptr}) \cup {call.ptr}
          /\ given'[call.ptr].asked = call.asked /\ given'[call.ptr].offset = call.offset
          /\ given'[call.ptr] \in Pointer
          /\ \A p \in DOMAIN given \ {ptr} : given'[p] = given[p]
          /\ call.asked \in Asked
      BY <2>5, FreeOldGiven
    <3>2. \A p \in DOMAIN given' : /\ given'[p] \in Pointer
                                   /\ Behind(minor', p, given'[p].offset, given'[p].asked)
      BY <2>2, <2>3, <2>5, <3>1
    <3>3. \A m \in DOMAIN minor' : \E p \in DOMAIN given' : m = HeaderOf(p, given'[p].offset)
      BY <2>3, <3>1
    <3> QED BY <2>1, <2>3, <3>2, <3>3 DEF GivenOK
  <2> QED BY <2>4, <2>5
<1> QED BY <1>5, <1>6, <1>7, <1>8 DEF HInv

(* krealloc in place only writes the size that was asked for. *)
LEMMA ResizeKeepsBody ==
  ASSUME NEW majors, NEW minors, NEW minors2, NEW root, NEW inuse, NEW allocated,
         Body(majors, minors, root, inuse, allocated), DOMAIN minors2 = DOMAIN minors,
         \A m \in DOMAIN minors :
           /\ minors2[m] \in MinorHeader
           /\ minors2[m].prev = minors[m].prev /\ minors2[m].next = minors[m].next
           /\ minors2[m].block = minors[m].block /\ minors2[m].size = minors[m].size
  PROVE  Body(majors, minors2, root, inuse, allocated)
<1>1. /\ Typed(majors, minors) /\ Extents(majors) /\ Ordered(majors, minors)
      /\ UsageExact(majors, minors) /\ Chain(majors, root)
      /\ \A m \in DOMAIN majors : sizeof_major <= majors[m].size
      /\ inuse = Cardinality(InUse(minors)) /\ allocated = Cardinality(Allocated(majors))
  BY DEF Body
<1>2. Typed(majors, minors2) BY <1>1 DEF Typed
<1>3. /\ \A b : Mine(minors2, b) = Mine(minors, b)
      /\ \A m \in DOMAIN minors : /\ BytesOf(minors2, m) = BytesOf(minors, m)
                                  /\ BodyOf(minors2, m) = BodyOf(minors, m)
  BY DEF Mine, BytesOf, BodyOf, Ends
<1>4. Ordered(majors, minors2)
  <2> SUFFICES ASSUME NEW maj \in DOMAIN majors PROVE ListOf(majors, minors2, maj)
    BY DEF Ordered
  <2> DEFINE S == Mine(minors, maj)
  <2>1. InOrder(minors, S, majors[maj].first, FirstMinor(maj), maj + majors[maj].size)
    BY <1>1 DEF Ordered, ListOf
  <2>2. \A m \in S : /\ minors2[m].next = minors[m].next /\ minors2[m].prev = minors[m].prev
                     /\ minors2[m].size = minors[m].size
    BY DEF Mine
  <2>3. Mine(minors2, maj) = S BY <1>3
  <2> HIDE DEF S
  <2>4. InOrder(minors2, S, majors[maj].first, FirstMinor(maj), maj + majors[maj].size)
    BY <2>1, <2>2, OrderKept
  <2> QED BY <2>3, <2>4 DEF ListOf
<1>5. UsageExact(majors, minors2)
  <2>1. ASSUME NEW maj \in DOMAIN majors PROVE Used(minors2, maj) = Used(minors, maj)
    <3>1. \A m \in Mine(minors, maj) : m \in DOMAIN minors BY DEF Mine
    <3>2. ASSUME NEW x PROVE x \in Used(minors2, maj) <=> x \in Used(minors, maj)
      BY <1>3, <3>1, UnionsOfBytes
    <3> QED BY <3>2
  <2> QED BY <1>1, <2>1 DEF UsageExact
<1>6. InUse(minors2) = InUse(minors)
  <2>1. ASSUME NEW x PROVE x \in InUse(minors2) <=> x \in InUse(minors)
    BY <1>3, UnionsOfBytes
  <2> QED BY <2>1
<1> QED BY <1>1, <1>2, <1>4, <1>5, <1>6 DEF Body

LEMMA InPlaceKeepsHInv ==
  ASSUME HInv, NEW ptr \in DOMAIN given, NEW size \in Requests, InPlace(MinorOf(ptr), size),
         call = Idle, minor' = [minor EXCEPT ![MinorOf(ptr)].req_size = size],
         given' = [given EXCEPT ![ptr].asked = size],
         UNCHANGED <<pmmVars, l_memRoot, l_bestBet, l_allocated, l_inuse, major, call>>
  PROVE  HInv' /\ size <= given[ptr].asked
<1> DEFINE min == HeaderOf(ptr, given[ptr].offset)
<1>1. min = MinorOf(ptr) BY MinorOfIs
<1>2. /\ \A m \in DOMAIN minor : minor[m].req_size + (ALIGNMENT + ALIGN_INFO) <= minor[m].size
      /\ \A p \in DOMAIN given : /\ given[p] \in Pointer
                                 /\ Behind(minor, p, given[p].offset, given[p].asked)
      /\ \A m \in DOMAIN minor : \E p \in DOMAIN given : m = HeaderOf(p, given[p].offset)
  BY DEF HInv, GivenOK, InFlight, Idle
<1>3. min \in DOMAIN minor /\ ptr = ALIGN(min + sizeof_minor)
      /\ given[ptr].asked = minor[min].req_size
  BY <1>2 DEF Behind
<1>4. size <= minor[min].req_size BY <1>1 DEF InPlace
<1>5. size \in Nat /\ size \in Asked BY HeapAssumption, HeapSizes DEF Asked
<1>6. Body(major, minor, l_memRoot, l_inuse, l_allocated) BY DEF HInv, HeapShape
<1>7. \A m \in DOMAIN minor : minor[m] \in MinorHeader BY <1>6 DEF Body, Typed
<1> HIDE DEF min
<1>8. /\ DOMAIN minor' = DOMAIN minor
      /\ \A m \in DOMAIN minor :
           minor'[m] = IF m = min THEN [minor[m] EXCEPT !.req_size = size] ELSE minor[m]
  BY <1>1, <1>3
<1>9. \A m \in DOMAIN minor :
        /\ minor'[m] \in MinorHeader
        /\ minor'[m].prev = minor[m].prev /\ minor'[m].next = minor[m].next
        /\ minor'[m].block = minor[m].block /\ minor'[m].size = minor[m].size
        /\ minor'[m].req_size = IF m = min THEN size ELSE minor[m].req_size
  <2> TAKE m \in DOMAIN minor
  <2>1. CASE m = min
    <3>1. minor'[m] = [minor[m] EXCEPT !.req_size = size] BY <1>8, <2>1
    <3> QED BY <1>5, <1>7, <2>1, <3>1 DEF MinorHeader
  <2>2. CASE m # min
    <3>1. minor'[m] = minor[m] BY <1>8, <2>2
    <3>2. minor[m] \in MinorHeader BY <1>7
    <3> QED BY <2>2, <3>1, <3>2
  <2> QED BY <2>1, <2>2
<1>10. /\ DOMAIN given' = DOMAIN given
       /\ \A p \in DOMAIN given : /\ given'[p] \in Pointer
                                  /\ given'[p].offset = given[p].offset
                                  /\ given'[p].asked = IF p = ptr THEN size ELSE given[p].asked
  <2>1. /\ DOMAIN given' = DOMAIN given
        /\ \A p \in DOMAIN given :
             given'[p] = IF p = ptr THEN [given[p] EXCEPT !.asked = size] ELSE given[p]
    OBVIOUS
  <2> SUFFICES ASSUME NEW p \in DOMAIN given
               PROVE  /\ given'[p] \in Pointer
                      /\ given'[p].offset = given[p].offset
                      /\ given'[p].asked = IF p = ptr THEN size ELSE given[p].asked
    BY <2>1
  <2>2. CASE p = ptr
    <3>1. given'[p] = [given[p] EXCEPT !.asked = size] BY <2>1, <2>2
    <3>2. given[p] \in Pointer BY <1>2
    <3> QED BY <1>5, <2>2, <3>1, <3>2 DEF Pointer
  <2>3. CASE p # ptr BY <1>2, <2>1, <2>3
  <2> QED BY <2>2, <2>3
<1>11. IInv' BY SamePmm DEF HInv
<1>12. HeapShape'
  <2>1. Body(major, minor', l_memRoot, l_inuse, l_allocated) BY <1>6, <1>8, <1>9, ResizeKeepsBody
  <2>2. Body(major', minor', l_memRoot', l_inuse', l_allocated') BY <2>1
  <2>3. HeldPages' BY DEF HInv, HeapShape, HeldPages, pmmVars
  <2> QED BY <2>2, <2>3 DEF HInv, HeapShape
<1>13. CallOK' BY DEF CallOK
<1>14. NoEmptyMajor' BY DEF HInv, NoEmptyMajor
<1>15. GivenOK'
  <2>1. ~InFlight' BY DEF InFlight, Idle
  <2>2. ASSUME NEW m \in DOMAIN minor'
        PROVE  minor'[m].req_size + (ALIGNMENT + ALIGN_INFO) <= minor'[m].size
    <3>1. minor[m].size \in Nat /\ minor[m].req_size \in Nat
          /\ minor[m].req_size + (ALIGNMENT + ALIGN_INFO) <= minor[m].size
      BY <1>2, <1>7, <1>8, <2>2 DEF MinorHeader
    <3> QED BY <1>4, <1>5, <1>8, <1>9, <3>1, HeapSizes
  <2>3. ASSUME NEW p \in DOMAIN given
        PROVE  Behind(minor', p, given'[p].offset, given'[p].asked)
    <3>1. /\ p \in Nat /\ given[p].offset \in Nat /\ HeaderOf(p, given[p].offset) \in DOMAIN minor
          /\ p = ALIGN(HeaderOf(p, given[p].offset) + sizeof_minor)
          /\ given[p].asked = minor[HeaderOf(p, given[p].offset)].req_size
      BY <1>2 DEF Behind
    <3>2. p = ptr <=> HeaderOf(p, given[p].offset) = min BY <1>3, <3>1 DEF min
    <3> QED BY <1>8, <1>9, <1>10, <3>1, <3>2 DEF Behind
  <2>4. \A m \in DOMAIN minor' : \E p \in DOMAIN given' : m = HeaderOf(p, given'[p].offset)
    BY <1>2, <1>8, <1>10
  <2> QED BY <1>10, <2>1, <2>2, <2>3, <2>4 DEF GivenOK
<1> QED BY <1>3, <1>4, <1>11, <1>12, <1>13, <1>14, <1>15 DEF HInv

(* kmalloc, kcalloc and krealloc of callers. *)
LEMMA CallsBegin ==
  ASSUME NoOverflow
  PROVE  /\ \A n \in Requests : kmalloc(n) => Begin(n, n, NULL) /\ n \in Asked
         /\ \A o \in Objects : kcalloc(o[1], o[2]) =>
              Begin(o[1] * o[2], o[1] * o[2], NULL) /\ o[1] * o[2] \in Asked
<1>1. \A n \in Requests : n \in Asked BY DEF Asked
<1>2. ASSUME NEW o \in Objects
      PROVE  o[1] * o[2] \in Asked /\ Wrap(o[1] * o[2]) = o[1] * o[2]
  <2>1. o[1] * o[2] \in Asked BY DEF Asked
  <2> QED BY <2>1, AskedIsSmall, WrapSmall
<1> QED BY <1>1, <1>2 DEF kmalloc, kcalloc

LEMMA KreallocKeepsHInv ==
  ASSUME NoOverflow, HInv, NEW ptr \in DOMAIN given, NEW size \in Requests, krealloc(ptr, size)
  PROVE  HInv'
<1>1. CASE kfree(ptr) BY <1>1, KfreeKeepsHInv
<1>2. CASE /\ InPlace(MinorOf(ptr), size)
           /\ call = Idle
           /\ minor' = [minor EXCEPT ![MinorOf(ptr)].req_size = size]
           /\ given' = [given EXCEPT ![ptr].asked = size]
           /\ UNCHANGED <<pmmVars, l_memRoot, l_bestBet, l_allocated, l_inuse, major, call>>
  BY <1>2, InPlaceKeepsHInv
<1>3. CASE ~InPlace(MinorOf(ptr), size) /\ Begin(size, size, ptr)
  <2>1. size \in Asked /\ size \in Nat BY AskedIsSmall DEF Asked
  <2>2. Behind(minor, ptr, given[ptr].offset, given[ptr].asked) BY DEF HInv, GivenOK
  <2>3. ptr \in Nat /\ given[ptr].asked = minor[MinorOf(ptr)].req_size /\ given[ptr].asked \in Nat
    BY <2>2, MinorOfIs, PointerOf DEF Behind
  <2>4. given[ptr].asked < size BY <1>3, <2>1, <2>3 DEF InPlace
  <2> QED BY <1>3, <2>1, <2>3, <2>4, BeginKeepsHInv
<1> QED BY <1>1, <1>2, <1>3 DEF krealloc

LEMMA StepHInv ==
  ASSUME NoOverflow, HInv, [HeapNext]_vars
  PROVE  HInv'
<1>0. NULL \in Nat BY DEF NULL
<1>1. CASE \E r \in Regions : Region(r) BY <1>1, RegionKeepsHInv
<1>2. CASE \E n \in Requests : kmalloc(n)
  <2>1. PICK n \in Requests : Begin(n, n, NULL) /\ n \in Asked BY <1>2, CallsBegin
  <2> QED BY <1>0, <2>1, BeginKeepsHInv
<1>3. CASE \E o \in Objects : kcalloc(o[1], o[2])
  <2>1. PICK o \in Objects : Begin(o[1] * o[2], o[1] * o[2], NULL) /\ o[1] * o[2] \in Asked
    BY <1>3, CallsBegin
  <2> QED BY <1>0, <2>1, BeginKeepsHInv
<1>4. CASE \E ptr \in DOMAIN given : kfree(ptr) BY <1>4, KfreeKeepsHInv
<1>5. CASE \E ptr \in DOMAIN given, n \in Requests : krealloc(ptr, n)
  BY <1>5, KreallocKeepsHInv
<1>6. CASE Start BY <1>6, StartKeepsHInv
<1>7. CASE MajorTurn BY <1>7, MajorTurnKeepsHInv
<1>8. CASE MinorTurn BY <1>8, MinorTurnKeepsHInv
<1>9. CASE FreeOld BY <1>9, FreeOldKeepsHInv
<1>10. CASE UNCHANGED vars BY <1>10, StutterKeepsHInv
<1> QED BY <1>1, <1>2, <1>3, <1>4, <1>5, <1>6, <1>7, <1>8, <1>9, <1>10 DEF HeapNext, Running

THEOREM HeapInvariance == ASSUME NoOverflow PROVE HeapSpec => []HInv
<1>1. HInv /\ [HeapNext]_vars => HInv' BY StepHInv
<1> QED BY <1>1, InitHInv, PTL DEF HeapSpec
-----------------------------------------------------------------------------
(* What the invariant says of each property the runs check. *)
LEMMA HInvTypes == HInv => HeapTypeOK
<1> SUFFICES ASSUME HInv PROVE HeapTypeOK OBVIOUS
<1>1. /\ Typed(major, minor) /\ Extents(major) /\ Ordered(major, minor) /\ HeapShape
      /\ UsageExact(major, minor) /\ Chain(major, l_memRoot)
      /\ \A m \in DOMAIN major : sizeof_major <= major[m].size
      /\ l_inuse = Cardinality(InUse(minor)) /\ l_allocated = Cardinality(Allocated(major))
  BY DEF HInv, HeapShape, Body
<1>2. TypeOK BY DEF HInv, IInv
<1>3. l_memRoot \in DOMAIN major \cup {NULL} BY <1>1 DEF Chain
<1>4. l_allocated \in Nat /\ l_inuse \in Nat BY <1>1, AllocatedIsFinite, InUseIsFinite
<1>5. ASSUME NEW m \in DOMAIN major
      PROVE  /\ IsAddress(m) /\ m # NULL
             /\ {major[m].prev, major[m].next} \subseteq DOMAIN major \cup {NULL}
             /\ major[m].first \in DOMAIN minor \cup {NULL}
             /\ {major[m].pages, major[m].size, major[m].usage} \subseteq 0 .. U32 - 1
  <2>1. m \in Nat \ {0} /\ major[m].size \in Nat \ {0} /\ m + major[m].size <= U32
    BY <1>1, ExtentsApart
  <2>2. major[m].prev \in DOMAIN major \cup {NULL} /\ major[m].next \in DOMAIN major \cup {NULL}
    BY <1>1 DEF Chain
  <2>3. major[m].first \in DOMAIN minor \cup {NULL} BY <1>1, FirstIsMine DEF Mine
  <2>4. major[m].usage \in Nat /\ major[m].usage <= major[m].size BY <1>1, RoomIs, <2>1
  <2>5. major[m].pages \in Nat /\ major[m].pages <= major[m].size
    <3>1. major[m].pages \in Nat \ {0} /\ major[m].size = major[m].pages * PMM_BLOCK_SIZE
      BY <1>1 DEF Extents, Typed, MajorHeader
    <3>2. 1 <= PMM_BLOCK_SIZE /\ PMM_BLOCK_SIZE \in Nat BY HeapSizes
    <3>3. 1 * major[m].pages <= PMM_BLOCK_SIZE * major[m].pages
      BY <3>1, <3>2, MultiplesInOrder
    <3>4. PMM_BLOCK_SIZE * major[m].pages = major[m].pages * PMM_BLOCK_SIZE BY <3>1, <3>2
    <3> QED BY <3>1, <3>3, <3>4
  <2> QED BY <2>1, <2>2, <2>3, <2>4, <2>5, HeapSizes DEF IsAddress, NULL
<1>6. ASSUME NEW m \in DOMAIN minor
      PROVE  /\ IsAddress(m) /\ m # NULL
             /\ {minor[m].prev, minor[m].next} \subseteq DOMAIN minor \cup {NULL}
             /\ minor[m].block \in DOMAIN major
             /\ {minor[m].size, minor[m].req_size} \subseteq 0 .. U32 - 1
  <2> DEFINE maj == minor[m].block
             S == Mine(minor, maj)
             first == major[maj].first
             lo == FirstMinor(maj)
             hi == maj + major[maj].size
  <2>1. /\ m \in Nat \ {0} /\ minor[m].size \in Nat
        /\ Ends(minor, m) = m + sizeof_minor + minor[m].size
        /\ maj \in DOMAIN major /\ Ends(minor, m) <= U32
    BY <1>1, MinorsApart
  <2>2. ListType(minor, S) /\ first \in Nat /\ lo \in Nat /\ hi \in Nat
    BY <1>1, <2>1, ListsAreTyped
  <2>3. InOrder(minor, S, first, lo, hi) /\ m \in S BY <1>1, <2>1 DEF Ordered, ListOf, Mine
  <2>4. \A k \in S : k \in DOMAIN minor BY DEF Mine
  <2> HIDE DEF S, first, lo, hi
  <2>5. minor[m].prev \in DOMAIN minor \cup {NULL} /\ minor[m].next \in DOMAIN minor \cup {NULL}
    BY <2>2, <2>3, <2>4, Neighbours
  <2>6. minor[m].req_size \in Nat BY <1>1 DEF Typed, MinorHeader
  <2>7. minor[m].req_size + (ALIGNMENT + ALIGN_INFO) <= minor[m].size BY DEF HInv, GivenOK
  <2>8. minor[m].req_size <= minor[m].size BY <2>1, <2>6, <2>7, HeapSizes
  <2> QED BY <2>1, <2>5, <2>6, <2>8, HeapSizes DEF IsAddress, NULL
<1>7. call.pc \in {"idle", "start", "major", "minor", "free_old"}
  BY DEF HInv, CallOK, Idle, Calls
<1>8. ASSUME NEW p \in DOMAIN given
      PROVE  IsAddress(p) /\ given[p].offset \in 0 .. U32 - 1
  <2>1. Behind(minor, p, given[p].offset, given[p].asked) BY DEF HInv, GivenOK
  <2> DEFINE m == HeaderOf(p, given[p].offset)
  <2>2. /\ m \in Nat /\ p \in Nat /\ p < U32 /\ given[p].offset \in Nat
        /\ m = p - given[p].offset - sizeof_minor
    BY <2>1, PointerOf DEF HeaderOf
  <2> HIDE DEF m
  <2>3. given[p].offset <= p BY <2>2, HeapSizes
  <2> QED BY <2>2, <2>3, HeapSizes DEF IsAddress
<1> QED BY <1>2, <1>3, <1>4, <1>5, <1>6, <1>7, <1>8 DEF HeapTypeOK

LEMMA HInvLinks == HInv => MajorsLinked
<1> SUFFICES ASSUME HInv PROVE MajorsLinked OBVIOUS
<1>1. Chain(major, l_memRoot) /\ Extents(major) BY DEF HInv, HeapShape, Body
<1>2. Reached
  <2>1. \A S \in SUBSET DOMAIN major : FromRoot(S) => ClosedFrom(major, l_memRoot, S)
    BY DEF FromRoot, ClosedFrom
  <2> QED BY <1>1, <2>1 DEF Reached, Chain
<1>3. \A m \in DOMAIN major :
        /\ IF major[m].prev = NULL THEN m = l_memRoot
           ELSE major[m].prev \in DOMAIN major /\ major[major[m].prev].next = m
        /\ major[m].next # NULL => major[major[m].next].prev = m
  BY <1>1 DEF Chain
<1>4. \A m \in DOMAIN major : \A k \in DOMAIN major \ {m} : Pages(m) \cap Pages(k) = {}
  BY <1>1 DEF Extents, Pages, PagesOf
<1>5. l_bestBet \in DOMAIN major \cup {NULL} BY DEF HInv, HeapShape
<1> QED BY <1>2, <1>3, <1>4, <1>5 DEF MajorsLinked

LEMMA HInvOrder == HInv => MinorsInOrder
<1> SUFFICES ASSUME HInv PROVE MinorsInOrder OBVIOUS
<1>1. Typed(major, minor) /\ Ordered(major, minor) BY DEF HInv, HeapShape, Body
<1> SUFFICES ASSUME NEW maj \in DOMAIN major
             PROVE  LET mine == MinorsOf(maj)
                    IN  /\ major[maj].first = IF mine = {} THEN NULL ELSE Least(mine)
                        /\ \A m \in mine :
                             LET before == {k \in mine : k < m}
                                 after == {k \in mine : k > m}
                             IN  /\ minor[m].next = IF after = {} THEN NULL ELSE Least(after)
                                 /\ minor[m].prev # NULL => minor[minor[m].prev].next = m
                                 /\ minor[m].prev = NULL => before = {}
                                 /\ FirstMinor(maj) <= m
                                 /\ EndOf(m) <= maj + major[maj].size
                                 /\ after # {} => EndOf(m) <= minor[m].next
  BY DEF MinorsInOrder
<1>2. MinorsOf(maj) = Mine(minor, maj) BY DEF MinorsOf, Mine
<1>3. ListType(minor, MinorsOf(maj)) /\ major[maj].first \in Nat /\ FirstMinor(maj) \in Nat
      /\ maj + major[maj].size \in Nat
  BY <1>1, <1>2, ListsAreTyped
<1>4. InOrder(minor, MinorsOf(maj), major[maj].first, FirstMinor(maj), maj + major[maj].size)
  BY <1>1, <1>2 DEF Ordered, ListOf
<1> QED BY <1>3, <1>4, OrderIsMinorsInOrder

LEMMA HInvTotals == HInv => TotalsExact
<1> SUFFICES ASSUME HInv PROVE TotalsExact OBVIOUS
<1>1. /\ UsageExact(major, minor)
      /\ l_inuse = Cardinality(InUse(minor)) /\ l_allocated = Cardinality(Allocated(major))
  BY DEF HInv, HeapShape, Body
<1>2. ASSUME NEW maj \in DOMAIN major
      PROVE  major[maj].usage = Cardinality(maj .. FirstMinor(maj) - 1
                                  \cup UNION {m .. EndOf(m) - 1 : m \in MinorsOf(maj)})
  BY <1>1 DEF UsageExact, Used, BytesOf, Mine, MinorsOf, Ends, EndOf
<1>3. l_inuse = Cardinality(UNION {m + sizeof_minor .. EndOf(m) - 1 : m \in DOMAIN minor})
  BY <1>1 DEF InUse, BodyOf, Ends, EndOf
<1>4. l_allocated = Cardinality(UNION {m .. m + major[m].size - 1 : m \in DOMAIN major})
  BY <1>1 DEF Allocated, ExtentOf
<1> QED BY <1>2, <1>3, <1>4 DEF TotalsExact

LEMMA HInvPages == HInv => PagesAccounted
<1> SUFFICES ASSUME HInv PROVE PagesAccounted OBVIOUS
<1>1. Extents(major) /\ HeldPages BY DEF HInv, HeapShape, Body
<1>2. \A m \in DOMAIN major : Pages(m) = PagesOf(major, m) /\ Pages(m) \subseteq Bits
  BY <1>1 DEF Extents, Pages, PagesOf
<1>3. {b \in Bits : held[b] > 0} = UNION {Pages(m) : m \in DOMAIN major}
  <2>1. ASSUME NEW b
        PROVE  b \in {c \in Bits : held[c] > 0} <=> \E m \in DOMAIN major : b \in Pages(m)
    BY <1>1, <1>2 DEF HeldPages
  <2> QED BY <2>1
<1>4. call = Idle => \A m \in DOMAIN major : major[m].first # NULL BY NoneEmpty DEF Idle
<1> QED BY <1>3, <1>4 DEF PagesAccounted

LEMMA HInvFits == HInv => AskedBytesFit
<1> SUFFICES ASSUME HInv PROVE AskedBytesFit OBVIOUS
<1>1. ASSUME NEW p \in DOMAIN given
      PROVE  /\ MinorOf(p) \in DOMAIN minor
             /\ MinorOf(p) + sizeof_minor <= p
             /\ p + given[p].asked <= EndOf(MinorOf(p))
             /\ p = ALIGN(MinorOf(p) + sizeof_minor)
             /\ MinorOf(p) = HeaderOf(p, given[p].offset)
  <2>1. Behind(minor, p, given[p].offset, given[p].asked) BY DEF HInv, GivenOK
  <2>2. EndOf(MinorOf(p)) = Ends(minor, MinorOf(p)) BY DEF EndOf, Ends
  <2> QED BY <2>1, <2>2, MinorOfIs, PointerOf
<1>2. \A p, q \in DOMAIN given : MinorOf(p) = MinorOf(q) => p = q BY <1>1
<1>3. call = Idle => DOMAIN minor = {MinorOf(p) : p \in DOMAIN given}
  <2> SUFFICES ASSUME call = Idle PROVE DOMAIN minor = {MinorOf(p) : p \in DOMAIN given}
    OBVIOUS
  <2>1. \A m \in DOMAIN minor : \E p \in DOMAIN given : m = HeaderOf(p, given[p].offset)
    BY DEF HInv, GivenOK, InFlight, Idle
  <2> QED BY <1>1, <2>1
<1> QED BY <1>1, <1>2, <1>3 DEF AskedBytesFit

(* The heap's variables have their types: every address and every size in  *)
(* a header is a u32, and every link leads to a header that is there.      *)
THEOREM HeapTypeCorrect == ASSUME NoOverflow PROVE HeapSpec => []HeapTypeOK
BY HeapInvariance, HInvTypes, PTL

(* The list of majors holds every major and no other, its links back undo  *)
(* its links forward, and the best bet was never given back.               *)
THEOREM MajorListIsWhole == ASSUME NoOverflow PROVE HeapSpec => []MajorsLinked
BY HeapInvariance, HInvLinks, PTL

(* No header and no allocation overlaps another, wherever kmalloc places   *)
(* a minor and whatever kfree unlinks.                                     *)
THEOREM MinorsNeverOverlap == ASSUME NoOverflow PROVE HeapSpec => []MinorsInOrder
BY HeapInvariance, HInvOrder, PTL

(* usage, l_inuse and l_allocated count what they say, to the byte.        *)
THEOREM TotalsStayExact == ASSUME NoOverflow PROVE HeapSpec => []TotalsExact
BY HeapInvariance, HInvTotals, PTL

(* The heap has the pages of its majors, and none that is all free.        *)
THEOREM FreedMemoryGoesBack == ASSUME NoOverflow PROVE HeapSpec => []PagesAccounted
BY HeapInvariance, HInvPages, PTL

(* Callers get at least the bytes they asked for, in a minor of their own. *)
THEOREM CallersGetTheirBytes == ASSUME NoOverflow PROVE HeapSpec => []AskedBytesFit
BY HeapInvariance, HInvFits, PTL
-----------------------------------------------------------------------------
(* The refinement of Blocks. *)

(* The blocks that are out lie apart, and so does the one of a krealloc    *)
(* that has not returned yet.                                              *)
BytesAt(p, len) == p .. p + len - 1
GoodBlock(p, len) == p \in Nat \ {0} /\ p % ALIGNMENT = 0 /\ len \in Asked
GivenApart ==
  /\ \A p \in DOMAIN given :
       /\ GoodBlock(p, given[p].asked)
       /\ \A q \in DOMAIN given \ {p} :
            BytesAt(p, given[p].asked) \cap BytesAt(q, given[q].asked) = {}
  /\ InFlight =>
       /\ GoodBlock(call.ptr, call.asked)
       /\ \A q \in DOMAIN given :
            BytesAt(call.ptr, call.asked) \cap BytesAt(q, given[q].asked) = {}

LEMMA PointersBytesApart ==
  ASSUME HInv, NEW p, NEW i, NEW a, NEW q, NEW j, NEW b,
         Behind(minor, p, i, a), Behind(minor, q, j, b), p # q
  PROVE  BytesAt(p, a) \cap BytesAt(q, b) = {}
<1> DEFINE m == HeaderOf(p, i)
           k == HeaderOf(q, j)
<1>1. /\ m \in DOMAIN minor /\ m \in Nat /\ p \in Nat /\ a \in Nat /\ m + sizeof_minor <= p
      /\ p + a <= Ends(minor, m) /\ p = ALIGN(m + sizeof_minor)
  BY PointerOf
<1>2. /\ k \in DOMAIN minor /\ k \in Nat /\ q \in Nat /\ b \in Nat /\ k + sizeof_minor <= q
      /\ q + b <= Ends(minor, k) /\ q = ALIGN(k + sizeof_minor)
  BY PointerOf
<1> HIDE DEF m, k
<1>3. m # k BY <1>1, <1>2
<1>4. Ends(minor, m) <= k \/ Ends(minor, k) <= m
  BY <1>1, <1>2, <1>3, MinorsApart DEF HInv, HeapShape, Body
<1>5. Ends(minor, m) \in Nat /\ Ends(minor, k) \in Nat
  BY <1>1, <1>2, MinorsApart DEF HInv, HeapShape, Body
<1> QED BY <1>1, <1>2, <1>4, <1>5, HeapSizes DEF BytesAt

LEMMA HInvApart == HInv => GivenApart
<1> SUFFICES ASSUME HInv PROVE GivenApart OBVIOUS
<1>1. \A p \in DOMAIN given : /\ given[p].asked \in Asked
                              /\ Behind(minor, p, given[p].offset, given[p].asked)
  BY DEF HInv, GivenOK, Pointer
<1>2. InFlight => /\ Behind(minor, call.ptr, call.offset, call.asked)
                  /\ call.ptr \notin DOMAIN given /\ call.asked \in Asked
  BY DEF HInv, GivenOK, CallOK, InFlight, Idle
<1>3. ASSUME NEW p \in DOMAIN given PROVE GoodBlock(p, given[p].asked)
  BY <1>1, PointerOf DEF GoodBlock
<1>4. ASSUME NEW p \in DOMAIN given, NEW q \in DOMAIN given \ {p}
      PROVE  BytesAt(p, given[p].asked) \cap BytesAt(q, given[q].asked) = {}
  BY <1>1, PointersBytesApart
<1>5. ASSUME InFlight PROVE GoodBlock(call.ptr, call.asked)
  BY <1>2, <1>5, PointerOf DEF GoodBlock
<1>6. ASSUME InFlight, NEW q \in DOMAIN given
      PROVE  BytesAt(call.ptr, call.asked) \cap BytesAt(q, given[q].asked) = {}
  BY <1>1, <1>2, <1>6, PointersBytesApart
<1> QED BY <1>3, <1>4, <1>5, <1>6 DEF GivenApart

BlockAt(p) == [at |-> p, len |-> given[p].asked]
Out == {BlockAt(p) : p \in DOMAIN given}

LEMMA OutIs == B!Next <=> \/ \E b \in Out' : B!Fits(b, Out) /\ Out' = Out \cup {b}
                          \/ \E b \in Out : Out' = Out \ {b}
                          \/ \E b \in Out, n \in Asked :
                               n <= b.len /\ Out' = (Out \ {b}) \cup {[b EXCEPT !.len = n]}
                          \/ \E b \in Out, c \in Out' : /\ B!Fits(c, Out) /\ c.len > b.len
                                                        /\ Out' = (Out \ {b}) \cup {c}
BY DEF B!Next, B!Malloc, B!Free, B!Shrink, B!Move, Out, BlockAt, Asked

LEMMA OutFits ==
  ASSUME NEW p, NEW len, GoodBlock(p, len),
         \A q \in DOMAIN given : BytesAt(p, len) \cap BytesAt(q, given[q].asked) = {}
  PROVE  B!Fits([at |-> p, len |-> len], Out)
<1> DEFINE b == [at |-> p, len |-> len]
<1>1. b.at = p /\ b.len = len OBVIOUS
<1>2. p > 0 /\ p % ALIGNMENT = 0 /\ len \in Asked BY DEF GoodBlock
<1>3. ASSUME NEW c \in Out PROVE B!Bytes(b) \cap B!Bytes(c) = {}
  <2>1. PICK q \in DOMAIN given : c = BlockAt(q) BY DEF Out
  <2>2. c.at = q /\ c.len = given[q].asked BY <2>1 DEF BlockAt
  <2>3. B!Bytes(c) = BytesAt(q, given[q].asked) BY <2>2 DEF B!Bytes, BytesAt
  <2>4. B!Bytes(b) = BytesAt(p, len) BY <1>1 DEF B!Bytes, BytesAt
  <2> QED BY <2>3, <2>4
<1> HIDE DEF b
<1>4. B!Fits(b, Out) BY <1>1, <1>2, <1>3 DEF B!Fits, Asked
<1> QED BY <1>4 DEF b

LEMMA GivesRefines ==
  ASSUME GivenApart', GivesOne
  PROVE  B!Next \/ Out' = Out
<1>1. CASE given' = given BY <1>1 DEF Out, BlockAt
<1>2. CASE \E ptr : /\ ptr \notin DOMAIN given /\ DOMAIN given' = DOMAIN given \cup {ptr}
                    /\ \A p \in DOMAIN given : given'[p] = given[p]
  <2>1. PICK ptr : /\ ptr \notin DOMAIN given /\ DOMAIN given' = DOMAIN given \cup {ptr}
                   /\ \A p \in DOMAIN given : given'[p] = given[p]
    BY <1>2
  <2> DEFINE b == [at |-> ptr, len |-> given'[ptr].asked]
  <2>2. Out' = Out \cup {b}
    <3>1. Out' = {[at |-> p, len |-> given'[p].asked] : p \in DOMAIN given'}
      BY DEF Out, BlockAt
    <3>2. ASSUME NEW c PROVE c \in Out' <=> c \in Out \cup {b}
      BY <2>1, <3>1 DEF Out, BlockAt
    <3> QED BY <3>2
  <2>3. B!Fits(b, Out)
    <3>1. GoodBlock(ptr, given'[ptr].asked) BY <2>1 DEF GivenApart, GoodBlock
    <3>2. \A q \in DOMAIN given :
            BytesAt(ptr, given'[ptr].asked) \cap BytesAt(q, given[q].asked) = {}
      <4>1. \A q \in DOMAIN given' \ {ptr} :
              BytesAt(ptr, given'[ptr].asked) \cap BytesAt(q, given'[q].asked) = {}
        BY <2>1 DEF GivenApart, BytesAt
      <4> QED BY <2>1, <4>1
    <3> QED BY <3>1, <3>2, OutFits
  <2> HIDE DEF b
  <2>4. b \in Out' BY <2>2
  <2> QED BY <2>2, <2>3, <2>4, OutIs
<1> QED BY <1>1, <1>2 DEF GivesOne

LEMMA WithoutRefines ==
  ASSUME NEW ptr \in DOMAIN given, given' = Without(ptr)
  PROVE  B!Next
<1>1. DOMAIN given' = DOMAIN given \ {ptr} /\ \A p \in DOMAIN given' : given'[p] = given[p]
  BY DEF Without
<1>2. Out' = {[at |-> p, len |-> given'[p].asked] : p \in DOMAIN given'}
  BY DEF Out, BlockAt
<1>3. \A p, q \in DOMAIN given : BlockAt(p) = BlockAt(q) => p = q BY DEF BlockAt
<1>4. Out' = Out \ {BlockAt(ptr)}
  <2>1. ASSUME NEW c PROVE c \in Out' <=> c \in Out \ {BlockAt(ptr)}
    <3>1. c \in Out' <=> \E p \in DOMAIN given \ {ptr} : c = BlockAt(p)
      BY <1>1, <1>2 DEF BlockAt
    <3>2. c \in Out <=> \E p \in DOMAIN given : c = BlockAt(p) BY DEF Out
    <3> QED BY <1>3, <3>1, <3>2
  <2> QED BY <2>1
<1>5. BlockAt(ptr) \in Out BY DEF Out
<1> QED BY <1>4, <1>5, OutIs

LEMMA InPlaceRefines ==
  ASSUME NEW ptr \in DOMAIN given, NEW size \in Asked, size <= given[ptr].asked,
         given[ptr] \in Pointer,
         given' = [given EXCEPT ![ptr].asked = size]
  PROVE  B!Next
<1>1. /\ DOMAIN given' = DOMAIN given
      /\ given'[ptr] = [given[ptr] EXCEPT !.asked = size]
      /\ \A p \in DOMAIN given \ {ptr} : given'[p] = given[p]
  OBVIOUS
<1>2. given'[ptr].asked = size BY <1>1 DEF Pointer
<1> DEFINE b == BlockAt(ptr)
           c == [b EXCEPT !.len = size]
<1>3. c = [at |-> ptr, len |-> size] /\ b.len = given[ptr].asked BY DEF BlockAt
<1>4. Out' = {[at |-> p, len |-> given'[p].asked] : p \in DOMAIN given'}
  BY DEF Out, BlockAt
<1>5. \A p, q \in DOMAIN given : BlockAt(p) = BlockAt(q) => p = q BY DEF BlockAt
<1>6. b \in Out BY DEF Out
<1>7. Out' = (Out \ {b}) \cup {c}
  <2>1. ASSUME NEW x PROVE x \in Out' <=> x \in (Out \ {b}) \cup {c}
    <3>1. x \in Out' <=> x = c \/ \E p \in DOMAIN given \ {ptr} : x = BlockAt(p)
      <4> HIDE DEF c
      <4> QED BY <1>1, <1>2, <1>3, <1>4 DEF BlockAt
    <3>2. x \in Out <=> \E p \in DOMAIN given : x = BlockAt(p) BY DEF Out
    <3> HIDE DEF c
    <3> QED BY <1>5, <3>1, <3>2
  <2> QED BY <2>1
<1>8. size <= b.len BY <1>3
<1> QED BY <1>6, <1>7, <1>8, OutIs

LEMMA FreeOldRefines ==
  ASSUME HInv, FreeOld
  PROVE  B!Next
<1> DEFINE old == call.old
           ptr == call.ptr
<1>1. /\ old \in DOMAIN given /\ given[old].asked < call.asked
      /\ ptr = NULL => given' = Without(old)
      /\ ptr # NULL =>
           /\ ptr \notin DOMAIN given
           /\ DOMAIN given' = (DOMAIN given \ {old}) \cup {ptr}
           /\ given'[ptr].asked = call.asked
           /\ \A p \in DOMAIN given \ {old} : given'[p] = given[p]
  BY FreeOldGiven
<1>2. CASE ptr = NULL BY <1>1, <1>2, WithoutRefines
<1>3. CASE ptr # NULL
  <2>1. InFlight BY <1>3 DEF InFlight, FreeOld
  <2> DEFINE c == [at |-> ptr, len |-> call.asked]
             b == BlockAt(old)
  <2>2. B!Fits(c, Out)
    <3>1. GivenApart BY HInvApart
    <3>2. GoodBlock(ptr, call.asked) BY <2>1, <3>1 DEF GivenApart
    <3>3. \A q \in DOMAIN given : BytesAt(ptr, call.asked) \cap BytesAt(q, given[q].asked) = {}
      BY <2>1, <3>1 DEF GivenApart
    <3> QED BY <3>2, <3>3, OutFits
  <2>3. Out' = {[at |-> p, len |-> given'[p].asked] : p \in DOMAIN given'}
    BY DEF Out, BlockAt
  <2>4. \A p, q \in DOMAIN given : BlockAt(p) = BlockAt(q) => p = q BY DEF BlockAt
  <2>5. Out' = (Out \ {b}) \cup {c}
    <3>1. ASSUME NEW x PROVE x \in Out' <=> x \in (Out \ {b}) \cup {c}
      <4>1. x \in Out' <=> x = c \/ \E p \in DOMAIN given \ {old} : x = BlockAt(p)
        BY <1>1, <1>3, <2>3 DEF BlockAt
      <4>2. x \in Out <=> \E p \in DOMAIN given : x = BlockAt(p) BY DEF Out
      <4> HIDE DEF c
      <4> QED BY <1>1, <2>4, <4>1, <4>2
    <3> QED BY <3>1
  <2>6. b \in Out BY <1>1 DEF Out
  <2>7. b.len = given[old].asked /\ c.len = call.asked BY DEF BlockAt
  <2>8. c.len > b.len
    <3>1. given[old].asked \in Int /\ call.asked \in Int
      <4>1. Behind(minor, old, given[old].offset, given[old].asked) BY <1>1 DEF HInv, GivenOK
      <4>2. call.asked \in Nat BY DEF FreeOld, HInv, CallOK, Idle, Calls
      <4> QED BY <4>1, <4>2, PointerOf
    <3> QED BY <1>1, <2>7, <3>1
  <2> HIDE DEF b, c
  <2>9. c \in Out' BY <2>5
  <2> QED BY <2>2, <2>5, <2>6, <2>8, <2>9, OutIs
<1> QED BY <1>2, <1>3

LEMMA StepRefinesBlocks ==
  ASSUME NoOverflow, HInv, HInv', GivenApart', [HeapNext]_vars
  PROVE  B!Next \/ Out' = Out
<1>1. CASE given' = given BY <1>1 DEF Out, BlockAt
<1>2. CASE Start BY <1>2, StartKeepsHInv, GivesRefines
<1>3. CASE MajorTurn BY <1>3, MajorTurnKeepsHInv, GivesRefines
<1>4. CASE MinorTurn BY <1>4, MinorTurnKeepsHInv, GivesRefines
<1>5. CASE FreeOld BY <1>5, FreeOldRefines
<1>6. ASSUME NEW ptr \in DOMAIN given, kfree(ptr) PROVE B!Next
  BY <1>6, WithoutRefines DEF kfree
<1>7. ASSUME NEW ptr \in DOMAIN given, NEW size \in Requests, krealloc(ptr, size)
      PROVE  B!Next \/ given' = given
  <2>1. CASE kfree(ptr) BY <1>6, <2>1
  <2>2. CASE /\ InPlace(MinorOf(ptr), size)
             /\ call = Idle
             /\ minor' = [minor EXCEPT ![MinorOf(ptr)].req_size = size]
             /\ given' = [given EXCEPT ![ptr].asked = size]
             /\ UNCHANGED <<pmmVars, l_memRoot, l_bestBet, l_allocated, l_inuse, major, call>>
    <3>1. size <= given[ptr].asked BY <2>2, InPlaceKeepsHInv
    <3>2. size \in Asked /\ given[ptr] \in Pointer BY DEF Asked, HInv, GivenOK
    <3> QED BY <2>2, <3>1, <3>2, InPlaceRefines
  <2>3. CASE Begin(size, size, ptr) BY <2>3 DEF Begin
  <2> QED BY <1>7, <2>1, <2>2, <2>3 DEF krealloc
<1>8. ASSUME NEW r \in Regions, Region(r) PROVE given' = given BY <1>8 DEF Region, heapVars
<1>9. ASSUME NEW n \in Requests, kmalloc(n) PROVE given' = given BY <1>9 DEF kmalloc, Begin
<1>10. ASSUME NEW o \in Objects, kcalloc(o[1], o[2]) PROVE given' = given
  BY <1>10 DEF kcalloc, Begin
<1>11. CASE UNCHANGED vars BY <1>1, <1>11 DEF vars, heapVars
<1> QED BY <1>1, <1>2, <1>3, <1>4, <1>5, <1>6, <1>7, <1>8, <1>9, <1>10, <1>11
        DEF HeapNext, Running

(* The heap keeps the promise of Blocks: whatever kmalloc hands out is     *)
(* aligned, not NULL, and apart from every block that is out; krealloc     *)
(* moves a block or shortens it.                                           *)
THEOREM HeapImplementsBlocks == ASSUME NoOverflow PROVE HeapSpec => ImplementsBlocks
<1>1. HeapInit => B!Init BY DEF HeapInit, B!Init
<1>2. HInv /\ HInv' /\ GivenApart' /\ [HeapNext]_vars => B!Next \/ Out' = Out
  BY StepRefinesBlocks
<1>3. Out' = Out <=> UNCHANGED {[at |-> p, len |-> given[p].asked] : p \in DOMAIN given}
  BY DEF Out, BlockAt
<1>4. HInv /\ HInv' /\ GivenApart' /\ [HeapNext]_vars
        => [B!Next]_({[at |-> p, len |-> given[p].asked] : p \in DOMAIN given})
  BY <1>2, <1>3
<1> QED BY <1>1, <1>4, HeapInvariance, HInvApart, PTL DEF HeapSpec, ImplementsBlocks, B!Spec
-----------------------------------------------------------------------------
(* The heap grows only when no major has a gap.                            *)

(* The gaps of a major, in front of its first minor and behind each.       *)
FrontGap(maj) == major[maj].first # NULL /\ Gap(FirstMinor(maj), major[maj].first)
GapAfter(maj, m) ==
  Gap(EndOf(m), IF minor[m].next = NULL THEN maj + major[maj].size ELSE minor[m].next)
GapIn(maj) == FrontGap(maj) \/ \E m \in Mine(minor, maj) : GapAfter(maj, m)

(* A search that did not start at the best bet has been in the majors of   *)
(* some D, which lead from the root to where it is, and found no gap; nor  *)
(* did it find one in front of the minor it is at.                         *)
Passed(D, maj) ==
  /\ l_memRoot \in D \cup {maj}
  /\ \A m \in D : major[m].next \in D \cup {maj} /\ ~GapIn(m)
Searching == call.pc \in {"major", "minor"}
SearchOK ==
  /\ Searching /\ ~call.startedBet => \E D \in SUBSET DOMAIN major : Passed(D, call.maj)
  /\ call.pc = "minor" =>
       /\ ~FrontGap(call.maj)
       /\ \A m \in Mine(minor, call.maj) : m < call.min => ~GapAfter(call.maj, m)

Full ==
  /\ l_allocated' > l_allocated => ~HasGap
  /\ call # Idle /\ call.pc # "free_old"
       /\ (call' = Idle \/ call'.pc = "free_old") /\ UNCHANGED minor => ~HasGap

LEMMA HasGapIs == HasGap <=> \E maj \in DOMAIN major : GapIn(maj)
BY DEF HasGap, GapIn, FrontGap, GapAfter, MinorsOf, Mine

(* A gap is room, so a major without room has none. *)
LEMMA NoRoomNoGap ==
  ASSUME NoOverflow, HInv, Searching, NEW maj \in DOMAIN major, Room(maj) < Needed
  PROVE  ~GapIn(maj)
<1>1. call # Idle BY DEF Searching, Idle
<1>2. call.size \in Nat /\ Needed = call.size + sizeof_minor /\ sizeof_minor \in Nat
  BY <1>1, CallIsSmall, HeapSizes DEF HInv
<1>3. /\ Typed(major, minor) /\ Extents(major) /\ Ordered(major, minor) /\ HeapShape
      /\ UsageExact(major, minor)
  BY DEF HInv, HeapShape, Body
<1>4. ASSUME NEW at \in Nat \ {0}, NEW prv \in Nat, NEW nxt \in Nat,
             GapOf(major, minor, maj, at, call.size, prv, nxt)
      PROVE  FALSE
  <2>1. /\ major[maj].usage + (call.size + sizeof_minor) <= major[maj].size
        /\ major[maj].usage \in Nat /\ major[maj].size \in Nat
    BY <1>2, <1>3, <1>4, GapFitsRoom
  <2>2. Room(maj) = major[maj].size - major[maj].usage BY <1>3, RoomIs
  <2> QED BY <1>2, <2>1, <2>2
<1>5. ~FrontGap(maj)
  <2> SUFFICES ASSUME FrontGap(maj) PROVE FALSE OBVIOUS
  <2> DEFINE first == major[maj].first
  <2>1. first # NULL /\ first - FirstMinor(maj) >= call.size + sizeof_minor
    BY DEF FrontGap, Gap
  <2>2. first \in Nat /\ maj \in Nat /\ major[maj].size \in Nat
    BY <1>3, RootIsMajor, RoomIs
  <2>3. FirstMinor(maj) \in Nat BY <2>2, HeapSizes DEF FirstMinor
  <2> HIDE DEF first
  <2>4. FirstMinor(maj) + sizeof_minor + call.size <= first BY <1>2, <2>1, <2>2, <2>3
  <2>5. GapOf(major, minor, maj, FirstMinor(maj), call.size, NULL, first)
        /\ FirstMinor(maj) \in Nat \ {0}
    BY <1>2, <2>1, <2>2, <2>4, GapInFront DEF first
  <2>6. NULL \in Nat BY DEF NULL
  <2> QED BY <1>4, <2>2, <2>5, <2>6
<1>6. ASSUME NEW m \in Mine(minor, maj), GapAfter(maj, m) PROVE FALSE
  <2> DEFINE nxt == minor[m].next
             limit == IF nxt = NULL THEN maj + major[maj].size ELSE nxt
  <2>1. /\ EndOf(m) \in Nat \ {0} /\ m \in Nat \ {0} /\ nxt \in Nat /\ limit \in Nat
        /\ EndOf(m) + sizeof_minor + call.size <= limit =>
             GapOf(major, minor, maj, EndOf(m), call.size, m, nxt)
    BY <1>2, <1>3, GapBehind
  <2>2. limit - EndOf(m) >= call.size + sizeof_minor BY <1>6 DEF GapAfter, Gap
  <2> HIDE DEF limit, nxt
  <2>3. EndOf(m) + sizeof_minor + call.size <= limit BY <1>2, <2>1, <2>2
  <2> QED BY <1>4, <2>1, <2>3
<1> QED BY <1>5, <1>6 DEF GapIn

(* At the last minor of a major, none of them has a gap behind it. *)
LEMMA NoMinorNoGap ==
  ASSUME NoOverflow, HInv, SearchOK, call.pc = "minor"
  PROVE  LET min == call.min
             nxt == minor[min].next
             limit == IF nxt = NULL THEN call.maj + major[call.maj].size ELSE nxt
         IN  Wrap(limit - EndOf(min)) < Needed =>
               /\ nxt = NULL => ~GapIn(call.maj)
               /\ nxt # NULL => \A m \in Mine(minor, call.maj) :
                                  m < nxt => ~GapAfter(call.maj, m)
<1> DEFINE maj == call.maj
           min == call.min
           nxt == minor[min].next
           limit == IF nxt = NULL THEN maj + major[maj].size ELSE nxt
           S == Mine(minor, maj)
           first == major[maj].first
           lo == FirstMinor(maj)
           hi == maj + major[maj].size
<1>1. call # Idle BY DEF Idle
<1>2. call.size \in Nat /\ Needed = call.size + sizeof_minor /\ sizeof_minor \in Nat
  BY <1>1, CallIsSmall, HeapSizes DEF HInv
<1>3. Typed(major, minor) /\ Ordered(major, minor) /\ HeapShape BY DEF HInv, HeapShape, Body
<1>4. maj \in DOMAIN major /\ min \in S BY <1>1 DEF HInv, CallOK
<1>5. EndOf(min) \in Nat /\ limit \in Nat /\ Wrap(limit - EndOf(min)) = limit - EndOf(min)
  BY <1>3, <1>4, GapBehind
<1> SUFFICES ASSUME Wrap(limit - EndOf(min)) < Needed
             PROVE  /\ nxt = NULL => ~GapIn(maj)
                    /\ nxt # NULL => \A m \in S : m < nxt => ~GapAfter(maj, m)
  OBVIOUS
<1>6. ~GapAfter(maj, min)
  <2>1. GapAfter(maj, min) <=> limit - EndOf(min) >= call.size + sizeof_minor
    BY DEF GapAfter, Gap
  <2> HIDE DEF limit
  <2> QED BY <1>2, <1>5, <2>1
<1>7. ~FrontGap(maj) /\ \A m \in S : m < min => ~GapAfter(maj, m) BY DEF SearchOK
<1>8. /\ ListType(minor, S) /\ first \in Nat /\ lo \in Nat /\ hi \in Nat
      /\ InOrder(minor, S, first, lo, hi)
  BY <1>3, <1>4, ListsAreTyped DEF Ordered, ListOf
<1> HIDE DEF S, first, lo, hi
<1>9. /\ nxt # NULL => \A k \in S : k <= min \/ nxt <= k
      /\ nxt = NULL => \A k \in S : k <= min
  BY <1>4, <1>8, Neighbours
<1>10. \A k \in S : k \in Nat BY <1>8 DEF ListType
<1>11. nxt # NULL => nxt \in Nat BY <1>3, <1>4, GapBehind DEF S
<1>12. \A k \in S : k <= min => ~GapAfter(maj, k) BY <1>4, <1>6, <1>7, <1>10
<1>13. nxt = NULL => ~GapIn(maj) BY <1>7, <1>9, <1>12 DEF GapIn, S
<1>14. nxt # NULL => \A m \in S : m < nxt => ~GapAfter(maj, m)
  BY <1>9, <1>10, <1>11, <1>12
<1> QED BY <1>13, <1>14

(* At the end of the list, all majors have been passed. *)
LEMMA AllPassed ==
  ASSUME HInv, SearchOK, Searching, ~call.startedBet, Last(call.maj), ~GapIn(call.maj)
  PROVE  ~HasGap
<1>1. PICK D \in SUBSET DOMAIN major : Passed(D, call.maj) BY DEF SearchOK
<1>2. call.maj \in DOMAIN major BY DEF HInv, CallOK, Searching, Idle
<1>3. ClosedFrom(major, l_memRoot, D \cup {call.maj})
  BY <1>1 DEF ClosedFrom, Passed, Last
<1>4. D \cup {call.maj} = DOMAIN major BY <1>2, <1>3 DEF HInv, HeapShape, Body, Chain
<1> QED BY <1>1, <1>4, HasGapIs DEF Passed

(* What a step that neither grows nor searches on leaves true. *)
LEMMA QuietStep ==
  ASSUME HInv, l_allocated' = l_allocated, call'.pc \notin {"major", "minor"},
         \/ call = Idle \/ call.pc = "free_old" \/ minor' # minor
  PROVE  SearchOK' /\ Full
<1>1. l_allocated \in Nat BY HInvTypes DEF HeapTypeOK
<1>2. ~(l_allocated' > l_allocated) BY <1>1
<1>3. SearchOK' BY DEF SearchOK, Searching
<1>4. Full BY <1>2 DEF Full
<1> QED BY <1>3, <1>4

LEMMA ReleaseShrinks ==
  ASSUME HInv, call.pc \notin {"major", "minor"}, NEW min \in DOMAIN minor, Release(min),
         call'.pc \notin {"major", "minor"}, call = Idle \/ call.pc = "free_old"
  PROVE  SearchOK' /\ Full
<1> DEFINE M == WithoutMinor(min)
           maj == minor[min].block
<1>1. l_allocated \in Nat BY HInvTypes DEF HeapTypeOK
<1>2. \/ M[maj].first = NULL /\ DropMajor(M, maj)
      \/ M[maj].first # NULL /\ KeepMajor(M, maj)
  BY DEF Release, WithoutMinor
<1>3. ~(l_allocated' > l_allocated)
  <2>1. CASE M[maj].first = NULL /\ DropMajor(M, maj)
    <3>1. Body(M, minor', l_memRoot, l_inuse', l_allocated) BY ReleaseKeepsBody DEF HInv
    <3>2. maj \in DOMAIN M
      <4>1. maj \in DOMAIN major BY DEF HInv, HeapShape, Body, Typed
      <4>2. DOMAIN M = DOMAIN major BY DEF WithoutMinor
      <4> QED BY <4>1, <4>2
    <3>3. l_allocated' = l_allocated - M[maj].size BY <2>1 DEF DropMajor
    <3> HIDE DEF M, maj
    <3>4. M[maj].size \in Nat BY <3>1, <3>2 DEF Body, Typed, MajorHeader
    <3> QED BY <1>1, <3>3, <3>4
  <2>2. CASE KeepMajor(M, maj)
    <3>1. l_allocated' = l_allocated BY <2>2 DEF KeepMajor, KeepPages
    <3> QED BY <1>1, <3>1
  <2> QED BY <1>2, <2>1, <2>2
<1>4. SearchOK' BY DEF SearchOK, Searching
<1>5. Full BY <1>3 DEF Full
<1> QED BY <1>4, <1>5

LEMMA ReturnEnds ==
  ASSUME call \in Calls, NEW ptr, NEW base, Return(ptr, base)
  PROVE  call'.pc \in {"idle", "free_old"}
<1>1. CASE call.old # NULL
  <2> DEFINE offset == ptr - base
  <2>1. call' = [call EXCEPT !.pc = "free_old", !.ptr = ptr, !.offset = offset]
    BY <1>1 DEF Return
  <2> HIDE DEF offset
  <2> QED BY <2>1 DEF Calls
<1>2. CASE call.old = NULL
  <2>1. call' = Idle BY <1>2 DEF Return
  <2> QED BY <2>1 DEF Idle
<1> QED BY <1>1, <1>2

(* Moving on within the same heap. *)
LEMMA GoesOn ==
  ASSUME HInv, Searching, UNCHANGED <<l_memRoot, l_allocated, major, minor>>,
         call'.pc = "major", call'.size = call.size,
         ~call'.startedBet =>
            \E D \in SUBSET DOMAIN major : Passed(D, call'.maj)
  PROVE  SearchOK' /\ Full
<1>1. l_allocated \in Nat BY HInvTypes DEF HeapTypeOK
<1>2. Full BY <1>1 DEF Full, Idle
<1>3. \A m : GapIn(m)' <=> GapIn(m)
  BY DEF GapIn, FrontGap, GapAfter, Gap, EndOf, FirstMinor, Mine
<1>4. ~call'.startedBet => \E D \in SUBSET DOMAIN major' : Passed(D, call.maj)'
  <2> SUFFICES ASSUME ~call'.startedBet
               PROVE  \E D \in SUBSET DOMAIN major' : Passed(D, call.maj)'
    OBVIOUS
  <2>1. PICK D \in SUBSET DOMAIN major : Passed(D, call'.maj) OBVIOUS
  <2>2. D \in SUBSET DOMAIN major' BY <2>1
  <2>3. /\ l_memRoot' \in D \cup {call'.maj}
        /\ \A m \in D : major'[m].next \in D \cup {call'.maj} /\ ~GapIn(m)'
    BY <1>3, <2>1 DEF Passed
  <2> QED BY <2>2, <2>3 DEF Passed
<1>5. SearchOK' BY <1>4 DEF SearchOK
<1> QED BY <1>2, <1>5

LEMMA AdvanceSearches ==
  ASSUME NoOverflow, HInv, SearchOK, Searching, NEW best, Advance(best), ~GapIn(call.maj)
  PROVE  SearchOK' /\ Full
<1>1. call \in Calls /\ call.maj \in DOMAIN major BY DEF HInv, CallOK, Searching, Idle
<1>2. l_allocated \in Nat BY HInvTypes DEF HeapTypeOK
<1>3. ASSUME NEW maj, NEW bet, GoTo(maj, bet, best)
      PROVE  /\ UNCHANGED <<l_memRoot, l_allocated, major, minor>>
             /\ call'.pc = "major" /\ call'.size = call.size /\ call'.maj = maj
             /\ call'.startedBet = bet
  BY <1>1, <1>3 DEF GoTo, KeepPages, Calls
<1>4. CASE ~Last(call.maj) /\ GoTo(major[call.maj].next, call.startedBet, best)
  <2> DEFINE nxt == major[call.maj].next
  <2>1. /\ UNCHANGED <<l_memRoot, l_allocated, major, minor>>
        /\ call'.pc = "major" /\ call'.size = call.size /\ call'.maj = nxt
        /\ call'.startedBet = call.startedBet
    BY <1>3, <1>4
  <2>2. ~call.startedBet => \E D \in SUBSET DOMAIN major : Passed(D, nxt)
    <3> SUFFICES ASSUME ~call.startedBet
                 PROVE  \E D \in SUBSET DOMAIN major : Passed(D, nxt)
      OBVIOUS
    <3>1. PICK D \in SUBSET DOMAIN major : Passed(D, call.maj) BY DEF SearchOK
    <3>2. Passed(D \cup {call.maj}, nxt) BY <3>1 DEF Passed
    <3>3. D \cup {call.maj} \in SUBSET DOMAIN major BY <1>1, <3>1
    <3> QED BY <3>2, <3>3
  <2> HIDE DEF nxt
  <2> QED BY <2>1, <2>2, GoesOn
<1>5. CASE Last(call.maj) /\ call.startedBet /\ GoTo(l_memRoot, FALSE, best)
  <2>1. /\ UNCHANGED <<l_memRoot, l_allocated, major, minor>>
        /\ call'.pc = "major" /\ call'.size = call.size /\ call'.maj = l_memRoot
    BY <1>3, <1>5
  <2>2. Passed({}, l_memRoot) /\ {} \in SUBSET DOMAIN major BY DEF Passed
  <2> QED BY <2>1, <2>2, GoesOn
<1>6. CASE Last(call.maj) /\ ~call.startedBet /\ NewMajor = NULL /\ ReturnNull
  <2>1. ~HasGap BY <1>6, AllPassed
  <2>2. call'.pc \in {"idle", "free_old"} BY <1>1, <1>6, ReturnEnds DEF ReturnNull
  <2> QED BY <2>1, <2>2 DEF Full, SearchOK, Searching
<1> QED BY <1>4, <1>5, <1>6 DEF Advance

(* A minor in a major that is there ends the search. *)
LEMMA PlaceEnds ==
  ASSUME NoOverflow, HInv, HInv', Searching, NEW at, NEW prv, NEW nxt, PlaceHere(at, prv, nxt)
  PROVE  SearchOK' /\ Full
<1>1. call \in Calls /\ call # Idle BY DEF HInv, CallOK, Searching, Idle
<1>2. call'.pc \in {"idle", "free_old"} /\ l_allocated' = l_allocated
      /\ l_inuse' = l_inuse + call.size
  BY <1>1, ReturnEnds DEF PlaceHere, Place, KeepPages
<1>3. minor' # minor
  <2> SUFFICES ASSUME minor' = minor PROVE FALSE OBVIOUS
  <2>1. l_inuse = Cardinality(InUse(minor)) /\ l_inuse' = Cardinality(InUse(minor'))
    BY DEF HInv, HeapShape, Body
  <2>2. l_inuse \in Nat BY HInvTypes DEF HeapTypeOK
  <2>3. call.size \in Nat \ {0}
    <3>1. call.req \in Nat /\ call.size = call.req + (ALIGNMENT + ALIGN_INFO)
      BY <1>1, CallIsSmall DEF HInv
    <3> QED BY <3>1, HeapSizes
  <2> QED BY <1>2, <2>1, <2>2, <2>3
<1> QED BY <1>2, <1>3, QuietStep

(* A search starts at the root, unless it starts at the best bet. *)
LEMMA StartSearches ==
  ASSUME call'.pc = "major", ~call'.startedBet => call'.maj = l_memRoot'
  PROVE  SearchOK'
<1>1. Passed({}, call.maj)' <=> l_memRoot' \in {call'.maj} BY DEF Passed
<1>2. {} \in SUBSET DOMAIN major' OBVIOUS
<1>3. ~call'.startedBet => \E D \in SUBSET DOMAIN major' : Passed(D, call.maj)'
  BY <1>1, <1>2
<1> QED BY <1>3 DEF SearchOK

LEMMA StartGrowsWhenFull ==
  ASSUME NoOverflow, HInv, Start
  PROVE  SearchOK' /\ Full
<1>1. call.pc = "start" /\ call # Idle BY DEF Start, Idle
<1>2. call \in Calls /\ l_allocated \in Nat
  BY <1>1, HInvTypes DEF HInv, CallOK, HeapTypeOK
<1>3. l_memRoot = NULL => ~HasGap BY RootIsMajor, HasGapIs DEF HInv
<1>4. ASSUME NEW root, StartSearch(root)
      PROVE  call'.pc = "major" /\ (~call'.startedBet => call'.maj = root)
  <2> DEFINE bestSize == IF l_bestBet = NULL THEN 0 ELSE Room(l_bestBet)
             bet == bestSize > Needed
             maj == IF bet THEN l_bestBet ELSE root
  <2>1. call' = [call EXCEPT !.pc = "major", !.maj = maj, !.startedBet = bet,
                             !.bestSize = bestSize]
    BY <1>4 DEF StartSearch
  <2>2. maj = IF bet THEN l_bestBet ELSE root OBVIOUS
  <2> HIDE DEF bestSize, bet, maj
  <2>3. call'.pc = "major" /\ call'.startedBet = bet /\ call'.maj = maj
    BY <1>2, <2>1 DEF Calls
  <2> QED BY <2>2, <2>3
<1>5. CASE l_memRoot = NULL /\ NewMajor = NULL /\ ReturnNull /\ UNCHANGED l_bestBet
  <2>1. call'.pc \in {"idle", "free_old"} BY <1>2, <1>5, ReturnEnds DEF ReturnNull
  <2> QED BY <1>3, <1>5, <2>1 DEF Full, SearchOK, Searching
<1>6. CASE /\ l_memRoot = NULL
           /\ TakePages
           /\ major' = WithNewMajor(NewMajor, NULL)
           /\ l_memRoot' = NewMajor
           /\ StartSearch(NewMajor)
  <2>1. SearchOK' BY <1>4, <1>6, StartSearches
  <2> QED BY <1>3, <1>6, <2>1 DEF Full
<1>7. CASE /\ l_memRoot # NULL
           /\ KeepPages
           /\ UNCHANGED <<l_memRoot, major>>
           /\ StartSearch(l_memRoot)
  <2>1. SearchOK' BY <1>4, <1>7, StartSearches
  <2>2. call'.pc = "major" /\ l_allocated' = l_allocated BY <1>4, <1>7 DEF KeepPages
  <2> QED BY <1>2, <2>1, <2>2 DEF Full, Idle
<1> QED BY <1>5, <1>6, <1>7 DEF Start

(* Going on to look at a minor of the same major. *)
LEMMA LooksAtMinor ==
  ASSUME HInv, SearchOK, Searching, KeepPages, UNCHANGED <<l_memRoot, major, minor>>,
         call'.pc = "minor", call'.size = call.size, call'.maj = call.maj,
         call'.startedBet = call.startedBet, ~FrontGap(call.maj),
         \A m \in Mine(minor, call.maj) : m < call'.min => ~GapAfter(call.maj, m)
  PROVE  SearchOK' /\ Full
<1>1. l_allocated \in Nat /\ l_allocated' = l_allocated
  BY HInvTypes DEF HeapTypeOK, KeepPages
<1>2. Full BY <1>1 DEF Full, Idle
<1>3. \A m : GapIn(m)' <=> GapIn(m)
  BY DEF GapIn, FrontGap, GapAfter, Gap, EndOf, FirstMinor, Mine
<1>4. FrontGap(call.maj)' <=> FrontGap(call.maj) BY DEF FrontGap, Gap, FirstMinor
<1>5. /\ Mine(minor, call.maj)' = Mine(minor, call.maj)
      /\ \A m : GapAfter(call.maj, m)' <=> GapAfter(call.maj, m)
  BY DEF GapAfter, Gap, EndOf, Mine
<1>6. ~call'.startedBet => \E D \in SUBSET DOMAIN major' : Passed(D, call.maj)'
  <2> SUFFICES ASSUME ~call'.startedBet
               PROVE  \E D \in SUBSET DOMAIN major' : Passed(D, call.maj)'
    OBVIOUS
  <2>1. PICK D \in SUBSET DOMAIN major : Passed(D, call.maj) BY DEF SearchOK
  <2>2. D \in SUBSET DOMAIN major' BY <2>1
  <2>3. /\ l_memRoot' \in D \cup {call'.maj}
        /\ \A m \in D : major'[m].next \in D \cup {call'.maj} /\ ~GapIn(m)'
    BY <1>3, <2>1 DEF Passed
  <2> QED BY <2>2, <2>3 DEF Passed
<1>7. SearchOK' BY <1>4, <1>5, <1>6 DEF SearchOK
<1> QED BY <1>2, <1>7

LEMMA MajorTurnGrowsWhenFull ==
  ASSUME NoOverflow, HInv, HInv', SearchOK, MajorTurn
  PROVE  SearchOK' /\ Full
<1> DEFINE maj == call.maj
           diff == Room(maj)
           first == major[maj].first
           front == Wrap(first - maj - sizeof_major)
           best == IF call.bestSize < diff THEN diff ELSE call.bestSize
<1>1. call.pc = "major" /\ call # Idle /\ Searching BY DEF MajorTurn, Idle, Searching
<1>2. HeapShape /\ CallOK BY DEF HInv
<1>3. maj \in DOMAIN major /\ call \in Calls BY <1>1, <1>2 DEF CallOK
<1>4. call.size \in Nat /\ Needed = call.size + sizeof_minor
  BY <1>1, <1>2, CallIsSmall
<1>5. diff < Needed => ~GapIn(maj) BY <1>1, <1>3, NoRoomNoGap
<1>6. CASE diff < Needed /\ Advance(best)
  <2> HIDE DEF best, diff
  <2> QED BY <1>1, <1>5, <1>6, AdvanceSearches
<1>7. CASE /\ diff < Needed /\ Grow
           /\ Place(WithNewMajor(NewMajor, maj), NewMajor, FirstMinor(NewMajor), NULL, NULL)
  <2>1. ~HasGap BY <1>1, <1>5, <1>7, AllPassed DEF Grow
  <2>2. call'.pc \in {"idle", "free_old"} BY <1>3, <1>7, ReturnEnds DEF Place
  <2> QED BY <2>1, <2>2 DEF Full, SearchOK, Searching
<1>8. CASE PlaceHere(FirstMinor(maj), NULL, NULL) \/ PlaceHere(FirstMinor(maj), NULL, first)
  <2> HIDE DEF maj, first
  <2> QED BY <1>1, <1>8, PlaceEnds
<1>9. CASE /\ diff >= Needed /\ first # NULL /\ front < Needed
           /\ call' = [call EXCEPT !.pc = "minor", !.min = first, !.bestSize = best]
           /\ KeepPages
           /\ UNCHANGED <<l_memRoot, l_inuse, major, minor, given>>
  <2>1. /\ first \in Nat /\ FirstMinor(maj) <= first /\ maj \in Nat
        /\ front = first - FirstMinor(maj)
    BY <1>2, <1>3, <1>9, FirstIsMine
  <2>2. ~FrontGap(maj)
    <3>1. FrontGap(maj) => first - FirstMinor(maj) >= call.size + sizeof_minor
      BY DEF FrontGap, Gap
    <3>2. FirstMinor(maj) \in Nat /\ sizeof_minor \in Nat
      BY <2>1, HeapSizes DEF FirstMinor
    <3> HIDE DEF first, front, maj
    <3> QED BY <1>4, <1>9, <2>1, <3>1, <3>2
  <2>3. \A m \in Mine(minor, maj) : first <= m /\ m \in Nat
    <3>1. ListOf(major, minor, maj) /\ Typed(major, minor)
      BY <1>2, <1>3 DEF HeapShape, Body, Ordered
    <3> QED BY <1>9, <3>1 DEF ListOf, InOrder, FirstOf, Typed, Mine
  <2>4. \A m \in Mine(minor, maj) : ~(m < first)
    <3> HIDE DEF first, maj
    <3> QED BY <2>1, <2>3
  <2>5. /\ call'.pc = "minor" /\ call'.size = call.size /\ call'.maj = call.maj
        /\ call'.startedBet = call.startedBet /\ call'.min = first
    <3>1. call' = [call EXCEPT !.pc = "minor", !.min = first, !.bestSize = best] BY <1>9
    <3> HIDE DEF first, best
    <3> QED BY <1>3, <3>1 DEF Calls
  <2> HIDE DEF first, best, diff, front
  <2> QED BY <1>1, <1>9, <2>2, <2>4, <2>5, LooksAtMinor
<1> QED BY <1>6, <1>7, <1>8, <1>9 DEF MajorTurn

(* Behind a new major, the search has been everywhere else. *)
LEMMA NewMajorIsNext ==
  ASSUME NoOverflow, HInv, SearchOK, Searching, Grow, ~GapIn(call.maj),
         major' = WithNewMajor(NewMajor, call.maj), minor' = minor,
         call' = [call EXCEPT !.pc = "major", !.maj = NewMajor]
  PROVE  SearchOK'
<1> DEFINE at == NewMajor
           maj == call.maj
           M == WithNewMajor(at, maj)
<1>1. call # Idle /\ call.pc # "free_old" BY DEF Searching, Idle
<1>2. maj \in DOMAIN major /\ maj \in Nat \ {0} /\ call \in Calls
  BY <1>1, RootIsMajor DEF HInv, CallOK, Searching
<1>3. Small(call.size) BY <1>1, CallIsSmall DEF HInv
<1>4. TakePages /\ l_memRoot' = l_memRoot /\ ~call.startedBet BY DEF Grow
<1>5. at \in Nat \ {0} /\ at \notin DOMAIN major BY <1>3, <1>4, TakenPagesAreNew DEF HInv
<1>6. PagesFor(call.size) \in Nat BY <1>3, PagesForFits
<1>7. Added(major, M, at) BY <1>2, <1>5, <1>6, NewMajorFields DEF HInv
<1>8. \A m \in DOMAIN major : M[m].next = IF m = maj THEN at ELSE major[m].next
  <2> TAKE m \in DOMAIN major
  <2>1. M[m] = IF m = maj THEN [major[m] EXCEPT !.next = at] ELSE major[m]
    BY <1>5 DEF WithNewMajor
  <2>2. major[m] \in MajorHeader BY DEF HInv, HeapShape, Body, Typed
  <2> HIDE DEF M, maj, at
  <2> QED BY <2>1, <2>2 DEF MajorHeader
<1>9. call'.pc = "major" /\ call'.maj = at /\ call'.size = call.size
  <2>1. call' = [call EXCEPT !.pc = "major", !.maj = at] OBVIOUS
  <2> HIDE DEF at
  <2> QED BY <1>2, <2>1 DEF Calls
<1>10. major' = M OBVIOUS
<1> HIDE DEF M, at
<1>11. \A m \in DOMAIN major : GapIn(m)' <=> GapIn(m)
  <2> TAKE m \in DOMAIN major
  <2>1. major'[m].first = major[m].first /\ major'[m].size = major[m].size
    BY <1>7, <1>10 DEF Added
  <2>2. FrontGap(m)' <=> FrontGap(m) BY <1>9, <2>1 DEF FrontGap, Gap, FirstMinor
  <2>3. \A k : GapAfter(m, k)' <=> GapAfter(m, k) BY <1>9, <2>1 DEF GapAfter, Gap, EndOf
  <2> QED BY <2>2, <2>3 DEF GapIn, Mine
<1>12. PICK D \in SUBSET DOMAIN major : Passed(D, maj) BY <1>4 DEF SearchOK
<1> PICK E : E = D \cup {maj} OBVIOUS
<1>13. E \in SUBSET DOMAIN major /\ E \in SUBSET DOMAIN major'
  BY <1>2, <1>7, <1>10, <1>12 DEF Added
<1>14. l_memRoot' \in E BY <1>4, <1>12 DEF Passed
<1>15. \A m \in E : major'[m].next \in E \cup {at} /\ ~GapIn(m)'
  BY <1>8, <1>10, <1>11, <1>12, <1>13 DEF Passed
<1>16. Passed(E, call.maj)' BY <1>9, <1>14, <1>15 DEF Passed
<1> QED BY <1>9, <1>13, <1>16 DEF SearchOK

LEMMA MinorTurnGrowsWhenFull ==
  ASSUME NoOverflow, HInv, HInv', SearchOK, MinorTurn
  PROVE  SearchOK' /\ Full
<1> DEFINE maj == call.maj
           min == call.min
           nxt == minor[min].next
           limit == IF nxt = NULL THEN maj + major[maj].size ELSE nxt
           diff == Wrap(limit - EndOf(min))
<1>1. call.pc = "minor" /\ call # Idle /\ Searching BY DEF MinorTurn, Idle, Searching
<1>2. call \in Calls BY <1>1 DEF HInv, CallOK
<1>3. diff < Needed =>
        /\ nxt = NULL => ~GapIn(maj)
        /\ nxt # NULL => \A m \in Mine(minor, maj) : m < nxt => ~GapAfter(maj, m)
  BY <1>1, NoMinorNoGap
<1> HIDE DEF diff
<1>4. CASE PlaceHere(EndOf(min), min, nxt)
  <2> HIDE DEF min, nxt
  <2> QED BY <1>1, <1>4, PlaceEnds
<1>5. CASE /\ diff < Needed /\ nxt # NULL
           /\ call' = [call EXCEPT !.min = nxt]
           /\ KeepPages
           /\ UNCHANGED <<l_memRoot, l_inuse, major, minor, given>>
  <2>1. /\ call'.pc = "minor" /\ call'.size = call.size /\ call'.maj = call.maj
        /\ call'.startedBet = call.startedBet /\ call'.min = nxt
    <3>1. call' = [call EXCEPT !.min = nxt] BY <1>5
    <3> HIDE DEF nxt
    <3> QED BY <1>1, <1>2, <3>1 DEF Calls
  <2>2. ~FrontGap(maj) BY <1>1 DEF SearchOK
  <2>3. \A m \in Mine(minor, maj) : m < nxt => ~GapAfter(maj, m) BY <1>3, <1>5
  <2> HIDE DEF nxt
  <2> QED BY <1>1, <1>5, <2>1, <2>2, <2>3, LooksAtMinor
<1>6. CASE diff < Needed /\ nxt = NULL /\ Advance(call.bestSize)
  BY <1>1, <1>3, <1>6, AdvanceSearches
<1>7. CASE /\ diff < Needed /\ nxt = NULL /\ Grow
           /\ major' = WithNewMajor(NewMajor, call.maj)
           /\ call' = [call EXCEPT !.pc = "major", !.maj = NewMajor]
           /\ UNCHANGED <<l_inuse, minor, given>>
  <2>1. ~HasGap BY <1>1, <1>3, <1>7, AllPassed DEF Grow
  <2>2. SearchOK' BY <1>1, <1>3, <1>7, NewMajorIsNext
  <2> QED BY <2>1, <2>2 DEF Full
<1> QED BY <1>4, <1>5, <1>6, <1>7 DEF MinorTurn, diff

LEMMA StepGrowsWhenFull ==
  ASSUME NoOverflow, HInv, HInv', SearchOK, [HeapNext]_vars
  PROVE  SearchOK' /\ [Full]_vars
<1>1. ASSUME NEW req, NEW asked, NEW old, Begin(req, asked, old)
      PROVE  SearchOK' /\ Full
  <2>1. call = Idle /\ l_allocated' = l_allocated /\ call'.pc = "start"
    BY <1>1 DEF Begin
  <2> QED BY <2>1, QuietStep
<1>2. ASSUME NEW ptr \in DOMAIN given, kfree(ptr) PROVE SearchOK' /\ Full
  <2>1. MinorOf(ptr) \in DOMAIN minor BY HInvFits DEF AskedBytesFit
  <2>2. call = Idle /\ Release(MinorOf(ptr)) /\ call' = call BY <1>2 DEF kfree
  <2>3. call.pc \notin {"major", "minor"} /\ call'.pc \notin {"major", "minor"}
    BY <2>2 DEF Idle
  <2> QED BY <2>1, <2>2, <2>3, ReleaseShrinks
<1>3. CASE \E r \in Regions : Region(r)
  <2>1. call = Idle /\ l_allocated' = l_allocated /\ call' = call
    BY <1>3 DEF Region, heapVars
  <2>2. call'.pc \notin {"major", "minor"} BY <2>1 DEF Idle
  <2> QED BY <2>1, <2>2, QuietStep
<1>4. CASE \E n \in Requests : kmalloc(n) BY <1>1, <1>4 DEF kmalloc
<1>5. CASE \E o \in Objects : kcalloc(o[1], o[2]) BY <1>1, <1>5 DEF kcalloc
<1>6. CASE \E ptr \in DOMAIN given : kfree(ptr) BY <1>2, <1>6
<1>7. CASE \E ptr \in DOMAIN given, n \in Requests : krealloc(ptr, n)
  <2>1. PICK ptr \in DOMAIN given, n \in Requests : krealloc(ptr, n) BY <1>7
  <2>2. CASE kfree(ptr) BY <1>2, <2>2
  <2>3. CASE call = Idle /\ UNCHANGED <<l_allocated, call>>
    <3>1. call'.pc \notin {"major", "minor"} BY <2>3 DEF Idle
    <3> QED BY <2>3, <3>1, QuietStep
  <2>4. CASE Begin(n, n, ptr) BY <1>1, <2>4
  <2> QED BY <2>1, <2>2, <2>3, <2>4 DEF krealloc
<1>8. CASE Start BY <1>8, StartGrowsWhenFull
<1>9. CASE MajorTurn BY <1>9, MajorTurnGrowsWhenFull
<1>10. CASE MinorTurn BY <1>10, MinorTurnGrowsWhenFull
<1>11. CASE FreeOld
  <2>1. /\ call.pc = "free_old" /\ Release(MinorOf(call.old)) /\ call' = Idle
    BY <1>11 DEF FreeOld
  <2>2. call.old \in DOMAIN given BY <2>1 DEF HInv, CallOK, Idle
  <2>3. MinorOf(call.old) \in DOMAIN minor BY <2>2, HInvFits DEF AskedBytesFit
  <2>4. call'.pc \notin {"major", "minor"} BY <2>1 DEF Idle
  <2> QED BY <2>1, <2>3, <2>4, ReleaseShrinks
<1>12. CASE UNCHANGED vars
  <2>1. UNCHANGED <<l_memRoot, major, minor, call>> BY <1>12 DEF vars, heapVars
  <2>2. SearchOK'
    BY <2>1 DEF SearchOK, Searching, Passed, GapIn, FrontGap, GapAfter, Gap, EndOf,
                FirstMinor, Mine
  <2> QED BY <1>12, <2>2
<1> QED BY <1>3, <1>4, <1>5, <1>6, <1>7, <1>8, <1>9, <1>10, <1>11, <1>12
        DEF HeapNext, Running

(* The heap takes pages, or says there is no memory, only when no major    *)
(* has a gap for the request, wherever the search began: a search that     *)
(* starts at the best bet starts again at the root, and one that ends has  *)
(* been in every major, because the links from the root lead to them all.  *)
THEOREM GrowsOnlyWhenNothingFits == ASSUME NoOverflow PROVE HeapSpec => GrowsOnlyWhenFull
<1>1. HeapInit => SearchOK BY DEF HeapInit, SearchOK, Searching, Idle
<1>2. HInv /\ HInv' /\ SearchOK /\ [HeapNext]_vars => SearchOK' /\ [Full]_vars
  BY StepGrowsWhenFull
<1>3. [Full]_vars <=>
        [/\ l_allocated' > l_allocated => ~HasGap
         /\ call # Idle /\ call.pc # "free_old"
              /\ (call' = Idle \/ call'.pc = "free_old") /\ UNCHANGED minor => ~HasGap]_vars
  BY DEF Full
<1> QED BY <1>1, <1>2, <1>3, HeapInvariance, PTL DEF HeapSpec, GrowsOnlyWhenFull
=============================================================================
