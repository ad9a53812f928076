--------------------------- MODULE HeapListProofs ---------------------------
(***************************************************************************)
(* Lemmas about the lists of Heap, for every header size and every list:   *)
(* what linking and unlinking a minor, and a major, does to the order.     *)
(* They speak of functions minors and majors, since a step of the heap may *)
(* change both more than once.                                             *)
(***************************************************************************)
EXTENDS Heap, PmmProofs

LEMMA HeapSizes ==
  /\ sizeof_major \in Nat \ {0} /\ sizeof_minor \in Nat \ {0}
  /\ ALIGNMENT \in Nat \ {0} /\ ALIGN_INFO \in Nat \ {0} /\ l_pageCount \in Nat \ {0}
  /\ l_pageSize = PMM_BLOCK_SIZE /\ PMM_BLOCK_SIZE \in Nat \ {0} /\ U32 \in Nat \ {0}
  /\ BitmapBits \in Nat /\ BitmapBits * PMM_BLOCK_SIZE <= U32
BY HeapAssumption, ConstantTypes

MinorHeader == [prev : Nat, next : Nat, block : Nat, size : Nat, req_size : Nat]
MajorHeader == [prev : Nat, next : Nat, pages : Nat, size : Nat, usage : Nat, first : Nat]

(* The end of a minor, and the minors of a major. *)
Ends(minors, m) == m + sizeof_minor + minors[m].size
Mine(minors, maj) == {m \in DOMAIN minors : minors[m].block = maj}

(* S is the list of minors from first on, in the order of addresses, each  *)
(* apart from the others and all between lo and hi.                        *)
FirstOf(S, first) ==
  IF first = NULL THEN S = {} ELSE first \in S /\ \A k \in S : first <= k
NextOf(minors, S, m) ==
  IF minors[m].next = NULL THEN \A k \in S : k <= m
  ELSE /\ minors[m].next \in S /\ m < minors[m].next
       /\ minors[minors[m].next].prev = m
       /\ \A k \in S : k <= m \/ minors[m].next <= k
PrevOf(minors, S, m) ==
  IF minors[m].prev = NULL THEN \A k \in S : m <= k
  ELSE minors[m].prev \in S /\ minors[minors[m].prev].next = m
InOrder(minors, S, first, lo, hi) ==
  /\ FirstOf(S, first)
  /\ \A m \in S : /\ NextOf(minors, S, m) /\ PrevOf(minors, S, m)
                  /\ lo <= m /\ Ends(minors, m) <= hi
                  /\ \A k \in S : m < k => Ends(minors, m) <= k

(* The order depends on the headers of the list only. *)
LEMMA OrderKept ==
  ASSUME NEW minors, NEW minors2, NEW S, NEW first, NEW lo, NEW hi,
         InOrder(minors, S, first, lo, hi),
         \A m \in S : /\ minors2[m].next = minors[m].next /\ minors2[m].prev = minors[m].prev
                      /\ minors2[m].size = minors[m].size
  PROVE  InOrder(minors2, S, first, lo, hi)
BY DEF InOrder, NextOf, PrevOf, Ends

(* A gap of the list, behind prv and before nxt, from at on. *)
Gap_(minors, S, first, lo, hi, at, size, prv, nxt) ==
  /\ IF prv = NULL THEN nxt = first /\ lo <= at
     ELSE prv \in S /\ nxt = minors[prv].next /\ Ends(minors, prv) <= at
  /\ at + sizeof_minor + size <= (IF nxt = NULL THEN hi ELSE nxt)

(* Room for a minor at an address, between prv and nxt. *)
Apart(minors, S, lo, hi, at, size, prv, nxt) ==
  /\ \A k \in S : \/ k < at /\ Ends(minors, k) <= at /\ prv # NULL /\ k <= prv
                  \/ nxt # NULL /\ nxt <= k /\ at + sizeof_minor + size <= k
  /\ at \notin S /\ lo <= at /\ at + sizeof_minor + size <= hi
  /\ prv # NULL => prv \in S /\ prv < at
  /\ nxt # NULL => nxt \in S /\ at < nxt /\ nxt # prv

(* The headers, once a minor at address at is between prv and nxt. *)
LinkedIn(minors, minors2, S, at, size, prv, nxt) ==
  /\ minors2[at].prev = prv /\ minors2[at].next = nxt /\ minors2[at].size = size
  /\ \A m \in S \ {at} :
       /\ minors2[m].size = minors[m].size
       /\ minors2[m].next = IF m = prv THEN at ELSE minors[m].next
       /\ minors2[m].prev = IF m = nxt THEN at ELSE minors[m].prev

ListType(minors, S) ==
  /\ S \subseteq Nat \ {0}
  /\ \A m \in S : minors[m].prev \in Nat /\ minors[m].next \in Nat /\ minors[m].size \in Nat

LEMMA GapIsApart ==
  ASSUME NEW minors, NEW S, NEW first \in Nat, NEW lo \in Nat, NEW hi \in Nat,
         NEW at \in Nat \ {0}, NEW size \in Nat, NEW prv \in Nat, NEW nxt \in Nat,
         ListType(minors, S), InOrder(minors, S, first, lo, hi),
         Gap_(minors, S, first, lo, hi, at, size, prv, nxt)
  PROVE  Apart(minors, S, lo, hi, at, size, prv, nxt)
<1> USE DEF Apart
<1> sizeof_minor \in Nat \ {0} BY HeapSizes
<1> USE DEF NULL
<1>1. \A k \in S : k \in Nat \ {0} /\ Ends(minors, k) \in Nat /\ k < Ends(minors, k)
                   /\ Ends(minors, k) <= hi /\ lo <= k
  <2> TAKE k \in S
  <2>1. k \in Nat \ {0} /\ minors[k].size \in Nat BY DEF ListType
  <2>2. Ends(minors, k) <= hi /\ lo <= k BY DEF InOrder
  <2> QED BY <2>1, <2>2 DEF Ends
<1>2. CASE prv = NULL
  <2>1. nxt = first /\ lo <= at BY <1>2 DEF Gap_
  <2>2. CASE nxt = NULL BY <1>2, <2>1, <2>2 DEF InOrder, FirstOf, Gap_
  <2>3. CASE nxt # NULL
    <3>1. nxt \in S /\ \A k \in S : nxt <= k BY <2>1, <2>3 DEF InOrder, FirstOf
    <3>2. at + sizeof_minor + size <= nxt BY <2>3 DEF Gap_
    <3> QED BY <1>1, <1>2, <2>1, <2>3, <3>1, <3>2
  <2> QED BY <2>2, <2>3
<1>3. CASE prv # NULL
  <2>1. prv \in S /\ nxt = minors[prv].next /\ Ends(minors, prv) <= at BY <1>3 DEF Gap_
  <2>2. NextOf(minors, S, prv) /\ \A k \in S : k < prv => Ends(minors, k) <= prv
    BY <2>1 DEF InOrder
  <2>3. \A k \in S : k <= prv => Ends(minors, k) <= at /\ k < at BY <1>1, <2>1, <2>2
  <2>4. CASE nxt = NULL
    <3>1. \A k \in S : k <= prv BY <2>1, <2>2, <2>4 DEF NextOf
    <3>2. at + sizeof_minor + size <= hi BY <2>4 DEF Gap_
    <3> QED BY <1>1, <1>3, <2>1, <2>3, <2>4, <3>1, <3>2
  <2>5. CASE nxt # NULL
    <3>1. nxt \in S /\ prv < nxt /\ \A k \in S : k <= prv \/ nxt <= k
      BY <2>1, <2>2, <2>5 DEF NextOf
    <3>2. at + sizeof_minor + size <= nxt BY <2>5 DEF Gap_
    <3> QED BY <1>1, <1>3, <2>1, <2>3, <2>5, <3>1, <3>2
  <2> QED BY <2>4, <2>5
<1> QED BY <1>2, <1>3

(* A minor in a gap keeps the list in order. *)
LEMMA InsertedInOrder ==
  ASSUME NEW minors, NEW minors2, NEW S, NEW first \in Nat, NEW lo \in Nat, NEW hi \in Nat,
         NEW at \in Nat \ {0}, NEW size \in Nat, NEW prv \in Nat, NEW nxt \in Nat,
         ListType(minors, S), InOrder(minors, S, first, lo, hi),
         Gap_(minors, S, first, lo, hi, at, size, prv, nxt),
         LinkedIn(minors, minors2, S, at, size, prv, nxt)
  PROVE  InOrder(minors2, S \cup {at}, IF prv = NULL THEN at ELSE first, lo, hi)
<1> DEFINE T == S \cup {at}
<1> sizeof_minor \in Nat \ {0} BY HeapSizes
<1> USE DEF NULL
<1>1. /\ \A k \in S : \/ k < at /\ Ends(minors, k) <= at /\ prv # NULL /\ k <= prv
                      \/ nxt # NULL /\ nxt <= k /\ at + sizeof_minor + size <= k
      /\ at \notin S /\ lo <= at /\ at + sizeof_minor + size <= hi
      /\ prv # NULL => prv \in S /\ prv < at
      /\ nxt # NULL => nxt \in S /\ at < nxt /\ nxt # prv
  <2>1. Apart(minors, S, lo, hi, at, size, prv, nxt) BY GapIsApart
  <2> QED BY <2>1 DEF Apart
<1>2. \A k \in S : k \in Nat \ {0} /\ Ends(minors2, k) = Ends(minors, k)
  BY <1>1 DEF ListType, LinkedIn, Ends
<1>3. Ends(minors2, at) = at + sizeof_minor + size BY DEF LinkedIn, Ends
<1>4. FirstOf(T, IF prv = NULL THEN at ELSE first)
  <2>1. CASE prv = NULL BY <1>1, <1>2, <2>1 DEF FirstOf
  <2>2. CASE prv # NULL
    <3>1. first # NULL /\ first \in S /\ \A k \in S : first <= k
      BY <1>1, <2>2 DEF InOrder, FirstOf
    <3> QED BY <1>1, <1>2, <2>2, <3>1 DEF FirstOf
  <2> QED BY <2>1, <2>2
<1>5. ASSUME NEW m \in T PROVE NextOf(minors2, T, m)
  <2>1. CASE m = at
    <3>1. minors2[at].next = nxt BY DEF LinkedIn
    <3>2. nxt # NULL => minors2[nxt].prev = at BY <1>1 DEF LinkedIn
    <3> QED BY <1>1, <1>2, <2>1, <3>1, <3>2 DEF NextOf
  <2>2. CASE m = prv /\ m # at
    <3>1. m \in S /\ minors2[m].next = at /\ minors2[at].prev = m
      BY <2>2 DEF LinkedIn
    <3> QED BY <1>1, <1>2, <2>2, <3>1 DEF NextOf
  <2>3. CASE m # prv /\ m # at
    <3>1. m \in S /\ minors2[m].next = minors[m].next BY <2>3 DEF LinkedIn
    <3>2. NextOf(minors, S, m) BY <3>1 DEF InOrder
    <3>3. CASE minors[m].next = NULL
      <4>1. \A k \in S : k <= m BY <3>2, <3>3 DEF NextOf
      <4>2. at < m BY <1>1, <1>2, <2>3, <3>1, <4>1
      <4> QED BY <1>2, <3>1, <3>3, <4>1, <4>2 DEF NextOf
    <3>4. CASE minors[m].next # NULL
      <4> DEFINE n == minors[m].next
      <4>1. n \in S /\ m < n /\ minors[n].prev = m /\ \A k \in S : k <= m \/ n <= k
        BY <3>2, <3>4 DEF NextOf
      <4>2. n # nxt \/ nxt = NULL
        <5>1. CASE prv = NULL /\ nxt # NULL
          <6>1. nxt = first /\ \A k \in S : first <= k
            BY <1>1, <5>1 DEF Gap_, InOrder, FirstOf
          <6> QED BY <1>2, <3>1, <4>1, <6>1
        <5>2. CASE prv # NULL /\ nxt # NULL
          <6>1. minors[nxt].prev = prv
            BY <1>1, <5>2 DEF Gap_, InOrder, NextOf
          <6> QED BY <2>3, <4>1, <6>1
        <5> QED BY <5>1, <5>2
      <4>3. minors2[n].prev = m BY <1>1, <1>2, <4>1, <4>2 DEF LinkedIn
      <4>4. at <= m \/ n <= at
        <5>1. CASE m < at
          <6>1. prv # NULL /\ m < prv BY <1>1, <1>2, <2>3, <3>1, <5>1
          <6> QED BY <1>1, <1>2, <4>1, <6>1
        <5> QED BY <1>2, <3>1, <5>1
      <4> QED BY <3>1, <3>4, <4>1, <4>3, <4>4 DEF NextOf
    <3> QED BY <3>3, <3>4
  <2> QED BY <2>1, <2>2, <2>3
<1>6. ASSUME NEW m \in T PROVE PrevOf(minors2, T, m)
  <2>1. CASE m = at
    <3>1. minors2[at].prev = prv BY DEF LinkedIn
    <3>2. prv # NULL => minors2[prv].next = at BY <1>1 DEF LinkedIn
    <3> QED BY <1>1, <1>2, <2>1, <3>1, <3>2 DEF PrevOf
  <2>2. CASE m = nxt /\ m # at
    <3>1. m \in S /\ minors2[m].prev = at /\ minors2[at].next = m
      BY <2>2 DEF LinkedIn
    <3> QED BY <1>1, <1>2, <2>2, <3>1 DEF PrevOf
  <2>3. CASE m # nxt /\ m # at
    <3>1. m \in S /\ minors2[m].prev = minors[m].prev BY <2>3 DEF LinkedIn
    <3>2. PrevOf(minors, S, m) BY <3>1 DEF InOrder
    <3>3. CASE minors[m].prev = NULL
      <4>1. \A k \in S : m <= k BY <3>2, <3>3 DEF PrevOf
      <4>2. m < at
        <5>1. CASE nxt # NULL BY <1>1, <1>2, <2>3, <3>1, <4>1, <5>1
        <5>2. CASE nxt = NULL BY <1>1, <3>1, <5>2
        <5> QED BY <5>1, <5>2
      <4> QED BY <1>2, <3>1, <3>3, <4>1, <4>2 DEF PrevOf
    <3>4. CASE minors[m].prev # NULL
      <4>1. minors[m].prev \in S /\ minors[minors[m].prev].next = m
        BY <3>2, <3>4 DEF PrevOf
      <4>2. minors[m].prev # prv
        <5>1. prv # NULL => nxt = minors[prv].next BY DEF Gap_
        <5> QED BY <2>3, <3>4, <4>1, <5>1
      <4> QED BY <1>1, <3>1, <3>4, <4>1, <4>2 DEF PrevOf, LinkedIn
    <3> QED BY <3>3, <3>4
  <2> QED BY <2>1, <2>2, <2>3
<1>7. ASSUME NEW m \in T
      PROVE  lo <= m /\ Ends(minors2, m) <= hi /\ \A k \in T : m < k => Ends(minors2, m) <= k
  <2>1. CASE m = at BY <1>1, <1>2, <1>3, <2>1
  <2>2. CASE m # at
    <3>1. m \in S /\ lo <= m /\ Ends(minors, m) <= hi
          /\ \A k \in S : m < k => Ends(minors, m) <= k
      BY <2>2 DEF InOrder
    <3>2. m < at => Ends(minors, m) <= at BY <1>1, <1>2, <3>1
    <3> QED BY <1>2, <3>1, <3>2
  <2> QED BY <2>1, <2>2
<1> QED BY <1>4, <1>5, <1>6, <1>7 DEF InOrder

(* The headers, once minor m0 is unlinked. *)
Unlinked(minors, minors2, S, m0) ==
  \A m \in S \ {m0} :
    /\ minors2[m].size = minors[m].size
    /\ minors2[m].next = IF m = minors[m0].prev THEN minors[m0].next ELSE minors[m].next
    /\ minors2[m].prev = IF m = minors[m0].next THEN minors[m0].prev ELSE minors[m].prev

(* The links of a list in order lead back and forth between neighbours.    *)
LEMMA Neighbours ==
  ASSUME NEW minors, NEW S, NEW first \in Nat, NEW lo \in Nat, NEW hi \in Nat,
         ListType(minors, S), InOrder(minors, S, first, lo, hi), NEW m \in S
  PROVE  /\ minors[m].next # NULL => /\ minors[m].next \in S /\ m < minors[m].next
                                     /\ minors[minors[m].next].prev = m
                                     /\ \A k \in S : k <= m \/ minors[m].next <= k
         /\ minors[m].next = NULL => \A k \in S : k <= m
         /\ minors[m].prev # NULL => /\ minors[m].prev \in S /\ minors[m].prev < m
                                     /\ minors[minors[m].prev].next = m
                                     /\ \A k \in S : k <= minors[m].prev \/ m <= k
         /\ minors[m].prev = NULL => \A k \in S : m <= k
<1> USE DEF NULL
<1>1. NextOf(minors, S, m) /\ PrevOf(minors, S, m) BY DEF InOrder
<1>2. CASE minors[m].prev # NULL
  <2>1. minors[m].prev \in S /\ minors[minors[m].prev].next = m
    BY <1>1, <1>2 DEF PrevOf
  <2>2. NextOf(minors, S, minors[m].prev) /\ m # 0
    BY <2>1 DEF InOrder, ListType
  <2>3. minors[m].prev < m /\ \A k \in S : k <= minors[m].prev \/ m <= k
    BY <2>1, <2>2 DEF NextOf
  <2> QED BY <1>1, <1>2, <2>1, <2>3 DEF NextOf
<1>3. CASE minors[m].prev = NULL BY <1>1, <1>3 DEF NextOf, PrevOf
<1> QED BY <1>2, <1>3

(* A list stays in order when one of its minors goes. *)
LEMMA RemovedInOrder ==
  ASSUME NEW minors, NEW minors2, NEW S, NEW first \in Nat, NEW lo \in Nat, NEW hi \in Nat,
         ListType(minors, S), InOrder(minors, S, first, lo, hi), NEW m0 \in S,
         Unlinked(minors, minors2, S, m0)
  PROVE  InOrder(minors2, S \ {m0},
                 IF minors[m0].prev = NULL THEN minors[m0].next ELSE first, lo, hi)
<1> DEFINE T == S \ {m0}
           prv == minors[m0].prev
           nxt == minors[m0].next
<1> USE DEF NULL
<1>1. \A m \in S : m \in Nat \ {0} /\ minors[m].prev \in Nat /\ minors[m].next \in Nat
  BY DEF ListType
<1>2. /\ nxt # NULL => /\ nxt \in S /\ m0 < nxt /\ minors[nxt].prev = m0
                       /\ \A k \in S : k <= m0 \/ nxt <= k
      /\ nxt = NULL => \A k \in S : k <= m0
      /\ prv # NULL => /\ prv \in S /\ prv < m0 /\ minors[prv].next = m0
                       /\ \A k \in S : k <= prv \/ m0 <= k
      /\ prv = NULL => \A k \in S : m0 <= k
  BY Neighbours
<1>3. /\ nxt # NULL => minors2[nxt].prev = prv
      /\ prv # NULL => minors2[prv].next = nxt
  BY <1>1, <1>2 DEF Unlinked
<1>4. FirstOf(T, IF prv = NULL THEN nxt ELSE first)
  <2>1. CASE prv = NULL
    <3>1. CASE nxt = NULL BY <1>1, <1>2, <2>1, <3>1 DEF FirstOf
    <3>2. CASE nxt # NULL BY <1>1, <1>2, <2>1, <3>2 DEF FirstOf
    <3> QED BY <3>1, <3>2
  <2>2. CASE prv # NULL
    <3>1. first # NULL /\ first \in S /\ \A k \in S : first <= k
      BY <1>2, <2>2 DEF InOrder, FirstOf
    <3>2. first # m0 BY <1>1, <1>2, <2>2, <3>1
    <3> QED BY <2>2, <3>1, <3>2 DEF FirstOf
  <2> QED BY <2>1, <2>2
<1>5. ASSUME NEW m \in T PROVE NextOf(minors2, T, m)
  <2>1. CASE m = prv
    <3>1. minors2[m].next = nxt BY <1>1, <1>2, <1>3, <2>1
    <3>2. CASE nxt = NULL
      <4>1. \A k \in T : k <= m BY <1>1, <1>2, <2>1, <3>2
      <4> QED BY <3>1, <3>2, <4>1 DEF NextOf
    <3>3. CASE nxt # NULL
      <4>1. nxt \in T /\ m < nxt BY <1>1, <1>2, <2>1, <3>3
      <4>2. \A k \in T : k <= m \/ nxt <= k
        <5> TAKE k \in T
        <5>1. k \in Nat /\ k # m0 /\ m0 \in Nat /\ m \in Nat /\ m # 0 BY <1>1
        <5>2. (k <= m \/ m0 <= k) /\ (k <= m0 \/ nxt <= k) BY <1>2, <2>1, <3>3, <5>1
        <5> QED BY <5>1, <5>2
      <4> QED BY <1>3, <2>1, <3>1, <3>3, <4>1, <4>2 DEF NextOf
    <3> QED BY <3>2, <3>3
  <2>2. CASE m # prv
    <3>1. minors2[m].next = minors[m].next BY <2>2 DEF Unlinked
    <3>2. NextOf(minors, S, m) BY DEF InOrder
    <3>3. CASE minors[m].next = NULL BY <3>1, <3>2, <3>3 DEF NextOf
    <3>4. CASE minors[m].next # NULL
      <4> DEFINE n == minors[m].next
      <4>1. n \in S /\ m < n /\ minors[n].prev = m /\ \A k \in S : k <= m \/ n <= k
        BY <3>2, <3>4 DEF NextOf
      <4>2. n # m0 BY <2>2, <4>1
      <4>3. n # nxt BY <1>1, <1>2, <4>1
      <4>4. minors2[n].prev = m BY <4>1, <4>2, <4>3 DEF Unlinked
      <4> QED BY <3>1, <3>4, <4>1, <4>2, <4>4 DEF NextOf
    <3> QED BY <3>3, <3>4
  <2> QED BY <2>1, <2>2
<1>6. ASSUME NEW m \in T PROVE PrevOf(minors2, T, m)
  <2>1. CASE m = nxt
    <3>1. minors2[m].prev = prv BY <1>1, <1>2, <1>3, <2>1
    <3>2. CASE prv = NULL
      <4>1. \A k \in T : m <= k BY <1>1, <1>2, <2>1, <3>2
      <4> QED BY <3>1, <3>2, <4>1 DEF PrevOf
    <3>3. CASE prv # NULL
      <4>1. prv \in T BY <1>1, <1>2, <3>3
      <4> QED BY <1>3, <2>1, <3>1, <3>3, <4>1 DEF PrevOf
    <3> QED BY <3>2, <3>3
  <2>2. CASE m # nxt
    <3>1. minors2[m].prev = minors[m].prev BY <2>2 DEF Unlinked
    <3>2. PrevOf(minors, S, m) BY DEF InOrder
    <3>3. CASE minors[m].prev = NULL BY <3>1, <3>2, <3>3 DEF PrevOf
    <3>4. CASE minors[m].prev # NULL
      <4> DEFINE n == minors[m].prev
      <4>1. n \in S /\ minors[n].next = m BY <3>2, <3>4 DEF PrevOf
      <4>2. n # m0 BY <2>2, <4>1
      <4>3. n # prv BY <1>1, <1>2, <4>1
      <4>4. minors2[n].next = m BY <4>1, <4>2, <4>3 DEF Unlinked
      <4> QED BY <3>1, <3>4, <4>1, <4>2, <4>4 DEF PrevOf
    <3> QED BY <3>3, <3>4
  <2> QED BY <2>1, <2>2
<1>7. ASSUME NEW m \in T
      PROVE  lo <= m /\ Ends(minors2, m) <= hi /\ \A k \in T : m < k => Ends(minors2, m) <= k
  <2>1. Ends(minors2, m) = Ends(minors, m) BY DEF Ends, Unlinked
  <2> QED BY <2>1 DEF InOrder
<1> HIDE DEF T, prv, nxt
<1>8. InOrder(minors2, T, IF prv = NULL THEN nxt ELSE first, lo, hi)
  BY <1>4, <1>5, <1>6, <1>7 DEF InOrder
<1> QED BY <1>8 DEF T, prv, nxt

LEMMA LeastIs ==
  ASSUME NEW S \in SUBSET Nat, NEW x \in S, \A y \in S : x <= y
  PROVE  Least(S) = x
<1>1. Least(S) \in S /\ \A y \in S : Least(S) <= y BY LeastIn
<1>2. Least(S) \in Nat /\ x \in Nat /\ Least(S) <= x /\ x <= Least(S) BY <1>1
<1> QED BY <1>2

(* Lists in order are what MinorsInOrder asks of a major. *)
LEMMA OrderIsMinorsInOrder ==
  ASSUME NEW maj \in DOMAIN major, ListType(minor, MinorsOf(maj)),
         major[maj].first \in Nat, FirstMinor(maj) \in Nat, maj + major[maj].size \in Nat,
         InOrder(minor, MinorsOf(maj), major[maj].first, FirstMinor(maj), maj + major[maj].size)
  PROVE  LET mine == MinorsOf(maj)
         IN  /\ major[maj].first = IF mine = {} THEN NULL ELSE Least(mine)
             /\ \A m \in mine :
                  LET before == {k \in mine : k < m}
                      after == {k \in mine : k > m}
                  IN  /\ minor[m].next = IF after = {} THEN NULL ELSE Least(after)
                      /\ minor[m].prev # NULL => minor[minor[m].prev].next = m
                      /\ minor[m].prev = NULL => before = {}
                      /\ FirstMinor(maj) <= m
                      /\ EndOf(m) <= maj + major[maj].size
                      /\ after # {} => EndOf(m) <= minor[m].next
<1> DEFINE mine == MinorsOf(maj)
           first == major[maj].first
           lo == FirstMinor(maj)
           hi == maj + major[maj].size
<1>1. mine \in SUBSET Nat /\ \A m \in mine : m # NULL /\ m \in Nat BY DEF ListType, NULL
<1>2. \A m \in mine : EndOf(m) = Ends(minor, m) BY DEF EndOf, Ends
<1>3. InOrder(minor, mine, first, lo, hi) /\ ListType(minor, mine)
      /\ first \in Nat /\ lo \in Nat /\ hi \in Nat
  OBVIOUS
<1>4. first = IF mine = {} THEN NULL ELSE Least(mine)
  <2>1. CASE first = NULL BY <1>3, <2>1 DEF InOrder, FirstOf
  <2>2. CASE first # NULL
    <3>1. first \in mine /\ \A k \in mine : first <= k BY <1>3, <2>2 DEF InOrder, FirstOf
    <3> QED BY <1>1, <3>1, LeastIs
  <2> QED BY <2>1, <2>2
<1> HIDE DEF mine, first, lo, hi
<1>5. ASSUME NEW m \in mine
      PROVE  LET before == {k \in mine : k < m}
                 after == {k \in mine : k > m}
             IN  /\ minor[m].next = IF after = {} THEN NULL ELSE Least(after)
                 /\ minor[m].prev # NULL => minor[minor[m].prev].next = m
                 /\ minor[m].prev = NULL => before = {}
                 /\ lo <= m
                 /\ EndOf(m) <= hi
                 /\ after # {} => EndOf(m) <= minor[m].next
  <2> DEFINE before == {k \in mine : k < m}
             after == {k \in mine : k > m}
             nxt == minor[m].next
  <2>1. /\ nxt # NULL => nxt \in mine /\ m < nxt /\ \A k \in mine : k <= m \/ nxt <= k
        /\ nxt = NULL => \A k \in mine : k <= m
        /\ minor[m].prev # NULL => minor[minor[m].prev].next = m
        /\ minor[m].prev = NULL => \A k \in mine : m <= k
    BY <1>3, Neighbours
  <2>2. lo <= m /\ EndOf(m) <= hi /\ \A k \in mine : m < k => EndOf(m) <= k
    BY <1>2, <1>3 DEF InOrder
  <2>3. m \in Nat /\ after \in SUBSET Nat BY <1>1
  <2>4. CASE nxt = NULL
    <3>1. after = {} BY <1>1, <2>1, <2>3, <2>4
    <3>2. minor[m].prev = NULL => before = {}
      <4> SUFFICES ASSUME minor[m].prev = NULL, NEW k \in mine, k < m PROVE FALSE OBVIOUS
      <4> QED BY <1>1, <2>1, <2>3
    <3> QED BY <2>1, <2>2, <2>4, <3>1, <3>2
  <2>5. CASE nxt # NULL
    <3>1. nxt \in after /\ \A k \in after : nxt <= k BY <1>1, <2>1, <2>3, <2>5
    <3>2. Least(after) = nxt BY <2>3, <3>1, LeastIs
    <3>3. minor[m].prev = NULL => before = {}
      <4> SUFFICES ASSUME minor[m].prev = NULL, NEW k \in mine, k < m PROVE FALSE OBVIOUS
      <4> QED BY <1>1, <2>1, <2>3
    <3>4. EndOf(m) <= nxt /\ after # {} BY <2>1, <2>2, <2>5, <3>1
    <3> QED BY <2>1, <2>2, <3>2, <3>3, <3>4
  <2> QED BY <2>4, <2>5
<1> QED BY <1>4, <1>5 DEF mine, first, lo, hi
-----------------------------------------------------------------------------
(* Where majors and minors lie. *)
Typed(majors, minors) ==
  /\ DOMAIN majors \subseteq Nat \ {0} /\ DOMAIN minors \subseteq Nat \ {0}
  /\ \A m \in DOMAIN majors : majors[m] \in MajorHeader
  /\ \A m \in DOMAIN minors : minors[m] \in MinorHeader /\ minors[m].block \in DOMAIN majors

PagesOf(majors, m) == Run(m \div PMM_BLOCK_SIZE, majors[m].pages)

(* A major is a run of whole pages of its own. *)
Extents(majors) ==
  \A m \in DOMAIN majors :
    /\ m = (m \div PMM_BLOCK_SIZE) * PMM_BLOCK_SIZE
    /\ majors[m].pages # 0 /\ majors[m].size = majors[m].pages * PMM_BLOCK_SIZE
    /\ PagesOf(majors, m) \subseteq Bits
    /\ \A k \in DOMAIN majors \ {m} : PagesOf(majors, m) \cap PagesOf(majors, k) = {}

ListOf(majors, minors, maj) ==
  InOrder(minors, Mine(minors, maj), majors[maj].first, FirstMinor(maj), maj + majors[maj].size)
Ordered(majors, minors) == \A maj \in DOMAIN majors : ListOf(majors, minors, maj)

LEMMA MultiplesInOrder ==
  ASSUME NEW a \in Nat, NEW b \in Nat, NEW k \in Nat, a <= b
  PROVE  a * k <= b * k /\ a * k \in Nat /\ b * k \in Nat
<1>1. PICK d \in Nat : b = a + d
  <2>1. b - a \in Nat /\ b = a + (b - a) OBVIOUS
  <2> QED BY <2>1
<1>2. b * k = a * k + d * k /\ d * k \in Nat /\ a * k \in Nat BY <1>1
<1> QED BY <1>2

LEMMA RunsApart ==
  ASSUME NEW a \in Nat, NEW b \in Nat, NEW i \in Nat \ {0}, NEW j \in Nat \ {0},
         Run(a, i) \cap Run(b, j) = {}
  PROVE  a + i <= b \/ b + j <= a
<1>1. a \in Run(a, i) /\ b \in Run(b, j) BY DEF Run
<1>2. a \notin Run(b, j) /\ b \notin Run(a, i) BY <1>1
<1> QED BY <1>2 DEF Run

(* Majors lie below 2^32, apart from each other. *)
LEMMA ExtentsApart ==
  ASSUME NEW majors, NEW minors, Typed(majors, minors), Extents(majors),
         NEW m \in DOMAIN majors
  PROVE  /\ m \in Nat \ {0} /\ majors[m].size \in Nat \ {0} /\ m + majors[m].size <= U32
         /\ \A k \in DOMAIN majors \ {m} : m + majors[m].size <= k \/ k + majors[k].size <= m
<1> DEFINE P == PMM_BLOCK_SIZE
           f(k) == k \div P
           n(k) == majors[k].pages
<1>1. P \in Nat \ {0} /\ BitmapBits \in Nat /\ U32 \in Nat /\ BitmapBits * P <= U32
  BY HeapSizes
<1>2. \A k \in DOMAIN majors : /\ k \in Nat \ {0} /\ f(k) \in Nat /\ n(k) \in Nat \ {0}
                                /\ k = f(k) * P /\ majors[k].size = n(k) * P
                                /\ majors[k].size \in Nat /\ Run(f(k), n(k)) \subseteq Bits
  <2> TAKE k \in DOMAIN majors
  <2>1. k \in Nat \ {0} /\ majors[k] \in MajorHeader BY DEF Typed
  <2>2. k \div P \in Nat BY <1>1, <2>1, DivType
  <2>3. majors[k].pages \in Nat /\ majors[k].size \in Nat BY <2>1 DEF MajorHeader
  <2>4. /\ k = (k \div P) * P /\ majors[k].pages # 0 /\ majors[k].size = majors[k].pages * P
        /\ Run(k \div P, majors[k].pages) \subseteq Bits
    BY DEF Extents, PagesOf
  <2> QED BY <2>1, <2>2, <2>3, <2>4
<1>3. ASSUME NEW k \in DOMAIN majors PROVE k + majors[k].size = (f(k) + n(k)) * P
  <2>1. f(k) \in Nat /\ n(k) \in Nat /\ k = f(k) * P /\ majors[k].size = n(k) * P BY <1>2
  <2> HIDE DEF f, n
  <2>2. (f(k) + n(k)) * P = f(k) * P + n(k) * P BY <1>1, <2>1
  <2> QED BY <2>1, <2>2
<1>4. m + majors[m].size <= U32
  <2>1. f(m) \in Nat /\ n(m) \in Nat \ {0} /\ Run(f(m), n(m)) \subseteq 0 .. BitmapBits - 1
    BY <1>2 DEF Bits
  <2> HIDE DEF f, n
  <2>2. f(m) + n(m) - 1 \in Run(f(m), n(m)) BY <2>1 DEF Run
  <2>3. f(m) + n(m) - 1 <= BitmapBits - 1 BY <2>1, <2>2
  <2>4. f(m) + n(m) <= BitmapBits BY <1>1, <2>1, <2>3
  <2>5. (f(m) + n(m)) * P <= BitmapBits * P /\ (f(m) + n(m)) * P \in Nat
        /\ BitmapBits * P \in Nat
    <3>1. f(m) + n(m) \in Nat BY <2>1
    <3> QED BY <1>1, <2>4, <3>1, MultiplesInOrder
  <2>6. m + majors[m].size = (f(m) + n(m)) * P BY <1>3
  <2> QED BY <1>1, <2>5, <2>6
<1>5. majors[m].size \in Nat \ {0}
  <2>1. n(m) \in Nat \ {0} /\ majors[m].size = n(m) * P BY <1>2
  <2> HIDE DEF n
  <2>2. 1 <= n(m) /\ 1 * P <= n(m) * P BY <1>1, <2>1, MultiplesInOrder
  <2> QED BY <1>1, <1>2, <2>1, <2>2
<1>6. ASSUME NEW k \in DOMAIN majors \ {m}
      PROVE  m + majors[m].size <= k \/ k + majors[k].size <= m
  <2>1. Run(f(m), n(m)) \cap Run(f(k), n(k)) = {} BY DEF Extents, PagesOf
  <2>2. /\ f(m) \in Nat /\ n(m) \in Nat \ {0} /\ f(k) \in Nat /\ n(k) \in Nat \ {0}
        /\ k = f(k) * P /\ m = f(m) * P
    BY <1>2
  <2>3. m + majors[m].size = (f(m) + n(m)) * P /\ k + majors[k].size = (f(k) + n(k)) * P
    BY <1>3
  <2> HIDE DEF f, n
  <2>4. f(m) + n(m) <= f(k) \/ f(k) + n(k) <= f(m) BY <2>1, <2>2, RunsApart
  <2>5. f(m) + n(m) \in Nat /\ f(k) + n(k) \in Nat BY <2>2
  <2>6. f(m) + n(m) <= f(k) => (f(m) + n(m)) * P <= f(k) * P
    BY <1>1, <2>2, <2>5, MultiplesInOrder
  <2>7. f(k) + n(k) <= f(m) => (f(k) + n(k)) * P <= f(m) * P
    BY <1>1, <2>2, <2>5, MultiplesInOrder
  <2> QED BY <2>2, <2>3, <2>4, <2>6, <2>7
<1> QED BY <1>2, <1>4, <1>5, <1>6

LEMMA ListsAreTyped ==
  ASSUME NEW majors, NEW minors, Typed(majors, minors), NEW maj \in DOMAIN majors
  PROVE  /\ ListType(minors, Mine(minors, maj))
         /\ majors[maj].first \in Nat /\ FirstMinor(maj) \in Nat
         /\ maj + majors[maj].size \in Nat
<1>1. maj \in Nat /\ majors[maj] \in MajorHeader BY DEF Typed
<1>2. \A m \in Mine(minors, maj) : m \in Nat \ {0} /\ minors[m] \in MinorHeader
  BY DEF Typed, Mine
<1>3. ListType(minors, Mine(minors, maj)) BY <1>2 DEF ListType, MinorHeader
<1> QED BY <1>1, <1>3, HeapSizes DEF MajorHeader, FirstMinor

(* Minors lie inside their major, apart from each other. *)
LEMMA MinorsApart ==
  ASSUME NEW majors, NEW minors, Typed(majors, minors), Extents(majors),
         Ordered(majors, minors), NEW m \in DOMAIN minors
  PROVE  /\ m \in Nat \ {0} /\ minors[m].size \in Nat /\ Ends(minors, m) \in Nat
         /\ Ends(minors, m) = m + sizeof_minor + minors[m].size
         /\ minors[m].block \in DOMAIN majors /\ FirstMinor(minors[m].block) <= m
         /\ Ends(minors, m) <= minors[m].block + majors[minors[m].block].size
         /\ Ends(minors, m) <= U32
         /\ \A k \in DOMAIN minors \ {m} : Ends(minors, m) <= k \/ Ends(minors, k) <= m
<1>0. sizeof_minor \in Nat /\ sizeof_major \in Nat /\ U32 \in Nat BY HeapSizes
<1>1. \A k \in DOMAIN minors :
        /\ k \in Nat \ {0} /\ minors[k].size \in Nat /\ Ends(minors, k) \in Nat
        /\ minors[k].block \in DOMAIN majors
  BY <1>0 DEF Typed, MinorHeader, Ends
<1>2. \A k \in DOMAIN minors :
        LET b == minors[k].block
        IN  /\ b \in Nat /\ majors[b].size \in Nat
            /\ FirstMinor(b) <= k /\ Ends(minors, k) <= b + majors[b].size
            /\ b <= k /\ b + majors[b].size <= U32
  <2> TAKE k \in DOMAIN minors
  <2> DEFINE b == minors[k].block
  <2>1. b \in DOMAIN majors /\ k \in Mine(minors, b) BY <1>1 DEF Mine
  <2>2. FirstMinor(b) <= k /\ Ends(minors, k) <= b + majors[b].size
    BY <2>1 DEF Ordered, ListOf, InOrder
  <2>3. b \in Nat /\ majors[b].size \in Nat /\ b + majors[b].size <= U32
    BY <2>1, ExtentsApart
  <2>4. b <= k BY <1>0, <1>1, <2>2, <2>3 DEF FirstMinor
  <2> QED BY <2>2, <2>3, <2>4
<1>3. ASSUME NEW k \in DOMAIN minors \ {m}
      PROVE  Ends(minors, m) <= k \/ Ends(minors, k) <= m
  <2> DEFINE b == minors[m].block
             c == minors[k].block
  <2>1. CASE b = c
    <3>1. m \in Mine(minors, b) /\ k \in Mine(minors, b) /\ b \in DOMAIN majors
      BY <1>1, <2>1 DEF Mine
    <3>2. (m < k => Ends(minors, m) <= k) /\ (k < m => Ends(minors, k) <= m)
      BY <3>1 DEF Ordered, ListOf, InOrder
    <3>3. m \in Nat /\ k \in Nat /\ m # k BY <1>1
    <3> QED BY <3>2, <3>3
  <2>2. CASE b # c
    <3>1. b \in DOMAIN majors /\ c \in DOMAIN majors \ {b} BY <1>1, <2>2
    <3>2. b + majors[b].size <= c \/ c + majors[c].size <= b BY <3>1, ExtentsApart
    <3>3. /\ b \in Nat /\ c \in Nat /\ majors[b].size \in Nat /\ majors[c].size \in Nat
          /\ b <= m /\ c <= k
          /\ Ends(minors, m) <= b + majors[b].size /\ Ends(minors, k) <= c + majors[c].size
          /\ m \in Nat /\ k \in Nat /\ Ends(minors, m) \in Nat /\ Ends(minors, k) \in Nat
      BY <1>1, <1>2
    <3> HIDE DEF b, c
    <3> QED BY <3>2, <3>3
  <2> QED BY <2>1, <2>2
<1>4. Ends(minors, m) <= U32 BY <1>0, <1>1, <1>2
<1> QED BY <1>1, <1>2, <1>3, <1>4 DEF Ends

(* A gap of a major is apart from every minor of the heap. *)
GapOf(majors, minors, maj, at, size, prv, nxt) ==
  Gap_(minors, Mine(minors, maj), majors[maj].first, FirstMinor(maj),
       maj + majors[maj].size, at, size, prv, nxt)

LEMMA GapIsApartFromAll ==
  ASSUME NEW majors, NEW minors, Typed(majors, minors), Extents(majors),
         Ordered(majors, minors), NEW maj \in DOMAIN majors,
         NEW at \in Nat \ {0}, NEW size \in Nat, NEW prv \in Nat, NEW nxt \in Nat,
         GapOf(majors, minors, maj, at, size, prv, nxt)
  PROVE  /\ \A k \in DOMAIN minors : Ends(minors, k) <= at \/ at + sizeof_minor + size <= k
         /\ at \notin DOMAIN minors /\ FirstMinor(maj) <= at
         /\ at + sizeof_minor + size <= maj + majors[maj].size
<1> DEFINE S == Mine(minors, maj)
           first == majors[maj].first
           lo == FirstMinor(maj)
           hi == maj + majors[maj].size
<1>0. sizeof_minor \in Nat \ {0} /\ sizeof_major \in Nat BY HeapSizes
<1>1. ListType(minors, S) /\ first \in Nat /\ lo \in Nat /\ hi \in Nat
  BY ListsAreTyped
<1>2. InOrder(minors, S, first, lo, hi) BY DEF Ordered, ListOf
<1>3. Gap_(minors, S, first, lo, hi, at, size, prv, nxt) BY DEF GapOf
<1> HIDE DEF S, first, lo, hi
<1>4. /\ \A k \in S : \/ k < at /\ Ends(minors, k) <= at /\ prv # NULL /\ k <= prv
                      \/ nxt # NULL /\ nxt <= k /\ at + sizeof_minor + size <= k
      /\ lo <= at /\ at + sizeof_minor + size <= hi
  <2>1. Apart(minors, S, lo, hi, at, size, prv, nxt) BY <1>1, <1>2, <1>3, GapIsApart
  <2> QED BY <2>1 DEF Apart
<1>5. ASSUME NEW k \in DOMAIN minors
      PROVE  Ends(minors, k) <= at \/ at + sizeof_minor + size <= k
  <2>1. CASE minors[k].block = maj
    <3>1. k \in S BY <2>1 DEF S, Mine
    <3> QED BY <1>4, <3>1
  <2>2. CASE minors[k].block # maj
    <3> DEFINE b == minors[k].block
    <3>1. /\ b \in DOMAIN majors \ {maj} /\ FirstMinor(b) <= k
          /\ Ends(minors, k) <= b + majors[b].size /\ k \in Nat /\ Ends(minors, k) \in Nat
      BY <2>2, MinorsApart
    <3>2. /\ maj + majors[maj].size <= b \/ b + majors[b].size <= maj
          /\ maj \in Nat /\ majors[maj].size \in Nat
      BY <3>1, ExtentsApart
    <3>3. b \in Nat /\ majors[b].size \in Nat BY <3>1, ExtentsApart
    <3> HIDE DEF b
    <3> QED BY <1>0, <1>4, <3>1, <3>2, <3>3 DEF FirstMinor, lo, hi
  <2> QED BY <2>1, <2>2
<1>6. at \notin DOMAIN minors
  <2> SUFFICES ASSUME at \in DOMAIN minors PROVE FALSE OBVIOUS
  <2>1. Ends(minors, at) = at + sizeof_minor + minors[at].size /\ minors[at].size \in Nat
    BY MinorsApart
  <2> QED BY <1>0, <1>5, <2>1
<1> QED BY <1>4, <1>5, <1>6 DEF lo, hi

LEMMA ExtentsKept ==
  ASSUME NEW majors, NEW majors2, Extents(majors), DOMAIN majors2 \subseteq DOMAIN majors,
         \A m \in DOMAIN majors2 : /\ majors2[m].pages = majors[m].pages
                                   /\ majors2[m].size = majors[m].size
  PROVE  Extents(majors2)
<1>1. \A m \in DOMAIN majors2 : PagesOf(majors2, m) = PagesOf(majors, m) BY DEF PagesOf
<1> QED BY <1>1 DEF Extents

(* What Place does to the headers. *)
Placed(majors, majors2, minors, minors2, maj, at, size, prv, nxt) ==
  /\ DOMAIN majors2 = DOMAIN majors
  /\ \A m \in DOMAIN majors :
       /\ majors2[m].pages = majors[m].pages /\ majors2[m].size = majors[m].size
       /\ majors2[m].prev = majors[m].prev /\ majors2[m].next = majors[m].next
       /\ majors2[m].first = IF m = maj /\ prv = NULL THEN at ELSE majors[m].first
       /\ majors2[m].usage = IF m = maj THEN Wrap(majors[m].usage + (size + sizeof_minor))
                             ELSE majors[m].usage
  /\ DOMAIN minors2 = DOMAIN minors \cup {at}
  /\ LinkedIn(minors, minors2, DOMAIN minors, at, size, prv, nxt)
  /\ minors2[at].block = maj
  /\ \A m \in DOMAIN minors \ {at} : minors2[m].block = minors[m].block

LEMMA PlaceKeepsOrder ==
  ASSUME NEW majors, NEW majors2, NEW minors, NEW minors2,
         Typed(majors, minors), Extents(majors), Ordered(majors, minors),
         NEW maj \in DOMAIN majors,
         NEW at \in Nat \ {0}, NEW size \in Nat, NEW prv \in Nat, NEW nxt \in Nat,
         GapOf(majors, minors, maj, at, size, prv, nxt),
         Placed(majors, majors2, minors, minors2, maj, at, size, prv, nxt)
  PROVE  Ordered(majors2, minors2) /\ Extents(majors2)
<1>1. Extents(majors2)
  <2>1. /\ DOMAIN majors2 = DOMAIN majors
        /\ \A m \in DOMAIN majors : /\ majors2[m].pages = majors[m].pages
                                    /\ majors2[m].size = majors[m].size
    BY DEF Placed
  <2> QED BY <2>1, ExtentsKept
<1>2. at \notin DOMAIN minors BY GapIsApartFromAll
<1>3. \A m \in DOMAIN minors2 : m # at => m \in DOMAIN minors /\ minors2[m].block = minors[m].block
  BY DEF Placed
<1>4. ASSUME NEW b \in DOMAIN majors2 PROVE ListOf(majors2, minors2, b)
  <2> DEFINE S == Mine(minors, b)
             first == majors[b].first
             lo == FirstMinor(b)
             hi == b + majors[b].size
  <2>0. b \in DOMAIN majors /\ majors2[b].size = majors[b].size BY DEF Placed
  <2>1. ListType(minors, S) /\ first \in Nat /\ lo \in Nat /\ hi \in Nat
    BY <2>0, ListsAreTyped
  <2>2. InOrder(minors, S, first, lo, hi) BY <2>0 DEF Ordered, ListOf
  <2>3. CASE b = maj
    <3>1. Mine(minors2, b) = S \cup {at}
      BY <1>2, <1>3, <2>3 DEF Mine, Placed
    <3>2. majors2[b].first = IF prv = NULL THEN at ELSE first BY <2>0, <2>3 DEF Placed
    <3>3. LinkedIn(minors, minors2, S, at, size, prv, nxt) BY DEF Placed, LinkedIn, Mine
    <3>4. Gap_(minors, S, first, lo, hi, at, size, prv, nxt) BY <2>3 DEF GapOf
    <3> HIDE DEF S, first, lo, hi
    <3>5. InOrder(minors2, S \cup {at}, IF prv = NULL THEN at ELSE first, lo, hi)
      BY <2>1, <2>2, <3>3, <3>4, InsertedInOrder
    <3> QED BY <2>0, <3>1, <3>2, <3>5 DEF ListOf, lo, hi
  <2>4. CASE b # maj
    <3>1. Mine(minors2, b) = S BY <1>2, <1>3, <2>4 DEF Mine, Placed
    <3>2. majors2[b].first = first BY <2>0, <2>4 DEF Placed
    <3>3. prv \notin S /\ nxt \notin S /\ at \notin S
      <4>1. /\ prv # NULL => prv \in Mine(minors, maj)
            /\ nxt # NULL => nxt \in Mine(minors, maj)
        <5> DEFINE Z == Mine(minors, maj)
        <5>1. /\ ListType(minors, Z) /\ majors[maj].first \in Nat /\ FirstMinor(maj) \in Nat
              /\ maj + majors[maj].size \in Nat
          BY ListsAreTyped
        <5>2. /\ InOrder(minors, Z, majors[maj].first, FirstMinor(maj), maj + majors[maj].size)
              /\ Gap_(minors, Z, majors[maj].first, FirstMinor(maj), maj + majors[maj].size,
                      at, size, prv, nxt)
          BY DEF Ordered, ListOf, GapOf
        <5> HIDE DEF Z
        <5>3. Apart(minors, Z, FirstMinor(maj), maj + majors[maj].size, at, size, prv, nxt)
          BY <5>1, <5>2, GapIsApart
        <5>4. (prv # NULL => prv \in Z) /\ (nxt # NULL => nxt \in Z)
          BY <5>3 DEF Apart
        <5> QED BY <5>4 DEF Z
      <4>2. NULL \notin S /\ S \cap Mine(minors, maj) = {} /\ S \subseteq DOMAIN minors
        BY <2>1, <2>4 DEF ListType, Mine, NULL
      <4> HIDE DEF S
      <4> QED BY <1>2, <4>1, <4>2
    <3>4. \A m \in S : /\ minors2[m].next = minors[m].next /\ minors2[m].prev = minors[m].prev
                       /\ minors2[m].size = minors[m].size
      BY <3>3 DEF Placed, LinkedIn, Mine
    <3> HIDE DEF S, first, lo, hi
    <3>5. InOrder(minors2, S, first, lo, hi) BY <2>2, <3>4, OrderKept
    <3> QED BY <2>0, <3>1, <3>2, <3>5 DEF ListOf, lo, hi
  <2> QED BY <2>3, <2>4
<1> QED BY <1>1, <1>4 DEF Ordered

(* What Release does to the headers, before a major may go. *)
Released(majors, majors2, minors, minors2, m0) ==
  LET h == minors[m0]
  IN  /\ DOMAIN majors2 = DOMAIN majors
      /\ \A m \in DOMAIN majors :
           /\ majors2[m].pages = majors[m].pages /\ majors2[m].size = majors[m].size
           /\ majors2[m].prev = majors[m].prev /\ majors2[m].next = majors[m].next
           /\ majors2[m].first = IF m = h.block /\ h.prev = NULL THEN h.next
                                 ELSE majors[m].first
           /\ majors2[m].usage = IF m = h.block
                                 THEN Wrap(majors[m].usage - (h.size + sizeof_minor))
                                 ELSE majors[m].usage
      /\ DOMAIN minors2 = DOMAIN minors \ {m0}
      /\ Unlinked(minors, minors2, DOMAIN minors, m0)
      /\ \A m \in DOMAIN minors \ {m0} : minors2[m].block = minors[m].block

LEMMA ReleaseKeepsOrder ==
  ASSUME NEW majors, NEW majors2, NEW minors, NEW minors2,
         Typed(majors, minors), Extents(majors), Ordered(majors, minors),
         NEW m0 \in DOMAIN minors, Released(majors, majors2, minors, minors2, m0)
  PROVE  Ordered(majors2, minors2) /\ Extents(majors2)
<1>1. Extents(majors2)
  <2>1. /\ DOMAIN majors2 = DOMAIN majors
        /\ \A m \in DOMAIN majors : /\ majors2[m].pages = majors[m].pages
                                    /\ majors2[m].size = majors[m].size
    BY DEF Released
  <2> QED BY <2>1, ExtentsKept
<1> DEFINE maj == minors[m0].block
<1>2. maj \in DOMAIN majors BY DEF Typed
<1>3. ASSUME NEW b \in DOMAIN majors2 PROVE ListOf(majors2, minors2, b)
  <2> DEFINE S == Mine(minors, b)
             first == majors[b].first
             lo == FirstMinor(b)
             hi == b + majors[b].size
  <2>0. b \in DOMAIN majors /\ majors2[b].size = majors[b].size BY DEF Released
  <2>1. ListType(minors, S) /\ first \in Nat /\ lo \in Nat /\ hi \in Nat
    BY <2>0, ListsAreTyped
  <2>2. InOrder(minors, S, first, lo, hi) BY <2>0 DEF Ordered, ListOf
  <2>3. CASE b = maj
    <3>1. Mine(minors2, b) = S \ {m0} BY <2>3 DEF Mine, Released
    <3>2. majors2[b].first = IF minors[m0].prev = NULL THEN minors[m0].next ELSE first
      BY <2>0, <2>3 DEF Released
    <3>3. Unlinked(minors, minors2, S, m0) /\ m0 \in S BY <2>3 DEF Released, Unlinked, Mine
    <3> HIDE DEF S, first, lo, hi
    <3>4. InOrder(minors2, S \ {m0},
                  IF minors[m0].prev = NULL THEN minors[m0].next ELSE first, lo, hi)
      BY <2>1, <2>2, <3>3, RemovedInOrder
    <3> QED BY <2>0, <3>1, <3>2, <3>4 DEF ListOf, lo, hi
  <2>4. CASE b # maj
    <3>1. Mine(minors2, b) = S BY <2>4 DEF Mine, Released
    <3>2. majors2[b].first = first BY <2>0, <2>4 DEF Released
    <3>3. minors[m0].prev \notin S /\ minors[m0].next \notin S /\ m0 \notin S
      <4> DEFINE Z == Mine(minors, maj)
      <4>1. /\ ListType(minors, Z) /\ majors[maj].first \in Nat /\ FirstMinor(maj) \in Nat
            /\ maj + majors[maj].size \in Nat
        BY <1>2, ListsAreTyped
      <4>2. /\ InOrder(minors, Z, majors[maj].first, FirstMinor(maj), maj + majors[maj].size)
            /\ m0 \in Z
        BY <1>2 DEF Ordered, ListOf, Mine
      <4>3. NULL \notin S /\ S \cap Z = {}
        BY <2>1, <2>4 DEF ListType, Mine, NULL
      <4> HIDE DEF Z, S
      <4>4. /\ minors[m0].prev # NULL => minors[m0].prev \in Z
            /\ minors[m0].next # NULL => minors[m0].next \in Z
        BY <4>1, <4>2, Neighbours
      <4> QED BY <4>2, <4>3, <4>4
    <3>4. \A m \in S : /\ minors2[m].next = minors[m].next /\ minors2[m].prev = minors[m].prev
                       /\ minors2[m].size = minors[m].size
      BY <3>3 DEF Released, Unlinked, Mine
    <3> HIDE DEF S, first, lo, hi
    <3>5. InOrder(minors2, S, first, lo, hi) BY <2>2, <3>4, OrderKept
    <3> QED BY <2>0, <3>1, <3>2, <3>5 DEF ListOf, lo, hi
  <2> QED BY <2>3, <2>4
<1> QED BY <1>1, <1>3 DEF Ordered
-----------------------------------------------------------------------------
(* Counting bytes. *)
LEMMA CountInterval ==
  ASSUME NEW a \in Nat, NEW n \in Nat
  PROVE  IsFiniteSet(a .. a + n - 1) /\ Cardinality(a .. a + n - 1) = n
<1>1. a \in Int /\ a + n - 1 \in Int OBVIOUS
<1> DEFINE T == a .. a + n - 1
<1>2. IsFiniteSet(T) /\ Cardinality(T) = IF a > a + n - 1 THEN 0 ELSE (a + n - 1) - a + 1
  BY <1>1, FS_Interval
<1> HIDE DEF T
<1>3. IsFiniteSet(T) /\ Cardinality(T) = n BY <1>2
<1> QED BY <1>3 DEF T

LEMMA CountMore ==
  ASSUME NEW S, IsFiniteSet(S), NEW a \in Nat, NEW n \in Nat, S \cap (a .. a + n - 1) = {}
  PROVE  IsFiniteSet(S \cup (a .. a + n - 1))
         /\ Cardinality(S \cup (a .. a + n - 1)) = Cardinality(S) + n
<1> DEFINE T == a .. a + n - 1
<1>1. IsFiniteSet(T) /\ Cardinality(T) = n BY CountInterval
<1>2. S \cap T = {} OBVIOUS
<1> HIDE DEF T
<1>3. Cardinality(S \cap T) = 0 BY <1>2, FS_EmptySet
<1>4. IsFiniteSet(S \cup T)
      /\ Cardinality(S \cup T) = Cardinality(S) + Cardinality(T) - Cardinality(S \cap T)
  BY <1>1, FS_Union
<1>5. Cardinality(S) \in Nat BY FS_CardinalityType
<1> QED BY <1>1, <1>3, <1>4, <1>5 DEF T

LEMMA CountLess ==
  ASSUME NEW S, IsFiniteSet(S), NEW a \in Nat, NEW n \in Nat, a .. a + n - 1 \subseteq S
  PROVE  Cardinality(S \ (a .. a + n - 1)) = Cardinality(S) - n
         /\ n <= Cardinality(S) /\ Cardinality(S) \in Nat
<1> DEFINE T == a .. a + n - 1
           R == S \ T
<1>1. S = R \cup T /\ R \cap T = {} OBVIOUS
<1>2. IsFiniteSet(R) BY FS_Difference
<1> HIDE DEF R
<1>3. Cardinality(S) = Cardinality(R) + n BY <1>1, <1>2, CountMore
<1>4. Cardinality(R) \in Nat BY <1>2, FS_CardinalityType
<1> QED BY <1>3, <1>4 DEF R

(* The bytes of a minor with its header, without, and of a major. *)
BytesOf(minors, m) == m .. Ends(minors, m) - 1
BodyOf(minors, m) == m + sizeof_minor .. Ends(minors, m) - 1
ExtentOf(majors, m) == m .. m + majors[m].size - 1

Used(minors, maj) ==
  maj .. FirstMinor(maj) - 1 \cup UNION {BytesOf(minors, m) : m \in Mine(minors, maj)}
InUse(minors) == UNION {BodyOf(minors, m) : m \in DOMAIN minors}
Allocated(majors) == UNION {ExtentOf(majors, m) : m \in DOMAIN majors}

LEMMA UnionsOfBytes ==
  /\ \A minors, maj, x : x \in Used(minors, maj) <=>
       \/ x \in maj .. FirstMinor(maj) - 1
       \/ \E m \in Mine(minors, maj) : x \in BytesOf(minors, m)
  /\ \A minors, x : x \in InUse(minors) <=> \E m \in DOMAIN minors : x \in BodyOf(minors, m)
  /\ \A majors, x : x \in Allocated(majors) <=> \E m \in DOMAIN majors : x \in ExtentOf(majors, m)
BY DEF Used, InUse, Allocated

UsageExact(majors, minors) ==
  \A maj \in DOMAIN majors : majors[maj].usage = Cardinality(Used(minors, maj))

LEMMA UsedIsInside ==
  ASSUME NEW majors, NEW minors, Typed(majors, minors), Extents(majors),
         Ordered(majors, minors), NEW maj \in DOMAIN majors,
         sizeof_major <= majors[maj].size
  PROVE  /\ Used(minors, maj) \subseteq maj .. maj + majors[maj].size - 1
         /\ IsFiniteSet(Used(minors, maj))
         /\ Cardinality(Used(minors, maj)) \in Nat
         /\ Cardinality(Used(minors, maj)) <= majors[maj].size
<1> DEFINE hi == maj + majors[maj].size
           E == maj .. maj + majors[maj].size - 1
<1>1. maj \in Nat \ {0} /\ majors[maj].size \in Nat /\ sizeof_major \in Nat
  BY ExtentsApart, HeapSizes
<1>2. Used(minors, maj) \subseteq E
  <2>1. maj .. FirstMinor(maj) - 1 \subseteq E BY <1>1 DEF FirstMinor
  <2>2. ASSUME NEW m \in Mine(minors, maj) PROVE BytesOf(minors, m) \subseteq E
    <3>1. m \in DOMAIN minors /\ minors[m].block = maj BY DEF Mine
    <3>2. /\ m \in Nat /\ Ends(minors, m) \in Nat /\ FirstMinor(maj) <= m
          /\ Ends(minors, m) <= hi
      BY <3>1, MinorsApart
    <3> QED BY <1>1, <3>2 DEF FirstMinor, BytesOf
  <2> QED BY <2>1, <2>2 DEF Used
<1>3. IsFiniteSet(E) /\ Cardinality(E) = majors[maj].size
  BY <1>1, CountInterval
<1> HIDE DEF E
<1>4. /\ IsFiniteSet(Used(minors, maj))
      /\ Cardinality(Used(minors, maj)) <= Cardinality(E)
  BY <1>2, <1>3, FS_Subset
<1>5. Cardinality(Used(minors, maj)) \in Nat BY <1>4, FS_CardinalityType
<1>6. Cardinality(E) = majors[maj].size BY <1>3
<1>7. Cardinality(Used(minors, maj)) <= majors[maj].size BY <1>4, <1>6
<1> QED BY <1>2, <1>4, <1>5, <1>7 DEF E

(* A gap is part of the room of its major. *)
LEMMA GapFitsRoom ==
  ASSUME NEW majors, NEW minors, Typed(majors, minors), Extents(majors),
         Ordered(majors, minors), UsageExact(majors, minors), NEW maj \in DOMAIN majors,
         NEW at \in Nat \ {0}, NEW size \in Nat, NEW prv \in Nat, NEW nxt \in Nat,
         GapOf(majors, minors, maj, at, size, prv, nxt)
  PROVE  /\ Used(minors, maj) \cap (at .. at + (size + sizeof_minor) - 1) = {}
         /\ IsFiniteSet(Used(minors, maj)) /\ majors[maj].usage \in Nat
         /\ majors[maj].usage + (size + sizeof_minor) <= majors[maj].size
         /\ majors[maj].size \in Nat /\ majors[maj].size < U32
<1> DEFINE n == size + sizeof_minor
           I == at .. at + n - 1
           U == Used(minors, maj)
           hi == maj + majors[maj].size
           E == maj .. maj + majors[maj].size - 1
<1>0. sizeof_minor \in Nat \ {0} /\ sizeof_major \in Nat /\ U32 \in Nat BY HeapSizes
<1>1. maj \in Nat \ {0} /\ majors[maj].size \in Nat /\ hi <= U32
  BY ExtentsApart
<1>2. /\ \A k \in DOMAIN minors : Ends(minors, k) <= at \/ at + sizeof_minor + size <= k
      /\ FirstMinor(maj) <= at /\ at + sizeof_minor + size <= hi
  BY GapIsApartFromAll
<1>3. n \in Nat /\ at + n <= hi /\ maj + sizeof_major <= at
      /\ sizeof_major <= majors[maj].size
  BY <1>0, <1>1, <1>2 DEF FirstMinor
<1>4. U \subseteq E /\ IsFiniteSet(U) /\ Cardinality(U) \in Nat BY <1>3, UsedIsInside
<1>5. U \cap I = {}
  <2>1. (maj .. FirstMinor(maj) - 1) \cap I = {} BY <1>0, <1>1, <1>2 DEF FirstMinor
  <2>2. ASSUME NEW m \in Mine(minors, maj) PROVE BytesOf(minors, m) \cap I = {}
    <3>1. m \in DOMAIN minors BY DEF Mine
    <3>2. m \in Nat /\ Ends(minors, m) \in Nat BY <3>1, MinorsApart
    <3>3. Ends(minors, m) <= at \/ at + n <= m BY <1>0, <1>2, <3>1
    <3> QED BY <1>3, <3>2, <3>3 DEF BytesOf
  <2> HIDE DEF I
  <2> QED BY <2>1, <2>2 DEF Used
<1>6. I \subseteq E BY <1>0, <1>1, <1>3
<1>7. IsFiniteSet(E) /\ Cardinality(E) = majors[maj].size BY <1>1, CountInterval
<1> HIDE DEF U, E, n, hi
<1>8. Cardinality(U \cup I) = Cardinality(U) + n BY <1>3, <1>4, <1>5, CountMore
<1> HIDE DEF I
<1>9. Cardinality(U \cup I) <= Cardinality(E) BY <1>4, <1>6, <1>7, FS_Subset
<1>10. majors[maj].usage = Cardinality(U) BY DEF UsageExact, U
<1> QED BY <1>0, <1>1, <1>4, <1>5, <1>7, <1>8, <1>9, <1>10 DEF U, I, n, hi

LEMMA WrapSmall == ASSUME NEW n \in Nat, n < U32 PROVE Wrap(n) = n
BY HeapSizes DEF Wrap

LEMMA PlaceKeepsUsage ==
  ASSUME NEW majors, NEW majors2, NEW minors, NEW minors2,
         Typed(majors, minors), Extents(majors), Ordered(majors, minors),
         UsageExact(majors, minors), NEW maj \in DOMAIN majors,
         NEW at \in Nat \ {0}, NEW size \in Nat, NEW prv \in Nat, NEW nxt \in Nat,
         GapOf(majors, minors, maj, at, size, prv, nxt),
         Placed(majors, majors2, minors, minors2, maj, at, size, prv, nxt)
  PROVE  UsageExact(majors2, minors2)
<1> DEFINE n == size + sizeof_minor
<1>0. sizeof_minor \in Nat \ {0} /\ U32 \in Nat /\ n \in Nat BY HeapSizes
<1>1. at \notin DOMAIN minors BY GapIsApartFromAll
<1>2. /\ \A m \in DOMAIN minors : Ends(minors2, m) = Ends(minors, m)
      /\ Ends(minors2, at) = at + n
  <2>1. Ends(minors2, at) = at + sizeof_minor + size BY DEF Placed, LinkedIn, Ends
  <2>2. \A m \in DOMAIN minors : minors2[m].size = minors[m].size
    BY <1>1 DEF Placed, LinkedIn
  <2> QED BY <1>0, <2>1, <2>2 DEF Ends
<1>3. /\ Mine(minors2, maj) = Mine(minors, maj) \cup {at}
      /\ \A b \in DOMAIN majors \ {maj} : Mine(minors2, b) = Mine(minors, b)
  BY <1>1 DEF Placed, Mine
<1>4. ASSUME NEW b \in DOMAIN majors PROVE majors2[b].usage = Cardinality(Used(minors2, b))
  <2>1. CASE b = maj
    <3> DEFINE U == Used(minors, maj)
    <3>1. Used(minors2, maj) = U \cup (at .. at + n - 1)
      <4>1. \A m \in Mine(minors, maj) : BytesOf(minors2, m) = BytesOf(minors, m)
        BY <1>2 DEF Mine, BytesOf
      <4>2. BytesOf(minors2, at) = at .. at + n - 1
        <5>1. (at + n) - 1 = at + n - 1 BY <1>0
        <5> QED BY <1>2, <5>1 DEF BytesOf
      <4> HIDE DEF U, n
      <4>3. ASSUME NEW x PROVE x \in Used(minors2, maj) <=> x \in U \cup (at .. at + n - 1)
        BY <1>3, <4>1, <4>2, UnionsOfBytes DEF U
      <4> QED BY <4>3
    <3>2. /\ U \cap (at .. at + n - 1) = {} /\ IsFiniteSet(U) /\ majors[maj].usage \in Nat
          /\ majors[maj].usage + n <= majors[maj].size
          /\ majors[maj].size \in Nat /\ majors[maj].size < U32
      BY GapFitsRoom
    <3>3. majors[maj].usage = Cardinality(U) BY DEF UsageExact
    <3> HIDE DEF U
    <3>4. Cardinality(U \cup (at .. at + n - 1)) = Cardinality(U) + n
      BY <1>0, <3>2, CountMore
    <3>5. majors2[maj].usage = Wrap(majors[maj].usage + n) BY DEF Placed
    <3>6. Wrap(majors[maj].usage + n) = majors[maj].usage + n
      <4>1. majors[maj].usage + n \in Nat /\ majors[maj].usage + n < U32 BY <1>0, <3>2
      <4> QED BY <4>1, WrapSmall
    <3> QED BY <2>1, <3>1, <3>3, <3>4, <3>5, <3>6
  <2>2. CASE b # maj
    <3>1. \A m \in Mine(minors, b) : BytesOf(minors2, m) = BytesOf(minors, m)
        BY <1>2 DEF Mine, BytesOf
    <3>2. Mine(minors2, b) = Mine(minors, b) BY <1>3, <2>2
    <3>4. Used(minors2, b) = Used(minors, b)
      <4>1. ASSUME NEW x PROVE x \in Used(minors2, b) <=> x \in Used(minors, b)
        BY <3>1, <3>2, UnionsOfBytes
      <4> QED BY <4>1
    <3>5. majors2[b].usage = majors[b].usage BY <2>2 DEF Placed
    <3> QED BY <3>4, <3>5 DEF UsageExact
  <2> QED BY <2>1, <2>2
<1> QED BY <1>4 DEF UsageExact, Placed

LEMMA InUseIsFinite ==
  ASSUME NEW majors, NEW minors, Typed(majors, minors), Extents(majors), Ordered(majors, minors)
  PROVE  IsFiniteSet(InUse(minors)) /\ Cardinality(InUse(minors)) \in Nat
<1>0. sizeof_minor \in Nat /\ U32 \in Nat BY HeapSizes
<1>1. InUse(minors) \subseteq 0 .. U32
  <2>1. ASSUME NEW m \in DOMAIN minors PROVE BodyOf(minors, m) \subseteq 0 .. U32
    <3>1. m \in Nat /\ Ends(minors, m) \in Nat /\ Ends(minors, m) <= U32 BY MinorsApart
    <3> QED BY <1>0, <3>1 DEF BodyOf
  <2> QED BY <2>1, UnionsOfBytes
<1>2. IsFiniteSet(0 .. U32)
  <2>1. 0 \in Int /\ U32 \in Int BY <1>0
  <2> QED BY <2>1, FS_Interval
<1>3. IsFiniteSet(InUse(minors)) BY <1>1, <1>2, FS_Subset
<1> QED BY <1>3, FS_CardinalityType

LEMMA PlaceCountsInUse ==
  ASSUME NEW majors, NEW majors2, NEW minors, NEW minors2,
         Typed(majors, minors), Extents(majors), Ordered(majors, minors),
         NEW maj \in DOMAIN majors,
         NEW at \in Nat \ {0}, NEW size \in Nat, NEW prv \in Nat, NEW nxt \in Nat,
         GapOf(majors, minors, maj, at, size, prv, nxt),
         Placed(majors, majors2, minors, minors2, maj, at, size, prv, nxt)
  PROVE  Cardinality(InUse(minors2)) = Cardinality(InUse(minors)) + size
<1> DEFINE base == at + sizeof_minor
           I == base .. base + size - 1
           U == InUse(minors)
<1>0. sizeof_minor \in Nat \ {0} /\ base \in Nat BY HeapSizes
<1>1. /\ \A k \in DOMAIN minors : Ends(minors, k) <= at \/ at + sizeof_minor + size <= k
      /\ at \notin DOMAIN minors
  BY GapIsApartFromAll
<1>2. \A m \in DOMAIN minors : BodyOf(minors2, m) = BodyOf(minors, m)
  BY <1>1 DEF Placed, LinkedIn, Ends, BodyOf
<1>3. BodyOf(minors2, at) = I
  <2>1. Ends(minors2, at) = base + size BY DEF Placed, LinkedIn, Ends
  <2>2. (base + size) - 1 = base + size - 1 BY <1>0
  <2> QED BY <2>1, <2>2 DEF BodyOf
<1>4. U \cap I = {}
  <2>1. ASSUME NEW m \in DOMAIN minors PROVE BodyOf(minors, m) \cap I = {}
    <3>1. m \in Nat /\ Ends(minors, m) \in Nat BY MinorsApart
    <3>2. Ends(minors, m) <= at \/ at + sizeof_minor + size <= m BY <1>1
    <3> QED BY <1>0, <3>1, <3>2 DEF BodyOf
  <2> HIDE DEF I
  <2> QED BY <2>1, UnionsOfBytes
<1> HIDE DEF I, U, base
<1>5. InUse(minors2) = U \cup I
  <2>1. ASSUME NEW x PROVE x \in InUse(minors2) <=> x \in U \cup I
    BY <1>2, <1>3, UnionsOfBytes DEF U, Placed
  <2> QED BY <2>1
<1>6. IsFiniteSet(U) BY InUseIsFinite DEF U
<1>7. Cardinality(U \cup I) = Cardinality(U) + size BY <1>0, <1>4, <1>6, CountMore DEF I
<1> QED BY <1>5, <1>7 DEF U

LEMMA ReleaseKeepsUsage ==
  ASSUME NEW majors, NEW majors2, NEW minors, NEW minors2,
         Typed(majors, minors), Extents(majors), Ordered(majors, minors),
         UsageExact(majors, minors), \A maj \in DOMAIN majors : sizeof_major <= majors[maj].size,
         NEW m0 \in DOMAIN minors, Released(majors, majors2, minors, minors2, m0)
  PROVE  /\ UsageExact(majors2, minors2)
         /\ majors[minors[m0].block].usage >= minors[m0].size + sizeof_minor
<1> DEFINE maj == minors[m0].block
           n == minors[m0].size + sizeof_minor
           I == m0 .. m0 + n - 1
           U == Used(minors, maj)
<1>0. sizeof_minor \in Nat \ {0} /\ U32 \in Nat BY HeapSizes
<1>1. /\ m0 \in Nat /\ minors[m0].size \in Nat /\ Ends(minors, m0) = m0 + n /\ n \in Nat
      /\ maj \in DOMAIN majors /\ FirstMinor(maj) <= m0
      /\ \A k \in DOMAIN minors \ {m0} : Ends(minors, m0) <= k \/ Ends(minors, k) <= m0
  <2>1. /\ m0 \in Nat /\ minors[m0].size \in Nat
        /\ Ends(minors, m0) = m0 + sizeof_minor + minors[m0].size
        /\ maj \in DOMAIN majors /\ FirstMinor(maj) <= m0
        /\ \A k \in DOMAIN minors \ {m0} : Ends(minors, m0) <= k \/ Ends(minors, k) <= m0
    BY MinorsApart
  <2> QED BY <1>0, <2>1
<1>2. \A m \in DOMAIN minors \ {m0} : BytesOf(minors2, m) = BytesOf(minors, m)
  BY DEF Released, Unlinked, Ends, BytesOf
<1>3. BytesOf(minors, m0) = I
  <2>1. (m0 + n) - 1 = m0 + n - 1 BY <1>1
  <2> QED BY <1>1, <2>1 DEF BytesOf
<1>4. /\ Mine(minors2, maj) = Mine(minors, maj) \ {m0} /\ m0 \in Mine(minors, maj)
      /\ \A b \in DOMAIN majors \ {maj} : Mine(minors2, b) = Mine(minors, b)
                                          /\ m0 \notin Mine(minors, b)
  BY DEF Released, Mine
<1>5. I \subseteq U BY <1>3, <1>4, UnionsOfBytes
<1>6. Used(minors2, maj) = U \ I
  <2>1. \A m \in Mine(minors, maj) \ {m0} : BytesOf(minors, m) \cap I = {}
    <3> TAKE m \in Mine(minors, maj) \ {m0}
    <3>1. m \in DOMAIN minors \ {m0} BY DEF Mine
    <3>2. m \in Nat /\ Ends(minors, m) \in Nat BY <3>1, MinorsApart
    <3>3. m0 + n <= m \/ Ends(minors, m) <= m0 BY <1>1, <3>1
    <3> HIDE DEF n, maj
    <3> QED BY <1>1, <3>2, <3>3 DEF BytesOf
  <2>2. (maj .. FirstMinor(maj) - 1) \cap I = {}
    <3>1. maj \in Nat BY <1>1, ExtentsApart
    <3>2. FirstMinor(maj) \in Nat BY <3>1, HeapSizes DEF FirstMinor
    <3> HIDE DEF n, maj
    <3> QED BY <1>1, <3>1, <3>2
  <2>3. \A m \in Mine(minors, maj) \ {m0} : BytesOf(minors2, m) = BytesOf(minors, m)
    BY <1>2 DEF Mine
  <2> HIDE DEF I, U, n, maj
  <2>4. ASSUME NEW x PROVE x \in Used(minors2, maj) <=> x \in U \ I
    BY <1>3, <1>4, <2>1, <2>2, <2>3, UnionsOfBytes DEF U
  <2> QED BY <2>4
<1>7. IsFiniteSet(U) /\ Cardinality(U) <= majors[maj].size
      /\ majors[maj].size \in Nat /\ majors[maj].size < U32
  <2>1. /\ maj \in Nat \ {0} /\ majors[maj].size \in Nat /\ maj + majors[maj].size <= U32
    BY <1>1, ExtentsApart
  <2>2. IsFiniteSet(U) /\ Cardinality(U) <= majors[maj].size
    BY <1>1, UsedIsInside
  <2> QED BY <1>0, <2>1, <2>2
<1>8. majors[maj].usage = Cardinality(U) BY <1>1 DEF UsageExact
<1> HIDE DEF U, n, maj
<1>9. Cardinality(U \ I) = Cardinality(U) - n /\ n <= Cardinality(U) /\ Cardinality(U) \in Nat
  BY <1>1, <1>5, <1>7, CountLess
<1>10. majors2[maj].usage = Cardinality(U \ I)
  <2>1. majors2[maj].usage = Wrap(majors[maj].usage - n) BY <1>1 DEF Released, n, maj
  <2>2. majors[maj].usage - n \in Nat /\ majors[maj].usage - n < U32
    BY <1>0, <1>1, <1>7, <1>8, <1>9
  <2> QED BY <1>8, <1>9, <2>1, <2>2, WrapSmall
<1>11. ASSUME NEW b \in DOMAIN majors, b # maj
       PROVE  majors2[b].usage = Cardinality(Used(minors2, b))
  <2>1. Used(minors2, b) = Used(minors, b)
    <3>1. \A m \in Mine(minors, b) : BytesOf(minors2, m) = BytesOf(minors, m)
      BY <1>2, <1>4, <1>11 DEF Mine
    <3>2. Mine(minors2, b) = Mine(minors, b) BY <1>4, <1>11
    <3>3. ASSUME NEW x PROVE x \in Used(minors2, b) <=> x \in Used(minors, b)
      BY <3>1, <3>2, UnionsOfBytes
    <3> QED BY <3>3
  <2>2. majors2[b].usage = majors[b].usage BY <1>11 DEF Released, maj
  <2> QED BY <2>1, <2>2 DEF UsageExact
<1>12. UsageExact(majors2, minors2)
  BY <1>6, <1>10, <1>11 DEF UsageExact, Released
<1>13. majors[maj].usage >= n BY <1>1, <1>8, <1>9
<1> QED BY <1>12, <1>13 DEF maj, n

LEMMA ReleaseCountsInUse ==
  ASSUME NEW majors, NEW majors2, NEW minors, NEW minors2,
         Typed(majors, minors), Extents(majors), Ordered(majors, minors),
         NEW m0 \in DOMAIN minors, Released(majors, majors2, minors, minors2, m0)
  PROVE  Cardinality(InUse(minors2)) = Cardinality(InUse(minors)) - minors[m0].size
<1> DEFINE base == m0 + sizeof_minor
           n == minors[m0].size
           I == base .. base + n - 1
           U == InUse(minors)
<1>0. sizeof_minor \in Nat \ {0} BY HeapSizes
<1>1. /\ m0 \in Nat /\ n \in Nat /\ Ends(minors, m0) = base + n /\ base \in Nat
      /\ \A k \in DOMAIN minors \ {m0} : Ends(minors, m0) <= k \/ Ends(minors, k) <= m0
  <2>1. /\ m0 \in Nat /\ n \in Nat
        /\ Ends(minors, m0) = m0 + sizeof_minor + minors[m0].size
        /\ \A k \in DOMAIN minors \ {m0} : Ends(minors, m0) <= k \/ Ends(minors, k) <= m0
    BY MinorsApart
  <2> QED BY <1>0, <2>1
<1>2. \A m \in DOMAIN minors \ {m0} : BodyOf(minors2, m) = BodyOf(minors, m)
  BY DEF Released, Unlinked, Ends, BodyOf
<1>3. BodyOf(minors, m0) = I
  <2>1. (base + n) - 1 = base + n - 1 BY <1>1
  <2> QED BY <1>1, <2>1 DEF BodyOf
<1>4. \A m \in DOMAIN minors \ {m0} : BodyOf(minors, m) \cap I = {}
  <2> TAKE m \in DOMAIN minors \ {m0}
  <2>1. m \in Nat /\ Ends(minors, m) \in Nat BY MinorsApart
  <2>2. base + n <= m \/ Ends(minors, m) <= m0 BY <1>1
  <2> HIDE DEF n
  <2> QED BY <1>0, <1>1, <2>1, <2>2 DEF BodyOf
<1>5. I \subseteq U BY <1>3, UnionsOfBytes
<1> HIDE DEF I, U, n, base
<1>6. InUse(minors2) = U \ I
  <2>1. ASSUME NEW x PROVE x \in InUse(minors2) <=> x \in U \ I
    BY <1>2, <1>3, <1>4, UnionsOfBytes DEF U, Released
  <2> QED BY <2>1
<1>7. IsFiniteSet(U) BY InUseIsFinite DEF U
<1>8. Cardinality(U \ I) = Cardinality(U) - n BY <1>1, <1>5, <1>7, CountLess DEF I
<1> QED BY <1>6, <1>8 DEF U, n
-----------------------------------------------------------------------------
(* The list of majors. *)
ClosedFrom(majors, root, S) ==
  root \in S \cup {NULL} /\ \A m \in S : majors[m].next \in S \cup {NULL}

Chain(majors, root) ==
  /\ root \in DOMAIN majors \cup {NULL} /\ NULL \notin DOMAIN majors
  /\ root # NULL => majors[root].prev = NULL
  /\ \A m \in DOMAIN majors :
       /\ IF majors[m].prev = NULL THEN m = root
          ELSE majors[m].prev \in DOMAIN majors /\ majors[majors[m].prev].next = m
       /\ majors[m].next # NULL =>
            majors[m].next \in DOMAIN majors /\ majors[majors[m].next].prev = m
  /\ \A S \in SUBSET DOMAIN majors : ClosedFrom(majors, root, S) => S = DOMAIN majors

LEMMA ChainKept ==
  ASSUME NEW majors, NEW majors2, NEW root, Chain(majors, root),
         DOMAIN majors2 = DOMAIN majors,
         \A m \in DOMAIN majors : /\ majors2[m].prev = majors[m].prev
                                  /\ majors2[m].next = majors[m].next
  PROVE  Chain(majors2, root)
<1>1. ASSUME NEW S \in SUBSET DOMAIN majors2, ClosedFrom(majors2, root, S)
      PROVE  S = DOMAIN majors2
  <2>1. ClosedFrom(majors, root, S) BY <1>1 DEF ClosedFrom
  <2> QED BY <2>1 DEF Chain
<1> QED BY <1>1 DEF Chain

(* A major behind the last one, or the first. *)
LinkedMajor(majors, majors2, at, after) ==
  /\ DOMAIN majors2 = DOMAIN majors \cup {at}
  /\ majors2[at].prev = after /\ majors2[at].next = NULL
  /\ \A m \in DOMAIN majors : /\ majors2[m].prev = majors[m].prev
                             /\ majors2[m].next = IF m = after THEN at ELSE majors[m].next

LEMMA NewMajorKeepsChain ==
  ASSUME NEW majors, NEW majors2, NEW root, NEW at, NEW after, Chain(majors, root),
         at # NULL, at \notin DOMAIN majors,
         IF after = NULL THEN root = NULL
         ELSE after \in DOMAIN majors /\ majors[after].next = NULL,
         LinkedMajor(majors, majors2, at, after)
  PROVE  Chain(majors2, IF after = NULL THEN at ELSE root)
<1> DEFINE D == DOMAIN majors
           r == IF after = NULL THEN at ELSE root
<1>1. root = NULL => D = {}
  <2>1. root = NULL => ClosedFrom(majors, root, {}) BY DEF ClosedFrom
  <2> QED BY <2>1 DEF Chain
<1>2. /\ r \in DOMAIN majors2 \cup {NULL} /\ NULL \notin DOMAIN majors2
      /\ r # NULL => majors2[r].prev = NULL
  BY <1>1 DEF Chain, LinkedMajor
<1>3. ASSUME NEW m \in DOMAIN majors2
      PROVE  /\ IF majors2[m].prev = NULL THEN m = r
                ELSE majors2[m].prev \in DOMAIN majors2 /\ majors2[majors2[m].prev].next = m
             /\ majors2[m].next # NULL =>
                  majors2[m].next \in DOMAIN majors2 /\ majors2[majors2[m].next].prev = m
  <2>1. CASE m = at BY <1>1, <2>1 DEF Chain, LinkedMajor
  <2>2. CASE m # at
    <3>1. m \in D /\ majors2[m].prev = majors[m].prev BY <2>2 DEF LinkedMajor
    <3>2. CASE majors[m].prev = NULL
      <4>1. m = root /\ after # NULL BY <1>1, <3>1, <3>2 DEF Chain
      <4>2. majors2[m].next # NULL =>
              majors2[m].next \in DOMAIN majors2 /\ majors2[majors2[m].next].prev = m
        BY <3>1 DEF Chain, LinkedMajor
      <4> QED BY <3>1, <3>2, <4>1, <4>2
    <3>3. CASE majors[m].prev # NULL
      <4>1. majors[m].prev \in D /\ majors[majors[m].prev].next = m /\ m # NULL
        BY <3>1, <3>3 DEF Chain
      <4>2. majors[m].prev # after BY <4>1 DEF Chain
      <4>3. majors2[majors[m].prev].next = m BY <4>1, <4>2 DEF LinkedMajor
      <4>4. majors2[m].next # NULL =>
              majors2[m].next \in DOMAIN majors2 /\ majors2[majors2[m].next].prev = m
        BY <3>1 DEF Chain, LinkedMajor
      <4> QED BY <3>1, <3>3, <4>1, <4>3, <4>4 DEF LinkedMajor
    <3> QED BY <3>2, <3>3
  <2> QED BY <2>1, <2>2
<1>4. ASSUME NEW S \in SUBSET DOMAIN majors2, ClosedFrom(majors2, r, S)
      PROVE  S = DOMAIN majors2
  <2> DEFINE T == S \ {at}
  <2>1. T \in SUBSET D BY DEF LinkedMajor
  <2>2. CASE after = NULL
    <3>1. D = {} /\ at \in S BY <1>1, <1>4, <2>2 DEF ClosedFrom
    <3> QED BY <3>1 DEF LinkedMajor
  <2>3. CASE after # NULL
    <3>1. after \in D /\ majors[after].next = NULL BY <2>3
    <3>2. root \in T \cup {NULL} BY <1>4, <2>3 DEF ClosedFrom, Chain
    <3>3. ASSUME NEW m \in T PROVE majors[m].next \in T \cup {NULL}
      <4>1. CASE m = after BY <3>1, <4>1
      <4>2. CASE m # after
        <5>1. majors2[m].next = majors[m].next BY <2>1, <4>2 DEF LinkedMajor
        <5>2. majors[m].next \in S \cup {NULL} BY <1>4, <5>1 DEF ClosedFrom
        <5>3. majors[m].next # at BY <2>1 DEF Chain
        <5> QED BY <5>2, <5>3
      <4> QED BY <4>1, <4>2
    <3>4. T = D
      <4>1. ClosedFrom(majors, root, T) BY <3>2, <3>3 DEF ClosedFrom
      <4> QED BY <2>1, <4>1 DEF Chain
    <3>5. majors2[after].next = at /\ after \in S BY <3>1, <3>4 DEF LinkedMajor
    <3>6. at \in S BY <1>4, <3>5 DEF ClosedFrom
    <3> QED BY <3>4, <3>6 DEF LinkedMajor
  <2> QED BY <2>2, <2>3
<1> HIDE DEF r
<1>5. Chain(majors2, r) BY <1>2, <1>3, <1>4 DEF Chain
<1> QED BY <1>5 DEF r

(* The two neighbours of a major differ, for all are reached from the root. *)
LEMMA NoCycle ==
  ASSUME NEW majors, NEW root, Chain(majors, root), NEW m \in DOMAIN majors,
         majors[m].next # NULL
  PROVE  majors[m].next # majors[m].prev /\ majors[m].next # m
<1> DEFINE k == majors[m].next
           D == DOMAIN majors
           S == D \ {m, k}
<1> SUFFICES ASSUME k = majors[m].prev \/ k = m PROVE FALSE OBVIOUS
<1>1. k \in D /\ majors[k].prev = m /\ m # NULL BY DEF Chain
<1>2. majors[m].prev = k /\ majors[m].prev # NULL BY <1>1
<1>3. root # m /\ root # k BY <1>1, <1>2 DEF Chain
<1>4. ASSUME NEW x \in S PROVE majors[x].next \in S \cup {NULL}
  <2>1. majors[x].next # NULL =>
          majors[x].next \in D /\ majors[majors[x].next].prev = x
    BY DEF Chain
  <2>2. majors[x].next # m /\ majors[x].next # k BY <1>1, <1>2, <2>1
  <2> QED BY <2>1, <2>2
<1>5. ClosedFrom(majors, root, S)
  <2>1. root \in S \cup {NULL} BY <1>3 DEF Chain
  <2> HIDE DEF S
  <2> QED BY <1>4, <2>1 DEF ClosedFrom
<1>6. S = D BY <1>5 DEF Chain
<1> QED BY <1>6

UnlinkedMajor(majors, majors2, maj) ==
  /\ DOMAIN majors2 = DOMAIN majors \ {maj}
  /\ \A m \in DOMAIN majors \ {maj} :
       /\ majors2[m].next = IF m = majors[maj].prev THEN majors[maj].next ELSE majors[m].next
       /\ majors2[m].prev = IF m = majors[maj].next THEN majors[maj].prev ELSE majors[m].prev

LEMMA DropKeepsChain ==
  ASSUME NEW majors, NEW majors2, NEW root, Chain(majors, root), NEW maj \in DOMAIN majors,
         UnlinkedMajor(majors, majors2, maj)
  PROVE  Chain(majors2, IF root = maj THEN majors[maj].next ELSE root)
<1> DEFINE D == DOMAIN majors
           prv == majors[maj].prev
           nxt == majors[maj].next
           r == IF root = maj THEN nxt ELSE root
<1>1. /\ nxt # NULL => nxt \in D \ {maj} /\ majors[nxt].prev = maj /\ nxt # prv
      /\ prv # NULL => prv \in D /\ majors[prv].next = maj /\ maj # root
      /\ prv = NULL => maj = root
      /\ maj # NULL
  <2>1. nxt # NULL => nxt # prv /\ nxt # maj BY NoCycle
  <2> QED BY <2>1 DEF Chain
<1>2. prv # maj
  <2> SUFFICES ASSUME prv = maj PROVE FALSE OBVIOUS
  <2>1. majors[maj].next = maj BY <1>1
  <2> QED BY <1>1, <2>1
<1>3. /\ r \in DOMAIN majors2 \cup {NULL} /\ NULL \notin DOMAIN majors2
      /\ r # NULL => majors2[r].prev = NULL
  <2>1. CASE root = maj
    <3>1. prv = NULL BY <1>1, <2>1
    <3> QED BY <1>1, <2>1, <3>1 DEF Chain, UnlinkedMajor
  <2>2. CASE root # maj
    <3>1. root # NULL => majors[root].prev = NULL /\ root \in D \ {maj} BY <2>2 DEF Chain
    <3>2. root # NULL => root # nxt BY <1>1, <3>1
    <3> QED BY <2>2, <3>1, <3>2 DEF Chain, UnlinkedMajor
  <2> QED BY <2>1, <2>2
<1>4. ASSUME NEW m \in DOMAIN majors2
      PROVE  IF majors2[m].prev = NULL THEN m = r
             ELSE majors2[m].prev \in DOMAIN majors2 /\ majors2[majors2[m].prev].next = m
  <2>0. m \in D \ {maj} BY DEF UnlinkedMajor
  <2>1. CASE m = nxt
    <3>1. majors2[m].prev = prv BY <2>0, <2>1 DEF UnlinkedMajor
    <3>2. prv # NULL => majors2[prv].next = nxt /\ prv \in D \ {maj}
      BY <1>1, <1>2 DEF UnlinkedMajor
    <3> QED BY <1>1, <2>1, <3>1, <3>2 DEF UnlinkedMajor
  <2>2. CASE m # nxt
    <3>1. majors2[m].prev = majors[m].prev BY <2>0, <2>2 DEF UnlinkedMajor
    <3>2. CASE majors[m].prev = NULL BY <2>0, <3>1, <3>2 DEF Chain
    <3>3. CASE majors[m].prev # NULL
      <4> DEFINE k == majors[m].prev
      <4>1. k \in D /\ majors[k].next = m BY <2>0, <3>3 DEF Chain
      <4>2. k # maj /\ k # prv BY <1>1, <2>0, <2>2, <3>3, <4>1
      <4>3. majors2[k].next = m BY <4>1, <4>2 DEF UnlinkedMajor
      <4> QED BY <3>1, <3>3, <4>1, <4>2, <4>3 DEF UnlinkedMajor
    <3> QED BY <3>2, <3>3
  <2> QED BY <2>1, <2>2
<1>5. ASSUME NEW m \in DOMAIN majors2, majors2[m].next # NULL
      PROVE  majors2[m].next \in DOMAIN majors2 /\ majors2[majors2[m].next].prev = m
  <2>0. m \in D \ {maj} BY DEF UnlinkedMajor
  <2>1. CASE m = prv
    <3>1. majors2[m].next = nxt /\ nxt # NULL BY <1>5, <2>0, <2>1 DEF UnlinkedMajor
    <3>2. nxt \in D \ {maj} /\ majors2[nxt].prev = prv BY <1>1, <3>1 DEF UnlinkedMajor
    <3> QED BY <2>1, <3>1, <3>2 DEF UnlinkedMajor
  <2>2. CASE m # prv
    <3> DEFINE k == majors[m].next
    <3>1. majors2[m].next = k /\ k # NULL BY <1>5, <2>0, <2>2 DEF UnlinkedMajor
    <3>2. k \in D /\ majors[k].prev = m BY <2>0, <3>1 DEF Chain
    <3>3. k # maj /\ k # nxt BY <1>1, <2>0, <2>2, <3>1, <3>2
    <3>4. majors2[k].prev = m BY <3>2, <3>3 DEF UnlinkedMajor
    <3> QED BY <3>1, <3>2, <3>3, <3>4 DEF UnlinkedMajor
  <2> QED BY <2>1, <2>2
<1>6. ASSUME NEW S \in SUBSET DOMAIN majors2, ClosedFrom(majors2, r, S)
      PROVE  S = DOMAIN majors2
  <2>1. S \subseteq D \ {maj} BY DEF UnlinkedMajor
  <2>2. \A m \in S : m # prv => majors[m].next \in S \cup {NULL}
    BY <1>6, <2>1 DEF UnlinkedMajor, ClosedFrom
  <2>3. prv \in S => nxt \in S \cup {NULL}
    BY <1>6, <2>1 DEF UnlinkedMajor, ClosedFrom
  <2>4. CASE root = maj \/ prv \in S
    <3> DEFINE T == S \cup {maj}
    <3>1. nxt \in S \cup {NULL} BY <1>6, <2>3, <2>4 DEF ClosedFrom
    <3>2. root \in T \cup {NULL} BY <1>6 DEF ClosedFrom
    <3>3. ASSUME NEW m \in T PROVE majors[m].next \in T \cup {NULL}
      <4>1. CASE m = maj BY <3>1, <4>1
      <4>2. CASE m = prv
        <5>1. m # NULL BY <2>1 DEF Chain
        <5> QED BY <1>1, <4>2, <5>1
      <4>3. CASE m # maj /\ m # prv BY <2>2, <4>3
      <4> QED BY <4>1, <4>2, <4>3
    <3>4. ClosedFrom(majors, root, T)
      <4> HIDE DEF T
      <4> QED BY <3>2, <3>3 DEF ClosedFrom
    <3>5. T \in SUBSET D BY <2>1
    <3>6. T = D BY <3>4, <3>5 DEF Chain
    <3> QED BY <2>1, <3>6 DEF UnlinkedMajor
  <2>5. CASE root # maj /\ prv \notin S
    <3>1. ClosedFrom(majors, root, S) BY <1>6, <2>2, <2>5 DEF ClosedFrom
    <3>2. S = D BY <2>1, <3>1 DEF Chain
    <3> QED BY <2>1, <3>2
  <2> QED BY <2>4, <2>5
<1> HIDE DEF r
<1>7. Chain(majors2, r) BY <1>3, <1>4, <1>5, <1>6 DEF Chain
<1> QED BY <1>7 DEF r
-----------------------------------------------------------------------------
(* Majors coming and going: the pages, the lists and the bytes. *)
Added(majors, majors2, at) ==
  /\ DOMAIN majors2 = DOMAIN majors \cup {at}
  /\ \A m \in DOMAIN majors :
       /\ majors2[m].pages = majors[m].pages /\ majors2[m].size = majors[m].size
       /\ majors2[m].usage = majors[m].usage /\ majors2[m].first = majors[m].first
  /\ majors2[at].usage = sizeof_major /\ majors2[at].first = NULL

LEMMA AddKeepsOrder ==
  ASSUME NEW majors, NEW majors2, NEW minors, Typed(majors, minors), Extents(majors),
         Ordered(majors, minors), UsageExact(majors, minors),
         NEW at \in Nat \ {0}, at \notin DOMAIN majors,
         Added(majors, majors2, at),
         at = (at \div PMM_BLOCK_SIZE) * PMM_BLOCK_SIZE,
         majors2[at].pages # 0, majors2[at].size = majors2[at].pages * PMM_BLOCK_SIZE,
         PagesOf(majors2, at) \subseteq Bits,
         \A m \in DOMAIN majors : PagesOf(majors, m) \cap PagesOf(majors2, at) = {}
  PROVE  Extents(majors2) /\ Ordered(majors2, minors) /\ UsageExact(majors2, minors)
<1>1. Extents(majors2)
  <2>1. \A m \in DOMAIN majors : PagesOf(majors2, m) = PagesOf(majors, m)
    BY DEF PagesOf, Added
  <2>2. ASSUME NEW m \in DOMAIN majors2
        PROVE  /\ m = (m \div PMM_BLOCK_SIZE) * PMM_BLOCK_SIZE
               /\ majors2[m].pages # 0 /\ majors2[m].size = majors2[m].pages * PMM_BLOCK_SIZE
               /\ PagesOf(majors2, m) \subseteq Bits
    <3>1. CASE m = at BY <3>1
    <3>2. CASE m # at
      <4>1. m \in DOMAIN majors BY <3>2 DEF Added
      <4>2. majors2[m].pages = majors[m].pages /\ majors2[m].size = majors[m].size
        BY <4>1 DEF Added
      <4> QED BY <2>1, <4>1, <4>2 DEF Extents
    <3> QED BY <3>1, <3>2
  <2>3. ASSUME NEW m \in DOMAIN majors2, NEW k \in DOMAIN majors2 \ {m}
        PROVE  PagesOf(majors2, m) \cap PagesOf(majors2, k) = {}
    <3>1. CASE m = at
      <4>1. k \in DOMAIN majors BY <3>1 DEF Added
      <4> QED BY <2>1, <3>1, <4>1
    <3>2. CASE k = at
      <4>1. m \in DOMAIN majors BY <3>2 DEF Added
      <4> QED BY <2>1, <3>2, <4>1
    <3>3. CASE m # at /\ k # at
      <4>1. m \in DOMAIN majors /\ k \in DOMAIN majors \ {m} BY <3>3 DEF Added
      <4> QED BY <2>1, <4>1 DEF Extents
    <3> QED BY <3>1, <3>2, <3>3
  <2> QED BY <2>2, <2>3 DEF Extents
<1>2. Mine(minors, at) = {} BY DEF Mine, Typed
<1>3. Ordered(majors2, minors)
  <2>1. ASSUME NEW b \in DOMAIN majors2 PROVE ListOf(majors2, minors, b)
    <3>1. CASE b = at BY <1>2, <3>1 DEF ListOf, InOrder, FirstOf, Added
    <3>2. CASE b # at
      <4>1. b \in DOMAIN majors /\ majors2[b].size = majors[b].size
            /\ majors2[b].first = majors[b].first
        BY <3>2 DEF Added
      <4>2. ListOf(majors, minors, b) BY <4>1 DEF Ordered
      <4> QED BY <4>1, <4>2 DEF ListOf
    <3> QED BY <3>1, <3>2
  <2> QED BY <2>1 DEF Ordered
<1>4. UsageExact(majors2, minors)
  <2>1. majors2[at].usage = Cardinality(Used(minors, at))
    <3> DEFINE H == at .. at + sizeof_major - 1
    <3>1. Used(minors, at) = H
      <4>1. FirstMinor(at) - 1 = at + sizeof_major - 1 BY HeapSizes DEF FirstMinor
      <4>2. Used(minors, at) = at .. FirstMinor(at) - 1 BY <1>2 DEF Used
      <4> QED BY <4>1, <4>2
    <3>2. Cardinality(H) = sizeof_major BY CountInterval, HeapSizes
    <3> HIDE DEF H
    <3> QED BY <3>1, <3>2 DEF Added
  <2> QED BY <2>1 DEF UsageExact, Added
<1> QED BY <1>1, <1>3, <1>4

LEMMA AllocatedIsFinite ==
  ASSUME NEW majors, NEW minors, Typed(majors, minors), Extents(majors)
  PROVE  IsFiniteSet(Allocated(majors)) /\ Cardinality(Allocated(majors)) \in Nat
<1>0. U32 \in Nat BY HeapSizes
<1>1. Allocated(majors) \subseteq 0 .. U32
  <2>1. ASSUME NEW m \in DOMAIN majors PROVE ExtentOf(majors, m) \subseteq 0 .. U32
    <3>1. m \in Nat /\ majors[m].size \in Nat /\ m + majors[m].size <= U32 BY ExtentsApart
    <3> QED BY <1>0, <3>1 DEF ExtentOf
  <2> QED BY <2>1, UnionsOfBytes
<1>2. IsFiniteSet(0 .. U32)
  <2>1. 0 \in Int /\ U32 \in Int BY <1>0
  <2> QED BY <2>1, FS_Interval
<1>3. IsFiniteSet(Allocated(majors)) BY <1>1, <1>2, FS_Subset
<1> QED BY <1>3, FS_CardinalityType

LEMMA AddCountsAllocated ==
  ASSUME NEW majors, NEW majors2, NEW minors, Typed(majors, minors), Extents(majors),
         Typed(majors2, minors), Extents(majors2),
         NEW at \in Nat \ {0}, at \notin DOMAIN majors, Added(majors, majors2, at)
  PROVE  Cardinality(Allocated(majors2)) = Cardinality(Allocated(majors)) + majors2[at].size
<1> DEFINE n == majors2[at].size
           I == at .. at + n - 1
           A == Allocated(majors)
<1>1. at \in DOMAIN majors2 BY DEF Added
<1>2. /\ n \in Nat
      /\ \A k \in DOMAIN majors2 \ {at} : at + n <= k \/ k + majors2[k].size <= at
  BY <1>1, ExtentsApart
<1>3. \A m \in DOMAIN majors : ExtentOf(majors2, m) = ExtentOf(majors, m)
  BY DEF Added, ExtentOf
<1>4. ExtentOf(majors2, at) = I BY DEF ExtentOf
<1>5. A \cap I = {}
  <2>1. ASSUME NEW m \in DOMAIN majors PROVE ExtentOf(majors, m) \cap I = {}
    <3>1. m \in DOMAIN majors2 \ {at} /\ majors2[m].size = majors[m].size BY DEF Added
    <3>2. m \in Nat /\ majors[m].size \in Nat BY ExtentsApart
    <3>3. at + n <= m \/ m + majors[m].size <= at BY <1>2, <3>1
    <3> HIDE DEF n
    <3> QED BY <1>2, <3>2, <3>3 DEF ExtentOf
  <2> HIDE DEF I
  <2> QED BY <2>1, UnionsOfBytes
<1> HIDE DEF I, A, n
<1>6. Allocated(majors2) = A \cup I
  <2>1. ASSUME NEW x PROVE x \in Allocated(majors2) <=> x \in A \cup I
    BY <1>3, <1>4, UnionsOfBytes DEF A, Added
  <2> QED BY <2>1
<1>7. IsFiniteSet(A) BY AllocatedIsFinite DEF A
<1>8. Cardinality(A \cup I) = Cardinality(A) + n BY <1>2, <1>5, <1>7, CountMore DEF I
<1> QED BY <1>6, <1>8 DEF A, n

LEMMA DropCountsAllocated ==
  ASSUME NEW majors, NEW majors2, NEW minors, Typed(majors, minors), Extents(majors),
         NEW maj \in DOMAIN majors, DOMAIN majors2 = DOMAIN majors \ {maj},
         \A m \in DOMAIN majors2 : majors2[m].size = majors[m].size
  PROVE  Cardinality(Allocated(majors2)) = Cardinality(Allocated(majors)) - majors[maj].size
<1> DEFINE n == majors[maj].size
           I == maj .. maj + n - 1
           A == Allocated(majors)
<1>1. /\ n \in Nat /\ maj \in Nat
      /\ \A k \in DOMAIN majors \ {maj} : maj + n <= k \/ k + majors[k].size <= maj
  BY ExtentsApart
<1>2. \A m \in DOMAIN majors2 : ExtentOf(majors2, m) = ExtentOf(majors, m)
  BY DEF ExtentOf
<1>3. ExtentOf(majors, maj) = I BY DEF ExtentOf
<1>4. ASSUME NEW m \in DOMAIN majors2 PROVE ExtentOf(majors, m) \cap I = {}
  <2>1. m \in Nat /\ majors[m].size \in Nat BY ExtentsApart
  <2>2. maj + n <= m \/ m + majors[m].size <= maj BY <1>1
  <2> HIDE DEF n
  <2> QED BY <1>1, <2>1, <2>2 DEF ExtentOf
<1>5. I \subseteq A BY <1>3, UnionsOfBytes
<1> HIDE DEF I, A, n
<1>6. Allocated(majors2) = A \ I
  <2>1. ASSUME NEW x PROVE x \in Allocated(majors2) <=> x \in A \ I
    BY <1>2, <1>3, <1>4, UnionsOfBytes DEF A
  <2> QED BY <2>1
<1>7. IsFiniteSet(A) BY AllocatedIsFinite DEF A
<1>8. Cardinality(A \ I) = Cardinality(A) - n BY <1>1, <1>5, <1>7, CountLess DEF I
<1> QED BY <1>6, <1>8 DEF A, n

(* Dropping a major that has no minors. *)
LEMMA DropKeepsOrder ==
  ASSUME NEW majors, NEW majors2, NEW minors, Typed(majors, minors), Extents(majors),
         Ordered(majors, minors), UsageExact(majors, minors),
         NEW maj \in DOMAIN majors, DOMAIN majors2 = DOMAIN majors \ {maj},
         \A m \in DOMAIN majors2 :
           /\ majors2[m].pages = majors[m].pages /\ majors2[m].size = majors[m].size
           /\ majors2[m].usage = majors[m].usage /\ majors2[m].first = majors[m].first
  PROVE  Extents(majors2) /\ Ordered(majors2, minors) /\ UsageExact(majors2, minors)
<1>1. Extents(majors2) BY ExtentsKept
<1>2. Ordered(majors2, minors) BY DEF Ordered, ListOf
<1>3. UsageExact(majors2, minors) BY DEF UsageExact
<1> QED BY <1>1, <1>2, <1>3

(* A major without a first minor has none. *)
LEMMA NoFirstNoMinors ==
  ASSUME NEW majors, NEW minors, Ordered(majors, minors), NEW maj \in DOMAIN majors
  PROVE  majors[maj].first = NULL <=> Mine(minors, maj) = {}
<1>1. FirstOf(Mine(minors, maj), majors[maj].first) BY DEF Ordered, ListOf, InOrder
<1> QED BY <1>1 DEF FirstOf
=============================================================================
