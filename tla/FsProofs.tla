------------------------------ MODULE FsProofs ------------------------------
(***************************************************************************)
(* Proofs about Fs, for every archive, place in memory where it may run    *)
(* out, size of files and path that the assumptions of Fs allow.           *)
(***************************************************************************)
EXTENDS Fs, LeastElement, SequenceTheorems

LEMMA FsSizes ==
  /\ Block \in Nat \ {0} /\ MAX_RAMDISK_FILES \in Nat \ {0} /\ NULL = 0
  /\ Names \subseteq Seq(STRING) /\ Paths \subseteq Seq(STRING)
BY FsAssumption DEF NULL

(* Names and paths.  The characters the code itself writes are strings like *)
(* the others; they are listed for the provers, which do not know literals  *)
(* to be members of STRING.                                                 *)
Char == STRING \cup {"r", "t", "S", ":", NUL}
Text == Seq(Char)

LEMMA TextIs ==
  /\ FSName \in Text /\ TarName \in Text /\ <<NUL>> \in Text
  /\ Seq(STRING) \subseteq Text
<1>1. FSName \in Text /\ TarName \in Text /\ <<NUL>> \in Text
  <2>1. \A a, b \in Char : <<a, b>> \in Seq(Char) /\ <<a>> \in Seq(Char) OBVIOUS
  <2>2. {"r", "t", "S", ":", NUL} \subseteq Char BY DEF Char
  <2> QED BY <2>1, <2>2 DEF Text, FSName, TarName
<1>2. STRING \subseteq Char BY DEF Char
<1>3. \A S, T : S \subseteq T => Seq(S) \subseteq Seq(T) OBVIOUS
<1> QED BY <1>1, <1>2, <1>3 DEF Text

(* parse goes on by exactly the header and the padded data. *)
LEMMA AdvancePads ==
  ASSUME NEW size \in Nat
  PROVE  Advance(size) = Block + Padded(size) /\ Padded(size) \in Nat
<1> DEFINE q == size \div Block
           r == size % Block
<1>1. q \in Nat /\ r \in 0 .. Block - 1 /\ size = Block * q + r BY FsSizes
<1>2. Padded(size) = ((size + Block - 1) \div Block) * Block BY DEF Padded
<1>3. Advance(size) = (q + 1) * Block + (IF r # 0 THEN Block ELSE 0) BY DEF Advance
<1> HIDE DEF q, r
<1>4. CASE r = 0
  <2>1. (size + Block - 1) \div Block = q BY <1>1, <1>4, FsSizes
  <2>2. q * Block \in Nat /\ (q + 1) * Block = q * Block + Block BY <1>1, FsSizes
  <2> QED BY <1>2, <1>3, <1>4, <2>1, <2>2, FsSizes
<1>5. CASE r # 0
  <2>1. (size + Block - 1) \div Block = q + 1 BY <1>1, <1>5, FsSizes
  <2>2. q * Block \in Nat /\ (q + 1) * Block = q * Block + Block BY <1>1, FsSizes
  <2> QED BY <1>2, <1>3, <1>5, <2>1, <2>2, FsSizes
<1> QED BY <1>4, <1>5

(* What the archive is like. *)
LEMMA ArchiveIs ==
  ASSUME archive \in Archives
  PROVE  /\ Len(archive) \in Nat /\ Members = 1 .. Len(archive)
         /\ EndOfArchive \in Nat
         /\ \A k \in Members :
              /\ archive[k].name \in Seq(STRING) /\ archive[k].size \in Nat
              /\ archive[k].at \in 0 .. EndOfArchive
              /\ archive[k].at # EndOfArchive
              /\ k = 1 => archive[k].at = 0
              /\ k > 1 => archive[k].at = Behind(archive[k - 1])
              /\ \A j \in Members : archive[j].at = archive[k].at => j = k
<1> DEFINE Member == [name : Seq(STRING), at : Nat, size : Nat]
           n == Len(archive)
<1>1. archive \in Seq(Member) BY FsAssumption
<1>2. n \in Nat /\ Members = 1 .. n /\ \A k \in 1 .. n : archive[k] \in Member
  <2> HIDE DEF Member
  <2> QED BY <1>1, LenProperties, ElementOfSeq DEF Members
<1>3. \A k \in 1 .. n :
        /\ k = 1 => archive[k].at = 0
        /\ k > 1 => archive[k].at = Behind(archive[k - 1])
        /\ \A j \in 1 .. k - 1 : Behind(archive[j]) <= archive[k].at
  BY <1>2, FsAssumption DEF Members
<1>4. \A k \in 1 .. n : /\ archive[k].name \in Seq(STRING) /\ archive[k].at \in Nat
                        /\ archive[k].size \in Nat
  BY <1>2
<1>5. \A k \in 1 .. n : Behind(archive[k]) \in Nat /\ archive[k].at < Behind(archive[k])
  <2> TAKE k \in 1 .. n
  <2>1. Padded(archive[k].size) \in Nat /\ archive[k].at \in Nat BY <1>4, AdvancePads
  <2> QED BY <2>1, FsSizes DEF Behind
<1>6. archive = <<>> => n = 0 BY EmptySeq
<1>7. archive # <<>> => n \in 1 .. n
  <2>1. archive # <<>> => n # 0 BY <1>1, EmptySeq
  <2> QED BY <1>2, <2>1
<1>8. EndOfArchive = IF archive = <<>> THEN 0 ELSE Behind(archive[n]) BY DEF EndOfArchive
<1> HIDE DEF n, Member
<1>9. EndOfArchive \in Nat BY <1>5, <1>7, <1>8
<1>10. \A k \in 1 .. n : archive[k].at < EndOfArchive
  <2> TAKE k \in 1 .. n
  <2>1. n \in 1 .. n /\ archive # <<>> BY <1>2, <1>6
  <2>2. EndOfArchive = Behind(archive[n]) /\ archive[n].at < EndOfArchive
    BY <1>5, <1>8, <2>1
  <2>3. CASE k = n BY <2>2, <2>3
  <2>4. CASE k # n
    <3>1. k \in 1 .. n - 1 BY <1>2, <2>4
    <3>2. Behind(archive[k]) <= archive[n].at BY <1>3, <2>1, <3>1
    <3>3. archive[k].at < Behind(archive[k]) /\ Behind(archive[k]) \in Nat BY <1>5
    <3> QED BY <1>4, <1>9, <2>1, <2>2, <3>2, <3>3
  <2> QED BY <2>3, <2>4
<1>11. ASSUME NEW j \in 1 .. n, NEW k \in 1 .. n, j < k PROVE archive[j].at < archive[k].at
  <2>1. j \in 1 .. k - 1 BY <1>11
  <2>2. Behind(archive[j]) <= archive[k].at BY <1>3, <2>1
  <2> QED BY <1>4, <1>5, <2>2
<1>12. \A j, k \in 1 .. n : archive[j].at = archive[k].at => j = k
  <2> TAKE j, k \in 1 .. n
  <2>1. j = k \/ j < k \/ k < j BY <1>2
  <2> QED BY <1>4, <1>11, <2>1
<1>13. \A k \in 1 .. n : archive[k].at \in 0 .. EndOfArchive /\ archive[k].at # EndOfArchive
  BY <1>4, <1>9, <1>10
<1> QED BY <1>2, <1>3, <1>4, <1>9, <1>12, <1>13 DEF n

(* The first of some characters, when there is one. *)
LEMMA FirstIs ==
  ASSUME NEW text, NEW from \in Nat, NEW chars, Len(text) \in Nat,
         NEW e \in from .. Len(text), text[e] \in chars
  PROVE  First(text, from, chars) \in from .. Len(text) /\ text[First(text, from, chars)] \in chars
<1> DEFINE S == {j \in from .. Len(text) : text[j] \in chars}
<1>1. S \in SUBSET Nat /\ S # {} BY FsSizes
<1>2. PICK x \in S : \A y \in S : x <= y
  <2> HIDE DEF S
  <2> QED BY <1>1, LeastExists
<1>3. x \in from .. Len(text) /\ text[x] \in chars OBVIOUS
<1>4. \A k \in from .. x - 1 : text[k] \notin chars
  <2> SUFFICES ASSUME NEW k \in from .. x - 1, text[k] \in chars PROVE FALSE OBVIOUS
  <2>1. k \in S /\ k < x BY <1>3
  <2> HIDE DEF S
  <2> QED BY <1>1, <1>2, <2>1
<1> HIDE DEF S
<1> QED BY <1>3, <1>4 DEF First

(* strtok stays in a buffer that is ended by NUL. *)
Terminated(text) == text \in Text /\ text # <<>> /\ text[Len(text)] = NUL

LEMMA StrtokStays ==
  ASSUME NEW text, Terminated(text), NEW str \in 1 .. Len(text), strtok(text, str)
  PROVE  Terminated(buffer') /\ left' \in 0 .. Len(buffer')
<1> DEFINE n == Len(text)
           others == ToSet(text) \ {Slash}
           start == First(text, str, others)
           ends == {Slash, NUL}
           stop == First(text, start, ends)
<1>1. /\ text \in Text /\ n \in Nat /\ n # 0 /\ text[n] = NUL
      /\ DOMAIN text = 1 .. n /\ text \in [1 .. n -> Char]
  BY LenProperties, EmptySeq DEF Terminated, Text
<1>2. NUL # Slash BY DEF NUL, Slash
<1>3. n \in str .. n BY <1>1
<1>4. text[n] \in others BY <1>1, <1>2 DEF ToSet
<1>5. start \in str .. n
  <2> HIDE DEF others
  <2> QED BY <1>1, <1>3, <1>4, FirstIs
<1>6. stop \in start .. n /\ text[stop] \in ends
  <2>1. n \in start .. n /\ start \in Nat BY <1>1, <1>5
  <2>2. text[n] \in ends BY <1>1
  <2> HIDE DEF start, ends
  <2> QED BY <1>1, <2>1, <2>2, FirstIs
<1>7. buffer' = [text EXCEPT ![stop] = NUL] /\ left' = Left(text, stop)
  BY DEF strtok, TokenEnd, TokenStart
<1>8. stop \in 1 .. n
  <2> HIDE DEF stop, start
  <2> QED BY <1>1, <1>5, <1>6
<1> HIDE DEF stop, n
<1>9. left' \in 0 .. n
  <2>1. CASE text[stop] = Slash
    <3>1. left' = stop + 1 BY <1>7, <2>1 DEF Left
    <3>2. stop # n BY <1>1, <1>2, <2>1
    <3> QED BY <1>1, <1>8, <3>1, <3>2
  <2>2. CASE text[stop] # Slash
    <3>1. left' = 0 BY <1>7, <2>2 DEF Left, NULL
    <3> QED BY <1>1, <3>1
  <2> QED BY <2>1, <2>2
<1>10. NUL \in Char BY <1>1
<1>11. buffer' \in [1 .. n -> Char] BY <1>1, <1>7, <1>8, <1>10
<1>12. buffer'[n] = NUL BY <1>1, <1>7, <1>8
<1>13. buffer' \in Text /\ Len(buffer') = n BY <1>1, <1>11, IsASeq, LenProperties DEF Text
<1>14. buffer' # <<>> BY <1>1, <1>13, EmptySeq DEF Text
<1> QED BY <1>9, <1>12, <1>13, <1>14 DEF Terminated
-----------------------------------------------------------------------------
(* What kmalloc answers. *)
LEMMA GrantIs ==
  ASSUME NEW able \in 0 .. 2, NEW size \in {Small, Large}, NEW address,
         NEW g \in Grants(able, size, address)
  PROVE  \/ g.at = address /\ g.able = able /\ size <= able
         \/ g.at = NULL /\ g.able \in 0 .. able /\ g.able < size
<1>1. CASE g \in {[at |-> address, able |-> a] : a \in {able} \cap size .. Large}
  BY <1>1 DEF Small, Large
<1>2. CASE g \in {[at |-> NULL, able |-> a] : a \in (0 .. size - 1) \cap (0 .. able)}
  BY <1>2 DEF Small, Large
<1> QED BY <1>1, <1>2 DEF Grants

(* Nodes and section numbers, at addresses of their own. *)
Nodes == [name : Text, dir : BOOLEAN, sz : Nat, contents : Nat, nxt : Nat,
          read : {"unset", "none", "tar_read"}]
NodesOK(nodes, cells) ==
  /\ DOMAIN nodes \subseteq Nat /\ DOMAIN cells \subseteq Nat
  /\ nodes \in [DOMAIN nodes -> Nodes]
  /\ DOMAIN nodes \cap DOMAIN cells \subseteq {NULL}
  /\ \A a \in DOMAIN nodes :
       /\ nodes[a].nxt \in DOMAIN nodes \cup {NULL}
       /\ nodes[a].contents \in DOMAIN nodes \cup DOMAIN cells \cup {NULL}

(* A node made at a fresh address, or at NULL, leaves the others alone. *)
Others(nodes, nodes2, at) ==
  /\ DOMAIN nodes2 = DOMAIN nodes \cup {at}
  /\ \A a \in DOMAIN nodes \ {at} : nodes2[a] = nodes[a]
LEMMA MakeKeeps ==
  ASSUME NEW nodes, NEW cells, NodesOK(nodes, cells),
         NEW at, at \in Nat, at = NULL \/ at \notin DOMAIN cells,
         NEW new, new \in Nodes, new.contents \in DOMAIN cells \cup {NULL}, new.nxt = NULL
  PROVE  LET made == At(nodes, at, new)
         IN  NodesOK(made, cells) /\ Others(nodes, made, at) /\ made[at] = new
<1> DEFINE made == At(nodes, at, new)
<1>1. made = [a \in DOMAIN nodes \cup {at} |-> IF a = at THEN new ELSE nodes[a]]
  BY DEF At
<1> HIDE DEF made
<1>2. /\ DOMAIN made = DOMAIN nodes \cup {at} /\ made[at] = new
      /\ Others(nodes, made, at)
  BY <1>1 DEF Others
<1>3. made \in [DOMAIN made -> Nodes] BY <1>1, <1>2 DEF NodesOK
<1>4. ASSUME NEW a \in DOMAIN made
      PROVE  /\ made[a].nxt \in DOMAIN made \cup {NULL}
             /\ made[a].contents \in DOMAIN made \cup DOMAIN cells \cup {NULL}
  <2>1. CASE a = at BY <1>2, <2>1
  <2>2. CASE a # at BY <1>2, <1>4, <2>2 DEF NodesOK, Others
  <2> QED BY <2>1, <2>2
<1>5. NodesOK(made, cells) BY <1>2, <1>3, <1>4 DEF NodesOK
<1> QED BY <1>2, <1>5 DEF made

(* add_dir makes a link where there was none, and counts. *)
LEMMA AddDirKeeps ==
  ASSUME NEW nodes, NEW cells, NodesOK(nodes, cells),
         NEW dir \in DOMAIN nodes, ~AddStrays(nodes, dir), NEW file \in DOMAIN nodes \cup {NULL}
  PROVE  LET nodes2 == add_dir(nodes, dir, file)
         IN  /\ NodesOK(nodes2, cells) /\ DOMAIN nodes2 = DOMAIN nodes
             /\ \A a \in DOMAIN nodes :
                  /\ nodes2[a].name = nodes[a].name /\ nodes2[a].dir = nodes[a].dir
                  /\ nodes2[a].read = nodes[a].read
                  /\ a # dir => nodes2[a].sz = nodes[a].sz
                  /\ \/ nodes2[a].contents = nodes[a].contents
                     \/ a = dir /\ nodes[a].contents = NULL /\ nodes2[a].contents = file
                  /\ \/ nodes2[a].nxt = nodes[a].nxt
                     \/ /\ a = nodes[dir].contents /\ a # NULL
                        /\ nodes[a].nxt = NULL /\ nodes2[a].nxt = file
<1> DEFINE first == nodes[dir].contents
           holder == nodes[first].nxt
           counted == [nodes EXCEPT ![dir].sz = @ + 1]
           nodes2 == add_dir(nodes, dir, file)
           D == DOMAIN nodes
<1>1. \A a \in D : nodes[a] \in Nodes BY DEF NodesOK
<1>2. DOMAIN counted = D /\ \A a \in D :
        counted[a] = IF a = dir THEN [nodes[a] EXCEPT !.sz = @ + 1] ELSE nodes[a]
  BY DEF NodesOK
<1> HIDE DEF counted
<1>3. \A a \in D :
        /\ counted[a] \in Nodes
        /\ counted[a].name = nodes[a].name /\ counted[a].dir = nodes[a].dir
        /\ counted[a].read = nodes[a].read /\ counted[a].contents = nodes[a].contents
        /\ counted[a].nxt = nodes[a].nxt /\ (a # dir => counted[a].sz = nodes[a].sz)
  <2> TAKE a \in D
  <2>1. CASE a = dir
    <3>1. counted[a] = [nodes[a] EXCEPT !.sz = @ + 1] /\ nodes[a] \in Nodes
      BY <1>1, <1>2, <2>1
    <3> QED BY <2>1, <3>1 DEF Nodes
  <2>2. CASE a # dir BY <1>1, <1>2, <2>2
  <2> QED BY <2>1, <2>2
<1>4. file \in Nat /\ \A a \in D : nodes[a].nxt \in Nat /\ nodes[a].contents \in Nat
  BY <1>1, FsSizes DEF NodesOK, Nodes
<1>5. first = NULL \/ first \in D BY DEF AddStrays, NotANode
<1> DEFINE Fields == /\ DOMAIN nodes2 = D
                     /\ \A a \in D :
                          /\ nodes2[a] \in Nodes
                          /\ nodes2[a].name = nodes[a].name /\ nodes2[a].dir = nodes[a].dir
                          /\ nodes2[a].read = nodes[a].read
                          /\ a # dir => nodes2[a].sz = nodes[a].sz
                          /\ \/ nodes2[a].contents = nodes[a].contents
                             \/ /\ a = dir /\ nodes[a].contents = NULL
                                /\ nodes2[a].contents = file
                          /\ \/ nodes2[a].nxt = nodes[a].nxt
                             \/ /\ a = nodes[dir].contents /\ a # NULL
                                /\ nodes[a].nxt = NULL /\ nodes2[a].nxt = file
<1>6. ASSUME first = NULL PROVE Fields
  <2>1. nodes2 = [counted EXCEPT ![dir].contents = file]
    BY <1>6 DEF add_dir, counted
  <2> HIDE DEF nodes2
  <2>2. DOMAIN nodes2 = D /\ \A a \in D :
          nodes2[a] = IF a = dir THEN [counted[a] EXCEPT !.contents = file] ELSE counted[a]
    BY <1>2, <2>1
  <2>3. \A a \in D \ {dir} : nodes2[a] = counted[a] BY <2>2
  <2>4. nodes2[dir] = [counted[dir] EXCEPT !.contents = file] /\ counted[dir] \in Nodes
    BY <1>3, <2>2
  <2>5. /\ nodes2[dir] \in Nodes /\ nodes2[dir].name = counted[dir].name
        /\ nodes2[dir].dir = counted[dir].dir /\ nodes2[dir].read = counted[dir].read
        /\ nodes2[dir].contents = file /\ nodes2[dir].nxt = counted[dir].nxt
    BY <1>4, <2>4 DEF Nodes
  <2> QED BY <1>3, <1>6, <2>2, <2>3, <2>5
<1>7. ASSUME first # NULL, SecondEntry(nodes, first) PROVE Fields
  <2>1. nodes2 = [counted EXCEPT ![first].nxt = file]
    BY <1>7 DEF add_dir, counted
  <2>2. /\ first \in D /\ nodes[first].nxt = NULL
        /\ first = nodes[dir].contents /\ first # NULL
    BY <1>5, <1>7 DEF SecondEntry
  <2> HIDE DEF nodes2, first
  <2>3. DOMAIN nodes2 = D /\ \A a \in D :
          nodes2[a] = IF a = first THEN [counted[a] EXCEPT !.nxt = file] ELSE counted[a]
    BY <1>2, <2>1
  <2>4. \A a \in D \ {first} : nodes2[a] = counted[a] BY <2>3
  <2>5. nodes2[first] = [counted[first] EXCEPT !.nxt = file] /\ counted[first] \in Nodes
    BY <1>3, <2>2, <2>3
  <2>6. /\ nodes2[first] \in Nodes /\ nodes2[first].name = counted[first].name
        /\ nodes2[first].dir = counted[first].dir /\ nodes2[first].read = counted[first].read
        /\ nodes2[first].contents = counted[first].contents /\ nodes2[first].nxt = file
        /\ nodes2[first].sz = counted[first].sz
    BY <1>4, <2>5 DEF Nodes
  <2> QED BY <1>3, <2>2, <2>3, <2>4, <2>6
<1>8. ASSUME first # NULL, ~SecondEntry(nodes, first) PROVE Fields
  <2>1. nodes2 = [counted EXCEPT ![holder].nxt = nodes[holder].nxt]
    BY <1>8 DEF add_dir, counted, LastLink
  <2>2. holder \in D BY <1>5, <1>8 DEF SecondEntry, NodesOK
  <2> HIDE DEF nodes2, first, holder
  <2>3. DOMAIN nodes2 = D /\ \A a \in D :
          nodes2[a] = IF a = holder THEN [counted[a] EXCEPT !.nxt = nodes[a].nxt]
                      ELSE counted[a]
    BY <1>2, <2>1
  <2>4. nodes2[holder] = [counted[holder] EXCEPT !.nxt = nodes[holder].nxt]
        /\ counted[holder] \in Nodes
    BY <1>3, <2>2, <2>3
  <2>5. nodes2[holder] = counted[holder] BY <1>3, <2>2, <2>4 DEF Nodes
  <2>6. \A a \in D : nodes2[a] = counted[a] BY <2>3, <2>5
  <2> QED BY <1>3, <2>3, <2>6
<1>9. Fields BY <1>6, <1>7, <1>8
<1>10. nodes2 \in [D -> Nodes]
  <2>1. nodes2 = [a \in DOMAIN nodes2 |-> nodes2[a]] BY <1>2 DEF add_dir, counted
  <2> HIDE DEF nodes2
  <2> QED BY <1>9, <2>1
<1> HIDE DEF nodes2
<1>11. NodesOK(nodes2, cells)
  <2>1. \A a \in D : /\ nodes2[a].nxt \in D \cup {NULL}
                     /\ nodes2[a].contents \in D \cup DOMAIN cells \cup {NULL}
    BY <1>9 DEF NodesOK
  <2> QED BY <1>9, <1>10, <2>1 DEF NodesOK
<1> QED BY <1>9, <1>11 DEF nodes2
-----------------------------------------------------------------------------
(* Addresses are given out one after the other. *)
Used(nodes, cells) == (DOMAIN nodes \cup DOMAIN cells) \ {NULL}
Dense(nodes, cells) ==
  IsFiniteSet(Used(nodes, cells)) /\ Used(nodes, cells) = 1 .. Cardinality(Used(nodes, cells))

(* A node that reads has a section number of its own, which leads to the   *)
(* member that has its name and size.  What lies at NULL is written over.  *)
FileOf(nodes, cells, table, a) ==
  /\ ~nodes[a].dir
  /\ nodes[a].contents \in DOMAIN cells \ {NULL}
  /\ \E k \in Members : /\ nodes[a].name = archive[k].name /\ nodes[a].sz = archive[k].size
                        /\ table[cells[nodes[a].contents]] = archive[k].at
FilesOK(nodes, cells, table) ==
  \A a \in DOMAIN nodes \ {NULL} : nodes[a].read = "tar_read" => FileOf(nodes, cells, table, a)

(* As long as all memory was granted, what directories and the node of the *)
(* ramdisk contain are nodes; when none was, there is nothing but NULL.    *)
Whole(nodes, cells, t) ==
  /\ NULL \notin DOMAIN nodes \cup DOMAIN cells
  /\ \A a \in DOMAIN nodes : nodes[a].dir \/ a = t =>
        nodes[a].contents \in DOMAIN nodes \cup {NULL}
Barren(nodes, cells) ==
  /\ DOMAIN nodes \cup DOMAIN cells \subseteq {NULL}
  /\ \A a \in DOMAIN nodes : nodes[a].contents = NULL

Store(nodes, cells, table) ==
  /\ NodesOK(nodes, cells) /\ Dense(nodes, cells)
  /\ cells \in [DOMAIN cells -> 0 .. MAX_RAMDISK_FILES - 1]
  /\ table \in [0 .. MAX_RAMDISK_FILES - 1 -> {Absent} \cup 0 .. EndOfArchive]
  /\ FilesOK(nodes, cells, table)
StoreOK == archive \in Archives /\ memory \in 0 .. 2 /\ Store(node, cell, files)

RootsOK ==
  /\ IF call.op = "init_fs" THEN DOMAIN node = {} /\ root = NULL
     ELSE root \in DOMAIN node /\ (root # NULL => node[root].dir)
  /\ IF call.op \in {"init_fs", "init_tarfs"} THEN DOMAIN cell = {} /\ tar_root = NULL
     ELSE /\ tar_root \in DOMAIN node
          /\ tar_root # NULL => ~node[tar_root].dir /\ node[tar_root].read = "none"

SupplyOK ==
  /\ memory = Large =>
       /\ Whole(node, cell, tar_root)
       /\ call.op # "init_fs" => root # NULL
       /\ call.op \notin {"init_fs", "init_tarfs"} => tar_root # NULL
  /\ root = NULL /\ call.op # "init_fs" => memory = None /\ Barren(node, cell)

(* parse has i headers behind it and is at the next, or at the end. *)
ParseOK ==
  call.op = "parse" =>
    /\ call.i \in 0 .. Len(archive) /\ call.i <= MAX_RAMDISK_FILES
    /\ call.address = IF call.i = Len(archive) THEN EndOfArchive ELSE archive[call.i + 1].at
    /\ \A c \in DOMAIN cell : cell[c] < call.i

Boot(op) == [op |-> op]
RunOK ==
  /\ \/ call \in {Idle, Astray, Boot("init_fs"), Boot("init_tarfs"), Boot("mount")}
     \/ /\ call.op = "parse"
        /\ call = [op |-> "parse", address |-> call.address, i |-> call.i]
     \/ /\ call.op = "get_file"
        /\ call = [op |-> "get_file", asked |-> call.asked, tk |-> call.tk, rot |-> call.rot]
  /\ call.op \in {"init_fs", "init_tarfs", "parse", "mount"} => answer = NoAnswer
  /\ ParseOK
  /\ Terminated(buffer) /\ left \in 0 .. Len(buffer)
  /\ MountKeepsToTheTree /\ ReadsOwnMember

FsInv == StoreOK /\ RootsOK /\ SupplyOK /\ RunOK

(* What a step may do to the nodes there are: a link, once made, stays, and *)
(* so do name and kind.  Only the node at NULL is written over.            *)
Grown(nodes, nodes2) ==
  \A a \in DOMAIN nodes \ {NULL} :
    /\ a \in DOMAIN nodes2
    /\ nodes2[a].name = nodes[a].name /\ nodes2[a].dir = nodes[a].dir
    /\ nodes2[a].read = nodes[a].read
    /\ nodes[a].contents # NULL => nodes2[a].contents = nodes[a].contents
    /\ nodes[a].nxt # NULL => nodes2[a].nxt = nodes[a].nxt

LEMMA GrownTwice ==
  ASSUME NEW nodes, NEW nodes2, NEW nodes3, Grown(nodes, nodes2), Grown(nodes2, nodes3)
  PROVE  Grown(nodes, nodes3)
BY DEF Grown

LEMMA FreshIs ==
  ASSUME Dense(node, cell)
  PROVE  /\ Fresh \in Nat \ {0} /\ Used(node, cell) = 1 .. Fresh - 1
         /\ {Fresh, Fresh + 1} \cap (DOMAIN node \cup DOMAIN cell) = {}
<1> DEFINE n == Cardinality(Used(node, cell))
<1>1. n \in Nat /\ Used(node, cell) = 1 .. n BY FS_CardinalityType DEF Dense
<1>2. Fresh = n + 1 BY DEF Fresh, Used
<1> HIDE DEF n
<1>3. Fresh \notin Used(node, cell) /\ Fresh + 1 \notin Used(node, cell) BY <1>1, <1>2
<1>4. Fresh \in Nat \ {0} /\ Fresh + 1 # 0 /\ 1 .. n = 1 .. Fresh - 1 BY <1>1, <1>2
<1> QED BY <1>1, <1>3, <1>4 DEF Used, NULL

LEMMA DenseAgain ==
  ASSUME NEW nodes, NEW cells, NEW n \in Nat, Used(nodes, cells) = 1 .. n
  PROVE  Dense(nodes, cells)
<1>1. IsFiniteSet(1 .. n) /\ Cardinality(1 .. n) = n BY FS_Interval
<1> QED BY <1>1 DEF Dense

(* The node of a directory, or of the ramdisk. *)
LEMMA MadeStore ==
  ASSUME Store(node, cell, files), NEW at \in {NULL, Fresh}, NEW name \in Text,
         NEW dir, dir \in BOOLEAN, NEW read \in {"unset", "none"}
  PROVE  LET made == make_file(node, at, name, dir, 0, NULL, read)
         IN  /\ Store(made, cell, files) /\ Grown(node, made)
             /\ Others(node, made, at)
             /\ made[at].dir = dir /\ made[at].contents = NULL /\ made[at].read = read
<1> DEFINE made == make_file(node, at, name, dir, 0, NULL, read)
<1>1. /\ Fresh \in Nat \ {0} /\ Used(node, cell) = 1 .. Fresh - 1
      /\ Fresh \notin DOMAIN node /\ Fresh \notin DOMAIN cell
  BY FreshIs DEF Store
<1>2. /\ NodesOK(made, cell) /\ Others(node, made, at)
      /\ made[at].dir = dir /\ made[at].contents = NULL /\ made[at].read = read
  <2> DEFINE new == [name |-> name, dir |-> dir, sz |-> 0, contents |-> NULL,
                     nxt |-> NULL, read |-> read]
  <2>1. at \in Nat /\ (at = NULL \/ at \notin DOMAIN cell) BY <1>1, FsSizes
  <2>2. new \in Nodes BY FsSizes DEF Nodes
  <2>3. new.dir = dir /\ new.contents = NULL /\ new.nxt = NULL /\ new.read = read OBVIOUS
  <2>4. made = At(node, at, new) BY DEF make_file
  <2> HIDE DEF new, made
  <2> QED BY <2>1, <2>2, <2>3, <2>4, MakeKeeps DEF Store
<1> HIDE DEF made
<1>3. Dense(made, cell)
  <2>1. CASE at = NULL
    <3>1. Used(made, cell) = 1 .. Fresh - 1 BY <1>1, <1>2, <2>1 DEF Used, Others
    <3>2. Fresh - 1 \in Nat BY <1>1
    <3> HIDE DEF Fresh
    <3> QED BY <3>1, <3>2, DenseAgain
  <2>2. CASE at = Fresh
    <3>1. Fresh # NULL BY <1>1, FsSizes
    <3>2. Used(made, cell) = (1 .. Fresh - 1) \cup {Fresh} BY <1>1, <1>2, <2>2, <3>1 DEF Used, Others
    <3>3. (1 .. Fresh - 1) \cup {Fresh} = 1 .. Fresh /\ Fresh \in Nat BY <1>1
    <3> QED BY <3>2, <3>3, DenseAgain
  <2> QED BY <2>1, <2>2
<1>4. \A a \in DOMAIN node \ {NULL} : a # at BY <1>1
<1>5. FilesOK(made, cell, files)
  <2> SUFFICES ASSUME NEW a \in DOMAIN made \ {NULL}, made[a].read = "tar_read"
               PROVE  FileOf(made, cell, files, a)
    BY DEF FilesOK
  <2>1. a # at BY <1>2
  <2>2. a \in DOMAIN node \ {NULL} /\ made[a] = node[a] BY <1>2, <2>1 DEF Others
  <2> QED BY <2>2 DEF Store, FilesOK, FileOf
<1>6. Grown(node, made) BY <1>2, <1>4 DEF Grown, Others
<1> QED BY <1>2, <1>3, <1>5, <1>6 DEF Store, made

(* An entry more in a directory, or in the ramdisk. *)
LEMMA AddedStore ==
  ASSUME NEW nodes, NEW cells, NEW table, Store(nodes, cells, table),
         NEW dir \in DOMAIN nodes, ~AddStrays(nodes, dir), NEW file \in DOMAIN nodes \cup {NULL},
         dir = NULL \/ nodes[dir].dir \/ nodes[dir].read # "tar_read"
  PROVE  LET nodes2 == add_dir(nodes, dir, file)
         IN  /\ Store(nodes2, cells, table) /\ Grown(nodes, nodes2)
             /\ DOMAIN nodes2 = DOMAIN nodes
             /\ \A a \in DOMAIN nodes : /\ nodes2[a].dir = nodes[a].dir
                                        /\ \/ nodes2[a].contents = nodes[a].contents
                                           \/ nodes2[a].contents = file
<1> DEFINE nodes2 == add_dir(nodes, dir, file)
           D == DOMAIN nodes
<1>1. /\ NodesOK(nodes2, cells) /\ DOMAIN nodes2 = D
      /\ \A a \in D :
           /\ nodes2[a].name = nodes[a].name /\ nodes2[a].dir = nodes[a].dir
           /\ nodes2[a].read = nodes[a].read
           /\ a # dir => nodes2[a].sz = nodes[a].sz
           /\ \/ nodes2[a].contents = nodes[a].contents
              \/ a = dir /\ nodes[a].contents = NULL /\ nodes2[a].contents = file
           /\ \/ nodes2[a].nxt = nodes[a].nxt
              \/ nodes[a].nxt = NULL /\ nodes2[a].nxt = file
  BY AddDirKeeps DEF Store
<1> HIDE DEF nodes2
<1>2. Dense(nodes2, cells) BY <1>1 DEF Store, Dense, Used
<1>3. FilesOK(nodes2, cells, table)
  <2> SUFFICES ASSUME NEW a \in D \ {NULL}, nodes2[a].read = "tar_read"
               PROVE  FileOf(nodes2, cells, table, a)
    BY <1>1 DEF FilesOK
  <2>1. FileOf(nodes, cells, table, a) BY <1>1 DEF Store, FilesOK
  <2>2. a # dir BY <1>1, <2>1 DEF FileOf
  <2>3. /\ nodes2[a].contents = nodes[a].contents /\ nodes2[a].sz = nodes[a].sz
        /\ nodes2[a].name = nodes[a].name /\ nodes2[a].dir = nodes[a].dir
    BY <1>1, <2>2
  <2> QED BY <2>1, <2>3 DEF FileOf
<1>4. Grown(nodes, nodes2) BY <1>1 DEF Grown
<1> QED BY <1>1, <1>2, <1>3, <1>4 DEF Store, nodes2
-----------------------------------------------------------------------------
(* The archive stays where the boot loader has put it. *)
LEMMA StoreNext ==
  ASSUME archive' = archive, Store(node', cell', files')
  PROVE  Store(node, cell, files)'
<1>1. NodesOK(node, cell)' BY DEF Store, NodesOK, Nodes, NULL
<1>2. Dense(node, cell)' BY DEF Store, Dense, Used, NULL
<1>3. FilesOK(node, cell, files)' BY DEF Store, FilesOK, FileOf, Members, NULL
<1>4. EndOfArchive' = EndOfArchive BY DEF EndOfArchive, Behind, Padded
<1> QED BY <1>1, <1>2, <1>3, <1>4 DEF Store, Absent

(* Steps that leave the tree alone. *)
LEMMA TreeStays ==
  ASSUME StoreOK, RootsOK, SupplyOK, UNCHANGED <<tree, memory, archive>>,
         call.op \notin {"init_fs", "init_tarfs"}, call'.op \notin {"init_fs", "init_tarfs"}
  PROVE  StoreOK' /\ RootsOK' /\ SupplyOK' /\ Grown(node, node')
<1>1. UNCHANGED <<node, cell, root, tar_root, files, memory, archive>> BY DEF tree
<1>2. StoreOK' BY <1>1, StoreNext DEF StoreOK
<1>3. RootsOK' BY <1>1 DEF RootsOK
<1>4. SupplyOK' BY <1>1 DEF SupplyOK, Whole, Barren
<1>5. Grown(node, node') BY <1>1 DEF Grown
<1> QED BY <1>2, <1>3, <1>4, <1>5

LEMMA init_fs_Keeps ==
  ASSUME FsInv, init_fs
  PROVE  FsInv' /\ Grown(node, node')
<1>1. /\ archive \in Archives /\ memory \in 0 .. 2 /\ Store(node, cell, files)
      /\ call.op = "init_fs" /\ DOMAIN node = {} /\ DOMAIN cell = {} /\ tar_root = NULL
      /\ answer = NoAnswer /\ Terminated(buffer) /\ left \in 0 .. Len(buffer)
  BY DEF FsInv, StoreOK, RootsOK, RunOK, init_fs
<1>2. PICK g \in Grants(memory, Large, Fresh) :
        /\ g.at = NULL => g.able = None
        /\ root' = g.at
        /\ node' = make_file(node, g.at, FSName, TRUE, 0, NULL, "unset")
        /\ memory' = g.able
  BY DEF init_fs
<1>3. /\ call' = Boot("init_tarfs")
      /\ UNCHANGED <<cell, tar_root, files, left, archive, buffer, answer>>
  BY DEF init_fs, Boot
<1>4. \/ g.at = Fresh /\ g.able = memory
      \/ g.at = NULL /\ g.able = None
  BY <1>1, <1>2, GrantIs
<1>5. g.at \in {NULL, Fresh} BY <1>4
<1>6. FSName \in Text BY TextIs
<1>7. /\ Store(node', cell, files) /\ Grown(node, node') /\ Others(node, node', g.at)
      /\ node'[g.at].dir = TRUE /\ node'[g.at].contents = NULL
  BY <1>1, <1>2, <1>5, <1>6, MadeStore
<1>8. DOMAIN node' = {g.at} BY <1>1, <1>7 DEF Others
<1>9. Fresh # NULL BY <1>1, FreshIs DEF Store, NULL
<1>10. StoreOK'
  <2>1. memory' \in 0 .. 2 BY <1>1, <1>2, <1>4 DEF None
  <2>2. Store(node', cell', files') BY <1>3, <1>7
  <2> QED BY <1>1, <1>3, <2>1, <2>2, StoreNext DEF StoreOK
<1>11. RootsOK' BY <1>1, <1>2, <1>3, <1>7, <1>8 DEF RootsOK, Boot
<1>12. SupplyOK'
  <2>1. memory' = Large => root' # NULL BY <1>2, <1>4, <1>9 DEF Large, None
  <2>2. memory' = Large => Whole(node', cell', tar_root')
    BY <1>1, <1>2, <1>3, <1>7, <1>8, <2>1 DEF Whole
  <2>3. root' = NULL => memory' = None /\ Barren(node', cell')
    BY <1>1, <1>2, <1>3, <1>4, <1>7, <1>8, <1>9 DEF Barren
  <2>4. call'.op = "init_tarfs" BY <1>3 DEF Boot
  <2> QED BY <2>1, <2>2, <2>3, <2>4 DEF SupplyOK
<1>13. RunOK'
  BY <1>1, <1>3 DEF RunOK, Boot, ParseOK, MountKeepsToTheTree, ReadsOwnMember, NoAnswer, Astray
<1> QED BY <1>7, <1>10, <1>11, <1>12, <1>13 DEF FsInv

LEMMA init_tarfs_Keeps ==
  ASSUME FsInv, init_tarfs
  PROVE  FsInv' /\ Grown(node, node')
<1>1. /\ archive \in Archives /\ memory \in 0 .. 2 /\ Store(node, cell, files)
      /\ call.op = "init_tarfs" /\ DOMAIN cell = {}
      /\ root \in DOMAIN node /\ (root # NULL => node[root].dir)
      /\ answer = NoAnswer /\ Terminated(buffer) /\ left \in 0 .. Len(buffer)
  BY DEF FsInv, StoreOK, RootsOK, RunOK, init_tarfs
<1>2. PICK g \in Grants(memory, Large, Fresh) :
        /\ tar_root' = g.at
        /\ node' = make_file(node, g.at, TarName, FALSE, 0, NULL, "none")
        /\ memory' = g.able
  BY DEF init_tarfs
<1>3. /\ call' = [op |-> "parse", address |-> 0, i |-> 0]
      /\ UNCHANGED <<cell, root, files, left, archive, buffer, answer>>
  BY DEF init_tarfs
<1>4. \/ g.at = Fresh /\ g.able = memory /\ memory = Large
      \/ g.at = NULL /\ g.able \in 0 .. 1 /\ g.able <= memory
  BY <1>1, <1>2, GrantIs DEF Large
<1>5. g.at \in {NULL, Fresh} BY <1>4
<1>6. TarName \in Text BY TextIs
<1>7. /\ Store(node', cell, files) /\ Grown(node, node') /\ Others(node, node', g.at)
      /\ node'[g.at].dir = FALSE /\ node'[g.at].contents = NULL /\ node'[g.at].read = "none"
  <2>1. PICK no \in BOOLEAN : no = FALSE OBVIOUS
  <2>2. node' = make_file(node, g.at, TarName, no, 0, NULL, "none") BY <1>2, <2>1
  <2>3. /\ Store(node', cell, files) /\ Grown(node, node') /\ Others(node, node', g.at)
        /\ node'[g.at].dir = no /\ node'[g.at].contents = NULL /\ node'[g.at].read = "none"
    BY <1>1, <1>5, <1>6, <2>2, MadeStore
  <2> QED BY <2>1, <2>3
<1>8. DOMAIN node' = DOMAIN node \cup {g.at} BY <1>7 DEF Others
<1>9. Fresh # NULL /\ Fresh \notin DOMAIN node BY <1>1, FreshIs DEF Store, NULL
<1>10. StoreOK'
  <2>1. memory' \in 0 .. 2 BY <1>1, <1>2, <1>4
  <2>2. Store(node', cell', files') BY <1>3, <1>7
  <2> QED BY <1>1, <1>3, <2>1, <2>2, StoreNext DEF StoreOK
<1>11. RootsOK' BY <1>1, <1>2, <1>3, <1>7, <1>8 DEF RootsOK, Grown
<1>12. SupplyOK'
  <2>1. ASSUME memory' = Large
        PROVE  Whole(node', cell', tar_root') /\ root' # NULL /\ tar_root' # NULL
    <3>1. g.at = Fresh /\ memory = Large BY <1>2, <1>4, <2>1 DEF Large
    <3>2. Whole(node, cell, tar_root) /\ root # NULL
      BY <1>1, <3>1 DEF FsInv, SupplyOK
    <3>3. NULL \notin DOMAIN node BY <3>2 DEF Whole
    <3>4. \A a \in DOMAIN node : a # g.at /\ node'[a] = node[a] BY <1>7, <1>9, <3>1 DEF Others
    <3>5. Whole(node', cell', tar_root')
      BY <1>1, <1>2, <1>3, <1>7, <1>8, <1>9, <3>1, <3>2, <3>4 DEF Whole
    <3> QED BY <1>2, <1>3, <1>9, <3>1, <3>2, <3>5
  <2>2. ASSUME root' = NULL PROVE memory' = None /\ Barren(node', cell')
    <3>1. memory = None /\ Barren(node, cell) BY <1>1, <1>3, <2>2 DEF FsInv, SupplyOK
    <3>2. g.at = NULL /\ g.able = None BY <1>4, <3>1 DEF None, Large
    <3> QED BY <1>2, <1>3, <1>7, <1>8, <3>1, <3>2 DEF Barren, Others
  <2> QED BY <2>1, <2>2 DEF SupplyOK
<1>13. ParseOK'
  <2>1. Len(archive) = 0 => archive = <<>>
    <3>1. archive \in Seq([name : Seq(STRING), at : Nat, size : Nat]) BY <1>1, FsAssumption
    <3> QED BY <3>1, EmptySeq
  <2>2. Len(archive) # 0 => 1 \in Members BY <1>1, ArchiveIs
  <2> QED BY <1>1, <1>3, <2>1, <2>2, ArchiveIs, FsSizes DEF ParseOK, EndOfArchive
<1>14. RunOK'
  BY <1>1, <1>3, <1>13 DEF RunOK, MountKeepsToTheTree, ReadsOwnMember, NoAnswer, Astray
<1> QED BY <1>7, <1>10, <1>11, <1>12, <1>14 DEF FsInv
-----------------------------------------------------------------------------
(* A file more: its section number, its node, and its place in the table.  *)
After(s) == IF s = NULL THEN Fresh ELSE Fresh + 1
WithFile(k, s, g) ==
  make_file(node, g, archive[k].name, FALSE, archive[k].size, s, "tar_read")
WithPlace(k, i) == [files EXCEPT ![i] = archive[k].at]

LEMMA FileStore ==
  ASSUME archive \in Archives, Store(node, cell, files),
         NEW k \in Members, NEW i \in 0 .. MAX_RAMDISK_FILES - 1,
         \A c \in DOMAIN cell : cell[c] < i,
         NEW s \in {NULL, Fresh}, NEW g \in {NULL, After(s)}, g # NULL => s # NULL
  PROVE  LET made  == WithFile(k, s, g)
             cells == At(cell, s, i)
             table == WithPlace(k, i)
         IN  /\ Store(made, cells, table) /\ Grown(node, made) /\ Others(node, made, g)
             /\ Others(cell, cells, s) /\ made[g].contents = s
             /\ \A c \in DOMAIN cells : cells[c] < i + 1
<1> DEFINE made  == WithFile(k, s, g)
           cells == At(cell, s, i)
           table == WithPlace(k, i)
<1>1. /\ Fresh \in Nat \ {0} /\ Used(node, cell) = 1 .. Fresh - 1
      /\ {Fresh, Fresh + 1} \cap (DOMAIN node \cup DOMAIN cell) = {}
  BY FreshIs DEF Store
<1>2. /\ NodesOK(node, cell) /\ DOMAIN cell \subseteq Nat
      /\ cell \in [DOMAIN cell -> 0 .. MAX_RAMDISK_FILES - 1]
      /\ files \in [0 .. MAX_RAMDISK_FILES - 1 -> {Absent} \cup 0 .. EndOfArchive]
      /\ FilesOK(node, cell, files)
  BY DEF Store, NodesOK
<1>3. archive[k].name \in Text /\ archive[k].size \in Nat /\ archive[k].at \in 0 .. EndOfArchive
  BY ArchiveIs, TextIs
<1> HIDE DEF Fresh
<1>4. s \in Nat /\ g \in Nat /\ (s = NULL \/ s \notin DOMAIN node) /\ (s # NULL => s \notin DOMAIN cell)
      /\ (g = NULL \/ g \notin DOMAIN node \cup DOMAIN cell) /\ (g # NULL => g # s)
  BY <1>1, FsSizes DEF After
<1>5. Others(cell, cells, s) /\ cells[s] = i
  BY DEF At, Others
<1>6. cells \in [DOMAIN cells -> 0 .. MAX_RAMDISK_FILES - 1]
  BY <1>2 DEF At
<1> HIDE DEF cells
<1>7. NodesOK(node, cells) BY <1>2, <1>4, <1>5 DEF NodesOK, Others
<1>8. /\ NodesOK(made, cells) /\ Others(node, made, g) /\ made[g].contents = s
      /\ made[g].name = archive[k].name /\ made[g].sz = archive[k].size /\ ~made[g].dir
  <2> DEFINE new == [name |-> archive[k].name, dir |-> FALSE, sz |-> archive[k].size,
                     contents |-> s, nxt |-> NULL, read |-> "tar_read"]
  <2>1. g \in Nat /\ (g = NULL \/ g \notin DOMAIN cells) BY <1>4, <1>5 DEF Others
  <2>2. new \in Nodes BY <1>3, <1>4, FsSizes DEF Nodes
  <2>3. /\ new.dir = FALSE /\ new.contents = s /\ new.nxt = NULL
        /\ new.name = archive[k].name /\ new.sz = archive[k].size
    OBVIOUS
  <2>4. made = At(node, g, new) BY DEF make_file, WithFile
  <2>5. new.contents \in DOMAIN cells \cup {NULL} BY <1>5, <2>3 DEF Others
  <2> HIDE DEF new, made
  <2> QED BY <1>7, <2>1, <2>2, <2>3, <2>4, <2>5, MakeKeeps
<1> HIDE DEF made
<1>9. table \in [0 .. MAX_RAMDISK_FILES - 1 -> {Absent} \cup 0 .. EndOfArchive]
  BY <1>2, <1>3 DEF WithPlace
<1>10. table[i] = archive[k].at /\ \A j \in 0 .. i - 1 : table[j] = files[j]
  BY <1>2, FsSizes DEF WithPlace
<1> HIDE DEF table
<1>11. \A c \in DOMAIN cells : cells[c] < i + 1
  BY <1>2, <1>5, FsSizes DEF Others
<1>12. FilesOK(made, cells, table)
  <2> SUFFICES ASSUME NEW a \in DOMAIN made \ {NULL}, made[a].read = "tar_read"
               PROVE  FileOf(made, cells, table, a)
    BY DEF FilesOK
  <2>1. CASE a = g
    <3>1. s # NULL /\ s \in DOMAIN cells BY <1>5, <2>1 DEF Others
    <3>2. table[cells[made[a].contents]] = archive[k].at BY <1>5, <1>8, <1>10, <2>1
    <3> QED BY <1>8, <2>1, <3>1, <3>2 DEF FileOf
  <2>2. CASE a # g
    <3>1. a \in DOMAIN node \ {NULL} /\ made[a] = node[a] BY <1>8, <2>2 DEF Others
    <3>2. FileOf(node, cell, files, a) BY <1>2, <3>1 DEF FilesOK
    <3> DEFINE c == node[a].contents
    <3>3. c \in DOMAIN cell \ {NULL} /\ c # s BY <1>4, <3>2 DEF FileOf
    <3>4. c \in DOMAIN cells /\ cells[c] = cell[c] BY <1>5, <3>3 DEF Others
    <3>5. cell[c] \in 0 .. i - 1 BY <1>2, <3>3
    <3>6. table[cell[c]] = files[cell[c]] BY <1>10, <3>5
    <3> QED BY <3>1, <3>2, <3>3, <3>4, <3>6 DEF FileOf
  <2> QED BY <2>1, <2>2
<1>13. Dense(made, cells)
  <2>1. Used(made, cells) = Used(node, cell) \cup ({s, g} \ {NULL})
    BY <1>5, <1>8 DEF Used, Others
  <2>2. {s, g} \ {NULL} \in {{}, {Fresh}, {Fresh, Fresh + 1}} BY FsSizes DEF After
  <2>3. PICK n \in Nat : Used(made, cells) = 1 .. n
    <3>1. CASE {s, g} \ {NULL} = {}
      <4>1. Used(made, cells) = Used(node, cell) BY <2>1, <3>1
      <4>2. Fresh - 1 \in Nat BY <1>1
      <4> QED BY <1>1, <4>1, <4>2
    <3>2. CASE {s, g} \ {NULL} = {Fresh}
      <4>1. Used(made, cells) = (1 .. Fresh - 1) \cup {Fresh} BY <1>1, <2>1, <3>2
      <4>2. Used(made, cells) = 1 .. Fresh BY <1>1, <4>1
      <4> QED BY <1>1, <4>2
    <3>3. CASE {s, g} \ {NULL} = {Fresh, Fresh + 1}
      <4>1. Used(made, cells) = (1 .. Fresh - 1) \cup {Fresh, Fresh + 1} BY <1>1, <2>1, <3>3
      <4>2. Used(made, cells) = 1 .. Fresh + 1 /\ Fresh + 1 \in Nat BY <1>1, <4>1
      <4> QED BY <4>2
    <3> QED BY <2>2, <3>1, <3>2, <3>3
  <2> QED BY <2>3, DenseAgain
<1>14. Grown(node, made)
  <2>1. \A a \in DOMAIN node \ {NULL} : a \in DOMAIN made /\ made[a] = node[a]
    BY <1>4, <1>8 DEF Others
  <2> QED BY <2>1 DEF Grown
<1>15. Store(made, cells, table) BY <1>6, <1>8, <1>9, <1>12, <1>13 DEF Store
<1> QED BY <1>5, <1>8, <1>11, <1>14, <1>15 DEF made, cells, table

(* The next header is where parse goes on. *)
LEMMA NextHeader ==
  ASSUME archive \in Archives, ParseOK, call.op = "parse",
         NEW k \in Members, archive[k].at = call.address
  PROVE  /\ k = call.i + 1
         /\ call.address + Advance(archive[k].size) =
              IF k = Len(archive) THEN EndOfArchive ELSE archive[k + 1].at
<1>1. /\ call.i \in 0 .. Len(archive)
      /\ call.address = IF call.i = Len(archive) THEN EndOfArchive ELSE archive[call.i + 1].at
  BY DEF ParseOK
<1> DEFINE n == Len(archive)
<1>2. n \in Nat /\ Members = 1 .. n /\ archive[k].at \in Nat /\ archive[k].size \in Nat
  BY ArchiveIs
<1>3. call.i # n BY <1>1, ArchiveIs
<1>4. call.i + 1 \in Members /\ archive[call.i + 1].at = archive[k].at
  BY <1>1, <1>2, <1>3
<1>5. k = call.i + 1 BY <1>4, ArchiveIs
<1>6. call.address + Advance(archive[k].size) = Behind(archive[k])
  <2>1. /\ Advance(archive[k].size) = Block + Padded(archive[k].size)
        /\ Padded(archive[k].size) \in Nat
    BY <1>2, AdvancePads
  <2> QED BY <1>2, <2>1, FsSizes DEF Behind
<1>7. k = n => EndOfArchive = Behind(archive[k])
  <2>1. archive # <<>> BY <1>2, EmptySeq
  <2> QED BY <2>1 DEF EndOfArchive
<1>8. k # n => archive[k + 1].at = Behind(archive[k])
  <2>1. k # n => k + 1 \in Members /\ k + 1 > 1 /\ (k + 1) - 1 = k BY <1>2
  <2> QED BY <2>1, ArchiveIs
<1> QED BY <1>5, <1>6, <1>7, <1>8

LEMMA mkfile_Keeps ==
  ASSUME FsInv, call.op = "parse", NEW k \in Members, archive[k].at = call.address,
         call.i < MAX_RAMDISK_FILES, files' = [files EXCEPT ![call.i] = call.address],
         mkfile(archive[k].name, archive[k].size, Section(call.i)),
         UNCHANGED <<root, tar_root, left, archive, buffer, answer>>
  PROVE  FsInv' /\ Grown(node, node')
<1>1. /\ archive \in Archives /\ memory \in 0 .. 2 /\ Store(node, cell, files)
      /\ root \in DOMAIN node /\ (root # NULL => node[root].dir)
      /\ tar_root \in DOMAIN node
      /\ tar_root # NULL => ~node[tar_root].dir /\ node[tar_root].read = "none"
      /\ answer = NoAnswer /\ Terminated(buffer) /\ left \in 0 .. Len(buffer) /\ ParseOK
      /\ call = [op |-> "parse", address |-> call.address, i |-> call.i]
  BY DEF FsInv, StoreOK, RootsOK, RunOK, Boot, Idle, Astray
<1> DEFINE i == call.i
<1>2. /\ i \in 0 .. MAX_RAMDISK_FILES - 1 /\ \A c \in DOMAIN cell : cell[c] < i
      /\ k = i + 1 /\ Members = 1 .. Len(archive) /\ Len(archive) \in Nat
      /\ call.address + Advance(archive[k].size) =
            IF k = Len(archive) THEN EndOfArchive ELSE archive[k + 1].at
  <2>1. i \in 0 .. Len(archive) /\ \A c \in DOMAIN cell : cell[c] < i BY <1>1 DEF ParseOK
  <2> QED BY <1>1, <2>1, NextHeader, ArchiveIs, FsSizes
<1>3. PICK s \in Grants(memory, Small, Fresh) :
      \E g \in Grants(s.able, Large, After(s.at)) :
        LET made == WithFile(k, s.at, g.at)
        IN  /\ cell' = At(cell, s.at, i)
            /\ memory' = g.able
            /\ IF AddStrays(made, tar_root)
               THEN call' = Astray /\ node' = made
               ELSE /\ node' = add_dir(made, tar_root, g.at)
                    /\ call' = [call EXCEPT !.address = @ + Advance(archive[k].size), !.i = @ + 1]
  BY DEF mkfile, Section, WithFile, After
<1>4. PICK g \in Grants(s.able, Large, After(s.at)) :
        LET made == WithFile(k, s.at, g.at)
        IN  /\ cell' = At(cell, s.at, i)
            /\ memory' = g.able
            /\ IF AddStrays(made, tar_root)
               THEN call' = Astray /\ node' = made
               ELSE /\ node' = add_dir(made, tar_root, g.at)
                    /\ call' = [call EXCEPT !.address = @ + Advance(archive[k].size), !.i = @ + 1]
  BY <1>3
<1> DEFINE made == WithFile(k, s.at, g.at)
           next == After(s.at)
<1>5. \/ s.at = Fresh /\ s.able = memory /\ 1 <= memory
      \/ s.at = NULL /\ s.able = 0
  BY <1>1, GrantIs DEF Small
<1>6. \/ g.at = next /\ g.able = s.able /\ s.able = Large
      \/ g.at = NULL /\ g.able \in 0 .. 1 /\ g.able <= s.able
  <2>1. s.able \in 0 .. 2 BY <1>1, <1>5
  <2> QED BY <2>1, GrantIs DEF Large
<1>7. /\ Fresh \in Nat \ {0} /\ {Fresh, Fresh + 1} \cap (DOMAIN node \cup DOMAIN cell) = {}
  BY <1>1, FreshIs DEF Store
<1>8. /\ Store(made, cell', files') /\ Grown(node, made) /\ Others(node, made, g.at)
      /\ Others(cell, cell', s.at) /\ made[g.at].contents = s.at
      /\ \A c \in DOMAIN cell' : cell'[c] < i + 1
  <2>1. s.at \in {NULL, Fresh} /\ g.at \in {NULL, next} /\ (g.at # NULL => s.at # NULL)
    BY <1>5, <1>6, <1>7 DEF Large, NULL
  <2>2. files' = [files EXCEPT ![i] = archive[k].at] /\ cell' = At(cell, s.at, i) BY <1>4
  <2>3. PICK x, y : x = s.at /\ y = g.at OBVIOUS
  <2>4. x \in {NULL, Fresh} /\ y \in {NULL, After(x)} /\ (y # NULL => x # NULL)
    BY <2>1, <2>3
  <2>5. made = WithFile(k, x, y) /\ cell' = At(cell, x, i) /\ files' = WithPlace(k, i)
    BY <2>2, <2>3 DEF WithPlace
  <2>6. /\ Store(WithFile(k, x, y), At(cell, x, i), WithPlace(k, i))
        /\ Grown(node, WithFile(k, x, y)) /\ Others(node, WithFile(k, x, y), y)
        /\ Others(cell, At(cell, x, i), x) /\ WithFile(k, x, y)[y].contents = x
        /\ \A c \in DOMAIN At(cell, x, i) : At(cell, x, i)[c] < i + 1
    <3> HIDE DEF i
    <3> QED BY <1>1, <1>2, <2>4, FileStore
  <2> HIDE DEF made, i
  <2> QED BY <2>3, <2>5, <2>6
<1> HIDE DEF i, made
(* What was granted. *)
<1>9. memory' \in 0 .. 2 /\ memory' <= memory BY <1>1, <1>4, <1>5, <1>6
<1>10. ASSUME memory' = Large
       PROVE  /\ g.at # NULL /\ g.at \notin DOMAIN node /\ s.at # NULL /\ s.at \notin DOMAIN node
              /\ root # NULL /\ tar_root # NULL /\ Whole(node, cell, tar_root)
              /\ made[tar_root].contents \in DOMAIN node \cup {NULL} /\ tar_root # g.at
  <2>1. g.at = next /\ s.able = Large /\ s.at = Fresh /\ memory = Large
    BY <1>4, <1>5, <1>6, <1>10 DEF Large
  <2>2. Whole(node, cell, tar_root) /\ root # NULL /\ tar_root # NULL
    BY <1>1, <2>1 DEF FsInv, SupplyOK
  <2>3. /\ g.at # NULL /\ g.at \notin DOMAIN node /\ s.at # NULL /\ s.at \notin DOMAIN node
    BY <1>7, <2>1 DEF NULL, After
  <2>4. made[tar_root] = node[tar_root] /\ tar_root # g.at BY <1>1, <1>8, <2>3 DEF Others
  <2> QED BY <1>1, <2>2, <2>3, <2>4 DEF Whole
<1>11. ASSUME root = NULL
       PROVE  /\ memory' = None /\ g.at = NULL /\ tar_root = NULL
              /\ Barren(made, cell') /\ made[NULL].contents = NULL
  <2>1. memory = None /\ Barren(node, cell) BY <1>1, <1>11 DEF FsInv, SupplyOK
  <2>2. s.at = NULL /\ g.at = NULL /\ memory' = None BY <1>4, <1>5, <1>6, <2>1 DEF None, Large
  <2>3. tar_root = NULL BY <1>1, <2>1 DEF Barren
  <2> QED BY <1>8, <2>1, <2>2, <2>3 DEF Barren, Others
<1>12. tar_root \in DOMAIN made /\ root \in DOMAIN made /\ g.at \in DOMAIN made
  BY <1>1, <1>8 DEF Others
<1>13. AddStrays(made, tar_root) => memory' # Large /\ root # NULL
  <2>1. ASSUME AddStrays(made, tar_root), memory' = Large PROVE FALSE
    BY <1>8, <1>10, <2>1 DEF AddStrays, NotANode, Others
  <2>2. ASSUME AddStrays(made, tar_root), root = NULL PROVE FALSE
    BY <1>11, <2>2 DEF AddStrays
  <2> QED BY <2>1, <2>2
(* The node is entered, unless it strays. *)
<1>14. /\ Store(node', cell', files') /\ Grown(made, node') /\ DOMAIN node' = DOMAIN made
       /\ \A a \in DOMAIN made : /\ node'[a].dir = made[a].dir
                                 /\ \/ node'[a].contents = made[a].contents
                                    \/ node'[a].contents = g.at
  <2>1. CASE AddStrays(made, tar_root)
    <3>1. node' = made BY <1>4, <2>1 DEF made
    <3>2. Grown(made, made) BY DEF Grown
    <3> QED BY <1>8, <3>1, <3>2
  <2>2. CASE ~AddStrays(made, tar_root)
    <3>1. node' = add_dir(made, tar_root, g.at) BY <1>4, <2>2 DEF made
    <3>2. tar_root = NULL \/ made[tar_root].dir \/ made[tar_root].read # "tar_read"
      BY <1>1, <1>8 DEF Grown
    <3> QED BY <1>8, <1>12, <2>2, <3>1, <3>2, AddedStore
  <2> QED BY <2>1, <2>2
<1>15. Grown(node, node') BY <1>8, <1>14, GrownTwice
<1>16. StoreOK' BY <1>1, <1>9, <1>14, StoreNext DEF StoreOK
<1>17. RootsOK'
  <2>1. call'.op \notin {"init_fs", "init_tarfs"} /\ call.op \notin {"init_fs", "init_tarfs"}
    <3>1. call.op = "parse" OBVIOUS
    <3>2. \/ call' = Astray
          \/ call' = [call EXCEPT !.address = @ + Advance(archive[k].size), !.i = @ + 1]
      BY <1>4
    <3>3. CASE call' = Astray BY <3>1, <3>3 DEF Astray
    <3>4. CASE call' = [call EXCEPT !.address = @ + Advance(archive[k].size), !.i = @ + 1]
      BY <1>1, <3>1, <3>4
    <3> QED BY <3>2, <3>3, <3>4
  <2> QED BY <1>1, <1>12, <1>14, <1>15, <2>1 DEF RootsOK, Grown
<1>18. SupplyOK'
  <2>1. ASSUME memory' = Large PROVE Whole(node', cell', tar_root')
    <3>1. /\ NULL \notin DOMAIN node' /\ NULL \notin DOMAIN cell' /\ g.at \in DOMAIN node'
      BY <1>8, <1>10, <1>14, <2>1 DEF Whole, Others
    <3>2. ASSUME NEW a \in DOMAIN node', node'[a].dir \/ a = tar_root
          PROVE  node'[a].contents \in DOMAIN node' \cup {NULL}
      <4>1. a # g.at => a \in DOMAIN node /\ made[a] = node[a] BY <1>8, <1>14 DEF Others
      <4>2. ~made[g.at].dir BY DEF made, WithFile, make_file, At
      <4>3. a # g.at BY <1>10, <1>14, <2>1, <3>2, <4>2
      <4>4. made[a].contents \in DOMAIN node \cup {NULL}
        BY <1>10, <1>14, <2>1, <3>2, <4>1, <4>3 DEF Whole
      <4> QED BY <1>8, <1>14, <3>1, <4>4 DEF Others
    <3> QED BY <3>1, <3>2 DEF Whole
  <2>2. ASSUME root' = NULL PROVE memory' = None /\ Barren(node', cell')
    BY <1>11, <1>14, <2>2 DEF Barren
  <2>3. memory' = Large => root' # NULL /\ tar_root' # NULL BY <1>10
  <2> QED BY <2>1, <2>2, <2>3 DEF SupplyOK
<1>19. RunOK'
  <2>1. CASE AddStrays(made, tar_root)
    <3>1. call' = Astray BY <1>4, <2>1 DEF made
    <3> QED BY <1>1, <1>13, <2>1, <3>1
        DEF RunOK, Astray, ParseOK, MountKeepsToTheTree, ReadsOwnMember, NoAnswer
  <2>2. CASE ~AddStrays(made, tar_root)
    <3>1. call' = [call EXCEPT !.address = @ + Advance(archive[k].size), !.i = @ + 1]
      BY <1>4, <2>2 DEF made
    <3>2. call' = [op |-> "parse", address |-> call.address + Advance(archive[k].size),
                   i |-> i + 1]
      BY <1>1, <3>1 DEF i
    <3>3. call'.op = "parse" /\ call'.i = k /\ call'.address = call.address + Advance(archive[k].size)
      BY <1>2, <3>2
    <3>4. k \in 0 .. Len(archive) /\ k <= MAX_RAMDISK_FILES BY <1>2, FsSizes
    <3>5. EndOfArchive' = EndOfArchive BY DEF EndOfArchive, Behind, Padded
    <3>6. ParseOK' BY <1>2, <1>8, <3>3, <3>4, <3>5 DEF ParseOK
    <3> QED BY <1>1, <3>2, <3>3, <3>6
        DEF RunOK, Astray, MountKeepsToTheTree, ReadsOwnMember, NoAnswer
  <2> QED BY <2>1, <2>2
<1> QED BY <1>15, <1>16, <1>17, <1>18, <1>19 DEF FsInv

LEMMA parse_Keeps ==
  ASSUME FsInv, parse
  PROVE  FsInv' /\ Grown(node, node')
<1>1. /\ archive \in Archives /\ StoreOK /\ RootsOK /\ SupplyOK
      /\ answer = NoAnswer /\ Terminated(buffer) /\ left \in 0 .. Len(buffer) /\ ParseOK
      /\ call.op = "parse"
  BY DEF FsInv, StoreOK, RunOK, parse
<1>2. UNCHANGED <<root, tar_root, left, archive, buffer, answer>> BY DEF parse
<1>3. ASSUME call' \in {Boot("mount"), Astray}, UNCHANGED <<node, cell, files, memory>>,
             call' = Astray => Len(archive) > MAX_RAMDISK_FILES
      PROVE  FsInv' /\ Grown(node, node')
  <2>1. call'.op \notin {"init_fs", "init_tarfs"} BY <1>3 DEF Boot, Astray
  <2>2. UNCHANGED <<tree, memory, archive>> BY <1>2, <1>3 DEF tree
  <2>3. StoreOK' /\ RootsOK' /\ SupplyOK' /\ Grown(node, node')
    BY <1>1, <2>1, <2>2, TreeStays
  <2>4. RunOK'
    BY <1>1, <1>2, <1>3
    DEF RunOK, Boot, Astray, ParseOK, MountKeepsToTheTree, ReadsOwnMember, NoAnswer
  <2> QED BY <2>3, <2>4 DEF FsInv
<1>4. ASSUME call.address = EndOfArchive, call' = [op |-> "mount"],
             UNCHANGED <<node, cell, files, memory>>
      PROVE  FsInv' /\ Grown(node, node')
  <2>1. call' # Astray BY <1>4 DEF Astray
  <2> QED BY <1>3, <1>4, <2>1 DEF Boot
<1>5. ASSUME NEW k \in Members, archive[k].at = call.address, call.i < MAX_RAMDISK_FILES,
             files' = [files EXCEPT ![call.i] = call.address],
             mkfile(archive[k].name, archive[k].size, Section(call.i))
      PROVE  FsInv' /\ Grown(node, node')
  BY <1>1, <1>2, <1>5, mkfile_Keeps
<1>6. ASSUME call.address # EndOfArchive,
             \/ \A k \in Members : archive[k].at # call.address
             \/ call.i >= MAX_RAMDISK_FILES,
             call' = Astray, UNCHANGED <<node, cell, files, memory>>
      PROVE  FsInv' /\ Grown(node, node')
  <2>1. /\ call.i \in 0 .. Len(archive) /\ call.i # Len(archive) /\ Len(archive) \in Nat
        /\ call.address = archive[call.i + 1].at /\ Members = 1 .. Len(archive)
    BY <1>1, <1>6, ArchiveIs DEF ParseOK
  <2>2. call.i + 1 \in Members BY <2>1
  <2>3. call.i >= MAX_RAMDISK_FILES BY <1>6, <2>1, <2>2
  <2>4. Len(archive) > MAX_RAMDISK_FILES BY <2>1, <2>3, FsSizes
  <2> QED BY <1>3, <1>6, <2>4
<1> QED BY <1>4, <1>5, <1>6 DEF parse

(* fs_mount never strays with memory to spare: the root contains nothing    *)
(* yet, or what it contains is a node.                                      *)
LEMMA load_mods_Keeps ==
  ASSUME FsInv, load_mods
  PROVE  FsInv' /\ Grown(node, node')
<1>1. /\ archive \in Archives /\ memory \in 0 .. 2 /\ Store(node, cell, files)
      /\ root \in DOMAIN node /\ (root # NULL => node[root].dir)
      /\ tar_root \in DOMAIN node
      /\ tar_root # NULL => ~node[tar_root].dir /\ node[tar_root].read = "none"
      /\ answer = NoAnswer /\ Terminated(buffer) /\ left \in 0 .. Len(buffer)
      /\ call.op = "mount"
  BY DEF FsInv, StoreOK, RootsOK, RunOK, load_mods
<1>2. UNCHANGED <<cell, root, tar_root, files, left, memory, archive, buffer, answer>>
      /\ fs_mount(tar_root)
  BY DEF load_mods
<1>3. memory = Large => Whole(node, cell, tar_root) /\ root # NULL /\ tar_root # NULL
  BY <1>1 DEF FsInv, SupplyOK
<1>4. root = NULL => memory = None /\ Barren(node, cell) BY <1>1 DEF FsInv, SupplyOK
<1>5. CASE AddStrays(node, root)
  <2>1. call' = Astray /\ node' = node BY <1>2, <1>5 DEF fs_mount
  <2>2. memory # Large /\ root # NULL
    BY <1>1, <1>3, <1>4, <1>5 DEF AddStrays, NotANode, Whole, Barren
  <2>3. UNCHANGED <<tree, memory, archive>> BY <1>2, <2>1 DEF tree
  <2>4. call'.op \notin {"init_fs", "init_tarfs"} BY <2>1 DEF Astray
  <2>5. StoreOK' /\ RootsOK' /\ SupplyOK' /\ Grown(node, node')
    BY <1>1, <2>3, <2>4, TreeStays DEF FsInv
  <2>6. RunOK'
    BY <1>1, <1>2, <2>1, <2>2
    DEF RunOK, Astray, ParseOK, MountKeepsToTheTree, ReadsOwnMember, NoAnswer
  <2> QED BY <2>5, <2>6 DEF FsInv
<1>6. CASE ~AddStrays(node, root)
  <2>1. call' = Idle /\ node' = add_dir(node, root, tar_root) BY <1>2, <1>6 DEF fs_mount
  <2>2. /\ Store(node', cell, files) /\ Grown(node, node') /\ DOMAIN node' = DOMAIN node
        /\ \A a \in DOMAIN node : /\ node'[a].dir = node[a].dir
                                  /\ \/ node'[a].contents = node[a].contents
                                     \/ node'[a].contents = tar_root
    BY <1>1, <1>6, <2>1, AddedStore
  <2>3. StoreOK'
    <3>1. Store(node', cell', files') BY <1>2, <2>2
    <3> QED BY <1>1, <1>2, <3>1, StoreNext DEF StoreOK
  <2>4. RootsOK' BY <1>1, <1>2, <2>1, <2>2 DEF RootsOK, Idle, Grown
  <2>5. SupplyOK' BY <1>1, <1>2, <1>3, <1>4, <2>1, <2>2 DEF SupplyOK, Whole, Barren
  <2>6. RunOK'
    BY <1>1, <1>2, <2>1
    DEF RunOK, Idle, Astray, ParseOK, MountKeepsToTheTree, ReadsOwnMember, NoAnswer
  <2> QED BY <2>2, <2>3, <2>4, <2>5, <2>6 DEF FsInv
<1> QED BY <1>5, <1>6
-----------------------------------------------------------------------------
(* A lookup changes the caller's buffer and nothing else. *)
LEMMA Looks ==
  ASSUME FsInv, UNCHANGED <<tree, memory, archive>>,
         call.op \notin {"init_fs", "init_tarfs"},
         \/ call' = [op |-> "get_file", asked |-> call'.asked, tk |-> call'.tk, rot |-> call'.rot]
         \/ call' = Idle
         \/ call' = Astray /\ answer'.op = "get_file",
         answer' = answer \/ answer'.op # "data",
         Terminated(buffer'), left' \in 0 .. Len(buffer')
  PROVE  FsInv' /\ Grown(node, node')
<1>1. call'.op \in {"get_file", "idle", "astray"} /\ (call'.op = "astray" => answer'.op = "get_file")
  BY DEF Idle, Astray
<1>2. StoreOK' /\ RootsOK' /\ SupplyOK' /\ Grown(node, node')
  BY <1>1, TreeStays DEF FsInv
<1>3. ReadsOwnMember'
  <2>1. ReadsOwnMember BY DEF FsInv, RunOK
  <2> QED BY <2>1 DEF ReadsOwnMember, tree, Members
<1>4. RunOK'
  BY <1>1, <1>3 DEF RunOK, ParseOK, MountKeepsToTheTree, Looking, Astray
<1> QED BY <1>2, <1>4 DEF FsInv

LEMMA Turn_Keeps ==
  ASSUME FsInv, Turn
  PROVE  FsInv' /\ Grown(node, node')
<1>1. /\ call.op = "get_file" /\ UNCHANGED <<tree, memory, archive>>
      /\ Terminated(buffer) /\ left \in 0 .. Len(buffer)
      /\ call = [op |-> "get_file", asked |-> call.asked, tk |-> call.tk, rot |-> call.rot]
  BY DEF FsInv, RunOK, Turn, Boot, Idle, Astray
<1>2. CASE GoAstray BY <1>1, <1>2, Looks DEF GoAstray
<1>3. ASSUME NEW nd, Answer(nd) PROVE FsInv' /\ Grown(node, node')
  BY <1>1, <1>3, Looks DEF Answer
<1>4. CASE Descend
  <2>1. strtok(buffer, left) /\ left # NULL /\ answer' = answer
        /\ call' = [call EXCEPT !.tk = Token(buffer, left), !.rot = Here.contents]
    BY <1>4 DEF Descend
  <2>2. left \in 1 .. Len(buffer) BY <1>1, <2>1, FsSizes
  <2>3. Terminated(buffer') /\ left' \in 0 .. Len(buffer') BY <1>1, <2>1, <2>2, StrtokStays
  <2>4. call' = [op |-> "get_file", asked |-> call'.asked, tk |-> call'.tk, rot |-> call'.rot]
    BY <1>1, <2>1
  <2> QED BY <1>1, <2>1, <2>3, <2>4, Looks
<1>5. CASE NextEntry
  <2>1. call' = [call EXCEPT !.rot = Here.nxt] /\ UNCHANGED <<left, buffer, answer>>
    BY <1>5 DEF NextEntry
  <2>2. call' = [op |-> "get_file", asked |-> call'.asked, tk |-> call'.tk, rot |-> call'.rot]
    BY <1>1, <2>1
  <2> QED BY <1>1, <2>1, <2>2, Looks
<1>6. CASE Found BY <1>3, <1>6 DEF Found
<1>7. CASE NotFound BY <1>3, <1>7 DEF NotFound
<1> QED BY <1>2, <1>4, <1>5, <1>6, <1>7 DEF Turn

LEMMA get_file_Keeps ==
  ASSUME FsInv, call = Idle, NEW text, Terminated(text), get_file(text)
  PROVE  FsInv' /\ Grown(node, node')
<1>1. text # <<>> /\ Len(text) \in Nat /\ Len(text) # 0
  BY LenProperties, EmptySeq DEF Terminated, Text
<1>2. strtok(text, 1) /\ answer' = NoAnswer /\ UNCHANGED <<tree, memory, archive>>
      /\ call' = [op |-> "get_file", asked |-> CString(text), tk |-> Token(text, 1),
                  rot |-> node[root].contents]
  BY DEF get_file
<1>3. 1 \in 1 .. Len(text) BY <1>1
<1>4. Terminated(buffer') /\ left' \in 0 .. Len(buffer') BY <1>2, <1>3, StrtokStays
<1> QED BY <1>2, <1>4, Looks DEF Idle, NoAnswer

LEMMA fs_read_Keeps ==
  ASSUME FsInv, call = Idle, answer.op = "get_file", answer.node # NULL, fs_read(answer.node)
  PROVE  FsInv' /\ Grown(node, node')
<1> DEFINE nd == answer.node
<1>1. /\ UNCHANGED <<tree, left, memory, archive, buffer>> /\ StoreOK
      /\ Terminated(buffer) /\ left \in 0 .. Len(buffer)
  BY DEF fs_read, FsInv, RunOK
<1>2. /\ StoreOK' /\ RootsOK' /\ SupplyOK' /\ Grown(node, node') /\ call'.op \in {"idle", "astray"}
      /\ call' # Idle => call' = Astray /\ answer'.op = "get_file"
  <2>1. \/ call' = Idle
        \/ call' = Astray /\ answer'.op = "get_file"
    <3>1. CASE NotANode(node, nd) BY <3>1 DEF fs_read
    <3>2. CASE ~NotANode(node, nd) BY <3>2 DEF fs_read
    <3> QED BY <3>1, <3>2
  <2>2. call.op \notin {"init_fs", "init_tarfs"} /\ call'.op \in {"idle", "astray"}
    BY <2>1 DEF Idle, Astray
  <2> QED BY <1>1, <2>1, <2>2, TreeStays DEF FsInv
<1>3. ReadsOwnMember'
  <2>1. CASE NotANode(node, nd)
    BY <2>1 DEF fs_read, ReadsOwnMember
  <2>2. CASE ~NotANode(node, nd)
    <3>1. CASE Reads(nd)
      <4>1. answer' = [op |-> "data", node |-> nd,
                       address |-> get_addr_ofsec(files[cell[node[nd].contents]])]
        BY <2>2, <3>1 DEF fs_read
      <4>2. FileOf(node, cell, files, nd)
        BY <1>1, <2>2, <3>1 DEF NotANode, StoreOK, Store, FilesOK, Reads
      <4>3. PICK k \in Members : /\ node[nd].name = archive[k].name
                                 /\ node[nd].sz = archive[k].size
                                 /\ files[cell[node[nd].contents]] = archive[k].at
        BY <4>2 DEF FileOf
      <4>4. answer'.node = nd /\ answer'.address = archive[k].at + Block
        BY <4>1, <4>3 DEF get_addr_ofsec
      <4> HIDE DEF nd
      <4> QED BY <1>1, <4>3, <4>4 DEF ReadsOwnMember, Members, tree
    <3>2. CASE ~Reads(nd)
      BY <2>2, <3>2 DEF fs_read, ReadsOwnMember, NoAnswer
    <3> QED BY <3>1, <3>2
  <2> QED BY <2>1, <2>2
<1>4. RunOK'
  BY <1>1, <1>2, <1>3 DEF RunOK, ParseOK, MountKeepsToTheTree, Looking, Astray, Idle
<1> QED BY <1>2, <1>4 DEF FsInv

LEMMA MakeDirectory_Keeps ==
  ASSUME FsInv, call = Idle, NEW dir \in Directories, NEW name \in Names,
         MakeDirectory(dir, name)
  PROVE  FsInv' /\ Grown(node, node')
<1>1. /\ archive \in Archives /\ memory \in 0 .. 2 /\ Store(node, cell, files)
      /\ root \in DOMAIN node /\ (root # NULL => node[root].dir)
      /\ tar_root \in DOMAIN node
      /\ tar_root # NULL => ~node[tar_root].dir /\ node[tar_root].read = "none"
      /\ Terminated(buffer) /\ left \in 0 .. Len(buffer) /\ call.op = "idle"
      /\ dir \in DOMAIN node /\ node[dir].dir /\ name \in Text
  BY FsSizes, TextIs DEF FsInv, StoreOK, RootsOK, RunOK, Idle, Directories
<1>2. /\ UNCHANGED <<cell, root, tar_root, files, left, archive, buffer>>
      /\ answer' = NoAnswer
  BY DEF MakeDirectory
<1>3. PICK g \in Grants(memory, Large, Fresh) :
        LET made == make_file(node, g.at, name, TRUE, 0, NULL, "none")
        IN  /\ memory' = g.able
            /\ IF g.at = NULL THEN node' = made /\ UNCHANGED call
               ELSE IF AddStrays(made, dir) THEN node' = made /\ call' = Astray
               ELSE node' = add_dir(made, dir, g.at) /\ UNCHANGED call
  BY DEF MakeDirectory
<1> DEFINE made == make_file(node, g.at, name, TRUE, 0, NULL, "none")
<1>4. \/ g.at = Fresh /\ g.able = memory /\ memory = Large
      \/ g.at = NULL /\ g.able \in 0 .. 1 /\ g.able <= memory
  BY <1>1, GrantIs DEF Large
<1>5. /\ Store(made, cell, files) /\ Grown(node, made) /\ Others(node, made, g.at)
      /\ made[g.at].dir = TRUE /\ made[g.at].contents = NULL
  <2>1. PICK at \in {NULL, Fresh} : at = g.at BY <1>4
  <2>2. made = make_file(node, at, name, TRUE, 0, NULL, "none") BY <2>1
  <2> HIDE DEF made
  <2>3. PICK yes \in BOOLEAN : yes = TRUE OBVIOUS
  <2>4. made = make_file(node, at, name, yes, 0, NULL, "none") BY <2>2, <2>3
  <2>5. Store(node, cell, files) /\ name \in Text BY <1>1
  <2>6. /\ Store(made, cell, files) /\ Grown(node, made) /\ Others(node, made, at)
        /\ made[at].dir = yes /\ made[at].contents = NULL
    BY <2>4, <2>5, MadeStore
  <2> QED BY <2>1, <2>3, <2>6
<1>6. Fresh # NULL /\ Fresh \notin DOMAIN node /\ Fresh \notin DOMAIN cell
  BY <1>1, FreshIs DEF Store, NULL
<1> HIDE DEF made
<1>7. memory' \in 0 .. 2 /\ (memory' = Large => g.at = Fresh /\ memory = Large)
  BY <1>1, <1>3, <1>4 DEF Large
<1>8. ASSUME g.at # NULL
      PROVE  /\ g.at = Fresh /\ Whole(node, cell, tar_root) /\ root # NULL /\ tar_root # NULL
             /\ made[dir] = node[dir] /\ ~AddStrays(made, dir)
  <2>1. g.at = Fresh /\ memory = Large BY <1>4, <1>8
  <2>2. Whole(node, cell, tar_root) /\ root # NULL /\ tar_root # NULL
    BY <1>1, <2>1 DEF FsInv, SupplyOK
  <2>3. made[dir] = node[dir] BY <1>1, <1>5, <1>6, <2>1 DEF Others
  <2>4. node[dir].contents \in DOMAIN node \cup {NULL} BY <1>1, <2>2 DEF Whole
  <2>5. ~AddStrays(made, dir) BY <1>5, <2>3, <2>4 DEF AddStrays, NotANode, Others
  <2> QED BY <2>1, <2>2, <2>3, <2>5
<1>9. dir \in DOMAIN made /\ g.at \in DOMAIN made /\ root \in DOMAIN made /\ tar_root \in DOMAIN made
  BY <1>1, <1>5 DEF Others
<1>10. /\ Store(node', cell, files) /\ Grown(made, node') /\ DOMAIN node' = DOMAIN made
       /\ \A a \in DOMAIN made : /\ node'[a].dir = made[a].dir
                                 /\ \/ node'[a].contents = made[a].contents
                                    \/ node'[a].contents = g.at
       /\ call' = Idle
  <2>1. CASE g.at = NULL
    <3>1. node' = made /\ call' = call BY <1>3, <2>1 DEF made
    <3>2. Grown(made, made) BY DEF Grown
    <3> QED BY <1>5, <3>1, <3>2
  <2>2. CASE g.at # NULL
    <3>1. node' = add_dir(made, dir, g.at) /\ call' = call BY <1>3, <1>8, <2>2 DEF made
    <3>2. made[dir].dir BY <1>1, <1>8, <2>2
    <3> QED BY <1>5, <1>8, <1>9, <2>2, <3>1, <3>2, AddedStore
  <2> QED BY <2>1, <2>2
<1>11. Grown(node, node') BY <1>5, <1>10, GrownTwice
<1>12. StoreOK'
  <2>1. Store(node', cell', files') BY <1>2, <1>10
  <2> QED BY <1>1, <1>2, <1>7, <2>1, StoreNext DEF StoreOK
<1>13. RootsOK' BY <1>1, <1>2, <1>9, <1>10, <1>11 DEF RootsOK, Idle, Grown
<1>14. SupplyOK'
  <2>1. ASSUME memory' = Large PROVE Whole(node', cell', tar_root') /\ root # NULL /\ tar_root # NULL
    <3>1. /\ g.at = Fresh /\ g.at # NULL /\ Whole(node, cell, tar_root)
          /\ root # NULL /\ tar_root # NULL
      BY <1>6, <1>7, <1>8, <2>1
    <3>2. /\ NULL \notin DOMAIN node' /\ NULL \notin DOMAIN cell' /\ g.at \in DOMAIN node'
      BY <1>2, <1>5, <1>10, <3>1 DEF Whole, Others
    <3>3. ASSUME NEW a \in DOMAIN node', node'[a].dir \/ a = tar_root
          PROVE  node'[a].contents \in DOMAIN node' \cup {NULL}
      <4>1. a # g.at => a \in DOMAIN node /\ made[a] = node[a] BY <1>5, <1>10 DEF Others
      <4>2. made[a].contents \in DOMAIN node \cup {NULL}
        BY <1>5, <1>10, <3>1, <3>3, <4>1 DEF Whole
      <4> QED BY <1>5, <1>10, <3>2, <4>2 DEF Others
    <3> QED BY <1>2, <3>1, <3>2, <3>3 DEF Whole
  <2>2. ASSUME root = NULL PROVE memory' = None /\ Barren(node', cell')
    <3>1. memory = None /\ Barren(node, cell) BY <1>1, <2>2 DEF FsInv, SupplyOK
    <3>2. g.at = NULL /\ memory' = None BY <1>3, <1>4, <3>1 DEF None, Large
    <3> QED BY <1>2, <1>5, <1>10, <3>1, <3>2 DEF Barren, Others
  <2> QED BY <1>2, <2>1, <2>2 DEF SupplyOK
<1>15. RunOK'
  BY <1>1, <1>2, <1>10
  DEF RunOK, Idle, Astray, ParseOK, MountKeepsToTheTree, ReadsOwnMember, NoAnswer
<1> QED BY <1>11, <1>12, <1>13, <1>14, <1>15 DEF FsInv

(* A path a caller passes is ended by NUL. *)
LEMMA PathTerminated ==
  ASSUME NEW path \in Paths
  PROVE  Terminated(path \o <<NUL>>)
<1>1. path \in Text /\ <<NUL>> \in Text BY FsSizes, TextIs
<1> DEFINE end == <<NUL>>
           text == path \o end
<1>2. Len(end) = 1 /\ end[1] = NUL OBVIOUS
<1> HIDE DEF end
<1>3. /\ text \in Text /\ Len(text) = Len(path) + Len(end) /\ Len(path) \in Nat
      /\ \A j \in 1 .. Len(path) + Len(end) :
            text[j] = IF j <= Len(path) THEN path[j] ELSE end[j - Len(path)]
  BY <1>1, ConcatProperties, LenProperties DEF end, Text
<1> HIDE DEF text
<1>4. text[Len(text)] = NUL BY <1>2, <1>3
<1>5. text # <<>> BY <1>2, <1>3, EmptySeq DEF Text
<1>6. Terminated(text) BY <1>3, <1>4, <1>5 DEF Terminated
<1> QED BY <1>6 DEF text, end

LEMMA Caller_Keeps ==
  ASSUME FsInv, Caller
  PROVE  FsInv' /\ Grown(node, node')
<1>1. call = Idle /\ Terminated(buffer) BY DEF Caller, FsInv, RunOK
<1>2. ASSUME NEW path \in Paths, get_file(path \o <<NUL>>)
      PROVE  FsInv' /\ Grown(node, node')
  BY <1>1, <1>2, PathTerminated, get_file_Keeps
<1>3. CASE get_file(buffer) BY <1>1, <1>3, get_file_Keeps
<1>4. CASE answer.op = "get_file" /\ answer.node # NULL /\ fs_read(answer.node)
  BY <1>1, <1>4, fs_read_Keeps
<1>5. ASSUME NEW dir \in Directories, NEW name \in Names, MakeDirectory(dir, name)
      PROVE  FsInv' /\ Grown(node, node')
  BY <1>1, <1>5, MakeDirectory_Keeps
<1> QED BY <1>2, <1>3, <1>4, <1>5 DEF Caller

LEMMA StutterKeeps ==
  ASSUME FsInv, UNCHANGED vars
  PROVE  FsInv' /\ Grown(node, node')
<1>1. UNCHANGED <<node, cell, root, tar_root, files, left, call, memory, archive, buffer, answer>>
  BY DEF vars, tree
<1>2. StoreOK' BY <1>1, StoreNext DEF FsInv, StoreOK
<1>3. RootsOK' BY <1>1 DEF FsInv, RootsOK
<1>4. SupplyOK' BY <1>1 DEF FsInv, SupplyOK, Whole, Barren
<1>5. EndOfArchive' = EndOfArchive BY <1>1 DEF EndOfArchive, Behind, Padded
<1>6. RunOK'
  BY <1>1, <1>5 DEF FsInv, RunOK, ParseOK, MountKeepsToTheTree, Looking, ReadsOwnMember, Members
<1>7. Grown(node, node') BY <1>1 DEF Grown
<1> QED BY <1>2, <1>3, <1>4, <1>6, <1>7 DEF FsInv

LEMMA FsStep ==
  ASSUME FsInv, [FsNext]_vars
  PROVE  FsInv' /\ Grown(node, node')
BY init_fs_Keeps, init_tarfs_Keeps, parse_Keeps, load_mods_Keeps, Turn_Keeps, Caller_Keeps,
   StutterKeeps
DEF FsNext, Stray

LEMMA FsStart == FsInit => FsInv
<1> SUFFICES ASSUME FsInit PROVE FsInv OBVIOUS
<1>1. /\ archive \in Archives /\ memory \in 0 .. 2 /\ DOMAIN node = {} /\ DOMAIN cell = {}
      /\ root = NULL /\ tar_root = NULL /\ left = NULL /\ call = Boot("init_fs")
      /\ answer = NoAnswer /\ buffer = <<NUL>>
      /\ files = [i \in 0 .. MAX_RAMDISK_FILES - 1 |-> Absent]
  BY DEF FsInit, None, Large, Boot
<1>2. NodesOK(node, cell)
  <2>1. node = [a \in {} |-> NULL] BY DEF FsInit
  <2> QED BY <1>1, <2>1 DEF NodesOK
<1>3. Dense(node, cell)
  <2>1. Used(node, cell) = 1 .. 0 BY <1>1 DEF Used
  <2> QED BY <2>1, DenseAgain
<1>4. cell \in [DOMAIN cell -> 0 .. MAX_RAMDISK_FILES - 1]
  <2>1. cell = [a \in {} |-> NULL] BY DEF FsInit
  <2> QED BY <1>1, <2>1
<1>5. StoreOK BY <1>1, <1>2, <1>3, <1>4 DEF StoreOK, Store, FilesOK
<1>6. RootsOK BY <1>1 DEF RootsOK, Boot
<1>7. SupplyOK BY <1>1 DEF SupplyOK, Whole, Boot
<1>8. Terminated(buffer) /\ left \in 0 .. Len(buffer)
  <2>1. buffer \in Text /\ Len(buffer) = 1 /\ buffer[1] = NUL BY <1>1, TextIs
  <2>2. buffer # <<>>
    <3>1. Len(<<>>) = 0 BY EmptySeq
    <3> QED BY <2>1, <3>1
  <2> QED BY <1>1, <2>1, <2>2, FsSizes DEF Terminated
<1>9. RunOK
  BY <1>1, <1>8 DEF RunOK, ParseOK, Boot, Astray, MountKeepsToTheTree, ReadsOwnMember, NoAnswer
<1> QED BY <1>5, <1>6, <1>7, <1>9 DEF FsInv

(* The invariant, in every behaviour of the file system. *)
THEOREM FsInvariance == FsSpec => []FsInv
<1>1. FsInv /\ [FsNext]_vars => FsInv' BY FsStep
<1> QED BY FsStart, <1>1, PTL DEF FsSpec

(* Every link of the tree, fs_node.files and fs_node.nxt, leads to a node,  *)
(* to a section number or nowhere, and every section number into files.     *)
THEOREM FsTypeCorrect == FsSpec => []FsTypeOK
<1>1. FsInv => FsTypeOK
  <2> SUFFICES ASSUME FsInv PROVE FsTypeOK OBVIOUS
  <2>1. /\ NodesOK(node, cell) /\ cell \in [DOMAIN cell -> 0 .. MAX_RAMDISK_FILES - 1]
        /\ files \in [0 .. MAX_RAMDISK_FILES - 1 -> {Absent} \cup 0 .. EndOfArchive]
        /\ memory \in 0 .. 2 /\ left \in 0 .. Len(buffer)
    BY DEF FsInv, StoreOK, Store, RunOK
  <2>2. root \in DOMAIN node \cup {NULL} /\ tar_root \in DOMAIN node \cup {NULL}
    BY DEF FsInv, RootsOK
  <2>3. \A a \in DOMAIN node : node[a].dir \in BOOLEAN /\ node[a].sz \in Nat
    BY <2>1 DEF NodesOK, Nodes
  <2>4. \A a \in DOMAIN cell : cell[a] \in DOMAIN files BY <2>1
  <2> QED BY <2>1, <2>2, <2>3, <2>4 DEF FsTypeOK, NodesOK, None, Large
<1> QED BY FsInvariance, <1>1, PTL

(* parse, fs_mount and add_dir meet only nodes, and write only inside      *)
(* files, as long as all memory was granted, or none, and the ramdisk has  *)
(* no more members than files has places.                                  *)
THEOREM MountStaysInside == FsSpec => []MountKeepsToTheTree
<1>1. FsInv => MountKeepsToTheTree BY DEF FsInv, RunOK
<1> QED BY FsInvariance, <1>1, PTL

(* tar_read answers with the data of the member that gave the node its     *)
(* name and size, whatever directories were made and files looked up.      *)
THEOREM NodesKeepTheirMember == FsSpec => []ReadsOwnMember
<1>1. FsInv => ReadsOwnMember BY DEF FsInv, RunOK
<1> QED BY FsInvariance, <1>1, PTL

(* No step of the system takes a node away, renames it or redirects a link *)
(* that leads somewhere: add_dir only fills links that are NULL.           *)
THEOREM LinksStay == FsSpec => [][Grown(node, node')]_vars
<1>1. FsInv /\ [FsNext]_vars => [Grown(node, node')]_vars BY FsStep
<1> QED BY FsInvariance, <1>1, PTL DEF FsSpec
-----------------------------------------------------------------------------
(* What a directory lists.  A node that is listed second ends the list and  *)
(* is the first of none, so a list has at most two entries, and neither is  *)
(* ever replaced.                                                           *)
TwoEntries(nodes) ==
  \A a \in DOMAIN nodes : nodes[a].nxt # NULL =>
    /\ nodes[nodes[a].nxt].nxt = NULL
    /\ \A b \in DOMAIN nodes : nodes[b].contents # nodes[a].nxt
Unlisted(nodes, nd) ==
  nodes[nd].nxt = NULL /\ \A a \in DOMAIN nodes : nodes[a].nxt # nd /\ nodes[a].contents # nd
ListsOK ==
  /\ TwoEntries(node)
  /\ call.op \in {"parse", "mount"} => tar_root = NULL \/ Unlisted(node, tar_root)

LEMMA ChainIs ==
  ASSUME NEW nodes, IsFiniteSet(DOMAIN nodes), DOMAIN nodes # {}, NEW first, first # NULL,
         nodes[first].nxt # NULL => nodes[nodes[first].nxt].nxt = NULL
  PROVE  Chain(nodes, first) =
           IF nodes[first].nxt = NULL THEN <<first>> ELSE <<first, nodes[first].nxt>>
<1> DEFINE n == Cardinality(DOMAIN nodes)
           S == 1 .. n + 1
           Next(f, k) == IF k = 1 THEN first
                         ELSE IF f[k - 1] = NULL THEN NULL ELSE nodes[f[k - 1]].nxt
           Is(f) == f = [k \in S |-> Next(f, k)]
           entry == CHOOSE f : Is(f)
           second == nodes[first].nxt
           places == [k \in S |-> IF k = 1 THEN first ELSE IF k = 2 THEN second ELSE NULL]
           listed == {k \in DOMAIN entry : entry[k] # NULL}
<1>1. n \in Nat /\ n # 0 BY FS_CardinalityType, FS_EmptySet
<1> HIDE DEF n
<1>2. \E f : Is(f)
  <2>1. \A k \in S : places[k] = Next(places, k)
    <3> TAKE k \in S
    <3>1. CASE k = 1 BY <3>1
    <3>2. CASE k = 2 BY <1>1, <3>2
    <3>3. CASE k > 2
      <4>1. k - 1 \in S /\ k - 1 # 1 /\ k # 1 /\ k # 2 BY <1>1, <3>3
      <4>2. places[k - 1] = IF k - 1 = 2 THEN second ELSE NULL BY <4>1
      <4> QED BY <4>1, <4>2
    <3> QED BY <1>1, <3>1, <3>2, <3>3
  <2>2. places = [k \in S |-> Next(places, k)]
    <3>1. places = [k \in S |-> places[k]] OBVIOUS
    <3> HIDE DEF places
    <3> QED BY <2>1, <3>1
  <2> QED BY <2>2
<1>3. Is(entry)
  <2> HIDE DEF Is
  <2> QED BY <1>2
<1> HIDE DEF entry
<1>4. DOMAIN entry = S /\ \A k \in S : entry[k] = Next(entry, k) BY <1>3
<1>5. entry[1] = first /\ entry[2] = second BY <1>1, <1>4
<1>6. \A k \in S : k > 2 => entry[k] = NULL
  <2> DEFINE W == {k \in S : k > 2 /\ entry[k] # NULL}
  <2> SUFFICES ASSUME W # {} PROVE FALSE OBVIOUS
  <2>1. PICK k \in W : \A y \in W : k <= y
    <3>1. W \in SUBSET Nat BY <1>1
    <3> HIDE DEF W
    <3> QED BY <3>1, LeastExists
  <2>2. k \in S /\ k > 2 /\ entry[k] # NULL /\ k - 1 \in S /\ k - 1 \notin W BY <1>1, <2>1
  <2>3. entry[k] = IF entry[k - 1] = NULL THEN NULL ELSE nodes[entry[k - 1]].nxt
    BY <1>1, <1>4, <2>2
  <2>4. entry[k - 1] # NULL BY <2>2, <2>3
  <2>5. k - 1 = 2 BY <1>1, <2>2, <2>4
  <2> QED BY <1>5, <2>2, <2>3, <2>4, <2>5
<1>7. listed = 1 .. IF second = NULL THEN 1 ELSE 2
  <2>1. \A k \in S : k = 1 \/ k = 2 \/ k > 2 BY <1>1
  <2>2. 1 \in S /\ 2 \in S BY <1>1
  <2>3. \A k \in S : k \in listed <=> k = 1 \/ (k = 2 /\ second # NULL)
    BY <1>4, <1>5, <1>6, <2>1
  <2>4. listed \subseteq S BY <1>4
  <2> HIDE DEF listed, second
  <2>5. CASE second = NULL
    <3>1. listed = {1} BY <2>2, <2>3, <2>4, <2>5
    <3> QED BY <2>5, <3>1
  <2>6. CASE second # NULL
    <3>1. listed = {1, 2} BY <2>2, <2>3, <2>4, <2>6
    <3> QED BY <2>6, <3>1
  <2> QED BY <2>5, <2>6
<1>8. Chain(nodes, first) = [k \in 1 .. Cardinality(listed) |-> entry[k]]
  BY DEF Chain, entry, n
<1> HIDE DEF listed
<1>9. CASE second = NULL
  <2>1. Cardinality(listed) = 1
    <3>1. listed = 1 .. 1 BY <1>7, <1>9
    <3>2. \A m \in Nat : Cardinality(1 .. m) = m BY FS_Interval
    <3> QED BY <3>1, <3>2
  <2> QED BY <1>5, <1>8, <1>9, <2>1
<1>10. CASE second # NULL
  <2>1. Cardinality(listed) = 2
    <3>1. listed = 1 .. 2 BY <1>7, <1>10
    <3>2. \A m \in Nat : Cardinality(1 .. m) = m BY FS_Interval
    <3> QED BY <3>1, <3>2
  <2> QED BY <1>5, <1>8, <1>10, <2>1
<1> QED BY <1>9, <1>10

LEMMA MadeLists ==
  ASSUME NEW nodes, NEW made, NEW at, NodesOK(nodes, cell), TwoEntries(nodes),
         Others(nodes, made, at), at = NULL \/ at \notin DOMAIN nodes \cup DOMAIN cell,
         made[at].nxt = NULL,
         made[at].contents = NULL \/ made[at].contents \notin DOMAIN nodes \cup {at}
  PROVE  /\ TwoEntries(made) /\ (at # NULL => Unlisted(made, at))
         /\ \A nd \in DOMAIN nodes \ {NULL} : Unlisted(nodes, nd) => Unlisted(made, nd)
<1>1. \A a \in DOMAIN nodes : /\ nodes[a].nxt \in DOMAIN nodes \cup {NULL}
                             /\ nodes[a].contents \in DOMAIN nodes \cup DOMAIN cell \cup {NULL}
  BY DEF NodesOK
<1>2. \A a \in DOMAIN made : a # at => a \in DOMAIN nodes /\ made[a] = nodes[a]
  BY DEF Others
<1>3. TwoEntries(made)
  <2> SUFFICES ASSUME NEW a \in DOMAIN made, made[a].nxt # NULL
               PROVE  /\ made[made[a].nxt].nxt = NULL
                      /\ \A b \in DOMAIN made : made[b].contents # made[a].nxt
    BY DEF TwoEntries
  <2>1. a \in DOMAIN nodes /\ made[a] = nodes[a] BY <1>2
  <2> DEFINE d == made[a].nxt
  <2>2. d \in DOMAIN nodes \ {NULL} BY <1>1, <2>1
  <2>3. d # at BY <1>1, <2>2
  <2>4. made[d] = nodes[d] BY <2>2, <2>3 DEF Others
  <2>5. nodes[d].nxt = NULL /\ \A b \in DOMAIN nodes : nodes[b].contents # d
    BY <2>1 DEF TwoEntries
  <2>6. made[at].contents # d BY <2>2
  <2> QED BY <1>2, <2>4, <2>5, <2>6
<1>4. at # NULL => Unlisted(made, at)
  BY <1>1, <1>2 DEF Unlisted
<1>5. ASSUME NEW nd \in DOMAIN nodes \ {NULL}, Unlisted(nodes, nd) PROVE Unlisted(made, nd)
  <2>1. nd # at /\ made[nd] = nodes[nd] /\ made[at].contents # nd /\ made[at].nxt # nd
    BY DEF Others
  <2> QED BY <1>2, <1>5, <2>1 DEF Unlisted
<1> QED BY <1>3, <1>4, <1>5

LEMMA AddedLists ==
  ASSUME NEW nodes, NEW cells, NodesOK(nodes, cells), TwoEntries(nodes),
         NEW dir \in DOMAIN nodes, ~AddStrays(nodes, dir), NEW file \in DOMAIN nodes \cup {NULL},
         file # NULL => Unlisted(nodes, file)
  PROVE  LET nodes2 == add_dir(nodes, dir, file)
         IN  /\ TwoEntries(nodes2)
             /\ \A nd \in DOMAIN nodes \ {file} : Unlisted(nodes, nd) => Unlisted(nodes2, nd)
<1> DEFINE nodes2 == add_dir(nodes, dir, file)
           first == nodes[dir].contents
<1>1. /\ DOMAIN nodes2 = DOMAIN nodes
      /\ \A a \in DOMAIN nodes :
           /\ \/ nodes2[a].contents = nodes[a].contents
              \/ a = dir /\ first = NULL /\ nodes2[a].contents = file
           /\ \/ nodes2[a].nxt = nodes[a].nxt
              \/ a = first /\ a # NULL /\ nodes[a].nxt = NULL /\ nodes2[a].nxt = file
  BY AddDirKeeps
<1> HIDE DEF nodes2
<1>2. \A a \in DOMAIN nodes : nodes[a].nxt \in DOMAIN nodes \cup {NULL} BY DEF NodesOK
<1>3. TwoEntries(nodes2)
  <2> SUFFICES ASSUME NEW a \in DOMAIN nodes, nodes2[a].nxt # NULL
               PROVE  /\ nodes2[nodes2[a].nxt].nxt = NULL
                      /\ \A b \in DOMAIN nodes : nodes2[b].contents # nodes2[a].nxt
    BY <1>1 DEF TwoEntries
  <2>1. CASE nodes2[a].nxt = nodes[a].nxt
    <3> DEFINE d == nodes[a].nxt
    <3>1. /\ d # NULL /\ d \in DOMAIN nodes /\ nodes[d].nxt = NULL
          /\ \A b \in DOMAIN nodes : nodes[b].contents # d
      BY <1>2, <2>1 DEF TwoEntries
    <3>2. d # file BY <3>1 DEF Unlisted
    <3> HIDE DEF d
    <3>3. nodes2[d].nxt = NULL BY <1>1, <3>1
    <3>4. \A b \in DOMAIN nodes : nodes2[b].contents # d BY <1>1, <3>1, <3>2
    <3> QED BY <2>1, <3>3, <3>4 DEF d
  <2>2. CASE nodes2[a].nxt # nodes[a].nxt
    <3>1. a = first /\ a # NULL /\ nodes2[a].nxt = file BY <1>1, <2>2
    <3>2. file \in DOMAIN nodes /\ Unlisted(nodes, file) /\ nodes[file].nxt = NULL
      BY <3>1 DEF Unlisted
    <3>3. nodes2[file].nxt = NULL BY <1>1, <3>2 DEF Unlisted
    <3>4. \A b \in DOMAIN nodes : nodes2[b].contents # file BY <1>1, <3>1, <3>2 DEF Unlisted
    <3> QED BY <3>1, <3>3, <3>4
  <2> QED BY <2>1, <2>2
<1>4. ASSUME NEW nd \in DOMAIN nodes \ {file}, Unlisted(nodes, nd) PROVE Unlisted(nodes2, nd)
  BY <1>1, <1>4 DEF Unlisted
<1> QED BY <1>3, <1>4 DEF nodes2

(* What parse, init_fs and init_tarfs make is listed nowhere yet; add_dir   *)
(* lists it once.                                                           *)
LEMMA BootKeepsLists ==
  ASSUME FsInv, ListsOK, init_fs \/ init_tarfs
  PROVE  ListsOK'
<1>1. Store(node, cell, files) /\ memory \in 0 .. 2 /\ TwoEntries(node)
  BY DEF FsInv, StoreOK, ListsOK
<1>2. PICK g \in Grants(memory, Large, Fresh) :
        /\ Others(node, node', g.at) /\ node'[g.at].nxt = NULL /\ node'[g.at].contents = NULL
        /\ call'.op = "init_tarfs" \/ tar_root' = g.at
  <2>1. ASSUME NEW g \in Grants(memory, Large, Fresh), NEW name, NEW dir, NEW read,
               node' = make_file(node, g.at, name, dir, 0, NULL, read)
        PROVE  /\ Others(node, node', g.at) /\ node'[g.at].nxt = NULL
               /\ node'[g.at].contents = NULL
    BY <2>1 DEF make_file, At, Others
  <2>2. CASE init_fs BY <2>1, <2>2 DEF init_fs
  <2>3. CASE init_tarfs BY <2>1, <2>3 DEF init_tarfs
  <2> QED BY <2>2, <2>3
<1>3. g.at = NULL \/ g.at \notin DOMAIN node \cup DOMAIN cell
  BY <1>1, GrantIs, FreshIs DEF Store, Large
<1>4. NodesOK(node, cell) BY <1>1 DEF Store
<1>5. TwoEntries(node') /\ (g.at # NULL => Unlisted(node', g.at))
  BY <1>1, <1>2, <1>3, <1>4, MadeLists
<1> QED BY <1>2, <1>5 DEF ListsOK

LEMMA parse_KeepsLists ==
  ASSUME FsInv, ListsOK, parse
  PROVE  ListsOK'
<1>1. /\ archive \in Archives /\ memory \in 0 .. 2 /\ Store(node, cell, files)
      /\ tar_root \in DOMAIN node /\ ParseOK /\ call.op = "parse" /\ TwoEntries(node)
      /\ tar_root # NULL => Unlisted(node, tar_root)
  BY DEF FsInv, StoreOK, RootsOK, RunOK, parse, ListsOK
<1>2. tar_root' = tar_root BY DEF parse
<1>3. ASSUME node' = node PROVE ListsOK' BY <1>1, <1>2, <1>3 DEF ListsOK
<1>4. ASSUME NEW k \in Members, archive[k].at = call.address, call.i < MAX_RAMDISK_FILES,
             mkfile(archive[k].name, archive[k].size, Section(call.i))
      PROVE  ListsOK'
  <2>1. PICK s \in Grants(memory, Small, Fresh) : \E g \in Grants(s.able, Large, After(s.at)) :
          LET made == WithFile(k, s.at, g.at)
          IN  IF AddStrays(made, tar_root) THEN call' = Astray /\ node' = made
              ELSE node' = add_dir(made, tar_root, g.at)
    BY <1>4 DEF mkfile, WithFile, After
  <2>2. PICK g \in Grants(s.able, Large, After(s.at)) :
          LET made == WithFile(k, s.at, g.at)
          IN  IF AddStrays(made, tar_root) THEN call' = Astray /\ node' = made
              ELSE node' = add_dir(made, tar_root, g.at)
    BY <2>1
  <2>3. /\ s.at \in {NULL, Fresh} /\ g.at \in {NULL, After(s.at)} /\ (g.at # NULL => s.at # NULL)
    <3>1. (s.at = Fresh /\ s.able = memory) \/ (s.at = NULL /\ s.able = 0)
      BY <1>1, GrantIs DEF Small
    <3>2. (g.at = After(s.at) /\ s.able = Large) \/ g.at = NULL
      <4>1. s.able \in 0 .. 2 BY <1>1, <3>1
      <4> QED BY <4>1, GrantIs DEF Large
    <3>3. Fresh # NULL BY <1>1, FreshIs DEF Store, NULL
    <3> QED BY <3>1, <3>2, <3>3 DEF Large
  <2>4. PICK x, y : x = s.at /\ y = g.at OBVIOUS
  <2> DEFINE made == WithFile(k, x, y)
  <2>5. /\ IF AddStrays(made, tar_root) THEN call' = Astray /\ node' = made
           ELSE node' = add_dir(made, tar_root, y)
        /\ x \in {NULL, Fresh} /\ y \in {NULL, After(x)} /\ (y # NULL => x # NULL)
    BY <2>2, <2>3, <2>4
  <2>6. /\ NodesOK(made, At(cell, x, call.i)) /\ Others(node, made, y)
        /\ made[y].contents = x /\ made[y].nxt = NULL
    <3>1. call.i \in 0 .. MAX_RAMDISK_FILES - 1 /\ \A c \in DOMAIN cell : cell[c] < call.i
      BY <1>1, <1>4, FsSizes, ArchiveIs DEF ParseOK
    <3>2. made[y].nxt = NULL BY DEF WithFile, make_file, At
    <3> HIDE DEF made
    <3> QED BY <1>1, <2>5, <3>1, <3>2, FileStore DEF Store, made
  <2> HIDE DEF made
  <2>7. /\ Fresh \in Nat \ {NULL}
        /\ {Fresh, Fresh + 1} \cap (DOMAIN node \cup DOMAIN cell) = {}
        /\ NodesOK(node, cell)
    BY <1>1, FreshIs DEF Store, NULL
  <2>8. /\ y = NULL \/ y \notin DOMAIN node \cup DOMAIN cell
        /\ x = NULL \/ x \notin DOMAIN node \cup {y}
    BY <2>5, <2>7 DEF After
  <2>9. /\ TwoEntries(made) /\ (y # NULL => Unlisted(made, y))
        /\ tar_root # NULL => Unlisted(made, tar_root)
    BY <1>1, <2>6, <2>7, <2>8, MadeLists
  <2>10. CASE AddStrays(made, tar_root) BY <2>5, <2>9, <2>10 DEF ListsOK, Astray
  <2>11. CASE ~AddStrays(made, tar_root)
    <3>1. tar_root \in DOMAIN made /\ y \in DOMAIN made /\ (tar_root # NULL => tar_root # y)
      BY <1>1, <2>6, <2>8 DEF Others
    <3>2. node' = add_dir(made, tar_root, y) BY <2>5, <2>11
    <3>3. /\ TwoEntries(node')
          /\ \A nd \in DOMAIN made \ {y} : Unlisted(made, nd) => Unlisted(node', nd)
      BY <2>6, <2>9, <2>11, <3>1, <3>2, AddedLists
    <3> QED BY <1>2, <2>9, <3>1, <3>3 DEF ListsOK
  <2> QED BY <2>10, <2>11
<1> QED BY <1>3, <1>4 DEF parse

LEMMA load_mods_KeepsLists ==
  ASSUME FsInv, ListsOK, load_mods
  PROVE  ListsOK'
<1>1. /\ NodesOK(node, cell) /\ root \in DOMAIN node /\ tar_root \in DOMAIN node
      /\ tar_root # NULL => Unlisted(node, tar_root)
      /\ TwoEntries(node) /\ fs_mount(tar_root)
  BY DEF FsInv, StoreOK, Store, RootsOK, load_mods, ListsOK
<1>2. CASE AddStrays(node, root) BY <1>1, <1>2 DEF fs_mount, ListsOK, Astray
<1>3. CASE ~AddStrays(node, root)
  <2>1. call' = Idle /\ node' = add_dir(node, root, tar_root) BY <1>1, <1>3 DEF fs_mount
  <2>2. TwoEntries(node') BY <1>1, <1>3, <2>1, AddedLists
  <2> QED BY <2>1, <2>2 DEF ListsOK, Idle
<1> QED BY <1>2, <1>3

LEMMA MakeDirectory_KeepsLists ==
  ASSUME FsInv, ListsOK, call = Idle, NEW dir \in Directories, NEW name \in Names,
         MakeDirectory(dir, name)
  PROVE  ListsOK'
<1>1. /\ memory \in 0 .. 2 /\ Store(node, cell, files) /\ NodesOK(node, cell)
      /\ TwoEntries(node) /\ dir \in DOMAIN node /\ name \in Text
  BY FsSizes, TextIs DEF FsInv, StoreOK, Store, ListsOK, Directories
<1>2. PICK g \in Grants(memory, Large, Fresh) :
        LET made == make_file(node, g.at, name, TRUE, 0, NULL, "none")
        IN  IF g.at = NULL THEN node' = made /\ UNCHANGED call
            ELSE IF AddStrays(made, dir) THEN node' = made /\ call' = Astray
            ELSE node' = add_dir(made, dir, g.at) /\ UNCHANGED call
  BY DEF MakeDirectory
<1> DEFINE made == make_file(node, g.at, name, TRUE, 0, NULL, "none")
<1>3. g.at \in {NULL, Fresh} /\ (g.at = NULL \/ g.at \notin DOMAIN node \cup DOMAIN cell)
  BY <1>1, GrantIs, FreshIs DEF Store, Large
<1>4. Store(made, cell, files) /\ Others(node, made, g.at) /\ made[g.at].contents = NULL
  <2>1. PICK at \in {NULL, Fresh} : at = g.at BY <1>3
  <2>2. made = make_file(node, at, name, TRUE, 0, NULL, "none") BY <2>1
  <2> HIDE DEF made
  <2>3. PICK yes \in BOOLEAN : yes = TRUE OBVIOUS
  <2>4. made = make_file(node, at, name, yes, 0, NULL, "none") BY <2>2, <2>3
  <2>5. Store(node, cell, files) /\ name \in Text BY <1>1
  <2>6. Store(made, cell, files) /\ Others(node, made, at) /\ made[at].contents = NULL
    BY <2>4, <2>5, MadeStore
  <2> QED BY <2>1, <2>6
<1>5. made[g.at].nxt = NULL BY DEF make_file, At
<1>6. IF g.at = NULL THEN node' = made /\ UNCHANGED call
      ELSE IF AddStrays(made, dir) THEN node' = made /\ call' = Astray
      ELSE node' = add_dir(made, dir, g.at) /\ UNCHANGED call
  BY <1>2
<1> HIDE DEF made
<1>7. TwoEntries(made) /\ (g.at # NULL => Unlisted(made, g.at))
  BY <1>1, <1>3, <1>4, <1>5, MadeLists
<1>8. NodesOK(made, cell) /\ dir \in DOMAIN made /\ g.at \in DOMAIN made
  BY <1>1, <1>4 DEF Store, Others
<1>9. call'.op \in {"idle", "astray"} BY <1>6 DEF Idle, Astray
<1>10. CASE node' = made BY <1>7, <1>9, <1>10 DEF ListsOK
<1>11. CASE node' = add_dir(made, dir, g.at) /\ ~AddStrays(made, dir)
  BY <1>7, <1>8, <1>9, <1>11, AddedLists DEF ListsOK
<1> QED BY <1>6, <1>10, <1>11

LEMMA ListsStep ==
  ASSUME FsInv, ListsOK, [FsNext]_vars
  PROVE  ListsOK'
<1>1. ASSUME node' = node, tar_root' = tar_root,
             call'.op \in {"parse", "mount"} => call.op \in {"parse", "mount"}
      PROVE  ListsOK'
  BY <1>1 DEF ListsOK
<1>2. CASE Turn
  <2>1. Turn /\ UNCHANGED tree /\ call.op = "get_file"
        /\ call = [op |-> "get_file", asked |-> call.asked, tk |-> call.tk, rot |-> call.rot]
    BY <1>2 DEF Turn, FsInv, RunOK, Boot, Idle, Astray
  <2>2. call'.op \in {"idle", "astray", "get_file"}
    <3>1. CASE Descend
      <4>1. call' = [call EXCEPT !.tk = Token(buffer, left), !.rot = Here.contents]
        BY <3>1 DEF Descend
      <4> QED BY <2>1, <4>1
    <3>2. CASE NextEntry
      <4>1. call' = [call EXCEPT !.rot = Here.nxt] BY <3>2 DEF NextEntry
      <4> QED BY <2>1, <4>1
    <3>3. CASE Found \/ NotFound \/ GoAstray
      BY <3>3 DEF Found, NotFound, GoAstray, Answer, Idle, Astray
    <3> QED BY <2>1, <3>1, <3>2, <3>3 DEF Turn
  <2> QED BY <1>1, <2>1, <2>2 DEF tree
<1>3. CASE Caller
  <2>1. ASSUME NEW text, get_file(text) PROVE ListsOK'
    BY <1>1, <2>1 DEF get_file, tree
  <2>2. ASSUME NEW nd, fs_read(nd), call = Idle PROVE ListsOK'
    <3>1. call' = Idle \/ call' = Astray BY <2>2 DEF fs_read
    <3> QED BY <1>1, <2>2, <3>1 DEF fs_read, tree, Idle, Astray
  <2> QED BY <1>3, <2>1, <2>2, MakeDirectory_KeepsLists DEF Caller
<1>4. CASE UNCHANGED vars BY <1>1, <1>4 DEF vars, tree
<1> QED
  BY <1>2, <1>3, <1>4, BootKeepsLists, parse_KeepsLists, load_mods_KeepsLists
  DEF FsNext, Stray

(* The list behind a first entry, and what it may grow to.                  *)
Entries(nodes, first) ==
  IF nodes[first].nxt = NULL THEN <<first>> ELSE <<first, nodes[first].nxt>>
LEMMA EntriesAre ==
  ASSUME NEW nodes, NEW cells, NodesOK(nodes, cells), Dense(nodes, cells), TwoEntries(nodes),
         NEW first \in DOMAIN nodes \ {NULL}
  PROVE  Chain(nodes, first) = Entries(nodes, first)
<1>1. IsFiniteSet(DOMAIN nodes)
  <2>1. DOMAIN nodes \subseteq Used(nodes, cells) \cup {NULL} BY DEF Used
  <2>2. IsFiniteSet(Used(nodes, cells) \cup {NULL}) BY FS_AddElement DEF Dense
  <2> QED BY <2>1, <2>2, FS_Subset
<1>2. nodes[first].nxt # NULL => nodes[nodes[first].nxt].nxt = NULL BY DEF TwoEntries
<1> QED BY <1>1, <1>2, ChainIs DEF Entries

LEMMA ListsGrow ==
  /\ \A x : IsPrefix(<<>>, <<x>>) /\ IsPrefix(<<x>>, <<x>>)
  /\ \A x, y : /\ IsPrefix(<<>>, <<x, y>>) /\ IsPrefix(<<x>>, <<x, y>>)
              /\ IsPrefix(<<x, y>>, <<x, y>>)
  /\ IsPrefix(<<>>, <<>>)
BY DEF IsPrefix

(* add_dir never replaces an entry, in no directory: a list only grows.     *)
THEOREM EntriesAreKept == FsSpec => EntriesStay
<1>1. FsInit => ListsOK
  <2> SUFFICES ASSUME FsInit PROVE ListsOK OBVIOUS
  <2>1. DOMAIN node = {} /\ call.op = "init_fs" BY DEF FsInit
  <2> QED BY <2>1 DEF ListsOK, TwoEntries
<1>2. FsInv /\ ListsOK /\ [FsNext]_vars => ListsOK' BY ListsStep
<1>3. ASSUME FsInv, ListsOK, ListsOK', FsInv', Grown(node, node'),
             NEW nd \in DOMAIN node \ {NULL}
      PROVE  IsPrefix(Listing(nd), Listing(nd)')
  <2> DEFINE first == node[nd].contents
  <2>1. /\ NodesOK(node, cell) /\ Dense(node, cell) /\ TwoEntries(node)
        /\ NodesOK(node', cell') /\ Dense(node', cell') /\ TwoEntries(node')
    BY <1>3
    DEF FsInv, StoreOK, Store, ListsOK, TwoEntries, NodesOK, Nodes, Dense, Used, NULL
  <2>2. /\ Listing(nd) = IF IsTree(nd) THEN Chain(node, first) ELSE <<>>
        /\ IsTree(nd) <=> first # NULL /\ first \in DOMAIN node
        /\ Listing(nd)' = IF IsTree(nd)' THEN Chain(node', node'[nd].contents) ELSE <<>>
        /\ IsTree(nd)' <=> node'[nd].contents # NULL /\ node'[nd].contents \in DOMAIN node'
    BY DEF Listing, IsTree, NULL
  <2>3. CASE ~IsTree(nd)
    <3>1. CASE IsTree(nd)'
      <4>1. Listing(nd)' = Entries(node', node'[nd].contents) BY <2>1, <2>2, <3>1, EntriesAre
      <4> QED BY <2>2, <2>3, <4>1, ListsGrow DEF Entries
    <3>2. CASE ~IsTree(nd)' BY <2>2, <2>3, <3>2, ListsGrow
    <3> QED BY <3>1, <3>2
  <2>4. CASE IsTree(nd)
    <3>1. Listing(nd) = Entries(node, first) BY <2>1, <2>2, <2>4, EntriesAre
    <3>2. node'[nd].contents = first /\ first \in DOMAIN node' \ {NULL}
      BY <1>3, <2>2, <2>4 DEF Grown
    <3>3. Listing(nd)' = Entries(node', first) BY <2>1, <2>2, <3>2, EntriesAre
    <3>4. node[first].nxt # NULL => node'[first].nxt = node[first].nxt
      BY <1>3, <2>2, <2>4 DEF Grown
    <3> QED BY <3>1, <3>3, <3>4, ListsGrow DEF Entries
  <2> QED BY <2>3, <2>4
<1>4. FsInv /\ ListsOK /\ FsInv' /\ ListsOK' /\ [FsNext]_vars
      => [\A nd \in DOMAIN node \ {NULL} : IsPrefix(Listing(nd), Listing(nd)')]_vars
  BY <1>3, FsStep
<1> QED BY FsInvariance, <1>1, <1>2, <1>4, PTL DEF FsSpec, EntriesStay
-----------------------------------------------------------------------------
(* What the reference for get_file, Resolve, says in any tree: the lists   *)
(* have at most two entries, and the walk goes from token to token.        *)
Lists(nodes, nd) ==
  IF nodes[nd].contents # NULL /\ nodes[nd].contents \in DOMAIN nodes
  THEN Chain(nodes, nodes[nd].contents) ELSE <<>>
Matching(nodes, entries, token) ==
  {k \in DOMAIN entries : IsPrefix(token, nodes[entries[k]].name)}
StepIn(nodes, nd, token) ==
  CASE token = <<>> -> nodes[nd].contents
    [] token # <<>> /\ ~(nodes[nd].contents # NULL /\ nodes[nd].contents \in DOMAIN nodes)
         -> Absent
    [] OTHER -> IF Matching(nodes, Lists(nodes, nd), token) = {} THEN NULL
                ELSE Lists(nodes, nd)[Min(Matching(nodes, Lists(nodes, nd), token))]
Places(nodes, path) == [nd : DOMAIN nodes, place : 1 .. Len(path) + 1]
WalkTurn(f, nodes, path, at) ==
  IF \/ StepIn(nodes, at.nd, TokenAt(path, at.place)) \notin DOMAIN nodes
     \/ Stops(path, at.place) > Len(path)
  THEN StepIn(nodes, at.nd, TokenAt(path, at.place))
  ELSE f[[nd |-> StepIn(nodes, at.nd, TokenAt(path, at.place)),
          place |-> Stops(path, at.place) + 1]]
WalkIn(nodes, path) ==
  CHOOSE f : f = [at \in Places(nodes, path) |-> WalkTurn(f, nodes, path, at)]

LEMMA StepIsStepIn == \A nd, token : Step(nd, token) = StepIn(node, nd, token)
<1> TAKE nd, token
<1>1. Listing(nd) = Lists(node, nd) BY DEF Listing, IsTree, Lists
<1> QED BY <1>1 DEF Step, StepIn, IsTree, Matching

LEMMA ResolveIsWalk ==
  ASSUME NEW path
  PROVE  Resolve(path) = WalkIn(node, path)[[nd |-> root, place |-> 1]]
<1> DEFINE W(f) == [at \in [nd : DOMAIN node, place : 1 .. Len(path) + 1] |->
                      LET found == Step(at.nd, TokenAt(path, at.place))
                          stop == Stops(path, at.place)
                      IN  IF found \notin DOMAIN node \/ stop > Len(path) THEN found
                          ELSE f[[nd |-> found, place |-> stop + 1]]]
           V(f) == [at \in Places(node, path) |-> WalkTurn(f, node, path, at)]
<1>1. Resolve(path) = (CHOOSE f : f = W(f))[[nd |-> root, place |-> 1]] BY DEF Resolve
<1>2. \A f : W(f) = V(f) BY StepIsStepIn DEF Places, WalkTurn
<1>3. WalkIn(node, path) = CHOOSE f : f = V(f) BY DEF WalkIn
<1> HIDE DEF W, V
<1>4. \A f : f = W(f) <=> f = V(f) BY <1>2
<1>5. (CHOOSE f : f = W(f)) = (CHOOSE f : f = V(f)) BY <1>4
<1> QED BY <1>1, <1>3, <1>5

(* Where tokens begin and stop. *)
LEMMA MinIs ==
  ASSUME NEW S \in SUBSET Nat, S # {}
  PROVE  Min(S) \in S /\ \A y \in S : Min(S) <= y
BY LeastExists DEF Min

LEMMA StopsIs ==
  ASSUME NEW path, Len(path) \in Nat, NEW j \in 1 .. Len(path) + 1
  PROVE  /\ Begins(path, j) \in j .. Len(path) + 1
         /\ Stops(path, j) \in Begins(path, j) .. Len(path) + 1
         /\ Begins(path, j) <= Len(path) => path[Begins(path, j)] # Slash
         /\ \A k \in j .. Begins(path, j) - 1 : path[k] = Slash
         /\ Stops(path, j) <= Len(path) => path[Stops(path, j)] = Slash
         /\ \A k \in Begins(path, j) .. Stops(path, j) - 1 : path[k] # Slash
<1> DEFINE n == Len(path)
           B == {k \in j .. n : path[k] # Slash} \cup {n + 1}
           b == Begins(path, j)
           E == {k \in b .. n : path[k] = Slash} \cup {n + 1}
           e == Stops(path, j)
<1>1. n \in Nat /\ j \in Nat /\ 1 <= j /\ j <= n + 1 OBVIOUS
<1>2. b = Min(B) /\ e = Min(E) BY DEF Begins, Stops
<1>3. /\ \A k : k \in B <=> (k \in j .. n /\ path[k] # Slash) \/ k = n + 1
      /\ \A k : k \in E <=> (k \in b .. n /\ path[k] = Slash) \/ k = n + 1
  OBVIOUS
<1> HIDE DEF n, B, b, E, e
<1>4. B \in SUBSET Nat /\ B # {}
  <2>1. \A k \in B : k \in Nat BY <1>1, <1>3
  <2> QED BY <1>3, <2>1
<1>5. b \in B /\ \A y \in B : b <= y BY <1>2, <1>4, MinIs
<1>6. b \in j .. n + 1 BY <1>1, <1>3, <1>5
<1>7. E \in SUBSET Nat /\ E # {}
  <2>1. \A k \in E : k \in Nat BY <1>1, <1>3, <1>6
  <2> QED BY <1>3, <2>1
<1>8. e \in E /\ \A y \in E : e <= y BY <1>2, <1>7, MinIs
<1>9. e \in b .. n + 1 BY <1>1, <1>3, <1>6, <1>8
<1>10. b <= n => path[b] # Slash BY <1>1, <1>3, <1>5
<1>11. e <= n => path[e] = Slash BY <1>1, <1>3, <1>8
<1>12. \A k \in j .. b - 1 : path[k] = Slash
  <2> SUFFICES ASSUME NEW k \in j .. b - 1, path[k] # Slash PROVE FALSE OBVIOUS
  <2>1. k \in j .. n /\ k < b BY <1>1, <1>6
  <2>2. k \in B BY <1>3, <2>1
  <2> QED BY <1>5, <1>6, <2>1, <2>2
<1>13. \A k \in b .. e - 1 : path[k] # Slash
  <2> SUFFICES ASSUME NEW k \in b .. e - 1, path[k] = Slash PROVE FALSE OBVIOUS
  <2>1. k \in b .. n /\ k < e BY <1>1, <1>6, <1>9
  <2>2. k \in E BY <1>3, <2>1
  <2> QED BY <1>8, <1>9, <1>6, <2>1, <2>2
<1> QED BY <1>6, <1>9, <1>10, <1>11, <1>12, <1>13 DEF n, b, e

(* The recursive function of the walk exists: every token stops behind the *)
(* one before.                                                             *)
LEMMA WalkExists ==
  ASSUME NEW nodes, NEW path, Len(path) \in Nat
  PROVE  LET f == WalkIn(nodes, path)
         IN  f = [at \in Places(nodes, path) |-> WalkTurn(f, nodes, path, at)]
<1> DEFINE N == Len(path) + 1
           Is(f) == f = [at \in Places(nodes, path) |-> WalkTurn(f, nodes, path, at)]
           Ends(f, n) == f = [at \in Places(nodes, path) |->
                                IF at.place + n > N THEN WalkTurn(f, nodes, path, at) ELSE 0]
           Without == {n \in 0 .. N : ~ \E f : Ends(f, n)}
<1>1. N \in Nat OBVIOUS
<1>2. \A at \in Places(nodes, path) :
        at.place \in 1 .. N /\ at = [nd |-> at.nd, place |-> at.place] /\ at.nd \in DOMAIN nodes
  BY DEF Places
<1>3. ASSUME NEW f, NEW g, NEW at \in Places(nodes, path),
             \A to \in Places(nodes, path) : to.place > at.place => g[to] = f[to]
      PROVE  WalkTurn(g, nodes, path, at) = WalkTurn(f, nodes, path, at)
  <2> DEFINE found == StepIn(nodes, at.nd, TokenAt(path, at.place))
             stop == Stops(path, at.place)
             to == [nd |-> found, place |-> stop + 1]
  <2>1. stop \in Nat /\ stop >= at.place /\ at.place \in Nat
    <3>1. at.place \in 1 .. Len(path) + 1 BY <1>2
    <3>2. stop \in Begins(path, at.place) .. Len(path) + 1
          /\ Begins(path, at.place) \in at.place .. Len(path) + 1
      BY <3>1, StopsIs
    <3> HIDE DEF stop
    <3> QED BY <3>1, <3>2
  <2>2. WalkTurn(g, nodes, path, at) = IF found \notin DOMAIN nodes \/ stop > Len(path)
                                       THEN found ELSE g[to]
    BY DEF WalkTurn
  <2>3. WalkTurn(f, nodes, path, at) = IF found \notin DOMAIN nodes \/ stop > Len(path)
                                       THEN found ELSE f[to]
    BY DEF WalkTurn
  <2> HIDE DEF found, stop
  <2>4. ASSUME found \in DOMAIN nodes, ~(stop > Len(path)) PROVE g[to] = f[to]
    <3>1. to \in Places(nodes, path) /\ to.place > at.place BY <2>1, <2>4 DEF Places
    <3> QED BY <1>3, <3>1
  <2> HIDE DEF to
  <2> QED BY <2>2, <2>3, <2>4
<1>4. ASSUME Without # {} PROVE FALSE
  <2>1. PICK n \in Without : \A y \in Without : n <= y
    <3>1. Without \in SUBSET Nat BY <1>1
    <3> HIDE DEF Without
    <3> QED BY <1>4, <3>1, LeastExists
  <2>2. n \in 0 .. N /\ n \in Nat /\ ~ \E f : Ends(f, n) BY <2>1, <1>1
  <2>3. CASE n = 0
    <3> DEFINE f == [at \in Places(nodes, path) |-> 0]
    <3>1. \A at \in Places(nodes, path) : ~(at.place + 0 > N) BY <1>1, <1>2
    <3>2. Ends(f, 0) BY <3>1
    <3> HIDE DEF f, Ends
    <3> QED BY <2>2, <2>3, <3>2
  <2>4. CASE n # 0
    <3>1. n - 1 \in 0 .. N /\ n - 1 < n BY <2>2, <2>4
    <3>2. n - 1 \notin Without
      <4>1. n \in Int /\ n - 1 \in Int BY <2>2
      <4> HIDE DEF Without
      <4> QED BY <2>1, <3>1, <4>1
    <3>3. PICK f : Ends(f, n - 1)
      <4> HIDE DEF Ends
      <4> QED BY <3>1, <3>2
    <3> DEFINE g == [at \in Places(nodes, path) |->
                       IF at.place + n > N THEN WalkTurn(f, nodes, path, at) ELSE 0]
    <3>4. ASSUME NEW at \in Places(nodes, path), NEW to \in Places(nodes, path),
                 to.place > at.place, at.place + n > N
          PROVE  g[to] = f[to]
      <4>1. to.place + n > N /\ to.place + (n - 1) > N BY <1>1, <1>2, <2>2, <3>4
      <4>2. g[to] = WalkTurn(f, nodes, path, to) BY <4>1
      <4>3. f[to] = WalkTurn(f, nodes, path, to) BY <3>3, <4>1
      <4> QED BY <4>2, <4>3
    <3>5. ASSUME NEW at \in Places(nodes, path), at.place + n > N
          PROVE  WalkTurn(g, nodes, path, at) = WalkTurn(f, nodes, path, at)
      <4>1. \A to \in Places(nodes, path) : to.place > at.place => g[to] = f[to] BY <3>4, <3>5
      <4> HIDE DEF g
      <4> QED BY <1>3, <4>1
    <3>6. Ends(g, n)
      <4>1. g = [at \in Places(nodes, path) |-> g[at]] OBVIOUS
      <4>2. \A at \in Places(nodes, path) :
              g[at] = IF at.place + n > N THEN WalkTurn(f, nodes, path, at) ELSE 0
        OBVIOUS
      <4> HIDE DEF g, N
      <4>3. \A at \in Places(nodes, path) :
              g[at] = IF at.place + n > N THEN WalkTurn(g, nodes, path, at) ELSE 0
        BY <3>5, <4>2
      <4> QED BY <4>1, <4>3
    <3> HIDE DEF Ends
    <3> QED BY <2>2, <3>6
  <2> QED BY <2>3, <2>4
<1>5. PICK f : Ends(f, N)
  <2>1. N \in 0 .. N BY <1>1
  <2> HIDE DEF Ends
  <2> QED BY <1>4, <2>1
<1>6. Is(f)
  <2>1. \A at \in Places(nodes, path) : at.place + N > N BY <1>1, <1>2
  <2> HIDE DEF N
  <2> QED BY <1>5, <2>1
<1>7. WalkIn(nodes, path) = CHOOSE h : Is(h) BY DEF WalkIn
<1> HIDE DEF Is
<1>8. Is(WalkIn(nodes, path)) BY <1>6, <1>7
<1> QED BY <1>8 DEF Is

(* What a directory's list is searched for: rot is its first entry, or the *)
(* second when the first did not match.                                    *)
Selected(nodes, rot, token) ==
  IF token = <<>> THEN rot
  ELSE IF rot \notin DOMAIN nodes THEN Absent
  ELSE IF IsPrefix(token, nodes[rot].name) THEN rot
  ELSE IF nodes[rot].nxt = NULL \/ ~IsPrefix(token, nodes[nodes[rot].nxt].name) THEN NULL
  ELSE nodes[rot].nxt

LEMMA StepSelects ==
  ASSUME NEW nodes, NEW cells, NodesOK(nodes, cells), Dense(nodes, cells), TwoEntries(nodes),
         NULL \notin DOMAIN nodes, NEW nd \in DOMAIN nodes, NEW token
  PROVE  StepIn(nodes, nd, token) = Selected(nodes, nodes[nd].contents, token)
<1> DEFINE first == nodes[nd].contents
           second == nodes[first].nxt
           entries == Lists(nodes, nd)
           M == Matching(nodes, entries, token)
<1>1. CASE token = <<>> BY <1>1 DEF StepIn, Selected
<1>2. CASE token # <<>> /\ first \notin DOMAIN nodes BY <1>2 DEF StepIn, Selected
<1>3. CASE token # <<>> /\ first \in DOMAIN nodes
  <2>1. first \in DOMAIN nodes \ {NULL} BY <1>3
  <2>2. entries = IF second = NULL THEN <<first>> ELSE <<first, second>>
    BY <2>1, EntriesAre DEF Lists, Entries
  <2>3. StepIn(nodes, nd, token) = IF M = {} THEN NULL ELSE entries[Min(M)]
    BY <1>3, <2>1 DEF StepIn
  <2>4. \A k : k \in M <=> k \in DOMAIN entries /\ IsPrefix(token, nodes[entries[k]].name)
    BY DEF Matching
  <2>5. Selected(nodes, first, token) =
          IF IsPrefix(token, nodes[first].name) THEN first
          ELSE IF second = NULL \/ ~IsPrefix(token, nodes[second].name) THEN NULL
          ELSE second
    BY <1>3 DEF Selected
  <2> HIDE DEF entries, M, first, second
  <2>6. /\ DOMAIN entries = IF second = NULL THEN {1} ELSE {1, 2}
        /\ entries[1] = first /\ (second # NULL => entries[2] = second)
    <3>1. CASE second = NULL BY <2>2, <3>1
    <3>2. CASE second # NULL BY <2>2, <3>2
    <3> QED BY <3>1, <3>2
  <2>7. M \in SUBSET Nat BY <2>4, <2>6
  <2>8. ASSUME IsPrefix(token, nodes[first].name)
        PROVE  StepIn(nodes, nd, token) = Selected(nodes, first, token)
    <3>1. 1 \in M BY <2>4, <2>6, <2>8
    <3>2. Min(M) \in M /\ Min(M) <= 1 BY <2>7, <3>1, MinIs
    <3>3. Min(M) = 1 BY <2>4, <2>6, <3>2
    <3> QED BY <2>3, <2>5, <2>6, <2>8, <3>1, <3>3
  <2>9. ASSUME ~IsPrefix(token, nodes[first].name), second # NULL,
               IsPrefix(token, nodes[second].name)
        PROVE  StepIn(nodes, nd, token) = Selected(nodes, first, token)
    <3>1. M = {2} BY <2>4, <2>6, <2>9
    <3>2. Min(M) = 2 BY <2>7, <3>1, MinIs
    <3> QED BY <2>3, <2>5, <2>6, <2>9, <3>1, <3>2
  <2>10. ASSUME ~IsPrefix(token, nodes[first].name),
                second = NULL \/ ~IsPrefix(token, nodes[second].name)
         PROVE  StepIn(nodes, nd, token) = Selected(nodes, first, token)
    <3>1. M = {} BY <2>4, <2>6, <2>10
    <3> QED BY <2>3, <2>5, <2>10, <3>1
  <2> QED BY <2>8, <2>9, <2>10 DEF first
<1> QED BY <1>1, <1>2, <1>3

(* What the walk gives that has found a node and has the path from place   *)
(* left on to go, or none.                                                 *)
Onward(nodes, path, found, place) ==
  IF found \notin DOMAIN nodes \/ place = NULL THEN found
  ELSE WalkIn(nodes, path)[[nd |-> found, place |-> place]]
Resume(path, j) == IF Stops(path, j) > Len(path) THEN NULL ELSE Stops(path, j) + 1

LEMMA WalkGoes ==
  ASSUME NEW nodes, NEW cells, NodesOK(nodes, cells), Dense(nodes, cells), TwoEntries(nodes),
         NULL \notin DOMAIN nodes, NEW path, Len(path) \in Nat,
         NEW nd \in DOMAIN nodes, NEW j \in 1 .. Len(path) + 1
  PROVE  WalkIn(nodes, path)[[nd |-> nd, place |-> j]] =
           Onward(nodes, path, Selected(nodes, nodes[nd].contents, TokenAt(path, j)),
                  Resume(path, j))
<1> DEFINE f == WalkIn(nodes, path)
           at == [nd |-> nd, place |-> j]
           found == StepIn(nodes, nd, TokenAt(path, j))
           stop == Stops(path, j)
<1>1. at \in Places(nodes, path) /\ at.nd = nd /\ at.place = j BY DEF Places
<1>2. f = [x \in Places(nodes, path) |-> WalkTurn(f, nodes, path, x)] BY WalkExists
<1> HIDE DEF f
<1>3. f[at] = WalkTurn(f, nodes, path, at) BY <1>1, <1>2
<1>4. f[at] = IF found \notin DOMAIN nodes \/ stop > Len(path) THEN found
              ELSE f[[nd |-> found, place |-> stop + 1]]
  BY <1>1, <1>3 DEF WalkTurn
<1>5. found = Selected(nodes, nodes[nd].contents, TokenAt(path, j)) BY StepSelects
<1>6. stop \in Nat
  <2>1. stop \in Begins(path, j) .. Len(path) + 1 /\ Begins(path, j) \in j .. Len(path) + 1
    BY StopsIs
  <2> HIDE DEF stop
  <2> QED BY <2>1
<1>7. Resume(path, j) = IF stop > Len(path) THEN NULL ELSE stop + 1 BY DEF Resume
<1> HIDE DEF found, stop, at
<1>8. stop + 1 # NULL BY <1>6, FsSizes
<1>9. f[at] = IF found \notin DOMAIN nodes \/ Resume(path, j) = NULL THEN found
              ELSE f[[nd |-> found, place |-> Resume(path, j)]]
  BY <1>4, <1>7, <1>8
<1> QED BY <1>5, <1>9 DEF Onward, f, at

(* The buffer still spells the path from a place on.                       *)
Spells(text, path, j) ==
  /\ Terminated(text) /\ path \in Text /\ Len(path) + 1 \in 1 .. Len(text)
  /\ j \in 1 .. Len(path) + 1 /\ text[Len(path) + 1] = NUL
  /\ \A k \in j .. Len(path) : text[k] = path[k] /\ path[k] # NUL

LEMMA FirstIsLeast ==
  ASSUME NEW text, NEW from \in Nat, NEW chars, Len(text) \in Nat,
         NEW e \in from .. Len(text), text[e] \in chars,
         \A k \in from .. e - 1 : text[k] \notin chars
  PROVE  First(text, from, chars) = e
<1> DEFINE P(j) == text[j] \in chars /\ \A k \in from .. j - 1 : text[k] \notin chars
<1>1. P(e) OBVIOUS
<1>2. \A j \in from .. Len(text) : P(j) => j = e
  <2> TAKE j \in from .. Len(text)
  <2> HAVE P(j)
  <2>1. ~(j < e)
    <3>1. j < e => j \in from .. e - 1 OBVIOUS
    <3> QED BY <3>1
  <2>2. ~(e < j)
    <3>1. e < j => e \in from .. j - 1 OBVIOUS
    <3> QED BY <3>1
  <2> QED BY <2>1, <2>2
<1>3. First(text, from, chars) = CHOOSE j \in from .. Len(text) : P(j) BY DEF First
<1> HIDE DEF P
<1> QED BY <1>1, <1>2, <1>3

LEMMA SameSubSeq ==
  ASSUME NEW S, NEW s, NEW t, NEW m \in Int, NEW n \in Int,
         \A i \in m .. n : t[i] \in S /\ s[i] = t[i]
  PROVE  SubSeq(s, m, n) = SubSeq(t, m, n)
<1>1. /\ SubSeq(s, m, n) \in Seq(S) /\ SubSeq(t, m, n) \in Seq(S)
      /\ Len(SubSeq(s, m, n)) = Len(SubSeq(t, m, n))
      /\ Len(SubSeq(s, m, n)) = IF m <= n THEN n - m + 1 ELSE 0
      /\ \A i \in 1 .. n - m + 1 : SubSeq(s, m, n)[i] = s[m + i - 1]
      /\ \A i \in 1 .. n - m + 1 : SubSeq(t, m, n)[i] = t[m + i - 1]
  <2>1. \A i \in m .. n : s[i] \in S /\ t[i] \in S OBVIOUS
  <2> QED BY <2>1, SubSeqProperties
<1>2. \A i \in 1 .. n - m + 1 : m + i - 1 \in m .. n OBVIOUS
<1>3. \A i \in 1 .. Len(SubSeq(s, m, n)) : i \in 1 .. n - m + 1 BY <1>1
<1>4. \A i \in 1 .. Len(SubSeq(s, m, n)) : SubSeq(s, m, n)[i] = SubSeq(t, m, n)[i]
  BY <1>1, <1>2, <1>3
<1> QED BY <1>1, <1>4, SeqEqual

(* strtok takes the next token of the path, and leaves the rest as it was. *)
LEMMA StrtokSpells ==
  ASSUME NEW text, NEW path, NEW j, Spells(text, path, j), strtok(text, j)
  PROVE  /\ Token(text, j) = TokenAt(path, j)
         /\ left' = Resume(path, j)
         /\ Token(text, j) = <<>> => left' = NULL
         /\ left' # NULL => Spells(buffer', path, left')
<1> DEFINE n == Len(path)
           b == Begins(path, j)
           e == Stops(path, j)
<1>1. /\ text \in Text /\ Len(text) \in Nat /\ text \in [1 .. Len(text) -> Char]
      /\ path \in Text /\ n \in Nat /\ path \in [1 .. n -> Char] /\ DOMAIN path = 1 .. n
      /\ n + 1 \in 1 .. Len(text) /\ j \in 1 .. n + 1 /\ text[n + 1] = NUL
      /\ \A k \in j .. n : text[k] = path[k] /\ path[k] # NUL
  BY LenProperties DEF Spells, Terminated, Text
<1>2. /\ b \in j .. n + 1 /\ e \in b .. n + 1
      /\ b <= n => path[b] # Slash
      /\ \A k \in j .. b - 1 : path[k] = Slash
      /\ e <= n => path[e] = Slash
      /\ \A k \in b .. e - 1 : path[k] # Slash
  BY <1>1, StopsIs
<1>3. NUL # Slash BY DEF NUL, Slash
<1>4. Token(text, j) = SubSeq(text, TokenStart(text, j), TokenEnd(text, j) - 1)
      /\ TokenAt(path, j) = SubSeq(path, b, e - 1)
  BY DEF Token, TokenAt
<1>5. Resume(path, j) = IF e > n THEN NULL ELSE e + 1 BY DEF Resume
<1> HIDE DEF n, b, e
<1>6. TokenStart(text, j) = b
  <2> DEFINE others == ToSet(text) \ {Slash}
  <2>1. b \in j .. Len(text) /\ j \in Nat BY <1>1, <1>2
  <2>2. text[b] \in others
    <3>1. text[b] # Slash
      <4>1. CASE b <= n BY <1>1, <1>2, <4>1
      <4>2. CASE ~(b <= n)
        <5>1. b = n + 1 BY <1>1, <1>2, <4>2
        <5> QED BY <1>1, <1>3, <5>1
      <4> QED BY <4>1, <4>2
    <3>2. b \in DOMAIN text BY <1>1, <2>1
    <3> QED BY <3>1, <3>2 DEF ToSet
  <2>3. \A k \in j .. b - 1 : text[k] \notin others
    <3> TAKE k \in j .. b - 1
    <3>1. k \in j .. n BY <1>1, <1>2
    <3> QED BY <1>1, <1>2, <3>1
  <2>4. TokenStart(text, j) = First(text, j, others) BY DEF TokenStart
  <2> HIDE DEF others
  <2> QED BY <1>1, <2>1, <2>2, <2>3, <2>4, FirstIsLeast
<1>7. TokenEnd(text, j) = e
  <2> DEFINE ends == {Slash, NUL}
  <2>1. e \in b .. Len(text) /\ b \in Nat BY <1>1, <1>2
  <2>2. text[e] \in ends
    <3>1. CASE e <= n
      <4>1. e \in j .. n BY <1>1, <1>2, <3>1
      <4> QED BY <1>1, <1>2, <3>1, <4>1
    <3>2. CASE ~(e <= n)
      <4>1. e = n + 1 BY <1>1, <1>2, <3>2
      <4> QED BY <1>1, <4>1
    <3> QED BY <3>1, <3>2
  <2>3. \A k \in b .. e - 1 : text[k] \notin ends
    <3> TAKE k \in b .. e - 1
    <3>1. k \in j .. n BY <1>1, <1>2
    <3> QED BY <1>1, <1>2, <3>1
  <2>4. TokenEnd(text, j) = First(text, b, ends) BY <1>6 DEF TokenEnd
  <2> HIDE DEF ends
  <2> QED BY <1>1, <2>1, <2>2, <2>3, <2>4, FirstIsLeast
<1>8. SubSeq(text, b, e - 1) = SubSeq(path, b, e - 1)
  <2>1. \A k \in b .. e - 1 : path[k] \in Char /\ text[k] = path[k]
    <3> TAKE k \in b .. e - 1
    <3>1. k \in j .. n /\ k \in 1 .. n BY <1>1, <1>2
    <3> QED BY <1>1, <3>1
  <2>2. b \in Int /\ e - 1 \in Int BY <1>1, <1>2
  <2> QED BY <2>1, <2>2, SameSubSeq
<1>9. left' = Left(text, e) /\ buffer' = [text EXCEPT ![e] = NUL] BY <1>7 DEF strtok
<1>10. left' = IF e > n THEN NULL ELSE e + 1
  <2>1. CASE e > n
    <3>1. e = n + 1 BY <1>1, <1>2, <2>1
    <3> QED BY <1>1, <1>3, <1>9, <2>1, <3>1 DEF Left
  <2>2. CASE ~(e > n)
    <3>1. e \in j .. n BY <1>1, <1>2, <2>2
    <3>2. text[e] = Slash BY <1>1, <1>2, <2>2, <3>1
    <3>3. left' = e + 1 BY <1>9, <3>2 DEF Left
    <3> QED BY <2>2, <3>3
  <2> QED BY <2>1, <2>2
<1>11. Token(text, j) = <<>> => left' = NULL
  <2> SUFFICES ASSUME Token(text, j) = <<>>, ~(e > n) PROVE FALSE BY <1>10
  <2>1. b < e BY <1>1, <1>2
  <2>2. Len(SubSeq(path, b, e - 1)) = e - b
    <3>1. b \in 1 .. n + 1 /\ e - 1 \in b - 1 .. n BY <1>1, <1>2
    <3> QED BY <1>1, <1>2, <2>1, <3>1
  <2>3. Len(<<>>) = 0 BY EmptySeq
  <2>4. SubSeq(path, b, e - 1) = <<>> BY <1>4, <1>6, <1>7, <1>8
  <2>5. e - b = 0 BY <2>2, <2>3, <2>4
  <2> QED BY <1>1, <1>2, <2>1, <2>5
<1>12. ASSUME left' # NULL PROVE Spells(buffer', path, left')
  <2>1. left' = e + 1 /\ e <= n BY <1>1, <1>2, <1>10, <1>12
  <2>2. j \in 1 .. Len(text) BY <1>1
  <2>3. Terminated(buffer') BY <2>2, StrtokStays DEF Spells
  <2>4. \A k \in e + 1 .. n + 1 : buffer'[k] = text[k]
    <3> TAKE k \in e + 1 .. n + 1
    <3>1. k \in 1 .. Len(text) /\ k # e BY <1>1, <1>2
    <3> QED BY <1>1, <1>9, <3>1
  <2>5. Len(buffer') = Len(text)
    <3>1. DOMAIN buffer' = 1 .. Len(text) BY <1>1, <1>9
    <3>2. buffer' \in Text BY <2>3 DEF Terminated
    <3>3. DOMAIN buffer' = 1 .. Len(buffer') /\ Len(buffer') \in Nat
      BY <3>2, LenProperties DEF Text
    <3> QED BY <1>1, <3>1, <3>3
  <2>6. e + 1 \in 1 .. n + 1 /\ n + 1 \in e + 1 .. n + 1 BY <1>1, <1>2, <2>1
  <2>7. \A k \in e + 1 .. n : buffer'[k] = path[k] /\ path[k] # NUL
    <3> TAKE k \in e + 1 .. n
    <3>1. k \in j .. n /\ k \in e + 1 .. n + 1 BY <1>1, <1>2
    <3> QED BY <1>1, <2>4, <3>1
  <2> QED BY <1>1, <2>1, <2>3, <2>4, <2>5, <2>6, <2>7 DEF Spells, n
<1> QED BY <1>4, <1>5, <1>6, <1>7, <1>8, <1>10, <1>11, <1>12

(* A buffer spells what it holds before its first NUL. *)
LEMMA CStringSpells ==
  ASSUME NEW text, Terminated(text)
  PROVE  Spells(text, CString(text), 1)
<1> DEFINE z == First(text, 1, {NUL})
           path == CString(text)
<1>1. /\ text \in Text /\ Len(text) \in Nat /\ Len(text) # 0 /\ text[Len(text)] = NUL
      /\ DOMAIN text = 1 .. Len(text) /\ text \in [1 .. Len(text) -> Char]
  BY LenProperties, EmptySeq DEF Terminated, Text
<1>2. Len(text) \in 1 .. Len(text) BY <1>1
<1> DEFINE S == {k \in 1 .. Len(text) : text[k] = NUL}
<1>3. PICK x \in S : \A y \in S : x <= y
  <2>1. S \in SUBSET Nat /\ S # {} BY <1>1, <1>2
  <2> HIDE DEF S
  <2> QED BY <2>1, LeastExists
<1>4. /\ x \in 1 .. Len(text) /\ text[x] = NUL
      /\ \A k \in 1 .. x - 1 : text[k] # NUL
  <2>1. x \in 1 .. Len(text) /\ text[x] = NUL BY <1>3
  <2>2. ASSUME NEW k \in 1 .. x - 1, text[k] = NUL PROVE FALSE
    <3>1. k \in S /\ k < x BY <1>1, <2>1, <2>2
    <3> HIDE DEF S
    <3> QED BY <1>3, <2>1, <2>2, <3>1
  <2> QED BY <2>1, <2>2
<1>5. z = x
  <2>1. text[x] \in {NUL} /\ \A k \in 1 .. x - 1 : text[k] \notin {NUL} BY <1>4
  <2> DEFINE ends == {NUL}
  <2> HIDE DEF ends
  <2>2. text[x] \in ends /\ \A k \in 1 .. x - 1 : text[k] \notin ends BY <2>1 DEF ends
  <2>3. First(text, 1, ends) = x BY <1>1, <1>4, <2>2, FirstIsLeast
  <2> QED BY <2>3 DEF ends
<1>6. path = SubSeq(text, 1, x - 1) BY <1>5 DEF CString
<1> HIDE DEF path, z, S
<1>7. path \in Text /\ Len(path) = x - 1 /\ \A k \in 1 .. x - 1 : path[k] = text[k]
  <2>1. x - 1 \in Nat /\ x - 1 <= Len(text) BY <1>1, <1>4
  <2>2. \A k \in 1 .. x - 1 : text[k] \in Char
    <3>1. \A k \in 1 .. x - 1 : k \in 1 .. Len(text) BY <1>1, <2>1
    <3> QED BY <1>1, <3>1
  <2>3. /\ SubSeq(text, 1, x - 1) \in Seq(Char)
        /\ Len(SubSeq(text, 1, x - 1)) = IF 1 <= x - 1 THEN (x - 1) - 1 + 1 ELSE 0
        /\ \A k \in 1 .. (x - 1) - 1 + 1 : SubSeq(text, 1, x - 1)[k] = text[1 + k - 1]
    BY <2>1, <2>2, SubSeqProperties
  <2>4. (x - 1) - 1 + 1 = x - 1 /\ \A k \in 1 .. x - 1 : 1 + k - 1 = k BY <2>1
  <2>5. path \in Text /\ Len(path) = x - 1 BY <1>6, <2>1, <2>3, <2>4 DEF Text
  <2>6. \A k \in 1 .. x - 1 : path[k] = text[k] BY <1>6, <2>3, <2>4
  <2> QED BY <2>5, <2>6
<1>8. Len(path) + 1 = x BY <1>4, <1>7
<1>9. 1 \in 1 .. Len(path) + 1 BY <1>4, <1>8
<1>10. \A k \in 1 .. Len(path) : text[k] = path[k] /\ path[k] # NUL BY <1>4, <1>7
<1> QED BY <1>4, <1>7, <1>8, <1>9, <1>10 DEF Spells, path

(* What a lookup is to find, where it is, and what it answered.            *)
Meant(nodes, from, path) == WalkIn(nodes, path)[[nd |-> from, place |-> 1]]
LookingOK ==
  call.op = "get_file" =>
    /\ memory = Large =>
         /\ Len(call.asked) \in Nat
         /\ call.tk = <<>> => left = NULL
         /\ left # NULL => Spells(buffer, call.asked, left)
         /\ Meant(node, root, call.asked) =
              Onward(node, call.asked, Selected(node, call.rot, call.tk), left)
    /\ root = NULL => call.rot = NULL
AnsweredOK ==
  answer.op = "get_file" =>
    /\ memory = Large => answer.node = Meant(node, root, answer.asked)
    /\ root = NULL => answer.node = NULL
LookInv == LookingOK /\ AnsweredOK

(* The tree a lookup meets, with all memory and with none.                 *)
LEMMA TreeIs ==
  ASSUME FsInv, ListsOK, call.op # "init_fs"
  PROVE  /\ NodesOK(node, cell) /\ Dense(node, cell) /\ TwoEntries(node)
         /\ root \in DOMAIN node /\ Absent \notin DOMAIN node
         /\ \A a \in DOMAIN node : node[a].nxt \in DOMAIN node \cup {NULL}
         /\ memory = Large => NULL \notin DOMAIN node
         /\ root = NULL => DOMAIN node = {NULL} /\ node[NULL].contents = NULL
<1>1. /\ NodesOK(node, cell) /\ Dense(node, cell) /\ TwoEntries(node)
      /\ root \in DOMAIN node
  BY DEF FsInv, StoreOK, Store, RootsOK, ListsOK
<1>2. DOMAIN node \subseteq Nat /\ \A a \in DOMAIN node : node[a].nxt \in DOMAIN node \cup {NULL}
  BY <1>1 DEF NodesOK
<1>3. Absent \notin DOMAIN node BY <1>2 DEF Absent
<1>4. memory = Large => NULL \notin DOMAIN node BY DEF FsInv, SupplyOK, Whole
<1>5. root = NULL => DOMAIN node = {NULL} /\ node[NULL].contents = NULL
  BY <1>1 DEF FsInv, SupplyOK, Barren
<1> QED BY <1>1, <1>2, <1>3, <1>4, <1>5

LEMMA Turn_Looks ==
  ASSUME FsInv, ListsOK, LookInv, Turn
  PROVE  LookInv'
<1>1. /\ call.op = "get_file" /\ UNCHANGED <<node, root, memory>>
      /\ call = [op |-> "get_file", asked |-> call.asked, tk |-> call.tk, rot |-> call.rot]
  BY DEF FsInv, RunOK, Turn, Boot, Idle, Astray, tree
<1>2. /\ NodesOK(node, cell) /\ Dense(node, cell) /\ TwoEntries(node)
      /\ root \in DOMAIN node /\ Absent \notin DOMAIN node
      /\ \A a \in DOMAIN node : node[a].nxt \in DOMAIN node \cup {NULL}
      /\ memory = Large => NULL \notin DOMAIN node
      /\ root = NULL => DOMAIN node = {NULL} /\ node[NULL].contents = NULL
  BY <1>1, TreeIs
<1> DEFINE asked == call.asked
           rot == call.rot
           tk == call.tk
<1>3. /\ memory = Large =>
           /\ Len(asked) \in Nat
           /\ tk = <<>> => left = NULL
           /\ left # NULL => Spells(buffer, asked, left)
           /\ Meant(node, root, asked) = Onward(node, asked, Selected(node, rot, tk), left)
      /\ root = NULL => rot = NULL
  BY <1>1 DEF LookInv, LookingOK
<1>4. AnsweredOK BY DEF LookInv
<1>5. /\ Lost <=> tk # <<>> /\ rot \notin DOMAIN node
      /\ Matched <=> tk = <<>> \/ IsPrefix(tk, node[rot].name)
      /\ Here = node[rot]
  BY DEF Lost, NotANode, Matched, NameMatches, Here
<1>6. \A file : Answer(file) => /\ call' = Idle /\ answer'.op = "get_file"
                                /\ answer'.asked = asked /\ answer'.node = file
  BY DEF Answer
<1>7. ASSUME NEW file, answer'.op = "get_file", answer'.asked = asked, answer'.node = file,
             call'.op # "get_file",
             memory = Large => file = Onward(node, asked, Selected(node, rot, tk), left),
             root = NULL => file = NULL
      PROVE  LookInv'
  BY <1>1, <1>3, <1>7 DEF LookInv, LookingOK, AnsweredOK
<1> HIDE DEF asked, rot, tk
<1>8. CASE Lost /\ GoAstray
  <2>1. /\ call'.op # "get_file" /\ answer'.op = "get_file" /\ answer'.asked = asked
        /\ answer'.node = Absent
    BY <1>8 DEF GoAstray, Astray, asked
  <2>2. Selected(node, rot, tk) = Absent BY <1>5, <1>8 DEF Selected
  <2>3. Onward(node, asked, Selected(node, rot, tk), left) = Absent
    BY <1>2, <2>2 DEF Onward
  <2>4. root # NULL BY <1>2, <1>3, <1>5, <1>8
  <2> QED BY <1>7, <2>1, <2>3, <2>4
<1>9. CASE ~Lost /\ Found
  <2>1. Matched /\ left = NULL /\ Answer(rot) BY <1>9 DEF Found, rot
  <2>2. call'.op # "get_file" BY <1>6, <2>1 DEF Idle
  <2>3. Selected(node, rot, tk) = rot BY <1>5, <1>9, <2>1 DEF Selected
  <2>4. Onward(node, asked, Selected(node, rot, tk), left) = rot BY <2>1, <2>3 DEF Onward
  <2> QED BY <1>3, <1>6, <1>7, <2>1, <2>2, <2>4
<1>10. CASE ~Lost /\ NotFound
  <2>1. ~Matched /\ node[rot].nxt = NULL /\ Answer(NULL) BY <1>5, <1>10 DEF NotFound
  <2>2. call'.op # "get_file" BY <1>6, <2>1 DEF Idle
  <2>3. Selected(node, rot, tk) = NULL BY <1>5, <1>10, <2>1 DEF Selected
  <2>4. memory = Large => Onward(node, asked, Selected(node, rot, tk), left) = NULL
    BY <1>2, <2>3 DEF Onward
  <2> QED BY <1>6, <1>7, <2>1, <2>2, <2>4
<1>11. CASE ~Lost /\ NextEntry
  <2> DEFINE nxt == node[rot].nxt
  <2>1. /\ ~Matched /\ nxt # NULL /\ UNCHANGED <<left, buffer, answer>>
        /\ call' = [call EXCEPT !.rot = nxt]
    BY <1>5, <1>11 DEF NextEntry
  <2>2. call'.op = "get_file" /\ call'.asked = asked /\ call'.tk = tk /\ call'.rot = nxt
    BY <1>1, <2>1 DEF asked, tk
  <2>3. rot \in DOMAIN node /\ nxt \in DOMAIN node /\ node[nxt].nxt = NULL
    BY <1>2, <1>5, <1>11, <2>1 DEF TwoEntries
  <2>4. tk # <<>> /\ ~IsPrefix(tk, node[rot].name) BY <1>5, <2>1
  <2> HIDE DEF nxt
  <2>5. Selected(node, rot, tk) = Selected(node, nxt, tk)
    <3>1. Selected(node, nxt, tk) = IF IsPrefix(tk, node[nxt].name) THEN nxt ELSE NULL
      BY <2>3, <2>4 DEF Selected
    <3>2. Selected(node, rot, tk) = IF IsPrefix(tk, node[nxt].name) THEN nxt ELSE NULL
      BY <2>1, <2>3, <2>4 DEF Selected, nxt
    <3> QED BY <3>1, <3>2
  <2>6. root # NULL
    <3>1. root = NULL => nxt = NULL BY <1>2, <2>3
    <3> QED BY <2>1, <3>1
  <2>7. LookingOK' BY <1>1, <1>3, <2>1, <2>2, <2>5, <2>6 DEF LookingOK
  <2>8. AnsweredOK' BY <1>1, <1>4, <2>1 DEF AnsweredOK
  <2> QED BY <2>7, <2>8 DEF LookInv
<1>12. CASE ~Lost /\ Descend
  <2> DEFINE below == node[rot].contents
  <2>1. /\ Matched /\ left # NULL /\ strtok(buffer, left) /\ answer' = answer
        /\ call' = [call EXCEPT !.tk = Token(buffer, left), !.rot = below]
    BY <1>5, <1>12 DEF Descend
  <2>2. /\ call'.op = "get_file" /\ call'.asked = asked /\ call'.rot = below
        /\ call'.tk = Token(buffer, left)
    BY <1>1, <2>1 DEF asked
  <2>3. root = NULL => below = NULL BY <1>2, <1>3
  <2> HIDE DEF below
  <2>4. ASSUME memory = Large
        PROVE  /\ Len(asked) \in Nat
               /\ call'.tk = <<>> => left' = NULL
               /\ left' # NULL => Spells(buffer', asked, left')
               /\ Meant(node, root, asked) =
                    Onward(node, asked, Selected(node, below, call'.tk), left')
    <3>1. tk # <<>> /\ Spells(buffer, asked, left) /\ Len(asked) \in Nat
      BY <1>3, <2>1, <2>4
    <3>2. rot \in DOMAIN node BY <1>5, <1>12, <3>1
    <3>3. Selected(node, rot, tk) = rot BY <1>5, <2>1, <3>1, <3>2 DEF Selected
    <3>4. Meant(node, root, asked) = WalkIn(node, asked)[[nd |-> rot, place |-> left]]
      BY <1>3, <2>1, <2>4, <3>2, <3>3 DEF Onward
    <3>5. left \in 1 .. Len(asked) + 1 BY <3>1 DEF Spells
    <3>6. WalkIn(node, asked)[[nd |-> rot, place |-> left]] =
            Onward(node, asked, Selected(node, below, TokenAt(asked, left)), Resume(asked, left))
      BY <1>2, <2>4, <3>1, <3>2, <3>5, WalkGoes DEF below
    <3>7. /\ Token(buffer, left) = TokenAt(asked, left) /\ left' = Resume(asked, left)
          /\ Token(buffer, left) = <<>> => left' = NULL
          /\ left' # NULL => Spells(buffer', asked, left')
      BY <2>1, <3>1, StrtokSpells
    <3> QED BY <2>2, <3>1, <3>4, <3>6, <3>7
  <2>5. LookingOK' BY <1>1, <2>2, <2>3, <2>4 DEF LookingOK
  <2>6. AnsweredOK' BY <1>1, <1>4, <2>1 DEF AnsweredOK
  <2> QED BY <2>5, <2>6 DEF LookInv
<1> QED BY <1>8, <1>9, <1>10, <1>11, <1>12 DEF Turn

LEMMA get_file_Looks ==
  ASSUME FsInv, ListsOK, call = Idle, NEW text, Terminated(text), get_file(text)
  PROVE  LookInv'
<1> DEFINE asked == CString(text)
           rot == node[root].contents
<1>1. /\ strtok(text, 1) /\ answer' = NoAnswer /\ UNCHANGED <<node, root, memory>>
      /\ call' = [op |-> "get_file", asked |-> asked, tk |-> Token(text, 1), rot |-> rot]
  BY DEF get_file, tree
<1>2. /\ NodesOK(node, cell) /\ Dense(node, cell) /\ TwoEntries(node)
      /\ root \in DOMAIN node
      /\ memory = Large => NULL \notin DOMAIN node
      /\ root = NULL => DOMAIN node = {NULL} /\ node[NULL].contents = NULL
  <2>1. call.op # "init_fs" BY DEF Idle
  <2> QED BY <2>1, TreeIs
<1>3. Spells(text, asked, 1) BY CStringSpells
<1>4. /\ call'.op = "get_file" /\ call'.asked = asked /\ call'.rot = rot
      /\ call'.tk = Token(text, 1)
  BY <1>1
<1>5. root = NULL => rot = NULL BY <1>2
<1>6. Len(asked) \in Nat /\ 1 \in 1 .. Len(asked) + 1
  BY <1>3, LenProperties DEF Spells, Text
<1> HIDE DEF asked
<1>7. ASSUME memory = Large
      PROVE  Meant(node, root, asked) =
               Onward(node, asked, Selected(node, rot, TokenAt(asked, 1)), Resume(asked, 1))
  BY <1>2, <1>6, <1>7, WalkGoes DEF Meant
<1>8. /\ Token(text, 1) = TokenAt(asked, 1) /\ left' = Resume(asked, 1)
      /\ Token(text, 1) = <<>> => left' = NULL
      /\ left' # NULL => Spells(buffer', asked, left')
  BY <1>1, <1>3, StrtokSpells
<1> HIDE DEF rot
<1>9. LookingOK' BY <1>1, <1>4, <1>5, <1>6, <1>7, <1>8 DEF LookingOK
<1>10. AnsweredOK' BY <1>1 DEF AnsweredOK, NoAnswer
<1> QED BY <1>9, <1>10 DEF LookInv

LEMMA LookStep ==
  ASSUME FsInv, ListsOK, LookInv, [FsNext]_vars
  PROVE  LookInv'
<1>1. ASSUME call'.op # "get_file", answer'.op # "get_file" PROVE LookInv'
  BY <1>1 DEF LookInv, LookingOK, AnsweredOK
<1>2. ASSUME call'.op # "get_file", answer' = answer, UNCHANGED <<node, root, memory>>
      PROVE  LookInv'
  BY <1>2 DEF LookInv, LookingOK, AnsweredOK
<1>3. CASE init_fs \/ init_tarfs \/ parse \/ load_mods
  <2>1. answer' = answer /\ answer = NoAnswer
    BY <1>3 DEF init_fs, init_tarfs, parse, load_mods, FsInv, RunOK
  <2>2. call'.op # "get_file"
    <3>1. CASE init_fs \/ init_tarfs
      <4>1. \/ call' = [op |-> "init_tarfs"]
            \/ call' = [op |-> "parse", address |-> 0, i |-> 0]
        BY <3>1 DEF init_fs, init_tarfs
      <4>2. call'.op = "init_tarfs" \/ call'.op = "parse" BY <4>1
      <4> QED BY <4>2
    <3>2. CASE load_mods BY <3>2 DEF load_mods, fs_mount, Idle, Astray
    <3>3. CASE parse
      <4>1. call = [op |-> "parse", address |-> call.address, i |-> call.i]
        BY <3>3 DEF parse, FsInv, RunOK, Boot, Idle, Astray
      <4>2. \/ call' = [op |-> "mount"] \/ call' = Astray
            \/ \E n : call' = [call EXCEPT !.address = @ + n, !.i = @ + 1]
        BY <3>3 DEF parse, mkfile
      <4>3. ASSUME NEW n, call' = [call EXCEPT !.address = @ + n, !.i = @ + 1]
            PROVE  call'.op = "parse"
        BY <4>1, <4>3
      <4>4. CASE call' = [op |-> "mount"]
        <5>1. call'.op = "mount" BY <4>4
        <5> QED BY <5>1
      <4>5. CASE call' = Astray
        <5>1. call'.op = "astray" BY <4>5 DEF Astray
        <5> QED BY <5>1
      <4>6. ASSUME NEW n, call' = [call EXCEPT !.address = @ + n, !.i = @ + 1]
            PROVE  call'.op # "get_file"
        BY <4>3, <4>6
      <4> QED BY <4>2, <4>4, <4>5, <4>6
    <3> QED BY <1>3, <3>1, <3>2, <3>3
  <2> QED BY <1>1, <2>1, <2>2 DEF NoAnswer
<1>4. CASE Turn BY <1>4, Turn_Looks
<1>5. CASE Caller
  <2>1. call = Idle BY <1>5 DEF Caller
  <2>2. ASSUME NEW path \in Paths, get_file(path \o <<NUL>>) PROVE LookInv'
    BY <2>1, <2>2, PathTerminated, get_file_Looks
  <2>3. ASSUME get_file(buffer) PROVE LookInv'
    <3>1. Terminated(buffer) BY DEF FsInv, RunOK
    <3> QED BY <2>1, <2>3, <3>1, get_file_Looks
  <2>4. ASSUME NEW nd, fs_read(nd) PROVE LookInv'
    <3>1. call'.op # "get_file" /\ UNCHANGED <<node, root, memory>>
      BY <2>1, <2>4 DEF fs_read, Idle, Astray, tree
    <3>2. answer' = answer \/ answer'.op # "get_file"
      BY <2>4 DEF fs_read, NoAnswer
    <3> QED BY <1>1, <1>2, <3>1, <3>2
  <2>5. ASSUME NEW dir, NEW name, MakeDirectory(dir, name) PROVE LookInv'
    <3>1. answer' = NoAnswer /\ call' \in {Idle, Astray} BY <2>1, <2>5 DEF MakeDirectory
    <3> QED BY <1>1, <3>1 DEF NoAnswer, Idle, Astray
  <2> QED BY <1>5, <2>2, <2>3, <2>4, <2>5 DEF Caller
<1>6. CASE UNCHANGED vars
  <2>1. UNCHANGED <<node, root, left, call, memory, buffer, answer>> BY <1>6 DEF vars, tree
  <2> QED BY <2>1 DEF LookInv, LookingOK, AnsweredOK
<1> QED BY <1>3, <1>4, <1>5, <1>6 DEF FsNext, Stray

(* get_file answers what the walk of the tree does: of every directory the *)
(* path names, the first entry whose name begins with the token, and that  *)
(* of a path strtok has taken apart before no less than of a fresh one.    *)
THEOREM LookupsResolve == FsSpec => []LookupResolves
<1>1. FsInit => ListsOK /\ LookInv
  <2> SUFFICES ASSUME FsInit PROVE ListsOK /\ LookInv OBVIOUS
  <2>1. DOMAIN node = {} /\ call.op = "init_fs" /\ answer.op = "none" BY DEF FsInit, NoAnswer
  <2> QED BY <2>1 DEF ListsOK, TwoEntries, LookInv, LookingOK, AnsweredOK
<1>2. FsInv /\ ListsOK /\ LookInv /\ [FsNext]_vars => ListsOK' /\ LookInv'
  BY ListsStep, LookStep
<1>3. LookInv => LookupResolves
  <2> SUFFICES ASSUME LookInv, answer.op = "get_file"
               PROVE  /\ memory = Large => answer.node = Resolve(answer.asked)
                      /\ root = NULL => answer.node = NULL
    BY DEF LookupResolves
  <2>1. Resolve(answer.asked) = Meant(node, root, answer.asked) BY ResolveIsWalk DEF Meant
  <2> QED BY <2>1 DEF LookInv, AnsweredOK
<1> QED BY FsInvariance, <1>1, <1>2, <1>3, PTL DEF FsSpec
=============================================================================
