--------------------------------- MODULE Fs ---------------------------------
(***************************************************************************)
(* The file system: the tree of nodes of kernel/src/fs/fs.c, the ramdisk   *)
(* of fs/tar/tar.c that kmain mounts in it, and strtok of libk, with which *)
(* get_file takes a path apart in the caller's buffer.                     *)
(*                                                                         *)
(* Nodes and section numbers lie at addresses.  No result of kmalloc is    *)
(* looked at, and address 0, which is NULL, can be written to like any     *)
(* other: node[0] is what make_file wrote there.  Where the code takes for *)
(* a node what is none, or writes behind files, it has gone astray, and    *)
(* the model ends.                                                         *)
(*                                                                         *)
(* External: kmalloc, by the largest request it still grants; the archive  *)
(* the boot loader has loaded; callers, which make directories, add each   *)
(* once, look paths up, also twice in one buffer, and read what was found. *)
(***************************************************************************)
EXTENDS SequencesExt

CONSTANTS
  Block,            \* 512, the unit of an archive
  MAX_RAMDISK_FILES,
  Archives,         \* bound: ramdisks, sequences of members [name, at, size]
  Names,            \* bound: names of directories callers make
  Paths,            \* bound: paths callers look up
  MaxDirectories    \* bound: directories callers make

VARIABLES
  node, cell,       \* address -> node; address -> section number
  root, tar_root,
  files,            \* index -> address of a header in the archive, or Absent
  left,             \* strtok: where to go on in the buffer, or NULL
  call,             \* what is running, and its locals
  memory,           \* external: the largest request kmalloc still grants
  archive,          \* external: the ramdisk
  buffer,           \* external: the caller's path, ended by NUL
  answer            \* external: what the last call returned

tree == <<node, cell, root, tar_root, files>>
vars == <<tree, left, call, memory, archive, buffer, answer>>

NULL == 0
Absent == -1
Slash == "/"
NUL == "NUL"
FSName == <<"r", "t">>
TarName == <<"S", ":">>

(* kmalloc by size: sizeof(int) and sizeof(fs_node). *)
None == 0
Small == 1
Large == 2

(* External: a member is a header, at address at of the archive, and its   *)
(* data, padded to whole blocks; the next header is right behind.          *)
Padded(size) == ((size + Block - 1) \div Block) * Block
Behind(member) == member.at + Block + Padded(member.size)

ASSUME FsAssumption ==
  /\ {Block, MAX_RAMDISK_FILES} \subseteq Nat \ {0} /\ MaxDirectories \in Nat
  /\ Names \cup Paths \subseteq Seq(STRING)
  /\ \A a \in Archives :
       /\ a \in Seq([name : Seq(STRING), at : Nat, size : Nat])
       /\ \A k \in DOMAIN a :
            /\ k = 1 => a[k].at = 0
            /\ k > 1 => a[k].at = Behind(a[k - 1])
            /\ \A j \in 1 .. k - 1 : Behind(a[j]) <= a[k].at

Idle == [op |-> "idle"]
Astray == [op |-> "astray"]
NoAnswer == [op |-> "none"]
-----------------------------------------------------------------------------
(* kmalloc, given what it can still grant: an address, or NULL, after      *)
(* which no request of that size is granted again.                         *)
Fresh == Cardinality((DOMAIN node \cup DOMAIN cell) \ {NULL}) + 1
Grants(able, size, address) ==
  {[at |-> address, able |-> able] : a \in {able} \cap size .. Large}
    \cup {[at |-> NULL, able |-> a] : a \in 0 .. size - 1 \cap 0 .. able}

At(f, address, value) ==
  [a \in DOMAIN f \cup {address} |-> IF a = address THEN value ELSE f[a]]

make_file(nodes, address, name, directory, sz, contents, read) ==
  At(nodes, address,
     [name |-> name, dir |-> directory, sz |-> sz, contents |-> contents,
      nxt |-> NULL, read |-> read])

(* add_dir enters the first two files of a directory.  For any other the   *)
(* loop ends at the last entry, which is linked to what it is linked to.   *)
NotANode(nodes, address) == address \notin DOMAIN nodes
AddStrays(nodes, dir) ==
  nodes[dir].contents # NULL /\ NotANode(nodes, nodes[dir].contents)

SecondEntry_always(nodes, first) == TRUE
SecondEntry(nodes, first) == nodes[first].nxt = NULL
LastLink_self(nodes, holder) == holder
LastLink(nodes, holder) == nodes[holder].nxt
add_dir(nodes, dir, file) ==
  LET first   == nodes[dir].contents
      holder  == nodes[first].nxt
      counted == [nodes EXCEPT ![dir].sz = @ + 1]
  IN  CASE first = NULL -> [counted EXCEPT ![dir].contents = file]
        [] first # NULL /\ SecondEntry(nodes, first) -> [counted EXCEPT ![first].nxt = file]
        [] OTHER -> [counted EXCEPT ![holder].nxt = LastLink(nodes, holder)]

fs_mount(nd) ==
  IF AddStrays(node, root) THEN call' = Astray /\ UNCHANGED node
  ELSE call' = Idle /\ node' = add_dir(node, root, nd)
-----------------------------------------------------------------------------
(* kmain: init_fs, then load_mods, which parses the archive.  The first    *)
(* request of all finds an empty heap: if it fails, so does any other.     *)
init_fs ==
  /\ call.op = "init_fs"
  /\ \E g \in Grants(memory, Large, Fresh) :
       /\ g.at = NULL => g.able = None
       /\ root' = g.at
       /\ node' = make_file(node, g.at, FSName, TRUE, 0, NULL, "unset")
       /\ memory' = g.able
  /\ call' = [op |-> "init_tarfs"]
  /\ UNCHANGED <<cell, tar_root, files, left, archive, buffer, answer>>

init_tarfs ==
  /\ call.op = "init_tarfs"
  /\ \E g \in Grants(memory, Large, Fresh) :
       /\ tar_root' = g.at
       /\ node' = make_file(node, g.at, TarName, FALSE, 0, NULL, "none")
       /\ memory' = g.able
  /\ call' = [op |-> "parse", address |-> 0, i |-> 0]
  /\ UNCHANGED <<cell, root, files, left, archive, buffer, answer>>

Members == DOMAIN archive
EndOfArchive == IF archive = <<>> THEN 0 ELSE Behind(archive[Len(archive)])

get_addr_ofsec(section) == section + Block

(* How far parse goes on, in bytes. *)
Advance_short(size) == (size \div Block + 1) * Block
Advance(size) ==
  (size \div Block + 1) * Block + (IF size % Block # 0 THEN Block ELSE 0)

(* mkfile makes a section number and a node, and adds the node. *)
Section_next(i) == i + 1
Section(i) == i
mkfile(name, size, sec) ==
  \E s \in Grants(memory, Small, Fresh) :
    \E g \in Grants(s.able, Large, IF s.at = NULL THEN Fresh ELSE Fresh + 1) :
      LET made == make_file(node, g.at, name, FALSE, size, s.at, "tar_read")
      IN  /\ cell' = At(cell, s.at, sec)
          /\ memory' = g.able
          /\ IF AddStrays(made, tar_root)
             THEN call' = Astray /\ node' = made
             ELSE /\ node' = add_dir(made, tar_root, g.at)
                  /\ call' = [call EXCEPT !.address = @ + Advance(size), !.i = @ + 1]

parse ==
  /\ call.op = "parse"
  /\ \/ /\ call.address = EndOfArchive
        /\ call' = [op |-> "mount"]
        /\ UNCHANGED <<node, cell, files, memory>>
     \/ \E k \in Members :
          /\ archive[k].at = call.address /\ call.i < MAX_RAMDISK_FILES
          /\ files' = [files EXCEPT ![call.i] = call.address]
          /\ mkfile(archive[k].name, archive[k].size, Section(call.i))
     \/ /\ call.address # EndOfArchive
        /\ \/ \A k \in Members : archive[k].at # call.address
           \/ call.i >= MAX_RAMDISK_FILES
        /\ call' = Astray
        /\ UNCHANGED <<node, cell, files, memory>>
  /\ UNCHANGED <<root, tar_root, left, archive, buffer, answer>>

load_mods ==
  /\ call.op = "mount"
  /\ fs_mount(tar_root)
  /\ UNCHANGED <<cell, root, tar_root, files, left, memory, archive, buffer, answer>>
-----------------------------------------------------------------------------
(* strtok(str, "/"): the token begins behind the slashes; the slash behind *)
(* it is overwritten, and left is what follows, or NULL at the end.  At    *)
(* the end of a path there is still an empty token.                        *)
First(text, from, chars) ==
  CHOOSE j \in from .. Len(text) :
    text[j] \in chars /\ \A k \in from .. j - 1 : text[k] \notin chars

TokenStart(text, str) == First(text, str, ToSet(text) \ {Slash})
TokenEnd(text, str) == First(text, TokenStart(text, str), {Slash, NUL})

Left_kept(text, stop) == stop + 1
Left(text, stop) == IF text[stop] = Slash THEN stop + 1 ELSE NULL
strtok(text, str) ==
  LET stop == TokenEnd(text, str)
  IN  /\ buffer' = [text EXCEPT ![stop] = NUL]
      /\ left' = Left(text, stop)
Token(text, str) == SubSeq(text, TokenStart(text, str), TokenEnd(text, str) - 1)

(* A path in a buffer. *)
CString(text) == SubSeq(text, 1, First(text, 1, {NUL}) - 1)

get_file(text) ==
  /\ strtok(text, 1)
  /\ call' = [op |-> "get_file", asked |-> CString(text),
              tk |-> Token(text, 1), rot |-> node[root].contents]
  /\ answer' = NoAnswer
  /\ UNCHANGED <<tree, memory, archive>>

(* memcmp of as many bytes as the token has. *)
NameMatches_byName(name, tk) == IsPrefix(name, tk)
NameMatches(name, tk) == IsPrefix(tk, name)

Answer(file) ==
  /\ call' = Idle
  /\ answer' = [op |-> "get_file", asked |-> call.asked, node |-> file]
  /\ UNCHANGED <<left, buffer>>

(* The turns of the loop of get_file.  For an empty token nothing is read. *)
Here == node[call.rot]
Lost == call.tk # <<>> /\ NotANode(node, call.rot)
Matched == IF call.tk = <<>> THEN TRUE ELSE NameMatches(Here.name, call.tk)

Found == Matched /\ left = NULL /\ Answer(call.rot)
Descend ==
  /\ Matched /\ left # NULL
  /\ strtok(buffer, left)
  /\ call' = [call EXCEPT !.tk = Token(buffer, left), !.rot = Here.contents]
  /\ UNCHANGED answer
NextEntry ==
  /\ ~Matched /\ Here.nxt # NULL
  /\ call' = [call EXCEPT !.rot = Here.nxt]
  /\ UNCHANGED <<left, buffer, answer>>
NotFound == ~Matched /\ Here.nxt = NULL /\ Answer(NULL)
GoAstray ==
  /\ call' = Astray
  /\ answer' = [op |-> "get_file", asked |-> call.asked, node |-> Absent]
  /\ UNCHANGED <<left, buffer>>

Turn ==
  /\ call.op = "get_file"
  /\ IF Lost THEN GoAstray ELSE Found \/ Descend \/ NextEntry \/ NotFound
  /\ UNCHANGED <<tree, memory, archive>>

(* fs_read, and fs_write, which calls the same function.  What a path with *)
(* a slash behind a file has found is no node.                             *)
Reads(nd) == ~node[nd].dir /\ node[nd].read = "tar_read"
fs_read(nd) ==
  /\ IF NotANode(node, nd)
     THEN call' = Astray /\ UNCHANGED answer
     ELSE /\ answer' = IF Reads(nd)
                       THEN [op |-> "data", node |-> nd,
                             address |-> get_addr_ofsec(files[cell[node[nd].contents]])]
                       ELSE NoAnswer
          /\ UNCHANGED call
  /\ UNCHANGED <<tree, left, memory, archive, buffer>>
-----------------------------------------------------------------------------
(* Callers.  They make a directory, give it no functions, and add it. *)
Directories == {nd \in DOMAIN node : node[nd].dir}
MakeDirectory(dir, name) ==
  /\ Cardinality(Directories) <= MaxDirectories
  /\ \E g \in Grants(memory, Large, Fresh) :
       LET made == make_file(node, g.at, name, TRUE, 0, NULL, "none")
       IN  /\ memory' = g.able
           /\ IF g.at = NULL THEN node' = made /\ UNCHANGED call
              ELSE IF AddStrays(made, dir) THEN node' = made /\ call' = Astray
              ELSE node' = add_dir(made, dir, g.at) /\ UNCHANGED call
  /\ answer' = NoAnswer
  /\ UNCHANGED <<cell, root, tar_root, files, left, archive, buffer>>

Caller ==
  /\ call = Idle
  /\ \/ \E path \in Paths : get_file(path \o <<NUL>>)
     \/ get_file(buffer)
     \/ answer.op = "get_file" /\ answer.node # NULL /\ fs_read(answer.node)
     \/ \E dir \in Directories, name \in Names : MakeDirectory(dir, name)

Stray == call = Astray /\ UNCHANGED vars

FsInit ==
  /\ archive \in Archives
  /\ memory \in {None, Large}
  /\ node = [a \in {} |-> NULL] /\ cell = [a \in {} |-> NULL]
  /\ root = NULL /\ tar_root = NULL
  /\ files = [i \in 0 .. MAX_RAMDISK_FILES - 1 |-> Absent]
  /\ left = NULL
  /\ call = [op |-> "init_fs"]
  /\ buffer = <<NUL>>
  /\ answer = NoAnswer

FsNext ==
  \/ init_fs \/ init_tarfs \/ parse \/ load_mods
  \/ Turn
  \/ Caller
  \/ Stray

FsSpec == FsInit /\ [][FsNext]_vars

(* A call runs until it returns: nothing in it waits. *)
FairFsSpec == FsSpec /\ WF_vars(Turn)
-----------------------------------------------------------------------------
FsTypeOK ==
  /\ root \in DOMAIN node \cup {NULL} /\ tar_root \in DOMAIN node \cup {NULL}
  /\ \A a \in DOMAIN node : /\ node[a].dir \in BOOLEAN /\ node[a].sz \in Nat
                            /\ node[a].nxt \in DOMAIN node \cup {NULL}
                            /\ node[a].contents \in DOMAIN node \cup DOMAIN cell \cup {NULL}
  /\ DOMAIN node \cap DOMAIN cell \subseteq {NULL}
  /\ \A a \in DOMAIN cell : cell[a] \in DOMAIN files
  /\ files \in [0 .. MAX_RAMDISK_FILES - 1 -> {Absent} \cup 0 .. EndOfArchive]
  /\ left \in 0 .. Len(buffer)
  /\ memory \in None .. Large

(* What a directory, or the node of the ramdisk, lists, in order. *)
Chain(nodes, first) ==
  LET entry[k \in 1 .. Cardinality(DOMAIN nodes) + 1] ==
        IF k = 1 THEN first
        ELSE IF entry[k - 1] = NULL THEN NULL ELSE nodes[entry[k - 1]].nxt
      listed == {k \in DOMAIN entry : entry[k] # NULL}
  IN  [k \in 1 .. Cardinality(listed) |-> entry[k]]
IsTree(nd) == node[nd].contents # NULL /\ node[nd].contents \in DOMAIN node
Listing(nd) == IF IsTree(nd) THEN Chain(node, node[nd].contents) ELSE <<>>

(* The token at or behind a place of a path, empty if there are slashes    *)
(* only, and the slash behind it, or the end of the path.                  *)
Begins(path, j) == Min({k \in j .. Len(path) : path[k] # Slash} \cup {Len(path) + 1})
Stops(path, j) ==
  Min({k \in Begins(path, j) .. Len(path) : path[k] = Slash} \cup {Len(path) + 1})
TokenAt(path, j) == SubSeq(path, Begins(path, j), Stops(path, j) - 1)

(* The reference for get_file: from node to node, the first entry whose    *)
(* name begins with the token.  The empty token names the first entry      *)
(* there is, or would be.  Under a file, or in an empty directory, the     *)
(* search leaves the tree.                                                 *)
Step(nd, token) ==
  LET entries == Listing(nd)
      matching == {k \in DOMAIN entries : IsPrefix(token, node[entries[k]].name)}
  IN  CASE token = <<>>                  -> node[nd].contents
        [] token # <<>> /\ ~IsTree(nd)   -> Absent
        [] OTHER -> IF matching = {} THEN NULL ELSE entries[Min(matching)]
Resolve(path) ==
  LET from[at \in [nd : DOMAIN node, place : 1 .. Len(path) + 1]] ==
        LET found == Step(at.nd, TokenAt(path, at.place))
            stop == Stops(path, at.place)
        IN  IF found \notin DOMAIN node \/ stop > Len(path) THEN found
            ELSE from[[nd |-> found, place |-> stop + 1]]
  IN  from[[nd |-> root, place |-> 1]]

(* get_file answers what the walk of the tree does, whatever was looked up *)
(* before, in whatever buffer; and without memory it answers NULL.         *)
LookupResolves ==
  answer.op = "get_file" =>
    /\ memory = Large => answer.node = Resolve(answer.asked)
    /\ root = NULL => answer.node = NULL

(* The mount, and the making of directories, keep to the nodes and the     *)
(* headers there are, unless memory runs out on the way or the archive has *)
(* more members than files has places.  With no memory at all they do, too.*)
Looking == answer.op = "get_file"
MountKeepsToTheTree ==
  call = Astray /\ ~Looking =>
    (memory # Large /\ root # NULL) \/ Len(archive) > MAX_RAMDISK_FILES

(* What is listed stays listed, in the same place, whatever is added to    *)
(* whichever directory.                                                    *)
EntriesStay ==
  [][\A nd \in DOMAIN node \ {NULL} : IsPrefix(Listing(nd), Listing(nd)')]_vars

(* What is read of a file is its member of the archive. *)
ReadsOwnMember ==
  answer.op = "data" =>
    \E k \in Members : /\ node[answer.node].name = archive[k].name
                        /\ node[answer.node].sz = archive[k].size
                        /\ answer.address = archive[k].at + Block

(* Every lookup ends. *)
LookupEnds == call.op = "get_file" ~> call.op # "get_file"
=============================================================================
