------------------------------- MODULE Blocks -------------------------------
(***************************************************************************)
(* What kmalloc, kfree and krealloc promise their callers: a set of        *)
(* outstanding blocks of memory that are aligned, disjoint, and never at   *)
(* the NULL address.  Heap is shown to implement it.                       *)
(***************************************************************************)
EXTENDS Integers

CONSTANTS Alignment,   \* every block starts at a multiple of it
          Sizes        \* the sizes callers ask for

VARIABLE blocks        \* records [at, len]

Bytes(b) == b.at .. b.at + b.len - 1

(* b may be handed out while the blocks of held are outstanding. *)
Fits(b, held) ==
  /\ b.at > 0 /\ b.at % Alignment = 0 /\ b.len \in Sizes
  /\ \A c \in held : Bytes(b) \cap Bytes(c) = {}

Init == blocks = {}

Malloc == \E b \in blocks' : Fits(b, blocks) /\ blocks' = blocks \cup {b}

Free == \E b \in blocks : blocks' = blocks \ {b}

(* In place, to a size that is not larger. *)
Shrink == \E b \in blocks, n \in Sizes :
            /\ n <= b.len
            /\ blocks' = (blocks \ {b}) \cup {[b EXCEPT !.len = n]}

(* To a new place, apart from the old one, whose bytes are copied. *)
Move == \E b \in blocks, c \in blocks' :
          /\ Fits(c, blocks) /\ c.len > b.len
          /\ blocks' = (blocks \ {b}) \cup {c}

Next == Malloc \/ Free \/ Shrink \/ Move

Spec == Init /\ [][Next]_blocks
=============================================================================
