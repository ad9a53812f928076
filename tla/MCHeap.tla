------------------------------- MODULE MCHeap -------------------------------
(* Instances of Heap for TLC: lengths count 8 bytes.                       *)
(*                                                                         *)
(* The counter of used blocks is two too high after init_pmm and one call  *)
(* of pmm_init_region, so of n free blocks the heap gets n - 2.            *)
EXTENDS Heap

(* Three pages of 18 units for the heap: up to three majors. *)
MCThreePages == {[op |-> "init", addr |-> 18, size |-> 90]}

(* Two pages of 24 units: up to three minors in a page, six in a major. *)
MCTwoPages == {[op |-> "init", addr |-> 24, size |-> 96]}

MCModEnds == <<>>
MCObjects == {<<2, 2>>}
=============================================================================
