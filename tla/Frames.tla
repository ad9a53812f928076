------------------------------- MODULE Frames -------------------------------
(***************************************************************************)
(* What a physical memory manager promises its callers: frames are either  *)
(* available or taken, a grant moves one run of consecutive available      *)
(* frames to the callers, and a return moves frames back.  Nothing here    *)
(* comes from the code; Pmm is shown to implement it.                      *)
(***************************************************************************)
EXTENDS Integers

CONSTANT Frame          \* the frame numbers, a set of naturals

VARIABLES avail,        \* frames that may be granted
          taken         \* frames out with the callers

vars == <<avail, taken>>

Init == /\ avail = {}
        /\ taken = {}

(* The frames first..last are granted together. *)
Grant(first, last) ==
  /\ first <= last
  /\ first..last \subseteq avail
  /\ avail' = avail \ (first..last)
  /\ taken' = taken \cup (first..last)

(* Callers give back frames they have. *)
Return(first, last) ==
  /\ first <= last
  /\ first..last \subseteq taken
  /\ avail' = avail \cup (first..last)
  /\ taken' = taken \ (first..last)

(* The owner of the machine's memory map adds frames nobody has. *)
Donate ==
  /\ avail \subseteq avail'
  /\ avail' \subseteq Frame \ taken
  /\ UNCHANGED taken

(* It takes frames nobody has out of use. *)
Withdraw ==
  /\ avail' \subseteq avail
  /\ UNCHANGED taken

Next ==
  \/ \E first, last \in Frame : Grant(first, last) \/ Return(first, last)
  \/ Donate
  \/ Withdraw

Spec == Init /\ [][Next]_vars

(* No frame is at once available and with a caller: the point of it all. *)
Exclusive == avail \cap taken = {}
=============================================================================
