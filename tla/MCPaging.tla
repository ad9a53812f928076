------------------------------ MODULE MCPaging ------------------------------
(* Instances of Paging for TLC: three tables of two pages, frames of 4     *)
(* bytes; frames 1 and 2 are the kernel's.                                 *)
EXTENDS Paging

(* Four frames, 3 to 6. *)
MCFourFrames == {[op |-> "init", addr |-> 12, size |-> 16]}
MCNoModules == <<>>
=============================================================================
