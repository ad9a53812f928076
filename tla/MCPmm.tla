------------------------------- MODULE MCPmm -------------------------------
(* Instances of Pmm for TLC: 16 blocks of 4 bytes, words of 4 bits. *)
EXTENDS Pmm

(* The kernel and its modules are blocks 3 and 4.  Low memory with block 0 *)
(* and, rounded up, block 3 of the kernel; the call of init_pmm that       *)
(* reserves the kernel, made again; high memory at block 5; an overlapping *)
(* entry that counts blocks out twice and makes used_blocks wrap; an       *)
(* unaligned reserved entry.                                               *)
MCRegions ==
  { [op |-> "init",   addr |-> 0,  size |-> 14],
    [op |-> "deinit", addr |-> 0,  size |-> 19],
    [op |-> "init",   addr |-> 20, size |-> 28],
    [op |-> "init",   addr |-> 21, size |-> 43],
    [op |-> "deinit", addr |-> 34, size |-> 2] }

MCModEnds == <<15, 13>>
=============================================================================
