----------------------------- MODULE MCPmmScan -----------------------------
(* An instance of PmmScan for TLC: 13 blocks, three words of 4 bits and a  *)
(* last partial one that the loops never see.                              *)
EXTENDS PmmScan

MCModEnds == <<3>>
=============================================================================
