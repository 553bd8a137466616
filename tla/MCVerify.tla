------------------------------ MODULE MCVerify ------------------------------
(***************************************************************************)
(* Three tests, two of them in one chunk, on two processes.                *)
(***************************************************************************)
EXTENDS Verify

CONSTANTS t1, t2, t3

TwoChunks == <<<<t1, t2>>, <<t3>>>>
=============================================================================
