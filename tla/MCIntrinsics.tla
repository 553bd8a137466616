---------------------------- MODULE MCIntrinsics ----------------------------
(***************************************************************************)
(* Instances of Intrinsics: every call on a small memory.                  *)
(***************************************************************************)
EXTENDS Intrinsics

CONSTANT LastByte

Bytes == 0 .. LastByte

Valid(k) ==
    /\ Region(k.d, k.n) \cup Region(k.s, k.n) \subseteq Bytes
    /\ k.fn \in {"memcpy", "strncpy"} => Region(k.d, k.n) \cap Region(k.s, k.n) = {}
    /\ k.fn = "memset" => k.s = 0

AllCalls == {k \in [fn : Functions, naive : BOOLEAN, d : Bytes, s : Bytes, n : 0 .. LastByte + 1] :
                Valid(k)}

\* Every byte is different, but for a terminator that may be anywhere.
Contents == {[a \in Bytes |-> IF a = z THEN Nul ELSE a + 1] : z \in Bytes}
=============================================================================
