----------------------------- MODULE Intrinsics -----------------------------
(***************************************************************************)
(* The memory functions that are linked into the repaired program          *)
(* (intrinsic/persistent_intrinsics.c): PMFIXER_memset, memcpy, memmove    *)
(* and strncpy, which call libc and flush the destination line by line,    *)
(* and their _naive forms, which copy and persist byte by byte.  The       *)
(* caller's fence that insertPersistentSubProgram adds comes after the     *)
(* return.                                                                 *)
(*                                                                         *)
(* The destination d and the source s are addresses.  A byte is durable    *)
(* once it must survive a crash: its line was written back after the byte  *)
(* was, and a fence followed (clflush needs none).  MANUAL is 0.           *)
(***************************************************************************)
EXTENDS Integers

CONSTANTS
    LineSize,      \* 64
    Address,       \* the bytes of memory, 0 .. some last one
    Nul,           \* the terminator of strings
    Fill,          \* the byte memset writes
    Memories,      \* initial contents
    Calls          \* [fn, naive, d, s, n]

Functions == {"memset", "memcpy", "memmove", "strncpy"}

Region(start, n) == start .. start + n - 1

\* Pointers are valid for n bytes; memcpy and strncpy take disjoint buffers.
ASSUME CallAssumption ==
    /\ LineSize \in Nat \ {0} /\ Address \subseteq Nat
    /\ \A m \in Memories : m = [a \in Address |-> m[a]]
    /\ \A k \in Calls :
        /\ k \in [fn : Functions, naive : BOOLEAN, d : Address, s : Address, n : Nat]
        /\ Region(k.d, k.n) \cup Region(k.s, k.n) \subseteq Address
        /\ k.fn \in {"memcpy", "strncpy"} => Region(k.d, k.n) \cap Region(k.s, k.n) = {}

VARIABLES
    call,       \* the function and its arguments
    clflush,    \* compiled for a processor that only has clflush
    old,        \* memory at the call
    mem,        \* memory now
    flushed,    \* bytes written back since they were written, not yet fenced
    durable,    \* bytes that survive a crash
    i,          \* the loop counter
    pc

vars == <<call, clflush, old, mem, flushed, durable, i, pc>>

d == call.d
s == call.s
n == call.n

LineOf(a) == a \div LineSize
Line(a)   == {b \in Address : LineOf(b) = LineOf(a)}

Init ==
    /\ call \in Calls
    /\ clflush \in BOOLEAN
    /\ old \in Memories
    /\ mem = old
    /\ flushed = {} /\ durable = Address
    /\ i = 0
    /\ pc = "enter"

\* _mm_clwb or _mm_clflushopt, or _mm_clflush, of the line of byte a.
Flush(a) ==
    IF clflush THEN durable' = durable \cup Line(a) /\ UNCHANGED flushed
    ELSE flushed' = flushed \cup (Line(a) \ durable) /\ UNCHANGED durable

\* _mm_sfence
Fence == durable' = durable \cup flushed /\ flushed' = {}

-----------------------------------------------------------------------------
(* The functions of libc.                                                  *)

\* The source string ends before its k-th byte.
Ended(m, k) == \E j \in 0 .. k - 1 : m[s + j] = Nul

\* The k-th byte the call writes, given the memory m it reads.
Value(m, k) ==
    CASE call.fn = "memset" -> Fill
      [] call.fn = "strncpy" /\ Ended(m, k) -> Nul
      [] OTHER -> m[s + k]

Result == [a \in Address |-> IF a \in Region(d, n) THEN Value(old, a - d) ELSE old[a]]

LibcCall ==
    /\ pc = "enter" /\ ~call.naive
    /\ mem' = Result
    /\ durable' = durable \ Region(d, n)
    /\ pc' = "flush"
    /\ UNCHANGED <<call, clflush, old, flushed, i>>

\* Bugs of the loop: it stops a line early, or goes one too far.
MoreShort == i + LineSize < n
MoreLong == i <= n

\* One turn of flush_loop: from the destination on, a line at a time.
More == i < n

FlushLoop ==
    /\ pc = "flush" /\ More
    /\ Flush(d + i)
    /\ i' = i + LineSize
    /\ UNCHANGED <<call, clflush, old, mem, pc>>

EndFlushLoop ==
    /\ pc = "flush" /\ ~More
    /\ pc' = "return"
    /\ UNCHANGED <<call, clflush, old, mem, flushed, durable, i>>

-----------------------------------------------------------------------------
(* The naive forms: i counts the bytes done.                               *)

\* A bug of memmove_naive: it always copies forwards.
AlwaysForwards == FALSE

\* memmove_naive copies in reverse when the destination overlaps the end of
\* the source.  Its other two branches both copy forwards.
Reverse == call.fn = "memmove" /\ d > s /\ d - s < n

\* memmove_naive has nothing to do.
NothingToDo == call.fn = "memmove" /\ (d = s \/ n = 0)

Index == IF Reverse THEN n - 1 - i ELSE i

EnterNaive ==
    /\ pc = "enter" /\ call.naive
    /\ pc' = IF NothingToDo THEN "return" ELSE "store"
    /\ UNCHANGED <<call, clflush, old, mem, flushed, durable, i>>

StoreByte ==
    /\ pc = "store" /\ i < n
    /\ mem' = [mem EXCEPT ![d + Index] = Value(mem, Index)]
    /\ durable' = durable \ {d + Index}
    /\ flushed' = flushed \ {d + Index}
    /\ pc' = "clwb"
    /\ UNCHANGED <<call, clflush, old, i>>

FlushByte ==
    /\ pc = "clwb"
    /\ Flush(d + Index)
    /\ pc' = IF clflush THEN "next" ELSE "sfence"
    /\ UNCHANGED <<call, clflush, old, mem, i>>

\* A bug of the naive loops: the fence is left to the caller.
NoFenceByte ==
    /\ pc = "sfence"
    /\ pc' = "next"
    /\ UNCHANGED <<call, clflush, old, mem, i, durable, flushed>>

FenceByte ==
    /\ pc = "sfence"
    /\ Fence
    /\ pc' = "next"
    /\ UNCHANGED <<call, clflush, old, mem, i>>

NextByte ==
    /\ pc = "next"
    /\ i' = i + 1
    /\ pc' = "store"
    /\ UNCHANGED <<call, clflush, old, mem, flushed, durable>>

EndNaive ==
    /\ pc = "store" /\ ~(i < n)
    /\ pc' = "return"
    /\ UNCHANGED <<call, clflush, old, mem, flushed, durable, i>>

\* The fence of the fix.
CallerFence ==
    /\ pc = "return"
    /\ Fence
    /\ pc' = "done"
    /\ UNCHANGED <<call, clflush, old, mem, i>>

Next == \/ LibcCall \/ FlushLoop \/ EndFlushLoop
        \/ EnterNaive \/ StoreByte \/ FlushByte \/ FenceByte \/ NextByte \/ EndNaive
        \/ CallerFence

Spec == Init /\ [][Next]_vars

-----------------------------------------------------------------------------

TypeOK ==
    /\ call \in Calls
    /\ DOMAIN mem = Address
    /\ flushed \subseteq Region(d, n) /\ durable \subseteq Address
    /\ flushed \cap durable = {}
    /\ clflush \in BOOLEAN
    /\ i \in 0 .. n + LineSize - 1
    /\ pc \in {"enter", "flush", "store", "clwb", "sfence", "next", "return", "done"}

\* The replacement computes what the replaced function does: in particular
\* memmove_naive copies in the direction that never reads a byte it has
\* overwritten, whichever way the buffers overlap.
ComputesResult == pc \in {"return", "done"} => mem = Result

\* The naive forms persist in order: when a byte is stored, at most that byte
\* is not durable, so a crash leaves a prefix of the work.
PersistsInOrder == call.naive /\ pc \in {"store", "return"} => durable = Address

\* "Replace all memory primitives with persistent versions" (BugFixer.hpp):
\* after the fence of the fix all that the call wrote is durable ...
Persists == pc = "done" => durable = Address

\* ... and it is when the lines flush_loop visits from the destination on are
\* all that the buffer lies in, as they are for an aligned destination.
PersistsWhenItFits ==
    (n = 0 \/ call.naive \/ (d % LineSize) + ((n - 1) % LineSize) < LineSize) => Persists
=============================================================================
