------------------------------- MODULE PMem -------------------------------
(***************************************************************************)
(* The persistency model the repository relies on and does not implement:  *)
(* x86 stores, CLWB/CLFLUSHOPT and SFENCE.  A byte reaches persistent      *)
(* memory when, after the store that wrote it, its cache line is flushed   *)
(* and a fence follows that flush.                                         *)
(*                                                                         *)
(* A trace is a sequence of events.  A repair of a trace says, for every   *)
(* event, what the patched program executes right after it: the flush      *)
(* first, then the fence (GenericFixGenerator::insertFlush and             *)
(* insertFence, as BugFixer::fixBug orders them).                          *)
(***************************************************************************)
EXTENDS AddressInfo, Sequences

OperationTypes == {"STORE", "FLUSH", "FENCE"}

\* FENCE events have no address, a BUG is an assertion the tool reported.
Event == [type : OperationTypes \cup {"BUG"},
          addr : AddressRange \cup {EmptyRange}]

FixKinds == {"flush", "fence"}

Writes(e, b)  == e.type = "STORE" /\ b \in Bytes(e.addr)
Flushes(e, b) == /\ e.type = "FLUSH"
                 /\ \E c \in Bytes(e.addr) : LineOf(c) = LineOf(b)

\* insertFlush emits one CLWB, of the address the store writes to.
AddedFlushReaches(e, b) == e.type = "STORE" /\ LineOf(Start(e.addr)) = LineOf(b)

\* What event w wrote to b has left the cache by event f.
FlushedBy(s, fixes, b, w, f) ==
    \/ w < f /\ Flushes(s[f], b)
    \/ w <= f /\ "flush" \in fixes[f] /\ AddedFlushReaches(s[f], b)

\* The flush at f comes before a fence at k.
FencedBy(s, fixes, f, k) ==
    \/ f < k /\ s[k].type = "FENCE"
    \/ f <= k /\ "fence" \in fixes[k]

\* Every store to byte b is durable when the repaired trace s ends.
DurableWith(s, fixes, b) ==
    \A w \in DOMAIN s : Writes(s[w], b) =>
        \E f, k \in DOMAIN s : FlushedBy(s, fixes, b, w, f) /\ FencedBy(s, fixes, f, k)

NoFixes(s) == [j \in DOMAIN s |-> {}]

Durable(s, b) == DurableWith(s, NoFixes(s), b)
=============================================================================
