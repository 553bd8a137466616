--------------------------- MODULE MCPersistScan ---------------------------
(***************************************************************************)
(* Instances of PersistScan: every trace of at most MaxLen events over two *)
(* cache lines of two bytes, with a report the tool can have made of it.   *)
(***************************************************************************)
EXTENDS PersistScan

CONSTANTS MaxLen, LastByte

\* Ranges of at most m bytes.
Ranges(m) == {r \in [address : 0 .. LastByte, length : 1 .. m] : End(r) <= LastByte}

\* Accesses within a cache line, and one that crosses into the next.
Accesses == {r \in Ranges(LineSize) : IsSingleCacheLine(r) \/ Start(r) = LineSize - 1}

Events == {[type |-> "STORE", addr |-> r] : r \in Accesses}
          \cup {[type |-> "FLUSH", addr |-> r] : r \in {a \in Accesses : a.length = LineSize}}
          \cup {[type |-> t, addr |-> EmptyRange] : t \in {"FENCE", "BUG"}}

\* What comes before the first store of a trace has no effect on it.
Traces == {t \in UNION {[1 .. n -> Events] : n \in 1 .. MaxLen} : t[1].type = "STORE"}

\* A report: some byte of the range was written and is not durable.
Reported(in) == \E b \in Bytes(in.bug) : ~Durable(in.trace, b)

StoreInputs == {in \in [trace : Traces, bug : Ranges(LastByte + 1), storeless : {{}}] : Reported(in)}

\* The first event may also be one that is no store or cmpxchg itself.
AllInputs == StoreInputs \cup {[in EXCEPT !.storeless = {1}] :
                                  in \in {s \in StoreInputs : Len(s.trace) < MaxLen}}

\* What parse-trace writes: Reports.py keeps no FLUSH event.
NoFlushInputs == {in \in StoreInputs : \A j \in DOMAIN in.trace : in.trace[j].type # "FLUSH"}
=============================================================================
