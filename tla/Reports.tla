------------------------------ MODULE Reports ------------------------------
(***************************************************************************)
(* BugReport.dump (tools/Reports.py): the trace that parse-trace read from *)
(* the log of a bug finder is reduced before the fixer gets to see it.     *)
(* Four passes: bugs with the same stack, operations away from all bugs,   *)
(* flushes, and repeated fences are removed.                               *)
(*                                                                         *)
(* Timestamps are the positions in the trace read: they order the events.  *)
(* (Only a REQUIRED_FLUSH of PMTest repeats one, that of the flush it was  *)
(* made of; the fixer passes over it.)                                     *)
(***************************************************************************)
EXTENDS AddressInfo, Sequences

SE == INSTANCE SequencesExt

CONSTANTS
    Stack,      \* call stacks
    Inputs      \* the traces read

OpEvents  == {"STORE", "FLUSH", "FENCE"}
BugEvents == {"ASSERT_PERSISTED", "ASSERT_ORDERED", "REQUIRED_FLUSH"}

\* An event has one range; a FENCE none, ASSERT_ORDERED two.  is_bug tells an
\* assertion that failed from one that held.
TraceEvent == [timestamp : Nat,
               event     : OpEvents \cup BugEvents,
               ranges    : SUBSET AddressRange,
               stack     : Stack,
               is_bug    : BOOLEAN]

ASSUME InputsAssumption ==
    \A t \in Inputs :
        /\ t \in Seq(TraceEvent)
        /\ \A j \in DOMAIN t : /\ t[j].timestamp = j
                               /\ t[j].event \in {"STORE", "FLUSH"} =>
                                    \E r \in t[j].ranges : t[j].ranges = {r}

VARIABLES
    input,      \* the trace read
    trace,      \* self.trace
    step,       \* the pass at work
    pos,        \* the event it is at
    in_flight,  \* stores not flushed yet
    new_trace,  \* events kept by the third pass
    prev_te     \* the timestamp of the last operation kept by the fourth, or 0

vars == <<input, trace, step, pos, in_flight, new_trace, prev_te>>

Init ==
    /\ input \in Inputs
    /\ trace = input
    /\ step = 1
    /\ pos = 1
    /\ in_flight = {} /\ new_trace = {}
    /\ prev_te = 0

IsStore(e) == e.event = "STORE"
IsFlush(e) == e.event = "FLUSH"
IsFence(e) == e.event = "FENCE"

\* _is_bug: any assertion, whether it failed or held.
IsBug(e) == e.event \in BugEvents

BugsOf(t)  == {e \in SE!ToSet(t) : IsBug(e)}
Overlap(e, f) == \E r \in e.ranges, q \in f.ranges : Overlaps(r, q)

\* The events of t that are in S, in their order.
Only(t, S) ==
    LET upTo[n \in 0 .. Len(t)] ==
          IF n = 0 THEN <<>>
          ELSE IF t[n] \in S THEN Append(upTo[n - 1], t[n])
          ELSE upTo[n - 1]
    IN  upTo[Len(t)]

\* A bug of the first pass: all the bugs of a stack that comes twice go.
IsLonely(t, e) == \A b \in BugsOf(t) : b.stack = e.stack => b = e

\* The first of the bugs with its stack.
IsUnique(t, e) == \A b \in BugsOf(t) : b.stack = e.stack => e.timestamp <= b.timestamp

\* Step 1, _opt_remove_redt_bugs.
RemoveRedundantBugs ==
    /\ step = 1
    /\ trace' = Only(trace, {e \in SE!ToSet(trace) : IsBug(e) => IsUnique(trace, e)})
    /\ step' = 2
    /\ UNCHANGED <<input, pos, in_flight, new_trace, prev_te>>

IsRelevant(t, e) == \E b \in BugsOf(t) : Overlap(e, b)

\* Step 2: stores and flushes away from all the bugs are removed.
RemoveIrrelevant ==
    /\ step = 2
    /\ trace' = Only(trace, {e \in SE!ToSet(trace) : IsStore(e) \/ IsFlush(e) => IsRelevant(trace, e)})
    /\ step' = 3
    /\ UNCHANGED <<input, pos, in_flight, new_trace, prev_te>>

-----------------------------------------------------------------------------
(* Step 3: flushes are removed; the stores are put back in order.          *)

At(n) == step = n /\ pos <= Len(trace)

PassEvent ==
    /\ At(3)
    /\ ~IsFlush(trace[pos]) /\ ~IsStore(trace[pos])
    /\ new_trace' = new_trace \cup {trace[pos]}
    /\ pos' = pos + 1
    /\ UNCHANGED <<input, trace, step, in_flight, prev_te>>

InFlightOf(e) == {f \in in_flight : Overlap(f, e)}

\* What the comments say of the loop: a store overwrites what it overlaps.
TrackOverwriting ==
    /\ At(3)
    /\ IsStore(trace[pos])
    /\ in_flight' = (in_flight \ InFlightOf(trace[pos])) \cup {trace[pos]}
    /\ pos' = pos + 1
    /\ UNCHANGED <<input, trace, step, new_trace, prev_te>>

Track ==
    /\ At(3)
    /\ IsStore(trace[pos])
    /\ in_flight' = in_flight \cup {trace[pos]}
    /\ pos' = pos + 1
    /\ UNCHANGED <<input, trace, step, new_trace, prev_te>>

Land ==
    /\ At(3)
    /\ IsFlush(trace[pos])
    /\ new_trace' = new_trace \cup InFlightOf(trace[pos])
    /\ in_flight' = in_flight \ InFlightOf(trace[pos])
    /\ pos' = pos + 1
    /\ UNCHANGED <<input, trace, step, prev_te>>

\* The stores never flushed are added, and all is sorted by timestamp, which
\* is the order the events were read in.
SortTrace ==
    /\ step = 3 /\ pos > Len(trace)
    /\ trace' = Only(input, new_trace \cup in_flight)
    /\ in_flight' = {} /\ new_trace' = {}
    /\ pos' = 1
    /\ step' = 4
    /\ UNCHANGED <<input, prev_te>>

-----------------------------------------------------------------------------
(* Step 4: of fences with only bugs between them, the first is kept.       *)

RepeatsFence(e) == IsFence(e) /\ prev_te # 0 /\ IsFence(input[prev_te])

KeepEvent ==
    /\ At(4)
    /\ ~RepeatsFence(trace[pos])
    /\ prev_te' = IF IsBug(trace[pos]) THEN prev_te ELSE trace[pos].timestamp
    /\ pos' = pos + 1
    /\ UNCHANGED <<input, trace, step, in_flight, new_trace>>

\* A bug of the last pass: the event after a dropped fence is skipped.
DropFenceAdvancing ==
    /\ At(4)
    /\ RepeatsFence(trace[pos])
    /\ trace' = SE!RemoveAt(trace, pos)
    /\ pos' = pos + 1
    /\ UNCHANGED <<input, step, in_flight, new_trace, prev_te>>

DropFence ==
    /\ At(4)
    /\ RepeatsFence(trace[pos])
    /\ trace' = SE!RemoveAt(trace, pos)
    /\ UNCHANGED <<input, step, pos, in_flight, new_trace, prev_te>>

\* The trace is written.
Dump ==
    /\ step = 4 /\ pos > Len(trace)
    /\ step' = 5
    /\ UNCHANGED <<input, trace, pos, in_flight, new_trace, prev_te>>

Next == \/ RemoveRedundantBugs \/ RemoveIrrelevant
        \/ PassEvent \/ Track \/ Land \/ SortTrace
        \/ KeepEvent \/ DropFence \/ Dump

Spec == Init /\ [][Next]_vars

-----------------------------------------------------------------------------

Written == step = 5

\* The types; and every pass keeps the events in the order of the program.
TypeOK ==
    /\ input \in Seq(TraceEvent)
    /\ SE!ToSet(trace) \subseteq SE!ToSet(input)
    /\ \A j, k \in DOMAIN trace : j < k => trace[j].timestamp < trace[k].timestamp
    /\ step \in 1 .. 5
    /\ pos \in 1 .. Len(trace) + 1
    /\ in_flight \subseteq SE!ToSet(trace) /\ new_trace \subseteq SE!ToSet(trace)
    /\ prev_te \in 0 .. Len(input)

\* What the fixer's scan reads of t before bug b: the fences, and the stores
\* that overlap the bug; of fences in a row, the first.
Read(t, b) == {e \in SE!ToSet(t) : /\ e.timestamp < b.timestamp
                                   /\ IsFence(e) \/ (IsStore(e) /\ Overlap(e, b))}
StoreBetween(t, b, f, e) ==
    \E s \in Read(t, b) : IsStore(s) /\ f.timestamp < s.timestamp /\ s.timestamp < e.timestamp
View(t, b) ==
    {e \in Read(t, b) : IsFence(e) =>
        \A f \in Read(t, b) : IsFence(f) /\ f.timestamp < e.timestamp => StoreBetween(t, b, f, e)}

(***************************************************************************)
(* The passes after the first lose nothing a bug that is left depends on:  *)
(* handleAssertPersisted finds the same stores before it, in the same      *)
(* order and with a fence between the same of them, and no flush, on which *)
(* two of its assertions would fail.                                       *)
(***************************************************************************)
ScanUnchanged ==
    Written => /\ \A b \in BugsOf(trace) : View(trace, b) = View(input, b)
               /\ \A e \in SE!ToSet(trace) : ~IsFlush(e)

-----------------------------------------------------------------------------
(* What the fixer inserts for the reports of a trace: the outcome of       *)
(* PersistScan where no flush is met.  A fix is named by the stack of the  *)
(* store it follows.                                                       *)

\* The reports that the fixer fixes.
Failed(t) == {b \in BugsOf(t) : b.event = "ASSERT_PERSISTED" /\ b.is_bug}

BytesOf(e) == UNION {Bytes(r) : r \in e.ranges}

\* Stores of S, made after event e, have written all of bug b's range.
CoveredSince(S, b, e) ==
    \A x \in BytesOf(b) : \E s \in S : /\ IsStore(s) /\ e.timestamp < s.timestamp
                                       /\ x \in BytesOf(s)

\* The stores the scan collects until they cover the range.
Collected(t, b) == {e \in Read(t, b) : IsStore(e) /\ ~CoveredSince(Read(t, b), b, e)}

Covered(t, b) == \A x \in BytesOf(b) : \E s \in Collected(t, b) : x \in BytesOf(s)

\* The scan passes a fence before it ends.
FencePassed(t, b) ==
    \E f \in Read(t, b) : /\ IsFence(f)
                          /\ Covered(t, b) => \E e \in Collected(t, b) : e.timestamp < f.timestamp

Needed(t, b) == (IF Covered(t, b) \/ FencePassed(t, b) THEN {"flush"} ELSE {})
                \cup (IF FencePassed(t, b) THEN {} ELSE {"fence"})

Inserted(t) == UNION {{e.stack : e \in Collected(t, b)} \X Needed(t, b) : b \in Failed(t)}

(***************************************************************************)
(* "We want to remove bugs which have redundant fix locations": the fixer  *)
(* inserts as much for the reports that are left as for all of them.       *)
(***************************************************************************)
RedundantOnly == Written => Inserted(input) \subseteq Inserted(trace)

\* "The bugs have the location of the modification": the stores to fix for a
\* report, and there are some, were made on the stack that it names.
Located == \A b \in Failed(input) :
    Collected(input, b) # {} /\ \A e \in Collected(input, b) : e.stack = b.stack

\* The assertions on one stack failed, or else none of them: one that held is
\* kept like any other, and hides the failures after it.
SameOutcome ==
    \A b, c \in BugsOf(input) : b.stack = c.stack => (b \in Failed(input) <=> c \in Failed(input))

\* Those that failed miss the same: after STORE, FENCE, a failure, and again STORE
\* and a failure, the first misses a flush and the second, dropped, a fence too.
SameNeeds ==
    \A b, c \in Failed(input) : b.stack = c.stack => Needed(input, b) = Needed(input, c)

(***************************************************************************)
(* So it is when the reports name the locations of the stores, and the     *)
(* assertions on one stack have one outcome and miss the same: the passes  *)
(* together lose no fix and weaken none.                                   *)
(***************************************************************************)
RedundantWhenAlike == Located /\ SameOutcome /\ SameNeeds => RedundantOnly

=============================================================================
