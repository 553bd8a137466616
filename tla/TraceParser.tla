---------------------------- MODULE TraceParser ----------------------------
(***************************************************************************)
(* tools/parse-trace: a TraceParser reads a log in the format it is told,  *)
(* by the reader for the logs of PMTest or by that for those of pmemcheck, *)
(* into the report that Reports reduces.                                   *)
(***************************************************************************)
EXTENDS Integers, Sequences, FiniteSets

CONSTANTS
    Logs,        \* whole logs of pmemcheck
    NoCount,     \* None
    PMTestLogs   \* whole logs of PMTest

VARIABLES
    format,      \* the format told: a key of FORMATS
    log, i, report, time, pc,                                 \* of both readers
    started, stopped, total, remaining, last, isPerf,         \* of pmemcheck's
    entries                                                   \* of PMTest's

P == INSTANCE Pmemcheck
T == INSTANCE PMTest

ASSUME LogAssumption == P!LogsTyped /\ T!LogsTyped

\* What is said of bugs is said of logs that pmemcheck has written.
ASSUME FormAssumption == \A whole \in Logs : P!IsWritten(whole)

vars == <<format, log, i, report, time, pc, started, stopped, total, remaining, last, isPerf, entries>>
pmemcheckOnly == <<started, stopped, total, remaining, last, isPerf>>

Init ==
    \/ /\ format = "pmemcheck" /\ P!Init
       /\ entries = <<>>
    \/ /\ format = "pmtest" /\ T!Init
       /\ started = FALSE /\ stopped = FALSE /\ isPerf = FALSE
       /\ total = NoCount /\ remaining = NoCount /\ last = -1

Next ==
    \/ format = "pmemcheck" /\ P!Next /\ UNCHANGED <<format, entries>>
    \/ format = "pmtest" /\ T!Next /\ UNCHANGED <<format, pmemcheckOnly>>

Spec == Init /\ [][Next]_vars

-----------------------------------------------------------------------------
(* Properties.                                                             *)

PMTestEvents == {"STORE", "FLUSH", "FENCE", "ASSERT_PERSISTED", "ASSERT_ORDERED", "REQUIRED_FLUSH"}

\* The types; each entry of PMTest has given at most one event so far.
TypeOK ==
    /\ format \in {"pmemcheck", "pmtest"}
    /\ format = "pmemcheck" => P!TypeOK
    /\ format = "pmtest" =>
          /\ log \in Seq(T!Lines) /\ i \in Nat \ {0} /\ time \in Nat
          /\ entries \in Seq([time : Nat, what : T!Lines, stack : BOOLEAN])
          /\ report \in Seq([event : PMTestEvents, time : Nat, bug : BOOLEAN, entry : Nat])
          /\ Len(report) <= Len(entries)
          /\ pc \in {"lines", "entries", "done", "abort"}

PMTestDone == format = "pmtest" /\ pc = "done"
MadeAt(t, event) == {k \in DOMAIN report : report[k].time = t /\ report[k].event = event}

\* The last of the operations at or before line n that is not an error.
OperationBefore(n) ==
    LET ops == {m \in 1 .. n : log[m] \in T!pmtest_events} IN
    CHOOSE m \in ops : \A other \in ops : other <= m

(***************************************************************************)
(* When the reader is through, every error that PMTest reported is a bug   *)
(* of the report at the operation it came from, each warning that of a     *)
(* flush, and nothing else is one.  The lines of the log tell: the reader  *)
(* looks at entries, which have other numbers.                             *)
(***************************************************************************)
PMTestErrors ==
    {<<OperationBefore(n) - 1, T!EventOf[log[OperationBefore(n)]]>> :
        n \in {m \in DOMAIN log : log[m] \in T!Errors}}
PMTestWarnings ==
    {<<OperationBefore(n) - 1, "REQUIRED_FLUSH">> : n \in {m \in DOMAIN log : log[m] = T!Warning}}
PMTestBugs == {<<report[k].time, report[k].event>> : k \in {j \in DOMAIN report : report[j].bug}}

IsEntry(n) == log[n] \in T!pmtest_events \cup T!pmtest_errors

\* Line n comes next after line m, leaving out those that are no entries.
Follows(m, n) == m < n /\ \A k \in m + 1 .. n - 1 : ~IsEntry(k)

\* Each error comes next after its assertion, where the reader looks for it.
ErrorsFollow ==
    \A n \in DOMAIN log : log[n] \in T!Errors =>
        \E m \in DOMAIN log :
            Follows(m, n) /\ log[m] \in DOMAIN T!ErrorOf /\ T!ErrorOf[log[m]] = log[n]

AllBugsRead ==
    /\ format = "pmemcheck" => P!AllBugsRead
    /\ PMTestDone =>
          /\ PMTestBugs \subseteq PMTestErrors \cup PMTestWarnings
          /\ PMTestWarnings \subseteq PMTestBugs
          /\ ErrorsFollow => PMTestErrors \subseteq PMTestBugs

\* The operations are those of the trace, line by line.
OperationsRead ==
    /\ format = "pmemcheck" => P!OperationsRead
    /\ PMTestDone =>
          \A n \in DOMAIN log : log[n] \in T!Supported =>
              Cardinality(MadeAt(n - 1, T!EventOf[log[n]])) = 1

\* Times tell the order of the trace, which the reduction sorts by: no two
\* events have the same, but for the warning about a flush.
TimesIncrease ==
    IF format = "pmemcheck" THEN P!TimesIncrease
    ELSE \A k \in 2 .. Len(report) :
            \/ report[k - 1].time < report[k].time
            \/ report[k].event = "REQUIRED_FLUSH" /\ report[k - 1].time = report[k].time

\* A warning after an error is beyond the events there are: entries that are
\* errors have no event of their own.
WarnsAfterError ==
    \E m, n \in DOMAIN log : m < n /\ log[m] \in T!Errors /\ log[n] = T!Warning

\* The other logs that the reader of PMTest cannot read: with lines it does not
\* expect, with an operation that has no stack trace before the next entry, those
\* that begin with the stack trace, or with the warning, of nothing, and those
\* that warn of a fence or of an assertion of order, which have no address.
HasStack(n) == \E m \in DOMAIN log : Follows(n, m) /\ log[m] = "stack"
IsOdd ==
    \E n \in DOMAIN log :
        \/ log[n] \in T!Unsupported \cup {"word"}
        \/ log[n] \in T!Supported /\ ~HasStack(n)
        \/ log[n] \in {"stack", T!Warning} /\ Follows(0, n)
        \/ log[n] = T!Warning /\ \E m \in DOMAIN log : Follows(m, n) /\ log[m] \in {"_FENCE", "_ORDER"}

\* A whole log of pmemcheck is read without an assertion or a missing line if its
\* frames can be read, and to its end only if those needed can; and of PMTest's,
\* whole or cut short, exactly those are that are not odd.
WholeLogsRead ==
    IF format = "pmemcheck" THEN P!WholeLogsRead
    ELSE /\ pc = "abort" => WarnsAfterError \/ IsOdd
         /\ pc = "done" => ~WarnsAfterError /\ ~IsOdd
=============================================================================
