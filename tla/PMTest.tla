------------------------------- MODULE PMTest -------------------------------
(***************************************************************************)
(* tools/parse-trace: TraceParser._parse_pmtest reads a log of PMTest in   *)
(* two passes.  The first keeps the lines that are operations or errors,   *)
(* with the stack trace that may follow them; the second makes events of   *)
(* them, looking ahead for the errors of an assertion and back for the     *)
(* flush of a warning.                                                     *)
(*                                                                         *)
(* A line is a command or an error, "stack" (STACK TRACE: ...), "words",   *)
(* which is passed over, or "word": a line without a space in it.          *)
(***************************************************************************)
EXTENDS Integers, Sequences

CONSTANT PMTestLogs  \* whole logs

\* The commands that become an event; others are known, and not supported.
EventOf == [_ASSIGN |-> "STORE", _FLUSH |-> "FLUSH", _FENCE |-> "FENCE",
            _PERSIST |-> "ASSERT_PERSISTED", _ORDER |-> "ASSERT_ORDERED"]
Supported == DOMAIN EventOf

\* The error that follows an assertion which failed.
ErrorOf == [_PERSIST |-> "PERSIST ERROR", _ORDER |-> "ORDER ERROR"]
Errors == {"PERSIST ERROR", "ORDER ERROR"}
Warning == "FLUSH WARNING"

Unsupported == {"_COMMIT", "ASSIGN ERROR"}
pmtest_events == Supported \cup {"_COMMIT"}
pmtest_errors == Errors \cup {Warning, "ASSIGN ERROR"}
Lines == pmtest_events \cup pmtest_errors \cup {"stack", "words", "word"}

\* What TraceParser assumes of the logs.
LogsTyped == PMTestLogs \subseteq Seq(Lines)

VARIABLES
    log,      \* the lines: a log, or the beginning of one that was cut short
    i,        \* the line, then the entry, it is at
    entries,  \* pmtest_trace
    report,   \* the events, each with its entry
    time,     \* timestamp
    pc

vars == <<log, i, entries, report, time, pc>>

Init ==
    /\ \E whole \in PMTestLogs : \E n \in 0 .. Len(whole) : log = SubSeq(whole, 1, n)
    /\ i = 1
    /\ entries = <<>> /\ report = <<>>
    /\ time = 0
    /\ pc = "lines"

-----------------------------------------------------------------------------
(* The first pass.                                                         *)

Reading == pc = "lines" /\ i <= Len(log)

\* The time is that of the line: it goes on at lines that are passed over.
ReadEntry ==
    /\ Reading /\ log[i] \in pmtest_events \cup pmtest_errors
    /\ entries' = Append(entries, [time |-> time, what |-> log[i], stack |-> FALSE])
    /\ i' = i + 1 /\ time' = time + 1
    /\ UNCHANGED <<log, report, pc>>

\* A stack trace belongs to the last entry.
ReadStack ==
    /\ Reading /\ log[i] = "stack" /\ entries # <<>>
    /\ entries' = [entries EXCEPT ![Len(entries)].stack = TRUE]
    /\ i' = i + 1 /\ time' = time + 1
    /\ UNCHANGED <<log, report, pc>>

SkipWords ==
    /\ Reading /\ log[i] = "words"
    /\ i' = i + 1 /\ time' = time + 1
    /\ UNCHANGED <<log, entries, report, pc>>

EndLines ==
    /\ pc = "lines" /\ i > Len(log)
    /\ pc' = "entries" /\ i' = 1
    /\ UNCHANGED <<log, entries, report, time>>

-----------------------------------------------------------------------------
(* The second pass.                                                        *)

Making == pc = "entries" /\ i <= Len(entries)
Entry == entries[i]

\* A bug of the lookahead: an error that comes later is taken for its own.
FailsLater ==
    /\ Entry.what \in DOMAIN ErrorOf
    /\ \E k \in i + 1 .. Len(entries) : entries[k].what = ErrorOf[Entry.what]

\* The assertion is followed by its error.
Fails ==
    /\ Entry.what \in DOMAIN ErrorOf
    /\ i < Len(entries) /\ entries[i + 1].what = ErrorOf[Entry.what]

\* An event has to have a stack.
MakeEvent ==
    /\ Making /\ Entry.what \in Supported /\ Entry.stack
    /\ report' = Append(report, [event |-> EventOf[Entry.what], time |-> Entry.time,
                                 bug |-> Fails, entry |-> i])
    /\ i' = i + 1
    /\ UNCHANGED <<log, entries, time, pc>>

\* It was made with the assertion.
PassError ==
    /\ Making /\ Entry.what \in Errors
    /\ i' = i + 1
    /\ UNCHANGED <<log, entries, report, time, pc>>

\* report[i-1]: the event with the number of the entry before.
Warned == i - 1

\* _validate: a flush that was required has an address, which a fence and an
\* assertion about two ranges do not have.
HasAddress(e) == e.event \notin {"FENCE", "ASSERT_ORDERED"}

\* A copy of that event: as of its time and place, with a new type.
MakeWarning ==
    /\ Making /\ Entry.what = Warning /\ Warned \in DOMAIN report /\ HasAddress(report[Warned])
    /\ report' = Append(report, [report[Warned] EXCEPT !.event = "REQUIRED_FLUSH", !.bug = TRUE])
    /\ i' = i + 1
    /\ UNCHANGED <<log, entries, time, pc>>

\* A line without a space, a stack trace of nothing; an entry that is not
\* supported, an event without a stack, a warning past the end of the report or
\* of what has no address.
Fail ==
    /\ \/ Reading /\ log[i] = "word"
       \/ Reading /\ log[i] = "stack" /\ entries = <<>>
       \/ Making /\ Entry.what \in Unsupported
       \/ Making /\ Entry.what \in Supported /\ ~Entry.stack
       \/ Making /\ Entry.what = Warning /\ Warned \notin DOMAIN report
       \/ Making /\ Entry.what = Warning /\ Warned \in DOMAIN report /\ ~HasAddress(report[Warned])
    /\ pc' = "abort"
    /\ UNCHANGED <<log, i, entries, report, time>>

Finish ==
    /\ pc = "entries" /\ i > Len(entries)
    /\ pc' = "done"
    /\ UNCHANGED <<log, i, entries, report, time>>

Next == \/ ReadEntry \/ ReadStack \/ SkipWords \/ EndLines
        \/ MakeEvent \/ PassError \/ MakeWarning
        \/ Fail \/ Finish

Spec == Init /\ [][Next]_vars
=============================================================================
