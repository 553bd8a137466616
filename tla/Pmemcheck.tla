----------------------------- MODULE Pmemcheck -----------------------------
(***************************************************************************)
(* tools/parse-trace: TraceParser._parse_pmemcheck reads a log of          *)
(* pmemcheck into the trace that Reports reduces.                          *)
(*                                                                         *)
(* A line of the log is what the reader tells lines apart by:              *)
(*   trace     events, separated by bars, as a sequence                    *)
(*   stop      the end of the trace                                        *)
(*   stores    "Number of stores not made persistent: " arg                *)
(*   header    "Stores not made persistent properly"                       *)
(*   flushes   "Number of unnecessary flushes: " arg                       *)
(*   at        "[arg] at" and the innermost frame of a bug                 *)
(*   by        a further frame                                             *)
(*   address   the range of the bug                                        *)
(*   other     anything else                                               *)
(* and, as located, by whether the frames that are needed of it can be     *)
(* read: of the trace the first of each operation, of a bug the line's own.*)
(***************************************************************************)
EXTENDS Integers, Sequences

CONSTANTS
    Logs,     \* whole logs
    NoCount   \* None

Operations == {"STORE", "FLUSH", "FENCE"}
Events == Operations \cup {"START", "REGISTER_FILE"}
Sections == [stores |-> "ASSERT_PERSISTED", flushes |-> "REQUIRED_FLUSH"]

Line == [kind : {"trace"}, arg : Seq(Events), located : BOOLEAN]
        \cup [kind : {"stores", "flushes", "at"}, arg : Nat, located : BOOLEAN]
        \cup [kind : {"stop", "header", "by", "address", "other"}, arg : {0}, located : BOOLEAN]

\* What TraceParser assumes of the logs: pmemcheck writes one trace, and nothing
\* of it after its end.
LogsTyped ==
    /\ NoCount \notin Int /\ Logs \subseteq Seq(Line)
    /\ \A whole \in Logs : \A m, n \in DOMAIN whole :
          whole[m].kind = "stop" /\ whole[n].kind = "trace" => n < m

\* The frames of a bug from line a to e, and the range after them.
IsTrace(w, a, e) ==
    /\ a <= e /\ w[a].kind = "at"
    /\ \A k \in a + 1 .. e : w[k].kind = "by"
    /\ e + 1 \in DOMAIN w /\ w[e + 1].kind = "address"

\* The lines that count the bugs of a section, and where these start.
Counts(w) == {m \in DOMAIN w : w[m].kind \in DOMAIN Sections}
BugsOf(w, m) == {a \in DOMAIN w : w[a].kind = "at" /\ m < a /\ \A k \in m + 1 .. a : k \notin Counts(w)}
FirstBug(w, m) == IF w[m].kind = "stores" THEN m + 2 ELSE m + 1

\* A section has as many bugs as it says, one after the other, in the order of
\* their numbers, and below a header if they are stores.
SectionWritten(w, m) ==
    LET bugs == BugsOf(w, m)
        n    == w[m].arg
    IN  /\ n > 0 => /\ w[m].kind = "stores" => w[m + 1].kind = "header"
                    /\ FirstBug(w, m) \in bugs /\ w[FirstBug(w, m)].arg = 0
        /\ \A a \in bugs :
              /\ w[a].arg < n
              /\ \E e \in a .. Len(w) :
                    /\ IsTrace(w, a, e)
                    /\ w[a].arg + 1 < n => e + 2 \in bugs /\ w[e + 2].arg = w[a].arg + 1
              /\ \A b \in bugs : w[b].arg = w[a].arg => b = a

\* A log in the form of pmemcheck, which the assertions of _parse_pmemcheck are
\* about: the trace and its end, then the sections, that of the flushes last,
\* and a line after one that has no stores.
IsWritten(w) ==
    /\ \A m \in DOMAIN w : w[m].kind = "stop" => \E n \in 1 .. m : w[n].kind = "trace"
    /\ \A m \in Counts(w) : \E n \in 1 .. m : w[n].kind = "stop"
    /\ \A a \in DOMAIN w : w[a].kind = "at" => \E m \in 1 .. a : m \in Counts(w)
    /\ \A m, n \in Counts(w) : /\ m < n => w[m].kind = "stores"
                               /\ n = m + 1 => w[m].arg > 0
    /\ \A m \in Counts(w) : SectionWritten(w, m)

VARIABLES
    log,        \* lines: a log, or the beginning of one that was cut short
    i,
    started,    \* start_trace
    stopped,    \* stop_trace
    total,      \* nbugs_total
    remaining,  \* nbugs_remaining
    last,       \* last_bug_no
    isPerf,     \* is_perf
    report,     \* the events, each with its time; a bug with its lines
    time,       \* timestamp
    pc

vars == <<log, i, started, stopped, total, remaining, last, isPerf, report, time, pc>>
section == <<total, remaining, last, isPerf>>

Init ==
    /\ \E whole \in Logs : \E n \in 0 .. Len(whole) : log = SubSeq(whole, 1, n)
    /\ i = 1
    /\ started = FALSE /\ stopped = FALSE
    /\ total = NoCount /\ remaining = NoCount /\ last = -1 /\ isPerf = FALSE
    /\ report = <<>> /\ time = 0
    /\ pc = "read"

-----------------------------------------------------------------------------
Reading == pc = "read" /\ i <= Len(log)
This == log[i]
KindAt(n) == IF n <= Len(log) THEN log[n].kind ELSE "end"

OperationsOf(line) ==
    LET upTo[n \in 0 .. Len(line.arg)] ==
          IF n = 0 THEN <<>>
          ELSE IF line.arg[n] \in Operations THEN Append(upTo[n - 1], line.arg[n])
          ELSE upTo[n - 1]
    IN upTo[Len(line.arg)]

\* _parse_pmemcheck_events: the operations of a line, one time after another.
Parsed(line) ==
    [k \in 1 .. Len(OperationsOf(line)) |->
        [event |-> OperationsOf(line)[k], time |-> time + k - 1, lines |-> <<i, i>>, no |-> -1]]

\* A bug of the reading: the line that starts the trace is not parsed.
StartUnread ==
    /\ Reading /\ ~started
    /\ started' = (This.kind = "trace")
    /\ i' = i + 1
    /\ UNCHANGED <<log, stopped, section, report, time, pc>>

\* The first line with an event starts the trace.
Start ==
    /\ Reading /\ ~started
    /\ \/ /\ This.kind = "trace" /\ This.located
          /\ started' = TRUE
          /\ report' = report \o Parsed(This)
          /\ time' = time + Len(OperationsOf(This))
       \/ /\ This.kind # "trace"
          /\ UNCHANGED <<started, report, time>>
    /\ i' = i + 1
    /\ UNCHANGED <<log, stopped, section, pc>>

\* A bug of the clock: only the generator's own copy of it runs.
ReadEventsAtOnce ==
    /\ Reading /\ started /\ ~stopped
    /\ This.kind = "trace" /\ This.located
    /\ report' = report \o Parsed(This)
    /\ i' = i + 1
    /\ UNCHANGED <<log, started, stopped, section, time, pc>>

\* The trace goes on until its last line; a line without events has none.
ReadEvents ==
    /\ Reading /\ started /\ ~stopped
    /\ This.kind = "trace" /\ This.located
    /\ report' = report \o Parsed(This)
    /\ time' = time + Len(OperationsOf(This))
    /\ i' = i + 1
    /\ UNCHANGED <<log, started, stopped, section, pc>>

SkipOrStop ==
    /\ Reading /\ started /\ ~stopped
    /\ This.kind # "trace"
    /\ stopped' = (This.kind = "stop")
    /\ i' = i + 1
    /\ UNCHANGED <<log, started, section, report, time, pc>>

-----------------------------------------------------------------------------
(* After the trace: sections of numbered bugs.                             *)

Seeking == Reading /\ started /\ stopped /\ total = NoCount

\* The header that follows is skipped, and without bugs the next line too.
CountStores ==
    /\ Seeking /\ This.kind = "stores"
    /\ \/ /\ This.arg > 0 /\ KindAt(i + 1) = "header"
          /\ total' = This.arg /\ remaining' = This.arg /\ isPerf' = FALSE
       \/ This.arg = 0 /\ UNCHANGED <<total, remaining, isPerf>>
    /\ i' = i + 2
    /\ UNCHANGED <<log, started, stopped, last, report, time, pc>>

CountFlushes ==
    /\ Seeking /\ This.kind = "flushes"
    /\ total' = This.arg /\ remaining' = This.arg /\ isPerf' = TRUE
    /\ i' = i + 1
    /\ UNCHANGED <<log, started, stopped, last, report, time, pc>>

SkipLine ==
    /\ Seeking /\ This.kind \notin {"stores", "flushes"}
    /\ i' = i + 1
    /\ UNCHANGED <<log, started, stopped, section, report, time, pc>>

HasMore   == remaining # NoCount /\ remaining > 0
InSection == Reading /\ started /\ stopped /\ total # NoCount /\ HasMore

\* The lines of a stack: the first, whatever it is, and those with "by".
IsStack(n) == /\ n >= i
              /\ \A k \in i + 1 .. n : KindAt(k) = "by"
              /\ KindAt(n + 1) # "by"

EndsSection == remaining = 1 /\ ~isPerf

\* A bug of the end of a section: the next one is not looked for.
NextTotalKept == total

\* A bug of the end of a section: the next one does not start from 0.
NextLastKept == This.arg

NextTotal     == IF EndsSection THEN NoCount ELSE total
NextRemaining == IF EndsSection THEN NoCount ELSE remaining - 1
NextLast      == IF EndsSection THEN -1 ELSE This.arg

\* The frames, the address line after them, and the number of the bug; a frame
\* that cannot be read is None, which no TraceEvent takes.
IsBug(n) ==
    /\ IsStack(n) /\ This.kind = "at" /\ KindAt(n + 1) = "address" /\ This.arg = last + 1
    /\ \A k \in i .. n : log[k].located

ReadBug ==
    /\ InSection
    /\ \E n \in i .. Len(log) :
         /\ IsBug(n)
         /\ report' = Append(report,
                        [event |-> IF isPerf THEN "REQUIRED_FLUSH" ELSE "ASSERT_PERSISTED",
                         time |-> time, lines |-> <<i, n>>, no |-> This.arg])
         /\ i' = n + 2
    /\ time' = time + 1
    /\ total' = NextTotal /\ remaining' = NextRemaining /\ last' = NextLast
    /\ UNCHANGED <<log, started, stopped, isPerf, pc>>

\* An operation without a place, the assertions, and lines that are not there.
Fail ==
    /\ \/ Reading /\ ~stopped /\ This.kind = "trace" /\ ~This.located
       \/ Seeking /\ This.kind = "stores" /\ This.arg > 0 /\ KindAt(i + 1) # "header"
       \/ InSection /\ \A n \in i .. Len(log) : ~IsBug(n)
    /\ pc' = "abort"
    /\ UNCHANGED <<log, i, started, stopped, section, report, time>>

\* "End of interesting stuff", or of the log.
Finish ==
    /\ pc = "read"
    /\ \/ i > Len(log)
       \/ started /\ stopped /\ total # NoCount /\ ~HasMore
    /\ pc' = "done"
    /\ UNCHANGED <<log, i, started, stopped, section, report, time>>

Next == \/ Start \/ ReadEvents \/ SkipOrStop
        \/ CountStores \/ CountFlushes \/ SkipLine \/ ReadBug
        \/ Fail \/ Finish

Spec == Init /\ [][Next]_vars

-----------------------------------------------------------------------------
(* Properties.                                                             *)

Entry == [event : Operations \cup {"ASSERT_PERSISTED", "REQUIRED_FLUSH"},
          time : Nat, lines : Nat \X Nat, no : Nat \cup {-1}]

\* The types; a section never counts below zero.
TypeOK ==
    /\ log \in Seq(Line)
    /\ i \in 1 .. Len(log) + 2
    /\ {started, stopped, isPerf} \subseteq BOOLEAN
    /\ total \in Nat \cup {NoCount} /\ remaining \in Nat \cup {NoCount}
    /\ (total = NoCount <=> remaining = NoCount) /\ last \in Nat \cup {-1}
    /\ report \in Seq(Entry) /\ time \in Nat
    /\ pc \in {"read", "done", "abort"}

BugsRead == {e \in {report[k] : k \in DOMAIN report} : e.event \notin Operations}

\* The stacks of the log: first and last line, with the range after them.
StackLines ==
    {s \in (DOMAIN log) \X (DOMAIN log) : IsTrace(log, s[1], s[2])}

\* The section a line is in: that of the last count before it.
SectionOf(m) ==
    LET counts == {k \in Counts(log) : k <= m}
    IN Sections[log[CHOOSE k \in counts : \A other \in counts : other <= k].kind]

\* When the reader is through, every bug that is in the log in full is in the
\* report, with all of its frames and as what its section says, and no other.
AllBugsRead ==
    pc = "done" => {<<e.lines, e.event, e.no>> : e \in BugsRead}
                   = {<<s, SectionOf(s[1]), log[s[1]].arg>> : s \in StackLines}

\* The operations are those of the trace: of each of its lines in their order,
\* one line after the other, and from nowhere else.
MadeOf(n) == {k \in DOMAIN report : report[k].lines[1] = n}
OperationsRead ==
    /\ pc = "done" =>
          \A n \in DOMAIN log : log[n].kind = "trace" =>
              \E m \in 0 .. Len(report) :
                  /\ MadeOf(n) = m + 1 .. m + Len(OperationsOf(log[n]))
                  /\ \A j \in DOMAIN OperationsOf(log[n]) :
                        report[m + j].event = OperationsOf(log[n])[j]
    /\ \A k \in DOMAIN report :
          /\ report[k].event \in Operations => log[report[k].lines[1]].kind = "trace"
          /\ k > 1 => report[k - 1].lines[1] <= report[k].lines[1]

\* Times tell the order of the trace, which the reduction sorts by: no two
\* events have the same, and bugs come after all operations.
TimesIncrease ==
    \A k \in 2 .. Len(report) :
        /\ report[k - 1].time < report[k].time
        /\ report[k].event \in Operations => report[k - 1].event \in Operations

\* The lines with the frames that are needed: the trace, and the stacks of bugs.
NeedsFrames(n) == log[n].kind = "trace" \/ \E s \in StackLines : n \in s[1] .. s[2]

\* A whole log is read without an assertion or a missing line if all frames can
\* be read; and no log is read to its end in which one cannot that is needed.
WholeLogsRead ==
    /\ log \in Logs /\ pc = "abort" => \E n \in DOMAIN log : ~log[n].located
    /\ pc = "done" => \A n \in DOMAIN log : NeedsFrames(n) => log[n].located
=============================================================================
