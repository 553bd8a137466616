---------------------------- MODULE MCTraceParser ----------------------------
(***************************************************************************)
(* TraceParser on all logs of pmemcheck of up to MaxTrace lines of trace   *)
(* and up to MaxBugs bugs a section, each with up to two frames; and on    *)
(* those of PMTest of up to MaxBlocks operations, with what PMTest has to  *)
(* say of each; and on some that cannot be read.                           *)
(***************************************************************************)
EXTENDS TraceParser

CONSTANTS MaxTrace, MaxBugs, MaxBlocks

Numbered(kind, arg) == [kind |-> kind, arg |-> arg, located |-> TRUE]
L(kind) == Numbered(kind, 0)

TraceLines == {Numbered("trace", s) :
                  s \in {<<"START", "REGISTER_FILE", "STORE">>, <<"FLUSH", "FENCE">>}}

\* Between the lines of the trace, and around the sections, there are others.
Traces == UNION {[1 .. n -> TraceLines \cup {L("other")}] : n \in 1 .. MaxTrace}

Bug(no, bys) == <<Numbered("at", no)>> \o [k \in 1 .. bys |-> L("by")] \o <<L("address")>>

\* n bugs; bys[k] is the number of further frames of the k-th.
Bugs(bys) ==
    LET upTo[k \in 0 .. Len(bys)] == IF k = 0 THEN <<>> ELSE upTo[k - 1] \o Bug(k - 1, bys[k])
    IN upTo[Len(bys)]

StoresSection(bys) ==
    <<Numbered("stores", Len(bys))>>
    \o (IF bys = <<>> THEN <<>> ELSE <<L("header")>> \o Bugs(bys)) \o <<L("other")>>

FlushesSection(bys) == <<Numbered("flushes", Len(bys))>> \o Bugs(bys) \o <<L("other")>>

Frames == UNION {[1 .. n -> 0 .. 1] : n \in 0 .. MaxBugs}

\* An event starts the trace; the flushes are only counted on demand.
LocatedLogs ==
    {<<L("other")>> \o t \o <<L("stop"), L("other")>> \o StoresSection(f) \o g :
        t \in {t \in Traces : \E k \in DOMAIN t : t[k].kind = "trace"}, f \in Frames,
        g \in {<<>>} \cup {FlushesSection(h) : h \in Frames}}

\* One of the frames of a log cannot be read.
Frameless(w) == {[w EXCEPT ![n].located = FALSE] : n \in {m \in DOMAIN w : w[m].kind \in {"trace", "at", "by"}}}
LostLogs ==
    UNION {Frameless(<<L("other")>> \o t \o <<L("stop")>> \o StoresSection(f) \o FlushesSection(<<1>>)) :
              t \in [1 .. MaxTrace -> TraceLines], f \in {<<>>, <<0, 1>>}}

AllLogs == LocatedLogs \cup LostLogs

\* An operation has a stack; an assertion may have failed, a flush may have
\* been in vain, and the program may have said something.
Blocks == {<<op, "stack">> : op \in {"_ASSIGN", "_FLUSH", "_FENCE", "_PERSIST", "_ORDER"}}
          \cup {<<"_PERSIST", "stack", "PERSIST ERROR">>, <<"_ORDER", "stack", "ORDER ERROR">>,
                <<"_PERSIST", "stack", "words", "PERSIST ERROR", "stack">>,
                <<"_FLUSH", "stack", "FLUSH WARNING">>}

Joined(bs) == LET upTo[n \in 0 .. Len(bs)] == IF n = 0 THEN <<>> ELSE upTo[n - 1] \o bs[n]
              IN upTo[Len(bs)]
WholeBlocks == {Joined(bs) : bs \in UNION {[1 .. n -> Blocks] : n \in 1 .. MaxBlocks}}

\* And others: with what is not supported, or not of PMTest.
Odd == {<<"stack">>, <<"_ASSIGN", "stack", "word">>, <<"_PERSIST", "PERSIST ERROR", "stack">>,
        <<"_COMMIT", "stack">>, <<"_ASSIGN", "stack", "ASSIGN ERROR">>,
        <<"words", "FLUSH WARNING">>, <<"_FENCE", "words", "stack", "PERSIST ERROR">>,
        <<"_FENCE", "stack", "FLUSH WARNING">>, <<"_ORDER", "words", "stack", "FLUSH WARNING">>,
        <<"_PERSIST", "stack", "ORDER ERROR", "PERSIST ERROR", "stack">>,
        <<"_FLUSH", "stack", "FLUSH WARNING", "words", "FLUSH WARNING">>}
PMTestAll == WholeBlocks \cup Odd
=============================================================================
