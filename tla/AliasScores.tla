---------------------------- MODULE AliasScores ----------------------------
(***************************************************************************)
(* The alias analysis of BugFixer (BugFixer.cpp) and PmDesc                *)
(* (FlowAnalyzer.cpp): the constructor learns from the trace which objects *)
(* are in persistent memory; raiseFixLocation scores the frames of a stack *)
(* by how many of the objects they may touch are, and caches the scores.   *)
(*                                                                         *)
(* With TraceAlias only a copy of the module is analysed, stripped of the  *)
(* functions that the trace has no use for: what is left of it must still  *)
(* have every instruction that is asked about.                             *)
(*                                                                         *)
(* The analysis itself is a library (Andersen's): PointsTo[F] is what it   *)
(* finds when the functions F have bodies, and HasNode[F] the values that  *)
(* it can be asked about at all.                                           *)
(***************************************************************************)
EXTENDS Integers, Sequences, FiniteSets, Functions

CONSTANTS
    Fn,        \* functions of the module
    Whitelist, \* those kept in any case: pmemobj_open
    Value,     \* pointers; an object is the value its allocation returns
    NotHeap,   \* the ones that are stack variables, functions or constants
    NoValue,
    NoFn,
    Inst,      \* instructions, see Instruction
    Location,  \* source locations
    FixLocs,   \* mapper_: the FixLocs of a location
    PointsTo,  \* what a value may point to
    HasNode,   \* those for which getPointsToSet returns true
    Traces,    \* traces: sequences of events
    Options    \* TraceAlias, and the source of the trace

\* What the code tells apart.  A store with the request number of Valgrind's
\* flush has kind "request"; its address is that of the flush.
Kind == {"store", "request", "cmpxchg", "memory", "flush", "flushasm",
         "pointer", "annotation", "call", "intrinsic", "other"}

Instruction == [id : Nat, fn : Fn, kind : Kind, operands : SUBSET Value,
                address : Value \cup {NoValue}, callee : Fn \cup {NoFn}, uses : SUBSET Fn]

EventType == {"STORE", "FLUSH", "FENCE", "ASSERT_PERSISTED"}
Event == [type : EventType, callstack : Seq(Location)]

ASSUME ModuleAssumption ==
    /\ Whitelist \subseteq Fn /\ NotHeap \subseteq Value
    /\ NoValue \notin Value /\ NoFn \notin Fn
    /\ Inst \subseteq Instruction
    /\ \A j \in Inst : /\ j.callee \in Fn => j.callee \in j.uses
                       /\ j.address \in Value /\ j.kind \in {"store", "cmpxchg", "memory", "annotation"}
                             => j.address \in j.operands
    /\ \A l \in Location : \A fl \in FixLocs[l] :
          fl.insts \subseteq Inst /\ fl.last \in fl.insts /\ \A j \in fl.insts : j.fn = fl.last.fn
    /\ Options \subseteq [traceAlias : BOOLEAN, source : {"GENERIC", "PMTEST"}]
    /\ \A t \in Traces : /\ t \in Seq(Event)
                         /\ \A n \in DOMAIN t : Len(t[n].callstack) > 0

\* An object is where its own allocation points to.  A value that the analysis
\* does not know points to nothing.
ASSUME AndersenAssumption ==
    /\ PointsTo \in [SUBSET Fn -> [Value -> SUBSET Value]]
    /\ HasNode \in [SUBSET Fn -> SUBSET Value]
    /\ \A F \in SUBSET Fn, v \in Value : PointsTo[F][v] # {} => v \in HasNode[F]
    /\ \A F \in SUBSET Fn, v \in Value : \A o \in PointsTo[F][v] : o \in PointsTo[F][o]

VARIABLES
    options,  \* the options of this run
    trace,    \* the trace
    pc,       \* where the constructor is
    explore,  \* functions of the whitelist to look at
    wlist,    \* the whitelist and all it calls
    used,     \* functions that keep their bodies
    next,     \* the event to learn from
    pm,       \* pm_locals_ and pm_globals_
    cache,    \* heuristicCache_
    asked,    \* the stack raiseFixLocation was asked about last
    best      \* heuristicIdx for it, from 1; 0 for none

vars == <<options, trace, pc, explore, wlist, used, next, pm, cache, asked, best>>
construction == <<explore, wlist, used>>

NotCached == [vol |-> {NoValue}, pm |-> {NoValue}]
Aliases == [vol : SUBSET Value, pm : SUBSET Value]

Mapped == {l \in Location : FixLocs[l] # {}}
InstsAt(l) == UNION {fl.insts : fl \in FixLocs[l]}

Init ==
    /\ options \in Options
    /\ trace \in Traces
    /\ pc = IF options.traceAlias THEN "explore" ELSE "learn"
    /\ explore = Whitelist /\ wlist = Whitelist
    /\ used = IF options.traceAlias THEN {} ELSE Fn
    /\ next = 1
    /\ pm = {}
    /\ cache = [l \in Location |-> NotCached]
    /\ asked = <<>> /\ best = 0

-----------------------------------------------------------------------------
(* runTraceAA                                                              *)

Callees(f) == {j.callee : j \in {x \in Inst : x.fn = f}} \ {NoFn}

\* The functions that mention f: any instruction with f as an operand.
Users(f) == {j.fn : j \in {x \in Inst : f \in x.uses}}

\* The functions of all the frames of the trace, of any event.
InTrace(t) ==
    {fl.last.fn : fl \in UNION {FixLocs[l] : l \in UNION {Range(t[n].callstack) : n \in DOMAIN t}}}

\* The whitelist and what it calls, one function at a time.
Explore ==
    /\ pc = "explore"
    /\ \/ \E f \in explore :
            /\ explore' = (explore \ {f}) \cup (Callees(f) \ wlist)
            /\ wlist' = wlist \cup Callees(f)
            /\ UNCHANGED <<pc, used>>
       \/ /\ explore = {}
          /\ used' = InTrace(trace) \cup wlist
          /\ pc' = "grow"
          /\ UNCHANGED <<explore, wlist>>
    /\ UNCHANGED <<options, trace, next, pm, cache, asked, best>>

\* A bug of the loop: it goes round once.
NextUsersOnce == IF used \subseteq InTrace(trace) \cup wlist THEN (UNION {Users(f) : f \in used}) \ used
                 ELSE {}

NextUsers == (UNION {Users(f) : f \in used}) \ used

\* Their callers, theirs in turn, until there are no more.
Grow ==
    /\ pc = "grow"
    /\ IF NextUsers = {} THEN pc' = "learn" /\ UNCHANGED used
                         ELSE used' = used \cup NextUsers /\ UNCHANGED pc
    /\ UNCHANGED <<options, trace, explore, wlist, next, pm, cache, asked, best>>

-----------------------------------------------------------------------------
(* PmDesc and TraceEvent::pmValues                                         *)

\* getPointsToSet fails: "could not get!".
Unknown(V) == ~(V \subseteq HasNode[used])

\* The set that stands for v: itself if it points to nothing.
Objects(v) == IF PointsTo[used][v] = {} THEN {v} ELSE PointsTo[used][v]

PointsToPm(v) == Objects(v) \cap pm # {}

GenericPmValues(fl) ==
    {j.address : j \in {x \in fl.insts : x.kind \in {"store", "request", "cmpxchg",
                                                    "memory", "flush", "flushasm"}}} \ {NoValue}

HasPmValues(e) == e.type \in {"STORE", "FLUSH"} /\ e.callstack[1] \in Mapped

PmValues(e) ==
    UNION {IF options.source = "PMTEST" THEN {fl.last.address} \ {NoValue} ELSE GenericPmValues(fl)
           : fl \in FixLocs[e.callstack[1]]}

\* "bad trace!" and "bad usage!".
BadTrace(e) ==
    /\ HasPmValues(e)
    /\ \/ PmValues(e) = {}
       \/ options.source = "PMTEST" /\ \E fl \in FixLocs[e.callstack[1]] : fl.last.kind # "annotation"

\* The body of j is in the module that is analysed.  Of the ones that are not
\* vMap_ has no instruction, and no pointer they store to or flush: "can't be
\* nullptr!".
Kept(j) == j.fn \in used

\* A bug of addKnownPmValue: stack variables are not filtered out.
KnownPmUnfiltered(V) == UNION {Objects(v) : v \in V}

\* A bug of addKnownPmValue: values that point to nothing are left out.
KnownPmPointsTo(V) == (UNION {PointsTo[used][v] : v \in V}) \ NotHeap

\* addKnownPmValue, of all of them.
KnownPm(V) == (UNION {Objects(v) : v \in V}) \ NotHeap

Learn ==
    /\ pc = "learn"
    /\ IF next > Len(trace) THEN pc' = "ready" /\ UNCHANGED <<next, pm>>
       ELSE LET e == trace[next] IN
            IF \/ BadTrace(e)
               \/ HasPmValues(e) /\ \E j \in InstsAt(e.callstack[1]) : ~Kept(j)
               \/ HasPmValues(e) /\ Unknown(PmValues(e))
            THEN pc' = "abort" /\ UNCHANGED <<next, pm>>
            ELSE /\ pm' = IF HasPmValues(e) THEN pm \cup KnownPm(PmValues(e)) ELSE pm
                 /\ next' = next + 1
                 /\ UNCHANGED pc
    /\ UNCHANGED <<options, trace, construction, cache, asked, best>>

-----------------------------------------------------------------------------
(* The heuristic of raiseFixLocation                                       *)

\* Calls without a called function: through a pointer, and inline assembly.
ThroughPointer(j) == j.kind \in {"pointer", "flushasm"}

Scored(j) == j.kind \in {"store", "request", "cmpxchg", "memory", "call", "annotation"}

\* All that the instructions of l may touch.
Touched(l) == UNION {UNION {Objects(v) : v \in j.operands} : j \in {x \in InstsAt(l) : Scored(x)}}

\* It asks about one that the analysis does not know.
IsUnknown(l) == \E j \in InstsAt(l) : Scored(j) /\ Unknown(j.operands)

AliasesOf(l) ==
    IF \E j \in InstsAt(l) : ThroughPointer(j) THEN [vol |-> {}, pm |-> {}]
    ELSE [vol |-> {o \in Touched(l) : ~PointsToPm(o)}, pm |-> {o \in Touched(l) : PointsToPm(o)}]

\* Without aliases, NO_ALIASES; a location not in the mapper has no score.
NoAliases(a) == a.vol = {} /\ a.pm = {}
ScoreOf(a) == Cardinality(a.pm) - Cardinality(a.vol)

\* A bug of the search: frames without aliases are passed over.
VisiblePast(stack, c) == {h \in DOMAIN stack : stack[h] \in Mapped /\ ~NoAliases(c[stack[h]])}

\* The frames the search sees: those before the first without aliases.
Visible(stack, c) ==
    {h \in DOMAIN stack : /\ stack[h] \in Mapped
                          /\ \A m \in 1 .. h : stack[m] \in Mapped => ~NoAliases(c[stack[m]])}

\* The first of the best.
IsBest(h, stack, c) ==
    /\ h \in Visible(stack, c)
    /\ \A m \in Visible(stack, c) :
          \/ ScoreOf(c[stack[m]]) < ScoreOf(c[stack[h]])
          \/ ScoreOf(c[stack[m]]) = ScoreOf(c[stack[h]]) /\ h <= m

\* A bug of the order: a fix may be raised while the trace is being read.
AtWorkEarly == pc \in {"learn", "ready"}

AtWork == pc = "ready"

\* The stacks of stores are asked about, in any order and again.  Aborts:
\* an instruction is gone, "could not get!", unless a call through a pointer
\* has ended the frame before that, and "didn't do anything!".
Raise ==
    /\ AtWork
    /\ \E n \in DOMAIN trace :
         LET stack == trace[n].callstack
             fresh == {l \in Range(stack) \cap Mapped : cache[l] = NotCached}
         IN
         /\ trace[n].type = "STORE"
         /\ asked' = stack
         /\ \/ /\ \E l \in fresh : IsUnknown(l) \/ \E j \in InstsAt(l) : ~Kept(j)
               /\ pc' = "abort" /\ best' = 0 /\ UNCHANGED cache
            \/ /\ \A l \in fresh : /\ \A j \in InstsAt(l) : Kept(j)
                                   /\ IsUnknown(l) => \E j \in InstsAt(l) : ThroughPointer(j)
               /\ cache' = [l \in Location |-> IF l \in fresh THEN AliasesOf(l) ELSE cache[l]]
               /\ IF Visible(stack, cache') = {} THEN pc' = "abort" /\ best' = 0
                  ELSE UNCHANGED pc /\ \E h \in DOMAIN stack : IsBest(h, stack, cache') /\ best' = h
    /\ UNCHANGED <<options, trace, construction, next, pm>>

Next == Explore \/ Grow \/ Learn \/ Raise

Spec == Init /\ [][Next]_vars

-----------------------------------------------------------------------------
TypeOK ==
    /\ options \in Options /\ trace \in Traces
    /\ pc \in {"explore", "grow", "learn", "ready", "abort"}
    /\ explore \subseteq wlist /\ wlist \subseteq Fn /\ used \subseteq Fn
    /\ next \in 1 .. Len(trace) + 1
    /\ pm \subseteq Value \ NotHeap
    /\ cache \in [Location -> Aliases \cup {NotCached}]
    /\ asked \in Seq(Location) /\ best \in 0 .. Len(asked)

\* The stripped module has what is needed of it: every instruction of a frame
\* of the trace, the code of the whitelist, and every function that leads to
\* these, so that no pointer passed down to them is lost.
NothingStripped ==
    pc \in {"learn", "ready"} =>
        /\ \A n \in DOMAIN trace : \A l \in Range(trace[n].callstack) : \A j \in InstsAt(l) : Kept(j)
        /\ \A j \in Inst : j.uses \cap used # {} => Kept(j)
        /\ \A f \in wlist : Callees(f) \subseteq used

\* Scores of the cache are what would be computed now: one that was computed
\* before all of the persistent memory was known would be used forever.
CacheFresh == \A l \in Location : cache[l] # NotCached => cache[l] = AliasesOf(l)

\* The frame chosen has no call through a pointer at it or below it: a fix that
\* is raised clones direct calls only.
NotPastPointer ==
    best > 0 /\ pc = "ready" =>
        \A m \in 1 .. best : asked[m] \in Mapped => \A j \in InstsAt(asked[m]) : ~ThroughPointer(j)

\* Objects on the heap that a store of the trace goes to, or values that stand
\* for them, count as persistent at every frame that touches them, and to the
\* clones that flush the stores there.
StoresArePm ==
    \A n \in DOMAIN trace : next > n /\ HasPmValues(trace[n]) =>
        \A v \in PmValues(trace[n]) : \A o \in Objects(v) \ NotHeap :
            /\ PointsToPm(v)
            /\ \A l \in Location : cache[l] # NotCached => o \notin cache[l].vol
=============================================================================
