------------------------- MODULE AliasScoresProofs -------------------------
(***************************************************************************)
(* For every program, points-to analysis and trace: the module that is     *)
(* analysed has what is asked about, and the scores are right.             *)
(***************************************************************************)
EXTENDS AliasScores, TLAPS

-----------------------------------------------------------------------------
(* The inductive invariant.                                                *)

Constructing == pc \in {"explore", "grow", "learn"}

\* What the whitelist calls is in it, once it has been looked at.
Explored == \A f \in wlist \ explore : Callees(f) \subseteq wlist

\* Then the functions of the trace and of the whitelist have their bodies,
\* and those of their callers are left when there are no more of them.
Stripped ==
    /\ pc # "explore" => /\ wlist \subseteq used /\ InTrace(trace) \subseteq used
                         /\ \A f \in wlist : Callees(f) \subseteq used
    /\ pc \in {"learn", "ready"} => NextUsers = {}

\* The persistent values of the events read so far are known.
Learned ==
    /\ pc \in {"explore", "grow"} => next = 1
    /\ \A n \in DOMAIN trace : next > n /\ HasPmValues(trace[n]) =>
          KnownPm(PmValues(trace[n])) \subseteq pm

\* Nothing is scored before all are.
Unused == Constructing => (\A l \in Location : cache[l] = NotCached) /\ best = 0

Inv == TypeOK /\ Explored /\ Stripped /\ Learned /\ Unused /\ CacheFresh /\ NotPastPointer

-----------------------------------------------------------------------------
(* What the definitions make of the program.                               *)

LEMMA InstOK ==
    ASSUME NEW j \in Inst
    PROVE  /\ j.fn \in Fn /\ j.callee \in Fn \cup {NoFn} /\ j.uses \subseteq Fn
           /\ j.operands \subseteq Value /\ j.address \in Value \cup {NoValue}
<1>1. j \in Instruction
  BY ModuleAssumption
<1>. QED BY <1>1 DEF Instruction

LEMMA FixLocOK ==
    ASSUME NEW l \in Location
    PROVE  /\ InstsAt(l) \subseteq Inst
           /\ \A fl \in FixLocs[l] : fl.insts \subseteq Inst /\ fl.last \in fl.insts /\ fl.last.fn \in Fn
           /\ \A j \in InstsAt(l) : \E fl \in FixLocs[l] : j.fn = fl.last.fn
<1>1. \A fl \in FixLocs[l] : /\ fl.insts \subseteq Inst /\ fl.last \in fl.insts
                             /\ \A j \in fl.insts : j.fn = fl.last.fn
  BY ModuleAssumption
<1>. QED BY <1>1, InstOK DEF InstsAt

LEMMA FunctionsOK ==
    ASSUME NEW f \in Fn
    PROVE  Callees(f) \subseteq Fn /\ Users(f) \subseteq Fn
BY InstOK DEF Callees, Users

LEMMA TraceOK ==
    ASSUME NEW t \in Traces
    PROVE  /\ t \in Seq(Event) /\ Len(t) \in Nat /\ DOMAIN t = 1 .. Len(t)
           /\ \A n \in DOMAIN t : /\ t[n].callstack \in Seq(Location) /\ t[n].callstack[1] \in Location
                                  /\ Range(t[n].callstack) \subseteq Location
           /\ InTrace(t) \subseteq Fn
<1>1. t \in Seq(Event) /\ Len(t) \in Nat /\ DOMAIN t = 1 .. Len(t)
  BY ModuleAssumption
<1>2. ASSUME NEW n \in DOMAIN t
      PROVE  /\ t[n].callstack \in Seq(Location) /\ t[n].callstack[1] \in Location
             /\ Range(t[n].callstack) \subseteq Location
  <2>1. t[n] \in Event /\ Len(t[n].callstack) > 0
    BY <1>1, <1>2, ModuleAssumption
  <2>2. t[n].callstack \in Seq(Location)
    BY <2>1 DEF Event
  <2>. QED BY <2>1, <2>2 DEF Range
<1>3. InTrace(t) \subseteq Fn
  <2>. SUFFICES ASSUME NEW n \in DOMAIN t, NEW l \in Range(t[n].callstack), NEW fl \in FixLocs[l]
                PROVE  fl.last.fn \in Fn
    BY DEF InTrace
  <2>. QED BY <1>2, FixLocOK
<1>. QED BY <1>1, <1>2, <1>3

\* An object stands for itself, whatever value it was found for.
LEMMA ObjectsOK ==
    ASSUME used \subseteq Fn, NEW v \in Value
    PROVE  /\ Objects(v) \subseteq Value
           /\ \A o \in Objects(v) : o \in Objects(o)
<1>1. PointsTo[used] \in [Value -> SUBSET Value]
  BY AndersenAssumption
<1>2. \A o \in PointsTo[used][v] : o \in PointsTo[used][o]
  BY AndersenAssumption
<1>. QED BY <1>1, <1>2 DEF Objects

LEMMA PmValuesOK ==
    ASSUME TypeOK, NEW n \in DOMAIN trace
    PROVE  PmValues(trace[n]) \subseteq Value
<1>1. trace[n].callstack[1] \in Location
  BY TraceOK DEF TypeOK
<1>2. \A fl \in FixLocs[trace[n].callstack[1]] :
          GenericPmValues(fl) \subseteq Value /\ {fl.last.address} \ {NoValue} \subseteq Value
  BY <1>1, FixLocOK, InstOK DEF GenericPmValues
<1>. QED BY <1>2 DEF PmValues

LEMMA NoNextUsers == NextUsers = {} <=> \A f \in used : Users(f) \subseteq used
<1>. DEFINE All == {Users(f) : f \in used}
<1>1. ASSUME NextUsers = {}, NEW f \in used, NEW x \in Users(f) PROVE x \in used
  <2>1. Users(f) \in All
    OBVIOUS
  <2>2. x \in UNION All
    BY <1>1, <2>1
  <2>. QED BY <1>1, <2>2 DEF NextUsers
<1>2. ASSUME \A f \in used : Users(f) \subseteq used, NEW x \in NextUsers PROVE FALSE
  <2>1. x \in UNION All /\ x \notin used
    BY <1>2 DEF NextUsers
  <2>2. PICK U \in All : x \in U
    BY <2>1
  <2>. QED BY <1>2, <2>1, <2>2
<1>. QED BY <1>1, <1>2

LEMMA KnownPmIs ==
    ASSUME NEW V, NEW o
    PROVE  o \in KnownPm(V) <=> o \notin NotHeap /\ \E v \in V : o \in Objects(v)
<1>. DEFINE All == {Objects(v) : v \in V}
<1>1. ASSUME NEW v \in V, o \in Objects(v) PROVE o \in UNION All
  <2>1. Objects(v) \in All
    OBVIOUS
  <2>. QED BY <1>1, <2>1
<1>2. ASSUME o \in UNION All PROVE \E v \in V : o \in Objects(v)
  <2>1. PICK O \in All : o \in O
    BY <1>2
  <2>. QED BY <2>1
<1>. QED BY <1>1, <1>2 DEF KnownPm

\* A score that has been computed is not taken for one that has not been.
LEMMA AliasesOK ==
    ASSUME used \subseteq Fn, NEW l \in Location
    PROVE  AliasesOf(l) \in Aliases /\ AliasesOf(l) # NotCached
<1>1. Touched(l) \subseteq Value
  <2>. SUFFICES ASSUME NEW j \in InstsAt(l), NEW v \in j.operands PROVE Objects(v) \subseteq Value
    BY DEF Touched
  <2>1. v \in Value
    BY FixLocOK, InstOK
  <2>. QED BY <2>1, ObjectsOK
<1>2. AliasesOf(l) \in Aliases
  BY <1>1 DEF AliasesOf, Aliases
<1>3. NotCached \notin Aliases
  BY ModuleAssumption DEF NotCached, Aliases
<1>. QED BY <1>2, <1>3

-----------------------------------------------------------------------------
(* The steps.                                                              *)

LEMMA InitInv == Init => Inv
<1>. SUFFICES ASSUME Init PROVE Inv
  OBVIOUS
<1>1. options \in Options /\ trace \in Traces /\ options.traceAlias \in BOOLEAN
  BY ModuleAssumption DEF Init
<1>2. Whitelist \subseteq Fn /\ InTrace(trace) \subseteq Fn
  BY <1>1, TraceOK, ModuleAssumption
<1>3. TypeOK
  BY <1>1, <1>2, TraceOK DEF Init, TypeOK
<1>4. Stripped
  <2>1. pc # "explore" => used = Fn
    BY <1>1 DEF Init
  <2>2. wlist \subseteq Fn
    BY <1>2 DEF Init
  <2>3. \A f \in Fn : Callees(f) \subseteq Fn /\ Users(f) \subseteq Fn
    BY FunctionsOK
  <2>4. ASSUME used = Fn PROVE NextUsers = {}
    BY <2>3, <2>4, NoNextUsers
  <2>5. pc \in {"learn", "ready"} => pc # "explore"
    OBVIOUS
  <2>. QED BY <1>2, <2>1, <2>2, <2>3, <2>4, <2>5 DEF Stripped
<1>5. Learned
  BY <1>1, TraceOK DEF Init, Learned
<1>6. Explored /\ Unused /\ CacheFresh /\ NotPastPointer
  BY DEF Init, Explored, Unused, CacheFresh, NotPastPointer
<1>. QED BY <1>3, <1>4, <1>5, <1>6 DEF Inv

LEMMA ExploreStep ==
    ASSUME Inv, Explore
    PROVE  Inv'
<1>. USE DEF Inv
<1>0. /\ pc = "explore" /\ best = 0 /\ UNCHANGED <<options, trace, next, pm, cache, asked, best>>
      /\ \A l \in Location : cache[l] = NotCached
      /\ wlist \subseteq Fn /\ used \subseteq Fn /\ next = 1
  BY DEF Explore, Unused, Constructing, TypeOK, Learned
<1>1. /\ wlist' \subseteq Fn /\ used' \subseteq Fn /\ explore' \subseteq wlist'
      /\ pc' \in {"explore", "grow"}
  <2>1. \A f \in wlist : Callees(f) \subseteq Fn
    BY <1>0, FunctionsOK
  <2>2. InTrace(trace) \subseteq Fn
    BY TraceOK DEF TypeOK
  <2>. QED BY <1>0, <2>1, <2>2 DEF Explore, TypeOK
<1>2. TypeOK'
  BY <1>0, <1>1 DEF TypeOK
<1>3. Explored'
  BY DEF Explore, Explored
<1>4. Stripped'
  <2>1. CASE \E f \in explore : UNCHANGED pc
    BY <1>0, <2>1 DEF Stripped
  <2>2. CASE explore = {} /\ used' = InTrace(trace) \cup wlist /\ pc' = "grow" /\ UNCHANGED wlist
    BY <1>0, <2>2 DEF Explored, Stripped
  <2>. QED BY <2>1, <2>2 DEF Explore
<1>5. Learned'
  <2>1. \A n \in DOMAIN trace : ~(next > n)
    BY <1>0, TraceOK DEF TypeOK
  <2>. QED BY <1>0, <1>1, <2>1 DEF Learned
<1>6. Unused' /\ CacheFresh' /\ NotPastPointer'
  BY <1>0 DEF Unused, CacheFresh, NotPastPointer
<1>. QED BY <1>2, <1>3, <1>4, <1>5, <1>6

LEMMA GrowStep ==
    ASSUME Inv, Grow
    PROVE  Inv'
<1>. USE DEF Inv
<1>0. /\ pc = "grow" /\ best = 0
      /\ UNCHANGED <<options, trace, explore, wlist, next, pm, cache, asked, best>>
      /\ \A l \in Location : cache[l] = NotCached
      /\ used \subseteq Fn /\ next = 1
  BY DEF Grow, Unused, Constructing, TypeOK, Learned
<1>1. used' \subseteq Fn /\ used \subseteq used' /\ pc' \in {"grow", "learn"}
  <2>1. \A f \in used : Users(f) \subseteq Fn
    BY <1>0, FunctionsOK
  <2>. QED BY <1>0, <2>1 DEF Grow, NextUsers
<1>2. TypeOK' /\ Explored'
  BY <1>0, <1>1 DEF TypeOK, Explored
<1>3. Stripped'
  <2>1. pc' = "learn" => UNCHANGED used /\ NextUsers = {}
    BY <1>0 DEF Grow
  <2>2. UNCHANGED used => NextUsers' = NextUsers
    BY DEF NextUsers
  <2>. QED BY <1>0, <1>1, <2>1, <2>2 DEF Stripped
<1>4. Learned'
  <2>1. \A n \in DOMAIN trace : ~(next > n)
    BY <1>0, TraceOK DEF TypeOK
  <2>. QED BY <1>0, <2>1, <1>1 DEF Learned
<1>5. Unused' /\ CacheFresh' /\ NotPastPointer'
  BY <1>0 DEF Unused, CacheFresh, NotPastPointer
<1>. QED BY <1>2, <1>3, <1>4, <1>5

LEMMA LearnStep ==
    ASSUME Inv, Learn
    PROVE  Inv'
<1>. USE DEF Inv
<1>0. /\ pc = "learn" /\ best = 0 /\ UNCHANGED <<options, trace, explore, wlist, used, cache, asked, best>>
      /\ \A l \in Location : cache[l] = NotCached
      /\ used \subseteq Fn /\ pc' \in {"learn", "ready", "abort"}
      /\ Len(trace) \in Nat /\ DOMAIN trace = 1 .. Len(trace) /\ next \in 1 .. Len(trace) + 1
  BY TraceOK DEF Learn, construction, Unused, Constructing, TypeOK
<1>1. \A V \in SUBSET Value : KnownPm(V) \subseteq Value \ NotHeap
  BY <1>0, ObjectsOK, KnownPmIs
<1>2. ASSUME UNCHANGED <<next, pm>>
      PROVE  TypeOK' /\ Learned'
  BY <1>0, <1>2 DEF TypeOK, Learned, HasPmValues, PmValues, KnownPm, Objects
<1>3. ASSUME next <= Len(trace), next' = next + 1,
             pm' = IF HasPmValues(trace[next]) THEN pm \cup KnownPm(PmValues(trace[next])) ELSE pm
      PROVE  TypeOK' /\ Learned'
  <2>1. next \in DOMAIN trace /\ next' \in 1 .. Len(trace) + 1
    BY <1>0, <1>3
  <2>2. pm' \subseteq Value \ NotHeap
    BY <1>1, <1>3, <2>1, PmValuesOK DEF TypeOK
  <2>3. TypeOK'
    BY <1>0, <2>1, <2>2 DEF TypeOK
  <2>4. \A n \in DOMAIN trace : next' > n => next > n \/ n = next
    BY <1>0, <1>3
  <2>5. \A n \in DOMAIN trace : /\ HasPmValues(trace[n])' = HasPmValues(trace[n])
                                /\ KnownPm(PmValues(trace[n]))' = KnownPm(PmValues(trace[n]))
    BY <1>0 DEF HasPmValues, PmValues, KnownPm, Objects
  <2>6. Learned'
    BY <1>0, <1>3, <2>4, <2>5 DEF Learned
  <2>. QED BY <2>3, <2>6
<1>4. TypeOK' /\ Learned'
  <2>1. CASE next > Len(trace)
    BY <1>2, <2>1 DEF Learn
  <2>2. CASE next <= Len(trace)
    BY <1>0, <1>2, <1>3, <2>2 DEF Learn
  <2>. QED BY <1>0, <2>1, <2>2
<1>5. Explored' /\ Stripped'
  BY <1>0 DEF Explored, Stripped, NextUsers
<1>6. Unused' /\ CacheFresh' /\ NotPastPointer'
  BY <1>0 DEF Unused, Constructing, CacheFresh, NotPastPointer
<1>. QED BY <1>4, <1>5, <1>6

\* A score that is in the cache stays, and the others are computed.
LEMMA RaiseStep ==
    ASSUME Inv, Raise
    PROVE  Inv'
<1>. USE DEF Inv
<1>0. /\ pc = "ready" /\ UNCHANGED <<options, trace, explore, wlist, used, next, pm>>
      /\ used \subseteq Fn /\ pc' \in {"ready", "abort"}
      /\ cache \in [Location -> Aliases \cup {NotCached}]
  BY DEF Raise, AtWork, construction, TypeOK
<1>1. PICK n \in DOMAIN trace :
        LET stack == trace[n].callstack
            scored == Range(stack) \cap Mapped
        IN
        /\ asked' = stack
        /\ \/ pc' = "abort" /\ best' = 0 /\ UNCHANGED cache
           \/ /\ cache' = [l \in Location |-> IF l \in scored /\ cache[l] = NotCached
                                              THEN AliasesOf(l) ELSE cache[l]]
              /\ \/ pc' = "abort" /\ best' = 0
                 \/ pc' = "ready" /\ \E h \in DOMAIN stack : IsBest(h, stack, cache') /\ best' = h
  BY <1>0 DEF Raise
<1>. DEFINE stack == trace[n].callstack
<1>2. stack \in Seq(Location) /\ Len(stack) \in Nat /\ DOMAIN stack = 1 .. Len(stack)
  BY TraceOK DEF TypeOK
<1>3. \A l \in Location : AliasesOf(l)' = AliasesOf(l)
  BY <1>0 DEF AliasesOf, Touched, PointsToPm, Objects
<1>4. /\ cache' \in [Location -> Aliases \cup {NotCached}] /\ CacheFresh'
      /\ pc' = "ready" => \A l \in Range(stack) \cap Mapped : cache'[l] = AliasesOf(l)
  BY <1>0, <1>1, <1>3, AliasesOK DEF CacheFresh, Mapped
<1>5. best' \in 0 .. Len(stack) /\ (best' > 0 /\ pc' = "ready" => IsBest(best', stack, cache'))
  BY <1>0, <1>1, <1>2
<1>6. TypeOK'
  BY <1>0, <1>1, <1>2, <1>4, <1>5 DEF TypeOK
<1>7. NotPastPointer'
  <2>. SUFFICES ASSUME best' > 0, pc' = "ready", NEW m \in 1 .. best', stack[m] \in Mapped
                PROVE  \A j \in InstsAt(stack[m]) : ~ThroughPointer(j)
    BY <1>1 DEF NotPastPointer
  <2>1. best' \in Visible(stack, cache')
    BY <1>5 DEF IsBest
  <2>2. ~NoAliases(cache'[stack[m]])
    BY <2>1 DEF Visible
  <2>3. stack[m] \in Range(stack)
    BY <1>2, <1>5 DEF Range
  <2>4. cache'[stack[m]] = AliasesOf(stack[m])
    BY <1>4, <2>3
  <2>. QED BY <2>2, <2>4 DEF AliasesOf, NoAliases
<1>8. Explored' /\ Stripped' /\ Unused'
  BY <1>0 DEF Explored, Stripped, NextUsers, Unused, Constructing
<1>9. Learned'
  BY <1>0 DEF Learned, HasPmValues, PmValues, KnownPm, Objects
<1>. QED BY <1>4, <1>6, <1>7, <1>8, <1>9

THEOREM AliasScoresInv == Spec => []Inv
<1>1. ASSUME Inv, UNCHANGED vars PROVE Inv'
  <2>1. TypeOK' /\ Explored' /\ Stripped' /\ Unused'
    BY <1>1 DEF Inv, vars, construction, TypeOK, Explored, Stripped, NextUsers, Unused, Constructing
  <2>2. Learned'
    BY <1>1 DEF Inv, vars, construction, Learned, HasPmValues, PmValues, KnownPm, Objects
  <2>3. \A l \in Location : AliasesOf(l)' = AliasesOf(l)
    BY <1>1 DEF vars, construction, AliasesOf, Touched, PointsToPm, Objects
  <2>4. CacheFresh'
    BY <1>1, <2>3 DEF Inv, vars, CacheFresh
  <2>5. NotPastPointer'
    BY <1>1 DEF Inv, vars, NotPastPointer
  <2>. QED BY <2>1, <2>2, <2>4, <2>5 DEF Inv
<1>2. Inv /\ [Next]_vars => Inv'
  BY <1>1, ExploreStep, GrowStep, LearnStep, RaiseStep DEF Next
<1>. QED BY InitInv, <1>2, PTL DEF Spec

-----------------------------------------------------------------------------
\* The functions kept are functions of the module, the persistent values
\* values that are not local, and the frame chosen is one of the stack.
THEOREM AliasScoresTypeCorrect == Spec => []TypeOK
BY AliasScoresInv, PTL DEF Inv

\* Stripping the module takes nothing from the trace: every instruction of its
\* frames, the code of the whitelist, and all that leads to them, is left.
THEOREM NothingIsStripped == Spec => []NothingStripped
<1>1. Inv => NothingStripped
  <2>. SUFFICES ASSUME Inv, pc \in {"learn", "ready"} PROVE NothingStripped
    BY DEF NothingStripped
  <2>1. /\ wlist \subseteq used /\ InTrace(trace) \subseteq used /\ NextUsers = {}
        /\ \A f \in wlist : Callees(f) \subseteq used
    BY DEF Inv, Stripped
  <2>2. ASSUME NEW n \in DOMAIN trace, NEW l \in Range(trace[n].callstack), NEW j \in InstsAt(l)
        PROVE  Kept(j)
    <3>1. l \in Location
      BY <2>2, TraceOK DEF Inv, TypeOK
    <3>2. PICK fl \in FixLocs[l] : j.fn = fl.last.fn
      BY <2>2, <3>1, FixLocOK
    <3>3. fl.last.fn \in InTrace(trace)
      BY <2>2 DEF InTrace
    <3>. QED BY <2>1, <3>2, <3>3 DEF Kept
  <2>3. ASSUME NEW j \in Inst, j.uses \cap used # {} PROVE Kept(j)
    <3>1. PICK f \in used : f \in j.uses
      BY <2>3
    <3>2. j.fn \in Users(f)
      BY <3>1, <2>3 DEF Users
    <3>. QED BY <2>1, <3>1, <3>2, NoNextUsers DEF Kept
  <2>. QED BY <2>1, <2>2, <2>3 DEF NothingStripped
<1>. QED BY <1>1, AliasScoresInv, PTL

\* No cached score is older than what is known of the persistent memory.
THEOREM ScoresStayFresh == Spec => []CacheFresh
BY AliasScoresInv, PTL DEF Inv

\* The frame chosen has no indirect call on the way to it, for every stack and
\* whatever was asked before.
THEOREM ChosenBeforePointer == Spec => []NotPastPointer
BY AliasScoresInv, PTL DEF Inv

\* The heap objects that the stores of the trace go to count as persistent in
\* every score.
THEOREM StoredIsPersistent == Spec => []StoresArePm
<1>1. Inv => StoresArePm
  <2>. SUFFICES ASSUME Inv, NEW n \in DOMAIN trace, next > n, HasPmValues(trace[n]),
                       NEW v \in PmValues(trace[n]), NEW o \in Objects(v) \ NotHeap
                PROVE  /\ PointsToPm(v)
                       /\ \A l \in Location : cache[l] # NotCached => o \notin cache[l].vol
    BY DEF StoresArePm
  <2>1. o \in pm
    <3>1. KnownPm(PmValues(trace[n])) \subseteq pm
      BY DEF Inv, Learned
    <3>. QED BY <3>1, KnownPmIs
  <2>2. PointsToPm(v)
    BY <2>1 DEF PointsToPm
  <2>3. v \in Value /\ used \subseteq Fn
    BY PmValuesOK DEF Inv, TypeOK
  <2>4. PointsToPm(o)
    BY <2>1, <2>3, ObjectsOK DEF PointsToPm
  <2>5. ASSUME NEW l \in Location, cache[l] # NotCached PROVE o \notin cache[l].vol
    <3>1. cache[l] = AliasesOf(l)
      BY <2>5 DEF Inv, CacheFresh
    <3>. QED BY <2>4, <3>1 DEF AliasesOf
  <2>. QED BY <2>2, <2>5
<1>. QED BY <1>1, AliasScoresInv, PTL
=============================================================================
