------------------------------ MODULE BugFixer ------------------------------
(***************************************************************************)
(* BugFixer::doRepair (BugFixer.cpp): the requests handleAssertPersisted   *)
(* makes are collected in fixMap_, raised along their call stacks by       *)
(* runFixMapOptimization, and applied to the module by fixBug with the     *)
(* generator for the source of the trace.                                  *)
(*                                                                         *)
(* The program under repair is its call graph.  A site is an instruction   *)
(* with a source location of its own: a store to persistent memory, or a   *)
(* call.  A call stack lists sites from the store up, each one in the      *)
(* function that the next one calls.  Functions are repaired by cloning,   *)
(* so there are versions of them: <<f, 0>> is f, <<f, n>> its n-th clone,  *)
(* and <<f, 1>> of an external function its PMFIXER_ version.              *)
(*                                                                         *)
(* std::map orders FixLocs by the address of the instructions, which is    *)
(* arbitrary: the two loops over fixMap_ take the entries in any order.    *)
(***************************************************************************)
EXTENDS FixMap, Integers, FiniteSets

CONSTANTS
    Fn,          \* functions
    External,    \* intrinsics and declarations, such as memcpy
    Replaceable, \* those that have a PMFIXER_ version
    Patchable,   \* those patchMemoryPrimitives replaces: strncpy is not
    Immutable,   \* immutableFns_
    FnOf,        \* the function of a site
    CalleeOf,    \* the function a call names; NoCallee for a store
    Indirect,    \* the callee of a call through a function pointer
    NoCallee,
    NoSite,
    Options,     \* the command lines and sources of the trace
    NoAliases,   \* the score NO_ALIASES
    OpLists,     \* the requests of a run, in the order of the reports
    Scores       \* what the alias analysis may say of each site

Store == {s \in Site : CalleeOf[s] = NoCallee}
Call  == Site \ Store
StoresOf(f) == {s \in Store : FnOf[s] = f}
CallsOf(f)  == {s \in Call : FnOf[s] = f}

\* External code has no debug information: its locations are not in mapper_.
Mapped == {s \in Site : FnOf[s] \notin External}
CanHold(s) == s \in Mapped /\ FnOf[s] \notin Immutable

\* Requests: an operation of opIndices, and what it is missing.  An operation
\* whose line holds no store instruction or cmpxchg (a call of memset that was
\* inlined, an atomicrmw) is passed over by handleAssertPersisted and makes no
\* request: that is the storeless operation of PersistScan, whose Emit leaves it
\* out.  The stacks here start at a store, or in external code.
Op == [type : Primitive, stack : Seq(Site)]

ASSUME ProgramAssumption ==
    /\ Patchable \subseteq Replaceable /\ Replaceable \subseteq External
    /\ External \subseteq Fn /\ Immutable \subseteq Fn
    /\ NoSite \notin Site
    /\ FnOf \in [Site -> Fn]
    /\ CalleeOf \in [Site -> Fn \cup {Indirect, NoCallee}]
    /\ Indirect \notin Fn \cup (Fn \X Nat) /\ NoCallee \notin Fn /\ Indirect # NoCallee
    /\ Options \subseteq [raising : BOOLEAN, heuristic : BOOLEAN, source : {"GENERIC", "PMTEST"}]
    /\ NoAliases \notin Int
    /\ \A sc \in Scores : /\ sc \in [Site -> Int \cup {NoAliases}]
                          /\ \A c \in Call : CalleeOf[c] = Indirect => sc[c] = NoAliases

\* A stack runs from a store to a frame that can hold a fix, main's.  Frames
\* between may be in external code, such as a library that calls back.
ASSUME StackAssumption ==
    \A ops \in OpLists :
        /\ ops \in Seq(Op)
        /\ \A n \in DOMAIN ops : LET st == ops[n].stack IN
            /\ Len(st) >= 1 /\ st[1] \in Store /\ CanHold(st[Len(st)])
            /\ \A k \in 2 .. Len(st) :
                  st[k] \in Call /\ CalleeOf[st[k]] \in {FnOf[st[k - 1]], Indirect}

VARIABLES
    options,     \* the options of this run
    ops,         \* the requests
    score,       \* the scores of this program
    phase,       \* where doRepair is
    nextOp,      \* the request to handle
    fixMap,      \* fixMap_
    moved,       \* entries to erase after the raising loop
    todo,        \* entries the current loop has still to visit
    cur,         \* the PST entry being applied
    frame,       \* i in insertPersistentSubProgram
    retInst,     \* retInst there
    code         \* the module: a body for each version

vars == <<options, ops, score, phase, nextOp, fixMap, moved, todo, cur, frame, retInst, code>>
program == <<options, ops, score>>
subprogram == <<cur, frame, retInst>>

Raising   == options.raising      \* not DisableFixRaising
Heuristic == options.heuristic    \* EnableHeuristicRaising: PmDesc and the scores exist
ForPMTest == options.source = "PMTEST"

Version == Fn \X Nat

\* Calls go to a version, or through a pointer; flushes follow stores,
\* fences follow stores (after the flush) or calls.  A PMFIXER_ function makes
\* a call of its own, of the function it replaces.
Body == [calls : [Call -> Version \cup {Indirect}],
         libc  : Version \cup {NoSite},
         flush : SUBSET Store,
         fence : SUBSET Site]

Original(f) == [calls |-> [c \in Call |-> IF CalleeOf[c] = Indirect THEN Indirect
                                          ELSE <<CalleeOf[c], 0>>],
                libc |-> NoSite,
                flush |-> {}, fence |-> {}]

\* The input module, linked with the PMFIXER_ functions.
Linked == [v \in (Fn \X {0}) \cup (Replaceable \X {1}) |->
             IF v[2] = 0 THEN Original(v[1])
             ELSE [Original(v[1]) EXCEPT !.libc = <<v[1], 0>>, !.flush = StoresOf(v[1])]]

NoFixYet == [s \in Site |-> NoFix]

Init ==
    /\ options \in Options
    /\ ops \in OpLists
    /\ score \in Scores
    /\ phase = "compute"
    /\ nextOp = 1
    /\ fixMap = NoFixYet
    /\ moved = {} /\ todo = {}
    /\ cur = NoSite /\ frame = 0 /\ retInst = NoSite
    /\ code = Linked

-----------------------------------------------------------------------------
(***************************************************************************)
(* raiseFixLocation.  The heuristic looks at the frames in order, skips    *)
(* those without a location, stops at the first without aliases (calls     *)
(* through pointers have none), and keeps the first best score.            *)
(***************************************************************************)
Candidates(stack) ==
    {l \in DOMAIN stack : /\ stack[l] \in Mapped
                          /\ \A m \in 1 .. l : stack[m] \in Mapped => score[stack[m]] # NoAliases}

IsBest(stack, h) ==
    /\ h \in Candidates(stack)
    /\ \A m \in Candidates(stack) : \/ score[stack[m]] < score[stack[h]]
                                    \/ score[stack[m]] = score[stack[h]] /\ h <= m

IsHeuristicIdx(stack, h) == IF Heuristic THEN IsBest(stack, h) ELSE h = 1

\* A bug of the second search: immutable functions are not passed over.
IsLandingAnywhere(stack, l) ==
    /\ stack[l] \in Mapped
    /\ \E h \in 1 .. l : /\ IsHeuristicIdx(stack, h)
                         /\ \A m \in h .. (l - 1) : stack[m] \notin Mapped

\* From there on, the first frame with a location in a mutable function.
IsLanding(stack, l) ==
    /\ CanHold(stack[l])
    /\ \E h \in 1 .. l : /\ IsHeuristicIdx(stack, h)
                         /\ \A m \in h .. (l - 1) : ~CanHold(stack[m])

\* From a fix that has an instruction the second search asks mapper_ for each
\* frame, and "at" ends the process at one that has no location.
IsBlocked(stack) ==
    \E m \in DOMAIN stack :
        /\ stack[m] \notin Mapped
        /\ \E h \in 1 .. m : /\ IsHeuristicIdx(stack, h)
                             /\ \A k \in h .. (m - 1) : ~CanHold(stack[k])

\* The assertion "didn't do anything!" of the heuristic.
HeuristicFails(stack) == Heuristic /\ Candidates(stack) = {}

Raised(desc, l) ==
    [type     |-> IF desc.type = "FLUSH_ONLY" THEN "PST_NOFENCE" ELSE "PST",
     dynStack |-> desc.dynStack,
     stackIdx |-> l - 1]

\* fixMap_ after addFixToMapping(s, desc), unless that fails an assertion.
Put(s, desc) == [fixMap EXCEPT ![s] = Added(@, desc)]
Fails(s, desc) == Added(fixMap[s], desc) = Stuck

Abort == phase' = "abort" /\ UNCHANGED <<program, nextOp, fixMap, moved, todo, subprogram, code>>

-----------------------------------------------------------------------------
(* Step 1: the requests of all the reports.                                *)

Computing == phase = "compute" /\ nextOp <= Len(ops)
ThisOp == ops[nextOp]
LeafDesc == [type |-> ThisOp.type, dynStack |-> ThisOp.stack, stackIdx |-> 0]

\* The store has a location, and there is a store instruction: the fix goes
\* right after it.
AddPrimitive ==
    /\ Computing
    /\ LET s == ThisOp.stack[1] IN
         /\ s \in Mapped
         /\ ~Fails(s, LeafDesc)
         /\ fixMap' = Put(s, LeafDesc)
    /\ nextOp' = nextOp + 1
    /\ UNCHANGED <<program, phase, moved, todo, subprogram, code>>

\* It has none ("Forced indirect fix"): the fix is raised at once.
AddIndirect ==
    /\ Computing
    /\ LET st == ThisOp.stack IN
         /\ st[1] \notin Mapped
         /\ \E l \in DOMAIN st :
              /\ IsLanding(st, l)
              /\ ~Fails(st[l], Raised(LeafDesc, l))
              /\ fixMap' = Put(st[l], Raised(LeafDesc, l))
    /\ nextOp' = nextOp + 1
    /\ UNCHANGED <<program, phase, moved, todo, subprogram, code>>

\* The heuristic or addFixToMapping fails an assertion.
ComputeFails ==
    /\ Computing
    /\ LET st == ThisOp.stack IN
         \/ st[1] \in Mapped /\ Fails(st[1], LeafDesc)
         \/ st[1] \notin Mapped /\ HeuristicFails(st)
         \/ /\ st[1] \notin Mapped
            /\ \E l \in DOMAIN st : IsLanding(st, l) /\ Fails(st[l], Raised(LeafDesc, l))
    /\ Abort

Fixed == {s \in Site : fixMap[s] # NoFix}
PrimitiveFixes == {s \in Fixed : fixMap[s].type \in Primitive}

\* Step 2 is skipped with DisableFixRaising.
EndCompute ==
    /\ phase = "compute" /\ nextOp > Len(ops)
    /\ \/ Raising /\ phase' = "raise" /\ todo' = PrimitiveFixes
       \/ ~Raising /\ phase' = "apply" /\ todo' = Fixed
    /\ UNCHANGED <<program, nextOp, fixMap, moved, subprogram, code>>

-----------------------------------------------------------------------------
(***************************************************************************)
(* Step 2: runFixMapOptimization.  A fix whose place is already right, and *)
(* one whose raised form adds nothing, stays; the others are erased after  *)
(* the loop.  Fixes that became or are PST ones are passed over.           *)
(***************************************************************************)
Raise(s) ==
    LET stack == fixMap[s].dynStack IN
    /\ phase = "raise"
    /\ fixMap[s].type \in Primitive
    /\ ~IsBlocked(stack)
    /\ \E l \in DOMAIN stack :
         /\ IsLanding(stack, l)
         /\ \/ l = 1 /\ UNCHANGED <<fixMap, moved>>
            \/ LET at == stack[l] IN
                 /\ l > 1
                 /\ ~Fails(at, Raised(fixMap[s], l))
                 /\ fixMap' = Put(at, Raised(fixMap[s], l))
                 /\ moved' = IF IsAdded(fixMap[at], Raised(fixMap[s], l))
                             THEN moved \cup {s} ELSE moved
    /\ todo' = todo \ {s}
    /\ UNCHANGED <<program, phase, nextOp, subprogram, code>>

PassOver(s) ==
    /\ phase = "raise"
    /\ fixMap[s].type \in PST
    /\ todo' = todo \ {s}
    /\ UNCHANGED <<program, phase, nextOp, fixMap, moved, subprogram, code>>

RaiseFails(s) ==
    LET stack == fixMap[s].dynStack IN
    /\ phase = "raise"
    /\ fixMap[s].type \in Primitive
    /\ \/ HeuristicFails(stack)
       \/ IsBlocked(stack)
       \/ \E l \in 2 .. Len(stack) : IsLanding(stack, l) /\ Fails(stack[l], Raised(fixMap[s], l))
    /\ Abort

\* A bug of the erasure: the loop of step 3 still visits what was moved.
EndRaiseKeepsMoved ==
    /\ phase = "raise" /\ todo = {}
    /\ fixMap' = [s \in Site |-> IF s \in moved THEN NoFix ELSE fixMap[s]]
    /\ moved' = {}
    /\ todo' = Fixed
    /\ phase' = "apply"
    /\ UNCHANGED <<program, nextOp, subprogram, code>>

EndRaise ==
    /\ phase = "raise" /\ todo = {}
    /\ fixMap' = [s \in Site |-> IF s \in moved THEN NoFix ELSE fixMap[s]]
    /\ moved' = {}
    /\ todo' = Fixed \ moved
    /\ phase' = "apply"
    /\ UNCHANGED <<program, nextOp, subprogram, code>>

-----------------------------------------------------------------------------
(* Step 3: fixBug.                                                         *)

\* A bug of FLUSH_AND_FENCE: only the flush.
InsertFlushOnly(s) == [code EXCEPT ![<<FnOf[s], 0>>].flush = @ \cup {s}]

InsertFlush(s) == [code EXCEPT ![<<FnOf[s], 0>>].flush = @ \cup {s}]
InsertFence(s) == [code EXCEPT ![<<FnOf[s], 0>>].fence = @ \cup {s}]
InsertBoth(s)  == [code EXCEPT ![<<FnOf[s], 0>>].flush = @ \cup {s},
                               ![<<FnOf[s], 0>>].fence = @ \cup {s}]

\* What PMTestFixGenerator has no way to insert: a fence that does not follow
\* a flush of its own ("IDK!"), and a subprogram ("IMPLEMENT ME").
IsBeyondPMTest(s) == ForPMTest /\ fixMap[s].type \in {"FENCE_ONLY"} \cup PST

\* insertFlush and insertFence; the fence goes after the flush.
ApplyPrimitive(s) ==
    /\ phase = "apply"
    /\ ~IsBeyondPMTest(s)
    /\ \/ fixMap[s].type = "FLUSH_ONLY" /\ code' = InsertFlush(s)
       \/ fixMap[s].type = "FENCE_ONLY" /\ code' = InsertFence(s)
       \/ fixMap[s].type = "FLUSH_AND_FENCE" /\ code' = InsertBoth(s)
    /\ todo' = todo \ {s}
    /\ UNCHANGED <<program, phase, nextOp, fixMap, moved, subprogram>>

\* insertPersistentSubProgram: its loop over the frames below the place.
ApplySubProgram(s) ==
    /\ phase = "apply"
    /\ ~ForPMTest
    /\ fixMap[s].type \in PST
    /\ phase' = "subprogram"
    /\ cur' = s /\ frame' = 0 /\ retInst' = NoSite
    /\ todo' = todo \ {s}
    /\ UNCHANGED <<program, nextOp, fixMap, moved, code>>

GeneratorFails(s) ==
    /\ phase = "apply"
    /\ IsBeyondPMTest(s)
    /\ Abort

Chain    == fixMap[cur].dynStack
AtSite   == Chain[frame + 1]
NextSite == Chain[frame + 2]
InLoop   == phase = "subprogram" /\ frame < fixMap[cur].stackIdx

\* A bug of the cloning: the clone is made of the function as it was before
\* any fix.
CloneOfInput(f) == [Original(f) EXCEPT !.flush = StoresOf(f)]

\* duplicateFunction and makeAllStoresPersistent: f as it is by now, with
\* every store of it flushed that may point to persistent memory.  Those of
\* the model all do; that the analysis knows is StoresArePm of AliasScores.
Clone(f) == [code[<<f, 0>>] EXCEPT !.flush = StoresOf(f)]
Fresh(f) == <<f, Cardinality({v \in DOMAIN code : v[1] = f})>>

\* The call of the next frame, in the original of its function, still
\* names the original of this one.
CallsOriginal == code[<<FnOf[NextSite], 0>>].calls[NextSite] = <<FnOf[AtSite], 0>>

\* A bug of the re-pointing: the call is not remembered.
RepointSilently(cde, v) ==
    /\ code' = IF CallsOriginal THEN [cde EXCEPT ![<<FnOf[NextSite], 0>>].calls[NextSite] = v]
               ELSE cde
    /\ UNCHANGED retInst

\* setCalledFunction: that call names v from now on, and is retInst.
Repoint(cde, v) ==
    /\ code' = IF CallsOriginal THEN [cde EXCEPT ![<<FnOf[NextSite], 0>>].calls[NextSite] = v]
               ELSE cde
    /\ retInst' = IF CallsOriginal THEN NextSite ELSE retInst

WithVersion(v, body) == [w \in DOMAIN code \cup {v} |-> IF w = v THEN body ELSE code[w]]

\* A frame with a location: clone its function and call the clone.
CloneFrame ==
    /\ InLoop
    /\ AtSite \in Mapped /\ NextSite \in Mapped
    /\ CalleeOf[NextSite] # Indirect
    /\ Heuristic \/ StoresOf(FnOf[AtSite]) = {}
    /\ LET v == Fresh(FnOf[AtSite]) IN Repoint(WithVersion(v, Clone(FnOf[AtSite])), v)
    /\ frame' = frame + 1
    /\ UNCHANGED <<program, phase, nextOp, fixMap, moved, todo, cur>>

\* A bug of the loop: it goes on to the next frame only with a clone.
ReplaceAgain ==
    /\ InLoop
    /\ AtSite \notin Mapped /\ NextSite \in Mapped
    /\ CalleeOf[NextSite] # Indirect
    /\ FnOf[AtSite] \in Replaceable
    /\ Repoint(code, <<FnOf[AtSite], 1>>)
    /\ UNCHANGED <<program, phase, nextOp, fixMap, moved, todo, cur, frame>>

\* The store is in external code: call its PMFIXER_ version, which has to be
\* one that there is.  A call that
\* names it already is left alone: PMFIXER_ functions are linked in, so they
\* are neither intrinsics nor declarations.
ReplaceExternal ==
    /\ InLoop
    /\ AtSite \notin Mapped /\ NextSite \in Mapped
    /\ CalleeOf[NextSite] # Indirect
    /\ FnOf[AtSite] \in Replaceable
    /\ Repoint(code, <<FnOf[AtSite], 1>>)
    /\ frame' = frame + 1
    /\ UNCHANGED <<program, phase, nextOp, fixMap, moved, todo, cur>>

\* "function pointer unhandled!" and "don't know what to do!"; mapper_ has no
\* location of the next frame, and "at" ends the process; without the heuristic
\* there is no PmDesc for makeAllStoresPersistent to ask; what is called has no
\* PMFIXER_ version ("Could not find persistent intrinsic!", "unhandled!").
FrameFails ==
    /\ InLoop
    /\ \/ CalleeOf[NextSite] = Indirect
       \/ NextSite \notin Mapped
       \/ AtSite \in Mapped /\ ~Heuristic /\ StoresOf(FnOf[AtSite]) # {}
       \/ AtSite \notin Mapped /\ FnOf[AtSite] \notin Replaceable
    /\ Abort

\* The fence goes after the last call that was re-pointed.
EndSubProgram ==
    /\ phase = "subprogram" /\ frame = fixMap[cur].stackIdx
    /\ \/ fixMap[cur].type = "PST_NOFENCE" /\ UNCHANGED code
       \/ fixMap[cur].type = "PST" /\ retInst # NoSite /\ code' = InsertFence(retInst)
    /\ phase' = "apply"
    /\ cur' = NoSite /\ frame' = 0 /\ retInst' = NoSite
    /\ UNCHANGED <<program, nextOp, fixMap, moved, todo>>

\* No call was: insertFence dereferences a null pointer.
FenceFails ==
    /\ phase = "subprogram" /\ frame = fixMap[cur].stackIdx
    /\ fixMap[cur].type = "PST" /\ retInst = NoSite
    /\ Abort

-----------------------------------------------------------------------------
(* Step 4: patchMemoryPrimitives.                                          *)

\* What a call names after the loop: all functions of the module are walked,
\* the PMFIXER_ ones linked into it too.  (Without -intra-only; with it calls
\* go to the _naive forms, which call nothing.)
Patched(v) == IF v \in Patchable \X {0} THEN <<v[1], 1>> ELSE v

EndApply ==
    /\ phase = "apply" /\ todo = {}
    /\ \/ Raising /\ UNCHANGED code
       \/ /\ ~Raising
          /\ code' = [v \in DOMAIN code |->
                        [code[v] EXCEPT
                            !.calls = [c \in Call |-> IF @[c] = Indirect THEN Indirect
                                                      ELSE Patched(@[c])],
                            !.libc = IF @ = NoSite THEN NoSite ELSE Patched(@)]]
    /\ phase' = "done"
    /\ UNCHANGED <<program, nextOp, fixMap, moved, todo, subprogram>>

Finished == phase \in {"done", "abort"} /\ UNCHANGED vars

Next ==
    \/ AddPrimitive \/ AddIndirect \/ ComputeFails \/ EndCompute
    \/ \E s \in todo : \/ Raise(s) \/ PassOver(s) \/ RaiseFails(s)
                       \/ ApplyPrimitive(s) \/ ApplySubProgram(s) \/ GeneratorFails(s)
    \/ EndRaise
    \/ CloneFrame \/ ReplaceExternal \/ FrameFails \/ EndSubProgram \/ FenceFails
    \/ EndApply
    \/ Finished

\* opt runs the pass to its end.
Spec == Init /\ [][Next]_vars /\ WF_vars(Next)

-----------------------------------------------------------------------------
(* Properties.                                                             *)

\* The types: the fixes, the loop variables, and a module in which every
\* call names a version that exists.
TypeOK ==
    /\ options \in Options /\ ops \in OpLists /\ score \in Scores
    /\ phase \in {"compute", "raise", "apply", "subprogram", "done", "abort"}
    /\ nextOp \in 1 .. Len(ops) + 1
    /\ \A s \in Site : fixMap[s] # NoFix => fixMap[s] \in FixDesc
    /\ moved \subseteq Site /\ todo \subseteq Fixed
    /\ cur \in Site \cup {NoSite} /\ retInst \in Site \cup {NoSite} /\ frame \in Nat
    /\ \A v \in DOMAIN code : /\ v \in Version /\ code[v] \in Body
                              /\ \A c \in Call : code[v].calls[c] \in DOMAIN code \cup {Indirect}

\* The versions a call stack runs through: main's original, and from there
\* what each call names.
Path(stack) ==
    LET L == Len(stack)
        \* up[n]: the version of the function n frames below main's
        up[n \in 0 .. L - 1] ==
            IF n = 0 THEN <<FnOf[stack[L]], 0>>
            ELSE LET v == code[up[n - 1]].calls[stack[L - n + 1]]
                 IN IF v = Indirect THEN <<FnOf[stack[L - n]], 0>> ELSE v
    IN [k \in 1 .. L |-> up[L - k]]

\* The store of a request, run on the stack of its report, is flushed, and
\* if the request asks for it, fenced after that.  (That the function the
\* store is in still gets to it is LibcReached.)
IsRepaired(op) ==
    LET v == Path(op.stack) IN
    /\ AddsFlush(op.type) => op.stack[1] \in code[v[1]].flush
    /\ AddsFence(op.type) => \E k \in DOMAIN v : op.stack[k] \in code[v[k]].fence

DemandStep ==
    \A s \in Fixed :
        \/ fixMap'[s] # NoFix /\ Covers(fixMap'[s], fixMap[s])
        \/ \E k \in 2 .. Len(fixMap[s].dynStack) : LET new == fixMap'[fixMap[s].dynStack[k]] IN
              new # NoFix /\ new.type \in PST /\ Covers(new, fixMap[s])

\* Coalescing and raising lose no demand of a place: a fix is only ever
\* replaced by one that flushes and fences at least as much, or erased when a
\* PST fix that does has its place on the stack of the erased one.
DemandKept == [][DemandStep]_vars

\* The assertions of addFixToMapping ("what", "conflicting solutions!") never
\* fail: what is already at a place and what is about to be put there can be
\* joined, whatever the reports.
NoConflict ==
    /\ Computing /\ ThisOp.stack[1] \in Mapped => ~Fails(ThisOp.stack[1], LeafDesc)
    /\ Computing /\ ThisOp.stack[1] \notin Mapped =>
          \A l \in DOMAIN ThisOp.stack :
              IsLanding(ThisOp.stack, l) => ~Fails(ThisOp.stack[l], Raised(LeafDesc, l))
    /\ phase = "raise" =>
          \A s \in PrimitiveFixes : \A l \in 2 .. Len(fixMap[s].dynStack) :
              IsLanding(fixMap[s].dynStack, l)
                  => ~Fails(fixMap[s].dynStack[l], Raised(fixMap[s], l))

\* Where a request's fix belongs, and the functions cloned to put it there.
PlaceIdx(op) ==
    IF (Raising \/ op.stack[1] \notin Mapped) /\ ~HeuristicFails(op.stack)
       THEN CHOOSE l \in DOMAIN op.stack : IsLanding(op.stack, l)
       ELSE 1
Place(op)  == op.stack[PlaceIdx(op)]
Below(op)  == {FnOf[op.stack[k]] : k \in 1 .. PlaceIdx(op) - 1}

\* The ways up to two places meet in a call, but not from the same call below.
Meet(a, b) ==
    \E i \in 2 .. PlaceIdx(a), j \in 2 .. PlaceIdx(b) :
        /\ a.stack[i] = b.stack[j]
        /\ i # j \/ \E k \in 2 .. i : a.stack[k] # b.stack[k]

\* Two requests, or a request and itself, are at odds when one clones the
\* function that the other fixes, or both a function from which they go on to
\* different ones; and when fixes that are not both for their stores are for
\* one store on two stacks, want different things in one place, or want the
\* same in one place for two stores that cannot be fixed where they are.
AtOdds(a, b) ==
    \/ FnOf[Place(b)] \in Below(a)
    \/ Meet(a, b) /\ (a.stack = b.stack \/ Place(a) # Place(b))
    \/ /\ a.stack # b.stack
       /\ PlaceIdx(a) > 1 \/ PlaceIdx(b) > 1
       /\ \/ a.stack[1] = b.stack[1] /\ a.stack[1] \in Mapped
          \/ Place(a) = Place(b) /\ (a.type # b.type \/ {a.stack[1], b.stack[1]} \cap Mapped = {})

NoneAtOdds == \A m, n \in DOMAIN ops : ~AtOdds(ops[m], ops[n])

\* BugFixer implements Repair: with the stores not yet persisted on their
\* stacks as the open reports, every step of doRepair closes reports or leaves
\* them as they are, and doRepair ends with one open only if two are at odds.
Promise == INSTANCE Repair WITH
    Report     <- Nat \ {0},
    open       <- {n \in DOMAIN ops : ~IsRepaired(ops[n])},
    compatible <- NoneAtOdds,
    answer     <- IF phase \in {"done", "abort"} THEN phase ELSE "none"

ImplementsRepair == Promise!Spec

\* doRepair ends, whatever the reports: both loops over fixMap_ and the walk
\* up each stack run out of work, though fixes are added while they run.
RepairEnds == <>(phase \in {"done", "abort"})

\* insertPersistentSubProgram finds a call to put its fence after, and does
\* not dereference a null retInst, as long as no two requests are at odds.
FenceHasPlace ==
    phase = "subprogram" /\ frame = fixMap[cur].stackIdx /\ fixMap[cur].type = "PST" /\ NoneAtOdds
        => retInst # NoSite

\* BugFixer.hpp: "We're not allowed to insert fixes into some functions."
NoFixInImmutable ==
    \A f \in Immutable \ External : code[<<f, 0>>].flush = {} /\ code[<<f, 0>>].fence = {}

\* So it is when every request has a place of its own to be raised to, which is
\* passed by no stack on the way up to its place, not even by its own: the fence
\* would go after the last call below the place that nothing else re-pointed.
OwnPlaces ==
    \A m, n \in DOMAIN ops : \A k \in 1 .. PlaceIdx(ops[m]) :
        ops[m].stack[k] = Place(ops[n]) => ops[m].stack = ops[n].stack /\ k = PlaceIdx(ops[m])

ImmutableRespected == Raising /\ OwnPlaces => NoFixInImmutable

\* "Replace all memory primitives with persistent versions" (BugFixer.hpp):
\* a persistent version is one that gets to the primitive in the end.
LibcReached == \A f \in Replaceable : code[<<f, 1>>].libc = <<f, 0>>

\* Without raising a store with a location is persisted in the function it is
\* in, so requests for such stores are repaired on all their stacks.  (The fix
\* of one without clones functions, which takes others off their path.)
RepairsDirectly ==
    phase = "done" /\ ~Raising /\ (\A n \in DOMAIN ops : ops[n].stack[1] \in Mapped)
        => \A n \in DOMAIN ops : IsRepaired(ops[n])

=============================================================================
