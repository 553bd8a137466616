---------------------------- MODULE RepairProofs ----------------------------
(***************************************************************************)
(* For every program, every set of reports and every outcome of the alias  *)
(* analysis: what doRepair keeps in fixMap_, what it makes of the module,  *)
(* and what follows for the fixes it inserts.                              *)
(***************************************************************************)
EXTENDS BugFixer, FiniteSetTheorems, WellFoundedInduction, TLAPS

-----------------------------------------------------------------------------
(* The coalescing of fixes.                                                *)

\* A description is neither an empty entry nor a failed assertion.
LEMMA DescIsReal ==
    ASSUME NEW x \in FixDesc
    PROVE  x # NoFix /\ x # Stuck /\ x.type \in FixType
BY DEF FixDesc, NoFix, Stuck, FixType, Primitive, PST

\* Joining two fixes of one kind, both primitive or both along a stack, never
\* reaches the assertion "what".
THEOREM SameKindJoins ==
    ASSUME NEW old \in FixDesc, NEW new \in FixDesc,
           (old.type \in Primitive /\ new.type \in Primitive) \/ (old.type \in PST /\ new.type \in PST)
    PROVE  Coalesce(old, new) # Stuck
<1>1. old # Stuck /\ new # Stuck
  BY DescIsReal
<1>2. [old EXCEPT !.type = "FLUSH_AND_FENCE"] # Stuck
  BY DEF FixDesc, Stuck
<1>3. CASE old.type \in Primitive /\ new.type \in Primitive
  BY <1>1, <1>2, <1>3 DEF Coalesce, Primitive
<1>4. CASE old.type \in PST /\ new.type \in PST
  BY <1>1, <1>4 DEF Coalesce, PST, Primitive
<1>. QED BY <1>3, <1>4

\* The joined fix is a description; its stack is one of the two.
THEOREM JoinIsDesc ==
    ASSUME NEW old \in FixDesc, NEW new \in FixDesc, Coalesce(old, new) # Stuck
    PROVE  /\ Coalesce(old, new) \in FixDesc
           /\ Coalesce(old, new).dynStack \in {old.dynStack, new.dynStack}
<1>1. /\ [old EXCEPT !.type = "FLUSH_AND_FENCE"] \in FixDesc
      /\ [old EXCEPT !.type = "PST"] \in FixDesc
      /\ [old EXCEPT !.type = "FLUSH_AND_FENCE"].dynStack = old.dynStack
      /\ [old EXCEPT !.type = "PST"].dynStack = old.dynStack
  BY DEF FixDesc, FixType, Primitive, PST
<1>. QED BY <1>1 DEF Coalesce

\* Joining two fixes of one kind keeps the kind.
LEMMA JoinKeepsKind ==
    ASSUME NEW old \in FixDesc, NEW new \in FixDesc
    PROVE  /\ old.type \in Primitive /\ new.type \in Primitive
                => /\ Coalesce(old, new).type \in Primitive
                   /\ Coalesce(old, new).dynStack = old.dynStack
           /\ old.type \in PST /\ new.type \in PST => Coalesce(old, new).type \in PST
<1>1. /\ [old EXCEPT !.type = "FLUSH_AND_FENCE"].type = "FLUSH_AND_FENCE"
      /\ [old EXCEPT !.type = "FLUSH_AND_FENCE"].dynStack = old.dynStack
  BY DEF FixDesc
<1>2. CASE old.type \in Primitive /\ new.type \in Primitive
  BY <1>1, <1>2 DEF Coalesce, Primitive, PST
<1>3. CASE old.type \in PST /\ new.type \in PST
  BY <1>3 DEF Coalesce, Primitive, PST
<1>. QED BY <1>2, <1>3 DEF Primitive, PST

\* The joined fix does all that both fixes do: no report loses its flush or
\* its fence to an earlier or a later report of the same place.
THEOREM JoinCoversBoth ==
    ASSUME NEW old \in FixDesc, NEW new \in FixDesc, Coalesce(old, new) # Stuck
    PROVE  /\ Covers(Coalesce(old, new), old)
           /\ Covers(Coalesce(old, new), new)
<1>1. [old EXCEPT !.type = "FLUSH_AND_FENCE"].type = "FLUSH_AND_FENCE"
  BY DEF FixDesc
<1>2. [old EXCEPT !.type = "PST"].type = "PST"
  BY DEF FixDesc
<1>3. old.type \in FixType /\ new.type \in FixType
  BY DescIsReal
<1>4. CASE old.type = new.type
  BY <1>4 DEF Coalesce, Covers, AddsFlush, AddsFence
<1>5. CASE old.type # new.type /\ {old.type, new.type} \subseteq Primitive
  BY <1>1, <1>5 DEF Coalesce, Covers, AddsFlush, AddsFence, Primitive, PST
<1>6. CASE old.type # new.type /\ ~({old.type, new.type} \subseteq Primitive)
  BY <1>2, <1>3, <1>6 DEF Coalesce, Covers, AddsFlush, AddsFence, Primitive, PST, FixType
<1>. QED BY <1>4, <1>5, <1>6

\* addFixToMapping returns false only for a fix that is redundant at its
\* place: what is there flushes and fences at least as much.
THEOREM FalseIsRedundant ==
    ASSUME NEW old \in FixDesc, NEW new \in FixDesc, Coalesce(old, new) # Stuck,
           ~IsAdded(old, new)
    PROVE  Covers(old, new)
<1>1. Coalesce(old, new).type = old.type
  BY DEF IsAdded
<1>2. Covers(Coalesce(old, new), new)
  BY JoinCoversBoth
<1>. QED BY <1>1, <1>2 DEF Covers, AddsFlush, AddsFence

-----------------------------------------------------------------------------
(* The map.                                                                *)

\* A call stack: a store, then calls.
IsStack(st) ==
    /\ st \in Seq(Site) /\ Len(st) >= 1
    /\ st[1] \in Store
    /\ \A k \in 2 .. Len(st) : st[k] \in Call

RequestsOK ==
    /\ nextOp \in Nat \ {0}
    /\ \A n \in DOMAIN ops : ops[n] \in Op /\ IsStack(ops[n].stack)

\* Fixes of stores and fixes along stacks are kept apart: the former are at
\* their store, the latter at a call.
HasPlace(x, desc) ==
    /\ IsStack(desc.dynStack)
    /\ desc.type \in Primitive => x = desc.dynStack[1] /\ x \in Store
    /\ desc.type \in PST => x \in Call

MapOK ==
    /\ fixMap \in [Site -> FixDesc \cup {NoFix}]
    /\ \A x \in Site : fixMap[x] # NoFix => HasPlace(x, fixMap[x])

\* x is a store, and a fix along its stack does what it asks for.
CoveredAbove(x) ==
    \E k \in 2 .. Len(fixMap[x].dynStack) : LET c == fixMap[x].dynStack[k] IN
        fixMap[c] # NoFix /\ fixMap[c].type \in PST /\ Covers(fixMap[c], fixMap[x])

MovedOK ==
    /\ moved \subseteq Site /\ todo \subseteq Site
    /\ moved # {} => phase \in {"raise", "abort"}
    /\ \A x \in moved : fixMap[x] # NoFix /\ fixMap[x].type \in Primitive /\ CoveredAbove(x)

Inv == RequestsOK /\ MapOK /\ MovedOK

LEMMA InitInv == Init => Inv
<1>. SUFFICES ASSUME Init PROVE Inv
  OBVIOUS
<1>1. RequestsOK
  <2>1. ops \in OpLists /\ nextOp = 1
    BY DEF Init
  <2>2. ops \in Seq(Op)
    BY <2>1, StackAssumption
  <2>3. ASSUME NEW n \in DOMAIN ops PROVE ops[n] \in Op /\ IsStack(ops[n].stack)
    <3>1. ops[n] \in Op
      BY <2>2
    <3>2. ops[n].stack \in Seq(Site)
      BY <3>1 DEF Op
    <3>3. /\ Len(ops[n].stack) >= 1 /\ ops[n].stack[1] \in Store
          /\ \A k \in 2 .. Len(ops[n].stack) : ops[n].stack[k] \in Call
      BY <2>1, StackAssumption
    <3>. QED BY <3>1, <3>2, <3>3 DEF IsStack
  <2>. QED BY <2>1, <2>3 DEF RequestsOK
<1>2. MapOK
  BY DEF Init, MapOK, NoFixYet
<1>3. MovedOK
  BY DEF Init, MovedOK
<1>. QED BY <1>1, <1>2, <1>3 DEF Inv

\* A store is not a call, and a fix is of one kind.
LEMMA Apart ==
    /\ Store \cap Call = {} /\ Store \subseteq Site /\ Call \subseteq Site
    /\ Primitive \cap PST = {}
    /\ NoFix.type \notin Primitive /\ NoFix.type \notin PST
BY DEF Store, Call, Primitive, PST, NoFix

\* A fix that has a place can always be put there.
LEMMA NeverFails ==
    ASSUME MapOK, NEW x \in Site, NEW desc \in FixDesc, HasPlace(x, desc)
    PROVE  ~Fails(x, desc)
<1>1. CASE fixMap[x] = NoFix
  BY <1>1, DescIsReal DEF Fails, Added
<1>2. CASE fixMap[x] # NoFix
  <2>1. fixMap[x] \in FixDesc /\ HasPlace(x, fixMap[x])
    BY <1>2 DEF MapOK
  <2>2. \/ fixMap[x].type \in Primitive /\ desc.type \in Primitive
        \/ fixMap[x].type \in PST /\ desc.type \in PST
    BY <2>1, Apart, DescIsReal DEF HasPlace, FixType
  <2>. QED BY <1>2, <2>1, <2>2, SameKindJoins DEF Fails, Added
<1>. QED BY <1>1, <1>2

\* What addFixToMapping does to the map: the entries stay, each as strong as
\* before, of the same kind and stack if primitive; the new fix is covered.
LEMMA PutKeeps ==
    ASSUME MapOK, NEW x \in Site, NEW desc \in FixDesc, HasPlace(x, desc),
           fixMap' = Put(x, desc)
    PROVE  /\ MapOK'
           /\ fixMap'[x] # NoFix /\ Covers(fixMap'[x], desc)
           /\ desc.type \in PST => fixMap'[x].type \in PST
           /\ \A y \in Site : fixMap[y] # NoFix =>
                /\ fixMap'[y] # NoFix /\ Covers(fixMap'[y], fixMap[y])
                /\ fixMap[y].type \in PST => fixMap'[y].type \in PST
                /\ fixMap[y].type \in Primitive =>
                      fixMap'[y].type \in Primitive /\ fixMap'[y].dynStack = fixMap[y].dynStack
<1>1. /\ fixMap'[x] = Added(fixMap[x], desc)
      /\ \A y \in Site : y # x => fixMap'[y] = fixMap[y]
      /\ DOMAIN fixMap' = Site
  BY DEF Put, MapOK
<1>2. \A d \in FixDesc : Covers(d, d)
  BY DEF Covers
<1>3. CASE fixMap[x] = NoFix
  <2>1. fixMap'[x] = desc /\ desc # NoFix
    BY <1>1, <1>3, DescIsReal DEF Added
  <2>2. MapOK'
    <3>1. fixMap' \in [Site -> FixDesc \cup {NoFix}]
      BY <2>1, <1>1 DEF MapOK, Put
    <3>2. \A y \in Site : fixMap'[y] # NoFix => HasPlace(y, fixMap'[y])
      BY <2>1, <1>1 DEF MapOK
    <3>. QED BY <3>1, <3>2 DEF MapOK, HasPlace, IsStack
  <2>3. \A y \in Site : fixMap[y] # NoFix => fixMap'[y] = fixMap[y] /\ fixMap[y] \in FixDesc
    BY <1>1, <1>3 DEF MapOK
  <2>. QED BY <1>2, <2>1, <2>2, <2>3
<1>4. CASE fixMap[x] # NoFix
  <2>1. fixMap[x] \in FixDesc /\ HasPlace(x, fixMap[x])
    BY <1>4 DEF MapOK
  <2>2. /\ fixMap'[x] = Coalesce(fixMap[x], desc)
        /\ fixMap'[x] # Stuck
    BY <1>1, <1>4, NeverFails DEF Added, Fails
  <2>3. \/ fixMap[x].type \in Primitive /\ desc.type \in Primitive
        \/ fixMap[x].type \in PST /\ desc.type \in PST
    BY <2>1, Apart, DescIsReal DEF HasPlace, FixType
  <2>4. /\ fixMap'[x] \in FixDesc /\ fixMap'[x] # NoFix
        /\ fixMap'[x].dynStack \in {fixMap[x].dynStack, desc.dynStack}
        /\ Covers(fixMap'[x], fixMap[x]) /\ Covers(fixMap'[x], desc)
    BY <2>1, <2>2, JoinIsDesc, JoinCoversBoth, DescIsReal
  <2>5. /\ fixMap[x].type \in PST => fixMap'[x].type \in PST
        /\ desc.type \in PST => fixMap'[x].type \in PST
        /\ fixMap[x].type \in Primitive =>
              fixMap'[x].type \in Primitive /\ fixMap'[x].dynStack = fixMap[x].dynStack
    BY <2>1, <2>2, <2>3, JoinKeepsKind, Apart
  <2>6. HasPlace(x, fixMap'[x])
    BY <2>1, <2>3, <2>4, <2>5, Apart DEF HasPlace
  <2>7. MapOK'
    <3>1. fixMap' \in [Site -> FixDesc \cup {NoFix}]
      BY <2>4, <1>1 DEF MapOK, Put
    <3>2. \A y \in Site : fixMap'[y] # NoFix => HasPlace(y, fixMap'[y])
      BY <2>6, <1>1 DEF MapOK
    <3>. QED BY <3>1, <3>2 DEF MapOK, HasPlace, IsStack
  <2>8. \A y \in Site : fixMap[y] # NoFix => fixMap[y] \in FixDesc
    BY DEF MapOK
  <2>. QED BY <1>1, <1>2, <2>4, <2>5, <2>7, <2>8
<1>. QED BY <1>3, <1>4

-----------------------------------------------------------------------------
(* The steps.                                                              *)

\* Covers is transitive, so what covered an entry still does.
LEMMA CoveredStays ==
    ASSUME MapOK, NEW x \in Site, fixMap[x] # NoFix, fixMap[x].type \in Primitive, CoveredAbove(x),
           fixMap'[x].type \in Primitive, fixMap'[x].dynStack = fixMap[x].dynStack,
           Covers(fixMap[x], fixMap'[x]),
           \A y \in Site : fixMap[y] # NoFix =>
                /\ fixMap'[y] # NoFix /\ Covers(fixMap'[y], fixMap[y])
                /\ fixMap[y].type \in PST => fixMap'[y].type \in PST
    PROVE  CoveredAbove(x)'
<1>1. PICK k \in 2 .. Len(fixMap[x].dynStack) :
         /\ fixMap[fixMap[x].dynStack[k]] # NoFix
         /\ fixMap[fixMap[x].dynStack[k]].type \in PST
         /\ Covers(fixMap[fixMap[x].dynStack[k]], fixMap[x])
  BY DEF CoveredAbove
<1>2. fixMap[x].dynStack[k] \in Site
  BY Apart DEF MapOK, HasPlace, IsStack
<1>3. /\ fixMap'[fixMap[x].dynStack[k]] # NoFix
      /\ fixMap'[fixMap[x].dynStack[k]].type \in PST
      /\ Covers(fixMap'[fixMap[x].dynStack[k]], fixMap'[x])
  BY <1>1, <1>2 DEF Covers
<1>. QED BY <1>1, <1>3 DEF CoveredAbove

\* The fixes of the first step have a place: their store, or the call they
\* are raised to.
LEMMA LeafDescOK ==
    ASSUME RequestsOK, Computing
    PROVE  /\ LeafDesc \in FixDesc /\ LeafDesc.dynStack = ThisOp.stack
           /\ LeafDesc.type = ThisOp.type /\ ThisOp.type \in Primitive
           /\ IsStack(ThisOp.stack)
<1>1. ThisOp \in Op /\ IsStack(ThisOp.stack)
  BY DEF RequestsOK, Computing, ThisOp
<1>. QED BY <1>1 DEF LeafDesc, FixDesc, FixType, Op

LEMMA RaisedOK ==
    ASSUME NEW desc \in FixDesc, IsStack(desc.dynStack), NEW l \in 2 .. Len(desc.dynStack)
    PROVE  /\ Raised(desc, l) \in FixDesc
           /\ Raised(desc, l).type \in PST
           /\ HasPlace(desc.dynStack[l], Raised(desc, l))
           /\ desc.type \in Primitive => Covers(Raised(desc, l), desc)
<1>1. /\ Raised(desc, l).type \in PST
      /\ Raised(desc, l).dynStack = desc.dynStack
      /\ Raised(desc, l).stackIdx \in Nat
  BY DEF Raised, PST, IsStack
<1>2. Raised(desc, l) \in FixDesc
  BY <1>1 DEF Raised, FixDesc, FixType, PST
<1>3. HasPlace(desc.dynStack[l], Raised(desc, l))
  BY <1>1, Apart DEF HasPlace, IsStack
<1>4. desc.type \in Primitive => Covers(Raised(desc, l), desc)
  BY DEF Raised, Covers, AddsFlush, AddsFence, Primitive, PST
<1>. QED BY <1>1, <1>2, <1>3, <1>4

\* A step that leaves the map and the moved entries alone, or clears them,
\* keeps the invariant.
LEMMA IdleStep ==
    ASSUME Inv, UNCHANGED <<ops, nextOp, fixMap, moved>>, todo' \subseteq Site,
           moved # {} => phase' \in {"raise", "abort"}
    PROVE  Inv'
BY DEF Inv, RequestsOK, MapOK, MovedOK, CoveredAbove, HasPlace, IsStack

LEMMA AddPrimitiveStep ==
    ASSUME Inv, AddPrimitive
    PROVE  Inv' /\ DemandStep
<1>1. /\ LeafDesc \in FixDesc /\ HasPlace(ThisOp.stack[1], LeafDesc)
      /\ ThisOp.stack[1] \in Site
  <2>1. RequestsOK /\ Computing
    BY DEF Inv, AddPrimitive
  <2>. QED BY <2>1, LeafDescOK, Apart DEF HasPlace, IsStack
<1>2. fixMap' = Put(ThisOp.stack[1], LeafDesc)
  BY DEF AddPrimitive
<1>3. /\ MapOK'
      /\ \A x \in Site : fixMap[x] # NoFix => fixMap'[x] # NoFix /\ Covers(fixMap'[x], fixMap[x])
  BY <1>1, <1>2, PutKeeps DEF Inv
<1>4. RequestsOK'
  BY DEF Inv, RequestsOK, AddPrimitive, program, IsStack
<1>5. MovedOK'
  BY DEF Inv, MovedOK, AddPrimitive, Computing
<1>. QED BY <1>3, <1>4, <1>5 DEF Inv, Fixed, DemandStep

LEMMA AddIndirectStep ==
    ASSUME Inv, AddIndirect
    PROVE  Inv' /\ DemandStep
<1>1. RequestsOK /\ Computing /\ ThisOp.stack[1] \notin Mapped
  BY DEF Inv, AddIndirect
<1>2. PICK l \in DOMAIN ThisOp.stack :
        /\ IsLanding(ThisOp.stack, l)
        /\ fixMap' = Put(ThisOp.stack[l], Raised(LeafDesc, l))
  BY DEF AddIndirect
<1>3. l \in 2 .. Len(ThisOp.stack)
  <2>1. ThisOp.stack[l] \in Mapped
    BY <1>2 DEF IsLanding, CanHold
  <2>. QED BY <1>1, <2>1, LeafDescOK DEF IsStack
<1>4. /\ Raised(LeafDesc, l) \in FixDesc
      /\ HasPlace(ThisOp.stack[l], Raised(LeafDesc, l))
      /\ ThisOp.stack[l] \in Site
  BY <1>1, <1>3, LeafDescOK, RaisedOK, Apart DEF IsStack
<1>5. /\ MapOK'
      /\ \A x \in Site : fixMap[x] # NoFix => fixMap'[x] # NoFix /\ Covers(fixMap'[x], fixMap[x])
  BY <1>2, <1>4, PutKeeps DEF Inv
<1>6. RequestsOK'
  BY DEF Inv, RequestsOK, AddIndirect, program, IsStack
<1>7. MovedOK'
  BY DEF Inv, MovedOK, AddIndirect, Computing
<1>. QED BY <1>5, <1>6, <1>7 DEF Inv, Fixed, DemandStep

\* Raising: the entry that is moved is covered by the one it is raised to,
\* and those moved before still are.
LEMMA RaiseStep ==
    ASSUME Inv, NEW s \in Site, Raise(s)
    PROVE  Inv' /\ DemandStep
<1>. DEFINE stack == fixMap[s].dynStack
<1>1. /\ fixMap[s].type \in Primitive /\ fixMap[s] # NoFix /\ fixMap[s] \in FixDesc
      /\ IsStack(stack) /\ s \in Store
  <2>1. fixMap[s].type \in Primitive
    BY DEF Raise
  <2>2. fixMap[s] # NoFix
    BY <2>1, Apart
  <2>. QED BY <2>1, <2>2 DEF Inv, MapOK, HasPlace
<1>2. PICK l \in DOMAIN stack :
        \/ l = 1 /\ UNCHANGED <<fixMap, moved>>
        \/ /\ l > 1
           /\ fixMap' = Put(stack[l], Raised(fixMap[s], l))
           /\ moved' \in {moved, moved \cup {s}}
  BY DEF Raise
<1>3. phase = "raise" /\ phase' = "raise" /\ UNCHANGED <<ops, nextOp>> /\ todo' \subseteq Site
  BY DEF Raise, program, Inv, MovedOK
<1>4. CASE UNCHANGED <<fixMap, moved>>
  <2>1. Inv'
    BY <1>3, <1>4, IdleStep
  <2>. QED BY <1>4, <2>1 DEF Fixed, Covers, DemandStep
<1>5. CASE /\ l > 1
           /\ fixMap' = Put(stack[l], Raised(fixMap[s], l))
           /\ moved' \in {moved, moved \cup {s}}
  <2>1. l \in 2 .. Len(stack)
    BY <1>1, <1>5 DEF IsStack
  <2>2. stack[l] \in Call /\ stack[l] \in Site
    BY <1>1, <2>1, Apart DEF IsStack
  <2>3. /\ Raised(fixMap[s], l) \in FixDesc /\ HasPlace(stack[l], Raised(fixMap[s], l))
        /\ Raised(fixMap[s], l).type \in PST /\ Covers(Raised(fixMap[s], l), fixMap[s])
    BY <1>1, <2>1, RaisedOK
  <2>4. /\ MapOK'
        /\ fixMap'[stack[l]] # NoFix /\ Covers(fixMap'[stack[l]], Raised(fixMap[s], l))
        /\ fixMap'[stack[l]].type \in PST
        /\ \A y \in Site : fixMap[y] # NoFix =>
             /\ fixMap'[y] # NoFix /\ Covers(fixMap'[y], fixMap[y])
             /\ fixMap[y].type \in PST => fixMap'[y].type \in PST
    BY <1>5, <2>2, <2>3, PutKeeps DEF Inv
  <2>5. \A x \in Store : fixMap'[x] = fixMap[x]
    BY <1>5, <2>2, Apart DEF Put, Inv, MapOK
  <2>6. CoveredAbove(s)'
    <3>1. Covers(fixMap'[stack[l]], fixMap'[s])
      BY <1>1, <2>3, <2>4, <2>5 DEF Covers
    <3>2. fixMap'[s].dynStack = stack
      BY <1>1, <2>5
    <3>. QED BY <2>1, <2>4, <3>1, <3>2 DEF CoveredAbove
  <2>7. ASSUME NEW x \in moved
        PROVE  fixMap'[x] # NoFix /\ fixMap'[x].type \in Primitive /\ CoveredAbove(x)'
    <3>1. /\ x \in Site /\ fixMap[x] # NoFix /\ fixMap[x].type \in Primitive /\ CoveredAbove(x)
      BY DEF Inv, MovedOK
    <3>2. fixMap'[x] = fixMap[x]
      BY <2>5, <3>1 DEF Inv, MapOK, HasPlace
    <3>3. CoveredAbove(x)'
      BY <2>4, <3>1, <3>2, CoveredStays DEF Inv, Covers
    <3>. QED BY <3>1, <3>2, <3>3
  <2>8. MovedOK'
    <3>1. ASSUME NEW x \in moved'
          PROVE  fixMap'[x] # NoFix /\ fixMap'[x].type \in Primitive /\ CoveredAbove(x)'
      BY <1>1, <1>5, <2>5, <2>6, <2>7
    <3>. QED BY <1>3, <1>5, <3>1 DEF MovedOK, Inv
  <2>9. RequestsOK'
    BY <1>3 DEF Inv, RequestsOK, IsStack
  <2>. QED BY <2>4, <2>8, <2>9 DEF Inv, Fixed, DemandStep
<1>. QED BY <1>2, <1>4, <1>5

\* Erasing: what is erased is covered by an entry that is not, since moved
\* entries are at stores and the covering ones at calls.
LEMMA EndRaiseStep ==
    ASSUME Inv, EndRaise
    PROVE  /\ Inv'
           /\ DemandStep
<1>1. \A x \in Site : fixMap'[x] = IF x \in moved THEN NoFix ELSE fixMap[x]
  BY DEF EndRaise
<1>2. MapOK'
  <2>1. fixMap' \in [Site -> FixDesc \cup {NoFix}]
    BY DEF Inv, MapOK, EndRaise
  <2>2. \A x \in Site : fixMap'[x] # NoFix => HasPlace(x, fixMap'[x])
    BY <1>1 DEF Inv, MapOK
  <2>. QED BY <2>1, <2>2 DEF MapOK, HasPlace, IsStack
<1>3. RequestsOK' /\ MovedOK'
  BY DEF Inv, RequestsOK, MovedOK, EndRaise, program, Fixed, IsStack
<1>4. ASSUME NEW x \in moved
      PROVE  \E k \in 2 .. Len(fixMap[x].dynStack) : LET new == fixMap'[fixMap[x].dynStack[k]] IN
                new # NoFix /\ new.type \in PST /\ Covers(new, fixMap[x])
  <2>1. x \in Site /\ fixMap[x] # NoFix /\ CoveredAbove(x)
    BY DEF Inv, MovedOK
  <2>2. PICK k \in 2 .. Len(fixMap[x].dynStack) :
           /\ fixMap[fixMap[x].dynStack[k]] # NoFix
           /\ fixMap[fixMap[x].dynStack[k]].type \in PST
           /\ Covers(fixMap[fixMap[x].dynStack[k]], fixMap[x])
    BY <2>1 DEF CoveredAbove
  <2>3. fixMap[x].dynStack[k] \in Site
    BY <2>1, Apart DEF Inv, MapOK, HasPlace, IsStack
  <2>4. fixMap[x].dynStack[k] \notin moved
    BY <2>2, Apart DEF Inv, MovedOK
  <2>. QED BY <1>1, <2>2, <2>3, <2>4
<1>5. \A x \in Fixed : x \notin moved => fixMap'[x] # NoFix /\ Covers(fixMap'[x], fixMap[x])
  BY <1>1 DEF Fixed, Covers
<1>. QED BY <1>2, <1>3, <1>4, <1>5 DEF Inv, DemandStep

\* The steps after that, and those that fail, only read the map.
ReadsMap == UNCHANGED <<ops, nextOp, fixMap, moved>> /\ todo' \subseteq Site
            /\ (moved # {} => phase' \in {"raise", "abort"})

LEMMA OtherSteps ==
    ASSUME Inv,
           \/ ComputeFails \/ EndCompute
           \/ \E s \in todo : PassOver(s) \/ RaiseFails(s) \/ ApplyPrimitive(s) \/ ApplySubProgram(s) \/ GeneratorFails(s)
           \/ CloneFrame \/ ReplaceExternal \/ FrameFails \/ EndSubProgram \/ FenceFails
           \/ EndApply \/ Finished \/ UNCHANGED vars
    PROVE  ReadsMap
<1>. USE DEF Inv, MovedOK, ReadsMap, program
<1>1. CASE ComputeFails
  BY <1>1 DEF ComputeFails, Abort
<1>2. CASE EndCompute
  BY <1>2 DEF EndCompute, Fixed, PrimitiveFixes
<1>3. CASE \E s \in todo : PassOver(s) \/ RaiseFails(s) \/ ApplyPrimitive(s) \/ ApplySubProgram(s) \/ GeneratorFails(s)
  BY <1>3 DEF PassOver, RaiseFails, ApplyPrimitive, ApplySubProgram, GeneratorFails, Abort
<1>4. CASE CloneFrame \/ ReplaceExternal
  BY <1>4 DEF CloneFrame, ReplaceExternal, InLoop
<1>5. CASE FrameFails \/ FenceFails
  BY <1>5 DEF FrameFails, FenceFails, Abort
<1>6. CASE EndSubProgram
  BY <1>6 DEF EndSubProgram
<1>7. CASE EndApply
  BY <1>7 DEF EndApply
<1>8. CASE Finished \/ UNCHANGED vars
  BY <1>8 DEF Finished, vars
<1>. QED BY <1>1, <1>2, <1>3, <1>4, <1>5, <1>6, <1>7, <1>8

LEMMA Step ==
    ASSUME Inv, [Next]_vars
    PROVE  /\ Inv'
           /\ DemandStep
<1>1. CASE AddPrimitive
  BY <1>1, AddPrimitiveStep
<1>2. CASE AddIndirect
  BY <1>2, AddIndirectStep
<1>3. CASE \E s \in todo : Raise(s)
  BY <1>3, RaiseStep DEF Inv, MovedOK
<1>4. CASE EndRaise
  BY <1>4, EndRaiseStep
<1>5. CASE ReadsMap
  <2>1. Inv'
    BY <1>5, IdleStep DEF ReadsMap
  <2>. QED BY <1>5, <2>1 DEF ReadsMap, Fixed, Covers, DemandStep
<1>. QED BY <1>1, <1>2, <1>3, <1>4, <1>5, OtherSteps DEF Next

\* The invariant holds of every program and every set of reports.
THEOREM MapStaysRight == Spec => []Inv
<1>1. Init => Inv
  BY InitInv
<1>2. Inv /\ [Next]_vars => Inv'
  BY Step
<1>. QED BY <1>1, <1>2, PTL DEF Spec

\* No demand of a place is lost by coalescing, raising or erasing.
THEOREM DemandIsKept == Spec => DemandKept
<1>1. Inv /\ [Next]_vars => [DemandStep]_vars
  BY Step
<1>. QED BY <1>1, MapStaysRight, PTL DEF Spec, DemandKept

\* The assertions of addFixToMapping never fail.
LEMMA InvNoConflict == Inv => NoConflict
<1>. SUFFICES ASSUME Inv PROVE NoConflict
  OBVIOUS
<1>1. ASSUME Computing, ThisOp.stack[1] \in Mapped
      PROVE  ~Fails(ThisOp.stack[1], LeafDesc)
  <2>1. RequestsOK /\ MapOK
    BY DEF Inv
  <2>2. LeafDesc \in FixDesc /\ HasPlace(ThisOp.stack[1], LeafDesc) /\ ThisOp.stack[1] \in Site
    BY <1>1, <2>1, LeafDescOK, Apart DEF HasPlace, IsStack
  <2>. QED BY <2>1, <2>2, NeverFails
<1>2. ASSUME Computing, ThisOp.stack[1] \notin Mapped,
             NEW l \in DOMAIN ThisOp.stack, IsLanding(ThisOp.stack, l)
      PROVE  ~Fails(ThisOp.stack[l], Raised(LeafDesc, l))
  <2>1. RequestsOK /\ MapOK
    BY DEF Inv
  <2>2. l \in 2 .. Len(ThisOp.stack)
    BY <1>2, <2>1, LeafDescOK DEF IsStack, IsLanding, CanHold
  <2>3. /\ Raised(LeafDesc, l) \in FixDesc
        /\ HasPlace(ThisOp.stack[l], Raised(LeafDesc, l))
        /\ ThisOp.stack[l] \in Site
    BY <1>2, <2>1, <2>2, LeafDescOK, RaisedOK, Apart DEF IsStack
  <2>. QED BY <2>1, <2>3, NeverFails
<1>3. ASSUME NEW s \in PrimitiveFixes, NEW l \in 2 .. Len(fixMap[s].dynStack)
      PROVE  ~Fails(fixMap[s].dynStack[l], Raised(fixMap[s], l))
  <2>1. fixMap[s] \in FixDesc /\ IsStack(fixMap[s].dynStack) /\ MapOK
    BY DEF PrimitiveFixes, Fixed, Inv, MapOK, HasPlace
  <2>2. /\ Raised(fixMap[s], l) \in FixDesc
        /\ HasPlace(fixMap[s].dynStack[l], Raised(fixMap[s], l))
        /\ fixMap[s].dynStack[l] \in Site
    BY <2>1, RaisedOK, Apart DEF IsStack
  <2>. QED BY <2>1, <2>2, NeverFails
<1>. QED BY <1>1, <1>2, <1>3 DEF NoConflict

THEOREM ConflictNever == Spec => []NoConflict
BY MapStaysRight, InvNoConflict, PTL

-----------------------------------------------------------------------------
(* The places of the fixes.                                                *)

\* The program under repair does not change.
ProgramOK == options \in Options /\ ops \in OpLists /\ score \in Scores

\* The frame that has the best score is one, and so is the place above it.
LEMMA BestUnique ==
    ASSUME ProgramOK, NEW st, IsStack(st),
           NEW h \in DOMAIN st, NEW g \in DOMAIN st, IsHeuristicIdx(st, h), IsHeuristicIdx(st, g)
    PROVE  h = g
<1>1. CASE ~Heuristic
  BY <1>1 DEF IsHeuristicIdx
<1>2. CASE Heuristic
  <2>1. IsBest(st, h) /\ IsBest(st, g)
    BY <1>2 DEF IsHeuristicIdx
  <2>2. h \in Candidates(st) /\ g \in Candidates(st) /\ h \in Nat /\ g \in Nat
    BY <2>1 DEF IsBest, IsStack
  <2>3. ASSUME NEW l \in Candidates(st)
        PROVE  score[st[l]] \in Int
    <3>1. l \in DOMAIN st /\ l \in 1 .. l /\ st[l] \in Mapped /\ st[l] \in Site
      BY DEF Candidates, IsStack, Mapped
    <3>2. score[st[l]] # NoAliases
      BY <3>1 DEF Candidates
    <3>3. score \in [Site -> Int \cup {NoAliases}]
      BY ProgramAssumption DEF ProgramOK
    <3>. QED BY <3>1, <3>2, <3>3
  <2>4. /\ score[st[g]] < score[st[h]] \/ (score[st[g]] = score[st[h]] /\ h <= g)
        /\ score[st[h]] < score[st[g]] \/ (score[st[h]] = score[st[g]] /\ g <= h)
    BY <2>1, <2>2 DEF IsBest
  <2>. QED BY <2>2, <2>3, <2>4
<1>. QED BY <1>1, <1>2

\* So there is one place to raise a fix to.
LEMMA LandingUnique ==
    ASSUME ProgramOK, NEW st, IsStack(st),
           NEW l \in DOMAIN st, NEW k \in DOMAIN st, IsLanding(st, l), IsLanding(st, k)
    PROVE  l = k
<1>1. PICK h \in 1 .. l : IsHeuristicIdx(st, h) /\ \A m \in h .. (l - 1) : ~CanHold(st[m])
  BY DEF IsLanding
<1>2. PICK g \in 1 .. k : IsHeuristicIdx(st, g) /\ \A m \in g .. (k - 1) : ~CanHold(st[m])
  BY DEF IsLanding
<1>3. DOMAIN st = 1 .. Len(st) /\ Len(st) \in Nat
  BY DEF IsStack
<1>4. h \in DOMAIN st /\ g \in DOMAIN st
  BY <1>3
<1>5. h = g
  BY <1>1, <1>2, <1>4, BestUnique
<1>6. CanHold(st[l]) /\ CanHold(st[k])
  BY DEF IsLanding
<1>7. ~(l < k) /\ ~(k < l)
  BY <1>1, <1>2, <1>3, <1>5, <1>6
<1>. QED BY <1>3, <1>7

\* Where a fix is raised to is the place of its request.
LEMMA LandingIsPlace ==
    ASSUME ProgramOK, NEW op, IsStack(op.stack), NEW l \in DOMAIN op.stack, IsLanding(op.stack, l),
           Raising \/ op.stack[1] \notin Mapped
    PROVE  PlaceIdx(op) = l /\ Place(op) = op.stack[l]
<1>1. ~HeuristicFails(op.stack)
  <2>1. PICK h \in 1 .. l : IsHeuristicIdx(op.stack, h)
    BY DEF IsLanding
  <2>. QED BY <2>1 DEF HeuristicFails, IsHeuristicIdx, IsBest
<1>2. \A k \in DOMAIN op.stack : IsLanding(op.stack, k) => k = l
  BY LandingUnique
<1>3. (CHOOSE k \in DOMAIN op.stack : IsLanding(op.stack, k)) = l
  BY <1>2
<1>. QED BY <1>1, <1>3 DEF PlaceIdx, Place

\* The places depend on what does not change.
LEMMA PlacesRigid ==
    ASSUME UNCHANGED program
    PROVE  /\ \A op : PlaceIdx(op)' = PlaceIdx(op) /\ Place(op)' = Place(op)
           /\ \A st, l : IsLanding(st, l)' = IsLanding(st, l)
           /\ Raising' = Raising
<1>1. UNCHANGED <<options, ops, score>>
  BY DEF program
<1>2. Heuristic' = Heuristic /\ Raising' = Raising
  BY <1>1 DEF Heuristic, Raising
<1>3. \A st : Candidates(st)' = Candidates(st)
  BY <1>1 DEF Candidates
<1>4. \A st, h : IsBest(st, h)' = IsBest(st, h)
  BY <1>1, <1>3 DEF IsBest
<1>5. \A st, h : IsHeuristicIdx(st, h)' = IsHeuristicIdx(st, h)
  BY <1>2, <1>4 DEF IsHeuristicIdx
<1>6. \A st, l : IsLanding(st, l)' = IsLanding(st, l)
  BY <1>5 DEF IsLanding
<1>7. \A st : HeuristicFails(st)' = HeuristicFails(st)
  BY <1>2, <1>3 DEF HeuristicFails
<1>8. \A op : PlaceIdx(op)' = PlaceIdx(op)
  <2>. SUFFICES ASSUME NEW op PROVE PlaceIdx(op)' = PlaceIdx(op)
    OBVIOUS
  <2>1. \A l : IsLanding(op.stack, l)' <=> IsLanding(op.stack, l)
    BY <1>6
  <2>2. (CHOOSE l \in DOMAIN op.stack : IsLanding(op.stack, l))' = CHOOSE l \in DOMAIN op.stack : IsLanding(op.stack, l)
    BY <2>1, Zenon
  <2>. DEFINE raises == (Raising \/ op.stack[1] \notin Mapped) /\ ~HeuristicFails(op.stack)
  <2>3. raises' <=> raises
    BY <1>2, <1>7
  <2>4. PlaceIdx(op) = IF raises THEN CHOOSE l \in DOMAIN op.stack : IsLanding(op.stack, l) ELSE 1
    BY DEF PlaceIdx
  <2>5. PlaceIdx(op)' = IF raises' THEN (CHOOSE l \in DOMAIN op.stack : IsLanding(op.stack, l))' ELSE 1
    BY DEF PlaceIdx
  <2>. HIDE DEF raises
  <2>. QED BY <2>2, <2>3, <2>4, <2>5
<1>. QED BY <1>2, <1>6, <1>8 DEF Place

\* A fix has the stack of a request; a raised one is at the request's place.
FromRequest(x, desc) ==
    \E n \in DOMAIN ops :
        /\ desc.dynStack = ops[n].stack
        /\ desc.type \in PST => /\ PlaceIdx(ops[n]) \in 2 .. Len(ops[n].stack)
                                /\ desc.stackIdx = PlaceIdx(ops[n]) - 1
                                /\ x = Place(ops[n]) /\ CanHold(x)
                                /\ Raising \/ ops[n].stack[1] \notin Mapped

PlacesOK == \A x \in Site : fixMap[x] # NoFix => FromRequest(x, fixMap[x])

\* A fix that is raised to its place is from a request.
LEMMA RaisedFromRequest ==
    ASSUME ProgramOK, RequestsOK, NEW desc, NEW n \in DOMAIN ops, desc.dynStack = ops[n].stack,
           NEW l \in 2 .. Len(desc.dynStack), IsLanding(desc.dynStack, l),
           Raising \/ desc.dynStack[1] \notin Mapped
    PROVE  FromRequest(desc.dynStack[l], Raised(desc, l))
<1>1. IsStack(ops[n].stack) /\ l \in DOMAIN ops[n].stack
  BY DEF RequestsOK, IsStack
<1>2. PlaceIdx(ops[n]) = l /\ Place(ops[n]) = ops[n].stack[l]
  BY <1>1, LandingIsPlace
<1>. QED BY <1>2 DEF FromRequest, Raised, IsLanding

\* Joining keeps one of the two descriptions but for its type.
LEMMA PutFromRequest ==
    ASSUME MapOK, PlacesOK, NEW x \in Site, NEW desc \in FixDesc, HasPlace(x, desc),
           FromRequest(x, desc), fixMap' = Put(x, desc), UNCHANGED program
    PROVE  PlacesOK'
<1>1. /\ fixMap'[x] = Added(fixMap[x], desc)
      /\ \A y \in Site : y # x => fixMap'[y] = fixMap[y]
  BY DEF Put, MapOK
<1>2. FromRequest(x, fixMap'[x])
  <2>1. CASE fixMap[x] = NoFix
    BY <1>1, <2>1 DEF Added
  <2>2. CASE fixMap[x] # NoFix
    <3>1. fixMap[x] \in FixDesc /\ HasPlace(x, fixMap[x]) /\ FromRequest(x, fixMap[x])
      BY <2>2 DEF MapOK, PlacesOK
    <3>2. fixMap'[x] = Coalesce(fixMap[x], desc) /\ fixMap'[x] # Stuck
      BY <1>1, <2>2, NeverFails DEF Added, Fails
    <3>3. \/ fixMap[x].type \in Primitive /\ desc.type \in Primitive
          \/ fixMap[x].type \in PST /\ desc.type \in PST
      BY <3>1, Apart, DescIsReal DEF HasPlace, FixType
    <3>4. CASE fixMap[x].type \in Primitive /\ desc.type \in Primitive
      <4>1. fixMap'[x].type \in Primitive /\ fixMap'[x].dynStack = fixMap[x].dynStack
        BY <3>1, <3>2, <3>4, JoinKeepsKind
      <4>. QED BY <3>1, <4>1, Apart DEF FromRequest
    <3>5. CASE fixMap[x].type \in PST /\ desc.type \in PST
      BY <3>1, <3>2, <3>5 DEF Coalesce, PST, Primitive
    <3>. QED BY <3>3, <3>4, <3>5
  <2>. QED BY <2>1, <2>2
<1>3. \A y \in Site : fixMap'[y] # NoFix => FromRequest(y, fixMap'[y])
  BY <1>1, <1>2 DEF PlacesOK
<1>4. \A y, d : FromRequest(y, d) => FromRequest(y, d)'
  <2>1. ops' = ops
    BY DEF program
  <2>. QED BY <2>1, PlacesRigid DEF FromRequest
<1>. QED BY <1>3, <1>4 DEF PlacesOK

-----------------------------------------------------------------------------
(* The module.                                                             *)

\* What a call names before it is re-pointed, and the originals of a call.
Names(c) == IF CalleeOf[c] = Indirect THEN Indirect ELSE <<CalleeOf[c], 0>>
Home(c) == <<FnOf[c], 0>>

\* The versions of a function are numbered, the bodies are bodies, and a call
\* names a version of the function it is a call of.
Numbered(f) == \E m \in Nat : \A k \in Nat : <<f, k>> \in DOMAIN code <=> k < m

ModuleOK ==
    /\ DOMAIN code \subseteq Version
    /\ \A f \in Fn : <<f, 0>> \in DOMAIN code /\ Numbered(f)
    /\ \A f \in Replaceable : <<f, 1>> \in DOMAIN code
    /\ \A v \in DOMAIN code : code[v] \in Body
    /\ \A v \in DOMAIN code : \A c \in Call :
          IF CalleeOf[c] = Indirect THEN code[v].calls[c] = Indirect
          ELSE code[v].calls[c] \in DOMAIN code /\ code[v].calls[c][1] = CalleeOf[c]

\* Calls are sites of functions.
LEMMA CallsAreSites ==
    \A c \in Call : /\ c \in Site /\ FnOf[c] \in Fn
                    /\ CalleeOf[c] \in Fn \cup {Indirect}
BY ProgramAssumption DEF Call, Store

\* No version is a pointer.
LEMMA VersionIsReal == Indirect \notin Version /\ \A v \in Version : v[1] \in Fn /\ v[2] \in Nat /\ v = <<v[1], v[2]>>
BY ProgramAssumption DEF Version

\* The number of a new clone is not taken: counting the versions gives the next.
LEMMA FreshIsNew ==
    ASSUME ModuleOK, NEW f \in Fn
    PROVE  \E m \in Nat : /\ m > 0 /\ Fresh(f) = <<f, m>> /\ Fresh(f) \notin DOMAIN code
                          /\ \A k \in Nat : <<f, k>> \in DOMAIN code <=> k < m
<1>1. PICK m \in Nat : \A k \in Nat : <<f, k>> \in DOMAIN code <=> k < m
  BY DEF ModuleOK, Numbered
<1>. DEFINE S == {v \in DOMAIN code : v[1] = f}
            g == [i \in 1 .. m |-> <<f, i - 1>>]
<1>2. m > 0
  BY <1>1 DEF ModuleOK
<1>3. Cardinality(S) = m
  <2>1. \A i \in 1 .. m : g[i] \in S
    BY <1>1
  <2>2. \A v \in S : v[2] + 1 \in 1 .. m /\ g[v[2] + 1] = v
    <3>1. SUFFICES ASSUME NEW v \in S PROVE v[2] + 1 \in 1 .. m /\ g[v[2] + 1] = v
      OBVIOUS
    <3>2. v \in DOMAIN code /\ v = <<f, v[2]>> /\ v[2] \in Nat
      BY VersionIsReal DEF ModuleOK
    <3>3. v[2] < m
      BY <1>1, <3>2
    <3>4. v[2] + 1 \in 1 .. m /\ (v[2] + 1) - 1 = v[2]
      BY <3>2, <3>3
    <3>. QED BY <3>2, <3>4
  <2>3. g \in Injection(1 .. m, S)
    BY <2>1 DEF Injection, IsInjective
  <2>4. g \in Surjection(1 .. m, S)
    BY <2>1, <2>2 DEF Surjection
  <2>5. ExistsBijection(1 .. m, S)
    BY <2>3, <2>4 DEF ExistsBijection, Bijection
  <2>. HIDE DEF S
  <2>. QED BY <2>5, FS_CountingElements
<1>4. Fresh(f) = <<f, m>>
  BY <1>3 DEF Fresh
<1>. QED BY <1>1, <1>2, <1>4

\* The bodies of the input module.
LEMMA OriginalBody ==
    ASSUME NEW f \in Fn
    PROVE  /\ Original(f) \in Body
           /\ Original(f).calls = [c \in Call |-> Names(c)]
           /\ Original(f).flush = {} /\ Original(f).fence = {}
<1>1. \A c \in Call : Names(c) \in Version \cup {Indirect}
  BY CallsAreSites DEF Names, Version
<1>2. [c \in Call |-> Names(c)] \in [Call -> Version \cup {Indirect}]
  BY <1>1
<1>3. [c \in Call |-> IF CalleeOf[c] = Indirect THEN Indirect ELSE <<CalleeOf[c], 0>>]
        = [c \in Call |-> Names(c)]
  BY DEF Names
<1>. QED BY <1>2, <1>3 DEF Original, Body

\* The input module is right.
LEMMA LinkedOK == code = Linked => ModuleOK
<1>. SUFFICES ASSUME code = Linked PROVE ModuleOK
  OBVIOUS
<1>1. DOMAIN code = (Fn \X {0}) \cup (Replaceable \X {1})
  BY DEF Linked
<1>2. DOMAIN code \subseteq Version
  BY <1>1, ProgramAssumption DEF Version
<1>3. \A f \in Fn : <<f, 0>> \in DOMAIN code /\ Numbered(f)
  <2>. SUFFICES ASSUME NEW f \in Fn PROVE <<f, 0>> \in DOMAIN code /\ Numbered(f)
    OBVIOUS
  <2>1. \A k \in Nat : <<f, k>> \in DOMAIN code <=> k = 0 \/ (k = 1 /\ f \in Replaceable)
    BY <1>1
  <2>2. CASE f \in Replaceable
    <3>1. \A k \in Nat : <<f, k>> \in DOMAIN code <=> k < 2
      BY <2>1, <2>2
    <3>. QED BY <3>1 DEF Numbered
  <2>3. CASE f \notin Replaceable
    <3>1. \A k \in Nat : <<f, k>> \in DOMAIN code <=> k < 1
      BY <2>1, <2>3
    <3>. QED BY <3>1 DEF Numbered
  <2>. QED BY <2>2, <2>3
<1>4. \A v \in DOMAIN code : code[v] \in Body /\ code[v].calls = [c \in Call |-> Names(c)]
  <2>. SUFFICES ASSUME NEW v \in DOMAIN code
                PROVE  code[v] \in Body /\ code[v].calls = [c \in Call |-> Names(c)]
    OBVIOUS
  <2>1. v[1] \in Fn /\ <<v[1], 0>> \in Version
    BY <1>2, VersionIsReal DEF Version
  <2>2. code[v] = IF v[2] = 0 THEN Original(v[1])
                  ELSE [Original(v[1]) EXCEPT !.libc = <<v[1], 0>>, !.flush = StoresOf(v[1])]
    BY <1>1 DEF Linked
  <2>3. StoresOf(v[1]) \subseteq Store
    BY DEF StoresOf
  <2>4. Original(v[1]) \in Body /\ Original(v[1]).calls = [c \in Call |-> Names(c)]
    BY <2>1, OriginalBody
  <2>. HIDE DEF Names
  <2>. QED BY <2>1, <2>2, <2>3, <2>4 DEF Body
<1>5. \A c \in Call : CalleeOf[c] # Indirect => Names(c) \in DOMAIN code
  BY <1>1, CallsAreSites DEF Names
<1>6. \A v \in DOMAIN code : \A c \in Call :
          IF CalleeOf[c] = Indirect THEN code[v].calls[c] = Indirect
          ELSE code[v].calls[c] \in DOMAIN code /\ code[v].calls[c][1] = CalleeOf[c]
  <2>. SUFFICES ASSUME NEW v \in DOMAIN code, NEW c \in Call
                PROVE  IF CalleeOf[c] = Indirect THEN code[v].calls[c] = Indirect
                       ELSE code[v].calls[c] \in DOMAIN code /\ code[v].calls[c][1] = CalleeOf[c]
    OBVIOUS
  <2>1. code[v].calls[c] = Names(c)
    BY <1>4
  <2>2. CASE CalleeOf[c] = Indirect
    BY <2>1, <2>2 DEF Names
  <2>3. CASE CalleeOf[c] # Indirect
    <3>1. code[v].calls[c] = <<CalleeOf[c], 0>>
      BY <2>1, <2>3 DEF Names
    <3>2. code[v].calls[c] \in DOMAIN code
      BY <1>5, <2>1, <2>3
    <3>3. code[v].calls[c][1] = CalleeOf[c]
      BY <3>1
    <3>. QED BY <2>3, <3>2, <3>3
  <2>. QED BY <2>2, <2>3
<1>7. \A f \in Replaceable : <<f, 1>> \in DOMAIN code
  BY <1>1
<1>. QED BY <1>2, <1>3, <1>4, <1>6, <1>7 DEF ModuleOK

\* A step that only adds flushes or fences keeps the module right.
LEMMA MarkingOK ==
    ASSUME ModuleOK, DOMAIN code' = DOMAIN code,
           \A w \in DOMAIN code : code'[w] \in Body /\ code'[w].calls = code[w].calls
    PROVE  ModuleOK'
BY DEF ModuleOK, Numbered

\* insertFlush and insertFence: nothing but the flush or the fence is new.
LEMMA PrimitiveEffect ==
    ASSUME ModuleOK, NEW s \in Store, ApplyPrimitive(s)
    PROVE  /\ DOMAIN code' = DOMAIN code
           /\ \A w \in DOMAIN code :
                /\ code'[w] \in Body /\ code'[w].calls = code[w].calls /\ code'[w].libc = code[w].libc
                /\ w # Home(s) => code'[w].flush = code[w].flush /\ code'[w].fence = code[w].fence
                /\ w = Home(s) =>
                     /\ code'[w].flush = code[w].flush \cup (IF AddsFlush(fixMap[s].type) THEN {s} ELSE {})
                     /\ code'[w].fence = code[w].fence \cup (IF AddsFence(fixMap[s].type) THEN {s} ELSE {})
<1>. DEFINE h == <<FnOf[s], 0>>
<1>1. s \in Site /\ h \in DOMAIN code /\ h = Home(s)
  BY Apart, ProgramAssumption DEF ModuleOK, Home
<1>2. \A w \in DOMAIN code : code[w] \in Body
  BY DEF ModuleOK
<1>. HIDE DEF h
<1>3. CASE fixMap[s].type = "FLUSH_ONLY" /\ code' = InsertFlush(s)
  <2>1. code' = [code EXCEPT ![h].flush = @ \cup {s}]
    BY <1>3 DEF InsertFlush, h
  <2>2. AddsFlush(fixMap[s].type) /\ ~AddsFence(fixMap[s].type)
    BY <1>3 DEF AddsFlush, AddsFence
  <2>. QED BY <1>1, <1>2, <2>1, <2>2 DEF Body
<1>4. CASE fixMap[s].type = "FENCE_ONLY" /\ code' = InsertFence(s)
  <2>1. code' = [code EXCEPT ![h].fence = @ \cup {s}]
    BY <1>4 DEF InsertFence, h
  <2>2. ~AddsFlush(fixMap[s].type) /\ AddsFence(fixMap[s].type)
    BY <1>4 DEF AddsFlush, AddsFence, PST
  <2>. QED BY <1>1, <1>2, <2>1, <2>2 DEF Body
<1>5. CASE fixMap[s].type = "FLUSH_AND_FENCE" /\ code' = InsertBoth(s)
  <2>1. code' = [code EXCEPT ![h].flush = @ \cup {s}, ![h].fence = @ \cup {s}]
    BY <1>5 DEF InsertBoth, h
  <2>2. AddsFlush(fixMap[s].type) /\ AddsFence(fixMap[s].type)
    BY <1>5 DEF AddsFlush, AddsFence
  <2>. QED BY <1>1, <1>2, <2>1, <2>2 DEF Body
<1>. QED BY <1>3, <1>4, <1>5 DEF ApplyPrimitive

\* The fence of a subprogram: nothing else is new.
LEMMA EndSubProgramEffect ==
    ASSUME ModuleOK, retInst \in Call \cup {NoSite}, EndSubProgram
    PROVE  /\ DOMAIN code' = DOMAIN code
           /\ \A w \in DOMAIN code :
                /\ code'[w] \in Body /\ code'[w].calls = code[w].calls /\ code'[w].libc = code[w].libc
                /\ code'[w].flush = code[w].flush
                /\ fixMap[cur].type # "PST" \/ w # Home(retInst) => code'[w].fence = code[w].fence
                /\ fixMap[cur].type = "PST" /\ w = Home(retInst) =>
                     code'[w].fence = code[w].fence \cup {retInst}
<1>1. CASE fixMap[cur].type = "PST_NOFENCE" /\ UNCHANGED code
  BY <1>1 DEF ModuleOK
<1>2. CASE fixMap[cur].type = "PST" /\ retInst # NoSite /\ code' = InsertFence(retInst)
  <2>. DEFINE h == <<FnOf[retInst], 0>>
  <2>1. retInst \in Call /\ retInst \in Site /\ h \in DOMAIN code /\ h = Home(retInst)
    BY <1>2, Apart, ProgramAssumption DEF ModuleOK, Home
  <2>2. \A w \in DOMAIN code : code[w] \in Body
    BY DEF ModuleOK
  <2>3. code' = [code EXCEPT ![h].fence = @ \cup {retInst}]
    BY <1>2 DEF InsertFence
  <2>. HIDE DEF h
  <2>. QED BY <1>2, <2>1, <2>2, <2>3 DEF Body
<1>. QED BY <1>1, <1>2 DEF EndSubProgram

\* Re-pointing: one call, in the original of its function.
LEMMA RepointEffect ==
    ASSUME NEW cde, NEW v \in Version, NEW c \in Call, c = NextSite, Repoint(cde, v),
           Home(c) \in DOMAIN cde, \A w \in DOMAIN cde : cde[w] \in Body
    PROVE  /\ DOMAIN code' = DOMAIN cde
           /\ \A w \in DOMAIN cde :
                /\ code'[w] \in Body /\ code'[w].libc = cde[w].libc
                /\ code'[w].flush = cde[w].flush /\ code'[w].fence = cde[w].fence
                /\ \A x \in Call : code'[w].calls[x] =
                      IF w = Home(c) /\ x = c /\ CallsOriginal THEN v ELSE cde[w].calls[x]
           /\ retInst' = IF CallsOriginal THEN c ELSE retInst
<1>1. CASE ~CallsOriginal
  BY <1>1 DEF Repoint
<1>2. CASE CallsOriginal
  <2>1. code' = [cde EXCEPT ![Home(c)].calls[c] = v] /\ retInst' = c
    BY <1>2 DEF Repoint, Home
  <2>2. cde[Home(c)] \in Body /\ cde[Home(c)].calls \in [Call -> Version \cup {Indirect}]
    BY DEF Body
  <2>3. code'[Home(c)] = [cde[Home(c)] EXCEPT !.calls = [cde[Home(c)].calls EXCEPT ![c] = v]]
    BY <2>1, <2>2
  <2>. HIDE DEF Home
  <2>4. [cde[Home(c)].calls EXCEPT ![c] = v] \in [Call -> Version \cup {Indirect}]
    BY <2>2
  <2>5. /\ code'[Home(c)] \in Body /\ code'[Home(c)].libc = cde[Home(c)].libc
        /\ code'[Home(c)].flush = cde[Home(c)].flush /\ code'[Home(c)].fence = cde[Home(c)].fence
        /\ code'[Home(c)].calls = [cde[Home(c)].calls EXCEPT ![c] = v]
    BY <2>2, <2>3, <2>4 DEF Body
  <2>6. \A w \in DOMAIN cde : w # Home(c) => code'[w] = cde[w]
    BY <2>1
  <2>7. DOMAIN code' = DOMAIN cde
    BY <2>1
  <2>. QED BY <1>2, <2>1, <2>2, <2>5, <2>6, <2>7
<1>. QED BY <1>1, <1>2

\* The loop variables.
LoopOK ==
    /\ phase \in {"compute", "raise", "apply", "subprogram", "done", "abort"}
    /\ phase = "raise" => Raising
    /\ nextOp \in 1 .. Len(ops) + 1
    /\ todo \subseteq Fixed
    /\ cur \in Site \cup {NoSite} /\ retInst \in Call \cup {NoSite} /\ frame \in Nat
    /\ phase = "subprogram" => /\ cur \in Fixed /\ fixMap[cur].type \in PST
                               /\ frame <= fixMap[cur].stackIdx

\* The request whose stack is being walked up.
LEMMA FrameSites ==
    ASSUME ProgramOK, RequestsOK, MapOK, PlacesOK, LoopOK, phase = "subprogram"
    PROVE  \E n \in DOMAIN ops :
             /\ Chain = ops[n].stack /\ IsStack(Chain)
             /\ PlaceIdx(ops[n]) \in 2 .. Len(Chain) /\ fixMap[cur].stackIdx = PlaceIdx(ops[n]) - 1
             /\ cur = Place(ops[n]) /\ cur = Chain[PlaceIdx(ops[n])] /\ CanHold(cur)
             /\ Raising \/ Chain[1] \notin Mapped
             /\ \A k \in 2 .. Len(Chain) : CalleeOf[Chain[k]] \in {FnOf[Chain[k - 1]], Indirect}
<1>1. cur \in Site /\ fixMap[cur] # NoFix /\ fixMap[cur].type \in PST
  BY DEF LoopOK, Fixed
<1>2. PICK n \in DOMAIN ops :
        /\ fixMap[cur].dynStack = ops[n].stack
        /\ PlaceIdx(ops[n]) \in 2 .. Len(ops[n].stack)
        /\ fixMap[cur].stackIdx = PlaceIdx(ops[n]) - 1
        /\ cur = Place(ops[n]) /\ CanHold(cur)
        /\ Raising \/ ops[n].stack[1] \notin Mapped
  BY <1>1 DEF PlacesOK, FromRequest
<1>3. Chain = ops[n].stack
  BY <1>2 DEF Chain
<1>4. IsStack(Chain)
  BY <1>3 DEF RequestsOK
<1>5. \A k \in 2 .. Len(Chain) : CalleeOf[Chain[k]] \in {FnOf[Chain[k - 1]], Indirect}
  BY <1>3, StackAssumption DEF ProgramOK
<1>. QED BY <1>2, <1>3, <1>4, <1>5 DEF Place

\* The two frames the loop looks at.
LEMMA LoopSites ==
    ASSUME ProgramOK, RequestsOK, MapOK, PlacesOK, LoopOK, InLoop
    PROVE  /\ frame + 1 \in 1 .. fixMap[cur].stackIdx /\ frame + 1 \in DOMAIN Chain
           /\ frame + 2 \in 2 .. Len(Chain)
           /\ AtSite = Chain[frame + 1] /\ NextSite = Chain[frame + 2]
           /\ AtSite \in Site /\ NextSite \in Call
           /\ CalleeOf[NextSite] \in {FnOf[AtSite], Indirect}
<1>1. PICK n \in DOMAIN ops :
             /\ IsStack(Chain)
             /\ PlaceIdx(ops[n]) \in 2 .. Len(Chain) /\ fixMap[cur].stackIdx = PlaceIdx(ops[n]) - 1
             /\ \A k \in 2 .. Len(Chain) : CalleeOf[Chain[k]] \in {FnOf[Chain[k - 1]], Indirect}
  BY FrameSites DEF InLoop
<1>2. frame \in Nat /\ frame < fixMap[cur].stackIdx
  BY DEF InLoop, LoopOK
<1>3. frame + 1 \in DOMAIN Chain /\ frame + 2 \in 2 .. Len(Chain) /\ (frame + 2) - 1 = frame + 1
      /\ frame + 1 \in 1 .. fixMap[cur].stackIdx
  BY <1>1, <1>2 DEF IsStack
<1>4. Chain[frame + 1] \in Site /\ Chain[frame + 2] \in Call
  BY <1>1, <1>3 DEF IsStack
<1>. QED BY <1>1, <1>3, <1>4 DEF AtSite, NextSite

\* A call of the loop that is not through a pointer names the original of the
\* function of the frame, or was re-pointed.
LEMMA CallsOriginalIs ==
    ASSUME AtSite \in Site, NextSite \in Call, CalleeOf[NextSite] = FnOf[AtSite]
    PROVE  CallsOriginal <=> code[Home(NextSite)].calls[NextSite] = Names(NextSite)
<1>1. CalleeOf[NextSite] # Indirect
  BY ProgramAssumption
<1>2. Names(NextSite) = <<FnOf[AtSite], 0>>
  BY <1>1 DEF Names
<1>. HIDE DEF Names
<1>. QED BY <1>2 DEF CallsOriginal, Home

\* What a frame with a location does: a new version v of the function of at,
\* as its original is by now but for the flushes, which the call c names.
Cloned(at, c, v) ==
    /\ at \in Site /\ at \in Mapped /\ c \in Call /\ c \in Mapped /\ CalleeOf[c] = FnOf[at]
    /\ v \in Version /\ v \notin DOMAIN code /\ v[1] = FnOf[at] /\ v[2] > 0
    /\ \E m \in Nat : \A k \in Nat : <<FnOf[at], k>> \in DOMAIN code' <=> k < m
    /\ DOMAIN code' = DOMAIN code \cup {v}
    /\ \A w \in DOMAIN code' : code'[w] \in Body
    /\ \A w \in DOMAIN code :
         /\ code'[w].libc = code[w].libc
         /\ code'[w].flush = code[w].flush /\ code'[w].fence = code[w].fence
         /\ \A x \in Call : code'[w].calls[x] =
               IF w = Home(c) /\ x = c /\ CallsOriginal THEN v ELSE code[w].calls[x]
    /\ LET o == <<FnOf[at], 0>> IN
         /\ code'[v].libc = code[o].libc
         /\ code'[v].flush = StoresOf(FnOf[at]) /\ code'[v].fence = code[o].fence
         /\ \A x \in Call : code'[v].calls[x] = code[o].calls[x]
    /\ retInst' = IF CallsOriginal THEN c ELSE retInst

\* CloneFrame does that.
LEMMA CloneEffect ==
    ASSUME ProgramOK, RequestsOK, MapOK, PlacesOK, LoopOK, ModuleOK, CloneFrame
    PROVE  \E at, c, v : at = AtSite /\ c = NextSite /\ v = Fresh(FnOf[at]) /\ Cloned(at, c, v)
<1>0. PICK at, c, v : at = AtSite /\ c = NextSite /\ v = Fresh(FnOf[at])
  OBVIOUS
<1>. DEFINE o == <<FnOf[at], 0>>
            cde == WithVersion(v, Clone(FnOf[at]))
<1>1. /\ at \in Site /\ c \in Call /\ CalleeOf[c] = FnOf[at] /\ at \in Mapped /\ c \in Mapped
  BY <1>0, LoopSites DEF CloneFrame
<1>2. FnOf[at] \in Fn /\ FnOf[c] \in Fn
  BY <1>1, ProgramAssumption, Apart
<1>3. PICK m \in Nat : /\ m > 0 /\ v = <<FnOf[at], m>> /\ v \notin DOMAIN code
                       /\ \A k \in Nat : <<FnOf[at], k>> \in DOMAIN code <=> k < m
  BY <1>0, <1>2, FreshIsNew
<1>4. v \in Version /\ v[1] = FnOf[at] /\ v[2] > 0
  BY <1>2, <1>3 DEF Version
<1>5. o \in DOMAIN code /\ Home(c) \in DOMAIN code /\ code[o] \in Body
  BY <1>2 DEF ModuleOK, Home
<1>6. /\ DOMAIN cde = DOMAIN code \cup {v}
      /\ \A w \in DOMAIN code : cde[w] = code[w]
      /\ cde[v] = [code[o] EXCEPT !.flush = StoresOf(FnOf[at])]
  BY <1>3 DEF WithVersion, Clone
<1>7. /\ cde[v] \in Body /\ cde[v].libc = code[o].libc /\ cde[v].calls = code[o].calls
      /\ cde[v].flush = StoresOf(FnOf[at]) /\ cde[v].fence = code[o].fence
  <2>1. StoresOf(FnOf[at]) \in SUBSET Store
    BY DEF StoresOf
  <2>. HIDE DEF cde, o
  <2>. QED BY <1>5, <1>6, <2>1 DEF Body
<1>8. Repoint(cde, v)
  BY <1>0 DEF CloneFrame
<1>9. \A w \in DOMAIN cde : cde[w] \in Body
  BY <1>6, <1>7 DEF ModuleOK
<1>10. v # Home(c)
  BY <1>3, <1>5
<1>. HIDE DEF cde, o
<1>11. /\ DOMAIN code' = DOMAIN cde
       /\ \A w \in DOMAIN cde :
            /\ code'[w] \in Body /\ code'[w].libc = cde[w].libc
            /\ code'[w].flush = cde[w].flush /\ code'[w].fence = cde[w].fence
            /\ \A x \in Call : code'[w].calls[x] =
                  IF w = Home(c) /\ x = c /\ CallsOriginal THEN v ELSE cde[w].calls[x]
       /\ retInst' = IF CallsOriginal THEN c ELSE retInst
  BY <1>0, <1>1, <1>4, <1>5, <1>6, <1>8, <1>9, RepointEffect
<1>12. \A k \in Nat : <<FnOf[at], k>> \in DOMAIN code' <=> k < m + 1
  BY <1>3, <1>6, <1>11
<1>13. \E j \in Nat : \A k \in Nat : <<FnOf[at], k>> \in DOMAIN code' <=> k < j
  BY <1>12
<1>14. \A w \in DOMAIN code :
          /\ code'[w].libc = code[w].libc
          /\ code'[w].flush = code[w].flush /\ code'[w].fence = code[w].fence
          /\ \A x \in Call : code'[w].calls[x] =
                IF w = Home(c) /\ x = c /\ CallsOriginal THEN v ELSE code[w].calls[x]
  BY <1>6, <1>11
<1>15. /\ code'[v].libc = code[o].libc
       /\ code'[v].flush = StoresOf(FnOf[at]) /\ code'[v].fence = code[o].fence
       /\ \A x \in Call : code'[v].calls[x] = code[o].calls[x]
  <2>1. v \in DOMAIN cde
    BY <1>6
  <2>. QED BY <1>7, <1>10, <1>11, <2>1
<1>16. DOMAIN code' = DOMAIN code \cup {v} /\ \A w \in DOMAIN code' : code'[w] \in Body
  BY <1>6, <1>11
<1>17. v \notin DOMAIN code
  BY <1>3
<1>18. LET p == <<FnOf[at], 0>> IN
          /\ code'[v].libc = code[p].libc
          /\ code'[v].flush = StoresOf(FnOf[at]) /\ code'[v].fence = code[p].fence
          /\ \A x \in Call : code'[v].calls[x] = code[p].calls[x]
  BY <1>15 DEF o
<1>19. retInst' = IF CallsOriginal THEN c ELSE retInst
  BY <1>11
<1>20. Cloned(at, c, v)
  BY <1>1, <1>4, <1>13, <1>14, <1>16, <1>17, <1>18, <1>19 DEF Cloned
<1>. QED BY <1>0, <1>20

\* What one without does: the call c names the replacement of its function.
Replaced(at, c, v) ==
    /\ at \in Site /\ at \notin Mapped /\ c \in Call /\ c \in Mapped /\ CalleeOf[c] = FnOf[at]
    /\ FnOf[at] \in Replaceable /\ v \in DOMAIN code
    /\ DOMAIN code' = DOMAIN code
    /\ \A w \in DOMAIN code :
         /\ code'[w] \in Body /\ code'[w].libc = code[w].libc
         /\ code'[w].flush = code[w].flush /\ code'[w].fence = code[w].fence
         /\ \A x \in Call : code'[w].calls[x] =
               IF w = Home(c) /\ x = c /\ CallsOriginal THEN v ELSE code[w].calls[x]
    /\ retInst' = IF CallsOriginal THEN c ELSE retInst

\* ReplaceExternal does that.
LEMMA ReplaceEffect ==
    ASSUME ProgramOK, RequestsOK, MapOK, PlacesOK, LoopOK, ModuleOK, ReplaceExternal
    PROVE  \E at, c, v : at = AtSite /\ c = NextSite /\ v = <<FnOf[at], 1>> /\ Replaced(at, c, v)
<1>0. PICK at, c, v : at = AtSite /\ c = NextSite /\ v = <<FnOf[at], 1>>
  OBVIOUS
<1>1. /\ at \in Site /\ c \in Call /\ CalleeOf[c] = FnOf[at] /\ at \notin Mapped /\ c \in Mapped
  BY <1>0, LoopSites DEF ReplaceExternal
<1>2. FnOf[at] \in Replaceable /\ FnOf[c] \in Fn /\ FnOf[at] \in Fn
  BY <1>0, <1>1, ProgramAssumption, Apart DEF ReplaceExternal
<1>3. v \in DOMAIN code /\ v \in Version /\ Home(c) \in DOMAIN code
  BY <1>0, <1>2 DEF ModuleOK, Version, Home
<1>4. \A w \in DOMAIN code : code[w] \in Body
  BY DEF ModuleOK
<1>5. Repoint(code, v)
  BY <1>0 DEF ReplaceExternal
<1>6. /\ DOMAIN code' = DOMAIN code
      /\ \A w \in DOMAIN code :
           /\ code'[w] \in Body /\ code'[w].libc = code[w].libc
           /\ code'[w].flush = code[w].flush /\ code'[w].fence = code[w].fence
           /\ \A x \in Call : code'[w].calls[x] =
                 IF w = Home(c) /\ x = c /\ CallsOriginal THEN v ELSE code[w].calls[x]
      /\ retInst' = IF CallsOriginal THEN c ELSE retInst
  BY <1>0, <1>1, <1>3, <1>4, <1>5, RepointEffect
<1>7. Replaced(at, c, v)
  BY <1>1, <1>2, <1>3, <1>6 DEF Replaced
<1>. QED BY <1>0, <1>7

\* A step that re-points calls, and may add a version, keeps the module right.
LEMMA RepointingOK ==
    ASSUME ModuleOK, NEW c \in Call, NEW v \in Version, CalleeOf[c] # Indirect, v[1] = CalleeOf[c],
           DOMAIN code' = DOMAIN code \cup {v}, \A w \in DOMAIN code' : code'[w] \in Body,
           \A w \in DOMAIN code : \A x \in Call :
              code'[w].calls[x] = code[w].calls[x] \/ (x = c /\ code'[w].calls[x] = v),
           v \notin DOMAIN code => /\ Numbered(v[1])'
                                   /\ \A x \in Call : code'[v].calls[x] = code[<<v[1], 0>>].calls[x]
    PROVE  ModuleOK'
<1>1. DOMAIN code' \subseteq Version
  BY DEF ModuleOK
<1>2. ASSUME NEW f \in Fn
      PROVE  <<f, 0>> \in DOMAIN code' /\ Numbered(f)'
  <2>1. <<f, 0>> \in DOMAIN code'
    BY DEF ModuleOK
  <2>2. CASE v \notin DOMAIN code /\ v[1] = f
    BY <2>1, <2>2
  <2>3. CASE v \in DOMAIN code \/ v[1] # f
    <3>1. \A k \in Nat : <<f, k>> \in DOMAIN code' <=> <<f, k>> \in DOMAIN code
      BY <2>3
    <3>. QED BY <2>1, <3>1 DEF ModuleOK, Numbered
  <2>. QED BY <2>2, <2>3
<1>3. ASSUME NEW w \in DOMAIN code', NEW x \in Call
      PROVE  IF CalleeOf[x] = Indirect THEN code'[w].calls[x] = Indirect
             ELSE code'[w].calls[x] \in DOMAIN code' /\ code'[w].calls[x][1] = CalleeOf[x]
  <2>1. PICK u \in DOMAIN code : code'[w].calls[x] = code[u].calls[x] \/ (x = c /\ code'[w].calls[x] = v)
    <3>1. v[1] \in Fn
      BY VersionIsReal
    <3>. QED BY <3>1 DEF ModuleOK
  <2>2. CASE CalleeOf[x] = Indirect
    BY <2>1, <2>2 DEF ModuleOK
  <2>3. CASE CalleeOf[x] # Indirect
    BY <2>1, <2>3 DEF ModuleOK
  <2>. QED BY <2>2, <2>3
<1>. QED BY <1>1, <1>2, <1>3 DEF ModuleOK

\* The two frames of the loop keep the module right.
LEMMA CloneOK ==
    ASSUME ProgramOK, RequestsOK, MapOK, PlacesOK, LoopOK, ModuleOK, CloneFrame
    PROVE  ModuleOK' /\ retInst' \in Call \cup {NoSite}
<1>1. PICK at, c, v : c = NextSite /\ Cloned(at, c, v)
  BY CloneEffect
<1>2. c \in Call /\ v \in Version /\ v[1] = CalleeOf[c] /\ CalleeOf[c] # Indirect
  BY <1>1 DEF CloneFrame, Cloned
<1>3. v \notin DOMAIN code /\ DOMAIN code' = DOMAIN code \cup {v} /\ \A w \in DOMAIN code' : code'[w] \in Body
  BY <1>1 DEF Cloned
<1>4. \A w \in DOMAIN code : \A x \in Call :
              code'[w].calls[x] = code[w].calls[x] \/ (x = c /\ code'[w].calls[x] = v)
  BY <1>1 DEF Cloned
<1>5. Numbered(v[1])'
  BY <1>1 DEF Cloned, Numbered
<1>6. \A x \in Call : code'[v].calls[x] = code[<<v[1], 0>>].calls[x]
  BY <1>1 DEF Cloned
<1>7. ModuleOK'
  BY <1>2, <1>3, <1>4, <1>5, <1>6, RepointingOK
<1>8. retInst' \in {c, retInst}
  BY <1>1 DEF Cloned
<1>. QED BY <1>2, <1>7, <1>8 DEF LoopOK

LEMMA ReplaceOK ==
    ASSUME ProgramOK, RequestsOK, MapOK, PlacesOK, LoopOK, ModuleOK, ReplaceExternal
    PROVE  ModuleOK' /\ retInst' \in Call \cup {NoSite}
<1>1. PICK at, c, v : c = NextSite /\ v = <<FnOf[at], 1>> /\ Replaced(at, c, v)
  BY ReplaceEffect
<1>2. c \in Call /\ v \in Version /\ v[1] = CalleeOf[c] /\ CalleeOf[c] # Indirect
  BY <1>1 DEF ReplaceExternal, Replaced, ModuleOK
<1>3. v \in DOMAIN code /\ DOMAIN code' = DOMAIN code \cup {v} /\ \A w \in DOMAIN code' : code'[w] \in Body
  BY <1>1 DEF Replaced
<1>4. \A w \in DOMAIN code : \A x \in Call :
              code'[w].calls[x] = code[w].calls[x] \/ (x = c /\ code'[w].calls[x] = v)
  BY <1>1 DEF Replaced
<1>5. ModuleOK'
  BY <1>2, <1>3, <1>4, RepointingOK
<1>6. retInst' \in {c, retInst}
  BY <1>1 DEF Replaced
<1>. QED BY <1>2, <1>5, <1>6 DEF LoopOK

\* patchMemoryPrimitives: each call that names one names its replacement.
LEMMA EndApplyEffect ==
    ASSUME ModuleOK, EndApply
    PROVE  /\ DOMAIN code' = DOMAIN code
           /\ \A w \in DOMAIN code :
                /\ code'[w] \in Body
                /\ code'[w].flush = code[w].flush /\ code'[w].fence = code[w].fence
                /\ \A x \in Call : code'[w].calls[x] \in {code[w].calls[x], Patched(code[w].calls[x])}
                /\ \A x \in Call : CalleeOf[x] = Indirect => code'[w].calls[x] = Indirect
                /\ Raising => code'[w].calls = code[w].calls
<1>1. CASE Raising /\ UNCHANGED code
  BY <1>1 DEF ModuleOK
<1>2. CASE /\ ~Raising
           /\ code' = [v \in DOMAIN code |->
                        [code[v] EXCEPT
                            !.calls = [c \in Call |-> IF @[c] = Indirect THEN Indirect
                                                      ELSE Patched(@[c])],
                            !.libc = IF @ = NoSite THEN NoSite ELSE Patched(@)]]
  <2>. SUFFICES ASSUME NEW w \in DOMAIN code
                PROVE  /\ code'[w] \in Body
                       /\ code'[w].flush = code[w].flush /\ code'[w].fence = code[w].fence
                       /\ \A x \in Call : code'[w].calls[x] \in {code[w].calls[x], Patched(code[w].calls[x])}
                       /\ \A x \in Call : CalleeOf[x] = Indirect => code'[w].calls[x] = Indirect
    BY <1>2
  <2>1. \A v \in Version : Patched(v) \in Version
    <3>. SUFFICES ASSUME NEW v \in Version PROVE Patched(v) \in Version
      OBVIOUS
    <3>1. v[1] \in Fn
      BY VersionIsReal
    <3>. QED BY <3>1 DEF Patched, Version
  <2>. DEFINE cs == [c \in Call |-> IF code[w].calls[c] = Indirect THEN Indirect ELSE Patched(code[w].calls[c])]
              lc == IF code[w].libc = NoSite THEN NoSite ELSE Patched(code[w].libc)
  <2>2. code[w] \in Body
    BY DEF ModuleOK
  <2>3. cs \in [Call -> Version \cup {Indirect}] /\ lc \in Version \cup {NoSite}
    <3>1. code[w].calls \in [Call -> Version \cup {Indirect}] /\ code[w].libc \in Version \cup {NoSite}
      BY <2>2 DEF Body
    <3>2. \A c \in Call : cs[c] \in Version \cup {Indirect}
      BY <2>1, <3>1
    <3>. QED BY <2>1, <3>1, <3>2
  <2>4. code'[w] = [code[w] EXCEPT !.calls = cs, !.libc = lc]
    BY <1>2
  <2>5. code'[w] \in Body /\ code'[w].calls = cs /\ code'[w].flush = code[w].flush /\ code'[w].fence = code[w].fence
    <3>. HIDE DEF cs, lc
    <3>. QED BY <2>2, <2>3, <2>4 DEF Body
  <2>6. \A x \in Call : CalleeOf[x] = Indirect => code[w].calls[x] = Indirect
    BY DEF ModuleOK
  <2>. QED BY <2>5, <2>6
<1>. QED BY <1>1, <1>2 DEF EndApply

\* A replacement is a version of the same function.
LEMMA EndApplyOK ==
    ASSUME ModuleOK, EndApply
    PROVE  ModuleOK'
<1>1. DOMAIN code' = DOMAIN code /\ \A w \in DOMAIN code : code'[w] \in Body
  BY EndApplyEffect
<1>2. ASSUME NEW w \in DOMAIN code, NEW x \in Call
      PROVE  IF CalleeOf[x] = Indirect THEN code'[w].calls[x] = Indirect
             ELSE code'[w].calls[x] \in DOMAIN code /\ code'[w].calls[x][1] = CalleeOf[x]
  <2>1. CASE CalleeOf[x] = Indirect
    BY <2>1, EndApplyEffect
  <2>2. CASE CalleeOf[x] # Indirect
    <3>1. code[w].calls[x] \in DOMAIN code /\ code[w].calls[x][1] = CalleeOf[x]
      BY <2>2 DEF ModuleOK
    <3>2. Patched(code[w].calls[x]) \in DOMAIN code /\ Patched(code[w].calls[x])[1] = CalleeOf[x]
      BY <3>1, ProgramAssumption DEF Patched, ModuleOK
    <3>3. code'[w].calls[x] \in {code[w].calls[x], Patched(code[w].calls[x])}
      BY EndApplyEffect
    <3>. QED BY <2>2, <3>1, <3>2, <3>3
  <2>. QED BY <2>1, <2>2
<1>. QED BY <1>1, <1>2 DEF ModuleOK, Numbered

-----------------------------------------------------------------------------
(* The types.                                                              *)

\* The types of the variables, and what they rest on.
TInv == ProgramOK /\ PlacesOK /\ LoopOK /\ ModuleOK

LEMMA InitTInv == Init => TInv
<1>. SUFFICES ASSUME Init PROVE TInv
  OBVIOUS
<1>1. ProgramOK
  BY DEF Init, ProgramOK
<1>2. PlacesOK
  BY DEF Init, PlacesOK, NoFixYet
<1>3. LoopOK
  <2>1. ops \in Seq(Op)
    BY StackAssumption DEF Init
  <2>2. Len(ops) \in Nat /\ 1 \in 1 .. Len(ops) + 1
    BY <2>1
  <2>. QED BY <2>2 DEF Init, LoopOK
<1>4. ModuleOK
  BY LinkedOK DEF Init
<1>. QED BY <1>1, <1>2, <1>3, <1>4 DEF TInv

\* What was fixed stays so while fixes are added.
LEMMA PutKeepsFixed ==
    ASSUME MapOK, NEW x \in Site, NEW desc \in FixDesc, HasPlace(x, desc), fixMap' = Put(x, desc)
    PROVE  Fixed \subseteq Fixed'
BY PutKeeps DEF Fixed

\* Steps that leave the fixes alone.
LEMMA SameFixes ==
    ASSUME PlacesOK, ProgramOK, UNCHANGED program, UNCHANGED fixMap
    PROVE  PlacesOK' /\ ProgramOK' /\ Fixed' = Fixed
<1>1. options' = options /\ ops' = ops /\ score' = score
  BY DEF program
<1>2. \A y, d : FromRequest(y, d) => FromRequest(y, d)'
  BY <1>1, PlacesRigid DEF FromRequest
<1>. QED BY <1>1, <1>2 DEF PlacesOK, ProgramOK, Fixed

LEMMA AddPrimitiveT ==
    ASSUME Inv, TInv, AddPrimitive
    PROVE  TInv'
<1>. DEFINE s == ThisOp.stack[1]
<1>0. RequestsOK /\ MapOK /\ PlacesOK /\ ProgramOK /\ Computing
  BY DEF Inv, TInv, AddPrimitive
<1>1. /\ LeafDesc \in FixDesc /\ HasPlace(s, LeafDesc) /\ s \in Site
      /\ LeafDesc.dynStack = ThisOp.stack /\ LeafDesc.type \in Primitive
  BY <1>0, LeafDescOK, Apart DEF HasPlace, IsStack
<1>2. fixMap' = Put(s, LeafDesc) /\ UNCHANGED program /\ UNCHANGED code
      /\ UNCHANGED <<phase, moved, todo, cur, frame, retInst>> /\ nextOp' = nextOp + 1
  BY DEF AddPrimitive, subprogram
<1>3. FromRequest(s, LeafDesc)
  <2>1. nextOp \in DOMAIN ops
    BY <1>0, StackAssumption DEF Computing, RequestsOK, ProgramOK
  <2>. QED BY <1>1, <2>1, Apart DEF FromRequest, ThisOp
<1>. HIDE DEF s
<1>4. PlacesOK'
  BY <1>0, <1>1, <1>2, <1>3, PutFromRequest
<1>5. Fixed \subseteq Fixed'
  BY <1>0, <1>1, <1>2, PutKeepsFixed
<1>6. LoopOK'
  BY <1>0, <1>2, <1>5, StackAssumption DEF TInv, LoopOK, Computing, program, RequestsOK, ProgramOK, Raising
<1>7. ModuleOK' /\ ProgramOK'
  BY <1>2 DEF TInv, ModuleOK, Numbered, ProgramOK, program
<1>. QED BY <1>4, <1>6, <1>7 DEF TInv

LEMMA AddIndirectT ==
    ASSUME Inv, TInv, AddIndirect
    PROVE  TInv'
<1>0. RequestsOK /\ MapOK /\ PlacesOK /\ ProgramOK /\ Computing /\ ThisOp.stack[1] \notin Mapped
  BY DEF Inv, TInv, AddIndirect
<1>1. PICK l \in DOMAIN ThisOp.stack :
        /\ IsLanding(ThisOp.stack, l)
        /\ fixMap' = Put(ThisOp.stack[l], Raised(LeafDesc, l))
  BY DEF AddIndirect
<1>2. /\ LeafDesc \in FixDesc /\ LeafDesc.dynStack = ThisOp.stack /\ IsStack(ThisOp.stack)
  BY <1>0, LeafDescOK
<1>3. l \in 2 .. Len(ThisOp.stack)
  <2>1. ThisOp.stack[l] \in Mapped
    BY <1>1 DEF IsLanding, CanHold
  <2>. QED BY <1>0, <1>2, <2>1 DEF IsStack
<1>. DEFINE x == ThisOp.stack[l]
            desc == Raised(LeafDesc, l)
<1>4. desc \in FixDesc /\ HasPlace(x, desc) /\ x \in Site
  BY <1>2, <1>3, RaisedOK, Apart DEF IsStack
<1>5. FromRequest(x, desc)
  <2>1. nextOp \in DOMAIN ops
    BY <1>0, StackAssumption DEF Computing, RequestsOK, ProgramOK
  <2>. QED BY <1>0, <1>1, <1>2, <1>3, <2>1, RaisedFromRequest DEF ThisOp
<1>6. fixMap' = Put(x, desc) /\ UNCHANGED program /\ UNCHANGED code
      /\ UNCHANGED <<phase, moved, todo, cur, frame, retInst>> /\ nextOp' = nextOp + 1
  BY <1>1 DEF AddIndirect, subprogram
<1>. HIDE DEF x, desc
<1>7. PlacesOK' /\ Fixed \subseteq Fixed'
  BY <1>0, <1>4, <1>5, <1>6, PutFromRequest, PutKeepsFixed
<1>8. LoopOK'
  BY <1>0, <1>6, <1>7, StackAssumption DEF TInv, LoopOK, Computing, program, RequestsOK, ProgramOK, Raising
<1>9. ModuleOK' /\ ProgramOK'
  BY <1>6 DEF TInv, ModuleOK, Numbered, ProgramOK, program
<1>. QED BY <1>7, <1>8, <1>9 DEF TInv

LEMMA RaiseT ==
    ASSUME Inv, TInv, NEW s \in todo, Raise(s)
    PROVE  TInv'
<1>. DEFINE stack == fixMap[s].dynStack
<1>1. /\ s \in Site /\ fixMap[s].type \in Primitive /\ fixMap[s] # NoFix /\ fixMap[s] \in FixDesc
      /\ IsStack(stack) /\ FromRequest(s, fixMap[s])
  <2>1. fixMap[s].type \in Primitive /\ s \in Site
    BY DEF Raise, TInv, LoopOK, Fixed
  <2>2. fixMap[s] # NoFix
    BY <2>1, Apart
  <2>. QED BY <2>1, <2>2 DEF Inv, MapOK, HasPlace, TInv, PlacesOK
<1>2. PICK l \in DOMAIN stack :
        /\ IsLanding(stack, l)
        /\ \/ l = 1 /\ UNCHANGED <<fixMap, moved>>
           \/ l > 1 /\ fixMap' = Put(stack[l], Raised(fixMap[s], l))
  BY DEF Raise
<1>3. /\ phase = "raise" /\ UNCHANGED program /\ UNCHANGED <<phase, nextOp, cur, frame, retInst, code>>
      /\ todo' = todo \ {s}
  BY DEF Raise, subprogram
<1>4. PlacesOK' /\ Fixed \subseteq Fixed'
  <2>1. CASE UNCHANGED fixMap
    BY <1>3, <2>1, SameFixes DEF TInv
  <2>2. CASE l > 1 /\ fixMap' = Put(stack[l], Raised(fixMap[s], l))
    <3>1. l \in 2 .. Len(stack)
      BY <1>1, <2>2 DEF IsStack
    <3>2. Raising
      BY <1>3 DEF TInv, LoopOK
    <3>3. FromRequest(stack[l], Raised(fixMap[s], l))
      <4>1. PICK n \in DOMAIN ops : stack = ops[n].stack
        BY <1>1 DEF FromRequest
      <4>. QED BY <1>2, <3>1, <3>2, <4>1, RaisedFromRequest DEF TInv, Inv
    <3>4. Raised(fixMap[s], l) \in FixDesc /\ HasPlace(stack[l], Raised(fixMap[s], l)) /\ stack[l] \in Site
      BY <1>1, <3>1, RaisedOK, Apart DEF IsStack
    <3>. QED BY <1>3, <2>2, <3>3, <3>4, PutFromRequest, PutKeepsFixed DEF Inv, TInv
  <2>. QED BY <1>2, <2>1, <2>2
<1>5. LoopOK'
  BY <1>3, <1>4 DEF TInv, LoopOK, program, Raising
<1>6. ModuleOK' /\ ProgramOK'
  BY <1>3 DEF TInv, ModuleOK, Numbered, ProgramOK, program
<1>. QED BY <1>4, <1>5, <1>6 DEF TInv

\* A step after that which leaves the fixes alone.
LEMMA IdleT ==
    ASSUME TInv, UNCHANGED program, UNCHANGED fixMap, LoopOK', ModuleOK'
    PROVE  TInv'
BY SameFixes DEF TInv

\* A step that ends the process.
LEMMA AbortT ==
    ASSUME TInv, Abort
    PROVE  TInv'
<1>1. UNCHANGED program /\ UNCHANGED fixMap /\ UNCHANGED code
  BY DEF Abort
<1>2. Fixed' = Fixed /\ Raising' = Raising
  BY <1>1, SameFixes, PlacesRigid DEF TInv
<1>3. LoopOK'
  BY <1>1, <1>2 DEF Abort, TInv, LoopOK, program, subprogram
<1>4. ModuleOK'
  BY <1>1 DEF TInv, ModuleOK, Numbered
<1>. QED BY <1>1, <1>3, <1>4, IdleT

LEMMA EndComputeT ==
    ASSUME TInv, EndCompute
    PROVE  TInv'
<1>1. UNCHANGED program /\ UNCHANGED fixMap /\ UNCHANGED code
  BY DEF EndCompute
<1>2. Fixed' = Fixed /\ Raising' = Raising
  BY <1>1, SameFixes, PlacesRigid DEF TInv
<1>3. LoopOK'
  BY <1>1, <1>2 DEF EndCompute, TInv, LoopOK, program, subprogram, PrimitiveFixes
<1>4. ModuleOK'
  BY <1>1 DEF TInv, ModuleOK, Numbered
<1>. QED BY <1>1, <1>3, <1>4, IdleT

LEMMA PassOverT ==
    ASSUME TInv, NEW s \in todo, PassOver(s)
    PROVE  TInv'
<1>1. UNCHANGED program /\ UNCHANGED fixMap /\ UNCHANGED code
  BY DEF PassOver
<1>2. Fixed' = Fixed /\ Raising' = Raising
  BY <1>1, SameFixes, PlacesRigid DEF TInv
<1>3. LoopOK'
  BY <1>1, <1>2 DEF PassOver, TInv, LoopOK, program, subprogram
<1>4. ModuleOK'
  BY <1>1 DEF TInv, ModuleOK, Numbered
<1>. QED BY <1>1, <1>3, <1>4, IdleT

\* Erasing what was moved.
LEMMA EndRaiseT ==
    ASSUME Inv, TInv, EndRaise
    PROVE  TInv'
<1>1. UNCHANGED program /\ UNCHANGED code
  BY DEF EndRaise
<1>2. \A x \in Site : fixMap'[x] = IF x \in moved THEN NoFix ELSE fixMap[x]
  BY DEF EndRaise
<1>3. ops' = ops /\ options' = options /\ score' = score
  BY <1>1 DEF program
<1>4. \A y, d : FromRequest(y, d) => FromRequest(y, d)'
  BY <1>1, <1>3, PlacesRigid DEF FromRequest
<1>5. PlacesOK'
  BY <1>2, <1>4 DEF PlacesOK, TInv
<1>6. todo' \subseteq Fixed'
  BY <1>2 DEF EndRaise, Fixed
<1>7. LoopOK'
  BY <1>3, <1>6 DEF EndRaise, TInv, LoopOK, subprogram
<1>8. ModuleOK' /\ ProgramOK'
  BY <1>1, <1>3 DEF TInv, ModuleOK, Numbered, ProgramOK
<1>. QED BY <1>5, <1>7, <1>8 DEF TInv

LEMMA ApplyPrimitiveT ==
    ASSUME Inv, TInv, NEW s \in todo, ApplyPrimitive(s)
    PROVE  TInv'
<1>1. UNCHANGED program /\ UNCHANGED fixMap
  BY DEF ApplyPrimitive
<1>2. Fixed' = Fixed /\ Raising' = Raising
  BY <1>1, SameFixes, PlacesRigid DEF TInv
<1>3. LoopOK'
  BY <1>1, <1>2 DEF ApplyPrimitive, TInv, LoopOK, program, subprogram
<1>4. s \in Store
  <2>1. fixMap[s].type \in Primitive
    BY DEF ApplyPrimitive, Primitive
  <2>2. s \in Site /\ fixMap[s] # NoFix
    BY DEF TInv, LoopOK, Fixed
  <2>. QED BY <2>1, <2>2 DEF Inv, MapOK, HasPlace
<1>5. ModuleOK'
  BY <1>4, PrimitiveEffect, MarkingOK DEF TInv
<1>. QED BY <1>1, <1>3, <1>5, IdleT

LEMMA ApplySubProgramT ==
    ASSUME Inv, TInv, NEW s \in todo, ApplySubProgram(s)
    PROVE  TInv'
<1>1. UNCHANGED program /\ UNCHANGED fixMap /\ UNCHANGED code
  BY DEF ApplySubProgram
<1>2. Fixed' = Fixed /\ Raising' = Raising
  BY <1>1, SameFixes, PlacesRigid DEF TInv
<1>3. s \in Site /\ s \in Fixed /\ fixMap[s].type \in PST /\ fixMap[s].stackIdx \in Nat
  <2>1. s \in Site /\ s \in Fixed
    BY DEF TInv, LoopOK, Fixed
  <2>. QED BY <2>1 DEF ApplySubProgram, Inv, MapOK, Fixed, FixDesc
<1>4. LoopOK'
  BY <1>1, <1>2, <1>3 DEF ApplySubProgram, TInv, LoopOK, program
<1>5. ModuleOK'
  BY <1>1 DEF TInv, ModuleOK, Numbered
<1>. QED BY <1>1, <1>4, <1>5, IdleT

\* The two frames of the loop.
LEMMA FrameT ==
    ASSUME Inv, TInv, CloneFrame \/ ReplaceExternal
    PROVE  TInv'
<1>0. ProgramOK /\ RequestsOK /\ MapOK /\ PlacesOK /\ LoopOK /\ ModuleOK
  BY DEF Inv, TInv
<1>1. /\ UNCHANGED program /\ UNCHANGED fixMap /\ frame' = frame + 1 /\ InLoop
      /\ UNCHANGED <<phase, nextOp, moved, todo, cur>>
  BY DEF CloneFrame, ReplaceExternal
<1>2. Fixed' = Fixed /\ Raising' = Raising
  BY <1>0, <1>1, SameFixes, PlacesRigid
<1>3. ModuleOK' /\ retInst' \in Call \cup {NoSite}
  BY <1>0, CloneOK, ReplaceOK
<1>4. frame + 1 \in 1 .. fixMap[cur].stackIdx
  BY <1>0, <1>1, LoopSites
<1>5. LoopOK'
  BY <1>0, <1>1, <1>2, <1>3, <1>4 DEF LoopOK, program, InLoop
<1>. QED BY <1>1, <1>3, <1>5, IdleT

LEMMA EndSubProgramT ==
    ASSUME TInv, EndSubProgram
    PROVE  TInv'
<1>1. UNCHANGED program /\ UNCHANGED fixMap
  BY DEF EndSubProgram
<1>2. Fixed' = Fixed /\ Raising' = Raising
  BY <1>1, SameFixes, PlacesRigid DEF TInv
<1>3. LoopOK'
  BY <1>1, <1>2 DEF EndSubProgram, TInv, LoopOK, program
<1>4. retInst \in Call \cup {NoSite}
  BY DEF TInv, LoopOK
<1>5. ModuleOK'
  BY <1>4, EndSubProgramEffect, MarkingOK DEF TInv
<1>. QED BY <1>1, <1>3, <1>5, IdleT

LEMMA EndApplyT ==
    ASSUME TInv, EndApply
    PROVE  TInv'
<1>1. UNCHANGED program /\ UNCHANGED fixMap
  BY DEF EndApply
<1>2. Fixed' = Fixed /\ Raising' = Raising
  BY <1>1, SameFixes, PlacesRigid DEF TInv
<1>3. LoopOK'
  BY <1>1, <1>2 DEF EndApply, TInv, LoopOK, program, subprogram
<1>. QED BY <1>1, <1>3, IdleT, EndApplyOK DEF TInv

LEMMA StutterT ==
    ASSUME TInv, UNCHANGED vars
    PROVE  TInv'
<1>1. UNCHANGED program /\ UNCHANGED fixMap /\ UNCHANGED code
  BY DEF vars, program
<1>2. Fixed' = Fixed /\ Raising' = Raising
  BY <1>1, SameFixes, PlacesRigid DEF TInv
<1>3. LoopOK'
  BY <1>1, <1>2 DEF vars, TInv, LoopOK
<1>4. ModuleOK'
  BY <1>1 DEF TInv, ModuleOK, Numbered
<1>. QED BY <1>1, <1>3, <1>4, IdleT

LEMMA StepT ==
    ASSUME Inv, TInv, [Next]_vars
    PROVE  TInv'
<1>1. CASE AddPrimitive \/ AddIndirect \/ EndCompute \/ EndRaise
  BY <1>1, AddPrimitiveT, AddIndirectT, EndComputeT, EndRaiseT
<1>2. CASE ComputeFails \/ FrameFails \/ FenceFails
  BY <1>2, AbortT DEF ComputeFails, FrameFails, FenceFails
<1>3. CASE \E s \in todo : Raise(s) \/ PassOver(s) \/ RaiseFails(s)
  BY <1>3, RaiseT, PassOverT, AbortT DEF RaiseFails
<1>4. CASE \E s \in todo : ApplyPrimitive(s) \/ ApplySubProgram(s) \/ GeneratorFails(s)
  BY <1>4, ApplyPrimitiveT, ApplySubProgramT, AbortT DEF GeneratorFails
<1>5. CASE CloneFrame \/ ReplaceExternal \/ EndSubProgram \/ EndApply
  BY <1>5, FrameT, EndSubProgramT, EndApplyT
<1>6. CASE Finished \/ UNCHANGED vars
  BY <1>6, StutterT DEF Finished
<1>. QED BY <1>1, <1>2, <1>3, <1>4, <1>5, <1>6 DEF Next

LEMMA TInvTypeOK == Inv /\ TInv => TypeOK
<1>. SUFFICES ASSUME Inv, TInv PROVE TypeOK
  OBVIOUS
<1>1. options \in Options /\ ops \in OpLists /\ score \in Scores
  BY DEF TInv, ProgramOK
<1>2. \A s \in Site : fixMap[s] # NoFix => fixMap[s] \in FixDesc
  BY DEF Inv, MapOK
<1>3. moved \subseteq Site
  BY DEF Inv, MovedOK
<1>4. \A v \in DOMAIN code : /\ v \in Version /\ code[v] \in Body
                              /\ \A c \in Call : code[v].calls[c] \in DOMAIN code \cup {Indirect}
  BY DEF TInv, ModuleOK
<1>5. /\ phase \in {"compute", "raise", "apply", "subprogram", "done", "abort"}
      /\ nextOp \in 1 .. Len(ops) + 1
      /\ todo \subseteq Fixed
      /\ cur \in Site \cup {NoSite} /\ retInst \in Site \cup {NoSite} /\ frame \in Nat
  BY Apart DEF TInv, LoopOK
<1>. QED BY <1>1, <1>2, <1>3, <1>4, <1>5 DEF TypeOK

\* The types hold; in particular every call of every version of a function, the
\* clones included, names a version that exists or is a call through a pointer.
THEOREM BugFixerTypeCorrect == Spec => []TypeOK
<1>1. Init => Inv /\ TInv
  BY InitInv, InitTInv
<1>2. Inv /\ TInv /\ [Next]_vars => Inv' /\ TInv'
  BY Step, StepT
<1>. QED BY <1>1, <1>2, TInvTypeOK, PTL DEF Spec

-----------------------------------------------------------------------------
(* The calls that were re-pointed.                                         *)

\* A call is re-pointed in the original of its function by a PST fix that has
\* been applied, or by the one being applied, which then remembers a call.
Passed(y, c) == \E k \in 2 .. fixMap[y].stackIdx + 1 : c = fixMap[y].dynStack[k]
Repointed(c) ==
    \/ \E y \in Fixed : y \notin todo /\ y # cur /\ fixMap[y].type \in PST /\ Passed(y, c)
    \/ phase = "subprogram" /\ retInst # NoSite /\ \E k \in 2 .. frame + 1 : c = Chain[k]

CallsOK ==
    /\ phase \in {"compute", "raise"} => code = Linked
    /\ phase \in {"compute", "raise", "apply"} => cur = NoSite
    /\ phase = "subprogram" => cur \notin todo
    /\ phase \in {"apply", "subprogram"} =>
          \A c \in Call : code[Home(c)].calls[c] # Names(c) => Repointed(c)
    /\ phase = "subprogram" /\ frame = fixMap[cur].stackIdx /\ (NoneAtOdds \/ OwnPlaces) =>
          retInst = cur

\* Whether requests are at odds depends on what does not change.
LEMMA OddsRigid ==
    ASSUME UNCHANGED program
    PROVE  /\ NoneAtOdds' <=> NoneAtOdds
           /\ OwnPlaces' <=> OwnPlaces
<1>1. ops' = ops
  BY DEF program
<1>2. \A op : PlaceIdx(op)' = PlaceIdx(op) /\ Place(op)' = Place(op)
  BY PlacesRigid
<1>3. \A op : Below(op)' = Below(op)
  BY <1>2 DEF Below
<1>4. \A a, b : Meet(a, b)' <=> Meet(a, b)
  BY <1>2 DEF Meet
<1>5. \A a, b : AtOdds(a, b)' <=> AtOdds(a, b)
  BY <1>2, <1>3, <1>4 DEF AtOdds
<1>6. NoneAtOdds' <=> NoneAtOdds
  BY <1>1, <1>5 DEF NoneAtOdds
<1>7. OwnPlaces' <=> OwnPlaces
  BY <1>1, <1>2 DEF OwnPlaces
<1>. QED BY <1>6, <1>7

\* In the input module every call names what it says.
LEMMA LinkedCalls ==
    ASSUME code = Linked, NEW c \in Call
    PROVE  code[Home(c)].calls[c] = Names(c)
<1>1. FnOf[c] \in Fn
  BY CallsAreSites
<1>2. code[Home(c)] = Original(FnOf[c])
  BY <1>1 DEF Linked, Home
<1>3. Original(FnOf[c]).calls = [x \in Call |-> Names(x)]
  BY <1>1, OriginalBody
<1>. HIDE DEF Names, Home
<1>. QED BY <1>2, <1>3

\* One frame of the loop re-points at most the next call.
RepointsOne(c) ==
    /\ c \in Call /\ CalleeOf[c] = FnOf[AtSite] /\ AtSite \in Site
    /\ \A x \in Call : code'[Home(x)].calls[x] = code[Home(x)].calls[x] \/ (x = c /\ CallsOriginal)
    /\ retInst' = IF CallsOriginal THEN c ELSE retInst

LEMMA CloneCalls ==
    ASSUME ProgramOK, RequestsOK, MapOK, PlacesOK, LoopOK, ModuleOK, CloneFrame
    PROVE  RepointsOne(NextSite)
<1>1. PICK at, c, v : at = AtSite /\ c = NextSite /\ Cloned(at, c, v)
  BY CloneEffect
<1>2. \A x \in Call : Home(x) \in DOMAIN code
  BY CallsAreSites DEF ModuleOK, Home
<1>. QED BY <1>1, <1>2 DEF RepointsOne, Cloned

LEMMA ReplaceCalls ==
    ASSUME ProgramOK, RequestsOK, MapOK, PlacesOK, LoopOK, ModuleOK, ReplaceExternal
    PROVE  RepointsOne(NextSite)
<1>1. PICK at, c, v : at = AtSite /\ c = NextSite /\ Replaced(at, c, v)
  BY ReplaceEffect
<1>2. \A x \in Call : Home(x) \in DOMAIN code
  BY CallsAreSites DEF ModuleOK, Home
<1>. QED BY <1>1, <1>2 DEF RepointsOne, Replaced

LEMMA FrameCalls ==
    ASSUME Inv, TInv, CloneFrame \/ ReplaceExternal
    PROVE  RepointsOne(NextSite)
BY CloneCalls, ReplaceCalls DEF Inv, TInv

\* The last frame: the call at the place of the fix is not re-pointed yet,
\* unless another fix passes by.
LEMMA LastFrame ==
    ASSUME Inv, TInv, CallsOK, CloneFrame \/ ReplaceExternal, frame + 1 = fixMap[cur].stackIdx
    PROVE  NoneAtOdds \/ OwnPlaces => retInst' = cur
<1>0. ProgramOK /\ RequestsOK /\ MapOK /\ PlacesOK /\ LoopOK /\ ModuleOK /\ phase = "subprogram" /\ InLoop
  BY DEF Inv, TInv, CloneFrame, ReplaceExternal, InLoop
<1>1. PICK n \in DOMAIN ops :
             /\ Chain = ops[n].stack /\ IsStack(Chain)
             /\ PlaceIdx(ops[n]) \in 2 .. Len(Chain) /\ fixMap[cur].stackIdx = PlaceIdx(ops[n]) - 1
             /\ cur = Place(ops[n]) /\ cur = Chain[PlaceIdx(ops[n])]
  BY <1>0, FrameSites
<1>2. frame + 2 = PlaceIdx(ops[n]) /\ frame \in Nat
  BY <1>0, <1>1 DEF LoopOK, IsStack
<1>3. NextSite = cur
  BY <1>1, <1>2 DEF NextSite
<1>4. /\ cur \in Call /\ CalleeOf[cur] = FnOf[AtSite] /\ AtSite \in Site /\ cur # NoSite
      /\ retInst' = IF CallsOriginal THEN cur ELSE retInst
  BY <1>3, FrameCalls, ProgramAssumption, Apart DEF RepointsOne
<1>5. CASE CallsOriginal
  BY <1>4, <1>5
<1>6. CASE ~CallsOriginal
  <2>1. code[Home(cur)].calls[cur] # Names(cur)
    BY <1>3, <1>4, <1>6, CallsOriginalIs
  <2>2. Repointed(cur)
    BY <1>0, <1>4, <2>1 DEF CallsOK
  <2>3. CASE phase = "subprogram" /\ retInst # NoSite /\ \E k \in 2 .. frame + 1 : cur = Chain[k]
    <3>1. PICK k \in 2 .. frame + 1 : cur = Chain[k]
      BY <2>3
    <3>2. /\ k \in 1 .. PlaceIdx(ops[n]) /\ k \in 1 .. PlaceIdx(ops[n]) - 1 /\ k # PlaceIdx(ops[n])
          /\ ops[n].stack[k] = Place(ops[n])
      BY <1>1, <1>2, <3>1 DEF IsStack
    <3>3. ~OwnPlaces
      BY <3>2 DEF OwnPlaces
    <3>4. FnOf[Place(ops[n])] \in Below(ops[n])
      BY <3>2 DEF Below
    <3>5. ~NoneAtOdds
      BY <3>4 DEF NoneAtOdds, AtOdds
    <3>. QED BY <3>3, <3>5
  <2>4. CASE \E y \in Fixed : y \notin todo /\ y # cur /\ fixMap[y].type \in PST /\ Passed(y, cur)
    <3>1. PICK y \in Fixed : y # cur /\ fixMap[y].type \in PST /\ Passed(y, cur)
      BY <2>4
    <3>2. PICK m \in DOMAIN ops :
            /\ fixMap[y].dynStack = ops[m].stack /\ PlaceIdx(ops[m]) \in 2 .. Len(ops[m].stack)
            /\ fixMap[y].stackIdx = PlaceIdx(ops[m]) - 1 /\ y = Place(ops[m])
      BY <1>0, <3>1 DEF Fixed, PlacesOK, FromRequest
    <3>3. PICK k \in 2 .. fixMap[y].stackIdx + 1 : cur = fixMap[y].dynStack[k]
      BY <3>1 DEF Passed
    <3>4. k \in 2 .. PlaceIdx(ops[m]) /\ cur = ops[m].stack[k] /\ PlaceIdx(ops[m]) \in Nat
      BY <1>0, <3>2, <3>3 DEF RequestsOK, IsStack
    <3>5. k # PlaceIdx(ops[m])
      BY <3>1, <3>2, <3>4 DEF Place
    <3>6. k \in 1 .. PlaceIdx(ops[m]) - 1 /\ k \in 1 .. PlaceIdx(ops[m])
      BY <3>4, <3>5
    <3>7. ~OwnPlaces
      <4>. SUFFICES ASSUME OwnPlaces PROVE FALSE
        OBVIOUS
      <4>1. ops[m].stack[k] = Place(ops[n])
        BY <1>1, <3>4
      <4>2. k = PlaceIdx(ops[m])
        BY <3>6, <4>1 DEF OwnPlaces
      <4>. QED BY <3>5, <4>2
    <3>8. FnOf[Place(ops[n])] \in Below(ops[m])
      BY <1>1, <3>4, <3>6 DEF Below
    <3>9. ~NoneAtOdds
      BY <3>8 DEF NoneAtOdds, AtOdds
    <3>. QED BY <3>7, <3>9
  <2>. QED BY <2>2, <2>3, <2>4 DEF Repointed
<1>. QED BY <1>5, <1>6

LEMMA InitCalls == Init => CallsOK
BY DEF Init, CallsOK

\* Steps that change neither the calls nor what is being applied.
LEMMA EarlyCalls ==
    ASSUME CallsOK, phase \in {"compute", "raise"}, UNCHANGED <<code, cur>>,
           phase' \in {"compute", "raise", "apply", "abort"}
    PROVE  CallsOK'
<1>1. code = Linked /\ cur' = NoSite
  BY DEF CallsOK
<1>2. \A c \in Call : code'[Home(c)].calls[c] = Names(c)
  BY <1>1, LinkedCalls
<1>. QED BY <1>1, <1>2 DEF CallsOK

\* The steps of the loop over the fixes.
LEMMA FrameCallsOK ==
    ASSUME Inv, TInv, CallsOK, CloneFrame \/ ReplaceExternal
    PROVE  CallsOK'
<1>1. /\ UNCHANGED program /\ UNCHANGED fixMap /\ frame' = frame + 1 /\ InLoop
      /\ UNCHANGED <<phase, todo, cur>>
  BY DEF CloneFrame, ReplaceExternal
<1>2. phase = "subprogram" /\ Chain' = Chain /\ Fixed' = Fixed
  BY <1>1 DEF InLoop, Chain, Fixed
<1>3. PICK c : c = NextSite
  OBVIOUS
<1>4. /\ c \in Call
      /\ \A x \in Call : code'[Home(x)].calls[x] = code[Home(x)].calls[x] \/ (x = c /\ CallsOriginal)
      /\ retInst' = IF CallsOriginal THEN c ELSE retInst
  BY <1>3, FrameCalls DEF RepointsOne
<1>5. c = Chain[frame + 2] /\ frame \in Nat /\ c # NoSite
  BY <1>3, <1>4, Apart, ProgramAssumption DEF NextSite, TInv, LoopOK
<1>6. ASSUME NEW x \in Call, code'[Home(x)].calls[x] # Names(x)
      PROVE  Repointed(x)'
  <2>1. CASE x = c /\ CallsOriginal
    <3>1. frame + 2 \in 2 .. frame' + 1 /\ x = Chain'[frame + 2] /\ retInst' # NoSite
      BY <1>1, <1>2, <1>4, <1>5, <2>1
    <3>. QED BY <1>1, <1>2, <3>1 DEF Repointed
  <2>2. CASE code[Home(x)].calls[x] # Names(x)
    <3>1. Repointed(x)
      BY <1>2, <2>2 DEF CallsOK
    <3>2. retInst # NoSite => retInst' # NoSite
      BY <1>4, <1>5
    <3>3. 2 .. frame + 1 \subseteq 2 .. frame' + 1
      BY <1>1, <1>5
    <3>. QED BY <1>1, <1>2, <3>1, <3>2, <3>3 DEF Repointed, Passed
  <2>. QED BY <1>4, <1>6, <2>1, <2>2
<1>7. ASSUME frame' = fixMap'[cur'].stackIdx
      PROVE  (NoneAtOdds \/ OwnPlaces => retInst = cur)'
  BY <1>1, <1>7, LastFrame, OddsRigid
<1>. QED BY <1>1, <1>2, <1>6, <1>7 DEF CallsOK

LEMMA ApplyCallsOK ==
    ASSUME Inv, TInv, CallsOK, NEW s \in todo, ApplyPrimitive(s) \/ ApplySubProgram(s)
    PROVE  CallsOK'
<1>1. /\ UNCHANGED program /\ UNCHANGED fixMap /\ phase = "apply" /\ todo' = todo \ {s}
      /\ Fixed' = Fixed /\ cur = NoSite
  BY DEF ApplyPrimitive, ApplySubProgram, Fixed, CallsOK
<1>2. s \in Site /\ s \in Fixed /\ fixMap[s] \in FixDesc /\ HasPlace(s, fixMap[s])
  BY DEF Inv, MapOK, TInv, LoopOK, Fixed
<1>3. \A c \in Call : code[Home(c)].calls[c] # Names(c) =>
          \E y \in Fixed : y \notin todo /\ fixMap[y].type \in PST /\ Passed(y, c)
  BY <1>1 DEF CallsOK, Repointed
<1>4. CASE ApplyPrimitive(s)
  <2>1. s \in Store
    BY <1>2, <1>4 DEF ApplyPrimitive, Primitive, HasPlace
  <2>2. \A c \in Call : Home(c) \in DOMAIN code
    BY CallsAreSites DEF TInv, ModuleOK, Home
  <2>3. \A c \in Call : code'[Home(c)].calls[c] = code[Home(c)].calls[c]
    BY <1>4, <2>1, <2>2, PrimitiveEffect DEF TInv
  <2>4. phase' = "apply" /\ cur' = cur
    BY <1>4 DEF ApplyPrimitive, subprogram
  <2>5. ASSUME NEW c \in Call, code'[Home(c)].calls[c] # Names(c)
        PROVE  Repointed(c)'
    <3>1. PICK y \in Fixed : y \notin todo /\ fixMap[y].type \in PST /\ Passed(y, c)
      BY <1>3, <2>3, <2>5
    <3>2. y # cur
      BY <1>1, ProgramAssumption DEF Fixed
    <3>. QED BY <1>1, <2>4, <3>1, <3>2 DEF Repointed, Passed
  <2>. QED BY <1>1, <2>4, <2>5 DEF CallsOK
<1>5. CASE ApplySubProgram(s)
  <2>1. phase' = "subprogram" /\ cur' = s /\ frame' = 0 /\ code' = code /\ fixMap[s].type \in PST
    BY <1>5 DEF ApplySubProgram
  <2>2. fixMap[s].stackIdx # 0
    <3>1. FromRequest(s, fixMap[s])
      BY <1>2 DEF TInv, PlacesOK, Fixed
    <3>. QED BY <2>1, <3>1 DEF FromRequest
  <2>3. ASSUME NEW c \in Call, code'[Home(c)].calls[c] # Names(c)
        PROVE  Repointed(c)'
    <3>1. PICK y \in Fixed : y \notin todo /\ fixMap[y].type \in PST /\ Passed(y, c)
      BY <1>3, <2>1, <2>3
    <3>. QED BY <1>1, <2>1, <3>1 DEF Repointed, Passed
  <2>. QED BY <1>1, <2>1, <2>2, <2>3 DEF CallsOK
<1>. QED BY <1>4, <1>5

LEMMA EndSubProgramCallsOK ==
    ASSUME Inv, TInv, CallsOK, EndSubProgram
    PROVE  CallsOK'
<1>1. /\ UNCHANGED fixMap /\ phase = "subprogram" /\ frame = fixMap[cur].stackIdx
      /\ phase' = "apply" /\ cur' = NoSite /\ todo' = todo /\ Fixed' = Fixed
  BY DEF EndSubProgram, Fixed
<1>2. cur \in Fixed /\ cur \notin todo /\ fixMap[cur].type \in PST /\ \A y \in Fixed : y # NoSite
  BY <1>1, ProgramAssumption DEF CallsOK, TInv, LoopOK, Fixed
<1>3. \A c \in Call : code'[Home(c)].calls[c] = code[Home(c)].calls[c]
  <2>1. retInst \in Call \cup {NoSite} /\ \A c \in Call : Home(c) \in DOMAIN code
    BY CallsAreSites DEF TInv, LoopOK, ModuleOK, Home
  <2>. QED BY <2>1, EndSubProgramEffect DEF TInv
<1>4. ASSUME NEW c \in Call, code'[Home(c)].calls[c] # Names(c)
      PROVE  Repointed(c)'
  <2>1. Repointed(c)
    BY <1>1, <1>3, <1>4 DEF CallsOK
  <2>2. PICK y \in Fixed : y \notin todo /\ fixMap[y].type \in PST /\ Passed(y, c)
    <3>1. CASE \E k \in 2 .. frame + 1 : c = Chain[k]
      BY <1>1, <1>2, <3>1 DEF Passed, Chain
    <3>. QED BY <2>1, <3>1 DEF Repointed
  <2>. QED BY <1>1, <1>2, <2>2 DEF Repointed, Passed
<1>. QED BY <1>1, <1>4 DEF CallsOK

LEMMA StepCalls ==
    ASSUME Inv, TInv, CallsOK, [Next]_vars
    PROVE  CallsOK'
<1>1. CASE AddPrimitive \/ AddIndirect \/ EndCompute \/ EndRaise
  BY <1>1, EarlyCalls DEF AddPrimitive, AddIndirect, EndCompute, EndRaise, Computing, subprogram
<1>2. CASE \E s \in todo : Raise(s) \/ PassOver(s)
  BY <1>2, EarlyCalls DEF Raise, PassOver, subprogram
<1>3. CASE phase' \in {"abort", "done"}
  BY <1>3 DEF CallsOK
<1>4. CASE \E s \in todo : ApplyPrimitive(s) \/ ApplySubProgram(s)
  BY <1>4, ApplyCallsOK
<1>5. CASE CloneFrame \/ ReplaceExternal \/ EndSubProgram
  BY <1>5, FrameCallsOK, EndSubProgramCallsOK
<1>6. CASE UNCHANGED vars
  <2>1. UNCHANGED program /\ Fixed' = Fixed /\ Chain' = Chain
    BY <1>6 DEF vars, program, Fixed, Chain
  <2>2. \A c : Repointed(c)' <=> Repointed(c)
    BY <1>6, <2>1 DEF vars, Repointed, Passed
  <2>. QED BY <1>6, <2>1, <2>2, OddsRigid DEF vars, CallsOK
<1>7. CASE ComputeFails \/ FrameFails \/ FenceFails \/ EndApply
  BY <1>3, <1>7 DEF ComputeFails, FrameFails, FenceFails, Abort, EndApply
<1>8. CASE \E s \in todo : RaiseFails(s) \/ GeneratorFails(s)
  BY <1>3, <1>8 DEF RaiseFails, GeneratorFails, Abort
<1>. QED BY <1>1, <1>2, <1>4, <1>5, <1>6, <1>7, <1>8 DEF Next, Finished

\* insertPersistentSubProgram has a call to put its fence after, whenever no two
\* requests are at odds.
THEOREM FenceAlwaysHasPlace == Spec => []FenceHasPlace
<1>1. Init => Inv /\ TInv /\ CallsOK
  BY InitInv, InitTInv, InitCalls
<1>2. Inv /\ TInv /\ CallsOK /\ [Next]_vars => Inv' /\ TInv' /\ CallsOK'
  BY Step, StepT, StepCalls
<1>3. TInv /\ CallsOK => FenceHasPlace
  BY ProgramAssumption DEF CallsOK, FenceHasPlace, TInv, LoopOK, Fixed
<1>. QED BY <1>1, <1>2, <1>3, PTL DEF Spec

-----------------------------------------------------------------------------
(* Where the fixes that are left to apply are.                             *)

\* A fix of a store is at one that has a location.  Until the end of the
\* raising loop a fix raised from such a store has that store among the moved
\* ones, which the loop has done with; and when places are not shared, a store
\* it has done with was moved or can hold its fix.
LeftOK ==
    /\ \A s \in Fixed : fixMap[s].type \in Primitive => s \in Mapped
    /\ phase \in {"compute", "raise"} =>
          \A y \in Fixed : fixMap[y].type \in PST /\ fixMap[y].dynStack[1] \in Mapped
                              => fixMap[y].dynStack[1] \in moved
    /\ phase = "raise" => moved \cap todo = {}
    /\ phase = "raise" /\ OwnPlaces =>
          \A s \in Fixed : fixMap[s].type \in Primitive => s \in todo \/ s \in moved \/ CanHold(s)
    /\ phase \in {"apply", "subprogram"} /\ Raising /\ OwnPlaces =>
          \A s \in Fixed : fixMap[s].type \in Primitive => CanHold(s)

LEMMA InitLeft == Init => LeftOK
BY DEF Init, LeftOK, Fixed, NoFixYet

\* A raised fix that is put at its place is there on its own stack, or what
\* was there before still is.
LEMMA PutRaised ==
    ASSUME MapOK, NEW at \in Call, NEW desc \in FixDesc, desc.type \in PST, HasPlace(at, desc),
           fixMap' = Put(at, desc)
    PROVE  /\ \A y \in Site : y # at => fixMap'[y] = fixMap[y]
           /\ fixMap'[at] # NoFix /\ fixMap'[at].type \in PST
           /\ \/ fixMap'[at] = desc /\ IsAdded(fixMap[at], desc)
              \/ fixMap'[at] = fixMap[at] /\ at \in Fixed /\ fixMap[at].type \in PST
                 /\ ~IsAdded(fixMap[at], desc)
<1>1. at \in Site
  BY Apart
<1>2. fixMap'[at] = Added(fixMap[at], desc) /\ \A y \in Site : y # at => fixMap'[y] = fixMap[y]
  BY <1>1 DEF Put, MapOK
<1>3. fixMap'[at] # NoFix /\ fixMap'[at].type \in PST
  BY <1>1, PutKeeps
<1>4. CASE fixMap[at] = NoFix
  BY <1>2, <1>3, <1>4 DEF Added, IsAdded
<1>5. CASE fixMap[at] # NoFix
  <2>1. fixMap[at].type \in PST
    <3>1. fixMap[at] \in FixDesc /\ HasPlace(at, fixMap[at])
      BY <1>1, <1>5 DEF MapOK
    <3>. QED BY <3>1, Apart DEF HasPlace, FixDesc, FixType
  <2>2. Coalesce(fixMap[at], desc) = IF fixMap[at].type = "PST_NOFENCE" /\ desc.type = "PST" THEN desc ELSE fixMap[at]
    BY <2>1 DEF Coalesce, PST
  <2>. QED BY <1>1, <1>2, <1>3, <1>5, <2>1, <2>2 DEF Added, IsAdded, Fixed
<1>. QED BY <1>2, <1>3, <1>4, <1>5

LEMMA AddPrimitiveLeft ==
    ASSUME Inv, TInv, LeftOK, AddPrimitive
    PROVE  LeftOK'
<1>. DEFINE s == ThisOp.stack[1]
<1>1. RequestsOK /\ MapOK /\ Computing /\ s \in Mapped /\ phase' = "compute" /\ moved' = moved
  BY DEF Inv, AddPrimitive, Computing
<1>2. /\ LeafDesc \in FixDesc /\ HasPlace(s, LeafDesc) /\ s \in Site /\ s \in Store
  BY <1>1, LeafDescOK, Apart DEF HasPlace, IsStack
<1>3. fixMap' = Put(s, LeafDesc)
  BY DEF AddPrimitive
<1>. HIDE DEF s
<1>4. MapOK' /\ \A y \in Site : y # s => fixMap'[y] = fixMap[y]
  <2>1. MapOK'
    BY <1>1, <1>2, <1>3, PutKeeps
  <2>2. \A y \in Site : y # s => fixMap'[y] = fixMap[y]
    BY <1>1, <1>3 DEF Put, MapOK
  <2>. QED BY <2>1, <2>2
<1>5. fixMap'[s].type \in PST => FALSE
  BY <1>2, <1>4, Apart DEF MapOK, HasPlace, NoFix, PST
<1>6. \A y \in Fixed' : y = s \/ y \in Fixed
  BY <1>4 DEF Fixed
<1>7. \A y \in Fixed' : fixMap'[y].type \in Primitive => y \in Mapped
  BY <1>1, <1>4, <1>6 DEF LeftOK, Fixed
<1>8. \A y \in Fixed' : fixMap'[y].type \in PST /\ fixMap'[y].dynStack[1] \in Mapped
                              => fixMap'[y].dynStack[1] \in moved'
  BY <1>1, <1>4, <1>5, <1>6 DEF LeftOK, Computing, Fixed
<1>. QED BY <1>1, <1>7, <1>8 DEF LeftOK

LEMMA AddIndirectLeft ==
    ASSUME Inv, TInv, LeftOK, AddIndirect
    PROVE  LeftOK'
<1>0. RequestsOK /\ MapOK /\ Computing /\ ThisOp.stack[1] \notin Mapped /\ phase' = "compute" /\ moved' = moved
  BY DEF Inv, AddIndirect, Computing
<1>1. PICK l \in DOMAIN ThisOp.stack :
        /\ IsLanding(ThisOp.stack, l)
        /\ fixMap' = Put(ThisOp.stack[l], Raised(LeafDesc, l))
  BY DEF AddIndirect
<1>2. /\ LeafDesc \in FixDesc /\ LeafDesc.dynStack = ThisOp.stack /\ IsStack(ThisOp.stack)
  BY <1>0, LeafDescOK
<1>3. l \in 2 .. Len(ThisOp.stack)
  <2>1. ThisOp.stack[l] \in Mapped
    BY <1>1 DEF IsLanding, CanHold
  <2>. QED BY <1>0, <1>2, <2>1 DEF IsStack
<1>. DEFINE at == ThisOp.stack[l]
            desc == Raised(LeafDesc, l)
<1>4. desc \in FixDesc /\ desc.type \in PST /\ HasPlace(at, desc) /\ at \in Call
      /\ desc.dynStack[1] \notin Mapped /\ fixMap' = Put(at, desc)
  BY <1>0, <1>1, <1>2, <1>3, RaisedOK DEF IsStack, Raised
<1>. HIDE DEF at, desc
<1>5. /\ \A y \in Site : y # at => fixMap'[y] = fixMap[y]
      /\ fixMap'[at].type \in PST
      /\ fixMap'[at] = desc \/ (fixMap'[at] = fixMap[at] /\ at \in Fixed)
  BY <1>0, <1>4, PutRaised
<1>6. \A y \in Fixed' : fixMap'[y].type \in Primitive => y \in Mapped
  BY <1>5, Apart DEF LeftOK, Fixed
<1>7. \A y \in Fixed' : fixMap'[y].type \in PST /\ fixMap'[y].dynStack[1] \in Mapped
                              => fixMap'[y].dynStack[1] \in moved'
  BY <1>0, <1>4, <1>5 DEF LeftOK, Computing, Fixed
<1>. QED BY <1>0, <1>6, <1>7 DEF LeftOK

\* Raising: a fix that is not added is of the same stack as the one at the place,
\* since places are not shared; but that one's store would have been moved.
LEMMA RaiseLeft ==
    ASSUME Inv, TInv, LeftOK, NEW s \in todo, Raise(s)
    PROVE  LeftOK'
<1>. DEFINE stack == fixMap[s].dynStack
<1>0. /\ RequestsOK /\ MapOK /\ PlacesOK /\ ProgramOK /\ Raising /\ phase = "raise" /\ phase' = "raise"
      /\ todo' = todo \ {s} /\ UNCHANGED program /\ s \in Fixed /\ s \in Site /\ s \notin moved
  BY DEF Inv, TInv, Raise, LoopOK, LeftOK, Fixed
<1>1. /\ fixMap[s].type \in Primitive /\ fixMap[s] \in FixDesc
      /\ IsStack(stack) /\ s = stack[1] /\ s \in Store /\ s \in Mapped /\ FromRequest(s, fixMap[s])
  <2>1. fixMap[s].type \in Primitive /\ fixMap[s] # NoFix
    BY <1>0 DEF Raise, Fixed
  <2>. QED BY <1>0, <2>1 DEF MapOK, HasPlace, PlacesOK, LeftOK
<1>2. PICK l \in DOMAIN stack :
        /\ IsLanding(stack, l)
        /\ \/ l = 1 /\ UNCHANGED <<fixMap, moved>>
           \/ /\ l > 1
              /\ fixMap' = Put(stack[l], Raised(fixMap[s], l))
              /\ moved' = IF IsAdded(fixMap[stack[l]], Raised(fixMap[s], l)) THEN moved \cup {s} ELSE moved
  BY DEF Raise
<1>3. CASE l = 1 /\ UNCHANGED <<fixMap, moved>>
  <2>1. CanHold(s) /\ Fixed' = Fixed
    BY <1>1, <1>2, <1>3 DEF IsLanding, Fixed
  <2>. QED BY <1>0, <1>3, <2>1, OddsRigid DEF LeftOK
<1>4. CASE /\ l > 1
           /\ fixMap' = Put(stack[l], Raised(fixMap[s], l))
           /\ moved' = IF IsAdded(fixMap[stack[l]], Raised(fixMap[s], l)) THEN moved \cup {s} ELSE moved
  <2>. DEFINE at == stack[l]
              desc == Raised(fixMap[s], l)
  <2>1. l \in 2 .. Len(stack)
    BY <1>1, <1>4 DEF IsStack
  <2>2. desc \in FixDesc /\ desc.type \in PST /\ HasPlace(at, desc) /\ at \in Call /\ desc.dynStack[1] = s
    BY <1>1, <2>1, RaisedOK DEF IsStack, Raised
  <2>3. fixMap' = Put(at, desc) /\ moved' = IF IsAdded(fixMap[at], desc) THEN moved \cup {s} ELSE moved
    BY <1>4
  <2>4. ASSUME OwnPlaces, ~IsAdded(fixMap[at], desc), at \in Fixed, fixMap[at].type \in PST
        PROVE  FALSE
    <3>1. PICK n \in DOMAIN ops : stack = ops[n].stack
      BY <1>1 DEF FromRequest
    <3>2. PlaceIdx(ops[n]) = l /\ Place(ops[n]) = at
      BY <1>0, <1>1, <1>2, <3>1, LandingIsPlace
    <3>3. PICK m \in DOMAIN ops : /\ fixMap[at].dynStack = ops[m].stack
                                  /\ PlaceIdx(ops[m]) \in 2 .. Len(ops[m].stack) /\ at = Place(ops[m])
      BY <1>0, <2>4 DEF PlacesOK, FromRequest, Fixed
    <3>4. PlaceIdx(ops[m]) \in 1 .. PlaceIdx(ops[m])
      BY <3>3
    <3>5. ops[m].stack = ops[n].stack
      BY <2>4, <3>2, <3>3, <3>4 DEF OwnPlaces, Place
    <3>6. fixMap[at].dynStack[1] = s
      BY <1>1, <3>1, <3>3, <3>5
    <3>. QED BY <1>0, <1>1, <2>4, <3>6 DEF LeftOK
  <2>. HIDE DEF at, desc
  <2>5. /\ \A y \in Site : y # at => fixMap'[y] = fixMap[y]
        /\ fixMap'[at] # NoFix /\ fixMap'[at].type \in PST
        /\ \/ fixMap'[at] = desc /\ IsAdded(fixMap[at], desc)
           \/ fixMap'[at] = fixMap[at] /\ at \in Fixed /\ fixMap[at].type \in PST
              /\ ~IsAdded(fixMap[at], desc)
    BY <1>0, <2>2, <2>3, PutRaised
  <2>6. at \in Site
    BY <2>2, Apart
  <2>7. \A y \in Fixed' : fixMap'[y].type \in Primitive => y \in Fixed /\ fixMap[y].type \in Primitive
    BY <2>5, Apart DEF Fixed
  <2>8. \A y \in Fixed' : fixMap'[y].type \in PST /\ fixMap'[y].dynStack[1] \in Mapped
                              => fixMap'[y].dynStack[1] \in moved'
    BY <1>0, <2>2, <2>3, <2>5 DEF LeftOK, Fixed
  <2>9. OwnPlaces => s \in moved'
    BY <2>3, <2>4, <2>5
  <2>10. moved \subseteq moved' /\ moved' \subseteq moved \cup {s}
    BY <2>3
  <2>11. ASSUME OwnPlaces', NEW y \in Fixed', fixMap'[y].type \in Primitive
         PROVE  y \in todo' \/ y \in moved' \/ CanHold(y)
    <3>1. OwnPlaces
      BY <1>0, <2>11, OddsRigid
    <3>2. y \in todo \/ y \in moved \/ CanHold(y)
      BY <1>0, <2>7, <2>11, <3>1 DEF LeftOK
    <3>. QED BY <1>0, <2>9, <2>10, <3>1, <3>2
  <2>12. \A y \in Fixed' : fixMap'[y].type \in Primitive => y \in Mapped
    BY <2>7 DEF LeftOK
  <2>13. moved' \cap todo' = {}
    BY <1>0, <2>10 DEF LeftOK
  <2>. QED BY <1>0, <2>8, <2>11, <2>12, <2>13 DEF LeftOK
<1>. QED BY <1>2, <1>3, <1>4

\* The other steps of the first two phases.
LEMMA EarlyLeft ==
    ASSUME Inv, TInv, LeftOK, EndCompute \/ EndRaise \/ \E s \in todo : PassOver(s)
    PROVE  LeftOK'
<1>0. UNCHANGED program /\ (OwnPlaces' <=> OwnPlaces) /\ (Raising' <=> Raising)
  <2>1. UNCHANGED program
    BY DEF EndCompute, EndRaise, PassOver
  <2>. QED BY <2>1, OddsRigid, PlacesRigid
<1>1. CASE EndCompute
  <2>1. moved = {} /\ moved' = {}
    BY <1>1 DEF EndCompute, Inv, MovedOK
  <2>2. Fixed' = Fixed /\ fixMap' = fixMap
    BY <1>1 DEF EndCompute, Fixed
  <2>. QED BY <1>0, <1>1, <2>1, <2>2 DEF EndCompute, LeftOK, PrimitiveFixes
<1>2. CASE \E s \in todo : PassOver(s)
  <2>1. PICK s \in todo : PassOver(s)
    BY <1>2
  <2>2. Fixed' = Fixed /\ fixMap' = fixMap /\ moved' = moved /\ phase = "raise" /\ phase' = "raise"
        /\ todo' = todo \ {s} /\ fixMap[s].type \notin Primitive
    BY <2>1, Apart DEF PassOver, Fixed
  <2>. QED BY <1>0, <2>2 DEF LeftOK
<1>3. CASE EndRaise
  <2>1. /\ phase = "raise" /\ todo = {} /\ phase' = "apply" /\ moved' = {}
        /\ \A x \in Site : fixMap'[x] = IF x \in moved THEN NoFix ELSE fixMap[x]
    BY <1>3 DEF EndRaise
  <2>2. \A x \in Fixed' : x \in Fixed /\ x \notin moved /\ fixMap'[x] = fixMap[x]
    BY <2>1 DEF Fixed
  <2>. QED BY <1>0, <2>1, <2>2 DEF LeftOK
<1>. QED BY <1>1, <1>2, <1>3

\* From then on the fixes do not change.
LEMMA LateLeft ==
    ASSUME LeftOK, UNCHANGED program, UNCHANGED fixMap,
           \/ phase' = "abort" \/ phase' = "done"
           \/ phase \in {"apply", "subprogram"} /\ phase' \in {"apply", "subprogram"}
           \/ UNCHANGED <<phase, moved, todo>>
    PROVE  LeftOK'
<1>1. (OwnPlaces' <=> OwnPlaces) /\ (Raising' <=> Raising) /\ Fixed' = Fixed
  BY OddsRigid, PlacesRigid DEF Fixed
<1>. QED BY <1>1 DEF LeftOK

LEMMA StepLeft ==
    ASSUME Inv, TInv, LeftOK, [Next]_vars
    PROVE  LeftOK'
<1>1. CASE AddPrimitive \/ AddIndirect \/ EndCompute \/ EndRaise
  BY <1>1, AddPrimitiveLeft, AddIndirectLeft, EarlyLeft
<1>2. CASE \E s \in todo : Raise(s) \/ PassOver(s)
  BY <1>2, RaiseLeft, EarlyLeft
<1>3. CASE ComputeFails \/ FrameFails \/ FenceFails \/ \E s \in todo : RaiseFails(s) \/ GeneratorFails(s)
  BY <1>3, LateLeft DEF ComputeFails, FrameFails, FenceFails, RaiseFails, GeneratorFails, Abort
<1>4. CASE \E s \in todo : ApplyPrimitive(s) \/ ApplySubProgram(s)
  BY <1>4, LateLeft DEF ApplyPrimitive, ApplySubProgram
<1>5. CASE CloneFrame \/ ReplaceExternal \/ EndSubProgram \/ EndApply
  BY <1>5, LateLeft DEF CloneFrame, ReplaceExternal, EndSubProgram, EndApply, InLoop
<1>6. CASE UNCHANGED vars
  BY <1>6, LateLeft DEF vars, program
<1>. QED BY <1>1, <1>2, <1>3, <1>4, <1>5, <1>6 DEF Next, Finished

-----------------------------------------------------------------------------
(* The functions that must not be changed.                                 *)

ImmutableOK == Raising /\ OwnPlaces => NoFixInImmutable

LEMMA InitImmutable == Init => ImmutableOK
<1>. SUFFICES ASSUME Init, NEW f \in Immutable \ External
              PROVE  code[<<f, 0>>].flush = {} /\ code[<<f, 0>>].fence = {}
  BY DEF ImmutableOK, NoFixInImmutable
<1>1. f \in Fn
  BY ProgramAssumption
<1>2. code[<<f, 0>>] = Original(f)
  BY <1>1 DEF Init, Linked
<1>. QED BY <1>1, <1>2, OriginalBody

\* A step that adds at most a flush or a fence of a place that can hold one.
LEMMA MarkImmutable ==
    ASSUME ImmutableOK, TInv, UNCHANGED program,
           Raising /\ OwnPlaces => \A f \in Immutable \ External :
              code'[<<f, 0>>].flush = code[<<f, 0>>].flush /\ code'[<<f, 0>>].fence = code[<<f, 0>>].fence
    PROVE  ImmutableOK'
BY OddsRigid, PlacesRigid DEF ImmutableOK, NoFixInImmutable

LEMMA StepImmutable ==
    ASSUME Inv, TInv, CallsOK, LeftOK, ImmutableOK, [Next]_vars
    PROVE  ImmutableOK'
<1>0. /\ ProgramOK /\ RequestsOK /\ MapOK /\ PlacesOK /\ LoopOK /\ ModuleOK
      /\ \A f \in Immutable \ External : f \in Fn /\ <<f, 0>> \in DOMAIN code
  BY ProgramAssumption DEF Inv, TInv, ModuleOK
<1>1. CASE UNCHANGED program /\ UNCHANGED code
  BY <1>1, MarkImmutable
<1>2. CASE \E s \in todo : ApplyPrimitive(s)
  <2>1. PICK s \in todo : ApplyPrimitive(s)
    BY <1>2
  <2>2. s \in Fixed /\ fixMap[s].type \in Primitive /\ s \in Store /\ phase = "apply" /\ UNCHANGED program
    BY <1>0, <2>1 DEF ApplyPrimitive, Primitive, LoopOK, MapOK, HasPlace, Fixed
  <2>3. ASSUME Raising, OwnPlaces, NEW f \in Immutable \ External
        PROVE  code'[<<f, 0>>].flush = code[<<f, 0>>].flush /\ code'[<<f, 0>>].fence = code[<<f, 0>>].fence
    <3>1. CanHold(s)
      BY <2>2, <2>3 DEF LeftOK
    <3>2. <<f, 0>> # Home(s)
      BY <3>1 DEF CanHold, Home
    <3>. QED BY <1>0, <2>1, <2>2, <3>2, PrimitiveEffect
  <2>. QED BY <2>2, <2>3, MarkImmutable
<1>3. CASE EndSubProgram
  <2>1. UNCHANGED program /\ phase = "subprogram" /\ frame = fixMap[cur].stackIdx
    BY <1>3 DEF EndSubProgram
  <2>2. ASSUME Raising, OwnPlaces, NEW f \in Immutable \ External
        PROVE  code'[<<f, 0>>].flush = code[<<f, 0>>].flush /\ code'[<<f, 0>>].fence = code[<<f, 0>>].fence
    <3>1. retInst = cur /\ CanHold(cur)
      BY <1>0, <2>1, <2>2, FrameSites DEF CallsOK
    <3>2. <<f, 0>> # Home(retInst)
      BY <3>1 DEF CanHold, Home
    <3>. QED BY <1>0, <1>3, <3>2, EndSubProgramEffect DEF LoopOK
  <2>. QED BY <2>1, <2>2, MarkImmutable
<1>4. CASE CloneFrame
  <2>1. UNCHANGED program
    BY <1>4 DEF CloneFrame
  <2>2. PICK at, c, v : Cloned(at, c, v)
    BY <1>0, <1>4, CloneEffect
  <2>3. \A w \in DOMAIN code : code'[w].flush = code[w].flush /\ code'[w].fence = code[w].fence
    BY <2>2 DEF Cloned
  <2>. QED BY <1>0, <2>1, <2>3, MarkImmutable
<1>5. CASE ReplaceExternal
  <2>1. UNCHANGED program
    BY <1>5 DEF ReplaceExternal
  <2>2. PICK at, c, v : Replaced(at, c, v)
    BY <1>0, <1>5, ReplaceEffect
  <2>3. \A w \in DOMAIN code : code'[w].flush = code[w].flush /\ code'[w].fence = code[w].fence
    BY <2>2 DEF Replaced
  <2>. QED BY <1>0, <2>1, <2>3, MarkImmutable
<1>6. CASE EndApply
  <2>1. UNCHANGED program
    BY <1>6 DEF EndApply
  <2>2. \A w \in DOMAIN code : code'[w].flush = code[w].flush /\ code'[w].fence = code[w].fence
    BY <1>0, <1>6, EndApplyEffect
  <2>. QED BY <1>0, <2>1, <2>2, MarkImmutable
<1>7. CASE AddPrimitive \/ AddIndirect \/ ComputeFails \/ EndCompute \/ EndRaise \/ FrameFails \/ FenceFails
  BY <1>1, <1>7 DEF AddPrimitive, AddIndirect, ComputeFails, EndCompute, EndRaise, FrameFails, FenceFails, Abort
<1>8. CASE \E s \in todo : Raise(s) \/ PassOver(s) \/ RaiseFails(s) \/ ApplySubProgram(s) \/ GeneratorFails(s)
  BY <1>1, <1>8 DEF Raise, PassOver, RaiseFails, ApplySubProgram, GeneratorFails, Abort
<1>9. CASE UNCHANGED vars
  BY <1>1, <1>9 DEF vars, program
<1>. QED BY <1>2, <1>3, <1>4, <1>5, <1>6, <1>7, <1>8, <1>9 DEF Next, Finished

\* With raising and places of their own, no immutable function gets a fix.
THEOREM ImmutableStaysUntouched == Spec => []ImmutableRespected
<1>1. Init => Inv /\ TInv /\ CallsOK /\ LeftOK /\ ImmutableOK
  BY InitInv, InitTInv, InitCalls, InitLeft, InitImmutable
<1>2. Inv /\ TInv /\ CallsOK /\ LeftOK /\ ImmutableOK /\ [Next]_vars
        => Inv' /\ TInv' /\ CallsOK' /\ LeftOK' /\ ImmutableOK'
  BY Step, StepT, StepCalls, StepLeft, StepImmutable
<1>3. ImmutableOK => ImmutableRespected
  BY DEF ImmutableOK, ImmutableRespected
<1>. QED BY <1>1, <1>2, <1>3, PTL DEF Spec

-----------------------------------------------------------------------------
(* Induction, for sets of numbers.                                         *)

\* A set of numbers has a least one.
LEMMA Least ==
    ASSUME NEW T \in SUBSET Nat, T # {}
    PROVE  \E x \in T : \A y \in T : x <= y
<1>. DEFINE R == StrictSubsetOrdering(Nat)
            F == FiniteSubsetsOf(Nat)
            Under == {0 .. n : n \in T}
<1>1. IsWellFoundedOn(R, F)
  BY FS_StrictSubsetOrderingWellFounded
<1>2. Under \subseteq F /\ Under # {}
  <2>1. \A n \in Nat : IsFiniteSet(0 .. n) /\ 0 .. n \in SUBSET Nat
    BY FS_Interval
  <2>. QED BY <2>1 DEF FiniteSubsetsOf
<1>3. PICK b \in Under : \A c \in Under : ~ (<<c, b>> \in R)
  <2>. HIDE DEF R, F, Under
  <2>. QED BY <1>1, <1>2, WFMin
<1>4. PICK x \in T : b = 0 .. x
  OBVIOUS
<1>5. ASSUME NEW y \in T, y < x
      PROVE  FALSE
  <2>1. 0 .. y \subseteq 0 .. x /\ x \notin 0 .. y /\ x \in 0 .. x /\ 0 .. x \in SUBSET Nat /\ 0 .. y \in SUBSET Nat
    BY <1>5
  <2>2. <<0 .. y, 0 .. x>> \in R
    BY <2>1 DEF StrictSubsetOrdering
  <2>. QED BY <1>3, <1>4, <2>2
<1>. QED BY <1>5

\* A set with 0, and with each number the next, has them all.
LEMMA SetInduction ==
    ASSUME NEW S, 0 \in S, \A n \in Nat : n \in S => n + 1 \in S
    PROVE  Nat \subseteq S
<1>1. SUFFICES ASSUME Nat \ S # {} PROVE FALSE
  OBVIOUS
<1>2. PICK x \in Nat \ S : \A y \in Nat \ S : x <= y
  BY <1>1, Least
<1>3. x # 0 /\ x - 1 \in Nat
  BY <1>2
<1>4. x - 1 \in S
  BY <1>2, <1>3
<1>. QED BY <1>2, <1>3, <1>4

-----------------------------------------------------------------------------
(* The path of a call stack.                                               *)

\* What a call on the stack gets to, from version v of the function it is in.
Reached(st, k, v) ==
    IF code[v].calls[st[k + 1]] = Indirect THEN <<FnOf[st[k]], 0>> ELSE code[v].calls[st[k + 1]]

IsPath(p, st) ==
    /\ p \in [1 .. Len(st) -> DOMAIN code]
    /\ p[Len(st)] = <<FnOf[st[Len(st)]], 0>>
    /\ \A k \in 1 .. Len(st) : p[k][1] = FnOf[st[k]]
    /\ \A k \in 1 .. Len(st) - 1 : p[k] = Reached(st, k, p[k + 1])

IsCallStack(st) ==
    IsStack(st) /\ \A k \in 2 .. Len(st) : CalleeOf[st[k]] \in {FnOf[st[k - 1]], Indirect}

\* A call gets to a version, of the function of the frame below.
LEMMA ReachedOK ==
    ASSUME ModuleOK, NEW st, IsCallStack(st), NEW k \in 1 .. Len(st) - 1, NEW v \in DOMAIN code
    PROVE  Reached(st, k, v) \in DOMAIN code /\ Reached(st, k, v)[1] = FnOf[st[k]]
<1>1. k \in 1 .. Len(st) /\ k + 1 \in 2 .. Len(st) /\ (k + 1) - 1 = k /\ Len(st) \in Nat
  BY DEF IsCallStack, IsStack
<1>2. st[k + 1] \in Call /\ CalleeOf[st[k + 1]] \in {FnOf[st[k]], Indirect} /\ st[k] \in Site
  BY <1>1 DEF IsCallStack, IsStack
<1>3. FnOf[st[k]] \in Fn /\ <<FnOf[st[k]], 0>> \in DOMAIN code
  BY <1>2, ProgramAssumption DEF ModuleOK
<1>4. CASE CalleeOf[st[k + 1]] = Indirect
  <2>1. code[v].calls[st[k + 1]] = Indirect
    BY <1>2, <1>4 DEF ModuleOK
  <2>. QED BY <1>3, <2>1 DEF Reached
<1>5. CASE CalleeOf[st[k + 1]] # Indirect
  <2>1. code[v].calls[st[k + 1]] \in DOMAIN code /\ code[v].calls[st[k + 1]][1] = FnOf[st[k]]
    BY <1>2, <1>5 DEF ModuleOK
  <2>2. code[v].calls[st[k + 1]] # Indirect
    BY <2>1, VersionIsReal DEF ModuleOK
  <2>. QED BY <2>1, <2>2 DEF Reached
<1>. QED BY <1>4, <1>5

\* up of Path: the versions from main's down.
IsUp(f, st, n) ==
    /\ f \in [0 .. n -> DOMAIN code]
    /\ f[0] = <<FnOf[st[Len(st)]], 0>>
    /\ \A j \in 1 .. n : f[j] = Reached(st, Len(st) - j, f[j - 1])

\* There is such a function, of any height.
LEMMA UpExists ==
    ASSUME ModuleOK, NEW st, IsCallStack(st)
    PROVE  \E f : IsUp(f, st, Len(st) - 1)
<1>. DEFINE L == Len(st)
            S == {n \in Nat : n <= L - 1 => \E f : IsUp(f, st, n)}
<1>1. L \in Nat /\ L >= 1 /\ st[L] \in Site
  <2>1. st \in Seq(Site) /\ Len(st) >= 1
    BY DEF IsCallStack, IsStack
  <2>. QED BY <2>1
<1>2. 0 \in S
  <2>1. <<FnOf[st[L]], 0>> \in DOMAIN code
    BY <1>1, ProgramAssumption DEF ModuleOK
  <2>. DEFINE f == [j \in 0 .. 0 |-> <<FnOf[st[L]], 0>>]
  <2>2. IsUp(f, st, 0)
    BY <2>1 DEF IsUp
  <2>. QED BY <2>2
<1>3. ASSUME NEW n \in Nat, n \in S
      PROVE  n + 1 \in S
  <2>. SUFFICES ASSUME n + 1 <= L - 1
                PROVE  \E f : IsUp(f, st, n + 1)
    OBVIOUS
  <2>1. PICK f : IsUp(f, st, n)
    BY <1>1, <1>3
  <2>2. L - (n + 1) \in 1 .. L - 1
    BY <1>1
  <2>3. f[n] \in DOMAIN code
    BY <2>1 DEF IsUp
  <2>4. Reached(st, L - (n + 1), f[n]) \in DOMAIN code
    BY <2>2, <2>3, ReachedOK
  <2>. DEFINE g == [j \in 0 .. n + 1 |-> IF j = n + 1 THEN Reached(st, L - (n + 1), f[n]) ELSE f[j]]
  <2>5. g \in [0 .. n + 1 -> DOMAIN code]
    BY <2>1, <2>4 DEF IsUp
  <2>6. g[0] = <<FnOf[st[L]], 0>>
    BY <2>1 DEF IsUp
  <2>7. ASSUME NEW j \in 1 .. n + 1
        PROVE  g[j] = Reached(st, L - j, g[j - 1])
    <3>1. j - 1 \in 0 .. n /\ g[j - 1] = f[j - 1]
      OBVIOUS
    <3>2. CASE j = n + 1
      BY <3>1, <3>2
    <3>3. CASE j \in 1 .. n
      BY <2>1, <3>1, <3>3 DEF IsUp
    <3>. QED BY <3>2, <3>3
  <2>. HIDE DEF g
  <2>. QED BY <2>5, <2>6, <2>7 DEF IsUp
<1>4. Nat \subseteq S
  <2>. HIDE DEF S
  <2>. QED BY <1>2, <1>3, SetInduction
<1>5. L - 1 \in Nat
  BY <1>1
<1>. QED BY <1>4, <1>5

\* Path is what its definition says: the recursive function it is made of exists.
LEMMA PathIsPath ==
    ASSUME ModuleOK, NEW st, IsCallStack(st)
    PROVE  IsPath(Path(st), st)
<1>. DEFINE L == Len(st)
            Body0(up) == [n \in 0 .. L - 1 |->
                            IF n = 0 THEN <<FnOf[st[L]], 0>>
                            ELSE LET v == code[up[n - 1]].calls[st[L - n + 1]]
                                 IN IF v = Indirect THEN <<FnOf[st[L - n]], 0>> ELSE v]
            u == CHOOSE up : up = Body0(up)
<1>1. L \in Nat /\ L >= 1 /\ st[L] \in Site
  <2>1. st \in Seq(Site) /\ Len(st) >= 1
    BY DEF IsCallStack, IsStack
  <2>. QED BY <2>1
<1>2. PICK f : IsUp(f, st, L - 1)
  BY UpExists
<1>3. f = Body0(f)
  <2>1. ASSUME NEW n \in 0 .. L - 1
        PROVE  f[n] = Body0(f)[n]
    <3>1. CASE n = 0
      BY <1>2, <3>1 DEF IsUp
    <3>2. CASE n # 0
      <4>1. n \in 1 .. L - 1 /\ (L - n) + 1 = L - n + 1
        BY <1>1, <3>2
      <4>. QED BY <1>2, <3>2, <4>1 DEF IsUp, Reached
    <3>. QED BY <3>1, <3>2
  <2>2. DOMAIN f = 0 .. L - 1 /\ f = [n \in 0 .. L - 1 |-> f[n]]
    BY <1>2 DEF IsUp
  <2>. QED BY <2>1, <2>2
<1>4. u = Body0(u)
  <2>. HIDE DEF Body0
  <2>. QED BY <1>3
<1>5. Path(st) = [k \in 1 .. L |-> u[L - k]]
  BY DEF Path
<1>6. /\ u[0] = <<FnOf[st[L]], 0>>
      /\ \A n \in 1 .. L - 1 : u[n] = Reached(st, L - n, u[n - 1])
  <2>1. \A n \in 0 .. L - 1 : u[n] = Body0(u)[n]
    BY <1>4
  <2>. HIDE DEF u
  <2>2. u[0] = <<FnOf[st[L]], 0>>
    BY <1>1, <2>1
  <2>3. ASSUME NEW n \in 1 .. L - 1
        PROVE  u[n] = Reached(st, L - n, u[n - 1])
    <3>1. n \in 0 .. L - 1 /\ n # 0 /\ (L - n) + 1 = L - n + 1
      BY <1>1
    <3>. QED BY <2>1, <3>1 DEF Reached
  <2>. QED BY <2>2, <2>3
<1>. HIDE DEF u
<1>. DEFINE S == {n \in Nat : n <= L - 1 => u[n] \in DOMAIN code /\ u[n][1] = FnOf[st[L - n]]}
<1>7. Nat \subseteq S
  <2>1. 0 \in S
    <3>1. <<FnOf[st[L]], 0>> \in DOMAIN code
      BY <1>1, ProgramAssumption DEF ModuleOK
    <3>. QED BY <1>1, <1>6, <3>1
  <2>2. ASSUME NEW n \in Nat, n \in S
        PROVE  n + 1 \in S
    <3>. SUFFICES ASSUME n + 1 <= L - 1
                  PROVE  u[n + 1] \in DOMAIN code /\ u[n + 1][1] = FnOf[st[L - (n + 1)]]
      OBVIOUS
    <3>1. n + 1 \in 1 .. L - 1 /\ (n + 1) - 1 = n /\ L - (n + 1) \in 1 .. L - 1 /\ n <= L - 1
      BY <1>1
    <3>2. u[n] \in DOMAIN code
      BY <2>2, <3>1
    <3>3. u[n + 1] = Reached(st, L - (n + 1), u[n])
      BY <1>6, <3>1
    <3>. QED BY <3>1, <3>2, <3>3, ReachedOK
  <2>. HIDE DEF S
  <2>. QED BY <2>1, <2>2, SetInduction
<1>8. ASSUME NEW k \in 1 .. L
      PROVE  /\ Path(st)[k] = u[L - k] /\ u[L - k] \in DOMAIN code /\ u[L - k][1] = FnOf[st[k]]
             /\ k # L => u[L - k] = Reached(st, k, u[L - (k + 1)]) /\ k + 1 \in 1 .. L
  <2>1. L - k \in Nat /\ L - k <= L - 1 /\ L - (L - k) = k
    BY <1>1
  <2>2. k # L => L - k \in 1 .. L - 1 /\ (L - k) - 1 = L - (k + 1) /\ k + 1 \in 1 .. L
    BY <1>1
  <2>. QED BY <1>5, <1>6, <1>7, <2>1, <2>2
<1>9. Path(st)[L] = <<FnOf[st[L]], 0>>
  <2>1. L \in 1 .. L /\ L - L = 0
    BY <1>1
  <2>. QED BY <1>6, <1>8, <2>1
<1>10. Path(st) \in [1 .. L -> DOMAIN code]
  BY <1>5, <1>8
<1>11. ASSUME NEW k \in 1 .. L - 1
       PROVE  Path(st)[k] = Reached(st, k, Path(st)[k + 1])
  <2>1. k \in 1 .. L /\ k # L /\ k + 1 \in 1 .. L
    BY <1>1
  <2>. QED BY <1>8, <2>1
<1>. QED BY <1>8, <1>9, <1>10, <1>11 DEF IsPath

-----------------------------------------------------------------------------
(* Repairs where the stores are.                                           *)

AllMapped == \A n \in DOMAIN ops : ops[n].stack[1] \in Mapped
Handled(n) == ops[n].stack[1] \in Fixed /\ Covers(fixMap[ops[n].stack[1]], ops[n])
Marked(s, t) == /\ AddsFlush(t) => s \in code[Home(s)].flush
                /\ AddsFence(t) => s \in code[Home(s)].fence

\* Every request that was handled has a fix at its store that does what it
\* asks for, every fix that was applied is in the function of its store, and
\* no call was re-pointed but by patchMemoryPrimitives.
DirectOK ==
    ~Raising /\ AllMapped =>
        /\ phase \in {"compute", "apply"} =>
              \A v \in DOMAIN code : \A c \in Call : code[v].calls[c] = Names(c)
        /\ phase = "compute" => \A n \in 1 .. nextOp - 1 : Handled(n)
        /\ phase \in {"apply", "done"} => \A n \in DOMAIN ops : Handled(n)
        /\ phase = "apply" => \A s \in Fixed \ todo : Marked(s, fixMap[s].type)
        /\ phase = "done" =>
              /\ \A s \in Fixed : Marked(s, fixMap[s].type)
              /\ \A v \in DOMAIN code : \A c \in Call : code[v].calls[c] \in {Names(c), Patched(Names(c))}

\* All fixes are of stores then.
LEMMA OnlyPrimitives ==
    ASSUME Inv, TInv, ~Raising, AllMapped
    PROVE  /\ \A s \in Fixed : fixMap[s].type \in Primitive /\ s \in Store
           /\ phase \notin {"raise", "subprogram"}
<1>1. ASSUME NEW s \in Fixed PROVE fixMap[s].type \in Primitive /\ s \in Store
  <2>1. s \in Site /\ fixMap[s] \in FixDesc /\ HasPlace(s, fixMap[s]) /\ FromRequest(s, fixMap[s])
    BY DEF Fixed, Inv, MapOK, TInv, PlacesOK
  <2>2. fixMap[s].type \notin PST
    BY <2>1 DEF FromRequest, AllMapped
  <2>3. fixMap[s].type \in Primitive
    BY <2>1, <2>2 DEF FixDesc, FixType
  <2>. QED BY <2>1, <2>3 DEF HasPlace
<1>2. phase \notin {"raise", "subprogram"}
  BY <1>1, Apart DEF TInv, LoopOK
<1>. QED BY <1>1, <1>2

\* Whether all stores have locations does not change.
LEMMA AllMappedRigid == UNCHANGED program => (AllMapped' <=> AllMapped) /\ (Raising' <=> Raising)
<1>. SUFFICES ASSUME UNCHANGED program PROVE (AllMapped' <=> AllMapped) /\ (Raising' <=> Raising)
  OBVIOUS
<1>1. ops' = ops
  BY DEF program
<1>. QED BY <1>1, PlacesRigid DEF AllMapped

\* In the input module every version's calls name what they say.
LEMMA LinkedNames ==
    ASSUME code = Linked, NEW v \in DOMAIN code, NEW c \in Call
    PROVE  code[v].calls[c] = Names(c)
<1>1. v[1] \in Fn
  <2>1. DOMAIN code = (Fn \X {0}) \cup (Replaceable \X {1}) /\ Replaceable \subseteq Fn
    BY ProgramAssumption DEF Linked
  <2>. QED BY <2>1
<1>2. Original(v[1]).calls = [x \in Call |-> Names(x)] /\ Original(v[1]) \in Body
  BY <1>1, OriginalBody
<1>3. code[v] = IF v[2] = 0 THEN Original(v[1])
                ELSE [Original(v[1]) EXCEPT !.libc = <<v[1], 0>>, !.flush = StoresOf(v[1])]
  BY DEF Linked
<1>. HIDE DEF Names
<1>. QED BY <1>2, <1>3 DEF Body

LEMMA InitDirect == Init => DirectOK
<1>. SUFFICES ASSUME Init PROVE DirectOK
  OBVIOUS
<1>1. \A v \in DOMAIN code : \A c \in Call : code[v].calls[c] = Names(c)
  BY LinkedNames DEF Init
<1>2. phase = "compute" /\ nextOp = 1
  BY DEF Init
<1>. QED BY <1>1, <1>2 DEF DirectOK

\* A request that is handled gets its fix, and no earlier one loses it.
LEMMA AddPrimitiveDirect ==
    ASSUME Inv, TInv, DirectOK, AddPrimitive
    PROVE  DirectOK'
<1>. DEFINE s == ThisOp.stack[1]
<1>1. /\ RequestsOK /\ MapOK /\ Computing /\ UNCHANGED program /\ UNCHANGED code /\ phase = "compute"
      /\ phase' = "compute" /\ nextOp' = nextOp + 1 /\ nextOp \in Nat /\ ops' = ops /\ fixMap' = Put(s, LeafDesc)
  BY DEF Inv, AddPrimitive, Computing, program, RequestsOK
<1>2. /\ LeafDesc \in FixDesc /\ HasPlace(s, LeafDesc) /\ s \in Site /\ LeafDesc.type = ops[nextOp].type
  BY <1>1, LeafDescOK, Apart DEF HasPlace, IsStack, ThisOp
<1>3. s = ops[nextOp].stack[1]
  BY DEF ThisOp
<1>. HIDE DEF s
<1>4. /\ fixMap'[s] # NoFix /\ Covers(fixMap'[s], LeafDesc)
      /\ \A y \in Site : fixMap[y] # NoFix => fixMap'[y] # NoFix /\ Covers(fixMap'[y], fixMap[y])
  BY <1>1, <1>2, PutKeeps
<1>5. PICK m : m = nextOp
  OBVIOUS
<1>6. Handled(m)'
  <2>1. s \in Fixed' /\ Covers(fixMap'[s], ops[m])
    BY <1>2, <1>4, <1>5 DEF Fixed, Covers
  <2>2. s = ops'[m].stack[1]
    BY <1>1, <1>3, <1>5
  <2>. QED BY <1>1, <2>1, <2>2 DEF Handled
<1>7. ASSUME NEW n, Handled(n)
      PROVE  Handled(n)'
  <2>1. ops[n].stack[1] \in Fixed' /\ Covers(fixMap'[ops[n].stack[1]], ops[n])
    BY <1>4, <1>7 DEF Handled, Fixed, Covers
  <2>. QED BY <1>1, <2>1 DEF Handled
<1>8. \A n \in 1 .. nextOp' - 1 : n = m \/ n \in 1 .. nextOp - 1
  BY <1>1, <1>5
<1>9. (AllMapped' <=> AllMapped) /\ (Raising' <=> Raising)
  BY <1>1, AllMappedRigid
<1>. QED BY <1>1, <1>6, <1>7, <1>8, <1>9 DEF DirectOK

\* With only fixes of stores the loop that applies them goes through them.
LEMMA EndComputeDirect ==
    ASSUME Inv, TInv, DirectOK, EndCompute
    PROVE  DirectOK'
<1>1. /\ UNCHANGED program /\ UNCHANGED code /\ UNCHANGED fixMap /\ ops' = ops /\ Fixed' = Fixed
      /\ phase = "compute" /\ nextOp > Len(ops)
      /\ ~Raising => phase' = "apply" /\ todo' = Fixed
  BY DEF EndCompute, program, Fixed
<1>2. (AllMapped' <=> AllMapped) /\ (Raising' <=> Raising)
  BY <1>1, AllMappedRigid
<1>3. \A n \in DOMAIN ops : n \in 1 .. nextOp - 1
  <2>1. ops \in Seq(Op) /\ nextOp \in Nat
    BY StackAssumption DEF TInv, ProgramOK, Inv, RequestsOK
  <2>. QED BY <1>1, <2>1
<1>4. \A n : Handled(n) => Handled(n)'
  BY <1>1 DEF Handled
<1>. QED BY <1>1, <1>2, <1>3, <1>4 DEF DirectOK

\* A fix that is applied marks its store.
LEMMA ApplyPrimitiveDirect ==
    ASSUME Inv, TInv, DirectOK, NEW s \in todo, ApplyPrimitive(s)
    PROVE  DirectOK'
<1>1. /\ UNCHANGED program /\ UNCHANGED fixMap /\ ops' = ops /\ Fixed' = Fixed /\ s \in Fixed
      /\ phase = "apply" /\ phase' = "apply" /\ todo' = todo \ {s}
  BY DEF ApplyPrimitive, program, Fixed, TInv, LoopOK
<1>2. (AllMapped' <=> AllMapped) /\ (Raising' <=> Raising)
  BY <1>1, AllMappedRigid
<1>3. \A n : Handled(n) => Handled(n)'
  BY <1>1 DEF Handled
<1>. SUFFICES ASSUME ~Raising, AllMapped PROVE DirectOK'
  BY <1>2 DEF DirectOK
<1>4. s \in Store /\ \A y \in Fixed : y \in Store
  BY <1>1, OnlyPrimitives
<1>5. \A y \in Store : Home(y) \in DOMAIN code
  BY Apart, ProgramAssumption DEF TInv, ModuleOK, Home
<1>6. /\ DOMAIN code' = DOMAIN code
      /\ \A w \in DOMAIN code :
           /\ code'[w].calls = code[w].calls
           /\ code[w].flush \subseteq code'[w].flush /\ code[w].fence \subseteq code'[w].fence
      /\ AddsFlush(fixMap[s].type) => s \in code'[Home(s)].flush
      /\ AddsFence(fixMap[s].type) => s \in code'[Home(s)].fence
  BY <1>4, <1>5, PrimitiveEffect DEF TInv
<1>7. ASSUME NEW y \in Fixed \ todo'
      PROVE  Marked(y, fixMap[y].type)'
  <2>1. CASE y = s
    BY <1>1, <1>6, <2>1 DEF Marked
  <2>2. CASE y # s
    <3>1. Marked(y, fixMap[y].type)
      BY <1>1, <1>7, <2>2 DEF DirectOK
    <3>2. Home(y) \in DOMAIN code
      BY <1>4, <1>5
    <3>. QED BY <1>1, <1>6, <3>1, <3>2 DEF Marked
  <2>. QED BY <2>1, <2>2
<1>8. \A v \in DOMAIN code' : \A c \in Call : code'[v].calls[c] = Names(c)
  BY <1>1, <1>6 DEF DirectOK
<1>. QED BY <1>1, <1>2, <1>3, <1>7, <1>8 DEF DirectOK

\* patchMemoryPrimitives keeps the marks.
LEMMA EndApplyDirect ==
    ASSUME Inv, TInv, DirectOK, EndApply
    PROVE  DirectOK'
<1>1. /\ UNCHANGED program /\ UNCHANGED fixMap /\ ops' = ops /\ Fixed' = Fixed
      /\ phase = "apply" /\ phase' = "done" /\ todo = {}
  BY DEF EndApply, program, Fixed
<1>2. (AllMapped' <=> AllMapped) /\ (Raising' <=> Raising)
  BY <1>1, AllMappedRigid
<1>3. \A n : Handled(n) => Handled(n)'
  BY <1>1 DEF Handled
<1>. SUFFICES ASSUME ~Raising, AllMapped PROVE DirectOK'
  BY <1>2 DEF DirectOK
<1>4. \A y \in Fixed : Home(y) \in DOMAIN code
  BY Apart, ProgramAssumption DEF TInv, ModuleOK, Home, Fixed
<1>5. /\ DOMAIN code' = DOMAIN code
      /\ \A w \in DOMAIN code :
           /\ code'[w].flush = code[w].flush /\ code'[w].fence = code[w].fence
           /\ \A x \in Call : code'[w].calls[x] \in {code[w].calls[x], Patched(code[w].calls[x])}
  BY EndApplyEffect DEF TInv
<1>6. \A y \in Fixed : Marked(y, fixMap[y].type)'
  BY <1>1, <1>4, <1>5 DEF DirectOK, Marked
<1>7. \A v \in DOMAIN code' : \A c \in Call : code'[v].calls[c] \in {Names(c), Patched(Names(c))}
  BY <1>1, <1>5 DEF DirectOK
<1>. QED BY <1>1, <1>2, <1>3, <1>6, <1>7 DEF DirectOK

LEMMA StepDirect ==
    ASSUME Inv, TInv, DirectOK, [Next]_vars
    PROVE  DirectOK'
<1>0. UNCHANGED program
  BY DEF Next, Finished, vars, program, AddPrimitive, AddIndirect, ComputeFails, EndCompute, EndRaise, Raise,
         PassOver, RaiseFails, ApplyPrimitive, ApplySubProgram, GeneratorFails, CloneFrame, ReplaceExternal,
         FrameFails, EndSubProgram, FenceFails, EndApply, Abort
<1>1. (AllMapped' <=> AllMapped) /\ (Raising' <=> Raising)
  BY <1>0, AllMappedRigid
<1>. SUFFICES ASSUME ~Raising, AllMapped PROVE DirectOK'
  BY <1>1 DEF DirectOK
<1>2. /\ \A s \in Fixed : fixMap[s].type \in Primitive /\ s \in Store
      /\ phase \notin {"raise", "subprogram"}
  BY OnlyPrimitives
<1>3. CASE AddPrimitive \/ EndCompute \/ EndApply
  BY <1>3, AddPrimitiveDirect, EndComputeDirect, EndApplyDirect
<1>4. CASE \E s \in todo : ApplyPrimitive(s)
  BY <1>4, ApplyPrimitiveDirect
<1>5. CASE AddIndirect
  <2>1. nextOp \in DOMAIN ops
    BY <1>5, StackAssumption DEF AddIndirect, Computing, Inv, RequestsOK, TInv, ProgramOK
  <2>. QED BY <1>5, <2>1 DEF AddIndirect, ThisOp, AllMapped
<1>6. CASE \E s \in todo : Raise(s) \/ PassOver(s) \/ RaiseFails(s) \/ ApplySubProgram(s) \/ GeneratorFails(s)
  BY <1>2, <1>6, Apart DEF Raise, PassOver, RaiseFails, ApplySubProgram, GeneratorFails, TInv, LoopOK, Abort, DirectOK
<1>7. CASE EndRaise \/ CloneFrame \/ ReplaceExternal \/ EndSubProgram
  BY <1>2, <1>7 DEF EndRaise, CloneFrame, ReplaceExternal, EndSubProgram, InLoop
<1>8. CASE ComputeFails \/ FrameFails \/ FenceFails
  BY <1>8 DEF ComputeFails, FrameFails, FenceFails, Abort, DirectOK
<1>9. CASE UNCHANGED vars
  <2>1. ops' = ops /\ fixMap' = fixMap /\ code' = code /\ phase' = phase /\ todo' = todo /\ nextOp' = nextOp
        /\ Fixed' = Fixed
    BY <1>9 DEF vars, Fixed
  <2>2. \A n : Handled(n)' <=> Handled(n)
    BY <2>1 DEF Handled
  <2>3. \A s : Marked(s, fixMap[s].type)' <=> Marked(s, fixMap[s].type)
    BY <2>1 DEF Marked
  <2>. QED BY <1>1, <2>1, <2>2, <2>3 DEF DirectOK
<1>. QED BY <1>3, <1>4, <1>5, <1>6, <1>7, <1>8, <1>9 DEF Next, Finished

\* The path of a stack that was not re-pointed ends in the original of the
\* function of its store.
LEMMA PathEndsHome ==
    ASSUME ModuleOK, NEW st, IsCallStack(st), st[1] \in Mapped,
           \A v \in DOMAIN code : \A c \in Call : code[v].calls[c] \in {Names(c), Patched(Names(c))}
    PROVE  1 \in DOMAIN Path(st) /\ Path(st)[1] = Home(st[1])
<1>0. Len(st) \in Nat /\ Len(st) >= 1
  BY DEF IsCallStack, IsStack
<1>1. IsPath(Path(st), st)
  BY PathIsPath
<1>2. 1 \in DOMAIN Path(st)
  BY <1>0, <1>1 DEF IsPath
<1>3. CASE Len(st) = 1
  BY <1>1, <1>3 DEF IsPath, Home
<1>4. CASE Len(st) # 1
  <2>1. PICK p : p = Path(st)
    OBVIOUS
  <2>2. 1 \in 1 .. Len(st) - 1 /\ 2 \in 2 .. Len(st) /\ 2 \in 1 .. Len(st) /\ 1 + 1 = 2 /\ 2 - 1 = 1
    BY <1>0, <1>4
  <2>3. p[1] = Reached(st, 1, p[2]) /\ p[2] \in DOMAIN code
    BY <1>1, <2>1, <2>2 DEF IsPath
  <2>4. st[2] \in Call /\ CalleeOf[st[2]] \in {FnOf[st[1]], Indirect} /\ st[1] \in Site
    BY <2>2, Apart DEF IsCallStack, IsStack
  <2>5. code[p[2]].calls[st[2]] \in {Names(st[2]), Patched(Names(st[2]))}
    BY <2>3, <2>4
  <2>6. FnOf[st[1]] \in Fn /\ FnOf[st[1]] \notin External
    BY <2>4, ProgramAssumption DEF Mapped
  <2>7. CASE CalleeOf[st[2]] = Indirect
    <3>1. Names(st[2]) = Indirect /\ Patched(Indirect) = Indirect
      <4>1. Patchable \X {0} \subseteq Fn \X Nat
        BY ProgramAssumption
      <4>2. Indirect \notin Patchable \X {0}
        BY <4>1, ProgramAssumption
      <4>. QED BY <2>7, <4>2 DEF Names, Patched
    <3>. QED BY <2>1, <2>2, <2>3, <2>5, <3>1, <1>2 DEF Reached, Home
  <2>8. CASE CalleeOf[st[2]] # Indirect
    <3>1. Names(st[2]) = Home(st[1])
      BY <2>4, <2>8 DEF Names, Home
    <3>2. Patched(Home(st[1])) = Home(st[1])
      BY <2>6, ProgramAssumption DEF Patched, Home
    <3>3. Home(st[1]) # Indirect
      BY <2>6, VersionIsReal DEF Home, Version
    <3>4. code[p[2]].calls[st[2]] = Home(st[1])
      BY <2>5, <3>1, <3>2
    <3>5. p[1] = Home(st[1])
      BY <2>2, <2>3, <3>3, <3>4 DEF Reached
    <3>. QED BY <1>2, <2>1, <3>5
  <2>. QED BY <2>7, <2>8
<1>. QED BY <1>3, <1>4

LEMMA DirectRepairs == Inv /\ TInv /\ DirectOK => RepairsDirectly
<1>. SUFFICES ASSUME Inv, TInv, DirectOK, phase = "done", ~Raising, AllMapped, NEW n \in DOMAIN ops
              PROVE  IsRepaired(ops[n])
  BY DEF RepairsDirectly, AllMapped
<1>. DEFINE st == ops[n].stack
<1>1. IsCallStack(st)
  BY StackAssumption DEF Inv, RequestsOK, TInv, ProgramOK, IsCallStack
<1>2. \A v \in DOMAIN code : \A c \in Call : code[v].calls[c] \in {Names(c), Patched(Names(c))}
  BY DEF DirectOK
<1>3. 1 \in DOMAIN Path(st) /\ Path(st)[1] = Home(st[1])
  BY <1>1, <1>2, PathEndsHome DEF TInv, AllMapped
<1>4. Handled(n) /\ Marked(st[1], fixMap[st[1]].type)
  BY DEF DirectOK, Handled
<1>5. /\ AddsFlush(ops[n].type) => st[1] \in code[Home(st[1])].flush
      /\ AddsFence(ops[n].type) => st[1] \in code[Home(st[1])].fence
  BY <1>4 DEF Handled, Marked, Covers
<1>. QED BY <1>3, <1>5 DEF IsRepaired

\* Without raising every report on a store with a location is repaired, on the
\* path its whole stack takes through the module that comes out.
THEOREM DirectRepairsAll == Spec => []RepairsDirectly
<1>1. Init => Inv /\ TInv /\ DirectOK
  BY InitInv, InitTInv, InitDirect
<1>2. Inv /\ TInv /\ DirectOK /\ [Next]_vars => Inv' /\ TInv' /\ DirectOK'
  BY Step, StepT, StepDirect
<1>. QED BY <1>1, <1>2, DirectRepairs, PTL DEF Spec

-----------------------------------------------------------------------------
(* What is repaired stays repaired.                                        *)

PathLaw == \A st : ModuleOK /\ IsCallStack(st) => IsPath(Path(st), st)

\* Path gives a path for every stack of calls, before and after a step.
LEMMA PathLawHolds == PathLaw
BY PathIsPath DEF PathLaw

LEMMA PathLawNext == PathLaw'
BY PathLawHolds, PTL

\* S relates versions before a step to versions after it that take their place:
\* they have the flushes and fences of the former, and call what takes the
\* place of what the former call.
Instead(S, v, w) ==
    /\ code[v].flush \subseteq code'[w].flush
    /\ code[v].fence \subseteq code'[w].fence
    /\ \A c \in Call :
          IF CalleeOf[c] = Indirect THEN code[v].calls[c] = Indirect /\ code'[w].calls[c] = Indirect
          ELSE <<code[v].calls[c], code'[w].calls[c]>> \in S
Replaces(S) ==
    /\ \A f \in Fn : << <<f, 0>>, <<f, 0>> >> \in S
    /\ \A v \in DOMAIN code, w \in DOMAIN code' : <<v, w>> \in S => Instead(S, v, w)

\* Then each version on the path of a stack has what takes its place there.
LEMMA PathFollows ==
    ASSUME ModuleOK, ModuleOK', NEW S, Replaces(S), NEW st, IsCallStack(st)
    PROVE  /\ IsPath(Path(st), st) /\ IsPath(Path(st), st)'
           /\ \A k \in 1 .. Len(st) : <<Path(st)[k], Path(st)'[k]>> \in S
<1>. DEFINE L == Len(st)
            p == Path(st)
            D == {n \in Nat : n <= L - 1 => <<p[L - n], p'[L - n]>> \in S}
<1>1. IsPath(p, st)
  BY PathIsPath
<1>2. IsPath(p, st)'
  BY PathLawNext DEF PathLaw, IsCallStack, IsStack
<1>3. L \in Nat /\ L >= 1 /\ st[L] \in Site
  <2>1. st \in Seq(Site) /\ Len(st) >= 1
    BY DEF IsCallStack, IsStack
  <2>. QED BY <2>1
<1>. HIDE DEF p
<1>4. 0 \in D
  <2>1. p[L] = <<FnOf[st[L]], 0>> /\ p'[L] = <<FnOf[st[L]], 0>> /\ FnOf[st[L]] \in Fn
    BY <1>1, <1>2, <1>3, ProgramAssumption DEF IsPath
  <2>2. <<p[L], p'[L]>> \in S
    BY <2>1 DEF Replaces
  <2>. QED BY <1>3, <2>2
<1>5. ASSUME NEW n \in Nat, n \in D
      PROVE  n + 1 \in D
  <2>. SUFFICES ASSUME n + 1 <= L - 1
                PROVE  <<p[L - (n + 1)], p'[L - (n + 1)]>> \in S
    OBVIOUS
  <2>1. PICK k : k = L - (n + 1)
    OBVIOUS
  <2>2. k \in 1 .. L - 1 /\ k + 1 = L - n /\ k + 1 \in 2 .. L /\ k + 1 \in 1 .. L /\ (k + 1) - 1 = k
    BY <1>3, <2>1
  <2>3. /\ p[k] = Reached(st, k, p[k + 1]) /\ p[k + 1] \in DOMAIN code
        /\ p'[k] = Reached(st, k, p[k + 1])' /\ p'[k + 1] \in DOMAIN code'
    BY <1>1, <1>2, <2>2 DEF IsPath
  <2>4. <<p[k + 1], p'[k + 1]>> \in S
    BY <1>3, <1>5, <2>2
  <2>5. Instead(S, p[k + 1], p'[k + 1])
    BY <2>3, <2>4 DEF Replaces
  <2>6. st[k + 1] \in Call /\ CalleeOf[st[k + 1]] \in {FnOf[st[k]], Indirect} /\ st[k] \in Site
    <3>1. st[k + 1] \in Call
      BY <2>2 DEF IsCallStack, IsStack
    <3>2. CalleeOf[st[k + 1]] \in {FnOf[st[k]], Indirect}
      BY <2>2 DEF IsCallStack
    <3>3. st \in Seq(Site) /\ k \in 1 .. Len(st)
      BY <1>3, <2>2 DEF IsCallStack, IsStack
    <3>. QED BY <3>1, <3>2, <3>3
  <2>7. CASE CalleeOf[st[k + 1]] = Indirect
    <3>1. p[k] = <<FnOf[st[k]], 0>> /\ p'[k] = <<FnOf[st[k]], 0>>
      BY <2>3, <2>5, <2>6, <2>7 DEF Instead, Reached
    <3>2. FnOf[st[k]] \in Fn
      BY <2>6, ProgramAssumption
    <3>. QED BY <2>1, <3>1, <3>2 DEF Replaces
  <2>8. CASE CalleeOf[st[k + 1]] # Indirect
    <3>1. /\ code[p[k + 1]].calls[st[k + 1]] \in DOMAIN code
          /\ code'[p'[k + 1]].calls[st[k + 1]] \in DOMAIN code'
      BY <2>3, <2>6, <2>8 DEF ModuleOK
    <3>2. /\ code[p[k + 1]].calls[st[k + 1]] # Indirect
          /\ code'[p'[k + 1]].calls[st[k + 1]] # Indirect
      BY <3>1, VersionIsReal DEF ModuleOK
    <3>3. /\ p[k] = code[p[k + 1]].calls[st[k + 1]]
          /\ p'[k] = code'[p'[k + 1]].calls[st[k + 1]]
      BY <2>3, <3>2 DEF Reached
    <3>. QED BY <2>1, <2>5, <2>6, <2>8, <3>3 DEF Instead
  <2>. QED BY <2>7, <2>8
<1>6. Nat \subseteq D
  <2>. HIDE DEF D
  <2>. QED BY <1>4, <1>5, SetInduction
<1>7. ASSUME NEW k \in 1 .. L
      PROVE  <<p[k], p'[k]>> \in S
  <2>1. L - k \in Nat /\ L - k <= L - 1 /\ L - (L - k) = k
    BY <1>3
  <2>2. L - k \in D
    BY <1>6, <2>1
  <2>. QED BY <2>1, <2>2
<1>. QED BY <1>1, <1>2, <1>7 DEF p

\* So what is repaired on its stack stays so.
Served(type, st) ==
    /\ AddsFlush(type) => st[1] \in code[Path(st)[1]].flush
    /\ AddsFence(type) => \E k \in DOMAIN Path(st) : st[k] \in code[Path(st)[k]].fence

\* While versions only take the place of others, a served stack stays served.
LEMMA StaysServed ==
    ASSUME ModuleOK, ModuleOK', NEW S, Replaces(S), NEW st, IsCallStack(st), NEW type, Served(type, st)
    PROVE  Served(type, st)'
<1>. DEFINE p == Path(st)
<1>1. Len(st) \in Nat /\ 1 \in 1 .. Len(st)
  <2>1. st \in Seq(Site) /\ Len(st) >= 1
    BY DEF IsCallStack, IsStack
  <2>. QED BY <2>1
<1>2. /\ DOMAIN p = 1 .. Len(st) /\ DOMAIN p' = 1 .. Len(st)
      /\ \A k \in 1 .. Len(st) : /\ p[k] \in DOMAIN code /\ p'[k] \in DOMAIN code'
                                 /\ <<p[k], p'[k]>> \in S
  BY PathFollows DEF IsPath
<1>3. \A k \in 1 .. Len(st) : /\ code[p[k]].flush \subseteq code'[p'[k]].flush
                              /\ code[p[k]].fence \subseteq code'[p'[k]].fence
  BY <1>2 DEF Replaces, Instead
<1>. HIDE DEF p
<1>4. /\ AddsFlush(type) => st[1] \in code[p[1]].flush
      /\ AddsFence(type) => \E k \in DOMAIN p : st[k] \in code[p[k]].fence
  BY DEF Served, p
<1>5. /\ AddsFlush(type) => st[1] \in code'[p'[1]].flush
      /\ AddsFence(type) => \E k \in DOMAIN p' : st[k] \in code'[p'[k]].fence
  BY <1>1, <1>2, <1>3, <1>4
<1>. QED BY <1>5 DEF Served, p, AddsFlush, AddsFence

-----------------------------------------------------------------------------
(* No step opens a report.                                                 *)

\* The bodies: flushes follow the stores of a function, in a clone all of them;
\* those with a PMFIXER_ version are as linked until patchMemoryPrimitives.
BodyOK ==
    /\ \A v \in DOMAIN code : /\ code[v].flush \subseteq StoresOf(v[1])
                              /\ v[2] > 0 => code[v].flush = StoresOf(v[1])
    /\ phase # "done" =>
          \A f \in Replaceable : /\ \A c \in Call : /\ code[<<f, 0>>].calls[c] = Names(c)
                                                    /\ code[<<f, 1>>].calls[c] = Names(c)
                                 /\ code[<<f, 0>>].fence = {}
    /\ retInst \in Mapped \cup {NoSite}

\* The module as linked has no flush, and no call of an external function is re-pointed.
LEMMA InitBody == Init => BodyOK
<1>. SUFFICES ASSUME Init PROVE BodyOK
  OBVIOUS
<1>1. code = Linked /\ retInst = NoSite
  BY DEF Init
<1>2. ASSUME NEW v \in DOMAIN code
      PROVE  /\ v[1] \in Fn /\ v[2] \in {0, 1}
             /\ v[2] = 0 => code[v] = Original(v[1])
             /\ v[2] # 0 => code[v].flush = StoresOf(v[1])
  <2>1. v \in (Fn \X {0}) \cup (Replaceable \X {1})
    BY <1>1 DEF Linked
  <2>2. v[1] \in Fn /\ v[2] \in {0, 1}
    BY <2>1, ProgramAssumption
  <2>3. code[v] = IF v[2] = 0 THEN Original(v[1])
                  ELSE [Original(v[1]) EXCEPT !.libc = <<v[1], 0>>, !.flush = StoresOf(v[1])]
    BY <1>1, <2>1 DEF Linked
  <2>4. Original(v[1]) \in Body
    BY <2>2, OriginalBody
  <2>. QED BY <2>2, <2>3, <2>4 DEF Body
<1>3. ASSUME NEW v \in DOMAIN code
      PROVE  /\ code[v].flush \subseteq StoresOf(v[1])
             /\ v[2] > 0 => code[v].flush = StoresOf(v[1])
  <2>1. v[2] = 0 => code[v].flush = {}
    BY <1>2, OriginalBody
  <2>2. v[2] > 0 => v[2] # 0
    BY <1>2
  <2>. QED BY <1>2, <2>1, <2>2
<1>4. ASSUME NEW f \in Replaceable
      PROVE  /\ \A c \in Call : code[<<f, 0>>].calls[c] = Names(c) /\ code[<<f, 1>>].calls[c] = Names(c)
             /\ code[<<f, 0>>].fence = {}
  <2>1. f \in Fn /\ <<f, 0>> \in DOMAIN code /\ <<f, 1>> \in DOMAIN code
    BY <1>1, ProgramAssumption DEF Linked
  <2>2. code[<<f, 0>>] = Original(f)
    BY <1>2, <2>1
  <2>. QED BY <1>1, <2>1, <2>2, OriginalBody, LinkedNames
<1>. QED BY <1>1, <1>3, <1>4 DEF BodyOK

\* A step that leaves calls, and adds flushes and fences of stores that have
\* locations.
LEMMA MarkingBody ==
    ASSUME ModuleOK, BodyOK, phase # "done", retInst' \in Mapped \cup {NoSite}, DOMAIN code' = DOMAIN code,
           NEW s, s \in Mapped,
           \A w \in DOMAIN code :
              /\ code'[w].calls = code[w].calls
              /\ w # Home(s) => code'[w].flush = code[w].flush /\ code'[w].fence = code[w].fence
              /\ code[w].flush \subseteq code'[w].flush
              /\ code'[w].flush = code[w].flush \/ (s \in Store /\ code'[w].flush \subseteq code[w].flush \cup {s})
    PROVE  BodyOK'
<1>1. FnOf[s] \notin External
  BY DEF Mapped
<1>2. \A f \in Replaceable : <<f, 0>> # Home(s) /\ <<f, 0>> \in DOMAIN code /\ <<f, 1>> \in DOMAIN code
  BY <1>1, ProgramAssumption DEF Home, ModuleOK
<1>3. ASSUME NEW v \in DOMAIN code
      PROVE  /\ code'[v].flush \subseteq StoresOf(v[1])
             /\ v[2] > 0 => code'[v].flush = StoresOf(v[1])
  <2>1. CASE v # Home(s) \/ code'[v].flush = code[v].flush
    BY <2>1 DEF BodyOK
  <2>2. CASE v = Home(s) /\ s \in Store /\ code'[v].flush \subseteq code[v].flush \cup {s}
    <3>1. v[1] = FnOf[s] /\ v[2] = 0 /\ s \in StoresOf(v[1])
      BY <2>2 DEF Home, StoresOf
    <3>. QED BY <2>2, <3>1 DEF BodyOK
  <2>. QED BY <2>1, <2>2
<1>. QED BY <1>2, <1>3 DEF BodyOK

\* Every step keeps what is known of the bodies.
LEMMA StepBody ==
    ASSUME Inv, TInv, LeftOK, BodyOK, [Next]_vars
    PROVE  BodyOK'
<1>0. ModuleOK /\ ProgramOK /\ RequestsOK /\ MapOK /\ PlacesOK /\ LoopOK
  BY DEF Inv, TInv
<1>1. CASE UNCHANGED <<code, retInst>> /\ (phase = "done" => phase' = "done")
  BY <1>1 DEF BodyOK
<1>2. ASSUME NEW s \in todo, ApplyPrimitive(s)
      PROVE  BodyOK'
  <2>1. s \in Fixed /\ fixMap[s].type \in Primitive /\ s \in Store
    BY <1>0, <1>2 DEF LoopOK, Fixed, MapOK, HasPlace, ApplyPrimitive, Primitive
  <2>2. s \in Mapped /\ UNCHANGED retInst /\ phase = "apply"
    BY <1>2, <2>1 DEF LeftOK, ApplyPrimitive, subprogram
  <2>3. retInst' \in Mapped \cup {NoSite}
    BY <2>2 DEF BodyOK
  <2>. QED BY <1>0, <1>2, <2>1, <2>2, <2>3, PrimitiveEffect, MarkingBody
<1>3. CASE EndSubProgram
  <2>0. PICK r : r = retInst
    OBVIOUS
  <2>1. r \in Call \cup {NoSite} /\ r \in Mapped \cup {NoSite} /\ retInst' = NoSite /\ phase = "subprogram"
    BY <1>0, <1>3, <2>0 DEF LoopOK, BodyOK, EndSubProgram
  <2>2. /\ DOMAIN code' = DOMAIN code
        /\ \A w \in DOMAIN code :
             /\ code'[w].calls = code[w].calls /\ code'[w].flush = code[w].flush
             /\ w # Home(r) => code'[w].fence = code[w].fence
    BY <1>0, <1>3, <2>0, <2>1, EndSubProgramEffect
  <2>3. CASE r \in Mapped
    BY <1>0, <2>1, <2>2, <2>3, MarkingBody
  <2>4. CASE r = NoSite
    <3>1. UNCHANGED code
      BY <1>3, <2>0, <2>4 DEF EndSubProgram
    <3>. QED BY <2>1, <3>1 DEF BodyOK
  <2>. QED BY <2>1, <2>3, <2>4
<1>4. CASE CloneFrame
  <2>0. phase = "subprogram" /\ phase' = phase
    BY <1>4 DEF CloneFrame, InLoop
  <2>1. PICK at, c, v : Cloned(at, c, v)
    BY <1>0, <1>4, CloneEffect
  <2>2. FnOf[at] \notin External /\ FnOf[c] \notin External /\ retInst' \in Mapped \cup {NoSite}
    BY <2>1 DEF Cloned, Mapped, BodyOK
  <2>3. \A w \in DOMAIN code' : /\ code'[w].flush \subseteq StoresOf(w[1])
                                /\ w[2] > 0 => code'[w].flush = StoresOf(w[1])
    BY <2>1 DEF Cloned, BodyOK
  <2>4. ASSUME NEW f \in Replaceable
        PROVE  /\ \A x \in Call : code'[<<f, 0>>].calls[x] = Names(x) /\ code'[<<f, 1>>].calls[x] = Names(x)
               /\ code'[<<f, 0>>].fence = {}
    <3>1. <<f, 0>> \in DOMAIN code /\ <<f, 1>> \in DOMAIN code /\ <<f, 0>> # Home(c) /\ <<f, 1>> # Home(c)
      BY <1>0, <2>2, ProgramAssumption DEF ModuleOK, Home
    <3>2. /\ \A x \in Call : code[<<f, 0>>].calls[x] = Names(x) /\ code[<<f, 1>>].calls[x] = Names(x)
          /\ code[<<f, 0>>].fence = {}
      BY <2>0 DEF BodyOK
    <3>. QED BY <2>1, <3>1, <3>2 DEF Cloned
  <2>. QED BY <2>2, <2>3, <2>4 DEF BodyOK
<1>5. CASE ReplaceExternal
  <2>0. phase = "subprogram" /\ phase' = phase
    BY <1>5 DEF ReplaceExternal, InLoop
  <2>1. PICK at, c, v : Replaced(at, c, v)
    BY <1>0, <1>5, ReplaceEffect
  <2>2. FnOf[c] \notin External /\ retInst' \in Mapped \cup {NoSite}
    BY <2>1 DEF Replaced, Mapped, BodyOK
  <2>3. \A w \in DOMAIN code' : /\ code'[w].flush \subseteq StoresOf(w[1])
                                /\ w[2] > 0 => code'[w].flush = StoresOf(w[1])
    BY <2>1 DEF Replaced, BodyOK
  <2>4. ASSUME NEW f \in Replaceable
        PROVE  /\ \A x \in Call : code'[<<f, 0>>].calls[x] = Names(x) /\ code'[<<f, 1>>].calls[x] = Names(x)
               /\ code'[<<f, 0>>].fence = {}
    <3>1. <<f, 0>> \in DOMAIN code /\ <<f, 1>> \in DOMAIN code /\ <<f, 0>> # Home(c) /\ <<f, 1>> # Home(c)
      BY <1>0, <2>2, ProgramAssumption DEF ModuleOK, Home
    <3>2. /\ \A x \in Call : code[<<f, 0>>].calls[x] = Names(x) /\ code[<<f, 1>>].calls[x] = Names(x)
          /\ code[<<f, 0>>].fence = {}
      BY <2>0 DEF BodyOK
    <3>. QED BY <2>1, <3>1, <3>2 DEF Replaced
  <2>. QED BY <2>2, <2>3, <2>4 DEF BodyOK
<1>6. CASE EndApply
  <2>1. phase' = "done" /\ UNCHANGED retInst
    BY <1>6 DEF EndApply, subprogram
  <2>2. DOMAIN code' = DOMAIN code /\ \A w \in DOMAIN code : code'[w].flush = code[w].flush
    BY <1>0, <1>6, EndApplyEffect
  <2>. QED BY <2>1, <2>2 DEF BodyOK
<1>7. CASE AddPrimitive \/ AddIndirect \/ ComputeFails \/ EndCompute \/ EndRaise \/ FrameFails \/ FenceFails
  BY <1>1, <1>7 DEF AddPrimitive, AddIndirect, ComputeFails, EndCompute, EndRaise, FrameFails, FenceFails, Abort,
                    subprogram, Computing, InLoop
<1>8. CASE \E s \in todo : Raise(s) \/ PassOver(s) \/ RaiseFails(s) \/ GeneratorFails(s)
  BY <1>1, <1>8 DEF Raise, PassOver, RaiseFails, GeneratorFails, Abort, subprogram
<1>9. CASE \E s \in todo : ApplySubProgram(s)
  <2>1. UNCHANGED code /\ retInst' = NoSite /\ phase = "apply"
    BY <1>9 DEF ApplySubProgram
  <2>. QED BY <2>1 DEF BodyOK
<1>10. CASE UNCHANGED vars
  BY <1>1, <1>10 DEF vars
<1>. QED BY <1>2, <1>3, <1>4, <1>5, <1>6, <1>7, <1>8, <1>9, <1>10 DEF Next, Finished

Same == {<<v, v>> : v \in DOMAIN code}

\* Steps that leave calls.
LEMMA MarkingReplaces ==
    ASSUME ModuleOK, DOMAIN code' = DOMAIN code,
           \A w \in DOMAIN code : /\ code'[w].calls = code[w].calls
                                  /\ code[w].flush \subseteq code'[w].flush
                                  /\ code[w].fence \subseteq code'[w].fence
    PROVE  Replaces(Same)
<1>1. \A f \in Fn : << <<f, 0>>, <<f, 0>> >> \in Same
  BY DEF ModuleOK, Same
<1>2. ASSUME NEW v \in DOMAIN code, NEW w \in DOMAIN code', <<v, w>> \in Same
      PROVE  Instead(Same, v, w)
  <2>1. v = w
    BY <1>2 DEF Same
  <2>2. ASSUME NEW c \in Call
        PROVE  IF CalleeOf[c] = Indirect THEN code[v].calls[c] = Indirect /\ code'[w].calls[c] = Indirect
               ELSE <<code[v].calls[c], code'[w].calls[c]>> \in Same
    BY <2>1 DEF ModuleOK, Same
  <2>. QED BY <2>1, <2>2 DEF Instead
<1>. QED BY <1>1, <1>2 DEF Replaces

\* A clone takes the place of its original.
LEMMA CloneReplaces ==
    ASSUME ModuleOK, BodyOK, NEW at, NEW c, NEW v, at = AtSite, c = NextSite, Cloned(at, c, v)
    PROVE  Replaces(Same \cup {<<Home(at), v>>})
<1>. DEFINE S == Same \cup {<<Home(at), v>>}
<1>0. FnOf[at] \in Fn /\ Home(at) \in DOMAIN code /\ Home(c) \in DOMAIN code
  <2>1. at \in Site /\ c \in Call
    BY DEF Cloned
  <2>2. FnOf[at] \in Fn /\ FnOf[c] \in Fn
    BY <2>1, CallsAreSites, ProgramAssumption
  <2>. QED BY <2>2 DEF ModuleOK, Home
<1>1. \A f \in Fn : << <<f, 0>>, <<f, 0>> >> \in S
  BY DEF ModuleOK, Same
<1>2. ASSUME NEW w \in DOMAIN code
      PROVE  Instead(S, w, w)
  <2>1. w \in DOMAIN code' /\ code'[w].flush = code[w].flush /\ code'[w].fence = code[w].fence
    BY DEF Cloned
  <2>2. ASSUME NEW x \in Call
        PROVE  IF CalleeOf[x] = Indirect THEN code[w].calls[x] = Indirect /\ code'[w].calls[x] = Indirect
               ELSE <<code[w].calls[x], code'[w].calls[x]>> \in S
    <3>1. code'[w].calls[x] = IF w = Home(c) /\ x = c /\ CallsOriginal THEN v ELSE code[w].calls[x]
      BY DEF Cloned
    <3>2. CASE w = Home(c) /\ x = c /\ CallsOriginal
      <4>1. CalleeOf[x] # Indirect
        BY <1>0, <3>2, ProgramAssumption DEF Cloned
      <4>2. code[w].calls[x] = Home(at)
        BY <3>2 DEF CallsOriginal, Home
      <4>. QED BY <3>1, <3>2, <4>1, <4>2
    <3>3. CASE ~(w = Home(c) /\ x = c /\ CallsOriginal)
      BY <3>1, <3>3 DEF ModuleOK, Same
    <3>. QED BY <3>2, <3>3
  <2>. QED BY <2>1, <2>2 DEF Instead
<1>3. Instead(S, Home(at), v)
  <2>1. /\ code[Home(at)].flush \subseteq code'[v].flush /\ code[Home(at)].fence = code'[v].fence
        /\ \A x \in Call : code'[v].calls[x] = code[Home(at)].calls[x]
    BY <1>0 DEF Cloned, BodyOK, Home
  <2>2. ASSUME NEW x \in Call
        PROVE  IF CalleeOf[x] = Indirect THEN code[Home(at)].calls[x] = Indirect /\ code'[v].calls[x] = Indirect
               ELSE <<code[Home(at)].calls[x], code'[v].calls[x]>> \in S
    BY <1>0, <2>1 DEF ModuleOK, Same
  <2>. QED BY <2>1, <2>2 DEF Instead
<1>4. \A w1 \in DOMAIN code, w2 \in DOMAIN code' : <<w1, w2>> \in S => w1 = w2 \/ (w1 = Home(at) /\ w2 = v)
  BY DEF Same
<1>. QED BY <1>1, <1>2, <1>3, <1>4 DEF Replaces

\* A PMFIXER_ function takes the place of the one it replaces.
Replacements == {<< <<f, 0>>, <<f, 1>> >> : f \in Replaceable}

\* patchMemoryPrimitives only puts PMFIXER_ functions in place of external ones.
LEMMA RepointingReplaces ==
    ASSUME ModuleOK, BodyOK, phase # "done", DOMAIN code' = DOMAIN code,
           \A w \in DOMAIN code :
              /\ code'[w].flush = code[w].flush /\ code'[w].fence = code[w].fence
              /\ \A x \in Call :
                    \/ code'[w].calls[x] = code[w].calls[x]
                    \/ CalleeOf[x] # Indirect /\ <<code[w].calls[x], code'[w].calls[x]>> \in Replacements
    PROVE  Replaces(Same \cup Replacements)
<1>. DEFINE S == Same \cup Replacements
<1>1. \A f \in Fn : << <<f, 0>>, <<f, 0>> >> \in S
  BY DEF ModuleOK, Same
<1>2. ASSUME NEW w \in DOMAIN code
      PROVE  Instead(S, w, w)
  BY DEF Instead, ModuleOK, Same
<1>3. ASSUME NEW f \in Replaceable
      PROVE  Instead(S, <<f, 0>>, <<f, 1>>)
  <2>0. PICK o, n : o = <<f, 0>> /\ n = <<f, 1>>
    OBVIOUS
  <2>1. f \in Fn /\ o \in DOMAIN code /\ n \in DOMAIN code
    BY <2>0, ProgramAssumption DEF ModuleOK
  <2>2. code[o].flush \subseteq code'[n].flush /\ code[o].fence \subseteq code'[n].fence
    BY <2>0, <2>1 DEF BodyOK
  <2>3. \A x \in Call : code[o].calls[x] = code[n].calls[x]
    BY <2>0 DEF BodyOK
  <2>4. ASSUME NEW x \in Call
        PROVE  IF CalleeOf[x] = Indirect THEN code[o].calls[x] = Indirect /\ code'[n].calls[x] = Indirect
               ELSE <<code[o].calls[x], code'[n].calls[x]>> \in S
    BY <2>1, <2>3 DEF ModuleOK, Same
  <2>. QED BY <2>0, <2>2, <2>4 DEF Instead
<1>4. \A w1, w2 : <<w1, w2>> \in S => w1 = w2 \/ \E f \in Replaceable : w1 = <<f, 0>> /\ w2 = <<f, 1>>
  BY DEF Same, Replacements
<1>. HIDE DEF S
<1>5. \A w1 \in DOMAIN code, w2 \in DOMAIN code' : <<w1, w2>> \in S => Instead(S, w1, w2)
  BY <1>2, <1>3, <1>4
<1>6. Replaces(S)
  BY <1>1, <1>5 DEF Replaces
<1>. QED BY <1>6 DEF S

\* Every step leaves versions that take the place of those before.
LEMMA StepReplaces ==
    ASSUME Inv, TInv, BodyOK, LeftOK, [Next]_vars
    PROVE  \E S : Replaces(S)
<1>0. ModuleOK /\ ProgramOK /\ RequestsOK /\ MapOK /\ PlacesOK /\ LoopOK
  BY DEF Inv, TInv
<1>1. CASE UNCHANGED code
  BY <1>0, <1>1, MarkingReplaces
<1>2. ASSUME NEW s \in todo, ApplyPrimitive(s)
      PROVE  \E S : Replaces(S)
  <2>1. s \in Store
    BY <1>0, <1>2 DEF LoopOK, Fixed, MapOK, HasPlace, ApplyPrimitive, Primitive
  <2>2. /\ DOMAIN code' = DOMAIN code
        /\ \A w \in DOMAIN code : /\ code'[w].calls = code[w].calls
                                  /\ code[w].flush \subseteq code'[w].flush
                                  /\ code[w].fence \subseteq code'[w].fence
    BY <1>0, <1>2, <2>1, PrimitiveEffect
  <2>. QED BY <1>0, <2>2, MarkingReplaces
<1>3. CASE EndSubProgram
  <2>1. retInst \in Call \cup {NoSite}
    BY <1>0 DEF LoopOK
  <2>2. /\ DOMAIN code' = DOMAIN code
        /\ \A w \in DOMAIN code : /\ code'[w].calls = code[w].calls
                                  /\ code[w].flush \subseteq code'[w].flush
                                  /\ code[w].fence \subseteq code'[w].fence
    <3>1. fixMap[cur].type = "PST" \/ fixMap[cur].type # "PST"
      OBVIOUS
    <3>. QED BY <1>0, <1>3, <2>1, <3>1, EndSubProgramEffect
  <2>. QED BY <1>0, <2>2, MarkingReplaces
<1>4. CASE CloneFrame
  BY <1>0, <1>4, CloneEffect, CloneReplaces
<1>5. CASE ReplaceExternal
  <2>1. PICK at, c, v : at = AtSite /\ c = NextSite /\ v = <<FnOf[at], 1>> /\ Replaced(at, c, v)
    BY <1>0, <1>5, ReplaceEffect
  <2>2. CallsOriginal => code[Home(c)].calls[c] = <<FnOf[at], 0>>
    BY <2>1 DEF CallsOriginal, Home
  <2>3. CalleeOf[c] # Indirect
    BY <2>1, ProgramAssumption DEF Replaced
  <2>4. << <<FnOf[at], 0>>, v>> \in Replacements
    BY <2>1 DEF Replaced, Replacements
  <2>5. phase # "done"
    BY <1>5 DEF ReplaceExternal, InLoop
  <2>6. /\ DOMAIN code' = DOMAIN code
        /\ \A w \in DOMAIN code :
              /\ code'[w].flush = code[w].flush /\ code'[w].fence = code[w].fence
              /\ \A x \in Call :
                    \/ code'[w].calls[x] = code[w].calls[x]
                    \/ CalleeOf[x] # Indirect /\ <<code[w].calls[x], code'[w].calls[x]>> \in Replacements
    BY <2>1, <2>2, <2>3, <2>4 DEF Replaced
  <2>. QED BY <1>0, <2>5, <2>6, RepointingReplaces
<1>6. CASE EndApply
  <2>1. phase # "done"
    BY <1>6 DEF EndApply
  <2>2. \A x : Patched(x) = x \/ <<x, Patched(x)>> \in Replacements
    BY ProgramAssumption DEF Patched, Replacements
  <2>3. /\ DOMAIN code' = DOMAIN code
        /\ \A w \in DOMAIN code :
              /\ code'[w].flush = code[w].flush /\ code'[w].fence = code[w].fence
              /\ \A x \in Call :
                    \/ code'[w].calls[x] = code[w].calls[x]
                    \/ CalleeOf[x] # Indirect /\ <<code[w].calls[x], code'[w].calls[x]>> \in Replacements
    <3>1. /\ DOMAIN code' = DOMAIN code
          /\ \A w \in DOMAIN code :
              /\ code'[w].flush = code[w].flush /\ code'[w].fence = code[w].fence
              /\ \A x \in Call : code'[w].calls[x] \in {code[w].calls[x], Patched(code[w].calls[x])}
              /\ \A x \in Call : CalleeOf[x] = Indirect => code'[w].calls[x] = Indirect
      BY <1>0, <1>6, EndApplyEffect
    <3>2. \A w \in DOMAIN code : \A x \in Call : CalleeOf[x] = Indirect => code[w].calls[x] = Indirect
      BY <1>0 DEF ModuleOK
    <3>. QED BY <2>2, <3>1, <3>2
  <2>. QED BY <1>0, <2>1, <2>3, RepointingReplaces
<1>7. CASE AddPrimitive \/ AddIndirect \/ ComputeFails \/ EndCompute \/ EndRaise \/ FrameFails \/ FenceFails
  BY <1>1, <1>7 DEF AddPrimitive, AddIndirect, ComputeFails, EndCompute, EndRaise, FrameFails, FenceFails, Abort
<1>8. CASE \E s \in todo : Raise(s) \/ PassOver(s) \/ RaiseFails(s) \/ GeneratorFails(s) \/ ApplySubProgram(s)
  BY <1>1, <1>8 DEF Raise, PassOver, RaiseFails, GeneratorFails, Abort, ApplySubProgram
<1>10. CASE UNCHANGED vars
  BY <1>1, <1>10 DEF vars
<1>. QED BY <1>2, <1>3, <1>4, <1>5, <1>6, <1>7, <1>8, <1>10 DEF Next, Finished

\* The requests are stacks of calls.
LEMMA StacksAreCallStacks ==
    ASSUME ProgramOK, RequestsOK, NEW n \in DOMAIN ops
    PROVE  IsCallStack(ops[n].stack) /\ ops[n].type \in Primitive
BY StackAssumption DEF ProgramOK, RequestsOK, IsCallStack, Op

\* The property's IsRepaired is Served, now and after a step.
LEMMA RepairedIsServed == \A op : IsRepaired(op) <=> Served(op.type, op.stack)
BY DEF IsRepaired, Served

RepairedIs == \A op : IsRepaired(op) <=> Served(op.type, op.stack)
LEMMA RepairedIsNext == RepairedIs'
<1>1. RepairedIs
  BY RepairedIsServed DEF RepairedIs
<1>. QED BY <1>1, PTL

\* What is repaired stays so, and while the module does not change what is not
\* stays so too.
LEMMA StaysRepaired ==
    ASSUME Inv, TInv, BodyOK, LeftOK, [Next]_vars, TInv', UNCHANGED ops, NEW n \in DOMAIN ops
    PROVE  /\ IsRepaired(ops[n]) => IsRepaired(ops[n])'
           /\ UNCHANGED code => (IsRepaired(ops[n]) <=> IsRepaired(ops[n])')
<1>0. PICK t, st : t = ops[n].type /\ st = ops[n].stack
  OBVIOUS
<1>1. ModuleOK /\ ModuleOK' /\ IsCallStack(st)
  BY <1>0, StacksAreCallStacks DEF TInv, Inv
<1>2. (IsRepaired(ops[n]) <=> Served(t, st)) /\ (IsRepaired(ops[n])' <=> Served(t, st)')
  <2>1. IsRepaired(ops[n]) <=> Served(t, st)
    BY <1>0, RepairedIsServed
  <2>2. IsRepaired(ops[n])' <=> Served(t, st)'
    BY <1>0, RepairedIsNext DEF RepairedIs
  <2>. QED BY <2>1, <2>2
<1>3. Served(t, st) => Served(t, st)'
  BY <1>1, StepReplaces, StaysServed
<1>4. ASSUME UNCHANGED code, Served(t, st)'
      PROVE  Served(t, st)
  <2>1. Replaces(Same)
    BY <1>1, <1>4, MarkingReplaces
  <2>2. /\ IsPath(Path(st), st) /\ IsPath(Path(st), st)'
        /\ \A k \in 1 .. Len(st) : <<Path(st)[k], Path(st)'[k]>> \in Same
    BY <1>1, <2>1, PathFollows
  <2>3. Len(st) \in Nat /\ 1 \in 1 .. Len(st)
    BY <1>1 DEF IsCallStack, IsStack
  <2>4. /\ DOMAIN Path(st) = 1 .. Len(st) /\ DOMAIN Path(st)' = 1 .. Len(st)
        /\ \A k \in 1 .. Len(st) : Path(st)[k] = Path(st)'[k]
    BY <2>2 DEF IsPath, Same
  <2>. QED BY <1>4, <2>3, <2>4 DEF Served, AddsFlush, AddsFence
<1>. QED BY <1>2, <1>3, <1>4

-----------------------------------------------------------------------------
(* When no requests are at odds.                                           *)

RaisedType(t) == IF t = "FLUSH_ONLY" THEN "PST_NOFENCE" ELSE "PST"

\* Requests that agree on what a store, or a place, is missing get just that.
OfStore(x, t) == \A n \in DOMAIN ops : ops[n].stack[1] = x => ops[n].type = t
OfPlace(x, t) == \A n \in DOMAIN ops : PlaceIdx(ops[n]) > 1 /\ Place(ops[n]) = x => ops[n].type = t
TypesAgree ==
    phase \in {"compute", "raise"} =>
        \A x \in Fixed : \A t \in Primitive :
            /\ fixMap[x].type \in Primitive /\ OfStore(x, t) => fixMap[x].type = t
            /\ fixMap[x].type \in PST /\ OfPlace(x, t) => fixMap[x].type = RaisedType(t)

HasLocation(n) == ops[n].stack[1] \in Mapped
Above(n) == /\ PlaceIdx(ops[n]) \in 2 .. Len(ops[n].stack)
            /\ Place(ops[n]) \in Fixed /\ Covers(fixMap[Place(ops[n])], ops[n])
Owns(n) == Above(n) /\ fixMap[Place(ops[n])].dynStack = ops[n].stack
Direct(n) == HasLocation(n) /\ Handled(n)

\* A request whose store has no location has the fix at its place; another has
\* a fix at its store, or one at its place, which is its own once the one at the
\* store is to be erased.
ServedOK ==
    /\ phase = "compute" =>
          \A n \in 1 .. nextOp - 1 : IF HasLocation(n) THEN Direct(n) ELSE Owns(n)
    /\ phase = "raise" =>
          \A n \in DOMAIN ops : LET s == ops[n].stack[1] IN
              IF HasLocation(n)
                 THEN /\ Direct(n)
                      /\ s \in moved => Owns(n)
                      /\ PlaceIdx(ops[n]) > 1 => s \in todo \/ Above(n)
                 ELSE Owns(n)
    /\ phase \in {"apply", "subprogram"} =>
          \A n \in DOMAIN ops : IF PlaceIdx(ops[n]) > 1 THEN Owns(n) \/ (Above(n) /\ Direct(n))
                                ELSE Direct(n)

\* The requests and their places do not change.
LEMMA RequestsRigid ==
    ASSUME UNCHANGED program
    PROVE  /\ ops' = ops
           /\ \A n : /\ PlaceIdx(ops[n])' = PlaceIdx(ops[n]) /\ Place(ops[n])' = Place(ops[n])
                     /\ HasLocation(n)' <=> HasLocation(n)
           /\ \A x, t : (OfStore(x, t)' <=> OfStore(x, t)) /\ (OfPlace(x, t)' <=> OfPlace(x, t))
<1>1. ops' = ops
  BY DEF program
<1>2. \A op : PlaceIdx(op)' = PlaceIdx(op) /\ Place(op)' = Place(op)
  BY PlacesRigid
<1>3. \A n : PlaceIdx(ops[n])' = PlaceIdx(ops[n]) /\ Place(ops[n])' = Place(ops[n])
  BY <1>1, <1>2
<1>. QED BY <1>1, <1>3 DEF HasLocation, OfStore, OfPlace

\* Requests for one store, or with one place, that are not at odds.
LEMMA SharedStore ==
    ASSUME NoneAtOdds, NEW m \in DOMAIN ops, NEW n \in DOMAIN ops, ops[m].stack[1] = ops[n].stack[1],
           HasLocation(m), PlaceIdx(ops[m]) > 1 \/ PlaceIdx(ops[n]) > 1
    PROVE  ops[m].stack = ops[n].stack
BY DEF NoneAtOdds, AtOdds, HasLocation

\* Two stacks with one place agree on what it lacks, and one could not be fixed lower.
LEMMA SharedPlace ==
    ASSUME NoneAtOdds, NEW m \in DOMAIN ops, NEW n \in DOMAIN ops, PlaceIdx(ops[m]) > 1,
           Place(ops[m]) = Place(ops[n]), ops[m].stack # ops[n].stack
    PROVE  ops[m].type = ops[n].type /\ (HasLocation(m) \/ HasLocation(n))
BY DEF NoneAtOdds, AtOdds, HasLocation

LEMMA OneType ==
    ASSUME NoneAtOdds, NEW m \in DOMAIN ops, NEW n \in DOMAIN ops,
           PlaceIdx(ops[m]) > 1, PlaceIdx(ops[n]) > 1,
           Place(ops[m]) = Place(ops[n]), ops[m].stack # ops[n].stack
    PROVE  OfPlace(Place(ops[m]), ops[m].type)
<1>. SUFFICES ASSUME NEW k \in DOMAIN ops, PlaceIdx(ops[k]) > 1, Place(ops[k]) = Place(ops[m])
              PROVE  ops[k].type = ops[m].type
  BY DEF OfPlace
<1>1. ops[m].type = ops[n].type
  BY SharedPlace
<1>2. CASE ops[k].stack # ops[m].stack
  BY <1>2, SharedPlace
<1>3. CASE ops[k].stack # ops[n].stack
  BY <1>1, <1>3, SharedPlace
<1>. QED BY <1>2, <1>3

\* What is put at the place of a raised fix.
PutThere(at, desc) ==
    /\ at \in Call /\ at \in Site /\ desc.type \in PST
    /\ \A y \in Site : y # at => fixMap'[y] = fixMap[y]
    /\ fixMap'[at] # NoFix /\ fixMap'[at].type \in PST /\ Covers(fixMap'[at], desc)
    /\ \/ fixMap'[at] = desc /\ IsAdded(fixMap[at], desc)
       \/ fixMap'[at] = fixMap[at] /\ at \in Fixed /\ fixMap[at].type \in PST /\ ~IsAdded(fixMap[at], desc)
    /\ \A y \in Fixed : y \in Fixed' /\ Covers(fixMap'[y], fixMap[y])

\* What addFixToMapping does of a PST fix: it is there, or one that covers it was.
LEMMA PutIsThere ==
    ASSUME MapOK, NEW at \in Call, NEW desc \in FixDesc, desc.type \in PST, HasPlace(at, desc),
           fixMap' = Put(at, desc)
    PROVE  PutThere(at, desc)
<1>1. at \in Site
  BY Apart
<1>2. \A y \in Site : fixMap[y] # NoFix => fixMap'[y] # NoFix /\ Covers(fixMap'[y], fixMap[y])
  BY <1>1, PutKeeps
<1>3. Covers(fixMap'[at], desc)
  BY <1>1, PutKeeps
<1>4. /\ \A y \in Site : y # at => fixMap'[y] = fixMap[y]
      /\ fixMap'[at] # NoFix /\ fixMap'[at].type \in PST
      /\ \/ fixMap'[at] = desc /\ IsAdded(fixMap[at], desc)
         \/ fixMap'[at] = fixMap[at] /\ at \in Fixed /\ fixMap[at].type \in PST
            /\ ~IsAdded(fixMap[at], desc)
  BY PutRaised
<1>. QED BY <1>1, <1>2, <1>3, <1>4 DEF PutThere, Fixed

\* Putting a fix of the type its requests want keeps the types in agreement.
LEMMA TypesAfterPut ==
    ASSUME TypesAgree, phase \in {"compute", "raise"}, UNCHANGED program, NEW at, NEW desc, PutThere(at, desc),
           \A t \in Primitive : OfPlace(at, t) => desc.type = RaisedType(t)
    PROVE  TypesAgree'
<1>. SUFFICES ASSUME NEW x \in Fixed', NEW t \in Primitive
              PROVE  /\ fixMap'[x].type \in Primitive /\ OfStore(x, t) => fixMap'[x].type = t
                     /\ fixMap'[x].type \in PST /\ OfPlace(x, t) => fixMap'[x].type = RaisedType(t)
  BY RequestsRigid DEF TypesAgree
<1>1. CASE x # at
  <2>1. x \in Fixed /\ fixMap'[x] = fixMap[x]
    BY <1>1 DEF PutThere, Fixed
  <2>. QED BY <2>1 DEF TypesAgree
<1>2. CASE x = at
  <2>1. fixMap'[x].type \notin Primitive
    BY <1>2, Apart DEF PutThere
  <2>2. fixMap'[at] = desc \/ (fixMap'[at] = fixMap[at] /\ at \in Fixed /\ fixMap[at].type \in PST)
    BY DEF PutThere
  <2>. QED BY <1>2, <2>1, <2>2 DEF TypesAgree
<1>. QED BY <1>1, <1>2

\* Coverage of a request, through the fixes that cover it.
LEMMA CoversTransitive ==
    \A x, y, z : Covers(x, y) /\ Covers(y, z) => Covers(x, z)
BY DEF Covers

\* The place of a fix above is not the place of the step, or it covers as much.
LEMMA AboveStays ==
    ASSUME UNCHANGED program, NEW n \in DOMAIN ops, Above(n),
           Place(ops[n]) \in Fixed', Covers(fixMap'[Place(ops[n])], fixMap[Place(ops[n])])
    PROVE  Above(n)'
<1>1. PlaceIdx(ops[n])' = PlaceIdx(ops[n]) /\ Place(ops[n])' = Place(ops[n]) /\ ops' = ops
  BY RequestsRigid
<1>2. PICK p : p = Place(ops[n])
  OBVIOUS
<1>3. Covers(fixMap'[p], ops[n])
  BY <1>2, CoversTransitive DEF Above
<1>. QED BY <1>1, <1>2, <1>3 DEF Above, Covers

\* The fix at a request's place serves it as long as it is not changed.
LEMMA OwnsStays ==
    ASSUME UNCHANGED program, NEW n \in DOMAIN ops, Owns(n), Place(ops[n]) \in Fixed',
           fixMap'[Place(ops[n])] = fixMap[Place(ops[n])]
    PROVE  Owns(n)'
<1>1. PlaceIdx(ops[n])' = PlaceIdx(ops[n]) /\ Place(ops[n])' = Place(ops[n]) /\ ops' = ops
  BY RequestsRigid
<1>. QED BY <1>1 DEF Owns, Above, Covers

\* So does the fix at its store.
LEMMA DirectStays ==
    ASSUME UNCHANGED program, NEW n \in DOMAIN ops, Direct(n), ops[n].stack[1] \in Fixed',
           fixMap'[ops[n].stack[1]] = fixMap[ops[n].stack[1]]
    PROVE  Direct(n)'
<1>1. ops' = ops
  BY DEF program
<1>. QED BY <1>1 DEF Direct, HasLocation, Handled, Covers

\* A fix added at a store serves its request, and takes nothing from others.
LEMMA AddPrimitiveServed ==
    ASSUME Inv, TInv, LeftOK, TypesAgree, ServedOK, AddPrimitive
    PROVE  TypesAgree' /\ ServedOK'
<1>. DEFINE s == ThisOp.stack[1]
<1>1. RequestsOK /\ MapOK /\ Computing /\ s \in Mapped /\ phase = "compute" /\ phase' = "compute"
      /\ UNCHANGED program /\ nextOp' = nextOp + 1 /\ nextOp \in DOMAIN ops /\ nextOp \in Nat
  BY DEF Inv, AddPrimitive, Computing, RequestsOK, TInv, LoopOK
<1>2. /\ LeafDesc \in FixDesc /\ HasPlace(s, LeafDesc) /\ s \in Site /\ s \in Store
      /\ LeafDesc.type = ThisOp.type /\ ThisOp.type \in Primitive /\ ThisOp = ops[nextOp]
  BY <1>1, LeafDescOK, Apart DEF HasPlace, IsStack, ThisOp
<1>3. fixMap' = Put(s, LeafDesc)
  BY DEF AddPrimitive
<1>4. HasLocation(nextOp) /\ s = ops[nextOp].stack[1] /\ LeafDesc.type = ops[nextOp].type
  BY <1>1, <1>2 DEF HasLocation
<1>. HIDE DEF s
<1>5. /\ \A y \in Site : y # s => fixMap'[y] = fixMap[y]
      /\ fixMap'[s] = Added(fixMap[s], LeafDesc)
  BY <1>1, <1>2, <1>3 DEF Put, MapOK
<1>6. /\ MapOK'
      /\ fixMap'[s] # NoFix /\ Covers(fixMap'[s], LeafDesc)
      /\ \A y \in Site : fixMap[y] # NoFix => fixMap'[y] # NoFix /\ Covers(fixMap'[y], fixMap[y])
  BY <1>1, <1>2, <1>3, PutKeeps
<1>7. Fixed \subseteq Fixed' /\ Fixed' \subseteq Fixed \cup {s} /\ s \in Fixed'
  BY <1>2, <1>5, <1>6 DEF Fixed
<1>8. TypesAgree'
  <2>. SUFFICES ASSUME NEW x \in Fixed', NEW t \in Primitive
                PROVE  /\ fixMap'[x].type \in Primitive /\ OfStore(x, t) => fixMap'[x].type = t
                       /\ fixMap'[x].type \in PST /\ OfPlace(x, t) => fixMap'[x].type = RaisedType(t)
    BY <1>1, RequestsRigid DEF TypesAgree
  <2>1. CASE x # s
    <3>1. x \in Fixed /\ fixMap'[x] = fixMap[x]
      BY <1>5, <1>7, <2>1 DEF Fixed
    <3>. QED BY <1>1, <3>1 DEF TypesAgree
  <2>2. CASE x = s
    <3>1. fixMap'[x].type \notin PST
      BY <1>2, <1>6, <2>2, Apart DEF MapOK, HasPlace
    <3>2. ASSUME OfStore(s, t)
          PROVE  fixMap'[s].type = t
      <4>1. LeafDesc.type = t
        BY <1>1, <1>4, <3>2 DEF OfStore
      <4>2. CASE fixMap[s] = NoFix
        BY <1>5, <4>1, <4>2 DEF Added
      <4>3. CASE fixMap[s] # NoFix
        <5>1. s \in Fixed /\ fixMap[s].type \in Primitive
          BY <1>1, <1>2, <4>3, Apart DEF Fixed, MapOK, HasPlace, FixDesc, FixType
        <5>2. fixMap[s].type = t
          BY <1>1, <3>2, <5>1 DEF TypesAgree
        <5>. QED BY <1>5, <4>1, <4>3, <5>2 DEF Added, Coalesce
      <4>. QED BY <4>2, <4>3
    <3>. QED BY <2>2, <3>1, <3>2
  <2>. QED BY <2>1, <2>2
<1>9. ASSUME NEW n \in 1 .. nextOp' - 1
      PROVE  IF HasLocation(n)' THEN Direct(n)' ELSE Owns(n)'
  <2>1. n \in DOMAIN ops /\ (n = nextOp \/ n \in 1 .. nextOp - 1)
    <3>1. DOMAIN ops = 1 .. Len(ops) /\ Len(ops) \in Nat
      BY StackAssumption DEF TInv, ProgramOK
    <3>2. nextOp' = nextOp + 1 /\ nextOp \in Nat /\ nextOp \in DOMAIN ops
      BY <1>1
    <3>. QED BY <1>9, <3>1, <3>2
  <2>2. n # nextOp => IF HasLocation(n) THEN Direct(n) ELSE Owns(n)
    BY <1>1, <2>1 DEF ServedOK
  <2>3. CASE HasLocation(n)
    <3>0. PICK x : x = ops[n].stack[1]
      OBVIOUS
    <3>1. n = nextOp \/ (x \in Fixed /\ Covers(fixMap[x], ops[n]))
      BY <2>2, <2>3, <3>0 DEF Direct, Handled
    <3>2. x \in Fixed' /\ Covers(fixMap'[x], ops[n])
      <4>1. CASE n = nextOp
        BY <1>4, <1>6, <1>7, <3>0, <4>1 DEF Covers
      <4>2. CASE n # nextOp
        BY <1>6, <1>7, <3>1, <4>2, CoversTransitive DEF Fixed
      <4>. QED BY <4>1, <4>2
    <3>3. ops' = ops
      BY <1>1 DEF program
    <3>. QED BY <2>3, <3>0, <3>2, <3>3 DEF Direct, Handled, HasLocation, Covers
  <2>4. CASE ~HasLocation(n)
    <3>1. n # nextOp /\ Owns(n)
      BY <1>4, <2>2, <2>4
    <3>2. Place(ops[n]) \in Fixed /\ Place(ops[n]) \in Site /\ PlaceIdx(ops[n]) > 1
      BY <3>1 DEF Owns, Above, Fixed
    <3>3. Place(ops[n]) # s
      <4>1. fixMap[Place(ops[n])].dynStack[1] \notin Mapped
        BY <2>4, <3>1 DEF Owns, HasLocation
      <4>2. s \in Mapped /\ (s \in Fixed => fixMap[s].type \in Primitive /\ fixMap[s].dynStack[1] = s)
        BY <1>1, <1>2, Apart DEF s, Fixed, MapOK, HasPlace, FixDesc, FixType
      <4>. QED BY <3>2, <4>1, <4>2
    <3>. QED BY <1>1, <1>5, <1>7, <2>1, <2>4, <3>1, <3>2, <3>3, OwnsStays, RequestsRigid
  <2>. QED BY <2>3, <2>4, <1>1, RequestsRigid
<1>. QED BY <1>1, <1>8, <1>9 DEF ServedOK

\* So does one added at a call, for a store that cannot be fixed where it is.
LEMMA AddIndirectServed ==
    ASSUME Inv, TInv, LeftOK, NoneAtOdds, TypesAgree, ServedOK, AddIndirect
    PROVE  TypesAgree' /\ ServedOK'
<1>0. /\ RequestsOK /\ MapOK /\ PlacesOK /\ ProgramOK /\ Computing /\ ThisOp.stack[1] \notin Mapped
      /\ phase = "compute" /\ phase' = "compute" /\ UNCHANGED program /\ moved = {}
      /\ nextOp' = nextOp + 1 /\ nextOp \in DOMAIN ops /\ nextOp \in Nat /\ ThisOp = ops[nextOp]
  BY DEF Inv, AddIndirect, Computing, RequestsOK, TInv, LoopOK, MovedOK, ThisOp
<1>1. PICK l \in DOMAIN ThisOp.stack :
        /\ IsLanding(ThisOp.stack, l)
        /\ fixMap' = Put(ThisOp.stack[l], Raised(LeafDesc, l))
  BY DEF AddIndirect
<1>2. /\ LeafDesc \in FixDesc /\ LeafDesc.dynStack = ThisOp.stack /\ IsStack(ThisOp.stack)
      /\ LeafDesc.type = ThisOp.type /\ ThisOp.type \in Primitive
  BY <1>0, LeafDescOK
<1>3. l \in 2 .. Len(ThisOp.stack)
  <2>1. ThisOp.stack[l] \in Mapped
    BY <1>1 DEF IsLanding, CanHold
  <2>. QED BY <1>0, <1>2, <2>1 DEF IsStack
<1>. DEFINE at == ThisOp.stack[l]
            desc == Raised(LeafDesc, l)
<1>4. /\ desc \in FixDesc /\ desc.type \in PST /\ HasPlace(at, desc) /\ at \in Call
      /\ desc.dynStack = ops[nextOp].stack /\ desc.type = RaisedType(ops[nextOp].type) /\ fixMap' = Put(at, desc)
      /\ Covers(desc, LeafDesc)
  BY <1>0, <1>1, <1>2, <1>3, RaisedOK DEF IsStack, Raised, RaisedType
<1>5. PlaceIdx(ops[nextOp]) = l /\ Place(ops[nextOp]) = at /\ l > 1 /\ ~HasLocation(nextOp)
  BY <1>0, <1>1, <1>2, <1>3, LandingIsPlace DEF HasLocation
<1>6. Covers(desc, ops[nextOp])
  BY <1>0, <1>2, <1>4 DEF Covers
<1>. HIDE DEF at, desc
<1>7. PutThere(at, desc)
  BY <1>0, <1>4, PutIsThere
<1>8. \A t \in Primitive : OfPlace(at, t) => desc.type = RaisedType(t)
  BY <1>0, <1>4, <1>5 DEF OfPlace
<1>9. TypesAgree'
  BY <1>0, <1>7, <1>8, TypesAfterPut
\* An entry that is there already is of a request without a location, as long as
\* nothing was raised: it is of this stack.
<1>10. ASSUME NEW n \in DOMAIN ops, ~HasLocation(n), PlaceIdx(ops[n]) > 1, Place(ops[n]) = at
       PROVE  ops[n].stack = ops[nextOp].stack
  BY <1>0, <1>5, <1>10, SharedPlace
<1>11. fixMap'[at].dynStack = ops[nextOp].stack
  <2>1. CASE fixMap'[at] = desc
    BY <1>4, <2>1
  <2>2. CASE fixMap'[at] = fixMap[at] /\ at \in Fixed /\ fixMap[at].type \in PST
    <3>1. PICK n \in DOMAIN ops : /\ fixMap[at].dynStack = ops[n].stack
                                  /\ PlaceIdx(ops[n]) \in 2 .. Len(ops[n].stack) /\ at = Place(ops[n])
      BY <1>0, <2>2 DEF PlacesOK, FromRequest, Fixed
    <3>2. ~HasLocation(n)
      BY <1>0, <2>2, <3>1 DEF LeftOK, HasLocation
    <3>. QED BY <1>10, <2>2, <3>1, <3>2
  <2>. QED BY <1>7, <2>1, <2>2 DEF PutThere
<1>12. at \in Fixed' /\ at \in Site /\ Covers(fixMap'[at], desc)
  BY <1>7 DEF PutThere, Fixed
<1>13. ASSUME NEW n \in 1 .. nextOp' - 1
       PROVE  IF HasLocation(n)' THEN Direct(n)' ELSE Owns(n)'
  <2>1. n \in DOMAIN ops /\ (n = nextOp \/ n \in 1 .. nextOp - 1)
    <3>1. DOMAIN ops = 1 .. Len(ops) /\ Len(ops) \in Nat
      BY <1>0, StackAssumption DEF ProgramOK
    <3>2. nextOp' = nextOp + 1 /\ nextOp \in Nat /\ nextOp \in DOMAIN ops
      BY <1>0
    <3>. QED BY <1>13, <3>1, <3>2
  <2>2. n # nextOp => IF HasLocation(n) THEN Direct(n) ELSE Owns(n)
    BY <1>0, <2>1 DEF ServedOK
  <2>3. CASE HasLocation(n)
    <3>1. Direct(n) /\ ops[n].stack[1] \in Store /\ ops[n].stack[1] \in Fixed
      BY <1>0, <1>5, <2>1, <2>2, <2>3 DEF Direct, Handled, RequestsOK, IsStack
    <3>2. ops[n].stack[1] # at /\ ops[n].stack[1] \in Site
      BY <1>4, <3>1, Apart
    <3>3. ops[n].stack[1] \in Fixed' /\ fixMap'[ops[n].stack[1]] = fixMap[ops[n].stack[1]]
      BY <1>7, <3>1, <3>2 DEF PutThere
    <3>. QED BY <1>0, <2>1, <2>3, <3>1, <3>3, DirectStays, RequestsRigid
  <2>4. CASE ~HasLocation(n) /\ Place(ops[n]) = at
    <3>1. /\ PlaceIdx(ops[n]) \in 2 .. Len(ops[n].stack)
          /\ n # nextOp => Covers(fixMap[at], ops[n]) /\ at \in Fixed
      BY <1>0, <1>3, <1>5, <2>2, <2>4 DEF Owns, Above
    <3>2. ops[n].stack = ops[nextOp].stack
      BY <1>10, <2>1, <2>4, <3>1
    <3>3. Covers(fixMap'[at], ops[n])
      <4>1. CASE n = nextOp
        BY <1>6, <1>12, <4>1, CoversTransitive
      <4>2. CASE n # nextOp
        BY <1>7, <3>1, <4>2, CoversTransitive DEF PutThere
      <4>. QED BY <4>1, <4>2
    <3>4. ops' = ops /\ PlaceIdx(ops[n])' = PlaceIdx(ops[n]) /\ Place(ops[n])' = Place(ops[n])
      BY <1>0, RequestsRigid
    <3>5. Owns(n)'
      BY <1>11, <1>12, <2>4, <3>1, <3>2, <3>3, <3>4 DEF Owns, Above, Covers
    <3>. QED BY <1>0, <2>4, <3>5, RequestsRigid
  <2>5. CASE ~HasLocation(n) /\ Place(ops[n]) # at
    <3>1. Owns(n) /\ Place(ops[n]) \in Fixed /\ Place(ops[n]) \in Site
      BY <1>5, <2>2, <2>5 DEF Owns, Above, Fixed
    <3>2. Place(ops[n]) \in Fixed' /\ fixMap'[Place(ops[n])] = fixMap[Place(ops[n])]
      BY <1>7, <2>5, <3>1 DEF PutThere
    <3>. QED BY <1>0, <2>1, <2>5, <3>1, <3>2, OwnsStays, RequestsRigid
  <2>. QED BY <2>3, <2>4, <2>5
<1>. QED BY <1>0, <1>9, <1>13 DEF ServedOK

\* When all requests have been added, each one is served by a fix.
LEMMA EndComputeServed ==
    ASSUME Inv, TInv, TypesAgree, ServedOK, EndCompute
    PROVE  TypesAgree' /\ ServedOK'
<1>1. /\ phase = "compute" /\ nextOp > Len(ops) /\ UNCHANGED program /\ UNCHANGED fixMap /\ UNCHANGED moved
      /\ \/ phase' = "raise" /\ todo' = PrimitiveFixes
         \/ ~Raising /\ phase' = "apply"
      /\ moved = {} /\ MapOK /\ RequestsOK
  BY DEF EndCompute, Inv, MovedOK
<1>2. Fixed' = Fixed
  BY <1>1 DEF Fixed
<1>3. ASSUME NEW n \in DOMAIN ops
      PROVE  IF HasLocation(n) THEN Direct(n) ELSE Owns(n)
  <2>1. DOMAIN ops = 1 .. Len(ops) /\ Len(ops) \in Nat
    BY StackAssumption DEF TInv, ProgramOK
  <2>2. nextOp \in Nat /\ nextOp > Len(ops)
    BY <1>1 DEF RequestsOK
  <2>3. n \in 1 .. nextOp - 1
    BY <2>1, <2>2
  <2>. QED BY <1>1, <2>3 DEF ServedOK
<1>4. TypesAgree'
  <2>1. \A x, t : (OfStore(x, t)' <=> OfStore(x, t)) /\ (OfPlace(x, t)' <=> OfPlace(x, t))
    BY <1>1, RequestsRigid
  <2>. QED BY <1>1, <1>2, <2>1 DEF TypesAgree
<1>5. \A n \in DOMAIN ops : Direct(n) => Direct(n)'
  BY <1>1, <1>2, DirectStays DEF Direct, Handled
<1>6. \A n \in DOMAIN ops : Owns(n) => Owns(n)'
  BY <1>1, <1>2, OwnsStays DEF Owns, Above
<1>7. ASSUME NEW n \in DOMAIN ops, phase' = "raise"
      PROVE  IF HasLocation(n) THEN Direct(n)' /\ ops[n].stack[1] \notin moved' /\ ops[n].stack[1] \in todo'
             ELSE Owns(n)'
  <2>1. CASE HasLocation(n)
    <3>1. Direct(n) /\ ops[n].stack[1] \in Fixed /\ ops[n].stack[1] \in Store
      BY <1>1, <1>3, <2>1 DEF Direct, Handled, RequestsOK, IsStack
    <3>2. ops[n].stack[1] \in PrimitiveFixes
      BY <1>1, <3>1, Apart DEF PrimitiveFixes, Fixed, MapOK, HasPlace, FixDesc, FixType
    <3>. QED BY <1>1, <1>5, <1>7, <2>1, <3>1, <3>2
  <2>. QED BY <1>3, <1>6, <2>1
<1>8. ASSUME NEW n \in DOMAIN ops, phase' = "apply"
      PROVE  IF PlaceIdx(ops[n]) > 1 THEN Owns(n)' ELSE Direct(n)'
  <2>1. CASE HasLocation(n)
    <3>1. PlaceIdx(ops[n]) = 1
      BY <1>1, <1>8, <2>1 DEF PlaceIdx, HasLocation
    <3>. QED BY <1>3, <1>5, <2>1, <3>1
  <2>2. CASE ~HasLocation(n)
    BY <1>3, <1>6, <2>2 DEF Owns, Above
  <2>. QED BY <2>1, <2>2
<1>9. ops' = ops /\ \A n : PlaceIdx(ops[n])' = PlaceIdx(ops[n]) /\ (HasLocation(n)' <=> HasLocation(n))
  BY <1>1, RequestsRigid
<1>. QED BY <1>1, <1>4, <1>7, <1>8, <1>9 DEF ServedOK

\* Raising: another stack at the place asks for the same, so it keeps its entry;
\* and the store of the entry is of no other stack.
LEMMA RaiseServed ==
    ASSUME Inv, TInv, LeftOK, NoneAtOdds, TypesAgree, ServedOK, NEW s \in todo, Raise(s)
    PROVE  TypesAgree' /\ ServedOK'
<1>. DEFINE stack == fixMap[s].dynStack
<1>0. /\ RequestsOK /\ MapOK /\ PlacesOK /\ ProgramOK /\ Raising /\ phase = "raise" /\ phase' = "raise"
      /\ todo' = todo \ {s} /\ UNCHANGED program /\ s \in Fixed /\ s \in Site /\ s \notin moved
  BY DEF Inv, TInv, Raise, LoopOK, LeftOK, Fixed
<1>1. /\ fixMap[s].type \in Primitive /\ fixMap[s] \in FixDesc
      /\ IsStack(stack) /\ s = stack[1] /\ s \in Store /\ s \in Mapped /\ FromRequest(s, fixMap[s])
  <2>1. fixMap[s].type \in Primitive /\ fixMap[s] # NoFix
    BY <1>0 DEF Raise, Fixed
  <2>. QED BY <1>0, <2>1 DEF MapOK, HasPlace, PlacesOK, LeftOK
<1>2. PICK l \in DOMAIN stack :
        /\ IsLanding(stack, l)
        /\ \/ l = 1 /\ UNCHANGED <<fixMap, moved>>
           \/ /\ l > 1
              /\ fixMap' = Put(stack[l], Raised(fixMap[s], l))
              /\ moved' = IF IsAdded(fixMap[stack[l]], Raised(fixMap[s], l)) THEN moved \cup {s} ELSE moved
  BY DEF Raise
<1>3. PICK m \in DOMAIN ops : stack = ops[m].stack
  BY <1>1 DEF FromRequest
<1>4. \A n \in DOMAIN ops : ops[n].stack = stack => PlaceIdx(ops[n]) = l /\ Place(ops[n]) = stack[l]
  BY <1>0, <1>1, <1>2, LandingIsPlace
<1>5. \A n \in DOMAIN ops : HasLocation(n) => ops[n].stack[1] \in Store /\ ops[n].stack[1] \in Site
  BY <1>0, Apart DEF RequestsOK, IsStack
<1>6. \A n \in DOMAIN ops : ops[n].stack[1] = s => HasLocation(n) /\ (PlaceIdx(ops[n]) > 1 \/ l > 1 => ops[n].stack = stack)
  <2>. SUFFICES ASSUME NEW n \in DOMAIN ops, ops[n].stack[1] = s
                PROVE  HasLocation(n) /\ (PlaceIdx(ops[n]) > 1 \/ l > 1 => ops[n].stack = stack)
    OBVIOUS
  <2>1. HasLocation(n) /\ HasLocation(m) /\ ops[m].stack[1] = ops[n].stack[1]
    BY <1>1, <1>3 DEF HasLocation
  <2>. QED BY <1>3, <1>4, <2>1, SharedStore
<1>7. ops' = ops /\ \A n : /\ PlaceIdx(ops[n])' = PlaceIdx(ops[n]) /\ Place(ops[n])' = Place(ops[n])
                           /\ HasLocation(n)' <=> HasLocation(n)
  BY <1>0, RequestsRigid
<1>8. CASE l = 1 /\ UNCHANGED <<fixMap, moved>>
  <2>1. Fixed' = Fixed
    BY <1>8 DEF Fixed
  <2>2. TypesAgree'
    <3>1. \A x, t : (OfStore(x, t)' <=> OfStore(x, t)) /\ (OfPlace(x, t)' <=> OfPlace(x, t))
      BY <1>0, RequestsRigid
    <3>. QED BY <1>0, <1>8, <2>1, <3>1 DEF TypesAgree
  <2>3. ASSUME NEW n \in DOMAIN ops
        PROVE  /\ Direct(n) => Direct(n)'
               /\ Owns(n) => Owns(n)'
               /\ Above(n) => Above(n)'
    BY <1>0, <1>8, <2>1, DirectStays, OwnsStays, AboveStays DEF Direct, Handled, Owns, Above, Covers
  <2>4. ASSUME NEW n \in DOMAIN ops, PlaceIdx(ops[n]) > 1
        PROVE  ops[n].stack[1] # s
    BY <1>4, <1>6, <1>8, <2>4
  <2>. QED BY <1>0, <1>7, <1>8, <2>2, <2>3, <2>4 DEF ServedOK
<1>9. CASE /\ l > 1
           /\ fixMap' = Put(stack[l], Raised(fixMap[s], l))
           /\ moved' = IF IsAdded(fixMap[stack[l]], Raised(fixMap[s], l)) THEN moved \cup {s} ELSE moved
  <2>. DEFINE at == stack[l]
              desc == Raised(fixMap[s], l)
  <2>1. l \in 2 .. Len(stack)
    BY <1>1, <1>9 DEF IsStack
  <2>2. /\ desc \in FixDesc /\ desc.type \in PST /\ HasPlace(at, desc) /\ at \in Call /\ desc.dynStack = stack
        /\ desc.type = RaisedType(fixMap[s].type) /\ Covers(desc, fixMap[s])
    BY <1>1, <2>1, RaisedOK DEF IsStack, Raised, RaisedType
  <2>3. fixMap' = Put(at, desc) /\ moved' = IF IsAdded(fixMap[at], desc) THEN moved \cup {s} ELSE moved
    BY <1>9
  <2>4. PlaceIdx(ops[m]) = l /\ Place(ops[m]) = at
    BY <1>3, <1>4
  <2>. HIDE DEF at, desc
  <2>5. PutThere(at, desc)
    BY <1>0, <2>2, <2>3, PutIsThere
  <2>6. ASSUME NEW t \in Primitive, OfPlace(at, t)
        PROVE  desc.type = RaisedType(t)
    <3>1. OfStore(s, t)
      BY <1>4, <1>6, <1>9, <2>6 DEF OfStore, OfPlace, at
    <3>2. fixMap[s].type = t
      BY <1>0, <1>1, <3>1 DEF TypesAgree
    <3>. QED BY <2>2, <3>2
  <2>7. TypesAgree'
    BY <1>0, <2>5, <2>6, TypesAfterPut
  \* Requests of other stacks keep their entry at the place.
  <2>8. ASSUME NEW n \in DOMAIN ops, Above(n), Place(ops[n]) = at, ops[n].stack # stack
        PROVE  fixMap'[at] = fixMap[at]
    <3>1. PlaceIdx(ops[n]) > 1 /\ at \in Fixed
      BY <2>8 DEF Above
    <3>2. OfPlace(at, ops[m].type) /\ ops[m].type \in Primitive
      BY <1>0, <1>3, <1>9, <2>4, <2>8, <3>1, OneType, StacksAreCallStacks
    <3>3. desc.type = RaisedType(ops[m].type)
      BY <2>6, <3>2
    <3>4. fixMap[at].type \in PST
      BY <1>0, <2>2, <3>1, Apart DEF Fixed, MapOK, HasPlace, FixDesc, FixType
    <3>5. fixMap[at].type = RaisedType(ops[m].type)
      BY <1>0, <3>1, <3>2, <3>4 DEF TypesAgree
    <3>6. ~IsAdded(fixMap[at], desc)
      BY <3>1, <3>3, <3>5 DEF IsAdded, Coalesce, Fixed
    <3>. QED BY <2>5, <3>6 DEF PutThere
  <2>9. ASSUME NEW n \in DOMAIN ops, Above(n)
        PROVE  Above(n)'
    <3>1. Place(ops[n]) \in Fixed
      BY <2>9 DEF Above
    <3>. QED BY <1>0, <2>5, <2>9, <3>1, AboveStays DEF PutThere
  <2>10. ASSUME NEW n \in DOMAIN ops, Owns(n), ops[n].stack # stack
         PROVE  Owns(n)'
    <3>1. Above(n) /\ Place(ops[n]) \in Fixed /\ Place(ops[n]) \in Site
      BY <2>10 DEF Owns, Above, Fixed
    <3>2. fixMap'[Place(ops[n])] = fixMap[Place(ops[n])]
      BY <2>5, <2>8, <2>10, <3>1 DEF PutThere
    <3>3. Place(ops[n]) \in Fixed'
      BY <2>5, <3>1 DEF PutThere
    <3>. QED BY <1>0, <2>10, <3>2, <3>3, OwnsStays
  <2>11. ASSUME NEW n \in DOMAIN ops, Direct(n)
         PROVE  Direct(n)'
    <3>1. ops[n].stack[1] \in Store /\ ops[n].stack[1] \in Site /\ ops[n].stack[1] \in Fixed
      BY <1>5, <2>11 DEF Direct, Handled
    <3>2. ops[n].stack[1] # at
      BY <2>2, <3>1, Apart
    <3>3. ops[n].stack[1] \in Fixed' /\ fixMap'[ops[n].stack[1]] = fixMap[ops[n].stack[1]]
      BY <2>5, <3>1, <3>2 DEF PutThere
    <3>. QED BY <1>0, <2>11, <3>3, DirectStays
  \* The requests of this stack are covered, by the entry of their own if it was added.
  <2>12. ASSUME NEW n \in DOMAIN ops, ops[n].stack[1] = s, Direct(n)
         PROVE  Above(n)' /\ (s \in moved' => Owns(n)')
    <3>1. ops[n].stack = stack /\ PlaceIdx(ops[n]) = l /\ Place(ops[n]) = at
      BY <1>4, <1>6, <1>9, <2>12 DEF at
    <3>2. Covers(fixMap'[at], ops[n])
      <4>1. Covers(fixMap[s], ops[n])
        BY <2>12 DEF Direct, Handled
      <4>2. Covers(fixMap'[at], desc) /\ Covers(desc, fixMap[s])
        BY <2>2, <2>5 DEF PutThere
      <4>. QED BY <4>1, <4>2, CoversTransitive
    <3>3. at \in Fixed'
      BY <2>5 DEF PutThere, Fixed
    <3>4. Above(n)'
      BY <1>7, <2>1, <3>1, <3>2, <3>3 DEF Above, Covers
    <3>5. s \in moved' => fixMap'[at].dynStack = stack
      <4>1. s \in moved' => IsAdded(fixMap[at], desc)
        BY <1>0, <2>3
      <4>2. IsAdded(fixMap[at], desc) => fixMap'[at] = desc
        BY <2>5 DEF PutThere
      <4>. QED BY <2>2, <4>1, <4>2
    <3>. QED BY <1>7, <3>1, <3>4, <3>5 DEF Owns
  <2>13. moved' \subseteq moved \cup {s}
    BY <2>3
  <2>14. ASSUME NEW n \in DOMAIN ops
         PROVE  IF HasLocation(n)
                 THEN /\ Direct(n)'
                      /\ ops[n].stack[1] \in moved' => Owns(n)'
                      /\ PlaceIdx(ops[n]) > 1 => ops[n].stack[1] \in todo' \/ Above(n)'
                 ELSE Owns(n)'
    <3>1. CASE HasLocation(n) /\ ops[n].stack[1] = s
      <4>1. Direct(n)
        BY <1>0, <3>1 DEF ServedOK
      <4>. QED BY <2>11, <2>12, <3>1, <4>1
    <3>2. CASE HasLocation(n) /\ ops[n].stack[1] # s
      <4>1. /\ Direct(n) /\ (ops[n].stack[1] \in moved => Owns(n))
            /\ PlaceIdx(ops[n]) > 1 => ops[n].stack[1] \in todo \/ Above(n)
        BY <1>0, <3>2 DEF ServedOK
      <4>2. ops[n].stack # stack
        BY <1>1, <3>2
      <4>. QED BY <1>0, <2>9, <2>10, <2>11, <2>13, <3>2, <4>1, <4>2
    <3>3. CASE ~HasLocation(n)
      <4>1. Owns(n) /\ ops[n].stack # stack
        BY <1>0, <1>1, <3>3 DEF ServedOK, HasLocation
      <4>. QED BY <2>10, <3>3, <4>1
    <3>. QED BY <3>1, <3>2, <3>3
  <2>. QED BY <1>0, <1>7, <2>7, <2>14 DEF ServedOK
<1>. QED BY <1>2, <1>8, <1>9

\* The raising loop passes over the fixes it has added itself.
LEMMA PassOverServed ==
    ASSUME Inv, TInv, TypesAgree, ServedOK, NEW s \in todo, PassOver(s)
    PROVE  TypesAgree' /\ ServedOK'
<1>1. /\ phase = "raise" /\ phase' = "raise" /\ todo' = todo \ {s} /\ UNCHANGED program
      /\ UNCHANGED fixMap /\ UNCHANGED moved /\ MapOK /\ RequestsOK /\ fixMap[s].type \in PST /\ s \in Site
  BY DEF PassOver, Inv, TInv, LoopOK, Fixed
<1>2. Fixed' = Fixed
  BY <1>1 DEF Fixed
<1>3. s \in Call
  BY <1>1, Apart DEF MapOK, HasPlace
<1>4. \A n \in DOMAIN ops : ops[n].stack[1] # s
  BY <1>1, <1>3, Apart DEF RequestsOK, IsStack
<1>5. ops' = ops /\ (\A n : PlaceIdx(ops[n])' = PlaceIdx(ops[n]) /\ (HasLocation(n)' <=> HasLocation(n)))
      /\ \A x, t : (OfStore(x, t)' <=> OfStore(x, t)) /\ (OfPlace(x, t)' <=> OfPlace(x, t))
  BY <1>1, RequestsRigid
<1>6. ASSUME NEW n \in DOMAIN ops
      PROVE  /\ Direct(n) => Direct(n)'
             /\ Owns(n) => Owns(n)'
             /\ Above(n) => Above(n)'
  BY <1>1, <1>2, DirectStays, OwnsStays, AboveStays DEF Direct, Handled, Owns, Above, Covers
<1>7. TypesAgree'
  BY <1>1, <1>2, <1>5 DEF TypesAgree
<1>. QED BY <1>1, <1>4, <1>5, <1>6, <1>7 DEF ServedOK

\* A place above the store is a call.
LEMMA AbovePlace ==
    ASSUME RequestsOK, NEW n \in DOMAIN ops, Above(n)
    PROVE  Place(ops[n]) \in Call
BY DEF RequestsOK, IsStack, Above, Place

\* Erasing: a request whose fix is erased owns the one at its place.
LEMMA EndRaiseServed ==
    ASSUME Inv, TInv, LeftOK, ServedOK, EndRaise
    PROVE  TypesAgree' /\ ServedOK'
<1>1. /\ phase = "raise" /\ phase' = "apply" /\ todo = {} /\ UNCHANGED program /\ MapOK /\ RequestsOK
      /\ \A x \in Site : fixMap'[x] = IF x \in moved THEN NoFix ELSE fixMap[x]
  BY DEF EndRaise, Inv
<1>2. \A x \in Fixed : x \notin moved => x \in Fixed' /\ fixMap'[x] = fixMap[x]
  BY <1>1 DEF Fixed
<1>3. moved \cap Call = {}
  <2>. SUFFICES ASSUME NEW x \in moved PROVE x \notin Call
    OBVIOUS
  <2>1. x \in Site /\ fixMap[x] # NoFix /\ fixMap[x].type \in Primitive
    BY DEF Inv, MovedOK
  <2>. QED BY <1>1, <2>1, Apart DEF MapOK, HasPlace
<1>4. ASSUME NEW n \in DOMAIN ops, Above(n)
      PROVE  Above(n)' /\ (Owns(n) => Owns(n)')
  <2>1. PlaceIdx(ops[n]) > 1 /\ Place(ops[n]) \in Fixed
    BY <1>4 DEF Above
  <2>2. Place(ops[n]) \in Call
    BY <1>4, AbovePlace, <1>1
  <2>3. Place(ops[n]) \in Fixed' /\ fixMap'[Place(ops[n])] = fixMap[Place(ops[n])]
    BY <1>2, <1>3, <2>1, <2>2
  <2>. QED BY <1>1, <1>4, <2>3, AboveStays, OwnsStays DEF Covers
<1>5. ASSUME NEW n \in DOMAIN ops, Direct(n), ops[n].stack[1] \notin moved
      PROVE  Direct(n)'
  BY <1>1, <1>2, <1>5, DirectStays DEF Direct, Handled
<1>6. ASSUME NEW n \in DOMAIN ops
      PROVE  IF PlaceIdx(ops[n]) > 1 THEN Owns(n)' \/ (Above(n)' /\ Direct(n)')
             ELSE Direct(n)'
  <2>1. CASE HasLocation(n)
    <3>1. /\ Direct(n) /\ (ops[n].stack[1] \in moved => Owns(n))
          /\ PlaceIdx(ops[n]) > 1 => Above(n)
      BY <1>1, <2>1 DEF ServedOK
    <3>. QED BY <1>4, <1>5, <3>1 DEF Owns, Above
  <2>2. CASE ~HasLocation(n)
    <3>1. Owns(n) /\ Above(n) /\ PlaceIdx(ops[n]) > 1
      BY <1>1, <2>2 DEF ServedOK, Owns, Above
    <3>. QED BY <1>4, <3>1
  <2>. QED BY <2>1, <2>2
<1>7. ops' = ops /\ \A n : PlaceIdx(ops[n])' = PlaceIdx(ops[n])
  BY <1>1, RequestsRigid
<1>8. TypesAgree'
  BY <1>1 DEF TypesAgree
<1>. QED BY <1>1, <1>6, <1>7, <1>8 DEF ServedOK

\* From then on the fixes do not change.
LEMMA LateServed ==
    ASSUME TypesAgree, ServedOK, UNCHANGED program, UNCHANGED fixMap,
           \/ phase' = "abort" \/ phase' = "done"
           \/ phase \in {"apply", "subprogram"} /\ phase' \in {"apply", "subprogram"}
           \/ UNCHANGED <<phase, moved, todo, nextOp>>
    PROVE  TypesAgree' /\ ServedOK'
<1>1. Fixed' = Fixed
  BY DEF Fixed
<1>2. ops' = ops /\ (\A n : PlaceIdx(ops[n])' = PlaceIdx(ops[n]) /\ (HasLocation(n)' <=> HasLocation(n)))
      /\ (\A n : Place(ops[n])' = Place(ops[n]))
      /\ \A x, t : (OfStore(x, t)' <=> OfStore(x, t)) /\ (OfPlace(x, t)' <=> OfPlace(x, t))
  BY RequestsRigid
<1>3. TypesAgree'
  BY <1>1, <1>2 DEF TypesAgree
<1>4. \A n : /\ Direct(n)' <=> Direct(n)
             /\ Above(n)' <=> Above(n)
             /\ Owns(n)' <=> Owns(n)
  BY <1>1, <1>2 DEF Direct, Handled, Owns, Above, Covers
<1>5. ServedOK'
  BY <1>2, <1>4 DEF ServedOK
<1>. QED BY <1>3, <1>5

\* Every step keeps each request served, as long as no two are at odds.
LEMMA StepServed ==
    ASSUME Inv, TInv, LeftOK, NoneAtOdds, TypesAgree, ServedOK, [Next]_vars
    PROVE  TypesAgree' /\ ServedOK'
<1>1. CASE AddPrimitive \/ AddIndirect \/ EndCompute \/ EndRaise
  BY <1>1, AddPrimitiveServed, AddIndirectServed, EndComputeServed, EndRaiseServed
<1>2. CASE \E s \in todo : Raise(s) \/ PassOver(s)
  BY <1>2, RaiseServed, PassOverServed
<1>3. CASE ComputeFails \/ FrameFails \/ FenceFails \/ \E s \in todo : RaiseFails(s) \/ GeneratorFails(s)
  BY <1>3, LateServed DEF ComputeFails, FrameFails, FenceFails, RaiseFails, GeneratorFails, Abort
<1>4. CASE \E s \in todo : ApplyPrimitive(s) \/ ApplySubProgram(s)
  BY <1>4, LateServed DEF ApplyPrimitive, ApplySubProgram
<1>5. CASE CloneFrame \/ ReplaceExternal \/ EndSubProgram \/ EndApply
  BY <1>5, LateServed DEF CloneFrame, ReplaceExternal, EndSubProgram, EndApply, InLoop
<1>6. CASE UNCHANGED vars
  BY <1>6, LateServed DEF vars, program
<1>. QED BY <1>1, <1>2, <1>3, <1>4, <1>5, <1>6 DEF Next, Finished

Renamed(v, c) == code[v].calls[c] # Names(c)

\* Only functions below a place are cloned.
ClonesBelow ==
    \A v \in DOMAIN code : v[2] > 0 /\ v[1] \notin External => \E n \in DOMAIN ops : v[1] \in Below(ops[n])

\* A call on the way to a place that was re-pointed gets to a version whose next
\* call was re-pointed too.
GoesOn(body, st, i, v) ==
    LET next == body[v].calls[st[i]] IN
    next # Names(st[i]) => body[next].calls[st[i - 1]] # Names(st[i - 1])
WaysRenamed ==
    \A y \in Fixed : fixMap[y].type \in PST =>
        \A i \in 3 .. fixMap[y].stackIdx + 1 : \A v \in DOMAIN code : GoesOn(code, fixMap[y].dynStack, i, v)

\* The loop has re-pointed the calls it has passed.
LoopRenamed ==
    phase = "subprogram" =>
        \A k \in 2 .. frame + 1 : Chain[k] \in Mapped /\ Renamed(Home(Chain[k]), Chain[k])

\* A fix that was applied is there.
AppliedThere ==
    \A y \in Fixed : y \notin todo /\ y # cur =>
        /\ fixMap[y].type \in Primitive => Marked(y, fixMap[y].type)
        /\ fixMap[y].type \in PST => Renamed(Home(y), y)
        /\ fixMap[y].type = "PST" => y \in code[Home(y)].fence

WayOK == phase \in {"apply", "subprogram"} => ClonesBelow /\ WaysRenamed /\ LoopRenamed /\ AppliedThere

\* No call of the program names a clone.
LEMMA NeverNamed ==
    ASSUME NEW v \in Version, v[2] > 0, NEW c \in Call
    PROVE  v # Names(c)
<1>1. CASE CalleeOf[c] = Indirect
  BY <1>1, VersionIsReal DEF Names
<1>2. CASE CalleeOf[c] # Indirect
  BY <1>2 DEF Names
<1>. QED BY <1>1, <1>2

\* A call that was re-pointed is not through a pointer, and names a version.
LEMMA RenamedIsVersion ==
    ASSUME ModuleOK, NEW v \in DOMAIN code, NEW c \in Call, Renamed(v, c)
    PROVE  CalleeOf[c] # Indirect /\ code[v].calls[c] \in DOMAIN code /\ code[v].calls[c][1] = CalleeOf[c]
BY DEF ModuleOK, Renamed, Names

\* The calls of a fix along a stack.
LEMMA WaySites ==
    ASSUME ProgramOK, RequestsOK, MapOK, PlacesOK, NEW y \in Fixed, fixMap[y].type \in PST
    PROVE  \E n \in DOMAIN ops :
             /\ fixMap[y].dynStack = ops[n].stack /\ IsStack(fixMap[y].dynStack)
             /\ PlaceIdx(ops[n]) \in 2 .. Len(fixMap[y].dynStack) /\ fixMap[y].stackIdx = PlaceIdx(ops[n]) - 1
             /\ y = Place(ops[n]) /\ y = fixMap[y].dynStack[fixMap[y].stackIdx + 1]
             /\ \A k \in 2 .. fixMap[y].stackIdx + 1 : fixMap[y].dynStack[k] \in Call
<1>1. y \in Site /\ fixMap[y] # NoFix
  BY DEF Fixed
<1>2. PICK n \in DOMAIN ops :
        /\ fixMap[y].dynStack = ops[n].stack
        /\ PlaceIdx(ops[n]) \in 2 .. Len(ops[n].stack)
        /\ fixMap[y].stackIdx = PlaceIdx(ops[n]) - 1
        /\ y = Place(ops[n])
  BY <1>1 DEF PlacesOK, FromRequest
<1>3. IsStack(ops[n].stack)
  BY DEF RequestsOK
<1>4. fixMap[y].stackIdx + 1 = PlaceIdx(ops[n]) /\ PlaceIdx(ops[n]) \in Nat /\ Len(ops[n].stack) \in Nat
  BY <1>2, <1>3 DEF IsStack
<1>5. \A k \in 2 .. PlaceIdx(ops[n]) : ops[n].stack[k] \in Call
  BY <1>2, <1>3, <1>4 DEF IsStack
<1>. QED BY <1>2, <1>3, <1>4, <1>5 DEF Place

\* The loop meets the way to a place only on that way, from the store up.
LEMMA OneWay ==
    ASSUME Inv, TInv, NoneAtOdds, InLoop, NEW y \in Fixed, fixMap[y].type \in PST,
           NEW i \in 2 .. fixMap[y].stackIdx + 1, fixMap[y].dynStack[i] = NextSite
    PROVE  i = frame + 2 /\ \A k \in 2 .. i : fixMap[y].dynStack[k] = Chain[k]
<1>0. ProgramOK /\ RequestsOK /\ MapOK /\ PlacesOK /\ LoopOK /\ phase = "subprogram" /\ frame < fixMap[cur].stackIdx
  BY DEF Inv, TInv, InLoop
<1>1. PICK m \in DOMAIN ops :
             /\ Chain = ops[m].stack /\ IsStack(Chain)
             /\ PlaceIdx(ops[m]) \in 2 .. Len(Chain) /\ fixMap[cur].stackIdx = PlaceIdx(ops[m]) - 1
             /\ cur = Place(ops[m])
  BY <1>0, FrameSites
<1>2. PICK n \in DOMAIN ops :
             /\ fixMap[y].dynStack = ops[n].stack
             /\ PlaceIdx(ops[n]) \in 2 .. Len(fixMap[y].dynStack) /\ fixMap[y].stackIdx = PlaceIdx(ops[n]) - 1
             /\ y = Place(ops[n])
  BY <1>0, WaySites
<1>3. frame + 2 \in 2 .. PlaceIdx(ops[m]) /\ i \in 2 .. PlaceIdx(ops[n])
  BY <1>0, <1>1, <1>2 DEF LoopOK, IsStack
<1>4. ops[n].stack[i] = ops[m].stack[frame + 2]
  BY <1>1, <1>2 DEF NextSite
<1>5. ~Meet(ops[n], ops[m])
  <2>1. ops[n].stack = ops[m].stack \/ Place(ops[n]) # Place(ops[m])
    BY <1>1, <1>2 DEF Chain
  <2>. QED BY <2>1 DEF NoneAtOdds, AtOdds
<1>6. i = frame + 2 /\ \A k \in 2 .. i : ops[n].stack[k] = ops[m].stack[k]
  BY <1>3, <1>4, <1>5 DEF Meet
<1>. QED BY <1>1, <1>2, <1>6

\* What both kinds of frames do: the call c of the next frame names v if it named
\* the original, and v, if new, is like the original.
Stepped(at, c, v) ==
    /\ at \in Site /\ c \in Call /\ c \in Mapped /\ CalleeOf[c] = FnOf[at]
    /\ v \in Version /\ v[1] = FnOf[at] /\ v[2] > 0
    /\ DOMAIN code' = DOMAIN code \cup {v}
    /\ \A w \in DOMAIN code :
         /\ code'[w].flush = code[w].flush /\ code'[w].fence = code[w].fence
         /\ \A x \in Call : code'[w].calls[x] =
               IF w = Home(c) /\ x = c /\ CallsOriginal THEN v ELSE code[w].calls[x]
    /\ at \in Mapped => /\ v \notin DOMAIN code
                        /\ \A x \in Call : code'[v].calls[x] = code[Home(at)].calls[x]
    /\ at \notin Mapped => v \in DOMAIN code

\* One turn of the loop over the frames, for a clone and for an external function.
LEMMA FrameIsStep ==
    ASSUME Inv, TInv, CloneFrame \/ ReplaceExternal
    PROVE  \E v : Stepped(AtSite, NextSite, v)
<1>0. ProgramOK /\ RequestsOK /\ MapOK /\ PlacesOK /\ LoopOK /\ ModuleOK
  BY DEF Inv, TInv
<1>1. CASE CloneFrame
  <2>1. PICK at, c, v : at = AtSite /\ c = NextSite /\ Cloned(at, c, v)
    BY <1>0, <1>1, CloneEffect
  <2>. QED BY <2>1 DEF Cloned, Stepped, Home
<1>2. CASE ReplaceExternal
  <2>1. PICK at, c, v : at = AtSite /\ c = NextSite /\ v = <<FnOf[at], 1>> /\ Replaced(at, c, v)
    BY <1>0, <1>2, ReplaceEffect
  <2>2. v \in Version /\ v[1] = FnOf[at] /\ v[2] > 0
    BY <1>0, <2>1 DEF Replaced, ModuleOK
  <2>3. DOMAIN code' = DOMAIN code \cup {v}
    BY <2>1 DEF Replaced
  <2>. QED BY <2>1, <2>2, <2>3 DEF Replaced, Stepped
<1>. QED BY <1>1, <1>2

\* In the input module nothing is re-pointed and nothing is cloned.
LEMMA LinkedWay ==
    ASSUME Inv, TInv, CallsOK, EndCompute \/ EndRaise
    PROVE  WayOK'
<1>1. /\ code = Linked /\ code' = code /\ cur' = NoSite /\ phase' \in {"raise", "apply"}
      /\ phase' = "apply" => todo' = Fixed'
  <2>1. CASE EndCompute
    BY <2>1 DEF EndCompute, CallsOK, Fixed, subprogram
  <2>2. CASE EndRaise
    <3>1. todo' = Fixed \ moved /\ \A x \in Site : fixMap'[x] = IF x \in moved THEN NoFix ELSE fixMap[x]
      BY <2>2 DEF EndRaise
    <3>2. Fixed' = Fixed \ moved
      BY <3>1 DEF Fixed
    <3>. QED BY <2>2, <3>1, <3>2 DEF EndRaise, CallsOK, subprogram
  <2>. QED BY <2>1, <2>2
<1>2. \A v \in DOMAIN code' : \A c \in Call : code'[v].calls[c] = Names(c)
  BY <1>1, LinkedNames
<1>3. ClonesBelow'
  <2>1. \A v \in DOMAIN code' : v[2] > 0 => v[1] \in External
    <3>1. DOMAIN code' = (Fn \X {0}) \cup (Replaceable \X {1})
      BY <1>1 DEF Linked
    <3>. QED BY <3>1, ProgramAssumption
  <2>. QED BY <2>1 DEF ClonesBelow
<1>4. WaysRenamed'
  <2>. SUFFICES ASSUME NEW y \in Fixed', fixMap'[y].type \in PST, NEW i \in 3 .. fixMap'[y].stackIdx + 1,
                       NEW v \in DOMAIN code'
                PROVE  code'[v].calls[fixMap'[y].dynStack[i]] = Names(fixMap'[y].dynStack[i])
    BY DEF WaysRenamed, GoesOn, Renamed
  <2>1. y \in Fixed /\ fixMap'[y] = fixMap[y]
    BY DEF EndCompute, EndRaise, Fixed
  <2>2. fixMap'[y].dynStack[i] \in Call
    BY <2>1, WaySites DEF Inv, TInv
  <2>. QED BY <1>2, <2>2
<1>. QED BY <1>1, <1>3, <1>4 DEF WayOK, LoopRenamed, AppliedThere

\* What is left of a step that marks: calls stay, and so do the fixes.
LEMMA CallsStay ==
    ASSUME ModuleOK, RequestsOK, MapOK, PlacesOK, ProgramOK, UNCHANGED program, UNCHANGED fixMap, ClonesBelow, WaysRenamed,
           DOMAIN code' = DOMAIN code, \A w \in DOMAIN code : code'[w].calls = code[w].calls
    PROVE  ClonesBelow' /\ WaysRenamed'
<1>1. Fixed' = Fixed
  BY DEF Fixed
<1>2. ops' = ops /\ \A n : PlaceIdx(ops[n])' = PlaceIdx(ops[n])
  BY RequestsRigid
<1>3. ClonesBelow'
  BY <1>2 DEF ClonesBelow, Below
<1>4. WaysRenamed'
  <2>. SUFFICES ASSUME NEW y \in Fixed, fixMap[y].type \in PST, NEW i \in 3 .. fixMap[y].stackIdx + 1,
                       NEW v \in DOMAIN code, NEW st, st = fixMap[y].dynStack
                PROVE  GoesOn(code', st, i, v)
    BY <1>1 DEF WaysRenamed
  <2>. SUFFICES ASSUME code'[v].calls[st[i]] # Names(st[i])
                PROVE  code'[code'[v].calls[st[i]]].calls[st[i - 1]] # Names(st[i - 1])
    BY DEF GoesOn
  <2>1. Renamed(v, st[i])
    BY DEF Renamed
  <2>2. Renamed(code[v].calls[st[i]], st[i - 1])
    BY <2>1 DEF WaysRenamed, GoesOn, Renamed
  <2>3. st[i] \in Call
    BY WaySites
  <2>4. code[v].calls[st[i]] \in DOMAIN code
    BY <2>1, <2>3, RenamedIsVersion
  <2>. QED BY <2>2, <2>4 DEF Renamed
<1>. QED BY <1>3, <1>4

\* A frame of the loop.
LEMMA FrameWay ==
    ASSUME Inv, TInv, NoneAtOdds, WayOK, CloneFrame \/ ReplaceExternal
    PROVE  WayOK'
<1>0. /\ ProgramOK /\ RequestsOK /\ MapOK /\ PlacesOK /\ LoopOK /\ ModuleOK /\ InLoop
      /\ phase = "subprogram" /\ phase' = "subprogram" /\ frame' = frame + 1 /\ frame \in Nat
      /\ UNCHANGED program /\ UNCHANGED fixMap /\ UNCHANGED todo /\ UNCHANGED cur
      /\ ClonesBelow /\ WaysRenamed /\ LoopRenamed /\ AppliedThere
  BY DEF Inv, TInv, CloneFrame, ReplaceExternal, InLoop, LoopOK, WayOK
<1>1. Fixed' = Fixed /\ Chain' = Chain
  BY <1>0 DEF Fixed, Chain
<1>2. PICK at, c, v : at = AtSite /\ c = NextSite /\ Stepped(at, c, v)
  BY FrameIsStep
<1>3. /\ frame + 1 \in 1 .. fixMap[cur].stackIdx /\ at = Chain[frame + 1] /\ c = Chain[frame + 2]
      /\ at \in Site /\ c \in Call /\ c \in Mapped /\ CalleeOf[c] = FnOf[at]
  BY <1>0, <1>2, LoopSites DEF Stepped
<1>4. \A x \in Call : v # Names(x)
  BY <1>2, NeverNamed DEF Stepped
<1>5. \A x \in Call : Home(x) \in DOMAIN code
  BY <1>0, CallsAreSites DEF ModuleOK, Home
\* What was re-pointed stays so.
<1>6. ASSUME NEW w \in DOMAIN code, NEW x \in Call, Renamed(w, x)
      PROVE  code'[w].calls[x] # Names(x)
  BY <1>2, <1>4, <1>6 DEF Stepped, Renamed
<1>7. code'[Home(c)].calls[c] # Names(c)
  <2>1. CASE CallsOriginal
    BY <1>2, <1>3, <1>4, <1>5, <2>1 DEF Stepped
  <2>2. CASE ~CallsOriginal
    <3>1. Renamed(Home(c), c)
      BY <1>2, <1>3, <2>2, CallsOriginalIs DEF Renamed
    <3>. QED BY <1>3, <1>5, <1>6, <3>1
  <2>. QED BY <2>1, <2>2
<1>8. ClonesBelow'
  <2>. SUFFICES ASSUME NEW w \in DOMAIN code', w[2] > 0, w[1] \notin External
                PROVE  \E n \in DOMAIN ops' : w[1] \in Below(ops[n])'
    BY DEF ClonesBelow
  <2>1. ops' = ops /\ \A n : PlaceIdx(ops[n])' = PlaceIdx(ops[n])
    BY <1>0, RequestsRigid
  <2>2. \E n \in DOMAIN ops : w[1] \in Below(ops[n])
    <3>1. CASE w \in DOMAIN code
      BY <1>0, <3>1 DEF ClonesBelow
    <3>2. CASE w = v
      <4>1. PICK n \in DOMAIN ops : /\ Chain = ops[n].stack /\ PlaceIdx(ops[n]) \in 2 .. Len(Chain)
                                    /\ fixMap[cur].stackIdx = PlaceIdx(ops[n]) - 1
        BY <1>0, FrameSites
      <4>2. frame + 1 \in 1 .. PlaceIdx(ops[n]) - 1
        BY <1>3, <4>1
      <4>. QED BY <1>2, <1>3, <3>2, <4>1, <4>2 DEF Stepped, Below
    <3>. QED BY <1>2, <3>1, <3>2 DEF Stepped
  <2>. QED BY <2>1, <2>2 DEF Below
<1>9. WaysRenamed'
  <2>. SUFFICES ASSUME NEW y \in Fixed, fixMap[y].type \in PST, NEW i \in 3 .. fixMap[y].stackIdx + 1,
                       NEW w \in DOMAIN code', NEW st, st = fixMap[y].dynStack
                PROVE  GoesOn(code', st, i, w)
    BY <1>0, <1>1 DEF WaysRenamed
  <2>. SUFFICES ASSUME code'[w].calls[st[i]] # Names(st[i])
                PROVE  code'[code'[w].calls[st[i]]].calls[st[i - 1]] # Names(st[i - 1])
    BY DEF GoesOn
  <2>1. PICK x, b : x = st[i] /\ b = st[i - 1]
    OBVIOUS
  <2>2. x \in Call /\ b \in Call /\ i \in 2 .. fixMap[y].stackIdx + 1 /\ i - 1 \in 2 .. i
    BY <1>0, <2>1, WaySites
  \* Versions that called a re-pointed version before.
  <2>3. ASSUME NEW o \in DOMAIN code, code[o].calls[x] # Names(x)
        PROVE  code'[code[o].calls[x]].calls[b] # Names(b)
    <3>1. Renamed(o, x)
      BY <2>3 DEF Renamed
    <3>2. code[o].calls[x] \in DOMAIN code
      BY <1>0, <2>2, <3>1, RenamedIsVersion
    <3>3. Renamed(code[o].calls[x], b)
      BY <1>0, <2>1, <3>1 DEF WaysRenamed, GoesOn, Renamed
    <3>. QED BY <1>6, <2>2, <3>2, <3>3
  <2>4. CASE w \in DOMAIN code /\ ~(w = Home(c) /\ x = c /\ CallsOriginal)
    <3>1. code'[w].calls[x] = code[w].calls[x]
      BY <1>2, <2>2, <2>4 DEF Stepped
    <3>. QED BY <2>1, <2>3, <2>4, <3>1
  <2>5. CASE w \in DOMAIN code /\ w = Home(c) /\ x = c /\ CallsOriginal
    <3>1. code'[w].calls[x] = v
      BY <1>2, <2>2, <2>5 DEF Stepped
    <3>2. i = frame + 2 /\ b = Chain[i - 1]
      BY <1>0, <1>2, <2>1, <2>2, <2>5, OneWay
    <3>3. frame + 1 \in 2 .. frame + 1 /\ b = at
      BY <1>0, <1>3, <3>2
    <3>4. at \in Mapped /\ Renamed(Home(at), at)
      BY <1>0, <1>3, <3>3 DEF LoopRenamed
    <3>5. code'[v].calls[at] # Names(at)
      BY <1>2, <2>2, <3>3, <3>4 DEF Stepped, Renamed
    <3>. QED BY <2>1, <3>1, <3>3, <3>5
  <2>6. CASE w \notin DOMAIN code
    <3>1. w = v /\ at \in Mapped
      BY <1>2, <2>6 DEF Stepped
    <3>2. code'[w].calls[x] = code[Home(at)].calls[x]
      BY <1>2, <2>2, <3>1 DEF Stepped
    <3>3. Home(at) \in DOMAIN code
      BY <1>0, <1>3, ProgramAssumption DEF ModuleOK, Home
    <3>. QED BY <2>1, <2>3, <3>2, <3>3
  <2>. QED BY <2>4, <2>5, <2>6
<1>10. LoopRenamed'
  <2>. SUFFICES ASSUME NEW k \in 2 .. frame + 2
                PROVE  Chain[k] \in Mapped /\ code'[Home(Chain[k])].calls[Chain[k]] # Names(Chain[k])
    BY <1>0, <1>1 DEF LoopRenamed, Renamed
  <2>1. CASE k = frame + 2
    BY <1>3, <1>7, <2>1
  <2>2. CASE k \in 2 .. frame + 1
    <3>1. Chain[k] \in Mapped /\ Renamed(Home(Chain[k]), Chain[k])
      BY <1>0, <2>2 DEF LoopRenamed
    <3>2. Chain[k] \in Call
      <4>1. cur \in Fixed /\ fixMap[cur].type \in PST
        BY <1>0 DEF LoopOK
      <4>2. k \in 2 .. fixMap[cur].stackIdx + 1
        <5>1. fixMap[cur].stackIdx \in Nat
          BY <1>0, <4>1 DEF Fixed, MapOK, FixDesc
        <5>2. frame < fixMap[cur].stackIdx /\ frame \in Nat
          BY <1>0 DEF InLoop
        <5>. QED BY <2>2, <5>1, <5>2
      <4>. QED BY <1>0, <4>1, <4>2, WaySites DEF Chain
    <3>. QED BY <1>5, <1>6, <3>1, <3>2
  <2>. QED BY <1>0, <2>1, <2>2
<1>11. AppliedThere'
  <2>. SUFFICES ASSUME NEW y \in Fixed, y \notin todo, y # cur
                PROVE  /\ fixMap[y].type \in Primitive => Marked(y, fixMap[y].type)'
                       /\ fixMap[y].type \in PST => code'[Home(y)].calls[y] # Names(y)
                       /\ fixMap[y].type = "PST" => y \in code'[Home(y)].fence
    BY <1>0, <1>1 DEF AppliedThere, Marked, Renamed
  <2>1. y \in Site /\ Home(y) \in DOMAIN code
    BY <1>0, ProgramAssumption DEF Fixed, ModuleOK, Home
  <2>2. code'[Home(y)].flush = code[Home(y)].flush /\ code'[Home(y)].fence = code[Home(y)].fence
    BY <1>2, <2>1 DEF Stepped
  <2>3. fixMap[y].type \in Primitive => Marked(y, fixMap[y].type)'
    BY <1>0, <2>2 DEF AppliedThere, Marked
  <2>4. fixMap[y].type \in PST => y \in Call
    BY <1>0, <2>1 DEF MapOK, HasPlace, Fixed
  <2>5. fixMap[y].type \in PST => code'[Home(y)].calls[y] # Names(y)
    BY <1>0, <1>6, <2>1, <2>4 DEF AppliedThere
  <2>6. fixMap[y].type = "PST" => y \in code'[Home(y)].fence
    BY <1>0, <2>2 DEF AppliedThere
  <2>. QED BY <2>3, <2>5, <2>6
<1>. QED BY <1>8, <1>9, <1>10, <1>11 DEF WayOK

\* The fixes that are applied in one step, or begun.
LEMMA ApplyWay ==
    ASSUME Inv, TInv, CallsOK, WayOK, NEW s \in todo, ApplyPrimitive(s) \/ ApplySubProgram(s)
    PROVE  WayOK'
<1>0. /\ ProgramOK /\ RequestsOK /\ MapOK /\ PlacesOK /\ LoopOK /\ ModuleOK
      /\ phase = "apply" /\ cur = NoSite /\ todo' = todo \ {s} /\ UNCHANGED program /\ UNCHANGED fixMap
      /\ ClonesBelow /\ WaysRenamed /\ AppliedThere /\ s \in Fixed /\ s \in Site
  BY DEF Inv, TInv, ApplyPrimitive, ApplySubProgram, CallsOK, LoopOK, WayOK, Fixed
<1>1. Fixed' = Fixed /\ \A y \in Fixed : y # cur /\ y \in Site
  BY <1>0, ProgramAssumption DEF Fixed
<1>2. CASE ApplyPrimitive(s)
  <2>1. s \in Store /\ fixMap[s].type \in Primitive
    BY <1>0, <1>2 DEF Fixed, MapOK, HasPlace, ApplyPrimitive, Primitive
  <2>2. PICK t : t = fixMap[s].type
    OBVIOUS
  <2>3. /\ DOMAIN code' = DOMAIN code
        /\ \A w \in DOMAIN code :
             /\ code'[w].calls = code[w].calls
             /\ w # Home(s) => code'[w].flush = code[w].flush /\ code'[w].fence = code[w].fence
             /\ w = Home(s) =>
                  /\ code'[w].flush = code[w].flush \cup (IF AddsFlush(t) THEN {s} ELSE {})
                  /\ code'[w].fence = code[w].fence \cup (IF AddsFence(t) THEN {s} ELSE {})
    BY <1>0, <1>2, <2>1, <2>2, PrimitiveEffect
  <2>4. ClonesBelow' /\ WaysRenamed'
    BY <1>0, <2>3, CallsStay
  <2>5. \A w \in DOMAIN code : code[w].flush \subseteq code'[w].flush /\ code[w].fence \subseteq code'[w].fence
    <3>1. ASSUME NEW w \in DOMAIN code
          PROVE  code[w].flush \subseteq code'[w].flush /\ code[w].fence \subseteq code'[w].fence
      <4>1. CASE w = Home(s)
        BY <2>3, <4>1
      <4>2. CASE w # Home(s)
        BY <2>3, <4>2
      <4>. QED BY <4>1, <4>2
    <3>. QED BY <3>1
  <2>6. Home(s) \in DOMAIN code
    BY <1>0, ProgramAssumption DEF ModuleOK, Home
  <2>7. Marked(s, t)'
    <3>1. AddsFlush(t) => s \in code'[Home(s)].flush
      BY <2>3, <2>6
    <3>2. AddsFence(t) => s \in code'[Home(s)].fence
      BY <2>3, <2>6
    <3>. QED BY <3>1, <3>2 DEF Marked
  <2>8. ASSUME NEW y \in Fixed, y \notin todo', y # s
        PROVE  /\ fixMap[y].type \in Primitive => Marked(y, fixMap[y].type)'
               /\ fixMap[y].type \in PST => code'[Home(y)].calls[y] # Names(y)
               /\ fixMap[y].type = "PST" => y \in code'[Home(y)].fence
    <3>1. Home(y) \in DOMAIN code /\ y \notin todo /\ y # cur
      BY <1>0, <1>1, <2>8, ProgramAssumption DEF ModuleOK, Home
    <3>2. /\ fixMap[y].type \in Primitive => Marked(y, fixMap[y].type)
          /\ fixMap[y].type \in PST => code[Home(y)].calls[y] # Names(y)
          /\ fixMap[y].type = "PST" => y \in code[Home(y)].fence
      BY <1>0, <3>1 DEF AppliedThere, Renamed
    <3>3. /\ code[Home(y)].flush \subseteq code'[Home(y)].flush /\ code[Home(y)].fence \subseteq code'[Home(y)].fence
          /\ code'[Home(y)].calls = code[Home(y)].calls
      BY <2>3, <2>5, <3>1
    <3>4. fixMap[y].type \in Primitive => Marked(y, fixMap[y].type)'
      BY <1>0, <3>2, <3>3 DEF Marked
    <3>. QED BY <3>2, <3>3, <3>4
  <2>9. AppliedThere'
    <3>1. fixMap[s].type # "PST" /\ fixMap[s].type \notin PST
      BY <2>1, Apart DEF PST
    <3>2. fixMap' = fixMap /\ Fixed' = Fixed
      BY <1>0, <1>1
    <3>. QED BY <2>2, <2>7, <2>8, <3>1, <3>2 DEF AppliedThere, Renamed, Marked
  <2>. QED BY <1>2, <2>4, <2>9 DEF WayOK, LoopRenamed, ApplyPrimitive
<1>3. CASE ApplySubProgram(s)
  <2>1. code' = code /\ cur' = s /\ frame' = 0
    BY <1>3 DEF ApplySubProgram
  <2>2. ClonesBelow' /\ WaysRenamed'
    BY <1>0, <2>1, CallsStay
  <2>3. \A y \in Fixed : y \notin todo' /\ y # cur' => y \notin todo /\ y # cur
    BY <1>0, <1>1, <2>1
  <2>4. AppliedThere'
    BY <1>0, <1>1, <2>1, <2>3 DEF AppliedThere, Marked, Renamed
  <2>5. LoopRenamed'
    BY <2>1 DEF LoopRenamed
  <2>. QED BY <2>2, <2>4, <2>5 DEF WayOK
<1>. QED BY <1>2, <1>3

\* The end of one: the fence is at its place, whose call was re-pointed.
LEMMA EndSubProgramWay ==
    ASSUME Inv, TInv, NoneAtOdds, CallsOK, WayOK, EndSubProgram
    PROVE  WayOK'
<1>0. /\ ProgramOK /\ RequestsOK /\ MapOK /\ PlacesOK /\ LoopOK /\ ModuleOK
      /\ phase = "subprogram" /\ phase' = "apply" /\ cur' = NoSite /\ todo' = todo
      /\ frame = fixMap[cur].stackIdx /\ UNCHANGED program /\ UNCHANGED fixMap
      /\ ClonesBelow /\ WaysRenamed /\ LoopRenamed /\ AppliedThere
      /\ cur \in Fixed /\ fixMap[cur].type \in PST /\ retInst = cur /\ cur \in Site
  BY DEF Inv, TInv, EndSubProgram, CallsOK, LoopOK, WayOK, Fixed
<1>1. Fixed' = Fixed /\ \A y \in Fixed : y \in Site
  BY <1>0 DEF Fixed
<1>2. /\ DOMAIN code' = DOMAIN code
      /\ \A w \in DOMAIN code :
           /\ code'[w].calls = code[w].calls /\ code'[w].flush = code[w].flush
           /\ fixMap[cur].type # "PST" \/ w # Home(cur) => code'[w].fence = code[w].fence
           /\ fixMap[cur].type = "PST" /\ w = Home(cur) => code'[w].fence = code[w].fence \cup {cur}
  <2>1. retInst \in Call \cup {NoSite}
    BY <1>0 DEF LoopOK
  <2>. QED BY <1>0, <2>1, EndSubProgramEffect
<1>3. \A w \in DOMAIN code : code[w].fence \subseteq code'[w].fence
  BY <1>2
<1>4. Renamed(Home(cur), cur)
  <2>1. PICK n \in DOMAIN ops :
           /\ fixMap[cur].stackIdx = PlaceIdx(ops[n]) - 1 /\ PlaceIdx(ops[n]) \in 2 .. Len(Chain)
           /\ cur = Chain[PlaceIdx(ops[n])]
    BY <1>0, FrameSites
  <2>2. frame + 1 = PlaceIdx(ops[n]) /\ frame + 1 \in 2 .. frame + 1
    BY <1>0, <2>1 DEF LoopOK
  <2>. QED BY <1>0, <2>1, <2>2 DEF LoopRenamed
<1>5. ClonesBelow' /\ WaysRenamed'
  BY <1>0, <1>2, CallsStay
<1>6. ASSUME NEW y \in Fixed, y \notin todo
      PROVE  /\ fixMap[y].type \in Primitive => Marked(y, fixMap[y].type)'
             /\ fixMap[y].type \in PST => code'[Home(y)].calls[y] # Names(y)
             /\ fixMap[y].type = "PST" => y \in code'[Home(y)].fence
  <2>1. Home(y) \in DOMAIN code
    BY <1>0, <1>1, <1>6, ProgramAssumption DEF ModuleOK, Home
  <2>2. CASE y = cur
    <3>1. fixMap[y].type \notin Primitive
      BY <1>0, <2>2, Apart
    <3>2. code'[Home(y)].calls[y] # Names(y)
      BY <1>2, <1>4, <2>1, <2>2 DEF Renamed
    <3>3. fixMap[y].type = "PST" => y \in code'[Home(y)].fence
      BY <1>2, <2>1, <2>2
    <3>. QED BY <3>1, <3>2, <3>3
  <2>3. CASE y # cur
    <3>2. /\ fixMap[y].type \in Primitive => Marked(y, fixMap[y].type)
          /\ fixMap[y].type \in PST => code[Home(y)].calls[y] # Names(y)
          /\ fixMap[y].type = "PST" => y \in code[Home(y)].fence
      BY <1>0, <1>6, <2>3 DEF AppliedThere, Renamed
    <3>3. /\ code[Home(y)].flush = code'[Home(y)].flush /\ code[Home(y)].fence \subseteq code'[Home(y)].fence
          /\ code'[Home(y)].calls = code[Home(y)].calls
      BY <1>2, <1>3, <2>1
    <3>4. fixMap[y].type \in Primitive => Marked(y, fixMap[y].type)'
      BY <1>0, <3>2, <3>3 DEF Marked
    <3>. QED BY <3>2, <3>3, <3>4
  <2>. QED BY <2>2, <2>3
<1>7. AppliedThere'
  <2>1. fixMap' = fixMap /\ Fixed' = Fixed /\ todo' = todo
    BY <1>0, <1>1
  <2>. QED BY <1>6, <2>1 DEF AppliedThere, Renamed, Marked
<1>. QED BY <1>0, <1>5, <1>7 DEF WayOK, LoopRenamed

\* Every step keeps the ways to the places together.
LEMMA StepWay ==
    ASSUME Inv, TInv, NoneAtOdds, CallsOK, WayOK, [Next]_vars
    PROVE  WayOK'
<1>1. CASE AddPrimitive \/ AddIndirect \/ \E s \in todo : Raise(s) \/ PassOver(s)
  BY <1>1 DEF AddPrimitive, AddIndirect, Computing, Raise, PassOver, WayOK
<1>2. CASE EndCompute \/ EndRaise
  BY <1>2, LinkedWay
<1>3. CASE \E s \in todo : ApplyPrimitive(s) \/ ApplySubProgram(s)
  BY <1>3, ApplyWay
<1>4. CASE CloneFrame \/ ReplaceExternal \/ EndSubProgram
  BY <1>4, FrameWay, EndSubProgramWay
<1>5. CASE ComputeFails \/ FrameFails \/ FenceFails \/ EndApply
  BY <1>5 DEF ComputeFails, FrameFails, FenceFails, EndApply, Abort, WayOK
<1>6. CASE \E s \in todo : RaiseFails(s) \/ GeneratorFails(s)
  BY <1>6 DEF RaiseFails, GeneratorFails, Abort, WayOK
<1>7. CASE UNCHANGED vars
  <2>1. UNCHANGED program /\ UNCHANGED <<code, phase, fixMap, todo, cur, frame>>
    BY <1>7 DEF vars, program
  <2>2. Fixed' = Fixed /\ Chain' = Chain
    BY <2>1 DEF Fixed, Chain
  <2>3. ops' = ops /\ \A n : PlaceIdx(ops[n])' = PlaceIdx(ops[n])
    BY <2>1, RequestsRigid
  <2>4. (ClonesBelow => ClonesBelow') /\ (WaysRenamed => WaysRenamed') /\ (LoopRenamed => LoopRenamed')
        /\ (AppliedThere => AppliedThere')
    <3>1. ClonesBelow => ClonesBelow'
      BY <2>1, <2>3 DEF ClonesBelow, Below
    <3>2. WaysRenamed => WaysRenamed'
      BY <2>1, <2>2 DEF WaysRenamed, GoesOn, Renamed
    <3>3. LoopRenamed => LoopRenamed'
      BY <2>1, <2>2 DEF LoopRenamed, Renamed
    <3>4. AppliedThere => AppliedThere'
      BY <2>1, <2>2 DEF AppliedThere, Renamed, Marked
    <3>. QED BY <3>1, <3>2, <3>3, <3>4
  <2>. QED BY <2>1, <2>4 DEF WayOK
<1>. QED BY <1>1, <1>2, <1>3, <1>4, <1>5, <1>6, <1>7 DEF Next, Finished

-----------------------------------------------------------------------------
(* The place of a request is on its stack.                                 *)

\* If the heuristic has candidates, one of them is the best.
LEMMA BestExists ==
    ASSUME ProgramOK, NEW st, IsStack(st), Candidates(st) # {}
    PROVE  \E h \in Candidates(st) : IsBest(st, h)
<1>. DEFINE C == Candidates(st)
            Upto(n, h) == h \in C /\ h <= n /\ \A m \in C : m <= n =>
                             score[st[m]] < score[st[h]] \/ (score[st[m]] = score[st[h]] /\ h <= m)
            D == {n \in Nat : (\A m \in C : ~(m <= n)) \/ (\E h \in C : Upto(n, h))}
<1>1. Len(st) \in Nat /\ C \subseteq 1 .. Len(st) /\ C \subseteq Nat
  BY DEF IsStack, Candidates
<1>2. \A m \in C : score[st[m]] \in Int
  <2>. SUFFICES ASSUME NEW m \in C PROVE score[st[m]] \in Int
    OBVIOUS
  <2>1. st[m] \in Site
    BY <1>1 DEF IsStack
  <2>2. m \in 1 .. m /\ st[m] \in Mapped /\ score[st[m]] # NoAliases
    BY <1>1 DEF Candidates
  <2>3. score \in [Site -> Int \cup {NoAliases}]
    BY ProgramAssumption DEF ProgramOK
  <2>. QED BY <2>1, <2>2, <2>3
<1>. HIDE DEF C
<1>3. 0 \in D
  <2>1. \A m \in C : ~(m <= 0)
    BY <1>1
  <2>. QED BY <2>1
<1>4. ASSUME NEW n \in Nat, n \in D
      PROVE  n + 1 \in D
  <2>0. \A m \in C : m \in Nat /\ (m <= n + 1 <=> m <= n \/ m = n + 1)
    BY <1>1
  <2>1. CASE n + 1 \notin C
    <3>1. \A m \in C : m <= n + 1 <=> m <= n
      BY <2>0, <2>1
    <3>. QED BY <1>4, <3>1
  <2>2. CASE n + 1 \in C /\ \A m \in C : ~(m <= n)
    <3>1. Upto(n + 1, n + 1)
      BY <2>0, <2>2
    <3>. QED BY <2>2, <3>1
  <2>3. ASSUME n + 1 \in C, NEW h \in C, Upto(n, h)
        PROVE  n + 1 \in D
    <3>1. score[st[h]] \in Int /\ score[st[n + 1]] \in Int /\ h \in Nat /\ h <= n
      BY <1>1, <1>2, <2>3
    <3>2. CASE score[st[h]] < score[st[n + 1]]
      <4>1. ASSUME NEW m \in C, m <= n + 1
            PROVE  score[st[m]] < score[st[n + 1]] \/ (score[st[m]] = score[st[n + 1]] /\ n + 1 <= m)
        BY <1>2, <2>0, <2>3, <3>1, <3>2, <4>1
      <4>. QED BY <2>3, <4>1
    <3>3. CASE ~(score[st[h]] < score[st[n + 1]])
      <4>1. ASSUME NEW m \in C, m <= n + 1
            PROVE  score[st[m]] < score[st[h]] \/ (score[st[m]] = score[st[h]] /\ h <= m)
        <5>1. CASE m <= n
          BY <2>3, <5>1
        <5>2. CASE m = n + 1
          <6>1. PICK a, b : a = score[st[h]] /\ b = score[st[m]]
            OBVIOUS
          <6>2. a \in Int /\ b \in Int /\ ~(a < b) /\ h <= m
            BY <3>1, <3>3, <5>2, <6>1
          <6>. QED BY <6>1, <6>2
        <5>. QED BY <2>0, <4>1, <5>1, <5>2
      <4>2. h <= n + 1
        BY <3>1
      <4>. QED BY <4>1, <4>2
    <3>. QED BY <3>2, <3>3
  <2>. QED BY <1>4, <2>1, <2>2, <2>3
<1>5. Len(st) \in D
  <2>. HIDE DEF D
  <2>1. Nat \subseteq D
    BY <1>3, <1>4, SetInduction
  <2>. QED BY <1>1, <2>1
<1>6. \A m \in C : m <= Len(st)
  BY <1>1
<1>7. PICK h \in C : Upto(Len(st), h)
  BY <1>5, <1>6 DEF C
<1>. QED BY <1>6, <1>7 DEF C, IsBest

\* It is one of the indices of the stack.
LEMMA PlaceOnStack ==
    ASSUME ProgramOK, RequestsOK, NEW n \in DOMAIN ops
    PROVE  PlaceIdx(ops[n]) \in 1 .. Len(ops[n].stack)
<1>. DEFINE st == ops[n].stack
<1>1. IsStack(st) /\ Len(st) \in Nat /\ Len(st) >= 1 /\ DOMAIN st = 1 .. Len(st)
  BY DEF RequestsOK, IsStack
<1>2. CanHold(st[Len(st)])
  BY StackAssumption DEF ProgramOK
<1>. HIDE DEF st
<1>3. ASSUME ~HeuristicFails(st)
      PROVE  \E l \in DOMAIN st : IsLanding(st, l)
  <2>1. PICK h \in 1 .. Len(st) : IsHeuristicIdx(st, h)
    <3>1. CASE Heuristic
      <4>1. PICK h \in Candidates(st) : IsBest(st, h)
        BY <1>1, <1>3, <3>1, BestExists DEF HeuristicFails
      <4>. QED BY <1>1, <3>1, <4>1 DEF IsHeuristicIdx, Candidates
    <3>2. CASE ~Heuristic
      BY <1>1, <3>2 DEF IsHeuristicIdx
    <3>. QED BY <3>1, <3>2
  <2>. DEFINE T == {m \in h .. Len(st) : CanHold(st[m])}
  <2>2. T \in SUBSET Nat /\ Len(st) \in T
    BY <1>1, <1>2, <2>1
  <2>3. PICK l \in T : \A m \in T : l <= m
    BY <2>2, Least
  <2>4. l \in 1 .. Len(st) /\ h \in 1 .. l /\ CanHold(st[l])
    BY <1>1, <2>1, <2>3
  <2>5. \A m \in h .. (l - 1) : ~CanHold(st[m])
    BY <1>1, <2>1, <2>3, <2>4
  <2>6. IsLanding(st, l)
    BY <2>1, <2>4, <2>5 DEF IsLanding
  <2>. QED BY <1>1, <2>4, <2>6
<1>4. PlaceIdx(ops[n]) = IF (Raising \/ st[1] \notin Mapped) /\ ~HeuristicFails(st)
                         THEN CHOOSE l \in DOMAIN st : IsLanding(st, l) ELSE 1
  BY DEF PlaceIdx, st
<1>5. PlaceIdx(ops[n]) \in 1 .. Len(st)
  BY <1>1, <1>3, <1>4
<1>. QED BY <1>5 DEF st

\* It depends on the stack only.
IdxOf(st) ==
    IF (Raising \/ st[1] \notin Mapped) /\ ~HeuristicFails(st) THEN CHOOSE l \in DOMAIN st : IsLanding(st, l) ELSE 1

LEMMA PlaceOfStack == \A op : PlaceIdx(op) = IdxOf(op.stack)
BY DEF PlaceIdx, IdxOf

\* The path of a request goes through the original of the function of its place.
LEMMA PlaceAtHome ==
    ASSUME ModuleOK, NoneAtOdds, ClonesBelow, NEW n \in DOMAIN ops, NEW p, IsPath(p, ops[n].stack),
           PlaceIdx(ops[n]) \in 1 .. Len(ops[n].stack), Place(ops[n]) \in Mapped
    PROVE  p[PlaceIdx(ops[n])] = Home(Place(ops[n]))
<1>1. PICK v : v = p[PlaceIdx(ops[n])]
  OBVIOUS
<1>2. v \in DOMAIN code /\ v[1] = FnOf[Place(ops[n])]
  BY <1>1 DEF IsPath, Place
<1>3. v \in Version /\ v = <<v[1], v[2]>> /\ v[2] \in Nat
  BY <1>2, VersionIsReal DEF ModuleOK
<1>4. ~(v[2] > 0)
  <2>. SUFFICES ASSUME v[2] > 0 PROVE FALSE
    OBVIOUS
  <2>1. v[1] \notin External
    BY <1>2 DEF Mapped
  <2>2. PICK m \in DOMAIN ops : FnOf[Place(ops[n])] \in Below(ops[m])
    BY <1>2, <2>1 DEF ClonesBelow
  <2>. QED BY <2>2 DEF NoneAtOdds, AtOdds
<1>. QED BY <1>1, <1>2, <1>3, <1>4 DEF Home

\* On the stack of a fix that was applied the calls up to its place are re-pointed,
\* so the store is run in a clone, or in a PMFIXER_ function.
LEMMA OwnerReachesClone ==
    ASSUME ModuleOK, ProgramOK, RequestsOK, MapOK, PlacesOK, WaysRenamed,
           NEW y \in Fixed, fixMap[y].type \in PST, Renamed(Home(y), y),
           NEW p, IsPath(p, fixMap[y].dynStack), p[fixMap[y].stackIdx + 1] = Home(y)
    PROVE  p[1] \in DOMAIN code /\ p[1][2] > 0
<1>. DEFINE st == fixMap[y].dynStack
            I == fixMap[y].stackIdx + 1
            D == {k \in Nat : k <= I - 2 => Renamed(p[I - k], st[I - k])}
<1>1. /\ IsStack(st) /\ I \in 2 .. Len(st) /\ y = st[I] /\ \A k \in 2 .. I : st[k] \in Call
  <2>1. PICK n \in DOMAIN ops :
             /\ fixMap[y].dynStack = ops[n].stack /\ IsStack(fixMap[y].dynStack)
             /\ PlaceIdx(ops[n]) \in 2 .. Len(fixMap[y].dynStack) /\ fixMap[y].stackIdx = PlaceIdx(ops[n]) - 1
             /\ y = Place(ops[n]) /\ y = fixMap[y].dynStack[fixMap[y].stackIdx + 1]
             /\ \A k \in 2 .. fixMap[y].stackIdx + 1 : fixMap[y].dynStack[k] \in Call
    BY WaySites
  <2>. QED BY <2>1 DEF IsStack
<1>2. I \in Nat /\ I >= 2 /\ Len(st) \in Nat /\ I <= Len(st)
  BY <1>1 DEF IsStack
<1>3. \A k \in 1 .. Len(st) : p[k] \in DOMAIN code /\ p[k][1] = FnOf[st[k]]
  BY DEF IsPath
<1>4. \A k \in 1 .. Len(st) - 1 : p[k] = Reached(st, k, p[k + 1])
  BY DEF IsPath
<1>5. p[I] = Home(y)
  OBVIOUS
<1>. HIDE DEF st, I
\* From a re-pointed call the path goes to the version it names.
<1>6. ASSUME NEW k \in 2 .. I, Renamed(p[k], st[k])
      PROVE  p[k - 1] = code[p[k]].calls[st[k]] /\ p[k - 1] \in DOMAIN code /\ k - 1 \in 1 .. Len(st)
             /\ p[k - 1][1] = CalleeOf[st[k]] /\ CalleeOf[st[k]] # Indirect
  <2>1. k \in 1 .. Len(st) /\ k - 1 \in 1 .. Len(st) - 1 /\ k - 1 \in 1 .. Len(st) /\ (k - 1) + 1 = k
    BY <1>2
  <2>2. p[k] \in DOMAIN code /\ p[k - 1] = Reached(st, k - 1, p[k])
    BY <1>3, <1>4, <2>1
  <2>3. /\ CalleeOf[st[k]] # Indirect /\ code[p[k]].calls[st[k]] \in DOMAIN code
        /\ code[p[k]].calls[st[k]][1] = CalleeOf[st[k]]
    BY <1>1, <1>6, <2>2, RenamedIsVersion
  <2>4. code[p[k]].calls[st[k]] # Indirect
    BY <2>3, VersionIsReal DEF ModuleOK
  <2>. QED BY <2>1, <2>2, <2>3, <2>4 DEF Reached
<1>7. 0 \in D
  BY <1>1, <1>2, <1>5
<1>8. ASSUME NEW n \in Nat, n \in D
      PROVE  n + 1 \in D
  <2>. SUFFICES ASSUME n + 1 <= I - 2
                PROVE  Renamed(p[I - (n + 1)], st[I - (n + 1)])
    OBVIOUS
  <2>1. PICK k : k = I - n
    OBVIOUS
  <2>2. k \in 3 .. I /\ k \in 2 .. I /\ k - 1 = I - (n + 1) /\ k \in 1 .. Len(st)
    BY <1>2, <2>1
  <2>3. Renamed(p[k], st[k])
    BY <1>2, <1>8, <2>1
  <2>4. Renamed(code[p[k]].calls[st[k]], st[k - 1])
    BY <1>3, <2>2, <2>3 DEF WaysRenamed, GoesOn, Renamed, st, I
  <2>5. p[k - 1] = code[p[k]].calls[st[k]]
    BY <1>6, <2>2, <2>3
  <2>. QED BY <2>2, <2>4, <2>5
<1>9. I - 2 \in D
  <2>1. Nat \subseteq D
    <3>. HIDE DEF D
    <3>. QED BY <1>7, <1>8, SetInduction
  <2>. QED BY <1>2, <2>1
<1>10. Renamed(p[2], st[2])
  <2>1. I - 2 \in Nat /\ I - (I - 2) = 2
    BY <1>2
  <2>. QED BY <1>9, <2>1
<1>11. p[1] = code[p[2]].calls[st[2]] /\ p[1] \in DOMAIN code /\ p[1][1] = CalleeOf[st[2]] /\ CalleeOf[st[2]] # Indirect
  <2>1. 2 \in 2 .. I /\ 2 - 1 = 1
    BY <1>2
  <2>. QED BY <1>6, <1>10, <2>1
<1>12. p[1] # <<CalleeOf[st[2]], 0>>
  BY <1>10, <1>11 DEF Renamed, Names
<1>13. p[1][2] \in Nat /\ p[1] = <<p[1][1], p[1][2]>>
  BY <1>11, VersionIsReal DEF ModuleOK
<1>. QED BY <1>11, <1>12, <1>13

\* When the last fix has been applied every request is repaired.
LEMMA EndServes ==
    ASSUME Inv, TInv, CallsOK, BodyOK, NoneAtOdds, ServedOK, WayOK, phase = "apply", todo = {}, NEW n \in DOMAIN ops
    PROVE  IsRepaired(ops[n])
<1>. DEFINE st == ops[n].stack
            t == ops[n].type
            x == st[1]
            y == Place(ops[n])
            p == Path(st)
<1>0. /\ ProgramOK /\ RequestsOK /\ MapOK /\ PlacesOK /\ ModuleOK
      /\ ClonesBelow /\ WaysRenamed /\ AppliedThere /\ cur = NoSite
  BY DEF Inv, TInv, WayOK, CallsOK
<1>1. IsCallStack(st) /\ IsStack(st) /\ IsPath(p, st)
  BY <1>0, StacksAreCallStacks, PathIsPath DEF IsCallStack
<1>2. /\ Len(st) \in Nat /\ 1 \in 1 .. Len(st) /\ x \in Store /\ x \in Site
      /\ DOMAIN p = 1 .. Len(st) /\ p[1] \in DOMAIN code /\ p[1][1] = FnOf[x]
  <2>1. Len(st) \in Nat /\ 1 \in 1 .. Len(st) /\ x \in Store
    BY <1>1 DEF IsStack
  <2>. QED BY <1>1, <2>1, Apart DEF IsPath
<1>3. IsRepaired(ops[n]) <=> Served(t, st)
  BY RepairedIsServed
<1>. HIDE DEF st, t, x, p
<1>4. \A z \in Fixed : z \notin todo /\ z # cur /\ z \in Site
  BY <1>0, ProgramAssumption DEF Fixed
\* A fix at the store has marked it.
<1>5. ASSUME Direct(n)
      PROVE  x \in Mapped /\ Marked(x, t)
  <2>1. x \in Mapped /\ x \in Fixed /\ Covers(fixMap[x], ops[n])
    BY <1>5 DEF Direct, Handled, HasLocation, x, st
  <2>2. fixMap[x].type \in Primitive
    BY <1>0, <1>2, <2>1, Apart DEF Fixed, MapOK, HasPlace, FixDesc, FixType
  <2>3. Marked(x, fixMap[x].type)
    BY <1>0, <1>4, <2>1, <2>2 DEF AppliedThere
  <2>. QED BY <2>1, <2>3 DEF Marked, Covers, t
\* In a clone, or a PMFIXER_ function, every store is flushed.
<1>6. p[1][2] > 0 => x \in code[p[1]].flush
  BY <1>0, <1>2 DEF BodyOK, StoresOf
<1>7. ~(p[1][2] > 0) => p[1] = Home(x)
  <2>1. p[1] = <<p[1][1], p[1][2]>> /\ p[1][2] \in Nat
    BY <1>0, <1>2, VersionIsReal DEF ModuleOK
  <2>. QED BY <1>2, <2>1 DEF Home
<1>8. CASE ~(PlaceIdx(ops[n]) > 1)
  <2>1. Direct(n)
    BY <1>8 DEF ServedOK
  <2>2. PlaceIdx(ops[n]) = 1 /\ y = x
    <3>1. PlaceIdx(ops[n]) = 1
      BY <1>0, <1>2, <1>8, PlaceOnStack DEF st
    <3>. QED BY <3>1 DEF Place, x, st
  <2>3. p[1] = Home(x)
    BY <1>0, <1>1, <1>2, <1>5, <2>1, <2>2, PlaceAtHome DEF st
  <2>4. /\ AddsFlush(t) => x \in code[p[1]].flush
        /\ AddsFence(t) => x \in code[p[1]].fence
    BY <1>5, <2>1, <2>3 DEF Marked
  <2>. QED BY <1>2, <1>3, <2>4 DEF Served, x, p
<1>9. CASE PlaceIdx(ops[n]) > 1
  <2>1. Above(n) /\ (Owns(n) \/ Direct(n))
    BY <1>9 DEF ServedOK, Owns
  <2>2. PlaceIdx(ops[n]) \in 2 .. Len(st) /\ y \in Fixed /\ Covers(fixMap[y], ops[n]) /\ y = st[PlaceIdx(ops[n])]
    BY <2>1 DEF Above, st, Place
  <2>3. fixMap[y].type \in PST /\ CanHold(y) /\ y \in Site
    <3>1. y \in Call
      BY <1>0, <2>1, AbovePlace
    <3>2. fixMap[y].type \in PST
      BY <1>0, <2>2, <3>1, Apart DEF Fixed, MapOK, HasPlace, FixDesc, FixType
    <3>. QED BY <1>0, <1>4, <2>2, <3>2 DEF PlacesOK, FromRequest, Fixed
  <2>. DEFINE i == PlaceIdx(ops[n])
  <2>4. i \in 1 .. Len(st) /\ p[i] = Home(y)
    <3>1. i \in 1 .. Len(st) /\ y \in Mapped
      BY <2>2, <2>3 DEF CanHold
    <3>. QED BY <1>0, <1>1, <3>1, PlaceAtHome DEF st
  <2>. HIDE DEF i, y
  <2>5. Renamed(Home(y), y) /\ (fixMap[y].type = "PST" => y \in code[Home(y)].fence)
    BY <1>0, <1>4, <2>2, <2>3 DEF AppliedThere
  <2>6. AddsFence(t) => \E k \in DOMAIN p : st[k] \in code[p[k]].fence
    <3>1. AddsFence(t) => fixMap[y].type = "PST"
      BY <2>2, <2>3 DEF Covers, AddsFence, PST, t
    <3>. QED BY <1>2, <2>2, <2>4, <2>5, <3>1 DEF i
  <2>7. AddsFlush(t) => x \in code[p[1]].flush
    <3>1. CASE Owns(n)
      <4>1. fixMap[y].dynStack = st
        BY <3>1 DEF Owns, y, st
      <4>2. fixMap[y].stackIdx + 1 = i
        <5>1. PICK m \in DOMAIN ops :
                 /\ fixMap[y].dynStack = ops[m].stack /\ PlaceIdx(ops[m]) \in 2 .. Len(fixMap[y].dynStack)
                 /\ fixMap[y].stackIdx = PlaceIdx(ops[m]) - 1
          BY <1>0, <2>2, <2>3, WaySites
        <5>2. PlaceIdx(ops[m]) = i
          BY <4>1, <5>1, PlaceOfStack DEF i, st
        <5>3. fixMap[y].stackIdx + 1 = PlaceIdx(ops[m])
          BY <5>1
        <5>. QED BY <5>2, <5>3
      <4>3. p[1][2] > 0
        BY <1>0, <1>1, <2>2, <2>3, <2>4, <2>5, <4>1, <4>2, OwnerReachesClone
      <4>. QED BY <1>6, <4>3
    <3>2. CASE Direct(n)
      BY <1>5, <1>6, <1>7, <3>2 DEF Marked
    <3>. QED BY <2>1, <3>1, <3>2
  <2>. QED BY <1>3, <2>6, <2>7 DEF Served, x, p
<1>. QED BY <1>8, <1>9

-----------------------------------------------------------------------------
(* BugFixer implements Repair.                                             *)

ServesOK == NoneAtOdds => TypesAgree /\ ServedOK /\ WayOK
RInv == Inv /\ TInv /\ CallsOK /\ LeftOK /\ BodyOK /\ ServesOK

\* Before the first fix nothing has to be served.
LEMMA InitServes == Init => ServesOK
<1>. SUFFICES ASSUME Init PROVE TypesAgree /\ ServedOK /\ WayOK
  BY DEF ServesOK
<1>1. phase = "compute" /\ nextOp = 1 /\ Fixed = {}
  BY DEF Init, NoFixYet, Fixed
<1>. QED BY <1>1 DEF TypesAgree, ServedOK, WayOK

\* The program under repair does not change.
LEMMA ProgramStays == [Next]_vars => UNCHANGED program
BY DEF Next, vars, program, AddPrimitive, AddIndirect, ComputeFails, EndCompute, Raise, PassOver, RaiseFails,
       ApplyPrimitive, ApplySubProgram, GeneratorFails, EndRaise, CloneFrame, ReplaceExternal, FrameFails,
       EndSubProgram, FenceFails, EndApply, Finished, Abort

\* The invariant of the refinement is inductive.
LEMMA StepServes ==
    ASSUME RInv, [Next]_vars
    PROVE  RInv'
<1>1. UNCHANGED program
  BY ProgramStays
<1>2. Inv' /\ TInv' /\ CallsOK' /\ LeftOK' /\ BodyOK'
  BY Step, StepT, StepCalls, StepLeft, StepBody DEF RInv
<1>3. ServesOK'
  BY <1>1, OddsRigid, StepServed, StepWay DEF RInv, ServesOK
<1>. QED BY <1>2, <1>3 DEF RInv

\* The reports that are still open, and what doRepair answers.
OpenReports == {n \in DOMAIN ops : ~IsRepaired(ops[n])}
Answer == IF phase \in {"done", "abort"} THEN phase ELSE "none"

\* What a step does to the open reports and to the answer.
LEMMA StepRefines ==
    ASSUME RInv, RInv', [Next]_vars
    PROVE  /\ OpenReports' \subseteq OpenReports
           /\ UNCHANGED code => OpenReports' = OpenReports
           /\ NoneAtOdds' = NoneAtOdds
           /\ \/ Answer = "none" /\ Answer' = "none"
              \/ Answer = "none" /\ Answer' = "abort" /\ UNCHANGED code
              \/ Answer = "none" /\ Answer' = "done" /\ (NoneAtOdds => OpenReports' = {})
              \/ UNCHANGED code /\ Answer' = Answer
<1>1. UNCHANGED program /\ ops' = ops
  BY ProgramStays DEF program
<1>2. \A n \in DOMAIN ops : /\ IsRepaired(ops[n]) => IsRepaired(ops[n])'
                            /\ UNCHANGED code => (IsRepaired(ops[n]) <=> IsRepaired(ops[n])')
  BY <1>1, StaysRepaired DEF RInv
<1>3. /\ OpenReports' \subseteq OpenReports
      /\ UNCHANGED code => OpenReports' = OpenReports
  BY <1>1, <1>2 DEF OpenReports
<1>4. NoneAtOdds' = NoneAtOdds
  BY <1>1, OddsRigid DEF NoneAtOdds
<1>5. CASE EndApply
  <2>1. Answer = "none" /\ Answer' = "done" /\ phase = "apply" /\ todo = {}
    BY <1>5 DEF EndApply, Answer
  <2>2. NoneAtOdds => \A n \in DOMAIN ops : IsRepaired(ops[n])
    BY <2>1, EndServes DEF RInv, ServesOK
  <2>3. NoneAtOdds => OpenReports' = {}
    BY <1>1, <1>2, <2>2 DEF OpenReports
  <2>. QED BY <1>3, <1>4, <2>1, <2>3
<1>6. CASE ComputeFails \/ FrameFails \/ FenceFails \/ \E s \in todo : RaiseFails(s) \/ GeneratorFails(s)
  <2>1. Answer = "none" /\ Answer' = "abort" /\ UNCHANGED code
    BY <1>6 DEF ComputeFails, FrameFails, FenceFails, RaiseFails, GeneratorFails, Abort, Computing, InLoop,
                IsBeyondPMTest, Answer
  <2>. QED BY <1>3, <1>4, <2>1
<1>7. CASE AddPrimitive \/ AddIndirect \/ EndCompute \/ EndRaise \/ CloneFrame \/ ReplaceExternal \/ EndSubProgram
  <2>1. Answer = "none" /\ Answer' = "none"
    BY <1>7 DEF AddPrimitive, AddIndirect, EndCompute, EndRaise, CloneFrame, ReplaceExternal, EndSubProgram,
                Computing, InLoop, Answer
  <2>. QED BY <1>3, <1>4, <2>1
<1>8. CASE \E s \in todo : Raise(s) \/ PassOver(s) \/ ApplyPrimitive(s) \/ ApplySubProgram(s)
  <2>1. Answer = "none" /\ Answer' = "none"
    BY <1>8 DEF Raise, PassOver, ApplyPrimitive, ApplySubProgram, Answer
  <2>. QED BY <1>3, <1>4, <2>1
<1>9. CASE UNCHANGED vars
  <2>1. UNCHANGED code /\ Answer' = Answer
    BY <1>9 DEF vars, Answer
  <2>. QED BY <1>3, <1>4, <2>1
<1>. QED BY <1>5, <1>6, <1>7, <1>8, <1>9 DEF Next, Finished

\* doRepair only closes reports, and when no two are at odds it is done only
\* when all are closed: whatever the program, the reports and the scores.
THEOREM RepairIsImplemented == Spec => ImplementsRepair
<1>1. Init => Promise!Init
  <2>. SUFFICES ASSUME Init PROVE Promise!Init
    OBVIOUS
  <2>1. ops \in Seq(Op) /\ phase = "compute"
    BY StackAssumption DEF Init
  <2>2. {n \in DOMAIN ops : ~IsRepaired(ops[n])} \in SUBSET (Nat \ {0})
    BY <2>1
  <2>3. NoneAtOdds \in BOOLEAN
    BY DEF NoneAtOdds
  <2>. QED BY <2>1, <2>2, <2>3 DEF Promise!Init
<1>2. Init => RInv
  BY InitInv, InitTInv, InitCalls, InitLeft, InitBody, InitServes DEF RInv
<1>3. RInv /\ [Next]_vars => RInv'
  BY StepServes
<1>4. RInv /\ RInv' /\ [Next]_vars => [Promise!Next]_(Promise!vars)
  <2>. SUFFICES ASSUME RInv, RInv', [Next]_vars PROVE [Promise!Next]_(Promise!vars)
    OBVIOUS
  <2>1. /\ OpenReports' \subseteq OpenReports
        /\ UNCHANGED code => OpenReports' = OpenReports
        /\ NoneAtOdds' = NoneAtOdds
        /\ \/ Answer = "none" /\ Answer' = "none"
           \/ Answer = "none" /\ Answer' = "abort" /\ UNCHANGED code
           \/ Answer = "none" /\ Answer' = "done" /\ (NoneAtOdds => OpenReports' = {})
           \/ UNCHANGED code /\ Answer' = Answer
    BY StepRefines
  <2>. QED BY <2>1 DEF Promise!Next, Promise!vars, Promise!Close, Promise!Finish, Promise!GiveUp, OpenReports, Answer
<1>. QED BY <1>1, <1>2, <1>3, <1>4, PTL DEF Spec, ImplementsRepair, Promise!Spec
=============================================================================
