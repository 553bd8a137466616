-------------------------- MODULE LocationsProofs --------------------------
(***************************************************************************)
(* For every module and every stack: what resolveLocations makes of it.    *)
(***************************************************************************)
EXTENDS Locations, TLAPS

\* The frames keep their files and lines, those below the caller their names.
Kept ==
    /\ \A k \in DOMAIN real : stack[k].file = Seen[real[k].file] /\ stack[k].line = real[k].line
    /\ \A k \in DOMAIN real : k < i => stack[k].function = TraceName[real[k].fn]

\* From the caller up the frames are right, and found where they can be.
Right == NoCopies => \A k \in i .. Len(real) : Contains(stack[k]) => stack[k].function = real[k].fn
Found == NoCopies => \A k \in i .. Len(real) : IsReached(k) => Contains(stack[k])

Ends ==
    /\ pc = "load" => stack[1] = location
    /\ pc = "done" => i = 1 /\ location = stack[1]

Inv == TypeOK /\ Kept /\ Right /\ Found /\ Ends

LEMMA RealOK ==
    ASSUME real \in Stacks
    PROVE  /\ real \in Seq(Inst) /\ Len(real) \in Nat \ {0} /\ DOMAIN real = 1 .. Len(real)
           /\ \A k \in DOMAIN real : /\ real[k] \in Inst /\ real[k].fn \in Fn
                                     /\ real[k].file \in File /\ real[k].line \in Int
                                     /\ real[k].pos \in Nat
                                     /\ Seen[real[k].file] \in File
                                     /\ TraceName[real[k].fn] \in Name
<1>1. real \in Seq(Inst) /\ Len(real) >= 1
  BY StackAssumption
<1>2. \A k \in DOMAIN real : real[k] \in Inst
  BY <1>1
<1>. QED BY <1>1, <1>2, ModuleAssumption

\* The place of an instruction of the stack is found in its function.
LEMMA PlaceIsThere ==
    ASSUME real \in Stacks, NEW k \in DOMAIN real, NEW li,
           li.file = Seen[real[k].file], li.line = real[k].line, li.function = real[k].fn,
           real[k] \in Debug
    PROVE  real[k] \in At(li) /\ real[k] \in Insts(li)
<1>1. <<real[k].file, Seen[real[k].file]>> \in SameFile
  BY RealOK, NameAssumption
<1>2. real[k] \in At(li)
  BY <1>1 DEF At, SameLocation
<1>. QED BY <1>2, RealOK DEF Insts

\* A frame that is found has debug information.
LEMMA FoundHasDebug ==
    ASSUME real \in Stacks, NEW k \in DOMAIN real, NEW li,
           li.file = Seen[real[k].file], li.line = real[k].line, Contains(li)
    PROVE  real[k] \in Debug
BY RealOK, StackAssumption DEF Contains, At, SameLocation

\* Without copies, a name that is the source name, or that and a suffix, is
\* found only if it is the right one.
LEMMA NameIsRight ==
    ASSUME real \in Stacks, NoCopies, NEW k \in DOMAIN real, NEW li,
           li.file = Seen[real[k].file], li.line = real[k].line,
           Occurs[li.function, TraceName[real[k].fn]] \in {"exact", "dot"},
           Contains(li)
    PROVE  li.function = real[k].fn
<1>1. PICK j \in Debug : SameLocation(j, li)
  BY DEF Contains, At
<1>2. ~IsCopy(j.fn, real[k])
  BY <1>1 DEF NoCopies, SameLocation
<1>. QED BY <1>1, <1>2 DEF IsCopy, SameLocation

LEMMA SourceNameIsExact ==
    ASSUME real \in Stacks, NEW k \in DOMAIN real, NEW li,
           li.function = TraceName[real[k].fn], Contains(li)
    PROVE  Occurs[li.function, TraceName[real[k].fn]] = "exact"
<1>1. li.function \in Fn
  BY ModuleAssumption DEF Contains, At, SameLocation, Debug
<1>. QED BY <1>1, RealOK, NameAssumption

LEMMA InitInv == Init => Inv
<1>. SUFFICES ASSUME Init PROVE Inv
  OBVIOUS
<1>. USE RealOK DEF Init
<1>1. \A k \in DOMAIN real : Traced(real[k]) \in LocationInfo
  BY DEF Traced, LocationInfo
<1>2. TypeOK
  BY <1>1 DEF TypeOK
<1>3. Kept
  BY DEF Kept, Traced
<1>4. Right
  <2>. SUFFICES ASSUME NoCopies, NEW k \in i .. Len(real), Contains(stack[k])
                PROVE  stack[k].function = real[k].fn
    BY DEF Right
  <2>1. k \in DOMAIN real /\ stack[k] = Traced(real[k])
    OBVIOUS
  <2>. QED BY <2>1, NameIsRight, SourceNameIsExact DEF Traced
<1>5. Found
  <2>. SUFFICES ASSUME NEW k \in i .. Len(real), IsReached(k)
                PROVE  Contains(stack[k])
    BY DEF Found
  <2>1. k = Len(real) /\ k \in DOMAIN real /\ stack[k] = Traced(real[k])
    OBVIOUS
  <2>2. real[k] \in Debug /\ TraceName[real[k].fn] = real[k].fn
    BY <2>1 DEF IsReached
  <2>. QED BY <2>1, <2>2, PlaceIsThere DEF Traced, Contains
<1>6. Ends
  BY DEF Ends
<1>. QED BY <1>2, <1>3, <1>4, <1>5, <1>6 DEF Inv

\* A caller that is found and right is the instruction that was executing.
LEMMA CallerIsReal ==
    ASSUME Inv, NoCopies, Looking, Contains(Caller)
    PROVE  /\ real[i] \in Debug /\ real[i] \in Insts(Caller)
           /\ Caller.function = real[i].fn
           /\ i \in DOMAIN real /\ i - 1 \in DOMAIN real
           /\ Callee.function = TraceName[real[i - 1].fn]
           /\ real[i].callee \in {real[i - 1].fn, Indirect}
<1>1. i \in DOMAIN real /\ i - 1 \in DOMAIN real /\ i \in i .. Len(real) /\ real \in Stacks
  BY RealOK DEF Inv, TypeOK, Looking
<1>2. Caller.file = Seen[real[i].file] /\ Caller.line = real[i].line
  BY <1>1 DEF Inv, Kept, Caller
<1>3. Caller.function = real[i].fn
  BY <1>1 DEF Inv, Right, Caller
<1>4. real[i] \in Debug
  BY <1>1, <1>2, FoundHasDebug
<1>5. real[i] \in Insts(Caller)
  BY <1>1, <1>2, <1>3, <1>4, PlaceIsThere
<1>6. Callee.function = TraceName[real[i - 1].fn]
  BY <1>1, RealOK DEF Inv, Kept, Callee, Looking
<1>7. real[i].callee \in {real[i - 1].fn, Indirect}
  BY <1>1, RealOK, StackAssumption DEF Looking
<1>. QED BY <1>1, <1>3, <1>4, <1>5, <1>6, <1>7

\* It is among the possible calls.
LEMMA CallerIsPossible ==
    ASSUME Inv, NoCopies, Looking, Contains(Caller)
    PROVE  real[i] \in PossibleCallSites
<1>1. real[i - 1].fn \in Fn
  BY CallerIsReal, RealOK DEF Inv, TypeOK
<1>2. IsPossible(real[i])
  BY <1>1, CallerIsReal, NameAssumption DEF IsPossible
<1>. QED BY <1>2, CallerIsReal DEF PossibleCallSites

\* So the calls of one function are of the right one.
LEMMA CalledIsRight ==
    ASSUME Inv, NoCopies, Looking, Contains(Caller), NEW f, IsCalled(f)
    PROVE  f = real[i - 1].fn
BY CallerIsReal, CallerIsPossible, ModuleAssumption DEF IsCalled

\* A function found by its name is one of that name.
LEMMA PointedToIsNamed ==
    ASSUME Inv, NoCopies, Looking, Contains(Caller), NEW f, IsPointedTo(f)
    PROVE  /\ f \in Fn /\ Occurs[f, TraceName[real[i - 1].fn]] \in {"exact", "dot"}
           /\ real[i].callee = Indirect
<1>1. Callee.function = TraceName[real[i - 1].fn]
  BY CallerIsReal
<1>2. real[i].callee = Indirect
  BY CallerIsPossible DEF IsPointedTo
<1>3. CASE Callee.function \in Fn
  <2>1. f = Callee.function /\ f \in Fn
    BY <1>3 DEF IsPointedTo
  <2>2. Occurs[f, f] = "exact"
    BY <2>1, NameAssumption
  <2>. QED BY <1>1, <1>2, <2>1, <2>2
<1>4. CASE Callee.function \notin Fn
  <2>1. f \in Suffixed(Callee.function)
    BY <1>4 DEF IsPointedTo
  <2>. QED BY <1>1, <1>2, <2>1 DEF Suffixed
<1>. QED BY <1>3, <1>4

-----------------------------------------------------------------------------
(* The steps.                                                              *)

\* Skipping: the next frame keeps its source name.
LEMMA SkipStep ==
    ASSUME Inv, Skip
    PROVE  Inv'
<1>. USE DEF Inv, TypeOK
<1>1. /\ UNCHANGED <<real, stack, location, pc>> /\ i' = i - 1 /\ i >= 2 /\ pc = "resolve"
      /\ i \in 1 .. Len(real) /\ i - 1 \in DOMAIN real /\ i \in DOMAIN real
      /\ Len(real) \in Nat /\ DOMAIN real = 1 .. Len(real)
  BY RealOK DEF Skip, Looking
<1>2. TypeOK' /\ Kept' /\ Ends'
  BY <1>1 DEF Kept, Ends
<1>3. NoCopies' = NoCopies /\ \A k : IsReached(k)' = IsReached(k)
  BY <1>1 DEF NoCopies, IsReached
<1>4. /\ stack[i - 1].function = TraceName[real[i - 1].fn]
      /\ stack[i - 1].file = Seen[real[i - 1].file] /\ stack[i - 1].line = real[i - 1].line
  BY <1>1 DEF Kept
<1>5. Right'
  <2>. SUFFICES ASSUME NoCopies, NEW k \in i - 1 .. Len(real), Contains(stack[k])
                PROVE  stack[k].function = real[k].fn
    BY <1>1, <1>3 DEF Right, Contains, At
  <2>1. CASE k = i - 1
    BY <1>1, <1>4, <2>1, NameIsRight, SourceNameIsExact
  <2>2. CASE k \in i .. Len(real)
    BY <2>2 DEF Right
  <2>. QED BY <1>1, <2>1, <2>2
<1>6. Found'
  <2>. SUFFICES ASSUME NoCopies, NEW k \in i - 1 .. Len(real), IsReached(k)
                PROVE  Contains(stack[k])
    BY <1>1, <1>3 DEF Found, Contains, At
  <2>1. CASE k = i - 1
    <3>1. IsReached(i) /\ real[i] \in Debug
      BY <1>1, <2>1 DEF IsReached
    <3>2. Contains(Caller)
      BY <1>1, <3>1 DEF Found, Caller
    <3>3. Valid(Caller)
      BY <1>1, <3>1, StackAssumption DEF Kept, Valid, Caller
    <3>. QED BY <2>1, <3>2, <3>3 DEF Skip, IsSkipped, Callee
  <2>2. CASE k \in i .. Len(real)
    BY <2>2 DEF Found
  <2>. QED BY <1>1, <2>1, <2>2
<1>. QED BY <1>2, <1>5, <1>6

\* Renaming: the new name is right, or of a function that has not this place.
LEMMA RenameStep ==
    ASSUME Inv, NEW f \in Fn, Rename(f)
    PROVE  Inv'
<1>. USE DEF Inv, TypeOK
<1>1. /\ UNCHANGED <<real, location, pc>> /\ i' = i - 1 /\ i >= 2 /\ pc = "resolve"
      /\ stack' = [stack EXCEPT ![i - 1].function = f]
      /\ i \in 1 .. Len(real) /\ i - 1 \in DOMAIN real /\ i \in DOMAIN real
      /\ Len(real) \in Nat /\ DOMAIN real = 1 .. Len(real)
      /\ Looking /\ Contains(Caller) /\ (IsCalled(f) \/ IsPointedTo(f))
  BY RealOK DEF Rename, Looking, IsSkipped
<1>2. /\ \A k \in DOMAIN real : k # i - 1 => stack'[k] = stack[k]
      /\ stack'[i - 1].function = f
      /\ stack'[i - 1].file = stack[i - 1].file /\ stack'[i - 1].line = stack[i - 1].line
      /\ stack' \in [1 .. Len(real) -> LocationInfo]
  BY <1>1 DEF LocationInfo
<1>3. TypeOK' /\ Ends'
  BY <1>1, <1>2 DEF Ends
<1>4. Kept'
  BY <1>1, <1>2 DEF Kept
<1>5. NoCopies' = NoCopies /\ \A k : IsReached(k)' = IsReached(k)
  BY <1>1 DEF NoCopies, IsReached
<1>6. /\ stack'[i - 1].file = Seen[real[i - 1].file] /\ stack'[i - 1].line = real[i - 1].line
  BY <1>1, <1>2 DEF Kept
<1>7. ASSUME NoCopies PROVE \/ f = real[i - 1].fn
                            \/ /\ Occurs[f, TraceName[real[i - 1].fn]] \in {"exact", "dot"}
                               /\ real[i].callee = Indirect
  BY <1>1, <1>7, CalledIsRight, PointedToIsNamed
<1>8. Right'
  <2>. SUFFICES ASSUME NoCopies, NEW k \in i - 1 .. Len(real), Contains(stack'[k])
                PROVE  stack'[k].function = real[k].fn
    BY <1>1, <1>5 DEF Right, Contains, At
  <2>1. CASE k = i - 1
    BY <1>1, <1>2, <1>6, <1>7, <2>1, NameIsRight
  <2>2. CASE k \in i .. Len(real)
    BY <1>1, <1>2, <2>2 DEF Right
  <2>. QED BY <1>1, <2>1, <2>2
<1>9. Found'
  <2>. SUFFICES ASSUME NoCopies, NEW k \in i - 1 .. Len(real), IsReached(k)
                PROVE  Contains(stack'[k])
    BY <1>1, <1>5 DEF Found, Contains, At
  <2>1. CASE k = i - 1
    <3>1. real[i - 1] \in Debug
      BY <1>1, <2>1 DEF IsReached
    <3>2. f = real[i - 1].fn
      <4>1. real[i].callee = Indirect => ~HasNamesake(real[i - 1].fn)
        BY <1>1, <2>1 DEF IsReached
      <4>. QED BY <1>7, <4>1 DEF HasNamesake
    <3>. QED BY <1>1, <1>2, <1>6, <2>1, <3>1, <3>2, PlaceIsThere DEF Contains
  <2>2. CASE k \in i .. Len(real)
    BY <1>1, <1>2, <2>2 DEF Found
  <2>. QED BY <1>1, <2>1, <2>2
<1>. QED BY <1>3, <1>4, <1>8, <1>9

\* The others leave the frames alone.
LEMMA OtherSteps ==
    ASSUME Inv, Load \/ Fail \/ Finish \/ UNCHANGED vars
    PROVE  Inv'
<1>. USE DEF Inv
<1>1. UNCHANGED <<real, stack, i>>
  BY DEF Load, Fail, Finish, vars
<1>2. Kept' /\ Right' /\ Found'
  BY <1>1 DEF Kept, Right, Found, NoCopies, IsReached, Contains, At
<1>3. TypeOK'
  <2>1. stack[1] \in LocationInfo
    BY RealOK DEF TypeOK
  <2>. QED BY <1>1, <2>1 DEF TypeOK, Load, Fail, Finish, vars
<1>4. Ends'
  BY <1>1 DEF Ends, Load, Fail, Finish, vars, Looking
<1>. QED BY <1>2, <1>3, <1>4

THEOREM InvHolds == Spec => []Inv
<1>1. Inv /\ [Next]_vars => Inv'
  BY SkipStep, RenameStep, OtherSteps DEF Next
<1>. QED BY InitInv, <1>1, PTL DEF Spec

\* The position of the search stays in the stack, and the stack keeps its
\* length, whatever frames the search skips or renames.
THEOREM LocationsTypeCorrect == Spec => []TypeOK
BY InvHolds, PTL DEF Inv

-----------------------------------------------------------------------------
\* The frames and the event are found only where they were executing, in
\* every module without copies on the stack.
THEOREM FoundIsRight == Spec => []RightWithoutCopies
<1>1. Inv => RightWithoutCopies
  BY RealOK DEF Inv, TypeOK, Right, Ends, RightWithoutCopies, MappedRight
<1>. QED BY <1>1, InvHolds, PTL

\* And neighbours call each other, which is what the repair assumes.
THEOREM NeighboursCall == Spec => []CallsNext
<1>. SUFFICES ASSUME Inv PROVE CallsNext
  BY InvHolds, PTL
<1>. SUFFICES ASSUME pc = "done", NoCopies, NEW k \in 2 .. Len(real),
                     Contains(stack[k]), Contains(stack[k - 1])
              PROVE  \E j \in At(stack[k]) : j.callee \in {stack[k - 1].function, Indirect}
  BY DEF CallsNext
<1>1. real \in Stacks /\ i = 1 /\ k \in DOMAIN real /\ k - 1 \in DOMAIN real
  BY RealOK DEF Inv, TypeOK, Ends
<1>2. stack[k].function = real[k].fn /\ stack[k - 1].function = real[k - 1].fn
  BY <1>1, RealOK DEF Inv, Right
<1>3. stack[k].file = Seen[real[k].file] /\ stack[k].line = real[k].line
  BY <1>1 DEF Inv, Kept
<1>4. real[k] \in At(stack[k])
  BY <1>1, <1>2, <1>3, FoundHasDebug, PlaceIsThere
<1>5. real[k].callee \in {real[k - 1].fn, Indirect}
  BY <1>1, RealOK, StackAssumption
<1>. QED BY <1>2, <1>4, <1>5

\* No frame that can be reached is left without a place.
THEOREM NothingMissed == Spec => []AllMapped
<1>1. Inv => AllMapped
  BY RealOK DEF Inv, TypeOK, Found, Ends, AllMapped
<1>. QED BY <1>1, InvHolds, PTL

\* Stacks of direct calls, one per line, are resolved without an assertion.
LEMMA PlainIsCalled ==
    ASSUME Inv, IsPlain, NoCopies, Looking, ~IsSkipped
    PROVE  IsCalled(real[i - 1].fn) /\ real[i - 1].fn \in Fn
<1>1. /\ Contains(Caller) /\ i \in 2 .. Len(real) /\ i \in DOMAIN real /\ i - 1 \in DOMAIN real
      /\ real[i].callee # Indirect
  <2>1. Contains(Caller)
    BY DEF IsSkipped
  <2>2. i \in 2 .. Len(real) /\ i \in DOMAIN real /\ i - 1 \in DOMAIN real
    BY RealOK DEF Looking, Inv, TypeOK
  <2>. QED BY <2>1, <2>2 DEF IsPlain
<1>2. real[i].callee = real[i - 1].fn /\ real[i - 1].fn \in Fn
  BY <1>1, CallerIsReal, RealOK DEF Inv, TypeOK
<1>3. Caller = [Traced(real[i]) EXCEPT !.function = real[i].fn]
  <2>1. Caller \in LocationInfo /\ Caller.function = real[i].fn
        /\ Caller.file = Seen[real[i].file] /\ Caller.line = real[i].line
    BY <1>1, CallerIsReal DEF Caller, Inv, TypeOK, Kept
  <2>. QED BY <2>1 DEF Traced, LocationInfo
<1>4. \A j \in PossibleCallSites : j.callee = real[i - 1].fn
  <2>. SUFFICES ASSUME NEW j \in PossibleCallSites PROVE j.callee = real[i - 1].fn
    OBVIOUS
  <2>1. j.callee \in {real[i].callee, NoCallee}
    BY <1>1, <1>3 DEF IsPlain, PossibleCallSites
  <2>2. j.callee # NoCallee
    BY ModuleAssumption DEF PossibleCallSites, IsPossible
  <2>. QED BY <1>2, <2>1, <2>2
<1>5. PossibleCallSites # {}
  BY <1>1, CallerIsPossible
<1>. QED BY <1>2, <1>4, <1>5 DEF IsCalled

THEOREM PlainNeverAborts == Spec => []PlainResolves
<1>1. Init => PlainResolves
  BY DEF Init, PlainResolves
<1>2. Inv /\ PlainResolves /\ [Next]_vars => PlainResolves'
  <2>. SUFFICES ASSUME Inv, PlainResolves, [Next]_vars, IsPlain', NoCopies', pc' = "abort"
                PROVE  FALSE
    BY DEF PlainResolves
  <2>1. real' = real
    BY DEF Next, Load, Skip, Rename, Fail, Finish, vars
  <2>2. IsPlain /\ NoCopies
    BY <2>1 DEF IsPlain, NoCopies
  <2>3. pc # "abort"
    BY <2>2 DEF PlainResolves
  <2>4. CASE Load
    BY <2>4 DEF Load, Inv, Ends
  <2>5. CASE Fail
    BY <2>2, <2>5, PlainIsCalled DEF Fail
  <2>6. CASE Skip \/ (\E f \in Fn : Rename(f)) \/ Finish \/ UNCHANGED vars
    BY <2>3, <2>6 DEF Skip, Rename, Finish, vars
  <2>. QED BY <2>4, <2>5, <2>6 DEF Next
<1>. QED BY <1>1, <1>2, InvHolds, PTL DEF Spec
=============================================================================
