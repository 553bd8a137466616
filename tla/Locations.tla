----------------------------- MODULE Locations -----------------------------
(***************************************************************************)
(* TraceInfoBuilder (BugReports.cpp): an event of the trace is loaded and  *)
(* its call stack resolved against the debug information of the module.    *)
(*                                                                         *)
(* A frame of the trace has the source name of its function.  In the       *)
(* module, which is linked from many files, static functions of the same   *)
(* name are told apart by a suffix (foo.1), C++ names are mangled, and     *)
(* memcpy is an intrinsic.  resolveLocations renames the frames, from the  *)
(* outermost in, by looking at what the line of the caller calls.          *)
(*                                                                         *)
(* "real" is the stack as it was: which instructions were executing.  The  *)
(* program does not know it; the properties compare with it.               *)
(***************************************************************************)
EXTENDS Integers, Sequences, FiniteSets

CONSTANTS
    Inst,      \* instructions: [fn, file, line, block, pos, callee]
    Fn,        \* functions, by their names in the module
    External,  \* those without debug information
    Memory,    \* memset, memcpy, memmove, strncpy
    Name,      \* names of functions in traces
    TraceName, \* the name a function has there
    Occurs,    \* where a name lies in that of a function: see How
    File,
    Seen,      \* the file name that the trace shows for a file
    SameFile,  \* one path lies in the other, with the same last part
    Indirect,  \* the callee of a call through a pointer
    NoCallee,
    Stacks     \* real stacks: instructions, the innermost first

\* n is the name of f, is followed by a dot in it, lies in it elsewhere.
How == {"exact", "dot", "inside", "none"}

Debug == {j \in Inst : j.fn \notin External}

ASSUME ModuleAssumption ==
    /\ \A j \in Inst : /\ j.fn \in Fn /\ j.file \in File /\ j.line \in Int
                       /\ j.pos \in Nat
                       /\ j.callee \in Fn \cup {Indirect, NoCallee}
    /\ Indirect \notin Fn /\ NoCallee \notin Fn /\ Indirect # NoCallee
    /\ Memory \subseteq Fn /\ External \subseteq Fn
    /\ TraceName \in [Fn -> Name]
    /\ Occurs \in [Fn \X (Fn \cup Name) -> How]
    /\ Seen \in [File -> File]

\* A function is in the trace under a name that its own name contains; the
\* versions of memcpy that libc chooses from are not.
ASSUME NameAssumption ==
    /\ \A f \in Fn : Occurs[f, TraceName[f]] # "none" \/ f \in Memory
    /\ \A f \in Fn, n \in Fn \cup Name : Occurs[f, n] = "exact" <=> f = n
    /\ \A f \in File : <<f, Seen[f]>> \in SameFile

\* Each instruction of a stack calls the function of the one before it; code
\* with debug information has line numbers, and shares none with the rest.
ASSUME StackAssumption ==
    \A st \in Stacks :
        /\ st \in Seq(Inst) /\ Len(st) >= 1
        /\ \A k \in 2 .. Len(st) : st[k].callee \in {st[k - 1].fn, Indirect}
        /\ \A k \in 1 .. Len(st) :
              /\ st[k] \in Debug => st[k].line > 0
              /\ st[k] \notin Debug =>
                    \A j \in Debug : ~(j.line = st[k].line /\ <<j.file, Seen[st[k].file]>> \in SameFile)

VARIABLES
    real,      \* the instructions of the stack
    stack,     \* te.callstack
    location,  \* te.location
    i,         \* the caller to look at
    pc

vars == <<real, stack, location, i, pc>>

LocationInfo == [function : Fn \cup Name, file : File, line : Int]

Traced(j) == [function |-> TraceName[j.fn], file |-> Seen[j.file], line |-> j.line]

Init ==
    /\ real \in Stacks
    /\ stack = [k \in 1 .. Len(real) |-> Traced(real[k])]
    /\ location = Traced(real[1])
    /\ i = Len(real)
    /\ pc = "load"

-----------------------------------------------------------------------------
(* The mapper.                                                             *)

SameLocation(j, li) ==
    /\ j.fn = li.function
    /\ j.line = li.line
    /\ <<j.file, li.file>> \in SameFile

At(li) == {j \in Debug : SameLocation(j, li)}
Contains(li) == At(li) # {}
Valid(li) == li.line > 0

\* The instructions of a FixLoc: all from the first to the last of the
\* location in a block, those of other lines between them too.
Insts(li) ==
    {j \in Debug : \E first, last \in At(li) :
        /\ first.block = j.block /\ last.block = j.block
        /\ first.pos <= j.pos /\ j.pos <= last.pos}

-----------------------------------------------------------------------------
Caller == stack[i]
Callee == stack[i - 1]

\* A bug of the comparison: the names are compared as they are.
IsPossibleExact(j) ==
    \/ j.callee = Indirect
    \/ j.callee \in Fn /\ (Occurs[j.callee, Callee.function] = "exact" \/ j.callee \in Memory)

\* A call that may be the one: by its name, or because it has none.
IsPossible(j) ==
    \/ j.callee = Indirect
    \/ j.callee \in Fn /\ (Occurs[j.callee, Callee.function] # "none" \/ j.callee \in Memory)

PossibleCallSites == {j \in Insts(Caller) : IsPossible(j)}

\* A bug of the choice: the first call is as good as any.
IsCalledFirst(f) == \E j \in PossibleCallSites : j.callee = f

\* Several calls must be of one function.
IsCalled(f) == f \in Fn /\ PossibleCallSites # {} /\ \A j \in PossibleCallSites : j.callee = f

Suffixed(n) == {f \in Fn : Occurs[f, n] = "dot"}

\* A call through a pointer: the function of that name, or else the only one
\* of that name and a suffix.
IsPointedTo(f) ==
    /\ Cardinality(PossibleCallSites) = 1
    /\ \A j \in PossibleCallSites : j.callee = Indirect
    /\ IF Callee.function \in Fn THEN f = Callee.function
                                 ELSE Suffixed(Callee.function) = {f}

Looking == pc = "resolve" /\ i >= 2
IsSkipped == ~Valid(Caller) \/ ~Contains(Caller) \/ Contains(Callee)

\* processEvent, with its assertion that the location is that of the stack.
Load ==
    /\ pc = "load"
    /\ pc' = IF stack[1] = location THEN "resolve" ELSE "abort"
    /\ UNCHANGED <<real, stack, location, i>>

\* A bug of the skipping: it leaves the loop.
SkipTheRest ==
    /\ Looking /\ IsSkipped
    /\ i' = 1
    /\ UNCHANGED <<real, stack, location, pc>>

\* The caller has no location, or the callee has one.
Skip ==
    /\ Looking /\ IsSkipped
    /\ i' = i - 1
    /\ UNCHANGED <<real, stack, location, pc>>

\* A bug of the counting: past the end of the stack.
RenameTwice(f) ==
    /\ Looking /\ ~IsSkipped
    /\ IsCalled(f) \/ IsPointedTo(f)
    /\ stack' = [stack EXCEPT ![i - 1].function = f]
    /\ i' = i - 2
    /\ UNCHANGED <<real, location, pc>>

Rename(f) ==
    /\ Looking /\ ~IsSkipped
    /\ \/ IsCalled(f)
       \/ IsPointedTo(f)
    /\ stack' = [stack EXCEPT ![i - 1].function = f]
    /\ i' = i - 1
    /\ UNCHANGED <<real, location, pc>>

\* "don't know how to handle!", "called == f", "wat".
Fail ==
    /\ Looking /\ ~IsSkipped
    /\ \A f \in Fn : ~IsCalled(f) /\ ~IsPointedTo(f)
    /\ pc' = "abort"
    /\ UNCHANGED <<real, stack, location, i>>

\* The location of the event follows its innermost frame.
Finish ==
    /\ pc = "resolve" /\ i = 1
    /\ location' = stack[1]
    /\ pc' = "done"
    /\ UNCHANGED <<real, stack, i>>

Next == Load \/ Skip \/ (\E f \in Fn : Rename(f)) \/ Fail \/ Finish

Spec == Init /\ [][Next]_vars

-----------------------------------------------------------------------------
(* Properties.                                                             *)

\* The types; only the names of the frames ever change.
TypeOK ==
    /\ real \in Stacks
    /\ pc \in {"load", "resolve", "done", "abort"}
    /\ i \in 1 .. Len(real)
    /\ stack \in [1 .. Len(real) -> LocationInfo]
    /\ location \in LocationInfo

\* f is another function with the source name of that of j, such as a static
\* function of a header that is included in two files.
IsCopy(f, j) == f # j.fn /\ Occurs[f, TraceName[j.fn]] \in {"exact", "dot"}

\* No copy of a function on the stack has an instruction on the same line.
NoCopies ==
    \A k \in DOMAIN real : \A j \in Debug :
        IsCopy(j.fn, real[k]) =>
            ~(j.line = real[k].line /\ <<j.file, Seen[real[k].file]>> \in SameFile)

MappedRight ==
    pc = "done" =>
        /\ \A k \in DOMAIN real : Contains(stack[k]) => stack[k].function = real[k].fn
        /\ Contains(location) => location.function = real[1].fn

\* What is read from a frame is right: a frame that has a place in the module
\* has it in the function that was executing, and so does the event.  Fixes go
\* there.
RightWithoutCopies == NoCopies => MappedRight

\* The interface to the repair (StackAssumption of BugFixer): where two
\* neighbours have a place, the outer one calls the inner one's function.
CallsNext ==
    pc = "done" /\ NoCopies =>
        \A k \in 2 .. Len(real) :
            Contains(stack[k]) /\ Contains(stack[k - 1]) =>
                \E j \in At(stack[k]) : j.callee \in {stack[k - 1].function, Indirect}

\* Another function has its source name.
HasNamesake(f) == \E g \in Fn \ {f} : Occurs[g, TraceName[f]] \in {"exact", "dot"}

\* From main down to k there are only calls in code with debug information,
\* and no pointer leads to one of several functions of a name.
IsReached(k) ==
    /\ \A m \in k .. Len(real) : real[m] \in Debug
    /\ TraceName[real[Len(real)].fn] = real[Len(real)].fn
    /\ \A m \in k + 1 .. Len(real) :
          real[m].callee = Indirect => ~HasNamesake(real[m - 1].fn)

\* Nothing is missed: the frames that can be reached like that have a place.
AllMapped ==
    pc = "done" /\ NoCopies => \A k \in DOMAIN real : IsReached(k) => Contains(stack[k])

\* The stack's calls name their functions, and no line makes two.
IsPlain ==
    \A k \in 2 .. Len(real) :
        /\ real[k].callee # Indirect
        /\ \A j \in Insts([Traced(real[k]) EXCEPT !.function = real[k].fn]) :
              j.callee \in {real[k].callee, NoCallee}

\* The assertions fail only on stacks with a pointer, or two calls in a line.
PlainResolves == IsPlain /\ NoCopies => pc # "abort"
=============================================================================
