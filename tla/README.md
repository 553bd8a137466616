# Hippocrates: a verification project

Hippocrates repairs persistent-memory (PM) programs.  A bug finder (pmemcheck
or PMTest) runs the program and logs its stores, flushes, fences and the
assertions that failed; `tools/parse-trace` turns the log into a report; an LLVM
pass inserts the flushes and fences that are missing, close to the stores or,
by cloning functions, higher up their call stacks; `tools/verify` runs it again.
The promise is "do no harm": only flushes and fences are added, so the repaired
program behaves as before, and every reported range is persisted.

This directory holds TLA+ models of the parts that decide what is inserted
where, TLC instances that check them, and TLAPS proofs.  Paths below are those
of the repository; C++ files are under `src/src` seen from here.

## 1. Inventory

| Part | State | Operations | Interacts with | Modules |
|---|---|---|---|---|
| Trace parsing, `tools/parse-trace` | lines read, events, bug counters | PMTest and pmemcheck readers | makes a `BugReport` | `TraceParser` over `Pmemcheck` and `PMTest` |
| Trace reduction, `tools/Reports.py` | trace, bugs, stores in flight | four passes of `dump` | writes the trace the pass loads | `Reports` |
| Trace loading, `BugReports.cpp` | `BugLocationMapper`, `TraceInfo` | map locations, load events, resolve stacks | read by everything below | `Locations` |
| Address ranges, `AddressInfo` | a range | overlaps, contains, canAdd, += | used by the handler and the reduction | `AddressInfo` |
| Missing-persist handler, `handleAssertPersisted` | flags, accumulated range, operations | scan, accumulate, emit | requests fixes from the fix map | `PersistScan` over `PMem` |
| Fix map, `addFixToMapping` | `fixMap_` | coalesce | handler and raising write, applying reads | `FixMap` |
| Repair driver, `doRepair` | `fixMap_`, the moved fixes | compute, raise, apply, patch | all of the above, the generator | `BugFixer`, which implements `Repair` |
| Fix generator, `FixGenerator.cpp` | the LLVM module | insert, clone, re-point | changes the program | `BugFixer`, generic and PMTest |
| Persistent intrinsics, `persistent_intrinsics.c` | memory of the repaired program | memset, memcpy, memmove, strncpy | linked in by `apply-fixer` | `Intrinsics` |
| Alias analysis, `PmDesc`, `runTraceAA`, the scores of `raiseFixLocation` | stripped module, PM objects, cached aliases | strip, learn, score | read by raising and by cloning | `AliasScores`; the scores are arbitrary inputs of `BugFixer` |
| Verification, `tools/verify` | pool, progress bar and its lock, files of each test | compile, run, fix, rerun | runs all the tools above | `Verify` |
| Helper passes and scripts | - | cleaner, remover, benchmarks | - | not modelled |

The only concurrency is in `verify`, whose worker processes share a directory,
a progress bar and its lock.  The C++ part is one sequential program.  What is
hard about it is *order and state*: reports are handled one after the
other against one map; the map is walked in the order of instruction addresses,
which differs from run to run; each repair changes the module that the next one
reads.  A test sees one such order; the models take all of them.

What makes each part correct:

- *parsing*: a report that is made holds every bug and operation of the log it was
  made from, in the order in which they happened; a log that breaks off inside a
  bug, or in which a frame that is needed cannot be read, makes none;
- *location resolution*: a frame that gets a place in the module gets it in the
  function that was executing, and no frame that could be found is missed;
- *reduction*: a report that remains must look to the fixer as it did before;
  for those that remain the fixer must insert what it would insert for all;
- *handler*: the stores found are all that matter for the reported range, and
  the flags tell what each of them misses, so that the range ends up durable;
- *fix map*: joining two fixes never fails and never loses a flush or a fence;
- *driver*: raising loses no demand and leaves immutable functions alone;
  applying one fix does not undo another; in the end each report's store, on its
  own call stack, is flushed and fenced;
- *scores*: what is learnt of persistent memory is complete before anything is
  asked, the stripped module still has what is asked about, and no fix is raised
  past a call through a pointer, which cloning cannot follow;
- *verify*: no test is left out unseen, the count is right, the run ends;
- *generator*: re-pointed calls exist, a fence has a place to go;
- *intrinsics*: a replacement computes what the replaced function does, and
  persists all it wrote.

The hazards behind these are listed with their lines in `PROJECT.json`.

## 2. Modules

**`Pmemcheck`** is `TraceParser._parse_pmemcheck`: a log is a sequence of kinds
of lines, and the branches of the loop over it are actions: `Start`,
`ReadEvents`, `SkipOrStop` for the trace, then `CountStores`, `CountFlushes`,
`SkipLine` and `ReadBug` for the sections of numbered bugs; `Fail` is a failed
assertion, a missing line, or a frame that cannot be read where it is needed (a
line is `located` if those of it can).  **`PMTest`** is `_parse_pmtest`, in its
two passes: `ReadEntry`, `ReadStack`, `SkipWords` make entries of lines,
`MakeEvent`, `PassError` and `MakeWarning` make events of entries; `Fail`
gathers the exceptions, those of Python's indexing and those of `TraceEvent`
included: a warning copies the event before it, which must have an address
(`HasAddress`).  **`TraceParser`** picks one by the format it is told and
composes them on the variables they share.  An initial state has a whole log or
any prefix of one.  An event of the report keeps the line or entry it was read
from, which is how the properties compare the report with the log.

**`Locations`** is `TraceInfoBuilder` with the `BugLocationMapper` it asks: one
event is loaded (`Load`) and its stack resolved from the outermost frame in
(`Skip`, `Rename`, `Fail`), then its location follows (`Finish`).  Source
locations, names and files are values; `Occurs` tells how a name lies in that of
a function (`foo` in `foo.1`, `g` in `gx`), `SameFile` which paths the partial
comparison of `LocationInfo::operator==` takes for the same.  The variable
`real`, which the code does not have, is the stack of instructions that were
executing; it is what the answers are compared with.  `CallsNext` is the
interface to the repair: it is what `StackAssumption` of `BugFixer` says of
two neighbouring frames that have a location.

**`AddressInfo`** is `struct AddressInfo`: ranges with inclusive ends, the tests
of the code, and `Plus` for `+=`.  The default range, address and length 0, ends
at -1, which is `MaxAddress` in unsigned arithmetic; it has no byte and contains
every range.  `Bytes(r)` is the set that a range stands for and what the theorems
compare the tests with.

**`PMem`** is the persistency model that the repository relies on and does not
implement (external): a byte is durable when its line is flushed after the store
and a fence follows the flush.  `DurableWith` evaluates a trace together with
what a repair inserts after each event, flush first.

**`PersistScan`** is `handleAssertPersisted`, one action per branch of the loop:
`ScanOther`, `ScanFence`, `ScanStore`, `Retry` and `Settle` (the inner loop over
`unadded`), `ScanFlush`, `Exhausted`, then `Emit` per collected operation and
`Finish`.  Failing assertions lead to `pc = "abort"`.  The list `unadded` is a
set of which any addable element may be taken; the code takes the first, so the
model has more behaviours, not fewer.  Locations are all mapped in this module;
an operation whose line holds neither a store nor a cmpxchg (`storeless`: a memset
or memcpy call, an atomicrmw) is collected and gets no fix, as in the code.

**`FixMap`** is `FixType`, `FixDesc` and `addFixToMapping` as the operator
`Coalesce(old, new)`, with `Stuck` for the final assertion.

**`BugFixer`** extends it to `doRepair`.  The program under repair is a call
graph: *sites* (stores and calls with a source location) in functions; a call
stack is a sequence of sites from the store up; its operation is one that asks
for a fix (`storeless` ones do not, and do not appear here).  A function in
`External` has no debug information, so its frames have no location; those in
`Replaceable` have a `PMFIXER_` version, and to replace another ends the process
(`FrameFails`).  Cloned functions are versions `<<f, n>>`; the body of a version
records what each call names, which stores are followed by a flush and which
sites by a fence.  The phases are those of `doRepair`:

| Code | Actions |
|---|---|
| step 1, `computeAndAddFix` per report | `AddPrimitive`, `AddIndirect` (the "Forced indirect fix"), `ComputeFails`, `EndCompute` |
| step 2, `runFixMapOptimization`, `raiseFixLocation` | `Raise`, `PassOver`, `RaiseFails`, `EndRaise` |
| step 3, `fixBug`, `insertPersistentSubProgram` | `ApplyPrimitive`, `ApplySubProgram`, then per frame `CloneFrame`, `ReplaceExternal` or `FrameFails`, and `EndSubProgram` or `FenceFails` |
| step 4, `patchMemoryPrimitives` | `EndApply` |

Both loops over `fixMap_` take the entries in any order, because `std::map`
sorts them by pointers.  `options` are those of the command line and the source
of the trace: without raising, without the heuristic, and for PMTest, whose
generator inserts a fence only after a flush of its own and no subprogram
(`GeneratorFails`).  The alias analysis is represented by its result, an
arbitrary score per site (or `NoAliases`, where the search stops).
`IsRepaired(op)` follows a report's stack through the calls as they now are,
into clones, and asks whether its store is flushed and some frame of the path
fenced.

**`Repair`** is what `BugFixer` promises, in three actions over the set of open
reports: a report may be closed, none is opened again, and the repair is done
only with none open, unless two ask for what cannot both be done.  `Promise`
instantiates it with `open` as the reports that are not `IsRepaired` in the
module as it is now and `compatible` as `NoneAtOdds`.  The fix map, the raising
and the clones, all of which exist only to choose where to insert, do not appear
in it: until step 3, `BugFixer` stutters.

**`AliasScores`** is where the scores come from.  `Explore` and `Grow` are
`runTraceAA` (the whitelist and its callees, then the callers of all that is
used, to a fixpoint; the rest loses its bodies), `Learn` the constructor's walk
over the trace with `TraceEvent::pmValues` and `PmDesc::addKnownPmValue`, and
`Raise` the heuristic of `raiseFixLocation` with its cache, asked about the
stacks of stores in any order.  The points-to sets are a constant that depends
on the functions that kept their bodies (external, Andersen).  It knows nothing
at all of values outside `HasNode`: learning from one or scoring one fails an
assertion, and ends the pass.  Lines may have several instructions, be in no
function, or hold a call through a pointer.

**`Verify`** is `run_all` of `tools/verify`.  The parent's actions are `Compile`,
`Poll`, `ParentLock`, `Draw` and `Wait`; a worker takes a chunk of tests (`Take`)
and for each goes through `Look` and `MakeDir` (the directory under `/tmp`),
`FirstRun`, `Fix`, `SecondRun`, then `Acquire`, `Load` and `Store` for the bar.
Each of the external programs may fail, and the summary of the fixes may be
missing; an exception ends the chunk (`Raise`), as `Pool.map_async` has it.

**`Intrinsics`** is `persistent_intrinsics.c` as compiled (`MANUAL` 0): the four
functions that call libc and then run `flush_loop`, and the four `_naive` ones,
which store, flush and fence byte by byte; `clflush` selects the build that has
no other flush.  The state is the memory, the bytes flushed but not fenced and
those durable.  `CallerFence` is the fence that the repair puts after the call.

**`Reports`** is `BugReport.dump`: the first two passes are one step each (they
are filters), the third (stores held in flight until their flush, then a sort)
and the fourth (repeated fences) go event by event.

`MC*` modules give TLC its instances; `*Proofs` modules hold the theorems.
Definitions whose comment starts with "A bug of" are deliberate faults (mutants):
`PROJECT.json` pairs each checked property with one that breaks it.

## 3. Runs

| Run | Instance | Shows |
|---|---|---|
| `persist_scan` | all traces of up to 4 events over 2 lines of 2 bytes, with every non-durable range | nothing but what was stored is accumulated; no later store is missed; one-epoch reports are repaired; the handler ends |
| `persist_scan_split` | the same without FLUSH events | *violation*: a range that the stores cover, stored in parts with a fence between them |
| `repair` | main, top, mid, leaf (recursive through mid), memcpy and a library's sort that calls back and has no `PMFIXER_` version; 17 sites; all pairs of reports of all kinds on 10 stacks, and of flush-and-fence on 5 longer ones; 6 scorings, leaf immutable; with heuristic raising, without raising, and for PMTest | raising, coalescing and applying, in all orders, implement `Repair`; the pass ends |
| `repair_one_store`, `repair_self_call` | the same program | *violations*, section 6 |
| `intrinsics`, `intrinsics_unaligned` | 9 bytes, lines of 3; every call that fits, every position of the terminator, both builds | result and durability; *violation* for unaligned destinations |
| `reports` | all traces of up to 5 events over one line of 2 bytes and 2 stacks, all event types | the fixer's view of a report survives; under the conditions of `RedundantWhenAlike` the fixer inserts as much |
| `locations` | two files and a header, 9 functions, 25 instructions, all stacks of up to 5 frames | what is found is right, nothing reachable is missed, plain stacks resolve |
| `parse_trace` | pmemcheck: all logs of up to 2 lines of trace and 2 bugs of up to 2 frames a section; PMTest: all logs of up to 3 operations, with what may follow each, and lines it does not expect; frames that cannot be read; whole or cut short | all bugs and operations are read, in increasing times; whole logs raise no assertion but where named |
| `scores` | 7 functions, 19 instructions, 8 values (one unknown to the analysis), all traces of up to 2 events on 15 stacks, with and without `TraceAlias` | the stripped module suffices, the cache is never stale, no fix passes a pointer, traced stores count as persistent |
| `verify` | 3 tests in 2 chunks on 2 workers, any step failing, with and without what an earlier run left | the bar counts, only losers of the race for the directory fail by it, nothing is left out unseen, the run ends |

*Why the bounds are enough.*  The scan tells stores apart only by how they touch
the report and the accumulated range; ranges over two lines of two bytes give
all of these (inside, across a line, with a gap, two parts), and four events hold
a store in two parts, a fence between or after, and one more event to get in
the way.  In the repair, two fixes interact only if they share a place, a stack
prefix or a function that is cloned; all pairs over the stacks contain each of
these, and a third report meets the map in a state that two can produce.  The
long stacks are for what two fixes do to each other's calls: ways up that meet
half way (`t1` and `c`, `b`), two calls of memcpy in one function, and a stack
that goes twice through the same function, so that a fix meets itself.
The line size of `Intrinsics` is 3 so that offset, length and remainder differ;
nine bytes give both directions of overlap and a buffer over three lines.
The passes of `Reports` compare an event with one bug or with its predecessor;
five events hold two assertions of one stack, two stores and a fence or flush.

The program of `Locations` has one of each case the resolution tells apart: a
static function with a namesake, one name inside another, two calls on a line of
one function and of two, a statement whose lines are split by another call, a
macro that puts two functions on one line, a pointer, libc's memcpy, a recursive
function; five frames are enough for an error in a frame to reach the ones below
it.  The sections of `Pmemcheck` have no, one and two bugs, so that a counter is
met at its start, in between and at its end, and the section of stores, which
resets the counters, is followed by that of flushes, by nothing, or by the end
of a log that was cut short.  The reader of PMTest looks one entry ahead and
one back, so three operations put any error, warning or stack between any two
others.

The program of `AliasScores` has a function of each kind that stripping tells
apart: in the trace, on the whitelist, called from it, a caller of these and a
caller of that one, and one that is none of them; two events are enough for the
cache to be filled between what they teach.  In `Verify` two workers and one
chunk of two tests show a race, an exception that leaves a test out, and one
that does not.

*Deadlock* is not checked where a finished program simply stops (`PersistScan`,
`Intrinsics`, `Reports`, `Locations`, `TraceParser`, `AliasScores`); `BugFixer` and
`Verify` have an explicit `Finished` step, and their runs check that no other
state is stuck.

*Fairness.*  `Terminates` of `PersistScan` and `RepairEnds` of `BugFixer` assume
`WF_vars(Next)`: the handler and the pass are sequential programs, which run as
long as they have a step to take.  `RunEnds` of `Verify` assumes that the parent
and each worker run (weak fairness each; the programs they start are taken to
end, `subprocess.run` has no timeout), and strong fairness of taking the lock:
it is free again and again, and `multiprocessing`'s manager serves a waiter.  No
other fairness is assumed anywhere.

## 4. What the properties say

`PersistScan`: `AccumulatedIsStored` is what stops the scan from ending early
over a hole; `LatestWritersFound` is that the newest store of each reported byte,
and each store between, is among the operations fixed; `EpochRepaired` is the
handler's purpose for reports whose stores are one epoch (no fence among them).
Without that restriction it is `Repaired`, which is violated both where the stores
found cover the range (`CoveredRepaired`, the run) and where they do not (section 6).

`BugFixer`: `NoConflict` (no pair of fixes ever meets without a case),
`DemandKept` (a step property: fixes are only ever replaced by stronger ones),
`ImplementsRepair` (the refinement: a closed report stays closed while others are
applied, and all are closed in the end unless two are *at odds*),
`RepairsDirectly` (without raising no such condition is needed, as long as the
stores have locations: the fix of one without clones functions),
`RepairEnds`, `FenceHasPlace` and `ImmutableRespected`.

Two reports, or a report and itself, are at odds (`AtOdds`) when one is fixed in
a function that the other clones; when their ways up to their places meet in a
call but come there from different ones, so that they want it re-pointed to
different clones (a recursive stack may do that to itself); when they are for one
store on two stacks; or when they share a place and want different things there,
or the same for two stores that cannot be fixed where they are.
`ImmutableRespected` needs more: that each report has a place of its own, which
no other stack passes on its way up (`OwnPlaces`), because a fence goes after the
*last call that was re-pointed*, which is in the place's function only if no
other fix had re-pointed that call before.  The restrictions are
part of the properties, not of the inputs: the runs contain the reports at odds,
and the violation runs show that the restrictions are needed.

`AliasScores`: `NothingStripped` (every instruction that learning or scoring may
ask for is in the stripped module, and every caller that may pass it a pointer),
`CacheFresh` (a cached score is what would be computed now),
`NotPastPointer` (what `BugFixer` assumes of its scores: a call through a pointer
has `NoAliases`, and stops the search) and `StoresArePm` (the heap objects of
stores of the trace never count as volatile, values with an empty points-to set,
which stand for themselves, included; a clone flushes the stores that point to
such objects).  Objects that are not on the heap are not learnt, and nothing is said
of them.

`Verify`: `BarCounts`, `LosersOfRace` (how many tests the race for the directory
can cost), `NoneSkipped` (a test is left out only behind one that raised, and
then no result is printed) and `RunEnds`.

`Locations`: `RightWithoutCopies` (fixes go into the function that ran, if no
other copy of it shares its lines; section 6 says what happens otherwise),
`CallsNext` and `AllMapped` under the same condition (a frame is found if there
is a path to it from main without a library or an ambiguous pointer), and
`PlainResolves` (which stacks cannot end the process).

`TraceParser`: `AllBugsRead` and `OperationsRead` compare a finished report with
the log it was made from (the operations line by line: each line's are one block
of the report, in order), `TimesIncrease` is what the reduction's final sort
relies on.  A log that breaks off between two bugs is read to its end: the
report has the bugs before the break, and nothing tells that there were more.
`WholeLogsRead` has two halves.  Of pmemcheck's logs, one that is whole ends in
an assertion only if a frame of it cannot be read, and none is read to its end
in which a frame cannot be read that is needed (the first of an operation, any
of a bug).  Here "whole" means a log of the form that the tool writes
(`IsWritten`: the trace and its `STOP`, then sections that have as many numbered
bugs as they say, that of the flushes last).  For PMTest nothing is said of the
form: the logs on which its reader gives up, whole or cut, are exactly those
with lines named in `IsOdd` (a warning about a fence or an assertion of order is
one of them) or with a warning after an error (`WarnsAfterError`, section 6),
and an error is found where it comes next after its assertion (`ErrorsFollow`).

`Intrinsics`: `ComputesResult`, `PersistsInOrder` and `PersistsWhenItFits`;
`Reports`: `ScanUnchanged` compares the *view* of a report (stores that overlap
it, first fences between them) before and after all passes.  `RedundantWhenAlike` is
about the reports dropped: `Inserted(t)` is what the handler's scan inserts for the
reports of a trace (the stores it collects, by their stacks, with what each is
given, ranges and fences as in `PersistScan`), and it is as much for the trace left
as for the one read, if a report is on the stack of the stores to fix (`Located`: so
it is for pmemcheck, whose bugs are stores; not for PMTest, whose assertions are
calls of their own), and the assertions on one stack have one outcome
(`SameOutcome`) and miss the same (`SameNeeds`).  Section 6 says what is lost without
each of them.

## 5. Proofs

All theorems hold for every value of the constants, from the assumptions named
in the modules (`LineSizeAssumption`, `MaxAddressAssumption`, `InputsAssumption`,
`ProgramAssumption`, `StackAssumption`, `CallAssumption`, `ModuleAssumption`,
`AndersenAssumption`, `NameAssumption`, `LogAssumption`, `FormAssumption`,
`PoolAssumption`):
well-formed inputs, no bound on their size.

- `PersistScanProofs`: `overlaps`, `contains` and `+=` against sets of bytes
  (`OverlapsIsCommonByte`, `ContainsIsInclusion`, `PlusIsUnion`), then
  `TypeCorrect`, `AccumulationIsSound`,
  `LatestWritersAreFound`.  The inductive invariant `ScanInv` adds to the types
  that the ranges put aside were stored too (an accumulated range grows by
  ranges met *earlier*, so `AccumulatedIsStored` alone is not inductive), and
  that the collected operations are exactly the overlapping stores met so far.
  `OneEpochIsRepaired` (`EpochRepaired`) is the handler's purpose.  `EpochInv` adds
  what the loops have gathered (every byte of a store of the range that was met
  is in the accumulated range or in a range put aside, and between two events
  none of these touches it, so that no gap can be left once all stores of the
  epoch are met: `NoGapLeft`, `EpochCovers`), that `missingFence` means that no
  fence was met, and that an operation that is done has what was missing.  So the
  scan ends within the epoch with the flag `missingFlush` set, every operation
  flushes the line of what it wrote, and the fence is its own or one after the
  epoch.
- `RepairProofs`, first the fix map and what goes into it: `SameKindJoins`,
  `JoinIsDesc`, `JoinCoversBoth`, `FalseIsRedundant` about `Coalesce`, then
  `MapStaysRight` (`Spec => []Inv`), from it `ConflictNever`
  (`NoConflict`) and `DemandIsKept` (`DemandKept`).  `Inv` separates the places:
  primitive fixes are at the store their stack starts with, PST ones at calls,
  so the two kinds never meet and `Coalesce` always has a case; for the raising
  loop it adds that each moved fix is covered by a PST fix on its own stack,
  which is what makes the erasure of `EndRaise` harmless.
  Then the module that the fixes are applied to, in four layers, each inductive
  with the ones before it:
  - `TInv` (`BugFixerTypeCorrect`): the versions of a function are numbered
    without gaps, so that a new clone is new (`Fresh` counts them); a call names
    a version of the function it is a call of (`ModuleOK`); every fix belongs to
    a report, at the index of its place on that report's stack (`PlacesOK`); the
    loop over the frames stays below that index (`LoopOK`).
  - `CallsOK` (`FenceAlwaysHasPlace`): a call of an original that was re-pointed
    was so by a PST fix that was applied, or by the one being applied, at a
    frame of its stack that is below its place.  So if the loop ends without a
    call of its own, another report came the same way, and the two are at odds.
  - `LeftOK` and `ImmutableOK` (`ImmutableStaysUntouched`): what raising leaves of
    the primitive fixes is where it may be, and every fix is applied in the
    function of its place, which `CanHold`.
  - `DirectOK` (`DirectRepairsAll`): without raising nothing is cloned, so that
    each stack leads to the originals, or for an external function to its
    `PMFIXER_` version, and each fix applied is there for good; with `DemandKept`'s
    argument that every report has a fix at its store that covers it.

  Last, `RepairIsImplemented` (`ImplementsRepair`): each step of `BugFixer` is one
  of `Repair` or none.  Its first half needs no condition on the reports: *no
  step opens a report that was closed*.  The two ends of a step are related by
  `Replaces`: each version on the path of a stack has one in the next state that
  takes its place, which has all its flushes and fences and calls what takes the
  place of what it called; a clone takes the place of the original at the call
  re-pointed, a `PMFIXER_` function that of the function it replaces, and all
  others their own (`StepReplaces`).  Then the path of every stack keeps what it
  has, by induction along the path (`PathFollows`, `StaysServed`).  This rests on
  `BodyOK`: the loop over the frames clones with the flushes, so a clone has one
  after each of its stores.
  The second half is *doRepair is done with a report open only if two are at
  odds*.  `RInv` adds to the layers above, for reports of which no two are at odds:
  - `TypesAgree`: if all that want something at a store or a place want the same, the fix
    there is of that type, so that it is not weakened or moved by another;
  - `ServedOK`: every report dealt with has a fix that serves it, at its place or at its
    store, through the computation, the raising and the erasures after it;
  - `WayOK`: only functions below a place are cloned; a call that was re-pointed
    leads to a version whose next call on the way was re-pointed too, so that no
    fix leaves another half way; and each fix applied is in the module.

  At the end the path of a report therefore leads from the original of its
  place's function through re-pointed calls to a clone of its store's function
  (`PlaceAtHome`, `OwnerReachesClone`), which has the flush, and the fence is on
  the way (`EndServes`).
- `LocationsProofs`: `LocationsTypeCorrect`, and
  `InvHolds` (`Spec => []Inv`), from it `FoundIsRight`
  (`RightWithoutCopies`), `NeighboursCall` (`CallsNext`), `NothingMissed`
  (`AllMapped`), and `PlainNeverAborts` (`PlainResolves`).  What is wanted of a
  finished stack is not inductive; `Inv` says of the frames from the current one
  up that they are right and found where they can be, of those below that they
  are as traced, and of all that only names change.  `NameAssumption` is the
  fact about linking that this rests on: a function's name in a trace is
  contained in its name in the module.
- `IntrinsicsProofs`: `IntrinsicsTypeCorrect`, `OrderKept` (`PersistsInOrder`),
  `ResultComputed` (`ComputesResult`: the invariant is that each step of a copy
  has written what it should and that what is still to be read is unchanged,
  which is where the direction chosen by `memmove_naive` matters) and
  `FittingPersists` (`PersistsWhenItFits`).
- `VerifyProofs`, for any number of tests, chunks and workers:
  `VerifyTypeCorrect`, `BarIsExact` (`BarCounts`: mutual exclusion by the lock,
  and what a worker inside has read), `RaceIsBounded` (`LosersOfRace`: losers
  and those still in the race together are fewer than the workers, because the
  winner is neither) and `NoTestSkipped` (`NoneSkipped`).
- `AliasScoresProofs`: `AliasScoresTypeCorrect`, `NothingIsStripped`
  (`NothingStripped`: the two fixpoints of `runTraceAA` are closed under callees
  and callers), `ScoresStayFresh` (`CacheFresh`), `ChosenBeforePointer`
  (`NotPastPointer`), `StoredIsPersistent` (`StoresArePm`).
- `TraceParserProofs`, for every log, whole or cut short: `TraceParserTypeCorrect`,
  `TimesNeverSwap` (`TimesIncrease`), `AllOperationsRead` (`OperationsRead`),
  `AllBugsAreRead` (`AllBugsRead`) and `WholeLogsAreRead` (`WholeLogsRead`).
  For pmemcheck the invariant is that each line of the trace that was passed has
  its operations in one block of the report (`LineRead`), that events come from
  lines that were passed, at times that have gone by, and that before the end of
  the trace there are only operations.  For PMTest it ties the two passes: each
  entry has the time of its line (`TEntries`), each event that of its entry, and
  there are fewer events than entries passed (`TEvents`): so the event that a
  warning copies, by an entry's number, is the last one if it exists at all, and
  the copy cannot come out of order.
  The bugs need more.  For pmemcheck it is where the reader is (`PPlace`), whichever
  whole log the one it has is the beginning of: between sections, every bug to
  come is below a count to come (`Between`); in a section, the line it is at starts
  the bug with the next number, as many are to come as the counter says, and all
  lower numbers are behind it (`Within`).  So no line that is skipped starts a bug
  (`PlaceSkip`, `PlaceEmpty`), the last bug of a section leaves none behind
  (`NoneLeft`), and every assertion finds what it asks for in a whole log
  (`NoFail`).  For PMTest it is that lines and entries are the same, stack traces
  included (`TLines`), that "next after, leaving out the lines that are no entries"
  is the next entry (`NextEntry`), and that there are as many events as entries
  passed until one of these is an error (`TPassed`): then the last event is that of
  the last operation, and no warning can be read any more.

- `ReportsProofs`: `ReportsTypeCorrect`, `ReductionKeepsScan` (`ScanUnchanged`) and
  `DropsOnlyRedundant` (`RedundantWhenAlike`).  The proofs see a trace as the set
  of its events and their order; `OnlyIs` and `Removed` say what a filter and a
  removal make of both.  The invariant is that the view of each bug left is that
  of the trace read, after every step: the first three passes keep all that is in
  the view (`SameRead`; for the third, `Landed`: what it has passed and not dropped
  is a flush or is held), and the fourth drops a fence only when the last
  operation before it is a fence (`LastOp`, `SameViewWithoutFence`).  The bugs left
  are the first of their stacks (`SameBugs`), and each stack has one (`FirstBug`).
  What the fixer inserts for a bug depends on its view only (`StoresOfView`,
  `FirstFence`, `SameFixes`), so that under the conditions of `RedundantWhenAlike`
  the first bug of a stack is given all that the others of its stack would be.

The library's induction theorems cannot be used, because they take a predicate
as a parameter.  Where a recursive function is reasoned about (`Path`, the
versions a stack runs through; `OperationsOf`, the operations of a line;
`Only`), induction is done over sets of numbers: `Least` derives from the
well-foundedness of inclusion on finite sets that a set of numbers has a least
one, and `SetInduction` that a set with 0 and all successors has them all;
`PathIsPath`, `LeftExists` and `OnlyExists` show with it that those functions
exist.

What trying to prove the properties showed of the model: earlier forms of
`FenceHasPlace`, `ImmutableRespected`, `ImplementsRepair` and `RepairsDirectly`
held on the small program they were checked on and are false in general; TLC
then found each case on a program that has it (a recursive stack, ways up that
meet half way, two stores that cannot be fixed in place), and the conditions
above are what is left.  `WholeLogsRead` for PMTest said first that odd logs
*may* fail, and became an equivalence when `IsOdd` was put in terms of lines;
`AllBugsRead` got `ErrorsFollow`, without which an error is lost (section 6).
`Repair`'s last step may close reports, since `patchMemoryPrimitives` does.  In
`AliasScores` the search that aborts leaves no best frame.

*Only model-checked*: `Terminates`, `RepairEnds` and `RunEnds`, which are liveness:
the provers do not do it.  Every invariant and step property of the passing runs
is stated by a theorem.

## 6. Where code and documentation disagree

Each has a run that shows it; details and lines are in `PROJECT.json`.

1. `persist_scan_split`: one `missingFence` flag for all stores of a report.
   After STORE, FENCE, STORE of the two halves of a range, both stores are given a
   flush and none a fence: the last one is never fenced.
2. `repair_one_store`: reports of one store on two stacks are taken for
   redundant, and only one stack is repaired after raising.
3. `repair_self_call`: with `-disable-raising` alone, `PMFIXER_memcpy` and the
   like end up calling themselves.
4. `intrinsics_unaligned`: `flush_loop` misses the last line of an unaligned
   buffer.

The conditions of some properties stand for more of the kind.  `NoneAtOdds`
(`ImplementsRepair`, `FenceHasPlace`): a fix applied after its function was
cloned is not in the clone, and which order is taken depends on addresses; a
call that two stacks want to lead to different clones leads to one of them; a
stack that recurses through its own calls finds them re-pointed by itself, and
if none is left the fence has no place.  `OwnPlaces` (`ImmutableRespected`): a
raised fix that finds an equal one at its place does not count as moved, so its
original stays behind and is applied in the immutable function; and where the
call at the place was re-pointed by another fix, the fence goes after a call
further down, which may be in an immutable function. `CoveredFrom`
(`EpochRepaired`): `missingFlush` is set when the stores found contain the
range, or at a fence (`BugFixer.cpp:211`, `229`); if a part of the range was
never stored and no fence follows, what was stored is given a fence and no
flush. One store of the first of two bytes reported is enough for it.
`RedundantWhenAlike`: reports are merged by their stacks (`Reports.py:204`),
without looking at their ranges, outcome or needs.  Without `Located`, where an
assertion is not made at the store it is about, a report may be dropped that is
the only one for its bytes.  Without `SameOutcome`, an assertion that held is
kept as the bug of its stack, a later one that failed there is dropped, and
nothing is fixed for it. Without `SameNeeds`, on one stack: STORE, FENCE,
report, STORE, report; the first report, which is kept, misses a flush, and the
second a fence too.  TLC refutes `RedundantOnly` with such traces when the
condition is taken out.  `RightWithoutCopies`: a frame of the second copy of a
header's static function (`hx.1`) is found in the first, whose name and line it
has ("No reason to repair."), though the call above it would have told; only one
copy is fixed, and maybe not the one that ran. `WholeLogsRead`: `report[i-1]`
(`parse-trace:186`) takes the number of an entry for that of an event; errors
are entries without one, so a FLUSH WARNING after an error is past the end of
the report and raises an IndexError; after a fence or an assertion of order it
copies an event without an address, which `TraceEvent` refuses
(`Reports.py:86`). `ErrorsFollow` (`AllBugsRead`): an error that does not come
next after the assertion it is about (`parse-trace:152`, `170`) is passed over
(`164`, `182`), and the assertion counts as one that held.

Met while reading and not given a property: a report whose scan ends at a FLUSH
gets no fix (masked: the reduction drops flushes), and an operation without a
store at its line gets none either (`IsFixable`, `BugFixer.cpp:260`);
`insertFence` is called with a null `retInst` when a call was re-pointed before
(excluded by `FenceHasPlace`'s condition); cloning without heuristic raising
dereferences a null `PmDesc` (the step `FrameFails`); the comment at
`Reports.py:277` speaks of keeping only the most recent store, while all are
kept (which is what `ScanUnchanged` needs: its mutant does what the comment
says); `FENCE_ONLY` puts the fence right after the store, before the flush that
is there; a frame without a location between two that have one ends the process
in the middle of a repair (`FrameFails`, `RaiseFails`: the check for "nested
unknowns" comes after the lookup), and so does a library function without a
`PMFIXER_` version (`FixGenerator.cpp:46`); a pmemcheck trace that is on one
line, `STOP` included, is never seen to end; a line of a PMTest log that has no
space raises an IndexError (`parse-trace:98`); `verify` does not look at the log
of the second run if its return code is 1 (line 232).

## 7. Not modelled, and the plan

Not modelled because there is no behaviour beyond I/O: benchmark scripts, build
files, the pass driver, the function cleaner and flush remover (one walk over a
module each), YAML and log formatting.  Not modelled because nothing reaches it:
`FlowAnalyzer`'s context graph, which only the removal of redundant flushes used
("Not doing perf fixes anymore!", `BugFixer.cpp:480`), `removeFlush` and
`removeFlushConditionally`, and the `REMOVE_` types.  External: LLVM, the
Andersen alias analysis, libc, the processor, `multiprocessing`.
`runReducedAllocAA` is left out: what its clone of the module is still good for
after it erased allocations with uses is up to LLVM.

Excluded by assumption, each named in its module: stacks whose neighbouring
frames do not call each other (`StackAssumption` of `BugFixer`, which
`CallsNext` is about), instructions without debug information that share a
file and line with ones that have it (`StackAssumption` of `Locations`).  The
logs of pmemcheck hold one trace, of which nothing comes after its `STOP`
(`LogsTyped`), which is on a line of its own (operations on that line are never
parsed, `parse-trace:326`), and its numbers are well-formed; PMTest's operands and
the frames of its stack traces can be read; whole ones have the form that the
tool writes, with a line after an empty section (`IsWritten`, of which the
assertions of `_parse_pmemcheck` are a part).  `Locations` knows one name per
function for traces and compares names whole, by their first dot, or as parts:
demangled C++ names, of which a trace shows a part, are the case "inside".
In `Verify` every process lives as long as the run: a worker that is killed makes
`multiprocessing` wait forever, which is its behaviour and not the script's.

The plan is carried out: each module is checked by a run, and each component that
keeps state is reasoned about in a module of proofs.
