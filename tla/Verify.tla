------------------------------- MODULE Verify -------------------------------
(***************************************************************************)
(* run_all of tools/verify: the tests of a suite are compiled one after    *)
(* another and then run by a pool of processes, each of which runs the     *)
(* buggy test, has its log parsed and the bugs fixed, and runs the fixed   *)
(* test (_run_pmdk_unit_test).  The parent redraws a progress bar, which   *)
(* all of them share, until the result of every chunk has come in; then it *)
(* prints the issues, or raises the first exception of a worker.           *)
(*                                                                         *)
(* Every test has a directory of its own, so logs, fixed programs and      *)
(* summaries are not shared.  What the processes share is the user's       *)
(* directory under /tmp, the bar and its lock.                             *)
(*                                                                         *)
(* Pool, its map and the manager's lock are those of multiprocessing: a    *)
(* chunk is run in order and ends at its first exception, and the result   *)
(* is ready when all chunks have ended.                                    *)
(***************************************************************************)
EXTENDS Naturals, Sequences, FiniteSets

CONSTANTS
    Test,        \* the runners in the suite
    Worker,      \* the processes of the pool
    Parent,      \* the process that runs verify
    Free,        \* nobody: the owner of the lock when it is free
    Chunks       \* how map_async splits the tests

ASSUME PoolAssumption ==
    /\ Worker # {} /\ IsFiniteSet(Worker) /\ Parent \notin Worker
    /\ Free \notin Worker \cup {Parent}
    /\ Chunks \in Seq(Seq(Test)) /\ Len(Chunks) >= 1
    /\ \A n \in DOMAIN Chunks : Chunks[n] # <<>>
    /\ \A t \in Test : \E n \in DOMAIN Chunks : \E k \in DOMAIN Chunks[n] : Chunks[n][k] = t
    /\ \A m, n \in DOMAIN Chunks : \A j \in DOMAIN Chunks[m], k \in DOMAIN Chunks[n] :
          Chunks[m][j] = Chunks[n][k] => m = n /\ j = k

VARIABLES
    compiled,    \* tests compiled so far
    parent,      \* where the parent is
    tasks,       \* chunks no worker has taken
    job,         \* what is left of a worker's chunk: its head is being run
    pc,          \* where a worker is in its test
    tmpDir,      \* the user's directory under /tmp exists
    log,         \* the last pmemcheck log of a test
    fixed,       \* its fixed program
    outcome,     \* how a test ended
    lock,        \* who holds bar_lock
    bar,         \* bar.index
    read         \* bar.index, as a worker's bar.next() has read it

vars == <<compiled, parent, tasks, job, pc, tmpDir, log, fixed, outcome, lock, bar, read>>
files == <<tmpDir, log, fixed>>
shared == <<lock, bar, read>>

\* How a test ends that raises: as it makes the directory, or in an assertion
\* or a failed command.
Raised == {"directory", "failed"}
TestOf(w) == Head(job[w])
Goto(w, where) == pc' = [pc EXCEPT ![w] = where]

Init ==
    /\ compiled = 0
    /\ parent = "compile"
    /\ tasks = Chunks
    /\ job = [w \in Worker |-> <<>>]
    /\ pc = [w \in Worker |-> "idle"]
    /\ tmpDir \in BOOLEAN
    \* What an earlier run of verify may have left.
    /\ \E l \in {"none", "bugs"}, x \in {"none", "buggy"} :
          log = [t \in Test |-> l] /\ fixed = [t \in Test |-> x]
    /\ outcome = [t \in Test |-> "pending"]
    /\ lock = Free
    /\ bar = 0
    /\ read = [w \in Worker |-> 0]

-----------------------------------------------------------------------------
(* The parent.                                                             *)

Compile ==
    /\ parent = "compile"
    /\ \/ compiled < Cardinality(Test) /\ compiled' = compiled + 1 /\ UNCHANGED parent
       \/ compiled < Cardinality(Test) /\ parent' = "raised" /\ UNCHANGED compiled
       \/ compiled = Cardinality(Test) /\ parent' = "poll" /\ UNCHANGED compiled
    /\ UNCHANGED <<tasks, job, pc, files, outcome, shared>>

PoolStarted == parent \in {"poll", "lock", "draw", "wait"}

\* A bug of the polling: the result counts as ready when no chunk is waiting.
IsReadyEarly == tasks = <<>>

\* res.ready(): every chunk has ended.
IsReady == tasks = <<>> /\ \A w \in Worker : job[w] = <<>>

Poll ==
    /\ parent = "poll"
    /\ \/ ~IsReady /\ parent' = "lock"
       \/ IsReady /\ (\E t \in Test : outcome[t] \in Raised) /\ parent' = "raised"
       \/ IsReady /\ (\A t \in Test : outcome[t] \notin Raised) /\ parent' = "printed"
    /\ UNCHANGED <<compiled, tasks, job, pc, files, outcome, shared>>

ParentLock ==
    /\ parent = "lock" /\ lock = Free
    /\ lock' = Parent
    /\ parent' = "draw"
    /\ UNCHANGED <<compiled, tasks, job, pc, files, outcome, bar, read>>

\* bar.update() leaves the index alone.
Draw ==
    /\ parent = "draw"
    /\ lock' = Free
    /\ parent' = "wait"
    /\ UNCHANGED <<compiled, tasks, job, pc, files, outcome, bar, read>>

\* res.wait(1.0)
Wait ==
    /\ parent = "wait"
    /\ parent' = "poll"
    /\ UNCHANGED <<compiled, tasks, job, pc, files, outcome, shared>>

-----------------------------------------------------------------------------
(* A worker.                                                               *)

Take(w) ==
    /\ PoolStarted
    /\ pc[w] = "idle" /\ tasks # <<>>
    /\ job' = [job EXCEPT ![w] = Head(tasks)]
    /\ tasks' = Tail(tasks)
    /\ Goto(w, "look")
    /\ UNCHANGED <<compiled, parent, files, outcome, shared>>

\* A bug of the failing: the process goes on with its next test.
RaiseSkipsTest(w, why) ==
    /\ outcome' = [outcome EXCEPT ![TestOf(w)] = why]
    /\ job' = [job EXCEPT ![w] = Tail(@)]
    /\ Goto(w, "idle")
    /\ UNCHANGED <<compiled, parent, tasks, shared>>

\* An exception ends the chunk.
Raise(w, why) ==
    /\ outcome' = [outcome EXCEPT ![TestOf(w)] = why]
    /\ job' = [job EXCEPT ![w] = <<>>]
    /\ Goto(w, "idle")
    /\ UNCHANGED <<compiled, parent, tasks, shared>>

\* The test goes on, and only this process has moved.
GoOn(w, where) == Goto(w, where) /\ UNCHANGED <<compiled, parent, tasks, job, outcome, shared>>

\* A bug of the check: the directory is made whether or not it exists.
LookNever(w) == pc[w] = "look" /\ GoOn(w, "mkdir") /\ UNCHANGED files

\* tmp_dir.exists()
Look(w) ==
    /\ pc[w] = "look"
    /\ GoOn(w, IF tmpDir THEN "run" ELSE "mkdir")
    /\ UNCHANGED files

\* tmp_dir.mkdir() raises FileExistsError if another process was faster.
MakeDir(w) ==
    /\ pc[w] = "mkdir"
    /\ \/ ~tmpDir /\ tmpDir' = TRUE /\ GoOn(w, "run")
       \/ tmpDir /\ UNCHANGED tmpDir /\ Raise(w, "directory")
    /\ UNCHANGED <<log, fixed>>

\* The old log is unlinked and the test run.  It has to leave a log, and if
\* it succeeds the log has to have bugs.
FirstRun(w) ==
    /\ pc[w] = "run"
    /\ \E succeeds \in BOOLEAN, l \in {"none", "bugs", "clean"} :
         /\ log' = [log EXCEPT ![TestOf(w)] = l]
         /\ IF l # "none" /\ (succeeds => l = "bugs") THEN GoOn(w, "fix") ELSE Raise(w, "failed")
    /\ UNCHANGED <<tmpDir, fixed>>

\* parse-trace, llvm-link and apply-fixer, any of which may fail.
Fix(w) ==
    /\ pc[w] = "fix"
    /\ \E x \in {"none", "buggy", "good"} :
         /\ fixed' = [fixed EXCEPT ![TestOf(w)] = x]
         /\ IF x # "none" THEN GoOn(w, "rerun") ELSE Raise(w, "failed")
    /\ UNCHANGED <<tmpDir, log>>

\* The log the fixed test leaves: the old one if it does not get to write one;
\* one that says what the program is like if it succeeds.
LogsAfter(t, code) ==
    {log[t]} \cup (IF code # 0 THEN {"bugs", "clean"}
                   ELSE IF fixed[t] = "good" THEN {"clean"} ELSE {"bugs"})

\* The log is read unless the return code is 1, and the summary of the fixer
\* has to be where verify looks for it.
SecondRun(w) ==
    /\ pc[w] = "rerun"
    /\ \E code \in 0 .. 2, summarised \in BOOLEAN : \E l \in LogsAfter(TestOf(w), code) :
         /\ log' = [log EXCEPT ![TestOf(w)] = l]
         /\ IF (code = 1 \/ l = "clean") /\ summarised THEN GoOn(w, "acquire") ELSE Raise(w, "failed")
    /\ UNCHANGED <<tmpDir, fixed>>

\* A bug of the locking: bar.next() without bar_lock.
AcquireNothing(w) ==
    /\ pc[w] = "acquire"
    /\ Goto(w, "load")
    /\ UNCHANGED <<compiled, parent, tasks, job, files, outcome, shared>>

Acquire(w) ==
    /\ pc[w] = "acquire" /\ lock = Free
    /\ lock' = w
    /\ Goto(w, "load")
    /\ UNCHANGED <<compiled, parent, tasks, job, files, outcome, bar, read>>

\* bar.next() reads the index and stores it back.
Load(w) ==
    /\ pc[w] = "load"
    /\ read' = [read EXCEPT ![w] = bar]
    /\ Goto(w, "store")
    /\ UNCHANGED <<compiled, parent, tasks, job, files, outcome, lock, bar>>

\* A bug of the release: the lock is kept when the chunk is done.
StoreKeepsLock(w) ==
    /\ pc[w] = "store"
    /\ bar' = read[w] + 1
    /\ lock' = IF Len(job[w]) = 1 THEN lock ELSE Free
    /\ outcome' = [outcome EXCEPT ![TestOf(w)] = "resolved"]
    /\ job' = [job EXCEPT ![w] = Tail(@)]
    /\ Goto(w, IF Len(job[w]) = 1 THEN "idle" ELSE "look")
    /\ UNCHANGED <<compiled, parent, tasks, files, read>>

\* The lock is released, the issue returned, and the chunk goes on.
Store(w) ==
    /\ pc[w] = "store"
    /\ bar' = read[w] + 1
    /\ lock' = Free
    /\ outcome' = [outcome EXCEPT ![TestOf(w)] = "resolved"]
    /\ job' = [job EXCEPT ![w] = Tail(@)]
    /\ Goto(w, IF Len(job[w]) = 1 THEN "idle" ELSE "look")
    /\ UNCHANGED <<compiled, parent, tasks, files, read>>

Ended == parent \in {"printed", "raised"}
Finished == Ended /\ UNCHANGED vars

ParentStep == Compile \/ Poll \/ ParentLock \/ Draw \/ Wait
WorkerStep(w) ==
    \/ Take(w) \/ Look(w) \/ MakeDir(w) \/ FirstRun(w) \/ Fix(w) \/ SecondRun(w)
    \/ Acquire(w) \/ Load(w) \/ Store(w)

Next == ParentStep \/ (\E w \in Worker : WorkerStep(w)) \/ Finished

\* The processes run; a test, a fixer, and an opt end (subprocess.run has no
\* timeout).  A process that waits for the lock gets it, since the others let
\* go of it again and again: the lock serves its waiters.
Fairness ==
    /\ WF_vars(ParentStep) /\ SF_vars(ParentLock)
    /\ \A w \in Worker : WF_vars(WorkerStep(w)) /\ SF_vars(Acquire(w))

Spec == Init /\ [][Next]_vars /\ Fairness

-----------------------------------------------------------------------------
(* Properties.                                                             *)

TypeOK ==
    /\ compiled \in 0 .. Cardinality(Test)
    /\ parent \in {"compile", "poll", "lock", "draw", "wait", "printed", "raised"}
    /\ tasks \in Seq(Seq(Test)) /\ job \in [Worker -> Seq(Test)]
    /\ pc \in [Worker -> {"idle", "look", "mkdir", "run", "fix", "rerun", "acquire", "load", "store"}]
    /\ \A w \in Worker : pc[w] = "idle" <=> job[w] = <<>>
    /\ tmpDir \in BOOLEAN
    /\ log \in [Test -> {"none", "bugs", "clean"}]
    /\ fixed \in [Test -> {"none", "buggy", "good"}]
    /\ outcome \in [Test -> {"pending", "resolved"} \cup Raised]
    /\ lock \in Worker \cup {Parent, Free}
    /\ bar \in Nat /\ read \in [Worker -> Nat]

Ending(how) == {t \in Test : outcome[t] = how}

\* The bar counts what has ended well, however the processes' turns at
\* bar.next() and the parent's redraws interleave.
BarCounts == bar = Cardinality(Ending("resolved"))

\* Processes may lose the race for the user's directory, and their tests are
\* then reported as failing; but a process loses it once at most, and not
\* all of them do.
LosersOfRace == /\ Cardinality(Ending("directory")) < Cardinality(Worker)
                /\ Ending("directory") # {} => tmpDir

\* When verify has run the pool to its end, a test was left out only if one
\* before it in its chunk raised; and verify prints the issues only if no test
\* was left out and none raised.
NoneSkipped ==
    Ended /\ compiled = Cardinality(Test) =>
        /\ \A n \in DOMAIN Chunks : \A k \in DOMAIN Chunks[n] :
              outcome[Chunks[n][k]] = "pending"
                  => \E j \in 1 .. k - 1 : outcome[Chunks[n][j]] \in Raised
        /\ parent = "printed" => Ending("resolved") = Test

\* verify ends: the parent's polling never keeps the lock from the workers, nor
\* the result from coming in.
RunEnds == <>Ended
=============================================================================
