---------------------------- MODULE VerifyProofs ----------------------------
(***************************************************************************)
(* For every suite, pool and way to split the suite into chunks: what the  *)
(* processes of verify share stays consistent.                             *)
(***************************************************************************)
EXTENDS Verify, FiniteSetTheorems, TLAPS

-----------------------------------------------------------------------------
(* The inductive invariant.                                                *)

\* The lock is held by whom is between taking and giving it back, and nobody
\* changes the bar in between.
LockHeld ==
    /\ \A w \in Worker : pc[w] \in {"load", "store"} <=> lock = w
    /\ parent = "draw" <=> lock = Parent
    /\ \A w \in Worker : pc[w] = "store" => read[w] = bar

Taken == Len(Chunks) - Len(tasks)

\* What is left of a chunk.
IsRest(s, c) == /\ s # <<>> /\ Len(s) <= Len(c)
                /\ \A k \in 1 .. Len(s) : s[k] = c[Len(c) - Len(s) + k]

\* Worker w has come to the test at place Done(w, n) + 1 of chunk n.
IsAt(w, n) == IsRest(job[w], Chunks[n])
Done(w, n) == Len(Chunks[n]) - Len(job[w])

\* Chunks are taken in order, each by one worker.
Dealt ==
    /\ Len(tasks) <= Len(Chunks)
    /\ \A k \in 1 .. Len(tasks) : tasks[k] = Chunks[Taken + k]
    /\ \A w \in Worker : job[w] # <<>> => \E n \in 1 .. Taken : IsAt(w, n)
    /\ \A v, w \in Worker : \A n \in 1 .. Taken : IsAt(v, n) /\ IsAt(w, n) => v = w

\* What has become of the tests of chunk n.
Untouched(n) == \A k \in 1 .. Len(Chunks[n]) : outcome[Chunks[n][k]] = "pending"
Underway(w, n) ==
    \A k \in 1 .. Len(Chunks[n]) :
        outcome[Chunks[n][k]] = IF k <= Done(w, n) THEN "resolved" ELSE "pending"
Over(n) ==
    \A k \in 1 .. Len(Chunks[n]) :
        outcome[Chunks[n][k]] = "pending" => \E j \in 1 .. k - 1 : outcome[Chunks[n][j]] \in Raised

InOrder ==
    /\ \A n \in Taken + 1 .. Len(Chunks) : Untouched(n)
    /\ \A n \in 1 .. Taken : /\ \A w \in Worker : IsAt(w, n) => Underway(w, n)
                             /\ (\A w \in Worker : ~IsAt(w, n)) => Over(n)

\* The pool has ended when the parent has, unless that failed to compile.
PoolEnded ==
    /\ PoolStarted => compiled = Cardinality(Test)
    /\ Ended /\ compiled = Cardinality(Test) => IsReady
    /\ parent = "printed" => IsReady /\ \A t \in Test : outcome[t] \notin Raised
    /\ parent = "compile" => tasks = Chunks

\* Who may still lose the race for the directory.
Racing == {w \in Worker : pc[w] = "mkdir"}
Race ==
    /\ ~tmpDir => Ending("directory") = {}
    /\ tmpDir => Cardinality(Ending("directory")) + Cardinality(Racing) < Cardinality(Worker)

Inv == TypeOK /\ LockHeld /\ Dealt /\ InOrder /\ BarCounts /\ PoolEnded /\ Race

-----------------------------------------------------------------------------
(* The suite and its chunks.                                               *)

LEMMA ChunkOK ==
    /\ Len(Chunks) \in Nat \ {0} /\ DOMAIN Chunks = 1 .. Len(Chunks)
    /\ \A n \in 1 .. Len(Chunks) : /\ Chunks[n] \in Seq(Test) /\ Len(Chunks[n]) \in Nat \ {0}
                                   /\ DOMAIN Chunks[n] = 1 .. Len(Chunks[n])
                                   /\ \A k \in 1 .. Len(Chunks[n]) : Chunks[n][k] \in Test
<1>1. Chunks \in Seq(Seq(Test)) /\ Len(Chunks) >= 1 /\ \A n \in DOMAIN Chunks : Chunks[n] # <<>>
  BY PoolAssumption
<1>. QED BY <1>1

\* A test is at one place of one chunk.
LEMMA OnePlace ==
    ASSUME NEW m \in 1 .. Len(Chunks), NEW n \in 1 .. Len(Chunks),
           NEW j \in 1 .. Len(Chunks[m]), NEW k \in 1 .. Len(Chunks[n]),
           Chunks[m][j] = Chunks[n][k]
    PROVE  m = n /\ j = k
<1>1. m \in DOMAIN Chunks /\ n \in DOMAIN Chunks /\ j \in DOMAIN Chunks[m] /\ k \in DOMAIN Chunks[n]
  BY ChunkOK
<1>. QED BY <1>1, PoolAssumption

\* What is left of a chunk starts at a place of it.
LEMMA FirstOfRest ==
    ASSUME NEW s \in Seq(Test), NEW n \in 1 .. Len(Chunks), IsRest(s, Chunks[n])
    PROVE  /\ Len(s) \in Nat \ {0} /\ Len(Chunks[n]) - Len(s) \in 0 .. Len(Chunks[n]) - 1
           /\ s[1] = Chunks[n][(Len(Chunks[n]) - Len(s)) + 1]
<1>1. Len(s) \in Nat \ {0} /\ Len(s) <= Len(Chunks[n])
  BY DEF IsRest
<1>2. 1 \in 1 .. Len(s)
  BY <1>1
<1>3. s[1] = Chunks[n][Len(Chunks[n]) - Len(s) + 1]
  BY <1>2 DEF IsRest
<1>. QED BY <1>1, <1>3, ChunkOK

\* What is left of two chunks differs.
LEMMA RestOfOne ==
    ASSUME NEW s \in Seq(Test), NEW m \in 1 .. Len(Chunks), NEW n \in 1 .. Len(Chunks),
           IsRest(s, Chunks[m]), IsRest(s, Chunks[n])
    PROVE  m = n
<1>1. \A c \in {m, n} : \E j \in 1 .. Len(Chunks[c]) : s[1] = Chunks[c][j]
  <2>. SUFFICES ASSUME NEW c \in {m, n} PROVE \E j \in 1 .. Len(Chunks[c]) : s[1] = Chunks[c][j]
    OBVIOUS
  <2>1. (Len(Chunks[c]) - Len(s)) + 1 \in 1 .. Len(Chunks[c])
    BY FirstOfRest, ChunkOK
  <2>. QED BY FirstOfRest, <2>1
<1>2. PICK j \in 1 .. Len(Chunks[m]) : s[1] = Chunks[m][j]
  BY <1>1
<1>3. PICK k \in 1 .. Len(Chunks[n]) : s[1] = Chunks[n][k]
  BY <1>1
<1>. QED BY <1>2, <1>3, OnePlace

\* A suite is finite, since its chunks are.
LEMMA TestFinite == IsFiniteSet(Test) /\ Cardinality(Test) \in Nat
<1>. DEFINE Places(n) == {n} \X (1 .. Len(Chunks[n]))
            All == {Places(n) : n \in 1 .. Len(Chunks)}
            At == [x \in UNION All |-> Chunks[x[1]][x[2]]]
<1>1. IsFiniteSet(1 .. Len(Chunks))
  BY ChunkOK, FS_Interval
<1>2. IsFiniteSet(All)
  <2>1. [n \in 1 .. Len(Chunks) |-> Places(n)] \in Surjection(1 .. Len(Chunks), All)
    BY DEF Surjection
  <2>. QED BY <1>1, <2>1, FS_Surjection
<1>3. \A P \in All : IsFiniteSet(P)
  <2>. SUFFICES ASSUME NEW n \in 1 .. Len(Chunks) PROVE IsFiniteSet(Places(n))
    OBVIOUS
  <2>1. IsFiniteSet({n}) /\ IsFiniteSet(1 .. Len(Chunks[n]))
    <3>1. 1 \in Int /\ Len(Chunks[n]) \in Int
      BY ChunkOK
    <3>. QED BY <3>1, FS_Singleton, FS_Interval
  <2>. QED BY <2>1, FS_Product
<1>4. IsFiniteSet(UNION All)
  BY <1>2, <1>3, FS_UNION
<1>5. At \in Surjection(UNION All, Test)
  <2>1. \A x \in UNION All : At[x] \in Test
    BY ChunkOK
  <2>2. \A t \in Test : \E x \in UNION All : At[x] = t
    <3>. SUFFICES ASSUME NEW t \in Test PROVE \E x \in UNION All : At[x] = t
      OBVIOUS
    <3>1. PICK n \in 1 .. Len(Chunks) : \E k \in 1 .. Len(Chunks[n]) : Chunks[n][k] = t
      BY ChunkOK, PoolAssumption
    <3>2. PICK k \in 1 .. Len(Chunks[n]) : Chunks[n][k] = t
      BY <3>1
    <3>3. <<n, k>> \in UNION All
      OBVIOUS
    <3>. QED BY <3>2, <3>3
  <2>. QED BY <2>1, <2>2 DEF Surjection
<1>. QED BY <1>4, <1>5, FS_Surjection, FS_CardinalityType

\* What a worker that has a test knows about it.
LEMMA Here ==
    ASSUME Inv, NEW w \in Worker, pc[w] # "idle"
    PROVE  /\ job[w] # <<>> /\ job[w] \in Seq(Test) /\ Len(job[w]) \in Nat \ {0}
           /\ TestOf(w) = job[w][1] /\ TestOf(w) \in Test
           /\ \E n \in 1 .. Taken : /\ n \in 1 .. Len(Chunks) /\ IsAt(w, n) /\ Underway(w, n)
                                    /\ Done(w, n) \in 0 .. Len(Chunks[n]) - 1
                                    /\ TestOf(w) = Chunks[n][Done(w, n) + 1]
           /\ outcome[TestOf(w)] = "pending"
<1>1. job[w] # <<>> /\ job[w] \in Seq(Test) /\ Len(job[w]) \in Nat \ {0}
  BY DEF Inv, TypeOK
<1>2. TestOf(w) = job[w][1] /\ TestOf(w) \in Test
  BY <1>1 DEF TestOf
<1>3. tasks \in Seq(Seq(Test)) /\ Len(tasks) \in Nat /\ Len(tasks) <= Len(Chunks)
  BY DEF Inv, TypeOK, Dealt
<1>4. PICK n \in 1 .. Taken : IsAt(w, n)
  BY <1>1 DEF Inv, Dealt
<1>5. n \in 1 .. Len(Chunks) /\ Underway(w, n)
  BY <1>3, <1>4, ChunkOK DEF Inv, InOrder, Taken
<1>6. Done(w, n) \in 0 .. Len(Chunks[n]) - 1
  BY <1>1, <1>4, <1>5, FirstOfRest DEF IsAt, Done
<1>7. TestOf(w) = Chunks[n][Done(w, n) + 1]
  BY <1>1, <1>2, <1>4, <1>5, FirstOfRest DEF IsAt, Done
<1>8. outcome[TestOf(w)] = "pending"
  <2>1. Done(w, n) + 1 \in 1 .. Len(Chunks[n]) /\ ~(Done(w, n) + 1 <= Done(w, n))
    BY <1>6, <1>5, ChunkOK
  <2>. QED BY <1>5, <1>7, <2>1 DEF Underway
<1>. QED BY <1>1, <1>2, <1>4, <1>5, <1>6, <1>7, <1>8

-----------------------------------------------------------------------------
(* How the chunks get on.                                                  *)

LEMMA QuietStep ==
    ASSUME Inv, UNCHANGED <<tasks, job, outcome>>
    PROVE  Dealt' /\ InOrder'
<1>1. Taken' = Taken /\ (\A w, n : IsAt(w, n)' <=> IsAt(w, n)) /\ (\A w, n : Done(w, n)' = Done(w, n))
  BY DEF Taken, IsAt, Done
<1>2. \A w, n : Underway(w, n)' <=> Underway(w, n)
  BY <1>1 DEF Underway
<1>3. \A n : (Untouched(n)' <=> Untouched(n)) /\ (Over(n)' <=> Over(n))
  BY DEF Untouched, Over
<1>4. Dealt'
  BY <1>1 DEF Inv, Dealt
<1>5. InOrder'
  BY <1>1, <1>2, <1>3 DEF Inv, InOrder
<1>. QED BY <1>4, <1>5

LEMMA TakeStep ==
    ASSUME Inv, NEW w \in Worker, Take(w)
    PROVE  Dealt' /\ InOrder'
<1>1. /\ tasks \in Seq(Seq(Test)) /\ Len(tasks) \in Nat \ {0} /\ job \in [Worker -> Seq(Test)]
      /\ job[w] = <<>> /\ Len(tasks) <= Len(Chunks)
      /\ tasks' = Tail(tasks) /\ job' = [job EXCEPT ![w] = Head(tasks)] /\ outcome' = outcome
  BY DEF Take, files, shared, Inv, TypeOK, Dealt
<1>0. PICK n \in 1 .. Len(Chunks) : n = Taken + 1
  <2>1. Taken + 1 \in 1 .. Len(Chunks)
    BY <1>1, ChunkOK DEF Taken
  <2>. QED BY <2>1
<1>2. Taken' = n /\ Taken + 1 = n /\ Taken \in Nat
  BY <1>0, <1>1, ChunkOK DEF Taken
<1>3. Len(tasks') = Len(tasks) - 1 /\ \A k \in 1 .. Len(tasks') : tasks'[k] = tasks[k + 1]
  BY <1>1
<1>4. job'[w] = Chunks[n]
  <2>1. 1 \in 1 .. Len(tasks)
    BY <1>1
  <2>2. Head(tasks) = tasks[1]
    BY <1>1
  <2>3. tasks[1] = Chunks[Taken + 1]
    BY <2>1 DEF Inv, Dealt
  <2>. QED BY <1>1, <1>2, <2>2, <2>3
<1>5. \A v \in Worker : v # w => job'[v] = job[v]
  BY <1>1
<1>6. \A v \in Worker : job'[v] \in Seq(Test)
  BY <1>1, <1>2, <1>4, <1>5, ChunkOK
<1>7. IsAt(w, n)' /\ Done(w, n)' = 0
  BY <1>2, <1>4, ChunkOK DEF IsAt, IsRest, Done
<1>8. \A v \in Worker, m \in 1 .. n : IsAt(v, m)' <=> IF v = w THEN m = n ELSE m # n /\ IsAt(v, m)
  <2>. SUFFICES ASSUME NEW v \in Worker, NEW m \in 1 .. n
                PROVE  IsAt(v, m)' <=> IF v = w THEN m = n ELSE m # n /\ IsAt(v, m)
    OBVIOUS
  <2>1. m \in 1 .. Len(Chunks) /\ \A k \in 1 .. Taken : k \in 1 .. Len(Chunks) /\ k # n
    BY <1>2, ChunkOK
  <2>2. CASE v = w
    BY <1>2, <1>6, <1>7, <2>1, <2>2, RestOfOne DEF IsAt
  <2>3. CASE v # w
    <3>1. IsAt(v, m)' <=> IsAt(v, m)
      BY <1>5, <2>3 DEF IsAt
    <3>2. ~IsAt(v, n)
      <4>. SUFFICES ASSUME IsAt(v, n) PROVE FALSE
        OBVIOUS
      <4>1. PICK k \in 1 .. Taken : IsAt(v, k)
        BY DEF Inv, Dealt, IsAt, IsRest
      <4>. QED BY <1>1, <1>2, <2>1, <4>1, RestOfOne DEF IsAt
    <3>. QED BY <2>3, <3>1, <3>2
  <2>. QED BY <2>2, <2>3
<1>9. \A m \in 1 .. n : m = n \/ m \in 1 .. Taken
  BY <1>2
<1>10. Dealt'
  <2>1. \A k \in 1 .. Len(tasks') : tasks'[k] = Chunks[n + k]
    <3>. SUFFICES ASSUME NEW k \in 1 .. Len(tasks') PROVE tasks'[k] = Chunks[n + k]
      OBVIOUS
    <3>1. k + 1 \in 1 .. Len(tasks) /\ Taken + (k + 1) = n + k
      BY <1>1, <1>2, <1>3
    <3>. QED BY <1>3, <3>1 DEF Inv, Dealt
  <2>2. \A v \in Worker : job'[v] # <<>> => \E m \in 1 .. n : IsAt(v, m)'
    <3>. SUFFICES ASSUME NEW v \in Worker, job'[v] # <<>> PROVE \E m \in 1 .. n : IsAt(v, m)'
      OBVIOUS
    <3>1. CASE v = w
      BY <1>2, <1>7, <3>1
    <3>2. CASE v # w
      <4>1. PICK m \in 1 .. Taken : IsAt(v, m)
        BY <1>5, <3>2 DEF Inv, Dealt
      <4>2. m \in 1 .. n /\ m # n
        BY <1>2
      <4>. QED BY <1>8, <3>2, <4>1, <4>2
    <3>. QED BY <3>1, <3>2
  <2>3. \A u, v \in Worker : \A m \in 1 .. n : IsAt(u, m)' /\ IsAt(v, m)' => u = v
    BY <1>8, <1>9 DEF Inv, Dealt
  <2>. QED BY <1>1, <1>2, <1>3, <2>1, <2>2, <2>3 DEF Dealt
<1>11. InOrder'
  <2>1. \A m \in n + 1 .. Len(Chunks) : Untouched(m)'
    <3>1. \A m \in n + 1 .. Len(Chunks) : m \in Taken + 1 .. Len(Chunks)
      BY <1>2
    <3>. QED BY <1>1, <3>1 DEF Inv, InOrder, Untouched
  <2>2. \A m \in 1 .. n : /\ \A v \in Worker : IsAt(v, m)' => Underway(v, m)'
                          /\ (\A v \in Worker : ~IsAt(v, m)') => Over(m)'
    <3>. SUFFICES ASSUME NEW m \in 1 .. n
                  PROVE  /\ \A v \in Worker : IsAt(v, m)' => Underway(v, m)'
                         /\ (\A v \in Worker : ~IsAt(v, m)') => Over(m)'
      OBVIOUS
    <3>1. CASE m = n
      <4>1. Untouched(n)
        BY <1>2, ChunkOK DEF Inv, InOrder
      <4>2. Underway(w, n)'
        BY <1>1, <1>7, <4>1 DEF Underway, Untouched
      <4>. QED BY <1>2, <1>7, <1>8, <3>1, <4>2
    <3>2. CASE m # n
      <4>1. m \in 1 .. Taken
        BY <1>9, <3>2
      <4>2. \A v \in Worker : IsAt(v, m)' => Underway(v, m)'
        <5>. SUFFICES ASSUME NEW v \in Worker, IsAt(v, m)' PROVE Underway(v, m)'
          OBVIOUS
        <5>1. v # w /\ IsAt(v, m) /\ job'[v] = job[v]
          BY <1>5, <1>8, <3>2
        <5>. QED BY <1>1, <4>1, <5>1 DEF Inv, InOrder, Underway, Done
      <4>3. (\A v \in Worker : ~IsAt(v, m)') => Over(m)'
        <5>1. ~IsAt(w, m)
          BY <1>1 DEF IsAt, IsRest
        <5>2. (\A v \in Worker : ~IsAt(v, m)') => Over(m)
          BY <1>8, <3>2, <4>1, <5>1 DEF Inv, InOrder
        <5>. QED BY <1>1, <5>2 DEF Over
      <4>. QED BY <4>2, <4>3
    <3>. QED BY <3>1, <3>2
  <2>. QED BY <1>2, <2>1, <2>2 DEF InOrder
<1>. QED BY <1>10, <1>11

\* A test ends: well, and the chunk goes on, or with an exception.
LEMMA EndStep ==
    ASSUME Inv, NEW w \in Worker, pc[w] # "idle", UNCHANGED tasks,
           NEW rest \in Seq(Test), NEW how,
           \/ how = "resolved" /\ rest = Tail(job[w])
           \/ how \in Raised /\ rest = <<>>,
           job' = [job EXCEPT ![w] = rest],
           outcome' = [outcome EXCEPT ![TestOf(w)] = how]
    PROVE  Dealt' /\ InOrder'
<1>1. /\ tasks \in Seq(Seq(Test)) /\ Len(tasks) \in Nat /\ job \in [Worker -> Seq(Test)]
      /\ outcome \in [Test -> {"pending", "resolved"} \cup Raised] /\ Len(tasks) <= Len(Chunks)
  BY DEF Inv, TypeOK, Dealt
<1>2. Taken \in Nat /\ Taken' = Taken /\ \A m \in 1 .. Taken : m \in 1 .. Len(Chunks)
  BY <1>1, ChunkOK DEF Taken
<1>3. PICK n \in 1 .. Len(Chunks) : /\ n \in 1 .. Taken /\ IsAt(w, n) /\ Underway(w, n)
                                    /\ Done(w, n) \in 0 .. Len(Chunks[n]) - 1
                                    /\ TestOf(w) = Chunks[n][Done(w, n) + 1]
  BY Here
<1>4. PICK d \in 1 .. Len(Chunks[n]) : d = Done(w, n) + 1
  <2>1. Done(w, n) + 1 \in 1 .. Len(Chunks[n])
    BY <1>3, ChunkOK
  <2>. QED BY <2>1
<1>5. /\ job'[w] = rest /\ \A v \in Worker : v # w => job'[v] = job[v]
      /\ \A v \in Worker : job'[v] \in Seq(Test)
  BY <1>1
<1>6. \A m \in 1 .. Len(Chunks) : \A k \in 1 .. Len(Chunks[m]) :
          outcome'[Chunks[m][k]] = IF m = n /\ k = d THEN how ELSE outcome[Chunks[m][k]]
  <2>. SUFFICES ASSUME NEW m \in 1 .. Len(Chunks), NEW k \in 1 .. Len(Chunks[m])
                PROVE  outcome'[Chunks[m][k]] = IF m = n /\ k = d THEN how ELSE outcome[Chunks[m][k]]
    OBVIOUS
  <2>1. Chunks[m][k] = TestOf(w) <=> m = n /\ k = d
    BY <1>3, <1>4, OnePlace
  <2>2. Chunks[m][k] \in Test
    BY ChunkOK
  <2>. QED BY <1>1, <2>1, <2>2
<1>7. rest # <<>> => IsAt(w, n)' /\ Done(w, n)' = d
  <2>. SUFFICES ASSUME rest # <<>> PROVE IsAt(w, n)' /\ Done(w, n)' = d
    OBVIOUS
  <2>1. /\ job[w] \in Seq(Test) /\ job[w] # <<>> /\ Len(job[w]) \in Nat \ {0}
        /\ Len(rest) = Len(job[w]) - 1 /\ \A k \in 1 .. Len(rest) : rest[k] = job[w][k + 1]
    <3>1. job[w] \in Seq(Test) /\ job[w] # <<>> /\ Len(job[w]) \in Nat \ {0}
      BY Here
    <3>2. rest = Tail(job[w])
      OBVIOUS
    <3>. QED BY <3>1, <3>2
  <2>2. Done(w, n)' = d
    <3>1. Done(w, n)' = Len(Chunks[n]) - Len(rest) /\ Done(w, n) = Len(Chunks[n]) - Len(job[w])
      BY <1>5 DEF Done
    <3>. QED BY <1>4, <2>1, <3>1, ChunkOK
  <2>3. \A k \in 1 .. Len(rest) : rest[k] = Chunks[n][Len(Chunks[n]) - Len(rest) + k]
    <3>. SUFFICES ASSUME NEW k \in 1 .. Len(rest)
                  PROVE  rest[k] = Chunks[n][Len(Chunks[n]) - Len(rest) + k]
      OBVIOUS
    <3>1. k + 1 \in 1 .. Len(job[w])
      BY <2>1
    <3>2. job[w][k + 1] = Chunks[n][Len(Chunks[n]) - Len(job[w]) + (k + 1)]
      BY <1>3, <3>1 DEF IsAt, IsRest
    <3>3. Len(Chunks[n]) - Len(job[w]) + (k + 1) = Len(Chunks[n]) - Len(rest) + k
      BY <2>1, ChunkOK
    <3>. QED BY <2>1, <3>2, <3>3
  <2>4. Len(rest) <= Len(Chunks[n])
    BY <1>3, <2>1, ChunkOK DEF IsAt, IsRest
  <2>. QED BY <1>5, <2>2, <2>3, <2>4 DEF IsAt, IsRest
<1>8. \A v \in Worker, m \in 1 .. Taken :
          IsAt(v, m)' <=> IF v = w THEN m = n /\ rest # <<>> ELSE m # n /\ IsAt(v, m)
  <2>. SUFFICES ASSUME NEW v \in Worker, NEW m \in 1 .. Taken
                PROVE  IsAt(v, m)' <=> IF v = w THEN m = n /\ rest # <<>> ELSE m # n /\ IsAt(v, m)
    OBVIOUS
  <2>1. m \in 1 .. Len(Chunks)
    BY <1>2
  <2>2. CASE v = w
    <3>1. rest = <<>> => ~IsAt(w, m)'
      BY <1>5 DEF IsAt, IsRest
    <3>2. rest # <<>> /\ IsAt(w, m)' => m = n
      BY <1>5, <1>7, <2>1, RestOfOne DEF IsAt
    <3>. QED BY <1>7, <2>2, <3>1, <3>2
  <2>3. CASE v # w
    <3>1. IsAt(v, m)' <=> IsAt(v, m)
      BY <1>5, <2>3 DEF IsAt
    <3>2. ~IsAt(v, n)
      BY <1>3, <2>3 DEF Inv, Dealt
    <3>. QED BY <2>3, <3>1, <3>2
  <2>. QED BY <2>2, <2>3
<1>9. Dealt'
  <2>1. \A v \in Worker : job'[v] # <<>> => \E m \in 1 .. Taken : IsAt(v, m)'
    <3>. SUFFICES ASSUME NEW v \in Worker, job'[v] # <<>> PROVE \E m \in 1 .. Taken : IsAt(v, m)'
      OBVIOUS
    <3>1. CASE v = w
      BY <1>3, <1>5, <1>7, <3>1
    <3>2. CASE v # w
      <4>1. PICK m \in 1 .. Taken : IsAt(v, m)
        BY <1>5, <3>2 DEF Inv, Dealt
      <4>2. m # n
        BY <1>3, <3>2, <4>1 DEF Inv, Dealt
      <4>. QED BY <1>8, <3>2, <4>1, <4>2
    <3>. QED BY <3>1, <3>2
  <2>2. \A u, v \in Worker : \A m \in 1 .. Taken : IsAt(u, m)' /\ IsAt(v, m)' => u = v
    BY <1>8 DEF Inv, Dealt
  <2>. QED BY <1>2, <2>1, <2>2 DEF Inv, Dealt
<1>10. InOrder'
  <2>1. \A m \in Taken + 1 .. Len(Chunks) : Untouched(m)'
    <3>. SUFFICES ASSUME NEW m \in Taken + 1 .. Len(Chunks) PROVE Untouched(m)'
      OBVIOUS
    <3>1. m \in 1 .. Len(Chunks) /\ m # n
      BY <1>2, <1>3
    <3>2. Untouched(m)
      BY DEF Inv, InOrder
    <3>. QED BY <1>6, <3>1, <3>2 DEF Untouched
  <2>2. \A m \in 1 .. Taken : /\ \A v \in Worker : IsAt(v, m)' => Underway(v, m)'
                              /\ (\A v \in Worker : ~IsAt(v, m)') => Over(m)'
    <3>. SUFFICES ASSUME NEW m \in 1 .. Taken
                  PROVE  /\ \A v \in Worker : IsAt(v, m)' => Underway(v, m)'
                         /\ (\A v \in Worker : ~IsAt(v, m)') => Over(m)'
      OBVIOUS
    <3>0. m \in 1 .. Len(Chunks)
      BY <1>2
    <3>1. CASE m = n
      <4>1. how = "resolved" => \A k \in 1 .. Len(Chunks[n]) :
                outcome'[Chunks[n][k]] = IF k <= d THEN "resolved" ELSE "pending"
        BY <1>3, <1>4, <1>6, ChunkOK DEF Underway
      <4>2. rest # <<>> => Underway(w, n)'
        BY <1>7, <4>1 DEF Underway
      <4>3. rest = <<>> => Over(n)'
        <5>1. CASE how = "resolved"
          <6>1. rest = <<>> => d = Len(Chunks[n])
            <7>1. job[w] \in Seq(Test) /\ job[w] # <<>> /\ rest = Tail(job[w])
              BY <5>1, Here DEF Raised
            <7>2. Len(rest) = Len(job[w]) - 1 /\ Len(job[w]) \in Nat
              BY <7>1
            <7>3. Len(rest) = 0 => Len(job[w]) = 1
              BY <7>2
            <7>4. Len(Chunks[n]) \in Nat /\ d = (Len(Chunks[n]) - Len(job[w])) + 1
              BY <1>4, ChunkOK DEF Done
            <7>5. Len(job[w]) = 1 => d = Len(Chunks[n])
              BY <7>4
            <7>6. rest = <<>> => Len(rest) = 0
              OBVIOUS
            <7>. QED BY <7>3, <7>5, <7>6
          <6>. QED BY <4>1, <5>1, <6>1, ChunkOK DEF Over
        <5>2. CASE how \in Raised
          <6>1. \A k \in 1 .. Len(Chunks[n]) : outcome'[Chunks[n][k]] = "pending" => d \in 1 .. k - 1
            BY <1>3, <1>4, <1>6, <5>2, ChunkOK DEF Underway, Raised
          <6>2. outcome'[Chunks[n][d]] \in Raised
            BY <1>6, <5>2
          <6>. QED BY <6>1, <6>2 DEF Over
        <5>. QED BY <5>1, <5>2
      <4>. QED BY <1>3, <1>8, <3>1, <4>2, <4>3
    <3>2. CASE m # n
      <4>1. \A k \in 1 .. Len(Chunks[m]) : outcome'[Chunks[m][k]] = outcome[Chunks[m][k]]
        BY <1>6, <3>0, <3>2
      <4>2. \A v \in Worker : IsAt(v, m)' => Underway(v, m)'
        <5>. SUFFICES ASSUME NEW v \in Worker, IsAt(v, m)' PROVE Underway(v, m)'
          OBVIOUS
        <5>1. v # w /\ IsAt(v, m) /\ job'[v] = job[v]
          BY <1>5, <1>8, <3>2
        <5>. QED BY <4>1, <5>1 DEF Inv, InOrder, Underway, Done
      <4>3. (\A v \in Worker : ~IsAt(v, m)') => Over(m)'
        <5>1. ~IsAt(w, m)
          BY <1>1, <1>3, <3>0, <3>2, RestOfOne DEF IsAt
        <5>2. (\A v \in Worker : ~IsAt(v, m)') => Over(m)
          BY <1>8, <3>2, <5>1 DEF Inv, InOrder
        <5>3. \A k \in 1 .. Len(Chunks[m]) : \A j \in 1 .. k - 1 : j \in 1 .. Len(Chunks[m])
          BY <3>0, ChunkOK
        <5>. QED BY <4>1, <5>2, <5>3 DEF Over
      <4>. QED BY <4>2, <4>3
    <3>. QED BY <3>1, <3>2
  <2>. QED BY <1>2, <2>1, <2>2 DEF InOrder
<1>. QED BY <1>9, <1>10

LEMMA RaiseStep ==
    ASSUME Inv, NEW w \in Worker, pc[w] # "idle", NEW why \in Raised, Raise(w, why)
    PROVE  Dealt' /\ InOrder'
<1>1. <<>> \in Seq(Test)
  OBVIOUS
<1>. QED BY <1>1, EndStep DEF Raise

LEMMA ProgressStep ==
    ASSUME Inv, [Next]_vars
    PROVE  Dealt' /\ InOrder'
<1>1. CASE ParentStep \/ Finished \/ UNCHANGED vars
  <2>1. UNCHANGED <<tasks, job, outcome>>
    BY <1>1 DEF ParentStep, Compile, Poll, ParentLock, Draw, Wait, Finished, vars
  <2>. QED BY <2>1, QuietStep
<1>2. CASE \E w \in Worker : WorkerStep(w)
  <2>. SUFFICES ASSUME NEW w \in Worker, WorkerStep(w) PROVE Dealt' /\ InOrder'
    BY <1>2
  <2>1. CASE Take(w)
    BY <2>1, TakeStep
  <2>2. CASE Look(w) \/ Acquire(w) \/ Load(w)
    BY <2>2, QuietStep DEF Look, Acquire, Load, GoOn
  <2>3. CASE MakeDir(w)
    BY <2>3, QuietStep, RaiseStep DEF MakeDir, GoOn, Raised
  <2>4. CASE FirstRun(w)
    BY <2>4, QuietStep, RaiseStep DEF FirstRun, GoOn, Raised
  <2>5. CASE Fix(w)
    BY <2>5, QuietStep, RaiseStep DEF Fix, GoOn, Raised
  <2>6. CASE SecondRun(w)
    BY <2>6, QuietStep, RaiseStep DEF SecondRun, GoOn, Raised
  <2>7. CASE Store(w)
    <3>1. Tail(job[w]) \in Seq(Test) /\ pc[w] # "idle"
      BY <2>7, Here DEF Store
    <3>. QED BY <2>7, <3>1, EndStep DEF Store
  <2>. QED BY <2>1, <2>2, <2>3, <2>4, <2>5, <2>6, <2>7 DEF WorkerStep
<1>. QED BY <1>1, <1>2 DEF Next

\* What ends is new among those that have ended so.
LEMMA EndingStep ==
    ASSUME Inv, NEW w \in Worker, pc[w] # "idle", NEW how, NEW which, which # "pending",
           outcome' = [outcome EXCEPT ![TestOf(w)] = how]
    PROVE  /\ Ending(which)' = IF how = which THEN Ending(which) \cup {TestOf(w)} ELSE Ending(which)
           /\ IsFiniteSet(Ending(which)) /\ Cardinality(Ending(which)) \in Nat
           /\ Cardinality(Ending(which)') = IF how = which THEN Cardinality(Ending(which)) + 1
                                            ELSE Cardinality(Ending(which))
<1>1. TestOf(w) \in Test /\ outcome[TestOf(w)] = "pending"
  BY Here
<1>2. Ending(which)' = IF how = which THEN Ending(which) \cup {TestOf(w)} ELSE Ending(which)
  BY <1>1 DEF Inv, TypeOK, Ending
<1>3. IsFiniteSet(Ending(which))
  BY TestFinite, FS_Subset DEF Ending
<1>4. TestOf(w) \notin Ending(which)
  BY <1>1 DEF Ending
<1>. QED BY <1>2, <1>3, <1>4, FS_AddElement, FS_CardinalityType

LEMMA BarStep ==
    ASSUME Inv, [Next]_vars
    PROVE  BarCounts'
<1>. USE DEF BarCounts
<1>1. CASE ParentStep \/ Finished \/ UNCHANGED vars
  BY <1>1 DEF Inv, Ending, ParentStep, Compile, Poll, ParentLock, Draw, Wait, Finished, vars, shared
<1>2. CASE \E w \in Worker : WorkerStep(w)
  <2>. SUFFICES ASSUME NEW w \in Worker, WorkerStep(w) PROVE BarCounts'
    BY <1>2
  <2>1. ASSUME pc[w] # "idle", NEW why \in Raised, Raise(w, why) PROVE BarCounts'
    <3>1. outcome' = [outcome EXCEPT ![TestOf(w)] = why] /\ why # "resolved" /\ bar' = bar
      BY <2>1 DEF Raise, Raised, shared
    <3>. QED BY <2>1, <3>1, EndingStep DEF Inv
  <2>2. ASSUME UNCHANGED <<outcome, bar>> PROVE BarCounts'
    BY <2>2 DEF Inv, Ending
  <2>3. CASE Take(w) \/ Look(w) \/ Acquire(w) \/ Load(w)
    BY <2>2, <2>3 DEF Take, Look, Acquire, Load, GoOn, shared
  <2>4. CASE MakeDir(w)
    BY <2>1, <2>2, <2>4 DEF MakeDir, GoOn, Raised, shared
  <2>5. CASE FirstRun(w)
    BY <2>1, <2>2, <2>5 DEF FirstRun, GoOn, Raised, shared
  <2>6. CASE Fix(w)
    BY <2>1, <2>2, <2>6 DEF Fix, GoOn, Raised, shared
  <2>7. CASE SecondRun(w)
    BY <2>1, <2>2, <2>7 DEF SecondRun, GoOn, Raised, shared
  <2>8. CASE Store(w)
    <3>1. /\ pc[w] = "store" /\ bar' = read[w] + 1
          /\ outcome' = [outcome EXCEPT ![TestOf(w)] = "resolved"]
      BY <2>8 DEF Store
    <3>2. read[w] = bar
      BY <3>1 DEF Inv, LockHeld
    <3>3. Cardinality(Ending("resolved")') = Cardinality(Ending("resolved")) + 1
      BY <3>1, EndingStep
    <3>. QED BY <3>1, <3>2, <3>3 DEF Inv
  <2>. QED BY <2>3, <2>4, <2>5, <2>6, <2>7, <2>8 DEF WorkerStep
<1>. QED BY <1>1, <1>2 DEF Next

LEMMA RaceStep ==
    ASSUME Inv, [Next]_vars
    PROVE  Race'
<1>0. /\ IsFiniteSet(Racing) /\ Cardinality(Racing) \in Nat /\ Racing \subseteq Worker
      /\ IsFiniteSet(Ending("directory")) /\ Cardinality(Ending("directory")) \in Nat
      /\ IsFiniteSet(Worker) /\ Cardinality(Worker) \in Nat
  BY PoolAssumption, TestFinite, FS_Subset, FS_CardinalityType DEF Racing, Ending
<1>1. ASSUME UNCHANGED <<tmpDir, outcome>>, Racing' = Racing
      PROVE  Race'
  BY <1>1 DEF Inv, Race, Ending
<1>2. CASE ParentStep \/ Finished \/ UNCHANGED vars
  BY <1>1, <1>2 DEF Racing, ParentStep, Compile, Poll, ParentLock, Draw, Wait, Finished, vars, files
<1>3. CASE \E w \in Worker : WorkerStep(w)
  <2>. SUFFICES ASSUME NEW w \in Worker, WorkerStep(w) PROVE Race'
    BY <1>3
  <2>0. pc \in [Worker -> {"idle", "look", "mkdir", "run", "fix", "rerun", "acquire", "load", "store"}]
        /\ tmpDir \in BOOLEAN
    BY DEF Inv, TypeOK
  <2>1. ASSUME NEW how, how # "directory", pc[w] \notin {"idle", "mkdir"}, UNCHANGED tmpDir,
               outcome' = [outcome EXCEPT ![TestOf(w)] = how], Racing' = Racing
        PROVE  Race'
    <3>1. Ending("directory")' = Ending("directory")
      BY <2>1, EndingStep
    <3>. QED BY <2>1, <3>1 DEF Inv, Race
  <2>2. ASSUME NEW where, where # "mkdir", pc[w] # "mkdir", Goto(w, where) PROVE Racing' = Racing
    BY <2>0, <2>2 DEF Goto, Racing
  <2>3. ASSUME pc[w] \notin {"idle", "mkdir"}, NEW where, where # "mkdir",
               UNCHANGED tmpDir, GoOn(w, where) \/ Raise(w, "failed")
        PROVE  Race'
    BY <1>1, <2>1, <2>2, <2>3 DEF GoOn, Raise
  <2>4. CASE Take(w)
    BY <1>1, <2>2, <2>4 DEF Take, files
  <2>5. CASE Look(w)
    <3>1. CASE tmpDir
      BY <2>3, <2>5, <3>1 DEF Look, files
    <3>2. CASE ~tmpDir
      BY <2>5, <3>2 DEF Look, files, GoOn, Inv, Race, Ending
    <3>. QED BY <3>1, <3>2
  <2>6. CASE MakeDir(w)
    <3>1. pc[w] = "mkdir" /\ w \in Racing
      BY <2>6 DEF MakeDir, Racing
    <3>2. ASSUME NEW where, where # "mkdir", Goto(w, where)
          PROVE  Racing' = Racing \ {w} /\ Cardinality(Racing') = Cardinality(Racing) - 1
      <4>1. Racing' = Racing \ {w}
        BY <2>0, <3>2 DEF Goto, Racing
      <4>. QED BY <1>0, <3>1, <4>1, FS_RemoveElement
    <3>3. CASE ~tmpDir /\ tmpDir' = TRUE /\ GoOn(w, "run")
      <4>1. Cardinality(Racing') = Cardinality(Racing) - 1
        BY <3>2, <3>3 DEF GoOn
      <4>2. Cardinality(Racing) <= Cardinality(Worker)
        BY <1>0, FS_Subset
      <4>3. Ending("directory")' = {}
        BY <3>3 DEF Inv, Race, GoOn, Ending
      <4>4. Cardinality({}) = 0
        BY FS_EmptySet
      <4>5. Cardinality(Ending("directory")') + Cardinality(Racing') < Cardinality(Worker)
        BY <1>0, <4>1, <4>2, <4>3, <4>4
      <4>. QED BY <3>3, <4>5 DEF Race
    <3>4. CASE tmpDir /\ UNCHANGED tmpDir /\ Raise(w, "directory")
      <4>1. Cardinality(Racing') = Cardinality(Racing) - 1
        BY <3>2, <3>4 DEF Raise
      <4>2. Cardinality(Ending("directory")') = Cardinality(Ending("directory")) + 1
        BY <3>1, <3>4, EndingStep DEF Raise
      <4>. QED BY <1>0, <3>4, <4>1, <4>2 DEF Inv, Race
    <3>. QED BY <2>6, <3>3, <3>4 DEF MakeDir
  <2>7. CASE FirstRun(w)
    BY <2>3, <2>7 DEF FirstRun
  <2>8. CASE Fix(w)
    BY <2>3, <2>8 DEF Fix
  <2>9. CASE SecondRun(w)
    BY <2>3, <2>9 DEF SecondRun
  <2>10. CASE Acquire(w) \/ Load(w)
    BY <1>1, <2>2, <2>10 DEF Acquire, Load, files
  <2>11. CASE Store(w)
    BY <2>1, <2>2, <2>11 DEF Store, files
  <2>. QED BY <2>4, <2>5, <2>6, <2>7, <2>8, <2>9, <2>10, <2>11 DEF WorkerStep
<1>. QED BY <1>2, <1>3 DEF Next

LEMMA LockStep ==
    ASSUME Inv, [Next]_vars
    PROVE  LockHeld'
<1>. USE PoolAssumption DEF Inv, TypeOK, LockHeld
<1>1. CASE ParentStep \/ Finished \/ UNCHANGED vars
  BY <1>1 DEF ParentStep, Compile, Poll, ParentLock, Draw, Wait, Finished, vars, shared
<1>2. CASE \E w \in Worker : WorkerStep(w)
  <2>. SUFFICES ASSUME NEW w \in Worker, WorkerStep(w) PROVE LockHeld'
    BY <1>2
  <2>1. ASSUME pc[w] \notin {"load", "store"}, NEW where, where \notin {"load", "store"},
               Goto(w, where), UNCHANGED <<parent, shared>>
        PROVE  LockHeld'
    BY <2>1 DEF Goto, shared
  <2>2. CASE Take(w)
    BY <2>1, <2>2 DEF Take
  <2>3. CASE Look(w)
    BY <2>1, <2>3 DEF Look, GoOn
  <2>4. CASE MakeDir(w)
    BY <2>1, <2>4 DEF MakeDir, GoOn, Raise
  <2>5. CASE FirstRun(w)
    BY <2>1, <2>5 DEF FirstRun, GoOn, Raise
  <2>6. CASE Fix(w)
    BY <2>1, <2>6 DEF Fix, GoOn, Raise
  <2>7. CASE SecondRun(w)
    BY <2>1, <2>7 DEF SecondRun, GoOn, Raise
  <2>8. CASE Acquire(w)
    BY <2>8 DEF Acquire, Goto
  <2>9. CASE Load(w)
    BY <2>9 DEF Load, Goto
  <2>10. CASE Store(w)
    <3>1. lock = w /\ lock' = Free /\ parent' = parent /\ UNCHANGED read
      BY <2>10 DEF Store
    <3>2. pc'[w] \in {"idle", "look"} /\ \A v \in Worker : v # w => pc'[v] = pc[v]
      BY <2>10 DEF Store, Goto
    <3>3. \A v \in Worker : pc'[v] \notin {"load", "store"}
      BY <3>1, <3>2
    <3>. QED BY <3>1, <3>3
  <2>. QED BY <2>2, <2>3, <2>4, <2>5, <2>6, <2>7, <2>8, <2>9, <2>10 DEF WorkerStep
<1>. QED BY <1>1, <1>2 DEF Next

LEMMA PoolStep ==
    ASSUME Inv, [Next]_vars
    PROVE  PoolEnded'
<1>. USE DEF Inv, PoolEnded, IsReady, PoolStarted, Ended
<1>1. CASE ParentStep
  <2>1. UNCHANGED <<tasks, job, outcome>>
    BY <1>1 DEF ParentStep, Compile, Poll, ParentLock, Draw, Wait
  <2>2. CASE Compile
    <3>1. compiled < Cardinality(Test) => compiled # Cardinality(Test)
      BY TestFinite DEF TypeOK
    <3>. QED BY <2>1, <2>2, <3>1 DEF Compile
  <2>3. CASE Poll
    BY <2>1, <2>3 DEF Poll
  <2>4. CASE ParentLock \/ Draw \/ Wait
    BY <2>1, <2>4 DEF ParentLock, Draw, Wait, shared
  <2>. QED BY <1>1, <2>2, <2>3, <2>4 DEF ParentStep
<1>2. CASE \E w \in Worker : WorkerStep(w)
  <2>. SUFFICES ASSUME NEW w \in Worker, WorkerStep(w) PROVE PoolEnded'
    BY <1>2
  <2>1. UNCHANGED <<compiled, parent>>
    BY DEF WorkerStep, Take, Look, MakeDir, FirstRun, Fix, SecondRun, Acquire, Load, Store,
           GoOn, Raise
  <2>2. ~IsReady
    <3>1. CASE Take(w)
      BY <3>1 DEF Take
    <3>2. CASE ~Take(w)
      BY <3>2, Here DEF WorkerStep, Look, MakeDir, FirstRun, Fix, SecondRun, Acquire, Load, Store
    <3>. QED BY <3>1, <3>2
  <2>3. CASE ~Take(w)
    <3>1. UNCHANGED tasks
      BY <2>3 DEF WorkerStep, Look, MakeDir, FirstRun, Fix, SecondRun, Acquire, Load, Store,
                  GoOn, Raise
    <3>. QED BY <2>1, <2>2, <3>1
  <2>4. CASE Take(w)
    BY <2>1, <2>2, <2>4 DEF Take
  <2>. QED BY <2>3, <2>4
<1>3. CASE Finished \/ UNCHANGED vars
  BY <1>3 DEF Finished, vars
<1>. QED BY <1>1, <1>2, <1>3 DEF Next

LEMMA TypeStep ==
    ASSUME Inv, [Next]_vars
    PROVE  TypeOK'
<1>. USE DEF Inv, TypeOK
<1>1. CASE ParentStep \/ Finished \/ UNCHANGED vars
  BY <1>1, TestFinite DEF ParentStep, Compile, Poll, ParentLock, Draw, Wait, Finished, vars, files, shared
<1>2. CASE \E w \in Worker : WorkerStep(w)
  <2>. SUFFICES ASSUME NEW w \in Worker, WorkerStep(w) PROVE TypeOK'
    BY <1>2
  <2>. DEFINE FilesOK == /\ tmpDir' \in BOOLEAN
                         /\ log' \in [Test -> {"none", "bugs", "clean"}]
                         /\ fixed' \in [Test -> {"none", "buggy", "good"}]
  <2>1. ASSUME pc[w] # "idle", NEW how \in Raised, Raise(w, how), FilesOK PROVE TypeOK'
    <3>1. TestOf(w) \in Test /\ outcome' = [outcome EXCEPT ![TestOf(w)] = how]
      BY <2>1, Here DEF Raise
    <3>2. job' = [job EXCEPT ![w] = <<>>] /\ pc' = [pc EXCEPT ![w] = "idle"] /\ <<>> \in Seq(Test)
      BY <2>1 DEF Raise, Goto
    <3>3. outcome' \in [Test -> {"pending", "resolved"} \cup Raised]
      BY <2>1, <3>1
    <3>4. job' \in [Worker -> Seq(Test)]
      BY <3>2
    <3>5. /\ \A v \in Worker : pc'[v] = "idle" <=> job'[v] = <<>>
          /\ pc' \in [Worker -> {"idle", "look", "mkdir", "run", "fix", "rerun", "acquire", "load", "store"}]
      BY <3>2
    <3>. QED BY <2>1, <3>3, <3>4, <3>5 DEF Raise, shared
  <2>2. ASSUME pc[w] # "idle", NEW where \in {"mkdir", "run", "fix", "rerun", "acquire"},
               GoOn(w, where), FilesOK
        PROVE  TypeOK'
    BY <2>2 DEF GoOn, Goto, shared
  <2>3. CASE Take(w)
    <3>1. Head(tasks) \in Seq(Test) /\ Tail(tasks) \in Seq(Seq(Test)) /\ Head(tasks) # <<>>
      <4>1. /\ tasks \in Seq(Seq(Test)) /\ Len(tasks) \in Nat \ {0} /\ Len(tasks) <= Len(Chunks)
            /\ Head(tasks) = tasks[1] /\ 1 \in 1 .. Len(tasks)
        BY <2>3 DEF Take, Dealt
      <4>2. tasks[1] = Chunks[Taken + 1]
        BY <4>1 DEF Dealt
      <4>3. Taken + 1 \in 1 .. Len(Chunks)
        BY <4>1, ChunkOK DEF Taken
      <4>4. \A n \in 1 .. Len(Chunks) : Chunks[n] # <<>>
        BY ChunkOK, PoolAssumption
      <4>. QED BY <4>1, <4>2, <4>3, <4>4
    <3>. QED BY <2>3, <3>1 DEF Take, Goto, files, shared
  <2>4. CASE Look(w)
    BY <2>2, <2>4 DEF Look, files
  <2>5. CASE MakeDir(w)
    BY <2>1, <2>2, <2>5 DEF MakeDir, Raised
  <2>6. CASE FirstRun(w)
    <3>1. FilesOK
      BY <2>6, Here DEF FirstRun
    <3>. QED BY <2>1, <2>2, <2>6, <3>1 DEF FirstRun, Raised
  <2>7. CASE Fix(w)
    <3>1. FilesOK
      BY <2>7, Here DEF Fix
    <3>. QED BY <2>1, <2>2, <2>7, <3>1 DEF Fix, Raised
  <2>8. CASE SecondRun(w)
    <3>1. FilesOK
      BY <2>8, Here DEF SecondRun, LogsAfter
    <3>. QED BY <2>1, <2>2, <2>8, <3>1 DEF SecondRun, Raised
  <2>9. CASE Acquire(w) \/ Load(w)
    BY <2>9 DEF Acquire, Load, Goto, files
  <2>10. CASE Store(w)
    <3>1. pc[w] = "store" /\ job[w] \in Seq(Test) /\ job[w] # <<>> /\ TestOf(w) \in Test
      BY <2>10, Here DEF Store
    <3>2. Tail(job[w]) \in Seq(Test) /\ (Tail(job[w]) = <<>> <=> Len(job[w]) = 1)
      <4>1. \A s \in Seq(Test) : s = <<>> <=> Len(s) = 0
        OBVIOUS
      <4>2. Tail(job[w]) \in Seq(Test) /\ Len(Tail(job[w])) = Len(job[w]) - 1 /\ Len(job[w]) \in Nat
        BY <3>1
      <4>3. Len(Tail(job[w])) = 0 <=> Len(job[w]) = 1
        BY <4>2
      <4>. QED BY <4>1, <4>2, <4>3
    <3>. QED BY <2>10, <3>1, <3>2 DEF Store, Goto, files
  <2>. QED BY <2>3, <2>4, <2>5, <2>6, <2>7, <2>8, <2>9, <2>10 DEF WorkerStep
<1>. QED BY <1>1, <1>2 DEF Next

LEMMA InitInv == Init => Inv
<1>. SUFFICES ASSUME Init PROVE Inv
  OBVIOUS
<1>. USE PoolAssumption DEF Init
<1>1. TypeOK
  BY TestFinite, ChunkOK DEF TypeOK
<1>2. Taken = 0 /\ \A w \in Worker : job[w] = <<>>
  BY ChunkOK DEF Taken
<1>3. LockHeld /\ Dealt
  BY <1>2, ChunkOK DEF LockHeld, Dealt
<1>4. InOrder
  BY <1>2, ChunkOK DEF InOrder, Untouched
<1>5. \A how : how # "pending" => Ending(how) = {}
  BY DEF Ending
<1>6. BarCounts
  BY <1>5, FS_EmptySet DEF BarCounts
<1>7. PoolEnded
  BY DEF PoolEnded, PoolStarted, Ended
<1>8. Race
  <2>1. Racing = {} /\ Ending("directory") = {}
    BY <1>5 DEF Racing
  <2>2. Cardinality({}) = 0 /\ Cardinality(Worker) \in Nat \ {0}
    BY FS_EmptySet, FS_CardinalityType
  <2>3. Cardinality(Ending("directory")) = 0 /\ Cardinality(Racing) = 0
    BY <2>1, <2>2
  <2>4. Cardinality(Ending("directory")) + Cardinality(Racing) < Cardinality(Worker)
    BY <2>2, <2>3
  <2>. QED BY <2>1, <2>4 DEF Race
<1>. QED BY <1>1, <1>3, <1>4, <1>6, <1>7, <1>8 DEF Inv

THEOREM VerifyInv == Spec => []Inv
<1>1. Inv /\ [Next]_vars => Inv'
  BY ProgressStep, BarStep, RaceStep, LockStep, PoolStep, TypeStep DEF Inv
<1>. QED BY InitInv, <1>1, PTL DEF Spec

-----------------------------------------------------------------------------
\* A process has a test exactly when it is not idle, and the rest keeps its
\* type, for every suite and pool.
THEOREM VerifyTypeCorrect == Spec => []TypeOK
BY VerifyInv, PTL DEF Inv

\* The bar counts the tests that have ended well: no update of it is lost,
\* whatever the number of processes that share it.
THEOREM BarIsExact == Spec => []BarCounts
BY VerifyInv, PTL DEF Inv

\* Fewer tests fail for the race for the directory than there are processes,
\* and none before the directory is there.
THEOREM RaceIsBounded == Spec => []LosersOfRace
<1>1. Inv => LosersOfRace
  <2>. SUFFICES ASSUME Inv PROVE LosersOfRace
    OBVIOUS
  <2>1. /\ Cardinality(Racing) \in Nat /\ Cardinality(Ending("directory")) \in Nat
        /\ Cardinality(Worker) \in Nat \ {0} /\ Cardinality({}) = 0
    BY PoolAssumption, TestFinite, FS_Subset, FS_EmptySet, FS_CardinalityType DEF Racing, Ending
  <2>2. CASE tmpDir
    <3>1. Cardinality(Ending("directory")) < Cardinality(Worker)
      BY <2>1, <2>2 DEF Inv, Race
    <3>. QED BY <2>2, <3>1 DEF LosersOfRace
  <2>3. CASE ~tmpDir
    <3>1. Ending("directory") = {}
      BY <2>3 DEF Inv, Race
    <3>2. Cardinality(Ending("directory")) < Cardinality(Worker)
      BY <2>1, <3>1
    <3>. QED BY <3>1, <3>2 DEF LosersOfRace
  <2>. QED BY <2>2, <2>3
<1>. QED BY <1>1, VerifyInv, PTL

\* However the suite is split into chunks, the tests left out come after one
\* that raised, and the issues are printed only if every test ended well.
THEOREM NoTestSkipped == Spec => []NoneSkipped
<1>1. Inv => NoneSkipped
  <2>. SUFFICES ASSUME Inv, Ended, compiled = Cardinality(Test)
                PROVE  /\ \A n \in 1 .. Len(Chunks) : Over(n)
                       /\ parent = "printed" => Ending("resolved") = Test
    BY ChunkOK DEF NoneSkipped, Over
  <2>1. tasks = <<>> /\ \A w \in Worker : job[w] = <<>>
    BY DEF Inv, PoolEnded, IsReady
  <2>2. Taken = Len(Chunks)
    BY <2>1, ChunkOK DEF Taken
  <2>3. \A n \in 1 .. Len(Chunks) : Over(n)
    BY <2>1, <2>2 DEF Inv, InOrder, IsAt, IsRest
  <2>4. ASSUME parent = "printed", NEW t \in Test PROVE outcome[t] = "resolved"
    <3>1. \A u \in Test : outcome[u] \notin Raised
      BY <2>4 DEF Inv, PoolEnded
    <3>2. PICK n \in 1 .. Len(Chunks) : \E k \in 1 .. Len(Chunks[n]) : Chunks[n][k] = t
      BY <2>4, ChunkOK, PoolAssumption
    <3>3. PICK k \in 1 .. Len(Chunks[n]) : Chunks[n][k] = t
      BY <3>2
    <3>4. outcome[t] # "pending"
      <4>1. \A j \in 1 .. k - 1 : j \in 1 .. Len(Chunks[n])
        BY ChunkOK
      <4>. QED BY <2>3, <3>1, <3>3, <4>1, ChunkOK DEF Over
    <3>. QED BY <2>4, <3>1, <3>4 DEF Inv, TypeOK
  <2>. QED BY <2>3, <2>4 DEF Ending
<1>. QED BY <1>1, VerifyInv, PTL
=============================================================================
