------------------------- MODULE TraceParserProofs -------------------------
(***************************************************************************)
(* For every log, whole or cut short: what the report of TraceParser has   *)
(* of its operations and of its bugs, at which times, and which logs are   *)
(* read to their end.                                                      *)
(***************************************************************************)
EXTENDS TraceParser, FiniteSetTheorems, WellFoundedInduction, TLAPS

-----------------------------------------------------------------------------
(* The operations of a line.                                               *)

\* A set of numbers has a least one.
LEMMA Least ==
    ASSUME NEW N \in SUBSET Nat, N # {}
    PROVE  \E x \in N : \A y \in N : x <= y
<1>. DEFINE R == StrictSubsetOrdering(Nat)
            F == FiniteSubsetsOf(Nat)
            Under == {0 .. n : n \in N}
<1>1. IsWellFoundedOn(R, F)
  BY FS_StrictSubsetOrderingWellFounded
<1>2. Under \subseteq F /\ Under # {}
  <2>1. \A n \in Nat : IsFiniteSet(0 .. n) /\ 0 .. n \in SUBSET Nat
    BY FS_Interval
  <2>. QED BY <2>1 DEF FiniteSubsetsOf
<1>3. PICK b \in Under : \A c \in Under : ~ (<<c, b>> \in R)
  <2>. HIDE DEF R, F, Under
  <2>. QED BY <1>1, <1>2, WFMin
<1>4. PICK x \in N : b = 0 .. x
  OBVIOUS
<1>5. ASSUME NEW y \in N, y < x
      PROVE  FALSE
  <2>1. 0 .. y \subseteq 0 .. x /\ x \notin 0 .. y /\ x \in 0 .. x /\ 0 .. x \in SUBSET Nat /\ 0 .. y \in SUBSET Nat
    BY <1>5
  <2>2. <<0 .. y, 0 .. x>> \in R
    BY <2>1 DEF StrictSubsetOrdering
  <2>. QED BY <1>3, <1>4, <2>2
<1>. QED BY <1>5

\* A set with 0, and with each number the next, has them all.
LEMMA SetInduction ==
    ASSUME NEW S, 0 \in S, \A n \in Nat : n \in S => n + 1 \in S
    PROVE  Nat \subseteq S
<1>1. SUFFICES ASSUME Nat \ S # {} PROVE FALSE
  OBVIOUS
<1>2. PICK x \in Nat \ S : \A y \in Nat \ S : x <= y
  BY <1>1, Least
<1>3. x # 0 /\ x - 1 \in Nat
  BY <1>2
<1>4. x - 1 \in S
  BY <1>2, <1>3
<1>. QED BY <1>2, <1>3, <1>4

\* What is left of the first n events of a line.
Next1(arg, k, before) == IF arg[k] \in P!Operations THEN Append(before, arg[k]) ELSE before
IsLeft(f, arg, n) ==
    /\ f \in [0 .. n -> Seq(P!Operations)]
    /\ f[0] = <<>>
    /\ \A k \in 1 .. n : f[k] = Next1(arg, k, f[k - 1])

LEMMA LeftExists ==
    ASSUME NEW arg, Len(arg) \in Nat
    PROVE  \E f : IsLeft(f, arg, Len(arg))
<1>. DEFINE S == {n \in Nat : \E f : IsLeft(f, arg, n)}
<1>1. 0 \in S
  <2>. DEFINE f == [k \in 0 .. 0 |-> <<>>]
  <2>1. IsLeft(f, arg, 0)
    BY DEF IsLeft
  <2>. QED BY <2>1
<1>2. ASSUME NEW n \in Nat, n \in S
      PROVE  n + 1 \in S
  <2>1. PICK f : IsLeft(f, arg, n)
    BY <1>2
  <2>. DEFINE g == [k \in 0 .. n + 1 |-> IF k = n + 1 THEN Next1(arg, n + 1, f[n]) ELSE f[k]]
  <2>2. Next1(arg, n + 1, f[n]) \in Seq(P!Operations)
    BY <2>1 DEF IsLeft, Next1
  <2>3. g \in [0 .. n + 1 -> Seq(P!Operations)] /\ g[0] = <<>>
    BY <2>1, <2>2 DEF IsLeft
  <2>4. ASSUME NEW k \in 1 .. n + 1
        PROVE  g[k] = Next1(arg, k, g[k - 1])
    <3>1. k - 1 \in 0 .. n /\ g[k - 1] = f[k - 1]
      OBVIOUS
    <3>2. CASE k = n + 1
      BY <3>1, <3>2
    <3>3. CASE k \in 1 .. n
      BY <2>1, <3>1, <3>3 DEF IsLeft
    <3>. QED BY <3>2, <3>3
  <2>. HIDE DEF g
  <2>5. IsLeft(g, arg, n + 1)
    BY <2>3, <2>4 DEF IsLeft
  <2>. QED BY <2>5
<1>3. Nat \subseteq S
  <2>. HIDE DEF S
  <2>. QED BY <1>1, <1>2, SetInduction
<1>. QED BY <1>3

\* The operations of a line are a sequence of operations.
LEMMA OperationsTyped ==
    ASSUME NEW line, Len(line.arg) \in Nat
    PROVE  P!OperationsOf(line) \in Seq(P!Operations)
<1>. DEFINE N == Len(line.arg)
            Body(up) == [n \in 0 .. N |->
                            IF n = 0 THEN <<>>
                            ELSE IF line.arg[n] \in P!Operations THEN Append(up[n - 1], line.arg[n])
                            ELSE up[n - 1]]
            u == CHOOSE up : up = Body(up)
<1>1. PICK f : IsLeft(f, line.arg, N)
  BY LeftExists
<1>2. f = Body(f)
  <2>1. ASSUME NEW n \in 0 .. N
        PROVE  f[n] = Body(f)[n]
    <3>1. CASE n = 0
      BY <1>1, <3>1 DEF IsLeft
    <3>2. CASE n # 0
      <4>1. n \in 1 .. N
        BY <3>2
      <4>. QED BY <1>1, <3>2, <4>1 DEF IsLeft, Next1
    <3>. QED BY <3>1, <3>2
  <2>2. DOMAIN f = 0 .. N /\ f = [n \in 0 .. N |-> f[n]]
    BY <1>1 DEF IsLeft
  <2>. QED BY <2>1, <2>2
<1>3. u = Body(u)
  <2>. HIDE DEF Body
  <2>. QED BY <1>2
<1>4. P!OperationsOf(line) = u[N]
  BY DEF P!OperationsOf
<1>5. u[0] = <<>> /\ \A n \in 1 .. N : u[n] = Next1(line.arg, n, u[n - 1])
  <2>1. \A n \in 0 .. N : u[n] = Body(u)[n]
    BY <1>3
  <2>. HIDE DEF u
  <2>2. u[0] = <<>>
    <3>1. 0 \in 0 .. N
      OBVIOUS
    <3>. QED BY <2>1, <3>1
  <2>3. ASSUME NEW n \in 1 .. N
        PROVE  u[n] = Next1(line.arg, n, u[n - 1])
    <3>1. n \in 0 .. N /\ n # 0
      OBVIOUS
    <3>. QED BY <2>1, <3>1 DEF Next1
  <2>. QED BY <2>2, <2>3
<1>. HIDE DEF u
<1>. DEFINE S == {n \in Nat : n <= N => u[n] \in Seq(P!Operations)}
<1>6. Nat \subseteq S
  <2>1. 0 \in S
    <3>1. u[0] \in Seq(P!Operations)
      BY <1>5
    <3>. QED BY <3>1
  <2>2. ASSUME NEW n \in Nat, n \in S
        PROVE  n + 1 \in S
    <3>. SUFFICES ASSUME n + 1 <= N PROVE u[n + 1] \in Seq(P!Operations)
      OBVIOUS
    <3>1. u[n] \in Seq(P!Operations) /\ n + 1 \in 1 .. N /\ (n + 1) - 1 = n
      BY <2>2
    <3>2. u[n + 1] = Next1(line.arg, n + 1, u[n])
      BY <1>5, <3>1
    <3>. QED BY <3>1, <3>2 DEF Next1
  <2>. HIDE DEF S
  <2>. QED BY <2>1, <2>2, SetInduction
<1>. QED BY <1>4, <1>6

-----------------------------------------------------------------------------
(* The reader of pmemcheck's logs.                                         *)

\* A line that was passed is in the report, all of it and in one piece.
LineRead(n) ==
    \E m \in 0 .. Len(report) :
        /\ P!MadeOf(n) = m + 1 .. m + Len(P!OperationsOf(log[n]))
        /\ \A j \in DOMAIN P!OperationsOf(log[n]) : report[m + j].event = P!OperationsOf(log[n])[j]

\* The log and the reader's place in it: the trace is before its end.
PShape ==
    /\ P!TypeOK
    /\ \A m, n \in DOMAIN log : log[m].kind = "stop" /\ log[n].kind = "trace" => n < m
    /\ stopped => started /\ \E m \in DOMAIN log : m < i /\ log[m].kind = "stop"
    /\ ~stopped => /\ i <= Len(log) + 1 /\ total = NoCount
                   /\ \A k \in DOMAIN report : report[k].event \in P!Operations
    /\ pc = "done" /\ ~stopped => i > Len(log)

\* The report so far: it comes from lines that were passed, in their order,
\* and lacks nothing of those of the trace.
PReport ==
    /\ \A k \in DOMAIN report :
          /\ report[k].time < time /\ report[k].lines[1] < i /\ report[k].lines[1] \in DOMAIN log
          /\ report[k].event \in P!Operations => log[report[k].lines[1]].kind = "trace"
    /\ \A k \in 2 .. Len(report) :
          /\ report[k - 1].time < report[k].time
          /\ report[k].event \in P!Operations => report[k - 1].event \in P!Operations
          /\ report[k - 1].lines[1] <= report[k].lines[1]
    /\ \A n \in DOMAIN log : n < i /\ log[n].kind = "trace" => LineRead(n)

\* Lines have what their kind says.
LEMMA LineArgs ==
    ASSUME P!TypeOK, NEW n \in DOMAIN log
    PROVE  /\ log[n].kind = "trace" => log[n].arg \in Seq(P!Events) /\ Len(log[n].arg) \in Nat
           /\ log[n].kind \in {"stores", "flushes", "at"} => log[n].arg \in Nat
<1>1. log[n] \in P!Line
  BY DEF P!TypeOK
<1>2. CASE log[n].kind = "trace"
  <2>1. log[n].arg \in Seq(P!Events)
    BY <1>1, <1>2 DEF P!Line
  <2>. QED BY <1>2, <2>1
<1>3. CASE log[n].kind \in {"stores", "flushes", "at"}
  BY <1>1, <1>3 DEF P!Line
<1>. QED BY <1>2, <1>3

LEMMA EntryTypes ==
    ASSUME NEW r, r \in Seq(P!Entry), NEW k \in DOMAIN r
    PROVE  /\ r[k].time \in Nat /\ r[k].lines[1] \in Nat
           /\ k \in 1 .. Len(r) /\ Len(r) \in Nat
<1>1. r[k] \in P!Entry /\ k \in 1 .. Len(r) /\ Len(r) \in Nat
  OBVIOUS
<1>2. r[k].time \in Nat /\ r[k].lines \in Nat \X Nat
  BY <1>1 DEF P!Entry
<1>. QED BY <1>1, <1>2

\* A step over lines that are not of the trace.
LEMMA Passing ==
    ASSUME PShape, PReport, UNCHANGED <<log, report, time>>, i' \in Nat, i <= i',
           \A n \in DOMAIN log : i <= n /\ n < i' => log[n].kind # "trace"
    PROVE  PReport'
<1>1. i \in Nat
  BY DEF PShape, P!TypeOK
<1>2. \A n \in DOMAIN log : n < i' /\ log[n].kind = "trace" => n < i
  BY <1>1 DEF PShape, P!TypeOK
<1>3. \A n : LineRead(n)' <=> LineRead(n)
  BY DEF LineRead, P!MadeOf
<1>4. \A k \in DOMAIN report : report[k].lines[1] < i'
  <2>1. \A k \in DOMAIN report : report[k].lines[1] \in Nat /\ report[k].lines[1] < i
    BY EntryTypes DEF PReport, PShape, P!TypeOK
  <2>. QED BY <1>1, <2>1
<1>. QED BY <1>2, <1>3, <1>4 DEF PReport

\* Two sequences, one after the other.
LEMMA Glued ==
    ASSUME NEW S, NEW r \in Seq(S), NEW more \in Seq(S)
    PROVE  /\ r \o more \in Seq(S)
           /\ DOMAIN r = 1 .. Len(r) /\ Len(r) \in Nat /\ Len(more) \in Nat
           /\ Len(r \o more) = Len(r) + Len(more) /\ DOMAIN (r \o more) = 1 .. Len(r) + Len(more)
           /\ \A k \in 1 .. Len(r) : (r \o more)[k] = r[k]
           /\ \A j \in 1 .. Len(more) : (r \o more)[Len(r) + j] = more[j]
           /\ \A k \in DOMAIN (r \o more) :
                 k \in 1 .. Len(r) \/ \E j \in 1 .. Len(more) : k = Len(r) + j
<1>1. /\ r \o more \in Seq(S)
      /\ DOMAIN r = 1 .. Len(r) /\ Len(r) \in Nat /\ Len(more) \in Nat
      /\ Len(r \o more) = Len(r) + Len(more) /\ DOMAIN (r \o more) = 1 .. Len(r) + Len(more)
      /\ \A k \in 1 .. Len(r) : (r \o more)[k] = r[k]
  OBVIOUS
<1>2. \A j \in 1 .. Len(more) : (r \o more)[Len(r) + j] = more[j]
  OBVIOUS
<1>3. ASSUME NEW k \in DOMAIN (r \o more), k \notin 1 .. Len(r)
      PROVE  \E j \in 1 .. Len(more) : k = Len(r) + j
  <2>1. k - Len(r) \in 1 .. Len(more) /\ k = Len(r) + (k - Len(r))
    BY <1>1, <1>3
  <2>. QED BY <2>1
<1>. QED BY <1>1, <1>2, <1>3

\* What more events do to the lines that were read.
Adds(more) == /\ more \in Seq(P!Entry) /\ report' = report \o more /\ log' = log
              /\ \A j \in DOMAIN more : more[j].lines[1] = i

LEMMA StillRead ==
    ASSUME PShape, PReport, NEW more, Adds(more),
           NEW n \in DOMAIN log, n < i, log[n].kind = "trace"
    PROVE  LineRead(n)'
<1>1. report \in Seq(P!Entry) /\ i \in Nat
  BY DEF PShape, P!TypeOK
<1>2. PICK m \in 0 .. Len(report) :
          /\ P!MadeOf(n) = m + 1 .. m + Len(P!OperationsOf(log[n]))
          /\ \A j \in DOMAIN P!OperationsOf(log[n]) : report[m + j].event = P!OperationsOf(log[n])[j]
  BY DEF PReport, LineRead
<1>3. /\ DOMAIN report = 1 .. Len(report) /\ Len(report) \in Nat /\ Len(more) \in Nat
      /\ Len(report') = Len(report) + Len(more) /\ DOMAIN report' = 1 .. Len(report) + Len(more)
      /\ \A k \in 1 .. Len(report) : report'[k] = report[k]
      /\ \A j \in 1 .. Len(more) : report'[Len(report) + j] = more[j]
      /\ \A k \in DOMAIN report' :
            k \in 1 .. Len(report) \/ \E j \in 1 .. Len(more) : k = Len(report) + j
  <2>1. report' = report \o more /\ more \in Seq(P!Entry)
    BY DEF Adds
  <2>. QED BY <1>1, <2>1, Glued
<1>4. ASSUME NEW k \in DOMAIN report', k \notin 1 .. Len(report)
      PROVE  report'[k].lines[1] = i
  <2>1. PICK j \in 1 .. Len(more) : k = Len(report) + j
    BY <1>3, <1>4
  <2>2. j \in DOMAIN more
    BY DEF Adds
  <2>. QED BY <1>3, <2>1, <2>2 DEF Adds
<1>5. P!MadeOf(n)' = P!MadeOf(n)
  <2>1. \A k \in DOMAIN report' : report'[k].lines[1] = n <=> k \in DOMAIN report /\ report[k].lines[1] = n
    BY <1>1, <1>3, <1>4
  <2>2. DOMAIN report \subseteq DOMAIN report'
    BY <1>3
  <2>. QED BY <2>1, <2>2 DEF P!MadeOf
<1>6. LET q == P!OperationsOf(log[n]) IN q \in Seq(P!Operations)
  BY LineArgs, OperationsTyped DEF PShape
<1>7. ASSUME NEW j \in DOMAIN P!OperationsOf(log[n])
      PROVE  report'[m + j].event = P!OperationsOf(log[n])[j]
  <2>1. m + j \in P!MadeOf(n)
    BY <1>2, <1>6
  <2>2. m + j \in DOMAIN report
    BY <2>1 DEF P!MadeOf
  <2>. QED BY <1>2, <1>3, <2>2
<1>8. m \in 0 .. Len(report') /\ log' = log
  BY <1>3 DEF Adds
<1>. QED BY <1>2, <1>5, <1>7, <1>8 DEF LineRead

\* A line of the trace is read.
Parses == /\ P!Reading /\ P!This.kind = "trace" /\ ~stopped
          /\ report' = report \o P!Parsed(P!This)
          /\ time' = time + Len(P!OperationsOf(P!This))
          /\ i' = i + 1 /\ log' = log

LEMMA Parsing ==
    ASSUME PShape, PReport, Parses
    PROVE  /\ PReport' /\ report' \in Seq(P!Entry) /\ time' \in Nat
           /\ \A k \in DOMAIN report' : report'[k].event \in P!Operations
<1>. DEFINE q == P!OperationsOf(P!This)
            more == P!Parsed(P!This)
            R == Len(report)
<1>1. /\ report \in Seq(P!Entry) /\ time \in Nat /\ i \in DOMAIN log /\ i \in Nat
      /\ P!This = log[i] /\ R \in Nat /\ i' = i + 1 /\ log' = log /\ log[i].kind = "trace" /\ ~stopped
  BY DEF PShape, P!TypeOK, P!Reading, P!This, Parses
<1>2. q \in Seq(P!Operations) /\ Len(q) \in Nat
  BY <1>1, LineArgs, OperationsTyped DEF PShape
<1>3. more = [k \in 1 .. Len(q) |-> [event |-> q[k], time |-> time + k - 1, lines |-> <<i, i>>, no |-> -1]]
  BY DEF P!Parsed
<1>. HIDE DEF q, more
<1>4. more \in Seq(P!Entry) /\ Len(more) = Len(q)
  <2>1. \A k \in 1 .. Len(q) : more[k] \in P!Entry
    BY <1>1, <1>2, <1>3 DEF P!Entry
  <2>. QED BY <1>2, <1>3, <2>1
<1>5. report' = report \o more
  BY DEF more, Parses
<1>6. /\ report' \in Seq(P!Entry) /\ DOMAIN report = 1 .. R
      /\ Len(report') = R + Len(q) /\ DOMAIN report' = 1 .. R + Len(q)
      /\ \A k \in 1 .. R : report'[k] = report[k]
      /\ \A j \in 1 .. Len(q) : report'[R + j] = more[j]
  <2>1. more \in Seq(P!Entry) /\ report \in Seq(P!Entry)
    BY <1>1, <1>4
  <2>2. /\ report' \in Seq(P!Entry) /\ DOMAIN report = 1 .. Len(report)
        /\ Len(report') = Len(report) + Len(more) /\ DOMAIN report' = 1 .. Len(report) + Len(more)
        /\ \A k \in 1 .. Len(report) : report'[k] = report[k]
        /\ \A j \in 1 .. Len(more) : report'[Len(report) + j] = more[j]
    BY <1>5, <2>1, Glued
  <2>. QED BY <1>4, <2>2
<1>7. \A j \in 1 .. Len(q) : report'[R + j] = [event |-> q[j], time |-> time + j - 1, lines |-> <<i, i>>, no |-> -1]
  BY <1>3, <1>6
<1>8. \A k \in DOMAIN report' : k \in 1 .. R \/ \E j \in 1 .. Len(q) : k = R + j
  BY <1>1, <1>4, <1>5, Glued
<1>9. time' = time + Len(q) /\ time' \in Nat
  BY <1>1, <1>2 DEF q, Parses
<1>10. ASSUME NEW k \in DOMAIN report'
       PROVE  /\ report'[k].time < time' /\ report'[k].lines[1] < i' /\ report'[k].lines[1] \in DOMAIN log
              /\ log[report'[k].lines[1]].kind = "trace" /\ report'[k].event \in P!Operations
  <2>1. CASE k \in 1 .. R
    <3>1. report'[k] = report[k] /\ k \in DOMAIN report
      BY <1>1, <1>6, <2>1
    <3>2. report[k].time \in Nat /\ report[k].lines[1] \in Nat
      BY <1>1, <3>1, EntryTypes
    <3>4. /\ report[k].time < time /\ report[k].lines[1] < i /\ report[k].lines[1] \in DOMAIN log
          /\ report[k].event \in P!Operations => log[report[k].lines[1]].kind = "trace"
      BY <3>1 DEF PReport
    <3>3. report[k].event \in P!Operations
      BY <1>1, <3>1 DEF PShape
    <3>5. report[k].time < time' /\ report[k].lines[1] < i'
      BY <1>1, <1>2, <1>9, <3>2, <3>4
    <3>. QED BY <3>1, <3>3, <3>4, <3>5
  <2>2. CASE \E j \in 1 .. Len(q) : k = R + j
    <3>1. PICK j \in 1 .. Len(q) : k = R + j
      BY <2>2
    <3>2. report'[k] = [event |-> q[j], time |-> time + j - 1, lines |-> <<i, i>>, no |-> -1]
      BY <1>7, <3>1
    <3>3. q[j] \in P!Operations
      BY <1>2
    <3>. QED BY <1>1, <1>2, <1>9, <3>2, <3>3
  <2>. QED BY <1>8, <2>1, <2>2
<1>11. ASSUME NEW k \in 2 .. Len(report')
       PROVE  /\ report'[k - 1].time < report'[k].time
              /\ report'[k - 1].lines[1] <= report'[k].lines[1]
  <2>1. CASE k \in 1 .. R
    <3>1. report'[k] = report[k] /\ report'[k - 1] = report[k - 1] /\ k \in 2 .. Len(report)
      BY <1>1, <1>6, <2>1
    <3>2. report[k - 1].time < report[k].time /\ report[k - 1].lines[1] <= report[k].lines[1]
      BY <3>1 DEF PReport
    <3>. QED BY <3>1, <3>2
  <2>2. CASE k = R + 1
    <3>1. 1 \in 1 .. Len(q) /\ k = R + 1 /\ k - 1 = R /\ R \in DOMAIN report
      BY <1>1, <1>2, <1>6, <2>2
    <3>2. report'[k] = [event |-> q[1], time |-> time + 1 - 1, lines |-> <<i, i>>, no |-> -1]
      BY <1>7, <3>1
    <3>3. report'[k - 1] = report[R] /\ report[R].time < time /\ report[R].lines[1] < i
      <4>1. R \in 1 .. R
        BY <1>1, <3>1
      <4>. QED BY <1>6, <3>1, <4>1 DEF PReport
    <3>4. report[R].lines[1] \in Nat /\ report[R].time \in Nat
      BY <1>1, <3>1, EntryTypes
    <3>. QED BY <1>1, <3>2, <3>3, <3>4
  <2>3. CASE k > R + 1
    <3>. DEFINE j == k - R
    <3>1. j \in 1 .. Len(q) /\ j - 1 \in 1 .. Len(q) /\ k = R + j /\ k - 1 = R + (j - 1)
      BY <1>1, <1>2, <1>6, <2>3
    <3>. HIDE DEF j
    <3>2. /\ report'[k] = [event |-> q[j], time |-> time + j - 1, lines |-> <<i, i>>, no |-> -1]
          /\ report'[k - 1] = [event |-> q[j - 1], time |-> time + (j - 1) - 1, lines |-> <<i, i>>, no |-> -1]
      BY <1>7, <3>1
    <3>. QED BY <1>1, <3>1, <3>2
  <2>4. k \in 1 .. R \/ k = R + 1 \/ k > R + 1
    BY <1>1, <1>2, <1>6
  <2>. QED BY <2>1, <2>2, <2>3, <2>4
<1>12. ASSUME NEW n \in DOMAIN log, n < i', log[n].kind = "trace"
       PROVE  LineRead(n)'
  <2>1. CASE n < i
    <3>1. \A j \in DOMAIN more : more[j].lines[1] = i
      BY <1>2, <1>3
    <3>2. Adds(more)
      BY <1>1, <1>4, <1>5, <3>1 DEF Adds
    <3>. QED BY <2>1, <3>2, <1>12, StillRead
  <2>2. CASE n = i
    <3>1. P!OperationsOf(log[n]) = q /\ log' = log
      BY <1>1, <2>2 DEF q
    <3>2. ASSUME NEW k \in DOMAIN report'
          PROVE  report'[k].lines[1] = n <=> k \in (R + 1) .. (R + Len(q))
      <4>1. CASE k \in 1 .. R
        <5>1. k \in DOMAIN report /\ report'[k] = report[k]
          BY <1>1, <1>6, <4>1
        <5>2. report[k].lines[1] < i /\ report[k].lines[1] \in Nat
          BY <1>1, <5>1, EntryTypes DEF PReport
        <5>. QED BY <1>1, <1>2, <2>2, <4>1, <5>1, <5>2
      <4>2. CASE \E j \in 1 .. Len(q) : k = R + j
        <5>1. PICK j \in 1 .. Len(q) : k = R + j
          BY <4>2
        <5>2. report'[k] = [event |-> q[j], time |-> time + j - 1, lines |-> <<i, i>>, no |-> -1]
          BY <1>7, <5>1
        <5>. QED BY <1>1, <1>2, <2>2, <5>1, <5>2
      <4>. QED BY <1>8, <4>1, <4>2
    <3>3. P!MadeOf(n)' = (R + 1) .. (R + Len(q))
      <4>1. DOMAIN report' = 1 .. (R + Len(q))
        BY <1>6
      <4>2. (R + 1) .. (R + Len(q)) \subseteq DOMAIN report'
        BY <1>1, <1>2, <4>1
      <4>3. P!MadeOf(n)' = {k \in DOMAIN report' : report'[k].lines[1] = n}
        BY DEF P!MadeOf
      <4>. QED BY <3>2, <4>2, <4>3
    <3>4. ASSUME NEW j \in DOMAIN q
          PROVE  report'[R + j].event = q[j]
      <4>1. j \in 1 .. Len(q)
        BY <1>2
      <4>2. report'[R + j] = [event |-> q[j], time |-> time + j - 1, lines |-> <<i, i>>, no |-> -1]
        BY <1>7, <4>1
      <4>. QED BY <4>2
    <3>5. R \in 0 .. Len(report')
      BY <1>1, <1>2, <1>6
    <3>6. LineRead(n)' <=> \E m \in 0 .. Len(report') :
              /\ P!MadeOf(n)' = m + 1 .. m + Len(q)
              /\ \A j \in DOMAIN q : report'[m + j].event = q[j]
      BY <3>1 DEF LineRead
    <3>. QED BY <3>3, <3>4, <3>5, <3>6
  <2>3. n < i \/ n = i
    <3>1. n \in Nat
      BY <1>1 DEF PShape, P!TypeOK
    <3>. QED BY <1>1, <1>12, <3>1
  <2>. QED BY <2>1, <2>2, <2>3
<1>13. \A k \in 2 .. Len(report') : k - 1 \in DOMAIN report'
  BY <1>1, <1>2, <1>6
<1>14. PReport'
  <2>1. \A k \in DOMAIN report' :
          /\ report'[k].time < time' /\ report'[k].lines[1] < i' /\ report'[k].lines[1] \in DOMAIN log'
          /\ report'[k].event \in P!Operations => log'[report'[k].lines[1]].kind = "trace"
    BY <1>1, <1>10
  <2>2. \A k \in 2 .. Len(report') :
          /\ report'[k - 1].time < report'[k].time
          /\ report'[k].event \in P!Operations => report'[k - 1].event \in P!Operations
          /\ report'[k - 1].lines[1] <= report'[k].lines[1]
    BY <1>10, <1>11, <1>13
  <2>3. \A n \in DOMAIN log' : n < i' /\ log'[n].kind = "trace" => LineRead(n)'
    BY <1>1, <1>12
  <2>. QED BY <2>1, <2>2, <2>3 DEF PReport
<1>. QED BY <1>6, <1>9, <1>10, <1>14

\* A bug is read: its lines are not of the trace.
ReadsOne(e) == /\ P!Reading /\ e \in P!Entry /\ e.time = time /\ e.lines[1] = i /\ e.event \notin P!Operations
               /\ report' = Append(report, e) /\ time' = time + 1
               /\ i' \in Nat /\ i < i' /\ log' = log
               /\ \A n \in DOMAIN log : i <= n /\ n < i' => log[n].kind # "trace"

LEMMA OneMore ==
    ASSUME PShape, PReport, NEW e, ReadsOne(e)
    PROVE  PReport' /\ report' \in Seq(P!Entry)
<1>. DEFINE R == Len(report)
<1>1. /\ report \in Seq(P!Entry) /\ e \in P!Entry /\ report' = Append(report, e)
      /\ i \in Nat /\ i' \in Nat /\ i < i' /\ i \in DOMAIN log /\ log' = log /\ time \in Nat /\ time' = time + 1
  BY DEF PShape, P!TypeOK, P!Reading, ReadsOne
<1>2. e.time = time /\ e.lines[1] = i /\ e.event \notin P!Operations
  BY DEF ReadsOne
<1>3. \A n \in DOMAIN log : i <= n /\ n < i' => log[n].kind # "trace"
  BY DEF ReadsOne
<1>4. /\ report' \in Seq(P!Entry) /\ R \in Nat /\ Len(report') = R + 1
      /\ DOMAIN report' = 1 .. R + 1 /\ DOMAIN report = 1 .. R
      /\ \A k \in 1 .. R : report'[k] = report[k]
      /\ report'[R + 1] = e
  BY <1>1
<1>5. \A k \in DOMAIN report' : k \in 1 .. R \/ k = R + 1
  BY <1>4
<1>6. ASSUME NEW k \in DOMAIN report'
      PROVE  /\ report'[k].time < time' /\ report'[k].lines[1] < i' /\ report'[k].lines[1] \in DOMAIN log
             /\ report'[k].event \in P!Operations => log[report'[k].lines[1]].kind = "trace"
  <2>1. CASE k \in 1 .. R
    <3>1. k \in DOMAIN report /\ report'[k] = report[k]
      BY <1>4, <2>1
    <3>2. report[k].time \in Nat /\ report[k].lines[1] \in Nat
      BY <1>1, <3>1, EntryTypes
    <3>3. /\ report[k].time < time /\ report[k].lines[1] < i /\ report[k].lines[1] \in DOMAIN log
          /\ report[k].event \in P!Operations => log[report[k].lines[1]].kind = "trace"
      BY <3>1 DEF PReport
    <3>4. report[k].time < time' /\ report[k].lines[1] < i'
      BY <1>1, <3>2, <3>3
    <3>. QED BY <3>1, <3>3, <3>4
  <2>2. CASE k = R + 1
    BY <1>1, <1>2, <1>4, <2>2
  <2>. QED BY <1>5, <2>1, <2>2
<1>7. ASSUME NEW k \in 2 .. Len(report')
      PROVE  /\ report'[k - 1].time < report'[k].time
             /\ report'[k].event \in P!Operations => report'[k - 1].event \in P!Operations
             /\ report'[k - 1].lines[1] <= report'[k].lines[1]
  <2>1. CASE k \in 1 .. R
    <3>1. report'[k] = report[k] /\ report'[k - 1] = report[k - 1] /\ k \in 2 .. Len(report)
      BY <1>4, <2>1
    <3>2. /\ report[k - 1].time < report[k].time /\ report[k - 1].lines[1] <= report[k].lines[1]
          /\ report[k].event \in P!Operations => report[k - 1].event \in P!Operations
      BY <3>1 DEF PReport
    <3>. QED BY <3>1, <3>2
  <2>2. CASE k = R + 1
    <3>1. k - 1 = R /\ R \in DOMAIN report /\ R \in 1 .. R /\ report'[R] = report[R] /\ report'[k] = e
      BY <1>4, <2>2
    <3>2. report[R].time < time /\ report[R].lines[1] < i
      BY <3>1 DEF PReport
    <3>3. report[R].time \in Nat /\ report[R].lines[1] \in Nat
      BY <1>1, <3>1, EntryTypes
    <3>4. report[R].time < e.time /\ report[R].lines[1] <= e.lines[1]
      BY <1>1, <1>2, <3>2, <3>3
    <3>. QED BY <1>2, <3>1, <3>4
  <2>3. k \in 1 .. R \/ k = R + 1
    BY <1>4
  <2>. QED BY <2>1, <2>2, <2>3
<1>8. ASSUME NEW n \in DOMAIN log, n < i', log[n].kind = "trace"
      PROVE  LineRead(n)'
  <2>1. n < i
    <3>1. n \in Nat
      BY <1>1 DEF PShape, P!TypeOK
    <3>. QED BY <1>1, <1>3, <1>8, <3>1
  <2>2. Adds(<<e>>)
    <3>1. <<e>> \in Seq(P!Entry) /\ report' = report \o <<e>> /\ DOMAIN <<e>> = {1} /\ <<e>>[1] = e
      BY <1>1
    <3>. QED BY <1>1, <1>2, <3>1 DEF Adds
  <2>. QED BY <1>8, <2>1, <2>2, StillRead
<1>9. PReport'
  <2>1. \A k \in DOMAIN report' :
          /\ report'[k].time < time' /\ report'[k].lines[1] < i' /\ report'[k].lines[1] \in DOMAIN log'
          /\ report'[k].event \in P!Operations => log'[report'[k].lines[1]].kind = "trace"
    BY <1>1, <1>6
  <2>2. \A n \in DOMAIN log' : n < i' /\ log'[n].kind = "trace" => LineRead(n)'
    BY <1>1, <1>8
  <2>. QED BY <1>7, <2>1, <2>2 DEF PReport
<1>. QED BY <1>4, <1>9

\* After the end of the trace no line is of it.
LEMMA NoMoreTrace ==
    ASSUME PShape, stopped
    PROVE  \A n \in DOMAIN log : i <= n => log[n].kind # "trace"
<1>1. PICK m \in DOMAIN log : m < i /\ log[m].kind = "stop"
  BY DEF PShape
<1>2. i \in Nat /\ m \in Nat /\ \A n \in DOMAIN log : n \in Nat
  BY DEF PShape, P!TypeOK
<1>3. \A n \in DOMAIN log : log[n].kind = "trace" => n < m
  BY <1>1 DEF PShape
<1>. QED BY <1>1, <1>2, <1>3

PInv == PShape /\ PReport

LEMMA StartP ==
    ASSUME PInv, P!Start
    PROVE  PInv'
<1>1. /\ PShape /\ PReport /\ P!Reading /\ ~started /\ ~stopped /\ i' = i + 1
      /\ UNCHANGED <<log, stopped, total, remaining, last, isPerf, pc>>
  BY DEF PInv, P!Start, PShape, P!section
<1>2. i \in DOMAIN log /\ i \in Nat /\ Len(log) \in Nat /\ pc = "read" /\ DOMAIN log = 1 .. Len(log)
  BY <1>1 DEF PShape, P!TypeOK, P!Reading
<1>3. CASE P!This.kind = "trace"
  <2>1. Parses /\ started' = TRUE
    BY <1>1, <1>3 DEF P!Start, Parses
  <2>2. PReport' /\ report' \in Seq(P!Entry) /\ time' \in Nat /\ \A k \in DOMAIN report' : report'[k].event \in P!Operations
    BY <1>1, <2>1, Parsing
  <2>3. PShape'
    BY <1>1, <1>2, <2>1, <2>2 DEF PShape, P!TypeOK
  <2>. QED BY <2>2, <2>3 DEF PInv
<1>4. CASE P!This.kind # "trace"
  <2>1. UNCHANGED <<started, report, time>>
    BY <1>1, <1>4 DEF P!Start
  <2>2. \A n \in DOMAIN log : i <= n /\ n < i' => log[n].kind # "trace"
    BY <1>1, <1>2, <1>4 DEF P!This
  <2>3. PReport'
    BY <1>1, <1>2, <2>1, <2>2, Passing
  <2>4. PShape'
    BY <1>1, <1>2, <2>1 DEF PShape, P!TypeOK
  <2>. QED BY <2>3, <2>4 DEF PInv
<1>. QED BY <1>3, <1>4

LEMMA ReadEventsP ==
    ASSUME PInv, P!ReadEvents
    PROVE  PInv'
<1>1. /\ PShape /\ PReport /\ P!Reading /\ started /\ ~stopped /\ i' = i + 1
      /\ UNCHANGED <<log, started, stopped, total, remaining, last, isPerf, pc>>
  BY DEF PInv, P!ReadEvents, P!section
<1>2. i \in DOMAIN log /\ i \in Nat /\ Len(log) \in Nat /\ pc = "read" /\ DOMAIN log = 1 .. Len(log)
  BY <1>1 DEF PShape, P!TypeOK, P!Reading
<1>3. Parses
  BY <1>1 DEF P!ReadEvents, Parses
<1>4. PReport' /\ report' \in Seq(P!Entry) /\ time' \in Nat /\ \A k \in DOMAIN report' : report'[k].event \in P!Operations
  BY <1>1, <1>3, Parsing
<1>5. PShape'
  BY <1>1, <1>2, <1>4 DEF PShape, P!TypeOK
<1>. QED BY <1>4, <1>5 DEF PInv

LEMMA SkipOrStopP ==
    ASSUME PInv, P!SkipOrStop
    PROVE  PInv'
<1>1. /\ PShape /\ PReport /\ P!Reading /\ started /\ ~stopped /\ i' = i + 1 /\ stopped' = (P!This.kind = "stop")
      /\ P!This.kind # "trace"
      /\ UNCHANGED <<log, started, total, remaining, last, isPerf, pc, report, time>>
  BY DEF PInv, P!SkipOrStop, P!section
<1>2. i \in DOMAIN log /\ i \in Nat /\ Len(log) \in Nat /\ pc = "read" /\ DOMAIN log = 1 .. Len(log) /\ P!This = log[i]
  BY <1>1 DEF PShape, P!TypeOK, P!Reading, P!This
<1>3. \A n \in DOMAIN log : i <= n /\ n < i' => log[n].kind # "trace"
  BY <1>1, <1>2
<1>4. PReport'
  BY <1>1, <1>2, <1>3, Passing
<1>5. P!TypeOK'
  BY <1>1, <1>2 DEF PShape, P!TypeOK
<1>6. stopped' => \E m \in DOMAIN log' : m < i' /\ log'[m].kind = "stop"
  <2>1. stopped' => log[i].kind = "stop"
    BY <1>1, <1>2, Zenon
  <2>2. i < i' /\ i \in DOMAIN log'
    BY <1>1, <1>2
  <2>. QED BY <1>1, <2>1, <2>2
<1>7. PShape'
  BY <1>1, <1>2, <1>5, <1>6 DEF PShape
<1>. QED BY <1>4, <1>7 DEF PInv

\* The steps after the trace that make no event.
LEMMA AfterP ==
    ASSUME PInv, stopped, UNCHANGED <<log, started, stopped, report, time>>, P!TypeOK', i <= i'
    PROVE  PInv'
<1>1. i' \in Nat /\ PShape /\ PReport /\ i \in Nat /\ DOMAIN log = 1 .. Len(log) /\ Len(log) \in Nat
  BY DEF PInv, PShape, P!TypeOK
<1>2. PReport'
  BY <1>1, NoMoreTrace, Passing
<1>3. PShape'
  <2>1. PICK m \in DOMAIN log : m < i /\ log[m].kind = "stop"
    BY <1>1 DEF PShape
  <2>2. m < i' /\ m \in DOMAIN log' /\ log'[m].kind = "stop"
    BY <1>1, <2>1
  <2>. QED BY <1>1, <2>2 DEF PShape
<1>. QED BY <1>2, <1>3 DEF PInv

LEMMA SeekP ==
    ASSUME PInv, P!CountStores \/ P!CountFlushes \/ P!SkipLine
    PROVE  PInv'
<1>1. P!TypeOK /\ P!Seeking /\ UNCHANGED <<log, started, stopped, last, report, time, pc>> /\ i' \in {i + 1, i + 2}
  BY DEF PInv, PShape, P!CountStores, P!CountFlushes, P!SkipLine, P!section
<1>2. stopped /\ i \in DOMAIN log /\ i \in Nat /\ Len(log) \in Nat /\ P!This = log[i] /\ i <= Len(log)
  BY <1>1 DEF P!TypeOK, P!Seeking, P!Reading, P!This
<1>3. P!This.kind \in {"stores", "flushes"} => P!This.arg \in Nat
  BY <1>1, <1>2, LineArgs
<1>4. /\ total' \in Nat \cup {NoCount} /\ remaining' \in Nat \cup {NoCount} /\ isPerf' \in BOOLEAN
      /\ (total' = NoCount <=> remaining' = NoCount)
  <2>1. CASE P!CountStores
    BY <1>1, <1>3, <2>1 DEF P!CountStores, P!TypeOK
  <2>2. CASE P!CountFlushes
    BY <1>1, <1>3, <2>2 DEF P!CountFlushes, P!TypeOK
  <2>3. CASE P!SkipLine
    BY <1>1, <2>3 DEF P!SkipLine, P!section, P!TypeOK
  <2>. QED BY <2>1, <2>2, <2>3
<1>5. i' \in 1 .. Len(log) + 2 /\ i <= i'
  BY <1>1, <1>2
<1>6. P!TypeOK'
  BY <1>1, <1>4, <1>5 DEF P!TypeOK
<1>. QED BY <1>1, <1>2, <1>5, <1>6, AfterP

LEMMA ReadBugP ==
    ASSUME PInv, P!ReadBug
    PROVE  PInv'
<1>1. /\ PShape /\ PReport /\ P!TypeOK /\ P!InSection /\ UNCHANGED <<log, started, stopped, isPerf, pc>> /\ time' = time + 1
      /\ total' = P!NextTotal /\ remaining' = P!NextRemaining /\ last' = P!NextLast
  BY DEF PInv, PShape, P!ReadBug
<1>2. PICK n \in i .. Len(log) :
          /\ P!IsBug(n)
          /\ report' = Append(report, [event |-> IF isPerf THEN "REQUIRED_FLUSH" ELSE "ASSERT_PERSISTED",
                                       time |-> time, lines |-> <<i, n>>, no |-> P!This.arg])
          /\ i' = n + 2
  BY DEF P!ReadBug
<1>3. /\ P!Reading /\ stopped /\ i \in DOMAIN log /\ i \in Nat /\ Len(log) \in Nat /\ P!This = log[i] /\ i <= Len(log)
      /\ n \in Nat /\ time \in Nat /\ pc = "read" /\ total # NoCount /\ P!HasMore
  BY <1>1, <1>2 DEF P!TypeOK, P!InSection, P!Reading, P!This
<1>4. P!This.kind = "at" /\ P!This.arg \in Nat
  BY <1>1, <1>2, <1>3, LineArgs DEF P!IsBug
<1>. DEFINE e == [event |-> IF isPerf THEN "REQUIRED_FLUSH" ELSE "ASSERT_PERSISTED",
                  time |-> time, lines |-> <<i, n>>, no |-> P!This.arg]
<1>5. e \in P!Entry /\ e.time = time /\ e.lines[1] = i /\ e.event \notin P!Operations
  BY <1>3, <1>4 DEF P!Entry, P!Operations
<1>6. ReadsOne(e)
  <2>1. \A x \in DOMAIN log : i <= x => log[x].kind # "trace"
    BY <1>1, <1>3, NoMoreTrace
  <2>2. report' = Append(report, e) /\ i' \in Nat /\ i < i' /\ log' = log
    BY <1>1, <1>2, <1>3
  <2>. HIDE DEF e
  <2>. QED BY <1>1, <1>3, <1>5, <2>1, <2>2 DEF ReadsOne
<1>7. PReport' /\ report' \in Seq(P!Entry)
  <2>. HIDE DEF e
  <2>. QED BY <1>1, <1>6, OneMore
<1>8. /\ total' \in Nat \cup {NoCount} /\ remaining' \in Nat \cup {NoCount} /\ last' \in Nat \cup {-1}
      /\ (total' = NoCount <=> remaining' = NoCount)
  <2>1. remaining \in Nat /\ remaining > 0 /\ NoCount \notin Int /\ total \in Nat
    BY <1>1, <1>3, LogAssumption DEF P!TypeOK, P!HasMore, P!LogsTyped
  <2>. QED BY <1>1, <1>4, <2>1 DEF P!NextTotal, P!NextRemaining, P!NextLast, P!EndsSection
<1>9. i' \in 1 .. Len(log) + 2 /\ i <= i' /\ time' \in Nat
  BY <1>1, <1>2, <1>3
<1>10. P!TypeOK'
  BY <1>1, <1>7, <1>8, <1>9 DEF P!TypeOK
<1>11. PShape'
  <2>1. PICK m \in DOMAIN log : m < i /\ log[m].kind = "stop"
    BY <1>1, <1>3 DEF PShape
  <2>2. m < i' /\ m \in DOMAIN log' /\ log'[m].kind = "stop"
    BY <1>1, <1>3, <1>9, <2>1
  <2>. QED BY <1>1, <1>3, <1>10, <2>2 DEF PShape
<1>. QED BY <1>7, <1>11 DEF PInv

LEMMA StopP ==
    ASSUME PInv, P!Fail \/ P!Finish
    PROVE  PInv'
<1>1. /\ PShape /\ PReport /\ P!TypeOK /\ pc' \in {"done", "abort"}
      /\ UNCHANGED <<log, i, started, stopped, total, remaining, last, isPerf, report, time>>
  BY DEF PInv, PShape, P!Fail, P!Finish, P!section
<1>2. PReport'
  <2>1. i \in Nat /\ i' = i /\ \A n \in DOMAIN log : n \in Nat
    BY <1>1 DEF P!TypeOK
  <2>2. \A n \in DOMAIN log : ~(i <= n /\ n < i')
    BY <2>1
  <2>3. i' \in Nat /\ i <= i'
    BY <2>1
  <2>. QED BY <1>1, <2>2, <2>3, Passing
<1>3. P!TypeOK'
  BY <1>1 DEF P!TypeOK
<1>4. pc' = "done" /\ ~stopped' => i' > Len(log')
  BY <1>1 DEF P!Fail, P!Finish
<1>. QED BY <1>1, <1>2, <1>3, <1>4 DEF PInv, PShape

LEMMA StutterP ==
    ASSUME PInv, UNCHANGED <<log, i, started, stopped, total, remaining, last, isPerf, report, time, pc>>
    PROVE  PInv'
<1>1. PShape /\ PReport /\ P!TypeOK /\ i \in Nat /\ \A n \in DOMAIN log : n \in Nat
  BY DEF PInv, PShape, P!TypeOK
<1>2. \A n \in DOMAIN log : ~(i <= n /\ n < i')
  BY <1>1
<1>3. i' \in Nat /\ i <= i'
  BY <1>1
<1>4. PReport'
  BY <1>1, <1>2, <1>3, Passing
<1>5. P!TypeOK'
  BY <1>1 DEF P!TypeOK
<1>. QED BY <1>1, <1>4, <1>5 DEF PInv, PShape

LEMMA StepP ==
    ASSUME PInv, P!Next
    PROVE  PInv'
BY StartP, ReadEventsP, SkipOrStopP, SeekP, ReadBugP, StopP DEF P!Next

LEMMA InitP ==
    ASSUME P!Init
    PROVE  PInv
<1>1. PICK whole \in Logs : \E n \in 0 .. Len(whole) : log = SubSeq(whole, 1, n)
  BY DEF P!Init
<1>2. PICK n \in 0 .. Len(whole) : log = SubSeq(whole, 1, n)
  BY <1>1
<1>3. /\ whole \in Seq(P!Line) /\ NoCount \notin Int
      /\ \A a, b \in DOMAIN whole : whole[a].kind = "stop" /\ whole[b].kind = "trace" => b < a
  BY <1>1, LogAssumption DEF P!LogsTyped
<1>4. /\ log \in Seq(P!Line) /\ Len(log) \in Nat
      /\ \A k \in DOMAIN log : k \in DOMAIN whole /\ log[k] = whole[k]
  BY <1>2, <1>3
<1>5. \A a, b \in DOMAIN log : log[a].kind = "stop" /\ log[b].kind = "trace" => b < a
  BY <1>3, <1>4
<1>6. /\ i = 1 /\ started = FALSE /\ stopped = FALSE /\ total = NoCount /\ remaining = NoCount /\ last = -1
      /\ isPerf = FALSE /\ report = <<>> /\ time = 0 /\ pc = "read"
  BY DEF P!Init
<1>7. PShape
  <2>1. /\ i \in 1 .. Len(log) + 2
        /\ {started, stopped, isPerf} \subseteq BOOLEAN
    <3>1. i \in 1 .. Len(log) + 2
      BY <1>4, <1>6
    <3>2. {started, stopped, isPerf} \subseteq BOOLEAN
      BY <1>6
    <3>. QED BY <3>1, <3>2
  <2>2. report \in Seq(P!Entry)
    BY <1>6
  <2>3. P!TypeOK
    BY <1>4, <1>6, <2>1, <2>2 DEF P!TypeOK
  <2>4. i <= Len(log) + 1 /\ DOMAIN report = {}
    BY <1>4, <1>6
  <2>. QED BY <1>5, <1>6, <2>3, <2>4 DEF PShape
<1>8. PReport
  BY <1>4, <1>6 DEF PReport
<1>. QED BY <1>7, <1>8 DEF PInv

\* The trace is behind a reader that is through.
LEMMA TraceRead ==
    ASSUME PShape, pc = "done", NEW n \in DOMAIN log, log[n].kind = "trace"
    PROVE  n < i
<1>1. n \in Nat /\ n <= Len(log) /\ i \in Nat /\ Len(log) \in Nat
  BY DEF PShape, P!TypeOK
<1>2. CASE stopped
  BY <1>1, <1>2, NoMoreTrace
<1>3. CASE ~stopped
  BY <1>1, <1>3 DEF PShape
<1>. QED BY <1>2, <1>3

\* What is wanted of the report.
LEMMA ReportP ==
    ASSUME PInv
    PROVE  P!TypeOK /\ P!TimesIncrease /\ P!OperationsRead
<1>1. P!TypeOK /\ PShape /\ PReport
  BY DEF PInv, PShape
<1>2. P!TimesIncrease
  BY <1>1 DEF PReport, P!TimesIncrease
<1>3. ASSUME pc = "done", NEW n \in DOMAIN log, log[n].kind = "trace"
      PROVE  LineRead(n)
  <2>1. n < i
    BY <1>1, <1>3, TraceRead
  <2>. QED BY <1>1, <1>3, <2>1 DEF PReport
<1>4. \A k \in DOMAIN report :
          /\ report[k].event \in P!Operations => log[report[k].lines[1]].kind = "trace"
          /\ k > 1 => report[k - 1].lines[1] <= report[k].lines[1]
  <2>1. \A k \in DOMAIN report : k > 1 => k \in 2 .. Len(report)
    BY <1>1 DEF P!TypeOK
  <2>. QED BY <1>1, <2>1 DEF PReport
<1>5. P!OperationsRead
  BY <1>3, <1>4 DEF P!OperationsRead, LineRead
<1>. QED BY <1>1, <1>2, <1>5

-----------------------------------------------------------------------------
(* pmemcheck: the bugs of a log.                                           *)

\* The log is the beginning of w.
PrefixOf(w) == /\ Len(log) <= Len(w)
               /\ \A k \in DOMAIN log : log[k] = w[k]

\* From line p on, a bug is below a count that is still to come.
Between(w, p) ==
    \A a \in DOMAIN w : w[a].kind = "at" /\ p <= a => \E m \in P!Counts(w) : p <= m /\ m < a

\* Line p is where bug l + 1 of the section of line m starts, of t bugs of which
\* r are to come; if there are none it is past the bugs of the flushes.
Within(w, m, p, t, r, l, perf) ==
    /\ m < p /\ w[m].arg = t /\ (perf <=> w[m].kind = "flushes")
    /\ \A k \in P!Counts(w) : ~(m < k /\ k < p)
    /\ r \in 0 .. t /\ l = t - r - 1
    /\ r > 0 => p \in P!BugsOf(w, m) /\ w[p].arg = l + 1
    /\ r = 0 => perf
    /\ \A j \in 0 .. l : \E a \in P!BugsOf(w, m) : a < p /\ w[a].arg = j

Placed(w) ==
    IF total = NoCount THEN last = -1 /\ (stopped => Between(w, i))
    ELSE stopped /\ \E m \in P!Counts(w) : Within(w, m, i, total, remaining, last, isPerf)

LEMMA CountsAre ==
    ASSUME NEW w, NEW m
    PROVE  /\ m \in P!Counts(w) <=> m \in DOMAIN w /\ w[m].kind \in {"stores", "flushes"}
           /\ P!Sections["stores"] = "ASSERT_PERSISTED" /\ P!Sections["flushes"] = "REQUIRED_FLUSH"
BY DEF P!Counts, P!Sections

\* What is known of a log that pmemcheck has written.
LEMMA Written ==
    ASSUME NEW w \in Logs
    PROVE  /\ w \in Seq(P!Line) /\ Len(w) \in Nat /\ DOMAIN w = 1 .. Len(w) /\ P!IsWritten(w)
           /\ \A n \in DOMAIN w : w[n].kind \in {"stores", "flushes", "at"} => w[n].arg \in Nat
<1>1. w \in Seq(P!Line) /\ P!IsWritten(w)
  BY LogAssumption, FormAssumption DEF P!LogsTyped
<1>2. ASSUME NEW n \in DOMAIN w, w[n].kind \in {"stores", "flushes", "at"}
      PROVE  w[n].arg \in Nat
  <2>1. w[n] \in P!Line
    BY <1>1
  <2>. QED BY <1>2, <2>1 DEF P!Line
<1>. QED BY <1>1, <1>2

\* The frames of a bug are those up to the range.
LEMMA OneTrace ==
    ASSUME NEW w, NEW a \in Nat, NEW e \in Nat, NEW f \in Nat, P!IsTrace(w, a, e), P!IsTrace(w, a, f)
    PROVE  e = f
<1>1. ASSUME NEW x \in Nat, NEW y \in Nat, P!IsTrace(w, a, x), P!IsTrace(w, a, y), x < y
      PROVE  FALSE
  <2>1. x + 1 \in a + 1 .. y
    BY <1>1 DEF P!IsTrace
  <2>. QED BY <1>1, <2>1 DEF P!IsTrace
<1>2. e < f \/ f < e \/ e = f
  OBVIOUS
<1>. QED BY <1>1, <1>2

\* Below a count: its bugs, unless it says that it has none.
LEMMA BelowCount ==
    ASSUME NEW w \in Logs, NEW m \in P!Counts(w), NEW a \in DOMAIN w, w[a].kind = "at", m < a
    PROVE  \/ a \in P!BugsOf(w, m) /\ w[m].arg > 0
           \/ \E k \in P!Counts(w) : m < k /\ k < a
<1>1. /\ DOMAIN w = 1 .. Len(w) /\ Len(w) \in Nat /\ m \in DOMAIN w /\ w[m].kind \in {"stores", "flushes"}
      /\ w[m].arg \in Nat /\ w[a].arg \in Nat /\ P!SectionWritten(w, m)
  BY Written, CountsAre DEF P!IsWritten
<1>2. CASE a \in P!BugsOf(w, m)
  <2>1. w[a].arg < w[m].arg
    BY <1>1, <1>2 DEF P!SectionWritten
  <2>. QED BY <1>1, <1>2, <2>1
<1>3. CASE a \notin P!BugsOf(w, m)
  <2>1. PICK k \in m + 1 .. a : k \in P!Counts(w)
    BY <1>3 DEF P!BugsOf
  <2>2. k # a
    BY <2>1, CountsAre
  <2>3. m < k /\ k < a
    BY <1>1, <2>1, <2>2
  <2>. QED BY <2>1, <2>3
<1>. QED BY <1>2, <1>3

\* The steps of the reader's place, over one log.
LEMMA PlaceSkip ==
    ASSUME NEW w \in Logs, NEW p \in DOMAIN w, Between(w, p), p \notin P!Counts(w)
    PROVE  w[p].kind # "at" /\ Between(w, p + 1)
<1>1. DOMAIN w = 1 .. Len(w) /\ Len(w) \in Nat /\ \A m \in P!Counts(w) : m \in DOMAIN w
  BY Written, CountsAre
<1>2. w[p].kind # "at"
  <2>1. ASSUME w[p].kind = "at"
        PROVE  FALSE
    <3>1. PICK m \in P!Counts(w) : p <= m /\ m < p
      BY <1>1, <2>1 DEF Between
    <3>. QED BY <1>1, <3>1
  <2>. QED BY <2>1
<1>3. ASSUME NEW a \in DOMAIN w, w[a].kind = "at", p + 1 <= a
      PROVE  \E m \in P!Counts(w) : p + 1 <= m /\ m < a
  <2>1. PICK m \in P!Counts(w) : p <= m /\ m < a
    <3>1. p <= a
      BY <1>1, <1>3
    <3>. QED BY <1>3, <3>1 DEF Between
  <2>2. p + 1 <= m
    BY <1>1, <2>1
  <2>. QED BY <2>1, <2>2
<1>. QED BY <1>2, <1>3 DEF Between

\* A section without stores: the line below it is skipped too.
LEMMA PlaceEmpty ==
    ASSUME NEW w \in Logs, NEW p \in P!Counts(w), w[p].arg = 0, w[p].kind = "stores"
    PROVE  /\ p + 1 \in DOMAIN w => w[p + 1].kind # "at"
           /\ Between(w, p + 2)
<1>1. DOMAIN w = 1 .. Len(w) /\ Len(w) \in Nat /\ p \in DOMAIN w /\ \A m \in P!Counts(w) : m \in DOMAIN w
  BY Written, CountsAre
<1>2. ASSUME NEW a \in DOMAIN w, w[a].kind = "at", p < a
      PROVE  \E k \in P!Counts(w) : p + 2 <= k /\ k < a
  <2>1. PICK k \in P!Counts(w) : p < k /\ k < a
    BY <1>1, <1>2, BelowCount
  <2>2. k # p + 1
    BY <2>1, Written DEF P!IsWritten
  <2>3. p + 2 <= k
    BY <1>1, <2>1, <2>2
  <2>. QED BY <2>1, <2>3
<1>3. ASSUME p + 1 \in DOMAIN w, w[p + 1].kind = "at"
      PROVE  FALSE
  <2>1. PICK k \in P!Counts(w) : p + 2 <= k /\ k < p + 1
    BY <1>1, <1>2, <1>3
  <2>. QED BY <1>1, <2>1
<1>4. \A a \in DOMAIN w : p + 2 <= a => p < a
  BY <1>1
<1>. QED BY <1>2, <1>3, <1>4 DEF Between

\* A section that has bugs, or the last one.
LEMMA PlaceCount ==
    ASSUME NEW w \in Logs, NEW p \in P!Counts(w), w[p].arg > 0 \/ w[p].kind = "flushes"
    PROVE  /\ Within(w, p, P!FirstBug(w, p), w[p].arg, w[p].arg, -1, w[p].kind = "flushes")
           /\ w[p].kind = "stores" => p + 1 \in DOMAIN w /\ w[p + 1].kind = "header"
<1>1. /\ DOMAIN w = 1 .. Len(w) /\ Len(w) \in Nat /\ p \in DOMAIN w /\ w[p].kind \in {"stores", "flushes"}
      /\ w[p].arg \in Nat /\ P!SectionWritten(w, p) /\ \A m \in P!Counts(w) : m \in DOMAIN w
  BY Written, CountsAre DEF P!IsWritten
<1>2. P!FirstBug(w, p) = IF w[p].kind = "stores" THEN p + 2 ELSE p + 1
  BY DEF P!FirstBug
<1>3. w[p].arg > 0 => /\ w[p].kind = "stores" => w[p + 1].kind = "header"
                      /\ P!FirstBug(w, p) \in P!BugsOf(w, p) /\ w[P!FirstBug(w, p)].arg = 0
  BY <1>1 DEF P!SectionWritten
<1>4. ASSUME w[p].kind = "stores"
      PROVE  p + 1 \in DOMAIN w /\ w[p + 1].kind = "header"
  <2>1. w[p].arg > 0 /\ p + 2 \in DOMAIN w
    BY <1>2, <1>3, <1>4 DEF P!BugsOf
  <2>. QED BY <1>1, <1>3, <1>4, <2>1
<1>5. ASSUME NEW k \in P!Counts(w), p < k, k < P!FirstBug(w, p)
      PROVE  FALSE
  <2>1. k = p + 1 /\ w[p].kind = "stores"
    BY <1>1, <1>2, <1>5
  <2>. QED BY <1>4, <2>1, CountsAre
<1>6. p < P!FirstBug(w, p)
  BY <1>1, <1>2
<1>7. \A j \in 0 .. -1 : FALSE
  OBVIOUS
<1>8. -1 = w[p].arg - w[p].arg - 1 /\ w[p].arg \in 0 .. w[p].arg /\ (-1) + 1 = 0
  BY <1>1
<1>9. w[p].arg = 0 => w[p].kind = "flushes"
  BY <1>1
<1>. QED BY <1>3, <1>4, <1>5, <1>6, <1>7, <1>8, <1>9 DEF Within

\* When all bugs of a section are read there are no more of it below.
LEMMA NoneLeft ==
    ASSUME NEW w \in Logs, NEW m \in P!Counts(w), NEW p \in Nat, NEW t \in Nat,
           NEW a \in P!BugsOf(w, m), p <= a, w[m].arg = t,
           \A j \in 0 .. t - 1 : \E b \in P!BugsOf(w, m) : b < p /\ w[b].arg = j
    PROVE  FALSE
<1>1. /\ DOMAIN w = 1 .. Len(w) /\ Len(w) \in Nat /\ P!SectionWritten(w, m) /\ a \in DOMAIN w /\ w[a].kind = "at"
      /\ P!BugsOf(w, m) \subseteq DOMAIN w
  BY Written DEF P!IsWritten, P!BugsOf
<1>2. w[a].arg \in Nat
  BY <1>1, Written
<1>3. w[a].arg < t
  BY <1>1 DEF P!SectionWritten
<1>4. w[a].arg \in 0 .. t - 1
  BY <1>2, <1>3
<1>5. PICK b \in P!BugsOf(w, m) : b < p /\ w[b].arg = w[a].arg
  BY <1>4
<1>6. b = a
  BY <1>1, <1>5 DEF P!SectionWritten
<1>. QED BY <1>1, <1>5, <1>6

LEMMA PlaceEnd ==
    ASSUME NEW w \in Logs, NEW m \in P!Counts(w), NEW p \in Nat, NEW t \in Nat, NEW l, NEW perf,
           Within(w, m, p, t, 0, l, perf), NEW a \in DOMAIN w, p <= a
    PROVE  w[a].kind # "at"
<1>1. SUFFICES ASSUME w[a].kind = "at" PROVE FALSE
  OBVIOUS
<1>2. /\ DOMAIN w = 1 .. Len(w) /\ Len(w) \in Nat /\ m \in DOMAIN w /\ \A k \in P!Counts(w) : k \in DOMAIN w
  BY Written, CountsAre
<1>3. m < p /\ w[m].arg = t /\ w[m].kind = "flushes" /\ l = t - 1
      /\ \A j \in 0 .. l : \E b \in P!BugsOf(w, m) : b < p /\ w[b].arg = j
  BY DEF Within
<1>4. ~\E k \in P!Counts(w) : m < k /\ k < a
  BY <1>3, Written DEF P!IsWritten
<1>5. m < a
  BY <1>2, <1>3
<1>6. a \in P!BugsOf(w, m)
  BY <1>1, <1>4, <1>5, BelowCount
<1>. QED BY <1>3, <1>6, NoneLeft

\* A bug is read, of frames p to n.
LEMMA PlaceBug ==
    ASSUME NEW w \in Logs, NEW m \in P!Counts(w), NEW p \in Nat, NEW t \in Nat, NEW r \in Nat, NEW l, NEW perf \in BOOLEAN,
           Within(w, m, p, t, r, l, perf), r > 0, NEW n \in Nat, p <= n, P!IsTrace(w, p, n)
    PROVE  /\ r > 1 \/ perf => Within(w, m, n + 2, t, r - 1, l + 1, perf)
           /\ r = 1 /\ ~perf => Between(w, n + 2)
<1>1. /\ DOMAIN w = 1 .. Len(w) /\ Len(w) \in Nat /\ m \in DOMAIN w /\ \A k \in P!Counts(w) : k \in DOMAIN w
      /\ P!SectionWritten(w, m)
  BY Written, CountsAre DEF P!IsWritten
<1>2. /\ m < p /\ w[m].arg = t /\ (perf <=> w[m].kind = "flushes")
      /\ \A k \in P!Counts(w) : ~(m < k /\ k < p)
      /\ r \in 0 .. t /\ l = t - r - 1 /\ p \in P!BugsOf(w, m) /\ w[p].arg = l + 1
      /\ \A j \in 0 .. l : \E a \in P!BugsOf(w, m) : a < p /\ w[a].arg = j
  BY DEF Within
<1>3. ASSUME NEW k \in P!Counts(w), m < k, k < n + 2
      PROVE  FALSE
  <2>1. w[k].kind \in {"stores", "flushes"} /\ k \in Nat /\ p <= k
    BY <1>1, <1>2, <1>3, CountsAre
  <2>2. k = p \/ k \in p + 1 .. n \/ k = n + 1
    BY <1>3, <2>1
  <2>3. w[k].kind \in {"at", "by", "address"}
    BY <2>2 DEF P!IsTrace
  <2>. QED BY <2>1, <2>3
<1>4. l + 1 \in Nat /\ l + 1 = t - r /\ p < n + 2 /\ l \in Int /\ l + 1 = t - (r - 1) - 1 /\ r - 1 \in 0 .. t /\ m < n + 2
  BY <1>1, <1>2
<1>5. ASSUME NEW j \in 0 .. l + 1
      PROVE  \E a \in P!BugsOf(w, m) : a < n + 2 /\ w[a].arg = j
  <2>1. CASE j \in 0 .. l
    <3>1. PICK a \in P!BugsOf(w, m) : a < p /\ w[a].arg = j
      BY <1>2, <2>1
    <3>2. a \in Nat
      BY <1>1 DEF P!BugsOf
    <3>. QED BY <1>4, <3>1, <3>2
  <2>2. CASE j = l + 1
    BY <1>2, <1>4, <2>2
  <2>. QED BY <1>4, <2>1, <2>2
<1>6. ASSUME r > 1
      PROVE  n + 2 \in P!BugsOf(w, m) /\ w[n + 2].arg = (l + 1) + 1
  <2>1. w[p].arg + 1 < w[m].arg
    BY <1>2, <1>4, <1>6
  <2>2. PICK e \in p .. Len(w) :
            /\ P!IsTrace(w, p, e)
            /\ w[p].arg + 1 < w[m].arg => e + 2 \in P!BugsOf(w, m) /\ w[e + 2].arg = w[p].arg + 1
    BY <1>1, <1>2 DEF P!SectionWritten
  <2>3. e = n
    BY <2>2, OneTrace
  <2>. QED BY <1>2, <2>1, <2>2, <2>3
<1>7. ASSUME r > 1 \/ perf
      PROVE  Within(w, m, n + 2, t, r - 1, l + 1, perf)
  <2>1. r - 1 > 0 => n + 2 \in P!BugsOf(w, m) /\ w[n + 2].arg = (l + 1) + 1
    BY <1>6
  <2>2. r - 1 = 0 => perf
    BY <1>7
  <2>. QED BY <1>2, <1>3, <1>4, <1>5, <2>1, <2>2 DEF Within
<1>8. ASSUME r = 1, NEW a \in DOMAIN w, w[a].kind = "at", n + 2 <= a
      PROVE  \E k \in P!Counts(w) : n + 2 <= k /\ k < a
  <2>1. m < a
    BY <1>1, <1>4, <1>8
  <2>2. a \notin P!BugsOf(w, m)
    <3>1. l + 1 = t - 1
      BY <1>4, <1>8
    <3>2. PICK q : q = n + 2
      OBVIOUS
    <3>3. \A j \in 0 .. t - 1 : \E b \in P!BugsOf(w, m) : b < q /\ w[b].arg = j
      BY <1>5, <3>1, <3>2
    <3>4. q \in Nat /\ q <= a /\ w[m].arg = t
      BY <1>2, <1>8, <3>2
    <3>. QED BY <3>3, <3>4, NoneLeft
  <2>3. PICK k \in P!Counts(w) : m < k /\ k < a
    BY <1>8, <2>1, <2>2, BelowCount
  <2>4. n + 2 <= k
    BY <1>1, <1>3, <2>3
  <2>. QED BY <2>3, <2>4
<1>9. r = 1 => Between(w, n + 2)
  BY <1>8 DEF Between
<1>. QED BY <1>7, <1>9

-----------------------------------------------------------------------------
(* pmemcheck: the bugs that are read.                                      *)

\* The reader has not missed the start or the end of the trace, nor a frame.
Traced == \A n \in DOMAIN log : n < i =>
    /\ log[n].kind = "trace" => started /\ log[n].located
    /\ log[n].kind = "stop" => stopped

\* Event k is the bug of frames s.
IsRead(s, k) == /\ report[k].event \notin P!Operations /\ report[k].lines = s
                /\ report[k].event = P!SectionOf(s[1]) /\ report[k].no = log[s[1]].arg
                /\ \A n \in s[1] .. s[2] : log[n].located

\* The bugs of the report are of the log, and those passed are in the report.
PBugs ==
    /\ \A k \in DOMAIN report : report[k].event \notin P!Operations => \E s \in P!StackLines : IsRead(s, k)
    /\ \A s \in P!StackLines : s[1] < i => \E k \in DOMAIN report : IsRead(s, k)

\* The reader is in its place, whichever whole log this is the beginning of.
PPlace ==
    /\ \E w \in Logs : PrefixOf(w)
    /\ \A w \in Logs : PrefixOf(w) => Placed(w)
    /\ log \in Logs /\ pc = "abort" => \E n \in DOMAIN log : ~log[n].located
    /\ pc = "done" => i > Len(log) \/ (total # NoCount /\ remaining = 0)

PFound == Traced /\ PBugs /\ PPlace

LEMMA PlaceFacts ==
    ASSUME PInv
    PROVE  /\ DOMAIN log = 1 .. Len(log) /\ Len(log) \in Nat /\ i \in Nat /\ i >= 1 /\ P!TypeOK
           /\ report \in Seq(P!Entry)
           /\ \A w \in Logs : PrefixOf(w) => /\ DOMAIN w = 1 .. Len(w) /\ Len(w) \in Nat
                                           /\ \A n \in DOMAIN log : n \in DOMAIN w /\ log[n] = w[n]
<1>1. /\ DOMAIN log = 1 .. Len(log) /\ Len(log) \in Nat /\ i \in Nat /\ i >= 1 /\ P!TypeOK /\ report \in Seq(P!Entry)
  BY DEF PInv, PShape, P!TypeOK
<1>2. ASSUME NEW w \in Logs, PrefixOf(w), NEW n \in DOMAIN log
      PROVE  n \in DOMAIN w /\ log[n] = w[n]
  BY <1>1, <1>2, Written DEF PrefixOf
<1>. QED BY <1>1, <1>2, Written

\* The steps to the end of the trace: the counts are all to come.
LEMMA CountsLater ==
    ASSUME PInv, Traced, ~stopped, P!Reading, NEW w \in Logs, PrefixOf(w), NEW m \in P!Counts(w)
    PROVE  i < m
<1>1. /\ i \in 1 .. Len(log) /\ i \in Nat /\ m \in Nat /\ Len(log) \in Nat
      /\ DOMAIN log = 1 .. Len(log) /\ DOMAIN w = 1 .. Len(w) /\ Len(w) \in Nat
      /\ \A n \in DOMAIN log : n \in DOMAIN w /\ log[n] = w[n]
  BY PlaceFacts, CountsAre DEF P!Reading
<1>2. SUFFICES ASSUME m <= i PROVE FALSE
  BY <1>1
<1>3. PICK x \in 1 .. m : w[x].kind = "stop"
  BY Written DEF P!IsWritten
<1>4. x # m
  BY <1>3, CountsAre
<1>5. x < i /\ x \in DOMAIN log
  BY <1>1, <1>2, <1>4
<1>. QED BY <1>1, <1>3, <1>5 DEF Traced

LEMMA NoBugYet ==
    ASSUME PInv, Traced, ~stopped, P!Reading, NEW w \in Logs, PrefixOf(w)
    PROVE  /\ \A n \in DOMAIN log : n < i + 1 => log[n].kind # "at"
           /\ log[i].kind = "stop" => started /\ Between(w, i + 1)
<1>1. /\ i \in DOMAIN log /\ i \in Nat /\ Len(log) \in Nat
      /\ DOMAIN log = 1 .. Len(log) /\ DOMAIN w = 1 .. Len(w) /\ Len(w) \in Nat
      /\ \A n \in DOMAIN log : n \in DOMAIN w /\ log[n] = w[n]
  BY PlaceFacts DEF P!Reading
<1>2. P!IsWritten(w)
  BY Written
<1>3. ASSUME NEW a \in DOMAIN w, w[a].kind = "at"
      PROVE  \E m \in P!Counts(w) : i < m /\ m < a
  <2>1. PICK m \in 1 .. a : m \in P!Counts(w)
    BY <1>2, <1>3 DEF P!IsWritten
  <2>2. m # a
    BY <1>3, <2>1, CountsAre
  <2>3. i < m
    BY <2>1, CountsLater
  <2>4. m < a
    BY <1>1, <2>1, <2>2
  <2>. QED BY <2>1, <2>3, <2>4
<1>4. \A n \in DOMAIN log : n < i + 1 => log[n].kind # "at"
  <2>1. ASSUME NEW n \in DOMAIN log, n < i + 1, log[n].kind = "at"
        PROVE  FALSE
    <3>1. PICK m \in P!Counts(w) : i < m /\ m < n
      BY <1>1, <1>3, <2>1
    <3>2. m \in Nat
      BY <1>1, CountsAre
    <3>. QED BY <1>1, <2>1, <3>1, <3>2
  <2>. QED BY <2>1
<1>5. Between(w, i + 1)
  <2>1. ASSUME NEW a \in DOMAIN w, w[a].kind = "at"
        PROVE  \E m \in P!Counts(w) : i + 1 <= m /\ m < a
    <3>1. PICK m \in P!Counts(w) : i < m /\ m < a
      BY <1>3, <2>1
    <3>2. m \in Nat
      BY <1>1, CountsAre
    <3>. QED BY <1>1, <3>1, <3>2
  <2>. QED BY <2>1 DEF Between
<1>6. log[i].kind = "stop" => started
  <2>1. ASSUME log[i].kind = "stop"
        PROVE  started
    <3>1. PICK n \in 1 .. i : w[n].kind = "trace"
      BY <1>1, <1>2, <2>1 DEF P!IsWritten
    <3>2. n \in DOMAIN log /\ log[n].kind = "trace" /\ n # i
      BY <1>1, <2>1, <3>1
    <3>3. n < i
      BY <1>1, <3>1, <3>2
    <3>. QED BY <3>2, <3>3 DEF Traced
  <2>. QED BY <2>1
<1>. QED BY <1>4, <1>5, <1>6

LEMMA TraceBugsP ==
    ASSUME PInv, PFound, P!Start \/ P!ReadEvents \/ P!SkipOrStop
    PROVE  PFound'
<1>1. /\ P!Reading /\ ~stopped /\ i' = i + 1 /\ log' = log /\ pc' = pc /\ pc = "read"
      /\ UNCHANGED <<total, remaining, last, isPerf>> /\ Traced /\ PPlace /\ total = NoCount
  BY DEF P!Start, P!ReadEvents, P!SkipOrStop, P!Reading, P!section, PFound, PInv, PShape
<1>2. /\ i \in DOMAIN log /\ i \in Nat /\ DOMAIN log = 1 .. Len(log) /\ Len(log) \in Nat
      /\ P!This = log[i] /\ \A n \in DOMAIN log : n < i + 1 => n < i \/ n = i
  BY <1>1, PlaceFacts DEF P!Reading, P!This
<1>3. PICK v \in Logs : PrefixOf(v)
  BY <1>1 DEF PPlace
<1>4. /\ \A n \in DOMAIN log : n < i + 1 => log[n].kind # "at"
      /\ log[i].kind = "stop" => started
  BY <1>1, <1>3, NoBugYet
<1>5. /\ started => started'
      /\ log[i].kind = "trace" => started' /\ log[i].located
      /\ log[i].kind = "stop" => stopped'
      /\ stopped' => log[i].kind = "stop"
  <2>1. CASE P!Start
    BY <1>1, <1>2, <1>4, <2>1 DEF P!Start
  <2>2. CASE P!ReadEvents
    BY <1>1, <1>2, <2>2 DEF P!ReadEvents
  <2>3. CASE P!SkipOrStop
    <3>1. started /\ started' = started /\ log[i].kind # "trace" /\ stopped' = (log[i].kind = "stop")
      BY <1>2, <2>3 DEF P!SkipOrStop
    <3>. QED BY <3>1, Zenon
  <2>. QED BY <2>1, <2>2, <2>3
<1>6. Traced'
  <2>1. ASSUME NEW n \in DOMAIN log, n < i + 1
        PROVE  (log[n].kind = "trace" => started' /\ log[n].located) /\ (log[n].kind = "stop" => stopped')
    <3>1. CASE n < i
      BY <1>1, <1>5, <3>1 DEF Traced
    <3>2. CASE n = i
      BY <1>5, <3>2
    <3>. QED BY <1>2, <2>1, <3>1, <3>2
  <2>. QED BY <1>1, <2>1 DEF Traced
<1>7. \A k \in DOMAIN report' : report'[k].event \in P!Operations
  <2>1. PShape /\ PReport
    BY DEF PInv
  <2>2. CASE P!This.kind = "trace"
    <3>1. Parses
      BY <1>1, <2>2 DEF P!Start, P!ReadEvents, P!SkipOrStop, Parses
    <3>. QED BY <2>1, <3>1, Parsing
  <2>3. CASE P!This.kind # "trace"
    <3>1. report' = report
      BY <2>3 DEF P!Start, P!ReadEvents, P!SkipOrStop
    <3>. QED BY <1>1, <2>1, <3>1 DEF PShape
  <2>. QED BY <2>2, <2>3
<1>8. PBugs'
  <2>1. ASSUME NEW s \in P!StackLines'
        PROVE  ~(s[1] < i')
    <3>1. s[1] \in DOMAIN log /\ log[s[1]].kind = "at"
      BY <1>1 DEF P!StackLines, P!IsTrace
    <3>. QED BY <1>1, <1>4, <3>1
  <2>. QED BY <1>7, <2>1 DEF PBugs
<1>9. ASSUME NEW w \in Logs, PrefixOf(w)
      PROVE  Placed(w)'
  <2>1. Placed(w)
    BY <1>1, <1>9 DEF PPlace
  <2>2. last = -1
    BY <1>1, <2>1 DEF Placed
  <2>3. stopped' => Between(w, i + 1)
    BY <1>1, <1>5, <1>9, NoBugYet
  <2>. QED BY <1>1, <2>2, <2>3 DEF Placed
<1>10. PPlace'
  <2>1. \A w : PrefixOf(w)' <=> PrefixOf(w)
    BY <1>1 DEF PrefixOf
  <2>. QED BY <1>1, <1>3, <1>9, <2>1 DEF PPlace
<1>. QED BY <1>6, <1>8, <1>10 DEF PFound

\* The steps after it.
LEMMA StillBugs ==
    ASSUME PInv, PBugs, UNCHANGED <<log, report>>,
           \A n \in DOMAIN log : n < i' => n < i \/ log[n].kind # "at"
    PROVE  PBugs'
<1>1. P!StackLines' = P!StackLines
  BY DEF P!StackLines
<1>2. \A s, k : IsRead(s, k)' <=> IsRead(s, k)
  BY DEF IsRead, P!SectionOf
<1>3. ASSUME NEW s \in P!StackLines, s[1] < i'
      PROVE  \E k \in DOMAIN report : IsRead(s, k)
  <2>1. s[1] \in DOMAIN log /\ log[s[1]].kind = "at"
    BY DEF P!StackLines, P!IsTrace
  <2>2. s[1] < i
    BY <1>3, <2>1
  <2>. QED BY <2>2 DEF PBugs
<1>4. \A k \in DOMAIN report : report[k].event \notin P!Operations => \E s \in P!StackLines : IsRead(s, k)
  BY DEF PBugs
<1>. QED BY <1>1, <1>2, <1>3, <1>4 DEF PBugs

LEMMA SeekPlaced ==
    ASSUME PInv, PFound, P!CountStores \/ P!CountFlushes \/ P!SkipLine, NEW w \in Logs, PrefixOf(w)
    PROVE  /\ Placed(w)'
           /\ \A n \in DOMAIN log : n < i' => n < i \/ log[n].kind # "at"
<1>1. /\ P!Seeking /\ P!Reading /\ stopped /\ stopped' = stopped /\ last' = last /\ total = NoCount /\ PPlace
  BY DEF P!CountStores, P!CountFlushes, P!SkipLine, P!Seeking, P!section, PFound
<1>2. /\ DOMAIN log = 1 .. Len(log) /\ Len(log) \in Nat /\ i \in Nat /\ i \in DOMAIN log
      /\ DOMAIN w = 1 .. Len(w) /\ Len(w) \in Nat /\ i \in DOMAIN w /\ P!This = w[i]
      /\ \A n \in DOMAIN log : n \in DOMAIN w /\ log[n] = w[n]
  BY <1>1, PlaceFacts DEF P!Reading, P!This
<1>3. last = -1 /\ Between(w, i)
  BY <1>1 DEF PPlace, Placed
<1>4. /\ \A n \in DOMAIN log : n < i + 1 => n < i \/ n = i
      /\ \A n \in DOMAIN log : n < i + 2 => n < i \/ n = i \/ n = i + 1
  BY <1>2
<1>5. \A n \in Nat : n # NoCount
  BY LogAssumption DEF P!LogsTyped
<1>6. CASE P!SkipLine
  <2>1. UNCHANGED <<total, remaining, isPerf>> /\ i' = i + 1 /\ i \notin P!Counts(w)
    BY <1>2, <1>6, CountsAre DEF P!SkipLine, P!section
  <2>2. w[i].kind # "at" /\ Between(w, i + 1)
    BY <1>2, <1>3, <2>1, PlaceSkip
  <2>3. Placed(w)'
    BY <1>1, <1>3, <2>1, <2>2 DEF Placed
  <2>. QED BY <1>2, <1>4, <2>1, <2>2, <2>3
<1>7. CASE P!CountFlushes
  <2>1. total' = w[i].arg /\ remaining' = w[i].arg /\ isPerf' = TRUE /\ i' = i + 1 /\ w[i].kind = "flushes"
    BY <1>2, <1>7 DEF P!CountFlushes
  <2>2. i \in P!Counts(w) /\ w[i].arg \in Nat /\ P!FirstBug(w, i) = i + 1
    BY <1>2, <2>1, CountsAre, Written DEF P!FirstBug
  <2>3. Within(w, i, i + 1, w[i].arg, w[i].arg, -1, w[i].kind = "flushes")
    BY <2>1, <2>2, PlaceCount
  <2>4. Within(w, i, i', total', remaining', last', isPerf')
    BY <1>1, <1>3, <2>1, <2>3 DEF Within
  <2>5. Placed(w)'
    BY <1>1, <1>5, <2>1, <2>2, <2>4 DEF Placed
  <2>. QED BY <1>2, <1>4, <2>1, <2>5
<1>8. CASE P!CountStores
  <2>1. i' = i + 2 /\ w[i].kind = "stores" /\ i \in P!Counts(w) /\ w[i].arg \in Nat
    BY <1>2, <1>8, CountsAre, Written DEF P!CountStores
  <2>2. CASE w[i].arg = 0
    <3>1. UNCHANGED <<total, remaining, isPerf>>
      BY <1>2, <1>8, <2>2 DEF P!CountStores
    <3>2. (i + 1 \in DOMAIN w => w[i + 1].kind # "at") /\ Between(w, i + 2)
      BY <2>1, <2>2, PlaceEmpty
    <3>3. Placed(w)'
      BY <1>1, <1>3, <2>1, <3>1, <3>2 DEF Placed
    <3>. QED BY <1>2, <1>4, <2>1, <3>2, <3>3
  <2>3. CASE w[i].arg # 0
    <3>1. total' = w[i].arg /\ remaining' = w[i].arg /\ isPerf' = FALSE
      BY <1>2, <1>8, <2>3 DEF P!CountStores
    <3>2. /\ Within(w, i, i + 2, w[i].arg, w[i].arg, -1, w[i].kind = "flushes")
          /\ i + 1 \in DOMAIN w /\ w[i + 1].kind = "header"
      BY <2>1, <2>3, PlaceCount DEF P!FirstBug
    <3>3. Within(w, i, i', total', remaining', last', isPerf')
      BY <1>1, <1>3, <2>1, <3>1, <3>2 DEF Within
    <3>4. Placed(w)'
      BY <1>1, <1>5, <2>1, <3>1, <3>3 DEF Placed
    <3>. QED BY <1>2, <1>4, <2>1, <3>2, <3>4
  <2>. QED BY <2>2, <2>3
<1>. QED BY <1>6, <1>7, <1>8

LEMMA SeekBugsP ==
    ASSUME PInv, PFound, P!CountStores \/ P!CountFlushes \/ P!SkipLine
    PROVE  PFound'
<1>1. /\ UNCHANGED <<log, started, stopped, report, pc>> /\ Traced /\ PBugs /\ PPlace /\ i <= i' /\ i \in Nat /\ i' \in Nat
      /\ pc = "read" /\ started /\ stopped
  BY PlaceFacts DEF P!CountStores, P!CountFlushes, P!SkipLine, P!section, P!Seeking, P!Reading, PFound
<1>2. PICK v \in Logs : PrefixOf(v)
  BY <1>1 DEF PPlace
<1>3. PBugs'
  BY <1>1, <1>2, SeekPlaced, StillBugs
<1>4. Traced'
  <2>1. \A n \in DOMAIN log : log[n].kind = "trace" => n < i
    BY <1>1, PlaceFacts, NoMoreTrace DEF PInv
  <2>. QED BY <1>1, <2>1 DEF Traced
<1>5. \A w : PrefixOf(w)' <=> PrefixOf(w)
  BY <1>1 DEF PrefixOf
<1>6. \A w \in Logs : PrefixOf(w) => Placed(w)'
  BY SeekPlaced
<1>7. PPlace'
  BY <1>1, <1>2, <1>5, <1>6 DEF PPlace
<1>. QED BY <1>3, <1>4, <1>7 DEF PFound

\* A bug is read: it ends where its range begins.
LEMMA ReadPlaced ==
    ASSUME PInv, PFound, NEW n \in i .. Len(log), P!InSection, P!IsBug(n), NEW w \in Logs, PrefixOf(w),
           i' = n + 2, stopped' = stopped, isPerf' = isPerf,
           total' = P!NextTotal, remaining' = P!NextRemaining, last' = P!NextLast
    PROVE  /\ Placed(w)' /\ P!IsTrace(log, i, n)
           /\ \E m \in P!Counts(w) : /\ m < i /\ (isPerf <=> w[m].kind = "flushes")
                                     /\ \A k \in P!Counts(w) : ~(m < k /\ k < i)
<1>1. /\ DOMAIN log = 1 .. Len(log) /\ Len(log) \in Nat /\ i \in Nat /\ i \in DOMAIN log
      /\ DOMAIN w = 1 .. Len(w) /\ Len(w) \in Nat /\ P!This = log[i] /\ n \in Nat /\ i <= n /\ n <= Len(log)
      /\ \A x \in DOMAIN log : x \in DOMAIN w /\ log[x] = w[x]
  BY PlaceFacts DEF P!InSection, P!Reading, P!This
<1>2. /\ total \in Nat /\ remaining \in Nat /\ remaining > 0 /\ total # NoCount /\ stopped /\ isPerf \in BOOLEAN
      /\ NoCount \notin Int
  BY PlaceFacts, LogAssumption DEF P!InSection, P!HasMore, P!TypeOK, P!LogsTyped
<1>3. n + 1 \in DOMAIN log /\ log[n + 1].kind = "address"
  <2>1. n + 1 <= Len(log)
    BY <1>1 DEF P!IsBug, P!KindAt
  <2>. QED BY <1>1, <2>1 DEF P!IsBug, P!KindAt
<1>4. \A k \in i + 1 .. n : k \in DOMAIN log /\ log[k].kind = "by"
  <2>1. ASSUME NEW k \in i + 1 .. n
        PROVE  k \in DOMAIN log /\ log[k].kind = "by"
    <3>1. k <= Len(log) /\ k \in DOMAIN log
      BY <1>1
    <3>. QED BY <3>1 DEF P!IsBug, P!IsStack, P!KindAt
  <2>. QED BY <2>1
<1>5. P!IsTrace(log, i, n) /\ P!IsTrace(w, i, n)
  BY <1>1, <1>3, <1>4 DEF P!IsBug, P!IsTrace
<1>6. PICK m \in P!Counts(w) : Within(w, m, i, total, remaining, last, isPerf)
  BY <1>2 DEF PFound, PPlace, Placed
<1>7. /\ remaining > 1 \/ isPerf => Within(w, m, n + 2, total, remaining - 1, last + 1, isPerf)
      /\ remaining = 1 /\ ~isPerf => Between(w, n + 2)
  BY <1>1, <1>2, <1>5, <1>6, PlaceBug
<1>8. log[i].arg = last + 1
  BY <1>1 DEF P!IsBug
<1>9. CASE remaining = 1 /\ ~isPerf
  <2>1. total' = NoCount /\ last' = -1
    BY <1>9 DEF P!NextTotal, P!NextLast, P!EndsSection
  <2>. QED BY <1>5, <1>6, <1>7, <1>9, <2>1 DEF Placed, Within
<1>10. CASE ~(remaining = 1 /\ ~isPerf)
  <2>1. total' = total /\ remaining' = remaining - 1 /\ last' = last + 1
    BY <1>1, <1>8, <1>10 DEF P!NextTotal, P!NextRemaining, P!NextLast, P!EndsSection
  <2>2. Within(w, m, i', total', remaining', last', isPerf')
    BY <1>2, <1>7, <1>10, <2>1
  <2>3. Placed(w)'
    BY <1>2, <2>1, <2>2 DEF Placed
  <2>. QED BY <1>5, <1>6, <2>3 DEF Within
<1>. QED BY <1>9, <1>10

LEMMA SectionIs ==
    ASSUME DOMAIN log \subseteq Nat, NEW x \in Nat, NEW m \in P!Counts(log), m <= x,
           \A k \in P!Counts(log) : ~(m < k /\ k <= x)
    PROVE  P!SectionOf(x) = P!Sections[log[m].kind]
<1>. DEFINE counts == {k \in P!Counts(log) : k <= x}
<1>1. \A k \in counts : k \in Nat
  BY CountsAre
<1>2. m \in counts /\ \A k \in counts : k <= m
  BY <1>1
<1>3. \A k \in counts : (\A other \in counts : other <= k) => k = m
  BY <1>1, <1>2
<1>4. P!SectionOf(x) = P!Sections[log[CHOOSE k \in counts : \A other \in counts : other <= k].kind]
  BY DEF P!SectionOf
<1>. HIDE DEF counts
<1>5. (CHOOSE k \in counts : \A other \in counts : other <= k) = m
  BY <1>2, <1>3
<1>. QED BY <1>4, <1>5

LEMMA OneBugP ==
    ASSUME PInv, PFound, P!ReadBug
    PROVE  PFound'
<1>1. /\ P!InSection /\ P!Reading /\ UNCHANGED <<log, started, stopped, isPerf, pc>> /\ stopped /\ started /\ pc = "read"
      /\ total' = P!NextTotal /\ remaining' = P!NextRemaining /\ last' = P!NextLast
      /\ Traced /\ PBugs /\ PPlace
  BY DEF P!ReadBug, P!InSection, P!Reading, PFound
<1>2. PICK n \in i .. Len(log) :
          /\ P!IsBug(n)
          /\ report' = Append(report, [event |-> IF isPerf THEN "REQUIRED_FLUSH" ELSE "ASSERT_PERSISTED",
                                       time |-> time, lines |-> <<i, n>>, no |-> P!This.arg])
          /\ i' = n + 2
  BY DEF P!ReadBug
<1>3. /\ i \in DOMAIN log /\ i \in Nat /\ DOMAIN log = 1 .. Len(log) /\ Len(log) \in Nat /\ n \in Nat /\ i <= n
      /\ P!This = log[i] /\ P!This.kind = "at" /\ report \in Seq(P!Entry) /\ P!TypeOK
  BY <1>1, <1>2, PlaceFacts DEF P!Reading, P!This, P!IsBug
<1>4. PICK v \in Logs : PrefixOf(v)
  BY <1>1 DEF PPlace
<1>5. \A w \in Logs : PrefixOf(w) => Placed(w)'
  BY <1>1, <1>2, ReadPlaced
<1>6. P!IsTrace(log, i, n)
  BY <1>1, <1>2, <1>4, ReadPlaced
<1>7. PICK m \in P!Counts(v) : /\ m < i /\ (isPerf <=> v[m].kind = "flushes")
                               /\ \A k \in P!Counts(v) : ~(m < k /\ k < i)
  BY <1>1, <1>2, <1>4, ReadPlaced
<1>8. P!SectionOf(i) = IF isPerf THEN "REQUIRED_FLUSH" ELSE "ASSERT_PERSISTED"
  <2>1. /\ \A x \in DOMAIN log : x \in DOMAIN v /\ log[x] = v[x]
        /\ m \in DOMAIN v /\ v[m].kind \in {"stores", "flushes"} /\ DOMAIN v = 1 .. Len(v) /\ Len(v) \in Nat
    BY <1>4, PlaceFacts, CountsAre
  <2>2. m \in DOMAIN log /\ m \in P!Counts(log) /\ log[m] = v[m] /\ m <= i
    <3>1. m \in DOMAIN log /\ m <= i
      BY <1>3, <1>7, <2>1
    <3>. QED BY <2>1, <3>1, CountsAre
  <2>3. ASSUME NEW k \in P!Counts(log), m < k, k <= i
        PROVE  FALSE
    <3>1. k \in DOMAIN log /\ log[k].kind \in {"stores", "flushes"} /\ k \in P!Counts(v)
      BY <2>1, CountsAre
    <3>2. k < i
      BY <1>3, <2>3, <3>1
    <3>. QED BY <1>7, <2>3, <3>1, <3>2
  <2>4. P!SectionOf(i) = P!Sections[log[m].kind]
    BY <1>3, <2>2, <2>3, SectionIs
  <2>. QED BY <1>7, <2>1, <2>2, <2>4, CountsAre
<1>9. PICK e : e = [event |-> IF isPerf THEN "REQUIRED_FLUSH" ELSE "ASSERT_PERSISTED",
                    time |-> time, lines |-> <<i, n>>, no |-> P!This.arg]
  OBVIOUS
<1>10. /\ e.event = P!SectionOf(i) /\ e.event \notin P!Operations /\ e.lines = <<i, n>> /\ e.no = log[i].arg
       /\ report' = Append(report, e)
  BY <1>2, <1>3, <1>8, <1>9 DEF P!Operations
<1>11. PICK R : R = Len(report)
  OBVIOUS
<1>12. e \in P!Entry
  <2>1. log[i].arg \in Nat /\ time \in Nat
    BY <1>3, LineArgs DEF P!TypeOK
  <2>. QED BY <1>3, <1>9, <2>1 DEF P!Entry
<1>13. /\ R \in Nat /\ DOMAIN report = 1 .. R /\ DOMAIN report' = 1 .. R + 1
       /\ (\A k \in 1 .. R : report'[k] = report[k]) /\ report'[R + 1] = e
  BY <1>3, <1>10, <1>11, <1>12
<1>14. /\ R + 1 \in DOMAIN report' /\ \A k \in DOMAIN report : k \in DOMAIN report' /\ report'[k] = report[k]
       /\ \A k \in DOMAIN report' : k \in DOMAIN report \/ k = R + 1
  BY <1>13
<1>15. \A s : \A k \in DOMAIN report : IsRead(s, k)' <=> IsRead(s, k)
  BY <1>1, <1>14 DEF IsRead, P!SectionOf
<1>16. P!StackLines' = P!StackLines
  BY <1>1 DEF P!StackLines
<1>17. PICK z : z = <<i, n>>
  OBVIOUS
<1>18. z \in P!StackLines /\ z[1] = i /\ z[2] = n
  <2>1. n \in DOMAIN log
    BY <1>2, <1>3
  <2>. QED BY <1>3, <1>6, <1>17, <2>1 DEF P!StackLines
<1>19. ASSUME NEW k, k = R + 1
       PROVE  IsRead(z, k)'
  <2>1. report'[k] = e
    BY <1>13, <1>19
  <2>2. P!SectionOf(z[1])' = P!SectionOf(z[1]) /\ log'[z[1]] = log[i]
    BY <1>1, <1>18 DEF P!SectionOf
  <2>3. \A x \in z[1] .. z[2] : log'[x].located
    BY <1>1, <1>2, <1>18 DEF P!IsBug
  <2>. QED BY <1>10, <1>17, <1>18, <2>1, <2>2, <2>3 DEF IsRead
<1>20. ASSUME NEW k \in DOMAIN report', report'[k].event \notin P!Operations
       PROVE  \E s \in P!StackLines' : IsRead(s, k)'
  <2>1. CASE k \in DOMAIN report
    <3>1. PICK s \in P!StackLines : IsRead(s, k)
      BY <1>1, <1>14, <1>20, <2>1 DEF PBugs
    <3>. QED BY <1>15, <1>16, <2>1, <3>1
  <2>2. CASE k = R + 1
    BY <1>16, <1>18, <1>19, <2>2
  <2>. QED BY <1>14, <2>1, <2>2
<1>21. ASSUME NEW s \in P!StackLines', s[1] < i'
       PROVE  \E k \in DOMAIN report' : IsRead(s, k)'
  <2>1. s \in P!StackLines /\ s[1] < n + 2 /\ s \in (DOMAIN log) \X (DOMAIN log) /\ P!IsTrace(log, s[1], s[2])
    BY <1>2, <1>16, <1>21 DEF P!StackLines
  <2>2. s[1] \in Nat /\ s[2] \in Nat /\ log[s[1]].kind = "at" /\ s = <<s[1], s[2]>>
    BY <1>3, <2>1 DEF P!IsTrace
  <2>3. CASE s[1] < i
    <3>1. PICK k \in DOMAIN report : IsRead(s, k)
      BY <1>1, <2>1, <2>3 DEF PBugs
    <3>. QED BY <1>14, <1>15, <3>1
  <2>4. CASE ~(s[1] < i)
    <3>1. s[1] = i \/ s[1] \in i + 1 .. n \/ s[1] = n + 1
      BY <1>3, <2>1, <2>2, <2>4
    <3>2. s[1] = i
      BY <1>6, <2>2, <3>1 DEF P!IsTrace
    <3>3. s[2] = n
      BY <1>3, <1>6, <2>1, <2>2, <3>2, OneTrace
    <3>4. s = z
      BY <1>17, <2>2, <3>2, <3>3
    <3>. QED BY <1>14, <1>19, <3>4
  <2>. QED BY <2>3, <2>4
<1>22. PBugs'
  BY <1>20, <1>21 DEF PBugs
<1>23. Traced'
  <2>1. \A y \in DOMAIN log : log[y].kind = "trace" => y < i
    BY <1>1, PlaceFacts, NoMoreTrace DEF PInv
  <2>. QED BY <1>1, <2>1 DEF Traced
<1>24. PPlace'
  <2>1. \A w : PrefixOf(w)' <=> PrefixOf(w)
    BY <1>1 DEF PrefixOf
  <2>. QED BY <1>1, <1>4, <1>5, <2>1 DEF PPlace
<1>. QED BY <1>22, <1>23, <1>24 DEF PFound

\* A whole log has all the lines that the reader asks for: what it lacks is a frame.
LEMMA NoFail ==
    ASSUME PInv, PFound, log \in Logs, P!Fail
    PROVE  \E n \in DOMAIN log : ~log[n].located
<1>. SUFFICES ASSUME \A n \in DOMAIN log : log[n].located PROVE FALSE
  OBVIOUS
<1>1. /\ DOMAIN log = 1 .. Len(log) /\ Len(log) \in Nat /\ i \in Nat /\ i >= 1 /\ PrefixOf(log) /\ P!IsWritten(log)
  BY PlaceFacts, Written DEF PrefixOf
<1>2. Placed(log)
  BY <1>1 DEF PFound, PPlace
<1>3. ASSUME P!Seeking, P!This.kind = "stores", P!This.arg > 0
      PROVE  P!KindAt(i + 1) = "header"
  <2>1. i \in P!Counts(log) /\ log[i].arg > 0 /\ log[i].kind = "stores"
    BY <1>1, <1>3, CountsAre DEF P!Seeking, P!Reading, P!This
  <2>2. i + 1 \in DOMAIN log /\ log[i + 1].kind = "header"
    BY <2>1, PlaceCount
  <2>. QED BY <1>1, <2>2 DEF P!KindAt
<1>4. ASSUME P!InSection
      PROVE  \E n \in i .. Len(log) : P!IsBug(n)
  <2>1. total # NoCount /\ remaining # NoCount /\ remaining > 0 /\ P!This = log[i]
    BY <1>4 DEF P!InSection, P!HasMore, P!This
  <2>2. PICK m \in P!Counts(log) : Within(log, m, i, total, remaining, last, isPerf)
    BY <1>2, <2>1 DEF Placed
  <2>3. i \in P!BugsOf(log, m) /\ log[i].arg = last + 1 /\ P!SectionWritten(log, m)
    BY <1>1, <2>1, <2>2 DEF Within, P!IsWritten
  <2>4. PICK e \in i .. Len(log) : P!IsTrace(log, i, e)
    BY <2>3 DEF P!SectionWritten
  <2>5. /\ e \in Nat /\ e >= i /\ e <= Len(log) /\ log[i].kind = "at" /\ \A k \in i + 1 .. e : log[k].kind = "by"
        /\ e + 1 \in DOMAIN log /\ log[e + 1].kind = "address"
    BY <1>1, <2>4 DEF P!IsTrace
  <2>6. P!KindAt(e + 1) = "address" /\ \A k \in i + 1 .. e : P!KindAt(k) = "by"
    BY <1>1, <2>5 DEF P!KindAt
  <2>7. P!IsStack(e)
    BY <2>5, <2>6 DEF P!IsStack
  <2>8. \A k \in i .. e : k \in DOMAIN log
    BY <1>1, <2>5
  <2>9. P!IsBug(e)
    BY <2>1, <2>3, <2>5, <2>6, <2>7, <2>8 DEF P!IsBug
  <2>. QED BY <2>4, <2>9
<1>5. ASSUME P!Reading
      PROVE  P!This.located
  BY <1>1, <1>5 DEF P!Reading, P!This
<1>. QED BY <1>3, <1>4, <1>5 DEF P!Fail

LEMMA StopBugsP ==
    ASSUME PInv, PFound, P!Fail \/ P!Finish
    PROVE  PFound'
<1>1. /\ UNCHANGED <<log, i, started, stopped, total, remaining, last, isPerf, report>> /\ Traced /\ PBugs /\ PPlace
      /\ pc' \in {"done", "abort"} /\ (pc' = "abort" => P!Fail) /\ (pc' = "done" => P!Finish)
  BY DEF P!Fail, P!Finish, P!section, PFound
<1>2. Traced'
  BY <1>1 DEF Traced
<1>3. PBugs'
  BY <1>1, StillBugs
<1>4. \A w : /\ PrefixOf(w)' <=> PrefixOf(w)
             /\ Placed(w)' <=> Placed(w)
  BY <1>1 DEF PrefixOf, Placed
<1>5. log \in Logs /\ pc' = "abort" => \E n \in DOMAIN log : ~log[n].located
  BY <1>1, NoFail
<1>6. P!Finish => i > Len(log) \/ (total # NoCount /\ remaining = 0)
  <2>1. remaining \in Nat \/ remaining = NoCount
    BY PlaceFacts DEF P!TypeOK
  <2>2. total # NoCount => remaining # NoCount
    BY PlaceFacts DEF P!TypeOK
  <2>. QED BY <2>1, <2>2 DEF P!Finish, P!HasMore
<1>7. PPlace'
  BY <1>1, <1>4, <1>5, <1>6 DEF PPlace
<1>. QED BY <1>2, <1>3, <1>7 DEF PFound

LEMMA StutterBugsP ==
    ASSUME PInv, PFound, UNCHANGED <<log, i, started, stopped, total, remaining, last, isPerf, report, time, pc>>
    PROVE  PFound'
<1>1. Traced'
  BY DEF PFound, Traced
<1>2. PBugs'
  BY StillBugs DEF PFound
<1>3. \A w : /\ PrefixOf(w)' <=> PrefixOf(w)
             /\ Placed(w)' <=> Placed(w)
  BY DEF PrefixOf, Placed
<1>4. PPlace'
  BY <1>3 DEF PFound, PPlace
<1>. QED BY <1>1, <1>2, <1>4 DEF PFound

LEMMA StepBugsP ==
    ASSUME PInv, PFound, P!Next
    PROVE  PFound'
BY TraceBugsP, SeekBugsP, OneBugP, StopBugsP DEF P!Next

LEMMA InitBugsP ==
    ASSUME P!Init
    PROVE  PFound
<1>1. PICK whole \in Logs : \E n \in 0 .. Len(whole) : log = SubSeq(whole, 1, n)
  BY DEF P!Init
<1>2. PICK n \in 0 .. Len(whole) : log = SubSeq(whole, 1, n)
  BY <1>1
<1>3. whole \in Seq(P!Line)
  BY <1>1, Written
<1>4. PrefixOf(whole)
  BY <1>2, <1>3 DEF PrefixOf
<1>5. /\ i = 1 /\ started = FALSE /\ stopped = FALSE /\ total = NoCount /\ last = -1 /\ report = <<>> /\ pc = "read"
      /\ DOMAIN log = 1 .. Len(log) /\ Len(log) \in Nat
  BY InitP, PlaceFacts DEF P!Init
<1>6. \A n1 \in DOMAIN log : ~(n1 < i)
  BY <1>5
<1>7. Traced
  BY <1>6 DEF Traced
<1>8. PBugs
  <2>1. \A s \in P!StackLines : s[1] \in DOMAIN log
    BY DEF P!StackLines
  <2>2. DOMAIN report = {}
    BY <1>5
  <2>. QED BY <1>6, <2>1, <2>2 DEF PBugs
<1>9. PPlace
  BY <1>4, <1>5 DEF PPlace, Placed
<1>. QED BY <1>7, <1>8, <1>9 DEF PFound

\* What is read of the bugs in the end.
LEMMA EndP ==
    ASSUME PInv, PFound
    PROVE  P!AllBugsRead /\ P!WholeLogsRead
<1>1. log \in Logs /\ pc = "abort" => \E n \in DOMAIN log : ~log[n].located
  BY DEF PFound, PPlace
<1>2. ASSUME pc = "done", NEW s \in P!StackLines
      PROVE  s[1] < i
  <2>1. /\ DOMAIN log = 1 .. Len(log) /\ Len(log) \in Nat /\ i \in Nat
        /\ s[1] \in DOMAIN log /\ s[1] \in Nat /\ log[s[1]].kind = "at"
    BY PlaceFacts DEF P!StackLines, P!IsTrace
  <2>2. CASE i > Len(log)
    BY <2>1, <2>2
  <2>3. CASE total # NoCount /\ remaining = 0
    <3>1. PICK w \in Logs : PrefixOf(w)
      BY DEF PFound, PPlace
    <3>2. PICK m \in P!Counts(w) : Within(w, m, i, total, 0, last, isPerf)
      BY <2>3, <3>1 DEF PFound, PPlace, Placed
    <3>3. total \in Nat
      BY <2>3, PlaceFacts DEF P!TypeOK
    <3>4. s[1] \in DOMAIN w /\ w[s[1]].kind = "at"
      BY <2>1, <3>1, PlaceFacts
    <3>. QED BY <2>1, <3>2, <3>3, <3>4, PlaceEnd
  <2>. QED BY <1>2, <2>2, <2>3 DEF PFound, PPlace
<1>3. ASSUME pc = "done"
      PROVE  {<<e.lines, e.event, e.no>> : e \in P!BugsRead}
             = {<<s, P!SectionOf(s[1]), log[s[1]].arg>> : s \in P!StackLines}
  <2>1. ASSUME NEW e \in P!BugsRead
        PROVE  \E s \in P!StackLines : <<e.lines, e.event, e.no>> = <<s, P!SectionOf(s[1]), log[s[1]].arg>>
    <3>1. PICK k \in DOMAIN report : report[k] = e /\ e.event \notin P!Operations
      BY DEF P!BugsRead
    <3>2. PICK s \in P!StackLines : IsRead(s, k)
      BY <3>1 DEF PFound, PBugs
    <3>. QED BY <3>1, <3>2 DEF IsRead
  <2>2. ASSUME NEW s \in P!StackLines
        PROVE  \E e \in P!BugsRead : <<e.lines, e.event, e.no>> = <<s, P!SectionOf(s[1]), log[s[1]].arg>>
    <3>1. PICK k \in DOMAIN report : IsRead(s, k)
      BY <1>2, <1>3 DEF PFound, PBugs
    <3>2. report[k] \in P!BugsRead
      BY <3>1 DEF P!BugsRead, IsRead
    <3>. QED BY <3>1, <3>2 DEF IsRead
  <2>. QED BY <2>1, <2>2
<1>4. P!AllBugsRead
  BY <1>3 DEF P!AllBugsRead
<1>5. ASSUME pc = "done", NEW n \in DOMAIN log, P!NeedsFrames(n)
      PROVE  log[n].located
  <2>1. CASE log[n].kind = "trace"
    <3>1. n < i
      BY <1>5, <2>1, TraceRead DEF PInv
    <3>. QED BY <2>1, <3>1 DEF PFound, Traced
  <2>2. ASSUME NEW s \in P!StackLines, n \in s[1] .. s[2]
        PROVE  log[n].located
    <3>1. PICK k \in DOMAIN report : IsRead(s, k)
      BY <1>2, <1>5 DEF PFound, PBugs
    <3>. QED BY <2>2, <3>1 DEF IsRead
  <2>. QED BY <1>5, <2>1, <2>2 DEF P!NeedsFrames
<1>6. P!WholeLogsRead
  BY <1>1, <1>5 DEF P!WholeLogsRead
<1>. QED BY <1>4, <1>6

-----------------------------------------------------------------------------
(* The reader of PMTest's logs.                                            *)

TEntry == [time : Nat, what : T!Lines, stack : BOOLEAN]
TEvent == [event : PMTestEvents, time : Nat, bug : BOOLEAN, entry : Nat]

TTypes ==
    /\ log \in Seq(T!Lines) /\ i \in Nat \ {0} /\ time \in Nat
    /\ entries \in Seq(TEntry) /\ report \in Seq(TEvent)
    /\ pc \in {"lines", "entries", "done", "abort"}

\* The entries are those of the lines that were read, in their order.
TEntries ==
    /\ pc = "lines" => report = <<>> /\ time = i - 1
    /\ \A k \in DOMAIN entries : pc = "lines" => entries[k].time < time
    /\ \A j, k \in DOMAIN entries : j < k => entries[j].time < entries[k].time
    /\ \A n \in DOMAIN log :
          log[n] \in T!Supported /\ (pc \in {"entries", "done"} \/ (pc = "lines" /\ n < i))
              => \E k \in DOMAIN entries : entries[k].time = n - 1 /\ entries[k].what = log[n]

\* What event k of the report was made of.
MadeFrom(k) ==
    /\ report[k].entry \in DOMAIN entries /\ report[k].entry < i
    /\ report[k].time = entries[report[k].entry].time

\* The events are those of the entries before the current one, one for each
\* that is an operation, and copies of them.
TEvents ==
    /\ Len(report) < i
    /\ pc # "lines" => Len(report) <= Len(entries) /\ (pc = "entries" => i <= Len(entries) + 1)
    /\ \A k \in DOMAIN report : MadeFrom(k)
    /\ \A j, k \in DOMAIN report :
          j < k => /\ report[j].time <= report[k].time
                   /\ report[k].event # "REQUIRED_FLUSH" => report[j].time < report[k].time
    /\ \A j \in DOMAIN entries :
          pc \in {"entries", "done"} /\ j < i /\ entries[j].what \in T!Supported
              => \E k \in DOMAIN report : report[k].entry = j /\ report[k].event = T!EventOf[entries[j].what]
    /\ pc = "done" => i > Len(entries)

TInv == TTypes /\ TEntries /\ TEvents

LEMMA EventsOf ==
    \A w \in T!Supported : T!EventOf[w] \in PMTestEvents /\ T!EventOf[w] # "REQUIRED_FLUSH"
BY DEF T!Supported, T!EventOf, PMTestEvents

LEMMA InitT ==
    ASSUME T!Init
    PROVE  TInv
<1>1. PICK whole \in PMTestLogs : \E n \in 0 .. Len(whole) : log = SubSeq(whole, 1, n)
  BY DEF T!Init
<1>2. PICK n \in 0 .. Len(whole) : log = SubSeq(whole, 1, n)
  BY <1>1
<1>3. whole \in Seq(T!Lines)
  BY <1>1, LogAssumption DEF T!LogsTyped
<1>4. log \in Seq(T!Lines)
  BY <1>2, <1>3
<1>5. i = 1 /\ entries = <<>> /\ report = <<>> /\ time = 0 /\ pc = "lines"
  BY DEF T!Init
<1>6. entries \in Seq(TEntry) /\ report \in Seq(TEvent) /\ DOMAIN entries = {} /\ DOMAIN report = {} /\ Len(report) = 0
  BY <1>5
<1>7. TTypes
  BY <1>4, <1>5, <1>6 DEF TTypes
<1>8. \A m \in DOMAIN log : ~(m < 1)
  BY <1>4
<1>9. TEntries
  BY <1>5, <1>6, <1>8 DEF TEntries
<1>10. TEvents
  BY <1>5, <1>6 DEF TEvents
<1>. QED BY <1>7, <1>9, <1>10 DEF TInv

\* The steps over lines.
LEMMA ReadEntryT ==
    ASSUME TInv, T!ReadEntry
    PROVE  TInv'
<1>. DEFINE N == Len(entries)
            e == [time |-> time, what |-> log[i], stack |-> FALSE]
<1>1. /\ TTypes /\ TEntries /\ TEvents /\ pc = "lines" /\ report = <<>> /\ time = i - 1 /\ i \in 1 .. Len(log)
      /\ i' = i + 1 /\ time' = time + 1 /\ entries' = Append(entries, e) /\ UNCHANGED <<log, report, pc>>
      /\ i \in Nat /\ Len(log) \in Nat /\ time \in Nat
  BY DEF TInv, TTypes, TEntries, T!ReadEntry, T!Reading
<1>2. e \in TEntry /\ e.time = time /\ e.what = log[i]
  BY <1>1 DEF TTypes, TEntry
<1>. HIDE DEF e
<1>3. /\ entries' \in Seq(TEntry) /\ N \in Nat /\ DOMAIN entries = 1 .. N /\ DOMAIN entries' = 1 .. N + 1
      /\ \A k \in 1 .. N : entries'[k] = entries[k]
      /\ entries'[N + 1] = e
  BY <1>1, <1>2 DEF TTypes
<1>4. \A k \in 1 .. N : entries[k].time \in Nat /\ entries[k].time < time
  <2>1. ASSUME NEW k \in 1 .. N PROVE entries[k].time \in Nat /\ entries[k].time < time
    <3>1. entries[k] \in TEntry
      BY <1>1, <1>3 DEF TTypes
    <3>. QED BY <1>1, <1>3, <3>1 DEF TEntries, TEntry
  <2>. QED BY <2>1
<1>5. TTypes'
  BY <1>1, <1>3 DEF TTypes
<1>6. \A k \in DOMAIN entries' : entries'[k].time < time'
  <2>1. ASSUME NEW k \in DOMAIN entries' PROVE entries'[k].time < time'
    <3>1. CASE k \in 1 .. N
      BY <1>1, <1>3, <1>4, <3>1
    <3>2. CASE k = N + 1
      BY <1>1, <1>2, <1>3, <3>2
    <3>. QED BY <1>3, <3>1, <3>2
  <2>. QED BY <2>1
<1>7. ASSUME NEW j \in DOMAIN entries', NEW k \in DOMAIN entries', j < k
      PROVE  entries'[j].time < entries'[k].time
  <2>1. j \in 1 .. N
    BY <1>3, <1>7
  <2>2. CASE k \in 1 .. N
    BY <1>1, <1>3, <1>7, <2>1, <2>2 DEF TEntries
  <2>3. CASE k = N + 1
    BY <1>2, <1>3, <1>4, <2>1, <2>3
  <2>. QED BY <1>3, <2>2, <2>3
<1>8. ASSUME NEW n \in DOMAIN log, log[n] \in T!Supported, n < i + 1
      PROVE  \E k \in DOMAIN entries' : entries'[k].time = n - 1 /\ entries'[k].what = log[n]
  <2>0. n \in Nat
    BY <1>1 DEF TTypes
  <2>1. CASE n < i
    <3>1. PICK k \in DOMAIN entries : entries[k].time = n - 1 /\ entries[k].what = log[n]
      BY <1>1, <1>8, <2>1 DEF TEntries
    <3>2. k \in DOMAIN entries' /\ entries'[k] = entries[k]
      BY <1>3
    <3>. QED BY <3>1, <3>2
  <2>2. CASE n = i
    <3>1. N + 1 \in DOMAIN entries' /\ entries'[N + 1].time = n - 1 /\ entries'[N + 1].what = log[n]
      BY <1>1, <1>2, <1>3, <2>2
    <3>. QED BY <3>1
  <2>. QED BY <1>1, <1>8, <2>0, <2>1, <2>2
<1>9. TEntries'
  <2>1. time' = i' - 1 /\ report' = <<>>
    BY <1>1
  <2>2. \A n \in DOMAIN log' :
          log'[n] \in T!Supported /\ (pc' \in {"entries", "done"} \/ (pc' = "lines" /\ n < i'))
              => \E k \in DOMAIN entries' : entries'[k].time = n - 1 /\ entries'[k].what = log'[n]
    BY <1>1, <1>8
  <2>. QED BY <1>6, <1>7, <2>1, <2>2 DEF TEntries
<1>10. TEvents'
  <2>1. DOMAIN report' = {} /\ Len(report') = 0
    BY <1>1
  <2>. QED BY <1>1, <2>1 DEF TEvents
<1>. QED BY <1>5, <1>9, <1>10 DEF TInv

\* A step on, over a line that is not an entry.
LEMMA OnT ==
    ASSUME TInv, T!Reading, log[i] \notin T!Supported, i' = i + 1, time' = time + 1, UNCHANGED <<log, report, pc>>,
           entries' \in Seq(TEntry), Len(entries') = Len(entries),
           \A k \in DOMAIN entries : entries'[k].time = entries[k].time /\ entries'[k].what = entries[k].what
    PROVE  TInv'
<1>1. /\ TTypes /\ TEntries /\ TEvents /\ pc = "lines" /\ report = <<>> /\ time = i - 1 /\ i \in 1 .. Len(log)
      /\ i \in Nat /\ Len(log) \in Nat /\ time \in Nat /\ DOMAIN entries' = DOMAIN entries
  BY DEF TInv, TTypes, TEntries, T!Reading
<1>2. TTypes'
  BY <1>1 DEF TTypes
<1>3. ASSUME NEW k \in DOMAIN entries
      PROVE  entries'[k].time < time'
  <2>1. entries[k] \in TEntry /\ entries[k].time < time
    BY <1>1 DEF TTypes, TEntries
  <2>2. entries[k].time \in Nat
    BY <2>1 DEF TEntry
  <2>. QED BY <1>1, <2>1, <2>2
<1>4. ASSUME NEW n \in DOMAIN log, log[n] \in T!Supported, n < i + 1
      PROVE  \E k \in DOMAIN entries' : entries'[k].time = n - 1 /\ entries'[k].what = log[n]
  <2>1. n \in Nat /\ n # i
    BY <1>1, <1>4 DEF TTypes
  <2>2. n < i
    BY <1>1, <1>4, <2>1
  <2>3. PICK k \in DOMAIN entries : entries[k].time = n - 1 /\ entries[k].what = log[n]
    BY <1>1, <1>4, <2>2 DEF TEntries
  <2>. QED BY <1>1, <2>3
<1>5. TEntries'
  <2>1. time' = i' - 1 /\ report' = <<>>
    BY <1>1
  <2>2. \A j, k \in DOMAIN entries' : j < k => entries'[j].time < entries'[k].time
    BY <1>1 DEF TEntries
  <2>3. \A n \in DOMAIN log' :
          log'[n] \in T!Supported /\ (pc' \in {"entries", "done"} \/ (pc' = "lines" /\ n < i'))
              => \E k \in DOMAIN entries' : entries'[k].time = n - 1 /\ entries'[k].what = log'[n]
    BY <1>1, <1>4
  <2>. QED BY <1>1, <1>3, <2>1, <2>2, <2>3 DEF TEntries
<1>6. TEvents'
  <2>1. DOMAIN report' = {} /\ Len(report') = 0
    BY <1>1
  <2>. QED BY <1>1, <2>1 DEF TEvents
<1>. QED BY <1>2, <1>5, <1>6 DEF TInv

LEMMA OverT ==
    ASSUME TInv, T!ReadStack \/ T!SkipWords
    PROVE  TInv'
<1>1. /\ T!Reading /\ log[i] \in {"stack", "words"} /\ i' = i + 1 /\ time' = time + 1 /\ UNCHANGED <<log, report, pc>>
      /\ entries \in Seq(TEntry)
  BY DEF TInv, TTypes, T!ReadStack, T!SkipWords
<1>2. log[i] \notin T!Supported
  BY <1>1 DEF T!Supported, T!EventOf
<1>3. /\ entries' \in Seq(TEntry) /\ Len(entries') = Len(entries)
      /\ \A k \in DOMAIN entries : entries'[k].time = entries[k].time /\ entries'[k].what = entries[k].what
  <2>1. CASE T!SkipWords
    BY <1>1, <2>1 DEF T!SkipWords
  <2>2. CASE T!ReadStack
    <3>. DEFINE N == Len(entries)
    <3>1. entries # <<>> /\ entries' = [entries EXCEPT ![N] = [entries[N] EXCEPT !.stack = TRUE]]
      BY <2>2 DEF T!ReadStack
    <3>2. N \in DOMAIN entries /\ entries[N] \in TEntry
      BY <1>1, <3>1
    <3>3. /\ [entries[N] EXCEPT !.stack = TRUE] \in TEntry
          /\ [entries[N] EXCEPT !.stack = TRUE].time = entries[N].time
          /\ [entries[N] EXCEPT !.stack = TRUE].what = entries[N].what
      BY <3>2 DEF TEntry
    <3>. DEFINE x == [entries[N] EXCEPT !.stack = TRUE]
    <3>4. entries' = [entries EXCEPT ![N] = x] /\ x \in TEntry /\ x.time = entries[N].time /\ x.what = entries[N].what
      BY <3>1, <3>3
    <3>. HIDE DEF x
    <3>5. entries' \in Seq(TEntry) /\ Len(entries') = N /\ \A k \in DOMAIN entries : entries'[k] = IF k = N THEN x ELSE entries[k]
      BY <1>1, <3>2, <3>4
    <3>. QED BY <3>4, <3>5
  <2>. QED BY <2>1, <2>2
<1>. QED BY <1>1, <1>2, <1>3, OnT

\* The steps between the passes and to the end.
LEMMA EndLinesT ==
    ASSUME TInv, T!EndLines
    PROVE  TInv'
<1>1. /\ TTypes /\ TEntries /\ TEvents /\ pc = "lines" /\ report = <<>> /\ i > Len(log)
      /\ pc' = "entries" /\ i' = 1 /\ UNCHANGED <<log, entries, report, time>> /\ i \in Nat /\ Len(log) \in Nat
      /\ Len(entries) \in Nat /\ \A k \in DOMAIN entries : k \in Nat /\ k >= 1
  BY DEF TInv, TTypes, TEntries, T!EndLines
<1>2. TTypes'
  BY <1>1 DEF TTypes
<1>3. \A n \in DOMAIN log : n < i
  BY <1>1 DEF TTypes
<1>4. TEntries'
  <2>1. \A n \in DOMAIN log :
          log[n] \in T!Supported => \E k \in DOMAIN entries : entries[k].time = n - 1 /\ entries[k].what = log[n]
    BY <1>1, <1>3 DEF TEntries
  <2>2. \A j, k \in DOMAIN entries : j < k => entries[j].time < entries[k].time
    BY <1>1 DEF TEntries
  <2>. QED BY <1>1, <2>1, <2>2 DEF TEntries
<1>5. TEvents'
  <2>1. DOMAIN report' = {} /\ Len(report') = 0 /\ \A j \in DOMAIN entries : ~(j < 1)
    BY <1>1
  <2>. QED BY <1>1, <2>1 DEF TEvents
<1>. QED BY <1>2, <1>4, <1>5 DEF TInv

LEMMA StopT ==
    ASSUME TInv, T!Fail \/ T!Finish
    PROVE  TInv'
<1>1. /\ TTypes /\ TEntries /\ TEvents /\ UNCHANGED <<log, i, entries, report, time>> /\ pc' \in {"done", "abort"}
      /\ pc' = "done" => pc = "entries" /\ i > Len(entries)
  BY DEF TInv, T!Fail, T!Finish
<1>2. TTypes'
  BY <1>1 DEF TTypes
<1>3. TEntries'
  BY <1>1 DEF TEntries
<1>4. \A k : MadeFrom(k)' <=> MadeFrom(k)
  BY <1>1 DEF MadeFrom
<1>5. Len(report) <= Len(entries)
  <2>1. pc = "lines" => Len(report) = 0 /\ Len(entries) \in Nat
    BY <1>1 DEF TEntries, TTypes
  <2>. QED BY <1>1, <2>1 DEF TEvents
<1>6. TEvents'
  BY <1>1, <1>4, <1>5 DEF TEvents
<1>. QED BY <1>2, <1>3, <1>6 DEF TInv

\* The steps of the second pass: the report then has the event of entry j.
WillHave(j) ==
    \E k \in DOMAIN report' : report'[k].entry = j /\ report'[k].event = T!EventOf[entries[j].what]

\* A step that gives the current entry event e, of this time.
Gives(e) ==
    /\ report' = Append(report, e) /\ e \in TEvent /\ e.entry <= i
    /\ e.entry \in DOMAIN entries /\ e.time = entries[e.entry].time
    /\ \A k \in DOMAIN report : /\ report[k].time <= e.time
                                /\ e.event # "REQUIRED_FLUSH" => report[k].time < e.time

\* What the steps to the next entry have in common.
Makes ==
    /\ T!Making /\ i' = i + 1 /\ UNCHANGED <<log, entries, time, pc>>
    /\ UNCHANGED report \/ \E e : Gives(e)
    /\ entries[i].what \in T!Supported => WillHave(i)

LEMMA MakingTyped ==
    ASSUME TInv, T!Making
    PROVE  /\ TTypes /\ TEntries /\ TEvents /\ pc = "entries"
           /\ i \in Nat /\ i \in DOMAIN entries /\ entries[i] \in TEntry /\ Len(entries) \in Nat
           /\ Len(report) \in Nat /\ Len(report) < i
           /\ DOMAIN report = 1 .. Len(report) /\ DOMAIN entries = 1 .. Len(entries)
           /\ \A k \in DOMAIN report : report[k] \in TEvent /\ report[k].time \in Nat /\ report[k].entry \in Nat
<1>1. TTypes /\ TEntries /\ TEvents /\ pc = "entries" /\ i <= Len(entries)
  BY DEF TInv, T!Making
<1>2. i \in Nat /\ i >= 1 /\ entries \in Seq(TEntry) /\ report \in Seq(TEvent)
  BY <1>1 DEF TTypes
<1>3. Len(report) < i
  BY <1>1 DEF TEvents
<1>4. \A k \in DOMAIN report : report[k] \in TEvent
  BY <1>2
<1>5. \A k \in DOMAIN report : report[k].time \in Nat /\ report[k].entry \in Nat
  BY <1>4 DEF TEvent
<1>. QED BY <1>1, <1>2, <1>3, <1>4, <1>5

LEMMA MakeT ==
    ASSUME TInv, Makes
    PROVE  TInv'
<1>. DEFINE R == Len(report)
<1>1. /\ TTypes /\ TEntries /\ TEvents /\ pc = "entries" /\ i \in Nat /\ i \in 1 .. Len(entries) /\ Len(entries) \in Nat
      /\ R \in Nat /\ R < i /\ DOMAIN report = 1 .. R /\ DOMAIN entries = 1 .. Len(entries)
      /\ \A k \in 1 .. R : report[k].time \in Nat /\ report[k].entry \in Nat
  BY MakingTyped DEF Makes
<1>2. i' = i + 1 /\ UNCHANGED <<log, entries, time, pc>>
  BY DEF Makes
<1>3. /\ report' \in Seq(TEvent) /\ \A k \in 1 .. R : report'[k] = report[k]
      /\ \/ Len(report') = R /\ DOMAIN report' = 1 .. R
         \/ Len(report') = R + 1 /\ DOMAIN report' = 1 .. R + 1 /\ Gives(report'[R + 1])
  <2>1. CASE UNCHANGED report
    BY <1>1, <2>1 DEF TTypes
  <2>2. ASSUME NEW e, Gives(e)
        PROVE  /\ report' \in Seq(TEvent) /\ DOMAIN report' = 1 .. R + 1
               /\ \A k \in 1 .. R : report'[k] = report[k]
               /\ Len(report') = R + 1 /\ Gives(report'[R + 1])
    <3>1. report' = Append(report, e) /\ e \in TEvent /\ report \in Seq(TEvent)
      BY <1>1, <2>2 DEF Gives, TTypes
    <3>2. /\ report' \in Seq(TEvent) /\ Len(report') = R + 1 /\ DOMAIN report' = 1 .. R + 1
          /\ \A k \in 1 .. R : report'[k] = report[k]
          /\ report'[R + 1] = e
      BY <1>1, <3>1
    <3>. QED BY <1>1, <2>2, <3>2
  <2>. QED BY <2>1, <2>2 DEF Makes
<1>. HIDE DEF R
<1>3a. \A k \in DOMAIN report' : k \in 1 .. R \/ (k = R + 1 /\ Len(report') = R + 1)
  <2>1. \A k \in 1 .. R + 1 : k \in 1 .. R \/ k = R + 1
    BY <1>1
  <2>. QED BY <1>3, <2>1
<1>3b. 1 .. R \subseteq DOMAIN report'
  <2>1. 1 .. R \subseteq 1 .. R + 1
    BY <1>1
  <2>. QED BY <1>3, <2>1
<1>4. TTypes'
  <2>1. log' \in Seq(T!Lines) /\ i' \in Nat \ {0} /\ time' \in Nat /\ entries' \in Seq(TEntry) /\ pc' = pc
    BY <1>1, <1>2 DEF TTypes
  <2>2. report' \in Seq(TEvent)
    BY <1>3
  <2>. QED BY <1>1, <2>1, <2>2 DEF TTypes
<1>5. TEntries'
  <2>1. \A n \in DOMAIN log : log[n] \in T!Supported
            => \E k \in DOMAIN entries : entries[k].time = n - 1 /\ entries[k].what = log[n]
    BY <1>1 DEF TEntries
  <2>2. \A j, k \in DOMAIN entries : j < k => entries[j].time < entries[k].time
    BY <1>1 DEF TEntries
  <2>. QED BY <1>1, <1>2, <2>1, <2>2 DEF TEntries
<1>6. ASSUME NEW k \in DOMAIN report'
      PROVE  MadeFrom(k)'
  <2>1. CASE k \in 1 .. R
    <3>1. MadeFrom(k)
      BY <1>1, <2>1 DEF TEvents
    <3>2. report[k].entry \in Nat /\ report'[k] = report[k]
      BY <1>1, <1>3, <2>1
    <3>3. report'[k].entry < i + 1
      BY <1>1, <3>1, <3>2 DEF MadeFrom
    <3>. QED BY <1>2, <3>1, <3>2, <3>3 DEF MadeFrom
  <2>2. CASE k = R + 1 /\ Len(report') = R + 1
    <3>1. Gives(report'[k])
      BY <1>3, <2>2
    <3>2. /\ report'[k].entry <= i /\ report'[k].entry \in 1 .. Len(entries)
          /\ report'[k].time = entries[report'[k].entry].time
      BY <1>1, <3>1 DEF Gives
    <3>. QED BY <1>1, <1>2, <3>2 DEF MadeFrom
  <2>. QED BY <1>3a, <2>1, <2>2
<1>7. ASSUME NEW j \in DOMAIN report', NEW k \in DOMAIN report', j < k
      PROVE  /\ report'[j].time <= report'[k].time
             /\ report'[k].event # "REQUIRED_FLUSH" => report'[j].time < report'[k].time
  <2>1. j \in 1 .. R /\ (k \in 1 .. R \/ (k = R + 1 /\ Len(report') = R + 1))
    <3>1. j \in 1 .. R + 1 /\ k \in 1 .. R + 1 /\ R \in Nat
      BY <1>1, <1>3a
    <3>2. j \in 1 .. R
      BY <1>7, <3>1
    <3>. QED BY <1>3a, <3>2
  <2>2. CASE k \in 1 .. R
    <3>1. report'[j] = report[j] /\ report'[k] = report[k] /\ j \in DOMAIN report /\ k \in DOMAIN report
      BY <1>1, <1>3, <2>1, <2>2
    <3>. QED BY <1>1, <1>7, <3>1 DEF TEvents
  <2>3. CASE k = R + 1 /\ Len(report') = R + 1
    <3>1. Gives(report'[k]) /\ report'[j] = report[j] /\ j \in DOMAIN report
      BY <1>1, <1>3, <2>1, <2>3
    <3>. QED BY <3>1 DEF Gives
  <2>. QED BY <2>1, <2>2, <2>3
<1>8. ASSUME NEW j \in DOMAIN entries, j < i + 1, entries[j].what \in T!Supported
      PROVE  WillHave(j)
  <2>1. CASE j = i
    BY <1>8, <2>1 DEF Makes
  <2>2. CASE j < i
    <3>1. PICK k \in DOMAIN report : report[k].entry = j /\ report[k].event = T!EventOf[entries[j].what]
      BY <1>1, <1>8, <2>2 DEF TEvents
    <3>2. k \in 1 .. R
      BY <1>1
    <3>3. k \in DOMAIN report' /\ report'[k] = report[k]
      BY <1>3, <1>3b, <3>2
    <3>. QED BY <3>1, <3>3 DEF WillHave
  <2>. QED BY <1>1, <1>8, <2>1, <2>2
<1>9. TEvents'
  <2>1. Len(report') < i' /\ Len(report') <= Len(entries') /\ i' <= Len(entries') + 1 /\ pc' = "entries"
    <3>1. Len(report') = R \/ Len(report') = R + 1
      BY <1>3
    <3>2. i' = i + 1 /\ entries' = entries /\ pc' = pc
      BY <1>2
    <3>. QED BY <1>1, <3>1, <3>2
  <2>2. \A j \in DOMAIN entries' :
          pc' \in {"entries", "done"} /\ j < i' /\ entries'[j].what \in T!Supported
              => \E k \in DOMAIN report' : report'[k].entry = j /\ report'[k].event = T!EventOf[entries'[j].what]
    BY <1>2, <1>8 DEF WillHave
  <2>. QED BY <1>6, <1>7, <2>1, <2>2 DEF TEvents
<1>. QED BY <1>4, <1>5, <1>9 DEF TInv

LEMMA MakeEventT ==
    ASSUME TInv, T!MakeEvent
    PROVE  TInv'
<1>. DEFINE R == Len(report)
            e == [event |-> T!EventOf[entries[i].what], time |-> entries[i].time, bug |-> T!Fails, entry |-> i]
<1>1. /\ T!Making /\ entries[i].what \in T!Supported /\ report' = Append(report, e) /\ i' = i + 1
      /\ UNCHANGED <<log, entries, time, pc>>
  BY DEF T!MakeEvent, T!Entry
<1>2. /\ TTypes /\ TEntries /\ TEvents /\ i \in Nat /\ i \in DOMAIN entries /\ entries[i] \in TEntry /\ R \in Nat
      /\ DOMAIN report = 1 .. R /\ \A k \in DOMAIN report : report[k].time \in Nat /\ report[k].entry \in Nat
  BY <1>1, MakingTyped
<1>3. T!Fails \in BOOLEAN
  BY DEF T!Fails
<1>4. /\ e \in TEvent /\ e.event = T!EventOf[entries[i].what] /\ e.time = entries[i].time /\ e.entry = i
  BY <1>1, <1>2, <1>3, EventsOf DEF TEvent, TEntry
<1>. HIDE DEF e
<1>5. ASSUME NEW k \in DOMAIN report
      PROVE  report[k].time < e.time
  <2>1. MadeFrom(k)
    BY <1>2 DEF TEvents
  <2>2. report[k].entry \in DOMAIN entries /\ report[k].entry < i /\ report[k].time = entries[report[k].entry].time
    BY <2>1 DEF MadeFrom
  <2>. QED BY <1>2, <1>4, <2>2 DEF TEntries
<1>6. e.time \in Nat
  BY <1>2, <1>4 DEF TEntry
<1>7. Gives(e)
  BY <1>1, <1>2, <1>4, <1>5, <1>6 DEF Gives
<1>8. WillHave(i)
  <2>1. report' = Append(report, e) /\ report \in Seq(TEvent)
    BY <1>1, <1>2 DEF TTypes
  <2>2. R + 1 \in DOMAIN report' /\ report'[R + 1] = e
    BY <1>2, <2>1
  <2>3. \E k \in DOMAIN report' : report'[k].entry = i /\ report'[k].event = T!EventOf[entries[i].what]
    BY <1>1, <1>4, <2>2
  <2>. QED BY <2>3 DEF WillHave
<1>. QED BY <1>1, <1>7, <1>8, MakeT DEF Makes

LEMMA PassErrorT ==
    ASSUME TInv, T!PassError
    PROVE  TInv'
<1>1. T!Making /\ entries[i].what \in T!Errors /\ i' = i + 1 /\ UNCHANGED <<log, entries, report, time, pc>>
  BY DEF T!PassError, T!Entry
<1>2. entries[i].what \notin T!Supported
  BY <1>1 DEF T!Errors, T!Supported, T!EventOf
<1>. QED BY <1>1, <1>2, MakeT DEF Makes

\* The event that is copied is the last: there are less events than entries.
LEMMA MakeWarningT ==
    ASSUME TInv, T!MakeWarning
    PROVE  TInv'
<1>. DEFINE R == Len(report)
            e == [report[R] EXCEPT !.event = "REQUIRED_FLUSH", !.bug = TRUE]
<1>1. /\ T!Making /\ entries[i].what = T!Warning /\ i - 1 \in DOMAIN report /\ i' = i + 1
      /\ report' = Append(report, [report[i - 1] EXCEPT !.event = "REQUIRED_FLUSH", !.bug = TRUE])
      /\ UNCHANGED <<log, entries, time, pc>>
  BY DEF T!MakeWarning, T!Entry, T!Warned
<1>2. /\ TEvents /\ i \in Nat /\ R \in Nat /\ R < i /\ DOMAIN report = 1 .. R
      /\ \A k \in DOMAIN report : report[k] \in TEvent /\ report[k].time \in Nat /\ report[k].entry \in Nat
  BY <1>1, MakingTyped
<1>3. i - 1 = R /\ R \in DOMAIN report
  BY <1>1, <1>2
<1>4. report' = Append(report, e)
  BY <1>1, <1>3
<1>5. e \in TEvent /\ e.event = "REQUIRED_FLUSH" /\ e.time = report[R].time /\ e.entry = report[R].entry
  BY <1>2, <1>3 DEF TEvent, PMTestEvents
<1>. HIDE DEF e
<1>6. MadeFrom(R)
  BY <1>2, <1>3 DEF TEvents
<1>7. ASSUME NEW k \in DOMAIN report
      PROVE  report[k].time <= report[R].time
  <2>1. k < R \/ k = R
    BY <1>2
  <2>. QED BY <1>2, <1>3, <2>1 DEF TEvents
<1>8. Gives(e)
  BY <1>2, <1>3, <1>4, <1>5, <1>6, <1>7 DEF Gives, MadeFrom
<1>9. entries[i].what \notin T!Supported
  BY <1>1 DEF T!Warning, T!Supported, T!EventOf
<1>. QED BY <1>1, <1>8, <1>9, MakeT DEF Makes

LEMMA StutterT ==
    ASSUME TInv, UNCHANGED <<log, i, entries, report, time, pc>>
    PROVE  TInv'
<1>1. \A k : MadeFrom(k)' <=> MadeFrom(k)
  BY DEF MadeFrom
<1>2. TTypes' /\ TEntries'
  BY DEF TInv, TTypes, TEntries
<1>3. TEvents'
  BY <1>1 DEF TInv, TEvents
<1>. QED BY <1>2, <1>3 DEF TInv

LEMMA StepT ==
    ASSUME TInv, T!Next
    PROVE  TInv'
BY ReadEntryT, OverT, EndLinesT, MakeEventT, PassErrorT, MakeWarningT, StopT DEF T!Next

\* What is wanted of the report.
LEMMA ReportT ==
    ASSUME TInv, format = "pmtest"
    PROVE  TypeOK /\ TimesIncrease /\ OperationsRead
<1>1. TTypes /\ TEntries /\ TEvents
  BY DEF TInv
<1>2. Len(report) \in Nat /\ DOMAIN report = 1 .. Len(report) /\ Len(entries) \in Nat
  BY <1>1 DEF TTypes
<1>3. TypeOK
  <2>1. pc = "lines" => Len(report) = 0
    BY <1>1 DEF TEntries
  <2>2. Len(report) <= Len(entries)
    BY <1>1, <1>2, <2>1 DEF TEvents
  <2>. QED BY <1>1, <2>2 DEF TypeOK, TTypes, TEntry, TEvent
<1>4. TimesIncrease
  <2>1. ASSUME NEW k \in 2 .. Len(report)
        PROVE  \/ report[k - 1].time < report[k].time
               \/ report[k].event = "REQUIRED_FLUSH" /\ report[k - 1].time = report[k].time
    <3>1. k - 1 \in DOMAIN report /\ k \in DOMAIN report /\ k - 1 < k
      BY <1>2
    <3>2. report[k - 1] \in TEvent /\ report[k] \in TEvent
      BY <1>1, <3>1 DEF TTypes
    <3>3. report[k - 1].time \in Nat /\ report[k].time \in Nat
      BY <3>2 DEF TEvent
    <3>4. /\ report[k - 1].time <= report[k].time
          /\ report[k].event # "REQUIRED_FLUSH" => report[k - 1].time < report[k].time
      BY <1>1, <3>1 DEF TEvents
    <3>. QED BY <3>3, <3>4
  <2>. QED BY <2>1 DEF TimesIncrease
<1>5. ASSUME pc = "done", NEW n \in DOMAIN log, log[n] \in T!Supported
      PROVE  Cardinality(MadeAt(n - 1, T!EventOf[log[n]])) = 1
  <2>0. pc \in {"entries", "done"}
    BY <1>5
  <2>1. PICK j \in DOMAIN entries : entries[j].time = n - 1 /\ entries[j].what = log[n]
    BY <1>1, <1>5, <2>0 DEF TEntries
  <2>2. j < i
    BY <1>1, <1>5 DEF TEvents, TTypes
  <2>3. PICK k \in DOMAIN report : report[k].entry = j /\ report[k].event = T!EventOf[log[n]]
    BY <1>1, <1>5, <2>1, <2>2 DEF TEvents
  <2>4. MadeFrom(k)
    BY <1>1 DEF TEvents
  <2>5. k \in MadeAt(n - 1, T!EventOf[log[n]])
    BY <2>1, <2>3, <2>4 DEF MadeFrom, MadeAt
  <2>6. ASSUME NEW o \in MadeAt(n - 1, T!EventOf[log[n]]), o # k
        PROVE  FALSE
    <3>1. /\ o \in DOMAIN report /\ report[o].time = n - 1 /\ report[k].time = n - 1
          /\ report[o].event # "REQUIRED_FLUSH" /\ report[k].event # "REQUIRED_FLUSH"
      BY <1>5, <2>5, <2>6, EventsOf DEF MadeAt
    <3>2. o < k \/ k < o
      BY <1>2, <2>6, <3>1
    <3>3. n - 1 \in Int
      BY <1>1 DEF TTypes
    <3>. QED BY <1>1, <3>1, <3>2, <3>3 DEF TEvents
  <2>7. MadeAt(n - 1, T!EventOf[log[n]]) = {k}
    BY <2>5, <2>6
  <2>. QED BY <2>7, FS_Singleton
<1>6. OperationsRead
  BY <1>5 DEF OperationsRead, PMTestDone
<1>. QED BY <1>3, <1>4, <1>6

-----------------------------------------------------------------------------
(* PMTest: lines and entries.                                              *)

\* A stack trace follows line n, at the latest in line u.
StackBy(n, u) == \E m \in DOMAIN log : m <= u /\ Follows(n, m) /\ log[m] = "stack"

LineOf(k) == entries[k].time + 1
LinesDone == IF pc = "lines" THEN i - 1 ELSE Len(log)

\* The lines passed: each entry has its line and each line its entry, and the
\* stack trace that follows it.
TLines ==
    /\ \A k \in DOMAIN entries : /\ LineOf(k) \in DOMAIN log /\ LineOf(k) <= LinesDone /\ IsEntry(LineOf(k))
                                 /\ entries[k].what = log[LineOf(k)]
    /\ pc # "abort" =>
          /\ \A n \in DOMAIN log : n <= LinesDone =>
                /\ IsEntry(n) => \E k \in DOMAIN entries : LineOf(k) = n
                /\ log[n] # "word" /\ (log[n] = "stack" => ~Follows(0, n))
          /\ \A k \in DOMAIN entries : entries[k].stack <=> StackBy(LineOf(k), LinesDone)

\* The kinds of lines.
LEMMA Kinds ==
    /\ T!Supported \subseteq T!pmtest_events /\ T!Unsupported \subseteq T!pmtest_events \cup T!pmtest_errors
    /\ T!Errors \subseteq T!pmtest_errors /\ T!Warning \in T!pmtest_errors
    /\ T!pmtest_events \cap T!pmtest_errors = {} /\ T!Warning \notin T!Errors
    /\ T!pmtest_events \cup T!pmtest_errors = T!Supported \cup T!Unsupported \cup T!Errors \cup {T!Warning}
    /\ T!Supported \cap T!Unsupported = {} /\ T!Supported \cap T!Errors = {} /\ T!Unsupported \cap T!Errors = {}
    /\ T!Warning \notin T!Unsupported /\ T!Warning \notin T!Supported
    /\ DOMAIN T!ErrorOf \subseteq T!Supported /\ \A a \in DOMAIN T!ErrorOf : T!ErrorOf[a] \in T!Errors
    /\ {"stack", "words", "word"} \cap (T!pmtest_events \cup T!pmtest_errors) = {}
<1>1. T!Supported = {"_ASSIGN", "_FLUSH", "_FENCE", "_PERSIST", "_ORDER"} /\ DOMAIN T!ErrorOf = {"_PERSIST", "_ORDER"}
  BY DEF T!Supported, T!EventOf, T!ErrorOf
<1>2. \A a \in DOMAIN T!ErrorOf : T!ErrorOf[a] \in {"PERSIST ERROR", "ORDER ERROR"}
  <2>1. T!ErrorOf["_PERSIST"] = "PERSIST ERROR" /\ T!ErrorOf["_ORDER"] = "ORDER ERROR"
    BY DEF T!ErrorOf
  <2>. QED BY <1>1, <2>1
<1>3. /\ T!pmtest_events = T!Supported \cup {"_COMMIT"} /\ T!Unsupported = {"_COMMIT", "ASSIGN ERROR"}
      /\ T!pmtest_errors = {"PERSIST ERROR", "ORDER ERROR", "FLUSH WARNING", "ASSIGN ERROR"}
      /\ T!Errors = {"PERSIST ERROR", "ORDER ERROR"} /\ T!Warning = "FLUSH WARNING"
  BY DEF T!pmtest_events, T!pmtest_errors, T!Errors, T!Warning, T!Unsupported
<1>4. T!pmtest_events \cap T!pmtest_errors = {}
  BY <1>1, <1>3
<1>5. T!pmtest_events \cup T!pmtest_errors = T!Supported \cup T!Unsupported \cup T!Errors \cup {T!Warning}
  BY <1>3
<1>6. T!Supported \cap T!Unsupported = {} /\ T!Supported \cap T!Errors = {} /\ T!Unsupported \cap T!Errors = {}
  BY <1>1, <1>3
<1>7. {"stack", "words", "word"} \cap (T!pmtest_events \cup T!pmtest_errors) = {}
  BY <1>1, <1>3
<1>8. /\ T!Supported \subseteq T!pmtest_events /\ T!Unsupported \subseteq T!pmtest_events \cup T!pmtest_errors
      /\ T!Errors \subseteq T!pmtest_errors /\ T!Warning \in T!pmtest_errors
  BY <1>3
<1>9. T!Warning \notin T!Errors /\ T!Warning \notin T!Unsupported /\ T!Warning \notin T!Supported
  BY <1>1, <1>3
<1>. QED BY <1>1, <1>2, <1>3, <1>4, <1>5, <1>6, <1>7, <1>8, <1>9

\* The operations that have no address.
LEMMA Fences ==
    /\ {"_FENCE", "_ORDER"} \subseteq T!Supported
    /\ \A a \in T!Supported : T!EventOf[a] \in {"FENCE", "ASSERT_ORDERED"} <=> a \in {"_FENCE", "_ORDER"}
BY DEF T!Supported, T!EventOf

LEMMA EntryFacts ==
    ASSUME TInv
    PROVE  /\ Len(log) \in Nat /\ DOMAIN log = 1 .. Len(log) /\ Len(entries) \in Nat /\ DOMAIN entries = 1 .. Len(entries)
           /\ i \in Nat /\ i >= 1
           /\ \A k \in DOMAIN entries : entries[k] \in TEntry /\ entries[k].time \in Nat /\ LineOf(k) \in Nat
           /\ \A j, k \in DOMAIN entries : j < k => LineOf(j) < LineOf(k)
<1>1. log \in Seq(T!Lines) /\ entries \in Seq(TEntry) /\ i \in Nat \ {0}
  BY DEF TInv, TTypes
<1>2. \A k \in DOMAIN entries : entries[k] \in TEntry
  BY <1>1
<1>3. \A k \in DOMAIN entries : entries[k].time \in Nat
  BY <1>2 DEF TEntry
<1>4. \A j, k \in DOMAIN entries : j < k => entries[j].time < entries[k].time
  BY DEF TInv, TEntries
<1>. QED BY <1>1, <1>2, <1>3, <1>4 DEF LineOf

\* Entries are in the order of their lines.
LEMMA InOrder ==
    ASSUME TInv, NEW j \in DOMAIN entries, NEW k \in DOMAIN entries
    PROVE  /\ LineOf(j) < LineOf(k) <=> j < k
           /\ LineOf(j) = LineOf(k) => j = k
<1>1. j \in Nat /\ k \in Nat /\ LineOf(j) \in Nat /\ LineOf(k) \in Nat
  BY EntryFacts
<1>2. (j < k => LineOf(j) < LineOf(k)) /\ (k < j => LineOf(k) < LineOf(j))
  BY EntryFacts
<1>. QED BY <1>1, <1>2

\* When all lines are read, what follows an entry's line is the next one's.
LEMMA NextEntry ==
    ASSUME TInv, TLines, pc \in {"entries", "done"}, NEW j \in DOMAIN entries, NEW n \in DOMAIN log, IsEntry(n)
    PROVE  Follows(LineOf(j), n) <=> j + 1 \in DOMAIN entries /\ LineOf(j + 1) = n
<1>1. /\ LinesDone = Len(log) /\ Len(log) \in Nat /\ DOMAIN log = 1 .. Len(log) /\ j \in Nat /\ n \in Nat
      /\ Len(entries) \in Nat /\ DOMAIN entries = 1 .. Len(entries)
  BY EntryFacts DEF LinesDone
<1>2. \A m \in DOMAIN log : IsEntry(m) => \E k \in DOMAIN entries : LineOf(k) = m
  BY <1>1 DEF TLines
<1>3. ASSUME Follows(LineOf(j), n)
      PROVE  j + 1 \in DOMAIN entries /\ LineOf(j + 1) = n
  <2>1. PICK x \in DOMAIN entries : LineOf(x) = n
    BY <1>2
  <2>2. j < x
    BY <1>3, <2>1, InOrder DEF Follows
  <2>3. j + 1 \in DOMAIN entries
    BY <1>1, <2>2
  <2>4. CASE j + 1 = x
    BY <2>1, <2>3, <2>4
  <2>5. CASE j + 1 < x
    <3>1. LineOf(j) < LineOf(j + 1) /\ LineOf(j + 1) < n
      BY <1>1, <2>1, <2>3, <2>5, InOrder
    <3>2. LineOf(j) \in Nat /\ LineOf(j + 1) \in Nat
      BY <2>3, EntryFacts
    <3>3. LineOf(j + 1) \in LineOf(j) + 1 .. n - 1
      BY <1>1, <3>1, <3>2
    <3>4. IsEntry(LineOf(j + 1))
      BY <2>3 DEF TLines
    <3>. QED BY <1>3, <3>3, <3>4 DEF Follows
  <2>. QED BY <1>1, <2>2, <2>4, <2>5
<1>4. ASSUME j + 1 \in DOMAIN entries, LineOf(j + 1) = n
      PROVE  Follows(LineOf(j), n)
  <2>1. LineOf(j) < n /\ LineOf(j) \in Nat
    BY <1>1, <1>4, InOrder, EntryFacts
  <2>2. ASSUME NEW m \in LineOf(j) + 1 .. n - 1, IsEntry(m)
        PROVE  FALSE
    <3>1. m \in DOMAIN log /\ LineOf(j) < m /\ m < n
      BY <1>1, <2>1
    <3>2. PICK x \in DOMAIN entries : LineOf(x) = m
      BY <1>2, <2>2, <3>1
    <3>3. j < x /\ x < j + 1
      BY <1>4, <3>1, <3>2, InOrder
    <3>. QED BY <1>1, <3>2, <3>3
  <2>. QED BY <2>1, <2>2 DEF Follows
<1>. QED BY <1>3, <1>4

\* No entry is before the line of the first.
LEMMA FirstEntry ==
    ASSUME TInv, TLines, pc \in {"entries", "done"}, NEW j \in DOMAIN entries
    PROVE  Follows(0, LineOf(j)) <=> j = 1
<1>1. /\ LinesDone = Len(log) /\ Len(log) \in Nat /\ DOMAIN log = 1 .. Len(log) /\ j \in Nat /\ j >= 1
      /\ Len(entries) \in Nat /\ DOMAIN entries = 1 .. Len(entries) /\ LineOf(j) \in 1 .. Len(log)
  BY EntryFacts DEF LinesDone, TLines
<1>2. \A m \in DOMAIN log : IsEntry(m) => \E k \in DOMAIN entries : LineOf(k) = m
  BY <1>1 DEF TLines
<1>3. ASSUME j = 1
      PROVE  Follows(0, LineOf(j))
  <2>1. ASSUME NEW m \in 1 .. LineOf(j) - 1, IsEntry(m)
        PROVE  FALSE
    <3>1. m \in DOMAIN log /\ m < LineOf(j)
      BY <1>1
    <3>2. PICK x \in DOMAIN entries : LineOf(x) = m
      BY <1>2, <2>1, <3>1
    <3>3. x < j
      BY <3>1, <3>2, InOrder
    <3>. QED BY <1>1, <1>3, <3>2, <3>3
  <2>. QED BY <1>1, <2>1 DEF Follows
<1>4. ASSUME j # 1, Follows(0, LineOf(j))
      PROVE  FALSE
  <2>1. 1 \in DOMAIN entries /\ 1 < j
    BY <1>1, <1>4
  <2>2. LineOf(1) < LineOf(j) /\ IsEntry(LineOf(1)) /\ LineOf(1) \in 1 .. Len(log)
    BY <1>1, <2>1, InOrder DEF TLines
  <2>3. LineOf(1) \in 0 + 1 .. LineOf(j) - 1
    BY <1>1, <2>2
  <2>. QED BY <1>4, <2>2, <2>3 DEF Follows
<1>. QED BY <1>3, <1>4

-----------------------------------------------------------------------------
(* The first pass.                                                         *)

LEMMA InitLines ==
    ASSUME T!Init
    PROVE  TLines
<1>1. i = 1 /\ entries = <<>> /\ pc = "lines" /\ TInv
  BY InitT DEF T!Init
<1>2. \A n \in DOMAIN log : ~(n <= i - 1)
  BY <1>1, EntryFacts
<1>. QED BY <1>1, <1>2 DEF TLines, LinesDone

\* A line that is passed: what is known of those before.
LEMMA PassedLines ==
    ASSUME TInv, TLines, T!Reading, log' = log, i' = i + 1, pc' = pc
    PROVE  /\ i \in DOMAIN log /\ LinesDone = i - 1 /\ LinesDone' = i /\ i \in Nat
           /\ \A n \in DOMAIN log : n \in Nat /\ (n <= i <=> n <= i - 1 \/ n = i)
           /\ \A n, m : Follows(n, m)' <=> Follows(n, m)
           /\ \A n : IsEntry(n)' <=> IsEntry(n)
           /\ \A n, u : StackBy(n, u)' <=> StackBy(n, u)
           /\ \A n : StackBy(n, i) <=> StackBy(n, i - 1) \/ (Follows(n, i) /\ log[i] = "stack")
<1>1. i \in DOMAIN log /\ LinesDone = i - 1 /\ LinesDone' = i /\ i \in Nat
  BY EntryFacts DEF T!Reading, LinesDone
<1>2. \A n \in DOMAIN log : n \in Nat /\ (n <= i <=> n <= i - 1 \/ n = i)
  BY <1>1, EntryFacts
<1>3. \A n : IsEntry(n)' <=> IsEntry(n)
  BY DEF IsEntry
<1>4. \A n, m : Follows(n, m)' <=> Follows(n, m)
  BY <1>3 DEF Follows
<1>5. \A n, u : StackBy(n, u)' <=> StackBy(n, u)
  BY <1>4 DEF StackBy
<1>6. \A n : StackBy(n, i) <=> StackBy(n, i - 1) \/ (Follows(n, i) /\ log[i] = "stack")
  BY <1>1, <1>2 DEF StackBy
<1>. QED BY <1>1, <1>2, <1>3, <1>4, <1>5, <1>6

LEMMA ReadEntryLines ==
    ASSUME TInv, TLines, T!ReadEntry
    PROVE  TLines'
<1>. DEFINE e == [time |-> time, what |-> log[i], stack |-> FALSE]
<1>0. PICK N : N = Len(entries)
  OBVIOUS
<1>1. /\ T!Reading /\ pc = "lines" /\ pc' = pc /\ time = i - 1 /\ i' = i + 1 /\ log' = log
      /\ entries' = Append(entries, e) /\ IsEntry(i) /\ entries \in Seq(TEntry) /\ e \in TEntry
  BY EntryFacts DEF T!ReadEntry, T!Reading, TInv, TEntries, TTypes, IsEntry, TEntry
<1>2. /\ i \in DOMAIN log /\ LinesDone = i - 1 /\ LinesDone' = i /\ i \in Nat
      /\ \A n \in DOMAIN log : n \in Nat /\ (n <= i <=> n <= i - 1 \/ n = i)
      /\ \A n, m : Follows(n, m)' <=> Follows(n, m)
      /\ \A n : IsEntry(n)' <=> IsEntry(n)
      /\ \A n, u : StackBy(n, u)' <=> StackBy(n, u)
      /\ \A n : StackBy(n, i) <=> StackBy(n, i - 1) \/ (Follows(n, i) /\ log[i] = "stack")
  BY <1>1, PassedLines
<1>3. e.time = i - 1 /\ e.what = log[i] /\ e.stack = FALSE
  BY <1>1
<1>. HIDE DEF e
<1>4. /\ DOMAIN entries' = 1 .. N + 1 /\ DOMAIN entries = 1 .. N /\ N \in Nat
      /\ \A k \in DOMAIN entries : k \in DOMAIN entries' /\ entries'[k] = entries[k]
      /\ N + 1 \in DOMAIN entries' /\ entries'[N + 1] = e
      /\ \A k \in DOMAIN entries' : k \in DOMAIN entries \/ k = N + 1
  BY <1>0, <1>1
<1>5. /\ \A k \in DOMAIN entries : LineOf(k)' = LineOf(k) /\ LineOf(k) \in Nat
      /\ LineOf(N + 1)' = i
  BY <1>2, <1>3, <1>4, EntryFacts DEF LineOf
<1>6. log[i] \notin {"stack", "words", "word"}
  BY <1>1, Kinds DEF IsEntry
<1>7. ASSUME NEW k \in DOMAIN entries'
      PROVE  /\ LineOf(k)' \in DOMAIN log' /\ LineOf(k)' <= LinesDone' /\ IsEntry(LineOf(k))'
             /\ entries'[k].what = log'[LineOf(k)']
  <2>1. CASE k \in DOMAIN entries
    <3>1. /\ LineOf(k) \in DOMAIN log /\ LineOf(k) <= i - 1 /\ IsEntry(LineOf(k)) /\ entries[k].what = log[LineOf(k)]
      BY <1>2, <2>1 DEF TLines
    <3>2. LineOf(k) <= i
      BY <1>2, <1>5, <2>1, <3>1
    <3>. QED BY <1>1, <1>2, <1>4, <1>5, <2>1, <3>1, <3>2 DEF IsEntry
  <2>2. CASE k = N + 1
    BY <1>1, <1>2, <1>3, <1>4, <1>5, <2>2 DEF IsEntry
  <2>. QED BY <1>4, <2>1, <2>2
<1>8. ASSUME NEW n \in DOMAIN log, n <= i
      PROVE  /\ IsEntry(n) => \E k \in DOMAIN entries' : LineOf(k)' = n
             /\ log[n] # "word" /\ (log[n] = "stack" => ~Follows(0, n))
  <2>1. CASE n <= i - 1
    <3>1. /\ IsEntry(n) => \E k \in DOMAIN entries : LineOf(k) = n
          /\ log[n] # "word" /\ (log[n] = "stack" => ~Follows(0, n))
      BY <1>1, <1>2, <2>1 DEF TLines
    <3>. QED BY <1>4, <1>5, <3>1
  <2>2. CASE n = i
    BY <1>4, <1>5, <1>6, <2>2
  <2>. QED BY <1>2, <1>8, <2>1, <2>2
<1>9. ASSUME NEW k \in DOMAIN entries'
      PROVE  entries'[k].stack <=> StackBy(LineOf(k)', i)
  <2>1. CASE k \in DOMAIN entries
    <3>1. entries[k].stack <=> StackBy(LineOf(k), i - 1)
      BY <1>1, <1>2, <2>1 DEF TLines
    <3>. QED BY <1>2, <1>4, <1>5, <1>6, <2>1, <3>1
  <2>2. CASE k = N + 1
    <3>1. ~StackBy(i, i)
      BY <1>2 DEF StackBy, Follows
    <3>. QED BY <1>3, <1>4, <1>5, <2>2, <3>1
  <2>. QED BY <1>4, <2>1, <2>2
<1>10. \A k \in DOMAIN entries' : entries'[k].stack <=> StackBy(LineOf(k), LinesDone)'
  BY <1>1, <1>2, <1>9 DEF StackBy, Follows, IsEntry
<1>11. \A n \in DOMAIN log' : n <= LinesDone' =>
          /\ IsEntry(n)' => \E k \in DOMAIN entries' : LineOf(k)' = n
          /\ log'[n] # "word" /\ (log'[n] = "stack" => ~Follows(0, n)')
  BY <1>1, <1>2, <1>8
<1>. QED BY <1>7, <1>10, <1>11 DEF TLines

\* What follows the line of an entry goes with the last of them.
LEMMA LastEntry ==
    ASSUME TInv, TLines, T!Reading, NEW k \in DOMAIN entries
    PROVE  /\ Follows(LineOf(k), i) <=> k = Len(entries)
           /\ ~Follows(0, i)
<1>1. /\ i \in DOMAIN log /\ LinesDone = i - 1 /\ i \in Nat /\ pc # "abort" /\ DOMAIN log = 1 .. Len(log) /\ Len(log) \in Nat
      /\ k \in Nat /\ Len(entries) \in Nat /\ DOMAIN entries = 1 .. Len(entries) /\ k \in 1 .. Len(entries)
  BY EntryFacts DEF T!Reading, LinesDone
<1>2. \A x \in DOMAIN entries : LineOf(x) \in 1 .. i - 1 /\ IsEntry(LineOf(x))
  BY <1>1, EntryFacts DEF TLines
<1>3. ASSUME k # Len(entries), Follows(LineOf(k), i)
      PROVE  FALSE
  <2>1. Len(entries) \in DOMAIN entries /\ k < Len(entries)
    BY <1>1, <1>3
  <2>2. LineOf(k) < LineOf(Len(entries)) /\ LineOf(k) \in Nat /\ LineOf(Len(entries)) \in 1 .. i - 1
    BY <1>2, <2>1, InOrder
  <2>3. LineOf(Len(entries)) \in LineOf(k) + 1 .. i - 1
    BY <1>1, <2>2
  <2>. QED BY <1>2, <1>3, <2>1, <2>3 DEF Follows
<1>4. ASSUME k = Len(entries)
      PROVE  Follows(LineOf(k), i)
  <2>1. ASSUME NEW m \in LineOf(k) + 1 .. i - 1, IsEntry(m)
        PROVE  FALSE
    <3>1. m \in DOMAIN log /\ m <= i - 1 /\ LineOf(k) < m
      BY <1>1, <1>2
    <3>2. PICK x \in DOMAIN entries : LineOf(x) = m
      BY <1>1, <2>1, <3>1 DEF TLines
    <3>3. k < x /\ x \in 1 .. Len(entries)
      BY <1>1, <3>1, <3>2, InOrder
    <3>. QED BY <1>1, <1>4, <3>3
  <2>2. LineOf(k) < i
    BY <1>1, <1>2
  <2>. QED BY <2>1, <2>2 DEF Follows
<1>5. LineOf(k) \in 0 + 1 .. i - 1 /\ IsEntry(LineOf(k))
  BY <1>2
<1>. QED BY <1>3, <1>4, <1>5 DEF Follows

\* A line that is no entry is passed, with the stack trace that it may be.
LEMMA OnLines ==
    ASSUME TInv, TLines, T!Reading, log' = log, i' = i + 1, pc' = pc, log[i] \in {"stack", "words"},
           DOMAIN entries' = DOMAIN entries, log[i] = "stack" => entries # <<>>,
           \A k \in DOMAIN entries : /\ entries'[k].time = entries[k].time /\ entries'[k].what = entries[k].what
                                     /\ entries'[k].stack <=> entries[k].stack \/ (log[i] = "stack" /\ k = Len(entries))
    PROVE  TLines'
<1>1. pc = "lines" /\ ~IsEntry(i) /\ log[i] # "word"
  BY Kinds DEF T!Reading, IsEntry
<1>2. /\ i \in DOMAIN log /\ LinesDone = i - 1 /\ LinesDone' = i /\ i \in Nat
      /\ \A n \in DOMAIN log : n \in Nat /\ (n <= i <=> n <= i - 1 \/ n = i)
      /\ \A n, m : Follows(n, m)' <=> Follows(n, m)
      /\ \A n : IsEntry(n)' <=> IsEntry(n)
      /\ \A n, u : StackBy(n, u)' <=> StackBy(n, u)
      /\ \A n : StackBy(n, i) <=> StackBy(n, i - 1) \/ (Follows(n, i) /\ log[i] = "stack")
  BY PassedLines
<1>3. \A k \in DOMAIN entries : LineOf(k)' = LineOf(k) /\ LineOf(k) \in Nat
  BY EntryFacts DEF LineOf
<1>4. ASSUME NEW k \in DOMAIN entries
      PROVE  /\ LineOf(k) \in DOMAIN log /\ LineOf(k) <= i /\ IsEntry(LineOf(k))
             /\ entries'[k].what = log[LineOf(k)]
             /\ entries'[k].stack <=> StackBy(LineOf(k), i)
  <2>1. /\ LineOf(k) \in DOMAIN log /\ LineOf(k) <= i - 1 /\ IsEntry(LineOf(k)) /\ entries[k].what = log[LineOf(k)]
        /\ entries[k].stack <=> StackBy(LineOf(k), i - 1)
    BY <1>1, <1>2 DEF TLines
  <2>2. Follows(LineOf(k), i) <=> k = Len(entries)
    BY LastEntry
  <2>. QED BY <1>2, <1>3, <2>1, <2>2
<1>5. ASSUME NEW n \in DOMAIN log, n <= i
      PROVE  /\ IsEntry(n) => \E k \in DOMAIN entries : LineOf(k) = n
             /\ log[n] # "word" /\ (log[n] = "stack" => ~Follows(0, n))
  <2>1. CASE n <= i - 1
    BY <1>1, <1>2, <2>1 DEF TLines
  <2>2. CASE n = i
    <3>1. log[i] = "stack" => \E k : k \in DOMAIN entries
      <4>1. entries # <<>> => 1 \in DOMAIN entries
        BY DEF TInv, TTypes
      <4>. QED BY <4>1
    <3>2. log[i] = "stack" => ~Follows(0, i)
      BY <3>1, LastEntry
    <3>. QED BY <1>1, <2>2, <3>2
  <2>. QED BY <1>2, <1>5, <2>1, <2>2
<1>6. \A k \in DOMAIN entries' : /\ LineOf(k)' \in DOMAIN log' /\ LineOf(k)' <= LinesDone' /\ IsEntry(LineOf(k))'
                                 /\ entries'[k].what = log'[LineOf(k)']
                                 /\ entries'[k].stack <=> StackBy(LineOf(k), LinesDone)'
  <2>1. \A k \in DOMAIN entries : /\ IsEntry(LineOf(k))' <=> IsEntry(LineOf(k))
                                  /\ StackBy(LineOf(k), LinesDone)' <=> StackBy(LineOf(k), i)
    BY <1>2, <1>3 DEF IsEntry, StackBy, Follows
  <2>. QED BY <1>2, <1>3, <1>4, <2>1
<1>7. \A n \in DOMAIN log' : n <= LinesDone' =>
          /\ IsEntry(n)' => \E k \in DOMAIN entries' : LineOf(k)' = n
          /\ log'[n] # "word" /\ (log'[n] = "stack" => ~Follows(0, n)')
  BY <1>2, <1>3, <1>5
<1>. QED BY <1>6, <1>7 DEF TLines

LEMMA OverLines ==
    ASSUME TInv, TLines, T!ReadStack \/ T!SkipWords
    PROVE  TLines'
<1>1. /\ T!Reading /\ log' = log /\ i' = i + 1 /\ pc' = pc /\ log[i] \in {"stack", "words"} /\ entries \in Seq(TEntry)
      /\ log[i] = "stack" => entries # <<>>
  BY DEF T!ReadStack, T!SkipWords, TInv, TTypes
<1>2. CASE T!SkipWords
  <2>1. entries' = entries /\ log[i] # "stack"
    BY <1>2 DEF T!SkipWords
  <2>. QED BY <1>1, <2>1, OnLines
<1>3. CASE T!ReadStack
  <2>1. PICK N : N = Len(entries)
    OBVIOUS
  <2>2. log[i] = "stack" /\ entries # <<>> /\ entries' = [entries EXCEPT ![N] = [entries[N] EXCEPT !.stack = TRUE]]
    BY <1>3, <2>1 DEF T!ReadStack
  <2>3. N \in DOMAIN entries /\ entries[N] \in TEntry
    BY <1>1, <2>1, <2>2
  <2>4. PICK x : x = [entries[N] EXCEPT !.stack = TRUE]
    OBVIOUS
  <2>5. x.time = entries[N].time /\ x.what = entries[N].what /\ x.stack = TRUE
    BY <2>3, <2>4 DEF TEntry
  <2>6. DOMAIN entries' = DOMAIN entries /\ \A k \in DOMAIN entries : entries'[k] = IF k = N THEN x ELSE entries[k]
    BY <1>1, <2>2, <2>3, <2>4
  <2>. QED BY <1>1, <2>1, <2>2, <2>5, <2>6, OnLines
<1>. QED BY <1>2, <1>3

\* The steps that pass no line.
LEMMA StillLines ==
    ASSUME TInv, TLines, UNCHANGED <<log, entries>>,
           \/ pc' = pc /\ i' = i
           \/ pc' = "abort"
           \/ pc = "lines" /\ i > Len(log) /\ pc' = "entries"
           \/ pc = "entries" /\ pc' \in {"entries", "done"}
    PROVE  TLines'
<1>1. /\ \A k : LineOf(k)' = LineOf(k)
      /\ \A n : IsEntry(n)' <=> IsEntry(n)
      /\ \A n, m : Follows(n, m)' <=> Follows(n, m)
      /\ \A n, u : StackBy(n, u)' <=> StackBy(n, u)
  BY DEF LineOf, IsEntry, Follows, StackBy
<1>2. Len(log) \in Nat /\ DOMAIN log = 1 .. Len(log) /\ i \in Nat
  BY EntryFacts
<1>3. CASE LinesDone' = LinesDone /\ (pc = "abort" => pc' = "abort")
  BY <1>1, <1>3 DEF TLines
<1>4. CASE pc' = "abort"
  <2>1. LinesDone' = Len(log)
    BY <1>4 DEF LinesDone
  <2>2. \A k \in DOMAIN entries : LineOf(k) <= Len(log)
    BY <1>2 DEF TLines
  <2>. QED BY <1>1, <1>4, <2>1, <2>2 DEF TLines
<1>5. CASE pc = "lines" /\ i > Len(log) /\ pc' = "entries"
  <2>1. LinesDone' = Len(log) /\ LinesDone = i - 1
    BY <1>5 DEF LinesDone
  <2>2. \A n \in DOMAIN log : n <= Len(log) /\ n <= i - 1
    BY <1>2, <1>5
  <2>3. \A n : StackBy(n, i - 1) <=> StackBy(n, Len(log))
    BY <2>2 DEF StackBy
  <2>4. \A k \in DOMAIN entries : LineOf(k) <= Len(log)
    BY <2>2 DEF TLines
  <2>5. \A k \in DOMAIN entries' : /\ LineOf(k)' \in DOMAIN log' /\ LineOf(k)' <= LinesDone' /\ IsEntry(LineOf(k))'
                                   /\ entries'[k].what = log'[LineOf(k)']
                                   /\ entries'[k].stack <=> StackBy(LineOf(k), LinesDone)'
    <3>1. \A k \in DOMAIN entries : entries[k].stack <=> StackBy(LineOf(k), Len(log))
      BY <1>5, <2>1, <2>3 DEF TLines
    <3>2. \A k : /\ IsEntry(LineOf(k))' <=> IsEntry(LineOf(k))
                 /\ StackBy(LineOf(k), LinesDone)' <=> StackBy(LineOf(k), Len(log))
      BY <1>1, <2>1 DEF IsEntry, StackBy, Follows
    <3>. QED BY <1>1, <2>1, <2>4, <3>1, <3>2 DEF TLines
  <2>6. \A n \in DOMAIN log' : n <= LinesDone' =>
          /\ IsEntry(n)' => \E k \in DOMAIN entries' : LineOf(k)' = n
          /\ log'[n] # "word" /\ (log'[n] = "stack" => ~Follows(0, n)')
    BY <1>1, <1>5, <2>1, <2>2 DEF TLines
  <2>. QED BY <2>5, <2>6 DEF TLines
<1>6. CASE pc' = pc /\ i' = i
  <2>1. LinesDone' = LinesDone
    BY <1>6 DEF LinesDone
  <2>. QED BY <1>3, <1>6, <2>1
<1>7. CASE pc = "entries" /\ pc' \in {"entries", "done"}
  <2>1. LinesDone' = LinesDone
    BY <1>7 DEF LinesDone
  <2>. QED BY <1>3, <1>7, <2>1
<1>. QED BY <1>4, <1>5, <1>6, <1>7

-----------------------------------------------------------------------------
(* The second pass.                                                        *)

HasError(n) == \E k \in DOMAIN entries : k < n /\ entries[k].what \in T!Errors

\* What the reader needs of an entry to go on.
Passed(j) ==
    /\ entries[j].what \notin T!Unsupported
    /\ entries[j].what \in T!Supported => entries[j].stack
    /\ entries[j].what = T!Warning => j > 1 /\ ~HasError(j) /\ entries[j - 1].what \notin {"_FENCE", "_ORDER"}

FailsAt(j) ==
    /\ entries[j].what \in DOMAIN T!ErrorOf
    /\ j < Len(entries) /\ entries[j + 1].what = T!ErrorOf[entries[j].what]

\* The event of entry j.
EventIs(e, j) ==
    /\ entries[j].what \in T!Supported =>
          e.time = entries[j].time /\ e.event = T!EventOf[entries[j].what] /\ (e.bug <=> FailsAt(j))
    /\ entries[j].what = T!Warning =>
          e.time + 1 = OperationBefore(LineOf(j)) /\ e.event = "REQUIRED_FLUSH" /\ e.bug

\* The entries passed have their events.  As many are without as there are
\* errors among them: the last event is at the last operation until there is one.
TPassed ==
    pc \in {"entries", "done"} =>
        /\ \A j \in DOMAIN entries :
              j < i => Passed(j) /\ (entries[j].what \notin T!Errors => \E k \in DOMAIN report : EventIs(report[k], j))
        /\ HasError(i) <=> Len(report) < i - 1
        /\ ~HasError(i) => \A k \in DOMAIN report :
                              report[k].time + 1 = OperationBefore(LineOf(k)) /\ EventIs(report[k], k)

TBugs == \A k \in DOMAIN report :
            report[k].bug => <<report[k].time, report[k].event>> \in PMTestErrors \cup PMTestWarnings

TAborts == pc = "abort" => WarnsAfterError \/ IsOdd

\* The last operation before a line.
LEMMA OperationIs ==
    ASSUME log \in Seq(T!Lines), NEW m \in DOMAIN log, NEW n \in DOMAIN log, m <= n,
           log[m] \in T!pmtest_events, \A k \in m + 1 .. n : log[k] \notin T!pmtest_events
    PROVE  OperationBefore(n) = m
<1>. DEFINE ops == {k \in 1 .. n : log[k] \in T!pmtest_events}
<1>1. m \in Nat /\ n \in Nat /\ 1 <= m
  OBVIOUS
<1>2. m \in ops
  BY <1>1
<1>3. ASSUME NEW k \in ops
      PROVE  k <= m
  <2>1. k \in 1 .. n /\ (k \in m + 1 .. n => FALSE)
    OBVIOUS
  <2>. QED BY <1>1, <2>1
<1>4. ASSUME NEW k \in ops, \A other \in ops : other <= k
      PROVE  k = m
  <2>1. m <= k /\ k <= m /\ k \in Nat
    BY <1>1, <1>2, <1>3, <1>4
  <2>. QED BY <1>1, <2>1
<1>5. OperationBefore(n) = CHOOSE k \in ops : \A other \in ops : other <= k
  BY DEF OperationBefore
<1>. HIDE DEF ops
<1>. QED BY <1>2, <1>3, <1>4, <1>5

LEMMA SameOperation ==
    ASSUME log \in Seq(T!Lines), NEW m \in DOMAIN log, NEW n \in DOMAIN log, m <= n,
           \A k \in m + 1 .. n : log[k] \notin T!pmtest_events
    PROVE  OperationBefore(n) = OperationBefore(m)
<1>1. {k \in 1 .. n : log[k] \in T!pmtest_events} = {k \in 1 .. m : log[k] \in T!pmtest_events}
  <2>1. ASSUME NEW k \in 1 .. n, log[k] \in T!pmtest_events
        PROVE  k \in 1 .. m
    <3>1. m \in Nat /\ n \in Nat /\ k \in Nat /\ ~(k \in m + 1 .. n)
      BY <2>1
    <3>. QED BY <3>1
  <2>2. \A k \in 1 .. m : k \in 1 .. n
    OBVIOUS
  <2>. QED BY <2>1, <2>2
<1>. QED BY <1>1 DEF OperationBefore

\* The lines of an entry and of the next.
LEMMA OperationsAt ==
    ASSUME TInv, TLines, pc \in {"entries", "done"}, NEW j \in DOMAIN entries
    PROVE  /\ LineOf(j) \in DOMAIN log /\ entries[j].what = log[LineOf(j)] /\ entries[j].time = LineOf(j) - 1
           /\ entries[j].what \in T!Supported => OperationBefore(LineOf(j)) = LineOf(j)
           /\ j + 1 \in DOMAIN entries /\ entries[j + 1].what \notin T!pmtest_events
                  => OperationBefore(LineOf(j + 1)) = OperationBefore(LineOf(j))
<1>1. log \in Seq(T!Lines) /\ LineOf(j) \in DOMAIN log /\ entries[j].what = log[LineOf(j)] /\ LineOf(j) \in Nat
      /\ entries[j].time \in Nat
  BY EntryFacts DEF TInv, TTypes, TLines
<1>2. entries[j].time = LineOf(j) - 1
  BY <1>1 DEF LineOf
<1>3. ASSUME entries[j].what \in T!Supported
      PROVE  OperationBefore(LineOf(j)) = LineOf(j)
  <2>1. log[LineOf(j)] \in T!pmtest_events
    BY <1>1, <1>3, Kinds
  <2>2. \A k \in LineOf(j) + 1 .. LineOf(j) : FALSE
    BY <1>1
  <2>. QED BY <1>1, <2>1, <2>2, OperationIs
<1>4. ASSUME j + 1 \in DOMAIN entries, entries[j + 1].what \notin T!pmtest_events
      PROVE  OperationBefore(LineOf(j + 1)) = OperationBefore(LineOf(j))
  <2>1. LineOf(j + 1) \in DOMAIN log /\ entries[j + 1].what = log[LineOf(j + 1)] /\ LineOf(j + 1) \in Nat /\ IsEntry(LineOf(j + 1))
    BY <1>4, EntryFacts DEF TLines
  <2>2. Follows(LineOf(j), LineOf(j + 1))
    BY <1>4, <2>1, NextEntry
  <2>3. ASSUME NEW k \in LineOf(j) + 1 .. LineOf(j + 1)
        PROVE  log[k] \notin T!pmtest_events
    <3>1. CASE k = LineOf(j + 1)
      BY <1>4, <2>1, <3>1
    <3>2. CASE k # LineOf(j + 1)
      <4>1. k \in LineOf(j) + 1 .. LineOf(j + 1) - 1
        BY <1>1, <2>1, <3>2
      <4>. QED BY <2>2, <4>1 DEF Follows, IsEntry
    <3>. QED BY <3>1, <3>2
  <2>. QED BY <1>1, <2>1, <2>2, <2>3, SameOperation DEF Follows
<1>. QED BY <1>1, <1>2, <1>3, <1>4

LEMMA NextError ==
    ASSUME TInv, NEW n \in Nat
    PROVE  HasError(n + 1) <=> HasError(n) \/ (n \in DOMAIN entries /\ entries[n].what \in T!Errors)
<1>1. \A k \in DOMAIN entries : k \in Nat /\ (k < n + 1 <=> k < n \/ k = n)
  BY EntryFacts
<1>. QED BY <1>1 DEF HasError

\* A step to the next entry.  Event e is made of this one, unless it is an error.
MadeHere(e) ==
    /\ report' = Append(report, e) /\ e \in TEvent
    /\ entries[i].what \notin T!Errors /\ Passed(i) /\ EventIs(e, i)
    /\ ~HasError(i) => e.time + 1 = OperationBefore(LineOf(i))
    /\ e.bug => <<e.time, e.event>> \in PMTestErrors \cup PMTestWarnings

LEMMA NextPassed ==
    ASSUME TInv, TLines, TPassed, TBugs, T!Making, i' = i + 1, UNCHANGED <<log, entries, time, pc>>,
           \/ report' = report /\ entries[i].what \in T!Errors
           \/ \E e : MadeHere(e)
    PROVE  TPassed' /\ TBugs' /\ TAborts' /\ TLines'
<1>1. /\ TEvents /\ pc = "entries" /\ i \in Nat /\ i \in DOMAIN entries /\ Len(entries) \in Nat
      /\ Len(report) \in Nat /\ Len(report) < i /\ DOMAIN report = 1 .. Len(report) /\ DOMAIN entries = 1 .. Len(entries)
      /\ report \in Seq(TEvent)
  BY MakingTyped DEF TTypes
<1>2. PICK R : R = Len(report)
  OBVIOUS
<1>3. /\ \A n : OperationBefore(n)' = OperationBefore(n)
      /\ \A j : LineOf(j)' = LineOf(j)
      /\ \A n : HasError(n)' <=> HasError(n)
      /\ \A j : FailsAt(j)' <=> FailsAt(j)
      /\ \A j : OperationBefore(LineOf(j))' = OperationBefore(LineOf(j))
      /\ entries' = entries
  BY DEF OperationBefore, LineOf, HasError, FailsAt
<1>4. \A j : Passed(j)' <=> Passed(j)
  BY <1>3 DEF Passed
<1>5. PMTestErrors' = PMTestErrors /\ PMTestWarnings' = PMTestWarnings
  BY DEF PMTestErrors, PMTestWarnings, OperationBefore
<1>6. /\ \A j \in DOMAIN entries :
            j < i => Passed(j) /\ (entries[j].what \notin T!Errors => \E k \in DOMAIN report : EventIs(report[k], j))
      /\ HasError(i) <=> R < i - 1
      /\ ~HasError(i) => \A k \in DOMAIN report :
                            report[k].time + 1 = OperationBefore(LineOf(k)) /\ EventIs(report[k], k)
  BY <1>1, <1>2 DEF TPassed
<1>7. HasError(i + 1) <=> HasError(i) \/ entries[i].what \in T!Errors
  BY <1>1, NextError
<1>8. \A j \in DOMAIN entries : j < i + 1 => j < i \/ j = i
  BY <1>1
<1>9. TAborts'
  BY <1>1 DEF TAborts
<1>10. TLines'
  BY <1>1, StillLines
<1>11. CASE report' = report /\ entries[i].what \in T!Errors
  <2>1. Passed(i) /\ HasError(i + 1) /\ R < i
    BY <1>1, <1>2, <1>7, <1>11, Kinds DEF Passed
  <2>2. \A j : \A k \in DOMAIN report : EventIs(report[k], j)' <=> EventIs(report[k], j)
    BY <1>3, <1>11 DEF EventIs
  <2>3. TPassed'
    BY <1>1, <1>2, <1>3, <1>4, <1>6, <1>8, <1>11, <2>1, <2>2 DEF TPassed
  <2>4. TBugs'
    BY <1>5, <1>11 DEF TBugs
  <2>. QED BY <1>9, <1>10, <2>3, <2>4
<1>12. ASSUME NEW e, MadeHere(e)
       PROVE  TPassed' /\ TBugs'
  <2>1. /\ report' \in Seq(TEvent) /\ Len(report') = R + 1 /\ DOMAIN report' = 1 .. R + 1
        /\ \A k \in DOMAIN report : k \in DOMAIN report' /\ report'[k] = report[k]
        /\ R + 1 \in DOMAIN report' /\ report'[R + 1] = e
        /\ \A k \in DOMAIN report' : k \in DOMAIN report \/ k = R + 1
    <3>1. report' = Append(report, e) /\ e \in TEvent
      BY <1>12 DEF MadeHere
    <3>2. report \in Seq(TEvent) /\ R \in Nat /\ Len(report) = R /\ DOMAIN report = 1 .. R
      BY <1>1, <1>2
    <3>3. report' \in Seq(TEvent) /\ Len(report') = R + 1 /\ DOMAIN report' = 1 .. R + 1
      BY <3>1, <3>2
    <3>4. (\A k \in 1 .. R : report'[k] = report[k]) /\ report'[R + 1] = e
      BY <3>1, <3>2
    <3>5. \A k \in 1 .. R + 1 : k \in 1 .. R \/ k = R + 1
      BY <3>2
    <3>6. R + 1 \in 1 .. R + 1 /\ \A k \in 1 .. R : k \in 1 .. R + 1
      BY <3>2
    <3>. QED BY <3>2, <3>3, <3>4, <3>5, <3>6
  <2>2. HasError(i + 1) <=> HasError(i)
    BY <1>7, <1>12 DEF MadeHere
  <2>3. \A j : \A k \in DOMAIN report' : EventIs(report[k], j)' <=> EventIs(report'[k], j)
    BY <1>3 DEF EventIs
  <2>4. ASSUME NEW j \in DOMAIN entries, j < i + 1
        PROVE  Passed(j) /\ (entries[j].what \notin T!Errors => \E k \in DOMAIN report' : EventIs(report'[k], j))
    BY <1>6, <1>8, <1>12, <2>1, <2>4 DEF MadeHere
  <2>5. HasError(i + 1) <=> R + 1 < i
    BY <1>1, <1>2, <1>6, <2>2
  <2>6. ASSUME ~HasError(i + 1), NEW k \in DOMAIN report'
        PROVE  report'[k].time + 1 = OperationBefore(LineOf(k)) /\ EventIs(report'[k], k)
    <3>1. CASE k \in DOMAIN report
      BY <1>6, <2>1, <2>2, <2>6, <3>1
    <3>2. CASE k = R + 1
      <4>1. k = i
        BY <1>1, <1>2, <1>6, <2>2, <2>6, <3>2
      <4>. QED BY <1>12, <2>1, <2>2, <2>6, <3>2, <4>1 DEF MadeHere
    <3>. QED BY <2>1, <3>1, <3>2
  <2>7. TPassed'
    <3>1. i' = i + 1 /\ entries' = entries /\ Len(report') = R + 1 /\ (R + 1 < i <=> Len(report') < i' - 1)
      BY <1>1, <1>2, <2>1
    <3>2. \A j \in DOMAIN entries' :
              j < i' => Passed(j)' /\ (entries'[j].what \notin T!Errors => \E k \in DOMAIN report' : EventIs(report[k], j)')
      BY <1>4, <2>3, <2>4, <3>1
    <3>3. HasError(i)' <=> Len(report') < i' - 1
      <4>1. HasError(i)' <=> HasError(i + 1)
        BY DEF HasError
      <4>. QED BY <2>5, <3>1, <4>1
    <3>4. ~HasError(i)' => \A k \in DOMAIN report' :
                              report'[k].time + 1 = OperationBefore(LineOf(k))' /\ EventIs(report[k], k)'
      <4>1. HasError(i)' <=> HasError(i + 1)
        BY DEF HasError
      <4>. QED BY <1>3, <2>3, <2>6, <4>1
    <3>. QED BY <3>2, <3>3, <3>4 DEF TPassed
  <2>8. TBugs'
    <3>1. ASSUME NEW k \in DOMAIN report', report'[k].bug
          PROVE  <<report'[k].time, report'[k].event>> \in PMTestErrors \cup PMTestWarnings
      BY <1>12, <2>1, <3>1 DEF MadeHere, TBugs
    <3>. QED BY <1>5, <3>1 DEF TBugs
  <2>. QED BY <2>7, <2>8
<1>. QED BY <1>9, <1>10, <1>11, <1>12

LEMMA MakeEventPassed ==
    ASSUME TInv, TLines, TPassed, TBugs, T!MakeEvent
    PROVE  TPassed' /\ TBugs' /\ TAborts' /\ TLines'
<1>1. /\ T!Making /\ i' = i + 1 /\ UNCHANGED <<log, entries, time, pc>>
      /\ entries[i].what \in T!Supported /\ entries[i].stack
  BY DEF T!MakeEvent, T!Entry
<1>2. /\ pc = "entries" /\ i \in Nat /\ i \in DOMAIN entries /\ entries[i] \in TEntry
      /\ Len(entries) \in Nat /\ DOMAIN entries = 1 .. Len(entries)
  BY <1>1, MakingTyped
<1>3. PICK e : e = [event |-> T!EventOf[entries[i].what], time |-> entries[i].time, bug |-> T!Fails, entry |-> i]
  OBVIOUS
<1>4. e.event = T!EventOf[entries[i].what] /\ e.time = entries[i].time /\ e.bug = T!Fails /\ e.entry = i
  BY <1>3
<1>5. report' = Append(report, e)
  BY <1>3 DEF T!MakeEvent, T!Entry
<1>6. T!Fails <=> FailsAt(i)
  BY DEF T!Fails, T!Entry, FailsAt
<1>7. e \in TEvent
  BY <1>1, <1>2, <1>3, EventsOf DEF TEvent, TEntry, T!Fails
<1>8. entries[i].what \notin T!Errors /\ entries[i].what \notin T!Unsupported /\ entries[i].what # T!Warning
  BY <1>1, Kinds
<1>9. Passed(i) /\ EventIs(e, i)
  BY <1>1, <1>4, <1>6, <1>8 DEF Passed, EventIs
<1>10. /\ LineOf(i) \in DOMAIN log /\ entries[i].what = log[LineOf(i)] /\ entries[i].time = LineOf(i) - 1
       /\ OperationBefore(LineOf(i)) = LineOf(i) /\ LineOf(i) \in Nat
       /\ i + 1 \in DOMAIN entries /\ entries[i + 1].what \notin T!pmtest_events
              => OperationBefore(LineOf(i + 1)) = LineOf(i)
  BY <1>1, <1>2, OperationsAt, EntryFacts
<1>11. e.time + 1 = OperationBefore(LineOf(i))
  BY <1>4, <1>10
<1>12. ASSUME e.bug
       PROVE  <<e.time, e.event>> \in PMTestErrors
  <2>1. FailsAt(i)
    BY <1>4, <1>6, <1>12
  <2>2. i + 1 \in DOMAIN entries /\ entries[i + 1].what \in T!Errors
    BY <1>2, <2>1, Kinds DEF FailsAt
  <2>3. LineOf(i + 1) \in DOMAIN log /\ log[LineOf(i + 1)] \in T!Errors
    BY <1>2, <2>2, OperationsAt
  <2>4. OperationBefore(LineOf(i + 1)) = LineOf(i)
    BY <1>10, <2>2, Kinds
  <2>. QED BY <1>4, <1>10, <2>3, <2>4 DEF PMTestErrors
<1>13. MadeHere(e)
  BY <1>5, <1>7, <1>8, <1>9, <1>11, <1>12 DEF MadeHere
<1>. QED BY <1>1, <1>13, NextPassed

\* The event that is copied is that of the last operation.
LEMMA MakeWarningPassed ==
    ASSUME TInv, TLines, TPassed, TBugs, T!MakeWarning
    PROVE  TPassed' /\ TBugs' /\ TAborts' /\ TLines'
<1>1. /\ T!Making /\ i' = i + 1 /\ UNCHANGED <<log, entries, time, pc>>
      /\ entries[i].what = T!Warning /\ i - 1 \in DOMAIN report
  BY DEF T!MakeWarning, T!Entry, T!Warned
<1>2. /\ pc = "entries" /\ i \in Nat /\ i \in DOMAIN entries /\ Len(report) \in Nat /\ Len(report) < i
      /\ DOMAIN report = 1 .. Len(report) /\ Len(entries) \in Nat /\ DOMAIN entries = 1 .. Len(entries)
      /\ \A k \in DOMAIN report : report[k] \in TEvent
  BY <1>1, MakingTyped
<1>3. i > 1 /\ Len(report) = i - 1 /\ i - 1 \in DOMAIN entries /\ i = (i - 1) + 1
  BY <1>1, <1>2
<1>4. ~HasError(i)
  BY <1>2, <1>3 DEF TPassed
<1>5. report[i - 1].time + 1 = OperationBefore(LineOf(i - 1))
  BY <1>1, <1>2, <1>4 DEF TPassed
<1>6. entries[i].what \notin T!Errors /\ entries[i].what \notin T!Supported
      /\ entries[i].what \notin T!Unsupported /\ entries[i].what \notin T!pmtest_events
  BY <1>1, Kinds
<1>7. OperationBefore(LineOf(i)) = OperationBefore(LineOf(i - 1))
  BY <1>2, <1>3, <1>6, OperationsAt
<1>8. PICK e : e = [report[i - 1] EXCEPT !.event = "REQUIRED_FLUSH", !.bug = TRUE]
  OBVIOUS
<1>9. report[i - 1] \in TEvent
  BY <1>1, <1>2
<1>10. e \in TEvent /\ e.event = "REQUIRED_FLUSH" /\ e.bug = TRUE /\ e.time = report[i - 1].time
  BY <1>8, <1>9 DEF TEvent, PMTestEvents
<1>11. report' = Append(report, e)
  BY <1>8 DEF T!MakeWarning, T!Warned
<1>12. Passed(i) /\ EventIs(e, i) /\ e.time + 1 = OperationBefore(LineOf(i))
  <2>1. EventIs(report[i - 1], i - 1)
    BY <1>1, <1>2, <1>4 DEF TPassed
  <2>2. entries[i - 1].what \notin {"_FENCE", "_ORDER"}
    <3>1. report[i - 1].event \notin {"FENCE", "ASSERT_ORDERED"}
      BY DEF T!MakeWarning, T!Warned, T!HasAddress
    <3>. QED BY <2>1, <3>1, Fences DEF EventIs
  <2>. QED BY <1>1, <1>3, <1>4, <1>5, <1>6, <1>7, <1>10, <2>2 DEF Passed, EventIs
<1>13. LineOf(i) \in DOMAIN log /\ log[LineOf(i)] = T!Warning
  BY <1>1, <1>2, OperationsAt
<1>14. e.time = OperationBefore(LineOf(i)) - 1
  BY <1>9, <1>10, <1>12 DEF TEvent
<1>15. <<e.time, e.event>> \in PMTestWarnings
  BY <1>10, <1>13, <1>14 DEF PMTestWarnings
<1>16. MadeHere(e)
  BY <1>6, <1>10, <1>11, <1>12, <1>15 DEF MadeHere
<1>. QED BY <1>1, <1>16, NextPassed

LEMMA PassErrorPassed ==
    ASSUME TInv, TLines, TPassed, TBugs, T!PassError
    PROVE  TPassed' /\ TBugs' /\ TAborts' /\ TLines'
BY NextPassed DEF T!PassError, T!Entry

\* What the log has when the reader gives up.
LEMMA FailAborts ==
    ASSUME TInv, TLines, TPassed, T!Fail
    PROVE  WarnsAfterError \/ IsOdd
<1>1. /\ DOMAIN log = 1 .. Len(log) /\ Len(log) \in Nat /\ i \in Nat /\ i >= 1
      /\ Len(entries) \in Nat /\ DOMAIN entries = 1 .. Len(entries)
  BY EntryFacts
<1>2. CASE T!Reading /\ log[i] = "word"
  <2>1. i \in DOMAIN log
    BY <1>1, <1>2 DEF T!Reading
  <2>. QED BY <1>2, <2>1 DEF IsOdd
<1>3. CASE T!Reading /\ log[i] = "stack" /\ entries = <<>>
  <2>1. i \in DOMAIN log /\ LinesDone = i - 1 /\ pc # "abort" /\ DOMAIN entries = {}
    BY <1>1, <1>3 DEF T!Reading, LinesDone
  <2>2. \A n \in 0 + 1 .. i - 1 : ~IsEntry(n)
    <3>1. \A n \in 0 + 1 .. i - 1 : n \in DOMAIN log /\ n <= i - 1
      BY <1>1, <2>1
    <3>. QED BY <2>1, <3>1 DEF TLines
  <2>3. Follows(0, i)
    BY <1>1, <2>2 DEF Follows
  <2>. QED BY <1>3, <2>1, <2>3 DEF IsOdd
<1>4. ASSUME T!Making
      PROVE  /\ i \in DOMAIN entries /\ pc \in {"entries", "done"} /\ LineOf(i) \in DOMAIN log
             /\ entries[i].what = log[LineOf(i)] /\ LinesDone = Len(log) /\ pc # "abort"
  <2>1. i \in DOMAIN entries /\ pc = "entries"
    BY <1>1, <1>4 DEF T!Making
  <2>. QED BY <2>1, OperationsAt DEF LinesDone
<1>5. CASE T!Making /\ entries[i].what \in T!Unsupported
  BY <1>4, <1>5 DEF IsOdd
<1>6. CASE T!Making /\ entries[i].what \in T!Supported /\ ~entries[i].stack
  <2>1. ~StackBy(LineOf(i), Len(log))
    BY <1>4, <1>6 DEF TLines
  <2>2. ~HasStack(LineOf(i))
    BY <1>1, <2>1 DEF HasStack, StackBy
  <2>. QED BY <1>4, <1>6, <2>2 DEF IsOdd
<1>7. CASE T!Making /\ entries[i].what = T!Warning /\ i - 1 \notin DOMAIN report
  <2>0. Len(report) \in Nat /\ DOMAIN report = 1 .. Len(report)
    BY <1>7, MakingTyped
  <2>1. CASE i = 1
    <3>1. Follows(0, LineOf(i))
      BY <1>4, <1>7, <2>1, FirstEntry
    <3>. QED BY <1>4, <1>7, <3>1 DEF IsOdd
  <2>2. CASE i # 1
    <3>1. Len(report) < i - 1
      BY <1>1, <1>7, <2>0, <2>2
    <3>2. HasError(i)
      BY <1>4, <1>7, <3>1 DEF TPassed
    <3>3. PICK k \in DOMAIN entries : k < i /\ entries[k].what \in T!Errors
      BY <3>2 DEF HasError
    <3>4. LineOf(k) \in DOMAIN log /\ log[LineOf(k)] \in T!Errors /\ LineOf(k) < LineOf(i)
      BY <1>4, <1>7, <3>3, OperationsAt, InOrder
    <3>. QED BY <1>4, <1>7, <3>4 DEF WarnsAfterError
  <2>. QED BY <2>1, <2>2
<1>8. CASE T!Making /\ entries[i].what = T!Warning /\ i - 1 \in DOMAIN report /\ ~T!HasAddress(report[i - 1])
  <2>1. /\ Len(report) \in Nat /\ Len(report) < i /\ DOMAIN report = 1 .. Len(report) /\ pc = "entries"
        /\ report[i - 1] \in TEvent
    BY <1>8, MakingTyped
  <2>2. i > 1 /\ Len(report) = i - 1 /\ i - 1 \in DOMAIN entries /\ i = (i - 1) + 1
    BY <1>1, <1>4, <1>8, <2>1
  <2>3. ~HasError(i)
    BY <2>1, <2>2 DEF TPassed
  <2>4. EventIs(report[i - 1], i - 1) /\ Passed(i - 1) /\ entries[i - 1].what \notin T!Errors
    <3>1. i - 1 < i
      BY <1>1
    <3>. QED BY <1>8, <2>1, <2>2, <2>3, <3>1 DEF TPassed, HasError
  <2>5. entries[i - 1].what \in {"_FENCE", "_ORDER"}
    <3>1. report[i - 1].event \in {"FENCE", "ASSERT_ORDERED"}
      BY <1>8 DEF T!HasAddress
    <3>2. entries[i - 1].what \in T!Lines /\ IsEntry(LineOf(i - 1)) /\ entries[i - 1].what = log[LineOf(i - 1)]
      BY <2>2, EntryFacts DEF TInv, TTypes, TEntry, TLines
    <3>3. entries[i - 1].what \in T!Supported \cup {T!Warning}
      BY <2>4, <3>2, Kinds DEF Passed, IsEntry
    <3>. QED BY <2>4, <3>1, <3>3, Fences DEF EventIs
  <2>6. Follows(LineOf(i - 1), LineOf(i)) /\ LineOf(i - 1) \in DOMAIN log /\ log[LineOf(i - 1)] = entries[i - 1].what
    <3>1. LineOf(i - 1) \in DOMAIN log /\ log[LineOf(i - 1)] = entries[i - 1].what
      BY <1>4, <1>8, <2>2, OperationsAt
    <3>2. IsEntry(LineOf(i))
      BY <1>4, <1>8 DEF TLines
    <3>3. Follows(LineOf(i - 1), LineOf(i)) <=> (i - 1) + 1 \in DOMAIN entries /\ LineOf((i - 1) + 1) = LineOf(i)
      BY <1>4, <1>8, <2>2, <3>2, NextEntry
    <3>. QED BY <1>4, <1>8, <2>2, <3>1, <3>3
  <2>. QED BY <1>4, <1>8, <2>5, <2>6 DEF IsOdd
<1>. QED BY <1>2, <1>3, <1>5, <1>6, <1>7, <1>8 DEF T!Fail, T!Entry, T!Warned

TFound == TLines /\ TPassed /\ TBugs /\ TAborts

LEMMA InitBugsT ==
    ASSUME T!Init
    PROVE  TFound
BY InitLines DEF T!Init, TFound, TPassed, TBugs, TAborts

LEMMA LinesBugsT ==
    ASSUME TInv, TFound, T!ReadEntry \/ T!ReadStack \/ T!SkipWords \/ T!EndLines
    PROVE  TFound'
<1>1. TLines /\ pc = "lines" /\ report = <<>> /\ report' = <<>> /\ log' = log
  BY DEF TFound, TInv, TEntries, T!ReadEntry, T!ReadStack, T!SkipWords, T!EndLines, T!Reading
<1>2. DOMAIN report' = {} /\ Len(report') = 0
  BY <1>1
<1>3. TBugs'
  BY <1>2 DEF TBugs
<1>4. CASE T!EndLines
  <2>1. pc' = "entries" /\ i' = 1 /\ entries' = entries /\ i > Len(log)
    BY <1>4 DEF T!EndLines
  <2>2. \A k \in DOMAIN entries : ~(k < 1)
    BY EntryFacts
  <2>3. TPassed'
    BY <1>2, <2>1, <2>2 DEF TPassed, HasError
  <2>4. TAborts'
    BY <2>1 DEF TAborts
  <2>5. TLines'
    BY <1>1, <2>1, StillLines
  <2>. QED BY <1>3, <2>3, <2>4, <2>5 DEF TFound
<1>5. CASE T!ReadEntry \/ T!ReadStack \/ T!SkipWords
  <2>1. pc' = "lines"
    BY <1>5 DEF T!ReadEntry, T!ReadStack, T!SkipWords, T!Reading
  <2>2. TLines'
    BY <1>1, <1>5, ReadEntryLines, OverLines
  <2>. QED BY <1>3, <2>1, <2>2 DEF TFound, TPassed, TAborts
<1>. QED BY <1>4, <1>5

LEMMA StopBugsT ==
    ASSUME TInv, TFound, T!Fail \/ T!Finish
    PROVE  TFound'
<1>1. /\ TLines /\ TPassed /\ TBugs /\ UNCHANGED <<log, i, entries, report, time>>
      /\ T!Fail => pc' = "abort"
      /\ T!Finish => pc = "entries" /\ pc' = "done"
  BY DEF TFound, T!Fail, T!Finish
<1>2. TLines'
  BY <1>1, StillLines
<1>3. TBugs'
  BY <1>1 DEF TBugs, PMTestErrors, PMTestWarnings, OperationBefore
<1>4. (WarnsAfterError' <=> WarnsAfterError) /\ (IsOdd' <=> IsOdd)
  BY <1>1 DEF WarnsAfterError, IsOdd, HasStack, Follows, IsEntry
<1>5. TAborts'
  BY <1>1, <1>4, FailAborts DEF TAborts
<1>6. TPassed'
  <2>1. CASE T!Fail
    BY <1>1, <2>1 DEF TPassed
  <2>2. CASE T!Finish
    <3>1. /\ \A j : Passed(j)' <=> Passed(j)
          /\ \A j : FailsAt(j)' <=> FailsAt(j)
          /\ \A n : HasError(n)' <=> HasError(n)
          /\ \A j : OperationBefore(LineOf(j))' = OperationBefore(LineOf(j))
      BY <1>1 DEF Passed, FailsAt, HasError, OperationBefore, LineOf
    <3>2. \A k, j : EventIs(report[k], j)' <=> EventIs(report[k], j)
      BY <1>1, <3>1 DEF EventIs
    <3>3. HasError(i)' <=> HasError(i)
      BY <1>1 DEF HasError
    <3>. QED BY <1>1, <2>2, <3>1, <3>2, <3>3 DEF TPassed
  <2>. QED BY <2>1, <2>2
<1>. QED BY <1>2, <1>3, <1>5, <1>6 DEF TFound

LEMMA StutterBugsT ==
    ASSUME TInv, TFound, UNCHANGED <<log, i, entries, report, time, pc>>
    PROVE  TFound'
<1>1. /\ \A j : Passed(j)' <=> Passed(j)
      /\ \A j : FailsAt(j)' <=> FailsAt(j)
      /\ \A n : HasError(n)' <=> HasError(n)
      /\ \A j : OperationBefore(LineOf(j))' = OperationBefore(LineOf(j))
  BY DEF Passed, FailsAt, HasError, OperationBefore, LineOf
<1>2. \A k, j : EventIs(report[k], j)' <=> EventIs(report[k], j)
  BY <1>1 DEF EventIs
<1>3. HasError(i)' <=> HasError(i)
  BY DEF HasError
<1>4. TPassed'
  BY <1>1, <1>2, <1>3 DEF TFound, TPassed
<1>5. TLines'
  BY StillLines DEF TFound
<1>6. TBugs'
  BY DEF TFound, TBugs, PMTestErrors, PMTestWarnings, OperationBefore
<1>7. TAborts'
  BY DEF TFound, TAborts, WarnsAfterError, IsOdd, HasStack, Follows, IsEntry
<1>. QED BY <1>4, <1>5, <1>6, <1>7 DEF TFound

LEMMA StepBugsT ==
    ASSUME TInv, TFound, T!Next
    PROVE  TFound'
<1>1. CASE T!ReadEntry \/ T!ReadStack \/ T!SkipWords \/ T!EndLines
  BY <1>1, LinesBugsT
<1>2. CASE T!MakeEvent \/ T!PassError \/ T!MakeWarning
  BY <1>2, MakeEventPassed, PassErrorPassed, MakeWarningPassed DEF TFound
<1>3. CASE T!Fail \/ T!Finish
  BY <1>3, StopBugsT
<1>. QED BY <1>1, <1>2, <1>3 DEF T!Next

\* What is read of the bugs in the end.
LEMMA EndT ==
    ASSUME TInv, TFound, pc = "done"
    PROVE  /\ ~WarnsAfterError /\ ~IsOdd
           /\ PMTestBugs \subseteq PMTestErrors \cup PMTestWarnings
           /\ PMTestWarnings \subseteq PMTestBugs
           /\ ErrorsFollow => PMTestErrors \subseteq PMTestBugs
<1>1. /\ TLines /\ TPassed /\ TBugs /\ LinesDone = Len(log) /\ i > Len(entries) /\ i \in Nat
      /\ DOMAIN log = 1 .. Len(log) /\ Len(log) \in Nat
      /\ Len(entries) \in Nat /\ DOMAIN entries = 1 .. Len(entries)
  BY EntryFacts DEF TFound, LinesDone, TInv, TEvents
<1>2. \A j \in DOMAIN entries : j < i
  BY <1>1
<1>3. ASSUME NEW j \in DOMAIN entries
      PROVE  /\ Passed(j) /\ LineOf(j) \in DOMAIN log /\ entries[j].what = log[LineOf(j)]
             /\ entries[j].time = LineOf(j) - 1
             /\ entries[j].what \in T!Supported => OperationBefore(LineOf(j)) = LineOf(j)
             /\ entries[j].what \notin T!Errors => \E k \in DOMAIN report : EventIs(report[k], j)
  <2>1. /\ LineOf(j) \in DOMAIN log /\ entries[j].what = log[LineOf(j)] /\ entries[j].time = LineOf(j) - 1
        /\ entries[j].what \in T!Supported => OperationBefore(LineOf(j)) = LineOf(j)
    BY <1>1, OperationsAt
  <2>. QED BY <1>1, <1>2, <2>1 DEF TPassed
<1>4. \A n \in DOMAIN log : IsEntry(n) => \E j \in DOMAIN entries : LineOf(j) = n
  BY <1>1 DEF TLines
<1>5. \A n \in DOMAIN log : log[n] # "word" /\ (log[n] = "stack" => ~Follows(0, n))
  BY <1>1 DEF TLines
<1>6. ASSUME NEW n \in DOMAIN log
      PROVE  /\ log[n] \notin T!Unsupported
             /\ log[n] \in T!Supported => HasStack(n)
             /\ log[n] = T!Warning => ~Follows(0, n)
             /\ log[n] = T!Warning => \A m \in DOMAIN log : Follows(m, n) => log[m] \notin {"_FENCE", "_ORDER"}
  <2>1. CASE ~IsEntry(n)
    BY <2>1, Kinds DEF IsEntry
  <2>2. CASE IsEntry(n)
    <3>1. PICK j \in DOMAIN entries : LineOf(j) = n
      BY <1>4, <2>2
    <3>2. Passed(j) /\ entries[j].what = log[n]
      BY <1>3, <3>1
    <3>3. log[n] \in T!Supported => HasStack(n)
      <4>1. entries[j].stack <=> StackBy(n, Len(log))
        BY <1>1, <3>1 DEF TLines
      <4>. QED BY <3>2, <4>1 DEF Passed, HasStack, StackBy
    <3>4. log[n] = T!Warning => ~Follows(0, n)
      <4>1. log[n] = T!Warning => j > 1
        BY <3>2 DEF Passed
      <4>. QED BY <1>1, <3>1, <4>1, FirstEntry
    <3>5. ASSUME log[n] = T!Warning, NEW m \in DOMAIN log, Follows(m, n), log[m] \in {"_FENCE", "_ORDER"}
          PROVE  FALSE
      <4>1. IsEntry(m)
        BY <3>5, Kinds, Fences DEF IsEntry
      <4>2. PICK k \in DOMAIN entries : LineOf(k) = m
        BY <1>4, <4>1
      <4>3. k + 1 \in DOMAIN entries /\ LineOf(k + 1) = n
        BY <1>1, <2>2, <3>5, <4>2, NextEntry
      <4>4. k + 1 = j
        BY <3>1, <4>3, InOrder
      <4>5. j - 1 = k
        BY <1>1, <4>2, <4>4
      <4>. QED BY <1>3, <3>2, <3>5, <4>2, <4>5 DEF Passed
    <3>. QED BY <3>2, <3>3, <3>4, <3>5 DEF Passed
  <2>. QED BY <2>1, <2>2
<1>7. ~IsOdd
  BY <1>5, <1>6 DEF IsOdd
<1>8. ASSUME NEW m \in DOMAIN log, NEW n \in DOMAIN log, m < n, log[m] \in T!Errors, log[n] = T!Warning
      PROVE  FALSE
  <2>1. IsEntry(m) /\ IsEntry(n)
    BY <1>8, Kinds DEF IsEntry
  <2>2. PICK j \in DOMAIN entries : LineOf(j) = m
    BY <1>4, <2>1
  <2>3. PICK k \in DOMAIN entries : LineOf(k) = n
    BY <1>4, <2>1
  <2>4. j < k
    BY <1>8, <2>2, <2>3, InOrder
  <2>. QED BY <1>3, <1>8, <2>2, <2>3, <2>4 DEF Passed, HasError
<1>9. ~WarnsAfterError
  BY <1>8 DEF WarnsAfterError
<1>10. PMTestBugs \subseteq PMTestErrors \cup PMTestWarnings
  BY <1>1 DEF PMTestBugs, TBugs
<1>11. ASSUME NEW n \in DOMAIN log, log[n] = T!Warning
       PROVE  <<OperationBefore(n) - 1, "REQUIRED_FLUSH">> \in PMTestBugs
  <2>1. IsEntry(n)
    BY <1>11, Kinds DEF IsEntry
  <2>2. PICK j \in DOMAIN entries : LineOf(j) = n
    BY <1>4, <2>1
  <2>3. entries[j].what = T!Warning /\ entries[j].what \notin T!Errors
    BY <1>3, <1>11, <2>2, Kinds
  <2>4. PICK k \in DOMAIN report : EventIs(report[k], j)
    BY <1>3, <2>3
  <2>5. report[k].time + 1 = OperationBefore(n) /\ report[k].event = "REQUIRED_FLUSH" /\ report[k].bug
    BY <2>2, <2>3, <2>4 DEF EventIs
  <2>6. report[k].time \in Nat
    <3>1. report[k] \in TEvent
      BY DEF TInv, TTypes
    <3>. QED BY <3>1 DEF TEvent
  <2>. QED BY <2>5, <2>6 DEF PMTestBugs
<1>12. PMTestWarnings \subseteq PMTestBugs
  BY <1>11 DEF PMTestWarnings
<1>13. ASSUME NEW n \in DOMAIN log, log[n] \in T!Errors,
              NEW m \in DOMAIN log, Follows(m, n), log[m] \in DOMAIN T!ErrorOf, T!ErrorOf[log[m]] = log[n]
       PROVE  <<OperationBefore(n) - 1, T!EventOf[log[OperationBefore(n)]]>> \in PMTestBugs
  <2>1. IsEntry(m) /\ IsEntry(n) /\ log[m] \in T!Supported /\ log[m] \in T!pmtest_events /\ log[n] \notin T!pmtest_events
    BY <1>13, Kinds DEF IsEntry
  <2>2. PICK j \in DOMAIN entries : LineOf(j) = m
    BY <1>4, <2>1
  <2>3. j + 1 \in DOMAIN entries /\ LineOf(j + 1) = n
    <3>1. Follows(LineOf(j), n)
      BY <1>13, <2>2
    <3>. QED BY <1>1, <2>1, <3>1, NextEntry
  <2>4. entries[j].what = log[m] /\ entries[j].time = m - 1 /\ entries[j + 1].what = log[n]
    BY <1>3, <2>2, <2>3
  <2>5. j < Len(entries)
    BY <1>1, <2>3
  <2>6. FailsAt(j)
    BY <1>13, <2>4, <2>5 DEF FailsAt
  <2>7. entries[j].what \notin T!Errors
    BY <2>1, <2>4, Kinds
  <2>8. PICK k \in DOMAIN report : EventIs(report[k], j)
    BY <1>3, <2>7
  <2>9. report[k].time = m - 1 /\ report[k].event = T!EventOf[log[m]] /\ report[k].bug
    BY <2>1, <2>4, <2>6, <2>8 DEF EventIs
  <2>10. OperationBefore(n) = m
    <3>1. OperationBefore(n) = OperationBefore(m)
      BY <1>1, <2>1, <2>2, <2>3, <2>4, OperationsAt
    <3>2. OperationBefore(m) = m
      BY <1>3, <2>1, <2>2, <2>4
    <3>. QED BY <3>1, <3>2
  <2>. QED BY <2>9, <2>10 DEF PMTestBugs
<1>14. ErrorsFollow => PMTestErrors \subseteq PMTestBugs
  BY <1>13 DEF ErrorsFollow, PMTestErrors
<1>. QED BY <1>7, <1>9, <1>10, <1>12, <1>14

-----------------------------------------------------------------------------
(* Either reader.                                                          *)

Inv ==
    /\ format \in {"pmemcheck", "pmtest"}
    /\ format = "pmemcheck" => PInv /\ PFound
    /\ format = "pmtest" => TInv /\ TFound

LEMMA InvHolds == Spec => []Inv
<1>1. Init => Inv
  BY InitP, InitBugsP, InitT, InitBugsT DEF Init, Inv
<1>2. Inv /\ [Next]_vars => Inv'
  <2>. SUFFICES ASSUME Inv, [Next]_vars PROVE Inv'
    OBVIOUS
  <2>1. CASE format = "pmemcheck" /\ P!Next /\ UNCHANGED <<format, entries>>
    BY <2>1, StepP, StepBugsP DEF Inv
  <2>2. CASE format = "pmtest" /\ T!Next /\ UNCHANGED <<format, pmemcheckOnly>>
    BY <2>2, StepT, StepBugsT DEF Inv
  <2>3. CASE UNCHANGED vars
    <3>0. UNCHANGED <<log, i, report, time, pc, started, stopped, total, remaining, last, isPerf, entries>>
      BY <2>3 DEF vars
    <3>1. PInv /\ PFound => PInv' /\ PFound'
      BY <3>0, StutterP, StutterBugsP
    <3>2. TInv /\ TFound => TInv' /\ TFound'
      BY <3>0, StutterT, StutterBugsT
    <3>. QED BY <2>3, <3>1, <3>2 DEF Inv, vars
  <2>. QED BY <2>1, <2>2, <2>3 DEF Next
<1>. QED BY <1>1, <1>2, PTL DEF Spec

LEMMA InvGives == Inv => TypeOK /\ TimesIncrease /\ OperationsRead /\ AllBugsRead /\ WholeLogsRead
<1>. SUFFICES ASSUME Inv PROVE TypeOK /\ TimesIncrease /\ OperationsRead /\ AllBugsRead /\ WholeLogsRead
  OBVIOUS
<1>1. CASE format = "pmemcheck"
  <2>1. P!TypeOK /\ P!TimesIncrease /\ P!OperationsRead /\ P!AllBugsRead /\ P!WholeLogsRead
    BY <1>1, ReportP, EndP DEF Inv
  <2>2. TypeOK /\ TimesIncrease /\ OperationsRead
    BY <1>1, <2>1 DEF TypeOK, TimesIncrease, OperationsRead, PMTestDone
  <2>3. AllBugsRead /\ WholeLogsRead
    BY <1>1, <2>1 DEF AllBugsRead, WholeLogsRead, PMTestDone
  <2>. QED BY <2>2, <2>3
<1>2. CASE format = "pmtest"
  <2>1. TypeOK /\ TimesIncrease /\ OperationsRead
    BY <1>2, ReportT DEF Inv
  <2>2. AllBugsRead
    BY <1>2, EndT DEF Inv, AllBugsRead, PMTestDone
  <2>3. WholeLogsRead
    BY <1>2, EndT DEF Inv, TFound, TAborts, WholeLogsRead
  <2>. QED BY <2>1, <2>2, <2>3
<1>. QED BY <1>1, <1>2 DEF Inv

\* The readers of parse-trace keep to their types: a section of pmemcheck's log
\* never counts below zero, and PMTest's entries give at most an event each.
THEOREM TraceParserTypeCorrect == Spec => []TypeOK
BY InvHolds, InvGives, PTL

\* The times that parse-trace gives the events are those of the order they were
\* traced in, which BugReport.dump sorts by: no two are alike, but for the copy
\* that a warning of PMTest makes of its flush; pmemcheck's bugs come last.
THEOREM TimesNeverSwap == Spec => []TimesIncrease
BY InvHolds, InvGives, PTL

\* A parse of either format that comes to its end has read every operation of
\* the log it was given, once, in order, and made up none.
THEOREM AllOperationsRead == Spec => []OperationsRead
BY InvHolds, InvGives, PTL

\* A parse of either format that comes to its end has the bugs of the log, and
\* no other: of pmemcheck's each that is there in full, with all of its frames,
\* its number and the kind of its section; of PMTest's each warning, at its flush,
\* and, where errors follow their assertions, each error, at its assertion.
THEOREM AllBugsAreRead == Spec => []AllBugsRead
BY InvHolds, InvGives, PTL

\* No assertion of _parse_pmemcheck fails on a whole log of which all frames can
\* be read, and no line that it asks for is missing; and it never ends well on a
\* log in which a frame that it needs cannot be read.  _parse_pmtest gives up on a
\* log if, and only if, it is odd or has a warning after an error.
THEOREM WholeLogsAreRead == Spec => []WholeLogsRead
BY InvHolds, InvGives, PTL
=============================================================================
