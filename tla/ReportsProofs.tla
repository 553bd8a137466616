--------------------------- MODULE ReportsProofs ---------------------------
(***************************************************************************)
(* For every trace: what the passes of BugReport.dump leave of it.         *)
(***************************************************************************)
EXTENDS Reports, FiniteSetTheorems, WellFoundedInduction, TLAPS

-----------------------------------------------------------------------------
(* Sequences in the order of their timestamps.                             *)

\* A set of numbers has a least one.
LEMMA Least ==
    ASSUME NEW N \in SUBSET Nat, N # {}
    PROVE  \E x \in N : \A y \in N : x <= y
<1>. DEFINE R == StrictSubsetOrdering(Nat)
            F == FiniteSubsetsOf(Nat)
            Under == {0 .. n : n \in N}
<1>1. IsWellFoundedOn(R, F)
  BY FS_StrictSubsetOrderingWellFounded
<1>2. Under \subseteq F /\ Under # {}
  <2>1. \A n \in Nat : IsFiniteSet(0 .. n) /\ 0 .. n \in SUBSET Nat
    BY FS_Interval
  <2>. QED BY <2>1 DEF FiniteSubsetsOf
<1>3. PICK b \in Under : \A c \in Under : ~ (<<c, b>> \in R)
  <2>. HIDE DEF R, F, Under
  <2>. QED BY <1>1, <1>2, WFMin
<1>4. PICK x \in N : b = 0 .. x
  OBVIOUS
<1>5. ASSUME NEW y \in N, y < x
      PROVE  FALSE
  <2>1. 0 .. y \subseteq 0 .. x /\ x \notin 0 .. y /\ x \in 0 .. x /\ 0 .. x \in SUBSET Nat /\ 0 .. y \in SUBSET Nat
    BY <1>5
  <2>2. <<0 .. y, 0 .. x>> \in R
    BY <2>1 DEF StrictSubsetOrdering
  <2>. QED BY <1>3, <1>4, <2>2
<1>. QED BY <1>5

\* A set with 0, and with each number the next, has them all.
LEMMA SetInduction ==
    ASSUME NEW S, 0 \in S, \A n \in Nat : n \in S => n + 1 \in S
    PROVE  Nat \subseteq S
<1>1. SUFFICES ASSUME Nat \ S # {} PROVE FALSE
  OBVIOUS
<1>2. PICK x \in Nat \ S : \A y \in Nat \ S : x <= y
  BY <1>1, Least
<1>3. x # 0 /\ x - 1 \in Nat
  BY <1>2
<1>4. x - 1 \in S
  BY <1>2, <1>3
<1>. QED BY <1>2, <1>3, <1>4

Ordered(t) == \A j, k \in DOMAIN t : j < k => t[j].timestamp < t[k].timestamp

LEMMA Times ==
    ASSUME NEW t \in Seq(TraceEvent), NEW k \in DOMAIN t
    PROVE  t[k] \in TraceEvent /\ t[k].timestamp \in Nat /\ k \in 1 .. Len(t) /\ Len(t) \in Nat /\ t[k] \in SE!ToSet(t)
<1>1. t[k] \in TraceEvent /\ k \in 1 .. Len(t) /\ Len(t) \in Nat
  OBVIOUS
<1>. QED BY <1>1 DEF TraceEvent, SE!ToSet

LEMMA Appended ==
    ASSUME NEW s \in Seq(TraceEvent), NEW e \in TraceEvent
    PROVE  /\ Append(s, e) \in Seq(TraceEvent)
           /\ SE!ToSet(Append(s, e)) = SE!ToSet(s) \cup {e}
           /\ Ordered(s) /\ (\A d \in SE!ToSet(s) : d.timestamp < e.timestamp) => Ordered(Append(s, e))
<1>. DEFINE a == Append(s, e)
            N == Len(s)
<1>1. /\ a \in Seq(TraceEvent) /\ N \in Nat /\ DOMAIN s = 1 .. N /\ DOMAIN a = 1 .. N + 1
      /\ \A k \in 1 .. N : a[k] = s[k]
      /\ a[N + 1] = e
  OBVIOUS
<1>. HIDE DEF a
<1>2. SE!ToSet(a) = SE!ToSet(s) \cup {e}
  <2>1. \A k \in 1 .. N + 1 : k \in 1 .. N \/ k = N + 1
    BY <1>1
  <2>2. N + 1 \in 1 .. N + 1 /\ 1 .. N \subseteq 1 .. N + 1
    BY <1>1
  <2>. QED BY <1>1, <2>1, <2>2 DEF SE!ToSet
<1>3. ASSUME Ordered(s), \A d \in SE!ToSet(s) : d.timestamp < e.timestamp
      PROVE  Ordered(a)
  <2>. SUFFICES ASSUME NEW j \in 1 .. N + 1, NEW k \in 1 .. N + 1, j < k
                PROVE  a[j].timestamp < a[k].timestamp
    BY <1>1 DEF Ordered
  <2>1. j \in 1 .. N /\ a[j] = s[j] /\ s[j] \in SE!ToSet(s)
    BY <1>1 DEF SE!ToSet
  <2>2. CASE k \in 1 .. N
    BY <1>1, <1>3, <2>1, <2>2 DEF Ordered
  <2>3. CASE k = N + 1
    BY <1>1, <1>3, <2>1, <2>3
  <2>. QED BY <1>1, <2>2, <2>3
<1>. QED BY <1>1, <1>2, <1>3 DEF a

\* What Only makes of the first n events.
NextOnly(t, S, k, before) == IF t[k] \in S THEN Append(before, t[k]) ELSE before
IsOnly(f, t, S, n) ==
    /\ f \in [0 .. n -> Seq(TraceEvent)]
    /\ f[0] = <<>>
    /\ \A k \in 1 .. n : f[k] = NextOnly(t, S, k, f[k - 1])

LEMMA OnlyExists ==
    ASSUME NEW t \in Seq(TraceEvent), NEW S
    PROVE  \E f : IsOnly(f, t, S, Len(t))
<1>. DEFINE D == {n \in Nat : n <= Len(t) => \E f : IsOnly(f, t, S, n)}
<1>1. 0 \in D
  <2>. DEFINE f == [k \in 0 .. 0 |-> <<>>]
  <2>1. IsOnly(f, t, S, 0)
    BY DEF IsOnly
  <2>. QED BY <2>1
<1>2. ASSUME NEW n \in Nat, n \in D
      PROVE  n + 1 \in D
  <2>. SUFFICES ASSUME n + 1 <= Len(t)
                PROVE  \E f : IsOnly(f, t, S, n + 1)
    OBVIOUS
  <2>1. n <= Len(t) /\ n + 1 \in DOMAIN t
    OBVIOUS
  <2>2. PICK f : IsOnly(f, t, S, n)
    BY <1>2, <2>1
  <2>. DEFINE g == [k \in 0 .. n + 1 |-> IF k = n + 1 THEN NextOnly(t, S, n + 1, f[n]) ELSE f[k]]
  <2>3. NextOnly(t, S, n + 1, f[n]) \in Seq(TraceEvent)
    BY <2>1, <2>2 DEF IsOnly, NextOnly
  <2>4. g \in [0 .. n + 1 -> Seq(TraceEvent)] /\ g[0] = <<>>
    BY <2>2, <2>3 DEF IsOnly
  <2>5. ASSUME NEW k \in 1 .. n + 1
        PROVE  g[k] = NextOnly(t, S, k, g[k - 1])
    <3>1. k - 1 \in 0 .. n /\ g[k - 1] = f[k - 1]
      OBVIOUS
    <3>2. CASE k = n + 1
      BY <3>1, <3>2
    <3>3. CASE k \in 1 .. n
      BY <2>2, <3>1, <3>3 DEF IsOnly
    <3>. QED BY <3>2, <3>3
  <2>. HIDE DEF g
  <2>6. IsOnly(g, t, S, n + 1)
    BY <2>4, <2>5 DEF IsOnly
  <2>. QED BY <2>6
<1>3. Nat \subseteq D
  <2>. HIDE DEF D
  <2>. QED BY <1>1, <1>2, SetInduction
<1>. QED BY <1>3

LEMMA OnlyUpTo ==
    ASSUME NEW t \in Seq(TraceEvent), Ordered(t), NEW S, NEW f, IsOnly(f, t, S, Len(t))
    PROVE  /\ f[Len(t)] \in Seq(TraceEvent) /\ Ordered(f[Len(t)])
           /\ SE!ToSet(f[Len(t)]) = SE!ToSet(t) \cap S
<1>. DEFINE Good(n) == f[n] \in Seq(TraceEvent) /\ Ordered(f[n]) /\ SE!ToSet(f[n]) = {t[k] : k \in 1 .. n} \cap S
            D == {n \in Nat : n <= Len(t) => Good(n)}
<1>0. Len(t) \in Nat /\ DOMAIN t = 1 .. Len(t)
  OBVIOUS
<1>1. 0 \in D
  <2>1. f[0] = <<>>
    BY DEF IsOnly
  <2>2. <<>> \in Seq(TraceEvent) /\ DOMAIN <<>> = {} /\ 1 .. 0 = {}
    OBVIOUS
  <2>3. Good(0)
    BY <2>1, <2>2 DEF Ordered, SE!ToSet
  <2>. QED BY <2>3
<1>2. ASSUME NEW n \in Nat, n \in D
      PROVE  n + 1 \in D
  <2>. SUFFICES ASSUME n + 1 <= Len(t)
                PROVE  Good(n + 1)
    OBVIOUS
  <2>1. Good(n) /\ n + 1 \in DOMAIN t /\ n + 1 \in 1 .. Len(t)
    BY <1>0, <1>2
  <2>2. f[n + 1] = NextOnly(t, S, n + 1, f[n])
    BY <2>1 DEF IsOnly
  <2>3. {t[k] : k \in 1 .. n + 1} = {t[k] : k \in 1 .. n} \cup {t[n + 1]}
    <3>1. \A k \in 1 .. n + 1 : k \in 1 .. n \/ k = n + 1
      OBVIOUS
    <3>2. 1 .. n \subseteq 1 .. n + 1 /\ n + 1 \in 1 .. n + 1
      OBVIOUS
    <3>. QED BY <3>1, <3>2
  <2>4. CASE t[n + 1] \in S
    <3>1. f[n + 1] = Append(f[n], t[n + 1]) /\ t[n + 1] \in TraceEvent /\ f[n] \in Seq(TraceEvent)
      BY <2>1, <2>2, <2>4, Times DEF NextOnly
    <3>2. \A d \in SE!ToSet(f[n]) : d.timestamp < t[n + 1].timestamp
      <4>1. \A k \in 1 .. n : k \in DOMAIN t /\ k < n + 1
        BY <1>0, <2>1
      <4>. QED BY <2>1, <4>1 DEF Ordered
    <3>3. /\ f[n + 1] \in Seq(TraceEvent) /\ SE!ToSet(f[n + 1]) = SE!ToSet(f[n]) \cup {t[n + 1]}
          /\ Ordered(f[n + 1])
      BY <2>1, <3>1, <3>2, Appended
    <3>. QED BY <2>1, <2>3, <2>4, <3>3
  <2>5. CASE t[n + 1] \notin S
    BY <2>1, <2>2, <2>3, <2>5 DEF NextOnly
  <2>. QED BY <2>4, <2>5
<1>3. Nat \subseteq D
  <2>. HIDE DEF D
  <2>. QED BY <1>1, <1>2, SetInduction
<1>4. Good(Len(t))
  <2>. HIDE DEF Good
  <2>1. Len(t) \in D
    BY <1>0, <1>3
  <2>. QED BY <1>0, <2>1
<1>. QED BY <1>0, <1>4 DEF SE!ToSet

\* Only leaves the events of the set, in their order.
LEMMA OnlyIs ==
    ASSUME NEW t \in Seq(TraceEvent), Ordered(t), NEW S
    PROVE  /\ Only(t, S) \in Seq(TraceEvent) /\ Ordered(Only(t, S))
           /\ SE!ToSet(Only(t, S)) = SE!ToSet(t) \cap S
<1>. DEFINE N == Len(t)
            Body(up) == [n \in 0 .. N |->
                            IF n = 0 THEN <<>>
                            ELSE IF t[n] \in S THEN Append(up[n - 1], t[n])
                            ELSE up[n - 1]]
            u == CHOOSE up : up = Body(up)
<1>0. N \in Nat
  OBVIOUS
<1>1. PICK f : IsOnly(f, t, S, N)
  BY OnlyExists
<1>2. f = Body(f)
  <2>1. ASSUME NEW n \in 0 .. N
        PROVE  f[n] = Body(f)[n]
    <3>1. CASE n = 0
      BY <1>1, <3>1 DEF IsOnly
    <3>2. CASE n # 0
      <4>1. n \in 1 .. N
        BY <3>2
      <4>. QED BY <1>1, <3>2, <4>1 DEF IsOnly, NextOnly
    <3>. QED BY <3>1, <3>2
  <2>2. DOMAIN f = 0 .. N /\ f = [n \in 0 .. N |-> f[n]]
    BY <1>1 DEF IsOnly
  <2>. QED BY <2>1, <2>2
<1>3. u = Body(u)
  <2>. HIDE DEF Body
  <2>. QED BY <1>2
<1>4. Only(t, S) = u[N]
  BY DEF Only
<1>5. u[0] = <<>> /\ \A n \in 1 .. N : u[n] = NextOnly(t, S, n, u[n - 1])
  <2>1. \A n \in 0 .. N : u[n] = Body(u)[n]
    BY <1>3
  <2>. HIDE DEF u
  <2>2. u[0] = <<>>
    <3>1. 0 \in 0 .. N
      OBVIOUS
    <3>. QED BY <2>1, <3>1
  <2>3. ASSUME NEW n \in 1 .. N
        PROVE  u[n] = NextOnly(t, S, n, u[n - 1])
    <3>1. n \in 0 .. N /\ n # 0
      OBVIOUS
    <3>. QED BY <2>1, <3>1 DEF NextOnly
  <2>. QED BY <2>2, <2>3
<1>6. u = [n \in 0 .. N |-> Body(u)[n]]
  <2>1. Body(u) = [n \in 0 .. N |-> Body(u)[n]]
    OBVIOUS
  <2>. HIDE DEF u, Body
  <2>. QED BY <1>3, <2>1
<1>. HIDE DEF u, Body
<1>. DEFINE D == {n \in Nat : n <= N => u[n] \in Seq(TraceEvent)}
<1>7. Nat \subseteq D
  <2>1. 0 \in D
    <3>1. u[0] \in Seq(TraceEvent)
      BY <1>5
    <3>. QED BY <3>1
  <2>2. ASSUME NEW n \in Nat, n \in D
        PROVE  n + 1 \in D
    <3>. SUFFICES ASSUME n + 1 <= N PROVE u[n + 1] \in Seq(TraceEvent)
      OBVIOUS
    <3>1. u[n] \in Seq(TraceEvent) /\ n + 1 \in 1 .. N /\ (n + 1) - 1 = n
      BY <2>2
    <3>2. u[n + 1] = NextOnly(t, S, n + 1, u[n])
      BY <1>5, <3>1
    <3>3. t[n + 1] \in TraceEvent
      BY <3>1
    <3>. QED BY <3>1, <3>2, <3>3 DEF NextOnly
  <2>. HIDE DEF D
  <2>. QED BY <2>1, <2>2, SetInduction
<1>8. \A n \in 0 .. N : u[n] \in Seq(TraceEvent)
  BY <1>0, <1>7
<1>9. u \in [0 .. N -> Seq(TraceEvent)]
  <2>1. \A n \in 0 .. N : Body(u)[n] \in Seq(TraceEvent)
    BY <1>3, <1>8
  <2>. QED BY <1>6, <2>1
<1>10. IsOnly(u, t, S, N)
  BY <1>5, <1>9 DEF IsOnly
<1>. QED BY <1>4, <1>10, OnlyUpTo

\* What is left of a sequence without its n-th event.
LEMMA Removed ==
    ASSUME NEW t \in Seq(TraceEvent), Ordered(t), NEW n \in DOMAIN t
    PROVE  /\ SE!RemoveAt(t, n) \in Seq(TraceEvent) /\ Ordered(SE!RemoveAt(t, n))
           /\ Len(SE!RemoveAt(t, n)) = Len(t) - 1
           /\ \A k \in 1 .. n - 1 : SE!RemoveAt(t, n)[k] = t[k]
           /\ SE!ToSet(SE!RemoveAt(t, n)) = SE!ToSet(t) \ {t[n]}
<1>. DEFINE N == Len(t)
            l == SubSeq(t, 1, n - 1)
            r == SubSeq(t, n + 1, N)
            a == l \o r
<1>1. N \in Nat /\ n \in 1 .. N /\ DOMAIN t = 1 .. N
  OBVIOUS
<1>2. /\ l \in Seq(TraceEvent) /\ Len(l) = n - 1
      /\ \A k \in 1 .. n - 1 : l[k] = t[k]
  BY <1>1
<1>3. /\ r \in Seq(TraceEvent) /\ Len(r) = N - n
      /\ \A k \in 1 .. N - n : r[k] = t[n + k]
  BY <1>1
<1>. HIDE DEF l, r
<1>4. /\ a \in Seq(TraceEvent) /\ Len(a) = N - 1
      /\ \A k \in 1 .. n - 1 : a[k] = l[k]
      /\ \A k \in n .. N - 1 : a[k] = r[k - (n - 1)]
  <2>1. /\ a \in Seq(TraceEvent) /\ Len(a) = Len(l) + Len(r)
        /\ \A k \in 1 .. Len(l) + Len(r) : a[k] = IF k <= Len(l) THEN l[k] ELSE r[k - Len(l)]
    BY <1>2, <1>3
  <2>. HIDE DEF a
  <2>2. Len(l) + Len(r) = N - 1
    BY <1>1, <1>2, <1>3
  <2>3. \A k \in 1 .. n - 1 : k \in 1 .. Len(l) + Len(r) /\ k <= Len(l)
    BY <1>1, <1>2, <1>3
  <2>4. \A k \in n .. N - 1 : k \in 1 .. Len(l) + Len(r) /\ ~(k <= Len(l))
    BY <1>1, <1>2, <1>3
  <2>. QED BY <1>2, <2>1, <2>2, <2>3, <2>4
<1>5. DOMAIN a = 1 .. N - 1
  BY <1>4
<1>. HIDE DEF a
<1>6. \A k \in 1 .. n - 1 : a[k] = t[k]
  BY <1>2, <1>4
<1>7. ASSUME NEW k \in n .. N - 1
      PROVE  a[k] = t[k + 1]
  <2>1. k - (n - 1) \in 1 .. N - n /\ n + (k - (n - 1)) = k + 1
    BY <1>1
  <2>. QED BY <1>3, <1>4, <2>1
<1>8. Ordered(a)
  <2>. SUFFICES ASSUME NEW j \in 1 .. N - 1, NEW k \in 1 .. N - 1, j < k
                PROVE  a[j].timestamp < a[k].timestamp
    BY <1>5 DEF Ordered
  <2>. DEFINE At1(i) == IF i < n THEN i ELSE i + 1
  <2>1. \A i \in 1 .. N - 1 : At1(i) \in 1 .. N /\ a[i] = t[At1(i)]
    BY <1>1, <1>6, <1>7
  <2>2. At1(j) < At1(k)
    BY <1>1
  <2>. HIDE DEF At1
  <2>. QED BY <1>1, <2>1, <2>2 DEF Ordered
<1>9. SE!ToSet(a) = SE!ToSet(t) \ {t[n]}
  <2>1. ASSUME NEW k \in 1 .. N - 1
        PROVE  a[k] \in SE!ToSet(t) \ {t[n]}
    <3>1. PICK m \in 1 .. N : a[k] = t[m] /\ m # n
      <4>1. CASE k < n
        BY <1>1, <1>6, <4>1
      <4>2. CASE k >= n
        BY <1>1, <1>7, <4>2
      <4>. QED BY <1>1, <4>1, <4>2
    <3>2. t[m].timestamp \in Nat /\ t[n].timestamp \in Nat /\ t[m] \in SE!ToSet(t)
      BY <1>1, Times
    <3>3. t[m].timestamp # t[n].timestamp
      BY <1>1, <3>1, <3>2 DEF Ordered
    <3>. QED BY <3>1, <3>2, <3>3
  <2>2. ASSUME NEW m \in 1 .. N, m # n
        PROVE  t[m] \in SE!ToSet(a)
    <3>1. CASE m < n
      BY <1>1, <1>5, <1>6, <3>1 DEF SE!ToSet
    <3>2. CASE m > n
      <4>1. m - 1 \in n .. N - 1 /\ m - 1 \in 1 .. N - 1 /\ (m - 1) + 1 = m
        BY <1>1, <3>2
      <4>. QED BY <1>5, <1>7, <4>1 DEF SE!ToSet
    <3>. QED BY <1>1, <2>2, <3>1, <3>2
  <2>. QED BY <1>1, <1>5, <2>1, <2>2 DEF SE!ToSet
<1>10. SE!RemoveAt(t, n) = a
  BY DEF SE!RemoveAt, a, l, r
<1>. QED BY <1>4, <1>6, <1>8, <1>9, <1>10

-----------------------------------------------------------------------------
(* What the scan of a bug reads of a trace.                                *)

\* A trace with fewer events reads the same if what the scan reads is kept.
LEMMA SameRead ==
    ASSUME NEW t, NEW u, NEW b, SE!ToSet(u) \subseteq SE!ToSet(t),
           \A e \in SE!ToSet(t) : IsFence(e) \/ (IsStore(e) /\ Overlap(e, b)) => e \in SE!ToSet(u)
    PROVE  View(u, b) = View(t, b)
<1>1. Read(u, b) = Read(t, b)
  BY DEF Read
<1>. QED BY <1>1 DEF View, StoreBetween

\* A fence is not read when another comes before it and no store between.
LEMMA SameViewWithoutFence ==
    ASSUME NEW t, NEW u, NEW b, NEW d \in SE!ToSet(t), NEW c \in SE!ToSet(t),
           \A e \in SE!ToSet(t) : e.timestamp \in Nat, b.timestamp \in Nat,
           SE!ToSet(u) = SE!ToSet(t) \ {d},
           IsFence(c), IsFence(d), c.timestamp < d.timestamp,
           \A e \in SE!ToSet(t) : IsStore(e) => e.timestamp <= c.timestamp \/ d.timestamp < e.timestamp
    PROVE  View(u, b) = View(t, b)
<1>1. Read(u, b) = Read(t, b) \ {d}
  BY DEF Read
<1>2. ~IsStore(d) /\ Read(t, b) \subseteq SE!ToSet(t) /\ c # d
  BY DEF IsStore, IsFence, Read
<1>3. \A f, e : StoreBetween(u, b, f, e) <=> StoreBetween(t, b, f, e)
  BY <1>1, <1>2 DEF StoreBetween
<1>4. d \in Read(t, b) => c \in Read(t, b)
  BY DEF Read
<1>5. ~StoreBetween(t, b, c, d)
  BY <1>2 DEF StoreBetween
<1>6. d \notin View(t, b)
  BY <1>4, <1>5 DEF View
<1>7. ASSUME NEW e \in Read(u, b), IsFence(e), d \in Read(t, b), d.timestamp < e.timestamp,
             \A f \in Read(u, b) : IsFence(f) /\ f.timestamp < e.timestamp => StoreBetween(t, b, f, e)
      PROVE  StoreBetween(t, b, d, e)
  <2>1. c \in Read(u, b) /\ c.timestamp < e.timestamp
    BY <1>1, <1>2, <1>4, <1>7
  <2>2. PICK s \in Read(t, b) : IsStore(s) /\ c.timestamp < s.timestamp /\ s.timestamp < e.timestamp
    BY <1>7, <2>1 DEF StoreBetween
  <2>3. d.timestamp < s.timestamp
    BY <1>2, <2>2
  <2>. QED BY <2>2, <2>3 DEF StoreBetween
<1>8. ASSUME NEW e \in Read(u, b)
      PROVE  e \in View(u, b) <=> e \in View(t, b)
  BY <1>1, <1>3, <1>7 DEF View
<1>. QED
  <2>1. View(u, b) \subseteq Read(u, b) /\ View(t, b) \subseteq Read(t, b)
    BY DEF View
  <2>. QED BY <1>1, <1>6, <1>8, <2>1

-----------------------------------------------------------------------------
(* The inductive invariant.                                                *)

Typed ==
    /\ input \in Inputs
    /\ trace \in Seq(TraceEvent) /\ Ordered(trace)
    /\ SE!ToSet(trace) \subseteq SE!ToSet(input)
    /\ step \in 1 .. 5
    /\ pos \in 1 .. Len(trace) + 1
    /\ in_flight \subseteq SE!ToSet(trace) /\ new_trace \subseteq SE!ToSet(trace)
    /\ prev_te \in 0 .. Len(input)

\* What belongs to one pass is as it began outside of it.
Cleared ==
    /\ step # 3 => in_flight = {} /\ new_trace = {}
    /\ step \in {1, 2} => pos = 1
    /\ step \in {1, 2, 3} => prev_te = 0
    /\ step = 1 => trace = input

\* The third pass keeps all it passes but the flushes.
Landed ==
    step = 3 =>
        /\ \A j \in 1 .. pos - 1 : IsFlush(trace[j]) \/ trace[j] \in new_trace \cup in_flight
        /\ \A e \in new_trace \cup in_flight : ~IsFlush(e)

NoFlush == step \in {4, 5} => \A e \in SE!ToSet(trace) : ~IsFlush(e)

\* The fourth pass has seen no operation later than prev_te.
LastOp ==
    step = 4 =>
        /\ \A j \in 1 .. pos - 1 : IsBug(trace[j]) \/ trace[j].timestamp <= prev_te
        /\ prev_te # 0 => \E j \in 1 .. pos - 1 : trace[j].timestamp = prev_te

\* The bugs left are the first of their stacks.
FirstBugs(t) == {b \in BugsOf(t) : IsUnique(t, b)}
SameBugs == step # 1 => BugsOf(trace) = FirstBugs(input)
SameView == \A b \in BugsOf(trace) : View(trace, b) = View(input, b)

IInv == Typed /\ Cleared /\ Landed /\ NoFlush /\ LastOp /\ SameBugs /\ SameView

LEMMA InputTyped ==
    ASSUME NEW t \in Inputs
    PROVE  /\ t \in Seq(TraceEvent) /\ Ordered(t) /\ Len(t) \in Nat
           /\ \A e \in SE!ToSet(t) : /\ e \in TraceEvent /\ e.timestamp \in 1 .. Len(t)
                                     /\ t[e.timestamp] = e
<1>1. t \in Seq(TraceEvent) /\ \A j \in DOMAIN t : t[j].timestamp = j
  BY InputsAssumption
<1>2. DOMAIN t = 1 .. Len(t) /\ Len(t) \in Nat /\ \A j \in 1 .. Len(t) : t[j] \in TraceEvent
  BY <1>1
<1>. QED BY <1>1, <1>2 DEF Ordered, SE!ToSet

\* The kinds of events.
LEMMA Kinds ==
    ASSUME NEW e
    PROVE  /\ IsBug(e) => ~IsStore(e) /\ ~IsFlush(e) /\ ~IsFence(e)
           /\ IsFence(e) => ~IsStore(e) /\ ~IsFlush(e)
           /\ IsStore(e) => ~IsFlush(e)
BY DEF IsBug, IsStore, IsFlush, IsFence, BugEvents

\* A pass that only removes events, and no bug, and none that is read.
LEMMA KeepsView ==
    ASSUME SameView, NEW u, SE!ToSet(u) \subseteq SE!ToSet(trace), BugsOf(u) \subseteq BugsOf(trace),
           \A b \in BugsOf(u) : \A e \in SE!ToSet(trace) :
                IsFence(e) \/ (IsStore(e) /\ Overlap(e, b)) => e \in SE!ToSet(u)
    PROVE  \A b \in BugsOf(u) : View(u, b) = View(input, b)
<1>. SUFFICES ASSUME NEW b \in BugsOf(u)
              PROVE  View(u, b) = View(input, b)
  OBVIOUS
<1>1. View(u, b) = View(trace, b)
  BY SameRead
<1>. QED BY <1>1 DEF SameView

LEMMA InitOK == Init => IInv
<1>. SUFFICES ASSUME Init PROVE IInv
  OBVIOUS
<1>1. input \in Seq(TraceEvent) /\ Ordered(input) /\ Len(input) \in Nat
  BY InputTyped DEF Init
<1>2. Typed
  BY <1>1 DEF Init, Typed
<1>3. Cleared /\ Landed /\ NoFlush /\ LastOp /\ SameBugs
  BY DEF Init, Cleared, Landed, NoFlush, LastOp, SameBugs
<1>4. SameView
  BY DEF Init, SameView
<1>. QED BY <1>2, <1>3, <1>4 DEF IInv

LEMMA RemoveRedundantBugsOK == IInv /\ RemoveRedundantBugs => IInv'
<1>. SUFFICES ASSUME IInv, RemoveRedundantBugs PROVE IInv'
  OBVIOUS
<1>. DEFINE K == {e \in SE!ToSet(trace) : IsBug(e) => IsUnique(trace, e)}
<1>1. /\ trace' = Only(trace, K) /\ step = 1 /\ step' = 2 /\ trace = input
      /\ input' = input /\ pos' = 1 /\ in_flight' = {} /\ new_trace' = {} /\ prev_te' = 0
  BY DEF RemoveRedundantBugs, IInv, Cleared
<1>2. trace' \in Seq(TraceEvent) /\ Ordered(trace') /\ SE!ToSet(trace') = K
  <2>1. K \subseteq SE!ToSet(trace)
    OBVIOUS
  <2>. HIDE DEF K
  <2>2. /\ Only(trace, K) \in Seq(TraceEvent) /\ Ordered(Only(trace, K))
        /\ SE!ToSet(Only(trace, K)) = SE!ToSet(trace) \cap K
    BY OnlyIs DEF IInv, Typed
  <2>. QED BY <1>1, <2>1, <2>2
<1>3. BugsOf(trace') = FirstBugs(input)
  BY <1>1, <1>2 DEF BugsOf, FirstBugs
<1>4. SameView'
  <2>1. BugsOf(trace') \subseteq BugsOf(trace)
    BY <1>1, <1>3 DEF FirstBugs
  <2>2. \A e \in SE!ToSet(trace) : IsFence(e) \/ IsStore(e) => e \in SE!ToSet(trace')
    BY <1>2, Kinds
  <2>3. \A b \in BugsOf(trace') : View(trace', b) = View(input, b)
    BY <1>2, <2>1, <2>2, KeepsView DEF IInv
  <2>. QED BY <1>1, <2>3 DEF SameView
<1>5. Typed'
  <2>1. Len(trace') \in Nat /\ 0 \in 0 .. Len(input) /\ SE!ToSet(trace') \subseteq SE!ToSet(input)
    BY <1>1, <1>2, InputTyped DEF IInv, Typed
  <2>. QED BY <1>1, <1>2, <2>1 DEF IInv, Typed
<1>. QED BY <1>1, <1>3, <1>4, <1>5 DEF IInv, Cleared, Landed, NoFlush, LastOp, SameBugs

LEMMA RemoveIrrelevantOK == IInv /\ RemoveIrrelevant => IInv'
<1>. SUFFICES ASSUME IInv, RemoveIrrelevant PROVE IInv'
  OBVIOUS
<1>. DEFINE K == {e \in SE!ToSet(trace) : IsStore(e) \/ IsFlush(e) => IsRelevant(trace, e)}
<1>1. /\ trace' = Only(trace, K) /\ step = 2 /\ step' = 3
      /\ input' = input /\ pos' = 1 /\ in_flight' = {} /\ new_trace' = {} /\ prev_te' = 0
  BY DEF RemoveIrrelevant, IInv, Cleared
<1>2. trace' \in Seq(TraceEvent) /\ Ordered(trace') /\ SE!ToSet(trace') = K
  <2>1. K \subseteq SE!ToSet(trace)
    OBVIOUS
  <2>. HIDE DEF K
  <2>2. /\ Only(trace, K) \in Seq(TraceEvent) /\ Ordered(Only(trace, K))
        /\ SE!ToSet(Only(trace, K)) = SE!ToSet(trace) \cap K
    BY OnlyIs DEF IInv, Typed
  <2>. QED BY <1>1, <2>1, <2>2
<1>3. BugsOf(trace') = BugsOf(trace)
  BY <1>2, Kinds DEF BugsOf
<1>4. SameView'
  <2>1. ASSUME NEW b \in BugsOf(trace'), NEW e \in SE!ToSet(trace), IsFence(e) \/ (IsStore(e) /\ Overlap(e, b))
        PROVE  e \in SE!ToSet(trace')
    <3>1. CASE IsFence(e)
      BY <1>2, <3>1, Kinds
    <3>2. CASE IsStore(e) /\ Overlap(e, b)
      BY <1>2, <1>3, <3>2 DEF IsRelevant
    <3>. QED BY <2>1, <3>1, <3>2
  <2>2. \A b \in BugsOf(trace') : View(trace', b) = View(input, b)
    BY <1>2, <1>3, <2>1, KeepsView DEF IInv
  <2>. QED BY <1>1, <2>2 DEF SameView
<1>5. Typed'
  <2>1. Len(trace') \in Nat /\ 0 \in 0 .. Len(input) /\ SE!ToSet(trace') \subseteq SE!ToSet(input)
    BY <1>1, <1>2, InputTyped DEF IInv, Typed
  <2>. QED BY <1>1, <1>2, <2>1 DEF IInv, Typed
<1>6. SameBugs'
  BY <1>1, <1>3 DEF IInv, SameBugs
<1>. QED BY <1>1, <1>4, <1>5, <1>6 DEF IInv, Cleared, Landed, NoFlush, LastOp

\* A step of the third pass keeps what it passes, unless it is a flush.
LEMMA ThirdPassOK ==
    ASSUME IInv, At(3), pos' = pos + 1, UNCHANGED <<input, trace, step, prev_te>>,
           new_trace' \subseteq SE!ToSet(trace), in_flight' \subseteq SE!ToSet(trace),
           new_trace \cup in_flight \subseteq new_trace' \cup in_flight',
           IsFlush(trace[pos]) \/ trace[pos] \in new_trace' \cup in_flight',
           \A e \in new_trace' \cup in_flight' : ~IsFlush(e)
    PROVE  IInv'
<1>1. step = 3 /\ step' = 3 /\ pos \in Nat /\ Len(trace) \in Nat /\ pos <= Len(trace)
  BY DEF At, IInv, Typed
<1>2. Typed'
  <2>1. pos' \in 1 .. Len(trace') + 1
    BY <1>1 DEF IInv, Typed
  <2>. QED BY <1>1, <2>1 DEF IInv, Typed
<1>3. Landed'
  <2>. SUFFICES ASSUME NEW j \in 1 .. pos' - 1
                PROVE  IsFlush(trace'[j]) \/ trace'[j] \in new_trace' \cup in_flight'
    BY DEF Landed
  <2>1. j \in 1 .. pos - 1 \/ j = pos
    BY <1>1
  <2>. QED BY <1>1, <2>1 DEF IInv, Landed
<1>4. SameBugs' /\ SameView'
  BY <1>1 DEF IInv, SameBugs, SameView
<1>5. Cleared' /\ NoFlush' /\ LastOp'
  BY <1>1 DEF IInv, Cleared, NoFlush, LastOp
<1>. QED BY <1>2, <1>3, <1>4, <1>5 DEF IInv

LEMMA AtPos == ASSUME Typed, pos <= Len(trace)
               PROVE  pos \in DOMAIN trace /\ trace[pos] \in SE!ToSet(trace)
<1>1. pos \in DOMAIN trace
  BY DEF Typed
<1>. QED BY <1>1 DEF SE!ToSet

LEMMA PassEventOK == IInv /\ PassEvent => IInv'
<1>. SUFFICES ASSUME IInv, PassEvent PROVE IInv'
  OBVIOUS
<1>1. At(3) /\ pos <= Len(trace) /\ step = 3 /\ trace[pos] \in SE!ToSet(trace)
  BY AtPos DEF PassEvent, At, IInv
<1>2. /\ new_trace' \subseteq SE!ToSet(trace) /\ in_flight' \subseteq SE!ToSet(trace)
      /\ new_trace \cup in_flight \subseteq new_trace' \cup in_flight'
      /\ IsFlush(trace[pos]) \/ trace[pos] \in new_trace' \cup in_flight'
      /\ \A e \in new_trace' \cup in_flight' : ~IsFlush(e)
  BY <1>1 DEF PassEvent, IInv, Typed, Landed
<1>3. pos' = pos + 1 /\ UNCHANGED <<input, trace, step, prev_te>>
  BY DEF PassEvent
<1>. QED BY <1>1, <1>2, <1>3, ThirdPassOK

LEMMA TrackOK == IInv /\ Track => IInv'
<1>. SUFFICES ASSUME IInv, Track PROVE IInv'
  OBVIOUS
<1>1. At(3) /\ pos <= Len(trace) /\ step = 3 /\ trace[pos] \in SE!ToSet(trace)
  BY AtPos DEF Track, At, IInv
<1>2. /\ new_trace' \subseteq SE!ToSet(trace) /\ in_flight' \subseteq SE!ToSet(trace)
      /\ new_trace \cup in_flight \subseteq new_trace' \cup in_flight'
      /\ IsFlush(trace[pos]) \/ trace[pos] \in new_trace' \cup in_flight'
      /\ \A e \in new_trace' \cup in_flight' : ~IsFlush(e)
  BY <1>1, Kinds DEF Track, IInv, Typed, Landed
<1>3. pos' = pos + 1 /\ UNCHANGED <<input, trace, step, prev_te>>
  BY DEF Track
<1>. QED BY <1>1, <1>2, <1>3, ThirdPassOK

LEMMA LandOK == IInv /\ Land => IInv'
<1>. SUFFICES ASSUME IInv, Land PROVE IInv'
  OBVIOUS
<1>1. At(3) /\ step = 3
  BY DEF Land, At
<1>2. /\ new_trace' \subseteq SE!ToSet(trace) /\ in_flight' \subseteq SE!ToSet(trace)
      /\ new_trace' \cup in_flight' = new_trace \cup in_flight
  BY DEF Land, InFlightOf, IInv, Typed
<1>3. IsFlush(trace[pos]) /\ \A e \in new_trace' \cup in_flight' : ~IsFlush(e)
  BY <1>1, <1>2 DEF Land, IInv, Landed
<1>4. pos' = pos + 1 /\ UNCHANGED <<input, trace, step, prev_te>>
  BY DEF Land
<1>. QED BY <1>1, <1>2, <1>3, <1>4, ThirdPassOK

\* Sorting brings back, in order, what the third pass kept of the trace.
LEMMA SortTraceOK == IInv /\ SortTrace => IInv'
<1>. SUFFICES ASSUME IInv, SortTrace PROVE IInv'
  OBVIOUS
<1>. DEFINE K == new_trace \cup in_flight
<1>1. /\ trace' = Only(input, K) /\ step = 3 /\ step' = 4 /\ pos > Len(trace)
      /\ input' = input /\ pos' = 1 /\ in_flight' = {} /\ new_trace' = {} /\ prev_te' = 0
  BY DEF SortTrace, IInv, Cleared
<1>2. trace' \in Seq(TraceEvent) /\ Ordered(trace') /\ SE!ToSet(trace') = K
  <2>1. K \subseteq SE!ToSet(input) /\ input \in Inputs
    BY DEF IInv, Typed
  <2>. HIDE DEF K
  <2>2. /\ Only(input, K) \in Seq(TraceEvent) /\ Ordered(Only(input, K))
        /\ SE!ToSet(Only(input, K)) = SE!ToSet(input) \cap K
    BY <2>1, InputTyped, OnlyIs
  <2>. QED BY <1>1, <2>1, <2>2
<1>3. K \subseteq SE!ToSet(trace) /\ \A e \in K : ~IsFlush(e)
  BY <1>1 DEF IInv, Typed, Landed
<1>4. \A e \in SE!ToSet(trace) : IsFlush(e) \/ e \in K
  <2>1. \A j \in 1 .. pos - 1 : IsFlush(trace[j]) \/ trace[j] \in K
    BY <1>1 DEF IInv, Landed
  <2>2. DOMAIN trace = 1 .. Len(trace) /\ \A j \in 1 .. Len(trace) : j \in 1 .. pos - 1
    BY <1>1 DEF IInv, Typed
  <2>. QED BY <2>1, <2>2 DEF SE!ToSet
<1>. HIDE DEF K
<1>5. BugsOf(trace') = BugsOf(trace)
  BY <1>2, <1>3, <1>4, Kinds DEF BugsOf
<1>6. SameView'
  <2>1. \A e \in SE!ToSet(trace) : IsFence(e) \/ IsStore(e) => e \in SE!ToSet(trace')
    BY <1>2, <1>4, Kinds
  <2>2. \A b \in BugsOf(trace') : View(trace', b) = View(input, b)
    BY <1>2, <1>3, <1>5, <2>1, KeepsView DEF IInv
  <2>. QED BY <1>1, <2>2 DEF SameView
<1>7. Typed'
  <2>1. Len(trace') \in Nat /\ 0 \in 0 .. Len(input) /\ SE!ToSet(trace') \subseteq SE!ToSet(input)
    BY <1>1, <1>2, <1>3, InputTyped DEF IInv, Typed
  <2>. QED BY <1>1, <1>2, <2>1 DEF IInv, Typed
<1>8. SameBugs' /\ NoFlush'
  BY <1>1, <1>2, <1>3, <1>5 DEF IInv, SameBugs, NoFlush
<1>. QED BY <1>1, <1>6, <1>7, <1>8 DEF IInv, Cleared, Landed, LastOp

LEMMA KeepEventOK == IInv /\ KeepEvent => IInv'
<1>. SUFFICES ASSUME IInv, KeepEvent PROVE IInv'
  OBVIOUS
<1>. DEFINE e == trace[pos]
<1>1. /\ step = 4 /\ pos <= Len(trace) /\ pos' = pos + 1
      /\ UNCHANGED <<input, trace, step, in_flight, new_trace>>
      /\ prev_te' = IF IsBug(e) THEN prev_te ELSE e.timestamp
  BY DEF KeepEvent, At
<1>2. pos \in DOMAIN trace /\ e \in SE!ToSet(trace) /\ trace \in Seq(TraceEvent) /\ pos \in Nat /\ Len(trace) \in Nat
  BY <1>1, AtPos DEF IInv, Typed
<1>3. e.timestamp \in 1 .. Len(input) /\ Len(input) \in Nat
  BY <1>2, InputTyped DEF IInv, Typed
<1>4. \A j \in 1 .. pos - 1 : trace[j].timestamp \in Nat /\ trace[j].timestamp < e.timestamp
  <2>. SUFFICES ASSUME NEW j \in 1 .. pos - 1
                PROVE  trace[j].timestamp \in Nat /\ trace[j].timestamp < e.timestamp
    OBVIOUS
  <2>1. j \in DOMAIN trace /\ j < pos
    BY <1>1, <1>2
  <2>. QED BY <1>2, <2>1, Times DEF IInv, Typed, Ordered
<1>5. prev_te \in Nat /\ prev_te' \in 0 .. Len(input)
  BY <1>1, <1>3 DEF IInv, Typed
<1>6. Typed'
  <2>1. pos' \in 1 .. Len(trace') + 1
    BY <1>1, <1>2
  <2>. QED BY <1>1, <1>5, <2>1 DEF IInv, Typed
<1>. HIDE DEF e
<1>7. LastOp'
  <2>1. \A j \in 1 .. pos' - 1 : j \in 1 .. pos - 1 \/ j = pos
    BY <1>1, <1>2
  <2>2. 1 .. pos - 1 \subseteq 1 .. pos' - 1 /\ pos \in 1 .. pos' - 1
    BY <1>1, <1>2 DEF IInv, Typed
  <2>3. CASE IsBug(e)
    <3>1. prev_te' = prev_te
      BY <1>1, <2>3
    <3>2. \A j \in 1 .. pos' - 1 : IsBug(trace[j]) \/ trace[j].timestamp <= prev_te
      BY <1>1, <2>1, <2>3 DEF IInv, LastOp, e
    <3>3. prev_te # 0 => \E j \in 1 .. pos' - 1 : trace[j].timestamp = prev_te
      BY <1>1, <2>2 DEF IInv, LastOp
    <3>. QED BY <1>1, <3>1, <3>2, <3>3 DEF LastOp
  <2>4. CASE ~IsBug(e)
    <3>1. prev_te' = e.timestamp
      BY <1>1, <2>4
    <3>2. \A j \in 1 .. pos' - 1 : trace[j].timestamp <= prev_te'
      BY <1>3, <1>4, <2>1, <3>1 DEF e
    <3>3. \E j \in 1 .. pos' - 1 : trace[j].timestamp = prev_te'
      BY <2>2, <3>1 DEF e
    <3>. QED BY <1>1, <3>2, <3>3 DEF LastOp
  <2>. QED BY <2>3, <2>4
<1>8. SameBugs' /\ SameView' /\ NoFlush'
  BY <1>1 DEF IInv, SameBugs, SameView, NoFlush
<1>. QED BY <1>1, <1>6, <1>7, <1>8 DEF IInv, Cleared, Landed

\* A fence is dropped after another: no operation comes between them.
LEMMA DropFenceOK == IInv /\ DropFence => IInv'
<1>. SUFFICES ASSUME IInv, DropFence PROVE IInv'
  OBVIOUS
<1>. DEFINE d == trace[pos]
            c == input[prev_te]
<1>1. /\ step = 4 /\ pos <= Len(trace) /\ trace' = SE!RemoveAt(trace, pos)
      /\ UNCHANGED <<input, step, pos, in_flight, new_trace, prev_te>>
      /\ IsFence(d) /\ prev_te # 0 /\ IsFence(c)
  BY DEF DropFence, At, RepeatsFence
<1>2. pos \in DOMAIN trace /\ d \in SE!ToSet(trace) /\ trace \in Seq(TraceEvent) /\ Ordered(trace)
      /\ pos \in Nat /\ Len(trace) \in Nat /\ DOMAIN trace = 1 .. Len(trace)
  BY <1>1, AtPos DEF IInv, Typed
<1>3. /\ trace' \in Seq(TraceEvent) /\ Ordered(trace')
      /\ Len(trace') = Len(trace) - 1
      /\ \A k \in 1 .. pos - 1 : trace'[k] = trace[k]
      /\ SE!ToSet(trace') = SE!ToSet(trace) \ {d}
  BY <1>1, <1>2, Removed
<1>4. \A e \in SE!ToSet(trace) : e.timestamp \in Nat /\ input[e.timestamp] = e
  BY InputTyped DEF IInv, Typed
<1>5. c \in SE!ToSet(trace) /\ c.timestamp = prev_te /\ c.timestamp < d.timestamp
  <2>1. PICK j \in 1 .. pos - 1 : trace[j].timestamp = prev_te
    BY <1>1 DEF IInv, LastOp
  <2>2. j \in DOMAIN trace /\ j < pos
    BY <1>2
  <2>3. trace[j] \in SE!ToSet(trace) /\ trace[j] = c
    BY <1>4, <2>1, <2>2 DEF SE!ToSet
  <2>. QED BY <1>2, <2>1, <2>2, <2>3 DEF Ordered
<1>6. \A e \in SE!ToSet(trace) : IsStore(e) => e.timestamp <= c.timestamp \/ d.timestamp < e.timestamp
  <2>. SUFFICES ASSUME NEW k \in DOMAIN trace, IsStore(trace[k])
                PROVE  trace[k].timestamp <= c.timestamp \/ d.timestamp < trace[k].timestamp
    BY DEF SE!ToSet
  <2>1. CASE k \in 1 .. pos - 1
    BY <1>1, <1>5, <2>1, Kinds DEF IInv, LastOp
  <2>2. CASE k = pos
    BY <1>1, <2>2, Kinds
  <2>3. CASE pos < k
    BY <1>2, <2>3 DEF Ordered
  <2>. QED BY <1>2, <2>1, <2>2, <2>3
<1>7. BugsOf(trace') = BugsOf(trace)
  BY <1>1, <1>3, Kinds DEF BugsOf
<1>8. SameView'
  <2>. SUFFICES ASSUME NEW b \in BugsOf(trace)
                PROVE  View(trace', b) = View(input, b)
    BY <1>1, <1>7 DEF SameView
  <2>1. b.timestamp \in Nat
    BY <1>4 DEF BugsOf
  <2>2. View(trace', b) = View(trace, b)
    <3>. HIDE DEF c, d
    <3>. QED BY <1>1, <1>2, <1>3, <1>4, <1>5, <1>6, <2>1, SameViewWithoutFence
  <2>. QED BY <2>2 DEF IInv, SameView
<1>9. Typed'
  <2>1. in_flight' = {} /\ new_trace' = {} /\ pos' \in 1 .. Len(trace') + 1
    BY <1>1, <1>2, <1>3 DEF IInv, Cleared
  <2>. QED BY <1>1, <1>3, <2>1 DEF IInv, Typed
<1>10. LastOp'
  <2>1. /\ \A j \in 1 .. pos - 1 : IsBug(trace'[j]) \/ trace'[j].timestamp <= prev_te
        /\ \E j \in 1 .. pos - 1 : trace'[j].timestamp = prev_te
    BY <1>1, <1>3 DEF IInv, LastOp
  <2>. QED BY <1>1, <2>1 DEF LastOp
<1>11. SameBugs' /\ NoFlush'
  BY <1>1, <1>3, <1>7 DEF IInv, SameBugs, NoFlush
<1>. QED BY <1>1, <1>8, <1>9, <1>10, <1>11 DEF IInv, Cleared, Landed

LEMMA DumpOK == IInv /\ Dump => IInv'
<1>. SUFFICES ASSUME IInv, Dump PROVE IInv'
  OBVIOUS
<1>1. step = 4 /\ step' = 5 /\ UNCHANGED <<input, trace, pos, in_flight, new_trace, prev_te>>
  BY DEF Dump
<1>2. Typed'
  BY <1>1 DEF IInv, Typed
<1>3. SameBugs' /\ SameView' /\ NoFlush'
  BY <1>1 DEF IInv, SameBugs, SameView, NoFlush
<1>. QED BY <1>1, <1>2, <1>3 DEF IInv, Cleared, Landed, LastOp

LEMMA UnchangedOK == IInv /\ UNCHANGED vars => IInv'
BY DEF vars, IInv, Typed, Cleared, Landed, NoFlush, LastOp, SameBugs, SameView

LEMMA StepOK == IInv /\ [Next]_vars => IInv'
BY RemoveRedundantBugsOK, RemoveIrrelevantOK, PassEventOK, TrackOK, LandOK, SortTraceOK,
   KeepEventOK, DropFenceOK, DumpOK, UnchangedOK DEF Next

\* The invariant of the passes: whatever the log, they keep their types and
\* lose nothing that the scan of a bug that is left would read.
THEOREM PassesInvariant == Spec => []IInv
BY InitOK, StepOK, PTL DEF Spec

-----------------------------------------------------------------------------
(* What BugReport.dump writes.                                             *)

\* For every trace read: the events stay in the order of the program, with no
\* event twice, in all the passes of BugReport.dump.
THEOREM ReportsTypeCorrect == Spec => []TypeOK
<1>1. IInv => TypeOK
  <2>. SUFFICES ASSUME IInv PROVE TypeOK
    OBVIOUS
  <2>1. input \in Seq(TraceEvent)
    BY InputTyped DEF IInv, Typed
  <2>. QED BY <2>1 DEF IInv, Typed, TypeOK, Ordered
<1>. QED BY <1>1, PassesInvariant, PTL

\* For every trace read: before each bug that BugReport.dump leaves, the scan
\* of handleAssertPersisted reads the stores and fences of the whole trace;
\* and no flush is left for it to stop at.
THEOREM ReductionKeepsScan == Spec => []ScanUnchanged
<1>1. IInv => ScanUnchanged
  BY DEF IInv, NoFlush, SameView, ScanUnchanged, Written
<1>. QED BY <1>1, PassesInvariant, PTL

\* A stack with a bug has a first bug.
LEMMA FirstBug ==
    ASSUME NEW t \in Inputs, NEW b \in BugsOf(t)
    PROVE  \E k \in FirstBugs(t) : k.stack = b.stack
<1>. DEFINE S == {c \in BugsOf(t) : c.stack = b.stack}
            N == {c.timestamp : c \in S}
<1>1. \A c \in S : c.timestamp \in Nat
  BY InputTyped DEF BugsOf
<1>2. N \in SUBSET Nat /\ N # {}
  BY <1>1
<1>3. PICK x \in N : \A y \in N : x <= y
  <2>. HIDE DEF N
  <2>. QED BY <1>2, Least
<1>4. PICK k \in S : k.timestamp = x
  OBVIOUS
<1>5. \A c \in S : k.timestamp <= c.timestamp
  BY <1>3, <1>4
<1>6. k \in BugsOf(t) /\ k.stack = b.stack
  BY <1>4
<1>7. IsUnique(t, k)
  BY <1>5, <1>6 DEF IsUnique
<1>. QED BY <1>6, <1>7 DEF FirstBugs

\* A view has the stores that are read.
LEMMA StoresOfView ==
    ASSUME NEW t, NEW b, NEW e, IsStore(e)
    PROVE  e \in Read(t, b) <=> e \in View(t, b)
BY Kinds DEF View

\* Where fences are read after a time, the first of them is in the view,
\* provided that a store is read there, or that nothing comes before.
LEMMA FirstFence ==
    ASSUME NEW t, NEW b, NEW n \in Nat,
           \A e \in SE!ToSet(t) : e.timestamp \in Nat,
           \A f \in Read(t, b) : IsFence(f) /\ f.timestamp <= n =>
               \E s \in Read(t, b) : IsStore(s) /\ s.timestamp = n /\ f.timestamp < n,
           NEW f \in Read(t, b), IsFence(f), n < f.timestamp
    PROVE  \E g \in View(t, b) : IsFence(g) /\ n < g.timestamp
<1>. DEFINE S == {g \in Read(t, b) : IsFence(g) /\ n < g.timestamp}
            N == {g.timestamp : g \in S}
<1>1. \A g \in Read(t, b) : g.timestamp \in Nat
  BY DEF Read
<1>2. N \in SUBSET Nat /\ N # {}
  BY <1>1
<1>3. PICK x \in N : \A y \in N : x <= y
  <2>. HIDE DEF N
  <2>. QED BY <1>2, Least
<1>4. PICK g \in S : g.timestamp = x
  OBVIOUS
<1>5. ASSUME NEW h \in Read(t, b), IsFence(h), h.timestamp < g.timestamp
      PROVE  StoreBetween(t, b, h, g)
  <2>1. h.timestamp <= n
    BY <1>1, <1>3, <1>4, <1>5
  <2>2. PICK s \in Read(t, b) : IsStore(s) /\ s.timestamp = n /\ h.timestamp < n
    BY <1>5, <2>1
  <2>. QED BY <1>4, <2>2 DEF StoreBetween
<1>6. g \in View(t, b)
  BY <1>4, <1>5 DEF View
<1>. QED BY <1>4, <1>6

\* What the fixer inserts for a bug depends on its view of the trace only.
LEMMA SameFixes ==
    ASSUME NEW t, NEW u, NEW b, View(t, b) = View(u, b),
           \A e \in SE!ToSet(t) \cup SE!ToSet(u) : e.timestamp \in Nat /\ e.timestamp >= 1,
           \A d, e \in SE!ToSet(t) \cup SE!ToSet(u) : d.timestamp = e.timestamp => d = e
    PROVE  Collected(t, b) = Collected(u, b) /\ Needed(t, b) = Needed(u, b)
<1>1. ASSUME NEW e, IsStore(e) PROVE e \in Read(t, b) <=> e \in Read(u, b)
  BY <1>1, StoresOfView
<1>2. \A e : CoveredSince(Read(t, b), b, e) <=> CoveredSince(Read(u, b), b, e)
  BY <1>1 DEF CoveredSince
<1>3. Collected(t, b) = Collected(u, b)
  BY <1>1, <1>2 DEF Collected
<1>4. Covered(t, b) <=> Covered(u, b)
  BY <1>3 DEF Covered
<1>5. ASSUME NEW v, NEW w, View(v, b) = View(w, b), FencePassed(v, b),
             Collected(v, b) = Collected(w, b), Covered(v, b) <=> Covered(w, b),
             \A e \in SE!ToSet(v) : e.timestamp \in Nat /\ e.timestamp >= 1,
             \A d, e \in SE!ToSet(v) : d.timestamp = e.timestamp => d = e
      PROVE  FencePassed(w, b)
  <2>1. PICK f \in Read(v, b) : /\ IsFence(f)
                                /\ Covered(v, b) => \E e \in Collected(v, b) : e.timestamp < f.timestamp
    BY <1>5 DEF FencePassed
  <2>2. \A g \in View(w, b) : g \in Read(w, b)
    BY DEF View
  <2>3. CASE ~Covered(v, b)
    <3>1. \A g \in Read(v, b) : g.timestamp \in Nat /\ g.timestamp >= 1 /\ ~(g.timestamp <= 0)
      BY <1>5 DEF Read
    <3>2. 0 < f.timestamp
      BY <2>1, <3>1
    <3>3. \E g \in View(v, b) : IsFence(g) /\ 0 < g.timestamp
      BY <1>5, <2>1, <3>1, <3>2, FirstFence
    <3>. QED BY <1>5, <2>2, <2>3, <3>3 DEF FencePassed
  <2>4. CASE Covered(v, b)
    <3>1. PICK e \in Collected(v, b) : e.timestamp < f.timestamp
      BY <2>1, <2>4
    <3>2. e \in Read(v, b) /\ IsStore(e) /\ e.timestamp \in Nat
      BY <1>5, <3>1 DEF Collected, Read
    <3>3. ASSUME NEW h \in Read(v, b), IsFence(h), h.timestamp <= e.timestamp
          PROVE  \E s \in Read(v, b) : IsStore(s) /\ s.timestamp = e.timestamp /\ h.timestamp < e.timestamp
      <4>1. h.timestamp # e.timestamp
        BY <1>5, <3>2, <3>3, Kinds DEF Read
      <4>. QED BY <1>5, <3>2, <3>3, <4>1 DEF Read
    <3>4. \E g \in View(v, b) : IsFence(g) /\ e.timestamp < g.timestamp
      BY <1>5, <2>1, <3>1, <3>2, <3>3, FirstFence
    <3>. QED BY <1>5, <2>2, <3>1, <3>4 DEF FencePassed
  <2>. QED BY <2>3, <2>4
<1>6. FencePassed(t, b) <=> FencePassed(u, b)
  BY <1>3, <1>4, <1>5
<1>. QED BY <1>3, <1>4, <1>6 DEF Needed

\* For every trace read in which the reports name the locations of the stores
\* to fix, and the assertions on one stack have one outcome and miss the same:
\* for what BugReport.dump leaves of it, the fixer inserts all the fixes that
\* it would insert for the whole trace.
THEOREM DropsOnlyRedundant == Spec => []RedundantWhenAlike
<1>1. IInv => RedundantWhenAlike
  <2>. SUFFICES ASSUME IInv, Written, Located, SameOutcome, SameNeeds,
                       NEW b \in Failed(input),
                       NEW x \in {e.stack : e \in Collected(input, b)} \X Needed(input, b)
                PROVE  x \in Inserted(trace)
    BY DEF RedundantWhenAlike, RedundantOnly, Inserted
  <2>1. b \in BugsOf(input)
    BY DEF Failed
  <2>2. PICK k \in FirstBugs(input) : k.stack = b.stack
    BY <2>1, FirstBug DEF IInv, Typed
  <2>3. k \in BugsOf(trace) /\ k \in BugsOf(input)
    BY <2>2 DEF Written, IInv, SameBugs, FirstBugs
  <2>4. k \in Failed(input)
    BY <2>1, <2>2, <2>3 DEF SameOutcome
  <2>5. k \in Failed(trace)
    BY <2>3, <2>4 DEF Failed
  <2>6. Collected(trace, k) = Collected(input, k) /\ Needed(trace, k) = Needed(input, k)
    <3>1. /\ \A e \in SE!ToSet(trace) \cup SE!ToSet(input) : e.timestamp \in Nat /\ e.timestamp >= 1
          /\ \A d, e \in SE!ToSet(trace) \cup SE!ToSet(input) : d.timestamp = e.timestamp => d = e
      BY InputTyped DEF IInv, Typed
    <3>2. View(trace, k) = View(input, k)
      BY <2>3 DEF IInv, SameView
    <3>. QED BY <3>1, <3>2, SameFixes
  <2>7. Needed(input, k) = Needed(input, b)
    BY <2>2, <2>4 DEF SameNeeds
  <2>8. x[1] = k.stack /\ x[2] \in Needed(input, k) /\ x = <<x[1], x[2]>>
    BY <2>2, <2>7 DEF Located
  <2>9. PICK e \in Collected(trace, k) : e.stack = k.stack
    BY <2>4, <2>6 DEF Located
  <2>10. x \in {d.stack : d \in Collected(trace, k)} \X Needed(trace, k)
    BY <2>6, <2>8, <2>9
  <2>. QED BY <2>5, <2>10 DEF Inserted
<1>. QED BY <1>1, PassesInvariant, PTL
=============================================================================
