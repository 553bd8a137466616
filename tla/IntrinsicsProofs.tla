-------------------------- MODULE IntrinsicsProofs --------------------------
(***************************************************************************)
(* For every memory, line size and call: the functions compute what libc's *)
(* do, the naive ones persist in order, and flush_loop reaches the buffers *)
(* whose lines it counts right.                                            *)
(***************************************************************************)
EXTENDS Intrinsics, TLAPS

\* Only the byte at hand is not durable, and between its clwb and its sfence
\* it has been written back.
OrderInv ==
    /\ durable \subseteq Address
    /\ flushed \subseteq Address
    /\ call.naive => pc \in {"enter", "store", "clwb", "sfence", "next", "return", "done"}
    /\ call.naive /\ pc = "clwb" => Address \subseteq durable \cup {d + Index}
    /\ call.naive /\ pc = "sfence" => Address \subseteq durable \cup flushed
    /\ call.naive /\ pc \in {"enter", "store", "next", "return", "done"} => durable = Address

\* Writing back the line of a byte writes back the byte.
LEMMA FlushReaches ==
    ASSUME NEW a, Flush(a), durable \subseteq Address, flushed \subseteq Address,
           Address \subseteq durable \cup {a}
    PROVE  /\ durable' \subseteq Address /\ flushed' \subseteq Address
           /\ clflush => durable' = Address
           /\ ~clflush => Address \subseteq durable' \cup flushed'
<1>1. Line(a) \subseteq Address /\ (a \in Address => a \in Line(a))
  BY DEF Line
<1>. QED BY <1>1 DEF Flush

LEMMA OrderStep == OrderInv /\ [Next]_vars => OrderInv'
<1>. SUFFICES ASSUME OrderInv, [Next]_vars PROVE OrderInv'
  OBVIOUS
<1>1. CASE LibcCall \/ EndFlushLoop
  BY <1>1 DEF OrderInv, LibcCall, EndFlushLoop
<1>2. CASE FlushLoop
  BY <1>2 DEF OrderInv, FlushLoop, Flush, Line
<1>3. CASE EnterNaive
  BY <1>3 DEF OrderInv, EnterNaive
<1>4. CASE StoreByte
  <2>1. d' = d /\ Index' = Index
    BY <1>4 DEF StoreByte, Index, Reverse, d, s, n
  <2>. QED BY <1>4, <2>1 DEF OrderInv, StoreByte
<1>5. CASE FlushByte
  <2>1. call.naive => /\ durable' \subseteq Address /\ flushed' \subseteq Address
                      /\ clflush => durable' = Address
                      /\ ~clflush => Address \subseteq durable' \cup flushed'
    BY <1>5, FlushReaches DEF OrderInv, FlushByte
  <2>2. durable' \subseteq Address /\ flushed' \subseteq Address
    BY <1>5 DEF OrderInv, FlushByte, Flush, Line
  <2>. QED BY <1>5, <2>1, <2>2 DEF OrderInv, FlushByte
<1>6. CASE FenceByte
  BY <1>6 DEF OrderInv, FenceByte, Fence
<1>7. CASE NextByte
  BY <1>7 DEF OrderInv, NextByte
<1>8. CASE EndNaive
  BY <1>8 DEF OrderInv, EndNaive
<1>9. CASE CallerFence
  BY <1>9 DEF OrderInv, CallerFence, Fence
<1>10. CASE UNCHANGED vars
  BY <1>10 DEF OrderInv, vars, Index, Reverse, d, s, n
<1>. QED BY <1>1, <1>2, <1>3, <1>4, <1>5, <1>6, <1>7, <1>8, <1>9, <1>10 DEF Next

\* A crash in a naive function finds a prefix of its work durable.
THEOREM OrderKept == Spec => []PersistsInOrder
<1>1. Init => OrderInv
  BY DEF Init, OrderInv
<1>2. OrderInv => PersistsInOrder
  BY DEF OrderInv, PersistsInOrder
<1>. QED BY <1>1, <1>2, OrderStep, PTL DEF Spec

-----------------------------------------------------------------------------
(* The memory.                                                             *)

\* The bytes of the buffer stored so far: the last ones if it goes backwards.
Stored(k) ==
    LET c == IF pc \in {"clwb", "sfence", "next"} THEN i + 1 ELSE i
    IN  IF Reverse THEN k >= n - c ELSE k < c

Partly == [a \in Address |-> IF a \in Region(d, n) /\ Stored(a - d) THEN Value(old, a - d) ELSE old[a]]

Looping == pc \in {"store", "clwb", "sfence", "next"}

MemInv ==
    /\ old = [a \in Address |-> old[a]]
    /\ pc = "enter" => i = 0 /\ mem = old
    /\ Looping => call.naive /\ ~NothingToDo /\ i \in 0 .. n /\ mem = Partly
    /\ pc \in {"clwb", "sfence", "next"} => i < n
    /\ pc \in {"flush", "return", "done"} => mem = Result

\* The line of every byte of the buffer that flush_loop has passed was flushed.
Passed == \A a \in Region(d, n) : LineOf(a) < LineOf(d + i) => a \in durable \cup flushed
IsTurn == \E q \in Nat : i = LineSize * q

FlushInv ==
    /\ clflush => flushed = {}
    /\ Address \subseteq durable \cup Region(d, n)
    /\ pc = "flush" => IsTurn /\ Passed /\ ~call.naive
    /\ pc = "return" /\ ~call.naive => IsTurn /\ Passed /\ i >= n
    /\ pc = "done" => PersistsWhenItFits

Inv == TypeOK /\ MemInv /\ FlushInv /\ OrderInv

LEMMA CallOK ==
    ASSUME call \in Calls
    PROVE  /\ d \in Nat /\ s \in Nat /\ n \in Nat /\ call.naive \in BOOLEAN
           /\ Region(d, n) \subseteq Address /\ Region(s, n) \subseteq Address
           /\ call.fn \in {"memcpy", "strncpy"} => Region(d, n) \cap Region(s, n) = {}
           /\ call.fn \in Functions /\ LineSize \in Nat \ {0} /\ Address \subseteq Nat
BY CallAssumption DEF d, s, n

\* The bytes of a buffer.
LEMMA InRegion ==
    ASSUME NEW start \in Nat, NEW len \in Nat
    PROVE  /\ \A a : a \in Region(start, len) <=> a \in Nat /\ start <= a /\ a < start + len
           /\ \A k \in 0 .. len - 1 : start + k \in Region(start, len)
           /\ \A a \in Region(start, len) : a - start \in 0 .. len - 1
BY DEF Region

\* The byte to store next.
LEMMA IndexOK ==
    ASSUME TypeOK, MemInv, pc = "store", i < n
    PROVE  Index \in 0 .. n - 1 /\ d + Index \in Region(d, n) /\ ~Stored(Index)
<1>1. i \in 0 .. n /\ n \in Nat /\ d \in Nat
  BY CallOK DEF TypeOK, MemInv, Looping
<1>2. Index \in 0 .. n - 1
  BY <1>1 DEF Index
<1>3. d + Index \in Region(d, n)
  BY <1>1, <1>2, InRegion
<1>4. ~Stored(Index)
  BY <1>1 DEF Stored, Index
<1>. QED BY <1>2, <1>3, <1>4

\* What the copy reads has not been overwritten.
LEMMA ReadsOld ==
    ASSUME TypeOK, MemInv, pc = "store", i < n
    PROVE  Value(mem, Index) = Value(old, Index)
<1>1. /\ i \in 0 .. n /\ n \in Nat /\ d \in Nat /\ s \in Nat /\ call.fn \in Functions /\ mem = Partly
      /\ Region(s, n) \subseteq Address /\ ~NothingToDo
      /\ call.fn \in {"memcpy", "strncpy"} => Region(d, n) \cap Region(s, n) = {}
  BY CallOK DEF TypeOK, MemInv, Looping
<1>2. Index \in 0 .. n - 1
  BY IndexOK
<1>3. \A a \in Address : mem[a] = IF a \in Region(d, n) /\ Stored(a - d) THEN Value(old, a - d) ELSE old[a]
  BY <1>1 DEF Partly
<1>4. \A k \in 0 .. n - 1 : s + k \in Region(s, n)
  BY <1>1, InRegion
<1>5. CASE call.fn = "memset"
  BY <1>5 DEF Value
<1>6. CASE call.fn \in {"memcpy", "strncpy"}
  <2>1. \A k \in 0 .. n - 1 : mem[s + k] = old[s + k]
    BY <1>1, <1>3, <1>4, <1>6
  <2>2. Ended(mem, Index) <=> Ended(old, Index)
    <3>1. \A j \in 0 .. Index - 1 : j \in 0 .. n - 1
      BY <1>1, <1>2
    <3>. QED BY <2>1, <3>1 DEF Ended
  <2>. QED BY <1>2, <1>6, <2>1, <2>2 DEF Value
<1>7. CASE call.fn = "memmove"
  <2>1. s + Index \in Region(d, n) => ~Stored((s + Index) - d)
    <3>1. CASE Reverse
      BY <1>1, <1>2, <3>1, InRegion DEF Stored, Reverse, Index
    <3>2. CASE ~Reverse
      BY <1>1, <1>2, <1>7, <3>2, InRegion DEF Stored, Reverse, Index
    <3>. QED BY <3>1, <3>2
  <2>2. mem[s + Index] = old[s + Index]
    BY <1>1, <1>2, <1>3, <1>4, <2>1
  <2>. QED BY <1>7, <2>2 DEF Value
<1>. QED BY <1>1, <1>5, <1>6, <1>7 DEF Functions

LEMMA MemStep ==
    ASSUME TypeOK, MemInv, [Next]_vars
    PROVE  MemInv'
<1>. USE DEF MemInv, Looping
<1>0. d' = d /\ s' = s /\ n' = n /\ call' = call /\ old' = old
  BY DEF Next, vars, LibcCall, FlushLoop, EndFlushLoop, EnterNaive, StoreByte, FlushByte, FenceByte,
         NextByte, EndNaive, CallerFence, d, s, n
<1>1. /\ i \in Nat /\ n \in Nat /\ d \in Nat /\ s \in Nat /\ call.naive \in BOOLEAN /\ Reverse' = Reverse
      /\ \A k : Value(old, k)' = Value(old, k)
      /\ Result' = Result /\ NothingToDo' = NothingToDo
  BY <1>0, CallOK DEF TypeOK, Reverse, Value, Ended, Result, NothingToDo
<1>2. ASSUME UNCHANGED mem, \A k \in 0 .. n - 1 : Stored(k)' <=> Stored(k), mem = Partly
      PROVE  mem' = Partly'
  <2>1. \A a \in Region(d, n) : a - d \in 0 .. n - 1
    BY <1>1, InRegion
  <2>. QED BY <1>0, <1>1, <1>2, <2>1 DEF Partly
<1>3. CASE LibcCall
  BY <1>0, <1>1, <1>3 DEF LibcCall
<1>4. CASE FlushLoop \/ EndFlushLoop \/ CallerFence \/ UNCHANGED vars
  <2>1. UNCHANGED mem
    BY <1>4 DEF FlushLoop, EndFlushLoop, CallerFence, vars
  <2>2. CASE FlushLoop \/ EndFlushLoop \/ CallerFence
    BY <1>0, <1>1, <2>1, <2>2 DEF FlushLoop, EndFlushLoop, CallerFence
  <2>3. CASE UNCHANGED vars
    BY <1>0, <1>1, <1>2, <2>3 DEF vars, Stored
  <2>. QED BY <1>4, <2>2, <2>3
<1>5. CASE EnterNaive
  <2>1. pc = "enter" /\ i = 0 /\ mem = old /\ UNCHANGED <<i, mem>> /\ call.naive
    BY <1>5 DEF EnterNaive
  <2>2. CASE NothingToDo
    <3>1. \A a \in Region(d, n) : Value(old, a - d) = old[a]
      <4>1. call.fn = "memmove" /\ (d = s \/ n = 0)
        BY <2>2 DEF NothingToDo
      <4>2. CASE d = s
        <5>1. \A a \in Region(d, n) : s + (a - d) = a
          BY <1>1, <4>2, InRegion
        <5>. QED BY <4>1, <5>1 DEF Value
      <4>3. CASE n = 0
        BY <1>1, <4>3, InRegion
      <4>. QED BY <4>1, <4>2, <4>3
    <3>2. mem = Result
      BY <2>1, <3>1 DEF Result
    <3>. QED BY <1>0, <1>1, <1>5, <2>1, <2>2, <3>2 DEF EnterNaive
  <2>3. CASE ~NothingToDo
    <3>1. \A k \in 0 .. n - 1 : ~Stored(k)'
      BY <1>0, <1>1, <1>5, <2>1, <2>3 DEF EnterNaive, Stored
    <3>2. \A a \in Region(d, n) : a - d \in 0 .. n - 1
      BY <1>1, InRegion
    <3>3. mem' = Partly'
      BY <1>0, <2>1, <3>1, <3>2 DEF Partly
    <3>. QED BY <1>0, <1>1, <1>5, <2>1, <2>3, <3>3 DEF EnterNaive
  <2>. QED BY <2>2, <2>3
<1>6. CASE StoreByte
  <2>1. pc = "store" /\ i < n /\ mem' = [mem EXCEPT ![d + Index] = Value(old, Index)]
    BY <1>6, ReadsOld DEF StoreByte
  <2>2. Index \in 0 .. n - 1 /\ d + Index \in Region(d, n)
    BY <2>1, IndexOK
  <2>3. \A k \in 0 .. n - 1 : Stored(k)' <=> Stored(k) \/ k = Index
    BY <1>0, <1>1, <1>6, <2>1 DEF StoreByte, Stored, Index
  <2>4. \A a \in Address : /\ mem'[a] = IF a = d + Index THEN Value(old, Index) ELSE mem[a]
                           /\ mem[a] = IF a \in Region(d, n) /\ Stored(a - d) THEN Value(old, a - d) ELSE old[a]
    BY <2>1 DEF Partly
  <2>5. \A a \in Region(d, n) : a - d \in 0 .. n - 1 /\ (a - d = Index <=> a = d + Index)
    <3>1. \A a \in Region(d, n) : a \in Nat /\ a - d \in 0 .. n - 1
      BY <1>1, InRegion
    <3>2. \A a, k \in Int : a - d = k <=> a = d + k
      BY <1>1
    <3>. QED BY <2>2, <3>1, <3>2
  <2>6. (d + Index) - d = Index
    BY <1>1, <2>2
  <2>7. \A a \in Address : mem'[a] = Partly'[a]
    BY <1>0, <1>1, <2>2, <2>3, <2>4, <2>5, <2>6 DEF Partly
  <2>8. mem' = [a \in Address |-> mem'[a]]
    BY <2>1 DEF Partly
  <2>9. mem' = Partly'
    BY <2>7, <2>8 DEF Partly
  <2>. QED BY <1>0, <1>1, <1>6, <2>1, <2>9 DEF StoreByte
<1>7. CASE FlushByte \/ FenceByte
  <2>1. /\ pc \in {"clwb", "sfence"} /\ pc' \in {"sfence", "next"} /\ UNCHANGED <<i, mem>>
    BY <1>7 DEF FlushByte, FenceByte
  <2>2. \A k \in 0 .. n - 1 : Stored(k)' <=> Stored(k)
    BY <1>0, <1>1, <2>1 DEF Stored
  <2>3. mem' = Partly'
    BY <1>2, <2>1, <2>2
  <2>. QED BY <1>0, <1>1, <2>1, <2>3
<1>8. CASE NextByte
  <2>1. pc = "next" /\ pc' = "store" /\ i' = i + 1 /\ UNCHANGED mem /\ i < n
    BY <1>8 DEF NextByte
  <2>2. \A k \in 0 .. n - 1 : Stored(k)' <=> Stored(k)
    BY <1>0, <1>1, <2>1 DEF Stored
  <2>3. mem' = Partly'
    BY <1>2, <2>1, <2>2
  <2>. QED BY <1>0, <1>1, <2>1, <2>3
<1>9. CASE EndNaive
  <2>1. pc = "store" /\ i = n /\ UNCHANGED <<i, mem>>
    BY <1>1, <1>9 DEF EndNaive
  <2>2. \A k \in 0 .. n - 1 : Stored(k)
    BY <1>1, <2>1 DEF Stored
  <2>3. \A a \in Region(d, n) : a - d \in 0 .. n - 1
    BY <1>1, InRegion
  <2>4. Partly = Result
    BY <2>2, <2>3 DEF Partly, Result
  <2>. QED BY <1>0, <1>1, <1>9, <2>1, <2>4 DEF EndNaive
<1>. QED BY <1>3, <1>4, <1>5, <1>6, <1>7, <1>8, <1>9 DEF Next

-----------------------------------------------------------------------------
(* The lines.                                                              *)

LEMMA DivMod ==
    ASSUME NEW a \in Nat, NEW L \in Nat \ {0}
    PROVE  a \div L \in Nat /\ a % L \in 0 .. L - 1 /\ a = L * (a \div L) + (a % L)
<1>1. a \div L \in Nat /\ a % L \in 0 .. L - 1
  OBVIOUS
<1>2. a = L * (a \div L) + (a % L)
  OBVIOUS
<1>. QED BY <1>1, <1>2

LEMMA DivIs ==
    ASSUME NEW q \in Nat, NEW L \in Nat \ {0}, NEW r \in 0 .. L - 1
    PROVE  (L * q + r) \div L = q
OBVIOUS

LEMMA LineSplit ==
    ASSUME NEW a \in Nat, LineSize \in Nat \ {0}
    PROVE  /\ LineOf(a) \in Nat /\ a % LineSize \in 0 .. LineSize - 1
           /\ a = LineSize * LineOf(a) + (a % LineSize)
BY DivMod DEF LineOf

LEMMA LineGrows ==
    ASSUME NEW a \in Nat, NEW b \in Nat, a <= b, LineSize \in Nat \ {0}
    PROVE  LineOf(a) <= LineOf(b)
BY DEF LineOf

LEMMA NextLine ==
    ASSUME NEW a \in Nat, LineSize \in Nat \ {0}
    PROVE  LineOf(a + LineSize) = LineOf(a) + 1
BY DEF LineOf

LEMMA LineAfter ==
    ASSUME NEW a \in Nat, NEW q \in Nat, LineSize \in Nat \ {0}
    PROVE  LineOf(a + LineSize * q) = LineOf(a) + q
<1>. DEFINE r == a % LineSize
            l == LineOf(a)
<1>1. l \in Nat /\ r \in 0 .. LineSize - 1 /\ a = LineSize * l + r
  BY LineSplit
<1>2. a + LineSize * q = LineSize * (l + q) + r
  BY <1>1
<1>3. (LineSize * (l + q) + r) \div LineSize = l + q
  BY <1>1, DivIs
<1>. QED BY <1>2, <1>3 DEF LineOf

\* A buffer that fits into the lines counted from its start ends in the last.
LEMMA FitsInLines ==
    ASSUME NEW a \in Nat, NEW len \in Nat \ {0}, NEW q \in Nat, LineSize \in Nat \ {0},
           (a % LineSize) + ((len - 1) % LineSize) < LineSize, LineSize * q >= len
    PROVE  LineOf(a + (len - 1)) < LineOf(a + LineSize * q)
<1>1. PICK b \in Nat : b = len - 1
  BY len - 1 \in Nat
<1>. DEFINE r == a % LineSize
            t == b % LineSize
<1>2. /\ LineOf(a) \in Nat /\ r \in 0 .. LineSize - 1 /\ a = LineSize * LineOf(a) + r
      /\ LineOf(b) \in Nat /\ t \in 0 .. LineSize - 1 /\ b = LineSize * LineOf(b) + t
  BY LineSplit
<1>3. r + t \in 0 .. LineSize - 1
  BY <1>1, <1>2
<1>4. LineOf(a + b) = LineOf(a) + LineOf(b)
  <2>1. a + b = LineSize * (LineOf(a) + LineOf(b)) + (r + t) /\ LineOf(a) + LineOf(b) \in Nat
    <3>1. \A x, y \in Nat : LineSize * (x + y) = LineSize * x + LineSize * y
      OBVIOUS
    <3>2. \A x, y, u, v \in Nat : (x + u) + (y + v) = (x + y) + (u + v)
      OBVIOUS
    <3>3. LineSize * LineOf(a) \in Nat /\ LineSize * LineOf(b) \in Nat /\ r \in Nat /\ t \in Nat
      BY <1>2
    <3>. QED BY <1>2, <3>1, <3>2, <3>3
  <2>2. (LineSize * (LineOf(a) + LineOf(b)) + (r + t)) \div LineSize = LineOf(a) + LineOf(b)
    BY <1>3, <2>1, DivIs
  <2>. QED BY <2>1, <2>2 DEF LineOf
<1>5. LineOf(b) < q
  <2>. SUFFICES ASSUME q <= LineOf(b) PROVE FALSE
    BY <1>2
  <2>1. LineSize * q <= LineSize * LineOf(b)
    BY <1>2
  <2>. QED BY <1>1, <1>2, <2>1
<1>6. LineOf(a + LineSize * q) = LineOf(a) + q
  BY LineAfter
<1>. QED BY <1>1, <1>2, <1>4, <1>5, <1>6

LEMMA FlushStep ==
    ASSUME Inv, [Next]_vars
    PROVE  FlushInv'
<1>. USE DEF Inv, FlushInv
<1>0. UNCHANGED <<call, clflush>> /\ d' = d /\ n' = n
  BY DEF Next, vars, LibcCall, FlushLoop, EndFlushLoop, EnterNaive, StoreByte, FlushByte, FenceByte,
         NextByte, EndNaive, CallerFence, d, n
<1>1. /\ i \in Nat /\ n \in Nat /\ d \in Nat /\ call.naive \in BOOLEAN
      /\ LineSize \in Nat \ {0} /\ Address \subseteq Nat
      /\ Region(d, n) \subseteq Address /\ durable \subseteq Address /\ flushed \subseteq Address
  BY CallOK DEF TypeOK, OrderInv
<1>2. CASE LibcCall
  <2>1. /\ pc' = "flush" /\ durable' = durable \ Region(d, n) /\ i' = 0 /\ ~call.naive
        /\ flushed' = flushed
    BY <1>2 DEF LibcCall, MemInv
  <2>2. IsTurn'
    <3>1. 0 = LineSize * 0
      BY <1>1
    <3>. QED BY <2>1, <3>1 DEF IsTurn
  <2>3. \A a \in Region(d, n) : ~(LineOf(a) < LineOf(d + 0))
    <3>. SUFFICES ASSUME NEW a \in Region(d, n) PROVE ~(LineOf(a) < LineOf(d))
      BY <1>1
    <3>1. a \in Nat /\ d <= a
      BY <1>1, InRegion
    <3>. QED BY <1>1, <3>1, LineGrows, LineSplit
  <2>4. Passed'
    BY <1>0, <2>1, <2>3 DEF Passed
  <2>. QED BY <1>0, <2>1, <2>2, <2>4
<1>3. CASE FlushLoop
  <2>1. pc = "flush" /\ pc' = "flush" /\ i' = i + LineSize /\ Flush(d + i) /\ ~call.naive
    BY <1>3 DEF FlushLoop
  <2>2. /\ durable \subseteq durable' /\ Line(d + i) \subseteq durable' \cup flushed'
        /\ durable \cup flushed \subseteq durable' \cup flushed' /\ (clflush => flushed' = flushed)
    BY <2>1 DEF Flush
  <2>3. IsTurn'
    <3>1. PICK q \in Nat : i = LineSize * q
      BY <2>1 DEF IsTurn
    <3>2. q + 1 \in Nat /\ i + LineSize = LineSize * (q + 1)
      BY <1>1, <3>1
    <3>. QED BY <2>1, <3>2 DEF IsTurn
  <2>4. \A a \in Region(d, n) : LineOf(a) < LineOf(d + (i + LineSize)) => a \in durable' \cup flushed'
    <3>. SUFFICES ASSUME NEW a \in Region(d, n), LineOf(a) < LineOf(d + (i + LineSize))
                  PROVE  a \in durable' \cup flushed'
      OBVIOUS
    <3>0. d + i \in Nat /\ d + (i + LineSize) = (d + i) + LineSize
      BY <1>1
    <3>1. a \in Nat /\ a \in Address /\ d + i \in Nat /\ d + (i + LineSize) = (d + i) + LineSize
      BY <1>1, <3>0
    <3>2. LineOf(d + (i + LineSize)) = LineOf(d + i) + 1
      BY <1>1, <3>1, NextLine
    <3>3. LineOf(a) \in Nat /\ LineOf(d + i) \in Nat
      BY <1>1, <3>1, LineSplit
    <3>4. LineOf(a) < LineOf(d + i) \/ LineOf(a) = LineOf(d + i)
      BY <3>2, <3>3
    <3>. QED BY <2>1, <2>2, <3>1, <3>4 DEF Passed, Line
  <2>. QED BY <1>0, <2>1, <2>2, <2>3, <2>4 DEF Passed
<1>4. CASE EndFlushLoop
  <2>1. pc = "flush" /\ pc' = "return" /\ ~(i < n) /\ UNCHANGED <<i, durable, flushed>>
    BY <1>4 DEF EndFlushLoop, More
  <2>2. i >= n
    BY <1>1, <2>1
  <2>. QED BY <1>0, <2>1, <2>2 DEF Passed, IsTurn
<1>5. CASE StoreByte
  <2>1. d + Index \in Region(d, n)
    BY <1>5, IndexOK DEF StoreByte
  <2>. QED BY <1>0, <1>5, <2>1 DEF StoreByte
<1>6. CASE FlushByte \/ FenceByte
  BY <1>0, <1>6 DEF FlushByte, FenceByte, Flush, Fence
<1>7. CASE EnterNaive \/ NextByte \/ EndNaive
  BY <1>0, <1>7, CallOK DEF EnterNaive, NextByte, EndNaive, MemInv, Looping
<1>8. CASE CallerFence
  <2>1. pc = "return" /\ pc' = "done" /\ durable' = durable \cup flushed /\ flushed' = {}
    BY <1>8 DEF CallerFence, Fence
  <2>2. n = 0 => durable' = Address
    <3>1. n = 0 => Region(d, n) = {}
      BY <1>1, InRegion
    <3>. QED BY <1>1, <2>1, <3>1
  <2>3. call.naive => durable' = Address
    BY <1>1, <2>1 DEF OrderInv
  <2>4. ASSUME n # 0, ~call.naive, (d % LineSize) + ((n - 1) % LineSize) < LineSize
        PROVE  durable' = Address
    <3>1. PICK q \in Nat : i = LineSize * q
      BY <2>1, <2>4 DEF IsTurn
    <3>2. n \in Nat \ {0} /\ LineSize * q >= n
      BY <1>1, <2>1, <2>4, <3>1
    <3>3. LineOf(d + (n - 1)) < LineOf(d + i)
      BY <1>1, <2>4, <3>1, <3>2, FitsInLines
    <3>4. ASSUME NEW a \in Region(d, n) PROVE a \in durable'
      <4>1. a \in Nat /\ a <= d + (n - 1) /\ d + (n - 1) \in Nat /\ d + i \in Nat
        BY <1>1, <3>2, InRegion
      <4>2. LineOf(a) <= LineOf(d + (n - 1))
        BY <1>1, <4>1, LineGrows
      <4>3. LineOf(a) \in Nat /\ LineOf(d + (n - 1)) \in Nat /\ LineOf(d + i) \in Nat
        BY <1>1, <4>1, LineSplit
      <4>4. LineOf(a) < LineOf(d + i)
        BY <3>3, <4>2, <4>3
      <4>. QED BY <2>1, <2>4, <4>4 DEF Passed
    <3>. QED BY <1>1, <2>1, <3>4
  <2>5. PersistsWhenItFits'
    BY <1>0, <2>2, <2>3, <2>4 DEF PersistsWhenItFits, Persists
  <2>. QED BY <1>0, <2>1, <2>5
<1>9. CASE UNCHANGED vars
  BY <1>0, <1>9 DEF vars, IsTurn, Passed, PersistsWhenItFits, Persists
<1>. QED BY <1>2, <1>3, <1>4, <1>5, <1>6, <1>7, <1>8, <1>9 DEF Next

LEMMA IntrinsicsTypeStep ==
    ASSUME Inv, MemInv', [Next]_vars
    PROVE  TypeOK'
<1>. USE DEF Inv, TypeOK
<1>0. UNCHANGED <<call, clflush>> /\ d' = d /\ n' = n
  BY DEF Next, vars, LibcCall, FlushLoop, EndFlushLoop, EnterNaive, StoreByte, FlushByte, FenceByte,
         NextByte, EndNaive, CallerFence, d, n
<1>1. /\ i \in Nat /\ n \in Nat /\ d \in Nat /\ LineSize \in Nat \ {0}
      /\ Region(d, n) \subseteq Address /\ Region(d, n)' = Region(d, n)
  BY <1>0, CallOK DEF Region
<1>2. pc' \in {"enter", "flush", "store", "clwb", "sfence", "next", "return", "done"}
  BY DEF Next, vars, LibcCall, FlushLoop, EndFlushLoop, EnterNaive, StoreByte, FlushByte, FenceByte,
         NextByte, EndNaive, CallerFence
<1>3. DOMAIN mem' = Address
  <2>1. pc' # "enter" => mem' = Partly' \/ mem' = Result'
    BY <1>2 DEF MemInv, Looping
  <2>2. pc' = "enter" => UNCHANGED mem
    BY DEF Next, vars, LibcCall, FlushLoop, EndFlushLoop, EnterNaive, StoreByte, FlushByte, FenceByte,
           NextByte, EndNaive, CallerFence
  <2>. QED BY <2>1, <2>2 DEF Partly, Result
<1>4. i' \in 0 .. n + LineSize - 1
  <2>1. CASE FlushLoop
    BY <1>1, <2>1 DEF FlushLoop, More
  <2>2. CASE NextByte
    BY <1>1, <2>2 DEF NextByte, MemInv
  <2>3. CASE UNCHANGED i
    BY <1>1, <2>3
  <2>. QED BY <2>1, <2>2, <2>3 DEF Next, vars, LibcCall, EndFlushLoop, EnterNaive, StoreByte, FlushByte,
                                   FenceByte, EndNaive, CallerFence
<1>5. /\ flushed' \subseteq Region(d, n) /\ durable' \subseteq Address
      /\ flushed' \cap durable' = {}
  <2>1. Address \subseteq durable \cup Region(d, n) /\ (clflush => flushed = {})
    BY DEF FlushInv
  <2>2. ASSUME NEW a, Flush(a)
        PROVE  /\ flushed' \subseteq Region(d, n) /\ durable' \subseteq Address
               /\ flushed' \cap durable' = {}
    BY <2>1, <2>2 DEF Flush, Line
  <2>3. CASE FlushLoop \/ FlushByte
    BY <2>2, <2>3 DEF FlushLoop, FlushByte
  <2>4. CASE LibcCall
    BY <2>1, <2>4 DEF LibcCall
  <2>5. CASE StoreByte
    BY <2>1, <2>5 DEF StoreByte
  <2>6. CASE FenceByte \/ CallerFence
    BY <1>1, <2>6 DEF FenceByte, CallerFence, Fence
  <2>7. CASE UNCHANGED <<flushed, durable>>
    BY <2>7
  <2>. QED BY <2>3, <2>4, <2>5, <2>6, <2>7 DEF Next, vars, EndFlushLoop, EnterNaive, NextByte, EndNaive
<1>. QED BY <1>0, <1>1, <1>2, <1>3, <1>4, <1>5

LEMMA IntrinsicsInit == Init => Inv
<1>. SUFFICES ASSUME Init PROVE Inv
  OBVIOUS
<1>1. call \in Calls /\ old = [a \in Address |-> old[a]] /\ mem = old
  BY CallAssumption DEF Init
<1>2. n \in Nat /\ LineSize \in Nat \ {0}
  BY <1>1, CallOK
<1>3. TypeOK
  BY <1>1, <1>2 DEF Init, TypeOK
<1>. QED BY <1>1, <1>3 DEF Init, Inv, MemInv, Looping, FlushInv, OrderInv

THEOREM IntrinsicsInv == Spec => []Inv
<1>1. Inv /\ [Next]_vars => Inv'
  BY MemStep, FlushStep, OrderStep, IntrinsicsTypeStep DEF Inv
<1>. QED BY IntrinsicsInit, <1>1, PTL DEF Spec

\* The counter never leaves the lines of the buffer, and only bytes of the
\* buffer wait for a fence.
THEOREM IntrinsicsTypeCorrect == Spec => []TypeOK
BY IntrinsicsInv, PTL DEF Inv

\* For every call, the functions leave in memory what libc's do; memmove_naive
\* does however its buffers overlap.
THEOREM ResultComputed == Spec => []ComputesResult
<1>1. Inv => ComputesResult
  BY DEF Inv, MemInv, ComputesResult
<1>. QED BY <1>1, IntrinsicsInv, PTL

\* After the fence all of the buffer is durable if the lines counted from its
\* start are those it lies in, for every line size.
THEOREM FittingPersists == Spec => []PersistsWhenItFits
<1>1. Inv => PersistsWhenItFits
  BY DEF Inv, FlushInv, PersistsWhenItFits, Persists
<1>. QED BY <1>1, IntrinsicsInv, PTL
=============================================================================
