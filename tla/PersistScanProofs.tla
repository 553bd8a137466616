------------------------- MODULE PersistScanProofs -------------------------
(***************************************************************************)
(* For every set of inputs: the handler's variables keep their types, the  *)
(* accumulated range is made of stored bytes only, and a scan that covers  *)
(* the reported range has found the last writers of all of it.             *)
(***************************************************************************)
EXTENDS PersistScan, FiniteSetTheorems, WellFoundedInduction, TLAPS

-----------------------------------------------------------------------------
(* Ranges: the interval arithmetic of AddressInfo means what it should on  *)
(* sets of bytes, for every range and every size of cache line.            *)

\* A range read from a trace is not the default one.
LEMMA NotEmpty == ASSUME NEW r \in AddressRange PROVE r # EmptyRange
BY DEF AddressRange, EmptyRange

\* The interval test of overlaps() finds a common byte, and only that.
THEOREM OverlapsIsCommonByte ==
    ASSUME NEW r \in AddressRange, NEW o \in AddressRange
    PROVE  Overlaps(r, o) <=> Bytes(r) \cap Bytes(o) # {}
<1>1. ASSUME Overlaps(r, o) PROVE Bytes(r) \cap Bytes(o) # {}
  <2>1. CASE Start(r) <= Start(o)
    <3>1. Start(o) \in Bytes(r) \cap Bytes(o)
      BY <1>1, <2>1, NotEmpty DEF AddressRange, Overlaps, Bytes, Start, End
    <3>. QED BY <3>1
  <2>2. CASE Start(o) < Start(r)
    <3>1. Start(r) \in Bytes(r) \cap Bytes(o)
      BY <1>1, <2>2, NotEmpty DEF AddressRange, Overlaps, Bytes, Start, End
    <3>. QED BY <3>1
  <2>. QED BY <2>1, <2>2 DEF AddressRange, Start
<1>2. ASSUME Bytes(r) \cap Bytes(o) # {} PROVE Overlaps(r, o)
  BY <1>2, NotEmpty DEF AddressRange, Overlaps, Bytes, Start, End
<1>. QED BY <1>1, <1>2

\* contains() is inclusion of the byte sets, for the ranges of a trace; the
\* default range, the end of which wraps, contains them all and has no byte.
THEOREM ContainsIsInclusion ==
    ASSUME NEW r \in AddressRange, NEW o \in AddressRange
    PROVE  /\ Contains(r, o) <=> Bytes(o) \subseteq Bytes(r)
           /\ Contains(EmptyRange, o) /\ Bytes(EmptyRange) = {}
<1>1. Start(o) \in Bytes(o) /\ End(o) \in Bytes(o)
  BY NotEmpty DEF AddressRange, Bytes, Start, End
<1>2. Bytes(o) \subseteq Bytes(r) => Contains(r, o)
  BY <1>1, NotEmpty DEF AddressRange, Contains, Bytes, Start, End
<1>3. Contains(r, o) => Bytes(o) \subseteq Bytes(r)
  BY NotEmpty DEF AddressRange, Contains, Bytes, Start, End
<1>4. Contains(EmptyRange, o)
  BY NotEmpty, MaxAddressAssumption DEF AddressRange, EmptyRange, Contains, Start, End
<1>5. Bytes(EmptyRange) = {}
  BY DEF EmptyRange, Bytes
<1>. QED BY <1>2, <1>3, <1>4, <1>5

(***************************************************************************)
(* Under the guard of its callers, operator+= adds exactly the bytes of    *)
(* its argument: no byte of a gap is ever counted as stored.               *)
(***************************************************************************)
THEOREM PlusIsUnion ==
    ASSUME NEW r \in AddressRange \cup {EmptyRange}, NEW o \in AddressRange, CanAdd(r, o)
    PROVE  /\ Plus(r, o) \in AddressRange
           /\ Bytes(Plus(r, o)) = Bytes(r) \cup Bytes(o)
<1>1. CASE r = EmptyRange
  <2>1. Plus(r, o) = o
    BY <1>1 DEF Plus, EmptyRange
  <2>2. Bytes(r) = {}
    BY <1>1, NotEmpty DEF EmptyRange, Bytes, Start, End
  <2>. QED BY <2>1, <2>2
<1>2. CASE r \in AddressRange
  <2>. DEFINE lo == Lower(Start(r), Start(o))
              hi == Higher(End(r), End(o))
  <2>1. Plus(r, o) = [address |-> lo, length |-> hi + 1 - lo]
    BY <1>2 DEF AddressRange, Plus
  <2>2. lo \in Nat /\ hi \in Nat /\ lo <= hi /\ hi + 1 <= MaxAddress
    BY <1>2, NotEmpty DEF AddressRange, Lower, Higher, Start, End
  <2>3. Plus(r, o) \in AddressRange
    BY <2>1, <2>2, MaxAddressAssumption DEF AddressRange
  <2>4. Bytes(Plus(r, o)) = lo .. hi
    BY <2>1, <2>2, NotEmpty DEF Bytes, Start, End
  <2>5. lo .. hi = Bytes(r) \cup Bytes(o)
    BY <1>2, CanAdd(r, o), NotEmpty DEF AddressRange, CanAdd, Bytes, Lower, Higher, Start, End
  <2>. QED BY <2>3, <2>4, <2>5
<1>. QED BY <1>1, <1>2

-----------------------------------------------------------------------------
(* The handler.                                                            *)

\* Stores and flushes have an address, in the trace that was read.
AddressesOK ==
    \A j \in DOMAIN trace : trace[j].type \in {"STORE", "FLUSH"} => trace[j].addr \in AddressRange

\* The event under a retry is a store of the range; one has been accumulated.
AtStore == pc = "retry" => i >= 1 /\ OverlappingStore(trace[i]) /\ addrInfo \in AddressRange

TypeInv == TypeOK /\ AddressesOK /\ AtStore

LEMMA InitTypeInv == Init => TypeInv
<1>. SUFFICES ASSUME Init PROVE TypeInv
  OBVIOUS
<1>1. trace \in Seq(Event) /\ bugAddr \in AddressRange /\ AddressesOK /\ storeless \subseteq DOMAIN trace
  BY InputsAssumption DEF Init, AddressesOK
<1>2. fixes \in [DOMAIN trace -> SUBSET FixKinds]
  BY DEF Init, NoFixes
<1>3. i \in 0 .. Len(trace)
  BY <1>1 DEF Init
<1>4. addrInfo = EmptyRange /\ unadded = {} /\ opIndices = {} /\ todo = {} /\ pc = "scan"
      /\ missingFlush \in BOOLEAN /\ missingFence \in BOOLEAN
  BY DEF Init
<1>. QED BY <1>1, <1>2, <1>3, <1>4 DEF TypeInv, TypeOK, AtStore

\* One step of the retry loop, or of the accumulation, yields a range.
LEMMA PlusType ==
    ASSUME NEW r \in AddressRange \cup {EmptyRange}, NEW o \in AddressRange, CanAdd(r, o)
    PROVE  Plus(r, o) \in AddressRange
BY PlusIsUnion

LEMMA StepTypeInv == TypeInv /\ [Next]_vars => TypeInv'
<1>. SUFFICES ASSUME TypeInv, [Next]_vars PROVE TypeInv'
  OBVIOUS
<1>. USE DEF TypeInv, TypeOK, AddressesOK, AtStore, OverlappingStore, inputVars, scanVars
<1>1. CASE ScanOther
  BY <1>1 DEF ScanOther, Scanning
<1>2. CASE ScanFence
  <2>1. i' \in 0 .. Len(trace')
    BY <1>2 DEF ScanFence, Scanning
  <2>2. missingFlush' \in BOOLEAN /\ missingFence' \in BOOLEAN
    BY <1>2, Zenon DEF ScanFence
  <2>. QED BY <1>2, <2>1, <2>2, Zenon DEF ScanFence, Scanning
<1>3. CASE ScanStore
  <2>1. trace[i].addr \in AddressRange
    BY <1>3 DEF ScanStore, Scanning, OverlappingStore
  <2>2. addrInfo' \in AddressRange /\ unadded' \subseteq AddressRange
    BY <1>3, <2>1, PlusType DEF ScanStore, CanAdd, EmptyRange
  <2>. QED BY <1>3, <2>2 DEF ScanStore, Scanning
<1>4. CASE Retry
  <2>1. addrInfo' \in AddressRange /\ unadded' \subseteq AddressRange
    BY <1>4, PlusType DEF Retry
  <2>. QED BY <1>4, <2>1 DEF Retry
<1>5. CASE Settle
  <2>1. i \in 1 .. Len(trace) /\ DOMAIN trace = 1 .. Len(trace)
    BY <1>5 DEF Settle
  <2>2. i' \in 0 .. Len(trace') /\ opIndices' \subseteq DOMAIN trace'
    BY <1>5, <2>1 DEF Settle
  <2>3. missingFlush' \in BOOLEAN /\ missingFence' \in BOOLEAN
    BY <1>5 DEF Settle
  <2>. QED BY <1>5, <2>2, <2>3, Zenon DEF Settle
<1>6. CASE ScanFlush
  BY <1>6 DEF ScanFlush, Scanning
<1>7. CASE Exhausted
  BY <1>7 DEF Exhausted
<1>8. CASE Emit
  BY <1>8 DEF Emit, IsFixable, Needed, FixKinds
<1>9. CASE Finish
  BY <1>9 DEF Finish
<1>10. CASE UNCHANGED vars
  BY <1>10 DEF vars
<1>. QED BY <1>1, <1>2, <1>3, <1>4, <1>5, <1>6, <1>7, <1>8, <1>9, <1>10 DEF Next

(***************************************************************************)
(* The handler's variables keep their types on every input, and a retry    *)
(* always works on a store of the reported range.                          *)
(***************************************************************************)
THEOREM TypeCorrect == Spec => []TypeOK
<1>1. Init => TypeInv
  BY InitTypeInv
<1>2. TypeInv /\ [Next]_vars => TypeInv'
  BY StepTypeInv
<1>3. TypeInv => TypeOK
  BY DEF TypeInv
<1>. QED BY <1>1, <1>2, <1>3, PTL DEF Spec

-----------------------------------------------------------------------------

\* A range put aside is that of a store the scan has met.
ParkedIsStored ==
    \A u \in unadded : \E j \in DOMAIN trace :
        Seen(j) /\ trace[j].type = "STORE" /\ trace[j].addr = u

\* The events whose turn is over.
Processed(j) == j > i \/ (j = i /\ pc \in {"emit", "done"})

\* No store of the range is passed over.
StoresKept ==
    \A j \in DOMAIN trace : OverlappingStore(trace[j]) /\ Processed(j) => j \in opIndices

ScanInv == TypeInv /\ ParkedIsStored /\ AccumulatedIsStored /\ StoresKept

\* A byte of the accumulated range after += was in one of its operands.
LEMMA PlusBytes ==
    ASSUME NEW r \in AddressRange \cup {EmptyRange}, NEW o \in AddressRange, CanAdd(r, o),
           NEW b \in Bytes(Plus(r, o))
    PROVE  b \in Bytes(r) \/ b \in Bytes(o)
BY PlusIsUnion

\* The scan never forgets that it met an event.
LEMMA SeenStays ==
    ASSUME TypeInv, [Next]_vars, NEW j \in DOMAIN trace, Seen(j)
    PROVE  Seen(j)' /\ trace' = trace /\ bugAddr' = bugAddr
<1>. j \in Nat /\ i \in Nat
  BY DEF TypeInv, TypeOK
<1>. USE DEF Seen, inputVars, scanVars
<1>1. CASE ScanOther BY <1>1 DEF ScanOther, Scanning
<1>2. CASE ScanFence BY <1>2 DEF ScanFence, Scanning
<1>3. CASE ScanStore BY <1>3 DEF ScanStore, Scanning
<1>4. CASE Retry BY <1>4 DEF Retry
<1>5. CASE Settle BY <1>5 DEF Settle
<1>6. CASE ScanFlush BY <1>6 DEF ScanFlush, Scanning
<1>7. CASE Exhausted BY <1>7 DEF Exhausted
<1>8. CASE Emit BY <1>8 DEF Emit
<1>9. CASE Finish BY <1>9 DEF Finish
<1>10. CASE UNCHANGED vars BY <1>10 DEF vars
<1>. QED BY <1>1, <1>2, <1>3, <1>4, <1>5, <1>6, <1>7, <1>8, <1>9, <1>10 DEF Next

\* The accumulation and the list of gaps change in ScanStore and Retry only.
LEMMA AccumulationUnchanged ==
    ASSUME [Next]_vars, ~ScanStore, ~Retry
    PROVE  addrInfo' = addrInfo /\ unadded' = unadded
BY DEF Next, vars, scanVars, ScanOther, ScanFence, Settle, ScanFlush, Exhausted, Emit, Finish

LEMMA ParkedStep == TypeInv /\ ParkedIsStored /\ [Next]_vars => ParkedIsStored'
<1>. SUFFICES ASSUME TypeInv, ParkedIsStored, [Next]_vars, NEW u \in unadded'
              PROVE  \E j \in DOMAIN trace' :
                        Seen(j)' /\ trace'[j].type = "STORE" /\ trace'[j].addr = u
  BY DEF ParkedIsStored
<1>1. CASE u \in unadded
  <2>1. PICK j \in DOMAIN trace : Seen(j) /\ trace[j].type = "STORE" /\ trace[j].addr = u
    BY <1>1 DEF ParkedIsStored
  <2>. QED BY <2>1, SeenStays
<1>2. CASE u \notin unadded
  <2>1. ScanStore
    BY <1>2, AccumulationUnchanged DEF Retry
  <2>2. i \in DOMAIN trace /\ i \in Nat
    BY <2>1 DEF ScanStore, Scanning, TypeInv, TypeOK
  <2>3. u = trace[i].addr /\ trace[i].type = "STORE"
    BY <2>1, <1>2 DEF ScanStore, OverlappingStore
  <2>4. i' = i /\ pc' = "retry" /\ trace' = trace
    BY <2>1 DEF ScanStore, inputVars
  <2>. QED BY <2>2, <2>3, <2>4 DEF Seen
<1>. QED BY <1>1, <1>2

LEMMA AccumulatedStep ==
    TypeInv /\ ParkedIsStored /\ AccumulatedIsStored /\ [Next]_vars => AccumulatedIsStored'
<1>. SUFFICES ASSUME TypeInv, ParkedIsStored, AccumulatedIsStored, [Next]_vars,
                     NEW b \in Bytes(addrInfo')
              PROVE  \E j \in DOMAIN trace' : Seen(j)' /\ Writes(trace'[j], b)
  BY NotEmpty DEF AccumulatedIsStored, Bytes, Start, End
<1>1. CASE b \in Bytes(addrInfo)
  <2>1. PICK j \in DOMAIN trace : Seen(j) /\ Writes(trace[j], b)
    BY <1>1 DEF AccumulatedIsStored
  <2>. QED BY <2>1, SeenStays
<1>2. CASE b \notin Bytes(addrInfo) /\ ScanStore
  <2>1. i \in DOMAIN trace /\ i \in Nat /\ trace[i].type = "STORE"
    BY <1>2 DEF ScanStore, Scanning, OverlappingStore, TypeInv, TypeOK
  <2>2. trace[i].addr \in AddressRange /\ addrInfo \in AddressRange \cup {EmptyRange}
    BY <2>1 DEF TypeInv, TypeOK, AddressesOK
  <2>3. CanAdd(addrInfo, trace[i].addr) /\ addrInfo' = Plus(addrInfo, trace[i].addr)
    BY <1>2 DEF ScanStore
  <2>4. Writes(trace[i], b)
    BY <1>2, <2>1, <2>2, <2>3, PlusBytes DEF Writes
  <2>5. i' = i /\ pc' = "retry" /\ trace' = trace
    BY <1>2 DEF ScanStore, inputVars
  <2>. QED BY <2>1, <2>4, <2>5 DEF Seen
<1>3. CASE b \notin Bytes(addrInfo) /\ Retry
  <2>1. PICK u \in unadded : CanAdd(addrInfo, u) /\ addrInfo' = Plus(addrInfo, u)
    BY <1>3 DEF Retry
  <2>2. u \in AddressRange /\ addrInfo \in AddressRange \cup {EmptyRange}
    BY DEF TypeInv, TypeOK
  <2>3. b \in Bytes(u)
    BY <1>3, <2>1, <2>2, PlusBytes
  <2>4. PICK j \in DOMAIN trace : Seen(j) /\ trace[j].type = "STORE" /\ trace[j].addr = u
    BY DEF ParkedIsStored
  <2>. QED BY <2>3, <2>4, SeenStays DEF Writes
<1>. QED BY <1>1, <1>2, <1>3, AccumulationUnchanged

LEMMA StoresKeptStep == TypeInv /\ StoresKept /\ [Next]_vars => StoresKept'
<1>. SUFFICES ASSUME TypeInv, StoresKept, [Next]_vars,
                     NEW j \in DOMAIN trace', OverlappingStore(trace[j])', Processed(j)'
              PROVE  j \in opIndices'
  BY DEF StoresKept
<1>0. i \in Nat /\ (trace' = trace => j \in DOMAIN trace /\ j \in Nat)
  BY DEF TypeInv, TypeOK
<1>. USE <1>0 DEF StoresKept, Processed, inputVars, scanVars, OverlappingStore
<1>1. CASE ScanOther
  BY <1>1 DEF ScanOther, Scanning
<1>2. CASE ScanFence
  BY <1>2 DEF ScanFence, Scanning
<1>3. CASE ScanStore
  BY <1>3 DEF ScanStore, Scanning
<1>4. CASE Retry
  BY <1>4 DEF Retry
<1>5. CASE Settle
  BY <1>5 DEF Settle
<1>6. CASE ScanFlush
  BY <1>6 DEF ScanFlush, Scanning, OverlappingFlush
<1>7. CASE Exhausted
  BY <1>7 DEF Exhausted, TypeInv, TypeOK
<1>8. CASE Emit
  BY <1>8 DEF Emit
<1>9. CASE Finish
  BY <1>9 DEF Finish
<1>10. CASE UNCHANGED vars
  BY <1>10 DEF vars
<1>. QED BY <1>1, <1>2, <1>3, <1>4, <1>5, <1>6, <1>7, <1>8, <1>9, <1>10 DEF Next

LEMMA InitScanInv == Init => ScanInv
<1>. SUFFICES ASSUME Init PROVE ScanInv
  OBVIOUS
<1>1. TypeInv
  BY InitTypeInv
<1>2. ParkedIsStored
  BY DEF Init, ParkedIsStored
<1>3. AccumulatedIsStored
  BY NotEmpty DEF Init, AccumulatedIsStored, EmptyRange, Bytes, Start, End
<1>4. StoresKept
  BY <1>1 DEF Init, StoresKept, Processed, TypeInv, TypeOK
<1>. QED BY <1>1, <1>2, <1>3, <1>4 DEF ScanInv

LEMMA StepScanInv == ScanInv /\ [Next]_vars => ScanInv'
BY StepTypeInv, ParkedStep, AccumulatedStep, StoresKeptStep DEF ScanInv

LEMMA ScanInvariant == Spec => []ScanInv
BY InitScanInv, StepScanInv, PTL DEF Spec

(***************************************************************************)
(* On every input, the accumulated range is made of bytes that stores met  *)
(* by the scan have written.                                               *)
(***************************************************************************)
THEOREM AccumulationIsSound == Spec => []AccumulatedIsStored
<1>1. ScanInv => AccumulatedIsStored
  BY DEF ScanInv
<1>. QED BY <1>1, ScanInvariant, PTL

\* A covered range has its last writers among the operations.
LEMMA WritersFound ==
    ASSUME ScanInv
    PROVE  LatestWritersFound
<1>. SUFFICES ASSUME Complete, NEW b \in Bytes(bugAddr)
              PROVE  \E j \in opIndices : /\ Writes(trace[j], b)
                                          /\ \A w \in DOMAIN trace :
                                               j <= w /\ Writes(trace[w], b) => w \in opIndices
  BY DEF LatestWritersFound
<1>1. addrInfo \in AddressRange \cup {EmptyRange} /\ bugAddr \in AddressRange /\ i \in Nat
      /\ pc \in {"emit", "done"}
  BY DEF ScanInv, TypeInv, TypeOK, Complete
<1>2. b \in Bytes(addrInfo)
  BY <1>1, ContainsIsInclusion DEF Complete, Covered
<1>3. PICK j \in DOMAIN trace : Seen(j) /\ Writes(trace[j], b)
  BY <1>1, <1>2 DEF ScanInv, AccumulatedIsStored
<1>4. DOMAIN trace \subseteq Nat
  BY DEF ScanInv, TypeInv, TypeOK
<1>5. ASSUME NEW w \in DOMAIN trace, j <= w, Writes(trace[w], b)
      PROVE  w \in opIndices
  <2>1. trace[w].type = "STORE" /\ trace[w].addr \in AddressRange /\ b \in Bytes(trace[w].addr)
    BY <1>1, <1>5 DEF Writes, ScanInv, TypeInv, AddressesOK
  <2>2. OverlappingStore(trace[w])
    BY <1>1, <2>1, OverlapsIsCommonByte DEF OverlappingStore
  <2>3. Processed(w)
    BY <1>1, <1>3, <1>4, <1>5 DEF Seen, Processed
  <2>. QED BY <1>1, <2>2, <2>3 DEF ScanInv, StoresKept
<1>6. j \in opIndices
  BY <1>3, <1>4, <1>5
<1>. QED BY <1>3, <1>5, <1>6

(***************************************************************************)
(* On every input, a scan that covers the reported range has found, for    *)
(* each of its bytes, a store to it and all the later ones.                *)
(***************************************************************************)
THEOREM LatestWritersAreFound == Spec => []LatestWritersFound
BY WritersFound, ScanInvariant, PTL

-----------------------------------------------------------------------------
(* Reports about one epoch.                                                *)

\* What Max chooses.
LEMMA MaxChosen ==
    ASSUME NEW N \in Nat, NEW S \in SUBSET (0 .. N), S # {}
    PROVE  Max(S) \in S
<1>. DEFINE R == StrictSubsetOrdering(Nat)
            F == FiniteSubsetsOf(Nat)
            Over == {n .. N : n \in S}
<1>1. IsWellFoundedOn(R, F)
  BY FS_StrictSubsetOrderingWellFounded
<1>2. Over \subseteq F /\ Over # {}
  <2>1. \A n \in Nat : IsFiniteSet(n .. N) /\ n .. N \in SUBSET Nat
    BY FS_Interval
  <2>. QED BY <2>1 DEF FiniteSubsetsOf
<1>3. PICK a \in Over : \A c \in Over : ~ (<<c, a>> \in R)
  <2>. HIDE DEF R, F, Over
  <2>. QED BY <1>1, <1>2, WFMin
<1>4. PICK x \in S : a = x .. N
  OBVIOUS
<1>5. ASSUME NEW y \in S, ~(x >= y)
      PROVE  FALSE
  <2>1. y .. N \subseteq x .. N /\ x \notin y .. N /\ x \in x .. N /\ x .. N \in SUBSET Nat /\ y .. N \in SUBSET Nat
    BY <1>5
  <2>2. <<y .. N, x .. N>> \in R
    BY <2>1 DEF StrictSubsetOrdering
  <2>. QED BY <1>3, <1>4, <2>2
<1>. QED BY <1>5 DEF Max

\* The bytes of a range within a line are in the line that it starts in.
LEMMA OneLine ==
    ASSUME NEW r \in AddressRange, IsSingleCacheLine(r), NEW b \in Bytes(r)
    PROVE  LineOf(Start(r)) = LineOf(b)
<1>1. /\ Start(r) \in Nat /\ End(r) \in Nat /\ b \in Nat
      /\ Start(r) <= b /\ b <= End(r) /\ LineSize \in Nat \ {0}
  BY LineSizeAssumption, NotEmpty DEF AddressRange, Bytes, Start, End
<1>2. ASSUME NEW x \in Nat, NEW y \in Nat, x <= y
      PROVE  LineOf(x) <= LineOf(y) /\ LineOf(x) \in Int /\ LineOf(y) \in Int
  BY <1>1, <1>2 DEF LineOf
<1>. QED BY <1>1, <1>2 DEF IsSingleCacheLine

\* Ranges that leave nothing out between them and fit into a range that
\* touches none of them: they are within it.
LEMMA NoGapLeft ==
    ASSUME NEW r \in AddressRange, NEW o \in AddressRange, NEW U \in SUBSET AddressRange,
           Overlaps(r, o), \A u \in U : ~CanAdd(r, u),
           \A b \in Bytes(o) : b \in Bytes(r) \/ \E u \in U : b \in Bytes(u)
    PROVE  Contains(r, o)
<1>1. /\ Start(r) \in Nat /\ End(r) \in Nat /\ Start(o) \in Nat /\ End(o) \in Nat
      /\ Start(r) <= End(r) /\ Start(o) <= End(o) /\ Start(r) <= End(o) /\ Start(o) <= End(r)
  BY NotEmpty DEF AddressRange, Start, End, Overlaps
<1>2. ASSUME NEW b \in Nat, NEW u \in U, b \in Bytes(u), b = End(r) + 1 \/ b + 1 = Start(r)
      PROVE  FALSE
  BY <1>2, NotEmpty DEF AddressRange, CanAdd, Bytes, Start, End
<1>3. ASSUME End(r) < End(o) PROVE FALSE
  <2>1. End(r) + 1 \in Bytes(o) /\ End(r) + 1 \notin Bytes(r) /\ End(r) + 1 \in Nat
    BY <1>1, <1>3, NotEmpty DEF Bytes, Start, End
  <2>. QED BY <1>2, <2>1
<1>4. ASSUME Start(o) < Start(r) PROVE FALSE
  <2>1. Start(r) - 1 \in Bytes(o) /\ Start(r) - 1 \notin Bytes(r) /\ Start(r) - 1 \in Nat /\ (Start(r) - 1) + 1 = Start(r)
    BY <1>1, <1>4, NotEmpty DEF Bytes, Start, End
  <2>. QED BY <1>2, <2>1
<1>. QED BY <1>1, <1>3, <1>4 DEF Contains

(***************************************************************************)
(* What the loops have gathered: the bytes of every store of the range met *)
(* so far are in the accumulated range or in one that is put aside, none   *)
(* of which touches it between two events.                                 *)
(***************************************************************************)
Gathered ==
    /\ \A j \in DOMAIN trace : OverlappingStore(trace[j]) /\ Seen(j) =>
          Bytes(trace[j].addr) \subseteq Bytes(addrInfo) \/ trace[j].addr \in unadded
    /\ \A u \in unadded : Overlaps(u, bugAddr)
    /\ addrInfo = EmptyRange \/ Overlaps(addrInfo, bugAddr)
    /\ pc = "scan" => ~Covered /\ \A u \in unadded : ~CanAdd(addrInfo, u)

\* A fence is missing as long as none was met.
FlagOK == missingFence <=> \A k \in DOMAIN trace : i < k => trace[k].type # "FENCE"

\* The operations that are done have got what they need.
Placed ==
    /\ pc \in {"scan", "retry"} => todo = opIndices
    /\ pc \in {"emit", "done"} =>
          \A j \in opIndices \ todo : IsFixable(j) => Needed \subseteq fixes[j]
    /\ pc = "done" => todo = {}

\* Where the stores are one epoch, the scan ends within it, with the range.
EndsInEpoch ==
    \A f, l \in DOMAIN trace : IsEpoch(f, l) =>
        /\ f <= i /\ pc # "abort"
        /\ pc \in {"emit", "done"} => Covered /\ missingFlush
        /\ \A j \in opIndices : i <= j /\ OverlappingStore(trace[j])

EpochInv == ScanInv /\ Gathered /\ FlagOK /\ Placed /\ EndsInEpoch

LEMMA InitEpochInv == Init => EpochInv
<1>. SUFFICES ASSUME Init PROVE EpochInv
  OBVIOUS
<1>1. ScanInv
  BY InitScanInv
<1>2. /\ i = Len(trace) /\ missingFence = TRUE /\ addrInfo = EmptyRange /\ unadded = {} /\ opIndices = {} /\ todo = {}
      /\ pc = "scan" /\ trace \in Seq(Event) /\ bugAddr \in AddressRange
  BY <1>1 DEF Init, ScanInv, TypeInv, TypeOK
<1>3. \A j \in DOMAIN trace : j \in Nat /\ j <= i
  BY <1>2
<1>4. Gathered
  <2>1. ~Covered
    BY <1>2 DEF Covered
  <2>2. \A j \in DOMAIN trace : ~Seen(j)
    BY <1>2, <1>3 DEF Seen
  <2>. QED BY <1>2, <2>1, <2>2 DEF Gathered
<1>5. FlagOK
  BY <1>2, <1>3 DEF FlagOK
<1>6. Placed
  BY <1>2 DEF Placed
<1>7. EndsInEpoch
  BY <1>2, <1>3 DEF EndsInEpoch
<1>. QED BY <1>1, <1>4, <1>5, <1>6, <1>7 DEF EpochInv

\* The range that += makes has the bytes of both.
LEMMA PlusGathers ==
    ASSUME NEW r \in AddressRange \cup {EmptyRange}, NEW o \in AddressRange, CanAdd(r, o),
           NEW g \in AddressRange, Overlaps(o, g)
    PROVE  /\ Bytes(r) \subseteq Bytes(Plus(r, o)) /\ Bytes(o) \subseteq Bytes(Plus(r, o))
           /\ Overlaps(Plus(r, o), g)
<1>1. Plus(r, o) \in AddressRange /\ Bytes(Plus(r, o)) = Bytes(r) \cup Bytes(o)
  BY PlusIsUnion
<1>2. Bytes(o) \cap Bytes(g) # {}
  BY OverlapsIsCommonByte
<1>3. Bytes(Plus(r, o)) \cap Bytes(g) # {}
  BY <1>1, <1>2
<1>. QED BY <1>1, <1>3, OverlapsIsCommonByte

LEMMA GatheredStep == TypeInv /\ Gathered /\ [Next]_vars => Gathered'
<1>. SUFFICES ASSUME TypeInv, Gathered, [Next]_vars PROVE Gathered'
  OBVIOUS
<1>1. /\ i \in Nat /\ \A j \in DOMAIN trace : j \in Nat
      /\ bugAddr \in AddressRange /\ addrInfo \in AddressRange \cup {EmptyRange} /\ unadded \subseteq AddressRange
  BY DEF TypeInv, TypeOK
<1>2. ASSUME UNCHANGED <<inputVars, addrInfo, unadded>>, \A j \in DOMAIN trace : OverlappingStore(trace[j]) /\ Seen(j)' => Seen(j),
             pc' = "scan" => ~Covered /\ \A u \in unadded : ~CanAdd(addrInfo, u)
      PROVE  Gathered'
  <2>1. trace' = trace /\ bugAddr' = bugAddr /\ addrInfo' = addrInfo /\ unadded' = unadded
    BY <1>2 DEF inputVars
  <2>2. \A j \in DOMAIN trace' : OverlappingStore(trace[j])' /\ Seen(j)' =>
          Bytes(trace'[j].addr) \subseteq Bytes(addrInfo') \/ trace'[j].addr \in unadded'
    <3>. SUFFICES ASSUME NEW j \in DOMAIN trace, OverlappingStore(trace[j]), Seen(j)
                  PROVE  Bytes(trace[j].addr) \subseteq Bytes(addrInfo) \/ trace[j].addr \in unadded
      BY <1>2, <2>1 DEF OverlappingStore
    <3>. QED BY DEF Gathered
  <2>3. Covered' <=> Covered
    BY <2>1 DEF Covered
  <2>. QED BY <1>2, <2>1, <2>2, <2>3 DEF Gathered
<1>3. CASE ScanOther \/ ScanFence
  <2>1. /\ i' = i - 1 /\ ~OverlappingStore(trace[i]) /\ pc = "scan" /\ pc' = "scan"
        /\ UNCHANGED <<inputVars, addrInfo, unadded>>
    BY <1>3 DEF ScanOther, ScanFence, Scanning, OverlappingStore, scanVars
  <2>2. \A j \in DOMAIN trace : OverlappingStore(trace[j]) /\ Seen(j)' => Seen(j)
    BY <1>1, <2>1 DEF Seen
  <2>. QED BY <1>2, <2>1, <2>2 DEF Gathered
<1>4. CASE ScanStore
  <2>. DEFINE o == trace[i].addr
  <2>1. /\ i \in DOMAIN trace /\ OverlappingStore(trace[i]) /\ o \in AddressRange /\ Overlaps(o, bugAddr)
        /\ pc = "scan" /\ pc' = "retry" /\ i' = i /\ UNCHANGED inputVars
    BY <1>4 DEF ScanStore, Scanning, OverlappingStore, TypeInv, TypeOK, AddressesOK
  <2>2. /\ Bytes(addrInfo) \subseteq Bytes(addrInfo') /\ unadded \subseteq unadded'
        /\ Bytes(o) \subseteq Bytes(addrInfo') \/ o \in unadded'
        /\ \A u \in unadded' : Overlaps(u, bugAddr)
        /\ addrInfo' = EmptyRange \/ Overlaps(addrInfo', bugAddr)
    <3>1. CASE CanAdd(addrInfo, o)
      <4>1. addrInfo' = Plus(addrInfo, o) /\ unadded' = unadded
        BY <1>4, <3>1 DEF ScanStore
      <4>. QED BY <1>1, <2>1, <3>1, <4>1, PlusGathers DEF Gathered
    <3>2. CASE ~CanAdd(addrInfo, o)
      <4>1. addrInfo' = addrInfo /\ unadded' = unadded \cup {o}
        BY <1>4, <3>2 DEF ScanStore
      <4>. QED BY <2>1, <4>1 DEF Gathered
    <3>. QED BY <3>1, <3>2
  <2>3. \A j \in DOMAIN trace : Seen(j)' => Seen(j) \/ j = i
    BY <1>1, <2>1 DEF Seen
  <2>4. trace' = trace /\ bugAddr' = bugAddr
    BY <2>1 DEF inputVars
  <2>5. \A j \in DOMAIN trace' : OverlappingStore(trace[j])' /\ Seen(j)' =>
          Bytes(trace'[j].addr) \subseteq Bytes(addrInfo') \/ trace'[j].addr \in unadded'
    <3>. SUFFICES ASSUME NEW j \in DOMAIN trace, OverlappingStore(trace[j]), Seen(j)'
                  PROVE  Bytes(trace[j].addr) \subseteq Bytes(addrInfo') \/ trace[j].addr \in unadded'
      BY <2>4 DEF OverlappingStore
    <3>. QED BY <2>2, <2>3 DEF Gathered
  <2>. QED BY <2>1, <2>2, <2>4, <2>5 DEF Gathered
<1>5. CASE Retry
  <2>1. PICK u \in unadded : CanAdd(addrInfo, u) /\ addrInfo' = Plus(addrInfo, u) /\ unadded' = unadded \ {u}
    BY <1>5 DEF Retry
  <2>2. pc = "retry" /\ pc' = "retry" /\ i' = i /\ trace' = trace /\ bugAddr' = bugAddr
    BY <1>5 DEF Retry, inputVars
  <2>3. /\ Bytes(addrInfo) \subseteq Bytes(addrInfo') /\ Bytes(u) \subseteq Bytes(addrInfo')
        /\ Overlaps(addrInfo', bugAddr)
    BY <1>1, <2>1, PlusGathers DEF Gathered
  <2>4. \A j \in DOMAIN trace' : OverlappingStore(trace[j])' /\ Seen(j)' =>
          Bytes(trace'[j].addr) \subseteq Bytes(addrInfo') \/ trace'[j].addr \in unadded'
    <3>. SUFFICES ASSUME NEW j \in DOMAIN trace, OverlappingStore(trace[j]), Seen(j)
                  PROVE  Bytes(trace[j].addr) \subseteq Bytes(addrInfo') \/ trace[j].addr \in unadded'
      BY <2>2 DEF OverlappingStore, Seen
    <3>. QED BY <2>1, <2>3 DEF Gathered
  <2>. QED BY <2>1, <2>2, <2>3, <2>4 DEF Gathered
<1>6. CASE Settle
  <2>1. /\ pc = "retry" /\ UNCHANGED <<inputVars, addrInfo, unadded>> /\ \A u \in unadded : ~CanAdd(addrInfo, u)
        /\ (pc' = "emit" /\ i' = i) \/ (pc' = "scan" /\ i' = i - 1 /\ ~Covered)
    BY <1>6 DEF Settle, Covered
  <2>2. \A j \in DOMAIN trace : Seen(j)' => Seen(j)
    BY <1>1, <2>1 DEF Seen
  <2>. QED BY <1>2, <2>1, <2>2
<1>7. CASE ScanFlush
  <2>1. /\ pc = "scan" /\ i' = i /\ pc' \in {"emit", "abort"} /\ trace[i].type = "FLUSH"
        /\ UNCHANGED <<inputVars, addrInfo, unadded>>
    BY <1>7 DEF ScanFlush, Scanning, OverlappingFlush
  <2>2. \A j \in DOMAIN trace : OverlappingStore(trace[j]) /\ Seen(j)' => Seen(j)
    BY <1>1, <2>1 DEF Seen, OverlappingStore
  <2>. QED BY <1>2, <2>1, <2>2
<1>8. CASE Exhausted
  <2>1. /\ i = 0 /\ i' = i /\ pc' \in {"emit", "abort"} /\ UNCHANGED <<inputVars, addrInfo, unadded>>
    BY <1>8 DEF Exhausted, scanVars
  <2>2. 0 \notin DOMAIN trace
    BY DEF TypeInv, TypeOK
  <2>3. \A j \in DOMAIN trace : OverlappingStore(trace[j]) /\ Seen(j)' => Seen(j)
    BY <1>1, <2>1, <2>2 DEF Seen
  <2>. QED BY <1>2, <2>1, <2>3
<1>9. CASE Emit \/ Finish
  <2>1. pc = "emit" /\ i' = i /\ pc' # "scan" /\ UNCHANGED <<inputVars, addrInfo, unadded>>
    BY <1>9 DEF Emit, Finish, scanVars
  <2>2. \A j \in DOMAIN trace : Seen(j)' => Seen(j)
    BY <2>1 DEF Seen
  <2>. QED BY <1>2, <2>1, <2>2
<1>10. CASE UNCHANGED vars
  BY <1>2, <1>10 DEF vars, Seen, Gathered, inputVars
<1>. QED BY <1>3, <1>4, <1>5, <1>6, <1>7, <1>8, <1>9, <1>10 DEF Next

LEMMA FlagStep == TypeInv /\ FlagOK /\ [Next]_vars => FlagOK'
<1>. SUFFICES ASSUME TypeInv, FlagOK, [Next]_vars PROVE FlagOK'
  OBVIOUS
<1>1. i \in Nat /\ \A k \in DOMAIN trace : k \in Nat
  BY DEF TypeInv, TypeOK
<1>2. ASSUME UNCHANGED <<trace, missingFence>>, i' = i \/ (i' = i - 1 /\ trace[i].type # "FENCE")
      PROVE  FlagOK'
  <2>1. \A k \in DOMAIN trace : i' < k => i < k \/ (k = i /\ trace[i].type # "FENCE")
    BY <1>1, <1>2
  <2>2. \A k \in DOMAIN trace : i < k => i' < k
    BY <1>1, <1>2
  <2>. QED BY <1>2, <2>1, <2>2 DEF FlagOK
<1>3. CASE ScanFence
  <2>1. i \in DOMAIN trace /\ trace[i].type = "FENCE" /\ missingFence' = FALSE /\ i' = i - 1 /\ trace' = trace
    BY <1>3 DEF ScanFence, Scanning, TypeInv, TypeOK, inputVars
  <2>2. i' < i
    BY <1>1, <2>1
  <2>. QED BY <2>1, <2>2 DEF FlagOK
<1>4. CASE ScanOther
  BY <1>2, <1>4 DEF ScanOther, inputVars
<1>5. CASE Settle
  <2>1. trace[i].type # "FENCE" /\ UNCHANGED <<trace, missingFence>> /\ (i' = i \/ i' = i - 1)
    BY <1>5 DEF Settle, TypeInv, AtStore, OverlappingStore, inputVars
  <2>. QED BY <1>2, <2>1
<1>6. CASE ScanStore \/ Retry \/ ScanFlush \/ Exhausted \/ Emit \/ Finish \/ UNCHANGED vars
  <2>1. UNCHANGED <<trace, missingFence, i>>
    BY <1>6 DEF ScanStore, Retry, ScanFlush, Exhausted, Emit, Finish, vars, inputVars
  <2>. QED BY <1>2, <2>1
<1>. QED BY <1>3, <1>4, <1>5, <1>6 DEF Next

LEMMA PlacedStep == TypeInv /\ Placed /\ [Next]_vars => Placed'
<1>. SUFFICES ASSUME TypeInv, Placed, [Next]_vars PROVE Placed'
  OBVIOUS
<1>1. CASE ScanOther \/ ScanFence \/ ScanStore \/ Retry
  <2>1. pc \in {"scan", "retry"} /\ pc' \in {"scan", "retry"} /\ UNCHANGED <<opIndices, todo>>
    BY <1>1 DEF ScanOther, ScanFence, ScanStore, Retry, Scanning, scanVars
  <2>. QED BY <2>1 DEF Placed
<1>2. CASE Settle \/ ScanFlush \/ Exhausted
  <2>1. todo' = opIndices' /\ pc' # "done"
    BY <1>2 DEF Settle, ScanFlush, Exhausted, Scanning, scanVars, Placed
  <2>. QED BY <2>1 DEF Placed
<1>3. CASE Emit
  <2>. DEFINE m == Max(todo)
  <2>1. /\ pc = "emit" /\ pc' \in {"emit", "abort"} /\ UNCHANGED <<trace, storeless, missingFlush, missingFence, opIndices>>
        /\ todo' = todo \ {m}
        /\ \/ ~IsFixable(m) /\ fixes' = fixes
           \/ fixes' = [fixes EXCEPT ![m] = @ \cup Needed]
           \/ pc' = "abort"
    BY <1>3 DEF Emit, inputVars
  <2>2. fixes \in [DOMAIN trace -> SUBSET FixKinds] /\ opIndices \subseteq DOMAIN trace
    BY DEF TypeInv, TypeOK
  <2>. HIDE DEF m
  <2>3. Needed' = Needed
    BY <2>1 DEF Needed
  <2>4. ASSUME NEW j \in opIndices \ todo', IsFixable(j), pc' = "emit"
        PROVE  Needed \subseteq fixes'[j]
    <3>1. j \in opIndices \ todo => Needed \subseteq fixes[j]
      BY <2>1, <2>4 DEF Placed
    <3>2. j \in opIndices \ todo \/ j = m
      BY <2>1, <2>4
    <3>. QED BY <2>1, <2>2, <2>4, <3>1, <3>2
  <2>5. \A j : IsFixable(j)' <=> IsFixable(j)
    BY <2>1 DEF IsFixable
  <2>. QED BY <2>1, <2>3, <2>4, <2>5 DEF Placed
<1>4. CASE Finish
  <2>1. /\ pc = "emit" /\ todo = {} /\ pc' = "done"
        /\ UNCHANGED <<trace, storeless, missingFlush, missingFence, opIndices, todo, fixes>>
    BY <1>4 DEF Finish, scanVars, inputVars
  <2>. QED BY <2>1 DEF Placed, Needed, IsFixable
<1>5. CASE UNCHANGED vars
  BY <1>5 DEF vars, Placed, Needed, IsFixable
<1>. QED BY <1>1, <1>2, <1>3, <1>4, <1>5 DEF Next

\* The stores of an epoch, once all are met, give the range.
LEMMA EpochCovers ==
    ASSUME TypeInv, Gathered, NEW f \in DOMAIN trace, NEW l \in DOMAIN trace, IsEpoch(f, l),
           \A u \in unadded : ~CanAdd(addrInfo, u),
           \A j \in DOMAIN trace : f <= j /\ OverlappingStore(trace[j]) => Seen(j)
    PROVE  Covered
<1>1. /\ bugAddr \in AddressRange /\ addrInfo \in AddressRange \cup {EmptyRange} /\ unadded \in SUBSET AddressRange
      /\ DOMAIN trace = 1 .. Len(trace) /\ f \in Nat /\ f >= 1 /\ Len(trace) \in Nat
  BY DEF TypeInv, TypeOK
<1>2. ASSUME NEW b \in Bytes(bugAddr)
      PROVE  b \in Bytes(addrInfo) \/ \E u \in unadded : b \in Bytes(u)
  <2>1. PICK j \in f .. Len(trace) : Writes(trace[j], b)
    BY DEF IsEpoch, CoveredFrom
  <2>2. j \in DOMAIN trace /\ f <= j
    BY <1>1
  <2>3. trace[j].type = "STORE" /\ b \in Bytes(trace[j].addr) /\ trace[j].addr \in AddressRange
    BY <2>1, <2>2 DEF Writes, TypeInv, AddressesOK
  <2>4. OverlappingStore(trace[j])
    BY <1>1, <2>3, OverlapsIsCommonByte DEF OverlappingStore
  <2>5. Bytes(trace[j].addr) \subseteq Bytes(addrInfo) \/ trace[j].addr \in unadded
    BY <2>2, <2>4 DEF Gathered
  <2>. QED BY <2>3, <2>5
<1>3. Start(bugAddr) \in Bytes(bugAddr)
  BY <1>1, NotEmpty DEF AddressRange, Bytes, Start, End
<1>4. addrInfo # EmptyRange
  <2>. SUFFICES ASSUME addrInfo = EmptyRange PROVE FALSE
    OBVIOUS
  <2>1. Bytes(addrInfo) = {} /\ \A u \in unadded : CanAdd(addrInfo, u)
    BY NotEmpty DEF EmptyRange, Bytes, Start, End, CanAdd
  <2>. QED BY <1>2, <1>3, <2>1
<1>5. addrInfo \in AddressRange /\ Overlaps(addrInfo, bugAddr)
  BY <1>1, <1>4 DEF Gathered
<1>. QED BY <1>1, <1>2, <1>4, <1>5, NoGapLeft DEF Covered

LEMMA EndsInEpochStep ==
    TypeInv /\ Gathered /\ Placed /\ EndsInEpoch /\ [Next]_vars => EndsInEpoch'
<1>. SUFFICES ASSUME TypeInv, Gathered, Placed, EndsInEpoch, [Next]_vars,
                     NEW f \in DOMAIN trace', NEW l \in DOMAIN trace', IsEpoch(f, l)'
              PROVE  /\ f <= i' /\ pc' # "abort"
                     /\ pc' \in {"emit", "done"} => Covered' /\ missingFlush'
                     /\ \A j \in opIndices' : i' <= j /\ OverlappingStore(trace[j])'
  BY DEF EndsInEpoch
<1>1. trace' = trace /\ bugAddr' = bugAddr /\ storeless' = storeless
  BY DEF Next, vars, inputVars, ScanOther, ScanFence, ScanStore, Retry, Settle, ScanFlush, Exhausted, Emit, Finish
<1>2. f \in DOMAIN trace /\ l \in DOMAIN trace /\ IsEpoch(f, l)
  BY <1>1 DEF IsEpoch, CoveredFrom, OverlappingStore, OverlappingFlush
<1>3. /\ f <= i /\ pc # "abort"
      /\ pc \in {"emit", "done"} => Covered /\ missingFlush
      /\ \A j \in opIndices : i <= j /\ OverlappingStore(trace[j])
  BY <1>2 DEF EndsInEpoch
<1>4. /\ i \in Nat /\ f \in Nat /\ f >= 1 /\ \A j \in DOMAIN trace : j \in Nat
      /\ opIndices \subseteq DOMAIN trace /\ todo \subseteq opIndices /\ opIndices \subseteq Nat
  BY <1>2 DEF TypeInv, TypeOK
<1>5. ASSUME /\ f <= i' /\ i' <= i /\ i' \in Nat /\ pc' # "abort" /\ opIndices' \subseteq Nat
             /\ pc' \in {"emit", "done"} => Covered' /\ missingFlush'
             /\ \A j \in opIndices' : i <= j /\ OverlappingStore(trace[j])
      PROVE  /\ f <= i' /\ pc' # "abort"
             /\ pc' \in {"emit", "done"} => Covered' /\ missingFlush'
             /\ \A j \in opIndices' : i' <= j /\ OverlappingStore(trace[j])'
  <2>1. \A j \in opIndices' : i' <= j
    BY <1>4, <1>5
  <2>. QED BY <1>1, <1>5, <2>1 DEF OverlappingStore
<1>0. ASSUME UNCHANGED addrInfo PROVE Covered' <=> Covered
  BY <1>0, <1>1 DEF Covered
<1>6. CASE ScanOther \/ ScanFence
  <2>1. /\ i' = i - 1 /\ ~OverlappingStore(trace[i]) /\ pc = "scan" /\ pc' = "scan" /\ opIndices' = opIndices
    BY <1>6 DEF ScanOther, ScanFence, Scanning, OverlappingStore, scanVars
  <2>2. f # i
    <3>. SUFFICES ASSUME f = i PROVE FALSE
      OBVIOUS
    <3>1. \A j \in DOMAIN trace : f <= j /\ OverlappingStore(trace[j]) => Seen(j)
      BY <1>4, <2>1 DEF Seen
    <3>2. ~Covered /\ \A u \in unadded : ~CanAdd(addrInfo, u)
      BY <2>1 DEF Gathered
    <3>. QED BY <1>2, <3>1, <3>2, EpochCovers
  <2>3. f <= i' /\ i' <= i /\ i' \in Nat
    BY <1>3, <1>4, <2>1, <2>2
  <2>. QED BY <1>3, <1>4, <1>5, <2>1, <2>3
<1>7. CASE ScanStore \/ Retry
  <2>1. i' = i /\ pc' = "retry" /\ opIndices' = opIndices
    BY <1>7 DEF ScanStore, Retry
  <2>. QED BY <1>3, <1>4, <1>5, <2>1
<1>8. CASE Settle
  <2>1. /\ pc = "retry" /\ opIndices' = opIndices \cup {i} /\ addrInfo' = addrInfo /\ OverlappingStore(trace[i])
        /\ \A u \in unadded : ~CanAdd(addrInfo, u)
        /\ \/ Covered /\ missingFlush' = TRUE /\ pc' = "emit" /\ i' = i
           \/ ~Covered /\ i' = i - 1 /\ pc' = "scan"
    BY <1>8 DEF Settle, TypeInv, AtStore, Covered, EmptyRange, AddressRange
  <2>2. ~Covered => f # i
    <3>. SUFFICES ASSUME ~Covered, f = i PROVE FALSE
      OBVIOUS
    <3>1. \A j \in DOMAIN trace : f <= j /\ OverlappingStore(trace[j]) => Seen(j)
      BY <1>4, <2>1 DEF Seen
    <3>. QED BY <1>2, <2>1, <3>1, EpochCovers
  <2>3. f <= i' /\ i' <= i /\ i' \in Nat
    BY <1>3, <1>4, <2>1, <2>2
  <2>4. \A j \in opIndices' : i <= j /\ OverlappingStore(trace[j])
    BY <1>3, <1>4, <2>1
  <2>. QED BY <1>0, <1>4, <1>5, <2>1, <2>3, <2>4
<1>9. CASE ScanFlush
  <2>1. i \in DOMAIN trace /\ OverlappingFlush(trace[i])
    BY <1>9 DEF ScanFlush, Scanning, TypeInv, TypeOK
  <2>. QED BY <1>2, <1>3, <2>1 DEF IsEpoch
<1>10. CASE Exhausted
  BY <1>3, <1>4, <1>10 DEF Exhausted
<1>11. CASE Emit
  <2>1. todo \in SUBSET (0 .. Len(trace)) /\ Len(trace) \in Nat /\ todo # {}
    BY <1>11 DEF Emit, TypeInv, TypeOK
  <2>2. Max(todo) \in opIndices
    BY <1>4, <2>1, MaxChosen
  <2>3. IsSingleCacheLine(trace[Max(todo)].addr)
    <3>1. Max(todo) \in DOMAIN trace /\ f <= Max(todo) /\ OverlappingStore(trace[Max(todo)])
      BY <1>3, <1>4, <2>2
    <3>. QED BY <1>2, <3>1 DEF IsEpoch
  <2>4. pc = "emit" /\ pc' = "emit" /\ UNCHANGED <<i, opIndices, addrInfo, missingFlush>>
    BY <1>11, <2>3 DEF Emit
  <2>. QED BY <1>0, <1>3, <1>4, <1>5, <2>4
<1>12. CASE Finish \/ UNCHANGED vars
  <2>1. UNCHANGED <<i, opIndices, addrInfo, missingFlush>> /\ ((pc = "emit" /\ pc' = "done") \/ pc' = pc)
    BY <1>12 DEF Finish, scanVars, vars
  <2>. QED BY <1>0, <1>3, <1>4, <1>5, <2>1
<1>. QED BY <1>6, <1>7, <1>8, <1>9, <1>10, <1>11, <1>12 DEF Next

LEMMA StepEpochInv == EpochInv /\ [Next]_vars => EpochInv'
<1>. SUFFICES ASSUME EpochInv, [Next]_vars PROVE EpochInv'
  OBVIOUS
<1>1. ScanInv /\ TypeInv /\ Gathered /\ FlagOK /\ Placed /\ EndsInEpoch
  BY DEF EpochInv, ScanInv
<1>. QED BY <1>1, StepScanInv, GatheredStep, FlagStep, PlacedStep, EndsInEpochStep DEF EpochInv

\* An operation that has its fixes flushes what it wrote, and a fence follows.
LEMMA FixedIsDurable ==
    ASSUME EpochInv, NEW f \in DOMAIN trace, NEW l \in DOMAIN trace, IsEpoch(f, l), pc = "done",
           NEW m \in opIndices, NEW b \in Bytes(bugAddr), Writes(trace[m], b),
           NEW w \in DOMAIN trace, w <= m
    PROVE  \E k \in DOMAIN trace : FlushedBy(trace, fixes, b, w, m) /\ FencedBy(trace, fixes, m, k)
<1>1. TypeInv /\ Gathered /\ FlagOK /\ Placed /\ EndsInEpoch
  BY DEF EpochInv, ScanInv
<1>2. /\ m \in DOMAIN trace /\ f <= i /\ i <= m /\ OverlappingStore(trace[m]) /\ missingFlush
      /\ trace[m].type = "STORE" /\ trace[m].addr \in AddressRange
      /\ \A j \in DOMAIN trace : j \in Nat
      /\ i \in Nat
  BY <1>1 DEF EndsInEpoch, TypeInv, TypeOK, AddressesOK, OverlappingStore
<1>3. Needed \subseteq fixes[m]
  BY <1>1, <1>2 DEF Placed, IsFixable, IsEpoch
<1>4. FlushedBy(trace, fixes, b, w, m)
  <2>1. "flush" \in fixes[m]
    BY <1>2, <1>3 DEF Needed
  <2>2. IsSingleCacheLine(trace[m].addr)
    BY <1>2 DEF IsEpoch
  <2>3. LineOf(Start(trace[m].addr)) = LineOf(b)
    BY <1>2, <2>2, OneLine DEF Writes
  <2>. QED BY <1>2, <2>1, <2>3 DEF FlushedBy, AddedFlushReaches
<1>5. CASE missingFence
  <2>1. "fence" \in fixes[m] /\ m <= m
    BY <1>2, <1>3, <1>5 DEF Needed
  <2>. QED BY <1>2, <1>4, <2>1 DEF FencedBy
<1>6. CASE ~missingFence
  <2>1. PICK k \in DOMAIN trace : i < k /\ trace[k].type = "FENCE"
    BY <1>1, <1>6 DEF FlagOK
  <2>2. m <= l /\ f <= k /\ ~Between(f, k, l)
    BY <1>2, <2>1 DEF IsEpoch
  <2>3. m < k
    BY <1>2, <2>2 DEF Between
  <2>. QED BY <1>4, <2>1, <2>3 DEF FencedBy
<1>. QED BY <1>5, <1>6

LEMMA EpochIsRepaired ==
    ASSUME EpochInv
    PROVE  EpochRepaired
<1>. SUFFICES ASSUME OneEpoch PROVE pc # "abort" /\ Repaired
  BY DEF EpochRepaired
<1>1. PICK f \in DOMAIN trace, l \in DOMAIN trace : IsEpoch(f, l)
  BY DEF OneEpoch
<1>2. pc # "abort" /\ (pc = "done" => Covered)
  BY <1>1 DEF EpochInv, EndsInEpoch
<1>3. ASSUME pc = "done", NEW b \in Bytes(bugAddr), NEW w \in DOMAIN trace, Writes(trace[w], b)
      PROVE  \E m, k \in DOMAIN trace : FlushedBy(trace, fixes, b, w, m) /\ FencedBy(trace, fixes, m, k)
  <2>1. LatestWritersFound /\ Complete
    BY <1>2, <1>3, WritersFound DEF EpochInv, Complete
  <2>2. PICK j \in opIndices : /\ Writes(trace[j], b)
                               /\ \A o \in DOMAIN trace : j <= o /\ Writes(trace[o], b) => o \in opIndices
    BY <1>3, <2>1 DEF LatestWritersFound
  <2>3. opIndices \subseteq DOMAIN trace /\ w \in Nat /\ j \in Nat
    BY DEF EpochInv, ScanInv, TypeInv, TypeOK
  <2>4. \E m \in opIndices : Writes(trace[m], b) /\ w <= m
    BY <1>3, <2>2, <2>3
  <2>5. PICK m \in opIndices : Writes(trace[m], b) /\ w <= m
    BY <2>4
  <2>. QED BY <1>1, <1>3, <2>3, <2>5, FixedIsDurable
<1>. QED BY <1>2, <1>3 DEF Repaired, DurableWith

(***************************************************************************)
(* On every input whose stores are one epoch, of any length and with any   *)
(* size of line, handleAssertPersisted returns, and the flushes and fences *)
(* it asks for make the reported range durable.                            *)
(***************************************************************************)
THEOREM OneEpochIsRepaired == Spec => []EpochRepaired
BY InitEpochInv, StepEpochInv, EpochIsRepaired, PTL DEF Spec
=============================================================================
