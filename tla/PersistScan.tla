---------------------------- MODULE PersistScan ----------------------------
(***************************************************************************)
(* BugFixer::handleAssertPersisted (BugFixer.cpp): for one bug report, the *)
(* trace is scanned backward from the report to find the operations that   *)
(* left the reported range unpersisted, and each of them is given a flush, *)
(* a fence, or both.                                                       *)
(*                                                                         *)
(* Every location is mapped here: unmapped ones, and what the map of fixes *)
(* does with the requests, are in BugFixer.  The location of a STORE event *)
(* holds a store or a cmpxchg, or else something that stores and is        *)
(* neither: a memset or memcpy, an atomicrmw.  That of a FLUSH event holds *)
(* a call.                                                                 *)
(***************************************************************************)
EXTENDS PMem, FiniteSetsExt

CONSTANT Inputs     \* the traces up to a bug report, the reported range, and
                    \* the events at locations without a store or a cmpxchg

ASSUME InputsAssumption ==
    \A in \in Inputs : /\ in.trace \in Seq(Event)
                       /\ in.bug \in AddressRange
                       /\ in.storeless \subseteq DOMAIN in.trace
                       /\ \A j \in DOMAIN in.trace :
                            in.trace[j].type \in {"STORE", "FLUSH"} =>
                                in.trace[j].addr \in AddressRange

VARIABLES
    trace,          \* the events before the report
    bugAddr,        \* the range the report is about
    storeless,      \* the events whose instruction is neither store nor cmpxchg
    i,              \* the event under the scan
    missingFlush,
    missingFence,
    addrInfo,       \* accumulated range of the stores found
    unadded,        \* ranges that do not touch addrInfo yet
    opIndices,      \* operations to fix
    todo,           \* those that have not got their fix yet
    fixes,          \* what is inserted after each event
    pc              \* where the handler is

vars == <<trace, bugAddr, storeless, i, missingFlush, missingFence, addrInfo, unadded,
          opIndices, todo, fixes, pc>>

scanVars == <<addrInfo, unadded, opIndices, todo>>
inputVars == <<trace, bugAddr, storeless>>

Init ==
    /\ \E in \in Inputs : trace = in.trace /\ bugAddr = in.bug /\ storeless = in.storeless
    /\ i = Len(trace)
    /\ missingFlush = FALSE
    /\ missingFence = TRUE
    /\ addrInfo = EmptyRange
    /\ unadded = {}
    /\ opIndices = {}
    /\ todo = {}
    /\ fixes = NoFixes(trace)
    /\ pc = "scan"

OverlappingStore(e) == e.type = "STORE" /\ Overlaps(e.addr, bugAddr)
OverlappingFlush(e) == e.type = "FLUSH" /\ Overlaps(e.addr, bugAddr)

Scanning == pc = "scan" /\ i >= 1

\* Assertions, and operations that do not touch the range, are passed over.
ScanOther ==
    /\ Scanning
    /\ trace[i].type # "FENCE"
    /\ ~OverlappingStore(trace[i])
    /\ ~OverlappingFlush(trace[i])
    /\ i' = i - 1
    /\ UNCHANGED <<inputVars, missingFlush, missingFence, scanVars, fixes, pc>>

ScanFence ==
    /\ Scanning
    /\ trace[i].type = "FENCE"
    /\ missingFence' = FALSE
    /\ missingFlush' = TRUE
    /\ i' = i - 1
    /\ UNCHANGED <<inputVars, scanVars, fixes, pc>>

\* The range of a store is accumulated, or put aside while there is a gap.
ScanStore ==
    /\ Scanning
    /\ OverlappingStore(trace[i])
    /\ IF CanAdd(addrInfo, trace[i].addr)
          THEN addrInfo' = Plus(addrInfo, trace[i].addr) /\ UNCHANGED unadded
          ELSE unadded' = unadded \cup {trace[i].addr} /\ UNCHANGED addrInfo
    /\ pc' = "retry"
    /\ UNCHANGED <<inputVars, i, missingFlush, missingFence, opIndices, todo, fixes>>

\* A bug of the retry loop: the range added stays in the list.
RetryNoErase ==
    /\ pc = "retry"
    /\ \E u \in unadded : /\ CanAdd(addrInfo, u)
                          /\ addrInfo' = Plus(addrInfo, u)
    /\ UNCHANGED <<inputVars, i, missingFlush, missingFence, unadded, opIndices,
                   todo, fixes, pc>>

(***************************************************************************)
(* One turn of the while loop over unadded.  The code takes the first      *)
(* range that can be added; any of them may be taken here.                 *)
(***************************************************************************)
Retry ==
    /\ pc = "retry"
    /\ \E u \in unadded : /\ CanAdd(addrInfo, u)
                          /\ addrInfo' = Plus(addrInfo, u)
                          /\ unadded' = unadded \ {u}
    /\ UNCHANGED <<inputVars, i, missingFlush, missingFence, opIndices, todo, fixes, pc>>

\* A bug of the end of the loop: the store is not kept for the repair of the
\* range, only queued.
SettleUnrecorded ==
    /\ pc = "retry"
    /\ \A u \in unadded : ~CanAdd(addrInfo, u)
    /\ todo' = opIndices \cup {i}
    /\ \/ Contains(addrInfo, bugAddr) /\ pc' = "emit" /\ UNCHANGED i
       \/ ~Contains(addrInfo, bugAddr) /\ pc' = "scan" /\ i' = i - 1
    /\ UNCHANGED <<inputVars, missingFlush, missingFence, addrInfo, unadded, opIndices, fixes>>

\* The loop is over: the store is an operation to fix, the last one if the
\* accumulated range contains the reported one.
Settle ==
    /\ pc = "retry"
    /\ \A u \in unadded : ~CanAdd(addrInfo, u)
    /\ opIndices' = opIndices \cup {i}
    /\ todo' = opIndices'
    /\ \/ /\ Contains(addrInfo, bugAddr)
          /\ missingFlush' = TRUE
          /\ pc' = "emit"
          /\ UNCHANGED i
       \/ /\ ~Contains(addrInfo, bugAddr)
          /\ i' = i - 1
          /\ pc' = "scan"
          /\ UNCHANGED missingFlush
    /\ UNCHANGED <<inputVars, missingFence, addrInfo, unadded, fixes>>

\* A flush of the range ends the scan, or one of two assertions does.
ScanFlush ==
    /\ Scanning
    /\ OverlappingFlush(trace[i])
    /\ \/ /\ IsSingleCacheLine(trace[i].addr)
          /\ missingFence
          /\ opIndices' = opIndices \cup {i}
          /\ todo' = opIndices'
          /\ pc' = "emit"
       \/ /\ ~IsSingleCacheLine(trace[i].addr) \/ ~missingFence
          /\ pc' = "abort"
          /\ UNCHANGED <<opIndices, todo>>
    /\ UNCHANGED <<inputVars, i, missingFlush, missingFence, addrInfo, unadded, fixes>>

\* The beginning of the trace is reached; opIndices must not be empty.
Exhausted ==
    /\ pc = "scan"
    /\ i = 0
    /\ pc' = IF opIndices = {} THEN "abort" ELSE "emit"
    /\ UNCHANGED <<inputVars, i, missingFlush, missingFence, scanVars, fixes>>

\* A bug of the emission: a missing flush hides the missing fence.
NeededFlushFirst == IF missingFlush THEN {"flush"}
                    ELSE IF missingFence THEN {"fence"} ELSE {}

\* ADD_FLUSH_AND_FENCE, ADD_FLUSH_ONLY, ADD_FENCE_ONLY, or nothing.
Needed == (IF missingFlush THEN {"flush"} ELSE {})
          \cup (IF missingFence THEN {"fence"} ELSE {})

(***************************************************************************)
(* One turn of the loop over opIndices, the latest event first.  Only      *)
(* stores and cmpxchgs are fixed: what else wrote the bytes of a STORE     *)
(* event is skipped without a word, like the instruction of a FLUSH.  A    *)
(* store across cache lines fails an assertion.                            *)
(***************************************************************************)
IsFixable(j) == trace[j].type = "STORE" /\ j \notin storeless

Emit ==
    /\ pc = "emit"
    /\ todo # {}
    /\ LET j == Max(todo) IN
         /\ todo' = todo \ {j}
         /\ \/ /\ ~IsFixable(j)
               /\ UNCHANGED <<fixes, pc>>
            \/ /\ IsFixable(j)
               /\ IsSingleCacheLine(trace[j].addr)
               /\ fixes' = [fixes EXCEPT ![j] = @ \cup Needed]
               /\ UNCHANGED pc
            \/ /\ IsFixable(j)
               /\ ~IsSingleCacheLine(trace[j].addr)
               /\ pc' = "abort"
               /\ UNCHANGED fixes
    /\ UNCHANGED <<inputVars, i, missingFlush, missingFence, addrInfo, unadded, opIndices>>

Finish ==
    /\ pc = "emit"
    /\ todo = {}
    /\ pc' = "done"
    /\ UNCHANGED <<inputVars, i, missingFlush, missingFence, scanVars, fixes>>

Next == \/ ScanOther \/ ScanFence \/ ScanStore \/ Retry \/ Settle \/ ScanFlush
        \/ Exhausted \/ Emit \/ Finish

Spec == Init /\ [][Next]_vars

\* The handler is one call of a sequential program: it keeps running.
FairSpec == Spec /\ WF_vars(Next)

-----------------------------------------------------------------------------

\* The types of the handler's variables.
TypeOK ==
    /\ trace \in Seq(Event)
    /\ bugAddr \in AddressRange
    /\ storeless \subseteq DOMAIN trace
    /\ i \in 0 .. Len(trace)
    /\ missingFlush \in BOOLEAN
    /\ missingFence \in BOOLEAN
    /\ addrInfo \in AddressRange \cup {EmptyRange}
    /\ unadded \subseteq AddressRange
    /\ opIndices \subseteq DOMAIN trace
    /\ todo \subseteq opIndices
    /\ fixes \in [DOMAIN trace -> SUBSET FixKinds]
    /\ pc \in {"scan", "retry", "emit", "done", "abort"}

\* The stores the scan has met: all but the one it is at while it retries.
Seen(j) == j > i \/ (j = i /\ pc # "scan")

(***************************************************************************)
(* The accumulated range never claims a byte that no store met so far has  *)
(* written, whatever the order and the gaps of the stores: the comment     *)
(* "In theory, it should add up to be exact" of the handler.               *)
(***************************************************************************)
AccumulatedIsStored ==
    \A b \in Bytes(addrInfo) : \E j \in DOMAIN trace : Seen(j) /\ Writes(trace[j], b)

\* The stores collected cover the reported range.
Covered == addrInfo # EmptyRange /\ Contains(addrInfo, bugAddr)

\* The scan stopped because they do.
Complete == pc \in {"emit", "done"} /\ Covered

(***************************************************************************)
(* When the scan has covered the range, each reported byte is written by   *)
(* an operation to fix, and so is every later store to that byte: the      *)
(* store whose value must survive never escapes the fix.                   *)
(***************************************************************************)
LatestWritersFound ==
    Complete => \A b \in Bytes(bugAddr) :
        \E j \in opIndices : /\ Writes(trace[j], b)
                             /\ \A w \in DOMAIN trace :
                                  j <= w /\ Writes(trace[w], b) => w \in opIndices

\* The stores from event n on cover the reported range, all within a line each.
CoveredFrom(n) ==
    \A b \in Bytes(bugAddr) :
        \E j \in n .. Len(trace) : Writes(trace[j], b) /\ IsSingleCacheLine(trace[j].addr)

Between(f, j, l) == f <= j /\ j <= l

(***************************************************************************)
(* The reports the three cases of the handler's comment speak of: the      *)
(* stores that make up the range, f to l, are one epoch.  There is no      *)
(* fence among them, none crosses a cache line, each is made by a store or *)
(* a cmpxchg, and the range is not flushed after f.                        *)
(***************************************************************************)
IsEpoch(f, l) ==
    /\ CoveredFrom(f)
    /\ \A j \in DOMAIN trace :
        /\ OverlappingStore(trace[j]) => j <= l
        /\ OverlappingStore(trace[j]) /\ f <= j =>
              IsSingleCacheLine(trace[j].addr) /\ j \notin storeless
        /\ Between(f, j, l) => trace[j].type # "FENCE"
        /\ f <= j => ~OverlappingFlush(trace[j])

OneEpoch == \E f, l \in DOMAIN trace : IsEpoch(f, l)

(***************************************************************************)
(* The purpose of the handler: once its fixes are in, the reported range   *)
(* is durable at the point of the report.                                  *)
(***************************************************************************)
Repaired == pc = "done" => \A b \in Bytes(bugAddr) : DurableWith(trace, fixes, b)

\* The same for the reports whose range the collected stores cover.  Where a part
\* of it was never stored and no fence follows, missingFlush is not set, and what
\* was stored is given a fence and no flush.
CoveredRepaired == Covered => Repaired

(***************************************************************************)
(* The same for the reports about one epoch: the accumulation loop, the    *)
(* two flags and the choice of the operations together repair them,        *)
(* whether or not a fence follows the stores.                              *)
(***************************************************************************)
EpochRepaired == OneEpoch => pc # "abort" /\ Repaired

\* The handler returns or stops at an assertion: neither loop runs forever.
Terminates == <>(pc \in {"done", "abort"})
=============================================================================
