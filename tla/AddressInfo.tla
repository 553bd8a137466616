---------------------------- MODULE AddressInfo ----------------------------
(***************************************************************************)
(* The address ranges of a trace (struct AddressInfo, BugReports.hpp) and  *)
(* the interval arithmetic BugFixer does with them.                        *)
(*                                                                         *)
(* The code computes in uint64_t.  A range read from a trace is not empty  *)
(* and lies in user space, well below the largest address: neither its end *)
(* nor the byte after it wraps.  EmptyRange is what the default            *)
(* constructor builds, and its end does wrap.                              *)
(***************************************************************************)
EXTENDS Integers

CONSTANTS
    LineSize,       \* sysconf(_SC_LEVEL1_DCACHE_LINESIZE), in bytes
    MaxAddress      \* UINT64_MAX

ASSUME LineSizeAssumption == LineSize \in Nat \ {0}
ASSUME MaxAddressAssumption == MaxAddress \in Nat

AddressRange == {r \in [address : Nat, length : Nat \ {0}] : r.address + r.length <= MaxAddress}

EmptyRange == [address |-> 0, length |-> 0]

\* Both ends are inclusive.  That of the empty range, 0 + 0 - 1, wraps.
Start(r) == r.address
End(r)   == IF r = EmptyRange THEN MaxAddress ELSE r.address + r.length - 1

\* The bytes a range stands for.
Bytes(r) == r.address .. r.address + r.length - 1

LineOf(b) == b \div LineSize

IsSingleCacheLine(r) == LineOf(Start(r)) = LineOf(End(r))

\* A bug of the interval test: only ranges inside this one overlap it.
OverlapsInsideOnly(r, o) == Start(r) <= Start(o) /\ End(o) <= End(r)

Overlaps(r, o) == Start(r) <= End(o) /\ Start(o) <= End(r)

\* contains: the empty range contains every other.
Contains(r, o) == Start(r) <= Start(o) /\ End(o) <= End(r)

\* A bug of the gap test: a hole of one byte is accepted.
CanAddOverGap(r, o) ==
    \/ r.length = 0
    \/ o.address < r.address /\ End(o) + 2 >= r.address
    \/ r.address <= o.address /\ End(r) + 2 >= o.address

(***************************************************************************)
(* canAdd: the two ranges touch or overlap, so that their union is a       *)
(* range.  Anything can be added to the empty range.                       *)
(***************************************************************************)
CanAdd(r, o) ==
    \/ r.length = 0
    \/ o.address < r.address /\ End(o) + 1 >= r.address
    \/ r.address <= o.address /\ End(r) + 1 >= o.address

Lower(m, n)  == IF m <= n THEN m ELSE n
Higher(m, n) == IF m >= n THEN m ELSE n

\* operator+=, the assertions of which are the guard CanAdd of its callers.
Plus(r, o) ==
    IF r.length = 0 THEN o
    ELSE LET first == Lower(Start(r), Start(o))
         IN  [address |-> first,
              length  |-> Higher(End(r), End(o)) + 1 - first]
=============================================================================
