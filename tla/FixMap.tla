------------------------------- MODULE FixMap -------------------------------
(***************************************************************************)
(* The fixes BugFixer keeps (FixType, FixDesc, fixMap_) and the coalescing *)
(* of a new fix with the one already at its place, addFixToMapping.        *)
(*                                                                         *)
(* The two REMOVE_ types are left out: computeAndAddFix no longer makes    *)
(* performance fixes, so nothing in the program builds such a FixDesc, and *)
(* the fields originals and points that go with them are always empty.     *)
(***************************************************************************)
EXTENDS Sequences, Naturals

CONSTANT Site      \* instructions with a source location

Primitive == {"FLUSH_ONLY", "FENCE_ONLY", "FLUSH_AND_FENCE"}
PST       == {"PST_NOFENCE", "PST"}        \* ADD_PERSIST_CALLSTACK_OPT[_NOFENCE]
FixType   == Primitive \cup PST

\* stackIdx is the number of frames below the place of the fix.
FixDesc == [type : FixType, dynStack : Seq(Site), stackIdx : Nat]

\* No entry in fixMap_, and the outcome of the assertion "what".
NoFix == [type |-> "NO_FIX"]
Stuck == [type |-> "ASSERTION"]

AddsFlush(t) == t \in {"FLUSH_ONLY", "FLUSH_AND_FENCE"} \cup PST
AddsFence(t) == t \in {"FENCE_ONLY", "FLUSH_AND_FENCE", "PST"}

\* new is at least what old asks for.
Covers(new, old) == /\ AddsFlush(old.type) => AddsFlush(new.type)
                    /\ AddsFence(old.type) => AddsFence(new.type)

\* A bug of the coalescing: no case for a flush that also needs a fence.
CoalesceNoUpgrade(old, new) ==
    CASE old.type = new.type \/ old.type = "PST" -> old
      [] old.type # "PST" /\ new.type = "PST" -> new
      [] OTHER -> Stuck

\* A bug of the coalescing: an existing fix is replaced, whatever it is.
CoalesceKeepsLast(old, new) == new

(***************************************************************************)
(* What addFixToMapping leaves at a place that has a fix.  Two primitives  *)
(* join and keep the old stack; a PST fix absorbs; a new PST fix replaces  *)
(* the description, stack included; a fence upgrades PST_NOFENCE.  The     *)
(* comparison of descriptions looks at the type only.                      *)
(***************************************************************************)
Coalesce(old, new) ==
    CASE old.type = new.type -> old
      [] old.type # new.type /\ {old.type, new.type} \subseteq Primitive
            -> [old EXCEPT !.type = "FLUSH_AND_FENCE"]
      [] old.type = "PST" /\ new.type # "PST" -> old
      [] old.type # "PST" /\ new.type = "PST" -> new
      [] old.type = "PST_NOFENCE" /\ new.type \in {"FENCE_ONLY", "FLUSH_AND_FENCE"}
            -> [old EXCEPT !.type = "PST"]
      [] OTHER -> Stuck

\* The entry after addFixToMapping, and its return value.
Added(old, new)    == IF old = NoFix THEN new ELSE Coalesce(old, new)
IsAdded(old, new)  == old = NoFix \/ Coalesce(old, new).type # old.type
=============================================================================
