----------------------------- MODULE MCReports -----------------------------
(***************************************************************************)
(* Instances of Reports: traces of at most MaxLen events over a line of    *)
(* two bytes and two call stacks, from a store to a failed assertion.  An  *)
(* assertion that a range is persisted fails when a byte of it is not      *)
(* durable there.                                                          *)
(***************************************************************************)
EXTENDS Reports

CONSTANTS MaxLen, here, there

PM == INSTANCE PMem

Rng(first, n) == [address |-> first, length |-> n]
First == Rng(0, 1)
Other == Rng(1, 1)
Both  == Rng(0, 2)

Ev(event, ranges, stack) == [event |-> event, ranges |-> ranges, stack |-> stack]

Stores  == {Ev("STORE", {r}, here) : r \in {First, Other, Both}} \cup {Ev("STORE", {Other}, there)}
Asserts == {Ev("ASSERT_PERSISTED", {r}, st) : r \in {First, Both}, st \in Stack}
Others  == {Ev("ASSERT_ORDERED", {First, Other}, there), Ev("REQUIRED_FLUSH", {Other}, there)}
Evs == Stores \cup Asserts \cup Others
       \cup {Ev("FENCE", {}, here), Ev("FLUSH", {First}, here), Ev("FLUSH", {Both}, here)}

Sequences == {<<first>> \o middle \o <<last>> :
                first \in Stores,
                middle \in UNION {[1 .. n -> Evs] : n \in 0 .. MaxLen - 2},
                last \in Asserts}

AsPMem(e) == [type |-> IF e.event \in OpEvents THEN e.event ELSE "BUG",
              addr |-> IF e.ranges = {} THEN EmptyRange ELSE CHOOSE r \in e.ranges : TRUE]

Persisted(t, j) ==
    \A r \in t[j].ranges : \A x \in Bytes(r) :
        PM!Durable([k \in 1 .. j - 1 |-> AsPMem(t[k])], x)

IsFailure(t, j) == CASE t[j].event = "ASSERT_PERSISTED" -> ~Persisted(t, j)
                     [] t[j].event \in OpEvents -> FALSE
                     [] OTHER -> TRUE

Stamped(t) == [j \in DOMAIN t |-> [timestamp |-> j, event |-> t[j].event, ranges |-> t[j].ranges,
                                   stack |-> t[j].stack, is_bug |-> IsFailure(t, j)]]

AllTraces == {t \in {Stamped(q) : q \in Sequences} : t[Len(t)].is_bug}

=============================================================================
