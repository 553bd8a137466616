----------------------------- MODULE MCBugFixer -----------------------------
(***************************************************************************)
(* Instances of BugFixer over one small program:                           *)
(*                                                                         *)
(*   main:  d1: mid(); d2: mid(); p: call through a pointer; a: sort();    *)
(*          t1: top(); t2: top()                                           *)
(*   top:   b: mid()                                                       *)
(*   mid:   s3: store; c: leaf(); e: memcpy(); g: memcpy()                 *)
(*   leaf:  s1: store; s2: store; r: mid()                                 *)
(*   sort:  w: store; q: call back (a library function, without debug      *)
(*          information)                                                   *)
(***************************************************************************)
EXTENDS BugFixer

CONSTANTS s1, s2, s3, u, w, c, e, d1, d2, p, a, q, t1, t2, b, g, r,
          leaf, mid, top, main, memcpy, sort,
          MaxOps

FnOfSite == [x \in Site |-> CASE x \in {s1, s2, r} -> leaf
                              [] x \in {s3, c, e, g} -> mid
                              [] x = b -> top
                              [] x = u -> memcpy
                              [] x \in {w, q} -> sort
                              [] OTHER -> main]

Callee == [x \in Site |-> CASE x \in {s1, s2, s3, u, w} -> NoCallee
                            [] x = c -> leaf
                            [] x \in {e, g} -> memcpy
                            [] x \in {t1, t2} -> top
                            [] x \in {p, q} -> Indirect
                            [] x = a -> sort
                            [] OTHER -> mid]

Stacks == {<<s1, c, d1>>, <<s1, c, d2>>, <<s2, c, d1>>, <<s2, c, d2>>, <<s1, p>>,
           <<s3, d1>>, <<s3, d2>>, <<u, e, d1>>, <<u, e, d2>>, <<s1, q, a>>}

\* Longer ways up, which meet the others half way, a recursive one, and one
\* from a library function that has no PMFIXER_ version.
LongStacks == {<<w, a>>, <<s1, c, b, t1>>, <<u, e, b, t2>>, <<u, g, d1>>, <<s1, c, r, c, d1>>}

Requests(types) == [type : types, stack : Stacks]
                       \cup [type : {"FLUSH_AND_FENCE"}, stack : LongStacks]
Lists(types) == UNION {[1 .. n -> Requests(types)] : n \in 1 .. MaxOps}
PersistLists == Lists({"FLUSH_ONLY", "FLUSH_AND_FENCE"})
AllLists == Lists(Primitive)

\* The heuristic prefers some sites; it sees no aliases at a call through a
\* pointer, nor, in the last program, at the calls of mid.
Prefer(best) == [x \in Site |-> IF x \in {p, q} THEN NoAliases ELSE IF x \in best THEN 1 ELSE 0]
NoScores == {Prefer({})}
SomeScores == {Prefer({}), Prefer({c, e}), Prefer({d1, d2, t1, t2}), Prefer({s3, d1, d2, r}),
               [Prefer({c}) EXCEPT ![d1] = 2],
               [Prefer({}) EXCEPT ![c] = NoAliases, ![e] = NoAliases, ![s3] = NoAliases]}

\* The options verify uses, and others; PMTest traces are fixed in place.
VerifyOptions == [raising |-> TRUE, heuristic |-> TRUE, source |-> "GENERIC"]
AllOptions == {VerifyOptions,
               [raising |-> FALSE, heuristic |-> FALSE, source |-> "GENERIC"],
               [raising |-> TRUE, heuristic |-> FALSE, source |-> "PMTEST"]}
RaisedOnly == {VerifyOptions}
DirectOnly == {[raising |-> FALSE, heuristic |-> FALSE, source |-> "GENERIC"]}

\* Two reports of one store, on two stacks.
OneStoreTwoStacks == {<<[type |-> "FLUSH_AND_FENCE", stack |-> <<s1, c, d1>>],
                        [type |-> "FLUSH_AND_FENCE", stack |-> <<s1, c, d2>>]>>}
=============================================================================
