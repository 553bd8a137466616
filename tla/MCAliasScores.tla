--------------------------- MODULE MCAliasScores ---------------------------
(***************************************************************************)
(* Instances of AliasScores over one small program:                        *)
(*                                                                         *)
(*   main:  q = pmemobj_open(); put(q), and again through a pointer;       *)
(*   put:   stores to and flushes what p points to, and stores to r, which *)
(*          was an integer, local, on the stack, and stray, which the      *)
(*          analysis does not know;                                        *)
(*   pmemobj_open: calls map, which makes the mapping o                    *)
(*   test:  put(h), where h is malloc(); called by driver only, as put is  *)
(*   by test: neither is in a trace                                        *)
(*   idle:  nobody calls it, and it calls nothing of the others            *)
(***************************************************************************)
EXTENDS AliasScores

CONSTANTS main, put, open, map, test, driver, idle,
          o, h, local, k, q, p, r, stray,
          MaxEvents

Make(id, f, kind, operands, address, callee) ==
    [id |-> id, fn |-> f, kind |-> kind, operands |-> operands, address |-> address,
     callee |-> callee, uses |-> {callee} \ {NoFn}]

iOpen    == Make(1, main, "call", {}, NoValue, open)
iPut     == Make(2, main, "call", {q}, NoValue, put)
iPointer == Make(3, main, "pointer", {q}, NoValue, NoFn)
iStore   == Make(4, put, "store", {p, k}, p, NoFn)
iCopy    == Make(5, put, "memory", {p, local}, p, NoFn)
iSwap    == Make(6, put, "cmpxchg", {p}, p, NoFn)
iFlush   == Make(7, put, "flush", {p}, p, NoFn)
iAsm     == Make(8, put, "flushasm", {p}, p, NoFn)
iRequest == Make(9, put, "request", {local}, p, NoFn)
iUnknown == Make(10, put, "store", {r}, r, NoFn)
iLocal   == Make(11, put, "store", {local}, local, NoFn)
iNote    == Make(12, put, "annotation", {k, p}, p, NoFn)
iMap     == Make(13, open, "call", {}, NoValue, map)
iMmap    == Make(14, map, "other", {}, NoValue, NoFn)
iTest    == Make(15, test, "call", {h}, NoValue, put)
iDriver  == Make(16, driver, "call", {}, NoValue, test)
iIdle    == Make(17, idle, "other", {h}, NoValue, NoFn)
iStray   == Make(18, put, "store", {stray}, stray, NoFn)
iPass    == Make(19, main, "call", {stray}, NoValue, put)

Program == {iOpen, iPut, iPointer, iStore, iCopy, iSwap, iFlush, iAsm, iRequest, iUnknown,
            iLocal, iNote, iMap, iMmap, iTest, iDriver, iIdle, iStray, iPass}

\* Lines by number: one instruction each, but 8, that has a store and a call
\* through a pointer, 9, in two blocks, 10, of a library, and 12, that has a call
\* and one through a pointer.
Line(n) == CASE n = 1 -> {<<iPut>>}
             [] n = 2 -> {<<iPointer>>}
             [] n = 3 -> {<<iStore>>}
             [] n = 4 -> {<<iCopy>>}
             [] n = 5 -> {<<iSwap, iFlush>>}
             [] n = 6 -> {<<iRequest>>}
             [] n = 7 -> {<<iUnknown, iLocal>>}
             [] n = 8 -> {<<iStore, iAsm>>}
             [] n = 9 -> {<<iLocal, iNote>>, <<iNote>>}
             [] n = 11 -> {<<iStray>>}
             [] n = 12 -> {<<iPass, iPointer>>}
             [] OTHER -> {}
Lines == 1 .. 12
FixLocsOfLine == [n \in Lines |-> {[insts |-> Range(b), last |-> b[Len(b)]] : b \in Line(n)}]

\* Which function makes a value of another, and which allocates.
Flow == {<<open, o, q>>, <<main, q, p>>, <<test, h, p>>, <<put, p, p>>}
Allocated == {<<map, o>>, <<test, h>>, <<put, local>>}
Flows(F, x, y) == x = y \/ \E f \in F : <<f, x, y>> \in Flow
Reaches(F, x, y) == \E z \in Value : Flows(F, x, z) /\ Flows(F, z, y)
Andersen == [F \in SUBSET Fn |->
               [v \in Value |-> {x \in Value : \E f \in F : <<f, x>> \in Allocated /\ Reaches(F, x, v)}]]
Nodes == [F \in SUBSET Fn |-> Value \ {stray}]

Stacks == {<<n, 1>> : n \in 3 .. 11} \cup {<<3, 2>>, <<3, 12>>, <<3, 10, 1>>, <<10, 2>>, <<1>>, <<10>>}
TypeSet == {"STORE", "FLUSH", "FENCE"}
TraceSet == UNION {[1 .. n -> [type : TypeSet, callstack : Stacks]] : n \in 1 .. MaxEvents}
AllOptions == [traceAlias : BOOLEAN, source : {"GENERIC"}] \cup [traceAlias : {TRUE}, source : {"PMTEST"}]
=============================================================================
