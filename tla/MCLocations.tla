---------------------------- MODULE MCLocations ----------------------------
(***************************************************************************)
(* Locations over one program of two files and a header:                   *)
(*                                                                         *)
(*   a.c  main:  1: bar(); 2: foo(); memcpy(); 3: through a pointer;       *)
(*               4: the other foo(); 5: g(); gx(); 6: hx();                *)
(*               7: bar(..., on the next line memcpy())                    *)
(*   b.c  bar (bar.1):  1: foo(); 2: memcpy(); 3: hx(); 4: store           *)
(*        foo (foo.1):  5: store; 6: foo()                                 *)
(*        g (g.1), gx:  7: made by one macro; g calls the other foo, gx    *)
(*              calls foo                                                  *)
(*   c.c  foo:   5: store                                                  *)
(*   u.h  hx, and hx.1 in b.c:  1: store; 2: foo(), each its own           *)
(***************************************************************************)
EXTENDS Locations

CONSTANTS main, bar1, foo, foo1, g1, gx, hx, hx1, memcpy,  \* in the module
          bar, g, memcpy_avx,                              \* in traces only
          a, b, c, h, bSeen, libc, MaxDepth

I(fn, file, line, pos, callee) ==
    [fn |-> fn, file |-> file, line |-> line, block |-> fn, pos |-> pos, callee |-> callee]

Program ==
    {I(main, a, 1, 1, bar1), I(main, a, 2, 2, foo1), I(main, a, 2, 3, memcpy),
     I(main, a, 3, 4, Indirect), I(main, a, 4, 5, foo), I(main, a, 5, 6, g1),
     I(main, a, 5, 7, gx), I(main, a, 6, 8, hx), I(main, a, 7, 9, NoCallee),
     I(main, a, 8, 10, memcpy), I(main, a, 7, 11, bar1),
     I(bar1, b, 1, 1, foo1), I(bar1, b, 2, 2, memcpy), I(bar1, b, 3, 3, hx1),
     I(bar1, b, 4, 4, NoCallee),
     I(foo1, b, 5, 1, NoCallee), I(foo1, b, 6, 2, foo1),
     I(g1, b, 7, 1, foo), I(gx, b, 7, 1, foo1),
     I(foo, c, 5, 1, NoCallee),
     I(hx, h, 1, 1, NoCallee), I(hx1, h, 1, 1, NoCallee),
     I(hx, h, 2, 2, foo), I(hx1, h, 2, 2, foo1),
     I(memcpy, libc, -1, 1, NoCallee)}

TraceNames == [f \in Fn |-> CASE f = bar1 -> bar
                              [] f \in {foo, foo1} -> foo
                              [] f = g1 -> g
                              [] f \in {hx, hx1} -> hx
                              [] f = memcpy -> memcpy_avx
                              [] OTHER -> f]

Where == [x \in Fn \X (Fn \cup Name) |->
            CASE x[1] = x[2] -> "exact"
              [] x \in {<<bar1, bar>>, <<foo1, foo>>, <<g1, g>>, <<hx1, hx>>} -> "dot"
              [] x = <<gx, g>> -> "inside"
              [] OTHER -> "none"]

\* The trace shows no directories.
FileNames == [f \in File |-> IF f = b THEN bSeen ELSE f]
Files == {<<f, f>> : f \in File} \cup {<<b, bSeen>>, <<bSeen, b>>}

\* Who may call the function of j.
Up(j) == {k \in Program : \/ k.callee = j.fn
                          \/ k.callee = Indirect /\ j.fn # main}

\* Stacks of main, from an instruction that is no call.
Chains ==
    LET grown[n \in 1 .. MaxDepth] ==
          IF n = 1 THEN {<<j>> : j \in {j \in Program : j.callee = NoCallee}}
          ELSE UNION {{Append(st, k) : k \in Up(st[n - 1])} : st \in grown[n - 1]}
    IN {st \in UNION {grown[n] : n \in 1 .. MaxDepth} : st[Len(st)].fn = main}
=============================================================================
