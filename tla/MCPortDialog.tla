---------------------------- MODULE MCPortDialog ----------------------------
(* PortDialog for TLC. *)
EXTENDS PortDialog

Filled(main, e1) ==
  [b \in Boards |-> IF b \in main THEN "GAN111_MAIN_CTRL" ELSE IF b \in e1 THEN "GAN111_8E1" ELSE "none"]
\* a device as shipped, one whose E1 boards are not next to it, and chassis
\* full of one type of board
Shipped   == Filled({0}, {1})
Scattered == Filled({0, 5}, {3, 8})
Full      == {Filled(Boards, {}), Filled({}, Boards)}

AllProbed == ({Shipped} \X {<<"opt", 0, 1>>, <<"ge", 0, 1>>, <<"fe", 0, 5>>, <<"e1", 1, 7>>})
             \cup ({Scattered} \X {<<"opt", 5, 0>>, <<"fe", 5, 0>>, <<"e1", 8, 0>>})
             \cup (Full \X {<<"opt", 0, 0>>, <<"ge", 8, 1>>, <<"e1", 8, 7>>})

\* the lines of these ports, and the last ones
AllClicked == {0, 1, 2, 5, 6, 7, 8, 17, 71}

\* an enabled port; the reserved bits of the first are set
Ground == [opt |-> 128 + 120, eth |-> 32768 + 8, e1 |-> 128]
\* any settings, with the given reserved bits
Bytes(rest) == {a + 2 * l + 128 * e + rest : a, e \in {0, 1}, l \in 0 .. 3}
Words(rest) == {8 * a + 16 * d + 32 * s + 8192 * t + 16384 * f + 32768 * e + rest :
                  a, d, t, f, e \in {0, 1}, s \in 0 .. 3}
AllProbes == [opt |-> Bytes(0), e1 |-> Bytes(120), eth |-> Words(128 + 7 + 256 * 31)]
AllConfigs ==
  {[page |-> pg, chassis |-> q[1],
    words |-> [x \in RowsOf(pg, q[1]) |-> IF x = q[2] THEN w ELSE Ground[pg]]] :
     <<pg, q, w>> \in UNION {{pg} \X {q \in AllProbed : q[2][1] \in Tables[pg]} \X AllProbes[pg] :
                             pg \in Pages}}
=============================================================================
