---------------------------- MODULE MCPortConfig ----------------------------
EXTENDS PortConfig, TLC

\* The central device has an E1 board besides its main control board, the
\* remote one has none; 0, what memset leaves, is no factory setting.
Chassis == [central |-> [b \in Boards |-> IF b = 0 THEN "GAN111_MAIN_CTRL" ELSE "GAN111_8E1"],
            remote  |-> [b \in Boards |-> IF b = 0 THEN "GAN111_MAIN_CTRL" ELSE "none"]]

Shipped   == [central |-> 1, remote |-> 2]
Shipped01 == [central |-> 1, remote |-> 0]

\* which browser is which makes no difference
Alike == Permutations(Browsers)
=============================================================================
