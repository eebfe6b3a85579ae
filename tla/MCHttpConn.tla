----------------------------- MODULE MCHttpConn -----------------------------
(* HttpConn for TLC. *)
EXTENDS HttpConn, TLC

CONSTANTS c1, c2

TwoConns == {c1, c2}
\* a body that fits and one that does not
ShortAndLong == {1, 3}
\* the connections are alike (used for safety only)
ConnSymmetry == Permutations(TwoConns)
=============================================================================
