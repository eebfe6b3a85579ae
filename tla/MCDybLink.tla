----------------------------- MODULE MCDybLink -----------------------------
(* Instances of DybLink for TLC. *)
EXTENDS DybLinkRefinement

CONSTANTS tcpip, other

\* as deployed: lwIP's thread makes every request
OneCaller == {tcpip}
\* a second task calls, as ll_access_mtx allows
TwoCallers == {tcpip, other}
=============================================================================
