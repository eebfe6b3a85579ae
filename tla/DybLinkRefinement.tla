------------------------- MODULE DybLinkRefinement -------------------------
(***************************************************************************)
(* DybLink implements DybService: an exchange is served from the pend of   *)
(* ll_access_mtx to its post, and its answer counts from that post on.     *)
(***************************************************************************)
EXTENDS DybLink

PhaseOf(c) ==
  CASE pc[c] = "idle" -> "idle"
    [] pc[c] = "lock" -> "queued"
    [] pc[c] \in {"send", "clear", "wait", "copyHead", "copyTail"} -> "served"
    [] pc[c] = "unlock" -> IF ret[c] = 0 THEN "served" ELSE "failing"
    [] pc[c] = "status" -> "answered"
    [] pc[c] = "done" -> IF ret[c] = 0 THEN "finished" ELSE "failed"

AnswerOf(c) == IF pc[c] \in {"copyTail", "unlock"} THEN Blank ELSE got[c]

Service == INSTANCE DybService WITH
  phase  <- [c \in Callers |-> PhaseOf(c)],
  answer <- [c \in Callers |-> AnswerOf(c)]

\* The link behaves like the service its callers rely on: one request at a
\* time, and no answer but one's own before the first timeout (98-136).
ServiceSpec == Service!Spec
=============================================================================
