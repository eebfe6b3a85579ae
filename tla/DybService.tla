---------------------------- MODULE DybService -----------------------------
(***************************************************************************)
(* What ctrl_require promises to the code that calls it, without the       *)
(* semaphores, the shared frame and the serial link                        *)
(* (webserver_control_comm.c 98-136): requests are served one at a time;   *)
(* each fails or gets an answer; the answer is the request's own as long   *)
(* as no request has ever failed, and anything the board has sent          *)
(* afterwards.  DybLink implements this.                                   *)
(***************************************************************************)
EXTENDS Integers

CONSTANTS
  Callers,   \* the tasks that make requests
  MaxReq     \* bound on the number of requests

VARIABLES
  phase,     \* where each caller is
  kind,      \* "read" or "write"
  req,       \* the request each caller is making
  answer,    \* whose answer each caller holds: of its first and last bytes
  nreq,      \* number of requests made
  timeouts   \* number of requests that failed

vars == <<phase, kind, req, answer, nreq, timeouts>>

Ids     == 1 .. MaxReq
NoId    == 0
Nothing == [head |-> NoId, tail |-> NoId]
Own(q)  == [head |-> q, tail |-> q]
Answers == [head : Ids \cup {NoId}, tail : Ids \cup {NoId}]

Init ==
  /\ phase = [c \in Callers |-> "idle"]
  /\ kind = [c \in Callers |-> "read"]
  /\ req = [c \in Callers |-> NoId]
  /\ answer = [c \in Callers |-> Nothing]
  /\ nreq = 0
  /\ timeouts = 0

Move(c, from, to) ==
  /\ phase[c] = from
  /\ phase' = [phase EXCEPT ![c] = to]

Begin(c) ==
  /\ nreq < MaxReq
  /\ Move(c, "idle", "queued")
  /\ nreq' = nreq + 1
  /\ req' = [req EXCEPT ![c] = nreq + 1]
  /\ \E k \in {"read", "write"} : kind' = [kind EXCEPT ![c] = k]
  /\ answer' = [answer EXCEPT ![c] = Nothing]
  /\ UNCHANGED timeouts

\* one caller at a time
Enter(c) ==
  /\ \A d \in Callers : phase[d] \notin {"served", "failing"}
  /\ Move(c, "queued", "served")
  /\ UNCHANGED <<kind, req, answer, nreq, timeouts>>

AnswerRead(c) ==
  /\ kind[c] = "read"
  /\ Move(c, "served", "finished")
  /\ \E a \in Answers : /\ timeouts = 0 => a = Own(req[c])
                        /\ answer' = [answer EXCEPT ![c] = a]
  /\ UNCHANGED <<kind, req, nreq, timeouts>>

AnswerWrite(c) ==
  /\ kind[c] = "write"
  /\ Move(c, "served", "answered")
  /\ UNCHANGED <<kind, req, answer, nreq, timeouts>>

\* the status of a write is looked up when others may be served: nothing ties
\* it to the write
Status(c) ==
  /\ Move(c, "answered", "finished")
  /\ \E a \in Answers : answer' = [answer EXCEPT ![c] = a]
  /\ UNCHANGED <<kind, req, nreq, timeouts>>

Fail(c) ==
  /\ Move(c, "served", "failing")
  /\ timeouts' = timeouts + 1
  /\ UNCHANGED <<kind, req, answer, nreq>>

Give(c) ==
  /\ Move(c, "failing", "failed")
  /\ UNCHANGED <<kind, req, answer, nreq, timeouts>>

Leave(c) ==
  /\ Move(c, "finished", "idle") \/ Move(c, "failed", "idle")
  /\ UNCHANGED <<kind, req, answer, nreq, timeouts>>

Next ==
  \E c \in Callers :
    \/ Begin(c) \/ Enter(c) \/ AnswerRead(c) \/ AnswerWrite(c)
    \/ Status(c) \/ Fail(c) \/ Give(c) \/ Leave(c)

Spec == Init /\ [][Next]_vars
=============================================================================
