------------------------------ MODULE DybLink ------------------------------
(***************************************************************************)
(* The link between the web server and the device's main control board     *)
(* (webserver_control_comm.c).  A caller of ctrl_require takes the         *)
(* semaphore ll_access_mtx, hands a frame to the serial link, clears       *)
(* wait_sem, waits on it for one second, copies the body of the shared     *)
(* web_control->frame and gives ll_access_mtx back.  Answers are delivered *)
(* by another task, which calls ctrl_dyb_frame_capture: it copies the      *)
(* frame into web_control->frame and posts wait_sem.                       *)
(*                                                                         *)
(* Every request carries the same server_seq (WEB_SEQ_FIELD) and           *)
(* thread_netid (WEB_THREADID_FIELD), so an answer does not say which      *)
(* request it answers.  The numbers 1..MaxReq below identify requests for  *)
(* the properties only; no guard of an action compares one with another.   *)
(* A frame with other tags is not captured and changes nothing here, so it *)
(* has no action.                                                          *)
(***************************************************************************)
EXTENDS Integers, FiniteSets

CONSTANTS
  Callers,   \* tasks that call web_read_* and web_write_*
  MaxReq     \* bound: how many requests are made in a behaviour

ASSUME CallersFinite == IsFiniteSet(Callers)
ASSUME MaxReqNat == MaxReq \in Nat

VARIABLES
  pc,        \* where each caller is in ctrl_require and its wrapper
  kind,      \* "read" copies the body, "write" looks at cmdStatus afterwards
  req,       \* the request each caller is making
  ret,       \* what ctrl_require returned to each caller: 0 or -1
  got,       \* what each caller took from web_control->frame
  mtx,       \* the count of ll_access_mtx
  waitSem,   \* the count of wait_sem
  frame,     \* web_control->frame: whose answer its first and last bytes are
  rx,        \* the task in ctrl_dyb_frame_capture
  net,       \* requests the board has yet to answer or whose answer is in transit
  nreq,      \* history: number of requests made
  timeouts,  \* history: number of requests that returned -1
  clean      \* history: no earlier answer was outstanding when the caller sent

vars == <<pc, kind, req, ret, got, mtx, waitSem, frame, rx, net, nreq, timeouts, clean>>

callerVars == <<pc, kind, req, ret, got, nreq, timeouts, clean>>
-----------------------------------------------------------------------------
Kinds  == {"read", "write"}
Ids    == 1 .. MaxReq
NoId   == 0
Parts  == [head : Ids \cup {NoId}, tail : Ids \cup {NoId}]
Blank  == [head |-> NoId, tail |-> NoId]
Own(q) == [head |-> q, tail |-> q]

PCs    == {"idle", "lock", "send", "clear", "wait", "copyHead", "copyTail",
           "unlock", "status", "done"}
\* the part of ctrl_require between OSSemPend and OSSemPost of ll_access_mtx
Inside(c)     == pc[c] \in {"send", "clear", "wait", "copyHead", "copyTail", "unlock"}
\* the request is on its way and wait_sem has not been obtained for it
Exchanging(c) == pc[c] \in {"clear", "wait"}
Receiving     == rx.at # "idle"

\* Mutant: ll_access_mtx created with a count of two.
Init_TwoTokens ==
  /\ pc = [c \in Callers |-> "idle"]
  /\ kind = [c \in Callers |-> "read"]
  /\ req = [c \in Callers |-> NoId]
  /\ ret = [c \in Callers |-> 0]
  /\ got = [c \in Callers |-> Blank]
  /\ mtx = 2
  /\ waitSem = 0
  /\ frame = Blank
  /\ rx = [at |-> "idle", of |-> NoId]
  /\ net = {}
  /\ nreq = 0
  /\ timeouts = 0
  /\ clean = [c \in Callers |-> FALSE]

Init ==
  /\ pc = [c \in Callers |-> "idle"]
  /\ kind = [c \in Callers |-> "read"]
  /\ req = [c \in Callers |-> NoId]
  /\ ret = [c \in Callers |-> 0]
  /\ got = [c \in Callers |-> Blank]
  /\ mtx = 1
  /\ waitSem = 0
  /\ frame = Blank
  /\ rx = [at |-> "idle", of |-> NoId]
  /\ net = {}
  /\ nreq = 0
  /\ timeouts = 0
  /\ clean = [c \in Callers |-> FALSE]

Goto(c, from, to) ==
  /\ pc[c] = from
  /\ pc' = [pc EXCEPT ![c] = to]
-----------------------------------------------------------------------------
(* The callers. *)

\* a wrapper fills its web_dyb_arg and calls ctrl_require
Call(c, k) ==
  /\ nreq < MaxReq
  /\ Goto(c, "idle", "lock")
  /\ nreq' = nreq + 1
  /\ req' = [req EXCEPT ![c] = nreq + 1]
  /\ kind' = [kind EXCEPT ![c] = k]
  /\ got' = [got EXCEPT ![c] = Blank]
  /\ UNCHANGED <<ret, mtx, waitSem, frame, rx, net, timeouts, clean>>

\* Mutant: the frame is sent without waiting for ll_access_mtx.
PendMtx_Skipped(c) ==
  /\ Goto(c, "lock", "send")
  /\ mtx' = 0
  /\ UNCHANGED <<kind, req, ret, got, waitSem, frame, rx, net, nreq, timeouts, clean>>

PendMtx(c) ==
  /\ mtx > 0
  /\ Goto(c, "lock", "send")
  /\ mtx' = mtx - 1
  /\ UNCHANGED <<kind, req, ret, got, waitSem, frame, rx, net, nreq, timeouts, clean>>

\* ctrl_send_dyb_frame
Send(c) ==
  /\ Goto(c, "send", "clear")
  /\ net' = net \cup {req[c]}
  /\ clean' = [clean EXCEPT ![c] = net = {} /\ ~Receiving]
  /\ UNCHANGED <<kind, req, ret, got, mtx, waitSem, frame, rx, nreq, timeouts>>

\* Mutant: wait_sem keeps the posts of earlier answers.
ClearWaitSem_Missing(c) ==
  /\ Goto(c, "clear", "wait")
  /\ UNCHANGED <<kind, req, ret, got, mtx, waitSem, frame, rx, net, nreq, timeouts, clean>>

\* OSSemSet(wait_sem, 0), after the frame has gone out
ClearWaitSem(c) ==
  /\ Goto(c, "clear", "wait")
  /\ waitSem' = 0
  /\ UNCHANGED <<kind, req, ret, got, mtx, frame, rx, net, nreq, timeouts, clean>>

\* OSSemPend(wait_sem) obtains the semaphore
Woken(c) ==
  /\ waitSem > 0
  /\ Goto(c, "wait", IF kind[c] = "read" THEN "copyHead" ELSE "unlock")
  /\ waitSem' = waitSem - 1
  /\ ret' = [ret EXCEPT ![c] = 0]
  /\ UNCHANGED <<kind, req, got, mtx, frame, rx, net, nreq, timeouts, clean>>

\* Mutant: a timeout returns without giving ll_access_mtx back.
Timeout_KeepsLock(c) ==
  /\ waitSem = 0
  /\ Goto(c, "wait", "done")
  /\ ret' = [ret EXCEPT ![c] = -1]
  /\ timeouts' = timeouts + 1
  /\ UNCHANGED <<kind, req, got, mtx, waitSem, frame, rx, net, nreq, clean>>

\* OSSemPend(wait_sem) gives up after OS_TICKS_PER_SEC
Timeout(c) ==
  /\ waitSem = 0
  /\ Goto(c, "wait", "unlock")
  /\ ret' = [ret EXCEPT ![c] = -1]
  /\ timeouts' = timeouts + 1
  /\ UNCHANGED <<kind, req, got, mtx, waitSem, frame, rx, net, nreq, clean>>

\* memcpy(cp_dst, web_control->frame.body, cp_size), which the receiving task
\* may preempt
CopyHead(c) ==
  /\ Goto(c, "copyHead", "copyTail")
  /\ got' = [got EXCEPT ![c].head = frame.head]
  /\ UNCHANGED <<kind, req, ret, mtx, waitSem, frame, rx, net, nreq, timeouts, clean>>

CopyTail(c) ==
  /\ Goto(c, "copyTail", "unlock")
  /\ got' = [got EXCEPT ![c].tail = frame.tail]
  /\ UNCHANGED <<kind, req, ret, mtx, waitSem, frame, rx, net, nreq, timeouts, clean>>

\* OSSemPost(ll_access_mtx)
PostMtx(c) ==
  /\ Goto(c, "unlock", IF kind[c] = "write" /\ ret[c] = 0 THEN "status" ELSE "done")
  /\ mtx' = mtx + 1
  /\ UNCHANGED <<kind, req, ret, got, waitSem, frame, rx, net, nreq, timeouts, clean>>

\* Mutant: a write gives ll_access_mtx back a second time.
ReadStatus_PostsAgain(c) ==
  /\ Goto(c, "status", "done")
  /\ got' = [got EXCEPT ![c] = Own(frame.head)]
  /\ mtx' = mtx + 1
  /\ UNCHANGED <<kind, req, ret, waitSem, frame, rx, net, nreq, timeouts, clean>>

\* web_write_*: if (web_control->frame.hdr.cmdStatus), with the lock released
ReadStatus(c) ==
  /\ Goto(c, "status", "done")
  /\ got' = [got EXCEPT ![c] = Own(frame.head)]
  /\ UNCHANGED <<kind, req, ret, mtx, waitSem, frame, rx, net, nreq, timeouts, clean>>

Return(c) ==
  /\ Goto(c, "done", "idle")
  /\ UNCHANGED <<kind, req, ret, got, mtx, waitSem, frame, rx, net, nreq, timeouts, clean>>

CallerStep(c) ==
  \/ PendMtx(c) \/ Send(c) \/ ClearWaitSem(c) \/ Woken(c) \/ Timeout(c)
  \/ CopyHead(c) \/ CopyTail(c) \/ PostMtx(c) \/ ReadStatus(c) \/ Return(c)
-----------------------------------------------------------------------------
(* The board, the link and the task that receives from it.  The board      *)
(* answers a request at most once, after any delay.                        *)

\* ctrl_dyb_frame_capture: memcpy(&web_control->frame, p_head, ...) ...
CaptureHead(q) ==
  /\ ~Receiving
  /\ q \in net
  /\ net' = net \ {q}
  /\ rx' = [at |-> "tail", of |-> q]
  /\ frame' = [frame EXCEPT !.head = q]
  /\ UNCHANGED <<callerVars, mtx, waitSem>>

\* Mutant: wait_sem is posted before the whole frame is copied, and again after.
CaptureTail_PostsEarly ==
  /\ rx.at = "tail"
  /\ frame' = [frame EXCEPT !.tail = rx.of]
  /\ rx' = [rx EXCEPT !.at = "post"]
  /\ waitSem' = waitSem + 1
  /\ UNCHANGED <<callerVars, mtx, net>>

CaptureTail ==
  /\ rx.at = "tail"
  /\ frame' = [frame EXCEPT !.tail = rx.of]
  /\ rx' = [rx EXCEPT !.at = "post"]
  /\ UNCHANGED <<callerVars, mtx, waitSem, net>>

\* ... OSSemPost(web_control->wait_sem)
CapturePost ==
  /\ rx.at = "post"
  /\ waitSem' = waitSem + 1
  /\ rx' = [at |-> "idle", of |-> NoId]
  /\ UNCHANGED <<callerVars, mtx, frame, net>>

\* the request or its answer is lost on the line, or the board keeps silent
Lose(q) ==
  /\ q \in net
  /\ net' = net \ {q}
  /\ UNCHANGED <<callerVars, mtx, waitSem, frame, rx>>

Link ==
  \/ \E q \in net : CaptureHead(q) \/ Lose(q)
  \/ CaptureTail
  \/ CapturePost

Next ==
  \/ \E c \in Callers : CallerStep(c) \/ \E k \in Kinds : Call(c, k)
  \/ Link

Spec == Init /\ [][Next]_vars

\* The kernel schedules every ready task and its clock ticks, so a caller
\* that has called keeps running; nothing is assumed of the link.
FairSpec == Spec /\ \A c \in Callers : WF_vars(CallerStep(c))
-----------------------------------------------------------------------------
TypeOK ==
  /\ pc \in [Callers -> PCs]
  /\ kind \in [Callers -> Kinds]
  /\ req \in [Callers -> Ids \cup {NoId}]
  /\ ret \in [Callers -> {0, -1}]
  /\ got \in [Callers -> Parts]
  /\ mtx \in {0, 1}
  /\ waitSem \in Nat
  /\ frame \in Parts
  /\ rx \in [at : {"idle", "tail", "post"}, of : Ids \cup {NoId}]
  /\ net \in SUBSET Ids
  /\ nreq \in 0 .. MaxReq
  /\ timeouts \in Nat
  /\ clean \in [Callers -> BOOLEAN]

\* One exchange at a time: the binary semaphore ll_access_mtx (109-125) is 0
\* exactly while one caller is between its pend and its post.
OneExchange ==
  /\ (mtx = 0) <=> \E c \in Callers : Inside(c)
  /\ \A c, d \in Callers : Inside(c) /\ Inside(d) => c = d

\* Answers still to come and posts not yet taken are paid for by a request
\* that gave up or by the one exchange in progress.  So while nothing has
\* timed out, every exchange starts with a silent link (98-107, 127-136).
StaleBounded ==
  Cardinality(net) + (IF Receiving THEN 1 ELSE 0) + waitSem
    =< timeouts + (IF \E c \in Callers : Exchanging(c) THEN 1 ELSE 0)

Answered(c, k) == pc[c] = "done" /\ ret[c] = 0 /\ kind[c] = k

\* A read that was sent on a silent link takes the whole answer to itself,
\* never an earlier one and never a mixture, however long its caller is kept
\* from running between the send, the OSSemSet, the wake-up and the memcpy
\* (98-122).
CleanReadOwnsAnswer ==
  \A c \in Callers : Answered(c, "read") /\ clean[c] => got[c] = Own(req[c])

\* Up to the first timeout no read is given another request's data, although
\* no answer says what it answers (66, 71, 128).
NoTimeoutNoMixup ==
  timeouts = 0 => \A c \in Callers : Answered(c, "read") => got[c] = Own(req[c])

\* With a single calling task, the web server's, the cmdStatus a write looks
\* at after it released ll_access_mtx is still its own (352-358).  It is not
\* when a second task calls.
CleanWriteOwnsStatus ==
  \A c \in Callers : Answered(c, "write") /\ clean[c] => got[c] = Own(req[c])

\* Whoever holds ll_access_mtx gives it back even if the board never answers,
\* so the web server cannot be blocked for ever by a dead board (101).
LockReleased == (mtx = 0) ~> (mtx = 1)
=============================================================================
