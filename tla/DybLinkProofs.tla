--------------------------- MODULE DybLinkProofs ---------------------------
(***************************************************************************)
(* Theorems about DybLink, for any set of callers and any number of        *)
(* requests.                                                               *)
(***************************************************************************)
EXTENDS DybLinkRefinement, FiniteSetTheorems, TLAPS

(***************************************************************************)
(* Types and the lock.  ll_access_mtx stays a binary semaphore because     *)
(* only its holder posts it; a caller that is not idle has a request, and  *)
(* only reads copy and only writes look at the status.                     *)
(***************************************************************************)
Named ==
  \A c \in Callers :
    /\ pc[c] # "idle" => req[c] \in Ids
    /\ pc[c] \in {"copyHead", "copyTail"} => kind[c] = "read" /\ ret[c] = 0
    /\ pc[c] = "status" => kind[c] = "write" /\ ret[c] = 0

LockInv == TypeOK /\ OneExchange /\ Named

LEMMA LockInit == Init => LockInv
  BY MaxReqNat DEF Init, LockInv, TypeOK, OneExchange, Named, Inside, PCs, Kinds, Ids,
                   NoId, Parts, Blank

LEMMA LockStep == LockInv /\ [Next]_vars => LockInv'
<1> SUFFICES ASSUME LockInv, [Next]_vars PROVE LockInv'
  OBVIOUS
<1> USE MaxReqNat DEF LockInv, TypeOK, OneExchange, Named, Inside, Goto, PCs, Kinds,
                      Ids, NoId, Parts, Blank, Own
<1>1. ASSUME NEW c \in Callers, NEW k \in Kinds, Call(c, k) PROVE LockInv'
  BY <1>1 DEF Call
<1>2. ASSUME NEW c \in Callers, PendMtx(c) PROVE LockInv'
  BY <1>2 DEF PendMtx
<1>3. ASSUME NEW c \in Callers, Send(c) PROVE LockInv'
  <2>1. req[c] \in Ids
    BY <1>3 DEF Send
  <2>2. (net = {} /\ ~Receiving) \in BOOLEAN
    OBVIOUS
  <2>3. TypeOK'
    BY <1>3, <2>1, <2>2 DEF Send
  <2> QED
    BY <1>3, <2>3 DEF Send
<1>4. ASSUME NEW c \in Callers, ClearWaitSem(c) PROVE LockInv'
  BY <1>4 DEF ClearWaitSem
<1>5. ASSUME NEW c \in Callers, Woken(c) PROVE LockInv'
  BY <1>5 DEF Woken
<1>6. ASSUME NEW c \in Callers, Timeout(c) PROVE LockInv'
  BY <1>6 DEF Timeout
<1>7. ASSUME NEW c \in Callers, CopyHead(c) PROVE LockInv'
  BY <1>7 DEF CopyHead
<1>8. ASSUME NEW c \in Callers, CopyTail(c) PROVE LockInv'
  BY <1>8 DEF CopyTail
<1>9. ASSUME NEW c \in Callers, PostMtx(c) PROVE LockInv'
  BY <1>9 DEF PostMtx
<1>10. ASSUME NEW c \in Callers, ReadStatus(c) PROVE LockInv'
  BY <1>10 DEF ReadStatus
<1>11. ASSUME NEW c \in Callers, Return(c) PROVE LockInv'
  BY <1>11 DEF Return
<1>12. ASSUME NEW q \in net, CaptureHead(q) PROVE LockInv'
  BY <1>12 DEF CaptureHead, callerVars
<1>13. ASSUME NEW q \in net, Lose(q) PROVE LockInv'
  BY <1>13 DEF Lose, callerVars
<1>14. CASE CaptureTail
  BY <1>14 DEF CaptureTail, callerVars
<1>15. CASE CapturePost
  BY <1>15 DEF CapturePost, callerVars
<1>16. CASE UNCHANGED vars
  BY <1>16 DEF vars
<1> QED
  BY <1>1, <1>2, <1>3, <1>4, <1>5, <1>6, <1>7, <1>8, <1>9, <1>10,
     <1>11, <1>12, <1>13, <1>14, <1>15, <1>16
     DEF Next, CallerStep, Link

\* Every variable stays within its type in every reachable state (53-136).
THEOREM TypeCorrect == Spec => []TypeOK
<1>1. LockInv => TypeOK
  BY DEF LockInv
<1> QED
  BY <1>1, LockInit, LockStep, PTL DEF Spec

\* ll_access_mtx admits one caller at a time to the link (109-125).
THEOREM ExchangesExclude == Spec => []OneExchange
<1>1. LockInv => OneExchange
  BY DEF LockInv
<1> QED
  BY <1>1, LockInit, LockStep, PTL DEF Spec
-----------------------------------------------------------------------------
(***************************************************************************)
(* Clean exchanges.  From its send to its copy, the only answer that can   *)
(* be on the line, in the receiving task or behind a post of wait_sem is   *)
(* the caller's own.                                                       *)
(***************************************************************************)
CaptureInv ==
  /\ Receiving => frame.head = rx.of
  /\ rx.at = "post" => frame.tail = rx.of

Silent == net = {} /\ ~Receiving

CleanInv ==
  \A c \in Callers : clean[c] =>
    /\ Exchanging(c) => /\ net \subseteq {req[c]}
                        /\ Receiving => net = {} /\ rx.of = req[c]
    /\ pc[c] = "wait" /\ waitSem > 0 => Silent /\ frame = Own(req[c])
    /\ pc[c] \in {"copyHead", "copyTail"} => Silent /\ frame = Own(req[c])
    /\ pc[c] = "copyTail" => got[c].head = req[c]
    /\ pc[c] \in {"unlock", "done"} /\ ret[c] = 0 /\ kind[c] = "read"
         => got[c] = Own(req[c])

CleanIInv == LockInv /\ CaptureInv /\ CleanInv

LEMMA CleanInit == Init => CleanIInv
  BY LockInit DEF Init, CleanIInv, CaptureInv, CleanInv, Receiving, Exchanging

LEMMA CleanStep == CleanIInv /\ [Next]_vars => CleanIInv'
<1> SUFFICES ASSUME CleanIInv, [Next]_vars PROVE (CaptureInv /\ CleanInv)'
  BY LockStep DEF CleanIInv
<1>0. LockInv /\ LockInv'
  BY LockStep DEF CleanIInv
<1> USE <1>0 DEF CleanIInv, LockInv, TypeOK, OneExchange, Inside, Goto, CaptureInv,
             Named, CleanInv, Silent, Receiving, Exchanging, Own, NoId, Kinds, Parts
<1>1. ASSUME NEW c \in Callers, NEW k \in Kinds, Call(c, k) PROVE (CaptureInv /\ CleanInv)'
  BY <1>1 DEF Call
<1>2. ASSUME NEW c \in Callers, PendMtx(c) PROVE (CaptureInv /\ CleanInv)'
  BY <1>2 DEF PendMtx
<1>3. ASSUME NEW c \in Callers, Send(c) PROVE (CaptureInv /\ CleanInv)'
  <2>1. CASE Silent
    BY <1>3, <2>1 DEF Send
  <2>2. CASE ~Silent
    <3>1. clean' = [clean EXCEPT ![c] = FALSE]
      BY <1>3, <2>2 DEF Send
    <3> QED
      BY <1>3, <3>1 DEF Send
  <2> QED
    BY <2>1, <2>2
<1>4. ASSUME NEW c \in Callers, ClearWaitSem(c) PROVE (CaptureInv /\ CleanInv)'
  BY <1>4 DEF ClearWaitSem
<1>5. ASSUME NEW c \in Callers, Woken(c) PROVE (CaptureInv /\ CleanInv)'
  BY <1>5 DEF Woken
<1>6. ASSUME NEW c \in Callers, Timeout(c) PROVE (CaptureInv /\ CleanInv)'
  BY <1>6 DEF Timeout
<1>7. ASSUME NEW c \in Callers, CopyHead(c) PROVE (CaptureInv /\ CleanInv)'
  BY <1>7 DEF CopyHead
<1>8. ASSUME NEW c \in Callers, CopyTail(c) PROVE (CaptureInv /\ CleanInv)'
  BY <1>8 DEF CopyTail
<1>9. ASSUME NEW c \in Callers, PostMtx(c) PROVE (CaptureInv /\ CleanInv)'
  BY <1>9 DEF PostMtx
<1>10. ASSUME NEW c \in Callers, ReadStatus(c) PROVE (CaptureInv /\ CleanInv)'
  BY <1>10 DEF ReadStatus
<1>11. ASSUME NEW c \in Callers, Return(c) PROVE (CaptureInv /\ CleanInv)'
  BY <1>11 DEF Return
<1>12. ASSUME NEW q \in net, CaptureHead(q) PROVE (CaptureInv /\ CleanInv)'
  BY <1>12 DEF CaptureHead, callerVars
<1>13. ASSUME NEW q \in net, Lose(q) PROVE (CaptureInv /\ CleanInv)'
  BY <1>13 DEF Lose, callerVars
<1>14. CASE CaptureTail
  BY <1>14 DEF CaptureTail, callerVars
<1>15. CASE CapturePost
  BY <1>15 DEF CapturePost, callerVars
<1>16. CASE UNCHANGED vars
  BY <1>16 DEF vars
<1> QED
  BY <1>1, <1>2, <1>3, <1>4, <1>5, <1>6, <1>7, <1>8, <1>9, <1>10,
     <1>11, <1>12, <1>13, <1>14, <1>15, <1>16
     DEF Next, CallerStep, Link

\* A read sent on a silent link takes its own whole answer (98-122).
THEOREM CleanReads == Spec => []CleanReadOwnsAnswer
<1>1. CleanIInv => CleanReadOwnsAnswer
  BY DEF CleanIInv, CleanInv, CleanReadOwnsAnswer, Answered
<1> QED
  BY <1>1, CleanInit, CleanStep, PTL DEF Spec
-----------------------------------------------------------------------------
(***************************************************************************)
(* Stale answers are paid for by timeouts.                                 *)
(***************************************************************************)
LEMMA OneMore ==
  ASSUME NEW S, NEW x, IsFiniteSet(S), Cardinality(S) \in Nat
  PROVE  /\ IsFiniteSet(S \cup {x}) /\ Cardinality(S \cup {x}) \in Nat
         /\ Cardinality(S \cup {x}) =< Cardinality(S) + 1
<1>1. IsFiniteSet(S \cup {x}) /\ Cardinality(S \cup {x})
        = IF x \in S THEN Cardinality(S) ELSE Cardinality(S) + 1
  BY FS_AddElement
<1> QED
  BY <1>1

LEMMA OneLess ==
  ASSUME NEW S, NEW x \in S, IsFiniteSet(S), Cardinality(S) \in Nat
  PROVE  /\ IsFiniteSet(S \ {x}) /\ Cardinality(S \ {x}) \in Nat
         /\ Cardinality(S \ {x}) = Cardinality(S) - 1
  BY FS_RemoveElement, FS_CardinalityType

StaleIInv == LockInv /\ IsFiniteSet(net) /\ Cardinality(net) \in Nat /\ StaleBounded

LEMMA StaleInit == Init => StaleIInv
  BY LockInit, FS_EmptySet DEF Init, StaleIInv, StaleBounded, Receiving, Exchanging

LEMMA StaleStep == StaleIInv /\ [Next]_vars => StaleIInv'
<1> DEFINE Goal == (IsFiniteSet(net) /\ Cardinality(net) \in Nat /\ StaleBounded)'
<1> SUFFICES ASSUME StaleIInv, [Next]_vars PROVE Goal
  BY LockStep DEF StaleIInv
<1>0. LockInv /\ LockInv'
  BY LockStep DEF StaleIInv
<1> USE <1>0 DEF StaleIInv, LockInv, TypeOK, OneExchange, Inside, Goto, Receiving,
             Exchanging, StaleBounded, NoId
<1>1. ASSUME NEW c \in Callers, NEW k \in Kinds, Call(c, k) PROVE Goal
  BY <1>1 DEF Call
<1>2. ASSUME NEW c \in Callers, PendMtx(c) PROVE Goal
  BY <1>2 DEF PendMtx
<1>3. ASSUME NEW c \in Callers, Send(c) PROVE Goal
  <2>1. IsFiniteSet(net') /\ Cardinality(net') \in Nat /\ Cardinality(net') =< Cardinality(net) + 1
    BY <1>3, OneMore DEF Send
  <2>2. Exchanging(c)' /\ ~\E d \in Callers : Exchanging(d)
    BY <1>3 DEF Send, PCs
  <2> QED
    BY <1>3, <2>1, <2>2 DEF Send
<1>4. ASSUME NEW c \in Callers, ClearWaitSem(c) PROVE Goal
  BY <1>4 DEF ClearWaitSem
<1>5. ASSUME NEW c \in Callers, Woken(c) PROVE Goal
  BY <1>5 DEF Woken
<1>6. ASSUME NEW c \in Callers, Timeout(c) PROVE Goal
  BY <1>6 DEF Timeout
<1>7. ASSUME NEW c \in Callers, CopyHead(c) PROVE Goal
  BY <1>7 DEF CopyHead
<1>8. ASSUME NEW c \in Callers, CopyTail(c) PROVE Goal
  BY <1>8 DEF CopyTail
<1>9. ASSUME NEW c \in Callers, PostMtx(c) PROVE Goal
  BY <1>9 DEF PostMtx
<1>10. ASSUME NEW c \in Callers, ReadStatus(c) PROVE Goal
  BY <1>10 DEF ReadStatus
<1>11. ASSUME NEW c \in Callers, Return(c) PROVE Goal
  BY <1>11 DEF Return
<1>12. ASSUME NEW q \in net, CaptureHead(q) PROVE Goal
  <2>1. IsFiniteSet(net') /\ Cardinality(net') \in Nat /\ Cardinality(net') = Cardinality(net) - 1
    BY <1>12, OneLess DEF CaptureHead
  <2> QED
    BY <1>12, <2>1 DEF CaptureHead, callerVars
<1>13. ASSUME NEW q \in net, Lose(q) PROVE Goal
  <2>1. IsFiniteSet(net') /\ Cardinality(net') \in Nat /\ Cardinality(net') = Cardinality(net) - 1
    BY <1>13, OneLess DEF Lose
  <2> QED
    BY <1>13, <2>1 DEF Lose, callerVars
<1>14. CASE CaptureTail
  BY <1>14 DEF CaptureTail, callerVars
<1>15. CASE CapturePost
  BY <1>15 DEF CapturePost, callerVars
<1>16. CASE UNCHANGED vars
  BY <1>16 DEF vars
<1> QED
  BY <1>1, <1>2, <1>3, <1>4, <1>5, <1>6, <1>7, <1>8, <1>9, <1>10,
     <1>11, <1>12, <1>13, <1>14, <1>15, <1>16
     DEF Next, CallerStep, Link

\* Outstanding answers and unused posts never exceed the timeouts (98-136).
THEOREM StaleAnswersBounded == Spec => []StaleBounded
<1>1. StaleIInv => StaleBounded
  BY DEF StaleIInv
<1> QED
  BY <1>1, StaleInit, StaleStep, PTL DEF Spec

(***************************************************************************)
(* So while nothing has timed out every exchange is clean.                 *)
(***************************************************************************)
AllClean ==
  timeouts = 0 => \A c \in Callers : pc[c] \notin {"idle", "lock", "send"} => clean[c]

MixupIInv == CleanIInv /\ StaleIInv /\ AllClean

LEMMA MixupInit == Init => MixupIInv
  BY CleanInit, StaleInit DEF Init, MixupIInv, AllClean

LEMMA MixupStep == MixupIInv /\ [Next]_vars => MixupIInv'
<1> SUFFICES ASSUME MixupIInv, [Next]_vars PROVE AllClean'
  BY CleanStep, StaleStep DEF MixupIInv
<1> USE DEF MixupIInv, StaleIInv, LockInv, TypeOK, AllClean, Goto
<1>1. ASSUME NEW c \in Callers, NEW k \in Kinds, Call(c, k) PROVE AllClean'
  BY <1>1 DEF Call
<1>2. ASSUME NEW c \in Callers, PendMtx(c) PROVE AllClean'
  BY <1>2 DEF PendMtx
<1>3. ASSUME NEW c \in Callers, Send(c) PROVE AllClean'
  <2>1. ~\E d \in Callers : Exchanging(d)
    BY <1>3 DEF Send, OneExchange, Inside, Exchanging
  <2>2. ASSUME timeouts = 0 PROVE Cardinality(net) = 0 /\ ~Receiving
    BY <2>1, <2>2 DEF StaleBounded
  <2>3. ASSUME timeouts = 0 PROVE net = {} /\ ~Receiving
    BY <2>2, <2>3, FS_EmptySet
  <2> QED
    BY <1>3, <2>3 DEF Send
<1>4. ASSUME NEW c \in Callers, ClearWaitSem(c) PROVE AllClean'
  BY <1>4 DEF ClearWaitSem
<1>5. ASSUME NEW c \in Callers, Woken(c) PROVE AllClean'
  BY <1>5 DEF Woken
<1>6. ASSUME NEW c \in Callers, Timeout(c) PROVE AllClean'
  BY <1>6 DEF Timeout
<1>7. ASSUME NEW c \in Callers, CopyHead(c) PROVE AllClean'
  BY <1>7 DEF CopyHead
<1>8. ASSUME NEW c \in Callers, CopyTail(c) PROVE AllClean'
  BY <1>8 DEF CopyTail
<1>9. ASSUME NEW c \in Callers, PostMtx(c) PROVE AllClean'
  BY <1>9 DEF PostMtx
<1>10. ASSUME NEW c \in Callers, ReadStatus(c) PROVE AllClean'
  BY <1>10 DEF ReadStatus
<1>11. ASSUME NEW c \in Callers, Return(c) PROVE AllClean'
  BY <1>11 DEF Return
<1>12. ASSUME NEW q \in net, CaptureHead(q) PROVE AllClean'
  BY <1>12 DEF CaptureHead, callerVars
<1>13. ASSUME NEW q \in net, Lose(q) PROVE AllClean'
  BY <1>13 DEF Lose, callerVars
<1>14. CASE CaptureTail
  BY <1>14 DEF CaptureTail, callerVars
<1>15. CASE CapturePost
  BY <1>15 DEF CapturePost, callerVars
<1>16. CASE UNCHANGED vars
  BY <1>16 DEF vars
<1> QED
  BY <1>1, <1>2, <1>3, <1>4, <1>5, <1>6, <1>7, <1>8, <1>9, <1>10,
     <1>11, <1>12, <1>13, <1>14, <1>15, <1>16
     DEF Next, CallerStep, Link

\* Until a request times out every read gets its own answer (53-136).
THEOREM NoMixupBeforeTimeout == Spec => []NoTimeoutNoMixup
<1>1. MixupIInv => NoTimeoutNoMixup
  BY DEF MixupIInv, CleanIInv, CleanInv, AllClean, NoTimeoutNoMixup, Answered
<1> QED
  BY <1>1, MixupInit, MixupStep, PTL DEF Spec
-----------------------------------------------------------------------------
(***************************************************************************)
(* With one caller nothing can touch web_control->frame between the post   *)
(* of ll_access_mtx and the look at cmdStatus.                             *)
(***************************************************************************)
SingleCaller == \A c, d \in Callers : c = d

StatusInv ==
  \A c \in Callers : clean[c] /\ kind[c] = "write" /\ ret[c] = 0 =>
    /\ pc[c] \in {"unlock", "status"} => Silent /\ frame = Own(req[c])
    /\ pc[c] = "done" => got[c] = Own(req[c])

LEMMA StatusStep ==
  ASSUME SingleCaller
  PROVE  CleanIInv /\ StatusInv /\ [Next]_vars => StatusInv'
<1> SUFFICES ASSUME CleanIInv, StatusInv, [Next]_vars PROVE StatusInv'
  OBVIOUS
<1> USE DEF SingleCaller, CleanIInv, LockInv, TypeOK, Named, CaptureInv, CleanInv, StatusInv,
            Silent, Receiving, Exchanging, Goto, Own, NoId, Kinds, Parts
<1>1. ASSUME NEW c \in Callers, NEW k \in Kinds, Call(c, k) PROVE StatusInv'
  BY <1>1 DEF Call
<1>2. ASSUME NEW c \in Callers, PendMtx(c) PROVE StatusInv'
  BY <1>2 DEF PendMtx
<1>3. ASSUME NEW c \in Callers, Send(c) PROVE StatusInv'
  BY <1>3 DEF Send
<1>4. ASSUME NEW c \in Callers, ClearWaitSem(c) PROVE StatusInv'
  BY <1>4 DEF ClearWaitSem
<1>5. ASSUME NEW c \in Callers, Woken(c) PROVE StatusInv'
  BY <1>5 DEF Woken
<1>6. ASSUME NEW c \in Callers, Timeout(c) PROVE StatusInv'
  BY <1>6 DEF Timeout
<1>7. ASSUME NEW c \in Callers, CopyHead(c) PROVE StatusInv'
  BY <1>7 DEF CopyHead
<1>8. ASSUME NEW c \in Callers, CopyTail(c) PROVE StatusInv'
  BY <1>8 DEF CopyTail
<1>9. ASSUME NEW c \in Callers, PostMtx(c) PROVE StatusInv'
  BY <1>9 DEF PostMtx
<1>10. ASSUME NEW c \in Callers, ReadStatus(c) PROVE StatusInv'
  BY <1>10 DEF ReadStatus
<1>11. ASSUME NEW c \in Callers, Return(c) PROVE StatusInv'
  BY <1>11 DEF Return
<1>12. ASSUME NEW q \in net, CaptureHead(q) PROVE StatusInv'
  BY <1>12 DEF CaptureHead, callerVars
<1>13. ASSUME NEW q \in net, Lose(q) PROVE StatusInv'
  BY <1>13 DEF Lose, callerVars
<1>14. CASE CaptureTail
  BY <1>14 DEF CaptureTail, callerVars
<1>15. CASE CapturePost
  BY <1>15 DEF CapturePost, callerVars
<1>16. CASE UNCHANGED vars
  BY <1>16 DEF vars
<1> HIDE DEF CleanIInv, LockInv, TypeOK, Named, CaptureInv, CleanInv, StatusInv, Goto
<1> QED
  BY <1>1, <1>2, <1>3, <1>4, <1>5, <1>6, <1>7, <1>8, <1>9, <1>10,
     <1>11, <1>12, <1>13, <1>14, <1>15, <1>16
     DEF Next, CallerStep, Link

\* A single caller's write looks at its own status (342-360, 455-473, 530-548).
THEOREM CleanWrites ==
  ASSUME SingleCaller
  PROVE  Spec => []CleanWriteOwnsStatus
<1>1. Init => CleanIInv /\ StatusInv
  BY CleanInit DEF Init, StatusInv
<1>2. CleanIInv /\ StatusInv /\ [Next]_vars => (CleanIInv /\ StatusInv)'
  BY CleanStep, StatusStep
<1>3. CleanIInv /\ StatusInv => CleanWriteOwnsStatus
  BY DEF StatusInv, CleanWriteOwnsStatus, Answered
<1> QED
  BY <1>1, <1>2, <1>3, PTL DEF Spec
-----------------------------------------------------------------------------
(***************************************************************************)
(* The link implements the service.                                        *)
(***************************************************************************)
\* between its wake-up and its post a caller's answer is not yet given
BlankInv ==
  \A c \in Callers :
    \/ pc[c] \in {"lock", "send", "clear", "wait", "copyHead", "status"}
    \/ pc[c] = "unlock" /\ (kind[c] = "write" \/ ret[c] = -1)
    => got[c] = Blank

LEMMA BlankInit == Init => BlankInv
  BY DEF Init, BlankInv

LEMMA BlankStep == LockInv /\ BlankInv /\ [Next]_vars => BlankInv'
<1> SUFFICES ASSUME LockInv, BlankInv, [Next]_vars PROVE BlankInv'
  OBVIOUS
<1> USE DEF LockInv, TypeOK, BlankInv, Goto
<1>1. ASSUME NEW c \in Callers, NEW k \in Kinds, Call(c, k) PROVE BlankInv'
  BY <1>1 DEF Call
<1>2. ASSUME NEW c \in Callers, PendMtx(c) PROVE BlankInv'
  BY <1>2 DEF PendMtx
<1>3. ASSUME NEW c \in Callers, Send(c) PROVE BlankInv'
  BY <1>3 DEF Send
<1>4. ASSUME NEW c \in Callers, ClearWaitSem(c) PROVE BlankInv'
  BY <1>4 DEF ClearWaitSem
<1>5. ASSUME NEW c \in Callers, Woken(c) PROVE BlankInv'
  BY <1>5 DEF Woken
<1>6. ASSUME NEW c \in Callers, Timeout(c) PROVE BlankInv'
  BY <1>6 DEF Timeout
<1>7. ASSUME NEW c \in Callers, CopyHead(c) PROVE BlankInv'
  BY <1>7 DEF CopyHead
<1>8. ASSUME NEW c \in Callers, CopyTail(c) PROVE BlankInv'
  BY <1>8 DEF CopyTail, Named
<1>9. ASSUME NEW c \in Callers, PostMtx(c) PROVE BlankInv'
  BY <1>9 DEF PostMtx
<1>10. ASSUME NEW c \in Callers, ReadStatus(c) PROVE BlankInv'
  BY <1>10 DEF ReadStatus
<1>11. ASSUME NEW c \in Callers, Return(c) PROVE BlankInv'
  BY <1>11 DEF Return
<1>12. ASSUME NEW q \in net, CaptureHead(q) PROVE BlankInv'
  BY <1>12 DEF CaptureHead, callerVars
<1>13. ASSUME NEW q \in net, Lose(q) PROVE BlankInv'
  BY <1>13 DEF Lose, callerVars
<1>14. CASE CaptureTail
  BY <1>14 DEF CaptureTail, callerVars
<1>15. CASE CapturePost
  BY <1>15 DEF CapturePost, callerVars
<1>16. CASE UNCHANGED vars
  BY <1>16 DEF vars
<1> QED
  BY <1>1, <1>2, <1>3, <1>4, <1>5, <1>6, <1>7, <1>8, <1>9, <1>10,
     <1>11, <1>12, <1>13, <1>14, <1>15, <1>16
     DEF Next, CallerStep, Link

LEMMA ServiceInit == Init => Service!Init
  BY DEF Init, Service!Init, Service!Nothing, Service!NoId, PhaseOf, AnswerOf, Blank, NoId

LEMMA MoveOf ==
  ASSUME NEW c \in Callers, NEW from, NEW to,
         PhaseOf(c) = from, PhaseOf(c)' = to,
         \A d \in Callers \ {c} : PhaseOf(d)' = PhaseOf(d)
  PROVE  Service!Move(c, from, to)
<1> DEFINE ph == [d \in Callers |-> PhaseOf(d)]
<1>1. ph[c] = from
  OBVIOUS
<1>2. ph' = [ph EXCEPT ![c] = to]
  OBVIOUS
<1> QED
  BY <1>1, <1>2 DEF Service!Move

LEMMA ServiceStep == MixupIInv /\ BlankInv /\ [Next]_vars => [Service!Next]_(Service!vars)
<1> SUFFICES ASSUME MixupIInv, BlankInv, [Next]_vars PROVE Service!Next \/ UNCHANGED Service!vars
  OBVIOUS
<1>0. LockInv /\ LockInv'
  BY LockStep DEF MixupIInv, CleanIInv
<1> DEFINE Stutter == UNCHANGED Service!vars
           SameAnswers == UNCHANGED [d \in Callers |-> AnswerOf(d)]
<1> USE <1>0 DEF LockInv, TypeOK, Named, Goto, PCs
<1>1. ASSUME NEW c \in Callers, NEW k \in Kinds, Call(c, k) PROVE Service!Begin(c)
  <2>1. Service!Move(c, "idle", "queued")
    <3>1. PhaseOf(c) = "idle" /\ PhaseOf(c)' = "queued"
      BY <1>1 DEF Call, PhaseOf
    <3>2. \A d \in Callers \ {c} : PhaseOf(d)' = PhaseOf(d)
      BY <1>1 DEF Call, PhaseOf
    <3> QED
      BY <3>1, <3>2, MoveOf
  <2>2. [d \in Callers |-> AnswerOf(d)]'
          = [[d \in Callers |-> AnswerOf(d)] EXCEPT ![c] = Service!Nothing]
    BY <1>1 DEF Call, AnswerOf, Service!Nothing, Service!NoId, Blank, NoId
  <2> QED
    BY <1>1, <2>1, <2>2 DEF Call, Service!Begin, Kinds
<1>2. ASSUME NEW c \in Callers, PendMtx(c) PROVE Service!Enter(c)
  <2>1. Service!Move(c, "queued", "served")
    <3>1. PhaseOf(c) = "queued" /\ PhaseOf(c)' = "served"
      BY <1>2 DEF PendMtx, PhaseOf
    <3>2. \A d \in Callers \ {c} : PhaseOf(d)' = PhaseOf(d)
      BY <1>2 DEF PendMtx, PhaseOf
    <3> QED
      BY <3>1, <3>2, MoveOf
  <2>2. \A d \in Callers : PhaseOf(d) \notin {"served", "failing"}
    BY <1>2 DEF PendMtx, PhaseOf, OneExchange, Inside
  <2>3. SameAnswers
    BY <1>2 DEF PendMtx, AnswerOf
  <2> QED
    BY <1>2, <2>1, <2>2, <2>3 DEF PendMtx, Service!Enter
<1>3. ASSUME NEW c \in Callers, Send(c) PROVE Stutter
  BY <1>3 DEF Send, Service!vars, PhaseOf, AnswerOf
<1>4. ASSUME NEW c \in Callers, ClearWaitSem(c) PROVE Stutter
  BY <1>4 DEF ClearWaitSem, Service!vars, PhaseOf, AnswerOf
<1>5. ASSUME NEW c \in Callers, Woken(c) PROVE Stutter
  <2>1. UNCHANGED [d \in Callers |-> PhaseOf(d)]
    BY <1>5 DEF Woken, PhaseOf
  <2>2. SameAnswers
    BY <1>5 DEF Woken, AnswerOf, BlankInv, Kinds
  <2> QED
    BY <1>5, <2>1, <2>2 DEF Woken, Service!vars
<1>6. ASSUME NEW c \in Callers, Timeout(c) PROVE Service!Fail(c)
  <2>1. Service!Move(c, "served", "failing")
    <3>1. PhaseOf(c) = "served" /\ PhaseOf(c)' = "failing"
      BY <1>6 DEF Timeout, PhaseOf
    <3>2. \A d \in Callers \ {c} : PhaseOf(d)' = PhaseOf(d)
      BY <1>6 DEF Timeout, PhaseOf
    <3> QED
      BY <3>1, <3>2, MoveOf
  <2>2. SameAnswers
    BY <1>6 DEF Timeout, AnswerOf, BlankInv
  <2> QED
    BY <1>6, <2>1, <2>2 DEF Timeout, Service!Fail
<1>7. ASSUME NEW c \in Callers, CopyHead(c) PROVE Stutter
  BY <1>7 DEF CopyHead, Service!vars, PhaseOf, AnswerOf, BlankInv
<1>8. ASSUME NEW c \in Callers, CopyTail(c) PROVE Stutter
  BY <1>8 DEF CopyTail, Service!vars, PhaseOf, AnswerOf
<1>9. ASSUME NEW c \in Callers, PostMtx(c)
      PROVE  Service!AnswerRead(c) \/ Service!AnswerWrite(c) \/ Service!Give(c)
  <2>1. CASE ret[c] = 0 /\ kind[c] = "read"
    <3>1. timeouts = 0 => got[c] = Own(req[c])
      BY <1>9, <2>1 DEF PostMtx, MixupIInv, CleanIInv, CleanInv, AllClean
    <3>2. got[c] \in Service!Answers
      BY DEF Service!Answers, Service!Ids, Service!NoId, Parts, Ids, NoId
    <3>3. Service!Move(c, "served", "finished")
      <4>1. PhaseOf(c) = "served" /\ PhaseOf(c)' = "finished"
        BY <1>9, <2>1 DEF PostMtx, PhaseOf
      <4>2. \A d \in Callers \ {c} : PhaseOf(d)' = PhaseOf(d)
        BY <1>9, <2>1 DEF PostMtx, PhaseOf
      <4> QED
        BY <4>1, <4>2, MoveOf
    <3>4. [d \in Callers |-> AnswerOf(d)]'
            = [[d \in Callers |-> AnswerOf(d)] EXCEPT ![c] = got[c]]
      BY <1>9, <2>1 DEF PostMtx, AnswerOf
    <3> QED
      BY <1>9, <2>1, <3>1, <3>2, <3>3, <3>4 DEF PostMtx, Service!AnswerRead, Service!Own, Own
  <2>2. CASE ret[c] = 0 /\ kind[c] = "write"
    <3>1. Service!Move(c, "served", "answered")
      <4>1. PhaseOf(c) = "served" /\ PhaseOf(c)' = "answered"
        BY <1>9, <2>2 DEF PostMtx, PhaseOf
      <4>2. \A d \in Callers \ {c} : PhaseOf(d)' = PhaseOf(d)
        BY <1>9, <2>2 DEF PostMtx, PhaseOf
      <4> QED
        BY <4>1, <4>2, MoveOf
    <3>2. SameAnswers
      BY <1>9, <2>2 DEF PostMtx, AnswerOf, BlankInv
    <3> QED
      BY <1>9, <2>2, <3>1, <3>2 DEF PostMtx, Service!AnswerWrite
  <2>3. CASE ret[c] = -1
    <3>1. Service!Move(c, "failing", "failed")
      <4>1. PhaseOf(c) = "failing" /\ PhaseOf(c)' = "failed"
        BY <1>9, <2>3 DEF PostMtx, PhaseOf
      <4>2. \A d \in Callers \ {c} : PhaseOf(d)' = PhaseOf(d)
        BY <1>9, <2>3 DEF PostMtx, PhaseOf
      <4> QED
        BY <4>1, <4>2, MoveOf
    <3>2. SameAnswers
      BY <1>9, <2>3 DEF PostMtx, AnswerOf, BlankInv
    <3> QED
      BY <1>9, <2>3, <3>1, <3>2 DEF PostMtx, Service!Give
  <2> QED
    BY <2>1, <2>2, <2>3 DEF Kinds
<1>10. ASSUME NEW c \in Callers, ReadStatus(c) PROVE Service!Status(c)
  <2>1. Service!Move(c, "answered", "finished")
    <3>1. PhaseOf(c) = "answered" /\ PhaseOf(c)' = "finished"
      BY <1>10 DEF ReadStatus, PhaseOf
    <3>2. \A d \in Callers \ {c} : PhaseOf(d)' = PhaseOf(d)
      BY <1>10 DEF ReadStatus, PhaseOf
    <3> QED
      BY <3>1, <3>2, MoveOf
  <2>2. [d \in Callers |-> AnswerOf(d)]'
          = [[d \in Callers |-> AnswerOf(d)] EXCEPT ![c] = Own(frame.head)]
    BY <1>10 DEF ReadStatus, AnswerOf
  <2>3. Own(frame.head) \in Service!Answers
    BY DEF Own, Service!Answers, Service!Ids, Service!NoId, Parts, Ids, NoId
  <2> QED
    BY <1>10, <2>1, <2>2, <2>3 DEF ReadStatus, Service!Status
<1>11. ASSUME NEW c \in Callers, Return(c) PROVE Service!Leave(c)
  <2>1. Service!Move(c, "finished", "idle") \/ Service!Move(c, "failed", "idle")
    <3>1. PhaseOf(c) \in {"finished", "failed"} /\ PhaseOf(c)' = "idle"
      BY <1>11 DEF Return, PhaseOf
    <3>2. \A d \in Callers \ {c} : PhaseOf(d)' = PhaseOf(d)
      BY <1>11 DEF Return, PhaseOf
    <3> QED
      BY <3>1, <3>2, MoveOf
  <2>2. SameAnswers
    BY <1>11 DEF Return, AnswerOf
  <2> QED
    BY <1>11, <2>1, <2>2 DEF Return, Service!Leave
<1>12. CASE Link \/ UNCHANGED vars
  BY <1>12 DEF Link, CaptureHead, Lose, CaptureTail, CapturePost, callerVars, vars,
               Service!vars, PhaseOf, AnswerOf
<1> HIDE DEF LockInv, TypeOK, Named, Goto
<1> QED
  BY <1>1, <1>2, <1>3, <1>4, <1>5, <1>6, <1>7, <1>8, <1>9, <1>10, <1>11, <1>12
     DEF Next, CallerStep, Service!Next

\* Every behaviour of the link is a behaviour of the service (98-136).
THEOREM LinkImplementsService == Spec => ServiceSpec
<1>1. Init => MixupIInv /\ BlankInv
  BY MixupInit, BlankInit
<1>2. MixupIInv /\ BlankInv /\ [Next]_vars => (MixupIInv /\ BlankInv)'
  BY MixupStep, BlankStep DEF MixupIInv, CleanIInv
<1> QED
  BY <1>1, <1>2, ServiceInit, ServiceStep, PTL DEF Spec, ServiceSpec, Service!Spec
=============================================================================
