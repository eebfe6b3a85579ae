-------------------------- MODULE TftpClientProofs --------------------------
(***************************************************************************)
(* Theorems about TftpClient, for any files, any number of clicks and      *)
(* packets, and a network that loses, repeats and reorders; that the file  *)
(* marked is the one that was requested, and the refinement of             *)
(* UpdateService, when it does not reorder.                                *)
(***************************************************************************)
EXTENDS TftpRefinement, SequenceTheorems, TLAPS

(***************************************************************************)
(* Packets in transit.                                                     *)
(***************************************************************************)
\* What is left in transit was in transit, in the same order.
LEMMA RemoveAtProperties ==
  ASSUME NEW S, NEW q \in Seq(S), NEW i \in 1 .. Len(q)
  PROVE  /\ RemoveAt(q, i) \in Seq(S) /\ Len(RemoveAt(q, i)) = Len(q) - 1
         /\ \A j \in 1 .. Len(q) - 1 : RemoveAt(q, i)[j] = IF j < i THEN q[j] ELSE q[j + 1]
<1> DEFINE front == SubSeq(q, 1, i - 1)
           back  == SubSeq(q, i + 1, Len(q))
<1>1. Len(q) \in Nat
  BY LenProperties
<1>2. /\ front \in Seq(S) /\ Len(front) = i - 1
      /\ \A j \in 1 .. i - 1 : front[j] = q[j]
  BY <1>1, SubSeqProperties
<1>3. /\ back \in Seq(S) /\ Len(back) = Len(q) - i
      /\ \A j \in 1 .. Len(q) - i : back[j] = q[i + j]
  BY <1>1, SubSeqProperties
<1> HIDE DEF front, back
<1>4. /\ front \o back \in Seq(S) /\ Len(front \o back) = Len(front) + Len(back)
      /\ \A j \in 1 .. Len(front) + Len(back) :
           (front \o back)[j] = IF j =< Len(front) THEN front[j] ELSE back[j - Len(front)]
  BY <1>2, <1>3, ConcatProperties
<1>5. ASSUME NEW j \in 1 .. Len(q) - 1
      PROVE  (front \o back)[j] = IF j < i THEN q[j] ELSE q[j + 1]
  <2>1. CASE j < i
    <3>1. j \in 1 .. i - 1 /\ j \in 1 .. Len(front) + Len(back)
      BY <1>1, <1>2, <1>3, <2>1
    <3> QED
      BY <1>2, <1>4, <2>1, <3>1
  <2>2. CASE ~(j < i)
    <3>1. /\ j - (i - 1) \in 1 .. Len(q) - i /\ j \in 1 .. Len(front) + Len(back)
          /\ i + (j - (i - 1)) = j + 1
      BY <1>1, <1>2, <1>3, <2>2
    <3>2. (front \o back)[j] = back[j - (i - 1)]
      BY <1>2, <1>4, <2>2, <3>1
    <3> QED
      BY <1>3, <2>2, <3>1, <3>2
  <2> QED
    BY <2>1, <2>2
<1>6. Len(front) + Len(back) = Len(q) - 1
  BY <1>1, <1>2, <1>3
<1> QED
  BY <1>4, <1>5, <1>6 DEF RemoveAt, front, back

\* Nothing else is left.
LEMMA RemoveAtKeeps ==
  ASSUME NEW S, NEW q \in Seq(S), NEW i \in 1 .. Len(q), NEW j \in 1 .. Len(RemoveAt(q, i))
  PROVE  \E k \in 1 .. Len(q) : RemoveAt(q, i)[j] = q[k]
<1>1. Len(q) \in Nat /\ j \in 1 .. Len(q) - 1
  BY LenProperties, RemoveAtProperties
<1>2. j \in 1 .. Len(q) /\ j + 1 \in 1 .. Len(q)
  BY <1>1
<1>3. RemoveAt(q, i)[j] = q[j] \/ RemoveAt(q, i)[j] = q[j + 1]
  BY <1>1, RemoveAtProperties
<1> QED
  BY <1>2, <1>3

\* What is sent is added at the end, and nothing else.
LEMMA AppendKeeps ==
  ASSUME NEW S, NEW q \in Seq(S), NEW e \in S
  PROVE  /\ Append(q, e) \in Seq(S) /\ Len(Append(q, e)) = Len(q) + 1
         /\ \A j \in 1 .. Len(q) + 1 :
              \/ j \in 1 .. Len(q) /\ Append(q, e)[j] = q[j]
              \/ j = Len(q) + 1 /\ Append(q, e)[j] = e
<1>1. Len(q) \in Nat
  BY LenProperties
<1> QED
  BY <1>1, AppendProperties

(***************************************************************************)
(* Types.                                                                  *)
(***************************************************************************)

Conns  == [port : Sessions \cup {WellKnown}, changed : BOOLEAN, prev : Nat, len : Lens,
           ack : Nat, then : {"clearRecv", "finish"}]
Images == [head : Data, sum : [Parts -> Nat], flash : Seq(Data)]
Srvs   == [Sessions -> [file : Files \cup {NoFile}, last : Nat, tries : Nat, long : BOOLEAN]]

LEMMA SizeType ==
  ASSUME NEW f \in Files
  PROVE  Size[f] \in Nat \ {0}
  BY TftpConstants, ElementOfSeq DEF Files

LEMMA SharedInit == Init => SharedOK
<1>1. Len(Size) \in Nat
  BY TftpConstants, LenProperties
<1>2. 0 \in 0 .. Len(Size) /\ "server" \in Hosts
  BY <1>1, TftpConstants
<1> SUFFICES ASSUME Init PROVE SharedOK
  OBVIOUS
<1>3. status = "empty" /\ serverIp = "server" /\ filename = NoFile
  BY DEF Init
<1>4. fileLen = 0 /\ startSem = 0 /\ recvSem = 0 /\ clicks = 0
  BY DEF Init
<1>5. overlapped = FALSE /\ missed = FALSE /\ replaced = FALSE
  BY DEF Init
<1> QED
  BY <1>2, <1>3, <1>4, <1>5 DEF SharedOK

LEMMA SharedStep == SharedOK /\ [Next]_vars => SharedOK'
<1> SUFFICES ASSUME SharedOK, [Next]_vars PROVE SharedOK'
  OBVIOUS
<1> USE TftpConstants DEF SharedOK, webVars, devVars, ExamineUnchanged, Files, NoFile
<1>1. CASE UpdateCgi
  BY <1>1 DEF UpdateCgi
<1>2. CASE ClearStart \/ PendStart \/ UpdateInit \/ Delay
  BY <1>2 DEF ClearStart, PendStart, UpdateInit, Delay
<1>3. CASE BuildRequest \/ MeasureRequest \/ SendRequest
  BY <1>3 DEF BuildRequest, MeasureRequest, SendRequest
<1>4. CASE ClearRecv \/ PendRecv \/ RecvTimeout
  BY <1>4 DEF ClearRecv, PendRecv, RecvTimeout
<1>5. CASE TakeLen \/ PortKnown \/ PortNew \/ LatchPort \/ UnknownTid
  BY <1>5 DEF TakeLen, PortKnown, PortNew, LatchPort, UnknownTid
<1>6. CASE BadPacket \/ OptionAck \/ DataPacket \/ BlockError \/ OldBlock \/ NewBlock
  BY <1>6 DEF BadPacket, OptionAck, DataPacket, BlockError, OldBlock, NewBlock
<1>7. CASE Count \/ TooLarge \/ Sum \/ Write
  BY <1>7 DEF Count, TooLarge, Sum, Write
<1>8. CASE AckOp \/ AckBlock \/ SendAck \/ BuildError \/ SendError
  BY <1>8 DEF AckOp, AckBlock, SendAck, BuildError, SendError
<1>9. CASE Finish \/ FinishRefused
  BY <1>9 DEF Finish, FinishRefused
<1>10. CASE ForgetName \/ ReportFailure \/ Reset
  BY <1>10 DEF ForgetName, ReportFailure, Reset
<1>11. ASSUME NEW h \in Hosts, HttpAccept(h) PROVE SharedOK'
  BY <1>11 DEF HttpAccept
<1>12. ASSUME NEW i \in 1 .. Len(net), Receive(i) \/ LosePacket(i) PROVE SharedOK'
  BY <1>12 DEF Receive, LosePacket
<1>13. ASSUME NEW s \in Sessions, Transmit(s) \/ Refuse(s) PROVE SharedOK'
  BY <1>13 DEF Transmit, Refuse
<1>14. CASE UNCHANGED vars
  BY <1>14 DEF vars
<1> QED
  BY <1>1, <1>2, <1>3, <1>4, <1>5, <1>6, <1>7, <1>8, <1>9, <1>10, <1>11, <1>12, <1>13, <1>14
     DEF Next, Task, Examine, Network

\* The sessions send blocks of their files only.
SrvInv == \A s \in Sessions : Open(s) => srv[s].last =< Size[srv[s].file]

TypeInv == TypeOK /\ SrvInv

LEMMA TaskStep == TypeInv /\ [Next]_vars => TaskOK'
<1> SUFFICES ASSUME TypeInv, [Next]_vars PROVE TaskOK'
  OBVIOUS
<1>0. /\ SharedOK /\ TaskOK /\ conn \in Conns /\ image \in Images /\ update \in [file : Files \cup {NoFile}, size : Nat]
      /\ frame.op \in {"none", "RRQ", "DATA", "ACK", "OACK", "ERROR"}
      /\ frame.blk \in Nat /\ frame.data \in Data /\ frame.len \in Lens
      /\ frame.port \in Sessions \cup {WellKnown}
  BY DEF TypeInv, TypeOK, TaskOK, NetOK, Packet, Conns, Images
\* it is enough to show where the task goes and what it has then
<1>a. ASSUME Transferring' \/ pc' \in {"clearStart", "pendStart", "init", "delay", "request", "fail",
                                       "failed", "reset", "off"},
             conn' \in Conns, image' \in Images, UNCHANGED <<update, asked, torn>>
      PROVE  TaskOK'
  BY <1>0, <1>a DEF TaskOK, Conns, Images
<1> USE DEF webVars, taskVars, devVars, ExamineUnchanged, Step, Transferring, Pending
<1>1. CASE UpdateCgi
  BY <1>0, <1>1 DEF UpdateCgi, TaskOK
<1>2. CASE ClearStart \/ PendStart \/ Delay
  BY <1>0, <1>a, <1>2 DEF ClearStart, PendStart, Delay
<1>3. CASE UpdateInit
  <2>1. NoSum \in [Parts -> Nat] /\ <<>> \in Seq(Data)
    BY DEF NoSum
  <2>2. image' \in Images /\ conn' \in Conns
    BY <1>0, <1>3, <2>1 DEF UpdateInit, Images, Conns
  <2> QED
    BY <1>a, <1>3, <2>2 DEF UpdateInit
<1>4. CASE BuildRequest
  <2>1. /\ asked' \in Files \cup {NoFile} /\ torn' = FALSE /\ pc' = "measure"
        /\ UNCHANGED <<conn, image, update>>
    BY <1>0, <1>4 DEF BuildRequest, SharedOK
  <2> QED
    BY <1>0, <2>1 DEF TaskOK
<1>5. CASE MeasureRequest \/ SendRequest \/ ClearRecv \/ PendRecv \/ RecvTimeout
  BY <1>0, <1>a, <1>5 DEF MeasureRequest, SendRequest, ClearRecv, PendRecv, RecvTimeout
<1>6. CASE TakeLen \/ LatchPort \/ OptionAck \/ OldBlock
  <2>1. TakeLen => conn' \in Conns
    BY <1>0 DEF TakeLen, Conns
  <2>2. LatchPort => conn' \in Conns
    BY <1>0 DEF LatchPort, Conns
  <2>3. ASSUME NEW n \in Nat
        PROVE  [conn EXCEPT !.ack = n, !.then = "clearRecv"] \in Conns
    BY <1>0 DEF Conns
  <2>4. OptionAck \/ OldBlock => conn' \in Conns
    BY <1>0, <2>3 DEF OptionAck, OldBlock
  <2> QED
    BY <1>0, <1>a, <1>6, <2>1, <2>2, <2>4 DEF TakeLen, LatchPort, OptionAck, OldBlock
<1>7. CASE PortKnown \/ PortNew \/ UnknownTid \/ DataPacket \/ BlockError
  BY <1>0, <1>a, <1>7 DEF PortKnown, PortNew, UnknownTid, DataPacket, BlockError
<1>8. CASE BadPacket
  BY <1>0, <1>a, <1>8 DEF BadPacket
<1>9. CASE NewBlock
  <2> DEFINE next == IF conn.len = "full" THEN "clearRecv" ELSE "finish"
  <2>1. next \in {"clearRecv", "finish"}
    OBVIOUS
  <2>2. conn' = [conn EXCEPT !.prev = frame.blk, !.ack = frame.blk, !.then = next]
    BY <1>9 DEF NewBlock
  <2> HIDE DEF next
  <2>3. conn' \in Conns
    BY <1>0, <2>1, <2>2 DEF Conns
  <2> QED
    BY <1>0, <1>a, <1>9, <2>3 DEF NewBlock
<1>10. CASE Count \/ TooLarge
  BY <1>0, <1>a, <1>10 DEF Count, TooLarge
<1>11. CASE Sum
  <2>1. ASSUME NEW x PROVE [image.sum EXCEPT ![x] = @ + 1] \in [Parts -> Nat]
    <3>1. image.sum \in [Parts -> Nat]
      BY <1>0 DEF Images
    <3>2. CASE x \in Parts
      BY <3>1, <3>2
    <3>3. CASE x \notin Parts
      BY <3>1, <3>3
    <3> QED
      BY <3>2, <3>3
  <2>2. ASSUME NEW h \in Data, NEW m \in [Parts -> Nat]
        PROVE  [image EXCEPT !.head = h, !.sum = m] \in Images
    BY <1>0 DEF Images
  <2>3. PICK h \in Data : image' = [image EXCEPT !.head = h,
                                   !.sum = [image.sum EXCEPT ![<<frame.data, conn.len>>] = @ + 1]]
    BY <1>0, <1>11 DEF Sum, Images
  <2>4. image' \in Images
    BY <2>1, <2>2, <2>3
  <2> QED
    BY <1>0, <1>a, <1>11, <2>4 DEF Sum
<1>12. CASE Write
  <2>1. Append(image.flash, frame.data) \in Seq(Data) /\ Append(image.flash, NoPiece) \in Seq(Data)
    BY <1>0, AppendProperties DEF Images, Data
  <2>2. image' \in Images /\ torn' \in BOOLEAN
    BY <1>0, <1>12, <2>1 DEF Write, Images, TaskOK
  <2> QED
    BY <1>0, <1>12, <2>2 DEF Write, TaskOK, Conns, Images
<1>13. CASE AckOp \/ AckBlock \/ SendAck \/ BuildError \/ SendError
  BY <1>0, <1>a, <1>13 DEF AckOp, AckBlock, SendAck, BuildError, SendError, Conns
<1>14. CASE Finish
  <2>1. image.head[1] \in Files \cup {NoFile}
    BY <1>0 DEF Images, Data, Pieces, NoPiece, NoFile
  <2>2. /\ update' \in [file : Files \cup {NoFile}, size : Nat] /\ pc' = "reset"
        /\ UNCHANGED <<conn, image, asked, torn>>
    BY <1>0, <1>14, <2>1 DEF Finish, SharedOK
  <2> QED
    BY <1>0, <2>2 DEF TaskOK
<1>15. CASE FinishRefused \/ ForgetName \/ ReportFailure \/ Reset
  BY <1>0, <1>a, <1>15 DEF FinishRefused, ForgetName, ReportFailure, Reset
<1>16. ASSUME NEW h \in Hosts, HttpAccept(h) PROVE TaskOK'
  BY <1>0, <1>16 DEF HttpAccept, TaskOK
<1>17. ASSUME NEW i \in 1 .. Len(net), Receive(i) \/ LosePacket(i) PROVE TaskOK'
  BY <1>0, <1>17 DEF Receive, LosePacket, TaskOK
<1>18. ASSUME NEW s \in Sessions, Transmit(s) \/ Refuse(s) PROVE TaskOK'
  BY <1>0, <1>18 DEF Transmit, Refuse, TaskOK
<1>19. CASE UNCHANGED vars
  BY <1>0, <1>19 DEF vars, TaskOK
<1> QED
  BY <1>1, <1>2, <1>3, <1>4, <1>5, <1>6, <1>7, <1>8, <1>9, <1>10, <1>11, <1>12, <1>13,
     <1>14, <1>15, <1>16, <1>17, <1>18, <1>19 DEF Next, Task, Examine, Network

LEMMA ExpectedType ==
  ASSUME TypeInv, NEW s \in Sessions, Open(s)
  PROVE  Expected(s) \in Packet
<1> DEFINE p == <<srv[s].file, srv[s].last>>
<1>1. srv[s].file \in Files /\ srv[s].last \in 0 .. Size[srv[s].file]
  BY DEF TypeInv, TypeOK, NetOK, SrvInv, Open
<1>2. CASE srv[s].last = 0
  <2>1. Expected(s) = [op |-> "OACK", blk |-> 0, data |-> NoPiece, len |-> "short", port |-> s]
    BY <1>2 DEF Expected
  <2> QED
    BY <2>1 DEF Packet, Data, Lens
<1>3. CASE srv[s].last # 0
  <2> DEFINE d == IF srv[s].long /\ srv[s].last > 1 THEN NoPiece ELSE p
             l == IF srv[s].long THEN "long" ELSE LenOf(p)
  <2>1. srv[s].last \in 1 .. Size[srv[s].file]
    BY <1>1, <1>3, SizeType
  <2>2. d \in Data
    BY <1>1, <2>1 DEF Pieces, Data
  <2>3. l \in Lens
    BY TftpConstants DEF Lens, LenOf
  <2>4. Expected(s) = [op |-> "DATA", blk |-> srv[s].last, data |-> d, len |-> l, port |-> s]
    BY <1>3 DEF Expected
  <2> HIDE DEF d, l
  <2> QED
    BY <2>1, <2>2, <2>3, <2>4 DEF Packet
<1> QED
  BY <1>2, <1>3

\* the answer of a server that has no such file
Refusal(s, code) == [op |-> "ERROR", blk |-> code, data |-> NoPiece, len |-> "short", port |-> s]

LEMMA RefusalType ==
  ASSUME NEW s \in Sessions, NEW code \in ErrorCodes
  PROVE  Refusal(s, code) \in Packet
  BY DEF Refusal, Packet, ErrorCodes, Data, Lens

\* A session that gets something moves on by one block, ends or goes on as it
\* was, and only an acknowledgement of its last packet moves it on.
LEMMA AnsweredCases ==
  ASSUME srv \in Srvs, NEW s \in Sessions
  PROVE  \/ Answered(s) = srv[s]
         \/ Answered(s) = [srv[s] EXCEPT !.file = NoFile]
         \/ /\ frame.op = "ACK" /\ frame.blk = srv[s].last /\ srv[s].last < Size[srv[s].file]
            /\ Answered(s) = [srv[s] EXCEPT !.last = srv[s].last + 1, !.tries = 0]
<1>1. CASE frame.op = "ACK" /\ frame.blk = srv[s].last /\ srv[s].last < Size[srv[s].file]
  <2>1. srv[s].last # Size[srv[s].file] \/ srv[s].last = Size[srv[s].file]
    OBVIOUS
  <2> QED
    BY <1>1 DEF Answered
<1>2. CASE ~(frame.op = "ACK" /\ frame.blk = srv[s].last /\ srv[s].last < Size[srv[s].file])
  BY <1>2 DEF Answered
<1> QED
  BY <1>1, <1>2

LEMMA NetStep == TypeInv /\ [Next]_vars => NetOK' /\ SrvInv'
<1> SUFFICES ASSUME TypeInv, [Next]_vars PROVE NetOK' /\ SrvInv'
  OBVIOUS
<1>0. /\ NetOK /\ SrvInv /\ frame \in Packet /\ net \in Seq(Packet) /\ srv \in Srvs
      /\ conn.ack \in Nat /\ asked \in Files \cup {NoFile}
  BY DEF TypeInv, TypeOK, TaskOK, NetOK, Srvs
<1>a. ASSUME frame' \in Packet, net' \in Seq(Packet), UNCHANGED srv
      PROVE  NetOK' /\ SrvInv'
  BY <1>0, <1>a DEF NetOK, SrvInv, Open
<1>b. ASSUME UNCHANGED <<frame, net>>, Send
      PROVE  NetOK' /\ SrvInv'
  <2>1. ASSUME NEW s \in Sessions, Open(s), srv' = [srv EXCEPT ![s] = Answered(s)]
        PROVE  srv' \in Srvs /\ SrvInv'
    <3>1. srv[s].file \in Files /\ srv[s].last =< Size[srv[s].file] /\ srv[s].last \in Nat
      BY <1>0, <2>1 DEF SrvInv, Open, Srvs
    <3>2. /\ Answered(s) \in [file : Files \cup {NoFile}, last : Nat, tries : Nat, long : BOOLEAN]
          /\ Answered(s).file # NoFile => Answered(s).last =< Size[Answered(s).file]
      <4>1. CASE Answered(s) = srv[s] \/ Answered(s) = [srv[s] EXCEPT !.file = NoFile]
        BY <1>0, <3>1, <4>1 DEF Srvs
      <4>2. CASE /\ srv[s].last < Size[srv[s].file]
                 /\ Answered(s) = [srv[s] EXCEPT !.last = srv[s].last + 1, !.tries = 0]
        <5>1. srv[s].last + 1 \in Nat /\ srv[s].last + 1 =< Size[srv[s].file]
          BY <3>1, <4>2, SizeType
        <5>2. srv[s] \in [file : Files \cup {NoFile}, last : Nat, tries : Nat, long : BOOLEAN]
          BY <1>0 DEF Srvs
        <5>3. Answered(s) = [file |-> srv[s].file, last |-> srv[s].last + 1, tries |-> 0,
                             long |-> srv[s].long]
          BY <4>2, <5>2
        <5>4. srv[s].file \in Files \cup {NoFile} /\ srv[s].long \in BOOLEAN
          BY <5>2
        <5>5. Answered(s) \in [file : Files \cup {NoFile}, last : Nat, tries : Nat, long : BOOLEAN]
          BY <5>1, <5>3, <5>4
        <5>6. Answered(s).file = srv[s].file /\ Answered(s).last = srv[s].last + 1
          BY <5>3
        <5>7. Answered(s).last =< Size[Answered(s).file]
          BY <5>1, <5>6
        <5> QED
          BY <5>5, <5>7
      <4> QED
        BY <1>0, <4>1, <4>2, AnsweredCases, Zenon
    <3> QED
      BY <1>0, <2>1, <3>2 DEF Srvs, SrvInv, Open
  <2>2. CASE UNCHANGED srv
    BY <1>0, <1>a, <1>b, <2>2
  <2> QED
    BY <1>0, <1>b, <2>1, <2>2 DEF Send, NetOK, Srvs
<1> USE DEF webVars, taskVars, devVars, ExamineUnchanged
<1>1. CASE UpdateCgi \/ (\E h \in Hosts : HttpAccept(h)) \/ UNCHANGED vars
  BY <1>0, <1>a, <1>1 DEF UpdateCgi, HttpAccept, vars
<1>2. CASE ClearStart \/ PendStart \/ UpdateInit \/ Delay \/ ClearRecv \/ PendRecv \/ RecvTimeout
  BY <1>0, <1>a, <1>2 DEF ClearStart, PendStart, UpdateInit, Delay, ClearRecv, PendRecv, RecvTimeout
<1>3. CASE BuildRequest \/ MeasureRequest
  <2>1. frame' \in Packet /\ UNCHANGED <<net, srv>>
    BY <1>0, <1>3 DEF BuildRequest, MeasureRequest, Packet, Data
  <2> QED
    BY <1>0, <1>a, <2>1
<1>4. CASE SendRequest
  <2>1. ASSUME asked # NoFile, NEW first \in {0, 1}, NEW long \in BOOLEAN,
               srv' = [srv EXCEPT ![asked] =
                         [file |-> asked, last |-> first, tries |-> 0, long |-> long]]
        PROVE  srv' \in Srvs /\ SrvInv'
    <3>1. asked \in Sessions /\ asked \in Files /\ first =< Size[asked]
      BY <1>0, <2>1, SizeType DEF Sessions
    <3> QED
      BY <1>0, <2>1, <3>1 DEF Srvs, SrvInv, Open
  <2>2. CASE UNCHANGED srv
    BY <1>0, <1>a, <1>4, <2>2 DEF SendRequest
  <2> QED
    BY <1>0, <1>4, <2>1, <2>2 DEF SendRequest, NetOK, Srvs
<1>5. CASE Examine
  BY <1>0, <1>a, <1>5 DEF Examine, TakeLen, PortKnown, PortNew, LatchPort, UnknownTid, BadPacket,
                          OptionAck, DataPacket, BlockError, OldBlock, NewBlock
<1>6. CASE Count \/ TooLarge \/ Sum \/ Write
  BY <1>0, <1>a, <1>6 DEF Count, TooLarge, Sum, Write
<1>7. CASE AckOp \/ AckBlock \/ BuildError
  <2>1. frame' \in Packet /\ UNCHANGED <<net, srv>>
    BY <1>0, <1>7 DEF AckOp, AckBlock, BuildError, Packet, Data
  <2> QED
    BY <1>a, <2>1, <1>0
<1>8. CASE SendAck \/ SendError
  BY <1>b, <1>8 DEF SendAck, SendError
<1>9. CASE Finish \/ FinishRefused \/ ForgetName \/ ReportFailure \/ Reset
  BY <1>0, <1>a, <1>9 DEF Finish, FinishRefused, ForgetName, ReportFailure, Reset
<1>10. ASSUME NEW i \in 1 .. Len(net), Receive(i) \/ LosePacket(i) PROVE NetOK' /\ SrvInv'
  <2>1. net[i] \in Packet /\ RemoveAt(net, i) \in Seq(Packet)
    BY <1>0, ElementOfSeq, RemoveAtProperties
  <2> QED
    BY <1>0, <1>a, <1>10, <2>1 DEF Receive, LosePacket
<1>11. ASSUME NEW s \in Sessions, Transmit(s) PROVE NetOK' /\ SrvInv'
  <2>1. Append(net, Expected(s)) \in Seq(Packet)
    BY <1>0, <1>11, ExpectedType, AppendProperties DEF Transmit, Sending
  <2>2. srv' \in Srvs /\ \A t \in Sessions : srv'[t].file = srv[t].file /\ srv'[t].last = srv[t].last
    <3>1. srv' = [srv EXCEPT ![s].tries = srv[s].tries + 1]
      BY <1>11 DEF Transmit
    <3>2. srv[s].tries + 1 \in Nat
      BY <1>0 DEF Srvs
    <3> QED
      BY <1>0, <3>1, <3>2 DEF Srvs
  <2> QED
    BY <1>0, <1>11, <2>1, <2>2 DEF Transmit, NetOK, SrvInv, Open, Srvs
<1>12. ASSUME NEW s \in Sessions, Refuse(s) PROVE NetOK' /\ SrvInv'
  <2>1. PICK code \in ErrorCodes : net' = Append(net, Refusal(s, code))
    BY <1>12 DEF Refuse, Refusal
  <2>2. net' \in Seq(Packet)
    BY <1>0, <2>1, RefusalType, AppendProperties
  <2>3. srv' \in Srvs /\ \A t \in Sessions : srv'[t].file # NoFile => srv'[t] = srv[t]
    BY <1>0, <1>12 DEF Refuse, Srvs, NoFile
  <2> QED
    BY <1>0, <1>12, <2>2, <2>3 DEF Refuse, NetOK, SrvInv, Open, Srvs
<1> QED
  BY <1>1, <1>2, <1>3, <1>4, <1>5, <1>6, <1>7, <1>8, <1>9, <1>10, <1>11, <1>12
     DEF Next, Task, Network

LEMMA TypeInit == Init => TypeInv
<1> SUFFICES ASSUME Init PROVE TypeInv
  OBVIOUS
<1>1. SharedOK
  BY SharedInit
<1>2. TaskOK
  <2>1. image = NoImage /\ NoImage \in [head : Data, sum : [Parts -> Nat], flash : Seq(Data)]
    BY DEF Init, NoImage, NoSum, Data
  <2>2. conn \in Conns
    BY DEF Init, Conns, WellKnown, Lens
  <2> QED
    BY <2>1, <2>2 DEF Init, TaskOK, NoUpdate, NoFile, Conns
<1>3. NetOK /\ SrvInv
  <2>1. frame \in Packet
    BY DEF Init, NoPacket, Packet, Data, Lens
  <2>2. net \in Seq(Packet)
    BY DEF Init
  <2>3. srv = [s \in Sessions |-> [file |-> NoFile, last |-> 0, tries |-> 0, long |-> FALSE]]
    BY DEF Init
  <2> QED
    BY <2>1, <2>2, <2>3 DEF NetOK, SrvInv, Open
<1> QED
  BY <1>1, <1>2, <1>3 DEF TypeInv, TypeOK

LEMMA TypeStep == TypeInv /\ [Next]_vars => TypeInv'
  BY SharedStep, TaskStep, NetStep DEF TypeInv, TypeOK

\* Every variable stays within its type in every reachable state: what is
\* summed and written is a block of a file or the mark of no block.
THEOREM TypeCorrect == Spec => []TypeOK
<1>1. TypeInv => TypeOK
  BY DEF TypeInv
<1> QED
  BY <1>1, TypeInit, TypeStep, PTL DEF Spec

-----------------------------------------------------------------------------
(***************************************************************************)
(* The start of an update.  start_sem is cleared before it is waited for,  *)
(* so the task is let through only by a click that came while it waited,   *)
(* and nothing erases the name of that click before the request.           *)
(***************************************************************************)
StartInv ==
  /\ pc \in {"init", "delay", "request"} \/ (pc = "pendStart" /\ startSem > 0)
       => filename # NoFile
  /\ pc = "clearStart" \/ (pc = "pendStart" /\ startSem = 0) => status # "doing" \/ missed

StartIInv == TypeInv /\ StartInv

LEMMA StartInit == Init => StartIInv
  BY TypeInit DEF Init, StartIInv, StartInv

LEMMA StartStep == StartIInv /\ [Next]_vars => StartIInv'
<1> SUFFICES ASSUME StartIInv, [Next]_vars PROVE StartInv'
  BY TypeStep DEF StartIInv
<1>0. /\ StartInv /\ startSem \in {0, 1} /\ clicks \in Nat
      /\ conn.then \in {"clearRecv", "finish"}
  BY DEF StartIInv, TypeInv, TypeOK, SharedOK, TaskOK
\* a step of the task in which no update starts or ends
<1>a. ASSUME pc' \notin {"clearStart", "pendStart", "init", "delay", "request"}
      PROVE  StartInv'
  BY <1>a DEF StartInv
<1>b. ASSUME UNCHANGED <<pc, startSem, filename, status, missed>>
      PROVE  StartInv'
  BY <1>0, <1>b DEF StartInv
<1> USE DEF Step, webVars, taskVars, devVars, ExamineUnchanged
<1>1. CASE UpdateCgi
  <2>1. filename' # NoFile /\ status' = "doing" /\ startSem' = 1 /\ pc' = pc
        /\ missed' = (pc = "clearStart")
    BY <1>0, <1>1 DEF UpdateCgi, NoFile
  <2>2. CASE pc = "clearStart"
    BY <2>1, <2>2 DEF StartInv
  <2>3. CASE pc # "clearStart"
    BY <2>1, <2>3 DEF StartInv
  <2> QED
    BY <2>2, <2>3
<1>2. CASE ClearStart \/ PendStart \/ UpdateInit \/ Delay
  BY <1>0, <1>2 DEF ClearStart, PendStart, UpdateInit, Delay, StartInv
<1>3. CASE BuildRequest \/ MeasureRequest \/ SendRequest \/ ClearRecv \/ PendRecv \/ RecvTimeout
  BY <1>a, <1>3 DEF BuildRequest, MeasureRequest, SendRequest, ClearRecv, PendRecv, RecvTimeout
<1>4. CASE Examine
  BY <1>a, <1>4 DEF Examine, TakeLen, PortKnown, PortNew, LatchPort, UnknownTid, BadPacket,
                    OptionAck, DataPacket, BlockError, OldBlock, NewBlock
<1>5. CASE Count \/ TooLarge \/ Sum \/ Write
  BY <1>a, <1>5 DEF Count, TooLarge, Sum, Write
<1>6. CASE AckOp \/ AckBlock \/ SendAck \/ BuildError \/ SendError
  BY <1>0, <1>a, <1>6 DEF AckOp, AckBlock, SendAck, BuildError, SendError
<1>7. CASE Finish \/ FinishRefused \/ ForgetName \/ Reset
  BY <1>a, <1>7 DEF Finish, FinishRefused, ForgetName, Reset
<1>8. CASE ReportFailure
  BY <1>8 DEF ReportFailure, StartInv
<1>9. CASE (\E h \in Hosts : HttpAccept(h)) \/ Network \/ UNCHANGED vars
  BY <1>b, <1>9 DEF HttpAccept, Network, Receive, LosePacket, Transmit, Refuse, vars
<1> QED
  BY <1>1, <1>2, <1>3, <1>4, <1>5, <1>6, <1>7, <1>8, <1>9 DEF Next, Task

\* A click that came during a transfer, whose name the failure erased, starts
\* no request without a name (526-533).
THEOREM RequestsNameFiles == Spec => []RequestNamesFile
<1>1. StartIInv => RequestNamesFile
  BY DEF StartIInv, StartInv, RequestNamesFile
<1> QED
  BY <1>1, StartInit, StartStep, PTL DEF Spec

\* A click is lost with "doing" on the page only between the report of a
\* failure and the clearing of start_sem (526-535).
THEOREM StartsAreNotLost == Spec => []NoLostStart
<1>1. StartIInv => NoLostStart
  BY DEF StartIInv, StartInv, NoLostStart
<1> QED
  BY <1>1, StartInit, StartStep, PTL DEF Spec

-----------------------------------------------------------------------------
(***************************************************************************)
(* The accounting.  file_len counts the blocks of the transfer until a     *)
(* click resets it; what is in the flash is at most what was handled, and  *)
(* as much when every page was written whole.                              *)
(***************************************************************************)
\* the blocks that file_len has counted, if no click reset it
Counted == IF pc = "count" THEN conn.prev - 1 ELSE conn.prev

SizeInv ==
  /\ pc \in {"delay", "request"} => fileLen = 0 /\ image.flash = <<>> /\ conn.prev = 0
  /\ Pending => /\ conn.prev > 0 /\ conn.len \in {"short", "full"}
                /\ conn.then = "finish" => conn.len = "short"
  /\ Transferring => fileLen =< Counted /\ (~overlapped => fileLen = Counted)
  /\ Counts => Len(image.flash) =< Handled /\ (~torn => Len(image.flash) = Handled)
  /\ update # NoUpdate =>
       pc \in {"reset", "off"} /\ update.size =< Handled /\ (~overlapped => update.size = Handled)

SizeIInv == TypeInv /\ SizeInv

LEMMA SizeInit == Init => SizeIInv
<1> SUFFICES ASSUME Init PROVE SizeInv
  BY TypeInit DEF SizeIInv
<1>1. pc = "clearStart" /\ update = NoUpdate
  BY DEF Init
<1> QED
  BY <1>1 DEF SizeInv, Pending, Transferring, Counts

\* The counts of a state, whose types all the steps need.
LEMMA SizeTypes ==
  ASSUME SizeIInv
  PROVE  /\ conn \in Conns /\ image \in Images /\ fileLen \in Nat /\ frame \in Packet
         /\ Len(image.flash) \in Nat /\ overlapped \in BOOLEAN /\ torn \in BOOLEAN
         /\ (Counts => Handled \in Nat) /\ (Transferring => Counted \in Nat /\ Counts)
         /\ conn.prev \in Nat /\ conn.then \in {"clearRecv", "finish"}
<1>1. /\ conn \in Conns /\ image \in Images /\ fileLen \in Nat /\ frame \in Packet
      /\ overlapped \in BOOLEAN /\ torn \in BOOLEAN
  BY DEF SizeIInv, TypeInv, TypeOK, SharedOK, TaskOK, NetOK, Conns, Images
<1>2. /\ Len(image.flash) \in Nat /\ conn.prev \in Nat
      /\ conn.then \in {"clearRecv", "finish"}
  BY <1>1, LenProperties DEF Images, Conns
<1>3. Pending => conn.prev - 1 \in Nat
  BY <1>2 DEF SizeIInv, SizeInv
<1>4. Counts => Handled \in Nat
  BY <1>2, <1>3 DEF Handled
<1>5. Transferring => Counted \in Nat /\ Counts
  BY <1>2, <1>3 DEF Counted, Counts, Pending
<1> QED
  BY <1>1, <1>2, <1>4, <1>5

LEMMA SizeStep == SizeIInv /\ [Next]_vars => SizeIInv'
<1> SUFFICES ASSUME SizeIInv, [Next]_vars PROVE SizeInv'
  BY TypeStep DEF SizeIInv
<1>0. /\ SizeInv /\ conn \in Conns /\ image \in Images /\ fileLen \in Nat /\ frame \in Packet
      /\ Len(image.flash) \in Nat /\ overlapped \in BOOLEAN /\ torn \in BOOLEAN
      /\ (Counts => Handled \in Nat) /\ (Transferring => Counted \in Nat /\ Counts)
      /\ conn.prev \in Nat /\ conn.then \in {"clearRecv", "finish"} /\ frame.blk \in Nat
  BY SizeTypes DEF SizeIInv, Packet
<1> USE DEF Step, webVars, taskVars, devVars, ExamineUnchanged
<1> DEFINE Plain == {"measure", "sendRequest", "clearRecv", "pendRecv", "takeLen", "checkPort",
                     "latchPort", "readOp", "readBlock", "ackOp", "ackBlock", "sendAck",
                     "finish", "buildError", "sendError"}
           Others == {"clearStart", "pendStart", "init", "fail", "failed"}
\* a step of the network or of a browser that is not a click
<1>a. ASSUME UNCHANGED <<pc, fileLen, image, conn, overlapped, torn, update>>
      PROVE  SizeInv'
  BY <1>0, <1>a DEF SizeInv, Pending, Transferring, Counts, Handled, Counted
\* a step of the task between two blocks
<1>b. ASSUME pc \in Plain, pc' \in Plain, conn'.prev = conn.prev,
             UNCHANGED <<fileLen, overlapped, torn, update>>, image'.flash = image.flash
      PROVE  SizeInv'
  BY <1>0, <1>b DEF SizeInv, Pending, Transferring, Counts, Handled, Counted
\* a transfer that fails, and the end of it
<1>c. ASSUME pc' \in Others, pc \notin {"reset", "off"}, UNCHANGED update
      PROVE  SizeInv'
  BY <1>0, <1>c DEF SizeInv, Pending, Transferring, Counts
<1>1. CASE UpdateCgi
  <2>1. /\ UNCHANGED <<pc, image, conn, torn, update>>
        /\ fileLen' = 0 \/ (pc = "count" /\ fileLen' = fileLen)
        /\ overlapped' = (overlapped \/ Transferring)
    BY <1>1 DEF UpdateCgi
  <2>2. Counts' = Counts /\ Handled' = Handled /\ Counted' = Counted
        /\ Transferring' = Transferring /\ Pending' = Pending
    BY <2>1 DEF Counts, Handled, Counted, Transferring, Pending
  <2>3. Transferring => fileLen' =< Counted
    BY <1>0, <2>1 DEF SizeInv
  <2>4. (Transferring => overlapped') /\ (overlapped => overlapped')
    BY <1>0, <2>1
  <2> QED
    BY <1>0, <2>1, <2>2, <2>3, <2>4 DEF SizeInv
<1>2. CASE ClearStart \/ PendStart
  BY <1>c, <1>2 DEF ClearStart, PendStart
<1>3. CASE UpdateInit
  <2>1. /\ pc' = "delay" /\ conn'.prev = 0 /\ image'.flash = <<>> /\ fileLen' = 0
        /\ pc = "init" /\ UNCHANGED update
    BY <1>0, <1>3 DEF UpdateInit, Conns, Images
  <2> QED
    BY <1>0, <2>1 DEF SizeInv, Pending, Transferring, Counts
<1>4. CASE Delay
  BY <1>0, <1>4 DEF Delay, SizeInv, Pending, Transferring, Counts
<1>5. CASE BuildRequest
  <2>1. /\ pc = "request" /\ pc' = "measure" /\ UNCHANGED <<conn, image, fileLen, update, overlapped>>
    BY <1>5 DEF BuildRequest
  <2>2. Len(<<>>) = 0
    BY EmptySeq
  <2>3. fileLen = 0 /\ Len(image.flash) = 0 /\ conn.prev = 0 /\ update = NoUpdate
    BY <1>0, <2>1, <2>2 DEF SizeInv
  <2> QED
    BY <2>1, <2>3 DEF SizeInv, Pending, Transferring, Counts, Handled, Counted
<1>6. CASE MeasureRequest \/ SendRequest \/ ClearRecv \/ PendRecv
  BY <1>b, <1>6 DEF MeasureRequest, SendRequest, ClearRecv, PendRecv
<1>7. CASE RecvTimeout \/ TooLarge \/ SendError \/ FinishRefused \/ ForgetName \/ ReportFailure
           \/ BlockError
  BY <1>c, <1>7 DEF RecvTimeout, TooLarge, SendError, FinishRefused, ForgetName, ReportFailure,
                    BlockError
<1>8. CASE TakeLen \/ LatchPort \/ OptionAck \/ OldBlock
  <2>1. conn'.prev = conn.prev
    BY <1>0, <1>8 DEF TakeLen, LatchPort, OptionAck, OldBlock, Conns
  <2> QED
    BY <1>b, <1>8, <2>1 DEF TakeLen, LatchPort, OptionAck, OldBlock
<1>9. CASE PortKnown \/ PortNew \/ UnknownTid \/ DataPacket
  BY <1>b, <1>9 DEF PortKnown, PortNew, UnknownTid, DataPacket
<1>10. CASE BadPacket
  BY <1>b, <1>c, <1>10 DEF BadPacket
<1>11. CASE NewBlock
  <2>1. /\ pc = "readBlock" /\ UNCHANGED <<fileLen, image, overlapped, torn, update>>
        /\ pc' = IF conn.len \in {"short", "full"} THEN "count" ELSE "fail"
        /\ conn'.prev = conn.prev + 1 /\ conn'.len = conn.len
        /\ conn'.then = IF conn.len = "full" THEN "clearRecv" ELSE "finish"
    BY <1>0, <1>11 DEF NewBlock, Conns
  <2>2. CASE pc' = "count"
    <3>1. Handled' = Handled /\ Counted' = Counted /\ Handled = conn.prev
      BY <1>0, <2>1, <2>2 DEF Handled, Counted, Pending
    <3>2. Counts /\ Counts' /\ Transferring /\ Transferring' /\ update = NoUpdate
      BY <1>0, <2>1, <2>2 DEF SizeInv, Counts, Transferring, Pending
    <3> QED
      BY <1>0, <2>1, <2>2, <3>1, <3>2 DEF SizeInv
  <2> QED
    BY <1>c, <2>1, <2>2
<1>12. CASE Count
  BY <1>0, <1>12 DEF Count, SizeInv, Pending, Transferring, Counts, Handled, Counted
<1>13. CASE Sum
  <2>1. image'.flash = image.flash
    BY <1>0, <1>13 DEF Sum, Images
  <2> QED
    BY <1>0, <1>13, <2>1 DEF Sum, SizeInv, Pending, Transferring, Counts, Handled, Counted
<1>14. CASE Write
  <2>1. /\ pc = "write" /\ pc' = "ackOp" /\ UNCHANGED <<conn, fileLen, overlapped, update>>
        /\ \/ Len(image'.flash) = Len(image.flash) + 1 /\ torn' = torn
           \/ Len(image'.flash) \in {Len(image.flash), Len(image.flash) + 1} /\ torn' = TRUE
    BY <1>0, <1>14, AppendProperties DEF Write, Images, Packet, Data
  <2>2. /\ Handled = conn.prev - 1 /\ Handled' = conn.prev /\ Counted' = Counted /\ Counted = conn.prev
        /\ Counts /\ Counts' /\ Transferring /\ Transferring' /\ ~Pending'
    BY <2>1 DEF Handled, Counted, Pending, Counts, Transferring
  <2> QED
    BY <1>0, <2>1, <2>2 DEF SizeInv
<1>15. CASE AckOp \/ AckBlock \/ SendAck \/ BuildError
  BY <1>0, <1>b, <1>15 DEF AckOp, AckBlock, SendAck, BuildError
<1>16. CASE Finish
  <2>1. /\ pc = "finish" /\ pc' = "reset" /\ update'.size = fileLen
        /\ UNCHANGED <<conn, image, fileLen, overlapped, torn>>
    BY <1>16 DEF Finish
  <2>2. /\ Handled' = Handled /\ Counted = Handled /\ Counts /\ Counts' /\ Transferring
        /\ ~Transferring' /\ ~Pending'
    BY <2>1 DEF Handled, Counted, Counts, Transferring, Pending
  <2> QED
    BY <1>0, <2>1, <2>2 DEF SizeInv
<1>17. CASE Reset
  BY <1>0, <1>17 DEF Reset, SizeInv, Pending, Transferring, Counts, Handled
<1>18. CASE (\E h \in Hosts : HttpAccept(h)) \/ Network \/ UNCHANGED vars
  BY <1>a, <1>18 DEF HttpAccept, Network, Receive, LosePacket, Transmit, Refuse, vars
<1> QED
  BY <1>1, <1>2, <1>3, <1>4, <1>5, <1>6, <1>7, <1>8, <1>9, <1>10, <1>11, <1>12, <1>13, <1>14,
     <1>15, <1>16, <1>17, <1>18 DEF Next, Task, Examine

\* The count is compared before the write, so what was handled fits the area.
AreaInv ==
  (Transferring \/ update # NoUpdate) /\ ~overlapped =>
    Handled =< MaxPages /\ (pc = "write" => conn.prev =< MaxPages)

LEMMA AreaStep ==
  ASSUME SizeIInv, AreaInv, [Next]_vars
  PROVE  AreaInv'
<1>0. /\ SizeInv /\ AreaInv /\ conn \in Conns /\ fileLen \in Nat /\ MaxPages \in Nat
      /\ (Counts => Handled \in Nat) /\ (Transferring => Counts) /\ frame \in Packet
      /\ conn.prev \in Nat /\ conn.then \in {"clearRecv", "finish"} /\ overlapped \in BOOLEAN
  BY SizeTypes, TftpConstants DEF SizeIInv
<1> USE DEF Step, webVars, taskVars, devVars, ExamineUnchanged
<1> DEFINE Plain == {"measure", "sendRequest", "clearRecv", "pendRecv", "takeLen", "checkPort",
                     "latchPort", "readOp", "readBlock", "ackOp", "ackBlock", "sendAck",
                     "finish", "buildError", "sendError"}
<1>a. ASSUME UNCHANGED <<pc, conn, update>>, overlapped => overlapped'
      PROVE  AreaInv'
  BY <1>0, <1>a DEF AreaInv, Transferring, Pending, Handled
<1>b. ASSUME pc \in Plain, pc' \in Plain, conn'.prev = conn.prev, UNCHANGED <<overlapped, update>>
      PROVE  AreaInv'
  BY <1>0, <1>b DEF AreaInv, Transferring, Pending, Handled
<1>c. ASSUME ~Transferring', pc \notin {"reset", "off"}, UNCHANGED update
      PROVE  AreaInv'
  BY <1>0, <1>c DEF AreaInv, SizeInv
<1>1. CASE UpdateCgi
  BY <1>0, <1>a, <1>1 DEF UpdateCgi
<1>2. CASE ClearStart \/ PendStart \/ UpdateInit \/ Delay
  BY <1>c, <1>2 DEF ClearStart, PendStart, UpdateInit, Delay, Transferring, Pending
<1>3. CASE BuildRequest
  <2>1. pc = "request" /\ pc' = "measure" /\ UNCHANGED conn
    BY <1>3 DEF BuildRequest
  <2>2. conn'.prev = 0
    BY <1>0, <2>1 DEF SizeInv
  <2> QED
    BY <1>0, <2>1, <2>2 DEF AreaInv, Handled, Pending
<1>4. CASE MeasureRequest \/ SendRequest \/ ClearRecv \/ PendRecv
  BY <1>b, <1>4 DEF MeasureRequest, SendRequest, ClearRecv, PendRecv
<1>5. CASE RecvTimeout \/ TooLarge \/ SendError \/ FinishRefused \/ ForgetName \/ ReportFailure
           \/ BlockError
  BY <1>c, <1>5 DEF RecvTimeout, TooLarge, SendError, FinishRefused, ForgetName, ReportFailure,
                    BlockError, Transferring, Pending
<1>6. CASE TakeLen \/ LatchPort \/ OptionAck \/ OldBlock
  <2>1. conn'.prev = conn.prev
    BY <1>0, <1>6 DEF TakeLen, LatchPort, OptionAck, OldBlock, Conns
  <2> QED
    BY <1>b, <1>6, <2>1 DEF TakeLen, LatchPort, OptionAck, OldBlock
<1>7. CASE PortKnown \/ PortNew \/ UnknownTid \/ DataPacket
  BY <1>b, <1>7 DEF PortKnown, PortNew, UnknownTid, DataPacket
<1>8. CASE BadPacket
  BY <1>b, <1>c, <1>8 DEF BadPacket, Transferring, Pending
<1>9. CASE NewBlock
  <2>1. /\ pc = "readBlock" /\ UNCHANGED <<overlapped, update>>
        /\ pc' = IF conn.len \in {"short", "full"} THEN "count" ELSE "fail"
        /\ conn'.prev = conn.prev + 1
    BY <1>0, <1>9 DEF NewBlock, Conns
  <2>2. CASE pc' = "count"
    <3>1. Handled' = Handled /\ Transferring /\ Transferring'
      BY <1>0, <2>1, <2>2 DEF Handled, Pending, Transferring
    <3> QED
      BY <1>0, <2>1, <2>2, <3>1 DEF AreaInv
  <2>3. CASE pc' = "fail"
    BY <1>c, <2>1, <2>3 DEF Transferring, Pending
  <2> QED
    BY <2>1, <2>2, <2>3
<1>10. CASE Count
  BY <1>0, <1>10 DEF Count, AreaInv, Transferring, Pending, Handled
<1>11. CASE Sum
  <2>1. /\ pc = "sum" /\ pc' = "write" /\ UNCHANGED <<conn, overlapped, update>>
        /\ fileLen =< MaxPages
    BY <1>11 DEF Sum
  <2>2. ~overlapped => conn.prev =< MaxPages
    BY <1>0, <2>1 DEF SizeInv, Transferring, Pending, Counted
  <2>3. Handled' = Handled /\ Transferring /\ Transferring'
    BY <2>1 DEF Handled, Transferring, Pending
  <2> QED
    BY <1>0, <2>1, <2>2, <2>3 DEF AreaInv
<1>12. CASE Write
  <2>1. pc = "write" /\ pc' = "ackOp" /\ UNCHANGED <<conn, overlapped, update>>
    BY <1>12 DEF Write
  <2>2. Handled' = conn.prev /\ Transferring /\ Transferring'
    BY <2>1 DEF Handled, Transferring, Pending
  <2> QED
    BY <1>0, <2>1, <2>2 DEF AreaInv
<1>13. CASE AckOp \/ AckBlock \/ SendAck \/ BuildError
  BY <1>0, <1>b, <1>13 DEF AckOp, AckBlock, SendAck, BuildError
<1>14. CASE Finish
  <2>1. pc = "finish" /\ pc' = "reset" /\ UNCHANGED <<conn, overlapped>>
    BY <1>14 DEF Finish
  <2>2. Handled' = Handled /\ Transferring
    BY <2>1 DEF Handled, Transferring, Pending
  <2> QED
    BY <1>0, <2>1, <2>2 DEF AreaInv
<1>15. CASE Reset
  BY <1>0, <1>15 DEF Reset, AreaInv, Transferring, Pending, Handled
<1>16. CASE (\E h \in Hosts : HttpAccept(h)) \/ Network \/ UNCHANGED vars
  BY <1>a, <1>16 DEF HttpAccept, Network, Receive, LosePacket, Transmit, Refuse, vars
<1> QED
  BY <1>1, <1>2, <1>3, <1>4, <1>5, <1>6, <1>7, <1>8, <1>9, <1>10, <1>11, <1>12, <1>13, <1>14,
     <1>15, <1>16 DEF Next, Task, Examine

\* The pages stay in the area of the flash that is kept for updates, whatever
\* the network does and the flash stores, if no update was asked for during
\* the transfer (92-101, 120-122).
THEOREM FlashAlwaysFitsItsArea == Spec => []FlashFitsItsArea
<1>1. Init => AreaInv
  BY DEF Init, AreaInv, Transferring, Pending
<1>2. SizeIInv /\ AreaInv => FlashFitsItsArea
  <2> SUFFICES ASSUME SizeIInv, AreaInv, Transferring \/ update # NoUpdate, ~overlapped
               PROVE  Len(image.flash) =< MaxPages
    BY DEF FlashFitsItsArea
  <2>1. Counts
    BY DEF Counts, SizeIInv, SizeInv
  <2> QED
    BY <2>1, SizeTypes, TftpConstants DEF SizeIInv, SizeInv, AreaInv
<1>3. SizeIInv /\ AreaInv /\ [Next]_vars => SizeIInv' /\ AreaInv'
  BY SizeStep, AreaStep
<1> QED
  BY <1>1, <1>2, <1>3, SizeInit, PTL DEF Spec

-----------------------------------------------------------------------------
(***************************************************************************)
(* The buffer.  recv_sem is cleared before it is waited for and only the   *)
(* callback posts it, so from the wake-up on, until the page is written,   *)
(* frame_buffer holds what the callback copied there.                      *)
(***************************************************************************)
Looking  == pc \in {"takeLen", "checkPort", "latchPort", "readOp", "readBlock"}
Held     == (pc = "pendRecv" /\ recvSem > 0) \/ Looking \/ Pending
Received == {"DATA", "OACK", "ERROR"}

\* one packet as the server sends it
Came(p) ==
  /\ p.op \in Received
  /\ p.data # NoPiece => p.op = "DATA" /\ p.blk = p.data[2]

FrameInv ==
  /\ \A i \in 1 .. Len(net) : Came(net[i])
  /\ Held => Came(frame)

FrameIInv == TypeInv /\ FrameInv

LEMMA FrameInit == Init => FrameIInv
<1> SUFFICES ASSUME Init PROVE FrameInv
  BY TypeInit DEF FrameIInv
<1>1. net = <<>> /\ Len(<<>>) = 0
  BY EmptySeq DEF Init
<1>2. ~Held
  BY DEF Init, Held, Looking, Pending
<1> QED
  BY <1>1, <1>2 DEF FrameInv

LEMMA ExpectedCame ==
  ASSUME NEW s \in Sessions
  PROVE  Came(Expected(s)) /\ \A code \in ErrorCodes : Came(Refusal(s, code))
<1>1. \A code \in ErrorCodes : Came(Refusal(s, code))
  BY DEF Refusal, Came, Received
<1>2. CASE srv[s].last = 0
  <2>1. Expected(s).op = "OACK" /\ Expected(s).data = NoPiece
    BY <1>2 DEF Expected
  <2> QED
    BY <1>1, <2>1 DEF Came, Received
<1>3. CASE srv[s].last # 0
  <2> DEFINE d == IF srv[s].long /\ srv[s].last > 1 THEN NoPiece ELSE <<srv[s].file, srv[s].last>>
  <2>1. Expected(s).op = "DATA" /\ Expected(s).blk = srv[s].last /\ Expected(s).data = d
    BY <1>3 DEF Expected
  <2>2. d # NoPiece => d[2] = srv[s].last
    OBVIOUS
  <2> HIDE DEF d
  <2> QED
    BY <1>1, <2>1, <2>2 DEF Came, Received
<1> QED
  BY <1>2, <1>3

LEMMA FrameStep == FrameIInv /\ [Next]_vars => FrameIInv'
<1> SUFFICES ASSUME FrameIInv, [Next]_vars PROVE FrameInv'
  BY TypeStep DEF FrameIInv
<1>0. FrameInv /\ net \in Seq(Packet) /\ conn.then \in {"clearRecv", "finish"} /\ TypeInv
  BY DEF FrameIInv, TypeInv, TypeOK, NetOK, TaskOK
<1>a. ASSUME UNCHANGED <<frame, net>>, Held' => Held
      PROVE  FrameInv'
  BY <1>0, <1>a DEF FrameInv
<1>b. ASSUME UNCHANGED net, ~Held'
      PROVE  FrameInv'
  BY <1>0, <1>b DEF FrameInv
<1>c. ASSUME NEW s \in Sessions, NEW e \in Packet, Came(e), net' = Append(net, e),
             UNCHANGED <<frame, pc, recvSem>>
      PROVE  FrameInv'
  <2>1. \A j \in 1 .. Len(net') : Came(net'[j])
    BY <1>0, <1>c, AppendKeeps DEF FrameInv
  <2> QED
    BY <1>0, <1>c, <2>1 DEF FrameInv, Held, Looking, Pending
<1> USE DEF webVars, taskVars, devVars, ExamineUnchanged, Step, Held, Looking, Pending
<1>1. CASE UpdateCgi \/ (\E h \in Hosts : HttpAccept(h)) \/ UNCHANGED vars
  BY <1>a, <1>1 DEF UpdateCgi, HttpAccept, vars
<1>2. CASE ClearStart \/ PendStart \/ UpdateInit \/ Delay \/ SendRequest
  BY <1>a, <1>2 DEF ClearStart, PendStart, UpdateInit, Delay, SendRequest
<1>3. CASE ClearRecv \/ PendRecv \/ RecvTimeout
  BY <1>a, <1>3 DEF ClearRecv, PendRecv, RecvTimeout
<1>4. CASE BuildRequest \/ MeasureRequest \/ AckOp \/ AckBlock \/ BuildError
  BY <1>b, <1>4 DEF BuildRequest, MeasureRequest, AckOp, AckBlock, BuildError
<1>5. CASE Examine
  BY <1>a, <1>5 DEF Examine, TakeLen, PortKnown, PortNew, LatchPort, UnknownTid, BadPacket,
                    OptionAck, DataPacket, BlockError, OldBlock, NewBlock
<1>6. CASE Count \/ TooLarge \/ Sum \/ Write
  BY <1>a, <1>6 DEF Count, TooLarge, Sum, Write
<1>7. CASE SendAck \/ SendError
  BY <1>0, <1>b, <1>7 DEF SendAck, SendError
<1>8. CASE Finish \/ FinishRefused \/ ForgetName \/ ReportFailure \/ Reset
  BY <1>a, <1>8 DEF Finish, FinishRefused, ForgetName, ReportFailure, Reset
<1>9. ASSUME NEW i \in 1 .. Len(net), Receive(i) \/ LosePacket(i) PROVE FrameInv'
  <2>1. net' = RemoveAt(net, i) /\ (UNCHANGED <<frame, pc, recvSem>> \/ frame' = net[i])
    BY <1>9 DEF Receive, LosePacket
  <2>2. ASSUME NEW j \in 1 .. Len(net') PROVE Came(net'[j])
    BY <1>0, <2>1, RemoveAtKeeps DEF FrameInv
  <2> QED
    BY <1>0, <2>1, <2>2 DEF FrameInv
<1>10. ASSUME NEW s \in Sessions, Transmit(s) PROVE FrameInv'
  BY <1>0, <1>c, <1>10, ExpectedCame, ExpectedType DEF Transmit, Sending
<1>11. ASSUME NEW s \in Sessions, Refuse(s) PROVE FrameInv'
  BY <1>c, <1>11, ExpectedCame, RefusalType DEF Refuse, Refusal
<1> QED
  BY <1>1, <1>2, <1>3, <1>4, <1>5, <1>6, <1>7, <1>8, <1>9, <1>10, <1>11 DEF Next, Task, Network

\* The task handles what was received, never what it wrote into the buffer
\* itself, whatever the network does (256-273, 357-424).
THEOREM PacketsAreReceived == Spec => []ExaminesReceived
<1>1. FrameIInv => ExaminesReceived
  BY DEF FrameIInv, FrameInv, ExaminesReceived, Held, Looking, Came, Received
<1> QED
  BY <1>1, FrameInit, FrameStep, PTL DEF Spec

-----------------------------------------------------------------------------
(***************************************************************************)
(* The acknowledgements.  Each click has a session of its own, and the one *)
(* that answers the newest request is behind what was handled: it moves on *)
(* only when it gets the acknowledgement of a block that went through      *)
(* tftp_handle_data, and what else gets into the buffer is no              *)
(* acknowledgement.                                                        *)
(***************************************************************************)
Acking == pc \in {"ackOp", "ackBlock", "sendAck"}

FreshInv ==
  /\ filename \in {NoFile, clicks} /\ asked =< clicks
  /\ \A s \in Sessions : Open(s) => s =< asked /\ srv[s].file = s
  /\ pc \in {"measure", "sendRequest"} => \A s \in Sessions : Open(s) => s < asked
  /\ pc \in {"init", "delay", "request"} \/ (pc = "pendStart" /\ startSem > 0)
       => asked < filename
  /\ Counts => asked \in Files

AckInv ==
  /\ Transferring =>
       \A s \in Sessions : s = asked /\ Open(s) => srv[s].last =< Handled + 1
  /\ Pending \/ Acking => conn.ack =< conn.prev
  /\ pc = "sendAck" /\ frame.op = "ACK" => frame.blk = conn.ack
  /\ pc = "sendError" => frame.op # "ACK"

AckIInv == SizeIInv /\ FrameInv /\ FreshInv /\ AckInv

LEMMA AckInit == Init => AckIInv
<1> SUFFICES ASSUME Init PROVE FreshInv /\ AckInv
  BY SizeInit, FrameInit DEF AckIInv, FrameIInv
<1>1. \A s \in Sessions : ~Open(s)
  BY DEF Init, Open
<1>2. pc = "clearStart" /\ filename = NoFile /\ asked = NoFile /\ clicks = 0
  BY DEF Init
<1> QED
  BY <1>1, <1>2 DEF FreshInv, AckInv, Transferring, Pending, Acking, Counts, NoFile

\* What is sent moves only the session behind server_port, by one block and
\* if it acknowledges the last one, or ends it.
LEMMA OpenKept ==
  ASSUME TypeInv, Send, NEW s \in Sessions
  PROVE  /\ srv'[s].long = srv[s].long
         /\ Open(s)' => /\ Open(s) /\ srv'[s].file = srv[s].file
                        /\ \/ srv'[s] = srv[s]
                           \/ /\ frame.op = "ACK" /\ frame.blk = srv[s].last /\ conn.port = s
                              /\ srv'[s].last = srv[s].last + 1
<1>0. srv \in Srvs
  BY DEF TypeInv, TypeOK, NetOK, Srvs
<1>1. CASE UNCHANGED srv
  BY <1>1 DEF Open
<1>2. ASSUME NEW t \in Sessions, conn.port = t, Open(t), srv' = [srv EXCEPT ![t] = Answered(t)]
      PROVE  /\ srv'[s].long = srv[s].long
             /\ Open(s)' => /\ Open(s) /\ srv'[s].file = srv[s].file
                            /\ \/ srv'[s] = srv[s]
                               \/ /\ frame.op = "ACK" /\ frame.blk = srv[s].last /\ conn.port = s
                                  /\ srv'[s].last = srv[s].last + 1
  <2>1. CASE s # t
    BY <1>0, <1>2, <2>1 DEF Srvs, Open
  <2>2. CASE s = t
    <3>1. srv'[s] = Answered(s) /\ Open(s)
      BY <1>0, <1>2, <2>2 DEF Srvs
    <3>2. CASE Answered(s) = srv[s]
      BY <3>1, <3>2
    <3>3. CASE Answered(s) = [srv[s] EXCEPT !.file = NoFile]
      BY <1>0, <1>2, <3>1, <3>3 DEF Srvs, Open
    <3>4. CASE /\ frame.op = "ACK" /\ frame.blk = srv[s].last /\ srv[s].last < Size[srv[s].file]
               /\ Answered(s) = [srv[s] EXCEPT !.last = srv[s].last + 1, !.tries = 0]
      BY <1>0, <1>2, <2>2, <3>1, <3>4 DEF Srvs
    <3> QED
      BY <1>0, <3>2, <3>3, <3>4, AnsweredCases
  <2> QED
    BY <2>1, <2>2
<1> QED
  BY <1>1, <1>2 DEF Send

LEMMA FreshStep ==
  ASSUME TypeInv, FreshInv, [Next]_vars
  PROVE  FreshInv'
<1>0. /\ FreshInv /\ srv \in Srvs /\ startSem \in {0, 1} /\ clicks \in Nat
      /\ filename \in Files \cup {NoFile} /\ asked \in Files \cup {NoFile}
      /\ conn.then \in {"clearRecv", "finish"}
  BY DEF TypeInv, TypeOK, SharedOK, TaskOK, NetOK, Srvs, Files
<1> USE DEF Step, webVars, taskVars, devVars, ExamineUnchanged, Transferring, Pending, Counts
<1>n. \A n \in Files \cup {NoFile} : n \in Nat /\ (n # NoFile => n \in Files)
  BY DEF Files, NoFile
\* a step of the task in a transfer, or at its end
<1>a. ASSUME pc' \notin {"pendStart", "init", "delay", "request", "measure", "sendRequest"},
             filename' \in {NoFile, filename}, UNCHANGED <<clicks, asked>>,
             \A s \in Sessions : Open(s)' => Open(s) /\ srv'[s].file = srv[s].file,
             Counts' => Counts
      PROVE  FreshInv'
  BY <1>0, <1>a DEF FreshInv, Open
\* a step of the network or of a browser that is not a click
<1>b. ASSUME UNCHANGED <<pc, filename, clicks, asked, startSem>>,
             \A s \in Sessions : Open(s)' => Open(s) /\ srv'[s].file = srv[s].file
      PROVE  FreshInv'
  BY <1>0, <1>b DEF FreshInv, Open
<1>1. CASE UpdateCgi
  <2>1. /\ UNCHANGED <<pc, asked, srv>> /\ clicks' = clicks + 1 /\ filename' = clicks + 1
    BY <1>1 DEF UpdateCgi
  <2>2. asked < filename' /\ asked =< clicks' /\ filename' = clicks'
    BY <1>0, <1>n, <2>1 DEF FreshInv
  <2> QED
    BY <1>0, <2>1, <2>2 DEF FreshInv, Open
<1>2. CASE ClearStart \/ PendStart \/ UpdateInit \/ Delay
  BY <1>0, <1>2 DEF ClearStart, PendStart, UpdateInit, Delay, FreshInv, Open
<1>3. CASE BuildRequest
  <2>1. /\ pc = "request" /\ pc' = "measure" /\ asked' = filename
        /\ UNCHANGED <<filename, clicks, srv>>
    BY <1>3 DEF BuildRequest
  <2>2. asked < filename
    BY <1>0, <2>1 DEF FreshInv
  <2>3. asked' \in Files /\ asked' =< clicks
    <3>1. asked \in Nat /\ filename \in Nat /\ filename # 0
      BY <1>0, <1>n, <2>2
    <3> QED
      BY <1>0, <2>1, <3>1 DEF FreshInv, NoFile
  <2>4. \A s \in Sessions : Open(s)' => s < asked' /\ srv'[s].file = s
    BY <1>0, <1>n, <2>1, <2>2 DEF FreshInv, Open, Sessions
  <2>5. \A s \in Sessions : s < asked' => s =< asked'
    BY <1>n, <2>3 DEF Sessions
  <2> QED
    BY <1>0, <2>1, <2>3, <2>4, <2>5 DEF FreshInv
<1>4. CASE MeasureRequest
  BY <1>0, <1>4 DEF MeasureRequest, FreshInv, Open
<1>5. CASE SendRequest
  <2>1. /\ pc = "sendRequest" /\ pc' = "clearRecv" /\ UNCHANGED <<filename, clicks, asked>>
        /\ asked \in Files
    BY <1>0, <1>5 DEF SendRequest, FreshInv
  <2>2. ASSUME NEW r, r.file = asked, srv' = [srv EXCEPT ![asked] = r]
        PROVE  \A s \in Sessions : Open(s)' => s =< asked /\ srv'[s].file = s
    BY <1>0, <1>n, <2>1, <2>2 DEF FreshInv, Open, Srvs, Sessions
  <2>3. CASE UNCHANGED srv
    BY <1>a, <2>1, <2>3 DEF Open
  <2>4. ASSUME NEW first \in {0, 1}, NEW long \in BOOLEAN,
               srv' = [srv EXCEPT ![asked] =
                         [file |-> asked, last |-> first, tries |-> 0, long |-> long]]
        PROVE  \A s \in Sessions : Open(s)' => s =< asked /\ srv'[s].file = s
    BY <2>2, <2>4
  <2> QED
    BY <1>0, <1>5, <2>1, <2>3, <2>4 DEF SendRequest, FreshInv
<1>6. CASE ClearRecv \/ PendRecv \/ RecvTimeout
  BY <1>a, <1>6 DEF ClearRecv, PendRecv, RecvTimeout, Open
<1>7. CASE Examine
  BY <1>a, <1>7 DEF Examine, TakeLen, PortKnown, PortNew, LatchPort, UnknownTid, BadPacket,
                    OptionAck, DataPacket, BlockError, OldBlock, NewBlock, Open
<1>8. CASE Count \/ TooLarge \/ Sum \/ Write
  BY <1>a, <1>8 DEF Count, TooLarge, Sum, Write, Open
<1>9. CASE AckOp \/ AckBlock \/ BuildError
  BY <1>a, <1>9 DEF AckOp, AckBlock, BuildError, Open
<1>10. CASE SendAck \/ SendError
  <2>1. \A s \in Sessions : Open(s)' => Open(s) /\ srv'[s].file = srv[s].file
    BY <1>10, OpenKept DEF SendAck, SendError
  <2> QED
    BY <1>0, <1>a, <1>10, <2>1 DEF SendAck, SendError
<1>11. CASE Finish \/ FinishRefused \/ ForgetName \/ ReportFailure \/ Reset
  BY <1>0, <1>a, <1>11 DEF Finish, FinishRefused, ForgetName, ReportFailure, Reset, Open
<1>12. ASSUME NEW s \in Sessions, Transmit(s) \/ Refuse(s) PROVE FreshInv'
  <2>1. \A t \in Sessions : srv'[t].file \in {NoFile, srv[t].file}
    BY <1>0, <1>12 DEF Transmit, Refuse, Srvs
  <2> QED
    BY <1>b, <1>12, <2>1 DEF Transmit, Refuse, Open
<1>13. CASE \/ \E h \in Hosts : HttpAccept(h)
            \/ \E i \in 1 .. Len(net) : Receive(i) \/ LosePacket(i)
            \/ UNCHANGED vars
  BY <1>b, <1>13 DEF HttpAccept, Receive, LosePacket, vars, Open
<1> QED
  BY <1>1, <1>2, <1>3, <1>4, <1>5, <1>6, <1>7, <1>8, <1>9, <1>10, <1>11, <1>12, <1>13
     DEF Next, Task, Network

LEMMA AckStep ==
  ASSUME AckIInv, [Next]_vars
  PROVE  AckInv'
<1>0. /\ SizeInv /\ FrameInv /\ FreshInv /\ AckInv /\ TypeInv
      /\ conn \in Conns /\ frame \in Packet /\ srv \in Srvs /\ conn.prev \in Nat
      /\ (Counts => Handled \in Nat) /\ (Transferring => Counts)
      /\ conn.then \in {"clearRecv", "finish"} /\ net \in Seq(Packet)
      /\ conn.ack \in Nat
  BY SizeTypes DEF AckIInv, SizeIInv, TypeInv, TypeOK, TaskOK, NetOK, Srvs
<1> USE DEF Step, webVars, taskVars, devVars, ExamineUnchanged
<1> DEFINE Ahead == \A s \in Sessions : s = asked /\ Open(s) => srv[s].last =< Handled + 1
           Plain == {"measure", "sendRequest", "clearRecv", "pendRecv", "takeLen", "checkPort",
                     "latchPort", "readOp", "readBlock", "finish", "buildError"}
\* outside the transfers
<1>a. ASSUME ~Transferring' PROVE AckInv'
  BY <1>a DEF AckInv, Transferring, Pending, Acking
\* between two blocks
<1>b. ASSUME pc \in Plain, pc' \in Plain, conn'.prev = conn.prev, UNCHANGED <<srv, asked>>
      PROVE  AckInv'
  BY <1>0, <1>b DEF AckInv, Transferring, Pending, Acking, Handled, Open
\* of the network or a browser
<1>c. ASSUME UNCHANGED <<pc, conn, asked>>,
             \A s \in Sessions : Open(s)' => Open(s) /\ srv'[s].last = srv[s].last,
             frame'.op # "ACK" \/ UNCHANGED frame
      PROVE  AckInv'
  BY <1>0, <1>c DEF AckInv, Transferring, Pending, Acking, Handled
<1>1. CASE UpdateCgi \/ (\E h \in Hosts : HttpAccept(h)) \/ UNCHANGED vars
  BY <1>c, <1>1 DEF UpdateCgi, HttpAccept, vars, Open
<1>2. ASSUME NEW i \in 1 .. Len(net), Receive(i) \/ LosePacket(i) PROVE AckInv'
  <2>1. net[i].op # "ACK"
    BY <1>0, <1>2 DEF FrameInv, Came, Received
  <2> QED
    BY <1>c, <1>2, <2>1 DEF Receive, LosePacket, Open
<1>3. ASSUME NEW s \in Sessions, Transmit(s) \/ Refuse(s) PROVE AckInv'
  <2>1. \A t \in Sessions : srv'[t].file # NoFile => srv[t].file # NoFile /\ srv'[t].last = srv[t].last
    BY <1>0, <1>3 DEF Transmit, Refuse, Srvs, NoFile
  <2> QED
    BY <1>c, <1>3, <2>1 DEF Transmit, Refuse, Open
<1>4. CASE ClearStart \/ PendStart \/ UpdateInit \/ Delay
  BY <1>a, <1>4 DEF ClearStart, PendStart, UpdateInit, Delay, Transferring, Pending
<1>5. CASE BuildRequest
  <2>1. FreshInv' /\ pc' = "measure"
    BY <1>0, <1>5, FreshStep DEF BuildRequest
  <2>2. \A s \in Sessions : Open(s)' => s # asked'
    BY <2>1 DEF FreshInv, Sessions, Files
  <2> QED
    BY <2>1, <2>2 DEF AckInv, Pending, Acking
<1>6. CASE SendRequest
  <2>1. /\ pc = "sendRequest" /\ pc' = "clearRecv" /\ UNCHANGED <<conn, asked>>
    BY <1>6 DEF SendRequest
  <2>2. Handled' \in Nat
    BY <1>0, <2>1 DEF Handled, Pending
  <2>3. \A s \in Sessions : Open(s) => s # asked
    BY <1>0, <2>1 DEF FreshInv, Sessions, Files
  <2>4. ASSUME NEW r \in [file : {asked}, last : {0, 1}, tries : Nat, long : BOOLEAN],
               srv' = [srv EXCEPT ![asked] = r], NEW s \in Sessions, s = asked
        PROVE  srv'[s].last =< Handled' + 1
    BY <1>0, <2>1, <2>2, <2>4 DEF Srvs
  <2>5. CASE UNCHANGED srv
    BY <2>1, <2>3, <2>5 DEF AckInv, Pending, Acking, Open
  <2>6. ASSUME NEW first \in {0, 1}, NEW long \in BOOLEAN,
               srv' = [srv EXCEPT ![asked] =
                         [file |-> asked, last |-> first, tries |-> 0, long |-> long]]
        PROVE  AckInv'
    BY <2>1, <2>4, <2>6 DEF AckInv, Pending, Acking
  <2> QED
    BY <1>6, <2>5, <2>6 DEF SendRequest
<1>7. CASE MeasureRequest \/ ClearRecv \/ PendRecv
  BY <1>b, <1>7 DEF MeasureRequest, ClearRecv, PendRecv
<1>8. CASE RecvTimeout \/ TooLarge \/ BlockError \/ SendError \/ FinishRefused
  BY <1>a, <1>8 DEF RecvTimeout, TooLarge, BlockError, SendError, FinishRefused, Transferring, Pending
<1>9. CASE TakeLen \/ LatchPort
  <2>1. conn'.prev = conn.prev
    BY <1>0, <1>9 DEF TakeLen, LatchPort, Conns
  <2> QED
    BY <1>b, <1>9, <2>1 DEF TakeLen, LatchPort
<1>10. CASE PortKnown \/ PortNew \/ UnknownTid \/ DataPacket
  BY <1>b, <1>10 DEF PortKnown, PortNew, UnknownTid, DataPacket
<1>11. CASE BadPacket
  BY <1>a, <1>b, <1>11 DEF BadPacket, Transferring, Pending
<1>12. CASE OptionAck \/ OldBlock
  <2>1. /\ pc \in {"readOp", "readBlock"} /\ pc' = "ackOp" /\ UNCHANGED <<srv, asked>>
    BY <1>12 DEF OptionAck, OldBlock
  <2>2. conn'.prev = conn.prev /\ conn'.ack =< conn.prev
    <3>1. CASE OptionAck
      BY <1>0, <3>1 DEF OptionAck, Conns
    <3>2. CASE OldBlock
      BY <1>0, <3>2 DEF OldBlock, Conns, Packet
    <3> QED
      BY <1>12, <3>1, <3>2
  <2> QED
    BY <1>0, <2>1, <2>2 DEF AckInv, Transferring, Pending, Acking, Handled, Open
<1>13. CASE NewBlock
  <2>1. /\ pc = "readBlock" /\ UNCHANGED <<srv, asked>>
        /\ pc' = IF conn.len \in {"short", "full"} THEN "count" ELSE "fail"
        /\ conn'.prev = conn.prev + 1 /\ conn'.ack = conn'.prev
    BY <1>0, <1>13 DEF NewBlock, Conns
  <2>2. CASE pc' = "count"
    <3>1. Handled' = Handled /\ Transferring
      BY <1>0, <2>1, <2>2 DEF Handled, Pending, Transferring
    <3> QED
      BY <1>0, <2>1, <2>2, <3>1 DEF AckInv, Open
  <2>3. CASE pc' = "fail"
    BY <1>a, <2>3 DEF Transferring, Pending
  <2> QED
    BY <2>1, <2>2, <2>3
<1>14. CASE Count \/ Sum
  <2>1. /\ pc \in {"count", "sum"} /\ pc' \in {"sum", "write"} /\ UNCHANGED <<srv, asked, conn>>
    BY <1>14 DEF Count, Sum
  <2> QED
    BY <1>0, <2>1 DEF AckInv, Transferring, Pending, Acking, Handled, Open
<1>15. CASE Write
  <2>1. /\ pc = "write" /\ pc' = "ackOp" /\ UNCHANGED <<srv, asked, conn>>
    BY <1>15 DEF Write
  <2>2. Handled' = Handled + 1 /\ Handled \in Nat /\ Transferring
    BY <1>0, <2>1 DEF Handled, Pending, Transferring
  <2>3. \A s \in Sessions : s = asked /\ Open(s) => srv[s].last =< Handled' + 1
    BY <1>0, <2>2 DEF AckInv, Srvs
  <2> QED
    BY <1>0, <2>1, <2>3 DEF AckInv, Pending, Acking, Open
<1>16. CASE AckOp \/ BuildError
  <2>1. /\ pc \in {"ackOp", "buildError"} /\ UNCHANGED <<srv, asked, conn>>
        /\ pc' = "ackBlock" \/ (pc' = "sendError" /\ frame'.op = "ERROR")
        /\ pc = "ackOp" <=> pc' = "ackBlock"
    BY <1>0, <1>16 DEF AckOp, BuildError, Packet
  <2> QED
    BY <1>0, <2>1 DEF AckInv, Transferring, Pending, Acking, Handled, Open
<1>17. CASE AckBlock
  <2>1. /\ pc = "ackBlock" /\ pc' = "sendAck" /\ UNCHANGED <<srv, asked, conn>>
        /\ frame'.blk = conn.ack
    BY <1>0, <1>17 DEF AckBlock, Packet
  <2> QED
    BY <1>0, <2>1 DEF AckInv, Transferring, Pending, Acking, Handled, Open
<1>18. CASE SendAck
  <2>1. /\ pc = "sendAck" /\ pc' \in {"clearRecv", "finish"} /\ UNCHANGED <<asked, conn>> /\ Send
        /\ conn.ack =< conn.prev /\ (frame.op = "ACK" => frame.blk = conn.ack)
    BY <1>0, <1>18 DEF SendAck, AckInv, Acking
  <2>2. Handled' = conn.prev /\ Handled = conn.prev /\ Transferring
    BY <2>1 DEF Handled, Pending, Transferring
  <2>3. ASSUME NEW s \in Sessions, s = asked', Open(s)'
        PROVE  srv'[s].last =< Handled' + 1
    <3>1. Open(s) /\ s = asked /\ srv[s].last \in Nat
      BY <1>0, <2>1, <2>3, OpenKept DEF Srvs
    <3>2. CASE srv'[s].last = srv[s].last
      BY <1>0, <2>2, <3>1, <3>2 DEF AckInv
    <3>3. CASE frame.op = "ACK" /\ frame.blk = srv[s].last /\ srv'[s].last = srv[s].last + 1
      BY <1>0, <2>1, <2>2, <3>1, <3>3
    <3> QED
      BY <1>0, <2>1, <2>3, <3>2, <3>3, OpenKept
  <2> QED
    BY <2>1, <2>3 DEF AckInv, Pending, Acking
<1>19. CASE Finish \/ ForgetName \/ ReportFailure \/ Reset
  BY <1>a, <1>19 DEF Finish, ForgetName, ReportFailure, Reset, Transferring, Pending
<1> QED
  BY <1>1, <1>2, <1>3, <1>4, <1>5, <1>6, <1>7, <1>8, <1>9, <1>10, <1>11, <1>12, <1>13, <1>14,
     <1>15, <1>16, <1>17, <1>18, <1>19 DEF Next, Task, Network, Examine

LEMMA AckIStep == AckIInv /\ [Next]_vars => AckIInv'
  BY SizeStep, FrameStep, FreshStep, AckStep DEF AckIInv, SizeIInv, FrameIInv

\* The server never goes past a block that was not handled, and that is in
\* the flash if every page was written whole, whatever is lost, repeated or
\* overtaken, whatever comes while the acknowledgement is put together, and
\* whatever other sessions send (129-175, 357-462).
THEOREM BlocksAreAckedInFlash == Spec => []AckedBlocksAreInFlash
<1>1. AckIInv => AckedBlocksAreInFlash
  <2> SUFFICES ASSUME AckIInv, NEW s \in Sessions, Transferring, s = asked, Open(s), ~torn
               PROVE  srv[s].last =< Len(image.flash) + 1
    BY DEF AckedBlocksAreInFlash
  <2>1. SizeIInv /\ Counts
    BY DEF AckIInv, Counts
  <2>2. Len(image.flash) = Handled
    BY <2>1 DEF SizeIInv, SizeInv
  <2> QED
    BY <2>2 DEF AckIInv, AckInv
<1> QED
  BY <1>1, AckInit, AckIStep, PTL DEF Spec

-----------------------------------------------------------------------------
(***************************************************************************)
(* The check sum.  As long as no packet replaces one whose block number    *)
(* was read, a block is summed and written under its own number, so the    *)
(* sum counts exactly the blocks that are in the flash at their places.    *)
(***************************************************************************)
\* how often block d was added to the sum
Total(d) == image.sum[<<d, "short">>] + image.sum[<<d, "full">>]
\* block d is in the flash at its place, or is just written there
At(d) == \/ d[2] =< Len(image.flash) /\ image.flash[d[2]] = d
         \/ pc = "write" /\ frame.data = d

OneInv ==
  /\ pc \in {"delay", "request"} => image.sum = NoSum
  /\ Counts /\ ~replaced /\ ~torn =>
       /\ Pending /\ frame.data # NoPiece => frame.data[2] = conn.prev
       /\ \A d \in Pieces : Total(d) = IF At(d) THEN 1 ELSE 0
  /\ update # NoUpdate => update.file = image.head[1] /\ HeadChecks

OneIInv == SizeIInv /\ FrameInv /\ OneInv

LEMMA PiecesAre ==
  ASSUME NEW d \in Pieces
  PROVE  /\ d # NoPiece /\ d[1] \in Files /\ d[2] \in 1 .. Size[d[1]] /\ d[2] \in Nat \ {0}
         /\ d = <<d[1], d[2]>>
         /\ <<d, "short">> \in Parts /\ <<d, "full">> \in Parts
<1>1. /\ d[1] \in Files /\ d[2] \in 1 .. Size[d[1]] /\ d = <<d[1], d[2]>>
  BY DEF Pieces
<1>2. d[2] \in Nat \ {0} /\ d # NoPiece
  BY <1>1, SizeType DEF NoPiece, NoFile, Files
<1> QED
  BY <1>1, <1>2 DEF Parts, Data

LEMMA OneInit == Init => OneIInv
<1> SUFFICES ASSUME Init PROVE OneInv
  BY SizeInit, FrameInit DEF OneIInv, FrameIInv
<1>1. pc = "clearStart" /\ update = NoUpdate
  BY DEF Init
<1> QED
  BY <1>1 DEF OneInv, Counts, Transferring, Pending

LEMMA OneStep ==
  ASSUME OneIInv, [Next]_vars
  PROVE  OneInv'
<1>0. /\ SizeInv /\ FrameInv /\ OneInv /\ TypeInv
      /\ conn \in Conns /\ image \in Images /\ frame \in Packet /\ conn.prev \in Nat
      /\ Len(image.flash) \in Nat /\ torn \in BOOLEAN /\ replaced \in BOOLEAN
      /\ conn.then \in {"clearRecv", "finish"}
  BY SizeTypes DEF OneIInv, SizeIInv, TypeInv, TypeOK, SharedOK, TaskOK
<1> USE DEF Step, webVars, taskVars, devVars, ExamineUnchanged
\* a step that does not concern a block in the buffer
<1>a. ASSUME UNCHANGED <<image, update, torn, replaced>>, pc # "write", pc' # "write",
             Counts' => Counts, pc' \notin {"delay", "request"},
             Pending' => Pending /\ UNCHANGED <<frame, conn>>
      PROVE  OneInv'
  BY <1>0, <1>a DEF OneInv, Total, At, HeadChecks
\* a step of the network or of a browser
<1>b. ASSUME UNCHANGED <<pc, image, update, conn, torn>>,
             replaced' \/ (UNCHANGED <<frame, replaced>>) \/ (~Pending /\ UNCHANGED replaced)
      PROVE  OneInv'
  BY <1>0, <1>b DEF OneInv, Total, At, HeadChecks, Pending, Counts, Transferring
\* a step outside the transfers
<1>c. ASSUME ~Counts', pc' \notin {"delay", "request"}, pc \notin {"reset", "off"}, UNCHANGED update
      PROVE  OneInv'
  BY <1>0, <1>c DEF OneInv, SizeInv
<1>1. CASE UpdateCgi \/ (\E h \in Hosts : HttpAccept(h)) \/ UNCHANGED vars
  BY <1>b, <1>1 DEF UpdateCgi, HttpAccept, vars
<1>2. ASSUME NEW i \in 1 .. Len(net), Receive(i) \/ LosePacket(i) PROVE OneInv'
  <2>1. CASE LosePacket(i)
    BY <1>b, <2>1 DEF LosePacket
  <2>2. CASE Receive(i)
    <3>1. UNCHANGED <<pc, image, update, conn, torn>> /\ replaced' = (replaced \/ Pending)
      BY <2>2 DEF Receive
    <3>2. CASE Pending
      BY <1>b, <3>1, <3>2
    <3>3. CASE ~Pending
      BY <1>0, <1>b, <3>1, <3>3
    <3> QED
      BY <3>2, <3>3
  <2> QED
    BY <1>2, <2>1, <2>2
<1>3. ASSUME NEW s \in Sessions, Transmit(s) \/ Refuse(s) PROVE OneInv'
  BY <1>b, <1>3 DEF Transmit, Refuse
<1>4. CASE ClearStart \/ PendStart
  BY <1>c, <1>4 DEF ClearStart, PendStart, Counts, Transferring, Pending
<1>5. CASE UpdateInit
  <2>1. pc = "init" /\ pc' = "delay" /\ image'.sum = NoSum /\ UNCHANGED update
    BY <1>0, <1>5 DEF UpdateInit, Images
  <2> QED
    BY <1>0, <2>1 DEF OneInv, SizeInv, Counts, Transferring, Pending
<1>6. CASE Delay
  BY <1>0, <1>6 DEF Delay, OneInv, SizeInv, Counts, Transferring, Pending
<1>7. CASE BuildRequest
  <2>1. /\ pc = "request" /\ pc' = "measure" /\ UNCHANGED <<image, update, conn>>
        /\ image.sum = NoSum /\ image.flash = <<>> /\ Len(<<>>) = 0 /\ update = NoUpdate
    BY <1>0, <1>7, EmptySeq DEF BuildRequest, OneInv, SizeInv
  <2>2. ASSUME NEW d \in Pieces PROVE Total(d)' = 0 /\ ~At(d)'
    BY <2>1, <2>2, PiecesAre DEF Total, At, NoSum
  <2> QED
    BY <2>1, <2>2 DEF OneInv, Pending
<1>8. CASE MeasureRequest \/ SendRequest \/ ClearRecv \/ PendRecv \/ RecvTimeout
  BY <1>a, <1>8 DEF MeasureRequest, SendRequest, ClearRecv, PendRecv, RecvTimeout, Counts,
                    Transferring, Pending
<1>9. CASE TakeLen \/ PortKnown \/ PortNew \/ LatchPort \/ UnknownTid
  BY <1>a, <1>9 DEF TakeLen, PortKnown, PortNew, LatchPort, UnknownTid, Counts, Transferring, Pending
<1>10. CASE BadPacket \/ OptionAck \/ DataPacket \/ BlockError \/ OldBlock
  BY <1>a, <1>10 DEF BadPacket, OptionAck, DataPacket, BlockError, OldBlock, Counts, Transferring,
                     Pending
<1>11. CASE NewBlock
  <2>1. /\ pc = "readBlock" /\ UNCHANGED <<image, update, frame, torn, replaced>>
        /\ pc' = IF conn.len \in {"short", "full"} THEN "count" ELSE "fail"
        /\ conn'.prev = frame.blk
    BY <1>0, <1>11 DEF NewBlock, Conns
  <2>2. CASE pc' = "fail"
    BY <1>c, <2>1, <2>2 DEF Counts, Transferring, Pending
  <2>3. CASE pc' = "count"
    <3>1. frame.data # NoPiece => frame.data[2] = conn'.prev
      BY <1>0, <2>1 DEF FrameInv, Held, Looking, Came
    <3>2. Counts /\ Counts'
      BY <2>1, <2>3 DEF Counts, Transferring, Pending
    <3>3. ASSUME NEW d PROVE Total(d)' = Total(d) /\ At(d)' = At(d)
      BY <2>1, <2>3 DEF Total, At
    <3>4. HeadChecks' = HeadChecks
      BY <2>1 DEF HeadChecks
    <3> QED
      BY <1>0, <2>1, <2>3, <3>1, <3>2, <3>3, <3>4 DEF OneInv
  <2> QED
    BY <2>1, <2>2, <2>3
<1>12. CASE Count
  <2>1. pc = "count" /\ pc' = "sum" /\ UNCHANGED <<image, update, frame, torn, replaced, conn>>
    BY <1>12 DEF Count
  <2> QED
    BY <1>a, <2>1 DEF Counts, Transferring, Pending
<1>13. CASE TooLarge
  BY <1>c, <1>13 DEF TooLarge, Counts, Transferring, Pending
<1>14. CASE Sum
  <2> DEFINE part == <<frame.data, conn.len>>
  <2>1. /\ pc = "sum" /\ pc' = "write" /\ UNCHANGED <<update, frame, torn, replaced, conn>>
        /\ image'.flash = image.flash
        /\ image'.sum = [image.sum EXCEPT ![part] = image.sum[part] + 1]
    BY <1>0, <1>14 DEF Sum, Images
  <2>2. /\ image.sum \in [Parts -> Nat] /\ part \in Parts /\ conn.len \in {"short", "full"}
        /\ Counts /\ Counts' /\ Pending /\ update = NoUpdate
    BY <1>0, <2>1 DEF Images, SizeInv, Pending, Counts, Transferring, Parts, Packet
  <2>3. ASSUME ~replaced, ~torn, NEW d \in Pieces
        PROVE  Total(d)' = IF At(d)' THEN 1 ELSE 0
    <3>1. /\ d # NoPiece /\ d[2] \in Nat /\ <<d, "short">> \in Parts /\ <<d, "full">> \in Parts
          /\ Total(d) = IF At(d) THEN 1 ELSE 0
      BY <1>0, <2>2, <2>3, PiecesAre DEF OneInv
    <3>2. CASE frame.data # d
      <4>1. <<d, "short">> # part /\ <<d, "full">> # part
        BY <3>2
      <4> HIDE DEF part
      <4>2. Total(d)' = Total(d)
        BY <2>1, <2>2, <3>1, <4>1 DEF Total
      <4>3. At(d)' <=> At(d)
        BY <2>1, <3>2 DEF At
      <4> QED
        BY <3>1, <4>2, <4>3
    <3>3. CASE frame.data = d
      <4>1. d[2] = conn.prev /\ Len(image.flash) = conn.prev - 1
        BY <1>0, <2>1, <2>2, <2>3, <3>1, <3>3 DEF OneInv, SizeInv, Handled, Pending
      <4>2. ~At(d) /\ At(d)'
        BY <1>0, <2>1, <3>3, <4>1 DEF At
      <4>3. Total(d) = 0
        BY <3>1, <4>2
      <4>4. image.sum[<<d, "short">>] = 0 /\ image.sum[<<d, "full">>] = 0
        BY <2>2, <3>1, <4>3 DEF Total
      <4>5. CASE conn.len = "short"
        <5>1. image'.sum[<<d, "short">>] = 1 /\ image'.sum[<<d, "full">>] = 0
          BY <2>1, <2>2, <3>1, <3>3, <4>4, <4>5
        <5> QED
          BY <4>2, <5>1 DEF Total
      <4>6. CASE conn.len = "full"
        <5>1. image'.sum[<<d, "short">>] = 0 /\ image'.sum[<<d, "full">>] = 1
          BY <2>1, <2>2, <3>1, <3>3, <4>4, <4>6
        <5> QED
          BY <4>2, <5>1 DEF Total
      <4> QED
        BY <2>2, <4>5, <4>6
    <3> QED
      BY <3>2, <3>3
  <2>4. ~replaced /\ ~torn /\ frame.data # NoPiece => frame.data[2] = conn.prev
    BY <1>0, <2>2 DEF OneInv
  <2> HIDE DEF part
  <2> QED
    BY <2>1, <2>2, <2>3, <2>4 DEF OneInv
<1>15. CASE Write
  <2>1. pc = "write" /\ pc' = "ackOp" /\ UNCHANGED <<update, frame, replaced, conn>>
    BY <1>15 DEF Write
  <2>2. Counts /\ Pending /\ update = NoUpdate /\ ~Pending'
    BY <1>0, <2>1 DEF SizeInv, Pending, Counts, Transferring
  <2>3. ASSUME ~replaced, ~torn', NEW d \in Pieces
        PROVE  Total(d)' = IF At(d)' THEN 1 ELSE 0
    <3>1. /\ ~torn /\ image'.sum = image.sum /\ image'.flash = Append(image.flash, frame.data)
      BY <1>0, <1>15, <2>3 DEF Write, Images
    <3>2. d # NoPiece /\ d[2] \in Nat \ {0} /\ Total(d) = IF At(d) THEN 1 ELSE 0
      BY <1>0, <2>2, <2>3, <3>1, PiecesAre DEF OneInv
    <3>3. /\ image.flash \in Seq(Data) /\ frame.data \in Data
          /\ Len(image'.flash) = Len(image.flash) + 1
          /\ image'.flash[Len(image.flash) + 1] = frame.data
          /\ \A j \in 1 .. Len(image.flash) : image'.flash[j] = image.flash[j]
      BY <1>0, <3>1, AppendProperties DEF Images, Packet
    <3>4. Len(image.flash) + 1 = conn.prev /\ (frame.data = d => d[2] = conn.prev)
      BY <1>0, <2>1, <2>2, <2>3, <3>1, <3>2 DEF OneInv, SizeInv, Handled, Pending
    <3>5. At(d)' <=> At(d)
      <4>1. CASE d[2] =< Len(image.flash)
        <5>1. d[2] \in 1 .. Len(image.flash) /\ d[2] # conn.prev
          BY <1>0, <3>2, <3>4, <4>1
        <5> QED
          BY <1>0, <2>1, <3>3, <3>4, <4>1, <5>1 DEF At
      <4>2. CASE d[2] = Len(image.flash) + 1
        BY <1>0, <2>1, <3>3, <4>2 DEF At
      <4>3. CASE d[2] > Len(image.flash) + 1
        BY <1>0, <2>1, <3>2, <3>3, <3>4, <4>3 DEF At
      <4> QED
        BY <1>0, <3>2, <4>1, <4>2, <4>3
    <3> QED
      BY <3>1, <3>2, <3>5 DEF Total
  <2> QED
    BY <2>1, <2>2, <2>3 DEF OneInv
<1>16. CASE AckOp \/ AckBlock \/ SendAck \/ BuildError \/ SendError
  BY <1>0, <1>a, <1>16 DEF AckOp, AckBlock, SendAck, BuildError, SendError, Counts, Transferring,
                           Pending
<1>17. CASE Finish
  <2>1. /\ pc = "finish" /\ pc' = "reset" /\ UNCHANGED <<image, torn, replaced>> /\ HeadChecks
        /\ update'.file = image.head[1]
    BY <1>17 DEF Finish
  <2>2. Counts /\ HeadChecks' /\ ~Pending'
    BY <2>1 DEF Counts, Transferring, Pending, HeadChecks
  <2>3. ASSUME NEW d PROVE Total(d)' = Total(d) /\ At(d)' = At(d)
    BY <2>1 DEF Total, At
  <2> QED
    BY <1>0, <2>1, <2>2, <2>3 DEF OneInv
<1>18. CASE FinishRefused \/ ForgetName \/ ReportFailure
  BY <1>c, <1>18 DEF FinishRefused, ForgetName, ReportFailure, Counts, Transferring, Pending
<1>19. CASE Reset
  BY <1>a, <1>19 DEF Reset, Counts, Transferring, Pending
<1> QED
  BY <1>1, <1>2, <1>3, <1>4, <1>5, <1>6, <1>7, <1>8, <1>9, <1>10, <1>11, <1>12, <1>13, <1>14,
     <1>15, <1>16, <1>17, <1>18, <1>19 DEF Next, Task, Network, Examine

\* What is marked is one file, complete and in order up to pages of zeros,
\* whatever the network does, if no packet came between the reading of a block
\* number and the writing of its page and the flash wrote whole pages
\* (103-125, 275-333, 357-462).
THEOREM FlashHoldsOneFile == Spec => []FlashIsOneFile
<1>1. OneIInv => FlashIsOneFile
  <2> SUFFICES ASSUME OneIInv, update # NoUpdate, ~replaced, ~torn, NEW f \in Files,
                      NEW n \in Weighed(f)
               PROVE  (n =< Len(image.flash) /\ image.flash[n] = <<f, n>>) <=> f = update.file
    BY DEF FlashIsOneFile
  <2> DEFINE d == <<f, n>>
             h == update.file
  <2>1. /\ n \in 1 .. Size[f] /\ n \notin ZeroBlocks /\ d \in Pieces /\ LenOf(d) \in {"short", "full"}
    BY TftpConstants DEF Weighed, Pieces, LenOf
  <2>2. pc \in {"reset", "off"} /\ HeadChecks /\ h = image.head[1]
    BY DEF OneIInv, SizeIInv, SizeInv, OneInv
  <2>3. Total(d) = IF At(d) THEN 1 ELSE 0
    BY <2>1, <2>2 DEF OneIInv, OneInv, Counts
  <2>4. At(d) <=> n =< Len(image.flash) /\ image.flash[n] = <<f, n>>
    BY <2>2 DEF At
  <2>5. <<d, "short">> \in Parts /\ <<d, "full">> \in Parts
    BY <2>1, PiecesAre
  <2> HIDE DEF h
  <2>6. /\ image.sum[<<d, "short">>] = SumOf(h)[<<d, "short">>]
        /\ image.sum[<<d, "full">>] = SumOf(h)[<<d, "full">>]
    BY <2>1, <2>2, <2>5 DEF HeadChecks, SameSum
  <2>7. /\ SumOf(h)[<<d, "short">>] = IF f = h /\ "short" = LenOf(d) THEN 1 ELSE 0
        /\ SumOf(h)[<<d, "full">>] = IF f = h /\ "full" = LenOf(d) THEN 1 ELSE 0
    BY <2>5 DEF SumOf
  <2>8. Total(d) = IF f = h THEN 1 ELSE 0
    BY <2>1, <2>6, <2>7 DEF Total
  <2> QED
    BY <2>3, <2>4, <2>8 DEF h
<1>2. OneIInv /\ [Next]_vars => OneIInv'
  BY OneStep, SizeStep, FrameStep DEF OneIInv, SizeIInv, FrameIInv
<1> QED
  BY <1>1, <1>2, OneInit, PTL DEF Spec

-----------------------------------------------------------------------------
(***************************************************************************)
(* The file, when packets stay in order and a session ends before the next *)
(* request.  What a session sends is then a line: the block numbers in     *)
(* transit never fall, the one in frame_buffer is not above them, and none *)
(* is above the block the session has reached, which is at most the one    *)
(* behind what was handled.  A packet that comes while another is looked   *)
(* at is thus a later one or the same again, and one that comes while a    *)
(* block is stored can only be the same block.                             *)
(***************************************************************************)
InOrder == ~Reordering /\ ~Lingering

Rank(p) == IF p.op = "DATA" THEN p.blk ELSE 0

\* a packet that the session of file f sends, with long blocks or not
Sent(f, long, p) ==
  /\ p.op \in Received /\ p.port = f
  /\ p.op = "DATA" => /\ p.blk \in 1 .. Size[f] /\ p.data = <<f, p.blk>>
                      /\ p.len \in {LenOf(p.data), "long"}
  /\ p.op # "DATA" => p.len = "short"
  /\ long => p.len = "long"

Line(f, long, q) ==
  /\ \A i \in 1 .. Len(q) : Sent(f, long, q[i])
  /\ \A i, j \in 1 .. Len(q) : i < j => Rank(q[i]) =< Rank(q[j])
Between(lo, q, hi) == \A i \in 1 .. Len(q) : lo =< Rank(q[i]) /\ Rank(q[i]) =< hi

Quiet == pc \in {"request", "measure", "sendRequest"}

LineInv ==
  /\ Line(asked, srv[asked].long, net)
  /\ \A s \in Sessions : Sending(s) => s = asked
  /\ Quiet => net = <<>> /\ \A s \in Sessions : ~Sending(s)
  /\ asked \in Sessions /\ Open(asked) =>
       /\ Between(0, net, srv[asked].last)
       /\ srv[asked].long => srv[asked].last = 1

OrderInv ==
  /\ pc \in {"delay", "request"} => conn.port = WellKnown
  /\ Quiet => conn.prev = 0
  /\ Transferring =>
       /\ conn.port \in {WellKnown, asked}
       /\ Between(conn.prev, net, Handled + 1)
       /\ Open(asked) => conn.prev =< srv[asked].last
       /\ srv[asked].long => conn.prev = 0
       /\ Held => /\ Sent(asked, srv[asked].long, frame)
                  /\ Between(Rank(frame), net, Handled + 1)
                  /\ conn.prev =< Rank(frame) /\ Rank(frame) =< Handled + 1
                  /\ Open(asked) => Rank(frame) =< srv[asked].last

\* What was read of the packets that were looked at belongs together, but for
\* the length of an option acknowledgement and the number of the first block.
Ending == pc = "finish" \/ ((Pending \/ Acking) /\ conn.then = "finish")
LookInv ==
  Transferring =>
    /\ pc = "readBlock" => Rank(frame) > 0
    /\ Looking /\ pc # "takeLen" =>
         /\ srv[asked].long => conn.len = "long"
         /\ conn.len = "short" => conn.prev = 0 \/ Rank(frame) = Size[asked]
    /\ Ending => conn.prev \in {1, Size[asked]}

LineIInv == AckIInv /\ LineInv /\ OrderInv /\ LookInv

LEMMA LineInit == Init => LineIInv
<1> SUFFICES ASSUME Init PROVE LineInv /\ OrderInv /\ LookInv
  BY AckInit DEF LineIInv
<1>1. \A s \in Sessions : ~Open(s)
  BY DEF Init, Open
<1>2. net = <<>> /\ Len(<<>>) = 0 /\ pc = "clearStart"
  BY EmptySeq DEF Init
<1> QED
  BY <1>1, <1>2 DEF LineInv, OrderInv, LookInv, Line, Quiet, Sending, Transferring, Pending

LEMMA RankType ==
  ASSUME NEW p \in Packet
  PROVE  Rank(p) \in Nat /\ (Rank(p) > 0 => p.op = "DATA" /\ p.blk = Rank(p))
  BY DEF Rank, Packet

\* A packet that leaves the network leaves a line.
LEMMA LineTaken ==
  ASSUME NEW q \in Seq(Packet), NEW i \in 1 .. Len(q), NEW f, NEW long, Line(f, long, q),
         NEW r, r = RemoveAt(q, i)
  PROVE  /\ Line(f, long, r) /\ Sent(f, long, q[i])
         /\ \A lo, hi : Between(lo, q, hi) =>
              /\ Between(lo, r, hi) /\ lo =< Rank(q[i]) /\ Rank(q[i]) =< hi
              /\ i = 1 => Between(Rank(q[1]), r, hi)
<1>1. /\ Len(q) \in Nat /\ Len(r) = Len(q) - 1
      /\ \A j \in 1 .. Len(q) - 1 : r[j] = IF j < i THEN q[j] ELSE q[j + 1]
  BY LenProperties, RemoveAtProperties
<1> DEFINE at(j) == IF j < i THEN j ELSE j + 1
<1>2. \A j \in 1 .. Len(r) : at(j) \in 1 .. Len(q) /\ r[j] = q[at(j)]
  BY <1>1
<1>3. \A j, k \in 1 .. Len(r) : j < k => at(j) < at(k)
  BY <1>1
<1>4. i = 1 => \A j \in 1 .. Len(r) : 1 < at(j)
  BY <1>1
<1>5. 1 \in 1 .. Len(q)
  BY <1>1
<1> HIDE DEF at
<1> QED
  BY <1>2, <1>3, <1>4, <1>5 DEF Line, Between

\* A packet that is sent when nothing above it is in transit extends a line.
LEMMA LineSent ==
  ASSUME NEW q \in Seq(Packet), NEW e \in Packet, NEW f, NEW long, Line(f, long, q),
         Sent(f, long, e), Between(0, q, Rank(e)), NEW r, r = Append(q, e)
  PROVE  /\ Line(f, long, r) /\ Between(0, r, Rank(e))
         /\ \A lo, hi : Between(lo, q, hi) /\ lo =< Rank(e) /\ Rank(e) =< hi => Between(lo, r, hi)
<1>1. /\ Len(q) \in Nat /\ Len(r) = Len(q) + 1 /\ Rank(e) \in Nat
      /\ \A j \in 1 .. Len(q) + 1 :
           \/ j \in 1 .. Len(q) /\ r[j] = q[j]
           \/ j = Len(q) + 1 /\ r[j] = e
  BY LenProperties, AppendKeeps, RankType
<1>2. \A j, k \in 1 .. Len(r) : j < k => j \in 1 .. Len(q) /\ r[j] = q[j]
  BY <1>1
<1>3. \A j, k \in 1 .. Len(r) : j < k => Rank(r[j]) =< Rank(r[k])
  BY <1>1, <1>2 DEF Line, Between
<1>4. \A j \in 1 .. Len(r) : Sent(f, long, r[j])
  BY <1>1 DEF Line
<1>5. 0 =< Rank(e) /\ Rank(e) =< Rank(e)
  BY <1>1
<1> QED
  BY <1>1, <1>3, <1>4, <1>5 DEF Line, Between

\* What a session sends is of its file, and its rank is the block it has reached.
LEMMA ExpectedSent ==
  ASSUME TypeInv, NEW s \in Sessions, Open(s), srv[s].file = s,
         srv[s].long => srv[s].last = 1
  PROVE  Sent(s, srv[s].long, Expected(s)) /\ Rank(Expected(s)) = srv[s].last
<1>1. srv[s].last =< Size[s] /\ srv[s].last \in Nat /\ Size[s] \in Nat /\ srv[s].long \in BOOLEAN
  BY SizeType DEF TypeInv, TypeOK, NetOK, SrvInv, Sessions
<1>2. CASE srv[s].last = 0
  <2>1. Expected(s) = [op |-> "OACK", blk |-> 0, data |-> NoPiece, len |-> "short", port |-> s]
    BY <1>2 DEF Expected
  <2>2. ~srv[s].long
    BY <1>2
  <2> QED
    BY <1>2, <2>1, <2>2 DEF Sent, Rank, Received
<1>3. CASE srv[s].last # 0
  <2> DEFINE d == <<s, srv[s].last>>
             l == IF srv[s].long THEN "long" ELSE LenOf(d)
  <2>1. srv[s].last \in 1 .. Size[s]
    BY <1>1, <1>3
  <2>2. (IF srv[s].long /\ srv[s].last > 1 THEN NoPiece ELSE d) = d
    OBVIOUS
  <2>3. Expected(s) = [op |-> "DATA", blk |-> srv[s].last, data |-> d, len |-> l, port |-> s]
    BY <1>3, <2>2 DEF Expected
  <2>4. l \in {LenOf(d), "long"} /\ (srv[s].long => l = "long")
    OBVIOUS
  <2> HIDE DEF l
  <2> QED
    BY <2>1, <2>3, <2>4 DEF Sent, Rank, Received
<1> QED
  BY <1>2, <1>3

LEMMA RefusalSent ==
  ASSUME NEW s \in Sessions, NEW code \in ErrorCodes
  PROVE  Sent(s, FALSE, Refusal(s, code)) /\ Rank(Refusal(s, code)) = 0
  BY DEF Refusal, Sent, Rank, Received

\* The types of what the steps below are about.
LEMMA LineTypes ==
  ASSUME LineIInv
  PROVE  /\ TypeInv /\ SizeInv /\ FrameInv /\ FreshInv /\ AckInv /\ LineInv /\ OrderInv /\ LookInv
         /\ conn \in Conns /\ frame \in Packet /\ srv \in Srvs /\ conn.prev \in Nat
         /\ (Counts => Handled \in Nat) /\ (Transferring => Counts /\ asked \in Sessions)
         /\ conn.then \in {"clearRecv", "finish"} /\ net \in Seq(Packet) /\ conn.ack \in Nat
         /\ asked \in Sessions \cup {NoFile} /\ image \in Images /\ Len(image.flash) \in Nat
<1>1. SizeIInv /\ TypeInv /\ FreshInv
  BY DEF LineIInv, AckIInv, SizeIInv
<1>2. Transferring => asked \in Sessions
  BY <1>1 DEF FreshInv, Counts, Sessions
<1> QED
  BY <1>1, <1>2, SizeTypes
     DEF LineIInv, AckIInv, SizeIInv, TypeInv, TypeOK, TaskOK, NetOK, Srvs, Sessions, Conns

LEMMA LineStep ==
  ASSUME InOrder, LineIInv, [Next]_vars
  PROVE  LineInv'
<1>0. /\ TypeInv /\ SizeInv /\ FreshInv /\ AckInv /\ LineInv /\ OrderInv
      /\ conn \in Conns /\ frame \in Packet /\ srv \in Srvs /\ net \in Seq(Packet)
      /\ (Transferring => asked \in Sessions) /\ asked \in Sessions \cup {NoFile}
      /\ \A s \in Sessions : srv[s].last \in Nat /\ srv[s].long \in BOOLEAN
      /\ NoFile \notin Sessions /\ WellKnown \notin Sessions
      /\ conn.then \in {"clearRecv", "finish"}
  BY LineTypes DEF Srvs, NoFile, WellKnown, Sessions, Files
<1>a. ASSUME UNCHANGED <<net, srv, asked>>, Quiet' => Quiet
      PROVE  LineInv'
  BY <1>0, <1>a DEF LineInv, Open, Sending
<1> USE DEF Step, webVars, taskVars, devVars, ExamineUnchanged
<1>1. CASE UpdateCgi \/ (\E h \in Hosts : HttpAccept(h)) \/ UNCHANGED vars
  BY <1>a, <1>1 DEF UpdateCgi, HttpAccept, vars, Quiet
<1>2. ASSUME NEW i \in 1 .. Len(net), Receive(i) \/ LosePacket(i) PROVE LineInv'
  <2>1. net' = RemoveAt(net, i) /\ UNCHANGED <<srv, asked, pc>>
    BY <1>2 DEF Receive, LosePacket
  <2>2. /\ Line(asked, srv[asked].long, net')
        /\ \A lo, hi : Between(lo, net, hi) => Between(lo, net', hi)
    BY <1>0, <2>1, LineTaken DEF LineInv
  <2>3. ~Quiet
    BY <1>0, <1>2, EmptySeq DEF LineInv
  <2> QED
    BY <1>0, <2>1, <2>2, <2>3 DEF LineInv, Open, Sending, Quiet
<1>3. ASSUME NEW e \in Packet, asked \in Sessions, Sending(asked), Rank(e) = srv[asked].last,
             Sent(asked, srv[asked].long, e), net' = Append(net, e), UNCHANGED <<asked, pc>>,
             \A t \in Sessions : srv'[t].file \in {NoFile, srv[t].file} /\ srv'[t].last = srv[t].last
                                 /\ srv'[t].long = srv[t].long /\ (t # asked => srv'[t] = srv[t])
      PROVE  LineInv'
  <2>1. Open(asked) /\ ~Quiet
    BY <1>0, <1>3 DEF Sending, LineInv
  <2>2. Line(asked, srv[asked].long, net) /\ Between(0, net, Rank(e))
    BY <1>0, <1>3, <2>1 DEF LineInv
  <2>3. Line(asked, srv[asked].long, net') /\ Between(0, net', Rank(e))
    BY <1>0, <1>3, <2>2, LineSent
  <2>4. \A t \in Sessions : Sending(t)' => t = asked
    BY <1>0, <1>3 DEF LineInv, Sending, Open
  <2> QED
    BY <1>0, <1>3, <2>1, <2>3, <2>4 DEF LineInv, Quiet
<1>4. ASSUME NEW s \in Sessions, Transmit(s) PROVE LineInv'
  <2>1. Sending(s) /\ Open(s) /\ net' = Append(net, Expected(s)) /\ UNCHANGED <<asked, pc>>
    BY <1>4 DEF Transmit, Sending
  <2>2. s = asked /\ srv[s].file = s /\ (srv[s].long => srv[s].last = 1)
    BY <1>0, <2>1 DEF LineInv, FreshInv
  <2>3. Sent(s, srv[s].long, Expected(s)) /\ Rank(Expected(s)) = srv[s].last /\ Expected(s) \in Packet
    BY <1>0, <2>1, <2>2, ExpectedSent, ExpectedType
  <2>4. \A t \in Sessions : srv'[t].file = srv[t].file /\ srv'[t].last = srv[t].last
                            /\ srv'[t].long = srv[t].long /\ (t # s => srv'[t] = srv[t])
    BY <1>0, <1>4 DEF Transmit, Srvs
  <2> QED
    BY <1>3, <2>1, <2>2, <2>3, <2>4
<1>5. ASSUME NEW s \in Sessions, Refuse(s) PROVE LineInv'
  <2>1. Sending(s) /\ Open(s) /\ srv[s].last = 0 /\ UNCHANGED <<asked, pc>>
    BY <1>5 DEF Refuse, Sending
  <2>2. PICK code \in ErrorCodes : net' = Append(net, Refusal(s, code))
    BY <1>5 DEF Refuse, Refusal
  <2>3. s = asked /\ srv[s].long = FALSE
    BY <1>0, <2>1 DEF LineInv
  <2>4. /\ Sent(s, FALSE, Refusal(s, code)) /\ Rank(Refusal(s, code)) = 0
        /\ Refusal(s, code) \in Packet
    BY RefusalSent, RefusalType
  <2>5. \A t \in Sessions : srv'[t].file \in {NoFile, srv[t].file} /\ srv'[t].last = srv[t].last
                            /\ srv'[t].long = srv[t].long /\ (t # s => srv'[t] = srv[t])
    BY <1>0, <1>5 DEF Refuse, Srvs
  <2> QED
    BY <1>3, <2>1, <2>2, <2>3, <2>4, <2>5
<1>6. CASE ClearStart \/ PendStart \/ UpdateInit \/ MeasureRequest
  BY <1>a, <1>6 DEF ClearStart, PendStart, UpdateInit, MeasureRequest, Quiet
<1>7. CASE Delay
  <2>1. net = <<>> /\ (\A s \in Sessions : ~Sending(s)) /\ UNCHANGED <<net, srv, asked>>
    BY <1>7 DEF Delay, InOrder
  <2> QED
    BY <1>0, <2>1 DEF LineInv, Open, Sending
<1>8. CASE BuildRequest
  <2>1. pc = "request" /\ pc' = "measure" /\ UNCHANGED <<net, srv>>
    BY <1>8 DEF BuildRequest
  <2>2. net = <<>> /\ Len(<<>>) = 0 /\ \A s \in Sessions : ~Sending(s)
    BY <1>0, <2>1, EmptySeq DEF LineInv, Quiet
  <2>3. FreshInv'
    BY <1>0, FreshStep
  <2>4. asked' \in Sessions => ~Open(asked)'
    BY <2>1, <2>3 DEF FreshInv, Sessions, Files
  <2> QED
    BY <2>1, <2>2, <2>4 DEF LineInv, Line, Open, Sending
<1>9. CASE SendRequest
  <2>1. pc = "sendRequest" /\ pc' = "clearRecv" /\ UNCHANGED <<net, asked>>
    BY <1>9 DEF SendRequest
  <2>2. net = <<>> /\ Len(<<>>) = 0 /\ \A s \in Sessions : ~Sending(s)
    BY <1>0, <2>1, EmptySeq DEF LineInv, Quiet
  <2>3. CASE UNCHANGED srv
    BY <1>a, <2>1, <2>3 DEF Quiet
  <2>4. ASSUME NEW first \in {0, 1}, NEW long \in BOOLEAN, asked # NoFile, long => first = 1,
               srv' = [srv EXCEPT ![asked] =
                         [file |-> asked, last |-> first, tries |-> 0, long |-> long]]
        PROVE  LineInv'
    <3>1. asked \in Sessions /\ \A t \in Sessions : t # asked => srv'[t] = srv[t]
      BY <1>0, <2>4
    <3>2. srv'[asked] = [file |-> asked, last |-> first, tries |-> 0, long |-> long]
      BY <1>0, <2>4, <3>1 DEF Srvs
    <3>3. \A t \in Sessions : Sending(t)' => t = asked
      BY <2>2, <3>1 DEF Sending, Open
    <3> QED
      BY <2>1, <2>2, <2>4, <3>2, <3>3 DEF LineInv, Line, Between, Quiet
  <2> QED
    BY <1>9, <2>3, <2>4 DEF SendRequest
<1>10. CASE ClearRecv \/ PendRecv \/ RecvTimeout
  BY <1>a, <1>10 DEF ClearRecv, PendRecv, RecvTimeout, Quiet
<1>11. CASE Examine
  BY <1>a, <1>11 DEF Examine, TakeLen, PortKnown, PortNew, LatchPort, UnknownTid, BadPacket,
                     OptionAck, DataPacket, BlockError, OldBlock, NewBlock, Quiet
<1>12. CASE Count \/ TooLarge \/ Sum \/ Write
  BY <1>a, <1>12 DEF Count, TooLarge, Sum, Write, Quiet
<1>13. CASE AckOp \/ AckBlock \/ BuildError
  BY <1>a, <1>13 DEF AckOp, AckBlock, BuildError, Quiet
<1>14. CASE SendAck \/ SendError
  <2>1. /\ pc \in {"sendAck", "sendError"} /\ UNCHANGED <<net, asked>> /\ Send /\ ~Quiet'
        /\ Transferring
    BY <1>0, <1>14 DEF SendAck, SendError, Quiet, Transferring
  <2>2. /\ asked \in Sessions /\ conn.port \in {WellKnown, asked}
        /\ srv[asked].long => conn.prev = 0
    BY <1>0, <2>1 DEF OrderInv
  <2>3. \A t \in Sessions : Sending(t)' => t = asked
    <3> SUFFICES ASSUME NEW t \in Sessions, Sending(t)', t # asked PROVE FALSE
      OBVIOUS
    <3>1. Open(t)' /\ conn.port # t
      BY <1>0, <2>2 DEF Sending
    <3>2. srv'[t] = srv[t] /\ Open(t)
      BY <1>0, <2>1, <3>1, OpenKept
    <3> QED
      BY <1>0, <3>2 DEF LineInv, Sending
  <2>4. srv'[asked].long = srv[asked].long /\ Line(asked, srv[asked].long, net)
    BY <1>0, <2>1, <2>2, OpenKept DEF LineInv
  <2>5. ASSUME Open(asked)'
        PROVE  Between(0, net, srv'[asked].last) /\ (srv'[asked].long => srv'[asked].last = 1)
    <3>1. Open(asked) /\ Between(0, net, srv[asked].last) /\ (srv[asked].long => srv[asked].last = 1)
      BY <1>0, <2>1, <2>2, <2>5, OpenKept DEF LineInv
    <3>2. CASE srv'[asked] = srv[asked]
      BY <3>1, <3>2
    <3>3. CASE frame.op = "ACK" /\ frame.blk = srv[asked].last /\ srv'[asked].last = srv[asked].last + 1
      <4>1. pc = "sendAck" /\ frame.blk = conn.ack /\ conn.ack =< conn.prev
        BY <1>0, <2>1, <3>3 DEF AckInv, Acking
      <4>2. ~srv[asked].long
        BY <1>0, <2>2, <3>1, <3>3, <4>1 DEF Conns
      <4>3. \A i \in 1 .. Len(net) : Rank(net[i]) \in Nat
        BY <1>0, RankType, ElementOfSeq
      <4>4. Between(0, net, srv[asked].last + 1)
        BY <1>0, <2>2, <3>1, <4>3 DEF Between
      <4> QED
        BY <2>4, <3>3, <4>2, <4>4
    <3> QED
      BY <1>0, <2>1, <2>2, <2>5, <3>2, <3>3, OpenKept
  <2> QED
    BY <2>1, <2>2, <2>3, <2>4, <2>5 DEF LineInv
<1>15. CASE Finish \/ FinishRefused \/ ForgetName \/ ReportFailure \/ Reset
  BY <1>a, <1>15 DEF Finish, FinishRefused, ForgetName, ReportFailure, Reset, Quiet
<1> QED
  BY <1>1, <1>2, <1>4, <1>5, <1>6, <1>7, <1>8, <1>9, <1>10, <1>11, <1>12, <1>13, <1>14, <1>15
     DEF Next, Task, Network

LEMMA OrderStep ==
  ASSUME InOrder, LineIInv, [Next]_vars
  PROVE  OrderInv'
<1>0. /\ TypeInv /\ SizeInv /\ FreshInv /\ AckInv /\ LineInv /\ OrderInv /\ LookInv
      /\ conn \in Conns /\ frame \in Packet /\ srv \in Srvs /\ net \in Seq(Packet)
      /\ (Transferring => asked \in Sessions /\ Counts) /\ (Counts => Handled \in Nat)
      /\ \A s \in Sessions : srv[s].last \in Nat /\ srv[s].long \in BOOLEAN
      /\ WellKnown \notin Sessions /\ conn.prev \in Nat
      /\ conn.then \in {"clearRecv", "finish"}
  BY LineTypes DEF Srvs, WellKnown, Sessions, Files
<1>q. Quiet => conn.prev = 0 /\ net = <<>>
  BY <1>0 DEF LineInv, OrderInv
<1>e. ASSUME NEW lo, NEW hi PROVE Between(lo, <<>>, hi)
  BY EmptySeq DEF Between
\* a step that leaves the packets and the place in the file alone
<1>a. ASSUME UNCHANGED <<net, srv, asked>>, conn'.prev = conn.prev, conn'.port = conn.port,
             pc' \notin {"delay", "request"}, Quiet' => Quiet,
             Transferring' => Transferring /\ Handled' = Handled,
             Held' => Held /\ UNCHANGED frame
      PROVE  OrderInv'
  BY <1>0, <1>a DEF OrderInv, Open
\* outside the transfers
<1>b. ASSUME ~Transferring', pc' \notin {"delay", "request"} PROVE OrderInv'
  BY <1>b DEF OrderInv, Quiet, Transferring
<1> USE DEF Step, webVars, taskVars, devVars, ExamineUnchanged
<1>1. CASE UpdateCgi \/ (\E h \in Hosts : HttpAccept(h)) \/ UNCHANGED vars
  <2>1. UNCHANGED <<pc, conn, net, srv, asked, frame, recvSem>>
    BY <1>1 DEF UpdateCgi, HttpAccept, vars
  <2> QED
    BY <1>0, <2>1 DEF OrderInv, Open, Quiet, Transferring, Pending, Handled, Held, Looking
<1>2. ASSUME NEW i \in 1 .. Len(net), Receive(i) \/ LosePacket(i) PROVE OrderInv'
  <2>1. net' = RemoveAt(net, i) /\ UNCHANGED <<srv, asked, pc, conn>>
    BY <1>2 DEF Receive, LosePacket
  <2>2. /\ Sent(asked, srv[asked].long, net[i])
        /\ \A lo, hi : Between(lo, net, hi) =>
             /\ Between(lo, net', hi) /\ lo =< Rank(net[i]) /\ Rank(net[i]) =< hi
             /\ i = 1 => Between(Rank(net[1]), net', hi)
    BY <1>0, <2>1, LineTaken DEF LineInv
  <2>3. ~Quiet /\ Handled' = Handled /\ (Transferring' <=> Transferring) /\ (Quiet' <=> Quiet)
    BY <1>0, <1>2, <2>1, EmptySeq DEF LineInv, Handled, Transferring, Pending, Quiet
  <2>4. CASE LosePacket(i)
    <3>1. (Held' <=> Held) /\ UNCHANGED frame
      BY <2>1, <2>4 DEF LosePacket, Held, Looking, Pending
    <3> QED
      BY <1>0, <2>1, <2>2, <2>3, <3>1 DEF OrderInv, Open
  <2>5. CASE Receive(i)
    <3>1. i = 1 /\ frame' = net[1]
      BY <2>5 DEF Receive, InOrder
    <3>2. Transferring /\ Open(asked) => Rank(net[1]) =< srv[asked].last
      BY <1>0, <2>2, <3>1 DEF LineInv
    <3> QED
      BY <1>0, <2>1, <2>2, <2>3, <3>1, <3>2 DEF OrderInv, Open
  <2> QED
    BY <1>2, <2>4, <2>5
<1>3. ASSUME NEW e \in Packet, asked \in Sessions, Open(asked), Rank(e) = srv[asked].last,
             net' = Append(net, e), UNCHANGED <<asked, pc, conn, frame, recvSem>>,
             Sent(asked, srv[asked].long, e), ~Quiet,
             Open(asked)' => srv'[asked].last = srv[asked].last,
             srv'[asked].long = srv[asked].long
      PROVE  OrderInv'
  <2>1. /\ Handled' = Handled /\ (Transferring' <=> Transferring) /\ (Held' <=> Held) /\ ~Quiet'
    BY <1>3 DEF Handled, Transferring, Pending, Held, Looking, Quiet
  <2>2. /\ Line(asked, srv[asked].long, net) /\ Between(0, net, Rank(e))
    BY <1>0, <1>3 DEF LineInv
  <2>3. \A lo, hi : Between(lo, net, hi) /\ lo =< Rank(e) /\ Rank(e) =< hi => Between(lo, net', hi)
    BY <1>0, <1>3, <2>2, LineSent
  <2>4. Transferring => conn.prev =< Rank(e) /\ Rank(e) =< Handled + 1
    BY <1>0, <1>3 DEF OrderInv, AckInv
  <2> QED
    BY <1>0, <1>3, <2>1, <2>3, <2>4 DEF OrderInv
<1>4. ASSUME NEW s \in Sessions, Transmit(s) PROVE OrderInv'
  <2>1. /\ Sending(s) /\ Open(s) /\ net' = Append(net, Expected(s))
        /\ UNCHANGED <<asked, pc, conn, frame, recvSem>>
    BY <1>4 DEF Transmit, Sending
  <2>2. s = asked /\ srv[s].file = s /\ (srv[s].long => srv[s].last = 1) /\ ~Quiet
    BY <1>0, <2>1 DEF LineInv, FreshInv
  <2>3. Sent(s, srv[s].long, Expected(s)) /\ Rank(Expected(s)) = srv[s].last /\ Expected(s) \in Packet
    BY <1>0, <2>1, <2>2, ExpectedSent, ExpectedType
  <2>4. srv'[s].last = srv[s].last /\ srv'[s].long = srv[s].long
    BY <1>0, <1>4 DEF Transmit, Srvs
  <2> QED
    BY <1>3, <2>1, <2>2, <2>3, <2>4
<1>5. ASSUME NEW s \in Sessions, Refuse(s) PROVE OrderInv'
  <2>1. /\ Sending(s) /\ Open(s) /\ srv[s].last = 0 /\ UNCHANGED <<asked, pc, conn, frame, recvSem>>
    BY <1>5 DEF Refuse, Sending
  <2>2. PICK code \in ErrorCodes : net' = Append(net, Refusal(s, code))
    BY <1>5 DEF Refuse, Refusal
  <2>3. s = asked /\ srv[s].long = FALSE /\ ~Quiet
    BY <1>0, <2>1 DEF LineInv
  <2>4. /\ Sent(s, FALSE, Refusal(s, code)) /\ Rank(Refusal(s, code)) = 0
        /\ Refusal(s, code) \in Packet
    BY RefusalSent, RefusalType
  <2>5. srv'[s].last = srv[s].last /\ srv'[s].long = srv[s].long
    BY <1>0, <1>5 DEF Refuse, Srvs
  <2> QED
    BY <1>3, <2>1, <2>2, <2>3, <2>4, <2>5
<1>6. CASE ClearStart \/ PendStart
  BY <1>b, <1>6 DEF ClearStart, PendStart, Transferring, Pending
<1>7. CASE UpdateInit
  <2>1. pc' = "delay" /\ conn'.port = WellKnown
    BY <1>0, <1>7 DEF UpdateInit, Conns
  <2> QED
    BY <2>1 DEF OrderInv, Quiet, Transferring, Pending
<1>8. CASE Delay
  BY <1>0, <1>8 DEF Delay, OrderInv, SizeInv, Transferring, Pending, Quiet
<1>9. CASE BuildRequest
  <2>1. /\ pc = "request" /\ pc' = "measure" /\ UNCHANGED <<net, srv, conn>>
        /\ conn.port = WellKnown
    BY <1>0, <1>9 DEF BuildRequest, OrderInv
  <2>2. conn.prev = 0 /\ net = <<>> /\ ~Held' /\ FreshInv'
    BY <1>0, <1>q, <2>1, FreshStep DEF Held, Looking, Pending, Quiet
  <2>3. asked' \in Sessions /\ ~Open(asked)'
    BY <2>1, <2>2 DEF FreshInv, Sessions, Files, Counts, Transferring
  <2> QED
    BY <1>e, <2>1, <2>2, <2>3 DEF OrderInv
<1>10. CASE MeasureRequest
  BY <1>a, <1>10 DEF MeasureRequest, Quiet, Transferring, Pending, Handled, Held, Looking
<1>11. CASE SendRequest
  <2>1. pc = "sendRequest" /\ pc' = "clearRecv" /\ UNCHANGED <<net, conn, asked>>
    BY <1>11 DEF SendRequest
  <2>2. /\ conn.prev = 0 /\ net = <<>> /\ ~Held' /\ ~Quiet' /\ asked \in Sessions
        /\ conn.port \in {WellKnown, asked}
    BY <1>0, <1>q, <2>1 DEF Held, Looking, Pending, Quiet, OrderInv, Transferring
  <2>3. TypeInv'
    BY <1>0, TypeStep
  <2>4. srv'[asked].last \in Nat
    BY <2>1, <2>2, <2>3 DEF TypeInv, TypeOK, NetOK
  <2> QED
    BY <1>e, <2>1, <2>2, <2>4 DEF OrderInv
<1>12. CASE ClearRecv \/ PendRecv
  BY <1>a, <1>12 DEF ClearRecv, PendRecv, Quiet, Transferring, Pending, Handled, Held, Looking
<1>13. CASE RecvTimeout \/ TooLarge \/ BlockError \/ SendError \/ FinishRefused \/ ForgetName
            \/ ReportFailure \/ Finish \/ Reset
  BY <1>b, <1>13 DEF RecvTimeout, TooLarge, BlockError, SendError, FinishRefused, ForgetName,
                     ReportFailure, Finish, Reset, Transferring, Pending
<1>14. CASE TakeLen \/ OptionAck \/ OldBlock
  <2>1. conn'.prev = conn.prev /\ conn'.port = conn.port
    BY <1>0, <1>14 DEF TakeLen, OptionAck, OldBlock, Conns
  <2> QED
    BY <1>a, <1>14, <2>1 DEF TakeLen, OptionAck, OldBlock, Quiet, Transferring, Pending, Handled,
                             Held, Looking
<1>15. CASE PortKnown \/ PortNew \/ UnknownTid \/ DataPacket \/ BadPacket
  BY <1>a, <1>b, <1>15 DEF PortKnown, PortNew, UnknownTid, DataPacket, BadPacket, Quiet,
                           Transferring, Pending, Handled, Held, Looking
<1>16. CASE LatchPort
  <2>1. /\ pc = "latchPort" /\ pc' = "readOp" /\ conn'.port = frame.port /\ conn'.prev = conn.prev
        /\ UNCHANGED <<net, srv, asked, frame>>
    BY <1>0, <1>16 DEF LatchPort, Conns
  <2>2. Held /\ Transferring
    BY <2>1 DEF Held, Looking, Transferring
  <2>3. frame.port = asked
    BY <1>0, <2>2 DEF OrderInv, Sent
  <2>4. Handled' = Handled /\ ~Quiet'
    BY <2>1 DEF Handled, Pending, Quiet
  <2> QED
    BY <1>0, <2>1, <2>2, <2>3, <2>4 DEF OrderInv, Open
<1>17. CASE NewBlock
  <2>1. /\ pc = "readBlock" /\ UNCHANGED <<net, srv, asked, frame>>
        /\ pc' = IF conn.len \in {"short", "full"} THEN "count" ELSE "fail"
        /\ conn'.prev = conn.prev + 1 /\ conn'.port = conn.port /\ frame.blk = conn.prev + 1
    BY <1>0, <1>17 DEF NewBlock, Conns
  <2>2. CASE pc' = "fail"
    BY <1>b, <2>2 DEF Transferring, Pending
  <2>3. CASE pc' = "count"
    <3>1. Held /\ Transferring /\ Looking /\ ~Quiet' /\ Handled' = Handled /\ Handled = conn.prev
      BY <1>0, <2>1, <2>3 DEF Held, Looking, Transferring, Quiet, Handled, Pending
    <3>2. Rank(frame) = conn'.prev
      BY <1>0, <2>1, <3>1, RankType DEF LookInv
    <3>3. conn.len # "long"
      BY <2>1, <2>3
    <3>4. ~srv[asked].long
      BY <1>0, <2>1, <3>1, <3>3 DEF LookInv
    <3>5. /\ Between(Rank(frame), net, Handled + 1) /\ Sent(asked, srv[asked].long, frame)
          /\ Rank(frame) =< Handled + 1 /\ (Open(asked) => Rank(frame) =< srv[asked].last)
          /\ conn.port \in {WellKnown, asked}
      BY <1>0, <3>1 DEF OrderInv
    <3> QED
      BY <1>0, <2>1, <2>3, <3>1, <3>2, <3>4, <3>5 DEF OrderInv, Open
  <2> QED
    BY <2>1, <2>2, <2>3
<1>18. CASE Count \/ Sum
  BY <1>a, <1>18 DEF Count, Sum, Quiet, Transferring, Pending, Handled, Held, Looking
<1>19. CASE Write
  <2>1. pc = "write" /\ pc' = "ackOp" /\ UNCHANGED <<net, srv, asked, frame, conn>>
    BY <1>19 DEF Write
  <2>2. /\ ~Held' /\ ~Quiet' /\ Handled' = conn.prev /\ Handled = conn.prev - 1
        /\ Transferring /\ Pending
    BY <2>1 DEF Held, Looking, Pending, Quiet, Handled, Transferring
  <2>3. \A i \in 1 .. Len(net) : Rank(net[i]) \in Nat
    BY <1>0, RankType, ElementOfSeq
  <2>4. Between(conn.prev, net, conn.prev + 1)
    <3>1. Between(conn.prev, net, Handled + 1)
      BY <1>0, <2>2 DEF OrderInv
    <3> QED
      BY <1>0, <2>2, <2>3, <3>1 DEF Between
  <2> QED
    BY <1>0, <2>1, <2>2, <2>4 DEF OrderInv, Open
<1>20. CASE AckOp \/ AckBlock \/ BuildError
  BY <1>a, <1>20 DEF AckOp, AckBlock, BuildError, Quiet, Transferring, Pending, Handled, Held, Looking
<1>21. CASE SendAck
  <2>1. /\ pc = "sendAck" /\ pc' \in {"clearRecv", "finish"} /\ UNCHANGED <<net, asked, conn>>
        /\ Send
    BY <1>0, <1>21 DEF SendAck
  <2>2. /\ ~Held' /\ ~Quiet' /\ Handled' = Handled /\ Transferring
    BY <2>1 DEF Held, Looking, Pending, Quiet, Handled, Transferring
  <2>3. asked \in Sessions /\ srv'[asked].long = srv[asked].long
    BY <1>0, <2>1, <2>2, OpenKept
  <2>4. ASSUME Open(asked)' PROVE conn.prev =< srv'[asked].last
    <3>1. Open(asked) /\ srv'[asked].last \in {srv[asked].last, srv[asked].last + 1}
      BY <1>0, <2>1, <2>3, <2>4, OpenKept
    <3>2. conn.prev =< srv[asked].last
      BY <1>0, <2>2, <3>1 DEF OrderInv
    <3> QED
      BY <1>0, <2>3, <3>1, <3>2
  <2> QED
    BY <1>0, <2>1, <2>2, <2>3, <2>4 DEF OrderInv
<1> QED
  BY <1>1, <1>2, <1>4, <1>5, <1>6, <1>7, <1>8, <1>9, <1>10, <1>11, <1>12, <1>13, <1>14, <1>15,
     <1>16, <1>17, <1>18, <1>19, <1>20, <1>21 DEF Next, Task, Network, Examine

LEMMA LookStep ==
  ASSUME InOrder, LineIInv, [Next]_vars
  PROVE  LookInv'
<1>0. /\ TypeInv /\ SizeInv /\ LineInv /\ OrderInv /\ LookInv
      /\ conn \in Conns /\ frame \in Packet /\ srv \in Srvs /\ net \in Seq(Packet)
      /\ (Transferring => asked \in Sessions /\ Counts) /\ (Counts => Handled \in Nat)
      /\ conn.then \in {"clearRecv", "finish"} /\ conn.prev \in Nat
  BY LineTypes
\* a step in which no packet is looked at
<1>a. ASSUME pc' = "takeLen" \/ ~Looking', Transferring' => Transferring,
             Ending' => Ending, UNCHANGED <<conn, asked>>,
             Pending' => Pending
      PROVE  LookInv'
  BY <1>0, <1>a DEF LookInv, Looking
\* a step that does not concern the packet that is looked at
<1>b. ASSUME UNCHANGED <<pc, conn, asked, frame>>, srv'[asked].long = srv[asked].long
      PROVE  LookInv'
  BY <1>0, <1>b DEF LookInv, Looking, Pending, Transferring, Acking, Ending
\* a step that looks at it and takes nothing over
<1>c. ASSUME UNCHANGED <<asked, frame, srv>>, conn'.prev = conn.prev, conn'.len = conn.len,
             Looking, pc # "takeLen", ~Ending', ~Pending', pc' = "readBlock" => frame.op = "DATA"
      PROVE  LookInv'
  <2>1. Held /\ Transferring
    BY <1>c DEF Held, Looking, Transferring
  <2>2. frame.op = "DATA" => Rank(frame) \in Nat /\ Rank(frame) > 0
    <3>1. Sent(asked, srv[asked].long, frame) /\ Size[asked] \in Nat
      BY <1>0, <2>1, SizeType DEF OrderInv, Sessions
    <3> QED
      BY <3>1 DEF Sent, Rank
  <2> QED
    BY <1>0, <1>c, <2>1, <2>2 DEF LookInv
<1>d. ASSUME ~Transferring' PROVE LookInv'
  BY <1>d DEF LookInv
<1> USE DEF Step, webVars, taskVars, devVars, ExamineUnchanged
<1>1. CASE UpdateCgi \/ (\E h \in Hosts : HttpAccept(h)) \/ UNCHANGED vars
  BY <1>b, <1>1 DEF UpdateCgi, HttpAccept, vars
<1>2. ASSUME NEW i \in 1 .. Len(net), Receive(i) PROVE LookInv'
  <2>1. /\ i = 1 /\ net' = RemoveAt(net, i) /\ frame' = net[1] /\ UNCHANGED <<srv, asked, pc, conn>>
    BY <1>2 DEF Receive, InOrder
  <2>2. CASE ~Looking
    BY <1>0, <2>1, <2>2 DEF LookInv, Looking, Pending, Transferring, Acking, Ending
  <2>3. CASE Looking
    <3>1. Held /\ Transferring /\ asked \in Sessions /\ ~Ending /\ ~Pending
      BY <1>0, <2>3 DEF Held, Looking, Transferring, Ending, Pending, Acking
    <3>2. Rank(frame) =< Rank(net[1]) /\ Sent(asked, srv[asked].long, net[1]) /\ net[1] \in Packet
      BY <1>0, <2>1, <3>1, ElementOfSeq DEF OrderInv, Between, LineInv, Line
    <3>3. Rank(frame) \in Nat /\ Rank(net[1]) \in Nat /\ Size[asked] \in Nat \ {0}
      BY <1>0, <3>1, <3>2, RankType, SizeType DEF Sessions
    <3>4. Rank(net[1]) =< Size[asked]
      BY <3>2, <3>3 DEF Sent, Rank
    <3>5. Rank(frame) = Size[asked] => Rank(net[1]) = Size[asked]
      BY <3>2, <3>3, <3>4
    <3> QED
      BY <1>0, <2>1, <3>1, <3>2, <3>3, <3>5 DEF LookInv, Looking, Pending, Transferring, Ending, Acking
  <2> QED
    BY <2>2, <2>3
<1>3. ASSUME NEW i \in 1 .. Len(net), LosePacket(i) PROVE LookInv'
  BY <1>b, <1>3 DEF LosePacket
<1>4. ASSUME NEW s \in Sessions, Transmit(s) \/ Refuse(s) PROVE LookInv'
  <2>1. UNCHANGED <<pc, conn, asked, frame>> /\ srv'[s].long = srv[s].long
    <3>1. CASE Transmit(s)
      BY <1>0, <3>1 DEF Transmit, Srvs
    <3>2. CASE Refuse(s)
      BY <1>0, <3>2 DEF Refuse, Srvs
    <3> QED
      BY <1>4, <3>1, <3>2
  <2>2. s = asked
    BY <1>0, <1>4 DEF LineInv, Transmit, Refuse
  <2> QED
    BY <1>b, <2>1, <2>2
<1>5. CASE ClearStart \/ PendStart \/ UpdateInit \/ Delay
  BY <1>d, <1>5 DEF ClearStart, PendStart, UpdateInit, Delay, Transferring, Pending
<1>6. CASE BuildRequest \/ MeasureRequest \/ SendRequest \/ ClearRecv
  <2>1. pc' \in {"measure", "sendRequest", "clearRecv", "pendRecv"}
    BY <1>6 DEF BuildRequest, MeasureRequest, SendRequest, ClearRecv
  <2> QED
    BY <2>1 DEF LookInv, Looking, Pending, Acking, Ending
<1>7. CASE PendRecv
  <2>1. pc' = "takeLen"
    BY <1>7 DEF PendRecv
  <2> QED
    BY <2>1 DEF LookInv, Looking, Pending, Acking, Ending
<1>8. CASE RecvTimeout \/ TooLarge \/ BlockError \/ SendError \/ FinishRefused \/ ForgetName
           \/ ReportFailure \/ Finish \/ Reset
  BY <1>d, <1>8 DEF RecvTimeout, TooLarge, BlockError, SendError, FinishRefused, ForgetName,
                     ReportFailure, Finish, Reset, Transferring, Pending
<1>9. CASE TakeLen
  <2>1. /\ pc = "takeLen" /\ pc' = "checkPort" /\ conn'.len = frame.len /\ conn'.prev = conn.prev
        /\ UNCHANGED <<asked, frame, srv>>
    BY <1>0, <1>9 DEF TakeLen, Conns
  <2>2. /\ Sent(asked, srv[asked].long, frame) /\ conn.prev =< Rank(frame) /\ asked \in Files
    BY <1>0, <2>1 DEF OrderInv, Held, Looking, Transferring, Sessions
  <2>3. ASSUME frame.len = "short" PROVE conn.prev = 0 \/ Rank(frame) = Size[asked]
    <3>1. CASE frame.op = "DATA"
      <4>1. /\ LenOf(frame.data) = "short" /\ frame.data = <<asked, frame.blk>>
            /\ frame.blk \in 1 .. Size[asked] /\ Size[asked] \in Nat
        BY <2>2, <2>3, <3>1, SizeType DEF Sent
      <4>2. ~(frame.blk < Size[asked])
        BY <4>1 DEF LenOf
      <4> QED
        BY <3>1, <4>1, <4>2 DEF Rank
    <3>2. CASE frame.op # "DATA"
      BY <1>0, <2>2, <3>2 DEF Rank
    <3> QED
      BY <3>1, <3>2
  <2>4. srv[asked].long => frame.len = "long"
    BY <2>2 DEF Sent
  <2> QED
    BY <2>1, <2>3, <2>4 DEF LookInv, Looking, Ending, Pending, Acking
<1>10. CASE PortKnown \/ PortNew \/ UnknownTid \/ DataPacket \/ BadPacket
  <2>1. UNCHANGED <<asked, frame, srv, conn>>
    BY <1>10 DEF PortKnown, PortNew, UnknownTid, DataPacket, BadPacket
  <2> QED
    BY <1>c, <1>10, <2>1 DEF PortKnown, PortNew, UnknownTid, DataPacket, BadPacket, Looking, Ending,
                             Pending, Acking
<1>11. CASE LatchPort
  <2>1. conn'.prev = conn.prev /\ conn'.len = conn.len
    BY <1>0, <1>11 DEF LatchPort, Conns
  <2> QED
    BY <1>c, <1>11, <2>1 DEF LatchPort, Looking, Ending, Pending, Acking
<1>12. CASE OptionAck \/ OldBlock
  <2>1. pc' = "ackOp" /\ conn'.then = "clearRecv"
    BY <1>0, <1>12 DEF OptionAck, OldBlock, Conns
  <2> QED
    BY <2>1 DEF LookInv, Looking, Pending, Acking, Ending
<1>13. CASE NewBlock
  <2>1. /\ pc = "readBlock" /\ UNCHANGED <<srv, asked, frame>>
        /\ pc' = IF conn.len \in {"short", "full"} THEN "count" ELSE "fail"
        /\ conn'.prev = conn.prev + 1 /\ frame.blk = conn.prev + 1 /\ conn'.len = conn.len
        /\ conn'.then = IF conn.len = "full" THEN "clearRecv" ELSE "finish"
    BY <1>0, <1>13 DEF NewBlock, Conns
  <2>2. CASE pc' = "fail"
    BY <1>d, <2>2 DEF Transferring, Pending
  <2>3. CASE pc' = "count"
    <3>1. conn'.then = "finish" => conn.len = "short"
      BY <2>1, <2>3
    <3>2. Looking /\ Transferring
      BY <2>1 DEF Looking, Transferring
    <3>3. Rank(frame) = conn'.prev
      BY <1>0, <2>1, <3>2, RankType DEF LookInv
    <3>4. conn.len = "short" => conn'.prev \in {1, Size[asked]}
      BY <1>0, <2>1, <3>2, <3>3 DEF LookInv
    <3> QED
      BY <2>1, <2>3, <3>1, <3>4 DEF LookInv, Looking, Pending, Acking, Ending
  <2> QED
    BY <2>1, <2>2, <2>3
<1>14. CASE Count \/ Sum
  BY <1>a, <1>14 DEF Count, Sum, Looking, Ending, Pending, Acking, Transferring
<1>15. CASE Write
  BY <1>a, <1>15 DEF Write, Looking, Ending, Pending, Acking, Transferring
<1>16. CASE AckOp \/ AckBlock \/ BuildError
  BY <1>a, <1>16 DEF AckOp, AckBlock, BuildError, Looking, Ending, Pending, Acking, Transferring
<1>17. CASE SendAck
  BY <1>0, <1>a, <1>17 DEF SendAck, Looking, Ending, Pending, Acking, Transferring
<1> QED
  BY <1>1, <1>2, <1>3, <1>4, <1>5, <1>6, <1>7, <1>8, <1>9, <1>10, <1>11, <1>12, <1>13, <1>14,
     <1>15, <1>16, <1>17 DEF Next, Task, Network, Examine

-----------------------------------------------------------------------------
(* What was summed and written. *)

\* the blocks of this transfer that were added to the check sum
Summed == IF pc \in {"count", "sum"} THEN conn.prev - 1 ELSE conn.prev

PageInv ==
  Transferring =>
    /\ ~torn => \A n \in 1 .. Len(image.flash) : image.flash[n] = <<asked, n>>
    /\ Summed > 0 => image.head[1] = asked
    /\ \A x \in Parts : image.sum[x] # 0 => x[1][1] = asked /\ x[1][2] \in 1 .. Summed
    /\ Ending /\ conn.prev = 1 /\ Summed = 1 =>
         \A x \in Parts : image.sum[x] # 0 => x[2] = "short"

PageIInv == LineIInv /\ OneInv /\ PageInv

\* While a block is stored, the buffer holds that block.
LEMMA PendingFrame ==
  ASSUME LineIInv, Pending
  PROVE  frame.data = <<asked, conn.prev>> /\ asked \in Files /\ conn.prev \in 1 .. Size[asked]
<1>1. Held /\ Transferring /\ Handled + 1 = conn.prev /\ conn.prev > 0 /\ conn.prev \in Nat
  BY LineTypes DEF Held, Transferring, Handled, SizeInv
<1>2. asked \in Files
  BY <1>1, LineTypes DEF Sessions
<1>3. /\ Sent(asked, srv[asked].long, frame) /\ conn.prev =< Rank(frame) /\ Rank(frame) =< conn.prev
      /\ Rank(frame) \in Nat
  BY <1>1, LineTypes, RankType DEF OrderInv
<1>4. Rank(frame) = conn.prev
  BY <1>1, <1>3
<1> QED
  BY <1>1, <1>2, <1>3, <1>4, LineTypes, RankType DEF Sent

LEMMA PageStep ==
  ASSUME PageIInv, [Next]_vars
  PROVE  PageInv'
<1>0. /\ LineIInv /\ SizeInv /\ OneInv /\ PageInv /\ LookInv
      /\ conn \in Conns /\ image \in Images /\ frame \in Packet /\ conn.prev \in Nat
      /\ Len(image.flash) \in Nat /\ conn.then \in {"clearRecv", "finish"}
  BY LineTypes DEF PageIInv
<1>a. ASSUME UNCHANGED <<image, torn, asked>>, conn'.prev = conn.prev, Summed' = Summed,
             Transferring' => Transferring, Ending' => Ending
      PROVE  PageInv'
  BY <1>0, <1>a DEF PageInv
<1>d. ASSUME ~Transferring' PROVE PageInv'
  BY <1>d DEF PageInv
<1> USE DEF Step, webVars, taskVars, devVars, ExamineUnchanged
<1>1. CASE UpdateCgi \/ (\E h \in Hosts : HttpAccept(h)) \/ Network \/ UNCHANGED vars
  <2>1. UNCHANGED <<image, torn, asked, pc, conn>>
    BY <1>1 DEF UpdateCgi, HttpAccept, Network, Receive, LosePacket, Transmit, Refuse, vars
  <2> QED
    BY <1>a, <2>1 DEF Summed, Transferring, Pending, Acking, Ending
<1>2. CASE ClearStart \/ PendStart \/ UpdateInit \/ Delay
  BY <1>d, <1>2 DEF ClearStart, PendStart, UpdateInit, Delay, Transferring, Pending
<1>3. CASE BuildRequest
  <2>1. /\ pc = "request" /\ pc' = "measure" /\ UNCHANGED <<image, conn>>
    BY <1>3 DEF BuildRequest
  <2>2. /\ image.sum = NoSum /\ Len(image.flash) = 0 /\ conn.prev = 0
    BY <1>0, <2>1, EmptySeq DEF OneInv, SizeInv
  <2> QED
    BY <2>1, <2>2 DEF PageInv, Summed, Ending, Pending, Acking, NoSum
<1>4. CASE MeasureRequest \/ SendRequest \/ ClearRecv \/ PendRecv
  BY <1>a, <1>4 DEF MeasureRequest, SendRequest, ClearRecv, PendRecv, Summed, Transferring,
                    Pending, Acking, Ending
<1>5. CASE RecvTimeout \/ TooLarge \/ BlockError \/ SendError \/ FinishRefused \/ ForgetName
           \/ ReportFailure \/ Finish \/ Reset
  BY <1>d, <1>5 DEF RecvTimeout, TooLarge, BlockError, SendError, FinishRefused, ForgetName,
                    ReportFailure, Finish, Reset, Transferring, Pending
<1>6. CASE TakeLen \/ LatchPort \/ OptionAck \/ OldBlock
  <2>1. /\ conn'.prev = conn.prev /\ UNCHANGED <<image, torn, asked>>
        /\ pc \in {"takeLen", "latchPort", "readOp", "readBlock"}
        /\ pc' \in {"checkPort", "readOp"} \/ (pc' = "ackOp" /\ conn'.then = "clearRecv")
    BY <1>0, <1>6 DEF TakeLen, LatchPort, OptionAck, OldBlock, Conns
  <2> QED
    BY <1>a, <2>1 DEF Summed, Transferring, Pending, Acking, Ending
<1>7. CASE PortKnown \/ PortNew \/ UnknownTid \/ DataPacket
  BY <1>a, <1>7 DEF PortKnown, PortNew, UnknownTid, DataPacket, Summed, Transferring, Pending,
                    Acking, Ending
<1>8. CASE BadPacket
  BY <1>a, <1>d, <1>8 DEF BadPacket, Summed, Transferring, Pending, Acking, Ending
<1>9. CASE NewBlock
  <2>1. /\ pc = "readBlock" /\ UNCHANGED <<image, torn, asked>>
        /\ pc' = IF conn.len \in {"short", "full"} THEN "count" ELSE "fail"
        /\ conn'.prev = conn.prev + 1
    BY <1>0, <1>9 DEF NewBlock, Conns
  <2>2. CASE pc' = "fail"
    BY <1>d, <2>2 DEF Transferring, Pending
  <2>3. CASE pc' = "count"
    <3>1. Transferring /\ Summed' = Summed /\ (conn'.prev = 1 => Summed' = 0)
      BY <1>0, <2>1, <2>3 DEF Transferring, Summed
    <3> QED
      BY <1>0, <2>1, <3>1 DEF PageInv
  <2> QED
    BY <2>1, <2>2, <2>3
<1>10. CASE Count
  BY <1>a, <1>10 DEF Count, Summed, Transferring, Pending, Acking, Ending
<1>11. CASE Sum
  <2> DEFINE part == <<frame.data, conn.len>>
  <2>1. /\ pc = "sum" /\ pc' = "write" /\ UNCHANGED <<torn, asked, conn>>
        /\ image'.flash = image.flash
        /\ image'.head = (IF SumIsZero THEN frame.data ELSE image.head)
        /\ image'.sum = [image.sum EXCEPT ![part] = image.sum[part] + 1]
    BY <1>0, <1>11 DEF Sum, Images
  <2>2. /\ Transferring /\ Pending /\ Summed = conn.prev - 1 /\ Summed' = conn.prev
        /\ (Ending' <=> Ending) /\ conn.prev > 0
    BY <1>0, <2>1 DEF Transferring, Pending, Summed, Ending, Acking, SizeInv
  <2>3. frame.data = <<asked, conn.prev>> /\ image.sum \in [Parts -> Nat]
    BY <1>0, <2>2, PendingFrame DEF Images
  <2>4. image'.head[1] = asked
    <3>1. CASE SumIsZero
      BY <2>1, <2>3, <3>1
    <3>2. CASE ~SumIsZero
      <4>1. PICK x \in Parts : image.sum[x] # 0
        BY <3>2 DEF SumIsZero
      <4>2. Summed > 0
        BY <1>0, <2>2, <4>1 DEF PageInv
      <4> QED
        BY <1>0, <2>1, <2>2, <3>2, <4>2 DEF PageInv
    <3> QED
      BY <3>1, <3>2
  <2>5. ASSUME NEW x \in Parts, image'.sum[x] # 0
        PROVE  /\ x = part \/ image.sum[x] # 0
               /\ x[1][1] = asked /\ x[1][2] \in 1 .. conn.prev
    <3>1. CASE x = part
      BY <1>0, <2>2, <2>3, <3>1
    <3>2. CASE x # part
      <4> HIDE DEF part
      <4>1. image.sum[x] # 0
        BY <2>1, <2>3, <2>5, <3>2
      <4>2. x[1][1] = asked /\ x[1][2] \in 1 .. conn.prev - 1
        BY <1>0, <2>2, <4>1 DEF PageInv
      <4> QED
        BY <1>0, <4>1, <4>2
    <3> QED
      BY <3>1, <3>2
  <2>6. ASSUME Ending, conn.prev = 1, NEW x \in Parts, image'.sum[x] # 0
        PROVE  x[2] = "short"
    <3>1. conn.len = "short"
      BY <1>0, <2>1, <2>2, <2>6 DEF SizeInv, Ending, Acking
    <3>2. image.sum[x] = 0
      <4>1. Summed = 0
        BY <2>2, <2>6
      <4>2. image.sum[x] # 0 => x[1][2] \in 1 .. Summed
        BY <1>0, <2>2 DEF PageInv
      <4> QED
        BY <4>1, <4>2
    <3>3. x = part
      BY <2>5, <2>6, <3>2
    <3> QED
      BY <3>1, <3>3
  <2> HIDE DEF part
  <2> QED
    BY <1>0, <2>1, <2>2, <2>4, <2>5, <2>6 DEF PageInv
<1>12. CASE Write
  <2>1. /\ pc = "write" /\ pc' = "ackOp" /\ UNCHANGED <<asked, conn>>
        /\ image'.sum = image.sum /\ image'.head = image.head
        /\ ~torn' => ~torn /\ image'.flash = Append(image.flash, frame.data)
    BY <1>0, <1>12 DEF Write, Images
  <2>2. Transferring /\ Pending /\ Summed' = Summed /\ (Ending' <=> Ending)
    BY <2>1 DEF Transferring, Pending, Summed, Ending, Acking
  <2>3. frame.data = <<asked, conn.prev>> /\ (~torn => Len(image.flash) + 1 = conn.prev)
    BY <1>0, <2>1, <2>2, PendingFrame DEF SizeInv, Handled, Pending, Counts
  <2>4. ASSUME ~torn', NEW n \in 1 .. Len(image'.flash)
        PROVE  image'.flash[n] = <<asked, n>>
    <3>1. /\ image.flash \in Seq(Data) /\ frame.data \in Data /\ ~torn
          /\ image'.flash = Append(image.flash, frame.data)
      BY <1>0, <2>1, <2>4 DEF Images, Packet
    <3>2. \/ n \in 1 .. Len(image.flash) /\ image'.flash[n] = image.flash[n]
          \/ n = Len(image.flash) + 1 /\ image'.flash[n] = frame.data
      BY <2>4, <3>1, AppendKeeps
    <3> QED
      BY <1>0, <2>2, <2>3, <3>1, <3>2 DEF PageInv
  <2> QED
    BY <1>0, <2>1, <2>2, <2>4 DEF PageInv
<1>13. CASE AckOp \/ AckBlock \/ BuildError
  BY <1>a, <1>13 DEF AckOp, AckBlock, BuildError, Summed, Transferring, Pending, Acking, Ending
<1>14. CASE SendAck
  BY <1>0, <1>a, <1>14 DEF SendAck, Summed, Transferring, Pending, Acking, Ending
<1> QED
  BY <1>1, <1>2, <1>3, <1>4, <1>5, <1>6, <1>7, <1>8, <1>9, <1>10, <1>11, <1>12, <1>13, <1>14
     DEF Next, Task, Examine

LEMMA PageInit == Init => PageIInv
<1> SUFFICES ASSUME Init PROVE PageInv
  BY LineInit, OneInit DEF PageIInv, OneIInv
<1> QED
  BY DEF Init, PageInv, Transferring, Pending

LEMMA PageIStep ==
  ASSUME InOrder, PageIInv, [Next]_vars
  PROVE  PageIInv'
<1>1. LineIInv /\ AckIInv /\ OneIInv
  BY DEF PageIInv, LineIInv, AckIInv, OneIInv
<1> QED
  BY <1>1, AckIStep, LineStep, OrderStep, LookStep, OneStep, PageStep
     DEF PageIInv, LineIInv

\* Every file of more than one block has a block that the check sum depends on.
Weighty == \A f \in Files : Size[f] > 1 => Weighed(f) # {}

\* The check of the file head accepts nothing but the whole file: what ends
\* the transfer is its last block, or the first one taken for a short one.
LEMMA FinishedFile ==
  ASSUME Weighty, PageIInv, Finish
  PROVE  /\ asked \in Files /\ image.head[1] = asked /\ conn.prev = Size[asked]
         /\ ~torn => image.flash = Whole(asked)
<1>0. /\ SizeInv /\ LookInv /\ PageInv /\ pc = "finish" /\ conn.prev \in Nat
      /\ HeadChecks /\ image \in Images /\ Transferring /\ asked \in Files
      /\ Len(image.flash) \in Nat
  <2>1. pc = "finish" /\ HeadChecks /\ PageInv /\ LineIInv
    BY DEF Finish, Step, PageIInv
  <2>2. Transferring
    BY <2>1 DEF Transferring
  <2> QED
    BY <2>1, <2>2, LineTypes DEF Sessions
<1>1. /\ conn.prev \in {1, Size[asked]} /\ Summed = conn.prev /\ Handled = conn.prev /\ Ending
      /\ Size[asked] \in Nat \ {0} /\ Counts
  BY <1>0, SizeType DEF LookInv, Ending, Summed, Handled, Pending, Counts
<1>2. image.head[1] = asked
  BY <1>0, <1>1 DEF PageInv
<1>3. conn.prev = Size[asked]
  <2> SUFFICES ASSUME conn.prev = 1, Size[asked] > 1 PROVE FALSE
    BY <1>1
  <2>1. PICK n \in Weighed(asked) : TRUE
    BY <1>0 DEF Weighty
  <2> DEFINE d == IF n = 1 THEN <<asked, 1>> ELSE <<asked, n>>
             x == <<d, LenOf(d)>>
  <2>2. /\ d = <<asked, n>> /\ n \in 1 .. Size[asked] /\ n \notin ZeroBlocks
        /\ LenOf(d) \in {"short", "full"} /\ d \in Data
    BY <1>0, TftpConstants DEF Weighed, LenOf, Pieces, Data
  <2>3. x \in Parts /\ SumOf(asked)[x] = 1
    BY <2>2 DEF Parts, SumOf
  <2>4. image.sum[x] = 1
    BY <1>0, <1>2, <2>2, <2>3 DEF HeadChecks, SameSum
  <2>5. n \in 1 .. 1 /\ LenOf(d) = "short"
    BY <1>0, <1>1, <2>2, <2>3, <2>4 DEF PageInv
  <2>6. LenOf(d) = "full"
    BY <2>2, <2>5 DEF LenOf
  <2> QED
    BY <2>5, <2>6
<1>4. ASSUME ~torn PROVE image.flash = Whole(asked)
  <2>1. Len(image.flash) = Size[asked]
    BY <1>0, <1>1, <1>3, <1>4 DEF SizeInv
  <2>2. \A n \in 1 .. Len(image.flash) : image.flash[n] = <<asked, n>>
    BY <1>0, <1>4 DEF PageInv
  <2>3. image.flash \in Seq(Data)
    BY <1>0 DEF Images
  <2>4. image.flash = [n \in 1 .. Len(image.flash) |-> image.flash[n]]
    BY <2>3, SeqDef
  <2> QED
    BY <2>1, <2>2, <2>4 DEF Whole
<1> QED
  BY <1>0, <1>2, <1>3, <1>4

DoneInv ==
  update # NoUpdate =>
    pc \in {"reset", "off"} /\ update.file = asked /\ (~torn => image.flash = Whole(asked))

LEMMA DoneStep ==
  ASSUME Weighty, PageIInv, DoneInv, [Next]_vars
  PROVE  DoneInv'
<1>0. conn.then \in {"clearRecv", "finish"}
  BY LineTypes DEF PageIInv
<1>a. ASSUME pc \notin {"reset", "off"}, UNCHANGED update PROVE DoneInv'
  BY <1>a DEF DoneInv
<1>b. ASSUME UNCHANGED <<update, asked, torn, image>>, pc' = pc \/ pc' = "off" PROVE DoneInv'
  BY <1>b DEF DoneInv
<1> USE DEF Step, webVars, taskVars, devVars, ExamineUnchanged
<1>1. CASE Finish
  <2>1. /\ pc' = "reset" /\ update'.file = image.head[1] /\ UNCHANGED <<asked, torn, image>>
    BY <1>1 DEF Finish
  <2>2. Whole(asked)' = Whole(asked)
    BY <2>1 DEF Whole
  <2> QED
    BY <1>1, <2>1, <2>2, FinishedFile DEF DoneInv
<1>2. CASE Reset \/ UpdateCgi \/ (\E h \in Hosts : HttpAccept(h)) \/ Network \/ UNCHANGED vars
  BY <1>b, <1>2 DEF Reset, UpdateCgi, HttpAccept, Network, Receive, LosePacket, Transmit, Refuse, vars
<1>3. CASE ClearStart \/ PendStart \/ UpdateInit \/ Delay \/ BuildRequest \/ MeasureRequest \/ SendRequest
  BY <1>a, <1>3 DEF ClearStart, PendStart, UpdateInit, Delay, BuildRequest, MeasureRequest, SendRequest
<1>4. CASE ClearRecv \/ PendRecv \/ RecvTimeout \/ Count \/ TooLarge \/ Sum \/ Write
  BY <1>a, <1>4 DEF ClearRecv, PendRecv, RecvTimeout, Count, TooLarge, Sum, Write
<1>5. CASE Examine
  BY <1>a, <1>5 DEF Examine, TakeLen, PortKnown, PortNew, LatchPort, UnknownTid, BadPacket,
                    OptionAck, DataPacket, BlockError, OldBlock, NewBlock
<1>6. CASE AckOp \/ AckBlock \/ SendAck \/ BuildError \/ SendError
  BY <1>a, <1>6 DEF AckOp, AckBlock, SendAck, BuildError, SendError
<1>7. CASE FinishRefused \/ ForgetName \/ ReportFailure
  BY <1>a, <1>7 DEF FinishRefused, ForgetName, ReportFailure
<1> QED
  BY <1>1, <1>2, <1>3, <1>4, <1>5, <1>6, <1>7 DEF Next, Task

\* With packets in order and sessions that end before the next request, what
\* is marked is the file that was requested, and the flash holds its blocks
\* once and in order if it wrote whole pages, whatever is lost or repeated and
\* whichever packet comes while another one is looked at or stored; the
\* clicks, the lengths of the blocks and the acknowledgements included
\* (92-126, 275-333, 357-462).
THEOREM FlashHoldsRequestedFile ==
  ASSUME InOrder, Weighty
  PROVE  Spec => []FlashIsRequestedFile
<1>1. Init => DoneInv
  BY DEF Init, DoneInv
<1>2. DoneInv => FlashIsRequestedFile
  BY DEF DoneInv, FlashIsRequestedFile
<1>3. PageIInv /\ DoneInv /\ [Next]_vars => PageIInv' /\ DoneInv'
  BY PageIStep, DoneStep
<1> QED
  BY <1>1, <1>2, <1>3, PageInit, PTL DEF Spec

-----------------------------------------------------------------------------
(***************************************************************************)
(* The refinement of UpdateService.                                        *)
(***************************************************************************)
LEMMA ServiceInit == Init => Service!Init
  BY DEF Init, Service!Init, Service!NoFile, Service!Nothing, NoFile, NoUpdate, PhaseOf, Taken,
         Stored, Counts, Transferring, Pending

\* Each step of the device is a step of the service or none.
LEMMA ServiceStep ==
  ASSUME Weighty, PageIInv, StartInv, [Next]_vars
  PROVE  [Service!Next]_(Service!vars)
<1>0. /\ LineIInv /\ SizeInv /\ FreshInv /\ StartInv
      /\ conn \in Conns /\ image \in Images /\ frame \in Packet /\ conn.prev \in Nat
      /\ conn.then \in {"clearRecv", "finish"} /\ fileLen \in Nat
      /\ clicks \in 0 .. Len(Size) /\ Len(Size) \in Nat
  BY LineTypes, TftpConstants, LenProperties
     DEF PageIInv, TypeInv, TypeOK, SharedOK
<1> USE DEF Step, webVars, taskVars, devVars, ExamineUnchanged
\* a step that no user notices
<1>a. ASSUME UNCHANGED <<filename, status, asked, overlapped, update, torn>>,
             PhaseOf' = PhaseOf, Taken' = Taken, Stored' = Stored
      PROVE  UNCHANGED Service!vars
  BY <1>a DEF Service!vars
\* ... of the task in a transfer
<1>b. ASSUME Transferring, Transferring', Handled' = Handled, image'.flash = image.flash,
             UNCHANGED <<filename, status, asked, overlapped, update, torn>>
      PROVE  UNCHANGED Service!vars
  BY <1>a, <1>b DEF PhaseOf, Taken, Stored, Counts
\* ... of the task between two transfers
<1>c. ASSUME pc \in {"clearStart", "pendStart", "init", "delay"},
             pc' \in {"pendStart", "init", "delay", "request"},
             UNCHANGED <<filename, status, asked, overlapped, update, torn>>
      PROVE  UNCHANGED Service!vars
  BY <1>a, <1>c DEF PhaseOf, Taken, Stored, Counts, Transferring, Pending
\* a transfer that fails
<1>d. ASSUME Transferring, pc' = "fail",
             UNCHANGED <<filename, status, asked, overlapped, update, torn>>
      PROVE  Service!Next
  <2>1. PhaseOf = "loading" /\ PhaseOf' = "failing" /\ Taken' = 0 /\ Stored' = <<>>
    BY <1>d DEF PhaseOf, Taken, Stored, Counts, Transferring, Pending
  <2> QED
    BY <1>d, <2>1 DEF Service!GiveUp, Service!Move, Service!Next
<1>1. CASE UpdateCgi
  <2>1. /\ pc # "off" /\ filename' = clicks + 1 /\ clicks + 1 \in 1 .. Len(Size)
        /\ status' = "doing" /\ overlapped' = (overlapped \/ Transferring)
        /\ UNCHANGED <<pc, conn, image, asked, update, torn>>
    BY <1>0, <1>1 DEF UpdateCgi
  <2>2. /\ PhaseOf # "off" /\ (PhaseOf = "loading" <=> Transferring)
        /\ PhaseOf' = PhaseOf /\ Taken' = Taken /\ Stored' = Stored
    BY <2>1 DEF PhaseOf, Taken, Stored, Counts, Transferring, Pending, Handled
  <2>3. overlapped' = (overlapped \/ PhaseOf = "loading")
    BY <2>1, <2>2, Zenon
  <2>4. Service!Click(clicks + 1)
    BY <2>1, <2>2, <2>3 DEF Service!Click
  <2> QED
    BY <2>1, <2>4 DEF Service!Next
<1>2. CASE Network \/ (\E h \in Hosts : HttpAccept(h)) \/ UNCHANGED vars
  <2>1. UNCHANGED <<pc, conn, image, filename, status, asked, overlapped, update, torn>>
    BY <1>2 DEF Network, Transmit, Refuse, Receive, LosePacket, HttpAccept, vars
  <2>2. PhaseOf' = PhaseOf /\ Taken' = Taken /\ Stored' = Stored
    BY <2>1 DEF PhaseOf, Taken, Stored, Counts, Transferring, Pending, Handled
  <2> QED
    BY <1>a, <2>1, <2>2
<1>3. CASE ClearStart \/ PendStart \/ UpdateInit \/ Delay
  BY <1>c, <1>3 DEF ClearStart, PendStart, UpdateInit, Delay
<1>4. CASE BuildRequest
  <2>1. /\ pc = "request" /\ pc' = "measure" /\ asked' = filename /\ torn' = FALSE
        /\ UNCHANGED <<filename, status, overlapped, update, image, conn>>
    BY <1>4 DEF BuildRequest
  <2>2. filename # NoFile /\ image.flash = <<>> /\ conn.prev = 0
    BY <1>0, <2>1 DEF StartInv, SizeInv
  <2>3. /\ PhaseOf = "idle" /\ PhaseOf' = "loading" /\ Taken' = 0 /\ Taken = 0
        /\ Stored' = <<>> /\ Stored = <<>>
    BY <2>1, <2>2 DEF PhaseOf, Taken, Stored, Counts, Transferring, Pending, Handled
  <2> QED
    BY <2>1, <2>2, <2>3 DEF Service!Start, Service!Move, Service!NoFile, NoFile, Service!Next
<1>5. CASE MeasureRequest \/ SendRequest \/ ClearRecv \/ PendRecv
  BY <1>b, <1>5 DEF MeasureRequest, SendRequest, ClearRecv, PendRecv, Transferring, Pending, Handled
<1>6. CASE RecvTimeout \/ TooLarge \/ BlockError \/ SendError \/ FinishRefused
  BY <1>d, <1>6 DEF RecvTimeout, TooLarge, BlockError, SendError, FinishRefused, Transferring, Pending
<1>7. CASE TakeLen \/ LatchPort \/ OptionAck \/ OldBlock
  <2>1. conn'.prev = conn.prev
    BY <1>0, <1>7 DEF TakeLen, LatchPort, OptionAck, OldBlock, Conns
  <2> QED
    BY <1>b, <1>7, <2>1 DEF TakeLen, LatchPort, OptionAck, OldBlock, Transferring, Pending, Handled
<1>8. CASE PortKnown \/ PortNew \/ UnknownTid \/ DataPacket
  BY <1>b, <1>8 DEF PortKnown, PortNew, UnknownTid, DataPacket, Transferring, Pending, Handled
<1>9. CASE BadPacket
  BY <1>b, <1>d, <1>9 DEF BadPacket, Transferring, Pending, Handled
<1>10. CASE NewBlock
  <2>1. /\ pc = "readBlock" /\ pc' = IF conn.len \in {"short", "full"} THEN "count" ELSE "fail"
        /\ conn'.prev = conn.prev + 1
        /\ UNCHANGED <<filename, status, asked, overlapped, update, torn, image>>
    BY <1>0, <1>10 DEF NewBlock, Conns
  <2>2. CASE pc' = "count"
    <3>1. Transferring /\ Transferring' /\ Handled' = Handled
      BY <1>0, <2>1, <2>2 DEF Transferring, Pending, Handled
    <3> QED
      BY <1>b, <2>1, <3>1
  <2>3. CASE pc' = "fail"
    BY <1>d, <2>1, <2>3 DEF Transferring
  <2> QED
    BY <2>1, <2>2, <2>3
<1>11. CASE Count
  BY <1>b, <1>11 DEF Count, Transferring, Pending, Handled
<1>12. CASE Sum
  <2>1. image'.flash = image.flash
    BY <1>0, <1>12 DEF Sum, Images
  <2> QED
    BY <1>b, <1>12, <2>1 DEF Sum, Transferring, Pending, Handled
<1>13. CASE Write
  <2>1. /\ pc = "write" /\ pc' = "ackOp"
        /\ UNCHANGED <<filename, status, asked, overlapped, update, conn>>
        /\ \/ image'.flash = Append(image.flash, frame.data) /\ torn' = torn
           \/ image'.flash \in {image.flash, Append(image.flash, NoPiece)} /\ torn' = TRUE
    BY <1>0, <1>13 DEF Write, Images
  <2>2. /\ Pending /\ PhaseOf = "loading" /\ PhaseOf' = PhaseOf
        /\ Taken = conn.prev - 1 /\ Taken' = conn.prev
        /\ Stored = image.flash /\ Stored' = image'.flash
    BY <2>1 DEF PhaseOf, Taken, Stored, Counts, Transferring, Pending, Handled
  <2>3. /\ frame.data = <<asked, conn.prev>> /\ conn.prev \in 1 .. Size[asked] /\ Size[asked] \in Nat
    BY <1>0, <2>2, PendingFrame, SizeType
  <2>4. Taken < Size[asked] /\ Taken' = Taken + 1 /\ frame.data = <<asked, Taken + 1>>
    BY <1>0, <2>2, <2>3
  <2>5. NoPiece = Service!Fragment
    BY DEF NoPiece, Service!Fragment, Service!NoFile, NoFile
  <2>6. Service!Store
    BY <2>1, <2>2, <2>4, <2>5 DEF Service!Store
  <2> QED
    BY <2>6 DEF Service!Next
<1>14. CASE AckOp \/ AckBlock \/ SendAck \/ BuildError
  BY <1>0, <1>b, <1>14 DEF AckOp, AckBlock, SendAck, BuildError, Transferring, Pending, Handled
<1>15. CASE Finish
  <2>1. /\ pc = "finish" /\ pc' = "reset" /\ status' = "succeed"
        /\ update' = [file |-> image.head[1], size |-> fileLen]
        /\ UNCHANGED <<filename, asked, overlapped, image, conn, torn>>
    BY <1>15 DEF Finish
  <2>2. /\ PhaseOf = "loading" /\ PhaseOf' = "done" /\ Taken = conn.prev /\ Taken' = conn.prev
        /\ Stored' = Stored
    BY <2>1 DEF PhaseOf, Taken, Stored, Counts, Transferring, Pending, Handled
  <2>3. image.head[1] = asked /\ conn.prev = Size[asked]
    BY <1>15, FinishedFile
  <2>4. fileLen \in 0 .. conn.prev /\ (fileLen = conn.prev \/ overlapped)
    BY <1>0, <2>1 DEF SizeInv, Counted, Transferring, Pending
  <2>5. Service!Install
    BY <2>1, <2>2, <2>3, <2>4 DEF Service!Install, Service!Move
  <2> QED
    BY <2>5 DEF Service!Next
<1>16. CASE ForgetName
  <2>1. /\ pc = "fail" /\ pc' = "failed" /\ filename' = NoFile
        /\ UNCHANGED <<status, asked, overlapped, update, torn>>
    BY <1>16 DEF ForgetName
  <2>2. PhaseOf = "failing" /\ PhaseOf' = "failed" /\ Taken' = Taken /\ Stored' = Stored
    BY <2>1 DEF PhaseOf, Taken, Stored, Counts, Transferring, Pending
  <2> QED
    BY <2>1, <2>2 DEF Service!Forget, Service!Move, Service!NoFile, NoFile, Service!Next
<1>17. CASE ReportFailure
  <2>1. /\ pc = "failed" /\ pc' = "clearStart" /\ status' = "failed" /\ overlapped' = FALSE
        /\ UNCHANGED <<filename, asked, update, torn>>
    BY <1>17 DEF ReportFailure
  <2>2. PhaseOf = "failed" /\ PhaseOf' = "idle" /\ Taken' = Taken /\ Stored' = Stored
    BY <2>1 DEF PhaseOf, Taken, Stored, Counts, Transferring, Pending
  <2> QED
    BY <2>1, <2>2 DEF Service!Report, Service!Move, Service!Next
<1>18. CASE Reset
  <2>1. /\ pc = "reset" /\ pc' = "off" /\ status' = "empty"
        /\ UNCHANGED <<filename, asked, overlapped, update, image, conn, torn>>
    BY <1>18 DEF Reset
  <2>2. PhaseOf = "done" /\ PhaseOf' = "off" /\ Taken' = Taken /\ Stored' = Stored
    BY <2>1 DEF PhaseOf, Taken, Stored, Counts, Transferring, Pending, Handled
  <2> QED
    BY <2>1, <2>2 DEF Service!Restart, Service!Move, Service!Next
<1> QED
  BY <1>1, <1>2, <1>3, <1>4, <1>5, <1>6, <1>7, <1>8, <1>9, <1>10, <1>11, <1>12, <1>13, <1>14,
     <1>15, <1>16, <1>17, <1>18 DEF Next, Task, Examine

\* Every behaviour of the firmware update with packets in order is a behaviour
\* of the service its users know, whatever is lost, repeated, refused, mixed
\* or clicked meanwhile and whatever the flash stores of a page
\* (tftp_client.c 92-126, 275-333, 345-538; webserver_update.c 31-94).
THEOREM UpdateImplementsService ==
  ASSUME InOrder, Weighty
  PROVE  Spec => ServiceSpec
<1> DEFINE IInv == PageIInv /\ StartIInv
<1>1. Init => IInv
  BY PageInit, StartInit
<1>2. IInv /\ [Next]_vars => IInv'
  BY PageIStep, StartStep
<1>3. IInv /\ [Next]_vars => [Service!Next]_(Service!vars)
  BY ServiceStep DEF StartIInv
<1> QED
  BY <1>1, <1>2, <1>3, ServiceInit, PTL DEF Spec, ServiceSpec, Service!Spec

-----------------------------------------------------------------------------
(***************************************************************************)
(* A file whose length is a multiple of TFTP_BLOCK_SIZE ends in an empty   *)
(* packet, and the task finishes only behind a block that was taken for a  *)
(* short one, which no such file has: it is never installed.               *)
(***************************************************************************)
Compared == pc = "finish" \/ ((pc = "write" \/ Acking) /\ conn.then = "finish")
EmptyEndInv ==
  /\ Compared => \E d \in Data : image.sum[<<d, "short">>] # 0
  /\ update = NoUpdate

LEMMA EmptyEndStep ==
  ASSUME LastLen = "empty", ZeroBlocks = {}, SizeIInv, EmptyEndInv, [Next]_vars
  PROVE  EmptyEndInv'
<1>0. /\ SizeInv /\ image \in Images /\ conn \in Conns /\ frame \in Packet
      /\ conn.then \in {"clearRecv", "finish"}
  BY SizeTypes DEF SizeIInv
<1>a. ASSUME UNCHANGED <<update, image>>, Compared' => Compared
      PROVE  EmptyEndInv'
  BY <1>a DEF EmptyEndInv
<1>b. ASSUME UNCHANGED update, pc' # "finish", pc' # "write", ~Acking'
      PROVE  EmptyEndInv'
  BY <1>b DEF EmptyEndInv, Compared
<1> USE DEF Step, webVars, taskVars, devVars, ExamineUnchanged
<1>1. CASE UpdateCgi \/ (\E h \in Hosts : HttpAccept(h)) \/ Network \/ UNCHANGED vars
  <2>1. UNCHANGED <<pc, conn, update, image>>
    BY <1>1 DEF UpdateCgi, HttpAccept, Network, Receive, LosePacket, Transmit, Refuse, vars
  <2> QED
    BY <1>a, <2>1 DEF Compared, Acking
<1>2. CASE ClearStart \/ PendStart \/ UpdateInit \/ Delay \/ BuildRequest \/ MeasureRequest
           \/ SendRequest \/ ClearRecv \/ PendRecv \/ RecvTimeout
  BY <1>b, <1>2 DEF ClearStart, PendStart, UpdateInit, Delay, BuildRequest, MeasureRequest,
                    SendRequest, ClearRecv, PendRecv, RecvTimeout, Acking
<1>3. CASE TakeLen \/ PortKnown \/ PortNew \/ LatchPort \/ UnknownTid \/ BadPacket \/ DataPacket
           \/ BlockError \/ NewBlock
  BY <1>b, <1>3 DEF TakeLen, PortKnown, PortNew, LatchPort, UnknownTid, BadPacket, DataPacket,
                    BlockError, NewBlock, Acking
<1>4. CASE OptionAck \/ OldBlock
  <2>1. pc' = "ackOp" /\ conn'.then = "clearRecv" /\ UNCHANGED update
    BY <1>0, <1>4 DEF OptionAck, OldBlock, Conns
  <2> QED
    BY <2>1, <1>4 DEF EmptyEndInv, Compared, Acking
<1>5. CASE Count \/ TooLarge \/ BuildError \/ SendError \/ FinishRefused \/ ForgetName
           \/ ReportFailure \/ Reset
  BY <1>b, <1>5 DEF Count, TooLarge, BuildError, SendError, FinishRefused, ForgetName,
                    ReportFailure, Reset, Acking
<1>6. CASE Sum
  <2> DEFINE part == <<frame.data, conn.len>>
  <2>1. /\ pc = "sum" /\ pc' = "write" /\ UNCHANGED <<update, conn>>
        /\ image'.sum = [image.sum EXCEPT ![part] = image.sum[part] + 1]
    BY <1>0, <1>6 DEF Sum, Images
  <2>2. conn.len \in {"short", "full"} /\ (conn.then = "finish" => conn.len = "short")
    BY <1>0, <2>1 DEF SizeInv, Pending
  <2>3. /\ frame.data \in Data /\ part \in Parts /\ image.sum \in [Parts -> Nat]
    BY <1>0, <2>2 DEF Packet, Parts, Images
  <2>4. image'.sum[part] # 0
    BY <2>1, <2>3
  <2> QED
    BY <2>1, <2>2, <2>3, <2>4 DEF EmptyEndInv, Compared, Acking
<1>7. CASE Write
  <2>1. /\ pc = "write" /\ pc' = "ackOp" /\ UNCHANGED <<update, conn>> /\ image'.sum = image.sum
    BY <1>0, <1>7 DEF Write, Images
  <2> QED
    BY <2>1 DEF EmptyEndInv, Compared, Acking
<1>8. CASE AckOp \/ AckBlock \/ SendAck
  BY <1>0, <1>a, <1>8 DEF AckOp, AckBlock, SendAck, Compared, Acking
<1>9. CASE Finish
  <2>1. HeadChecks /\ pc = "finish"
    BY <1>9 DEF Finish
  <2>2. PICK d \in Data : image.sum[<<d, "short">>] # 0
    BY <2>1 DEF EmptyEndInv, Compared
  <2>3. <<d, "short">> \in Parts /\ LenOf(d) # "short"
    BY DEF Parts, LenOf
  <2>4. SumOf(image.head[1])[<<d, "short">>] = 0
    BY <2>3 DEF SumOf
  <2>5. image.sum[<<d, "short">>] = 0
    BY <2>1, <2>3, <2>4 DEF HeadChecks, SameSum
  <2> QED
    BY <2>2, <2>5
<1> QED
  BY <1>1, <1>2, <1>3, <1>4, <1>5, <1>6, <1>7, <1>8, <1>9 DEF Next, Task, Examine

\* A file that ends in an empty packet and has no block of zeros is received
\* to its end and never marked for installation, in whatever order its packets
\* come and however they are mixed (439-452, 464-467).
THEOREM EmptyEndIsNeverInstalled ==
  ASSUME LastLen = "empty", ZeroBlocks = {}
  PROVE  Spec => [](update = NoUpdate)
<1>1. Init => EmptyEndInv
  BY DEF Init, EmptyEndInv, Compared, Acking
<1>2. SizeIInv /\ EmptyEndInv /\ [Next]_vars => EmptyEndInv'
  BY EmptyEndStep
<1>3. EmptyEndInv => update = NoUpdate
  BY DEF EmptyEndInv
<1> QED
  BY <1>1, <1>2, <1>3, SizeInit, SizeStep, PTL DEF Spec
=============================================================================
