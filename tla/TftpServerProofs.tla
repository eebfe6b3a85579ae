-------------------------- MODULE TftpServerProofs --------------------------
(***************************************************************************)
(* Theorems about TftpServer, for any number of clients, files, ports and  *)
(* packets, and a network that loses and reorders.                         *)
(***************************************************************************)
EXTENDS TftpServer, SequenceTheorems, FiniteSetTheorems, TLAPS

(***************************************************************************)
(* Packets in transit.                                                     *)
(***************************************************************************)
\* What is left in transit was in transit, in the same order.
LEMMA RemoveAtProperties ==
  ASSUME NEW S, NEW q \in Seq(S), NEW i \in 1 .. Len(q)
  PROVE  /\ RemoveAt(q, i) \in Seq(S) /\ Len(RemoveAt(q, i)) = Len(q) - 1
         /\ \A j \in 1 .. Len(q) - 1 : RemoveAt(q, i)[j] = IF j < i THEN q[j] ELSE q[j + 1]
<1> DEFINE front == SubSeq(q, 1, i - 1)
           back  == SubSeq(q, i + 1, Len(q))
<1>1. Len(q) \in Nat
  BY LenProperties
<1>2. /\ front \in Seq(S) /\ Len(front) = i - 1
      /\ \A j \in 1 .. i - 1 : front[j] = q[j]
  BY <1>1, SubSeqProperties
<1>3. /\ back \in Seq(S) /\ Len(back) = Len(q) - i
      /\ \A j \in 1 .. Len(q) - i : back[j] = q[i + j]
  BY <1>1, SubSeqProperties
<1> HIDE DEF front, back
<1>4. /\ front \o back \in Seq(S) /\ Len(front \o back) = Len(front) + Len(back)
      /\ \A j \in 1 .. Len(front) + Len(back) :
           (front \o back)[j] = IF j =< Len(front) THEN front[j] ELSE back[j - Len(front)]
  BY <1>2, <1>3, ConcatProperties
<1>5. ASSUME NEW j \in 1 .. Len(q) - 1
      PROVE  (front \o back)[j] = IF j < i THEN q[j] ELSE q[j + 1]
  <2>1. CASE j < i
    <3>1. j \in 1 .. i - 1 /\ j \in 1 .. Len(front) + Len(back)
      BY <1>1, <1>2, <1>3, <2>1
    <3> QED
      BY <1>2, <1>4, <2>1, <3>1
  <2>2. CASE ~(j < i)
    <3>1. /\ j - (i - 1) \in 1 .. Len(q) - i /\ j \in 1 .. Len(front) + Len(back)
          /\ i + (j - (i - 1)) = j + 1
      BY <1>1, <1>2, <1>3, <2>2
    <3>2. (front \o back)[j] = back[j - (i - 1)]
      BY <1>2, <1>4, <2>2, <3>1
    <3> QED
      BY <1>3, <2>2, <3>1, <3>2
  <2> QED
    BY <2>1, <2>2
<1>6. Len(front) + Len(back) = Len(q) - 1
  BY <1>1, <1>2, <1>3
<1> QED
  BY <1>4, <1>5, <1>6 DEF RemoveAt, front, back

\* Nothing else is left.
LEMMA RemoveAtKeeps ==
  ASSUME NEW S, NEW q \in Seq(S), NEW i \in 1 .. Len(q), NEW j \in 1 .. Len(RemoveAt(q, i))
  PROVE  \E k \in 1 .. Len(q) : RemoveAt(q, i)[j] = q[k]
<1>1. Len(q) \in Nat /\ j \in 1 .. Len(q) - 1
  BY LenProperties, RemoveAtProperties
<1>2. j \in 1 .. Len(q) /\ j + 1 \in 1 .. Len(q)
  BY <1>1
<1>3. RemoveAt(q, i)[j] = q[j] \/ RemoveAt(q, i)[j] = q[j + 1]
  BY <1>1, RemoveAtProperties
<1> QED
  BY <1>2, <1>3

(***************************************************************************)
(* The inductive invariants.                                               *)
(***************************************************************************)
Base == TypeOK /\ ResourcesAccounted

\* Sessions are told apart by their ids, and nothing is written for a request
\* that has not been made.
IdsOK ==
  /\ \A p \in OpenPorts : sess[p].id =< requests
  /\ \A p, q \in OpenPorts : sess[p].id = sess[q].id => p = q
  /\ \A n \in 1 .. Len(flash) : flash[n].by =< requests

\* What a client sends, and what that says of the client.
ClientOK(c) ==
  /\ client[c].phase \in {"idle", "request"} => client[c].blk = 0
  /\ client[c].phase \in {"data", "done"}
       => client[c].blk \in 1 .. Size[c] /\ client[c].port \in Ports

PacketOK(k) ==
  /\ k.op \in {"WRQ", "RRQ"} => k.to = WellKnown
  /\ k.op = "DATA" => /\ k.blk \in 1 .. Size[k.from]
                      /\ k.len = IF k.blk < Size[k.from] THEN "full" ELSE LastLen[k.from]
  /\ k.op = "ERROR" => /\ k.len = "short" /\ k.blk = 5
                       /\ client[k.from].phase \in {"data", "done", "gone"}
                       /\ k.to # client[k.from].port

SentOK ==
  /\ \A c \in Clients : ClientOK(c)
  /\ \A i \in 1 .. Len(net) : PacketOK(net[i])

\* A client that follows a session knows its port.
FollowOK ==
  \A c \in Clients :
    /\ client[c].id =< requests
    /\ \A q \in OpenPorts : sess[q].id = client[c].id => client[c].port = q

\* The number of blocks of the newest session in the flash.
Count == Cardinality(NewestUpTo(Len(flash)))

\* Client c has had the newest session's acknowledgement for no more than it wrote.
AckedOK ==
  \A c \in Clients :
    client[c].id = requests =>
      /\ client[c].phase = "data" => client[c].blk - 1 =< Count
      /\ client[c].phase = "done" => Len(Stored(c)) =< Count

\* A client that has been answered, but not by the newest session.
Stranger(c) ==
  /\ client[c].phase \in {"data", "done", "gone"} /\ client[c].id # requests
  /\ \A q \in OpenPorts : sess[q].id = requests => client[c].port # q

\* A block that the newest session wrote is the client's block of that number, or
\* the payload of an error packet of a client that does not follow the session.
PayloadOK ==
  \A n \in 1 .. Len(flash) :
    flash[n].by = requests =>
      flash[n].data[2] = flash[n].blk \/ Stranger(flash[n].data[1])

NewestInv == Base /\ IdsOK /\ NewestInOrder
FollowedInv == NewestInv /\ SentOK /\ FollowOK /\ AckedOK /\ PayloadOK

\* Only client c has sent anything, and no packet has overtaken another one.
Alone(c) == ~overtaken /\ \A d \in Clients \ {c} : client[d].phase = "idle"

\* c has not been answered: its packets are requests, and nothing is written.
Requesting(c) ==
  /\ \A i \in 1 .. Len(net) : net[i].op = "WRQ"
  /\ \A p \in OpenPorts : sess[p].block = 0
  /\ flash = <<>>

RequestsFirst(q) ==
  \A i, j \in 1 .. Len(q) : i < j /\ q[j].op = "WRQ" => q[i].op = "WRQ"

\* c follows the session at its port: what it has sent,
FollowerSent(c, k) ==
  /\ k.op # "RRQ"
  /\ k.op = "DATA" => k.to = client[c].port /\ k.blk =< client[c].blk
  /\ k.op = "WRQ" => client[c].port \in OpenPorts /\ flash = <<>>

\* and what has been written: the session has written a prefix of the file, the
\* other sessions nothing, and the session ends with the whole file.
FollowerWrote(c) ==
  /\ \A p \in OpenPorts \ {client[c].port} : sess[p].block = 0
  /\ \A n \in 1 .. Len(flash) : flash[n].data = <<c, n>>
  /\ client[c].blk - 1 =< Len(flash) /\ Len(flash) =< Len(Stored(c))
  /\ IF client[c].port \in OpenPorts
       THEN /\ sess[client[c].port].block = Len(flash) /\ Len(flash) < Size[c]
            /\ client[c].phase = "data"
       ELSE Len(flash) = Len(Stored(c))

\* The requests c has sent are in front of its data.
Following(c) ==
  /\ RequestsFirst(net)
  /\ \A i \in 1 .. Len(net) : FollowerSent(c, net[i])
  /\ FollowerWrote(c)

AloneAt(c) ==
  /\ \A i \in 1 .. Len(net) : net[i].from = c
  /\ client[c].phase = "idle" => net = <<>>
  /\ client[c].phase \in {"idle", "request"} => Requesting(c)
  /\ client[c].phase \in {"data", "done"} => Following(c)

AloneOK == \A c \in Clients : Alone(c) => AloneAt(c)

AloneInv == FollowedInv /\ AloneOK
-----------------------------------------------------------------------------
(***************************************************************************)
(* The ports in use.                                                       *)
(***************************************************************************)
Record == [block : Nat, id : Nat \ {0}]

LEMMA OpenPortsFinite ==
  /\ OpenPorts \subseteq Ports /\ IsFiniteSet(OpenPorts) /\ Cardinality(OpenPorts) \in Nat
<1>1. OpenPorts \subseteq Ports
  BY DEF OpenPorts
<1>2. IsFiniteSet(OpenPorts)
  BY <1>1, FS_Subset, TftpServerConstants
<1> QED
  BY <1>1, <1>2, FS_CardinalityType

\* A session opens at a port that was free.
LEMMA PortOpened ==
  ASSUME TypeOK, NEW p \in FreePorts, NEW x \in Record, sess' = [sess EXCEPT ![p] = x]
  PROVE  /\ OpenPorts' = OpenPorts \cup {p} /\ p \notin OpenPorts
         /\ Cardinality(OpenPorts') = Cardinality(OpenPorts) + 1
<1>1. x # Free
  BY DEF Free, Record
<1>2. p \in Ports /\ p \notin OpenPorts
  BY DEF FreePorts, OpenPorts
<1>3. OpenPorts' = OpenPorts \cup {p}
  BY <1>1, <1>2 DEF OpenPorts, TypeOK
<1> QED
  BY <1>2, <1>3, OpenPortsFinite, FS_AddElement

\* A session ends.
LEMMA PortClosed ==
  ASSUME TypeOK, NEW p \in OpenPorts, sess' = [sess EXCEPT ![p] = Free]
  PROVE  /\ OpenPorts' = OpenPorts \ {p}
         /\ Cardinality(OpenPorts') = Cardinality(OpenPorts) - 1
         /\ Cardinality(OpenPorts) \in Nat \ {0}
<1>1. OpenPorts' = OpenPorts \ {p}
  BY DEF OpenPorts, TypeOK
<1>2. Cardinality(OpenPorts') = Cardinality(OpenPorts) - 1
  BY <1>1, OpenPortsFinite, FS_RemoveElement
<1>3. Cardinality(OpenPorts) # 0
  BY OpenPortsFinite, FS_EmptySet
<1> QED
  BY <1>1, <1>2, <1>3, OpenPortsFinite

\* A session counts its blocks.
LEMMA PortCounts ==
  ASSUME TypeOK, NEW p \in OpenPorts, NEW b \in Nat, sess' = [sess EXCEPT ![p].block = b]
  PROVE  /\ OpenPorts' = OpenPorts
         /\ sess'[p] = [block |-> b, id |-> sess[p].id] /\ sess'[p] \in Record
<1>1. p \in Ports /\ sess[p] \in Record
  BY DEF OpenPorts, TypeOK, Record
<1>2. sess'[p] = [block |-> b, id |-> sess[p].id]
  BY <1>1 DEF TypeOK, Record
<1>3. sess'[p] # Free
  BY <1>2 DEF Free
<1> QED
  BY <1>1, <1>2, <1>3 DEF OpenPorts, TypeOK, Record

(***************************************************************************)
(* What the steps have in common.                                          *)
(***************************************************************************)
LEMMA ClientsAndSizes ==
  /\ Len(Size) \in Nat /\ Clients = 1 .. Len(Size)
  /\ \A c \in Clients : Size[c] \in Nat \ {0} /\ LastLen[c] \in {"short", "empty"}
<1>1. Len(Size) \in Nat
  BY TftpServerConstants, LenProperties
<1>2. \A c \in Clients : Size[c] \in Nat \ {0}
  BY TftpServerConstants, ElementOfSeq DEF Clients
<1>3. \A c \in Clients : LastLen[c] \in {"short", "empty"}
  BY TftpServerConstants DEF Clients
<1> QED
  BY <1>1, <1>2, <1>3 DEF Clients

\* The packet that arrives, and the session it belongs to.
LEMMA PacketType ==
  ASSUME TypeOK, NEW i \in 1 .. Len(net)
  PROVE  /\ net[i] \in Packet
         /\ net[i].to \in OpenPorts => net[i].to \in Ports /\ Session(i) \in Record
  BY ElementOfSeq DEF TypeOK, OpenPorts, Session, Record

ClientRecord == [phase : {"idle", "request", "data", "done", "gone"},
                 port : Ports \cup {WellKnown}, id : Nat, blk : Nat, tries : 0 .. MaxTries]

\* Base with the names of the record sets.
EntryRecord == [by : Nat \ {0}, blk : Nat, data : Clients \X Nat]

LEMMA BaseForm ==
  Base <=> /\ sess \in [Ports -> Record \cup {Free}] /\ flash \in Seq(EntryRecord)
           /\ pcbs \in 0 .. MaxPcbs /\ heap \in Nat /\ pbufs \in Nat
           /\ client \in [Clients -> ClientRecord] /\ net \in Seq(Packet)
           /\ requests \in Nat /\ unbound \in Nat /\ dropped \in Nat /\ overtaken \in BOOLEAN
           /\ pcbs = Cardinality(OpenPorts) + unbound /\ heap = Cardinality(OpenPorts)
           /\ pbufs = dropped
  BY Zenon DEF Base, TypeOK, ResourcesAccounted, Record, ClientRecord, EntryRecord

\* The client after the acknowledgement it waited for.
Answered(c, p, id) == [Advanced(c) EXCEPT !.port = p, !.id = id]

LEMMA AnsweredFields ==
  ASSUME TypeOK, NEW c \in Clients, NEW p \in Ports, NEW id \in Nat
  PROVE  /\ Answered(c, p, id) \in ClientRecord
         /\ Answered(c, p, id).port = p /\ Answered(c, p, id).id = id
         /\ client[c].blk = Size[c] => /\ Answered(c, p, id).phase = "done"
                                      /\ Answered(c, p, id).blk = client[c].blk
         /\ client[c].blk # Size[c] => /\ Answered(c, p, id).phase = "data"
                                      /\ Answered(c, p, id).blk = client[c].blk + 1
<1>1. client[c] \in ClientRecord /\ 0 \in 0 .. MaxTries
  BY TftpServerConstants DEF TypeOK, ClientRecord
<1>2. /\ Advanced(c) \in ClientRecord
      /\ client[c].blk = Size[c] => Advanced(c).phase = "done" /\ Advanced(c).blk = client[c].blk
      /\ client[c].blk # Size[c] => /\ Advanced(c).phase = "data"
                                   /\ Advanced(c).blk = client[c].blk + 1
  <2>1. CASE client[c].blk = Size[c]
    <3>1. Advanced(c) = [client[c] EXCEPT !.phase = "done"]
      BY <2>1 DEF Advanced
    <3> QED
      BY <1>1, <2>1, <3>1 DEF ClientRecord
  <2>2. CASE client[c].blk # Size[c]
    <3>1. Advanced(c) = [client[c] EXCEPT !.phase = "data", !.blk = @ + 1, !.tries = 0]
      BY <2>2 DEF Advanced
    <3>2. Advanced(c) = [phase |-> "data", port |-> client[c].port, id |-> client[c].id,
                         blk |-> client[c].blk + 1, tries |-> 0]
      BY <1>1, <3>1 DEF ClientRecord
    <3> QED
      BY <1>1, <2>2, <3>2 DEF ClientRecord
  <2> QED
    BY <2>1, <2>2
<1>3. \A r \in ClientRecord :
        LET s == [r EXCEPT !.port = p, !.id = id] IN
        /\ s \in ClientRecord /\ s.port = p /\ s.id = id
        /\ s.phase = r.phase /\ s.blk = r.blk
  BY DEF ClientRecord
<1> QED
  BY <1>2, <1>3 DEF Answered

\* The client and the network after an acknowledgement.
LEMMA SendAckType ==
  ASSUME TypeOK, NEW i \in 1 .. Len(net), NEW c \in Clients, NEW p \in Ports, NEW id \in Nat,
         NEW blk, SendAck(i, c, p, id, blk)
  PROVE  net' \in Seq(Packet) /\ client' \in [Clients -> ClientRecord]
<1> DEFINE left == RemoveAt(net, i)
           refusal == [op |-> "ERROR", to |-> p, from |-> c, blk |-> 5, len |-> "short"]
<1>1. net \in Seq(Packet) /\ client \in [Clients -> ClientRecord]
  BY DEF TypeOK, ClientRecord
<1>2. left \in Seq(Packet)
  BY <1>1, RemoveAtProperties
<1>3. refusal \in Packet
  BY DEF Packet
<1>5. Answered(c, p, id) \in ClientRecord
  BY AnsweredFields
<1> HIDE DEF left, refusal
<1>6. Append(left, refusal) \in Seq(Packet)
  BY <1>2, <1>3, AppendProperties
<1>7. CASE net' = left /\ UNCHANGED client
  BY <1>1, <1>2, <1>7
<1>8. CASE net' = left /\ client' = [client EXCEPT ![c] = Answered(c, p, id)]
  BY <1>1, <1>2, <1>5, <1>8
<1>9. CASE net' = Append(left, refusal) /\ UNCHANGED client
  BY <1>1, <1>6, <1>9
<1> QED
  BY <1>7, <1>8, <1>9 DEF SendAck, Answered, left, refusal

(***************************************************************************)
(* Types, and what the callbacks give back.                                *)
(***************************************************************************)
\* The end of a callback: the session goes on or gives back its pcb and arguments.
LEMMA AnswerType ==
  ASSUME Base, NEW i \in 1 .. Len(net), ToSession(i), NEW b \in Nat, Answer(i, b)
  PROVE  /\ sess' \in [Ports -> Record \cup {Free}]
         /\ net' \in Seq(Packet) /\ client' \in [Clients -> ClientRecord]
         /\ pcbs' \in 0 .. MaxPcbs /\ heap' \in Nat
         /\ pcbs' = Cardinality(OpenPorts') + unbound /\ heap' = Cardinality(OpenPorts')
<1> DEFINE p == net[i].to
<1>1. /\ p \in OpenPorts /\ p \in Ports /\ sess[p] \in Record /\ net[i].from \in Clients
      /\ sess \in [Ports -> Record \cup {Free}]
      /\ pcbs \in 0 .. MaxPcbs /\ pcbs = Cardinality(OpenPorts) + unbound /\ unbound \in Nat
      /\ heap = Cardinality(OpenPorts)
  BY PacketType DEF ToSession, Base, TypeOK, ResourcesAccounted, Session, Packet, Record
<1>2. net' \in Seq(Packet) /\ client' \in [Clients -> ClientRecord]
  <2>1. sess[p].id \in Nat /\ SendAck(i, net[i].from, p, sess[p].id, b)
    BY <1>1 DEF Answer, Session, Record
  <2> QED
    BY <1>1, <2>1, SendAckType DEF Base
<1>3. CASE net[i].len = "full"
  <2>1. sess' = [sess EXCEPT ![p].block = b] /\ UNCHANGED <<pcbs, heap>>
    BY <1>3 DEF Answer
  <2>2. OpenPorts' = OpenPorts /\ sess'[p] \in Record
    BY <1>1, <2>1, PortCounts DEF Base
  <2>3. sess' \in [Ports -> Record \cup {Free}]
    BY <1>1, <2>1, <2>2
  <2> QED
    BY <1>1, <1>2, <2>1, <2>2, <2>3, OpenPortsFinite
<1>4. CASE net[i].len # "full"
  <2>1. sess' = [sess EXCEPT ![p] = Free] /\ pcbs' = pcbs - 1 /\ heap' = heap - 1
    BY <1>4 DEF Answer, CleanupWr
  <2>2. /\ Cardinality(OpenPorts') = Cardinality(OpenPorts) - 1
        /\ Cardinality(OpenPorts) \in Nat \ {0}
    BY <1>1, <2>1, PortClosed DEF Base
  <2>3. sess' \in [Ports -> Record \cup {Free}]
    BY <1>1, <2>1
  <2> HIDE DEF p
  <2>4. MaxPcbs \in Nat
    BY TftpServerConstants
  <2> QED
    BY <1>1, <1>2, <2>1, <2>2, <2>3, <2>4, SMTT(30)
<1> QED
  BY <1>3, <1>4

LEMMA BaseInit == Init => Base
<1> SUFFICES ASSUME Init PROVE Base
  OBVIOUS
<1>1. OpenPorts = {}
  BY DEF Init, OpenPorts
<1>2. pcbs = Cardinality(OpenPorts) + unbound /\ heap = Cardinality(OpenPorts)
  BY <1>1, FS_EmptySet DEF Init
<1>3. sess \in [Ports -> Record \cup {Free}] /\ flash = <<>> /\ net = <<>>
  BY DEF Init
<1>4. client \in [Clients -> ClientRecord] /\ pcbs \in 0 .. MaxPcbs
  BY TftpServerConstants DEF Init, ClientRecord
<1>5. /\ flash \in Seq(EntryRecord)
      /\ net \in Seq(Packet)
  BY <1>3
<1>6. /\ heap \in Nat /\ pbufs \in Nat /\ requests \in Nat /\ unbound \in Nat
      /\ dropped \in Nat /\ overtaken \in BOOLEAN /\ pbufs = dropped
  BY DEF Init
<1> QED
  BY <1>2, <1>3, <1>4, <1>5, <1>6, BaseForm, Zenon

LEMMA BaseStep == Base /\ [Next]_vars => Base'
<1> SUFFICES ASSUME Base, [Next]_vars PROVE Base'
  OBVIOUS
<1>0. /\ sess \in [Ports -> Record \cup {Free}] /\ flash \in Seq(EntryRecord)
      /\ pcbs \in 0 .. MaxPcbs /\ heap \in Nat /\ pbufs \in Nat
      /\ client \in [Clients -> ClientRecord] /\ net \in Seq(Packet)
      /\ requests \in Nat /\ unbound \in Nat /\ dropped \in Nat /\ overtaken \in BOOLEAN
      /\ pcbs = Cardinality(OpenPorts) + unbound /\ heap = Cardinality(OpenPorts)
      /\ pbufs = dropped
  BY BaseForm
<1>a. ASSUME (sess \in [Ports -> Record \cup {Free}] /\ flash \in Seq(EntryRecord))',
             (pcbs \in 0 .. MaxPcbs /\ heap \in Nat /\ pbufs \in Nat)',
             (client \in [Clients -> ClientRecord] /\ net \in Seq(Packet))',
             (requests \in Nat /\ unbound \in Nat /\ dropped \in Nat /\ overtaken \in BOOLEAN)',
             (pcbs = Cardinality(OpenPorts) + unbound /\ heap = Cardinality(OpenPorts))',
             (pbufs = dropped)'
      PROVE  Base'
  BY <1>a, Zenon DEF Base, TypeOK, ResourcesAccounted, Record, ClientRecord, EntryRecord
<1>b. UNCHANGED sess => OpenPorts' = OpenPorts
  BY DEF OpenPorts
<1>c. \A i \in 1 .. Len(net) : RemoveAt(net, i) \in Seq(Packet)
  BY <1>0, RemoveAtProperties
<1>d. MaxPcbs \in Nat /\ MaxTries \in Nat /\ MaxFlight \in Nat /\ Cardinality(OpenPorts) \in Nat
  BY TftpServerConstants, OpenPortsFinite
<1>e. \A i \in 1 .. Len(net) : Arrives(i) => overtaken' \in BOOLEAN
  BY <1>0 DEF Arrives
<1>1. ASSUME NEW c \in Clients, Begin(c) PROVE Base'
  BY <1>0, <1>a, <1>b, <1>1 DEF Begin, serverVars, ClientRecord
<1>2. ASSUME NEW c \in Clients, AskToRead(c) PROVE Base'
  <2> DEFINE rrq == [op |-> "RRQ", to |-> WellKnown, from |-> c, blk |-> 0, len |-> "short"]
  <2>1. rrq \in Packet
    BY DEF Packet
  <2>2. net' \in Seq(Packet)
    BY <1>0, <1>a, <1>2, <2>1, AppendProperties DEF AskToRead
  <2>3. client' \in [Clients -> ClientRecord]
    BY <1>0, <1>a, <1>2 DEF AskToRead, ClientRecord
  <2> QED
    BY <1>0, <1>a, <1>b, <1>2, <2>2, <2>3 DEF AskToRead, serverVars
<1>3. ASSUME NEW c \in Clients, Transmit(c) PROVE Base'
  <2>1. Current(c) \in Packet
    BY <1>0, ClientsAndSizes DEF Current, Packet, ClientRecord
  <2>2. net' \in Seq(Packet)
    BY <1>0, <1>a, <1>3, <2>1, AppendProperties DEF Transmit
  <2>3. client' \in [Clients -> ClientRecord]
    <3>1. client[c].tries + 1 \in 0 .. MaxTries
      <4>1. client[c] \in ClientRecord /\ client[c].tries < MaxTries
        BY <1>0, <1>3 DEF Transmit
      <4>2. client[c].tries \in 0 .. MaxTries
        BY <4>1 DEF ClientRecord
      <4> QED
        BY <1>d, <4>1, <4>2
    <3> QED
      BY <1>0, <1>a, <1>3, <3>1 DEF Transmit, ClientRecord
  <2> QED
    BY <1>0, <1>a, <1>b, <1>3, <2>2, <2>3 DEF Transmit, serverVars
<1>4. ASSUME NEW c \in Clients, GiveUp(c) PROVE Base'
  BY <1>0, <1>a, <1>b, <1>4 DEF GiveUp, serverVars, ClientRecord
<1>5. ASSUME NEW i \in 1 .. Len(net), LosePacket(i) PROVE Base'
  BY <1>0, <1>a, <1>b, <1>c, <1>5 DEF LosePacket, serverVars
<1>6. ASSUME NEW i \in 1 .. Len(net), NoPcb(i) PROVE Base'
  BY <1>0, <1>a, <1>b, <1>c, <1>e, <1>6 DEF NoPcb, Requests
<1>7. ASSUME NEW i \in 1 .. Len(net), NoPort(i) PROVE Base'
  BY <1>0, <1>a, <1>b, <1>c, <1>d, <1>e, <1>7, SMTT(30) DEF NoPort, Requests, HasPcb
<1>8. ASSUME NEW i \in 1 .. Len(net), BadOpcode(i) PROVE Base'
  BY <1>0, <1>a, <1>b, <1>c, <1>e, <1>8 DEF BadOpcode, Requests, serverVars
<1>9. ASSUME NEW i \in 1 .. Len(net), NoMemory(i) PROVE Base'
  BY <1>0, <1>a, <1>b, <1>c, <1>e, <1>9 DEF NoMemory, Requests, serverVars
<1>10. ASSUME NEW i \in 1 .. Len(net), ProcessWrite(i) PROVE Base'
  <2> DEFINE new == [block |-> 0, id |-> requests + 1]
  <2>1. PICK p \in FreePorts : /\ sess' = [sess EXCEPT ![p] = new]
                               /\ SendAck(i, net[i].from, p, requests + 1, 0)
    BY <1>10 DEF ProcessWrite
  <2>2. new \in Record /\ p \in Ports /\ net[i].from \in Clients /\ requests + 1 \in Nat
    BY <1>0, PacketType DEF FreePorts, Record, Packet, Base
  <2> HIDE DEF new
  <2>3. Cardinality(OpenPorts') = Cardinality(OpenPorts) + 1
    BY <2>1, <2>2, PortOpened DEF Base
  <2>4. sess' \in [Ports -> Record \cup {Free}]
    BY <1>0, <2>1, <2>2
  <2>5. net' \in Seq(Packet) /\ client' \in [Clients -> ClientRecord]
    BY <2>1, <2>2, SendAckType DEF Base
  <2>6. flash' \in Seq(EntryRecord)
    BY <1>10 DEF ProcessWrite
  <2> QED
    BY <1>0, <1>a, <1>d, <1>e, <1>10, <2>3, <2>4, <2>5, <2>6, SMTT(30) DEF ProcessWrite, Requests, HasPcb
<1>11. ASSUME NEW i \in 1 .. Len(net), NoSession(i) PROVE Base'
  BY <1>0, <1>a, <1>b, <1>c, <1>e, <1>11 DEF NoSession, serverVars
<1>12. ASSUME NEW i \in 1 .. Len(net), Chained(i) PROVE Base'
  BY <1>0, <1>a, <1>b, <1>c, <1>e, <1>12 DEF Chained, ToSession
<1>13. ASSUME NEW i \in 1 .. Len(net), StoreBlock(i) PROVE Base'
  <2> DEFINE e == [by |-> Session(i).id, blk |-> net[i].blk, data |-> Payload(i)]
  <2>1. ToSession(i) /\ Session(i) \in Record /\ net[i] \in Packet
    BY <1>13, PacketType DEF StoreBlock, ToSession, Base
  <2>2. e \in EntryRecord
    BY <2>1 DEF EntryRecord, Record, Packet, Payload
  <2>3. Session(i).block + 1 \in Nat /\ Answer(i, Session(i).block + 1)
    BY <1>13, <2>1 DEF StoreBlock, Record
  <2>4. flash' = Append(flash, e)
    BY <1>13 DEF StoreBlock
  <2> HIDE DEF e
  <2>5. flash' \in Seq(EntryRecord)
    BY <1>0, <2>2, <2>4, AppendProperties
  <2> QED
    BY <1>0, <1>a, <1>e, <2>1, <2>3, <2>5, AnswerType DEF ToSession, Answer
<1>14. ASSUME NEW i \in 1 .. Len(net), CountEmptyBlock(i) PROVE Base'
  <2>1. ToSession(i) /\ Session(i) \in Record /\ UNCHANGED flash
    BY <1>14, PacketType DEF CountEmptyBlock, ToSession, Base
  <2>2. Session(i).block + 1 \in Nat /\ Answer(i, Session(i).block + 1)
    BY <1>14, <2>1 DEF CountEmptyBlock, Record
  <2> QED
    BY <1>0, <1>a, <1>e, <2>1, <2>2, AnswerType DEF ToSession, Answer
<1>15. ASSUME NEW i \in 1 .. Len(net), OtherBlock(i) PROVE Base'
  <2>1. ToSession(i) /\ Session(i) \in Record /\ UNCHANGED flash
    BY <1>15, PacketType DEF OtherBlock, ToSession, Base
  <2>2. Session(i).block \in Nat /\ Answer(i, Session(i).block)
    BY <1>15, <2>1 DEF OtherBlock, Record
  <2> QED
    BY <1>0, <1>a, <1>e, <2>1, <2>2, AnswerType DEF ToSession, Answer
<1>16. CASE UNCHANGED vars
  BY <1>0, <1>a, <1>b, <1>16 DEF vars
<1> QED
  BY <1>1, <1>2, <1>3, <1>4, <1>5, <1>6, <1>7, <1>8, <1>9, <1>10, <1>11, <1>12, <1>13,
     <1>14, <1>15, <1>16 DEF Next

LEMMA BaseAlways == Spec => []Base
<1>1. Init => Base
  BY BaseInit
<1>2. Base /\ [Next]_vars => Base'
  BY BaseStep
<1> QED
  BY <1>1, <1>2, PTL DEF Spec

(* The state of the server, the clients and the network keeps its type     *)
(* whatever arrives: in particular no more pcbs are taken than there are,  *)
(* and no counter of what is taken goes below zero.                        *)
THEOREM TypesAlwaysOK == Spec => []TypeOK
<1>1. Base => TypeOK
  BY DEF Base
<1> QED
  BY <1>1, BaseAlways, PTL

(* Every way out of the two callbacks gives back what it took: the pcbs    *)
(* are those of the open sessions and the ones left behind when udp_bind   *)
(* failed, the arguments are those of the open sessions, and the packets   *)
(* that are not freed are those of the three early returns.                *)
THEOREM ResourcesAlwaysAccounted == Spec => []ResourcesAccounted
<1>1. Base => ResourcesAccounted
  BY DEF Base
<1> QED
  BY <1>1, BaseAlways, PTL

(***************************************************************************)
(* What the sessions write.                                                *)
(***************************************************************************)
\* The sessions after the end of a callback.
LEMMA AnswerSessions ==
  ASSUME Base, NEW i \in 1 .. Len(net), ToSession(i), NEW b \in Nat, Answer(i, b)
  PROVE  /\ OpenPorts' \subseteq OpenPorts
         /\ net[i].len # "full" => net[i].to \notin OpenPorts'
         /\ net[i].len = "full" => net[i].to \in OpenPorts'
         /\ \A q \in OpenPorts \ {net[i].to} : q \in OpenPorts'
         /\ \A q \in OpenPorts' :
              /\ sess'[q].id = sess[q].id
              /\ sess'[q].block = IF q = net[i].to THEN b ELSE sess[q].block
<1> DEFINE p == net[i].to
<1>1. TypeOK /\ p \in OpenPorts /\ \A q \in OpenPorts : q \in Ports
  BY OpenPortsFinite DEF ToSession, Base
<1>2. CASE net[i].len = "full"
  <2>1. sess' = [sess EXCEPT ![p].block = b]
    BY <1>2 DEF Answer
  <2>2. OpenPorts' = OpenPorts /\ sess'[p] = [block |-> b, id |-> sess[p].id]
    BY <1>1, <2>1, PortCounts
  <2>3. \A q \in OpenPorts \ {p} : sess'[q] = sess[q]
    BY <1>1, <2>1 DEF TypeOK
  <2> QED
    BY <1>1, <1>2, <2>2, <2>3
<1>3. CASE net[i].len # "full"
  <2>1. sess' = [sess EXCEPT ![p] = Free]
    BY <1>3 DEF Answer, CleanupWr
  <2>2. OpenPorts' = OpenPorts \ {p}
    BY <1>1, <2>1, PortClosed
  <2>3. \A q \in OpenPorts \ {p} : sess'[q] = sess[q]
    BY <1>1, <2>1 DEF TypeOK
  <2> QED
    BY <1>3, <2>2, <2>3
<1> QED
  BY <1>2, <1>3

\* The sessions after a write request.
LEMMA NewSessions ==
  ASSUME Base, NEW p \in FreePorts,
         sess' = [sess EXCEPT ![p] = [block |-> 0, id |-> requests + 1]]
  PROVE  /\ OpenPorts' = OpenPorts \cup {p} /\ p \notin OpenPorts
         /\ sess'[p].block = 0 /\ sess'[p].id = requests + 1
         /\ \A q \in OpenPorts : sess'[q] = sess[q]
<1> DEFINE new == [block |-> 0, id |-> requests + 1]
<1>1. requests \in Nat /\ TypeOK
  BY DEF Base, TypeOK
<1>2. new \in Record
  BY <1>1 DEF Record
<1>3. p \in Ports /\ \A q \in OpenPorts : q \in Ports
  BY DEF FreePorts, OpenPorts
<1>4. sess'[p] = new
  BY <1>1, <1>3 DEF TypeOK
<1> HIDE DEF new
<1>5. OpenPorts' = OpenPorts \cup {p} /\ p \notin OpenPorts
  BY <1>1, <1>2, PortOpened DEF new
<1>6. \A q \in OpenPorts : sess'[q] = sess[q]
  BY <1>1, <1>3, <1>5 DEF TypeOK
<1> QED
  BY <1>4, <1>5, <1>6 DEF new

LEMMA CardinalityUpTo ==
  ASSUME NEW n \in Nat
  PROVE  IsFiniteSet(1 .. n) /\ Cardinality(1 .. n) = n
<1>1. n \in Int /\ 1 \in Int /\ (1 > n => n = 0)
  OBVIOUS
<1>2. Cardinality(1 .. n) = IF 1 > n THEN 0 ELSE n - 1 + 1
  BY <1>1, FS_Interval
<1> QED
  BY <1>1, <1>2, FS_Interval

LEMMA NewestFinite ==
  ASSUME NEW n \in Nat
  PROVE  IsFiniteSet(NewestUpTo(n)) /\ Cardinality(NewestUpTo(n)) \in Nat
<1>1. IsFiniteSet(1 .. n) /\ NewestUpTo(n) \subseteq 1 .. n
  BY FS_Interval DEF NewestUpTo
<1> QED
  BY <1>1, FS_Subset, FS_CardinalityType

\* A block is written behind the others.
LEMMA FlashGrows ==
  ASSUME flash \in Seq(EntryRecord), NEW e \in EntryRecord, flash' = Append(flash, e),
         requests' = requests, NEW k, k = Len(flash)
  PROVE  /\ flash' \in Seq(EntryRecord) /\ k \in Nat /\ Len(flash') = k + 1
         /\ flash'[k + 1] = e /\ \A n \in 1 .. k : flash'[n] = flash[n]
         /\ \A n \in 0 .. k : NewestUpTo(n)' = NewestUpTo(n)
         /\ Cardinality(NewestUpTo(k + 1)') = Count' /\ Count \in Nat
         /\ Count' = IF e.by = requests THEN Count + 1 ELSE Count
<1>1. /\ flash' \in Seq(EntryRecord) /\ k \in Nat /\ Len(flash') = k + 1
      /\ flash'[k + 1] = e /\ \A n \in 1 .. k : flash'[n] = flash[n]
  BY AppendProperties, LenProperties
<1>2. ASSUME NEW n \in 0 .. k PROVE NewestUpTo(n)' = NewestUpTo(n)
  <2>1. \A m \in 1 .. n : m \in 1 .. k
    BY <1>1
  <2> QED
    BY <1>1, <2>1 DEF NewestUpTo
<1>3. NewestUpTo(k + 1)' = IF e.by = requests THEN NewestUpTo(k) \cup {k + 1}
                                              ELSE NewestUpTo(k)
  <2>1. \A m : m \in 1 .. k + 1 <=> m \in 1 .. k \/ m = k + 1
    BY <1>1
  <2>2. k + 1 \notin 1 .. k
    BY <1>1
  <2>3. \A m : m \in NewestUpTo(k + 1)' <=>
                 m \in NewestUpTo(k) \/ (m = k + 1 /\ e.by = requests)
    BY <1>1, <2>1, <2>2 DEF NewestUpTo
  <2> QED
    BY <2>3
<1>4. k + 1 \notin NewestUpTo(k)
  BY <1>1 DEF NewestUpTo
<1>5. Cardinality(NewestUpTo(k + 1)') = IF e.by = requests THEN Count + 1 ELSE Count
  <2>1. IsFiniteSet(NewestUpTo(k)) /\ Count = Cardinality(NewestUpTo(k))
    BY <1>1, NewestFinite DEF Count
  <2>2. Cardinality(NewestUpTo(k) \cup {k + 1}) = Cardinality(NewestUpTo(k)) + 1
    BY <1>4, <2>1, FS_AddElement
  <2> QED
    BY <1>3, <2>1, <2>2
<1>6. Count \in Nat
  BY <1>1, NewestFinite DEF Count
<1>7. Count' = Cardinality(NewestUpTo(k + 1)')
  BY <1>1 DEF Count
<1> QED
  BY <1>1, <1>2, <1>5, <1>6, <1>7

\* The other steps do not touch the sessions and the flash.
LEMMA ServerStep ==
  ASSUME [Next]_vars
  PROVE  \/ UNCHANGED <<sess, flash, requests>>
         \/ \E i \in 1 .. Len(net) :
              ProcessWrite(i) \/ StoreBlock(i) \/ CountEmptyBlock(i) \/ OtherBlock(i)
BY DEF Next, vars, serverVars, Begin, AskToRead, Transmit, GiveUp, LosePacket, NoPcb, NoPort,
       BadOpcode, NoMemory, NoSession, Chained

\* What the three ways to answer a packet to a session have in common.
AnswerOf(i, b) ==
  /\ ToSession(i) /\ b \in Nat /\ Answer(i, b)
  /\ \/ (StoreBlock(i) \/ CountEmptyBlock(i)) /\ b = Session(i).block + 1
     \/ OtherBlock(i) /\ b = Session(i).block

LEMMA AnswerForms ==
  ASSUME Base, NEW i \in 1 .. Len(net)
  PROVE  /\ StoreBlock(i) =>
              /\ AnswerOf(i, Session(i).block + 1) /\ net[i].len # "empty"
              /\ net[i].blk = Session(i).block + 1
              /\ [by |-> Session(i).id, blk |-> net[i].blk, data |-> Payload(i)] \in EntryRecord
         /\ CountEmptyBlock(i) =>
              /\ AnswerOf(i, Session(i).block + 1) /\ net[i].len = "empty"
              /\ net[i].blk = Session(i).block + 1 /\ flash' = flash
         /\ OtherBlock(i) =>
              /\ AnswerOf(i, Session(i).block) /\ flash' = flash
              /\ net[i].blk # Session(i).block + 1
         /\ \A b : AnswerOf(i, b) => requests' = requests /\ net[i].to \in OpenPorts
         /\ net[i] \in Packet
<1>1. net[i] \in Packet /\ (ToSession(i) => Session(i) \in Record)
  BY PacketType DEF Base, ToSession
<1>2. ToSession(i) => /\ Session(i).block \in Nat /\ Session(i).block + 1 \in Nat
                      /\ Session(i).id \in Nat \ {0}
  BY <1>1 DEF Record
<1>3. net[i].blk \in Nat /\ Payload(i) \in Clients \X Nat
  BY <1>1 DEF Packet, Payload
<1>4. ToSession(i) =>
        [by |-> Session(i).id, blk |-> net[i].blk, data |-> Payload(i)] \in EntryRecord
  BY <1>2, <1>3 DEF EntryRecord
<1> QED
  BY <1>1, <1>2, <1>4 DEF AnswerOf, StoreBlock, CountEmptyBlock, OtherBlock, IsNext, Answer,
     ToSession

LEMMA IdsInit == Init => IdsOK
<1> SUFFICES ASSUME Init PROVE IdsOK
  OBVIOUS
<1>1. OpenPorts = {} /\ Len(flash) = 0
  BY DEF Init, OpenPorts
<1> QED
  BY <1>1 DEF IdsOK

LEMMA IdsStep == Base /\ IdsOK /\ [Next]_vars => IdsOK'
<1> SUFFICES ASSUME Base, IdsOK, [Next]_vars PROVE IdsOK'
  OBVIOUS
<1>0. /\ requests \in Nat /\ flash \in Seq(EntryRecord)
      /\ \A p \in OpenPorts : sess[p].id \in Nat
  BY BaseForm DEF OpenPorts, Record
<1>1. ASSUME UNCHANGED <<sess, flash, requests>> PROVE IdsOK'
  BY <1>1 DEF IdsOK, OpenPorts
<1>2. ASSUME NEW i \in 1 .. Len(net), ProcessWrite(i) PROVE IdsOK'
  <2>1. PICK p \in FreePorts : sess' = [sess EXCEPT ![p] = [block |-> 0, id |-> requests + 1]]
    BY <1>2 DEF ProcessWrite
  <2>2. requests' = requests + 1 /\ Len(flash') = 0
    BY <1>2 DEF ProcessWrite
  <2>3. /\ OpenPorts' = OpenPorts \cup {p} /\ p \notin OpenPorts
        /\ sess'[p].block = 0 /\ sess'[p].id = requests + 1
        /\ \A q \in OpenPorts : sess'[q] = sess[q]
    BY <2>1, NewSessions
  <2>4. \A q \in OpenPorts : sess[q].id =< requests /\ sess[q].id \in Nat
    BY <1>0 DEF IdsOK
  <2>5. \A q \in OpenPorts' : sess'[q].id =< requests'
    BY <1>0, <2>2, <2>3, <2>4
  <2>6. \A q, r \in OpenPorts' : sess'[q].id = sess'[r].id => q = r
    BY <1>0, <2>3, <2>4 DEF IdsOK
  <2> QED
    BY <2>2, <2>5, <2>6 DEF IdsOK
<1>3. ASSUME NEW i \in 1 .. Len(net), NEW b, AnswerOf(i, b) PROVE
           /\ \A p \in OpenPorts' : sess'[p].id =< requests'
           /\ \A p, q \in OpenPorts' : sess'[p].id = sess'[q].id => p = q
  <2>1. /\ OpenPorts' \subseteq OpenPorts /\ requests' = requests
        /\ \A q \in OpenPorts' : sess'[q].id = sess[q].id
    BY <1>3, AnswerSessions DEF AnswerOf, Answer
  <2> QED
    BY <2>1 DEF IdsOK
<1>4. ASSUME NEW i \in 1 .. Len(net), StoreBlock(i) PROVE IdsOK'
  <2> DEFINE e == [by |-> Session(i).id, blk |-> net[i].blk, data |-> Payload(i)]
  <2>1. /\ AnswerOf(i, Session(i).block + 1) /\ flash' = Append(flash, e) /\ e \in EntryRecord
        /\ requests' = requests /\ net[i].to \in OpenPorts
    BY <1>4, AnswerForms DEF StoreBlock
  <2>2. e.by =< requests
    BY <2>1 DEF IdsOK, Session
  <2> HIDE DEF e
  <2>3. PICK k : k = Len(flash)
    OBVIOUS
  <2>4. /\ k \in Nat /\ Len(flash') = k + 1 /\ flash'[k + 1] = e
        /\ \A n \in 1 .. k : flash'[n] = flash[n]
    BY <1>0, <2>1, <2>3, FlashGrows
  <2>5. \A n \in 1 .. Len(flash') : flash'[n].by =< requests'
    <3> TAKE n \in 1 .. Len(flash')
    <3>1. n \in 1 .. k \/ n = k + 1
      BY <2>4
    <3> QED
      BY <2>1, <2>2, <2>3, <2>4, <3>1 DEF IdsOK
  <2> QED
    BY <1>3, <2>1, <2>5 DEF IdsOK
<1>5. ASSUME NEW i \in 1 .. Len(net), CountEmptyBlock(i) \/ OtherBlock(i) PROVE IdsOK'
  <2>1. /\ \E b : AnswerOf(i, b)
        /\ flash' = flash /\ requests' = requests
    BY <1>5, AnswerForms
  <2> QED
    BY <1>3, <2>1 DEF IdsOK
<1> QED
  BY <1>1, <1>2, <1>4, <1>5, ServerStep

LEMMA NewestStep == Base /\ IdsOK /\ NewestInOrder /\ [Next]_vars => NewestInOrder'
<1> SUFFICES ASSUME Base, IdsOK, NewestInOrder, [Next]_vars PROVE NewestInOrder'
  OBVIOUS
<1> DEFINE Counted == \A p \in OpenPorts : sess[p].id = requests => sess[p].block = Count
           Numbered == \A n \in NewestUpTo(Len(flash)) :
                         flash[n].blk = Cardinality(NewestUpTo(n))
<1>0. /\ requests \in Nat /\ flash \in Seq(EntryRecord)
      /\ \A p \in OpenPorts : sess[p].id \in Nat
  BY BaseForm DEF OpenPorts, Record
<1>a. Counted /\ Numbered
  BY DEF NewestInOrder, Count
<1>b. ASSUME Counted', Numbered' PROVE NewestInOrder'
  BY <1>b DEF NewestInOrder, Count
<1>1. ASSUME UNCHANGED <<sess, flash, requests>> PROVE NewestInOrder'
  BY <1>1 DEF NewestInOrder, OpenPorts, NewestUpTo
<1>2. ASSUME NEW i \in 1 .. Len(net), ProcessWrite(i) PROVE NewestInOrder'
  <2>1. PICK p \in FreePorts : sess' = [sess EXCEPT ![p] = [block |-> 0, id |-> requests + 1]]
    BY <1>2 DEF ProcessWrite
  <2>2. requests' = requests + 1 /\ flash' = <<>>
    BY <1>2 DEF ProcessWrite
  <2>3. NewestUpTo(Len(flash))' = {}
    BY <2>2 DEF NewestUpTo
  <2>4. Count' = 0
    BY <2>3, FS_EmptySet DEF Count
  <2>5. /\ OpenPorts' = OpenPorts \cup {p} /\ p \notin OpenPorts
        /\ sess'[p].block = 0 /\ sess'[p].id = requests + 1
        /\ \A q \in OpenPorts : sess'[q] = sess[q]
    BY <2>1, NewSessions
  <2>6. \A q \in OpenPorts : sess[q].id =< requests /\ sess[q].id \in Nat
    BY <1>0 DEF IdsOK
  <2>7. Counted'
    BY <1>0, <2>2, <2>4, <2>5, <2>6
  <2> QED
    BY <1>b, <2>3, <2>7
<1>3. ASSUME NEW i \in 1 .. Len(net), NEW b, AnswerOf(i, b),
             net[i].len = "full" /\ Session(i).id = requests => b = Count',
             Session(i).id = requests \/ Count' = Count
      PROVE  Counted'
  <2>1. /\ OpenPorts' \subseteq OpenPorts /\ requests' = requests
        /\ net[i].to \in OpenPorts' => net[i].len = "full"
        /\ \A q \in OpenPorts' :
              /\ sess'[q].id = sess[q].id
              /\ sess'[q].block = IF q = net[i].to THEN b ELSE sess[q].block
    BY <1>3, AnswerSessions DEF AnswerOf, Answer
  <2> SUFFICES ASSUME NEW q \in OpenPorts', sess'[q].id = requests
               PROVE  sess'[q].block = Count'
    BY <2>1
  <2>2. CASE q = net[i].to
    BY <1>3, <2>1, <2>2 DEF Session
  <2>3. CASE q # net[i].to
    <3>1. net[i].to \in OpenPorts /\ q \in OpenPorts /\ sess[q].id = requests
      BY <1>3, <2>1, AnswerForms
    <3>2. Session(i).id # requests
      BY <2>3, <3>1 DEF IdsOK, Session
    <3> QED
      BY <1>3, <1>a, <2>1, <2>3, <3>1, <3>2
  <2> QED
    BY <2>2, <2>3
<1>4. ASSUME NEW i \in 1 .. Len(net), StoreBlock(i) PROVE NewestInOrder'
  <2> DEFINE e == [by |-> Session(i).id, blk |-> net[i].blk, data |-> Payload(i)]
  <2>1. /\ AnswerOf(i, Session(i).block + 1) /\ flash' = Append(flash, e) /\ e \in EntryRecord
        /\ requests' = requests /\ net[i].to \in OpenPorts
        /\ net[i].blk = Session(i).block + 1
    BY <1>4, AnswerForms DEF StoreBlock
  <2>2. e.by = Session(i).id /\ e.blk = Session(i).block + 1
    BY <2>1
  <2> HIDE DEF e
  <2>3. PICK k : k = Len(flash)
    OBVIOUS
  <2>4. /\ k \in Nat /\ Len(flash') = k + 1 /\ flash'[k + 1] = e
        /\ \A n \in 1 .. k : flash'[n] = flash[n]
        /\ \A n \in 0 .. k : NewestUpTo(n)' = NewestUpTo(n)
        /\ Cardinality(NewestUpTo(k + 1)') = Count'
        /\ Count' = IF e.by = requests THEN Count + 1 ELSE Count
    BY <1>0, <2>1, <2>3, FlashGrows
  <2>5. Session(i).id = requests => Session(i).block = Count
    BY <1>a, <2>1 DEF Session
  <2>6. Counted'
    BY <1>3, <2>1, <2>2, <2>4, <2>5
  <2>7. Numbered'
    <3> SUFFICES ASSUME NEW n \in 1 .. k + 1, flash'[n].by = requests
                 PROVE  flash'[n].blk = Cardinality(NewestUpTo(n)')
      BY <2>1, <2>4 DEF NewestUpTo
    <3>1. CASE n = k + 1
      BY <2>2, <2>4, <2>5, <3>1
    <3>2. CASE n \in 1 .. k
      <4>1. n \in NewestUpTo(Len(flash)) /\ n \in 0 .. k
        BY <2>3, <2>4, <3>2 DEF NewestUpTo
      <4> QED
        BY <1>a, <2>4, <3>2, <4>1
    <3> QED
      BY <2>4, <3>1, <3>2
  <2> QED
    BY <1>b, <2>6, <2>7
<1>5. ASSUME NEW i \in 1 .. Len(net), CountEmptyBlock(i) \/ OtherBlock(i) PROVE NewestInOrder'
  <2>1. flash' = flash /\ requests' = requests
    BY <1>5, AnswerForms
  <2>2. Count' = Count /\ Numbered'
    BY <1>a, <2>1 DEF Count, NewestUpTo
  <2>3. CASE CountEmptyBlock(i)
    BY <1>3, <1>b, <2>2, <2>3, AnswerForms
  <2>4. CASE OtherBlock(i)
    <3>1. AnswerOf(i, Session(i).block) /\ net[i].to \in OpenPorts
      BY <2>4, AnswerForms
    <3>2. Session(i).id = requests => Session(i).block = Count
      BY <1>a, <3>1 DEF Session
    <3> QED
      BY <1>3, <1>b, <2>2, <3>1, <3>2
  <2> QED
    BY <1>5, <2>3, <2>4
<1> QED
  BY <1>1, <1>2, <1>4, <1>5, ServerStep

(***************************************************************************)
(* What the clients send.                                                  *)
(***************************************************************************)
\* What a step does to the clients and the network.
LEMMA NetworkStep ==
  ASSUME Base, [Next]_vars
  PROVE  \/ \E c \in Clients : Begin(c) \/ AskToRead(c) \/ Transmit(c) \/ GiveUp(c)
         \/ \E i \in 1 .. Len(net) : net' = RemoveAt(net, i) /\ UNCHANGED client
         \/ \E i \in 1 .. Len(net), p \in Ports, id, blk \in Nat :
              SendAck(i, net[i].from, p, id, blk)
         \/ UNCHANGED <<client, net>>
<1>1. ASSUME NEW i \in 1 .. Len(net), ProcessWrite(i)
      PROVE  \E p \in Ports, id, blk \in Nat : SendAck(i, net[i].from, p, id, blk)
  <2>1. PICK p \in FreePorts : SendAck(i, net[i].from, p, requests + 1, 0)
    BY <1>1 DEF ProcessWrite
  <2>2. requests + 1 \in Nat /\ 0 \in Nat /\ p \in Ports
    BY BaseForm DEF FreePorts
  <2> QED
    BY <2>1, <2>2
<1>2. ASSUME NEW i \in 1 .. Len(net), NEW b, AnswerOf(i, b)
      PROVE  \E p \in Ports, id, blk \in Nat : SendAck(i, net[i].from, p, id, blk)
  <2>1. net[i].to \in Ports /\ Session(i).id \in Nat
    BY <1>2, PacketType DEF AnswerOf, ToSession, Base, Record
  <2>2. b \in Nat /\ SendAck(i, net[i].from, net[i].to, Session(i).id, b)
    BY <1>2 DEF AnswerOf, Answer
  <2> QED
    BY <2>1, <2>2
<1>3. ASSUME NEW i \in 1 .. Len(net), StoreBlock(i) \/ CountEmptyBlock(i) \/ OtherBlock(i)
      PROVE  \E p \in Ports, id, blk \in Nat : SendAck(i, net[i].from, p, id, blk)
  BY <1>2, <1>3, AnswerForms
<1>4. ASSUME NEW i \in 1 .. Len(net),
             \/ LosePacket(i) \/ NoPcb(i) \/ NoPort(i) \/ BadOpcode(i) \/ NoMemory(i)
             \/ NoSession(i) \/ Chained(i)
      PROVE  net' = RemoveAt(net, i) /\ UNCHANGED client
  BY <1>4 DEF LosePacket, NoPcb, NoPort, BadOpcode, NoMemory, NoSession, Chained
<1>5. CASE UNCHANGED vars
  BY <1>5 DEF vars
<1> QED
  BY <1>1, <1>3, <1>4, <1>5 DEF Next

\* What an acknowledgement does to the clients and the network.
LEMMA SendAckForms ==
  ASSUME Base, NEW i \in 1 .. Len(net), NEW p \in Ports, NEW id \in Nat, NEW b,
         SendAck(i, net[i].from, p, id, b)
  PROVE  LET c == net[i].from
             refusal == [op |-> "ERROR", to |-> p, from |-> c, blk |-> 5, len |-> "short"]
         IN
         /\ c \in Clients /\ refusal \in Packet
         /\ \/ net' = RemoveAt(net, i) /\ UNCHANGED client
            \/ /\ net' = RemoveAt(net, i) /\ Follows(c, p, b)
               /\ client' = [client EXCEPT ![c] = Answered(c, p, id)]
            \/ /\ net' = Append(RemoveAt(net, i), refusal) /\ UNCHANGED client
               /\ client[c].phase = "data" /\ client[c].port # p
<1>1. net[i].from \in Clients
  BY PacketType DEF Base, Packet
<1>2. [op |-> "ERROR", to |-> p, from |-> net[i].from, blk |-> 5, len |-> "short"] \in Packet
  BY <1>1 DEF Packet
<1> QED
  BY <1>1, <1>2 DEF SendAck, Answered

Served == {"data", "done", "gone"}

\* A client that has been answered once stays with the port that answered.
LEMMA ClientKeepsPort ==
  ASSUME Base, [Next]_vars, NEW d \in Clients, client[d].phase \in Served
  PROVE  client'[d].phase \in Served /\ client'[d].port = client[d].port
<1>0. client \in [Clients -> ClientRecord]
  BY BaseForm
<1>1. ASSUME NEW c \in Clients, Begin(c) \/ AskToRead(c) \/ Transmit(c) \/ GiveUp(c)
      PROVE  client'[d].phase \in Served /\ client'[d].port = client[d].port
  BY <1>0, <1>1, SMTT(30) DEF Begin, AskToRead, Transmit, GiveUp, Served, ClientRecord
<1>2. ASSUME NEW i \in 1 .. Len(net), NEW p \in Ports, NEW id \in Nat, NEW b \in Nat,
             SendAck(i, net[i].from, p, id, b)
      PROVE  client'[d].phase \in Served /\ client'[d].port = client[d].port
  <2> DEFINE c == net[i].from
  <2>1. c \in Clients
    BY <1>2, SendAckForms
  <2> HIDE DEF c
  <2>2. CASE Follows(c, p, b) /\ client' = [client EXCEPT ![c] = Answered(c, p, id)]
    <3>1. c = d => client'[d] = Answered(d, p, id) /\ client[d].port = p
      BY <1>0, <2>1, <2>2 DEF Follows, Served
    <3>2. c # d => client'[d] = client[d]
      BY <1>0, <2>1, <2>2
    <3> QED
      BY <3>1, <3>2, AnsweredFields DEF Base, Served
  <2>3. CASE UNCHANGED client
    BY <2>3
  <2> QED
    BY <1>2, <2>2, <2>3, SendAckForms DEF c
<1> QED
  BY <1>1, <1>2, NetworkStep

\* A packet that is sent in a step: a read request, the current packet of a client,
\* or a refusal.
NewPacket(k) ==
  /\ k \in Packet
  /\ \/ k.op = "RRQ" /\ k.to = WellKnown /\ client'[k.from].phase = "gone"
     \/ k = Current(k.from) /\ Active(k.from)
     \/ /\ k.op = "ERROR" /\ k.len = "short" /\ k.blk = 5
        /\ client[k.from].phase = "data" /\ k.to # client[k.from].port

LEMMA CurrentType ==
  ASSUME Base, NEW c \in Clients
  PROVE  /\ Current(c) \in Packet /\ Current(c).from = c
         /\ client[c].phase = "request" => Current(c).op = "WRQ" /\ Current(c).to = WellKnown
         /\ client[c].phase # "request" =>
              /\ Current(c).op = "DATA" /\ Current(c).to = client[c].port
              /\ Current(c).blk = client[c].blk
              /\ Current(c).len = IF client[c].blk < Size[c] THEN "full" ELSE LastLen[c]
<1>1. client[c] \in ClientRecord
  BY BaseForm
<1>2. CASE client[c].phase = "request"
  BY <1>2 DEF Current, Packet
<1>3. CASE client[c].phase # "request"
  BY <1>1, <1>3, ClientsAndSizes DEF Current, Packet, ClientRecord
<1> QED
  BY <1>2, <1>3

LEMMA SentPackets ==
  ASSUME Base, [Next]_vars, NEW j \in 1 .. Len(net')
  PROVE  (\E k \in 1 .. Len(net) : net'[j] = net[k]) \/ NewPacket(net'[j])
<1>0. net \in Seq(Packet) /\ Len(net) \in Nat
  BY BaseForm, LenProperties
<1> DEFINE Old(k) == \E m \in 1 .. Len(net) : k = net[m]
<1>1. ASSUME NEW i \in 1 .. Len(net), net' = RemoveAt(net, i)
      PROVE  Old(net'[j])
  BY <1>0, <1>1, RemoveAtKeeps, SMTT(30)
<1>2. ASSUME NEW q \in Seq(Packet), NEW e \in Packet, net' = Append(q, e),
             \A m \in 1 .. Len(q) : Old(q[m])
      PROVE  Old(net'[j]) \/ net'[j] = e
  <2>1. Len(net') = Len(q) + 1 /\ Len(q) \in Nat
    BY <1>2, AppendProperties, LenProperties
  <2>2. j \in 1 .. Len(q) \/ j = Len(q) + 1
    BY <2>1
  <2>3. net'[j] = IF j = Len(q) + 1 THEN e ELSE q[j]
    BY <1>2, <2>2, AppendProperties
  <2> QED
    BY <1>2, <2>2, <2>3
<1>3. ASSUME NEW c \in Clients, AskToRead(c)
      PROVE  Old(net'[j]) \/ NewPacket(net'[j])
  <2> DEFINE rrq == [op |-> "RRQ", to |-> WellKnown, from |-> c, blk |-> 0, len |-> "short"]
  <2>0. client'[c].phase = "gone"
    BY <1>3, BaseForm DEF AskToRead, ClientRecord
  <2>1. rrq \in Packet /\ NewPacket(rrq)
    BY <2>0 DEF Packet, NewPacket
  <2>2. net' = Append(net, rrq)
    BY <1>3 DEF AskToRead
  <2> HIDE DEF rrq
  <2> QED
    BY <1>0, <1>2, <2>1, <2>2
<1>4. ASSUME NEW c \in Clients, Transmit(c)
      PROVE  Old(net'[j]) \/ NewPacket(net'[j])
  <2>1. Current(c) \in Packet /\ NewPacket(Current(c))
    BY <1>4, CurrentType DEF NewPacket, Transmit
  <2>2. net' = Append(net, Current(c))
    BY <1>4 DEF Transmit
  <2> QED
    BY <1>0, <1>2, <2>1, <2>2
<1>5. ASSUME NEW i \in 1 .. Len(net), NEW p \in Ports, NEW id \in Nat, NEW b \in Nat,
             SendAck(i, net[i].from, p, id, b)
      PROVE  Old(net'[j]) \/ NewPacket(net'[j])
  <2> DEFINE c == net[i].from
             refusal == [op |-> "ERROR", to |-> p, from |-> c, blk |-> 5, len |-> "short"]
  <2>1. CASE net' = RemoveAt(net, i)
    BY <1>1, <2>1
  <2>2. CASE /\ net' = Append(RemoveAt(net, i), refusal)
             /\ client[c].phase = "data" /\ client[c].port # p
    <3>1. refusal \in Packet /\ NewPacket(refusal)
      BY <1>5, <2>2, SendAckForms DEF NewPacket
    <3> HIDE DEF refusal
    <3>2. /\ RemoveAt(net, i) \in Seq(Packet)
          /\ \A m \in 1 .. Len(RemoveAt(net, i)) : Old(RemoveAt(net, i)[m])
      <4>1. RemoveAt(net, i) \in Seq(Packet)
        BY <1>0, RemoveAtProperties
      <4>2. \A m \in 1 .. Len(RemoveAt(net, i)) : Old(RemoveAt(net, i)[m])
        BY <1>0, RemoveAtKeeps
      <4> QED
        BY <4>1, <4>2
    <3> QED
      BY <1>2, <2>2, <3>1, <3>2
  <2> QED
    BY <1>5, <2>1, <2>2, SendAckForms
<1>6. ASSUME net' = net PROVE Old(net'[j])
  BY <1>6
<1> QED
  BY <1>1, <1>3, <1>4, <1>5, <1>6, NetworkStep DEF Begin, GiveUp

\* A client that is answered goes on to its next block, the first one after its request.
LEMMA AnsweredClient ==
  ASSUME Base, NEW c \in Clients, ClientOK(c), NEW p \in Ports, NEW id \in Nat, NEW b,
         Follows(c, p, b)
  PROVE  LET r == Answered(c, p, id) IN
         /\ r.port = p /\ r.id = id /\ r.phase \in {"data", "done"} /\ r.blk \in 1 .. Size[c]
         /\ r.phase = "data" => r.blk = b + 1
         /\ r.phase = "done" => b = Size[c] /\ r.blk = b
         /\ client[c].phase \in {"request", "data"} /\ client[c].blk = b
         /\ client[c].phase = "data" => client[c].port = p
<1>1. client[c] \in ClientRecord /\ Size[c] \in Nat \ {0} /\ TypeOK
  BY BaseForm, ClientsAndSizes DEF Base
<1>2. client[c].blk \in Nat
  BY <1>1 DEF ClientRecord
<1>3. CASE client[c].phase = "request" /\ b = 0
  <2>1. client[c].blk = 0
    BY <1>3 DEF ClientOK
  <2> QED
    BY <1>1, <1>3, <2>1, AnsweredFields
<1>4. CASE client[c].phase = "data" /\ client[c].port = p /\ client[c].blk = b
  <2>1. client[c].blk \in 1 .. Size[c]
    BY <1>4 DEF ClientOK
  <2> QED
    BY <1>1, <1>4, <2>1, AnsweredFields
<1> QED
  BY <1>3, <1>4 DEF Follows

LEMMA ClientsStep ==
  ASSUME Base, SentOK, [Next]_vars, NEW d \in Clients
  PROVE  ClientOK(d)'
<1>0. client \in [Clients -> ClientRecord] /\ ClientOK(d)
  BY BaseForm DEF SentOK
<1>1. ASSUME NEW c \in Clients, Begin(c) \/ AskToRead(c) \/ Transmit(c) \/ GiveUp(c)
      PROVE  ClientOK(d)'
  <2>1. CASE Begin(c)
    BY <1>0, <2>1 DEF Begin, ClientOK, ClientRecord
  <2>2. CASE AskToRead(c)
    BY <1>0, <2>2 DEF AskToRead, ClientOK, ClientRecord
  <2>3. CASE Transmit(c)
    BY <1>0, <2>3 DEF Transmit, ClientOK, ClientRecord
  <2>4. CASE GiveUp(c)
    BY <1>0, <2>4 DEF GiveUp, ClientOK, ClientRecord
  <2> QED
    BY <1>1, <2>1, <2>2, <2>3, <2>4
<1>2. ASSUME UNCHANGED client PROVE ClientOK(d)'
  BY <1>0, <1>2 DEF ClientOK
<1>3. ASSUME NEW i \in 1 .. Len(net), NEW p \in Ports, NEW id \in Nat, NEW b \in Nat,
             SendAck(i, net[i].from, p, id, b)
      PROVE  ClientOK(d)'
  <2> DEFINE c == net[i].from
  <2>1. c \in Clients
    BY <1>3, SendAckForms
  <2> HIDE DEF c
  <2>2. CASE Follows(c, p, b) /\ client' = [client EXCEPT ![c] = Answered(c, p, id)]
    <3>1. c # d => client'[d] = client[d]
      BY <1>0, <2>1, <2>2
    <3>2. c = d => client'[d] = Answered(d, p, id)
      BY <1>0, <2>1, <2>2
    <3>3. c = d => /\ client'[d].port = p /\ client'[d].phase \in {"data", "done"}
                   /\ client'[d].blk \in 1 .. Size[d]
      BY <1>0, <2>2, <3>2, AnsweredClient
    <3> QED
      BY <1>0, <3>1, <3>3 DEF ClientOK
  <2> QED
    BY <1>2, <1>3, <2>2, SendAckForms DEF c
<1> QED
  BY <1>1, <1>2, <1>3, NetworkStep

LEMMA SentInit == Init => SentOK
<1> SUFFICES ASSUME Init PROVE SentOK
  OBVIOUS
<1>1. Len(net) = 0 /\ \A c \in Clients : client[c].phase = "idle" /\ client[c].blk = 0
  BY DEF Init
<1> QED
  BY <1>1 DEF SentOK, ClientOK

LEMMA SentStep == Base /\ SentOK /\ [Next]_vars => SentOK'
<1> SUFFICES ASSUME Base, SentOK, [Next]_vars PROVE SentOK'
  OBVIOUS
<1>1. \A d \in Clients : ClientOK(d)'
  BY ClientsStep
<1>2. ASSUME NEW k \in Packet, PacketOK(k) PROVE PacketOK(k)'
  <2>1. k.from \in Clients
    BY DEF Packet
  <2> QED
    BY <1>2, <2>1, ClientKeepsPort DEF PacketOK, Served
<1>3. ASSUME NEW k, NewPacket(k) PROVE PacketOK(k)
  <2>1. k \in Packet /\ k.from \in Clients /\ ClientOK(k.from)
    BY <1>3 DEF NewPacket, Packet, SentOK
  <2>2. CASE k.op = "RRQ" /\ k.to = WellKnown
    BY <2>2 DEF PacketOK
  <2>3. CASE k = Current(k.from) /\ client[k.from].phase = "request"
    BY <2>1, <2>3, CurrentType DEF PacketOK
  <2>4. CASE k = Current(k.from) /\ client[k.from].phase = "data"
    <3>1. client[k.from].blk \in 1 .. Size[k.from]
      BY <2>1, <2>4 DEF ClientOK
    <3> QED
      BY <2>1, <2>4, <3>1, CurrentType DEF PacketOK
  <2>5. CASE /\ k.op = "ERROR" /\ k.len = "short" /\ k.blk = 5
             /\ client[k.from].phase = "data" /\ k.to # client[k.from].port
    BY <2>5 DEF PacketOK
  <2> QED
    BY <1>3, <2>2, <2>3, <2>4, <2>5 DEF NewPacket, Active
<1>4. ASSUME NEW j \in 1 .. Len(net') PROVE PacketOK(net[j])'
  <2>1. \A k \in 1 .. Len(net) : net[k] \in Packet /\ PacketOK(net[k])
    BY PacketType DEF Base, SentOK
  <2>2. net'[j] \in Packet /\ PacketOK(net'[j])
    BY <1>3, <2>1, SentPackets DEF NewPacket
  <2>3. PICK k : k = net'[j]
    OBVIOUS
  <2>4. PacketOK(k)'
    BY <1>2, <2>2, <2>3
  <2> QED
    BY <2>3, <2>4 DEF PacketOK
<1> QED
  BY <1>1, <1>4 DEF SentOK

(***************************************************************************)
(* What the clients know of the newest session.                            *)
(***************************************************************************)
\* The steps in which client d is not answered, and those in which it is.
Quiet(d) ==
  /\ client'[d].id = client[d].id /\ client'[d].port = client[d].port
  /\ client'[d].phase \in {"data", "done"}
       => client'[d].phase = client[d].phase /\ client'[d].blk = client[d].blk

AnsweredBy(d, i, p, id, b) ==
  /\ d = net[i].from /\ p \in Ports /\ id \in Nat /\ b \in Nat /\ Follows(d, p, b)
  /\ client'[d] = Answered(d, p, id)
  /\ \/ /\ ProcessWrite(i) /\ id = requests + 1 /\ b = 0
        /\ p \in FreePorts /\ sess' = [sess EXCEPT ![p] = [block |-> 0, id |-> id]]
     \/ AnswerOf(i, b) /\ p = net[i].to /\ id = Session(i).id

LEMMA ClientForms ==
  ASSUME Base, SentOK, [Next]_vars, NEW d \in Clients
  PROVE  Quiet(d) \/ \E i \in 1 .. Len(net) : \E p, id, b : AnsweredBy(d, i, p, id, b)
<1>0. client \in [Clients -> ClientRecord] /\ requests \in Nat
  BY BaseForm
<1>1. ASSUME NEW c \in Clients, Begin(c) \/ AskToRead(c) \/ Transmit(c) \/ GiveUp(c)
      PROVE  Quiet(d)
  <2>1. CASE Begin(c)
    BY <1>0, <2>1 DEF Begin, Quiet, ClientRecord
  <2>2. CASE AskToRead(c)
    BY <1>0, <2>2 DEF AskToRead, Quiet, ClientRecord
  <2>3. CASE Transmit(c)
    BY <1>0, <2>3 DEF Transmit, Quiet, ClientRecord
  <2>4. CASE GiveUp(c)
    BY <1>0, <2>4 DEF GiveUp, Quiet, ClientRecord
  <2> QED
    BY <1>1, <2>1, <2>2, <2>3, <2>4
<1>2. ASSUME UNCHANGED client PROVE Quiet(d)
  BY <1>2 DEF Quiet
<1>3. ASSUME NEW i \in 1 .. Len(net), NEW p \in Ports, NEW id \in Nat, NEW b \in Nat,
             SendAck(i, net[i].from, p, id, b)
      PROVE  \/ Quiet(d)
             \/ d = net[i].from /\ Follows(d, p, b) /\ client'[d] = Answered(d, p, id)
  <2> DEFINE c == net[i].from
  <2>1. c \in Clients
    BY <1>3, SendAckForms
  <2> HIDE DEF c
  <2>2. CASE Follows(c, p, b) /\ client' = [client EXCEPT ![c] = Answered(c, p, id)]
    <3>1. c # d => client'[d] = client[d]
      BY <1>0, <2>1, <2>2
    <3>2. c = d => client'[d] = Answered(d, p, id) /\ Follows(d, p, b)
      BY <1>0, <2>1, <2>2
    <3> QED
      BY <3>1, <3>2 DEF Quiet, c
  <2> QED
    BY <1>2, <1>3, <2>2, SendAckForms DEF c
<1>4. ASSUME NEW i \in 1 .. Len(net), ProcessWrite(i)
      PROVE  Quiet(d) \/ \E p, id, b : AnsweredBy(d, i, p, id, b)
  <2>1. PICK p \in FreePorts : /\ sess' = [sess EXCEPT ![p] = [block |-> 0, id |-> requests + 1]]
                               /\ SendAck(i, net[i].from, p, requests + 1, 0)
    BY <1>4 DEF ProcessWrite
  <2>2. requests + 1 \in Nat /\ 0 \in Nat /\ p \in Ports
    BY <1>0 DEF FreePorts
  <2>3. \/ Quiet(d)
        \/ d = net[i].from /\ Follows(d, p, 0) /\ client'[d] = Answered(d, p, requests + 1)
    BY <1>3, <2>1, <2>2
  <2> QED
    BY <1>4, <2>1, <2>2, <2>3 DEF AnsweredBy
<1>5. ASSUME NEW i \in 1 .. Len(net), NEW b, AnswerOf(i, b)
      PROVE  Quiet(d) \/ \E p, id : AnsweredBy(d, i, p, id, b)
  <2>1. net[i].to \in Ports /\ Session(i).id \in Nat
    BY <1>5, PacketType DEF AnswerOf, ToSession, Base, Record
  <2>2. b \in Nat /\ SendAck(i, net[i].from, net[i].to, Session(i).id, b)
    BY <1>5 DEF AnswerOf, Answer
  <2>3. \/ Quiet(d)
        \/ /\ d = net[i].from /\ Follows(d, net[i].to, b)
           /\ client'[d] = Answered(d, net[i].to, Session(i).id)
    BY <1>3, <2>1, <2>2
  <2> QED
    BY <1>5, <2>1, <2>2, <2>3 DEF AnsweredBy
<1>6. ASSUME NEW i \in 1 .. Len(net), StoreBlock(i) \/ CountEmptyBlock(i) \/ OtherBlock(i)
      PROVE  Quiet(d) \/ \E p, id, b : AnsweredBy(d, i, p, id, b)
  BY <1>5, <1>6, AnswerForms
<1>7. ASSUME NEW i \in 1 .. Len(net),
             \/ LosePacket(i) \/ NoPcb(i) \/ NoPort(i) \/ BadOpcode(i) \/ NoMemory(i)
             \/ NoSession(i) \/ Chained(i)
      PROVE  UNCHANGED client
  BY <1>7 DEF LosePacket, NoPcb, NoPort, BadOpcode, NoMemory, NoSession, Chained
<1>8. CASE UNCHANGED vars
  BY <1>2, <1>8 DEF vars
<1> QED
  BY <1>1, <1>2, <1>4, <1>6, <1>7, <1>8 DEF Next

\* What becomes of the sessions that are open after a step.
LEMMA OpenSessions ==
  ASSUME Base, [Next]_vars
  PROVE  \/ /\ requests' = requests /\ OpenPorts' \subseteq OpenPorts
            /\ \A q \in OpenPorts' : sess'[q].id = sess[q].id
         \/ /\ requests' = requests + 1 /\ flash' = <<>>
            /\ \E i \in 1 .. Len(net) : ProcessWrite(i)
            /\ \E p \in FreePorts : /\ OpenPorts' = OpenPorts \cup {p} /\ p \notin OpenPorts
                                    /\ sess'[p].id = requests + 1
                                    /\ \A q \in OpenPorts : sess'[q].id = sess[q].id
<1>1. ASSUME UNCHANGED <<sess, flash, requests>>
      PROVE  /\ requests' = requests /\ OpenPorts' \subseteq OpenPorts
             /\ \A q \in OpenPorts' : sess'[q].id = sess[q].id
  BY <1>1 DEF OpenPorts
<1>2. ASSUME NEW i \in 1 .. Len(net), ProcessWrite(i)
      PROVE  /\ requests' = requests + 1 /\ flash' = <<>>
             /\ \E p \in FreePorts : /\ OpenPorts' = OpenPorts \cup {p} /\ p \notin OpenPorts
                                     /\ sess'[p].id = requests + 1
                                     /\ \A q \in OpenPorts : sess'[q].id = sess[q].id
  BY <1>2, NewSessions DEF ProcessWrite
<1>3. ASSUME NEW i \in 1 .. Len(net), NEW b, AnswerOf(i, b)
      PROVE  /\ requests' = requests /\ OpenPorts' \subseteq OpenPorts
             /\ \A q \in OpenPorts' : sess'[q].id = sess[q].id
  BY <1>3, AnswerSessions DEF AnswerOf, Answer
<1> QED
  BY <1>1, <1>2, <1>3, ServerStep, AnswerForms

LEMMA FollowInit == Init => FollowOK
BY DEF Init, FollowOK, OpenPorts

LEMMA FollowStep == Base /\ IdsOK /\ SentOK /\ FollowOK /\ [Next]_vars => FollowOK'
<1> SUFFICES ASSUME Base, IdsOK, SentOK, FollowOK, [Next]_vars, NEW d \in Clients
             PROVE  /\ client'[d].id =< requests'
                    /\ \A q \in OpenPorts' : sess'[q].id = client'[d].id => client'[d].port = q
  BY DEF FollowOK
<1>0. /\ requests \in Nat /\ client[d].id \in Nat
      /\ client[d].id =< requests
      /\ \A q \in OpenPorts : sess[q].id = client[d].id => client[d].port = q
      /\ \A q \in OpenPorts : sess[q].id =< requests /\ sess[q].id \in Nat
  BY BaseForm DEF FollowOK, IdsOK, ClientRecord, OpenPorts, Record
<1>1. CASE Quiet(d)
  <2>1. client'[d].id = client[d].id /\ client'[d].port = client[d].port
    BY <1>1 DEF Quiet
  <2> QED
    BY <1>0, <2>1, OpenSessions
<1>2. ASSUME NEW i \in 1 .. Len(net), NEW p, NEW id, NEW b, AnsweredBy(d, i, p, id, b)
      PROVE  /\ client'[d].id =< requests'
             /\ \A q \in OpenPorts' : sess'[q].id = client'[d].id => client'[d].port = q
  <2>1. client'[d].id = id /\ client'[d].port = p
    BY <1>2, AnsweredFields DEF AnsweredBy, Base
  <2>2. CASE /\ ProcessWrite(i) /\ id = requests + 1
             /\ p \in FreePorts /\ sess' = [sess EXCEPT ![p] = [block |-> 0, id |-> id]]
    <3>1. /\ OpenPorts' = OpenPorts \cup {p}
          /\ \A q \in OpenPorts : sess'[q] = sess[q]
      BY <2>2, NewSessions
    <3>2. requests' = requests + 1
      BY <2>2 DEF ProcessWrite
    <3> QED
      BY <1>0, <2>1, <2>2, <3>1, <3>2
  <2>3. CASE AnswerOf(i, b) /\ p = net[i].to /\ id = Session(i).id
    <3>1. /\ p \in OpenPorts /\ id = sess[p].id /\ requests' = requests
          /\ OpenPorts' \subseteq OpenPorts /\ \A q \in OpenPorts' : sess'[q].id = sess[q].id
      BY <2>3, AnswerForms, AnswerSessions DEF AnswerOf, Session
    <3> QED
      BY <1>0, <2>1, <3>1 DEF IdsOK
  <2> QED
    BY <1>2, <2>2, <2>3 DEF AnsweredBy
<1> QED
  BY <1>1, <1>2, ClientForms

\* The newest session's blocks in the flash become no fewer until the next request.
LEMMA CountStep ==
  ASSUME Base, [Next]_vars
  PROVE  /\ Count \in Nat /\ Count' \in Nat
         /\ requests' = requests => Count =< Count'
<1>0. flash \in Seq(EntryRecord) /\ Len(flash) \in Nat
  BY BaseForm, LenProperties
<1>1. Count \in Nat
  BY <1>0, NewestFinite DEF Count
<1>2. CASE UNCHANGED <<sess, flash, requests>>
  <2>1. Count' = Count
    BY <1>2 DEF Count, NewestUpTo
  <2> QED
    BY <1>1, <2>1
<1>3. ASSUME NEW i \in 1 .. Len(net), ProcessWrite(i)
      PROVE  Count' \in Nat /\ requests' # requests
  <2>1. NewestUpTo(Len(flash))' = {}
    BY <1>3 DEF ProcessWrite, NewestUpTo
  <2>2. Count' = 0
    BY <2>1, FS_EmptySet DEF Count
  <2>3. requests' = requests + 1 /\ requests \in Nat
    BY <1>3, BaseForm DEF ProcessWrite
  <2> QED
    BY <2>2, <2>3
<1>4. ASSUME NEW i \in 1 .. Len(net), StoreBlock(i)
      PROVE  Count' \in Nat /\ Count =< Count'
  <2> DEFINE e == [by |-> Session(i).id, blk |-> net[i].blk, data |-> Payload(i)]
  <2>1. flash' = Append(flash, e) /\ e \in EntryRecord /\ requests' = requests
    BY <1>4, AnswerForms DEF StoreBlock
  <2> HIDE DEF e
  <2>2. Count' = IF e.by = requests THEN Count + 1 ELSE Count
    BY <1>0, <2>1, FlashGrows
  <2> QED
    BY <1>1, <2>2
<1>5. ASSUME NEW i \in 1 .. Len(net), CountEmptyBlock(i) \/ OtherBlock(i)
      PROVE  Count' = Count
  <2>1. flash' = flash /\ requests' = requests
    BY <1>5, AnswerForms
  <2> QED
    BY <2>1 DEF Count, NewestUpTo
<1> QED
  BY <1>1, <1>2, <1>3, <1>4, <1>5, ServerStep

LEMMA AckedInit == Init => AckedOK
BY DEF Init, AckedOK

\* What the newest session acknowledges, it has written; the empty block behind a
\* file that is a multiple of the block size carries nothing.
LEMMA AckedIsWritten ==
  ASSUME Base, IdsOK, NewestInOrder, SentOK, [Next]_vars,
         NEW i \in 1 .. Len(net), NEW b, AnswerOf(i, b), Session(i).id = requests
  PROVE  \/ b =< Count'
         \/ /\ LastLen[net[i].from] = "empty" /\ b = Size[net[i].from] /\ b - 1 =< Count'
<1>1. /\ net[i].to \in OpenPorts /\ Session(i).block = Count /\ Count \in Nat
      /\ requests' = requests /\ flash \in Seq(EntryRecord) /\ net[i] \in Packet
  BY AnswerForms, CountStep, BaseForm DEF NewestInOrder, Count, Session
<1>2. CASE StoreBlock(i) /\ b = Session(i).block + 1
  <2> DEFINE e == [by |-> Session(i).id, blk |-> net[i].blk, data |-> Payload(i)]
  <2>1. flash' = Append(flash, e) /\ e \in EntryRecord /\ e.by = requests
    BY <1>2, AnswerForms DEF StoreBlock
  <2> HIDE DEF e
  <2>2. Count' = Count + 1
    BY <1>1, <2>1, FlashGrows
  <2> QED
    BY <1>1, <1>2, <2>2
<1>3. CASE CountEmptyBlock(i) /\ b = Session(i).block + 1
  <2>1. net[i].len = "empty" /\ net[i].blk = b
    BY <1>3, AnswerForms
  <2>2. net[i].to \in Ports /\ WellKnown \notin Ports /\ net[i].to # WellKnown
    BY <1>1, OpenPortsFinite, TftpServerConstants DEF WellKnown
  <2>3. PacketOK(net[i])
    BY DEF SentOK
  <2>4. net[i].op = "DATA"
    BY <1>1, <2>1, <2>2, <2>3 DEF PacketOK, Packet
  <2>5. /\ net[i].blk \in 1 .. Size[net[i].from] /\ ~(net[i].blk < Size[net[i].from])
        /\ LastLen[net[i].from] = "empty"
    BY <2>1, <2>3, <2>4 DEF PacketOK
  <2>6. Size[net[i].from] \in Nat
    BY <1>1, ClientsAndSizes DEF Packet
  <2>7. Count =< Count' /\ Count' \in Nat
    BY <1>1, CountStep
  <2> QED
    BY <1>1, <1>3, <2>1, <2>5, <2>6, <2>7
<1>4. CASE OtherBlock(i) /\ b = Session(i).block
  BY <1>1, <1>4, CountStep
<1> QED
  BY <1>2, <1>3, <1>4 DEF AnswerOf

LEMMA StoredLength ==
  ASSUME NEW c \in Clients
  PROVE  /\ Whole(c) \in Seq(Clients \X Nat) /\ Len(Whole(c)) = Size[c]
         /\ \A n \in 1 .. Size[c] : Whole(c)[n] = <<c, n>>
         /\ Stored(c) \in Seq(Clients \X Nat)
         /\ Len(Stored(c)) = IF LastLen[c] = "empty" THEN Size[c] - 1 ELSE Size[c]
         /\ \A n \in 1 .. Len(Stored(c)) : Stored(c)[n] = <<c, n>>
<1>1. Size[c] \in Nat \ {0}
  BY ClientsAndSizes
<1>2. Whole(c) \in Seq(Clients \X Nat) /\ Len(Whole(c)) = Size[c]
  <2>1. Whole(c) \in [1 .. Size[c] -> Clients \X Nat] /\ DOMAIN Whole(c) = 1 .. Size[c]
    BY <1>1 DEF Whole
  <2> QED
    BY <1>1, <2>1
<1>3. \A n \in 1 .. Size[c] : Whole(c)[n] = <<c, n>>
  BY DEF Whole
<1>4. CASE LastLen[c] = "empty"
  <2>1. Stored(c) = SubSeq(Whole(c), 1, Size[c] - 1)
    BY <1>2, <1>4 DEF Stored, Front
  <2>2. \A n \in 1 .. Size[c] - 1 : Whole(c)[n] = <<c, n>> /\ Whole(c)[n] \in Clients \X Nat
    BY <1>1, <1>3
  <2>3. /\ Stored(c) \in Seq(Clients \X Nat) /\ Len(Stored(c)) = Size[c] - 1
        /\ \A n \in 1 .. Size[c] - 1 : Stored(c)[n] = Whole(c)[n]
    BY <1>1, <2>1, <2>2, SubSeqProperties
  <2> QED
    BY <1>2, <1>3, <1>4, <2>2, <2>3
<1>5. CASE LastLen[c] # "empty"
  BY <1>2, <1>3, <1>5 DEF Stored
<1> QED
  BY <1>4, <1>5

LEMMA AckedStep ==
  Base /\ IdsOK /\ NewestInOrder /\ SentOK /\ FollowOK /\ AckedOK /\ [Next]_vars => AckedOK'
<1> SUFFICES ASSUME Base, IdsOK, NewestInOrder, SentOK, FollowOK, AckedOK, [Next]_vars,
                    NEW d \in Clients, client'[d].id = requests'
             PROVE  /\ client'[d].phase = "data" => client'[d].blk - 1 =< Count'
                    /\ client'[d].phase = "done" => Len(Stored(d)) =< Count'
  BY DEF AckedOK
<1>0. /\ requests \in Nat /\ client[d].id \in Nat /\ client[d].blk \in Nat
      /\ client[d].id =< requests /\ Count \in Nat /\ Count' \in Nat
      /\ requests' \in {requests, requests + 1}
      /\ requests' = requests => Count =< Count'
      /\ Len(Stored(d)) = IF LastLen[d] = "empty" THEN Size[d] - 1 ELSE Size[d]
      /\ Size[d] \in Nat \ {0}
  BY BaseForm, CountStep, OpenSessions, StoredLength, ClientsAndSizes DEF FollowOK, ClientRecord
<1>1. CASE Quiet(d)
  <2>1. requests' = requests /\ client[d].id = requests
    BY <1>0, <1>1 DEF Quiet
  <2> QED
    BY <1>0, <1>1, <2>1 DEF Quiet, AckedOK
<1>2. ASSUME NEW i \in 1 .. Len(net), NEW p, NEW id, NEW b, AnsweredBy(d, i, p, id, b)
      PROVE  /\ client'[d].phase = "data" => client'[d].blk - 1 =< Count'
             /\ client'[d].phase = "done" => Len(Stored(d)) =< Count'
  <2>1. /\ client'[d].id = id /\ client'[d].port = p /\ client'[d].phase \in {"data", "done"}
        /\ client'[d].blk \in 1 .. Size[d]
        /\ client'[d].phase = "data" => client'[d].blk = b + 1
        /\ client'[d].phase = "done" => b = Size[d]
        /\ b \in Nat /\ d = net[i].from
    BY <1>2, AnsweredClient DEF AnsweredBy, SentOK
  <2>2. CASE ProcessWrite(i) /\ b = 0
    BY <1>0, <2>1, <2>2
  <2>3. CASE AnswerOf(i, b) /\ id = Session(i).id
    <3>1. Session(i).id = requests
      BY <2>1, <2>3, AnswerForms
    <3>2. \/ b =< Count'
          \/ LastLen[d] = "empty" /\ b = Size[d] /\ b - 1 =< Count'
      BY <2>1, <2>3, <3>1, AckedIsWritten
    <3> QED
      BY <1>0, <2>1, <3>2
  <2> QED
    BY <1>2, <2>2, <2>3 DEF AnsweredBy
<1> QED
  BY <1>1, <1>2, ClientForms

LEMMA StrangerStays ==
  ASSUME Base, IdsOK, SentOK, [Next]_vars, requests' = requests,
         NEW d \in Clients, Stranger(d)
  PROVE  Stranger(d)'
<1>0. /\ OpenPorts' \subseteq OpenPorts /\ \A q \in OpenPorts' : sess'[q].id = sess[q].id
      /\ requests \in Nat
  BY OpenSessions, BaseForm
<1>1. client'[d].phase \in Served /\ client'[d].port = client[d].port
  BY ClientKeepsPort DEF Stranger, Served
<1>2. client'[d].id # requests
  <2>1. CASE Quiet(d)
    BY <2>1 DEF Quiet, Stranger
  <2>2. ASSUME NEW i \in 1 .. Len(net), NEW p, NEW id, NEW b, AnsweredBy(d, i, p, id, b),
               id = requests
        PROVE  FALSE
    <3>1. AnswerOf(i, b) /\ p = net[i].to /\ id = Session(i).id
      BY <1>0, <2>2 DEF AnsweredBy
    <3>2. p \in OpenPorts /\ sess[p].id = requests
      BY <2>2, <3>1, AnswerForms DEF Session
    <3>3. client[d].port = p
      BY <2>2 DEF AnsweredBy, Follows, Stranger
    <3> QED
      BY <3>2, <3>3 DEF Stranger
  <2>3. ASSUME NEW i \in 1 .. Len(net), NEW p, NEW id, NEW b, AnsweredBy(d, i, p, id, b)
        PROVE  client'[d].id = id
    BY <2>3, AnsweredFields DEF AnsweredBy, Base
  <2> QED
    BY <2>1, <2>2, <2>3, ClientForms
<1> QED
  BY <1>0, <1>1, <1>2 DEF Stranger, Served

LEMMA PayloadInit == Init => PayloadOK
<1>1. Init => Len(flash) = 0
  BY DEF Init
<1> QED
  BY <1>1 DEF PayloadOK

LEMMA PayloadStep ==
  Base /\ IdsOK /\ SentOK /\ FollowOK /\ PayloadOK /\ [Next]_vars => PayloadOK'
<1> SUFFICES ASSUME Base, IdsOK, SentOK, FollowOK, PayloadOK, [Next]_vars PROVE PayloadOK'
  OBVIOUS
<1>0. flash \in Seq(EntryRecord) /\ Len(flash) \in Nat
  BY BaseForm, LenProperties
<1>1. ASSUME NEW e \in EntryRecord, requests' = requests,
             e.by = requests => e.data[2] = e.blk \/ Stranger(e.data[1])
      PROVE  e.by = requests' => e.data[2] = e.blk \/ Stranger(e.data[1])'
  BY <1>1, StrangerStays DEF EntryRecord
<1>2. ASSUME NEW n \in 1 .. Len(flash)
      PROVE  /\ flash[n] \in EntryRecord
             /\ flash[n].by = requests =>
                  flash[n].data[2] = flash[n].blk \/ Stranger(flash[n].data[1])
  BY <1>0, ElementOfSeq DEF PayloadOK
<1>3. ASSUME NEW n \in 1 .. Len(flash'), NEW e \in EntryRecord, flash'[n] = e,
             requests' = requests,
             e.by = requests => e.data[2] = e.blk \/ Stranger(e.data[1])
      PROVE  (flash[n].by = requests =>
                flash[n].data[2] = flash[n].blk \/ Stranger(flash[n].data[1]))'
  BY <1>1, <1>3 DEF Stranger
<1>4. ASSUME flash' = flash, requests' = requests PROVE PayloadOK'
  BY <1>2, <1>3, <1>4 DEF PayloadOK
<1>5. ASSUME flash' = <<>> PROVE PayloadOK'
  BY <1>5 DEF PayloadOK
<1>6. ASSUME NEW i \in 1 .. Len(net), StoreBlock(i) PROVE PayloadOK'
  <2> DEFINE e == [by |-> Session(i).id, blk |-> net[i].blk, data |-> Payload(i)]
  <2>1. /\ flash' = Append(flash, e) /\ e \in EntryRecord /\ requests' = requests
        /\ net[i].to \in OpenPorts /\ net[i] \in Packet /\ PacketOK(net[i])
    BY <1>6, AnswerForms DEF StoreBlock, SentOK
  <2>2. e.by = Session(i).id /\ e.blk = net[i].blk /\ e.data = Payload(i)
    OBVIOUS
  <2>3. ASSUME Session(i).id = requests, net[i].op # "DATA" PROVE Stranger(net[i].from)
    <3>1. net[i].to \in Ports /\ WellKnown \notin Ports /\ net[i].to # WellKnown
      BY <2>1, OpenPortsFinite, TftpServerConstants DEF WellKnown
    <3>2. net[i].op = "ERROR" /\ net[i].from \in Clients
      BY <2>1, <2>3, <3>1 DEF PacketOK, Packet
    <3>3. client[net[i].from].phase \in Served /\ net[i].to # client[net[i].from].port
      BY <2>1, <3>2 DEF PacketOK, Served
    <3>4. client[net[i].from].id # requests
      BY <2>1, <2>3, <3>2, <3>3 DEF FollowOK, Session
    <3>5. \A q \in OpenPorts : sess[q].id = requests => q = net[i].to
      BY <2>1, <2>3 DEF IdsOK, Session
    <3> QED
      BY <3>3, <3>4, <3>5 DEF Stranger, Served
  <2>4. e.by = requests => e.data[2] = e.blk \/ Stranger(e.data[1])
    BY <2>2, <2>3 DEF Payload
  <2> HIDE DEF e
  <2>5. PICK k : k = Len(flash)
    OBVIOUS
  <2>6. /\ k \in Nat /\ Len(flash') = k + 1 /\ flash'[k + 1] = e
        /\ \A n \in 1 .. k : flash'[n] = flash[n]
    BY <1>0, <2>1, <2>5, FlashGrows
  <2>7. ASSUME NEW n \in 1 .. Len(flash')
        PROVE  (flash[n].by = requests =>
                  flash[n].data[2] = flash[n].blk \/ Stranger(flash[n].data[1]))'
    <3>1. CASE n = k + 1
      BY <1>3, <2>1, <2>4, <2>6, <3>1
    <3>2. CASE n \in 1 .. k
      BY <1>2, <1>3, <2>1, <2>5, <2>6, <3>2
    <3> QED
      BY <2>6, <3>1, <3>2
  <2> QED
    BY <2>7 DEF PayloadOK
<1>7. ASSUME NEW i \in 1 .. Len(net), CountEmptyBlock(i) \/ OtherBlock(i)
      PROVE  flash' = flash /\ requests' = requests
  BY <1>7, AnswerForms
<1>8. ASSUME NEW i \in 1 .. Len(net), ProcessWrite(i) PROVE flash' = <<>>
  BY <1>8 DEF ProcessWrite
<1> QED
  BY <1>4, <1>5, <1>6, <1>7, <1>8, ServerStep

\* A sequence is a prefix of another one that agrees with it as far as it goes.
LEMMA PrefixIntro ==
  ASSUME NEW S, NEW s \in Seq(S), NEW t \in Seq(S), Len(s) =< Len(t),
         \A n \in 1 .. Len(s) : s[n] = t[n]
  PROVE  IsPrefix(s, t)
<1>1. Len(s) \in Nat /\ Len(t) \in Nat
  BY LenProperties
<1>2. SubSeq(s, 1, Len(s)) = s
  BY SubSeqFull
<1>3. \A n \in 1 .. Len(s) : t[n] \in S
  BY <1>1, ElementOfSeq
<1>4. /\ SubSeq(t, 1, Len(s)) \in Seq(S) /\ Len(SubSeq(t, 1, Len(s))) = Len(s)
      /\ \A n \in 1 .. Len(s) : SubSeq(t, 1, Len(s))[n] = t[n]
  BY <1>1, <1>3, SubSeqProperties
<1>5. SubSeq(t, 1, Len(s)) = s
  BY <1>4, SeqEqual
<1> QED
  BY <1>2, <1>5 DEF IsPrefix

\* When the flash holds the client's blocks 1, 2, 3, ..., and as many as the client
\* has had acknowledged, it holds what the client believes.
LEMMA BelievedPrefix ==
  ASSUME Base, SentOK, NEW c \in Clients,
         client[c].phase \in {"data", "done"} =>
           \A n \in 1 .. Len(flash) : flash[n].data = <<c, n>>,
         client[c].phase = "data" => client[c].blk - 1 =< Len(flash),
         client[c].phase = "done" => Len(Stored(c)) =< Len(flash)
  PROVE  IsPrefix(Believed(c), Written)
<1>1. /\ flash \in Seq(EntryRecord) /\ Len(flash) \in Nat /\ DOMAIN flash = 1 .. Len(flash)
      /\ Size[c] \in Nat \ {0}
  BY BaseForm, LenProperties, ClientsAndSizes
<1>2. /\ Written \in Seq(Clients \X Nat) /\ Len(Written) = Len(flash)
      /\ \A n \in 1 .. Len(flash) : Written[n] = flash[n].data
  <2>1. ASSUME NEW n \in 1 .. Len(flash) PROVE flash[n].data \in Clients \X Nat
    <3>1. flash[n] \in EntryRecord
      BY <1>1, ElementOfSeq
    <3> QED
      BY <3>1 DEF EntryRecord
  <2>2. Written \in [1 .. Len(flash) -> Clients \X Nat] /\ DOMAIN Written = 1 .. Len(flash)
    BY <1>1, <2>1 DEF Written
  <2> QED
    BY <1>1, <2>2 DEF Written
<1>3. CASE client[c].phase = "done"
  <2>1. Believed(c) = Stored(c)
    BY <1>3 DEF Believed
  <2>2. /\ Stored(c) \in Seq(Clients \X Nat) /\ Len(Stored(c)) \in Nat
        /\ \A n \in 1 .. Len(Stored(c)) : Stored(c)[n] = <<c, n>>
    BY StoredLength, LenProperties
  <2>3. \A n \in 1 .. Len(Stored(c)) : n \in 1 .. Len(flash)
    BY <1>1, <1>3, <2>2
  <2>4. \A n \in 1 .. Len(Stored(c)) : Stored(c)[n] = Written[n]
    BY <1>2, <1>3, <2>2, <2>3
  <2> QED
    BY <1>2, <1>3, <2>1, <2>2, <2>4, PrefixIntro
<1>4. CASE client[c].phase = "data"
  <2> DEFINE m == client[c].blk - 1
             s == SubSeq(Whole(c), 1, m)
  <2>1. client[c].blk \in 1 .. Size[c]
    BY <1>4 DEF SentOK, ClientOK
  <2>2. m \in Nat /\ m =< Size[c] /\ m =< Len(flash)
    BY <1>1, <1>4, <2>1
  <2> HIDE DEF m
  <2>a. \A n \in 1 .. m : n \in 1 .. Size[c] /\ n \in 1 .. Len(flash) /\ n \in Nat
    BY <1>1, <2>2
  <2>3. \A n \in 1 .. m : Whole(c)[n] = <<c, n>> /\ Whole(c)[n] \in Clients \X Nat
    <3> TAKE n \in 1 .. m
    <3>1. Whole(c)[n] = <<c, n>>
      BY <2>a, StoredLength
    <3> QED
      BY <2>a, <3>1
  <2>4. /\ s \in Seq(Clients \X Nat) /\ Len(s) = m
        /\ \A n \in 1 .. m : s[n] = Whole(c)[n]
    BY <2>2, <2>3, SubSeqProperties
  <2>5. \A n \in 1 .. m : s[n] = Written[n]
    BY <1>2, <1>4, <2>a, <2>3, <2>4
  <2>6. Believed(c) = s
    BY <1>4 DEF Believed, m
  <2> HIDE DEF s
  <2> QED
    BY <1>2, <2>2, <2>4, <2>5, <2>6, PrefixIntro
<1>5. CASE client[c].phase \notin {"data", "done"}
  <2>1. Believed(c) = <<>>
    BY <1>5 DEF Believed
  <2> DEFINE s == <<>>
  <2>2. s \in Seq(Clients \X Nat) /\ Len(s) =< Len(Written) /\ 1 .. Len(s) = {}
    BY <1>1, <1>2
  <2> HIDE DEF s
  <2>3. IsPrefix(s, Written)
    BY <1>2, <2>2, PrefixIntro
  <2> QED
    BY <2>1, <2>3 DEF s
<1> QED
  BY <1>3, <1>4, <1>5

LEMMA NewestInit == Init => NewestInOrder
<1> SUFFICES ASSUME Init PROVE NewestInOrder
  OBVIOUS
<1>1. OpenPorts = {} /\ Len(flash) = 0
  BY DEF Init, OpenPorts
<1> QED
  BY <1>1 DEF NewestInOrder, NewestUpTo

LEMMA FollowedAlways == Spec => []FollowedInv
<1>1. Init => FollowedInv
  BY BaseInit, IdsInit, NewestInit, SentInit, FollowInit, AckedInit, PayloadInit
     DEF FollowedInv, NewestInv
<1>2. FollowedInv /\ [Next]_vars => FollowedInv'
  BY BaseStep, IdsStep, NewestStep, SentStep, FollowStep, AckedStep, PayloadStep
     DEF FollowedInv, NewestInv
<1> QED
  BY <1>1, <1>2, PTL DEF Spec

(* However the packets of any number of clients are lost, repeated and     *)
(* reordered, what the newest session has written to the flash that its    *)
(* request erased are the blocks 1, 2, 3, ..., and while it is open         *)
(* args->block is their number.                                             *)
THEOREM NewestAlwaysInOrder == Spec => []NewestInOrder
<1>1. FollowedInv => NewestInOrder
  BY DEF FollowedInv, NewestInv
<1> QED
  BY <1>1, FollowedAlways, PTL

(* A client that follows the newest session and is the only one whose      *)
(* packets have been stored since its request finds in the flash what it   *)
(* believes is there, whatever the other clients ask for and send.          *)
THEOREM UndisturbedAlwaysInFlash == Spec => []UndisturbedIsInFlash
<1>1. FollowedInv => UndisturbedIsInFlash
  <2> SUFFICES ASSUME FollowedInv, NEW c \in Clients, client[c].id = requests,
                      \A n \in DOMAIN flash : flash[n].by = requests /\ flash[n].data[1] = c
               PROVE  IsPrefix(Believed(c), Written)
    BY DEF UndisturbedIsInFlash
  <2>0. /\ flash \in Seq(EntryRecord) /\ Len(flash) \in Nat /\ DOMAIN flash = 1 .. Len(flash)
        /\ Base /\ Size[c] \in Nat
    BY BaseForm, LenProperties, ClientsAndSizes DEF FollowedInv, NewestInv
  <2>1. ASSUME NEW n \in 1 .. Len(flash) PROVE flash[n].data = <<c, n>>
    <3>1. NewestUpTo(n) = 1 .. n
      BY <2>0 DEF NewestUpTo
    <3>2. Cardinality(NewestUpTo(n)) = n
      BY <2>0, <3>1, CardinalityUpTo
    <3>3. flash[n].blk = n
      BY <2>0, <3>2 DEF FollowedInv, NewestInv, NewestInOrder, NewestUpTo
    <3>4. ~Stranger(c)
      BY DEF Stranger
    <3>5. flash[n].data[2] = n /\ flash[n].data[1] = c
      BY <2>0, <3>3, <3>4 DEF FollowedInv, PayloadOK
    <3>6. flash[n] \in EntryRecord
      BY <2>0, ElementOfSeq
    <3> QED
      BY <3>5, <3>6 DEF EntryRecord
  <2>2. Count = Len(flash)
    <3>1. NewestUpTo(Len(flash)) = 1 .. Len(flash)
      BY <2>0 DEF NewestUpTo
    <3>2. Cardinality(1 .. Len(flash)) = Len(flash)
      BY <2>0, CardinalityUpTo
    <3> QED
      BY <3>1, <3>2 DEF Count
  <2>3. /\ client[c].phase = "data" => client[c].blk - 1 =< Len(flash)
        /\ client[c].phase = "done" => Len(Stored(c)) =< Len(flash)
    BY <2>2 DEF FollowedInv, AckedOK
  <2> QED
    BY <2>0, <2>1, <2>3, BelievedPrefix DEF FollowedInv
<1> QED
  BY <1>1, FollowedAlways, PTL

(***************************************************************************)
(* One client, and a network that keeps the order.                         *)
(***************************************************************************)
LEMMA RequestsStayFirst ==
  ASSUME NEW q \in Seq(Packet), RequestsFirst(q)
  PROVE  /\ \A i \in 1 .. Len(q) : RequestsFirst(RemoveAt(q, i))
         /\ \A e \in Packet : e.op # "WRQ" => RequestsFirst(Append(q, e))
<1>0. Len(q) \in Nat
  BY LenProperties
<1>1. ASSUME NEW i \in 1 .. Len(q) PROVE RequestsFirst(RemoveAt(q, i))
  <2> DEFINE r == RemoveAt(q, i)
  <2>1. /\ Len(r) = Len(q) - 1
        /\ \A j \in 1 .. Len(q) - 1 : r[j] = IF j < i THEN q[j] ELSE q[j + 1]
    BY RemoveAtProperties
  <2> HIDE DEF r
  <2> SUFFICES ASSUME NEW j \in 1 .. Len(q) - 1, NEW m \in 1 .. Len(q) - 1, j < m, r[m].op = "WRQ"
               PROVE  r[j].op = "WRQ"
    BY <1>0, <2>1 DEF RequestsFirst, r
  <2>2. j \in 1 .. Len(q) /\ j + 1 \in 1 .. Len(q) /\ m \in 1 .. Len(q) /\ m + 1 \in 1 .. Len(q)
    BY <1>0
  <2>3. CASE m < i
    BY <2>1, <2>2, <2>3 DEF RequestsFirst
  <2>4. CASE ~(m < i) /\ j < i
    BY <2>1, <2>2, <2>4 DEF RequestsFirst
  <2>5. CASE ~(j < i)
    <3>1. r[j] = q[j + 1] /\ r[m] = q[m + 1] /\ j + 1 < m + 1
      BY <1>0, <2>1, <2>5
    <3> QED
      BY <2>2, <3>1 DEF RequestsFirst
  <2> QED
    BY <2>3, <2>4, <2>5
<1>2. ASSUME NEW e \in Packet, e.op # "WRQ" PROVE RequestsFirst(Append(q, e))
  <2> DEFINE r == Append(q, e)
  <2>1. /\ Len(r) = Len(q) + 1 /\ r[Len(q) + 1] = e
        /\ \A j \in 1 .. Len(q) : r[j] = q[j]
    BY AppendProperties
  <2> HIDE DEF r
  <2> SUFFICES ASSUME NEW j \in 1 .. Len(q) + 1, NEW m \in 1 .. Len(q) + 1, j < m, r[m].op = "WRQ"
               PROVE  r[j].op = "WRQ"
    BY <2>1 DEF RequestsFirst, r
  <2>2. m # Len(q) + 1
    BY <1>2, <2>1
  <2>3. j \in 1 .. Len(q) /\ m \in 1 .. Len(q)
    BY <1>0, <2>2
  <2> QED
    BY <2>1, <2>3 DEF RequestsFirst
<1> QED
  BY <1>1, <1>2

\* Nobody comes back to silence, and an overtaking is not forgotten.
LEMMA IdleBefore ==
  ASSUME Base, SentOK, [Next]_vars, NEW d \in Clients, client'[d].phase = "idle"
  PROVE  client[d].phase = "idle"
<1>0. client \in [Clients -> ClientRecord]
  BY BaseForm
<1>1. ASSUME NEW e \in Clients, Begin(e) \/ AskToRead(e) \/ Transmit(e) \/ GiveUp(e)
      PROVE  client[d].phase = "idle"
  BY <1>0, <1>1 DEF Begin, AskToRead, Transmit, GiveUp, ClientRecord
<1>2. ASSUME NEW i \in 1 .. Len(net), NEW p \in Ports, NEW id \in Nat, NEW b \in Nat,
             SendAck(i, net[i].from, p, id, b)
      PROVE  client[d].phase = "idle"
  <2> DEFINE e == net[i].from
  <2>1. e \in Clients
    BY <1>2, SendAckForms
  <2> HIDE DEF e
  <2>2. CASE client' = [client EXCEPT ![e] = Answered(e, p, id)] /\ Follows(e, p, b)
    <3>1. Answered(e, p, id).phase \in {"data", "done"}
      BY <2>1, <2>2, AnsweredClient DEF SentOK
    <3> QED
      BY <1>0, <2>1, <2>2, <3>1
  <2> QED
    BY <1>2, <2>2, SendAckForms DEF e
<1> QED
  BY <1>1, <1>2, NetworkStep

LEMMA AloneBefore ==
  ASSUME Base, SentOK, [Next]_vars, NEW c \in Clients, Alone(c)'
  PROVE  Alone(c)
<1>1. overtaken => overtaken'
  BY DEF Next, vars, Begin, AskToRead, Transmit, GiveUp, LosePacket, NoPcb, NoPort, BadOpcode,
     NoMemory, ProcessWrite, NoSession, Chained, StoreBlock, CountEmptyBlock, OtherBlock,
     ToSession, Requests, Arrives
<1> QED
  BY <1>1, IdleBefore DEF Alone

\* Without overtaking it is the first packet that arrives.
LEMMA FirstArrives ==
  ASSUME Base, [Next]_vars, overtaken' = FALSE,
         NEW i \in 1 .. Len(net), ProcessWrite(i) \/ \E b : AnswerOf(i, b)
  PROVE  i = 1
<1>1. Arrives(i)
  BY DEF ProcessWrite, AnswerOf, Requests, ToSession
<1>2. ~(i > 1)
  BY <1>1 DEF Arrives
<1>3. Len(net) \in Nat
  BY BaseForm, LenProperties
<1> QED
  BY <1>2, <1>3

LEMMA AloneSends ==
  ASSUME NEW c \in Clients, Alone(c), Alone(c)', NEW k, NewPacket(k)
  PROVE  k.from = c
<1>1. k.from \in Clients
  BY DEF NewPacket, Packet
<1> QED
  BY <1>1 DEF NewPacket, Alone, Active

\* What the session at c's port writes and acknowledges when it answers a packet, and
\* that the other sessions write nothing.
LEMMA FollowedAnswer ==
  ASSUME FollowedInv, [Next]_vars, NEW c \in Clients, AloneAt(c),
         client[c].phase \in {"data", "done"}, NEW b, AnswerOf(1, b), 1 \in 1 .. Len(net)
  PROVE  LET port == client[c].port IN
         /\ \A q \in OpenPorts' \ {port} : sess'[q].block = 0
         /\ \A n \in 1 .. Len(flash') : flash'[n].data = <<c, n>>
         /\ Len(flash) =< Len(flash') /\ Len(flash') =< Len(Stored(c)) /\ Len(flash') \in Nat
         /\ port \in OpenPorts' => /\ sess'[port].block = Len(flash')
                                   /\ Len(flash') < Size[c] /\ client[c].phase = "data"
         /\ port \notin OpenPorts' => Len(flash') = Len(Stored(c))
         /\ net[1].to = port =>
              /\ b - 1 =< Len(flash') /\ b \in Nat
              /\ b = Size[c] => port \notin OpenPorts'
              /\ b # Size[c] => b =< Len(flash')
         /\ \A j \in 1 .. Len(net) : net[j].op # "WRQ"
<1> DEFINE port == client[c].port
           L == Len(flash)
<1>1. /\ Base /\ flash \in Seq(EntryRecord) /\ L \in Nat
      /\ Size[c] \in Nat \ {0} /\ client[c].blk \in 1 .. Size[c] /\ port \in Ports
      /\ Len(Stored(c)) = IF LastLen[c] = "empty" THEN Size[c] - 1 ELSE Size[c]
      /\ Len(net) \in Nat
  BY BaseForm, LenProperties, ClientsAndSizes, StoredLength
     DEF FollowedInv, NewestInv, SentOK, ClientOK
<1>2. /\ net[1] \in Packet /\ PacketOK(net[1]) /\ FollowerSent(c, net[1]) /\ net[1].from = c
      /\ RequestsFirst(net) /\ FollowerWrote(c)
  BY <1>1, PacketType DEF FollowedInv, NewestInv, Base, SentOK, AloneAt, Following
<1>3. /\ net[1].to \in OpenPorts /\ net[1].to \in Ports /\ net[1].to # WellKnown
      /\ requests' = requests /\ b \in Nat
  BY <1>1, AnswerForms, OpenPortsFinite, TftpServerConstants DEF AnswerOf, WellKnown
<1>4. net[1].op \in {"DATA", "ERROR"}
  BY <1>2, <1>3 DEF PacketOK, Packet
<1>5. \A j \in 1 .. Len(net) : net[j].op # "WRQ"
  <2> SUFFICES ASSUME NEW j \in 1 .. Len(net), net[j].op = "WRQ" PROVE FALSE
    OBVIOUS
  <2>1. j # 1 /\ 1 < j
    BY <1>1, <1>4
  <2> QED
    BY <1>2, <1>4, <2>1 DEF RequestsFirst
<1>6. /\ OpenPorts' \subseteq OpenPorts
      /\ net[1].len # "full" => net[1].to \notin OpenPorts'
      /\ net[1].len = "full" => net[1].to \in OpenPorts'
      /\ \A q \in OpenPorts \ {net[1].to} : q \in OpenPorts'
      /\ \A q \in OpenPorts' :
           sess'[q].block = IF q = net[1].to THEN b ELSE sess[q].block
  BY <1>1, AnswerSessions DEF AnswerOf
<1>7. /\ \A p \in OpenPorts \ {port} : sess[p].block = 0
      /\ \A n \in 1 .. L : flash[n].data = <<c, n>>
      /\ client[c].blk - 1 =< L /\ L =< Len(Stored(c))
      /\ port \in OpenPorts => sess[port].block = L /\ L < Size[c] /\ client[c].phase = "data"
      /\ port \notin OpenPorts => L = Len(Stored(c))
  BY <1>2 DEF FollowerWrote
<1>8. CASE net[1].op = "ERROR"
  <2>1. net[1].to # port /\ net[1].len = "short" /\ net[1].blk = 5
    BY <1>2, <1>8 DEF PacketOK
  <2>2. Session(1).block = 0
    BY <1>3, <1>7, <2>1 DEF Session
  <2>3. flash' = flash
    <3>1. ~StoreBlock(1) /\ ~CountEmptyBlock(1)
      <4>1. StoreBlock(1) => net[1].blk = Session(1).block + 1
        BY <1>1, AnswerForms
      <4>2. CountEmptyBlock(1) => net[1].len = "empty"
        BY <1>1, AnswerForms
      <4> QED
        BY <2>1, <2>2, <4>1, <4>2
    <3> QED
      BY <1>1, <3>1, AnswerForms DEF AnswerOf
  <2> QED
    BY <1>1, <1>5, <1>6, <1>7, <2>1, <2>3, SMTT(30)
<1>9. CASE net[1].op = "DATA"
  <2>1. /\ net[1].to = port /\ net[1].blk =< client[c].blk /\ net[1].blk \in 1 .. Size[c]
        /\ net[1].len = IF net[1].blk < Size[c] THEN "full" ELSE LastLen[c]
        /\ Session(1).block = L /\ L < Size[c] /\ client[c].phase = "data"
        /\ LastLen[c] \in {"short", "empty"} /\ port \in OpenPorts
    BY <1>2, <1>3, <1>7, <1>9, ClientsAndSizes DEF PacketOK, FollowerSent, Session
  <2>2. \A q \in OpenPorts' \ {port} : sess'[q].block = 0
    BY <1>6, <1>7, <2>1
  <2>3. CASE StoreBlock(1) /\ b = L + 1
    <3> DEFINE e == [by |-> Session(1).id, blk |-> net[1].blk, data |-> Payload(1)]
    <3>1. /\ flash' = Append(flash, e) /\ e \in EntryRecord
          /\ net[1].len # "empty" /\ net[1].blk = L + 1
      BY <1>1, <2>1, <2>3, AnswerForms DEF StoreBlock
    <3>2. e.data = <<c, L + 1>>
      BY <1>2, <1>9, <3>1 DEF Payload
    <3> HIDE DEF e
    <3>3. /\ Len(flash') = L + 1 /\ flash'[L + 1] = e
          /\ \A n \in 1 .. L : flash'[n] = flash[n]
      BY <1>1, <1>3, <3>1, FlashGrows
    <3>4. \A n \in 1 .. Len(flash') : flash'[n].data = <<c, n>>
      <4> TAKE n \in 1 .. Len(flash')
      <4>1. n = L + 1 \/ n \in 1 .. L
        BY <1>1, <3>3
      <4> QED
        BY <1>7, <3>2, <3>3, <4>1
    <3> HIDE DEF L, port
    <3>5. L + 1 =< Len(Stored(c)) /\ (net[1].len # "full" => L + 1 = Len(Stored(c)) /\ L + 1 = Size[c])
      BY <1>1, <2>1, <3>1
    <3>6. net[1].len = "full" => L + 1 < Size[c]
      BY <1>1, <2>1, <3>1
    <3> QED
      BY <1>1, <1>5, <1>6, <2>1, <2>2, <2>3, <3>3, <3>4, <3>5, <3>6, SMTT(30) DEF L, port
  <2>4. CASE CountEmptyBlock(1) /\ b = L + 1
    <3>1. /\ flash' = flash /\ net[1].len = "empty" /\ net[1].blk = L + 1
      BY <1>1, <2>1, <2>4, AnswerForms
    <3>2. L + 1 = Size[c] /\ LastLen[c] = "empty"
      BY <1>1, <2>1, <3>1
    <3>3. net[1].to \notin OpenPorts' /\ L = Len(Stored(c))
      BY <1>1, <1>6, <3>1, <3>2
    <3>4. Len(flash') = L /\ \A n \in 1 .. Len(flash') : flash'[n].data = <<c, n>>
      BY <1>7, <3>1
    <3>5. /\ port \notin OpenPorts' /\ Len(flash') \in Nat
          /\ Len(flash) =< Len(flash') /\ Len(flash') =< Len(Stored(c))
          /\ b = Size[c] /\ b \in Nat /\ b - 1 =< Len(flash')
      BY <1>1, <2>1, <2>4, <3>2, <3>3, <3>4
    <3> HIDE DEF L
    <3> QED
      BY <1>5, <2>2, <3>3, <3>4, <3>5
  <2>5. CASE OtherBlock(1) /\ b = L
    <3>1. flash' = flash /\ net[1].blk # L + 1
      BY <1>1, <2>1, <2>5, AnswerForms
    <3>2. net[1].blk < Size[c]
      BY <1>1, <1>7, <2>1, <3>1
    <3>3. /\ net[1].len = "full" /\ port \in OpenPorts' /\ sess'[port].block = L
          /\ L =< Len(Stored(c)) /\ b \in Nat /\ b - 1 =< L /\ b =< L /\ b # Size[c]
      BY <1>1, <1>6, <1>7, <2>1, <2>5, <3>2
    <3>4. Len(flash) =< Len(flash') /\ Len(flash') = L /\ Len(flash') \in Nat
      BY <1>1, <3>1
    <3>5. \A n \in 1 .. Len(flash') : flash'[n].data = <<c, n>>
      BY <1>7, <3>1
    <3> HIDE DEF L
    <3> QED
      BY <1>5, <2>1, <2>2, <3>3, <3>4, <3>5
  <2> QED
    BY <2>1, <2>3, <2>4, <2>5 DEF AnswerOf
<1> QED
  BY <1>4, <1>8, <1>9

LEMMA FollowedServer ==
  ASSUME FollowedInv, [Next]_vars, NEW c \in Clients, Alone(c), AloneAt(c), Alone(c)',
         client[c].phase \in {"data", "done"}, client'[c].phase \in {"data", "done"}
  PROVE  /\ FollowerWrote(c)' /\ client[c].blk =< client'[c].blk
         /\ (\E j \in 1 .. Len(net) : net[j].op = "WRQ")
              => client'[c].port \in OpenPorts' /\ flash' = <<>>
<1> DEFINE port == client[c].port
           WasRequested == \E j \in 1 .. Len(net) : net[j].op = "WRQ"
<1>1. /\ Base /\ SentOK /\ flash \in Seq(EntryRecord) /\ Len(flash) \in Nat
      /\ Size[c] \in Nat \ {0} /\ client[c].blk \in 1 .. Size[c] /\ port \in Ports
      /\ Following(c) /\ FollowerWrote(c) /\ overtaken' = FALSE
  BY BaseForm, LenProperties, ClientsAndSizes
     DEF FollowedInv, NewestInv, SentOK, ClientOK, AloneAt, Following, Alone
<1>2. client'[c].port = port
  BY <1>1, ClientKeepsPort DEF Served
<1>3. /\ \A p \in OpenPorts \ {port} : sess[p].block = 0
      /\ \A n \in 1 .. Len(flash) : flash[n].data = <<c, n>>
      /\ client[c].blk - 1 =< Len(flash) /\ Len(flash) =< Len(Stored(c))
      /\ port \in OpenPorts =>
           sess[port].block = Len(flash) /\ Len(flash) < Size[c] /\ client[c].phase = "data"
      /\ port \notin OpenPorts => Len(flash) = Len(Stored(c))
  BY <1>1 DEF FollowerWrote
<1>4. ASSUME \A p \in OpenPorts' \ {port} : sess'[p].block = 0,
             \A n \in 1 .. Len(flash') : flash'[n].data = <<c, n>>,
             client'[c].blk - 1 =< Len(flash'), Len(flash') =< Len(Stored(c)),
             port \in OpenPorts' => /\ sess'[port].block = Len(flash')
                                    /\ Len(flash') < Size[c] /\ client'[c].phase = "data",
             port \notin OpenPorts' => Len(flash') = Len(Stored(c))
      PROVE  FollowerWrote(c)'
  BY <1>2, <1>4 DEF FollowerWrote, Stored, Whole
<1>5. ASSUME NEW i \in 1 .. Len(net), ProcessWrite(i)
      PROVE  /\ port \in OpenPorts /\ flash = <<>> /\ flash' = <<>>
             /\ port \in OpenPorts' /\ sess'[port] = sess[port]
             /\ \A p \in OpenPorts' \ {port} : sess'[p].block = 0
  <2>1. net[i].op = "WRQ" /\ flash' = <<>>
    BY <1>5 DEF ProcessWrite, Requests
  <2>2. port \in OpenPorts /\ flash = <<>>
    BY <1>1, <2>1 DEF Following, FollowerSent
  <2>3. PICK p \in FreePorts : sess' = [sess EXCEPT ![p] = [block |-> 0, id |-> requests + 1]]
    BY <1>5 DEF ProcessWrite
  <2>4. /\ OpenPorts' = OpenPorts \cup {p} /\ p \notin OpenPorts
        /\ sess'[p].block = 0
        /\ \A q \in OpenPorts : sess'[q] = sess[q]
    BY <1>1, <2>3, NewSessions
  <2> QED
    BY <1>3, <2>1, <2>2, <2>4
<1>6. ASSUME NEW i \in 1 .. Len(net), NEW b, AnswerOf(i, b)
      PROVE  /\ i = 1 /\ ~WasRequested
             /\ \A q \in OpenPorts' \ {port} : sess'[q].block = 0
             /\ \A n \in 1 .. Len(flash') : flash'[n].data = <<c, n>>
             /\ Len(flash) =< Len(flash') /\ Len(flash') =< Len(Stored(c)) /\ Len(flash') \in Nat
             /\ port \in OpenPorts' => /\ sess'[port].block = Len(flash')
                                       /\ Len(flash') < Size[c] /\ client[c].phase = "data"
             /\ port \notin OpenPorts' => Len(flash') = Len(Stored(c))
             /\ net[1].to = port => /\ b - 1 =< Len(flash') /\ b \in Nat
                                    /\ b = Size[c] => port \notin OpenPorts'
                                    /\ b # Size[c] => b =< Len(flash')
  <2>1. i = 1
    BY <1>1, <1>6, FirstArrives
  <2> QED
    BY <1>6, <2>1, FollowedAnswer
<1>7. CASE Quiet(c)
  <2>0. client'[c].phase = client[c].phase /\ client'[c].blk = client[c].blk
    BY <1>7 DEF Quiet
  <2>1. CASE UNCHANGED <<sess, flash, requests>>
    <3>1. OpenPorts' = OpenPorts
      BY <2>1 DEF OpenPorts
    <3>2. FollowerWrote(c)'
      BY <1>3, <1>4, <2>0, <2>1, <3>1
    <3>3. WasRequested => port \in OpenPorts /\ flash = <<>>
      BY <1>1 DEF Following, FollowerSent
    <3> QED
      BY <1>1, <1>2, <2>0, <2>1, <3>1, <3>2, <3>3
  <2>2. ASSUME NEW i \in 1 .. Len(net), ProcessWrite(i)
        PROVE  /\ FollowerWrote(c)' /\ client[c].blk =< client'[c].blk
               /\ WasRequested => client'[c].port \in OpenPorts' /\ flash' = <<>>
    <3>1. /\ port \in OpenPorts /\ flash' = flash /\ flash' = <<>>
          /\ port \in OpenPorts' /\ sess'[port] = sess[port]
          /\ \A p \in OpenPorts' \ {port} : sess'[p].block = 0
      BY <1>5, <2>2
    <3> HIDE DEF port
    <3>2. FollowerWrote(c)'
      BY <1>3, <1>4, <2>0, <3>1
    <3> QED
      BY <1>1, <1>2, <2>0, <3>1, <3>2
  <2>3. ASSUME NEW i \in 1 .. Len(net), NEW b, AnswerOf(i, b)
        PROVE  /\ FollowerWrote(c)' /\ client[c].blk =< client'[c].blk
               /\ ~WasRequested
    <3>1. client'[c].blk - 1 =< Len(flash')
      BY <1>1, <1>3, <1>6, <2>0, <2>3
    <3>2. FollowerWrote(c)'
      BY <1>4, <1>6, <2>0, <2>3, <3>1
    <3> QED
      BY <1>1, <1>6, <2>0, <2>3, <3>2
  <2> QED
    BY <1>1, <2>1, <2>2, <2>3, ServerStep, AnswerForms
<1>8. ASSUME NEW i \in 1 .. Len(net), NEW p, NEW id, NEW b, AnsweredBy(c, i, p, id, b)
      PROVE  /\ FollowerWrote(c)' /\ client[c].blk =< client'[c].blk
             /\ ~WasRequested
  <2>1. /\ client'[c].blk \in 1 .. Size[c] /\ b \in Nat
        /\ client'[c].phase = "data" => client'[c].blk = b + 1
        /\ client'[c].phase = "done" => b = Size[c] /\ client'[c].blk = b
        /\ client[c].blk = b
        /\ client[c].phase = "data" => port = p
        /\ client[c].phase \in {"request", "data"}
    BY <1>1, <1>8, AnsweredClient DEF AnsweredBy, SentOK
  <2>2. port = p
    BY <2>1
  <2>3. CASE ProcessWrite(i) /\ p \in FreePorts
    BY <1>5, <2>2, <2>3 DEF FreePorts, OpenPorts
  <2>4. CASE AnswerOf(i, b) /\ p = net[i].to
    <3>1. client'[c].blk - 1 =< Len(flash')
      BY <1>1, <1>6, <2>1, <2>2, <2>4, SMTT(30)
    <3>2. port \in OpenPorts' => client'[c].phase = "data"
      BY <1>6, <2>1, <2>2, <2>4
    <3>3. FollowerWrote(c)'
      BY <1>4, <1>6, <2>4, <3>1, <3>2
    <3> QED
      BY <1>1, <1>6, <2>1, <2>4, <3>3
  <2> QED
    BY <1>8, <2>3, <2>4 DEF AnsweredBy
<1> QED
  BY <1>1, <1>7, <1>8, ClientForms

LEMMA FollowingStep ==
  ASSUME FollowedInv, [Next]_vars, NEW c \in Clients, Alone(c), AloneAt(c), Alone(c)',
         client[c].phase \in {"data", "done"}, client'[c].phase \in {"data", "done"}
  PROVE  Following(c)'
<1>1. /\ Base /\ SentOK /\ net \in Seq(Packet) /\ client \in [Clients -> ClientRecord]
      /\ RequestsFirst(net) /\ \A j \in 1 .. Len(net) : FollowerSent(c, net[j])
      /\ client'[c].port = client[c].port
  <2>1. Base /\ SentOK
    BY DEF FollowedInv, NewestInv
  <2> QED
    BY <2>1, BaseForm, ClientKeepsPort DEF AloneAt, Following, Served
<1>2. /\ FollowerWrote(c)' /\ client[c].blk =< client'[c].blk
      /\ (\E j \in 1 .. Len(net) : net[j].op = "WRQ")
           => client'[c].port \in OpenPorts' /\ flash' = <<>>
  BY FollowedServer
<1>3. RequestsFirst(net')
  <2>1. ASSUME NEW i \in 1 .. Len(net), net' = RemoveAt(net, i) PROVE RequestsFirst(net')
    BY <1>1, <2>1, RequestsStayFirst
  <2>2. ASSUME NEW i \in 1 .. Len(net), NEW e \in Packet, e.op = "ERROR",
               net' = Append(RemoveAt(net, i), e)
        PROVE  RequestsFirst(net')
    BY <1>1, <2>2, RemoveAtProperties, RequestsStayFirst
  <2>3. ASSUME NEW i \in 1 .. Len(net), NEW p \in Ports, NEW id \in Nat, NEW b \in Nat,
               SendAck(i, net[i].from, p, id, b)
        PROVE  RequestsFirst(net')
    BY <1>1, <2>1, <2>2, <2>3, SendAckForms
  <2>4. ASSUME NEW d \in Clients, Begin(d) \/ AskToRead(d) \/ Transmit(d) \/ GiveUp(d)
        PROVE  RequestsFirst(net')
    <3>1. CASE AskToRead(d)
      <4>1. client'[d].phase = "gone" /\ client[d].phase = "idle"
        BY <1>1, <3>1 DEF AskToRead, ClientRecord
      <4> QED
        BY <4>1 DEF Alone
    <3>2. CASE Transmit(d)
      <4>1. d = c
        BY <3>2 DEF Transmit, Active, Alone
      <4>2. Current(c) \in Packet /\ Current(c).op = "DATA"
        BY <1>1, CurrentType
      <4> QED
        BY <1>1, <3>2, <4>1, <4>2, RequestsStayFirst DEF Transmit
    <3>3. CASE Begin(d) \/ GiveUp(d)
      BY <1>1, <3>3 DEF Begin, GiveUp
    <3> QED
      BY <2>4, <3>1, <3>2, <3>3
  <2> QED
    BY <1>1, <2>1, <2>3, <2>4, NetworkStep
<1>4. ASSUME NEW j \in 1 .. Len(net'), NEW k, k = net'[j] PROVE FollowerSent(c, k)'
  <2>1. CASE \E m \in 1 .. Len(net) : k = net[m]
    <3>1. FollowerSent(c, k) /\ k \in Packet
      BY <1>1, <2>1, PacketType DEF Base
    <3>2. client[c].blk \in Nat /\ client'[c].blk \in Nat /\ k.blk \in Nat
      <4>1. (client \in [Clients -> ClientRecord])'
        BY <1>1, BaseStep, BaseForm DEF Base, TypeOK, ClientRecord
      <4> QED
        BY <1>1, <3>1, <4>1 DEF ClientRecord, Packet
    <3> QED
      BY <1>1, <1>2, <2>1, <3>1, <3>2 DEF FollowerSent
  <2>2. CASE NewPacket(k)
    <3>1. k.from = c /\ k \in Packet
      BY <2>2, AloneSends DEF NewPacket
    <3>2. CASE k.op = "RRQ" /\ client'[k.from].phase = "gone"
      BY <3>1, <3>2
    <3>3. CASE k = Current(c) /\ Active(c)
      <4>1. k.op = "DATA" /\ k.to = client[c].port /\ k.blk = client[c].blk
        BY <1>1, <3>3, CurrentType
      <4> QED
        BY <1>1, <1>2, <4>1 DEF FollowerSent
    <3>4. CASE k.op = "ERROR"
      BY <3>4 DEF FollowerSent
    <3> QED
      BY <2>2, <3>1, <3>2, <3>3, <3>4 DEF NewPacket
  <2> QED
    BY <1>1, <1>4, <2>1, <2>2, SentPackets
<1> QED
  BY <1>2, <1>3, <1>4 DEF Following, FollowerSent

LEMMA RequestingStep ==
  ASSUME FollowedInv, [Next]_vars, NEW c \in Clients, Alone(c), AloneAt(c), Alone(c)',
         client[c].phase \in {"idle", "request"}
  PROVE  /\ client'[c].phase = "idle" => net' = <<>>
         /\ client'[c].phase \in {"idle", "request"} => Requesting(c)'
         /\ client'[c].phase \in {"data", "done"} => Following(c)'
<1>1. /\ Base /\ SentOK /\ net \in Seq(Packet) /\ Len(net) \in Nat
      /\ Requesting(c) /\ (client[c].phase = "idle" => net = <<>>)
      /\ net' \in Seq(Packet) /\ client[c].blk = 0 /\ Size[c] \in Nat \ {0}
  <2>1. Base /\ SentOK /\ Base'
    BY BaseStep DEF FollowedInv, NewestInv
  <2>2. net' \in Seq(Packet)
    BY <2>1 DEF Base, TypeOK
  <2> QED
    BY <2>1, <2>2, BaseForm, LenProperties, ClientsAndSizes DEF AloneAt, SentOK, ClientOK
<1>2. \A i \in 1 .. Len(net) : net[i].op = "WRQ" /\ net[i].to = WellKnown
  BY <1>1 DEF Requesting, SentOK, PacketOK
<1>3. ASSUME NEW i \in 1 .. Len(net), NEW b, AnswerOf(i, b) PROVE FALSE
  <2>1. net[i].to \in Ports
    BY <1>1, <1>3, AnswerForms, OpenPortsFinite
  <2> QED
    BY <1>2, <2>1, TftpServerConstants DEF WellKnown
<1>4. ASSUME NEW i \in 1 .. Len(net), ProcessWrite(i)
      PROVE  flash' = <<>> /\ \A p \in OpenPorts' : sess'[p].block = 0
  <2>1. PICK p \in FreePorts : sess' = [sess EXCEPT ![p] = [block |-> 0, id |-> requests + 1]]
    BY <1>4 DEF ProcessWrite
  <2>2. /\ OpenPorts' = OpenPorts \cup {p} /\ sess'[p].block = 0
        /\ \A q \in OpenPorts : sess'[q] = sess[q]
    BY <1>1, <2>1, NewSessions
  <2> QED
    BY <1>1, <1>4, <2>2 DEF ProcessWrite, Requesting
<1>5. flash' = <<>> /\ \A p \in OpenPorts' : sess'[p].block = 0
  <2>1. CASE UNCHANGED <<sess, flash, requests>>
    BY <1>1, <2>1 DEF Requesting, OpenPorts
  <2> QED
    BY <1>1, <1>3, <1>4, <2>1, ServerStep, AnswerForms
<1>6. ASSUME client'[c].phase # "gone", NEW j \in 1 .. Len(net')
      PROVE  net'[j].op = "WRQ" /\ client[c].phase = "request"
  <2>1. CASE \E k \in 1 .. Len(net) : net'[j] = net[k]
    <3>1. net # <<>>
      BY <2>1
    <3> QED
      BY <1>1, <1>2, <2>1, <3>1
  <2>2. CASE NewPacket(net'[j])
    <3>1. net'[j].from = c
      BY <2>2, AloneSends
    <3>2. net'[j] = Current(c) /\ client[c].phase = "request"
      BY <1>6, <2>2, <3>1 DEF NewPacket, Active
    <3> QED
      BY <1>1, <3>2, CurrentType
  <2> QED
    BY <1>1, <2>1, <2>2, SentPackets
<1>7. ASSUME client'[c].phase = "idle" PROVE net' = <<>>
  <2>1. client[c].phase = "idle"
    BY <1>1, <1>7, IdleBefore
  <2>2. 1 .. Len(net') = {}
    BY <1>6, <1>7, <2>1
  <2>3. Len(net') \in Nat /\ 1 \notin 1 .. Len(net')
    BY <1>1, <2>2, LenProperties
  <2>4. Len(net') = 0
    BY <2>3
  <2> QED
    BY <1>1, <2>4, EmptySeq
<1>8. ASSUME client'[c].phase \in {"idle", "request"} PROVE Requesting(c)'
  BY <1>5, <1>6, <1>8 DEF Requesting
<1>9. ASSUME client'[c].phase \in {"data", "done"} PROVE Following(c)'
  <2>1. ~Quiet(c)
    BY <1>9 DEF Quiet
  <2>0. PICK i \in 1 .. Len(net) : \E p, id, b : AnsweredBy(c, i, p, id, b)
    BY <1>1, <2>1, ClientForms
  <2>2. PICK p, id, b : AnsweredBy(c, i, p, id, b)
    BY <2>0
  <2>3. /\ ProcessWrite(i) /\ b = 0 /\ p \in FreePorts
        /\ sess' = [sess EXCEPT ![p] = [block |-> 0, id |-> requests + 1]]
    BY <1>3, <2>2 DEF AnsweredBy
  <2>4. client'[c].port = p /\ client'[c].phase = "data" /\ client'[c].blk = 1
    BY <1>1, <2>2, <2>3, AnsweredClient DEF AnsweredBy, SentOK
  <2>5. p \in OpenPorts'
    BY <1>1, <2>3, NewSessions
  <2>6. RequestsFirst(net')
    BY <1>6, <1>9 DEF RequestsFirst
  <2>7. ASSUME NEW j \in 1 .. Len(net'), NEW k, k = net'[j] PROVE FollowerSent(c, k)'
    BY <1>5, <1>6, <1>9, <2>4, <2>5, <2>7 DEF FollowerSent
  <2>8. Len(flash') = 0 /\ Len(Stored(c)) \in Nat
    BY <1>5, StoredLength, LenProperties
  <2>9. FollowerWrote(c)'
    <3>1. Len(flash') =< Len(Stored(c)) /\ client'[c].blk - 1 =< Len(flash')
          /\ 1 .. Len(flash') = {} /\ Len(flash') < Size[c]
      BY <1>1, <2>4, <2>8
    <3> QED
      BY <1>5, <2>4, <2>5, <2>8, <3>1 DEF FollowerWrote, Stored, Whole
  <2> QED
    BY <2>6, <2>7, <2>9 DEF Following, FollowerSent
<1> QED
  BY <1>7, <1>8, <1>9

LEMMA AloneInit == Init => AloneOK
<1> SUFFICES ASSUME Init, NEW c \in Clients PROVE AloneAt(c)
  BY DEF AloneOK
<1>1. OpenPorts = {} /\ net = <<>> /\ Len(net) = 0 /\ flash = <<>> /\ client[c].phase = "idle"
  BY DEF Init, OpenPorts
<1> QED
  BY <1>1 DEF AloneAt, Requesting

LEMMA AloneStep == AloneInv /\ [Next]_vars => AloneOK'
<1> SUFFICES ASSUME AloneInv, [Next]_vars, NEW c \in Clients, Alone(c)'
             PROVE  AloneAt(c)'
  BY DEF AloneOK
<1>1. FollowedInv /\ Base /\ SentOK
  BY DEF AloneInv, FollowedInv, NewestInv
<1>2. Alone(c) /\ AloneAt(c)
  BY <1>1, AloneBefore DEF AloneInv, AloneOK
<1>3. ASSUME NEW j \in 1 .. Len(net') PROVE net'[j].from = c
  BY <1>1, <1>2, <1>3, SentPackets, AloneSends DEF AloneAt
<1>4. CASE client[c].phase \in {"idle", "request"}
  BY <1>1, <1>2, <1>3, <1>4, RequestingStep DEF AloneAt
<1>5. CASE client[c].phase \notin {"idle", "request"}
  <2>1. client[c].phase \in Served
    BY <1>1, <1>5, BaseForm DEF ClientRecord, Served
  <2>2. client'[c].phase \in Served
    BY <1>1, <2>1, ClientKeepsPort
  <2>3. ASSUME client'[c].phase \in {"data", "done"}
        PROVE  client[c].phase \in {"data", "done"}
    <3>1. CASE Quiet(c)
      BY <2>3, <3>1 DEF Quiet
    <3>2. ASSUME NEW i \in 1 .. Len(net), NEW p, NEW id, NEW b, AnsweredBy(c, i, p, id, b)
          PROVE  client[c].phase \in {"data", "done"}
      BY <1>5, <3>2 DEF AnsweredBy, Follows
    <3> QED
      BY <1>1, <3>1, <3>2, ClientForms
  <2> QED
    BY <1>1, <1>2, <1>3, <2>2, <2>3, FollowingStep DEF AloneAt, Served
<1> QED
  BY <1>4, <1>5

(* As long as one client alone has sent anything and no packet has         *)
(* overtaken another one, what it believes is in the flash is there: its    *)
(* repeated requests erase the flash only before any of its data arrives,  *)
(* and the sessions it does not follow write nothing.                       *)
THEOREM BelievedAlwaysInFlash == Spec => []BelievedIsInFlash
<1>1. Init => AloneOK
  BY AloneInit
<1>2. AloneInv => BelievedIsInFlash
  <2> SUFFICES ASSUME AloneInv, NEW c \in Clients, Alone(c)
               PROVE  IsPrefix(Believed(c), Written)
    BY DEF BelievedIsInFlash, Alone
  <2>1. Base /\ SentOK /\ AloneAt(c)
    BY DEF AloneInv, FollowedInv, NewestInv, AloneOK
  <2>2. client[c].phase \in {"data", "done"} => FollowerWrote(c)
    BY <2>1 DEF AloneAt, Following
  <2>3. /\ Len(flash) \in Nat /\ Len(Stored(c)) \in Nat
    BY <2>1, BaseForm, LenProperties, StoredLength
  <2>4. /\ client[c].phase \in {"data", "done"} =>
             \A n \in 1 .. Len(flash) : flash[n].data = <<c, n>>
        /\ client[c].phase = "data" => client[c].blk - 1 =< Len(flash)
        /\ client[c].phase = "done" => Len(Stored(c)) =< Len(flash)
    BY <2>2, <2>3 DEF FollowerWrote
  <2> QED
    BY <2>1, <2>4, BelievedPrefix
<1>3. AloneOK /\ FollowedInv /\ [Next]_vars => AloneOK'
  BY AloneStep DEF AloneInv
<1>4. AloneOK /\ FollowedInv => BelievedIsInFlash
  BY <1>2 DEF AloneInv
<1> QED
  BY <1>1, <1>3, <1>4, FollowedAlways, PTL DEF Spec
=============================================================================
