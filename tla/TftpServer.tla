----------------------------- MODULE TftpServer -----------------------------
(***************************************************************************)
(* The TFTP server that programs the flash (tftpserver.c; only write       *)
(* requests, compiled with USE_IAP_TFTP).                                  *)
(*                                                                         *)
(* Everything runs in lwIP's thread, so one callback is one action.  A     *)
(* write request to port 69 gets a UDP pcb of its own and a block of       *)
(* arguments (a session here); the flash, Flash_Write_Address and the      *)
(* erasing of the flash are shared by all sessions.  A session ends with   *)
(* the first packet that is shorter than TFTP_DATA_PKT_LEN_MAX, whatever   *)
(* its opcode, block or sender; nothing ends a session whose client is     *)
(* gone.                                                                   *)
(*                                                                         *)
(* The clients and the network are external: client c writes the file of   *)
(* Size[c] blocks, repeats a packet up to MaxTries times, follows the      *)
(* first session that answers and answers any other with an error packet.  *)
(* Packets to the server may be lost and overtake each other;              *)
(* acknowledgements are delivered or lost.  What a block carries is the    *)
(* pair <<client, block>>.  The flash accepts every write.                 *)
(***************************************************************************)
EXTENDS Integers, Sequences, SequencesExt, FiniteSets

CONSTANTS
  Size,        \* Size[c]: blocks of the file of client c
  LastLen,     \* LastLen[c]: length of its last block, "short" or "empty"
  Ports,       \* local ports udp_bind may choose from
  MaxPcbs,     \* UDP pcbs left for the sessions (MEMP_NUM_UDP_PCB)
  MaxTries,    \* bound: times a client sends one packet
  MaxFlight    \* bound: packets in transit to the server

ASSUME TftpServerConstants ==
  /\ Size \in Seq(Nat \ {0}) /\ LastLen \in [1 .. Len(Size) -> {"short", "empty"}]
  /\ IsFiniteSet(Ports) /\ Ports \subseteq Nat \ {0}
  /\ MaxPcbs \in Nat /\ MaxTries \in Nat /\ MaxFlight \in Nat

VARIABLES
  sess,        \* per local port: the arguments of its session, or Free
  flash,       \* what has been written behind USER_FLASH_FIRST_PAGE_ADDRESS
               \* since it was erased; its length is Flash_Write_Address
  pcbs,        \* UDP pcbs taken by udp_new
  heap,        \* argument blocks taken by mem_malloc
  pbufs,       \* packets that are not given back
  client, net, \* external: the clients, packets to the server
  \* history: write requests executed; callbacks that returned early; a
  \* packet has overtaken another one
  requests, unbound, dropped, overtaken

serverVars == <<sess, flash, pcbs, heap, pbufs, requests, unbound, dropped>>
vars == <<sess, flash, pcbs, heap, pbufs, client, net, requests, unbound, dropped,
          overtaken>>
-----------------------------------------------------------------------------
Clients   == 1 .. Len(Size)
WellKnown == 0                          \* port 69
Free      == [block |-> -1, id |-> 0]
OpenPorts == {p \in Ports : sess[p] # Free}
Whole(c)  == [n \in 1 .. Size[c] |-> <<c, n>>]
\* the blocks of a file that carry data
Stored(c) == IF LastLen[c] = "empty" THEN Front(Whole(c)) ELSE Whole(c)
Packet    == [op : {"WRQ", "RRQ", "DATA", "ERROR"}, to : Ports \cup {WellKnown},
              from : Clients, blk : Nat, len : {"full", "short", "empty"}]

\* IAP_tftpd_init: port 69 is open, nothing has been requested
Init ==
  /\ sess = [p \in Ports |-> Free]
  /\ flash = <<>>
  /\ pcbs = 0 /\ heap = 0 /\ pbufs = 0
  /\ client = [c \in Clients |-> [phase |-> "idle", port |-> WellKnown, id |-> 0,
                                  blk |-> 0, tries |-> 0]]
  /\ net = <<>>
  /\ requests = 0 /\ unbound = 0 /\ dropped = 0 /\ overtaken = FALSE
-----------------------------------------------------------------------------
(* The clients and the network. *)

Active(c) == client[c].phase \in {"request", "data"}

Current(c) == \* the packet client c sends until it is acknowledged
  IF client[c].phase = "request"
    THEN [op |-> "WRQ", to |-> WellKnown, from |-> c, blk |-> 0, len |-> "short"]
    ELSE [op |-> "DATA", to |-> client[c].port, from |-> c, blk |-> client[c].blk,
          len |-> IF client[c].blk < Size[c] THEN "full" ELSE LastLen[c]]

Begin(c) ==
  /\ client[c].phase = "idle"
  /\ client' = [client EXCEPT ![c].phase = "request"]
  /\ UNCHANGED <<serverVars, net, overtaken>>

\* a read request, which the server does not serve
AskToRead(c) ==
  /\ client[c].phase = "idle" /\ Len(net) < MaxFlight
  /\ net' = Append(net, [op |-> "RRQ", to |-> WellKnown, from |-> c, blk |-> 0,
                         len |-> "short"])
  /\ client' = [client EXCEPT ![c].phase = "gone"]
  /\ UNCHANGED <<serverVars, overtaken>>

\* the first time a packet is sent and each time it is repeated
Transmit(c) ==
  /\ Active(c) /\ client[c].tries < MaxTries /\ Len(net) < MaxFlight
  /\ net' = Append(net, Current(c))
  /\ client' = [client EXCEPT ![c].tries = @ + 1]
  /\ UNCHANGED <<serverVars, overtaken>>

\* at any time, and at the latest when it has sent a packet MaxTries times
GiveUp(c) ==
  /\ Active(c)
  /\ client' = [client EXCEPT ![c].phase = "gone"]
  /\ UNCHANGED <<serverVars, net, overtaken>>

LosePacket(i) ==
  /\ net' = RemoveAt(net, i)
  /\ UNCHANGED <<serverVars, client, overtaken>>

\* the i-th packet in transit is the next to arrive
Arrives(i) == overtaken' = (overtaken \/ i > 1)

Advanced(c) ==
  IF client[c].blk = Size[c]
    THEN [client[c] EXCEPT !.phase = "done"]
    ELSE [client[c] EXCEPT !.phase = "data", !.blk = @ + 1, !.tries = 0]

Follows(c, p, blk) == \* the acknowledgement is the one client c waits for
  \/ client[c].phase = "request" /\ blk = 0
  \/ client[c].phase = "data" /\ client[c].port = p /\ client[c].blk = blk

\* The packets in transit are left after the i-th was received.  The
\* acknowledgement is lost, or not sent because there is no pbuf for it, or
\* reaches c; an answer of a session c does not follow is refused.
SendAck(i, c, p, id, blk) ==
  LET left == RemoveAt(net, i)
      refusal == [op |-> "ERROR", to |-> p, from |-> c, blk |-> 5, len |-> "short"]
  IN  \/ net' = left /\ UNCHANGED client
      \/ /\ Follows(c, p, blk)
         /\ net' = left
         /\ client' = [client EXCEPT ![c] = [Advanced(c) EXCEPT !.port = p, !.id = id]]
      \/ /\ client[c].phase = "data" /\ client[c].port # p
         /\ net' = Append(left, refusal)
         /\ UNCHANGED client
-----------------------------------------------------------------------------
(* IAP_tftp_recv_callback: a packet to port 69. *)

\* mutant: the result of udp_new is not looked at
HasPcb_Unchecked == TRUE
HasPcb    == pcbs < MaxPcbs
FreePorts == {p \in Ports : sess[p] = Free}

Requests(i, ops) == Arrives(i) /\ net[i].to = WellKnown /\ net[i].op \in ops

\* udp_new fails: neither freed nor answered
NoPcb(i) ==
  /\ Requests(i, {"WRQ", "RRQ"}) /\ ~HasPcb
  /\ net' = RemoveAt(net, i)
  /\ pbufs' = pbufs + 1
  /\ dropped' = dropped + 1
  /\ UNCHANGED <<sess, flash, pcbs, heap, client, requests, unbound>>

\* udp_bind fails: the pcb is not removed either
NoPort(i) ==
  /\ Requests(i, {"WRQ", "RRQ"}) /\ HasPcb /\ FreePorts = {}
  /\ net' = RemoveAt(net, i)
  /\ pcbs' = pcbs + 1
  /\ pbufs' = pbufs + 1
  /\ unbound' = unbound + 1
  /\ dropped' = dropped + 1
  /\ UNCHANGED <<sess, flash, heap, client, requests>>

\* not a write request: the new pcb is removed again
BadOpcode(i) ==
  /\ Requests(i, {"RRQ"}) /\ HasPcb /\ FreePorts # {}
  /\ net' = RemoveAt(net, i)
  /\ UNCHANGED <<serverVars, client>>

\* IAP_tftp_process_write without memory for the arguments:
\* IAP_tftp_cleanup_wr removes the pcb, and the packet is freed
NoMemory(i) ==
  /\ Requests(i, {"WRQ"}) /\ HasPcb /\ FreePorts # {}
  /\ net' = RemoveAt(net, i)
  /\ UNCHANGED <<serverVars, client>>

\* IAP_tftp_process_write: the flash is erased and written from its start,
\* whatever other sessions are in progress
ProcessWrite(i) ==
  /\ Requests(i, {"WRQ"}) /\ HasPcb
  /\ \E p \in FreePorts :
       /\ sess' = [sess EXCEPT ![p] = [block |-> 0, id |-> requests + 1]]
       /\ SendAck(i, net[i].from, p, requests + 1, 0)
  /\ pcbs' = pcbs + 1
  /\ heap' = heap + 1
  /\ requests' = requests + 1
  /\ flash' = <<>>
  /\ UNCHANGED <<pbufs, unbound, dropped>>
-----------------------------------------------------------------------------
(* IAP_wrq_recv_callback: a packet to the port of a session. *)

Session(i) == sess[net[i].to]
ToSession(i) == Arrives(i) /\ net[i].to \in OpenPorts

\* mutant: args->block + 1 is only an upper bound
IsNext_OrOld(i) == net[i].blk =< Session(i).block + 1
IsNext(i) == net[i].blk = Session(i).block + 1

\* lwIP has no pcb for the port
NoSession(i) ==
  /\ Arrives(i) /\ net[i].to \in FreePorts
  /\ net' = RemoveAt(net, i)
  /\ UNCHANGED <<serverVars, client>>

\* a packet in more than one pbuf (a full one may be): not handled, not freed
Chained(i) ==
  /\ ToSession(i) /\ net[i].len = "full"
  /\ net' = RemoveAt(net, i)
  /\ pbufs' = pbufs + 1
  /\ dropped' = dropped + 1
  /\ UNCHANGED <<sess, flash, pcbs, heap, client, requests, unbound>>

\* mutant: the arguments are freed and the pcb is left
CleanupWr_KeepsPcb(p) ==
  /\ sess' = [sess EXCEPT ![p] = Free]
  /\ heap' = heap - 1
  /\ UNCHANGED pcbs

\* IAP_tftp_cleanup_wr
CleanupWr(p) ==
  /\ sess' = [sess EXCEPT ![p] = Free]
  /\ heap' = heap - 1
  /\ pcbs' = pcbs - 1

\* the end of the callback: the last block counted is acknowledged to whoever
\* sent the packet; a short packet ends the session
Answer(i, block) ==
  /\ SendAck(i, net[i].from, net[i].to, Session(i).id, block)
  /\ IF net[i].len = "full"
       THEN sess' = [sess EXCEPT ![net[i].to].block = block] /\ UNCHANGED <<pcbs, heap>>
       ELSE CleanupWr(net[i].to)
  /\ UNCHANGED <<pbufs, requests, unbound, dropped>>

\* nothing looks at the opcode: an error packet has a payload, too
Payload(i) == IF net[i].op = "DATA" THEN <<net[i].from, net[i].blk>> ELSE <<net[i].from, 0>>

\* FLASH_If_Write(&Flash_Write_Address, ...), args->block++
StoreBlock(i) ==
  /\ ToSession(i) /\ IsNext(i) /\ net[i].len # "empty"
  /\ flash' = Append(flash, [by |-> Session(i).id, blk |-> net[i].blk, data |-> Payload(i)])
  /\ Answer(i, Session(i).block + 1)

\* the empty block behind a file that is a multiple of 512 bytes
CountEmptyBlock(i) ==
  /\ ToSession(i) /\ IsNext(i) /\ net[i].len = "empty"
  /\ Answer(i, Session(i).block + 1)
  /\ UNCHANGED flash

\* mutant: args->block++ stands behind the conditions
OtherBlock_Counts(i) ==
  /\ ToSession(i) /\ ~IsNext(i)
  /\ Answer(i, Session(i).block + 1)
  /\ UNCHANGED flash

\* any other block: only the answer
OtherBlock(i) ==
  /\ ToSession(i) /\ ~IsNext(i)
  /\ Answer(i, Session(i).block)
  /\ UNCHANGED flash
-----------------------------------------------------------------------------
Next ==
  \/ \E c \in Clients : Begin(c) \/ AskToRead(c) \/ Transmit(c) \/ GiveUp(c)
  \/ \E i \in 1 .. Len(net) :
       \/ LosePacket(i)
       \/ NoPcb(i) \/ NoPort(i) \/ BadOpcode(i) \/ NoMemory(i) \/ ProcessWrite(i)
       \/ NoSession(i) \/ Chained(i) \/ StoreBlock(i) \/ CountEmptyBlock(i) \/ OtherBlock(i)

Spec == Init /\ [][Next]_vars
-----------------------------------------------------------------------------
(* Type correctness. *)
TypeOK ==
  /\ sess \in [Ports -> [block : Nat, id : Nat \ {0}] \cup {Free}]
  /\ flash \in Seq([by : Nat \ {0}, blk : Nat, data : Clients \X Nat])
  /\ pcbs \in 0 .. MaxPcbs /\ heap \in Nat /\ pbufs \in Nat
  /\ client \in [Clients -> [phase : {"idle", "request", "data", "done", "gone"},
                             port : Ports \cup {WellKnown}, id : Nat, blk : Nat,
                             tries : 0 .. MaxTries]]
  /\ net \in Seq(Packet)
  /\ requests \in Nat /\ unbound \in Nat /\ dropped \in Nat /\ overtaken \in BOOLEAN

(* A session writes the blocks one after the other, none left out and none *)
(* twice, however packets are repeated or reordered: what the newest       *)
(* session has written to the flash that its request erased are blocks     *)
(* 1, 2, 3, ... and, while it is open, as many as it acknowledges          *)
(* (args->block and Flash_Write_Address advance together).                 *)
NewestUpTo(n) == {m \in 1 .. n : flash[m].by = requests}
NewestInOrder ==
  /\ \A n \in NewestUpTo(Len(flash)) : flash[n].blk = Cardinality(NewestUpTo(n))
  /\ \A p \in OpenPorts :
       sess[p].id = requests => Cardinality(NewestUpTo(Len(flash))) = sess[p].block

(* What a client believes is stored: the blocks before the one it sends,   *)
(* and the whole file once its last packet has been acknowledged.          *)
Written == [n \in DOMAIN flash |-> flash[n].data]
Believed(c) ==
  CASE client[c].phase = "done" -> Stored(c)
    [] client[c].phase = "data" -> SubSeq(Whole(c), 1, client[c].blk - 1)
    [] OTHER -> <<>>

(* While only one client has sent anything and no packet has overtaken     *)
(* another one, what the client believes is in the flash is there, although *)
(* its repeated requests open several sessions, each of which erases the   *)
(* flash, and packets and acknowledgements are lost.                       *)
BelievedIsInFlash ==
  \A c \in Clients :
    (~overtaken /\ \A d \in Clients \ {c} : client[d].phase = "idle")
      => IsPrefix(Believed(c), Written)

(* With other clients and any order this remains true of the client that   *)
(* follows the newest session as long as only this client's packets have   *)
(* been stored: damage needs a later request, an older session that still  *)
(* writes, or a packet of another client to the session's port.            *)
UndisturbedIsInFlash ==
  \A c \in Clients :
    (client[c].id = requests /\ \A n \in DOMAIN flash : flash[n].by = requests
                                                    /\ flash[n].data[1] = c)
      => IsPrefix(Believed(c), Written)

(* Every way out of the callbacks gives back what it took: the pcbs in use *)
(* are those of open sessions and the ones left behind when udp_bind       *)
(* failed, each open session has its arguments and nobody else has, and    *)
(* packets are lost only by the three early returns.                       *)
ResourcesAccounted ==
  /\ pcbs = Cardinality(OpenPorts) + unbound
  /\ heap = Cardinality(OpenPorts)
  /\ pbufs = dropped
=============================================================================
