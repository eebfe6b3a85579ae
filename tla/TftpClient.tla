----------------------------- MODULE TftpClient -----------------------------
(***************************************************************************)
(* Firmware update by TFTP (tftp_client.c, webserver_update.c).            *)
(*                                                                         *)
(* Two threads share tftp_manager and the update status.  lwIP's thread    *)
(* runs the CGI that asks for an update, http_accept, and the UDP callback *)
(* that copies each packet into frame_buffer and posts recv_sem; it runs   *)
(* at a higher priority, so each of its steps is one action here and falls *)
(* between two steps of the task.  The task pends on start_sem, requests   *)
(* the file and handles the packets one by one, always reading the one     *)
(* shared frame_buffer.                                                    *)
(*                                                                         *)
(* The server and the network are external: a session answers one request *)
(* from a port (TID) of its own, sends a block until it is acknowledged    *)
(* and gives up after MaxTries.  Packets to the device may be lost,        *)
(* repeated and, with Reordering, overtake each other; acknowledgements    *)
(* are delivered or lost.                                                  *)
(*                                                                         *)
(* File f is Size[f] data packets of TFTP_BLOCK_SIZE bytes, the last one   *)
(* of length LastLen.  What a packet carries is the pair <<file, block>>;  *)
(* the check sum is the bag of what was added to it and how long it was    *)
(* taken to be, since adding bytes loses only their order.  Packets are    *)
(* well formed and fit frame_buffer.  The module describes one run of the  *)
(* device, from power on to the reset that ends an update.                 *)
(***************************************************************************)
EXTENDS Integers, Sequences, SequencesExt

CONSTANTS
  Size,        \* Size[n]: blocks of the file asked for at the n-th click; the
               \* number of clicks, and of sessions, is bounded by Len(Size)
  LastLen,     \* length of the last block: "short", or "empty" when the size
               \* of the file is a multiple of TFTP_BLOCK_SIZE
  ZeroBlocks,  \* blocks whose bytes behind the file head are all zero
  Hosts,       \* hosts that run browsers; the TFTP server runs on "server"
  MaxPages,    \* Update_Flash_Memory_size, in blocks
  MaxTries,    \* bound: times the server sends one packet
  MaxFlight,   \* bound: packets in transit to the device
  Writes,      \* what the flash may store of a page: "all", "part" or "nothing"
  Reordering,  \* packets may overtake each other
  Lingering    \* earlier sessions and their packets outlive the two seconds
               \* before a request

ASSUME TftpConstants ==
  /\ Size \in Seq(Nat \ {0}) /\ MaxPages \in Nat
  /\ MaxTries \in Nat /\ MaxFlight \in Nat
  /\ LastLen \in {"short", "empty"}
  /\ ZeroBlocks \subseteq Nat \ {0} /\ "server" \in Hosts
  /\ Writes \subseteq {"all", "part", "nothing"}
  /\ Reordering \in BOOLEAN /\ Lingering \in BOOLEAN

VARIABLES
  \* shared by the two threads
  status,      \* update_ssi_status
  filename,    \* update_filename: the file chosen at the n-th click, or NoFile
  serverIp,    \* tftp_manager->server_ip
  fileLen,     \* tftp_manager->file_len, in blocks
  startSem, recvSem,  \* 0 or 1: a higher count is cleared before it is used
  frame,       \* frame_buffer, and len and port of recv_args
  \* the task's
  pc,
  conn,        \* server_port, change_flag, prev_block, len, the block to
               \* acknowledge and what to do then
  image,       \* update_filehead, check_sum and what was written up to flash_addr
  update,      \* what update_cfg says is to be installed
  \* external: the sessions of the TFTP server, packets to the device
  srv, net,
  \* history: number of clicks; file last requested; a click came during
  \* this transfer; the last click came between a failure and the clearing
  \* of start_sem; in this transfer a packet replaced one whose block number
  \* was read and that was not yet written; less than a page was written
  clicks, asked, overlapped, missed, replaced, torn

webVars  == <<status, filename, serverIp, clicks, overlapped, missed>>
taskVars == <<pc, conn, image, update, asked, torn>>
vars == <<status, filename, serverIp, fileLen, startSem, recvSem, frame, pc, conn, image,
          update, srv, net, clicks, asked, overlapped, missed, replaced, torn>>
-----------------------------------------------------------------------------
NoFile     == 0
Files      == 1 .. Len(Size)
Sessions   == Files                     \* the n-th click has its own TID
WellKnown  == 0                         \* TFTP_WELLKNOWN_PORT
ErrorCodes == {1, 2}                    \* file not found, access violation
Pieces     == UNION {{f} \X (1 .. Size[f]) : f \in Files}
NoPiece    == <<NoFile, 0>>             \* bytes that are no block of a file
Data       == Pieces \cup {NoPiece}
Lens       == {"empty", "short", "full", "long"}
Packet     == [op : {"none", "RRQ", "DATA", "ACK", "OACK", "ERROR"}, blk : Nat,
               data : Data, len : Lens, port : Sessions \cup {WellKnown}]
NoPacket   == [op |-> "none", blk |-> 0, data |-> NoPiece, len |-> "empty", port |-> WellKnown]
Parts      == Data \X {"short", "full"} \* what is added to the check sum
Whole(f)   == [n \in 1 .. Size[f] |-> <<f, n>>]
NoSum      == [x \in Parts |-> 0]
NoImage    == [head |-> NoPiece, sum |-> NoSum, flash |-> <<>>]
NoUpdate   == [file |-> NoFile, size |-> 0]

\* a block is examined and not yet written
Pending == pc \in {"count", "sum", "write"}
\* a file has been requested, and neither is it complete nor has it failed
Transferring ==
  Pending \/ pc \in {"measure", "sendRequest", "clearRecv", "pendRecv", "takeLen", "checkPort",
                     "latchPort", "readOp", "readBlock", "ackOp", "ackBlock", "sendAck",
                     "finish", "buildError", "sendError"}

Init ==
  /\ status = "empty" /\ filename = NoFile /\ serverIp = "server"
  /\ fileLen = 0 /\ startSem = 0 /\ recvSem = 0
  /\ frame = NoPacket
  /\ pc = "clearStart"
  /\ conn = [port |-> WellKnown, changed |-> FALSE, prev |-> 0, len |-> "empty", ack |-> 0,
             then |-> "clearRecv"]
  /\ image = NoImage
  /\ update = NoUpdate
  /\ srv = [s \in Sessions |-> [file |-> NoFile, last |-> 0, tries |-> 0, long |-> FALSE]]
  /\ net = <<>>
  /\ clicks = 0 /\ asked = NoFile /\ overlapped = FALSE /\ missed = FALSE
  /\ replaced = FALSE /\ torn = FALSE
-----------------------------------------------------------------------------
(* lwIP's thread. *)

\* update_cgi_interface with a file name: nothing asks whether an update is
\* running, and the reset of file_len is lost when it falls into the task's
\* "+=".  (With fewer than two parameters it only reads the status.)
UpdateCgi ==
  /\ pc # "off" /\ clicks < Len(Size)
  /\ clicks' = clicks + 1
  /\ fileLen' = 0 \/ (pc = "count" /\ fileLen' = fileLen)
  /\ filename' = clicks + 1
  /\ status' = "doing"
  /\ startSem' = 1
  /\ overlapped' = (overlapped \/ Transferring)
  /\ missed' = (pc = "clearStart")
  /\ UNCHANGED <<taskVars, serverIp, recvSem, frame, srv, net, replaced>>

\* http_accept: any browser's connection
HttpAccept(host) ==
  /\ pc # "off"
  /\ serverIp' = host
  /\ UNCHANGED <<taskVars, status, filename, clicks, overlapped, missed, fileLen, startSem,
                 recvSem, frame, srv, net, replaced>>

\* tftp_recv_callback
Receive(i) ==
  /\ pc # "off" /\ (Reordering \/ i = 1)
  /\ frame' = net[i]
  /\ net' = RemoveAt(net, i)
  /\ recvSem' = 1
  /\ replaced' = (replaced \/ Pending)
  /\ UNCHANGED <<webVars, taskVars, fileLen, startSem, srv>>
-----------------------------------------------------------------------------
(* The server and the network. *)

devVars == <<webVars, taskVars, fileLen, startSem, recvSem, frame, replaced>>

Open(s)    == srv[s].file # NoFile
Sending(s) == Open(s) /\ srv[s].tries < MaxTries \* else it gives up soon
LenOf(p)   == IF p[2] < Size[p[1]] THEN "full" ELSE LastLen

\* the packet session s sends until it is acknowledged; a server that ignores
\* blksize sends longer blocks, of which only the first starts with a page
Expected(s) ==
  LET p == <<srv[s].file, srv[s].last>>
  IN  IF srv[s].last = 0
        THEN [op |-> "OACK", blk |-> 0, data |-> NoPiece, len |-> "short", port |-> s]
        ELSE [op |-> "DATA", blk |-> srv[s].last,
              data |-> IF srv[s].long /\ srv[s].last > 1 THEN NoPiece ELSE p,
              len |-> IF srv[s].long THEN "long" ELSE LenOf(p), port |-> s]

\* the first time a packet is sent and each time it is repeated
Transmit(s) ==
  /\ Sending(s) /\ Len(net) < MaxFlight
  /\ net' = Append(net, Expected(s))
  /\ srv' = [srv EXCEPT ![s].tries = @ + 1]
  /\ UNCHANGED devVars

\* the server has no such file, or may not read it; the code is where other
\* packets have their block number
Refuse(s) ==
  /\ Sending(s) /\ srv[s].last = 0 /\ Len(net) < MaxFlight
  /\ \E code \in ErrorCodes :
       net' = Append(net, [op |-> "ERROR", blk |-> code, data |-> NoPiece, len |-> "short",
                           port |-> s])
  /\ srv' = [srv EXCEPT ![s].file = NoFile]
  /\ UNCHANGED devVars

LosePacket(i) ==
  /\ net' = RemoveAt(net, i)
  /\ UNCHANGED <<devVars, srv>>
-----------------------------------------------------------------------------
(* The task. *)

Step(from, to) == pc = from /\ pc' = to

\* mutant: start_sem is not cleared, a click during the last transfer counts
ClearStart_Missing ==
  /\ Step("clearStart", "pendStart")
  /\ UNCHANGED <<webVars, conn, image, update, asked, fileLen, startSem, recvSem, frame, srv,
                 net, replaced, torn>>

\* user_tftp_client_thread: OSSemSet(start_sem, 0), OSSemPend(start_sem)
ClearStart ==
  /\ Step("clearStart", "pendStart")
  /\ startSem' = 0
  /\ UNCHANGED <<webVars, conn, image, update, asked, fileLen, recvSem, frame, srv, net,
                 replaced, torn>>

PendStart ==
  /\ startSem > 0
  /\ Step("pendStart", "init")
  /\ startSem' = 0
  /\ UNCHANGED <<webVars, conn, image, update, asked, fileLen, recvSem, frame, srv, net,
                 replaced, torn>>

\* mutant: the flash address of the last transfer is kept
UpdateInit_KeepsAddress ==
  /\ Step("init", "delay")
  /\ conn' = [conn EXCEPT !.port = WellKnown, !.changed = FALSE, !.prev = 0]
  /\ image' = [image EXCEPT !.sum = NoSum]
  /\ fileLen' = 0
  /\ UNCHANGED <<webVars, update, asked, startSem, recvSem, frame, srv, net, replaced, torn>>

\* change_flag = 0, and tftp_firmware_update_init ...
UpdateInit ==
  /\ Step("init", "delay")
  /\ conn' = [conn EXCEPT !.port = WellKnown, !.changed = FALSE, !.prev = 0]
  /\ image' = [image EXCEPT !.sum = NoSum, !.flash = <<>>]
  /\ fileLen' = 0
  /\ UNCHANGED <<webVars, update, asked, startSem, recvSem, frame, srv, net, replaced, torn>>

\* ... which ends with two seconds' delay: unless Lingering, that is longer
\* than an earlier session and its packets last
Delay ==
  /\ Lingering \/ (net = <<>> /\ \A s \in Sessions : ~Sending(s))
  /\ Step("delay", "request")
  /\ UNCHANGED <<webVars, conn, image, update, asked, fileLen, startSem, recvSem, frame, srv,
                 net, replaced, torn>>

\* tftp_send_readfile_request: the request is written into frame_buffer, ...
BuildRequest ==
  /\ Step("request", "measure")
  /\ asked' = filename
  /\ frame' = [frame EXCEPT !.op = "RRQ", !.data = NoPiece]
  /\ replaced' = FALSE /\ torn' = FALSE
  /\ UNCHANGED <<webVars, conn, image, update, fileLen, startSem, recvSem, srv, net>>

\* ... the length of the name taken once more, so that the name and what
\* follows it may not fit together, ...
MeasureRequest ==
  /\ Step("measure", "sendRequest")
  /\ \/ UNCHANGED frame
     \/ /\ filename # asked /\ frame.op = "RRQ"
        /\ frame' = [frame EXCEPT !.op = "none"]
  /\ UNCHANGED <<webVars, conn, image, update, asked, fileLen, startSem, recvSem, srv, net,
                 replaced, torn>>

\* ... and what frame_buffer holds by then is sent; it may be lost, reach a
\* host that runs no server, or open a session, with or without an OACK
SendRequest ==
  /\ Step("sendRequest", "clearRecv")
  /\ \/ UNCHANGED srv
     \/ /\ frame.op = "RRQ" /\ serverIp = "server" /\ asked # NoFile
        /\ \E first \in {0, 1}, long \in BOOLEAN :
             /\ long => first = 1 /\ Size[asked] > 1
             /\ srv' = [srv EXCEPT ![asked] =
                         [file |-> asked, last |-> first, tries |-> 0, long |-> long]]
  /\ UNCHANGED <<webVars, conn, image, update, asked, fileLen, startSem, recvSem, frame, net,
                 replaced, torn>>

\* mutant: recv_sem is not cleared
ClearRecv_Missing ==
  /\ Step("clearRecv", "pendRecv")
  /\ UNCHANGED <<webVars, conn, image, update, asked, fileLen, startSem, recvSem, frame, srv,
                 net, replaced, torn>>

\* OSSemSet(recv_sem, 0): a packet that came since the last pend is forgotten
ClearRecv ==
  /\ Step("clearRecv", "pendRecv")
  /\ recvSem' = 0
  /\ UNCHANGED <<webVars, conn, image, update, asked, fileLen, startSem, frame, srv, net,
                 replaced, torn>>

PendRecv ==
  /\ recvSem > 0
  /\ Step("pendRecv", "takeLen")
  /\ recvSem' = 0
  /\ UNCHANGED <<webVars, conn, image, update, asked, fileLen, startSem, frame, srv, net,
                 replaced, torn>>

\* mutant: the task waits for ever
RecvTimeout_Never == FALSE /\ UNCHANGED vars

\* OS_ERR_TIMEOUT after five seconds
RecvTimeout ==
  /\ recvSem = 0
  /\ Step("pendRecv", "fail")
  /\ UNCHANGED <<webVars, conn, image, update, asked, fileLen, startSem, recvSem, frame, srv,
                 net, replaced, torn>>

\* The packet is looked at in frame_buffer and recv_args, piece by piece.
ExamineUnchanged ==
  UNCHANGED <<webVars, image, update, asked, fileLen, startSem, recvSem, frame, srv, net,
              replaced, torn>>

TakeLen ==
  /\ Step("takeLen", "checkPort")
  /\ conn' = [conn EXCEPT !.len = frame.len]
  /\ ExamineUnchanged

PortKnown ==
  /\ frame.port = conn.port
  /\ Step("checkPort", "readOp")
  /\ UNCHANGED conn /\ ExamineUnchanged

\* the port may change once ...
PortNew ==
  /\ frame.port # conn.port /\ ~conn.changed
  /\ Step("checkPort", "latchPort")
  /\ UNCHANGED conn /\ ExamineUnchanged

\* ... and is read again for that
LatchPort ==
  /\ Step("latchPort", "readOp")
  /\ conn' = [conn EXCEPT !.port = frame.port, !.changed = TRUE]
  /\ ExamineUnchanged

UnknownTid ==
  /\ frame.port # conn.port /\ conn.changed
  /\ Step("checkPort", "buildError")
  /\ UNCHANGED conn /\ ExamineUnchanged

\* TFTP_ERROR, or an opcode the device does not serve
BadPacket ==
  /\ frame.op \notin {"DATA", "OACK"}
  /\ Step("readOp", IF frame.op = "ERROR" THEN "fail" ELSE "buildError")
  /\ UNCHANGED conn /\ ExamineUnchanged

OptionAck ==
  /\ frame.op = "OACK"
  /\ Step("readOp", "ackOp")
  /\ conn' = [conn EXCEPT !.ack = 0, !.then = "clearRecv"]
  /\ ExamineUnchanged

DataPacket ==
  /\ frame.op = "DATA"
  /\ Step("readOp", "readBlock")
  /\ UNCHANGED conn /\ ExamineUnchanged

BlockError ==
  /\ frame.blk = 0 \/ frame.blk > conn.prev + 1
  /\ Step("readBlock", "fail")
  /\ UNCHANGED conn /\ ExamineUnchanged

\* mutant: an old block is answered with the block that is wanted
OldBlock_AcksWanted ==
  /\ frame.blk > 0 /\ frame.blk =< conn.prev
  /\ Step("readBlock", "ackOp")
  /\ conn' = [conn EXCEPT !.ack = conn.prev + 1, !.then = "clearRecv"]
  /\ ExamineUnchanged

\* an old block: only acknowledge
OldBlock ==
  /\ frame.blk > 0 /\ frame.blk =< conn.prev
  /\ Step("readBlock", "ackOp")
  /\ conn' = [conn EXCEPT !.ack = frame.blk, !.then = "clearRecv"]
  /\ ExamineUnchanged

\* mutant: a block that is repeated is stored again
NewBlock_StoresRepeated ==
  /\ frame.blk > 0 /\ frame.blk =< conn.prev + 1
  /\ Step("readBlock", IF conn.len \in {"short", "full"} THEN "count" ELSE "fail")
  /\ conn' = [conn EXCEPT !.prev = frame.blk, !.ack = frame.blk,
                          !.then = IF conn.len = "full" THEN "clearRecv" ELSE "finish"]
  /\ ExamineUnchanged

\* the next block, if it has a length that can be stored
NewBlock ==
  /\ frame.blk = conn.prev + 1
  /\ Step("readBlock", IF conn.len \in {"short", "full"} THEN "count" ELSE "fail")
  /\ conn' = [conn EXCEPT !.prev = frame.blk, !.ack = frame.blk,
                          !.then = IF conn.len = "full" THEN "clearRecv" ELSE "finish"]
  /\ ExamineUnchanged

\* tftp_handle_data: file_len += len
Count ==
  /\ Step("count", "sum")
  /\ fileLen' = fileLen + 1
  /\ UNCHANGED <<webVars, conn, image, update, asked, startSem, recvSem, frame, srv, net,
                 replaced, torn>>

TooLarge ==
  /\ fileLen > MaxPages
  /\ Step("sum", "fail")
  /\ UNCHANGED <<webVars, conn, image, update, asked, fileLen, startSem, recvSem, frame, srv,
                 net, replaced, torn>>

SumIsZero == \A x \in Parts : x[1][2] \notin ZeroBlocks => image.sum[x] = 0

\* mutant: the size is compared before the block is counted
Sum_ComparesEarly ==
  /\ fileLen - 1 =< MaxPages
  /\ Step("sum", "write")
  /\ image' = [image EXCEPT !.head = IF SumIsZero THEN frame.data ELSE @,
                            !.sum[<<frame.data, conn.len>>] = @ + 1]
  /\ UNCHANGED <<webVars, conn, update, asked, fileLen, startSem, recvSem, frame, srv, net,
                 replaced, torn>>

\* the file head is whatever comes first, as long as the sum is zero
Sum ==
  /\ fileLen =< MaxPages
  /\ Step("sum", "write")
  /\ image' = [image EXCEPT !.head = IF SumIsZero THEN frame.data ELSE @,
                            !.sum[<<frame.data, conn.len>>] = @ + 1]
  /\ UNCHANGED <<webVars, conn, update, asked, fileLen, startSem, recvSem, frame, srv, net,
                 replaced, torn>>

\* SPI_Flash_Write_Page_Nret, flash_addr += nret: nothing looks at nret, so
\* nothing or part of the page may be written as well
Write ==
  /\ Step("write", "ackOp")
  /\ \/ /\ "all" \in Writes
        /\ image' = [image EXCEPT !.flash = Append(@, frame.data)]
        /\ UNCHANGED torn
     \/ /\ "part" \in Writes
        /\ image' = [image EXCEPT !.flash = Append(@, NoPiece)]
        /\ torn' = TRUE
     \/ /\ "nothing" \in Writes
        /\ torn' = TRUE
        /\ UNCHANGED image
  /\ UNCHANGED <<webVars, conn, update, asked, fileLen, startSem, recvSem, frame, srv, net,
                 replaced>>

\* tftp_send_ack_packet: the opcode is written into frame_buffer, ...
AckOp ==
  /\ Step("ackOp", "ackBlock")
  /\ frame' = [frame EXCEPT !.op = "ACK"]
  /\ UNCHANGED <<webVars, conn, image, update, asked, fileLen, startSem, recvSem, srv, net,
                 replaced, torn>>

\* ... then the block number ...
AckBlock ==
  /\ Step("ackBlock", "sendAck")
  /\ frame' = [frame EXCEPT !.blk = conn.ack]
  /\ UNCHANGED <<webVars, conn, image, update, asked, fileLen, startSem, recvSem, srv, net,
                 replaced, torn>>

\* session s when it gets what is in frame_buffer: it moves on if that
\* acknowledges its last packet, and ends with the file or an error
Answered(s) ==
  CASE frame.op = "ACK" /\ frame.blk = srv[s].last /\ srv[s].last < Size[srv[s].file] ->
         [srv[s] EXCEPT !.last = @ + 1, !.tries = 0]
    [] frame.op = "ACK" /\ frame.blk = srv[s].last /\ srv[s].last = Size[srv[s].file] ->
         [srv[s] EXCEPT !.file = NoFile]
    [] frame.op = "ERROR" -> [srv[s] EXCEPT !.file = NoFile]
    [] OTHER -> srv[s]

\* the packet is lost, or reaches the session behind server_port
Send ==
  \/ UNCHANGED srv
  \/ \E s \in Sessions :
       /\ Open(s) /\ conn.port = s /\ serverIp = "server"
       /\ srv' = [srv EXCEPT ![s] = Answered(s)]

\* ... and the packet is sent from there
SendAck ==
  /\ Step("sendAck", conn.then)
  /\ Send
  /\ UNCHANGED <<webVars, conn, image, update, asked, fileLen, startSem, recvSem, frame, net,
                 replaced, torn>>

\* tftp_send_error_packet, likewise
BuildError ==
  /\ Step("buildError", "sendError")
  /\ frame' = [frame EXCEPT !.op = "ERROR", !.data = NoPiece]
  /\ UNCHANGED <<webVars, conn, image, update, asked, fileLen, startSem, recvSem, srv, net,
                 replaced, torn>>

SendError ==
  /\ Step("sendError", "fail")
  /\ Send
  /\ UNCHANGED <<webVars, conn, image, update, asked, fileLen, startSem, recvSem, frame, net,
                 replaced, torn>>

SumOf(f) == [x \in Parts |-> IF x[1][1] = f /\ x[2] = LenOf(x[1]) THEN 1 ELSE 0]
SameSum(a, b) == \A x \in Parts : x[1][2] \notin ZeroBlocks => a[x] = b[x]

\* mutant: the check sum is not compared
HeadChecks_NoSum == image.head[2] = 1

\* board_type, checksum and program_type of the file head
HeadChecks == image.head[2] = 1 /\ SameSum(image.sum, SumOf(image.head[1]))

\* tftp_firmware_download_finish
Finish ==
  /\ HeadChecks
  /\ Step("finish", "reset")
  /\ update' = [file |-> image.head[1], size |-> fileLen]
  /\ status' = "succeed"
  /\ UNCHANGED <<filename, serverIp, clicks, overlapped, missed, conn, image, asked, fileLen,
                 startSem, recvSem, frame, srv, net, replaced, torn>>

FinishRefused ==
  /\ ~HeadChecks
  /\ Step("finish", "fail")
  /\ UNCHANGED <<webVars, conn, image, update, asked, fileLen, startSem, recvSem, frame, srv,
                 net, replaced, torn>>

\* back in user_tftp_client_thread: the two assignments after a failure
ForgetName ==
  /\ Step("fail", "failed")
  /\ filename' = NoFile
  /\ UNCHANGED <<status, serverIp, clicks, overlapped, missed, conn, image, update, asked,
                 fileLen, startSem, recvSem, frame, srv, net, replaced, torn>>

\* mutant: the failure is not reported when another file has been asked for
ReportFailure_UnlessAsked ==
  /\ Step("failed", "clearStart")
  /\ status' = IF filename = NoFile THEN "failed" ELSE status
  /\ overlapped' = FALSE
  /\ UNCHANGED <<filename, serverIp, clicks, missed, conn, image, update, asked, fileLen,
                 startSem, recvSem, frame, srv, net, replaced, torn>>

ReportFailure ==
  /\ Step("failed", "clearStart")
  /\ status' = "failed"
  /\ overlapped' = FALSE
  /\ UNCHANGED <<filename, serverIp, clicks, missed, conn, image, update, asked, fileLen,
                 startSem, recvSem, frame, srv, net, replaced, torn>>

\* five seconds later, control_set_sysreset
Reset ==
  /\ Step("reset", "off")
  /\ status' = "empty"
  /\ UNCHANGED <<filename, serverIp, clicks, overlapped, missed, conn, image, update, asked,
                 fileLen, startSem, recvSem, frame, srv, net, replaced, torn>>

Examine ==
  \/ TakeLen \/ PortKnown \/ PortNew \/ LatchPort \/ UnknownTid \/ BadPacket \/ OptionAck
  \/ DataPacket \/ BlockError \/ OldBlock \/ NewBlock

Task ==
  \/ ClearStart \/ PendStart \/ UpdateInit \/ Delay
  \/ BuildRequest \/ MeasureRequest \/ SendRequest
  \/ ClearRecv \/ PendRecv \/ RecvTimeout \/ Examine
  \/ Count \/ TooLarge \/ Sum \/ Write
  \/ AckOp \/ AckBlock \/ SendAck \/ BuildError \/ SendError
  \/ Finish \/ FinishRefused \/ ForgetName \/ ReportFailure \/ Reset

Network ==
  \/ \E s \in Sessions : Transmit(s) \/ Refuse(s)
  \/ \E i \in 1 .. Len(net) : Receive(i) \/ LosePacket(i)

Next == Task \/ Network \/ UpdateCgi \/ \E host \in Hosts : HttpAccept(host)

Spec == Init /\ [][Next]_vars

\* The kernel runs the task whenever it is ready and its waits end by their
\* timeouts; nothing is assumed of the network or of the browsers.
FairSpec == Spec /\ WF_vars(Task)
-----------------------------------------------------------------------------
(* Properties. *)

\* The types of the state.
SharedOK ==
  /\ status \in {"empty", "doing", "succeed", "failed"}
  /\ filename \in Files \cup {NoFile} /\ serverIp \in Hosts
  /\ fileLen \in Nat /\ startSem \in {0, 1} /\ recvSem \in {0, 1}
  /\ clicks \in 0 .. Len(Size)
  /\ overlapped \in BOOLEAN /\ missed \in BOOLEAN /\ replaced \in BOOLEAN
TaskOK ==
  /\ Transferring \/ pc \in {"clearStart", "pendStart", "init", "delay", "request", "fail",
                            "failed", "reset", "off"}
  /\ conn \in [port : Sessions \cup {WellKnown}, changed : BOOLEAN, prev : Nat, len : Lens,
               ack : Nat, then : {"clearRecv", "finish"}]
  /\ image \in [head : Data, sum : [Parts -> Nat], flash : Seq(Data)]
  /\ update \in [file : Files \cup {NoFile}, size : Nat]
  /\ asked \in Files \cup {NoFile} /\ torn \in BOOLEAN
NetOK ==
  /\ frame \in Packet
  /\ srv \in [Sessions -> [file : Files \cup {NoFile}, last : Nat, tries : Nat, long : BOOLEAN]]
  /\ net \in Seq(Packet)
TypeOK == SharedOK /\ TaskOK /\ NetOK

\* What is marked for installation is the file that was requested, every page
\* of it once and in order, whatever was lost, repeated or clicked meanwhile,
\* and whichever packets were mixed because one came while another was looked
\* at: neither the block numbers nor the check sum alone suffices for that.
\* It takes a flash that writes whole pages: what it returns is not looked at.
FlashIsRequestedFile ==
  update # NoUpdate /\ ~torn => update.file = asked /\ image.flash = Whole(asked)

\* the blocks of file f whose bytes the check sum depends on
Weighed(f) == {n \in 1 .. Size[f] : n \notin ZeroBlocks /\ LenOf(<<f, n>>) # "empty"}

\* Whatever the network does, what is marked is one file, complete and in
\* order up to pages of zeros: the check sum refuses what came of a packet
\* that arrived between the reading of another one's length, port, opcode and
\* block number.  It cannot refuse what came between the reading of the block
\* number and the writing of the page, nor see how much was written.
FlashIsOneFile ==
  update # NoUpdate /\ ~replaced /\ ~torn =>
    \A f \in Files : \A n \in Weighed(f) :
      (n =< Len(image.flash) /\ image.flash[n] = <<f, n>>) <=> f = update.file

\* The pages stay in the area of the flash that is kept for updates, unless
\* the check of file_len was misled by a click during the transfer.
FlashFitsItsArea ==
  (Transferring \/ update # NoUpdate) /\ ~overlapped => Len(image.flash) =< MaxPages

\* A request names a file: a click that came during the last transfer, whose
\* name the failure erased, starts nothing.
RequestNamesFile == pc = "request" => filename # NoFile

\* The device waits for a click with "doing" on the page only when the click
\* came after the failure was reported and before start_sem was cleared.
NoLostStart == pc = "pendStart" /\ startSem = 0 /\ status = "doing" => missed

\* The server never goes past a block that is not in the flash, as long as
\* the flash writes whole pages: the acknowledgement follows the write and
\* names no later block, whichever packet comes while it is put together.
AckedBlocksAreInFlash ==
  \A s \in Sessions :
    Transferring /\ s = asked /\ Open(s) /\ ~torn => srv[s].last =< Len(image.flash) + 1

\* The task handles what was received, never the request, acknowledgement or
\* error it wrote itself into the one frame_buffer, nor a mixture of the two:
\* from the wake-up until the last byte is used the buffer holds one packet
\* as it came, if not always the same one.
ExaminesReceived ==
  Pending \/ pc \in {"takeLen", "checkPort", "latchPort", "readOp", "readBlock"} =>
    /\ frame.op \in {"DATA", "OACK", "ERROR"}
    /\ frame.op = "DATA" /\ frame.data # NoPiece => frame.blk = frame.data[2]

\* An update that is shown as going on ends, in success or failure, as long as
\* servers give up: every wait of the task has a timeout, and a click that no
\* transfer serves is answered by the failure or the reset of another.
UpdateEnds == (status = "doing" /\ ~missed) ~> (status # "doing" \/ missed)
=============================================================================
