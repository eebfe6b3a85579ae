# TLA+ verification of arm-ucos-proxy

The repository is the web-management firmware of a transmission device: an
STM32F4 running uC/OS-II and lwIP, with an HTTP server whose pages read and
configure the device's boards over an internal serial link and update the
firmware by TFTP. This directory holds TLA+ modules translated from the C code,
the TLC configurations that check them, and TLAPS proofs. Paths below are
relative to `src/USER/module_webserver/` unless they start with `src/`.

To check a run: `tlc -config DybLinkDeployed.cfg MCDybLink`. To check the proofs
of a module: `tlapm DybLinkProofs.tla`. `PROJECT.json` lists the runs, the lines
each definition translates, the mutated definitions that each property is known
to reject, the hazards and the theorems.

## 1. The system

### Threads

| thread | what it runs |
|---|---|
| lwIP's thread (tcpip) | every callback of `httpd.c`, the CGI and SSI handlers they call, the UDP receive callbacks of TFTP |
| TFTP client task | `user_tftp_client_thread` (`tftp_client.c`) |
| link receive task (not in the repository) | calls `ctrl_dyb_frame_capture` for each frame from the main control board |
| reboot task (not in the repository) | calls `reboot_poll` |

A callback of lwIP's thread runs to its end before the next one starts. A blocking call inside a handler
(a read of the device) blocks all connections.

### Components

| component | state | operations | interacts with |
|---|---|---|---|
| link to the main control board (`webserver_control_comm.c`) | `ll_access_mtx`, `wait_sem`, `web_control->frame` | `ctrl_require`, `ctrl_dyb_frame_capture` | handlers of lwIP's thread call it; the receive task answers |
| port pages (`webserver_opt.c`, `webserver_eth.c`, `webserver_e1.c`, `webserver_cent_rmt.c`) | the cache `web_control`, `dev_id`, `cr_remote_chosen`, `*_config_state` | read a page, write a port, switch the device | the link; the scripts of the pages |
| TFTP client (`tftp_client.c`, `webserver_update.c`) | `tftp_manager`, `frame_buffer`, `update_filename`, the update status, `start_sem`, `recv_sem`, flash | update CGI, receive callback, the task | `http_accept` sets the server's address; reset at the end |
| HTTP connections (`httpd.c`, `fs.c`) | `http_state` per connection, `http_post_payload` and its length, `fs_memory`, pbufs | the lwIP callbacks, `httpd_post_*` | calls the CGI handlers |
| server side includes (`httpd_ssi.c`, `webserver_build_form.c`) | `tag_insert`, the expansion state in `http_state` | one handler per tag | reads the cache while a page is sent |
| boards page (`webserver_boards_mng.c`) | `boards_exist` and `bulb_ver` in `web_control` | ten rows, one tag each | the link; other pages read the same tables |
| panel (`webserver_panel.c`) | `bulb_ver[0]` | polled by every browser | the link, `dev_id` |
| TFTP server (`tftpserver.c`) | `Flash_Write_Address`, one pcb and one `tftp_connection_args` per transfer | a write request, a packet of a transfer | compiled with `USE_IAP_TFTP` only |
| upload over HTTP (`webserver_iap.c`) | counters of the upload | `IAP_HTTP_process` | its call is disabled by `#if 0` (`httpd.c` 2081-2088) |
| accounts and login (`webserver_account.c`) | stored account, `account_status` | change of the account; the login compares in the browser | settings storage |
| network settings and restart (`webserver_net_config.c`, `webserver_reboot.c`) | stored settings, those in force, `net_config_status`, `reboot_set` | CGI, `reboot_poll` | settings storage, reboot task |
| pages and scripts (`makefsdata/fs`) | rows and dialogs shown in a browser | decode, submit, poll, reload | HTTP |

### What is hard

* All requests on the link carry the same sequence number. An answer that is
  late is taken for the answer of the next request; `wait_sem` is cleared after
  the frame is sent; the frame can change while it is copied; the status of a
  write is read after the lock is released.
* A write of one port sends a board's worth of settings out of a cache shared
  by all browsers, to a device that is selected by two variables which change at
  different moments.
* The TFTP task and the receive callback share one buffer in which packets are
  received, summed, written to flash and in which acknowledgements are built.
  A click can come at any moment of a transfer; any connection changes the
  server's address. Length, port, opcode and block number of a packet are read
  one after the other; the callback may put another packet there in between. What
  the flash stored of a page is not looked at.
* Two POSTs share one payload buffer; a POST may be cut off or overflow it.
* Connections can end anywhere, and open files and pbufs have to be given back.
* A reply with tags is sent in pieces that the send buffer and the memory
  dictate; other connections' handlers run in between and read the devices again
  or submit a form whose status is one variable for all.
* All transfers of the TFTP server write at one address of one flash that each
  new request erases; clients repeat requests and packets overtake each other.
* The scripts and the C code each know the layout of the settings, the numbering
  of rows and the labels of the dialogs.

### What makes each component correct

* Link: exchanges exclude each other; a request sent on a silent link gets its
  own answer whole; stale answers are bounded by the timeouts; the lock is
  always released.
* Port pages: the cache holds what the device has; a write changes one port,
  of the device that is chosen.
* TFTP: what is marked for installation is the file asked for, complete and in
  order; nothing is acknowledged before it is written; every update that is shown
  as going on ends.
* HTTP: a handler gets the parameters of its own POST, each once; files and
  pbufs are accounted for; every connection ends.
* Tags: however a reply is cut up, the client gets the file with each tag's text
  behind it, and gets all of it.
* Boards page: the rows of one reply are one reading. Forms: the status a browser
  is told is what became of its form.
* TFTP server: what a client believes stored is in the flash; nothing is leaked.
* Dialogs: what the user selects is what the device is set to, in the row he
  clicked.

## 2. The modules

| module | what it is |
|---|---|
| `DybService` | what `ctrl_require` promises its callers, without semaphores and frames |
| `DybLink` | the link in detail |
| `DybLinkRefinement` | the mapping under which `DybLink` implements `DybService` |
| `DybLinkProofs` | proofs about the two |
| `UpdateService` | what an update promises to whoever clicks for one, without threads, buffer and packets |
| `TftpClient` | the update in detail |
| `TftpRefinement` | the mapping under which `TftpClient` implements `UpdateService` |
| `TftpClientProofs` | proofs about the two |
| `PortConfig`, `PortConfigProofs` | port pages and the shared cache, and proofs |
| `HttpConn`, `HttpConnProofs` | connections, POST, replies as portions, and proofs |
| `SsiReply`, `SsiReplyProofs` | one reply: headers, tags, http_write, and proofs |
| `DevicePages`, `DevicePagesProofs` | boards page, panel, forms with their statuses, restart, as tags of several connections, and proofs |
| `PortDialog`, `PortDialogProofs` | a port's settings from the cache through page, dialog and form back to a word, and proofs |
| `TftpServer`, `TftpServerProofs` | the server that programs the flash, and proofs |
| `MCDybLink`, `MCTftpClient`, `MCPortConfig`, `MCHttpConn`, `MCSsiReply`, `MCDevicePages`, `MCPortDialog`, `MCTftpServer` | values of the constants for TLC |

The modules meet at what one leaves open and another settles. `PortConfig` and
`DevicePages` take an exchange with a device as one step that fails or succeeds,
which is what `DybService` promises and `DybLink` is shown to implement.
`HttpConn` sends a reply in any number of portions; `SsiReply` is the function
that makes the portions, and `DevicePages` runs other connections' handlers at
the points where `SsiReply` shows that the function can return. `PortConfig`
takes for granted that a dialog changes one port as the user meant; that is
`PortDialog`'s subject.

### DybLink

One variable per semaphore (`mtx`, `waitSem`), `frame` for `web_control->frame`,
`pc` for where each caller is in `ctrl_require` (109-125) and its wrapper. `Call`
enters a wrapper, `PendMtx`/`PostMtx` are the two operations on `ll_access_mtx`,
`Send`, `ClearWaitSem`, `Woken`/`Timeout` are `ctrl_send_dyb_frame` and
`wait_reply`, `CopyHead`/`CopyTail` the `memcpy` of the body in two halves that
the receive task may separate, `ReadStatus` the look at `cmdStatus`.
`CaptureHead`/`CaptureTail`/`CapturePost` are `ctrl_dyb_frame_capture` (127-136).
Frames are abstracted to the request they answer: a number no guard of an action
looks at, because the real frames do not carry it. The line is external: it
delays, loses and reorders answers and answers a request at most once.

### TftpClient

`UpdateCgi` is `update_cgi_interface`, `HttpAccept` the assignment of
`server_ip` in `http_accept`, `Receive` the callback, and the remaining actions
are the steps of the task, split wherever lwIP's thread can come between two
accesses to what they share:

* the request is written into `frame_buffer` (`BuildRequest`), measured
  (`MeasureRequest`) and sent from there (`SendRequest`); an acknowledgement takes
  `AckOp`, `AckBlock` and `SendAck`;
* a packet is looked at in `TakeLen` (367), `PortKnown`, `PortNew` or `UnknownTid`
  (387-397), `LatchPort` (389, which reads the port again), `OptionAck`,
  `DataPacket` or `BadPacket` (405) and `BlockError`, `OldBlock` or `NewBlock`
  (422-440), and each of these reads what is in the buffer by then;
* a block is counted (`Count`), summed (`Sum`) and written (`Write`).

A packet carries the pair of its file and block, in units of `TFTP_BLOCK_SIZE`
(256 bytes, a page of the flash); the check sum, a sum of bytes, is modelled as a
bag of blocks with the length that was summed, since a sum loses the order and
nothing else. `ZeroBlocks` are blocks whose bytes sum to 0, which matters because
the code recognises the first block by `check_sum == 0`. The server, the network
and the flash are external. The server may grant the block size, not know the
option, or send longer blocks all the same (`long`). `Writes` says what the flash
may store of a page; the code adds what `SPI_Flash_Write_Page_Nret` returns to
`flash_addr` and looks at it no further, so that `Write` goes on in every case.
The history variables `torn` and `replaced` record that less than a page was
stored and that a packet was replaced after its block number had been read.

`UpdateService` knows a click, the start with the newest file, a page taken, the
whole file marked, the restart, and a failure in three steps (the transfer is given
up, the name is erased, the failure is shown), between which a click can come and
be forgotten. It promises the order and number of the pages taken, and of those
written as long as the flash stores them whole: a page that was not stored counts
like the others, as in the code. In `TftpRefinement` an update is loaded from the
request (`tftp_send_readfile_request`) to the check of the file head, `Taken` is
what `prev_block` counts without the block that is not yet written, and both count
from the request on until the transfer fails. `wanted`, `shown` and `marked` are
`update_filename`, `update_ssi_status` and what `update_cfg` says.

### PortConfig

`cache` is the `opt`, `eth[].ge`, `eth[].fe` and `e1` tables, `view` the rows a
browser's page shows. A handler is one action, because lwIP's thread runs it to
its end: `Read` and `ReadFails` are the SSI handlers with `web_read_*`, `Write`
the CGI handlers with `web_write_*`, `CentRmt` the switch of the device,
`ReadPanelOrBoards` the other readers' effect on `dev_id`. `conf` is external:
the settings in the devices. `Careful` restricts the environment to users who
have one page each and wait for what it shows before they act again; with
`Careful = FALSE` browsers submit any row they show at any time. The history
variables say which device a table was read from (`readOf`), which boards have
been written since (`dirty`) and which browser loaded a page last (`loadedBy`).

### HttpConn

One record per connection (`http_state`), the shared payload as `text` and `len`,
counts of `fs_memory` entries and pbufs. One action per callback and outcome:
`Accept`, `Enqueue` (`ERR_INPROGRESS`), `BadRequest`, `GetRequest`,
`PostRequest`, `PostData`, `DataBehind`, `Sent`, `Poll`, `PeerClose`, `Abort`.
`PostBody` is `httpd_post_receive_data` (2324-2370) with its four outcomes, and
`Reply`/`Send` stand for `http_find_file`, `http_init_file` and
`http_send_data`. A body is a sequence of units, the parameters, and the payload
is the sequence that `extract_uri_parameters` would find in it.

### SsiReply

`Poll` and `Sent(n)` are the callbacks that call `http_send_data` (787-1320), and
each pass through one of its loops is an action: `SendHeader` for the header
strings, `ScanText`, `ScanLeadIn`, `ScanName`, `ScanLeadOut` and `TagComplete` for
the states of the scanner, `SendUpToTag`, `SendInsert` and `InsertSent` for
`TAG_SENDING`, `SendParsed` and `SendRest` for the text around the tags. `pc` says
where in the function the call is, `len` is its local variable, which only
shrinks. `Written(n)` is `http_write` (477-499): the lengths its loop can end
with, given the send buffer and a refusal for want of memory. A file is a
sequence of characters, and a byte sent is named by where it comes from (header,
file, or insert with the version of the data), so that `SentIsReply` can compare
what was sent with the reply that should be sent.

### DevicePages

One action per tag (`FirstRow`, `NextRow`, `StatusTag`) and per handler
(`Panel`, `PortPage`, `CentRmt`, `AccountCgi`, `NetCgi`, `PortCgi`, `RebootCgi`),
in any order between connections. `ver` is `bulb_ver`: which boards are listed
(`set`) and the device their versions come from; `exist` is the device that
`boards_exist` comes from. `RebootPoll` sets everything back but the stored
settings. The history variables `intact` and `alone` record whether anything
else has touched what a reply depends on since.

### PortDialog

`ReadData` is the text of the three `*_read_data_ssi_handler`, character by
character as far as the scripts cut it up (`Mark`, `Count`, `Msg`, `Config`);
`Shown` is what `opt.js`, `eth.js` and `e1.js` show of a word; `Options` the
lists of `main.html`; `Open` the dialogs of `main.js`, which select nothing when
the label is not in the list; `Submit` the CGI handlers, with the bits of
`web_opt_config`, `web_eth_config` and `web_e1_config` at their places.
`alphaton` yields no number for a letter, and `atoi` of that is 0: harmless while
boards and ports are numbered below ten, which the instance includes. `Configs` is
what a page may find: the page, the chassis and the cached words.

### TftpServer

`NoPcb`, `NoPort`, `BadOpcode`, `NoMemory`, `ProcessWrite` are the ways through
`IAP_tftp_recv_callback` (305-384); `Chained`, `StoreBlock`, `CountEmptyBlock`,
`OtherBlock` those through `IAP_wrq_recv_callback` (162-242). `flash` is the
sequence of what was written since the last erase, its length is
`Flash_Write_Address`. Clients and network are external: a client repeats what
is not acknowledged, follows the first session that answers, and refuses others
with an error packet, which the server takes for a last one because it is short.

## 3. What each run checks

| run | instance | properties and what they show |
|---|---|---|
| `dyb_deployed` | 1 caller, 4 requests | `CleanWriteOwnsStatus`, `StaleBounded`, `LockReleased`: as deployed a write on a silent link sees its own status, answers outstanding are bounded by the timeouts, and a dead board cannot keep the lock taken |
| `dyb_contended` | 2 callers, 3 requests | `TypeOK`, `OneExchange`, `CleanReadOwnsAnswer`, and the refinement `ServiceSpec`: nothing is mixed up before the first timeout |
| `tftp_fifo` | files of 4 and 3 blocks, flash of 3, a block that sums to 0, pages stored whole, in part or not, a network that loses and repeats in order | `FlashFitsItsArea`, `FlashIsRequestedFile`, `AckedBlocksAreInFlash`, and the refinement `ServiceSpec`: the image is the requested file page by page while whole pages are stored, and the update is the one its users know |
| `tftp_disordered` | files of 2 and 1 blocks, reordering, earlier sessions that go on | `FlashIsOneFile`, `RequestNamesFile`, `NoLostStart`, `ExaminesReceived`, `UpdateEnds`: the check sum keeps files apart, no click starts nothing or is lost, own packets are not handled, updates end |
| `port_one_user` | 1 careful user, 2 devices, 2 pages, 2 boards, 2 ports, 2 writes | `TypeOK`, `WriteKeepsNeighbours`, `WriteReachesChosenDevice` |
| `port_two_users` | 2 browsers that wait for nothing, 2 devices, 2 pages, 2 boards, 2 ports, 2 writes | `CacheIsDevice`, `ShownWriteKeepsNeighbours`: a board with ports in the cache is the device's but for the port written last, and no write loses more than that setting |
| `http_posts` | 2 connections, 3 POSTs, bodies that fit and do not | `TypeOK`, `DamageAccounted`, `ParametersGivenOnce`: each wrong call of a handler is paid for by one cut-off, overflow or overlap |
| `http_replies` | 2 connections, 1 POST, requests in 2 segments, replies in 2 portions, 4 polls | `FilesAccounted`, `PbufsReturned`, `ConnectionsEnd` |
| `ssi_replies` | 4 files with tags next to each other, padded, empty, too long and unknown; a send buffer of 5 | `TypeOK`, `SentIsReply`, `ReplyEnds`: the reply is complete and in order, its inserts unmixed, and it ends |
| `device_pages` | 2 connections, 4 requests, 3 boards, 2 devices | `TypeOK`, `RowsAreOneReading`, `StatusTellsEffect`: rows and statuses are true unless another reply has touched the tables or another form of the kind was sent |
| `port_dialogs` | 3 pages, 4 chassis, all settings of one port, one change | `DialogWritesItsRow`, `TextFits`: the word that is written is the one the user meant, in the row he clicked |
| `tftpd_writes` | 2 clients with files of 2 blocks (one ends in an empty packet), 2 ports, 3 pcbs | `TypeOK`, `NewestInOrder`, `BelievedIsInFlash`, `UndisturbedIsInFlash`, `ResourcesAccounted` |

### Bounds, and why they are enough

* Link: a stale answer needs a request that timed out and one that follows it.
  Four requests give two of each; two callers are what contention needs, as
  callers are alike. The proofs remove both bounds.
* TFTP: the code compares a block with the previous one and the next, so three
  blocks show every order of old, wanted and early ones; two clicks show an
  update during an update and one after a failure. Two packets in transit are
  one delayed and one current one; every packet is sent at most twice
  (`MaxTries`), which is a loss or a repeat. The disordered run stores whole pages
  only: its properties either except torn pages or do not look at the flash, and
  the run in order has all three outcomes.
* Ports: two ports per board, so that there is a neighbour; two boards, devices,
  pages and browsers, so that there is another one; two writes, the second from a
  cache made stale by the first. One chassis has an optical and an E1 board, the
  other the optical one only. `port_two_users` uses symmetry of the browsers and
  checks safety only.
* HTTP: a buffer for two units with bodies of one and three, so that two short
  bodies share it and a long one overflows; three POSTs, so that damage has a
  culprit, a victim and one after it. `MaxOpen` is 1, so that a second reply
  meets a full `fs_memory` (10 entries in the code).
  `http_posts` uses symmetry of the connections and checks safety only.
* Replies: a buffer of 5 is shorter than a tag, so that calls end inside each
  state of the scanner, before, in and behind an insert, and it is not a multiple
  of what is acknowledged. Three header strings as in the code. Two refusals of
  memory, since the second meets a length that the first has shrunk.
* Pages: four requests are a boards page and three that disturb it, or two forms
  and a restart; three boards, one of which only the other device has. The ten
  rows are all there; the ninth repeats the eighth (`httpd_ssi.c` 50), which
  `Lines` says and `RowsAreOneReading` expects (with the two boards that the
  instance lists it makes no difference; the theorem has any number).
* Dialogs: the chassis include a full one of each type (the longest text, 436 of
  511 characters), boards that are not next to each other, and every value of
  the bits a dialog shows. One change at a time, since the settings of a word
  share no bits.
* TFTP server: two ports, so that a repeated request opens a second session and
  the third meets no port; each packet at most twice, two in transit.

Deadlock is checked in the HTTP connection and port cache runs. The other
instances may stop: requests, dialogs and repetitions are bounded, an update ends
in a reset and a reply when it is complete.

### Fairness

`DybLink` assumes weak fairness of each caller's steps, `TftpClient` of the
task's, `HttpConn` of `Poll` for each connection: the kernel runs a task that is
ready, its waits end by their timeouts, and lwIP's timer polls every connection.
Nothing is assumed of the board, the network, the users or the clients, so
`LockReleased`, `UpdateEnds` and `ConnectionsEnd` hold with all of them silent.
`UpdateEnds` does rest on the servers' giving up (`MaxTries`): a stream of option
acknowledgements or old blocks that never ends would keep the task in its loop,
for each of them starts the wait for 5 seconds again.

`SsiReply` asks whether a reply ends while the client goes on receiving, so it
also assumes strong fairness of the acknowledgements: `http_poll` may come
between two of them, which disables neither for good. Weak fairness of
`SendData` says that a call returns, that of `Poll` that lwIP polls; a refusal
for want of memory happens finitely often (`MaxShort`). A client that is silent
is `HttpConn`'s subject.

### Limits of the code that the properties leave room for

No run refutes a promise of the code; what follows is stated as a condition of a
property, or is visible in what a property does not claim.

* `tftp_client.c` 121-122: what `SPI_Flash_Write_Page_Nret` returns is not looked
  at. A page that is stored in part or not at all is acknowledged, the pages behind
  it go to other addresses, and the image is marked, since the check sum is taken
  over the packets and not over the flash. `FlashIsRequestedFile`,
  `FlashIsOneFile` and `AckedBlocksAreInFlash` except such a transfer (`torn`);
  `ServiceSpec` and `FlashFitsItsArea` do not.
* `tftp_client.c` 367-422: a packet that arrives while another is looked at is
  mixed with it. In order this makes no difference to what is marked, which is
  `FlashIsRequestedFile` in `tftp_fifo`; out of order the check sum refuses the
  result (`FlashIsOneFile`), unless the packet came between the reading of the block
  number and the writing of the page (`replaced`): what is then stored may be
  summed as well.
* `tftp_client.c` 387: the port latched may be that of an earlier session, whose
  file is then received and marked as a whole.
* `tftp_client.c` 440: a file whose length is a multiple of 256 ends in an empty
  packet, which is taken for an error although the comment at 458-461 describes
  it as the end of the file. The update is reported as failed;
  `FlashIsRequestedFile` speaks of what is marked for installation, and that no
  such file ever is, unless it has a block of zeros, is the theorem
  `EmptyEndIsNeverInstalled`.
* `webserver_update.c` 67: a click during a transfer resets `file_len`, which is
  both the size that is marked and what is compared with the area of the flash.
  `FlashFitsItsArea` excepts such a transfer; `UpdateService` says that the size
  then is at most that of the pages taken, and otherwise exactly that.
* `webserver_control_comm.c` 310 and `webserver_opt.c` 352: a browser that shows a
  board whose cached settings another browser's failed reading has cleared sends
  zeros to the ports beside the one it sets, and one that writes after another
  undoes the other's last setting. `CacheIsDevice` says that only rows of a page
  that was not the last one loaded can be of boards without ports in the cache,
  and `ShownWriteKeepsNeighbours` that of the other boards no more than the last
  setting is lost, on the device they were read from. Where another browser's
  reading has selected the other device meanwhile (344), that one gets settings
  that are not its own. `WriteKeepsNeighbours` and `WriteReachesChosenDevice` need
  users who do not work at the same time.
* `httpd.c` 1968: `http_err` does not call `httpd_post_finished`, which
  `httpd.h` 232 describes as called when a connection is closed; the part of a
  body that stays behind is counted by `DamageAccounted`.
* `DamageAccounted` counts the wrong handler calls that a cut-off, overflowing
  or overlapping POST causes; `PbufsReturned` excludes connections that end
  inside a request or get data behind it, whose pbufs are never freed
  (`httpd.c` 440, 2114).
* `RowsAreOneReading` needs that nobody switches the device and reads it, and
  that no reading of another reply fails, while the page is sent: each row looks
  at the shared tables again.
* `StatusTellsEffect` speaks of a browser after whose form no other of the same
  kind came: the status is one variable for all.
* `BelievedIsInFlash` and `UndisturbedIsInFlash` leave out two clients that
  write at the same time, and packets of an old transfer that overtake: both
  write into the one flash. `ResourcesAccounted` counts, rather than excludes,
  the pcb that a failing `udp_bind` leaves behind (`tftpserver.c` 334) and the
  packets of the early returns (172, 319, 334). A transfer whose client is gone
  is never ended, which the model contains and no property denies.

## 4. What is proved

Every theorem holds for all values of the constants that satisfy the module's
assumptions; no further axiom is used.

**DybLinkProofs** (assumptions: finitely many callers, `MaxReq` a natural
number). `OneExchange` is made inductive with the types and with `Named`, that
each active caller's request is one that was made (`LockInv`). Clean
exchanges need to know what the link can still deliver: `CleanInv` says that
while a clean exchange waits, only its own request is outstanding, and that from
the wake-up to the copy nothing is; `CaptureInv` ties the frame to the capture
in progress. `StaleIInv` is the count itself, with the finiteness of `net`.
`MixupIInv` joins them: before the first timeout the count forces every exchange
to start on a silent link, so all are clean. That invariant, with `BlankInv`,
gives the step simulation of `DybService` (`LinkImplementsService`).
`CleanWrites` is proved for a single caller, and for two it is not true.

**TftpClientProofs**. `TypeCorrect` needs that no session is past its file's end
(`SrvInv`). `StartInv` follows the click from `start_sem` to the request
(`RequestsNameFiles`, `StartsAreNotLost`). `SizeInv` follows `file_len` and the
pages in the flash against `prev_block`: they are equal to what was taken, less one
while a block is on its way to the flash, unless a click reset the one or a page was
not stored whole. With `AreaInv`, that the block being written still fits, it
gives `FlashAlwaysFitsItsArea` for any network. `FrameInv` says that a post found
after `recv_sem` was cleared stands for a packet received since, and that from
then on the buffer holds one packet as it came (`PacketsAreReceived`). `AckInv` says
that no open session is past the block behind those taken; with `FreshInv`, which
tells the current request from older ones, it gives `BlocksAreAckedInFlash` for any
network and any packet that comes while an acknowledgement is put together.

`OneInv` is what the check sum is worth on any network: while no packet is replaced
behind the reading of its block number and pages are stored whole, each block counts
in the sum exactly as often as it stands in the flash at its own place. The
comparison with the file head then leaves one file (`FlashHoldsOneFile`).

`FlashHoldsRequestedFile` is proved where it is claimed, with packets in order and no
session that outlives its transfer (`InOrder == ~Reordering /\ ~Lingering`, as in
the run `tftp_fifo`). `LineInv` and `OrderInv` are why it holds there: the numbers of
the packets in transit never fall, the one in `frame_buffer` is not above them and
none is above the block behind those taken. `LookInv` says what the task has read of
them so far: a packet that replaces another between the reads of its length, port,
opcode and block number is a later one of the same session, so that only the length
of an option acknowledgement can get together with the number of a block, the first
one. `PageInv` says that a block which is summed or written is the one that was
counted, whatever is received meanwhile. What is left, that the first block was
taken for a short and last one, the check sum refuses in `DoneInv`: this needs that a
file of more than one block has one that the sum depends on (`Weighty`).

With these invariants the step simulation of `UpdateService` follows in the same case
(`UpdateImplementsService`): `BuildRequest` is the start, `Write` the page,
`Finish` the mark, the ways to fail are one, and no other step is noticed.
`EmptyEndInv` says why an empty last packet is never followed by `Finish`: behind
every block that is taken for a short one the sum has a part that no such file has.

**PortConfigProofs**. `CacheIsDevice` is inductive with the types; its two parts are
proved apart, `TableStep` for a board and `RowsStep` for the pages. It gives
`ShownWrites`: the copy that is sent equals the device's settings but for one port,
and the port written last. For one careful user (`Browsers = {user}`, `Careful`) the invariant
`ViewIsFresh`, that what the browser shows is fresh and of the chosen device,
gives `OneUserKeepsNeighbours` and `OneUserReachesChosenDevice` without the
condition on the cache.

**HttpConnProofs**. `Base` is the state of each connection (`Good`: a connection
inside a body has no reply, a closed one nothing) with the counts of open files
and of pbufs; it gives `FilesAlwaysAccounted` and `PbufsAlwaysReturned` by counting
the connections before and after a step. `Payload` is what the shared buffer means:
each POST that comes in belongs to one connection (`OwnPosts`), every unit in the
buffer or given to a handler has been received (`Places`) and is in one place only
(`Once`), which gives `ParametersAlwaysGivenOnce`. `Damage` counts: whenever the
buffer is not what the POST that comes in has sent, there is one fault more than
there are damaged POSTs (`Spare`), because whoever is given the buffer next may be
damaged by it. That gives `DamageAlwaysAccounted`.

**DevicePagesProofs**. `TablesOK` says what `intact` keeps: the shared tables still
hold what the page's first row found. With the types, among them that only boards
read from a device are listed, it gives `RowsAlwaysOneReading`. `StatusesOK` says
that while a form waits for its tag and no other of its kind has come, the one
status variable is the truth about it; for the network settings across a restart
as well (`StatusAlwaysTellsEffect`).

**TftpServerProofs**. `ResourcesAlwaysAccounted` is inductive with the types.
`NewestInv` adds that sessions have different numbers and none is newer than the
last request, so that the packets of older sessions do not count
(`NewestAlwaysInOrder`). `FollowedInv` follows the client that was answered by the
newest session: it has been acknowledged no more than that session wrote
(`AckedOK`), and what the session wrote is its block, or the error packet of a
client that does not follow it (`PayloadOK`); `UndisturbedAlwaysInFlash` follows.
`AloneOK` is about the only client that sends, on a network in order: its requests
are in front of its data in transit, and the flash is a prefix of its file
(`BelievedAlwaysInFlash`).

**SsiReplyProofs** (assumptions: `SsiConstants`, what the files of the image are).
The invariant `ReplyInv` has two halves. `ScanInv` gives `tag_state`, `tag_index`
and `tag_name` a meaning in the text: a tag that starts before `hs->parsed` is
complete before it, or it is the one candidate whose lead-in, name or lead-out
has been read as far as the state says. The scanner gives a candidate up at a
character that does not fit and does not look at it again; no tag is lost by that,
since a lead-in begins with `<` and the files have none inside another. `OutInv`
says what was sent: the headers, then each piece of the text with its insert up to
`hs->file`, and behind the last character of a tag the part of the insert that
`tag_index` counts. `SendingInv` joins them: between what is sent and what is
parsed ends at most one tag, the one whose insert is being sent. That the handler
of each tag is asked once, and which version it read, is in the length of `seen`.
`RepliesSent` follows from lemmas about `FlattenSeq`.

An induction is needed here: that `FlattenSeq` of one piece more is the
concatenation with that piece, and that a run of characters without tags is sent as
it is. It is done as a least counterexample (`LeastNat`, from the well-foundedness
of `<`), which needs no operator as a parameter.

**PortDialogProofs** (assumption: `DialogConstants`, what the pages, boards and words
are; a word may be any number). The theorems need to know what the text means, which
neither of them says. `TextIsRight` says it: where the scripts look for a line of a
table (`Mark`, `Count`, `Msg`) stands the row with as many rows before it, and its
characters are read back as its board, its port and the bits of its word. To get
there, `TextLaid` follows the two loops over boards and ports: behind any of their
passes the text has `PortLen` characters for each row so far and none of them is the
mark (`ReadLaysOut`). That `Alphaton` yields a number needs that boards and ports
have one digit. `DialogIsRight` says that an open dialog names the row in whose line
it was opened and selects what that row's word shows, or nothing, except for what the
user changed. The lemmas about bits (`ByteShowsSelected`, `WordShowsSelected`) say
that the CGI handlers' writes change what is shown of the settings selected and
nothing else of the word. `IInv` is these two with the types and the property
itself (`DialogsWriteTheirRow`). `TextsFit` counts what `TextLaid` laid: no board has
more than its `Amounts` (`LineBound`).

The loops are an induction again, by least counterexample (`UpTo`). The functions
that model them are defined by recursion, so the proofs first show that a function
with these values exists (`TextsExist`).

**Model-checked only.** The liveness properties (`LockReleased`, `UpdateEnds`,
`ConnectionsEnd`, `ReplyEnds`), as TLAPS does not reason about fairness and
ENABLED here. Every invariant and refinement that a run checks is also proved. The
other way round, three theorems state what no run checks because another property
contains it or because it is about a single case: `TypeCorrect` of the TFTP client,
`NoMixupBeforeTimeout`, which `ServiceSpec` of the link contains, and
`EmptyEndIsNeverInstalled`.

## 5. Assumptions of the models

* A UDP or TCP callback is atomic relative to the TFTP task: lwIP's thread is
  taken to have the higher priority. The priorities are defined outside the
  repository (`tftp_client.h` 8 only recalls one of them, 16, in a comment). `TftpClient` is one run from power on to the reset.
* TFTP packets are well formed and fit `frame_buffer` (two blocks), and no unknown
  host sends to the device's port; a server that ignores the block size sends
  blocks longer than it. Copying a packet into the buffer, summing one block and
  writing one page are a step each, and so are the mark and the status of a
  success (317-331). `torn` and `replaced` are cleared by the next request.
* In `TftpClient` two files differ in every block but blocks of zeros, and a sum of
  bytes tells them apart, as a bag does; that two different images have equal sums
  by chance is left out. `FlashHoldsRequestedFile` and `UpdateImplementsService`
  are proved for files in which not every block is zeros or empty (`Weighty`).
* In `PortConfig` a late answer is never taken for the next request's (when that
  holds is `DybLink`'s subject), nobody but the web server configures a device,
  and a dialog submits all settings of its port. `boards_exist` and `bulb_ver`
  are left to `DevicePages`.
* In `HttpConn` a client sends one request per connection, `tcp_close`
  succeeds, a segment is counted as one pbuf, a page submits at most the 16
  parameters that are taken, and ends with one that no handler reads. The tags
  that `http_send_data` expands are left to `SsiReply`, and the loss of a NUL
  behind a body of exactly 512 bytes is left out.
* In `SsiReply` the connection is not given up by `http_poll` (when it is, is
  `HttpConn`'s subject), a file is one block, as all files of the image are, and
  files are such as the repository has: angle brackets come in pairs, a tag is
  closed by `-->`, and none ends with a tag (`SsiConstants`).
* In `DevicePages` a form arrives with all its parameters or with too few to be
  taken for one; the settings storage keeps what is written; `reboot_poll` is
  called by a task outside the repository, at any moment.
* In `PortDialog` the devices answer and take what they are sent, and one user
  works at one page.
* In `TftpServer` the flash accepts every write, an abandoned transfer's client
  never returns under its old port, and only well-formed TFTP packets arrive.

## 6. What is not modelled, and the plan

The order of work was the link first, since everything the pages show and change
goes through it; then the firmware update, where an error costs the device its
program; then the port cache, which composes with the link's promise; then the
connections, the replies they send, the tables and statuses those show, the way
of the settings through the scripts, and the TFTP server. The proofs followed in the
same order, down to the dialogs and the refinement of the update. What is left are
the liveness properties, which the installed provers cannot reach.

Not modelled:

* the upload over HTTP (`webserver_iap.c`): its only call is disabled by `#if 0`
  (`httpd.c` 2081-2088), so none of its code can run;
* the handlers that stand in `#if 0` in `webserver_opt.c`, `webserver_eth.c`,
  `webserver_e1.c`, `webserver_login.c` and `httpd_cgi.c`, for the same reason;
  the login compares the account in the browser;
* a `tcp_close` that fails (`httpd.c` 538): what the code then does depends on
  what is in memory at address 0;
* handlers that are given damaged or missing parameters beyond the cases named
  above, where the code reads outside its arrays;
* the panel's lamps, the progress bar, the display of the ports' state, cookies
  and the layout of pages, which are displays or single assignments; third-party
  scripts and the generated file-system image.
