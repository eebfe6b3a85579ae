----------------------------- MODULE PortConfig -----------------------------
(***************************************************************************)
(* The port pages of the web server (webserver_opt.c, webserver_eth.c,     *)
(* webserver_e1.c), the switch between the two devices, and the reads and  *)
(* writes of webserver_control_comm.c they are built on.                   *)
(*                                                                         *)
(* A page is read from one of two devices, the central one and the remote  *)
(* one, into the one cache web_control, which all browsers share.  A       *)
(* write copies the cached settings of a whole board, changes one port in  *)
(* the copy and sends all of it to the device whose id was read last.      *)
(* lwIP's thread runs each handler to its end, so a handler is one action. *)
(*                                                                         *)
(* An exchange with a device may fail.  A write that got no answer may     *)
(* have been applied.  The answer of an exchange that timed out is never   *)
(* taken for the answer of the next (DybLink says when that is so), and    *)
(* nobody else configures the devices.  A port is addressed by a row the   *)
(* browser shows; what the rows hold is left out, since the dialog submits *)
(* every setting of its port.                                              *)
(***************************************************************************)
EXTENDS Integers, FiniteSets

CONSTANTS
  Browsers,
  Pages,       \* the port pages that browsers load
  Boards,      \* 0 .. MAX_BOARD_NO-1
  Ports,       \* ports of one kind on a board
  Settings,    \* the settings of one port; 0 is what memset leaves
  Type,        \* Type[d][b]: the type of board b of device d, or "none"
  Factory,     \* Factory[d]: the settings of every port of d at the start
  Careful,     \* each user has one page, waits for the answer to a write or a
               \* change of device and for the page that follows it, and gets it
  MaxWrites    \* bound: writes that browsers make

Devices  == {"central", "remote"}
NoDevice == "none"
Tables   == {"opt", "ge", "fe", "e1"}
Types    == {"GAN111_MAIN_CTRL", "GAN111_8E1", "none"}

ASSUME PortConstants ==
  /\ Pages \subseteq {"opt", "eth", "e1"} /\ Pages # {}
  /\ 0 \in Boards /\ IsFiniteSet(Boards) /\ IsFiniteSet(Ports) /\ 0 \in Settings
  /\ Type \in [Devices -> [Boards -> Types]]
  /\ Factory \in [Devices -> Settings]
  /\ Careful \in BOOLEAN /\ MaxWrites \in Nat

VARIABLES
  crChosen,    \* cr_remote_chosen
  devId,       \* web_control->dev_id
  cache,       \* web_control->opt, eth[].ge, eth[].fe, e1
  configState, \* opt_config_state, eth_config_state, e1_config_state
  view,        \* the boards whose ports each browser shows
  conf,        \* external: the settings in the devices
  readOf,      \* history: the device a table was last read from
  dirty,       \* history: cached boards that have been written since
  loadedBy,    \* history: the browser that loaded a page last
  writes       \* history: number of writes

vars == <<crChosen, devId, cache, configState, view, conf, readOf, dirty, loadedBy, writes>>
-----------------------------------------------------------------------------
\* boards_contain_*
Contains ==
  [opt |-> {"GAN111_MAIN_CTRL"}, ge |-> {"GAN111_MAIN_CTRL"}, fe |-> {"GAN111_MAIN_CTRL"},
   e1 |-> {"GAN111_8E1"}]
Has(d, t) == {b \in Boards : Type[d][b] \in Contains[t]}

PageTables == [opt |-> {"opt"}, eth |-> {"ge", "fe"}, e1 |-> {"e1"}]
PageOf(t)  == CHOOSE pg \in DOMAIN PageTables : t \in PageTables[pg]

Port0   == [p \in Ports |-> 0]
Entry   == [cfg : [Ports -> Settings], shown : BOOLEAN]
Cleared == [b \in Boards |-> [cfg |-> Port0, shown |-> FALSE]]
Rows    == Tables \X Boards

Init ==
  /\ crChosen = "central" /\ devId = NoDevice
  /\ cache = [t \in Tables |-> Cleared]
  /\ configState = [pg \in DOMAIN PageTables |-> 0]
  /\ view = [br \in Browsers |-> {}]
  /\ conf = [d \in Devices |-> [t \in Tables |-> [b \in Boards |-> [p \in Ports |-> Factory[d]]]]]
  /\ readOf = [t \in Tables |-> NoDevice]
  /\ dirty = {} /\ writes = 0
  /\ loadedBy = [pg \in DOMAIN PageTables |-> {}]
-----------------------------------------------------------------------------
\* cent_rmt_cgi_interface; the browser loads its page again
CentRmt(br, d) ==
  /\ crChosen' = d
  /\ view' = IF Careful THEN [view EXCEPT ![br] = {}] ELSE view
  /\ UNCHANGED <<devId, cache, configState, conf, readOf, dirty, loadedBy, writes>>

\* Mutant: the device whose id was read before is asked.
DeviceId_Kept ==
  devId' = IF devId = NoDevice THEN crChosen ELSE devId

\* web_read_device_id succeeds
DeviceId == devId' = crChosen

\* web_read_opt, web_read_eth or web_read_e1 cannot read the device's id, or
\* which boards it has
ReadFails(br, pg) ==
  /\ UNCHANGED devId \/ DeviceId
  /\ cache' = [t \in Tables |-> IF t \in PageTables[pg] THEN Cleared ELSE cache[t]]
  /\ view' = [view EXCEPT ![br] = {}]
  /\ loadedBy' = [loadedBy EXCEPT ![pg] = {br}]
  /\ UNCHANGED <<crChosen, configState, conf, readOf, dirty, writes>>

\* Mutant: a board that could not be read keeps its amount of ports.
CacheBoard_KeepsAmount(t, b, failed, stateless) ==
  IF b \notin Has(devId', t) THEN [cache[t][b] EXCEPT !.shown = FALSE]
  ELSE IF <<t, b>> \in failed THEN cache[t][b]
  ELSE [cfg |-> conf[devId'][t][b], shown |-> <<t, b>> \notin stateless]

\* Mutant: the amounts of boards the device does not have are not cleared.
CacheBoard_KeepsOthers(t, b, failed, stateless) ==
  IF b \notin Has(devId', t) THEN cache[t][b]
  ELSE IF <<t, b>> \in failed THEN [cache[t][b] EXCEPT !.shown = FALSE]
  ELSE [cfg |-> conf[devId'][t][b], shown |-> <<t, b>> \notin stateless]

\* one board of a table: its configuration cannot be read, or only its state
\* (of an optical board), or it is read
CacheBoard(t, b, failed, stateless) ==
  IF b \notin Has(devId', t) \/ <<t, b>> \in failed THEN [cache[t][b] EXCEPT !.shown = FALSE]
  ELSE [cfg |-> conf[devId'][t][b], shown |-> <<t, b>> \notin stateless]

\* the boards that web_read_* asks for a page
Asked(pg) == {r \in PageTables[pg] \X Boards : r[2] \in Has(devId', r[1])}

\* Mutant: the rows of the page shown before are kept.
RowsShown_Added(br, pg) ==
  view[br] \cup {r \in PageTables[pg] \X Boards : cache'[r[1]][r[2]].shown}

\* tbody is emptied and filled again
RowsShown(br, pg) ==
  {r \in PageTables[pg] \X Boards : cache'[r[1]][r[2]].shown}

\* opt_read_data_ssi_handler, eth_read_data_ssi_handler, e1_read_data_ssi_handler
Read(br, pg) ==
  /\ DeviceId
  /\ \E failed \in SUBSET Asked(pg), stateless \in SUBSET (Asked(pg) \cap ({"opt"} \X Boards)) :
       cache' = [t \in Tables |->
                  IF t \in PageTables[pg]
                    THEN [b \in Boards |-> CacheBoard(t, b, failed, stateless)]
                    ELSE cache[t]]
  /\ view' = [view EXCEPT ![br] = RowsShown(br, pg)]
  /\ readOf' = [t \in Tables |-> IF t \in PageTables[pg] THEN devId' ELSE readOf[t]]
  /\ dirty' = {r \in dirty : r[1] \notin PageTables[pg]}
  /\ loadedBy' = [loadedBy EXCEPT ![pg] = {br}]
  /\ UNCHANGED <<crChosen, configState, conf, writes>>

\* Mutant: the whole copy is filled with the settings that were submitted.
NewConfig_AllPorts(t, b, p, v) == [q \in Ports |-> v]

\* Mutant: the copy is taken from another board.
NewConfig_Board0(t, b, p, v) == [cache[t][0].cfg EXCEPT ![p] = v]

\* the copy of the board's settings with one port changed
NewConfig(t, b, p, v) == [cache[t][b].cfg EXCEPT ![p] = v]

\* opt_cgi_interface, eth_cgi_interface, e1_cgi_interface with parameters
Write(br, t, b, p, v) ==
  /\ writes < MaxWrites /\ <<t, b>> \in view[br]
  /\ writes' = writes + 1
  /\ view' = IF Careful THEN [view EXCEPT ![br] = {}] ELSE view
  /\ \/ \* lost, or refused with a cmdStatus
        /\ configState' = [configState EXCEPT ![PageOf(t)] = -1]
        /\ UNCHANGED <<conf, dirty>>
     \/ \* applied; the answer may be lost
        /\ devId # NoDevice /\ b \in Has(devId, t)
        /\ conf' = [conf EXCEPT ![devId][t][b] = NewConfig(t, b, p, v)]
        /\ dirty' = IF readOf[t] = devId THEN dirty \cup {<<t, b>>} ELSE dirty
        /\ \E ret \in {0, -1} : configState' = [configState EXCEPT ![PageOf(t)] = ret]
  /\ UNCHANGED <<crChosen, devId, cache, readOf, loadedBy>>

\* web_read_panel and web_read_boards_version: what else they read has no part
\* in the port pages
ReadPanelOrBoards ==
  /\ DeviceId
  /\ UNCHANGED <<crChosen, cache, configState, view, conf, readOf, dirty, loadedBy, writes>>

Next ==
  \/ \E br \in Browsers :
       \/ \E d \in Devices : CentRmt(br, d)
       \/ \E pg \in Pages : ReadFails(br, pg) \/ Read(br, pg)
       \/ \E t \in Tables, b \in Boards, p \in Ports, v \in Settings : Write(br, t, b, p, v)
  \/ ReadPanelOrBoards

Spec == Init /\ [][Next]_vars
-----------------------------------------------------------------------------
(* Properties. *)

\* The types of the state; a browser shows rows of one page.
TypeOK ==
  /\ crChosen \in Devices
  /\ devId \in Devices \cup {NoDevice}
  /\ cache \in [Tables -> [Boards -> Entry]]
  /\ configState \in [DOMAIN PageTables -> {0, -1}]
  /\ view \in [Browsers -> SUBSET Rows]
  /\ \A br \in Browsers : \E pg \in Pages : view[br] \subseteq PageTables[pg] \X Boards
  /\ conf \in [Devices -> [Tables -> [Boards -> [Ports -> Settings]]]]
  /\ readOf \in [Tables -> Devices \cup {NoDevice}]
  /\ dirty \in SUBSET Rows
  /\ loadedBy \in [DOMAIN PageTables -> SUBSET Browsers]
  /\ writes \in 0 .. MaxWrites

\* the ports whose cached settings are not those of the device
Differ(t, b) == {p \in Ports : cache[t][b].cfg[p] # conf[readOf[t]][t][b][p]}

\* A board with ports in the cache is a board of the device the table was
\* read from, with the settings it has there: nothing of another device, of a
\* failed reading or of another page is left in it.  However often it has been
\* written since, one port at most differs, the one written last.  Boards
\* without ports are shown by no browser but those that loaded their page
\* before the last one did.
CacheIsDevice ==
  /\ \A t \in Tables, b \in Boards : cache[t][b].shown =>
       /\ readOf[t] \in Devices /\ b \in Has(readOf[t], t)
       /\ \A p, q \in Differ(t, b) : <<t, b>> \in dirty /\ p = q
  /\ \A pg \in DOMAIN PageTables : \A br \in loadedBy[pg] : \A r \in view[br] :
       r[1] \in PageTables[pg] => cache[r[1]][r[2]].shown

Changed == {x \in Devices \X Tables \X Boards \X Ports :
              conf'[x[1]][x[2]][x[3]][x[4]] # conf[x[1]][x[2]][x[3]][x[4]]}

\* Whoever else reads and writes, a write to a board that has ports in the
\* cache, of the device they were read from, changes one port of the board, or
\* two: then one of them is the port that was written last, and gets back the
\* setting it was read with.
ShownWriteKeepsNeighbours ==
  [][\A t \in Tables, b \in Boards : cache[t][b].shown =>
       \A x, y \in {z \in Changed : z[1] = readOf[t] /\ z[2] = t /\ z[3] = b} :
         x # y => \E p \in {x[4], y[4]} \cap Differ(t, b) :
                    <<t, b>> \in dirty /\ conf'[readOf[t]][t][b][p] = cache[t][b].cfg[p]]_vars

\* With one careful user no write ever changes a second port, although every
\* write sends a board's worth of settings from a cache that the write does
\* not update, and although exchanges fail and devices are switched.
WriteKeepsNeighbours == [][Cardinality(Changed) =< 1]_vars

\* With one careful user a write reaches the device the user has chosen,
\* although it goes to the one whose id was read last, by the page or by the
\* polling of the panel, and the choice is a variable of its own.
WriteReachesChosenDevice == [][\A x \in Changed : x[1] = crChosen]_vars
=============================================================================
