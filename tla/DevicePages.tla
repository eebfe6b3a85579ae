----------------------------- MODULE DevicePages -----------------------------
(***************************************************************************)
(* The replies of several connections, tag by tag: the boards page         *)
(* (webserver_boards_mng.c), the panel, the switch between the two         *)
(* devices, the forms for the account, the network and the ports with the  *)
(* status each reports (webserver_account.c, webserver_net_config.c, the   *)
(* port pages), and the restart (webserver_reboot.c).                      *)
(*                                                                         *)
(* A handler runs to its end.  Between two tags of a reply, and between a  *)
(* form and the tag that reports its status, the callback may have         *)
(* returned for want of room to send (SsiReply), and other connections'    *)
(* handlers may run.  The tables and the statuses are global variables.    *)
(*                                                                         *)
(* An exchange with a device may fail (DybLink).  What the ports are set   *)
(* to is PortConfig's subject: here a write of a port has an effect or     *)
(* none.  The settings live in memory that a restart keeps.                *)
(***************************************************************************)
EXTENDS Integers, Sequences, FiniteSets

CONSTANTS
  Conns,        \* connections
  Boards,       \* 0 .. MAX_BOARD_NO-1
  Type,         \* Type[d][b]: the type of board b of device d, or "none"
  Accounts,     \* user names with their passwords
  Nets,         \* network settings
  ValidNets,    \* those that ip_msk_gw_validation accepts
  MaxRequests   \* bound: pages and forms asked for

Devices  == {"central", "remote"}
NoDevice == "none"
Managed  == {"GAN111_MAIN_CTRL", "GAN111_8E1"}   \* boards_contain_boards_mng
Forms    == {"account", "net", "port"}
Results  == {"success", "fail", "incorrect"}

\* the line that each of the ten tags of boards.shtml shows (httpd_ssi_objs)
Lines == <<1, 2, 3, 4, 5, 6, 7, 8, 8, 10>>

ASSUME PageConstants ==
  /\ IsFiniteSet(Conns) /\ 0 \in Boards /\ Boards \subseteq 0 .. 8
  /\ \A d \in Devices, b \in Boards : Type[d][b] \in Managed \cup {"other", "none"}
  /\ Accounts # {} /\ "missing" \notin Accounts
  /\ ValidNets # {} /\ ValidNets \subseteq Nets
  /\ MaxRequests \in Nat

VARIABLES
  crChosen,     \* cr_remote_chosen
  exist,        \* the device that web_control->boards_exist was read from
  ver,          \* web_control->bulb_ver: listed or not, and the device the
                \* versions were read from
  account, net, \* the stored settings
  netif,        \* the network settings in force
  status,       \* account_status, net_config_status, *_config_state
  rebootSet,    \* reboot_set
  task,         \* what each connection is served
  rows,         \* rows of the boards page sent so far
  told,         \* the status that was sent
  listed,       \* history: the boards its first row found, and their device
  intact,       \* history: nothing else has been read since that matters
  form, want,   \* history: the form it sent last, and what it asked for
  effect,       \* history: that form was stored
  alone,        \* history: no other such form was received since
  requests      \* history: number of requests

tables   == <<exist, ver>>
settings == <<account, net, netif>>
page     == <<rows, listed, intact>>
report   == <<told, form, want, effect, alone>>
vars == <<crChosen, tables, settings, status, rebootSet, task, page, report, requests>>
-----------------------------------------------------------------------------
Unread  == [set |-> FALSE, of |-> NoDevice]
Cleared == [b \in Boards |-> Unread]
Nothing == [dev |-> NoDevice, boards |-> {}]
Idle    == "idle"
Managing(d) == {b \in Boards : Type[d][b] \in Managed}

AllSuccess == [f \in Forms |-> "success"]   \* 0
AllIdle    == [c \in Conns |-> Idle]

Init ==
  /\ crChosen = "central" /\ exist = NoDevice /\ ver = Cleared
  /\ status = AllSuccess /\ rebootSet = FALSE /\ task = AllIdle
  /\ account \in Accounts /\ net \in ValidNets /\ netif = net
  /\ rows = [c \in Conns |-> <<>>]
  /\ listed = [c \in Conns |-> Nothing] /\ intact = [c \in Conns |-> FALSE]
  /\ told = [c \in Conns |-> "nothing"] /\ form = [c \in Conns |-> "none"]
  /\ want = [c \in Conns |-> account] /\ effect = [c \in Conns |-> FALSE]
  /\ alone = [c \in Conns |-> FALSE]
  /\ requests = 0

Request(c) == /\ task[c] = Idle /\ requests < MaxRequests
              /\ requests' = requests + 1

\* Only the boards pages that keep would find as they found it stay intact.
Survive(keep) == intact' = [c \in Conns |-> intact[c] /\ listed[c] \in keep]
OfDevice(d)   == {x \in {listed[c] : c \in Conns} : x.dev = d}
-----------------------------------------------------------------------------
(* The boards page. *)

ListedIn(v) == {b \in Boards : v[b].set}
\* the n-th board of a set, counted from 1
Nth(S, n) == CHOOSE b \in S : Cardinality({a \in S : a =< b}) = n

\* board_common_line_ssi_handler; the type comes from boards_exist
Blank == [board |-> -1, version |-> NoDevice, type |-> "none"]   \* " "
Line(n, v, e) ==
  LET b == Nth(ListedIn(v), n) IN
    IF n > Cardinality(ListedIn(v)) THEN Blank
    ELSE [board |-> b, version |-> v[b].of, type |-> IF e = NoDevice THEN "none" ELSE Type[e][b]]

BoardsPage(c) ==
  /\ Request(c)
  /\ task' = [task EXCEPT ![c] = "boards"]
  /\ rows' = [rows EXCEPT ![c] = <<>>]
  /\ UNCHANGED <<crChosen, tables, settings, status, rebootSet, listed, intact, report>>

\* Mutant: boards that the device does not have stay listed.
Versions_KeepsOthers(d, failed) ==
  [b \in Boards |-> IF b \in failed THEN [ver[b] EXCEPT !.set = FALSE]
                    ELSE IF b \in Managing(d) THEN [set |-> TRUE, of |-> d]
                    ELSE ver[b]]

\* the table after reading all boards of d but the failed ones
Versions(d, failed) ==
  [b \in Boards |-> IF b \in Managing(d) \ failed THEN [set |-> TRUE, of |-> d]
                    ELSE [ver[b] EXCEPT !.set = FALSE]]

\* board_line1_ssi_handler: the table is read again, or cleared
FirstRow(c) ==
  /\ task[c] = "boards" /\ rows[c] = <<>>
  /\ \/ /\ ver' = Cleared /\ UNCHANGED exist
        /\ listed' = [listed EXCEPT ![c] = Nothing]
     \/ \E failed \in SUBSET Managing(crChosen) :
          /\ exist' = crChosen /\ ver' = Versions(crChosen, failed)
          /\ listed' = [listed EXCEPT ![c] = [dev |-> crChosen, boards |-> Managing(crChosen) \ failed]]
  /\ rows' = [rows EXCEPT ![c] = <<Line(Lines[1], ver', exist')>>]
  /\ intact' = [x \in Conns |-> x = c \/ (intact[x] /\ listed[x] = listed'[c])]
  /\ UNCHANGED <<crChosen, settings, status, rebootSet, task, report, requests>>

\* board_line2_ssi_handler and those that follow
NextRow(c) ==
  /\ task[c] = "boards" /\ rows[c] # <<>>
  /\ rows' = [rows EXCEPT ![c] = Append(@, Line(Lines[Len(@) + 1], ver, exist))]
  /\ task' = [task EXCEPT ![c] = IF Len(rows'[c]) = Len(Lines) THEN Idle ELSE @]
  /\ UNCHANGED <<crChosen, tables, settings, status, rebootSet, listed, intact, report, requests>>
-----------------------------------------------------------------------------
(* The other readings of the devices, and the switch. *)

\* Mutant: the panel lists the board it reads.
PanelVersions_Lists == [ver EXCEPT ![0] = [set |-> TRUE, of |-> crChosen]]

\* web_read_panel reads the lamps and with them the versions of board 0
PanelVersions == [ver EXCEPT ![0].of = crChosen]

\* panel_ssi_handler; a failure clears the versions of all boards
Panel(c) ==
  /\ Request(c)
  /\ \/ ver' = Cleared /\ Survive({})
     \/ Type[crChosen][0] # "none" /\ ver' = PanelVersions /\ Survive(OfDevice(crChosen))
  /\ UNCHANGED <<crChosen, exist, settings, status, rebootSet, task, rows, listed, report>>

\* web_read_opt, web_read_eth, web_read_e1, as far as the boards page sees it
PortPage(c) ==
  /\ Request(c)
  /\ \/ UNCHANGED <<exist, intact>>
     \/ exist' = crChosen /\ Survive(OfDevice(crChosen))
  /\ UNCHANGED <<crChosen, ver, settings, status, rebootSet, task, rows, listed, report>>

\* cent_rmt_cgi_interface
CentRmt(c, d) ==
  /\ Request(c)
  /\ crChosen' = d
  /\ UNCHANGED <<tables, settings, status, rebootSet, task, page, report>>
-----------------------------------------------------------------------------
(* Forms: the CGI handler stores and sets the status, the tag of the page   *)
(* that answers it sends the status.                                        *)

Submitted(c, f, w, result, stored) ==
  /\ status' = [status EXCEPT ![f] = result]
  /\ task' = [task EXCEPT ![c] = f]
  /\ told' = [told EXCEPT ![c] = "nothing"]
  /\ form' = [form EXCEPT ![c] = f] /\ want' = [want EXCEPT ![c] = w]
  /\ effect' = [effect EXCEPT ![c] = stored]
  /\ alone' = [x \in Conns |-> x = c \/ (alone[x] /\ form[x] # f)]
  /\ UNCHANGED <<crChosen, tables, rebootSet, page>>

\* account_cgi_interface; "missing": fewer than two parameters came
AccountCgi(c) ==
  /\ Request(c)
  /\ \E cur \in Accounts \cup {"missing"}, new \in Accounts :
       /\ account' = IF cur = account THEN new ELSE account
       /\ Submitted(c, "account", new,
            IF cur = "missing" THEN "fail" ELSE IF cur = account THEN "success" ELSE "incorrect",
            cur = account \/ account' # account)
  /\ UNCHANGED <<net, netif>>

\* Mutant: the settings are put in force but not stored.
NetStored_Forgets(n) == UNCHANGED net

NetStored(n) == net' = n

\* net_cgi_interface with parameters
NetCgi(c) ==
  /\ Request(c)
  /\ \E n \in Nets :
       \/ /\ n \notin ValidNets
          /\ Submitted(c, "net", n, "fail", FALSE) /\ UNCHANGED <<net, netif>>
       \/ /\ n \in ValidNets
          /\ netif' = n /\ NetStored(n)
          /\ Submitted(c, "net", n, "success", TRUE)
  /\ UNCHANGED account

\* opt_cgi_interface, eth_cgi_interface, e1_cgi_interface with parameters: the
\* answer to a write that was carried out may be lost
PortCgi(c) ==
  /\ Request(c)
  /\ \E result \in {"success", "fail"}, stored \in BOOLEAN :
       /\ result = "success" => stored
       /\ Submitted(c, "port", "none", result, stored)
  /\ UNCHANGED settings

\* account_status_ssi_handler, net_config_status_ssi_handler, *_config_status
StatusTag(c) ==
  /\ task[c] \in Forms
  /\ told' = [told EXCEPT ![c] = status[task[c]]]
  /\ task' = [task EXCEPT ![c] = Idle]
  /\ UNCHANGED <<crChosen, tables, settings, status, rebootSet, page, form, want, effect,
                 alone, requests>>
-----------------------------------------------------------------------------
(* Restart. *)

\* reboot_cgi_interface
RebootCgi(c) ==
  /\ Request(c)
  /\ rebootSet' = TRUE
  /\ UNCHANGED <<crChosen, tables, settings, status, task, page, report>>

\* reboot_poll: the device is reset and starts from its stored settings
RebootPoll ==
  /\ rebootSet
  /\ crChosen' = "central" /\ exist' = NoDevice /\ ver' = Cleared
  /\ status' = AllSuccess /\ rebootSet' = FALSE /\ task' = AllIdle
  /\ netif' = net
  /\ intact' = [c \in Conns |-> FALSE]
  /\ UNCHANGED <<account, net, rows, listed, report, requests>>

Next ==
  \/ \E c \in Conns :
       \/ BoardsPage(c) \/ FirstRow(c) \/ NextRow(c)
       \/ Panel(c) \/ PortPage(c) \/ RebootCgi(c)
       \/ \E d \in Devices : CentRmt(c, d)
       \/ AccountCgi(c) \/ NetCgi(c) \/ PortCgi(c) \/ StatusTag(c)
  \/ RebootPoll

Spec == Init /\ [][Next]_vars
-----------------------------------------------------------------------------
(* Properties. *)

Row == [board : Boards, version : Devices, type : Managed \cup {"other", "none"}]

\* The types of the state; only a board that was read from a device is listed.
TypeOK ==
  /\ crChosen \in Devices /\ exist \in Devices \cup {NoDevice}
  /\ ver \in [Boards -> [set : BOOLEAN, of : Devices \cup {NoDevice}]]
  /\ \A b \in Boards : ver[b].set => ver[b].of \in Devices /\ exist \in Devices
  /\ account \in Accounts /\ net \in ValidNets /\ netif \in ValidNets
  /\ status \in [Forms -> Results] /\ rebootSet \in BOOLEAN
  /\ task \in [Conns -> Forms \cup {Idle, "boards"}]
  /\ \A c \in Conns : /\ Len(rows[c]) =< Len(Lines)
                      /\ \A i \in DOMAIN rows[c] : rows[c][i] = Blank \/ rows[c][i] \in Row
  /\ told \in [Conns -> Results \cup {"nothing"}]
  /\ requests \in 0 .. MaxRequests

\* the n-th row of a page that lists the boards r found
RowOf(r, n) ==
  LET b == Nth(r.boards, n) IN
    IF n > Cardinality(r.boards) THEN Blank
    ELSE [board |-> b, version |-> r.dev, type |-> Type[r.dev][b]]

\* As long as no exchange of another reply fails, nothing is read from the
\* other device, and nobody lists other boards, the rows of a boards page are
\* the boards its first row found, each once and in order, with the type and
\* the versions they have in that device, although every row looks at the
\* shared tables again.  (Lines: with eight boards the ninth row repeats one.)
RowsAreOneReading ==
  \A c \in Conns :
    intact[c] =>
      \A i \in DOMAIN rows[c] : rows[c][i] = RowOf(listed[c], Lines[i])

\* result is the truth about c's form
Tells(c, result) ==
  /\ result = "success" => /\ effect[c]
                           /\ form[c] = "account" => account = want[c]
                           /\ form[c] = "net" => net = want[c] /\ netif = want[c]
  /\ result # "success" /\ form[c] # "port" => ~effect[c]

\* A browser that is told of success has its account or network settings in
\* force, in any case until another browser sends such a form, also when the
\* device was restarted meanwhile; one that is told otherwise has changed
\* nothing.  (The answer to a port may be lost, so there only success counts.)
StatusTellsEffect ==
  \A c \in Conns : alone[c] /\ told[c] # "nothing" => Tells(c, told[c])
=============================================================================
