----------------------------- MODULE PortDialog -----------------------------
(***************************************************************************)
(* The way of a port's settings through a page and back: the text in which *)
(* the handlers send the cached words (opt_read_data_ssi_handler and its   *)
(* like), the rows and the dialog that the scripts make of it (opt.js,     *)
(* eth.js, e1.js, main.js), and the word that the CGI handlers make of the *)
(* dialog (opt_cgi_interface and its like).  PortConfig takes for granted  *)
(* that this changes the one port and the settings that the user meant.    *)
(*                                                                         *)
(* One user, one page, and devices that answer.  A character is a string,  *)
(* a word of settings a number, and a label of a dialog a name for the     *)
(* Chinese text, whose first character is what the C code compares.        *)
(***************************************************************************)
EXTENDS Integers, Sequences, SequencesExt, FiniteSets

CONSTANTS
  Configs,    \* what a page may find: [page |->, chassis |->, words |->], see below
  Clicked,    \* bound: the lines whose button the user clicks
  MaxChanges  \* bound: settings changed in a dialog

Pages  == {"opt", "eth", "e1"}
Tables == [opt |-> {"opt"}, eth |-> {"ge", "fe"}, e1 |-> {"e1"}]
Boards == 0 .. 8
MaxPorts == 16     \* of the widest array
InsertLen == 511   \* LWIP_HTTPD_MAX_TAG_INSERT_LEN

VARIABLES
  page,     \* the page that is open
  chassis,  \* the boards present
  words,    \* web_control->opt[].config and its like: <<table, board, port>> -> word
  data,     \* [text |-> save_data of the script from data_start on, fe |-> fe_start],
            \* or NoData
  fast,     \* the list of speeds has 1000M
  dialog,   \* the dialog that is open, or Closed
  sent      \* history: the last dialog that was submitted, and the words then

vars == <<page, chassis, words, data, fast, dialog, sent>>
-----------------------------------------------------------------------------
(* Words. *)
Bits(w, i, n)    == (w \div 2^i) % 2^n
Put(w, i, n, v)  == w + (v - Bits(w, i, n)) * 2^i

\* the names of the settings in each page's form and where their bits are in
\* union web_opt_config, web_eth_config and web_e1_config: <<first, number>>
ByteFields == [switch |-> <<7, 1>>, trap_mask |-> <<0, 1>>, circ |-> <<1, 1>>, dev |-> <<2, 1>>]
WordFields == [switch |-> <<15, 1>>, auto_nego |-> <<3, 1>>, bandwidth |-> <<5, 2>>,
               duplex |-> <<4, 1>>, flow_ctrl |-> <<14, 1>>, trap_mask |-> <<13, 1>>]
PutField(pg, w, f, v) ==
  LET at == IF pg = "eth" THEN WordFields[f] ELSE ByteFields[f] IN Put(w, at[1], at[2], v)

Amounts_Arrays == [opt |-> 8, ge |-> 4, fe |-> 16, e1 |-> 8]

\* Mutant: as many ports as the arrays hold.
Amount_Arrays(ch, t, b) ==
  IF ch[b] = (IF t = "e1" THEN "GAN111_8E1" ELSE "GAN111_MAIN_CTRL") THEN Amounts_Arrays[t] ELSE 0

\* MAX_OPT_PORT_AMOUNT and its like
Amounts == [opt |-> 2, ge |-> 2, fe |-> 6, e1 |-> 8]
Amount(ch, t, b) ==
  IF ch[b] = (IF t = "e1" THEN "GAN111_8E1" ELSE "GAN111_MAIN_CTRL") THEN Amounts[t] ELSE 0

\* the ports of a page: table, board, port
RowsOf(pg, ch) ==
  {r \in Tables[pg] \X Boards \X (0 .. MaxPorts - 1) : r[3] < Amount(ch, r[1], r[2])}
Rows == RowsOf(page, chassis)

ASSUME DialogConstants ==
  /\ \A c \in Configs :
       /\ c.page \in Pages
       /\ c.chassis \in [Boards -> {"GAN111_MAIN_CTRL", "GAN111_8E1", "none"}]
       /\ c.words \in [RowsOf(c.page, c.chassis) -> Nat]
  /\ Clicked \subseteq Nat /\ MaxChanges \in Nat
-----------------------------------------------------------------------------
(* The text. *)
Chars == <<"0", "1", "2", "3", "4", "5", "6", "7", "8", "9",
           "a", "b", "c", "d", "e", "f", "g", "h", "i", "j", "k", "l", "m",
           "n", "o", "p", "q", "r", "s", "t", "u", "v", "w", "x", "y", "z",
           "A", "B", "C", "D", "E", "F", "G", "H", "I", "J", "K", "L", "M",
           "N", "O", "P", "Q", "R", "S", "T", "U", "V", "W", "X", "Y", "Z">>
Ntoalpha(n) == IF n < 62 THEN Chars[n + 1] ELSE "0"

\* sprintf("%0kx")
Hex(w, k) == [i \in 1 .. k |-> Chars[Bits(w, 4 * (k - i), 4) + 1]]

\* opt_make_data, e1_make_data: the state of the port, which is 0 here,
\* follows its settings
MakeData(b, p, w)    == <<Ntoalpha(b), Ntoalpha(p)>> \o Hex(w, 2) \o Hex(0, 2)
\* eth_make_data
EthMakeData(b, p, w) == <<Ntoalpha(b), Ntoalpha(p)>> \o Hex(w, 4)

\* the two loops over the boards and their ports
PortText(b, p, w) == IF page = "eth" THEN EthMakeData(b, p, w) ELSE MakeData(b, p, w)
PortsText(t) ==
  LET text[n \in 0 .. 9 * MaxPorts] ==
        IF n = 0 THEN <<>>
        ELSE LET b == (n - 1) \div MaxPorts
                 p == (n - 1) % MaxPorts
             IN  IF p < Amount(chassis, t, b) THEN text[n - 1] \o PortText(b, p, words[<<t, b, p>>])
                 ELSE text[n - 1]
  IN  text[9 * MaxPorts]

\* opt_read_data_ssi_handler, eth_read_data_ssi_handler, e1_read_data_ssi_handler
ReadData ==
  IF page = "eth" THEN PortsText("ge") \o <<"underscore", "F", "E", "underscore">> \o PortsText("fe")
  ELSE PortsText(page)
-----------------------------------------------------------------------------
(* The scripts. *)
NoData == [text |-> <<>>, fe |-> 0]
NaN    == -1
PortLen == 6

DigitOf(c)  == CHOOSE i \in 0 .. 61 : Chars[i + 1] = c
\* subtracting letters gives no number
Alphaton(c) == IF DigitOf(c) < 10 THEN DigitOf(c) ELSE NaN
ParseHex(s) ==
  LET value[n \in 0 .. Len(s)] == IF n = 0 THEN 0 ELSE 16 * value[n - 1] + DigitOf(s[n])
  IN  value[Len(s)]

\* where the ports of a table start and how many there are; a newline follows
Mark(text) == IF page = "eth" THEN SelectInSeq(text, LAMBDA c : c = "underscore") ELSE 0
Start(t) == IF t = "fe" THEN data.fe ELSE 1
Count(t) == IF t = "ge" THEN (data.fe - 5) \div PortLen
            ELSE (Len(data.text) - Start(t) + 1) \div PortLen
Msg(t, line) == SubSeq(data.text, Start(t) + line * PortLen, Start(t) + (line + 1) * PortLen - 1)
Config(msg)  == ParseHex(SubSeq(msg, 3, IF page = "eth" THEN 6 ELSE 4))

\* opt_loop, e1_loop
Loop(w) == CASE Bits(w, 1, 2) = 3 -> "double" [] Bits(w, 1, 2) = 1 -> "circuit"
             [] Bits(w, 1, 2) = 2 -> "device" [] OTHER -> "normal"
Either(w, i, yes, no) == IF Bits(w, i, 1) = 1 THEN yes ELSE no

\* opt_switch, opt_trap, opt_loop and those of e1.js
ShownByte(w) == [switch |-> Either(w, 7, "on", "off"), trap_mask |-> Either(w, 0, "mask", "allow"),
                 loop |-> Loop(w)]
\* eth_switch, eth_work_mode, eth_speed, eth_duplex, eth_fctrl, eth_trap
ShownWord(w) == [switch |-> Either(w, 15, "on", "off"), auto_nego |-> Either(w, 3, "auto", "force"),
                 bandwidth |-> <<"10M", "100M", "1000M", "empty">>[Bits(w, 5, 2) + 1],
                 duplex |-> Either(w, 4, "full", "half"), flow_ctrl |-> Either(w, 14, "on", "off"),
                 trap_mask |-> Either(w, 13, "mask", "allow")]
Shown(pg, w) == IF pg = "eth" THEN ShownWord(w) ELSE ShownByte(w)

\* the lists of main.html
Options(f, gigabit) ==
  CASE f \in {"switch", "flow_ctrl"} -> {"on", "off"}
    [] f = "trap_mask"  -> {"mask", "allow"}
    [] f = "auto_nego"  -> {"auto", "force"}
    [] f = "duplex"     -> {"full", "half"}
    [] f = "bandwidth"  -> {"10M", "100M"} \cup IF gigabit THEN {"1000M"} ELSE {}
    [] f = "loop"       -> {"normal", "circuit", "device"} \cup IF page = "opt" THEN {"double"} ELSE {}

Closed == [open |-> FALSE]
Nothing == "nothing"   \* no entry of a list is selected
-----------------------------------------------------------------------------
\* the page has been read into the cache and is sent
Init ==
  /\ \E c \in Configs : page = c.page /\ chassis = c.chassis /\ words = c.words
  /\ data = NoData /\ fast = FALSE /\ dialog = Closed /\ sent = Closed

\* opt_read_data, eth_read_data, e1_read_data
Read ==
  /\ LET text == ReadData \o <<"newline">>
     IN  data' = [text |-> text, fe |-> Mark(text) + 4]
  /\ dialog' = Closed
  /\ UNCHANGED <<page, chassis, words, fast, sent>>

\* local_opt_modal, opt_modal and those of the other pages: a label that the
\* list does not have leaves nothing selected
Open(t, line) ==
  LET msg == Msg(t, line) IN
    /\ data # NoData
    /\ fast' = IF page = "eth" THEN t = "ge" ELSE fast
    /\ dialog' = [open |-> TRUE, table |-> t, line |-> line, changed |-> {},
                  board |-> Alphaton(msg[1]), portno |-> Alphaton(msg[2]),
                  sel |-> [f \in DOMAIN Shown(page, 0) |->
                             LET label == Shown(page, Config(msg))[f]
                             IN  IF label \in Options(f, fast') THEN label ELSE Nothing]]
    /\ UNCHANGED <<page, chassis, words, data, sent>>

\* the user selects something
Change(f, o) ==
  /\ dialog.open /\ Cardinality(dialog.changed) < MaxChanges /\ f \notin dialog.changed
  /\ o \in Options(f, fast) /\ o # dialog.sel[f]
  /\ dialog' = [dialog EXCEPT !.sel[f] = o, !.changed = @ \cup {f}]
  /\ UNCHANGED <<page, chassis, words, data, fast, sent>>
-----------------------------------------------------------------------------
(* The CGI handlers. *)
Atoi(n) == IF n = NaN THEN 0 ELSE n

\* Mutant: the loop at the line is not taken back.
LoopWritten_Keeps(pg, w, v) ==
  CASE v = "normal"  -> PutField(pg, PutField(pg, w, "circ", 0), "dev", 0)
    [] v = "circuit" -> PutField(pg, PutField(pg, w, "circ", 1), "dev", 0)
    [] v = "device"  -> PutField(pg, w, "dev", 1)
    [] v = "double" /\ pg = "opt" -> PutField(pg, PutField(pg, w, "circ", 1), "dev", 1)
    [] OTHER -> w

\* opt_write_frame_loop, e1_write_frame_loop
LoopWritten(pg, w, v) ==
  CASE v = "normal"  -> PutField(pg, PutField(pg, w, "circ", 0), "dev", 0)
    [] v = "circuit" -> PutField(pg, PutField(pg, w, "circ", 1), "dev", 0)
    [] v = "device"  -> PutField(pg, PutField(pg, w, "circ", 0), "dev", 1)
    [] v = "double" /\ pg = "opt" -> PutField(pg, PutField(pg, w, "circ", 1), "dev", 1)
    [] OTHER -> w

\* opt_write_frame_switch, opt_write_frame_trap_mask and those of e1
WrittenByte(pg, w, sel) ==
  LET a == IF sel.switch = Nothing THEN w ELSE PutField(pg, w, "switch", IF sel.switch = "on" THEN 1 ELSE 0)
      b == IF sel.trap_mask = Nothing THEN a
           ELSE PutField(pg, a, "trap_mask", IF sel.trap_mask = "mask" THEN 1 ELSE 0)
  IN  LoopWritten(pg, b, sel.loop)

\* the value each label stands for in eth_write_frame_*
ValueOf == [on |-> 1, off |-> 0, mask |-> 1, allow |-> 0, auto |-> 1, force |-> 0,
            full |-> 1, half |-> 0]
BandwidthOf(v) == CASE v = "10M" -> 0 [] v = "100M" -> 1 [] v = "1000M" -> 2

\* eth_cgi_interface: the settings one after the other
WrittenWord(pg, w, sel) ==
  LET With(x, f, v) == IF sel[f] = Nothing THEN x ELSE PutField(pg, x, f, v)
      a == With(w, "switch", ValueOf[sel.switch])
      b == With(a, "auto_nego", ValueOf[sel.auto_nego])
      c == With(b, "bandwidth", BandwidthOf(sel.bandwidth))
      d == With(c, "duplex", ValueOf[sel.duplex])
      e == With(d, "flow_ctrl", ValueOf[sel.flow_ctrl])
  IN  With(e, "trap_mask", ValueOf[sel.trap_mask])

Written(w, sel) == IF page = "eth" THEN WrittenWord(page, w, sel) ELSE WrittenByte(page, w, sel)

\* the cached words of the board are copied, one is changed, all are sent and
\* taken over, and the page reads again
Submit ==
  /\ dialog.open
  /\ LET r == <<dialog.table, Atoi(dialog.board), Atoi(dialog.portno)>> IN
       words' = IF r \in Rows THEN [words EXCEPT ![r] = Written(@, dialog.sel)] ELSE words
  /\ sent' = [open |-> TRUE, table |-> dialog.table, line |-> dialog.line,
              sel |-> dialog.sel, changed |-> dialog.changed, old |-> words]
  /\ dialog' = Closed /\ data' = NoData
  /\ UNCHANGED <<page, chassis, fast>>

Next ==
  \/ sent = Closed /\ Read
  \/ \E t \in Tables[page] : \E line \in (0 .. Count(t) - 1) \cap Clicked : Open(t, line)
  \/ dialog.open /\ \E f \in DOMAIN dialog.sel : \E o \in Options(f, fast) : Change(f, o)
  \/ Submit

Spec == Init /\ [][Next]_vars
-----------------------------------------------------------------------------
(* Properties. *)

\* the row that stands in a line of a table: its rows, board by board
RowAt(t, line) ==
  CHOOSE r \in Rows :
    /\ r[1] = t
    /\ Cardinality({x \in Rows : x[1] = t /\ (x[2] < r[2] \/ (x[2] = r[2] /\ x[3] < r[3]))}) = line

FormBits(pg) == IF pg = "eth" THEN WordFields ELSE ByteFields
\* a word without the bits of the form
Rest(pg, w) ==
  {i \in 0 .. 15 : Bits(w, i, 1) = 1
                   /\ \A f \in DOMAIN FormBits(pg) : i \notin FormBits(pg)[f][1] ..
                        FormBits(pg)[f][1] + FormBits(pg)[f][2] - 1}

\* A dialog that is submitted changes the port in whose line it was opened and
\* no other: the settings the user selected are then shown as selected, the
\* others are shown as before, even those for which the dialog has no entry,
\* and the bits that no dialog shows are kept.
DialogWritesItsRow ==
  sent.open =>
    LET r == RowAt(sent.table, sent.line) IN
      /\ \A x \in Rows \ {r} : words[x] = sent.old[x]
      /\ Rest(page, words[r]) = Rest(page, sent.old[r])
      /\ \A f \in DOMAIN sent.sel :
           Shown(page, words[r])[f] =
             IF f \in sent.changed THEN sent.sel[f] ELSE Shown(page, sent.old[r])[f]

\* The text of all ports of any chassis fits into tag_insert, although the
\* handlers do not look at the length they are given.
TextFits == data # NoData => Len(data.text) - 1 =< InsertLen
=============================================================================
