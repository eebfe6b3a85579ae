-------------------------- MODULE PortConfigProofs --------------------------
(***************************************************************************)
(* What holds of the port pages for any number of browsers, boards, ports  *)
(* and writes, and whatever the devices contain.                           *)
(***************************************************************************)
EXTENDS PortConfig, FiniteSetTheorems, TLAPS

USE DEF Devices, Tables, Rows

\* Which tables a page has; a table belongs to one of the kinds of port.
LEMMA PageFacts ==
  /\ DOMAIN PageTables = {"opt", "eth", "e1"}
  /\ \A pg \in Pages : pg \in DOMAIN PageTables /\ PageTables[pg] \subseteq Tables
<1>1. PageTables = [opt |-> {"opt"}, eth |-> {"ge", "fe"}, e1 |-> {"e1"}]
  BY DEF PageTables
<1> QED
  BY <1>1, PortConstants

\* The first state has its types.
LEMMA TypeInit == Init => TypeOK
<1> SUFFICES ASSUME Init PROVE TypeOK
  OBVIOUS
<1> USE PortConstants
<1>1. Port0 \in [Ports -> Settings] /\ Cleared \in [Boards -> Entry]
  BY DEF Port0, Cleared, Entry
<1>2. cache \in [Tables -> [Boards -> Entry]]
  BY <1>1 DEF Init
<1>3. /\ view \in [Browsers -> SUBSET Rows]
      /\ \A br \in Browsers : \E pg \in Pages : view[br] \subseteq PageTables[pg] \X Boards
  BY DEF Init
<1>4. conf \in [Devices -> [Tables -> [Boards -> [Ports -> Settings]]]]
  BY DEF Init
<1> QED
  BY <1>2, <1>3, <1>4 DEF Init, TypeOK

\* What the browser's page becomes keeps the types of the views.
ViewOK(w) ==
  /\ w \in [Browsers -> SUBSET Rows]
  /\ \A br \in Browsers : \E pg \in Pages : w[br] \subseteq PageTables[pg] \X Boards

LEMMA ViewReset ==
  ASSUME ViewOK(view), NEW br \in Browsers
  PROVE  ViewOK([view EXCEPT ![br] = {}])
BY PortConstants DEF ViewOK

LEMMA ViewShown ==
  ASSUME ViewOK(view), NEW br \in Browsers, NEW pg \in Pages,
         NEW rows, rows \subseteq PageTables[pg] \X Boards
  PROVE  ViewOK([view EXCEPT ![br] = rows])
BY PageFacts DEF ViewOK

LEMMA TypeStep == TypeOK /\ [Next]_vars => TypeOK'
<1> SUFFICES ASSUME TypeOK, [Next]_vars PROVE TypeOK'
  OBVIOUS
<1> USE PortConstants, PageFacts
<1>v. ViewOK(view)
  BY DEF TypeOK, ViewOK
<1>1. ASSUME NEW br \in Browsers, NEW d \in Devices, CentRmt(br, d) PROVE TypeOK'
  <2>1. ViewOK(view')
    BY <1>1, <1>v, ViewReset DEF CentRmt
  <2> QED
    BY <1>1, <2>1 DEF CentRmt, TypeOK, ViewOK
<1>2. ASSUME NEW br \in Browsers, NEW pg \in Pages, ReadFails(br, pg) PROVE TypeOK'
  <2>1. ViewOK(view')
    BY <1>2, <1>v, ViewReset DEF ReadFails
  <2>2. Cleared \in [Boards -> Entry]
    BY DEF Cleared, Port0, Entry
  <2>3. cache' \in [Tables -> [Boards -> Entry]]
    BY <1>2, <2>2 DEF ReadFails, TypeOK
  <2> QED
    BY <1>2, <2>1, <2>3 DEF ReadFails, DeviceId, TypeOK, ViewOK
<1>3. ASSUME NEW br \in Browsers, NEW pg \in Pages, Read(br, pg) PROVE TypeOK'
  <2>1. devId' \in Devices
    BY <1>3 DEF Read, DeviceId, TypeOK
  <2>2. ViewOK(view')
    <3>1. RowsShown(br, pg) \subseteq PageTables[pg] \X Boards
      BY DEF RowsShown
    <3> QED
      BY <1>3, <1>v, <2>1, <3>1, ViewShown DEF Read
  <2>3. cache' \in [Tables -> [Boards -> Entry]]
    <3>1. PICK failed \in SUBSET Asked(pg),
               stateless \in SUBSET (Asked(pg) \cap ({"opt"} \X Boards)) :
            cache' = [t \in Tables |->
                       IF t \in PageTables[pg]
                         THEN [b \in Boards |-> CacheBoard(t, b, failed, stateless)]
                         ELSE cache[t]]
      BY <1>3 DEF Read
    <3>2. ASSUME NEW t \in Tables, NEW b \in Boards
          PROVE  CacheBoard(t, b, failed, stateless) \in Entry
      <4>1. cache[t][b] \in Entry
        BY DEF TypeOK
      <4>2. [cache[t][b] EXCEPT !.shown = FALSE] \in Entry
        BY <4>1 DEF Entry
      <4>3. conf[devId'][t][b] \in [Ports -> Settings]
        BY <2>1 DEF TypeOK
      <4>4. [cfg |-> conf[devId'][t][b], shown |-> <<t, b>> \notin stateless] \in Entry
        BY <4>3 DEF Entry
      <4> QED
        BY <4>2, <4>4 DEF CacheBoard
    <3> QED
      BY <3>1, <3>2 DEF TypeOK
  <2>4. /\ readOf' \in [Tables -> Devices \cup {NoDevice}] /\ dirty' \in SUBSET Rows
        /\ loadedBy' \in [DOMAIN PageTables -> SUBSET Browsers]
    BY <1>3, <2>1 DEF Read, TypeOK
  <2> QED
    BY <1>3, <2>1, <2>2, <2>3, <2>4 DEF Read, TypeOK, ViewOK
<1>4. ASSUME NEW br \in Browsers, NEW t \in Tables, NEW b \in Boards, NEW p \in Ports,
             NEW v \in Settings, Write(br, t, b, p, v)
      PROVE  TypeOK'
  <2>1. ViewOK(view')
    BY <1>4, <1>v, ViewReset DEF Write
  <2>2. conf' \in [Devices -> [Tables -> [Boards -> [Ports -> Settings]]]]
    <3>1. NewConfig(t, b, p, v) \in [Ports -> Settings]
      BY DEF NewConfig, TypeOK, Entry
    <3>2. ASSUME devId \in Devices
          PROVE  [conf EXCEPT ![devId][t][b] = NewConfig(t, b, p, v)]
                   \in [Devices -> [Tables -> [Boards -> [Ports -> Settings]]]]
      BY <3>1, <3>2 DEF TypeOK
    <3>3. devId # NoDevice => devId \in Devices
      BY DEF TypeOK
    <3> QED
      BY <1>4, <3>2, <3>3 DEF Write, TypeOK
  <2>3. configState' \in [DOMAIN PageTables -> {0, -1}]
    BY <1>4 DEF Write, TypeOK
  <2>4. dirty' \in SUBSET Rows /\ writes' \in 0 .. MaxWrites
    BY <1>4 DEF Write, TypeOK
  <2> QED
    BY <1>4, <2>1, <2>2, <2>3, <2>4 DEF Write, TypeOK, ViewOK
<1>5. CASE ReadPanelOrBoards
  BY <1>5 DEF ReadPanelOrBoards, DeviceId, TypeOK
<1>6. CASE UNCHANGED vars
  BY <1>6 DEF vars, TypeOK
<1> QED
  BY <1>1, <1>2, <1>3, <1>4, <1>5, <1>6 DEF Next

\* The types of the state, for every value of the constants.
THEOREM TypeCorrect == Spec => []TypeOK
<1> QED
  BY TypeInit, TypeStep, PTL DEF Spec
-----------------------------------------------------------------------------
(* The cache is the device's, where it has ports. *)

\* The two parts of CacheIsDevice.
TableIsDevice(t, b) == cache[t][b].shown =>
  /\ readOf[t] \in Devices /\ b \in Has(readOf[t], t)
  /\ \A p, q \in Differ(t, b) : <<t, b>> \in dirty /\ p = q
RowsHavePorts ==
  \A pg \in DOMAIN PageTables : \A br \in loadedBy[pg] : \A r \in view[br] :
    r[1] \in PageTables[pg] => cache[r[1]][r[2]].shown

LEMMA CacheParts ==
  CacheIsDevice <=> RowsHavePorts /\ \A t \in Tables, b \in Boards : TableIsDevice(t, b)
BY DEF CacheIsDevice, RowsHavePorts, TableIsDevice

LEMMA CacheInit == Init => CacheIsDevice
BY DEF Init, CacheIsDevice, Cleared

\* A step that leaves a board, its readings and its settings alone.
LEMMA TableKept ==
  ASSUME NEW t \in Tables, NEW b \in Boards, TableIsDevice(t, b),
         cache'[t][b] = cache[t][b], readOf'[t] = readOf[t],
         readOf[t] \in Devices => conf'[readOf[t]][t][b] = conf[readOf[t]][t][b],
         <<t, b>> \in dirty => <<t, b>> \in dirty'
  PROVE  TableIsDevice(t, b)'
BY DEF TableIsDevice, Differ, Has

LEMMA TableStep ==
  ASSUME TypeOK, [Next]_vars, NEW t \in Tables, NEW b \in Boards, TableIsDevice(t, b)
  PROVE  TableIsDevice(t, b)'
<1> USE PortConstants, PageFacts
<1>1. ASSUME NEW br \in Browsers, NEW pg \in Pages, ReadFails(br, pg)
      PROVE  TableIsDevice(t, b)'
  <2>1. CASE t \in PageTables[pg]
    BY <1>1, <2>1 DEF ReadFails, Cleared, TableIsDevice
  <2>2. CASE t \notin PageTables[pg]
    BY <1>1, <2>2, TableKept DEF ReadFails
  <2> QED
    BY <2>1, <2>2
<1>2. ASSUME NEW br \in Browsers, NEW pg \in Pages, Read(br, pg)
      PROVE  TableIsDevice(t, b)'
  <2>1. PICK failed \in SUBSET Asked(pg),
             stateless \in SUBSET (Asked(pg) \cap ({"opt"} \X Boards)) :
          cache' = [u \in Tables |->
                     IF u \in PageTables[pg]
                       THEN [c \in Boards |-> CacheBoard(u, c, failed, stateless)]
                       ELSE cache[u]]
    BY <1>2 DEF Read
  <2>2. CASE t \in PageTables[pg]
    <3> SUFFICES ASSUME cache'[t][b].shown PROVE TableIsDevice(t, b)'
      BY DEF TableIsDevice
    <3>1. cache'[t][b] = CacheBoard(t, b, failed, stateless)
      BY <2>1, <2>2
    <3>2. cache[t][b] \in Entry
      BY DEF TypeOK
    <3>3. /\ b \in Has(devId', t)
          /\ cache'[t][b].cfg = conf[devId'][t][b]
      BY <3>1, <3>2 DEF CacheBoard, Entry
    <3>4. readOf'[t] = devId' /\ devId' \in Devices /\ conf' = conf
      BY <1>2, <2>2 DEF Read, DeviceId, TypeOK
    <3> QED
      BY <3>3, <3>4 DEF Has, TableIsDevice, Differ
  <2>3. CASE t \notin PageTables[pg]
    <3>1. cache'[t] = cache[t] /\ readOf'[t] = readOf[t] /\ conf' = conf
      BY <1>2, <2>1, <2>3 DEF Read
    <3>2. <<t, b>> \in dirty => <<t, b>> \in dirty'
      BY <1>2, <2>3 DEF Read
    <3> QED
      BY <3>1, <3>2, TableKept
  <2> QED
    BY <2>2, <2>3
<1>3. ASSUME NEW br \in Browsers, NEW u \in Tables, NEW c \in Boards, NEW p \in Ports,
             NEW v \in Settings, Write(br, u, c, p, v)
      PROVE  TableIsDevice(t, b)'
  <2>1. CASE UNCHANGED <<conf, dirty>>
    BY <1>3, <2>1, TableKept DEF Write
  <2>2. CASE /\ conf' = [conf EXCEPT ![devId][u][c] = NewConfig(u, c, p, v)]
             /\ dirty' = IF readOf[u] = devId THEN dirty \cup {<<u, c>>} ELSE dirty
    <3>1. cache' = cache /\ readOf' = readOf
      BY <1>3 DEF Write
    <3>2. CASE readOf[t] = devId /\ u = t /\ c = b /\ devId \in Devices
      <4>1. conf'[devId][t][b] = [cache[t][b].cfg EXCEPT ![p] = v]
        BY <2>2, <3>2 DEF TypeOK, NewConfig
      <4>2. cache[t][b].cfg \in [Ports -> Settings]
        BY DEF TypeOK, Entry
      <4>3. Differ(t, b)' \subseteq {p}
        BY <3>1, <3>2, <4>1, <4>2 DEF Differ
      <4>4. <<t, b>> \in dirty'
        BY <2>2, <3>2
      <4> QED
        BY <3>1, <4>3, <4>4 DEF TableIsDevice, Has
    <3>3. CASE ~(readOf[t] = devId /\ u = t /\ c = b) \/ devId \notin Devices
      <4>1. readOf[t] \in Devices => conf'[readOf[t]][t][b] = conf[readOf[t]][t][b]
        BY <2>2, <3>3 DEF TypeOK
      <4> QED
        BY <2>2, <3>1, <4>1, TableKept
    <3> QED
      BY <3>2, <3>3
  <2> QED
    BY <1>3, <2>1, <2>2 DEF Write
<1>4. ASSUME NEW br \in Browsers, NEW d \in Devices, CentRmt(br, d)
      PROVE  UNCHANGED <<cache, conf, readOf, dirty>>
  BY <1>4 DEF CentRmt
<1>5. ASSUME ReadPanelOrBoards \/ UNCHANGED vars
      PROVE  UNCHANGED <<cache, conf, readOf, dirty>>
  BY <1>5 DEF ReadPanelOrBoards, vars
<1>6. ASSUME UNCHANGED <<cache, conf, readOf, dirty>> PROVE TableIsDevice(t, b)'
  BY <1>6, TableKept
<1> QED
  BY <1>1, <1>2, <1>3, <1>4, <1>5, <1>6 DEF Next

LEMMA RowsStep == TypeOK /\ RowsHavePorts /\ [Next]_vars => RowsHavePorts'
<1> SUFFICES ASSUME TypeOK, RowsHavePorts, [Next]_vars,
                    NEW g \in DOMAIN PageTables, NEW w \in loadedBy'[g], NEW r \in view'[w],
                    r[1] \in PageTables[g]
             PROVE  cache'[r[1]][r[2]].shown
  BY DEF RowsHavePorts
<1> USE PortConstants, PageFacts
<1>0. ASSUME UNCHANGED <<cache, loadedBy>>, r \in view[w] PROVE cache'[r[1]][r[2]].shown
  BY <1>0 DEF RowsHavePorts
<1>t. g \in {"opt", "eth", "e1"} /\ \A k \in DOMAIN PageTables : k # g => r[1] \notin PageTables[k]
  BY DEF PageTables
<1>1. ASSUME NEW br \in Browsers, NEW pg \in Pages, ReadFails(br, pg)
      PROVE  cache'[r[1]][r[2]].shown
  <2>1. w \in Browsers /\ w # br /\ r \in view[w]
    BY <1>1 DEF ReadFails, TypeOK
  <2>2. pg # g /\ loadedBy'[g] = loadedBy[g]
    BY <1>1, <2>1 DEF ReadFails, TypeOK
  <2>3. r \in Rows
    BY <2>1 DEF TypeOK
  <2>4. cache'[r[1]] = cache[r[1]]
    BY <1>1, <1>t, <2>2, <2>3 DEF ReadFails
  <2> QED
    BY <2>1, <2>2, <2>4 DEF RowsHavePorts
<1>2. ASSUME NEW br \in Browsers, NEW pg \in Pages, Read(br, pg)
      PROVE  cache'[r[1]][r[2]].shown
  <2>1. CASE w = br
    BY <1>2, <2>1 DEF Read, RowsShown, TypeOK
  <2>2. CASE w # br
    <3>1. r \in view[w]
      BY <1>2, <2>2 DEF Read, TypeOK
    <3>2. pg # g /\ loadedBy'[g] = loadedBy[g]
      BY <1>2, <2>2 DEF Read, TypeOK
    <3>3. r[1] \in Tables
      BY <1>2, <2>2, <3>1, <3>2 DEF TypeOK, PageTables
    <3>4. cache'[r[1]] = cache[r[1]]
      BY <1>2, <1>t, <3>2, <3>3 DEF Read
    <3> QED
      BY <3>1, <3>2, <3>4 DEF RowsHavePorts
  <2> QED
    BY <2>1, <2>2
<1>3. ASSUME NEW br \in Browsers, NEW d \in Devices, CentRmt(br, d)
      PROVE  cache'[r[1]][r[2]].shown
  BY <1>0, <1>3 DEF CentRmt, TypeOK
<1>4. ASSUME NEW br \in Browsers, NEW t \in Tables, NEW b \in Boards, NEW p \in Ports,
             NEW v \in Settings, Write(br, t, b, p, v)
      PROVE  cache'[r[1]][r[2]].shown
  BY <1>0, <1>4 DEF Write, TypeOK
<1>5. CASE ReadPanelOrBoards \/ UNCHANGED vars
  BY <1>0, <1>5 DEF ReadPanelOrBoards, vars
<1> QED
  BY <1>1, <1>2, <1>3, <1>4, <1>5 DEF Next

LEMMA CacheStep == TypeOK /\ CacheIsDevice /\ [Next]_vars => CacheIsDevice'
<1> SUFFICES ASSUME TypeOK, CacheIsDevice, [Next]_vars PROVE CacheIsDevice'
  OBVIOUS
<1>1. RowsHavePorts'
  BY CacheParts, RowsStep
<1>2. \A t \in Tables, b \in Boards : TableIsDevice(t, b)'
  BY CacheParts, TableStep
<1> QED
  BY <1>1, <1>2 DEF CacheIsDevice, RowsHavePorts, TableIsDevice

\* For any number of browsers, the boards with ports in the cache are as they
\* are on the device they were read from, but for the port written last, and
\* only pages loaded before the last one show boards without.
THEOREM CacheMatchesDevice == Spec => []CacheIsDevice
<1>1. TypeOK /\ CacheIsDevice /\ [Next]_vars => (TypeOK /\ CacheIsDevice)'
  BY TypeStep, CacheStep
<1> QED
  BY <1>1, TypeInit, CacheInit, PTL DEF Spec
-----------------------------------------------------------------------------
(* What a write changes. *)

\* Board b of device d gets the cached settings with port p changed.
Sends(d, t, b, p, v) == conf' = [conf EXCEPT ![d][t][b] = NewConfig(t, b, p, v)]

\* Only a write changes a device, and only a board with settings that were
\* made from the cached ones.
LEMMA WriteChanges ==
  ASSUME TypeOK, [Next]_vars, NEW x \in Changed
  PROVE  \E br \in Browsers, p \in Ports, v \in Settings :
           /\ x[1] = devId
           /\ <<x[2], x[3]>> \in view[br]
           /\ Sends(devId, x[2], x[3], p, v)
<1> USE PortConstants
<1>0. /\ x \in Devices \X Tables \X Boards \X Ports
      /\ conf'[x[1]][x[2]][x[3]][x[4]] # conf[x[1]][x[2]][x[3]][x[4]]
  BY DEF Changed
<1>1. conf' # conf
  BY <1>0
<1>2. PICK br \in Browsers, t \in Tables, b \in Boards, p \in Ports, v \in Settings :
        Write(br, t, b, p, v)
  BY <1>1 DEF Next, CentRmt, ReadFails, Read, ReadPanelOrBoards, vars
<1>3. conf' = [conf EXCEPT ![devId][t][b] = NewConfig(t, b, p, v)] /\ devId \in Devices
  BY <1>1, <1>2 DEF Write, TypeOK
<1>4. x[1] = devId /\ x[2] = t /\ x[3] = b
  BY <1>0, <1>3 DEF TypeOK
<1>5. <<t, b>> \in view[br]
  BY <1>2 DEF Write
<1>6. Sends(devId, t, b, p, v)
  BY <1>3 DEF Sends
<1> QED
  BY <1>4, <1>5, <1>6

\* With the cache as the device is, all that differs is the port.
LEMMA OnePort ==
  ASSUME TypeOK, NEW d \in Devices, NEW t \in Tables, NEW b \in Boards,
         NEW p \in Ports, NEW v \in Settings,
         cache[t][b].cfg = conf[d][t][b],
         Sends(d, t, b, p, v)
  PROVE  \A x \in Changed : x = <<d, t, b, p>>
<1> SUFFICES ASSUME NEW x \in Changed PROVE x = <<d, t, b, p>>
  OBVIOUS
<1>0. /\ x \in Devices \X Tables \X Boards \X Ports
      /\ conf'[x[1]][x[2]][x[3]][x[4]] # conf[x[1]][x[2]][x[3]][x[4]]
  BY DEF Changed
<1>1. x[1] = d /\ x[2] = t /\ x[3] = b
  BY <1>0 DEF TypeOK, Sends
<1>2. conf[d][t][b] \in [Ports -> Settings]
  BY DEF TypeOK
<1>3. conf'[d][t][b] = [conf[d][t][b] EXCEPT ![p] = v]
  BY DEF TypeOK, Sends, NewConfig
<1>4. x[4] = p
  BY <1>0, <1>1, <1>2, <1>3
<1> QED
  BY <1>0, <1>1, <1>4

\* A write to a board with ports in the cache changes one port, or puts the
\* port that was written last back besides.
THEOREM ShownWrites == Spec => ShownWriteKeepsNeighbours
<1>1. ASSUME TypeOK, CacheIsDevice, [Next]_vars,
             NEW t \in Tables, NEW b \in Boards, cache[t][b].shown,
             NEW x \in Changed, NEW y \in Changed, x # y,
             x[1] = readOf[t], x[2] = t, x[3] = b, y[1] = readOf[t], y[2] = t, y[3] = b
      PROVE  \E p \in {x[4], y[4]} \cap Differ(t, b) :
               <<t, b>> \in dirty /\ conf'[readOf[t]][t][b][p] = cache[t][b].cfg[p]
  <2> DEFINE d == readOf[t]
  <2>1. PICK p \in Ports, v \in Settings : x[1] = devId /\ Sends(devId, t, b, p, v)
    BY <1>1, WriteChanges
  <2>2. d \in Devices /\ d = devId
    BY <1>1, <2>1 DEF CacheIsDevice
  <2>3. conf'[d][t][b] = [cache[t][b].cfg EXCEPT ![p] = v]
    BY <1>1, <2>1, <2>2 DEF TypeOK, Sends, NewConfig
  <2>4. cache[t][b].cfg \in [Ports -> Settings]
    BY <1>1 DEF TypeOK, Entry
  <2>5. /\ x = <<d, t, b, x[4]>> /\ y = <<d, t, b, y[4]>> /\ x[4] \in Ports /\ y[4] \in Ports
        /\ conf'[d][t][b][x[4]] # conf[d][t][b][x[4]]
        /\ conf'[d][t][b][y[4]] # conf[d][t][b][y[4]]
    BY <1>1 DEF Changed
  <2>6. PICK q \in {x[4], y[4]} : q # p
    BY <1>1, <2>5
  <2>7. conf'[d][t][b][q] = cache[t][b].cfg[q] /\ q \in Differ(t, b)
    BY <2>3, <2>4, <2>5, <2>6 DEF Differ
  <2>8. <<t, b>> \in dirty
    BY <1>1, <2>7 DEF CacheIsDevice
  <2> QED
    BY <2>6, <2>7, <2>8
<1> DEFINE KeepsNeighbours ==
      \A t \in Tables, b \in Boards : cache[t][b].shown =>
        \A x, y \in {z \in Changed : z[1] = readOf[t] /\ z[2] = t /\ z[3] = b} :
          x # y => \E p \in {x[4], y[4]} \cap Differ(t, b) :
                     <<t, b>> \in dirty /\ conf'[readOf[t]][t][b][p] = cache[t][b].cfg[p]
<1>2. TypeOK /\ CacheIsDevice /\ [Next]_vars => [KeepsNeighbours]_vars
  BY <1>1
<1> QED
  BY <1>2, TypeCorrect, CacheMatchesDevice, PTL DEF Spec, ShownWriteKeepsNeighbours
-----------------------------------------------------------------------------
(* One careful user. *)

Fresh(t, b) == cache[t][b].shown /\ <<t, b>> \notin dirty

\* A fresh board is in the cache as the device has it.
LEMMA FreshIsDevice ==
  ASSUME TypeOK, CacheIsDevice, NEW t \in Tables, NEW b \in Boards, Fresh(t, b)
  PROVE  cache[t][b].cfg = conf[readOf[t]][t][b]
<1>1. readOf[t] \in Devices /\ Differ(t, b) = {}
  BY DEF CacheIsDevice, Fresh
<1>2. cache[t][b].cfg \in [Ports -> Settings] /\ conf[readOf[t]][t][b] \in [Ports -> Settings]
  BY <1>1 DEF TypeOK, Entry
<1> QED
  BY <1>1, <1>2 DEF Differ

\* The rows the user sees are fresh in the cache, and are those of the device
\* that is chosen and whose id was read last.
ViewIsFresh ==
  \A br \in Browsers : \A r \in view[br] :
    /\ devId = crChosen
    /\ Fresh(r[1], r[2]) /\ readOf[r[1]] = devId

LEMMA ViewInit == Init => ViewIsFresh
BY DEF Init, ViewIsFresh

LEMMA ViewStep ==
  ASSUME Careful, NEW user, Browsers = {user}
  PROVE  TypeOK /\ ViewIsFresh /\ [Next]_vars => ViewIsFresh'
<1> SUFFICES ASSUME TypeOK, ViewIsFresh, [Next]_vars PROVE ViewIsFresh'
  OBVIOUS
<1> USE PortConstants, PageFacts
<1>0. ASSUME view'[user] = {} PROVE ViewIsFresh'
  BY <1>0 DEF ViewIsFresh
<1>1. ASSUME NEW br \in Browsers, NEW d \in Devices, CentRmt(br, d) PROVE view'[user] = {}
  BY <1>1 DEF CentRmt, TypeOK
<1>2. ASSUME NEW br \in Browsers, NEW pg \in Pages, ReadFails(br, pg)
      PROVE  view'[user] = {}
  BY <1>2 DEF ReadFails, TypeOK
<1>3. ASSUME NEW br \in Browsers, NEW pg \in Pages, Read(br, pg) PROVE ViewIsFresh'
  <2>1. view'[user] = RowsShown(user, pg)
    BY <1>3 DEF Read, TypeOK
  <2>2. devId' = crChosen /\ crChosen' = crChosen
    BY <1>3 DEF Read, DeviceId
  <2>3. ASSUME NEW r \in RowsShown(user, pg)
        PROVE  Fresh(r[1], r[2])' /\ readOf'[r[1]] = devId'
    <3>1. r \in PageTables[pg] \X Boards /\ cache'[r[1]][r[2]].shown
      BY DEF RowsShown
    <3>2. r = <<r[1], r[2]>> /\ r[1] \in PageTables[pg] /\ r[1] \in Tables
      BY <3>1
    <3>3. <<r[1], r[2]>> \notin dirty'
      BY <1>3, <3>2 DEF Read
    <3> QED
      BY <1>3, <3>1, <3>2, <3>3 DEF Read, Fresh
  <2> QED
    BY <2>1, <2>2, <2>3 DEF ViewIsFresh
<1>4. ASSUME NEW br \in Browsers, NEW t \in Tables, NEW b \in Boards, NEW p \in Ports,
             NEW v \in Settings, Write(br, t, b, p, v)
      PROVE  view'[user] = {}
  BY <1>4 DEF Write, TypeOK
<1>5. CASE ReadPanelOrBoards
  BY <1>5 DEF ReadPanelOrBoards, DeviceId, ViewIsFresh, Fresh
<1>6. CASE UNCHANGED vars
  BY <1>6 DEF vars, ViewIsFresh, Fresh
<1> QED
  BY <1>0, <1>1, <1>2, <1>3, <1>4, <1>5, <1>6 DEF Next

LEMMA OneUserInvariant ==
  ASSUME Careful, NEW user, Browsers = {user}
  PROVE  Spec => [](TypeOK /\ CacheIsDevice /\ ViewIsFresh)
<1>1. TypeOK /\ CacheIsDevice /\ ViewIsFresh /\ [Next]_vars
        => (TypeOK /\ CacheIsDevice /\ ViewIsFresh)'
  BY TypeStep, CacheStep, ViewStep
<1> QED
  BY <1>1, TypeInit, CacheInit, ViewInit, PTL DEF Spec

\* A single user who waits for each answer never loses the settings of a port
\* to a write of another, whatever fails.
THEOREM OneUserKeepsNeighbours ==
  ASSUME Careful, NEW user, Browsers = {user}
  PROVE  Spec => WriteKeepsNeighbours
<1>1. ASSUME TypeOK, CacheIsDevice, ViewIsFresh, [Next]_vars
      PROVE  Cardinality(Changed) =< 1
  <2>1. CASE Changed = {}
    BY <2>1, FS_EmptySet
  <2>2. CASE Changed # {}
    <3>1. PICK x : x \in Changed
      BY <2>2
    <3>2. x \in Devices \X Tables \X Boards \X Ports
      BY <3>1 DEF Changed
    <3>3. PICK br \in Browsers, p \in Ports, v \in Settings :
            /\ x[1] = devId
            /\ <<x[2], x[3]>> \in view[br]
            /\ Sends(devId, x[2], x[3], p, v)
      BY <1>1, <3>1, WriteChanges
    <3>4. Fresh(x[2], x[3]) /\ readOf[x[2]] = devId
      BY <1>1, <3>3 DEF ViewIsFresh
    <3>5. x[1] \in Devices /\ x[2] \in Tables /\ x[3] \in Boards
      BY <3>2
    <3>6. cache[x[2]][x[3]].cfg = conf[devId][x[2]][x[3]]
      BY <1>1, <3>4, <3>5, FreshIsDevice
    <3>7. \A y \in Changed : y = <<x[1], x[2], x[3], p>>
      BY <1>1, <3>3, <3>5, <3>6, OnePort
    <3>8. Changed = {x}
      BY <3>1, <3>7
    <3>9. Cardinality({x}) = 1
      BY FS_Singleton
    <3> QED
      BY <3>8, <3>9
  <2> QED
    BY <2>1, <2>2
<1>2. TypeOK /\ CacheIsDevice /\ ViewIsFresh /\ [Next]_vars => [Cardinality(Changed) =< 1]_vars
  BY <1>1
<1> QED
  BY <1>2, OneUserInvariant, PTL DEF Spec, WriteKeepsNeighbours

\* Nor does a write of this user ever reach the device that is not chosen.
THEOREM OneUserReachesChosenDevice ==
  ASSUME Careful, NEW user, Browsers = {user}
  PROVE  Spec => WriteReachesChosenDevice
<1>1. ASSUME TypeOK, ViewIsFresh, [Next]_vars, NEW x \in Changed
      PROVE  x[1] = crChosen
  <2>1. PICK br \in Browsers, p \in Ports, v \in Settings :
          x[1] = devId /\ <<x[2], x[3]>> \in view[br]
    BY <1>1, WriteChanges
  <2> QED
    BY <1>1, <2>1 DEF ViewIsFresh
<1>2. TypeOK /\ CacheIsDevice /\ ViewIsFresh /\ [Next]_vars
        => [\A x \in Changed : x[1] = crChosen]_vars
  BY <1>1
<1> QED
  BY <1>2, OneUserInvariant, PTL DEF Spec, WriteReachesChosenDevice
=============================================================================
