-------------------------- MODULE DevicePagesProofs --------------------------
(***************************************************************************)
(* Theorems about DevicePages, for any number of connections, chassis with *)
(* any of nine boards, accounts and network settings.                      *)
(***************************************************************************)
EXTENDS DevicePages, SequenceTheorems, FiniteSetTheorems, TLAPS

(***************************************************************************)
(* The inductive invariants.                                               *)
(***************************************************************************)
Version == [set : BOOLEAN, of : Devices \cup {NoDevice}]
Reading == [dev : Devices \cup {NoDevice}, boards : SUBSET Boards]

\* The types, those of the history included.
TablesType ==
  /\ exist \in Devices \cup {NoDevice} /\ ver \in [Boards -> Version]
  /\ \A b \in Boards : ver[b].set => ver[b].of \in Devices /\ exist \in Devices

SettingsType == account \in Accounts /\ net \in ValidNets /\ netif \in ValidNets

TasksType ==
  /\ crChosen \in Devices /\ requests \in 0 .. MaxRequests
  /\ status \in [Forms -> Results] /\ rebootSet \in BOOLEAN
  /\ task \in [Conns -> Forms \cup {Idle, "boards"}]

RowsType ==
  /\ rows \in [Conns -> Seq(Row \cup {Blank})]
  /\ \A c \in Conns : Len(rows[c]) =< Len(Lines)
  /\ \A c \in Conns : task[c] = "boards" => Len(rows[c]) < Len(Lines)
  /\ listed \in [Conns -> Reading] /\ intact \in [Conns -> BOOLEAN]

ReportType ==
  /\ told \in [Conns -> Results \cup {"nothing"}]
  /\ form \in [Conns -> Forms \cup {"none"}] /\ DOMAIN want = Conns
  /\ effect \in [Conns -> BOOLEAN] /\ alone \in [Conns -> BOOLEAN]

Types == TablesType /\ SettingsType /\ TasksType /\ RowsType /\ ReportType

\* Tables v and e are those of the reading r.
Holds(r, v, e) ==
  /\ ListedIn(v) = r.boards
  /\ \A b \in r.boards : v[b].of = r.dev /\ e = r.dev

\* While a boards page is intact, the shared tables are what its first row found.
TablesOK == \A c \in Conns : intact[c] => Holds(listed[c], ver, exist)

\* While a form waits for its tag and no other of its kind was received, the
\* status of its kind is the truth about it.
StatusesOK ==
  \A c \in Conns :
    task[c] \in Forms => form[c] = task[c] /\ (alone[c] => Tells(c, status[task[c]]))

RowsInv   == Types /\ TablesOK /\ RowsAreOneReading
StatusInv == Types /\ StatusesOK /\ StatusTellsEffect
-----------------------------------------------------------------------------
(***************************************************************************)
(* The n-th board of a set.                                                *)
(***************************************************************************)
LEMMA NthIsMember ==
  ASSUME NEW S \in SUBSET (0 .. 8), NEW n \in 1 .. Cardinality(S)
  PROVE  Nth(S, n) \in S
<1> DEFINE Up(k) == {a \in S : a =< k}
           D(k)  == Cardinality(Up(k))
<1>1. IsFiniteSet(S) /\ \A k \in Int : IsFiniteSet(Up(k)) /\ D(k) \in Nat
  <2>1. IsFiniteSet(0 .. 8)
    BY 0 \in Int, 8 \in Int, FS_Interval
  <2>2. IsFiniteSet(S)
    BY <2>1, FS_Subset
  <2>3. \A k \in Int : Up(k) \in SUBSET S
    OBVIOUS
  <2> QED
    BY <2>2, <2>3, FS_Subset, FS_CardinalityType
<1>2. ASSUME NEW k \in Int
      PROVE  D(k) = IF k \in S THEN D(k - 1) + 1 ELSE D(k - 1)
  <2>1. Up(k) = IF k \in S THEN Up(k - 1) \cup {k} ELSE Up(k - 1)
    <3>1. \A a \in S : a =< k <=> a =< k - 1 \/ a = k
      BY S \subseteq Int
    <3> QED
      BY <3>1
  <2>2. k \notin Up(k - 1) /\ k - 1 \in Int
    OBVIOUS
  <2> HIDE DEF Up
  <2> QED
    BY <1>1, <2>1, <2>2, FS_AddElement
<1>3. D(-1) = 0
  <2>1. Up(-1) = {}
    BY \A a \in S : ~ (a =< -1)
  <2> QED
    BY <2>1, FS_EmptySet
<1>4. D(8) = Cardinality(S)
  <2>1. Up(8) = S
    BY \A a \in S : a =< 8
  <2> QED
    BY <2>1
<1>5. n \in Int /\ 1 =< n /\ n =< Cardinality(S)
  BY <1>1, FS_CardinalityType
<1> HIDE DEF D
<1>6. ASSUME NEW k \in 0 .. 8, D(k - 1) < n, ~ (k \in S /\ D(k) = n)
      PROVE  D(k) < n
  <2>1. D(k - 1) \in Nat
    BY <1>1, k - 1 \in Int DEF D
  <2> QED
    BY <1>2, <1>5, <1>6, <2>1
<1>7. ~ D(8) < n
  <2>1. D(8) \in Nat
    BY <1>1, 8 \in Int DEF D
  <2> QED
    BY <1>4, <1>5, <2>1
<1>8. \E k \in 0 .. 8 : k \in S /\ D(k) = n
  <2> SUFFICES ASSUME \A k \in 0 .. 8 : ~ (k \in S /\ D(k) = n) PROVE FALSE
    OBVIOUS
  <2>1. D(0) < n
    BY <1>3, <1>5, <1>6
  <2>2. D(1) < n
    BY <2>1, <1>6
  <2>3. D(2) < n
    BY <2>2, <1>6
  <2>4. D(3) < n
    BY <2>3, <1>6
  <2>5. D(4) < n
    BY <2>4, <1>6
  <2>6. D(5) < n
    BY <2>5, <1>6
  <2>7. D(6) < n
    BY <2>6, <1>6
  <2>8. D(7) < n
    BY <2>7, <1>6
  <2>9. D(8) < n
    BY <2>8, <1>6
  <2> QED
    BY <2>9, <1>7
<1> QED
  BY <1>8 DEF Nth, D

LEMMA ListedFinite ==
  ASSUME NEW S \in SUBSET Boards
  PROVE  S \in SUBSET (0 .. 8) /\ Cardinality(S) \in Nat
<1>1. S \in SUBSET (0 .. 8)
  BY PageConstants
<1>2. IsFiniteSet(S)
  <2>1. IsFiniteSet(0 .. 8)
    BY 0 \in Int, 8 \in Int, FS_Interval
  <2> QED
    BY <1>1, <2>1, FS_Subset
<1> QED
  BY <1>1, <1>2, FS_CardinalityType

\* A row is blank, or shows a board that is listed.
LEMMA LineType ==
  ASSUME NEW n \in Nat \ {0}, NEW v \in [Boards -> Version], NEW e \in Devices \cup {NoDevice},
         \A b \in Boards : v[b].set => v[b].of \in Devices /\ e \in Devices
  PROVE  Line(n, v, e) \in Row \cup {Blank}
<1> DEFINE S == ListedIn(v)
           b == Nth(S, n)
<1>1. S \in SUBSET Boards
  BY DEF ListedIn
<1>2. CASE n > Cardinality(S)
  BY <1>2 DEF Line
<1>3. CASE ~ (n > Cardinality(S))
  <2>1. n \in 1 .. Cardinality(S)
    BY <1>1, <1>3, ListedFinite
  <2>2. b \in S
    BY <1>1, <2>1, ListedFinite, NthIsMember
  <2>3. b \in Boards /\ v[b].of \in Devices /\ e \in Devices
    BY <2>2 DEF ListedIn
  <2>4. Type[e][b] \in Managed \cup {"other", "none"} /\ e # NoDevice
    BY <2>3, PageConstants DEF Devices, NoDevice
  <2>5. Line(n, v, e) = [board |-> b, version |-> v[b].of, type |-> Type[e][b]]
    BY <1>3, <2>4 DEF Line
  <2> HIDE DEF b
  <2> QED
    BY <2>3, <2>4, <2>5 DEF Row
<1> QED
  BY <1>2, <1>3
-----------------------------------------------------------------------------
(***************************************************************************)
(* Types.                                                                  *)
(***************************************************************************)
LEMMA RequestsBound == MaxRequests \in Nat
<1> QED
  BY PageConstants

LEMMA TypesGive == Types => TypeOK
<1> SUFFICES ASSUME Types PROVE TypeOK
  OBVIOUS
<1>1. \A c \in Conns : /\ Len(rows[c]) =< Len(Lines)
                       /\ \A i \in DOMAIN rows[c] : rows[c][i] = Blank \/ rows[c][i] \in Row
  <2> TAKE c \in Conns
  <2>1. rows[c] \in Seq(Row \cup {Blank}) /\ Len(rows[c]) =< Len(Lines)
    BY DEF Types, RowsType
  <2> QED
    BY <2>1
<1> QED
  BY <1>1, Zenon DEF Types, TypeOK, TablesType, SettingsType, TasksType, ReportType, Version

LEMMA TypesInit == Init => Types
<1> SUFFICES ASSUME Init PROVE Types
  OBVIOUS
<1>1. TablesType
  BY DEF Init, TablesType, Cleared, Unread, Version
<1>2. SettingsType
  BY DEF Init, SettingsType
<1>3. TasksType
  <2>1. status \in [Forms -> Results] /\ task \in [Conns -> Forms \cup {Idle, "boards"}]
    BY DEF Init, AllSuccess, AllIdle, Results
  <2>2. crChosen \in Devices /\ rebootSet \in BOOLEAN /\ requests \in 0 .. MaxRequests
    <3>1. "central" \in Devices /\ FALSE \in BOOLEAN /\ 0 \in 0 .. MaxRequests
      BY RequestsBound DEF Devices
    <3> QED
      BY <3>1, Zenon DEF Init
  <2> QED
    BY <2>1, <2>2 DEF TasksType
<1>4. RowsType
  BY DEF Init, RowsType, Reading, Nothing, Lines, AllIdle, Idle
<1>5. ReportType
  BY DEF Init, ReportType
<1> QED
  BY <1>1, <1>2, <1>3, <1>4, <1>5 DEF Types

\* The tables after a reading of the boards, after one that failed, and after
\* one of the panel.
LEMMA TablesAfter ==
  ASSUME TablesType, crChosen \in Devices
  PROVE  /\ ver' = Cleared /\ exist' = exist => TablesType'
         /\ \A failed \in SUBSET Managing(crChosen) :
              exist' = crChosen /\ ver' = Versions(crChosen, failed) => TablesType'
         /\ ver' = PanelVersions /\ exist' = exist => TablesType'
         /\ ver' = ver /\ exist' \in {exist, crChosen} => TablesType'
<1>1. ver' = Cleared /\ exist' = exist => TablesType'
  BY DEF TablesType, Cleared, Unread, Version
<1>2. ASSUME NEW failed \in SUBSET Managing(crChosen),
             exist' = crChosen, ver' = Versions(crChosen, failed)
      PROVE  TablesType'
  BY <1>2 DEF TablesType, Versions, Version
<1>3. ver' = PanelVersions /\ exist' = exist => TablesType'
  BY PageConstants DEF TablesType, PanelVersions, Version
<1>4. ver' = ver /\ exist' \in {exist, crChosen} => TablesType'
  BY DEF TablesType, Devices, NoDevice
<1> QED
  BY <1>1, <1>2, <1>3, <1>4

LEMMA SubmittedType ==
  ASSUME Types, NEW c \in Conns, NEW f \in Forms, NEW w, NEW result \in Results,
         NEW stored \in BOOLEAN, Submitted(c, f, w, result, stored), Request(c), SettingsType'
  PROVE  Types'
<1> USE DEF Types
<1>1. TablesType'
  BY Zenon DEF Submitted, tables, TablesType
<1>2. TasksType'
  BY RequestsBound DEF Submitted, Request, TasksType
<1>3. RowsType'
  <2>1. /\ rows' = rows /\ listed' = listed /\ intact' = intact
        /\ task' = [task EXCEPT ![c] = f] /\ f # "boards"
    BY DEF Submitted, page, Forms
  <2> QED
    BY <2>1 DEF RowsType, TasksType
<1>4. ReportType'
  BY DEF Submitted, ReportType
<1> QED
  BY <1>1, <1>2, <1>3, <1>4

LEMMA TypesStep == Types /\ [Next]_vars => Types'
<1> SUFFICES ASSUME Types, [Next]_vars PROVE Types'
  OBVIOUS
<1> USE DEF Types
<1>1. ASSUME NEW c \in Conns, BoardsPage(c)
      PROVE  Types'
  <2>1. TablesType' /\ SettingsType' /\ ReportType'
    BY <1>1, Zenon DEF BoardsPage, tables, settings, report, TablesType, SettingsType, ReportType
  <2>2. TasksType'
    BY <1>1, RequestsBound DEF BoardsPage, Request, TasksType
  <2>3. RowsType'
    BY <1>1 DEF BoardsPage, RowsType, TasksType, Lines
  <2> QED
    BY <2>1, <2>2, <2>3
<1>2. ASSUME NEW c \in Conns, FirstRow(c)
      PROVE  Types'
  <2>1. SettingsType' /\ ReportType' /\ TasksType'
    BY <1>2, Zenon DEF FirstRow, settings, report, SettingsType, ReportType, TasksType
  <2>2. TablesType'
    BY <1>2, TablesAfter DEF FirstRow, TasksType
  <2>3. \E x \in Reading : listed' = [listed EXCEPT ![c] = x]
    <3>1. Nothing \in Reading
      BY DEF Nothing, Reading
    <3>2. \A f \in SUBSET Managing(crChosen) :
            [dev |-> crChosen, boards |-> Managing(crChosen) \ f] \in Reading
      BY DEF Reading, Managing, TasksType
    <3> QED
      BY <1>2, <3>1, <3>2, Zenon DEF FirstRow
  <2>4. Line(Lines[1], ver', exist') \in Row \cup {Blank}
    <3>1. Lines[1] = 1
      BY DEF Lines
    <3> QED
      BY <2>2, <3>1, LineType DEF TablesType
  <2>5. rows' = [rows EXCEPT ![c] = <<Line(Lines[1], ver', exist')>>] /\ task' = task
    BY <1>2, Zenon DEF FirstRow
  <2>6. Len(Lines) = 10
    BY DEF Lines
  <2>7. intact' \in [Conns -> BOOLEAN]
    BY <1>2 DEF FirstRow, RowsType
  <2> DEFINE k == Line(Lines[1], ver', exist')
  <2> HIDE DEF k
  <2>8. <<k>> \in Seq(Row \cup {Blank}) /\ Len(<<k>>) = 1
    BY <2>4 DEF k
  <2>9. RowsType'
    <3>1. rows' = [rows EXCEPT ![c] = <<k>>] /\ rows \in [Conns -> Seq(Row \cup {Blank})]
      BY <2>5 DEF RowsType, k
    <3>2. rows' \in [Conns -> Seq(Row \cup {Blank})]
      BY <2>8, <3>1
    <3>3. \A d \in Conns : rows'[d] = IF d = c THEN <<k>> ELSE rows[d]
      BY <3>1
    <3>4. listed' \in [Conns -> Reading]
      BY <2>3 DEF RowsType
    <3>5. \A d \in Conns : /\ Len(rows'[d]) =< Len(Lines)
                           /\ task'[d] = "boards" => Len(rows'[d]) < Len(Lines)
      BY <2>5, <2>6, <2>8, <3>3 DEF RowsType
    <3> QED
      BY <2>7, <3>2, <3>4, <3>5 DEF RowsType
  <2> QED
    BY <2>1, <2>2, <2>9
<1>3. ASSUME NEW c \in Conns, NextRow(c)
      PROVE  Types'
  <2> DEFINE n == Len(rows[c])
             k == Line(Lines[n + 1], ver, exist)
  <2>1. TablesType' /\ SettingsType' /\ ReportType'
    BY <1>3, Zenon DEF NextRow, tables, settings, report, TablesType, SettingsType, ReportType
  <2>2. TasksType'
    BY <1>3 DEF NextRow, settings, report, TasksType
  <2>3. rows[c] \in Seq(Row \cup {Blank}) /\ n \in Nat /\ n < 10 /\ Len(Lines) = 10
    BY <1>3 DEF NextRow, RowsType, Lines
  <2>4. k \in Row \cup {Blank}
    <3>1. Lines[n + 1] \in Nat \ {0}
      BY <2>3 DEF Lines
    <3> QED
      BY <3>1, LineType DEF TablesType
  <2>5. rows' = [rows EXCEPT ![c] = Append(rows[c], k)] /\ UNCHANGED <<listed, intact>>
    BY <1>3 DEF NextRow, RowsType
  <2>6. task' = [task EXCEPT ![c] = IF Len(rows'[c]) = 10 THEN Idle ELSE @]
    BY <1>3, <2>3 DEF NextRow
  <2> HIDE DEF k, n
  <2>7. Append(rows[c], k) \in Seq(Row \cup {Blank}) /\ Len(Append(rows[c], k)) = n + 1
    BY <2>3, <2>4 DEF n
  <2>8. RowsType'
    <3>1. rows' \in [Conns -> Seq(Row \cup {Blank})] /\ rows'[c] = Append(rows[c], k)
      BY <2>5, <2>7 DEF RowsType
    <3>2. Len(rows'[c]) =< 10 /\ (task'[c] = "boards" => Len(rows'[c]) < 10)
      BY <2>3, <2>6, <2>7, <3>1 DEF TasksType, Idle
    <3>3. \A d \in Conns \ {c} : rows'[d] = rows[d] /\ task'[d] = task[d]
      BY <2>5, <2>6 DEF RowsType, TasksType
    <3> QED
      BY <2>3, <2>5, <3>1, <3>2, <3>3 DEF RowsType
  <2> QED
    BY <2>1, <2>2, <2>8
<1>4. ASSUME NEW c \in Conns, Panel(c)
      PROVE  Types'
  <2>1. SettingsType' /\ ReportType'
    BY <1>4, Zenon DEF Panel, settings, report, SettingsType, ReportType
  <2>2. TasksType'
    BY <1>4, RequestsBound DEF Panel, Request, TasksType
  <2>3. TablesType'
    BY <1>4, TablesAfter DEF Panel, TasksType
  <2>4. RowsType'
    BY <1>4 DEF Panel, Survive, RowsType
  <2> QED
    BY <2>1, <2>2, <2>3, <2>4
<1>5. ASSUME NEW c \in Conns, PortPage(c)
      PROVE  Types'
  <2>1. SettingsType' /\ ReportType'
    BY <1>5, Zenon DEF PortPage, settings, report, SettingsType, ReportType
  <2>2. TasksType'
    BY <1>5, RequestsBound DEF PortPage, Request, TasksType
  <2>3. TablesType'
    BY <1>5, TablesAfter DEF PortPage, TasksType
  <2>4. RowsType'
    BY <1>5 DEF PortPage, Survive, RowsType
  <2> QED
    BY <2>1, <2>2, <2>3, <2>4
<1>6. ASSUME NEW c \in Conns, RebootCgi(c) \/ \E d \in Devices : CentRmt(c, d)
      PROVE  Types'
  <2>1. TablesType' /\ SettingsType' /\ ReportType' /\ RowsType'
    BY <1>6, Zenon DEF RebootCgi, CentRmt, tables, settings, report, page,
                       TablesType, SettingsType, ReportType, RowsType
  <2>2. /\ UNCHANGED <<status, task>> /\ Request(c)
        /\ crChosen' \in Devices /\ rebootSet' \in BOOLEAN
    BY <1>6 DEF RebootCgi, CentRmt, TasksType
  <2>3. TasksType'
    BY <2>2, RequestsBound DEF Request, TasksType
  <2> QED
    BY <2>1, <2>3
<1>7. ASSUME NEW c \in Conns, AccountCgi(c)
      PROVE  Types'
  <2> PICK cur \in Accounts \cup {"missing"}, new \in Accounts :
        /\ account' = IF cur = account THEN new ELSE account
        /\ Submitted(c, "account", new,
             IF cur = "missing" THEN "fail" ELSE IF cur = account THEN "success" ELSE "incorrect",
             cur = account \/ account' # account)
    BY <1>7, Zenon DEF AccountCgi
  <2>1. SettingsType' /\ Request(c)
    BY <1>7 DEF AccountCgi, SettingsType
  <2> QED
    BY <2>1, SubmittedType DEF Results, Forms
<1>8. ASSUME NEW c \in Conns, NetCgi(c)
      PROVE  Types'
  <2>1. SettingsType' /\ Request(c)
    BY <1>8 DEF NetCgi, NetStored, SettingsType
  <2>2. \E n \in Nets : \/ Submitted(c, "net", n, "fail", FALSE)
                        \/ Submitted(c, "net", n, "success", TRUE)
    BY <1>8, Zenon DEF NetCgi
  <2> QED
    BY <2>1, <2>2, SubmittedType DEF Results, Forms
<1>9. ASSUME NEW c \in Conns, PortCgi(c)
      PROVE  Types'
  <2>1. SettingsType' /\ Request(c)
    BY <1>9 DEF PortCgi, settings, SettingsType
  <2>2. \E result \in {"success", "fail"}, stored \in BOOLEAN :
          Submitted(c, "port", "none", result, stored)
    BY <1>9, Zenon DEF PortCgi
  <2> QED
    BY <2>1, <2>2, SubmittedType DEF Results, Forms
<1>10. ASSUME NEW c \in Conns, StatusTag(c)
       PROVE  Types'
  <2>1. TablesType' /\ SettingsType'
    BY <1>10, Zenon DEF StatusTag, tables, settings, TablesType, SettingsType
  <2>2. TasksType'
    BY <1>10 DEF StatusTag, TasksType
  <2>3. RowsType'
    BY <1>10 DEF StatusTag, page, RowsType, TasksType, Idle
  <2>4. ReportType'
    <3>1. status[task[c]] \in Results
      BY <1>10 DEF StatusTag, TasksType
    <3> QED
      BY <1>10, <3>1 DEF StatusTag, ReportType
  <2> QED
    BY <2>1, <2>2, <2>3, <2>4
<1>11. CASE RebootPoll
  <2>1. TablesType'
    BY <1>11 DEF RebootPoll, TablesType, Cleared, Unread, Version
  <2>2. TasksType'
    BY <1>11 DEF RebootPoll, TasksType, AllSuccess, AllIdle, Devices, Results
  <2>3. RowsType'
    BY <1>11 DEF RebootPoll, RowsType, AllIdle, Idle
  <2>4. SettingsType' /\ ReportType'
    BY <1>11, Zenon DEF RebootPoll, report, SettingsType, ReportType
  <2> QED
    BY <2>1, <2>2, <2>3, <2>4
<1>12. CASE UNCHANGED vars
  BY <1>12, Zenon DEF vars, tables, settings, page, report,
                      TablesType, SettingsType, TasksType, RowsType, ReportType
<1> QED
  BY <1>1, <1>2, <1>3, <1>4, <1>5, <1>6, <1>7, <1>8, <1>9, <1>10, <1>11, <1>12 DEF Next

LEMMA TypesAlways == Spec => []Types
<1> QED
  BY TypesInit, TypesStep, PTL DEF Spec

\* The types of the state, and that a board is listed only when it was read from
\* a device.
THEOREM TypeCorrect == Spec => []TypeOK
<1> QED
  BY TypesGive, TypesAlways, PTL
-----------------------------------------------------------------------------
(***************************************************************************)
(* The boards page.                                                        *)
(***************************************************************************)

\* While the tables are those of a reading, a line is a row of that reading.
LEMMA LineIsRow ==
  ASSUME NEW r \in Reading, NEW v \in [Boards -> Version], NEW e, NEW n \in Nat \ {0},
         Holds(r, v, e), \A b \in Boards : v[b].set => e \in Devices
  PROVE  Line(n, v, e) = RowOf(r, n)
<1> DEFINE b == Nth(r.boards, n)
<1>1. r.boards \in SUBSET Boards /\ ListedIn(v) = r.boards
  BY DEF Reading, Holds
<1>2. CASE n > Cardinality(r.boards)
  BY <1>1, <1>2 DEF Line, RowOf
<1>3. CASE ~ (n > Cardinality(r.boards))
  <2>1. n \in 1 .. Cardinality(r.boards)
    BY <1>1, <1>3, ListedFinite
  <2>2. b \in r.boards
    BY <1>1, <2>1, ListedFinite, NthIsMember
  <2>3. v[b].set /\ b \in Boards
    BY <1>1, <2>2 DEF ListedIn
  <2>4. v[b].of = r.dev /\ e = r.dev /\ e # NoDevice
    BY <2>2, <2>3 DEF Holds, Devices, NoDevice
  <2> QED
    BY <1>1, <1>3, <2>4, Zenon DEF Line, RowOf
<1> QED
  BY <1>2, <1>3

\* What the panel and the port pages read of a device leaves the tables as the
\* boards pages of that device found them.
LEMMA OtherReadings ==
  ASSUME Types, TablesOK, Survive(OfDevice(crChosen)), UNCHANGED <<crChosen, rows, listed>>,
         \/ ver' = PanelVersions /\ exist' = exist
         \/ ver' = ver /\ exist' = crChosen
  PROVE  TablesOK'
<1> SUFFICES ASSUME NEW c \in Conns, intact'[c]
             PROVE  Holds(listed[c], ver', exist')
  BY DEF TablesOK
<1>1. intact[c] /\ listed[c].dev = crChosen
  BY DEF Survive, OfDevice
<1>2. Holds(listed[c], ver, exist)
  BY <1>1 DEF TablesOK
<1>3. ver \in [Boards -> Version]
  BY DEF Types, TablesType, RowsType, Version
<1>4. CASE ver' = PanelVersions /\ exist' = exist
  BY <1>1, <1>2, <1>3, <1>4 DEF PanelVersions, Holds, ListedIn, Version
<1>5. CASE ver' = ver /\ exist' = crChosen
  BY <1>1, <1>2, <1>5 DEF Holds
<1> QED
  BY <1>4, <1>5

\* What a first row finds is in the tables behind it.
LEMMA FirstRowHolds ==
  ASSUME Types, NEW c \in Conns, FirstRow(c)
  PROVE  Holds(listed'[c], ver', exist')
<1>1. listed \in [Conns -> Reading] /\ ver \in [Boards -> Version]
  BY DEF Types, TablesType, RowsType, Version
<1>2. CASE ver' = Cleared /\ listed' = [listed EXCEPT ![c] = Nothing]
  BY <1>1, <1>2 DEF Holds, ListedIn, Cleared, Unread, Nothing
<1>3. ASSUME NEW failed \in SUBSET Managing(crChosen),
             exist' = crChosen, ver' = Versions(crChosen, failed),
             listed' = [listed EXCEPT ![c] =
                          [dev |-> crChosen, boards |-> Managing(crChosen) \ failed]]
      PROVE  Holds(listed'[c], ver', exist')
  <2> DEFINE r == [dev |-> crChosen, boards |-> Managing(crChosen) \ failed]
  <2>1. listed'[c] = r
    BY <1>1, <1>3
  <2>2. Holds(r, Versions(crChosen, failed), crChosen)
    BY <1>1 DEF Holds, ListedIn, Versions, Managing, Version
  <2> QED
    BY <1>3, <2>1, <2>2, Zenon
<1> QED
  BY <1>2, <1>3, Zenon DEF FirstRow

LEMMA RowsInit == Init => TablesOK /\ RowsAreOneReading
<1> QED
  BY DEF Init, TablesOK, RowsAreOneReading

LEMMA RowsStep == RowsInv /\ [Next]_vars => TablesOK' /\ RowsAreOneReading'
<1> SUFFICES ASSUME Types, Types', TablesOK, RowsAreOneReading, [Next]_vars
             PROVE  TablesOK' /\ RowsAreOneReading'
  BY TypesStep DEF RowsInv
<1> USE DEF TablesOK, RowsAreOneReading
<1>t. /\ ver \in [Boards -> Version] /\ ver' \in [Boards -> Version]
      /\ \A b \in Boards : ver[b].set => exist \in Devices
      /\ \A b \in Boards : ver'[b].set => exist' \in Devices
      /\ rows \in [Conns -> Seq(Row \cup {Blank})]
      /\ listed \in [Conns -> Reading] /\ listed' \in [Conns -> Reading]
      /\ intact \in [Conns -> BOOLEAN]
  BY DEF Types, TablesType, RowsType, Version
<1>1. ASSUME NEW c \in Conns, BoardsPage(c)
      PROVE  TablesOK' /\ RowsAreOneReading'
  <2>1. TablesOK'
    BY <1>1, Zenon DEF BoardsPage, tables, TablesOK
  <2>2. \A d \in Conns : rows'[d] = IF d = c THEN <<>> ELSE rows[d]
    BY <1>1, <1>t DEF BoardsPage
  <2> QED
    BY <1>1, <2>1, <2>2 DEF BoardsPage
<1>2. ASSUME NEW c \in Conns, FirstRow(c)
      PROVE  TablesOK' /\ RowsAreOneReading'
  <2> DEFINE k == Line(Lines[1], ver', exist')
  <2>1. Holds(listed'[c], ver', exist')
    BY <1>2, FirstRowHolds
  <2>2. \A d \in Conns : intact'[d] => d = c \/ (intact[d] /\ listed[d] = listed'[c])
    BY <1>2 DEF FirstRow
  <2>3. \A d \in Conns \ {c} : listed'[d] = listed[d] /\ rows'[d] = rows[d]
    BY <1>2, <1>t DEF FirstRow
  <2>4. TablesOK'
    BY <2>1, <2>2, <2>3, Zenon
  <2>5. rows'[c] = <<k>>
    BY <1>2, <1>t DEF FirstRow
  <2>6. Lines[1] = 1
    BY DEF Lines
  <2>7. k = RowOf(listed'[c], Lines[1])
    BY <1>t, <2>1, <2>6, LineIsRow
  <2> HIDE DEF k
  <2>8. \A i \in DOMAIN rows'[c] : rows'[c][i] = RowOf(listed'[c], Lines[i])
    BY <2>5, <2>7
  <2>9. RowsAreOneReading'
    <3> SUFFICES ASSUME NEW d \in Conns, intact'[d], NEW i \in DOMAIN rows'[d]
                 PROVE  rows'[d][i] = RowOf(listed'[d], Lines[i])
      OBVIOUS
    <3>1. CASE d = c
      BY <2>8, <3>1
    <3>2. CASE d # c
      <4>1. rows'[d] = rows[d] /\ listed'[d] = listed[d] /\ intact[d]
        BY <2>2, <2>3, <3>2
      <4> QED
        BY <4>1
    <3> QED
      BY <3>1, <3>2
  <2> QED
    BY <2>4, <2>9
<1>3. ASSUME NEW c \in Conns, NextRow(c)
      PROVE  TablesOK' /\ RowsAreOneReading'
  <2> DEFINE n == Len(rows[c]) + 1
             k == Line(Lines[n], ver, exist)
  <2>1. UNCHANGED <<ver, exist, listed, intact>>
    BY <1>3 DEF NextRow, tables
  <2>2. TablesOK'
    BY <2>1, Zenon DEF TablesOK
  <2>3. rows[c] \in Seq(Row \cup {Blank}) /\ n \in 1 .. 10
    BY <1>3, <1>t DEF NextRow, Types, RowsType, Lines
  <2>4. rows' = [rows EXCEPT ![c] = Append(rows[c], k)]
    BY <1>3, <1>t DEF NextRow
  <2>5. Lines[n] \in Nat \ {0}
    <3>1. \A m \in 1 .. 10 : Lines[m] \in Nat \ {0}
      BY DEF Lines
    <3> QED
      BY <2>3, <3>1
  <2>6. intact[c] => k = RowOf(listed[c], Lines[n])
    <3> SUFFICES ASSUME intact[c] PROVE k = RowOf(listed[c], Lines[n])
      OBVIOUS
    <3>1. Holds(listed[c], ver, exist) /\ listed[c] \in Reading
      BY <1>t
    <3>2. PICK m \in Nat \ {0} : m = Lines[n]
      BY <2>5
    <3>3. Line(m, ver, exist) = RowOf(listed[c], m)
      <4>1. \A r \in Reading, v \in [Boards -> Version] :
              Holds(r, v, exist) /\ (\A b \in Boards : v[b].set => exist \in Devices)
                => Line(m, v, exist) = RowOf(r, m)
        BY LineIsRow
      <4> QED
        BY <1>t, <3>1, <4>1, Zenon
    <3> QED
      BY <3>2, <3>3, Zenon
  <2> HIDE DEF k
  <2>7. \A d \in Conns \ {c} : rows'[d] = rows[d]
    BY <1>t, <2>4
  <2>8. rows'[c] = Append(rows[c], k)
    BY <1>t, <2>4
  <2>9. intact[c] => \A i \in DOMAIN rows'[c] : rows'[c][i] = RowOf(listed[c], Lines[i])
    <3> SUFFICES ASSUME intact[c], NEW i \in DOMAIN rows'[c]
                 PROVE  rows'[c][i] = RowOf(listed[c], Lines[i])
      OBVIOUS
    <3>1. CASE i = n
      BY <2>3, <2>6, <2>8, <3>1
    <3>2. CASE i # n
      <4>1. i \in DOMAIN rows[c] /\ rows'[c][i] = rows[c][i]
        BY <2>3, <2>8, <3>2
      <4> QED
        BY <4>1, Zenon
    <3> QED
      BY <3>1, <3>2
  <2>10. RowsAreOneReading'
    BY <2>1, <2>7, <2>9, ZenonT(40)
  <2> QED
    BY <2>2, <2>10
<1>4. ASSUME NEW c \in Conns, Panel(c) \/ PortPage(c)
      PROVE  TablesOK' /\ RowsAreOneReading'
  <2>1. UNCHANGED <<crChosen, rows, listed>>
    BY <1>4 DEF Panel, PortPage
  <2>2. \A d \in Conns : intact'[d] => intact[d]
    BY <1>4 DEF Panel, PortPage, Survive
  <2>3. RowsAreOneReading'
    BY <2>1, <2>2, Zenon
  <2>4. \/ ver' = Cleared /\ Survive({})
        \/ ver' = PanelVersions /\ exist' = exist /\ Survive(OfDevice(crChosen))
        \/ ver' = ver /\ exist' = exist
        \/ ver' = ver /\ exist' = crChosen /\ Survive(OfDevice(crChosen))
    BY <1>4, Zenon DEF Panel, PortPage
  <2>5. TablesOK'
    <3>1. CASE ver' = Cleared /\ Survive({})
      BY <3>1 DEF Survive, TablesOK
    <3>2. CASE ver' = ver /\ exist' = exist
      BY <2>1, <2>2, <3>2, Zenon
    <3> QED
      BY <2>1, <2>4, <3>1, <3>2, OtherReadings
  <2> QED
    BY <2>3, <2>5
<1>5. ASSUME NEW c \in Conns,
             \/ RebootCgi(c) \/ \E d \in Devices : CentRmt(c, d)
             \/ AccountCgi(c) \/ NetCgi(c) \/ PortCgi(c) \/ StatusTag(c)
      PROVE  TablesOK' /\ RowsAreOneReading'
  <2>1. UNCHANGED <<ver, exist, rows, listed, intact>>
    BY <1>5, Zenon DEF RebootCgi, CentRmt, AccountCgi, NetCgi, PortCgi, StatusTag, Submitted,
                       tables, page
  <2> QED
    BY <2>1, Zenon
<1>6. CASE RebootPoll
  BY <1>6 DEF RebootPoll, TablesOK, RowsAreOneReading
<1>7. CASE UNCHANGED vars
  BY <1>7, Zenon DEF vars, tables, page
<1> QED
  BY <1>1, <1>2, <1>3, <1>4, <1>5, <1>6, <1>7 DEF Next

\* The rows of an intact boards page are one reading of one device.
THEOREM RowsAlwaysOneReading == Spec => []RowsAreOneReading
<1>1. Init => RowsInv
  BY TypesInit, RowsInit DEF RowsInv
<1>2. RowsInv /\ [Next]_vars => RowsInv'
  BY TypesStep, RowsStep DEF RowsInv
<1>3. RowsInv => RowsAreOneReading
  BY DEF RowsInv
<1> QED
  BY <1>1, <1>2, <1>3, PTL DEF Spec
-----------------------------------------------------------------------------
(***************************************************************************)
(* Forms and their statuses.                                               *)
(***************************************************************************)

\* A form that is received makes the status of its kind the truth about it, and
\* leaves the others, and what they stored, alone.
LEMMA SubmittedTells ==
  ASSUME StatusInv, Types', NEW c \in Conns, NEW f \in Forms, NEW w, NEW result \in Results,
         NEW stored \in BOOLEAN, Submitted(c, f, w, result, stored),
         f # "account" => account' = account,
         f # "net" => net' = net /\ netif' = netif,
         result = "success" => /\ stored
                               /\ f = "account" => account' = w
                               /\ f = "net" => net' = w /\ netif' = w,
         result # "success" /\ f # "port" => ~stored
  PROVE  StatusesOK' /\ StatusTellsEffect'
<1>t. /\ status \in [Forms -> Results] /\ task \in [Conns -> Forms \cup {Idle, "boards"}]
      /\ told \in [Conns -> Results \cup {"nothing"}]
      /\ form \in [Conns -> Forms \cup {"none"}] /\ DOMAIN want = Conns
      /\ effect \in [Conns -> BOOLEAN] /\ alone \in [Conns -> BOOLEAN]
      /\ DOMAIN want' = Conns
  BY DEF StatusInv, Types, TasksType, SettingsType, ReportType
<1>1. /\ task'[c] = f /\ form'[c] = f
      /\ effect'[c] = stored /\ status'[f] = result /\ told'[c] = "nothing"
  BY <1>t DEF Submitted
<1>2. want'[c] = w /\ \A d \in Conns \ {c} : want'[d] = want[d]
  <2>1. want' = [want EXCEPT ![c] = w]
    BY DEF Submitted
  <2> QED
    BY <1>t, <2>1, Zenon
<1>3. \A d \in Conns \ {c} :
        /\ task'[d] = task[d] /\ form'[d] = form[d] /\ effect'[d] = effect[d]
        /\ told'[d] = told[d] /\ (alone'[d] => alone[d] /\ form[d] # f)
  BY <1>t DEF Submitted
<1>4. \A g \in Forms \ {f} : status'[g] = status[g]
  BY <1>t DEF Submitted
<1>5. Tells(c, result)'
  BY <1>1, <1>2 DEF Tells
<1>6. ASSUME NEW d \in Conns \ {c}, NEW k, alone'[d], Tells(d, k)
      PROVE  Tells(d, k)'
  <2>1. form'[d] = form[d] /\ form[d] # f /\ effect'[d] = effect[d] /\ want'[d] = want[d]
    BY <1>2, <1>3, <1>6
  <2> QED
    BY <1>6, <2>1 DEF Tells
<1>7. StatusesOK'
  <2> SUFFICES ASSUME NEW d \in Conns, task'[d] \in Forms
               PROVE  form'[d] = task'[d] /\ (alone'[d] => Tells(d, status[task[d]])')
    BY DEF StatusesOK
  <2>1. CASE d = c
    BY <1>1, <1>5, <2>1
  <2>2. CASE d # c
    <3>1. /\ form[d] = task[d] /\ task[d] \in Forms
          /\ alone[d] => Tells(d, status[task[d]])
      BY <1>3, <2>2 DEF StatusInv, StatusesOK
    <3>2. ASSUME alone'[d]
          PROVE  Tells(d, status[task[d]])'
      <4>1. status'[task'[d]] = status[task[d]]
        BY <1>3, <1>4, <2>2, <3>1, <3>2
      <4> DEFINE k == status[task[d]]
      <4>2. Tells(d, k)
        BY <1>3, <2>2, <3>1, <3>2
      <4> HIDE DEF k
      <4>3. PICK x : x = k
        OBVIOUS
      <4>4. Tells(d, x)'
        BY <1>6, <2>2, <3>2, <4>2, <4>3
      <4> QED
        BY <4>1, <4>3, <4>4 DEF k
    <3> QED
      BY <1>3, <2>2, <3>1, <3>2
  <2> QED
    BY <2>1, <2>2
<1>8. StatusTellsEffect'
  <2> SUFFICES ASSUME NEW d \in Conns, alone'[d], told'[d] # "nothing"
               PROVE  Tells(d, told[d])'
    BY DEF StatusTellsEffect
  <2>1. d # c
    BY <1>1
  <2>2. told'[d] = told[d] /\ alone[d] /\ Tells(d, told[d])
    BY <1>3, <2>1 DEF StatusInv, StatusTellsEffect
  <2>3. PICK x : x = told[d]
    OBVIOUS
  <2>4. Tells(d, x)'
    BY <1>6, <2>1, <2>2, <2>3
  <2> QED
    BY <2>2, <2>3, <2>4
<1> QED
  BY <1>7, <1>8

LEMMA StatusInit == Init => StatusesOK /\ StatusTellsEffect
<1> QED
  BY DEF Init, StatusesOK, StatusTellsEffect, AllIdle, Idle, Forms

LEMMA StatusStep == StatusInv /\ [Next]_vars => StatusesOK' /\ StatusTellsEffect'
<1> SUFFICES ASSUME StatusInv, Types', [Next]_vars
             PROVE  StatusesOK' /\ StatusTellsEffect'
  BY TypesStep DEF StatusInv
<1>t. /\ task \in [Conns -> Forms \cup {Idle, "boards"}]
      /\ told \in [Conns -> Results \cup {"nothing"}]
      /\ StatusesOK /\ StatusTellsEffect
  BY DEF StatusInv, Types, TasksType, SettingsType, ReportType
<1>1. ASSUME NEW c \in Conns, NEW k \in {Idle, "boards"}, task' = [task EXCEPT ![c] = k],
             UNCHANGED <<settings, status, report>>
      PROVE  StatusesOK' /\ StatusTellsEffect'
  <2>1. StatusTellsEffect'
    BY <1>t, <1>1, Zenon DEF StatusTellsEffect, Tells, settings, report
  <2>2. k \notin Forms
    BY DEF Forms, Idle
  <2>3. \A d \in Conns : task'[d] \in Forms => d # c /\ task'[d] = task[d]
    BY <1>t, <1>1, <2>2
  <2>4. StatusesOK'
    BY <1>t, <1>1, <2>3, Zenon DEF StatusesOK, Tells, settings, report
  <2> QED
    BY <2>1, <2>4
<1>2. ASSUME UNCHANGED <<task, settings, status, report>>
      PROVE  StatusesOK' /\ StatusTellsEffect'
  BY <1>t, <1>2, Zenon DEF StatusesOK, StatusTellsEffect, Tells, settings, report
<1>3. ASSUME NEW c \in Conns, BoardsPage(c)
      PROVE  StatusesOK' /\ StatusTellsEffect'
  BY <1>1, <1>3, Zenon DEF BoardsPage
<1>4. ASSUME NEW c \in Conns, NextRow(c)
      PROVE  StatusesOK' /\ StatusTellsEffect'
  <2>1. UNCHANGED <<settings, status, report>>
    BY <1>4, Zenon DEF NextRow
  <2>2. task' = [task EXCEPT ![c] = Idle] \/ task' = [task EXCEPT ![c] = "boards"]
    BY <1>4, <1>t DEF NextRow
  <2> QED
    BY <1>1, <2>1, <2>2
<1>5. ASSUME NEW c \in Conns,
             \/ FirstRow(c) \/ Panel(c) \/ PortPage(c) \/ RebootCgi(c)
             \/ \E d \in Devices : CentRmt(c, d)
      PROVE  StatusesOK' /\ StatusTellsEffect'
  <2>1. UNCHANGED <<task, settings, status, report>>
    BY <1>5, Zenon DEF FirstRow, Panel, PortPage, RebootCgi, CentRmt
  <2> QED
    BY <1>2, <2>1
<1>6. ASSUME NEW c \in Conns, AccountCgi(c)
      PROVE  StatusesOK' /\ StatusTellsEffect'
  <2> PICK cur \in Accounts \cup {"missing"}, new \in Accounts :
        /\ account' = IF cur = account THEN new ELSE account
        /\ Submitted(c, "account", new,
             IF cur = "missing" THEN "fail" ELSE IF cur = account THEN "success" ELSE "incorrect",
             cur = account \/ account' # account)
    BY <1>6, Zenon DEF AccountCgi
  <2> DEFINE result == IF cur = "missing" THEN "fail"
                       ELSE IF cur = account THEN "success" ELSE "incorrect"
             stored == cur = account \/ account' # account
  <2>1. net' = net /\ netif' = netif
    BY <1>6, Zenon DEF AccountCgi
  <2>2. account \in Accounts /\ account # "missing"
    BY PageConstants DEF StatusInv, Types, TasksType, SettingsType, ReportType
  <2>3. result \in Results /\ stored \in BOOLEAN /\ "account" \in Forms
    BY DEF Results, Forms
  <2>4. result = "success" => stored /\ account' = new
    OBVIOUS
  <2>5. result # "success" => ~stored
    BY <2>2
  <2>6. Submitted(c, "account", new, result, stored)
    BY Zenon
  <2> HIDE DEF result, stored
  <2> QED
    BY <2>1, <2>3, <2>4, <2>5, <2>6, SubmittedTells
<1>7. ASSUME NEW c \in Conns, NetCgi(c)
      PROVE  StatusesOK' /\ StatusTellsEffect'
  <2> PICK n \in Nets :
        \/ Submitted(c, "net", n, "fail", FALSE) /\ UNCHANGED <<net, netif>>
        \/ netif' = n /\ net' = n /\ Submitted(c, "net", n, "success", TRUE)
    BY <1>7, Zenon DEF NetCgi, NetStored
  <2>1. account' = account
    BY <1>7, Zenon DEF NetCgi
  <2>2. "net" \in Forms /\ "fail" \in Results /\ "success" \in Results
    BY DEF Forms, Results
  <2>3. CASE Submitted(c, "net", n, "fail", FALSE) /\ UNCHANGED <<net, netif>>
    BY <2>1, <2>2, <2>3, SubmittedTells
  <2>4. CASE netif' = n /\ net' = n /\ Submitted(c, "net", n, "success", TRUE)
    BY <2>1, <2>2, <2>4, SubmittedTells
  <2> QED
    BY <2>3, <2>4
<1>8. ASSUME NEW c \in Conns, PortCgi(c)
      PROVE  StatusesOK' /\ StatusTellsEffect'
  <2> PICK result \in {"success", "fail"}, stored \in BOOLEAN :
        (result = "success" => stored) /\ Submitted(c, "port", "none", result, stored)
    BY <1>8, Zenon DEF PortCgi
  <2>1. UNCHANGED settings
    BY <1>8, Zenon DEF PortCgi
  <2>2. "port" \in Forms /\ result \in Results
    BY DEF Forms, Results
  <2> QED
    BY <2>1, <2>2, SubmittedTells DEF settings
<1>9. ASSUME NEW c \in Conns, StatusTag(c)
      PROVE  StatusesOK' /\ StatusTellsEffect'
  <2>1. UNCHANGED <<settings, status, form, want, effect, alone>>
    BY <1>9 DEF StatusTag
  <2>3. ASSUME NEW d \in Conns, NEW k, Tells(d, k)
        PROVE  Tells(d, k)'
    BY <2>1, <2>3, Zenon DEF Tells, settings
  <2>4. /\ task[c] \in Forms /\ task'[c] = Idle /\ told'[c] = status[task[c]]
        /\ \A d \in Conns \ {c} : task'[d] = task[d] /\ told'[d] = told[d]
    BY <1>9, <1>t DEF StatusTag
  <2>5. StatusesOK'
    <3> SUFFICES ASSUME NEW d \in Conns, task'[d] \in Forms
                 PROVE  form'[d] = task'[d] /\ (alone'[d] => Tells(d, status[task[d]])')
      BY DEF StatusesOK
    <3>1. task'[d] = task[d]
      BY <2>4 DEF Forms, Idle
    <3>2. form[d] = task[d] /\ (alone[d] => Tells(d, status[task[d]]))
      BY <1>t, <3>1 DEF StatusesOK
    <3>3. PICK x : x = status[task[d]]
      OBVIOUS
    <3>4. alone[d] => Tells(d, x)'
      BY <2>3, <3>2, <3>3
    <3>5. x = status'[task'[d]]
      BY <2>1, <3>1, <3>3
    <3> QED
      BY <2>1, <3>1, <3>2, <3>4, <3>5
  <2>6. StatusTellsEffect'
    <3> SUFFICES ASSUME NEW d \in Conns, alone'[d], told'[d] # "nothing"
                 PROVE  Tells(d, told[d])'
      BY DEF StatusTellsEffect
    <3>1. PICK x : x = told'[d]
      OBVIOUS
    <3>2. Tells(d, x)
      BY <1>t, <2>1, <2>4, <3>1 DEF StatusesOK, StatusTellsEffect
    <3>3. Tells(d, x)'
      BY <2>3, <3>2
    <3> QED
      BY <3>1, <3>3
  <2> QED
    BY <2>5, <2>6
<1>10. CASE RebootPoll
  <2>1. UNCHANGED <<account, net, report>> /\ netif' = net
    BY <1>10 DEF RebootPoll
  <2>2. \A d \in Conns : task'[d] = Idle
    BY <1>10 DEF RebootPoll, AllIdle
  <2>3. StatusesOK'
    BY <2>2 DEF StatusesOK, Forms, Idle
  <2>4. StatusTellsEffect'
    BY <1>t, <2>1 DEF StatusTellsEffect, Tells, report
  <2> QED
    BY <2>3, <2>4
<1>11. CASE UNCHANGED vars
  <2>1. UNCHANGED <<task, settings, status, report>>
    BY <1>11 DEF vars
  <2> QED
    BY <1>2, <2>1
<1> QED
  BY <1>3, <1>4, <1>5, <1>6, <1>7, <1>8, <1>9, <1>10, <1>11 DEF Next

\* What a browser is told became of its form is the truth.
THEOREM StatusAlwaysTellsEffect == Spec => []StatusTellsEffect
<1>1. Init => StatusInv
  BY TypesInit, StatusInit DEF StatusInv
<1>2. StatusInv /\ [Next]_vars => StatusInv'
  BY TypesStep, StatusStep DEF StatusInv
<1>3. StatusInv => StatusTellsEffect
  BY DEF StatusInv
<1> QED
  BY <1>1, <1>2, <1>3, PTL DEF Spec
=============================================================================
