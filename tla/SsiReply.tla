------------------------------ MODULE SsiReply ------------------------------
(***************************************************************************)
(* How a reply is sent (http_send_data, http_write and get_tag_insert in   *)
(* httpd.c): three header strings, then the file, in which each tag        *)
(* <!--#name--> is followed by the text its handler inserts.               *)
(*                                                                         *)
(* The function is called from http_recv, http_sent and http_poll, sends   *)
(* what the send buffer and the memory allow, and goes on in the next call *)
(* from hs->file (the first byte not sent), hs->parsed (the first one not  *)
(* looked at), hs->tag_state and hs->tag_index.  A step of the loops is an *)
(* action; other connections run only between two calls, where they change *)
(* the data the handlers read (a version number here).                     *)
(*                                                                         *)
(* A file is a sequence of characters; a byte sent is named by where it    *)
(* comes from.  Every file of fs.c is one block, so fs_read has nothing    *)
(* left to give.  LWIP_HTTPD_SSI_INCLUDE_TAG is 1: tags stay in the reply. *)
(***************************************************************************)
EXTENDS Integers, Sequences, SequencesExt, FiniteSets

CONSTANTS
  Pages,       \* Pages[p]: the text of file p and its tag_check
  HdrLens,     \* lengths of the header strings
  InsertLen,   \* per registered tag name: the length of what it inserts
  EchoLen,     \* length of the text for a tag that is not registered
  MaxTagName,  \* LWIP_HTTPD_MAX_TAG_NAME_LEN
  SndBuf, Mss, \* of the connection
  MaxVersions, \* bound: versions of the data
  MaxShort     \* bound: calls of tcp_write refused for want of memory

LeadIn  == <<"<", "!", "-", "-", "#">>
LeadOut == <<"-", "-", ">">>
Space   == {" "}                        \* blank, tab, newline, return

At(t, i, s) == i + Len(s) - 1 =< Len(t) /\ SubSeq(t, i, i + Len(s) - 1) = s
\* the first position from i on that is not in C
Skip(t, i, C) ==
  CHOOSE k \in i .. Len(t) + 1 :
    (k > Len(t) \/ t[k] \notin C) /\ \A m \in i .. k - 1 : t[m] \in C
NameChars(t) == Range(t) \ ({"-"} \cup Space)

\* the tags of a text: what stands between the lead-in and the lead-out is a
\* name of at most MaxTagName characters with white space around it
TagsIn(t) ==
  {x \in {LET a == Skip(t, i + Len(LeadIn), Space)
              b == Skip(t, a, NameChars(t))
              c == Skip(t, b, Space)
          IN  [first |-> i, name |-> SubSeq(t, a, b - 1), out |-> c] :
          i \in {j \in 1 .. Len(t) - Len(LeadIn) : At(t, j, LeadIn)}} :
     Len(x.name) \in 1 .. MaxTagName /\ At(t, x.out, LeadOut)}
TagEnds == [p \in DOMAIN Pages |-> {x.out + 2 : x \in TagsIn(Pages[p].text)}]

\* the files of the repository are such: angle brackets come in pairs, a tag
\* is closed by "-->", and no file ends with a tag
ASSUME SsiConstants ==
  /\ \A p \in DOMAIN Pages :
       LET t == Pages[p].text IN
         /\ t \in Seq(Range(t)) /\ Pages[p].tagCheck \in BOOLEAN
         /\ \A i, j \in DOMAIN t :
              (i < j /\ t[i] = "<" /\ t[j] = "<") => \E k \in i .. j : t[k] = ">"
         /\ \A i, k \in DOMAIN t :
              (i < k /\ At(t, i, LeadIn) /\ t[k] = ">" /\ \A m \in i .. k - 1 : t[m] # ">")
                => t[k - 1] = "-"
         /\ Len(t) \notin TagEnds[p]
  /\ HdrLens \in Seq(Nat \ {0}) /\ EchoLen \in Nat
  /\ InsertLen \in [DOMAIN InsertLen -> Nat] /\ MaxTagName \in Nat
  /\ SndBuf \in Nat \ {0, 1} /\ Mss \in Nat \ {0}
  /\ MaxVersions \in Nat /\ MaxShort \in Nat

VARIABLES
  page,        \* the file asked for
  hdr, hpos,   \* hdr_index + 1, hdr_pos
  file, parsed,  \* 1 + the offsets of hs->file and hs->parsed
  tagState, tagIndex, tagName, tagEnd, insert,  \* of http_state
  pc, len,     \* where http_send_data is and its local variable len
  snd,         \* tcp_sndbuf
  out, closed, \* what was given to tcp_write; http_close_conn was called
  version,     \* of the data the handlers read
  seen, short  \* history: versions read for the tags so far; refusals

tagVars == <<tagState, tagIndex, tagName, tagEnd, insert>>
vars == <<page, hdr, hpos, file, parsed, tagVars, pc, len, snd, out, closed, version,
          seen, short>>
-----------------------------------------------------------------------------
Text      == Pages[page].text
Left      == Len(Text) + 1 - file       \* hs->left
ParseLeft == Len(Text) + 1 - parsed     \* hs->parse_left
Lesser(a, b) == IF a < b THEN a ELSE b

\* http_init_file, get_http_headers
Init ==
  /\ page \in DOMAIN Pages
  /\ hdr = 1 /\ hpos = 0 /\ file = 1 /\ parsed = 1
  /\ tagState = "none" /\ tagIndex = 0 /\ tagName = <<>> /\ tagEnd = 0 /\ insert = <<>>
  /\ pc = "idle" /\ len = 0
  /\ snd = SndBuf /\ out = <<>> /\ closed = FALSE
  /\ version = 0 /\ seen = <<>> /\ short = 0
-----------------------------------------------------------------------------
(* http_write *)

\* the lengths it tries for n bytes: halves of it, but never a single byte
Halves(n) == {n} \cup {m \in 2 .. n : \E k \in 1 .. n : m = n \div (2 ^ k)}
Fitting(n) == {m \in Halves(n) : m =< snd}
NoBytes == -1

\* the first that is accepted when there is memory, NoBytes for ERR_MEM
Accepted(n) ==
  IF Fitting(n) = {} THEN NoBytes ELSE CHOOSE m \in Fitting(n) : \A k \in Fitting(n) : k =< m

Written(n) ==
  {Accepted(n)} \cup IF short < MaxShort /\ n > 0 THEN Fitting(n) \cup {NoBytes} ELSE {}

\* w of the n bytes of s that were to be sent are given to TCP
Give(s, n, w) ==
  /\ out' = IF w = NoBytes THEN out ELSE out \o SubSeq(s, 1, w)
  /\ snd' = IF w = NoBytes THEN snd ELSE snd - w
  /\ short' = IF w = Accepted(n) THEN short ELSE short + 1

FileBytes   == [i \in 1 .. Left |-> <<"file", file + i - 1>>]
HeaderBytes == [i \in 1 .. HdrLens[hdr] - hpos |-> <<"header", hdr, hpos + i>>]

GiveFile(n, w) ==
  /\ Give(FileBytes, n, w)
  /\ file' = IF w = NoBytes THEN file ELSE file + w
-----------------------------------------------------------------------------
(* The calls of http_send_data. *)

Enter ==
  /\ pc = "idle" /\ ~closed
  /\ pc' = IF hdr > Len(HdrLens) THEN "begin" ELSE "headers"

\* mutant: nothing calls again while nothing is to be acknowledged
Poll_IfUnacked ==
  /\ out = <<>> \/ snd < SndBuf
  /\ Enter /\ len' = snd
  /\ UNCHANGED <<page, hdr, hpos, file, parsed, tagVars, snd, out, closed, version, seen,
                 short>>

\* http_recv when the request is complete, and http_poll
Poll ==
  /\ Enter /\ len' = snd
  /\ UNCHANGED <<page, hdr, hpos, file, parsed, tagVars, snd, out, closed, version, seen,
                 short>>

\* http_sent
Sent(n) ==
  /\ snd + n =< SndBuf
  /\ snd' = snd + n
  /\ Enter /\ len' = snd'
  /\ UNCHANGED <<page, hdr, hpos, file, parsed, tagVars, out, closed, version, seen, short>>

\* the handlers of other connections
OtherHandler ==
  /\ pc = "idle" /\ version < MaxVersions
  /\ version' = version + 1
  /\ UNCHANGED <<page, hdr, hpos, file, parsed, tagVars, pc, len, snd, out, closed, seen,
                 short>>
-----------------------------------------------------------------------------
(* Headers. *)

HeadersUnchanged == UNCHANGED <<page, file, parsed, tagVars, closed, version, seen>>

SendHeader ==
  /\ pc = "headers" /\ hdr =< Len(HdrLens) /\ len > 0
  /\ LET n == Lesser(len, HdrLens[hdr] - hpos) IN
       \E w \in Written(n) :
         /\ Give(HeaderBytes, n, w)
         /\ IF w = NoBytes
              THEN pc' = "idle" /\ UNCHANGED <<hdr, hpos, len>>
              ELSE /\ len' = len - w
                   /\ IF hpos + w = HdrLens[hdr]
                        THEN hdr' = hdr + 1 /\ hpos' = 0
                        ELSE hpos' = hpos + w /\ UNCHANGED hdr
                   /\ UNCHANGED pc
  /\ HeadersUnchanged

\* either more headers are left and nothing can be sent, or the file follows
HeadersEnd ==
  /\ pc = "headers"
  /\ \/ hdr > Len(HdrLens) /\ pc' = "begin"
     \/ hdr =< Len(HdrLens) /\ len = 0 /\ pc' = "idle"
  /\ UNCHANGED <<hdr, hpos, len, snd, out, short>> /\ HeadersUnchanged
-----------------------------------------------------------------------------
(* The file. *)

\* an empty file
NothingToSend ==
  /\ pc = "begin" /\ Left = 0
  /\ closed' = TRUE
  /\ pc' = "idle"
  /\ UNCHANGED <<page, hdr, hpos, file, parsed, tagVars, len, snd, out, version, seen, short>>

FileUnchanged == UNCHANGED <<page, hdr, hpos, parsed, tagVars, closed, version, seen>>
InOneCall(n) == Lesser(Lesser(snd, n), 2 * Mss)

\* a file without tags
SendPlain ==
  /\ pc = "begin" /\ Left > 0 /\ ~Pages[page].tagCheck
  /\ LET n == InOneCall(Left) IN \E w \in Written(n) : GiveFile(n, w)
  /\ pc' = "end"
  /\ UNCHANGED len /\ FileUnchanged

Tagged == pc = "begin" /\ Left > 0 /\ Pages[page].tagCheck

\* what was parsed in the last call and could not be sent; its length is
\* then what the loop may send at a time
SendParsed ==
  /\ Tagged /\ parsed > file
  /\ LET n == InOneCall(parsed - file) IN
       \E w \in Written(n) :
         /\ GiveFile(n, w)
         /\ len' = w
         /\ pc' = CASE snd' = 0    -> "idle"
                    [] w = NoBytes -> "tail"
                    [] OTHER       -> "scan"
  /\ FileUnchanged

ParseOn ==
  /\ Tagged /\ parsed =< file
  /\ len' = snd
  /\ pc' = "scan"
  /\ UNCHANGED <<file, snd, out, short>> /\ FileUnchanged

\* the loop ends: all is parsed, or (len = 0) nothing more can be sent
ScanEnd ==
  /\ pc = "scan"
  /\ \/ ParseLeft = 0 /\ pc' = "tail"
     \/ ParseLeft > 0 /\ len = 0 /\ pc' = "idle"
  /\ UNCHANGED <<file, len, snd, out, short>> /\ FileUnchanged

Scanning(state) == pc = "scan" /\ ParseLeft > 0 /\ len > 0 /\ tagState = state
Char == Text[parsed]
ScanUnchanged ==
  UNCHANGED <<page, hdr, hpos, tagEnd, file, pc, len, snd, out, closed, version, short>>

ScanText ==
  /\ Scanning("none")
  /\ parsed' = parsed + 1
  /\ IF Char = LeadIn[1]
       THEN tagState' = "leadin" /\ tagIndex' = 1
       ELSE UNCHANGED <<tagState, tagIndex>>
  /\ UNCHANGED <<tagName, insert, seen>> /\ ScanUnchanged

ScanLeadIn ==
  /\ Scanning("leadin")
  /\ IF tagIndex = Len(LeadIn)
       THEN tagState' = "found" /\ tagIndex' = 0 /\ UNCHANGED parsed
       ELSE /\ parsed' = parsed + 1
            /\ IF Char = LeadIn[tagIndex + 1]
                 THEN tagIndex' = tagIndex + 1 /\ UNCHANGED tagState
                 ELSE tagState' = "none" /\ UNCHANGED tagIndex
  /\ UNCHANGED <<tagName, insert, seen>> /\ ScanUnchanged

\* mutant: one character more than tag_name has room for
NameFull_Late == tagIndex > MaxTagName
NameFull == tagIndex >= MaxTagName

\* the name ends with white space or with the first "-"; an empty or too
\* long one is passed over
ScanName ==
  /\ Scanning("found")
  /\ parsed' = parsed + 1
  /\ LET ends == Char \in Space \cup {"-"} IN
       \/ /\ tagIndex = 0 /\ Char \in Space
          /\ UNCHANGED <<tagState, tagIndex, tagName>>
       \/ /\ tagIndex > 0 /\ ends
          /\ tagState' = "leadout"
          /\ tagIndex' = IF Char = "-" THEN 1 ELSE 0
          /\ tagName' = SubSeq(tagName, 1, tagIndex)
       \/ /\ ~ends /\ ~NameFull
          /\ tagName' = Append(SubSeq(tagName, 1, tagIndex), Char)
          /\ tagIndex' = tagIndex + 1
          /\ UNCHANGED tagState
       \/ /\ \/ tagIndex = 0 /\ Char = "-"
             \/ ~ends /\ NameFull
          /\ tagState' = "none"
          /\ UNCHANGED <<tagIndex, tagName>>
  /\ UNCHANGED <<insert, seen>> /\ ScanUnchanged

LastOfTag == Char = LeadOut[tagIndex + 1] /\ tagIndex + 1 = Len(LeadOut)

ScanLeadOut ==
  /\ Scanning("leadout") /\ ~LastOfTag
  /\ parsed' = parsed + 1
  /\ CASE tagIndex = 0 /\ Char \in Space -> UNCHANGED <<tagState, tagIndex>>
       [] Char = LeadOut[tagIndex + 1]   -> tagIndex' = tagIndex + 1 /\ UNCHANGED tagState
       [] OTHER                          -> tagState' = "none" /\ UNCHANGED tagIndex
  /\ UNCHANGED <<tagName, insert, seen>> /\ ScanUnchanged

\* get_tag_insert: a registered tag's handler writes into the connection's
\* own buffer; any other tag is echoed
Inserted(name, v) ==
  IF name \in DOMAIN InsertLen
    THEN [i \in 1 .. InsertLen[name] |-> <<name, v, i>>]
    ELSE [i \in 1 .. EchoLen |-> <<"unknown", name, i>>]

\* the end of a tag: its insert is asked for and the text up to here is sent
TagComplete ==
  /\ Scanning("leadout") /\ LastOfTag
  /\ parsed' = parsed + 1
  /\ insert' = Inserted(tagName, version)
  /\ seen' = Append(seen, version)
  /\ tagIndex' = 0
  /\ tagState' = "sending"
  /\ tagEnd' = parsed + 1
  /\ LET n == Lesser(len, parsed + 1 - file) IN
       \E w \in Written(n) :
         /\ GiveFile(n, w)
         /\ len' = w
         /\ pc' = IF w = NoBytes THEN "tail" ELSE "scan"
  /\ UNCHANGED <<page, hdr, hpos, tagName, closed, version>>

\* the rest of the text up to the tag's end
SendUpToTag ==
  /\ Scanning("sending") /\ tagEnd > file
  /\ LET n == Lesser(len, tagEnd - file) IN
       \E w \in Written(n) :
         /\ GiveFile(n, w)
         /\ len' = w
         /\ pc' = IF w = NoBytes THEN "tail" ELSE "scan"
  /\ FileUnchanged

\* mutant: the handler is called again each time the insert is continued
SendInsert_Anew ==
  /\ Scanning("sending") /\ tagEnd =< file /\ tagIndex < Len(insert)
  /\ insert' = Inserted(tagName, version)
  /\ LET n == Lesser(len, Len(insert) - tagIndex) IN
       \E w \in Written(n) :
         /\ Give(SubSeq(insert', tagIndex + 1, Len(insert)), n, w)
         /\ len' = w
         /\ tagIndex' = IF w = NoBytes THEN tagIndex ELSE tagIndex + w
         /\ pc' = IF w = NoBytes THEN "tail" ELSE "scan"
  /\ UNCHANGED <<page, hdr, hpos, file, parsed, tagState, tagName, tagEnd, closed,
                 version, seen>>

SendInsert ==
  /\ Scanning("sending") /\ tagEnd =< file /\ tagIndex < Len(insert)
  /\ LET n == Lesser(len, Len(insert) - tagIndex) IN
       \E w \in Written(n) :
         /\ Give(SubSeq(insert, tagIndex + 1, Len(insert)), n, w)
         /\ len' = w
         /\ tagIndex' = IF w = NoBytes THEN tagIndex ELSE tagIndex + w
         /\ pc' = IF w = NoBytes THEN "tail" ELSE "scan"
  /\ UNCHANGED <<page, hdr, hpos, file, parsed, tagState, tagName, tagEnd, insert, closed,
                 version, seen>>

InsertSent ==
  /\ Scanning("sending") /\ tagEnd =< file /\ tagIndex >= Len(insert)
  /\ tagIndex' = 0
  /\ tagState' = "none"
  /\ UNCHANGED <<parsed, tagName, insert, seen>> /\ ScanUnchanged

\* behind the loop: the text parsed so far, unless a tag is being sent
SendRest ==
  /\ pc = "tail"
  /\ IF tagState # "sending" /\ parsed > file
       THEN LET n == InOneCall(parsed - file) IN \E w \in Written(n) : GiveFile(n, w)
       ELSE UNCHANGED <<file, snd, out, short>>
  /\ pc' = "end"
  /\ UNCHANGED len /\ FileUnchanged

\* the connection is closed when the whole file has been sent
End ==
  /\ pc = "end"
  /\ closed' = (Left = 0)
  /\ pc' = "idle"
  /\ UNCHANGED <<page, hdr, hpos, file, parsed, tagVars, len, snd, out, version, seen, short>>
-----------------------------------------------------------------------------
SendData ==
  \/ SendHeader \/ HeadersEnd \/ NothingToSend \/ SendPlain \/ SendParsed \/ ParseOn
  \/ ScanEnd \/ ScanText \/ ScanLeadIn \/ ScanName \/ ScanLeadOut \/ TagComplete
  \/ SendUpToTag \/ SendInsert \/ InsertSent \/ SendRest \/ End
Acknowledge == \E n \in 1 .. SndBuf : Sent(n)

Next == SendData \/ Acknowledge \/ Poll \/ OtherHandler

Spec == Init /\ [][Next]_vars

\* a call ends, lwIP polls each connection, and the client, which goes on
\* receiving, acknowledges whether or not http_poll runs in between
FairSpec == Spec /\ WF_vars(SendData) /\ WF_vars(Poll) /\ SF_vars(Acknowledge)
-----------------------------------------------------------------------------
(* Type correctness. *)
TypeOK ==
  /\ page \in DOMAIN Pages
  /\ hdr \in 1 .. Len(HdrLens) + 1 /\ hpos \in Nat
  /\ file \in 1 .. Len(Text) + 1 /\ parsed \in 1 .. Len(Text) + 1
  /\ tagState \in {"none", "leadin", "found", "leadout", "sending"}
  /\ tagIndex \in Nat /\ Len(tagName) =< MaxTagName /\ tagEnd \in 0 .. Len(Text) + 1
  /\ pc \in {"idle", "headers", "begin", "scan", "tail", "end"}
  /\ len \in NoBytes .. SndBuf /\ snd \in 0 .. SndBuf
  /\ closed \in BOOLEAN /\ version \in 0 .. MaxVersions /\ short \in 0 .. MaxShort

\* the reply a client should get: each tag is followed by what its handler
\* inserts, from the data of one moment
AllHeaders == [h \in DOMAIN HdrLens |-> [i \in 1 .. HdrLens[h] |-> <<"header", h, i>>]]
TagNumber(i) == Cardinality({e \in TagEnds[page] : e =< i})
NameAt(i) == (CHOOSE x \in TagsIn(Text) : x.out + 2 = i).name
Piece(i) ==
  <<<<"file", i>>>> \o
  IF Pages[page].tagCheck /\ i \in TagEnds[page]
    THEN IF TagNumber(i) =< Len(seen) THEN Inserted(NameAt(i), seen[TagNumber(i)])
                                      ELSE <<<<"unread">>>>
    ELSE <<>>
Reply == FlattenSeq(AllHeaders) \o FlattenSeq([i \in DOMAIN Text |-> Piece(i)])

(* However the send buffer, the memory and the calls cut it up, what has   *)
(* been sent is the beginning of this reply: nothing is left out, sent     *)
(* twice or out of place, a tag is found wherever a call ended inside it,  *)
(* and an insert sent in several calls is not mixed with newer data.  The  *)
(* connection is closed only when the reply is complete.                   *)
SentIsReply == IsPrefix(out, Reply) /\ (closed => out = Reply)

(* The shrinking budget, the halving in http_write and its refusal to send *)
(* a single byte never leave a reply hanging while the client acknowledges *)
(* and memory comes back.                                                  *)
ReplyEnds == <>closed
=============================================================================
