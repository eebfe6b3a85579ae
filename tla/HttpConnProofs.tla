--------------------------- MODULE HttpConnProofs ---------------------------
(***************************************************************************)
(* Theorems about HttpConn, for any number of connections, bodies of any   *)
(* lengths, and any sizes of the buffer, the pool and fs_memory.           *)
(***************************************************************************)
EXTENDS HttpConn, SequenceTheorems, FiniteSetTheorems, TLAPS

(***************************************************************************)
(* The inductive invariants.                                               *)
(***************************************************************************)

\* The connections.
Record ==
  [open : BOOLEAN, req : Nat, retries : 0 .. MaxRetries - 1, post : Nat, left : Nat,
   cgi : BOOLEAN, handle : BOOLEAN, todo : Nat, unacked : Nat]

Good(x) ==
  /\ ~x.open => x = Closed
  /\ x.left > 0 => x.req = 0 /\ ~x.handle /\ x.todo = 0 /\ x.unacked = 0
  /\ x.todo + x.unacked =< MaxChunks

ConnsOK == conn \in [Conns -> Record] /\ \A c \in Conns : Good(conn[c])

\* Files and pbufs.  A pbuf that is not in a request any more is lost.
FilesOK == inuse \in 0 .. MaxOpen /\ FilesAccounted

HeldOK ==
  /\ pbufs \in 0 .. Pool /\ untidy \in BOOLEAN
  /\ \A c \in Conns : conn[c].req =< Pool
  /\ Cardinality(Held) =< pbufs
  /\ PbufsReturned

\* The payload and the POSTs, as operators of the variables, since the start of
\* a POST and the first part of its body may be one step.
Unit == Nat \X Nat
Post == [size : Nat \ {0}, given : Seq(Unit), alone : BOOLEAN]

Types(tx, ln, ps) ==
  /\ ps \in Seq(Post) /\ Len(ps) =< MaxPosts
  /\ tx \in Seq(Unit) /\ ln \in 0 .. Len(tx) /\ Len(tx) =< Capacity

\* A POST in progress is the POST of one connection.
OwnPosts(cn, ps) ==
  /\ \A c \in Conns : cn[c].post =< Len(ps)
  /\ \A c \in Conns : cn[c].left > 0 => /\ cn[c].post \in DOMAIN ps
                                        /\ cn[c].left =< ps[cn[c].post].size
                                        /\ ps[cn[c].post].given = <<>>
  /\ \A c, d \in Conns : cn[c].left > 0 /\ cn[d].left > 0 /\ cn[c].post = cn[d].post => c = d

\* The unit has been received.
Received(u, cn, ps) ==
  /\ u[1] \in DOMAIN ps
  /\ \A c \in Conns : cn[c].left > 0 /\ cn[c].post = u[1] => u[2] =< ps[u[1]].size - cn[c].left

\* What is in the buffer and what handlers were given has been received, and is
\* nowhere else.
Places(cn, tx, ps) ==
  /\ \A i \in DOMAIN tx : Received(tx[i], cn, ps)
  /\ \A p \in DOMAIN ps : \A i \in DOMAIN ps[p].given : Received(ps[p].given[i], cn, ps)

Once(tx, ps) ==
  /\ \A i, j \in DOMAIN tx : tx[i] = tx[j] => i = j
  /\ \A p \in DOMAIN ps : \A i \in DOMAIN tx, j \in DOMAIN ps[p].given : tx[i] # ps[p].given[j]
  /\ \A p \in DOMAIN ps : \A i, j \in DOMAIN ps[p].given : ps[p].given[i] = ps[p].given[j] => i = j
  /\ \A p, q \in DOMAIN ps : p # q =>
       \A i \in DOMAIN ps[p].given, j \in DOMAIN ps[q].given : ps[p].given[i] # ps[q].given[j]

Payload(cn, tx, ln, ps) ==
  Types(tx, ln, ps) /\ OwnPosts(cn, ps) /\ Places(cn, tx, ps) /\ Once(tx, ps)

\* The POSTs whose damage has to be accounted for.
Start(p, n) == [i \in 1 .. n |-> <<p, i>>]
Spoilt(ps) ==
  {p \in DOMAIN ps : ps[p].given # <<>> /\ ps[p].given # Start(p, ps[p].size) /\ ps[p].alone}

\* The buffer holds what has been received of the POST of record x.
Faithful(x, tx, ln, ps) ==
  LET n == ps[x.post].size - x.left IN tx = Start(x.post, n) /\ ln = n

\* One fault more than damage: whoever is given the buffer may be damaged by it.
Spare(ps, fa) == Cardinality(Spoilt(ps)) < fa

Damage(cn, tx, ln, ps, fa) ==
  /\ fa \in Nat /\ Cardinality(Spoilt(ps)) =< fa
  /\ \A c, d \in Conns : cn[c].left > 0 /\ cn[d].left > 0 /\ c # d => ~ps[cn[c].post].alone
  /\ (\E c \in Conns : cn[c].left > 0 /\ ~cn[c].cgi) => Spare(ps, fa)
  /\ (\A c \in Conns : cn[c].left = 0) /\ tx # <<>> => Spare(ps, fa)
  /\ \A c \in Conns : cn[c].left > 0 /\ ps[cn[c].post].alone /\ ~Faithful(cn[c], tx, ln, ps)
                        => Spare(ps, fa)

Base == ConnsOK /\ FilesOK /\ HeldOK

PostsOK(cn, tx, ln, ps, fa) == Payload(cn, tx, ln, ps) /\ Damage(cn, tx, ln, ps, fa)

HttpInv == Base /\ PostsOK(conn, text, len, posts, faults)
-----------------------------------------------------------------------------
(***************************************************************************)
(* What a step makes of a connection's record, of the files and of the     *)
(* pbufs.                                                                  *)
(***************************************************************************)
FileMove(c, x) ==
  \/ (x.handle <=> conn[c].handle) /\ inuse' = inuse
  \/ x.handle /\ ~conn[c].handle /\ inuse' = inuse + 1 /\ CanOpen
  \/ ~x.handle /\ conn[c].handle /\ inuse' = inuse - 1

ReqMove(c, x) ==
  \/ x.req = conn[c].req /\ pbufs' = pbufs /\ untidy' = untidy
  \/ x.req = conn[c].req + 1 /\ pbufs' = pbufs + 1 /\ pbufs < Pool /\ untidy' = untidy
  \/ x.req = 0 /\ pbufs' = pbufs - conn[c].req /\ untidy' = untidy
  \/ x.req = 0 /\ pbufs' = pbufs /\ untidy' = (untidy \/ conn[c].req > 0)
  \/ x.req = conn[c].req /\ pbufs' = pbufs + 1 /\ pbufs < Pool /\ untidy' = TRUE

Becomes(c, x) == x \in Record /\ Good(x) /\ conn' = [conn EXCEPT ![c] = x]

Same(x, r) == x.open /\ x.req = r.req /\ x.post = r.post /\ x.left = r.left /\ x.cgi = r.cgi

LEMMA Bounds ==
  /\ IsFiniteSet(Conns) /\ Sizes \subseteq Nat \ {0} /\ Capacity \in Nat /\ MaxOpen \in Nat
  /\ MaxRetries \in Nat \ {0} /\ Pool \in Nat /\ MaxChunks \in Nat \ {0} /\ MaxPosts \in Nat
<1> QED
  BY HttpConstants

LEMMA ClosedIsGood ==
  /\ Closed \in Record /\ Good(Closed)
  /\ ~Closed.open /\ Closed.req = 0 /\ Closed.left = 0 /\ ~Closed.handle /\ Closed.post = 0
  /\ Closed.todo = 0 /\ Closed.unacked = 0
<1> QED
  BY Bounds DEF Closed, Record, Good

\* A record whose reply goes on.
Progress(r, t, u) == [r EXCEPT !.todo = t, !.unacked = u]

LEMMA ProgressIsGood ==
  ASSUME NEW r \in Record, r.open, r.left = 0, NEW t \in Nat, NEW u \in Nat, t + u =< MaxChunks
  PROVE  /\ Progress(r, t, u) \in Record /\ Good(Progress(r, t, u))
         /\ Same(Progress(r, t, u), r) /\ Progress(r, t, u).handle = r.handle
<1> DEFINE x == Progress(r, t, u)
<1>2. x \in Record
  BY DEF Progress, Record
<1>3. /\ x.open = r.open /\ x.req = r.req /\ x.post = r.post /\ x.left = r.left
      /\ x.cgi = r.cgi /\ x.handle = r.handle /\ x.todo = t /\ x.unacked = u
  BY DEF Progress, Record
<1> HIDE DEF x
<1>4. Good(x) /\ Same(x, r)
  BY <1>3 DEF Good, Same
<1> QED
  BY <1>2, <1>3, <1>4 DEF x

\* http_send_data frees the record, or leaves it open with less to send.
LEMMA SendForms ==
  ASSUME NEW c \in Conns, NEW n, NEW r \in Record, r.open, r.left = 0,
         r.todo + r.unacked =< MaxChunks, Send(c, r, n)
  PROVE  \/ Free(c, r, n)
         \/ \E x \in Record : /\ Good(x) /\ Same(x, r) /\ x.handle = r.handle
                              /\ conn' = [conn EXCEPT ![c] = x]
                              /\ inuse' = n /\ untidy' = untidy
<1>1. r.todo \in Nat /\ r.unacked \in Nat /\ MaxChunks \in Nat
  BY Bounds DEF Record
<1>2. ASSUME NEW k \in 0 .. r.todo,
             conn' = [conn EXCEPT ![c] = Progress(r, r.todo - k, r.unacked + k)],
             inuse' = n, untidy' = untidy
      PROVE  \E x \in Record : /\ Good(x) /\ Same(x, r) /\ x.handle = r.handle
                               /\ conn' = [conn EXCEPT ![c] = x]
                               /\ inuse' = n /\ untidy' = untidy
  <2>1. r.todo - k \in Nat /\ r.unacked + k \in Nat /\ (r.todo - k) + (r.unacked + k) =< MaxChunks
    BY <1>1
  <2> QED
    BY <1>2, <2>1, ProgressIsGood
<1>3. ASSUME NEW k \in 0 .. r.todo - 1,
             conn' = [conn EXCEPT ![c] = [r EXCEPT !.todo = @ - k, !.unacked = @ + k]]
      PROVE  conn' = [conn EXCEPT ![c] = Progress(r, r.todo - k, r.unacked + k)]
  BY <1>3 DEF Progress, Record
<1>4. ASSUME conn' = [conn EXCEPT ![c] = [r EXCEPT !.todo = 0, !.unacked = @ + r.todo]]
      PROVE  conn' = [conn EXCEPT ![c] = Progress(r, r.todo - r.todo, r.unacked + r.todo)]
  <2>1. r.todo - r.todo = 0
    BY <1>1
  <2> QED
    BY <1>4, <2>1, Zenon DEF Progress
<1>5. ASSUME ~Free(c, r, n)
      PROVE  \E k \in 0 .. r.todo :
               /\ conn' = [conn EXCEPT ![c] = Progress(r, r.todo - k, r.unacked + k)]
               /\ inuse' = n /\ untidy' = untidy
  <2>1. CASE \E k \in 0 .. r.todo - 1 :
               /\ conn' = [conn EXCEPT ![c] = [r EXCEPT !.todo = @ - k, !.unacked = @ + k]]
               /\ inuse' = n /\ UNCHANGED untidy
    <3> PICK k \in 0 .. r.todo - 1 :
               /\ conn' = [conn EXCEPT ![c] = [r EXCEPT !.todo = @ - k, !.unacked = @ + k]]
               /\ inuse' = n /\ UNCHANGED untidy
      BY <2>1
    <3>1. k \in 0 .. r.todo
      BY <1>1
    <3> QED
      BY <1>3, <3>1
  <2>2. CASE /\ conn' = [conn EXCEPT ![c] = [r EXCEPT !.todo = 0, !.unacked = @ + r.todo]]
             /\ inuse' = n /\ UNCHANGED untidy
    <3>1. r.todo \in 0 .. r.todo
      BY <1>1
    <3> QED
      BY <1>4, <2>2, <3>1
  <2> QED
    BY <1>5, <2>1, <2>2, Zenon DEF Send
<1> QED
  BY <1>2, <1>5

\* A reply: the record is freed, or kept with or without a file.
LEMMA ReplyForms ==
  ASSUME NEW c \in Conns, NEW r \in Record, r.open, r.left = 0, ~r.handle,
         r.todo = 0, r.unacked = 0, ~conn[c].handle, inuse \in Nat,
         NEW found \in BOOLEAN, Reply(c, r, found)
  PROVE  \E x \in Record :
           /\ Good(x) /\ (x = Closed \/ Same(x, r)) /\ conn' = [conn EXCEPT ![c] = x]
           /\ FileMove(c, x)
           /\ untidy' = IF x = Closed THEN untidy \/ r.req > 0 ELSE untidy
<1>1. ASSUME NEW t \in 1 .. MaxChunks, NEW h \in BOOLEAN, NEW n,
             n = IF h THEN inuse + 1 ELSE inuse, h => CanOpen,
             Send(c, [r EXCEPT !.retries = 0, !.handle = h, !.todo = t], n)
      PROVE  \E x \in Record :
               /\ Good(x) /\ (x = Closed \/ Same(x, r)) /\ conn' = [conn EXCEPT ![c] = x]
               /\ FileMove(c, x)
               /\ untidy' = IF x = Closed THEN untidy \/ r.req > 0 ELSE untidy
  <2> DEFINE s == [r EXCEPT !.retries = 0, !.handle = h, !.todo = t]
  <2>1. /\ s \in Record /\ s.open /\ s.left = 0 /\ s.todo + s.unacked =< MaxChunks
        /\ s.handle = h /\ Same(s, r)
    <3>1. 0 \in 0 .. MaxRetries - 1 /\ t \in Nat
      BY Bounds
    <3>2. s \in Record
      BY <3>1 DEF Record
    <3>3. /\ s.open = r.open /\ s.req = r.req /\ s.post = r.post /\ s.left = r.left
          /\ s.cgi = r.cgi /\ s.handle = h /\ s.todo = t /\ s.unacked = r.unacked
      BY DEF Record
    <3> HIDE DEF s
    <3> QED
      BY <3>2, <3>3, Bounds DEF Same
  <2> HIDE DEF s
  <2>2. CASE Free(c, s, n)
    <3>1. conn' = [conn EXCEPT ![c] = Closed] /\ inuse' = inuse
      BY <1>1, <2>1, <2>2 DEF Free
    <3>2. untidy' = (untidy \/ r.req > 0)
      BY <2>1, <2>2 DEF Free, Same
    <3>3. FileMove(c, Closed)
      BY <3>1, ClosedIsGood, Zenon DEF FileMove
    <3> QED
      BY <3>1, <3>2, <3>3, ClosedIsGood
  <2>3. ASSUME NEW x \in Record, Good(x), Same(x, s), x.handle = s.handle,
               conn' = [conn EXCEPT ![c] = x], inuse' = n, untidy' = untidy
        PROVE  \E y \in Record :
                 /\ Good(y) /\ (y = Closed \/ Same(y, r)) /\ conn' = [conn EXCEPT ![c] = y]
                 /\ FileMove(c, y)
                 /\ untidy' = IF y = Closed THEN untidy \/ r.req > 0 ELSE untidy
    <3>1. Same(x, r) /\ x # Closed
      BY <2>1, <2>3, ClosedIsGood DEF Same
    <3>2. FileMove(c, x)
      <4>1. CASE h
        BY <1>1, <2>1, <2>3, <4>1, Zenon DEF FileMove
      <4>2. CASE ~h
        BY <1>1, <2>1, <2>3, <4>2, Zenon DEF FileMove
      <4> QED
        BY <4>1, <4>2
    <3> QED
      BY <2>3, <3>1, <3>2
  <2>4. Send(c, s, n)
    BY <1>1 DEF s
  <2> QED
    BY <2>1, <2>2, <2>3, <2>4, SendForms
<1>2. CASE found /\ CanOpen
  <2>1. PICK t \in 1 .. MaxChunks :
          Send(c, [r EXCEPT !.retries = 0, !.handle = TRUE, !.todo = t], inuse + 1)
    BY <1>2 DEF Reply
  <2> QED
    BY <1>1, <1>2, <2>1
<1>3. CASE ~found \/ ~CanOpen
  <2>1. Send(c, [r EXCEPT !.retries = 0, !.todo = 1], inuse)
    BY <1>3 DEF Reply
  <2>2. [r EXCEPT !.retries = 0, !.todo = 1] = [r EXCEPT !.retries = 0, !.handle = FALSE, !.todo = 1]
    BY DEF Record
  <2>3. 1 \in 1 .. MaxChunks
    BY Bounds
  <2> QED
    BY <1>1, <2>1, <2>2, <2>3
<1> QED
  BY <1>2, <1>3

\* A step of connection c.
Moves(c) == \E x : Becomes(c, x) /\ FileMove(c, x) /\ ReqMove(c, x)

LEMMA ConnFacts ==
  ASSUME ConnsOK, NEW c \in Conns
  PROVE  /\ conn[c] \in Record /\ Good(conn[c])
         /\ conn[c].open \in BOOLEAN /\ conn[c].handle \in BOOLEAN /\ conn[c].req \in Nat
         /\ conn[c].left \in Nat /\ conn[c].post \in Nat
         /\ conn[c].todo \in Nat /\ conn[c].unacked \in Nat
         /\ conn[c].open \/ conn[c] = Closed
         /\ conn[c].left > 0 => conn[c].req = 0 /\ ~conn[c].handle /\ conn[c].todo = 0 /\ conn[c].unacked = 0
         /\ conn[c].todo + conn[c].unacked =< MaxChunks
<1>1. conn[c] \in Record /\ Good(conn[c])
  BY DEF ConnsOK
<1>2. /\ conn[c].open \in BOOLEAN /\ conn[c].handle \in BOOLEAN /\ conn[c].req \in Nat
      /\ conn[c].left \in Nat /\ conn[c].post \in Nat
      /\ conn[c].todo \in Nat /\ conn[c].unacked \in Nat
  BY <1>1 DEF Record
<1> QED
  BY <1>1, <1>2 DEF Good

\* The record is freed outside of a reply.
LEMMA FreeMoves ==
  ASSUME ConnsOK, NEW c \in Conns, Free(c, conn[c], inuse), pbufs' = pbufs
  PROVE  Moves(c)
<1>1. Becomes(c, Closed)
  BY ClosedIsGood DEF Becomes, Free
<1>2. FileMove(c, Closed)
  BY ConnFacts, ClosedIsGood DEF FileMove, Free
<1>3. ReqMove(c, Closed)
  BY ClosedIsGood DEF ReqMove, Free
<1> QED
  BY <1>1, <1>2, <1>3 DEF Moves

\* http_send_data for a connection that has a reply.
LEMMA SendMoves ==
  ASSUME ConnsOK, NEW c \in Conns, NEW r \in Record, r.open, r.left = 0,
         r.todo + r.unacked =< MaxChunks, r.handle = conn[c].handle, r.req = conn[c].req,
         Send(c, r, inuse), pbufs' = pbufs
  PROVE  Moves(c)
<1>1. CASE Free(c, r, inuse)
  <2>1. Free(c, conn[c], inuse)
    BY <1>1 DEF Free
  <2> QED
    BY <2>1, FreeMoves
<1>2. ASSUME NEW x \in Record, Good(x), Same(x, r), x.handle = r.handle,
             conn' = [conn EXCEPT ![c] = x], inuse' = inuse, untidy' = untidy
      PROVE  Moves(c)
  <2>1. Becomes(c, x) /\ FileMove(c, x) /\ ReqMove(c, x)
    BY <1>2 DEF Becomes, FileMove, ReqMove, Same
  <2> QED
    BY <2>1 DEF Moves
<1> QED
  BY <1>1, <1>2, SendForms

\* A reply to a request that has been taken off the record.
LEMMA ReplyMoves ==
  ASSUME ConnsOK, NEW c \in Conns, NEW r \in Record, r.open, r.left = 0, ~r.handle, r.req = 0,
         r.todo = 0, r.unacked = 0, ~conn[c].handle, inuse \in Nat,
         NEW found \in BOOLEAN, Reply(c, r, found), untidy \in BOOLEAN,
         \/ pbufs' = pbufs - conn[c].req
         \/ pbufs' = pbufs /\ conn[c].req = 0
  PROVE  Moves(c)
<1> PICK x \in Record :
           /\ Good(x) /\ (x = Closed \/ Same(x, r)) /\ conn' = [conn EXCEPT ![c] = x]
           /\ FileMove(c, x)
           /\ untidy' = IF x = Closed THEN untidy \/ r.req > 0 ELSE untidy
  BY ReplyForms
<1>1. x.req = 0 /\ untidy' = untidy
  BY ClosedIsGood DEF Same
<1>2. ReqMove(c, x)
  BY <1>1 DEF ReqMove
<1> QED
  BY <1>2 DEF Moves, Becomes

\* A part of a body.
LEMMA BodyMoves ==
  ASSUME ConnsOK, NEW c \in Conns, NEW ps, NEW r \in Record, r.open, r.left > 0, ~r.handle,
         r.req = 0, r.todo = 0, r.unacked = 0, ~conn[c].handle, inuse \in Nat, untidy \in BOOLEAN,
         PostBody(c, r, ps),
         \/ pbufs' = pbufs - conn[c].req
         \/ pbufs' = pbufs /\ conn[c].req = 0
  PROVE  Moves(c)
<1> PICK k \in 1 .. r.left : \/ Store(c, r, ps, k) \/ CallCgi(c, r, ps, k)
                             \/ Discard(c, r, ps, k) \/ Overflow(c, r, ps, k)
  BY DEF PostBody
<1>1. ASSUME NEW b \in BOOLEAN, k < r.left,
             conn' = [conn EXCEPT ![c] = [r EXCEPT !.left = r.left - k, !.cgi = b]],
             UNCHANGED <<inuse, untidy>>
      PROVE  Moves(c)
  <2> DEFINE x == [r EXCEPT !.left = r.left - k, !.cgi = b]
  <2>1. r.left - k \in Nat
    BY <1>1 DEF Record
  <2>2. x \in Record
    BY <2>1 DEF Record
  <2>3. x.open /\ ~x.handle /\ x.todo = 0 /\ x.unacked = 0 /\ x.req = 0
    BY DEF Record
  <2> HIDE DEF x
  <2>4. Becomes(c, x)
    BY <1>1, <2>2, <2>3, Bounds DEF Becomes, Good, x
  <2>5. FileMove(c, x)
    BY <1>1, <2>3 DEF FileMove
  <2>6. ReqMove(c, x)
    BY <1>1, <2>3 DEF ReqMove
  <2> QED
    BY <2>4, <2>5, <2>6 DEF Moves
<1>2. ASSUME NEW b \in BOOLEAN, NEW found \in BOOLEAN,
             Reply(c, [r EXCEPT !.left = 0, !.cgi = b], found)
      PROVE  Moves(c)
  <2> DEFINE x == [r EXCEPT !.left = 0, !.cgi = b]
  <2>1. x \in Record
    BY DEF Record
  <2>2. x.open /\ ~x.handle /\ x.todo = 0 /\ x.unacked = 0 /\ x.req = 0 /\ x.left = 0
    BY DEF Record
  <2>3. Reply(c, x, found)
    BY <1>2
  <2> HIDE DEF x
  <2> QED
    BY <2>1, <2>2, <2>3, ReplyMoves
<1>3. CASE Store(c, r, ps, k)
  <2>1. [r EXCEPT !.left = @ - k] = [r EXCEPT !.left = r.left - k, !.cgi = r.cgi] /\ r.cgi \in BOOLEAN
    BY DEF Record
  <2> QED
    BY <1>1, <1>3, <2>1 DEF Store
<1>4. CASE CallCgi(c, r, ps, k) \/ Discard(c, r, ps, k)
  <2>1. [r EXCEPT !.left = 0] = [r EXCEPT !.left = 0, !.cgi = r.cgi] /\ r.cgi \in BOOLEAN
    BY DEF Record
  <2>2. \E found \in BOOLEAN : Reply(c, [r EXCEPT !.left = 0], found)
    BY <1>4, Zenon DEF CallCgi, Discard
  <2> QED
    BY <1>2, <2>1, <2>2
<1>5. CASE Overflow(c, r, ps, k)
  <2>1. [r EXCEPT !.left = @ - k, !.cgi = FALSE] = [r EXCEPT !.left = r.left - k, !.cgi = FALSE]
    BY DEF Record
  <2> QED
    BY <1>1, <1>2, <1>5, <2>1 DEF Overflow
<1> QED
  BY <1>3, <1>4, <1>5
-----------------------------------------------------------------------------
(***************************************************************************)
(* Every action of a connection is such a step.                            *)
(***************************************************************************)
LEMMA ActionMoves ==
  ASSUME Base, Len(posts) \in Nat, NEW c \in Conns,
         \/ Accept(c) \/ Enqueue(c) \/ BadRequest(c) \/ GetRequest(c) \/ DataBehind(c)
         \/ \E n \in Sizes : PostRequest(c, n)
         \/ PostData(c) \/ Sent(c) \/ Poll(c) \/ PeerClose(c) \/ Abort(c)
  PROVE  Moves(c)
<1> DEFINE r == conn[c]
<1>t. ConnsOK /\ inuse \in Nat /\ untidy \in BOOLEAN /\ pbufs \in Nat
  BY Bounds DEF Base, FilesOK, HeldOK
<1>r. /\ r \in Record /\ Good(r)
      /\ r.open \in BOOLEAN /\ r.handle \in BOOLEAN /\ r.req \in Nat
      /\ r.left \in Nat /\ r.post \in Nat
      /\ r.todo \in Nat /\ r.unacked \in Nat
      /\ r.open \/ r = Closed
      /\ r.left > 0 => r.req = 0 /\ ~r.handle /\ r.todo = 0 /\ r.unacked = 0
      /\ r.todo + r.unacked =< MaxChunks
  BY <1>t, ConnFacts
<1>o. ASSUME ~r.open
      PROVE  r.unacked = 0 /\ r.left = 0
  BY <1>r, <1>o, ClosedIsGood
<1>1. CASE Accept(c)
  <2> DEFINE x == [Closed EXCEPT !.open = TRUE]
  <2>1. /\ x.open /\ x.left = 0 /\ ~x.handle /\ x.req = 0
        /\ x.todo = 0 /\ x.unacked = 0
    BY DEF Closed
  <2>2. x \in Record /\ Good(x)
    <3>1. x \in Record
      BY ClosedIsGood DEF Record
    <3> HIDE DEF x
    <3> QED
      BY <2>1, <3>1, Bounds DEF Good
  <2>3. r = Closed
    BY <1>r, <1>1 DEF Accept
  <2>4. ~x.handle /\ ~r.handle /\ x.req = 0 /\ r.req = 0
    BY <2>1, <2>3, ClosedIsGood
  <2>5. FileMove(c, x) /\ ReqMove(c, x)
    BY <1>1, <2>4 DEF FileMove, ReqMove, Accept
  <2>6. Becomes(c, x)
    BY <1>1, <2>2 DEF Becomes, Accept
  <2> QED
    BY <2>5, <2>6 DEF Moves
<1>2. CASE Enqueue(c)
  <2> DEFINE x == [r EXCEPT !.req = r.req + 1]
  <2>1. r.open /\ r.left = 0
    BY <1>2 DEF Enqueue, Parsing
  <2>2. x \in Record
    <3>1. r.req \in Nat
      BY <1>r
    <3>2. r.req + 1 \in Nat
      BY <3>1
    <3> QED
      BY <1>r, <3>2 DEF Record
  <2>3. /\ x.open = r.open /\ x.handle = r.handle /\ x.left = r.left /\ x.req = r.req + 1
        /\ x.todo = r.todo /\ x.unacked = r.unacked
    BY <1>r DEF Record
  <2>4. conn' = [conn EXCEPT ![c] = x]
    BY <1>2 DEF Enqueue
  <2> HIDE DEF x
  <2>5. Good(x)
    BY <1>r, <2>1, <2>3 DEF Good
  <2>6. FileMove(c, x) /\ ReqMove(c, x)
    BY <1>2, <2>3 DEF FileMove, ReqMove, Enqueue, Parsing
  <2> QED
    BY <2>2, <2>4, <2>5, <2>6 DEF Moves, Becomes
<1>3. CASE BadRequest(c)
  <2>1. /\ conn' = [conn EXCEPT ![c] = Closed] /\ pbufs' = pbufs - r.req
        /\ inuse' = IF [r EXCEPT !.req = 0].handle THEN inuse - 1 ELSE inuse
        /\ untidy' = (untidy \/ [r EXCEPT !.req = 0].req > 0)
    BY <1>3 DEF BadRequest, Free, Freed
  <2>2. [r EXCEPT !.req = 0].handle = r.handle /\ [r EXCEPT !.req = 0].req = 0 /\ ~r.handle
    BY <1>3, <1>r DEF Record, BadRequest, Parsing
  <2>3. FileMove(c, Closed) /\ ReqMove(c, Closed)
    BY <1>t, <2>1, <2>2, ClosedIsGood DEF FileMove, ReqMove
  <2> QED
    BY <2>1, <2>3, ClosedIsGood DEF Moves, Becomes
<1>4. CASE GetRequest(c)
  <2> DEFINE x == [r EXCEPT !.req = 0]
  <2>1. r.open /\ r.left = 0 /\ ~r.handle /\ r.todo = 0 /\ r.unacked = 0
    BY <1>4 DEF GetRequest, Unanswered, Parsing
  <2>2. x \in Record
    BY <1>r DEF Record
  <2>3. /\ x.open = r.open /\ x.handle = r.handle /\ x.left = r.left /\ x.req = 0
        /\ x.todo = r.todo /\ x.unacked = r.unacked
    BY <1>r DEF Record
  <2>4. PICK found \in BOOLEAN : Reply(c, x, found)
    BY <1>4 DEF GetRequest
  <2>5. pbufs' = pbufs - conn[c].req
    BY <1>4 DEF GetRequest, Freed
  <2> HIDE DEF x
  <2> QED
    BY <1>t, <2>1, <2>2, <2>3, <2>4, <2>5, ReplyMoves
<1>5. CASE DataBehind(c)
  <2>1. conn' = [conn EXCEPT ![c] = r]
    BY <1>5, <1>t DEF DataBehind, ConnsOK
  <2>2. FileMove(c, r) /\ ReqMove(c, r)
    BY <1>5 DEF DataBehind, FileMove, ReqMove
  <2> QED
    BY <1>r, <2>1, <2>2 DEF Moves, Becomes
<1>6. ASSUME NEW n \in Sizes, PostRequest(c, n)
      PROVE  Moves(c)
  <2> DEFINE x == [r EXCEPT !.req = 0, !.post = Len(posts) + 1, !.left = n, !.cgi = TRUE]
  <2>1. r.open /\ r.left = 0 /\ ~r.handle /\ r.todo = 0 /\ r.unacked = 0 /\ Len(posts) < MaxPosts
    BY <1>6 DEF PostRequest, Unanswered, Parsing
  <2>2. n \in Nat \ {0} /\ pbufs' = pbufs - r.req
    BY <1>6, Bounds DEF PostRequest, Freed
  <2>3. \/ /\ conn' = [conn EXCEPT ![c] = x]
           /\ UNCHANGED <<inuse, untidy>>
        \/ PostBody(c, x, Begun(n))
    BY <1>6 DEF PostRequest
  <2>4. CASE Len(posts) + 1 \in Nat
    <3>1. x \in Record
      BY <1>r, <2>2, <2>4 DEF Record
    <3>2. /\ x.open = r.open /\ x.handle = r.handle /\ x.left = n /\ x.req = 0
          /\ x.todo = r.todo /\ x.unacked = r.unacked
      BY <1>r DEF Record
    <3> HIDE DEF x
    <3>3. CASE conn' = [conn EXCEPT ![c] = x] /\ UNCHANGED <<inuse, untidy>>
      <4>1. Becomes(c, x)
        BY <2>1, <3>1, <3>2, <3>3, Bounds DEF Becomes, Good
      <4>2. FileMove(c, x) /\ ReqMove(c, x)
        BY <2>1, <2>2, <3>2, <3>3 DEF FileMove, ReqMove
      <4> QED
        BY <4>1, <4>2 DEF Moves
    <3>4. CASE PostBody(c, x, Begun(n))
      <4>1. PICK ps : ps = Begun(n)
        OBVIOUS
      <4>2. PostBody(c, x, ps)
        BY <3>4, <4>1
      <4>3. x.open /\ x.left > 0 /\ ~x.handle /\ x.req = 0 /\ x.todo = 0 /\ x.unacked = 0
        BY <2>1, <2>2, <3>2
      <4> QED
        BY <1>t, <2>1, <2>2, <3>1, <4>2, <4>3, BodyMoves
    <3> QED
      BY <2>3, <3>3, <3>4
  <2> QED
    BY <2>4
<1>7. CASE PostData(c)
  <2> DEFINE x == [r EXCEPT !.retries = 0]
  <2>1. PostBody(c, x, posts) /\ pbufs' = pbufs
    BY <1>7 DEF PostData
  <2>2. x \in Record
    <3>1. 0 \in 0 .. MaxRetries - 1 /\ r \in Record
      BY <1>r, Bounds
    <3> QED
      BY <3>1 DEF Record
  <2>3. /\ x.open = r.open /\ x.handle = r.handle /\ x.left = r.left /\ x.req = r.req
        /\ x.todo = r.todo /\ x.unacked = r.unacked
    BY <1>r DEF Record
  <2> HIDE DEF x
  <2>4. r.left > 0 /\ r.req = 0
    <3>1. PICK k \in 1 .. x.left : TRUE
      BY <2>1 DEF PostBody
    <3> QED
      BY <1>r, <2>3, <3>1
  <2> QED
    <3>1. x.open /\ x.left > 0 /\ ~x.handle /\ x.req = 0 /\ x.todo = 0 /\ x.unacked = 0 /\ ~r.handle
      BY <1>r, <1>o, <2>3, <2>4
    <3> QED
      BY <1>t, <2>1, <2>2, <2>4, <3>1, BodyMoves
<1>8. CASE Sent(c)
  <2>1. PICK a \in 1 .. r.unacked :
          Send(c, [r EXCEPT !.retries = 0, !.unacked = @ - a], inuse)
    BY <1>8 DEF Sent
  <2> DEFINE x == [r EXCEPT !.retries = 0, !.unacked = r.unacked - a]
  <2>2. x = [r EXCEPT !.retries = 0, !.unacked = @ - a]
    OBVIOUS
  <2>3. r.unacked - a \in Nat /\ 0 \in 0 .. MaxRetries - 1 /\ r.unacked > 0
    <3>1. \A u \in Nat : \A k \in 1 .. u : u - k \in Nat /\ u > 0
      OBVIOUS
    <3>2. 0 \in 0 .. MaxRetries - 1
      BY Bounds
    <3> HIDE DEF x
    <3> QED
      BY <1>r, <3>1, <3>2
  <2>4. x \in Record
    BY <1>r, <2>3 DEF Record
  <2>5. /\ x.open = r.open /\ x.handle = r.handle /\ x.left = r.left /\ x.req = r.req
        /\ x.todo = r.todo /\ x.unacked = r.unacked - a
    BY <1>r DEF Record
  <2>6. Send(c, x, inuse) /\ pbufs' = pbufs
    BY <1>8, <2>1, <2>2 DEF Sent
  <2> HIDE DEF x
  <2>7. x.todo + x.unacked =< MaxChunks
    BY <1>r, <2>5, Bounds
  <2>8. x.open /\ x.left = 0
    BY <1>r, <1>o, <2>3, <2>5
  <2> QED
    BY <1>t, <2>4, <2>5, <2>6, <2>7, <2>8, SendMoves
<1>9. CASE Poll(c)
  <2> DEFINE x == [r EXCEPT !.retries = @ + 1]
  <2>1. r.open /\ pbufs' = pbufs /\ x = Idle(c)
    BY <1>9 DEF Poll, Idle
  <2>2. CASE CloseConn(c)
    BY <1>t, <2>1, <2>2, FreeMoves DEF CloseConn
  <2>3. CASE \/ x.retries < MaxRetries /\ r.handle /\ Send(c, x, inuse)
             \/ x.retries < MaxRetries /\ ~r.handle /\ conn' = [conn EXCEPT ![c] = x]
                                       /\ UNCHANGED <<inuse, untidy>>
    <3>1. r.retries \in Nat /\ x.retries = r.retries + 1
      BY <1>r, Bounds DEF Record
    <3>2. r.retries + 1 \in 0 .. MaxRetries - 1
      BY <2>3, <3>1, Bounds, SMTT(30)
    <3>3. x \in Record
      BY <1>r, <3>2 DEF Record
    <3>4. /\ x.open = r.open /\ x.handle = r.handle /\ x.left = r.left /\ x.req = r.req
          /\ x.todo = r.todo /\ x.unacked = r.unacked
      BY <1>r DEF Record
    <3> HIDE DEF x
    <3>5. CASE r.handle /\ Send(c, x, inuse)
      <4>1. x.open /\ x.left = 0 /\ x.todo + x.unacked =< MaxChunks
        BY <1>r, <2>1, <3>4, <3>5
      <4> QED
        BY <1>t, <2>1, <3>3, <3>4, <3>5, <4>1, SendMoves
    <3>6. CASE ~r.handle /\ conn' = [conn EXCEPT ![c] = x] /\ UNCHANGED <<inuse, untidy>>
      <4>1. Becomes(c, x)
        BY <1>r, <2>1, <3>3, <3>4, <3>6 DEF Becomes, Good
      <4>2. FileMove(c, x) /\ ReqMove(c, x)
        BY <2>1, <3>4, <3>6 DEF FileMove, ReqMove
      <4> QED
        BY <4>1, <4>2 DEF Moves
    <3> QED
      BY <2>3, <3>5, <3>6
  <2>4. \/ CloseConn(c)
        \/ x.retries < MaxRetries /\ r.handle /\ Send(c, x, inuse)
        \/ x.retries < MaxRetries /\ ~r.handle /\ conn' = [conn EXCEPT ![c] = x]
                                  /\ UNCHANGED <<inuse, untidy>>
    BY <1>9 DEF Poll, Idle
  <2> HIDE DEF x
  <2> QED
    BY <2>2, <2>3, <2>4
<1>10. CASE PeerClose(c) \/ Abort(c)
  BY <1>10, <1>t, FreeMoves DEF PeerClose, Abort, CloseConn
<1> QED
  BY <1>1, <1>2, <1>3, <1>4, <1>5, <1>6, <1>7, <1>8, <1>9, <1>10

LEMMA ConnsMove ==
  ASSUME ConnsOK, NEW c \in Conns, NEW x, Becomes(c, x)
  PROVE  ConnsOK' /\ \A d \in Conns : conn'[d] = IF d = c THEN x ELSE conn[d]
<1> QED
  BY DEF ConnsOK, Becomes

\* Open files and entries in use are counted alike.
LEMMA FilesMove ==
  ASSUME ConnsOK, FilesOK, NEW c \in Conns, NEW x, Becomes(c, x), FileMove(c, x)
  PROVE  FilesOK'
<1> DEFINE F == {d \in Conns : conn[d].handle}
<1>1. \A d \in Conns : conn'[d] = IF d = c THEN x ELSE conn[d]
  BY ConnsMove
<1>2. IsFiniteSet(F) /\ inuse = Cardinality(F) /\ inuse \in 0 .. MaxOpen /\ MaxOpen \in Nat
  BY FS_Subset, Bounds DEF FilesOK, FilesAccounted
<1>3. F' = IF x.handle THEN F \cup {c} ELSE F \ {c}
  BY <1>1
<1>4. c \in F <=> conn[c].handle
  OBVIOUS
<1> HIDE DEF F
<1>5. inuse' = Cardinality(F') /\ inuse' \in 0 .. MaxOpen
  <2>1. CASE (x.handle <=> conn[c].handle) /\ inuse' = inuse
    <3>1. F' = F
      BY <1>3, <1>4, <2>1
    <3> QED
      BY <1>2, <2>1, <3>1
  <2>2. CASE x.handle /\ ~conn[c].handle /\ inuse' = inuse + 1 /\ CanOpen
    <3>1. Cardinality(F \cup {c}) = Cardinality(F) + 1
      BY <1>2, <1>4, <2>2, FS_AddElement
    <3> QED
      BY <1>2, <1>3, <2>2, <3>1 DEF CanOpen
  <2>3. CASE ~x.handle /\ conn[c].handle /\ inuse' = inuse - 1
    <3>1. Cardinality(F \ {c}) = Cardinality(F) - 1 /\ Cardinality(F \ {c}) \in Nat
      BY <1>2, <1>4, <2>3, FS_RemoveElement, FS_CardinalityType
    <3> QED
      BY <1>2, <1>3, <2>3, <3>1
  <2> QED
    BY <2>1, <2>2, <2>3 DEF FileMove
<1> QED
  BY <1>5 DEF F, FilesOK, FilesAccounted

LEMMA UpTo ==
  ASSUME NEW n \in Nat
  PROVE  IsFiniteSet(1 .. n) /\ Cardinality(1 .. n) = n
<1>1. 1 \in Int /\ n \in Int
  OBVIOUS
<1> QED
  BY <1>1, FS_Interval

\* The pbufs of one connection's request.
LEMMA HeldBy ==
  ASSUME ConnsOK, HeldOK, NEW c \in Conns
  PROVE  LET H == {c} \X (1 .. conn[c].req) IN
         /\ H \subseteq Held /\ IsFiniteSet(Held) /\ Cardinality(Held) \in Nat
         /\ Cardinality(Held \ H) = Cardinality(Held) - conn[c].req
         /\ conn[c].req =< Cardinality(Held)
<1> DEFINE n == conn[c].req
           H == {c} \X (1 .. n)
<1>1. n \in Nat /\ n =< Pool /\ Pool \in Nat
  BY ConnFacts, Bounds DEF HeldOK
<1>2. IsFiniteSet(Conns \X (1 .. Pool))
  BY <1>1, UpTo, FS_Product, Bounds
<1>3. IsFiniteSet(Held) /\ Cardinality(Held) \in Nat
  BY <1>2, FS_Subset, FS_CardinalityType DEF Held
<1>4. H \subseteq Held
  BY <1>1 DEF Held
<1>5. Cardinality(H) = n
  <2>1. IsFiniteSet({c}) /\ Cardinality({c}) = 1
    BY FS_Singleton
  <2>2. IsFiniteSet(1 .. n) /\ Cardinality(1 .. n) = n
    BY <1>1, UpTo
  <2>3. Cardinality(H) = 1 * n
    <3>1. Cardinality({c} \X (1 .. n)) = Cardinality({c}) * Cardinality(1 .. n)
      BY <2>1, <2>2, FS_Product, Zenon
    <3> QED
      BY <2>1, <2>2, <3>1
  <2> QED
    BY <1>1, <2>3
<1> HIDE DEF H
<1>6. Held \cap H = H
  BY <1>4
<1>7. Cardinality(Held \ H) = Cardinality(Held) - n /\ Cardinality(Held \ H) \in Nat
  <2>1. IsFiniteSet(Held \ H) /\ Cardinality(Held \ H) = Cardinality(Held) - Cardinality(Held \cap H)
    BY <1>3, FS_Difference
  <2>2. Cardinality(Held \ H) \in Nat
    BY <2>1, FS_CardinalityType
  <2> QED
    BY <1>5, <1>6, <2>1, <2>2
<1> QED
  BY <1>1, <1>3, <1>4, <1>7 DEF H

LEMMA HeldMove ==
  ASSUME ConnsOK, HeldOK, NEW c \in Conns, NEW x, Becomes(c, x), ReqMove(c, x)
  PROVE  HeldOK'
<1> DEFINE n == conn[c].req
           H == {c} \X (1 .. n)
<1>1. \A d \in Conns : conn'[d] = IF d = c THEN x ELSE conn[d]
  BY ConnsMove
<1>2. /\ n \in Nat /\ n =< Cardinality(Held) /\ IsFiniteSet(Held) /\ Cardinality(Held) \in Nat
      /\ Cardinality(Held \ H) = Cardinality(Held) - n
  BY HeldBy, ConnFacts
<1>3. /\ pbufs \in 0 .. Pool /\ Cardinality(Held) =< pbufs /\ Pool \in Nat /\ n =< Pool
      /\ untidy \in BOOLEAN /\ (~untidy => pbufs = Cardinality(Held))
  BY Bounds DEF HeldOK, PbufsReturned
<1>4. \A d \in Conns : conn'[d].req =< Pool <=> (d = c => x.req =< Pool)
  BY <1>1, <1>3 DEF HeldOK
<1>5. SUFFICES /\ pbufs' \in 0 .. Pool /\ untidy' \in BOOLEAN /\ x.req =< Pool
               /\ Cardinality(Held') =< pbufs'
               /\ ~untidy' => pbufs' = Cardinality(Held')
  BY <1>4, Zenon DEF HeldOK, PbufsReturned
<1>6. \A h : h \in Held' <=> /\ h \in Conns \X (1 .. Pool)
                             /\ h[2] =< IF h[1] = c THEN x.req ELSE conn[h[1]].req
  BY <1>1 DEF Held
<1>7. \A h : h \in Held <=> h \in Conns \X (1 .. Pool) /\ h[2] =< conn[h[1]].req
  BY DEF Held
<1>8. x.req = n => Held' = Held
  BY <1>6, <1>7
<1>9. x.req = 0 => Held' = Held \ H
  <2> SUFFICES ASSUME x.req = 0, NEW h PROVE h \in Held' <=> h \in Held \ H
    OBVIOUS
  <2>1. CASE h \notin Conns \X (1 .. Pool)
    BY <1>6, <1>7, <2>1
  <2>2. CASE h \in Conns \X (1 .. Pool)
    <3>1. h[2] \in 1 .. Pool /\ h = <<h[1], h[2]>> /\ h[1] \in Conns
      BY <2>2
    <3>2. h \in H <=> h[1] = c /\ h[2] =< n
      BY <1>2, <1>3, <3>1
    <3> QED
      BY <1>3, <1>6, <1>7, <2>2, <3>1, <3>2
  <2> QED
    BY <2>1, <2>2
<1>10. CASE x.req = n /\ pbufs' = pbufs /\ untidy' = untidy
  BY <1>3, <1>8, <1>10
<1>11. CASE x.req = n + 1 /\ pbufs' = pbufs + 1 /\ pbufs < Pool /\ untidy' = untidy
  <2>1. n + 1 =< Pool
    BY <1>2, <1>3, <1>11
  <2>2. Held' = Held \cup {<<c, n + 1>>}
    <3> SUFFICES ASSUME NEW h PROVE h \in Held' <=> h \in Held \/ h = <<c, n + 1>>
      OBVIOUS
    <3>1. CASE h \notin Conns \X (1 .. Pool)
      BY <1>2, <1>6, <1>7, <2>1, <3>1
    <3>2. CASE h \in Conns \X (1 .. Pool)
      <4>1. h[2] \in 1 .. Pool /\ h = <<h[1], h[2]>> /\ h[1] \in Conns
        BY <3>2
      <4>2. h = <<c, n + 1>> <=> h[1] = c /\ h[2] = n + 1
        BY <4>1
      <4>3. h[2] =< n + 1 <=> h[2] =< n \/ h[2] = n + 1
        BY <1>2, <1>3, <4>1
      <4> QED
        BY <1>6, <1>7, <1>11, <3>2, <4>2, <4>3
    <3> QED
      BY <3>1, <3>2
  <2>3. <<c, n + 1>> \notin Held
    BY <1>2, <1>7
  <2>4. Cardinality(Held') = Cardinality(Held) + 1
    BY <1>2, <2>2, <2>3, FS_AddElement
  <2>5. pbufs' \in 0 .. Pool /\ Cardinality(Held') =< pbufs'
    BY <1>2, <1>3, <1>11, <2>4
  <2>6. ~untidy' => pbufs' = Cardinality(Held')
    BY <1>3, <1>11, <2>4
  <2> QED
    BY <1>3, <1>11, <2>1, <2>5, <2>6
<1>12. CASE x.req = 0 /\ pbufs' = pbufs - n /\ untidy' = untidy
  BY <1>2, <1>3, <1>9, <1>12
<1>13. CASE x.req = 0 /\ pbufs' = pbufs /\ untidy' = (untidy \/ n > 0)
  <2>1. Cardinality(Held') = Cardinality(Held) - n
    BY <1>2, <1>9, <1>13
  <2>2. untidy' \in BOOLEAN /\ (~untidy' => ~untidy /\ n = 0)
    <3>1. ~untidy' => ~untidy /\ ~ (n > 0)
      BY <1>13, Zenon
    <3> QED
      BY <1>2, <1>13, <3>1
  <2> QED
    BY <1>2, <1>3, <1>13, <2>1, <2>2
<1>14. CASE x.req = n /\ pbufs' = pbufs + 1 /\ pbufs < Pool /\ untidy' = TRUE
  BY <1>2, <1>3, <1>8, <1>14
<1> QED
  BY <1>10, <1>11, <1>12, <1>13, <1>14 DEF ReqMove
-----------------------------------------------------------------------------
(***************************************************************************)
(* The buffer.                                                             *)
(***************************************************************************)

\* The buffer tx after m units, those of POST p behind the first b ones, have
\* been copied to place ln.
Run(p, b, m) == [i \in 1 .. m |-> <<p, b + i>>]
Copy(tx, ln, p, b, m) == SubSeq(tx, 1, ln) \o Run(p, b, m) \o SubSeq(tx, ln + m + 1, Len(tx))

LEMMA CopyValues ==
  ASSUME NEW tx \in Seq(Unit), NEW ln \in 0 .. Len(tx),
         NEW p \in Nat, NEW b \in Nat, NEW m \in Nat, NEW w, w = Copy(tx, ln, p, b, m)
  PROVE  /\ w \in Seq(Unit)
         /\ Len(w) = IF ln + m =< Len(tx) THEN Len(tx) ELSE ln + m
         /\ \A i \in 1 .. ln : w[i] = tx[i]
         /\ \A i \in 1 .. m : w[ln + i] = Run(p, b, m)[i] /\ Run(p, b, m)[i] = <<p, b + i>>
         /\ \A i \in ln + m + 1 .. Len(tx) : w[i] = tx[i]
<1> DEFINE front == SubSeq(tx, 1, ln)
           run   == Run(p, b, m)
           back  == SubSeq(tx, ln + m + 1, Len(tx))
<1>1. Len(tx) \in Nat /\ ln \in Nat /\ ln =< Len(tx)
  BY LenProperties
<1>2. \A i \in 1 .. Len(tx) : tx[i] \in Unit
  BY ElementOfSeq
<1>3. /\ front \in Seq(Unit) /\ Len(front) = ln
      /\ \A i \in 1 .. ln : front[i] = tx[i]
  BY <1>1, <1>2, SubSeqProperties
<1>4. /\ run \in Seq(Unit) /\ Len(run) = m
      /\ \A i \in 1 .. m : run[i] = <<p, b + i>>
  BY DEF Run, Unit
<1>5. /\ back \in Seq(Unit) /\ Len(back) = IF ln + m =< Len(tx) THEN Len(tx) - (ln + m) ELSE 0
      /\ \A i \in 1 .. Len(tx) - (ln + m) : back[i] = tx[ln + m + i]
  <2>1. \A i \in ln + m + 1 .. Len(tx) : tx[i] \in Unit
    BY <1>1, <1>2
  <2>2. ln + m + 1 \in Int /\ Len(tx) \in Int
    BY <1>1
  <2>3. /\ back \in Seq(Unit)
        /\ Len(back) = IF ln + m + 1 =< Len(tx) THEN Len(tx) - (ln + m + 1) + 1 ELSE 0
        /\ \A i \in 1 .. Len(tx) - (ln + m + 1) + 1 : back[i] = tx[(ln + m + 1) + i - 1]
    BY <2>1, <2>2, SubSeqProperties, SMTT(30)
  <2> HIDE DEF back
  <2>4. Len(tx) - (ln + m + 1) + 1 = Len(tx) - (ln + m)
    BY <1>1
  <2>5. \A i \in Int : (ln + m + 1) + i - 1 = ln + m + i
    BY <1>1
  <2>6. Len(back) = IF ln + m =< Len(tx) THEN Len(tx) - (ln + m) ELSE 0
    <3>1. ln + m + 1 =< Len(tx) \/ ~ (ln + m + 1 =< Len(tx))
      OBVIOUS
    <3>2. ln + m + 1 =< Len(tx) => Len(back) = Len(tx) - (ln + m) /\ ln + m =< Len(tx)
      BY <1>1, <2>3, <2>4
    <3>3. ~ (ln + m + 1 =< Len(tx)) => Len(back) = 0 /\ (ln + m =< Len(tx) => ln + m = Len(tx))
      BY <1>1, <2>3
    <3> QED
      BY <1>1, <3>1, <3>2, <3>3
  <2>7. ASSUME NEW i \in 1 .. Len(tx) - (ln + m)
        PROVE  back[i] = tx[ln + m + i]
    <3>1. i \in 1 .. Len(tx) - (ln + m + 1) + 1 /\ i \in Int
      BY <2>4
    <3>2. back[i] = tx[(ln + m + 1) + i - 1]
      BY <2>3, <3>1
    <3> QED
      BY <2>5, <3>1, <3>2
  <2> QED
    BY <2>3, <2>6, <2>7
<1> HIDE DEF front, run, back
<1>6. /\ front \o run \in Seq(Unit) /\ Len(front \o run) = ln + m
      /\ \A i \in 1 .. ln + m :
           (front \o run)[i] = IF i =< ln THEN front[i] ELSE run[i - ln]
  BY <1>3, <1>4, ConcatProperties
<1>7. /\ (front \o run) \o back \in Seq(Unit)
      /\ Len((front \o run) \o back) = ln + m + Len(back)
      /\ \A i \in 1 .. ln + m + Len(back) :
           ((front \o run) \o back)[i] = IF i =< ln + m THEN (front \o run)[i] ELSE back[i - (ln + m)]
  <2> DEFINE head == front \o run
  <2>1. head \in Seq(Unit) /\ back \in Seq(Unit) /\ Len(head) = ln + m
    BY <1>5, <1>6
  <2> HIDE DEF head
  <2>2. /\ head \o back \in Seq(Unit) /\ Len(head \o back) = Len(head) + Len(back)
        /\ \A i \in 1 .. Len(head) + Len(back) :
             (head \o back)[i] = IF i =< Len(head) THEN head[i] ELSE back[i - Len(head)]
    BY <2>1, ConcatProperties
  <2> QED
    BY <2>1, <2>2, Zenon DEF head
<1>8. w = (front \o run) \o back
  BY DEF Copy, front, run, back
<1>9. Len(back) \in Nat
  BY <1>5, LenProperties
<1>10. Len(w) = IF ln + m =< Len(tx) THEN Len(tx) ELSE ln + m
  <2>1. Len(w) = ln + m + Len(back)
    BY <1>7, <1>8
  <2>2. CASE ln + m =< Len(tx)
    BY <1>1, <1>5, <2>1, <2>2
  <2>3. CASE ~ (ln + m =< Len(tx))
    BY <1>1, <1>5, <2>1, <2>3
  <2> QED
    BY <2>2, <2>3
<1>11. ASSUME NEW i \in 1 .. ln
       PROVE  w[i] = tx[i]
  <2>1. i \in 1 .. ln + m + Len(back) /\ i =< ln + m /\ i \in 1 .. ln + m /\ i =< ln
    BY <1>1, <1>9
  <2> QED
    BY <1>3, <1>6, <1>7, <1>8, <2>1
<1>12. ASSUME NEW i \in 1 .. m
       PROVE  w[ln + i] = Run(p, b, m)[i] /\ Run(p, b, m)[i] = <<p, b + i>>
  <2>1. /\ ln + i \in 1 .. ln + m + Len(back) /\ ln + i =< ln + m /\ ln + i \in 1 .. ln + m
        /\ ~ (ln + i =< ln) /\ (ln + i) - ln = i
    BY <1>1, <1>9
  <2> QED
    BY <1>4, <1>6, <1>7, <1>8, <2>1 DEF run
<1>13. ASSUME NEW i \in ln + m + 1 .. Len(tx)
       PROVE  w[i] = tx[i]
  <2> DEFINE j == i - (ln + m)
  <2>1. /\ i \in 1 .. ln + m + Len(back) /\ ~ (i =< ln + m)
        /\ j \in 1 .. Len(tx) - (ln + m) /\ ln + m + j = i
    <3>1. ln + m =< Len(tx)
      BY <1>1
    <3>2. Len(back) = Len(tx) - (ln + m)
      BY <1>5, <3>1
    <3> QED
      BY <1>1, <3>1, <3>2
  <2>2. w[i] = back[j]
    BY <1>7, <1>8, <2>1
  <2> HIDE DEF j
  <2> QED
    BY <1>5, <2>1, <2>2
<1> QED
  BY <1>7, <1>8, <1>10, <1>11, <1>12, <1>13

\* Where a unit of the buffer comes from.
LEMMA CopyFrom ==
  ASSUME NEW tx \in Seq(Unit), NEW ln \in 0 .. Len(tx),
         NEW p \in Nat, NEW b \in Nat, NEW m \in Nat,
         NEW w, w = Copy(tx, ln, p, b, m), NEW i \in DOMAIN w
  PROVE  \/ i \in DOMAIN tx /\ w[i] = tx[i]
         \/ i - ln \in 1 .. m /\ w[i] = <<p, b + (i - ln)>>
<1>1. Len(tx) \in Nat /\ DOMAIN tx = 1 .. Len(tx) /\ ln \in Nat /\ ln =< Len(tx)
  BY LenProperties
<1>2. /\ w \in Seq(Unit)
      /\ Len(w) = IF ln + m =< Len(tx) THEN Len(tx) ELSE ln + m
      /\ \A j \in 1 .. ln : w[j] = tx[j]
      /\ \A j \in ln + m + 1 .. Len(tx) : w[j] = tx[j]
      /\ \A j \in 1 .. m : w[ln + j] = Run(p, b, m)[j] /\ Run(p, b, m)[j] = <<p, b + j>>
  BY CopyValues, SMTT(40)
<1>a. ASSUME NEW j \in 1 .. m
      PROVE  w[ln + j] = <<p, b + j>>
  BY <1>2
<1>3. i \in 1 .. Len(w)
  BY <1>2, LenProperties
<1>4. CASE i =< ln
  BY <1>1, <1>2, <1>3, <1>4
<1>5. CASE i > ln /\ i =< ln + m
  <2>1. i - ln \in 1 .. m /\ ln + (i - ln) = i
    BY <1>1, <1>3, <1>5
  <2>2. w[ln + (i - ln)] = <<p, b + (i - ln)>>
    BY <1>a, <2>1
  <2> QED
    BY <2>1, <2>2
<1>6. CASE i > ln + m
  <2>1. i \in ln + m + 1 .. Len(tx)
    BY <1>1, <1>2, <1>3, <1>6
  <2> QED
    BY <1>1, <1>2, <2>1
<1> QED
  BY <1>1, <1>3, <1>4, <1>5, <1>6

\* Copying units that are nowhere yet.
LEMMA CopyOnce ==
  ASSUME NEW cn, NEW ps, NEW tx \in Seq(Unit), NEW ln \in 0 .. Len(tx),
         NEW p \in Nat, NEW b \in Nat, NEW m \in Nat, NEW w, w = Copy(tx, ln, p, b, m),
         Places(cn, tx, ps), Once(tx, ps), \A k \in Nat \ {0} : ~Received(<<p, b + k>>, cn, ps)
  PROVE  Once(w, ps)
<1>1. ASSUME NEW i \in DOMAIN w
      PROVE  \/ i \in DOMAIN tx /\ w[i] = tx[i] /\ Received(w[i], cn, ps)
             \/ i - ln \in Nat \ {0} /\ w[i] = <<p, b + (i - ln)>> /\ ~Received(w[i], cn, ps)
  <2>1. \/ i \in DOMAIN tx /\ w[i] = tx[i]
        \/ i - ln \in 1 .. m /\ w[i] = <<p, b + (i - ln)>>
    BY CopyFrom
  <2>2. CASE i \in DOMAIN tx /\ w[i] = tx[i]
    BY <2>2 DEF Places
  <2>3. CASE i - ln \in 1 .. m /\ w[i] = <<p, b + (i - ln)>>
    <3> PICK k : k = i - ln
      OBVIOUS
    <3>1. k \in Nat \ {0} /\ w[i] = <<p, b + k>>
      BY <2>3
    <3>2. ~Received(<<p, b + k>>, cn, ps)
      BY <3>1
    <3> QED
      BY <3>1, <3>2
  <2> QED
    BY <2>1, <2>2, <2>3
<1>2. DOMAIN w \subseteq Nat /\ ln \in Nat
  <2>1. w \in Seq(Unit)
    BY CopyValues
  <2> QED
    BY <2>1, LenProperties
<1>3. ASSUME NEW i \in DOMAIN w, NEW j \in DOMAIN w, w[i] = w[j]
      PROVE  i = j
  <2>1. CASE Received(w[i], cn, ps)
    BY <1>1, <1>3, <2>1 DEF Once
  <2>2. CASE ~Received(w[i], cn, ps)
    <3>1. w[i] = <<p, b + (i - ln)>> /\ w[j] = <<p, b + (j - ln)>> /\ i - ln \in Nat /\ j - ln \in Nat
      BY <1>1, <1>3, <2>2
    <3>2. w[i][2] = b + (i - ln) /\ w[j][2] = b + (j - ln)
      BY <3>1
    <3>3. i \in Nat /\ j \in Nat /\ i - ln = j - ln
      <4>1. \A x, y \in Nat : b + x = b + y => x = y
        OBVIOUS
      <4> QED
        BY <1>2, <1>3, <3>1, <3>2, <4>1
    <3>4. \A x, y, z \in Nat : x - z = y - z => x = y
      OBVIOUS
    <3> QED
      BY <1>2, <3>3, <3>4
  <2> QED
    BY <2>1, <2>2
<1>4. ASSUME NEW q \in DOMAIN ps, NEW i \in DOMAIN w, NEW j \in DOMAIN ps[q].given
      PROVE  w[i] # ps[q].given[j]
  <2>1. Received(ps[q].given[j], cn, ps)
    BY DEF Places
  <2> QED
    BY <1>1, <2>1 DEF Once
<1> QED
  BY <1>3, <1>4, Zenon DEF Once

\* A POST in progress has no unit received beyond what is counted.
Counts(cn) == \A c \in Conns : cn[c].left \in Nat /\ cn[c].post \in Nat

LEMMA SizeOf ==
  ASSUME NEW ps \in Seq(Post), NEW p \in DOMAIN ps
  PROVE  /\ ps[p].size \in Nat \ {0} /\ ps[p].given \in Seq(Unit) /\ ps[p].alone \in BOOLEAN
         /\ p \in Nat \ {0} /\ p =< Len(ps) /\ Len(ps) \in Nat /\ DOMAIN ps = 1 .. Len(ps)
<1>1. ps[p] \in Post
  BY ElementOfSeq, LenProperties
<1>2. Len(ps) \in Nat /\ DOMAIN ps = 1 .. Len(ps)
  BY LenProperties
<1> QED
  BY <1>1, <1>2 DEF Post

\* Whatever left the progress of some POSTs behind: what had been received still
\* has been.
Shrinks(cn, dn, ps) ==
  \A c \in Conns : /\ dn[c].post =< Len(ps)
                   /\ dn[c].left > 0 => dn[c].left =< cn[c].left /\ dn[c].post = cn[c].post

LEMMA ReceivedStays ==
  ASSUME NEW cn, NEW dn, NEW ps \in Seq(Post), NEW u \in Unit,
         Counts(cn), Counts(dn), Shrinks(cn, dn, ps), Received(u, cn, ps)
  PROVE  Received(u, dn, ps)
<1>1. u[1] \in DOMAIN ps
  BY DEF Received
<1>2. ps[u[1]].size \in Nat /\ u[2] \in Nat
  BY <1>1, SizeOf DEF Unit
<1>3. ASSUME NEW c \in Conns, dn[c].left > 0, dn[c].post = u[1]
      PROVE  u[2] =< ps[u[1]].size - dn[c].left
  <2>1. cn[c].left \in Nat /\ dn[c].left \in Nat /\ dn[c].left =< cn[c].left /\ cn[c].post = u[1]
    BY <1>3 DEF Counts, Shrinks
  <2>2. u[2] =< ps[u[1]].size - cn[c].left
    BY <1>3, <2>1 DEF Received
  <2> QED
    BY <1>2, <2>1, <2>2
<1> QED
  BY <1>1, <1>3 DEF Received

LEMMA PlacesStay ==
  ASSUME NEW cn, NEW dn, NEW ps \in Seq(Post), NEW tx \in Seq(Unit),
         Counts(cn), Counts(dn), Shrinks(cn, dn, ps), Places(cn, tx, ps)
  PROVE  Places(dn, tx, ps)
<1>1. ASSUME NEW i \in DOMAIN tx
      PROVE  Received(tx[i], dn, ps)
  <2>1. tx[i] \in Unit
    BY ElementOfSeq, LenProperties
  <2>2. Received(tx[i], cn, ps)
    BY DEF Places
  <2> QED
    BY <2>1, <2>2, ReceivedStays
<1>2. ASSUME NEW p \in DOMAIN ps, NEW i \in DOMAIN ps[p].given
      PROVE  Received(ps[p].given[i], dn, ps)
  <2>1. ps[p].given[i] \in Unit
    <3>1. ps[p].given \in Seq(Unit)
      BY SizeOf
    <3> QED
      BY <3>1, ElementOfSeq, LenProperties
  <2>2. Received(ps[p].given[i], cn, ps)
    BY DEF Places
  <2> QED
    BY <2>1, <2>2, ReceivedStays
<1> QED
  BY <1>1, <1>2 DEF Places

LEMMA OwnPostsStay ==
  ASSUME NEW cn, NEW dn, NEW ps \in Seq(Post), Counts(cn), Counts(dn), Shrinks(cn, dn, ps),
         OwnPosts(cn, ps)
  PROVE  OwnPosts(dn, ps)
<1>1. ASSUME NEW c \in Conns, dn[c].left > 0
      PROVE  cn[c].left > 0 /\ dn[c].left =< cn[c].left /\ dn[c].post = cn[c].post
  BY <1>1 DEF Counts, Shrinks
<1>2. ASSUME NEW c \in Conns, dn[c].left > 0
      PROVE  /\ dn[c].post \in DOMAIN ps /\ dn[c].left =< ps[dn[c].post].size
             /\ ps[dn[c].post].given = <<>>
  <2>1. /\ cn[c].post \in DOMAIN ps /\ cn[c].left =< ps[cn[c].post].size
        /\ ps[cn[c].post].given = <<>>
    BY <1>1, <1>2 DEF OwnPosts
  <2>2. ps[cn[c].post].size \in Nat /\ cn[c].left \in Nat /\ dn[c].left \in Nat
    BY <2>1, SizeOf DEF Counts
  <2> QED
    BY <1>1, <1>2, <2>1, <2>2
<1>3. ASSUME NEW c \in Conns, NEW d \in Conns, dn[c].left > 0, dn[d].left > 0, dn[c].post = dn[d].post
      PROVE  c = d
  BY <1>1, <1>3 DEF OwnPosts
<1>4. \A c \in Conns : dn[c].post =< Len(ps)
  BY DEF Shrinks
<1> QED
  BY <1>2, <1>3, <1>4, Zenon DEF OwnPosts

\* The end of a POST, and any step that has nothing to do with POSTs.
LEMMA PayloadStays ==
  ASSUME NEW cn, NEW dn, NEW ps, NEW tx, NEW ln, Counts(cn), Counts(dn), Shrinks(cn, dn, ps),
         Payload(cn, tx, ln, ps)
  PROVE  Payload(dn, tx, ln, ps)
<1>1. ps \in Seq(Post) /\ tx \in Seq(Unit)
  BY DEF Payload, Types
<1> QED
  BY <1>1, PlacesStay, OwnPostsStay DEF Payload

\* A part of the body of c is received: the units that are copied are new.
LEMMA CopyKeeps ==
  ASSUME NEW cn, NEW dn, NEW ps, NEW tx, NEW ln, Counts(cn), Counts(dn), Shrinks(cn, dn, ps),
         Payload(cn, tx, ln, ps), NEW c \in Conns, cn[c].left > 0, NEW m \in Nat,
         dn[c].left =< cn[c].left - m, ln + m =< Capacity,
         NEW w, w = Copy(tx, ln, cn[c].post, ps[cn[c].post].size - cn[c].left, m),
         NEW n \in 0 .. Len(w)
  PROVE  Payload(dn, w, n, ps)
<1> DEFINE p == cn[c].post
           b == ps[p].size - cn[c].left
<1>1. /\ ps \in Seq(Post) /\ tx \in Seq(Unit) /\ ln \in 0 .. Len(tx) /\ Len(tx) =< Capacity
      /\ Places(cn, tx, ps) /\ Once(tx, ps) /\ OwnPosts(cn, ps)
  BY DEF Payload, Types
<1>2. /\ p \in DOMAIN ps /\ p \in Nat /\ cn[c].left \in Nat /\ cn[c].left =< ps[p].size
      /\ ps[p].size \in Nat /\ b \in Nat
  <2>1. p \in DOMAIN ps /\ cn[c].left =< ps[p].size
    BY <1>1 DEF OwnPosts
  <2>2. ps[p].size \in Nat /\ cn[c].left \in Nat /\ p \in Nat
    BY <1>1, <2>1, SizeOf DEF Counts
  <2> QED
    BY <2>1, <2>2
<1>3. ASSUME NEW k \in Nat \ {0}
      PROVE  ~Received(<<p, b + k>>, cn, ps)
  <2>1. ~ (b + k =< b)
    BY <1>2
  <2> QED
    BY <2>1 DEF Received
<1>4. ASSUME NEW k \in 1 .. m
      PROVE  Received(<<p, b + k>>, dn, ps)
  <2>1. ASSUME NEW d \in Conns, dn[d].left > 0, dn[d].post = p
        PROVE  d = c
    <3>1. cn[d].left > 0 /\ cn[d].post = p
      BY <2>1 DEF Shrinks, Counts
    <3> QED
      BY <1>1, <3>1 DEF OwnPosts
  <2>2. b + k =< ps[p].size - dn[c].left
    <3>1. dn[c].left \in Nat
      BY DEF Counts
    <3>2. \A sz, x, y \in Nat : y =< x - m => (sz - x) + k =< sz - y
      OBVIOUS
    <3> QED
      BY <1>2, <3>1, <3>2
  <2>3. <<p, b + k>>[1] = p /\ <<p, b + k>>[2] = b + k
    OBVIOUS
  <2> HIDE DEF b, p
  <2> QED
    BY <1>2, <2>1, <2>2, <2>3 DEF Received
<1>5. w = Copy(tx, ln, p, b, m)
  OBVIOUS
<1> HIDE DEF p, b
<1>6. w \in Seq(Unit) /\ Len(w) = IF ln + m =< Len(tx) THEN Len(tx) ELSE ln + m
  BY <1>1, <1>2, <1>5, CopyValues
<1>7. Len(w) =< Capacity
  BY <1>1, <1>6, Bounds
<1>8. Once(w, ps)
  BY <1>1, <1>2, <1>3, <1>5, CopyOnce
<1>9. Places(dn, w, ps)
  <2>1. Places(dn, tx, ps)
    BY <1>1, PlacesStay
  <2>2. ASSUME NEW i \in DOMAIN w
        PROVE  Received(w[i], dn, ps)
    <3>1. \/ i \in DOMAIN tx /\ w[i] = tx[i]
          \/ i - ln \in 1 .. m /\ w[i] = <<p, b + (i - ln)>>
      BY <1>1, <1>2, <1>5, CopyFrom
    <3>2. PICK k : k = i - ln
      OBVIOUS
    <3>3. CASE k \in 1 .. m /\ w[i] = <<p, b + k>>
      BY <1>4, <3>3
    <3> QED
      BY <2>1, <3>1, <3>2, <3>3 DEF Places
  <2> QED
    BY <2>1, <2>2 DEF Places
<1>10. OwnPosts(dn, ps)
  BY <1>1, OwnPostsStay
<1> QED
  BY <1>1, <1>6, <1>7, <1>8, <1>9, <1>10 DEF Payload, Types

\* The handler is given the buffer, and the parse leaves nothing of it.
Given(ps, p, w) == [ps EXCEPT ![p].given = w]

LEMMA GivenIs ==
  ASSUME NEW ps \in Seq(Post), NEW p \in DOMAIN ps, NEW w \in Seq(Unit)
  PROVE  /\ Given(ps, p, w) \in Seq(Post) /\ Len(Given(ps, p, w)) = Len(ps)
         /\ DOMAIN Given(ps, p, w) = DOMAIN ps
         /\ \A q \in DOMAIN ps : /\ Given(ps, p, w)[q].size = ps[q].size
                                 /\ Given(ps, p, w)[q].alone = ps[q].alone
                                 /\ Given(ps, p, w)[q].given = IF q = p THEN w ELSE ps[q].given
<1> DEFINE r == [ps[p] EXCEPT !.given = w]
<1>1. ps[p] \in Post
  BY ElementOfSeq, LenProperties
<1>2. r \in Post /\ r.size = ps[p].size /\ r.alone = ps[p].alone /\ r.given = w
  BY <1>1 DEF Post
<1>3. Given(ps, p, w) = [ps EXCEPT ![p] = r]
  BY DEF Given
<1> HIDE DEF r
<1>4. p \in 1 .. Len(ps) /\ DOMAIN ps = 1 .. Len(ps)
  BY LenProperties
<1>5. [ps EXCEPT ![p] = r] \in Seq(Post) /\ Len([ps EXCEPT ![p] = r]) = Len(ps)
  BY <1>2, <1>4, ExceptSeq
<1>6. /\ DOMAIN [ps EXCEPT ![p] = r] = DOMAIN ps
      /\ \A q \in DOMAIN ps : [ps EXCEPT ![p] = r][q] = IF q = p THEN r ELSE ps[q]
  OBVIOUS
<1>7. ASSUME NEW q \in DOMAIN ps
      PROVE  /\ Given(ps, p, w)[q].size = ps[q].size
             /\ Given(ps, p, w)[q].alone = ps[q].alone
             /\ Given(ps, p, w)[q].given = IF q = p THEN w ELSE ps[q].given
  BY <1>2, <1>3, <1>6
<1> QED
  BY <1>3, <1>5, <1>6, <1>7

LEMMA GivenKeeps ==
  ASSUME NEW dn, NEW ps, NEW w, NEW n, Counts(dn), Payload(dn, w, n, ps),
         NEW p \in DOMAIN ps, ps[p].given = <<>>,
         \A c \in Conns : dn[c].left > 0 => dn[c].post # p
  PROVE  Payload(dn, <<>>, 0, Given(ps, p, w))
<1> DEFINE qs == Given(ps, p, w)
<1>1. /\ ps \in Seq(Post) /\ w \in Seq(Unit) /\ Len(ps) =< MaxPosts
      /\ Places(dn, w, ps) /\ Once(w, ps) /\ OwnPosts(dn, ps)
  BY DEF Payload, Types
<1>2. /\ qs \in Seq(Post) /\ Len(qs) = Len(ps) /\ DOMAIN qs = DOMAIN ps
      /\ \A q \in DOMAIN ps : /\ qs[q].size = ps[q].size /\ qs[q].alone = ps[q].alone
                              /\ qs[q].given = IF q = p THEN w ELSE ps[q].given
  BY <1>1, GivenIs
<1> HIDE DEF qs
<1>3. Types(<<>>, 0, qs)
  <2>1. <<>> \in Seq(Unit) /\ Len(<<>>) = 0 /\ 0 \in 0 .. 0 /\ 0 =< Capacity
    BY Bounds
  <2> QED
    BY <1>1, <1>2, <2>1 DEF Types
<1>4. OwnPosts(dn, qs)
  BY <1>1, <1>2 DEF OwnPosts
<1>5. Places(dn, <<>>, qs)
  <2>1. \A u : Received(u, dn, ps) => Received(u, dn, qs)
    BY <1>2 DEF Received
  <2> QED
    BY <1>1, <1>2, <2>1 DEF Places
<1>6. Once(<<>>, qs)
  <2>1. ASSUME NEW q \in DOMAIN qs, NEW i \in DOMAIN qs[q].given, NEW j \in DOMAIN qs[q].given,
               qs[q].given[i] = qs[q].given[j]
        PROVE  i = j
    BY <1>1, <1>2, <2>1 DEF Once
  <2>2. ASSUME NEW q \in DOMAIN qs, NEW s \in DOMAIN qs, q # s,
               NEW i \in DOMAIN qs[q].given, NEW j \in DOMAIN qs[s].given
        PROVE  qs[q].given[i] # qs[s].given[j]
    <3>1. CASE q = p
      BY <1>1, <1>2, <2>2, <3>1 DEF Once
    <3>2. CASE s = p
      BY <1>1, <1>2, <2>2, <3>2 DEF Once
    <3>3. CASE q # p /\ s # p
      BY <1>1, <1>2, <2>2, <3>3 DEF Once
    <3> QED
      BY <3>1, <3>2, <3>3
  <2> QED
    BY <2>1, <2>2 DEF Once
<1> QED
  BY <1>3, <1>4, <1>5, <1>6 DEF Payload, qs

\* A POST begins: qs is ps and a POST of n units.
Others(cn, dn, c) == \A d \in Conns : d # c => dn[d] = cn[d]

Begins(ps, qs, n) ==
  /\ qs \in Seq(Post) /\ Len(qs) = Len(ps) + 1
  /\ \A q \in DOMAIN ps : qs[q].size = ps[q].size /\ qs[q].given = ps[q].given
  /\ qs[Len(ps) + 1].size = n /\ qs[Len(ps) + 1].given = <<>>

LEMMA BeginKeeps ==
  ASSUME NEW cn, NEW dn, NEW ps, NEW qs, NEW tx, NEW ln, Counts(cn), Counts(dn),
         Payload(cn, tx, ln, ps), NEW c \in Conns, NEW n \in Nat \ {0}, Begins(ps, qs, n),
         Len(ps) < MaxPosts, Others(cn, dn, c), dn[c].left = n, dn[c].post = Len(ps) + 1
  PROVE  Payload(dn, tx, ln, qs)
<1>1. /\ ps \in Seq(Post) /\ Len(ps) \in Nat /\ DOMAIN ps = 1 .. Len(ps)
      /\ tx \in Seq(Unit) /\ ln \in 0 .. Len(tx) /\ Len(tx) =< Capacity
      /\ Places(cn, tx, ps) /\ Once(tx, ps) /\ OwnPosts(cn, ps)
  BY LenProperties DEF Payload, Types
<1>2. /\ qs \in Seq(Post) /\ Len(qs) = Len(ps) + 1 /\ DOMAIN qs = 1 .. Len(ps) + 1
      /\ \A q \in DOMAIN ps : qs[q].size = ps[q].size /\ qs[q].given = ps[q].given
      /\ qs[Len(ps) + 1].size = n /\ qs[Len(ps) + 1].given = <<>>
  BY LenProperties DEF Begins
<1>3. \A q : q \in DOMAIN qs <=> q \in DOMAIN ps \/ q = Len(ps) + 1
  BY <1>1, <1>2
<1>4. Len(ps) + 1 \notin DOMAIN ps
  BY <1>1
<1>5. DOMAIN qs[Len(ps) + 1].given = {}
  BY <1>2
<1>6. Types(tx, ln, qs)
  <2>1. Len(qs) =< MaxPosts
    BY <1>1, <1>2, Bounds
  <2> QED
    BY <1>1, <1>2, <2>1 DEF Types
<1>7. OwnPosts(dn, qs)
  <2>1. ASSUME NEW d \in Conns
        PROVE  dn[d].post =< Len(qs)
    <3>1. CASE d = c
      BY <1>1, <1>2, <3>1
    <3>2. CASE d # c
      <4>1. dn[d] = cn[d] /\ cn[d].post =< Len(ps) /\ cn[d].post \in Nat
        BY <1>1, <3>2 DEF Others, OwnPosts, Counts
      <4> QED
        BY <1>1, <1>2, <4>1
    <3> QED
      BY <3>1, <3>2
  <2>2. ASSUME NEW d \in Conns, dn[d].left > 0, d # c
        PROVE  /\ dn[d].post \in DOMAIN ps /\ dn[d] = cn[d]
               /\ dn[d].left =< ps[dn[d].post].size /\ ps[dn[d].post].given = <<>>
    BY <1>1, <2>2 DEF Others, OwnPosts
  <2>3. ASSUME NEW d \in Conns, dn[d].left > 0
        PROVE  /\ dn[d].post \in DOMAIN qs /\ dn[d].left =< qs[dn[d].post].size
               /\ qs[dn[d].post].given = <<>>
    <3>1. CASE d = c
      BY <1>2, <1>3, <3>1
    <3>2. CASE d # c
      BY <1>2, <1>3, <2>2, <2>3, <3>2
    <3> QED
      BY <3>1, <3>2
  <2>4. ASSUME NEW d \in Conns, NEW e \in Conns, dn[d].left > 0, dn[e].left > 0,
               dn[d].post = dn[e].post
        PROVE  d = e
    <3>1. CASE d # c /\ e # c
      BY <1>1, <2>2, <2>4, <3>1 DEF OwnPosts
    <3>2. CASE d = c \/ e = c
      BY <1>4, <2>2, <2>4, <3>2
    <3> QED
      BY <3>1, <3>2
  <2> QED
    BY <2>1, <2>3, <2>4, Zenon DEF OwnPosts
<1>8. ASSUME NEW u, Received(u, cn, ps)
      PROVE  Received(u, dn, qs)
  <2>1. u[1] \in DOMAIN ps /\ u[1] \in DOMAIN qs /\ qs[u[1]].size = ps[u[1]].size
    BY <1>2, <1>3, <1>8 DEF Received
  <2>2. ASSUME NEW d \in Conns, dn[d].left > 0, dn[d].post = u[1]
        PROVE  u[2] =< ps[u[1]].size - dn[d].left
    <3>1. d # c
      BY <1>4, <2>1, <2>2
    <3> QED
      BY <1>8, <2>2, <3>1 DEF Received, Others
  <2> QED
    BY <2>1, <2>2 DEF Received
<1>9. Places(dn, tx, qs)
  BY <1>1, <1>2, <1>3, <1>5, <1>8 DEF Places
<1>10. Once(tx, qs)
  <2>1. ASSUME NEW q \in DOMAIN qs, NEW i \in DOMAIN qs[q].given
        PROVE  q \in DOMAIN ps /\ qs[q].given = ps[q].given
    BY <1>2, <1>3, <1>5
  <2> QED
    BY <1>1, <2>1, SMTT(30) DEF Once
<1> QED
  BY <1>6, <1>7, <1>9, <1>10 DEF Payload
-----------------------------------------------------------------------------
(***************************************************************************)
(* The damage.                                                             *)
(***************************************************************************)
LEMMA SpoiltFinite ==
  ASSUME NEW ps \in Seq(Post)
  PROVE  IsFiniteSet(Spoilt(ps)) /\ Cardinality(Spoilt(ps)) \in Nat
<1>1. Len(ps) \in Nat /\ DOMAIN ps = 1 .. Len(ps)
  BY LenProperties
<1>2. IsFiniteSet(1 .. Len(ps))
  BY <1>1, UpTo
<1>3. Spoilt(ps) \subseteq 1 .. Len(ps)
  BY <1>1 DEF Spoilt
<1> QED
  BY <1>2, <1>3, FS_Subset, FS_CardinalityType

\* Nothing that the payload depends on.
LEMMA DamageQuiet ==
  ASSUME NEW cn, NEW dn, NEW tx, NEW ln, NEW ps, NEW fa, Damage(cn, tx, ln, ps, fa),
         \A d \in Conns : dn[d].left = cn[d].left,
         \A d \in Conns : cn[d].left > 0 => dn[d].post = cn[d].post /\ dn[d].cgi = cn[d].cgi
  PROVE  Damage(dn, tx, ln, ps, fa)
<1>1. ASSUME NEW d \in Conns, dn[d].left > 0, ps[dn[d].post].alone, ~Faithful(dn[d], tx, ln, ps)
      PROVE  Spare(ps, fa)
  <2>1. dn[d].left = cn[d].left /\ dn[d].post = cn[d].post /\ cn[d].left > 0
    BY <1>1
  <2>2. ~Faithful(cn[d], tx, ln, ps)
    BY <1>1, <2>1 DEF Faithful
  <2> QED
    BY <1>1, <2>1, <2>2 DEF Damage
<1>2. ASSUME NEW d \in Conns, NEW e \in Conns, dn[d].left > 0, dn[e].left > 0, d # e
      PROVE  ~ps[dn[d].post].alone
  BY <1>2 DEF Damage
<1>3. ASSUME NEW d \in Conns, dn[d].left > 0, ~dn[d].cgi
      PROVE  Spare(ps, fa)
  BY <1>3 DEF Damage
<1>4. ASSUME \A d \in Conns : dn[d].left = 0, tx # <<>>
      PROVE  Spare(ps, fa)
  BY <1>4 DEF Damage
<1>5. fa \in Nat /\ Cardinality(Spoilt(ps)) =< fa
  BY DEF Damage
<1> QED
  BY <1>1, <1>2, <1>3, <1>4, <1>5, Zenon DEF Damage

\* With a fault to spare, anything may be in the buffer.
LEMMA DamageSpare ==
  ASSUME NEW cn, NEW dn, NEW tx, NEW ln, NEW w, NEW n, NEW ps \in Seq(Post), NEW fa, NEW fb \in Nat,
         Counts(cn), Counts(dn), Shrinks(cn, dn, ps), Damage(cn, tx, ln, ps, fa), Spare(ps, fb)
  PROVE  Damage(dn, w, n, ps, fb)
<1>1. ASSUME NEW d \in Conns, NEW e \in Conns, dn[d].left > 0, dn[e].left > 0, d # e
      PROVE  ~ps[dn[d].post].alone
  <2>1. cn[d].left > 0 /\ cn[e].left > 0 /\ dn[d].post = cn[d].post
    BY <1>1 DEF Shrinks, Counts
  <2> QED
    BY <1>1, <2>1 DEF Damage
<1>2. Cardinality(Spoilt(ps)) =< fb
  BY SpoiltFinite DEF Spare
<1> QED
  BY <1>1, <1>2 DEF Damage

\* The units of a POST are copied to where they belong.
LEMMA CopyStart ==
  ASSUME NEW p \in Nat, NEW b \in Nat, NEW m \in Nat \ {0}
  PROVE  Copy(Start(p, b), b, p, b, m) = Start(p, b + m)
<1>1. PICK tx : tx = Start(p, b)
  OBVIOUS
<1>2. PICK w : w = Copy(tx, b, p, b, m)
  OBVIOUS
<1>3. /\ tx \in Seq(Unit) /\ Len(tx) = b /\ DOMAIN tx = 1 .. b
      /\ \A i \in 1 .. b : tx[i] = <<p, i>>
  BY <1>1 DEF Start, Unit
<1>4. b \in 0 .. Len(tx)
  BY <1>3
<1>5. w \in Seq(Unit) /\ Len(w) = b + m
  <2>1. w \in Seq(Unit) /\ Len(w) = IF b + m =< Len(tx) THEN Len(tx) ELSE b + m
    BY <1>2, <1>3, <1>4, CopyValues
  <2>2. ~ (b + m =< Len(tx))
    BY <1>3
  <2> QED
    BY <2>1, <2>2
<1>6. DOMAIN w = 1 .. b + m
  BY <1>5, LenProperties
<1>7. ASSUME NEW i \in 1 .. b + m
      PROVE  w[i] = <<p, i>>
  <2>1. \/ i \in DOMAIN tx /\ w[i] = tx[i]
        \/ i - b \in 1 .. m /\ w[i] = <<p, b + (i - b)>>
    <3>1. m \in Nat /\ i \in DOMAIN w /\ tx \in Seq(Unit)
      BY <1>3, <1>6
    <3> QED
      BY <1>2, <1>4, <3>1, CopyFrom, SMTT(30)
  <2>2. b + (i - b) = i
    OBVIOUS
  <2> QED
    BY <1>3, <2>1, <2>2
<1>8. w = [i \in 1 .. b + m |-> w[i]]
  BY <1>5, <1>6
<1> QED
  BY <1>1, <1>2, <1>7, <1>8 DEF Start

\* A part of the body is stored.
LEMMA DamageStore ==
  ASSUME NEW cn, NEW dn, NEW tx, NEW ln, NEW ps, NEW fa, Counts(cn), Counts(dn),
         Payload(cn, tx, ln, ps), Damage(cn, tx, ln, ps, fa),
         NEW c \in Conns, Others(cn, dn, c), NEW m \in Nat \ {0}, m < cn[c].left,
         dn[c].left = cn[c].left - m, dn[c].post = cn[c].post, dn[c].cgi = cn[c].cgi,
         NEW w, w = Copy(tx, ln, cn[c].post, ps[cn[c].post].size - cn[c].left, m)
  PROVE  Damage(dn, w, ln + m, ps, fa)
<1> DEFINE p == cn[c].post
           b == ps[p].size - cn[c].left
<1>1. cn[c].left \in Nat /\ cn[c].left > 0 /\ dn[c].left \in Nat /\ dn[c].left > 0
  BY DEF Counts
<1>2. \A d \in Conns : (dn[d].left > 0 <=> cn[d].left > 0) /\ dn[d].post = cn[d].post /\ dn[d].cgi = cn[d].cgi
  BY <1>1 DEF Others
<1>3. ASSUME NEW d \in Conns, dn[d].left > 0, ps[dn[d].post].alone, ~Faithful(dn[d], w, ln + m, ps)
      PROVE  Spare(ps, fa)
  <2>1. d = c
    BY <1>1, <1>2, <1>3 DEF Damage
  <2>2. ~Faithful(cn[c], tx, ln, ps)
    <3> SUFFICES ASSUME Faithful(cn[c], tx, ln, ps) PROVE FALSE
      OBVIOUS
    <3>1. tx = Start(p, b) /\ ln = b
      BY DEF Faithful
    <3>2. p \in Nat /\ b \in Nat /\ ps[p].size \in Nat
      <4>1. ps \in Seq(Post) /\ p \in DOMAIN ps /\ cn[c].left =< ps[p].size
        BY <1>1 DEF Payload, Types, OwnPosts
      <4>2. ps[p].size \in Nat /\ p \in Nat
        BY <4>1, SizeOf
      <4> QED
        BY <1>1, <4>1, <4>2
    <3>3. ps[p].size - dn[c].left = b + m
      BY <1>1, <3>2
    <3>4. w = Copy(tx, ln, p, b, m)
      OBVIOUS
    <3>5. dn[c].post = p
      OBVIOUS
    <3> HIDE DEF b, p
    <3>6. w = Start(p, b + m)
      BY <3>1, <3>2, <3>4, CopyStart
    <3>7. Faithful(dn[c], w, ln + m, ps)
      BY <3>1, <3>3, <3>5, <3>6 DEF Faithful
    <3> QED
      BY <1>3, <2>1, <3>7
  <2> QED
    BY <1>1, <1>2, <1>3, <2>1, <2>2 DEF Damage
<1>4. ASSUME NEW d \in Conns, NEW e \in Conns, dn[d].left > 0, dn[e].left > 0, d # e
      PROVE  ~ps[dn[d].post].alone
  BY <1>2, <1>4 DEF Damage
<1>5. ASSUME NEW d \in Conns, dn[d].left > 0, ~dn[d].cgi
      PROVE  Spare(ps, fa)
  BY <1>2, <1>5 DEF Damage
<1>6. ~ (\A d \in Conns : dn[d].left = 0)
  BY <1>1
<1>7. fa \in Nat /\ Cardinality(Spoilt(ps)) =< fa
  BY DEF Damage
<1> QED
  BY <1>3, <1>4, <1>5, <1>6, <1>7, Zenon DEF Damage

\* The handler is called.  A POST that is alone and is given something else takes
\* the fault that is to spare.
LEMMA DamageGiven ==
  ASSUME NEW cn, NEW dn, NEW tx, NEW ln, NEW ps, NEW fa, Counts(cn), Counts(dn),
         Payload(cn, tx, ln, ps), Damage(cn, tx, ln, ps, fa),
         NEW c \in Conns, Others(cn, dn, c), cn[c].left > 0, dn[c].left = 0,
         NEW w \in Seq(Unit),
         w = Copy(tx, ln, cn[c].post, ps[cn[c].post].size - cn[c].left, cn[c].left)
  PROVE  Damage(dn, <<>>, 0, Given(ps, cn[c].post, w), fa)
<1> DEFINE p == cn[c].post
           b == ps[p].size - cn[c].left
           qs == Given(ps, p, w)
<1>1. /\ ps \in Seq(Post) /\ p \in DOMAIN ps /\ cn[c].left =< ps[p].size
      /\ ps[p].given = <<>> /\ cn[c].left \in Nat
  BY DEF Payload, Types, OwnPosts, Counts
<1>2. ps[p].size \in Nat /\ p \in Nat /\ b \in Nat /\ b + cn[c].left = ps[p].size
      /\ ps[p].alone \in BOOLEAN
  <2>1. ps[p].size \in Nat /\ p \in Nat /\ ps[p].alone \in BOOLEAN
    BY <1>1, SizeOf
  <2> QED
    BY <1>1, <2>1
<1>3. /\ qs \in Seq(Post) /\ DOMAIN qs = DOMAIN ps
      /\ \A q \in DOMAIN ps : /\ qs[q].size = ps[q].size /\ qs[q].alone = ps[q].alone
                              /\ qs[q].given = IF q = p THEN w ELSE ps[q].given
  BY <1>1, GivenIs
<1>4. w = Copy(tx, ln, p, b, cn[c].left)
  OBVIOUS
<1> HIDE DEF p, b, qs
<1>5. Spoilt(qs) \subseteq Spoilt(ps) \cup {p}
  BY <1>3 DEF Spoilt
<1>6. p \notin Spoilt(ps)
  BY <1>1 DEF Spoilt
<1>7. ~ps[p].alone \/ w = Start(p, ps[p].size) => Spoilt(qs) = Spoilt(ps)
  BY <1>1, <1>3 DEF Spoilt
<1>8. /\ fa \in Nat /\ Cardinality(Spoilt(ps)) =< fa
      /\ IsFiniteSet(Spoilt(ps)) /\ Cardinality(Spoilt(ps)) \in Nat
  BY <1>1, SpoiltFinite DEF Damage
<1>9. ASSUME NEW d \in Conns, dn[d].left > 0
      PROVE  d # c /\ dn[d] = cn[d] /\ cn[d].left > 0 /\ ~ps[p].alone /\ ~ps[dn[d].post].alone
  <2>1. d # c /\ dn[d] = cn[d]
    BY <1>9 DEF Others
  <2> QED
    BY <1>9, <2>1 DEF Damage, p
<1>10. Cardinality(Spoilt(qs)) =< fa
  <2>1. CASE ~ps[p].alone \/ w = Start(p, ps[p].size)
    BY <1>7, <1>8, <2>1
  <2>2. CASE ps[p].alone /\ w # Start(p, ps[p].size)
    <3>1. ~Faithful(cn[c], tx, ln, ps)
      <4> SUFFICES ASSUME Faithful(cn[c], tx, ln, ps) PROVE FALSE
        OBVIOUS
      <4>1. tx = Start(p, b) /\ ln = b
        BY DEF Faithful, p, b
      <4>2. w = Start(p, b + cn[c].left)
        <5>1. PICK k : k = cn[c].left
          OBVIOUS
        <5>2. k \in Nat \ {0} /\ w = Copy(Start(p, b), b, p, b, k)
          BY <1>1, <1>4, <4>1, <5>1
        <5>3. Copy(Start(p, b), b, p, b, k) = Start(p, b + k)
          BY <1>2, <5>2, CopyStart
        <5> QED
          BY <5>1, <5>2, <5>3
      <4> QED
        BY <1>2, <2>2, <4>2
    <3>2. Spare(ps, fa)
      BY <2>2, <3>1 DEF Damage, p
    <3>3. /\ IsFiniteSet(Spoilt(ps) \cup {p})
          /\ Cardinality(Spoilt(ps) \cup {p}) = Cardinality(Spoilt(ps)) + 1
      BY <1>6, <1>8, FS_AddElement
    <3>4. Cardinality(Spoilt(qs)) =< Cardinality(Spoilt(ps) \cup {p}) /\ Cardinality(Spoilt(qs)) \in Nat
      BY <1>3, <1>5, <3>3, FS_Subset, SpoiltFinite
    <3> QED
      BY <1>8, <3>2, <3>3, <3>4 DEF Spare
  <2> QED
    BY <2>1, <2>2
<1>11. ASSUME NEW d \in Conns, dn[d].left > 0
       PROVE  ~qs[dn[d].post].alone
  <2>1. dn[d] = cn[d] /\ cn[d].left > 0 /\ ~ps[dn[d].post].alone
    BY <1>9, <1>11
  <2>2. dn[d].post \in DOMAIN ps
    BY <2>1 DEF Payload, OwnPosts
  <2> QED
    BY <1>3, <2>1, <2>2
<1>12. ASSUME NEW d \in Conns, dn[d].left > 0, ~dn[d].cgi
       PROVE  Spare(qs, fa)
  <2>1. dn[d] = cn[d] /\ cn[d].left > 0 /\ ~ps[p].alone
    BY <1>9, <1>12
  <2>2. Spare(ps, fa)
    BY <1>12, <2>1 DEF Damage
  <2> QED
    BY <1>7, <2>1, <2>2 DEF Spare
<1>13. Damage(dn, <<>>, 0, qs, fa)
  BY <1>8, <1>10, <1>11, <1>12, Zenon DEF Damage
<1> QED
  BY <1>13 DEF qs, p

\* A POST begins; alone holds for none of several that are in progress.
AloneInProgress(cn, ps, qs) ==
  /\ \A q \in DOMAIN ps :
       qs[q].alone <=> (ps[q].alone /\ \A d \in Conns : cn[d].left > 0 => cn[d].post # q)
  /\ qs[Len(ps) + 1].alone <=> (\A d \in Conns : cn[d].left = 0)

LEMMA DamageBegin ==
  ASSUME NEW cn, NEW dn, NEW tx, NEW ln, NEW ps, NEW qs, NEW fa, Counts(cn), Counts(dn),
         Payload(cn, tx, ln, ps), Damage(cn, tx, ln, ps, fa),
         NEW c \in Conns, NEW n \in Nat \ {0}, Begins(ps, qs, n), Others(cn, dn, c), cn[c].left = 0,
         dn[c].left = n, dn[c].post = Len(ps) + 1, dn[c].cgi,
         AloneInProgress(cn, ps, qs)
  PROVE  Damage(dn, tx, ln, qs, fa)
<1>1. /\ ps \in Seq(Post) /\ Len(ps) \in Nat /\ DOMAIN ps = 1 .. Len(ps)
      /\ tx \in Seq(Unit) /\ ln \in 0 .. Len(tx)
  BY LenProperties DEF Payload, Types
<1>2. /\ DOMAIN qs = 1 .. Len(ps) + 1
      /\ \A q \in DOMAIN ps : qs[q].size = ps[q].size /\ qs[q].given = ps[q].given
      /\ qs[Len(ps) + 1].size = n /\ qs[Len(ps) + 1].given = <<>>
  BY LenProperties DEF Begins
<1>3. \A q : q \in DOMAIN qs <=> q \in DOMAIN ps \/ q = Len(ps) + 1
  BY <1>1, <1>2
<1>4. ASSUME NEW d \in Conns, d # c, dn[d].left > 0
      PROVE  /\ dn[d] = cn[d] /\ cn[d].left > 0 /\ cn[d].post \in DOMAIN ps
             /\ ps[cn[d].post].given = <<>>
  BY <1>4 DEF Others, Payload, OwnPosts
<1>a. /\ \A q \in DOMAIN ps :
            qs[q].alone <=> (ps[q].alone /\ \A d \in Conns : cn[d].left > 0 => cn[d].post # q)
      /\ qs[Len(ps) + 1].alone <=> (\A d \in Conns : cn[d].left = 0)
  BY DEF AloneInProgress
<1>5. Spoilt(qs) = Spoilt(ps)
  <2>1. ASSUME NEW q \in DOMAIN ps
        PROVE  q \in Spoilt(qs) <=> q \in Spoilt(ps)
    <3>1. CASE \A d \in Conns : cn[d].left > 0 => cn[d].post # q
      BY <1>2, <1>3, <1>a, <3>1 DEF Spoilt
    <3>2. CASE \E d \in Conns : cn[d].left > 0 /\ cn[d].post = q
      <4>1. ps[q].given = <<>>
        BY <3>2 DEF Payload, OwnPosts
      <4> QED
        BY <1>2, <4>1 DEF Spoilt
    <3> QED
      BY <3>1, <3>2
  <2>2. Len(ps) + 1 \notin Spoilt(qs)
    BY <1>2 DEF Spoilt
  <2>3. \A q : (q \in Spoilt(qs) => q \in DOMAIN qs) /\ (q \in Spoilt(ps) => q \in DOMAIN ps)
    BY DEF Spoilt
  <2> QED
    BY <1>3, <2>1, <2>2, <2>3
<1>6. Spare(qs, fa) <=> Spare(ps, fa)
  BY <1>5 DEF Spare
<1>7. ASSUME NEW d \in Conns, d # c, dn[d].left > 0
      PROVE  ~qs[dn[d].post].alone /\ ~qs[dn[c].post].alone
  <2>1. dn[d] = cn[d] /\ cn[d].left > 0 /\ cn[d].post \in DOMAIN ps /\ cn[d].left \in Nat
    BY <1>4, <1>7 DEF Counts
  <2>2. ~ (\A e \in Conns : cn[e].left = 0)
    BY <2>1
  <2>3. ~ (\A e \in Conns : cn[e].left > 0 => cn[e].post # cn[d].post)
    BY <2>1
  <2> QED
    BY <1>a, <2>1, <2>2, <2>3
<1>8. ASSUME NEW d \in Conns, NEW e \in Conns, dn[d].left > 0, dn[e].left > 0, d # e
      PROVE  ~qs[dn[d].post].alone
  BY <1>7, <1>8
<1>9. ASSUME NEW d \in Conns, dn[d].left > 0, ~dn[d].cgi
      PROVE  Spare(qs, fa)
  <2>1. d # c
    BY <1>9
  <2>2. dn[d] = cn[d] /\ cn[d].left > 0
    BY <1>4, <1>9, <2>1
  <2> QED
    BY <1>6, <1>9, <2>2 DEF Damage
<1>10. ~ (\A d \in Conns : dn[d].left = 0)
  BY Bounds
<1>11. ASSUME NEW d \in Conns, dn[d].left > 0, qs[dn[d].post].alone, ~Faithful(dn[d], tx, ln, qs)
       PROVE  Spare(qs, fa)
  <2>1. d = c
    BY <1>7, <1>11
  <2>2. \A e \in Conns : cn[e].left = 0
    BY <1>11, <1>a, <2>1
  <2>3. tx # <<>>
    <3> SUFFICES ASSUME tx = <<>> PROVE FALSE
      OBVIOUS
    <3>1. ln = 0
      BY <1>1
    <3>2. qs[dn[c].post].size - dn[c].left = 0
      BY <1>2
    <3>3. Start(dn[c].post, 0) = <<>>
      BY DEF Start
    <3>4. Faithful(dn[c], tx, ln, qs)
      BY <3>1, <3>2, <3>3 DEF Faithful
    <3> QED
      BY <1>11, <2>1, <3>4
  <2> QED
    BY <1>6, <2>2, <2>3 DEF Damage
<1>12. fa \in Nat /\ Cardinality(Spoilt(qs)) =< fa
  BY <1>5 DEF Damage
<1> QED
  BY <1>8, <1>9, <1>10, <1>11, <1>12, Zenon DEF Damage
-----------------------------------------------------------------------------
(***************************************************************************)
(* The steps of the program.                                               *)
(***************************************************************************)
LEMMA CopiedIs ==
  ASSUME NEW r, NEW ps, NEW k
  PROVE  Copied(r, ps, k) = Copy(text, len, r.post, ps[r.post].size - r.left, k)
<1> QED
  BY DEF Copied, Copy, Units, Run

\* The records of the connections, with x for that of c.
LEMMA Replaced ==
  ASSUME ConnsOK, NEW c \in Conns, NEW x \in Record, NEW cn, cn = [conn EXCEPT ![c] = x]
  PROVE  /\ Counts(cn) /\ cn[c] = x /\ Others(conn, cn, c)
         /\ \A d \in Conns : conn[d].left \in Nat /\ conn[d].post \in Nat
<1>1. conn \in [Conns -> Record]
  BY DEF ConnsOK
<1>2. \A d \in Conns : cn[d] = IF d = c THEN x ELSE conn[d]
  BY <1>1
<1>3. \A y \in Record : y.left \in Nat /\ y.post \in Nat
  BY DEF Record
<1> QED
  BY <1>1, <1>2, <1>3 DEF Counts, Others

\* The body is complete, and the reply is begun.
LEMMA ReplyLeaves ==
  ASSUME NEW c \in Conns, NEW s \in Record, s.open, s.left = 0, ~s.handle, s.todo = 0,
         s.unacked = 0, ~conn[c].handle, inuse \in Nat, NEW found \in BOOLEAN, Reply(c, s, found)
  PROVE  \E x \in Record : /\ conn' = [conn EXCEPT ![c] = x]
                           /\ x.left = 0 /\ x.post \in {0, s.post}
<1>1. PICK x \in Record : (x = Closed \/ Same(x, s)) /\ conn' = [conn EXCEPT ![c] = x]
  BY ReplyForms
<1>2. x.left = 0 /\ x.post \in {0, s.post}
  BY <1>1, ClosedIsGood DEF Same
<1> QED
  BY <1>1, <1>2

LEMMA ReplyEnds ==
  ASSUME NEW c \in Conns, NEW r \in Record, r.open, ~r.handle, r.todo = 0, r.unacked = 0,
         ~conn[c].handle, inuse \in Nat, NEW b \in BOOLEAN, NEW found \in BOOLEAN,
         NEW s, s = [r EXCEPT !.left = 0, !.cgi = b], Reply(c, s, found)
  PROVE  \E x \in Record : /\ conn' = [conn EXCEPT ![c] = x]
                           /\ x.left = 0 /\ x.post \in {0, r.post}
<1>1. PICK v : v = s
  OBVIOUS
<1>2. v \in Record
  BY <1>1 DEF Record
<1>3. v.open /\ v.left = 0 /\ ~v.handle /\ v.todo = 0 /\ v.unacked = 0 /\ v.post = r.post
  BY <1>1 DEF Record
<1>4. Reply(c, v, found)
  BY <1>1
<1> QED
  BY <1>2, <1>3, <1>4, ReplyLeaves

\* httpd_post_receive_data, with cn the records in which the POST has begun.
LEMMA BodyKeeps ==
  ASSUME ConnsOK, NEW c \in Conns, NEW r \in Record, r.open, r.left > 0, ~r.handle,
         r.todo = 0, r.unacked = 0, ~conn[c].handle, inuse \in Nat,
         NEW ps, PostBody(c, r, ps),
         NEW cn, cn = [conn EXCEPT ![c] = r], PostsOK(cn, text, len, ps, faults)
  PROVE  PostsOK(conn, text, len, posts, faults)'
<1> DEFINE p == r.post
           b == ps[p].size - r.left
<1>1. /\ r.left \in Nat /\ r.post \in Nat /\ r.cgi \in BOOLEAN
      /\ Counts(cn) /\ cn[c] = r /\ Others(conn, cn, c)
  BY Replaced DEF Record
<1>2. /\ Payload(cn, text, len, ps) /\ Damage(cn, text, len, ps, faults)
      /\ ps \in Seq(Post) /\ text \in Seq(Unit) /\ len \in 0 .. Len(text) /\ len \in Nat
      /\ Len(text) \in Nat /\ Len(text) =< Capacity /\ Capacity \in Nat
      /\ p \in DOMAIN ps /\ ps[p].given = <<>> /\ faults \in Nat
      /\ Len(ps) \in Nat /\ p =< Len(ps) /\ r.left =< ps[p].size
  BY <1>1, SizeOf, LenProperties, Bounds DEF PostsOK, Payload, Types, OwnPosts, Damage
<1>3. b \in Nat
  BY <1>1, <1>2, SizeOf
<1>4. PICK k \in 1 .. r.left : \/ Store(c, r, ps, k) \/ CallCgi(c, r, ps, k)
                               \/ Discard(c, r, ps, k) \/ Overflow(c, r, ps, k)
  BY DEF PostBody
<1>5. k \in Nat \ {0} /\ k =< r.left
  BY <1>1
<1>6. PICK dn : dn = conn'
  OBVIOUS
<1>7. PICK w : w = text'
  OBVIOUS
<1>8. ASSUME NEW x \in Record, dn = [conn EXCEPT ![c] = x], x.left =< r.left - k,
             x.left > 0 => x.post = p, x.post \in {0, p}
      PROVE  /\ Counts(dn) /\ dn[c] = x /\ Others(cn, dn, c) /\ Shrinks(cn, dn, ps)
             /\ dn[c].left \in Nat
  <2>1. Counts(dn) /\ dn[c] = x /\ Others(conn, dn, c)
    BY <1>8, Replaced
  <2>2. Others(cn, dn, c)
    BY <1>1, <2>1 DEF Others
  <2>3. \A d \in Conns : d # c => dn[d] = cn[d] /\ cn[d].post =< Len(ps) /\ cn[d].left =< cn[d].left
    BY <1>1, <1>2, <2>2 DEF Others, Payload, OwnPosts, Counts
  <2>4. x.post =< Len(ps) /\ x.left \in Nat /\ x.left =< r.left
    <3>1. x.left \in Nat
      BY DEF Record
    <3> QED
      BY <1>1, <1>2, <1>5, <1>8, <3>1
  <2> QED
    BY <1>1, <1>8, <2>1, <2>2, <2>3, <2>4 DEF Shrinks
<1>9. ASSUME NEW m \in Nat, m =< k, len + m =< Capacity, text' = Copied(r, ps, m),
             NEW n \in Nat, n =< len + m, Counts(dn), Shrinks(cn, dn, ps), dn[c].left =< r.left - k
      PROVE  Payload(dn, w, n, ps) /\ w \in Seq(Unit) /\ w = Copy(text, len, p, b, m)
  <2>1. w = Copy(text, len, p, b, m)
    BY <1>7, <1>9, CopiedIs
  <2>2. w \in Seq(Unit) /\ Len(w) = IF len + m =< Len(text) THEN Len(text) ELSE len + m
    BY <1>1, <1>2, <1>3, <2>1, CopyValues
  <2>3. n \in 0 .. Len(w)
    BY <1>2, <1>9, <2>2
  <2>4. dn[c].left =< cn[c].left - m
    <3>1. dn[c].left \in Nat
      BY <1>9 DEF Counts
    <3> QED
      BY <1>1, <1>5, <1>9, <3>1
  <2>5. w = Copy(text, len, cn[c].post, ps[cn[c].post].size - cn[c].left, m) /\ cn[c].left > 0
    BY <1>1, <2>1
  <2>6. Payload(dn, w, n, ps)
    BY <1>1, <1>2, <1>9, <2>3, <2>4, <2>5, CopyKeeps
  <2> QED
    BY <2>1, <2>2, <2>6
<1> HIDE DEF p, b
<1>10. CASE Store(c, r, ps, k)
  <2> DEFINE x == [r EXCEPT !.left = r.left - k]
  <2>1. r.left - k \in Nat /\ k < r.left
    BY <1>1, <1>5, <1>10 DEF Store
  <2>2. x \in Record /\ x.left = r.left - k /\ x.post = p /\ x.cgi = r.cgi
    BY <2>1 DEF Record, p
  <2>3. dn = [conn EXCEPT ![c] = x]
    BY <1>6, <1>10 DEF Store
  <2> HIDE DEF x
  <2>4. /\ Counts(dn) /\ dn[c] = x /\ Others(cn, dn, c) /\ Shrinks(cn, dn, ps)
    <3>1. x.left =< r.left - k /\ (x.left > 0 => x.post = p) /\ x.post \in {0, p}
      BY <2>1, <2>2
    <3> QED
      BY <1>8, <2>2, <2>3, <3>1
  <2>5. /\ text' = Copied(r, ps, k) /\ len' = len + k /\ posts' = ps /\ faults' = faults
        /\ len + k =< Capacity /\ len + k \in Nat
    BY <1>2, <1>5, <1>10 DEF Store, Fits
  <2>6. Payload(dn, w, len + k, ps) /\ w \in Seq(Unit) /\ w = Copy(text, len, p, b, k)
    <3>1. /\ k \in Nat /\ k =< k /\ len + k =< len + k /\ dn[c].left =< r.left - k
      BY <1>5, <2>1, <2>2, <2>4, <2>5
    <3> QED
      BY <1>9, <2>4, <2>5, <3>1
  <2>7. Damage(dn, w, len + k, ps, faults)
    <3>1. /\ w = Copy(text, len, cn[c].post, ps[cn[c].post].size - cn[c].left, k)
          /\ k < cn[c].left /\ dn[c].left = cn[c].left - k /\ dn[c].post = cn[c].post
          /\ dn[c].cgi = cn[c].cgi
      BY <1>1, <2>1, <2>2, <2>4, <2>6 DEF p, b
    <3> QED
      BY <1>1, <1>2, <1>5, <2>4, <3>1, DamageStore
  <2> QED
    BY <1>6, <1>7, <2>5, <2>6, <2>7 DEF PostsOK
<1>11. CASE CallCgi(c, r, ps, k)
  <2>1. /\ text' = <<>> /\ len' = 0 /\ posts' = Given(ps, p, Copied(r, ps, k)) /\ faults' = faults
        /\ len + k =< Capacity /\ k = r.left /\ Reply(c, [r EXCEPT !.left = 0], TRUE)
    BY <1>11 DEF CallCgi, Extracted, Given, Fits, p
  <2>2. PICK s : s = [r EXCEPT !.left = 0]
    OBVIOUS
  <2>a. s = [r EXCEPT !.left = 0, !.cgi = r.cgi] /\ Reply(c, s, TRUE)
    BY <2>1, <2>2 DEF Record
  <2>3. PICK x \in Record : conn' = [conn EXCEPT ![c] = x] /\ x.left = 0 /\ x.post \in {0, r.post}
    BY <1>1, <2>a, ReplyEnds
  <2>4. /\ Counts(dn) /\ dn[c].left = 0 /\ Others(cn, dn, c) /\ Shrinks(cn, dn, ps)
    <3>1. x.left =< r.left - k
      BY <1>1, <2>1, <2>3
    <3>2. dn = [conn EXCEPT ![c] = x] /\ (x.left > 0 => x.post = p) /\ x.post \in {0, p}
      BY <1>6, <2>3 DEF p
    <3> QED
      BY <1>8, <2>3, <3>1, <3>2
  <2>5. PICK v : v = Copied(r, ps, k)
    OBVIOUS
  <2>6. v = Copy(text, len, cn[c].post, ps[cn[c].post].size - cn[c].left, cn[c].left)
    BY <1>1, <2>1, <2>5, CopiedIs
  <2>7. v \in Seq(Unit) /\ Len(v) \in Nat
    BY <1>1, <1>2, <1>3, <2>6, CopyValues, LenProperties DEF p, b
  <2>8. Payload(dn, v, 0, ps)
    <3>1. 0 \in 0 .. Len(v) /\ cn[c].left \in Nat /\ cn[c].left > 0
      BY <1>1, <2>7
    <3>2. dn[c].left =< cn[c].left - cn[c].left /\ len + cn[c].left =< Capacity
      BY <1>1, <2>1, <2>4
    <3> QED
      BY <1>1, <1>2, <2>4, <2>6, <3>1, <3>2, CopyKeeps
  <2>9. ASSUME NEW d \in Conns, dn[d].left > 0
        PROVE  dn[d].post # p
    <3>1. d # c /\ dn[d] = cn[d]
      BY <2>4, <2>9 DEF Others
    <3> QED
      BY <1>1, <1>2, <2>9, <3>1 DEF Payload, OwnPosts, p
  <2>10. Payload(dn, <<>>, 0, Given(ps, p, v))
    BY <1>2, <2>4, <2>8, <2>9, GivenKeeps
  <2>11. Damage(dn, <<>>, 0, Given(ps, p, v), faults)
    BY <1>1, <1>2, <2>4, <2>6, <2>7, DamageGiven DEF p
  <2> QED
    BY <1>6, <2>1, <2>5, <2>10, <2>11 DEF PostsOK
<1>12. CASE Discard(c, r, ps, k)
  <2>1. /\ text' = Copied(r, ps, k) /\ len' = 0 /\ posts' = ps /\ faults' = faults
        /\ len + k =< Capacity /\ k = r.left /\ Reply(c, [r EXCEPT !.left = 0], FALSE) /\ ~r.cgi
    BY <1>12 DEF Discard, Fits
  <2>2. PICK s : s = [r EXCEPT !.left = 0]
    OBVIOUS
  <2>a. s = [r EXCEPT !.left = 0, !.cgi = r.cgi] /\ Reply(c, s, FALSE)
    BY <2>1, <2>2 DEF Record
  <2>3. PICK x \in Record : conn' = [conn EXCEPT ![c] = x] /\ x.left = 0 /\ x.post \in {0, r.post}
    BY <1>1, <2>a, ReplyEnds
  <2>4. Counts(dn) /\ dn[c] = x /\ Shrinks(cn, dn, ps) /\ x.left =< r.left - k
    <3>1. x.left =< r.left - k
      BY <1>1, <2>1, <2>3
    <3>2. dn = [conn EXCEPT ![c] = x] /\ (x.left > 0 => x.post = p) /\ x.post \in {0, p}
      BY <1>6, <2>3 DEF p
    <3> QED
      BY <1>8, <2>3, <3>1, <3>2
  <2>5. Payload(dn, w, 0, ps)
    <3>1. 0 =< len + k /\ k =< k
      BY <1>2, <1>5
    <3> QED
      BY <1>5, <1>9, <2>1, <2>4, <3>1
  <2>6. Spare(ps, faults)
    BY <1>1, <1>2, <2>1 DEF Damage
  <2>7. Damage(dn, w, 0, ps, faults)
    BY <1>1, <1>2, <2>4, <2>6, DamageSpare
  <2> QED
    BY <1>6, <1>7, <2>1, <2>5, <2>7 DEF PostsOK
<1>13. CASE Overflow(c, r, ps, k)
  <2>1. /\ text' = Copied(r, ps, Capacity - len) /\ len' = 0 /\ posts' = ps /\ faults' = faults + 1
        /\ ~ (len + k =< Capacity)
    BY <1>13 DEF Overflow, Fits
  <2>2. PICK x \in Record : /\ conn' = [conn EXCEPT ![c] = x] /\ x.left =< r.left - k
                            /\ x.left > 0 => x.post = p
                            /\ x.post \in {0, p}
    <3>1. CASE k < r.left /\ conn' = [conn EXCEPT ![c] = [r EXCEPT !.left = @ - k, !.cgi = FALSE]]
      <4> DEFINE x == [r EXCEPT !.left = r.left - k, !.cgi = FALSE]
      <4>1. r.left - k \in Nat /\ r.left - k =< r.left - k
        BY <1>1, <1>5
      <4>2. x \in Record /\ x.left = r.left - k /\ x.post = p
        BY <4>1 DEF Record, p
      <4>3. conn' = [conn EXCEPT ![c] = x]
        BY <3>1
      <4> HIDE DEF x
      <4> QED
        BY <4>1, <4>2, <4>3
    <3>2. CASE k = r.left /\ Reply(c, [r EXCEPT !.left = 0, !.cgi = FALSE], FALSE)
      <4>1. PICK x \in Record : conn' = [conn EXCEPT ![c] = x] /\ x.left = 0 /\ x.post \in {0, r.post}
        <5> PICK s : s = [r EXCEPT !.left = 0, !.cgi = FALSE]
          OBVIOUS
        <5> QED
          BY <3>2, ReplyEnds
      <4>2. x.left =< r.left - k /\ ~ (x.left > 0)
        BY <1>1, <3>2, <4>1
      <4> QED
        BY <4>1, <4>2 DEF p
    <3> QED
      BY <1>13, <3>1, <3>2 DEF Overflow
  <2>3. Counts(dn) /\ dn[c] = x /\ Shrinks(cn, dn, ps)
    BY <1>6, <1>8, <2>2
  <2>4. Payload(dn, w, 0, ps)
    <3>1. /\ Capacity - len \in Nat /\ Capacity - len =< k /\ len + (Capacity - len) =< Capacity
          /\ 0 =< len + (Capacity - len) /\ 0 \in Nat
      BY <1>2, <1>5, <2>1
    <3> QED
      BY <1>9, <2>1, <2>2, <2>3, <3>1
  <2>5. faults + 1 \in Nat /\ Spare(ps, faults + 1)
    BY <1>2, SpoiltFinite DEF Spare, Damage
  <2>6. Damage(dn, w, 0, ps, faults + 1)
    BY <1>1, <1>2, <2>3, <2>5, DamageSpare
  <2> QED
    BY <1>6, <1>7, <2>1, <2>4, <2>6 DEF PostsOK
<1> QED
  BY <1>4, <1>10, <1>11, <1>12, <1>13

LEMMA SendLeaves ==
  ASSUME NEW c \in Conns, NEW n, NEW s \in Record, s.open, s.left = 0,
         s.todo + s.unacked =< MaxChunks, Send(c, s, n)
  PROVE  \E x \in Record : /\ conn' = [conn EXCEPT ![c] = x]
                           /\ x.left = 0 /\ x.post \in {0, s.post}
<1>1. CASE Free(c, s, n)
  BY <1>1, ClosedIsGood DEF Free
<1>2. ASSUME NEW x \in Record, Same(x, s), conn' = [conn EXCEPT ![c] = x]
      PROVE  conn' = [conn EXCEPT ![c] = x] /\ x.left = 0 /\ x.post \in {0, s.post}
  BY <1>2 DEF Same
<1> QED
  BY <1>1, <1>2, SendForms

LEMMA BegunIs ==
  ASSUME ConnsOK, posts \in Seq(Post), NEW n \in Nat \ {0}, NEW qs, qs = Begun(n)
  PROVE  Begins(posts, qs, n) /\ AloneInProgress(conn, posts, qs)
<1> DEFINE old == [q \in DOMAIN posts |-> [posts[q] EXCEPT !.alone = @ /\ q \notin InProgress]]
           new == [size |-> n, given |-> <<>>, alone |-> InProgress = {}]
<1>1. Len(posts) \in Nat /\ DOMAIN posts = 1 .. Len(posts)
  BY LenProperties
<1>2. \A q \in DOMAIN posts : posts[q] \in Post
  BY <1>1, ElementOfSeq
<1>3. ASSUME NEW q \in DOMAIN posts
      PROVE  /\ old[q] \in Post /\ old[q].size = posts[q].size /\ old[q].given = posts[q].given
             /\ old[q].alone = (posts[q].alone /\ q \notin InProgress)
  BY <1>2 DEF Post
<1>4. new \in Post /\ new.size = n /\ new.given = <<>> /\ new.alone = (InProgress = {})
  BY DEF Post
<1>5. DOMAIN old = 1 .. Len(posts)
  BY <1>1
<1>6. qs = Append(old, new)
  BY DEF Begun
<1> HIDE DEF old, new
<1>7. old \in Seq(Post) /\ Len(old) = Len(posts)
  <2>1. \A q \in 1 .. Len(posts) : old[q] \in Post
    BY <1>1, <1>3
  <2>2. old = [q \in 1 .. Len(posts) |-> old[q]]
    BY <1>5 DEF old
  <2> QED
    BY <1>1, <1>5, <2>1, <2>2
<1>8. /\ qs \in Seq(Post) /\ Len(qs) = Len(posts) + 1
      /\ \A q \in 1 .. Len(posts) : qs[q] = old[q]
      /\ qs[Len(posts) + 1] = new
  BY <1>4, <1>6, <1>7, AppendProperties
<1>9. \A q : q \in InProgress <=> \E d \in Conns : conn[d].left > 0 /\ conn[d].post = q
  BY DEF InProgress
<1>10. InProgress = {} <=> \A d \in Conns : conn[d].left = 0
  <2>1. \A d \in Conns : conn[d].left > 0 <=> conn[d].left # 0
    BY ConnFacts
  <2> QED
    BY <1>9, <2>1, Zenon
<1>11. Begins(posts, qs, n)
  BY <1>1, <1>3, <1>4, <1>8 DEF Begins
<1>12. ASSUME NEW q \in DOMAIN posts
       PROVE  qs[q].alone <=> (posts[q].alone /\ \A d \in Conns : conn[d].left > 0 => conn[d].post # q)
  BY <1>1, <1>3, <1>8, <1>9
<1>13. qs[Len(posts) + 1].alone <=> (\A d \in Conns : conn[d].left = 0)
  BY <1>4, <1>8, <1>10
<1> QED
  BY <1>11, <1>12, <1>13 DEF AloneInProgress

\* A step that has nothing to do with a body.
LEMMA QuietKeeps ==
  ASSUME ConnsOK, PostsOK(conn, text, len, posts, faults), NEW c \in Conns, NEW x \in Record,
         conn' = [conn EXCEPT ![c] = x], x.left = conn[c].left, x.post \in {0, conn[c].post},
         conn[c].left > 0 => x.post = conn[c].post /\ x.cgi = conn[c].cgi,
         UNCHANGED <<text, len, posts, faults>>
  PROVE  PostsOK(conn, text, len, posts, faults)'
<1>1. PICK cn : cn = conn
  OBVIOUS
<1>2. PICK dn : dn = conn'
  OBVIOUS
<1>3. Counts(cn) /\ Counts(dn) /\ dn[c] = x /\ Others(cn, dn, c)
  BY <1>1, <1>2, Replaced DEF Counts
<1>4. /\ Payload(cn, text, len, posts) /\ Damage(cn, text, len, posts, faults)
      /\ posts \in Seq(Post) /\ Len(posts) \in Nat
  BY <1>1, LenProperties DEF PostsOK, Payload, Types
<1>5. \A d \in Conns : cn[d].post =< Len(posts) /\ cn[d].post \in Nat /\ cn[d].left \in Nat
  BY <1>3, <1>4 DEF Payload, OwnPosts, Counts
<1>6. /\ \A d \in Conns : dn[d].left = cn[d].left /\ dn[d].post \in {0, cn[d].post}
      /\ \A d \in Conns : cn[d].left > 0 => dn[d].post = cn[d].post /\ dn[d].cgi = cn[d].cgi
  BY <1>1, <1>3 DEF Others
<1>7. Shrinks(cn, dn, posts)
  BY <1>4, <1>5, <1>6 DEF Shrinks
<1>8. Payload(dn, text, len, posts)
  BY <1>3, <1>4, <1>7, PayloadStays
<1>9. Damage(dn, text, len, posts, faults)
  BY <1>4, <1>6, DamageQuiet
<1> QED
  BY <1>2, <1>8, <1>9, Zenon DEF PostsOK

\* A connection ends; the POST that is cut off is a fault.
LEMMA EndKeeps ==
  ASSUME ConnsOK, PostsOK(conn, text, len, posts, faults), NEW c \in Conns,
         conn' = [conn EXCEPT ![c] = Closed], CutOff(c), UNCHANGED <<text, len, posts>>
  PROVE  PostsOK(conn, text, len, posts, faults)'
<1>1. CASE conn[c].left = 0
  <2>1. faults' = faults
    BY <1>1 DEF CutOff
  <2>2. Closed.left = conn[c].left /\ Closed.post = 0 /\ Closed \in Record /\ ~ (conn[c].left > 0)
    BY <1>1, ClosedIsGood
  <2> QED
    BY <2>1, <2>2, QuietKeeps
<1>2. CASE conn[c].left # 0
  <2>1. PICK cn : cn = conn
    OBVIOUS
  <2>2. PICK dn : dn = conn'
    OBVIOUS
  <2>3. Counts(cn) /\ Counts(dn) /\ dn[c] = Closed /\ Others(cn, dn, c)
    BY <2>1, <2>2, Replaced, ClosedIsGood DEF Counts
  <2>4. /\ Payload(cn, text, len, posts) /\ Damage(cn, text, len, posts, faults)
        /\ posts \in Seq(Post) /\ Len(posts) \in Nat
    BY <2>1, LenProperties DEF PostsOK, Payload, Types
  <2>5. \A d \in Conns : cn[d].post =< Len(posts) /\ cn[d].left \in Nat
    BY <2>3, <2>4 DEF Payload, OwnPosts, Counts
  <2>6. Shrinks(cn, dn, posts)
    BY <2>3, <2>4, <2>5, ClosedIsGood DEF Shrinks, Others
  <2>7. faults' = faults + 1
    <3>1. conn[c].left > 0
      BY <1>2, <2>1, <2>5
    <3> QED
      BY <3>1 DEF CutOff
  <2>8. Payload(dn, text, len, posts)
    BY <2>3, <2>4, <2>6, PayloadStays
  <2>9. faults + 1 \in Nat /\ Spare(posts, faults + 1)
    BY <2>4, SpoiltFinite DEF Spare, Damage
  <2>10. Damage(dn, text, len, posts, faults + 1)
    BY <2>3, <2>4, <2>6, <2>9, DamageSpare
  <2> QED
    BY <2>2, <2>7, <2>8, <2>10, Zenon DEF PostsOK
<1> QED
  BY <1>1, <1>2

\* The header of a POST, perhaps with a part of its body behind it.
LEMMA PostRequestKeeps ==
  ASSUME ConnsOK, inuse \in Nat, PostsOK(conn, text, len, posts, faults), NEW c \in Conns,
         NEW n \in Sizes, PostRequest(c, n)
  PROVE  PostsOK(conn, text, len, posts, faults)'
<1>1. /\ Payload(conn, text, len, posts) /\ Damage(conn, text, len, posts, faults)
      /\ posts \in Seq(Post) /\ Len(posts) \in Nat
  BY LenProperties DEF PostsOK, Payload, Types
<1>2. /\ conn[c].open /\ conn[c].left = 0 /\ ~conn[c].handle /\ conn[c].todo = 0
      /\ conn[c].unacked = 0 /\ Len(posts) < MaxPosts
  BY DEF PostRequest, Unanswered, Parsing
<1>3. n \in Nat \ {0}
  BY Bounds
<1>4. PICK r : r = [conn[c] EXCEPT !.req = 0, !.post = Len(posts) + 1, !.left = n, !.cgi = TRUE]
  OBVIOUS
<1>5. PICK qs : qs = Begun(n)
  OBVIOUS
<1>6. \/ conn' = [conn EXCEPT ![c] = r] /\ posts' = qs /\ UNCHANGED <<text, len, faults>>
      \/ PostBody(c, r, qs)
  BY <1>4, <1>5 DEF PostRequest, payload
<1>7. r \in Record
  <2>1. Len(posts) + 1 \in Nat /\ n \in Nat
    BY <1>1, <1>3
  <2>2. conn[c] \in Record
    BY ConnFacts
  <2> QED
    BY <1>4, <2>1, <2>2 DEF Record
<1>8. /\ r.open = conn[c].open /\ r.handle = conn[c].handle /\ r.left = n
      /\ r.todo = conn[c].todo /\ r.unacked = conn[c].unacked /\ r.post = Len(posts) + 1 /\ r.cgi
  BY <1>4, ConnFacts DEF Record
<1>9. PICK cn : cn = conn
  OBVIOUS
<1>10. PICK dn : dn = [conn EXCEPT ![c] = r]
  OBVIOUS
<1>11. Counts(cn) /\ Counts(dn) /\ dn[c] = r /\ Others(cn, dn, c)
  BY <1>7, <1>9, <1>10, Replaced DEF Counts
<1>12. Begins(posts, qs, n) /\ AloneInProgress(cn, posts, qs)
  BY <1>1, <1>3, <1>5, <1>9, BegunIs
<1>13. Payload(dn, text, len, qs)
  BY <1>1, <1>2, <1>3, <1>8, <1>9, <1>11, <1>12, BeginKeeps
<1>14. Damage(dn, text, len, qs, faults)
  <2>1. /\ Payload(cn, text, len, posts) /\ Damage(cn, text, len, posts, faults) /\ cn[c].left = 0
        /\ dn[c].left = n /\ dn[c].post = Len(posts) + 1 /\ dn[c].cgi
    BY <1>1, <1>2, <1>8, <1>9, <1>11
  <2> QED
    BY <1>3, <1>11, <1>12, <2>1, DamageBegin
<1>15. PostsOK(dn, text, len, qs, faults)
  BY <1>13, <1>14 DEF PostsOK
<1>16. CASE conn' = [conn EXCEPT ![c] = r] /\ posts' = qs /\ UNCHANGED <<text, len, faults>>
  BY <1>10, <1>15, <1>16
<1>17. CASE PostBody(c, r, qs)
  <2>1. r.open /\ r.left > 0 /\ ~r.handle /\ r.todo = 0 /\ r.unacked = 0
    BY <1>2, <1>3, <1>8
  <2> QED
    BY <1>2, <1>7, <1>10, <1>15, <1>17, <2>1, BodyKeeps
<1> QED
  BY <1>6, <1>16, <1>17

LEMMA PostDataKeeps ==
  ASSUME ConnsOK, inuse \in Nat, PostsOK(conn, text, len, posts, faults), NEW c \in Conns,
         PostData(c)
  PROVE  PostsOK(conn, text, len, posts, faults)'
<1>1. /\ Payload(conn, text, len, posts) /\ Damage(conn, text, len, posts, faults)
      /\ posts \in Seq(Post) /\ Len(posts) \in Nat
  BY LenProperties DEF PostsOK, Payload, Types
<1>2. PICK r : r = [conn[c] EXCEPT !.retries = 0]
  OBVIOUS
<1>3. PostBody(c, r, posts)
  BY <1>2 DEF PostData
<1>4. r \in Record
  <2>1. 0 \in 0 .. MaxRetries - 1
    BY Bounds
  <2> QED
    BY <1>2, <2>1, ConnFacts DEF Record
<1>5. /\ r.open = conn[c].open /\ r.handle = conn[c].handle /\ r.left = conn[c].left
      /\ r.todo = conn[c].todo /\ r.unacked = conn[c].unacked /\ r.post = conn[c].post
      /\ r.cgi = conn[c].cgi
  BY <1>2, ConnFacts DEF Record
<1>6. conn[c].left > 0
  BY <1>3, <1>5, ConnFacts DEF PostBody
<1>7. conn[c].open /\ ~conn[c].handle /\ conn[c].todo = 0 /\ conn[c].unacked = 0
  BY <1>6, ConnFacts, ClosedIsGood
<1>8. PICK cn : cn = conn
  OBVIOUS
<1>9. PICK dn : dn = [conn EXCEPT ![c] = r]
  OBVIOUS
<1>10. Counts(cn) /\ Counts(dn) /\ dn[c] = r /\ Others(cn, dn, c)
  BY <1>4, <1>8, <1>9, Replaced DEF Counts
<1>11. \A d \in Conns : dn[d].left = cn[d].left /\ dn[d].post = cn[d].post /\ dn[d].cgi = cn[d].cgi
  BY <1>5, <1>8, <1>10 DEF Others
<1>12. Shrinks(cn, dn, posts)
  BY <1>1, <1>8, <1>10, <1>11 DEF Shrinks, Payload, OwnPosts, Counts
<1>13. Payload(dn, text, len, posts)
  BY <1>1, <1>8, <1>10, <1>12, PayloadStays
<1>14. Damage(dn, text, len, posts, faults)
  BY <1>1, <1>8, <1>11, DamageQuiet
<1>15. PostsOK(dn, text, len, posts, faults)
  BY <1>13, <1>14 DEF PostsOK
<1> QED
  BY <1>3, <1>4, <1>5, <1>6, <1>7, <1>9, <1>15, BodyKeeps

LEMMA PostsKeep ==
  ASSUME Base, PostsOK(conn, text, len, posts, faults), NEW c \in Conns,
         \/ Accept(c) \/ Enqueue(c) \/ BadRequest(c) \/ GetRequest(c) \/ DataBehind(c)
         \/ \E n \in Sizes : PostRequest(c, n)
         \/ PostData(c) \/ Sent(c) \/ Poll(c) \/ PeerClose(c) \/ Abort(c)
  PROVE  PostsOK(conn, text, len, posts, faults)'
<1> DEFINE r == conn[c]
<1>t. ConnsOK /\ inuse \in Nat
  BY Bounds DEF Base, FilesOK
<1>r. /\ r \in Record /\ r.left \in Nat /\ r.post \in Nat /\ r.todo \in Nat /\ r.unacked \in Nat
      /\ r.open \/ r = Closed
      /\ r.left > 0 => ~r.handle /\ r.unacked = 0
      /\ r.todo + r.unacked =< MaxChunks /\ MaxChunks \in Nat
  BY <1>t, ConnFacts, Bounds
<1>1. ASSUME r.left = 0, UNCHANGED <<text, len, posts, faults>>,
             \E x \in Record : conn' = [conn EXCEPT ![c] = x] /\ x.left = 0 /\ x.post \in {0, r.post}
      PROVE  PostsOK(conn, text, len, posts, faults)'
  <2>1. PICK x \in Record : conn' = [conn EXCEPT ![c] = x] /\ x.left = 0 /\ x.post \in {0, r.post}
    BY <1>1
  <2>2. x.left = conn[c].left /\ ~ (conn[c].left > 0)
    BY <1>1, <2>1
  <2> QED
    BY <1>t, <1>1, <2>1, <2>2, QuietKeeps
<1>2. ASSUME UNCHANGED <<text, len, posts, faults>>, NEW x \in Record,
             conn' = [conn EXCEPT ![c] = x], x.left = r.left, x.post = r.post, x.cgi = r.cgi
      PROVE  PostsOK(conn, text, len, posts, faults)'
  BY <1>t, <1>2, QuietKeeps
<1>3. CASE Accept(c)
  <2> DEFINE x == [Closed EXCEPT !.open = TRUE]
  <2>1. r = Closed
    BY <1>r, <1>3 DEF Accept
  <2>2. x \in Record /\ x.left = Closed.left /\ x.post = Closed.post /\ x.cgi = Closed.cgi
    BY ClosedIsGood DEF Record
  <2>3. conn' = [conn EXCEPT ![c] = x] /\ UNCHANGED <<text, len, posts, faults>>
    BY <1>3 DEF Accept, payload
  <2> HIDE DEF x
  <2> QED
    BY <1>2, <2>1, <2>2, <2>3
<1>4. CASE Enqueue(c)
  <2> DEFINE x == [r EXCEPT !.req = r.req + 1]
  <2>1. r.req + 1 \in Nat
    BY <1>t, ConnFacts
  <2>2. x \in Record /\ x.left = r.left /\ x.post = r.post /\ x.cgi = r.cgi
    BY <1>r, <2>1 DEF Record
  <2>3. conn' = [conn EXCEPT ![c] = x] /\ UNCHANGED <<text, len, posts, faults>>
    BY <1>4 DEF Enqueue, payload
  <2> HIDE DEF x
  <2> QED
    BY <1>2, <2>2, <2>3
<1>5. CASE BadRequest(c)
  <2>1. r.left = 0 /\ conn' = [conn EXCEPT ![c] = Closed] /\ UNCHANGED <<text, len, posts, faults>>
    BY <1>5 DEF BadRequest, Parsing, Free, payload
  <2> QED
    BY <1>1, <2>1, ClosedIsGood
<1>6. CASE GetRequest(c)
  <2>1. /\ r.open /\ r.left = 0 /\ ~r.handle /\ r.todo = 0 /\ r.unacked = 0
        /\ UNCHANGED <<text, len, posts, faults>>
    BY <1>6 DEF GetRequest, Unanswered, Parsing, payload
  <2>2. PICK s : s = [r EXCEPT !.req = 0]
    OBVIOUS
  <2>3. PICK found \in BOOLEAN : Reply(c, s, found)
    BY <1>6, <2>2 DEF GetRequest
  <2>4. s \in Record
    BY <1>r, <2>2 DEF Record
  <2>5. /\ s.open = r.open /\ s.left = r.left /\ s.handle = r.handle /\ s.todo = r.todo
        /\ s.unacked = r.unacked /\ s.post = r.post
    BY <1>r, <2>2 DEF Record
  <2>6. \E x \in Record : conn' = [conn EXCEPT ![c] = x] /\ x.left = 0 /\ x.post \in {0, s.post}
    BY <1>t, <2>1, <2>3, <2>4, <2>5, ReplyLeaves
  <2> QED
    BY <1>1, <2>1, <2>5, <2>6
<1>7. CASE DataBehind(c)
  BY <1>7 DEF DataBehind, payload
<1>8. CASE \E n \in Sizes : PostRequest(c, n)
  BY <1>t, <1>8, PostRequestKeeps
<1>9. CASE PostData(c)
  BY <1>t, <1>9, PostDataKeeps
<1>10. CASE Sent(c)
  <2>1. PICK a \in 1 .. r.unacked :
          Send(c, [r EXCEPT !.retries = 0, !.unacked = @ - a], inuse)
    BY <1>10 DEF Sent
  <2>2. r.unacked > 0 /\ r.unacked - a \in Nat /\ 0 \in 0 .. MaxRetries - 1
    BY <1>r, Bounds
  <2>3. r.left = 0 /\ r.open
    BY <1>r, <2>2, ClosedIsGood
  <2>4. PICK s : s = [r EXCEPT !.retries = 0, !.unacked = r.unacked - a]
    OBVIOUS
  <2>5. Send(c, s, inuse)
    BY <2>1, <2>4
  <2>6. s \in Record
    BY <1>r, <2>2, <2>4 DEF Record
  <2>7. s.open = r.open /\ s.left = r.left /\ s.todo = r.todo /\ s.unacked = r.unacked - a /\ s.post = r.post
    BY <1>r, <2>4 DEF Record
  <2>8. s.todo + s.unacked =< MaxChunks
    BY <1>r, <2>2, <2>7
  <2>9. \E x \in Record : conn' = [conn EXCEPT ![c] = x] /\ x.left = 0 /\ x.post \in {0, s.post}
    BY <2>3, <2>5, <2>6, <2>7, <2>8, SendLeaves
  <2>10. UNCHANGED <<text, len, posts, faults>>
    BY <1>10 DEF Sent, payload
  <2> QED
    BY <1>1, <2>3, <2>7, <2>9, <2>10
<1>11. CASE Poll(c)
  <2>1. UNCHANGED <<text, len>> /\ r.open
    BY <1>11 DEF Poll, payload
  <2>2. PICK s : s = [r EXCEPT !.retries = @ + 1]
    OBVIOUS
  <2>3. CASE CloseConn(c)
    BY <1>t, <2>1, <2>3, EndKeeps DEF CloseConn, Free
  <2>4. ASSUME s.retries < MaxRetries
        PROVE  /\ s \in Record /\ s.open = r.open /\ s.left = r.left /\ s.todo = r.todo
               /\ s.unacked = r.unacked /\ s.post = r.post /\ s.cgi = r.cgi
    <3>1. r.retries \in Nat /\ s.retries = r.retries + 1
      BY <1>r, <2>2, Bounds DEF Record
    <3>2. r.retries + 1 \in 0 .. MaxRetries - 1
      BY <2>4, <3>1, Bounds
    <3>3. s \in Record
      BY <1>r, <2>2, <3>2 DEF Record
    <3>4. /\ s.open = r.open /\ s.left = r.left /\ s.todo = r.todo
          /\ s.unacked = r.unacked /\ s.post = r.post /\ s.cgi = r.cgi
      BY <1>r, <2>2 DEF Record
    <3> QED
      BY <3>3, <3>4
  <2>5. CASE s.retries < MaxRetries /\ r.handle /\ Send(c, s, inuse) /\ UNCHANGED <<posts, faults>>
    <3>1. r.left = 0 /\ s.todo + s.unacked =< MaxChunks
      BY <1>r, <2>4, <2>5
    <3>2. \E x \in Record : conn' = [conn EXCEPT ![c] = x] /\ x.left = 0 /\ x.post \in {0, s.post}
      BY <2>1, <2>4, <2>5, <3>1, SendLeaves
    <3> QED
      BY <1>1, <2>1, <2>4, <2>5, <3>1, <3>2
  <2>6. CASE s.retries < MaxRetries /\ conn' = [conn EXCEPT ![c] = s] /\ UNCHANGED <<posts, faults>>
    BY <1>2, <2>1, <2>4, <2>6
  <2> QED
    BY <1>11, <2>2, <2>3, <2>5, <2>6 DEF Poll, Idle
<1>12. CASE PeerClose(c) \/ Abort(c)
  BY <1>12, <1>t, EndKeeps DEF PeerClose, Abort, CloseConn, Free, payload
<1> QED
  BY <1>3, <1>4, <1>5, <1>6, <1>7, <1>8, <1>9, <1>10, <1>11, <1>12

LEMMA HttpInit == Init => HttpInv
<1> SUFFICES ASSUME Init PROVE HttpInv
  OBVIOUS
<1>1. \A c \in Conns : conn[c] = Closed
  BY DEF Init
<1>2. ConnsOK
  BY ClosedIsGood DEF ConnsOK, Init
<1>3. FilesOK
  <2>1. {c \in Conns : conn[c].handle} = {}
    BY <1>1, ClosedIsGood
  <2> QED
    <3>1. Cardinality({}) = 0
      BY FS_EmptySet
    <3>2. inuse = 0 /\ 0 \in 0 .. MaxOpen
      BY Bounds DEF Init
    <3> QED
      BY <2>1, <3>1, <3>2 DEF FilesOK, FilesAccounted
<1>4. HeldOK
  <2>1. Held = {}
    BY <1>1, ClosedIsGood, Bounds DEF Held
  <2> QED
    <3>1. Cardinality(Held) = 0
      BY <2>1, FS_EmptySet
    <3>a. pbufs = 0 /\ untidy \in BOOLEAN
      BY DEF Init
    <3>b. 0 \in 0 .. Pool
      BY Bounds
    <3>2. pbufs = 0 /\ 0 \in 0 .. Pool /\ untidy \in BOOLEAN
      BY <3>a, <3>b
    <3>3. \A c \in Conns : conn[c].req =< Pool
      BY <1>1, ClosedIsGood, Bounds
    <3> QED
      BY <3>1, <3>2, <3>3 DEF HeldOK, PbufsReturned
<1>5. text = <<>> /\ len = 0 /\ posts = <<>> /\ faults = 0
  BY DEF Init
<1>6. Payload(conn, <<>>, 0, <<>>)
  <2>1. Types(<<>>, 0, <<>>)
    BY Bounds DEF Types
  <2>2. OwnPosts(conn, <<>>)
    BY <1>1, ClosedIsGood DEF OwnPosts
  <2>3. Places(conn, <<>>, <<>>) /\ Once(<<>>, <<>>)
    BY DEF Places, Once
  <2> QED
    BY <2>1, <2>2, <2>3 DEF Payload
<1>7. Damage(conn, <<>>, 0, <<>>, 0)
  <2>1. Spoilt(<<>>) = {}
    BY DEF Spoilt
  <2>2. Cardinality({}) = 0
    BY FS_EmptySet
  <2>3. \A c \in Conns : ~ (conn[c].left > 0)
    BY <1>1, ClosedIsGood
  <2>4. Cardinality(Spoilt(<<>>)) =< 0 /\ 0 \in Nat
    BY <2>1, <2>2
  <2> QED
    BY <2>3, <2>4, Zenon DEF Damage
<1> QED
  BY <1>2, <1>3, <1>4, <1>5, <1>6, <1>7 DEF HttpInv, Base, PostsOK

LEMMA HttpNext == HttpInv /\ [Next]_vars => HttpInv'
<1> SUFFICES ASSUME HttpInv, [Next]_vars PROVE HttpInv'
  OBVIOUS
<1>1. Base /\ ConnsOK /\ FilesOK /\ HeldOK /\ PostsOK(conn, text, len, posts, faults)
  BY DEF HttpInv, Base
<1>2. CASE UNCHANGED vars
  <2>1. /\ conn' = conn /\ text' = text /\ len' = len /\ inuse' = inuse /\ pbufs' = pbufs
        /\ posts' = posts /\ faults' = faults /\ untidy' = untidy
    BY <1>2 DEF vars
  <2>2. ConnsOK'
    BY <1>1, <2>1, Zenon DEF ConnsOK
  <2>3. FilesOK'
    BY <1>1, <2>1, Zenon DEF FilesOK, FilesAccounted
  <2>4. HeldOK'
    BY <1>1, <2>1, Zenon DEF HeldOK, PbufsReturned, Held
  <2>5. PostsOK(conn, text, len, posts, faults)'
    BY <1>1, <2>1
  <2> QED
    BY <2>2, <2>3, <2>4, <2>5 DEF HttpInv, Base
<1>3. ASSUME NEW c \in Conns,
             \/ Accept(c) \/ Enqueue(c) \/ BadRequest(c) \/ GetRequest(c) \/ DataBehind(c)
             \/ \E n \in Sizes : PostRequest(c, n)
             \/ PostData(c) \/ Sent(c) \/ Poll(c) \/ PeerClose(c) \/ Abort(c)
      PROVE  HttpInv'
  <2>1. Len(posts) \in Nat
    BY <1>1, LenProperties DEF PostsOK, Payload, Types
  <2>2. PICK x : Becomes(c, x) /\ FileMove(c, x) /\ ReqMove(c, x)
    BY <1>1, <1>3, <2>1, ActionMoves DEF Moves
  <2>3. ConnsOK' /\ FilesOK' /\ HeldOK'
    BY <1>1, <2>2, ConnsMove, FilesMove, HeldMove
  <2>4. PostsOK(conn, text, len, posts, faults)'
    BY <1>1, <1>3, PostsKeep
  <2> QED
    BY <2>3, <2>4 DEF HttpInv, Base
<1> QED
  BY <1>2, <1>3 DEF Next

LEMMA HttpAlways == Spec => []HttpInv
<1> QED
  BY HttpInit, HttpNext, PTL DEF Spec
-----------------------------------------------------------------------------
(***************************************************************************)
(* The theorems.                                                           *)
(***************************************************************************)

\* The state always has its types, and the payload stays inside the buffer of
\* http_post_payload, whatever the sizes of the bodies and of their parts.
THEOREM TypeCorrect == Spec => []TypeOK
<1>1. HttpInv => TypeOK
  <2> SUFFICES ASSUME HttpInv PROVE TypeOK
    OBVIOUS
  <2>1. /\ ConnsOK /\ inuse \in 0 .. MaxOpen /\ pbufs \in 0 .. Pool /\ untidy \in BOOLEAN
        /\ \A c \in Conns : conn[c].req =< Pool
        /\ Payload(conn, text, len, posts) /\ faults \in Nat
    BY DEF HttpInv, Base, FilesOK, HeldOK, PostsOK, Damage
  <2>2. /\ posts \in Seq(Post) /\ Len(posts) \in Nat /\ Len(posts) =< MaxPosts /\ text \in Seq(Unit)
        /\ len \in 0 .. Len(text) /\ Len(text) =< Capacity
    BY <2>1, LenProperties DEF Payload, Types
  <2>3. ASSUME NEW c \in Conns
        PROVE  DOMAIN conn[c] = DOMAIN Closed /\ ConnOK(conn[c])
    <3>1. conn[c] \in Record /\ Good(conn[c]) /\ conn[c].req =< Pool /\ conn[c].post =< Len(posts)
      BY <2>1, ConnFacts DEF Payload, OwnPosts
    <3>2. DOMAIN conn[c] = DOMAIN Closed
      BY <3>1 DEF Record, Closed
    <3>3. /\ conn[c].open \in BOOLEAN /\ conn[c].cgi \in BOOLEAN /\ conn[c].handle \in BOOLEAN
          /\ conn[c].req \in Nat /\ conn[c].retries \in 0 .. MaxRetries - 1
          /\ conn[c].post \in Nat /\ conn[c].left \in Nat
          /\ conn[c].todo \in Nat /\ conn[c].unacked \in Nat
      BY <3>1 DEF Record
    <3>4. conn[c].req \in 0 .. Pool /\ conn[c].post \in 0 .. Len(posts)
      BY <2>2, <3>1, <3>3, Bounds
    <3>5. conn[c].todo \in 0 .. MaxChunks /\ conn[c].unacked \in 0 .. MaxChunks
      BY <3>1, <3>3, Bounds DEF Good
    <3> QED
      BY <3>2, <3>3, <3>4, <3>5 DEF ConnOK
  <2>4. ASSUME NEW i \in DOMAIN text
        PROVE  text[i] \in (DOMAIN posts) \X Nat
    <3>1. text[i] \in Nat \X Nat
      BY <2>2, ElementOfSeq, LenProperties DEF Unit
    <3>2. text[i][1] \in DOMAIN posts
      BY <2>1 DEF Payload, Places, Received
    <3> QED
      BY <3>1, <3>2
  <2> QED
    BY <2>1, <2>2, <2>3, <2>4 DEF TypeOK
<1> QED
  BY <1>1, HttpAlways, PTL

\* However the connections end, fs_memory has an entry in use for each file that
\* is open, and only for these.
THEOREM FilesAlwaysAccounted == Spec => []FilesAccounted
<1>1. HttpInv => FilesAccounted
  BY DEF HttpInv, Base, FilesOK
<1> QED
  BY <1>1, HttpAlways, PTL

\* Each pbuf received is freed or held in a request that is coming in, while no
\* connection has ended inside its request or received data behind it.
THEOREM PbufsAlwaysReturned == Spec => []PbufsReturned
<1>1. HttpInv => PbufsReturned
  BY DEF HttpInv, Base, HeldOK
<1> QED
  BY <1>1, HttpAlways, PTL

\* No parameter is given to the CGI handlers twice, for any number of POSTs that
\* overlap, are cut off or overflow the buffer they share.
THEOREM ParametersAlwaysGivenOnce == Spec => []ParametersGivenOnce
<1>1. HttpInv => ParametersGivenOnce
  <2> SUFFICES ASSUME HttpInv PROVE ParametersGivenOnce
    OBVIOUS
  <2>1. Once(text, posts)
    BY DEF HttpInv, PostsOK, Payload
  <2>2. ASSUME NEW p \in DOMAIN posts, NEW q \in DOMAIN posts, p # q
        PROVE  ToSet(posts[p].given) \cap ToSet(posts[q].given) = {}
    BY <2>1, <2>2 DEF Once, ToSet
  <2>3. ASSUME NEW p \in DOMAIN posts
        PROVE  IsInjective(posts[p].given)
    BY <2>1 DEF Once, IsInjective
  <2> QED
    BY <2>2, <2>3 DEF ParametersGivenOnce
<1> QED
  BY <1>1, HttpAlways, PTL

\* A handler that is called with anything but the body of its own POST, while no
\* other POST was in progress, is accounted for by a POST that was cut off or did
\* not fit, one for each such call.
THEOREM DamageAlwaysAccounted == Spec => []DamageAccounted
<1>1. HttpInv => DamageAccounted
  <2> SUFFICES ASSUME HttpInv PROVE DamageAccounted
    OBVIOUS
  <2>1. Cardinality(Spoilt(posts)) =< faults
    BY DEF HttpInv, PostsOK, Damage
  <2>2. \A p : Body(p) = Start(p, posts[p].size)
    BY DEF Body, Start
  <2>3. {p \in DOMAIN posts : Damaged(p) /\ posts[p].alone} = Spoilt(posts)
    BY <2>2 DEF Spoilt, Damaged, Called
  <2> QED
    BY <2>1, <2>3 DEF DamageAccounted
<1> QED
  BY <1>1, HttpAlways, PTL
=============================================================================
