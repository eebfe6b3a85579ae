------------------------------ MODULE HttpConn ------------------------------
(***************************************************************************)
(* The connections of the web server (httpd.c, fs.c): requests that come   *)
(* in one or several segments, POST bodies collected for a CGI handler,    *)
(* replies sent as the client acknowledges them, and the ways in which a   *)
(* connection ends.  lwIP's thread runs each callback to its end, so a     *)
(* callback is one action.                                                 *)
(*                                                                         *)
(* All connections share http_post_payload.  A body is a sequence of       *)
(* units, the parameters; the text of the buffer is what                   *)
(* extract_uri_parameters would read from it, up to the first NUL.  The    *)
(* parse puts NULs between the units, so nothing is left of the text       *)
(* behind it (it takes 16 parameters, more than a page submits); what the  *)
(* value of the last parameter then picks up of older bytes is left out,   *)
(* the pages end with a parameter that nobody reads.                       *)
(*                                                                         *)
(* Clients send one request on a connection.  tcp_close succeeds.  A       *)
(* segment is a chain of pbufs with a unit each, counted as one pbuf.      *)
(***************************************************************************)
EXTENDS Integers, SequencesExt

CONSTANTS
  Conns,       \* connections, as many as lwIP has pcbs and memory for
  Sizes,       \* lengths of POST bodies
  Capacity,    \* LWIP_HTTPD_POST_MAX_PAYLOAD_LEN
  MaxOpen,     \* LWIP_MAX_OPEN_FILES
  MaxRetries,  \* HTTPD_MAX_RETRIES
  Pool,        \* pbufs that can be received into
  MaxChunks,   \* bound: portions in which a reply is sent
  MaxPosts     \* bound: POSTs that are begun

ASSUME HttpConstants ==
  /\ IsFiniteSet(Conns) /\ Sizes \subseteq Nat \ {0}
  /\ Capacity \in Nat /\ MaxOpen \in Nat /\ MaxRetries \in Nat \ {0}
  /\ Pool \in Nat /\ MaxChunks \in Nat \ {0} /\ MaxPosts \in Nat

VARIABLES
  conn,     \* the http_state of each connection
  text,     \* http_post_payload, up to its first NUL
  len,      \* http_post_payload_len
  inuse,    \* entries of fs_memory in use
  pbufs,    \* pbufs received and not freed
  posts,    \* history: the POSTs that have begun
  faults,   \* history: POSTs cut off, and times the payload overflowed
  untidy    \* history: a connection ended inside a request, or got data behind it

vars == <<conn, text, len, inuse, pbufs, posts, faults, untidy>>
-----------------------------------------------------------------------------
Closed ==
  [open |-> FALSE,
   req |-> 0,          \* pbufs of the request so far
   retries |-> 0,
   post |-> 0,         \* which POST this is
   left |-> 0,         \* post_content_len_left
   cgi |-> FALSE,      \* cgi_handler_index # -1
   handle |-> FALSE,   \* a file is open
   todo |-> 0,         \* portions of the reply to be sent
   unacked |-> 0]      \* portions that the client has not acknowledged

Init ==
  /\ conn = [c \in Conns |-> Closed]
  /\ text = <<>> /\ len = 0
  /\ inuse = 0 /\ pbufs = 0
  /\ posts = <<>> /\ faults = 0 /\ untidy = FALSE

Body(p) == [i \in 1 .. posts[p].size |-> <<p, i>>]
InProgress == {conn[c].post : c \in {d \in Conns : conn[d].left > 0}}

payload == <<text, len>>
-----------------------------------------------------------------------------
(* The ends of a connection. *)

\* mutant: the file of the reply stays open
Free_KeepsFile(c, r, n) ==
  /\ conn' = [conn EXCEPT ![c] = Closed]
  /\ inuse' = n
  /\ untidy' = (untidy \/ r.req > 0)

\* http_state_free of r, with n files in use; the pbufs of req are not freed
Free(c, r, n) ==
  /\ conn' = [conn EXCEPT ![c] = Closed]
  /\ inuse' = IF r.handle THEN n - 1 ELSE n
  /\ untidy' = (untidy \/ r.req > 0)

CutOff(c) == faults' = IF conn[c].left > 0 THEN faults + 1 ELSE faults

\* http_close_conn outside of http_send_data
CloseConn(c) ==
  /\ Free(c, conn[c], inuse)
  /\ CutOff(c)
  /\ UNCHANGED posts

\* http_recv without data
PeerClose(c) ==
  /\ conn[c].open
  /\ CloseConn(c)
  /\ UNCHANGED <<payload, pbufs>>

\* http_err
Abort(c) ==
  /\ conn[c].open
  /\ Free(c, conn[c], inuse) /\ CutOff(c)
  /\ UNCHANGED <<payload, pbufs, posts>>
-----------------------------------------------------------------------------
(* Replies. *)

\* http_send_data with the state r, n files being in use; whatever fits into
\* the send buffer is sent.  Headers without a file (handle is NULL) leave
\* the connection open until they are acknowledged.
Send(c, r, n) ==
  \/ /\ r.todo = 0
     /\ Free(c, r, n)
  \/ \E k \in 0 .. r.todo - 1 :
       /\ conn' = [conn EXCEPT ![c] = [r EXCEPT !.todo = @ - k, !.unacked = @ + k]]
       /\ inuse' = n /\ UNCHANGED untidy
  \/ /\ r.todo > 0 /\ r.handle
     /\ Free(c, r, n)
  \/ /\ r.todo > 0 /\ ~r.handle
     /\ conn' = [conn EXCEPT ![c] = [r EXCEPT !.todo = 0, !.unacked = @ + r.todo]]
     /\ inuse' = n /\ UNCHANGED untidy

\* fs_malloc finds an entry
CanOpen == inuse < MaxOpen

\* http_find_file, http_init_file, http_send_data: without an entry in
\* fs_memory not even a page for the error is found
Reply(c, r, found) ==
  \/ /\ found /\ CanOpen
     /\ \E t \in 1 .. MaxChunks :
          Send(c, [r EXCEPT !.retries = 0, !.handle = TRUE, !.todo = t], inuse + 1)
  \/ /\ ~found \/ ~CanOpen
     /\ Send(c, [r EXCEPT !.retries = 0, !.todo = 1], inuse)

\* http_sent
Sent(c) ==
  /\ \E a \in 1 .. conn[c].unacked :
       Send(c, [conn[c] EXCEPT !.retries = 0, !.unacked = @ - a], inuse)
  /\ UNCHANGED <<payload, pbufs, posts, faults>>

Idle(c) == [conn[c] EXCEPT !.retries = @ + 1]

\* mutant: retries is counted for connections that have a file only
Poll_FilesOnly(c) ==
  /\ conn[c].open
  /\ \/ /\ conn[c].handle /\ Idle(c).retries = MaxRetries
        /\ CloseConn(c)
     \/ /\ conn[c].handle /\ Idle(c).retries < MaxRetries
        /\ Send(c, Idle(c), inuse)
        /\ UNCHANGED <<posts, faults>>
     \/ /\ ~conn[c].handle
        /\ UNCHANGED <<conn, inuse, posts, faults, untidy>>
  /\ UNCHANGED <<payload, pbufs>>

\* http_poll
Poll(c) ==
  /\ conn[c].open
  /\ \/ /\ Idle(c).retries = MaxRetries
        /\ CloseConn(c)
     \/ /\ Idle(c).retries < MaxRetries /\ conn[c].handle
        /\ Send(c, Idle(c), inuse)
        /\ UNCHANGED <<posts, faults>>
     \/ /\ Idle(c).retries < MaxRetries /\ ~conn[c].handle
        /\ conn' = [conn EXCEPT ![c] = Idle(c)]
        /\ UNCHANGED <<inuse, posts, faults, untidy>>
  /\ UNCHANGED <<payload, pbufs>>
-----------------------------------------------------------------------------
(* Requests. *)

\* http_accept
Accept(c) ==
  /\ ~conn[c].open
  /\ conn' = [conn EXCEPT ![c] = [Closed EXCEPT !.open = TRUE]]
  /\ UNCHANGED <<payload, inuse, pbufs, posts, faults, untidy>>

\* http_recv goes to http_parse_request
Parsing(c) == conn[c].open /\ conn[c].left = 0 /\ ~conn[c].handle /\ pbufs < Pool
Unanswered(c) == Parsing(c) /\ conn[c].todo = 0 /\ conn[c].unacked = 0

\* ERR_INPROGRESS: the segment joins hs->req
Enqueue(c) ==
  /\ Parsing(c)
  /\ conn' = [conn EXCEPT ![c].req = @ + 1]
  /\ pbufs' = pbufs + 1
  /\ UNCHANGED <<payload, inuse, posts, faults, untidy>>

\* mutant: only the last segment of a request is freed
Freed_Last(c) == pbufs' = pbufs

\* the segments of a request are freed once it is parsed
Freed(c) == pbufs' = pbufs - conn[c].req

\* ERR_ARG
BadRequest(c) ==
  /\ Parsing(c)
  /\ Free(c, [conn[c] EXCEPT !.req = 0], inuse)
  /\ Freed(c)
  /\ UNCHANGED <<payload, posts, faults>>

\* GET, or POST to what is not a CGI handler
GetRequest(c) ==
  /\ Unanswered(c)
  /\ \E found \in BOOLEAN : Reply(c, [conn[c] EXCEPT !.req = 0], found)
  /\ Freed(c)
  /\ UNCHANGED <<payload, posts, faults>>

\* http_recv: already sending data
DataBehind(c) ==
  /\ conn[c].open /\ conn[c].handle /\ pbufs < Pool
  /\ pbufs' = pbufs + 1 /\ untidy' = TRUE
  /\ UNCHANGED <<conn, payload, inuse, posts, faults>>

-----------------------------------------------------------------------------
(* httpd_post_receive_data with k units of the body, r being the state of the *)
(* connection and ps the POSTs.                                               *)

\* mutant: one unit more than the buffer holds
Fits_OneMore(k) == len + k =< Capacity + 1

Fits(k) == len + k =< Capacity

Units(r, ps, k) == [i \in 1 .. k |-> <<r.post, ps[r.post].size - r.left + i>>]

\* the text after k units have been copied to where len points
Copied(r, ps, k) ==
  SubSeq(text, 1, len) \o Units(r, ps, k) \o SubSeq(text, len + k + 1, Len(text))

\* mutant: len does not move
Store_ForgetsLen(c, r, ps, k) ==
  /\ Fits(k) /\ k < r.left
  /\ text' = Copied(r, ps, k) /\ UNCHANGED len
  /\ conn' = [conn EXCEPT ![c] = [r EXCEPT !.left = @ - k]]
  /\ posts' = ps
  /\ UNCHANGED <<inuse, faults, untidy>>

Store(c, r, ps, k) ==
  /\ Fits(k) /\ k < r.left
  /\ text' = Copied(r, ps, k) /\ len' = len + k
  /\ conn' = [conn EXCEPT ![c] = [r EXCEPT !.left = @ - k]]
  /\ posts' = ps
  /\ UNCHANGED <<inuse, faults, untidy>>

\* what extract_uri_parameters leaves of the text it takes apart
Extracted == <<>>

\* mutant: the handler gets a copy of the text to take apart
CallCgi_Copy(c, r, ps, k) ==
  /\ Fits(k) /\ k = r.left /\ r.cgi
  /\ text' = Copied(r, ps, k) /\ len' = 0
  /\ posts' = [ps EXCEPT ![r.post].given = Copied(r, ps, k)]
  /\ Reply(c, [r EXCEPT !.left = 0], TRUE)
  /\ UNCHANGED faults

\* the body is complete: the handler is called with what is in the buffer
CallCgi(c, r, ps, k) ==
  /\ Fits(k) /\ k = r.left /\ r.cgi
  /\ text' = Extracted /\ len' = 0
  /\ posts' = [ps EXCEPT ![r.post].given = Copied(r, ps, k)]
  /\ Reply(c, [r EXCEPT !.left = 0], TRUE)
  /\ UNCHANGED faults

\* the body is complete, but an earlier part of it did not fit
Discard(c, r, ps, k) ==
  /\ Fits(k) /\ k = r.left /\ ~r.cgi
  /\ text' = Copied(r, ps, k) /\ len' = 0
  /\ posts' = ps
  /\ Reply(c, [r EXCEPT !.left = 0], FALSE)
  /\ UNCHANGED faults

\* what fits is copied, and forgotten by the length only
Overflow(c, r, ps, k) ==
  /\ ~Fits(k)
  /\ text' = Copied(r, ps, Capacity - len) /\ len' = 0
  /\ faults' = faults + 1
  /\ \/ /\ k < r.left
        /\ conn' = [conn EXCEPT ![c] = [r EXCEPT !.left = @ - k, !.cgi = FALSE]]
        /\ posts' = ps
        /\ UNCHANGED <<inuse, untidy>>
     \/ /\ k = r.left
        /\ posts' = ps
        /\ Reply(c, [r EXCEPT !.left = 0, !.cgi = FALSE], FALSE)

PostBody(c, r, ps) ==
  \E k \in 1 .. r.left :
    \/ Store(c, r, ps, k) \/ CallCgi(c, r, ps, k)
    \/ Discard(c, r, ps, k) \/ Overflow(c, r, ps, k)

\* http_recv while post_content_len_left > 0
PostData(c) ==
  /\ pbufs < Pool
  /\ PostBody(c, [conn[c] EXCEPT !.retries = 0], posts)
  /\ UNCHANGED pbufs

\* httpd_post_begin
Begun(n) ==
  Append([q \in DOMAIN posts |-> [posts[q] EXCEPT !.alone = @ /\ q \notin InProgress]],
         [size |-> n, given |-> <<>>, alone |-> InProgress = {}])

\* POST to a CGI handler: the header is complete, and some of the body may be
\* behind it
PostRequest(c, n) ==
  /\ Unanswered(c) /\ Len(posts) < MaxPosts
  /\ LET r == [conn[c] EXCEPT !.req = 0, !.post = Len(posts) + 1, !.left = n, !.cgi = TRUE]
     IN  \/ /\ conn' = [conn EXCEPT ![c] = r]
            /\ posts' = Begun(n)
            /\ UNCHANGED <<payload, inuse, faults, untidy>>
         \/ PostBody(c, r, Begun(n))
  /\ Freed(c)

Next ==
  \E c \in Conns :
    \/ Accept(c) \/ Enqueue(c) \/ BadRequest(c) \/ GetRequest(c) \/ DataBehind(c)
    \/ \E n \in Sizes : PostRequest(c, n)
    \/ PostData(c) \/ Sent(c) \/ Poll(c) \/ PeerClose(c) \/ Abort(c)

Spec == Init /\ [][Next]_vars

\* lwIP's timer polls every connection; nothing is assumed of the clients.
FairSpec == Spec /\ \A c \in Conns : WF_vars(Poll(c))
-----------------------------------------------------------------------------
(* Properties. *)

ConnOK(r) ==
  /\ r.open \in BOOLEAN /\ r.cgi \in BOOLEAN /\ r.handle \in BOOLEAN
  /\ r.req \in 0 .. Pool /\ r.retries \in 0 .. MaxRetries - 1
  /\ r.post \in 0 .. Len(posts) /\ r.left \in Nat
  /\ r.todo \in 0 .. MaxChunks /\ r.unacked \in 0 .. MaxChunks

\* The types of the state; the payload stays inside its buffer.
TypeOK ==
  /\ \A c \in Conns : DOMAIN conn[c] = DOMAIN Closed /\ ConnOK(conn[c])
  /\ len \in 0 .. Len(text) /\ Len(text) =< Capacity
  /\ \A i \in DOMAIN text : text[i] \in (DOMAIN posts) \X Nat
  /\ inuse \in 0 .. MaxOpen /\ pbufs \in 0 .. Pool
  /\ Len(posts) =< MaxPosts /\ faults \in Nat /\ untidy \in BOOLEAN

Called(p)  == posts[p].given # <<>>
Damaged(p) == Called(p) /\ posts[p].given # Body(p)

\* A handler is called with anything but the body of its own POST only if
\* another POST was in progress at the same time, or if a POST was cut off or
\* too large before; and each such event spoils at most one later call, for
\* the call clears the buffer (httpd.c 2324-2370).
DamageAccounted ==
  Cardinality({p \in DOMAIN posts : Damaged(p) /\ posts[p].alone}) =< faults

\* No parameter is given to handlers twice, neither in two calls nor in one,
\* whatever is left in the buffer by POSTs that overlap, are cut off or
\* overflow: a setting submitted once takes effect once.
ParametersGivenOnce ==
  \A p, q \in DOMAIN posts :
    /\ p # q => ToSet(posts[p].given) \cap ToSet(posts[q].given) = {}
    /\ IsInjective(posts[p].given)

\* fs_memory has an entry in use for each open file of a connection, however
\* the connections end.
FilesAccounted == inuse = Cardinality({c \in Conns : conn[c].handle})

\* Every pbuf received is freed or held in a request that is coming in, as
\* long as no connection ends inside its request and none gets data behind it.
Held == {h \in Conns \X (1 .. Pool) : h[2] =< conn[h[1]].req}
PbufsReturned == ~untidy => pbufs = Cardinality(Held)

\* Every connection is closed at last, also one whose client has fallen
\* silent inside a request, a body or a reply.
ConnectionsEnd == \A c \in Conns : conn[c].open ~> ~conn[c].open
=============================================================================
