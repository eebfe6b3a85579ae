--------------------------- MODULE SsiReplyProofs ---------------------------
(***************************************************************************)
(* Proofs about SsiReply: whatever the files, the tags, the send buffer    *)
(* and the refusals of tcp_write are, what was sent is the beginning of    *)
(* the reply that should be sent.                                          *)
(*                                                                         *)
(* The argument has two halves.  The scanner, which looks at one character *)
(* at a time and may be interrupted after each, finds exactly the tags of  *)
(* TagsIn: ScanInv says what its state means in the text.  And the output  *)
(* is the concatenation of the pieces up to hs->file: OutInv.              *)
(***************************************************************************)
EXTENDS SsiReply, SequenceTheorems, FiniteSetTheorems, TLAPS

-----------------------------------------------------------------------------
(* Numbers, and the concatenation of a sequence of sequences. *)

\* A set of natural numbers has a least element, which is how the proofs
\* reason by induction: the least counterexample has a predecessor.
LEMMA LeastNat ==
  ASSUME NEW T, T \subseteq Nat, T # {}
  PROVE  \E x \in T : \A y \in T : x =< y
<1> DEFINE R == OpToRel(<, Nat)
<1>1. IsWellFoundedOn(R, Nat)
  BY NatLessThanWellFounded
<1>2. \A x, y \in Nat : x < y => <<x, y>> \in R
  BY DEF OpToRel
<1> HIDE DEF R
<1>3. PICK x \in T : \A y \in T : ~ (<<y, x>> \in R)
  BY <1>1, WFMin
<1>4. ASSUME NEW y \in T  PROVE x =< y
  <2>1. x \in Nat /\ y \in Nat
    BY <1>3, <1>4
  <2>2. ~ (y < x)
    BY <1>2, <1>3, <1>4, <2>1
  <2> QED
    BY <2>1, <2>2
<1> QED
  BY <1>3, <1>4

\* A bounded set of natural numbers has a greatest element.
LEMMA GreatestNat ==
  ASSUME NEW n \in Nat, NEW T, T \subseteq 0 .. n, T # {}
  PROVE  \E x \in T : \A y \in T : y =< x
<1> DEFINE U == {n - y : y \in T}
<1>1. U \subseteq Nat /\ U # {}
  <2>1. U \subseteq Nat
    OBVIOUS
  <2>2. PICK y \in T : TRUE
    OBVIOUS
  <2>3. n - y \in U
    OBVIOUS
  <2> QED
    BY <2>1, <2>3
<1>2. PICK u \in U : \A v \in U : u =< v
  BY <1>1, LeastNat
<1>3. PICK x \in T : u = n - x
  OBVIOUS
<1>4. ASSUME NEW y \in T  PROVE y =< x
  <2>1. n - y \in U /\ x \in 0 .. n /\ y \in 0 .. n
    BY <1>3, <1>4
  <2>2. n - x =< n - y
    BY <1>2, <1>3, <2>1
  <2> QED
    BY <2>1, <2>2
<1> QED
  BY <1>3, <1>4

-----------------------------------------------------------------------------
\* The concatenations of the beginnings of G, by which FlattenSeq is defined.
Concatenates(G, n, f) ==
  \A i \in 1 .. n : f[i] = IF i = 1 THEN G[i] ELSE f[i - 1] \o G[i]

\* They exist: the least length at which they would not is one more than a
\* length at which they do.
LEMMA ConcatenationsExist ==
  ASSUME NEW S, NEW n \in Nat, NEW G \in [1 .. n -> Seq(S)]
  PROVE  \E f \in [1 .. n -> Seq(S)] : Concatenates(G, n, f)
<1> DEFINE Fits(k, f) == Concatenates(G, k, f)
           T == {k \in 0 .. n : ~\E f \in [1 .. k -> Seq(S)] : Fits(k, f)}
<1>a. T = {} => (\E f \in [1 .. n -> Seq(S)] : Fits(n, f))
  <2>1. n \in 0 .. n
    OBVIOUS
  <2> QED
    BY <2>1, Zenon
<1>b. T \subseteq 0 .. n /\ T \subseteq Nat
  OBVIOUS
<1>c. \A i \in 0 .. n : i \notin T => (\E f \in [1 .. i -> Seq(S)] : Fits(i, f))
  BY Zenon
<1>d. \A i \in T : ~\E f \in [1 .. i -> Seq(S)] : Fits(i, f)
  BY Zenon
<1> HIDE DEF T
<1> SUFFICES ASSUME T # {}  PROVE FALSE
  BY <1>a
<1>1. PICK k \in T : \A m \in T : k =< m
  BY <1>b, LeastNat
<1>2. k # 0
  <2>1. [i \in 1 .. 0 |-> <<>>] \in [1 .. 0 -> Seq(S)]
    OBVIOUS
  <2>2. Fits(0, [i \in 1 .. 0 |-> <<>>])
    BY DEF Concatenates
  <2> QED
    BY <2>1, <2>2, <1>1, <1>d
<1>3. k \in 1 .. n /\ k - 1 \in 0 .. n /\ k - 1 \notin T
  BY <1>1, <1>2, <1>b
<1>4. PICK f \in [1 .. k - 1 -> Seq(S)] : Fits(k - 1, f)
  BY <1>3, <1>c
<1> DEFINE last == IF k = 1 THEN G[k] ELSE f[k - 1] \o G[k]
           h == [i \in 1 .. k |-> IF i = k THEN last ELSE f[i]]
<1>5. last \in Seq(S)
  <2>1. k \in 1 .. n /\ (k # 1 => k - 1 \in 1 .. k - 1)
    BY <1>3
  <2>2. G[k] \in Seq(S) /\ (k # 1 => f[k - 1] \in Seq(S))
    BY <2>1, <1>4
  <2> QED
    BY <2>2, ConcatProperties
<1>6. h \in [1 .. k -> Seq(S)]
  <2>1. \A i \in 1 .. k : i # k => i \in 1 .. k - 1
    BY <1>3
  <2> QED
    BY <2>1, <1>4, <1>5
<1>7. Fits(k, h)
  <2> SUFFICES ASSUME NEW i \in 1 .. k
               PROVE  h[i] = IF i = 1 THEN G[i] ELSE h[i - 1] \o G[i]
    BY DEF Concatenates
  <2>1. i # 1 => i - 1 \in 1 .. k /\ i - 1 # k
    BY <1>3
  <2>2. i # 1 => h[i - 1] = f[i - 1]
    BY <2>1
  <2>3. CASE i = k
    BY <2>2, <2>3
  <2>4. CASE i # k
    <3>1. i \in 1 .. k - 1
      BY <2>4, <1>3
    <3>2. h[i] = f[i]
      BY <2>4
    <3> QED
      BY <3>1, <3>2, <2>2, <1>4 DEF Concatenates
  <2> QED
    BY <2>3, <2>4
<1> QED
  BY <1>1, <1>6, <1>7, <1>d

\* and determine what FlattenSeq yields.
LEMMA FlattenIsLast ==
  ASSUME NEW S, NEW n \in Nat \ {0}, NEW G \in [1 .. n -> Seq(S)],
         NEW f \in [1 .. n -> Seq(S)], Concatenates(G, n, f)
  PROVE  FlattenSeq(G) = f[n]
<1> DEFINE Is(e) == e = [i \in 1 .. Len(G) |-> IF i = 1 THEN G[i] ELSE e[i - 1] \o G[i]]
           g == CHOOSE e : Is(e)
<1>1. G \in Seq(Seq(S)) /\ Len(G) = n
  OBVIOUS
<1>2. Is(f)
  BY <1>1 DEF Concatenates
<1>3. Is(g)
  BY <1>2
<1>4. FlattenSeq(G) = g[n]
  BY <1>1 DEF FlattenSeq
<1> HIDE DEF g
<1>5. \A i \in 1 .. n : g[i] = IF i = 1 THEN G[i] ELSE g[i - 1] \o G[i]
  BY <1>1, <1>3
<1>a. \A i \in 1 .. n : f[i] = IF i = 1 THEN G[i] ELSE f[i - 1] \o G[i]
  BY DEF Concatenates
<1> DEFINE T == {i \in 1 .. n : g[i] # f[i]}
<1>6. T = {}
  <2>a. T \subseteq Nat
    OBVIOUS
  <2> SUFFICES ASSUME T # {}  PROVE FALSE
    OBVIOUS
  <2>1. PICK i \in T : \A m \in T : i =< m
    BY <2>a, LeastNat
  <2>2. i # 1
    BY <2>1, <1>5, <1>a
  <2>3. i - 1 \in 1 .. n /\ i - 1 \notin T
    <3>1. i \in 1 .. n /\ i - 1 \in Nat /\ ~(i =< i - 1)
      BY <2>1, <2>2
    <3>2. i - 1 \notin T
      <4> HIDE DEF T
      <4> QED
        BY <2>1, <3>1
    <3>3. i - 1 \in 1 .. n
      BY <2>1, <2>2
    <3> QED
      BY <3>2, <3>3
  <2> QED
    BY <2>1, <2>2, <2>3, <1>5, <1>a, ZenonT(30)
<1>7. n \in 1 .. n
  OBVIOUS
<1> QED
  BY <1>4, <1>6, <1>7

\* What every proof about FlattenSeq needs: it starts with nothing, and a
\* further sequence is appended.
LEMMA FlattenEmpty ==
  ASSUME NEW G, G = [i \in 1 .. 0 |-> <<>>]
  PROVE  FlattenSeq(G) = <<>>
  BY DEF FlattenSeq

LEMMA FlattenNext ==
  ASSUME NEW S, NEW n \in Nat, NEW G \in [1 .. n + 1 -> Seq(S)]
  PROVE  /\ FlattenSeq(G) \in Seq(S)
         /\ FlattenSeq(G) = FlattenSeq([i \in 1 .. n |-> G[i]]) \o G[n + 1]
<1> DEFINE F == [i \in 1 .. n |-> G[i]]
<1>1. PICK f \in [1 .. n + 1 -> Seq(S)] : Concatenates(G, n + 1, f)
  <2>1. PICK m \in Nat : m = n + 1
    OBVIOUS
  <2>2. G \in [1 .. m -> Seq(S)]
    BY <2>1
  <2>3. \E f \in [1 .. m -> Seq(S)] : Concatenates(G, m, f)
    BY <2>2, ConcatenationsExist
  <2> QED
    BY <2>1, <2>3
<1>2. FlattenSeq(G) = f[n + 1]
  <2>1. n + 1 \in Nat \ {0}
    OBVIOUS
  <2> QED
    BY <2>1, <1>1, FlattenIsLast
<1>3. n + 1 \in 1 .. n + 1 /\ G[n + 1] \in Seq(S) /\ f[n + 1] \in Seq(S)
  BY <1>1
<1>4. CASE n = 0
  <2>1. F = [i \in 1 .. 0 |-> <<>>]
    BY <1>4
  <2>2. FlattenSeq(F) = <<>>
    BY <2>1, FlattenEmpty
  <2>3. f[n + 1] = G[n + 1]
    BY <1>1, <1>3, <1>4 DEF Concatenates
  <2>4. <<>> \o G[n + 1] = G[n + 1]
    BY <1>3
  <2> QED
    BY <1>2, <1>3, <2>2, <2>3, <2>4
<1>5. CASE n # 0
  <2> DEFINE e == [i \in 1 .. n |-> f[i]]
  <2>1. e \in [1 .. n -> Seq(S)] /\ F \in [1 .. n -> Seq(S)]
    BY <1>1
  <2>2. Concatenates(F, n, e)
    <3> SUFFICES ASSUME NEW i \in 1 .. n
                 PROVE  e[i] = IF i = 1 THEN F[i] ELSE e[i - 1] \o F[i]
      BY DEF Concatenates
    <3>1. i \in 1 .. n + 1 /\ (i # 1 => i - 1 \in 1 .. n)
      OBVIOUS
    <3>2. e[i] = f[i] /\ F[i] = G[i] /\ (i # 1 => e[i - 1] = f[i - 1])
      BY <3>1
    <3> HIDE DEF e, F
    <3> QED
      BY <1>1, <3>1, <3>2 DEF Concatenates
  <2>3. n \in Nat \ {0}
    BY <1>5
  <2> HIDE DEF F
  <2>4. FlattenSeq(F) = e[n]
    <3> HIDE DEF e
    <3> QED
      BY <2>1, <2>2, <2>3, FlattenIsLast
  <2>5. e[n] = f[n] /\ n + 1 # 1 /\ (n + 1) - 1 = n
    BY <1>5
  <2>6. f[n + 1] = f[n] \o G[n + 1]
    BY <1>1, <1>3, <2>5 DEF Concatenates
  <2> QED
    BY <1>2, <1>3, <2>4, <2>5, <2>6 DEF F
<1> QED
  BY <1>4, <1>5

\* The concatenation of the first k sequences.
FlattenFirst(G, k) == FlattenSeq([i \in 1 .. k |-> G[i]])

LEMMA FirstNone == \A G : FlattenFirst(G, 0) = <<>>
<1> SUFFICES ASSUME NEW G  PROVE FlattenFirst(G, 0) = <<>>
  OBVIOUS
<1>1. [i \in 1 .. 0 |-> G[i]] = [i \in 1 .. 0 |-> <<>>]
  OBVIOUS
<1> QED
  BY <1>1, FlattenEmpty DEF FlattenFirst

LEMMA FirstNext ==
  ASSUME NEW S, NEW n \in Nat, NEW G \in [1 .. n -> Seq(S)], NEW k \in 0 .. n - 1
  PROVE  FlattenFirst(G, k + 1) = FlattenFirst(G, k) \o G[k + 1]
<1> DEFINE H == [i \in 1 .. k + 1 |-> G[i]]
<1>1. H \in [1 .. k + 1 -> Seq(S)]
  OBVIOUS
<1>2. [i \in 1 .. k |-> H[i]] = [i \in 1 .. k |-> G[i]]
  OBVIOUS
<1>3. H[k + 1] = G[k + 1] /\ k \in Nat
  OBVIOUS
<1> HIDE DEF H
<1>4. FlattenSeq(H) = FlattenSeq([i \in 1 .. k |-> H[i]]) \o H[k + 1]
  BY <1>1, <1>3, FlattenNext
<1> QED
  BY <1>2, <1>3, <1>4 DEF FlattenFirst, H

LEMMA FirstAll ==
  ASSUME NEW S, NEW n \in Nat, NEW G \in [1 .. n -> Seq(S)]
  PROVE  FlattenFirst(G, n) = FlattenSeq(G)
<1>1. [i \in 1 .. n |-> G[i]] = G
  OBVIOUS
<1> QED
  BY <1>1 DEF FlattenFirst

LEMMA FirstType ==
  ASSUME NEW S, NEW n \in Nat, NEW G \in [1 .. n -> Seq(S)], NEW k \in 0 .. n
  PROVE  FlattenFirst(G, k) \in Seq(S)
<1>1. CASE k = 0
  <2>1. <<>> \in Seq(S)
    OBVIOUS
  <2> QED
    BY <1>1, <2>1, FirstNone
<1>2. CASE k # 0
  <2> DEFINE H == [i \in 1 .. k |-> G[i]]
  <2>1. PICK m \in Nat : k = m + 1
    BY <1>2
  <2>2. H \in [1 .. m + 1 -> Seq(S)]
    BY <2>1
  <2> HIDE DEF H
  <2>3. FlattenSeq(H) \in Seq(S)
    BY <2>2, FlattenNext
  <2> QED
    BY <2>3 DEF FlattenFirst, H
<1> QED
  BY <1>1, <1>2

\* Of two sequences of sequences that agree up to k, so do the concatenations.
LEMMA FirstAgree ==
  ASSUME NEW G, NEW H, NEW k \in Nat, \A i \in 1 .. k : G[i] = H[i]
  PROVE  FlattenFirst(G, k) = FlattenFirst(H, k)
<1>1. [i \in 1 .. k |-> G[i]] = [i \in 1 .. k |-> H[i]]
  OBVIOUS
<1> QED
  BY <1>1 DEF FlattenFirst

\* y is x with something behind it.
Continues(S, x, y) == \E s \in Seq(S) : y = x \o s

LEMMA ContinuesSelf ==
  ASSUME NEW S, NEW x \in Seq(S)  PROVE Continues(S, x, x)
<1>1. <<>> \in Seq(S) /\ x \o <<>> = x
  BY ConcatEmptySeq
<1> QED
  BY <1>1 DEF Continues

LEMMA ContinuesFurther ==
  ASSUME NEW S, NEW x \in Seq(S), NEW y, NEW e \in Seq(S), Continues(S, x, y)
  PROVE  Continues(S, x, y \o e)
<1>1. PICK s \in Seq(S) : y = x \o s
  BY DEF Continues
<1>2. s \o e \in Seq(S)
  BY ConcatProperties
<1>3. (x \o s) \o e = x \o (s \o e)
  BY ConcatAssociative
<1> QED
  BY <1>1, <1>2, <1>3 DEF Continues

\* The concatenation of fewer is a prefix of the concatenation of more.
LEMMA FirstContinues ==
  ASSUME NEW S, NEW n \in Nat, NEW G \in [1 .. n -> Seq(S)], NEW k \in 0 .. n,
         NEW m \in k .. n
  PROVE  Continues(S, FlattenFirst(G, k), FlattenFirst(G, m))
<1> DEFINE Good(j) == Continues(S, FlattenFirst(G, k), FlattenFirst(G, j))
           T == {j \in k .. n : ~Good(j)}
<1>a. T \subseteq Nat /\ T \subseteq k .. n
  OBVIOUS
<1>b. \A j \in k .. n : j \in T <=> ~Good(j)
  OBVIOUS
<1>1. FlattenFirst(G, k) \in Seq(S) /\ Good(k)
  BY FirstType, ContinuesSelf
<1> HIDE DEF T
<1>2. T = {}
  <2> SUFFICES ASSUME T # {}  PROVE FALSE
    OBVIOUS
  <2>1. PICK j \in T : \A i \in T : j =< i
    BY <1>a, LeastNat
  <2>2. j \in k .. n /\ j # k
    BY <1>1, <1>a, <1>b, <2>1
  <2>3. PICK i \in 0 .. n - 1 : j = i + 1 /\ i \in k .. n
    BY <2>2
  <2>4. Good(i)
    BY <1>b, <2>1, <2>3
  <2>5. FlattenFirst(G, j) = FlattenFirst(G, i) \o G[j] /\ G[j] \in Seq(S)
    <3>1. FlattenFirst(G, i + 1) = FlattenFirst(G, i) \o G[i + 1]
      BY FirstNext
    <3>2. G[i + 1] \in Seq(S)
      OBVIOUS
    <3> QED
      BY <2>3, <3>1, <3>2
  <2>6. Good(j)
    BY <1>1, <2>4, <2>5, ContinuesFurther
  <2> QED
    BY <2>1, <2>2, <2>6, <1>b
<1> QED
  BY <1>2, <1>b

-----------------------------------------------------------------------------
(* Characters and bytes. *)

Dash == "-"

\* the characters of all files
Chars == {"<", "!", Dash, "#", ">"} \cup UNION {Range(Pages[p].text) : p \in DOMAIN Pages}

\* the bytes of a reply, named by where they come from
Byte ==
  {<<"file", i>> : i \in Nat} \cup {<<"header", h, i>> : h \in Nat, i \in Nat}
    \cup {<<name, v, i>> : name \in DOMAIN InsertLen, v \in Nat, i \in Nat}
    \cup {<<"unknown", name, i>> : name \in Seq(Chars), i \in Nat} \cup {<<"unread">>}

-----------------------------------------------------------------------------
(* Tags, without the operators that search for their parts. *)

IsNameChar(ch) == ch \notin Space \cup {Dash}
AllIn(t, i, j, C) == \A m \in i .. j : t[m] \in C

\* a lead-in at i, a name at a .. b - 1, the lead-out at o
TagAt(t, i, a, b, o) ==
  /\ i \in 1 .. Len(t) /\ a \in i + 5 .. Len(t) /\ b \in a + 1 .. Len(t) /\ o \in b .. Len(t) - 2
  /\ At(t, i, LeadIn) /\ AllIn(t, i + 5, a - 1, Space)
  /\ \A m \in a .. b - 1 : IsNameChar(t[m])
  /\ b - a =< MaxTagName
  /\ AllIn(t, b, o - 1, Space) /\ At(t, o, LeadOut)

Ends(t) == {e \in 1 .. Len(t) : \E i, a, b \in 1 .. Len(t) : TagAt(t, i, a, b, e - 2)}

-----------------------------------------------------------------------------
(* What the state of the scanner means: the tag that starts at c and may   *)
(* be complete later is where tag_state and tag_index say.                 *)

InLeadIn(t, c, p, k) ==
  /\ k \in 1 .. 5 /\ c = p - k /\ c >= 1
  /\ \A m \in 1 .. k : t[c + m - 1] = LeadIn[m]

InName(t, c, p, k, name) ==
  /\ c \in 1 .. p - 5 /\ At(t, c, LeadIn)
  /\ k \in 0 .. MaxTagName /\ k =< Len(name) /\ c + 5 =< p - k
  /\ AllIn(t, c + 5, p - k - 1, Space)
  /\ \A m \in p - k .. p - 1 : IsNameChar(t[m])
  /\ \A m \in 1 .. k : name[m] = t[p - k + m - 1]

InLeadOut(t, c, p, k, name) ==
  /\ c \in 1 .. p - 6 /\ At(t, c, LeadIn) /\ k \in 0 .. 2
  /\ \E a, b \in c + 5 .. p - k :
       /\ a < b /\ b - a =< MaxTagName /\ (k = 0 => b < p)
       /\ AllIn(t, c + 5, a - 1, Space)
       /\ \A m \in a .. b - 1 : IsNameChar(t[m])
       /\ name = SubSeq(t, a, b - 1)
       /\ AllIn(t, b, p - k - 1, Space) /\ AllIn(t, p - k, p - 1, {Dash})

\* every tag that starts before p is complete before p, but for the one at c
Resolved(t, c, p) ==
  \A i, a, b, o \in 1 .. Len(t) : TagAt(t, i, a, b, o) /\ i < p /\ i # c => o + 2 < p

\* c is 0 when no tag is coming
Candidate(t, state, c, p, k, name) ==
  CASE state = "leadin"  -> InLeadIn(t, c, p, k)
    [] state = "found"   -> InName(t, c, p, k, name)
    [] state = "leadout" -> InLeadOut(t, c, p, k, name)
    [] OTHER             -> c = 0

Scanned(t, state, p, k, name) ==
  \E c \in 0 .. p : Candidate(t, state, c, p, k, name) /\ Resolved(t, c, p)

-----------------------------------------------------------------------------
(* The pieces of a reply, from the versions that were read for its tags. *)

Number(p, i) == Cardinality({e \in TagEnds[p] : e =< i})
NameOf(p, i) == (CHOOSE x \in TagsIn(Pages[p].text) : x.out + 2 = i).name
PieceOf(p, sn, i) ==
  <<<<"file", i>>>> \o
  IF Pages[p].tagCheck /\ i \in TagEnds[p]
    THEN IF Number(p, i) =< Len(sn) THEN Inserted(NameOf(p, i), sn[Number(p, i)])
                                    ELSE <<<<"unread">>>>
    ELSE <<>>
PiecesOf(p, sn) == [i \in 1 .. Len(Pages[p].text) |-> PieceOf(p, sn, i)]
Sofar(p, sn, k) == FlattenFirst(PiecesOf(p, sn), k)

-----------------------------------------------------------------------------
(* The inductive invariant. *)

SeqInv == tagName \in Seq(Chars) /\ insert \in Seq(Byte) /\ out \in Seq(Byte) /\ seen \in Seq(Nat)

ScanInv ==
  /\ Scanned(Text, tagState, parsed, tagIndex, tagName)
  /\ Len(seen) = Number(page, parsed - 1)

HeadInv ==
  hdr =< Len(HdrLens) =>
    /\ pc \in {"idle", "headers"} /\ ~closed
    /\ file = 1 /\ parsed = 1 /\ tagState = "none"
    /\ hpos < HdrLens[hdr]
    /\ out = FlattenFirst(AllHeaders, hdr - 1) \o SubSeq(AllHeaders[hdr], 1, hpos)

PlaceInv ==
  /\ Pages[page].tagCheck => file =< parsed
  /\ ~Pages[page].tagCheck => parsed = 1 /\ tagState = "none" /\ pc \notin {"scan", "tail"}
  /\ closed => file = Len(Text) + 1

\* of the tags between what is sent and what is parsed, the one whose insert
\* is being sent is the only one
SendingInv ==
  /\ \A e \in Ends(Text) : file =< e /\ e < parsed => tagState = "sending" /\ e = parsed - 1
  /\ tagState = "sending" =>
       /\ tagEnd = parsed /\ parsed - 1 \in Ends(Text)
       /\ insert = Inserted(NameOf(page, parsed - 1), seen[Len(seen)])
       /\ tagIndex =< Len(insert) /\ (file < tagEnd => tagIndex = 0)

\* behind the last character of a tag a part of its insert has been sent
BodyOf(p, sn, f, st, te, ins, ti) ==
  IF st = "sending" /\ f = te
    THEN (Sofar(p, sn, f - 2) \o <<<<"file", f - 1>>>>) \o SubSeq(ins, 1, ti)
    ELSE Sofar(p, sn, f - 1)
Body == BodyOf(page, seen, file, tagState, tagEnd, insert, tagIndex)

OutInv ==
  hdr > Len(HdrLens) => hpos = 0 /\ out = FlattenSeq(AllHeaders) \o Body

ReplyInv ==
  TypeOK /\ SeqInv /\ ScanInv /\ HeadInv /\ PlaceInv /\ SendingInv /\ OutInv

-----------------------------------------------------------------------------
(* The lead-in and the lead-out, character by character. *)

LEMMA LeadFacts ==
  /\ LeadIn \in Seq(Chars) /\ Len(LeadIn) = 5
  /\ LeadIn[1] = "<" /\ LeadIn[2] = "!" /\ LeadIn[3] = Dash /\ LeadIn[4] = Dash /\ LeadIn[5] = "#"
  /\ LeadOut \in Seq(Chars) /\ Len(LeadOut) = 3
  /\ LeadOut[1] = Dash /\ LeadOut[2] = Dash /\ LeadOut[3] = ">"
<1>1. /\ LeadIn \in Seq(Chars) /\ Len(LeadIn) = 5
      /\ LeadOut \in Seq(Chars) /\ Len(LeadOut) = 3
  <2>1. LeadIn \in Seq(Chars)
    <3>1. "<" \in Chars /\ "!" \in Chars /\ "-" \in Chars /\ "#" \in Chars
      BY DEF Chars, Dash
    <3>2. \A x, y, z, u, v \in Chars : <<x, y, z, u, v>> \in [1 .. 5 -> Chars]
      OBVIOUS
    <3>3. LeadIn \in [1 .. 5 -> Chars]
      BY <3>1, <3>2, Zenon DEF LeadIn
    <3> QED
      BY <3>3, SeqDef
  <2>2. Len(LeadIn) = 5
    BY DEF LeadIn
  <2>3. LeadOut \in Seq(Chars)
    <3>1. "-" \in Chars /\ ">" \in Chars
      BY DEF Chars, Dash
    <3>2. \A x, y, z \in Chars : <<x, y, z>> \in [1 .. 3 -> Chars]
      OBVIOUS
    <3>3. LeadOut \in [1 .. 3 -> Chars]
      BY <3>1, <3>2, Zenon DEF LeadOut
    <3> QED
      BY <3>3, SeqDef
  <2>4. Len(LeadOut) = 3
    BY DEF LeadOut
  <2> QED
    BY <2>1, <2>2, <2>3, <2>4
<1>2. /\ LeadIn[1] = "<" /\ LeadIn[2] = "!" /\ LeadIn[3] = Dash /\ LeadIn[4] = Dash
      /\ LeadIn[5] = "#"
  BY DEF LeadIn, Dash
<1>3. LeadOut[1] = Dash /\ LeadOut[2] = Dash /\ LeadOut[3] = ">"
  BY DEF LeadOut, Dash
<1> QED
  BY <1>1, <1>2, <1>3

LEMMA AtMeans ==
  ASSUME NEW t \in Seq(Chars), NEW s \in Seq(Chars), NEW i \in Nat \ {0}, s # <<>>
  PROVE  At(t, i, s) <=>
           i + Len(s) - 1 =< Len(t) /\ \A m \in 1 .. Len(s) : t[i + m - 1] = s[m]
<1>1. Len(s) \in Nat \ {0} /\ Len(t) \in Nat
  BY LenProperties, EmptySeq
<1>2. ASSUME i + Len(s) - 1 =< Len(t)
      PROVE  SubSeq(t, i, i + Len(s) - 1) = s <=> \A m \in 1 .. Len(s) : t[i + m - 1] = s[m]
  <2> DEFINE u == SubSeq(t, i, i + Len(s) - 1)
  <2>1. /\ i \in Int /\ i + Len(s) - 1 \in Int /\ i =< i + Len(s) - 1
        /\ (i + Len(s) - 1) - i + 1 = Len(s)
    BY <1>1
  <2>2. \A m \in i .. i + Len(s) - 1 : m \in 1 .. Len(t) /\ t[m] \in Chars
    <3>1. \A m \in i .. i + Len(s) - 1 : m \in 1 .. Len(t)
      BY <1>1, <1>2
    <3> QED
      BY <3>1, ElementOfSeq
  <2>3. /\ u \in Seq(Chars) /\ Len(u) = Len(s)
        /\ \A m \in 1 .. Len(s) : u[m] = t[i + m - 1]
    <3> QED
      BY <2>1, <2>2, SubSeqProperties
  <2> HIDE DEF u
  <2>4. (\A m \in 1 .. Len(s) : t[i + m - 1] = s[m]) => u = s
    BY <2>3, SeqEqual
  <2>5. u = s => \A m \in 1 .. Len(s) : t[i + m - 1] = s[m]
    BY <2>3
  <2> QED
    BY <2>4, <2>5 DEF u
<1> QED
  BY <1>2 DEF At

LEMMA AtLeadIn ==
  ASSUME NEW t \in Seq(Chars), NEW i \in Nat \ {0}
  PROVE  At(t, i, LeadIn) <=>
           /\ i + 4 =< Len(t)
           /\ t[i] = "<" /\ t[i + 1] = "!" /\ t[i + 2] = Dash /\ t[i + 3] = Dash /\ t[i + 4] = "#"
<1>1. LeadIn # <<>>
  BY DEF LeadIn
<1>2. At(t, i, LeadIn) <=> i + 4 =< Len(t) /\ \A m \in 1 .. 5 : t[i + m - 1] = LeadIn[m]
  <2>1. Len(t) \in Nat /\ i + 5 - 1 = i + 4
    BY LenProperties
  <2>2. At(t, i, LeadIn) <=>
          i + Len(LeadIn) - 1 =< Len(t) /\ \A m \in 1 .. Len(LeadIn) : t[i + m - 1] = LeadIn[m]
    BY <1>1, LeadFacts, AtMeans
  <2> QED
    BY <2>1, <2>2, LeadFacts
<1>3. /\ i + 1 - 1 = i /\ i + 2 - 1 = i + 1 /\ i + 3 - 1 = i + 2 /\ i + 4 - 1 = i + 3
      /\ i + 5 - 1 = i + 4
  OBVIOUS
<1>4. \A m : m \in 1 .. 5 <=> m \in {1, 2, 3, 4, 5}
  OBVIOUS
<1>5. (\A m \in 1 .. 5 : t[i + m - 1] = LeadIn[m]) <=>
        /\ t[i + 1 - 1] = LeadIn[1] /\ t[i + 2 - 1] = LeadIn[2] /\ t[i + 3 - 1] = LeadIn[3]
        /\ t[i + 4 - 1] = LeadIn[4] /\ t[i + 5 - 1] = LeadIn[5]
  BY <1>4
<1> QED
  BY <1>2, <1>3, <1>5, LeadFacts

LEMMA AtLeadOut ==
  ASSUME NEW t \in Seq(Chars), NEW i \in Nat \ {0}
  PROVE  At(t, i, LeadOut) <=>
           /\ i + 2 =< Len(t)
           /\ t[i] = Dash /\ t[i + 1] = Dash /\ t[i + 2] = ">"
<1>1. LeadOut # <<>>
  BY DEF LeadOut
<1>2. At(t, i, LeadOut) <=> i + 2 =< Len(t) /\ \A m \in 1 .. 3 : t[i + m - 1] = LeadOut[m]
  <2>1. Len(t) \in Nat /\ i + 3 - 1 = i + 2
    BY LenProperties
  <2>2. At(t, i, LeadOut) <=>
          i + Len(LeadOut) - 1 =< Len(t) /\ \A m \in 1 .. Len(LeadOut) : t[i + m - 1] = LeadOut[m]
    BY <1>1, LeadFacts, AtMeans
  <2> QED
    BY <2>1, <2>2, LeadFacts
<1>3. i + 1 - 1 = i /\ i + 2 - 1 = i + 1 /\ i + 3 - 1 = i + 2
  OBVIOUS
<1>4. \A m : m \in 1 .. 3 <=> m \in {1, 2, 3}
  OBVIOUS
<1>5. (\A m \in 1 .. 3 : t[i + m - 1] = LeadOut[m]) <=>
        t[i + 1 - 1] = LeadOut[1] /\ t[i + 2 - 1] = LeadOut[2] /\ t[i + 3 - 1] = LeadOut[3]
  BY <1>4
<1> QED
  BY <1>2, <1>3, <1>5, LeadFacts

-----------------------------------------------------------------------------
(* Skip finds the first position that is not in the set. *)

Stops(t, i, C, k) ==
  k \in i .. Len(t) + 1 /\ (k > Len(t) \/ t[k] \notin C) /\ AllIn(t, i, k - 1, C)

LEMMA SkipStops ==
  ASSUME NEW t \in Seq(Chars), NEW i \in 1 .. Len(t) + 1, NEW C
  PROVE  Stops(t, i, C, Skip(t, i, C))
<1>1. Len(t) \in Nat
  BY LenProperties
<1> DEFINE T == {k \in i .. Len(t) + 1 : k > Len(t) \/ t[k] \notin C}
<1>2. Len(t) + 1 \in T /\ T \subseteq Nat
  BY <1>1
<1>3. PICK k \in T : \A m \in T : k =< m
  BY <1>2, LeastNat, Zenon
<1>4. ASSUME NEW m \in i .. k - 1  PROVE t[m] \in C
  <2>1. m \in i .. Len(t) + 1 /\ ~(m > Len(t)) /\ ~(k =< m)
    BY <1>1, <1>3, <1>4
  <2>2. m \notin T
    <3> HIDE DEF T
    <3> QED
      BY <1>3, <2>1
  <2> QED
    BY <2>1, <2>2
<1>5. Stops(t, i, C, k)
  BY <1>3, <1>4 DEF Stops, AllIn
<1>6. Skip(t, i, C) = CHOOSE j \in i .. Len(t) + 1 :
                        (j > Len(t) \/ t[j] \notin C) /\ \A m \in i .. j - 1 : t[m] \in C
  BY DEF Skip
<1> QED
  BY <1>5, <1>6 DEF Stops, AllIn

LEMMA SkipIs ==
  ASSUME NEW t \in Seq(Chars), NEW i \in 1 .. Len(t) + 1, NEW C, NEW k, Stops(t, i, C, k)
  PROVE  Skip(t, i, C) = k
<1> DEFINE s == Skip(t, i, C)
<1>1. Len(t) \in Nat
  BY LenProperties
<1>2. Stops(t, i, C, s)
  BY SkipStops
<1> HIDE DEF s
<1>3. ~(k < s)
  <2> SUFFICES ASSUME k < s  PROVE FALSE
    OBVIOUS
  <2>1. k \in i .. s - 1 /\ ~(k > Len(t))
    BY <1>1, <1>2 DEF Stops
  <2> QED
    BY <1>2, <2>1 DEF Stops, AllIn
<1>4. ~(s < k)
  <2> SUFFICES ASSUME s < k  PROVE FALSE
    OBVIOUS
  <2>1. s \in i .. k - 1 /\ ~(s > Len(t))
    BY <1>1, <1>2 DEF Stops
  <2> QED
    BY <1>2, <2>1 DEF Stops, AllIn
<1>5. s \in Int /\ k \in Int
  BY <1>1, <1>2 DEF Stops
<1>6. s = k
  BY <1>3, <1>4, <1>5
<1> QED
  BY <1>6 DEF s

LEMMA NameCharsAre ==
  ASSUME NEW t \in Seq(Chars), NEW m \in 1 .. Len(t)
  PROVE  t[m] \in NameChars(t) <=> IsNameChar(t[m])
<1>1. m \in DOMAIN t
  BY LenProperties
<1> QED
  BY <1>1 DEF NameChars, IsNameChar, Dash, Range

-----------------------------------------------------------------------------
(* TagsIn is the set of the tags at some TagAt. *)

LEMMA TagFacts ==
  ASSUME NEW t \in Seq(Chars), NEW i, NEW a, NEW b, NEW o, TagAt(t, i, a, b, o)
  PROVE  /\ i \in Nat /\ a \in Nat /\ b \in Nat /\ o \in Nat
         /\ 1 =< i /\ i + 5 =< a /\ a < b /\ b =< o /\ o + 2 =< Len(t)
         /\ t[i] = "<" /\ t[i + 1] = "!" /\ t[i + 2] = Dash /\ t[i + 3] = Dash /\ t[i + 4] = "#"
         /\ t[o] = Dash /\ t[o + 1] = Dash /\ t[o + 2] = ">"
<1>1. Len(t) \in Nat
  BY LenProperties
<1>2. /\ i \in Nat \ {0} /\ a \in Nat /\ b \in Nat /\ o \in Nat \ {0}
      /\ 1 =< i /\ i + 5 =< a /\ a < b /\ b =< o /\ o + 2 =< Len(t)
  BY <1>1 DEF TagAt
<1>3. At(t, i, LeadIn) /\ At(t, o, LeadOut)
  BY DEF TagAt
<1> QED
  BY <1>2, <1>3, AtLeadIn, AtLeadOut

TagOf(t, i, a, b, o) == [first |-> i, name |-> SubSeq(t, a, b - 1), out |-> o]

\* what TagsIn finds behind a lead-in at i
Behind(t, i) ==
  LET a == Skip(t, i + Len(LeadIn), Space)
      b == Skip(t, a, NameChars(t))
      c == Skip(t, b, Space)
  IN  [first |-> i, name |-> SubSeq(t, a, b - 1), out |-> c]

LEMMA TagsInAre ==
  ASSUME NEW t \in Seq(Chars), NEW x
  PROVE  x \in TagsIn(t) <=>
           /\ \E i \in 1 .. Len(t) - 5 : At(t, i, LeadIn) /\ x = Behind(t, i)
           /\ Len(x.name) \in 1 .. MaxTagName /\ At(t, x.out, LeadOut)
  BY LeadFacts DEF TagsIn, Behind

LEMMA BehindIs ==
  ASSUME NEW t \in Seq(Chars), NEW i \in Nat, NEW a, NEW b, NEW o, TagAt(t, i, a, b, o)
  PROVE  Behind(t, i) = TagOf(t, i, a, b, o)
<1>1. Len(t) \in Nat
  BY LenProperties
<1>2. /\ a \in Nat /\ b \in Nat /\ o \in Nat
      /\ 1 =< i /\ i + 5 =< a /\ a < b /\ b =< o /\ o + 2 =< Len(t) /\ t[o] = Dash
  BY TagFacts
<1>3. Skip(t, i + 5, Space) = a
  <2>1. i + 5 \in 1 .. Len(t) + 1 /\ a \in i + 5 .. Len(t) + 1 /\ a \in a .. b - 1
    BY <1>1, <1>2
  <2>2. IsNameChar(t[a])
    BY <2>1 DEF TagAt
  <2>3. Stops(t, i + 5, Space, a)
    BY <2>1, <2>2 DEF Stops, TagAt, IsNameChar
  <2> QED
    BY <2>1, <2>3, SkipIs
<1>4. Skip(t, a, NameChars(t)) = b
  <2>1. a \in 1 .. Len(t) + 1 /\ b \in a .. Len(t) + 1 /\ b \in 1 .. Len(t)
    BY <1>1, <1>2
  <2>2. ~IsNameChar(t[b])
    <3>1. CASE b = o
      BY <1>2, <3>1 DEF IsNameChar
    <3>2. CASE b # o
      <4>1. b \in b .. o - 1
        BY <1>2, <3>2
      <4>2. t[b] \in Space
        BY <4>1 DEF TagAt, AllIn
      <4> QED
        BY <4>2 DEF IsNameChar
    <3> QED
      BY <3>1, <3>2
  <2>3. AllIn(t, a, b - 1, NameChars(t))
    <3> SUFFICES ASSUME NEW m \in a .. b - 1  PROVE t[m] \in NameChars(t)
      BY DEF AllIn
    <3>1. m \in 1 .. Len(t)
      BY <1>1, <1>2
    <3>2. IsNameChar(t[m])
      BY DEF TagAt
    <3> QED
      BY <3>1, <3>2, NameCharsAre
  <2>4. t[b] \notin NameChars(t)
    BY <2>1, <2>2, NameCharsAre
  <2>5. Stops(t, a, NameChars(t), b)
    BY <2>1, <2>3, <2>4 DEF Stops
  <2> QED
    BY <2>1, <2>5, SkipIs
<1>5. Skip(t, b, Space) = o
  <2>1. b \in 1 .. Len(t) + 1 /\ o \in b .. Len(t) + 1
    BY <1>1, <1>2
  <2>2. t[o] \notin Space
    BY <1>2 DEF Space, Dash
  <2>3. Stops(t, b, Space, o)
    BY <2>1, <2>2 DEF Stops, TagAt
  <2> QED
    BY <2>1, <2>3, SkipIs
<1> QED
  BY <1>3, <1>4, <1>5, LeadFacts DEF Behind, TagOf

LEMMA TagsFound ==
  ASSUME NEW t \in Seq(Chars), NEW i, NEW a, NEW b, NEW o, TagAt(t, i, a, b, o)
  PROVE  TagOf(t, i, a, b, o) \in TagsIn(t)
<1>1. Len(t) \in Nat
  BY LenProperties
<1>2. /\ i \in Nat /\ a \in Nat /\ b \in Nat /\ o \in Nat
      /\ 1 =< i /\ i + 5 =< a /\ a < b /\ b =< o /\ o + 2 =< Len(t)
  BY TagFacts
<1>3. Behind(t, i) = TagOf(t, i, a, b, o)
  BY <1>2, BehindIs
<1>4. At(t, i, LeadIn) /\ At(t, o, LeadOut) /\ b - a =< MaxTagName
  BY DEF TagAt
<1>5. Len(SubSeq(t, a, b - 1)) = b - a
  <2>1. a \in Int /\ b - 1 \in Int /\ a =< b - 1 /\ (b - 1) - a + 1 = b - a
    BY <1>2
  <2>2. \A m \in a .. b - 1 : m \in 1 .. Len(t)
    BY <1>1, <1>2
  <2>3. \A m \in a .. b - 1 : t[m] \in Chars
    BY <2>2, ElementOfSeq
  <2> QED
    BY <2>1, <2>3, SubSeqProperties
<1>6. i \in 1 .. Len(t) - 5 /\ b - a >= 1 /\ b - a \in Int
  BY <1>1, <1>2
<1>7. MaxTagName \in Nat
  BY SsiConstants
<1> DEFINE x == TagOf(t, i, a, b, o)
<1>8. x.name = SubSeq(t, a, b - 1) /\ x.out = o
  BY DEF TagOf
<1> HIDE DEF x
<1>9. Len(x.name) \in 1 .. MaxTagName
  <2>1. Len(x.name) = b - a
    BY <1>5, <1>8
  <2> QED
    BY <1>4, <1>6, <1>7, <2>1
<1>10. \E j \in 1 .. Len(t) - 5 : At(t, j, LeadIn) /\ x = Behind(t, j)
  BY <1>3, <1>4, <1>6 DEF x
<1>11. At(t, x.out, LeadOut)
  BY <1>4, <1>8
<1>12. x \in TagsIn(t)
  BY <1>9, <1>10, <1>11, TagsInAre
<1> QED
  BY <1>12 DEF x

LEMMA TagsAre ==
  ASSUME NEW t \in Seq(Chars), NEW x \in TagsIn(t)
  PROVE  \E i, a, b, o \in 1 .. Len(t) : TagAt(t, i, a, b, o) /\ x = TagOf(t, i, a, b, o)
<1>1. Len(t) \in Nat /\ MaxTagName \in Nat
  BY LenProperties, SsiConstants
<1>2. PICK i \in 1 .. Len(t) - 5 : At(t, i, LeadIn) /\ x = Behind(t, i)
  BY TagsInAre
<1>3. Len(x.name) \in 1 .. MaxTagName /\ At(t, x.out, LeadOut)
  BY TagsInAre
<1>4. PICK a : a = Skip(t, i + 5, Space)
  OBVIOUS
<1>5. PICK b : b = Skip(t, a, NameChars(t))
  OBVIOUS
<1>6. PICK o : o = Skip(t, b, Space)
  OBVIOUS
<1>7. x = TagOf(t, i, a, b, o)
  BY <1>2, <1>4, <1>5, <1>6, LeadFacts DEF Behind, TagOf
<1>8. Stops(t, i + 5, Space, a)
  <2>1. i + 5 \in 1 .. Len(t) + 1
    BY <1>1
  <2> QED
    BY <2>1, <1>4, SkipStops
<1>9. a \in 1 .. Len(t) + 1 /\ i + 5 =< a /\ a \in Nat
  BY <1>1, <1>8 DEF Stops
<1>10. Stops(t, a, NameChars(t), b)
  BY <1>9, <1>5, SkipStops
<1>11. b \in 1 .. Len(t) + 1 /\ a =< b /\ b \in Nat
  BY <1>1, <1>9, <1>10 DEF Stops
<1>12. Stops(t, b, Space, o)
  BY <1>11, <1>6, SkipStops
<1>13. o \in Nat \ {0} /\ b =< o
  BY <1>1, <1>11, <1>12 DEF Stops
<1>14. x.name = SubSeq(t, a, b - 1) /\ x.out = o
  BY <1>7 DEF TagOf
<1>15. o + 2 =< Len(t)
  BY <1>3, <1>13, <1>14, AtLeadOut
<1>16. Len(SubSeq(t, a, b - 1)) = b - a
  <2>1. /\ a \in Int /\ b - 1 \in Int /\ (b - 1) - a + 1 = b - a
        /\ (IF a =< b - 1 THEN b - a ELSE 0) = b - a
    BY <1>9, <1>11
  <2>2. \A m \in a .. b - 1 : m \in 1 .. Len(t)
    BY <1>1, <1>9, <1>11
  <2>3. \A m \in a .. b - 1 : t[m] \in Chars
    BY <2>2, ElementOfSeq
  <2> QED
    BY <2>1, <2>3, SubSeqProperties
<1>17. b - a >= 1 /\ b - a =< MaxTagName
  <2>1. Len(x.name) = b - a
    BY <1>14, <1>16
  <2>2. b - a \in Int
    BY <1>9, <1>11
  <2> QED
    BY <1>1, <1>3, <2>1, <2>2
<1>18. \A m \in a .. b - 1 : IsNameChar(t[m])
  <2> SUFFICES ASSUME NEW m \in a .. b - 1  PROVE IsNameChar(t[m])
    OBVIOUS
  <2>1. m \in 1 .. Len(t)
    BY <1>1, <1>9, <1>11
  <2>2. t[m] \in NameChars(t)
    BY <1>10 DEF Stops, AllIn
  <2> QED
    BY <2>1, <2>2, NameCharsAre
<1>19. AllIn(t, i + 5, a - 1, Space) /\ AllIn(t, b, o - 1, Space)
  BY <1>8, <1>12 DEF Stops
<1>20. /\ i \in 1 .. Len(t) /\ a \in i + 5 .. Len(t) /\ b \in a + 1 .. Len(t)
       /\ o \in b .. Len(t) - 2 /\ At(t, o, LeadOut)
  BY <1>1, <1>3, <1>9, <1>11, <1>13, <1>14, <1>15, <1>17
<1>21. TagAt(t, i, a, b, o)
  BY <1>2, <1>17, <1>18, <1>19, <1>20 DEF TagAt
<1>22. a \in 1 .. Len(t) /\ b \in 1 .. Len(t) /\ o \in 1 .. Len(t)
  BY <1>1, <1>9, <1>11, <1>13, <1>20
<1> QED
  BY <1>7, <1>20, <1>21, <1>22

LEMMA EndsAre ==
  ASSUME NEW p \in DOMAIN Pages, NEW t \in Seq(Chars), t = Pages[p].text
  PROVE  TagEnds[p] = Ends(t)
<1>1. Len(t) \in Nat
  BY LenProperties
<1>2. TagEnds[p] = {x.out + 2 : x \in TagsIn(t)}
  BY DEF TagEnds
<1>3. ASSUME NEW x \in TagsIn(t)  PROVE x.out + 2 \in Ends(t)
  <2>1. PICK i \in 1 .. Len(t), a \in 1 .. Len(t), b \in 1 .. Len(t), o \in 1 .. Len(t) :
          TagAt(t, i, a, b, o) /\ x = TagOf(t, i, a, b, o)
    BY TagsAre
  <2>2. x.out = o
    BY <2>1 DEF TagOf
  <2>3. o + 2 =< Len(t)
    BY <2>1, TagFacts
  <2>4. o + 2 \in 1 .. Len(t) /\ (o + 2) - 2 = o
    BY <1>1, <2>1, <2>3
  <2> QED
    BY <2>1, <2>2, <2>4 DEF Ends
<1>4. ASSUME NEW e \in Ends(t)  PROVE \E x \in TagsIn(t) : e = x.out + 2
  <2>1. PICK i \in 1 .. Len(t), a \in 1 .. Len(t), b \in 1 .. Len(t) :
          e \in 1 .. Len(t) /\ TagAt(t, i, a, b, e - 2)
    BY DEF Ends
  <2>2. TagOf(t, i, a, b, e - 2) \in TagsIn(t)
    BY <2>1, TagsFound
  <2>3. TagOf(t, i, a, b, e - 2).out + 2 = e
    BY <2>1 DEF TagOf
  <2> QED
    BY <2>2, <2>3
<1> QED
  BY <1>2, <1>3, <1>4

-----------------------------------------------------------------------------
(* What the assumption says of a file. *)

Paired(t) ==
  \A i, j \in 1 .. Len(t) :
    i < j /\ t[i] = "<" /\ t[j] = "<" => \E k \in i .. j : t[k] = ">"
DashFirst(t) ==
  \A i, k \in 1 .. Len(t) :
    i < k /\ At(t, i, LeadIn) /\ t[k] = ">" /\ (\A m \in i .. k - 1 : t[m] # ">")
      => t[k - 1] = Dash

IsFile(t) == t \in Seq(Chars) /\ Paired(t) /\ DashFirst(t)

LEMMA TextFacts ==
  ASSUME NEW p \in DOMAIN Pages
  PROVE  /\ IsFile(Pages[p].text) /\ Len(Pages[p].text) \in Nat
         /\ DOMAIN Pages[p].text = 1 .. Len(Pages[p].text)
         /\ TagEnds[p] = Ends(Pages[p].text)
         /\ Len(Pages[p].text) \notin Ends(Pages[p].text)
         /\ Pages[p].tagCheck \in BOOLEAN
<1> DEFINE t == Pages[p].text
<1>1. t \in Seq(Range(t)) /\ Len(t) \notin TagEnds[p] /\ Pages[p].tagCheck \in BOOLEAN
  BY SsiConstants
<1>2. Range(t) \subseteq Chars
  BY DEF Chars
<1>3. t \in Seq(Chars)
  <2> HIDE DEF t
  <2> QED
    BY <1>1, <1>2, SeqMonotonic
<1>4. Len(t) \in Nat /\ DOMAIN t = 1 .. Len(t)
  <2> HIDE DEF t
  <2> QED
    BY <1>3, LenProperties
<1>5. Paired(t)
  BY <1>4, SsiConstants DEF Paired
<1>6. DashFirst(t)
  BY <1>4, SsiConstants DEF DashFirst, Dash
<1>7. TagEnds[p] = Ends(t)
  BY <1>3, EndsAre
<1> QED
  BY <1>1, <1>3, <1>4, <1>5, <1>6, <1>7 DEF IsFile

-----------------------------------------------------------------------------
(* While a tag may be coming no other one can start. *)

\* no ">" up to and including p
LEMMA NoBracket ==
  ASSUME NEW t, IsFile(t), NEW c \in Nat \ {0}, NEW p \in Nat, c + 5 =< p, p =< Len(t) + 1,
         At(t, c, LeadIn), \A m \in c + 5 .. p - 1 : t[m] # Dash
  PROVE  \A m \in c .. p : m =< Len(t) => t[m] # ">"
<1>1. t \in Seq(Chars) /\ DashFirst(t) /\ Len(t) \in Nat
  BY LenProperties DEF IsFile
<1> DEFINE T == {m \in c .. p : m =< Len(t) /\ t[m] = ">"}
<1>a. T \subseteq Nat
  OBVIOUS
<1>b. \A m \in T : m \in c .. p /\ m =< Len(t) /\ t[m] = ">"
  OBVIOUS
<1>c. \A m \in c .. p : m =< Len(t) /\ m \notin T => t[m] # ">"
  OBVIOUS
<1> HIDE DEF T
<1>2. T = {}
  <2> SUFFICES ASSUME T # {}  PROVE FALSE
    OBVIOUS
  <2>1. PICK k \in T : \A m \in T : k =< m
    BY <1>a, LeastNat
  <2>2. k \in c .. p /\ k =< Len(t) /\ t[k] = ">"
    BY <1>b, <2>1
  <2>3. t[c] = "<" /\ t[c + 1] = "!" /\ t[c + 2] = Dash /\ t[c + 3] = Dash /\ t[c + 4] = "#"
    BY <1>1, AtLeadIn
  <2>4. k # c /\ k # c + 1 /\ k # c + 2 /\ k # c + 3 /\ k # c + 4
    BY <2>2, <2>3 DEF Dash
  <2>5. c + 5 =< k /\ k - 1 \in c + 4 .. p - 1 /\ c < k
    BY <2>2, <2>4
  <2>6. \A m \in c .. k - 1 : t[m] # ">"
    <3> SUFFICES ASSUME NEW m \in c .. k - 1  PROVE t[m] # ">"
      OBVIOUS
    <3>1. m \in c .. p /\ m =< Len(t) /\ ~(k =< m)
      BY <1>1, <2>2
    <3> QED
      BY <1>c, <2>1, <3>1
  <2>7. c \in 1 .. Len(t) /\ k \in 1 .. Len(t)
    BY <1>1, <2>2, <2>5
  <2>8. t[k - 1] = Dash
    BY <1>1, <2>2, <2>5, <2>6, <2>7 DEF DashFirst
  <2>9. k - 1 = c + 4 \/ k - 1 \in c + 5 .. p - 1
    BY <2>5
  <2> QED
    BY <2>3, <2>8, <2>9 DEF Dash
<1> QED
  BY <1>2, <1>c

\* what the three states of a coming tag have in common
Coming(t, c, p) ==
  /\ c \in 1 .. p - 1 /\ p =< Len(t) + 1 /\ t[c] = "<"
  /\ \A m \in c .. p - 1 : t[m] # ">"

LEMMA ComingLeadIn ==
  ASSUME NEW t, IsFile(t), NEW p \in 1 .. Len(t) + 1, NEW c, NEW k, InLeadIn(t, c, p, k)
  PROVE  Coming(t, c, p)
<1>1. Len(t) \in Nat /\ t \in Seq(Chars)
  BY LenProperties DEF IsFile
<1>2. k \in 1 .. 5 /\ c = p - k /\ c >= 1 /\ \A m \in 1 .. k : t[c + m - 1] = LeadIn[m]
  BY DEF InLeadIn
<1>3. c \in 1 .. p - 1 /\ p =< Len(t) + 1
  BY <1>1, <1>2
<1>4. t[c] = "<"
  <2>1. 1 \in 1 .. k /\ c + 1 - 1 = c
    BY <1>2, <1>3
  <2> QED
    BY <1>2, <2>1, LeadFacts
<1>5. ASSUME NEW m \in c .. p - 1  PROVE t[m] # ">"
  <2>1. PICK j \in 1 .. k : m = c + j - 1
    <3>1. m - c + 1 \in 1 .. k /\ m = c + (m - c + 1) - 1
      BY <1>2, <1>3
    <3> QED
      BY <3>1
  <2>2. t[m] = LeadIn[j] /\ j \in {1, 2, 3, 4, 5}
    BY <1>2, <2>1
  <2> QED
    BY <2>2, LeadFacts DEF Dash
<1> QED
  BY <1>3, <1>4, <1>5 DEF Coming

LEMMA NameBracket ==
  ASSUME NEW t, IsFile(t), NEW p \in 1 .. Len(t) + 1, NEW c, NEW k, NEW name,
         InName(t, c, p, k, name)
  PROVE  /\ \A m \in c .. p : m =< Len(t) => t[m] # ">"
         /\ \A m \in c + 4 .. p - 1 : t[m] # Dash
<1>1. Len(t) \in Nat /\ t \in Seq(Chars)
  BY LenProperties DEF IsFile
<1>2. /\ c \in 1 .. p - 5 /\ At(t, c, LeadIn) /\ k \in Nat /\ c + 5 =< p - k
      /\ AllIn(t, c + 5, p - k - 1, Space) /\ \A m \in p - k .. p - 1 : IsNameChar(t[m])
  <2>1. MaxTagName \in Nat
    BY SsiConstants
  <2> QED
    BY <2>1 DEF InName
<1>3. ASSUME NEW m \in c + 5 .. p - 1  PROVE t[m] # Dash
  <2>1. m \in c + 5 .. p - k - 1 \/ m \in p - k .. p - 1
    BY <1>2
  <2> QED
    BY <1>2, <2>1 DEF AllIn, IsNameChar, Space, Dash
<1>4. c \in Nat \ {0} /\ p \in Nat /\ c + 5 =< p /\ p =< Len(t) + 1
  BY <1>1, <1>2
<1>5. t[c + 4] # Dash
  BY <1>1, <1>2, <1>4, AtLeadIn DEF Dash
<1>6. \A m \in c + 4 .. p - 1 : m = c + 4 \/ m \in c + 5 .. p - 1
  BY <1>4
<1> QED
  BY <1>2, <1>3, <1>4, <1>5, <1>6, NoBracket

LEMMA ComingName ==
  ASSUME NEW t, IsFile(t), NEW p \in 1 .. Len(t) + 1, NEW c, NEW k, NEW name,
         InName(t, c, p, k, name)
  PROVE  Coming(t, c, p)
<1>1. Len(t) \in Nat /\ t \in Seq(Chars)
  BY LenProperties DEF IsFile
<1>2. c \in 1 .. p - 5 /\ At(t, c, LeadIn)
  BY DEF InName
<1>3. c \in Nat \ {0} /\ c \in 1 .. p - 1 /\ p =< Len(t) + 1
  BY <1>1, <1>2
<1>4. t[c] = "<"
  BY <1>1, <1>2, <1>3, AtLeadIn
<1>5. \A m \in c .. p - 1 : m \in c .. p /\ m =< Len(t)
  BY <1>1, <1>2
<1> QED
  BY <1>3, <1>4, <1>5, NameBracket DEF Coming

LEMMA ComingLeadOut ==
  ASSUME NEW t, IsFile(t), NEW p \in 1 .. Len(t) + 1, NEW c, NEW k, NEW name,
         InLeadOut(t, c, p, k, name)
  PROVE  Coming(t, c, p)
<1>1. Len(t) \in Nat /\ t \in Seq(Chars)
  BY LenProperties DEF IsFile
<1>2. c \in 1 .. p - 6 /\ At(t, c, LeadIn) /\ k \in 0 .. 2
  BY DEF InLeadOut
<1>3. PICK a \in c + 5 .. p - k, b \in c + 5 .. p - k :
        /\ a < b /\ AllIn(t, c + 5, a - 1, Space)
        /\ \A m \in a .. b - 1 : IsNameChar(t[m])
        /\ AllIn(t, b, p - k - 1, Space) /\ AllIn(t, p - k, p - 1, {Dash})
  BY DEF InLeadOut
<1>4. c \in Nat \ {0} /\ c \in 1 .. p - 1 /\ p =< Len(t) + 1 /\ p - k \in Nat
      /\ c + 5 =< p - k /\ p - k =< Len(t) + 1
  BY <1>1, <1>2, <1>3
<1>5. t[c] = "<"
  BY <1>1, <1>2, <1>4, AtLeadIn
<1>6. ASSUME NEW m \in c + 5 .. (p - k) - 1  PROVE t[m] # Dash
  <2>1. m \in c + 5 .. a - 1 \/ m \in a .. b - 1 \/ m \in b .. p - k - 1
    BY <1>2, <1>3, <1>4
  <2> QED
    BY <1>3, <2>1 DEF AllIn, IsNameChar, Space, Dash
<1>7. \A m \in c .. p - k : m =< Len(t) => t[m] # ">"
  BY <1>2, <1>4, <1>6, NoBracket
<1>8. ASSUME NEW m \in c .. p - 1  PROVE t[m] # ">"
  <2>1. m =< Len(t) /\ (m \in c .. p - k \/ m \in p - k .. p - 1)
    BY <1>1, <1>2, <1>4
  <2> QED
    BY <1>3, <1>7, <2>1 DEF AllIn, Dash
<1> QED
  BY <1>4, <1>5, <1>8 DEF Coming

LEMMA NoOther ==
  ASSUME NEW t, IsFile(t), NEW p \in 1 .. Len(t), NEW c, Coming(t, c, p)
  PROVE  t[p] # "<"
<1>1. Len(t) \in Nat
  BY LenProperties DEF IsFile
<1>2. c \in 1 .. p - 1 /\ t[c] = "<" /\ \A m \in c .. p - 1 : t[m] # ">"
  BY DEF Coming
<1>3. c \in 1 .. Len(t) /\ c < p
  BY <1>1, <1>2
<1> SUFFICES ASSUME t[p] = "<"  PROVE FALSE
  OBVIOUS
<1>4. PICK k \in c .. p : t[k] = ">"
  BY <1>2, <1>3 DEF IsFile, Paired
<1>5. k \in c .. p - 1 \/ k = p
  BY <1>2, <1>3
<1> QED
  BY <1>2, <1>4, <1>5

\* The scanner goes on: the tag that is coming still is, ...
LEMMA ResolvedKeep ==
  ASSUME NEW t, IsFile(t), NEW p \in 1 .. Len(t), NEW c, Coming(t, c, p), Resolved(t, c, p)
  PROVE  Resolved(t, c, p + 1)
<1>1. Len(t) \in Nat /\ t \in Seq(Chars)
  BY LenProperties DEF IsFile
<1> SUFFICES ASSUME NEW i \in 1 .. Len(t), NEW a \in 1 .. Len(t), NEW b \in 1 .. Len(t),
                    NEW o \in 1 .. Len(t), TagAt(t, i, a, b, o), i < p + 1, i # c
             PROVE  o + 2 < p + 1
  BY DEF Resolved
<1>2. t[i] = "<"
  BY <1>1, TagFacts
<1>3. i # p
  BY <1>2, NoOther
<1>4. i < p
  BY <1>1, <1>3
<1>5. o + 2 < p
  BY <1>4 DEF Resolved
<1> QED
  BY <1>1, <1>5

\* ... or it was none or is complete now, ...
LEMMA ResolvedDrop ==
  ASSUME NEW t, IsFile(t), NEW p \in 1 .. Len(t), NEW c, Coming(t, c, p), Resolved(t, c, p),
         \A a, b, o : TagAt(t, c, a, b, o) => o + 2 < p + 1
  PROVE  Resolved(t, 0, p + 1)
<1>1. Resolved(t, c, p + 1)
  BY ResolvedKeep
<1> SUFFICES ASSUME NEW i \in 1 .. Len(t), NEW a \in 1 .. Len(t), NEW b \in 1 .. Len(t),
                    NEW o \in 1 .. Len(t), TagAt(t, i, a, b, o), i < p + 1, i # 0
             PROVE  o + 2 < p + 1
  BY DEF Resolved
<1>2. CASE i = c
  BY <1>2
<1>3. CASE i # c
  BY <1>1, <1>3 DEF Resolved
<1> QED
  BY <1>2, <1>3

\* ... or nothing is coming, unless the character is the first of a lead-in.
LEMMA ResolvedNone ==
  ASSUME NEW t, IsFile(t), NEW p \in 1 .. Len(t), Resolved(t, 0, p)
  PROVE  /\ Resolved(t, p, p + 1)
         /\ t[p] # "<" => Resolved(t, 0, p + 1)
<1>1. Len(t) \in Nat /\ t \in Seq(Chars)
  BY LenProperties DEF IsFile
<1>2. ASSUME NEW i \in 1 .. Len(t), NEW a \in 1 .. Len(t), NEW b \in 1 .. Len(t),
             NEW o \in 1 .. Len(t), TagAt(t, i, a, b, o), i < p + 1,
             i # p \/ t[p] # "<"
      PROVE  o + 2 < p + 1
  <2>1. t[i] = "<"
    BY <1>1, <1>2, TagFacts
  <2>2. i < p /\ i # 0
    BY <1>1, <1>2, <2>1
  <2>3. o + 2 < p
    BY <1>2, <2>2 DEF Resolved
  <2> QED
    BY <1>1, <1>2, <2>3
<1> QED
  BY <1>2 DEF Resolved

\* No tag ends at p if the one that is coming does not.
LEMMA NoEnd ==
  ASSUME NEW t, IsFile(t), NEW p \in 1 .. Len(t), NEW c, Resolved(t, c, p),
         \A a, b, o : TagAt(t, c, a, b, o) => o + 2 # p
  PROVE  p \notin Ends(t)
<1>1. Len(t) \in Nat /\ t \in Seq(Chars)
  BY LenProperties DEF IsFile
<1> SUFFICES ASSUME p \in Ends(t)  PROVE FALSE
  OBVIOUS
<1>2. PICK i \in 1 .. Len(t), a \in 1 .. Len(t), b \in 1 .. Len(t) : TagAt(t, i, a, b, p - 2)
  BY DEF Ends
<1>3. /\ p - 2 \in 1 .. Len(t) /\ (p - 2) + 2 = p /\ i < p
  <2>1. PICK o : o = p - 2
    OBVIOUS
  <2>2. o \in Nat /\ a \in Nat /\ b \in Nat /\ i + 5 =< a /\ a < b /\ b =< o
    BY <1>1, <1>2, <2>1, TagFacts
  <2> QED
    BY <1>1, <2>1, <2>2
<1>4. i # c
  BY <1>2, <1>3
<1>5. (p - 2) + 2 < p
  BY <1>2, <1>3, <1>4 DEF Resolved
<1> QED
  BY <1>3, <1>5

-----------------------------------------------------------------------------
(* The tag that is coming, if it is one, in each state of the scanner. *)

LEMMA LeadInTag ==
  ASSUME NEW t, IsFile(t), NEW p \in 1 .. Len(t), NEW c, NEW k, InLeadIn(t, c, p, k),
         NEW a, NEW b, NEW o, TagAt(t, c, a, b, o)
  PROVE  p < o + 2 /\ (k < 5 => t[p] = LeadIn[k + 1])
<1>1. Len(t) \in Nat /\ t \in Seq(Chars)
  BY LenProperties DEF IsFile
<1>2. k \in 1 .. 5 /\ c = p - k
  BY DEF InLeadIn
<1>3. /\ c \in Nat /\ a \in Nat /\ b \in Nat /\ o \in Nat
      /\ 1 =< c /\ c + 5 =< a /\ a < b /\ b =< o
      /\ t[c + 1] = "!" /\ t[c + 2] = Dash /\ t[c + 3] = Dash /\ t[c + 4] = "#"
  BY <1>1, TagFacts
<1>4. p < o + 2
  BY <1>2, <1>3
<1>5. k < 5 => t[p] = LeadIn[k + 1]
  <2>1. p = c + k
    BY <1>2, <1>3
  <2>2. k < 5 => k \in {1, 2, 3, 4}
    BY <1>2
  <2>3. 1 + 1 = 2 /\ 2 + 1 = 3 /\ 3 + 1 = 4 /\ 4 + 1 = 5
    OBVIOUS
  <2> QED
    BY <1>3, <2>1, <2>2, <2>3, LeadFacts
<1> QED
  BY <1>4, <1>5

\* where the name starts
LEMMA NameStart ==
  ASSUME NEW t \in Seq(Chars), NEW c \in Nat, NEW a, NEW b, NEW o, TagAt(t, c, a, b, o),
         NEW s \in Nat, c + 5 =< s, AllIn(t, c + 5, s - 1, Space), t[s] \notin Space
  PROVE  a = s
<1>1. a \in Nat /\ b \in Nat /\ c + 5 =< a /\ a < b
  BY TagFacts
<1>2. AllIn(t, c + 5, a - 1, Space) /\ \A m \in a .. b - 1 : IsNameChar(t[m])
  BY DEF TagAt
<1>3. ~(a < s)
  <2> SUFFICES ASSUME a < s  PROVE FALSE
    OBVIOUS
  <2>1. a \in c + 5 .. s - 1 /\ a \in a .. b - 1
    BY <1>1
  <2> QED
    BY <1>2, <2>1 DEF AllIn, IsNameChar
<1>4. ~(s < a)
  <2> SUFFICES ASSUME s < a  PROVE FALSE
    OBVIOUS
  <2>1. s \in c + 5 .. a - 1
    BY <1>1
  <2> QED
    BY <1>2, <2>1 DEF AllIn
<1> QED
  BY <1>1, <1>3, <1>4

\* and where it ends
LEMMA NameEnd ==
  ASSUME NEW t \in Seq(Chars), NEW c \in Nat, NEW a, NEW b, NEW o, TagAt(t, c, a, b, o),
         NEW e \in Nat, a < e, \A m \in a .. e - 1 : IsNameChar(t[m])
  PROVE  e =< b /\ (~IsNameChar(t[e]) => b = e)
<1>1. a \in Nat /\ b \in Nat /\ o \in Nat /\ a < b /\ b =< o /\ t[o] = Dash
  BY TagFacts
<1>2. AllIn(t, b, o - 1, Space) /\ \A m \in a .. b - 1 : IsNameChar(t[m])
  BY DEF TagAt
<1>3. ~IsNameChar(t[b])
  <2>1. CASE b = o
    BY <1>1, <2>1 DEF IsNameChar
  <2>2. CASE b # o
    <3>1. b \in b .. o - 1
      BY <1>1, <2>2
    <3> QED
      BY <1>2, <3>1 DEF AllIn, IsNameChar
  <2> QED
    BY <2>1, <2>2
<1>4. e =< b
  <2> SUFFICES ASSUME b < e  PROVE FALSE
    BY <1>1
  <2>1. b \in a .. e - 1
    BY <1>1
  <2> QED
    BY <1>3, <2>1
<1>5. ASSUME ~IsNameChar(t[e])  PROVE ~(e < b)
  <2> SUFFICES ASSUME e < b  PROVE FALSE
    OBVIOUS
  <2>1. e \in a .. b - 1
    BY <1>1
  <2> QED
    BY <1>2, <1>5, <2>1
<1> QED
  BY <1>1, <1>4, <1>5

LEMMA NameTag ==
  ASSUME NEW t, IsFile(t), NEW p \in 1 .. Len(t), NEW c, NEW k, NEW name,
         InName(t, c, p, k, name), NEW a, NEW b, NEW o, TagAt(t, c, a, b, o)
  PROVE  /\ o + 2 # p
         /\ k = 0 => t[p] # Dash
         /\ IsNameChar(t[p]) => k < MaxTagName
<1>1. Len(t) \in Nat /\ t \in Seq(Chars) /\ MaxTagName \in Nat
  BY LenProperties, SsiConstants DEF IsFile
<1>2. /\ c \in 1 .. p - 5 /\ k \in 0 .. MaxTagName /\ c + 5 =< p - k
      /\ AllIn(t, c + 5, p - k - 1, Space) /\ \A m \in p - k .. p - 1 : IsNameChar(t[m])
  BY DEF InName
<1>3. /\ c \in Nat /\ a \in Nat /\ b \in Nat /\ o \in Nat /\ c + 5 =< a /\ a < b /\ b =< o
      /\ t[o] = Dash /\ t[o + 1] = Dash
  BY <1>1, TagFacts
<1>4. b - a =< MaxTagName /\ \A m \in a .. b - 1 : IsNameChar(t[m])
  BY DEF TagAt
<1>5. o + 2 # p
  <2> SUFFICES ASSUME o + 2 = p  PROVE FALSE
    OBVIOUS
  <2>1. o + 1 \in c + 4 .. p - 1
    BY <1>2, <1>3
  <2> QED
    BY <1>3, <2>1, NameBracket
<1>6. CASE k = 0
  <2>1. p \in Nat /\ c + 5 =< p /\ AllIn(t, c + 5, p - 1, Space)
    BY <1>1, <1>2, <1>6
  <2>2. t[p] \notin Space => a = p
    BY <1>1, <1>3, <2>1, NameStart
  <2>3. a \in a .. b - 1
    BY <1>3
  <2>4. t[p] # Dash
    <3> SUFFICES ASSUME t[p] = Dash  PROVE FALSE
      OBVIOUS
    <3>1. a = p
      BY <2>2 DEF Space, Dash
    <3> QED
      BY <1>4, <2>3, <3>1 DEF IsNameChar
  <2>5. IsNameChar(t[p]) => k < MaxTagName
    BY <1>1, <1>3, <1>4, <1>6
  <2> QED
    BY <1>5, <2>4, <2>5
<1>7. CASE k # 0
  <2>1. p - k \in Nat /\ p - k \in p - k .. p - 1 /\ p - k < p /\ p \in Nat
    BY <1>1, <1>2, <1>7
  <2>2. t[p - k] \notin Space
    BY <1>2, <2>1 DEF IsNameChar
  <2>3. a = p - k
    BY <1>1, <1>2, <1>3, <2>1, <2>2, NameStart
  <2>4. IsNameChar(t[p]) => k < MaxTagName
    <3> SUFFICES ASSUME IsNameChar(t[p])  PROVE k < MaxTagName
      OBVIOUS
    <3>1. a < p + 1 /\ p + 1 \in Nat
      BY <1>3, <2>1, <2>3
    <3>2. \A m \in a .. (p + 1) - 1 : m \in p - k .. p - 1 \/ m = p
      BY <1>3, <2>1, <2>3
    <3>3. \A m \in a .. (p + 1) - 1 : IsNameChar(t[m])
      BY <1>2, <3>2
    <3>4. p + 1 =< b
      BY <1>1, <1>3, <3>1, <3>3, NameEnd
    <3> QED
      BY <1>1, <1>2, <1>3, <1>4, <2>1, <2>3, <3>4
  <2> QED
    BY <1>5, <1>7, <2>4
<1> QED
  BY <1>6, <1>7

\* the parts of a tag behind whose name the scanner is
LEMMA LeadOutTag ==
  ASSUME NEW t, IsFile(t), NEW p \in 1 .. Len(t), NEW c, NEW k, NEW name,
         InLeadOut(t, c, p, k, name), NEW i, NEW b, NEW o, TagAt(t, c, i, b, o)
  PROVE  /\ k = 0 => p =< o /\ (t[p] \in Space \/ t[p] = Dash)
         /\ k # 0 => o = p - k
         /\ k = 1 => t[p] = Dash
         /\ k = 2 => t[p] = ">"
         /\ name = SubSeq(t, i, b - 1)
<1>1. Len(t) \in Nat /\ t \in Seq(Chars)
  BY LenProperties DEF IsFile
<1>2. c \in 1 .. p - 6 /\ k \in 0 .. 2
  BY DEF InLeadOut
<1>3. PICK a \in c + 5 .. p - k, e \in c + 5 .. p - k :
        /\ a < e /\ (k = 0 => e < p) /\ AllIn(t, c + 5, a - 1, Space)
        /\ \A m \in a .. e - 1 : IsNameChar(t[m])
        /\ name = SubSeq(t, a, e - 1)
        /\ AllIn(t, e, p - k - 1, Space) /\ AllIn(t, p - k, p - 1, {Dash})
  BY DEF InLeadOut
<1>4. /\ c \in Nat /\ i \in Nat /\ b \in Nat /\ o \in Nat /\ c + 5 =< i /\ i < b /\ b =< o
      /\ t[o] = Dash /\ t[o + 1] = Dash /\ t[o + 2] = ">"
  BY <1>1, TagFacts
<1>5. a \in Nat /\ e \in Nat /\ c + 5 =< a /\ p \in Nat /\ p - k \in Nat /\ e =< p - k
  BY <1>2, <1>3, <1>4
<1>6. i = a
  <2>1. a \in a .. e - 1
    BY <1>3, <1>5
  <2>2. t[a] \notin Space
    BY <1>3, <2>1 DEF IsNameChar
  <2> QED
    BY <1>1, <1>3, <1>4, <1>5, <2>2, NameStart
<1>7. b = e
  <2>1. k # 0 => p - k \in p - k .. p - 1
    BY <1>2, <1>5
  <2>2. e < p - k => e \in e .. p - k - 1
    BY <1>5
  <2>3. k = 0 => e < p - k
    BY <1>3, <1>5
  <2>4. e < p - k \/ (k # 0 /\ e = p - k)
    BY <1>5, <2>3
  <2>5. ~IsNameChar(t[e])
    BY <1>3, <2>1, <2>2, <2>4 DEF AllIn, IsNameChar
  <2> QED
    BY <1>1, <1>3, <1>4, <1>5, <1>6, <2>5, NameEnd
<1>8. AllIn(t, b, o - 1, Space)
  BY DEF TagAt
<1>9. p - k =< o
  <2> SUFFICES ASSUME o < p - k  PROVE FALSE
    BY <1>4, <1>5
  <2>1. o \in e .. p - k - 1
    BY <1>4, <1>5, <1>7
  <2> QED
    BY <1>3, <1>4, <2>1 DEF AllIn, Space, Dash
<1>10. k # 0 => o = p - k
  <2> SUFFICES ASSUME k # 0, p - k < o  PROVE FALSE
    BY <1>4, <1>5, <1>9
  <2>1. p - k \in b .. o - 1 /\ p - k \in p - k .. p - 1
    BY <1>2, <1>4, <1>5, <1>7
  <2> QED
    BY <1>3, <1>8, <2>1 DEF AllIn, Space, Dash
<1>11. k = 0 => p =< o /\ (t[p] \in Space \/ t[p] = Dash)
  <2> SUFFICES ASSUME k = 0  PROVE p =< o /\ (t[p] \in Space \/ t[p] = Dash)
    OBVIOUS
  <2>1. p =< o
    BY <1>5, <1>9
  <2>2. p = o \/ p \in b .. o - 1
    BY <1>3, <1>4, <1>5, <1>7, <2>1
  <2> QED
    BY <1>4, <1>8, <2>1, <2>2 DEF AllIn
<1>12. (k = 1 => t[p] = Dash) /\ (k = 2 => t[p] = ">")
  <2>1. k = 1 => o + 1 = p
    BY <1>5, <1>10
  <2>2. k = 2 => o + 2 = p
    BY <1>5, <1>10
  <2> QED
    BY <1>4, <2>1, <2>2
<1> QED
  BY <1>3, <1>6, <1>7, <1>10, <1>11, <1>12

\* When the last character of the lead-out comes the tag is one.
LEMMA LeadOutComplete ==
  ASSUME NEW t, IsFile(t), NEW p \in 1 .. Len(t), NEW c, NEW name,
         InLeadOut(t, c, p, 2, name), t[p] = ">"
  PROVE  \E a, b \in 1 .. Len(t) : TagAt(t, c, a, b, p - 2) /\ name = SubSeq(t, a, b - 1)
<1>1. Len(t) \in Nat /\ t \in Seq(Chars)
  BY LenProperties DEF IsFile
<1>2. c \in 1 .. p - 6 /\ At(t, c, LeadIn)
  BY DEF InLeadOut
<1>3. PICK a \in c + 5 .. p - 2, b \in c + 5 .. p - 2 :
        /\ a < b /\ b - a =< MaxTagName /\ AllIn(t, c + 5, a - 1, Space)
        /\ \A m \in a .. b - 1 : IsNameChar(t[m])
        /\ name = SubSeq(t, a, b - 1)
        /\ AllIn(t, b, p - 2 - 1, Space) /\ AllIn(t, p - 2, p - 1, {Dash})
  BY DEF InLeadOut
<1>4. At(t, p - 2, LeadOut)
  <2>1. p - 2 \in Nat \ {0} /\ (p - 2) + 1 = p - 1 /\ (p - 2) + 2 = p /\ p =< Len(t)
    BY <1>1, <1>2
  <2>2. p - 2 \in p - 2 .. p - 1 /\ p - 1 \in p - 2 .. p - 1
    BY <1>1, <1>2
  <2>3. t[p - 2] = Dash /\ t[p - 1] = Dash
    BY <1>3, <2>2 DEF AllIn
  <2> QED
    BY <1>1, <2>1, <2>3, AtLeadOut
<1>5. /\ c \in 1 .. Len(t) /\ a \in c + 5 .. Len(t) /\ b \in a + 1 .. Len(t)
      /\ p - 2 \in b .. Len(t) - 2
      /\ a \in 1 .. Len(t) /\ b \in 1 .. Len(t) /\ p - 2 - 1 = (p - 2) - 1
  BY <1>1, <1>2, <1>3
<1>6. TagAt(t, c, a, b, p - 2)
  BY <1>2, <1>3, <1>4, <1>5 DEF TagAt
<1> QED
  BY <1>3, <1>5, <1>6

-----------------------------------------------------------------------------
(* The steps of the scanner. *)

LEMMA LeadInStart ==
  ASSUME NEW t, NEW p \in Nat \ {0}, t[p] = "<"
  PROVE  InLeadIn(t, p, p + 1, 1)
<1>1. \A m \in 1 .. 1 : m = 1 /\ p + m - 1 = p
  OBVIOUS
<1>2. 1 \in 1 .. 5 /\ p = (p + 1) - 1 /\ p >= 1
  OBVIOUS
<1> QED
  BY <1>1, <1>2, LeadFacts DEF InLeadIn

LEMMA LeadInNext ==
  ASSUME NEW t, NEW p \in Nat, NEW c, NEW k, InLeadIn(t, c, p, k), k # 5, t[p] = LeadIn[k + 1]
  PROVE  InLeadIn(t, c, p + 1, k + 1)
<1>1. k \in 1 .. 5 /\ c = p - k /\ c >= 1 /\ \A m \in 1 .. k : t[c + m - 1] = LeadIn[m]
  BY DEF InLeadIn
<1>2. k + 1 \in 1 .. 5 /\ c = (p + 1) - (k + 1) /\ c + (k + 1) - 1 = p
  BY <1>1
<1>3. \A m \in 1 .. k + 1 : m \in 1 .. k \/ m = k + 1
  BY <1>1
<1>4. \A m \in 1 .. k + 1 : t[c + m - 1] = LeadIn[m]
  BY <1>1, <1>2, <1>3
<1> QED
  BY <1>1, <1>2, <1>4 DEF InLeadIn

LEMMA LeadInDone ==
  ASSUME NEW t, IsFile(t), NEW p \in 1 .. Len(t) + 1, NEW c, InLeadIn(t, c, p, 5),
         NEW name \in Seq(Chars)
  PROVE  InName(t, c, p, 0, name)
<1>1. Len(t) \in Nat /\ t \in Seq(Chars) /\ Len(name) \in Nat /\ MaxTagName \in Nat
  BY LenProperties, SsiConstants DEF IsFile
<1>2. c = p - 5 /\ c >= 1 /\ \A m \in 1 .. 5 : t[c + m - 1] = LeadIn[m]
  BY DEF InLeadIn
<1>3. /\ c + 1 - 1 = c /\ c + 2 - 1 = c + 1 /\ c + 3 - 1 = c + 2 /\ c + 4 - 1 = c + 3
      /\ c + 5 - 1 = c + 4
      /\ c \in Nat \ {0} /\ c + 4 =< Len(t) /\ c \in 1 .. p - 5
  BY <1>1, <1>2
<1>4. /\ t[c + 1 - 1] = LeadIn[1] /\ t[c + 2 - 1] = LeadIn[2] /\ t[c + 3 - 1] = LeadIn[3]
      /\ t[c + 4 - 1] = LeadIn[4] /\ t[c + 5 - 1] = LeadIn[5]
  BY <1>2
<1>5. At(t, c, LeadIn)
  <2>1. /\ t[c] = "<" /\ t[c + 1] = "!" /\ t[c + 2] = Dash /\ t[c + 3] = Dash
        /\ t[c + 4] = "#"
    BY <1>3, <1>4, LeadFacts
  <2> QED
    BY <1>1, <1>3, <2>1, AtLeadIn
<1>6. /\ 0 \in 0 .. MaxTagName /\ 0 =< Len(name) /\ c + 5 =< p - 0
      /\ AllIn(t, c + 5, p - 0 - 1, Space)
      /\ \A m \in p - 0 .. p - 1 : IsNameChar(t[m])
      /\ \A m \in 1 .. 0 : name[m] = t[p - 0 + m - 1]
  BY <1>1, <1>2 DEF AllIn
<1> QED
  BY <1>3, <1>5, <1>6 DEF InName

LEMMA NameSpace ==
  ASSUME NEW t, NEW p \in Nat, NEW c, NEW name, InName(t, c, p, 0, name), t[p] \in Space
  PROVE  InName(t, c, p + 1, 0, name)
<1>1. /\ c \in 1 .. p - 5 /\ At(t, c, LeadIn) /\ 0 \in 0 .. MaxTagName /\ 0 =< Len(name)
      /\ AllIn(t, c + 5, p - 0 - 1, Space)
  BY DEF InName
<1>2. AllIn(t, c + 5, (p + 1) - 0 - 1, Space)
  <2>1. \A m \in c + 5 .. (p + 1) - 0 - 1 : m \in c + 5 .. p - 0 - 1 \/ m = p
    BY <1>1
  <2> QED
    BY <1>1, <2>1 DEF AllIn
<1>3. /\ c \in 1 .. (p + 1) - 5 /\ c + 5 =< (p + 1) - 0
      /\ \A m \in (p + 1) - 0 .. (p + 1) - 1 : IsNameChar(t[m])
      /\ \A m \in 1 .. 0 : name[m] = t[(p + 1) - 0 + m - 1]
  BY <1>1
<1> QED
  BY <1>1, <1>2, <1>3 DEF InName

\* tag_name behind its first k characters is what an earlier tag left
LEMMA NameCut ==
  ASSUME NEW name \in Seq(Chars), NEW k \in 0 .. Len(name)
  PROVE  /\ SubSeq(name, 1, k) \in Seq(Chars) /\ Len(SubSeq(name, 1, k)) = k
         /\ \A m \in 1 .. k : SubSeq(name, 1, k)[m] = name[m]
<1>1. Len(name) \in Nat
  BY LenProperties
<1>2. /\ 1 \in Int /\ k \in Int /\ k - 1 + 1 = k /\ (IF 1 =< k THEN k - 1 + 1 ELSE 0) = k
      /\ \A m \in 1 .. k : m \in 1 .. Len(name) /\ 1 + m - 1 = m
  BY <1>1
<1>3. \A m \in 1 .. k : name[m] \in Chars
  BY <1>2, ElementOfSeq
<1> QED
  BY <1>2, <1>3, SubSeqProperties

LEMMA NameMore ==
  ASSUME NEW t, IsFile(t), NEW p \in 1 .. Len(t), NEW c, NEW k, NEW name \in Seq(Chars),
         InName(t, c, p, k, name), IsNameChar(t[p]), ~(k >= MaxTagName)
  PROVE  /\ InName(t, c, p + 1, k + 1, Append(SubSeq(name, 1, k), t[p]))
         /\ Append(SubSeq(name, 1, k), t[p]) \in Seq(Chars)
         /\ Len(Append(SubSeq(name, 1, k), t[p])) = k + 1
<1>1. Len(t) \in Nat /\ t \in Seq(Chars) /\ Len(name) \in Nat /\ MaxTagName \in Nat
  BY LenProperties, SsiConstants DEF IsFile
<1>2. /\ c \in 1 .. p - 5 /\ At(t, c, LeadIn)
      /\ k \in 0 .. MaxTagName /\ k =< Len(name) /\ c + 5 =< p - k
      /\ AllIn(t, c + 5, p - k - 1, Space)
      /\ \A m \in p - k .. p - 1 : IsNameChar(t[m])
      /\ \A m \in 1 .. k : name[m] = t[p - k + m - 1]
  BY DEF InName
<1>3. k \in 0 .. Len(name) /\ t[p] \in Chars
  BY <1>1, <1>2, ElementOfSeq
<1> DEFINE s == SubSeq(name, 1, k)
           n == Append(s, t[p])
<1>4. s \in Seq(Chars) /\ Len(s) = k /\ \A m \in 1 .. k : s[m] = name[m]
  BY <1>3, NameCut
<1> HIDE DEF s
<1>5. /\ n \in Seq(Chars) /\ Len(n) = k + 1 /\ n[k + 1] = t[p]
      /\ \A m \in 1 .. k : n[m] = s[m]
  BY <1>3, <1>4, AppendProperties
<1> HIDE DEF n
<1>6. /\ (p + 1) - (k + 1) = p - k /\ (p + 1) - 1 = p /\ k + 1 \in 0 .. MaxTagName
      /\ c \in 1 .. (p + 1) - 5 /\ k + 1 =< Len(n)
  BY <1>1, <1>2, <1>5
<1>7. \A m \in p - k .. p : IsNameChar(t[m])
  <2>1. \A m \in p - k .. p : m \in p - k .. p - 1 \/ m = p
    BY <1>2
  <2> QED
    BY <1>2, <2>1
<1>8. \A m \in 1 .. k + 1 : n[m] = t[p - k + m - 1]
  <2>1. \A m \in 1 .. k + 1 : m \in 1 .. k \/ m = k + 1
    BY <1>2
  <2>2. p - k + (k + 1) - 1 = p
    BY <1>2
  <2> QED
    BY <1>2, <1>4, <1>5, <2>1, <2>2
<1>9. InName(t, c, p + 1, k + 1, n)
  BY <1>2, <1>6, <1>7, <1>8 DEF InName
<1> QED
  BY <1>5, <1>9 DEF n, s

LEMMA NameDone ==
  ASSUME NEW t, IsFile(t), NEW p \in 1 .. Len(t), NEW c, NEW k, NEW name \in Seq(Chars),
         InName(t, c, p, k, name), k > 0, t[p] \in Space \cup {Dash}
  PROVE  /\ InLeadOut(t, c, p + 1, IF t[p] = Dash THEN 1 ELSE 0, SubSeq(name, 1, k))
         /\ SubSeq(name, 1, k) \in Seq(Chars) /\ Len(SubSeq(name, 1, k)) =< MaxTagName
<1>1. Len(t) \in Nat /\ t \in Seq(Chars) /\ Len(name) \in Nat /\ MaxTagName \in Nat
  BY LenProperties, SsiConstants DEF IsFile
<1>2. /\ c \in 1 .. p - 5 /\ At(t, c, LeadIn)
      /\ k \in 0 .. MaxTagName /\ k =< Len(name) /\ c + 5 =< p - k
      /\ AllIn(t, c + 5, p - k - 1, Space)
      /\ \A m \in p - k .. p - 1 : IsNameChar(t[m])
      /\ \A m \in 1 .. k : name[m] = t[p - k + m - 1]
  BY DEF InName
<1> DEFINE s == SubSeq(name, 1, k)
           u == SubSeq(t, p - k, p - 1)
           j == IF t[p] = Dash THEN 1 ELSE 0
<1>3. s \in Seq(Chars) /\ Len(s) = k /\ \A m \in 1 .. k : s[m] = name[m]
  <2>1. k \in 0 .. Len(name)
    BY <1>1, <1>2
  <2> QED
    BY <2>1, NameCut
<1>4. u \in Seq(Chars) /\ Len(u) = k /\ \A m \in 1 .. k : u[m] = t[p - k + m - 1]
  <2>1. PICK f \in Int, l \in Int : f = p - k /\ l = p - 1
    BY <1>2
  <2>2. f =< l /\ l - f + 1 = k
    <3>1. k \in Nat /\ k > 0
      BY <1>1, <1>2
    <3> QED
      BY <2>1, <3>1
  <2>3. \A m \in f .. l : m \in 1 .. Len(t)
    BY <1>1, <1>2, <2>1
  <2>4. \A m \in f .. l : t[m] \in Chars
    BY <1>1, <2>3, ElementOfSeq
  <2>5. /\ SubSeq(t, f, l) \in Seq(Chars) /\ Len(SubSeq(t, f, l)) = k
        /\ \A m \in 1 .. k : SubSeq(t, f, l)[m] = t[f + m - 1]
    BY <2>2, <2>4, SubSeqProperties
  <2> QED
    BY <2>1, <2>5
<1>5. s = u
  <2> HIDE DEF s, u
  <2> QED
    BY <1>2, <1>3, <1>4, SeqEqual
<1>6. j \in {0, 1} /\ (j = 1 <=> t[p] = Dash) /\ (j = 0 => t[p] \in Space)
  OBVIOUS
<1> HIDE DEF s, j
<1>7. /\ c \in 1 .. (p + 1) - 6 /\ j \in 0 .. 2
      /\ p - k \in c + 5 .. (p + 1) - j /\ p \in c + 5 .. (p + 1) - j
      /\ p - k < p /\ p - (p - k) =< MaxTagName /\ (j = 0 => p < p + 1)
      /\ (p - k) - 1 = p - k - 1
  BY <1>1, <1>2, <1>6
<1>8. AllIn(t, p, (p + 1) - j - 1, Space)
  <2>1. \A m \in p .. (p + 1) - j - 1 : m = p /\ j = 0
    BY <1>6
  <2> QED
    BY <1>6, <2>1 DEF AllIn
<1>9. AllIn(t, (p + 1) - j, (p + 1) - 1, {Dash})
  <2>1. \A m \in (p + 1) - j .. (p + 1) - 1 : m = p /\ j = 1
    BY <1>6
  <2> QED
    BY <1>6, <2>1 DEF AllIn
<1>10. InLeadOut(t, c, p + 1, j, s)
  BY <1>2, <1>5, <1>7, <1>8, <1>9 DEF InLeadOut
<1> QED
  BY <1>2, <1>3, <1>10 DEF s, j

LEMMA LeadOutNext ==
  ASSUME NEW t, NEW p \in Nat, NEW c, NEW k, NEW name, InLeadOut(t, c, p, k, name)
  PROVE  /\ k = 0 /\ t[p] \in Space => InLeadOut(t, c, p + 1, 0, name)
         /\ k # 2 /\ t[p] = Dash => InLeadOut(t, c, p + 1, k + 1, name)
<1>1. c \in 1 .. p - 6 /\ At(t, c, LeadIn) /\ k \in 0 .. 2
  BY DEF InLeadOut
<1>2. PICK a \in c + 5 .. p - k, b \in c + 5 .. p - k :
        /\ a < b /\ b - a =< MaxTagName /\ (k = 0 => b < p)
        /\ AllIn(t, c + 5, a - 1, Space)
        /\ \A m \in a .. b - 1 : IsNameChar(t[m])
        /\ name = SubSeq(t, a, b - 1)
        /\ AllIn(t, b, p - k - 1, Space) /\ AllIn(t, p - k, p - 1, {Dash})
  BY DEF InLeadOut
<1>3. ASSUME k = 0, t[p] \in Space  PROVE InLeadOut(t, c, p + 1, 0, name)
  <2>1. AllIn(t, b, (p + 1) - 0 - 1, Space)
    <3>1. \A m \in b .. (p + 1) - 0 - 1 : m \in b .. p - k - 1 \/ m = p
      BY <1>1, <1>2, <1>3
    <3> QED
      BY <1>2, <1>3, <3>1 DEF AllIn
  <2>2. AllIn(t, (p + 1) - 0, (p + 1) - 1, {Dash})
    BY DEF AllIn
  <2>3. /\ c \in 1 .. (p + 1) - 6 /\ 0 \in 0 .. 2 /\ b < p + 1
        /\ a \in c + 5 .. (p + 1) - 0 /\ b \in c + 5 .. (p + 1) - 0
    BY <1>1, <1>2, <1>3
  <2> QED
    BY <1>1, <1>2, <2>1, <2>2, <2>3 DEF InLeadOut
<1>4. ASSUME k # 2, t[p] = Dash  PROVE InLeadOut(t, c, p + 1, k + 1, name)
  <2>1. (p + 1) - (k + 1) = p - k /\ (p + 1) - 1 = p
    BY <1>1
  <2>2. AllIn(t, p - k, p, {Dash})
    <3>1. \A m \in p - k .. p : m \in p - k .. p - 1 \/ m = p
      BY <1>1
    <3> QED
      BY <1>2, <1>4, <3>1 DEF AllIn
  <2>3. c \in 1 .. (p + 1) - 6 /\ k + 1 \in 0 .. 2 /\ k + 1 # 0
    BY <1>1, <1>4
  <2> QED
    BY <1>1, <1>2, <2>1, <2>2, <2>3 DEF InLeadOut
<1> QED
  BY <1>3, <1>4

-----------------------------------------------------------------------------
(* How many tags end up to a place, and their names. *)

LEMMA NumberFacts ==
  ASSUME NEW p \in DOMAIN Pages, NEW t, t = Pages[p].text, NEW i \in 0 .. Len(t)
  PROVE  /\ Number(p, i) \in Nat
         /\ \A j \in 0 .. i : Number(p, j) =< Number(p, i)
         /\ i = 0 => Number(p, i) = 0
         /\ i # 0 /\ i \notin Ends(t) => Number(p, i) = Number(p, i - 1)
         /\ i # 0 /\ i \in Ends(t) => Number(p, i) = Number(p, i - 1) + 1
<1> DEFINE Upto(j) == {e \in Ends(t) : e =< j}
<1>1. Len(t) \in Nat /\ TagEnds[p] = Ends(t) /\ Ends(t) \subseteq 1 .. Len(t)
  BY TextFacts DEF Ends
<1>2. \A j : Number(p, j) = Cardinality(Upto(j))
  BY <1>1 DEF Number
<1>3. ASSUME NEW j \in 0 .. Len(t)
      PROVE  IsFiniteSet(Upto(j)) /\ Cardinality(Upto(j)) \in Nat
  <2>1. Upto(j) \subseteq 1 .. Len(t)
    BY <1>1
  <2>2. IsFiniteSet(1 .. Len(t))
    <3>1. 1 \in Int /\ Len(t) \in Int
      BY <1>1
    <3> QED
      BY <3>1, FS_Interval
  <2>3. IsFiniteSet(Upto(j))
    BY <2>1, <2>2, FS_Subset
  <2> QED
    BY <2>3, FS_CardinalityType
<1>4. i \in Nat /\ i \in 0 .. Len(t)
  BY <1>1
<1>5. ASSUME NEW j \in 0 .. i  PROVE Cardinality(Upto(j)) =< Cardinality(Upto(i))
  <2>1. Upto(j) \subseteq Upto(i)
    BY <1>1, <1>4
  <2> QED
    BY <1>3, <1>4, <2>1, FS_Subset
<1>6. ASSUME i = 0  PROVE Cardinality(Upto(i)) = 0
  <2>1. Upto(i) = {}
    BY <1>1, <1>6
  <2> QED
    BY <2>1, FS_EmptySet
<1>7. ASSUME i # 0, i \notin Ends(t)  PROVE Upto(i) = Upto(i - 1)
  BY <1>1, <1>4, <1>7
<1>8. ASSUME i # 0, i \in Ends(t)  PROVE Cardinality(Upto(i)) = Cardinality(Upto(i - 1)) + 1
  <2>1. Upto(i) = Upto(i - 1) \cup {i} /\ i \notin Upto(i - 1)
    BY <1>1, <1>4, <1>8
  <2>2. IsFiniteSet(Upto(i - 1))
    <3>1. i - 1 \in 0 .. Len(t)
      BY <1>1, <1>4, <1>8
    <3> QED
      BY <3>1, <1>3
  <2> HIDE DEF Upto
  <2> QED
    BY <2>1, <2>2, FS_AddElement
<1> HIDE DEF Upto
<1> QED
  BY <1>2, <1>3, <1>4, <1>5, <1>6, <1>7, <1>8

LEMMA NameOfIs ==
  ASSUME NEW p \in DOMAIN Pages, NEW t, t = Pages[p].text, NEW e \in Ends(t)
  PROVE  \E i, a, b \in 1 .. Len(t) :
           TagAt(t, i, a, b, e - 2) /\ NameOf(p, e) = SubSeq(t, a, b - 1)
<1>1. t \in Seq(Chars) /\ Len(t) \in Nat
  BY TextFacts DEF IsFile
<1>2. PICK j \in 1 .. Len(t), c \in 1 .. Len(t), d \in 1 .. Len(t) : TagAt(t, j, c, d, e - 2)
  BY DEF Ends
<1>3. e \in Nat /\ (e - 2) + 2 = e
  BY <1>1 DEF Ends
<1>4. TagOf(t, j, c, d, e - 2) \in TagsIn(t) /\ TagOf(t, j, c, d, e - 2).out + 2 = e
  BY <1>1, <1>2, <1>3, TagsFound DEF TagOf
<1>5. PICK x : x = CHOOSE y \in TagsIn(t) : y.out + 2 = e
  OBVIOUS
<1>6. x \in TagsIn(t) /\ x.out + 2 = e
  BY <1>4, <1>5
<1>7. PICK i \in 1 .. Len(t), a \in 1 .. Len(t), b \in 1 .. Len(t), o \in 1 .. Len(t) :
        TagAt(t, i, a, b, o) /\ x = TagOf(t, i, a, b, o)
  BY <1>1, <1>6, TagsAre
<1>8. x.out = o /\ x.name = SubSeq(t, a, b - 1)
  BY <1>7 DEF TagOf
<1>9. o = e - 2
  BY <1>1, <1>3, <1>6, <1>7, <1>8
<1>10. NameOf(p, e) = x.name
  BY <1>5 DEF NameOf
<1> QED
  BY <1>7, <1>8, <1>9, <1>10

TagNamed(p, e) ==
  \E i, a, b \in 1 .. Len(Pages[p].text) :
    /\ TagAt(Pages[p].text, i, a, b, e - 2)
    /\ NameOf(p, e) = SubSeq(Pages[p].text, a, b - 1)

LEMMA NamesAre == \A p \in DOMAIN Pages : \A e \in Ends(Pages[p].text) : TagNamed(p, e)
<1> SUFFICES ASSUME NEW p \in DOMAIN Pages, NEW e \in Ends(Pages[p].text)  PROVE TagNamed(p, e)
  OBVIOUS
<1>1. \E i, a, b \in 1 .. Len(Pages[p].text) :
        TagAt(Pages[p].text, i, a, b, e - 2) /\ NameOf(p, e) = SubSeq(Pages[p].text, a, b - 1)
  BY NameOfIs
<1> QED
  BY <1>1, Zenon DEF TagNamed

LEMMA NameOfType ==
  ASSUME NEW p \in DOMAIN Pages, NEW t, t = Pages[p].text, NEW e \in Ends(t)
  PROVE  NameOf(p, e) \in Seq(Chars)
<1>1. t \in Seq(Chars) /\ Len(t) \in Nat
  BY TextFacts DEF IsFile
<1>2. PICK i \in 1 .. Len(t), a \in 1 .. Len(t), b \in 1 .. Len(t) :
        TagAt(t, i, a, b, e - 2) /\ NameOf(p, e) = SubSeq(t, a, b - 1)
  BY NameOfIs
<1>3. \A m \in a .. b - 1 : m \in 1 .. Len(t)
  BY <1>1
<1>4. \A m \in a .. b - 1 : t[m] \in Chars
  BY <1>1, <1>3, ElementOfSeq
<1>5. a \in Int /\ b - 1 \in Int
  BY <1>1
<1> QED
  BY <1>2, <1>4, <1>5, SubSeqProperties

-----------------------------------------------------------------------------
(* Bytes and their sequences. *)

LEMMA ByteFacts ==
  /\ \A i \in Nat : <<"file", i>> \in Byte
  /\ \A h, i \in Nat : <<"header", h, i>> \in Byte
  /\ \A name \in DOMAIN InsertLen, v \in Nat, i \in Nat : <<name, v, i>> \in Byte
  /\ \A name \in Seq(Chars), i \in Nat : <<"unknown", name, i>> \in Byte
  /\ <<"unread">> \in Byte
<1>1. \A i \in Nat : <<"file", i>> \in Byte
  BY DEF Byte
<1>2. \A h, i \in Nat : <<"header", h, i>> \in Byte
  BY DEF Byte
<1>3. \A name \in DOMAIN InsertLen, v \in Nat, i \in Nat : <<name, v, i>> \in Byte
  BY DEF Byte
<1>4. \A name \in Seq(Chars), i \in Nat : <<"unknown", name, i>> \in Byte
  BY DEF Byte
<1>5. <<"unread">> \in Byte
  BY DEF Byte
<1> QED
  BY <1>1, <1>2, <1>3, <1>4, <1>5

LEMMA OneByte ==
  ASSUME NEW S, NEW x \in S  PROVE <<x>> \in Seq(S) /\ Len(<<x>>) = 1 /\ <<x>>[1] = x
<1>1. <<x>> \in [1 .. 1 -> S]
  OBVIOUS
<1>2. <<x>> \in Seq(S)
  BY <1>1, SeqDef
<1> QED
  BY <1>2

LEMMA Regrouped == \A x, y, z \in Seq(Byte) : x \o (y \o z) = (x \o y) \o z
<1> SUFFICES ASSUME NEW x \in Seq(Byte), NEW y \in Seq(Byte), NEW z \in Seq(Byte)
             PROVE  x \o (y \o z) = (x \o y) \o z
  OBVIOUS
<1> QED
  BY ConcatAssociative

\* a sequence that is written as a function
LEMMA FunctionIsSeq ==
  ASSUME NEW S, NEW n \in Nat, NEW f \in [1 .. n -> S]
  PROVE  f \in Seq(S) /\ Len(f) = n
  BY SeqDef

LEMMA InsertedType ==
  ASSUME NEW name \in Seq(Chars), NEW v \in Nat
  PROVE  Inserted(name, v) \in Seq(Byte)
<1>1. CASE name \in DOMAIN InsertLen
  <2>1. InsertLen[name] \in Nat
    BY <1>1, SsiConstants
  <2>2. PICK n \in Nat : n = InsertLen[name]
    BY <2>1
  <2>a. \A i \in 1 .. n : <<name, v, i>> \in Byte
    <3>1. \A i \in 1 .. n : i \in Nat
      OBVIOUS
    <3> QED
      BY <1>1, <3>1, ByteFacts, Zenon
  <2>3. [i \in 1 .. n |-> <<name, v, i>>] \in [1 .. n -> Byte]
    BY <2>a, Zenon
  <2>4. Inserted(name, v) = [i \in 1 .. n |-> <<name, v, i>>]
    BY <1>1, <2>2 DEF Inserted
  <2> QED
    BY <2>3, <2>4, FunctionIsSeq
<1>2. CASE name \notin DOMAIN InsertLen
  <2>1. PICK n \in Nat : n = EchoLen
    BY SsiConstants
  <2>a. \A i \in 1 .. n : <<"unknown", name, i>> \in Byte
    <3>1. \A i \in 1 .. n : i \in Nat
      OBVIOUS
    <3> QED
      BY <3>1, ByteFacts, Zenon
  <2>2. [i \in 1 .. n |-> <<"unknown", name, i>>] \in [1 .. n -> Byte]
    BY <2>a, Zenon
  <2>3. Inserted(name, v) = [i \in 1 .. n |-> <<"unknown", name, i>>]
    BY <1>2, <2>1 DEF Inserted
  <2> QED
    BY <2>2, <2>3, FunctionIsSeq
<1> QED
  BY <1>1, <1>2

-----------------------------------------------------------------------------
(* What is sent of the file at a time. *)

\* v bytes of the file behind the first k
Run(k, v) == [i \in 1 .. v |-> <<"file", k + i>>]

LEMMA RunType ==
  ASSUME NEW k \in Nat, NEW v \in Nat
  PROVE  Run(k, v) \in Seq(Byte) /\ Len(Run(k, v)) = v
<1>1. \A i \in 1 .. v : k + i \in Nat
  OBVIOUS
<1>2. \A i \in 1 .. v : <<"file", k + i>> \in Byte
  BY <1>1, ByteFacts, Zenon
<1>3. Run(k, v) \in [1 .. v -> Byte]
  BY <1>2, Zenon DEF Run
<1> QED
  BY <1>3, FunctionIsSeq

LEMMA RunNext ==
  ASSUME NEW k \in Nat, NEW v \in Nat
  PROVE  Run(k, v + 1) = Run(k, v) \o <<<<"file", k + v + 1>>>>
<1>1. PICK u \in Nat : u = v + 1
  OBVIOUS
<1>2. PICK b \in Byte : b = <<"file", k + v + 1>>
  <2>1. k + v + 1 \in Nat
    OBVIOUS
  <2>2. <<"file", k + v + 1>> \in Byte
    BY <2>1, ByteFacts, Zenon
  <2> QED
    BY <2>2, Zenon
<1>3. Run(k, v) \in Seq(Byte) /\ Len(Run(k, v)) = v /\ Run(k, u) \in Seq(Byte) /\ Len(Run(k, u)) = u
  BY RunType
<1>4. <<b>> \in Seq(Byte) /\ Len(<<b>>) = 1 /\ <<b>>[1] = b
  BY OneByte
<1>5. /\ Run(k, v) \o <<b>> \in Seq(Byte) /\ Len(Run(k, v) \o <<b>>) = v + 1
      /\ \A i \in 1 .. v + 1 :
           (Run(k, v) \o <<b>>)[i] = IF i =< v THEN Run(k, v)[i] ELSE <<b>>[i - v]
  BY <1>3, <1>4, ConcatProperties
<1>6. ASSUME NEW i \in 1 .. v + 1  PROVE (Run(k, v) \o <<b>>)[i] = Run(k, u)[i]
  <2>1. Run(k, u)[i] = <<"file", k + i>>
    BY <1>1 DEF Run
  <2>2. CASE i =< v
    <3>1. Run(k, v)[i] = <<"file", k + i>>
      BY <2>2 DEF Run
    <3> QED
      BY <1>5, <2>1, <2>2, <3>1
  <2>3. CASE ~(i =< v)
    <3>1. i = v + 1 /\ i - v = 1 /\ k + i = k + v + 1
      BY <2>3
    <3> QED
      BY <1>2, <1>4, <1>5, <2>1, <2>3, <3>1
  <2> QED
    BY <2>2, <2>3
<1>7. Run(k, u) = Run(k, v) \o <<b>>
  <2> DEFINE r == Run(k, v) \o <<b>>
  <2>1. r \in Seq(Byte) /\ Len(r) = Len(Run(k, u)) /\ \A i \in 1 .. Len(r) : r[i] = Run(k, u)[i]
    BY <1>1, <1>3, <1>5, <1>6
  <2> HIDE DEF r
  <2>2. r = Run(k, u)
    BY <1>3, <2>1, SeqEqual
  <2> QED
    BY <2>2 DEF r
<1> QED
  BY <1>1, <1>2, <1>7

\* where no tag ends the pieces are the bytes of the file
LEMMA RunSent ==
  ASSUME NEW n \in Nat, NEW P \in [1 .. n -> Seq(Byte)], NEW k \in 0 .. n, NEW v \in 0 .. n - k,
         \A i \in k + 1 .. k + v : P[i] = <<<<"file", i>>>>
  PROVE  FlattenFirst(P, k) \o Run(k, v) = FlattenFirst(P, k + v)
<1> DEFINE Good(j) == FlattenFirst(P, k) \o Run(k, j) = FlattenFirst(P, k + j)
           T == {j \in 0 .. v : ~Good(j)}
<1>a. T \subseteq Nat /\ T \subseteq 0 .. v
  OBVIOUS
<1>b. \A j \in 0 .. v : j \in T <=> ~Good(j)
  OBVIOUS
<1>c. k \in Nat /\ v \in Nat
  OBVIOUS
<1>1. FlattenFirst(P, k) \in Seq(Byte)
  BY FirstType
<1>2. Good(0)
  <2>1. Run(k, 0) = <<>>
    BY DEF Run
  <2>2. FlattenFirst(P, k) \o <<>> = FlattenFirst(P, k)
    BY <1>1, ConcatEmptySeq
  <2>3. k + 0 = k
    BY <1>c
  <2> QED
    BY <2>1, <2>2, <2>3, Zenon
<1> HIDE DEF T
<1>3. T = {}
  <2> SUFFICES ASSUME T # {}  PROVE FALSE
    OBVIOUS
  <2>1. PICK j \in T : \A i \in T : j =< i
    BY <1>a, LeastNat
  <2>2. j \in 0 .. v /\ j # 0
    BY <1>2, <1>a, <1>b, <2>1
  <2>3. PICK u \in 0 .. v - 1 : j = u + 1 /\ u \in 0 .. v /\ u \in Nat
    BY <2>2
  <2>4. Good(u)
    <3>1. u \notin T
      BY <2>1, <2>3
    <3> QED
      BY <1>b, <2>3, <3>1, Zenon
  <2>5. PICK m \in 0 .. n - 1 : m = k + u
    BY <2>3
  <2>6. FlattenFirst(P, m + 1) = FlattenFirst(P, m) \o P[m + 1]
    BY FirstNext
  <2>7. m + 1 \in k + 1 .. k + v /\ m + 1 \in Nat /\ k + j = m + 1
    BY <2>3, <2>5
  <2>8. PICK b \in Byte : b = <<"file", m + 1>>
    <3>1. <<"file", m + 1>> \in Byte
      BY <2>7, ByteFacts, Zenon
    <3> QED
      BY <3>1, Zenon
  <2>9. P[m + 1] = <<b>> /\ Run(k, j) = Run(k, u) \o <<b>>
    <3>1. Run(k, u + 1) = Run(k, u) \o <<<<"file", k + u + 1>>>>
      BY <1>c, <2>3, RunNext
    <3> QED
      BY <2>3, <2>5, <2>7, <2>8, <3>1
  <2>10. Run(k, u) \in Seq(Byte) /\ <<b>> \in Seq(Byte)
    BY <1>c, <2>3, RunType, OneByte
  <2>11. FlattenFirst(P, k) \o (Run(k, u) \o <<b>>) = (FlattenFirst(P, k) \o Run(k, u)) \o <<b>>
    BY <1>1, <2>10, ConcatAssociative
  <2>12. Good(j)
    BY <2>4, <2>5, <2>6, <2>7, <2>9, <2>11
  <2> QED
    BY <1>b, <2>1, <2>2, <2>12
<1>4. v \in 0 .. v
  BY <1>c
<1> QED
  BY <1>b, <1>3, <1>4

\* the last character of a tag is sent before its insert
LEMMA TagSent ==
  ASSUME NEW n \in Nat, NEW P \in [1 .. n -> Seq(Byte)], NEW k \in 0 .. n,
         NEW v \in 1 .. n - k, \A i \in k + 1 .. k + v - 1 : P[i] = <<<<"file", i>>>>
  PROVE  FlattenFirst(P, k) \o Run(k, v) = FlattenFirst(P, k + v - 1) \o <<<<"file", k + v>>>>
<1>1. PICK u \in 0 .. n - k : u = v - 1 /\ v = u + 1 /\ u \in Nat /\ k \in Nat
  OBVIOUS
<1>2. \A i \in k + 1 .. k + u : P[i] = <<<<"file", i>>>>
  BY <1>1
<1>3. FlattenFirst(P, k) \o Run(k, u) = FlattenFirst(P, k + u)
  BY <1>2, RunSent
<1>4. k + v \in Nat /\ k + u + 1 = k + v /\ k + v - 1 = k + u
  BY <1>1
<1>5. PICK b \in Byte : b = <<"file", k + v>>
  <2>1. <<"file", k + v>> \in Byte
    BY <1>4, ByteFacts, Zenon
  <2> QED
    BY <2>1, Zenon
<1>6. Run(k, v) = Run(k, u) \o <<b>>
  <2>1. Run(k, u + 1) = Run(k, u) \o <<<<"file", k + u + 1>>>>
    BY <1>1, RunNext
  <2> QED
    BY <1>1, <1>4, <1>5, <2>1
<1>7. FlattenFirst(P, k) \in Seq(Byte) /\ Run(k, u) \in Seq(Byte) /\ <<b>> \in Seq(Byte)
  BY <1>1, FirstType, RunType, OneByte
<1>8. FlattenFirst(P, k) \o (Run(k, u) \o <<b>>) = (FlattenFirst(P, k) \o Run(k, u)) \o <<b>>
  BY <1>7, ConcatAssociative
<1> QED
  BY <1>3, <1>4, <1>5, <1>6, <1>8

-----------------------------------------------------------------------------
(* What the pieces are. *)

LEMMA PieceIs ==
  ASSUME NEW p \in DOMAIN Pages, NEW t, t = Pages[p].text, NEW sn \in Seq(Nat),
         NEW i \in 1 .. Len(t)
  PROVE  /\ ~Pages[p].tagCheck \/ i \notin Ends(t) => PieceOf(p, sn, i) = <<<<"file", i>>>>
         /\ Pages[p].tagCheck /\ i \in Ends(t) =>
              PieceOf(p, sn, i) = <<<<"file", i>>>> \o
                IF Number(p, i) =< Len(sn) THEN Inserted(NameOf(p, i), sn[Number(p, i)])
                                           ELSE <<<<"unread">>>>
         /\ PieceOf(p, sn, i) \in Seq(Byte)
<1>1. Len(t) \in Nat /\ TagEnds[p] = Ends(t) /\ Len(sn) \in Nat
  BY TextFacts, LenProperties
<1>2. PICK f : f = <<<<"file", i>>>>
  OBVIOUS
<1>3. f \in Seq(Byte)
  <2>1. i \in Nat
    BY <1>1
  <2>2. <<"file", i>> \in Byte
    BY <2>1, ByteFacts, Zenon
  <2> QED
    BY <1>2, <2>2, OneByte
<1>4. CASE ~Pages[p].tagCheck \/ i \notin Ends(t)
  <2>1. PieceOf(p, sn, i) = f \o <<>>
    BY <1>1, <1>2, <1>4 DEF PieceOf
  <2>2. f \o <<>> = f
    BY <1>3, ConcatEmptySeq
  <2> QED
    BY <1>2, <1>3, <1>4, <2>1, <2>2
<1>5. CASE Pages[p].tagCheck /\ i \in Ends(t)
  <2> DEFINE g == IF Number(p, i) =< Len(sn) THEN Inserted(NameOf(p, i), sn[Number(p, i)])
                                             ELSE <<<<"unread">>>>
  <2>1. PieceOf(p, sn, i) = f \o g
    BY <1>1, <1>2, <1>5 DEF PieceOf
  <2>2. Number(p, i) \in Nat /\ Number(p, i) # 0
    <3>1. i \in 0 .. Len(t) /\ i # 0 /\ i - 1 \in 0 .. Len(t)
      BY <1>1
    <3>2. Number(p, i) \in Nat /\ Number(p, i) = Number(p, i - 1) + 1
      BY <1>5, <3>1, NumberFacts
    <3>3. Number(p, i - 1) \in Nat
      BY <3>1, NumberFacts
    <3> QED
      BY <3>2, <3>3
  <2>3. g \in Seq(Byte)
    <3>1. CASE Number(p, i) =< Len(sn)
      <4>1. sn[Number(p, i)] \in Nat
        <5>1. Number(p, i) \in 1 .. Len(sn)
          BY <1>1, <2>2, <3>1
        <5> QED
          BY <5>1, ElementOfSeq
      <4>2. NameOf(p, i) \in Seq(Chars)
        BY <1>5, NameOfType
      <4>3. Inserted(NameOf(p, i), sn[Number(p, i)]) \in Seq(Byte)
        BY <4>1, <4>2, InsertedType
      <4> QED
        BY <3>1, <4>3
    <3>2. CASE ~(Number(p, i) =< Len(sn))
      <4>1. <<"unread">> \in Byte
        BY ByteFacts
      <4>2. <<<<"unread">>>> \in Seq(Byte)
        BY <4>1, OneByte
      <4> QED
        BY <3>2, <4>2
    <3> QED
      BY <3>1, <3>2
  <2> HIDE DEF g
  <2>4. f \o g \in Seq(Byte)
    BY <1>3, <2>3, ConcatProperties
  <2> QED
    BY <1>2, <1>5, <2>1, <2>4 DEF g
<1> QED
  BY <1>4, <1>5

LEMMA PiecesType ==
  ASSUME NEW p \in DOMAIN Pages, NEW t, t = Pages[p].text, NEW sn \in Seq(Nat)
  PROVE  PiecesOf(p, sn) \in [1 .. Len(t) -> Seq(Byte)]
<1>1. \A i \in 1 .. Len(t) : PieceOf(p, sn, i) \in Seq(Byte)
  BY PieceIs
<1> QED
  BY <1>1, Zenon DEF PiecesOf

LEMMA PiecesAt ==
  ASSUME NEW p \in DOMAIN Pages, NEW sn, NEW i \in 1 .. Len(Pages[p].text)
  PROVE  PiecesOf(p, sn)[i] = PieceOf(p, sn, i)
  BY DEF PiecesOf

\* a further version changes nothing before the tag it is for
LEMMA PiecesAgree ==
  ASSUME NEW p \in DOMAIN Pages, NEW t, t = Pages[p].text, NEW sn \in Seq(Nat), NEW v \in Nat,
         NEW k \in 0 .. Len(t), Number(p, k) =< Len(sn)
  PROVE  FlattenFirst(PiecesOf(p, Append(sn, v)), k) = FlattenFirst(PiecesOf(p, sn), k)
<1>1. /\ Len(t) \in Nat /\ TagEnds[p] = Ends(t) /\ Len(sn) \in Nat /\ k \in Nat
      /\ Append(sn, v) \in Seq(Nat) /\ Len(Append(sn, v)) = Len(sn) + 1
      /\ \A m \in 1 .. Len(sn) : Append(sn, v)[m] = sn[m]
  BY TextFacts, LenProperties, AppendProperties
<1>2. ASSUME NEW i \in 1 .. k
      PROVE  PiecesOf(p, Append(sn, v))[i] = PiecesOf(p, sn)[i]
  <2>1. i \in 1 .. Len(t) /\ i \in 0 .. Len(t) /\ i \in 0 .. k /\ i # 0 /\ i - 1 \in 0 .. Len(t)
    BY <1>1
  <2>2. Number(p, i) =< Number(p, k) /\ Number(p, k) \in Nat /\ Number(p, i) \in Nat
    BY <2>1, NumberFacts
  <2>3. CASE i \in Ends(t)
    <3>1. Number(p, i) = Number(p, i - 1) + 1 /\ Number(p, i - 1) \in Nat
      BY <2>1, <2>3, NumberFacts
    <3>2. /\ Number(p, i) \in 1 .. Len(sn) /\ Number(p, i) =< Len(sn)
          /\ Number(p, i) =< Len(Append(sn, v))
      BY <1>1, <2>2, <3>1
    <3>3. Append(sn, v)[Number(p, i)] = sn[Number(p, i)]
      BY <1>1, <3>2
    <3>4. PieceOf(p, Append(sn, v), i) = PieceOf(p, sn, i)
      BY <3>2, <3>3, Zenon DEF PieceOf
    <3> QED
      BY <2>1, <3>4, PiecesAt
  <2>4. CASE i \notin Ends(t)
    <3>1. PieceOf(p, sn, i) = <<<<"file", i>>>>
      BY <2>1, <2>4, PieceIs
    <3>2. PieceOf(p, Append(sn, v), i) = <<<<"file", i>>>>
      <4>1. PICK s \in Seq(Nat) : s = Append(sn, v)
        BY <1>1
      <4>2. PieceOf(p, s, i) = <<<<"file", i>>>>
        BY <2>1, <2>4, PieceIs
      <4> QED
        BY <4>1, <4>2
    <3> QED
      BY <2>1, <3>1, <3>2, PiecesAt
  <2> QED
    BY <2>3, <2>4
<1> QED
  BY <1>1, <1>2, FirstAgree

\* a tag is complete when its insert is
LEMMA InsertDone ==
  ASSUME NEW p \in DOMAIN Pages, NEW t, t = Pages[p].text, NEW sn \in Seq(Nat),
         NEW e \in Ends(t), Pages[p].tagCheck, Len(sn) = Number(p, e), NEW f,
         f = <<<<"file", e>>>>
  PROVE  /\ Inserted(NameOf(p, e), sn[Len(sn)]) \in Seq(Byte)
         /\ FlattenFirst(PiecesOf(p, sn), e) =
              (FlattenFirst(PiecesOf(p, sn), e - 1) \o f) \o Inserted(NameOf(p, e), sn[Len(sn)])
<1>1. Len(t) \in Nat /\ e \in 1 .. Len(t) /\ Len(sn) \in Nat /\ e \in 0 .. Len(t) /\ e # 0
  BY TextFacts, LenProperties DEF Ends
<1>2. Number(p, e) = Number(p, e - 1) + 1 /\ Number(p, e - 1) \in Nat
  <2>1. e - 1 \in 0 .. Len(t)
    BY <1>1
  <2> QED
    BY <1>1, <2>1, NumberFacts
<1>3. Len(sn) \in 1 .. Len(sn) /\ Number(p, e) =< Len(sn)
  BY <1>1, <1>2
<1>4. sn[Len(sn)] \in Nat /\ NameOf(p, e) \in Seq(Chars)
  BY <1>3, ElementOfSeq, NameOfType
<1>5. PICK g \in Seq(Byte) : g = Inserted(NameOf(p, e), sn[Len(sn)])
  BY <1>4, InsertedType
<1>6. f \in Seq(Byte)
  <2>1. e \in Nat
    BY <1>1
  <2>2. <<"file", e>> \in Byte
    BY <2>1, ByteFacts, Zenon
  <2> QED
    BY <2>2, OneByte
<1>7. PieceOf(p, sn, e) = f \o g
  <2>1. PieceOf(p, sn, e) = f \o IF Number(p, e) =< Len(sn)
                                   THEN Inserted(NameOf(p, e), sn[Number(p, e)])
                                   ELSE <<<<"unread">>>>
    BY <1>1, PieceIs
  <2> QED
    BY <1>3, <1>5, <2>1
<1>8. PICK k \in 0 .. Len(t) - 1 : k = e - 1 /\ e = k + 1 /\ k \in 0 .. Len(t)
  BY <1>1
<1>9. PICK P \in [1 .. Len(t) -> Seq(Byte)] : P = PiecesOf(p, sn)
  BY PiecesType
<1>10. FlattenFirst(P, k + 1) = FlattenFirst(P, k) \o P[k + 1] /\ FlattenFirst(P, k) \in Seq(Byte)
  BY <1>1, <1>8, FirstNext, FirstType
<1>11. P[e] = f \o g
  BY <1>1, <1>7, <1>9, PiecesAt
<1>12. PICK x \in Seq(Byte) : x = FlattenFirst(P, k)
  BY <1>10
<1>13. x \o (f \o g) = (x \o f) \o g
  BY <1>6, Regrouped, Zenon
<1>14. FlattenFirst(P, e) = (x \o f) \o g
  BY <1>8, <1>10, <1>11, <1>12, <1>13
<1> QED
  BY <1>5, <1>8, <1>9, <1>12, <1>14

-----------------------------------------------------------------------------
(* What http_write may do. *)

LEMMA FittingFacts ==
  ASSUME NEW n \in Nat, snd \in 0 .. SndBuf
  PROVE  \A m \in Fitting(n) : m \in 0 .. n /\ m =< snd
<1>1. \A m \in Halves(n) : m \in 0 .. n
  BY DEF Halves
<1> QED
  BY <1>1 DEF Fitting

LEMMA WrittenFacts ==
  ASSUME NEW n \in Nat, snd \in 0 .. SndBuf, NEW w \in Written(n)
  PROVE  /\ w = NoBytes \/ (w \in 0 .. n /\ w =< snd)
         /\ w = Accepted(n) \/ short < MaxShort
<1> DEFINE F == Fitting(n)
<1>1. \A m \in F : m \in 0 .. n /\ m =< snd
  BY FittingFacts
<1>2. Accepted(n) = IF F = {} THEN NoBytes ELSE CHOOSE m \in F : \A k \in F : k =< m
  BY DEF Accepted
<1>3. w = Accepted(n) \/ (short < MaxShort /\ w \in F \cup {NoBytes})
  BY DEF Written
<1> HIDE DEF F
<1>4. Accepted(n) = NoBytes \/ Accepted(n) \in F
  <2>1. CASE F = {}
    BY <1>2, <2>1
  <2>2. CASE F # {}
    <3>1. F \subseteq 0 .. n
      BY <1>1
    <3>2. \E m \in F : \A k \in F : k =< m
      BY <2>2, <3>1, GreatestNat
    <3> QED
      BY <1>2, <2>2, <3>2
  <2> QED
    BY <2>1, <2>2
<1>5. w = NoBytes \/ w \in F
  BY <1>3, <1>4
<1>6. w = NoBytes \/ (w \in 0 .. n /\ w =< snd)
  BY <1>1, <1>5, Zenon
<1>7. w = Accepted(n) \/ short < MaxShort
  BY <1>3, Zenon
<1> QED
  BY <1>6, <1>7, Zenon

LEMMA GiveFacts ==
  ASSUME NEW n \in Nat, NEW s, snd \in 0 .. SndBuf, short \in 0 .. MaxShort,
         NEW w \in Written(n), Give(s, n, w)
  PROVE  /\ \/ w = NoBytes /\ out' = out /\ snd' = snd
            \/ /\ w # NoBytes /\ w \in 0 .. n /\ w =< snd
               /\ out' = out \o SubSeq(s, 1, w) /\ snd' = snd - w
         /\ snd' \in 0 .. SndBuf /\ short' \in 0 .. MaxShort
<1>1. w = NoBytes \/ (w \in 0 .. n /\ w =< snd)
  BY WrittenFacts
<1>2. w = Accepted(n) \/ short < MaxShort
  BY WrittenFacts
<1>3. /\ out' = IF w = NoBytes THEN out ELSE out \o SubSeq(s, 1, w)
      /\ snd' = IF w = NoBytes THEN snd ELSE snd - w
      /\ short' = IF w = Accepted(n) THEN short ELSE short + 1
  BY DEF Give
<1>4. SndBuf \in Nat /\ MaxShort \in Nat
  BY SsiConstants
<1>5. short' \in 0 .. MaxShort
  BY <1>2, <1>3, <1>4
<1>6. w # NoBytes => w \in 0 .. n /\ w =< snd
  BY <1>1
<1>7. snd' \in 0 .. SndBuf
  <2>1. CASE w = NoBytes
    BY <1>3, <2>1
  <2>2. CASE w # NoBytes
    <3>1. snd' = snd - w /\ w \in 0 .. n /\ w =< snd
      BY <1>3, <1>6, <2>2
    <3> QED
      BY <1>4, <3>1
  <2> QED
    BY <2>1, <2>2
<1> QED
  BY <1>3, <1>5, <1>6, <1>7, Zenon

LEMMA RunCut ==
  ASSUME NEW k \in Nat, NEW m \in Nat, NEW v \in 0 .. m
  PROVE  SubSeq(Run(k, m), 1, v) = Run(k, v)
<1>1. v \in Nat /\ Run(k, m) \in Seq(Byte) /\ Run(k, v) \in Seq(Byte) /\ Len(Run(k, v)) = v
  BY RunType
<1>2. \A i \in 1 .. v : Run(k, m)[i] = <<"file", k + i>> /\ Run(k, v)[i] = <<"file", k + i>>
  BY DEF Run
<1>3. \A i \in 1 .. v : i \in 1 .. Len(Run(k, m))
  BY RunType
<1>4. \A i \in 1 .. v : Run(k, m)[i] \in Byte
  BY <1>1, <1>3, ElementOfSeq
<1>a. PICK r \in Seq(Byte) : r = Run(k, m)
  BY <1>1
<1>5. /\ SubSeq(r, 1, v) \in Seq(Byte)
      /\ Len(SubSeq(r, 1, v)) = v
      /\ \A i \in 1 .. v : SubSeq(r, 1, v)[i] = r[i]
  <2>1. 1 \in Int /\ v \in Int /\ \A i \in 1 .. v : r[i] \in Byte
    BY <1>1, <1>4, <1>a
  <2>2. /\ SubSeq(r, 1, v) \in Seq(Byte)
        /\ Len(SubSeq(r, 1, v)) = IF 1 =< v THEN v - 1 + 1 ELSE 0
        /\ \A i \in 1 .. v - 1 + 1 : SubSeq(r, 1, v)[i] = r[1 + i - 1]
    BY <2>1, SubSeqProperties
  <2>3. v - 1 + 1 = v /\ \A i \in 1 .. v : 1 + i - 1 = i
    BY <1>1
  <2>4. (IF 1 =< v THEN v - 1 + 1 ELSE 0) = v
    BY <1>1
  <2> QED
    BY <2>2, <2>3, <2>4
<1>6. SubSeq(r, 1, v) = Run(k, v)
  <2> DEFINE q == SubSeq(r, 1, v)
  <2>1. /\ q \in Seq(Byte) /\ Len(q) = Len(Run(k, v))
        /\ \A i \in 1 .. Len(q) : q[i] = Run(k, v)[i]
    BY <1>1, <1>2, <1>5, <1>a
  <2> HIDE DEF q
  <2>2. q = Run(k, v)
    BY <1>1, <2>1, SeqEqual
  <2> QED
    BY <2>2 DEF q
<1> QED
  BY <1>6, <1>a

LEMMA FileBytesAre ==
  ASSUME file \in 1 .. Len(Text) + 1, Len(Text) \in Nat
  PROVE  FileBytes = Run(file - 1, Left)
<1>1. Left \in Nat /\ \A i \in 1 .. Left : file + i - 1 = (file - 1) + i
  BY DEF Left
<1>2. [i \in 1 .. Left |-> <<"file", file + i - 1>>] = [i \in 1 .. Left |-> <<"file", (file - 1) + i>>]
  BY <1>1
<1> QED
  BY <1>2 DEF FileBytes, Run

\* what is sent of the file at a time
PartGiven(n, w) ==
  \E v \in 0 .. n :
    /\ v = w \/ (w = NoBytes /\ v = 0)
    /\ file' = file + v /\ out' = out \o Run(file - 1, v)
    /\ v = 0 \/ v =< snd
    /\ snd' = snd - v

LEMMA FileGiven ==
  ASSUME file \in 1 .. Len(Text) + 1, Len(Text) \in Nat, snd \in 0 .. SndBuf,
         short \in 0 .. MaxShort, out \in Seq(Byte),
         NEW n \in 0 .. Left, NEW w \in Written(n), GiveFile(n, w)
  PROVE  PartGiven(n, w) /\ snd' \in 0 .. SndBuf /\ short' \in 0 .. MaxShort
<1>1. n \in Nat /\ Left \in Nat /\ file - 1 \in Nat /\ file \in Nat
  BY DEF Left
<1>2. Give(FileBytes, n, w) /\ file' = IF w = NoBytes THEN file ELSE file + w
  BY DEF GiveFile
<1>3. /\ \/ w = NoBytes /\ out' = out /\ snd' = snd
         \/ /\ w # NoBytes /\ w \in 0 .. n /\ w =< snd
            /\ out' = out \o SubSeq(FileBytes, 1, w) /\ snd' = snd - w
      /\ snd' \in 0 .. SndBuf /\ short' \in 0 .. MaxShort
  BY <1>1, <1>2, GiveFacts
<1>4. CASE w = NoBytes
  <2>0. NoBytes \notin 0 .. n
    BY DEF NoBytes
  <2>1. out' = out /\ snd' = snd /\ file' = file
    BY <1>2, <1>3, <1>4
  <2>2. Run(file - 1, 0) = <<>> /\ out \o <<>> = out
    BY ConcatEmptySeq DEF Run
  <2>3. file + 0 = file /\ snd - 0 = snd /\ 0 \in 0 .. n
    BY <1>1
  <2> QED
    BY <1>3, <1>4, <2>1, <2>2, <2>3, Zenon DEF PartGiven
<1>5. CASE w # NoBytes
  <2>0. w \in 0 .. n /\ w =< snd
    BY <1>3, <1>5, Zenon
  <2>1. w \in 0 .. n /\ w \in 0 .. Left /\ w =< snd
    BY <1>1, <2>0
  <2>2. SubSeq(FileBytes, 1, w) = Run(file - 1, w)
    <3>1. PICK k \in Nat : k = file - 1
      BY <1>1
    <3>2. PICK m \in Nat : m = Left
      BY <1>1
    <3>3. FileBytes = Run(k, m)
      BY <3>1, <3>2, FileBytesAre
    <3>4. SubSeq(Run(k, m), 1, w) = Run(k, w)
      BY <2>1, <3>2, RunCut
    <3> QED
      BY <3>1, <3>3, <3>4
  <2>3. out' = out \o Run(file - 1, w) /\ snd' = snd - w /\ file' = file + w
    BY <1>2, <1>3, <1>5, <2>2
  <2>4. \E v \in 0 .. n :
          /\ v = w \/ (w = NoBytes /\ v = 0)
          /\ file' = file + v /\ out' = out \o Run(file - 1, v)
          /\ v = 0 \/ v =< snd
          /\ snd' = snd - v
    BY <2>1, <2>3, Zenon
  <2>5. snd' \in 0 .. SndBuf /\ short' \in 0 .. MaxShort
    BY <1>3, Zenon
  <2> QED
    BY <2>4, <2>5, Zenon DEF PartGiven
<1> QED
  BY <1>4, <1>5, Zenon

-----------------------------------------------------------------------------
(* What a step of the scanner finds.                                       *)

\* no tag is coming whatever tag_index and tag_name are
LEMMA ScannedNone ==
  ASSUME NEW t, NEW p \in Nat, Resolved(t, 0, p), NEW st \in {"none", "sending"},
         NEW k, NEW name
  PROVE  Scanned(t, st, p, k, name)
<1>1. 0 \in 0 .. p
  OBVIOUS
<1>2. Candidate(t, st, 0, p, k, name)
  BY DEF Candidate
<1> QED
  BY <1>1, <1>2, Zenon DEF Scanned

LEMMA NoneScanned ==
  ASSUME NEW t, NEW p \in Nat, NEW st \in {"none", "sending"}, NEW k, NEW name,
         Scanned(t, st, p, k, name)
  PROVE  Resolved(t, 0, p)
<1>1. PICK c \in 0 .. p : Candidate(t, st, c, p, k, name) /\ Resolved(t, c, p)
  BY Zenon DEF Scanned
<1>2. c = 0
  BY <1>1 DEF Candidate
<1> QED
  BY <1>1, <1>2

LEMMA TextScanned ==
  ASSUME NEW t, IsFile(t), NEW p \in 1 .. Len(t), NEW k, NEW name, Scanned(t, "none", p, k, name)
  PROVE  /\ p \notin Ends(t)
         /\ t[p] = "<" => Scanned(t, "leadin", p + 1, 1, name)
         /\ t[p] # "<" => Scanned(t, "none", p + 1, k, name)
<1>1. p \in Nat /\ p + 1 \in Nat /\ p # 0
  OBVIOUS
<1>2. Resolved(t, 0, p)
  BY <1>1, NoneScanned
<1>3. p \notin Ends(t)
  <2>1. \A a, b, o : ~TagAt(t, 0, a, b, o)
    BY DEF TagAt
  <2> QED
    BY <1>2, <2>1, NoEnd
<1>4. ASSUME t[p] = "<"  PROVE Scanned(t, "leadin", p + 1, 1, name)
  <2>1. InLeadIn(t, p, p + 1, 1) /\ Resolved(t, p, p + 1) /\ p \in 0 .. p + 1
    BY <1>1, <1>2, <1>4, LeadInStart, ResolvedNone
  <2>2. Candidate(t, "leadin", p, p + 1, 1, name)
    BY <2>1 DEF Candidate
  <2> QED
    BY <2>1, <2>2, Zenon DEF Scanned
<1>5. ASSUME t[p] # "<"  PROVE Scanned(t, "none", p + 1, k, name)
  <2>1. Resolved(t, 0, p + 1)
    BY <1>2, <1>5, ResolvedNone
  <2> QED
    BY <1>1, <2>1, ScannedNone
<1> QED
  BY <1>3, <1>4, <1>5

LEMMA LeadInScanned ==
  ASSUME NEW t, IsFile(t), NEW p \in 1 .. Len(t), NEW k, NEW name \in Seq(Chars),
         Scanned(t, "leadin", p, k, name)
  PROVE  /\ k \in 1 .. 5
         /\ k = 5 => Scanned(t, "found", p, 0, name)
         /\ k # 5 => /\ p \notin Ends(t)
                     /\ t[p] = LeadIn[k + 1] => Scanned(t, "leadin", p + 1, k + 1, name)
                     /\ t[p] # LeadIn[k + 1] => Scanned(t, "none", p + 1, k, name)
<1>1. p \in Nat /\ p + 1 \in Nat /\ p # 0 /\ p \in 1 .. Len(t) + 1
  <2>1. Len(t) \in Nat
    BY LenProperties DEF IsFile
  <2> QED
    BY <2>1
<1>2. PICK c \in 0 .. p : InLeadIn(t, c, p, k) /\ Resolved(t, c, p)
  BY Zenon DEF Scanned, Candidate
<1>3. k \in 1 .. 5 /\ Coming(t, c, p) /\ c \in 0 .. p + 1
  BY <1>1, <1>2, ComingLeadIn DEF InLeadIn
<1>4. \A a, b, o : TagAt(t, c, a, b, o) => p < o + 2 /\ (k < 5 => t[p] = LeadIn[k + 1])
  BY <1>2, LeadInTag
<1>5. ASSUME k = 5  PROVE Scanned(t, "found", p, 0, name)
  <2>1. Candidate(t, "found", c, p, 0, name)
    <3>1. InName(t, c, p, 0, name)
      BY <1>1, <1>2, <1>5, LeadInDone
    <3> QED
      BY <3>1 DEF Candidate
  <2> QED
    BY <1>2, <2>1, Zenon DEF Scanned
<1>6. ASSUME k # 5  PROVE p \notin Ends(t)
  <2>1. \A a, b, o : TagAt(t, c, a, b, o) => o + 2 # p
    <3> SUFFICES ASSUME NEW a, NEW b, NEW o, TagAt(t, c, a, b, o)  PROVE o + 2 # p
      OBVIOUS
    <3>1. p < o + 2
      BY <1>4
    <3>2. o \in Nat
      BY TagFacts DEF IsFile
    <3> QED
      BY <1>1, <3>1, <3>2
  <2> QED
    BY <1>2, <2>1, NoEnd
<1>7. ASSUME k # 5, t[p] = LeadIn[k + 1]  PROVE Scanned(t, "leadin", p + 1, k + 1, name)
  <2>1. InLeadIn(t, c, p + 1, k + 1) /\ Resolved(t, c, p + 1)
    BY <1>1, <1>2, <1>3, <1>7, LeadInNext, ResolvedKeep
  <2>2. Candidate(t, "leadin", c, p + 1, k + 1, name)
    BY <2>1 DEF Candidate
  <2> QED
    BY <1>3, <2>1, <2>2, Zenon DEF Scanned
<1>8. ASSUME k # 5, t[p] # LeadIn[k + 1]  PROVE Scanned(t, "none", p + 1, k, name)
  <2>1. \A a, b, o : TagAt(t, c, a, b, o) => o + 2 < p + 1
    <3>1. k < 5
      BY <1>3, <1>8
    <3> QED
      BY <1>4, <1>8, <3>1
  <2>2. Resolved(t, 0, p + 1)
    BY <1>2, <1>3, <2>1, ResolvedDrop
  <2> QED
    BY <1>1, <2>2, ScannedNone
<1> QED
  BY <1>3, <1>5, <1>6, <1>7, <1>8

\* the four ways a character of the name is taken
LEMMA NameScanned ==
  ASSUME NEW t, IsFile(t), NEW p \in 1 .. Len(t), NEW k, NEW name \in Seq(Chars),
         Scanned(t, "found", p, k, name)
  PROVE  /\ p \notin Ends(t) /\ k \in 0 .. MaxTagName /\ k =< Len(name)
         /\ k = 0 /\ t[p] \in Space => Scanned(t, "found", p + 1, k, name)
         /\ k > 0 /\ t[p] \in Space \cup {Dash} =>
              /\ Scanned(t, "leadout", p + 1, IF t[p] = Dash THEN 1 ELSE 0, SubSeq(name, 1, k))
              /\ SubSeq(name, 1, k) \in Seq(Chars) /\ Len(SubSeq(name, 1, k)) =< MaxTagName
         /\ t[p] \notin Space \cup {Dash} /\ ~(k >= MaxTagName) =>
              /\ Scanned(t, "found", p + 1, k + 1, Append(SubSeq(name, 1, k), t[p]))
              /\ Append(SubSeq(name, 1, k), t[p]) \in Seq(Chars)
              /\ Len(Append(SubSeq(name, 1, k), t[p])) =< MaxTagName
         /\ (k = 0 /\ t[p] = Dash) \/ (t[p] \notin Space \cup {Dash} /\ k >= MaxTagName) =>
              Scanned(t, "none", p + 1, k, name)
<1>1. p \in Nat /\ p + 1 \in Nat /\ p # 0 /\ p \in 1 .. Len(t) + 1 /\ MaxTagName \in Nat
  <2>1. Len(t) \in Nat
    BY LenProperties DEF IsFile
  <2> QED
    BY <2>1, SsiConstants
<1>2. PICK c \in 0 .. p : InName(t, c, p, k, name) /\ Resolved(t, c, p)
  BY Zenon DEF Scanned, Candidate
<1>3. /\ k \in 0 .. MaxTagName /\ k =< Len(name) /\ Coming(t, c, p) /\ c \in 0 .. p + 1
      /\ Resolved(t, c, p + 1)
  <2>1. k \in 0 .. MaxTagName /\ k =< Len(name)
    BY <1>2 DEF InName
  <2>2. Coming(t, c, p)
    BY <1>1, <1>2, ComingName
  <2>3. Resolved(t, c, p + 1)
    BY <1>2, <2>2, ResolvedKeep
  <2> QED
    BY <1>1, <2>1, <2>2, <2>3
<1>4. \A a, b, o : TagAt(t, c, a, b, o) =>
        /\ o + 2 # p
        /\ k = 0 => t[p] # Dash
        /\ IsNameChar(t[p]) => k < MaxTagName
  BY <1>2, NameTag
<1>5. p \notin Ends(t)
  BY <1>2, <1>4, NoEnd
<1>6. ASSUME k = 0, t[p] \in Space  PROVE Scanned(t, "found", p + 1, k, name)
  <2>1. InName(t, c, p + 1, k, name)
    BY <1>1, <1>2, <1>6, NameSpace
  <2>2. Candidate(t, "found", c, p + 1, k, name)
    BY <2>1 DEF Candidate
  <2> QED
    BY <1>3, <2>2, Zenon DEF Scanned
<1>7. ASSUME k > 0, t[p] \in Space \cup {Dash}
      PROVE  /\ Scanned(t, "leadout", p + 1, IF t[p] = Dash THEN 1 ELSE 0, SubSeq(name, 1, k))
             /\ SubSeq(name, 1, k) \in Seq(Chars) /\ Len(SubSeq(name, 1, k)) =< MaxTagName
  <2>1. /\ InLeadOut(t, c, p + 1, IF t[p] = Dash THEN 1 ELSE 0, SubSeq(name, 1, k))
        /\ SubSeq(name, 1, k) \in Seq(Chars) /\ Len(SubSeq(name, 1, k)) =< MaxTagName
    BY <1>2, <1>7, NameDone
  <2>2. Candidate(t, "leadout", c, p + 1, IF t[p] = Dash THEN 1 ELSE 0, SubSeq(name, 1, k))
    BY <2>1, Zenon DEF Candidate
  <2> QED
    BY <1>3, <2>1, <2>2, Zenon DEF Scanned
<1>8. ASSUME t[p] \notin Space \cup {Dash}, ~(k >= MaxTagName)
      PROVE  /\ Scanned(t, "found", p + 1, k + 1, Append(SubSeq(name, 1, k), t[p]))
             /\ Append(SubSeq(name, 1, k), t[p]) \in Seq(Chars)
             /\ Len(Append(SubSeq(name, 1, k), t[p])) =< MaxTagName
  <2>0. IsNameChar(t[p])
    BY <1>8 DEF IsNameChar
  <2>1. /\ InName(t, c, p + 1, k + 1, Append(SubSeq(name, 1, k), t[p]))
        /\ Append(SubSeq(name, 1, k), t[p]) \in Seq(Chars)
        /\ Len(Append(SubSeq(name, 1, k), t[p])) = k + 1
    BY <1>2, <1>8, <2>0, NameMore
  <2>2. Candidate(t, "found", c, p + 1, k + 1, Append(SubSeq(name, 1, k), t[p]))
    BY <2>1, Zenon DEF Candidate
  <2>3. Scanned(t, "found", p + 1, k + 1, Append(SubSeq(name, 1, k), t[p]))
    BY <1>3, <2>2, Zenon DEF Scanned
  <2>4. k + 1 =< MaxTagName
    BY <1>1, <1>3, <1>8
  <2> QED
    BY <2>1, <2>3, <2>4
<1>9. ASSUME (k = 0 /\ t[p] = Dash) \/ (t[p] \notin Space \cup {Dash} /\ k >= MaxTagName)
      PROVE  Scanned(t, "none", p + 1, k, name)
  <2>1. (k = 0 /\ t[p] = Dash) \/ (IsNameChar(t[p]) /\ ~(k < MaxTagName))
    BY <1>1, <1>3, <1>9 DEF IsNameChar
  <2>2. \A a, b, o : ~TagAt(t, c, a, b, o)
    BY <1>4, <2>1, Zenon
  <2>3. Resolved(t, 0, p + 1)
    BY <1>2, <1>3, <2>2, ResolvedDrop
  <2> QED
    BY <1>1, <2>3, ScannedNone
<1> QED
  BY <1>3, <1>5, <1>6, <1>7, <1>8, <1>9

LEMMA LeadOutScanned ==
  ASSUME NEW t, IsFile(t), NEW p \in 1 .. Len(t), NEW k, NEW name,
         Scanned(t, "leadout", p, k, name), ~(k = 2 /\ t[p] = ">")
  PROVE  /\ p \notin Ends(t) /\ k \in 0 .. 2
         /\ k = 0 /\ t[p] \in Space => Scanned(t, "leadout", p + 1, k, name)
         /\ k # 2 /\ t[p] = Dash => Scanned(t, "leadout", p + 1, k + 1, name)
         /\ t[p] # Dash \/ k = 2 => (k = 0 /\ t[p] \in Space) \/ Scanned(t, "none", p + 1, k, name)
<1>1. p \in Nat /\ p + 1 \in Nat /\ p # 0 /\ p \in 1 .. Len(t) + 1
  <2>1. Len(t) \in Nat
    BY LenProperties DEF IsFile
  <2> QED
    BY <2>1
<1>2. PICK c \in 0 .. p : InLeadOut(t, c, p, k, name) /\ Resolved(t, c, p)
  BY Zenon DEF Scanned, Candidate
<1>3. k \in 0 .. 2 /\ Coming(t, c, p) /\ c \in 0 .. p + 1 /\ Resolved(t, c, p + 1)
  <2>1. k \in 0 .. 2
    BY <1>2 DEF InLeadOut
  <2>2. Coming(t, c, p)
    BY <1>1, <1>2, ComingLeadOut
  <2>3. Resolved(t, c, p + 1)
    BY <1>2, <2>2, ResolvedKeep
  <2> QED
    BY <1>1, <2>1, <2>2, <2>3
<1>4. \A a, b, o : TagAt(t, c, a, b, o) =>
        /\ k = 0 => p =< o /\ (t[p] \in Space \/ t[p] = Dash)
        /\ k # 0 => o = p - k
        /\ k = 1 => t[p] = Dash
        /\ k = 2 => t[p] = ">"
  BY <1>2, LeadOutTag
<1>5. p \notin Ends(t)
  <2>1. \A a, b, o : TagAt(t, c, a, b, o) => o + 2 # p
    <3> SUFFICES ASSUME NEW a, NEW b, NEW o, TagAt(t, c, a, b, o)  PROVE o + 2 # p
      OBVIOUS
    <3>1. k # 2 /\ (k = 0 => p =< o) /\ (k # 0 => o = p - k)
      BY <1>4
    <3>2. o \in Nat
      BY TagFacts DEF IsFile
    <3> QED
      BY <1>1, <1>3, <3>1, <3>2
  <2> QED
    BY <1>2, <2>1, NoEnd
<1>6. ASSUME k = 0, t[p] \in Space  PROVE Scanned(t, "leadout", p + 1, k, name)
  <2>1. InLeadOut(t, c, p + 1, k, name)
    BY <1>1, <1>2, <1>6, LeadOutNext
  <2>2. Candidate(t, "leadout", c, p + 1, k, name)
    BY <2>1, Zenon DEF Candidate
  <2> QED
    BY <1>3, <2>2, Zenon DEF Scanned
<1>7. ASSUME k # 2, t[p] = Dash  PROVE Scanned(t, "leadout", p + 1, k + 1, name)
  <2>1. InLeadOut(t, c, p + 1, k + 1, name)
    BY <1>1, <1>2, <1>7, LeadOutNext
  <2>2. Candidate(t, "leadout", c, p + 1, k + 1, name)
    BY <2>1, Zenon DEF Candidate
  <2> QED
    BY <1>3, <2>2, Zenon DEF Scanned
<1>8. ASSUME t[p] # Dash \/ k = 2, ~(k = 0 /\ t[p] \in Space)
      PROVE  Scanned(t, "none", p + 1, k, name)
  <2>1. k = 0 \/ k = 1 \/ k = 2
    BY <1>3
  <2>2. \A a, b, o : ~TagAt(t, c, a, b, o)
    BY <1>4, <1>8, <2>1, Zenon
  <2>3. Resolved(t, 0, p + 1)
    BY <1>2, <1>3, <2>2, ResolvedDrop
  <2> QED
    BY <1>1, <2>3, ScannedNone
<1> QED
  BY <1>3, <1>5, <1>6, <1>7, <1>8

\* the last character of a tag
LEMMA TagScanned ==
  ASSUME NEW q \in DOMAIN Pages, NEW t, t = Pages[q].text, NEW p \in 1 .. Len(t), NEW name,
         Scanned(t, "leadout", p, 2, name), t[p] = ">"
  PROVE  /\ p \in Ends(t) /\ NameOf(q, p) = name
         /\ \A k, other : Scanned(t, "sending", p + 1, k, other)
<1>0. IsFile(t) /\ t \in Seq(Chars) /\ Len(t) \in Nat
  BY TextFacts DEF IsFile
<1>1. p \in Nat /\ p + 1 \in Nat /\ p # 0 /\ p \in 1 .. Len(t) + 1
  BY <1>0
<1>2. PICK c \in 0 .. p : InLeadOut(t, c, p, 2, name) /\ Resolved(t, c, p)
  BY Zenon DEF Scanned, Candidate
<1>3. Coming(t, c, p)
  BY <1>0, <1>1, <1>2, ComingLeadOut
<1>4. \A a, b, o : TagAt(t, c, a, b, o) => o = p - 2 /\ name = SubSeq(t, a, b - 1)
  <2> SUFFICES ASSUME NEW a, NEW b, NEW o, TagAt(t, c, a, b, o)
               PROVE  o = p - 2 /\ name = SubSeq(t, a, b - 1)
    OBVIOUS
  <2>1. PICK k : k = 2
    OBVIOUS
  <2>2. InLeadOut(t, c, p, k, name)
    BY <1>2, <2>1
  <2>3. (k # 0 => o = p - k) /\ name = SubSeq(t, a, b - 1)
    BY <1>0, <2>2, LeadOutTag
  <2> QED
    BY <2>1, <2>3
<1>5. PICK a \in 1 .. Len(t), b \in 1 .. Len(t) : TagAt(t, c, a, b, p - 2)
  BY <1>0, <1>2, LeadOutComplete
<1>6. c \in 1 .. Len(t)
  BY <1>5 DEF TagAt
<1>7. p \in Ends(t)
  BY <1>5, <1>6, Zenon DEF Ends
<1>8. NameOf(q, p) = name
  <2>1. PICK i \in 1 .. Len(t), d \in 1 .. Len(t), e \in 1 .. Len(t) :
          TagAt(t, i, d, e, p - 2) /\ NameOf(q, p) = SubSeq(t, d, e - 1)
    <3>1. TagNamed(q, p)
      BY <1>7, NamesAre, Zenon
    <3> QED
      BY <3>1, Zenon DEF TagNamed
  <2>2. PICK o : o = p - 2
    OBVIOUS
  <2>3. /\ o \in 1 .. Len(t) /\ o + 2 = p /\ i < p
    <3>1. TagAt(t, i, d, e, o)
      BY <2>1, <2>2
    <3>2. o \in Nat /\ i \in Nat /\ i + 5 =< d /\ d < e /\ e =< o /\ d \in Nat /\ e \in Nat
      BY <1>0, <3>1, TagFacts
    <3> QED
      BY <1>0, <1>1, <2>2, <3>2
  <2>4. i = c
    <3> SUFFICES ASSUME i # c  PROVE FALSE
      OBVIOUS
    <3>1. TagAt(t, i, d, e, o)
      BY <2>1, <2>2
    <3>2. o + 2 < p
      BY <1>2, <2>3, <3>1 DEF Resolved
    <3> QED
      BY <1>1, <2>3, <3>2
  <2> QED
    BY <1>4, <2>1, <2>4
<1>9. Resolved(t, 0, p + 1)
  <2>1. \A d, e, o : TagAt(t, c, d, e, o) => o + 2 < p + 1
    BY <1>1, <1>4
  <2> QED
    BY <1>0, <1>2, <1>3, <2>1, ResolvedDrop
<1> QED
  BY <1>1, <1>7, <1>8, <1>9, ScannedNone

-----------------------------------------------------------------------------
(* The invariant is preserved: first by the steps that change neither what *)
(* was sent nor what was parsed.                                           *)

LEMMA StateFacts ==
  ASSUME TypeOK
  PROVE  /\ page \in DOMAIN Pages /\ Text = Pages[page].text
         /\ IsFile(Text) /\ Len(Text) \in Nat /\ Len(Text) \notin Ends(Text)
         /\ Ends(Text) \subseteq 1 .. Len(Text)
         /\ Pages[page].tagCheck \in BOOLEAN
         /\ file \in 1 .. Len(Text) + 1 /\ parsed \in 1 .. Len(Text) + 1
         /\ Len(HdrLens) \in Nat /\ hdr \in 1 .. Len(HdrLens) + 1
         /\ SndBuf \in Nat /\ MaxShort \in Nat /\ MaxVersions \in Nat /\ MaxTagName \in Nat
         /\ Mss \in Nat
<1>1. page \in DOMAIN Pages /\ Text = Pages[page].text
  BY DEF TypeOK, Text
<1>2. HdrLens \in Seq(Nat \ {0})
  BY SsiConstants
<1>3. Len(HdrLens) \in Nat
  BY <1>2, LenProperties
<1>4. SndBuf \in Nat /\ MaxShort \in Nat /\ MaxVersions \in Nat /\ MaxTagName \in Nat /\ Mss \in Nat
  BY SsiConstants
<1>5. /\ IsFile(Text) /\ Len(Text) \in Nat /\ Len(Text) \notin Ends(Text)
      /\ Pages[page].tagCheck \in BOOLEAN
  BY <1>1, TextFacts
<1>6. Ends(Text) \subseteq 1 .. Len(Text)
  BY DEF Ends
<1>7. /\ file \in 1 .. Len(Text) + 1 /\ parsed \in 1 .. Len(Text) + 1
      /\ hdr \in 1 .. Len(HdrLens) + 1
  BY DEF TypeOK
<1> QED
  BY <1>1, <1>3, <1>4, <1>5, <1>6, <1>7

LEMMA QuietStep ==
  ASSUME ReplyInv, UNCHANGED <<page, hdr, hpos, file, parsed, tagVars, out, seen>>,
         pc' \in {"idle", "headers", "begin", "scan", "tail", "end"},
         len' \in NoBytes .. SndBuf, snd' \in 0 .. SndBuf, closed' \in BOOLEAN,
         version' \in 0 .. MaxVersions, short' \in 0 .. MaxShort,
         hdr =< Len(HdrLens) => pc' \in {"idle", "headers"} /\ ~closed',
         ~Pages[page].tagCheck => pc' \notin {"scan", "tail"},
         closed' => file = Len(Text) + 1
  PROVE  ReplyInv'
<1>1. TypeOK /\ SeqInv /\ ScanInv /\ HeadInv /\ PlaceInv /\ SendingInv /\ OutInv
  BY DEF ReplyInv
<1>2. /\ page' = page /\ hdr' = hdr /\ hpos' = hpos /\ file' = file /\ parsed' = parsed
      /\ out' = out /\ seen' = seen
      /\ tagState' = tagState /\ tagIndex' = tagIndex /\ tagName' = tagName
      /\ tagEnd' = tagEnd /\ insert' = insert
  BY DEF tagVars
<1>3. Text' = Text
  BY <1>2 DEF Text
<1>4. TypeOK'
  BY <1>1, <1>2, <1>3 DEF TypeOK
<1>5. SeqInv'
  BY <1>1, <1>2 DEF SeqInv
<1>6. ScanInv'
  BY <1>1, <1>2, <1>3 DEF ScanInv
<1>7. HeadInv'
  BY <1>1, <1>2 DEF HeadInv, AllHeaders
<1>8. PlaceInv'
  BY <1>1, <1>2, <1>3 DEF PlaceInv
<1>9. SendingInv'
  BY <1>1, <1>2, <1>3 DEF SendingInv
<1>10. OutInv'
  BY <1>1, <1>2 DEF OutInv, Body, AllHeaders
<1> QED
  BY <1>4, <1>5, <1>6, <1>7, <1>8, <1>9, <1>10 DEF ReplyInv

LEMMA QuietSteps ==
  ASSUME ReplyInv,
         \/ Poll \/ (\E n \in 1 .. SndBuf : Sent(n)) \/ OtherHandler \/ HeadersEnd \/ NothingToSend
         \/ ParseOn \/ ScanEnd \/ End \/ UNCHANGED vars
  PROVE  ReplyInv'
<1>1. TypeOK /\ HeadInv /\ PlaceInv
  BY DEF ReplyInv
<1>2. /\ Len(Text) \in Nat /\ Len(HdrLens) \in Nat /\ SndBuf \in Nat /\ MaxVersions \in Nat
      /\ hdr \in 1 .. Len(HdrLens) + 1 /\ file \in 1 .. Len(Text) + 1
      /\ parsed \in 1 .. Len(Text) + 1
  BY <1>1, StateFacts
<1>3. /\ pc \in {"idle", "headers", "begin", "scan", "tail", "end"}
      /\ len \in NoBytes .. SndBuf /\ snd \in 0 .. SndBuf /\ closed \in BOOLEAN
      /\ version \in 0 .. MaxVersions /\ short \in 0 .. MaxShort
  BY <1>1 DEF TypeOK
<1>4. /\ hdr =< Len(HdrLens) => pc \in {"idle", "headers"} /\ ~closed
      /\ ~Pages[page].tagCheck => pc \notin {"scan", "tail"}
      /\ closed => file = Len(Text) + 1
  BY <1>1 DEF HeadInv, PlaceInv
<1>5. \A k \in 0 .. SndBuf : k \in NoBytes .. SndBuf
  BY DEF NoBytes
<1>6. Left = 0 => file = Len(Text) + 1
  BY <1>2 DEF Left
<1>7. CASE Poll
  BY <1>2, <1>3, <1>4, <1>5, <1>7, QuietStep DEF Poll, Enter
<1>8. CASE \E n \in 1 .. SndBuf : Sent(n)
  <2>1. PICK n \in 1 .. SndBuf : Sent(n)
    BY <1>8
  <2>2. snd' \in 0 .. SndBuf
    BY <1>2, <1>3, <2>1 DEF Sent
  <2> QED
    BY <1>2, <1>3, <1>4, <1>5, <2>1, <2>2, QuietStep DEF Sent, Enter
<1>9. CASE OtherHandler
  <2>1. version' \in 0 .. MaxVersions
    BY <1>2, <1>3, <1>9 DEF OtherHandler
  <2> QED
    BY <1>3, <1>4, <1>9, <2>1, QuietStep DEF OtherHandler
<1>10. CASE HeadersEnd
  <2>1. /\ UNCHANGED <<page, hdr, hpos, file, parsed, tagVars, out, seen>>
        /\ UNCHANGED <<len, snd, closed, version, short>>
        /\ (hdr > Len(HdrLens) /\ pc' = "begin") \/ (hdr =< Len(HdrLens) /\ pc' = "idle")
    BY <1>10 DEF HeadersEnd, HeadersUnchanged
  <2> QED
    BY <1>2, <1>3, <1>4, <2>1, QuietStep
<1>11. CASE NothingToSend
  BY <1>2, <1>3, <1>4, <1>6, <1>11, QuietStep DEF NothingToSend
<1>12. CASE ParseOn
  <2>1. /\ UNCHANGED <<page, hdr, hpos, file, parsed, tagVars, out, seen>>
        /\ UNCHANGED <<snd, closed, version, short>>
        /\ pc = "begin" /\ pc' = "scan" /\ len' = snd /\ Pages[page].tagCheck
    BY <1>12 DEF ParseOn, Tagged, FileUnchanged
  <2> QED
    BY <1>2, <1>3, <1>4, <1>5, <2>1, QuietStep
<1>13. CASE ScanEnd
  <2>1. /\ UNCHANGED <<page, hdr, hpos, file, parsed, tagVars, out, seen>>
        /\ UNCHANGED <<len, snd, closed, version, short>>
        /\ pc = "scan" /\ pc' \in {"tail", "idle"}
    BY <1>13 DEF ScanEnd, FileUnchanged
  <2> QED
    BY <1>2, <1>3, <1>4, <2>1, QuietStep
<1>14. CASE End
  BY <1>2, <1>3, <1>4, <1>6, <1>14, QuietStep DEF End
<1>15. CASE UNCHANGED vars
  BY <1>3, <1>4, <1>15, QuietStep DEF vars
<1> QED
  BY <1>7, <1>8, <1>9, <1>10, <1>11, <1>12, <1>13, <1>14, <1>15

-----------------------------------------------------------------------------
(* By the steps of the scanner that find no end of a tag.                  *)

LEMMA ScannerStep ==
  ASSUME ReplyInv, pc = "scan", parsed \in 1 .. Len(Text), tagState # "sending",
         UNCHANGED <<insert, seen>>, ScanUnchanged,
         tagState' \in {"none", "leadin", "found", "leadout"}, tagIndex' \in Nat,
         tagName' \in Seq(Chars), Len(tagName') =< MaxTagName,
         parsed' = parsed \/ (parsed' = parsed + 1 /\ parsed \notin Ends(Text)),
         Scanned(Text, tagState', parsed', tagIndex', tagName')
  PROVE  ReplyInv'
<1>1. TypeOK /\ SeqInv /\ ScanInv /\ HeadInv /\ PlaceInv /\ SendingInv /\ OutInv
  BY DEF ReplyInv
<1>2. /\ page' = page /\ hdr' = hdr /\ hpos' = hpos /\ file' = file
      /\ out' = out /\ seen' = seen /\ tagEnd' = tagEnd /\ insert' = insert
      /\ pc' = pc /\ len' = len /\ snd' = snd /\ closed' = closed /\ version' = version
      /\ short' = short
  BY DEF ScanUnchanged
<1>3. Text' = Text
  BY <1>2 DEF Text
<1>4. /\ page \in DOMAIN Pages /\ Text = Pages[page].text /\ Len(Text) \in Nat
      /\ Ends(Text) \subseteq 1 .. Len(Text) /\ file \in 1 .. Len(Text) + 1
      /\ Len(HdrLens) \in Nat /\ hdr \in 1 .. Len(HdrLens) + 1
  BY <1>1, StateFacts
<1>5. parsed' \in 1 .. Len(Text) + 1
  BY <1>4
<1>6. TypeOK'
  BY <1>1, <1>2, <1>3, <1>5 DEF TypeOK
<1>7. SeqInv'
  BY <1>1, <1>2 DEF SeqInv
<1>8. ScanInv'
  <2>1. Number(page, parsed' - 1) = Number(page, parsed - 1)
    <3>1. CASE parsed' = parsed
      BY <3>1
    <3>2. CASE parsed' = parsed + 1 /\ parsed \notin Ends(Text)
      <4>1. parsed \in 0 .. Len(Text) /\ parsed # 0 /\ parsed' - 1 = parsed
        BY <1>4, <3>2
      <4> QED
        BY <1>4, <3>2, <4>1, NumberFacts
    <3> QED
      BY <3>1, <3>2
  <2> QED
    BY <1>1, <1>2, <1>3, <2>1 DEF ScanInv
<1>9. HeadInv'
  BY <1>1, <1>2, <1>4 DEF HeadInv
<1>10. PlaceInv'
  BY <1>1, <1>2, <1>3, <1>4 DEF PlaceInv
<1>11. SendingInv'
  <2>1. \A e \in Ends(Text) : file =< e /\ e < parsed' => FALSE
    <3> SUFFICES ASSUME NEW e \in Ends(Text), file =< e, e < parsed'  PROVE FALSE
      OBVIOUS
    <3>1. e \in Nat
      BY <1>4
    <3>2. e < parsed
      BY <1>4, <3>1
    <3> QED
      BY <1>1, <3>2 DEF SendingInv
  <2> QED
    BY <1>2, <1>3, <2>1 DEF SendingInv
<1>12. OutInv'
  <2>1. tagState # "sending" /\ tagState' # "sending"
    OBVIOUS
  <2>2. Body = Sofar(page, seen, file - 1) /\ Body' = Sofar(page, seen, file - 1)
    BY <1>2, <2>1 DEF Body, BodyOf
  <2>3. Body' = Body
    BY <2>2, Zenon
  <2> QED
    BY <1>1, <1>2, <2>3 DEF OutInv, AllHeaders
<1> QED
  BY <1>6, <1>7, <1>8, <1>9, <1>10, <1>11, <1>12 DEF ReplyInv

\* what is known where a character is looked at
LEMMA ScanningFacts ==
  ASSUME ReplyInv, pc = "scan", ParseLeft > 0
  PROVE  /\ IsFile(Text) /\ parsed \in 1 .. Len(Text) /\ Char = Text[parsed]
         /\ Scanned(Text, tagState, parsed, tagIndex, tagName)
         /\ tagName \in Seq(Chars) /\ Len(tagName) =< MaxTagName /\ MaxTagName \in Nat
         /\ tagIndex \in Nat /\ Pages[page].tagCheck /\ hdr > Len(HdrLens)
<1>1. TypeOK /\ SeqInv /\ ScanInv /\ HeadInv /\ PlaceInv
  BY DEF ReplyInv
<1>2. /\ IsFile(Text) /\ Len(Text) \in Nat /\ parsed \in 1 .. Len(Text) + 1
      /\ Len(HdrLens) \in Nat /\ hdr \in 1 .. Len(HdrLens) + 1 /\ MaxTagName \in Nat
  BY <1>1, StateFacts
<1>3. parsed \in 1 .. Len(Text)
  BY <1>2 DEF ParseLeft
<1>4. Pages[page].tagCheck
  BY <1>1 DEF PlaceInv
<1>5. hdr > Len(HdrLens)
  BY <1>1, <1>2 DEF HeadInv
<1> QED
  BY <1>1, <1>2, <1>3, <1>4, <1>5 DEF TypeOK, SeqInv, ScanInv, Char

LEMMA ScanTextStep ==
  ASSUME ReplyInv, ScanText
  PROVE  ReplyInv'
<1>1. /\ pc = "scan" /\ ParseLeft > 0 /\ tagState = "none"
      /\ parsed' = parsed + 1 /\ UNCHANGED <<insert, seen>> /\ ScanUnchanged
      /\ tagName' = tagName
      /\ IF Char = LeadIn[1] THEN tagState' = "leadin" /\ tagIndex' = 1
                             ELSE tagState' = tagState /\ tagIndex' = tagIndex
  BY DEF ScanText, Scanning
<1>2. /\ IsFile(Text) /\ parsed \in 1 .. Len(Text) /\ Char = Text[parsed]
      /\ Scanned(Text, tagState, parsed, tagIndex, tagName)
      /\ tagName \in Seq(Chars) /\ Len(tagName) =< MaxTagName /\ tagIndex \in Nat
  BY <1>1, ScanningFacts
<1>3. /\ parsed \notin Ends(Text)
      /\ Text[parsed] = "<" => Scanned(Text, "leadin", parsed + 1, 1, tagName)
      /\ Text[parsed] # "<" => Scanned(Text, "none", parsed + 1, tagIndex, tagName)
  BY <1>1, <1>2, TextScanned
<1>4. /\ Scanned(Text, tagState', parsed', tagIndex', tagName')
      /\ tagState' \in {"none", "leadin"} /\ tagIndex' \in Nat
  <2>1. CASE Text[parsed] = "<"
    <3>1. tagState' = "leadin" /\ tagIndex' = 1
      BY <1>1, <1>2, <2>1, LeadFacts
    <3> QED
      BY <1>1, <1>3, <2>1, <3>1
  <2>2. CASE Text[parsed] # "<"
    <3>1. tagState' = "none" /\ tagIndex' = tagIndex
      BY <1>1, <1>2, <2>2, LeadFacts
    <3> QED
      BY <1>1, <1>2, <1>3, <2>2, <3>1
  <2> QED
    BY <2>1, <2>2
<1> QED
  BY <1>1, <1>2, <1>3, <1>4, ScannerStep

LEMMA ScanLeadInStep ==
  ASSUME ReplyInv, ScanLeadIn
  PROVE  ReplyInv'
<1>1. /\ pc = "scan" /\ ParseLeft > 0 /\ tagState = "leadin"
      /\ UNCHANGED <<insert, seen>> /\ ScanUnchanged /\ tagName' = tagName
      /\ IF tagIndex = Len(LeadIn)
           THEN tagState' = "found" /\ tagIndex' = 0 /\ parsed' = parsed
           ELSE /\ parsed' = parsed + 1
                /\ IF Char = LeadIn[tagIndex + 1]
                     THEN tagIndex' = tagIndex + 1 /\ tagState' = tagState
                     ELSE tagState' = "none" /\ tagIndex' = tagIndex
  BY DEF ScanLeadIn, Scanning
<1>2. /\ IsFile(Text) /\ parsed \in 1 .. Len(Text) /\ Char = Text[parsed]
      /\ Scanned(Text, tagState, parsed, tagIndex, tagName)
      /\ tagName \in Seq(Chars) /\ Len(tagName) =< MaxTagName /\ tagIndex \in Nat
  BY <1>1, ScanningFacts
<1>3. Scanned(Text, "leadin", parsed, tagIndex, tagName)
  BY <1>1, <1>2
<1>4. CASE tagIndex = 5
  <2>1. Scanned(Text, "found", parsed, 0, tagName)
    BY <1>2, <1>3, <1>4, LeadInScanned
  <2>2. tagState' = "found" /\ tagIndex' = 0 /\ parsed' = parsed
    BY <1>1, <1>4, LeadFacts
  <2> QED
    BY <1>1, <1>2, <2>1, <2>2, ScannerStep
<1>5. CASE tagIndex # 5
  <2>1. /\ parsed \notin Ends(Text)
        /\ Text[parsed] = LeadIn[tagIndex + 1] =>
             Scanned(Text, "leadin", parsed + 1, tagIndex + 1, tagName)
        /\ Text[parsed] # LeadIn[tagIndex + 1] =>
             Scanned(Text, "none", parsed + 1, tagIndex, tagName)
    BY <1>2, <1>3, <1>5, LeadInScanned
  <2>2. /\ parsed' = parsed + 1
        /\ IF Text[parsed] = LeadIn[tagIndex + 1]
             THEN tagIndex' = tagIndex + 1 /\ tagState' = "leadin"
             ELSE tagState' = "none" /\ tagIndex' = tagIndex
    BY <1>1, <1>2, <1>5, LeadFacts
  <2>3. /\ Scanned(Text, tagState', parsed', tagIndex', tagName')
        /\ tagState' \in {"none", "leadin"} /\ tagIndex' \in Nat
    BY <1>1, <1>2, <2>1, <2>2
  <2> QED
    BY <1>1, <1>2, <2>1, <2>2, <2>3, ScannerStep
<1> QED
  BY <1>4, <1>5

LEMMA ScanNameStep ==
  ASSUME ReplyInv, ScanName
  PROVE  ReplyInv'
<1> DEFINE ch == Text[parsed]
<1>1. /\ pc = "scan" /\ ParseLeft > 0 /\ tagState = "found"
      /\ UNCHANGED <<insert, seen>> /\ ScanUnchanged /\ parsed' = parsed + 1
  BY DEF ScanName, Scanning
<1>2. /\ IsFile(Text) /\ parsed \in 1 .. Len(Text) /\ Char = Text[parsed]
      /\ Scanned(Text, tagState, parsed, tagIndex, tagName)
      /\ tagName \in Seq(Chars) /\ Len(tagName) =< MaxTagName /\ tagIndex \in Nat
  BY <1>1, ScanningFacts
<1>3. Scanned(Text, "found", parsed, tagIndex, tagName)
  BY <1>1, <1>2
<1>4. \/ tagIndex = 0 /\ ch \in Space /\ UNCHANGED <<tagState, tagIndex, tagName>>
      \/ /\ tagIndex > 0 /\ ch \in Space \cup {Dash}
         /\ tagState' = "leadout" /\ tagIndex' = IF ch = Dash THEN 1 ELSE 0
         /\ tagName' = SubSeq(tagName, 1, tagIndex)
      \/ /\ ch \notin Space \cup {Dash} /\ ~(tagIndex >= MaxTagName)
         /\ tagName' = Append(SubSeq(tagName, 1, tagIndex), ch)
         /\ tagIndex' = tagIndex + 1 /\ tagState' = tagState
      \/ /\ (tagIndex = 0 /\ ch = Dash) \/ (ch \notin Space \cup {Dash} /\ tagIndex >= MaxTagName)
         /\ tagState' = "none" /\ tagIndex' = tagIndex /\ tagName' = tagName
  BY <1>2 DEF ScanName, NameFull, Dash
<1> HIDE DEF ch
<1>5. /\ parsed \notin Ends(Text)
      /\ tagIndex = 0 /\ ch \in Space => Scanned(Text, "found", parsed + 1, tagIndex, tagName)
      /\ tagIndex > 0 /\ ch \in Space \cup {Dash} =>
           /\ Scanned(Text, "leadout", parsed + 1, IF ch = Dash THEN 1 ELSE 0,
                      SubSeq(tagName, 1, tagIndex))
           /\ SubSeq(tagName, 1, tagIndex) \in Seq(Chars)
           /\ Len(SubSeq(tagName, 1, tagIndex)) =< MaxTagName
      /\ ch \notin Space \cup {Dash} /\ ~(tagIndex >= MaxTagName) =>
           /\ Scanned(Text, "found", parsed + 1, tagIndex + 1,
                      Append(SubSeq(tagName, 1, tagIndex), ch))
           /\ Append(SubSeq(tagName, 1, tagIndex), ch) \in Seq(Chars)
           /\ Len(Append(SubSeq(tagName, 1, tagIndex), ch)) =< MaxTagName
      /\ (tagIndex = 0 /\ ch = Dash) \/ (ch \notin Space \cup {Dash} /\ tagIndex >= MaxTagName) =>
           Scanned(Text, "none", parsed + 1, tagIndex, tagName)
  BY <1>2, <1>3, NameScanned DEF ch
<1>6. /\ Scanned(Text, tagState', parsed', tagIndex', tagName')
      /\ tagState' \in {"none", "leadin", "found", "leadout"} /\ tagIndex' \in Nat
      /\ tagName' \in Seq(Chars) /\ Len(tagName') =< MaxTagName
  <2>1. CASE tagIndex = 0 /\ ch \in Space /\ UNCHANGED <<tagState, tagIndex, tagName>>
    BY <1>1, <1>2, <1>5, <2>1
  <2>2. CASE /\ tagIndex > 0 /\ ch \in Space \cup {Dash}
             /\ tagState' = "leadout" /\ tagIndex' = IF ch = Dash THEN 1 ELSE 0
             /\ tagName' = SubSeq(tagName, 1, tagIndex)
    BY <1>1, <1>2, <1>5, <2>2
  <2>3. CASE /\ ch \notin Space \cup {Dash} /\ ~(tagIndex >= MaxTagName)
             /\ tagName' = Append(SubSeq(tagName, 1, tagIndex), ch)
             /\ tagIndex' = tagIndex + 1 /\ tagState' = tagState
    BY <1>1, <1>2, <1>5, <2>3
  <2>4. CASE /\ (tagIndex = 0 /\ ch = Dash) \/ (ch \notin Space \cup {Dash} /\ tagIndex >= MaxTagName)
             /\ tagState' = "none" /\ tagIndex' = tagIndex /\ tagName' = tagName
    BY <1>1, <1>2, <1>5, <2>4
  <2> QED
    BY <1>4, <2>1, <2>2, <2>3, <2>4
<1> QED
  BY <1>1, <1>2, <1>5, <1>6, ScannerStep

LEMMA ScanLeadOutStep ==
  ASSUME ReplyInv, ScanLeadOut
  PROVE  ReplyInv'
<1> DEFINE ch == Text[parsed]
<1>1. /\ pc = "scan" /\ ParseLeft > 0 /\ tagState = "leadout" /\ ~LastOfTag
      /\ UNCHANGED <<insert, seen>> /\ ScanUnchanged /\ parsed' = parsed + 1
      /\ tagName' = tagName
  BY DEF ScanLeadOut, Scanning
<1>2. /\ IsFile(Text) /\ parsed \in 1 .. Len(Text) /\ Char = Text[parsed]
      /\ Scanned(Text, tagState, parsed, tagIndex, tagName)
      /\ tagName \in Seq(Chars) /\ Len(tagName) =< MaxTagName /\ tagIndex \in Nat
  BY <1>1, ScanningFacts
<1>3. Scanned(Text, "leadout", parsed, tagIndex, tagName)
  BY <1>1, <1>2
<1>4. ~(tagIndex = 2 /\ ch = ">")
  BY <1>1, <1>2, LeadFacts DEF LastOfTag
<1>5. \/ tagIndex = 0 /\ ch \in Space /\ tagState' = tagState /\ tagIndex' = tagIndex
      \/ /\ ~(tagIndex = 0 /\ ch \in Space) /\ ch = LeadOut[tagIndex + 1]
         /\ tagIndex' = tagIndex + 1 /\ tagState' = tagState
      \/ /\ ~(tagIndex = 0 /\ ch \in Space) /\ ch # LeadOut[tagIndex + 1]
         /\ tagState' = "none" /\ tagIndex' = tagIndex
  <2>1. (CASE tagIndex = 0 /\ Char \in Space -> UNCHANGED <<tagState, tagIndex>>
           [] Char = LeadOut[tagIndex + 1]   -> tagIndex' = tagIndex + 1 /\ UNCHANGED tagState
           [] OTHER                          -> tagState' = "none" /\ UNCHANGED tagIndex)
    BY DEF ScanLeadOut
  <2>2. ~(tagIndex = 0 /\ Char \in Space /\ Char = LeadOut[tagIndex + 1])
    <3>1. tagIndex = 0 => LeadOut[tagIndex + 1] = Dash
      BY LeadFacts
    <3>2. Dash \notin Space
      BY Zenon DEF Space, Dash
    <3> QED
      BY <3>1, <3>2, Zenon
  <2> QED
    BY <1>2, <2>1, <2>2
<1> HIDE DEF ch
<1>6. /\ parsed \notin Ends(Text) /\ tagIndex \in 0 .. 2
      /\ tagIndex = 0 /\ ch \in Space => Scanned(Text, "leadout", parsed + 1, tagIndex, tagName)
      /\ tagIndex # 2 /\ ch = Dash => Scanned(Text, "leadout", parsed + 1, tagIndex + 1, tagName)
      /\ ch # Dash \/ tagIndex = 2 =>
           (tagIndex = 0 /\ ch \in Space) \/ Scanned(Text, "none", parsed + 1, tagIndex, tagName)
  BY <1>2, <1>3, <1>4, LeadOutScanned DEF ch
<1>7. /\ tagIndex # 2 => LeadOut[tagIndex + 1] = Dash
      /\ tagIndex = 2 => LeadOut[tagIndex + 1] = ">"
  BY <1>6, LeadFacts
<1>8. /\ Scanned(Text, tagState', parsed', tagIndex', tagName')
      /\ tagState' \in {"none", "leadout"} /\ tagIndex' \in Nat
  <2>1. CASE tagIndex = 0 /\ ch \in Space /\ tagState' = tagState /\ tagIndex' = tagIndex
    BY <1>1, <1>2, <1>6, <2>1
  <2>2. CASE /\ ~(tagIndex = 0 /\ ch \in Space) /\ ch = LeadOut[tagIndex + 1]
             /\ tagIndex' = tagIndex + 1 /\ tagState' = tagState
    BY <1>1, <1>2, <1>4, <1>6, <1>7, <2>2
  <2>3. CASE /\ ~(tagIndex = 0 /\ ch \in Space) /\ ch # LeadOut[tagIndex + 1]
             /\ tagState' = "none" /\ tagIndex' = tagIndex
    BY <1>1, <1>2, <1>4, <1>6, <1>7, <2>3
  <2> QED
    BY <1>5, <2>1, <2>2, <2>3
<1> QED
  BY <1>1, <1>2, <1>6, <1>8, ScannerStep

-----------------------------------------------------------------------------
(* By the steps that send a part of the file.                              *)

LEMMA SofarType ==
  ASSUME NEW p \in DOMAIN Pages, NEW t, t = Pages[p].text, NEW sn \in Seq(Nat),
         NEW k \in 0 .. Len(t)
  PROVE  Sofar(p, sn, k) \in Seq(Byte)
<1>1. Len(t) \in Nat /\ PiecesOf(p, sn) \in [1 .. Len(t) -> Seq(Byte)]
  BY TextFacts, PiecesType
<1> QED
  BY <1>1, FirstType DEF Sofar

\* no tag ends behind j and not behind k
NoEnds(t, j, k) == \A i \in j + 1 .. k : i \notin Ends(t)

SingleBytes(p, sn, j, k) == \A i \in j + 1 .. k : PiecesOf(p, sn)[i] = <<<<"file", i>>>>

\* where no tag ends the pieces are single bytes
LEMMA PlainPieces ==
  ASSUME NEW p \in DOMAIN Pages, NEW sn \in Seq(Nat), NEW j \in Nat, NEW k \in Nat,
         k =< Len(Pages[p].text), Pages[p].tagCheck => NoEnds(Pages[p].text, j, k)
  PROVE  SingleBytes(p, sn, j, k)
<1> DEFINE t == Pages[p].text
<1> SUFFICES ASSUME NEW i \in j + 1 .. k  PROVE PiecesOf(p, sn)[i] = <<<<"file", i>>>>
  BY DEF SingleBytes
<1>1. Len(t) \in Nat
  BY TextFacts
<1>2. i \in 1 .. Len(t)
  BY <1>1
<1>3. ~Pages[p].tagCheck \/ i \notin Ends(t)
  BY DEF NoEnds
<1>4. PieceOf(p, sn, i) = <<<<"file", i>>>>
  BY <1>2, <1>3, PieceIs
<1> QED
  BY <1>2, <1>4, PiecesAt

\* z is x followed by y
Joins(x, y, z) == x \o y = z

LEMMA SofarRun ==
  ASSUME NEW p \in DOMAIN Pages, NEW sn \in Seq(Nat), NEW k \in Nat, NEW v \in Nat, NEW m \in Nat,
         m = k + v, m =< Len(Pages[p].text), Pages[p].tagCheck => NoEnds(Pages[p].text, k, m)
  PROVE  Joins(Sofar(p, sn, k), Run(k, v), Sofar(p, sn, m))
<1>1. PICK n \in Nat : n = Len(Pages[p].text)
  BY TextFacts
<1>2. PICK P \in [1 .. n -> Seq(Byte)] : P = PiecesOf(p, sn)
  BY <1>1, PiecesType
<1>3. k \in 0 .. n /\ v \in 0 .. n - k
  BY <1>1
<1>4. \A i \in k + 1 .. k + v : P[i] = <<<<"file", i>>>>
  <2>1. \A i \in k + 1 .. m : PiecesOf(p, sn)[i] = <<<<"file", i>>>>
    BY PlainPieces DEF SingleBytes
  <2> QED
    BY <1>2, <2>1
<1>5. FlattenFirst(P, k) \o Run(k, v) = FlattenFirst(P, k + v)
  BY <1>3, <1>4, RunSent
<1> QED
  BY <1>2, <1>5 DEF Sofar, Joins

LEMMA SofarTag ==
  ASSUME NEW p \in DOMAIN Pages, NEW sn \in Seq(Nat), NEW k \in Nat, NEW v \in Nat \ {0},
         NEW m \in Nat, m + 1 = k + v, m + 1 =< Len(Pages[p].text),
         NoEnds(Pages[p].text, k, m)
  PROVE  Joins(Sofar(p, sn, k), Run(k, v), Sofar(p, sn, m) \o <<<<"file", m + 1>>>>)
<1>1. PICK n \in Nat : n = Len(Pages[p].text)
  BY TextFacts
<1>2. PICK P \in [1 .. n -> Seq(Byte)] : P = PiecesOf(p, sn)
  BY <1>1, PiecesType
<1>3. k \in 0 .. n /\ v \in 1 .. n - k /\ k + v - 1 = m /\ m =< Len(Pages[p].text)
  BY <1>1
<1>4. \A i \in k + 1 .. k + v - 1 : P[i] = <<<<"file", i>>>>
  <2>1. \A i \in k + 1 .. m : PiecesOf(p, sn)[i] = <<<<"file", i>>>>
    BY <1>3, PlainPieces DEF SingleBytes
  <2> QED
    BY <1>2, <1>3, <2>1
<1>5. FlattenFirst(P, k) \o Run(k, v) = FlattenFirst(P, k + v - 1) \o <<<<"file", k + v>>>>
  BY <1>3, <1>4, TagSent
<1> QED
  BY <1>2, <1>3, <1>5 DEF Sofar, Joins

\* f - 1 bytes are sent and q - 1 are looked at: the only tag in between is
\* the one whose insert is being sent
SendingAt(p, f, q, st, te, ti) ==
  /\ \A e \in Ends(Pages[p].text) : f =< e /\ e < q => st = "sending" /\ e = q - 1
  /\ st = "sending" => te = q /\ Pages[p].tagCheck /\ (f < te => ti = 0)

LEMMA BodyRun ==
  ASSUME NEW p \in DOMAIN Pages, NEW sn \in Seq(Nat),
         NEW f \in 1 .. Len(Pages[p].text) + 1, NEW q \in 1 .. Len(Pages[p].text) + 1,
         NEW v \in Nat \ {0}, NEW g \in Nat, g = f + v,
         g =< Len(Pages[p].text) + 1, Pages[p].tagCheck => g =< q,
         NEW st, NEW te, NEW ins, NEW ti \in Nat, SendingAt(p, f, q, st, te, ti)
  PROVE  /\ BodyOf(p, sn, f, st, te, ins, ti) \in Seq(Byte)
         /\ Joins(BodyOf(p, sn, f, st, te, ins, ti), Run(f - 1, v),
                  BodyOf(p, sn, g, st, te, ins, ti))
<1> DEFINE t == Pages[p].text
<1>0. /\ \A e \in Ends(t) : f =< e /\ e < q => st = "sending" /\ e = q - 1
      /\ st = "sending" => te = q /\ Pages[p].tagCheck /\ (f < te => ti = 0)
      /\ f + v =< Len(t) + 1 /\ (Pages[p].tagCheck => f + v =< q)
  BY DEF SendingAt
<1>1. Len(t) \in Nat /\ Pages[p].tagCheck \in BOOLEAN /\ Ends(t) \subseteq 1 .. Len(t)
  BY TextFacts DEF Ends
<1>2. PICK k \in 0 .. Len(t) : k = f - 1 /\ f = k + 1
  BY <1>0, <1>1
<1>3. /\ k \in Nat /\ v \in 0 .. Len(t) - k /\ v \in 1 .. Len(t) - k
      /\ (f + v) - 1 = k + v /\ (f + v) - 2 = k + v - 1
  BY <1>0, <1>1, <1>2
<1>4. ~(st = "sending" /\ f = te)
  BY <1>0, <1>1
<1>5. BodyOf(p, sn, f, st, te, ins, ti) = Sofar(p, sn, k)
  BY <1>2, <1>4 DEF BodyOf
<1>6. Sofar(p, sn, k) \in Seq(Byte)
  BY SofarType
<1>7. CASE st = "sending" /\ f + v = te
  <2>1. ti = 0
    BY <1>0, <1>1, <1>7
  <2>2. PICK m \in Nat : m = k + v - 1 /\ m + 1 = k + v /\ m + 1 =< Len(t) /\ m \in 0 .. Len(t)
    <3>1. k + v - 1 \in Nat /\ k + v =< Len(t) /\ (k + v - 1) + 1 = k + v
      BY <1>1, <1>3
    <3> QED
      BY <1>1, <3>1
  <2>3. NoEnds(t, k, m)
    <3> SUFFICES ASSUME NEW i \in k + 1 .. m, i \in Ends(t)  PROVE FALSE
      BY DEF NoEnds
    <3>1. f =< i /\ i < q /\ i # q - 1
      BY <1>0, <1>1, <1>2, <1>3, <1>7, <2>2
    <3> QED
      BY <1>0, <3>1
  <2>4. Sofar(p, sn, k) \o Run(k, v) = Sofar(p, sn, m) \o <<<<"file", m + 1>>>>
    <3>1. Joins(Sofar(p, sn, k), Run(k, v), Sofar(p, sn, m) \o <<<<"file", m + 1>>>>)
      BY <1>3, <2>2, <2>3, SofarTag
    <3> QED
      BY <3>1, Zenon DEF Joins
  <2>5. PICK b \in Byte : b = <<"file", m + 1>>
    <3>1. m + 1 \in Nat
      BY <2>2
    <3>2. <<"file", m + 1>> \in Byte
      BY <3>1, ByteFacts, Zenon
    <3> QED
      BY <3>2, Zenon
  <2>6. PICK y \in Seq(Byte) : y = Sofar(p, sn, m) \o <<b>>
    <3>1. Sofar(p, sn, m) \in Seq(Byte) /\ <<b>> \in Seq(Byte)
      BY <2>2, SofarType, OneByte
    <3>2. Sofar(p, sn, m) \o <<b>> \in Seq(Byte)
      BY <3>1, ConcatProperties
    <3> QED
      BY <3>2, Zenon
  <2>7. SubSeq(ins, 1, ti) = <<>>
    BY <2>1, SubSeqEmpty
  <2>8. y \o <<>> = y
    BY ConcatEmptySeq
  <2>9. BodyOf(p, sn, g, st, te, ins, ti) = y \o SubSeq(ins, 1, ti)
    BY <1>3, <1>7, <2>2, <2>5, <2>6 DEF BodyOf
  <2> QED
    BY <1>2, <1>5, <1>6, <2>4, <2>5, <2>6, <2>7, <2>8, <2>9 DEF Joins
<1>8. CASE ~(st = "sending" /\ f + v = te)
  <2>1. PICK m \in Nat : m = k + v /\ m =< Len(t)
    BY <1>3
  <2>2. Pages[p].tagCheck => NoEnds(t, k, m)
    <3> SUFFICES ASSUME Pages[p].tagCheck, NEW i \in k + 1 .. m, i \in Ends(t)  PROVE FALSE
      BY DEF NoEnds
    <3>1. f =< i /\ i < q
      BY <1>0, <1>1, <1>2, <1>3, <2>1
    <3>2. st = "sending" /\ i = q - 1 /\ te = q
      BY <1>0, <3>1
    <3>3. f + v # q
      BY <1>0, <1>8, <3>2
    <3> QED
      BY <1>0, <1>1, <1>2, <1>3, <2>1, <3>2, <3>3
  <2>3. Sofar(p, sn, k) \o Run(k, v) = Sofar(p, sn, m)
    <3>1. Joins(Sofar(p, sn, k), Run(k, v), Sofar(p, sn, m))
      BY <1>3, <2>1, <2>2, SofarRun
    <3> QED
      BY <3>1, Zenon DEF Joins
  <2>4. BodyOf(p, sn, g, st, te, ins, ti) = Sofar(p, sn, m)
    BY <1>3, <1>8, <2>1 DEF BodyOf
  <2> QED
    BY <1>2, <1>5, <1>6, <2>3, <2>4 DEF Joins
<1> QED
  BY <1>7, <1>8, Zenon DEF Joins

LEMMA HeadersFacts ==
  /\ AllHeaders \in [1 .. Len(HdrLens) -> Seq(Byte)] /\ Len(HdrLens) \in Nat
  /\ \A h \in 1 .. Len(HdrLens) : /\ HdrLens[h] \in Nat \ {0} /\ Len(AllHeaders[h]) = HdrLens[h]
                                  /\ \A i \in 1 .. HdrLens[h] : AllHeaders[h][i] = <<"header", h, i>>
  /\ FlattenSeq(AllHeaders) \in Seq(Byte)
<1>1. HdrLens \in Seq(Nat \ {0})
  BY SsiConstants
<1>2. Len(HdrLens) \in Nat /\ DOMAIN HdrLens = 1 .. Len(HdrLens)
  BY <1>1, LenProperties
<1>3. \A h \in 1 .. Len(HdrLens) : HdrLens[h] \in Nat \ {0}
  BY <1>1, ElementOfSeq
<1>4. ASSUME NEW h \in 1 .. Len(HdrLens)
      PROVE  /\ AllHeaders[h] \in Seq(Byte) /\ Len(AllHeaders[h]) = HdrLens[h]
             /\ \A i \in 1 .. HdrLens[h] : AllHeaders[h][i] = <<"header", h, i>>
  <2>1. PICK n \in Nat : n = HdrLens[h]
    BY <1>3
  <2>2. AllHeaders[h] = [i \in 1 .. n |-> <<"header", h, i>>]
    BY <1>2, <2>1 DEF AllHeaders
  <2>3. \A i \in 1 .. n : i \in Nat /\ h \in Nat
    BY <1>2
  <2>4. \A i \in 1 .. n : <<"header", h, i>> \in Byte
    BY <2>3, ByteFacts, Zenon
  <2>5. [i \in 1 .. n |-> <<"header", h, i>>] \in [1 .. n -> Byte]
    BY <2>4, Zenon
  <2>6. AllHeaders[h] \in Seq(Byte) /\ Len(AllHeaders[h]) = n
    BY <2>2, <2>5, FunctionIsSeq
  <2>7. \A i \in 1 .. n : AllHeaders[h][i] = <<"header", h, i>>
    BY <2>2, Zenon
  <2> QED
    BY <2>1, <2>6, <2>7
<1>5. AllHeaders \in [1 .. Len(HdrLens) -> Seq(Byte)]
  <2>1. \A h \in 1 .. Len(HdrLens) : AllHeaders[h] \in Seq(Byte)
    BY <1>4
  <2>2. AllHeaders = [h \in 1 .. Len(HdrLens) |-> AllHeaders[h]]
    BY <1>2, Zenon DEF AllHeaders
  <2> QED
    BY <2>1, <2>2, Zenon
<1>6. FlattenSeq(AllHeaders) \in Seq(Byte)
  <2>1. PICK n \in Nat : n = Len(HdrLens)
    BY <1>2, Zenon
  <2>2. PICK G \in [1 .. n -> Seq(Byte)] : G = AllHeaders
    BY <1>5, <2>1
  <2>3. n \in 0 .. n
    OBVIOUS
  <2>4. FlattenFirst(G, n) \in Seq(Byte) /\ FlattenFirst(G, n) = FlattenSeq(G)
    BY <2>3, FirstType, FirstAll
  <2> QED
    BY <2>2, <2>4
<1> QED
  BY <1>2, <1>3, <1>4, <1>5, <1>6

LEMMA FileStep ==
  ASSUME ReplyInv, hdr > Len(HdrLens),
         UNCHANGED <<page, hdr, hpos, parsed, tagVars, closed, version, seen>>,
         NEW v \in Nat, file' = file + v, out' = out \o Run(file - 1, v),
         file + v =< Len(Text) + 1, Pages[page].tagCheck => file + v =< parsed,
         pc' \in {"idle", "headers", "begin", "scan", "tail", "end"},
         len' \in NoBytes .. SndBuf, snd' \in 0 .. SndBuf, short' \in 0 .. MaxShort,
         ~Pages[page].tagCheck => pc' \notin {"scan", "tail"}
  PROVE  ReplyInv'
<1>1. TypeOK /\ SeqInv /\ ScanInv /\ HeadInv /\ PlaceInv /\ SendingInv /\ OutInv
  BY DEF ReplyInv
<1>2. /\ page' = page /\ hdr' = hdr /\ hpos' = hpos /\ parsed' = parsed
      /\ closed' = closed /\ version' = version /\ seen' = seen
      /\ tagState' = tagState /\ tagIndex' = tagIndex /\ tagName' = tagName
      /\ tagEnd' = tagEnd /\ insert' = insert
  BY DEF tagVars
<1>3. Text' = Text
  BY <1>2 DEF Text
<1>4. /\ page \in DOMAIN Pages /\ Text = Pages[page].text /\ Len(Text) \in Nat
      /\ Ends(Text) \subseteq 1 .. Len(Text) /\ file \in 1 .. Len(Text) + 1
      /\ parsed \in 1 .. Len(Text) + 1 /\ Pages[page].tagCheck \in BOOLEAN
      /\ Len(HdrLens) \in Nat /\ hdr \in 1 .. Len(HdrLens) + 1
  BY <1>1, StateFacts
<1>5. file' \in 1 .. Len(Text) + 1 /\ file - 1 \in Nat /\ file =< file'
  BY <1>4
<1>6. TypeOK'
  BY <1>1, <1>2, <1>3, <1>5 DEF TypeOK
<1>7. Run(file - 1, v) \in Seq(Byte)
  BY <1>5, RunType
<1>8. SeqInv'
  <2>1. out' \in Seq(Byte)
    BY <1>1, <1>7, ConcatProperties DEF SeqInv
  <2> QED
    BY <1>1, <1>2, <2>1 DEF SeqInv
<1>9. ScanInv'
  BY <1>1, <1>2, <1>3 DEF ScanInv
<1>10. HeadInv'
  BY <1>2, <1>4 DEF HeadInv
<1>11. PlaceInv'
  <2>1. closed => file' = Len(Text) + 1
    <3> SUFFICES ASSUME closed  PROVE file' = Len(Text) + 1
      OBVIOUS
    <3>1. file = Len(Text) + 1
      BY <1>1 DEF PlaceInv
    <3>2. v = 0
      BY <1>4, <3>1
    <3> QED
      BY <1>4, <3>1, <3>2
  <2>2. Pages[page].tagCheck => file' =< parsed
    OBVIOUS
  <2>3. ~Pages[page].tagCheck => parsed = 1 /\ tagState = "none"
    BY <1>1 DEF PlaceInv
  <2> QED
    BY <1>2, <1>3, <2>1, <2>2, <2>3 DEF PlaceInv
<1>12. SendingInv'
  <2>1. \A e \in Ends(Text) : file' =< e /\ e < parsed => tagState = "sending" /\ e = parsed - 1
    <3> SUFFICES ASSUME NEW e \in Ends(Text), file' =< e, e < parsed
                 PROVE  tagState = "sending" /\ e = parsed - 1
      OBVIOUS
    <3>1. e \in Nat
      <4>1. e \in 1 .. Len(Text)
        BY <1>4, Zenon
      <4> QED
        BY <1>4, <4>1
    <3>2. file =< e
      BY <1>4, <1>5, <3>1
    <3> QED
      BY <1>1, <3>2 DEF SendingInv
  <2>2. tagState = "sending" =>
          /\ tagEnd = parsed /\ parsed - 1 \in Ends(Text)
          /\ insert = Inserted(NameOf(page, parsed - 1), seen[Len(seen)])
          /\ tagIndex =< Len(insert) /\ (file' < tagEnd => tagIndex = 0)
    <3>1. tagState = "sending" /\ file' < tagEnd => file < tagEnd
      BY <1>1, <1>4, <1>5 DEF SendingInv
    <3> QED
      BY <1>1, <3>1 DEF SendingInv
  <2> QED
    BY <1>2, <1>3, <2>1, <2>2 DEF SendingInv
<1>13. OutInv'
  <2>1. hpos = 0 /\ out = FlattenSeq(AllHeaders) \o Body
    BY <1>1 DEF OutInv
  <2>2. out' = FlattenSeq(AllHeaders) \o BodyOf(page, seen, file', tagState, tagEnd, insert, tagIndex)
    <3>1. CASE v = 0
      <4>1. file' = file /\ Run(file - 1, v) = <<>>
        <5>1. Run(file - 1, 0) = <<>>
          BY DEF Run
        <5> QED
          BY <1>4, <3>1, <5>1
      <4>2. out \o <<>> = out
        BY <1>1, ConcatEmptySeq DEF SeqInv
      <4>3. out' = out
        BY <4>1, <4>2
      <4> QED
        BY <2>1, <4>1, <4>3, Zenon DEF Body
    <3>2. CASE v # 0
      <4> DEFINE b == BodyOf(page, seen, file, tagState, tagEnd, insert, tagIndex)
                 c == BodyOf(page, seen, file + v, tagState, tagEnd, insert, tagIndex)
      <4>1. seen \in Seq(Nat) /\ tagIndex \in Nat /\ v \in Nat \ {0}
        BY <1>1, <3>2 DEF SeqInv, TypeOK
      <4>2. SendingAt(page, file, parsed, tagState, tagEnd, tagIndex)
        <5>1. \A e \in Ends(Text) :
                file =< e /\ e < parsed => tagState = "sending" /\ e = parsed - 1
          BY <1>1 DEF SendingInv
        <5>2. tagState = "sending" =>
                tagEnd = parsed /\ Pages[page].tagCheck /\ (file < tagEnd => tagIndex = 0)
          BY <1>1, <1>4 DEF SendingInv, PlaceInv
        <5> QED
          BY <1>4, <5>1, <5>2 DEF SendingAt
      <4>3. PICK g \in Nat : g = file + v
        BY <1>4
      <4>4. b \in Seq(Byte) /\ b \o Run(file - 1, v) = c
        <5>1. /\ b \in Seq(Byte)
              /\ Joins(b, Run(file - 1, v),
                       BodyOf(page, seen, g, tagState, tagEnd, insert, tagIndex))
          BY <1>4, <4>1, <4>2, <4>3, BodyRun
        <5> QED
          BY <4>3, <5>1, Zenon DEF Joins
      <4>5. FlattenSeq(AllHeaders) \in Seq(Byte) /\ out = FlattenSeq(AllHeaders) \o b
        BY <2>1, HeadersFacts DEF Body
      <4> HIDE DEF b, c
      <4>6. FlattenSeq(AllHeaders) \o (b \o Run(file - 1, v)) =
              (FlattenSeq(AllHeaders) \o b) \o Run(file - 1, v)
        BY <1>7, <4>4, <4>5, Regrouped, Zenon
      <4>7. out' = FlattenSeq(AllHeaders) \o c
        BY <4>4, <4>5, <4>6, Zenon
      <4> QED
        BY <4>7 DEF c
    <3> QED
      BY <3>1, <3>2
  <2> QED
    BY <1>2, <2>1, <2>2 DEF OutInv, Body, AllHeaders
<1> QED
  BY <1>6, <1>8, <1>9, <1>10, <1>11, <1>12, <1>13 DEF ReplyInv

LEMMA LesserFacts ==
  ASSUME NEW a \in Int, NEW b \in Int
  PROVE  /\ Lesser(a, b) =< a /\ Lesser(a, b) =< b /\ Lesser(a, b) \in {a, b}
  BY DEF Lesser

\* the lengths that the loops ask for
LEMMA LengthFacts ==
  ASSUME TypeOK, NEW m \in Nat
  PROVE  InOneCall(m) \in 0 .. m /\ (len >= 0 => Lesser(len, m) \in 0 .. m)
<1>1. Mss \in Nat /\ snd \in Nat /\ len \in Int
  BY SsiConstants DEF TypeOK, NoBytes
<1>2. Lesser(snd, m) \in 0 .. m
  BY <1>1 DEF Lesser
<1>3. 2 * Mss \in Nat
  BY <1>1
<1>4. PICK a \in 0 .. m : a = Lesser(snd, m)
  BY <1>2
<1>5. Lesser(a, 2 * Mss) \in 0 .. m
  BY <1>3 DEF Lesser
<1>6. len >= 0 => Lesser(len, m) \in 0 .. m
  BY <1>1 DEF Lesser
<1> QED
  BY <1>4, <1>5, <1>6 DEF InOneCall

\* one such step: n bytes at most, and none that is not looked at
LEMMA FilePartStep ==
  ASSUME ReplyInv, hdr > Len(HdrLens),
         UNCHANGED <<page, hdr, hpos, parsed, tagVars, closed, version, seen>>,
         NEW n \in Nat, NEW w \in Written(n), GiveFile(n, w),
         n =< Left, Pages[page].tagCheck => n =< parsed - file,
         pc' \in {"idle", "headers", "begin", "scan", "tail", "end"},
         len' = w \/ len' = len,
         ~Pages[page].tagCheck => pc' \notin {"scan", "tail"}
  PROVE  ReplyInv'
<1>1. TypeOK /\ SeqInv
  BY DEF ReplyInv
<1>2. /\ Len(Text) \in Nat /\ file \in 1 .. Len(Text) + 1 /\ parsed \in 1 .. Len(Text) + 1
      /\ SndBuf \in Nat
  BY <1>1, StateFacts
<1>3. /\ snd \in 0 .. SndBuf /\ short \in 0 .. MaxShort /\ out \in Seq(Byte)
      /\ len \in NoBytes .. SndBuf
  BY <1>1 DEF TypeOK, SeqInv
<1>4. n \in 0 .. Left /\ Left = Len(Text) + 1 - file
  BY <1>2 DEF Left
<1>5. PICK v \in 0 .. n : /\ v = w \/ (w = NoBytes /\ v = 0)
                          /\ file' = file + v /\ out' = out \o Run(file - 1, v)
                          /\ v = 0 \/ v =< snd
  <2>1. PartGiven(n, w)
    BY <1>2, <1>3, <1>4, FileGiven
  <2> QED
    BY <2>1, Zenon DEF PartGiven
<1>6. snd' \in 0 .. SndBuf /\ short' \in 0 .. MaxShort
  BY <1>2, <1>3, <1>4, FileGiven
<1>7. len' \in NoBytes .. SndBuf
  <2>1. v \in 0 .. SndBuf /\ (w = v \/ w = NoBytes)
    <3>1. v = 0 \/ v =< snd
      BY <1>5
    <3>2. v \in Nat
      OBVIOUS
    <3>3. v \in 0 .. SndBuf
      BY <1>2, <1>3, <3>1, <3>2
    <3> QED
      BY <1>5, <3>3
  <2>2. w \in NoBytes .. SndBuf
    BY <1>2, <2>1 DEF NoBytes
  <2> QED
    BY <1>3, <2>2
<1>8. v \in Nat /\ file + v =< Len(Text) + 1
  BY <1>2, <1>4
<1>9. Pages[page].tagCheck => file + v =< parsed
  BY <1>2
<1> QED
  BY <1>5, <1>6, <1>7, <1>8, <1>9, FileStep

LEMMA FileSteps ==
  ASSUME ReplyInv, SendPlain \/ SendParsed \/ SendUpToTag \/ SendRest
  PROVE  ReplyInv'
<1>1. TypeOK /\ HeadInv /\ PlaceInv /\ SendingInv
  BY DEF ReplyInv
<1>2. /\ Len(Text) \in Nat /\ file \in 1 .. Len(Text) + 1 /\ parsed \in 1 .. Len(Text) + 1
      /\ Len(HdrLens) \in Nat /\ hdr \in 1 .. Len(HdrLens) + 1
      /\ Pages[page].tagCheck \in BOOLEAN
  BY <1>1, StateFacts
<1>3. pc \notin {"idle", "headers"} => hdr > Len(HdrLens)
  BY <1>1, <1>2 DEF HeadInv
<1>4. Left = Len(Text) + 1 - file /\ Left \in Nat
  BY <1>2 DEF Left
<1>5. /\ Pages[page].tagCheck => file =< parsed
      /\ ~Pages[page].tagCheck => parsed = 1 /\ pc \notin {"scan", "tail"}
  BY <1>1 DEF PlaceInv
<1>6. CASE SendPlain
  <2>1. PICK n : n = InOneCall(Left)
    OBVIOUS
  <2>2. PICK w \in Written(n) : GiveFile(n, w)
    BY <1>6, <2>1 DEF SendPlain
  <2>3. /\ pc = "begin" /\ ~Pages[page].tagCheck /\ pc' = "end" /\ len' = len
        /\ UNCHANGED <<page, hdr, hpos, parsed, tagVars, closed, version, seen>>
    BY <1>6 DEF SendPlain, FileUnchanged
  <2>4. n \in 0 .. Left
    BY <1>1, <1>4, <2>1, LengthFacts
  <2> QED
    BY <1>3, <1>4, <2>2, <2>3, <2>4, FilePartStep
<1>7. CASE SendParsed
  <2>1. PICK m \in Nat : m = parsed - file /\ m =< Left
    <3>1. parsed > file
      BY <1>7 DEF SendParsed
    <3> QED
      BY <1>2, <1>4, <3>1
  <2>2. PICK n : n = InOneCall(m)
    OBVIOUS
  <2>3. PICK w \in Written(n) : /\ GiveFile(n, w) /\ len' = w
                                /\ pc' = CASE snd' = 0    -> "idle"
                                           [] w = NoBytes -> "tail"
                                           [] OTHER       -> "scan"
    BY <1>7, <2>1, <2>2 DEF SendParsed
  <2>4. /\ pc = "begin" /\ Pages[page].tagCheck
        /\ UNCHANGED <<page, hdr, hpos, parsed, tagVars, closed, version, seen>>
    BY <1>7 DEF SendParsed, Tagged, FileUnchanged
  <2>5. n \in 0 .. m
    BY <1>1, <2>1, <2>2, LengthFacts
  <2>6. pc' \in {"idle", "tail", "scan"}
    BY <2>3
  <2> QED
    BY <1>3, <1>4, <2>1, <2>3, <2>4, <2>5, <2>6, FilePartStep
<1>8. CASE SendUpToTag
  <2>1. /\ pc = "scan" /\ len > 0 /\ tagState = "sending" /\ tagEnd > file
        /\ UNCHANGED <<page, hdr, hpos, parsed, tagVars, closed, version, seen>>
    BY <1>8 DEF SendUpToTag, Scanning, FileUnchanged
  <2>2. PICK m \in Nat : m = tagEnd - file /\ m = parsed - file /\ m =< Left
    <3>1. tagEnd = parsed
      BY <1>1, <2>1 DEF SendingInv
    <3>2. parsed > file
      BY <2>1, <3>1
    <3> QED
      BY <1>2, <1>4, <3>1, <3>2
  <2>3. PICK n : n = Lesser(len, m)
    OBVIOUS
  <2>4. PICK w \in Written(n) : /\ GiveFile(n, w) /\ len' = w
                                /\ pc' = IF w = NoBytes THEN "tail" ELSE "scan"
    BY <1>8, <2>2, <2>3 DEF SendUpToTag
  <2>5. n \in 0 .. m
    <3>1. len \in Int /\ len >= 0
      BY <1>1, <2>1 DEF TypeOK, NoBytes
    <3> QED
      BY <1>1, <2>2, <2>3, <3>1, LengthFacts
  <2>6. pc' \in {"tail", "scan"} /\ Pages[page].tagCheck
    BY <1>2, <1>5, <2>1, <2>4
  <2> QED
    BY <1>3, <1>4, <2>1, <2>2, <2>4, <2>5, <2>6, FilePartStep
<1>9. CASE SendRest
  <2>1. /\ pc = "tail" /\ pc' = "end" /\ len' = len
        /\ UNCHANGED <<page, hdr, hpos, parsed, tagVars, closed, version, seen>>
    BY <1>9 DEF SendRest, FileUnchanged
  <2>2. Pages[page].tagCheck
    BY <1>2, <1>5, <2>1
  <2>3. CASE tagState # "sending" /\ parsed > file
    <3>1. PICK m \in Nat : m = parsed - file /\ m =< Left
      BY <1>2, <1>4, <2>3
    <3>2. PICK n : n = InOneCall(m)
      OBVIOUS
    <3>3. PICK w \in Written(n) : GiveFile(n, w)
      BY <1>9, <2>3, <3>1, <3>2 DEF SendRest
    <3>4. n \in 0 .. m
      BY <1>1, <3>1, <3>2, LengthFacts
    <3> QED
      BY <1>3, <1>4, <2>1, <2>2, <3>1, <3>3, <3>4, FilePartStep
  <2>4. CASE ~(tagState # "sending" /\ parsed > file)
    <3>1. UNCHANGED <<file, snd, out, short>>
      BY <1>9, <2>4 DEF SendRest
    <3>2. /\ UNCHANGED <<page, hdr, hpos, file, parsed, tagVars, out, seen>>
          /\ closed' = closed /\ version' = version /\ short' = short /\ snd' = snd
      BY <2>1, <3>1
    <3>3. /\ len \in NoBytes .. SndBuf /\ snd \in 0 .. SndBuf /\ closed \in BOOLEAN
          /\ version \in 0 .. MaxVersions /\ short \in 0 .. MaxShort
      BY <1>1 DEF TypeOK
    <3>4. /\ hdr > Len(HdrLens) /\ (closed => file = Len(Text) + 1)
      BY <1>1, <1>3, <2>1 DEF PlaceInv
    <3> QED
      BY <1>2, <2>1, <2>2, <3>2, <3>3, <3>4, QuietStep
  <2> QED
    BY <2>3, <2>4
<1> QED
  BY <1>6, <1>7, <1>8, <1>9

-----------------------------------------------------------------------------
(* By the steps that send a part of a header or of an insert.              *)

LEMMA FrontOf ==
  ASSUME NEW S, NEW s \in Seq(S), NEW a \in 0 .. Len(s)
  PROVE  /\ SubSeq(s, 1, a) \in Seq(S) /\ Len(SubSeq(s, 1, a)) = a
         /\ \A i \in 1 .. a : SubSeq(s, 1, a)[i] = s[i]
<1>1. Len(s) \in Nat
  BY LenProperties
<1>2. \A i \in 1 .. a : i \in 1 .. Len(s)
  BY <1>1
<1>3. \A i \in 1 .. a : s[i] \in S
  BY <1>2, ElementOfSeq
<1>4. 1 \in Int /\ a \in Int /\ a - 1 + 1 = a /\ (IF 1 =< a THEN a - 1 + 1 ELSE 0) = a
  BY <1>1
<1>5. /\ SubSeq(s, 1, a) \in Seq(S)
      /\ Len(SubSeq(s, 1, a)) = IF 1 =< a THEN a - 1 + 1 ELSE 0
      /\ \A i \in 1 .. a - 1 + 1 : SubSeq(s, 1, a)[i] = s[1 + i - 1]
  BY <1>3, <1>4, SubSeqProperties
<1>6. \A i \in 1 .. a : 1 + i - 1 = i
  OBVIOUS
<1> QED
  BY <1>4, <1>5, <1>6

LEMMA FrontOfAll ==
  ASSUME NEW S, NEW s \in Seq(S)
  PROVE  SubSeq(s, 1, Len(s)) = s
<1>1. Len(s) \in 0 .. Len(s)
  BY LenProperties
<1> DEFINE q == SubSeq(s, 1, Len(s))
<1>2. q \in Seq(S) /\ Len(q) = Len(s) /\ \A i \in 1 .. Len(s) : q[i] = s[i]
  BY <1>1, FrontOf
<1> HIDE DEF q
<1>3. q = s
  BY <1>2, SeqEqual
<1> QED
  BY <1>3 DEF q

FirstPart(u, s, a) == Len(u) = a /\ \A i \in 1 .. a : u[i] = s[i]

LEMMA FrontIs ==
  ASSUME NEW S, NEW s \in Seq(S), NEW a \in 0 .. Len(s)
  PROVE  \E u \in Seq(S) : u = SubSeq(s, 1, a) /\ FirstPart(u, s, a)
<1>1. /\ SubSeq(s, 1, a) \in Seq(S) /\ Len(SubSeq(s, 1, a)) = a
      /\ \A i \in 1 .. a : SubSeq(s, 1, a)[i] = s[i]
  BY FrontOf
<1> QED
  BY <1>1, Zenon DEF FirstPart

\* r is what is left of s behind a
LEMMA CutOn ==
  ASSUME NEW S, NEW s \in Seq(S), NEW r \in Seq(S), NEW a \in 0 .. Len(s), NEW w \in 0 .. Len(r),
         Len(r) = Len(s) - a, \A i \in 1 .. Len(r) : r[i] = s[a + i]
  PROVE  Joins(SubSeq(s, 1, a), SubSeq(r, 1, w), SubSeq(s, 1, a + w))
<1>1. Len(s) \in Nat /\ Len(r) \in Nat
  BY LenProperties
<1>2. PICK b \in 0 .. Len(s) : b = a + w
  BY <1>1
<1>3. PICK u \in Seq(S) : u = SubSeq(s, 1, a) /\ FirstPart(u, s, a)
  BY FrontIs
<1>4. PICK x \in Seq(S) : x = SubSeq(r, 1, w) /\ FirstPart(x, r, w)
  BY FrontIs
<1>5. PICK y \in Seq(S) : y = SubSeq(s, 1, b) /\ FirstPart(y, s, b)
  BY FrontIs
<1> USE DEF FirstPart
<1>6. /\ u \o x \in Seq(S) /\ Len(u \o x) = a + w
      /\ \A i \in 1 .. a + w : (u \o x)[i] = IF i =< a THEN u[i] ELSE x[i - a]
  <2>1. Len(u) = a /\ Len(x) = w
    BY <1>3, <1>4
  <2>2. /\ u \o x \in Seq(S) /\ Len(u \o x) = Len(u) + Len(x)
        /\ \A i \in 1 .. Len(u) + Len(x) :
             (u \o x)[i] = IF i =< Len(u) THEN u[i] ELSE x[i - Len(u)]
    BY ConcatProperties
  <2> QED
    BY <2>1, <2>2, Zenon
<1>7. ASSUME NEW i \in 1 .. b  PROVE (u \o x)[i] = y[i]
  <2>1. i \in 1 .. a + w /\ y[i] = s[i]
    BY <1>2, <1>5
  <2>2. CASE i =< a
    <3>1. i \in 1 .. a
      BY <1>1, <2>2
    <3> QED
      BY <1>3, <1>6, <2>1, <2>2, <3>1
  <2>3. CASE ~(i =< a)
    <3>1. i - a \in 1 .. w /\ i - a \in 1 .. Len(r) /\ a + (i - a) = i
      <4>1. a \in Nat /\ w \in Nat /\ i \in Nat /\ i =< a + w /\ ~(i =< a) /\ w =< Len(r)
        BY <1>1, <1>2, <2>3
      <4> QED
        BY <1>1, <4>1
    <3>2. (u \o x)[i] = x[i - a] /\ x[i - a] = r[i - a] /\ r[i - a] = s[a + (i - a)]
      BY <1>4, <1>6, <2>1, <2>3, <3>1
    <3> QED
      BY <2>1, <3>1, <3>2
  <2> QED
    BY <2>2, <2>3
<1>8. u \o x = y
  <2> DEFINE q == u \o x
  <2>1. q \in Seq(S) /\ Len(q) = Len(y) /\ \A i \in 1 .. Len(q) : q[i] = y[i]
    BY <1>2, <1>5, <1>6, <1>7
  <2> HIDE DEF q
  <2>2. q = y
    BY <2>1, SeqEqual
  <2> QED
    BY <2>2 DEF q
<1> QED
  BY <1>2, <1>3, <1>4, <1>5, <1>8, Zenon DEF Joins

\* what was sent, x \o (a front of s), is continued with r
LEMMA FrontGrows ==
  ASSUME NEW x \in Seq(Byte), NEW s \in Seq(Byte), NEW r \in Seq(Byte), NEW a \in 0 .. Len(s),
         NEW w \in 0 .. Len(r), Len(r) = Len(s) - a, \A i \in 1 .. Len(r) : r[i] = s[a + i],
         NEW b, b = a + w
  PROVE  Joins(x \o SubSeq(s, 1, a), SubSeq(r, 1, w), x \o SubSeq(s, 1, b))
<1>1. PICK u \in Seq(Byte) : u = SubSeq(s, 1, a)
  BY FrontOf
<1>2. PICK v \in Seq(Byte) : v = SubSeq(r, 1, w)
  BY FrontOf
<1>3. Joins(u, v, SubSeq(s, 1, b))
  BY <1>1, <1>2, CutOn
<1>4. u \o v = SubSeq(s, 1, b)
  BY <1>3, Zenon DEF Joins
<1>5. x \o (u \o v) = (x \o u) \o v
  BY Regrouped, Zenon
<1> QED
  BY <1>1, <1>2, <1>4, <1>5, Zenon DEF Joins
-----------------------------------------------------------------------------
(* By the steps that send a header. *)

HeadersTo(h, a) == FlattenFirst(AllHeaders, h - 1) \o SubSeq(AllHeaders[h], 1, a)

LEMMA HeaderSent ==
  ASSUME NEW h \in 1 .. Len(HdrLens), NEW a \in Nat, NEW m \in Nat, a + m = HdrLens[h],
         NEW w \in 0 .. m, NEW b, b = a + w,
         NEW r, r = [i \in 1 .. m |-> <<"header", h, a + i>>]
  PROVE  /\ Joins(HeadersTo(h, a), SubSeq(r, 1, w), HeadersTo(h, b))
         /\ b = HdrLens[h] => HeadersTo(h, b) = FlattenFirst(AllHeaders, h)
         /\ SubSeq(r, 1, w) \in Seq(Byte)
<1>1. PICK n \in Nat : n = Len(HdrLens)
  BY HeadersFacts, Zenon
<1>2. PICK G \in [1 .. n -> Seq(Byte)] : G = AllHeaders
  BY <1>1, HeadersFacts, Zenon
<1>3. PICK k \in 0 .. n - 1 : k = h - 1 /\ h = k + 1 /\ k \in 0 .. n
  BY <1>1
<1>4. PICK s \in Seq(Byte) : /\ s = G[h] /\ Len(s) = a + m
                             /\ \A i \in 1 .. a + m : s[i] = <<"header", h, i>>
  <2>1. G[h] \in Seq(Byte)
    BY <1>1, <1>2
  <2>2. Len(G[h]) = a + m /\ \A i \in 1 .. a + m : G[h][i] = <<"header", h, i>>
    BY <1>2, HeadersFacts
  <2> QED
    BY <2>1, <2>2
<1>5. PICK x \in Seq(Byte) : x = FlattenFirst(G, k)
  BY <1>3, FirstType
<1>6. r \in Seq(Byte) /\ Len(r) = m
  <2>1. \A i \in 1 .. m : a + i \in Nat /\ h \in Nat
    BY <1>1
  <2>2. \A i \in 1 .. m : <<"header", h, a + i>> \in Byte
    BY <2>1, ByteFacts, Zenon
  <2>3. [i \in 1 .. m |-> <<"header", h, a + i>>] \in [1 .. m -> Byte]
    BY <2>2, Zenon
  <2> QED
    BY <2>3, FunctionIsSeq
<1>7. \A i \in 1 .. Len(r) : r[i] = s[a + i]
  <2>1. \A i \in 1 .. m : a + i \in 1 .. a + m
    OBVIOUS
  <2>2. \A i \in 1 .. m : s[a + i] = <<"header", h, a + i>>
    BY <1>4, <2>1, Zenon
  <2>3. \A i \in 1 .. m : r[i] = <<"header", h, a + i>>
    BY Zenon
  <2> QED
    BY <1>6, <2>2, <2>3
<1>8. Joins(x \o SubSeq(s, 1, a), SubSeq(r, 1, w), x \o SubSeq(s, 1, b))
  <2>1. a \in 0 .. Len(s) /\ w \in 0 .. Len(r) /\ Len(r) = Len(s) - a
    BY <1>4, <1>6
  <2> QED
    BY <1>6, <1>7, <2>1, FrontGrows
<1>9. ASSUME b = HdrLens[h]  PROVE HeadersTo(h, b) = FlattenFirst(AllHeaders, h)
  <2>1. b = Len(s)
    BY <1>4, <1>9
  <2>2. SubSeq(s, 1, b) = s
    BY <2>1, FrontOfAll
  <2>3. FlattenFirst(G, k + 1) = FlattenFirst(G, k) \o G[k + 1]
    BY FirstNext
  <2> QED
    BY <1>2, <1>3, <1>4, <2>2, <2>3, Zenon DEF HeadersTo
<1>10. SubSeq(r, 1, w) \in Seq(Byte)
  BY <1>6, FrontOf
<1> QED
  BY <1>2, <1>3, <1>4, <1>5, <1>8, <1>9, <1>10, Zenon DEF HeadersTo

LEMMA HeaderStep ==
  ASSUME ReplyInv, hdr =< Len(HdrLens), pc' \in {"idle", "headers"}, HeadersUnchanged,
         len' \in NoBytes .. SndBuf, snd' \in 0 .. SndBuf, short' \in 0 .. MaxShort,
         out' \in Seq(Byte),
         \/ hdr' = hdr /\ hpos' \in Nat /\ hpos' < HdrLens[hdr] /\ out' = HeadersTo(hdr, hpos')
         \/ hdr' = hdr + 1 /\ hpos' = 0 /\ out' = FlattenFirst(AllHeaders, hdr)
  PROVE  ReplyInv'
<1>1. TypeOK /\ SeqInv /\ ScanInv /\ HeadInv /\ PlaceInv /\ SendingInv /\ OutInv
  BY DEF ReplyInv
<1>2. /\ Len(HdrLens) \in Nat /\ hdr \in 1 .. Len(HdrLens)
      /\ pc \in {"idle", "headers"} /\ ~closed /\ file = 1 /\ parsed = 1 /\ tagState = "none"
  BY <1>1, StateFacts DEF HeadInv
<1>3. /\ UNCHANGED <<page, file, parsed, tagState, tagIndex, tagName, tagEnd, insert, closed,
                     version, seen>>
      /\ Text' = Text
  BY DEF HeadersUnchanged, tagVars, Text
<1>4. TypeOK'
  <2>1. hdr' \in 1 .. Len(HdrLens) + 1 /\ hpos' \in Nat
    <3>1. hdr' = hdr \/ hdr' = hdr + 1
      OBVIOUS
    <3>2. hpos' \in Nat \/ hpos' = 0
      OBVIOUS
    <3>3. hdr' \in 1 .. Len(HdrLens) + 1
      <4>1. PICK n \in Nat : n = Len(HdrLens)
        BY <1>2
      <4>2. hdr \in 1 .. n
        BY <1>2, <4>1
      <4>3. hdr \in 1 .. n + 1 /\ hdr + 1 \in 1 .. n + 1
        BY <4>2
      <4> QED
        BY <3>1, <4>1, <4>3
    <3> QED
      BY <3>2, <3>3
  <2> QED
    BY <1>1, <1>3, <2>1 DEF TypeOK
<1>5. SeqInv'
  BY <1>1, <1>3 DEF SeqInv
<1>6. ScanInv'
  BY <1>1, <1>3 DEF ScanInv, Number
<1>7. PlaceInv'
  BY <1>1, <1>2, <1>3 DEF PlaceInv
<1>8. SendingInv'
  BY <1>1, <1>3 DEF SendingInv, NameOf
<1>9. HeadInv'
  <2>1. CASE hdr' = hdr
    <3>1. hpos' < HdrLens[hdr] /\ out' = HeadersTo(hdr, hpos')
      BY <1>2, <2>1
    <3> QED
      BY <1>2, <1>3, <2>1, <3>1 DEF HeadInv, HeadersTo, AllHeaders
  <2>2. CASE hdr' = hdr + 1 /\ hdr' =< Len(HdrLens)
    <3>1. hpos' = 0 /\ out' = FlattenFirst(AllHeaders, hdr) /\ hdr' - 1 = hdr
      BY <1>2, <2>2
    <3>2. 0 < HdrLens[hdr']
      <4>1. hdr' \in 1 .. Len(HdrLens)
        BY <1>2, <2>2
      <4> QED
        BY <4>1, HeadersFacts
    <3>3. out' = FlattenFirst(AllHeaders, hdr' - 1) \o SubSeq(AllHeaders[hdr'], 1, hpos')
      <4>1. SubSeq(AllHeaders[hdr'], 1, hpos') = <<>>
        BY <3>1, SubSeqEmpty
      <4>2. out' \o <<>> = out'
        BY ConcatEmptySeq
      <4> QED
        BY <3>1, <4>1, <4>2, Zenon
    <3>4. AllHeaders' = AllHeaders
      BY DEF AllHeaders
    <3> QED
      BY <1>2, <1>3, <3>1, <3>2, <3>3, <3>4 DEF HeadInv
  <2>3. CASE hdr' = hdr + 1 /\ ~(hdr' =< Len(HdrLens))
    BY <2>3 DEF HeadInv
  <2> QED
    BY <2>1, <2>2, <2>3
<1>10. OutInv'
  <2> SUFFICES ASSUME hdr' > Len(HdrLens)
               PROVE  hpos' = 0 /\ out' = FlattenSeq(AllHeaders) \o Body'
    BY DEF OutInv, AllHeaders
  <2>1. hpos' = 0 /\ hdr = Len(HdrLens) /\ out' = FlattenFirst(AllHeaders, hdr)
    BY <1>2
  <2>2. FlattenFirst(AllHeaders, hdr) = FlattenSeq(AllHeaders)
    BY <1>2, <2>1, HeadersFacts, FirstAll
  <2>3. Body' = <<>>
    <3>1. file' = 1 /\ tagState' = "none"
      BY <1>2, <1>3
    <3>2. file' - 1 = 0 /\ ~(tagState' = "sending" /\ file' = tagEnd')
      BY <3>1
    <3>3. Body' = Sofar(page', seen', 0)
      BY <3>2, Zenon DEF Body, BodyOf
    <3> QED
      BY <3>3, FirstNone DEF Sofar
  <2>4. out' \o <<>> = out'
    BY ConcatEmptySeq
  <2> QED
    BY <2>1, <2>2, <2>3, <2>4, Zenon
<1> QED
  BY <1>4, <1>5, <1>6, <1>7, <1>8, <1>9, <1>10 DEF ReplyInv

LEMMA SendHeaderStep ==
  ASSUME ReplyInv, SendHeader
  PROVE  ReplyInv'
<1>1. TypeOK /\ SeqInv /\ HeadInv
  BY DEF ReplyInv
<1>2. /\ pc = "headers" /\ hdr =< Len(HdrLens) /\ len > 0
      /\ HeadersUnchanged
  BY DEF SendHeader
<1>3. /\ Len(HdrLens) \in Nat /\ hdr \in 1 .. Len(HdrLens) /\ hpos \in Nat /\ hpos < HdrLens[hdr]
      /\ snd \in 0 .. SndBuf /\ short \in 0 .. MaxShort /\ len \in NoBytes .. SndBuf
      /\ SndBuf \in Nat /\ out \in Seq(Byte)
      /\ out = HeadersTo(hdr, hpos)
  <2>1. Len(HdrLens) \in Nat /\ hdr \in 1 .. Len(HdrLens) + 1 /\ SndBuf \in Nat
    BY <1>1, StateFacts
  <2>2. hdr \in 1 .. Len(HdrLens)
    BY <1>2, <2>1
  <2>3. hpos \in Nat /\ snd \in 0 .. SndBuf /\ short \in 0 .. MaxShort /\ len \in NoBytes .. SndBuf
    BY <1>1 DEF TypeOK
  <2>4. out \in Seq(Byte)
    BY <1>1 DEF SeqInv
  <2>5. hpos < HdrLens[hdr] /\ out = HeadersTo(hdr, hpos)
    BY <1>1, <1>2, Zenon DEF HeadInv, HeadersTo
  <2> QED
    BY <2>1, <2>2, <2>3, <2>4, <2>5
<1>4. PICK m \in Nat : m = HdrLens[hdr] - hpos /\ hpos + m = HdrLens[hdr]
  <2>1. PICK h \in Nat : h = HdrLens[hdr]
    BY <1>3, HeadersFacts
  <2>2. hpos \in Nat /\ hpos < h
    BY <1>3, <2>1
  <2>3. h - hpos \in Nat /\ hpos + (h - hpos) = h
    BY <2>2
  <2> QED
    BY <2>1, <2>3
<1>5. PICK n : n = Lesser(len, m)
  OBVIOUS
<1>6. n \in 0 .. m /\ n =< len /\ n \in Nat /\ len \in Nat
  <2>1. len \in Nat
    BY <1>2, <1>3 DEF NoBytes
  <2>2. Lesser(len, m) =< len /\ Lesser(len, m) =< m /\ Lesser(len, m) \in {len, m}
    BY <2>1, LesserFacts
  <2> QED
    BY <1>5, <2>1, <2>2
<1>7. PICK w \in Written(n) :
         /\ Give(HeaderBytes, n, w)
         /\ IF w = NoBytes
              THEN pc' = "idle" /\ UNCHANGED <<hdr, hpos, len>>
              ELSE /\ len' = len - w
                   /\ IF hpos + w = HdrLens[hdr]
                        THEN hdr' = hdr + 1 /\ hpos' = 0
                        ELSE hpos' = hpos + w /\ UNCHANGED hdr
                   /\ UNCHANGED pc
  BY <1>4, <1>5 DEF SendHeader
<1>8. /\ \/ w = NoBytes /\ out' = out /\ snd' = snd
         \/ /\ w # NoBytes /\ w \in 0 .. n /\ w =< snd
            /\ out' = out \o SubSeq(HeaderBytes, 1, w) /\ snd' = snd - w
      /\ snd' \in 0 .. SndBuf /\ short' \in 0 .. MaxShort
  BY <1>3, <1>6, <1>7, GiveFacts
<1>9. CASE w = NoBytes
  BY <1>2, <1>3, <1>7, <1>8, <1>9, HeaderStep
<1>10. CASE w # NoBytes
  <2>1. w \in 0 .. m /\ w \in Nat /\ out' = out \o SubSeq(HeaderBytes, 1, w) /\ w =< len
    <3>1. w \in 0 .. n /\ out' = out \o SubSeq(HeaderBytes, 1, w)
      BY <1>8, <1>10, Zenon
    <3>2. w \in 0 .. m /\ w \in Nat /\ w =< len
      BY <1>6, <3>1
    <3> QED
      BY <3>1, <3>2
  <2>2. HeaderBytes = [i \in 1 .. m |-> <<"header", hdr, hpos + i>>]
    BY <1>4 DEF HeaderBytes
  <2>3. PICK b \in Nat : b = hpos + w
    BY <1>3, <2>1
  <2>4. /\ Joins(HeadersTo(hdr, hpos), SubSeq(HeaderBytes, 1, w), HeadersTo(hdr, b))
        /\ b = HdrLens[hdr] => HeadersTo(hdr, b) = FlattenFirst(AllHeaders, hdr)
        /\ SubSeq(HeaderBytes, 1, w) \in Seq(Byte)
    BY <1>3, <1>4, <2>1, <2>2, <2>3, HeaderSent
  <2>5. out' = HeadersTo(hdr, b)
    BY <1>3, <2>1, <2>4, Zenon DEF Joins
  <2>6. out' \in Seq(Byte)
    BY <1>3, <2>1, <2>4, ConcatProperties
  <2>7. len' \in NoBytes .. SndBuf
    <3>1. len' = len - w /\ w =< len
      BY <1>7, <1>10, <2>1
    <3> QED
      BY <1>3, <1>6, <2>1, <3>1 DEF NoBytes
  <2>8. CASE b = HdrLens[hdr]
    <3>1. hdr' = hdr + 1 /\ hpos' = 0 /\ pc' = pc
      BY <1>7, <1>10, <2>3, <2>8
    <3> QED
      BY <1>2, <1>8, <2>4, <2>5, <2>6, <2>7, <2>8, <3>1, HeaderStep
  <2>9. CASE b # HdrLens[hdr]
    <3>1. hdr' = hdr /\ hpos' = b /\ pc' = pc
      BY <1>7, <1>10, <2>3, <2>9
    <3>2. b < HdrLens[hdr]
      <4>1. hpos \in Nat /\ hpos + w # hpos + m
        BY <1>3, <1>4, <2>3, <2>9
      <4>2. hpos + w < hpos + m
        BY <2>1, <4>1
      <4> QED
        BY <1>4, <2>3, <4>2
    <3> QED
      BY <1>2, <1>8, <2>5, <2>6, <2>7, <3>1, <3>2, HeaderStep
  <2> QED
    BY <2>8, <2>9
<1> QED
  BY <1>9, <1>10
-----------------------------------------------------------------------------
(* By the steps that send an insert. *)

\* the reply up to the end of the tag, without its insert
UpToTag(p, sn, f) == Sofar(p, sn, f - 2) \o <<<<"file", f - 1>>>>

LEMMA InsertFacts ==
  ASSUME ReplyInv, tagState = "sending", tagEnd =< file
  PROVE  /\ Len(Text) \in Nat /\ file = parsed /\ tagEnd = parsed /\ parsed \in 2 .. Len(Text) + 1
         /\ parsed - 1 \in Ends(Text) /\ Pages[page].tagCheck /\ hdr > Len(HdrLens)
         /\ insert \in Seq(Byte) /\ insert = Inserted(NameOf(page, parsed - 1), seen[Len(seen)])
         /\ tagIndex \in 0 .. Len(insert)
         /\ Len(seen) = Number(page, parsed - 1)
         /\ Resolved(Text, 0, parsed)
         /\ FlattenSeq(AllHeaders) \in Seq(Byte) /\ UpToTag(page, seen, file) \in Seq(Byte)
         /\ hpos = 0
         /\ out = FlattenSeq(AllHeaders) \o (UpToTag(page, seen, file) \o SubSeq(insert, 1, tagIndex))
<1>1. TypeOK /\ SeqInv /\ ScanInv /\ HeadInv /\ PlaceInv /\ SendingInv /\ OutInv
  BY DEF ReplyInv
<1>2. tagState = "sending"
  OBVIOUS
<1>3. /\ page \in DOMAIN Pages /\ Text = Pages[page].text /\ Len(Text) \in Nat
      /\ Ends(Text) \subseteq 1 .. Len(Text)
      /\ file \in 1 .. Len(Text) + 1 /\ parsed \in 1 .. Len(Text) + 1
      /\ Pages[page].tagCheck \in BOOLEAN /\ Len(HdrLens) \in Nat /\ hdr \in 1 .. Len(HdrLens) + 1
  BY <1>1, StateFacts
<1>4. Pages[page].tagCheck /\ file =< parsed
  BY <1>1, <1>2, <1>3 DEF PlaceInv
<1>5. /\ tagEnd = parsed /\ parsed - 1 \in Ends(Text)
      /\ insert = Inserted(NameOf(page, parsed - 1), seen[Len(seen)])
      /\ tagIndex =< Len(insert)
  BY <1>1, <1>2 DEF SendingInv
<1>6. file = parsed /\ parsed \in 2 .. Len(Text) + 1
  BY <1>3, <1>4, <1>5
<1>7. hdr > Len(HdrLens)
  BY <1>1, <1>2, <1>3 DEF HeadInv
<1>8. /\ insert \in Seq(Byte) /\ tagIndex \in 0 .. Len(insert) /\ seen \in Seq(Nat)
      /\ Len(seen) = Number(page, parsed - 1)
  <2>1. insert \in Seq(Byte) /\ tagIndex \in Nat /\ seen \in Seq(Nat)
    BY <1>1 DEF SeqInv, TypeOK
  <2>2. Len(insert) \in Nat
    BY <2>1, LenProperties
  <2> QED
    BY <1>1, <1>5, <2>1, <2>2 DEF ScanInv
<1>9. Resolved(Text, 0, parsed)
  <2>1. Scanned(Text, "sending", parsed, tagIndex, tagName) /\ parsed \in Nat
    BY <1>1, <1>2, <1>6, <1>3 DEF ScanInv
  <2> QED
    BY <2>1, NoneScanned
<1>10. UpToTag(page, seen, file) \in Seq(Byte)
  <2>1. file - 2 \in 0 .. Len(Text) /\ file - 1 \in Nat
    BY <1>3, <1>6
  <2>2. Sofar(page, seen, file - 2) \in Seq(Byte)
    BY <1>3, <1>8, <2>1, SofarType
  <2>3. <<"file", file - 1>> \in Byte
    BY <2>1, ByteFacts, Zenon
  <2>4. <<<<"file", file - 1>>>> \in Seq(Byte)
    BY <2>3, OneByte
  <2>5. Sofar(page, seen, file - 2) \o <<<<"file", file - 1>>>> \in Seq(Byte)
    BY <2>2, <2>4, ConcatProperties
  <2> QED
    BY <2>5, Zenon DEF UpToTag
<1>11. /\ hpos = 0
       /\ out = FlattenSeq(AllHeaders) \o (UpToTag(page, seen, file) \o SubSeq(insert, 1, tagIndex))
  <2>1. hpos = 0 /\ out = FlattenSeq(AllHeaders) \o Body
    BY <1>1, <1>7 DEF OutInv
  <2>2. Body = UpToTag(page, seen, file) \o SubSeq(insert, 1, tagIndex)
    <3>1. tagState = "sending" /\ file = tagEnd
      BY <1>2, <1>5, <1>6
    <3> QED
      BY <3>1, Zenon DEF Body, BodyOf, UpToTag
  <2> QED
    BY <2>1, <2>2, Zenon
<1> QED
  BY <1>3, <1>4, <1>5, <1>6, <1>7, <1>8, <1>9, <1>10, <1>11, HeadersFacts

\* what else a step that sends an insert leaves as it should be
LEMMA InsertStep ==
  ASSUME ReplyInv, tagState = "sending", tagEnd =< file,
         UNCHANGED <<page, hdr, hpos, file, parsed, tagName, tagEnd, insert, closed, version, seen>>,
         tagState' \in {"none", "sending"}, NEW k \in 0 .. Len(insert), tagIndex' = k,
         pc' \in {"tail", "scan"}, len' \in NoBytes .. SndBuf, snd' \in 0 .. SndBuf,
         short' \in 0 .. MaxShort, out' \in Seq(Byte), out' = FlattenSeq(AllHeaders) \o Body'
  PROVE  ReplyInv'
<1>1. TypeOK /\ SeqInv /\ ScanInv /\ HeadInv /\ PlaceInv /\ SendingInv /\ OutInv
  BY DEF ReplyInv
<1>2. /\ file = parsed /\ tagEnd = parsed /\ Pages[page].tagCheck /\ hdr > Len(HdrLens)
      /\ parsed - 1 \in Ends(Text) /\ parsed \in 2 .. Len(Text) + 1
      /\ insert \in Seq(Byte) /\ insert = Inserted(NameOf(page, parsed - 1), seen[Len(seen)])
      /\ Len(seen) = Number(page, parsed - 1) /\ Resolved(Text, 0, parsed) /\ hpos = 0
      /\ Len(Text) \in Nat /\ tagState = "sending"
  BY InsertFacts
<1>3. Text' = Text /\ k \in Nat
  <2>1. Len(insert) \in Nat
    BY <1>2, LenProperties
  <2> QED
    BY <2>1 DEF Text
<1>4. TypeOK'
  BY <1>1, <1>3 DEF TypeOK
<1>5. SeqInv'
  BY <1>1 DEF SeqInv
<1>6. ScanInv'
  <2>1. parsed \in Nat
    BY <1>2
  <2>2. Scanned(Text, tagState', parsed, tagIndex', tagName)
    BY <1>2, <2>1, ScannedNone
  <2> QED
    BY <1>2, <1>3, <2>2 DEF ScanInv, Number
<1>7. HeadInv'
  <2>1. Len(HdrLens) \in Nat /\ hdr \in 1 .. Len(HdrLens) + 1
    BY <1>1, StateFacts
  <2>2. ~(hdr =< Len(HdrLens))
    BY <1>2, <2>1
  <2> QED
    BY <2>2 DEF HeadInv
<1>8. PlaceInv'
  BY <1>1, <1>2, <1>3 DEF PlaceInv
<1>9. SendingInv'
  <2>1. \A e \in Ends(Text) : ~(file =< e /\ e < parsed)
    <3>1. Ends(Text) \subseteq 1 .. Len(Text)
      BY <1>1, StateFacts
    <3>2. \A e \in 1 .. Len(Text) : ~(parsed =< e /\ e < parsed)
      BY <1>2
    <3>3. \A e \in Ends(Text) : ~(parsed =< e /\ e < parsed)
      BY <3>1, <3>2, Zenon
    <3> QED
      BY <1>2, <3>3, Zenon
  <2>2. k =< Len(insert) /\ ~(file < tagEnd)
    <3>1. Len(insert) \in Nat
      BY <1>2, LenProperties
    <3> QED
      BY <1>2, <3>1
  <2> QED
    BY <1>2, <1>3, <2>1, <2>2 DEF SendingInv, NameOf
<1>10. OutInv'
  BY <1>2 DEF OutInv, AllHeaders
<1> QED
  BY <1>4, <1>5, <1>6, <1>7, <1>8, <1>9, <1>10 DEF ReplyInv

LEMMA InsertSentStep ==
  ASSUME ReplyInv, InsertSent
  PROVE  ReplyInv'
<1>1. /\ pc = "scan" /\ tagState = "sending" /\ tagEnd =< file /\ tagIndex >= Len(insert)
      /\ tagIndex' = 0 /\ tagState' = "none"
      /\ UNCHANGED <<page, hdr, hpos, file, parsed, tagName, tagEnd, insert, closed, version, seen>>
      /\ UNCHANGED <<pc, len, snd, out, short>>
  BY DEF InsertSent, Scanning, ScanUnchanged
<1>2. /\ Len(Text) \in Nat /\ file = parsed /\ parsed \in 2 .. Len(Text) + 1
      /\ parsed - 1 \in Ends(Text) /\ Pages[page].tagCheck
      /\ insert \in Seq(Byte) /\ insert = Inserted(NameOf(page, parsed - 1), seen[Len(seen)])
      /\ tagIndex \in 0 .. Len(insert)
      /\ Len(seen) = Number(page, parsed - 1)
      /\ out = FlattenSeq(AllHeaders) \o (UpToTag(page, seen, file) \o SubSeq(insert, 1, tagIndex))
  BY <1>1, InsertFacts
<1>3. Len(insert) \in Nat /\ tagIndex = Len(insert) /\ 0 \in 0 .. Len(insert)
  <2>1. Len(insert) \in Nat
    BY <1>2, LenProperties
  <2> QED
    BY <1>1, <1>2, <2>1
<1>4. SubSeq(insert, 1, tagIndex) = insert
  BY <1>2, <1>3, FrontOfAll
<1>5. /\ page \in DOMAIN Pages /\ Text = Pages[page].text /\ seen \in Seq(Nat) /\ out \in Seq(Byte)
      /\ len \in NoBytes .. SndBuf /\ snd \in 0 .. SndBuf /\ short \in 0 .. MaxShort
  BY StateFacts DEF ReplyInv, TypeOK, SeqInv
<1>6. PICK e \in Ends(Text) : e = file - 1 /\ e - 1 = file - 2
  BY <1>2
<1>7. Sofar(page, seen, e) =
        (Sofar(page, seen, e - 1) \o <<<<"file", e>>>>) \o Inserted(NameOf(page, e), seen[Len(seen)])
  <2>1. Len(seen) = Number(page, e)
    BY <1>2, <1>6
  <2> QED
    BY <1>2, <1>5, <2>1, InsertDone DEF Sofar
<1>8. Body' = Sofar(page, seen, file - 1)
  BY <1>1 DEF Body, BodyOf
<1>9. UpToTag(page, seen, file) \o insert = Sofar(page, seen, file - 1)
  <2>1. insert = Inserted(NameOf(page, e), seen[Len(seen)])
    BY <1>2, <1>6
  <2> QED
    BY <1>6, <1>7, <2>1, Zenon DEF UpToTag
<1>10. out' = FlattenSeq(AllHeaders) \o Body'
  BY <1>1, <1>2, <1>4, <1>8, <1>9, Zenon
<1> QED
  BY <1>1, <1>3, <1>5, <1>10, InsertStep

LEMMA BackOf ==
  ASSUME NEW S, NEW s \in Seq(S), NEW a \in 0 .. Len(s)
  PROVE  /\ SubSeq(s, a + 1, Len(s)) \in Seq(S) /\ Len(SubSeq(s, a + 1, Len(s))) = Len(s) - a
         /\ \A i \in 1 .. Len(s) - a : SubSeq(s, a + 1, Len(s))[i] = s[a + i]
<1>1. PICK n \in Nat : n = Len(s)
  BY LenProperties
<1>2. PICK m \in Nat : m = a + 1 /\ m =< n + 1
  BY <1>1
<1>3. \A i \in m .. n : i \in 1 .. Len(s)
  BY <1>1, <1>2
<1>4. \A i \in m .. n : s[i] \in S
  BY <1>3, ElementOfSeq
<1>5. m \in Int /\ n \in Int /\ n - m + 1 = n - a /\ (IF m =< n THEN n - m + 1 ELSE 0) = n - a
  BY <1>1, <1>2
<1>6. /\ SubSeq(s, m, n) \in Seq(S)
      /\ Len(SubSeq(s, m, n)) = IF m =< n THEN n - m + 1 ELSE 0
      /\ \A i \in 1 .. n - m + 1 : SubSeq(s, m, n)[i] = s[m + i - 1]
  BY <1>4, <1>5, SubSeqProperties
<1>7. \A i \in 1 .. n - a : m + i - 1 = a + i
  BY <1>1, <1>2
<1> QED
  BY <1>1, <1>2, <1>5, <1>6, <1>7

LEMMA SendInsertStep ==
  ASSUME ReplyInv, SendInsert
  PROVE  ReplyInv'
<1>1. /\ tagEnd =< file /\ tagIndex < Len(insert)
      /\ UNCHANGED <<page, hdr, hpos, file, parsed, tagState, tagName, tagEnd, insert, closed,
                     version, seen>>
      /\ len > 0 /\ tagState = "sending"
  BY DEF SendInsert, Scanning
<1>2. /\ file = parsed /\ tagEnd = parsed /\ insert \in Seq(Byte) /\ tagIndex \in 0 .. Len(insert)
      /\ FlattenSeq(AllHeaders) \in Seq(Byte) /\ UpToTag(page, seen, file) \in Seq(Byte)
      /\ out = FlattenSeq(AllHeaders) \o (UpToTag(page, seen, file) \o SubSeq(insert, 1, tagIndex))
  BY <1>1, InsertFacts
<1>3. /\ out \in Seq(Byte) /\ snd \in 0 .. SndBuf /\ short \in 0 .. MaxShort
      /\ SndBuf \in Nat /\ len \in 0 .. SndBuf
  <2>1. len \in NoBytes .. SndBuf /\ SndBuf \in Nat
    BY StateFacts DEF ReplyInv, TypeOK
  <2>2. len \in 0 .. SndBuf
    BY <1>1, <2>1 DEF NoBytes
  <2> QED
    BY <2>1, <2>2 DEF ReplyInv, TypeOK, SeqInv
<1>4. PICK m \in Nat : m = Len(insert) - tagIndex
  <2>1. PICK n \in Nat : n = Len(insert)
    BY <1>2, LenProperties
  <2>2. tagIndex \in 0 .. n
    BY <1>2, <2>1
  <2>3. n - tagIndex \in Nat
    BY <2>2
  <2> QED
    BY <2>1, <2>3
<1>5. PICK r \in Seq(Byte) : /\ r = SubSeq(insert, tagIndex + 1, Len(insert)) /\ Len(r) = m
                             /\ \A i \in 1 .. m : r[i] = insert[tagIndex + i]
  <2> DEFINE r == SubSeq(insert, tagIndex + 1, Len(insert))
  <2>1. r \in Seq(Byte) /\ Len(r) = m /\ \A i \in 1 .. m : r[i] = insert[tagIndex + i]
    BY <1>2, <1>4, BackOf
  <2> HIDE DEF r
  <2>2. \E x \in Seq(Byte) : x = r /\ Len(x) = m /\ \A i \in 1 .. m : x[i] = insert[tagIndex + i]
    BY <2>1, Zenon
  <2> QED
    BY <2>2, Zenon DEF r
<1>6. PICK n : n = Lesser(len, m)
  OBVIOUS
<1>7. PICK w \in Written(n) : /\ Give(r, n, w) /\ len' = w
                              /\ tagIndex' = IF w = NoBytes THEN tagIndex ELSE tagIndex + w
                              /\ pc' = IF w = NoBytes THEN "tail" ELSE "scan"
  BY <1>4, <1>5, <1>6 DEF SendInsert
<1>8. n \in 0 .. m /\ n \in Nat
  <2>1. len \in Int /\ len >= 0 /\ TypeOK
    BY <1>3 DEF ReplyInv
  <2> QED
    BY <1>6, <2>1, LengthFacts
<1>9. /\ \/ w = NoBytes /\ out' = out /\ snd' = snd
         \/ /\ w # NoBytes /\ w \in 0 .. n /\ w =< snd
            /\ out' = out \o SubSeq(r, 1, w) /\ snd' = snd - w
      /\ snd' \in 0 .. SndBuf /\ short' \in 0 .. MaxShort
  BY <1>3, <1>7, <1>8, GiveFacts
<1>10. pc' \in {"tail", "scan"}
  BY <1>7
<1>11. CASE w = NoBytes
  <2>1. tagIndex' = tagIndex /\ out' = out /\ len' \in NoBytes .. SndBuf
    BY <1>3, <1>7, <1>9, <1>11 DEF NoBytes
  <2>2. out' = FlattenSeq(AllHeaders) \o Body'
    <3>1. Body' = UpToTag(page, seen, file) \o SubSeq(insert, 1, tagIndex)
      BY <1>1, <1>2, <2>1 DEF Body, BodyOf, UpToTag
    <3> QED
      BY <1>2, <2>1, <3>1, Zenon
  <2> QED
    BY <1>1, <1>2, <1>3, <1>9, <1>10, <2>1, <2>2, InsertStep
<1>12. CASE w # NoBytes
  <2>1. w \in 0 .. n /\ out' = out \o SubSeq(r, 1, w)
    BY <1>9, <1>12, Zenon
  <2>2. w \in 0 .. Len(r) /\ w \in Nat /\ len' = w /\ w =< snd /\ len' \in NoBytes .. SndBuf
    <3>1. w =< snd /\ len' = w
      BY <1>7, <1>9, <1>12, Zenon
    <3> QED
      BY <1>3, <1>5, <1>8, <2>1, <3>1 DEF NoBytes
  <2>3. PICK k \in 0 .. Len(insert) : k = tagIndex + w /\ tagIndex' = k
    <3>1. Len(insert) \in Nat /\ tagIndex' = tagIndex + w /\ Len(r) = Len(insert) - tagIndex
      BY <1>2, <1>4, <1>5, <1>7, <1>12, LenProperties
    <3> QED
      BY <1>2, <2>2, <3>1
  <2>4. PICK h \in Seq(Byte) : h = FlattenSeq(AllHeaders)
    BY <1>2, Zenon
  <2>5. PICK x \in Seq(Byte) : x = UpToTag(page, seen, file)
    BY <1>2, Zenon
  <2>6. Joins(x \o SubSeq(insert, 1, tagIndex), SubSeq(r, 1, w), x \o SubSeq(insert, 1, k))
    <3>1. Len(r) = Len(insert) - tagIndex /\ \A i \in 1 .. Len(r) : r[i] = insert[tagIndex + i]
      BY <1>4, <1>5
    <3> QED
      BY <1>2, <2>2, <2>3, <3>1, FrontGrows
  <2>7. PICK y \in Seq(Byte) : y = x \o SubSeq(insert, 1, tagIndex)
    <3>1. SubSeq(insert, 1, tagIndex) \in Seq(Byte)
      BY <1>2, FrontOf
    <3>2. x \o SubSeq(insert, 1, tagIndex) \in Seq(Byte)
      BY <3>1, ConcatProperties
    <3> QED
      BY <3>2, Zenon
  <2>8. PICK z \in Seq(Byte) : z = SubSeq(r, 1, w)
    BY <2>2, FrontOf
  <2>9. out' = h \o (x \o SubSeq(insert, 1, k))
    <3>1. h \o (y \o z) = (h \o y) \o z
      BY Regrouped, Zenon
    <3>2. y \o z = x \o SubSeq(insert, 1, k)
      BY <2>6, <2>7, <2>8, Zenon DEF Joins
    <3> QED
      BY <1>2, <2>1, <2>4, <2>5, <2>7, <2>8, <3>1, <3>2, Zenon
  <2>10. out' = FlattenSeq(AllHeaders) \o Body'
    <3>1. Body' = x \o SubSeq(insert, 1, k)
      BY <1>1, <1>2, <2>3, <2>5 DEF Body, BodyOf, UpToTag
    <3> QED
      BY <2>4, <2>9, <3>1, Zenon
  <2>11. out' \in Seq(Byte)
    BY <1>3, <2>1, <2>8, ConcatProperties
  <2> QED
    BY <1>1, <1>2, <1>9, <1>10, <2>2, <2>3, <2>10, <2>11, InsertStep
<1> QED
  BY <1>11, <1>12

-----------------------------------------------------------------------------
(* By the end of a tag. *)

\* what is sent up to here does not depend on the version read for this tag
LEMMA BodyBefore ==
  ASSUME ReplyInv, tagState # "sending", hdr > Len(HdrLens), file =< parsed, NEW v \in Nat
  PROVE  /\ out = FlattenSeq(AllHeaders) \o Sofar(page, Append(seen, v), file - 1)
         /\ Append(seen, v) \in Seq(Nat)
         /\ FlattenSeq(AllHeaders) \in Seq(Byte)
         /\ Sofar(page, Append(seen, v), file - 1) \in Seq(Byte)
<1>1. TypeOK /\ SeqInv /\ ScanInv /\ OutInv
  BY DEF ReplyInv
<1>2. /\ page \in DOMAIN Pages /\ Text = Pages[page].text /\ Len(Text) \in Nat
      /\ file \in 1 .. Len(Text) + 1 /\ parsed \in 1 .. Len(Text) + 1
  BY <1>1, StateFacts
<1>3. seen \in Seq(Nat) /\ Append(seen, v) \in Seq(Nat) /\ Len(seen) = Number(page, parsed - 1)
  <2>1. seen \in Seq(Nat) /\ Len(seen) = Number(page, parsed - 1)
    BY <1>1 DEF SeqInv, ScanInv
  <2>2. Append(seen, v) \in Seq(Nat)
    BY <2>1, AppendProperties
  <2> QED
    BY <2>1, <2>2
<1>4. PICK k \in 0 .. Len(Text) : k = file - 1
  BY <1>2
<1>5. Number(page, k) =< Len(seen)
  <2>1. parsed - 1 \in 0 .. Len(Text) /\ k \in 0 .. parsed - 1
    BY <1>2, <1>4
  <2>2. \A j \in 0 .. parsed - 1 : Number(page, j) =< Number(page, parsed - 1)
    BY <1>2, <2>1, NumberFacts
  <2> QED
    BY <1>3, <2>1, <2>2
<1>6. Sofar(page, Append(seen, v), k) = Sofar(page, seen, k)
  BY <1>2, <1>3, <1>5, PiecesAgree DEF Sofar
<1>7. Body = Sofar(page, seen, k)
  BY <1>4 DEF Body, BodyOf
<1>8. Sofar(page, Append(seen, v), k) \in Seq(Byte)
  BY <1>2, <1>3, SofarType
<1>9. out = FlattenSeq(AllHeaders) \o Body
  BY <1>1 DEF OutInv
<1> QED
  BY <1>3, <1>4, <1>6, <1>7, <1>8, <1>9, HeadersFacts, Zenon

LEMMA TagCompleteStep ==
  ASSUME ReplyInv, TagComplete
  PROVE  ReplyInv'
<1>1. TypeOK /\ SeqInv /\ ScanInv /\ HeadInv /\ PlaceInv /\ SendingInv /\ OutInv
  BY DEF ReplyInv
<1>2. /\ pc = "scan" /\ ParseLeft > 0 /\ len > 0 /\ tagState = "leadout" /\ LastOfTag
      /\ parsed' = parsed + 1 /\ insert' = Inserted(tagName, version)
      /\ seen' = Append(seen, version) /\ tagIndex' = 0 /\ tagState' = "sending"
      /\ tagEnd' = parsed + 1
      /\ UNCHANGED <<page, hdr, hpos, tagName, closed, version>>
  BY DEF TagComplete, Scanning
<1>3. /\ page \in DOMAIN Pages /\ Text = Pages[page].text /\ Len(Text) \in Nat
      /\ Ends(Text) \subseteq 1 .. Len(Text) /\ file \in 1 .. Len(Text) + 1
      /\ SndBuf \in Nat /\ MaxVersions \in Nat
  BY <1>1, StateFacts
<1>4. /\ parsed \in 1 .. Len(Text) /\ Char = Text[parsed]
      /\ Scanned(Text, "leadout", parsed, tagIndex, tagName)
      /\ tagName \in Seq(Chars) /\ Len(tagName) =< MaxTagName
      /\ tagIndex \in Nat /\ Pages[page].tagCheck /\ hdr > Len(HdrLens)
  BY <1>2, ScanningFacts
<1>5. tagIndex = 2 /\ Text[parsed] = ">"
  <2>1. tagIndex + 1 = 3 /\ Char = LeadOut[tagIndex + 1]
    BY <1>2, LeadFacts DEF LastOfTag
  <2> QED
    BY <1>4, <2>1, LeadFacts
<1>6. /\ parsed \in Ends(Text) /\ NameOf(page, parsed) = tagName
      /\ \A k, other : Scanned(Text, "sending", parsed + 1, k, other)
  BY <1>3, <1>4, <1>5, TagScanned
<1>7. file =< parsed /\ ~closed
  <2>1. file =< parsed /\ (closed => file = Len(Text) + 1)
    BY <1>1, <1>4 DEF PlaceInv
  <2> QED
    BY <1>3, <1>4, <2>1
<1>a. PICK l \in Nat : l = Len(Text) /\ file \in 1 .. l + 1 /\ parsed \in 1 .. l
  BY <1>3, <1>4
<1>8. \A e \in Ends(Text) : ~(file =< e /\ e < parsed)
  BY <1>1, <1>2 DEF SendingInv
<1>9. /\ version \in Nat /\ version \in 0 .. MaxVersions
      /\ snd \in 0 .. SndBuf /\ short \in 0 .. MaxShort /\ out \in Seq(Byte) /\ seen \in Seq(Nat)
      /\ len \in 0 .. SndBuf
  <2>1. len \in NoBytes .. SndBuf /\ version \in 0 .. MaxVersions
    BY <1>1 DEF TypeOK
  <2>2. len \in 0 .. SndBuf /\ version \in Nat
    BY <1>2, <1>3, <2>1 DEF NoBytes
  <2> QED
    BY <1>1, <2>1, <2>2 DEF TypeOK, SeqInv
<1>10. PICK m \in Nat : m = parsed + 1 - file /\ m =< Left
  <2>1. Left = Len(Text) + 1 - file
    BY DEF Left
  <2>2. parsed + 1 - file \in Nat /\ parsed + 1 - file =< l + 1 - file
    BY <1>7, <1>a
  <2> QED
    BY <1>a, <2>1, <2>2
<1>11. PICK n : n = Lesser(len, m)
  OBVIOUS
<1>12. n \in 0 .. m /\ n \in Nat /\ n \in 0 .. Left
  <2>1. len \in Int /\ len >= 0
    BY <1>9
  <2>2. n \in 0 .. m
    BY <1>1, <1>11, <2>1, LengthFacts
  <2>3. Left \in Int
    BY <1>3 DEF Left
  <2> QED
    BY <1>10, <2>2, <2>3
<1>13. PICK w \in Written(n) : /\ GiveFile(n, w) /\ len' = w
                               /\ pc' = IF w = NoBytes THEN "tail" ELSE "scan"
  BY <1>10, <1>11 DEF TagComplete
<1>14. PartGiven(n, w) /\ snd' \in 0 .. SndBuf /\ short' \in 0 .. MaxShort
  BY <1>3, <1>9, <1>12, <1>13, FileGiven
<1>15. PICK v \in 0 .. n : /\ v = w \/ (w = NoBytes /\ v = 0)
                           /\ file' = file + v /\ out' = out \o Run(file - 1, v)
                           /\ v = 0 \/ v =< snd
  BY <1>14, Zenon DEF PartGiven
<1>16. v \in Nat /\ file + v =< parsed + 1 /\ file' = file + v /\ file' \in 1 .. Len(Text) + 1
  <2>1. v \in Nat /\ v =< m
    BY <1>12
  <2>2. file + v =< parsed + 1
    BY <1>a, <1>10, <2>1
  <2>3. file + v \in 1 .. l + 1
    BY <1>a, <2>1, <2>2
  <2>4. file' = file + v
    BY <1>15
  <2> QED
    BY <1>a, <2>1, <2>2, <2>3, <2>4
<1>17. len' \in NoBytes .. SndBuf
  <2>1. v \in 0 .. SndBuf
    <3>1. v = 0 \/ v =< snd
      BY <1>15
    <3> QED
      BY <1>3, <1>9, <1>16, <3>1
  <2>2. w \in NoBytes .. SndBuf
    BY <1>3, <1>15, <2>1 DEF NoBytes
  <2> QED
    BY <1>13, <2>2
<1>18. insert' \in Seq(Byte) /\ Len(insert') \in Nat
  <2>1. insert' \in Seq(Byte)
    BY <1>2, <1>4, <1>9, InsertedType
  <2> QED
    BY <2>1, LenProperties
<1>19. seen' \in Seq(Nat) /\ Len(seen') = Len(seen) + 1 /\ seen'[Len(seen')] = version
  BY <1>2, <1>9, AppendProperties
<1>20. /\ out = FlattenSeq(AllHeaders) \o Sofar(page, seen', file - 1)
       /\ FlattenSeq(AllHeaders) \in Seq(Byte) /\ Sofar(page, seen', file - 1) \in Seq(Byte)
  <2>1. tagState # "sending"
    BY <1>2
  <2> QED
    BY <1>2, <1>4, <1>7, <1>9, <2>1, BodyBefore
<1>21. out' = FlattenSeq(AllHeaders) \o Body'
  <2>1. Body' = BodyOf(page, seen', file + v, "sending", parsed + 1, insert', 0)
    BY <1>2, <1>16, Zenon DEF Body
  <2>2. BodyOf(page, seen', file, "sending", parsed + 1, insert', 0) = Sofar(page, seen', file - 1)
    <3>1. file # parsed + 1
      BY <1>3, <1>4, <1>7
    <3> QED
      BY <3>1, Zenon DEF BodyOf
  <2>3. PICK h \in Seq(Byte) : h = FlattenSeq(AllHeaders)
    BY <1>20, Zenon
  <2>4. PICK x \in Seq(Byte) : x = Sofar(page, seen', file - 1)
    BY <1>20, Zenon
  <2>5. CASE v = 0
    <3>1. file + v = file
      BY <1>3, <2>5
    <3>2. Run(file - 1, v) = <<>>
      <4>1. Run(file - 1, 0) = <<>>
        BY DEF Run
      <4> QED
        BY <2>5, <4>1
    <3>3. out \o <<>> = out
      BY <1>9, ConcatEmptySeq
    <3> QED
      BY <1>15, <1>20, <2>1, <2>2, <3>1, <3>2, <3>3, Zenon
  <2>6. CASE v # 0
    <3>1. SendingAt(page, file, parsed + 1, "sending", parsed + 1, 0)
      <4>1. \A e \in Ends(Text) : file =< e /\ e < parsed + 1 => e = (parsed + 1) - 1
        <5>1. ASSUME NEW e \in Ends(Text), file =< e, e < parsed + 1  PROVE e = (parsed + 1) - 1
          <6>1. e \in 1 .. l
            BY <1>3, <1>a, Zenon
          <6>2. ~(e < parsed)
            BY <1>8, <5>1
          <6> QED
            BY <1>a, <5>1, <6>1, <6>2
        <5> QED
          BY <5>1, Zenon
      <4> QED
        BY <1>3, <1>4, <4>1 DEF SendingAt
    <3>2. PICK q \in 1 .. Len(Pages[page].text) + 1 : q = parsed + 1
      BY <1>3, <1>4
    <3>3. PICK g \in Nat : g = file + v /\ g =< Len(Pages[page].text) + 1 /\ g =< q
      <4>1. file + v \in Nat /\ file + v =< l + 1 /\ file + v =< parsed + 1
        BY <1>a, <1>16
      <4> QED
        BY <1>3, <1>a, <3>2, <4>1
    <3>4. v \in Nat \ {0} /\ file \in 1 .. Len(Pages[page].text) + 1 /\ 0 \in Nat
      BY <1>3, <1>16, <2>6
    <3>5. Joins(x, Run(file - 1, v), BodyOf(page, seen', file + v, "sending", parsed + 1, insert', 0))
      <4>1. SendingAt(page, file, q, "sending", parsed + 1, 0)
        BY <3>1, <3>2
      <4>2. Joins(BodyOf(page, seen', file, "sending", parsed + 1, insert', 0), Run(file - 1, v),
                  BodyOf(page, seen', g, "sending", parsed + 1, insert', 0))
        BY <1>3, <1>19, <3>3, <3>4, <4>1, BodyRun
      <4> QED
        BY <2>2, <2>4, <3>3, <4>2, Zenon
    <3>6. Run(file - 1, v) \in Seq(Byte)
      <4>1. file - 1 \in Nat
        BY <1>3
      <4> QED
        BY <1>16, <4>1, RunType
    <3>7. h \o (x \o Run(file - 1, v)) = (h \o x) \o Run(file - 1, v)
      BY <3>6, Regrouped, Zenon
    <3> QED
      BY <1>15, <1>20, <2>1, <2>3, <2>4, <3>5, <3>7, Zenon DEF Joins
  <2> QED
    BY <2>5, <2>6
<1>22. out' \in Seq(Byte)
  <2>1. file - 1 \in Nat
    BY <1>3
  <2>2. Run(file - 1, v) \in Seq(Byte)
    BY <1>16, <2>1, RunType
  <2> QED
    BY <1>9, <1>15, <2>2, ConcatProperties
<1>23. Text' = Text
  BY <1>2 DEF Text
<1>24. TypeOK'
  <2>1. parsed' \in 1 .. Len(Text) + 1 /\ tagEnd' \in 0 .. Len(Text) + 1 /\ tagIndex' \in Nat
    <3>1. parsed + 1 \in 1 .. l + 1 /\ parsed + 1 \in 0 .. l + 1
      BY <1>a
    <3> QED
      BY <1>2, <1>a, <3>1
  <2>2. pc' \in {"tail", "scan"}
    BY <1>13
  <2> QED
    BY <1>1, <1>2, <1>14, <1>16, <1>17, <1>23, <2>1, <2>2 DEF TypeOK
<1>25. SeqInv'
  BY <1>2, <1>4, <1>18, <1>19, <1>22 DEF SeqInv
<1>26. ScanInv'
  <2>1. Scanned(Text, "sending", parsed + 1, 0, tagName)
    BY <1>6
  <2>2. Len(seen) + 1 = Number(page, parsed)
    <3>1. parsed \in 0 .. Len(Text) /\ parsed # 0
      BY <1>3, <1>4
    <3>2. Number(page, parsed) = Number(page, parsed - 1) + 1
      BY <1>3, <1>6, <3>1, NumberFacts
    <3> QED
      BY <1>1, <3>2 DEF ScanInv
  <2>3. parsed' - 1 = parsed
    BY <1>2, <1>4
  <2> QED
    BY <1>2, <1>19, <1>23, <2>1, <2>2, <2>3 DEF ScanInv, Number
<1>27. HeadInv'
  <2>1. Len(HdrLens) \in Nat /\ hdr \in 1 .. Len(HdrLens) + 1
    BY <1>1, StateFacts
  <2>2. ~(hdr =< Len(HdrLens))
    BY <1>4, <2>1
  <2> QED
    BY <1>2, <2>2 DEF HeadInv
<1>28. PlaceInv'
  <2>1. file' =< parsed'
    BY <1>2, <1>16
  <2> QED
    BY <1>2, <1>4, <1>7, <1>23, <2>1 DEF PlaceInv
<1>29. SendingInv'
  <2>1. \A e \in Ends(Text) : file' =< e /\ e < parsed' => e = parsed' - 1
    <3> SUFFICES ASSUME NEW e \in Ends(Text), file' =< e, e < parsed'
                 PROVE  e = parsed' - 1
      OBVIOUS
    <3>1. e \in 1 .. Len(Text)
      BY <1>3, Zenon
    <3>2. file =< e
      BY <1>3, <1>16, <3>1
    <3>3. ~(e < parsed)
      BY <1>8, <3>2
    <3> QED
      BY <1>2, <1>4, <3>1, <3>3
  <2>2. parsed' - 1 = parsed
    BY <1>2, <1>4
  <2>3. insert' = Inserted(NameOf(page, parsed), seen'[Len(seen')])
    BY <1>2, <1>6, <1>19
  <2>4. tagEnd' = parsed' /\ tagIndex' = 0 /\ 0 =< Len(insert') /\ tagState' = "sending" /\ page' = page
    BY <1>2, <1>18
  <2>5. parsed' - 1 \in Ends(Text) /\ insert' = Inserted(NameOf(page, parsed' - 1), seen'[Len(seen')])
    BY <1>6, <2>2, <2>3, Zenon
  <2> QED
    BY <1>23, <2>1, <2>4, <2>5, Zenon DEF SendingInv, NameOf
<1>30. OutInv'
  <2>1. hpos = 0
    BY <1>1, <1>4 DEF OutInv
  <2> QED
    BY <1>2, <1>21, <2>1 DEF OutInv, AllHeaders
<1> QED
  BY <1>24, <1>25, <1>26, <1>27, <1>28, <1>29, <1>30 DEF ReplyInv

-----------------------------------------------------------------------------
(* The invariant holds in every state. *)

LEMMA InitHolds ==
  ASSUME Init
  PROVE  ReplyInv
<1>1. /\ page \in DOMAIN Pages /\ hdr = 1 /\ hpos = 0 /\ file = 1 /\ parsed = 1
      /\ tagState = "none" /\ tagIndex = 0 /\ tagName = <<>> /\ tagEnd = 0 /\ insert = <<>>
      /\ pc = "idle" /\ len = 0 /\ snd = SndBuf /\ out = <<>> /\ closed = FALSE
      /\ version = 0 /\ seen = <<>> /\ short = 0
  BY DEF Init
<1>2. Len(Text) \in Nat /\ Text = Pages[page].text
  BY <1>1, TextFacts DEF Text
<1>3. /\ Len(HdrLens) \in Nat /\ SndBuf \in Nat /\ MaxTagName \in Nat /\ MaxVersions \in Nat
      /\ MaxShort \in Nat
  BY HeadersFacts, SsiConstants
<1>4. /\ <<>> \in Seq(Chars) /\ <<>> \in Seq(Byte) /\ <<>> \in Seq(Nat) /\ Len(<<>>) = 0
      /\ \A s \in Seq(Byte) : s \o <<>> = s
  BY ConcatEmptySeq
<1>5. TypeOK
  <2>1. hdr \in 1 .. Len(HdrLens) + 1 /\ hpos \in Nat
    BY <1>1, <1>3
  <2>2. file \in 1 .. Len(Text) + 1 /\ parsed \in 1 .. Len(Text) + 1 /\ tagEnd \in 0 .. Len(Text) + 1
    BY <1>1, <1>2
  <2>3. len \in NoBytes .. SndBuf /\ snd \in 0 .. SndBuf /\ version \in 0 .. MaxVersions
        /\ short \in 0 .. MaxShort /\ tagIndex \in Nat
    BY <1>1, <1>3 DEF NoBytes
  <2>4. Len(tagName) =< MaxTagName
    BY <1>1, <1>3, <1>4
  <2> QED
    BY <1>1, <2>1, <2>2, <2>3, <2>4 DEF TypeOK
<1>6. SeqInv
  BY <1>1, <1>4 DEF SeqInv
<1>7. ScanInv
  <2>1. Resolved(Text, 0, 1)
    BY <1>2 DEF Resolved
  <2>2. Scanned(Text, "none", 1, 0, <<>>)
    BY <2>1, ScannedNone
  <2>3. 0 \in 0 .. Len(Text) /\ parsed - 1 = 0
    BY <1>1, <1>2
  <2>4. Number(page, 0) = 0
    BY <1>1, <1>2, <2>3, NumberFacts
  <2> QED
    BY <1>1, <1>4, <2>2, <2>3, <2>4 DEF ScanInv
<1>8. HeadInv
  <2> SUFFICES ASSUME hdr =< Len(HdrLens)
               PROVE  /\ hpos < HdrLens[hdr]
                      /\ out = FlattenFirst(AllHeaders, hdr - 1) \o SubSeq(AllHeaders[hdr], 1, hpos)
    BY <1>1 DEF HeadInv
  <2>1. 1 \in 1 .. Len(HdrLens) /\ hdr - 1 = 0
    BY <1>1, <1>3
  <2>2. HdrLens[1] \in Nat \ {0}
    BY <2>1, HeadersFacts
  <2>3. FlattenFirst(AllHeaders, hdr - 1) = <<>> /\ SubSeq(AllHeaders[hdr], 1, hpos) = <<>>
    BY <1>1, <2>1, FirstNone, SubSeqEmpty
  <2> QED
    BY <1>1, <1>4, <2>2, <2>3
<1>9. PlaceInv
  BY <1>1 DEF PlaceInv
<1>10. SendingInv
  <2>1. Ends(Text) \subseteq 1 .. Len(Text)
    BY DEF Ends
  <2>2. \A e \in 1 .. Len(Text) : ~(e < 1)
    BY <1>2
  <2> QED
    BY <1>1, <2>1, <2>2 DEF SendingInv
<1>11. OutInv
  <2> SUFFICES ASSUME hdr > Len(HdrLens)
               PROVE  out = FlattenSeq(AllHeaders) \o Body
    BY <1>1 DEF OutInv
  <2>1. Len(HdrLens) = 0
    BY <1>1, <1>3
  <2>2. FlattenSeq(AllHeaders) = <<>>
    <3>1. FlattenFirst(AllHeaders, 0) = FlattenSeq(AllHeaders)
      BY <2>1, HeadersFacts, FirstAll
    <3> QED
      BY <3>1, FirstNone
  <2>3. Body = <<>>
    <3>1. file - 1 = 0 /\ ~(tagState = "sending" /\ file = tagEnd)
      BY <1>1
    <3>2. Body = Sofar(page, seen, 0)
      BY <3>1, Zenon DEF Body, BodyOf
    <3> QED
      BY <3>2, FirstNone DEF Sofar
  <2> QED
    BY <1>1, <1>4, <2>2, <2>3
<1> QED
  BY <1>5, <1>6, <1>7, <1>8, <1>9, <1>10, <1>11 DEF ReplyInv

LEMMA NextStep ==
  ASSUME ReplyInv, [Next]_vars
  PROVE  ReplyInv'
<1>1. CASE Poll \/ Acknowledge \/ OtherHandler \/ UNCHANGED vars
  BY <1>1, QuietSteps DEF Acknowledge
<1>2. CASE HeadersEnd \/ NothingToSend \/ ParseOn \/ ScanEnd \/ End
  BY <1>2, QuietSteps
<1>3. CASE SendHeader
  BY <1>3, SendHeaderStep
<1>4. CASE SendPlain \/ SendParsed \/ SendUpToTag \/ SendRest
  BY <1>4, FileSteps
<1>5. CASE ScanText
  BY <1>5, ScanTextStep
<1>6. CASE ScanLeadIn
  BY <1>6, ScanLeadInStep
<1>7. CASE ScanName
  BY <1>7, ScanNameStep
<1>8. CASE ScanLeadOut
  BY <1>8, ScanLeadOutStep
<1>9. CASE TagComplete
  BY <1>9, TagCompleteStep
<1>10. CASE SendInsert
  BY <1>10, SendInsertStep
<1>11. CASE InsertSent
  BY <1>11, InsertSentStep
<1> QED
  BY <1>1, <1>2, <1>3, <1>4, <1>5, <1>6, <1>7, <1>8, <1>9, <1>10, <1>11 DEF Next, SendData

(* Wherever a call of http_send_data was interrupted, hs->tag_state and    *)
(* hs->tag_index say which tag of the text is being read, no tag before    *)
(* hs->parsed was missed, and what was sent is the concatenation of the    *)
(* pieces up to hs->file.                                                  *)
THEOREM ScannerAndOutputAgree == Spec => []ReplyInv
<1>1. Init => ReplyInv
  BY InitHolds
<1>2. ReplyInv /\ [Next]_vars => ReplyInv'
  BY NextStep
<1> QED
  BY <1>1, <1>2, PTL DEF Spec

(* The offsets into the file, the name of a tag (which never exceeds       *)
(* LWIP_HTTPD_MAX_TAG_NAME_LEN) and what is left of the send buffer stay   *)
(* within their bounds in every state of a reply.                          *)
THEOREM TypeCorrect == Spec => []TypeOK
<1>1. ReplyInv => TypeOK
  BY DEF ReplyInv
<1> QED
  BY <1>1, ScannerAndOutputAgree, PTL

-----------------------------------------------------------------------------
(* What was sent is the beginning of the reply. *)

LEMMA ContinuesOn ==
  ASSUME NEW x \in Seq(Byte), NEW y, NEW z, Continues(Byte, x, y), Continues(Byte, y, z)
  PROVE  Continues(Byte, x, z)
<1>1. PICK s \in Seq(Byte) : y = x \o s
  BY Zenon DEF Continues
<1>2. PICK r \in Seq(Byte) : z = y \o r
  BY Zenon DEF Continues
<1>3. s \o r \in Seq(Byte)
  BY ConcatProperties
<1>4. x \o (s \o r) = (x \o s) \o r
  BY Regrouped, Zenon
<1> QED
  BY <1>1, <1>2, <1>3, <1>4, Zenon DEF Continues

LEMMA ContinuesBehind ==
  ASSUME NEW h \in Seq(Byte), NEW x \in Seq(Byte), NEW y, Continues(Byte, x, y)
  PROVE  Continues(Byte, h \o x, h \o y)
<1>1. PICK s \in Seq(Byte) : y = x \o s
  BY Zenon DEF Continues
<1>2. h \o (x \o s) = (h \o x) \o s
  BY Regrouped, Zenon
<1> QED
  BY <1>1, <1>2, Zenon DEF Continues

LEMMA ContinuesIsPrefix ==
  ASSUME NEW x \in Seq(Byte), NEW y, Continues(Byte, x, y)
  PROVE  IsPrefix(x, y)
<1>1. PICK s \in Seq(Byte) : y = x \o s
  BY Zenon DEF Continues
<1>2. /\ x \o s \in Seq(Byte) /\ Len(x \o s) = Len(x) + Len(s)
      /\ \A i \in 1 .. Len(x) + Len(s) : (x \o s)[i] = IF i =< Len(x) THEN x[i] ELSE s[i - Len(x)]
  BY ConcatProperties
<1>3. PICK n \in Nat : n = Len(x)
  BY LenProperties
<1>4. PICK m \in Nat : m = Len(s)
  BY LenProperties
<1>5. PICK z \in Seq(Byte) : z = y /\ Len(z) = n + m /\ \A i \in 1 .. n : z[i] = x[i]
  <2>1. \A i \in 1 .. n : i \in 1 .. n + m /\ i =< n
    OBVIOUS
  <2> QED
    BY <1>1, <1>2, <1>3, <1>4, <2>1
<1>6. n \in 0 .. Len(z) /\ n \in 0 .. Len(x) /\ n =< Len(z)
  BY <1>3, <1>5
<1>7. PICK u \in Seq(Byte) : u = SubSeq(z, 1, n) /\ FirstPart(u, z, n)
  BY <1>6, FrontIs
<1>8. Len(u) = Len(x) /\ \A i \in 1 .. Len(u) : u[i] = x[i]
  BY <1>3, <1>5, <1>7 DEF FirstPart
<1>9. u = x
  BY <1>8, SeqEqual
<1>10. SubSeq(x, 1, n) = x
  BY <1>3, FrontOfAll
<1> QED
  BY <1>3, <1>5, <1>6, <1>7, <1>9, <1>10 DEF IsPrefix

LEMMA ReplyIs ==
  ASSUME TypeOK
  PROVE  Reply = FlattenSeq(AllHeaders) \o Sofar(page, seen, Len(Text))
<1>1. page \in DOMAIN Pages /\ Text = Pages[page].text /\ Text \in Seq(Chars) /\ Len(Text) \in Nat
  BY StateFacts DEF IsFile
<1>2. DOMAIN Text = 1 .. Len(Text)
  BY <1>1, LenProperties
<1>3. \A i : TagNumber(i) = Number(page, i)
  BY DEF TagNumber, Number
<1>4. \A i : NameAt(i) = NameOf(page, i)
  BY DEF NameAt, NameOf, Text
<1>5. \A i : Piece(i) = PieceOf(page, seen, i)
  BY <1>3, <1>4, Zenon DEF Piece, PieceOf
<1>6. [i \in DOMAIN Text |-> Piece(i)] = [i \in 1 .. Len(Text) |-> PieceOf(page, seen, i)]
  BY <1>2, <1>5, Zenon
<1>7. PiecesOf(page, seen) = [i \in 1 .. Len(Text) |-> PieceOf(page, seen, i)]
  BY <1>1, Zenon DEF PiecesOf
<1>8. \A i \in 1 .. Len(Text) : PiecesOf(page, seen)[i] = PieceOf(page, seen, i)
  BY <1>7, Zenon
<1>9. [i \in 1 .. Len(Text) |-> PiecesOf(page, seen)[i]] = [i \in 1 .. Len(Text) |-> PieceOf(page, seen, i)]
  BY <1>8, Zenon
<1> QED
  BY <1>6, <1>9, Zenon DEF Reply, Sofar, FlattenFirst

\* while the headers are sent
LEMMA HeadersAreFront ==
  ASSUME ReplyInv, hdr =< Len(HdrLens)
  PROVE  Continues(Byte, out, FlattenSeq(AllHeaders))
<1>1. TypeOK /\ HeadInv /\ SeqInv
  BY DEF ReplyInv
<1>2. PICK n \in Nat : n = Len(HdrLens) /\ hdr \in 1 .. n
  BY <1>1, StateFacts
<1>3. hpos < HdrLens[hdr] /\ out = HeadersTo(hdr, hpos) /\ hpos \in Nat /\ out \in Seq(Byte)
  BY <1>1 DEF HeadInv, HeadersTo, TypeOK, SeqInv
<1>4. PICK m \in Nat : hpos + m = HdrLens[hdr]
  <2>1. PICK b \in Nat : b = HdrLens[hdr]
    BY <1>2, HeadersFacts
  <2>2. hpos \in Nat /\ hpos < b
    BY <1>3, <2>1
  <2>3. b - hpos \in Nat /\ hpos + (b - hpos) = b
    BY <2>2
  <2> QED
    BY <2>1, <2>3
<1>5. PICK G \in [1 .. n -> Seq(Byte)] : G = AllHeaders
  BY <1>2, HeadersFacts, Zenon
<1>6. Continues(Byte, out, FlattenFirst(G, hdr))
  <2> DEFINE r == [i \in 1 .. m |-> <<"header", hdr, hpos + i>>]
  <2>1. PICK b : b = hpos + m
    OBVIOUS
  <2>2. m \in 0 .. m
    OBVIOUS
  <2>3. /\ Joins(HeadersTo(hdr, hpos), SubSeq(r, 1, m), HeadersTo(hdr, b))
        /\ b = HdrLens[hdr] => HeadersTo(hdr, b) = FlattenFirst(AllHeaders, hdr)
        /\ SubSeq(r, 1, m) \in Seq(Byte)
    BY <1>2, <1>3, <1>4, <2>1, <2>2, HeaderSent
  <2> HIDE DEF r
  <2>4. FlattenFirst(G, hdr) = out \o SubSeq(r, 1, m)
    BY <1>3, <1>4, <1>5, <2>1, <2>3, Zenon DEF Joins
  <2> QED
    BY <2>3, <2>4, Zenon DEF Continues
<1>7. Continues(Byte, FlattenFirst(G, hdr), FlattenFirst(G, n))
  <2>1. hdr \in 0 .. n /\ n \in hdr .. n
    BY <1>2
  <2> QED
    BY <2>1, FirstContinues
<1>8. FlattenFirst(G, n) = FlattenSeq(G)
  BY FirstAll
<1> QED
  BY <1>3, <1>5, <1>6, <1>7, <1>8, ContinuesOn

\* while the file is sent
LEMMA BodyIsFront ==
  ASSUME ReplyInv, hdr > Len(HdrLens)
  PROVE  /\ Body \in Seq(Byte)
         /\ Continues(Byte, Body, Sofar(page, seen, Len(Text)))
         /\ file = Len(Text) + 1 => Body = Sofar(page, seen, Len(Text))
<1>1. TypeOK /\ SeqInv /\ SendingInv /\ PlaceInv
  BY DEF ReplyInv
<1>2. /\ page \in DOMAIN Pages /\ Text = Pages[page].text /\ Len(Text) \in Nat
      /\ file \in 1 .. Len(Text) + 1 /\ Len(Text) \notin Ends(Text)
  BY <1>1, StateFacts
<1>3. seen \in Seq(Nat)
  BY <1>1 DEF SeqInv
<1>4. PICK n \in Nat : n = Len(Text)
  BY <1>2
<1>5. PICK k \in 0 .. n : k = file - 1 /\ n \in k .. n /\ (file = Len(Text) + 1 => k = n)
  BY <1>2, <1>4
<1>6. PICK P \in [1 .. n -> Seq(Byte)] : P = PiecesOf(page, seen)
  BY <1>2, <1>3, <1>4, PiecesType
<1>7. /\ Sofar(page, seen, k) \in Seq(Byte)
      /\ Continues(Byte, Sofar(page, seen, k), Sofar(page, seen, n))
  BY <1>5, <1>6, FirstType, FirstContinues DEF Sofar
<1>8. CASE ~(tagState = "sending" /\ file = tagEnd)
  <2>1. Body = Sofar(page, seen, k)
    BY <1>5, <1>8, Zenon DEF Body, BodyOf
  <2> QED
    BY <1>4, <1>5, <1>7, <2>1
<1>9. CASE tagState = "sending" /\ file = tagEnd
  <2>1. tagEnd =< file
    BY <1>2, <1>9
  <2>2. /\ file = parsed /\ parsed - 1 \in Ends(Text) /\ Pages[page].tagCheck
        /\ insert \in Seq(Byte) /\ insert = Inserted(NameOf(page, parsed - 1), seen[Len(seen)])
        /\ tagIndex \in 0 .. Len(insert) /\ Len(seen) = Number(page, parsed - 1)
        /\ UpToTag(page, seen, file) \in Seq(Byte)
    BY <1>9, <2>1, InsertFacts
  <2>3. file # Len(Text) + 1
    <3> SUFFICES ASSUME file = Len(Text) + 1  PROVE FALSE
      OBVIOUS
    <3>1. parsed - 1 = Len(Text)
      BY <1>2, <2>2
    <3> QED
      BY <1>2, <2>2, <3>1
  <2>4. PICK e \in Ends(Text) : e = k /\ e - 1 = file - 2 /\ e = file - 1 /\ e = parsed - 1
    <3>1. file - 1 - 1 = file - 2
      BY <1>2
    <3> QED
      BY <1>5, <2>2, <3>1
  <2>5. Sofar(page, seen, e) =
          (Sofar(page, seen, e - 1) \o <<<<"file", e>>>>) \o Inserted(NameOf(page, e), seen[Len(seen)])
    <3>1. Len(seen) = Number(page, e)
      BY <2>2, <2>4
    <3> QED
      BY <1>2, <1>3, <2>2, <3>1, InsertDone DEF Sofar
  <2>6. PICK x \in Seq(Byte) : x = UpToTag(page, seen, file)
    BY <2>2, Zenon
  <2>7. Sofar(page, seen, k) = x \o insert
    <3>1. insert = Inserted(NameOf(page, e), seen[Len(seen)])
      BY <2>2, <2>4
    <3> QED
      BY <2>4, <2>5, <2>6, <3>1, Zenon DEF UpToTag
  <2>8. PICK u \in Seq(Byte) : u = SubSeq(insert, 1, tagIndex)
    BY <2>2, FrontOf
  <2>9. Continues(Byte, u, insert)
    <3>1. PICK r \in Seq(Byte) : /\ Len(r) = Len(insert) - tagIndex
                                 /\ \A i \in 1 .. Len(r) : r[i] = insert[tagIndex + i]
      <4>1. /\ SubSeq(insert, tagIndex + 1, Len(insert)) \in Seq(Byte)
            /\ Len(SubSeq(insert, tagIndex + 1, Len(insert))) = Len(insert) - tagIndex
            /\ \A i \in 1 .. Len(insert) - tagIndex :
                 SubSeq(insert, tagIndex + 1, Len(insert))[i] = insert[tagIndex + i]
        BY <2>2, BackOf
      <4> QED
        BY <4>1
    <3>2. Len(r) \in Nat /\ Len(r) \in 0 .. Len(r) /\ tagIndex + Len(r) = Len(insert)
      <4>1. PICK i \in Nat : i = Len(insert)
        BY <2>2, LenProperties
      <4>2. PICK j \in Nat : j = Len(r)
        BY LenProperties
      <4>3. tagIndex \in 0 .. i /\ j = i - tagIndex
        BY <2>2, <3>1, <4>1, <4>2
      <4>4. j \in 0 .. j /\ tagIndex + j = i
        BY <4>3
      <4> QED
        BY <4>1, <4>2, <4>4
    <3>3. Joins(SubSeq(insert, 1, tagIndex), SubSeq(r, 1, Len(r)), SubSeq(insert, 1, tagIndex + Len(r)))
      BY <2>2, <3>1, <3>2, CutOn
    <3>4. SubSeq(r, 1, Len(r)) = r /\ SubSeq(insert, 1, Len(insert)) = insert
      BY <2>2, FrontOfAll
    <3>5. u \o r = insert
      BY <2>8, <3>2, <3>3, <3>4, Zenon DEF Joins
    <3> QED
      BY <3>5, Zenon DEF Continues
  <2>10. Continues(Byte, x \o u, x \o insert)
    BY <2>9, ContinuesBehind
  <2>11. Body = x \o u
    BY <1>9, <2>6, <2>8, Zenon DEF Body, BodyOf, UpToTag
  <2>12. x \o u \in Seq(Byte)
    BY ConcatProperties
  <2> QED
    BY <1>4, <1>7, <2>3, <2>7, <2>10, <2>11, <2>12, ContinuesOn
<1> QED
  BY <1>8, <1>9

LEMMA SentIs ==
  ASSUME ReplyInv
  PROVE  SentIsReply
<1>1. TypeOK /\ SeqInv /\ HeadInv /\ PlaceInv /\ OutInv
  BY DEF ReplyInv
<1>2. Reply = FlattenSeq(AllHeaders) \o Sofar(page, seen, Len(Text))
  BY <1>1, ReplyIs
<1>3. PICK h \in Seq(Byte) : h = FlattenSeq(AllHeaders)
  BY HeadersFacts, Zenon
<1>4. out \in Seq(Byte)
  BY <1>1 DEF SeqInv
<1>5. PICK b \in Seq(Byte) : b = Sofar(page, seen, Len(Text))
  <2>1. /\ page \in DOMAIN Pages /\ Text = Pages[page].text /\ Len(Text) \in 0 .. Len(Text)
        /\ seen \in Seq(Nat)
    BY <1>1, StateFacts DEF SeqInv
  <2> QED
    BY <2>1, SofarType
<1>6. CASE hdr =< Len(HdrLens)
  <2>1. ~closed
    BY <1>1, <1>6 DEF HeadInv
  <2>2. Continues(Byte, out, h)
    BY <1>3, <1>6, HeadersAreFront
  <2>3. Continues(Byte, out, h \o b)
    BY <1>4, <2>2, ContinuesFurther
  <2> QED
    BY <1>2, <1>3, <1>4, <1>5, <2>1, <2>3, ContinuesIsPrefix DEF SentIsReply
<1>7. CASE ~(hdr =< Len(HdrLens))
  <2>1. hdr > Len(HdrLens)
    <3>1. Len(HdrLens) \in Nat /\ hdr \in 1 .. Len(HdrLens) + 1
      BY <1>1, StateFacts
    <3> QED
      BY <1>7, <3>1
  <2>2. out = h \o Body
    BY <1>1, <1>3, <2>1 DEF OutInv
  <2>3. /\ Body \in Seq(Byte) /\ Continues(Byte, Body, b)
        /\ file = Len(Text) + 1 => Body = b
    BY <1>5, <2>1, BodyIsFront
  <2>4. Continues(Byte, out, h \o b)
    BY <2>2, <2>3, ContinuesBehind
  <2>5. IsPrefix(out, Reply)
    BY <1>2, <1>3, <1>4, <1>5, <2>4, ContinuesIsPrefix
  <2>6. closed => out = Reply
    <3> SUFFICES ASSUME closed  PROVE out = Reply
      OBVIOUS
    <3>1. file = Len(Text) + 1
      BY <1>1 DEF PlaceInv
    <3> QED
      BY <1>2, <1>3, <1>5, <2>2, <2>3, <3>1, Zenon
  <2> QED
    BY <2>5, <2>6 DEF SentIsReply
<1> QED
  BY <1>6, <1>7

(* However the send buffer, the memory and the calls cut a reply up, what  *)
(* http_send_data gave to tcp_write is the beginning of the reply a client *)
(* should get, and the connection is closed only when it is complete: for  *)
(* every file, every set of tag handlers and every size of the buffers.    *)
THEOREM RepliesSent == Spec => []SentIsReply
<1>1. ReplyInv => SentIsReply
  BY SentIs
<1> QED
  BY <1>1, ScannerAndOutputAgree, PTL
=============================================================================
