-------------------------- MODULE PortDialogProofs --------------------------
(***************************************************************************)
(* Proofs about PortDialog, for any chassis, any settings and any dialog.  *)
(*                                                                         *)
(* The text that a page reads has each port of a table at a line of its    *)
(* own (TextLaid, ReadLaysOut), a line that the script counts is one of    *)
(* those (LineTaken), so that the dialog names the port that was clicked   *)
(* and shows what it has (OpenedRow).  The CGI handlers then change the    *)
(* bits of what was selected and no others (WrittenShowsSelected).         *)
(***************************************************************************)
EXTENDS PortDialog, SequenceTheorems, FiniteSetTheorems, TLAPS

-----------------------------------------------------------------------------
(* The bits of a word. *)

Bit(w, j) == Bits(w, j, 1)

\* all bits of a word that a setting may have
BitsOf(w) == [j \in 0 .. 15 |-> Bit(w, j)]
SetBit(b, i, v) == [b EXCEPT ![i] = v]

\* four bits of x are given by b, from the k-th on
HasBits(x, b, k) == /\ Bit(x, k) = b[k] /\ Bit(x, k + 1) = b[k + 1]
                    /\ Bit(x, k + 2) = b[k + 2] /\ Bit(x, k + 3) = b[k + 3]

LEMMA HasAllBits ==
  ASSUME NEW x, NEW b, HasBits(x, b, 0), HasBits(x, b, 4), HasBits(x, b, 8), HasBits(x, b, 12),
         b = [j \in 0 .. 15 |-> b[j]]
  PROVE  BitsOf(x) = b
<1>1. /\ Bit(x, 0) = b[0] /\ Bit(x, 1) = b[1] /\ Bit(x, 2) = b[2] /\ Bit(x, 3) = b[3]
      /\ Bit(x, 4) = b[4] /\ Bit(x, 5) = b[5] /\ Bit(x, 6) = b[6] /\ Bit(x, 7) = b[7]
      /\ Bit(x, 8) = b[8] /\ Bit(x, 9) = b[9] /\ Bit(x, 10) = b[10] /\ Bit(x, 11) = b[11]
      /\ Bit(x, 12) = b[12] /\ Bit(x, 13) = b[13] /\ Bit(x, 14) = b[14] /\ Bit(x, 15) = b[15]
  BY SMT DEF HasBits
<1>2. \A j \in 0 .. 15 : Bit(x, j) = b[j]
  BY <1>1
<1> QED
  BY <1>2 DEF BitsOf

\* the places of the settings that are one bit
OneBit == {0, 1, 2, 3, 4, 7, 13, 14, 15}

LEMMA PutOne ==
  ASSUME NEW w \in Nat, NEW i \in OneBit, NEW v \in 0 .. 1
  PROVE  /\ Put(w, i, 1, v) \in Nat
         /\ BitsOf(Put(w, i, 1, v)) = SetBit(BitsOf(w), i, v)
<1> DEFINE x == Put(w, i, 1, v)
           b == [j \in 0 .. 15 |-> IF j = i THEN v ELSE Bit(w, j)]
<1>1. /\ x \in Nat
      /\ HasBits(x, b, 0) /\ HasBits(x, b, 4) /\ HasBits(x, b, 8) /\ HasBits(x, b, 12)
  <2>1. CASE i = 0
    <3>1. x \in Nat
      BY <2>1, SMTT(40) DEF Bits, Put
    <3>2. HasBits(x, b, 0)
      BY <2>1, SMTT(40) DEF HasBits, Bit, Bits, Put
    <3>3. HasBits(x, b, 4)
      BY <2>1, SMTT(40) DEF HasBits, Bit, Bits, Put
    <3>4. HasBits(x, b, 8)
      BY <2>1, SMTT(40) DEF HasBits, Bit, Bits, Put
    <3>5. HasBits(x, b, 12)
      BY <2>1, SMTT(40) DEF HasBits, Bit, Bits, Put
    <3> QED
      BY <3>1, <3>2, <3>3, <3>4, <3>5
  <2>2. CASE i = 1
    <3>1. x \in Nat
      BY <2>2, SMTT(40) DEF Bits, Put
    <3>2. HasBits(x, b, 0)
      BY <2>2, SMTT(40) DEF HasBits, Bit, Bits, Put
    <3>3. HasBits(x, b, 4)
      BY <2>2, SMTT(40) DEF HasBits, Bit, Bits, Put
    <3>4. HasBits(x, b, 8)
      BY <2>2, SMTT(40) DEF HasBits, Bit, Bits, Put
    <3>5. HasBits(x, b, 12)
      BY <2>2, SMTT(40) DEF HasBits, Bit, Bits, Put
    <3> QED
      BY <3>1, <3>2, <3>3, <3>4, <3>5
  <2>3. CASE i = 2
    <3>1. x \in Nat
      BY <2>3, SMTT(40) DEF Bits, Put
    <3>2. HasBits(x, b, 0)
      BY <2>3, SMTT(40) DEF HasBits, Bit, Bits, Put
    <3>3. HasBits(x, b, 4)
      BY <2>3, SMTT(40) DEF HasBits, Bit, Bits, Put
    <3>4. HasBits(x, b, 8)
      BY <2>3, SMTT(40) DEF HasBits, Bit, Bits, Put
    <3>5. HasBits(x, b, 12)
      BY <2>3, SMTT(40) DEF HasBits, Bit, Bits, Put
    <3> QED
      BY <3>1, <3>2, <3>3, <3>4, <3>5
  <2>4. CASE i = 3
    <3>1. x \in Nat
      BY <2>4, SMTT(40) DEF Bits, Put
    <3>2. HasBits(x, b, 0)
      BY <2>4, SMTT(40) DEF HasBits, Bit, Bits, Put
    <3>3. HasBits(x, b, 4)
      BY <2>4, SMTT(40) DEF HasBits, Bit, Bits, Put
    <3>4. HasBits(x, b, 8)
      BY <2>4, SMTT(40) DEF HasBits, Bit, Bits, Put
    <3>5. HasBits(x, b, 12)
      BY <2>4, SMTT(40) DEF HasBits, Bit, Bits, Put
    <3> QED
      BY <3>1, <3>2, <3>3, <3>4, <3>5
  <2>5. CASE i = 4
    <3>1. x \in Nat
      BY <2>5, SMTT(40) DEF Bits, Put
    <3>2. HasBits(x, b, 0)
      BY <2>5, SMTT(40) DEF HasBits, Bit, Bits, Put
    <3>3. HasBits(x, b, 4)
      BY <2>5, SMTT(40) DEF HasBits, Bit, Bits, Put
    <3>4. HasBits(x, b, 8)
      BY <2>5, SMTT(40) DEF HasBits, Bit, Bits, Put
    <3>5. HasBits(x, b, 12)
      BY <2>5, SMTT(40) DEF HasBits, Bit, Bits, Put
    <3> QED
      BY <3>1, <3>2, <3>3, <3>4, <3>5
  <2>6. CASE i = 7
    <3>1. x \in Nat
      BY <2>6, SMTT(40) DEF Bits, Put
    <3>2. HasBits(x, b, 0)
      BY <2>6, SMTT(40) DEF HasBits, Bit, Bits, Put
    <3>3. HasBits(x, b, 4)
      BY <2>6, SMTT(40) DEF HasBits, Bit, Bits, Put
    <3>4. HasBits(x, b, 8)
      BY <2>6, SMTT(40) DEF HasBits, Bit, Bits, Put
    <3>5. HasBits(x, b, 12)
      BY <2>6, SMTT(40) DEF HasBits, Bit, Bits, Put
    <3> QED
      BY <3>1, <3>2, <3>3, <3>4, <3>5
  <2>7. CASE i = 13
    <3>1. x \in Nat
      BY <2>7, SMTT(40) DEF Bits, Put
    <3>2. HasBits(x, b, 0)
      BY <2>7, SMTT(40) DEF HasBits, Bit, Bits, Put
    <3>3. HasBits(x, b, 4)
      BY <2>7, SMTT(40) DEF HasBits, Bit, Bits, Put
    <3>4. HasBits(x, b, 8)
      BY <2>7, SMTT(40) DEF HasBits, Bit, Bits, Put
    <3>5. HasBits(x, b, 12)
      BY <2>7, SMTT(40) DEF HasBits, Bit, Bits, Put
    <3> QED
      BY <3>1, <3>2, <3>3, <3>4, <3>5
  <2>8. CASE i = 14
    <3>1. x \in Nat
      BY <2>8, SMTT(40) DEF Bits, Put
    <3>2. HasBits(x, b, 0)
      BY <2>8, SMTT(40) DEF HasBits, Bit, Bits, Put
    <3>3. HasBits(x, b, 4)
      BY <2>8, SMTT(40) DEF HasBits, Bit, Bits, Put
    <3>4. HasBits(x, b, 8)
      BY <2>8, SMTT(40) DEF HasBits, Bit, Bits, Put
    <3>5. HasBits(x, b, 12)
      BY <2>8, SMTT(40) DEF HasBits, Bit, Bits, Put
    <3> QED
      BY <3>1, <3>2, <3>3, <3>4, <3>5
  <2>9. CASE i = 15
    <3>1. x \in Nat
      BY <2>9, SMTT(40) DEF Bits, Put
    <3>2. HasBits(x, b, 0)
      BY <2>9, SMTT(40) DEF HasBits, Bit, Bits, Put
    <3>3. HasBits(x, b, 4)
      BY <2>9, SMTT(40) DEF HasBits, Bit, Bits, Put
    <3>4. HasBits(x, b, 8)
      BY <2>9, SMTT(40) DEF HasBits, Bit, Bits, Put
    <3>5. HasBits(x, b, 12)
      BY <2>9, SMTT(40) DEF HasBits, Bit, Bits, Put
    <3> QED
      BY <3>1, <3>2, <3>3, <3>4, <3>5
  <2> QED
    BY <2>1, <2>2, <2>3, <2>4, <2>5, <2>6, <2>7, <2>8, <2>9 DEF OneBit
<1>2. b = [j \in 0 .. 15 |-> b[j]] /\ b = SetBit(BitsOf(w), i, v)
  BY DEF BitsOf, SetBit
<1> HIDE DEF b, x
<1> QED
  BY <1>1, <1>2, HasAllBits DEF x

LEMMA PutTwo ==
  ASSUME NEW w \in Nat, NEW v \in 0 .. 3
  PROVE  /\ Put(w, 5, 2, v) \in Nat /\ Bits(Put(w, 5, 2, v), 5, 2) = v
         /\ \A j \in 0 .. 15 : j \notin 5 .. 6 => BitsOf(Put(w, 5, 2, v))[j] = BitsOf(w)[j]
<1> DEFINE x == Put(w, 5, 2, v)
           b == [j \in 0 .. 15 |-> IF j = 5 THEN v % 2 ELSE IF j = 6 THEN v \div 2 ELSE Bit(w, j)]
<1>1. x \in Nat /\ Bits(x, 5, 2) = v
  BY SMTT(40) DEF Bits, Put
<1>2. HasBits(x, b, 0)
  BY SMTT(40) DEF HasBits, Bit, Bits, Put
<1>3. HasBits(x, b, 4)
  BY SMTT(40) DEF HasBits, Bit, Bits, Put
<1>4. HasBits(x, b, 8)
  <2>1. x \div 128 = w \div 128
    BY SMTT(40) DEF Bits, Put
  <2> DEFINE Above(y) == /\ Bit(y, 8) = ((y \div 128) \div 2) % 2
                         /\ Bit(y, 9) = ((y \div 128) \div 4) % 2
                         /\ Bit(y, 10) = ((y \div 128) \div 8) % 2
                         /\ Bit(y, 11) = ((y \div 128) \div 16) % 2
  <2>2. ASSUME NEW y \in Nat  PROVE Above(y)
    <3>1. Bit(y, 8) = ((y \div 128) \div 2) % 2
      BY SMTT(40) DEF Bits, Bit
    <3>2. Bit(y, 9) = ((y \div 128) \div 4) % 2
      BY SMTT(40) DEF Bits, Bit
    <3>3. Bit(y, 10) = ((y \div 128) \div 8) % 2
      BY SMTT(40) DEF Bits, Bit
    <3>4. Bit(y, 11) = ((y \div 128) \div 16) % 2
      BY SMTT(40) DEF Bits, Bit
    <3> QED
      BY <3>1, <3>2, <3>3, <3>4
  <2> HIDE DEF x, Above
  <2>3. Above(x) /\ Above(w)
    BY <1>1, <2>2, Zenon
  <2> USE DEF Above
  <2>4. /\ Bit(x, 8) = Bit(w, 8) /\ Bit(x, 9) = Bit(w, 9)
        /\ Bit(x, 10) = Bit(w, 10) /\ Bit(x, 11) = Bit(w, 11)
    BY <2>1, <2>3
  <2> QED
    BY <2>4 DEF HasBits
<1>5. HasBits(x, b, 12)
  BY SMTT(40) DEF HasBits, Bit, Bits, Put
<1>6. /\ b = [j \in 0 .. 15 |-> b[j]]
      /\ \A j \in 0 .. 15 : j \notin 5 .. 6 => b[j] = BitsOf(w)[j]
  BY DEF BitsOf
<1> HIDE DEF b, x
<1> QED
  BY <1>1, <1>2, <1>3, <1>4, <1>5, <1>6, HasAllBits DEF x

LEMMA TwoBits ==
  ASSUME NEW w \in Nat
  PROVE  /\ Bits(w, 1, 2) = BitsOf(w)[1] + 2 * BitsOf(w)[2]
         /\ Bits(w, 5, 2) = BitsOf(w)[5] + 2 * BitsOf(w)[6]
         /\ Bits(w, 5, 2) \in 0 .. 3
         /\ BitsOf(w) \in [0 .. 15 -> 0 .. 1]
<1>1. /\ Bits(w, 1, 2) = Bit(w, 1) + 2 * Bit(w, 2)
      /\ Bits(w, 5, 2) = Bit(w, 5) + 2 * Bit(w, 6)
      /\ Bits(w, 5, 2) \in 0 .. 3
  BY SMT DEF Bits, Bit
<1>2. \A j \in 0 .. 15 : Bit(w, j) \in 0 .. 1
  <2>1. /\ Bit(w, 0) \in 0 .. 1 /\ Bit(w, 1) \in 0 .. 1 /\ Bit(w, 2) \in 0 .. 1
        /\ Bit(w, 3) \in 0 .. 1 /\ Bit(w, 4) \in 0 .. 1 /\ Bit(w, 5) \in 0 .. 1
        /\ Bit(w, 6) \in 0 .. 1 /\ Bit(w, 7) \in 0 .. 1 /\ Bit(w, 8) \in 0 .. 1
        /\ Bit(w, 9) \in 0 .. 1 /\ Bit(w, 10) \in 0 .. 1 /\ Bit(w, 11) \in 0 .. 1
        /\ Bit(w, 12) \in 0 .. 1 /\ Bit(w, 13) \in 0 .. 1 /\ Bit(w, 14) \in 0 .. 1
        /\ Bit(w, 15) \in 0 .. 1
    BY SMT DEF Bit, Bits
  <2> QED
    BY <2>1
<1> QED
  BY <1>1, <1>2 DEF BitsOf

-----------------------------------------------------------------------------
\* A byte or word has its settings at different bits, so each is written alone.
LEMMA PutByteField ==
  ASSUME NEW pg \in {"opt", "e1"}, NEW f \in DOMAIN ByteFields, NEW w \in Nat, NEW v \in 0 .. 1,
         NEW i, ByteFields[f][1] = i
  PROVE  /\ PutField(pg, w, f, v) \in Nat
         /\ BitsOf(PutField(pg, w, f, v)) = SetBit(BitsOf(w), i, v)
<1>1. PutField(pg, w, f, v) = Put(w, i, 1, v) /\ i \in OneBit
  BY DEF PutField, ByteFields, OneBit
<1> QED
  BY <1>1, PutOne

LEMMA PutWordField ==
  ASSUME NEW f \in DOMAIN WordFields, f # "bandwidth", NEW w \in Nat, NEW v \in 0 .. 1,
         NEW i, WordFields[f][1] = i
  PROVE  /\ PutField("eth", w, f, v) \in Nat
         /\ BitsOf(PutField("eth", w, f, v)) = SetBit(BitsOf(w), i, v)
<1>1. PutField("eth", w, f, v) = Put(w, i, 1, v) /\ i \in OneBit
  BY DEF PutField, WordFields, OneBit
<1> QED
  BY <1>1, PutOne

\* What the dialog may select: an entry of the list or nothing.
Selected(f, o) == o \in Options(f, TRUE) \cup {Nothing}

\* Settings that are written are shown as they were selected, those for which
\* nothing is selected as before, and no other bit changes.
ShowsSelected(pg, w, x, sel) ==
  /\ x \in Nat
  /\ \A f \in DOMAIN sel : Shown(pg, x)[f] = IF sel[f] = Nothing THEN Shown(pg, w)[f] ELSE sel[f]
  /\ Rest(pg, x) = Rest(pg, w)

LEMMA RestOfByte ==
  ASSUME NEW pg \in {"opt", "e1"}, NEW w, NEW x,
         \A j \in 0 .. 15 : j \notin {0, 1, 2, 7} => BitsOf(x)[j] = BitsOf(w)[j]
  PROVE  Rest(pg, x) = Rest(pg, w)
<1>1. \A i \in 0 .. 15 : (\A f \in DOMAIN FormBits(pg) : i \notin FormBits(pg)[f][1] ..
                            FormBits(pg)[f][1] + FormBits(pg)[f][2] - 1) => i \notin {0, 1, 2, 7}
  BY DEF FormBits, ByteFields
<1>2. \A j \in 0 .. 15 : j \notin {0, 1, 2, 7} => Bits(x, j, 1) = Bits(w, j, 1)
  BY DEF BitsOf, Bit
<1> QED
  BY <1>1, <1>2 DEF Rest

LEMMA RestOfWord ==
  ASSUME NEW w, NEW x,
         \A j \in 0 .. 15 : j \notin {3, 4, 5, 6, 13, 14, 15} => BitsOf(x)[j] = BitsOf(w)[j]
  PROVE  Rest("eth", x) = Rest("eth", w)
<1>1. \A i \in 0 .. 15 :
        (\A f \in DOMAIN FormBits("eth") : i \notin FormBits("eth")[f][1] ..
            FormBits("eth")[f][1] + FormBits("eth")[f][2] - 1) => i \notin {3, 4, 5, 6, 13, 14, 15}
  BY DEF FormBits, WordFields
<1>2. \A j \in 0 .. 15 : j \notin {3, 4, 5, 6, 13, 14, 15} => Bits(x, j, 1) = Bits(w, j, 1)
  BY DEF BitsOf, Bit
<1> QED
  BY <1>1, <1>2 DEF Rest

LEMMA ShownOfByte ==
  ASSUME NEW w \in Nat, NEW b, b = BitsOf(w)
  PROVE  /\ ShownByte(w).switch = IF b[7] = 1 THEN "on" ELSE "off"
         /\ ShownByte(w).trap_mask = IF b[0] = 1 THEN "mask" ELSE "allow"
         /\ ShownByte(w).loop = IF b[1] = 1 THEN IF b[2] = 1 THEN "double" ELSE "circuit"
                                ELSE IF b[2] = 1 THEN "device" ELSE "normal"
<1>1. b \in [0 .. 15 -> 0 .. 1] /\ Bits(w, 1, 2) = b[1] + 2 * b[2]
  BY TwoBits
<1>2. b[1] \in 0 .. 1 /\ b[2] \in 0 .. 1
  BY <1>1
<1>3. Loop(w) = IF b[1] = 1 THEN IF b[2] = 1 THEN "double" ELSE "circuit"
                ELSE IF b[2] = 1 THEN "device" ELSE "normal"
  BY <1>1, <1>2 DEF Loop
<1>4. Bits(w, 7, 1) = b[7] /\ Bits(w, 0, 1) = b[0]
  BY DEF BitsOf, Bit
<1> QED
  BY <1>3, <1>4 DEF ShownByte, Either

LEMMA PutLoop ==
  ASSUME NEW pg \in {"opt", "e1"}, NEW w \in Nat, NEW v1 \in 0 .. 1, NEW v2 \in 0 .. 1
  PROVE  /\ PutField(pg, PutField(pg, w, "circ", v1), "dev", v2) \in Nat
         /\ BitsOf(PutField(pg, PutField(pg, w, "circ", v1), "dev", v2)) =
              SetBit(SetBit(BitsOf(w), 1, v1), 2, v2)
<1>1. "circ" \in DOMAIN ByteFields /\ ByteFields["circ"][1] = 1
  BY DEF ByteFields
<1>2. "dev" \in DOMAIN ByteFields /\ ByteFields["dev"][1] = 2
  BY DEF ByteFields
<1>3. PutField(pg, w, "circ", v1) \in Nat
  BY <1>1, PutByteField
<1>4. BitsOf(PutField(pg, w, "circ", v1)) = SetBit(BitsOf(w), 1, v1)
  BY <1>1, PutByteField
<1>5. \A c \in Nat : PutField(pg, c, "dev", v2) \in Nat
  BY <1>2, PutByteField
<1>6. \A c \in Nat : BitsOf(PutField(pg, c, "dev", v2)) = SetBit(BitsOf(c), 2, v2)
  BY <1>2, PutByteField
<1> QED
  BY <1>3, <1>4, <1>5, <1>6

\* the bits of a word in which a loop is written
WithLoop(b, o) ==
  IF o = Nothing THEN b
  ELSE SetBit(SetBit(b, 1, IF o \in {"circuit", "double"} THEN 1 ELSE 0),
              2, IF o \in {"device", "double"} THEN 1 ELSE 0)

LEMMA LoopBits ==
  ASSUME NEW pg \in {"opt", "e1"}, NEW w \in Nat,
         NEW o \in {"normal", "circuit", "device", "double", Nothing}, o = "double" => pg = "opt"
  PROVE  /\ LoopWritten(pg, w, o) \in Nat
         /\ BitsOf(LoopWritten(pg, w, o)) = WithLoop(BitsOf(w), o)
<1>1. \A v1, v2 \in 0 .. 1 :
        /\ PutField(pg, PutField(pg, w, "circ", v1), "dev", v2) \in Nat
        /\ BitsOf(PutField(pg, PutField(pg, w, "circ", v1), "dev", v2)) =
             SetBit(SetBit(BitsOf(w), 1, v1), 2, v2)
  BY PutLoop
<1>2. CASE o = "normal"
  BY <1>1, <1>2 DEF LoopWritten, Nothing, WithLoop
<1>3. CASE o = "circuit"
  BY <1>1, <1>3 DEF LoopWritten, Nothing, WithLoop
<1>4. CASE o = "device"
  BY <1>1, <1>4 DEF LoopWritten, Nothing, WithLoop
<1>5. CASE o = "double"
  BY <1>1, <1>5 DEF LoopWritten, Nothing, WithLoop
<1>6. CASE o = Nothing
  BY <1>6 DEF LoopWritten, Nothing, WithLoop
<1> QED
  BY <1>2, <1>3, <1>4, <1>5, <1>6

LEMMA ByteShowsSelected ==
  ASSUME page \in {"opt", "e1"}, NEW w \in Nat, NEW sel,
         DOMAIN sel = {"switch", "trap_mask", "loop"}, \A f \in DOMAIN sel : Selected(f, sel[f])
  PROVE  ShowsSelected(page, w, WrittenByte(page, w, sel), sel)
<1> DEFINE v == IF sel.switch = "on" THEN 1 ELSE 0
           a == IF sel.switch = Nothing THEN w ELSE PutField(page, w, "switch", v)
           u == IF sel.trap_mask = "mask" THEN 1 ELSE 0
           b == IF sel.trap_mask = Nothing THEN a ELSE PutField(page, a, "trap_mask", u)
           x == LoopWritten(page, b, sel.loop)
<1>0. /\ sel.switch \in {"on", "off", Nothing} /\ sel.trap_mask \in {"mask", "allow", Nothing}
      /\ sel.loop \in {"normal", "circuit", "device", "double", Nothing}
      /\ sel.loop = "double" => page = "opt"
  BY DEF Selected, Options, Nothing
<1>1. a \in Nat /\ BitsOf(a) = IF sel.switch = Nothing THEN BitsOf(w) ELSE SetBit(BitsOf(w), 7, v)
  <2>1. "switch" \in DOMAIN ByteFields /\ ByteFields["switch"][1] = 7 /\ v \in 0 .. 1
    BY DEF ByteFields
  <2>2. PutField(page, w, "switch", v) \in Nat
        /\ BitsOf(PutField(page, w, "switch", v)) = SetBit(BitsOf(w), 7, v)
    BY <2>1, PutByteField
  <2> QED
    BY <2>2
<1> HIDE DEF a
<1>2. b \in Nat /\ BitsOf(b) = IF sel.trap_mask = Nothing THEN BitsOf(a) ELSE SetBit(BitsOf(a), 0, u)
  <2>1. "trap_mask" \in DOMAIN ByteFields /\ ByteFields["trap_mask"][1] = 0 /\ u \in 0 .. 1
    BY DEF ByteFields
  <2>2. PutField(page, a, "trap_mask", u) \in Nat
        /\ BitsOf(PutField(page, a, "trap_mask", u)) = SetBit(BitsOf(a), 0, u)
    BY <1>1, <2>1, PutByteField
  <2> QED
    BY <1>1, <2>2
<1> HIDE DEF b
<1>3. /\ x \in Nat
      /\ BitsOf(x) = WithLoop(BitsOf(b), sel.loop)
  <2>1. /\ sel.loop \in {"normal", "circuit", "device", "double", Nothing}
        /\ sel.loop = "double" => page = "opt"
    BY <1>0
  <2>2. PICK o \in {"normal", "circuit", "device", "double", Nothing} :
          o = sel.loop /\ (o = "double" => page = "opt")
    BY <2>1
  <2>3. PICK c \in Nat : c = b
    BY <1>2
  <2>4. /\ LoopWritten(page, c, o) \in Nat
        /\ BitsOf(LoopWritten(page, c, o)) = WithLoop(BitsOf(c), o)
    <3>1. page \in {"opt", "e1"} /\ (o = "double" => page = "opt")
      BY <2>2
    <3> QED
      BY <3>1, LoopBits, ZenonT(20)
  <2> QED
    BY <2>2, <2>3, <2>4
<1> HIDE DEF x
<1>4. WrittenByte(page, w, sel) = x
  BY DEF WrittenByte, a, b, x
<1>5. PICK m, n : m = BitsOf(w) /\ n = BitsOf(x) /\ m \in [0 .. 15 -> 0 .. 1]
  BY TwoBits
<1>6. /\ n \in [0 .. 15 -> 0 .. 1]
      /\ \A j \in 0 .. 15 : j \notin {0, 1, 2, 7} => n[j] = m[j]
      /\ n[7] = IF sel.switch = Nothing THEN m[7] ELSE v
      /\ n[0] = IF sel.trap_mask = Nothing THEN m[0] ELSE u
      /\ n[1] = IF sel.loop = Nothing THEN m[1] ELSE IF sel.loop \in {"circuit", "double"} THEN 1 ELSE 0
      /\ n[2] = IF sel.loop = Nothing THEN m[2] ELSE IF sel.loop \in {"device", "double"} THEN 1 ELSE 0
  BY <1>1, <1>2, <1>3, <1>5 DEF SetBit, WithLoop
<1>7. Rest(page, x) = Rest(page, w)
  BY <1>5, <1>6, RestOfByte
<1>8. \A f \in DOMAIN sel : ShownByte(x)[f] = IF sel[f] = Nothing THEN ShownByte(w)[f] ELSE sel[f]
  <2>1. /\ ShownByte(w).switch = IF m[7] = 1 THEN "on" ELSE "off"
        /\ ShownByte(w).trap_mask = IF m[0] = 1 THEN "mask" ELSE "allow"
        /\ ShownByte(w).loop = IF m[1] = 1 THEN IF m[2] = 1 THEN "double" ELSE "circuit"
                               ELSE IF m[2] = 1 THEN "device" ELSE "normal"
    BY <1>5, ShownOfByte
  <2>2. /\ ShownByte(x).switch = IF n[7] = 1 THEN "on" ELSE "off"
        /\ ShownByte(x).trap_mask = IF n[0] = 1 THEN "mask" ELSE "allow"
        /\ ShownByte(x).loop = IF n[1] = 1 THEN IF n[2] = 1 THEN "double" ELSE "circuit"
                               ELSE IF n[2] = 1 THEN "device" ELSE "normal"
    BY <1>3, <1>5, ShownOfByte
  <2>3. ShownByte(x).switch = IF sel.switch = Nothing THEN ShownByte(w).switch ELSE sel.switch
    BY <1>0, <1>6, <2>1, <2>2
  <2>4. ShownByte(x).trap_mask = IF sel.trap_mask = Nothing THEN ShownByte(w).trap_mask ELSE sel.trap_mask
    BY <1>0, <1>6, <2>1, <2>2
  <2>5. ShownByte(x).loop = IF sel.loop = Nothing THEN ShownByte(w).loop ELSE sel.loop
    BY <1>0, <1>6, <2>1, <2>2
  <2> QED
    BY <2>3, <2>4, <2>5
<1> QED
  BY <1>3, <1>4, <1>7, <1>8 DEF ShowsSelected, Shown

\* a setting of a word, if there is one
WithField(w, f, o, v) == IF o = Nothing THEN w ELSE PutField("eth", w, f, v)

LEMMA WithOne ==
  ASSUME NEW f \in DOMAIN WordFields, f # "bandwidth", NEW w \in Nat, NEW i \in 0 .. 15, WordFields[f][1] = i,
         NEW o, NEW v, o # Nothing => v \in 0 .. 1
  PROVE  /\ WithField(w, f, o, v) \in Nat
         /\ \A j \in 0 .. 15 : j # i => BitsOf(WithField(w, f, o, v))[j] = BitsOf(w)[j]
         /\ BitsOf(WithField(w, f, o, v))[i] = IF o = Nothing THEN BitsOf(w)[i] ELSE v
<1> DEFINE x == WithField(w, f, o, v)
<1>1. CASE o = Nothing
  BY <1>1 DEF WithField
<1>2. CASE o # Nothing
  <2>1. x \in Nat /\ BitsOf(x) = SetBit(BitsOf(w), i, v)
    BY <1>2, PutWordField DEF WithField
  <2>2. DOMAIN BitsOf(w) = 0 .. 15
    BY DEF BitsOf
  <2> QED
    BY <1>2, <2>1, <2>2 DEF SetBit
<1> QED
  BY <1>1, <1>2

LEMMA WithBandwidth ==
  ASSUME NEW w \in Nat, NEW o \in {"10M", "100M", "1000M", Nothing}
  PROVE  /\ WithField(w, "bandwidth", o, BandwidthOf(o)) \in Nat
         /\ \A j \in 0 .. 15 : j \notin 5 .. 6 =>
              BitsOf(WithField(w, "bandwidth", o, BandwidthOf(o)))[j] = BitsOf(w)[j]
         /\ Bits(WithField(w, "bandwidth", o, BandwidthOf(o)), 5, 2) =
              IF o = Nothing THEN Bits(w, 5, 2) ELSE BandwidthOf(o)
<1> DEFINE x == WithField(w, "bandwidth", o, BandwidthOf(o))
<1>1. CASE o = Nothing
  BY <1>1 DEF WithField
<1>2. CASE o # Nothing
  <2>1. PICK v \in 0 .. 3 : v = BandwidthOf(o)
    BY <1>2 DEF BandwidthOf
  <2>2. x = Put(w, 5, 2, v)
    BY <1>2, <2>1 DEF WithField, PutField, WordFields
  <2>3. Put(w, 5, 2, v) \in Nat /\ Bits(Put(w, 5, 2, v), 5, 2) = v
    BY PutTwo
  <2>4. \A j \in 0 .. 15 : j \notin 5 .. 6 => BitsOf(Put(w, 5, 2, v))[j] = BitsOf(w)[j]
    BY PutTwo
  <2> HIDE DEF x
  <2>5. /\ x \in Nat /\ \A j \in 0 .. 15 : j \notin 5 .. 6 => BitsOf(x)[j] = BitsOf(w)[j]
        /\ Bits(x, 5, 2) = IF o = Nothing THEN Bits(w, 5, 2) ELSE BandwidthOf(o)
    BY <1>2, <2>1, <2>2, <2>3, <2>4
  <2> QED
    BY <2>5 DEF x
<1> QED
  BY <1>1, <1>2

LEMMA ShownOfWord ==
  ASSUME NEW w \in Nat, NEW b, b = BitsOf(w)
  PROVE  /\ ShownWord(w).switch = IF b[15] = 1 THEN "on" ELSE "off"
         /\ ShownWord(w).auto_nego = IF b[3] = 1 THEN "auto" ELSE "force"
         /\ ShownWord(w).duplex = IF b[4] = 1 THEN "full" ELSE "half"
         /\ ShownWord(w).flow_ctrl = IF b[14] = 1 THEN "on" ELSE "off"
         /\ ShownWord(w).trap_mask = IF b[13] = 1 THEN "mask" ELSE "allow"
<1>1. /\ Bits(w, 15, 1) = b[15] /\ Bits(w, 3, 1) = b[3] /\ Bits(w, 4, 1) = b[4]
      /\ Bits(w, 14, 1) = b[14] /\ Bits(w, 13, 1) = b[13]
  BY DEF BitsOf, Bit
<1> QED
  BY <1>1 DEF ShownWord, Either

LEMMA ShownBandwidth ==
  ASSUME NEW w, NEW v, v = Bits(w, 5, 2)
  PROVE  ShownWord(w).bandwidth = <<"10M", "100M", "1000M", "empty">>[v + 1]
  BY DEF ShownWord

LEMMA WordShowsSelected ==
  ASSUME page = "eth", NEW w \in Nat, NEW sel,
         DOMAIN sel = DOMAIN WordFields, \A f \in DOMAIN sel : Selected(f, sel[f])
  PROVE  ShowsSelected(page, w, WrittenWord(page, w, sel), sel)
<1>0. /\ sel.switch \in {"on", "off", Nothing} /\ sel.flow_ctrl \in {"on", "off", Nothing}
      /\ sel.trap_mask \in {"mask", "allow", Nothing} /\ sel.auto_nego \in {"auto", "force", Nothing}
      /\ sel.duplex \in {"full", "half", Nothing} /\ sel.bandwidth \in {"10M", "100M", "1000M", Nothing}
  BY DEF Selected, Options, Nothing, WordFields
<1> DEFINE
  a == WithField(w, "switch", sel.switch, ValueOf[sel.switch])
  b == WithField(a, "auto_nego", sel.auto_nego, ValueOf[sel.auto_nego])
  c == WithField(b, "bandwidth", sel.bandwidth, BandwidthOf(sel.bandwidth))
  d == WithField(c, "duplex", sel.duplex, ValueOf[sel.duplex])
  e == WithField(d, "flow_ctrl", sel.flow_ctrl, ValueOf[sel.flow_ctrl])
  x == WithField(e, "trap_mask", sel.trap_mask, ValueOf[sel.trap_mask])
<1>1. /\ a \in Nat
      /\ \A j \in 0 .. 15 : j # 15 => BitsOf(a)[j] = BitsOf(w)[j]
      /\ BitsOf(a)[15] = IF sel.switch = Nothing THEN BitsOf(w)[15] ELSE ValueOf[sel.switch]
  <2>1. "switch" \in DOMAIN WordFields /\ WordFields["switch"][1] = 15
    BY DEF WordFields
  <2>2. sel.switch # Nothing => ValueOf[sel.switch] \in 0 .. 1
    BY <1>0 DEF ValueOf
  <2> HIDE DEF a
  <2> QED
    BY <2>1, <2>2, WithOne DEF a
<1> HIDE DEF a
<1>2. /\ b \in Nat
      /\ \A j \in 0 .. 15 : j # 3 => BitsOf(b)[j] = BitsOf(a)[j]
      /\ BitsOf(b)[3] = IF sel.auto_nego = Nothing THEN BitsOf(a)[3] ELSE ValueOf[sel.auto_nego]
  <2>1. "auto_nego" \in DOMAIN WordFields /\ WordFields["auto_nego"][1] = 3
    BY DEF WordFields
  <2>2. sel.auto_nego # Nothing => ValueOf[sel.auto_nego] \in 0 .. 1
    BY <1>0 DEF ValueOf
  <2> HIDE DEF b
  <2> QED
    BY <1>1, <2>1, <2>2, WithOne DEF b
<1> HIDE DEF b
<1>3. /\ c \in Nat
      /\ \A j \in 0 .. 15 : j \notin 5 .. 6 => BitsOf(c)[j] = BitsOf(b)[j]
      /\ Bits(c, 5, 2) = IF sel.bandwidth = Nothing THEN Bits(b, 5, 2) ELSE BandwidthOf(sel.bandwidth)
  <2>1. b \in Nat /\ sel.bandwidth \in {"10M", "100M", "1000M", Nothing}
    BY <1>0, <1>2
  <2> HIDE DEF c
  <2> QED
    BY <2>1, WithBandwidth DEF c
<1> HIDE DEF c
<1>4. /\ d \in Nat
      /\ \A j \in 0 .. 15 : j # 4 => BitsOf(d)[j] = BitsOf(c)[j]
      /\ BitsOf(d)[4] = IF sel.duplex = Nothing THEN BitsOf(c)[4] ELSE ValueOf[sel.duplex]
  <2>1. "duplex" \in DOMAIN WordFields /\ WordFields["duplex"][1] = 4
    BY DEF WordFields
  <2>2. sel.duplex # Nothing => ValueOf[sel.duplex] \in 0 .. 1
    BY <1>0 DEF ValueOf
  <2> HIDE DEF d
  <2> QED
    BY <1>3, <2>1, <2>2, WithOne DEF d
<1> HIDE DEF d
<1>5. /\ e \in Nat
      /\ \A j \in 0 .. 15 : j # 14 => BitsOf(e)[j] = BitsOf(d)[j]
      /\ BitsOf(e)[14] = IF sel.flow_ctrl = Nothing THEN BitsOf(d)[14] ELSE ValueOf[sel.flow_ctrl]
  <2>1. "flow_ctrl" \in DOMAIN WordFields /\ WordFields["flow_ctrl"][1] = 14
    BY DEF WordFields
  <2>2. sel.flow_ctrl # Nothing => ValueOf[sel.flow_ctrl] \in 0 .. 1
    BY <1>0 DEF ValueOf
  <2> HIDE DEF e
  <2> QED
    BY <1>4, <2>1, <2>2, WithOne DEF e
<1> HIDE DEF e
<1>6. /\ x \in Nat
      /\ \A j \in 0 .. 15 : j # 13 => BitsOf(x)[j] = BitsOf(e)[j]
      /\ BitsOf(x)[13] = IF sel.trap_mask = Nothing THEN BitsOf(e)[13] ELSE ValueOf[sel.trap_mask]
  <2>1. "trap_mask" \in DOMAIN WordFields /\ WordFields["trap_mask"][1] = 13
    BY DEF WordFields
  <2>2. sel.trap_mask # Nothing => ValueOf[sel.trap_mask] \in 0 .. 1
    BY <1>0 DEF ValueOf
  <2> HIDE DEF x
  <2> QED
    BY <1>5, <2>1, <2>2, WithOne DEF x
<1> HIDE DEF x
<1>7. WrittenWord(page, w, sel) = x
  BY DEF WrittenWord, WithField, a, b, c, d, e, x
<1>8. PICK m, n : m = BitsOf(w) /\ n = BitsOf(x)
  OBVIOUS
<1>9. /\ \A j \in 0 .. 15 : j \notin {3, 4, 5, 6, 13, 14, 15} => n[j] = m[j]
  BY <1>1, <1>2, <1>3, <1>4, <1>5, <1>6, <1>8
<1>a. n[15] = IF sel.switch = Nothing THEN m[15] ELSE ValueOf[sel.switch]
  BY <1>1, <1>2, <1>3, <1>4, <1>5, <1>6, <1>8
<1>b. n[3] = IF sel.auto_nego = Nothing THEN m[3] ELSE ValueOf[sel.auto_nego]
  BY <1>1, <1>2, <1>3, <1>4, <1>5, <1>6, <1>8
<1>d. n[4] = IF sel.duplex = Nothing THEN m[4] ELSE ValueOf[sel.duplex]
  BY <1>1, <1>2, <1>3, <1>4, <1>5, <1>6, <1>8
<1>e. n[14] = IF sel.flow_ctrl = Nothing THEN m[14] ELSE ValueOf[sel.flow_ctrl]
  BY <1>1, <1>2, <1>3, <1>4, <1>5, <1>6, <1>8
<1>f. n[13] = IF sel.trap_mask = Nothing THEN m[13] ELSE ValueOf[sel.trap_mask]
  BY <1>1, <1>2, <1>3, <1>4, <1>5, <1>6, <1>8
<1>c. Bits(x, 5, 2) = IF sel.bandwidth = Nothing THEN Bits(w, 5, 2) ELSE BandwidthOf(sel.bandwidth)
  <2>1. Bits(b, 5, 2) = Bits(w, 5, 2)
    <3>1. BitsOf(b)[5] = BitsOf(w)[5] /\ BitsOf(b)[6] = BitsOf(w)[6]
      BY <1>1, <1>2
    <3> QED
      BY <1>2, <3>1, TwoBits
  <2>2. Bits(x, 5, 2) = Bits(c, 5, 2)
    <3>1. BitsOf(x)[5] = BitsOf(c)[5] /\ BitsOf(x)[6] = BitsOf(c)[6]
      BY <1>4, <1>5, <1>6
    <3> QED
      BY <1>3, <1>6, <3>1, TwoBits
  <2> QED
    BY <1>3, <2>1, <2>2
<1>10. Rest(page, x) = Rest(page, w)
  BY <1>8, <1>9, RestOfWord
<1>11. \A f \in DOMAIN sel : ShownWord(x)[f] = IF sel[f] = Nothing THEN ShownWord(w)[f] ELSE sel[f]
  <2>1. ShownWord(x).switch = IF sel.switch = Nothing THEN ShownWord(w).switch ELSE sel.switch
    <3>1. ShownWord(w).switch = IF m[15] = 1 THEN "on" ELSE "off"
      BY <1>8, ShownOfWord
    <3>2. ShownWord(x).switch = IF n[15] = 1 THEN "on" ELSE "off"
      BY <1>6, <1>8, ShownOfWord
    <3>3. CASE sel.switch = Nothing
      BY <1>a, <3>1, <3>2, <3>3
    <3>4. CASE sel.switch # Nothing
      BY <1>0, <1>a, <3>2, <3>4 DEF ValueOf
    <3> QED
      BY <3>3, <3>4
  <2>2. ShownWord(x).auto_nego = IF sel.auto_nego = Nothing THEN ShownWord(w).auto_nego ELSE sel.auto_nego
    <3>1. ShownWord(w).auto_nego = IF m[3] = 1 THEN "auto" ELSE "force"
      BY <1>8, ShownOfWord
    <3>2. ShownWord(x).auto_nego = IF n[3] = 1 THEN "auto" ELSE "force"
      BY <1>6, <1>8, ShownOfWord
    <3>3. CASE sel.auto_nego = Nothing
      BY <1>b, <3>1, <3>2, <3>3
    <3>4. CASE sel.auto_nego # Nothing
      BY <1>0, <1>b, <3>2, <3>4 DEF ValueOf
    <3> QED
      BY <3>3, <3>4
  <2>3. ShownWord(x).bandwidth = IF sel.bandwidth = Nothing THEN ShownWord(w).bandwidth ELSE sel.bandwidth
    <3>1. CASE sel.bandwidth = Nothing
      BY <1>c, <3>1, ShownBandwidth
    <3>2. CASE sel.bandwidth # Nothing
      BY <1>0, <1>c, <3>2, ShownBandwidth DEF BandwidthOf
    <3> QED
      BY <3>1, <3>2
  <2>4. ShownWord(x).duplex = IF sel.duplex = Nothing THEN ShownWord(w).duplex ELSE sel.duplex
    <3>1. ShownWord(w).duplex = IF m[4] = 1 THEN "full" ELSE "half"
      BY <1>8, ShownOfWord
    <3>2. ShownWord(x).duplex = IF n[4] = 1 THEN "full" ELSE "half"
      BY <1>6, <1>8, ShownOfWord
    <3>3. CASE sel.duplex = Nothing
      BY <1>d, <3>1, <3>2, <3>3
    <3>4. CASE sel.duplex # Nothing
      BY <1>0, <1>d, <3>2, <3>4 DEF ValueOf
    <3> QED
      BY <3>3, <3>4
  <2>5. ShownWord(x).flow_ctrl = IF sel.flow_ctrl = Nothing THEN ShownWord(w).flow_ctrl ELSE sel.flow_ctrl
    <3>1. ShownWord(w).flow_ctrl = IF m[14] = 1 THEN "on" ELSE "off"
      BY <1>8, ShownOfWord
    <3>2. ShownWord(x).flow_ctrl = IF n[14] = 1 THEN "on" ELSE "off"
      BY <1>6, <1>8, ShownOfWord
    <3>3. CASE sel.flow_ctrl = Nothing
      BY <1>e, <3>1, <3>2, <3>3
    <3>4. CASE sel.flow_ctrl # Nothing
      BY <1>0, <1>e, <3>2, <3>4 DEF ValueOf
    <3> QED
      BY <3>3, <3>4
  <2>6. ShownWord(x).trap_mask = IF sel.trap_mask = Nothing THEN ShownWord(w).trap_mask ELSE sel.trap_mask
    <3>1. ShownWord(w).trap_mask = IF m[13] = 1 THEN "mask" ELSE "allow"
      BY <1>8, ShownOfWord
    <3>2. ShownWord(x).trap_mask = IF n[13] = 1 THEN "mask" ELSE "allow"
      BY <1>6, <1>8, ShownOfWord
    <3>3. CASE sel.trap_mask = Nothing
      BY <1>f, <3>1, <3>2, <3>3
    <3>4. CASE sel.trap_mask # Nothing
      BY <1>0, <1>f, <3>2, <3>4 DEF ValueOf
    <3> QED
      BY <3>3, <3>4
  <2> QED
    BY <2>1, <2>2, <2>3, <2>4, <2>5, <2>6 DEF WordFields
<1> QED
  BY <1>6, <1>7, <1>10, <1>11 DEF ShowsSelected, Shown

-----------------------------------------------------------------------------
\* A set of natural numbers has a least element, which is how the proofs
\* reason by induction: the least counterexample has a predecessor.
LEMMA LeastNat ==
  ASSUME NEW T, T \subseteq Nat, T # {}
  PROVE  \E x \in T : \A y \in T : x =< y
<1> DEFINE R == OpToRel(<, Nat)
<1>1. IsWellFoundedOn(R, Nat)
  BY NatLessThanWellFounded
<1>2. \A x, y \in Nat : x < y => <<x, y>> \in R
  BY DEF OpToRel
<1> HIDE DEF R
<1>3. PICK x \in T : \A y \in T : ~ (<<y, x>> \in R)
  BY <1>1, WFMin
<1>4. ASSUME NEW y \in T  PROVE x =< y
  <2>1. x \in Nat /\ y \in Nat
    BY <1>3, <1>4
  <2>2. ~ (y < x)
    BY <1>2, <1>3, <1>4, <2>1
  <2> QED
    BY <2>1, <2>2
<1> QED
  BY <1>3, <1>4

\* Induction up to a bound, as a property of a set.
LEMMA UpTo ==
  ASSUME NEW N \in Nat, NEW T, 0 \in T, \A n \in 0 .. N - 1 : n \in T => n + 1 \in T
  PROVE  0 .. N \subseteq T
<1> DEFINE U == (0 .. N) \ T
<1>1. SUFFICES ASSUME U # {}  PROVE FALSE
  OBVIOUS
<1>0. U \subseteq Nat
  OBVIOUS
<1> HIDE DEF U
<1>2. PICK x \in U : \A y \in U : x =< y
  BY <1>0, <1>1, LeastNat
<1>3. x - 1 \in 0 .. N - 1 /\ x - 1 \notin U /\ x = (x - 1) + 1
  BY <1>2 DEF U
<1> QED
  BY <1>2, <1>3 DEF U

-----------------------------------------------------------------------------
(* The rows of a table and their lines. *)

\* The loops go through the boards and, of each, through as many ports as the
\* widest array has.
Slots == 0 .. 143
Slot(t, n)  == <<t, n \div MaxPorts, n % MaxPorts>>
Taken(t, n) == n % MaxPorts < Amount(chassis, t, n \div MaxPorts)
Place(x)    == MaxPorts * x[2] + x[3]
RowsBefore(t, n) == {x \in Rows : x[1] = t /\ Place(x) < n}
Line(t, n)  == Cardinality(RowsBefore(t, n))

LEMMA SlotPlace ==
  ASSUME NEW n \in Slots
  PROVE  /\ n \div MaxPorts \in Boards /\ n % MaxPorts \in 0 .. MaxPorts - 1
         /\ MaxPorts * (n \div MaxPorts) + (n % MaxPorts) = n
<1>1. n \div MaxPorts \in Boards
  BY SMT DEF MaxPorts, Boards, Slots
<1>2. n % MaxPorts \in 0 .. MaxPorts - 1
  BY SMT DEF MaxPorts, Boards, Slots
<1>3. MaxPorts * (n \div MaxPorts) + (n % MaxPorts) = n
  BY SMT DEF MaxPorts, Slots
<1> QED
  BY <1>1, <1>2, <1>3

LEMMA PlaceSlot ==
  ASSUME NEW b \in Boards, NEW p \in 0 .. MaxPorts - 1
  PROVE  /\ MaxPorts * b + p \in Slots
         /\ (MaxPorts * b + p) \div MaxPorts = b /\ (MaxPorts * b + p) % MaxPorts = p
BY SMT DEF MaxPorts, Boards, Slots

LEMMA SlotOfRow ==
  ASSUME NEW t \in Tables[page], NEW n \in Slots
  PROVE  /\ Slot(t, n) \in Rows <=> Taken(t, n)
         /\ Place(Slot(t, n)) = n /\ Slot(t, n)[1] = t
<1>1. Slot(t, n) \in Tables[page] \X Boards \X (0 .. MaxPorts - 1)
  BY SlotPlace DEF Slot
<1>2. /\ Slot(t, n)[1] = t /\ Slot(t, n)[2] = n \div MaxPorts
      /\ Slot(t, n)[3] = n % MaxPorts
  BY DEF Slot
<1>3. Place(Slot(t, n)) = n
  <2>1. Place(Slot(t, n)) = MaxPorts * (n \div MaxPorts) + (n % MaxPorts)
    BY <1>2 DEF Place
  <2> QED
    BY <2>1, SlotPlace
<1>4. Slot(t, n) \in Rows <=> Taken(t, n)
  BY <1>1, <1>2 DEF Rows, RowsOf, Taken
<1> QED
  BY <1>2, <1>3, <1>4

LEMMA RowType ==
  ASSUME NEW x \in Rows
  PROVE  /\ x = <<x[1], x[2], x[3]>> /\ x[1] \in Tables[page]
         /\ x[2] \in Boards /\ x[3] \in 0 .. MaxPorts - 1
         /\ Place(x) \in Slots /\ x = Slot(x[1], Place(x))
<1>1. /\ x = <<x[1], x[2], x[3]>> /\ x[1] \in Tables[page]
      /\ x[2] \in Boards /\ x[3] \in 0 .. MaxPorts - 1
  BY DEF Rows, RowsOf
<1>2. Place(x) \in Slots /\ Place(x) \div MaxPorts = x[2] /\ Place(x) % MaxPorts = x[3]
  BY <1>1, PlaceSlot DEF Place
<1> QED
  BY <1>1, <1>2 DEF Slot

LEMMA RowsBeforeNone ==
  ASSUME NEW t \in Tables[page]
  PROVE  RowsBefore(t, 0) = {}
<1>1. \A x \in Rows : ~ (Place(x) < 0)
  BY RowType DEF Slots
<1> QED
  BY <1>1 DEF RowsBefore

LEMMA RowsBeforeNext ==
  ASSUME NEW t \in Tables[page], NEW n \in Slots
  PROVE  /\ RowsBefore(t, n + 1) = IF Taken(t, n) THEN RowsBefore(t, n) \cup {Slot(t, n)}
                                   ELSE RowsBefore(t, n)
         /\ Slot(t, n) \notin RowsBefore(t, n)
<1>1. Slot(t, n) \notin RowsBefore(t, n)
  <2>1. Place(Slot(t, n)) = n /\ ~ (n < n)
    <3>1. Place(Slot(t, n)) = n
      BY SlotOfRow
    <3>2. ~ (n < n)
      BY DEF Slots
    <3> QED
      BY <3>1, <3>2
  <2> QED
    BY <2>1 DEF RowsBefore
<1>2. ASSUME NEW x \in Rows, x[1] = t
      PROVE  Place(x) < n + 1 <=> Place(x) < n \/ x = Slot(t, n)
  <2>1. Place(x) \in Slots /\ x = Slot(t, Place(x))
    BY <1>2, RowType
  <2>2. Place(Slot(t, n)) = n
    BY SlotOfRow
  <2>3. Place(x) < n + 1 <=> Place(x) < n \/ Place(x) = n
    BY <2>1 DEF Slots
  <2> QED
    BY <2>1, <2>2, <2>3
<1>3. Slot(t, n)[1] = t
  BY DEF Slot
<1>4. CASE Taken(t, n)
  <2>1. Slot(t, n) \in Rows
    BY <1>4, SlotOfRow
  <2> QED
    BY <1>1, <1>2, <1>3, <1>4, <2>1 DEF RowsBefore
<1>5. CASE ~ Taken(t, n)
  <2>1. Slot(t, n) \notin Rows
    BY <1>5, SlotOfRow
  <2> QED
    BY <1>1, <1>2, <1>5, <2>1 DEF RowsBefore
<1> QED
  BY <1>1, <1>4, <1>5

LEMMA RowsBeforeFinite ==
  ASSUME NEW t \in Tables[page], NEW n \in 0 .. 144
  PROVE  IsFiniteSet(RowsBefore(t, n)) /\ Line(t, n) \in Nat
<1> DEFINE T == {m \in 0 .. 144 : IsFiniteSet(RowsBefore(t, m))}
<1>1. 0 \in T
  BY RowsBeforeNone, FS_EmptySet
<1>2. ASSUME NEW m \in 0 .. 143, m \in T  PROVE m + 1 \in T
  <2>1. m \in Slots
    BY DEF Slots
  <2>2. IsFiniteSet(RowsBefore(t, m) \cup {Slot(t, m)})
    BY <1>2, FS_AddElement
  <2> QED
    BY <1>2, <2>1, <2>2, RowsBeforeNext
<1> HIDE DEF T
<1>3. 0 .. 144 \subseteq T
  BY <1>1, <1>2, UpTo
<1>4. IsFiniteSet(RowsBefore(t, n))
  BY <1>3 DEF T
<1> QED
  BY <1>4, FS_CardinalityType DEF Line

LEMMA LineNext ==
  ASSUME NEW t \in Tables[page], NEW n \in Slots
  PROVE  /\ Line(t, 0) = 0
         /\ Line(t, n + 1) = IF Taken(t, n) THEN Line(t, n) + 1 ELSE Line(t, n)
<1>1. IsFiniteSet(RowsBefore(t, n)) /\ n \in 0 .. 144
  BY RowsBeforeFinite DEF Slots
<1>2. Cardinality(RowsBefore(t, n) \cup {Slot(t, n)}) = Cardinality(RowsBefore(t, n)) + 1
  BY <1>1, FS_AddElement, RowsBeforeNext
<1> QED
  BY <1>2, RowsBeforeNone, FS_EmptySet, RowsBeforeNext DEF Line

-----------------------------------------------------------------------------
(* The text of a port. *)

Glyphs == {Chars[k] : k \in 1 .. 62}
Glyph(k) == Chars[k + 1]

LEMMA NotGlyphs == "underscore" \notin Glyphs /\ "newline" \notin Glyphs
<1>1. \A k \in 1 .. 62 : Chars[k] # "underscore"
  BY DEF Chars
<1>2. \A k \in 1 .. 62 : Chars[k] # "newline"
  BY DEF Chars
<1> QED BY <1>1, <1>2 DEF Glyphs

LEMMA DigitOfGlyph ==
  ASSUME NEW k \in 0 .. 15
  PROVE  Glyph(k) \in Glyphs /\ DigitOf(Glyph(k)) = k
<1>1. \A i \in 0 .. 61 : Chars[i + 1] = Chars[k + 1] => i = k
  BY DEF Chars
<1>2. k \in 0 .. 61 /\ k + 1 \in 1 .. 62
  OBVIOUS
<1> QED
  BY <1>1, <1>2 DEF DigitOf, Glyph, Glyphs

LEMMA NumberOfGlyph ==
  ASSUME NEW n \in 0 .. 9
  PROVE  Ntoalpha(n) = Glyph(n) /\ Alphaton(Glyph(n)) = n
BY DigitOfGlyph DEF Ntoalpha, Alphaton, Glyph

LEMMA BitsOfHex ==
  ASSUME NEW w \in Nat
  PROVE  /\ Bits(w, 0, 4) \in 0 .. 15 /\ Bits(w, 4, 4) \in 0 .. 15
         /\ Bits(w, 8, 4) \in 0 .. 15 /\ Bits(w, 12, 4) \in 0 .. 15
         /\ 16 * Bits(w, 4, 4) + Bits(w, 0, 4) = w % 256
         /\ 4096 * Bits(w, 12, 4) + 256 * Bits(w, 8, 4) + 16 * Bits(w, 4, 4) + Bits(w, 0, 4) = w % 65536
<1>1. /\ Bits(w, 0, 4) \in 0 .. 15 /\ Bits(w, 4, 4) \in 0 .. 15
      /\ Bits(w, 8, 4) \in 0 .. 15 /\ Bits(w, 12, 4) \in 0 .. 15
  BY SMT DEF Bits
<1>2. 16 * Bits(w, 4, 4) + Bits(w, 0, 4) = w % 256
  BY SMT DEF Bits
<1>3. 4096 * Bits(w, 12, 4) + 256 * Bits(w, 8, 4) + 16 * Bits(w, 4, 4) + Bits(w, 0, 4) = w % 65536
  BY SMT DEF Bits
<1> QED
  BY <1>1, <1>2, <1>3

LEMMA HexType ==
  ASSUME NEW w \in Nat, NEW k \in {2, 4}
  PROVE  /\ Hex(w, k) \in Seq(Glyphs) /\ Len(Hex(w, k)) = k
         /\ \A i \in 1 .. k : Hex(w, k)[i] = Glyph(Bits(w, 4 * (k - i), 4))
<1>1. \A i \in 1 .. k : Bits(w, 4 * (k - i), 4) \in 0 .. 15
  <2>1. CASE k = 2
    <3>1. Bits(w, 4 * (2 - 1), 4) \in 0 .. 15 /\ Bits(w, 4 * (2 - 2), 4) \in 0 .. 15
      BY BitsOfHex
    <3>2. \A i \in 1 .. 2 : i = 1 \/ i = 2
      OBVIOUS
    <3> QED
      BY <2>1, <3>1, <3>2
  <2>2. CASE k = 4
    <3>1. /\ Bits(w, 4 * (4 - 1), 4) \in 0 .. 15 /\ Bits(w, 4 * (4 - 2), 4) \in 0 .. 15
          /\ Bits(w, 4 * (4 - 3), 4) \in 0 .. 15 /\ Bits(w, 4 * (4 - 4), 4) \in 0 .. 15
      BY BitsOfHex
    <3>2. \A i \in 1 .. 4 : i = 1 \/ i = 2 \/ i = 3 \/ i = 4
      OBVIOUS
    <3> QED
      BY <2>2, <3>1, <3>2
  <2> QED
    BY <2>1, <2>2
<1>2. \A i \in 1 .. k : Glyph(Bits(w, 4 * (k - i), 4)) \in Glyphs
  BY <1>1, DigitOfGlyph
<1> QED
  BY <1>2 DEF Hex, Glyph

IsValue(s, N, f) == f = [n \in 0 .. N |-> IF n = 0 THEN 0 ELSE 16 * f[n - 1] + DigitOf(s[n])]

LEMMA ParseTwo ==
  ASSUME NEW s, Len(s) = 2, DigitOf(s[1]) \in 0 .. 15, DigitOf(s[2]) \in 0 .. 15
  PROVE  ParseHex(s) = 16 * DigitOf(s[1]) + DigitOf(s[2])
<1> DEFINE i == DigitOf(s[1])
           j == DigitOf(s[2])
           g == [n \in 0 .. 2 |-> IF n = 0 THEN 0 ELSE IF n = 1 THEN i ELSE 16 * i + j]
           f == CHOOSE f : IsValue(s, Len(s), f)
<1>1. IsValue(s, 2, g)
  BY DEF IsValue
<1>2. IsValue(s, 2, f)
  BY <1>1
<1>3. ParseHex(s) = f[2]
  BY DEF ParseHex, IsValue
<1> HIDE DEF f
<1>4. f[0] = 0 /\ \A n \in 1 .. 2 : f[n] = 16 * f[n - 1] + DigitOf(s[n])
  BY <1>2 DEF IsValue
<1>5. f[1] = i
  BY <1>4
<1>6. f[2] = 16 * f[1] + j
  BY <1>4
<1> QED
  BY <1>3, <1>5, <1>6

LEMMA ParseFour ==
  ASSUME NEW s, Len(s) = 4, DigitOf(s[1]) \in 0 .. 15, DigitOf(s[2]) \in 0 .. 15,
         DigitOf(s[3]) \in 0 .. 15, DigitOf(s[4]) \in 0 .. 15
  PROVE  ParseHex(s) = 4096 * DigitOf(s[1]) + 256 * DigitOf(s[2]) + 16 * DigitOf(s[3]) + DigitOf(s[4])
<1> DEFINE i == DigitOf(s[1])
           j == DigitOf(s[2])
           k == DigitOf(s[3])
           l == DigitOf(s[4])
           g == [n \in 0 .. 4 |-> IF n = 0 THEN 0 ELSE IF n = 1 THEN i ELSE IF n = 2 THEN 16 * i + j
                                  ELSE IF n = 3 THEN 256 * i + 16 * j + k
                                  ELSE 4096 * i + 256 * j + 16 * k + l]
           f == CHOOSE f : IsValue(s, Len(s), f)
<1>1. IsValue(s, 4, g)
  BY DEF IsValue
<1>2. IsValue(s, 4, f)
  BY <1>1
<1>3. ParseHex(s) = f[4]
  BY DEF ParseHex, IsValue
<1> HIDE DEF f
<1>4. f[0] = 0 /\ \A n \in 1 .. 4 : f[n] = 16 * f[n - 1] + DigitOf(s[n])
  BY <1>2 DEF IsValue
<1>5. f[1] = i
  BY <1>4
<1>6. f[2] = 16 * f[1] + j
  BY <1>4
<1>7. f[3] = 16 * f[2] + k
  BY <1>4
<1>8. f[4] = 16 * f[3] + l
  BY <1>4
<1> QED
  BY <1>3, <1>5, <1>6, <1>7, <1>8

\* the number that the script reads from the port's text
Mask == IF page = "eth" THEN 65536 ELSE 256

LEMMA PortTextIs ==
  ASSUME page \in Pages, NEW b \in Boards, NEW p \in 0 .. 9, NEW w \in Nat
  PROVE  /\ PortText(b, p, w) \in Seq(Glyphs) /\ Len(PortText(b, p, w)) = PortLen
         /\ Alphaton(PortText(b, p, w)[1]) = b /\ Alphaton(PortText(b, p, w)[2]) = p
         /\ Config(PortText(b, p, w)) = w % Mask
<1> DEFINE h == <<Ntoalpha(b), Ntoalpha(p)>>
           m == PortText(b, p, w)
<1>1. h \in Seq(Glyphs) /\ Len(h) = 2 /\ Alphaton(h[1]) = b /\ Alphaton(h[2]) = p
  <2>1. b \in 0 .. 9
    BY DEF Boards
  <2>2. b \in 0 .. 15 /\ p \in 0 .. 15
    BY <2>1
  <2>3. Ntoalpha(b) \in Glyphs /\ Ntoalpha(p) \in Glyphs
    BY <2>1, <2>2, NumberOfGlyph, DigitOfGlyph
  <2>4. Alphaton(Ntoalpha(b)) = b /\ Alphaton(Ntoalpha(p)) = p
    BY <2>1, NumberOfGlyph
  <2> QED
    BY <2>3, <2>4
<1> HIDE DEF h
<1>2. CASE page = "eth"
  <2> DEFINE x == Hex(w, 4)
  <2>1. m = h \o x
    BY <1>2 DEF PortText, EthMakeData, h
  <2>2. /\ x \in Seq(Glyphs) /\ Len(x) = 4
        /\ \A i \in 1 .. 4 : x[i] = Glyph(Bits(w, 4 * (4 - i), 4))
    BY HexType
  <2> HIDE DEF x
  <2>3. /\ h \o x \in Seq(Glyphs) /\ Len(h \o x) = 2 + 4
        /\ \A i \in 1 .. 2 + 4 : (h \o x)[i] = IF i =< 2 THEN h[i] ELSE x[i - 2]
    <3>1. /\ h \o x \in Seq(Glyphs) /\ Len(h \o x) = Len(h) + Len(x)
          /\ \A i \in 1 .. Len(h) + Len(x) :
               (h \o x)[i] = IF i =< Len(h) THEN h[i] ELSE x[i - Len(h)]
      BY <1>1, <2>2, ConcatProperties
    <3> QED
      BY <3>1, <1>1, <2>2
  <2> HIDE DEF m
  <2>4. m \in Seq(Glyphs) /\ Len(m) = 6 /\ m[1] = h[1] /\ m[2] = h[2]
        /\ m[3] = x[1] /\ m[4] = x[2] /\ m[5] = x[3] /\ m[6] = x[4]
    <3>1. m \in Seq(Glyphs) /\ Len(m) = 6
      BY <2>1, <2>3
    <3>2. m[1] = h[1] /\ m[2] = h[2]
      BY <2>1, <2>3
    <3>3. m[3] = x[1] /\ m[4] = x[2]
      BY <2>1, <2>3
    <3>4. m[5] = x[3] /\ m[6] = x[4]
      BY <2>1, <2>3
    <3> QED
      BY <3>1, <3>2, <3>3, <3>4
  <2> DEFINE s == SubSeq(m, 3, 6)
  <2>5. Len(s) = 4 /\ \A i \in 1 .. 4 : s[i] = m[3 + i - 1]
    BY <2>4, SubSeqProperties
  <2> HIDE DEF s
  <2>6. s[1] = x[1] /\ s[2] = x[2] /\ s[3] = x[3] /\ s[4] = x[4]
    BY <2>4, <2>5
  <2>7. /\ x[1] = Glyph(Bits(w, 12, 4)) /\ x[2] = Glyph(Bits(w, 8, 4))
        /\ x[3] = Glyph(Bits(w, 4, 4)) /\ x[4] = Glyph(Bits(w, 0, 4))
    BY <2>2
  <2>8. /\ DigitOf(s[1]) = Bits(w, 12, 4) /\ DigitOf(s[2]) = Bits(w, 8, 4)
        /\ DigitOf(s[3]) = Bits(w, 4, 4) /\ DigitOf(s[4]) = Bits(w, 0, 4)
    <3>1. /\ Bits(w, 0, 4) \in 0 .. 15 /\ Bits(w, 4, 4) \in 0 .. 15
          /\ Bits(w, 8, 4) \in 0 .. 15 /\ Bits(w, 12, 4) \in 0 .. 15
      BY BitsOfHex
    <3>2. \A k \in 0 .. 15 : DigitOf(Glyph(k)) = k
      BY DigitOfGlyph
    <3> QED
      BY <2>6, <2>7, <3>1, <3>2
  <2>9. ParseHex(s) = w % 65536
    <3>0. 4096 * Bits(w, 12, 4) + 256 * Bits(w, 8, 4) + 16 * Bits(w, 4, 4) + Bits(w, 0, 4) = w % 65536
      BY BitsOfHex
    <3>1. ParseHex(s) = 4096 * Bits(w, 12, 4) + 256 * Bits(w, 8, 4) + 16 * Bits(w, 4, 4) + Bits(w, 0, 4)
      <4>1. /\ DigitOf(s[1]) \in 0 .. 15 /\ DigitOf(s[2]) \in 0 .. 15
            /\ DigitOf(s[3]) \in 0 .. 15 /\ DigitOf(s[4]) \in 0 .. 15
        BY <2>8, BitsOfHex
      <4>2. ParseHex(s) = 4096 * DigitOf(s[1]) + 256 * DigitOf(s[2]) + 16 * DigitOf(s[3]) + DigitOf(s[4])
        BY <2>5, <4>1, ParseFour
      <4> QED
        BY <2>8, <4>2
    <3> QED
      BY <3>0, <3>1
  <2> QED
    BY <1>1, <1>2, <2>4, <2>9 DEF s, m, Config, Mask, PortLen
<1>3. CASE page # "eth"
  <2> DEFINE x == Hex(w, 2)
             z == Hex(0, 2)
             y == h \o x
  <2>1. m = h \o x \o z
    BY <1>3 DEF PortText, MakeData, h
  <2>2. /\ x \in Seq(Glyphs) /\ Len(x) = 2
        /\ \A i \in 1 .. 2 : x[i] = Glyph(Bits(w, 4 * (2 - i), 4))
    BY HexType
  <2>z. z \in Seq(Glyphs) /\ Len(z) = 2
    BY HexType
  <2> HIDE DEF x, z
  <2>3. /\ h \o x \in Seq(Glyphs) /\ Len(h \o x) = 2 + 2
        /\ \A i \in 1 .. 2 + 2 : (h \o x)[i] = IF i =< 2 THEN h[i] ELSE x[i - 2]
    <3>1. /\ h \o x \in Seq(Glyphs) /\ Len(h \o x) = Len(h) + Len(x)
          /\ \A i \in 1 .. Len(h) + Len(x) :
               (h \o x)[i] = IF i =< Len(h) THEN h[i] ELSE x[i - Len(h)]
      BY <1>1, <2>2, ConcatProperties
    <3> QED
      BY <3>1, <1>1, <2>2
  <2>b. /\ y \in Seq(Glyphs) /\ Len(y) = 4 /\ m = y \o z
        /\ y[1] = h[1] /\ y[2] = h[2] /\ y[3] = x[1] /\ y[4] = x[2]
    BY <2>1, <2>3
  <2> HIDE DEF y, m
  <2>c. /\ y \o z \in Seq(Glyphs) /\ Len(y \o z) = Len(y) + Len(z)
        /\ \A i \in 1 .. Len(y) + Len(z) : (y \o z)[i] = IF i =< Len(y) THEN y[i] ELSE z[i - Len(y)]
    BY <2>b, <2>z, ConcatProperties
  <2>4. m \in Seq(Glyphs) /\ Len(m) = 6 /\ m[1] = h[1] /\ m[2] = h[2]
        /\ m[3] = x[1] /\ m[4] = x[2]
    BY <2>b, <2>c, <2>z
  <2> DEFINE s == SubSeq(m, 3, 4)
  <2>5. Len(s) = 2 /\ \A i \in 1 .. 2 : s[i] = m[3 + i - 1]
    BY <2>4, SubSeqProperties
  <2> HIDE DEF s
  <2>6. s[1] = x[1] /\ s[2] = x[2]
    BY <2>4, <2>5
  <2>7. x[1] = Glyph(Bits(w, 4, 4)) /\ x[2] = Glyph(Bits(w, 0, 4))
    BY <2>2
  <2>8. DigitOf(s[1]) = Bits(w, 4, 4) /\ DigitOf(s[2]) = Bits(w, 0, 4)
    <3>1. Bits(w, 0, 4) \in 0 .. 15 /\ Bits(w, 4, 4) \in 0 .. 15
      BY BitsOfHex
    <3>2. \A k \in 0 .. 15 : DigitOf(Glyph(k)) = k
      BY DigitOfGlyph
    <3> QED
      BY <2>6, <2>7, <3>1, <3>2
  <2>9. ParseHex(s) = w % 256
    <3>1. ParseHex(s) = 16 * Bits(w, 4, 4) + Bits(w, 0, 4)
      <4>1. DigitOf(s[1]) \in 0 .. 15 /\ DigitOf(s[2]) \in 0 .. 15
        BY <2>8, BitsOfHex
      <4>2. ParseHex(s) = 16 * DigitOf(s[1]) + DigitOf(s[2])
        BY <2>5, <4>1, ParseTwo
      <4> QED
        BY <2>8, <4>2
    <3> QED
      BY <3>1, BitsOfHex
  <2> QED
    BY <1>1, <1>3, <2>4, <2>9 DEF s, m, Config, Mask, PortLen
<1> QED
  BY <1>2, <1>3

-----------------------------------------------------------------------------
(* The text of a table. *)

\* what one round of the loops makes of the text before it
WithRow(t, n, s) ==
  IF Taken(t, n) THEN s \o PortText(n \div MaxPorts, n % MaxPorts, words[Slot(t, n)]) ELSE s
IsText(t, N, f) ==
  f = [n \in 0 .. N |-> IF n = 0 THEN <<>> ELSE WithRow(t, n - 1, f[n - 1])]

LEMMA TextsExist ==
  ASSUME NEW t, NEW N \in Nat
  PROVE  \E f : IsText(t, N, f)
<1> DEFINE T == {n \in 0 .. N : \E f : IsText(t, n, f)}
<1>1. 0 \in T
  <2> DEFINE f == [n \in 0 .. 0 |-> <<>>]
  <2>1. IsText(t, 0, f)
    BY DEF IsText
  <2> QED
    BY <2>1
<1>2. ASSUME NEW n \in 0 .. N - 1, n \in T  PROVE n + 1 \in T
  <2>1. PICK f : IsText(t, n, f)
    BY <1>2
  <2> DEFINE g == [m \in 0 .. n + 1 |-> IF m = 0 THEN <<>> ELSE WithRow(t, m - 1, f[m - 1])]
  <2>2. ASSUME NEW m \in 0 .. n + 1, m # 0  PROVE g[m - 1] = f[m - 1]
    <3>1. m - 1 \in 0 .. n /\ m - 1 \in 0 .. n + 1
      BY <2>2
    <3> QED
      BY <2>1, <3>1 DEF IsText
  <2>3. g = [m \in 0 .. n + 1 |-> IF m = 0 THEN <<>> ELSE WithRow(t, m - 1, g[m - 1])]
    <3> DEFINE h == [m \in 0 .. n + 1 |-> IF m = 0 THEN <<>> ELSE WithRow(t, m - 1, g[m - 1])]
    <3>1. \A m \in 0 .. n + 1 : g[m] = h[m]
      BY <2>2
    <3> QED
      BY <3>1
  <2> HIDE DEF g
  <2>4. IsText(t, n + 1, g)
    BY <2>3 DEF IsText
  <2>5. n + 1 \in 0 .. N
    OBVIOUS
  <2> QED
    BY <2>4, <2>5
<1> HIDE DEF T
<1>3. N \in T
  BY <1>1, <1>2, UpTo
<1> QED
  BY <1>3 DEF T

LEMMA PortsTextIs ==
  ASSUME NEW t
  PROVE  \E f : IsText(t, 9 * MaxPorts, f) /\ PortsText(t) = f[9 * MaxPorts]
<1> DEFINE f == CHOOSE f : IsText(t, 9 * MaxPorts, f)
<1>1. \E g : IsText(t, 9 * MaxPorts, g)
  BY TextsExist DEF MaxPorts
<1>2. IsText(t, 9 * MaxPorts, f)
  BY <1>1
<1>3. PortsText(t) = f[9 * MaxPorts]
  BY DEF PortsText, IsText, WithRow, Taken, Slot
<1> QED
  BY <1>2, <1>3

RowText(x) == PortText(x[2], x[3], words[x])

\* The rows of the first n slots are in s, each at its line.
LaidUpTo(t, n, s) ==
  /\ s \in Seq(Glyphs) /\ Len(s) = 6 * Line(t, n)
  /\ \A x \in RowsBefore(t, n), j \in 1 .. 6 :
       /\ 6 * Line(t, Place(x)) + j \in 1 .. Len(s)
       /\ s[6 * Line(t, Place(x)) + j] = RowText(x)[j]

StateType == page \in Pages /\ words \in [Rows -> Nat]

LEMMA TableNames ==
  ASSUME page \in Pages, NEW t \in Tables[page]
  PROVE  t \in {"opt", "ge", "fe", "e1"}
BY DEF Pages, Tables

LEMMA AmountType ==
  ASSUME NEW t \in {"opt", "ge", "fe", "e1"}, NEW b
  PROVE  /\ Amounts[t] \in 0 .. 8
         /\ Amount(chassis, t, b) = 0 \/ Amount(chassis, t, b) = Amounts[t]
BY DEF Amount, Amounts

LEMMA RowTextIs ==
  ASSUME StateType, NEW x \in Rows
  PROVE  /\ RowText(x) \in Seq(Glyphs) /\ Len(RowText(x)) = 6
         /\ Alphaton(RowText(x)[1]) = x[2] /\ Alphaton(RowText(x)[2]) = x[3]
         /\ Config(RowText(x)) = words[x] % Mask
<1>1. x[2] \in Boards /\ x[3] \in 0 .. 9
  <2>1. x[3] \in 0 .. MaxPorts - 1 /\ x[3] < Amount(chassis, x[1], x[2])
    BY DEF Rows, RowsOf
  <2>2. x[1] \in {"opt", "ge", "fe", "e1"}
    BY RowType, TableNames DEF StateType
  <2>3. Amount(chassis, x[1], x[2]) \in 0 .. 8
    BY <2>2, AmountType
  <2> QED
    BY <2>1, <2>3, RowType DEF MaxPorts
<1>2. words[x] \in Nat
  BY DEF StateType
<1> QED
  BY <1>1, <1>2, PortTextIs DEF StateType, RowText, PortLen

LEMMA LaidNext ==
  ASSUME StateType, NEW t \in Tables[page], NEW n \in Slots, NEW s, LaidUpTo(t, n, s)
  PROVE  LaidUpTo(t, n + 1, WithRow(t, n, s))
<1>0. /\ Line(t, n) \in Nat /\ n \in 0 .. 144
      /\ Line(t, n + 1) = IF Taken(t, n) THEN Line(t, n) + 1 ELSE Line(t, n)
  BY LineNext, RowsBeforeFinite DEF Slots
<1>1. CASE ~ Taken(t, n)
  <2>1. RowsBefore(t, n + 1) = RowsBefore(t, n)
    BY <1>1, RowsBeforeNext
  <2> QED
    BY <1>0, <1>1, <2>1 DEF LaidUpTo, WithRow
<1>2. CASE Taken(t, n)
  <2> DEFINE r == Slot(t, n)
             m == RowText(r)
             u == s \o m
             l == Line(t, n)
  <2>1. r \in Rows /\ Place(r) = n
    BY <1>2, SlotOfRow
  <2>2. /\ RowsBefore(t, n + 1) = RowsBefore(t, n) \cup {r}
        /\ Line(t, n + 1) = l + 1
    BY <1>0, <1>2, RowsBeforeNext
  <2>3. WithRow(t, n, s) = u
    BY <1>2 DEF WithRow, RowText, Slot
  <2>4. m \in Seq(Glyphs) /\ Len(m) = 6
    BY <2>1, RowTextIs
  <2>5. s \in Seq(Glyphs) /\ Len(s) = 6 * l
    BY DEF LaidUpTo
  <2> HIDE DEF r, m, l, u
  <2>6. /\ u \in Seq(Glyphs) /\ Len(u) = Len(s) + Len(m)
        /\ \A i \in 1 .. Len(s) + Len(m) : u[i] = IF i =< Len(s) THEN s[i] ELSE m[i - Len(s)]
    BY <2>4, <2>5, ConcatProperties DEF u
  <2>7. l \in Nat /\ Len(u) = 6 * (l + 1)
    BY <1>0, <2>4, <2>5, <2>6 DEF l
  <2>8. ASSUME NEW x \in RowsBefore(t, n), NEW j \in 1 .. 6
        PROVE  /\ 6 * Line(t, Place(x)) + j \in 1 .. Len(u)
               /\ u[6 * Line(t, Place(x)) + j] = RowText(x)[j]
    <3> DEFINE i == 6 * Line(t, Place(x)) + j
    <3>1. i \in 1 .. Len(s) /\ s[i] = RowText(x)[j]
      BY DEF LaidUpTo
    <3> HIDE DEF i
    <3>2. i \in 1 .. Len(u) /\ u[i] = s[i]
      BY <2>4, <2>5, <2>6, <2>7, <3>1
    <3> QED
      BY <3>1, <3>2 DEF i
  <2>9. ASSUME NEW j \in 1 .. 6
        PROVE  /\ 6 * Line(t, Place(r)) + j \in 1 .. Len(u)
               /\ u[6 * Line(t, Place(r)) + j] = RowText(r)[j]
    <3>1. Line(t, Place(r)) = l
      BY <2>1 DEF l
    <3>2. 6 * l + j \in 1 .. Len(u) /\ u[6 * l + j] = m[j]
      BY <2>4, <2>5, <2>6, <2>7
    <3> QED
      BY <3>1, <3>2 DEF m
  <2> QED
    BY <2>2, <2>3, <2>6, <2>7, <2>8, <2>9 DEF LaidUpTo
<1> QED
  BY <1>1, <1>2

\* A table's text has all its rows.
LEMMA TextLaid ==
  ASSUME StateType, NEW t \in Tables[page]
  PROVE  LaidUpTo(t, 144, PortsText(t))
<1>1. PICK f : IsText(t, 9 * MaxPorts, f) /\ PortsText(t) = f[9 * MaxPorts]
  BY PortsTextIs
<1>2. /\ PortsText(t) = f[144] /\ f[0] = <<>>
      /\ \A n \in 0 .. 143 : f[n + 1] = WithRow(t, n, f[n])
  <2>1. 9 * MaxPorts = 144
    BY DEF MaxPorts
  <2>2. f = [n \in 0 .. 144 |-> IF n = 0 THEN <<>> ELSE WithRow(t, n - 1, f[n - 1])]
    BY <1>1, <2>1 DEF IsText
  <2>3. ASSUME NEW n \in 0 .. 143  PROVE f[n + 1] = WithRow(t, n, f[n])
    <3>1. n + 1 \in 0 .. 144 /\ n + 1 # 0 /\ (n + 1) - 1 = n
      OBVIOUS
    <3> QED
      BY <2>2, <3>1
  <2>4. f[0] = <<>>
    BY <2>2
  <2> QED
    BY <1>1, <2>1, <2>3, <2>4
<1> DEFINE T == {n \in 0 .. 144 : LaidUpTo(t, n, f[n])}
<1>3. 0 \in T
  <2>1. Line(t, 0) = 0
    BY LineNext DEF Slots
  <2>2. <<>> \in Seq(Glyphs) /\ Len(<<>>) = 0
    OBVIOUS
  <2>3. LaidUpTo(t, 0, <<>>)
    BY <2>1, <2>2, RowsBeforeNone DEF LaidUpTo
  <2>4. LaidUpTo(t, 0, f[0])
    BY <1>2, <2>3
  <2> QED
    BY <2>4
<1>4. ASSUME NEW n \in 0 .. 143, n \in T  PROVE n + 1 \in T
  <2>1. n \in Slots /\ n + 1 \in 0 .. 144 /\ LaidUpTo(t, n, f[n])
    BY <1>4 DEF Slots
  <2>2. LaidUpTo(t, n + 1, WithRow(t, n, f[n]))
    <3> HIDE DEF T
    <3> QED
      BY <2>1, LaidNext
  <2>3. LaidUpTo(t, n + 1, f[n + 1])
    BY <1>2, <2>2
  <2> QED
    BY <2>1, <2>3
<1> HIDE DEF T
<1>5. 0 .. 144 \subseteq T
  BY <1>3, <1>4, UpTo
<1> QED
  BY <1>2, <1>5 DEF T

\* A board has so many ports.
LEMMA LineBound ==
  ASSUME page \in Pages, NEW t \in Tables[page]
  PROVE  Line(t, 144) =< 9 * Amounts[t]
<1>0. Amounts[t] \in 0 .. 8 /\ t \in {"opt", "ge", "fe", "e1"}
  BY TableNames, AmountType
<1> DEFINE A == Amounts[t]
           Least(r) == IF r < A THEN r ELSE A
           Most(n) == A * (n \div 16) + Least(n % 16)
           T == {n \in 0 .. 144 : Line(t, n) =< Most(n)}
<1>1. 0 \in T
  BY <1>0, LineNext DEF Slots
<1>2. ASSUME NEW n \in 0 .. 143, n \in T  PROVE n + 1 \in T
  <2>1. Line(t, n) \in Nat /\ Line(t, n) =< Most(n)
    BY <1>2, RowsBeforeFinite
  <2>2. /\ Line(t, n + 1) = IF Taken(t, n) THEN Line(t, n) + 1 ELSE Line(t, n)
        /\ Taken(t, n) => n % 16 < A
    BY <1>0, LineNext, AmountType DEF Slots, Taken, MaxPorts
  <2>3. n \div 16 \in 0 .. 8 /\ n % 16 \in 0 .. 15
    BY SMT
  <2>4. PICK q \in 0 .. 8, r \in 0 .. 15 : q = n \div 16 /\ r = n % 16
    BY <2>3
  <2>5. PICK k \in Nat : k = A * q /\ A * (q + 1) = k + A
    <3>1. A * q \in Nat /\ A * (q + 1) = A * q + A
      BY <1>0
    <3> QED
      BY <3>1
  <2>6. Most(n) = k + Least(r)
    BY <2>4, <2>5
  <2>7. /\ r = 15 => Most(n + 1) = k + A
        /\ r # 15 => Most(n + 1) = k + Least(r + 1)
    <3>1. CASE r = 15
      <4>1. (n + 1) \div 16 = (n \div 16) + 1 /\ (n + 1) % 16 = 0
        BY <2>4, <3>1, SMT
      <4>2. A * ((n + 1) \div 16) = k + A /\ Least(0) = 0
        BY <1>0, <2>4, <2>5, <4>1
      <4> QED
        BY <1>0, <2>5, <3>1, <4>1, <4>2
    <3>2. CASE r # 15
      <4>1. (n + 1) \div 16 = n \div 16 /\ (n + 1) % 16 = (n % 16) + 1
        BY <2>4, <3>2, SMT
      <4>2. A * ((n + 1) \div 16) = k
        BY <2>4, <2>5, <4>1
      <4> QED
        BY <2>4, <3>2, <4>1, <4>2
    <3> QED
      BY <3>1, <3>2
  <2>8. PICK l \in Nat, m \in Nat : l = Line(t, n) /\ m = Line(t, n + 1) /\ l =< k + Least(r)
        /\ m = (IF Taken(t, n) THEN l + 1 ELSE l) /\ (Taken(t, n) => r < A)
    BY <2>1, <2>2, <2>4, <2>6
  <2>9. m =< Most(n + 1)
    <3> HIDE DEF Most
    <3>1. CASE Taken(t, n)
      BY <1>0, <2>7, <2>8, <3>1
    <3>2. CASE ~ Taken(t, n)
      BY <1>0, <2>7, <2>8, <3>2
    <3> QED
      BY <3>1, <3>2
  <2> HIDE DEF Most
  <2> QED
    BY <2>8, <2>9
<1>3. Most(144) = 9 * A
  BY <1>0, SMT
<1> HIDE DEF T, Most
<1>4. 0 .. 144 \subseteq T
  BY <1>1, <1>2, UpTo
<1> QED
  BY <1>3, <1>4 DEF T

-----------------------------------------------------------------------------
(* The text of a page, and what the script finds in it. *)
Letters == Glyphs \cup {"underscore", "F", "E", "newline"}
EthText(a, b) == a \o <<"underscore", "F", "E", "underscore">> \o b \o <<"newline">>

LEMMA EthTextIs ==
  ASSUME NEW a \in Seq(Glyphs), NEW b \in Seq(Glyphs)
  PROVE  /\ EthText(a, b) \in Seq(Letters) /\ Len(EthText(a, b)) = Len(a) + Len(b) + 5
         /\ \A i \in 1 .. Len(a) : EthText(a, b)[i] = a[i]
         /\ EthText(a, b)[Len(a) + 1] = "underscore"
         /\ \A i \in 1 .. Len(b) : EthText(a, b)[Len(a) + 4 + i] = b[i]
<1> DEFINE m == <<"underscore", "F", "E", "underscore">>
           n == <<"newline">>
           u == a \o m
           v == u \o b
           w == v \o n
<1>1. /\ a \in Seq(Letters) /\ b \in Seq(Letters)
      /\ Len(a) \in Nat /\ Len(b) \in Nat
  BY SeqMonotonic, LenProperties DEF Letters
<1>2. m \in Seq(Letters) /\ Len(m) = 4 /\ m[1] = "underscore" /\ n \in Seq(Letters) /\ Len(n) = 1
  BY DEF Letters
<1> HIDE DEF m, n
<1>3. /\ u \in Seq(Letters) /\ Len(u) = Len(a) + Len(m)
      /\ \A i \in 1 .. Len(a) + Len(m) : u[i] = IF i =< Len(a) THEN a[i] ELSE m[i - Len(a)]
  BY <1>1, <1>2, ConcatProperties
<1> HIDE DEF u
<1>4. /\ v \in Seq(Letters) /\ Len(v) = Len(u) + Len(b)
      /\ \A i \in 1 .. Len(u) + Len(b) : v[i] = IF i =< Len(u) THEN u[i] ELSE b[i - Len(u)]
  <2>1. u \in Seq(Letters)
    BY <1>3
  <2> QED
    BY <1>1, <2>1, ConcatProperties
<1> HIDE DEF v
<1>5. /\ w \in Seq(Letters) /\ Len(w) = Len(v) + Len(n)
      /\ \A i \in 1 .. Len(v) + Len(n) : w[i] = IF i =< Len(v) THEN v[i] ELSE n[i - Len(v)]
  <2>1. v \in Seq(Letters) /\ n \in Seq(Letters)
    BY <1>2, <1>4
  <2> QED
    BY <2>1, ConcatProperties
<1> HIDE DEF w
<1>6. w = EthText(a, b)
  BY DEF w, v, u, m, n, EthText
<1>7. \A i \in 1 .. Len(a) : w[i] = a[i]
  BY <1>1, <1>2, <1>3, <1>4, <1>5
<1>8. w[Len(a) + 1] = "underscore"
  <2>1. u[Len(a) + 1] = m[1] /\ v[Len(a) + 1] = u[Len(a) + 1] /\ w[Len(a) + 1] = v[Len(a) + 1]
    BY <1>1, <1>2, <1>3, <1>4, <1>5
  <2> QED
    BY <1>2, <2>1
<1>9. ASSUME NEW i \in 1 .. Len(b)  PROVE w[Len(a) + 4 + i] = b[i]
  <2>1. Len(u) = Len(a) + 4 /\ Len(a) + 4 + i - Len(u) = i
    BY <1>1, <1>2, <1>3
  <2>2. v[Len(a) + 4 + i] = b[i] /\ w[Len(a) + 4 + i] = v[Len(a) + 4 + i]
    BY <1>1, <1>2, <1>4, <1>5, <2>1
  <2> QED
    BY <2>2
<1> QED
  BY <1>1, <1>2, <1>3, <1>4, <1>5, <1>6, <1>7, <1>8, <1>9

LEMMA ByteTextIs ==
  ASSUME NEW a \in Seq(Glyphs)
  PROVE  /\ a \o <<"newline">> \in Seq(Letters) /\ Len(a \o <<"newline">>) = Len(a) + 1
         /\ \A i \in 1 .. Len(a) : (a \o <<"newline">>)[i] = a[i]
<1> DEFINE n == <<"newline">>
           u == a \o n
<1>1. a \in Seq(Letters) /\ Len(a) \in Nat
  BY SeqMonotonic, LenProperties DEF Letters
<1>2. n \in Seq(Letters) /\ Len(n) = 1
  BY DEF Letters
<1> HIDE DEF n
<1>3. /\ u \in Seq(Letters) /\ Len(u) = Len(a) + Len(n)
      /\ \A i \in 1 .. Len(a) + Len(n) : u[i] = IF i =< Len(a) THEN a[i] ELSE n[i - Len(a)]
  BY <1>1, <1>2, ConcatProperties
<1> HIDE DEF u
<1>4. u \in Seq(Letters) /\ Len(u) = Len(a) + 1 /\ \A i \in 1 .. Len(a) : u[i] = a[i]
  BY <1>1, <1>2, <1>3
<1> QED
  BY <1>4 DEF u, n

\* The script finds the end of the first table.
LEMMA MarkIs ==
  ASSUME page = "eth", NEW a \in Seq(Glyphs), NEW b \in Seq(Glyphs)
  PROVE  Mark(EthText(a, b)) = Len(a) + 1
<1> DEFINE s == EthText(a, b)
           I == {i \in 1 .. Len(s) : s[i] = "underscore"}
           k == Len(a) + 1
<1>1. Len(a) \in Nat /\ Len(b) \in Nat /\ Len(s) = Len(a) + Len(b) + 5
  BY EthTextIs, LenProperties
<1>2. \A i \in 1 .. Len(a) : s[i] # "underscore"
  <2>1. \A i \in 1 .. Len(a) : s[i] = a[i] /\ a[i] \in Glyphs
    BY EthTextIs, ElementOfSeq
  <2> QED
    BY <2>1, NotGlyphs
<1>3. s[k] = "underscore"
  BY EthTextIs
<1> HIDE DEF s
<1>4. k \in I /\ \A i \in I : k =< i
  BY <1>1, <1>2, <1>3
<1>5. I \subseteq Int
  OBVIOUS
<1> DEFINE x == CHOOSE x \in I : \A y \in I : x =< y
<1>6. x \in I /\ \A y \in I : x =< y
  BY <1>4
<1>7. Mark(s) = x
  BY <1>4 DEF Mark, SelectInSeq, Min
<1> HIDE DEF I, k, x
<1>8. x =< k /\ k =< x /\ x \in Int /\ k \in Int
  BY <1>4, <1>5, <1>6
<1>9. x = k
  BY <1>8
<1> QED
  BY <1>7, <1>9 DEF s, k

\* Start, Count and Msg of some text.
StartIn(d, t) == IF t = "fe" THEN d.fe ELSE 1
CountIn(d, t) == IF t = "ge" THEN (d.fe - 5) \div PortLen
                 ELSE (Len(d.text) - StartIn(d, t) + 1) \div PortLen
MsgIn(d, t, line) ==
  SubSeq(d.text, StartIn(d, t) + line * PortLen, StartIn(d, t) + (line + 1) * PortLen - 1)
LineOf(x) == Line(x[1], Place(x))

\* The text has each row at its line, and nothing else.
LaidOut(d) ==
  /\ Len(d.text) - 1 =< InsertLen
  /\ \A t \in Tables[page] : CountIn(d, t) = Line(t, 144)
  /\ \A x \in Rows : /\ Alphaton(MsgIn(d, x[1], LineOf(x))[1]) = x[2]
                     /\ Alphaton(MsgIn(d, x[1], LineOf(x))[2]) = x[3]
                     /\ Config(MsgIn(d, x[1], LineOf(x))) = words[x] % Mask

StandsAt(d, t, s) ==
  /\ d.text \in Seq(Letters) /\ StartIn(d, t) \in Nat \ {0}
  /\ StartIn(d, t) + Len(s) - 1 =< Len(d.text)
  /\ \A i \in 1 .. Len(s) : d.text[StartIn(d, t) - 1 + i] = s[i]

LEMMA MsgIs ==
  ASSUME StateType, NEW x \in Rows, NEW d, NEW s, LaidUpTo(x[1], 144, s), StandsAt(d, x[1], s)
  PROVE  /\ Alphaton(MsgIn(d, x[1], LineOf(x))[1]) = x[2]
         /\ Alphaton(MsgIn(d, x[1], LineOf(x))[2]) = x[3]
         /\ Config(MsgIn(d, x[1], LineOf(x))) = words[x] % Mask
<1> DEFINE t == x[1]
           g == StartIn(d, t)
           l == LineOf(x)
           m == MsgIn(d, t, l)
           r == RowText(x)
           z == d.text
<1>1. x \in RowsBefore(t, 144) /\ l \in Nat
  <2>1. Place(x) \in 0 .. 143 /\ x[1] \in Tables[page]
    BY RowType DEF Slots
  <2>2. Place(x) \in 0 .. 144 /\ Place(x) < 144
    <3>1. \A p \in 0 .. 143 : p \in 0 .. 144 /\ p < 144
      OBVIOUS
    <3> QED
      BY <2>1, <3>1
  <2>3. Line(t, Place(x)) \in Nat
    BY <2>1, <2>2, RowsBeforeFinite
  <2> QED
    BY <2>2, <2>3 DEF RowsBefore, LineOf
<1>2. \A j \in 1 .. 6 : 6 * l + j \in 1 .. Len(s) /\ s[6 * l + j] = r[j]
  BY <1>1 DEF LaidUpTo, LineOf
<1>3. r \in Seq(Letters) /\ Len(r) = 6
  BY RowTextIs, SeqMonotonic DEF Letters
<1> HIDE DEF l, g, m, r, z
<1>4. /\ g \in Nat \ {0} /\ Len(s) \in Nat /\ z \in Seq(Letters) /\ g + Len(s) - 1 =< Len(z)
      /\ \A i \in 1 .. Len(s) : z[g - 1 + i] = s[i]
  BY LenProperties DEF g, z, LaidUpTo, StandsAt
<1>5. m = SubSeq(z, g + l * 6, g + l * 6 + 5)
  <2>1. g + (l + 1) * 6 - 1 = g + l * 6 + 5
    BY <1>1, <1>4
  <2>2. m = SubSeq(z, g + l * 6, g + (l + 1) * 6 - 1)
    BY DEF m, MsgIn, z, g, PortLen
  <2> QED
    BY <2>1, <2>2
<1> DEFINE h == g + l * 6
<1>6. /\ h \in Int /\ h + 5 \in Int /\ \A j \in 1 .. 6 : h + j - 1 \in 1 .. Len(z) /\ z[h + j - 1] = r[j]
  <2>1. ASSUME NEW j \in 1 .. 6  PROVE h + j - 1 \in 1 .. Len(z) /\ z[h + j - 1] = r[j]
    <3>1. 6 * l + j \in 1 .. Len(s) /\ s[6 * l + j] = r[j]
      BY <1>2
    <3>2. h + j - 1 = g - 1 + (6 * l + j)
      BY <1>1, <1>4
    <3>3. z[g - 1 + (6 * l + j)] = r[j]
      BY <1>4, <3>1
    <3>4. h + j - 1 \in 1 .. Len(z)
      <4>1. 6 * l + j =< Len(s)
        BY <3>1
      <4> QED
        BY <1>1, <1>4, <4>1, LenProperties
    <3> QED
      BY <3>2, <3>3, <3>4
  <2>2. g \in Nat /\ l \in Nat
    BY <1>1, <1>4
  <2>3. h \in Int /\ h + 5 \in Int
    BY <2>2
  <2> QED
    BY <2>1, <2>3
<1> HIDE DEF h
<1>7. \A i \in h .. h + 5 : z[i] \in Letters
  <2>1. ASSUME NEW i \in h .. h + 5  PROVE z[i] \in Letters
    <3>0. h \in Int
      BY <1>6
    <3>1. i - h + 1 \in 1 .. 6 /\ i = h + (i - h + 1) - 1
      BY <3>0
    <3>2. i \in 1 .. Len(z)
      BY <1>6, <3>1
    <3> QED
      BY <1>4, <3>2, ElementOfSeq
  <2> QED
    BY <2>1
<1>8. /\ m \in Seq(Letters) /\ Len(m) = 6 /\ \A j \in 1 .. 6 : m[j] = z[h + j - 1]
  <2>1. m = SubSeq(z, h, h + 5)
    BY <1>5 DEF h
  <2>2. h =< h + 5 /\ h + 5 - h + 1 = 6
    BY <1>6
  <2>3. SubSeq(z, h, h + 5) \in Seq(Letters)
    BY <1>6, <1>7, SubSeqProperties
  <2>4. Len(SubSeq(z, h, h + 5)) = IF h =< h + 5 THEN h + 5 - h + 1 ELSE 0
    BY <1>6, <1>7, SubSeqProperties
  <2>5. \A j \in 1 .. h + 5 - h + 1 : SubSeq(z, h, h + 5)[j] = z[h + j - 1]
    BY <1>6, <1>7, SubSeqProperties
  <2> QED
    BY <2>1, <2>2, <2>3, <2>4, <2>5
<1>9. m = r
  <2>1. \A j \in 1 .. Len(m) : m[j] = r[j]
    BY <1>6, <1>8
  <2> QED
    BY <1>3, <1>8, <2>1, SeqEqual
<1> QED
  BY <1>9, RowTextIs DEF m, r, t, l

LEMMA SizeOfText ==
  ASSUME StateType, NEW t \in Tables[page]
  PROVE  /\ PortsText(t) \in Seq(Glyphs) /\ Len(PortsText(t)) = 6 * Line(t, 144)
         /\ Line(t, 144) \in Nat /\ Line(t, 144) =< 9 * Amounts[t]
<1>1. LaidUpTo(t, 144, PortsText(t))
  BY TextLaid
<1> QED
  BY <1>1, RowsBeforeFinite, LineBound DEF LaidUpTo, StateType

\* What a page reads is what its ports are.
LEMMA ReadLaysOut ==
  ASSUME StateType, NEW d, d = [text |-> ReadData \o <<"newline">>, fe |-> Mark(ReadData \o <<"newline">>) + 4]
  PROVE  LaidOut(d)
<1>1. CASE page = "eth"
  <2> DEFINE a == PortsText("ge")
             b == PortsText("fe")
             s == EthText(a, b)
             k == Line("ge", 144)
             l == Line("fe", 144)
  <2>1. "ge" \in Tables[page] /\ "fe" \in Tables[page] /\ \A t \in Tables[page] : t = "ge" \/ t = "fe"
    BY <1>1 DEF Tables
  <2>2. a \in Seq(Glyphs) /\ Len(a) = 6 * k /\ k \in Nat /\ k =< 9 * Amounts["ge"]
    BY <2>1, SizeOfText
  <2>3. b \in Seq(Glyphs) /\ Len(b) = 6 * l /\ l \in Nat /\ l =< 9 * Amounts["fe"]
    BY <2>1, SizeOfText
  <2>a. LaidUpTo("ge", 144, a) /\ LaidUpTo("fe", 144, b)
    BY <2>1, TextLaid
  <2>b. ReadData \o <<"newline">> = s
    BY <1>1 DEF ReadData, EthText
  <2> HIDE DEF a, b, k, l
  <2>4. /\ s \in Seq(Letters) /\ Len(s) = Len(a) + Len(b) + 5
        /\ \A i \in 1 .. Len(a) : s[i] = a[i]
        /\ \A i \in 1 .. Len(b) : s[Len(a) + 4 + i] = b[i]
    BY <2>2, <2>3, EthTextIs
  <2>5. Mark(s) = Len(a) + 1
    BY <1>1, <2>2, <2>3, MarkIs
  <2> HIDE DEF s
  <2>6. d.text = s /\ d.fe = 6 * k + 5
    <3>1. d.text = s /\ d.fe = Mark(s) + 4
      BY <2>b
    <3> QED
      BY <2>2, <2>5, <3>1
  <2>7. Len(s) = 6 * k + 6 * l + 5 /\ k =< 18 /\ l =< 54
    BY <2>2, <2>3, <2>4 DEF Amounts
  <2>8. Len(d.text) - 1 =< InsertLen
    BY <2>2, <2>3, <2>6, <2>7 DEF InsertLen
  <2>9. CountIn(d, "ge") = k /\ CountIn(d, "fe") = l
    <3>1. ((6 * k + 5) - 5) \div 6 = k
      BY <2>2, SMT
    <3>2. ((6 * k + 6 * l + 5) - (6 * k + 5) + 1) \div 6 = l
      BY <2>2, <2>3, SMT
    <3>3. /\ CountIn(d, "ge") = ((6 * k + 5) - 5) \div 6
          /\ CountIn(d, "fe") = ((6 * k + 6 * l + 5) - (6 * k + 5) + 1) \div 6
      <4>1. CountIn(d, "ge") = (d.fe - 5) \div 6
        BY DEF CountIn, PortLen
      <4>2. CountIn(d, "fe") = (Len(d.text) - d.fe + 1) \div 6
        BY DEF CountIn, StartIn, PortLen
      <4> QED
        BY <2>2, <2>3, <2>6, <2>7, <4>1, <4>2
    <3> QED
      BY <3>1, <3>2, <3>3
  <2>10. ASSUME NEW x \in Rows
         PROVE  /\ Alphaton(MsgIn(d, x[1], LineOf(x))[1]) = x[2]
                /\ Alphaton(MsgIn(d, x[1], LineOf(x))[2]) = x[3]
                /\ Config(MsgIn(d, x[1], LineOf(x))) = words[x] % Mask
    <3>1. CASE x[1] = "ge"
      <4>1. LaidUpTo(x[1], 144, a) /\ StartIn(d, x[1]) = 1
        BY <2>a, <3>1 DEF StartIn
      <4>2. StartIn(d, x[1]) + Len(a) - 1 =< Len(d.text)
        BY <2>2, <2>3, <2>6, <2>7, <4>1
      <4>3. \A i \in 1 .. Len(a) : d.text[StartIn(d, x[1]) - 1 + i] = a[i]
        BY <2>4, <2>6, <4>1
      <4>4. d.text \in Seq(Letters)
        BY <2>4, <2>6
      <4>5. StartIn(d, x[1]) \in Nat \ {0}
        BY <4>1
      <4>6. StandsAt(d, x[1], a)
        BY <4>2, <4>3, <4>4, <4>5 DEF StandsAt
      <4> QED
        BY <4>1, <4>6, MsgIs
    <3>2. CASE x[1] = "fe"
      <4>1. LaidUpTo(x[1], 144, b) /\ StartIn(d, x[1]) = 6 * k + 5
        <5>1. StartIn(d, "fe") = d.fe
          BY DEF StartIn
        <5> QED
          BY <2>a, <2>6, <3>2, <5>1
      <4>2. StartIn(d, x[1]) + Len(b) - 1 =< Len(d.text)
        <5>1. Len(b) = 6 * l /\ Len(d.text) = 6 * k + 6 * l + 5
          BY <2>3, <2>6, <2>7
        <5>2. (6 * k + 5) + 6 * l - 1 =< 6 * k + 6 * l + 5
          BY <2>2, <2>3
        <5> QED
          BY <4>1, <5>1, <5>2
      <4>3. \A i \in 1 .. Len(b) : d.text[StartIn(d, x[1]) - 1 + i] = b[i]
        <5>1. /\ \A i \in 1 .. Len(b) : d.text[Len(a) + 4 + i] = b[i]
              /\ Len(a) = 6 * k /\ Len(b) \in Nat
          BY <2>2, <2>3, <2>4, <2>6, LenProperties
        <5>2. ASSUME NEW i \in 1 .. Len(b)  PROVE (6 * k + 5) - 1 + i = Len(a) + 4 + i
          BY <2>2, <5>1
        <5> QED
          BY <4>1, <5>1, <5>2
      <4>4. d.text \in Seq(Letters)
        BY <2>4, <2>6
      <4>5. StartIn(d, x[1]) \in Nat \ {0}
        BY <2>2, <4>1
      <4>6. StandsAt(d, x[1], b)
        BY <4>2, <4>3, <4>4, <4>5 DEF StandsAt
      <4> QED
        BY <4>1, <4>6, MsgIs
    <3> QED
      BY <2>1, <3>1, <3>2, RowType
  <2> QED
    BY <2>1, <2>8, <2>9, <2>10 DEF LaidOut, k, l
<1>2. CASE page # "eth"
  <2> DEFINE a == PortsText(page)
             s == a \o <<"newline">>
             k == Line(page, 144)
  <2>1. page \in {"opt", "e1"} /\ page \in Tables[page] /\ \A t \in Tables[page] : t = page
    BY <1>2 DEF Tables, StateType, Pages
  <2>2. a \in Seq(Glyphs) /\ Len(a) = 6 * k /\ k \in Nat /\ k =< 9 * Amounts[page]
    BY <2>1, SizeOfText
  <2>a. LaidUpTo(page, 144, a)
    BY <2>1, TextLaid
  <2>b. ReadData \o <<"newline">> = s
    BY <1>2 DEF ReadData
  <2> HIDE DEF a, k
  <2>4. /\ s \in Seq(Letters) /\ Len(s) = Len(a) + 1
        /\ \A i \in 1 .. Len(a) : s[i] = a[i]
    BY <2>2, ByteTextIs
  <2> HIDE DEF s
  <2>6. d.text = s
    BY <2>b
  <2>7. Len(s) = 6 * k + 1 /\ k =< 72
    BY <2>1, <2>2, <2>4 DEF Amounts
  <2>8. Len(d.text) - 1 =< InsertLen
    BY <2>2, <2>6, <2>7 DEF InsertLen
  <2>9. CountIn(d, page) = k
    <3>1. ((6 * k + 1) - 1 + 1) \div 6 = k
      BY <2>2, SMT
    <3>3. CountIn(d, page) = ((6 * k + 1) - 1 + 1) \div 6
      <4>1. CountIn(d, page) = (Len(d.text) - 1 + 1) \div 6
        BY <2>1 DEF CountIn, StartIn, PortLen
      <4> QED
        BY <2>2, <2>6, <2>7, <4>1
    <3> QED
      BY <3>1, <3>3
  <2>10. ASSUME NEW x \in Rows
         PROVE  /\ Alphaton(MsgIn(d, x[1], LineOf(x))[1]) = x[2]
                /\ Alphaton(MsgIn(d, x[1], LineOf(x))[2]) = x[3]
                /\ Config(MsgIn(d, x[1], LineOf(x))) = words[x] % Mask
    <3>1. x[1] = page
      BY <2>1, RowType
    <3>2. LaidUpTo(x[1], 144, a) /\ StartIn(d, x[1]) = 1
      BY <2>1, <2>a, <3>1 DEF StartIn
    <3>3. StartIn(d, x[1]) + Len(a) - 1 =< Len(d.text)
      BY <2>2, <2>6, <2>7, <3>2
    <3>4. \A i \in 1 .. Len(a) : d.text[StartIn(d, x[1]) - 1 + i] = a[i]
      BY <2>4, <2>6, <3>2
    <3>5. d.text \in Seq(Letters)
      BY <2>4, <2>6
    <3>6. StartIn(d, x[1]) \in Nat \ {0}
      BY <3>2
    <3>7. StandsAt(d, x[1], a)
      BY <3>3, <3>4, <3>5, <3>6 DEF StandsAt
    <3> QED
      BY <3>2, <3>7, MsgIs
  <2> QED
    BY <2>1, <2>8, <2>9, <2>10 DEF LaidOut, k
<1> QED
  BY <1>1, <1>2

-----------------------------------------------------------------------------
(* Lines. *)

LEMMA LineTaken ==
  ASSUME NEW t \in Tables[page], NEW line \in Nat, line < Line(t, 144)
  PROVE  \E x \in Rows : x[1] = t /\ LineOf(x) = line
<1> DEFINE T == {n \in 0 .. 144 : Line(t, n) =< line}
<1>1. SUFFICES ASSUME \A n \in Slots : ~ (Taken(t, n) /\ Line(t, n) = line)  PROVE FALSE
  <2>1. ASSUME NEW n \in Slots, Taken(t, n), Line(t, n) = line
        PROVE  \E x \in Rows : x[1] = t /\ LineOf(x) = line
    <3>1. Slot(t, n) \in Rows /\ Slot(t, n)[1] = t /\ Place(Slot(t, n)) = n
      BY <2>1, SlotOfRow
    <3>2. LineOf(Slot(t, n)) = line
      BY <2>1, <3>1 DEF LineOf
    <3> QED
      BY <3>1, <3>2
  <2> QED
    BY <2>1
<1>2. 0 \in T
  <2>1. Line(t, 0) = 0
    BY LineNext DEF Slots
  <2> QED
    BY <2>1
<1>3. ASSUME NEW n \in 0 .. 143, n \in T  PROVE n + 1 \in T
  <2>1. n \in Slots /\ n \in 0 .. 144 /\ n + 1 \in 0 .. 144
    BY DEF Slots
  <2>2. /\ Line(t, n) \in Nat /\ Line(t, n) =< line
        /\ Line(t, n + 1) = IF Taken(t, n) THEN Line(t, n) + 1 ELSE Line(t, n)
    BY <1>3, <2>1, LineNext, RowsBeforeFinite
  <2>3. Taken(t, n) => Line(t, n) # line
    BY <1>1, <2>1
  <2>4. Line(t, n + 1) =< line
    BY <2>2, <2>3
  <2> QED
    BY <2>1, <2>4
<1> HIDE DEF T
<1>4. 0 .. 144 \subseteq T
  BY <1>2, <1>3, UpTo
<1>5. Line(t, 144) =< line /\ Line(t, 144) \in Nat
  BY <1>4, RowsBeforeFinite DEF T
<1> QED
  BY <1>5

LEMMA LineGrows ==
  ASSUME NEW x \in Rows, NEW y \in Rows, x[1] = y[1], Place(x) < Place(y)
  PROVE  LineOf(x) # LineOf(y)
<1> DEFINE t == x[1]
           X == RowsBefore(t, Place(x))
           Y == RowsBefore(t, Place(y))
<1>1. /\ t \in Tables[page] /\ Place(x) \in 0 .. 144 /\ Place(y) \in 0 .. 144
  <2>1. \A p \in 0 .. 143 : p \in 0 .. 144
    OBVIOUS
  <2> QED
    BY <2>1, RowType DEF Slots
<1>2. IsFiniteSet(Y)
  BY <1>1, RowsBeforeFinite
<1>3. X \subseteq Y
  <2>1. ASSUME NEW z \in Rows, Place(z) < Place(x)  PROVE Place(z) < Place(y)
    <3>1. Place(z) \in 0 .. 143
      BY RowType DEF Slots
    <3>2. \A a, b, c \in 0 .. 144 : a < b /\ b < c => a < c
      OBVIOUS
    <3>3. Place(z) \in 0 .. 144
      BY <3>1
    <3> QED
      BY <1>1, <2>1, <3>2, <3>3
  <2> QED
    BY <2>1 DEF RowsBefore
<1>4. x \in Y /\ x \notin X
  <2>1. ~ (Place(x) < Place(x))
    BY <1>1
  <2> QED
    BY <2>1 DEF RowsBefore
<1>5. Cardinality(X) # Cardinality(Y)
  <2>1. X \in SUBSET Y
    BY <1>3
  <2>2. Cardinality(Y) = Cardinality(X) => Y = X
    BY <1>2, <2>1, FS_Subset
  <2> QED
    BY <1>4, <2>2
<1> QED
  BY <1>5 DEF LineOf, Line

\* The row of a line is the one that was counted there.
LEMMA RowAtIs ==
  ASSUME NEW x \in Rows
  PROVE  RowAt(x[1], LineOf(x)) = x
<1> DEFINE B(r) == {y \in Rows : y[1] = x[1] /\ (y[2] < r[2] \/ (y[2] = r[2] /\ y[3] < r[3]))}
           P(r) == r[1] = x[1] /\ Cardinality(B(r)) = LineOf(x)
<1>1. ASSUME NEW r \in Rows, r[1] = x[1]  PROVE B(r) = RowsBefore(x[1], Place(r))
  <2>1. ASSUME NEW y \in Rows
        PROVE  Place(y) < Place(r) <=> (y[2] < r[2] \/ (y[2] = r[2] /\ y[3] < r[3]))
    <3>1. /\ y[2] \in 0 .. 8 /\ y[3] \in 0 .. 15 /\ r[2] \in 0 .. 8 /\ r[3] \in 0 .. 15
          /\ Place(y) = 16 * y[2] + y[3] /\ Place(r) = 16 * r[2] + r[3]
      BY RowType DEF Place, MaxPorts, Boards
    <3>2. PICK b, c \in 0 .. 8, p, q \in 0 .. 15 : b = y[2] /\ p = y[3] /\ c = r[2] /\ q = r[3]
      BY <3>1
    <3>3. 16 * b + p < 16 * c + q <=> (b < c \/ (b = c /\ p < q))
      OBVIOUS
    <3> QED
      BY <3>1, <3>2, <3>3
  <2> QED
    BY <2>1 DEF RowsBefore
<1>2. ASSUME NEW r \in Rows  PROVE P(r) <=> r = x
  <2>1. CASE r[1] # x[1]
    BY <2>1
  <2>2. CASE r[1] = x[1]
    <3>1. Cardinality(B(r)) = LineOf(r)
      BY <1>1, <2>2 DEF LineOf, Line
    <3>2. LineOf(r) = LineOf(x) => r = x
      <4>1. Place(r) \in 0 .. 143 /\ Place(x) \in 0 .. 143
        BY RowType DEF Slots
      <4>2. Place(r) < Place(x) \/ Place(x) < Place(r) \/ Place(r) = Place(x)
        <5>1. \A a, b \in 0 .. 143 : a < b \/ b < a \/ a = b
          OBVIOUS
        <5> QED
          BY <4>1, <5>1
      <4>3. Place(r) = Place(x) => r = x
        BY <2>2, RowType
      <4> QED
        BY <2>2, <4>2, <4>3, LineGrows
    <3> HIDE DEF B
    <3> QED
      BY <2>2, <3>1, <3>2
  <2> QED
    BY <2>1, <2>2
<1>3. RowAt(x[1], LineOf(x)) = CHOOSE r \in Rows : P(r)
  BY DEF RowAt
<1> HIDE DEF P
<1> QED
  BY <1>2, <1>3

\* What a dialog shows depends on the bits that the text has.
LEMMA ShownOfText ==
  ASSUME page \in Pages, NEW w \in Nat
  PROVE  w % Mask \in Nat /\ Shown(page, w % Mask) = Shown(page, w)
<1>1. CASE page = "eth"
  <2> DEFINE x == w % 65536
  <2>1. x \in Nat
    BY SMT
  <2>2. Bits(x, 15, 1) = Bits(w, 15, 1) /\ Bits(x, 3, 1) = Bits(w, 3, 1)
    BY SMT DEF Bits
  <2>3. Bits(x, 5, 2) = Bits(w, 5, 2) /\ Bits(x, 4, 1) = Bits(w, 4, 1)
    BY SMT DEF Bits
  <2>4. Bits(x, 14, 1) = Bits(w, 14, 1) /\ Bits(x, 13, 1) = Bits(w, 13, 1)
    BY SMT DEF Bits
  <2> HIDE DEF x
  <2>5. ShownWord(x) = ShownWord(w)
    BY <2>2, <2>3, <2>4 DEF ShownWord, Either
  <2> QED
    BY <1>1, <2>1, <2>5 DEF Mask, Shown, x
<1>2. CASE page # "eth"
  <2> DEFINE x == w % 256
  <2>1. x \in Nat
    BY SMT
  <2>2. Bits(x, 7, 1) = Bits(w, 7, 1) /\ Bits(x, 0, 1) = Bits(w, 0, 1)
    BY SMT DEF Bits
  <2>3. Bits(x, 1, 2) = Bits(w, 1, 2)
    BY SMT DEF Bits
  <2> HIDE DEF x
  <2>5. ShownByte(x) = ShownByte(w)
    BY <2>2, <2>3 DEF ShownByte, Either, Loop
  <2> QED
    BY <1>2, <2>1, <2>5 DEF Mask, Shown, x
<1> QED
  BY <1>1, <1>2

-----------------------------------------------------------------------------
(* The inductive invariant. *)

\* The text of the page that is open is that of the words.
TextIsRight == data # NoData => LaidOut(data)

\* What is selected was selected by the user or is what the port has.
Chosen(r, f) ==
  /\ Selected(f, dialog.sel[f])
  /\ f \in dialog.changed => dialog.sel[f] # Nothing
  /\ f \notin dialog.changed => dialog.sel[f] = Nothing \/ dialog.sel[f] = Shown(page, words[r])[f]

\* the settings of the page's form
Settings == IF page = "eth" THEN DOMAIN WordFields ELSE {"switch", "trap_mask", "loop"}

\* An open dialog names the row of its line.
DialogOf(r) ==
  /\ r \in Rows /\ RowAt(r[1], dialog.line) = r
  /\ dialog = [open |-> TRUE, table |-> r[1], line |-> dialog.line, changed |-> dialog.changed,
               board |-> r[2], portno |-> r[3], sel |-> [f \in Settings |-> dialog.sel[f]]]
  /\ \A f \in Settings : Chosen(r, f)
DialogIsRight == dialog.open => \E r \in Rows : DialogOf(r)

IInv == StateType /\ TextIsRight /\ DialogIsRight /\ DialogWritesItsRow

-----------------------------------------------------------------------------
LEMMA InitIsRight == Init => IInv
<1> SUFFICES ASSUME Init  PROVE IInv
  OBVIOUS
<1>1. StateType
  <2>1. PICK c \in Configs : page = c.page /\ chassis = c.chassis /\ words = c.words
    BY DEF Init
  <2> QED
    BY <2>1, DialogConstants DEF StateType, Rows
<1>2. TextIsRight
  BY DEF Init, TextIsRight
<1>3. DialogIsRight /\ DialogWritesItsRow
  BY DEF Init, DialogIsRight, DialogWritesItsRow, Closed
<1> QED
  BY <1>1, <1>2, <1>3 DEF IInv

\* A chassis keeps its rows, and a page its kind.
LEMMA SameRows ==
  ASSUME page' = page, chassis' = chassis
  PROVE  /\ Rows' = Rows /\ Mask' = Mask
         /\ \A x : LineOf(x)' = LineOf(x)
         /\ \A t, n : Line(t, n)' = Line(t, n)
         /\ \A t, l : RowAt(t, l)' = RowAt(t, l)
         /\ \A m : Config(m)' = Config(m)
         /\ \A f, o : Selected(f, o)' = Selected(f, o)
<1>1. Rows' = Rows
  BY DEF Rows
<1>2. Mask' = Mask
  BY DEF Mask
<1>3. \A t, n : RowsBefore(t, n)' = RowsBefore(t, n)
  BY <1>1 DEF RowsBefore
<1>4. \A t, n : Line(t, n)' = Line(t, n)
  BY <1>3 DEF Line
<1>5. \A x : LineOf(x)' = LineOf(x)
  BY <1>4 DEF LineOf
<1>6. \A t, l : RowAt(t, l)' = RowAt(t, l)
  BY <1>1 DEF RowAt
<1>7. \A m : Config(m)' = Config(m)
  BY DEF Config
<1>8. \A f, o : Selected(f, o)' = Selected(f, o)
  BY DEF Selected, Options
<1> QED
  BY <1>1, <1>2, <1>4, <1>5, <1>6, <1>7, <1>8

\* A text stays right while the words are the same.
LEMMA SameText ==
  ASSUME page' = page, chassis' = chassis, words' = words, LaidOut(data')
  PROVE  LaidOut(data)'
<1>1. Tables[page]' = Tables[page] /\ Rows' = Rows /\ Mask' = Mask
  BY SameRows
<1>2. \A t, n : Line(t, n)' = Line(t, n)
  BY SameRows
<1>3. \A x : LineOf(x)' = LineOf(x)
  BY SameRows
<1>4. \A m : Config(m)' = Config(m)
  BY SameRows
<1>5. \A x : words[x]' = words[x]
  OBVIOUS
<1> QED
  BY <1>1, <1>2, <1>3, <1>4, <1>5 DEF LaidOut, MsgIn, CountIn, StartIn

\* What was sent stays true while nothing else is sent.
LEMMA SameSent ==
  ASSUME page' = page, chassis' = chassis, words' = words, sent' = sent, DialogWritesItsRow
  PROVE  DialogWritesItsRow'
<1>1. Rows' = Rows
  BY SameRows
<1>2. \A t, l : RowAt(t, l)' = RowAt(t, l)
  BY SameRows
<1>3. RowAt(sent.table, sent.line)' = RowAt(sent.table, sent.line)
  BY <1>2
<1> QED
  BY <1>1, <1>3 DEF DialogWritesItsRow, Rest, FormBits, Shown

LEMMA ReadIsRight ==
  ASSUME IInv, Read
  PROVE  IInv'
<1>1. /\ StateType /\ DialogWritesItsRow
      /\ page' = page /\ chassis' = chassis /\ words' = words /\ sent' = sent
      /\ dialog' = Closed
  BY DEF IInv, Read
<1>2. data' = [text |-> ReadData \o <<"newline">>, fe |-> Mark(ReadData \o <<"newline">>) + 4]
  BY DEF Read
<1>3. LaidOut(data')
  BY <1>1, <1>2, ReadLaysOut
<1>4. TextIsRight'
  BY <1>1, <1>3, SameText DEF TextIsRight
<1>5. DialogIsRight'
  BY <1>1 DEF DialogIsRight, Closed
<1>6. DialogWritesItsRow'
  BY <1>1, SameSent
<1>7. StateType'
  BY <1>1, SameRows DEF StateType
<1> QED
  BY <1>4, <1>5, <1>6, <1>7 DEF IInv

LEMMA SettingsShown ==
  ASSUME page \in Pages, NEW w
  PROVE  DOMAIN Shown(page, w) = Settings
BY DEF Pages, Shown, ShownWord, ShownByte, Settings, WordFields

\* A line that the script counts has a row, and that is what it reads there.
LEMMA OpenedRow ==
  ASSUME StateType, data # NoData, LaidOut(data), NEW t \in Tables[page], NEW line \in 0 .. Count(t) - 1
  PROVE  \E r \in Rows : /\ r[1] = t /\ RowAt(t, line) = r
                         /\ Alphaton(Msg(t, line)[1]) = r[2] /\ Alphaton(Msg(t, line)[2]) = r[3]
                         /\ Config(Msg(t, line)) = words[r] % Mask
<1>1. Count(t) = Line(t, 144)
  BY DEF LaidOut, CountIn, StartIn, Count, Start
<1>2. line \in Nat /\ line < Line(t, 144)
  <2>1. Line(t, 144) \in Nat
    BY RowsBeforeFinite
  <2> QED
    BY <1>1, <2>1
<1>3. PICK r \in Rows : r[1] = t /\ LineOf(r) = line
  BY <1>2, LineTaken
<1>4. RowAt(t, line) = r
  BY <1>3, RowAtIs
<1>5. MsgIn(data, t, line) = Msg(t, line)
  BY DEF MsgIn, Msg, StartIn, Start
<1>6. /\ Alphaton(MsgIn(data, t, line)[1]) = r[2] /\ Alphaton(MsgIn(data, t, line)[2]) = r[3]
      /\ Config(MsgIn(data, t, line)) = words[r] % Mask
  BY <1>3 DEF LaidOut
<1> QED
  BY <1>3, <1>4, <1>5, <1>6

LEMMA OptionIsSelectable ==
  ASSUME NEW f \in Settings, NEW gigabit, NEW o \in Options(f, gigabit)
  PROVE  Selected(f, o) /\ o # Nothing
<1>0. f \in {"switch", "flow_ctrl", "trap_mask", "auto_nego", "duplex", "bandwidth", "loop"}
  BY DEF Settings, WordFields
<1>1. CASE f \in {"switch", "flow_ctrl"}
  BY <1>1 DEF Options, Selected, Nothing
<1>2. CASE f = "trap_mask"
  BY <1>2 DEF Options, Selected, Nothing
<1>3. CASE f = "auto_nego"
  BY <1>3 DEF Options, Selected, Nothing
<1>4. CASE f = "duplex"
  BY <1>4 DEF Options, Selected, Nothing
<1>5. CASE f = "bandwidth"
  BY <1>5 DEF Options, Selected, Nothing
<1>6. CASE f = "loop"
  BY <1>6 DEF Options, Selected, Nothing
<1> QED
  BY <1>0, <1>1, <1>2, <1>3, <1>4, <1>5, <1>6

LEMMA OpenIsRight ==
  ASSUME IInv, NEW t \in Tables[page], NEW line \in 0 .. Count(t) - 1, Open(t, line)
  PROVE  IInv'
<1>1. /\ StateType /\ DialogWritesItsRow /\ LaidOut(data) /\ data # NoData
      /\ page' = page /\ chassis' = chassis /\ words' = words /\ sent' = sent /\ data' = data
  BY DEF IInv, Open, TextIsRight
<1>2. PICK r \in Rows : /\ r[1] = t /\ RowAt(t, line) = r
                        /\ Alphaton(Msg(t, line)[1]) = r[2] /\ Alphaton(Msg(t, line)[2]) = r[3]
                        /\ Config(Msg(t, line)) = words[r] % Mask
  BY <1>1, OpenedRow
<1>3. words[r] \in Nat /\ page \in Pages
  BY <1>1 DEF StateType
<1>4. /\ Shown(page, Config(Msg(t, line))) = Shown(page, words[r])
      /\ DOMAIN Shown(page, 0) = Settings
  BY <1>2, <1>3, ShownOfText, SettingsShown
<1> DEFINE sel == [f \in Settings |-> IF Shown(page, words[r])[f] \in Options(f, fast')
                                      THEN Shown(page, words[r])[f] ELSE Nothing]
<1>5. dialog' = [open |-> TRUE, table |-> t, line |-> line, changed |-> {},
                 board |-> r[2], portno |-> r[3], sel |-> sel]
  BY <1>2, <1>4 DEF Open
<1>6. \A f \in Settings : Selected(f, sel[f]) /\ (sel[f] = Nothing \/ sel[f] = Shown(page, words[r])[f])
  <2>1. ASSUME NEW f \in Settings
        PROVE  Selected(f, sel[f]) /\ (sel[f] = Nothing \/ sel[f] = Shown(page, words[r])[f])
    <3>1. CASE Shown(page, words[r])[f] \in Options(f, fast')
      BY <3>1, OptionIsSelectable
    <3>2. CASE Shown(page, words[r])[f] \notin Options(f, fast')
      BY <3>2 DEF Selected
    <3> QED
      BY <3>1, <3>2
  <2> QED
    BY <2>1
<1> HIDE DEF sel
<1>7. DialogOf(r)'
  <2>1. r \in Rows' /\ RowAt(r[1], dialog.line)' = r
    <3>1. Rows' = Rows /\ RowAt(r[1], line)' = RowAt(r[1], line)
      BY <1>1, SameRows
    <3>2. dialog'.line = line
      BY <1>5
    <3>3. RowAt(r[1], dialog.line)' = RowAt(r[1], line)'
      BY <3>2 DEF RowAt
    <3> QED
      BY <1>2, <3>1, <3>3
  <2>2. /\ dialog'.line = line /\ dialog'.changed = {} /\ dialog'.sel = sel
        /\ sel = [f \in Settings |-> sel[f]]
    BY <1>5 DEF sel
  <2>3. Settings' = Settings
    BY <1>1 DEF Settings
  <2>4. dialog' = [open |-> TRUE, table |-> r[1], line |-> dialog'.line, changed |-> dialog'.changed,
                   board |-> r[2], portno |-> r[3], sel |-> [f \in Settings' |-> dialog'.sel[f]]]
    BY <1>2, <1>5, <2>2, <2>3
  <2>5. \A f \in Settings : Chosen(r, f)'
    <3>1. \A f, o : Selected(f, o)' = Selected(f, o)
      BY <1>1, SameRows
    <3>2. ASSUME NEW f \in Settings  PROVE Chosen(r, f)'
      <4>1. Selected(f, dialog'.sel[f]) /\ (dialog'.sel[f] = Nothing \/ dialog'.sel[f] = Shown(page, words[r])[f])
        BY <1>6, <2>2
      <4>2. Selected(f, dialog.sel[f])'
        <5>1. Selected(f, dialog.sel[f])' = Selected(f, dialog'.sel[f])
          BY <1>1 DEF Selected, Options
        <5> QED
          BY <4>1, <5>1
      <4>3. Shown(page, words[r])' = Shown(page, words[r])
        BY <1>1
      <4> QED
        BY <2>2, <4>1, <4>2, <4>3 DEF Chosen
    <3> QED
      BY <3>2
  <2> QED
    BY <2>1, <2>3, <2>4, <2>5 DEF DialogOf
<1>8. DialogIsRight'
  <2>1. r \in Rows'
    BY <1>7 DEF DialogOf
  <2> QED
    BY <1>7, <2>1 DEF DialogIsRight
<1>9. TextIsRight'
  BY <1>1, SameText DEF TextIsRight
<1>10. DialogWritesItsRow'
  BY <1>1, SameSent
<1>11. StateType'
  BY <1>1, SameRows DEF StateType
<1> QED
  BY <1>8, <1>9, <1>10, <1>11 DEF IInv

LEMMA ChangeIsRight ==
  ASSUME IInv, NEW f, NEW o, dialog.open => f \in DOMAIN dialog.sel, Change(f, o)
  PROVE  IInv'
<1>1. /\ StateType /\ DialogWritesItsRow /\ TextIsRight /\ dialog.open
      /\ page' = page /\ chassis' = chassis /\ words' = words /\ sent' = sent /\ data' = data
      /\ f \notin dialog.changed /\ o \in Options(f, fast)
  BY DEF IInv, Change
<1>2. PICK r \in Rows : DialogOf(r)
  BY <1>1 DEF IInv, DialogIsRight
<1>3. f \in Settings
  BY <1>1, <1>2 DEF DialogOf
<1>4. Selected(f, o) /\ o # Nothing
  BY <1>1, <1>3, OptionIsSelectable
<1> DEFINE old == dialog.sel
           sel == [g \in Settings |-> IF g = f THEN o ELSE old[g]]
           changed == dialog.changed \cup {f}
<1>5. dialog' = [open |-> TRUE, table |-> r[1], line |-> dialog.line, changed |-> changed,
                 board |-> r[2], portno |-> r[3], sel |-> sel]
  <2>1. dialog' = [dialog EXCEPT !.sel[f] = o, !.changed = @ \cup {f}]
    BY DEF Change
  <2>2. dialog = [open |-> TRUE, table |-> r[1], line |-> dialog.line, changed |-> dialog.changed,
                  board |-> r[2], portno |-> r[3], sel |-> [g \in Settings |-> dialog.sel[g]]]
    BY <1>2 DEF DialogOf
  <2>3. PICK l, c, s : /\ l = dialog.line /\ c = dialog.changed /\ s = [g \in Settings |-> dialog.sel[g]]
                       /\ dialog = [open |-> TRUE, table |-> r[1], line |-> l, changed |-> c,
                                    board |-> r[2], portno |-> r[3], sel |-> s]
    BY <2>2
  <2>4. dialog' = [open |-> TRUE, table |-> r[1], line |-> l, changed |-> c \cup {f},
                   board |-> r[2], portno |-> r[3], sel |-> [s EXCEPT ![f] = o]]
    <3> DEFINE u == [s EXCEPT ![f] = o]
               v == c \cup {f}
    <3>1. dialog' = [dialog EXCEPT !.sel = [dialog.sel EXCEPT ![f] = o], !.changed = dialog.changed \cup {f}]
      BY <2>1
    <3>2. dialog.sel = s /\ dialog.changed = c
      BY <2>3
    <3>3. dialog' = [dialog EXCEPT !.sel = u, !.changed = v]
      BY <3>1, <3>2
    <3> HIDE DEF u, v
    <3>4. dialog' = [open |-> TRUE, table |-> r[1], line |-> l, changed |-> v,
                     board |-> r[2], portno |-> r[3], sel |-> u]
      <4>1. dialog = [open |-> TRUE, table |-> r[1], line |-> l, changed |-> c,
                      board |-> r[2], portno |-> r[3], sel |-> s]
        BY <2>3
      <4> QED
        BY <3>3, <4>1
    <3> QED
      BY <3>4 DEF u, v
  <2>5. sel = [s EXCEPT ![f] = o]
    BY <1>3, <2>3
  <2> HIDE DEF sel
  <2> QED
    BY <2>3, <2>4, <2>5
<1>6. ASSUME NEW g \in Settings
      PROVE  /\ Selected(g, sel[g]) /\ (g \in changed => sel[g] # Nothing)
             /\ g \notin changed => sel[g] = Nothing \/ sel[g] = Shown(page, words[r])[g]
  <2>1. Chosen(r, g)
    BY <1>2 DEF DialogOf
  <2>2. CASE g = f
    BY <1>3, <1>4, <2>2
  <2>3. CASE g # f
    BY <2>1, <2>3 DEF Chosen
  <2> QED
    BY <2>2, <2>3
<1>s. sel = [g \in Settings |-> sel[g]]
  OBVIOUS
<1> HIDE DEF sel, changed
<1>7. DialogOf(r)'
  <2>1. r \in Rows' /\ RowAt(r[1], dialog.line)' = r
    <3>1. Rows' = Rows /\ RowAt(r[1], dialog.line) = r
      BY <1>1, <1>2, SameRows DEF DialogOf
    <3>2. dialog'.line = dialog.line
      BY <1>5
    <3>3. RowAt(r[1], dialog.line)' = RowAt(r[1], dialog.line)
      BY <3>1, <3>2 DEF RowAt
    <3> QED
      BY <3>1, <3>3
  <2>2. dialog'.line = dialog.line /\ dialog'.changed = changed /\ dialog'.sel = sel
    BY <1>5
  <2>3. Settings' = Settings
    BY <1>1 DEF Settings
  <2>4. dialog' = [open |-> TRUE, table |-> r[1], line |-> dialog'.line, changed |-> dialog'.changed,
                   board |-> r[2], portno |-> r[3], sel |-> [g \in Settings' |-> dialog'.sel[g]]]
    BY <1>5, <1>s, <2>2, <2>3
  <2>5. ASSUME NEW g \in Settings  PROVE Chosen(r, g)'
    <3>1. Selected(g, dialog.sel[g])' = Selected(g, dialog'.sel[g])
      BY <1>1 DEF Selected, Options
    <3>2. Shown(page, words[r])' = Shown(page, words[r])
      BY <1>1
    <3> QED
      BY <1>6, <2>2, <3>1, <3>2 DEF Chosen
  <2> QED
    BY <2>1, <2>3, <2>4, <2>5 DEF DialogOf
<1>8. DialogIsRight'
  <2>1. r \in Rows'
    BY <1>7 DEF DialogOf
  <2> QED
    BY <1>7, <2>1 DEF DialogIsRight
<1>9. TextIsRight'
  BY <1>1, SameText DEF TextIsRight
<1>10. DialogWritesItsRow'
  BY <1>1, SameSent
<1>11. StateType'
  BY <1>1, SameRows DEF StateType
<1> QED
  BY <1>8, <1>9, <1>10, <1>11 DEF IInv

LEMMA WrittenShowsSelected ==
  ASSUME page \in Pages, NEW w \in Nat, NEW sel,
         DOMAIN sel = Settings, \A f \in Settings : Selected(f, sel[f])
  PROVE  ShowsSelected(page, w, Written(w, sel), sel)
<1>1. CASE page = "eth"
  BY <1>1, WordShowsSelected DEF Written, Settings
<1>2. CASE page \in {"opt", "e1"}
  BY <1>2, ByteShowsSelected DEF Written, Settings
<1> QED
  BY <1>1, <1>2 DEF Pages

LEMMA SubmitIsRight ==
  ASSUME IInv, Submit
  PROVE  IInv'
<1>1. /\ StateType /\ dialog.open
      /\ page' = page /\ chassis' = chassis /\ dialog' = Closed /\ data' = NoData
  BY DEF IInv, Submit
<1>2. PICK r \in Rows : DialogOf(r)
  BY <1>1 DEF IInv, DialogIsRight
<1> DEFINE sel == dialog.sel
           w == words[r]
           x == Written(w, sel)
<1>3. /\ dialog.table = r[1] /\ dialog.board = r[2] /\ dialog.portno = r[3]
      /\ DOMAIN sel = Settings /\ RowAt(dialog.table, dialog.line) = r
      /\ \A f \in Settings : Chosen(r, f)
  BY <1>2 DEF DialogOf
<1>4. <<dialog.table, Atoi(dialog.board), Atoi(dialog.portno)>> = r
  <2>1. r = <<r[1], r[2], r[3]>> /\ r[2] \in 0 .. 8 /\ r[3] \in 0 .. 15
    BY RowType DEF Boards, MaxPorts
  <2>2. Atoi(r[2]) = r[2] /\ Atoi(r[3]) = r[3]
    BY <2>1 DEF Atoi, NaN
  <2> QED
    BY <1>3, <2>1, <2>2
<1>5. /\ words' = [words EXCEPT ![r] = x]
      /\ sent' = [open |-> TRUE, table |-> dialog.table, line |-> dialog.line,
                  sel |-> sel, changed |-> dialog.changed, old |-> words]
  BY <1>4 DEF Submit
<1>6. w \in Nat /\ page \in Pages /\ DOMAIN words = Rows /\ words \in [Rows -> Nat]
  BY <1>1 DEF StateType
<1>7. ShowsSelected(page, w, x, sel)
  <2>1. \A f \in Settings : Selected(f, sel[f])
    BY <1>3 DEF Chosen
  <2> HIDE DEF w, sel
  <2> QED
    BY <1>3, <1>6, <2>1, WrittenShowsSelected
<1> HIDE DEF x
<1>8. /\ words'[r] = x /\ \A y \in Rows \ {r} : words'[y] = words[y]
      /\ words' \in [Rows -> Nat]
  BY <1>5, <1>6, <1>7 DEF ShowsSelected
<1>9. DialogWritesItsRow'
  <2>1. /\ sent'.table = dialog.table /\ sent'.line = dialog.line /\ sent'.sel = sel
        /\ sent'.changed = dialog.changed /\ sent'.old = words
    BY <1>5
  <2>2. RowAt(sent.table, sent.line)' = r
    <3>1. RowAt(dialog.table, dialog.line) = r /\ Rows' = Rows
      BY <1>1, <1>3, SameRows
    <3> QED
      BY <2>1, <3>1 DEF RowAt
  <2>3. Rows' = Rows
    BY <1>1, SameRows
  <2>4. \A y \in Rows \ {r} : words'[y] = sent'.old[y]
    BY <1>8, <2>1
  <2>5. Rest(page, words'[r]) = Rest(page, sent'.old[r])
    BY <1>7, <1>8, <2>1 DEF ShowsSelected
  <2>6. ASSUME NEW f \in Settings
        PROVE  Shown(page, words'[r])[f] =
                 IF f \in sent'.changed THEN sent'.sel[f] ELSE Shown(page, sent'.old[r])[f]
    <3>1. Shown(page, x)[f] = IF sel[f] = Nothing THEN Shown(page, w)[f] ELSE sel[f]
      BY <1>3, <1>7 DEF ShowsSelected
    <3>2. /\ f \in dialog.changed => sel[f] # Nothing
          /\ f \notin dialog.changed => sel[f] = Nothing \/ sel[f] = Shown(page, w)[f]
      BY <1>3 DEF Chosen
    <3> QED
      BY <1>8, <2>1, <3>1, <3>2
  <2>7. \A f \in DOMAIN sent'.sel : f \in Settings
    BY <1>3, <2>1
  <2>8. Rest(page, words[r])' = Rest(page, words'[r])
        /\ Rest(page, sent.old[r])' = Rest(page, sent'.old[r])
        /\ Shown(page, words[r])' = Shown(page, words'[r])
        /\ Shown(page, sent.old[r])' = Shown(page, sent'.old[r])
    BY <1>1
  <2> DEFINE R == RowAt(sent.table, sent.line)'
  <2>9. R = r
    BY <2>2
  <2> HIDE DEF R
  <2> QED
    BY <1>1, <2>3, <2>4, <2>5, <2>6, <2>7, <2>9 DEF DialogWritesItsRow, R
<1>10. TextIsRight' /\ DialogIsRight'
  BY <1>1 DEF TextIsRight, DialogIsRight, Closed
<1>11. StateType'
  BY <1>1, <1>6, <1>8, SameRows DEF StateType
<1> QED
  BY <1>9, <1>10, <1>11 DEF IInv

LEMMA StepIsRight == IInv /\ [Next]_vars => IInv'
<1> SUFFICES ASSUME IInv, [Next]_vars  PROVE IInv'
  OBVIOUS
<1>1. CASE Read
  BY <1>1, ReadIsRight
<1>2. ASSUME NEW t \in Tables[page], NEW line \in 0 .. Count(t) - 1, Open(t, line)  PROVE IInv'
  BY <1>2, OpenIsRight
<1>3. ASSUME NEW f, NEW o, f \in DOMAIN dialog.sel, Change(f, o)  PROVE IInv'
  BY <1>3, ChangeIsRight
<1>4. CASE Submit
  BY <1>4, SubmitIsRight
<1>5. CASE UNCHANGED vars
  <2>1. /\ page' = page /\ chassis' = chassis /\ words' = words /\ data' = data
        /\ dialog' = dialog /\ sent' = sent
    BY <1>5 DEF vars
  <2>2. StateType /\ TextIsRight /\ DialogIsRight /\ DialogWritesItsRow
    BY DEF IInv
  <2>3. TextIsRight'
    BY <2>1, <2>2, SameText DEF TextIsRight
  <2>4. DialogWritesItsRow'
    BY <2>1, <2>2, SameSent
  <2>5. StateType'
    BY <2>1, <2>2, SameRows DEF StateType
  <2>6. DialogIsRight'
    <3>1. ASSUME dialog.open  PROVE \E r \in Rows : DialogOf(r)'
      <4>1. PICK r \in Rows : DialogOf(r)
        BY <2>2, <3>1 DEF DialogIsRight
      <4>2. Rows' = Rows /\ Settings' = Settings
        BY <2>1, SameRows DEF Settings
      <4>3. RowAt(r[1], dialog.line)' = RowAt(r[1], dialog.line)
        BY <2>1, <4>2 DEF RowAt
      <4>4. \A f \in Settings : Chosen(r, f)' = Chosen(r, f)
        BY <2>1 DEF Chosen, Selected, Options
      <4> QED
        BY <2>1, <4>1, <4>2, <4>3, <4>4 DEF DialogOf
    <3>2. Rows' = Rows
      BY <2>1, SameRows
    <3> QED
      BY <2>1, <3>1, <3>2 DEF DialogIsRight
  <2> QED
    BY <2>3, <2>4, <2>5, <2>6 DEF IInv
<1> QED
  BY <1>1, <1>2, <1>3, <1>4, <1>5 DEF Next

LEMMA AlwaysRight == Spec => []IInv
BY InitIsRight, StepIsRight, PTL DEF Spec

\* For any chassis, any settings and any dialog: what the user sends changes
\* the port of the line that was clicked and no other, and of that port the
\* settings that were selected and no others.
THEOREM DialogsWriteTheirRow == Spec => []DialogWritesItsRow
<1>1. IInv => DialogWritesItsRow
  BY DEF IInv
<1> QED
  BY <1>1, AlwaysRight, PTL

\* The text of the ports of any chassis fits into tag_insert.
THEOREM TextsFit == Spec => []TextFits
<1>1. IInv => TextFits
  BY DEF IInv, TextIsRight, LaidOut, TextFits
<1> QED
  BY <1>1, AlwaysRight, PTL
=============================================================================
