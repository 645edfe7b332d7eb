-------------------------- MODULE RPCCodec_proofs --------------------------
(***************************************************************************)
(* Proofs about RPCCodec, for names, paths and error texts of any length,  *)
(* any pids and both kinds of char.                                        *)
(***************************************************************************)
EXTENDS RPCCodec, FiniteSetTheorems, SequenceTheorems, TLAPS

-----------------------------------------------------------------------------
(***************************************************************************)
(* Reading what was written                                                *)
(***************************************************************************)

\* The writes of a message follow each other, and no two take the same place.
Tiled(cells) ==
  /\ DOMAIN cells = 1 .. Len(cells) /\ Len(cells) \in Nat
  /\ \A i \in DOMAIN cells : cells[i].at \in Int /\ cells[i].len \in Int
  /\ \A i, j \in DOMAIN cells :
       i < j => /\ cells[j].at >= cells[i].at + cells[i].len
                /\ cells[j].at # cells[i].at \/ cells[j].len # cells[i].len

(***************************************************************************)
(* Of a message whose writes follow each other every field is read back.   *)
(***************************************************************************)
LEMMA ReadBack ==
  ASSUME NEW cells, Tiled(cells), NEW i \in DOMAIN cells
  PROVE  Read(cells, cells[i].at, cells[i].len) = cells[i].val
<1> DEFINE ptr == cells[i].at
           len == cells[i].len
           Hit(k) == cells[k].at = ptr /\ cells[k].len = len
           Spared(k) == \A j \in k + 1 .. Len(cells) :
                          cells[j].at >= ptr + len \/ cells[j].at + cells[j].len <= ptr
           found == {k \in DOMAIN cells : Hit(k) /\ Spared(k)}
<1>1. Spared(i)
  <2> SUFFICES ASSUME NEW j \in i + 1 .. Len(cells) PROVE cells[j].at >= ptr + len
    OBVIOUS
  <2>1. j \in DOMAIN cells /\ i < j
    BY DEF Tiled
  <2> QED
    BY <2>1 DEF Tiled
<1>2. ASSUME NEW k \in found PROVE k = i
  <2>1. k \in DOMAIN cells /\ Hit(k)
    BY <1>2
  <2>2. k \in Int /\ i \in Int
    BY <2>1 DEF Tiled
  <2> QED
    BY <2>1, <2>2 DEF Tiled
<1>3. found = {i}
  BY <1>1, <1>2
<1>4. Read(cells, ptr, len) = IF found = {} THEN Garbage ELSE cells[CHOOSE k \in found : TRUE].val
  BY DEF Read
<1> HIDE DEF found
<1> QED
  BY <1>3, <1>4

(***************************************************************************)
(* What arrives of a message is as it was written, if "size" covers it.    *)
(***************************************************************************)
LEMMA ArrivesWhole ==
  ASSUME NEW size \in Int, NEW cells, Tiled(cells),
         \A i \in DOMAIN cells :
           cells[i] = Cell(cells[i].at, cells[i].len, cells[i].val) /\ cells[i].at + cells[i].len <= size
  PROVE  Arrives(PackMsg(size, cells)) = [i \in DOMAIN cells |-> cells[i]]
BY DEF Arrives, PackMsg

(***************************************************************************)
(* A number of at most MaxPid has at most seven digits.                    *)
(***************************************************************************)
LEMMA PidDigits ==
  ASSUME NEW p \in Int, p <= MaxPid PROVE Digits(p) \in 1 .. 7
<1> DEFINE S == {k \in DOMAIN Tens : Tens[k] <= p}
<1>1. S \subseteq 1 .. 6
  <2>1. DOMAIN Tens = 1 .. 9 /\ Tens[7] = 10000000 /\ Tens[8] = 100000000 /\ Tens[9] = 1000000000
    BY DEF Tens
  <2> SUFFICES ASSUME NEW k \in S PROVE k \in 1 .. 6
    OBVIOUS
  <2>2. k \in 1 .. 9 /\ k # 7 /\ k # 8 /\ k # 9
    BY <2>1 DEF MaxPid
  <2> QED
    BY <2>2
<1>2. IsFiniteSet(1 .. 6) /\ Cardinality(1 .. 6) = 6
  <2>1. 1 \in Int /\ 6 \in Int /\ ~(1 > 6) /\ 6 - 1 + 1 = 6
    OBVIOUS
  <2>2. \A a, c \in Int : /\ IsFiniteSet(a .. c)
                          /\ Cardinality(a .. c) = IF a > c THEN 0 ELSE c - a + 1
    BY FS_Interval, Zenon
  <2> QED
    BY <2>1, <2>2, Zenon
<1>3. Cardinality(S) \in Nat /\ Cardinality(S) <= 6
  BY <1>1, <1>2, FS_Subset, FS_CardinalityType
<1> QED
  BY <1>3 DEF Digits

-----------------------------------------------------------------------------
(***************************************************************************)
(* Messages                                                                *)
(***************************************************************************)

(***************************************************************************)
(* A size that memcpy and SendPackage can take is the size that was meant, *)
(* with either kind of char.                                               *)
(***************************************************************************)
LEMMA PromotedSize ==
  ASSUME NEW b \in 0 .. 255
  PROVE  /\ Promoted(b) \in Int /\ Promoted(b) <= b
         /\ Promoted(b) >= 0 => Promoted(b) = b
         /\ b <= 127 \/ ~CharIsSigned => Promoted(b) = b
BY DEF Promoted

(***************************************************************************)
(* What a byte keeps of a length.                                          *)
(***************************************************************************)
LEMMA Bytes ==
  ASSUME NEW n \in Nat
  PROVE  /\ Byte(n) \in 0 .. 255
         /\ n <= 255 => Byte(n) = n
BY DEF Byte

(***************************************************************************)
(* A String on its own: the path of Flash, the port of Connect's answer.   *)
(***************************************************************************)
LEMMA StringArrives ==
  ASSUME NEW n \in Nat,
         Transmits(PackMsg(StringPackedSize(Text(n)), StringSerialize(Text(n), 0)))
  PROVE  /\ ToCxxStr(StringDeserialize(
              Arrives(PackMsg(StringPackedSize(Text(n)), StringSerialize(Text(n), 0))), 0)) = Byte(n)
         /\ Byte(n) <= 253
<1> DEFINE b == Byte(n)
           cells == <<Cell(0, 1, b), Cell(1, Promoted(b), n)>>
           msg == PackMsg(StringPackedSize(Text(n)), StringSerialize(Text(n), 0))
<1>1. b \in 0 .. 255 /\ Promoted(b) \in Int
  BY Bytes, PromotedSize
<1>2. StringSerialize(Text(n), 0) = cells
  BY DEF StringSerialize, Text
<1>3. /\ DOMAIN cells = 1 .. 2 /\ Len(cells) = 2
      /\ cells[1] = Cell(0, 1, b) /\ cells[2] = Cell(1, Promoted(b), n)
  OBVIOUS
<1>4. Promoted(b) = b /\ b <= 253
  <2>1. cells[2].len >= 0 /\ cells[2].at + cells[2].len <= Payload
    BY <1>2, <1>3 DEF Transmits, PackMsg
  <2>2. Promoted(b) >= 0 /\ 1 + Promoted(b) <= 254
    BY <1>3, <2>1 DEF Cell, Payload
  <2> QED
    BY <1>1, <2>2, PromotedSize
<1>5. StringPackedSize(Text(n)) = b + 1
  <2>1. StringPackedSize(Text(n)) = Byte(b + 1)
    BY DEF StringPackedSize, Text
  <2>2. b + 1 \in Nat /\ b + 1 <= 255
    BY <1>1, <1>4
  <2> QED
    BY <2>1, <2>2, Bytes
<1> HIDE DEF b
<1>6. Tiled(cells)
  <2>1. \A i \in 1 .. 2 : i = 1 \/ i = 2
    OBVIOUS
  <2> QED
    BY <1>1, <1>3, <1>4, <2>1 DEF Tiled, Cell
<1>7. Arrives(msg) = [i \in DOMAIN cells |-> cells[i]]
  <2>1. \A i \in DOMAIN cells :
          cells[i] = Cell(cells[i].at, cells[i].len, cells[i].val) /\ cells[i].at + cells[i].len <= b + 1
    <3>1. \A i \in 1 .. 2 : i = 1 \/ i = 2
      OBVIOUS
    <3> QED
      BY <1>1, <1>3, <1>4, <3>1 DEF Cell
  <2>2. b + 1 \in Int
    BY <1>1
  <2> QED
    BY <1>2, <1>5, <1>6, <2>1, <2>2, ArrivesWhole
<1>8. [i \in DOMAIN cells |-> cells[i]] = cells
  OBVIOUS
<1>9. Read(cells, 0, 1) = b /\ Read(cells, 1, b) = n
  <2>1. Read(cells, cells[1].at, cells[1].len) = cells[1].val
    BY <1>3, <1>6, ReadBack
  <2>2. Read(cells, cells[2].at, cells[2].len) = cells[2].val
    BY <1>3, <1>6, ReadBack
  <2> QED
    BY <1>3, <1>4, <2>1, <2>2 DEF Cell
<1>10. StringDeserialize(cells, 0) = [Size |-> b, Data |-> n]
  BY <1>4, <1>9 DEF StringDeserialize
<1>11. ToCxxStr(StringDeserialize(cells, 0)) = b
  BY <1>10 DEF ToCxxStr, Garbage
<1> QED
  BY <1>4, <1>7, <1>8, <1>11 DEF b

(***************************************************************************)
(* The parts of a message are put one behind the other.                    *)
(***************************************************************************)
LEMMA PairAndOne == ASSUME NEW a, NEW b, NEW c PROVE <<a, b>> \o <<c>> = <<a, b, c>>
<1> DEFINE S == {a, b, c}
           q == <<a, b>> \o <<c>>
<1>1. <<a, b>> \in Seq(S) /\ <<c>> \in Seq(S) /\ <<a, b, c>> \in Seq(S)
  OBVIOUS
<1>2. Len(<<a, b>>) = 2 /\ Len(<<c>>) = 1 /\ Len(<<a, b, c>>) = 3
  OBVIOUS
<1>3. /\ q \in Seq(S) /\ Len(q) = 3
      /\ \A i \in 1 .. 3 : q[i] = IF i <= 2 THEN <<a, b>>[i] ELSE <<c>>[i - 2]
  BY <1>1, <1>2, ConcatProperties
<1>4. q[1] = a /\ q[2] = b /\ q[3] = c
  BY <1>3
<1>5. \A i \in 1 .. 3 : i = 1 \/ i = 2 \/ i = 3
  OBVIOUS
<1>6. \A i \in 1 .. 3 : q[i] = <<a, b, c>>[i]
  BY <1>4, <1>5
<1> QED
  BY <1>1, <1>2, <1>3, <1>6, SeqEqual

(***************************************************************************)
(* The flag and the description of a status, then its user.                *)
(***************************************************************************)
LEMMA ThreeAndThree ==
  ASSUME NEW a, NEW b, NEW c, NEW d, NEW e, NEW f
  PROVE  <<a, b, c>> \o <<d, e, f>> = <<a, b, c, d, e, f>>
<1> DEFINE S == {a, b, c, d, e, f}
           r == <<a, b, c>> \o <<d, e, f>>
<1>1. <<a, b, c>> \in Seq(S) /\ <<d, e, f>> \in Seq(S) /\ <<a, b, c, d, e, f>> \in Seq(S)
  OBVIOUS
<1>2. Len(<<a, b, c>>) = 3 /\ Len(<<d, e, f>>) = 3 /\ Len(<<a, b, c, d, e, f>>) = 6
  OBVIOUS
<1>3. /\ r \in Seq(S) /\ Len(r) = 6
      /\ \A i \in 1 .. 6 : r[i] = IF i <= 3 THEN <<a, b, c>>[i] ELSE <<d, e, f>>[i - 3]
  BY <1>1, <1>2, ConcatProperties
<1>4. r[1] = a /\ r[2] = b /\ r[3] = c /\ r[4] = d /\ r[5] = e /\ r[6] = f
  BY <1>3
<1>5. \A i \in 1 .. 6 : i = 1 \/ i = 2 \/ i = 3 \/ i = 4 \/ i = 5 \/ i = 6
  OBVIOUS
<1>6. \A i \in 1 .. 6 : r[i] = <<a, b, c, d, e, f>>[i]
  BY <1>4, <1>5
<1> QED
  BY <1>1, <1>2, <1>3, <1>6, SeqEqual

UserOf(n, pid) == [Name |-> Text(n), PID |-> pid]
UserMsg(n, pid) == PackMsg(UserDataPackedSize(UserOf(n, pid)), UserDataSerialize(UserOf(n, pid), 0))

(***************************************************************************)
(* UserData: if it can be sent, all of it arrives.                         *)
(***************************************************************************)
LEMMA UserDataArrives ==
  ASSUME NEW n \in Nat, NEW pid \in Int, Transmits(UserMsg(n, pid))
  PROVE  LET got == UserDataDeserialize(Arrives(UserMsg(n, pid)), 0)
         IN  ToCxxStr(got.Name) = Byte(n) /\ got.PID = pid /\ Byte(n) <= 249
<1> DEFINE b == Byte(n)
           c == Promoted(Byte(b + 1))
           cells == <<Cell(0, 1, b), Cell(1, Promoted(b), n), Cell(c, 4, pid)>>
           msg == UserMsg(n, pid)
<1>1. b \in 0 .. 255 /\ Byte(b + 1) \in 0 .. 255 /\ Byte(Byte(b + 1) + 4) \in 0 .. 255
  <2>1. b \in 0 .. 255
    BY Bytes
  <2>2. b + 1 \in Nat
    BY <2>1
  <2>3. Byte(b + 1) \in 0 .. 255
    BY <2>2, Bytes
  <2>4. Byte(b + 1) + 4 \in Nat
    BY <2>3
  <2> QED
    BY <2>1, <2>3, <2>4, Bytes
<1>2. /\ UserDataSerialize(UserOf(n, pid), 0) = cells
      /\ UserDataPackedSize(UserOf(n, pid)) = Byte(Byte(b + 1) + 4)
  <2>1. c \in Int /\ 0 + c = c
    BY <1>1, PromotedSize
  <2>2. 0 + 1 = 1
    OBVIOUS
  <2>3. StringSerialize(Text(n), 0) = <<Cell(0, 1, b), Cell(1, Promoted(b), n)>>
    BY <2>2 DEF StringSerialize, Text
  <2>4. UserDataSerialize(UserOf(n, pid), 0) = StringSerialize(Text(n), 0) \o <<Cell(0 + c, 4, pid)>>
    BY DEF UserDataSerialize, UserOf, Text, StringPackedSize, PidSize
  <2>5. UserDataPackedSize(UserOf(n, pid)) = Byte(Byte(b + 1) + 4)
    BY DEF UserDataPackedSize, StringPackedSize, UserOf, Text, PidSize
  <2> QED
    BY <2>1, <2>3, <2>4, <2>5, PairAndOne
<1>3. /\ DOMAIN cells = 1 .. 3 /\ Len(cells) = 3
      /\ cells[1] = Cell(0, 1, b) /\ cells[2] = Cell(1, Promoted(b), n) /\ cells[3] = Cell(c, 4, pid)
  OBVIOUS
<1>4. Promoted(b) = b /\ c = b + 1 /\ b <= 249 /\ Byte(Byte(b + 1) + 4) = b + 5
  <2>1. /\ Promoted(b) >= 0 /\ 1 + Promoted(b) <= 254 /\ c + 4 <= 254
        /\ Promoted(Byte(Byte(b + 1) + 4)) >= 0
    <3>1. /\ Promoted(msg.size) >= 0 /\ msg.cells = cells /\ msg.size = Byte(Byte(b + 1) + 4)
          /\ \A i \in DOMAIN cells : cells[i].len >= 0 /\ cells[i].at + cells[i].len <= Payload
      BY <1>2 DEF Transmits, UserMsg, PackMsg
    <3> QED
      BY <1>3, <3>1 DEF Cell, Payload
  <2>2. Promoted(b) = b /\ b <= 253
    BY <1>1, <2>1, PromotedSize
  <2>3. Byte(b + 1) = b + 1
    <3>1. b + 1 \in Nat /\ b + 1 <= 255
      BY <1>1, <2>2
    <3> QED
      BY <3>1, Bytes
  <2>4. CASE CharIsSigned
    <3>1. b <= 127
      BY <1>1, <2>2, <2>4 DEF Promoted
    <3>2. Byte(Byte(b + 1) + 4) = b + 5
      <4>1. b + 5 \in Nat /\ b + 5 <= 255 /\ b + 1 + 4 = b + 5
        BY <1>1, <3>1
      <4> QED
        BY <2>3, <4>1, Bytes
    <3>3. b + 5 <= 127
      BY <1>1, <2>1, <2>4, <3>2 DEF Promoted
    <3> QED
      BY <1>1, <2>2, <2>3, <3>2, <3>3, PromotedSize
  <2>5. CASE ~CharIsSigned
    <3>1. c = b + 1
      BY <1>1, <2>3, <2>5, PromotedSize
    <3>2. b <= 249
      BY <1>1, <2>1, <3>1
    <3>3. b + 5 \in Nat /\ b + 5 <= 255 /\ b + 1 + 4 = b + 5
      BY <1>1, <3>2
    <3> QED
      BY <2>2, <2>3, <3>1, <3>2, <3>3, Bytes
  <2> QED
    BY <2>4, <2>5
<1> HIDE DEF b, c
<1>5. \A i \in 1 .. 3 : i = 1 \/ i = 2 \/ i = 3
  OBVIOUS
<1>6. Tiled(cells)
  BY <1>1, <1>3, <1>4, <1>5 DEF Tiled, Cell
<1>7. Arrives(msg) = cells
  <2>1. \A i \in DOMAIN cells :
          cells[i] = Cell(cells[i].at, cells[i].len, cells[i].val) /\ cells[i].at + cells[i].len <= b + 5
    BY <1>1, <1>3, <1>4, <1>5 DEF Cell
  <2>2. b + 5 \in Int
    BY <1>1
  <2>3. Arrives(msg) = [i \in DOMAIN cells |-> cells[i]]
    BY <1>2, <1>4, <1>6, <2>1, <2>2, ArrivesWhole DEF UserMsg
  <2> QED
    BY <2>3
<1>8. Read(cells, 0, 1) = b /\ Read(cells, 1, b) = n /\ Read(cells, b + 1, 4) = pid
  <2>1. \A i \in 1 .. 3 : Read(cells, cells[i].at, cells[i].len) = cells[i].val
    BY <1>3, <1>6, ReadBack
  <2> QED
    BY <1>3, <1>4, <2>1 DEF Cell
<1>9. StringDeserialize(cells, 0) = [Size |-> b, Data |-> n]
  BY <1>4, <1>8 DEF StringDeserialize
<1>10. UserDataDeserialize(cells, 0) = [Name |-> [Size |-> b, Data |-> n], PID |-> pid]
  <2>1. StringPackedSize([Size |-> b, Data |-> n]) = Byte(b + 1)
    BY DEF StringPackedSize
  <2>2. Promoted(Byte(b + 1)) = b + 1 /\ 0 + (b + 1) = b + 1
    BY <1>1, <1>4 DEF c
  <2> QED
    BY <1>8, <1>9, <2>1, <2>2 DEF UserDataDeserialize, PidSize
<1>11. ToCxxStr([Size |-> b, Data |-> n]) = b
  BY DEF ToCxxStr, Garbage
<1> QED
  BY <1>4, <1>7, <1>10, <1>11 DEF b

StatusOf(d, acquired, n, pid) == [Description |-> Text(d), Acquired |-> acquired, User |-> UserOf(n, pid)]
StatusMsg(d, acquired, n, pid) ==
  PackMsg(ChipStatusPackedSize(StatusOf(d, acquired, n, pid)),
          ChipStatusSerialize(StatusOf(d, acquired, n, pid), 0))

\* The writes of a ChipStatus.
StatusCells(d, acquired, n, pid) ==
  <<Cell(0, 1, d), Cell(1, d, d), Cell(d + 1, 1, acquired), Cell(d + 2, 1, n),
    Cell(d + 3, Promoted(n), n), Cell(d + 2 + Promoted(Byte(n + 1)), 4, pid)>>

(***************************************************************************)
(* ChipStatus: what Serialize writes, and how many bytes it says it wrote. *)
(***************************************************************************)
LEMMA StatusWritten ==
  ASSUME NEW d \in Descriptions, NEW acquired, NEW n \in 0 .. 255, NEW pid
  PROVE  /\ ChipStatusSerialize(StatusOf(d, acquired, n, pid), 0) = StatusCells(d, acquired, n, pid)
         /\ ChipStatusPackedSize(StatusOf(d, acquired, n, pid))
              = Byte(d + 1 + 1 + Byte(Byte(n + 1) + 4))
<1>1. d \in Nat /\ d <= 17 /\ Byte(d) = d /\ Byte(d + 1) = d + 1 /\ Byte(n) = n
  BY DEF Descriptions, Byte
<1>2. Promoted(d) = d /\ Promoted(d + 1) = d + 1
  BY <1>1, PromotedSize
<1>3. /\ Text(d) = [Data |-> d, Size |-> d] /\ StringPackedSize(Text(d)) = d + 1
      /\ Text(n) = [Data |-> n, Size |-> n] /\ StringPackedSize(Text(n)) = Byte(n + 1)
  BY <1>1 DEF Text, StringPackedSize
<1>4. StringSerialize(Text(d), 0) = <<Cell(0, 1, d), Cell(1, d, d)>>
  <2>1. 0 + 1 = 1
    OBVIOUS
  <2> QED
    BY <1>2, <1>3, <2>1 DEF StringSerialize
<1>5. UserDataSerialize(UserOf(n, pid), d + 2)
        = <<Cell(d + 2, 1, n), Cell(d + 3, Promoted(n), n),
            Cell(d + 2 + Promoted(Byte(n + 1)), 4, pid)>>
  <2>1. d + 2 + 1 = d + 3
    BY <1>1
  <2>2. StringSerialize(Text(n), d + 2) = <<Cell(d + 2, 1, n), Cell(d + 3, Promoted(n), n)>>
    BY <1>3, <2>1 DEF StringSerialize
  <2>3. UserDataSerialize(UserOf(n, pid), d + 2)
          = StringSerialize(Text(n), d + 2) \o <<Cell(d + 2 + Promoted(Byte(n + 1)), 4, pid)>>
    BY <1>3 DEF UserDataSerialize, UserOf, PidSize
  <2> QED
    BY <2>2, <2>3, PairAndOne
<1>6. ChipStatusSerialize(StatusOf(d, acquired, n, pid), 0) = StatusCells(d, acquired, n, pid)
  <2>1. 0 + Promoted(StringPackedSize(Text(d))) = d + 1 /\ d + 1 + 1 = d + 2
    BY <1>1, <1>2, <1>3
  <2>2. ChipStatusSerialize(StatusOf(d, acquired, n, pid), 0)
          = StringSerialize(Text(d), 0) \o <<Cell(d + 1, 1, acquired)>>
              \o UserDataSerialize(UserOf(n, pid), d + 2)
    BY <2>1 DEF ChipStatusSerialize, StatusOf
  <2>3. StringSerialize(Text(d), 0) \o <<Cell(d + 1, 1, acquired)>>
          = <<Cell(0, 1, d), Cell(1, d, d), Cell(d + 1, 1, acquired)>>
    BY <1>4, PairAndOne
  <2> DEFINE c1 == Cell(0, 1, d)
             c2 == Cell(1, d, d)
             c3 == Cell(d + 1, 1, acquired)
             c4 == Cell(d + 2, 1, n)
             c5 == Cell(d + 3, Promoted(n), n)
             c6 == Cell(d + 2 + Promoted(Byte(n + 1)), 4, pid)
  <2>4. StatusCells(d, acquired, n, pid) = <<c1, c2, c3, c4, c5, c6>>
    BY DEF StatusCells
  <2>5. ChipStatusSerialize(StatusOf(d, acquired, n, pid), 0) = <<c1, c2, c3>> \o <<c4, c5, c6>>
    BY <1>5, <2>2, <2>3, Zenon
  <2> HIDE DEF c1, c2, c3, c4, c5, c6
  <2>6. <<c1, c2, c3>> \o <<c4, c5, c6>> = <<c1, c2, c3, c4, c5, c6>>
    BY ThreeAndThree
  <2> QED
    BY <2>4, <2>5, <2>6, Zenon
<1>7. ChipStatusPackedSize(StatusOf(d, acquired, n, pid)) = Byte(d + 1 + 1 + Byte(Byte(n + 1) + 4))
  BY <1>3 DEF ChipStatusPackedSize, UserDataPackedSize, StatusOf, UserOf, PidSize
<1> QED
  BY <1>6, <1>7

\* No size in a status is negative, and none is cut to a byte.
SizesKept(d, n) ==
  /\ Promoted(n) = n /\ Promoted(Byte(n + 1)) = n + 1 /\ n + d <= 247
  /\ Byte(d + 1 + 1 + Byte(Byte(n + 1) + 4)) = n + d + 7

(***************************************************************************)
(* ChipStatus: if it can be sent, no size in it was cut to a byte.         *)
(***************************************************************************)
LEMMA StatusSizes ==
  ASSUME NEW d \in Descriptions, NEW acquired, NEW n \in 0 .. 255, NEW pid,
         Transmits(StatusMsg(d, acquired, n, pid))
  PROVE  SizesKept(d, n)
<1> USE DEF SizesKept
<1> DEFINE cells == StatusCells(d, acquired, n, pid)
           size == Byte(d + 1 + 1 + Byte(Byte(n + 1) + 4))
<1>1. d \in Nat /\ d <= 17
  BY DEF Descriptions
<1>2. /\ Promoted(size) >= 0
      /\ \A i \in DOMAIN cells : cells[i].len >= 0 /\ cells[i].at + cells[i].len <= Payload
  BY StatusWritten DEF Transmits, StatusMsg, PackMsg
<1>3. /\ 5 \in DOMAIN cells /\ cells[5] = Cell(d + 3, Promoted(n), n)
      /\ 6 \in DOMAIN cells /\ cells[6] = Cell(d + 2 + Promoted(Byte(n + 1)), 4, pid)
  BY DEF StatusCells
<1>4. /\ Promoted(n) >= 0 /\ d + 3 + Promoted(n) <= 254
      /\ d + 2 + Promoted(Byte(n + 1)) + 4 <= 254
  BY <1>2, <1>3 DEF Cell, Payload
<1>5. Promoted(n) = n /\ n <= 251
  BY <1>1, <1>4, PromotedSize
<1>6. Byte(n + 1) = n + 1
  <2>1. n + 1 \in Nat /\ n + 1 <= 255
    BY <1>5
  <2> QED
    BY <2>1, Bytes
<1>7. CASE CharIsSigned
  <2>1. n <= 127
    BY <1>5, <1>7 DEF Promoted
  <2>2. n + 1 + 4 \in Nat /\ n + 1 + 4 <= 255
    BY <2>1
  <2>3. Byte(n + 1 + 4) = n + 5
    BY <2>2, Bytes
  <2>4. d + 1 + 1 + (n + 5) \in Nat /\ d + 1 + 1 + (n + 5) <= 255 /\ d + 1 + 1 + (n + 5) = n + d + 7
    BY <1>1, <2>1
  <2>5. size = n + d + 7
    BY <1>6, <2>3, <2>4, Bytes
  <2>6. n + d + 7 <= 127
    <3>1. n + d + 7 \in 0 .. 255 /\ Promoted(n + d + 7) >= 0
      BY <1>2, <2>4, <2>5
    <3> QED
      BY <1>7, <3>1 DEF Promoted
  <2>7. Promoted(n + 1) = n + 1
    <3>1. n + 1 \in 0 .. 255 /\ n + 1 <= 127
      BY <1>1, <2>6
    <3> QED
      BY <3>1, PromotedSize
  <2> QED
    BY <1>1, <1>5, <1>6, <2>5, <2>6, <2>7
<1>8. CASE ~CharIsSigned
  <2>1. Promoted(n + 1) = n + 1
    BY <1>5, <1>8, PromotedSize
  <2>2. n + d <= 247
    BY <1>1, <1>4, <1>6, <2>1
  <2>3. n + 1 + 4 \in Nat /\ n + 1 + 4 <= 255 /\ n + 1 + 4 = n + 5
    BY <1>1, <2>2
  <2>4. d + 1 + 1 + (n + 5) \in Nat /\ d + 1 + 1 + (n + 5) <= 255 /\ d + 1 + 1 + (n + 5) = n + d + 7
    BY <1>1, <2>2
  <2>5. size = n + d + 7
    BY <1>6, <2>3, <2>4, Bytes
  <2> QED
    BY <1>5, <1>6, <2>1, <2>2, <2>5
<1> QED
  BY <1>7, <1>8

\* What is to be found in a status that arrived.
StatusRead(got, d, acquired, n, pid) ==
  /\ ToCxxStr(got.Description) = d /\ got.Acquired = acquired
  /\ ToCxxStr(got.User.Name) = n /\ got.User.PID = pid

(***************************************************************************)
(* ChipStatus: if it can be sent, all of it arrives.                       *)
(***************************************************************************)
LEMMA StatusArrives ==
  ASSUME NEW d \in Descriptions, NEW acquired \in Int, NEW n \in 0 .. 255, NEW pid \in Int,
         Transmits(StatusMsg(d, acquired, n, pid))
  PROVE  StatusRead(ChipStatusDeserialize(Arrives(StatusMsg(d, acquired, n, pid)), 0),
                    d, acquired, n, pid)
<1> DEFINE cells == StatusCells(d, acquired, n, pid)
           msg == StatusMsg(d, acquired, n, pid)
           size == Byte(d + 1 + 1 + Byte(Byte(n + 1) + 4))
<1>1. d \in Nat /\ 4 <= d /\ d <= 17
  BY DEF Descriptions
<1>2. Promoted(n) = n /\ Promoted(Byte(n + 1)) = n + 1 /\ n + d <= 247 /\ size = n + d + 7
  <2>1. SizesKept(d, n)
    BY StatusSizes
  <2> QED
    BY <2>1 DEF SizesKept
<1>3. /\ DOMAIN cells = 1 .. 6 /\ Len(cells) = 6
      /\ cells[1] = Cell(0, 1, d) /\ cells[2] = Cell(1, d, d) /\ cells[3] = Cell(d + 1, 1, acquired)
      /\ cells[4] = Cell(d + 2, 1, n) /\ cells[5] = Cell(d + 3, Promoted(n), n)
      /\ cells[6] = Cell(d + 2 + Promoted(Byte(n + 1)), 4, pid)
  BY DEF StatusCells
<1> HIDE DEF cells
<1>4. /\ cells[1].at = 0 /\ cells[1].len = 1 /\ cells[1].val = d
      /\ cells[2].at = 1 /\ cells[2].len = d /\ cells[2].val = d
      /\ cells[3].at = d + 1 /\ cells[3].len = 1 /\ cells[3].val = acquired
      /\ cells[4].at = d + 2 /\ cells[4].len = 1 /\ cells[4].val = n
      /\ cells[5].at = d + 3 /\ cells[5].len = n /\ cells[5].val = n
      /\ cells[6].at = d + n + 3 /\ cells[6].len = 4 /\ cells[6].val = pid
  <2>1. d + 2 + (n + 1) = d + n + 3
    BY <1>1
  <2> QED
    BY <1>2, <1>3, <2>1 DEF Cell
<1>5. \A i \in 1 .. 6 : i = 1 \/ i = 2 \/ i = 3 \/ i = 4 \/ i = 5 \/ i = 6
  OBVIOUS
<1>6. Tiled(cells)
  <2>1. \A i \in 1 .. 6 : cells[i].at \in Int /\ cells[i].len \in Int
    BY <1>1, <1>4, <1>5
  <2>2. ASSUME NEW i \in 1 .. 6, NEW j \in 1 .. 6, i < j
        PROVE  /\ cells[j].at >= cells[i].at + cells[i].len
               /\ cells[j].at # cells[i].at \/ cells[j].len # cells[i].len
    <3>1. CASE i = 1
      BY <1>1, <1>4, <1>5, <2>2, <3>1
    <3>2. CASE i = 2
      BY <1>1, <1>4, <1>5, <2>2, <3>2
    <3>3. CASE i = 3
      BY <1>1, <1>4, <1>5, <2>2, <3>3
    <3>4. CASE i = 4
      BY <1>1, <1>4, <1>5, <2>2, <3>4
    <3>5. CASE i = 5
      BY <1>1, <1>4, <1>5, <2>2, <3>5
    <3>6. i # 6
      BY <2>2
    <3> QED
      BY <1>5, <3>1, <3>2, <3>3, <3>4, <3>5, <3>6
  <2> QED
    BY <1>3, <2>1, <2>2 DEF Tiled
<1>7. Arrives(msg) = cells
  <2>1. ASSUME NEW i \in 1 .. 6
        PROVE  cells[i] = Cell(cells[i].at, cells[i].len, cells[i].val)
    BY <1>3, <1>5 DEF Cell
  <2>2. ASSUME NEW i \in 1 .. 6 PROVE cells[i].at + cells[i].len <= n + d + 7
    <3>1. CASE i = 1 \/ i = 2 \/ i = 3
      BY <1>1, <1>4, <3>1
    <3>2. CASE i = 4 \/ i = 5 \/ i = 6
      BY <1>1, <1>4, <3>2
    <3> QED
      BY <1>5, <3>1, <3>2
  <2>3. n + d + 7 \in Int
    BY <1>1
  <2>4. msg = PackMsg(n + d + 7, cells)
    <3>1. /\ ChipStatusSerialize(StatusOf(d, acquired, n, pid), 0) = cells
          /\ ChipStatusPackedSize(StatusOf(d, acquired, n, pid)) = size
      BY StatusWritten, Zenon DEF cells
    <3> QED
      BY <1>2, <3>1, Zenon DEF StatusMsg
  <2>5. Arrives(msg) = [i \in DOMAIN cells |-> cells[i]]
    BY <1>3, <1>6, <2>1, <2>2, <2>3, <2>4, ArrivesWhole
  <2>6. cells = [i \in DOMAIN cells |-> cells[i]]
    BY DEF cells, StatusCells
  <2> QED
    BY <2>5, <2>6, Zenon
<1>8. /\ Read(cells, 0, 1) = d /\ Read(cells, 1, d) = d /\ Read(cells, d + 1, 1) = acquired
      /\ Read(cells, d + 2, 1) = n /\ Read(cells, d + 3, n) = n
      /\ Read(cells, d + n + 3, 4) = pid
  <2>1. \A i \in 1 .. 6 : Read(cells, cells[i].at, cells[i].len) = cells[i].val
    BY <1>3, <1>6, ReadBack
  <2>2. 1 \in 1 .. 6 /\ 2 \in 1 .. 6 /\ 3 \in 1 .. 6 /\ 4 \in 1 .. 6 /\ 5 \in 1 .. 6 /\ 6 \in 1 .. 6
    OBVIOUS
  <2> QED
    BY <1>4, <2>1, <2>2, Zenon
<1>9. Promoted(d) = d /\ Promoted(Byte(d + 1)) = d + 1
  <2>1. d + 1 \in Nat /\ d + 1 <= 127 /\ d \in 0 .. 255 /\ d <= 127
    BY <1>1
  <2>2. Byte(d + 1) = d + 1 /\ d + 1 \in 0 .. 255
    BY <2>1, Bytes
  <2> QED
    BY <2>1, <2>2, PromotedSize
<1> DEFINE text(k) == [Size |-> k, Data |-> k]
<1>10. /\ StringDeserialize(cells, 0) = text(d) /\ StringDeserialize(cells, d + 2) = text(n)
  <2>1. 0 + 1 = 1 /\ d + 2 + 1 = d + 3
    BY <1>1
  <2> QED
    BY <1>2, <1>8, <1>9, <2>1 DEF StringDeserialize
<1>11. UserDataDeserialize(cells, d + 2) = [Name |-> text(n), PID |-> pid]
  <2>1. d + 2 + Promoted(StringPackedSize(text(n))) = d + n + 3
    BY <1>1, <1>2 DEF StringPackedSize
  <2> QED
    BY <1>8, <1>10, <2>1 DEF UserDataDeserialize, PidSize
<1>12. ChipStatusDeserialize(cells, 0) =
         [Description |-> text(d), Acquired |-> acquired, User |-> [Name |-> text(n), PID |-> pid]]
  <2>1. 0 + Promoted(StringPackedSize(text(d))) = d + 1 /\ d + 1 + 1 = d + 2
    BY <1>1, <1>9 DEF StringPackedSize
  <2> QED
    BY <1>8, <1>10, <1>11, <2>1 DEF ChipStatusDeserialize
<1>13. ToCxxStr(text(d)) = d /\ ToCxxStr(text(n)) = n
  BY <1>1 DEF ToCxxStr, Garbage
<1> QED
  BY <1>7, <1>12, <1>13 DEF StatusRead

(***************************************************************************)
(* A status with a name of up to NameLimit bytes can be sent.              *)
(***************************************************************************)
LEMMA StatusFits ==
  ASSUME NEW d \in Descriptions, NEW acquired, NEW n \in 0 .. 255, NEW pid, n <= NameLimit
  PROVE  Transmits(StatusMsg(d, acquired, n, pid))
<1> DEFINE cells == StatusCells(d, acquired, n, pid)
           size == Byte(d + 1 + 1 + Byte(Byte(n + 1) + 4))
<1>1. d \in Nat /\ d <= 17 /\ n <= 201 /\ (CharIsSigned => n <= 74)
  BY DEF Descriptions, NameLimit
<1>2. Byte(n + 1) = n + 1 /\ n + 1 \in 0 .. 255
  <2>1. n + 1 \in Nat /\ n + 1 <= 255
    BY <1>1
  <2> QED
    BY <2>1, Bytes
<1>3. Promoted(n) = n /\ Promoted(n + 1) = n + 1
  BY <1>1, <1>2, PromotedSize
<1>4. size = n + d + 7 /\ n + d + 7 \in 0 .. 255
  <2>1. n + 1 + 4 \in Nat /\ n + 1 + 4 <= 255 /\ n + 1 + 4 = n + 5
    BY <1>1
  <2>2. d + 1 + 1 + (n + 5) \in Nat /\ d + 1 + 1 + (n + 5) <= 255 /\ d + 1 + 1 + (n + 5) = n + d + 7
    BY <1>1
  <2> QED
    BY <1>2, <2>1, <2>2, Bytes
<1>5. Promoted(size) >= 0
  <2>1. CharIsSigned => n + d + 7 <= 127
    BY <1>1
  <2>2. Promoted(n + d + 7) = n + d + 7
    BY <1>4, <2>1, PromotedSize
  <2> QED
    BY <1>4, <2>2
<1>6. /\ DOMAIN cells = 1 .. 6
      /\ cells[1] = Cell(0, 1, d) /\ cells[2] = Cell(1, d, d) /\ cells[3] = Cell(d + 1, 1, acquired)
      /\ cells[4] = Cell(d + 2, 1, n) /\ cells[5] = Cell(d + 3, Promoted(n), n)
      /\ cells[6] = Cell(d + 2 + Promoted(Byte(n + 1)), 4, pid)
  BY DEF StatusCells
<1> HIDE DEF cells
<1>7. \A i \in 1 .. 6 : cells[i].len >= 0 /\ cells[i].at + cells[i].len <= Payload
  <2>1. \A i \in 1 .. 6 : i = 1 \/ i = 2 \/ i = 3 \/ i = 4 \/ i = 5 \/ i = 6
    OBVIOUS
  <2> QED
    BY <1>1, <1>2, <1>3, <1>6, <2>1 DEF Cell, Payload
<1>8. StatusMsg(d, acquired, n, pid) = [size |-> size, cells |-> cells]
  BY StatusWritten DEF StatusMsg, PackMsg, cells
<1> QED
  BY <1>5, <1>6, <1>7, <1>8 DEF Transmits

-----------------------------------------------------------------------------
(***************************************************************************)
(* The inductive invariant                                                 *)
(***************************************************************************)

\* What Exact and the type invariant say of the values of one message.
Faithful(sent, got) ==
  /\ sent \in Seq(Nat \cup {-1}) /\ got \in Seq(Nat \cup {-1, Garbage})
  /\ Len(got) = Len(sent)
  /\ \A i \in DOMAIN sent : got[i] # sent[i] => sent[i] > 255 /\ got[i] \in 0 .. 254

\* The part of the type invariant about the daemon's own variables.
StateOK ==
  /\ CharIsSigned \in BOOLEAN
  /\ Acquired \in {0, 1}
  /\ User \in [Name : 0 .. 255, PID : Pids \cup {-1}]
  /\ daemon \in {"up", "terminated", "undefined"}

CodecInv == StateOK /\ Faithful(call.sent, call.got) /\ AnswersFit

(***************************************************************************)
(* A text a byte can count arrives as long as it was, a longer one shorter.*)
(***************************************************************************)
LEMMA TextFaithful ==
  ASSUME NEW n \in Nat, Byte(n) <= 254
  PROVE  Byte(n) \in Nat /\ (Byte(n) # n => n > 255 /\ Byte(n) \in 0 .. 254)
BY Bytes

(***************************************************************************)
(* The last message stays faithful if the one that arrives is.             *)
(***************************************************************************)
LEMMA DeliveredFaithful ==
  ASSUME NEW sent, NEW got, Faithful(call.sent, call.got), Delivered(sent, got),
         daemon' = "up" => Faithful(sent, got)
  PROVE  Faithful(call.sent, call.got)'
<1>1. CASE daemon' = "up"
  <2>1. call' = [sent |-> sent, got |-> got]
    BY <1>1 DEF Delivered
  <2>2. call'.sent = sent /\ call'.got = got
    BY <2>1
  <2> QED
    BY <1>1, <2>2 DEF Faithful
<1>2. CASE daemon' # "up"
  BY <1>2 DEF Delivered, Faithful
<1> QED
  BY <1>1, <1>2

(***************************************************************************)
(* PackError's text arrives whole, or the daemon does not answer.          *)
(***************************************************************************)
LEMMA ErrorArrives ==
  ASSUME NEW t \in Nat, PackError(t), daemon' = "up"
  PROVE  Read(Arrives(PackMsg(Byte(t), <<Cell(0, t, t)>>)), 0, Byte(t)) = t
<1> DEFINE cells == <<Cell(0, t, t)>>
           msg == PackMsg(Byte(t), cells)
<1>1. DOMAIN cells = 1 .. 1 /\ Len(cells) = 1 /\ cells[1] = Cell(0, t, t)
  OBVIOUS
<1>2. Transmits(msg)
  BY DEF PackError, Sends
<1>3. t <= 254
  <2>1. cells[1].at + cells[1].len <= Payload
    BY <1>1, <1>2 DEF Transmits, PackMsg
  <2> QED
    BY <1>1, <2>1 DEF Cell, Payload
<1>4. Byte(t) = t
  BY <1>3, Bytes
<1>5. Tiled(cells)
  <2>1. \A i \in 1 .. 1 : i = 1
    OBVIOUS
  <2> QED
    BY <1>1, <2>1 DEF Tiled, Cell
<1>6. Arrives(msg) = [i \in DOMAIN cells |-> cells[i]]
  <2>1. \A i \in DOMAIN cells :
          cells[i] = Cell(cells[i].at, cells[i].len, cells[i].val) /\ cells[i].at + cells[i].len <= t
    BY <1>1 DEF Cell
  <2> QED
    BY <1>4, <1>5, <2>1, ArrivesWhole
<1>7. [i \in DOMAIN cells |-> cells[i]] = cells
  OBVIOUS
<1>8. Read(cells, cells[1].at, cells[1].len) = cells[1].val
  BY <1>1, <1>5, ReadBack
<1>9. Read(cells, 0, t) = t
  BY <1>1, <1>8 DEF Cell
<1> QED
  BY <1>4, <1>6, <1>7, <1>9

(***************************************************************************)
(* An error text that a signed char can count, or an unsigned one and the  *)
(* payload can hold, is sent.                                              *)
(***************************************************************************)
LEMMA ErrorFits ==
  ASSUME NEW t \in Nat, t <= 254, CharIsSigned => t <= 127, PackError(t)
  PROVE  daemon' = "up"
<1> DEFINE cells == <<Cell(0, t, t)>>
           msg == PackMsg(Byte(t), cells)
<1>1. DOMAIN cells = 1 .. 1 /\ cells[1] = Cell(0, t, t)
  OBVIOUS
<1>2. Byte(t) = t /\ t \in 0 .. 255
  BY Bytes
<1>3. Promoted(t) = t
  BY <1>2, PromotedSize
<1>4. \A i \in DOMAIN cells : cells[i].len >= 0 /\ cells[i].at + cells[i].len <= Payload
  BY <1>1 DEF Cell, Payload
<1>5. Transmits(msg)
  <2>1. msg.size = t /\ msg.cells = cells
    BY <1>2 DEF PackMsg
  <2> QED
    BY <1>3, <1>4, <2>1 DEF Transmits
<1> QED
  BY <1>5 DEF PackError, Sends, MaxError

(***************************************************************************)
(* EnsureNotAcquired: the refusal of any procedure tells the truth, and is *)
(* sent if the name of the one who holds the port is short enough.         *)
(***************************************************************************)
LEMMA RefusalStep ==
  ASSUME CodecInv, daemon = "up", NEW p \in {5, 7}, EnsureNotAcquired(p)
  PROVE  CodecInv'
<1> DEFINE t == Refusal(p)
<1>1. User.Name \in 0 .. 255 /\ User.PID \in Int /\ User.PID <= MaxPid
  <2>1. User.Name \in 0 .. 255 /\ User.PID \in Pids \cup {-1}
    BY DEF CodecInv, StateOK
  <2>2. Pids \subseteq 1 .. MaxPid
    BY CodecAssumption
  <2>3. MaxPid \in Nat /\ -1 <= MaxPid
    BY SMT DEF MaxPid
  <2>4. \A x \in Pids \cup {-1} : x \in Int /\ x <= MaxPid
    BY <2>2, <2>3
  <2> QED
    BY <2>1, <2>4
<1>2. Digits(User.PID) \in 1 .. 7
  BY <1>1, PidDigits
<1>3. t \in Nat /\ t <= 53 + User.Name
  <2>1. PICK k \in 0 .. 255, g \in 1 .. 7 : k = User.Name /\ g = Digits(User.PID)
    BY <1>1, <1>2
  <2>2. t = 39 + p + k + g
    BY <2>1 DEF Refusal
  <2>3. p = 5 \/ p = 7
    OBVIOUS
  <2> QED
    BY <2>1, <2>2, <2>3
<1>4. PackError(t) /\ UNCHANGED <<CharIsSigned, Acquired, User>>
  BY DEF EnsureNotAcquired
<1> HIDE DEF t
<1>5. StateOK'
  BY <1>4 DEF CodecInv, StateOK, PackError, Sends
<1>6. Faithful(call.sent, call.got)'
  <2> DEFINE got == Read(Arrives(PackMsg(Byte(t), <<Cell(0, t, t)>>)), 0, Byte(t))
  <2>1. Delivered(<<t>>, <<got>>)
    BY <1>4 DEF PackError, PackMsg
  <2>2. ASSUME daemon' = "up" PROVE Faithful(<<t>>, <<got>>)
    <3>1. got = t
      BY <1>3, <1>4, <2>2, ErrorArrives
    <3> HIDE DEF got
    <3> QED
      BY <1>3, <3>1 DEF Faithful
  <2> HIDE DEF got
  <2> QED
    BY <2>1, <2>2, DeliveredFaithful DEF CodecInv
<1>7. AnswersFit'
  <2> SUFFICES ASSUME User.Name <= NameLimit PROVE daemon' = "up"
    BY <1>1, <1>4 DEF AnswersFit, NameLimit
  <2>1. t <= 254 /\ (CharIsSigned => t <= 127)
    BY <1>1, <1>3 DEF NameLimit
  <2> QED
    BY <1>3, <1>4, <2>1, ErrorFits
<1> QED
  BY <1>5, <1>6, <1>7 DEF CodecInv

(***************************************************************************)
(* Connect's answer: the path of the motherboard's port can be sent.       *)
(***************************************************************************)
LEMMA PortFits ==
  Transmits(PackMsg(StringPackedSize(Text(MbPortSize)), StringSerialize(Text(MbPortSize), 0)))
<1> DEFINE n == MbPortSize
           cells == <<Cell(0, 1, n), Cell(1, n, n)>>
           msg == PackMsg(StringPackedSize(Text(n)), StringSerialize(Text(n), 0))
<1>1. n \in 0 .. 64
  BY CodecAssumption
<1> HIDE DEF n
<1>2. n \in Nat /\ n <= 255 /\ n + 1 \in Nat /\ n + 1 <= 255
  BY <1>1
<1>3. Byte(n) = n /\ Byte(n + 1) = n + 1
  BY <1>2, Bytes
<1>4. Promoted(n) = n /\ Promoted(n + 1) = n + 1
  <2>1. n \in 0 .. 255 /\ n <= 127 /\ n + 1 \in 0 .. 255 /\ n + 1 <= 127
    BY <1>1
  <2> QED
    BY <2>1, PromotedSize
<1>5. msg.size = n + 1 /\ msg.cells = cells
  BY <1>3, <1>4 DEF PackMsg, StringPackedSize, StringSerialize, Text
<1>6. DOMAIN cells = 1 .. 2 /\ cells[1] = Cell(0, 1, n) /\ cells[2] = Cell(1, n, n)
  OBVIOUS
<1>7. \A i \in DOMAIN cells : cells[i].len >= 0 /\ cells[i].at + cells[i].len <= Payload
  <2>1. \A i \in 1 .. 2 : i = 1 \/ i = 2
    OBVIOUS
  <2> QED
    BY <1>1, <1>6, <2>1 DEF Cell, Payload
<1> HIDE DEF cells, msg
<1>8. Transmits(msg)
  BY <1>2, <1>4, <1>5, <1>7 DEF Transmits
<1> QED
  BY <1>8 DEF msg, n

(***************************************************************************)
(* Connect: the name, its length cut to a byte, and the pid reach the      *)
(* daemon, and the path of the port the client.                            *)
(***************************************************************************)
LEMMA ConnectStep ==
  ASSUME CodecInv, NEW n \in Names, NEW pid \in Pids, Connect(n, pid)
  PROVE  CodecInv'
<1> DEFINE got == UserDataDeserialize(Arrives(UserMsg(n, pid)), 0)
           answer == PackMsg(StringPackedSize(Text(MbPortSize)), StringSerialize(Text(MbPortSize), 0))
           port == StringDeserialize(Arrives(answer), 0)
<1>1. n \in Nat /\ pid \in Nat /\ MbPortSize \in Nat /\ MbPortSize <= 64
  <2>1. MaxPid \in Nat
    BY SMT DEF MaxPid
  <2> QED
    BY <2>1, CodecAssumption
<1>2. daemon = "up" /\ Transmits(UserMsg(n, pid))
  BY DEF Connect, UserMsg, UserOf
<1>3. \/ EnsureNotAcquired(7)
      \/ /\ Acquired' = 1
         /\ User' = [Name |-> ToCxxStr(got.Name), PID |-> got.PID]
         /\ Sends(answer)
         /\ Delivered(<<n, pid, MbPortSize>>, <<User'.Name, User'.PID, ToCxxStr(port)>>)
         /\ UNCHANGED CharIsSigned
  BY DEF Connect, UserMsg, UserOf
<1>4. ToCxxStr(got.Name) = Byte(n) /\ got.PID = pid /\ Byte(n) <= 249
  BY <1>1, <1>2, UserDataArrives
<1>5. ToCxxStr(port) = MbPortSize
  <2>1. ToCxxStr(port) = Byte(MbPortSize)
    BY <1>1, PortFits, StringArrives
  <2>2. Byte(MbPortSize) = MbPortSize
    BY <1>1, Bytes
  <2> QED
    BY <2>1, <2>2
<1>6. Transmits(answer)
  BY PortFits
<1> HIDE DEF got, answer, port
<1>7. CASE EnsureNotAcquired(7)
  BY <1>2, <1>7, RefusalStep
<1>8. CASE ~EnsureNotAcquired(7)
  <2>1. /\ Acquired' = 1 /\ CharIsSigned' = CharIsSigned /\ daemon' = "up"
        /\ User' = [Name |-> Byte(n), PID |-> pid]
        /\ Delivered(<<n, pid, MbPortSize>>, <<User'.Name, User'.PID, MbPortSize>>)
    BY <1>3, <1>4, <1>5, <1>6, <1>8 DEF Sends
  <2>2. Byte(n) \in 0 .. 255
    BY <1>1, Bytes
  <2>3. StateOK'
    BY <2>1, <2>2 DEF CodecInv, StateOK
  <2>4. Faithful(<<n, pid, MbPortSize>>, <<Byte(n), pid, MbPortSize>>)
    <3> DEFINE b == Byte(n)
               m == MbPortSize
               sent == <<n, pid, m>>
               rcvd == <<b, pid, m>>
    <3>1. b \in Nat /\ (b # n => n > 255 /\ b \in 0 .. 254)
      BY <1>1, <1>4, <2>2, TextFaithful
    <3>2. m \in Nat
      BY <1>1
    <3> HIDE DEF b, m
    <3>3. sent \in Seq(Nat \cup {-1}) /\ rcvd \in Seq(Nat \cup {-1, Garbage})
      BY <1>1, <3>1, <3>2
    <3>4. /\ Len(sent) = 3 /\ Len(rcvd) = 3 /\ DOMAIN sent = 1 .. 3
          /\ sent[1] = n /\ sent[2] = pid /\ sent[3] = m
          /\ rcvd[1] = b /\ rcvd[2] = pid /\ rcvd[3] = m
      OBVIOUS
    <3>5. \A i \in 1 .. 3 : i = 1 \/ i = 2 \/ i = 3
      OBVIOUS
    <3> HIDE DEF sent, rcvd
    <3>6. \A i \in DOMAIN sent : rcvd[i] # sent[i] => sent[i] > 255 /\ rcvd[i] \in 0 .. 254
      BY <3>1, <3>4, <3>5
    <3>7. Faithful(sent, rcvd)
      BY <3>3, <3>4, <3>6 DEF Faithful
    <3> QED
      BY <3>7 DEF sent, rcvd, b, m
  <2>5. User'.Name = Byte(n) /\ User'.PID = pid
    BY <2>1
  <2>6. Faithful(call.sent, call.got)'
    BY <2>1, <2>4, <2>5, DeliveredFaithful DEF CodecInv
  <2> QED
    BY <2>1, <2>3, <2>6 DEF CodecInv, AnswersFit
<1> QED
  BY <1>7, <1>8

(***************************************************************************)
(* Flash: the path arrives, or a prefix of one that a byte cannot count.   *)
(***************************************************************************)
LEMMA FlashStep ==
  ASSUME CodecInv, NEW n \in Paths, Flash(n)
  PROVE  CodecInv'
<1> DEFINE request == PackMsg(StringPackedSize(Text(n)), StringSerialize(Text(n), 0))
           path == StringDeserialize(Arrives(request), 0)
<1>1. n \in Nat
  BY CodecAssumption
<1>2. daemon = "up" /\ Transmits(request)
  BY DEF Flash
<1>3. \/ EnsureNotAcquired(5)
      \/ /\ UNCHANGED <<CharIsSigned, Acquired, User, daemon>>
         /\ Delivered(<<n>>, <<ToCxxStr(path)>>)
  BY DEF Flash
<1>4. ToCxxStr(path) = Byte(n) /\ Byte(n) <= 253
  BY <1>1, <1>2, StringArrives
<1> HIDE DEF request, path
<1>5. CASE EnsureNotAcquired(5)
  BY <1>2, <1>5, RefusalStep
<1>6. CASE ~EnsureNotAcquired(5)
  <2> DEFINE b == Byte(n)
  <2>1. UNCHANGED <<CharIsSigned, Acquired, User, daemon>> /\ Delivered(<<n>>, <<b>>)
    BY <1>3, <1>4, <1>6
  <2>2. b \in 0 .. 255
    BY <1>1, Bytes
  <2>3. b \in Nat /\ (b # n => n > 255 /\ b \in 0 .. 254)
    BY <1>1, <1>4, <2>2, TextFaithful
  <2> HIDE DEF b
  <2>4. Faithful(<<n>>, <<b>>)
    BY <1>1, <2>3 DEF Faithful
  <2>5. Faithful(call.sent, call.got)'
    BY <2>1, <2>4, DeliveredFaithful DEF CodecInv
  <2>6. StateOK' /\ AnswersFit'
    BY <2>1 DEF CodecInv, StateOK, AnswersFit, NameLimit
  <2> QED
    BY <2>5, <2>6 DEF CodecInv
<1> QED
  BY <1>5, <1>6

(***************************************************************************)
(* GetStatus: the status arrives, and is sent if the name that is part of  *)
(* it is short enough.                                                     *)
(***************************************************************************)
LEMMA GetStatusStep ==
  ASSUME CodecInv, NEW d \in Descriptions, GetStatus(d)
  PROVE  CodecInv'
<1> DEFINE n == User.Name
           pid == User.PID
           a == Acquired
           msg == StatusMsg(d, a, n, pid)
           got == ChipStatusDeserialize(Arrives(msg), 0)
<1>1. n \in 0 .. 255 /\ pid \in Nat \cup {-1} /\ a \in Nat /\ d \in Nat
  <2>1. n \in 0 .. 255 /\ pid \in Pids \cup {-1} /\ a \in {0, 1}
    BY DEF CodecInv, StateOK
  <2>2. MaxPid \in Nat
    BY SMT DEF MaxPid
  <2>3. Pids \subseteq Nat
    BY <2>2, CodecAssumption
  <2>4. d \in Nat
    BY DEF Descriptions
  <2>5. pid \in Nat \cup {-1}
    BY <2>1, <2>3
  <2>6. a \in Nat
    BY <2>1
  <2> QED
    BY <2>1, <2>4, <2>5, <2>6
<1>2. /\ daemon = "up" /\ Sends(msg)
      /\ Delivered(<<d, a, n, pid>>,
                   <<ToCxxStr(got.Description), got.Acquired, ToCxxStr(got.User.Name), got.User.PID>>)
      /\ UNCHANGED <<CharIsSigned, Acquired, User>>
  BY DEF GetStatus, StatusMsg, StatusOf, UserOf
<1>3. ASSUME daemon' = "up"
      PROVE  /\ ToCxxStr(got.Description) = d /\ got.Acquired = a
             /\ ToCxxStr(got.User.Name) = n /\ got.User.PID = pid
  <2>1. Transmits(msg)
    BY <1>2, <1>3 DEF Sends
  <2>2. a \in Int /\ pid \in Int
    BY <1>1
  <2>3. n \in 0 .. 255
    BY <1>1
  <2> HIDE DEF n, pid, a
  <2>4. StatusRead(got, d, a, n, pid)
    BY <2>1, <2>2, <2>3, StatusArrives, Zenon
  <2> QED
    BY <2>4 DEF StatusRead
<1>4. StateOK'
  BY <1>2 DEF CodecInv, StateOK, Sends
<1>5. AnswersFit'
  <2> SUFFICES ASSUME n <= NameLimit PROVE daemon' = "up"
    BY <1>1, <1>2 DEF AnswersFit, NameLimit
  <2>1. Transmits(msg)
    BY <1>1, StatusFits
  <2> QED
    BY <1>2, <2>1 DEF Sends
<1> HIDE DEF n, pid, a, msg, got
<1>6. Faithful(<<d, a, n, pid>>, <<d, a, n, pid>>)
  <2> DEFINE s == <<d, a, n, pid>>
  <2>1. s \in Seq(Nat \cup {-1}) /\ s \in Seq(Nat \cup {-1, Garbage})
    BY <1>1
  <2> QED
    BY <2>1 DEF Faithful
<1>7. Faithful(call.sent, call.got)'
  <2> DEFINE r == <<ToCxxStr(got.Description), got.Acquired, ToCxxStr(got.User.Name), got.User.PID>>
             s == <<d, a, n, pid>>
  <2>1. daemon' = "up" => r = s
    BY <1>3
  <2>2. Delivered(s, r)
    BY <1>2
  <2>3. Faithful(s, s)
    BY <1>6
  <2> HIDE DEF r, s
  <2>4. daemon' = "up" => Faithful(s, r)
    BY <2>1, <2>3
  <2> QED
    BY <2>2, <2>4, DeliveredFaithful DEF CodecInv
<1> QED
  BY <1>4, <1>5, <1>7 DEF CodecInv

(***************************************************************************)
(* LaunchFails: the text of a failed launch arrives, one of BufferSize     *)
(* bytes or more as an empty one.                                          *)
(***************************************************************************)
LEMMA LaunchFailsStep ==
  ASSUME CodecInv, NEW r \in Reasons, LaunchFails(r)
  PROVE  CodecInv'
<1> DEFINE size == Byte(IF r < BufferSize THEN r ELSE BufferSize)
<1>1. r \in Nat
  BY CodecAssumption DEF BufferSize
<1>2. UNCHANGED <<CharIsSigned, Acquired, User, daemon>> /\ Delivered(<<r>>, <<size>>)
  BY DEF LaunchFails
<1>3. size \in Nat /\ (size # r => r > 255 /\ size \in 0 .. 254)
  <2>1. CASE r < BufferSize
    <3>1. r <= 255
      BY <1>1, <2>1 DEF BufferSize
    <3> QED
      BY <1>1, <2>1, <3>1, Bytes
  <2>2. CASE ~(r < BufferSize)
    <3>1. r > 255 /\ size = Byte(256)
      BY <1>1, <2>2 DEF BufferSize
    <3>2. Byte(256) = 0
      BY SMT DEF Byte
    <3> QED
      BY <3>1, <3>2
  <2> QED
    BY <2>1, <2>2
<1> HIDE DEF size
<1>4. Faithful(<<r>>, <<size>>)
  BY <1>1, <1>3 DEF Faithful
<1>5. Faithful(call.sent, call.got)'
  BY <1>2, <1>4, DeliveredFaithful DEF CodecInv
<1>6. StateOK' /\ AnswersFit'
  BY <1>2 DEF CodecInv, StateOK, AnswersFit, NameLimit
<1> QED
  BY <1>5, <1>6 DEF CodecInv

(***************************************************************************)
(* The invariant of the messages, kept by every procedure.                 *)
(***************************************************************************)
THEOREM CodecInvariant == CodecSpec => []CodecInv
<1>1. CodecInit => CodecInv
  <2> SUFFICES ASSUME CodecInit PROVE CodecInv
    OBVIOUS
  <2>1. StateOK
    BY DEF CodecInit, StateOK
  <2>2. Faithful(call.sent, call.got)
    BY DEF CodecInit, Faithful
  <2>3. AnswersFit
    BY DEF CodecInit, AnswersFit
  <2> QED
    BY <2>1, <2>2, <2>3 DEF CodecInv
<1>2. CodecInv /\ [CodecNext]_codecVars => CodecInv'
  <2> SUFFICES ASSUME CodecInv, [CodecNext]_codecVars PROVE CodecInv'
    OBVIOUS
  <2>1. CASE \E n \in Names, pid \in Pids : Connect(n, pid)
    BY <2>1, ConnectStep
  <2>2. CASE \E n \in Paths : Flash(n)
    BY <2>2, FlashStep
  <2>3. CASE \E d \in Descriptions : GetStatus(d)
    BY <2>3, GetStatusStep
  <2>4. CASE \E r \in Reasons : LaunchFails(r)
    BY <2>4, LaunchFailsStep
  <2>5. CASE Reset
    <3>1. 5 \in {5, 7}
      OBVIOUS
    <3> QED
      BY <2>5, <3>1, RefusalStep DEF Reset
  <2>6. CASE Disconnect
    BY <2>6 DEF Disconnect, CodecInv, StateOK, Faithful, AnswersFit, NameLimit
  <2>7. CASE UNCHANGED codecVars
    BY <2>7 DEF codecVars, CodecInv, StateOK, Faithful, AnswersFit, NameLimit
  <2> QED
    BY <2>1, <2>2, <2>3, <2>4, <2>5, <2>6, <2>7 DEF CodecNext
<1> QED
  BY <1>1, <1>2, PTL DEF CodecSpec

(***************************************************************************)
(* Type correctness, for all names, paths, pids and error texts.           *)
(***************************************************************************)
THEOREM CodecTypeCorrect == CodecSpec => []CodecTypeOK
<1>1. CodecInv => CodecTypeOK
  BY DEF CodecInv, StateOK, Faithful, CodecTypeOK
<1> QED
  BY <1>1, CodecInvariant, PTL

(***************************************************************************)
(* No field of any message arrives changed, but that a text of more than   *)
(* 255 bytes may arrive as a prefix (Serialize and Deserialize of String,  *)
(* UserData and ChipStatus, PackError, PutError and ReadResult): for texts *)
(* of any length, with a signed and with an unsigned char.                 *)
(***************************************************************************)
THEOREM MessagesAreExact == CodecSpec => []Exact
<1>1. CodecInv => Exact
  BY DEF CodecInv, Faithful, Exact
<1> QED
  BY <1>1, CodecInvariant, PTL

(***************************************************************************)
(* Names of up to NameLimit bytes never make an answer or a refusal of the *)
(* daemon too long for a package, whatever pids the clients have.          *)
(***************************************************************************)
THEOREM ShortNamesFit == CodecSpec => []AnswersFit
<1>1. CodecInv => AnswersFit
  BY DEF CodecInv
<1> QED
  BY <1>1, CodecInvariant, PTL
=============================================================================
