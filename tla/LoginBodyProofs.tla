-------------------------- MODULE LoginBodyProofs --------------------------
(***************************************************************************)
(* Theorems about LoginBody, for requests and client data of every length, *)
(* every protocol number and whatever follows the blobs, cut anywhere.     *)
(***************************************************************************)
EXTENDS LoginBody, SequenceTheorems, WellFoundedInduction, TLAPS

LEMMA Joined ==
  ASSUME NEW x \in Seq(Byte), NEW y \in Seq(Byte)
  PROVE  /\ x \o y \in Seq(Byte) /\ Len(x \o y) = Len(x) + Len(y)
         /\ \A i \in 1 .. Len(x) : (x \o y)[i] = x[i]
         /\ \A k \in 1 .. Len(y) : (x \o y)[Len(x) + k] = y[k]
BY LenProperties

LEMMA MakeSeq ==
  ASSUME NEW n \in Nat, NEW s \in [1 .. n -> Byte]
  PROVE  s \in Seq(Byte) /\ Len(s) = n
<1>1. s \in Seq(Byte)
  BY SeqDef
<1>2. DOMAIN s = 1 .. Len(s) /\ Len(s) \in Nat
  BY <1>1, LenProperties
<1> QED
  BY <1>1, <1>2

LEMMA Cut ==
  ASSUME NEW b \in Seq(Byte), NEW n \in Nat, n <= Len(b)
  PROVE  /\ SubSeq(b, 1, n) \in Seq(Byte) /\ Len(SubSeq(b, 1, n)) = n
         /\ \A i \in 1 .. n : SubSeq(b, 1, n)[i] = b[i]
BY LenProperties

(* What there is of b from at on is what there is of t. *)
Shows(b, at, t) == \A k \in 1 .. Len(t) : at + k <= Len(b) => b[at + k] = t[k]

LEMMA ShowsLeft ==
  ASSUME NEW x \in Seq(Byte), NEW y \in Seq(Byte), NEW t \in Seq(Byte), NEW at \in Nat,
         at + Len(t) <= Len(x), Shows(x, at, t)
  PROVE  Shows(x \o y, at, t)
<1>1. PICK n \in Nat, m \in Nat, l \in Nat : n = Len(x) /\ m = Len(y) /\ l = Len(t)
  BY LenProperties
<1>2. \A i \in 1 .. n : (x \o y)[i] = x[i]
  BY <1>1, Joined
<1>3. \A k \in 1 .. l : at + k \in 1 .. n /\ at + k <= n
  BY <1>1
<1> QED
  BY <1>1, <1>2, <1>3, Zenon DEF Shows

LEMMA ShowsRight ==
  ASSUME NEW x \in Seq(Byte), NEW y \in Seq(Byte)
  PROVE  Shows(x \o y, Len(x), y)
BY Joined, Zenon DEF Shows

(* A body that ends early shows what the whole does. *)
LEMMA ShowsCut ==
  ASSUME NEW e \in Seq(Byte), NEW t \in Seq(Byte), NEW at \in Nat, Shows(e, at, t),
         NEW n \in Nat, n <= Len(e)
  PROVE  Shows(SubSeq(e, 1, n), at, t)
<1>1. PICK l \in Nat, m \in Nat : l = Len(e) /\ m = Len(t)
  BY LenProperties
<1>2. Len(SubSeq(e, 1, n)) = n /\ \A i \in 1 .. n : SubSeq(e, 1, n)[i] = e[i]
  BY Cut
<1>3. ASSUME NEW k \in 1 .. m, at + k <= n PROVE at + k \in 1 .. n /\ at + k <= l
  BY <1>1, <1>3
<1> QED
  BY <1>1, <1>2, <1>3, Zenon DEF Shows

-----------------------------------------------------------------------------
(* The pieces of a login. *)

LEMMA FillerIs ==
  ASSUME NEW n \in Nat
  PROVE  Filler(n) \in Seq(Byte) /\ Len(Filler(n)) = n /\ \A i \in 1 .. n : Filler(n)[i] = 97
<1>1. Filler(n) \in [1 .. n -> Byte] /\ \A i \in 1 .. n : Filler(n)[i] = 97
  BY DEF Filler, Byte
<1> QED
  BY <1>1, MakeSeq

(* The characters of a request of r bytes. *)
RequestByte(r, i) ==
  IF i = r THEN Close ELSE IF i = r - 1 THEN Quote
  ELSE IF i = 1 \/ i = 7 THEN Open ELSE IF i = 3 THEN Backslash
  ELSE IF i = 5 \/ i = 8 THEN Close ELSE IF i = 2 \/ i = 4 \/ i = 6 \/ i = 9 THEN Quote
  ELSE IF i = 10 THEN 101 ELSE IF i = 11 THEN 121 ELSE IF i = 12 THEN 74 ELSE 97

(* t is a, b, c and d one after the other. *)
IsFour(t, a, b, c, d) ==
  /\ t \in Seq(Byte) /\ Len(t) = Len(a) + Len(b) + Len(c) + Len(d)
  /\ \A m \in 1 .. Len(a) : t[m] = a[m]
  /\ \A m \in 1 .. Len(b) : t[Len(a) + m] = b[m]
  /\ \A m \in 1 .. Len(c) : t[Len(a) + Len(b) + m] = c[m]
  /\ \A m \in 1 .. Len(d) : t[Len(a) + Len(b) + Len(c) + m] = d[m]

LEMMA FourPieces ==
  ASSUME NEW a \in Seq(Byte), NEW b \in Seq(Byte), NEW c \in Seq(Byte), NEW d \in Seq(Byte)
  PROVE  IsFour(((a \o b) \o c) \o d, a, b, c, d)
<1> DEFINE x == a \o b
           y == x \o c
           t == y \o d
<1>1. Len(a) \in Nat /\ Len(b) \in Nat /\ Len(c) \in Nat /\ Len(d) \in Nat
  BY LenProperties
<1>2. x \in Seq(Byte) /\ Len(x) = Len(a) + Len(b)
  BY Joined
<1>3. y \in Seq(Byte) /\ Len(y) = Len(a) + Len(b) + Len(c)
  BY <1>2, Joined
<1>4. t \in Seq(Byte) /\ Len(t) = Len(a) + Len(b) + Len(c) + Len(d)
  BY <1>3, Joined
<1>5. ASSUME NEW m \in 1 .. Len(a) PROVE t[m] = a[m]
  BY <1>1, <1>2, <1>3, <1>4
<1>6. ASSUME NEW m \in 1 .. Len(b) PROVE t[Len(a) + m] = b[m]
  BY <1>1, <1>2, <1>3, <1>4
<1>7. ASSUME NEW m \in 1 .. Len(c) PROVE t[Len(a) + Len(b) + m] = c[m]
  BY <1>1, <1>2, <1>3, <1>4
<1>8. ASSUME NEW m \in 1 .. Len(d) PROVE t[Len(a) + Len(b) + Len(c) + m] = d[m]
  BY <1>3, Joined
<1> QED
  BY <1>4, <1>5, <1>6, <1>7, <1>8 DEF IsFour

LEMMA RequestTextIs ==
  ASSUME NEW s, NEW r \in Nat, s.request = r, r >= 14
  PROVE  /\ RequestText(s) \in Seq(Byte) /\ Len(RequestText(s)) = r
         /\ \A i \in 1 .. r : RequestText(s)[i] = RequestByte(r, i)
<1>1. PICK head, e, tail, f :
        /\ head = <<Open, Quote, Backslash, Quote, Close, Quote, Open, Close, Quote>>
        /\ e = eyJ /\ tail = <<Quote, Close>> /\ f = Filler(r - 14)
  OBVIOUS
<1>2. PICK n \in Nat : n = r - 14
  <2>1. r - 14 \in Nat
    OBVIOUS
  <2> QED
    BY <2>1
<1>3. head \in Seq(Byte) /\ Len(head) = 9 /\ tail \in Seq(Byte) /\ Len(tail) = 2
  BY <1>1 DEF Open, Quote, Backslash, Close, Byte
<1>4. e \in Seq(Byte) /\ Len(e) = 3
  BY <1>1 DEF eyJ, Byte
<1>5. f \in Seq(Byte) /\ Len(f) = n
  BY <1>1, <1>2, FillerIs
<1>6. RequestText(s) = ((head \o e) \o f) \o tail
  <2>1. Len(head \o e) = 12
    <3>1. Len(head \o e) = Len(head) + Len(e)
      BY <1>3, <1>4, Joined, Zenon
    <3> QED
      BY <1>3, <1>4, <3>1
  <2>2. RequestText(s) = ((head \o e) \o Filler(r - Len(head \o e) - 2)) \o tail
    BY <1>1, Zenon DEF RequestText
  <2>3. r - 12 - 2 = r - 14
    OBVIOUS
  <2> QED
    BY <1>1, <2>1, <2>2, <2>3, Zenon
<1> DEFINE t == ((head \o e) \o f) \o tail
<1>7. IsFour(t, head, e, f, tail)
  BY <1>3, <1>4, <1>5, FourPieces, Zenon
<1> HIDE DEF t
<1>8. PICK nine \in Nat, three \in Nat, two \in Nat : nine = 9 /\ three = 3 /\ two = 2
  OBVIOUS
<1>11. /\ t \in Seq(Byte) /\ Len(t) = nine + three + n + two
       /\ \A m \in 1 .. nine : t[m] = head[m]
       /\ \A m \in 1 .. three : t[nine + m] = e[m]
       /\ \A m \in 1 .. n : t[nine + three + m] = f[m]
       /\ \A m \in 1 .. two : t[nine + three + n + m] = tail[m]
  <2>1. Len(head) = nine /\ Len(e) = three /\ Len(f) = n /\ Len(tail) = two
    BY <1>3, <1>4, <1>5, <1>8
  <2> QED
    BY <1>7, <2>1, Zenon DEF IsFour
<1>9. \A m \in 1 .. n : f[m] = 97
  BY <1>1, <1>2, FillerIs
<1>10. ASSUME NEW i \in 1 .. r PROVE t[i] = RequestByte(r, i)
  <2>1. CASE i \in 1 .. 9
    <3>1. i \in 1 .. nine /\ i # r /\ i # r - 1
      BY <1>8, <2>1
    <3>2. t[i] = head[i]
      BY <1>11, <3>1, Zenon
    <3> QED
      BY <1>1, <2>1, <3>1, <3>2 DEF RequestByte
  <2>2. CASE i \in 10 .. 12
    <3>1. i - 9 \in 1 .. three /\ i = nine + (i - 9) /\ i # r /\ i # r - 1
      BY <1>8, <2>2
    <3>2. t[nine + (i - 9)] = e[i - 9]
      BY <1>11, <3>1, Zenon
    <3>3. t[i] = e[i - 9]
      BY <3>1, <3>2
    <3> QED
      BY <1>1, <2>2, <3>1, <3>3 DEF RequestByte, eyJ
  <2>3. CASE i \in 13 .. 12 + n
    <3>1. i - 12 \in 1 .. n /\ i = nine + three + (i - 12) /\ i # r /\ i # r - 1
      BY <1>2, <1>8, <2>3
    <3>2. t[nine + three + (i - 12)] = f[i - 12] /\ f[i - 12] = 97
      BY <1>11, <1>9, <3>1, Zenon
    <3>3. t[i] = 97
      BY <3>1, <3>2
    <3> QED
      BY <2>3, <3>1, <3>3 DEF RequestByte
  <2>4. CASE i \in 13 + n .. r
    <3>1. \/ i = r - 1 /\ i = nine + three + n + 1
          \/ i = r /\ i = nine + three + n + 2
      BY <1>2, <1>8, <2>4
    <3>2. t[nine + three + n + 1] = Quote /\ t[nine + three + n + 2] = Close
      <4>1. 1 \in 1 .. two /\ 2 \in 1 .. two /\ tail[1] = Quote /\ tail[2] = Close
        BY <1>1, <1>8
      <4> QED
        BY <1>11, <4>1, Zenon
    <3>3. r - 1 # r
      OBVIOUS
    <3> QED
      BY <3>1, <3>2, <3>3, Zenon DEF RequestByte
  <2> QED
    BY <1>2, <2>1, <2>2, <2>3, <2>4
<1>12. nine + three + n + two = r
  BY <1>2, <1>8
<1> QED
  BY <1>6, <1>10, <1>11, <1>12, Zenon DEF t

Digit(n, k) == (n \div k) % 128

LEMMA DigitType ==
  ASSUME NEW n \in Nat
  PROVE  /\ Digit(n, 1) \in 0 .. 127 /\ Digit(n, 128) \in 0 .. 127
         /\ Digit(n, 16384) \in 0 .. 127 /\ Digit(n, 2097152) \in 0 .. 127
BY SMT DEF Digit

LEMMA VaruintIs ==
  ASSUME NEW n \in Nat
  PROVE  /\ n < 128 => Varuint(n) = <<n>>
         /\ n >= 128 /\ n < 16384 => Varuint(n) = <<128 + Digit(n, 1), Digit(n, 128)>>
         /\ n >= 16384 /\ n < 2097152 =>
              Varuint(n) = <<128 + Digit(n, 1), 128 + Digit(n, 128), Digit(n, 16384)>>
         /\ n >= 2097152 =>
              Varuint(n) = <<128 + Digit(n, 1), 128 + Digit(n, 128), 128 + Digit(n, 16384),
                             Digit(n, 2097152)>>
<1>1. CASE n < 128
  BY <1>1, SMT DEF Varuint
<1>2. CASE n >= 128 /\ n < 16384
  <2>1. ~ (n < 128) /\ ~ (n >= 16384) /\ ~ (n >= 2097152)
    BY <1>2, SMT
  <2> QED
    BY <1>2, <2>1, SMT DEF Varuint, Digit
<1>3. CASE n >= 16384 /\ n < 2097152
  <2>1. ~ (n < 128) /\ ~ (n < 16384) /\ ~ (n >= 2097152)
    BY <1>3, SMT
  <2> QED
    BY <1>3, <2>1, SMT DEF Varuint, Digit
<1>4. CASE n >= 2097152
  <2>1. ~ (n < 128) /\ ~ (n < 16384) /\ ~ (n < 2097152)
    BY <1>4, SMT
  <2> QED
    BY <1>4, <2>1, SMT DEF Varuint, Digit
<1> QED
  BY <1>1, <1>2, <1>3, <1>4, SMT

LEMMA VaruintType ==
  ASSUME NEW n \in Nat
  PROVE  Varuint(n) \in Seq(Byte) /\ Len(Varuint(n)) \in 1 .. 4
<1> DEFINE a == Digit(n, 1)
           b == Digit(n, 128)
           c == Digit(n, 16384)
           d == Digit(n, 2097152)
<1>1. a \in 0 .. 127 /\ b \in 0 .. 127 /\ c \in 0 .. 127 /\ d \in 0 .. 127
  BY DigitType, SMT
<1>2. CASE n < 128
  <2>1. Varuint(n) = <<n>>
    BY <1>2, VaruintIs, SMT
  <2> QED
    BY <1>2, <2>1, SMT DEF Byte
<1>3. CASE n >= 128 /\ n < 16384
  <2>1. Varuint(n) = <<128 + a, b>>
    BY <1>3, VaruintIs, SMT
  <2> HIDE DEF a, b, c, d
  <2> QED
    BY <1>1, <2>1, SMT DEF Byte
<1>4. CASE n >= 16384 /\ n < 2097152
  <2>1. Varuint(n) = <<128 + a, 128 + b, c>>
    BY <1>4, VaruintIs, SMT
  <2> HIDE DEF a, b, c, d
  <2> QED
    BY <1>1, <2>1, SMT DEF Byte
<1>5. CASE n >= 2097152
  <2>1. Varuint(n) = <<128 + a, 128 + b, 128 + c, d>>
    BY <1>5, VaruintIs, SMT
  <2> HIDE DEF a, b, c, d
  <2> QED
    BY <1>1, <2>1, SMT DEF Byte
<1> QED
  BY <1>2, <1>3, <1>4, <1>5, SMT

Octet(n, k) == (n \div k) % 256

LEMMA OctetType ==
  ASSUME NEW n \in Nat
  PROVE  /\ Octet(n, 1) \in 0 .. 255 /\ Octet(n, 256) \in 0 .. 255
         /\ Octet(n, 65536) \in 0 .. 255 /\ Octet(n, 16777216) \in 0 .. 255
BY SMT DEF Octet

LEMMA LittleEndianIs ==
  ASSUME NEW n \in Nat
  PROVE  LittleEndian(n) = <<Octet(n, 1), Octet(n, 256), Octet(n, 65536), Octet(n, 16777216)>>
<1>1. n \div 1 = n
  BY SMT
<1> QED
  BY <1>1, SMT DEF LittleEndian, Octet

LEMMA EndianType ==
  ASSUME NEW n \in Nat
  PROVE  /\ LittleEndian(n) \in Seq(Byte) /\ Len(LittleEndian(n)) = 4
         /\ BigEndian(n) \in Seq(Byte) /\ Len(BigEndian(n)) = 4
<1> DEFINE a == Octet(n, 1)
           b == Octet(n, 256)
           c == Octet(n, 65536)
           d == Octet(n, 16777216)
<1>1. a \in 0 .. 255 /\ b \in 0 .. 255 /\ c \in 0 .. 255 /\ d \in 0 .. 255
  BY OctetType, SMT
<1>2. LittleEndian(n) = <<a, b, c, d>>
  BY LittleEndianIs, SMT
<1>3. LittleEndian(n) \in [1 .. 4 -> Byte]
  <2> HIDE DEF a, b, c, d
  <2> QED
    BY <1>1, <1>2, SMT DEF Byte
<1>4. BigEndian(n) \in [1 .. 4 -> Byte]
  BY <1>3 DEF BigEndian
<1> QED
  BY <1>3, <1>4, MakeSeq

LEMMA PrefixType ==
  ASSUME NEW layout, NEW n \in Nat
  PROVE  Prefix(layout, n) \in Seq(Byte) /\ Len(Prefix(layout, n)) \in 1 .. 4
BY VaruintType, EndianType DEF Prefix

LEMMA ClientTextIs ==
  ASSUME NEW s, NEW k \in Nat, s.client = k, k >= 3
  PROVE  ClientText(s) \in Seq(Byte) /\ Len(ClientText(s)) = k
<1>1. eyJ \in Seq(Byte) /\ Len(eyJ) = 3
  BY DEF eyJ, Byte
<1>2. k - 3 \in Nat /\ 3 + (k - 3) = k
  OBVIOUS
<1>3. Filler(k - 3) \in Seq(Byte) /\ Len(Filler(k - 3)) = k - 3
  BY <1>2, FillerIs
<1>4. ClientText(s) = eyJ \o Filler(k - 3)
  BY <1>1, Zenon DEF ClientText
<1>5. eyJ \o Filler(k - 3) \in Seq(Byte) /\ Len(eyJ \o Filler(k - 3)) = Len(eyJ) + Len(Filler(k - 3))
  BY <1>1, <1>3, Joined, Zenon
<1> QED
  BY <1>1, <1>2, <1>3, <1>4, <1>5, Zenon

-----------------------------------------------------------------------------
(* Where the pieces of a login are. *)

(* x is all of t at at. *)
Has(x, at, t) ==
  x \in Seq(Byte) /\ t \in Seq(Byte) /\ at \in Nat /\ at + Len(t) <= Len(x) /\ Shows(x, at, t)

LEMMA HasRight ==
  ASSUME NEW x \in Seq(Byte), NEW y \in Seq(Byte)
  PROVE  Has(x \o y, Len(x), y)
<1>1. Len(x) \in Nat /\ Len(x) + Len(y) <= Len(x \o y) /\ x \o y \in Seq(Byte)
  BY Joined, LenProperties
<1> QED
  BY <1>1, ShowsRight, Zenon DEF Has

LEMMA HasLeft ==
  ASSUME NEW x, NEW at, NEW t, Has(x, at, t), NEW y \in Seq(Byte)
  PROVE  Has(x \o y, at, t)
<1>1. x \in Seq(Byte) /\ t \in Seq(Byte) /\ at \in Nat /\ at + Len(t) <= Len(x) /\ Shows(x, at, t)
  BY Zenon DEF Has
<1>2. Shows(x \o y, at, t)
  BY <1>1, ShowsLeft, Zenon
<1>3. x \o y \in Seq(Byte) /\ Len(x) <= Len(x \o y) /\ Len(x) \in Nat /\ Len(t) \in Nat /\ Len(x \o y) \in Nat
  BY <1>1, Joined, LenProperties
<1>4. at + Len(t) <= Len(x \o y)
  BY <1>1, <1>3
<1> QED
  BY <1>1, <1>2, <1>3, <1>4, Zenon DEF Has

ProtocolOf(s) == IF s.layout = "unversioned" THEN <<>> ELSE s.protocol
RequestPrefix(s) == Prefix(s.layout, s.request)
ClientPrefix(s) == Prefix(s.layout, s.client)
Total(s) == Len(RequestPrefix(s)) + (s.request + Len(ClientPrefix(s)) + s.client)
Size(s) == IF s.layout = "bare" THEN <<>> ELSE Varuint(Total(s))

LEMMA LoginTypes ==
  ASSUME NEW s \in Sent
  PROVE  /\ s.request \in Nat /\ s.request >= 14 /\ s.client \in Nat /\ s.client >= 3
         /\ s.claims \in Nat /\ s.claims >= 3 /\ s.claims <= s.client /\ s.rawToken \in BOOLEAN
         /\ s.protocol \in Seq(Byte) /\ Len(s.protocol) = 4 /\ s.more \in Seq(Byte)
         /\ s.layout \in Layouts
<1>1. s \in Login /\ s.request >= 14 /\ s.claims \in 3 .. s.client
  BY LoginBodyAssumption, Zenon
<1>2. /\ s.request \in Nat /\ s.client \in Nat /\ s.claims \in Nat /\ s.rawToken \in BOOLEAN
      /\ s.protocol \in [1 .. 4 -> Byte] /\ s.more \in Seq(Byte) /\ s.layout \in Layouts
  BY <1>1, SMT DEF Login
<1>3. s.protocol \in Seq(Byte) /\ Len(s.protocol) = 4
  BY <1>2, MakeSeq
<1>4. s.claims >= 3 /\ s.claims <= s.client /\ s.client >= 3
  BY <1>1, <1>2
<1> QED
  BY <1>1, <1>2, <1>3, <1>4, Zenon

LEMMA PartTypes ==
  ASSUME NEW s \in Sent
  PROVE  /\ ProtocolOf(s) \in Seq(Byte) /\ Size(s) \in Seq(Byte) /\ Total(s) \in Nat
         /\ RequestPrefix(s) \in Seq(Byte) /\ Len(RequestPrefix(s)) \in 1 .. 4
         /\ ClientPrefix(s) \in Seq(Byte) /\ Len(ClientPrefix(s)) \in 1 .. 4
         /\ RequestText(s) \in Seq(Byte) /\ Len(RequestText(s)) = s.request
         /\ ClientText(s) \in Seq(Byte) /\ Len(ClientText(s)) = s.client
<1>1. RequestPrefix(s) \in Seq(Byte) /\ Len(RequestPrefix(s)) \in 1 .. 4
  BY LoginTypes, PrefixType, Zenon DEF RequestPrefix
<1>2. ClientPrefix(s) \in Seq(Byte) /\ Len(ClientPrefix(s)) \in 1 .. 4
  BY LoginTypes, PrefixType, Zenon DEF ClientPrefix
<1>3. Total(s) \in Nat
  BY <1>1, <1>2, LoginTypes DEF Total
<1>4. <<>> \in Seq(Byte)
  OBVIOUS
<1>5. ProtocolOf(s) \in Seq(Byte)
  BY <1>4, LoginTypes, Zenon DEF ProtocolOf
<1>6. Size(s) \in Seq(Byte)
  BY <1>3, <1>4, VaruintType, Zenon DEF Size
<1>7. PICK r \in Nat, k \in Nat : s.request = r /\ r >= 14 /\ s.client = k /\ k >= 3
  BY LoginTypes
<1>8. RequestText(s) \in Seq(Byte) /\ Len(RequestText(s)) = s.request
  BY <1>7, RequestTextIs, Zenon
<1>9. ClientText(s) \in Seq(Byte) /\ Len(ClientText(s)) = s.client
  BY <1>7, ClientTextIs, Zenon
<1> QED
  BY <1>1, <1>2, <1>3, <1>5, <1>6, <1>8, <1>9, Zenon

LEMMA BeforeRequestIs ==
  ASSUME NEW s
  PROVE  BeforeRequest(s) = (ProtocolOf(s) \o Size(s)) \o RequestPrefix(s)
BY Zenon DEF BeforeRequest, ProtocolOf, Size, Total, RequestPrefix, ClientPrefix

LEMMA BeforeRequestType ==
  ASSUME NEW s \in Sent
  PROVE  BeforeRequest(s) \in Seq(Byte)
<1>1. ProtocolOf(s) \o Size(s) \in Seq(Byte)
  BY PartTypes, Joined, Zenon
<1>2. (ProtocolOf(s) \o Size(s)) \o RequestPrefix(s) \in Seq(Byte)
  BY <1>1, PartTypes, Joined, Zenon
<1> QED
  BY <1>2, BeforeRequestIs, Zenon

(* e shows the pieces of s. *)
Laid(s, e) ==
  /\ Shows(e, 0, BeforeRequest(s))
  /\ Shows(e, Len(ProtocolOf(s)), Size(s))
  /\ Shows(e, Len(ProtocolOf(s) \o Size(s)), RequestPrefix(s))
  /\ Shows(e, Len(BeforeRequest(s)), RequestText(s))
  /\ Shows(e, Len(BeforeRequest(s) \o RequestText(s)), ClientPrefix(s))
  /\ Shows(e, Len(BeforeClient(s)), ClientText(s))

LEMMA EncodedIsLaid ==
  ASSUME NEW s \in Sent
  PROVE  Encoded(s) \in Seq(Byte) /\ Laid(s, Encoded(s))
<1> DEFINE a == ProtocolOf(s) \o Size(s)
           b == BeforeRequest(s)
           c == b \o RequestText(s)
           d == BeforeClient(s)
           f == d \o ClientText(s)
           e == Encoded(s)
<1>1. b = a \o RequestPrefix(s) /\ d = c \o ClientPrefix(s) /\ e = f \o s.more
  BY BeforeRequestIs, Zenon DEF BeforeClient, Encoded, ClientPrefix
<1>2. a \in Seq(Byte) /\ b \in Seq(Byte) /\ c \in Seq(Byte) /\ d \in Seq(Byte) /\ f \in Seq(Byte)
      /\ e \in Seq(Byte)
  <2> HIDE DEF d, e, b
  <2>1. a \in Seq(Byte)
    BY PartTypes, Joined, Zenon
  <2>2. b \in Seq(Byte)
    BY <1>1, <2>1, PartTypes, Joined, Zenon
  <2>3. c \in Seq(Byte)
    BY <2>2, PartTypes, Joined, Zenon
  <2>4. d \in Seq(Byte)
    BY <1>1, <2>3, PartTypes, Joined, Zenon
  <2>5. f \in Seq(Byte)
    BY <2>4, PartTypes, Joined, Zenon
  <2>6. e \in Seq(Byte)
    BY <1>1, <2>5, LoginTypes, Joined, Zenon
  <2> QED
    BY <2>1, <2>2, <2>3, <2>4, <2>5, <2>6, Zenon
<1> HIDE DEF d, e, b
<1>0. Has(b, 0, b)
  <2>1. PICK n \in Nat : n = Len(b)
    BY <1>2, LenProperties
  <2>2. 0 \in Nat /\ 0 + n <= n /\ \A k \in 1 .. n : 0 + k = k
    OBVIOUS
  <2> QED
    BY <1>2, <2>1, <2>2, Zenon DEF Has, Shows
<1>3. Has(a, Len(ProtocolOf(s)), Size(s)) /\ Has(b, Len(a), RequestPrefix(s))
      /\ Has(c, Len(b), RequestText(s)) /\ Has(d, Len(c), ClientPrefix(s))
      /\ Has(f, Len(d), ClientText(s))
  BY <1>1, <1>2, PartTypes, HasRight, Zenon
<1>4. /\ \A at, t : Has(a, at, t) => Has(b, at, t)
      /\ \A at, t : Has(b, at, t) => Has(c, at, t)
      /\ \A at, t : Has(c, at, t) => Has(d, at, t)
      /\ \A at, t : Has(d, at, t) => Has(f, at, t)
      /\ \A at, t : Has(f, at, t) => Has(e, at, t)
  BY <1>1, PartTypes, LoginTypes, HasLeft, Zenon
<1>5. Has(e, 0, b) /\ Has(e, Len(ProtocolOf(s)), Size(s)) /\ Has(e, Len(a), RequestPrefix(s))
      /\ Has(e, Len(b), RequestText(s)) /\ Has(e, Len(c), ClientPrefix(s))
      /\ Has(e, Len(d), ClientText(s))
  BY <1>0, <1>3, <1>4, Zenon
<1>6. \A at, t : Has(e, at, t) => Shows(e, at, t)
  BY Zenon DEF Has
<1> QED
  BY <1>2, <1>5, <1>6, Zenon DEF Laid, a, b, c, d, e

-----------------------------------------------------------------------------
(* Reading a length. *)

LEMMA MinIs ==
  ASSUME NEW S \in SUBSET Int, NEW x \in S, \A y \in S : x <= y
  PROVE  Min(S) = x
<1>1. Min(S) \in S /\ \A y \in S : Min(S) <= y
  BY DEF Min
<1>2. Min(S) <= x /\ x <= Min(S) /\ x \in Int /\ Min(S) \in Int
  BY <1>1
<1> QED
  BY <1>2

(* What is read from p if the last byte is at last. *)
DigitAt(b, p, last, j) == IF p + j > last THEN 0 ELSE b[p + j] % 128

ReadUpTo(b, p, last) ==
  [length |-> DigitAt(b, p, last, 0) + 128 * (DigitAt(b, p, last, 1)
                + 128 * (DigitAt(b, p, last, 2) + 128 * (DigitAt(b, p, last, 3)
                + 128 * (DigitAt(b, p, last, 4) + 128 * DigitAt(b, p, last, 5))))),
   next |-> last + 1]

LEMMA VaruintAt ==
  ASSUME NEW b \in Seq(Byte), NEW p \in Nat \ {0}, NEW k \in 0 .. 5, p + k <= Len(b), b[p + k] < 128,
         \A j \in 0 .. k - 1 : b[p + j] >= 128
  PROVE  Varuint32(b, p) = ReadUpTo(b, p, p + k)
<1> DEFINE last == {m \in p .. p + 5 : m <= Len(b) /\ b[m] < 128}
<1>1. p + k \in last
  OBVIOUS
<1>2. ASSUME NEW m \in last PROVE p + k <= m
  <2>1. SUFFICES ASSUME m < p + k PROVE FALSE
    OBVIOUS
  <2>2. m - p \in 0 .. k - 1 /\ p + (m - p) = m
    BY <2>1
  <2>3. b[p + (m - p)] >= 128
    BY <2>2
  <2>4. m \in 1 .. Len(b) /\ b[m] < 128
    <3>1. m \in p .. p + 5 /\ m <= Len(b) /\ b[m] < 128
      OBVIOUS
    <3>2. Len(b) \in Nat
      BY LenProperties
    <3> QED
      BY <3>1, <3>2
  <2>5. b[m] \in Byte
    BY <2>4, ElementOfSeq, Zenon
  <2>6. b[m] >= 128
    BY <2>2, <2>3, Zenon
  <2>7. PICK v \in Byte : v = b[m]
    BY <2>5, Zenon
  <2>8. v >= 128 /\ v < 128
    BY <2>4, <2>6, <2>7, Zenon
  <2> QED
    BY <2>8 DEF Byte
<1>3. last \in SUBSET Int
  OBVIOUS
<1>4. Min(last) = p + k
  <2> HIDE DEF last
  <2> QED
    BY <1>1, <1>2, <1>3, MinIs
<1>5. last # {}
  BY <1>1
<1>6. Varuint32(b, p) = ReadUpTo(b, p, Min(last))
  BY <1>5, Zenon DEF Varuint32, ReadUpTo, DigitAt
<1> HIDE DEF last
<1> QED
  BY <1>4, <1>6, Zenon

LEMMA VaruintNowhere ==
  ASSUME NEW b, NEW p \in Nat,
         \A j \in 0 .. 5 : p + j <= Len(b) => ~ (b[p + j] < 128)
  PROVE  Varuint32(b, p) = Unread
<1>1. ASSUME NEW m \in p .. p + 5, m <= Len(b), b[m] < 128 PROVE FALSE
  <2>1. m - p \in 0 .. 5 /\ p + (m - p) = m
    OBVIOUS
  <2>2. p + (m - p) <= Len(b) => ~ (b[p + (m - p)] < 128)
    BY <2>1, Zenon
  <2> QED
    BY <1>1, <2>1, <2>2, Zenon
<1>2. {m \in p .. p + 5 : m <= Len(b) /\ b[m] < 128} = {}
  BY <1>1, Zenon
<1> QED
  BY <1>2, Zenon DEF Varuint32

(* Four digits are enough. *)
InFour(n) == n < 268435456

LEMMA DigitsAddUp ==
  ASSUME NEW n \in Nat, InFour(n)
  PROVE  /\ n = Digit(n, 1) + 128 * (Digit(n, 128) + 128 * (Digit(n, 16384) + 128 * Digit(n, 2097152)))
         /\ n < 128 => n = Digit(n, 1) /\ Digit(n, 128) = 0
         /\ n < 16384 => Digit(n, 16384) = 0
         /\ n < 2097152 => Digit(n, 2097152) = 0
         /\ n >= 2097152 => Digit(n, 2097152) >= 1
BY SMT DEF Digit, InFour

(* The k + 1 digits from p on are v, w, x and y; those that are not there are 0. *)
DigitsFrom(b, p, k, v, w, x, y) ==
  /\ b[p] % 128 = v
  /\ IF 1 <= k THEN b[p + 1] % 128 = w ELSE w = 0
  /\ IF 2 <= k THEN b[p + 2] % 128 = x ELSE x = 0
  /\ IF 3 <= k THEN b[p + 3] % 128 = y ELSE y = 0

(* These digits are what is read. *)
DigitsAre(b, p, k, v, w, x, y) ==
  ReadUpTo(b, p, p + k) = [length |-> v + 128 * (w + 128 * (x + 128 * y)), next |-> p + k + 1]

LEMMA ReadIs ==
  ASSUME NEW b, NEW p \in Nat, NEW k \in 0 .. 3,
         NEW v \in Nat, NEW w \in Nat, NEW x \in Nat, NEW y \in Nat,
         DigitsFrom(b, p, k, v, w, x, y)
  PROVE  DigitsAre(b, p, k, v, w, x, y)
<1> USE DEF DigitsFrom, DigitsAre
<1>1. p + 0 = p
  OBVIOUS
<1>2. DigitAt(b, p, p + k, 0) = v
  <2>1. ~ (p + 0 > p + k)
    OBVIOUS
  <2> QED
    BY <1>1, <2>1, Zenon DEF DigitAt
<1>3. DigitAt(b, p, p + k, 1) = w
  <2>1. p + 1 > p + k <=> ~ (1 <= k)
    OBVIOUS
  <2> QED
    BY <2>1, Zenon DEF DigitAt
<1>4. DigitAt(b, p, p + k, 2) = x
  <2>1. p + 2 > p + k <=> ~ (2 <= k)
    OBVIOUS
  <2> QED
    BY <2>1, Zenon DEF DigitAt
<1>5. DigitAt(b, p, p + k, 3) = y
  <2>1. p + 3 > p + k <=> ~ (3 <= k)
    OBVIOUS
  <2> QED
    BY <2>1, Zenon DEF DigitAt
<1>6. DigitAt(b, p, p + k, 4) = 0 /\ DigitAt(b, p, p + k, 5) = 0
  <2>1. p + 4 > p + k /\ p + 5 > p + k
    OBVIOUS
  <2> QED
    BY <2>1, Zenon DEF DigitAt
<1> QED
  BY <1>2, <1>3, <1>4, <1>5, <1>6 DEF ReadUpTo

(* t is the varuint32 with these digits. *)
IsVaruint(t, k, v, w, x, y) ==
  /\ Len(t) = k + 1 /\ t[k + 1] < 128 /\ \A j \in 1 .. k : t[j] >= 128
  /\ t[1] % 128 = v
  /\ IF 1 <= k THEN t[2] % 128 = w ELSE w = 0
  /\ IF 2 <= k THEN t[3] % 128 = x ELSE x = 0
  /\ IF 3 <= k THEN t[4] % 128 = y ELSE y = 0

LEMMA DigitsRead ==
  ASSUME NEW b \in Seq(Byte), NEW at \in Nat, NEW t \in Seq(Byte), Shows(b, at, t),
         NEW k \in 0 .. 3, NEW v \in Nat, NEW w \in Nat, NEW x \in Nat, NEW y \in Nat,
         IsVaruint(t, k, v, w, x, y)
  PROVE  IF at + Len(t) <= Len(b)
           THEN Varuint32(b, at + 1) = [length |-> v + 128 * (w + 128 * (x + 128 * y)),
                                        next |-> at + Len(t) + 1]
           ELSE Varuint32(b, at + 1) = Unread
<1> USE DEF IsVaruint
<1>1. PICK l \in Nat : l = Len(b)
  BY LenProperties
<1>2. \A j \in 1 .. k + 1 : at + j <= l => b[at + j] = t[j]
  BY <1>1, Zenon DEF Shows
<1>3. PICK p \in Nat \ {0} : p = at + 1
  BY at + 1 \in Nat \ {0}
<1>4. CASE at + k + 1 <= l
  <2>1. ASSUME NEW j \in 0 .. k PROVE b[p + j] = t[j + 1]
    <3>1. j + 1 \in 1 .. k + 1 /\ at + (j + 1) <= l /\ p + j = at + (j + 1)
      BY <1>3, <1>4
    <3> QED
      BY <1>2, <3>1, Zenon
  <2>2. b[p + k] < 128 /\ p + k <= Len(b)
    <3>1. k \in 0 .. k /\ p + k <= l
      BY <1>3, <1>4
    <3> QED
      BY <1>1, <2>1, <3>1, Zenon
  <2>3. ASSUME NEW j \in 0 .. k - 1 PROVE b[p + j] >= 128
    <3>1. j \in 0 .. k /\ j + 1 \in 1 .. k
      OBVIOUS
    <3> QED
      BY <2>1, <3>1, Zenon
  <2>4. Varuint32(b, p) = ReadUpTo(b, p, p + k)
    <3>1. k \in 0 .. 5
      OBVIOUS
    <3> QED
      BY <2>2, <2>3, <3>1, VaruintAt
  <2>5. DigitsFrom(b, p, k, v, w, x, y)
    <3>1. b[p] = t[1]
      <4>1. 0 \in 0 .. k /\ p + 0 = p /\ 0 + 1 = 1
        OBVIOUS
      <4> QED
        BY <2>1, <4>1, Zenon
    <3>2. 1 <= k => b[p + 1] = t[2]
      <4>1. (1 <= k => 1 \in 0 .. k) /\ 1 + 1 = 2
        OBVIOUS
      <4> QED
        BY <2>1, <4>1, Zenon
    <3>3. 2 <= k => b[p + 2] = t[3]
      <4>1. (2 <= k => 2 \in 0 .. k) /\ 2 + 1 = 3
        OBVIOUS
      <4> QED
        BY <2>1, <4>1, Zenon
    <3>4. 3 <= k => b[p + 3] = t[4]
      <4>1. (3 <= k => 3 \in 0 .. k) /\ 3 + 1 = 4
        OBVIOUS
      <4> QED
        BY <2>1, <4>1, Zenon
    <3> QED
      BY <3>1, <3>2, <3>3, <3>4, Zenon DEF DigitsFrom
  <2>6. ReadUpTo(b, p, p + k) = [length |-> v + 128 * (w + 128 * (x + 128 * y)), next |-> p + k + 1]
    <3>1. p \in Nat
      OBVIOUS
    <3>2. DigitsAre(b, p, k, v, w, x, y)
      BY <2>5, <3>1, ReadIs, Zenon
    <3> QED
      BY <3>2, Zenon DEF DigitsAre
  <2>7. p + k + 1 = at + (k + 1) + 1 /\ at + (k + 1) <= l
    BY <1>3, <1>4
  <2> QED
    BY <1>1, <1>3, <2>4, <2>6, <2>7, Zenon
<1>5. CASE ~ (at + k + 1 <= l)
  <2>1. ASSUME NEW j \in 0 .. 5, p + j <= l PROVE ~ (b[p + j] < 128)
    <3>1. j + 1 \in 1 .. k /\ j + 1 \in 1 .. k + 1 /\ at + (j + 1) <= l /\ p + j = at + (j + 1)
      BY <1>3, <1>5, <2>1
    <3>2. b[p + j] = t[j + 1] /\ t[j + 1] >= 128
      BY <1>2, <3>1, Zenon
    <3>3. j + 1 \in 1 .. Len(t)
      BY <3>1, Zenon
    <3>4. PICK c \in Byte : c = t[j + 1]
      BY <3>3, ElementOfSeq, Zenon
    <3>5. c >= 128 => ~ (c < 128)
      BY DEF Byte
    <3> QED
      BY <3>2, <3>4, <3>5, Zenon
  <2>2. Varuint32(b, p) = Unread
    BY <1>1, <2>1, VaruintNowhere, Zenon
  <2>3. ~ (at + (k + 1) <= l)
    BY <1>5
  <2> QED
    BY <1>1, <1>3, <2>2, <2>3, Zenon
<1> QED
  BY <1>4, <1>5

LEMMA VaruintReads ==
  ASSUME NEW b \in Seq(Byte), NEW at \in Nat, NEW n \in Nat, InFour(n),
         Shows(b, at, Varuint(n))
  PROVE  IF at + Len(Varuint(n)) <= Len(b)
           THEN Varuint32(b, at + 1) = [length |-> n, next |-> at + Len(Varuint(n)) + 1]
           ELSE Varuint32(b, at + 1) = Unread
<1> DEFINE v == Digit(n, 1)
           w == Digit(n, 128)
           x == Digit(n, 16384)
           y == Digit(n, 2097152)
           t == Varuint(n)
<1>1. v \in 0 .. 127 /\ w \in 0 .. 127 /\ x \in 0 .. 127 /\ y \in 0 .. 127
      /\ n = v + 128 * (w + 128 * (x + 128 * y))
  BY DigitType, DigitsAddUp, SMT
<1>2. /\ n < 128 => t = <<v>> /\ w = 0 /\ x = 0 /\ y = 0
      /\ n >= 128 /\ n < 16384 => t = <<128 + v, w>> /\ x = 0 /\ y = 0
      /\ n >= 16384 /\ n < 2097152 => t = <<128 + v, 128 + w, x>> /\ y = 0
      /\ n >= 2097152 => t = <<128 + v, 128 + w, 128 + x, y>>
  BY VaruintIs, DigitsAddUp, SMT
<1>3. t \in Seq(Byte)
  BY VaruintType, Zenon
<1> HIDE DEF v, w, x, y, t
<1>4. \E k \in 0 .. 3 : IsVaruint(t, k, v, w, x, y)
  <2>1. CASE n < 128
    <3>1. t = <<v>> /\ w = 0 /\ x = 0 /\ y = 0
      BY <1>2, <2>1, SMT
    <3> QED
      BY <1>1, <3>1, SMT DEF IsVaruint
  <2>2. CASE n >= 128 /\ n < 16384
    <3>1. t = <<128 + v, w>> /\ x = 0 /\ y = 0
      BY <1>2, <2>2, SMT
    <3> QED
      BY <1>1, <3>1, SMT DEF IsVaruint
  <2>3. CASE n >= 16384 /\ n < 2097152
    <3>1. t = <<128 + v, 128 + w, x>> /\ y = 0
      BY <1>2, <2>3, SMT
    <3> QED
      BY <1>1, <3>1, SMT DEF IsVaruint
  <2>4. CASE n >= 2097152
    <3>1. t = <<128 + v, 128 + w, 128 + x, y>>
      BY <1>2, <2>4, SMT
    <3>2. /\ Len(t) = 3 + 1 /\ t[1] = 128 + v /\ t[2] = 128 + w /\ t[3] = 128 + x /\ t[4] = y
      BY <3>1
    <3>3. /\ 128 + v >= 128 /\ (128 + v) % 128 = v /\ 128 + w >= 128 /\ (128 + w) % 128 = w
          /\ 128 + x >= 128 /\ (128 + x) % 128 = x /\ y < 128 /\ y % 128 = y
      BY <1>1
    <3>4. \A j \in 1 .. 3 : t[j] >= 128
      BY <3>2, <3>3
    <3>5. IsVaruint(t, 3, v, w, x, y)
      BY <3>2, <3>3, <3>4 DEF IsVaruint
    <3>6. 3 \in 0 .. 3
      OBVIOUS
    <3> QED
      BY <3>5, <3>6
  <2> QED
    BY <2>1, <2>2, <2>3, <2>4, SMT
<1>5. v \in Nat /\ w \in Nat /\ x \in Nat /\ y \in Nat /\ Shows(b, at, t)
  BY <1>1 DEF t
<1>7. IF at + Len(t) <= Len(b)
        THEN Varuint32(b, at + 1) = [length |-> v + 128 * (w + 128 * (x + 128 * y)),
                                     next |-> at + Len(t) + 1]
        ELSE Varuint32(b, at + 1) = Unread
  BY <1>3, <1>4, <1>5, DigitsRead, Zenon
<1> QED
  BY <1>1, <1>7, Zenon DEF t

-----------------------------------------------------------------------------
(* Where the pieces begin, and how much of them a body holds. *)

LEMMA Lengths ==
  ASSUME NEW s \in Sent
  PROVE  /\ Len(ProtocolOf(s) \o Size(s)) = Len(ProtocolOf(s)) + Len(Size(s))
         /\ Len(BeforeRequest(s)) = Len(ProtocolOf(s)) + Len(Size(s)) + Len(RequestPrefix(s))
         /\ Len(BeforeRequest(s) \o RequestText(s)) = Len(BeforeRequest(s)) + s.request
         /\ Len(BeforeClient(s)) = Len(BeforeRequest(s)) + s.request + Len(ClientPrefix(s))
         /\ Len(Encoded(s)) >= Len(BeforeClient(s)) + s.client
         /\ Len(Encoded(s)) < MaxBody
<1> DEFINE a == ProtocolOf(s) \o Size(s)
           b == BeforeRequest(s)
           c == b \o RequestText(s)
           d == BeforeClient(s)
           f == d \o ClientText(s)
           e == Encoded(s)
<1>1. b = a \o RequestPrefix(s) /\ d = c \o ClientPrefix(s) /\ e = f \o s.more
  BY BeforeRequestIs, Zenon DEF BeforeClient, Encoded, ClientPrefix
<1>2. e \in Seq(Byte) /\ Len(e) < MaxBody
  BY EncodedIsLaid, LoginBodyAssumption, Zenon
<1> HIDE DEF d, e, b
<1>3. a \in Seq(Byte) /\ Len(a) = Len(ProtocolOf(s)) + Len(Size(s))
  BY PartTypes, Joined, Zenon
<1>4. b \in Seq(Byte) /\ Len(b) = Len(a) + Len(RequestPrefix(s))
  BY <1>1, <1>3, PartTypes, Joined, Zenon
<1>5. c \in Seq(Byte) /\ Len(c) = Len(b) + s.request
  <2>1. RequestText(s) \in Seq(Byte) /\ Len(RequestText(s)) = s.request
    BY PartTypes, Zenon
  <2>2. c \in Seq(Byte) /\ Len(c) = Len(b) + Len(RequestText(s))
    BY <1>4, <2>1, Joined, Zenon
  <2> QED
    BY <2>1, <2>2, Zenon
<1>6. d \in Seq(Byte) /\ Len(d) = Len(c) + Len(ClientPrefix(s))
  BY <1>1, <1>5, PartTypes, Joined, Zenon
<1>7. f \in Seq(Byte) /\ Len(f) = Len(d) + s.client
  <2>1. ClientText(s) \in Seq(Byte) /\ Len(ClientText(s)) = s.client
    BY PartTypes, Zenon
  <2>2. f \in Seq(Byte) /\ Len(f) = Len(d) + Len(ClientText(s))
    BY <1>6, <2>1, Joined, Zenon
  <2> QED
    BY <2>1, <2>2, Zenon
<1>8. Len(e) = Len(f) + Len(s.more) /\ Len(f) \in Nat /\ Len(s.more) \in Nat
  BY <1>1, <1>7, LoginTypes, Joined, LenProperties, Zenon
<1>9. Len(e) >= Len(f)
  <2>1. PICK n \in Nat : n = Len(f)
    BY <1>8
  <2>2. PICK m \in Nat : m = Len(s.more)
    BY <1>8
  <2>3. Len(e) = n + m
    BY <1>8, <2>1, <2>2, Zenon
  <2>4. n + m >= n
    OBVIOUS
  <2> QED
    BY <2>1, <2>3, <2>4, Zenon
<1> QED
  BY <1>2, <1>3, <1>4, <1>5, <1>6, <1>7, <1>9, Zenon DEF b, d, e

(* What of s may arrive. *)
Body(s, b) == b \in Seq(Byte) /\ Laid(s, b) /\ Len(b) <= Len(Encoded(s))

LEMMA ArrivalsAreBodies ==
  ASSUME NEW s \in Sent, NEW b \in Arrivals(s)
  PROVE  Body(s, b)
<1> DEFINE e == Encoded(s)
<1>1. e \in Seq(Byte) /\ Laid(s, e)
  BY EncodedIsLaid, Zenon
<1>2. PICK n : n \in 0 .. Len(e) /\ b = SubSeq(e, 1, n)
  BY Zenon DEF Arrivals
<1> HIDE DEF e
<1>3. Len(e) \in Nat
  BY <1>1, LenProperties
<1>4. n \in Nat /\ n <= Len(e)
  BY <1>2, <1>3
<1>5. b \in Seq(Byte) /\ Len(b) <= Len(e)
  <2>1. b \in Seq(Byte) /\ Len(b) = n
    BY <1>1, <1>2, <1>4, Cut, Zenon
  <2> QED
    BY <1>4, <2>1
<1>6. ASSUME NEW at \in Nat, NEW t \in Seq(Byte), Shows(e, at, t) PROVE Shows(b, at, t)
  BY <1>1, <1>2, <1>4, <1>6, ShowsCut, Zenon
<1>7. /\ Len(ProtocolOf(s)) \in Nat /\ Len(ProtocolOf(s) \o Size(s)) \in Nat /\ Len(BeforeRequest(s)) \in Nat
      /\ Len(BeforeRequest(s) \o RequestText(s)) \in Nat /\ Len(BeforeClient(s)) \in Nat
  <2>1. /\ Len(ProtocolOf(s)) \in Nat /\ Len(Size(s)) \in Nat /\ Len(RequestPrefix(s)) \in Nat
        /\ Len(ClientPrefix(s)) \in Nat /\ s.request \in Nat
    BY PartTypes, LoginTypes, LenProperties
  <2> QED
    BY <2>1, Lengths
<1>8. Laid(s, b)
  <2>1. 0 \in Nat /\ BeforeRequest(s) \in Seq(Byte)
    BY BeforeRequestType
  <2> QED
    BY <1>1, <1>6, <1>7, <2>1, PartTypes, Zenon DEF Laid
<1> QED
  BY <1>5, <1>8, Zenon DEF Body, e

(* The lengths of what is in a body, in a layout the parser knows. *)
KnownLayout(s) == s.layout \in {"le", "varuint32"}

LEMMA KnownLengths ==
  ASSUME NEW s \in Sent, KnownLayout(s), NEW b, Body(s, b)
  PROVE  /\ Len(b) \in Nat /\ Len(b) < MaxBody /\ Total(s) < MaxBody
         /\ s.request < MaxBody /\ s.client < MaxBody
         /\ ProtocolOf(s) = s.protocol /\ Len(ProtocolOf(s)) = 4 /\ Size(s) = Varuint(Total(s))
         /\ Len(Size(s)) \in 1 .. 4
<1>1. ProtocolOf(s) = s.protocol /\ Size(s) = Varuint(Total(s))
  BY Zenon DEF KnownLayout, ProtocolOf, Size
<1>2. Len(ProtocolOf(s)) = 4 /\ Len(Size(s)) \in 1 .. 4
  BY <1>1, LoginTypes, PartTypes, VaruintType, Zenon
<1>3. PICK v \in 1 .. 4 : v = Len(Size(s))
  BY <1>2, Zenon
<1>4. PICK q \in Nat : q = Len(RequestPrefix(s))
  BY PartTypes
<1>5. PICK p \in Nat : p = Len(ClientPrefix(s))
  BY PartTypes
<1>6. PICK r \in Nat : r = s.request
  BY LoginTypes
<1>7. PICK c \in Nat : c = s.client
  BY LoginTypes
<1>8. PICK n \in Nat : n = Len(Encoded(s))
  BY EncodedIsLaid, LenProperties
<1>9. PICK l \in Nat : l = Len(b) /\ l <= n
  BY <1>8, LenProperties DEF Body
<1>10. n < MaxBody /\ n >= 4 + v + q + r + p + c
  BY <1>2, <1>3, <1>4, <1>5, <1>6, <1>7, <1>8, Lengths
<1>11. Total(s) = q + (r + p + c)
  BY <1>4, <1>5, <1>6, <1>7, Zenon DEF Total
<1>12. MaxBody \in Nat
  BY SMT DEF MaxBody
<1>13. l < MaxBody /\ q + (r + p + c) < MaxBody /\ r < MaxBody /\ c < MaxBody
  BY <1>9, <1>10, <1>12
<1> QED
  BY <1>1, <1>2, <1>6, <1>7, <1>9, <1>11, <1>13, Zenon

-----------------------------------------------------------------------------
(* A blob is read in the framing it was written in. *)

LEMMA OctetsAddUp ==
  ASSUME NEW n \in Nat, n < MaxBody
  PROVE  /\ n = Octet(n, 1) + 256 * Octet(n, 256) + 65536 * Octet(n, 65536)
         /\ Octet(n, 16777216) = 0
BY SMT DEF Octet, MaxBody

(* l is the length n, which takes q bytes after at. *)
ReadAs(b, at, q, n, l) ==
  IF at + q <= Len(b) THEN l = [length |-> n, next |-> at + q + 1] ELSE l = Unread

(* The bytes of an int32. *)
AreOctets(b, p, v, w, x, y) == b[p] = v /\ b[p + 1] = w /\ b[p + 2] = x /\ b[p + 3] = y

LEMMA Int32At ==
  ASSUME NEW b, NEW p \in Nat, p + 3 <= Len(b), NEW v, NEW w, NEW x, AreOctets(b, p, v, w, x, 0)
  PROVE  Int32Le(b, p) = [length |-> v + 256 * w + 65536 * x + 16777216 * 0, next |-> p + 4]
<1>1. ~ (p + 3 > Len(b)) /\ 0 < 128
  OBVIOUS
<1> QED
  BY <1>1, SMT DEF Int32Le, AreOctets

LEMMA Int32Reads ==
  ASSUME NEW b \in Seq(Byte), NEW at \in Nat, NEW n \in Nat, n < MaxBody,
         Shows(b, at, LittleEndian(n))
  PROVE  ReadAs(b, at, 4, n, Int32Le(b, at + 1))
<1> DEFINE v == Octet(n, 1)
           w == Octet(n, 256)
           x == Octet(n, 65536)
           t == LittleEndian(n)
<1>1. v \in Nat /\ w \in Nat /\ x \in Nat /\ n = v + 256 * w + 65536 * x
  <2>1. v \in 0 .. 255 /\ w \in 0 .. 255 /\ x \in 0 .. 255
    BY OctetType, SMT
  <2>2. n = v + 256 * w + 65536 * x
    BY OctetsAddUp, SMT
  <2> HIDE DEF v, w, x
  <2> QED
    BY <2>1, <2>2, SMT
<1>2. t[1] = v /\ t[2] = w /\ t[3] = x /\ t[4] = 0 /\ Len(t) = 4
  <2>1. t = <<v, w, x, Octet(n, 16777216)>>
    BY LittleEndianIs, SMT
  <2>2. Octet(n, 16777216) = 0
    BY OctetsAddUp, SMT
  <2>3. t = <<v, w, x, 0>>
    BY <2>1, <2>2, SMT
  <2> HIDE DEF t, v, w, x
  <2> QED
    BY <2>3
<1>3. Shows(b, at, t)
  OBVIOUS
<1> HIDE DEF t, v, w, x
<1>4. PICK l \in Nat : l = Len(b)
  BY LenProperties
<1>5. PICK p \in Nat : p = at + 1
  BY at + 1 \in Nat
<1>6. CASE at + 4 <= l
  <2>1. /\ 1 \in 1 .. 4 /\ at + 1 <= l /\ 2 \in 1 .. 4 /\ at + 2 <= l /\ at + 2 = p + 1
        /\ 3 \in 1 .. 4 /\ at + 3 <= l /\ at + 3 = p + 2 /\ 4 \in 1 .. 4 /\ at + 4 = p + 3
        /\ p + 3 <= l
    BY <1>5, <1>6
  <2>2. b[at + 1] = t[1] /\ b[at + 2] = t[2] /\ b[at + 3] = t[3] /\ b[at + 4] = t[4]
    BY <1>2, <1>3, <1>4, <1>6, <2>1, Zenon DEF Shows
  <2>3. AreOctets(b, p, v, w, x, 0)
    BY <1>2, <1>5, <2>1, <2>2, Zenon DEF AreOctets
  <2>4. Int32Le(b, p) = [length |-> v + 256 * w + 65536 * x + 16777216 * 0, next |-> p + 4]
    <3>1. p + 3 <= Len(b)
      BY <1>4, <2>1, Zenon
    <3> QED
      BY <2>3, <3>1, Int32At, SMT
  <2>5. v + 256 * w + 65536 * x + 16777216 * 0 = n /\ p + 4 = at + 4 + 1
    BY <1>1, <1>5, SMT
  <2>6. Int32Le(b, p) = [length |-> n, next |-> at + 4 + 1]
    BY <2>4, <2>5, SMT
  <2> QED
    BY <1>4, <1>5, <1>6, <2>6, Zenon DEF ReadAs
<1>7. CASE ~ (at + 4 <= l)
  <2>1. p + 3 > l
    BY <1>5, <1>7
  <2>2. Int32Le(b, p) = Unread
    BY <1>4, <2>1, SMT DEF Int32Le
  <2> QED
    BY <1>4, <1>5, <1>7, <2>2, Zenon DEF ReadAs
<1> QED
  BY <1>6, <1>7, Zenon

KnownFraming(inner) == inner = "le" \/ inner = "varuint32"

LEMMA PrefixReads ==
  ASSUME NEW inner, KnownFraming(inner), NEW b \in Seq(Byte), NEW at \in Nat,
         NEW n \in Nat, n < MaxBody, Shows(b, at, Prefix(inner, n))
  PROVE  ReadAs(b, at, Len(Prefix(inner, n)), n, Length(b, at + 1, inner))
<1>1. CASE inner = "le"
  <2>1. Prefix(inner, n) = LittleEndian(n) /\ Length(b, at + 1, inner) = Int32Le(b, at + 1)
    BY <1>1, SMT DEF Prefix, Length
  <2>2. Shows(b, at, LittleEndian(n)) /\ Len(LittleEndian(n)) = 4
    BY <2>1, EndianType, Zenon
  <2>3. ReadAs(b, at, 4, n, Int32Le(b, at + 1))
    BY <2>2, Int32Reads, Zenon
  <2> QED
    BY <2>1, <2>2, <2>3, Zenon
<1>2. CASE inner = "varuint32"
  <2>1. Prefix(inner, n) = Varuint(n) /\ Length(b, at + 1, inner) = Varuint32(b, at + 1)
    BY <1>2, SMT DEF Prefix, Length
  <2>2. Shows(b, at, Varuint(n))
    BY <2>1, Zenon
  <2>3. InFour(n)
    BY SMT DEF InFour, MaxBody
  <2> QED
    BY <2>1, <2>2, <2>3, VaruintReads, Zenon DEF ReadAs
<1> QED
  BY <1>1, <1>2, Zenon DEF KnownFraming

(* A text that is there is read; one that is cut is not. *)
IsBlob(b, at, t, l) ==
  IF at + Len(t) <= Len(b) THEN l = [text |-> t, next |-> at + Len(t) + 1]
  ELSE l = [text |-> <<>>, next |-> Len(b) + 1]

LEMMA SliceIs ==
  ASSUME NEW b \in Seq(Byte), NEW t \in Seq(Byte), NEW at \in Nat, at + Len(t) <= Len(b),
         Shows(b, at, t)
  PROVE  SubSeq(b, at + 1, at + Len(t)) = t
<1>1. PICK n \in Nat : n = Len(t)
  BY LenProperties
<1>2. PICK l \in Nat : l = Len(b)
  BY LenProperties
<1> DEFINE x == SubSeq(b, at + 1, at + n)
<1>3. x \in Seq(Byte) /\ Len(x) = n /\ \A i \in 1 .. n : x[i] = b[at + i]
  <2>1. /\ at + 1 \in Int /\ at + n \in Int
        /\ at + 1 >= 1 /\ at + n <= Len(b) /\ (at + n) - (at + 1) + 1 = n
        /\ IF at + 1 <= at + n THEN TRUE ELSE n = 0
    BY <1>1, <1>2
  <2>2. x \in Seq(Byte) /\ Len(x) = n
    BY <2>1, <1>2
  <2>3. ASSUME NEW i \in 1 .. n PROVE x[i] = b[at + i]
    <3>1. (at + 1) + i - 1 = at + i /\ i \in 1 .. (at + n) - (at + 1) + 1 /\ at + 1 \in 1 .. l + 1
          /\ at + n \in at + 1 - 1 .. l
      BY <1>1, <1>2
    <3>2. x[i] = b[(at + 1) + i - 1]
      BY <1>2, <3>1, SubSeqProperties
    <3> QED
      BY <3>1, <3>2, Zenon
  <2> QED
    BY <2>2, <2>3
<1> HIDE DEF x
<1>4. ASSUME NEW i \in 1 .. n PROVE x[i] = t[i]
  <2>1. at + i <= Len(b)
    BY <1>1, <1>2
  <2>2. b[at + i] = t[i]
    BY <1>1, <2>1, Zenon DEF Shows
  <2> QED
    BY <1>3, <2>2, Zenon
<1>5. x = t
  BY <1>1, <1>3, <1>4, SeqEqual, SMT
<1> QED
  BY <1>1, <1>5, Zenon DEF x

LEMMA BlobHeld ==
  ASSUME NEW b \in Seq(Byte), NEW at \in Nat, NEW inner, NEW l, l = Length(b, at + 1, inner)
  PROVE  Blob(b, at + 1, inner) =
           IF Holds(b, l) THEN [text |-> SubSeq(b, l.next, l.next + l.length - 1),
                                next |-> l.next + l.length]
           ELSE [text |-> <<>>, next |-> Len(b) + 1]
BY Zenon DEF Blob

LEMMA BlobReads ==
  ASSUME NEW inner, KnownFraming(inner), NEW b \in Seq(Byte), NEW at \in Nat,
         NEW t \in Seq(Byte), t # <<>>, NEW n \in Nat, n = Len(t), n < MaxBody,
         Shows(b, at, Prefix(inner, n)), Shows(b, at + Len(Prefix(inner, n)), t)
  PROVE  IsBlob(b, at + Len(Prefix(inner, n)), t, Blob(b, at + 1, inner))
<1>1. PICK l : l = Length(b, at + 1, inner)
  OBVIOUS
<1>2. PICK q \in Nat : q = Len(Prefix(inner, n))
  BY PrefixType
<1>3. ReadAs(b, at, q, n, l)
  BY <1>1, <1>2, PrefixReads, Zenon
<1>4. PICK m \in Nat : m = Len(b)
  BY LenProperties
<1>5. PICK p \in Nat : p = at + q
  BY at + q \in Nat
<1>6. n > 0
  <2>1. n # 0
    BY EmptySeq
  <2> QED
    BY <2>1
<1>7. CASE p <= m
  <2>1. l = [length |-> n, next |-> p + 1]
    BY <1>3, <1>4, <1>5, <1>7, Zenon DEF ReadAs
  <2>2. l.length = n /\ l.next = p + 1
    BY <2>1
  <2>3. Holds(b, l) <=> p + n <= m
    <3>1. Holds(b, l) <=> n > 0 /\ n <= m - (p + 1) + 1
      BY <1>4, <2>2, Zenon DEF Holds
    <3> QED
      BY <1>6, <3>1
  <2>4. p + 1 + n - 1 = p + n /\ p + 1 + n = p + n + 1
    OBVIOUS
  <2>5. CASE p + n <= m
    <3>1. SubSeq(b, p + 1, p + n) = t
      <4>1. p + Len(t) <= Len(b) /\ Shows(b, p, t)
        BY <1>2, <1>4, <1>5, <2>5, Zenon
      <4>2. SubSeq(b, p + 1, p + Len(t)) = t
        BY <4>1, SliceIs, Zenon
      <4> QED
        BY <4>2, Zenon
    <3>2. Blob(b, at + 1, inner) = [text |-> t, next |-> p + n + 1]
      BY <1>1, <2>2, <2>3, <2>4, <2>5, <3>1, BlobHeld, ZenonT(40)
    <3> QED
      BY <1>2, <1>4, <1>5, <2>5, <3>2, Zenon DEF IsBlob
  <2>6. CASE ~ (p + n <= m)
    <3>1. Blob(b, at + 1, inner) = [text |-> <<>>, next |-> Len(b) + 1]
      BY <1>1, <2>3, <2>6, BlobHeld, Zenon
    <3> QED
      BY <1>2, <1>4, <1>5, <2>6, <3>1, Zenon DEF IsBlob
  <2> QED
    BY <2>5, <2>6, Zenon
<1>8. CASE ~ (p <= m)
  <2>1. l = Unread
    BY <1>3, <1>4, <1>5, <1>8, Zenon DEF ReadAs
  <2>2. ~ Holds(b, l)
    BY <2>1 DEF Unread, Holds
  <2>3. Blob(b, at + 1, inner) = [text |-> <<>>, next |-> Len(b) + 1]
    BY <1>1, <2>2, BlobHeld, Zenon
  <2>4. ~ (p + n <= m)
    BY <1>8
  <2> QED
    BY <1>2, <1>4, <1>5, <2>3, <2>4, Zenon DEF IsBlob
<1> QED
  BY <1>7, <1>8, Zenon

LEMMA SizeReads ==
  ASSUME NEW s \in Sent, KnownLayout(s), NEW b, Body(s, b)
  PROVE  ReadAs(b, 4, Len(Size(s)), Total(s), Varuint32(b, 5))
<1>1. Size(s) = Varuint(Total(s)) /\ Len(ProtocolOf(s)) = 4 /\ Total(s) < MaxBody /\ Total(s) \in Nat
  BY KnownLengths, PartTypes, Zenon
<1>2. InFour(Total(s))
  <2>1. PICK n \in Nat : n = Total(s) /\ n < MaxBody
    BY <1>1, Zenon
  <2>2. InFour(n)
    BY <2>1, SMT DEF InFour, MaxBody
  <2> QED
    BY <2>1, <2>2, Zenon
<1>3. Shows(b, 4, Varuint(Total(s))) /\ b \in Seq(Byte)
  BY <1>1, Zenon DEF Body, Laid
<1>4. 4 \in Nat /\ 4 + 1 = 5
  OBVIOUS
<1>5. IF 4 + Len(Varuint(Total(s))) <= Len(b)
        THEN Varuint32(b, 4 + 1) = [length |-> Total(s), next |-> 4 + Len(Varuint(Total(s))) + 1]
        ELSE Varuint32(b, 4 + 1) = Unread
  BY <1>1, <1>2, <1>3, <1>4, VaruintReads, Zenon
<1> QED
  BY <1>1, <1>4, <1>5, Zenon DEF ReadAs

LEMMA RequestFollowsSize ==
  ASSUME NEW b, NEW inner
  PROVE  Request(b, inner) = IF Varuint32(b, 5).next = 0 THEN [text |-> <<>>, next |-> Len(b) + 1]
                             ELSE Blob(b, Varuint32(b, 5).next, inner)
BY Zenon DEF Request

(* In the sender's framing the request is read if it is there, and nothing if it is cut. *)
LEMMA RequestReads ==
  ASSUME NEW s \in Sent, KnownLayout(s), NEW b, Body(s, b)
  PROVE  IsBlob(b, Len(BeforeRequest(s)), RequestText(s), Request(b, s.layout))
<1> DEFINE z == Varuint32(b, 5)
           t == RequestText(s)
<1>1. PICK m \in Nat : m = Len(b)
  BY LenProperties DEF Body
<1>2. PICK v \in 1 .. 4 : v = Len(Size(s)) /\ Len(ProtocolOf(s)) = 4 /\ Len(ProtocolOf(s) \o Size(s)) = 4 + v
  BY KnownLengths, Lengths, Zenon
<1>3. PICK r \in Nat : r = s.request /\ r >= 14 /\ r < MaxBody /\ Len(t) = r
  BY KnownLengths, LoginTypes, PartTypes, Zenon
<1>4. PICK q \in Nat : q = Len(RequestPrefix(s))
  BY PartTypes
<1>5. t \in Seq(Byte) /\ b \in Seq(Byte) /\ KnownFraming(s.layout) /\ t # <<>>
  <2>1. t # <<>>
    BY <1>3, EmptySeq
  <2> QED
    BY <2>1, PartTypes, Zenon DEF Body, KnownLayout, KnownFraming
<1>6. Len(BeforeRequest(s)) = 4 + v + q
  BY <1>2, <1>4, Lengths, Zenon
<1>7. ReadAs(b, 4, v, Total(s), z)
  BY <1>2, SizeReads, Zenon
<1>8. PICK p \in Nat : p = 4 + v
  BY 4 + v \in Nat
<1> HIDE DEF z, t
<1>9. CASE p <= m
  <2>1. z.next = p + 1 /\ p + 1 # 0
    <3>1. z = [length |-> Total(s), next |-> p + 1]
      BY <1>1, <1>7, <1>8, <1>9, Zenon DEF ReadAs
    <3> QED
      BY <3>1
  <2>2. Request(b, s.layout) = Blob(b, p + 1, s.layout)
    BY <2>1, RequestFollowsSize, Zenon DEF z
  <2>3. Shows(b, p, Prefix(s.layout, r)) /\ Len(Prefix(s.layout, r)) = q
    BY <1>2, <1>3, <1>4, <1>8, Zenon DEF Body, Laid, RequestPrefix
  <2>4. Shows(b, p + Len(Prefix(s.layout, r)), t)
    BY <1>6, <1>8, <2>3, Zenon DEF Body, Laid, t
  <2>5. IsBlob(b, p + Len(Prefix(s.layout, r)), t, Blob(b, p + 1, s.layout))
    BY <1>3, <1>5, <2>3, <2>4, BlobReads, Zenon
  <2> QED
    BY <1>6, <1>8, <2>2, <2>3, <2>5, Zenon DEF t
<1>10. CASE ~ (p <= m)
  <2>1. z.next = 0
    <3>1. z = Unread
      BY <1>1, <1>7, <1>8, <1>10, Zenon DEF ReadAs
    <3> QED
      BY <3>1 DEF Unread
  <2>2. Request(b, s.layout) = [text |-> <<>>, next |-> Len(b) + 1]
    BY <2>1, RequestFollowsSize, Zenon DEF z
  <2>3. ~ (p + q + r <= m)
    BY <1>10
  <2> QED
    BY <1>1, <1>3, <1>6, <1>8, <2>2, <2>3, Zenon DEF IsBlob, t
<1> QED
  BY <1>9, <1>10, Zenon

(* ... and so is the client data. *)
LEMMA ClientReads ==
  ASSUME NEW s \in Sent, KnownLayout(s), NEW b, Body(s, b)
  PROVE  IsBlob(b, Len(BeforeClient(s)), ClientText(s),
                Blob(b, Len(BeforeRequest(s)) + s.request + 1, s.layout))
<1> DEFINE t == ClientText(s)
           p == Len(BeforeRequest(s) \o RequestText(s))
<1>1. PICK n \in Nat : n = s.client /\ n >= 3 /\ n < MaxBody /\ Len(t) = n
  BY KnownLengths, LoginTypes, PartTypes, Zenon
<1>2. t \in Seq(Byte) /\ b \in Seq(Byte) /\ KnownFraming(s.layout) /\ t # <<>>
  <2>1. t # <<>>
    BY <1>1, EmptySeq
  <2> QED
    BY <2>1, PartTypes, Zenon DEF Body, KnownLayout, KnownFraming
<1>3. p = Len(BeforeRequest(s)) + s.request /\ Len(BeforeClient(s)) = p + Len(ClientPrefix(s))
  BY Lengths, Zenon
<1>4. p \in Nat
  <2>1. /\ Len(ProtocolOf(s)) \in Nat /\ Len(Size(s)) \in Nat /\ Len(RequestPrefix(s)) \in Nat
        /\ s.request \in Nat
    BY PartTypes, LoginTypes, LenProperties
  <2> QED
    BY <1>3, <2>1, Lengths, SMTT(30)
<1> HIDE DEF t
<1>5. Shows(b, p, Prefix(s.layout, n)) /\ Prefix(s.layout, n) = ClientPrefix(s)
  BY <1>1, Zenon DEF Body, Laid, ClientPrefix
<1>6. Shows(b, p + Len(Prefix(s.layout, n)), t)
  BY <1>3, <1>5, Zenon DEF Body, Laid, t
<1> HIDE DEF p
<1>7. IsBlob(b, p + Len(Prefix(s.layout, n)), t, Blob(b, p + 1, s.layout))
  BY <1>1, <1>2, <1>4, <1>5, <1>6, BlobReads, Zenon
<1> QED
  BY <1>3, <1>5, <1>7, Zenon DEF t

-----------------------------------------------------------------------------
(* The other framing does not take the request: as an int32, a varuint32 and what follows *)
(* it are a length that no body has.                                                      *)

LEMMA FourthByte ==
  ASSUME NEW n \in Nat, InFour(n), Len(Varuint(n)) = 4
  PROVE  Varuint(n)[4] \in 1 .. 127
<1>1. n >= 2097152
  <2>1. /\ n < 128 => Len(Varuint(n)) = 1
        /\ n >= 128 /\ n < 16384 => Len(Varuint(n)) = 2
        /\ n >= 16384 /\ n < 2097152 => Len(Varuint(n)) = 3
    BY VaruintIs, SMT
  <2> QED
    BY <2>1, SMT
<1>2. Varuint(n)[4] = Digit(n, 2097152)
  BY <1>1, VaruintIs, SMT
<1>3. Digit(n, 2097152) \in 0 .. 127 /\ Digit(n, 2097152) >= 1
  BY <1>1, DigitType, DigitsAddUp, SMT
<1> QED
  BY <1>2, <1>3, SMT

LEMMA HighByte ==
  ASSUME NEW b \in Seq(Byte), NEW p \in Nat, NEW r \in Nat, r < MaxBody, r >= 14,
         Shows(b, p, Varuint(r)), NEW t, Len(t) = r, \A i \in 1 .. r : t[i] = RequestByte(r, i),
         Shows(b, p + Len(Varuint(r)), t), p + Len(Varuint(r)) + r <= Len(b)
  PROVE  b[p + 4] \in 1 .. 127
<1>1. PICK q \in 1 .. 4 : q = Len(Varuint(r))
  BY VaruintType
<1>2. PICK m \in Nat : m = Len(b)
  BY LenProperties
<1>3. p + q + r <= m
  BY <1>1, <1>2, Zenon
<1>4. ASSUME NEW k \in 1 .. 3, q + k = 4 PROVE b[p + 4] = RequestByte(r, k)
  <2>1. (p + q) + k = p + 4 /\ (p + q) + k <= m /\ k \in 1 .. r
    BY <1>3, <1>4
  <2>2. b[(p + q) + k] = t[k]
    BY <1>1, <1>2, <2>1, Zenon DEF Shows
  <2> QED
    BY <2>1, <2>2, Zenon
<1>5. CASE q = 1
  <2>1. 3 \in 1 .. 3 /\ q + 3 = 4 /\ RequestByte(r, 3) = 92
    BY <1>5, SMT DEF RequestByte, Backslash
  <2>2. b[p + 4] = 92
    BY <1>4, <2>1, Zenon
  <2> QED
    BY <2>2
<1>6. CASE q = 2
  <2>1. 2 \in 1 .. 3 /\ q + 2 = 4 /\ RequestByte(r, 2) = 34
    BY <1>6, SMT DEF RequestByte, Quote
  <2>2. b[p + 4] = 34
    BY <1>4, <2>1, Zenon
  <2> QED
    BY <2>2
<1>7. CASE q = 3
  <2>1. 1 \in 1 .. 3 /\ q + 1 = 4 /\ RequestByte(r, 1) = 123
    BY <1>7, SMT DEF RequestByte, Open
  <2>2. b[p + 4] = 123
    BY <1>4, <2>1, Zenon
  <2> QED
    BY <2>2
<1>8. CASE q = 4
  <2>1. 4 \in 1 .. Len(Varuint(r)) /\ p + 4 <= m
    BY <1>1, <1>3, <1>8
  <2>2. b[p + 4] = Varuint(r)[4]
    BY <1>2, <2>1, Zenon DEF Shows
  <2>3. InFour(r) /\ Len(Varuint(r)) = 4
    BY <1>1, <1>8, SMT DEF InFour, MaxBody
  <2> QED
    BY <2>2, <2>3, FourthByte, Zenon
<1> QED
  BY <1>5, <1>6, <1>7, <1>8

LEMMA TooLong ==
  ASSUME NEW b \in Seq(Byte), Len(b) < MaxBody, NEW p \in Nat, p + 4 <= Len(b), b[p + 4] \in 1 .. 127
  PROVE  ~ Holds(b, Int32Le(b, p + 1))
<1>1. PICK m \in Nat : m = Len(b)
  BY LenProperties
<1>2. PICK l : l = Int32Le(b, p + 1)
  OBVIOUS
<1>3. /\ p + 1 \in 1 .. Len(b) /\ p + 2 \in 1 .. Len(b) /\ p + 3 \in 1 .. Len(b)
      /\ ~ ((p + 1) + 3 > Len(b))
  BY <1>1
<1>4. PICK v \in Byte : v = b[p + 1]
  BY <1>3, ElementOfSeq
<1>5. PICK w \in Byte : w = b[p + 2]
  BY <1>3, ElementOfSeq
<1>6. PICK x \in Byte : x = b[p + 3]
  BY <1>3, ElementOfSeq
<1>7. PICK y \in 1 .. 127 : y = b[p + 4]
  OBVIOUS
<1>8. (p + 1) + 1 = p + 2 /\ (p + 1) + 2 = p + 3 /\ (p + 1) + 3 = p + 4 /\ y < 128
  OBVIOUS
<1>9. l = [length |-> v + 256 * w + 65536 * x + 16777216 * y, next |-> p + 5]
  <2>1. AreOctets(b, p + 1, v, w, x, y)
    BY <1>4, <1>5, <1>6, <1>7, <1>8, Zenon DEF AreOctets
  <2> QED
    BY <1>2, <1>3, <1>8, <2>1, SMT DEF Int32Le, AreOctets
<1>10. l.length = v + 256 * w + 65536 * x + 16777216 * y /\ l.next = p + 5
  BY <1>9, SMT
<1>11. PICK n \in Nat : n = v + 256 * w + 65536 * x + 16777216 * y /\ n >= 16777216
  BY SMT DEF Byte
<1>12. ~ (n <= m - (p + 5) + 1)
  <2>1. m < 16777216
    BY <1>1, SMT DEF MaxBody
  <2> QED
    BY <1>11, <2>1, SMT
<1> QED
  BY <1>1, <1>2, <1>10, <1>11, <1>12, SMT DEF Holds

RequestIn(s, b) == Len(BeforeRequest(s)) + s.request <= Len(b)

LEMMA OtherRefused ==
  ASSUME NEW s \in Sent, s.layout = "varuint32", NEW b, Body(s, b), RequestIn(s, b)
  PROVE  Request(b, "le").text = <<>>
<1> DEFINE z == Varuint32(b, 5)
           t == RequestText(s)
<1>1. PICK m \in Nat : m = Len(b) /\ m < MaxBody
  <2>1. KnownLayout(s)
    BY DEF KnownLayout
  <2> QED
    BY <2>1, KnownLengths, Zenon
<1>2. PICK v \in 1 .. 4 : v = Len(Size(s)) /\ Len(ProtocolOf(s)) = 4 /\ Len(ProtocolOf(s) \o Size(s)) = 4 + v
  <2>1. KnownLayout(s)
    BY DEF KnownLayout
  <2> QED
    BY <2>1, KnownLengths, Lengths, Zenon
<1>3. PICK r \in Nat : r = s.request /\ r >= 14 /\ r < MaxBody /\ Len(t) = r
  <2>1. KnownLayout(s)
    BY DEF KnownLayout
  <2> QED
    BY <2>1, KnownLengths, LoginTypes, PartTypes, Zenon
<1>4. PICK q \in 1 .. 4 : q = Len(RequestPrefix(s)) /\ RequestPrefix(s) = Varuint(r)
  <2>1. RequestPrefix(s) = Varuint(r)
    BY <1>3, SMT DEF RequestPrefix, Prefix
  <2> QED
    BY <2>1, PartTypes, Zenon
<1>5. Len(BeforeRequest(s)) = 4 + v + q /\ b \in Seq(Byte)
  BY <1>2, <1>4, Lengths, Zenon DEF Body
<1>6. PICK p \in Nat : p = 4 + v
  BY 4 + v \in Nat
<1>7. p + q + r <= m
  BY <1>1, <1>3, <1>5, <1>6, Zenon DEF RequestIn
<1>8. \A i \in 1 .. r : t[i] = RequestByte(r, i)
  BY <1>3, RequestTextIs, Zenon
<1> HIDE DEF z, t
<1>9. z.next = p + 1 /\ p + 1 # 0
  <2>1. KnownLayout(s)
    BY DEF KnownLayout
  <2>2. ReadAs(b, 4, v, Total(s), z)
    BY <1>2, <2>1, SizeReads, Zenon DEF z
  <2>3. p <= m
    BY <1>7
  <2>4. z = [length |-> Total(s), next |-> p + 1]
    BY <1>1, <1>6, <2>2, <2>3, Zenon DEF ReadAs
  <2> QED
    BY <2>4
<1>10. Request(b, "le") = Blob(b, p + 1, "le")
  BY <1>9, RequestFollowsSize, Zenon DEF z
<1>11. b[p + 4] \in 1 .. 127
  <2>1. Shows(b, p, Varuint(r)) /\ Len(Varuint(r)) = q
    BY <1>2, <1>4, <1>6, Zenon DEF Body, Laid
  <2>2. Shows(b, p + Len(Varuint(r)), t) /\ p + Len(Varuint(r)) + r <= Len(b)
    BY <1>1, <1>5, <1>6, <1>7, <2>1, Zenon DEF Body, Laid, t
  <2> QED
    BY <1>3, <1>5, <1>8, <2>1, <2>2, HighByte, ZenonT(40)
<1>12. ~ Holds(b, Int32Le(b, p + 1))
  <2>1. p + 4 <= m
    BY <1>3, <1>7
  <2> QED
    BY <1>1, <1>5, <1>11, <2>1, TooLong, Zenon
<1>13. Length(b, p + 1, "le") = Int32Le(b, p + 1)
  BY Zenon DEF Length
<1>14. Blob(b, p + 1, "le") = [text |-> <<>>, next |-> Len(b) + 1]
  BY <1>5, <1>12, <1>13, BlobHeld, Zenon
<1> QED
  BY <1>10, <1>14

-----------------------------------------------------------------------------
(* A request that is cut is not read, in no framing and by no scan: that a slice of the   *)
(* body is the request although the body ends before the request does would put the       *)
(* request's last two characters where the only "} in its front are, five characters in,  *)
(* and then its front where its filler is.                                                *)

LEMMA EndIsNotInside ==
  ASSUME NEW r \in Nat, r >= 14, NEW p \in Nat, p < r, p >= 2,
         RequestByte(r, p) = Close, RequestByte(r, p - 1) = Quote
  PROVE  p = 5
BY SMT DEF RequestByte, Close, Quote, Open, Backslash

LEMMA SliceType ==
  ASSUME NEW b \in Seq(Byte), NEW x \in Nat \ {0}, NEW y \in Int, y <= Len(b)
  PROVE  /\ Len(SubSeq(b, x, y)) = IF x <= y THEN y - x + 1 ELSE 0
         /\ \A i \in 1 .. y - x + 1 : SubSeq(b, x, y)[i] = b[x + i - 1]
<1>1. x \in Int
  OBVIOUS
<1>2. \A i \in x .. y : b[i] \in Byte
  BY LenProperties
<1> QED
  BY <1>1, <1>2, SubSeqProperties

LEMMA NotIn ==
  ASSUME NEW b \in Seq(Byte), NEW at \in 0 .. 12, NEW r \in Nat, r >= 14, NEW t, Len(t) = r,
         \A i \in 1 .. r : t[i] = RequestByte(r, i), Shows(b, at, t), Len(b) < at + r,
         NEW x \in Nat \ {0}, NEW y \in Int, y <= Len(b), SubSeq(b, x, y) = t
  PROVE  FALSE
<1>1. PICK m \in Nat : m = Len(b)
  BY LenProperties
<1>3. /\ Len(SubSeq(b, x, y)) = IF x <= y THEN y - x + 1 ELSE 0
      /\ \A i \in 1 .. y - x + 1 : SubSeq(b, x, y)[i] = b[x + i - 1]
  BY SliceType, Zenon
<1>4. r = y - x + 1 /\ y <= m /\ m < at + r
  <2>1. r = IF x <= y THEN y - x + 1 ELSE 0
    BY <1>3, Zenon
  <2>2. y <= m /\ m < at + r
    BY <1>1, Zenon
  <2> QED
    BY <2>1, <2>2
<1>5. ASSUME NEW i \in 1 .. r PROVE b[x + i - 1] = RequestByte(r, i)
  BY <1>3, <1>4, Zenon
<1>6. ASSUME NEW k \in 1 .. r, at + k <= m PROVE b[at + k] = RequestByte(r, k)
  BY <1>1, <1>6, Zenon DEF Shows
<1>7. PICK p \in Nat : y = at + p /\ p < r /\ p >= 2
  <2>1. y - at \in Nat /\ y = at + (y - at) /\ y - at < r /\ y - at >= 2
    BY <1>4
  <2> QED
    BY <2>1, Zenon
<1>8. RequestByte(r, p) = Close
  <2>1. r \in 1 .. r /\ x + r - 1 = at + p /\ p \in 1 .. r /\ at + p <= m
    BY <1>4, <1>7
  <2>2. RequestByte(r, r) = Close
    BY Zenon DEF RequestByte
  <2>3. b[x + r - 1] = RequestByte(r, r)
    BY <1>5, <2>1, Zenon
  <2>4. b[at + p] = RequestByte(r, p)
    BY <1>6, <2>1, Zenon
  <2> QED
    BY <2>1, <2>2, <2>3, <2>4, Zenon
<1>9. RequestByte(r, p - 1) = Quote
  <2>1. r - 1 \in 1 .. r /\ x + (r - 1) - 1 = at + (p - 1) /\ p - 1 \in 1 .. r /\ at + (p - 1) <= m
    BY <1>4, <1>7
  <2>2. RequestByte(r, r - 1) = Quote
    BY SMT DEF RequestByte
  <2>3. b[x + (r - 1) - 1] = RequestByte(r, r - 1)
    BY <1>5, <2>1, Zenon
  <2>4. b[at + (p - 1)] = RequestByte(r, p - 1)
    BY <1>6, <2>1, Zenon
  <2> QED
    BY <2>1, <2>2, <2>3, <2>4, Zenon
<1>10. p = 5
  BY <1>7, <1>8, <1>9, EndIsNotInside, Zenon
<1>11. r - 2 \in 1 .. r /\ x + (r - 2) - 1 = at + 3 /\ 3 \in 1 .. r /\ at + 3 <= m
  BY <1>4, <1>7, <1>10
<1>12. RequestByte(r, 3) = RequestByte(r, r - 2)
  <2>1. b[x + (r - 2) - 1] = RequestByte(r, r - 2)
    BY <1>5, <1>11, Zenon
  <2>2. b[at + 3] = RequestByte(r, 3)
    BY <1>6, <1>11, Zenon
  <2> QED
    BY <1>11, <2>1, <2>2, Zenon
<1>13. RequestByte(r, 3) = 92 /\ RequestByte(r, r - 2) \in {74, 97}
  BY SMT DEF RequestByte, Backslash
<1> QED
  BY <1>12, <1>13

LEMMA CutIsNotRead ==
  ASSUME NEW s \in Sent, KnownLayout(s), NEW b, Body(s, b), ~ RequestIn(s, b),
         NEW x \in Nat \ {0}, NEW y \in Int, y <= Len(b)
  PROVE  SubSeq(b, x, y) # RequestText(s)
<1>1. PICK v \in 1 .. 4 : v = Len(Size(s)) /\ Len(ProtocolOf(s)) = 4
  BY KnownLengths, Zenon
<1>2. PICK q \in 1 .. 4 : q = Len(RequestPrefix(s))
  BY PartTypes, Zenon
<1>3. PICK at \in 0 .. 12 : at = Len(BeforeRequest(s))
  <2>1. 4 + v + q \in 0 .. 12
    OBVIOUS
  <2>2. Len(BeforeRequest(s)) = 4 + v + q
    BY <1>1, <1>2, Lengths, Zenon
  <2> QED
    BY <2>1, <2>2, Zenon
<1>4. PICK r \in Nat : r = s.request /\ r >= 14 /\ Len(RequestText(s)) = r
  BY LoginTypes, PartTypes, Zenon
<1>5. b \in Seq(Byte) /\ Shows(b, at, RequestText(s))
  BY <1>3, Zenon DEF Body, Laid
<1>6. \A i \in 1 .. r : RequestText(s)[i] = RequestByte(r, i)
  BY <1>4, RequestTextIs, Zenon
<1>7. Len(b) < at + r
  <2>1. PICK m \in Nat : m = Len(b)
    BY <1>5, LenProperties
  <2>2. ~ (at + r <= m)
    BY <1>3, <1>4, <2>1, Zenon DEF RequestIn
  <2>3. m < at + r
    BY <2>2
  <2> QED
    BY <2>1, <2>3, Zenon
<1> QED
  BY <1>4, <1>5, <1>6, <1>7, NotIn, Zenon

-----------------------------------------------------------------------------
(* Whatever is read is a slice of the body. *)

LEMMA Least ==
  ASSUME NEW S \in SUBSET Nat, S # {}
  PROVE  \E x \in S : \A y \in S : x <= y
<1> DEFINE R == OpToRel(<, Nat)
<1>1. PICK x \in S : \A y \in S : ~ (<<y, x>> \in R)
  <2> HIDE DEF R
  <2> QED
    BY WFMin, NatLessThanWellFounded, Zenon DEF R
<1>2. ASSUME NEW y \in S PROVE x <= y
  <2>1. x \in Nat /\ y \in Nat
    OBVIOUS
  <2>2. y < x => <<y, x>> \in R
    BY <2>1 DEF OpToRel
  <2>3. ~ (y < x)
    BY <1>1, <2>2, Zenon
  <2> QED
    BY <2>1, <2>3
<1> QED
  BY <1>2, Zenon

LEMMA Greatest ==
  ASSUME NEW S \in SUBSET Nat, S # {}, NEW n \in Nat, \A x \in S : x <= n
  PROVE  \E x \in S : \A y \in S : y <= x
<1> DEFINE T == {n - x : x \in S}
<1>1. T \in SUBSET Nat /\ T # {}
  <2>1. ASSUME NEW x \in S PROVE n - x \in Nat
    OBVIOUS
  <2> QED
    BY <2>1, Zenon
<1>2. PICK z \in T : \A y \in T : z <= y
  <2> HIDE DEF T
  <2> QED
    BY <1>1, Least, Zenon
<1>3. PICK x \in S : z = n - x
  BY Zenon
<1>4. ASSUME NEW y \in S PROVE y <= x
  <2>1. n - y \in T
    OBVIOUS
  <2>2. n - x <= n - y
    BY <1>2, <1>3, <2>1, Zenon
  <2>3. x \in Nat /\ y \in Nat
    OBVIOUS
  <2> QED
    BY <2>2, <2>3
<1> QED
  BY <1>4, Zenon

LEMMA MinOf ==
  ASSUME NEW S \in SUBSET Nat, S # {}
  PROVE  Min(S) \in S /\ \A y \in S : Min(S) <= y
<1>1. PICK x \in S : \A y \in S : x <= y
  BY Least, Zenon
<1>2. S \in SUBSET Int
  OBVIOUS
<1>3. Min(S) = x
  BY <1>1, <1>2, MinIs, Zenon
<1> QED
  BY <1>1, <1>3, Zenon

LEMMA MaxOf ==
  ASSUME NEW S \in SUBSET Nat, S # {}, NEW n \in Nat, \A x \in S : x <= n
  PROVE  Max(S) \in S /\ \A y \in S : y <= Max(S)
<1>1. PICK x \in S : \A y \in S : y <= x
  BY Greatest, Zenon
<1>2. \E z \in S : \A y \in S : z >= y
  <2>1. ASSUME NEW y \in S PROVE x >= y
    <3>1. y <= x /\ x \in Nat /\ y \in Nat
      BY <1>1
    <3> QED
      BY <3>1
  <2> QED
    BY <2>1, Zenon
<1>3. Max(S) \in S /\ \A y \in S : Max(S) >= y
  BY <1>2, Zenon DEF Max
<1>4. PICK z \in S : z = Max(S)
  BY <1>3, Zenon
<1>5. ASSUME NEW y \in S PROVE y <= z
  <2>1. z >= y /\ z \in Nat /\ y \in Nat
    BY <1>3, <1>4
  <2> QED
    BY <2>1
<1> QED
  BY <1>3, <1>4, <1>5, Zenon

(* A length that was read, or none. *)
IsLength(l) == l = Unread \/ (l.length \in Int /\ l.next \in Nat \ {0})

LEMMA VaruintType32 ==
  ASSUME NEW b \in Seq(Byte), NEW p \in Nat \ {0}
  PROVE  IsLength(Varuint32(b, p))
<1>1. PICK m \in Nat : m = Len(b)
  BY LenProperties
<1> DEFINE J == {j \in 0 .. 5 : p + j <= m /\ b[p + j] < 128}
<1>2. CASE J = {}
  <2>1. ASSUME NEW j \in 0 .. 5, p + j <= m PROVE ~ (b[p + j] < 128)
    BY <1>2, <2>1, Zenon
  <2>2. p \in Nat
    OBVIOUS
  <2>3. Varuint32(b, p) = Unread
    BY <1>1, <2>1, <2>2, VaruintNowhere, Zenon
  <2> QED
    BY <2>3, Zenon DEF IsLength
<1>3. CASE J # {}
  <2>1. PICK k \in J : \A y \in J : k <= y
    <3>1. J \in SUBSET Nat
      OBVIOUS
    <3> HIDE DEF J
    <3> QED
      BY <1>3, <3>1, Least, Zenon
  <2>2. k \in 0 .. 5 /\ p + k <= m /\ b[p + k] < 128
    BY Zenon
  <2>3. ASSUME NEW j \in 0 .. k PROVE b[p + j] \in Byte
    <3>1. p + j \in 1 .. Len(b)
      BY <1>1, <2>2
    <3> QED
      BY <3>1, ElementOfSeq, Zenon
  <2>4. ASSUME NEW j \in 0 .. k - 1 PROVE b[p + j] >= 128
    <3>1. j \in 0 .. 5 /\ p + j <= m /\ ~ (k <= j) /\ j \in 0 .. k
      BY <2>2
    <3>2. ~ (b[p + j] < 128)
      BY <2>1, <3>1, Zenon
    <3>3. PICK c \in Byte : c = b[p + j]
      BY <2>3, <3>1, Zenon
    <3> QED
      BY <3>2, <3>3 DEF Byte
  <2>5. Varuint32(b, p) = ReadUpTo(b, p, p + k)
    <3>1. p + k <= Len(b)
      BY <1>1, <2>2, Zenon
    <3> QED
      BY <2>2, <2>4, <3>1, VaruintAt
  <2>6. ASSUME NEW j \in 0 .. 5 PROVE DigitAt(b, p, p + k, j) \in Nat
    <3>1. CASE p + j > p + k
      BY <3>1 DEF DigitAt
    <3>2. CASE ~ (p + j > p + k)
      <4>1. j \in 0 .. k
        BY <3>2, <2>2
      <4>2. PICK c \in Byte : c = b[p + j]
        BY <2>3, <4>1, Zenon
      <4>3. c % 128 \in Nat
        BY DEF Byte
      <4> QED
        BY <3>2, <4>2, <4>3, Zenon DEF DigitAt
    <3> QED
      BY <3>1, <3>2, Zenon
  <2>7. ReadUpTo(b, p, p + k).length \in Int /\ ReadUpTo(b, p, p + k).next \in Nat \ {0}
    <3>1. PICK d0 \in Nat : d0 = DigitAt(b, p, p + k, 0)
      BY <2>6
    <3>2. PICK d1 \in Nat : d1 = DigitAt(b, p, p + k, 1)
      BY <2>6
    <3>3. PICK d2 \in Nat : d2 = DigitAt(b, p, p + k, 2)
      BY <2>6
    <3>4. PICK d3 \in Nat : d3 = DigitAt(b, p, p + k, 3)
      BY <2>6
    <3>5. PICK d4 \in Nat : d4 = DigitAt(b, p, p + k, 4)
      BY <2>6
    <3>6. PICK d5 \in Nat : d5 = DigitAt(b, p, p + k, 5)
      BY <2>6
    <3>7. PICK n \in Int : n = d0 + 128 * (d1 + 128 * (d2 + 128 * (d3 + 128 * (d4 + 128 * d5))))
      BY d0 + 128 * (d1 + 128 * (d2 + 128 * (d3 + 128 * (d4 + 128 * d5)))) \in Int
    <3>8. ReadUpTo(b, p, p + k) = [length |-> n, next |-> p + k + 1]
      BY <3>1, <3>2, <3>3, <3>4, <3>5, <3>6, <3>7, Zenon DEF ReadUpTo
    <3>9. p + k + 1 \in Nat \ {0}
      BY <2>2
    <3> QED
      BY <3>8, <3>9
  <2> QED
    BY <2>5, <2>7, Zenon DEF IsLength
<1> QED
  BY <1>2, <1>3, Zenon

LEMMA LengthType ==
  ASSUME NEW b \in Seq(Byte), NEW p \in Nat \ {0}, NEW inner
  PROVE  IsLength(Length(b, p, inner))
<1>1. IsLength(Int32Le(b, p))
  <2>1. PICK m \in Nat : m = Len(b)
    BY LenProperties
  <2>2. CASE p + 3 > m
    <3>1. Int32Le(b, p) = Unread
      BY <2>1, <2>2, SMT DEF Int32Le
    <3> QED
      BY <3>1, Zenon DEF IsLength
  <2>3. CASE ~ (p + 3 > m)
    <3>1. /\ p \in 1 .. Len(b) /\ p + 1 \in 1 .. Len(b) /\ p + 2 \in 1 .. Len(b)
          /\ p + 3 \in 1 .. Len(b) /\ p + 4 \in Nat \ {0}
      BY <2>1, <2>3
    <3>2. PICK v \in Byte : v = b[p]
      BY <3>1, ElementOfSeq
    <3>3. PICK w \in Byte : w = b[p + 1]
      BY <3>1, ElementOfSeq
    <3>4. PICK x \in Byte : x = b[p + 2]
      BY <3>1, ElementOfSeq
    <3>5. PICK y \in Byte : y = b[p + 3]
      BY <3>1, ElementOfSeq
    <3>6. PICK z \in Int : z = IF y < 128 THEN y ELSE y - 256
      BY DEF Byte
    <3>7. PICK n \in Int : n = v + 256 * w + 65536 * x + 16777216 * z
      <4>1. v \in Int /\ w \in Int /\ x \in Int
        BY DEF Byte
      <4>2. v + 256 * w + 65536 * x + 16777216 * z \in Int
        BY <4>1, SMT
      <4> QED
        BY <4>2, SMT
    <3>8. Int32Le(b, p) = [length |-> n, next |-> p + 4]
      <4>1. ~ (p + 3 > Len(b))
        BY <2>1, <2>3, Zenon
      <4>2. Int32Le(b, p) =
              [length |-> b[p] + 256 * b[p + 1] + 65536 * b[p + 2]
                            + 16777216 * (IF b[p + 3] < 128 THEN b[p + 3] ELSE b[p + 3] - 256),
               next |-> p + 4]
        BY <4>1, SMT DEF Int32Le
      <4> QED
        BY <3>2, <3>3, <3>4, <3>5, <3>6, <3>7, <4>2, SMT
    <3>9. Int32Le(b, p).length = n /\ Int32Le(b, p).next = p + 4
      BY <3>8, SMT
    <3> QED
      BY <3>1, <3>9, n \in Int, SMT DEF IsLength
  <2> QED
    BY <2>2, <2>3, Zenon
<1> QED
  BY <1>1, VaruintType32, Zenon DEF Length

IsSlice(b, t) ==
  t = <<>> \/ \E x \in Nat \ {0}, y \in Int : y <= Len(b) /\ t = SubSeq(b, x, y)

LEMMA BlobIsSlice ==
  ASSUME NEW b \in Seq(Byte), NEW at \in Nat, NEW inner
  PROVE  IsSlice(b, Blob(b, at + 1, inner).text)
<1>1. PICK l : l = Length(b, at + 1, inner)
  OBVIOUS
<1>2. PICK m \in Nat : m = Len(b)
  BY LenProperties
<1>3. IsLength(l)
  <2>1. at + 1 \in Nat \ {0}
    OBVIOUS
  <2> QED
    BY <1>1, <2>1, LengthType, Zenon
<1>4. CASE Holds(b, l)
  <2>1. l # Unread
    BY <1>4, SMT DEF Holds, Unread
  <2>2. l.length \in Int /\ l.next \in Nat \ {0}
    BY <1>3, <2>1, Zenon DEF IsLength
  <2>3. l.length <= m - l.next + 1
    BY <1>2, <1>4, Zenon DEF Holds
  <2>4. l.next + l.length - 1 \in Int /\ l.next + l.length - 1 <= m
    BY <2>2, <2>3
  <2>5. Blob(b, at + 1, inner).text = SubSeq(b, l.next, l.next + l.length - 1)
    <3>1. Blob(b, at + 1, inner) = [text |-> SubSeq(b, l.next, l.next + l.length - 1),
                                    next |-> l.next + l.length]
      BY <1>1, <1>4, BlobHeld, Zenon
    <3> QED
      BY <3>1
  <2> QED
    BY <1>2, <2>2, <2>4, <2>5, Zenon DEF IsSlice
<1>5. CASE ~ Holds(b, l)
  <2>1. Blob(b, at + 1, inner) = [text |-> <<>>, next |-> Len(b) + 1]
    BY <1>1, <1>5, BlobHeld, Zenon
  <2>2. Blob(b, at + 1, inner).text = <<>>
    BY <2>1
  <2> QED
    BY <2>2, Zenon DEF IsSlice
<1> QED
  BY <1>4, <1>5, Zenon

LEMMA RequestIsSlice ==
  ASSUME NEW b \in Seq(Byte), NEW inner
  PROVE  IsSlice(b, Request(b, inner).text)
<1>1. PICK z : z = Varuint32(b, 5)
  OBVIOUS
<1>2. IsLength(z)
  <2>1. 5 \in Nat \ {0}
    OBVIOUS
  <2> QED
    BY <1>1, <2>1, VaruintType32, Zenon
<1>3. CASE z.next = 0
  <2>1. Request(b, inner) = [text |-> <<>>, next |-> Len(b) + 1]
    BY <1>1, <1>3, RequestFollowsSize, Zenon
  <2>2. Request(b, inner).text = <<>>
    BY <2>1
  <2> QED
    BY <2>2, Zenon DEF IsSlice
<1>4. CASE z.next # 0
  <2>1. z.next \in Nat \ {0}
    BY <1>2, <1>4 DEF IsLength, Unread
  <2>2. PICK at \in Nat : z.next = at + 1
    BY <2>1, z.next - 1 \in Nat, z.next = (z.next - 1) + 1
  <2>3. Request(b, inner) = Blob(b, at + 1, inner)
    BY <1>1, <1>4, <2>2, RequestFollowsSize, Zenon
  <2> QED
    BY <2>3, BlobIsSlice, Zenon
<1> QED
  BY <1>3, <1>4, Zenon

LEMMA CutIsNoSlice ==
  ASSUME NEW s \in Sent, KnownLayout(s), NEW b, Body(s, b), ~ RequestIn(s, b),
         NEW t, IsSlice(b, t)
  PROVE  t # RequestText(s)
<1>1. CASE t = <<>>
  <2>1. PICK r \in Nat : r = s.request /\ r >= 14 /\ Len(RequestText(s)) = r
    BY LoginTypes, PartTypes, Zenon
  <2>2. RequestText(s) # <<>>
    BY <2>1, EmptySeq
  <2> QED
    BY <1>1, <2>2, Zenon
<1>2. CASE \E x \in Nat \ {0}, y \in Int : y <= Len(b) /\ t = SubSeq(b, x, y)
  BY <1>2, CutIsNotRead, Zenon
<1> QED
  BY <1>1, <1>2, Zenon DEF IsSlice

-----------------------------------------------------------------------------
(* The scan: what SpanEnd returns is in the body. *)

(* Induction, for a set of numbers instead of a predicate. *)
LEMMA Induction ==
  ASSUME NEW T, 0 \in T, \A n \in Nat : n \in T => n + 1 \in T
  PROVE  Nat \subseteq T
<1>1. SUFFICES ASSUME Nat \ T # {} PROVE FALSE
  OBVIOUS
<1>2. PICK x \in Nat \ T : \A y \in Nat \ T : x <= y
  <2>1. Nat \ T \in SUBSET Nat
    OBVIOUS
  <2> QED
    BY <1>1, <2>1, Least, Zenon
<1>3. x # 0 /\ x \notin T
  OBVIOUS
<1>4. x - 1 \in Nat /\ (x - 1) + 1 = x /\ ~ (x <= x - 1)
  BY <1>3
<1>5. x - 1 \in T
  BY <1>2, <1>4, Zenon
<1> QED
  BY <1>3, <1>4, <1>5, Zenon

(* The loop over the marks S up to n, as the function that SpanEnd chooses. *)
Before(S, i) == Max({k \in S : k < i})
UpTo(S, n) == {i \in S : i <= n}

Walk(b, f, S, D) ==
  f = [i \in D |-> IF i = 0 THEN Start ELSE Look(f[Before(S, i)], i, b[i])]

LEMMA BeforeIs ==
  ASSUME NEW S \in SUBSET Nat, 0 \in S, NEW i \in S, i # 0
  PROVE  /\ Before(S, i) \in S /\ Before(S, i) < i /\ Before(S, i) \in Nat
         /\ \A k \in S : k < i => k <= Before(S, i)
<1> DEFINE T == {k \in S : k < i}
<1>1. T \in SUBSET Nat /\ i \in Nat
  OBVIOUS
<1>2. 0 \in T
  BY <1>1
<1>3. \A k \in T : k <= i
  OBVIOUS
<1>4. Max(T) \in T /\ \A y \in T : y <= Max(T)
  <2> HIDE DEF T
  <2> QED
    BY <1>1, <1>2, <1>3, MaxOf, Zenon
<1> QED
  BY <1>4, Zenon DEF Before

LEMMA WalkExists ==
  ASSUME NEW b, NEW S \in SUBSET Nat, 0 \in S, NEW m \in Nat
  PROVE  \E f : Walk(b, f, S, UpTo(S, m))
<1> DEFINE T == {n \in Nat : \E f : Walk(b, f, S, UpTo(S, n))}
<1>1. 0 \in T
  <2>1. Walk(b, [i \in UpTo(S, 0) |-> Start], S, UpTo(S, 0))
    <3>1. \A i \in UpTo(S, 0) : i = 0
      BY DEF UpTo
    <3> QED
      BY <3>1, Zenon DEF Walk
  <2> QED
    BY <2>1
<1>2. \A n \in Nat : n \in T => n + 1 \in T
  <2> SUFFICES ASSUME NEW n \in Nat, n \in T PROVE n + 1 \in T
    OBVIOUS
  <2>1. PICK f : Walk(b, f, S, UpTo(S, n))
    OBVIOUS
  <2>2. PICK top \in Nat : top = n + 1
    OBVIOUS
  <2> DEFINE D == UpTo(S, top)
             g == [i \in D |-> IF i = top THEN Look(f[Before(S, i)], i, b[i]) ELSE f[i]]
  <2>3. top # 0 /\ \A i \in D : i # top => i \in UpTo(S, n)
    BY <2>2 DEF UpTo
  <2>4. ASSUME NEW i \in D, i # 0 PROVE Before(S, i) \in D /\ Before(S, i) # top
    <3>1. i \in S /\ i <= top /\ i \in Nat
      BY DEF UpTo
    <3>2. Before(S, i) \in S /\ Before(S, i) < i /\ Before(S, i) \in Nat
      BY <2>4, <3>1, BeforeIs, Zenon
    <3>3. PICK k \in Nat : k = Before(S, i)
      BY <3>2, Zenon
    <3>4. k <= top /\ k # top
      BY <3>1, <3>2, <3>3
    <3> QED
      BY <3>2, <3>3, <3>4, Zenon DEF UpTo
  <2>5. \A i \in UpTo(S, n) : f[i] = IF i = 0 THEN Start ELSE Look(f[Before(S, i)], i, b[i])
    BY <2>1, Zenon DEF Walk
  <2> HIDE DEF T, D
  <2>6. \A i \in D : i # 0 => g[Before(S, i)] = f[Before(S, i)]
    BY <2>4, Zenon
  <2>7. \A i \in D : g[i] = IF i = 0 THEN Start ELSE Look(g[Before(S, i)], i, b[i])
    <3> SUFFICES ASSUME NEW i \in D
                 PROVE  g[i] = IF i = 0 THEN Start ELSE Look(g[Before(S, i)], i, b[i])
      BY Zenon
    <3>1. CASE i = top
      BY <2>3, <2>6, <3>1, Zenon
    <3>2. CASE i # top
      BY <2>3, <2>5, <2>6, <3>2, Zenon
    <3> QED
      BY <3>1, <3>2
  <2>8. Walk(b, g, S, D)
    <3>1. g = [i \in D |-> g[i]]
      BY Zenon
    <3> HIDE DEF g
    <3> QED
      BY <2>7, <3>1, Zenon DEF Walk
  <2> QED
    BY <2>2, <2>8, Zenon DEF T, D
<1> HIDE DEF T
<1>3. m \in T
  BY <1>1, <1>2, Induction
<1> QED
  BY <1>3, Zenon DEF T

SpanState(m) == [depth : Int, inString : BOOLEAN, escaped : BOOLEAN, end : 0 .. m]

LEMMA LookType ==
  ASSUME NEW m \in Nat, NEW s \in SpanState(m), NEW i \in 0 .. m, NEW c
  PROVE  Look(s, i, c) \in SpanState(m)
<1> USE DEF SpanState
<1>1. /\ s.depth \in Int /\ s.inString \in BOOLEAN /\ s.escaped \in BOOLEAN /\ s.end \in 0 .. m
      /\ s = [depth |-> s.depth, inString |-> s.inString, escaped |-> s.escaped, end |-> s.end]
  OBVIOUS
<1>2. PICK v : v = (s.escaped \/ c # Quote)
  OBVIOUS
<1>3. PICK w : w = (~ s.escaped /\ c = Backslash)
  OBVIOUS
<1>4. PICK e \in 0 .. m : e = IF s.depth = 1 THEN i ELSE 0
  OBVIOUS
<1>5. v \in BOOLEAN /\ w \in BOOLEAN
  BY <1>2, <1>3
<1>6. [s EXCEPT !.inString = v, !.escaped = w] \in SpanState(m)
  BY <1>5
<1>7. [s EXCEPT !.inString = TRUE] \in SpanState(m)
  OBVIOUS
<1>8. [s EXCEPT !.depth = @ + 1] \in SpanState(m)
  BY <1>1
<1>9. [s EXCEPT !.depth = @ - 1, !.end = e] \in SpanState(m)
  <2>1. PICK d \in Int : d = s.depth - 1
    BY <1>1
  <2>2. [s EXCEPT !.depth = d, !.end = e] \in SpanState(m)
    OBVIOUS
  <2> QED
    BY <2>1, <2>2, Zenon
<1> HIDE DEF SpanState
<1>10. CASE s.end > 0
  BY <1>10, Zenon DEF Look
<1>11. CASE ~ (s.end > 0) /\ s.inString
  <2>1. Look(s, i, c) = [s EXCEPT !.inString = s.escaped \/ c # Quote,
                                  !.escaped = ~ s.escaped /\ c = Backslash]
    BY <1>11, Zenon DEF Look
  <2> QED
    BY <1>2, <1>3, <1>6, <2>1, Zenon
<1>12. CASE ~ (s.end > 0) /\ ~ s.inString
  <2>1. CASE c = Quote
    BY <1>7, <1>12, <2>1, Zenon DEF Look
  <2>2. CASE c # Quote /\ c = Open
    BY <1>8, <1>12, <2>2, Zenon DEF Look
  <2>3. CASE c # Quote /\ c # Open /\ c = Close
    <3>1. Look(s, i, c) = [s EXCEPT !.depth = @ - 1, !.end = IF s.depth = 1 THEN i ELSE 0]
      BY <1>12, <2>3, Zenon DEF Look
    <3> QED
      BY <1>4, <1>9, <3>1, Zenon
  <2>4. CASE c # Quote /\ c # Open /\ c # Close
    BY <1>12, <2>4, Zenon DEF Look
  <2> QED
    BY <2>1, <2>2, <2>3, <2>4, Zenon
<1> QED
  BY <1>10, <1>11, <1>12, Zenon

LEMMA WalkType ==
  ASSUME NEW b, NEW S \in SUBSET Nat, 0 \in S, NEW m \in Nat,
         NEW f, Walk(b, f, S, UpTo(S, m)), NEW j \in UpTo(S, m)
  PROVE  f[j] \in SpanState(m)
<1> DEFINE T == {n \in Nat : \A i \in S : i <= n /\ i <= m => f[i] \in SpanState(m)}
<1>0. \A i \in S : i <= m => f[i] = IF i = 0 THEN Start ELSE Look(f[Before(S, i)], i, b[i])
  BY Zenon DEF Walk, UpTo
<1>1. Start \in SpanState(m)
  BY SMT DEF Start, SpanState
<1>2. 0 \in T
  <2>1. ASSUME NEW i \in S, i <= 0, i <= m PROVE f[i] \in SpanState(m)
    <3>1. i = 0
      BY <2>1
    <3>2. f[i] = Start
      BY <1>0, <2>1, <3>1, Zenon
    <3> QED
      BY <1>1, <3>2, Zenon
  <2> QED
    BY <2>1
<1>3. \A n \in Nat : n \in T => n + 1 \in T
  <2> SUFFICES ASSUME NEW n \in Nat, n \in T PROVE n + 1 \in T
    OBVIOUS
  <2>1. \A i \in S : i <= n /\ i <= m => f[i] \in SpanState(m)
    BY Zenon
  <2> HIDE DEF T
  <2>2. ASSUME NEW i \in S, i <= n + 1, i <= m PROVE f[i] \in SpanState(m)
    <3>1. CASE i = 0
      BY <1>0, <1>1, <2>2, <3>1, Zenon
    <3>2. CASE i # 0
      <4>1. PICK k \in Nat : k = Before(S, i) /\ k \in S /\ k < i
        BY <3>2, BeforeIs, Zenon
      <4>2. k <= n /\ k <= m /\ i \in 0 .. m
        BY <2>2, <4>1
      <4>3. f[k] \in SpanState(m)
        BY <2>1, <4>1, <4>2, Zenon
      <4>4. f[i] = Look(f[k], i, b[i])
        BY <1>0, <2>2, <3>2, <4>1, Zenon
      <4> QED
        BY <4>2, <4>3, <4>4, LookType, Zenon
    <3> QED
      BY <3>1, <3>2, Zenon
  <2>3. n + 1 \in Nat
    OBVIOUS
  <2> QED
    BY <2>2, <2>3, Zenon DEF T
<1>4. m \in T
  <2> HIDE DEF T
  <2> QED
    BY <1>2, <1>3, Induction
<1>5. m \in Nat /\ m <= m
  OBVIOUS
<1> QED
  BY <1>4, <1>5, Zenon DEF UpTo

(* S is where SpanEnd looks. *)
MarkSet(b) == {0} \cup Marks(b)

LEMMA MarksAre ==
  ASSUME NEW b \in Seq(Byte), Begin(b) # 0
  PROVE  /\ Begin(b) \in 1 .. Len(b) /\ b[Begin(b)] = Open
         /\ \A i \in 1 .. Len(b) : b[i] = Open => Begin(b) <= i
         /\ Begin(b) \in Marks(b) /\ Marks(b) \subseteq Begin(b) .. Len(b)
<1> DEFINE T == {i \in 1 .. Len(b) : b[i] = Open}
<1>1. T # {} /\ Begin(b) = Min(T)
  BY Zenon DEF Begin
<1>2. T \in SUBSET Nat
  BY LenProperties
<1>3. Min(T) \in T /\ \A y \in T : Min(T) <= y
  <2> HIDE DEF T
  <2> QED
    BY <1>1, <1>2, MinOf, Zenon
<1>4. PICK k \in 1 .. Len(b) : k = Begin(b) /\ b[k] = Open
  BY <1>1, <1>3, Zenon
<1>5. \A i \in 1 .. Len(b) : b[i] = Open => k <= i
  BY <1>1, <1>3, <1>4, Zenon
<1>6. k \in Begin(b) .. Len(b)
  BY <1>4
<1>7. k \in Marks(b)
  BY <1>4, <1>6, Zenon DEF Marks
<1>8. Marks(b) \subseteq Begin(b) .. Len(b)
  BY Zenon DEF Marks
<1> QED
  BY <1>4, <1>5, <1>7, <1>8, Zenon

LEMMA SpanEndIs ==
  ASSUME NEW b \in Seq(Byte), Begin(b) # 0
  PROVE  /\ MarkSet(b) \in SUBSET Nat /\ 0 \in MarkSet(b)
         /\ UpTo(MarkSet(b), Len(b)) = MarkSet(b) /\ Len(b) \in Nat
         /\ Max(Marks(b)) \in Marks(b) /\ \A k \in Marks(b) : k <= Max(Marks(b))
         /\ \E f : Walk(b, f, MarkSet(b), MarkSet(b)) /\ SpanEnd(b) = f[Max(Marks(b))].end
<1> DEFINE S == MarkSet(b)
<1>1. PICK m \in Nat : m = Len(b)
  BY LenProperties
<1>2. Marks(b) \in SUBSET Nat /\ Marks(b) # {} /\ \A k \in Marks(b) : k <= m
  <2>1. PICK p \in 1 .. m : p = Begin(b)
    BY <1>1, MarksAre
  <2>2. Marks(b) \subseteq p .. m
    BY <1>1, <2>1, MarksAre, Zenon
  <2>3. \A k \in p .. m : k \in Nat /\ k <= m
    BY <2>1
  <2> QED
    BY <2>2, <2>3, MarksAre, Zenon
<1>3. S \in SUBSET Nat /\ 0 \in S /\ \A k \in S : k <= m
  BY <1>2 DEF MarkSet
<1>4. UpTo(S, m) = S
  BY <1>3, Zenon DEF UpTo
<1>5. Max(Marks(b)) \in Marks(b) /\ \A k \in Marks(b) : k <= Max(Marks(b))
  BY <1>2, MaxOf, Zenon
<1> DEFINE g == CHOOSE f : Walk(b, f, S, S)
<1>6. Walk(b, g, S, S)
  <2>1. \E f : Walk(b, f, S, UpTo(S, m))
    BY <1>3, WalkExists, Zenon
  <2> QED
    BY <1>4, <2>1, Zenon
<1>7. SpanEnd(b) = g[Max(Marks(b))].end
  BY Zenon DEF SpanEnd, Walk, MarkSet, Before
<1> HIDE DEF g
<1> QED
  BY <1>1, <1>3, <1>4, <1>5, <1>6, <1>7, Zenon

LEMMA SpanIsInside ==
  ASSUME NEW b \in Seq(Byte), SpanEnd(b) > 0
  PROVE  Begin(b) \in Nat \ {0} /\ SpanEnd(b) \in Int /\ SpanEnd(b) <= Len(b)
<1>1. Begin(b) # 0
  <2>1. Begin(b) = 0 => SpanEnd(b) = 0
    BY Zenon DEF SpanEnd
  <2>2. ~ (0 > 0)
    OBVIOUS
  <2> QED
    BY <2>1, <2>2, Zenon
<1>2. Begin(b) \in Nat \ {0}
  <2>1. Begin(b) \in 1 .. Len(b)
    BY <1>1, MarksAre, Zenon
  <2> QED
    BY <2>1, LenProperties
<1>3. PICK m \in Nat : m = Len(b)
  BY LenProperties
<1>4. PICK f : Walk(b, f, MarkSet(b), MarkSet(b)) /\ SpanEnd(b) = f[Max(Marks(b))].end
  BY <1>1, SpanEndIs, Zenon
<1>5. Max(Marks(b)) \in UpTo(MarkSet(b), m) /\ Walk(b, f, MarkSet(b), UpTo(MarkSet(b), m))
  BY <1>1, <1>3, <1>4, SpanEndIs, Zenon DEF MarkSet
<1>6. f[Max(Marks(b))] \in SpanState(m)
  BY <1>1, <1>5, SpanEndIs, WalkType, Zenon
<1>7. f[Max(Marks(b))].end \in 0 .. m
  BY <1>6 DEF SpanState
<1>8. SpanEnd(b) \in 0 .. m
  BY <1>4, <1>7, Zenon
<1> QED
  BY <1>2, <1>3, <1>8

-----------------------------------------------------------------------------
(* What parse_login_body returns, in a layout it knows. *)

ClientIn(s, b) == Len(BeforeClient(s)) + s.client <= Len(b)

(* p is what parse_login_body should return. *)
RequestRight(s, b, p) ==
  /\ RequestIn(s, b) => p # Nothing /\ p.request /\ p.framing = s.layout
  /\ ~ RequestIn(s, b) => ~ (p # Nothing /\ p.request)

ClientRight(s, b, p) ==
  RequestIn(s, b) => p.client = IF ClientIn(s, b) THEN "blob" ELSE IF s.rawToken THEN "raw" ELSE "none"

LEMMA PrefixOfItself ==
  ASSUME NEW t \in Seq(Byte), NEW n \in Nat, n <= Len(t)
  PROVE  IsPrefix(SubSeq(t, 1, n), t)
<1>1. SubSeq(t, 1, n) \in Seq(Byte) /\ Len(SubSeq(t, 1, n)) = n
  BY Cut, Zenon
<1>2. PICK u \in Seq(Byte) : u = SubSeq(t, 1, n)
  BY <1>1, Zenon
<1>3. Len(u) = n
  BY <1>1, <1>2, Zenon
<1>4. SubSeq(u, 1, Len(u)) = u
  <2>1. n <= Len(u)
    BY <1>3
  <2>2. Len(SubSeq(u, 1, n)) = n /\ SubSeq(u, 1, n) \in Seq(Byte) /\ \A i \in 1 .. n : SubSeq(u, 1, n)[i] = u[i]
    BY <2>1, Cut, Zenon
  <2>3. SubSeq(u, 1, n) = u
    BY <1>3, <2>2, SeqEqual
  <2> QED
    BY <1>3, <2>3, Zenon
<1>5. SubSeq(t, 1, Len(u)) = u
  BY <1>2, <1>3, Zenon
<1>6. Len(u) <= Len(t)
  BY <1>3
<1> QED
  BY <1>2, <1>4, <1>5, <1>6, Zenon DEF IsPrefix

(* p is what is known from the request r and the client data c. *)
IsIdentity(p, f, r, c) ==
  p # Nothing /\ p.framing = f /\ (p.request <=> r = RequestText(sent)) /\ p.client = ClientOf(r, c)

LEMMA IdentityIs ==
  ASSUME NEW f \in Framings, NEW r, NEW c
  PROVE  IsIdentity(Identity(f, r, c), f, r, c)
<1>1. ClientOf(r, c) \in {"blob", "raw", "none"}
  BY DEF ClientOf
<1>2. PICK v \in BOOLEAN : v = (r = RequestText(sent))
  OBVIOUS
<1>3. Identity(f, r, c) = [framing |-> f, request |-> v, client |-> ClientOf(r, c)]
  BY <1>2, Zenon DEF Identity, FromRequest
<1>4. Identity(f, r, c) \in [framing : Framings, request : BOOLEAN, client : {"blob", "raw", "none"}]
  BY <1>1, <1>3
<1>5. Identity(f, r, c) # Nothing
  BY <1>4, LoginBodyAssumption, Zenon
<1>6. Identity(f, r, c).framing = f /\ Identity(f, r, c).request = v
      /\ Identity(f, r, c).client = ClientOf(r, c)
  BY <1>3
<1> QED
  BY <1>2, <1>5, <1>6 DEF IsIdentity

(* The request and the client data in the sender's framing. *)
LEMMA OwnFraming ==
  ASSUME sent \in Sent, KnownLayout(sent), Body(sent, body), RequestIn(sent, body)
  PROVE  /\ Request(body, sent.layout) = [text |-> RequestText(sent),
                                          next |-> Len(BeforeRequest(sent)) + sent.request + 1]
         /\ Accepts(body, sent.layout)
         /\ Blob(body, Len(BeforeRequest(sent)) + sent.request + 1, sent.layout).text =
              IF ClientIn(sent, body) THEN ClientText(sent) ELSE <<>>
<1>1. PICK r \in Nat : r = sent.request /\ r >= 14 /\ Len(RequestText(sent)) = r
  BY LoginTypes, PartTypes, Zenon
<1>2. Request(body, sent.layout) = [text |-> RequestText(sent),
                                    next |-> Len(BeforeRequest(sent)) + sent.request + 1]
  <2>1. IsBlob(body, Len(BeforeRequest(sent)), RequestText(sent), Request(body, sent.layout))
    BY RequestReads, Zenon
  <2> QED
    BY <1>1, <2>1, Zenon DEF IsBlob, RequestIn
<1>3. RequestText(sent)[1] = Open /\ RequestText(sent) # <<>>
  <2>1. \A i \in 1 .. r : RequestText(sent)[i] = RequestByte(r, i)
    BY <1>1, RequestTextIs, Zenon
  <2>2. 1 \in 1 .. r /\ RequestByte(r, 1) = Open
    BY <1>1, SMT DEF RequestByte
  <2> QED
    BY <1>1, <2>1, <2>2, EmptySeq
<1>4. Accepts(body, sent.layout)
  <2>1. Request(body, sent.layout).text = RequestText(sent)
    BY <1>2
  <2> QED
    BY <1>3, <2>1, Zenon DEF Accepts
<1>5. Blob(body, Len(BeforeRequest(sent)) + sent.request + 1, sent.layout).text =
        IF ClientIn(sent, body) THEN ClientText(sent) ELSE <<>>
  <2>1. PICK l : l = Blob(body, Len(BeforeRequest(sent)) + sent.request + 1, sent.layout)
    OBVIOUS
  <2>2. IsBlob(body, Len(BeforeClient(sent)), ClientText(sent), l)
    BY <2>1, ClientReads, Zenon
  <2>3. Len(ClientText(sent)) = sent.client
    BY PartTypes, Zenon
  <2>4. IF ClientIn(sent, body) THEN l = [text |-> ClientText(sent), next |-> Len(BeforeClient(sent)) + sent.client + 1]
        ELSE l = [text |-> <<>>, next |-> Len(body) + 1]
    BY <2>2, <2>3, Zenon DEF IsBlob, ClientIn
  <2>5. l.text = IF ClientIn(sent, body) THEN ClientText(sent) ELSE <<>>
    BY <2>4
  <2> QED
    BY <2>1, <2>5, Zenon
<1> QED
  BY <1>2, <1>4, <1>5, Zenon

LEMMA ClientOfIs ==
  ASSUME sent \in Sent
  PROVE  /\ ClientOf(RequestText(sent), ClientText(sent)) = "blob"
         /\ ClientOf(RequestText(sent), <<>>) = IF sent.rawToken THEN "raw" ELSE "none"
<1>1. PICK n \in Nat : n = sent.claims
  BY LoginTypes
<1>2. PICK k \in Nat : k = sent.client /\ k >= 3 /\ n <= k /\ Len(ClientText(sent)) = k
  BY <1>1, LoginTypes, PartTypes, Zenon
<1>3. ClientText(sent) # <<>>
  BY <1>2, EmptySeq
<1>4. IsPrefix(SubSeq(ClientText(sent), 1, n), ClientText(sent))
  BY <1>2, PartTypes, PrefixOfItself, Zenon
<1> QED
  BY <1>1, <1>3, <1>4, Zenon DEF ClientOf, FromRequest

LEMMA OwnIdentity ==
  ASSUME sent \in Sent, KnownLayout(sent), Body(sent, body), RequestIn(sent, body),
         NEW r, r = Request(body, sent.layout),
         NEW p, p = Identity(sent.layout, r.text, Blob(body, r.next, sent.layout).text)
  PROVE  RequestRight(sent, body, p) /\ ClientRight(sent, body, p)
<1>1. r.text = RequestText(sent) /\ r.next = Len(BeforeRequest(sent)) + sent.request + 1
  <2>1. r = [text |-> RequestText(sent), next |-> Len(BeforeRequest(sent)) + sent.request + 1]
    BY OwnFraming, Zenon
  <2> QED
    BY <2>1
<1>2. PICK c : c = IF ClientIn(sent, body) THEN ClientText(sent) ELSE <<>>
  OBVIOUS
<1>3. p = Identity(sent.layout, RequestText(sent), c)
  BY <1>1, <1>2, OwnFraming, Zenon
<1>4. sent.layout \in Framings
  BY DEF KnownLayout, Framings
<1>5. p # Nothing /\ p.framing = sent.layout /\ p.request /\ p.client = ClientOf(RequestText(sent), c)
  <2>1. IsIdentity(p, sent.layout, RequestText(sent), c)
    BY <1>3, <1>4, IdentityIs, Zenon
  <2> QED
    BY <2>1, Zenon DEF IsIdentity
<1>6. p.client = IF ClientIn(sent, body) THEN "blob" ELSE IF sent.rawToken THEN "raw" ELSE "none"
  BY <1>2, <1>5, ClientOfIs, Zenon
<1> QED
  BY <1>5, <1>6, Zenon DEF RequestRight, ClientRight

LEMMA CutIdentity ==
  ASSUME sent \in Sent, KnownLayout(sent), Body(sent, body), ~ RequestIn(sent, body),
         NEW f \in Framings, NEW t, IsSlice(body, t), NEW c, NEW p, p = Identity(f, t, c)
  PROVE  RequestRight(sent, body, p) /\ ClientRight(sent, body, p)
<1>1. t # RequestText(sent)
  <2>1. PICK s \in Sent : s = sent
    OBVIOUS
  <2>2. KnownLayout(s) /\ Body(s, body) /\ ~ RequestIn(s, body)
    BY <2>1, Zenon
  <2>3. t # RequestText(s)
    BY <2>2, CutIsNoSlice, Zenon
  <2> QED
    BY <2>1, <2>3, Zenon
<1>2. ~ p.request
  <2>1. IsIdentity(p, f, t, c)
    BY IdentityIs, Zenon
  <2> QED
    BY <1>1, <2>1, Zenon DEF IsIdentity
<1> QED
  BY <1>2, Zenon DEF RequestRight, ClientRight

-----------------------------------------------------------------------------
(* The inductive invariant: a framing is left only if it is not the sender's, or the      *)
(* request did not arrive.                                                                *)

Attempts ==
  /\ trying \in {"le", "varuint32", "scan", "done"}
  /\ trying = "varuint32" /\ KnownLayout(sent) /\ RequestIn(sent, body) => sent.layout = "varuint32"
  /\ trying = "scan" => ~ (KnownLayout(sent) /\ RequestIn(sent, body))

Result ==
  trying = "done" /\ KnownLayout(sent) => RequestRight(sent, body, parsed) /\ ClientRight(sent, body, parsed)

IInv == sent \in Sent /\ Body(sent, body) /\ Attempts /\ Result

LEMMA InitIInv == Init => IInv
<1> SUFFICES ASSUME Init PROVE IInv
  OBVIOUS
<1>1. sent \in Sent /\ body \in Arrivals(sent) /\ trying = "le"
  BY DEF Init
<1>2. Body(sent, body)
  <2>1. PICK s \in Sent : s = sent
    BY <1>1
  <2>2. Body(s, body)
    BY <1>1, <2>1, ArrivalsAreBodies, Zenon
  <2> QED
    BY <2>1, <2>2, Zenon
<1>3. trying # "varuint32" /\ trying # "scan" /\ trying # "done" /\ trying \in {"le", "varuint32", "scan", "done"}
  BY <1>1
<1> QED
  BY <1>1, <1>2, <1>3, Zenon DEF IInv, Attempts, Result

(* A body that is returned is one whose result is right. *)
LEMMA Returned ==
  ASSUME IInv, NEW p, Return(p),
         KnownLayout(sent) => RequestRight(sent, body, p) /\ ClientRight(sent, body, p)
  PROVE  IInv'
<1>1. sent' = sent /\ body' = body /\ trying' = "done" /\ parsed' = p
  BY DEF Return
<1>2. (sent \in Sent /\ Body(sent, body))'
  BY <1>1, Zenon DEF IInv
<1>3. Attempts'
  <2>1. "done" # "varuint32" /\ "done" # "scan" /\ "done" \in {"le", "varuint32", "scan", "done"}
    OBVIOUS
  <2> QED
    BY <1>1, <2>1, Zenon DEF Attempts
<1>4. Result'
  BY <1>1, Zenon DEF Result
<1> QED
  BY <1>2, <1>3, <1>4, Zenon DEF IInv

LEMMA TooShortKeeps == IInv /\ TooShort => IInv'
<1> SUFFICES ASSUME IInv, TooShort PROVE IInv'
  OBVIOUS
<1>1. Return(Nothing) /\ Len(body) < 6
  BY DEF TooShort
<1>2. ASSUME KnownLayout(sent) PROVE ~ RequestIn(sent, body)
  <2>1. sent \in Sent /\ Body(sent, body)
    BY Zenon DEF IInv
  <2>2. PICK r \in Nat : r = sent.request /\ r >= 14
    BY <2>1, LoginTypes, Zenon
  <2>3. PICK v \in 1 .. 4 : v = Len(Size(sent)) /\ Len(ProtocolOf(sent)) = 4
    <3>1. PICK s \in Sent : s = sent
      BY <2>1
    <3>2. Len(Size(s)) \in 1 .. 4 /\ Len(ProtocolOf(s)) = 4
      BY <1>2, <2>1, <3>1, KnownLengths, Zenon
    <3> QED
      BY <3>1, <3>2, Zenon
  <2>4. PICK q \in 1 .. 4 : q = Len(RequestPrefix(sent))
    BY <2>1, PartTypes, Zenon
  <2>5. Len(BeforeRequest(sent)) = 4 + v + q
    BY <2>1, <2>3, <2>4, Lengths, Zenon
  <2>6. PICK m \in Nat : m = Len(body)
    BY <2>1, LenProperties DEF Body
  <2>7. ~ (4 + v + q + r <= m)
    BY <1>1, <2>2, <2>6
  <2> QED
    BY <2>2, <2>5, <2>6, <2>7, Zenon DEF RequestIn
<1>3. KnownLayout(sent) => RequestRight(sent, body, Nothing) /\ ClientRight(sent, body, Nothing)
  BY <1>2, Zenon DEF RequestRight, ClientRight
<1> QED
  BY <1>1, <1>3, Returned, Zenon

LEMMA AcceptKeeps ==
  ASSUME NEW inner, KnownFraming(inner), IInv, Accept(inner)
  PROVE  IInv'
<1>1. PICK r : r = Request(body, inner)
  OBVIOUS
<1>2. PICK p : p = Identity(inner, r.text, Blob(body, r.next, inner).text)
  OBVIOUS
<1>3. trying = inner /\ Accepts(body, inner) /\ Return(p)
  BY <1>1, <1>2, Zenon DEF Accept
<1>4. sent \in Sent /\ Body(sent, body) /\ body \in Seq(Byte) /\ inner \in Framings
  <2>1. inner \in Framings
    BY DEF KnownFraming, Framings
  <2> QED
    BY <2>1, Zenon DEF IInv, Body
<1>5. ASSUME KnownLayout(sent), RequestIn(sent, body) PROVE inner = sent.layout
  <2>1. CASE inner = "varuint32"
    BY <1>3, <1>5, <2>1, Zenon DEF IInv, Attempts
  <2>2. CASE inner = "le" /\ sent.layout = "varuint32"
    <3>1. PICK s \in Sent : s = sent
      BY <1>4
    <3>2. Request(body, "le").text = <<>>
      BY <1>4, <1>5, <2>2, <3>1, OtherRefused, Zenon
    <3> QED
      BY <1>3, <2>2, <3>2, Zenon DEF Accepts
  <2> QED
    BY <1>5, <2>1, <2>2, Zenon DEF KnownLayout, KnownFraming
<1>6. ASSUME KnownLayout(sent)
      PROVE  RequestRight(sent, body, p) /\ ClientRight(sent, body, p)
  <2>1. CASE RequestIn(sent, body)
    BY <1>1, <1>2, <1>4, <1>5, <1>6, <2>1, OwnIdentity, Zenon
  <2>2. CASE ~ RequestIn(sent, body)
    <3>1. IsSlice(body, r.text)
      BY <1>1, <1>4, RequestIsSlice, Zenon
    <3> QED
      BY <1>2, <1>4, <1>6, <2>2, <3>1, CutIdentity, Zenon
  <2> QED
    BY <2>1, <2>2, Zenon
<1> QED
  BY <1>3, <1>6, Returned, Zenon

LEMMA TryNextKeeps ==
  ASSUME NEW inner, NEW then, IInv, TryNext(inner, then),
         \/ inner = "le" /\ then = "varuint32"
         \/ inner = "varuint32" /\ then = "scan"
  PROVE  IInv'
<1>1. /\ trying = inner /\ ~ Accepts(body, inner)
      /\ trying' = then /\ sent' = sent /\ body' = body /\ parsed' = parsed
  BY Zenon DEF TryNext
<1>2. sent \in Sent /\ Body(sent, body)
  BY Zenon DEF IInv
<1>3. ASSUME KnownLayout(sent), RequestIn(sent, body) PROVE sent.layout # inner
  BY <1>1, <1>2, <1>3, OwnFraming, Zenon
<1>4. (sent \in Sent /\ Body(sent, body))'
  BY <1>1, <1>2, Zenon
<1>5. CASE inner = "le" /\ then = "varuint32"
  <2>1. /\ "varuint32" # "scan" /\ "varuint32" # "done"
        /\ "varuint32" \in {"le", "varuint32", "scan", "done"}
    OBVIOUS
  <2>2. Attempts'
    BY <1>1, <1>3, <1>5, <2>1, Zenon DEF Attempts, KnownLayout
  <2>3. Result'
    BY <1>1, <1>5, <2>1, Zenon DEF Result
  <2> QED
    BY <1>4, <2>2, <2>3, Zenon DEF IInv
<1>6. CASE inner = "varuint32" /\ then = "scan"
  <2>1. /\ "scan" # "varuint32" /\ "scan" # "done"
        /\ "scan" \in {"le", "varuint32", "scan", "done"}
    OBVIOUS
  <2>2. KnownLayout(sent) /\ RequestIn(sent, body) => sent.layout = "varuint32"
    BY <1>1, <1>6, Zenon DEF IInv, Attempts
  <2>3. Attempts'
    BY <1>1, <1>3, <1>6, <2>1, <2>2, Zenon DEF Attempts
  <2>4. Result'
    BY <1>1, <1>6, <2>1, Zenon DEF Result
  <2> QED
    BY <1>4, <2>3, <2>4, Zenon DEF IInv
<1> QED
  BY <1>5, <1>6, Zenon

LEMMA ScanFailsKeeps == IInv /\ ScanFails => IInv'
<1> SUFFICES ASSUME IInv, ScanFails PROVE IInv'
  OBVIOUS
<1>1. trying = "scan" /\ Return(Nothing)
  BY DEF ScanFails
<1>2. KnownLayout(sent) => ~ RequestIn(sent, body)
  BY <1>1, Zenon DEF IInv, Attempts
<1>3. KnownLayout(sent) => RequestRight(sent, body, Nothing) /\ ClientRight(sent, body, Nothing)
  BY <1>2, Zenon DEF RequestRight, ClientRight
<1> QED
  BY <1>1, <1>3, Returned, Zenon

LEMMA ScanKeeps == IInv /\ Scan => IInv'
<1> SUFFICES ASSUME IInv, Scan PROVE IInv'
  OBVIOUS
<1>1. PICK t : t = SubSeq(body, Begin(body), SpanEnd(body))
  OBVIOUS
<1>2. PICK c : c = NextJwt(SubSeq(body, SpanEnd(body) + 1, Len(body)))
  OBVIOUS
<1>3. PICK p : p = Identity("scan", t, c)
  OBVIOUS
<1>4. trying = "scan" /\ SpanEnd(body) > 0 /\ Return(p)
  BY <1>1, <1>2, <1>3, Zenon DEF Scan
<1>5. sent \in Sent /\ Body(sent, body) /\ body \in Seq(Byte) /\ "scan" \in Framings
  <2>1. "scan" \in Framings
    BY DEF Framings
  <2> QED
    BY <2>1, Zenon DEF IInv, Body
<1>6. KnownLayout(sent) => ~ RequestIn(sent, body)
  BY <1>4, Zenon DEF IInv, Attempts
<1>7. IsSlice(body, t)
  BY <1>1, <1>4, <1>5, SpanIsInside, Zenon DEF IsSlice
<1>8. KnownLayout(sent) => RequestRight(sent, body, p) /\ ClientRight(sent, body, p)
  BY <1>3, <1>5, <1>6, <1>7, CutIdentity, Zenon
<1> QED
  BY <1>4, <1>8, Returned, Zenon

LEMMA NextIInv == IInv /\ [Next]_vars => IInv'
<1> SUFFICES ASSUME IInv, [Next]_vars PROVE IInv'
  OBVIOUS
<1>1. CASE TooShort
  BY <1>1, TooShortKeeps, Zenon
<1>2. CASE Accept("le") \/ Accept("varuint32")
  BY <1>2, AcceptKeeps, Zenon DEF KnownFraming
<1>3. CASE TryNext("le", "varuint32") \/ TryNext("varuint32", "scan")
  BY <1>3, TryNextKeeps, Zenon
<1>4. CASE Scan
  BY <1>4, ScanKeeps, Zenon
<1>5. CASE ScanFails
  BY <1>5, ScanFailsKeeps, Zenon
<1>6. CASE UNCHANGED vars
  BY <1>6, Zenon DEF vars, IInv, Attempts, Result
<1>7. CASE Done
  BY <1>6, <1>7, Zenon DEF Done
<1> QED
  BY <1>1, <1>2, <1>3, <1>4, <1>5, <1>6, <1>7, Zenon DEF Next

LEMMA IInvRight == IInv => RequestIsRead /\ ClientIsRead
<1> SUFFICES ASSUME IInv PROVE RequestIsRead /\ ClientIsRead
  OBVIOUS
<1>1. sent \in Sent /\ Body(sent, body)
  BY Zenon DEF IInv
<1>2. PICK m \in Nat : m = Len(body)
  BY <1>1, LenProperties DEF Body
<1>3. PICK n \in Nat : n = Len(BeforeRequest(sent)) + sent.request
  <2>1. /\ Len(ProtocolOf(sent)) \in Nat /\ Len(Size(sent)) \in Nat /\ Len(RequestPrefix(sent)) \in Nat
        /\ sent.request \in Nat
    BY <1>1, PartTypes, LoginTypes, LenProperties
  <2> QED
    BY <1>1, <2>1, Lengths
<1>4. PICK k \in Nat : k = Len(BeforeClient(sent)) + sent.client
  <2>1. Len(ClientPrefix(sent)) \in Nat /\ sent.client \in Nat
    BY <1>1, PartTypes, LoginTypes
  <2> QED
    BY <1>1, <1>3, <2>1, Lengths
<1>5. (RequestArrived <=> RequestIn(sent, body)) /\ (ClientArrived <=> ClientIn(sent, body))
  <2>1. (m >= n <=> n <= m) /\ (m >= k <=> k <= m)
    OBVIOUS
  <2> QED
    BY <1>2, <1>3, <1>4, <2>1, Zenon DEF RequestArrived, RequestIn, ClientArrived, ClientIn
<1>6. Known <=> KnownLayout(sent)
  BY Zenon DEF Known, KnownLayout
<1>7. RequestIsRead
  BY <1>5, <1>6, Zenon DEF IInv, Result, RequestRight, RequestIsRead, Read
<1>8. ClientIsRead
  BY <1>5, <1>6, Zenon DEF IInv, Result, ClientRight, ClientIsRead
<1> QED
  BY <1>7, <1>8

-----------------------------------------------------------------------------
(* For requests and client data of any length, in a body of less than 16 MB: in either of *)
(* the layouts parse_login_body knows, and wherever the body ends, the XUID and the name  *)
(* are read if and only if the request arrived as a whole, in the sender's framing.       *)
THEOREM RequestReadAlways == Spec => []RequestIsRead
<1>1. IInv => RequestIsRead
  BY IInvRight, Zenon
<1> QED
  BY InitIInv, NextIInv, <1>1, PTL DEF Spec

(* ... and the SelfSignedId is that of the client data if that arrived, and else that of  *)
(* the request (login_body.py:140).                                                       *)
THEOREM ClientReadAlways == Spec => []ClientIsRead
<1>1. IInv => ClientIsRead
  BY IInvRight, Zenon
<1> QED
  BY InitIInv, NextIInv, <1>1, PTL DEF Spec

-----------------------------------------------------------------------------
(* The scan finds the request, whatever comes before it and after it, unless a brace does *)
(* come before it.                                                                        *)

(* The request is in b, at at, and no brace before it. *)
Found(b, at, r) ==
  /\ b \in Seq(Byte) /\ at \in Nat /\ r \in Nat /\ r >= 14 /\ at + r <= Len(b)
  /\ \A i \in 1 .. at : b[i] # Open
  /\ \A k \in 1 .. r : b[at + k] = RequestByte(r, k)

LEMMA BeginIs ==
  ASSUME NEW b, NEW at, NEW r, Found(b, at, r)
  PROVE  Begin(b) # 0 /\ Begin(b) = at + 1
<1>1. PICK m \in Nat : m = Len(b)
  BY LenProperties DEF Found
<1>2. at \in Nat /\ r \in Nat /\ r >= 14 /\ at + r <= m /\ b \in Seq(Byte)
  BY <1>1, Zenon DEF Found
<1>3. at + 1 \in 1 .. m /\ 1 \in 1 .. r
  BY <1>2
<1>4. b[at + 1] = Open
  <2>1. b[at + 1] = RequestByte(r, 1)
    BY <1>3, Zenon DEF Found
  <2>2. RequestByte(r, 1) = Open
    BY <1>2, SMT DEF RequestByte
  <2> QED
    BY <2>1, <2>2, Zenon
<1> DEFINE T == {i \in 1 .. Len(b) : b[i] = Open}
<1>5. at + 1 \in T /\ T \in SUBSET Nat
  BY <1>1, <1>3, <1>4
<1>6. Begin(b) = Min(T)
  BY <1>5, Zenon DEF Begin
<1>7. ASSUME NEW y \in T PROVE at + 1 <= y
  <2>1. y \in 1 .. m /\ b[y] = Open
    BY <1>1, Zenon
  <2>2. ~ (y \in 1 .. at)
    BY <2>1, Zenon DEF Found
  <2> QED
    BY <1>2, <2>1, <2>2
<1>8. Min(T) = at + 1
  <2>1. T \in SUBSET Int
    BY <1>5
  <2> HIDE DEF T
  <2> QED
    BY <1>5, <1>7, <2>1, MinIs, Zenon
<1>9. at + 1 # 0
  BY <1>2
<1> QED
  BY <1>6, <1>8, <1>9, Zenon

(* The marks in the request: its front, and its last two characters. *)
LEMMA RequestMarks ==
  ASSUME NEW b, NEW at, NEW r, Found(b, at, r), NEW k \in 1 .. r
  PROVE  at + k \in Marks(b) <=> k \in 1 .. 9 \/ k = r - 1 \/ k = r
<1>1. PICK m \in Nat : m = Len(b)
  BY LenProperties DEF Found
<1>2. at \in Nat /\ r \in Nat /\ r >= 14 /\ at + r <= m
  BY <1>1, Zenon DEF Found
<1>3. Begin(b) = at + 1
  BY BeginIs, Zenon
<1>4. at + k \in at + 1 .. m
  BY <1>2
<1>5. b[at + k] = RequestByte(r, k)
  BY Zenon DEF Found
<1>6. CASE k \in 1 .. 9 \/ k = r - 1 \/ k = r
  <2>1. RequestByte(r, k) \in {Open, Close, Quote, Backslash}
    BY <1>2, <1>6, SMT DEF RequestByte, Open, Close, Quote, Backslash
  <2> QED
    BY <1>1, <1>3, <1>4, <1>5, <1>6, <2>1, Zenon DEF Marks
<1>7. CASE ~ (k \in 1 .. 9 \/ k = r - 1 \/ k = r)
  <2>1. RequestByte(r, k) \notin {Open, Close, Quote, Backslash}
    BY <1>2, <1>7, SMT DEF RequestByte, Open, Close, Quote, Backslash
  <2>2. k - 1 \in 1 .. r
    BY <1>2, <1>7
  <2>4. RequestByte(r, k - 1) # Backslash
    BY <1>2, <1>7, SMT DEF RequestByte, Open, Close, Quote, Backslash
  <2>6. PICK x \in Nat : x = at + k
    BY <1>2
  <2>5. x - 1 = at + (k - 1)
    BY <1>2, <2>6
  <2>7. b[x] = RequestByte(r, k) /\ b[x - 1] = RequestByte(r, k - 1)
    <3>1. at + k = x /\ at + (k - 1) = x - 1
      BY <2>5, <2>6
    <3>2. b[at + (k - 1)] = RequestByte(r, k - 1)
      BY <2>2, Zenon DEF Found
    <3> QED
      BY <1>5, <3>1, <3>2, Zenon
  <2>8. b[x] \notin {Open, Close, Quote, Backslash} /\ b[x - 1] # Backslash
    BY <2>1, <2>4, <2>7, Zenon
  <2>9. x \notin Marks(b)
    BY <2>8, Zenon DEF Marks
  <2> QED
    BY <1>7, <2>6, <2>9, Zenon
<1> QED
  BY <1>6, <1>7, Zenon

LEMMA BeforeThis ==
  ASSUME NEW S \in SUBSET Nat, NEW i, NEW j \in S, j < i, \A k \in S : k < i => k <= j
  PROVE  Before(S, i) = j
<1> DEFINE T == {k \in S : k < i}
<1>1. j \in T /\ T \in SUBSET Nat /\ \A k \in T : k <= j
  BY Zenon
<1>2. Max(T) \in T /\ \A y \in T : y <= Max(T)
  <2>1. j \in Nat
    OBVIOUS
  <2> HIDE DEF T
  <2> QED
    BY <1>1, <2>1, MaxOf, Zenon
<1>3. Max(T) = j
  <2>1. PICK x \in Nat : x = Max(T)
    BY <1>1, <1>2, Zenon
  <2>2. x <= j /\ j <= x /\ j \in Nat
    BY <1>1, <1>2, <2>1, Zenon
  <2>3. x = j
    BY <2>2
  <2> QED
    BY <2>1, <2>3, Zenon
<1> QED
  BY <1>3, Zenon DEF Before

LEMMA RequestBefores ==
  ASSUME NEW b, NEW at, NEW r, Found(b, at, r), MarkSet(b) \in SUBSET Nat
  PROVE  /\ Before(MarkSet(b), at + 1) = 0
         /\ \A k \in 2 .. 9 : Before(MarkSet(b), at + k) = at + (k - 1)
         /\ Before(MarkSet(b), at + (r - 1)) = at + 9
         /\ Before(MarkSet(b), at + r) = at + (r - 1)
<1> DEFINE S == MarkSet(b)
<1>1. at \in Nat /\ r \in Nat /\ r >= 14 /\ b \in Seq(Byte)
  BY Zenon DEF Found
<1>2. \A k \in S : k = 0 \/ k >= at + 1
  <2>1. Begin(b) # 0 /\ Begin(b) = at + 1
    BY BeginIs, Zenon
  <2>2. Marks(b) \subseteq at + 1 .. Len(b)
    BY <1>1, <2>1, MarksAre, Zenon
  <2>3. PICK m \in Nat : m = Len(b)
    BY <1>1, LenProperties
  <2>4. \A k \in at + 1 .. m : k >= at + 1
    BY <1>1
  <2> QED
    BY <2>2, <2>3, <2>4, Zenon DEF MarkSet
<1>3. ASSUME NEW k \in S, k # 0, NEW n \in 1 .. r, k <= at + n
      PROVE  \E j \in 1 .. n : k = at + j /\ (j \in 1 .. 9 \/ j = r - 1 \/ j = r)
  <2>1. k \in Marks(b) /\ k >= at + 1 /\ k \in Nat
    BY <1>2, <1>3, Zenon DEF MarkSet
  <2>2. PICK j \in 1 .. n : k = at + j
    <3>1. k - at \in 1 .. n /\ k = at + (k - at)
      BY <1>1, <1>3, <2>1
    <3> QED
      BY <3>1, Zenon
  <2>3. j \in 1 .. r
    BY <1>1
  <2>4. j \in 1 .. 9 \/ j = r - 1 \/ j = r
    BY <2>1, <2>2, <2>3, RequestMarks, Zenon
  <2> QED
    BY <2>2, <2>4, Zenon
<1>4. ASSUME NEW k \in 1 .. r, k \in 1 .. 9 \/ k = r - 1 \/ k = r PROVE at + k \in S
  BY <1>4, RequestMarks, Zenon DEF MarkSet
<1>5. S \in SUBSET Nat
  OBVIOUS
<1> HIDE DEF S
(* Before a mark is the mark that no other one is between. *)
<1>6. ASSUME NEW n \in 1 .. r, NEW j \in 1 .. r, j < n, j \in 1 .. 9 \/ j = r - 1,
             \A i \in 1 .. n : (i \in 1 .. 9 \/ i = r - 1 \/ i = r) /\ i < n => i <= j
      PROVE  Before(S, at + n) = at + j
  <2>1. at + j \in S /\ at + j < at + n
    BY <1>1, <1>4, <1>6
  <2>2. ASSUME NEW k \in S, k < at + n PROVE k <= at + j
    <3>1. CASE k = 0
      BY <1>1, <3>1
    <3>2. CASE k # 0
      <4>1. k <= at + n
        BY <1>1, <1>5, <2>2
      <4>2. PICK i \in 1 .. n : k = at + i /\ (i \in 1 .. 9 \/ i = r - 1 \/ i = r)
        BY <1>3, <3>2, <4>1, Zenon
      <4>3. i < n
        BY <1>1, <2>2, <4>2
      <4>4. i <= j
        BY <1>6, <4>2, <4>3, Zenon
      <4> QED
        BY <1>1, <4>2, <4>4
    <3> QED
      BY <3>1, <3>2
  <2> QED
    BY <1>5, <2>1, <2>2, BeforeThis, Zenon
<1>7. Before(S, at + 1) = 0
  <2>1. 0 \in S /\ 0 < at + 1
    BY <1>1 DEF S, MarkSet
  <2>2. ASSUME NEW k \in S, k < at + 1 PROVE k <= 0
    BY <1>1, <1>2, <1>5, <2>2
  <2> QED
    BY <1>5, <2>1, <2>2, BeforeThis, Zenon
<1>8. ASSUME NEW k \in 2 .. 9 PROVE Before(S, at + k) = at + (k - 1)
  <2>1. /\ k \in 1 .. r /\ k - 1 \in 1 .. r /\ k - 1 < k /\ k - 1 \in 1 .. 9
        /\ \A i \in 1 .. k : (i \in 1 .. 9 \/ i = r - 1 \/ i = r) /\ i < k => i <= k - 1
    BY <1>1
  <2> QED
    BY <1>6, <2>1, Zenon
<1>9. Before(S, at + (r - 1)) = at + 9
  <2>1. /\ r - 1 \in 1 .. r /\ 9 \in 1 .. r /\ 9 < r - 1 /\ 9 \in 1 .. 9
        /\ \A i \in 1 .. r - 1 : (i \in 1 .. 9 \/ i = r - 1 \/ i = r) /\ i < r - 1 => i <= 9
    BY <1>1
  <2> QED
    BY <1>6, <2>1, Zenon
<1>10. Before(S, at + r) = at + (r - 1)
  <2>1. /\ r \in 1 .. r /\ r - 1 \in 1 .. r /\ r - 1 < r
        /\ \A i \in 1 .. r : (i \in 1 .. 9 \/ i = r - 1 \/ i = r) /\ i < r => i <= r - 1
    BY <1>1
  <2> QED
    BY <1>6, <2>1, Zenon
<1> QED
  BY <1>7, <1>8, <1>9, <1>10, Zenon DEF S

-----------------------------------------------------------------------------
(* The loop over the marks of a request that was found: the states it goes through. *)

St(d, q, e, n) == [depth |-> d, inString |-> q, escaped |-> e, end |-> n]
Same(s, t) == s = t

LEMMA StateIs ==
  ASSUME NEW m \in Nat, NEW s \in SpanState(m)
  PROVE  Same(s, St(s.depth, s.inString, s.escaped, s.end))
BY SMT DEF SpanState, St, Same

LEMMA StringSet ==
  ASSUME NEW m \in Nat, NEW s \in SpanState(m), NEW v \in BOOLEAN, NEW w \in BOOLEAN
  PROVE  Same([s EXCEPT !.inString = v, !.escaped = w], St(s.depth, v, w, s.end))
<1>1. PICK t \in SpanState(m) : t = [s EXCEPT !.inString = v, !.escaped = w]
  <2>1. [s EXCEPT !.inString = v, !.escaped = w] \in SpanState(m)
    BY DEF SpanState
  <2> QED
    BY <2>1, Zenon
<1>2. t.depth = s.depth /\ t.inString = v /\ t.escaped = w /\ t.end = s.end
  BY <1>1, SMT DEF SpanState
<1>3. Same(t, St(t.depth, t.inString, t.escaped, t.end))
  BY StateIs, Zenon
<1> QED
  BY <1>1, <1>2, <1>3, Zenon
LEMMA DepthSet ==
  ASSUME NEW m \in Nat, NEW s \in SpanState(m), NEW x \in Int, NEW n \in 0 .. m
  PROVE  /\ Same([s EXCEPT !.depth = x], St(x, s.inString, s.escaped, s.end))
         /\ Same([s EXCEPT !.depth = x, !.end = n], St(x, s.inString, s.escaped, n))
<1>1. PICK t \in SpanState(m) : t = [s EXCEPT !.depth = x]
  <2>1. [s EXCEPT !.depth = x] \in SpanState(m)
    BY DEF SpanState
  <2> QED
    BY <2>1, Zenon
<1>2. t.depth = x /\ t.inString = s.inString /\ t.escaped = s.escaped /\ t.end = s.end
  BY <1>1, SMT DEF SpanState
<1>3. PICK u \in SpanState(m) : u = [s EXCEPT !.depth = x, !.end = n]
  <2>1. [s EXCEPT !.depth = x, !.end = n] \in SpanState(m)
    BY DEF SpanState
  <2> QED
    BY <2>1, Zenon
<1>4. u.depth = x /\ u.inString = s.inString /\ u.escaped = s.escaped /\ u.end = n
  BY <1>3, SMT DEF SpanState
<1>5. Same(t, St(t.depth, t.inString, t.escaped, t.end))
      /\ Same(u, St(u.depth, u.inString, u.escaped, u.end))
  BY StateIs, Zenon
<1> QED
  BY <1>1, <1>2, <1>3, <1>4, <1>5, Zenon

LEMMA StringStarts ==
  ASSUME NEW m \in Nat, NEW s \in SpanState(m)
  PROVE  Same([s EXCEPT !.inString = TRUE], St(s.depth, TRUE, s.escaped, s.end))
<1>1. PICK t \in SpanState(m) : t = [s EXCEPT !.inString = TRUE]
  <2>1. [s EXCEPT !.inString = TRUE] \in SpanState(m)
    BY DEF SpanState
  <2> QED
    BY <2>1, Zenon
<1>2. t.depth = s.depth /\ t.inString = TRUE /\ t.escaped = s.escaped /\ t.end = s.end
  BY <1>1, SMT DEF SpanState
<1>3. Same(t, St(t.depth, t.inString, t.escaped, t.end))
  BY StateIs, Zenon
<1> QED
  BY <1>1, <1>2, <1>3, Zenon

(* s is that state. *)
State(s, m, d, q, e, n) ==
  /\ s \in SpanState(m) /\ s = St(d, q, e, n)
  /\ s.depth = d /\ s.inString = q /\ s.escaped = e /\ s.end = n

LEMMA StIsState ==
  ASSUME NEW m \in Nat, NEW d \in Int, NEW q \in BOOLEAN, NEW e \in BOOLEAN, NEW n \in 0 .. m
  PROVE  State(St(d, q, e, n), m, d, q, e, n)
<1>1. St(d, q, e, n) \in SpanState(m)
  BY SMT DEF St, SpanState
<1>2. /\ St(d, q, e, n).depth = d /\ St(d, q, e, n).inString = q
      /\ St(d, q, e, n).escaped = e /\ St(d, q, e, n).end = n
  BY SMT DEF St
<1> QED
  BY <1>1, <1>2, Zenon DEF State


Precedes(S, i, j) == i \in S /\ i # 0 /\ Before(S, i) = j
ByteAt(b, i, c) == b[i] = c
Reaches(f, i, s) == f[i] = s
Turns(s, i, c, t) == Look(s, i, c) = t

LEMMA WalkStep ==
  ASSUME NEW b, NEW f, NEW S, Walk(b, f, S, S), NEW i, NEW j, Precedes(S, i, j),
         NEW s, Reaches(f, j, s), NEW c, ByteAt(b, i, c), NEW t, Turns(s, i, c, t)
  PROVE  Reaches(f, i, t)
<1>1. i \in S /\ i # 0 /\ Before(S, i) = j
  BY Zenon DEF Precedes
<1>2. f[i] = Look(f[Before(S, i)], i, b[i])
  BY <1>1, Zenon DEF Walk
<1>3. f[j] = s /\ b[i] = c /\ Look(s, i, c) = t
  BY Zenon DEF Reaches, ByteAt, Turns
<1> QED
  BY <1>1, <1>2, <1>3, Zenon DEF Reaches

LEMMA StartIs == Start = St(0, FALSE, FALSE, 0)
BY Zenon DEF Start, St

LEMMA OpenTurns ==
  ASSUME NEW m \in Nat, NEW d \in Int, NEW i, NEW x \in Int, x = d + 1
  PROVE  Turns(St(d, FALSE, FALSE, 0), i, Open, St(x, FALSE, FALSE, 0))
<1>1. 0 \in 0 .. m /\ FALSE \in BOOLEAN
  OBVIOUS
<1>2. PICK s : State(s, m, d, FALSE, FALSE, 0)
  BY <1>1, StIsState, Zenon
<1>3. /\ s \in SpanState(m) /\ s = St(d, FALSE, FALSE, 0)
      /\ s.depth = d /\ s.inString = FALSE /\ s.escaped = FALSE /\ s.end = 0
  BY <1>2, Zenon DEF State
<1>4. ~ (s.end > 0) /\ ~ s.inString /\ Open # Quote
  <2>1. ~ (0 > 0) /\ Open # Quote
    BY SMT DEF Open, Quote
  <2> QED
    BY <1>3, <2>1, Zenon
<1>5. Look(s, i, Open) = [s EXCEPT !.depth = s.depth + 1]
  BY <1>4, Zenon DEF Look
<1>6. Look(s, i, Open) = [s EXCEPT !.depth = x]
  BY <1>3, <1>5, Zenon
<1>7. Same([s EXCEPT !.depth = x], St(x, s.inString, s.escaped, s.end))
  BY <1>1, <1>3, DepthSet, Zenon
<1> QED
  BY <1>3, <1>6, <1>7, Zenon DEF Turns, Same

LEMMA CloseTurns ==
  ASSUME NEW m \in Nat, NEW d \in Int, NEW i \in 0 .. m, NEW x \in Int, x = d - 1,
         NEW n, n = (IF d = 1 THEN i ELSE 0)
  PROVE  Turns(St(d, FALSE, FALSE, 0), i, Close, St(x, FALSE, FALSE, n))
<1>1. 0 \in 0 .. m /\ FALSE \in BOOLEAN /\ n \in 0 .. m
  OBVIOUS
<1>2. PICK s : State(s, m, d, FALSE, FALSE, 0)
  BY <1>1, StIsState, Zenon
<1>3. /\ s \in SpanState(m) /\ s = St(d, FALSE, FALSE, 0)
      /\ s.depth = d /\ s.inString = FALSE /\ s.escaped = FALSE /\ s.end = 0
  BY <1>2, Zenon DEF State
<1>4. ~ (s.end > 0) /\ ~ s.inString /\ Close # Quote /\ Close # Open
  <2>1. ~ (0 > 0) /\ Close # Quote /\ Close # Open
    BY SMT DEF Open, Close, Quote
  <2> QED
    BY <1>3, <2>1, Zenon
<1>5. Look(s, i, Close) = [s EXCEPT !.depth = s.depth - 1, !.end = IF s.depth = 1 THEN i ELSE 0]
  BY <1>4, Zenon DEF Look
<1>6. Look(s, i, Close) = [s EXCEPT !.depth = x, !.end = n]
  BY <1>3, <1>5, Zenon
<1>7. Same([s EXCEPT !.depth = x, !.end = n], St(x, s.inString, s.escaped, n))
  BY <1>1, <1>3, DepthSet, Zenon
<1> QED
  BY <1>3, <1>6, <1>7, Zenon DEF Turns, Same

LEMMA QuoteTurns ==
  ASSUME NEW m \in Nat, NEW d \in Int, NEW i
  PROVE  Turns(St(d, FALSE, FALSE, 0), i, Quote, St(d, TRUE, FALSE, 0))
<1>1. 0 \in 0 .. m /\ FALSE \in BOOLEAN
  OBVIOUS
<1>2. PICK s : State(s, m, d, FALSE, FALSE, 0)
  BY <1>1, StIsState, Zenon
<1>3. /\ s \in SpanState(m) /\ s = St(d, FALSE, FALSE, 0)
      /\ s.depth = d /\ s.inString = FALSE /\ s.escaped = FALSE /\ s.end = 0
  BY <1>2, Zenon DEF State
<1>4. ~ (s.end > 0) /\ ~ s.inString
  <2>1. ~ (0 > 0)
    OBVIOUS
  <2> QED
    BY <1>3, <2>1, Zenon
<1>5. Look(s, i, Quote) = [s EXCEPT !.inString = TRUE]
  BY <1>4, Zenon DEF Look
<1>6. Same([s EXCEPT !.inString = TRUE], St(s.depth, TRUE, s.escaped, s.end))
  BY <1>3, StringStarts, Zenon
<1> QED
  BY <1>3, <1>5, <1>6, Zenon DEF Turns, Same

(* In a string, only a quote that is not escaped ends it. *)
LEMMA InsideTurns ==
  ASSUME NEW m \in Nat, NEW d \in Int, NEW i, NEW e \in BOOLEAN, NEW c,
         NEW v \in BOOLEAN, NEW w \in BOOLEAN, v = (e \/ c # Quote), w = (~ e /\ c = Backslash)
  PROVE  Turns(St(d, TRUE, e, 0), i, c, St(d, v, w, 0))
<1>1. 0 \in 0 .. m /\ TRUE \in BOOLEAN
  OBVIOUS
<1>2. PICK s : State(s, m, d, TRUE, e, 0)
  BY <1>1, StIsState, Zenon
<1>3. /\ s \in SpanState(m) /\ s = St(d, TRUE, e, 0)
      /\ s.depth = d /\ s.inString = TRUE /\ s.escaped = e /\ s.end = 0
  BY <1>2, Zenon DEF State
<1>4. ~ (s.end > 0) /\ s.inString
  <2>1. ~ (0 > 0)
    OBVIOUS
  <2> QED
    BY <1>3, <2>1, Zenon
<1>5. Look(s, i, c) = [s EXCEPT !.inString = s.escaped \/ c # Quote,
                                !.escaped = ~ s.escaped /\ c = Backslash]
  BY <1>4, Zenon DEF Look
<1>6. Look(s, i, c) = [s EXCEPT !.inString = v, !.escaped = w]
  BY <1>3, <1>5, Zenon
<1>7. Same([s EXCEPT !.inString = v, !.escaped = w], St(s.depth, v, w, s.end))
  BY <1>3, StringSet, Zenon
<1> QED
  BY <1>3, <1>6, <1>7, Zenon DEF Turns, Same

LEMMA EndStays ==
  ASSUME NEW m \in Nat, NEW n \in 0 .. m, n > 0, NEW i, NEW c
  PROVE  Turns(St(0, FALSE, FALSE, n), i, c, St(0, FALSE, FALSE, n))
<1>1. St(0, FALSE, FALSE, n).end = n
  <2>1. 0 \in Int /\ FALSE \in BOOLEAN
    OBVIOUS
  <2>2. State(St(0, FALSE, FALSE, n), m, 0, FALSE, FALSE, n)
    BY <2>1, StIsState, Zenon
  <2> QED
    BY <2>2, Zenon DEF State
<1> QED
  BY <1>1, Zenon DEF Turns, Look

LEMMA RequestPrecedes ==
  ASSUME NEW b, NEW at, NEW r, Found(b, at, r), MarkSet(b) \in SUBSET Nat,
         NEW k \in 1 .. r, k \in 1 .. 9 \/ k = r - 1 \/ k = r, NEW j,
         (k = 1 /\ j = 0) \/ (k \in 2 .. 9 /\ j = at + (k - 1))
           \/ (k = r - 1 /\ j = at + 9) \/ (k = r /\ j = at + (r - 1))
  PROVE  Precedes(MarkSet(b), at + k, j)
<1>1. at + k \in MarkSet(b)
  BY RequestMarks, Zenon DEF MarkSet
<1>2. at + k # 0
  BY SMT DEF Found
<1>3. Before(MarkSet(b), at + k) = j
  <2>1. CASE k = 1 /\ j = 0
    BY <2>1, RequestBefores, Zenon
  <2>2. CASE k \in 2 .. 9 /\ j = at + (k - 1)
    BY <2>2, RequestBefores, Zenon
  <2>3. CASE k = r - 1 /\ j = at + 9
    BY <2>3, RequestBefores, Zenon
  <2>4. CASE k = r /\ j = at + (r - 1)
    BY <2>4, RequestBefores, ZenonT(40)
  <2> QED
    BY <2>1, <2>2, <2>3, <2>4, Zenon
<1> QED
  BY <1>1, <1>2, <1>3, Zenon DEF Precedes

LEMMA RequestBytes ==
  ASSUME NEW b, NEW at, NEW r, Found(b, at, r)
  PROVE  /\ ByteAt(b, at + 1, Open) /\ ByteAt(b, at + 2, Quote) /\ ByteAt(b, at + 3, Backslash)
         /\ ByteAt(b, at + 4, Quote) /\ ByteAt(b, at + 5, Close) /\ ByteAt(b, at + 6, Quote)
         /\ ByteAt(b, at + 7, Open) /\ ByteAt(b, at + 8, Close) /\ ByteAt(b, at + 9, Quote)
         /\ ByteAt(b, at + (r - 1), Quote) /\ ByteAt(b, at + r, Close)
<1>1. r \in Nat /\ r >= 14 /\ \A k \in 1 .. r : b[at + k] = RequestByte(r, k)
  BY Zenon DEF Found
<1>2. ASSUME NEW k \in 1 .. r, NEW c, RequestByte(r, k) = c PROVE ByteAt(b, at + k, c)
  BY <1>1, <1>2, Zenon DEF ByteAt
<1>3. /\ 1 \in 1 .. r /\ 2 \in 1 .. r /\ 3 \in 1 .. r /\ 4 \in 1 .. r /\ 5 \in 1 .. r /\ 6 \in 1 .. r
      /\ 7 \in 1 .. r /\ 8 \in 1 .. r /\ 9 \in 1 .. r /\ r - 1 \in 1 .. r /\ r \in 1 .. r
  BY <1>1
<1>4. /\ RequestByte(r, 1) = Open /\ RequestByte(r, 2) = Quote /\ RequestByte(r, 3) = Backslash
      /\ RequestByte(r, 4) = Quote /\ RequestByte(r, 5) = Close /\ RequestByte(r, 6) = Quote
  BY <1>1, SMT DEF RequestByte
<1>5. /\ RequestByte(r, 7) = Open /\ RequestByte(r, 8) = Close /\ RequestByte(r, 9) = Quote
      /\ RequestByte(r, r - 1) = Quote /\ RequestByte(r, r) = Close
  BY <1>1, SMT DEF RequestByte
<1> QED
  BY <1>2, <1>3, <1>4, <1>5, Zenon

(* So the span ends at the end of the request, whatever comes after it. *)
LEMMA RequestWalk ==
  ASSUME NEW b, NEW at, NEW r, Found(b, at, r), MarkSet(b) \in SUBSET Nat,
         NEW f, Walk(b, f, MarkSet(b), MarkSet(b))
  PROVE  Reaches(f, at + r, St(0, FALSE, FALSE, at + r))
<1> DEFINE S == MarkSet(b)
<1>1. PICK m \in Nat : m = at + r
  BY SMT DEF Found
<1>2. r \in Nat /\ r >= 14 /\ at \in Nat
  BY Zenon DEF Found
<1>3. 0 \in Int /\ 1 \in Int /\ 2 \in Int /\ 1 = 0 + 1 /\ 2 = 1 + 1 /\ 1 = 2 - 1 /\ 0 = 1 - 1
  OBVIOUS
<1>4. TRUE \in BOOLEAN /\ FALSE \in BOOLEAN
  OBVIOUS
<1>5. Quote # Backslash /\ Close # Quote /\ Close # Backslash /\ Backslash # Quote
  BY SMT DEF Quote, Backslash, Close
<1>6. Reaches(f, 0, St(0, FALSE, FALSE, 0))
  <2>1. 0 \in S
    BY DEF MarkSet
  <2>2. f[0] = Start
    BY <2>1, Zenon DEF Walk
  <2> QED
    BY <2>2, StartIs, Zenon DEF Reaches
<1>7. Precedes(S, at + 1, 0) /\ Precedes(S, at + (r - 1), at + 9) /\ Precedes(S, at + r, at + (r - 1))
  <2>1. 1 \in 1 .. r /\ 1 \in 1 .. 9 /\ r - 1 \in 1 .. r /\ r \in 1 .. r
    BY <1>2
  <2> QED
    BY <2>1, RequestPrecedes, Zenon
<1>8. ASSUME NEW k \in 2 .. 9, NEW j, j = k - 1 PROVE Precedes(S, at + k, at + j)
  <2>1. k \in 1 .. r /\ k \in 1 .. 9
    BY <1>2
  <2>2. at + j = at + (k - 1)
    BY <1>8
  <2> QED
    BY <2>1, <2>2, RequestPrecedes, Zenon
<1>9. /\ Precedes(S, at + 2, at + 1) /\ Precedes(S, at + 3, at + 2) /\ Precedes(S, at + 4, at + 3)
      /\ Precedes(S, at + 5, at + 4) /\ Precedes(S, at + 6, at + 5) /\ Precedes(S, at + 7, at + 6)
      /\ Precedes(S, at + 8, at + 7) /\ Precedes(S, at + 9, at + 8)
  <2>1. /\ 2 \in 2 .. 9 /\ 1 = 2 - 1 /\ 3 \in 2 .. 9 /\ 2 = 3 - 1 /\ 4 \in 2 .. 9 /\ 3 = 4 - 1
        /\ 5 \in 2 .. 9 /\ 4 = 5 - 1 /\ 6 \in 2 .. 9 /\ 5 = 6 - 1 /\ 7 \in 2 .. 9 /\ 6 = 7 - 1
        /\ 8 \in 2 .. 9 /\ 7 = 8 - 1 /\ 9 \in 2 .. 9 /\ 8 = 9 - 1
    OBVIOUS
  <2> HIDE DEF S
  <2> QED
    BY <1>8, <2>1, Zenon
<1>10. Reaches(f, at + 1, St(1, FALSE, FALSE, 0))
  <2>1. Turns(St(0, FALSE, FALSE, 0), at + 1, Open, St(1, FALSE, FALSE, 0))
    BY <1>1, <1>3, OpenTurns, Zenon
  <2>2. ByteAt(b, at + 1, Open)
    BY RequestBytes, Zenon
  <2> QED
    BY <1>7, <1>6, <2>1, <2>2, WalkStep, Zenon
<1>11. Reaches(f, at + 2, St(1, TRUE, FALSE, 0))
  <2>1. Turns(St(1, FALSE, FALSE, 0), at + 2, Quote, St(1, TRUE, FALSE, 0))
    BY <1>1, <1>3, QuoteTurns, Zenon
  <2>2. ByteAt(b, at + 2, Quote)
    BY RequestBytes, Zenon
  <2> QED
    BY <1>9, <1>10, <2>1, <2>2, WalkStep, Zenon
<1>12. Reaches(f, at + 3, St(1, TRUE, TRUE, 0))
  <2>1. Turns(St(1, TRUE, FALSE, 0), at + 3, Backslash, St(1, TRUE, TRUE, 0))
    <3>1. TRUE = (FALSE \/ Backslash # Quote) /\ TRUE = (~ FALSE /\ Backslash = Backslash)
      BY <1>5, Zenon
    <3> QED
      BY <1>1, <1>3, <1>4, <3>1, InsideTurns, Zenon
  <2>2. ByteAt(b, at + 3, Backslash)
    BY RequestBytes, Zenon
  <2> QED
    BY <1>9, <1>11, <2>1, <2>2, WalkStep, Zenon
<1>13. Reaches(f, at + 4, St(1, TRUE, FALSE, 0))
  <2>1. Turns(St(1, TRUE, TRUE, 0), at + 4, Quote, St(1, TRUE, FALSE, 0))
    <3>1. TRUE = (TRUE \/ Quote # Quote) /\ FALSE = (~ TRUE /\ Quote = Backslash)
      BY <1>5, Zenon
    <3> QED
      BY <1>1, <1>3, <1>4, <3>1, InsideTurns, Zenon
  <2>2. ByteAt(b, at + 4, Quote)
    BY RequestBytes, Zenon
  <2> QED
    BY <1>9, <1>12, <2>1, <2>2, WalkStep, Zenon
<1>14. Reaches(f, at + 5, St(1, TRUE, FALSE, 0))
  <2>1. Turns(St(1, TRUE, FALSE, 0), at + 5, Close, St(1, TRUE, FALSE, 0))
    <3>1. TRUE = (FALSE \/ Close # Quote) /\ FALSE = (~ FALSE /\ Close = Backslash)
      BY <1>5, Zenon
    <3> QED
      BY <1>1, <1>3, <1>4, <3>1, InsideTurns, Zenon
  <2>2. ByteAt(b, at + 5, Close)
    BY RequestBytes, Zenon
  <2> QED
    BY <1>9, <1>13, <2>1, <2>2, WalkStep, Zenon
<1>15. Reaches(f, at + 6, St(1, FALSE, FALSE, 0))
  <2>1. Turns(St(1, TRUE, FALSE, 0), at + 6, Quote, St(1, FALSE, FALSE, 0))
    <3>1. FALSE = (FALSE \/ Quote # Quote) /\ FALSE = (~ FALSE /\ Quote = Backslash)
      BY <1>5, Zenon
    <3> QED
      BY <1>1, <1>3, <1>4, <3>1, InsideTurns, Zenon
  <2>2. ByteAt(b, at + 6, Quote)
    BY RequestBytes, Zenon
  <2> QED
    BY <1>9, <1>14, <2>1, <2>2, WalkStep, Zenon
<1>16. Reaches(f, at + 7, St(2, FALSE, FALSE, 0))
  <2>1. Turns(St(1, FALSE, FALSE, 0), at + 7, Open, St(2, FALSE, FALSE, 0))
    BY <1>1, <1>3, OpenTurns, Zenon
  <2>2. ByteAt(b, at + 7, Open)
    BY RequestBytes, Zenon
  <2> QED
    BY <1>9, <1>15, <2>1, <2>2, WalkStep, Zenon
<1>17. Reaches(f, at + 8, St(1, FALSE, FALSE, 0))
  <2>1. Turns(St(2, FALSE, FALSE, 0), at + 8, Close, St(1, FALSE, FALSE, 0))
    <3>1. at + 8 \in 0 .. m /\ 0 = (IF 2 = 1 THEN at + 8 ELSE 0)
      BY <1>1, <1>2
    <3> QED
      BY <1>3, <3>1, CloseTurns, Zenon
  <2>2. ByteAt(b, at + 8, Close)
    BY RequestBytes, Zenon
  <2> QED
    BY <1>9, <1>16, <2>1, <2>2, WalkStep, Zenon
<1>18. Reaches(f, at + 9, St(1, TRUE, FALSE, 0))
  <2>1. Turns(St(1, FALSE, FALSE, 0), at + 9, Quote, St(1, TRUE, FALSE, 0))
    BY <1>1, <1>3, QuoteTurns, Zenon
  <2>2. ByteAt(b, at + 9, Quote)
    BY RequestBytes, Zenon
  <2> QED
    BY <1>9, <1>17, <2>1, <2>2, WalkStep, Zenon
<1>19. Reaches(f, at + (r - 1), St(1, FALSE, FALSE, 0))
  <2>1. Turns(St(1, TRUE, FALSE, 0), at + (r - 1), Quote, St(1, FALSE, FALSE, 0))
    <3>1. FALSE = (FALSE \/ Quote # Quote) /\ FALSE = (~ FALSE /\ Quote = Backslash)
      BY <1>5, Zenon
    <3> QED
      BY <1>1, <1>3, <1>4, <3>1, InsideTurns, Zenon
  <2>2. ByteAt(b, at + (r - 1), Quote)
    BY RequestBytes, Zenon
  <2> QED
    BY <1>7, <1>18, <2>1, <2>2, WalkStep, Zenon
<1>20. Reaches(f, at + r, St(0, FALSE, FALSE, at + r))
  <2>1. Turns(St(1, FALSE, FALSE, 0), at + r, Close, St(0, FALSE, FALSE, at + r))
    <3>1. at + r \in 0 .. m /\ at + r = (IF 1 = 1 THEN at + r ELSE 0)
      BY <1>1, <1>2
    <3> QED
      BY <1>3, <3>1, CloseTurns, Zenon
  <2>2. ByteAt(b, at + r, Close)
    BY RequestBytes, Zenon
  <2> QED
    BY <1>7, <1>19, <2>1, <2>2, WalkStep, Zenon
<1> QED
  BY <1>20

LEMMA RequestSpan ==
  ASSUME NEW b, NEW at, NEW r, Found(b, at, r)
  PROVE  SpanEnd(b) = at + r /\ Begin(b) = at + 1
<1>1. b \in Seq(Byte) /\ at \in Nat /\ r \in Nat /\ r >= 14 /\ at + r <= Len(b)
  BY Zenon DEF Found
<1>2. Begin(b) # 0 /\ Begin(b) = at + 1
  BY BeginIs, Zenon
<1>3. PICK f : Walk(b, f, MarkSet(b), MarkSet(b)) /\ SpanEnd(b) = f[Max(Marks(b))].end
  BY <1>1, <1>2, SpanEndIs, Zenon
<1>4. PICK S : S = MarkSet(b)
  OBVIOUS
<1>5. S \in SUBSET Nat /\ 0 \in S /\ UpTo(S, Len(b)) = S /\ Len(b) \in Nat
      /\ Max(Marks(b)) \in Marks(b) /\ \A k \in Marks(b) : k <= Max(Marks(b))
  BY <1>1, <1>2, <1>4, SpanEndIs, Zenon
<1>6. PICK m \in Nat : m = Len(b)
  BY <1>5, Zenon
<1>7. PICK p \in Nat : p = at + r
  BY <1>1
<1>8. PICK z : z = St(0, FALSE, FALSE, p)
  OBVIOUS
<1>9. Reaches(f, p, z) /\ Walk(b, f, S, S)
  <2>1. Reaches(f, at + r, St(0, FALSE, FALSE, at + r))
    BY <1>3, <1>4, <1>5, RequestWalk, Zenon
  <2> QED
    BY <1>3, <1>4, <1>7, <1>8, <2>1, Zenon
<1>10. p \in Marks(b) /\ p \in S /\ p > 0 /\ p <= m
  <2>1. r \in 1 .. r
    BY <1>1
  <2>2. at + r \in Marks(b)
    BY <2>1, RequestMarks, Zenon
  <2>3. p > 0 /\ p <= m
    BY <1>1, <1>6, <1>7
  <2> QED
    BY <1>4, <1>7, <2>2, <2>3, Zenon DEF MarkSet
<1>11. ASSUME NEW i \in S, i # 0, NEW j, Before(S, i) = j, Reaches(f, j, z) PROVE Reaches(f, i, z)
  <2>1. Precedes(S, i, j) /\ ByteAt(b, i, b[i])
    BY <1>11, Zenon DEF Precedes, ByteAt
  <2>2. Turns(z, i, b[i], z)
    <3>1. p \in 0 .. m
      BY <1>10
    <3>2. Turns(St(0, FALSE, FALSE, p), i, b[i], St(0, FALSE, FALSE, p))
      BY <1>10, <3>1, EndStays, Zenon
    <3> QED
      BY <1>8, <3>2, Zenon
  <2> QED
    BY <1>9, <1>11, <2>1, <2>2, WalkStep, Zenon
<1> DEFINE T == {n \in Nat : \A i \in S : p <= i /\ i <= n => Reaches(f, i, z)}
<1>12. 0 \in T
  BY <1>5, <1>10
<1>13. \A n \in Nat : n \in T => n + 1 \in T
  <2> SUFFICES ASSUME NEW n \in Nat, n \in T PROVE n + 1 \in T
    OBVIOUS
  <2>1. \A i \in S : p <= i /\ i <= n => Reaches(f, i, z)
    BY Zenon
  <2> HIDE DEF T
  <2>2. ASSUME NEW i \in S, p <= i, i <= n + 1 PROVE Reaches(f, i, z)
    <3>1. CASE i = p
      BY <1>9, <3>1, Zenon
    <3>2. CASE i # p
      <4>1. i \in Nat /\ i # 0 /\ p < i
        BY <1>5, <1>10, <2>2, <3>2
      <4>2. PICK j \in Nat : j = Before(S, i) /\ j \in S /\ j < i /\ \A k \in S : k < i => k <= j
        BY <1>5, <4>1, BeforeIs, Zenon
      <4>3. p <= j
        BY <1>10, <4>1, <4>2, Zenon
      <4>4. j <= n
        BY <2>2, <4>1, <4>2
      <4> QED
        BY <1>11, <2>1, <4>1, <4>2, <4>3, <4>4, Zenon
    <3> QED
      BY <3>1, <3>2, Zenon
  <2>3. n + 1 \in Nat
    OBVIOUS
  <2> QED
    BY <2>2, <2>3, Zenon DEF T
<1>14. PICK x \in Nat : x = Max(Marks(b)) /\ x \in S /\ p <= x
  <2>1. Max(Marks(b)) \in S
    BY <1>4, <1>5, Zenon DEF MarkSet
  <2>2. p <= Max(Marks(b))
    BY <1>5, <1>10, Zenon
  <2> QED
    BY <1>5, <2>1, <2>2, Zenon
<1>15. x \in T
  <2> HIDE DEF T
  <2> QED
    BY <1>12, <1>13, Induction
<1>16. x <= x
  OBVIOUS
<1>17. f[x] = z
  BY <1>14, <1>15, <1>16, Zenon DEF Reaches
<1>18. z.end = p
  <2>1. 0 \in Int /\ FALSE \in BOOLEAN /\ p \in 0 .. m
    BY <1>10
  <2>2. State(St(0, FALSE, FALSE, p), m, 0, FALSE, FALSE, p)
    BY <2>1, StIsState, Zenon
  <2> QED
    BY <1>8, <2>2, Zenon DEF State
<1> QED
  BY <1>2, <1>3, <1>7, <1>14, <1>17, <1>18, Zenon

(* That is so in a body of s in which the request arrived and no brace came before it. *)
NoBrace(s) == ~ Contains(BeforeRequest(s), Open)

LEMMA BodyHasRequest ==
  ASSUME NEW s \in Sent, NEW b, Body(s, b), RequestIn(s, b), NoBrace(s)
  PROVE  Found(b, Len(BeforeRequest(s)), s.request)
<1>1. b \in Seq(Byte) /\ Laid(s, b)
  BY Zenon DEF Body
<1>2. Shows(b, 0, BeforeRequest(s)) /\ Shows(b, Len(BeforeRequest(s)), RequestText(s))
  BY <1>1, Zenon DEF Laid
<1>3. PICK at \in Nat : at = Len(BeforeRequest(s))
  BY BeforeRequestType, LenProperties
<1>4. PICK r \in Nat : r = s.request /\ r >= 14
  BY LoginTypes, Zenon
<1>5. PICK m \in Nat : m = Len(b) /\ at + r <= m
  <2>1. Len(b) \in Nat
    BY <1>1, LenProperties
  <2> QED
    BY <1>3, <1>4, <2>1, Zenon DEF RequestIn
<1>6. Len(RequestText(s)) = r /\ \A k \in 1 .. r : RequestText(s)[k] = RequestByte(r, k)
  BY <1>4, RequestTextIs, Zenon
<1>7. ASSUME NEW k \in 1 .. r PROVE b[at + k] = RequestByte(r, k)
  <2>1. at + k <= m
    BY <1>5
  <2> QED
    BY <1>2, <1>3, <1>5, <1>6, <2>1, Zenon DEF Shows
<1>8. ASSUME NEW i \in 1 .. at PROVE b[i] # Open
  <2>1. 0 + i = i /\ i <= m
    BY <1>4, <1>5
  <2>2. b[i] = BeforeRequest(s)[i]
    BY <1>2, <1>3, <1>5, <2>1, Zenon DEF Shows
  <2>3. BeforeRequest(s)[i] # Open
    BY <1>3, Zenon DEF NoBrace, Contains
  <2> QED
    BY <2>2, <2>3, Zenon
<1> QED
  BY <1>1, <1>3, <1>4, <1>5, <1>7, <1>8, Zenon DEF Found

(* ... and what the scan takes for the request is the request. *)
LEMMA ScannedRequest ==
  ASSUME NEW s \in Sent, NEW b, Body(s, b), RequestIn(s, b), NoBrace(s)
  PROVE  /\ SpanEnd(b) = Len(BeforeRequest(s)) + s.request /\ SpanEnd(b) > 0
         /\ SubSeq(b, Begin(b), SpanEnd(b)) = RequestText(s)
<1>1. Found(b, Len(BeforeRequest(s)), s.request)
  BY BodyHasRequest, Zenon
<1>2. SpanEnd(b) = Len(BeforeRequest(s)) + s.request /\ Begin(b) = Len(BeforeRequest(s)) + 1
  BY <1>1, RequestSpan, Zenon
<1>3. b \in Seq(Byte) /\ Shows(b, Len(BeforeRequest(s)), RequestText(s))
  BY Zenon DEF Body, Laid
<1>4. RequestText(s) \in Seq(Byte) /\ Len(RequestText(s)) = s.request
  BY PartTypes, Zenon
<1>5. Len(BeforeRequest(s)) \in Nat
  BY BeforeRequestType, LenProperties
<1>6. Len(BeforeRequest(s)) + Len(RequestText(s)) <= Len(b)
  BY <1>4, Zenon DEF RequestIn
<1>7. SubSeq(b, Len(BeforeRequest(s)) + 1, Len(BeforeRequest(s)) + Len(RequestText(s)))
        = RequestText(s)
  BY <1>3, <1>4, <1>5, <1>6, SliceIs, SMTT(30)
<1>8. Len(BeforeRequest(s)) + s.request > 0
  <2>1. PICK at \in Nat : at = Len(BeforeRequest(s))
    BY <1>5
  <2>2. PICK r \in Nat : r = s.request /\ r >= 14
    BY LoginTypes, Zenon
  <2>3. at + r > 0
    BY <2>2
  <2> QED
    BY <2>1, <2>2, <2>3, Zenon
<1> QED
  BY <1>2, <1>4, <1>7, <1>8, Zenon

-----------------------------------------------------------------------------
(* The scan finds the client data: the first eyJ after the request is where the claims   *)
(* begin, and nothing in them ends a JWT.                                                *)

JwtAt(t, k) == SubSeq(t, k, k + 2) = eyJ
JwtBytes(t, k) == t[k] = 101 /\ t[k + 1] = 121 /\ t[k + 2] = 74

LEMMA Window ==
  ASSUME NEW t \in Seq(Byte), NEW k \in Nat, k >= 1, k + 2 <= Len(t)
  PROVE  JwtAt(t, k) <=> JwtBytes(t, k)
<1>1. PICK n \in Nat : n = Len(t)
  BY LenProperties
<1>2. PICK at \in Nat : at = k - 1 /\ at + 1 = k /\ at + 2 = k + 1 /\ at + 3 = k + 2 /\ at + 3 <= n
  <2>1. k - 1 \in Nat /\ (k - 1) + 1 = k /\ (k - 1) + 2 = k + 1 /\ (k - 1) + 3 = k + 2 /\ (k - 1) + 3 <= n
    BY <1>1
  <2> QED
    BY <2>1, Zenon
<1>3. PICK u \in Seq(Byte) : u = <<t[k], t[k + 1], t[k + 2]>>
  <2>1. k \in 1 .. n /\ k + 1 \in 1 .. n /\ k + 2 \in 1 .. n
    BY <1>1
  <2>2. t[k] \in Byte /\ t[k + 1] \in Byte /\ t[k + 2] \in Byte
    BY <1>1, <2>1
  <2>3. <<t[k], t[k + 1], t[k + 2]>> \in Seq(Byte)
    BY <2>2
  <2> QED
    BY <2>3, Zenon
<1>4. Len(u) = 3 /\ u[1] = t[k] /\ u[2] = t[k + 1] /\ u[3] = t[k + 2]
  BY <1>3
<1>5. Shows(t, at, u)
  <2>1. ASSUME NEW i \in 1 .. 3 PROVE t[at + i] = u[i]
    <3>1. i = 1 \/ i = 2 \/ i = 3
      OBVIOUS
    <3> QED
      BY <1>2, <1>4, <3>1, Zenon
  <2> QED
    BY <1>4, <2>1, Zenon DEF Shows
<1>6. SubSeq(t, k, k + 2) = u
  <2>1. at + Len(u) <= Len(t)
    BY <1>1, <1>2, <1>4, Zenon
  <2>2. SubSeq(t, at + 1, at + Len(u)) = u
    BY <1>5, <2>1, SliceIs, SMT
  <2> QED
    BY <1>2, <1>4, <2>2, Zenon
<1>7. u = eyJ <=> t[k] = 101 /\ t[k + 1] = 121 /\ t[k + 2] = 74
  BY <1>3, SMT DEF eyJ
<1> QED
  BY <1>6, <1>7, Zenon DEF JwtAt, JwtBytes

(* The characters of the client data. *)
ClientByte(i) == IF i = 1 THEN 101 ELSE IF i = 2 THEN 121 ELSE IF i = 3 THEN 74 ELSE 97

LEMMA ClientBytes ==
  ASSUME NEW s, NEW k \in Nat, s.client = k, k >= 3
  PROVE  \A i \in 1 .. k : ClientText(s)[i] = ClientByte(i)
<1>1. eyJ \in Seq(Byte) /\ Len(eyJ) = 3 /\ eyJ[1] = 101 /\ eyJ[2] = 121 /\ eyJ[3] = 74
  BY DEF eyJ, Byte
<1>2. PICK n \in Nat : n = k - 3 /\ k = 3 + n
  <2>1. k - 3 \in Nat /\ k = 3 + (k - 3)
    OBVIOUS
  <2> QED
    BY <2>1, Zenon
<1>3. PICK f \in Seq(Byte) : f = Filler(n) /\ Len(f) = n /\ \A i \in 1 .. n : f[i] = 97
  <2>1. Filler(n) \in Seq(Byte) /\ Len(Filler(n)) = n /\ \A i \in 1 .. n : Filler(n)[i] = 97
    BY FillerIs
  <2> QED
    BY <2>1, ZenonT(40)
<1>4. ClientText(s) = eyJ \o f
  BY <1>1, <1>2, <1>3, Zenon DEF ClientText
<1>5. PICK e \in Seq(Byte) : e = eyJ
  BY <1>1
<1>6. (\A i \in 1 .. 3 : (e \o f)[i] = e[i]) /\ \A i \in 1 .. n : (e \o f)[3 + i] = f[i]
  <2>1. Len(e) = 3 /\ Len(f) = n
    BY <1>1, <1>3, <1>5, Zenon
  <2>2. ASSUME NEW i \in 1 .. 3 PROVE (e \o f)[i] = e[i]
    <3>1. i \in 1 .. Len(e)
      BY <2>1
    <3> QED
      BY <3>1, Joined
  <2>3. ASSUME NEW i \in 1 .. n PROVE (e \o f)[3 + i] = f[i]
    <3>1. i \in 1 .. Len(f)
      BY <2>1
    <3>2. (e \o f)[Len(e) + i] = f[i]
      BY <3>1, Joined
    <3> QED
      BY <2>1, <3>2, Zenon
  <2> QED
    BY <2>2, <2>3, Zenon
<1>7. PICK t : t = e \o f
  OBVIOUS
<1>8. (\A i \in 1 .. 3 : t[i] = e[i]) /\ \A i \in 1 .. n : t[3 + i] = f[i]
  BY <1>6, <1>7, Zenon
<1>9. ASSUME NEW i \in 1 .. k PROVE t[i] = ClientByte(i)
  <2>1. CASE i \in 1 .. 3
    <3>1. i = 1 \/ i = 2 \/ i = 3
      BY <2>1
    <3>2. t[i] = e[i]
      BY <1>8, <2>1, Zenon
    <3>3. e[1] = 101 /\ e[2] = 121 /\ e[3] = 74
      BY <1>1, <1>5, Zenon
    <3> QED
      BY <3>1, <3>2, <3>3, SMT DEF ClientByte
  <2>2. CASE ~ (i \in 1 .. 3)
    <3>1. PICK j \in 1 .. n : i = 3 + j
      <4>1. i - 3 \in 1 .. n /\ i = 3 + (i - 3)
        BY <1>2, <2>2
      <4> QED
        BY <4>1, Zenon
    <3>2. t[3 + j] = f[j] /\ f[j] = 97
      BY <1>3, <1>8, Zenon
    <3>3. t[i] = 97
      BY <3>1, <3>2, Zenon
    <3> QED
      BY <2>2, <3>3, SMT DEF ClientByte
  <2> QED
    BY <2>1, <2>2
<1> QED
  BY <1>4, <1>5, <1>7, <1>9, Zenon

(* t begins with a length of four bytes and c characters of the client data. *)
Follows(t, c) ==
  /\ t \in Seq(Byte) /\ c \in Nat /\ c >= 3 /\ 4 + c <= Len(t)
  /\ t[3] = 0 \/ (t[1] = 0 /\ t[2] = 0)
  /\ \A i \in 1 .. c : t[4 + i] = ClientByte(i)

LEMMA FirstJwt ==
  ASSUME NEW t, NEW c, Follows(t, c), NEW starts,
         starts = {k \in 1 .. Len(t) - 2 : SubSeq(t, k, k + 2) = eyJ}
  PROVE  starts # {} /\ Min(starts) = 5
<1>1. t \in Seq(Byte) /\ c \in Nat /\ c >= 3 /\ 4 + c <= Len(t)
  BY Zenon DEF Follows
<1>2. PICK n \in Nat : n = Len(t)
  BY <1>1, LenProperties
<1>3. \A k \in 1 .. n - 2 : JwtAt(t, k) <=> JwtBytes(t, k)
  <2> SUFFICES ASSUME NEW k \in 1 .. n - 2 PROVE JwtAt(t, k) <=> JwtBytes(t, k)
    BY Zenon
  <2>1. k \in Nat /\ k >= 1 /\ k + 2 <= n
    BY <1>2
  <2>2. k + 2 <= Len(t)
    BY <1>2, <2>1, Zenon
  <2> QED
    BY <1>1, <2>1, <2>2, Window, Zenon
<1>4. t[5] = 101 /\ t[6] = 121 /\ t[7] = 74
  <2>1. 1 \in 1 .. c /\ 2 \in 1 .. c /\ 3 \in 1 .. c /\ 4 + 1 = 5 /\ 4 + 2 = 6 /\ 4 + 3 = 7
    BY <1>1
  <2>2. t[4 + 1] = ClientByte(1) /\ t[4 + 2] = ClientByte(2) /\ t[4 + 3] = ClientByte(3)
    BY <2>1, Zenon DEF Follows
  <2> QED
    BY <2>1, <2>2, SMT DEF ClientByte
<1>5. 5 \in starts
  <2>1. 5 \in 1 .. n - 2 /\ 5 + 1 = 6 /\ 5 + 2 = 7
    BY <1>1, <1>2
  <2>2. JwtBytes(t, 5)
    BY <1>4, <2>1, SMT DEF JwtBytes
  <2>3. JwtAt(t, 5)
    BY <1>3, <2>1, <2>2, Zenon
  <2> QED
    BY <1>2, <2>1, <2>3, Zenon DEF JwtAt
<1>6. ASSUME NEW k \in starts PROVE 5 <= k
  <2>1. k \in 1 .. n - 2 /\ JwtAt(t, k)
    BY <1>2, <1>6, Zenon DEF JwtAt
  <2>2. t[k] = 101 /\ t[k + 1] = 121 /\ t[k + 2] = 74
    BY <1>3, <2>1, Zenon DEF JwtBytes
  <2>3. t[3] = 0 \/ (t[1] = 0 /\ t[2] = 0)
    BY Zenon DEF Follows
  <2>4. k # 1 /\ k # 2 /\ k # 3 /\ k # 4
    BY <1>4, <2>2, <2>3, SMTT(30)
  <2> QED
    BY <2>1, <2>4
<1>7. Min(starts) = 5
  <2>1. starts \in SUBSET Int /\ 5 \in Int
    <3>1. \A k \in starts : k \in Int
      BY <1>2
    <3> QED
      BY <3>1
  <2> QED
    BY <1>5, <1>6, <2>1, MinIs, Zenon
<1> QED
  BY <1>5, <1>7, Zenon

LEMMA JwtIs ==
  ASSUME NEW t, NEW c, Follows(t, c)
  PROVE  \E x \in Nat : 4 + c <= x /\ x <= Len(t) /\ NextJwt(t) = SubSeq(t, 5, x)
<1> DEFINE starts == {k \in 1 .. Len(t) - 2 : SubSeq(t, k, k + 2) = eyJ}
           ends == {k \in Min(starts) .. Len(t) : t[k] \in Ends}
<1>1. starts # {} /\ Min(starts) = 5
  <2> HIDE DEF starts
  <2>1. starts = {k \in 1 .. Len(t) - 2 : SubSeq(t, k, k + 2) = eyJ}
    BY DEF starts
  <2> QED
    BY <2>1, FirstJwt, Zenon
<1>2. t \in Seq(Byte) /\ c \in Nat /\ c >= 3 /\ 4 + c <= Len(t)
  BY Zenon DEF Follows
<1>3. PICK n \in Nat : n = Len(t)
  BY <1>2, LenProperties
<1>4. NextJwt(t) = SubSeq(t, 5, IF ends = {} THEN n ELSE Min(ends) - 1)
  BY <1>1, <1>3, Zenon DEF NextJwt
<1>5. CASE ends = {}
  <2>1. n <= n
    OBVIOUS
  <2>2. NextJwt(t) = SubSeq(t, 5, n)
    BY <1>4, <1>5, Zenon
  <2> QED
    BY <1>2, <1>3, <2>1, <2>2, Zenon
<1>6. CASE ends # {}
  <2> HIDE DEF starts
  <2>1. \A k \in ends : k \in 5 .. n /\ t[k] \in Ends
    BY <1>1, <1>3, Zenon
  <2>2. ends \in SUBSET Nat
    <3>1. \A k \in 5 .. n : k \in Nat
      OBVIOUS
    <3> QED
      BY <2>1, <3>1, Zenon
  <2>3. PICK k \in ends : k = Min(ends)
    <3> HIDE DEF ends
    <3> QED
      BY <1>6, <2>2, MinOf, Zenon
  <2> HIDE DEF ends
  <2>4. k \in 5 .. n /\ t[k] \in Ends
    BY <2>1, Zenon
  <2>5. 4 + c < k
    <3>1. SUFFICES ASSUME ~ (4 + c < k) PROVE FALSE
      OBVIOUS
    <3>2. PICK i \in 1 .. c : k = 4 + i
      <4>1. k - 4 \in 1 .. c /\ k = 4 + (k - 4)
        BY <1>2, <2>4, <3>1
      <4> QED
        BY <4>1, Zenon
    <3>3. t[k] = ClientByte(i)
      BY <3>2, Zenon DEF Follows
    <3>4. ClientByte(i) \notin Ends
      BY SMT DEF ClientByte, Ends, Quote, Close, Backslash
    <3> QED
      BY <2>4, <3>3, <3>4, Zenon
  <2>6. k - 1 \in Nat /\ 4 + c <= k - 1 /\ k - 1 <= n
    BY <1>2, <2>4, <2>5
  <2>7. NextJwt(t) = SubSeq(t, 5, k - 1)
    BY <1>4, <1>6, <2>3, Zenon
  <2> QED
    BY <1>3, <2>6, <2>7, Zenon
<1> QED
  BY <1>5, <1>6

(* A length below 65536 in four bytes: two of them are 0. *)
Short(n) == n < 65536
Octets(p, v, w, x, y) == Len(p) = 4 /\ p[1] = v /\ p[2] = w /\ p[3] = x /\ p[4] = y

LEMMA ShortLength ==
  ASSUME NEW n \in Nat, Short(n)
  PROVE  \E v \in Byte, w \in Byte :
           /\ n = v + 256 * w
           /\ Octets(LittleEndian(n), v, w, 0, 0) /\ Octets(BigEndian(n), 0, 0, w, v)
<1> DEFINE a == Octet(n, 1)
           b == Octet(n, 256)
           c == Octet(n, 65536)
           d == Octet(n, 16777216)
<1>1. a \in 0 .. 255 /\ b \in 0 .. 255
  BY OctetType, SMT
<1>2. n = a + 256 * b /\ c = 0 /\ d = 0
  BY SMT DEF Octet, Short
<1>3. LittleEndian(n) = <<a, b, c, d>>
  BY LittleEndianIs, SMT
<1> HIDE DEF a, b, c, d
<1>4. LittleEndian(n) = <<a, b, 0, 0>>
  BY <1>2, <1>3, Zenon
<1>5. Octets(LittleEndian(n), a, b, 0, 0)
  BY <1>4, SMT DEF Octets
<1>6. /\ BigEndian(n)[1] = LittleEndian(n)[4] /\ BigEndian(n)[2] = LittleEndian(n)[3]
      /\ BigEndian(n)[3] = LittleEndian(n)[2] /\ BigEndian(n)[4] = LittleEndian(n)[1]
  BY SMT DEF BigEndian
<1>7. Octets(BigEndian(n), 0, 0, b, a)
  <2>1. Len(BigEndian(n)) = 4
    BY EndianType, Zenon
  <2> QED
    BY <1>5, <1>6, <2>1, Zenon DEF Octets
<1>8. a \in Byte /\ b \in Byte
  BY <1>1 DEF Byte
<1> QED
  BY <1>2, <1>5, <1>7, <1>8, Zenon

(* The layouts that the parser does not know have lengths of four bytes. *)
Scanned(s) == ~ KnownLayout(s) /\ Len(Encoded(s)) < MaxScanned

LEMMA ScannedSizes ==
  ASSUME NEW s \in Sent, Scanned(s)
  PROVE  /\ Short(s.request) /\ Short(s.client) /\ Short(Len(Encoded(s)))
         /\ Short(Len(BeforeRequest(s)) + s.request) /\ Short(Total(s))
<1>1. PICK r \in Nat, k \in Nat : r = s.request /\ k = s.client
  BY LoginTypes, Zenon
<1>2. PICK x \in Nat, y \in Nat, z \in Nat, e \in Nat :
        x = Len(BeforeRequest(s)) /\ y = Len(ClientPrefix(s)) /\ z = Len(RequestPrefix(s)) /\ e = Len(Encoded(s))
  <2>1. BeforeRequest(s) \in Seq(Byte) /\ Encoded(s) \in Seq(Byte)
    BY BeforeRequestType, EncodedIsLaid, Zenon
  <2>2. ClientPrefix(s) \in Seq(Byte) /\ RequestPrefix(s) \in Seq(Byte)
    BY PartTypes, Zenon
  <2> QED
    BY <2>1, <2>2, LenProperties
<1>3. PICK f \in Nat, g \in Nat : f = Len(ProtocolOf(s)) /\ g = Len(Size(s))
  <2>1. ProtocolOf(s) \in Seq(Byte) /\ Size(s) \in Seq(Byte)
    BY PartTypes, Zenon
  <2> QED
    BY <2>1, LenProperties
<1>4. x = f + g + z /\ Len(BeforeClient(s)) = x + r + y /\ e >= Len(BeforeClient(s)) + k
  BY <1>1, <1>2, <1>3, Lengths, Zenon
<1>5. Short(e)
  BY <1>2, SMT DEF Scanned, MaxScanned, Short
<1>6. e >= x + r + y + k
  BY <1>4
<1>7. Total(s) = z + (r + y + k)
  BY <1>1, <1>2, Zenon DEF Total
<1>8. Short(r) /\ Short(k) /\ Short(x + r) /\ Short(z + (r + y + k))
  BY <1>4, <1>5, <1>6, SMT DEF Short
<1> QED
  BY <1>1, <1>2, <1>5, <1>7, <1>8, Zenon

LEMMA ScannedPrefix ==
  ASSUME NEW s \in Sent, Scanned(s), NEW n \in Nat, Short(n)
  PROVE  \E v \in Byte, w \in Byte :
           /\ n = v + 256 * w
           /\ IF s.layout = "big" THEN Octets(Prefix(s.layout, n), 0, 0, w, v)
              ELSE Octets(Prefix(s.layout, n), v, w, 0, 0)
<1>1. s.layout # "varuint32"
  BY Zenon DEF Scanned, KnownLayout
<1>2. Prefix(s.layout, n) = IF s.layout = "big" THEN BigEndian(n) ELSE LittleEndian(n)
  BY <1>1 DEF Prefix
<1>3. PICK v \in Byte, w \in Byte : /\ n = v + 256 * w /\ Octets(LittleEndian(n), v, w, 0, 0)
                                    /\ Octets(BigEndian(n), 0, 0, w, v)
  BY ShortLength, Zenon
<1> QED
  BY <1>2, <1>3, ZenonT(40)

ClaimsIn(s, b) == Len(BeforeClient(s)) + s.claims <= Len(b)
AfterRequest(s, b) == SubSeq(b, Len(BeforeRequest(s)) + s.request + 1, Len(b))

LEMMA ClientFollows ==
  ASSUME NEW s \in Sent, Scanned(s), NEW b, Body(s, b), RequestIn(s, b), ClaimsIn(s, b)
  PROVE  Follows(AfterRequest(s, b), s.claims)
<1>1. b \in Seq(Byte) /\ Laid(s, b)
  BY Zenon DEF Body
<1>2. PICK r \in Nat, k \in Nat, c \in Nat :
        r = s.request /\ k = s.client /\ c = s.claims /\ k >= 3 /\ c >= 3 /\ c <= k
  BY LoginTypes, Zenon
<1>3. Short(k)
  BY <1>2, ScannedSizes, Zenon
<1>4. PICK v \in Byte, w \in Byte :
        IF s.layout = "big" THEN Octets(ClientPrefix(s), 0, 0, w, v)
        ELSE Octets(ClientPrefix(s), v, w, 0, 0)
  BY <1>2, <1>3, ScannedPrefix, ZenonT(40) DEF ClientPrefix
<1>5. Len(ClientPrefix(s)) = 4
      /\ (ClientPrefix(s)[3] = 0 \/ (ClientPrefix(s)[1] = 0 /\ ClientPrefix(s)[2] = 0))
  BY <1>4, Zenon DEF Octets
<1>6. PICK x \in Nat : x = Len(BeforeRequest(s))
  BY BeforeRequestType, LenProperties
<1>7. PICK e \in Nat : e = x + r
  OBVIOUS
<1>8. PICK n \in Nat : n = Len(b)
  BY <1>1, LenProperties
<1>9. Len(BeforeClient(s)) = e + 4 /\ Len(BeforeRequest(s) \o RequestText(s)) = e
  BY <1>2, <1>5, <1>6, <1>7, Lengths, Zenon
<1>10. e + 4 + c <= n
  BY <1>2, <1>8, <1>9, Zenon DEF ClaimsIn
<1>11. PICK t \in Seq(Byte) : /\ t = AfterRequest(s, b) /\ Len(t) = n - e
                              /\ \A i \in 1 .. n - e : t[i] = b[e + i]
  <2>1. e + 1 \in 1 .. n + 1 /\ n \in (e + 1) - 1 .. n /\ n - (e + 1) + 1 = n - e
    BY <1>10
  <2>2. PICK t : t = SubSeq(b, e + 1, n)
    OBVIOUS
  <2>3. t \in Seq(Byte) /\ Len(t) = n - e
    BY <1>1, <1>8, <2>1, <2>2
  <2>4. ASSUME NEW i \in 1 .. n - e PROVE t[i] = b[e + i]
    <3>1. (e + 1) + i - 1 = e + i /\ i \in 1 .. n - (e + 1) + 1
      BY <2>1
    <3>2. SubSeq(b, e + 1, n)[i] = b[(e + 1) + i - 1]
      BY <1>1, <1>8, <2>1, <3>1, SubSeqProperties
    <3> QED
      BY <2>2, <3>1, <3>2, Zenon
  <2> QED
    BY <1>2, <1>6, <1>7, <1>8, <2>2, <2>3, <2>4, Zenon DEF AfterRequest
<1>12. /\ \A i \in 1 .. 4 : b[e + i] = ClientPrefix(s)[i]
       /\ \A i \in 1 .. c : b[e + 4 + i] = ClientText(s)[i]
  <2>1. Shows(b, e, ClientPrefix(s)) /\ Shows(b, e + 4, ClientText(s))
    BY <1>1, <1>9, Zenon DEF Laid
  <2>2. ASSUME NEW i \in 1 .. 4 PROVE b[e + i] = ClientPrefix(s)[i]
    <3>1. e + i <= n
      BY <1>10
    <3> QED
      BY <1>5, <1>8, <2>1, <3>1, Zenon DEF Shows
  <2>3. ASSUME NEW i \in 1 .. c PROVE b[e + 4 + i] = ClientText(s)[i]
    <3>1. e + 4 + i <= n /\ i \in 1 .. k
      BY <1>2, <1>10
    <3>2. Len(ClientText(s)) = k
      BY <1>2, PartTypes, Zenon
    <3> QED
      BY <1>8, <2>1, <3>1, <3>2, Zenon DEF Shows
  <2> QED
    BY <2>2, <2>3, Zenon
<1>13. t[3] = 0 \/ (t[1] = 0 /\ t[2] = 0)
  <2>1. /\ 1 \in 1 .. n - e /\ 2 \in 1 .. n - e /\ 3 \in 1 .. n - e
        /\ 1 \in 1 .. 4 /\ 2 \in 1 .. 4 /\ 3 \in 1 .. 4
    BY <1>10
  <2>2. t[1] = ClientPrefix(s)[1] /\ t[2] = ClientPrefix(s)[2] /\ t[3] = ClientPrefix(s)[3]
    BY <1>11, <1>12, <2>1, Zenon
  <2> QED
    BY <1>5, <2>2, Zenon
<1>14. ASSUME NEW i \in 1 .. c PROVE t[4 + i] = ClientByte(i)
  <2>1. 4 + i \in 1 .. n - e /\ e + (4 + i) = e + 4 + i /\ i \in 1 .. k
    BY <1>2, <1>10
  <2>2. t[4 + i] = b[e + (4 + i)]
    BY <1>11, <2>1, Zenon
  <2>3. b[e + 4 + i] = ClientText(s)[i]
    BY <1>12, Zenon
  <2>4. ClientText(s)[i] = ClientByte(i)
    BY <1>2, <2>1, ClientBytes, Zenon
  <2> QED
    BY <2>1, <2>2, <2>3, <2>4, Zenon
<1>15. 4 + c <= Len(t)
  BY <1>10, <1>11
<1> QED
  BY <1>2, <1>11, <1>13, <1>14, <1>15, Zenon DEF Follows

(* Bytes that are alike make the same sequence. *)
LEMMA Alike ==
  ASSUME NEW n \in Nat, NEW v \in Seq(Byte), NEW w \in Seq(Byte), Len(v) = n, Len(w) = n,
         \A i \in 1 .. n : v[i] = w[i]
  PROVE  Same(v, w)
BY SeqEqual, SMT DEF Same

(* ... so the JWT that is found begins with the claims. *)
LEMMA ScannedClient ==
  ASSUME NEW s \in Sent, Scanned(s), NEW b, Body(s, b), RequestIn(s, b), ClaimsIn(s, b),
         NEW u, u = NextJwt(AfterRequest(s, b))
  PROVE  u # <<>> /\ IsPrefix(SubSeq(ClientText(s), 1, s.claims), u)
<1>1. PICK k \in Nat, c \in Nat : k = s.client /\ c = s.claims /\ k >= 3 /\ c >= 3 /\ c <= k
  BY LoginTypes, Zenon
<1>2. PICK t : t = AfterRequest(s, b) /\ Follows(t, c)
  BY <1>1, ClientFollows, Zenon
<1>3. t \in Seq(Byte) /\ 4 + c <= Len(t) /\ \A i \in 1 .. c : t[4 + i] = ClientByte(i)
  BY <1>2, Zenon DEF Follows
<1>4. PICK x \in Nat : 4 + c <= x /\ x <= Len(t) /\ NextJwt(t) = SubSeq(t, 5, x)
  BY <1>2, JwtIs, Zenon
<1>5. PICK n \in Nat : n = Len(t)
  BY <1>3, LenProperties
<1>6. u = SubSeq(t, 5, x)
  BY <1>2, <1>4, Zenon
<1>7. 5 \in 1 .. n + 1 /\ x \in 5 - 1 .. n /\ x - 5 + 1 >= c /\ x <= n
  BY <1>1, <1>4, <1>5
<1>8. u \in Seq(Byte) /\ Len(u) >= c
  <2>1. SubSeq(t, 5, x) \in Seq(Byte) /\ Len(SubSeq(t, 5, x)) = x - 5 + 1
    BY <1>3, <1>5, <1>7
  <2> QED
    BY <1>6, <1>7, <2>1, Zenon
<1>9. ASSUME NEW i \in 1 .. c PROVE u[i] = ClientByte(i)
  <2>1. 5 + i - 1 = 4 + i /\ i \in 1 .. x - 5 + 1
    BY <1>7
  <2>2. SubSeq(t, 5, x)[i] = t[5 + i - 1]
    BY <1>3, <1>5, <1>7, <2>1, SubSeqProperties
  <2> QED
    BY <1>3, <1>6, <2>1, <2>2, Zenon
<1>10. PICK d \in Seq(Byte) : d = ClientText(s) /\ Len(d) = k /\ \A i \in 1 .. k : d[i] = ClientByte(i)
  BY <1>1, PartTypes, ClientBytes, Zenon
<1>11. SubSeq(d, 1, c) = SubSeq(u, 1, c)
  <2>1. PICK m \in Nat : m = Len(u) /\ c <= m
    <3>1. Len(u) \in Nat
      BY <1>8, LenProperties
    <3> QED
      BY <1>8, <3>1
  <2>2. PICK v \in Seq(Byte) : v = SubSeq(u, 1, c) /\ Len(v) = c /\ \A i \in 1 .. c : v[i] = u[i]
    <3>1. c <= Len(u)
      BY <2>1
    <3>2. SubSeq(u, 1, c) \in Seq(Byte) /\ Len(SubSeq(u, 1, c)) = c /\ \A i \in 1 .. c : SubSeq(u, 1, c)[i] = u[i]
      BY <1>8, <3>1, Cut
    <3> QED
      BY <3>2, Zenon
  <2>3. PICK w \in Seq(Byte) : w = SubSeq(d, 1, c) /\ Len(w) = c /\ \A i \in 1 .. c : w[i] = d[i]
    <3>1. c <= Len(d)
      BY <1>1, <1>10
    <3>2. SubSeq(d, 1, c) \in Seq(Byte) /\ Len(SubSeq(d, 1, c)) = c /\ \A i \in 1 .. c : SubSeq(d, 1, c)[i] = d[i]
      BY <3>1, Cut
    <3> QED
      BY <3>2, Zenon
  <2>4. ASSUME NEW i \in 1 .. c PROVE v[i] = w[i]
    <3>1. i \in 1 .. k
      BY <1>1
    <3>2. d[i] = ClientByte(i)
      BY <1>10, <3>1, Zenon
    <3> QED
      BY <1>9, <2>2, <2>3, <3>2, Zenon
  <2>5. v = w
    <3>1. Same(v, w)
      BY <2>2, <2>3, <2>4, Alike, Zenon
    <3> QED
      BY <3>1, Zenon DEF Same
  <2> QED
    BY <2>2, <2>3, <2>5, Zenon
<1>12. IsPrefix(SubSeq(u, 1, c), u)
  <2>1. c <= Len(u)
    <3>1. Len(u) \in Nat
      BY <1>8, LenProperties
    <3> QED
      BY <1>8, <3>1
  <2> QED
    BY <1>8, <2>1, PrefixOfItself, Zenon
<1>13. u # <<>>
  BY <1>1, <1>8, EmptySeq
<1> QED
  BY <1>1, <1>10, <1>11, <1>12, <1>13, Zenon

(* What the scan returns. *)
ScanRight(s, b, p) ==
  /\ RequestIn(s, b) => p # Nothing /\ p.request
  /\ RequestIn(s, b) /\ ClaimsIn(s, b) /\ ~ KnownLayout(s) => p.client = "blob"

LEMMA ScanIdentity ==
  ASSUME sent \in Sent, Scanned(sent), Body(sent, body), RequestIn(sent, body), NoBrace(sent),
         NEW end, end = SpanEnd(body),
         NEW p, p = Identity("scan", SubSeq(body, Begin(body), end),
                             NextJwt(SubSeq(body, end + 1, Len(body))))
  PROVE  ScanRight(sent, body, p)
<1>1. PICK s \in Sent : s = sent
  OBVIOUS
<1>2. Scanned(s) /\ Body(s, body) /\ RequestIn(s, body) /\ NoBrace(s)
  BY <1>1, Zenon
<1>3. /\ end = Len(BeforeRequest(s)) + s.request
      /\ SubSeq(body, Begin(body), end) = RequestText(s)
  BY <1>2, ScannedRequest, Zenon
<1>4. PICK u : u = NextJwt(AfterRequest(s, body))
  OBVIOUS
<1>5. p = Identity("scan", RequestText(s), u)
  BY <1>3, <1>4, Zenon DEF AfterRequest
<1>6. IsIdentity(p, "scan", RequestText(s), u)
  <2>1. "scan" \in Framings
    BY DEF Framings
  <2> QED
    BY <1>5, <2>1, IdentityIs, Zenon
<1>7. p # Nothing /\ p.request
  BY <1>1, <1>6, Zenon DEF IsIdentity
<1>8. ASSUME ClaimsIn(s, body) PROVE p.client = "blob"
  <2>1. u # <<>> /\ IsPrefix(SubSeq(ClientText(s), 1, s.claims), u)
    BY <1>2, <1>4, <1>8, ScannedClient, Zenon
  <2>2. ClientOf(RequestText(s), u) = "blob"
    BY <1>1, <2>1, Zenon DEF ClientOf
  <2> QED
    BY <1>6, <2>2, Zenon DEF IsIdentity
<1> QED
  BY <1>1, <1>7, <1>8, Zenon DEF ScanRight

-----------------------------------------------------------------------------
(* In a layout the parser does not know, neither framing is taken for it: the request     *)
(* that would be read has no length, or a length that does not fit, or begins in the      *)
(* middle of the request, where no brace is.                                              *)

Takes(b, p, inner) ==
  Holds(b, Length(b, p, inner)) /\ b[Length(b, p, inner).next] = Open

LEMMA AcceptsTakes ==
  ASSUME NEW b \in Seq(Byte), NEW inner, Accepts(b, inner)
  PROVE  Varuint32(b, 5).next # 0 /\ Takes(b, Varuint32(b, 5).next, inner)
<1>1. PICK z : z = Varuint32(b, 5)
  OBVIOUS
<1>2. PICK t : t = Request(b, inner).text /\ t # <<>> /\ t[1] = Open
  BY Zenon DEF Accepts
<1>3. z.next # 0
  <2>1. SUFFICES ASSUME z.next = 0 PROVE FALSE
    OBVIOUS
  <2>2. Request(b, inner) = [text |-> <<>>, next |-> Len(b) + 1]
    BY <1>1, <2>1, RequestFollowsSize, Zenon
  <2>3. Request(b, inner).text = <<>>
    BY <2>2
  <2> QED
    BY <1>2, <2>3, Zenon
<1>4. PICK p \in Nat \ {0} : p = z.next
  <2>1. 5 \in Nat \ {0} /\ Unread.next = 0
    BY DEF Unread
  <2>2. IsLength(z)
    BY <1>1, <2>1, VaruintType32, Zenon
  <2>3. z.next \in Nat \ {0}
    BY <1>3, <2>1, <2>2, Zenon DEF IsLength
  <2> QED
    BY <2>3, Zenon
<1>5. PICK at \in Nat : p = at + 1
  <2>1. p - 1 \in Nat /\ p = (p - 1) + 1
    OBVIOUS
  <2> QED
    BY <2>1, Zenon
<1>6. PICK l : l = Length(b, p, inner)
  OBVIOUS
<1>7. Request(b, inner) = Blob(b, at + 1, inner)
  BY <1>1, <1>3, <1>4, <1>5, RequestFollowsSize, Zenon
<1>8. Holds(b, l)
  <2>1. SUFFICES ASSUME ~ Holds(b, l) PROVE FALSE
    OBVIOUS
  <2>2. Blob(b, at + 1, inner) = [text |-> <<>>, next |-> Len(b) + 1]
    BY <1>5, <1>6, <2>1, BlobHeld, Zenon
  <2>3. Blob(b, at + 1, inner).text = <<>>
    BY <2>2
  <2> QED
    BY <1>2, <1>7, <2>3, Zenon
<1>9. t = SubSeq(b, l.next, l.next + l.length - 1)
  <2>0. Length(b, at + 1, inner) = l
    BY <1>5, <1>6, Zenon
  <2>1. Blob(b, at + 1, inner) = [text |-> SubSeq(b, l.next, l.next + l.length - 1),
                                  next |-> l.next + l.length]
    BY <1>8, <2>0 DEF Blob
  <2>2. Blob(b, at + 1, inner).text = SubSeq(b, l.next, l.next + l.length - 1)
    BY <2>1
  <2> QED
    BY <1>2, <1>7, <2>2, Zenon
<1>10. PICK n \in Int, x \in Nat \ {0} : n = l.length /\ x = l.next
  <2>1. IsLength(l)
    BY <1>6, LengthType, Zenon
  <2>2. l # Unread
    BY <1>8, SMT DEF Holds, Unread
  <2> QED
    BY <2>1, <2>2, Zenon DEF IsLength
<1>11. PICK m \in Nat : m = Len(b) /\ n > 0 /\ n <= m - x + 1
  <2>1. Len(b) \in Nat
    BY LenProperties
  <2> QED
    BY <1>8, <1>10, <2>1, Zenon DEF Holds
<1>12. t[1] = b[x]
  <2>1. /\ x \in 1 .. m + 1 /\ x + n - 1 \in x - 1 .. m
        /\ 1 \in 1 .. (x + n - 1) - x + 1 /\ x + 1 - 1 = x
    BY <1>11
  <2>2. SubSeq(b, x, x + n - 1)[1] = b[x + 1 - 1]
    BY <1>11, <2>1, SubSeqProperties
  <2> QED
    BY <1>9, <1>10, <2>1, <2>2, Zenon
<1> QED
  BY <1>1, <1>2, <1>3, <1>4, <1>6, <1>8, <1>10, <1>12, Zenon DEF Takes

LEMMA LeTakes ==
  ASSUME NEW b \in Seq(Byte), NEW p \in Nat \ {0}, Takes(b, p, "le")
  PROVE  b[p + 4] = Open
<1>1. Length(b, p, "le") = Int32Le(b, p)
  BY Zenon DEF Length
<1>4. PICK m \in Nat : m = Len(b)
  BY LenProperties
<1>2. CASE p + 3 > m
  <2>1. Int32Le(b, p) = Unread
    BY <1>2, <1>4, SMT DEF Int32Le
  <2>2. ~ (Unread.length > 0)
    BY SMT DEF Unread
  <2> QED
    BY <1>1, <2>1, <2>2, Zenon DEF Takes, Holds
<1>3. CASE ~ (p + 3 > m)
  <2>1. Int32Le(b, p).next = p + 4
    BY <1>3, <1>4, SMT DEF Int32Le
  <2> QED
    BY <1>1, <2>1, Zenon DEF Takes
<1> QED
  BY <1>2, <1>3, Zenon

(* Where a varuint32 ends. *)
LEMMA EndOfVaruint ==
  ASSUME NEW b \in Seq(Byte), NEW p \in Nat \ {0}, NEW k \in 0 .. 5, p + k <= Len(b), b[p + k] < 128,
         \A j \in 0 .. k - 1 : b[p + j] >= 128
  PROVE  Varuint32(b, p).next = p + k + 1
<1>1. Varuint32(b, p) = ReadUpTo(b, p, p + k)
  BY VaruintAt
<1>2. ReadUpTo(b, p, p + k).next = p + k + 1
  BY SMT DEF ReadUpTo
<1> QED
  BY <1>1, <1>2, Zenon

LEMMA ZeroIsNoLength ==
  ASSUME NEW b \in Seq(Byte), NEW p \in Nat \ {0}, p <= Len(b), b[p] = 0
  PROVE  ~ Takes(b, p, "varuint32")
<1>1. PICK k \in 0 .. 3, v \in Nat : k = 0 /\ v = 0
  OBVIOUS
<1>2. DigitsFrom(b, p, k, v, v, v, v)
  <2>1. 0 % 128 = 0
    OBVIOUS
  <2>2. ~ (1 <= k) /\ ~ (2 <= k) /\ ~ (3 <= k)
    BY <1>1
  <2> QED
    BY <1>1, <2>1, <2>2, Zenon DEF DigitsFrom
<1>3. DigitsAre(b, p, k, v, v, v, v)
  BY <1>2, ReadIs, Zenon
<1>4. ReadUpTo(b, p, p + k).length = 0
  BY <1>1, <1>3, SMT DEF DigitsAre
<1>5. Varuint32(b, p) = ReadUpTo(b, p, p + k)
  <2>1. p + k <= Len(b) /\ b[p + k] < 128 /\ \A j \in 0 .. k - 1 : b[p + j] >= 128
    BY <1>1
  <2>2. k \in 0 .. 5
    OBVIOUS
  <2> QED
    BY <2>1, <2>2, VaruintAt, SMT
<1>6. ~ (Varuint32(b, p).length > 0)
  BY <1>4, <1>5
<1>7. Length(b, p, "varuint32") = Varuint32(b, p)
  BY DEF Length
<1> QED
  BY <1>6, <1>7, Zenon DEF Takes, Holds

LEMMA VaruintTakes ==
  ASSUME NEW b \in Seq(Byte), NEW p \in Nat \ {0}, NEW k \in 0 .. 5, p + k <= Len(b), b[p + k] < 128,
         \A j \in 0 .. k - 1 : b[p + j] >= 128, Takes(b, p, "varuint32")
  PROVE  b[p + k + 1] = Open
<1>1. Varuint32(b, p).next = p + k + 1
  BY EndOfVaruint
<1>2. Length(b, p, "varuint32") = Varuint32(b, p)
  BY DEF Length
<1> QED
  BY <1>1, <1>2, Zenon DEF Takes

(* The bytes 5 to 8 end the length around the blobs, or it is read from the middle of the *)
(* request's length.                                                                      *)
Early(b) ==
  \/ b[7] = 0 /\ b[8] = 0
  \/ b[5] = 0 /\ b[6] = 0
  \/ b[5] = 0 /\ b[6] < 128 /\ b[7] # Open
  \/ b[6] = 0 /\ b[7] = 0

NoOpen(b) == b[10] # Open /\ b[11] # Open /\ (b[12] # Open \/ b[5] = 0)

LEMMA EarlyRefused ==
  ASSUME NEW b \in Seq(Byte), 12 <= Len(b), Early(b), NoOpen(b), NEW inner, KnownFraming(inner)
  PROVE  ~ Accepts(b, inner)
<1>1. SUFFICES ASSUME Accepts(b, inner) PROVE FALSE
  OBVIOUS
<1>2. PICK m \in Nat : m = Len(b) /\ 12 <= m
  BY LenProperties
<1>3. PICK z : z = Varuint32(b, 5).next
  OBVIOUS
<1>4. Takes(b, z, inner)
  BY <1>1, <1>3, AcceptsTakes, Zenon
<1>5. PICK v \in 0 .. 255, w \in 0 .. 255 : v = b[5] /\ w = b[6]
  <2>1. 5 \in 1 .. Len(b) /\ 6 \in 1 .. Len(b)
    BY <1>2
  <2>2. b[5] \in 0 .. 255 /\ b[6] \in 0 .. 255
    BY <2>1, ElementOfSeq, ZenonT(40) DEF Byte
  <2> QED
    BY <2>2, Zenon
<1>6. Open = 123
  BY DEF Open
(* Which byte ends that length. *)
<1>7. CASE v < 128
  <2>0. b[5] < 128
    BY <1>5, <1>7, Zenon
  <2>1. z = 6
    <3>1. 5 \in Nat \ {0} /\ 0 \in 0 .. 5 /\ 5 + 0 <= Len(b) /\ b[5 + 0] < 128
          /\ \A j \in 0 .. 0 - 1 : b[5 + j] >= 128
      BY <1>2, <2>0
    <3>2. Varuint32(b, 5).next = 5 + 0 + 1
      BY <3>1, EndOfVaruint
    <3> QED
      BY <1>3, <3>2
  <2>2. CASE inner = "le"
    <3>1. b[6 + 4] = Open
      <4>1. 6 \in Nat \ {0}
        OBVIOUS
      <4> QED
        BY <1>4, <2>1, <2>2, <4>1, LeTakes, Zenon
    <3> QED
      BY <3>1, SMT DEF NoOpen
  <2>3. CASE inner = "varuint32"
    <3>1. Takes(b, 6, "varuint32")
      BY <1>4, <2>1, <2>3, Zenon
    <3>2. b[6] # 0
      <4>1. 6 \in Nat \ {0} /\ 6 <= Len(b)
        BY <1>2
      <4> QED
        BY <3>1, <4>1, ZeroIsNoLength, Zenon
    <3>3. CASE w < 128
      <4>0. b[6] < 128
        BY <1>5, <3>3, Zenon
      <4>1. 6 \in Nat \ {0} /\ 0 \in 0 .. 5 /\ 6 + 0 <= Len(b) /\ b[6 + 0] < 128
            /\ \A j \in 0 .. 0 - 1 : b[6 + j] >= 128
        BY <1>2, <4>0
      <4>2. b[6 + 0 + 1] = Open
        BY <3>1, <4>1, VaruintTakes
      <4> QED
        BY <1>6, <3>2, <4>2, SMT DEF Early
    <3>4. CASE w >= 128
      <4>0. b[6] >= 128
        BY <1>5, <3>4, Zenon
      <4>1. b[7] = 0 /\ b[8] = 0
        <5>1. w # 0 /\ ~ (w < 128)
          BY <3>4
        <5> QED
          BY <1>5, <5>1, Zenon DEF Early
      <4>2. 6 \in Nat \ {0} /\ 1 \in 0 .. 5 /\ 6 + 1 <= Len(b) /\ b[6 + 1] < 128
            /\ \A j \in 0 .. 1 - 1 : b[6 + j] >= 128
        BY <1>2, <4>0, <4>1
      <4>3. b[6 + 1 + 1] = Open
        BY <3>1, <4>2, VaruintTakes
      <4> QED
        BY <1>6, <4>1, <4>3
    <3> QED
      BY <3>3, <3>4
  <2> QED
    BY <2>2, <2>3, Zenon DEF KnownFraming
<1>8. CASE v >= 128 /\ w < 128
  <2>0. b[7] = 0 /\ b[5] >= 128 /\ b[6] < 128
    <3>1. v # 0
      BY <1>8
    <3> QED
      BY <1>5, <1>8, <3>1, Zenon DEF Early
  <2>1. z = 7
    <3>1. 5 \in Nat \ {0} /\ 1 \in 0 .. 5 /\ 5 + 1 <= Len(b) /\ b[5 + 1] < 128
          /\ \A j \in 0 .. 1 - 1 : b[5 + j] >= 128
      BY <1>2, <2>0
    <3>2. Varuint32(b, 5).next = 5 + 1 + 1
      BY <3>1, EndOfVaruint
    <3> QED
      BY <1>3, <3>2
  <2>2. 7 \in Nat \ {0} /\ 7 <= Len(b)
    BY <1>2
  <2>3. CASE inner = "le"
    <3>1. b[7 + 4] = Open
      BY <1>4, <2>1, <2>2, <2>3, LeTakes, Zenon
    <3> QED
      BY <3>1, SMT DEF NoOpen
  <2>4. CASE inner = "varuint32"
    BY <1>4, <2>0, <2>1, <2>2, <2>4, ZeroIsNoLength, Zenon
  <2> QED
    BY <2>3, <2>4, Zenon DEF KnownFraming
<1>9. CASE v >= 128 /\ w >= 128
  <2>0. b[7] = 0 /\ b[8] = 0 /\ b[5] >= 128 /\ b[6] >= 128
    <3>1. v # 0 /\ w # 0
      BY <1>9
    <3> QED
      BY <1>5, <1>9, <3>1, Zenon DEF Early
  <2>1. z = 8
    <3>1. 5 \in Nat \ {0} /\ 2 \in 0 .. 5 /\ 5 + 2 <= Len(b) /\ b[5 + 2] < 128
          /\ \A j \in 0 .. 2 - 1 : b[5 + j] >= 128
      BY <1>2, <2>0
    <3>2. Varuint32(b, 5).next = 5 + 2 + 1
      BY <3>1, EndOfVaruint
    <3> QED
      BY <1>3, <3>2
  <2>2. 8 \in Nat \ {0} /\ 8 <= Len(b)
    BY <1>2
  <2>3. CASE inner = "le"
    <3>1. b[8 + 4] = Open
      BY <1>4, <2>1, <2>2, <2>3, LeTakes, Zenon
    <3>2. b[12] = Open
      BY <3>1
    <3>3. b[5] # 0
      <4>1. v # 0
        BY <1>9
      <4> QED
        BY <1>5, <4>1, Zenon
    <3> QED
      BY <3>2, <3>3, Zenon DEF NoOpen
  <2>4. CASE inner = "varuint32"
    BY <1>4, <2>0, <2>1, <2>2, <2>4, ZeroIsNoLength, Zenon
  <2> QED
    BY <2>3, <2>4, Zenon DEF KnownFraming
<1> QED
  BY <1>7, <1>8, <1>9

(* A length that has its high bytes first is 0, taken for a varuint32, and too long or    *)
(* negative, taken for an int32.                                                          *)
LEMMA BackwardsRefused ==
  ASSUME NEW b \in Seq(Byte), Short(Len(b)), NEW p \in Nat \ {0}, p + 3 <= Len(b),
         NEW v \in Byte, NEW w \in Byte, AreOctets(b, p, 0, 0, w, v), v + 256 * w > 0,
         NEW inner, KnownFraming(inner)
  PROVE  ~ Takes(b, p, inner)
<1>1. PICK m \in Nat : m = Len(b)
  BY LenProperties
<1>2. CASE inner = "varuint32"
  <2>1. p <= Len(b) /\ b[p] = 0
    BY <1>1 DEF AreOctets
  <2> QED
    BY <1>2, <2>1, ZeroIsNoLength, Zenon
<1>3. CASE inner = "le"
  <2>1. PICK y \in Int : y = IF v < 128 THEN v ELSE v - 256
    BY DEF Byte
  <2>2. PICK n \in Int : n = 65536 * w + 16777216 * y
    <3>1. 65536 * w + 16777216 * y \in Int
      BY SMT DEF Byte
    <3> QED
      BY <3>1, SMT
  <2>3. Int32Le(b, p) = [length |-> n, next |-> p + 4]
    <3>1. ~ (p + 3 > Len(b))
      BY <1>1
    <3> QED
      BY <2>1, <2>2, <3>1, SMT DEF Int32Le, AreOctets
  <2>4. ~ (n > 0 /\ n <= m - (p + 4) + 1)
    <3>1. m < 65536
      BY <1>1, SMT DEF Short
    <3> QED
      BY <2>1, <2>2, <3>1, SMT DEF Byte
  <2>5. Int32Le(b, p).length = n /\ Int32Le(b, p).next = p + 4
    BY <2>3, SMT
  <2>6. ~ Holds(b, Int32Le(b, p))
    BY <1>1, <2>4, <2>5, SMT DEF Holds
  <2>7. Length(b, p, inner) = Int32Le(b, p)
    BY <1>3, Zenon DEF Length
  <2> QED
    BY <2>6, <2>7, Zenon DEF Takes
<1> QED
  BY <1>2, <1>3, Zenon DEF KnownFraming

LEMMA ShortVaruint ==
  ASSUME NEW n \in Nat, Short(n)
  PROVE  InFour(n) /\ Len(Varuint(n)) \in 1 .. 3
<1>1. InFour(n)
  BY SMT DEF Short, InFour
<1>2. CASE n < 128
  <2>1. Len(Varuint(n)) = 1
    BY <1>2, VaruintIs, SMT
  <2> QED
    BY <1>1, <2>1, SMT
<1>3. CASE n >= 128 /\ n < 16384
  <2>1. Len(Varuint(n)) = 2
    BY <1>3, VaruintIs, SMT
  <2> QED
    BY <1>1, <2>1, SMT
<1>4. CASE n >= 16384
  <2>1. n < 2097152
    BY SMT DEF Short
  <2>2. Len(Varuint(n)) = 3
    BY <1>4, <2>1, VaruintIs, SMT
  <2> QED
    BY <1>1, <2>2, SMT
<1> QED
  BY <1>2, <1>3, <1>4, SMT

(* Where the request's length and its first characters are. *)
Around(b, p, r) == \A k \in 1 .. r : b[p + 4 + k] = RequestByte(r, k)
LengthAt(b, p, v, w, x, y) == b[p + 1] = v /\ b[p + 2] = w /\ b[p + 3] = x /\ b[p + 4] = y

LEMMA UnknownLaid ==
  ASSUME NEW s \in Sent, Scanned(s), NEW b, Body(s, b), RequestIn(s, b)
  PROVE  \E p \in Nat, r \in Nat, v \in Byte, w \in Byte :
           /\ p = Len(ProtocolOf(s) \o Size(s)) /\ r >= 14 /\ p + 4 + r <= Len(b)
           /\ r = v + 256 * w /\ Around(b, p, r)
           /\ IF s.layout = "big" THEN LengthAt(b, p, 0, 0, w, v) ELSE LengthAt(b, p, v, w, 0, 0)
<1>1. b \in Seq(Byte) /\ Laid(s, b)
  BY Zenon DEF Body
<1>2. PICK r \in Nat : r = s.request /\ r >= 14
  BY LoginTypes, Zenon
<1>3. PICK v \in Byte, w \in Byte :
        /\ r = v + 256 * w
        /\ IF s.layout = "big" THEN Octets(RequestPrefix(s), 0, 0, w, v)
           ELSE Octets(RequestPrefix(s), v, w, 0, 0)
  <2>1. Short(r)
    BY <1>2, ScannedSizes, Zenon
  <2> QED
    BY <1>2, <2>1, ScannedPrefix, ZenonT(40) DEF RequestPrefix
<1>4. Len(RequestPrefix(s)) = 4
  BY <1>3, Zenon DEF Octets
<1>5. PICK p \in Nat : p = Len(ProtocolOf(s) \o Size(s))
  <2>1. ProtocolOf(s) \o Size(s) \in Seq(Byte)
    BY PartTypes, Joined, Zenon
  <2> QED
    BY <2>1, LenProperties
<1>6. Len(BeforeRequest(s)) = p + 4
  BY <1>4, <1>5, Lengths, Zenon
<1>7. PICK m \in Nat : m = Len(b) /\ p + 4 + r <= m
  <2>1. Len(b) \in Nat
    BY <1>1, LenProperties
  <2> QED
    BY <1>2, <1>6, <2>1, Zenon DEF RequestIn
<1>8. Shows(b, p, RequestPrefix(s)) /\ Shows(b, p + 4, RequestText(s))
  BY <1>1, <1>5, <1>6, Zenon DEF Laid
<1>9. Around(b, p, r)
  <2>1. Len(RequestText(s)) = r /\ \A k \in 1 .. r : RequestText(s)[k] = RequestByte(r, k)
    BY <1>2, RequestTextIs, Zenon
  <2>2. ASSUME NEW k \in 1 .. r PROVE b[p + 4 + k] = RequestByte(r, k)
    <3>1. p + 4 + k <= m
      BY <1>7
    <3> QED
      BY <1>7, <1>8, <2>1, <3>1, Zenon DEF Shows
  <2> QED
    BY <2>2, Zenon DEF Around
<1>10. \A i \in 1 .. 4 : b[p + i] = RequestPrefix(s)[i]
  <2>1. ASSUME NEW i \in 1 .. 4 PROVE b[p + i] = RequestPrefix(s)[i]
    <3>1. p + i <= m
      BY <1>7
    <3> QED
      BY <1>4, <1>7, <1>8, <3>1, Zenon DEF Shows
  <2> QED
    BY <2>1, Zenon
<1>11. IF s.layout = "big" THEN LengthAt(b, p, 0, 0, w, v) ELSE LengthAt(b, p, v, w, 0, 0)
  <2>1. 1 \in 1 .. 4 /\ 2 \in 1 .. 4 /\ 3 \in 1 .. 4 /\ 4 \in 1 .. 4
    OBVIOUS
  <2>2. /\ b[p + 1] = RequestPrefix(s)[1] /\ b[p + 2] = RequestPrefix(s)[2]
        /\ b[p + 3] = RequestPrefix(s)[3] /\ b[p + 4] = RequestPrefix(s)[4]
    BY <1>10, <2>1, Zenon
  <2> QED
    BY <1>3, <2>2, Zenon DEF LengthAt, Octets
<1> QED
  BY <1>2, <1>3, <1>5, <1>7, <1>9, <1>11, Zenon

(* Without a length around the blobs, or without a protocol before it. *)
LEMMA EarlyIs ==
  ASSUME NEW b \in Seq(Byte), NEW p \in Nat, p \in 1 .. 4, NEW r \in Nat, r >= 14, p + 4 + r <= Len(b),
         NEW v \in Byte, NEW w \in Byte, LengthAt(b, p, v, w, 0, 0), Around(b, p, r)
  PROVE  12 <= Len(b) /\ Early(b) /\ NoOpen(b)
<1>1. PICK m \in Nat : m = Len(b)
  BY LenProperties
<1>2. 12 <= m
  BY <1>1
<1>3. ASSUME NEW k \in 1 .. 14, NEW i, i = p + 4 + k PROVE b[i] = RequestByte(r, k)
  <2>1. k \in 1 .. r
    OBVIOUS
  <2> QED
    BY <1>3, <2>1, Zenon DEF Around
<1>4. /\ RequestByte(r, 1) = Open /\ RequestByte(r, 2) = Quote /\ RequestByte(r, 3) = Backslash
      /\ RequestByte(r, 4) = Quote /\ RequestByte(r, 5) = Close /\ RequestByte(r, 6) = Quote
  BY SMT DEF RequestByte
<1>5. Quote # Open /\ Backslash # Open /\ Close # Open /\ Open < 128
  BY SMT DEF Quote, Backslash, Close, Open
<1>6. 1 \in 1 .. 14 /\ 2 \in 1 .. 14 /\ 3 \in 1 .. 14 /\ 4 \in 1 .. 14 /\ 5 \in 1 .. 14 /\ 6 \in 1 .. 14
  OBVIOUS
<1>7. b[p + 3] = 0 /\ b[p + 4] = 0
  BY Zenon DEF LengthAt
<1>8. CASE p = 4
  <2>1. 10 = p + 4 + 2 /\ 11 = p + 4 + 3 /\ 12 = p + 4 + 4 /\ 7 = p + 3 /\ 8 = p + 4
    BY <1>8
  <2>2. b[10] = Quote /\ b[11] = Backslash /\ b[12] = Quote
    BY <1>3, <1>4, <1>6, <2>1, Zenon
  <2>3. b[7] = 0 /\ b[8] = 0
    BY <1>7, <2>1, Zenon
  <2> QED
    BY <1>1, <1>2, <1>5, <2>2, <2>3, Zenon DEF Early, NoOpen
<1>9. CASE p = 3
  <2>1. 10 = p + 4 + 3 /\ 11 = p + 4 + 4 /\ 12 = p + 4 + 5 /\ 6 = p + 3 /\ 7 = p + 4
    BY <1>9
  <2>2. b[10] = Backslash /\ b[11] = Quote /\ b[12] = Close
    BY <1>3, <1>4, <1>6, <2>1, Zenon
  <2>3. b[6] = 0 /\ b[7] = 0
    BY <1>7, <2>1, Zenon
  <2> QED
    BY <1>1, <1>2, <1>5, <2>2, <2>3, Zenon DEF Early, NoOpen
<1>10. CASE p = 2
  <2>1. 10 = p + 4 + 4 /\ 11 = p + 4 + 5 /\ 12 = p + 4 + 6 /\ 5 = p + 3 /\ 6 = p + 4
    BY <1>10
  <2>2. b[10] = Quote /\ b[11] = Close /\ b[12] = Quote
    BY <1>3, <1>4, <1>6, <2>1, Zenon
  <2>3. b[5] = 0 /\ b[6] = 0
    BY <1>7, <2>1, Zenon
  <2> QED
    BY <1>1, <1>2, <1>5, <2>2, <2>3, Zenon DEF Early, NoOpen
<1>11. CASE p = 1
  <2>1. 10 = p + 4 + 5 /\ 11 = p + 4 + 6 /\ 5 = p + 4 /\ 6 = p + 4 + 1 /\ 7 = p + 4 + 2
    BY <1>11
  <2>2. b[10] = Close /\ b[11] = Quote /\ b[6] = Open /\ b[7] = Quote
    BY <1>3, <1>4, <1>6, <2>1, Zenon
  <2>3. b[5] = 0
    BY <1>7, <2>1, Zenon
  <2> QED
    BY <1>1, <1>2, <1>5, <2>2, <2>3, Zenon DEF Early, NoOpen
<1> QED
  BY <1>8, <1>9, <1>10, <1>11

LEMMA UnknownRefused ==
  ASSUME NEW s \in Sent, Scanned(s), NEW b, Body(s, b), RequestIn(s, b),
         NEW inner, KnownFraming(inner)
  PROVE  ~ Accepts(b, inner) /\ Len(b) >= 6
<1>1. b \in Seq(Byte) /\ Laid(s, b) /\ Len(b) <= Len(Encoded(s))
  BY Zenon DEF Body
<1>2. PICK p \in Nat, r \in Nat, v \in Byte, w \in Byte :
        /\ p = Len(ProtocolOf(s) \o Size(s)) /\ r >= 14 /\ p + 4 + r <= Len(b)
        /\ r = v + 256 * w /\ Around(b, p, r)
        /\ IF s.layout = "big" THEN LengthAt(b, p, 0, 0, w, v) ELSE LengthAt(b, p, v, w, 0, 0)
  BY UnknownLaid, Zenon
<1>3. PICK m \in Nat : m = Len(b)
  BY <1>1, LenProperties
<1>4. p + 4 + r <= m /\ Len(b) >= 6
  BY <1>2, <1>3
<1>5. InFour(Total(s)) /\ Len(Varuint(Total(s))) \in 1 .. 3
  <2>1. Total(s) \in Nat /\ Short(Total(s))
    BY PartTypes, ScannedSizes, Zenon
  <2> QED
    BY <2>1, ShortVaruint, Zenon
<1>6. p = Len(ProtocolOf(s)) + Len(Size(s))
  BY <1>2, Lengths, Zenon
<1>7. CASE s.layout \in {"bare", "unversioned"}
  <2>1. p \in 1 .. 4
    <3>1. CASE s.layout = "bare"
      <4>1. Len(Size(s)) = 0
        BY <3>1, SMT DEF Size
      <4>2. ProtocolOf(s) = s.protocol
        BY <3>1, SMT DEF ProtocolOf
      <4>3. Len(ProtocolOf(s)) = 4
        BY <4>2, LoginTypes, Zenon
      <4> QED
        BY <1>6, <4>1, <4>3
    <3>2. CASE s.layout = "unversioned"
      <4>1. Len(ProtocolOf(s)) = 0
        BY <3>2, SMT DEF ProtocolOf
      <4>2. Size(s) = Varuint(Total(s))
        BY <3>2, SMT DEF Size
      <4>3. PICK q \in 1 .. 3 : q = Len(Size(s))
        BY <1>5, <4>2, Zenon
      <4> QED
        BY <1>6, <4>1, <4>3
    <3> QED
      BY <1>7, <3>1, <3>2
  <2>2. LengthAt(b, p, v, w, 0, 0)
    <3>1. s.layout # "big"
      BY <1>7
    <3> QED
      BY <1>2, <3>1, Zenon
  <2>3. 12 <= Len(b) /\ Early(b) /\ NoOpen(b)
    BY <1>1, <1>2, <2>1, <2>2, EarlyIs, Zenon
  <2> QED
    BY <1>1, <1>4, <2>3, EarlyRefused, Zenon
<1>8. CASE s.layout = "big"
  <2>1. Size(s) = Varuint(Total(s)) /\ Len(ProtocolOf(s)) = 4
    <3>1. Size(s) = Varuint(Total(s)) /\ ProtocolOf(s) = s.protocol
      BY <1>8, SMT DEF Size, ProtocolOf
    <3> QED
      BY <3>1, LoginTypes, Zenon
  <2>2. PICK q \in 1 .. 3 : q = Len(Size(s)) /\ p = 4 + q
    BY <1>5, <1>6, <2>1, Zenon
  <2>3. Varuint32(b, 5).next = p + 1 /\ p + 1 \in Nat \ {0}
    <3>1. Shows(b, 4, Varuint(Total(s)))
      BY <1>1, <2>1, Zenon DEF Laid
    <3>2. 4 \in Nat /\ 4 + 1 = 5 /\ 4 + q <= m
      BY <1>4, <2>2
    <3>3. Total(s) \in Nat
      BY PartTypes, Zenon
    <3>4. IF 4 + Len(Varuint(Total(s))) <= Len(b)
            THEN Varuint32(b, 4 + 1) = [length |-> Total(s), next |-> 4 + Len(Varuint(Total(s))) + 1]
            ELSE Varuint32(b, 4 + 1) = Unread
      BY <1>1, <1>5, <3>1, <3>2, <3>3, VaruintReads, Zenon
    <3>5. Varuint32(b, 5) = [length |-> Total(s), next |-> p + 1]
      BY <1>3, <2>1, <2>2, <3>2, <3>4, Zenon
    <3>6. p + 1 \in Nat \ {0}
      OBVIOUS
    <3> QED
      BY <3>5, <3>6
  <2>4. AreOctets(b, p + 1, 0, 0, w, v)
    <3>1. (p + 1) + 1 = p + 2 /\ (p + 1) + 2 = p + 3 /\ (p + 1) + 3 = p + 4
      OBVIOUS
    <3> QED
      BY <1>2, <1>8, <3>1, Zenon DEF AreOctets, LengthAt
  <2>5. (p + 1) + 3 <= Len(b) /\ v + 256 * w > 0
    BY <1>2, <1>3, <1>4
  <2>6. Short(Len(b))
    <3>1. PICK e \in Nat : e = Len(Encoded(s)) /\ m <= e /\ Short(e)
      <4>1. Len(Encoded(s)) \in Nat
        BY EncodedIsLaid, LenProperties
      <4>2. Short(Len(Encoded(s)))
        BY ScannedSizes, Zenon
      <4> QED
        BY <1>1, <1>3, <4>1, <4>2, Zenon
    <3>2. Short(m)
      BY <3>1, SMT DEF Short
    <3> QED
      BY <1>3, <3>2, Zenon
  <2>7. ~ Takes(b, p + 1, inner)
    BY <1>1, <2>3, <2>4, <2>5, <2>6, BackwardsRefused, Zenon
  <2> QED
    BY <1>1, <1>4, <2>3, <2>7, AcceptsTakes, Zenon
<1>9. s.layout \in {"bare", "unversioned"} \/ s.layout = "big"
  <2>1. s.layout \in Layouts /\ ~ KnownLayout(s)
    BY LoginTypes, Zenon DEF Scanned
  <2> QED
    BY <2>1 DEF Layouts, KnownLayout
<1> QED
  BY <1>7, <1>8, <1>9, Zenon

-----------------------------------------------------------------------------
(* What becomes of a framing that parse_login_body does not know: both attempts refuse it, *)
(* and the scan finds what the relay sent.                                                 *)

Sought == Scanned(sent) /\ NoBrace(sent) /\ RequestIn(sent, body)

ScanInv == trying = "done" /\ Sought => ScanRight(sent, body, parsed)

LEMMA SoughtRefused ==
  ASSUME IInv, Sought, NEW inner, KnownFraming(inner)
  PROVE  ~ Accepts(body, inner) /\ Len(body) >= 6
<1>1. PICK s \in Sent : s = sent
  BY DEF IInv
<1>2. Scanned(s) /\ Body(s, body) /\ RequestIn(s, body)
  BY <1>1, Zenon DEF IInv, Sought
<1> QED
  BY <1>2, UnknownRefused, Zenon

LEMMA SoughtSpan == ASSUME IInv, Sought PROVE SpanEnd(body) # 0
<1>1. PICK s \in Sent : s = sent
  BY DEF IInv
<1>2. Body(s, body) /\ RequestIn(s, body) /\ NoBrace(s)
  BY <1>1, Zenon DEF IInv, Sought
<1>3. SpanEnd(body) > 0
  BY <1>2, ScannedRequest, Zenon
<1>4. ~ (0 > 0)
  OBVIOUS
<1> QED
  BY <1>3, <1>4, Zenon

LEMMA InitScanInv == Init => ScanInv
<1> SUFFICES ASSUME Init PROVE ScanInv
  OBVIOUS
<1>1. trying # "done"
  BY DEF Init
<1> QED
  BY <1>1, Zenon DEF ScanInv

LEMMA NextScanInv == IInv /\ ScanInv /\ [Next]_vars => ScanInv'
<1> SUFFICES ASSUME IInv, ScanInv, [Next]_vars, trying' = "done", Sought'
             PROVE  ScanRight(sent', body', parsed')
  BY Zenon DEF ScanInv
<1>1. sent' = sent /\ body' = body
  BY DEF Next, vars, TooShort, Accept, TryNext, ScanFails, Scan, Done, Return
<1>2. Sought
  BY <1>1, Zenon DEF Sought
<1>3. CASE TooShort
  <2>1. PICK m \in Nat : m = Len(body)
    BY LenProperties DEF IInv, Body
  <2>2. ~ Accepts(body, "le") /\ Len(body) >= 6
    BY <1>2, SoughtRefused, Zenon DEF KnownFraming
  <2> QED
    BY <1>3, <2>1, <2>2 DEF TooShort
<1>4. CASE Accept("le") \/ Accept("varuint32")
  BY <1>2, <1>4, SoughtRefused, Zenon DEF Accept, KnownFraming
<1>5. CASE TryNext("le", "varuint32") \/ TryNext("varuint32", "scan")
  BY <1>5 DEF TryNext
<1>6. CASE ScanFails
  BY <1>2, <1>6, SoughtSpan, Zenon DEF ScanFails
<1>7. CASE Scan
  <2>1. PICK p : p = Identity("scan", SubSeq(body, Begin(body), SpanEnd(body)),
                              NextJwt(SubSeq(body, SpanEnd(body) + 1, Len(body))))
    OBVIOUS
  <2>2. parsed' = p
    BY <1>7, <2>1, Zenon DEF Scan, Return
  <2>3. ScanRight(sent, body, p)
    <3>1. sent \in Sent /\ Body(sent, body)
      BY Zenon DEF IInv
    <3>2. PICK end : end = SpanEnd(body)
      OBVIOUS
    <3>3. p = Identity("scan", SubSeq(body, Begin(body), end),
                       NextJwt(SubSeq(body, end + 1, Len(body))))
      BY <2>1, <3>2, Zenon
    <3> QED
      BY <1>2, <3>1, <3>2, <3>3, ScanIdentity, Zenon DEF Sought
  <2> QED
    BY <1>1, <2>2, <2>3, Zenon
<1>8. CASE UNCHANGED vars
  BY <1>1, <1>2, <1>8, Zenon DEF vars, ScanInv
<1>9. CASE Done
  BY <1>8, <1>9, Zenon DEF Done
<1> QED
  BY <1>3, <1>4, <1>5, <1>6, <1>7, <1>8, <1>9, Zenon DEF Next

LEMMA ScanInvFinds == IInv /\ ScanInv => ScanFindsRequest
<1> SUFFICES ASSUME IInv, ScanInv, trying = "done", Len(Encoded(sent)) < MaxScanned, NoBrace(sent)
             PROVE  /\ RequestArrived => Read /\ parsed.request
                    /\ RequestArrived /\ ClaimsArrived /\ ~Known => parsed.client = "blob"
  BY Zenon DEF ScanFindsRequest, NoBrace
<1>1. sent \in Sent /\ Body(sent, body)
  BY Zenon DEF IInv
<1>2. PICK m \in Nat : m = Len(body)
  BY <1>1, LenProperties DEF Body
<1>3. PICK n \in Nat : n = Len(BeforeRequest(sent)) + sent.request
  <2>1. /\ Len(ProtocolOf(sent)) \in Nat /\ Len(Size(sent)) \in Nat /\ Len(RequestPrefix(sent)) \in Nat
        /\ sent.request \in Nat
    BY <1>1, PartTypes, LoginTypes, LenProperties
  <2> QED
    BY <1>1, <2>1, Lengths
<1>4. PICK c \in Nat : c = Len(BeforeClient(sent)) + sent.claims
  <2>1. Len(ClientPrefix(sent)) \in Nat /\ sent.claims \in Nat
    BY <1>1, PartTypes, LoginTypes
  <2> QED
    BY <1>1, <1>3, <2>1, Lengths
<1>5. (RequestArrived => RequestIn(sent, body)) /\ (ClaimsArrived => ClaimsIn(sent, body))
  <2>1. (m >= n => n <= m) /\ (m >= c => c <= m)
    OBVIOUS
  <2> QED
    BY <1>2, <1>3, <1>4, <2>1, Zenon DEF RequestArrived, RequestIn, ClaimsArrived, ClaimsIn
<1>6. Known <=> KnownLayout(sent)
  BY Zenon DEF Known, KnownLayout
<1>7. CASE KnownLayout(sent)
  BY <1>6, <1>7, IInvRight, Zenon DEF RequestIsRead
<1>8. CASE ~ KnownLayout(sent)
  <2>1. RequestIn(sent, body) => ScanRight(sent, body, parsed)
    BY <1>8, Zenon DEF ScanInv, Sought, Scanned
  <2> QED
    BY <1>5, <1>6, <1>8, <2>1, Zenon DEF ScanRight, Read
<1> QED
  BY <1>7, <1>8, Zenon

(* For a body below 64 KB without a brace before the request, framed in any of the layouts *)
(* -- other lengths, no length around the blobs, no protocol before them -- the request is *)
(* found if it arrived, and its client data if its claims did (login_body.py:190-211).     *)
THEOREM ScanFindsAlways == Spec => []ScanFindsRequest
<1>1. Init => IInv /\ ScanInv
  BY InitIInv, InitScanInv, Zenon
<1>2. (IInv /\ ScanInv) /\ [Next]_vars => (IInv /\ ScanInv)'
  BY NextIInv, NextScanInv, Zenon
<1>3. IInv /\ ScanInv => ScanFindsRequest
  BY ScanInvFinds, Zenon
<1> QED
  BY <1>1, <1>2, <1>3, PTL DEF Spec
=============================================================================
