-------------------------- MODULE GuestStringProofs --------------------------
(***************************************************************************)
(* Theorems about GuestString, for every text, every pointer and every     *)
(* value of the bytes a string does not use: detect finds the layout there *)
(* is or none, read gives what the library holds, and what assign leaves   *)
(* behind is the XUID, within the string's own bytes.                      *)
(***************************************************************************)
EXTENDS GuestString, SequenceTheorems, TLAPS

Pattern == [1 .. 8 -> Byte]

(* Lemmas about sequences of bytes and the operators that look at an object. *)

LEMMA MakeSeq ==
  ASSUME NEW n \in Nat, NEW s \in [1 .. n -> Byte]
  PROVE  s \in Seq(Byte) /\ Len(s) = n
<1>1. s \in Seq(Byte)
  BY SeqDef
<1>2. DOMAIN s = 1 .. Len(s) /\ Len(s) \in Nat
  BY <1>1, LenProperties
<1> QED
  BY <1>1, <1>2

LEMMA SmallIsText == Small \in Seq(Byte) /\ Len(Small) = 11
BY DEF Small, Byte

LEMMA LargeIsText == Large \in Seq(Byte) /\ Len(Large) = 40
<1>1. Large \in [1 .. 40 -> Byte]
  BY DEF Large, Byte
<1> QED
  BY <1>1, MakeSeq

LEMMA AtIsSeq ==
  ASSUME NEW o \in [Object -> Byte], NEW offset \in Nat, NEW n \in Nat, offset + n <= 32
  PROVE  /\ At(o, offset, n) \in Seq(Byte) /\ Len(At(o, offset, n)) = n
         /\ \A i \in 1 .. n : At(o, offset, n)[i] = o[offset + i - 1]
<1>1. At(o, offset, n) \in [1 .. n -> Byte]
  BY DEF At, Object
<1> QED
  BY <1>1, MakeSeq DEF At

LEMMA AtIsText ==
  ASSUME NEW o, NEW offset \in Nat, NEW t \in Seq(Byte),
         \A i \in 1 .. Len(t) : o[offset + i - 1] = t[i]
  PROVE  At(o, offset, Len(t)) = t
<1>1. t \in [1 .. Len(t) -> Byte]
  BY LenProperties
<1> QED
  BY <1>1 DEF At

LEMMA Joined ==
  ASSUME NEW a \in Seq(Byte), NEW b \in Seq(Byte)
  PROVE  /\ a \o b \in Seq(Byte) /\ Len(a \o b) = Len(a) + Len(b)
         /\ \A i \in 1 .. Len(a) : (a \o b)[i] = a[i]
BY LenProperties

LEMMA JoinedTwice ==
  ASSUME NEW a \in Seq(Byte), NEW b \in Seq(Byte), NEW c \in Seq(Byte)
  PROVE  /\ (a \o b) \o c \in Seq(Byte)
         /\ Len((a \o b) \o c) = Len(a) + Len(b) + Len(c)
         /\ \A i \in 1 .. Len(a) : ((a \o b) \o c)[i] = a[i]
<1>1. Len(a) \in Nat /\ Len(b) \in Nat
  BY LenProperties
<1>2. PICK d \in Seq(Byte) : d = a \o b
  BY Joined
<1>3. Len(d) = Len(a) + Len(b) /\ \A i \in 1 .. Len(a) : d[i] = a[i]
  BY <1>2, Joined
<1>4. /\ d \o c \in Seq(Byte) /\ Len(d \o c) = Len(d) + Len(c)
      /\ \A i \in 1 .. Len(d) : (d \o c)[i] = d[i]
  BY Joined
<1>5. \A i \in 1 .. Len(a) : i \in 1 .. Len(d)
  BY <1>1, <1>3
<1> QED
  BY <1>2, <1>3, <1>4, <1>5

LEMMA BufferHolds ==
  ASSUME NEW t \in Seq(Byte), NEW fill \in Byte
  PROVE  /\ Buffer(t, fill) \in Seq(Byte) /\ Len(Buffer(t, fill)) = Len(t) + 71
         /\ SubSeq(Buffer(t, fill), 1, Len(t)) = t
<1>1. PICK zero \in Seq(Byte) : zero = <<0>> /\ Len(zero) = 1
  <2>1. <<0>> \in Seq(Byte) /\ Len(<<0>>) = 1
    BY DEF Byte
  <2> QED
    BY <2>1
<1>2. PICK rest \in Seq(Byte) : rest = [i \in 1 .. 70 |-> fill] /\ Len(rest) = 70
  <2>1. [i \in 1 .. 70 |-> fill] \in [1 .. 70 -> Byte]
    OBVIOUS
  <2> QED
    BY <2>1, MakeSeq
<1>3. Buffer(t, fill) = (t \o zero) \o rest
  BY <1>1, <1>2 DEF Buffer
<1>5. /\ Buffer(t, fill) \in Seq(Byte) /\ Len(Buffer(t, fill)) = Len(t) + 71
      /\ \A i \in 1 .. Len(t) : Buffer(t, fill)[i] = t[i]
  <2>1. Len(t) \in Nat
    BY LenProperties
  <2> QED
    BY <1>1, <1>2, <1>3, <2>1, JoinedTwice
<1>6. SubSeq(Buffer(t, fill), 1, Len(t)) = t
  <2>0. Len(t) \in Nat
    BY LenProperties
  <2>1. \A i \in 1 .. Len(t) : Buffer(t, fill)[i] \in Byte
    BY <1>5, <2>0, ElementOfSeq
  <2>2. /\ SubSeq(Buffer(t, fill), 1, Len(t)) \in Seq(Byte)
        /\ Len(SubSeq(Buffer(t, fill), 1, Len(t))) = Len(t)
        /\ \A i \in 1 .. Len(t) : SubSeq(Buffer(t, fill), 1, Len(t))[i] = Buffer(t, fill)[i]
    BY <2>0, <2>1, SubSeqProperties
  <2> QED
    BY <1>5, <2>2, SeqEqual
<1> QED
  BY <1>5, <1>6

LEMMA MinIs ==
  ASSUME NEW S \in SUBSET Int, NEW x \in S, \A y \in S : x <= y
  PROVE  Min(S) = x
<1>1. Min(S) \in S /\ \A y \in S : Min(S) <= y
  BY DEF Min
<1>2. Min(S) <= x /\ x <= Min(S) /\ x \in Int /\ Min(S) \in Int
  BY <1>1
<1> QED
  BY <1>2

-----------------------------------------------------------------------------
(* What a string of the library is, byte by byte. *)

LEMMA BuildIs ==
  ASSUME NEW b \in Libcxx
  PROVE  /\ b.size = 8
         /\ \/ b.flag = 0 /\ b.data = 1 /\ b.heap = 16
            \/ b.flag = 23 /\ b.data = 0 /\ b.heap = 0
<1>1. CASE b = [flag |-> 0, data |-> 1, size |-> 8, heap |-> 16, low |-> TRUE]
  BY <1>1
<1>2. CASE \E low \in BOOLEAN : b = [flag |-> 23, data |-> 0, size |-> 8, heap |-> 0, low |-> low]
  BY <1>2
<1> QED
  BY <1>1, <1>2 DEF Libcxx

(* A short string with the text t of n characters at d and the flag byte m at f, and a *)
(* long one of n characters with the pointer at h.                                    *)
ShortAt(f, d, m, n, t, fill) ==
  [i \in Object |->
     IF i \notin Offset THEN Beyond
     ELSE IF i = f THEN m
     ELSE IF i - d + 1 \in 1 .. n THEN t[i - d + 1]
     ELSE IF i = d + n THEN 0 ELSE fill]

LongAt(f, h, m, n, pointer) ==
  [i \in Object |->
     IF i \notin Offset THEN Beyond
     ELSE IF i = f THEN m
     ELSE IF i = 8 THEN n
     ELSE IF i - h \in 0 .. 7 THEN pointer[i - h + 1] ELSE 0]

ShortPlace(f, d) == (f = 0 /\ d = 1) \/ (f = 23 /\ d = 0)
LongPlace(f, h)  == (f = 0 /\ h = 16) \/ (f = 23 /\ h = 0)

IsObject(o) == o \in [Object -> Byte] /\ \A i \in Object \ Offset : o[i] = Beyond

HasShort(o, f, d, m, n, t) ==
  /\ IsObject(o) /\ o[f] = m /\ o[d + n] = 0
  /\ \A i \in 1 .. n : o[d + i - 1] = t[i]

HasLong(o, f, h, m, n, pointer) ==
  /\ IsObject(o) /\ o[f] = m /\ o[8] = n /\ \A i \in 9 .. 15 : o[i] = 0
  /\ \A i \in 1 .. 8 : o[h + i - 1] = pointer[i]
  /\ \A i \in Offset : i = f \/ i = 8 \/ i - h \in 0 .. 7 \/ o[i] = 0

LEMMA Fits ==
  ASSUME NEW n \in Nat, n <= 22
  PROVE  n \in 0 .. 22 /\ n \in Byte /\ 2 * n \in Byte
BY DEF Byte

LEMMA ShortBytes ==
  ASSUME NEW f \in Int, NEW d \in Int, ShortPlace(f, d), NEW m \in Byte,
         NEW n \in 0 .. 22, NEW t \in [1 .. n -> Byte], NEW fill \in Byte,
         NEW o, o = ShortAt(f, d, m, n, t, fill)
  PROVE  HasShort(o, f, d, m, n, t)
<1>0. (f = 0 /\ d = 1) \/ (f = 23 /\ d = 0)
  BY DEF ShortPlace
<1>1. o \in [Object -> Byte]
  <2>1. o = [i \in Object |-> o[i]]
    BY DEF ShortAt
  <2>2. \A i \in Object : i - d + 1 \in 1 .. n => t[i - d + 1] \in Byte
    OBVIOUS
  <2>3. \A i \in Object : o[i] \in {Beyond, m, 0, fill} \/ o[i] \in Byte
    BY <2>2, Zenon DEF ShortAt
  <2>4. \A i \in Object : o[i] \in Byte
    <3>1. 0 \in Byte /\ Beyond \in Byte
      BY DEF Byte, Beyond
    <3> QED
      BY <2>3, <3>1, Zenon
  <2> QED
    BY <2>1, <2>4, Zenon
<1>2. \A i \in Object \ Offset : o[i] = Beyond
  BY DEF ShortAt
<1>3. o[f] = m
  <2>1. f \in Object /\ f \in Offset
    BY <1>0 DEF Object, Offset
  <2> QED
    BY <2>1 DEF ShortAt
<1>4. o[d + n] = 0
  <2>1. PICK k \in Object : k = d + n
    BY <1>0 DEF Object
  <2>2. k \in Offset /\ k # f /\ ~ (k - d + 1 \in 1 .. n)
    BY <1>0, <2>1 DEF Object, Offset
  <2> QED
    BY <2>1, <2>2 DEF ShortAt
<1>5. \A i \in 1 .. n : o[d + i - 1] = t[i]
  <2> SUFFICES ASSUME NEW i \in 1 .. n PROVE o[d + i - 1] = t[i]
    OBVIOUS
  <2>1. PICK k \in Object : k = d + i - 1
    <3>1. d + i - 1 \in Object
      BY <1>0 DEF Object
    <3> QED
      BY <3>1, Zenon
  <2>2. k \in Offset /\ k # f /\ k - d + 1 = i
    BY <1>0, <2>1 DEF Object, Offset
  <2> QED
    BY <2>1, <2>2 DEF ShortAt
<1> QED
  BY <1>1, <1>2, <1>3, <1>4, <1>5 DEF HasShort, IsObject

LEMMA ShortIs ==
  ASSUME NEW b \in Libcxx, NEW t \in Seq(Byte), Len(t) <= 22, NEW fill \in Byte,
         NEW o, o = ShortForm(b, t, fill)
  PROVE  HasShort(o, b.flag, b.data, IF b.low THEN 2 * Len(t) ELSE Len(t), Len(t), t)
<1>1. PICK n \in 0 .. 22 : n = Len(t) /\ n \in Byte /\ 2 * n \in Byte
  <2>1. PICK l \in Nat : l = Len(t)
    BY LenProperties
  <2>2. l <= 22
    BY <2>1, Zenon
  <2>3. l \in 0 .. 22 /\ l \in Byte /\ 2 * l \in Byte
    BY <2>2, Fits
  <2> QED
    BY <2>1, <2>3, Zenon
<1>2. t \in [1 .. n -> Byte] /\ DOMAIN t = 1 .. n
  BY <1>1, LenProperties
<1>3. PICK m \in Byte : m = IF b.low THEN 2 * n ELSE n
  BY <1>1, Zenon
<1>4. o = ShortAt(b.flag, b.data, m, n, t, fill)
  BY <1>1, <1>2, <1>3 DEF ShortForm, ShortAt
<1>5. HasShort(o, b.flag, b.data, m, n, t)
  <2>1. b.flag \in Int /\ b.data \in Int /\ ShortPlace(b.flag, b.data)
    BY BuildIs DEF ShortPlace
  <2> QED
    BY <1>2, <1>4, <2>1, ShortBytes, Zenon
<1> QED
  BY <1>1, <1>3, <1>5, Zenon

LEMMA LongBytes ==
  ASSUME NEW f \in Int, NEW h \in Int, LongPlace(f, h), NEW m \in Byte,
         NEW n \in Byte, NEW pointer \in Pattern,
         NEW o, o = LongAt(f, h, m, n, pointer)
  PROVE  HasLong(o, f, h, m, n, pointer)
<1> USE DEF LongAt
<1>0. (f = 0 /\ h = 16) \/ (f = 23 /\ h = 0)
  BY DEF LongPlace
<1>1. o \in [Object -> Byte]
  BY DEF Byte, Beyond, Pattern
<1>2. \A i \in Object \ Offset : o[i] = Beyond
  OBVIOUS
<1>3. o[f] = m /\ o[8] = n
  BY <1>0 DEF Object, Offset
<1>4. \A i \in 9 .. 15 : o[i] = 0
  BY <1>0 DEF Object, Offset
<1>5. \A i \in 1 .. 8 : o[h + i - 1] = pointer[i]
  <2> SUFFICES ASSUME NEW i \in 1 .. 8 PROVE o[h + i - 1] = pointer[i]
    OBVIOUS
  <2>1. PICK k \in Object : k = h + i - 1
    BY <1>0 DEF Object
  <2>2. k \in Offset /\ k # f /\ k # 8 /\ k - h \in 0 .. 7 /\ k - h + 1 = i
    BY <1>0, <2>1 DEF Object, Offset
  <2> QED
    BY <2>1, <2>2
<1>6. \A i \in Offset : i = f \/ i = 8 \/ i - h \in 0 .. 7 \/ o[i] = 0
  BY <1>0 DEF Object, Offset
<1> QED
  BY <1>1, <1>2, <1>3, <1>4, <1>5, <1>6 DEF HasLong, IsObject

LEMMA LongIs ==
  ASSUME NEW b \in Libcxx, NEW t \in Seq(Byte), Len(t) \in Byte,
         NEW cap \in Byte, Pointer \in Pattern,
         NEW o, o = LongForm(b, t, cap)
  PROVE  HasLong(o, b.flag, b.heap, IF b.low THEN cap ELSE 128, Len(t), Pointer)
<1>1. PICK n \in Byte : n = Len(t)
  OBVIOUS
<1>2. PICK m \in Byte : m = IF b.low THEN cap ELSE 128
  <2>1. 128 \in Byte
    BY DEF Byte
  <2> QED
    BY <2>1
<1>3. /\ b.size = 8
      /\ b.flag \in Int /\ b.heap \in Int /\ LongPlace(b.flag, b.heap)
  BY BuildIs DEF LongPlace
<1>4. o = LongAt(b.flag, b.heap, m, n, Pointer)
  BY <1>1, <1>2, <1>3, Zenon DEF LongForm, LongAt
<1>5. HasLong(o, b.flag, b.heap, m, n, Pointer)
  BY <1>3, <1>4, LongBytes, Zenon
<1> QED
  BY <1>1, <1>2, <1>5, Zenon

-----------------------------------------------------------------------------
(* What detect makes of its two probes. *)

NotZero(pointer) == \E i \in 2 .. 8 : pointer[i] # 0

LEMMA FlagsFound ==
  ASSUME NEW f \in Int, NEW d \in Int, NEW h \in Int, ShortPlace(f, d), LongPlace(f, h),
         NEW s, NEW l, NEW m \in Byte, NEW c \in Byte,
         HasShort(s, f, d, m, 11, Small), HasLong(l, f, h, c, 40, Pointer)
  PROVE  /\ m = 22 /\ c % 2 = 1 => f \in FlagAt(s, l)
         /\ f = 23 => \A g \in FlagAt(s, l) : g = f /\ m = 22
         /\ FlagAt(s, l) \in SUBSET Int
<1>1. (f = 0 /\ d = 1 /\ h = 16) \/ (f = 23 /\ d = 0 /\ h = 0)
  BY DEF ShortPlace, LongPlace
<1>2. s[f] = m /\ l[f] = c /\ l[8] = 40
  BY DEF HasShort, HasLong
<1>3. m = 22 /\ c % 2 = 1 => f \in FlagAt(s, l)
  BY <1>1, <1>2, SmallIsText DEF FlagAt, Offset
<1>4. ASSUME f = 23, NEW g \in FlagAt(s, l)
      PROVE  g = f /\ m = 22
  <2>1. d = 0 /\ h = 0
    BY <1>1, <1>4
  <2>2. g \in Offset /\ s[g] % 2 = 0 /\ l[g] % 2 = 1 /\ s[g] \div 2 = 11
    BY SmallIsText DEF FlagAt
  <2>3. g # 8
    BY <1>2, <2>2
  <2>4. ~(g \in 0 .. 7)
    <3> SUFFICES ASSUME g \in 0 .. 7 PROVE FALSE
      OBVIOUS
    <3>1. \A i \in 1 .. 11 : s[0 + i - 1] = Small[i]
      BY <2>1 DEF HasShort
    <3>2. s[g] = Small[g + 1]
      <4>1. g + 1 \in 1 .. 11 /\ 0 + (g + 1) - 1 = g
        OBVIOUS
      <4> QED
        BY <3>1, <4>1
    <3>3. Small[g + 1] # 22 /\ Small[g + 1] # 23 /\ Small[g + 1] \in Int
      BY DEF Small
    <3> QED
      BY <2>2, <3>2, <3>3
  <2>5. l[g] # 0
    BY <2>2
  <2>6. g = f
    <3>1. g - h \in 0 .. 7 => g \in 0 .. 7
      BY <2>1
    <3> QED
      BY <2>2, <2>3, <2>4, <2>5, <3>1 DEF HasLong
  <2>7. m % 2 = 0 /\ m \div 2 = 11
    BY <1>2, <2>2, <2>6
  <2>8. m = 22
    BY <2>7 DEF Byte
  <2> QED
    BY <2>6, <2>8
<1>5. FlagAt(s, l) \in SUBSET Int
  BY DEF FlagAt, Offset
<1> QED
  BY <1>3, <1>4, <1>5

LEMMA InlineFound ==
  ASSUME NEW f \in Int, NEW d \in Int, ShortPlace(f, d),
         NEW s, NEW m, HasShort(s, f, d, m, 11, Small)
  PROVE  InlineAt(s, f) # {} /\ Min(InlineAt(s, f)) = d
<1>1. (f = 0 /\ d = 1) \/ (f = 23 /\ d = 0)
  BY DEF ShortPlace
<1>2. At(s, d, Len(Small)) = Small
  <2>1. d \in Nat
    BY <1>1
  <2>2. \A i \in 1 .. Len(Small) : s[d + i - 1] = Small[i]
    BY SmallIsText DEF HasShort
  <2> QED
    BY <2>1, <2>2, SmallIsText, AtIsText
<1>3. d \in InlineAt(s, f)
  BY <1>1, <1>2, SmallIsText DEF InlineAt
<1>4. \A o \in InlineAt(s, f) : o \in 0 .. 13 /\ o # f
  BY SmallIsText DEF InlineAt
<1>5. InlineAt(s, f) \in SUBSET Int /\ \A o \in InlineAt(s, f) : d <= o
  BY <1>1, <1>4
<1> QED
  BY <1>3, <1>5, MinIs

LEMMA WordIs ==
  ASSUME NEW l \in [Object -> Byte], NEW o \in Nat, o + 7 <= 31
  PROVE  Number(l, o) = IF \A i \in 1 .. 7 : l[o + i] = 0 THEN l[o] ELSE 256
<1>1. At(l, o + 1, 7) = [i \in 1 .. 7 |-> 0] <=> \A i \in 1 .. 7 : l[o + i] = 0
  <2>1. \A i \in 1 .. 7 : (o + 1) + i - 1 = o + i
    OBVIOUS
  <2>2. At(l, o + 1, 7) = [i \in 1 .. 7 |-> l[o + i]]
    BY <2>1 DEF At
  <2> QED
    BY <2>2
<1> QED
  BY <1>1 DEF Number

LEMMA SizeFound ==
  ASSUME NEW f \in Int, NEW h \in Int, LongPlace(f, h), NotZero(Pointer),
         NEW l, NEW c \in Byte, c % 2 = 1 \/ c = 128, HasLong(l, f, h, c, 40, Pointer)
  PROVE  SizeAt(l) = {8}
<1>1. (f = 0 /\ h = 16) \/ (f = 23 /\ h = 0)
  BY DEF LongPlace
<1>2. /\ l \in [Object -> Byte] /\ l[f] = c /\ l[8] = 40
      /\ \A i \in 9 .. 15 : l[i] = 0
      /\ \A i \in 1 .. 8 : l[h + i - 1] = Pointer[i]
  BY DEF HasLong, IsObject
<1>3. Number(l, 8) = 40
  <2>1. \A i \in 1 .. 7 : 8 + i \in 9 .. 15
    OBVIOUS
  <2>2. \A i \in 1 .. 7 : l[8 + i] = 0
    BY <1>2, <2>1
  <2> QED
    BY <1>2, <2>2, WordIs
<1>4. PICK j \in 2 .. 8 : Pointer[j] # 0
  BY DEF NotZero
<1>5. h \in {0, 16} => Number(l, h) = 256
  <2> SUFFICES ASSUME h \in {0, 16} PROVE Number(l, h) = 256
    OBVIOUS
  <2>1. l[h + j - 1] # 0
    BY <1>2, <1>4
  <2>2. j - 1 \in 1 .. 7 /\ h + (j - 1) = h + j - 1
    OBVIOUS
  <2>3. ~ \A i \in 1 .. 7 : l[h + i] = 0
    BY <2>1, <2>2
  <2> QED
    BY <1>2, <2>3, WordIs
<1>6. Number(l, 0) # 40
  <2>1. CASE h = 0
    BY <1>5, <2>1
  <2>2. CASE f = 0
    <3>1. Number(l, 0) \in {c, 256}
      BY <1>2, <2>2, WordIs
    <3> QED
      BY <3>1
  <2> QED
    BY <1>1, <2>1, <2>2
<1>7. Number(l, 16) # 40
  <2>1. CASE h = 16
    BY <1>5, <2>1
  <2>2. CASE f = 23
    <3>1. l[16 + 7] # 0
      BY <1>2, <2>2
    <3>2. ~ \A i \in 1 .. 7 : l[16 + i] = 0
      BY <3>1
    <3> QED
      BY <1>2, <3>2, WordIs
  <2> QED
    BY <1>1, <2>1, <2>2
<1> QED
  BY <1>3, <1>6, <1>7, LargeIsText DEF SizeAt

LEMMA HeapFound ==
  ASSUME NEW f \in Int, NEW h \in Int, LongPlace(f, h), NotZero(Pointer),
         Pointer \in Pattern, NEW fill \in Byte,
         NEW l, NEW c, HasLong(l, f, h, c, 40, Pointer)
  PROVE  /\ HeapAt(l, Buffer(Large, fill), 8) # {}
         /\ Min(HeapAt(l, Buffer(Large, fill), 8)) = h
<1> DEFINE found == HeapAt(l, Buffer(Large, fill), 8)
<1>1. (f = 0 /\ h = 16) \/ (f = 23 /\ h = 0)
  BY DEF LongPlace
<1>2. At(l, h, 8) = Pointer
  <2>1. \A i \in 1 .. 8 : l[h + i - 1] = Pointer[i]
    BY DEF HasLong
  <2> QED
    BY <2>1 DEF At, Pattern
<1>3. h \in found
  <2>1. 40 <= Len(Buffer(Large, fill)) /\ SubSeq(Buffer(Large, fill), 1, 40) = Large
    <3>1. /\ Len(Buffer(Large, fill)) = Len(Large) + 71
          /\ SubSeq(Buffer(Large, fill), 1, Len(Large)) = Large
      BY LargeIsText, BufferHolds, Zenon
    <3>2. PICK n \in Int : n = Len(Buffer(Large, fill)) /\ n = 40 + 71
      BY <3>1, LargeIsText
    <3>3. 40 <= n
      BY <3>2
    <3> QED
      BY <3>1, <3>2, <3>3, LargeIsText, Zenon
  <2>2. h \in {0, 8, 16} \ {8}
    BY <1>1
  <2> QED
    BY <1>2, <2>1, <2>2, LargeIsText, Zenon DEF HeapAt, Dereferences
<1>4. \A o \in found : o \in {0, 16} /\ At(l, o, 8) = Pointer
  BY DEF HeapAt, Dereferences
<1>5. h = 16 => ~ At(l, 0, 8) = Pointer
  <2> SUFFICES ASSUME h = 16, At(l, 0, 8) = Pointer PROVE FALSE
    OBVIOUS
  <2>1. PICK j \in 2 .. 8 : Pointer[j] # 0
    BY DEF NotZero
  <2>2. At(l, 0, 8)[j] = l[j - 1]
    BY DEF At
  <2>3. j - 1 \in Offset /\ j - 1 # 0 /\ j - 1 # 8 /\ ~ (j - 1 - 16 \in 0 .. 7)
    BY DEF Offset
  <2>4. l[j - 1] = 0
    BY <1>1, <2>3 DEF HasLong
  <2> QED
    BY <2>1, <2>2, <2>4
<1>6. found \in SUBSET Int /\ \A o \in found : h <= o
  BY <1>1, <1>4, <1>5
<1> QED
  BY <1>3, <1>6, MinIs

LEMMA LowIs ==
  ASSUME NEW b \in Libcxx
  PROVE  b.low \in BOOLEAN /\ (~b.low => b.flag = 23)
<1>1. CASE b = [flag |-> 0, data |-> 1, size |-> 8, heap |-> 16, low |-> TRUE]
  <2>1. b.low = TRUE
    BY <1>1
  <2> QED
    BY <2>1, Zenon
<1>2. ASSUME NEW low \in BOOLEAN,
             b = [flag |-> 23, data |-> 0, size |-> 8, heap |-> 0, low |-> low]
      PROVE  b.low \in BOOLEAN /\ (~b.low => b.flag = 23)
  <2>1. b.flag = 23
    BY <1>2
  <2>2. b.low = low
    BY <1>2
  <2> QED
    BY <2>1, <2>2, Zenon
<1> QED
  BY <1>1, <1>2, Zenon DEF Libcxx

IsExact(r, b) ==
  r # Undetected =>
    b.low /\ r = [flag |-> b.flag, data |-> b.data, size |-> b.size, heap |-> b.heap]

(* Why detect cannot err: a byte of the short probe that is 22 without being its flag  *)
(* is one of the unused bytes behind the flag or under the pointer, hence not in front *)
(* of the flag, or it is where the long probe has zeros.                               *)
LEMMA DetectedIsExact ==
  ASSUME NEW b \in Builds, NEW fill \in Fill, NEW cap \in Caps,
         NEW r, r = Detected(ShortForm(b, Small, fill), LongForm(b, Large, cap),
                             Buffer(Large, fill))
  PROVE  IsExact(r, b)
<1> USE DEF IsExact
<1>1. PICK s, l : s = ShortForm(b, Small, fill) /\ l = LongForm(b, Large, cap)
  OBVIOUS
<1>2. /\ b \in Libcxx /\ fill \in Byte /\ cap \in Byte /\ cap % 2 = 1
      /\ Pointer \in Pattern /\ NotZero(Pointer)
  BY GuestStringAssumption DEF Pattern, NotZero
<1>3. PICK m \in Byte : m = IF b.low THEN 22 ELSE 11
  <2>1. 22 \in Byte /\ 11 \in Byte
    BY DEF Byte
  <2> QED
    BY <2>1
<1>4. PICK c \in Byte : c = IF b.low THEN cap ELSE 128
  <2>1. 128 \in Byte
    BY DEF Byte
  <2> QED
    BY <1>2, <2>1
<1>5. HasShort(s, b.flag, b.data, m, 11, Small)
  <2>1. Len(Small) <= 22
    BY SmallIsText
  <2>2. HasShort(s, b.flag, b.data, IF b.low THEN 2 * Len(Small) ELSE Len(Small), Len(Small), Small)
    BY <1>1, <1>2, <2>1, SmallIsText, ShortIs, Zenon
  <2>3. 2 * 11 = 22
    OBVIOUS
  <2> QED
    BY <1>3, <2>2, <2>3, SmallIsText, Zenon
<1>6. HasLong(l, b.flag, b.heap, c, 40, Pointer)
  <2>1. Len(Large) \in Byte
    BY LargeIsText DEF Byte
  <2>2. HasLong(l, b.flag, b.heap, IF b.low THEN cap ELSE 128, Len(Large), Pointer)
    BY <1>1, <1>2, <2>1, LargeIsText, LongIs, Zenon
  <2> QED
    BY <1>4, <2>2, LargeIsText, Zenon
<1>7. /\ b.flag \in Int /\ b.data \in Int /\ b.heap \in Int /\ b.size = 8
      /\ ShortPlace(b.flag, b.data) /\ LongPlace(b.flag, b.heap)
      /\ b.flag \in {0, 23}
  BY <1>2, BuildIs DEF ShortPlace, LongPlace
<1>8. SizeAt(l) = {8} /\ Min(SizeAt(l)) = 8
  <2>1. c % 2 = 1 \/ c = 128
    BY <1>2, <1>4, Zenon
  <2>2. SizeAt(l) = {8}
    BY <1>2, <1>6, <1>7, <2>1, SizeFound, SMT
  <2>3. Min({8}) = 8
    BY MinIs
  <2> QED
    BY <2>2, <2>3, Zenon
<1>9. InlineAt(s, b.flag) # {} /\ Min(InlineAt(s, b.flag)) = b.data
  BY <1>5, <1>7, InlineFound, Zenon
<1>10. /\ HeapAt(l, Buffer(Large, fill), 8) # {}
       /\ Min(HeapAt(l, Buffer(Large, fill), 8)) = b.heap
  BY <1>2, <1>6, <1>7, HeapFound, SMT
<1>11. /\ m = 22 /\ c % 2 = 1 => b.flag \in FlagAt(s, l)
       /\ b.flag = 23 => \A g \in FlagAt(s, l) : g = b.flag /\ m = 22
       /\ FlagAt(s, l) \in SUBSET Int
  BY <1>5, <1>6, <1>7, FlagsFound, Zenon
<1>12. PICK flags : flags = {f \in FlagAt(s, l) : /\ InlineAt(s, f) # {} /\ SizeAt(l) # {}
                               /\ HeapAt(l, Buffer(Large, fill), Min(SizeAt(l))) # {}}
  OBVIOUS
<1>13. r = IF flags = {} THEN Undetected
           ELSE [flag |-> Min(flags), data |-> Min(InlineAt(s, Min(flags))),
                 size |-> Min(SizeAt(l)),
                 heap |-> Min(HeapAt(l, Buffer(Large, fill), Min(SizeAt(l))))]
  BY <1>1, <1>12, Zenon DEF Detected
<1>14. flags \in SUBSET FlagAt(s, l)
  BY <1>12
<1>15. CASE b.low
  <2>1. m = 22 /\ c = cap
    BY <1>3, <1>4, <1>15, Zenon
  <2>2. b.flag \in FlagAt(s, l)
    BY <1>2, <1>11, <2>1, Zenon
  <2>3. b.flag \in flags
    BY <1>8, <1>9, <1>10, <1>12, <2>2, Zenon
  <2>4. \A g \in flags : b.flag <= g
    <3>1. CASE b.flag = 23
      BY <1>11, <1>14, <3>1
    <3>2. CASE b.flag = 0
      <4>1. \A g \in FlagAt(s, l) : 0 <= g
        BY DEF FlagAt, Offset
      <4> QED
        BY <1>14, <3>2, <4>1
    <3> QED
      BY <1>7, <3>1, <3>2
  <2>5. Min(flags) = b.flag
    <3>1. flags \in SUBSET Int
      BY <1>11, <1>14
    <3> QED
      BY <2>3, <2>4, <3>1, MinIs, Zenon
  <2> QED
    BY <1>7, <1>8, <1>9, <1>10, <1>13, <1>15, <2>3, <2>5, Zenon
<1>16. CASE ~b.low
  <2>1. m = 11 /\ b.flag = 23
    BY <1>2, <1>3, <1>16, LowIs, Zenon
  <2>2. FlagAt(s, l) = {}
    BY <1>11, <2>1
  <2>3. flags = {}
    BY <1>14, <2>2
  <2> QED
    BY <1>13, <2>3, Zenon
<1> QED
  BY <1>15, <1>16

-----------------------------------------------------------------------------
(* The inductive invariant: a field that holds a text for the library is one of its    *)
(* two forms of that text, byte by byte, and the flag of one just found empty is zero. *)

ShortOf(t) ==
  Len(t) <= 22 /\ HasShort(object, build.flag, build.data, 2 * Len(t), Len(t), t)

LongOf(t) ==
  /\ \E c \in Byte : c % 2 = 1 /\ HasLong(object, build.flag, build.heap, c, Len(t), Pointer)
  /\ Len(heap) = Len(t) + 71 /\ SubSeq(heap, 1, Len(t)) = t

TextInv ==
  text # Garbled =>
    /\ layout # Undetected /\ text \in Seq(Byte) /\ Len(text) \in Byte
    /\ ShortOf(text) \/ LongOf(text)

LastInv ==
  /\ layout = Undetected => object = Unmade /\ last = Idle
  /\ last.method = "is_empty" /\ last.ok => object[layout.flag] = 0

StringInv ==
  TypeOK /\ DetectIsExact /\ NextMemberUntouched /\ TextInv /\ LastInv /\ ReadIsText /\ BlankIsFilled

(* The layout that detect settled on, and what the two forms are in it. *)
LEMMA LayoutIs ==
  ASSUME TypeOK, DetectIsExact, layout # Undetected
  PROVE  /\ build \in Libcxx /\ build.low
         /\ layout.flag = build.flag /\ layout.data = build.data
         /\ layout.size = 8 /\ layout.heap = build.heap
         /\ build.flag \in {0, 23} /\ build.data \in {0, 1} /\ build.heap \in {0, 16}
         /\ ShortPlace(build.flag, build.data) /\ LongPlace(build.flag, build.heap)
<1>1. build \in Libcxx
  BY GuestStringAssumption DEF TypeOK
<1>2. /\ build.low
      /\ layout = [flag |-> build.flag, data |-> build.data,
                   size |-> build.size, heap |-> build.heap]
  BY Zenon DEF DetectIsExact
<1>3. /\ layout.flag = build.flag /\ layout.data = build.data
      /\ layout.size = build.size /\ layout.heap = build.heap
  BY <1>2
<1>4. /\ build.size = 8
      /\ build.flag \in {0, 23} /\ build.data \in {0, 1} /\ build.heap \in {0, 16}
      /\ ShortPlace(build.flag, build.data) /\ LongPlace(build.flag, build.heap)
  BY <1>1, BuildIs DEF ShortPlace, LongPlace
<1> QED
  BY <1>1, <1>2, <1>3, <1>4, Zenon

LEMMA ShortIsRead ==
  ASSUME TypeOK, DetectIsExact, layout # Undetected,
         NEW t \in Seq(Byte), ShortOf(t)
  PROVE  Bytes(object) = IF Len(t) \in 1 .. 64 THEN t ELSE <<>>
<1>1. PICK f, d : f = layout.flag /\ d = layout.data
  OBVIOUS
<1>2. PICK n \in Nat : n = Len(t)
  BY LenProperties
<1>3. n <= 22 /\ HasShort(object, f, d, 2 * n, n, t) /\ d \in {0, 1}
  BY <1>1, <1>2, LayoutIs, Zenon DEF ShortOf
<1>4. object[f] = 2 * n
  BY <1>3 DEF HasShort
<1>5. object[f] % 2 # 1 /\ object[f] \div 2 = n
  BY <1>4
<1>6. At(object, d, n) = t
  <2>1. \A i \in 1 .. Len(t) : object[d + i - 1] = t[i]
    BY <1>2, <1>3, Zenon DEF HasShort
  <2>2. d \in Nat
    BY <1>3
  <2> QED
    BY <1>2, <2>1, <2>2, AtIsText, Zenon
<1>7. Bytes(object) = IF n \in 1 .. 24 /\ n + d <= 24 THEN At(object, d, n) ELSE <<>>
  BY <1>1, <1>5, Zenon DEF Bytes
<1>8. n \in 1 .. 24 /\ n + d <= 24 <=> n \in 1 .. 64
  BY <1>3
<1> QED
  BY <1>2, <1>6, <1>7, <1>8, Zenon

LEMMA LongIsRead ==
  ASSUME TypeOK, DetectIsExact, layout # Undetected,
         NEW t \in Seq(Byte), Len(t) \in Byte, LongOf(t)
  PROVE  /\ Bytes(object) = IF Len(t) \in 1 .. 64 THEN t ELSE <<>>
         /\ Number(object, 8) = Len(t)
<1>1. PICK f, h : f = layout.flag /\ h = layout.heap
  OBVIOUS
<1>2. PICK n \in Byte : n = Len(t)
  OBVIOUS
<1>3. PICK c \in Byte : c % 2 = 1 /\ HasLong(object, f, h, c, n, Pointer)
  BY <1>1, <1>2, LayoutIs, Zenon DEF LongOf
<1>4. layout.size = 8 /\ h \in {0, 16}
  BY <1>1, LayoutIs, Zenon
<1>5. object[f] % 2 = 1
  BY <1>3 DEF HasLong
<1>6. Number(object, 8) = n
  <2>1. \A i \in 1 .. 7 : 8 + i \in 9 .. 15
    OBVIOUS
  <2>2. \A i \in 1 .. 7 : object[8 + i] = 0
    BY <1>3, <2>1, Zenon DEF HasLong
  <2>3. object[8] = n /\ object \in [Object -> Byte]
    BY <1>3, Zenon DEF HasLong, IsObject
  <2> QED
    BY <2>2, <2>3, WordIs
<1>7. Dereferences(object, h, heap, n)
  <2>1. At(object, h, 8) = Pointer
    <3>1. \A i \in 1 .. 8 : object[h + i - 1] = Pointer[i]
      BY <1>3 DEF HasLong
    <3>2. Pointer \in [1 .. 8 -> Byte]
      BY GuestStringAssumption
    <3> QED
      BY <3>1, <3>2 DEF At
  <2>2. PICK l \in Int : l = Len(heap) /\ l = n + 71
    <3>1. Len(heap) = n + 71
      BY <1>2, Zenon DEF LongOf
    <3>2. n + 71 \in Int
      BY DEF Byte
    <3> QED
      BY <3>1, <3>2, Zenon
  <2>3. n <= l
    BY <2>2 DEF Byte
  <2> QED
    BY <2>1, <2>2, <2>3, Zenon DEF Dereferences
<1>8. Bytes(object) = IF n \in 1 .. 64 THEN SubSeq(heap, 1, n) ELSE <<>>
  BY <1>1, <1>4, <1>5, <1>6, <1>7, Zenon DEF Bytes
<1>9. SubSeq(heap, 1, n) = t
  BY <1>2, Zenon DEF LongOf
<1> QED
  BY <1>2, <1>6, <1>8, <1>9, Zenon

(* Whatever the bytes are, read hands out no more than 64 of them. *)
LEMMA ReadIsBounded ==
  ASSUME TypeOK, DetectIsExact, layout # Undetected
  PROVE  Len(ReadString(object)) <= 64
<1>1. PICK f, d : f = layout.flag /\ d = layout.data
  OBVIOUS
<1>2. d \in {0, 1} /\ layout.size = 8 /\ object \in [Object -> Byte] /\ heap \in Seq(Byte)
  BY <1>1, LayoutIs, Zenon DEF TypeOK
<1>3. Len(<<>>) <= 64
  OBVIOUS
<1>4. ASSUME NEW n \in 1 .. 24, n + d <= 24
      PROVE  Len(At(object, d, n)) <= 64
  <2>1. d \in Nat /\ n \in Nat /\ d + n <= 32
    BY <1>2, <1>4
  <2>2. Len(At(object, d, n)) = n
    BY <1>2, <2>1, AtIsSeq, Zenon
  <2>3. n <= 64
    OBVIOUS
  <2> QED
    BY <2>2, <2>3, Zenon
<1>5. ASSUME NEW n \in 1 .. 64, n <= Len(heap)
      PROVE  Len(SubSeq(heap, 1, n)) <= 64
  <2>1. PICK l \in Nat : l = Len(heap)
    BY <1>2, LenProperties
  <2>2. \A i \in 1 .. n : heap[i] \in Byte
    <3>1. \A i \in 1 .. n : i \in 1 .. l
      BY <1>5, <2>1
    <3> QED
      BY <1>2, <2>1, <3>1, ElementOfSeq, Zenon
  <2>3. Len(SubSeq(heap, 1, n)) = n
    <3>1. SubSeq(heap, 1, n) = [i \in 1 .. n |-> heap[i]]
      BY <1>2
    <3>2. [i \in 1 .. n |-> heap[i]] \in [1 .. n -> Byte] /\ n \in Nat
      BY <2>2
    <3> QED
      BY <3>1, <3>2, MakeSeq
  <2> QED
    BY <2>3
<1>6. Len(Bytes(object)) <= 64
  BY <1>1, <1>3, <1>4, <1>5, Zenon DEF Bytes, Dereferences
<1> QED
  BY <1>3, <1>6, Zenon DEF ReadString

(* What assign leaves in a field, whatever was in it. *)
LEMMA AssignedHolds ==
  ASSUME TypeOK, DetectIsExact, NextMemberUntouched, layout # Undetected,
         NEW x \in Seq(Byte), Len(x) <= 22,
         NEW o, o = Assigned(object, x)
  PROVE  HasShort(o, build.flag, build.data, 2 * Len(x), Len(x), x)
<1>1. PICK f \in {0, 23}, d \in {0, 1} : /\ f = layout.flag /\ d = layout.data
                                          /\ f = build.flag /\ d = build.data
  BY LayoutIs, Zenon
<1>2. (f = 0 /\ d = 1) \/ (f = 23 /\ d = 0)
  BY <1>1, LayoutIs, Zenon DEF ShortPlace
<1>3. PICK n \in 0 .. 22 : n = Len(x) /\ 2 * n \in Byte
  <2>1. PICK l \in Nat : l = Len(x)
    BY LenProperties
  <2>2. l <= 22
    BY <2>1, Zenon
  <2> QED
    BY <2>1, <2>2, Fits, Zenon
<1>4. x \in [1 .. n -> Byte] /\ DOMAIN x = 1 .. n
  BY <1>3, LenProperties
<1>5. o = [i \in Object |-> IF i = f THEN (2 * n) % 256
                            ELSE IF i = d + n THEN 0
                            ELSE IF i - d + 1 \in 1 .. n THEN x[i - d + 1]
                            ELSE object[i]]
  BY <1>1, <1>3, <1>4, Zenon DEF Assigned
<1>6. (2 * n) % 256 = 2 * n
  OBVIOUS
<1>7. \A i \in Object : i - d + 1 \in 1 .. n => x[i - d + 1] \in Byte
  BY <1>4
<1>8. o \in [Object -> Byte]
  <2>1. o = [i \in Object |-> o[i]]
    BY <1>5
  <2>2. 0 \in Byte /\ object \in [Object -> Byte]
    BY DEF Byte, TypeOK
  <2>3. ASSUME NEW i \in Object PROVE o[i] \in Byte
    <3>1. o[i] \in {2 * n, 0, object[i]} \/ (i - d + 1 \in 1 .. n /\ o[i] = x[i - d + 1])
      BY <1>5, <1>6, Zenon
    <3> QED
      BY <1>3, <1>7, <2>2, <3>1, Zenon
  <2> QED
    BY <2>1, <2>3, Zenon
<1>9. \A i \in Object \ Offset : o[i] = Beyond
  <2> SUFFICES ASSUME NEW i \in Object \ Offset PROVE o[i] = Beyond
    OBVIOUS
  <2>1. i # f /\ i # d + n /\ ~ (i - d + 1 \in 1 .. n)
    BY <1>2 DEF Object, Offset
  <2>2. o[i] = object[i]
    BY <1>5, <2>1
  <2> QED
    BY <2>2, Zenon DEF NextMemberUntouched
<1>10. o[f] = 2 * n
  <2>1. f \in Object
    BY <1>2 DEF Object
  <2> QED
    BY <1>5, <1>6, <2>1, Zenon
<1>11. o[d + n] = 0
  <2>1. d + n \in Object /\ d + n # f
    BY <1>2 DEF Object
  <2> QED
    BY <1>5, <2>1, Zenon
<1>12. \A i \in 1 .. n : o[d + i - 1] = x[i]
  <2> SUFFICES ASSUME NEW i \in 1 .. n PROVE o[d + i - 1] = x[i]
    OBVIOUS
  <2>1. PICK k \in Object : k = d + i - 1
    <3>1. d + i - 1 \in Object
      BY <1>2 DEF Object
    <3> QED
      BY <3>1, Zenon
  <2>2. k # f /\ k # d + n /\ k - d + 1 = i
    BY <1>2, <2>1
  <2> QED
    BY <1>5, <2>1, <2>2, Zenon
<1>13. HasShort(o, f, d, 2 * n, n, x)
  BY <1>8, <1>9, <1>10, <1>11, <1>12, Zenon DEF HasShort, IsObject
<1> QED
  BY <1>1, <1>3, <1>13, Zenon

(* A field whose flag byte is zero takes every text that assign is made for. *)
LEMMA BlankAssigns ==
  ASSUME TypeOK, DetectIsExact, layout # Undetected, object[layout.flag] = 0,
         NEW x \in Seq(Byte)
  PROVE  Assigns(object, x) <=> Len(x) \in 1 .. 22
<1>1. PICK n \in Nat : n = Len(x)
  BY LenProperties
<1>2. PICK d \in {0, 1} : d = layout.data
  BY LayoutIs, Zenon
<1>3. x # <<>> <=> n # 0
  BY <1>1, EmptySeq
<1>4. object[layout.flag] % 2 = 0
  <2>1. 0 % 2 = 0
    OBVIOUS
  <2> QED
    BY <2>1, Zenon
<1>5. Assigns(object, x) <=> n # 0 /\ n <= 22 /\ d + n <= 24
  BY <1>1, <1>2, <1>3, <1>4, Zenon DEF Assigns
<1>6. n # 0 /\ n <= 22 /\ d + n <= 24 <=> n \in 1 .. 22
  OBVIOUS
<1> QED
  BY <1>1, <1>5, <1>6, Zenon

(* A text of zero characters is all that a blank field holds. *)
LEMMA BlankHoldsNothing ==
  ASSUME TypeOK, DetectIsExact, layout # Undetected, object[layout.flag] = 0,
         NEW t \in Seq(Byte), ShortOf(t) \/ LongOf(t)
  PROVE  t = <<>>
<1>1. PICK n \in Nat : n = Len(t)
  BY LenProperties
<1>2. layout.flag = build.flag
  BY LayoutIs, Zenon
<1>3. ~LongOf(t)
  <2> SUFFICES ASSUME LongOf(t) PROVE FALSE
    OBVIOUS
  <2>1. PICK c \in Byte : c % 2 = 1 /\ object[build.flag] = c
    BY Zenon DEF LongOf, HasLong
  <2>2. c = 0
    BY <1>2, <2>1, Zenon
  <2> QED
    BY <2>1, <2>2
<1>4. 2 * n = 0
  BY <1>1, <1>2, <1>3, Zenon DEF ShortOf, HasShort
<1>5. n = 0
  BY <1>4
<1> QED
  BY <1>1, <1>5, EmptySeq

-----------------------------------------------------------------------------
(* The steps. *)

LEMMA UnmadeIs ==
  /\ Unmade \in [Object -> Byte] /\ \A i \in Object \ Offset : Unmade[i] = Beyond
BY DEF Unmade, Byte, Beyond

LEMMA StringInit == Init => StringInv
<1> SUFFICES ASSUME Init PROVE StringInv
  OBVIOUS
<1> USE DEF Init
<1>1. TypeOK
  <2>1. <<>> \in Seq(Byte)
    OBVIOUS
  <2> QED
    BY <2>1, UnmadeIs DEF TypeOK, Idle
<1>2. DetectIsExact /\ TextInv
  BY DEF DetectIsExact, TextInv
<1>3. NextMemberUntouched
  BY UnmadeIs DEF NextMemberUntouched
<1>4. LastInv /\ ReadIsText /\ BlankIsFilled
  BY DEF LastInv, ReadIsText, BlankIsFilled, Idle
<1> QED
  BY <1>1, <1>2, <1>3, <1>4 DEF StringInv

LEMMA DetectKeeps == StringInv /\ Detect => StringInv'
<1> SUFFICES ASSUME StringInv, Detect PROVE StringInv'
  OBVIOUS
<1>1. /\ TypeOK /\ NextMemberUntouched /\ ReadIsText /\ BlankIsFilled
      /\ layout = Undetected /\ object = Unmade /\ last = Idle /\ text = Garbled
      /\ UNCHANGED <<build, object, heap, text, last>>
  BY Zenon DEF StringInv, Detect, TextInv, LastInv
<1>2. PICK fill \in Fill, cap \in Caps :
        layout' = Detected(ShortForm(build, Small, fill), LongForm(build, Large, cap),
                           Buffer(Large, fill))
  BY Zenon DEF Detect
<1>3. IsExact(layout', build)
  <2>1. build \in Builds
    BY <1>1, Zenon DEF TypeOK
  <2> QED
    BY <1>2, <2>1, DetectedIsExact, Zenon
<1>4. TypeOK'
  <2>1. build \in Libcxx
    BY <1>1, GuestStringAssumption DEF TypeOK
  <2>2. [flag |-> build.flag, data |-> build.data,
         size |-> build.size, heap |-> build.heap] \in Layout
    BY <2>1, BuildIs DEF Layout, Offset
  <2>3. layout' \in Layout \cup {Undetected}
    BY <1>3, <2>2, Zenon DEF IsExact
  <2> QED
    BY <1>1, <2>3, Zenon DEF TypeOK
<1>5. DetectIsExact'
  BY <1>1, <1>3, Zenon DEF DetectIsExact, IsExact
<1>6. NextMemberUntouched' /\ TextInv'
  BY <1>1, Zenon DEF NextMemberUntouched, TextInv
<1>7. last'.method = "none"
  BY <1>1 DEF Idle
<1>8. LastInv' /\ ReadIsText' /\ BlankIsFilled'
  BY <1>1, <1>7 DEF LastInv, ReadIsText, BlankIsFilled
<1> QED
  BY <1>4, <1>5, <1>6, <1>8, Zenon DEF StringInv

(* The field as Make builds it. *)
LEMMA MadeHolds ==
  ASSUME StringInv, NEW t \in Texts, NEW fill \in Fill, NEW cap \in Caps, Make(t, fill, cap)
  PROVE  /\ IsObject(object') /\ heap' \in Seq(Byte)
         /\ t \in Seq(Byte) /\ Len(t) \in Byte
         /\ ShortOf(t)' \/ LongOf(t)'
<1>1. /\ TypeOK /\ DetectIsExact /\ layout # Undetected
      /\ UNCHANGED <<build, layout>>
  BY Zenon DEF StringInv, Make
<1>2. /\ t \in Seq(Byte) /\ Len(t) \in Byte /\ fill \in Byte /\ cap \in Byte /\ cap % 2 = 1
      /\ Pointer \in Pattern
  BY GuestStringAssumption DEF Pattern
<1>3. build \in Libcxx /\ build.low
  BY <1>1, LayoutIs, Zenon
<1>4. PICK o : o = object'
  OBVIOUS
<1>5. CASE Len(t) <= 22 /\ object' = ShortForm(build, t, fill) /\ UNCHANGED heap
  <2>1. HasShort(o, build.flag, build.data, IF build.low THEN 2 * Len(t) ELSE Len(t), Len(t), t)
    BY <1>2, <1>3, <1>4, <1>5, ShortIs, Zenon
  <2>2. HasShort(o, build.flag, build.data, 2 * Len(t), Len(t), t)
    BY <1>3, <2>1, Zenon
  <2>3. IsObject(o)
    BY <2>2, Zenon DEF HasShort
  <2>4. ShortOf(t)'
    BY <1>1, <1>4, <1>5, <2>2, Zenon DEF ShortOf
  <2>5. heap' \in Seq(Byte)
    BY <1>1, <1>5, Zenon DEF TypeOK
  <2> QED
    BY <1>2, <1>4, <2>3, <2>4, <2>5, Zenon
<1>6. CASE object' = LongForm(build, t, cap) /\ heap' = Buffer(t, fill)
  <2>1. HasLong(o, build.flag, build.heap, IF build.low THEN cap ELSE 128, Len(t), Pointer)
    BY <1>2, <1>3, <1>4, <1>6, LongIs, Zenon
  <2>2. HasLong(o, build.flag, build.heap, cap, Len(t), Pointer)
    BY <1>3, <2>1, Zenon
  <2>3. IsObject(o)
    BY <2>2, Zenon DEF HasLong
  <2>4. heap' \in Seq(Byte) /\ Len(heap') = Len(t) + 71 /\ SubSeq(heap', 1, Len(t)) = t
    BY <1>2, <1>6, BufferHolds, Zenon
  <2> QED
    BY <1>1, <1>2, <1>4, <2>2, <2>3, <2>4, Zenon DEF LongOf
<1> QED
  BY <1>5, <1>6, Zenon DEF Make

LEMMA MakeKeeps ==
  ASSUME StringInv, NEW t \in Texts, NEW fill \in Fill, NEW cap \in Caps, Make(t, fill, cap)
  PROVE  StringInv'
<1>1. /\ TypeOK /\ DetectIsExact /\ layout # Undetected
      /\ text' = t /\ last' = Idle /\ UNCHANGED <<build, layout>>
  BY Zenon DEF StringInv, Make
<1>2. /\ IsObject(object') /\ heap' \in Seq(Byte)
      /\ t \in Seq(Byte) /\ Len(t) \in Byte
      /\ ShortOf(t)' \/ LongOf(t)'
  BY MadeHolds, Zenon
<1>3. last'.method = "none" /\ last'.ok = TRUE
  BY <1>1 DEF Idle
<1>4. TypeOK'
  BY <1>1, <1>2, <1>3 DEF TypeOK, IsObject
<1>5. DetectIsExact' /\ NextMemberUntouched'
  BY <1>1, <1>2, Zenon DEF DetectIsExact, NextMemberUntouched, IsObject
<1>6. TextInv'
  BY <1>1, <1>2, Zenon DEF TextInv, ShortOf, LongOf
<1>7. LastInv' /\ ReadIsText' /\ BlankIsFilled'
  BY <1>1, <1>3 DEF LastInv, ReadIsText, BlankIsFilled
<1> QED
  BY <1>4, <1>5, <1>6, <1>7, Zenon DEF StringInv

LEMMA ElsewhereKeeps ==
  ASSUME StringInv, NEW flag \in Byte, NEW fill \in Fill, Elsewhere(flag, fill)
  PROVE  StringInv'
<1>1. /\ TypeOK /\ DetectIsExact /\ layout # Undetected
      /\ text' = Garbled /\ last' = Idle /\ UNCHANGED <<build, layout, heap>>
  BY Zenon DEF StringInv, Elsewhere
<1>2. IsObject(object')
  <2>1. fill \in Byte /\ Beyond \in Byte
    BY GuestStringAssumption DEF Byte, Beyond
  <2> QED
    BY <2>1 DEF IsObject, Elsewhere
<1>3. last'.method = "none" /\ last'.ok = TRUE
  BY <1>1 DEF Idle
<1>4. TypeOK'
  BY <1>1, <1>2, <1>3 DEF TypeOK, IsObject
<1>5. DetectIsExact' /\ NextMemberUntouched' /\ TextInv'
  BY <1>1, <1>2, Zenon DEF DetectIsExact, NextMemberUntouched, IsObject, TextInv
<1>6. LastInv' /\ ReadIsText' /\ BlankIsFilled'
  BY <1>1, <1>3 DEF LastInv, ReadIsText, BlankIsFilled
<1> QED
  BY <1>4, <1>5, <1>6, Zenon DEF StringInv

LEMMA ReadKeeps ==
  ASSUME StringInv, Read
  PROVE  StringInv'
<1>1. /\ TypeOK /\ DetectIsExact /\ layout # Undetected
      /\ UNCHANGED <<build, layout, object, heap, text>>
  BY Zenon DEF StringInv, Read, LastInv
<1>2. PICK r : r = ReadString(object)
  OBVIOUS
<1>3. /\ last'.method = "read" /\ last'.value = r /\ (last'.ok <=> r # <<>>)
      /\ last'.ok \in BOOLEAN
  BY <1>2 DEF Read
<1>4. Len(r) <= 64
  BY <1>1, <1>2, ReadIsBounded, Zenon
<1>5. TypeOK'
  <2>1. last'.method = "read" => Len(last'.value) <= 64
    BY <1>3, <1>4, Zenon
  <2>2. last'.method # "assign"
    BY <1>3
  <2> QED
    BY <1>1, <1>3, <2>1, <2>2 DEF TypeOK
<1>6. DetectIsExact' /\ NextMemberUntouched' /\ TextInv'
  BY <1>1, Zenon DEF StringInv, DetectIsExact, NextMemberUntouched, TextInv, ShortOf, LongOf
<1>7. LastInv' /\ BlankIsFilled'
  BY <1>1, <1>3 DEF LastInv, BlankIsFilled
<1>8. ReadIsText'
  <2> SUFFICES ASSUME text # Garbled
      PROVE  /\ last'.ok <=> Len(text) \in 1 .. 64 /\ Printable(text)
             /\ last'.ok => last'.value = text
    BY <1>1, Zenon DEF ReadIsText
  <2>1. text \in Seq(Byte) /\ Len(text) \in Byte /\ (ShortOf(text) \/ LongOf(text))
    BY Zenon DEF StringInv, TextInv
  <2>2. Bytes(object) = IF Len(text) \in 1 .. 64 THEN text ELSE <<>>
    BY <1>1, <2>1, ShortIsRead, LongIsRead, Zenon
  <2>3. Len(text) \in 1 .. 64 => text # <<>>
    <3>1. PICK n \in Byte : n = Len(text)
      BY <2>1, Zenon
    <3>2. n \in 1 .. 64 => n # 0
      OBVIOUS
    <3> QED
      BY <2>1, <3>1, <3>2, EmptySeq, Zenon
  <2> QED
    BY <1>2, <1>3, <2>2, <2>3, Zenon DEF ReadString
<1> QED
  BY <1>5, <1>6, <1>7, <1>8, Zenon DEF StringInv

LEMMA CheckKeeps ==
  ASSUME StringInv, CheckEmpty
  PROVE  StringInv'
<1>1. /\ TypeOK /\ DetectIsExact /\ layout # Undetected
      /\ UNCHANGED <<build, layout, object, heap, text>>
  BY Zenon DEF StringInv, CheckEmpty, LastInv
<1>2. last'.method = "is_empty" /\ (last'.ok <=> IsEmpty(object)) /\ last'.ok \in BOOLEAN
  BY DEF CheckEmpty, IsEmpty
<1>3. TypeOK'
  BY <1>1, <1>2 DEF TypeOK
<1>4. DetectIsExact' /\ NextMemberUntouched' /\ TextInv'
  BY <1>1, Zenon DEF StringInv, DetectIsExact, NextMemberUntouched, TextInv, ShortOf, LongOf
<1>5. last'.ok => object[layout.flag] = 0
  BY <1>2, Zenon DEF IsEmpty
<1>6. LastInv' /\ ReadIsText'
  BY <1>1, <1>2, <1>5 DEF LastInv, ReadIsText
<1>7. BlankIsFilled'
  <2>1. last'.method # "assign"
    BY <1>2
  <2>2. ASSUME last'.ok, text # Garbled
        PROVE  text = <<>>
    <3>1. text \in Seq(Byte) /\ (ShortOf(text) \/ LongOf(text))
      BY <2>2, Zenon DEF StringInv, TextInv
    <3> QED
      BY <1>1, <1>5, <2>2, <3>1, BlankHoldsNothing, Zenon
  <2> QED
    BY <1>1, <2>1, <2>2, Zenon DEF BlankIsFilled
<1> QED
  BY <1>3, <1>4, <1>6, <1>7, Zenon DEF StringInv

LEMMA AssignKeeps ==
  ASSUME StringInv, NEW x \in Xuids, Assign(x)
  PROVE  StringInv'
<1>1. /\ TypeOK /\ DetectIsExact /\ NextMemberUntouched
      /\ last.method = "is_empty" /\ last.ok
      /\ UNCHANGED <<build, layout, heap>>
  BY Zenon DEF StringInv, Assign
<1>2. layout # Undetected /\ object[layout.flag] = 0
  <2>1. last # Idle
    BY <1>1 DEF Idle
  <2> QED
    BY <1>1, <2>1, Zenon DEF StringInv, LastInv
<1>3. x \in Seq(Byte)
  BY GuestStringAssumption
<1>4. /\ last'.method = "assign" /\ (last'.ok <=> Assigns(object, x)) /\ last'.value = x
      /\ last'.ok \in BOOLEAN
  BY DEF Assign, Assigns
<1>5. Assigns(object, x) <=> Len(x) \in 1 .. 22
  BY <1>1, <1>2, <1>3, BlankAssigns, Zenon
<1>6. ReadIsText' /\ BlankIsFilled' /\ LastInv'
  BY <1>1, <1>2, <1>4, <1>5 DEF ReadIsText, BlankIsFilled, LastInv
<1>7. DetectIsExact'
  BY <1>1, Zenon DEF DetectIsExact
<1>8. CASE Assigns(object, x)
  <2>1. object' = Assigned(object, x) /\ text' = x
    BY <1>8, Zenon DEF Assign
  <2>2. PICK n \in Nat : n = Len(x)
    BY <1>3, LenProperties
  <2>3. n <= 22 /\ n \in Byte
    <3>1. n \in 1 .. 22
      BY <1>5, <1>8, <2>2, Zenon
    <3> QED
      BY <3>1 DEF Byte
  <2>4. PICK o : o = object'
    OBVIOUS
  <2>5. HasShort(o, build.flag, build.data, 2 * Len(x), Len(x), x)
    BY <1>1, <1>2, <1>3, <2>1, <2>2, <2>3, <2>4, AssignedHolds, Zenon
  <2>6. IsObject(object')
    BY <2>4, <2>5, Zenon DEF HasShort
  <2>7. ShortOf(x)'
    BY <1>1, <2>2, <2>3, <2>4, <2>5, Zenon DEF ShortOf
  <2>8. TextInv'
    BY <1>1, <1>2, <1>3, <2>1, <2>2, <2>3, <2>7, Zenon DEF TextInv, ShortOf
  <2>9. TypeOK'
    <3>1. Len(last'.value) <= 22
      BY <1>4, <2>2, <2>3, Zenon
    <3> QED
      BY <1>1, <1>4, <2>1, <2>6, <3>1 DEF TypeOK, IsObject
  <2>10. NextMemberUntouched'
    BY <2>6, Zenon DEF NextMemberUntouched, IsObject
  <2> QED
    BY <1>6, <1>7, <2>8, <2>9, <2>10, Zenon DEF StringInv
<1>9. CASE ~Assigns(object, x)
  <2>1. UNCHANGED <<object, text>>
    BY <1>9, Zenon DEF Assign
  <2>2. NextMemberUntouched' /\ TextInv'
    BY <1>1, <2>1, Zenon DEF StringInv, NextMemberUntouched, TextInv, ShortOf, LongOf
  <2>3. TypeOK'
    BY <1>1, <1>4, <1>9, <2>1 DEF TypeOK
  <2> QED
    BY <1>6, <1>7, <2>2, <2>3, Zenon DEF StringInv
<1> QED
  BY <1>8, <1>9

LEMMA StringStutter == StringInv /\ UNCHANGED vars => StringInv'
BY Zenon DEF vars, StringInv, TypeOK, DetectIsExact, NextMemberUntouched, TextInv, LastInv,
       ReadIsText, BlankIsFilled, ShortOf, LongOf

LEMMA StringStep == StringInv /\ [Next]_vars => StringInv'
<1> SUFFICES ASSUME StringInv, [Next]_vars PROVE StringInv'
  OBVIOUS
<1>1. CASE Detect
  BY <1>1, DetectKeeps, Zenon
<1>2. ASSUME NEW t \in Texts, NEW fill \in Fill, NEW cap \in Caps, Make(t, fill, cap)
      PROVE  StringInv'
  BY <1>2, MakeKeeps, Zenon
<1>3. ASSUME NEW flag \in Byte, NEW fill \in Fill, Elsewhere(flag, fill)
      PROVE  StringInv'
  BY <1>3, ElsewhereKeeps, Zenon
<1>4. CASE Read
  BY <1>4, ReadKeeps, Zenon
<1>5. CASE CheckEmpty
  BY <1>5, CheckKeeps, Zenon
<1>6. ASSUME NEW x \in Xuids, Assign(x)
      PROVE  StringInv'
  BY <1>6, AssignKeeps, Zenon
<1>7. CASE UNCHANGED vars
  BY <1>7, StringStutter, Zenon
<1> QED
  BY <1>1, <1>2, <1>3, <1>4, <1>5, <1>6, <1>7, Zenon DEF Next

LEMMA StringAlways == Spec => []StringInv
BY StringInit, StringStep, PTL DEF Spec

(* The library's own view of a field, from the bytes of the two forms. *)
LEMMA HeldBytes == StringInv => FieldHoldsText
<1> SUFFICES ASSUME StringInv, text # Garbled PROVE Holds(text)
  BY DEF FieldHoldsText
<1>1. /\ TypeOK /\ DetectIsExact /\ layout # Undetected
      /\ text \in Seq(Byte) /\ Len(text) \in Byte
      /\ ShortOf(text) \/ LongOf(text)
  BY Zenon DEF StringInv, TextInv
<1>2. /\ build.low /\ build.size = 8
      /\ build.data \in {0, 1} /\ build.heap \in {0, 16}
  <2>1. build.size = 8
    <3>1. build \in Libcxx
      BY <1>1, LayoutIs, Zenon
    <3> QED
      BY <3>1, BuildIs
  <2> QED
    BY <1>1, <2>1, LayoutIs, Zenon
<1>3. PICK n \in Nat : n = Len(text)
  BY <1>1, LenProperties
<1>4. CASE ShortOf(text)
  <2>1. PICK d \in Nat : d = build.data
    <3>1. build.data \in Nat
      BY <1>2
    <3> QED
      BY <3>1, Zenon
  <2>2. /\ object[build.flag] = 2 * n /\ object[d + n] = 0
        /\ \A i \in 1 .. n : object[d + i - 1] = text[i]
    BY <1>3, <1>4, <2>1, Zenon DEF ShortOf, HasShort
  <2>3. ~ (object[build.flag] % 2 = 1)
    BY <2>2
  <2>4. At(object, d, n) = text
    <3>1. \A i \in 1 .. Len(text) : object[d + i - 1] = text[i]
      BY <1>3, <2>2, Zenon
    <3> QED
      BY <1>1, <1>3, <3>1, AtIsText, Zenon
  <2>5. /\ object[build.flag] = 2 * Len(text) /\ object[build.data + Len(text)] = 0
        /\ At(object, build.data, Len(text)) = text
    BY <1>3, <2>1, <2>2, <2>4, Zenon
  <2> QED
    BY <1>2, <2>3, <2>5, Zenon DEF Holds
<1>5. CASE LongOf(text)
  <2>1. PICK c \in Byte : c % 2 = 1 /\ HasLong(object, build.flag, build.heap, c, n, Pointer)
    BY <1>3, <1>5, Zenon DEF LongOf
  <2>2. object[build.flag] % 2 = 1
    BY <2>1 DEF HasLong
  <2>3. Number(object, 8) = n
    BY <1>1, <1>3, <1>5, LongIsRead, Zenon
  <2>4. At(object, build.heap, 8) = Pointer
    <3>1. \A i \in 1 .. 8 : object[build.heap + i - 1] = Pointer[i]
      BY <2>1, Zenon DEF HasLong
    <3>2. Pointer \in [1 .. 8 -> Byte]
      BY GuestStringAssumption
    <3> QED
      BY <3>1, <3>2 DEF At
  <2>5. SubSeq(heap, 1, n) = text
    BY <1>3, <1>5, Zenon DEF LongOf
  <2> QED
    BY <1>2, <1>3, <2>2, <2>3, <2>4, <2>5, Zenon DEF Holds
<1> QED
  BY <1>1, <1>4, <1>5

-----------------------------------------------------------------------------
(* The bytes stay bytes, and read and assign keep to their limits of length. *)
THEOREM StringTypeCorrect == Spec => []TypeOK
<1>1. StringInv => TypeOK
  BY DEF StringInv
<1> QED
  BY <1>1, StringAlways, PTL

(* detect finds the layout of the library it runs with or none, for every value of the *)
(* unused bytes, every capacity and every address of the probe's buffer.               *)
THEOREM StringDetectIsExact == Spec => []DetectIsExact
<1>1. StringInv => DetectIsExact
  BY DEF StringInv
<1> QED
  BY <1>1, StringAlways, PTL

(* A field that BDS made, or that assign filled, is for BDS a string with that text. *)
THEOREM StringFieldHoldsText == Spec => []FieldHoldsText
BY HeldBytes, StringAlways, PTL

(* read gives the library's text, whole, when it is printable and 1 to 64 characters   *)
(* long, and refuses every other.                                                      *)
THEOREM StringReadIsText == Spec => []ReadIsText
<1>1. StringInv => ReadIsText
  BY DEF StringInv
<1> QED
  BY <1>1, StringAlways, PTL

(* What is_empty takes to be blank is blank, and every XUID of up to 22 characters can *)
(* be assigned to it, however the offsets of the profile led there.                    *)
THEOREM StringBlankIsFilled == Spec => []BlankIsFilled
<1>1. StringInv => BlankIsFilled
  BY DEF StringInv
<1> QED
  BY <1>1, StringAlways, PTL

(* assign writes within the 24 bytes of the string, also where there is none. *)
THEOREM StringNextMemberUntouched == Spec => []NextMemberUntouched
<1>1. StringInv => NextMemberUntouched
  BY DEF StringInv
<1> QED
  BY <1>1, StringAlways, PTL

=============================================================================
