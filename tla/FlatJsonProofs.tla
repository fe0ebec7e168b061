---------------------------- MODULE FlatJsonProofs ----------------------------
(***************************************************************************)
(* Theorems about FlatJson, for documents of any number of members, keys   *)
(* and values of any length, cut anywhere.                                 *)
(***************************************************************************)
EXTENDS FlatJson, SequenceTheorems, FiniteSetTheorems, WellFoundedInduction, TLAPS

-----------------------------------------------------------------------------
(* Numbers, sequences, and functions defined by recursion. *)

LEMMA Least ==
  ASSUME NEW S \in SUBSET Nat, S # {}
  PROVE  \E x \in S : \A y \in S : x <= y
<1> DEFINE R == OpToRel(<, Nat)
<1>1. PICK x \in S : \A y \in S : ~ (<<y, x>> \in R)
  <2> HIDE DEF R
  <2> QED
    BY WFMin, NatLessThanWellFounded, Zenon DEF R
<1>2. ASSUME NEW y \in S PROVE x <= y
  <2>1. x \in Nat /\ y \in Nat
    OBVIOUS
  <2>2. y < x => <<y, x>> \in R
    BY <2>1 DEF OpToRel
  <2>3. ~ (y < x)
    BY <1>1, <2>2, Zenon
  <2> QED
    BY <2>1, <2>3
<1> QED
  BY <1>2, Zenon

LEMMA Greatest ==
  ASSUME NEW S \in SUBSET Nat, S # {}, NEW n \in Nat, \A x \in S : x <= n
  PROVE  \E x \in S : \A y \in S : y <= x
<1> DEFINE T == {n - x : x \in S}
<1>1. T \in SUBSET Nat /\ T # {}
  <2>1. ASSUME NEW x \in S PROVE n - x \in Nat
    OBVIOUS
  <2> QED
    BY <2>1, Zenon
<1>2. PICK z \in T : \A y \in T : z <= y
  <2> HIDE DEF T
  <2> QED
    BY <1>1, Least, Zenon
<1>3. PICK x \in S : z = n - x
  BY Zenon
<1>4. ASSUME NEW y \in S PROVE y <= x
  <2>1. n - y \in T
    OBVIOUS
  <2>2. n - x <= n - y
    BY <1>2, <1>3, <2>1, Zenon
  <2>3. x \in Nat /\ y \in Nat
    OBVIOUS
  <2> QED
    BY <2>2, <2>3
<1> QED
  BY <1>4, Zenon

LEMMA Induction ==
  ASSUME NEW T, 0 \in T, \A n \in Nat : n \in T => n + 1 \in T
  PROVE  Nat \subseteq T
<1>1. SUFFICES ASSUME Nat \ T # {} PROVE FALSE
  OBVIOUS
<1>2. PICK x \in Nat \ T : \A y \in Nat \ T : x <= y
  <2>1. Nat \ T \in SUBSET Nat
    OBVIOUS
  <2> QED
    BY <1>1, <2>1, Least, Zenon
<1>3. x # 0 /\ x \notin T
  OBVIOUS
<1>4. x - 1 \in Nat /\ (x - 1) + 1 = x /\ ~ (x <= x - 1)
  BY <1>3
<1>5. x - 1 \in T
  BY <1>2, <1>4, Zenon
<1> QED
  BY <1>3, <1>4, <1>5, Zenon

LEMMA MinIs ==
  ASSUME NEW S \in SUBSET Int, NEW x \in S, \A y \in S : x <= y
  PROVE  Min(S) = x
<1>1. Min(S) \in S /\ \A y \in S : Min(S) <= y
  BY DEF Min
<1>2. Min(S) <= x /\ x <= Min(S) /\ x \in Int /\ Min(S) \in Int
  BY <1>1
<1> QED
  BY <1>2

LEMMA MinOf ==
  ASSUME NEW S \in SUBSET Nat, S # {}
  PROVE  Min(S) \in S
<1>1. PICK x \in S : \A y \in S : x <= y
  BY Least, Zenon
<1>2. S \in SUBSET Int
  OBVIOUS
<1>3. Min(S) = x
  BY <1>1, <1>2, MinIs, Zenon
<1> QED
  BY <1>1, <1>3, Zenon

LEMMA MaxIs ==
  ASSUME NEW S \in SUBSET Int, NEW x \in S, \A y \in S : y <= x
  PROVE  Max(S) = x
<1>1. Max(S) \in S /\ \A y \in S : y <= Max(S)
  BY DEF Max
<1>2. Max(S) <= x /\ x <= Max(S) /\ x \in Int /\ Max(S) \in Int
  BY <1>1
<1> QED
  BY <1>2

(* f is the function that begins with base and goes on as g says. *)
Recursion(f, n, V, base, g) ==
  /\ f \in [0 .. n -> V] /\ f[0] = base
  /\ \A k \in 1 .. n : f[k] = g[k][f[k - 1]]

LEMMA RecursionExists ==
  ASSUME NEW n \in Nat, NEW V, NEW base \in V, NEW g, \A k \in 1 .. n : g[k] \in [V -> V]
  PROVE  \E f : Recursion(f, n, V, base, g)
<1> DEFINE T == {m \in Nat : m <= n => \E f : Recursion(f, m, V, base, g)}
<1>1. 0 \in T
  <2> DEFINE f == [k \in 0 .. 0 |-> base]
  <2>1. f \in [0 .. 0 -> V] /\ f[0] = base /\ \A k \in 1 .. 0 : FALSE
    OBVIOUS
  <2> HIDE DEF f
  <2>2. Recursion(f, 0, V, base, g)
    BY <2>1, Zenon DEF Recursion
  <2> QED
    BY <2>2
<1>2. \A m \in Nat : m \in T => m + 1 \in T
  <2> SUFFICES ASSUME NEW m \in Nat, m \in T PROVE m + 1 \in T
    OBVIOUS
  <2>0. m + 1 \in Nat
    OBVIOUS
  <2> SUFFICES ASSUME m + 1 <= n PROVE \E f : Recursion(f, m + 1, V, base, g)
    BY <2>0, Zenon
  <2>1. m <= n
    OBVIOUS
  <2>2. PICK f : Recursion(f, m, V, base, g)
    BY <2>1
  <2> HIDE DEF T
  <2> DEFINE h == [k \in 0 .. m + 1 |-> IF k = m + 1 THEN g[k][f[m]] ELSE f[k]]
  <2>3. f[m] \in V
    BY <2>2 DEF Recursion
  <2>4. g[m + 1][f[m]] \in V
    <3>1. m + 1 \in 1 .. n
      BY <2>1
    <3>2. g[m + 1] \in [V -> V]
      BY <3>1, Zenon
    <3> QED
      BY <2>3, <3>2
  <2>5. h \in [0 .. m + 1 -> V]
    <3>1. \A k \in 0 .. m + 1 : k # m + 1 => k \in 0 .. m
      OBVIOUS
    <3>2. \A k \in 0 .. m : f[k] \in V
      BY <2>2, Zenon DEF Recursion
    <3>3. \A k \in 0 .. m + 1 : (IF k = m + 1 THEN g[k][f[m]] ELSE f[k]) \in V
      BY <2>4, <3>1, <3>2, Zenon
    <3> QED
      BY <3>3, Zenon
  <2>6. h[0] = base
    BY <2>2 DEF Recursion
  <2>7. ASSUME NEW k \in 1 .. m + 1 PROVE h[k] = g[k][h[k - 1]]
    <3>1. k \in 0 .. m + 1 /\ k - 1 \in 0 .. m + 1 /\ k - 1 # m + 1
      OBVIOUS
    <3>2. h[k - 1] = f[k - 1]
      BY <3>1, Zenon
    <3>3. CASE k = m + 1
      <4>1. k - 1 = m
        BY <3>3
      <4> QED
        BY <3>1, <3>2, <3>3, <4>1, Zenon
    <3>4. CASE k # m + 1
      <4>1. k \in 1 .. m
        BY <3>4
      <4>2. f[k] = g[k][f[k - 1]]
        BY <2>2, <4>1, Zenon DEF Recursion
      <4> QED
        BY <3>1, <3>2, <3>4, <4>2, Zenon
    <3> QED
      BY <3>3, <3>4
  <2> HIDE DEF h
  <2> QED
    BY <2>5, <2>6, <2>7, Zenon DEF Recursion
<1>3. n \in T
  <2> HIDE DEF T
  <2> QED
    BY <1>1, <1>2, Induction
<1>4. n <= n
  OBVIOUS
<1> QED
  BY <1>3, <1>4

-----------------------------------------------------------------------------
(* Escapes, Unquoted, Joined and Meant: what their recursion says. *)

(* f marks the backslashes of s that take along the character after them. *)
Escaping(f, s) ==
  /\ f \in [0 .. Len(s) -> BOOLEAN] /\ ~ f[0]
  /\ \A j \in 1 .. Len(s) : f[j] <=> s[j] = Backslash /\ j < Len(s) /\ ~ f[j - 1]

EscapesOf(f, s) == f = [j \in 0 .. Len(s) |-> j > 0 /\ s[j] = Backslash /\ j < Len(s) /\ ~ f[j - 1]]

LEMMA EscapesAre ==
  ASSUME NEW s, Len(s) \in Nat
  PROVE  Escaping(Escapes(s), s)
<1> DEFINE n == Len(s)
           g == [j \in 1 .. n |-> [x \in BOOLEAN |-> s[j] = Backslash /\ j < n /\ ~ x]]
<1>1. \A j \in 1 .. n : g[j] \in [BOOLEAN -> BOOLEAN]
  <2>1. \A j \in 1 .. n : \A x \in BOOLEAN : (s[j] = Backslash /\ j < n /\ ~ x) \in BOOLEAN
    OBVIOUS
  <2> QED
    BY <2>1, Zenon
<1>2. \A j \in 1 .. n : \A x \in BOOLEAN : g[j][x] = (s[j] = Backslash /\ j < n /\ ~ x)
  BY Zenon
<1> HIDE DEF g
<1>3. PICK f : Recursion(f, n, BOOLEAN, FALSE, g)
  BY <1>1, RecursionExists, Zenon
<1>4. ASSUME NEW j \in 0 .. n
      PROVE  f[j] = (j > 0 /\ s[j] = Backslash /\ j < n /\ ~ f[j - 1])
  <2>1. CASE j = 0
    <3>1. ~ (0 > 0)
      OBVIOUS
    <3> QED
      BY <1>3, <2>1, <3>1, Zenon DEF Recursion
  <2>2. CASE j # 0
    <3>1. j \in 1 .. n /\ j - 1 \in 0 .. n /\ j > 0
      BY <2>2
    <3>2. f[j] = g[j][f[j - 1]] /\ f[j - 1] \in BOOLEAN
      BY <1>3, <3>1, Zenon DEF Recursion
    <3> QED
      BY <1>2, <3>1, <3>2, Zenon
  <2> QED
    BY <2>1, <2>2
<1>5. EscapesOf(f, s)
  <2>1. f = [j \in 0 .. n |-> f[j]]
    BY <1>3, Zenon DEF Recursion
  <2> QED
    BY <1>4, <2>1, Zenon DEF EscapesOf
<1>6. EscapesOf(Escapes(s), s)
  <2>1. Escapes(s) = CHOOSE e : EscapesOf(e, s)
    BY Zenon DEF Escapes, EscapesOf
  <2> QED
    BY <1>5, <2>1, Zenon
<1> DEFINE e == Escapes(s)
<1> HIDE DEF e
<1>7. e = [j \in 0 .. n |-> j > 0 /\ s[j] = Backslash /\ j < n /\ ~ e[j - 1]]
  BY <1>6, Zenon DEF e, EscapesOf
<1>8. e \in [0 .. n -> BOOLEAN]
  BY <1>7, Zenon
<1>9. ~ e[0]
  <2>1. 0 \in 0 .. n /\ ~ (0 > 0)
    OBVIOUS
  <2>2. e[0] = (0 > 0 /\ s[0] = Backslash /\ 0 < n /\ ~ e[0 - 1])
    BY <1>7, <2>1, Zenon
  <2> QED
    BY <2>1, <2>2, Zenon
<1>10. ASSUME NEW j \in 1 .. n PROVE e[j] <=> s[j] = Backslash /\ j < n /\ ~ e[j - 1]
  <2>1. j \in 0 .. n /\ j > 0
    OBVIOUS
  <2>2. e[j] = (j > 0 /\ s[j] = Backslash /\ j < n /\ ~ e[j - 1])
    BY <1>7, <2>1, Zenon
  <2> QED
    BY <2>1, <2>2, Zenon
<1> QED
  BY <1>8, <1>9, <1>10, Zenon DEF Escaping, e

(* What a turn of unquote puts into its result, and the result so far. *)
Kept(s, e, j) == IF s[j] = "n" /\ e[j - 1] THEN Newline ELSE s[j]

OutOf(f, s, e) ==
  f = [j \in 0 .. Len(s) |->
         IF j = 0 THEN <<>> ELSE IF e[j] THEN f[j - 1] ELSE Append(f[j - 1], Kept(s, e, j))]

LEMMA UnquotedType ==
  ASSUME NEW s \in Seq(Char)
  PROVE  /\ Unquoted(s) \in Seq(Char)
         /\ Unquoted(s) = <<>> <=> s = <<>>
<1> DEFINE n == Len(s)
           e == Escapes(s)
           g == [j \in 1 .. n |-> [x \in Seq(Char) |-> IF e[j] THEN x ELSE Append(x, Kept(s, e, j))]]
<1>1. n \in Nat /\ \A j \in 1 .. n : s[j] \in Char
  BY LenProperties, ElementOfSeq
<1>2. Escaping(e, s)
  BY <1>1, EscapesAre, Zenon
<1> HIDE DEF e
<1>3. \A j \in 1 .. n : Kept(s, e, j) \in Char
  BY <1>1, FlatJsonAssumption DEF Kept
<1>4. \A x \in Seq(Char) : \A c \in Char : Append(x, c) \in Seq(Char)
  BY AppendProperties
<1>5. \A j \in 1 .. n : g[j] \in [Seq(Char) -> Seq(Char)]
  <2>1. \A j \in 1 .. n : \A x \in Seq(Char) :
          (IF e[j] THEN x ELSE Append(x, Kept(s, e, j))) \in Seq(Char)
    BY <1>3, <1>4, Zenon
  <2> QED
    BY <2>1, Zenon
<1>6. \A j \in 1 .. n : \A x \in Seq(Char) : g[j][x] = IF e[j] THEN x ELSE Append(x, Kept(s, e, j))
  BY Zenon
<1> HIDE DEF g
<1>7. <<>> \in Seq(Char)
  OBVIOUS
<1>8. PICK f : Recursion(f, n, Seq(Char), <<>>, g)
  BY <1>1, <1>5, <1>7, RecursionExists, Zenon
<1>9. ASSUME NEW j \in 0 .. n
      PROVE  f[j] = IF j = 0 THEN <<>> ELSE IF e[j] THEN f[j - 1] ELSE Append(f[j - 1], Kept(s, e, j))
  <2>1. CASE j = 0
    BY <1>8, <2>1, Zenon DEF Recursion
  <2>2. CASE j # 0
    <3>1. j \in 1 .. n /\ j - 1 \in 0 .. n
      BY <2>2
    <3>2. f[j] = g[j][f[j - 1]] /\ f[j - 1] \in Seq(Char)
      BY <1>8, <3>1, Zenon DEF Recursion
    <3> QED
      BY <1>6, <2>2, <3>1, <3>2, Zenon
  <2> QED
    BY <2>1, <2>2
<1>10. OutOf(f, s, e)
  <2>1. f = [j \in 0 .. n |-> f[j]]
    BY <1>8, Zenon DEF Recursion
  <2> QED
    BY <1>9, <2>1, Zenon DEF OutOf
<1>11. PICK o : OutOf(o, s, e) /\ Unquoted(s) = o[n]
  <2>1. Unquoted(s) = (CHOOSE o : OutOf(o, s, e))[n]
    BY Zenon DEF Unquoted, OutOf, Kept, e
  <2> QED
    BY <1>10, <2>1, Zenon
<1>12. ASSUME NEW j \in 0 .. n
       PROVE  o[j] = IF j = 0 THEN <<>> ELSE IF e[j] THEN o[j - 1] ELSE Append(o[j - 1], Kept(s, e, j))
  BY <1>11, Zenon DEF OutOf
<1> DEFINE T == {j \in Nat : j <= n => o[j] \in Seq(Char)}
<1>13. 0 \in T
  <2>1. 0 \in 0 .. n
    BY <1>1
  <2>2. o[0] = <<>>
    BY <1>12, <2>1, Zenon
  <2>3. 0 \in Nat
    OBVIOUS
  <2> QED
    BY <1>7, <2>2, <2>3, Zenon
<1>14. \A j \in Nat : j \in T => j + 1 \in T
  <2> SUFFICES ASSUME NEW j \in Nat, j \in T PROVE j + 1 \in T
    OBVIOUS
  <2>0. j + 1 \in Nat
    OBVIOUS
  <2> SUFFICES ASSUME j + 1 <= n PROVE o[j + 1] \in Seq(Char)
    BY <2>0, Zenon
  <2>1. j <= n /\ j + 1 \in 1 .. n /\ j + 1 \in 0 .. n /\ j + 1 # 0 /\ (j + 1) - 1 = j
    BY <1>1
  <2>2. o[j] \in Seq(Char)
    BY <2>1, Zenon
  <2>3. o[j + 1] = IF e[j + 1] THEN o[j] ELSE Append(o[j], Kept(s, e, j + 1))
    BY <1>12, <2>1, Zenon
  <2> QED
    BY <1>3, <1>4, <2>1, <2>2, <2>3, Zenon
<1>15. \A j \in 0 .. n : o[j] \in Seq(Char)
  <2>1. \A j \in 0 .. n : j \in Nat /\ j <= n
    OBVIOUS
  <2>2. Nat \subseteq T
    <3> HIDE DEF T
    <3> QED
      BY <1>13, <1>14, Induction, Zenon
  <2> QED
    BY <2>1, <2>2, Zenon
<1>16. n \in 0 .. n /\ 0 \in 0 .. n
  BY <1>1
<1>17. CASE s = <<>>
  <2>1. n = 0
    BY <1>17
  <2>2. o[n] = <<>>
    BY <1>12, <1>16, <2>1, Zenon
  <2> QED
    BY <1>7, <1>11, <1>17, <2>2, Zenon
<1>18. CASE s # <<>>
  <2>1. n # 0
    BY <1>18, EmptySeq
  <2>2. n \in 1 .. n /\ n - 1 \in 0 .. n /\ ~ (n < n)
    BY <1>1, <2>1
  <2>3. ~ e[n]
    BY <1>2, <2>2, Zenon DEF Escaping
  <2>4. o[n] = Append(o[n - 1], Kept(s, e, n)) /\ o[n - 1] \in Seq(Char) /\ Kept(s, e, n) \in Char
    BY <1>3, <1>12, <1>15, <1>16, <2>1, <2>2, <2>3, Zenon
  <2>5. \A x \in Seq(Char) : \A c \in Char : Append(x, c) # <<>>
    BY AppendProperties
  <2> QED
    BY <1>4, <1>11, <1>18, <2>4, <2>5, Zenon
<1> QED
  BY <1>17, <1>18

Separator(k) == IF k = 1 THEN <<>> ELSE <<Comma, Newline>>

(* f lists what the document d is after each of its members. *)
JoinedOf(f, d) ==
  f = [k \in 0 .. Len(d) |->
         IF k = 0 THEN <<"{">>
         ELSE f[k - 1] \o (IF k = 1 THEN <<>> ELSE <<Comma, Newline>>) \o Written(d[k])]

LEMMA MembersAre ==
  ASSUME NEW d \in Documents
  PROVE  /\ d \in Seq(Member) /\ Len(d) \in Nat
         /\ \A k \in 1 .. Len(d) : IsMember(d[k]) /\ d[k] \in Member
<1>1. d \in Seq(Member) /\ \A k \in DOMAIN d : IsMember(d[k])
  BY FlatJsonAssumption
<1>2. DOMAIN d = 1 .. Len(d) /\ Len(d) \in Nat
  BY <1>1, LenProperties
<1> QED
  BY <1>1, <1>2, Zenon DEF IsMember

LEMMA Chars ==
  /\ Quote \in Char /\ Colon \in Char /\ Comma \in Char /\ Newline \in Char /\ " " \in Char
  /\ "{" \in Char /\ "}" \in Char
BY FlatJsonAssumption

LEMMA Texts ==
  ASSUME NEW a \in Char, NEW b \in Char, NEW c \in Char
  PROVE  /\ <<>> \in Seq(Char) /\ <<a>> \in Seq(Char) /\ <<a, b>> \in Seq(Char)
         /\ <<a, b, c>> \in Seq(Char)
OBVIOUS

LEMMA WrittenType ==
  ASSUME NEW m \in Member
  PROVE  Written(m) \in Seq(Char)
<1>1. m.key \in Seq(Char) /\ m.value \in Seq(Char)
  BY DEF Member
<1>2. PICK q \in Seq(Char) : q = <<Quote>>
  BY Chars, Texts, Zenon
<1>3. PICK r \in Seq(Char) : r = <<Quote, Colon, " ">>
  BY Chars, Texts, Zenon
<1>4. \A x \in Seq(Char), y \in Seq(Char) : x \o y \in Seq(Char)
  BY ConcatProperties
<1>5. PICK z \in Seq(Char) : z = IF m.kind = "string" THEN (q \o m.value) \o q ELSE m.value
  <2>1. (IF m.kind = "string" THEN (q \o m.value) \o q ELSE m.value) \in Seq(Char)
    BY <1>1, <1>4, Zenon
  <2> QED
    BY <2>1
<1>6. Written(m) = ((q \o m.key) \o r) \o z
  BY <1>2, <1>3, <1>5, Zenon DEF Written
<1>7. q \o m.key \in Seq(Char)
  BY <1>1, <1>4, Zenon
<1>8. (q \o m.key) \o r \in Seq(Char)
  BY <1>4, <1>7, Zenon
<1>9. ((q \o m.key) \o r) \o z \in Seq(Char)
  BY <1>4, <1>8, Zenon
<1> QED
  BY <1>6, <1>9, Zenon

LEMMA JoinedIs ==
  ASSUME NEW d \in Documents
  PROVE  /\ \A k \in 0 .. Len(d) : Joined(d, k) \in Seq(Char)
         /\ Joined(d, 0) = <<"{">>
         /\ \A k \in 1 .. Len(d) : Joined(d, k) = Joined(d, k - 1) \o Separator(k) \o Written(d[k])
<1> DEFINE n == Len(d)
           g == [k \in 1 .. n |-> [x \in Seq(Char) |-> x \o Separator(k) \o Written(d[k])]]
<1>1. n \in Nat /\ \A k \in 1 .. n : Written(d[k]) \in Seq(Char)
  BY MembersAre, WrittenType, Zenon
<1>2. \A x \in Seq(Char), y \in Seq(Char) : x \o y \in Seq(Char)
  BY ConcatProperties
<1>3. \A k \in 1 .. n : Separator(k) \in Seq(Char)
  <2>1. <<>> \in Seq(Char) /\ <<Comma, Newline>> \in Seq(Char)
    BY Chars, Texts, Zenon
  <2> QED
    BY <2>1, Zenon DEF Separator
<1>4. \A k \in 1 .. n : g[k] \in [Seq(Char) -> Seq(Char)]
  <2>1. \A k \in 1 .. n : \A x \in Seq(Char) : x \o Separator(k) \o Written(d[k]) \in Seq(Char)
    BY <1>1, <1>2, <1>3, Zenon
  <2> QED
    BY <2>1, Zenon
<1>5. \A k \in 1 .. n : \A x \in Seq(Char) : g[k][x] = x \o Separator(k) \o Written(d[k])
  BY Zenon
<1> HIDE DEF g
<1>6. <<"{">> \in Seq(Char)
  BY Chars, Texts, Zenon
<1>7. PICK f : Recursion(f, n, Seq(Char), <<"{">>, g)
  BY <1>1, <1>4, <1>6, RecursionExists, Zenon
<1>8. ASSUME NEW k \in 0 .. n
      PROVE  f[k] = IF k = 0 THEN <<"{">>
                    ELSE f[k - 1] \o (IF k = 1 THEN <<>> ELSE <<Comma, Newline>>) \o Written(d[k])
  <2>1. CASE k = 0
    BY <1>7, <2>1, Zenon DEF Recursion
  <2>2. CASE k # 0
    <3>1. k \in 1 .. n /\ k - 1 \in 0 .. n
      BY <2>2
    <3>2. f[k] = g[k][f[k - 1]] /\ f[k - 1] \in Seq(Char)
      BY <1>7, <3>1, Zenon DEF Recursion
    <3>3. f[k] = f[k - 1] \o Separator(k) \o Written(d[k])
      BY <1>5, <3>1, <3>2, Zenon
    <3> QED
      BY <2>2, <3>3, Zenon DEF Separator
  <2> QED
    BY <2>1, <2>2
<1>9. JoinedOf(f, d)
  <2>1. f = [k \in 0 .. n |-> f[k]]
    BY <1>7, Zenon DEF Recursion
  <2> QED
    BY <1>8, <2>1, Zenon DEF JoinedOf
<1>10. PICK j : JoinedOf(j, d) /\ \A k : Joined(d, k) = j[k]
  <2>1. \A k : Joined(d, k) = (CHOOSE j : JoinedOf(j, d))[k]
    BY Zenon DEF Joined, JoinedOf
  <2> QED
    BY <1>9, <2>1, Zenon
<1>11. Joined(d, 0) = <<"{">>
  <2>1. 0 \in 0 .. n
    BY <1>1
  <2>2. j[0] = <<"{">>
    BY <1>10, <2>1, Zenon DEF JoinedOf
  <2> QED
    BY <1>10, <2>2, Zenon
<1>12. ASSUME NEW k \in 1 .. n PROVE Joined(d, k) = Joined(d, k - 1) \o Separator(k) \o Written(d[k])
  <2>1. k \in 0 .. n /\ k # 0
    OBVIOUS
  <2>2. j[k] = j[k - 1] \o Separator(k) \o Written(d[k])
    BY <1>10, <2>1, Zenon DEF JoinedOf, Separator
  <2> QED
    BY <1>10, <2>2, Zenon
<1> DEFINE T == {k \in Nat : k <= n => Joined(d, k) \in Seq(Char)}
<1>13. 0 \in T
  <2>1. 0 \in Nat
    OBVIOUS
  <2> QED
    BY <1>6, <1>11, <2>1, Zenon
<1>14. \A k \in Nat : k \in T => k + 1 \in T
  <2> SUFFICES ASSUME NEW k \in Nat, k \in T PROVE k + 1 \in T
    OBVIOUS
  <2>0. k + 1 \in Nat
    OBVIOUS
  <2> SUFFICES ASSUME k + 1 <= n PROVE Joined(d, k + 1) \in Seq(Char)
    BY <2>0, Zenon
  <2>1. k <= n /\ k + 1 \in 1 .. n /\ (k + 1) - 1 = k
    BY <1>1
  <2>2. Joined(d, k) \in Seq(Char)
    BY <2>1, Zenon
  <2>3. Joined(d, k + 1) = Joined(d, k) \o Separator(k + 1) \o Written(d[k + 1])
    BY <1>12, <2>1, Zenon
  <2> QED
    BY <1>1, <1>2, <1>3, <2>1, <2>2, <2>3, Zenon
<1>15. \A k \in 0 .. n : Joined(d, k) \in Seq(Char)
  <2>1. \A k \in 0 .. n : k \in Nat /\ k <= n
    OBVIOUS
  <2>2. Nat \subseteq T
    <3> HIDE DEF T
    <3> QED
      BY <1>13, <1>14, Induction, Zenon
  <2> QED
    BY <2>1, <2>2, Zenon
<1> QED
  BY <1>11, <1>12, <1>15, Zenon

(* What member k adds to what the members before it say. *)
Told(d, k, v) ==
  IF d[k].kind = "container" \/ d[k].key = <<>> THEN v
  ELSE With(v, Unquoted(d[k].key), IF d[k].kind = "string" THEN Unquoted(d[k].value) ELSE d[k].value)

MeantOf(f, d, n) == f = [k \in 0 .. n |-> IF k = 0 THEN <<>> ELSE Told(d, k, f[k - 1])]

LEMMA MeantExists ==
  ASSUME NEW d, NEW n \in Nat
  PROVE  \E f : MeantOf(f, d, n)
<1> DEFINE T == {m \in Nat : \E f : MeantOf(f, d, m)}
<1>1. 0 \in T
  <2> DEFINE f == [k \in 0 .. 0 |-> <<>>]
  <2>1. f = [k \in 0 .. 0 |-> IF k = 0 THEN <<>> ELSE Told(d, k, f[k - 1])]
    <3>1. \A k \in 0 .. 0 : k = 0
      OBVIOUS
    <3> QED
      BY <3>1, Zenon
  <2> HIDE DEF f
  <2>2. MeantOf(f, d, 0)
    BY <2>1, Zenon DEF MeantOf
  <2>3. 0 \in Nat
    OBVIOUS
  <2> QED
    BY <2>2, <2>3, Zenon
<1>2. \A m \in Nat : m \in T => m + 1 \in T
  <2> SUFFICES ASSUME NEW m \in Nat, m \in T PROVE m + 1 \in T
    OBVIOUS
  <2>1. PICK f : MeantOf(f, d, m)
    BY Zenon
  <2> DEFINE h == [k \in 0 .. m + 1 |-> IF k = m + 1 THEN Told(d, k, f[m]) ELSE f[k]]
  <2>2. m + 1 \in Nat /\ m + 1 \in 0 .. m + 1 /\ m + 1 # 0 /\ (m + 1) - 1 = m
        /\ m \in 0 .. m + 1 /\ m # m + 1
    OBVIOUS
  <2>3. \A k \in 0 .. m + 1 : k # m + 1 => k \in 0 .. m
    OBVIOUS
  <2>4. \A k \in 0 .. m + 1 : k # 0 => k - 1 \in 0 .. m + 1 /\ k - 1 # m + 1
    OBVIOUS
  <2>5. \A k \in 0 .. m : f[k] = IF k = 0 THEN <<>> ELSE Told(d, k, f[k - 1])
    BY <2>1, Zenon DEF MeantOf
  <2> HIDE DEF T
  <2>6. \A k \in 0 .. m + 1 : k # 0 => h[k - 1] = f[k - 1]
    BY <2>4, Zenon
  <2>7. ASSUME NEW k \in 0 .. m + 1 PROVE h[k] = IF k = 0 THEN <<>> ELSE Told(d, k, h[k - 1])
    <3>1. CASE k = m + 1
      <4>1. h[k] = Told(d, k, f[m]) /\ h[k - 1] = f[m] /\ k # 0
        BY <2>2, <2>6, <3>1, Zenon
      <4> QED
        BY <4>1, Zenon
    <3>2. CASE k # m + 1
      BY <2>3, <2>5, <2>6, <3>2, Zenon
    <3> QED
      BY <3>1, <3>2
  <2>8. h = [k \in 0 .. m + 1 |-> IF k = 0 THEN <<>> ELSE Told(d, k, h[k - 1])]
    <3>1. h = [k \in 0 .. m + 1 |-> h[k]]
      BY Zenon
    <3> HIDE DEF h
    <3> QED
      BY <2>7, <3>1, Zenon
  <2>9. MeantOf(h, d, m + 1)
    <3> HIDE DEF h
    <3> QED
      BY <2>8, Zenon DEF MeantOf
  <2> QED
    BY <2>2, <2>9, Zenon DEF T
<1>3. n \in T
  <2> HIDE DEF T
  <2> QED
    BY <1>1, <1>2, Induction
<1> QED
  BY <1>3

LEMMA MeantIs ==
  ASSUME NEW d, Len(d) \in Nat
  PROVE  /\ Meant(d, 0) = <<>>
         /\ \A k \in 1 .. Len(d) : Meant(d, k) = Told(d, k, Meant(d, k - 1))
<1>1. PICK f : MeantOf(f, d, Len(d)) /\ \A k : Meant(d, k) = f[k]
  <2>1. \A k : Meant(d, k) = (CHOOSE f : MeantOf(f, d, Len(d)))[k]
    BY Zenon DEF Meant, MeantOf, Told
  <2> QED
    BY <2>1, MeantExists, Zenon
<1>2. \A k \in 0 .. Len(d) : f[k] = IF k = 0 THEN <<>> ELSE Told(d, k, f[k - 1])
  BY <1>1, Zenon DEF MeantOf
<1>3. 0 \in 0 .. Len(d) /\ \A k \in 1 .. Len(d) : k \in 0 .. Len(d) /\ k # 0
  OBVIOUS
<1> QED
  BY <1>1, <1>2, <1>3, Zenon

-----------------------------------------------------------------------------
(* What stands where in a document. *)

LEMMA Concatenated ==
  ASSUME NEW x \in Seq(Char), NEW y \in Seq(Char)
  PROVE  /\ x \o y \in Seq(Char) /\ Len(x \o y) = Len(x) + Len(y)
         /\ \A j \in 1 .. Len(x) : (x \o y)[j] = x[j]
         /\ \A j \in 1 .. Len(y) : (x \o y)[Len(x) + j] = y[j]
BY LenProperties

(* What there is of t after its first o characters is what there is of s. *)
Shows(t, o, s) == \A j \in 1 .. Len(s) : o + j <= Len(t) => t[o + j] = s[j]

LEMMA ShowsLeft ==
  ASSUME NEW x \in Seq(Char), NEW y \in Seq(Char), NEW s \in Seq(Char), NEW o \in Nat,
         o + Len(s) <= Len(x), Shows(x, o, s)
  PROVE  Shows(x \o y, o, s)
<1>1. PICK n \in Nat, m \in Nat, l \in Nat : n = Len(x) /\ m = Len(y) /\ l = Len(s)
  BY LenProperties
<1>2. \A j \in 1 .. n : (x \o y)[j] = x[j]
  BY <1>1, Concatenated
<1>3. \A k \in 1 .. l : o + k \in 1 .. n /\ o + k <= n
  BY <1>1
<1> QED
  BY <1>1, <1>2, <1>3, Zenon DEF Shows

LEMMA ShowsRight ==
  ASSUME NEW x \in Seq(Char), NEW y \in Seq(Char)
  PROVE  Shows(x \o y, Len(x), y)
BY Concatenated, Zenon DEF Shows

(* A text that ends early shows what the whole does. *)
LEMMA ShowsCut ==
  ASSUME NEW e \in Seq(Char), NEW s \in Seq(Char), NEW o \in Nat, Shows(e, o, s),
         NEW n \in Nat, n <= Len(e)
  PROVE  Shows(SubSeq(e, 1, n), o, s)
<1>1. PICK l \in Nat, m \in Nat : l = Len(e) /\ m = Len(s)
  BY LenProperties
<1>2. Len(SubSeq(e, 1, n)) = n /\ \A j \in 1 .. n : SubSeq(e, 1, n)[j] = e[j]
  BY LenProperties
<1>3. ASSUME NEW k \in 1 .. m, o + k <= n PROVE o + k \in 1 .. n /\ o + k <= l
  BY <1>1, <1>3
<1> QED
  BY <1>1, <1>2, <1>3, Zenon DEF Shows

(* Where a member ends, and where its key and its value begin. *)
MemberEnd(d, k) == Len(Joined(d, k))
KeyAt(d, k) == MemberEnd(d, k - 1) + Len(Separator(k)) + 1
ColonAt(d, k) == KeyAt(d, k) + Len(d[k].key) + 2
ValueAt(d, k) == ColonAt(d, k) + 2

LEMMA SeparatorType ==
  ASSUME NEW k
  PROVE  /\ Separator(k) \in Seq(Char) /\ Len(Separator(k)) \in Nat
         /\ Len(Separator(k)) = IF k = 1 THEN 0 ELSE 2
<1>1. <<>> \in Seq(Char) /\ <<Comma, Newline>> \in Seq(Char)
  BY Chars, Texts, Zenon
<1>2. Len(<<>>) = 0 /\ Len(<<Comma, Newline>>) = 2 /\ 0 \in Nat /\ 2 \in Nat
  OBVIOUS
<1>3. CASE k = 1
  <2>1. Separator(k) = <<>>
    BY <1>3, Zenon DEF Separator
  <2>2. Len(Separator(k)) = 0
    BY <1>2, <2>1, Zenon
  <2>3. Separator(k) \in Seq(Char) /\ Len(Separator(k)) \in Nat
    BY <1>1, <1>2, <2>1, <2>2, Zenon
  <2> QED
    BY <1>3, <2>2, <2>3
<1>4. CASE k # 1
  <2>1. Separator(k) = <<Comma, Newline>>
    BY <1>4, Zenon DEF Separator
  <2>2. Len(Separator(k)) = 2
    BY <1>2, <2>1, Zenon
  <2>3. Separator(k) \in Seq(Char) /\ Len(Separator(k)) \in Nat
    BY <1>1, <1>2, <2>1, <2>2, Zenon
  <2> QED
    BY <1>4, <2>2, <2>3
<1> QED
  BY <1>3, <1>4

LEMMA EndsAre ==
  ASSUME NEW d \in Documents
  PROVE  /\ \A k \in 0 .. Len(d) : MemberEnd(d, k) \in Nat
         /\ MemberEnd(d, 0) = 1
         /\ \A k \in 1 .. Len(d) :
              /\ Written(d[k]) \in Seq(Char) /\ Len(Written(d[k])) \in Nat
              /\ KeyAt(d, k) \in Nat /\ MemberEnd(d, k - 1) < KeyAt(d, k)
              /\ KeyAt(d, k) = MemberEnd(d, k - 1) + (IF k = 1 THEN 1 ELSE 3)
              /\ MemberEnd(d, k) = (KeyAt(d, k) - 1) + Len(Written(d[k]))
<1>1. \A k \in 0 .. Len(d) : Joined(d, k) \in Seq(Char)
  BY JoinedIs, Zenon
<1>2. \A k \in 0 .. Len(d) : MemberEnd(d, k) \in Nat
  BY <1>1, LenProperties DEF MemberEnd
<1>3. MemberEnd(d, 0) = 1
  <2>1. Len(<<"{">>) = 1
    OBVIOUS
  <2> QED
    BY <2>1, JoinedIs, Zenon DEF MemberEnd
<1>4. ASSUME NEW k \in 1 .. Len(d)
      PROVE  /\ Written(d[k]) \in Seq(Char) /\ Len(Written(d[k])) \in Nat
             /\ KeyAt(d, k) \in Nat /\ MemberEnd(d, k - 1) < KeyAt(d, k)
             /\ KeyAt(d, k) = MemberEnd(d, k - 1) + (IF k = 1 THEN 1 ELSE 3)
             /\ MemberEnd(d, k) = (KeyAt(d, k) - 1) + Len(Written(d[k]))
  <2>1. Written(d[k]) \in Seq(Char)
    BY MembersAre, WrittenType, Zenon
  <2>2. Len(Written(d[k])) \in Nat
    BY <2>1, LenProperties
  <2>3. Len(d) \in Nat
    BY MembersAre, Zenon
  <2>4. k - 1 \in 0 .. Len(d)
    BY <2>3
  <2>5. PICK x \in Seq(Char) : x = Joined(d, k - 1) /\ Len(x) \in Nat /\ Len(x) = MemberEnd(d, k - 1)
    BY <1>1, <1>2, <2>4, Zenon DEF MemberEnd
  <2>6. PICK y \in Seq(Char) : y = Separator(k) /\ Len(y) \in Nat /\ Len(y) = IF k = 1 THEN 0 ELSE 2
    BY SeparatorType, Zenon
  <2>7. PICK w \in Seq(Char) : w = Written(d[k]) /\ Len(w) \in Nat
    BY <2>1, <2>2, Zenon
  <2>8. Joined(d, k) = (x \o y) \o w
    <3>1. Joined(d, k) = x \o y \o w
      BY <2>5, <2>6, <2>7, JoinedIs, Zenon
    <3> QED
      BY <3>1
  <2>9. Len((x \o y) \o w) = Len(x) + Len(y) + Len(w)
    BY Concatenated
  <2>10. KeyAt(d, k) = Len(x) + Len(y) + 1
    BY <2>5, <2>6, Zenon DEF KeyAt
  <2>11. MemberEnd(d, k) = Len(x) + Len(y) + Len(w)
    BY <2>8, <2>9, Zenon DEF MemberEnd
  <2>12. /\ KeyAt(d, k) \in Nat /\ MemberEnd(d, k) = (KeyAt(d, k) - 1) + Len(w)
         /\ KeyAt(d, k) = Len(x) + (IF k = 1 THEN 1 ELSE 3) /\ Len(x) < KeyAt(d, k)
    BY <2>5, <2>6, <2>7, <2>10, <2>11, SMTT(30)
  <2>13. KeyAt(d, k) = MemberEnd(d, k - 1) + (IF k = 1 THEN 1 ELSE 3) /\ MemberEnd(d, k - 1) < KeyAt(d, k)
    BY <2>5, <2>12, Zenon
  <2>14. MemberEnd(d, k) = (KeyAt(d, k) - 1) + Len(Written(d[k]))
    BY <2>7, <2>12, Zenon
  <2> QED
    BY <2>1, <2>2, <2>12, <2>13, <2>14, Zenon
<1> QED
  BY <1>2, <1>3, <1>4, Zenon

(* In t, member k and what stands before it are where they belong. *)
Laid(t, d, k) ==
  /\ Shows(t, MemberEnd(d, k - 1), Separator(k))
  /\ Shows(t, KeyAt(d, k) - 1, Written(d[k]))

LEMMA LaidLeft ==
  ASSUME NEW d \in Documents, NEW k \in 1 .. Len(d), NEW x \in Seq(Char), NEW y \in Seq(Char),
         MemberEnd(d, k) <= Len(x), Laid(x, d, k)
  PROVE  Laid(x \o y, d, k)
<1>1. Len(d) \in Nat /\ Len(x) \in Nat
  BY MembersAre, LenProperties
<1>2. k - 1 \in 0 .. Len(d)
  BY <1>1
<1>3. PICK e \in Nat, q \in Nat, w \in Seq(Char), f \in Nat :
        e = MemberEnd(d, k - 1) /\ q = KeyAt(d, k) /\ w = Written(d[k]) /\ f = MemberEnd(d, k)
  <2>1. k \in 0 .. Len(d)
    BY <1>1
  <2> QED
    BY <1>2, <2>1, EndsAre, Zenon
<1>4. Len(w) \in Nat /\ e < q /\ q = e + (IF k = 1 THEN 1 ELSE 3) /\ f = (q - 1) + Len(w)
  BY <1>3, EndsAre, Zenon
<1>5. PICK s \in Seq(Char) : s = Separator(k) /\ Len(s) = IF k = 1 THEN 0 ELSE 2
  BY SeparatorType, Zenon
<1>6. q - 1 \in Nat /\ e + Len(s) <= Len(x) /\ (q - 1) + Len(w) <= Len(x)
  <2>1. PICK ls \in Nat, lw \in Nat, lx \in Nat : ls = Len(s) /\ lw = Len(w) /\ lx = Len(x)
    BY LenProperties
  <2>2. f <= lx
    BY <1>3, <2>1, Zenon
  <2>3. ls = (IF k = 1 THEN 0 ELSE 2) /\ f = (q - 1) + lw
    BY <1>4, <1>5, <2>1
  <2>4. q - 1 \in Nat /\ e + ls <= lx /\ (q - 1) + lw <= lx
    BY <1>4, <2>2, <2>3
  <2> QED
    BY <2>1, <2>4, Zenon
<1>7. Shows(x, e, s) /\ Shows(x, q - 1, w)
  BY <1>3, <1>5, Zenon DEF Laid
<1>8. Shows(x \o y, e, s) /\ Shows(x \o y, q - 1, w)
  BY <1>6, <1>7, ShowsLeft, Zenon
<1> QED
  BY <1>3, <1>5, <1>8, Zenon DEF Laid

LEMMA JoinedShows ==
  ASSUME NEW d \in Documents, NEW n \in 0 .. Len(d)
  PROVE  /\ Shows(Joined(d, n), 0, <<"{">>) /\ 1 <= MemberEnd(d, n)
         /\ \A k \in 1 .. n : MemberEnd(d, k) <= MemberEnd(d, n) /\ Laid(Joined(d, n), d, k)
<1> DEFINE Good(m) ==
             /\ Shows(Joined(d, m), 0, <<"{">>) /\ 1 <= MemberEnd(d, m)
             /\ \A k \in 1 .. m : MemberEnd(d, k) <= MemberEnd(d, m) /\ Laid(Joined(d, m), d, k)
           T == {m \in Nat : m <= Len(d) => Good(m)}
<1>0. Len(d) \in Nat
  BY MembersAre, Zenon
<1>a. <<"{">> \in Seq(Char)
  BY Chars, Texts, Zenon
<1>1. 0 \in T
  <2>1. Shows(<<"{">>, 0, <<"{">>)
    BY DEF Shows
  <2>2. \A k \in 1 .. 0 : FALSE
    OBVIOUS
  <2>3. Joined(d, 0) = <<"{">> /\ MemberEnd(d, 0) = 1
    BY JoinedIs, EndsAre, Zenon
  <2>4. 0 \in Nat /\ 1 <= 1
    OBVIOUS
  <2> QED
    BY <2>1, <2>2, <2>3, <2>4, Zenon
<1>b. \A m \in Nat : m \in T <=> (m <= Len(d) => Good(m))
  BY Zenon
<1>2. \A m \in Nat : m \in T => m + 1 \in T
  <2> HIDE DEF T
  <2> SUFFICES ASSUME NEW m \in Nat, m \in T PROVE m + 1 \in T
    BY Zenon
  <2>0. m + 1 \in Nat
    OBVIOUS
  <2> SUFFICES ASSUME m + 1 <= Len(d) PROVE Good(m + 1)
    BY <1>b, <2>0, Zenon
  <2>1. m <= Len(d) /\ m \in 0 .. Len(d) /\ m + 1 \in 1 .. Len(d) /\ (m + 1) - 1 = m /\ m + 1 \in 0 .. Len(d)
    <3> HIDE DEF Good
    <3> QED
      BY <1>0
  <2>2. Good(m)
    BY <1>b, <2>1, Zenon
  <2>3. PICK x \in Seq(Char), y \in Seq(Char), w \in Seq(Char) :
          x = Joined(d, m) /\ y = Separator(m + 1) /\ w = Written(d[m + 1])
    BY <2>1, JoinedIs, SeparatorType, EndsAre, Zenon
  <2>4. Joined(d, m + 1) = (x \o y) \o w
    <3>1. Joined(d, m + 1) = x \o y \o w
      BY <2>1, <2>3, JoinedIs, Zenon
    <3> QED
      BY <3>1
  <2>5. Len(x) \in Nat /\ Len(y) \in Nat /\ Len(w) \in Nat
    BY LenProperties
  <2>6. x \o y \in Seq(Char) /\ Len(x \o y) = Len(x) + Len(y) /\ Len((x \o y) \o w) = Len(x) + Len(y) + Len(w)
    BY Concatenated
  <2>7. Len(x) = MemberEnd(d, m) /\ MemberEnd(d, m + 1) = Len((x \o y) \o w)
    BY <2>3, <2>4, Zenon DEF MemberEnd
  <2>8. MemberEnd(d, m) <= MemberEnd(d, m + 1) /\ Len(x) <= Len(x \o y)
    BY <2>5, <2>6, <2>7
  <2>9. KeyAt(d, m + 1) - 1 = Len(x \o y)
    <3>1. KeyAt(d, m + 1) = Len(x) + Len(y) + 1
      BY <2>1, <2>3, <2>7, Zenon DEF KeyAt
    <3> QED
      BY <3>1, <2>5, <2>6
  <2>10. Laid((x \o y) \o w, d, m + 1)
    <3>1. Shows(x \o y, Len(x), y)
      BY ShowsRight
    <3>2. Len(x) + Len(y) <= Len(x \o y)
      BY <2>5, <2>6
    <3>3. Shows((x \o y) \o w, Len(x), y)
      BY <2>5, <2>6, <3>1, <3>2, ShowsLeft, Zenon
    <3>4. Shows((x \o y) \o w, Len(x \o y), w)
      BY <2>6, ShowsRight, Zenon
    <3> QED
      BY <2>1, <2>3, <2>7, <2>9, <3>3, <3>4, Zenon DEF Laid
  <2>11. Shows((x \o y) \o w, 0, <<"{">>)
    <3>1. Len(<<"{">>) = 1 /\ 0 + 1 = 1 /\ 0 \in Nat
      OBVIOUS
    <3>a. 1 <= Len(x)
      BY <2>2, <2>7, Zenon
    <3>b. 1 <= Len(x \o y)
      <4> HIDE DEF Good
      <4> QED
        BY <2>5, <2>6, <3>a
    <3>2. 0 + Len(<<"{">>) <= Len(x)
      BY <3>1, <3>a
    <3>3. 0 + Len(<<"{">>) <= Len(x \o y)
      BY <3>1, <3>b
    <3>4. Shows(x, 0, <<"{">>)
      BY <2>2, <2>3, Zenon
    <3>5. Shows(x \o y, 0, <<"{">>)
      BY <1>a, <3>1, <3>2, <3>4, ShowsLeft, Zenon
    <3> QED
      BY <1>a, <2>6, <3>1, <3>3, <3>5, ShowsLeft, Zenon
  <2>12. ASSUME NEW k \in 1 .. m + 1
         PROVE  MemberEnd(d, k) <= MemberEnd(d, m + 1) /\ Laid((x \o y) \o w, d, k)
    <3>1. CASE k = m + 1
      <4>1. MemberEnd(d, m + 1) \in Nat
        BY <2>1, EndsAre, Zenon
      <4>2. MemberEnd(d, m + 1) <= MemberEnd(d, m + 1)
        BY <4>1
      <4> QED
        BY <2>10, <3>1, <4>2, Zenon
    <3>2. CASE k # m + 1
      <4>1. k \in 1 .. m /\ k \in 1 .. Len(d) /\ k \in 0 .. Len(d)
        BY <2>1, <3>2
      <4>2. MemberEnd(d, k) \in Nat /\ MemberEnd(d, m) \in Nat /\ MemberEnd(d, m + 1) \in Nat
        BY <2>1, <4>1, EndsAre, Zenon
      <4>3. MemberEnd(d, k) <= MemberEnd(d, m) /\ Laid(x, d, k)
        BY <2>2, <2>3, <4>1, Zenon
      <4>4. MemberEnd(d, k) <= MemberEnd(d, m + 1) /\ MemberEnd(d, k) <= Len(x) /\ MemberEnd(d, k) <= Len(x \o y)
        BY <2>5, <2>6, <2>7, <2>8, <4>2, <4>3
      <4>5. Laid(x \o y, d, k)
        BY <4>1, <4>3, <4>4, LaidLeft, Zenon
      <4>6. Laid((x \o y) \o w, d, k)
        BY <2>6, <4>1, <4>4, <4>5, LaidLeft, Zenon
      <4> QED
        BY <4>4, <4>6
    <3> QED
      BY <3>1, <3>2
  <2>13. 1 <= MemberEnd(d, m + 1)
    <3>1. MemberEnd(d, m) \in Nat /\ MemberEnd(d, m + 1) \in Nat
      BY <2>1, EndsAre, Zenon
    <3>2. 1 <= MemberEnd(d, m)
      BY <2>2, Zenon
    <3> HIDE DEF Good
    <3> QED
      BY <2>8, <3>1, <3>2
  <2> QED
    BY <2>4, <2>11, <2>12, <2>13, Zenon
<1>3. Nat \subseteq T
  <2> HIDE DEF T
  <2> QED
    BY <1>1, <1>2, Induction, Zenon
<1>4. n \in Nat /\ n <= Len(d)
  BY <1>0
<1> QED
  BY <1>3, <1>4, Zenon

(* A text as much of which there is as one finds. *)
Shown(t, d) ==
  /\ t \in Seq(Char) /\ Len(t) \in Nat /\ Len(t) <= MemberEnd(d, Len(d)) + 1
  /\ Shows(t, 0, <<"{">>)
  /\ \A k \in 1 .. Len(d) : Laid(t, d, k)
  /\ Shows(t, MemberEnd(d, Len(d)), <<"}">>)

LEMMA WholeShows ==
  ASSUME NEW d \in Documents
  PROVE  /\ Shown(Whole(d), d) /\ Len(Whole(d)) = MemberEnd(d, Len(d)) + 1
         /\ \A k \in 0 .. Len(d) : MemberEnd(d, k) <= MemberEnd(d, Len(d))
<1>0. Len(d) \in Nat /\ Len(d) \in 0 .. Len(d)
  BY MembersAre
<1>1. <<"{">> \in Seq(Char) /\ <<"}">> \in Seq(Char)
  BY Chars, Texts, Zenon
<1>2. PICK x \in Seq(Char), z \in Seq(Char) : x = Joined(d, Len(d)) /\ z = <<"}">>
  BY <1>0, <1>1, JoinedIs, Zenon
<1>3. Whole(d) = x \o z
  BY <1>2, Zenon DEF Whole
<1>4. x \o z \in Seq(Char) /\ Len(x \o z) = Len(x) + 1 /\ Len(x) \in Nat
  <2>1. Len(z) = 1
    <3>1. Len(<<"}">>) = 1
      OBVIOUS
    <3> QED
      BY <1>2, <3>1, Zenon
  <2>2. Len(x) \in Nat
    BY LenProperties
  <2>3. x \o z \in Seq(Char) /\ Len(x \o z) = Len(x) + Len(z)
    BY Concatenated
  <2> QED
    BY <2>1, <2>2, <2>3
<1>5. Len(x) = MemberEnd(d, Len(d))
  BY <1>2, Zenon DEF MemberEnd
<1>6. /\ Shows(x, 0, <<"{">>) /\ 1 <= Len(x)
      /\ \A k \in 1 .. Len(d) : MemberEnd(d, k) <= Len(x) /\ Laid(x, d, k)
  BY <1>0, <1>2, <1>5, JoinedShows, Zenon
<1>7. Shows(x \o z, 0, <<"{">>)
  <2>a. Len(<<"{">>) = 1 /\ 0 + 1 = 1
    OBVIOUS
  <2>1. 0 + Len(<<"{">>) <= Len(x) /\ 0 \in Nat
    BY <1>6, <2>a, Zenon
  <2> QED
    BY <1>1, <1>6, <2>1, ShowsLeft, Zenon
<1>8. Shows(x \o z, Len(x), <<"}">>)
  BY <1>2, ShowsRight, Zenon
<1>9. \A k \in 1 .. Len(d) : Laid(x \o z, d, k)
  BY <1>6, LaidLeft, Zenon
<1>10. Len(x \o z) <= Len(x) + 1 /\ Len(x \o z) \in Nat
  BY <1>4
<1>11. Shown(x \o z, d)
  BY <1>4, <1>5, <1>7, <1>8, <1>9, <1>10, Zenon DEF Shown
<1>12. ASSUME NEW k \in 0 .. Len(d) PROVE MemberEnd(d, k) <= Len(x)
  <2>1. CASE k = 0
    BY <1>6, <2>1, EndsAre, Zenon
  <2>2. CASE k # 0
    <3>1. k \in 1 .. Len(d)
      BY <1>0, <2>2
    <3> QED
      BY <1>6, <3>1, Zenon
  <2> QED
    BY <2>1, <2>2
<1> QED
  BY <1>3, <1>4, <1>5, <1>11, <1>12, Zenon

(* Whatever there is of a document shows it. *)
LEMMA CutShown ==
  ASSUME NEW d \in Documents, NEW t \in Prefixes(Whole(d))
  PROVE  Shown(t, d)
<1>0. Len(d) \in Nat /\ Len(d) \in 0 .. Len(d)
  BY MembersAre
<1>1. PICK w \in Seq(Char) : w = Whole(d) /\ Shown(w, d)
  BY WholeShows, Zenon DEF Shown
<1>2. PICK n \in 0 .. Len(w) : t = SubSeq(w, 1, n)
  BY <1>1, Zenon DEF Prefixes
<1>3. Len(w) \in Nat /\ n \in Nat /\ n <= Len(w)
  BY LenProperties
<1>4. t \in Seq(Char) /\ Len(t) = n
  BY <1>2, <1>3, LenProperties
<1>5. PICK m \in Nat : m = MemberEnd(d, Len(d))
  BY <1>0, EndsAre, Zenon
<1>6. Len(w) <= m + 1
  BY <1>1, <1>5, Zenon DEF Shown
<1>7. Len(t) \in Nat /\ Len(t) <= m + 1
  BY <1>3, <1>4, <1>6
<1>8. \A o \in Nat : \A s \in Seq(Char) : Shows(w, o, s) => Shows(t, o, s)
  BY <1>2, <1>3, ShowsCut
<1>9. <<"{">> \in Seq(Char) /\ <<"}">> \in Seq(Char) /\ 0 \in Nat
  BY Chars, Texts, Zenon
<1>10. ASSUME NEW k \in 1 .. Len(d) PROVE Laid(t, d, k)
  <2>1. k - 1 \in 0 .. Len(d)
    BY <1>0
  <2>2. PICK e \in Nat, q \in Nat : e = MemberEnd(d, k - 1) /\ q = KeyAt(d, k)
    BY <2>1, EndsAre, Zenon
  <2>3. e < q
    BY <2>2, EndsAre, Zenon
  <2>4. q - 1 \in Nat
    BY <2>3
  <2>5. Separator(k) \in Seq(Char) /\ Written(d[k]) \in Seq(Char)
    BY SeparatorType, EndsAre, Zenon
  <2>6. Shows(w, e, Separator(k)) /\ Shows(w, q - 1, Written(d[k]))
    BY <1>1, <2>2, Zenon DEF Shown, Laid
  <2>7. Shows(t, e, Separator(k)) /\ Shows(t, q - 1, Written(d[k]))
    BY <1>8, <2>4, <2>5, <2>6, Zenon
  <2> QED
    BY <2>2, <2>7, Zenon DEF Laid
<1>11. Shows(t, 0, <<"{">>) /\ Shows(t, m, <<"}">>)
  <2>1. Shows(w, 0, <<"{">>) /\ Shows(w, m, <<"}">>)
    BY <1>1, <1>5, Zenon DEF Shown
  <2> QED
    BY <1>8, <1>9, <2>1, Zenon
<1> QED
  BY <1>4, <1>5, <1>7, <1>10, <1>11, Zenon DEF Shown

LEMMA ShowsParts ==
  ASSUME NEW t, Len(t) \in Nat, NEW o \in Nat, NEW x \in Seq(Char), NEW y \in Seq(Char), Shows(t, o, x \o y)
  PROVE  Shows(t, o, x) /\ Shows(t, o + Len(x), y)
<1>1. PICK n \in Nat, m \in Nat, l \in Nat : n = Len(x) /\ m = Len(y) /\ l = Len(t)
  BY LenProperties
<1>2. /\ Len(x \o y) = n + m
      /\ \A j \in 1 .. n : (x \o y)[j] = x[j]
      /\ \A j \in 1 .. m : (x \o y)[n + j] = y[j]
  BY <1>1, Concatenated
<1>3. \A j \in 1 .. n + m : o + j <= l => t[o + j] = (x \o y)[j]
  BY <1>1, <1>2, Zenon DEF Shows
<1>4. ASSUME NEW j \in 1 .. n, o + j <= l PROVE t[o + j] = x[j]
  <2>1. j \in 1 .. n + m
    OBVIOUS
  <2> QED
    BY <1>2, <1>3, <1>4, <2>1, Zenon
<1>5. ASSUME NEW j \in 1 .. m, (o + n) + j <= l PROVE t[(o + n) + j] = y[j]
  <2>1. n + j \in 1 .. n + m /\ (o + n) + j = o + (n + j)
    OBVIOUS
  <2> QED
    BY <1>2, <1>3, <1>5, <2>1, Zenon
<1> QED
  BY <1>1, <1>4, <1>5, Zenon DEF Shows

(* If there is a character of t at p, it is c. *)
Has(t, p, c) == p <= Len(t) => t[p] = c

LEMMA ShowsChars ==
  ASSUME NEW t, NEW o \in Nat
  PROVE  /\ \A a : Shows(t, o, <<a>>) => Has(t, o + 1, a)
         /\ \A a, b : Shows(t, o, <<a, b>>) => Has(t, o + 1, a) /\ Has(t, o + 2, b)
         /\ \A a, b, c : Shows(t, o, <<a, b, c>>) => Has(t, o + 1, a) /\ Has(t, o + 2, b) /\ Has(t, o + 3, c)
<1>1. ASSUME NEW a, Shows(t, o, <<a>>) PROVE Has(t, o + 1, a)
  <2>1. Len(<<a>>) = 1 /\ <<a>>[1] = a /\ 1 \in 1 .. 1
    OBVIOUS
  <2> QED
    BY <1>1, <2>1, Zenon DEF Shows, Has
<1>2. ASSUME NEW a, NEW b, Shows(t, o, <<a, b>>) PROVE Has(t, o + 1, a) /\ Has(t, o + 2, b)
  <2>1. Len(<<a, b>>) = 2 /\ <<a, b>>[1] = a /\ <<a, b>>[2] = b /\ 1 \in 1 .. 2 /\ 2 \in 1 .. 2
    OBVIOUS
  <2> QED
    BY <1>2, <2>1, Zenon DEF Shows, Has
<1>3. ASSUME NEW a, NEW b, NEW c, Shows(t, o, <<a, b, c>>)
      PROVE  Has(t, o + 1, a) /\ Has(t, o + 2, b) /\ Has(t, o + 3, c)
  <2>1. /\ Len(<<a, b, c>>) = 3 /\ 1 \in 1 .. 3 /\ 2 \in 1 .. 3 /\ 3 \in 1 .. 3
        /\ <<a, b, c>>[1] = a /\ <<a, b, c>>[2] = b /\ <<a, b, c>>[3] = c
    OBVIOUS
  <2> QED
    BY <1>3, <2>1, Zenon DEF Shows, Has
<1> QED
  BY <1>1, <1>2, <1>3, Zenon

(* Member m is in t, its key's opening quote at q. *)
Placed(t, m, q) ==
  /\ Has(t, q, Quote) /\ Shows(t, q, m.key) /\ Has(t, q + Len(m.key) + 1, Quote)
  /\ Has(t, q + Len(m.key) + 2, Colon) /\ Has(t, q + Len(m.key) + 3, " ")
  /\ IF m.kind = "string"
     THEN /\ Has(t, q + Len(m.key) + 4, Quote) /\ Shows(t, q + Len(m.key) + 4, m.value)
          /\ Has(t, q + Len(m.key) + 4 + Len(m.value) + 1, Quote)
     ELSE Shows(t, q + Len(m.key) + 3, m.value)

LEMMA Placing ==
  ASSUME NEW t, Len(t) \in Nat, NEW m \in Member, NEW q \in Nat \ {0}, Shows(t, q - 1, Written(m))
  PROVE  Placed(t, m, q)
<1>1. PICK key \in Seq(Char), val \in Seq(Char) : key = m.key /\ val = m.value
  BY DEF Member
<1>2. PICK a \in Seq(Char) : a = <<Quote>>
  BY Chars, Texts, Zenon
<1>3. PICK r \in Seq(Char) : r = <<Quote, Colon, " ">>
  BY Chars, Texts, Zenon
<1>4. Len(a) = 1 /\ Len(r) = 3
  <2>1. Len(<<Quote>>) = 1 /\ Len(<<Quote, Colon, " ">>) = 3
    OBVIOUS
  <2> QED
    BY <1>2, <1>3, <2>1, Zenon
<1>5. PICK k \in Nat, v \in Nat : k = Len(key) /\ v = Len(val)
  BY LenProperties
<1>6. PICK p \in Nat : q - 1 = p /\ p + 1 = q
  OBVIOUS
<1>7. \A x \in Seq(Char), y \in Seq(Char) : x \o y \in Seq(Char) /\ Len(x \o y) = Len(x) + Len(y)
  BY Concatenated
<1>8. ASSUME NEW z \in Seq(Char), Written(m) = ((a \o key) \o r) \o z
      PROVE  /\ Has(t, q, Quote) /\ Shows(t, q, key) /\ Has(t, q + k + 1, Quote)
             /\ Has(t, q + k + 2, Colon) /\ Has(t, q + k + 3, " ")
             /\ Shows(t, q + k + 3, z)
  <2>1. a \o key \in Seq(Char) /\ (a \o key) \o r \in Seq(Char)
    BY <1>7, Zenon
  <2>2. Len(a \o key) = 1 + k /\ Len((a \o key) \o r) = (1 + k) + 3
    <3>1. Len(a \o key) = Len(a) + Len(key)
      BY <1>7, Zenon
    <3>2. Len((a \o key) \o r) = Len(a \o key) + Len(r)
      BY <1>7, <2>1, Zenon
    <3> QED
      BY <1>4, <1>5, <3>1, <3>2, Zenon
  <2>3. Shows(t, p, (a \o key) \o r) /\ Shows(t, p + ((1 + k) + 3), z)
    <3>1. PICK b \in Seq(Char) : b = (a \o key) \o r
      BY <2>1, Zenon
    <3>2. Shows(t, p, b \o z)
      BY <1>6, <1>8, <3>1, Zenon
    <3>3. Shows(t, p, b) /\ Shows(t, p + Len(b), z)
      BY <3>2, ShowsParts, Zenon
    <3> QED
      BY <2>2, <3>1, <3>3, Zenon
  <2>4. Shows(t, p, a \o key) /\ Shows(t, p + (1 + k), r)
    BY <2>1, <2>2, <2>3, ShowsParts, Zenon
  <2>5. Shows(t, p, a) /\ Shows(t, p + 1, key)
    BY <1>4, <2>4, ShowsParts, Zenon
  <2>6. p + (1 + k) = q + k /\ p + ((1 + k) + 3) = q + k + 3 /\ q + k \in Nat
    BY <1>6
  <2>7. Has(t, p + 1, Quote)
    BY <1>2, <2>5, ShowsChars, Zenon
  <2>8. Has(t, q + k + 1, Quote) /\ Has(t, q + k + 2, Colon) /\ Has(t, q + k + 3, " ")
    BY <1>3, <2>4, <2>6, ShowsChars, Zenon
  <2> QED
    BY <1>6, <2>3, <2>5, <2>6, <2>7, <2>8, Zenon
<1>9. CASE m.kind = "string"
  <2>1. PICK z \in Seq(Char) : z = (a \o val) \o a
    BY <1>7, Zenon
  <2>2. Written(m) = ((a \o key) \o r) \o z
    BY <1>1, <1>2, <1>3, <1>9, <2>1, Zenon DEF Written
  <2>3. /\ Has(t, q, Quote) /\ Shows(t, q, key) /\ Has(t, q + k + 1, Quote)
        /\ Has(t, q + k + 2, Colon) /\ Has(t, q + k + 3, " ")
        /\ Shows(t, q + k + 3, z)
    BY <1>8, <2>2, Zenon
  <2>4. PICK o \in Nat : o = q + k + 3
    OBVIOUS
  <2>5. a \o val \in Seq(Char) /\ Len(a \o val) = 1 + v
    BY <1>4, <1>5, <1>7, Zenon
  <2>6. Shows(t, o, a \o val) /\ Shows(t, o + (1 + v), a)
    BY <2>1, <2>3, <2>4, <2>5, ShowsParts, Zenon
  <2>7. Shows(t, o, a) /\ Shows(t, o + 1, val)
    BY <1>4, <2>6, ShowsParts, Zenon
  <2>8. o + (1 + v) \in Nat /\ o + 1 = q + k + 4 /\ (o + (1 + v)) + 1 = q + k + 4 + v + 1
    BY <2>4
  <2>9. Has(t, q + k + 4, Quote) /\ Shows(t, q + k + 4, val) /\ Has(t, q + k + 4 + v + 1, Quote)
    BY <1>2, <2>6, <2>7, <2>8, ShowsChars, Zenon
  <2> QED
    BY <1>1, <1>5, <1>9, <2>3, <2>9, Zenon DEF Placed
<1>10. CASE m.kind # "string"
  <2>1. Written(m) = ((a \o key) \o r) \o val
    BY <1>1, <1>2, <1>3, <1>10, Zenon DEF Written
  <2>2. /\ Has(t, q, Quote) /\ Shows(t, q, key) /\ Has(t, q + k + 1, Quote)
        /\ Has(t, q + k + 2, Colon) /\ Has(t, q + k + 3, " ")
        /\ Shows(t, q + k + 3, val)
    BY <1>8, <2>1, Zenon
  <2> QED
    BY <1>1, <1>5, <1>10, <2>2, Zenon DEF Placed
<1> QED
  BY <1>9, <1>10

LEMMA WrittenLength ==
  ASSUME NEW m \in Member
  PROVE  /\ Len(m.key) \in Nat /\ Len(m.value) \in Nat
         /\ Len(Written(m)) = Len(m.key) + Len(m.value) + (IF m.kind = "string" THEN 6 ELSE 4)
<1>1. PICK key \in Seq(Char), val \in Seq(Char) : key = m.key /\ val = m.value
  BY DEF Member
<1>2. PICK a \in Seq(Char) : a = <<Quote>>
  BY Chars, Texts, Zenon
<1>3. PICK r \in Seq(Char) : r = <<Quote, Colon, " ">>
  BY Chars, Texts, Zenon
<1>4. Len(a) = 1 /\ Len(r) = 3
  <2>1. Len(<<Quote>>) = 1 /\ Len(<<Quote, Colon, " ">>) = 3
    OBVIOUS
  <2> QED
    BY <1>2, <1>3, <2>1, Zenon
<1>5. PICK k \in Nat, v \in Nat : k = Len(key) /\ v = Len(val)
  BY LenProperties
<1>7. \A x \in Seq(Char), y \in Seq(Char) : x \o y \in Seq(Char) /\ Len(x \o y) = Len(x) + Len(y)
  BY Concatenated
<1>8. ASSUME NEW z \in Seq(Char)
      PROVE  Len(((a \o key) \o r) \o z) = ((1 + k) + 3) + Len(z)
  <2>1. a \o key \in Seq(Char) /\ (a \o key) \o r \in Seq(Char)
    BY <1>7, Zenon
  <2>2. Len(a \o key) = Len(a) + Len(key)
    BY <1>7, Zenon
  <2>3. Len((a \o key) \o r) = Len(a \o key) + Len(r)
    BY <1>7, <2>1, Zenon
  <2>4. Len(((a \o key) \o r) \o z) = Len((a \o key) \o r) + Len(z)
    BY <1>7, <2>1, Zenon
  <2> QED
    BY <1>4, <1>5, <2>2, <2>3, <2>4, Zenon
<1>9. CASE m.kind = "string"
  <2>1. PICK z \in Seq(Char) : z = (a \o val) \o a
    BY <1>7, Zenon
  <2>2. Written(m) = ((a \o key) \o r) \o z
    BY <1>1, <1>2, <1>3, <1>9, <2>1, Zenon DEF Written
  <2>3. Len(z) = (1 + v) + 1
    <3>1. a \o val \in Seq(Char) /\ Len(a \o val) = Len(a) + Len(val)
      BY <1>7, Zenon
    <3>2. Len((a \o val) \o a) = Len(a \o val) + Len(a)
      BY <1>7, <3>1, Zenon
    <3> QED
      BY <1>4, <1>5, <2>1, <3>1, <3>2, Zenon
  <2>4. Len(Written(m)) = ((1 + k) + 3) + ((1 + v) + 1)
    BY <1>8, <2>2, <2>3, Zenon
  <2>5. ((1 + k) + 3) + ((1 + v) + 1) = k + v + 6
    OBVIOUS
  <2>6. Len(Written(m)) = Len(m.key) + Len(m.value) + 6
    BY <1>1, <1>5, <2>4, <2>5, Zenon
  <2> QED
    BY <1>1, <1>5, <1>9, <2>6
<1>10. CASE m.kind # "string"
  <2>1. Written(m) = ((a \o key) \o r) \o val
    BY <1>1, <1>2, <1>3, <1>10, Zenon DEF Written
  <2>4. Len(Written(m)) = ((1 + k) + 3) + v
    BY <1>5, <1>8, <2>1, Zenon
  <2>5. ((1 + k) + 3) + v = k + v + 4
    OBVIOUS
  <2>6. Len(Written(m)) = Len(m.key) + Len(m.value) + 4
    BY <1>1, <1>5, <2>4, <2>5, Zenon
  <2> QED
    BY <1>1, <1>5, <1>10, <2>6
<1> QED
  BY <1>9, <1>10

-----------------------------------------------------------------------------
(* What the reader's scanning finds. *)

LEMMA LeastIs ==
  ASSUME NEW S \in SUBSET Nat, NEW p \in S, \A j \in S : j < p => FALSE
  PROVE  S # {} /\ Min(S) = p
<1>1. \A y \in S : p <= y
  OBVIOUS
<1>2. S \in SUBSET Int
  OBVIOUS
<1> QED
  BY <1>1, <1>2, MinIs, Zenon

LEMMA FirstAt ==
  ASSUME text \in Seq(Char), NEW from \in Nat, NEW S, NEW p \in from .. Len(text), text[p] \in S,
         \A j \in from .. p - 1 : text[j] \notin S
  PROVE  First(from, S) = p
<1> DEFINE found == {j \in from .. Len(text) : text[j] \in S}
<1>1. Len(text) \in Nat
  BY LenProperties
<1>2. p \in found
  BY Zenon
<1>3. ASSUME NEW j \in found, j < p PROVE FALSE
  <2>1. j \in from .. Len(text) /\ text[j] \in S
    BY Zenon
  <2>2. j \in from .. p - 1
    BY <1>1, <1>3, <2>1
  <2> QED
    BY <2>1, <2>2, Zenon
<1>4. found \in SUBSET Nat
  <2>1. \A j \in from .. Len(text) : j \in Nat
    BY <1>1
  <2> QED
    BY <2>1, Zenon
<1>5. First(from, S) = IF found = {} THEN None ELSE Min(found)
  BY Zenon DEF First
<1> HIDE DEF found
<1>6. found # {} /\ Min(found) = p
  BY <1>2, <1>3, <1>4, LeastIs, Zenon
<1> QED
  BY <1>5, <1>6, Zenon

LEMMA FirstNone ==
  ASSUME NEW from, NEW S, \A j \in from .. Len(text) : text[j] \notin S
  PROVE  First(from, S) = None
BY Zenon DEF First

LEMMA ValueStartAt ==
  ASSUME text \in Seq(Char), NEW c \in Nat, NEW p \in c + 1 .. Len(text), text[p] \notin Blank,
         \A j \in c + 1 .. p - 1 : text[j] \in Blank
  PROVE  ValueStart(c) = p
<1> DEFINE found == {j \in c + 1 .. Len(text) : text[j] \notin Blank}
<1>1. Len(text) \in Nat
  BY LenProperties
<1>2. p \in found
  BY Zenon
<1>3. ASSUME NEW j \in found, j < p PROVE FALSE
  <2>1. j \in c + 1 .. Len(text) /\ text[j] \notin Blank
    BY Zenon
  <2>2. j \in c + 1 .. p - 1
    BY <1>1, <1>3, <2>1
  <2> QED
    BY <2>1, <2>2, Zenon
<1>4. found \in SUBSET Nat
  <2>1. \A j \in c + 1 .. Len(text) : j \in Nat
    BY <1>1
  <2> QED
    BY <2>1, Zenon
<1>5. ValueStart(c) = IF found = {} THEN None ELSE Min(found)
  BY Zenon DEF ValueStart
<1> HIDE DEF found
<1>6. found # {} /\ Min(found) = p
  BY <1>2, <1>3, <1>4, LeastIs, Zenon
<1> QED
  BY <1>5, <1>6, Zenon

LEMMA ValueStartNone ==
  ASSUME NEW c, \A j \in c + 1 .. Len(text) : text[j] \in Blank
  PROVE  ValueStart(c) = None
BY Zenon DEF ValueStart

(* As far as two strings agree, and do not end, so do their escapes. *)
LEMMA EscapesAgree ==
  ASSUME NEW x, NEW y, Len(x) \in Nat, Len(y) \in Nat, NEW m \in Nat, m <= Len(x), m <= Len(y),
         \A j \in 1 .. m : x[j] = y[j]
  PROVE  \A j \in 0 .. m : j < m => (Escapes(x)[j] <=> Escapes(y)[j])
<1>1. PICK e, f : e = Escapes(x) /\ f = Escapes(y)
  BY Zenon
<1>2. Escaping(e, x) /\ Escaping(f, y)
  BY <1>1, EscapesAre, Zenon
<1> DEFINE T == {j \in Nat : j < m => (e[j] <=> f[j])}
<1>3. 0 \in T
  <2>1. 0 \in Nat
    OBVIOUS
  <2> QED
    BY <1>2, <2>1, Zenon DEF Escaping
<1>4. \A j \in Nat : j \in T => j + 1 \in T
  <2> SUFFICES ASSUME NEW j \in Nat, j \in T PROVE j + 1 \in T
    OBVIOUS
  <2>0. j + 1 \in Nat
    OBVIOUS
  <2> SUFFICES ASSUME j + 1 < m PROVE e[j + 1] <=> f[j + 1]
    BY <2>0, Zenon
  <2>1. /\ j < m /\ j + 1 \in 1 .. m /\ j + 1 \in 1 .. Len(x) /\ j + 1 \in 1 .. Len(y)
        /\ j + 1 < Len(x) /\ j + 1 < Len(y) /\ (j + 1) - 1 = j
    OBVIOUS
  <2>2. e[j] <=> f[j]
    BY <2>1, Zenon
  <2>3. e[j + 1] <=> x[j + 1] = Backslash /\ ~ e[j]
    <3>1. e[j + 1] <=> x[j + 1] = Backslash /\ j + 1 < Len(x) /\ ~ e[(j + 1) - 1]
      BY <1>2, <2>1, Zenon DEF Escaping
    <3> QED
      BY <2>1, <3>1, Zenon
  <2>4. f[j + 1] <=> y[j + 1] = Backslash /\ ~ f[j]
    <3>1. f[j + 1] <=> y[j + 1] = Backslash /\ j + 1 < Len(y) /\ ~ f[(j + 1) - 1]
      BY <1>2, <2>1, Zenon DEF Escaping
    <3> QED
      BY <2>1, <3>1, Zenon
  <2>5. x[j + 1] = y[j + 1]
    BY <2>1, Zenon
  <2> QED
    BY <2>2, <2>3, <2>4, <2>5, Zenon
<1>5. Nat \subseteq T
  <2> HIDE DEF T
  <2> QED
    BY <1>3, <1>4, Induction, Zenon
<1>6. \A j \in 0 .. m : j \in Nat
  OBVIOUS
<1> QED
  BY <1>1, <1>5, <1>6, Zenon

(* The quotes of s that nothing escapes. *)
Unescaped(s) == {j \in DOMAIN s : s[j] = Quote /\ ~ Escapes(s)[j - 1]}

LEMMA StringEndOf ==
  ASSUME NEW from, NEW r, r = SubSeq(text, from, Len(text))
  PROVE  StringEnd(from) = IF Unescaped(r) = {} THEN None ELSE from - 1 + Min(Unescaped(r))
BY DEF StringEnd, Unescaped

LEMMA StringEndIs ==
  ASSUME text \in Seq(Char), NEW s \in Seq(Char), IsText(s), NEW o \in Nat, o <= Len(text),
         Shows(text, o, s), Has(text, o + Len(s) + 1, Quote)
  PROVE  StringEnd(o + 1) = IF o + Len(s) + 1 <= Len(text) THEN o + Len(s) + 1 ELSE None
<1>1. PICK l \in Nat, k \in Nat : l = Len(text) /\ k = Len(s)
  BY LenProperties
<1>2. PICK rest \in Seq(Char) : rest = SubSeq(text, o + 1, Len(text))
  <2>1. \A j \in o + 1 .. l : text[j] \in Char
    BY <1>1, ElementOfSeq
  <2>2. SubSeq(text, o + 1, l) \in Seq(Char)
    BY <2>1, SubSeqProperties
  <2> QED
    BY <1>1, <2>2, Zenon
<1>3. PICK quoted \in Seq(Char) : quoted = Append(s, Quote)
  BY Chars, AppendProperties
<1>4. Len(rest) = l - o /\ \A j \in 1 .. l - o : rest[j] = text[o + j]
  <2>1. \A j \in o + 1 .. l : text[j] \in Char
    BY <1>1, ElementOfSeq
  <2>2. /\ Len(SubSeq(text, o + 1, l)) = IF o + 1 <= l THEN l - (o + 1) + 1 ELSE 0
        /\ \A j \in 1 .. l - (o + 1) + 1 : SubSeq(text, o + 1, l)[j] = text[(o + 1) + j - 1]
    BY <2>1, SubSeqProperties
  <2>3. o + 1 \in Int /\ l - (o + 1) + 1 = l - o /\ \A j \in 1 .. l - o : (o + 1) + j - 1 = o + j
    OBVIOUS
  <2>4. (IF o + 1 <= l THEN l - (o + 1) + 1 ELSE 0) = l - o
    BY <1>1
  <2> QED
    BY <1>1, <1>2, <2>2, <2>3, <2>4, Zenon
<1>5. Len(quoted) = k + 1 /\ quoted[k + 1] = Quote /\ \A j \in 1 .. k : quoted[j] = s[j]
  BY <1>1, <1>3, AppendProperties
<1>6. DOMAIN quoted = 1 .. k + 1 /\ DOMAIN rest = 1 .. l - o
  BY <1>4, <1>5, LenProperties
<1>7. PICK m \in Nat : m <= l - o /\ m <= k + 1 /\ (m = l - o \/ m = k + 1)
  <2>1. o <= l
    BY <1>1, Zenon
  <2>2. l - o \in Nat /\ k + 1 \in Nat
    BY <2>1
  <2>3. CASE k + 1 <= l - o
    <3>1. k + 1 <= k + 1
      OBVIOUS
    <3> QED
      BY <2>2, <2>3, <3>1, Zenon
  <2>4. CASE ~ (k + 1 <= l - o)
    <3>1. l - o <= k + 1 /\ l - o <= l - o
      BY <2>2, <2>4
    <3> QED
      BY <2>2, <3>1, Zenon
  <2> QED
    BY <2>3, <2>4
<1>8. ASSUME NEW j \in 1 .. m PROVE rest[j] = quoted[j]
  <2>1. j \in 1 .. l - o /\ j \in 1 .. k + 1 /\ o + j <= l
    BY <1>1, <1>7
  <2>2. rest[j] = text[o + j]
    BY <1>4, <2>1, Zenon
  <2>3. CASE j \in 1 .. k
    BY <1>1, <1>5, <2>1, <2>2, <2>3, Zenon DEF Shows
  <2>4. CASE j = k + 1
    <3>1. o + j = o + k + 1
      BY <2>4
    <3> QED
      BY <1>1, <1>5, <2>1, <2>2, <2>4, <3>1, Zenon DEF Has
  <2> QED
    BY <2>1, <2>3, <2>4
<1>9. PICK e, f : e = Escapes(rest) /\ f = Escapes(quoted)
  BY Zenon
<1>10. \A j \in 0 .. m : j < m => (e[j] <=> f[j])
  <2>1. m <= Len(rest) /\ m <= Len(quoted) /\ Len(rest) \in Nat /\ Len(quoted) \in Nat
    BY <1>1, <1>4, <1>5, <1>7
  <2> QED
    BY <1>8, <1>9, <2>1, EscapesAgree, Zenon
<1>11. \A j \in 1 .. k + 1 : quoted[j] = Quote => (f[j - 1] <=> j <= k)
  BY <1>1, <1>3, <1>6, <1>9, Zenon DEF IsText
<1>12. ASSUME NEW j \in 1 .. m PROVE rest[j] = Quote /\ ~ e[j - 1] <=> j = k + 1
  <2>1. j \in 1 .. k + 1 /\ j - 1 \in 0 .. m /\ j - 1 < m
    BY <1>7
  <2>2. rest[j] = quoted[j] /\ (e[j - 1] <=> f[j - 1])
    BY <1>8, <1>10, <2>1, Zenon
  <2>3. CASE j = k + 1
    <3>1. ~ (j <= k)
      BY <2>3
    <3> QED
      BY <1>5, <1>11, <2>1, <2>2, <2>3, <3>1, Zenon
  <2>4. CASE j # k + 1
    <3>1. j <= k
      BY <2>1, <2>4
    <3> QED
      BY <1>11, <2>1, <2>2, <2>4, <3>1, Zenon
  <2> QED
    BY <2>3, <2>4
<1> DEFINE ends == {j \in 1 .. l - o : rest[j] = Quote /\ ~ e[j - 1]}
<1>13. StringEnd(o + 1) = IF ends = {} THEN None ELSE ((o + 1) - 1) + Min(ends)
  <2>1. StringEnd(o + 1) = IF Unescaped(rest) = {} THEN None ELSE ((o + 1) - 1) + Min(Unescaped(rest))
    <3>1. PICK r : r = SubSeq(text, o + 1, Len(text))
      BY Zenon
    <3>2. StringEnd(o + 1) = IF Unescaped(r) = {} THEN None ELSE ((o + 1) - 1) + Min(Unescaped(r))
      BY <3>1, StringEndOf, Zenon
    <3> QED
      BY <1>2, <3>1, <3>2, Zenon
  <2>2. Unescaped(rest) = ends
    BY <1>6, <1>9, Zenon DEF Unescaped
  <2> QED
    BY <2>1, <2>2, Zenon
<1>14. CASE k + 1 <= l - o
  <2>1. m = k + 1 /\ k + 1 \in 1 .. m /\ k + 1 \in 1 .. l - o
    BY <1>1, <1>7, <1>14
  <2>2. k + 1 \in ends
    BY <1>12, <2>1, Zenon
  <2>3. ASSUME NEW j \in ends, j < k + 1 PROVE FALSE
    <3>1. j \in 1 .. l - o /\ rest[j] = Quote /\ ~ e[j - 1]
      BY Zenon
    <3>2. j \in 1 .. m /\ j # k + 1
      BY <2>1, <2>3, <3>1
    <3> QED
      BY <1>12, <3>1, <3>2, Zenon
  <2>4. ends \in SUBSET Nat
    <3>1. \A j \in 1 .. l - o : j \in Nat
      OBVIOUS
    <3> QED
      BY <3>1, Zenon
  <2> HIDE DEF ends
  <2>5. ends # {} /\ Min(ends) = k + 1
    BY <2>2, <2>3, <2>4, LeastIs, Zenon
  <2>6. StringEnd(o + 1) = ((o + 1) - 1) + (k + 1)
    BY <1>13, <2>5, Zenon
  <2>7. ((o + 1) - 1) + (k + 1) = o + k + 1 /\ o + k + 1 <= l
    BY <1>1, <1>14
  <2>8. StringEnd(o + 1) = o + Len(s) + 1 /\ o + Len(s) + 1 <= Len(text)
    BY <1>1, <2>6, <2>7, Zenon
  <2> QED
    BY <2>8
<1>15. CASE ~ (k + 1 <= l - o)
  <2>1. m = l - o
    BY <1>1, <1>7, <1>15
  <2>2. \A j \in 1 .. l - o : j # k + 1
    BY <1>1, <1>15
  <2>3. ends = {}
    BY <1>12, <2>1, <2>2, Zenon
  <2>4. StringEnd(o + 1) = None
    BY <1>13, <2>3, Zenon
  <2>5. ~ (o + k + 1 <= l)
    BY <1>1, <1>15
  <2>6. ~ (o + Len(s) + 1 <= Len(text))
    BY <1>1, <2>5, Zenon
  <2> QED
    BY <2>4, <2>6
<1> QED
  BY <1>14, <1>15

Count(t, from, j, S) == Cardinality({k \in from .. j : t[k] \in S})

SameCount(t, s, S, o, j) == Count(t, o + 1, o + j, S) = Count(s, 1, j, S)

LEMMA BracketsShown ==
  ASSUME NEW t, NEW s, NEW S, NEW o \in Nat, NEW j \in Nat, \A k \in 1 .. j : t[o + k] = s[k]
  PROVE  SameCount(t, s, S, o, j)
<1> DEFINE A == {k \in 1 .. j : s[k] \in S}
           B == {k \in o + 1 .. o + j : t[k] \in S}
           g == [k \in A |-> o + k]
<1>1. IsFiniteSet(A)
  <2>1. IsFiniteSet(1 .. j)
    BY FS_Interval
  <2>2. A \in SUBSET (1 .. j)
    BY Zenon
  <2> HIDE DEF A
  <2> QED
    BY <2>1, <2>2, FS_Subset, Zenon
<1>2. ASSUME NEW k \in A PROVE o + k \in B
  <2>1. k \in 1 .. j /\ s[k] \in S
    BY Zenon
  <2>2. o + k \in o + 1 .. o + j
    BY <2>1
  <2>3. t[o + k] \in S
    BY <2>1, Zenon
  <2> QED
    BY <2>2, <2>3, Zenon
<1>3. ASSUME NEW k \in B PROVE \E m \in A : o + m = k
  <2>1. k \in o + 1 .. o + j /\ t[k] \in S
    BY Zenon
  <2>2. k - o \in 1 .. j /\ o + (k - o) = k
    BY <2>1
  <2>3. k - o \in A
    BY <2>1, <2>2, Zenon
  <2> QED
    BY <2>2, <2>3, Zenon
<1>4. ASSUME NEW k \in A, NEW m \in A, o + k = o + m PROVE k = m
  <2>1. k \in 1 .. j /\ m \in 1 .. j
    BY Zenon
  <2> HIDE DEF A
  <2> QED
    BY <1>4, <2>1
<1> HIDE DEF A, B
<1>5. g \in [A -> B] /\ \A k \in A : g[k] = o + k
  BY <1>2, Zenon
<1> HIDE DEF g
<1>6. g \in Injection(A, B)
  <2>1. DOMAIN g = A
    BY <1>5, Zenon
  <2>2. IsInjective(g)
    BY <1>4, <1>5, <2>1, ZenonT(40) DEF IsInjective
  <2> QED
    BY <1>5, <2>2, Zenon DEF Injection
<1>7. g \in Surjection(A, B)
  BY <1>3, <1>5, Zenon DEF Surjection
<1>8. ExistsBijection(A, B)
  BY <1>6, <1>7, Zenon DEF ExistsBijection, Bijection
<1>9. Cardinality(B) = Cardinality(A)
  BY <1>1, <1>8, FS_Bijection, Zenon
<1> QED
  BY <1>9, Zenon DEF A, B, Count, SameCount

LEMMA ContainerEndIs ==
  ASSUME text \in Seq(Char), NEW s \in Seq(Char), IsContainer(s), NEW o \in Nat,
         o + Len(s) <= Len(text), Shows(text, o, s)
  PROVE  ContainerEnd(o + 1) = o + Len(s)
<1>1. PICK l \in Nat, n \in Nat : l = Len(text) /\ n = Len(s)
  BY LenProperties
<1>2. o + n <= l
  BY <1>1, Zenon
<1>3. ASSUME NEW k \in 1 .. n PROVE text[o + k] = s[k]
  <2>1. o + k <= l
    BY <1>2
  <2> QED
    BY <1>1, <2>1, Zenon DEF Shows
<1>4. ASSUME NEW j \in 1 .. n PROVE Depth(text, o + 1, o + j) = Depth(s, 1, j)
  <2>1. j \in Nat /\ \A k \in 1 .. j : k \in 1 .. n
    OBVIOUS
  <2>2. \A k \in 1 .. j : text[o + k] = s[k]
    BY <1>3, <2>1, Zenon
  <2>a. PICK t : t = text
    BY Zenon
  <2>b. \A k \in 1 .. j : t[o + k] = s[k]
    BY <2>2, <2>a, Zenon
  <2>3. \A S : Count(text, o + 1, o + j, S) = Count(s, 1, j, S)
    <3>1. \A S : SameCount(t, s, S, o, j)
      BY <2>1, <2>b, BracketsShown, Zenon
    <3> QED
      BY <2>a, <3>1, Zenon DEF SameCount
  <2>4. /\ Depth(text, o + 1, o + j) = Count(text, o + 1, o + j, Opening) - Count(text, o + 1, o + j, Closing)
        /\ Depth(s, 1, j) = Count(s, 1, j, Opening) - Count(s, 1, j, Closing)
    BY Zenon DEF Depth, Count
  <2> QED
    BY <2>3, <2>4
<1>5. /\ n >= 2 /\ s[n] \in Closing /\ Depth(s, 1, n) = 0
      /\ \A j \in 1 .. n - 1 : s[j] \in Closing => Depth(s, 1, j) # 0
  BY <1>1, Zenon DEF IsContainer
<1> DEFINE ends == {j \in o + 1 .. l : text[j] \in Closing /\ Depth(text, o + 1, j) = 0}
<1>6. ContainerEnd(o + 1) = IF ends = {} THEN None ELSE Min(ends)
  BY <1>1, Zenon DEF ContainerEnd
<1>7. o + n \in ends
  <2>1. n \in 1 .. n /\ o + n \in o + 1 .. l
    BY <1>2, <1>5
  <2> QED
    BY <1>3, <1>4, <1>5, <2>1, Zenon
<1>8. ASSUME NEW j \in ends, j < o + n PROVE FALSE
  <2>1. j \in o + 1 .. l /\ text[j] \in Closing /\ Depth(text, o + 1, j) = 0
    BY Zenon
  <2>2. PICK k \in 1 .. n - 1 : o + k = j
    <3>1. j - o \in 1 .. n - 1 /\ o + (j - o) = j
      BY <1>8, <2>1
    <3> QED
      BY <3>1, Zenon
  <2>3. k \in 1 .. n
    OBVIOUS
  <2> QED
    BY <1>3, <1>4, <1>5, <2>1, <2>2, <2>3, Zenon
<1>9. ends \in SUBSET Nat
  <2>1. \A j \in o + 1 .. l : j \in Nat
    OBVIOUS
  <2> QED
    BY <2>1, Zenon
<1> HIDE DEF ends
<1>10. ends # {} /\ Min(ends) = o + n
  BY <1>7, <1>8, <1>9, LeastIs, Zenon
<1> QED
  BY <1>1, <1>6, <1>10, Zenon

LEMMA WordsTrimmed ==
  ASSUME NEW s \in Seq(Char), s # <<>>, \A j \in 1 .. Len(s) : s[j] \notin Blank
  PROVE  Trimmed(s) = s
<1>1. PICK n \in Nat : n = Len(s)
  BY LenProperties
<1>2. n # 0
  BY <1>1, EmptySeq
<1>3. DOMAIN s = 1 .. n
  BY <1>1, LenProperties
<1>4. {j \in DOMAIN s : s[j] \notin Blank} = 1 .. n
  BY <1>1, <1>3, Zenon
<1>5. Min(1 .. n) = 1 /\ Max(1 .. n) = n
  <2>1. 1 \in 1 .. n /\ n \in 1 .. n /\ 1 .. n \in SUBSET Int
    BY <1>2
  <2>2. \A y \in 1 .. n : 1 <= y /\ y <= n
    OBVIOUS
  <2>3. Min(1 .. n) = 1
    BY <2>1, <2>2, MinIs, Zenon
  <2>4. Max(1 .. n) = n
    BY <2>1, <2>2, MaxIs, Zenon
  <2> QED
    BY <2>3, <2>4, Zenon
<1>6. 1 .. n # {}
  <2>1. 1 \in 1 .. n
    BY <1>2
  <2> QED
    BY <2>1, Zenon
<1>7. Trimmed(s) = SubSeq(s, 1, n)
  <2>1. PICK S : S = {j \in DOMAIN s : s[j] \notin Blank}
    BY Zenon
  <2>2. Trimmed(s) = IF S = {} THEN <<>> ELSE SubSeq(s, Min(S), Max(S))
    BY <2>1, Zenon DEF Trimmed
  <2> QED
    BY <1>4, <1>5, <1>6, <2>1, <2>2, Zenon
<1>8. SubSeq(s, 1, n) = s
  BY <1>1, LenProperties
<1> QED
  BY <1>7, <1>8, Zenon

(* The n characters after the first o are the first n of s. *)
Reads(o, n, s) ==
  /\ SubSeq(text, o + 1, o + n) = SubSeq(s, 1, n)
  /\ SubSeq(s, 1, n) \in Prefixes(s) /\ SubSeq(s, 1, n) \in Seq(Char)
  /\ Len(SubSeq(s, 1, n)) = n /\ \A j \in 1 .. n : SubSeq(s, 1, n)[j] = s[j]
  /\ n = Len(s) => SubSeq(s, 1, n) = s

LEMMA SubSeqShown ==
  ASSUME text \in Seq(Char), NEW s \in Seq(Char), NEW o \in Nat, NEW n \in Nat,
         Shows(text, o, s), n <= Len(s), o + n <= Len(text)
  PROVE  Reads(o, n, s)
<1>1. PICK l \in Nat, m \in Nat : l = Len(text) /\ m = Len(s)
  BY LenProperties
<1>2. n <= m /\ o + n <= l
  BY <1>1, Zenon
<1>3. ASSUME NEW k \in 1 .. n PROVE text[o + k] = s[k]
  <2>1. k \in 1 .. m /\ o + k <= l
    BY <1>2
  <2> QED
    BY <1>1, <2>1, Zenon DEF Shows
<1>4. \A j \in 1 .. m : s[j] \in Char
  BY <1>1, ElementOfSeq
<1>5. /\ SubSeq(s, 1, n) \in Seq(Char) /\ Len(SubSeq(s, 1, n)) = n
      /\ \A j \in 1 .. n : SubSeq(s, 1, n)[j] = s[j]
  <2>1. \A j \in 1 .. n : s[j] \in Char
    BY <1>2, <1>4
  <2> QED
    BY <2>1, SubSeqProperties
<1>6. /\ SubSeq(text, o + 1, o + n) \in Seq(Char) /\ Len(SubSeq(text, o + 1, o + n)) = n
      /\ \A j \in 1 .. n : SubSeq(text, o + 1, o + n)[j] = s[j]
  <2>1. \A j \in 1 .. l : text[j] \in Char
    BY <1>1, ElementOfSeq
  <2>2. \A j \in o + 1 .. o + n : text[j] \in Char
    BY <1>2, <2>1
  <2>3. /\ SubSeq(text, o + 1, o + n) \in Seq(Char)
        /\ Len(SubSeq(text, o + 1, o + n)) = IF o + 1 <= o + n THEN (o + n) - (o + 1) + 1 ELSE 0
        /\ \A j \in 1 .. (o + n) - (o + 1) + 1 : SubSeq(text, o + 1, o + n)[j] = text[(o + 1) + j - 1]
    BY <2>2, SubSeqProperties
  <2>4. (o + n) - (o + 1) + 1 = n /\ \A j \in 1 .. n : (o + 1) + j - 1 = o + j
    OBVIOUS
  <2>5. (IF o + 1 <= o + n THEN (o + n) - (o + 1) + 1 ELSE 0) = n
    OBVIOUS
  <2> QED
    BY <1>3, <2>3, <2>4, <2>5, Zenon
<1>7. SubSeq(text, o + 1, o + n) = SubSeq(s, 1, n)
  BY <1>5, <1>6, SeqEqual
<1>8. n \in 0 .. m
  BY <1>2
<1>9. SubSeq(s, 1, n) \in Prefixes(s)
  BY <1>1, <1>8, Zenon DEF Prefixes
<1>10. SubSeq(s, 1, m) = s
  BY <1>1, LenProperties
<1> QED
  BY <1>1, <1>5, <1>7, <1>9, <1>10, Zenon DEF Reads

-----------------------------------------------------------------------------
(* A turn that begins where a member ended. *)

LaidOut(t, d, k, kl, vl, p, q, e) ==
  /\ kl = Len(d[k].key) /\ vl = Len(d[k].value)
  /\ p = MemberEnd(d, k - 1) /\ q = KeyAt(d, k) /\ e = MemberEnd(d, k)
  /\ 1 <= p /\ q = p + (IF k = 1 THEN 1 ELSE 3)
  /\ e = q + kl + 3 + vl + (IF d[k].kind = "string" THEN 2 ELSE 0)
  /\ Placed(t, d[k], q)
  /\ k # 1 => Has(t, p + 1, Comma) /\ Has(t, p + 2, Newline)

LEMMA Layout ==
  ASSUME NEW d \in Documents, NEW t, Shown(t, d), NEW k \in 1 .. Len(d)
  PROVE  \E kl, vl, p, q, e \in Nat : LaidOut(t, d, k, kl, vl, p, q, e)
<1>1. Len(d) \in Nat /\ d[k] \in Member
  BY MembersAre, Zenon
<1>2. k - 1 \in 0 .. Len(d) /\ k \in 0 .. Len(d)
  BY <1>1
<1>3. PICK kl, vl, p, q, e \in Nat :
        /\ kl = Len(d[k].key) /\ vl = Len(d[k].value)
        /\ p = MemberEnd(d, k - 1) /\ q = KeyAt(d, k) /\ e = MemberEnd(d, k)
  <2>1. MemberEnd(d, k - 1) \in Nat /\ MemberEnd(d, k) \in Nat /\ KeyAt(d, k) \in Nat
    BY <1>2, EndsAre, Zenon
  <2>2. Len(d[k].key) \in Nat /\ Len(d[k].value) \in Nat
    BY <1>1, WrittenLength, Zenon
  <2> QED
    BY <2>1, <2>2
<1>4. 1 <= p
  BY <1>2, <1>3, JoinedShows, Zenon
<1>5. p < q /\ q = p + (IF k = 1 THEN 1 ELSE 3)
  BY <1>3, EndsAre, Zenon
<1>6. e = q + kl + 3 + vl + (IF d[k].kind = "string" THEN 2 ELSE 0)
  <2>1. PICK w \in Nat : w = Len(Written(d[k]))
    BY EndsAre, Zenon
  <2>2. e = (q - 1) + w
    BY <1>3, <2>1, EndsAre, Zenon
  <2>3. w = kl + vl + (IF d[k].kind = "string" THEN 6 ELSE 4)
    BY <1>1, <1>3, <2>1, WrittenLength, Zenon
  <2>4. CASE d[k].kind = "string"
    <3>1. w = kl + vl + 6 /\ (IF d[k].kind = "string" THEN 2 ELSE 0) = 2
      BY <2>3, <2>4, Zenon
    <3>2. e = q + kl + 3 + vl + 2
      BY <2>2, <3>1, SMTT(30)
    <3> QED
      BY <3>1, <3>2, Zenon
  <2>5. CASE d[k].kind # "string"
    <3>1. w = kl + vl + 4 /\ (IF d[k].kind = "string" THEN 2 ELSE 0) = 0
      BY <2>3, <2>5, Zenon
    <3>2. e = q + kl + 3 + vl + 0
      BY <2>2, <3>1, SMTT(30)
    <3> QED
      BY <3>1, <3>2, Zenon
  <2> QED
    BY <2>4, <2>5, Zenon
<1>7. Placed(t, d[k], q)
  <2>1. Shows(t, q - 1, Written(d[k])) /\ Len(t) \in Nat
    BY <1>3, Zenon DEF Shown, Laid
  <2>2. q \in Nat \ {0}
    BY <1>5
  <2> QED
    BY <1>1, <2>1, <2>2, Placing, Zenon
<1>8. ASSUME k # 1 PROVE Has(t, p + 1, Comma) /\ Has(t, p + 2, Newline)
  <2>1. Shows(t, p, <<Comma, Newline>>)
    BY <1>3, <1>8, Zenon DEF Shown, Laid, Separator
  <2> QED
    BY <2>1, ShowsChars, Zenon
<1> QED
  BY <1>3, <1>4, <1>5, <1>6, <1>7, <1>8, Zenon DEF LaidOut

(* p is a position behind member k, or before the first. *)
Behind(d, t, p, k) ==
  /\ p \in 1 .. Len(t) + 1
  /\ k = 0 => p = 1
  /\ k # 0 => p \in {MemberEnd(d, k) + 1, MemberEnd(d, k) + 2} /\ MemberEnd(d, k) <= Len(t)

LEMMA KeyQuoteIs ==
  ASSUME NEW d \in Documents, Shown(text, d), NEW k \in 0 .. Len(d), k # Len(d), Behind(d, text, i, k),
         NEW q \in Nat, q = KeyAt(d, k + 1)
  PROVE  /\ KeyQuote = IF q <= Len(text) THEN q ELSE None
         /\ \A j \in i .. Len(text) : j < q => text[j] # Colon
         /\ i <= q
<1>1. PICK l \in Nat : l = Len(text) /\ text \in Seq(Char)
  BY Zenon DEF Shown
<1>2. Len(d) \in Nat
  BY MembersAre, Zenon
<1>3. k + 1 \in 1 .. Len(d) /\ (k + 1) - 1 = k /\ k \in Nat
  BY <1>2
<1>4. PICK p \in Nat :
        /\ p = MemberEnd(d, k) /\ q = p + (IF k + 1 = 1 THEN 1 ELSE 3)
        /\ Has(text, q, Quote)
        /\ k + 1 # 1 => Has(text, p + 1, Comma) /\ Has(text, p + 2, Newline)
  <2>1. PICK kl, vl, p, r, e \in Nat :
          /\ p = MemberEnd(d, (k + 1) - 1) /\ r = KeyAt(d, k + 1)
          /\ r = p + (IF k + 1 = 1 THEN 1 ELSE 3) /\ Placed(text, d[k + 1], r)
          /\ k + 1 # 1 => Has(text, p + 1, Comma) /\ Has(text, p + 2, Newline)
    BY <1>3, Layout, ZenonT(40) DEF LaidOut
  <2>2. p = MemberEnd(d, k) /\ r = q
    BY <1>3, <2>1, Zenon
  <2>3. Has(text, r, Quote)
    BY <2>1, Zenon DEF Placed
  <2> QED
    BY <2>1, <2>2, <2>3, Zenon
<1>5. Has(text, 1, "{")
  <2>0. 0 \in Nat /\ 0 + 1 = 1
    OBVIOUS
  <2>1. Shows(text, 0, <<"{">>)
    BY Zenon DEF Shown
  <2> QED
    BY <2>0, <2>1, ShowsChars, Zenon
<1>6. i \in Nat /\ 1 <= i /\ i <= l + 1
  BY <1>1 DEF Behind
<1>7. ASSUME NEW j \in i .. l, j < q PROVE text[j] # Quote /\ text[j] # Colon
  <2>1. CASE k = 0
    <3>1. p = 1 /\ i = 1
      BY <1>4, <2>1, EndsAre, Zenon DEF Behind
    <3>2. j = 1 /\ j <= l
      BY <1>4, <1>7, <2>1, <3>1
    <3>3. text[j] = "{"
      BY <1>1, <1>5, <3>2, Zenon DEF Has
    <3> QED
      BY <3>3 DEF Quote, Colon
  <2>2. CASE k # 0
    <3>1. i = p + 1 \/ i = p + 2
      BY <1>4, <2>2, Zenon DEF Behind
    <3>2. k + 1 # 1
      BY <1>3, <2>2
    <3>3. (j = p + 1 \/ j = p + 2) /\ j <= l
      BY <1>4, <1>6, <1>7, <3>1, <3>2, SMTT(30)
    <3>4. text[j] = Comma \/ text[j] = Newline
      BY <1>1, <1>4, <3>2, <3>3, Zenon DEF Has
    <3> QED
      BY <3>4 DEF Quote, Colon, Comma, Newline
  <2> QED
    BY <2>1, <2>2
<1>8. i <= q
  <2>1. CASE k = 0
    <3>1. p = 1 /\ i = 1
      BY <1>4, <2>1, EndsAre, Zenon DEF Behind
    <3> QED
      BY <1>4, <2>1, <3>1
  <2>2. CASE k # 0
    <3>1. i = p + 1 \/ i = p + 2
      BY <1>4, <2>2, Zenon DEF Behind
    <3> QED
      BY <1>3, <1>4, <2>2, <3>1
  <2> QED
    BY <2>1, <2>2
<1>9. CASE q <= l
  <2>1. q \in i .. l /\ text[q] = Quote
    BY <1>1, <1>4, <1>6, <1>8, <1>9 DEF Has
  <2>2. \A j \in i .. q - 1 : j \in i .. l /\ j < q
    BY <1>6, <1>9
  <2>3. text[q] \in {Quote} /\ \A j \in i .. q - 1 : text[j] \notin {Quote}
    BY <1>7, <2>1, <2>2, Zenon
  <2>4. First(i, {Quote}) = q
    BY <1>1, <1>6, <2>1, <2>3, FirstAt
  <2>5. KeyQuote = q
    BY <2>4, Zenon DEF KeyQuote
  <2> QED
    BY <1>1, <1>7, <1>8, <1>9, <2>5, Zenon
<1>10. CASE ~ (q <= l)
  <2>1. \A j \in i .. l : j < q
    BY <1>10
  <2>2. \A j \in i .. Len(text) : text[j] \notin {Quote}
    BY <1>1, <1>7, <2>1, Zenon
  <2>3. First(i, {Quote}) = None
    BY <2>2, FirstNone
  <2>4. KeyQuote = None
    BY <2>3, Zenon DEF KeyQuote
  <2> QED
    BY <1>1, <1>7, <1>8, <1>10, <2>4, Zenon
<1> QED
  BY <1>9, <1>10

LEMMA NoMoreKeys ==
  ASSUME NEW d \in Documents, Shown(text, d), Behind(d, text, i, Len(d))
  PROVE  KeyQuote = None
<1>1. PICK l \in Nat : l = Len(text) /\ text \in Seq(Char)
  BY Zenon DEF Shown
<1>2. Len(d) \in Nat /\ Len(d) \in 0 .. Len(d)
  BY MembersAre
<1>3. PICK e \in Nat : e = MemberEnd(d, Len(d))
  BY <1>2, EndsAre, Zenon
<1>4. Has(text, 1, "{") /\ Has(text, e + 1, "}")
  <2>0. 0 \in Nat /\ 0 + 1 = 1
    OBVIOUS
  <2>1. Shows(text, 0, <<"{">>)
    BY Zenon DEF Shown
  <2>2. Shows(text, e, <<"}">>)
    BY <1>3, Zenon DEF Shown
  <2> QED
    BY <2>0, <2>1, <2>2, ShowsChars, Zenon
<1>5. l <= e + 1
  BY <1>1, <1>3, Zenon DEF Shown
<1>6. ASSUME NEW j \in i .. l PROVE text[j] # Quote
  <2>1. i \in Nat /\ 1 <= i
    BY DEF Behind
  <2>2. CASE Len(d) = 0
    <3>1. e = 1 /\ i = 1
      BY <1>3, <2>2, EndsAre, Zenon DEF Behind
    <3>2. (j = 1 \/ j = e + 1) /\ j <= l
      BY <1>5, <3>1
    <3>3. text[j] = "{" \/ text[j] = "}"
      BY <1>1, <1>4, <3>2, Zenon DEF Has
    <3> QED
      BY <3>3 DEF Quote
  <2>3. CASE Len(d) # 0
    <3>1. i = e + 1 \/ i = e + 2
      BY <1>3, <2>3, Zenon DEF Behind
    <3>2. j = e + 1 /\ j <= l
      BY <1>5, <3>1
    <3>3. text[j] = "}"
      BY <1>1, <1>4, <3>2, Zenon DEF Has
    <3> QED
      BY <3>3 DEF Quote
  <2> QED
    BY <2>2, <2>3
<1>7. \A j \in i .. Len(text) : text[j] \notin {Quote}
  BY <1>1, <1>6, Zenon
<1>8. First(i, {Quote}) = None
  BY <1>7, FirstNone
<1> QED
  BY <1>8, Zenon DEF KeyQuote

(* A member that the reader can tell: no container with a bracket in a string. *)
Readable(m) == m.kind = "container" => ~ m.bracketed

LEMMA ValueBegins ==
  ASSUME NEW d \in Documents, NEW k \in 1 .. Len(d), Readable(d[k])
  PROVE  /\ d[k].kind = "scalar" =>
              /\ 1 <= Len(d[k].value) /\ d[k].value[1] \notin Blank
              /\ d[k].value[1] \notin Opening \cup {Quote}
         /\ d[k].kind = "container" =>
              /\ 1 <= Len(d[k].value) /\ d[k].value[1] \notin Blank
              /\ d[k].value[1] \in Opening
<1>1. PICK m \in Member : m = d[k] /\ IsMember(m) /\ Readable(m)
  BY MembersAre, Zenon
<1>2. m.value \in Seq(Char)
  BY DEF Member
<1>3. ASSUME m.kind = "scalar"
      PROVE  1 <= Len(m.value) /\ m.value[1] \notin Blank /\ m.value[1] \notin Opening \cup {Quote}
  <2>1. m.value # <<>> /\ \A j \in DOMAIN m.value : m.value[j] \notin Blank \cup Opening \cup Closing \cup {Quote, Comma}
    BY <1>1, <1>3, Zenon DEF IsMember, IsWord
  <2>2. 1 \in DOMAIN m.value /\ 1 <= Len(m.value)
    <3>1. PICK n \in Nat : n = Len(m.value) /\ DOMAIN m.value = 1 .. n
      BY <1>2, LenProperties
    <3>2. n # 0
      BY <1>2, <2>1, <3>1, EmptySeq
    <3>3. 1 \in 1 .. n /\ 1 <= n
      BY <3>2
    <3> QED
      BY <3>1, <3>3, Zenon
  <2> QED
    BY <2>1, <2>2, Zenon
<1>4. ASSUME m.kind = "container"
      PROVE  1 <= Len(m.value) /\ m.value[1] \notin Blank /\ m.value[1] \in Opening
  <2>1. Len(m.value) >= 2 /\ m.value[1] \in Opening
    BY <1>1, <1>4, Zenon DEF IsMember, IsContainer, Readable
  <2>2. m.value[1] \notin Blank
    BY <2>1 DEF Opening, Blank, Newline
  <2>3. Len(m.value) \in Nat
    BY <1>2, LenProperties
  <2>4. 1 <= Len(m.value)
    BY <2>1, <2>3
  <2> QED
    BY <2>1, <2>2, <2>4
<1> QED
  BY <1>1, <1>3, <1>4, Zenon

LEMMA ValueHas ==
  ASSUME NEW d \in Documents, Shown(text, d), NEW k \in 1 .. Len(d), Readable(d[k]),
         NEW v \in Nat, v = ValueAt(d, k), v <= Len(text)
  PROVE  /\ text[v] \notin Blank
         /\ d[k].kind = "string" => text[v] = Quote
         /\ d[k].kind = "scalar" => text[v] \notin Opening \cup {Quote}
         /\ d[k].kind = "container" => text[v] \in Opening
<1>1. PICK kl, vl, p, q, e \in Nat : kl = Len(d[k].key) /\ q = KeyAt(d, k) /\ Placed(text, d[k], q)
  BY Layout, ZenonT(40) DEF LaidOut
<1>2. v = q + kl + 4
  <2>1. v = ((q + kl) + 2) + 2
    BY <1>1, Zenon DEF ValueAt, ColonAt
  <2> QED
    BY <2>1
<1>3. CASE d[k].kind = "string"
  <2>1. Has(text, q + kl + 4, Quote)
    BY <1>1, <1>3, Zenon DEF Placed
  <2>2. text[v] = Quote
    BY <1>2, <2>1, Zenon DEF Has
  <2>3. Quote \notin Blank
    BY DEF Quote, Blank, Newline
  <2> QED
    BY <1>3, <2>2, <2>3
<1>4. CASE d[k].kind # "string"
  <2>1. Shows(text, q + kl + 3, d[k].value)
    BY <1>1, <1>4, Zenon DEF Placed
  <2>2. ASSUME 1 <= Len(d[k].value) PROVE text[v] = d[k].value[1]
    <3>1. Len(d[k].value) \in Nat
      BY MembersAre, WrittenLength, Zenon
    <3>2. 1 \in 1 .. Len(d[k].value) /\ (q + kl + 3) + 1 = v
      BY <1>2, <2>2, <3>1
    <3> QED
      BY <2>1, <3>2, Zenon DEF Shows
  <2>3. d[k].kind \in {"scalar", "container"}
    <3>1. d[k] \in Member
      BY MembersAre, Zenon
    <3>2. \A m \in Member : m.kind \in {"string", "scalar", "container"}
      BY DEF Member
    <3> QED
      BY <1>4, <3>1, <3>2
  <2> QED
    BY <1>4, <2>2, <2>3, ValueBegins, Zenon
<1> QED
  BY <1>3, <1>4

(* The key and the value that the turn behind member k finds are the next member's. *)
LEMMA TurnFinds ==
  ASSUME NEW d \in Documents, Shown(text, d), NEW k \in 0 .. Len(d), k # Len(d), Behind(d, text, i, k),
         Readable(d[k + 1]), NEW q \in Nat, q = KeyAt(d, k + 1), q <= Len(text),
         NEW c \in Nat, c = ColonAt(d, k + 1),
         c <= Len(text) + 1 \/ ~ Contains(d[k + 1].key, Colon)
  PROVE  /\ Value = IF c + 2 <= Len(text) THEN c + 2 ELSE None
         /\ c <= Len(text) + 1 => Key = Unquoted(d[k + 1].key) /\ AfterKey = c
<1>1. PICK l \in Nat : l = Len(text) /\ text \in Seq(Char)
  BY Zenon DEF Shown
<1>2. Len(d) \in Nat
  BY MembersAre, Zenon
<1>3. k + 1 \in 1 .. Len(d)
  BY <1>2
<1>4. PICK m \in Member : m = d[k + 1] /\ IsMember(m)
  BY <1>3, MembersAre, Zenon
<1>5. PICK kl \in Nat : kl = Len(m.key)
  BY <1>4, WrittenLength, Zenon
<1>6. m.key \in Seq(Char) /\ IsText(m.key)
  BY <1>4 DEF Member, IsMember
<1>7. Placed(text, m, q)
  <2>1. PICK a, b, p, r, e \in Nat : r = KeyAt(d, k + 1) /\ Placed(text, d[k + 1], r)
    BY <1>3, Layout, Zenon DEF LaidOut
  <2> QED
    BY <1>4, <2>1, Zenon
<1>8. c = q + kl + 2
  BY <1>4, <1>5, Zenon DEF ColonAt
<1>9. KeyQuote = q /\ (\A j \in i .. l : j < q => text[j] # Colon) /\ i <= q
  BY <1>1, KeyQuoteIs, Zenon
<1>10. Shows(text, q, m.key) /\ Has(text, q + kl + 1, Quote) /\ Has(text, q + kl + 2, Colon) /\ Has(text, q + kl + 3, " ")
  BY <1>5, <1>7, Zenon DEF Placed
<1>11. KeyEnd = IF q + kl + 1 <= l THEN q + kl + 1 ELSE None
  <2>1. StringEnd(q + 1) = IF q + kl + 1 <= l THEN q + kl + 1 ELSE None
    BY <1>1, <1>5, <1>6, <1>10, StringEndIs
  <2> QED
    BY <1>9, <2>1, Zenon DEF KeyEnd
<1>12. i \in Nat
  BY DEF Behind
<1>13. ASSUME q + kl + 1 <= l
       PROVE  /\ Key = Unquoted(m.key) /\ AfterKey = c
              /\ Value = IF c + 2 <= l THEN c + 2 ELSE None
  <2>1. KeyEnd = q + kl + 1 /\ KeyEnd # None
    <3>1. q + kl + 1 # l + 1
      BY <1>13
    <3> QED
      BY <1>1, <1>11, <1>13, <3>1, Zenon DEF None
  <2>2. Key = Unquoted(m.key)
    <3>1. SubSeq(text, q + 1, q + kl) = m.key
      <4>1. q + kl <= l /\ kl <= kl
        BY <1>13
      <4>2. q + kl <= Len(text) /\ kl <= Len(m.key)
        BY <1>1, <1>5, <4>1, Zenon
      <4>3. Reads(q, kl, m.key)
        BY <1>1, <1>6, <1>10, <4>2, SubSeqShown, Zenon
      <4> QED
        BY <1>5, <4>3, Zenon DEF Reads
    <3>2. KeyEnd - 1 = q + kl
      BY <2>1
    <3> QED
      BY <1>9, <3>1, <3>2, Zenon DEF Key
  <2>3. AfterKey = c
    <3>1. (q + kl + 1) + 1 = c
      BY <1>8
    <3> QED
      BY <2>1, <3>1, Zenon DEF AfterKey
  <2>4. KeyQuote # None
    BY <1>1, <1>9, <1>13 DEF None
  <2>5. Value = ValueStart(First(c, {Colon}))
    BY <2>3, <2>4, Zenon DEF Value
  <2>6. CASE c <= l
    <3>1. text[c] = Colon /\ c \in c .. l /\ \A j \in c .. c - 1 : FALSE
      <4>1. text[c] = Colon
        BY <1>1, <1>8, <1>10, <2>6, Zenon DEF Has
      <4> QED
        BY <2>6, <4>1
    <3>2. First(c, {Colon}) = c
      BY <1>1, <3>1, FirstAt
    <3>3. ASSUME NEW j \in c + 1 .. l, j < c + 2 PROVE text[j] \in Blank
      <4>1. j = q + kl + 3
        <5>1. j = c + 1
          BY <3>3
        <5>2. c + 1 = q + kl + 3
          BY <1>8
        <5> QED
          BY <5>1, <5>2, Zenon
      <4>2. j <= l
        OBVIOUS
      <4>3. text[j] = " "
        BY <1>1, <1>10, <4>1, <4>2, Zenon DEF Has
      <4> QED
        BY <4>3 DEF Blank
    <3>4. CASE c + 2 <= l
      <4>1. text[c + 2] \notin Blank
        <5>1. c + 2 = ValueAt(d, k + 1) /\ c + 2 \in Nat
          BY DEF ValueAt
        <5> QED
          BY <1>1, <1>3, <3>4, <5>1, ValueHas, Zenon
      <4>2. c + 2 \in c + 1 .. l /\ \A j \in c + 1 .. (c + 2) - 1 : j \in c + 1 .. l /\ j < c + 2
        BY <3>4, SMTT(30)
      <4>3. \A j \in c + 1 .. (c + 2) - 1 : text[j] \in Blank
        BY <3>3, <4>2, Zenon
      <4>4. ValueStart(c) = c + 2
        BY <1>1, <4>1, <4>2, <4>3, ValueStartAt
      <4>5. Value = c + 2
        BY <2>5, <3>2, <4>4, Zenon
      <4> QED
        BY <2>2, <2>3, <3>4, <4>5
    <3>5. CASE ~ (c + 2 <= l)
      <4>1. \A j \in c + 1 .. l : j < c + 2
        BY <3>5
      <4>2. \A j \in c + 1 .. Len(text) : text[j] \in Blank
        BY <1>1, <3>3, <4>1, Zenon
      <4>3. ValueStart(c) = None
        BY <4>2, ValueStartNone
      <4>4. Value = None
        BY <2>5, <3>2, <4>3, Zenon
      <4> QED
        BY <2>2, <2>3, <3>5, <4>4
    <3> QED
      BY <3>4, <3>5
  <2>7. CASE ~ (c <= l)
    <3>1. \A j \in c .. Len(text) : FALSE
      BY <1>1, <2>7
    <3>2. First(c, {Colon}) = None
      BY <3>1, FirstNone
    <3>3. \A j \in None + 1 .. Len(text) : FALSE
      BY <1>1 DEF None
    <3>4. ValueStart(None) = None
      BY <3>3, ValueStartNone
    <3>5. ~ (c + 2 <= l)
      BY <2>7
    <3>6. Value = None
      BY <2>5, <3>2, <3>4, Zenon
    <3> QED
      BY <2>2, <2>3, <3>5, <3>6
  <2> QED
    BY <2>2, <2>3, <2>6, <2>7
<1>14. ASSUME ~ (q + kl + 1 <= l)
       PROVE  Value = None /\ ~ (c + 2 <= l) /\ ~ (c <= l + 1)
  <2>1. ~ (c <= l + 1) /\ ~ (c + 2 <= l)
    BY <1>8, <1>14, SMTT(30)
  <2>2. KeyEnd = None /\ AfterKey = i
    BY <1>11, <1>14, Zenon DEF AfterKey
  <2>3. ~ Contains(m.key, Colon)
    BY <1>1, <1>4, <2>1, Zenon
  <2>4. ASSUME NEW j \in i .. l PROVE text[j] # Colon
    <3>1. CASE j < q
      BY <1>9, <3>1, Zenon
    <3>2. CASE j = q
      <4>1. text[q] = Quote
        BY <1>7, Zenon DEF Placed, Has
      <4> QED
        BY <3>2, <4>1 DEF Quote, Colon
    <3>3. CASE j > q
      <4>1. j - q \in 1 .. kl /\ q + (j - q) = j /\ j <= l
        BY <1>12, <1>14, <3>3, SMTT(30)
      <4>2. text[j] = m.key[j - q]
        BY <1>1, <1>5, <1>10, <4>1, Zenon DEF Shows
      <4> QED
        BY <1>5, <2>3, <4>1, <4>2, Zenon DEF Contains
    <3> QED
      BY <1>12, <3>1, <3>2, <3>3
  <2>5. First(i, {Colon}) = None
    <3>1. \A j \in i .. Len(text) : text[j] \notin {Colon}
      BY <1>1, <2>4, Zenon
    <3> QED
      BY <3>1, FirstNone
  <2>6. ValueStart(None) = None
    <3>1. \A j \in None + 1 .. Len(text) : FALSE
      BY <1>1 DEF None
    <3> QED
      BY <3>1, ValueStartNone
  <2> QED
    BY <2>1, <2>2, <2>5, <2>6, Zenon DEF Value
<1>15. c <= l + 1 <=> q + kl + 1 <= l
  BY <1>8, SMTT(30)
<1> QED
  BY <1>1, <1>4, <1>13, <1>14, <1>15, Zenon

-----------------------------------------------------------------------------
(* What the value is that begins at v. *)

ValueLaid(m, v, e, vl, s) ==
  /\ s = m.value /\ vl = Len(s) /\ 1 <= v
  /\ m.kind = "string" => e = v + vl + 1 /\ Shows(text, v, s) /\ Has(text, v + vl + 1, Quote)
  /\ m.kind # "string" => e = (v - 1) + vl /\ Shows(text, v - 1, s)

LEMMA ValueLayout ==
  ASSUME NEW d \in Documents, Shown(text, d), NEW k \in 1 .. Len(d),
         NEW v \in Nat, v = ValueAt(d, k), NEW e \in Nat, e = MemberEnd(d, k)
  PROVE  \E vl \in Nat, s \in Seq(Char) : ValueLaid(d[k], v, e, vl, s)
<1>1. PICK kl, vl, p, q, f \in Nat : LaidOut(text, d, k, kl, vl, p, q, f)
  BY Layout, Zenon
<1>2. v = q + kl + 4
  <2>1. v = ((q + kl) + 2) + 2
    BY <1>1, Zenon DEF ValueAt, ColonAt, LaidOut
  <2> QED
    BY <2>1
<1>3. e = q + kl + 3 + vl + (IF d[k].kind = "string" THEN 2 ELSE 0)
  BY <1>1, Zenon DEF LaidOut
<1>b. kl = Len(d[k].key) /\ vl = Len(d[k].value) /\ Placed(text, d[k], q)
  BY <1>1, Zenon DEF LaidOut
<1>4. d[k].value \in Seq(Char)
  <2>1. d[k] \in Member
    BY MembersAre, Zenon
  <2>2. \A m \in Member : m.value \in Seq(Char)
    BY DEF Member
  <2> QED
    BY <2>1, <2>2, Zenon
<1>5. 1 <= v /\ v - 1 = q + kl + 3
  BY <1>2
<1>6. CASE d[k].kind = "string"
  <2>1. e = v + vl + 1
    BY <1>2, <1>3, <1>6
  <2>2. Shows(text, v, d[k].value) /\ Has(text, v + vl + 1, Quote)
    BY <1>b, <1>2, <1>6, Zenon DEF Placed
  <2> QED
    BY <1>b, <1>4, <1>5, <1>6, <2>1, <2>2, Zenon DEF ValueLaid
<1>7. CASE d[k].kind # "string"
  <2>1. e = (v - 1) + vl
    BY <1>2, <1>3, <1>7
  <2>2. Shows(text, v - 1, d[k].value)
    BY <1>b, <1>5, <1>7, Zenon DEF Placed
  <2> QED
    BY <1>b, <1>4, <1>5, <1>7, <2>1, <2>2, Zenon DEF ValueLaid
<1> QED
  BY <1>6, <1>7

LEMMA StringValue ==
  ASSUME NEW d \in Documents, Shown(text, d), NEW k \in 1 .. Len(d), d[k].kind = "string",
         NEW v \in Nat, v = ValueAt(d, k), v <= Len(text), NEW e \in Nat, e = MemberEnd(d, k)
  PROVE  /\ e <= Len(text) => StringEnd(v + 1) = e /\ SubSeq(text, v + 1, e - 1) = d[k].value
         /\ ~ (e <= Len(text)) => StringEnd(v + 1) = None
<1>1. PICK l \in Nat : l = Len(text) /\ text \in Seq(Char)
  BY Zenon DEF Shown
<1>2. PICK vl \in Nat, s \in Seq(Char) :
        /\ s = d[k].value /\ vl = Len(s)
        /\ e = v + vl + 1 /\ Shows(text, v, s) /\ Has(text, v + vl + 1, Quote)
  <2>1. PICK vl \in Nat, s \in Seq(Char) : ValueLaid(d[k], v, e, vl, s)
    BY ValueLayout, Zenon
  <2> QED
    BY <2>1, Zenon DEF ValueLaid
<1>3. IsText(s)
  BY <1>2, MembersAre, Zenon DEF IsMember
<1>4. StringEnd(v + 1) = IF v + vl + 1 <= l THEN v + vl + 1 ELSE None
  BY <1>1, <1>2, <1>3, StringEndIs
<1>5. ASSUME e <= l PROVE SubSeq(text, v + 1, e - 1) = s
  <2>1. v + vl <= l /\ vl <= vl /\ e - 1 = v + vl
    BY <1>2, <1>5
  <2>2. v + vl <= Len(text) /\ vl <= Len(s)
    BY <1>1, <1>2, <2>1, Zenon
  <2>3. Reads(v, vl, s)
    BY <1>1, <1>2, <2>2, SubSeqShown, Zenon
  <2> QED
    BY <1>2, <2>1, <2>3, Zenon DEF Reads
<1>6. StringEnd(v + 1) = IF e <= l THEN e ELSE None
  BY <1>2, <1>4, Zenon
<1> QED
  BY <1>1, <1>2, <1>5, <1>6, Zenon

LEMMA ContainerValue ==
  ASSUME NEW d \in Documents, Shown(text, d), NEW k \in 1 .. Len(d), d[k].kind = "container",
         Readable(d[k]), NEW v \in Nat, v = ValueAt(d, k),
         NEW e \in Nat, e = MemberEnd(d, k), e <= Len(text)
  PROVE  ContainerEnd(v) = e
<1>1. PICK l \in Nat : l = Len(text) /\ text \in Seq(Char)
  BY Zenon DEF Shown
<1>a. d[k].kind # "string"
  OBVIOUS
<1>2. PICK vl \in Nat, s \in Seq(Char) :
        s = d[k].value /\ vl = Len(s) /\ 1 <= v /\ e = (v - 1) + vl /\ Shows(text, v - 1, s)
  <2>1. PICK vl \in Nat, s \in Seq(Char) : ValueLaid(d[k], v, e, vl, s)
    BY ValueLayout, Zenon
  <2> QED
    BY <1>a, <2>1, Zenon DEF ValueLaid
<1>3. IsContainer(s)
  BY <1>2, MembersAre, Zenon DEF IsMember, Readable
<1>4. PICK o \in Nat : v - 1 = o /\ o + 1 = v
  BY <1>2
<1>5. o + Len(s) <= Len(text)
  BY <1>2, <1>4, Zenon
<1>6. ContainerEnd(o + 1) = o + Len(s)
  BY <1>1, <1>2, <1>3, <1>4, <1>5, ContainerEndIs
<1> QED
  BY <1>2, <1>4, <1>6, Zenon

LEMMA ScalarValue ==
  ASSUME NEW d \in Documents, Shown(text, d), NEW k \in 1 .. Len(d), d[k].kind = "scalar",
         NEW v \in Nat, v = ValueAt(d, k), v <= Len(text), NEW e \in Nat, e = MemberEnd(d, k)
  PROVE  LET end == First(v, {Comma, "}", Newline})
         IN /\ e <= Len(text) =>
                 /\ Trimmed(SubSeq(text, v, end - 1)) = d[k].value
                 /\ end = None => None = e + 1
                 /\ end # None => end = e + 1 /\ end + 1 <= Len(text) + 1
            /\ ~ (e <= Len(text)) =>
                 end = None /\ Trimmed(SubSeq(text, v, end - 1)) \in Prefixes(d[k].value)
<1>1. PICK l \in Nat : l = Len(text) /\ text \in Seq(Char)
  BY Zenon DEF Shown
<1>a. d[k].kind # "string"
  OBVIOUS
<1>2. PICK vl \in Nat, s \in Seq(Char) :
        s = d[k].value /\ vl = Len(s) /\ 1 <= v /\ e = (v - 1) + vl /\ Shows(text, v - 1, s)
  <2>1. PICK vl \in Nat, s \in Seq(Char) : ValueLaid(d[k], v, e, vl, s)
    BY ValueLayout, Zenon
  <2> QED
    BY <1>a, <2>1, Zenon DEF ValueLaid
<1>3. /\ \A j \in 1 .. vl : s[j] \notin Blank /\ s[j] \notin {Comma, "}", Newline}
  <2>1. IsWord(s)
    BY <1>2, MembersAre, Zenon DEF IsMember
  <2>2. DOMAIN s = 1 .. vl
    BY <1>2, LenProperties
  <2>3. \A c : c \notin Blank \cup Opening \cup Closing \cup {Quote, Comma} =>
               c \notin Blank /\ c \notin {Comma, "}", Newline}
    BY DEF Blank, Closing
  <2> QED
    BY <2>1, <2>2, <2>3, Zenon DEF IsWord
<1>4. s # <<>> /\ 1 <= vl
  <2>1. s # <<>>
    BY <1>2, MembersAre, Zenon DEF IsMember, IsWord
  <2>2. vl # 0
    BY <1>2, <2>1, EmptySeq
  <2> QED
    BY <2>1, <2>2
<1>5. PICK o \in Nat : v - 1 = o /\ o + 1 = v
  BY <1>2
<1>6. Has(text, e + 1, Comma) \/ Has(text, e + 1, "}")
  <2>0. Len(d) \in Nat
    BY MembersAre, Zenon
  <2>1. CASE k = Len(d)
    <3>1. Shows(text, e, <<"}">>)
      BY <2>1, Zenon DEF Shown
    <3> QED
      BY <3>1, ShowsChars, Zenon
  <2>2. CASE k # Len(d)
    <3>1. k + 1 \in 1 .. Len(d) /\ (k + 1) - 1 = k /\ k + 1 # 1
      BY <2>0, <2>2
    <3>2. Shows(text, MemberEnd(d, (k + 1) - 1), Separator(k + 1))
      BY <3>1, Zenon DEF Shown, Laid
    <3>3. Shows(text, e, <<Comma, Newline>>)
      BY <3>1, <3>2, Zenon DEF Separator
    <3> QED
      BY <3>3, ShowsChars, Zenon
  <2> QED
    BY <2>1, <2>2
<1> DEFINE S == {Comma, "}", Newline}
<1>7. ASSUME NEW j \in v .. l, j <= e PROVE text[j] \notin S
  <2>1. j - o \in 1 .. vl /\ o + (j - o) = j /\ j <= l
    BY <1>2, <1>5, <1>7
  <2>2. text[j] = s[j - o]
    BY <1>1, <1>2, <1>5, <2>1, Zenon DEF Shows
  <2> QED
    BY <1>3, <2>1, <2>2, Zenon
<1> HIDE DEF S
<1>8. \A n \in Nat : n <= vl /\ o + n <= l => Reads(o, n, s)
  BY <1>1, <1>2, <1>5, SubSeqShown, Zenon
<1>9. ASSUME NEW n \in Nat, n <= vl, 1 <= n, o + n <= l
      PROVE  /\ Trimmed(SubSeq(text, v, o + n)) \in Prefixes(s)
             /\ n = vl => Trimmed(SubSeq(text, v, o + n)) = s
  <2>1. Reads(o, n, s)
    BY <1>8, <1>9, Zenon
  <2>2. PICK p \in Seq(Char) : p = SubSeq(s, 1, n)
    BY <2>1, Zenon DEF Reads
  <2>3. SubSeq(text, v, o + n) = p
    BY <1>5, <2>1, <2>2, Zenon DEF Reads
  <2>4. Len(p) = n /\ \A j \in 1 .. n : p[j] = s[j]
    BY <2>1, <2>2, Zenon DEF Reads
  <2>5. p # <<>>
    BY <1>9, <2>4
  <2>6. \A j \in 1 .. n : j \in 1 .. vl
    BY <1>9
  <2>7. \A j \in 1 .. Len(p) : p[j] \notin Blank
    BY <1>3, <2>4, <2>6, Zenon
  <2>8. Trimmed(p) = p
    BY <2>5, <2>7, WordsTrimmed, Zenon
  <2>9. p \in Prefixes(s) /\ (n = vl => p = s)
    BY <1>2, <2>1, <2>2, Zenon DEF Reads
  <2> QED
    BY <2>3, <2>8, <2>9, Zenon
<1> DEFINE end == First(v, S)
<1>10. CASE e + 1 <= l
  <2>1. e + 1 \in v .. l /\ \A j \in v .. (e + 1) - 1 : j \in v .. l /\ j <= e
    <3>1. v <= e + 1
      BY <1>2, <1>4
    <3> QED
      BY <1>10, <3>1
  <2>2. text[e + 1] \in S
    <3>1. text[e + 1] = Comma \/ text[e + 1] = "}"
      BY <1>1, <1>6, <1>10, Zenon DEF Has
    <3> QED
      BY <3>1 DEF S
  <2>3. \A j \in v .. (e + 1) - 1 : text[j] \notin S
    BY <1>7, <2>1, Zenon
  <2>4. end = e + 1
    BY <1>1, <2>1, <2>2, <2>3, FirstAt
  <2> HIDE DEF end
  <2>5. e <= l /\ end # l + 1 /\ end + 1 <= l + 1 /\ end - 1 = o + vl
    <3>1. e = (v - 1) + vl /\ v - 1 = o
      BY <1>2, <1>5, Zenon
    <3>2. e <= l /\ e + 1 # l + 1 /\ (e + 1) + 1 <= l + 1
      BY <1>10
    <3>3. (e + 1) - 1 = e /\ e = o + vl
      BY <3>1
    <3> QED
      BY <2>4, <3>2, <3>3, Zenon
  <2>6. o + vl <= l /\ vl <= vl
    BY <1>2, <1>5, <2>5
  <2>7. Trimmed(SubSeq(text, v, end - 1)) = s
    BY <1>4, <1>9, <2>5, <2>6, Zenon
  <2>8. end # None
    BY <1>1, <2>5, Zenon DEF None
  <2> QED
    BY <1>1, <1>2, <2>4, <2>5, <2>7, <2>8, Zenon DEF end, S
<1>11. CASE ~ (e + 1 <= l)
  <2>1. \A j \in v .. l : j <= e
    BY <1>11
  <2>2. \A j \in v .. Len(text) : text[j] \notin S
    BY <1>1, <1>7, <2>1, Zenon
  <2>3. end = None
    BY <2>2, FirstNone
  <2> HIDE DEF end
  <2>4. end - 1 = l
    BY <1>1, <2>3 DEF None
  <2>5. PICK n \in Nat : 1 <= n /\ n <= vl /\ o + n = l
    <3>1. l - o \in Nat /\ 1 <= l - o /\ l - o <= vl /\ o + (l - o) = l
      BY <1>1, <1>2, <1>4, <1>5, <1>11, SMTT(30)
    <3> QED
      BY <3>1, Zenon
  <2>6. l <= l
    OBVIOUS
  <2>7. /\ Trimmed(SubSeq(text, v, end - 1)) \in Prefixes(s)
        /\ n = vl => Trimmed(SubSeq(text, v, end - 1)) = s
    BY <1>9, <2>4, <2>5, <2>6, Zenon
  <2>8. e <= l => n = vl /\ l + 1 = e + 1
    <3>1. e = o + vl
      BY <1>2, <1>5, Zenon
    <3> QED
      BY <1>11, <2>5, <3>1
  <2> QED
    BY <1>1, <1>2, <2>3, <2>7, <2>8, Zenon DEF end, S, None
<1> QED
  BY <1>10, <1>11

-----------------------------------------------------------------------------
(* What is true of the reader after every turn. *)

(* A document that the reader can tell: whole, or of strings, numbers and words only. *)
Tellable(d, t) == (t = Whole(d) /\ \A n \in DOMAIN d : ~ d[n].bracketed) \/ Flat(d)

(* It has read what the first k members say. *)
Through(d, t, p, vs, a, k) ==
  /\ Behind(d, t, p, k) /\ vs = Meant(d, k)
  /\ a = "done" /\ k # Len(d) => Len(t) < ValueAt(d, k + 1)

(* It has read a part of the number or word after that, with which the text ends. *)
PartRead(d, m, k, vs) ==
  \E x \in Prefixes(m.value) :
    vs = IF m.key = <<>> THEN Meant(d, k) ELSE With(Meant(d, k), Unquoted(m.key), x)

InPart(d, t, p, vs, k) ==
  /\ k # Len(d) /\ d[k + 1].kind = "scalar" /\ p = Len(t) + 1
  /\ ValueAt(d, k + 1) <= Len(t) /\ Len(t) < MemberEnd(d, k + 1)
  /\ PartRead(d, d[k + 1], k, vs)

(* It comes back to a string that never ends. *)
InLoop(d, t, p, a, k) ==
  /\ k # Len(d) /\ d[k + 1].kind = "string" /\ p = ColonAt(d, k + 1) /\ a = "reading"
  /\ ValueAt(d, k + 1) <= Len(t) /\ Len(t) < MemberEnd(d, k + 1)

Along(d, t, p, vs, a, k) ==
  Through(d, t, p, vs, a, k) \/ InPart(d, t, p, vs, k) \/ InLoop(d, t, p, a, k)

ReadInv ==
  Tellable(doc, text) => \E k \in 0 .. Len(doc) : Along(doc, text, i, values, at, k)

LEMMA Positions ==
  ASSUME NEW d \in Documents, NEW k \in 1 .. Len(d)
  PROVE  /\ KeyAt(d, k) \in Nat /\ ColonAt(d, k) \in Nat /\ ValueAt(d, k) \in Nat /\ MemberEnd(d, k) \in Nat
         /\ KeyAt(d, k) < ColonAt(d, k) /\ ValueAt(d, k) = ColonAt(d, k) + 2
         /\ ValueAt(d, k) <= MemberEnd(d, k) + 1
         /\ d[k].kind = "string" => ValueAt(d, k) < MemberEnd(d, k)
         /\ Len(d[k].key) \in Nat /\ ColonAt(d, k) = KeyAt(d, k) + Len(d[k].key) + 2
<1>1. Shown(Whole(d), d)
  BY WholeShows, Zenon
<1>2. PICK kl, vl, p, q, e \in Nat : LaidOut(Whole(d), d, k, kl, vl, p, q, e)
  BY <1>1, Layout, Zenon
<1>3. /\ kl = Len(d[k].key) /\ q = KeyAt(d, k) /\ e = MemberEnd(d, k)
      /\ e = q + kl + 3 + vl + (IF d[k].kind = "string" THEN 2 ELSE 0)
  BY <1>2, Zenon DEF LaidOut
<1>4. PICK c, v \in Nat : c = q + kl + 2 /\ v = c + 2
  OBVIOUS
<1>5. c = ColonAt(d, k) /\ v = ValueAt(d, k)
  BY <1>3, <1>4, Zenon DEF ColonAt, ValueAt
<1>6. q < c /\ v <= e + 1 /\ (d[k].kind = "string" => v < e)
  <2>1. CASE d[k].kind = "string"
    <3>1. e = q + kl + 3 + vl + 2
      BY <1>3, <2>1
    <3>2. q < c /\ v <= e + 1 /\ v < e
      BY <1>4, <3>1
    <3> QED
      BY <3>2
  <2>2. CASE d[k].kind # "string"
    <3>1. e = q + kl + 3 + vl + 0
      BY <1>3, <2>2
    <3>2. q < c /\ v <= e + 1
      BY <1>4, <3>1
    <3> QED
      BY <2>2, <3>2
  <2> QED
    BY <2>1, <2>2
<1> QED
  BY <1>3, <1>4, <1>5, <1>6, Zenon

LEMMA EndsGrow ==
  ASSUME NEW d \in Documents, NEW j \in 0 .. Len(d), NEW k \in 0 .. Len(d), j <= k
  PROVE  MemberEnd(d, j) <= MemberEnd(d, k)
<1>1. Len(d) \in Nat
  BY MembersAre, Zenon
<1>2. CASE j = 0
  <2>1. MemberEnd(d, 0) = 1 /\ 1 <= MemberEnd(d, k)
    BY EndsAre, JoinedShows, Zenon
  <2> QED
    BY <1>2, <2>1, Zenon
<1>3. CASE j # 0
  <2>1. j \in 1 .. k
    BY <1>1, <1>3
  <2> QED
    BY <2>1, JoinedShows, Zenon
<1> QED
  BY <1>2, <1>3

LEMMA NextTellable ==
  ASSUME NEW d \in Documents, NEW t, Tellable(d, t), NEW k \in 1 .. Len(d)
  PROVE  /\ Readable(d[k])
         /\ ColonAt(d, k) <= Len(t) + 1 \/ ~ Contains(d[k].key, Colon)
<1>1. DOMAIN d = 1 .. Len(d) /\ Len(d) \in Nat
  BY MembersAre, LenProperties
<1>2. CASE t = Whole(d) /\ \A n \in DOMAIN d : ~ d[n].bracketed
  <2>1. Readable(d[k])
    BY <1>1, <1>2, Zenon DEF Readable
  <2>2. k \in 0 .. Len(d)
    BY <1>1
  <2>3. Len(t) = MemberEnd(d, Len(d)) + 1 /\ MemberEnd(d, k) <= MemberEnd(d, Len(d))
    BY <1>2, <2>2, WholeShows, Zenon
  <2>4. PICK c, v, e \in Nat : c = ColonAt(d, k) /\ v = ValueAt(d, k) /\ e = MemberEnd(d, k)
    BY Positions, Zenon
  <2>5. v = c + 2 /\ v <= e + 1
    BY <2>4, Positions, Zenon
  <2>6. PICK f \in Nat : f = MemberEnd(d, Len(d))
    <3>1. Len(d) \in 0 .. Len(d)
      BY <1>1
    <3> QED
      BY <3>1, EndsAre, Zenon
  <2>7. e <= f /\ Len(t) = f + 1
    BY <2>3, <2>4, <2>6, Zenon
  <2>8. c <= Len(t) + 1
    BY <2>5, <2>7
  <2> QED
    BY <2>1, <2>4, <2>8, Zenon
<1>3. CASE Flat(d)
  BY <1>1, <1>3, Zenon DEF Flat, Readable
<1> QED
  BY <1>2, <1>3, Zenon DEF Tellable

(* What the turn behind member k finds. *)
LEMMA ValueIs ==
  ASSUME NEW d \in Documents, Shown(text, d), Tellable(d, text),
         NEW k \in 0 .. Len(d), k # Len(d), Behind(d, text, i, k),
         NEW c \in Nat, c = ColonAt(d, k + 1), NEW v \in Nat, v = ValueAt(d, k + 1)
  PROVE  /\ Value = IF v <= Len(text) THEN v ELSE None
         /\ v <= Len(text) =>
              /\ Key = Unquoted(d[k + 1].key) /\ AfterKey = c
              /\ d[k + 1].kind = "string" => text[v] = Quote
              /\ d[k + 1].kind = "scalar" => text[v] \notin Opening \cup {Quote}
              /\ d[k + 1].kind = "container" => text[v] \in Opening
<1>1. PICK l \in Nat : l = Len(text)
  BY Zenon DEF Shown
<1>2. Len(d) \in Nat
  BY MembersAre, Zenon
<1>3. k + 1 \in 1 .. Len(d)
  BY <1>2
<1>4. PICK q \in Nat : q = KeyAt(d, k + 1) /\ q < c /\ v = c + 2
  BY <1>3, Positions, Zenon
<1>5. Readable(d[k + 1]) /\ (c <= l + 1 \/ ~ Contains(d[k + 1].key, Colon))
  BY <1>1, <1>3, NextTellable, Zenon
<1>6. CASE q <= l
  <2>1. /\ Value = IF c + 2 <= l THEN c + 2 ELSE None
        /\ c <= l + 1 => Key = Unquoted(d[k + 1].key) /\ AfterKey = c
    BY <1>1, <1>4, <1>5, <1>6, TurnFinds, Zenon
  <2>2. v <= l => c <= l + 1
    BY <1>4
  <2>3. v <= l =>
          /\ d[k + 1].kind = "string" => text[v] = Quote
          /\ d[k + 1].kind = "scalar" => text[v] \notin Opening \cup {Quote}
          /\ d[k + 1].kind = "container" => text[v] \in Opening
    BY <1>1, <1>3, <1>5, ValueHas, Zenon
  <2>4. Value = IF v <= l THEN v ELSE None
    BY <1>4, <2>1, Zenon
  <2> QED
    BY <1>1, <2>1, <2>2, <2>3, <2>4, Zenon
<1>7. CASE ~ (q <= l)
  <2>1. ~ (v <= l)
    BY <1>4, <1>7
  <2>2. KeyQuote = None
    BY <1>1, <1>4, <1>7, KeyQuoteIs, Zenon
  <2>3. Value = None
    BY <2>2, Zenon DEF Value
  <2> QED
    BY <1>1, <2>1, <2>3, Zenon
<1> QED
  BY <1>6, <1>7

LEMMA KeepIs ==
  ASSUME NEW m \in Member, Key = Unquoted(m.key), NEW value, Keep(value)
  PROVE  values' = IF m.key = <<>> THEN values ELSE With(values, Unquoted(m.key), value)
<1>1. m.key \in Seq(Char)
  BY DEF Member
<1>2. Key = <<>> <=> m.key = <<>>
  BY <1>1, UnquotedType, Zenon
<1> QED
  BY <1>2, Zenon DEF Keep

(* A turn that finds no value is the last. *)
LEMMA LastTurn ==
  ASSUME Len(text) \in Nat, Value = None, Turn
  PROVE  Return
<1>1. ~ (Value < None)
  BY DEF None
<1> QED
  BY <1>1, Zenon DEF Turn, ReadString, SkipContainer, ReadScalar

(* The first character of a value tells what it is. *)
LEMMA ValueTurn ==
  ASSUME NEW v \in Nat, v <= Len(text), Len(text) \in Nat, Value = v, Turn
  PROVE  /\ text[v] = Quote => ReadString
         /\ text[v] \in Opening => SkipContainer
         /\ text[v] \notin Opening \cup {Quote} => ReadScalar
<1>1. ~ Return
  <2>1. v # None
    BY DEF None
  <2> QED
    BY <2>1, Zenon DEF Return
<1>2. Quote \notin Opening
  BY DEF Quote, Opening
<1> QED
  BY <1>1, <1>2, Zenon DEF Turn, ReadString, SkipContainer, ReadScalar

LEMMA MeantNext ==
  ASSUME NEW d \in Documents, NEW k \in 1 .. Len(d)
  PROVE  Meant(d, k) = Told(d, k, Meant(d, k - 1))
BY MembersAre, MeantIs, Zenon

LEMMA BehindNext ==
  ASSUME NEW d \in Documents, NEW t, Len(t) \in Nat, NEW k \in 1 .. Len(d),
         NEW e \in Nat, e = MemberEnd(d, k), e <= Len(t),
         NEW p, p = e + 1 \/ (p = e + 2 /\ p <= Len(t) + 1), NEW vs, vs = Meant(d, k)
  PROVE  \E j \in 0 .. Len(d) : Along(d, t, p, vs, "reading", j)
<1>1. k \in 0 .. Len(d) /\ k # 0
  BY MembersAre
<1>2. p \in 1 .. Len(t) + 1
  OBVIOUS
<1>3. p \in {MemberEnd(d, k) + 1, MemberEnd(d, k) + 2}
  BY Zenon
<1>4. Behind(d, t, p, k)
  BY <1>1, <1>2, <1>3, Zenon DEF Behind
<1>5. "reading" # "done"
  OBVIOUS
<1>6. Through(d, t, p, vs, "reading", k)
  BY <1>4, <1>5, Zenon DEF Through
<1> QED
  BY <1>1, <1>6, Zenon DEF Along

LEMMA StringStep ==
  ASSUME NEW d \in Documents, Shown(text, d), NEW k \in 0 .. Len(d), k # Len(d), values = Meant(d, k),
         d[k + 1].kind = "string", NEW c \in Nat, c = ColonAt(d, k + 1),
         NEW v \in Nat, v = ValueAt(d, k + 1), v <= Len(text),
         Value = v, Key = Unquoted(d[k + 1].key), AfterKey = c, at = "reading", ReadString
  PROVE  \E j \in 0 .. Len(d) : Along(d, text, i', values', at', j)
<1>1. PICK l \in Nat : l = Len(text) /\ text \in Seq(Char)
  BY Zenon DEF Shown
<1>2. Len(d) \in Nat
  BY MembersAre, Zenon
<1>3. k + 1 \in 1 .. Len(d) /\ (k + 1) - 1 = k
  BY <1>2
<1>4. PICK m \in Member : m = d[k + 1]
  BY <1>3, MembersAre, Zenon
<1>5. PICK e \in Nat : e = MemberEnd(d, k + 1)
  BY <1>3, Positions, Zenon
<1>6. /\ e <= l => StringEnd(v + 1) = e /\ SubSeq(text, v + 1, e - 1) = m.value
      /\ ~ (e <= l) => StringEnd(v + 1) = None
  <2>1. /\ e <= Len(text) => StringEnd(v + 1) = e /\ SubSeq(text, v + 1, e - 1) = d[k + 1].value
        /\ ~ (e <= Len(text)) => StringEnd(v + 1) = None
    BY <1>3, <1>5, StringValue, SMTT(30)
  <2> QED
    BY <1>1, <1>4, <2>1, Zenon
<1>7. at' = "reading"
  BY Zenon DEF ReadString, GoOn
<1>8. CASE e <= l
  <2>1. e # None
    BY <1>1, <1>8 DEF None
  <2>2. i' = e + 1
    BY <1>6, <1>8, <2>1, Zenon DEF ReadString, GoOn
  <2>3. Keep(Unquoted(m.value))
    BY <1>6, <1>8, Zenon DEF ReadString
  <2>4. values' = IF m.key = <<>> THEN values ELSE With(values, Unquoted(m.key), Unquoted(m.value))
    BY <1>4, <2>3, KeepIs, Zenon
  <2>5. values' = Told(d, k + 1, Meant(d, k))
    <3>1. m.kind = "string" /\ m.kind # "container"
      BY <1>4
    <3> QED
      BY <1>4, <2>4, <3>1, Zenon DEF Told
  <2>6. values' = Meant(d, k + 1)
    BY <1>3, <2>5, MeantNext, Zenon
  <2>7. PICK p, vs : p = i' /\ vs = values'
    BY Zenon
  <2>8. \E j \in 0 .. Len(d) : Along(d, text, p, vs, "reading", j)
    BY <1>1, <1>3, <1>5, <1>8, <2>2, <2>6, <2>7, BehindNext, Zenon
  <2> QED
    BY <1>7, <2>7, <2>8, Zenon
<1>9. CASE ~ (e <= l)
  <2>1. i' = c
    BY <1>6, <1>9, Zenon DEF ReadString, GoOn
  <2>2. Len(text) < e
    BY <1>1, <1>9
  <2>3. InLoop(d, text, c, "reading", k)
    BY <1>5, <2>2, Zenon DEF InLoop
  <2> QED
    BY <1>7, <2>1, <2>3, Zenon DEF Along
<1> QED
  BY <1>8, <1>9

LEMMA ContainerStep ==
  ASSUME NEW d \in Documents, Shown(text, d), Tellable(d, text), NEW k \in 0 .. Len(d), k # Len(d),
         values = Meant(d, k), d[k + 1].kind = "container", NEW v \in Nat, v = ValueAt(d, k + 1),
         Value = v, at = "reading", SkipContainer
  PROVE  \E j \in 0 .. Len(d) : Along(d, text, i', values', at', j)
<1>1. PICK l \in Nat : l = Len(text) /\ text \in Seq(Char)
  BY Zenon DEF Shown
<1>2. Len(d) \in Nat
  BY MembersAre, Zenon
<1>3. k + 1 \in 1 .. Len(d) /\ (k + 1) - 1 = k /\ k + 1 \in 0 .. Len(d)
  BY <1>2
<1>4. PICK m \in Member : m = d[k + 1]
  BY <1>3, MembersAre, Zenon
<1>5. PICK e \in Nat : e = MemberEnd(d, k + 1)
  BY <1>3, Positions, Zenon
<1>6. text = Whole(d)
  <2>1. ~ Flat(d)
    <3>1. DOMAIN d = 1 .. Len(d)
      BY MembersAre, LenProperties
    <3> QED
      BY <1>3, <3>1, Zenon DEF Flat
  <2> QED
    BY <2>1, Zenon DEF Tellable
<1>7. e <= l /\ e # None
  <2>1. PICK f \in Nat : f = MemberEnd(d, Len(d))
    <3>1. Len(d) \in 0 .. Len(d)
      BY <1>2
    <3> QED
      BY <3>1, EndsAre, Zenon
  <2>2. l = f + 1 /\ e <= f
    BY <1>1, <1>3, <1>5, <1>6, <2>1, WholeShows, Zenon
  <2>3. e <= l /\ e # l + 1
    BY <2>2
  <2> QED
    BY <1>1, <2>3, Zenon DEF None
<1>8. Readable(d[k + 1])
  BY <1>3, NextTellable, Zenon
<1>9. ContainerEnd(v) = e
  BY <1>1, <1>3, <1>5, <1>7, <1>8, ContainerValue, ZenonT(40)
<1>10. at' = "reading" /\ i' = e + 1 /\ values' = values
  BY <1>7, <1>9, Zenon DEF SkipContainer, GoOn
<1>11. values' = Meant(d, k + 1)
  <2>1. Told(d, k + 1, Meant(d, k)) = Meant(d, k)
    BY Zenon DEF Told
  <2> QED
    BY <1>3, <1>10, <2>1, MeantNext, Zenon
<1>12. PICK p, vs : p = i' /\ vs = values'
  BY Zenon
<1>13. \E j \in 0 .. Len(d) : Along(d, text, p, vs, "reading", j)
  BY <1>1, <1>3, <1>5, <1>7, <1>10, <1>11, <1>12, BehindNext, Zenon
<1> QED
  BY <1>10, <1>12, <1>13, Zenon

LEMMA ScalarStep ==
  ASSUME NEW d \in Documents, Shown(text, d), NEW k \in 0 .. Len(d), k # Len(d), values = Meant(d, k),
         d[k + 1].kind = "scalar", NEW v \in Nat, v = ValueAt(d, k + 1), v <= Len(text),
         Value = v, Key = Unquoted(d[k + 1].key), at = "reading", ReadScalar
  PROVE  \E j \in 0 .. Len(d) : Along(d, text, i', values', at', j)
<1>1. PICK l \in Nat : l = Len(text) /\ text \in Seq(Char)
  BY Zenon DEF Shown
<1>2. Len(d) \in Nat
  BY MembersAre, Zenon
<1>3. k + 1 \in 1 .. Len(d) /\ (k + 1) - 1 = k
  BY <1>2
<1>4. PICK m \in Member : m = d[k + 1]
  BY <1>3, MembersAre, Zenon
<1>5. PICK e \in Nat : e = MemberEnd(d, k + 1)
  BY <1>3, Positions, Zenon
<1> DEFINE end == First(v, {Comma, "}", Newline})
           got == Trimmed(SubSeq(text, v, end - 1))
<1>6. /\ e <= l => got = m.value /\ (end = None => None = e + 1)
                   /\ (end # None => end = e + 1 /\ end + 1 <= l + 1)
      /\ ~ (e <= l) => end = None /\ got \in Prefixes(m.value)
  BY <1>1, <1>3, <1>4, <1>5, ScalarValue, ZenonT(90)
<1>7. at' = "reading" /\ i' = (IF end = None THEN None ELSE end + 1) /\ Keep(got)
  BY Zenon DEF ReadScalar, GoOn
<1> HIDE DEF got, end
<1>8. values' = IF m.key = <<>> THEN values ELSE With(values, Unquoted(m.key), got)
  BY <1>4, <1>7, KeepIs, Zenon
<1>9. CASE e <= l
  <2>1. values' = Told(d, k + 1, Meant(d, k))
    <3>1. m.kind # "string" /\ m.kind # "container"
      BY <1>4
    <3> QED
      BY <1>4, <1>6, <1>8, <1>9, <3>1, Zenon DEF Told
  <2>2. values' = Meant(d, k + 1)
    BY <1>3, <2>1, MeantNext, Zenon
  <2>3. PICK p, vs : p = i' /\ vs = values'
    BY Zenon
  <2>4. p = e + 1 \/ (p = e + 2 /\ p <= l + 1)
    <3>1. CASE end = None
      BY <1>6, <1>7, <1>9, <2>3, <3>1, Zenon
    <3>2. CASE end # None
      <4>1. p = (e + 1) + 1 /\ (e + 1) + 1 <= l + 1
        BY <1>6, <1>7, <1>9, <2>3, <3>2, Zenon
      <4> QED
        BY <4>1
    <3> QED
      BY <3>1, <3>2
  <2>5. \E j \in 0 .. Len(d) : Along(d, text, p, vs, "reading", j)
    BY <1>1, <1>3, <1>5, <1>9, <2>2, <2>3, <2>4, BehindNext, Zenon
  <2> QED
    BY <1>7, <2>3, <2>5, Zenon
<1>10. CASE ~ (e <= l)
  <2>1. i' = Len(text) + 1
    BY <1>6, <1>7, <1>10, Zenon DEF None
  <2>2. Len(text) < e
    BY <1>1, <1>10
  <2>3. PICK vs, p : vs = values' /\ p = i'
    BY Zenon
  <2>4. PartRead(d, m, k, vs)
    BY <1>6, <1>8, <1>10, <2>3, Zenon DEF PartRead
  <2>5. InPart(d, text, p, vs, k)
    BY <1>4, <1>5, <2>1, <2>2, <2>3, <2>4, Zenon DEF InPart
  <2> QED
    BY <2>3, <2>5, Zenon DEF Along
<1> QED
  BY <1>9, <1>10

LEMMA ThroughStep ==
  ASSUME NEW d \in Documents, Shown(text, d), Tellable(d, text), NEW k \in 0 .. Len(d),
         Through(d, text, i, values, at, k), at = "reading", Turn
  PROVE  \E j \in 0 .. Len(d) : Along(d, text, i', values', at', j)
<1>1. PICK l \in Nat : l = Len(text) /\ text \in Seq(Char)
  BY Zenon DEF Shown
<1>2. Behind(d, text, i, k) /\ values = Meant(d, k)
  BY Zenon DEF Through
<1>3. ASSUME Value = None, k # Len(d) => l < ValueAt(d, k + 1)
      PROVE  \E j \in 0 .. Len(d) : Along(d, text, i', values', at', j)
  <2>1. Return
    BY <1>1, <1>3, LastTurn, Zenon
  <2>2. i' = i /\ values' = values /\ at' = "done"
    BY <2>1, Zenon DEF Return
  <2>3. Through(d, text, i, values, "done", k)
    BY <1>1, <1>2, <1>3, Zenon DEF Through
  <2> QED
    BY <2>2, <2>3, Zenon DEF Along
<1>4. CASE k = Len(d)
  <2>1. KeyQuote = None
    BY <1>2, <1>4, NoMoreKeys, Zenon
  <2>2. Value = None
    BY <2>1, Zenon DEF Value
  <2> QED
    BY <1>3, <1>4, <2>2, Zenon
<1>5. CASE k # Len(d)
  <2>1. k + 1 \in 1 .. Len(d) /\ Len(d) \in Nat
    BY <1>5, MembersAre
  <2>2. PICK c \in Nat, v \in Nat : c = ColonAt(d, k + 1) /\ v = ValueAt(d, k + 1)
    BY <2>1, Positions, Zenon
  <2>3. /\ Value = IF v <= l THEN v ELSE None
        /\ v <= l =>
             /\ Key = Unquoted(d[k + 1].key) /\ AfterKey = c
             /\ d[k + 1].kind = "string" => text[v] = Quote
             /\ d[k + 1].kind = "scalar" => text[v] \notin Opening \cup {Quote}
             /\ d[k + 1].kind = "container" => text[v] \in Opening
    <3>1. /\ Value = IF v <= Len(text) THEN v ELSE None
          /\ v <= Len(text) =>
               /\ Key = Unquoted(d[k + 1].key) /\ AfterKey = c
               /\ d[k + 1].kind = "string" => text[v] = Quote
               /\ d[k + 1].kind = "scalar" => text[v] \notin Opening \cup {Quote}
               /\ d[k + 1].kind = "container" => text[v] \in Opening
      BY <1>2, <1>5, <2>2, ValueIs
    <3> QED
      BY <1>1, <3>1, Zenon
  <2>4. CASE ~ (v <= l)
    <3>1. l < v
      BY <2>4
    <3> QED
      BY <1>3, <2>2, <2>3, <2>4, <3>1, Zenon
  <2>5. CASE v <= l
    <3>1. Value = v /\ v <= Len(text) /\ Key = Unquoted(d[k + 1].key) /\ AfterKey = c
      BY <1>1, <2>3, <2>5, Zenon
    <3>2. /\ text[v] = Quote => ReadString
          /\ text[v] \in Opening => SkipContainer
          /\ text[v] \notin Opening \cup {Quote} => ReadScalar
      BY <1>1, <3>1, ValueTurn, Zenon
    <3>3. d[k + 1].kind \in {"string", "scalar", "container"}
      <4>1. d[k + 1] \in Member
        BY <2>1, MembersAre, Zenon
      <4>2. \A m \in Member : m.kind \in {"string", "scalar", "container"}
        BY DEF Member
      <4> QED
        BY <4>1, <4>2, Zenon
    <3>4. CASE d[k + 1].kind = "string"
      BY <1>2, <1>5, <2>2, <2>3, <2>5, <3>1, <3>2, <3>4, StringStep, Zenon
    <3>5. CASE d[k + 1].kind = "container"
      BY <1>2, <1>5, <2>2, <2>3, <2>5, <3>1, <3>2, <3>5, ContainerStep, Zenon
    <3>6. CASE d[k + 1].kind = "scalar"
      BY <1>2, <1>5, <2>2, <2>3, <2>5, <3>1, <3>2, <3>6, ScalarStep, Zenon
    <3> QED
      BY <3>3, <3>4, <3>5, <3>6, Zenon
  <2> QED
    BY <2>4, <2>5
<1> QED
  BY <1>4, <1>5

LEMMA InPartStep ==
  ASSUME NEW d \in Documents, Shown(text, d), NEW k \in 0 .. Len(d),
         InPart(d, text, i, values, k), Turn
  PROVE  \E j \in 0 .. Len(d) : Along(d, text, i', values', at', j)
<1>1. Len(text) \in Nat
  BY Zenon DEF Shown
<1>2. i = Len(text) + 1
  BY Zenon DEF InPart
<1>3. \A j \in i .. Len(text) : FALSE
  BY <1>1, <1>2
<1>4. First(i, {Quote}) = None
  BY <1>3, FirstNone, Zenon
<1>5. Value = None
  BY <1>4, Zenon DEF Value, KeyQuote
<1>6. Return
  BY <1>1, <1>5, LastTurn, Zenon
<1>7. i' = i /\ values' = values
  BY <1>6, Zenon DEF Return
<1> QED
  BY <1>7, Zenon DEF Along

LEMMA InLoopStep ==
  ASSUME NEW d \in Documents, Shown(text, d), NEW k \in 0 .. Len(d),
         InLoop(d, text, i, at, k), Turn
  PROVE  \E j \in 0 .. Len(d) : Along(d, text, i', values', at', j)
<1>1. PICK l \in Nat : l = Len(text) /\ text \in Seq(Char)
  BY Zenon DEF Shown
<1>2. k # Len(d) /\ d[k + 1].kind = "string" /\ at = "reading"
  BY Zenon DEF InLoop
<1>3. k + 1 \in 1 .. Len(d)
  BY <1>2, MembersAre
<1>4. PICK c, v, e \in Nat : c = ColonAt(d, k + 1) /\ v = ValueAt(d, k + 1) /\ e = MemberEnd(d, k + 1)
  BY <1>3, Positions, Zenon
<1>5. i = c /\ v <= l /\ l < e /\ v = c + 2
  BY <1>1, <1>3, <1>4, Positions, Zenon DEF InLoop
<1>6. PICK kl, vl, p, q, f \in Nat : LaidOut(text, d, k + 1, kl, vl, p, q, f)
  BY <1>3, Layout, Zenon
<1>7. Placed(text, d[k + 1], q) /\ kl = Len(d[k + 1].key) /\ q = KeyAt(d, k + 1)
  BY <1>6, Zenon DEF LaidOut
<1>8. c = q + kl + 2 /\ q + kl + 3 = c + 1 /\ q + kl + 4 = v
  <2>1. c = q + kl + 2
    BY <1>4, <1>7, Zenon DEF ColonAt
  <2> QED
    BY <1>5, <2>1
<1>9. c <= l /\ c + 1 <= l /\ c \in Nat /\ c # l + 1 /\ v # l + 1
  BY <1>5
<1>10. text[c] = Colon /\ text[c + 1] = " " /\ text[v] = Quote
  BY <1>1, <1>2, <1>5, <1>7, <1>8, <1>9, Zenon DEF Placed, Has
<1>11. First(c, {Quote}) = v
  <2>1. ASSUME NEW j \in c .. v - 1 PROVE text[j] # Quote
    <3>1. j = c \/ j = c + 1
      BY <1>5
    <3>2. text[j] = Colon \/ text[j] = " "
      BY <1>10, <3>1, Zenon
    <3> QED
      BY <3>2 DEF Quote, Colon
  <2>2. v \in c .. l
    BY <1>5
  <2>3. text[v] \in {Quote} /\ \A j \in c .. v - 1 : text[j] \notin {Quote}
    BY <1>10, <2>1, Zenon
  <2> QED
    BY <1>1, <2>2, <2>3, FirstAt
<1>12. StringEnd(v + 1) = None
  <2>1. v <= Len(text) /\ ~ (e <= Len(text))
    BY <1>1, <1>5
  <2>2. ~ (e <= Len(text)) => StringEnd(v + 1) = None
    BY <1>2, <1>3, <1>4, <2>1, StringValue
  <2> QED
    BY <2>1, <2>2
<1>13. KeyQuote = v /\ KeyEnd = None /\ AfterKey = c
  BY <1>5, <1>11, <1>12, Zenon DEF KeyQuote, KeyEnd, AfterKey
<1>14. First(c, {Colon}) = c
  <2>1. c \in c .. l /\ \A j \in c .. c - 1 : FALSE
    BY <1>9
  <2> QED
    BY <1>1, <1>10, <2>1, FirstAt
<1>15. ValueStart(c) = v
  <2>1. v \in c + 1 .. l /\ \A j \in c + 1 .. v - 1 : j = c + 1
    BY <1>5
  <2>2. text[v] \notin Blank
    BY <1>10 DEF Quote, Blank, Newline
  <2>3. " " \in Blank
    BY DEF Blank
  <2>4. \A j \in c + 1 .. v - 1 : text[j] \in Blank
    BY <1>10, <2>1, <2>3, Zenon
  <2> QED
    BY <1>1, <2>1, <2>2, <2>4, ValueStartAt
<1>16. Value = v
  <2>1. v # None
    BY <1>1, <1>9, Zenon DEF None
  <2> QED
    BY <1>13, <1>14, <1>15, <2>1, Zenon DEF Value
<1>17. ReadString
  BY <1>1, <1>5, <1>10, <1>16, ValueTurn, Zenon
<1>18. i' = c /\ at' = "reading"
  BY <1>2, <1>12, <1>13, <1>16, <1>17, Zenon DEF ReadString, GoOn
<1>19. InLoop(d, text, c, "reading", k)
  BY <1>5, <1>18, Zenon DEF InLoop
<1> QED
  BY <1>18, <1>19, Zenon DEF Along

(* What there is of the document does not change. *)
TextInv == doc \in Documents /\ text \in Prefixes(Whole(doc)) /\ at \in {"reading", "done"}

LEMMA ReadInit ==
  ASSUME Init
  PROVE  TextInv /\ ReadInv
<1>1. TextInv /\ at = "reading" /\ i = 1 /\ values = <<>>
  BY DEF Init, TextInv
<1>2. PICK d \in Documents : d = doc
  BY <1>1, Zenon DEF TextInv
<1>3. Shown(text, d)
  BY <1>1, <1>2, CutShown, Zenon DEF TextInv
<1>4. PICK l \in Nat : l = Len(text)
  BY <1>3, Zenon DEF Shown
<1>5. 1 \in 1 .. l + 1
  BY <1>4
<1>6. Behind(d, text, 1, 0)
  BY <1>4, <1>5, Zenon DEF Behind
<1>7. Meant(d, 0) = <<>> /\ 0 \in 0 .. Len(d)
  BY MembersAre, MeantIs
<1>8. "reading" # "done"
  OBVIOUS
<1>9. Through(d, text, 1, <<>>, "reading", 0)
  BY <1>6, <1>7, <1>8, Zenon DEF Through
<1> QED
  BY <1>1, <1>2, <1>7, <1>9, Zenon DEF ReadInv, Along

LEMMA ReadStep ==
  ASSUME TextInv, ReadInv, [Next]_vars
  PROVE  TextInv' /\ ReadInv'
<1>1. CASE UNCHANGED vars
  BY <1>1, Zenon DEF vars, TextInv, ReadInv
<1>2. CASE Done
  <2>1. UNCHANGED vars
    BY <1>2, Zenon DEF Done
  <2> QED
    BY <1>1, <2>1
<1>3. CASE Turn
  <2>1. at = "reading" /\ doc' = doc /\ text' = text /\ at' \in {"reading", "done"}
    BY <1>3, Zenon DEF Turn, Return, ReadString, SkipContainer, ReadScalar, GoOn
  <2>2. TextInv'
    BY <2>1, Zenon DEF TextInv
  <2>3. PICK d \in Documents : d = doc
    BY Zenon DEF TextInv
  <2>4. Shown(text, d)
    BY <2>3, CutShown, Zenon DEF TextInv
  <2>5. ASSUME Tellable(d, text) PROVE \E j \in 0 .. Len(d) : Along(d, text, i', values', at', j)
    <3>1. PICK k \in 0 .. Len(d) : Along(d, text, i, values, at, k)
      BY <2>3, <2>5, Zenon DEF ReadInv
    <3> QED
      BY <1>3, <2>1, <2>4, <2>5, <3>1, ThroughStep, InPartStep, InLoopStep, Zenon DEF Along
  <2>6. ReadInv'
    BY <2>1, <2>3, <2>5, Zenon DEF ReadInv
  <2> QED
    BY <2>2, <2>6
<1> QED
  BY <1>1, <1>2, <1>3, Zenon DEF Next

-----------------------------------------------------------------------------
(* What the properties say follows from it. *)

LEMMA WholeFollows ==
  ASSUME TextInv, ReadInv
  PROVE  WholeIsRead
<1>1. SUFFICES ASSUME at = "done", text = Whole(doc), Plain PROVE values = Meant(doc, Len(doc))
  BY Zenon DEF WholeIsRead
<1>2. PICK d \in Documents : d = doc
  BY Zenon DEF TextInv
<1>3. Tellable(d, text)
  BY <1>1, <1>2, Zenon DEF Tellable, Plain
<1>4. PICK k \in 0 .. Len(d) : Along(d, text, i, values, at, k)
  BY <1>2, <1>3, Zenon DEF ReadInv
<1>5. Len(d) \in Nat /\ Len(d) \in 0 .. Len(d)
  BY MembersAre
<1>6. PICK f \in Nat : f = MemberEnd(d, Len(d))
  BY <1>5, EndsAre, Zenon
<1>7. Len(text) = f + 1
  BY <1>1, <1>2, <1>6, WholeShows, Zenon
<1>8. ASSUME k # Len(d) PROVE ~ (Len(text) < ValueAt(d, k + 1)) /\ ~ (Len(text) < MemberEnd(d, k + 1))
  <2>1. k + 1 \in 1 .. Len(d) /\ k + 1 \in 0 .. Len(d)
    BY <1>5, <1>8
  <2>2. PICK v, e \in Nat : v = ValueAt(d, k + 1) /\ e = MemberEnd(d, k + 1)
    BY <2>1, Positions, Zenon
  <2>3. v <= e + 1 /\ e <= f
    BY <1>6, <2>1, <2>2, Positions, WholeShows, Zenon
  <2>4. ~ (f + 1 < v) /\ ~ (f + 1 < e)
    BY <2>3
  <2> QED
    BY <1>7, <2>2, <2>4, Zenon
<1>9. k = Len(d) /\ values = Meant(d, k)
  <2>1. CASE Through(d, text, i, values, at, k)
    BY <1>1, <1>8, <2>1, Zenon DEF Through
  <2>2. CASE InPart(d, text, i, values, k)
    BY <1>8, <2>2, Zenon DEF InPart
  <2>3. CASE InLoop(d, text, i, at, k)
    BY <1>8, <2>3, Zenon DEF InLoop
  <2> QED
    BY <1>4, <2>1, <2>2, <2>3, Zenon DEF Along
<1> QED
  BY <1>2, <1>9, Zenon

(* The number of members that arrived before the one with which the text ends. *)
ArrivedAt(d, t, n) ==
  /\ n \in 0 .. Len(d)
  /\ n > 0 => Len(Joined(d, n)) < Len(t)
  /\ n < Len(d) => Len(Joined(d, n + 1)) >= Len(t)

LEMMA ArrivedIs ==
  ASSUME NEW d \in Documents, d = doc, Len(text) \in Nat, NEW n, ArrivedAt(d, text, n)
  PROVE  Arrived = n
<1>1. PICK l \in Nat : l = Len(text)
  OBVIOUS
<1>2. Arrived = CHOOSE m \in 0 .. Len(d) : ArrivedAt(d, text, m)
  BY Zenon DEF Arrived, ArrivedAt
<1>3. ArrivedAt(d, text, Arrived)
  BY <1>2, Zenon DEF ArrivedAt
<1>4. ASSUME NEW a, NEW b, ArrivedAt(d, text, a), ArrivedAt(d, text, b) PROVE ~ (a < b)
  <2>1. Len(d) \in Nat /\ a \in 0 .. Len(d) /\ b \in 0 .. Len(d)
    BY <1>4, MembersAre, Zenon DEF ArrivedAt
  <2>2. SUFFICES ASSUME a < b PROVE FALSE
    OBVIOUS
  <2>3. a < Len(d) /\ b > 0 /\ a + 1 \in 0 .. Len(d) /\ a + 1 <= b
    BY <2>1, <2>2
  <2>4. MemberEnd(d, b) < l /\ MemberEnd(d, a + 1) >= l
    BY <1>1, <1>4, <2>3, Zenon DEF ArrivedAt, MemberEnd
  <2>5. MemberEnd(d, a + 1) <= MemberEnd(d, b)
    BY <2>1, <2>3, EndsGrow, Zenon
  <2>6. MemberEnd(d, a + 1) \in Nat /\ MemberEnd(d, b) \in Nat
    BY <2>1, <2>3, EndsAre, Zenon
  <2> QED
    BY <2>4, <2>5, <2>6
<1>5. n \in Int /\ Arrived \in Int
  <2>1. n \in 0 .. Len(d) /\ Arrived \in 0 .. Len(d)
    BY <1>3, Zenon DEF ArrivedAt
  <2> QED
    BY <2>1
<1>6. ~ (n < Arrived) /\ ~ (Arrived < n)
  BY <1>3, <1>4, Zenon
<1> QED
  BY <1>5, <1>6

LEMMA CutFollows ==
  ASSUME TextInv, ReadInv
  PROVE  CutIsPrefix
<1>1. PICK d \in Documents : d = doc
  BY Zenon DEF TextInv
<1> DEFINE Goal ==
             \/ values = Meant(doc, Arrived)
             \/ /\ Arrived < Len(doc)
                /\ LET m == doc[Arrived + 1] IN
                     \E p \in Prefixes(m.value) :
                       values = With(Meant(doc, Arrived), Unquoted(m.key),
                                     IF m.kind = "string" THEN Unquoted(p) ELSE p)
<1>2. SUFFICES ASSUME at = "done", Flat(d) PROVE Goal
  BY <1>1, Zenon DEF CutIsPrefix, Flat
<1>3. Tellable(d, text)
  BY <1>2, Zenon DEF Tellable
<1>4. PICK k \in 0 .. Len(d) : Along(d, text, i, values, at, k)
  BY <1>1, <1>3, Zenon DEF ReadInv
<1>5. Len(d) \in Nat /\ Len(d) \in 0 .. Len(d) /\ DOMAIN d = 1 .. Len(d)
  BY MembersAre, LenProperties
<1>6. Shown(text, d)
  BY <1>1, CutShown, Zenon DEF TextInv
<1>7. PICK l \in Nat : l = Len(text)
  BY <1>6, Zenon DEF Shown
<1>8. PICK e \in Nat : e = MemberEnd(d, k)
  BY EndsAre, Zenon
(* Member k has not just ended. *)
<1>9. ASSUME k > 0 => e < l, k < Len(d) => l <= MemberEnd(d, k + 1)
      PROVE  Arrived = k
  <2>1. k < Len(d) => MemberEnd(d, k + 1) >= l
    <3>1. ASSUME k < Len(d) PROVE MemberEnd(d, k + 1) >= l
      <4>1. k + 1 \in 0 .. Len(d)
        BY <1>5, <3>1
      <4>2. MemberEnd(d, k + 1) \in Nat
        BY <4>1, EndsAre, Zenon
      <4> QED
        BY <1>9, <3>1, <4>2
    <3> QED
      BY <3>1
  <2>2. ArrivedAt(d, text, k)
    BY <1>7, <1>8, <1>9, <2>1, Zenon DEF ArrivedAt, MemberEnd
  <2> QED
    BY <1>1, <1>7, <2>2, ArrivedIs, Zenon
<1>10. ASSUME k # Len(d)
       PROVE  k + 1 \in 1 .. Len(d) /\ k < Len(d) /\ k + 1 \in 0 .. Len(d)
  <2>1. PICK n \in Nat : n = Len(d)
    BY <1>5, Zenon
  <2>2. k \in 0 .. n /\ k # n
    BY <1>10, <2>1, Zenon
  <2>3. k + 1 \in 1 .. n /\ k < n /\ k + 1 \in 0 .. n
    BY <2>2
  <2> QED
    BY <2>1, <2>3, Zenon
<1>11. CASE Through(d, text, i, values, at, k)
  <2>1. values = Meant(d, k) /\ Behind(d, text, i, k)
    BY <1>11, Zenon DEF Through
  <2>2. k < Len(d) => l <= MemberEnd(d, k + 1)
    <3>1. SUFFICES ASSUME k < Len(d) PROVE l <= MemberEnd(d, k + 1)
      OBVIOUS
    <3>2. k # Len(d)
      <4>1. PICK n \in Nat : n = Len(d)
        BY <1>5, Zenon
      <4>2. k < n => k # n
        OBVIOUS
      <4> QED
        BY <3>1, <4>1, <4>2, Zenon
    <3>3. PICK v, f \in Nat : v = ValueAt(d, k + 1) /\ f = MemberEnd(d, k + 1)
      BY <1>10, <3>2, Positions, Zenon
    <3>4. v <= f + 1 /\ l < v
      BY <1>2, <1>7, <1>10, <1>11, <3>2, <3>3, Positions, Zenon DEF Through
    <3>5. l <= f
      BY <3>4
    <3> QED
      BY <3>3, <3>5, Zenon
  <2>3. CASE k > 0 => e < l
    <3>1. Arrived = k
      BY <1>9, <2>2, <2>3, Zenon
    <3> QED
      BY <1>1, <2>1, <3>1, Zenon
  <2>4. CASE ~ (k > 0 => e < l)
    <3>1. k # 0 /\ k \in 1 .. Len(d) /\ k - 1 \in 0 .. Len(d) /\ (k - 1) + 1 = k /\ k - 1 < Len(d)
      BY <1>5, <2>4
    <3>2. e = l
      <4>1. e <= l
        BY <1>7, <1>8, <2>1, <3>1, Zenon DEF Behind
      <4> QED
        BY <2>4, <4>1
    <3>3. PICK f \in Nat : f = MemberEnd(d, k - 1)
      BY <3>1, EndsAre, Zenon
    <3>4. f < e
      <4>1. PICK q, c, v \in Nat : q = KeyAt(d, k) /\ c = ColonAt(d, k) /\ v = ValueAt(d, k)
        BY <3>1, Positions, Zenon
      <4>2. f < q /\ q < c /\ v = c + 2 /\ v <= e + 1
        BY <1>8, <3>1, <3>3, <4>1, Positions, EndsAre, Zenon
      <4> QED
        BY <4>2
    <3>5. MemberEnd(d, k) >= l
      <4>1. l >= l
        OBVIOUS
      <4> QED
        BY <1>8, <3>2, <4>1, Zenon
    <3>6. ArrivedAt(d, text, k - 1)
      BY <1>7, <3>1, <3>2, <3>3, <3>4, <3>5, Zenon DEF ArrivedAt, MemberEnd
    <3>7. Arrived = k - 1
      BY <1>1, <1>7, <3>6, ArrivedIs, Zenon
    <3>8. PICK m \in Member : m = d[k]
      BY <3>1, MembersAre, Zenon
    <3>9. m.kind # "container"
      BY <1>2, <1>5, <3>1, <3>8, Zenon DEF Flat
    <3>10. values = Told(d, k, Meant(d, k - 1))
      BY <2>1, <3>1, MeantNext, Zenon
    <3>11. CASE m.key = <<>>
      <4>1. values = Meant(d, k - 1)
        BY <3>8, <3>10, <3>11, Zenon DEF Told
      <4> QED
        BY <1>1, <3>7, <4>1, Zenon
    <3>12. CASE m.key # <<>>
      <4>1. values = With(Meant(d, k - 1), Unquoted(m.key),
                          IF m.kind = "string" THEN Unquoted(m.value) ELSE m.value)
        BY <3>8, <3>9, <3>10, <3>12, Zenon DEF Told
      <4>2. m.value \in Prefixes(m.value)
        <5>1. m.value \in Seq(Char)
          BY DEF Member
        <5>2. SubSeq(m.value, 1, Len(m.value)) = m.value /\ Len(m.value) \in 0 .. Len(m.value)
          BY <5>1, LenProperties
        <5> QED
          BY <5>2, Zenon DEF Prefixes
      <4>3. m = doc[Arrived + 1] /\ Arrived < Len(doc)
        BY <1>1, <3>1, <3>7, <3>8, Zenon
      <4> QED
        BY <1>1, <3>7, <4>1, <4>2, <4>3, Zenon
    <3> QED
      BY <3>11, <3>12
  <2> QED
    BY <2>3, <2>4
<1>12. CASE InPart(d, text, i, values, k)
  <2>1. /\ k # Len(d) /\ d[k + 1].kind = "scalar" /\ l < MemberEnd(d, k + 1)
        /\ ValueAt(d, k + 1) <= l /\ PartRead(d, d[k + 1], k, values)
    BY <1>7, <1>12, Zenon DEF InPart
  <2>2. PICK q, c, v, f \in Nat :
          q = KeyAt(d, k + 1) /\ c = ColonAt(d, k + 1) /\ v = ValueAt(d, k + 1) /\ f = MemberEnd(d, k + 1)
    BY <1>10, <2>1, Positions, Zenon
  <2>3. e < q /\ q < c /\ v = c + 2
    <3>1. (k + 1) - 1 = k
      OBVIOUS
    <3> QED
      BY <1>8, <1>10, <2>1, <2>2, <3>1, Positions, EndsAre, Zenon
  <2>4. e < l /\ l <= f
    <3>1. v <= l /\ l < f
      BY <2>1, <2>2, Zenon
    <3> QED
      BY <2>3, <3>1
  <2>5. Arrived = k
    BY <1>9, <2>2, <2>4, Zenon
  <2>6. PICK m \in Member : m = d[k + 1] /\ m.kind # "string"
    <3>1. d[k + 1] \in Member
      BY <1>10, <2>1, MembersAre, Zenon
    <3>2. d[k + 1].kind # "string"
      BY <2>1
    <3> QED
      BY <3>1, <3>2, Zenon
  <2>7. PICK x \in Prefixes(m.value) :
          values = IF m.key = <<>> THEN Meant(d, k) ELSE With(Meant(d, k), Unquoted(m.key), x)
    BY <2>1, <2>6, Zenon DEF PartRead
  <2>8. m = doc[Arrived + 1] /\ Arrived < Len(doc)
    BY <1>1, <1>10, <2>1, <2>5, <2>6, Zenon
  <2>9. CASE m.key = <<>>
    BY <1>1, <2>5, <2>7, <2>9, Zenon
  <2>10. CASE m.key # <<>>
    BY <1>1, <2>5, <2>6, <2>7, <2>8, <2>10, Zenon
  <2> QED
    BY <2>9, <2>10
<1>13. CASE InLoop(d, text, i, at, k)
  BY <1>2, <1>13, Zenon DEF InLoop
<1> QED
  BY <1>4, <1>11, <1>12, <1>13, Zenon DEF Along

(* A whole document is read as it was meant: strings with their escapes, the later of two *)
(* members of one name, nested containers skipped.                                          *)
THEOREM WholeIsReadAlways == Spec => []WholeIsRead
<1>1. Init => TextInv /\ ReadInv
  BY ReadInit
<1>2. TextInv /\ ReadInv /\ [Next]_vars => (TextInv /\ ReadInv)'
  BY ReadStep
<1>3. TextInv /\ ReadInv => WholeIsRead
  BY WholeFollows
<1> QED
  BY <1>1, <1>2, <1>3, PTL DEF Spec

(* A reader that returns from a flat document which ends early has what had arrived before, *)
(* and at most a part of the value after that.                                              *)
THEOREM CutIsPrefixAlways == Spec => []CutIsPrefix
<1>1. Init => TextInv /\ ReadInv
  BY ReadInit
<1>2. TextInv /\ ReadInv /\ [Next]_vars => (TextInv /\ ReadInv)'
  BY ReadStep
<1>3. TextInv /\ ReadInv => CutIsPrefix
  BY CutFollows
<1> QED
  BY <1>1, <1>2, <1>3, PTL DEF Spec

-----------------------------------------------------------------------------
(* Where the reader's scanning stops, whatever the text. *)

LEMMA MaxOf ==
  ASSUME NEW n \in Nat, NEW S \in SUBSET (1 .. n), S # {}
  PROVE  Max(S) \in S
<1>1. S \in SUBSET Nat /\ (\A x \in S : x <= n) /\ S \in SUBSET Int
  OBVIOUS
<1>2. PICK x \in S : \A y \in S : y <= x
  BY <1>1, Greatest, Zenon
<1>3. Max(S) = x
  BY <1>1, <1>2, MaxIs, Zenon
<1> QED
  BY <1>3

(* A position of the text from p on, or none. *)
Found(x, p) == x = None \/ x \in p .. Len(text)

LEMMA LeastFound ==
  ASSUME Len(text) \in Nat, NEW p \in Nat, NEW S \in SUBSET (p .. Len(text)),
         NEW x, x = IF S = {} THEN None ELSE Min(S)
  PROVE  Found(x, p)
<1>1. CASE S = {}
  BY <1>1, Zenon DEF Found
<1>2. CASE S # {}
  <2>1. S \in SUBSET Nat
    OBVIOUS
  <2>2. Min(S) \in S
    BY <1>2, <2>1, MinOf, Zenon
  <2> QED
    BY <1>2, <2>2, Zenon DEF Found
<1> QED
  BY <1>1, <1>2

LEMMA FirstFound ==
  ASSUME Len(text) \in Nat, NEW p \in Nat, NEW S
  PROVE  Found(First(p, S), p)
<1> DEFINE found == {j \in p .. Len(text) : text[j] \in S}
<1>1. First(p, S) = IF found = {} THEN None ELSE Min(found)
  BY Zenon DEF First
<1>2. found \in SUBSET (p .. Len(text))
  BY Zenon
<1> HIDE DEF found
<1> QED
  BY <1>1, <1>2, LeastFound, Zenon

LEMMA ValueStartFound ==
  ASSUME Len(text) \in Nat, NEW c \in Nat
  PROVE  Found(ValueStart(c), c + 1)
<1> DEFINE found == {j \in c + 1 .. Len(text) : text[j] \notin Blank}
<1>1. ValueStart(c) = IF found = {} THEN None ELSE Min(found)
  BY Zenon DEF ValueStart
<1>2. found \in SUBSET (c + 1 .. Len(text))
  BY Zenon
<1>3. c + 1 \in Nat
  OBVIOUS
<1> HIDE DEF found
<1> QED
  BY <1>1, <1>2, <1>3, LeastFound, Zenon

LEMMA ContainerEndFound ==
  ASSUME Len(text) \in Nat, NEW p \in Nat
  PROVE  Found(ContainerEnd(p), p)
<1> DEFINE found == {j \in p .. Len(text) : text[j] \in Closing /\ Depth(text, p, j) = 0}
<1>1. ContainerEnd(p) = IF found = {} THEN None ELSE Min(found)
  BY Zenon DEF ContainerEnd
<1>2. found \in SUBSET (p .. Len(text))
  BY Zenon
<1> HIDE DEF found
<1> QED
  BY <1>1, <1>2, LeastFound, Zenon

(* Of what is in the text. *)
LEMMA SliceType ==
  ASSUME text \in Seq(Char), NEW a \in Nat, 1 <= a, NEW b \in Int, b <= Len(text)
  PROVE  SubSeq(text, a, b) \in Seq(Char)
<1>1. PICK l \in Nat : l = Len(text)
  BY LenProperties
<1>2. \A j \in 1 .. l : text[j] \in Char
  BY <1>1, ElementOfSeq
<1>3. \A j \in a .. b : j \in 1 .. l
  BY <1>1
<1>4. \A j \in a .. b : text[j] \in Char
  BY <1>2, <1>3, Zenon
<1> QED
  BY <1>4, SubSeqProperties

LEMMA StringEndFound ==
  ASSUME text \in Seq(Char), NEW p \in Nat, 1 <= p, p <= Len(text) + 1
  PROVE  Found(StringEnd(p), p)
<1>1. PICK l \in Nat : l = Len(text)
  BY LenProperties
<1>2. l <= Len(text) /\ l \in Int
  BY <1>1
<1>3. PICK r \in Seq(Char) : r = SubSeq(text, p, Len(text))
  BY <1>1, <1>2, SliceType, Zenon
<1>4. Len(r) = l - p + 1 /\ DOMAIN r = 1 .. l - p + 1
  <2>1. \A j \in p .. l : text[j] \in Char
    BY <1>1, ElementOfSeq
  <2>2. Len(SubSeq(text, p, l)) = IF p <= l THEN l - p + 1 ELSE 0
    BY <2>1, SubSeqProperties
  <2>3. p <= l + 1
    BY <1>1, Zenon
  <2>4. (IF p <= l THEN l - p + 1 ELSE 0) = l - p + 1
    BY <2>3
  <2>5. Len(r) = l - p + 1
    BY <1>1, <1>3, <2>2, <2>4, Zenon
  <2>6. DOMAIN r = 1 .. Len(r)
    BY LenProperties
  <2> QED
    BY <2>5, <2>6, Zenon
<1>5. StringEnd(p) = IF Unescaped(r) = {} THEN None ELSE p - 1 + Min(Unescaped(r))
  BY <1>3, StringEndOf
<1>6. CASE Unescaped(r) = {}
  BY <1>5, <1>6, Zenon DEF Found
<1>7. CASE Unescaped(r) # {}
  <2>1. Unescaped(r) \in SUBSET (1 .. l - p + 1)
    BY <1>4, Zenon DEF Unescaped
  <2>2. Unescaped(r) \in SUBSET Nat
    BY <2>1
  <2>3. Min(Unescaped(r)) \in Unescaped(r)
    BY <1>7, <2>2, MinOf, Zenon
  <2>4. PICK z \in 1 .. l - p + 1 : z = Min(Unescaped(r))
    BY <2>1, <2>3, Zenon
  <2>5. StringEnd(p) = p - 1 + z
    BY <1>5, <1>7, <2>4, Zenon
  <2>6. p - 1 + z \in p .. l
    OBVIOUS
  <2> QED
    BY <1>1, <2>5, <2>6, Zenon DEF Found
<1> QED
  BY <1>6, <1>7

LEMMA TrimmedType ==
  ASSUME NEW s \in Seq(Char)
  PROVE  Trimmed(s) \in Seq(Char)
<1>1. PICK n \in Nat : n = Len(s) /\ DOMAIN s = 1 .. n
  BY LenProperties
<1>2. PICK S : S = {j \in DOMAIN s : s[j] \notin Blank}
  BY Zenon
<1>3. Trimmed(s) = IF S = {} THEN <<>> ELSE SubSeq(s, Min(S), Max(S))
  BY <1>2, Zenon DEF Trimmed
<1>4. S \in SUBSET (1 .. n)
  BY <1>1, <1>2, Zenon
<1>5. CASE S = {}
  <2>1. <<>> \in Seq(Char)
    OBVIOUS
  <2> QED
    BY <1>3, <1>5, <2>1, Zenon
<1>6. CASE S # {}
  <2>1. S \in SUBSET Nat
    BY <1>4
  <2>2. PICK a \in 1 .. n, b \in 1 .. n : a = Min(S) /\ b = Max(S)
    BY <1>4, <1>6, <2>1, MinOf, MaxOf, Zenon
  <2>3. \A j \in 1 .. n : s[j] \in Char
    BY <1>1, ElementOfSeq
  <2>4. \A j \in a .. b : s[j] \in Char
    BY <2>3
  <2>5. SubSeq(s, a, b) \in Seq(Char)
    BY <2>4, SubSeqProperties
  <2> QED
    BY <1>3, <1>6, <2>2, <2>5, Zenon
<1> QED
  BY <1>5, <1>6

(* A turn that finds a value has found a key, and stays in the text. *)
LEMMA TurnInText ==
  ASSUME TypeOK, Value < None
  PROVE  /\ text \in Seq(Char) /\ Len(text) \in Nat /\ Value \in 1 .. Len(text)
         /\ AfterKey \in 1 .. Len(text) + 1 /\ Key \in Seq(Char)
<1>1. PICK l \in Nat : l = Len(text) /\ text \in Seq(Char)
  BY LenProperties DEF TypeOK
<1>2. i \in 1 .. l + 1
  BY <1>1, Zenon DEF TypeOK
<1>3. ~ (None < None)
  BY <1>1 DEF None
<1>4. KeyQuote # None
  BY <1>3, Zenon DEF Value
<1>5. Found(KeyQuote, i)
  BY <1>1, <1>2, FirstFound DEF KeyQuote
<1>6. PICK q \in i .. l : q = KeyQuote
  BY <1>1, <1>4, <1>5, Zenon DEF Found
<1>7. q \in Nat /\ 1 <= q /\ q <= l /\ q + 1 \in Nat /\ 1 <= q + 1 /\ q + 1 <= l + 1
  BY <1>2
<1>8. Found(KeyEnd, q + 1)
  BY <1>1, <1>6, <1>7, StringEndFound, Zenon DEF KeyEnd
<1>9. PICK a \in 1 .. l + 1 : a = AfterKey
  <2>1. CASE KeyEnd = None
    BY <1>2, <2>1, Zenon DEF AfterKey
  <2>2. CASE KeyEnd # None
    <3>1. KeyEnd \in q + 1 .. l
      BY <1>1, <1>8, <2>2, Zenon DEF Found
    <3>2. KeyEnd + 1 \in 1 .. l + 1
      BY <1>7, <3>1
    <3> QED
      BY <2>2, <3>2, Zenon DEF AfterKey
  <2> QED
    BY <2>1, <2>2
<1>10. Key \in Seq(Char)
  <2>1. KeyEnd - 1 \in Int /\ KeyEnd - 1 <= l
    <3>1. CASE KeyEnd = None
      BY <1>1, <3>1 DEF None
    <3>2. CASE KeyEnd # None
      <4>1. KeyEnd \in q + 1 .. l
        BY <1>1, <1>8, <3>2, Zenon DEF Found
      <4> QED
        BY <1>7, <4>1
    <3> QED
      BY <3>1, <3>2
  <2>2. PICK b \in Int : b = KeyEnd - 1 /\ b <= Len(text)
    BY <1>1, <2>1, Zenon
  <2>3. SubSeq(text, q + 1, b) \in Seq(Char)
    BY <1>1, <1>7, <2>2, SliceType, Zenon
  <2> QED
    BY <1>6, <2>2, <2>3, UnquotedType, Zenon DEF Key
<1>11. Value \in 1 .. l
  <2>1. a \in Nat
    OBVIOUS
  <2>2. PICK c \in Nat : c = First(a, {Colon})
    <3>1. Found(First(a, {Colon}), a)
      BY <1>1, <2>1, FirstFound
    <3>2. None \in Nat /\ \A x \in a .. l : x \in Nat
      BY <1>1 DEF None
    <3> QED
      BY <1>1, <3>1, <3>2, Zenon DEF Found
  <2>3. Value = ValueStart(c)
    BY <1>4, <1>9, <2>2, Zenon DEF Value
  <2>4. Found(Value, c + 1)
    BY <1>1, <2>3, ValueStartFound, Zenon
  <2>5. Value # None
    BY <1>3, Zenon
  <2>6. Value \in c + 1 .. l
    BY <1>1, <2>4, <2>5, Zenon DEF Found
  <2> QED
    BY <2>6
<1> QED
  BY <1>1, <1>9, <1>10, <1>11, Zenon

LEMMA KeepType ==
  ASSUME TypeOK, Key \in Seq(Char), NEW value \in Seq(Char), Keep(value)
  PROVE  \A k \in DOMAIN values' : k \in Seq(Char) /\ values'[k] \in Seq(Char)
<1>1. \A k \in DOMAIN values : k \in Seq(Char) /\ values[k] \in Seq(Char)
  BY Zenon DEF TypeOK
<1>2. CASE values' = values
  BY <1>1, <1>2, Zenon
<1>3. CASE values' = With(values, Key, value)
  <2>1. PICK w : w = With(values, Key, value)
    BY Zenon
  <2>2. w = [k \in DOMAIN values \cup {Key} |-> IF k = Key THEN value ELSE values[k]]
    BY <2>1, Zenon DEF With
  <2>3. \A k \in DOMAIN w : k \in Seq(Char) /\ w[k] \in Seq(Char)
    BY <1>1, <2>2, Zenon
  <2> QED
    BY <1>3, <2>1, <2>3, Zenon
<1> QED
  BY <1>2, <1>3, Zenon DEF Keep

LEMMA GoOnType ==
  ASSUME TypeOK, NEW p \in 1 .. Len(text) + 1, GoOn(p),
         \A k \in DOMAIN values' : k \in Seq(Char) /\ values'[k] \in Seq(Char)
  PROVE  TypeOK'
<1>1. text' = text /\ i' = p /\ turn' = 1 - turn /\ at' = at
  BY Zenon DEF GoOn
<1>2. turn' \in {0, 1}
  BY <1>1 DEF TypeOK
<1> QED
  BY <1>1, <1>2, Zenon DEF TypeOK

LEMMA TypeStep ==
  ASSUME TypeOK, [Next]_vars
  PROVE  TypeOK'
<1>1. CASE UNCHANGED vars
  BY <1>1, Zenon DEF vars, TypeOK
<1>2. CASE Done
  BY <1>2, Zenon DEF Done, vars, TypeOK
<1>3. CASE Return
  BY <1>3, Zenon DEF Return, TypeOK
<1>4. ASSUME NEW x, NEW p \in Nat, Len(text) \in Nat, Found(x, p), 1 <= p
      PROVE  x # None => x + 1 \in 1 .. Len(text) + 1
  <2>1. SUFFICES ASSUME x \in p .. Len(text) PROVE x + 1 \in 1 .. Len(text) + 1
    BY <1>4, Zenon DEF Found
  <2> QED
    BY <1>4, <2>1
<1>5. ASSUME Value < None
      PROVE  /\ text \in Seq(Char) /\ Len(text) \in Nat /\ Value \in Nat /\ 1 <= Value /\ Value <= Len(text)
             /\ Value + 1 \in Nat /\ 1 <= Value + 1 /\ Value + 1 <= Len(text) + 1
             /\ AfterKey \in 1 .. Len(text) + 1 /\ Key \in Seq(Char)
  <2>1. /\ text \in Seq(Char) /\ Len(text) \in Nat /\ Value \in 1 .. Len(text)
        /\ AfterKey \in 1 .. Len(text) + 1 /\ Key \in Seq(Char)
    BY <1>5, TurnInText, Zenon
  <2>2. /\ Value \in Nat /\ 1 <= Value /\ Value <= Len(text)
        /\ Value + 1 \in Nat /\ 1 <= Value + 1 /\ Value + 1 <= Len(text) + 1
    BY <2>1
  <2> QED
    BY <2>1, <2>2, Zenon
(* What ends at a place that was found, or with the text, is a slice of it. *)
<1>6. ASSUME NEW x, NEW p \in Nat, text \in Seq(Char), Len(text) \in Nat, Found(x, p)
      PROVE  x - 1 \in Int /\ x - 1 <= Len(text)
  <2>1. CASE x = None
    BY <1>6, <2>1 DEF None
  <2>2. CASE x \in p .. Len(text)
    BY <1>6, <2>2
  <2> QED
    BY <1>6, <2>1, <2>2, Zenon DEF Found
<1>7. CASE ReadString
  <2>1. Value < None
    BY <1>7, Zenon DEF ReadString
  <2>2. PICK x : x = StringEnd(Value + 1)
    BY Zenon
  <2>3. Found(x, Value + 1)
    BY <1>5, <2>1, <2>2, StringEndFound, Zenon
  <2>4. Keep(Unquoted(SubSeq(text, Value + 1, x - 1))) /\ GoOn(IF x = None THEN AfterKey ELSE x + 1)
    BY <1>7, <2>2, Zenon DEF ReadString
  <2>5. SubSeq(text, Value + 1, x - 1) \in Seq(Char)
    <3>1. x - 1 \in Int /\ x - 1 <= Len(text)
      BY <1>5, <1>6, <2>1, <2>3, Zenon
    <3> QED
      BY <1>5, <2>1, <3>1, SliceType, Zenon
  <2>6. \A k \in DOMAIN values' : k \in Seq(Char) /\ values'[k] \in Seq(Char)
    BY <1>5, <2>1, <2>4, <2>5, UnquotedType, KeepType, Zenon
  <2>7. (IF x = None THEN AfterKey ELSE x + 1) \in 1 .. Len(text) + 1
    BY <1>4, <1>5, <2>1, <2>3, Zenon
  <2> QED
    BY <2>4, <2>6, <2>7, GoOnType, Zenon
<1>8. CASE SkipContainer
  <2>1. Value < None
    BY <1>8, Zenon DEF SkipContainer
  <2>2. PICK x : x = ContainerEnd(Value)
    BY Zenon
  <2>3. Found(x, Value)
    BY <1>5, <2>1, <2>2, ContainerEndFound, Zenon
  <2>4. values' = values /\ GoOn(IF x = None THEN AfterKey ELSE x + 1)
    BY <1>8, <2>2, Zenon DEF SkipContainer
  <2>5. \A k \in DOMAIN values' : k \in Seq(Char) /\ values'[k] \in Seq(Char)
    BY <2>4, Zenon DEF TypeOK
  <2>6. (IF x = None THEN AfterKey ELSE x + 1) \in 1 .. Len(text) + 1
    BY <1>4, <1>5, <2>1, <2>3, Zenon
  <2> QED
    BY <2>4, <2>5, <2>6, GoOnType, Zenon
<1>9. CASE ReadScalar
  <2>1. Value < None
    BY <1>9, Zenon DEF ReadScalar
  <2>2. PICK x : x = First(Value, {Comma, "}", Newline})
    BY Zenon
  <2>3. Found(x, Value)
    BY <1>5, <2>1, <2>2, FirstFound, Zenon
  <2>4. Keep(Trimmed(SubSeq(text, Value, x - 1))) /\ GoOn(IF x = None THEN None ELSE x + 1)
    BY <1>9, <2>2, Zenon DEF ReadScalar
  <2>5. SubSeq(text, Value, x - 1) \in Seq(Char)
    <3>1. x - 1 \in Int /\ x - 1 <= Len(text)
      BY <1>5, <1>6, <2>1, <2>3, Zenon
    <3> QED
      BY <1>5, <2>1, <3>1, SliceType, Zenon
  <2>6. \A k \in DOMAIN values' : k \in Seq(Char) /\ values'[k] \in Seq(Char)
    BY <1>5, <2>1, <2>4, <2>5, TrimmedType, KeepType, Zenon
  <2>7. (IF x = None THEN None ELSE x + 1) \in 1 .. Len(text) + 1
    <3>1. None \in 1 .. Len(text) + 1
      BY <1>5, <2>1 DEF None
    <3> QED
      BY <1>4, <1>5, <2>1, <2>3, <3>1, Zenon
  <2> QED
    BY <2>4, <2>6, <2>7, GoOnType, Zenon
<1> QED
  BY <1>1, <1>2, <1>3, <1>7, <1>8, <1>9, Zenon DEF Next, Turn

(* Keys and values are characters, and the position never runs past the text by more than one. *)
THEOREM TypeOKAlways == Spec => []TypeOK
<1>1. Init => TypeOK
  <2>1. SUFFICES ASSUME Init PROVE TypeOK
    OBVIOUS
  <2>2. TextInv /\ i = 1 /\ values = <<>> /\ turn = 0 /\ at = "reading"
    BY <2>1 DEF Init, TextInv
  <2>3. text \in Seq(Char) /\ Len(text) \in Nat
    BY <2>2, CutShown, Zenon DEF TextInv, Shown
  <2>4. i \in 1 .. Len(text) + 1 /\ turn \in {0, 1} /\ at \in {"reading", "done"}
    BY <2>2, <2>3
  <2>5. DOMAIN values = {}
    BY <2>2
  <2> QED
    BY <2>3, <2>4, <2>5, Zenon DEF TypeOK
<1>2. TypeOK /\ [Next]_vars => TypeOK'
  BY TypeStep
<1> QED
  BY <1>1, <1>2, PTL DEF Spec

-----------------------------------------------------------------------------
(* The reader advances. *)

(* Behind a member, every turn goes on: to the key's end, to the value's end, or to the *)
(* end of the text.                                                                     *)
LEMMA BehindAdvances ==
  ASSUME NEW d \in Documents, Shown(text, d), Tellable(d, text), NEW k \in 0 .. Len(d),
         Behind(d, text, i, k), Turn
  PROVE  Advances
<1>1. PICK l \in Nat : l = Len(text) /\ text \in Seq(Char)
  BY Zenon DEF Shown
<1>2. CASE Value = None
  <2>1. Return
    BY <1>1, <1>2, LastTurn, Zenon
  <2> QED
    BY <2>1, Zenon DEF Return, Advances
<1>3. CASE Value # None
  <2>1. k # Len(d)
    <3>1. k = Len(d) => KeyQuote = None
      BY NoMoreKeys, Zenon
    <3> QED
      BY <1>3, <3>1, Zenon DEF Value
  <2>2. k + 1 \in 1 .. Len(d)
    BY <2>1, MembersAre
  <2>3. PICK q, c, v \in Nat : q = KeyAt(d, k + 1) /\ c = ColonAt(d, k + 1) /\ v = ValueAt(d, k + 1)
    BY <2>2, Positions, Zenon
  <2>4. q < c /\ v = c + 2
    BY <2>2, <2>3, Positions, Zenon
  <2>5. i \in Nat /\ i <= q
    <3>1. i <= q
      BY <2>1, <2>3, KeyQuoteIs, Zenon
    <3>2. i \in 1 .. l + 1
      BY <1>1, Zenon DEF Behind
    <3> QED
      BY <3>1, <3>2
  <2>6. Value = v /\ v <= l /\ AfterKey = c
    <3>1. /\ Value = IF v <= Len(text) THEN v ELSE None
          /\ v <= Len(text) => AfterKey = c
      BY <2>1, <2>3, ValueIs
    <3> QED
      BY <1>1, <1>3, <3>1, Zenon
  <2>7. c > i /\ None > i /\ None = l + 1 /\ v > i
    BY <1>1, <2>4, <2>5, <2>6 DEF None
  <2>8. ASSUME NEW x, NEW p \in Nat, Found(x, p), v <= p, x # None PROVE x + 1 > i
    <3>1. x \in p .. l
      BY <1>1, <2>8, Zenon DEF Found
    <3> QED
      BY <2>5, <2>7, <2>8, <3>1
  <2>9. v + 1 \in Nat /\ 1 <= v + 1 /\ v + 1 <= Len(text) + 1 /\ v <= v + 1 /\ v <= v
    BY <1>1, <2>6
  <2>10. CASE Return
    BY <2>10, Zenon DEF Return, Advances
  <2>11. CASE ReadString
    <3>1. PICK x : x = StringEnd(v + 1)
      BY Zenon
    <3>2. Found(x, v + 1)
      BY <1>1, <2>9, <3>1, StringEndFound, Zenon
    <3>3. i' = IF x = None THEN c ELSE x + 1
      BY <2>6, <2>11, <3>1, Zenon DEF ReadString, GoOn
    <3>4. x # None => x + 1 > i
      BY <2>8, <2>9, <3>2, Zenon
    <3> QED
      BY <2>7, <3>3, <3>4, Zenon DEF Advances
  <2>12. CASE SkipContainer
    <3>1. PICK x : x = ContainerEnd(v)
      BY Zenon
    <3>2. Found(x, v)
      BY <1>1, <3>1, ContainerEndFound, Zenon
    <3>3. i' = IF x = None THEN c ELSE x + 1
      BY <2>6, <2>12, <3>1, Zenon DEF SkipContainer, GoOn
    <3>4. x # None => x + 1 > i
      BY <2>8, <2>9, <3>2, Zenon
    <3> QED
      BY <2>7, <3>3, <3>4, Zenon DEF Advances
  <2>13. CASE ReadScalar
    <3>1. PICK x : x = First(v, {Comma, "}", Newline})
      BY Zenon
    <3>2. Found(x, v)
      BY <1>1, <3>1, FirstFound, Zenon
    <3>3. i' = IF x = None THEN None ELSE x + 1
      BY <2>6, <2>13, <3>1, Zenon DEF ReadScalar, GoOn
    <3>4. x # None => x + 1 > i
      BY <2>8, <2>9, <3>2, Zenon
    <3> QED
      BY <2>7, <3>3, <3>4, Zenon DEF Advances
  <2> QED
    BY <2>10, <2>11, <2>12, <2>13, Zenon DEF Turn
<1> QED
  BY <1>2, <1>3

LEMMA PartAdvances ==
  ASSUME NEW d \in Documents, Shown(text, d), NEW k \in 0 .. Len(d),
         InPart(d, text, i, values, k), Turn
  PROVE  Advances
<1>1. Len(text) \in Nat
  BY Zenon DEF Shown
<1>2. i = Len(text) + 1
  BY Zenon DEF InPart
<1>3. \A j \in i .. Len(text) : FALSE
  BY <1>1, <1>2
<1>4. First(i, {Quote}) = None
  BY <1>3, FirstNone, Zenon
<1>5. Value = None
  BY <1>4, Zenon DEF Value, KeyQuote
<1>6. Return
  BY <1>1, <1>5, LastTurn, Zenon
<1> QED
  BY <1>6, Zenon DEF Return, Advances

LEMMA LoopEndsInString ==
  ASSUME NEW d \in Documents, d = doc, Shown(text, d), NEW k \in 0 .. Len(d), InLoop(d, text, i, at, k)
  PROVE  EndsInString
<1>1. k # Len(d) /\ d[k + 1].kind = "string"
  BY Zenon DEF InLoop
<1>2. k + 1 \in 1 .. Len(d) /\ k + 1 \in DOMAIN d
  BY <1>1, MembersAre, LenProperties
<1>3. PICK l \in Nat : l = Len(text)
  BY Zenon DEF Shown
<1>4. PICK kl, vl, p, q, e \in Nat : LaidOut(text, d, k + 1, kl, vl, p, q, e)
  BY <1>2, Layout, Zenon
<1>5. PICK c \in Nat, v \in Nat : c = ColonAt(d, k + 1) /\ v = ValueAt(d, k + 1)
  BY <1>2, Positions, Zenon
<1>6. c = q + kl + 2 /\ v = c + 2
  <2>1. kl = Len(d[k + 1].key) /\ q = KeyAt(d, k + 1)
    BY <1>4, Zenon DEF LaidOut
  <2> QED
    BY <1>2, <1>5, <2>1, Positions, Zenon
<1>7. e = q + kl + 3 + vl + 2
  <2>1. e = q + kl + 3 + vl + (IF d[k + 1].kind = "string" THEN 2 ELSE 0)
    BY <1>4, Zenon DEF LaidOut
  <2> QED
    BY <1>1, <2>1, Zenon
<1>8. v <= l /\ l < e /\ e = MemberEnd(d, k + 1) /\ vl = Len(d[k + 1].value)
  BY <1>3, <1>4, <1>5, Zenon DEF InLoop, LaidOut
<1>9. e - vl - 1 <= l
  <2>1. v <= l
    BY <1>8, Zenon
  <2> QED
    BY <1>6, <1>7, <2>1
<1> QED
  BY <1>1, <1>2, <1>3, <1>8, <1>9, Zenon DEF EndsInString, MemberEnd

LEMMA WholeEndsInNoString ==
  ASSUME TextInv, text = Whole(doc)
  PROVE  ~ EndsInString
<1>1. PICK d \in Documents : d = doc
  BY Zenon DEF TextInv
<1>2. DOMAIN d = 1 .. Len(d) /\ Len(d) \in Nat
  BY MembersAre, LenProperties
<1>3. ASSUME NEW n \in DOMAIN d PROVE ~ (Len(text) < Len(Joined(d, n)))
  <2>1. n \in 0 .. Len(d) /\ Len(d) \in 0 .. Len(d)
    BY <1>2
  <2>2. PICK e, f \in Nat : e = MemberEnd(d, n) /\ f = MemberEnd(d, Len(d))
    BY <2>1, EndsAre, Zenon
  <2>3. Len(text) = f + 1 /\ e <= f
    BY <1>1, <2>1, <2>2, WholeShows, Zenon
  <2>4. ~ (f + 1 < e)
    BY <2>3
  <2> QED
    BY <2>2, <2>3, <2>4, Zenon DEF MemberEnd
<1> QED
  BY <1>1, <1>3, Zenon DEF EndsInString

LEMMA AdvancingStep ==
  ASSUME TextInv, ReadInv, Next, (text = Whole(doc) /\ Plain) \/ (Flat(doc) /\ ~ EndsInString)
  PROVE  Advances \/ UNCHANGED vars
<1>1. CASE Done
  BY <1>1, Zenon DEF Done
<1>2. CASE Turn
  <2>1. PICK d \in Documents : d = doc
    BY Zenon DEF TextInv
  <2>2. Shown(text, d)
    BY <2>1, CutShown, Zenon DEF TextInv
  <2>3. Tellable(d, text)
    BY <2>1, Zenon DEF Tellable, Plain
  <2>4. ~ EndsInString
    BY WholeEndsInNoString, Zenon
  <2>5. PICK k \in 0 .. Len(d) : Along(d, text, i, values, at, k)
    BY <2>1, <2>3, Zenon DEF ReadInv
  <2>6. CASE Through(d, text, i, values, at, k)
    <3>1. Behind(d, text, i, k)
      BY <2>6, Zenon DEF Through
    <3> QED
      BY <1>2, <2>2, <2>3, <3>1, BehindAdvances, Zenon
  <2>7. CASE InPart(d, text, i, values, k)
    BY <1>2, <2>2, <2>7, PartAdvances, Zenon
  <2>8. CASE InLoop(d, text, i, at, k)
    BY <2>1, <2>2, <2>4, <2>8, LoopEndsInString, Zenon
  <2> QED
    BY <2>5, <2>6, <2>7, <2>8, Zenon DEF Along
<1> QED
  BY <1>1, <1>2, Zenon DEF Next

(* No turn leaves the position where it was, so that the reader returns: of a whole document, *)
(* and of a flat one that ends early, unless it ends in the value of a string.                *)
THEOREM EveryTurnAdvancesAlways == Spec => EveryTurnAdvances
<1>1. Init => TextInv /\ ReadInv
  BY ReadInit
<1>2. TextInv /\ ReadInv /\ [Next]_vars => (TextInv /\ ReadInv)'
  BY ReadStep
<1>3. TextInv /\ ReadInv /\ [Next]_vars
        => [(text = Whole(doc) /\ Plain) \/ (Flat(doc) /\ ~ EndsInString) => Advances]_vars
  BY AdvancingStep
<1> QED
  BY <1>1, <1>2, <1>3, PTL DEF Spec, EveryTurnAdvances
=============================================================================
