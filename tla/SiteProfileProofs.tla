-------------------------- MODULE SiteProfileProofs --------------------------
(***************************************************************************)
(* Theorems about SiteProfile, for every image, every set of executable    *)
(* segments, every built-in profile with a signature and every file.  The  *)
(* scan is a recursive function; that it finds what is there is shown by   *)
(* induction over a set of numbers, which needs no operator parameter.     *)
(***************************************************************************)
EXTENDS SiteProfile, SequenceTheorems, WellFoundedInduction, TLAPS

(* Induction, for a set of numbers instead of a predicate. *)
LEMMA Induction ==
  ASSUME NEW T, 0 \in T, \A n \in Nat : n \in T => n + 1 \in T
  PROVE  Nat \subseteq T
<1> DEFINE R == OpToRel(<, Nat)
           U == Nat \ T
<1>1. SUFFICES ASSUME U # {} PROVE FALSE
  OBVIOUS
<1>2. PICK x \in U : \A y \in U : ~ (<<y, x>> \in R)
  <2>1. U \subseteq Nat
    OBVIOUS
  <2> HIDE DEF R, U
  <2> QED
    BY <1>1, <2>1, WFMin, NatLessThanWellFounded, Zenon DEF R
<1>3. x \in Nat /\ x # 0 /\ x \notin T
  OBVIOUS
<1>4. x - 1 \in Nat /\ (x - 1) + 1 = x /\ x - 1 < x
  BY <1>3
<1>5. <<x - 1, x>> \in R
  BY <1>3, <1>4 DEF OpToRel
<1>6. x - 1 \in T
  BY <1>2, <1>4, <1>5
<1> QED
  BY <1>3, <1>4, <1>6

-----------------------------------------------------------------------------
(* What the count and the first match tell about the places there are. *)

Result == [count : 0 .. 2, first : Nat]

Tells(r, places) ==
  /\ r \in Result
  /\ r.count = 0 => places = {}
  /\ r.count = 1 => places = {r.first}

Hits(im, pattern, places) == {a \in places : MatchesAt(im, pattern, a)}

Looked(im, pattern, a, r) == IF r.count < 2 /\ MatchesAt(im, pattern, a) THEN Counted(r, a) ELSE r

LEMMA LookedTells ==
  ASSUME NEW im, NEW pattern, NEW a \in Nat, NEW r, NEW S, Tells(r, S)
  PROVE  Tells(Looked(im, pattern, a, r), S \cup Hits(im, pattern, {a}))
<1>1. r \in Result /\ r.count \in 0 .. 2 /\ r.first \in Nat
  BY DEF Tells, Result
<1>2. CASE MatchesAt(im, pattern, a) /\ r.count < 2
  <2>1. Looked(im, pattern, a, r) = [count |-> r.count + 1,
                                 first |-> IF r.count = 0 THEN a ELSE r.first]
    BY <1>2 DEF Looked, Counted
  <2>2. PICK q : q = Looked(im, pattern, a, r)
    OBVIOUS
  <2>3. /\ q \in Result /\ q.count = r.count + 1
        /\ r.count = 0 => q.first = a
    BY <1>1, <1>2, <2>1, <2>2 DEF Result
  <2>4. q.count # 0 /\ (q.count = 1 => r.count = 0)
    BY <1>1, <2>3
  <2>5. q.count = 1 => S \cup Hits(im, pattern, {a}) = {q.first}
    BY <1>2, <2>3, <2>4, Zenon DEF Tells, Hits
  <2> QED
    BY <2>2, <2>3, <2>4, <2>5, Zenon DEF Tells
<1>3. CASE MatchesAt(im, pattern, a) /\ ~ (r.count < 2)
  <2>1. Looked(im, pattern, a, r) = r
    BY <1>3, Zenon DEF Looked
  <2>2. r.count # 0 /\ r.count # 1
    BY <1>1, <1>3
  <2> QED
    BY <1>1, <2>1, <2>2, Zenon DEF Tells
<1>4. CASE ~ MatchesAt(im, pattern, a)
  <2>1. Looked(im, pattern, a, r) = r
    BY <1>4, Zenon DEF Looked
  <2>2. S \cup Hits(im, pattern, {a}) = S
    BY <1>4, Zenon DEF Hits
  <2> QED
    BY <2>1, <2>2, Zenon
<1> QED
  BY <1>2, <1>3, <1>4

(* The loop over the addresses of one segment, as the function that Scan chooses. *)
Loop(im, f, lo, hi, pattern, before) ==
  f = [a \in lo - 1 .. hi |-> IF a < lo THEN before ELSE Looked(im, pattern, a, f[a - 1])]

LEMMA LoopExists ==
  ASSUME NEW im, NEW lo \in Nat, NEW hi \in Int, lo <= hi, NEW pattern, NEW before
  PROVE  \E f : Loop(im, f, lo, hi, pattern, before)
<1> DEFINE T == {n \in Nat : \E f : Loop(im, f, lo, lo - 1 + n, pattern, before)}
<1>1. 0 \in T
  <2>1. Loop(im, [a \in lo - 1 .. lo - 1 + 0 |-> before], lo, lo - 1 + 0, pattern, before)
    <3>1. \A a \in lo - 1 .. lo - 1 + 0 : a < lo
      OBVIOUS
    <3> QED
      BY <3>1, Zenon DEF Loop
  <2> QED
    BY <2>1
<1>2. \A n \in Nat : n \in T => n + 1 \in T
  <2> SUFFICES ASSUME NEW n \in Nat, n \in T PROVE n + 1 \in T
    OBVIOUS
  <2>1. PICK f : Loop(im, f, lo, lo - 1 + n, pattern, before)
    OBVIOUS
  <2> DEFINE top == lo - 1 + (n + 1)
             g == [a \in lo - 1 .. top |-> IF a = top THEN Looked(im, pattern, a, f[a - 1]) ELSE f[a]]
  <2>2. top \in Int /\ ~ (top < lo) /\ top - 1 = lo - 1 + n /\ top - 1 \in lo - 1 .. top
    OBVIOUS
  <2>3. \A a \in lo - 1 .. top : a # top => a \in lo - 1 .. lo - 1 + n
    OBVIOUS
  <2>4. \A a \in lo - 1 .. top : ~ (a < lo) => a - 1 \in lo - 1 .. top /\ a - 1 # top
    OBVIOUS
  <2>5. \A a \in lo - 1 .. lo - 1 + n :
          f[a] = IF a < lo THEN before ELSE Looked(im, pattern, a, f[a - 1])
    BY <2>1, Zenon DEF Loop
  <2> HIDE DEF T, top
  <2>6. \A a \in lo - 1 .. top : ~ (a < lo) => g[a - 1] = f[a - 1]
    BY <2>4, Zenon
  <2>7. \A a \in lo - 1 .. top : g[a] = IF a < lo THEN before ELSE Looked(im, pattern, a, g[a - 1])
    <3> SUFFICES ASSUME NEW a \in lo - 1 .. top
                 PROVE  g[a] = IF a < lo THEN before ELSE Looked(im, pattern, a, g[a - 1])
      BY Zenon
    <3>1. CASE a = top
      BY <2>2, <2>6, <3>1, Zenon
    <3>2. CASE a # top
      BY <2>3, <2>5, <2>6, <3>2, Zenon
    <3> QED
      BY <3>1, <3>2
  <2>8. g = [a \in lo - 1 .. top |-> IF a < lo THEN before ELSE Looked(im, pattern, a, g[a - 1])]
    <3>1. g = [a \in lo - 1 .. top |-> g[a]]
      BY Zenon
    <3> HIDE DEF g
    <3> QED
      BY <2>7, <3>1, Zenon
  <2>9. Loop(im, g, lo, top, pattern, before)
    <3> HIDE DEF g
    <3> QED
      BY <2>8, Zenon DEF Loop
  <2>10. n + 1 \in Nat
    OBVIOUS
  <2> QED
    BY <2>9, <2>10, Zenon DEF T, top
<1>3. hi - lo + 1 \in T
  <2>1. hi - lo + 1 \in Nat
    OBVIOUS
  <2> HIDE DEF T
  <2> QED
    BY <1>1, <1>2, <2>1, Induction
<1>4. lo - 1 + (hi - lo + 1) = hi
  OBVIOUS
<1> QED
  BY <1>3, <1>4

LEMMA LoopTells ==
  ASSUME NEW im, NEW lo \in Nat, NEW hi \in Int, lo <= hi, NEW pattern, NEW before, NEW S,
         Tells(before, S), NEW f, Loop(im, f, lo, hi, pattern, before)
  PROVE  Tells(f[hi], S \cup Hits(im, pattern, lo .. hi))
<1> DEFINE Upto(h) == S \cup Hits(im, pattern, lo .. h)
           T == {n \in Nat : lo - 1 + n <= hi => Tells(f[lo - 1 + n], Upto(lo - 1 + n))}
<1>0. \A a \in lo - 1 .. hi : f[a] = IF a < lo THEN before ELSE Looked(im, pattern, a, f[a - 1])
  BY Zenon DEF Loop
<1>1. 0 \in T
  <2>1. lo - 1 + 0 \in lo - 1 .. hi /\ lo - 1 + 0 < lo /\ lo .. lo - 1 + 0 = {}
    OBVIOUS
  <2>2. f[lo - 1 + 0] = before
    BY <1>0, <2>1, Zenon
  <2>3. Upto(lo - 1 + 0) = S
    BY <2>1, Zenon DEF Hits
  <2>4. Tells(f[lo - 1 + 0], Upto(lo - 1 + 0))
    BY <2>2, <2>3, Zenon
  <2> HIDE DEF Upto
  <2> QED
    BY <2>4
<1>2. \A n \in Nat : n \in T => n + 1 \in T
  <2> SUFFICES ASSUME NEW n \in Nat, n \in T PROVE n + 1 \in T
    OBVIOUS
  <2>0. n + 1 \in Nat
    OBVIOUS
  <2> SUFFICES ASSUME lo - 1 + (n + 1) <= hi
               PROVE  Tells(f[lo - 1 + (n + 1)], Upto(lo - 1 + (n + 1)))
    BY <2>0, Zenon
  <2>1. PICK a \in Nat : a = lo - 1 + (n + 1)
    OBVIOUS
  <2>2. /\ a \in lo - 1 .. hi /\ ~ (a < lo) /\ a - 1 = lo - 1 + n /\ lo - 1 + n <= hi
        /\ lo .. a = (lo .. a - 1) \cup {a}
    BY <2>1
  <2>3. Tells(f[a - 1], Upto(a - 1))
    BY <2>2, Zenon
  <2>4. f[a] = Looked(im, pattern, a, f[a - 1])
    BY <1>0, <2>2, Zenon
  <2>5. Upto(a) = Upto(a - 1) \cup Hits(im, pattern, {a})
    BY <2>2, Zenon DEF Hits
  <2> HIDE DEF Upto
  <2>6. Tells(f[a], Upto(a))
    <3> HIDE DEF T
    <3>1. PICK r, U : r = f[a - 1] /\ U = Upto(a - 1)
      OBVIOUS
    <3>2. Tells(r, U)
      BY <2>3, <3>1, Zenon
    <3>3. Tells(Looked(im, pattern, a, r), U \cup Hits(im, pattern, {a}))
      BY <3>2, LookedTells
    <3> QED
      BY <2>4, <2>5, <3>1, <3>3, Zenon
  <2> QED
    BY <2>1, <2>6, Zenon
<1>3. hi - lo + 1 \in T
  <2>1. hi - lo + 1 \in Nat
    OBVIOUS
  <2> HIDE DEF T
  <2> QED
    BY <1>1, <1>2, <2>1, Induction
<1>4. lo - 1 + (hi - lo + 1) = hi /\ hi <= hi
  OBVIOUS
<1> HIDE DEF Upto
<1>5. Tells(f[hi], Upto(hi))
  BY <1>3, <1>4, Zenon
<1> QED
  BY <1>5, Zenon DEF Upto

(* Where in a segment the pattern can begin. *)
Room(span, pattern) == span.start .. span.start + span.len - Len(pattern)

LEMMA ScanTells ==
  ASSUME NEW im, NEW span \in [start : Nat, len : Nat], NEW pattern \in Pattern,
         NEW before, NEW S, Tells(before, S)
  PROVE  Tells(Scan(im, span, pattern, before), S \cup Hits(im, pattern, Room(span, pattern)))
<1> DEFINE lo == span.start
           hi == span.start + span.len - Len(pattern)
<1>1. lo \in Nat /\ hi \in Int
  <2>1. span.start \in Nat /\ span.len \in Nat
    OBVIOUS
  <2>2. Len(pattern) \in Nat
    BY LenProperties DEF Pattern
  <2> QED
    BY <2>1, <2>2
<1>2. Room(span, pattern) = lo .. hi
  BY Zenon DEF Room
<1>3. Scan(im, span, pattern, before) =
        IF hi < lo THEN before ELSE (CHOOSE f : Loop(im, f, lo, hi, pattern, before))[hi]
  BY Zenon DEF Scan, Loop, Looked
<1> HIDE DEF lo, hi
<1>4. CASE hi < lo
  <2>1. lo .. hi = {}
    BY <1>1, <1>4
  <2>2. S \cup Hits(im, pattern, lo .. hi) = S
    BY <2>1, Zenon DEF Hits
  <2> QED
    BY <1>2, <1>3, <1>4, <2>2, Zenon
<1>5. CASE ~ (hi < lo)
  <2>1. lo <= hi
    BY <1>1, <1>5
  <2>2. PICK f : f = (CHOOSE g : Loop(im, g, lo, hi, pattern, before))
    OBVIOUS
  <2>3. Loop(im, f, lo, hi, pattern, before)
    BY <1>1, <2>1, <2>2, LoopExists, Zenon
  <2>4. Tells(f[hi], S \cup Hits(im, pattern, lo .. hi))
    BY <1>1, <2>1, <2>3, LoopTells, Zenon
  <2> QED
    BY <1>2, <1>3, <1>5, <2>2, <2>4, Zenon
<1> QED
  BY <1>4, <1>5

(* The loop over the segments, as the function that ScanAll chooses. *)
Segments(im, f, n, pattern) ==
  f = [k \in 0 .. n |-> IF k = 0 THEN NoMatch ELSE Scan(im, Spans[k], pattern, f[k - 1])]

LEMMA SegmentsExist ==
  ASSUME NEW im, NEW pattern, NEW m \in Nat
  PROVE  \E f : Segments(im, f, m, pattern)
<1> DEFINE T == {n \in Nat : \E f : Segments(im, f, n, pattern)}
<1>1. 0 \in T
  <2>1. Segments(im, [k \in 0 .. 0 |-> NoMatch], 0, pattern)
    <3>1. \A k \in 0 .. 0 : k = 0
      OBVIOUS
    <3> QED
      BY <3>1, Zenon DEF Segments
  <2> QED
    BY <2>1
<1>2. \A n \in Nat : n \in T => n + 1 \in T
  <2> SUFFICES ASSUME NEW n \in Nat, n \in T PROVE n + 1 \in T
    OBVIOUS
  <2>1. PICK f : Segments(im, f, n, pattern)
    OBVIOUS
  <2>2. PICK top \in Nat : top = n + 1
    OBVIOUS
  <2> DEFINE g == [k \in 0 .. top |-> IF k = top THEN Scan(im, Spans[k], pattern, f[k - 1]) ELSE f[k]]
  <2>3. top # 0 /\ \A k \in 0 .. top : k # top => k \in 0 .. n
    BY <2>2
  <2>4. \A k \in 0 .. top : k # 0 => k - 1 \in 0 .. top /\ k - 1 # top
    BY <2>2
  <2>5. \A k \in 0 .. n : f[k] = IF k = 0 THEN NoMatch ELSE Scan(im, Spans[k], pattern, f[k - 1])
    BY <2>1, Zenon DEF Segments
  <2> HIDE DEF T
  <2>6. \A k \in 0 .. top : k # 0 => g[k - 1] = f[k - 1]
    BY <2>4, Zenon
  <2>7. \A k \in 0 .. top : g[k] = IF k = 0 THEN NoMatch ELSE Scan(im, Spans[k], pattern, g[k - 1])
    <3> SUFFICES ASSUME NEW k \in 0 .. top
                 PROVE  g[k] = IF k = 0 THEN NoMatch ELSE Scan(im, Spans[k], pattern, g[k - 1])
      BY Zenon
    <3>1. CASE k = top
      BY <2>3, <2>6, <3>1, Zenon
    <3>2. CASE k # top
      BY <2>3, <2>5, <2>6, <3>2, Zenon
    <3> QED
      BY <3>1, <3>2
  <2>8. Segments(im, g, top, pattern)
    <3>1. g = [k \in 0 .. top |-> g[k]]
      BY Zenon
    <3> HIDE DEF g
    <3> QED
      BY <2>7, <3>1, Zenon DEF Segments
  <2> QED
    BY <2>2, <2>8, Zenon DEF T
<1> HIDE DEF T
<1>3. m \in T
  BY <1>1, <1>2, Induction
<1> QED
  BY <1>3, Zenon DEF T

LEMMA ScanAllTells ==
  ASSUME NEW im, NEW pattern \in Pattern
  PROVE  Tells(ScanAll(im, pattern),
               UNION {Hits(im, pattern, Room(Spans[k], pattern)) : k \in 1 .. Len(Spans)})
<1> DEFINE Upto(n) == UNION {Hits(im, pattern, Room(Spans[k], pattern)) : k \in 1 .. n}
           f == CHOOSE f : Segments(im, f, Len(Spans), pattern)
           T == {n \in Nat : n <= Len(Spans) => Tells(f[n], Upto(n))}
<1>0. Len(Spans) \in Nat /\ \A k \in 1 .. Len(Spans) : Spans[k] \in [start : Nat, len : Nat]
  BY SiteProfileAssumption, LenProperties, ElementOfSeq
<1>1. Segments(im, f, Len(Spans), pattern)
  BY <1>0, SegmentsExist, Zenon
<1>2. ScanAll(im, pattern) = f[Len(Spans)]
  BY Zenon DEF ScanAll, Segments
<1> HIDE DEF f
<1>3. 0 \in T
  <2>1. Tells(NoMatch, {})
    BY DEF Tells, NoMatch, Result
  <2>2. 0 \in 0 .. Len(Spans) /\ 1 .. 0 = {}
    BY <1>0
  <2>3. f[0] = NoMatch
    BY <1>1, <2>2, Zenon DEF Segments
  <2>4. Upto(0) = {}
    BY <2>2, Zenon
  <2>5. Tells(f[0], Upto(0))
    BY <2>1, <2>3, <2>4, Zenon
  <2> HIDE DEF Upto
  <2> QED
    BY <2>5
<1>4. \A n \in Nat : n \in T => n + 1 \in T
  <2> SUFFICES ASSUME NEW n \in Nat, n \in T PROVE n + 1 \in T
    OBVIOUS
  <2>0. n + 1 \in Nat
    OBVIOUS
  <2> SUFFICES ASSUME n + 1 <= Len(Spans) PROVE Tells(f[n + 1], Upto(n + 1))
    BY <2>0, Zenon
  <2>1. PICK k \in Nat : k = n + 1
    OBVIOUS
  <2>2. /\ k \in 0 .. Len(Spans) /\ k \in 1 .. Len(Spans) /\ k # 0 /\ k - 1 = n
        /\ n <= Len(Spans) /\ 1 .. k = (1 .. n) \cup {k}
    BY <1>0, <2>1
  <2>3. PICK r, U : r = f[n] /\ U = Upto(n)
    OBVIOUS
  <2>4. Tells(r, U)
    BY <2>2, <2>3, Zenon
  <2>5. f[k] = Scan(im, Spans[k], pattern, r)
    BY <1>1, <2>2, <2>3, Zenon DEF Segments
  <2>6. Upto(k) = U \cup Hits(im, pattern, Room(Spans[k], pattern))
    BY <2>2, <2>3, Zenon
  <2> HIDE DEF T, Upto
  <2>7. Tells(Scan(im, Spans[k], pattern, r), U \cup Hits(im, pattern, Room(Spans[k], pattern)))
    BY <1>0, <2>2, <2>4, ScanTells, Zenon
  <2> QED
    BY <2>1, <2>5, <2>6, <2>7, Zenon
<1> HIDE DEF T
<1>5. Len(Spans) \in T
  BY <1>0, <1>3, <1>4, Induction
<1>6. Len(Spans) <= Len(Spans)
  BY <1>0
<1> HIDE DEF Upto
<1>7. Tells(f[Len(Spans)], Upto(Len(Spans)))
  BY <1>5, <1>6, Zenon DEF T
<1> QED
  BY <1>2, <1>7, Zenon DEF Upto

LEMMA Within ==
  ASSUME NEW im, NEW lo \in Nat, NEW n \in Nat, NEW l \in Nat, l # 0
  PROVE  /\ lo .. lo + n - l \subseteq lo .. lo + n - 1
         /\ l # 1 => \A a \in Nat : lo <= a /\ a + l <= lo + n => a + 1 \in lo .. lo + n - 1
OBVIOUS

LEMMA SpanIs ==
  ASSUME NEW k \in 1 .. Len(Spans)
  PROVE  /\ Spans[k] \in [start : Nat, len : Nat]
         /\ Spans[k].start .. Spans[k].start + Spans[k].len - 1 \subseteq Mapped
<1>1. Spans[k] \in [start : Nat, len : Nat]
  BY SiteProfileAssumption, ElementOfSeq
<1>2. k \in DOMAIN Spans
  BY SiteProfileAssumption, LenProperties
<1> QED
  BY <1>1, <1>2, SiteProfileAssumption, Zenon

(* The places in which a pattern is sought are the ones that look like the site. *)
LEMMA PlacesAre ==
  ASSUME NEW pattern \in Pattern, pattern # <<>>
  PROVE  Places(pattern) = UNION {Hits(image, pattern, Room(Spans[k], pattern)) : k \in 1 .. Len(Spans)}
<1> DEFINE Found == UNION {Hits(image, pattern, Room(Spans[k], pattern)) : k \in 1 .. Len(Spans)}
<1>1. DOMAIN Spans = 1 .. Len(Spans)
  BY SiteProfileAssumption, LenProperties
<1>2. PICK l \in Nat : l = Len(pattern) /\ l # 0
  BY LenProperties, EmptySeq DEF Pattern
<1>3. ASSUME NEW k \in 1 .. Len(Spans), NEW a
      PROVE  a \in Room(Spans[k], pattern) <=>
               a \in Mapped /\ Spans[k].start <= a /\ a + Len(pattern) <= Spans[k].start + Spans[k].len
  <2>1. PICK lo \in Nat, n \in Nat : lo = Spans[k].start /\ n = Spans[k].len
    <3>1. Spans[k] \in [start : Nat, len : Nat]
      BY SpanIs, Zenon
    <3> QED
      BY <3>1
  <2>2. lo .. lo + n - 1 \subseteq Mapped /\ Mapped \subseteq Nat
    <3>1. Mapped \subseteq Nat
      BY SiteProfileAssumption
    <3> QED
      BY <2>1, <3>1, SpanIs, Zenon
  <2>3. a \in lo .. lo + n - l => a \in lo .. lo + n - 1
    BY <1>2, <2>1, Within, Zenon
  <2>4. ASSUME a \in lo .. lo + n - l
        PROVE  a \in Mapped /\ lo <= a /\ a + l <= lo + n
    <3>1. lo <= a /\ a + l <= lo + n
      BY <1>2, <2>1, <2>4
    <3> QED
      BY <2>2, <2>3, <2>4, <3>1
  <2>5. ASSUME a \in Mapped, lo <= a, a + l <= lo + n
        PROVE  a \in lo .. lo + n - l
    <3>1. PICK b \in Nat : b = a
      BY <2>2, <2>5
    <3>2. b \in lo .. lo + n - l
      BY <2>5, <3>1
    <3> QED
      BY <3>1, <3>2, Zenon
  <2> QED
    BY <1>2, <2>1, <2>4, <2>5, Zenon DEF Room
<1>4. Places(pattern) =
        {a \in Mapped : /\ \E k \in 1 .. Len(Spans) : /\ Spans[k].start <= a
                                                      /\ a + Len(pattern) <= Spans[k].start + Spans[k].len
                        /\ MatchesAt(image, pattern, a)}
  BY <1>1, Zenon DEF Places
<1>5. ASSUME NEW a PROVE a \in Places(pattern) <=> a \in Found
  <2>1. a \in Found <=> \E k \in 1 .. Len(Spans) : a \in Room(Spans[k], pattern) /\ MatchesAt(image, pattern, a)
    BY DEF Hits
  <2>2. a \in Places(pattern) <=>
          /\ a \in Mapped /\ MatchesAt(image, pattern, a)
          /\ \E k \in 1 .. Len(Spans) : /\ Spans[k].start <= a
                                        /\ a + Len(pattern) <= Spans[k].start + Spans[k].len
    BY <1>4, Zenon
  <2> HIDE DEF Found
  <2> QED
    BY <1>3, <2>1, <2>2, Zenon
<1> HIDE DEF Found
<1>6. Places(pattern) = Found
  BY <1>5, Zenon
<1> QED
  BY <1>6, Zenon DEF Found

LEMMA OneIsThePlace ==
  ASSUME NEW pattern \in Pattern, pattern # <<>>, ScanAll(image, pattern).count = 1
  PROVE  /\ Places(pattern) = {ScanAll(image, pattern).first}
         /\ ScanAll(image, pattern).first \in Mapped /\ MatchesAt(image, pattern, ScanAll(image, pattern).first)
         /\ Len(pattern) # 1 => ScanAll(image, pattern).first + 1 \in Mapped
<1>1. PICK a : a = ScanAll(image, pattern).first
  OBVIOUS
<1>2. Places(pattern) = {a}
  BY <1>1, ScanAllTells, PlacesAre, Zenon DEF Tells
<1>3. a \in Places(pattern)
  BY <1>2
<1>4. a \in Mapped /\ MatchesAt(image, pattern, a)
  BY <1>3, Zenon DEF Places
<1>5. ASSUME Len(pattern) # 1 PROVE a + 1 \in Mapped
  <2>1. PICK k \in 1 .. Len(Spans) : /\ Spans[k].start <= a
                                     /\ a + Len(pattern) <= Spans[k].start + Spans[k].len
    <3>1. DOMAIN Spans = 1 .. Len(Spans)
      BY SiteProfileAssumption, LenProperties
    <3> QED
      BY <1>3, <3>1, Zenon DEF Places
  <2>2. PICK lo \in Nat, n \in Nat : lo = Spans[k].start /\ n = Spans[k].len
    <3>1. Spans[k] \in [start : Nat, len : Nat]
      BY SpanIs, Zenon
    <3> QED
      BY <3>1
  <2>3. lo .. lo + n - 1 \subseteq Mapped /\ Mapped \subseteq Nat
    <3>1. Mapped \subseteq Nat
      BY SiteProfileAssumption
    <3> QED
      BY <2>2, <3>1, SpanIs, Zenon
  <2>4. PICK l \in Nat : l = Len(pattern) /\ l # 0
    BY LenProperties, EmptySeq DEF Pattern
  <2>5. a \in Nat /\ lo <= a /\ a + l <= lo + n /\ l # 1
    <3>1. a \in Nat
      BY <1>4, <2>3
    <3> QED
      BY <1>5, <2>1, <2>2, <2>4, <3>1, Zenon
  <2>6. a + 1 \in lo .. lo + n - 1
    BY <2>4, <2>5, Within, Zenon
  <2> QED
    BY <2>3, <2>6
<1> QED
  BY <1>1, <1>2, <1>4, <1>5, Zenon

-----------------------------------------------------------------------------
(* What resolve_site can come to. *)

Crashed == [is |-> "crashed"]

Located(a) == [is |-> "located", site |-> a, helper |-> Callee(a)]

LEMMA SignatureResolves ==
  ASSUME image \in [Mapped -> Byte], NEW p \in Profile, p.site_signature # <<>>
  PROVE  \/ Resolve(p) = Refused
         \/ Resolve(p) = Crashed /\ Len(p.site_signature) = 1
         \/ \E a \in Mapped : /\ a + 1 \in Mapped /\ Places(p.site_signature) = {a}
                              /\ image[a] = Opcode /\ Resolve(p) = Located(a)
<1>1. PICK pattern \in Pattern : pattern = p.site_signature /\ pattern # <<>>
  BY DEF Profile
<1>2. PICK found : found = ScanAll(image, pattern)
  OBVIOUS
<1>3. Resolve(p) = IF found.count # 1 \/ pattern[1] # Opcode THEN Refused
                   ELSE IF found.first + 1 \notin Mapped THEN Crashed
                   ELSE Located(found.first)
  BY <1>1, <1>2, Zenon DEF Resolve, BySignature, Crashed, Located
<1>4. CASE found.count = 1 /\ pattern[1] = Opcode
  <2>1. PICK a \in Mapped : a = found.first /\ Places(pattern) = {a} /\ MatchesAt(image, pattern, a)
                            /\ (Len(pattern) # 1 => a + 1 \in Mapped)
    BY <1>1, <1>2, <1>4, OneIsThePlace, Zenon
  <2>2. image[a] = Opcode
    <3>1. PICK l \in Nat : l = Len(pattern) /\ l # 0 /\ DOMAIN pattern = 1 .. l
      BY <1>1, LenProperties, EmptySeq DEF Pattern
    <3>2. 1 \in DOMAIN pattern
      BY <3>1
    <3>3. pattern[1] # Wild
      BY <1>4, SiteProfileAssumption
    <3>4. a + 1 - 1 = a
      BY SiteProfileAssumption
    <3> QED
      BY <1>4, <2>1, <3>2, <3>3, <3>4, Zenon DEF MatchesAt
  <2> QED
    BY <1>1, <1>3, <1>4, <2>1, <2>2, Zenon
<1> QED
  BY <1>3, <1>4, Zenon

LEMMA AddressResolves ==
  ASSUME NEW p \in Profile, p.site_signature = <<>>
  PROVE  \/ Resolve(p) = Refused \/ Resolve(p) = Crashed
         \/ /\ SizeFits(p) /\ Readable(p, p.site_rva) /\ BytesFit(p, p.site_rva)
            /\ p.helper_rva # 0
            /\ Resolve(p) = [is |-> "pinned", site |-> p.site_rva, helper |-> p.helper_rva]
BY Zenon DEF Resolve, ByAddress, Crashed

LEMMA AddressAccepts ==
  ASSUME NEW p \in Profile, p.site_signature = <<>>,
         SizeFits(p), Readable(p, p.site_rva), BytesFit(p, p.site_rva), p.helper_rva # 0
  PROVE  Resolve(p) = [is |-> "pinned", site |-> p.site_rva, helper |-> p.helper_rva]
BY Zenon DEF Resolve, ByAddress

LEMMA CalleeIs ==
  ASSUME image \in [Mapped -> Byte], NEW a \in Mapped, a + 1 \in Mapped
  PROVE  Callee(a) \in Nat \ {0}
<1>1. a \in Nat /\ image[a + 1] \in Nat
  BY SiteProfileAssumption
<1> QED
  BY <1>1 DEF Callee

-----------------------------------------------------------------------------
(* The profile that load_profile makes. *)

LEMMA GivenIs ==
  ASSUME NEW f \in File
  PROVE  /\ Given(f, "executable_size") \in Nat /\ Given(f, "site_rva") \in Nat
         /\ Given(f, "helper_rva") \in Nat /\ Given(f, "expected_site_bytes") \in Seq(Byte)
         /\ Given(f, "site_signature") \in Pattern
<1>1. /\ builtin.executable_size \in Nat /\ builtin.site_rva \in Nat
      /\ builtin.helper_rva \in Nat /\ builtin.expected_site_bytes \in Seq(Byte)
      /\ builtin.site_signature \in Pattern
  BY SiteProfileAssumption DEF Profile
<1>2. /\ f.executable_size \in OrNot(Nat) /\ f.site_rva \in OrNot(Nat)
      /\ f.helper_rva \in OrNot(Nat)
      /\ f.expected_site_bytes \in OrNot(Seq(Byte) \ {<<>>})
      /\ f.site_signature \in OrNot(Pattern \ {<<>>})
  BY DEF File
<1> QED
  BY <1>1, <1>2, Zenon DEF Given, OrNot

LEMMA MergedIs ==
  ASSUME NEW f \in File
  PROVE  /\ Merged(f) \in Profile
         /\ Merged(f).site_signature =
              IF f.site_rva # Absent /\ f.site_signature = Absent THEN <<>>
              ELSE Given(f, "site_signature")
<1>1. DOMAIN builtin = {"executable_size", "site_rva", "helper_rva",
                        "expected_site_bytes", "site_signature"}
  BY SiteProfileAssumption DEF Profile
<1>2. PICK m : m = Merged(f)
  OBVIOUS
<1>3. /\ m.executable_size = Given(f, "executable_size")
      /\ m.expected_site_bytes = Given(f, "expected_site_bytes")
      /\ m.site_rva = IF f.site_signature # Absent /\ f.site_rva = Absent THEN 0
                      ELSE Given(f, "site_rva")
      /\ m.helper_rva = IF f.site_signature # Absent /\ f.site_rva = Absent THEN 0
                        ELSE Given(f, "helper_rva")
      /\ m.site_signature = IF f.site_rva # Absent /\ f.site_signature = Absent THEN <<>>
                            ELSE Given(f, "site_signature")
  BY <1>1, <1>2 DEF Merged
<1>4. m = [executable_size |-> m.executable_size, site_rva |-> m.site_rva,
           helper_rva |-> m.helper_rva, expected_site_bytes |-> m.expected_site_bytes,
           site_signature |-> m.site_signature]
  BY <1>1, <1>2 DEF Merged
<1>5. 0 \in Nat /\ <<>> \in Pattern
  BY DEF Pattern
<1>6. /\ m.executable_size \in Nat /\ m.site_rva \in Nat /\ m.helper_rva \in Nat
      /\ m.expected_site_bytes \in Seq(Byte) /\ m.site_signature \in Pattern
  BY <1>3, <1>5, GivenIs, Zenon
<1>7. m \in Profile
  BY <1>4, <1>6 DEF Profile
<1> QED
  BY <1>2, <1>3, <1>7, Zenon

(* Without a signature there is only the way that the file asked for. *)
LEMMA NoSignatureMeansPinned ==
  ASSUME NEW f \in File, Loads(f), Merged(f).site_signature = <<>>
  PROVE  /\ f.site_rva # Absent /\ f.site_signature = Absent
         /\ Merged(f).expected_site_bytes # <<>>
<1>1. f.site_signature # Garbled /\ NamesASite(Merged(f))
  BY Zenon DEF Loads
<1>2. f.site_signature \in OrNot(Pattern \ {<<>>}) /\ builtin.site_signature # <<>>
  BY SiteProfileAssumption DEF File
<1>3. Given(f, "site_signature") # <<>>
  <2>1. f.site_signature = f["site_signature"] /\ builtin.site_signature = builtin["site_signature"]
    OBVIOUS
  <2> QED
    BY <1>1, <1>2, <2>1, Zenon DEF Given, OrNot
<1>4. f.site_rva # Absent /\ f.site_signature = Absent
  BY <1>3, MergedIs, Zenon
<1> QED
  BY <1>1, <1>4, Zenon DEF NamesASite

-----------------------------------------------------------------------------
(* The inductive invariant: how far xf_self_check has come, and with which profile. *)

Stages ==
  \/ verdict = Unchecked /\ profile = builtin
  \/ verdict = [is |-> "loaded"] /\ Loads(file) /\ profile = Merged(file)
  \/ verdict = Refused /\ ~Loads(file) /\ profile = builtin
  \/ Loads(file) /\ profile = Merged(file) /\ verdict = Resolve(profile)

StageInv ==
  /\ image \in [Mapped -> Byte] /\ size \in Nat \ {0} /\ file \in Files
  /\ Stages

LEMMA StageInit == Init => StageInv
BY SiteProfileAssumption DEF Init, StageInv, Stages

LEMMA StageStep == StageInv /\ [Next]_vars => StageInv'
<1> SUFFICES ASSUME StageInv, [Next]_vars PROVE StageInv'
  OBVIOUS
<1>1. UNCHANGED <<image, size, file>>
  BY Zenon DEF Next, LoadProfile, ResolveSite, vars
<1>2. (image \in [Mapped -> Byte] /\ size \in Nat \ {0} /\ file \in Files)'
  BY <1>1, Zenon DEF StageInv
<1>3. CASE LoadProfile
  <2>1. (Loads(file) <=> Loads(file)') /\ Merged(file)' = Merged(file)
    BY <1>1, Zenon DEF Loads, Merged, Given, NamesASite
  <2>2. profile = builtin
    <3>1. verdict.is = "unchecked"
      BY <1>3 DEF LoadProfile, Unchecked
    <3>2. verdict = [is |-> "loaded"] => verdict.is = "loaded"
      OBVIOUS
    <3>3. profile = builtin \/ (Loads(file) /\ profile = Merged(file) /\ verdict = Resolve(profile))
      BY <3>1, <3>2, Zenon DEF StageInv, Stages
    <3>4. Loads(file) /\ profile = Merged(file) /\ verdict = Resolve(profile) => FALSE
      BY <3>1 DEF Resolve, BySignature, ByAddress, Refused
    <3> QED
      BY <3>3, <3>4, Zenon
  <2> QED
    BY <1>1, <1>2, <1>3, <2>1, <2>2, Zenon DEF LoadProfile, StageInv, Stages
<1>4. CASE ResolveSite
  <2>1. verdict.is = "loaded" /\ verdict' = Resolve(profile) /\ UNCHANGED profile
    BY <1>4, Zenon DEF ResolveSite
  <2>2. Loads(file) /\ profile = Merged(file)
    BY <2>1 DEF StageInv, Stages, Unchecked, Refused
  <2>3. Resolve(profile)' = Resolve(profile)
    BY <1>1, <2>1, Zenon DEF Resolve, BySignature, ByAddress, Callee,
       SizeFits, Readable, BytesFit
  <2>4. Loads(file)' /\ Merged(file)' = Merged(file)
    BY <1>1, <2>2, Zenon DEF Loads, Merged, Given, NamesASite
  <2> QED
    BY <1>2, <2>1, <2>2, <2>3, <2>4, Zenon DEF StageInv, Stages
<1>5. CASE UNCHANGED vars
  <2>1. UNCHANGED <<image, size, file, profile, verdict>>
    BY <1>5, Zenon DEF vars
  <2>2. Resolve(profile)' = Resolve(profile)
    BY <2>1, Zenon DEF Resolve, BySignature, ByAddress, Callee,
       SizeFits, Readable, BytesFit
  <2> QED
    BY <1>2, <2>1, <2>2, Zenon DEF StageInv, Stages, Loads, Merged, Given, NamesASite
<1> QED
  BY <1>3, <1>4, <1>5, Zenon DEF Next

LEMMA StageAlways == Spec => []StageInv
BY StageInit, StageStep, PTL DEF Spec

(* Everything that the properties ask, from the stage that was reached. *)

LEMMA StageTypes == StageInv => TypeOK
<1> SUFFICES ASSUME StageInv PROVE TypeOK
  OBVIOUS
<1>1. image \in [Mapped -> Byte] /\ size \in Nat \ {0} /\ file \in Files /\ file \in File
  BY SiteProfileAssumption DEF StageInv
<1>2. profile \in Profile
  BY <1>1, MergedIs, SiteProfileAssumption, Zenon DEF StageInv, Stages
<1>3. /\ verdict.is \in {"unchecked", "loaded", "refused", "crashed", "located", "pinned"}
      /\ Accepted => verdict.site \in Mapped /\ verdict.helper \in Nat \ {0}
  <2>1. CASE verdict \in {Unchecked, [is |-> "loaded"], Refused, Crashed}
    BY <2>1 DEF Unchecked, Refused, Crashed, Accepted
  <2>2. CASE Loads(file) /\ profile = Merged(file) /\ verdict = Resolve(profile)
    <3>1. CASE profile.site_signature = <<>>
      <4>1. Resolve(profile) = Refused \/ Resolve(profile) = Crashed \/
              /\ Readable(profile, profile.site_rva) /\ profile.helper_rva # 0
              /\ Resolve(profile) = [is |-> "pinned", site |-> profile.site_rva,
                                     helper |-> profile.helper_rva]
        BY <1>2, <3>1, AddressResolves, Zenon
      <4>2. ASSUME Readable(profile, profile.site_rva) PROVE profile.site_rva \in Mapped
        <5>1. profile.expected_site_bytes # <<>>
          BY <1>1, <2>2, <3>1, NoSignatureMeansPinned, Zenon
        <5>2. PICK bytes \in Seq(Byte) : bytes = profile.expected_site_bytes /\ bytes # <<>>
          BY <1>2, <5>1 DEF Profile
        <5>3. PICK l \in Nat : l # 0 /\ DOMAIN bytes = 1 .. l
          BY <5>2, LenProperties, EmptySeq
        <5>4. 1 \in DOMAIN bytes
          BY <5>3
        <5>5. profile.site_rva \in Nat
          BY <1>2 DEF Profile
        <5>6. profile.site_rva + 1 - 1 = profile.site_rva
          BY <5>5
        <5> QED
          BY <4>2, <5>2, <5>4, <5>6, Zenon DEF Readable
      <4>3. profile.helper_rva \in Nat
        BY <1>2 DEF Profile
      <4> QED
        BY <2>1, <2>2, <4>1, <4>2, <4>3 DEF Accepted
    <3>2. CASE profile.site_signature # <<>>
      <4>1. Resolve(profile) = Refused \/ Resolve(profile) = Crashed \/
              \E a \in Mapped : a + 1 \in Mapped /\ Resolve(profile) = Located(a)
        BY <1>1, <1>2, <3>2, SignatureResolves, Zenon
      <4>2. ASSUME NEW a \in Mapped, a + 1 \in Mapped, Resolve(profile) = Located(a)
            PROVE  verdict.is = "located" /\ verdict.site \in Mapped /\ verdict.helper \in Nat \ {0}
        <5>1. Callee(a) \in Nat \ {0}
          BY <1>1, <4>2, CalleeIs, Zenon
        <5> QED
          BY <2>2, <4>2, <5>1 DEF Located
      <4> QED
        BY <2>1, <2>2, <4>1, <4>2, Zenon
    <3> QED
      BY <3>1, <3>2
  <2> QED
    BY <2>1, <2>2, Zenon DEF StageInv, Stages
<1> QED
  BY <1>1, <1>2, <1>3, Zenon DEF TypeOK

LEMMA StageLocates == StageInv => LocatedIsUnique /\ LocatedReissues /\ PinnedIsExact
<1> SUFFICES ASSUME StageInv PROVE LocatedIsUnique /\ LocatedReissues /\ PinnedIsExact
  OBVIOUS
<1>1. TypeOK /\ file \in File
  BY StageTypes, SiteProfileAssumption DEF StageInv
<1>2. CASE verdict.is \in {"unchecked", "loaded", "refused"} /\ ~Loads(file)
  BY <1>2 DEF LocatedIsUnique, LocatedReissues, PinnedIsExact
<1>3. CASE verdict.is \in {"unchecked", "loaded"}
  BY <1>3 DEF LocatedIsUnique, LocatedReissues, PinnedIsExact
<1>4. CASE Loads(file) /\ profile = Merged(file) /\ verdict = Resolve(profile)
  <2>1. image \in [Mapped -> Byte] /\ profile \in Profile
    BY <1>1, Zenon DEF TypeOK
  <2>2. CASE profile.site_signature # <<>>
    <3>1. \/ verdict = Refused
          \/ verdict = Crashed /\ Len(profile.site_signature) = 1
          \/ \E a \in Mapped : /\ a + 1 \in Mapped /\ Places(profile.site_signature) = {a}
                               /\ image[a] = Opcode /\ verdict = Located(a)
      BY <1>4, <2>1, <2>2, SignatureResolves, Zenon
    <3>2. CASE verdict = Refused \/ (verdict = Crashed /\ Len(profile.site_signature) = 1)
      <4>1. /\ verdict.is = "refused" \/ Len(profile.site_signature) = 1
            /\ verdict.is # "located" /\ verdict.is # "pinned"
        BY <3>2 DEF Refused, Crashed
      <4> QED
        BY <4>1 DEF LocatedIsUnique, LocatedReissues, PinnedIsExact
    <3>3. ASSUME NEW a \in Mapped, Places(profile.site_signature) = {a}, image[a] = Opcode,
                 verdict = Located(a)
          PROVE  LocatedIsUnique /\ LocatedReissues /\ PinnedIsExact
      <4>1. verdict.is = "located" /\ verdict.site = a /\ verdict.helper = Callee(a)
        BY <3>3 DEF Located
      <4> QED
        BY <3>3, <4>1 DEF LocatedIsUnique, LocatedReissues, PinnedIsExact
    <3> QED
      BY <3>1, <3>2, <3>3, Zenon
  <2>3. CASE profile.site_signature = <<>>
    <3>1. \/ verdict = Refused \/ verdict = Crashed
          \/ /\ SizeFits(profile) /\ BytesFit(profile, profile.site_rva)
             /\ verdict = [is |-> "pinned", site |-> profile.site_rva,
                           helper |-> profile.helper_rva]
      BY <1>4, <2>1, <2>3, AddressResolves, Zenon
    <3>2. file.site_rva # Absent /\ file.site_signature = Absent
      BY <1>1, <1>4, <2>3, NoSignatureMeansPinned, Zenon
    <3>3. CASE verdict = Refused \/ verdict = Crashed
      BY <2>3, <3>3 DEF LocatedIsUnique, LocatedReissues, PinnedIsExact, Refused, Crashed
    <3>4. CASE /\ SizeFits(profile) /\ BytesFit(profile, profile.site_rva)
               /\ verdict = [is |-> "pinned", site |-> profile.site_rva,
                             helper |-> profile.helper_rva]
      <4>1. verdict.is = "pinned" /\ verdict.site = profile.site_rva
        BY <3>4
      <4> QED
        BY <2>3, <3>2, <3>4, <4>1 DEF LocatedIsUnique, LocatedReissues, PinnedIsExact
    <3> QED
      BY <3>1, <3>3, <3>4, Zenon
  <2> QED
    BY <2>2, <2>3
<1>5. Stages
  BY DEF StageInv
<1>6. Unchecked.is = "unchecked" /\ [is |-> "loaded"].is = "loaded" /\ Refused.is = "refused"
  BY DEF Unchecked, Refused
<1> QED
  BY <1>2, <1>3, <1>4, <1>5, <1>6, Zenon DEF Stages

(* What the tool accepts, resolve_site accepts; the tool asks for more. *)
LEMMA AdoptedIs ==
  ASSUME NEW p \in Profile, p.site_signature # <<>>, Locates(p)
  PROVE  AdoptsSite(p).site_rva = ScanAll(image, p.site_signature).first
<1>1. /\ p = [executable_size |-> p.executable_size, site_rva |-> p.site_rva,
              helper_rva |-> p.helper_rva, expected_site_bytes |-> p.expected_site_bytes,
              site_signature |-> p.site_signature]
  BY DEF Profile
<1>2. PICK found : found = ScanAll(image, p.site_signature)
  OBVIOUS
<1>3. AdoptsSite(p) = [p EXCEPT !.site_rva = found.first, !.helper_rva = Callee(found.first)]
  BY <1>2, Zenon DEF AdoptsSite
<1>4. "site_rva" \in DOMAIN p
  BY <1>1
<1>5. AdoptsSite(p).site_rva = found.first
  BY <1>3, <1>4
<1> QED
  BY <1>2, <1>5, Zenon

LEMMA StageAccepts == StageInv => ValidIsAccepted
<1> SUFFICES ASSUME StageInv, verdict.is \notin {"unchecked", "loaded"}, Loads(file),
                    ToolSaysValid(profile)
             PROVE  \/ /\ Accepted /\ verdict.site = AdoptsSite(profile).site_rva
                       /\ verdict.helper = Callee(verdict.site)
                    \/ profile.site_signature # <<>> /\ profile.site_signature[1] # Opcode
  BY Zenon DEF ValidIsAccepted
<1>1. verdict = Resolve(profile) /\ profile \in Profile /\ image \in [Mapped -> Byte]
  <2>1. Unchecked.is = "unchecked" /\ [is |-> "loaded"].is = "loaded"
    BY DEF Unchecked
  <2>2. TypeOK
    BY StageTypes
  <2> QED
    BY <2>1, <2>2, Zenon DEF StageInv, Stages, TypeOK
<1>2. CASE profile.site_signature # <<>> /\ profile.site_signature[1] = Opcode
  <2>1. Locates(profile)
    BY <1>2, Zenon DEF ToolSaysValid
  <2>2. PICK a : a = ScanAll(image, profile.site_signature).first
    OBVIOUS
  <2>3. verdict = Located(a)
    BY <1>1, <1>2, <2>1, <2>2, Zenon DEF Locates, Resolve, BySignature, Located
  <2>4. AdoptsSite(profile).site_rva = a
    BY <1>1, <1>2, <2>1, <2>2, AdoptedIs, Zenon
  <2>5. verdict.is = "located" /\ verdict.site = a /\ verdict.helper = Callee(a)
    BY <2>3 DEF Located
  <2> QED
    BY <2>4, <2>5 DEF Accepted
<1>3. CASE profile.site_signature = <<>>
  <2>1. AdoptsSite(profile) = profile
    BY <1>3, Zenon DEF AdoptsSite
  <2>2. /\ SizeFits(profile) /\ Readable(profile, profile.site_rva)
        /\ BytesFit(profile, profile.site_rva) /\ profile.site_rva \in Mapped
        /\ profile.site_rva + 1 \in Mapped /\ profile.helper_rva = Callee(profile.site_rva)
    BY <2>1, Zenon DEF ToolSaysValid
  <2>3. profile.helper_rva # 0
    BY <1>1, <2>2, CalleeIs
  <2>4. verdict = [is |-> "pinned", site |-> profile.site_rva, helper |-> profile.helper_rva]
    BY <1>1, <1>3, <2>2, <2>3, AddressAccepts, Zenon
  <2>5. verdict.is = "pinned" /\ verdict.site = profile.site_rva
        /\ verdict.helper = profile.helper_rva
    BY <2>4
  <2> QED
    BY <2>1, <2>2, <2>5 DEF Accepted
<1> QED
  BY <1>2, <1>3, Zenon

-----------------------------------------------------------------------------
(* load_profile hands on a profile without a value that did not parse, and an accepted *)
(* site is mapped and has a helper, for any image, segments and profile file.          *)
THEOREM ProfileTypeCorrect == Spec => []TypeOK
BY StageAlways, StageTypes, PTL

(* resolve_site accepts a signature only if it matches in exactly one place of all the *)
(* executable segments of any image, at their edges as well, and then takes that place.*)
THEOREM ProfileLocatedIsUnique == Spec => []LocatedIsUnique
BY StageAlways, StageLocates, PTL

(* At a site that its signature located there is a call, and the helper that the relay *)
(* re-issues is the one it calls, whatever helper_rva the profile carries.             *)
THEOREM ProfileLocatedReissues == Spec => []LocatedReissues
BY StageAlways, StageLocates, PTL

(* A site is taken by its address only on the word of the file, in an executable of    *)
(* the profile's size, at the profile's bytes.                                         *)
THEOREM ProfilePinnedIsExact == Spec => []PinnedIsExact
BY StageAlways, StageLocates, PTL

(* A profile that xuidforward-verify calls valid is accepted by the plugin, at the     *)
(* tool's site and with the tool's helper, unless its signature begins with something  *)
(* else than the call.                                                                 *)
THEOREM ProfileValidIsAccepted == Spec => []ValidIsAccepted
BY StageAlways, StageAccepts, PTL

=============================================================================
