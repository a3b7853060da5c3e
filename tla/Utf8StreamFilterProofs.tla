----------------------- MODULE Utf8StreamFilterProofs -----------------------
(***************************************************************************)
(* What the filter of an exec's output does to any bytes, cut into chunks  *)
(* in any way.  The theorems are stated of OutputText, which runs it.      *)
(***************************************************************************)
EXTENDS Utf8StreamFilter, FiniteSetTheorems, FunctionTheorems, SequenceTheorems,
        WellFoundedInduction, TLAPS

-----------------------------------------------------------------------------
(***************************************************************************)
(* Numbers, and functions defined by recursion.                            *)
(***************************************************************************)
LEMMA LeastNumber ==
  ASSUME NEW T, T \subseteq Nat, T # {}
  PROVE  \E x \in T : \A y \in T : x <= y
<1> DEFINE D == {0 .. x : x \in T}
           R == StrictSubsetOrdering(Nat)
<1>1. D \subseteq FiniteSubsetsOf(Nat) /\ D # {}
  <2>1. ASSUME NEW x \in T PROVE 0 .. x \in FiniteSubsetsOf(Nat)
    <3>1. x \in Int /\ 0 \in Int /\ 0 .. x \in SUBSET Nat
      OBVIOUS
    <3> QED BY <3>1, FS_Interval DEF FiniteSubsetsOf
  <2> QED BY <2>1
<1>2. IsWellFoundedOn(R, FiniteSubsetsOf(Nat))
  BY FS_StrictSubsetOrderingWellFounded
<1>3. PICK d \in D : \A e \in D : <<e, d>> \notin R
  BY <1>1, <1>2, WFMin
<1>4. PICK x \in T : d = 0 .. x
  OBVIOUS
<1>5. ASSUME NEW y \in T, ~(x <= y) PROVE FALSE
  <2>1. 0 .. y \in SUBSET Nat /\ 0 .. x \in SUBSET Nat /\ 0 .. y \subseteq 0 .. x
    BY <1>5
  <2>2. x \in 0 .. x /\ x \notin 0 .. y
    BY <1>5
  <2>3. <<0 .. y, 0 .. x>> \in R
    BY <2>1, <2>2 DEF StrictSubsetOrdering
  <2> QED BY <1>3, <1>4, <2>3
<1> QED BY <1>5

\* What holds of each number of which it holds of all the larger ones, up to n, holds
\* of all of them.
LEMMA Downward ==
  ASSUME NEW n \in Nat, NEW S,
         \A i \in 1 .. n : (\A j \in i + 1 .. n : j \in S) => i \in S
  PROVE  1 .. n \subseteq S
<1> SUFFICES ASSUME ~(1 .. n \subseteq S) PROVE FALSE
  OBVIOUS
<1> DEFINE T == {n - i : i \in 1 .. n \ S}
<1>1. T \subseteq Nat /\ T # {}
  OBVIOUS
<1>2. PICK x \in T : \A y \in T : x <= y
  BY <1>1, LeastNumber
<1>3. PICK i \in 1 .. n \ S : x = n - i
  OBVIOUS
<1>4. ASSUME NEW j \in i + 1 .. n, j \notin S PROVE FALSE
  <2>1. j \in 1 .. n \ S
    BY <1>4
  <2>2. n - j \in T
    BY <2>1
  <2>3. n - i <= n - j
    <3> HIDE DEF T
    <3> QED BY <1>2, <1>3, <2>2
  <2> QED BY <2>3
<1> QED BY <1>3, <1>4

\* Going upwards, each entry is given or puts something in front of a later one.
Climbs(n, skip) == \A i \in 1 .. n : skip[i] = 0 \/ skip[i] \in i + 1 .. n

Solvable(n, skip, prefix, final) ==
    \E T, f : /\ f \in [1 .. n -> T]
             /\ \A i \in 1 .. n :
                   f[i] = IF skip[i] = 0 THEN final[i] ELSE Before(prefix[i], f[skip[i]])

LEMMA Recursion ==
  ASSUME NEW n \in Nat, NEW skip, NEW prefix, NEW final, Climbs(n, skip)
  PROVE  Solvable(n, skip, prefix, final)
<1> USE DEF Climbs
<1> DEFINE Entry(f, i) == IF skip[i] = 0 THEN final[i] ELSE Before(prefix[i], f[skip[i]])
           S == {i \in 1 .. n : \E f : \A k \in i .. n : f[k] = Entry(f, k)}
<1>1. ASSUME NEW i \in 1 .. n, \A j \in i + 1 .. n : j \in S
      PROVE  i \in S
  <2>1. PICK f : \A k \in i + 1 .. n : f[k] = Entry(f, k)
    <3>1. CASE i = n
      BY <3>1
    <3>2. CASE i # n
      <4>1. i + 1 \in i + 1 .. n
        BY <3>2
      <4>2. i + 1 \in S
        BY <1>1, <4>1
      <4> QED BY <4>2
    <3> QED BY <3>1, <3>2
  <2> DEFINE g == [k \in 1 .. n |-> IF k = i THEN Entry(f, i) ELSE f[k]]
  <2>2. ASSUME NEW k \in i .. n PROVE g[k] = Entry(g, k)
    <3>1. k \in 1 .. n /\ (skip[k] = 0 \/ (skip[k] \in 1 .. n /\ skip[k] # i))
      OBVIOUS
    <3>2. Entry(g, k) = Entry(f, k)
      BY <3>1
    <3>3. CASE k = i
      BY <3>1, <3>2, <3>3
    <3>4. CASE k # i
      <4>1. k \in i + 1 .. n
        BY <3>4
      <4>2. f[k] = Entry(f, k)
        BY <2>1, <4>1
      <4> QED BY <3>1, <3>2, <3>4, <4>2
    <3> QED BY <3>3, <3>4
  <2> HIDE DEF g, Entry
  <2>3. \E h : \A k \in i .. n : h[k] = Entry(h, k)
    BY <2>2
  <2> QED BY <2>3
<1>2. 1 .. n \subseteq S
  <2> HIDE DEF S
  <2> QED BY <1>1, Downward
<1>3. PICK f : \A k \in 1 .. n : f[k] = Entry(f, k)
  <2>1. CASE n = 0
    BY <2>1
  <2>2. CASE n # 0
    <3>1. 1 \in 1 .. n
      BY <2>2
    <3>2. 1 \in S
      BY <1>2, <3>1
    <3> QED BY <3>2
  <2> QED BY <2>1, <2>2
<1> DEFINE g == [k \in 1 .. n |-> f[k]]
<1>4. ASSUME NEW k \in 1 .. n PROVE g[k] = Entry(g, k)
  <2>1. skip[k] = 0 \/ skip[k] \in 1 .. n
    OBVIOUS
  <2>2. Entry(g, k) = Entry(f, k)
    BY <2>1
  <2> QED BY <1>3, <2>2
<1>5. g \in [1 .. n -> {f[k] : k \in 1 .. n}]
  OBVIOUS
<1> HIDE DEF g
<1> QED BY <1>4, <1>5 DEF Solvable

-----------------------------------------------------------------------------
(***************************************************************************)
(* Bytes and text.                                                         *)
(***************************************************************************)
Output == Bytes \cup {Placeholder}

LEMMA WidthOf ==
  /\ \A b \in Bytes : Widths[b] \in 0 .. 4
  /\ Widths["cont"] = 0
  /\ Placeholder \notin Bytes
<1>1. \A b \in DOMAIN Widths : Widths[b] \in 0 .. 4
  BY DEF Widths
<1>2. Widths["cont"] = 0
  BY DEF Widths
<1>3. Placeholder \notin DOMAIN Widths
  BY DEF Widths, Placeholder
<1> QED BY <1>1, <1>2, <1>3, FilterAssumption DEF FilterAssumption

LEMMA WidthOfRune ==
  ASSUME NEW s \in Seq(Bytes), NEW i \in 1 .. Len(s)
  PROVE  /\ RuneWidth(s, i) \in 0 .. 4 /\ RuneWidth(s, i) <= Len(s) + 1 - i
         /\ RuneWidth(s, i) > 0 =>
              /\ RuneWidth(s, i) = Widths[s[i]]
              /\ \A k \in i + 1 .. i + RuneWidth(s, i) - 1 : s[k] = "cont"
         /\ Widths[s[i]] = 1 => RuneWidth(s, i) = 1
         /\ i + RuneWidth(s, i) \in i .. Len(s) + 1
<1>1. s[i] \in Bytes /\ Widths[s[i]] \in 0 .. 4
  BY WidthOf
<1> QED BY <1>1 DEF RuneWidth

\* What follows text is text if it is so by itself.
LEMMA TextConcat ==
  ASSUME NEW a \in Seq(Output), NEW b \in Seq(Output), Text(a, FALSE), Text(b, FALSE)
  PROVE  Text(a \o b, FALSE)
<1> DEFINE s == a \o b
<1>1. /\ Len(s) = Len(a) + Len(b) /\ DOMAIN s = 1 .. Len(s) /\ Len(a) \in Nat /\ Len(b) \in Nat
      /\ \A i \in 1 .. Len(a) : s[i] = a[i]
      /\ \A i \in 1 .. Len(b) : s[Len(a) + i] = b[i]
      /\ DOMAIN a = 1 .. Len(a) /\ DOMAIN b = 1 .. Len(b)
  OBVIOUS
<1>2. \A c \in Output : c # Placeholder => Widths[c] \in 0 .. 4
  BY WidthOf DEF Output
<1> HIDE DEF s
<1>3. ASSUME NEW j \in 1 .. Len(a), Whole(a, j, FALSE) PROVE Whole(s, j, FALSE)
  <2>1. a[j] \in Output
    OBVIOUS
  <2>2. \A k \in j + 1 .. j + Widths[a[j]] - 1 : k \in 1 .. Len(a) /\ a[k] = "cont"
    BY <1>2, <1>3, <2>1 DEF Whole
  <2> QED BY <1>1, <1>3, <2>2 DEF Whole
<1>4. ASSUME NEW j \in 1 .. Len(b), Whole(b, j, FALSE) PROVE Whole(s, Len(a) + j, FALSE)
  <2>1. b[j] \in Output /\ s[Len(a) + j] = b[j]
    BY <1>1
  <2>2. Widths[b[j]] \in 0 .. 4
    BY <1>2, <1>4, <2>1 DEF Whole
  <2>3. ASSUME NEW k \in Len(a) + j + 1 .. Len(a) + j + Widths[b[j]] - 1
        PROVE  k <= Len(s) /\ s[k] = "cont"
    <3>1. k - Len(a) \in j + 1 .. j + Widths[b[j]] - 1
      BY <1>1, <2>2
    <3>2. k - Len(a) <= Len(b) /\ b[k - Len(a)] = "cont"
      BY <1>4, <3>1 DEF Whole
    <3>3. k - Len(a) \in 1 .. Len(b) /\ k = Len(a) + (k - Len(a))
      BY <1>1, <3>1, <3>2
    <3> QED BY <1>1, <3>2, <3>3
  <2> QED BY <1>4, <2>1, <2>3 DEF Whole
<1>5. ASSUME NEW i \in 1 .. Len(s), s[i] # Placeholder
      PROVE  \E j \in 1 .. i : Whole(s, j, FALSE) /\ i < j + Widths[s[j]]
  <2>1. CASE i <= Len(a)
    <3>1. i \in 1 .. Len(a) /\ a[i] # Placeholder
      BY <1>1, <1>5, <2>1
    <3>2. PICK j \in 1 .. i : Whole(a, j, FALSE) /\ i < j + Widths[a[j]]
      BY <1>1, <3>1 DEF Text
    <3>3. j \in 1 .. Len(a)
      BY <3>1
    <3> QED BY <1>1, <1>3, <3>2, <3>3
  <2>2. CASE i > Len(a)
    <3>1. i - Len(a) \in 1 .. Len(b) /\ i = Len(a) + (i - Len(a))
      BY <1>1, <2>2
    <3>2. b[i - Len(a)] # Placeholder
      BY <1>1, <1>5, <3>1
    <3>3. PICK j \in 1 .. i - Len(a) : Whole(b, j, FALSE) /\ i - Len(a) < j + Widths[b[j]]
      BY <1>1, <3>1, <3>2 DEF Text
    <3>4. j \in 1 .. Len(b) /\ Len(a) + j \in 1 .. i /\ s[Len(a) + j] = b[j] /\ b[j] \in Output
      BY <1>1, <3>1
    <3>5. Widths[b[j]] \in 0 .. 4
      BY <1>2, <3>3, <3>4 DEF Whole
    <3>6. i < Len(a) + j + Widths[s[Len(a) + j]]
      BY <1>1, <3>3, <3>4, <3>5
    <3>7. Whole(s, Len(a) + j, FALSE)
      BY <1>4, <3>3, <3>4
    <3> DEFINE h == Len(a) + j
    <3>8. h \in 1 .. i /\ Whole(s, h, FALSE) /\ i < h + Widths[s[h]]
      BY <3>4, <3>6, <3>7
    <3> HIDE DEF h
    <3> QED BY <3>8
  <2>3. i <= Len(a) \/ i > Len(a)
    BY <1>1
  <2> QED BY <2>1, <2>2, <2>3
<1> QED BY <1>1, <1>5 DEF Text, s

LEMMA PlaceholderIsText ==
  /\ Text(<<>>, FALSE)
  /\ <<Placeholder>> \in Seq(Output) /\ Text(<<Placeholder>>, FALSE)
  /\ <<Placeholder, Placeholder>> \in Seq(Output) /\ Text(<<Placeholder, Placeholder>>, FALSE)
<1> DEFINE one == <<Placeholder>>
           two == <<Placeholder, Placeholder>>
<1>1. one \in Seq(Output) /\ DOMAIN one = {1} /\ one[1] = Placeholder
  BY DEF Output
<1>2. two \in Seq(Output) /\ DOMAIN two = {1, 2} /\ two[1] = Placeholder /\ two[2] = Placeholder
  BY DEF Output
<1>3. DOMAIN <<>> = {}
  OBVIOUS
<1> HIDE DEF one, two
<1>4. Text(<<>>, FALSE) /\ Text(one, FALSE) /\ Text(two, FALSE)
  BY <1>1, <1>2, <1>3 DEF Text
<1> QED BY <1>1, <1>2, <1>4 DEF one, two

\* The bytes from i to m.
LEMMA Slice ==
  ASSUME NEW T, NEW s \in Seq(T), NEW i \in 1 .. Len(s) + 1, NEW m \in i - 1 .. Len(s)
  PROVE  /\ SubSeq(s, i, m) \in Seq(T) /\ Len(SubSeq(s, i, m)) = m - i + 1
         /\ DOMAIN SubSeq(s, i, m) = 1 .. m - i + 1
         /\ \A k \in 1 .. m - i + 1 : SubSeq(s, i, m)[k] = s[i + k - 1]
<1>1. \A k \in i .. m : s[k] \in T
  OBVIOUS
<1>2. /\ SubSeq(s, i, m) \in Seq(T) /\ Len(SubSeq(s, i, m)) = m - i + 1
      /\ \A k \in 1 .. m - i + 1 : SubSeq(s, i, m)[k] = s[i + k - 1]
  BY <1>1, SubSeqProperties
<1> DEFINE c == SubSeq(s, i, m)
<1>3. DOMAIN c = 1 .. Len(c)
  <2> HIDE DEF c
  <2> QED BY <1>2 DEF c
<1> QED BY <1>2, <1>3

\* A character on its own.
LEMMA RuneIsText ==
  ASSUME NEW s \in Seq(Bytes), NEW i \in 1 .. Len(s), RuneWidth(s, i) > 0
  PROVE  LET c == SubSeq(s, i, i + RuneWidth(s, i) - 1)
         IN  /\ c \in Seq(Bytes) /\ Len(c) = RuneWidth(s, i)
             /\ \A k \in 1 .. Len(c) : c[k] = s[i + k - 1]
             /\ Text(c, FALSE)
<1> DEFINE n == RuneWidth(s, i)
           c == SubSeq(s, i, i + n - 1)
<1>1. /\ n \in 1 .. 4 /\ i + n - 1 <= Len(s) /\ n = Widths[s[i]]
      /\ \A k \in i + 1 .. i + n - 1 : s[k] = "cont"
  BY WidthOfRune
<1> HIDE DEF n
<1>2. /\ c \in Seq(Bytes) /\ Len(c) = n /\ DOMAIN c = 1 .. n
      /\ \A k \in 1 .. n : c[k] = s[i + k - 1]
  <2>1. i + n - 1 \in i - 1 .. Len(s) /\ i \in 1 .. Len(s) + 1 /\ (i + n - 1) - i + 1 = n
    BY <1>1
  <2> QED BY <2>1, Slice
<1> HIDE DEF c
<1>3. s[i] \in Bytes /\ s[i] # Placeholder /\ c[1] = s[i]
  BY <1>1, <1>2, WidthOf
<1>4. \A k \in 2 .. n : c[k] = "cont"
  BY <1>1, <1>2
<1>5. Whole(c, 1, FALSE)
  BY <1>1, <1>2, <1>3, <1>4 DEF Whole
<1>6. \A k \in 1 .. n : 1 \in 1 .. k /\ k < 1 + Widths[c[1]]
  BY <1>1, <1>3
<1>7. Text(c, FALSE)
  BY <1>2, <1>5, <1>6 DEF Text
<1> QED BY <1>2, <1>7 DEF c, n

-----------------------------------------------------------------------------
(***************************************************************************)
(* What the filter makes of bytes.                                         *)
(***************************************************************************)
\* A result for the bytes of s from i on: text, in which each byte is there or
\* replaced, and then those that are kept.
Fits(s, i, r) ==
    /\ r.out \in Seq(Output) /\ r.rest \in Seq(Bytes)
    /\ Len(r.out) + Len(r.rest) = Len(s) + 1 - i
    /\ \A k \in 1 .. Len(r.out) : r.out[k] \in {s[i + k - 1], Placeholder}
    /\ \A k \in 1 .. Len(r.rest) : r.rest[k] = s[i + Len(r.out) + k - 1]
    /\ Text(r.out, FALSE)

\* Text for the bytes from i to j.
Replaces(prefix, s, i, j) ==
    /\ prefix \in Seq(Output) /\ Len(prefix) = j - i /\ Text(prefix, FALSE)
    /\ \A k \in 1 .. Len(prefix) : prefix[k] \in {s[i + k - 1], Placeholder}

\* ... in front of a result for those from j on.
LEMMA FitsBefore ==
  ASSUME NEW s \in Seq(Bytes), NEW i \in 1 .. Len(s), NEW j \in i + 1 .. Len(s) + 1,
         NEW prefix, Replaces(prefix, s, i, j), NEW r, Fits(s, j, r)
  PROVE  Fits(s, i, Before(prefix, r))
<1> USE DEF Replaces
<1> DEFINE o == prefix \o r.out
           b == Before(prefix, r)
<1>1. b.out = o /\ b.rest = r.rest
  BY DEF Before
<1>2. r.out \in Seq(Output) /\ r.rest \in Seq(Bytes)
  BY DEF Fits
<1>3. /\ o \in Seq(Output) /\ Len(o) = Len(prefix) + Len(r.out)
      /\ \A k \in 1 .. Len(prefix) + Len(r.out) :
            o[k] = IF k <= Len(prefix) THEN prefix[k] ELSE r.out[k - Len(prefix)]
  BY <1>2, ConcatProperties
<1>4. Len(r.out) \in Nat /\ Len(r.rest) \in Nat /\ Len(prefix) \in Nat /\ Len(s) \in Nat
  BY <1>2
<1>5. Text(o, FALSE)
  BY <1>2, TextConcat DEF Fits
<1> HIDE DEF o, b
<1>6. Len(o) + Len(r.rest) = Len(s) + 1 - i
  <2>1. Len(r.out) + Len(r.rest) = Len(s) + 1 - j
    BY DEF Fits
  <2>2. Len(o) = (j - i) + Len(r.out)
    BY <1>3
  <2>3. i \in Int /\ j \in Int
    OBVIOUS
  <2> DEFINE p == Len(r.out)
             q == Len(r.rest)
             n == Len(s)
  <2>4. p \in Int /\ q \in Int /\ n \in Int
    BY <1>4
  <2>5. p + q = n + 1 - j
    BY <2>1, Zenon
  <2>6. Len(o) = (j - i) + p
    BY <2>2, Zenon
  <2> HIDE DEF p, q, n
  <2>7. Len(o) + q = n + 1 - i
    BY <2>3, <2>4, <2>5, <2>6
  <2> QED BY <2>7 DEF p, q, n
<1>7. ASSUME NEW k \in 1 .. Len(o) PROVE o[k] \in {s[i + k - 1], Placeholder}
  <2>1. CASE k <= Len(prefix)
    BY <1>3, <1>4, <1>7, <2>1
  <2>2. CASE k > Len(prefix)
    <3>1. k - Len(prefix) \in 1 .. Len(r.out)
      BY <1>3, <1>4, <2>2
    <3>2. r.out[k - Len(prefix)] \in {s[j + (k - Len(prefix)) - 1], Placeholder}
      BY <3>1 DEF Fits
    <3>3. j + (k - Len(prefix)) - 1 = i + k - 1
      BY <1>4
    <3> QED BY <1>3, <1>4, <2>2, <3>2, <3>3
  <2> QED BY <1>4, <2>1, <2>2
<1>8. ASSUME NEW k \in 1 .. Len(r.rest) PROVE r.rest[k] = s[i + Len(o) + k - 1]
  <2>1. r.rest[k] = s[j + Len(r.out) + k - 1]
    BY DEF Fits
  <2>2. j + Len(r.out) + k - 1 = i + Len(o) + k - 1
    BY <1>3, <1>4
  <2> QED BY <2>1, <2>2
<1>9. Fits(s, i, b)
  BY <1>1, <1>2, <1>3, <1>5, <1>6, <1>7, <1>8 DEF Fits
<1> QED BY <1>9 DEF b

\* Placeholders, one for each byte.
LEMMA FitsReplaced ==
  ASSUME NEW s \in Seq(Bytes), NEW i \in 1 .. Len(s), NEW p \in Seq(Output), Text(p, FALSE),
         NEW j \in i + 1 .. Len(s) + 1, Len(p) = j - i, \A k \in 1 .. Len(p) : p[k] = Placeholder,
         NEW r, Fits(s, j, r)
  PROVE  Fits(s, i, Before(p, r))
<1>1. \A k \in 1 .. Len(p) : p[k] \in {s[i + k - 1], Placeholder}
  OBVIOUS
<1>2. Replaces(p, s, i, j)
  BY <1>1, Zenon DEF Replaces
<1> QED BY <1>2, FitsBefore

LEMMA OneReplaced ==
  ASSUME NEW s \in Seq(Bytes), NEW i \in 1 .. Len(s), NEW r, Fits(s, i + 1, r)
  PROVE  Fits(s, i, Before(<<Placeholder>>, r))
<1> DEFINE p == <<Placeholder>>
<1>1. p \in Seq(Output) /\ Text(p, FALSE)
  BY PlaceholderIsText
<1>2. Len(p) = 1 /\ \A k \in 1 .. 1 : p[k] = Placeholder
  OBVIOUS
<1> HIDE DEF p
<1>3. i + 1 \in i + 1 .. Len(s) + 1 /\ Len(p) = i + 1 - i /\ \A k \in 1 .. Len(p) : p[k] = Placeholder
  BY <1>2
<1>4. Fits(s, i, Before(p, r))
  <2> DEFINE j == i + 1
  <2>1. j \in i + 1 .. Len(s) + 1 /\ Len(p) = j - i /\ Fits(s, j, r)
    BY <1>3
  <2> HIDE DEF j
  <2> QED BY <1>1, <1>3, <2>1, FitsReplaced
<1> QED BY <1>4 DEF p

LEMMA TwoReplaced ==
  ASSUME NEW s \in Seq(Bytes), NEW i \in 1 .. Len(s), NEW r, i < Len(s), Fits(s, i + 2, r)
  PROVE  Fits(s, i, Before(<<Placeholder, Placeholder>>, r))
<1> DEFINE p == <<Placeholder, Placeholder>>
<1>1. p \in Seq(Output) /\ Text(p, FALSE)
  BY PlaceholderIsText
<1>2. Len(p) = 2 /\ \A k \in 1 .. 2 : p[k] = Placeholder
  OBVIOUS
<1> HIDE DEF p
<1>3. i + 2 \in i + 1 .. Len(s) + 1 /\ Len(p) = i + 2 - i /\ \A k \in 1 .. Len(p) : p[k] = Placeholder
  BY <1>2
<1>4. Fits(s, i, Before(p, r))
  <2> DEFINE j == i + 2
  <2>1. j \in i + 1 .. Len(s) + 1 /\ Len(p) = j - i /\ Fits(s, j, r)
    BY <1>3
  <2> HIDE DEF j
  <2> QED BY <1>1, <1>3, <2>1, FitsReplaced
<1> QED BY <1>4 DEF p

\* The equation that handleLastBytes solves.
LastBody(s, f) ==
    [i \in 1 .. Len(s) |->
        IF ~RuneStart(s[i])
          THEN IF i = Len(s) THEN [out |-> <<Placeholder>>, rest |-> <<>>]
               ELSE Before(<<Placeholder>>, f[i + 1])
        ELSE IF i = Len(s)
          THEN IF Widths[s[i]] = 1 THEN [out |-> <<s[i]>>, rest |-> <<>>]
               ELSE [out |-> <<>>, rest |-> <<s[i]>>]
        ELSE IF s[i + 1] # "cont" THEN Before(<<Placeholder>>, f[i + 1])
        ELSE IF i + 2 <= Len(s) /\ s[i + 2] # "cont"
          THEN Before(<<Placeholder, Placeholder>>, f[i + 2])
        ELSE [out |-> <<>>, rest |-> From(s, i)]]

LEMMA LastUnfolds ==
  ASSUME NEW s \in Seq(Bytes)
  PROVE  \E f : f = LastBody(s, f) /\ HandleLastBytes(s) = f[1]
<1> DEFINE skip == [i \in 1 .. Len(s) |->
                      IF ~RuneStart(s[i]) THEN IF i = Len(s) THEN 0 ELSE i + 1
                      ELSE IF i = Len(s) THEN 0
                      ELSE IF s[i + 1] # "cont" THEN i + 1
                      ELSE IF i + 2 <= Len(s) /\ s[i + 2] # "cont" THEN i + 2
                      ELSE 0]
           prefix == [i \in 1 .. Len(s) |->
                      IF skip[i] = i + 2 THEN <<Placeholder, Placeholder>> ELSE <<Placeholder>>]
           final == [i \in 1 .. Len(s) |->
                      IF ~RuneStart(s[i]) THEN [out |-> <<Placeholder>>, rest |-> <<>>]
                      ELSE IF i = Len(s)
                        THEN IF Widths[s[i]] = 1 THEN [out |-> <<s[i]>>, rest |-> <<>>]
                             ELSE [out |-> <<>>, rest |-> <<s[i]>>]
                      ELSE [out |-> <<>>, rest |-> From(s, i)]]
<1>1. Climbs(Len(s), skip)
  BY DEF Climbs
<1>2. Solvable(Len(s), skip, prefix, final)
  <2> HIDE DEF skip, prefix, final
  <2>1. Len(s) \in Nat
    OBVIOUS
  <2> QED BY <1>1, <2>1, Recursion
<1>3. PICK T, f : /\ f \in [1 .. Len(s) -> T]
                  /\ \A i \in 1 .. Len(s) :
                        f[i] = IF skip[i] = 0 THEN final[i] ELSE Before(prefix[i], f[skip[i]])
  <2> HIDE DEF skip, prefix, final
  <2> QED BY <1>2 DEF Solvable
<1>4. f = LastBody(s, f)
  <2>1. ASSUME NEW i \in 1 .. Len(s)
        PROVE  (IF skip[i] = 0 THEN final[i] ELSE Before(prefix[i], f[skip[i]])) = LastBody(s, f)[i]
    BY DEF LastBody
  <2>2. LastBody(s, f) = [i \in 1 .. Len(s) |-> LastBody(s, f)[i]]
    BY DEF LastBody
  <2> HIDE DEF skip, prefix, final
  <2> QED BY <1>3, <2>1, <2>2
<1> DEFINE c == CHOOSE g : g = LastBody(s, g)
<1>5. HandleLastBytes(s) = c[1]
  BY Zenon DEF HandleLastBytes, LastBody
<1>6. c = LastBody(s, c)
  BY <1>4, Zenon
<1> QED BY <1>5, <1>6

Nothing == [out |-> <<>>, rest |-> <<>>]

LEMMA FitsNothing ==
  ASSUME NEW s \in Seq(Bytes)
  PROVE  Fits(s, Len(s) + 1, Nothing)
<1>1. /\ <<>> \in Seq(Output) /\ <<>> \in Seq(Bytes) /\ Len(<<>>) = 0 /\ 1 .. 0 = {}
      /\ Len(s) \in Nat
  OBVIOUS
<1>2. Nothing.out = <<>> /\ Nothing.rest = <<>>
  BY DEF Nothing
<1> HIDE DEF Nothing
<1>3. Len(Nothing.out) + Len(Nothing.rest) = Len(s) + 1 - (Len(s) + 1)
  BY <1>1, <1>2
<1> QED BY <1>1, <1>2, <1>3, PlaceholderIsText DEF Fits

\* All that is left is kept.
LEMMA FitsKept ==
  ASSUME NEW s \in Seq(Bytes), NEW i \in 1 .. Len(s)
  PROVE  Fits(s, i, [out |-> <<>>, rest |-> From(s, i)])
<1> DEFINE r == [out |-> <<>>, rest |-> From(s, i)]
<1>1. /\ <<>> \in Seq(Output) /\ Len(<<>>) = 0 /\ 1 .. 0 = {} /\ Len(s) \in Nat
  OBVIOUS
<1>2. /\ From(s, i) \in Seq(Bytes) /\ Len(From(s, i)) = Len(s) - i + 1
      /\ \A k \in 1 .. Len(s) - i + 1 : From(s, i)[k] = s[i + k - 1]
  <2>1. i \in 1 .. Len(s) + 1 /\ Len(s) \in i - 1 .. Len(s)
    OBVIOUS
  <2> QED BY <2>1, Slice DEF From
<1>3. r.out = <<>> /\ r.rest = From(s, i)
  OBVIOUS
<1> HIDE DEF r
<1>4. Len(r.out) + Len(r.rest) = Len(s) + 1 - i
  BY <1>1, <1>2, <1>3
<1>5. \A k \in 1 .. Len(r.rest) : r.rest[k] = s[i + Len(r.out) + k - 1]
  BY <1>1, <1>2, <1>3
<1>6. Fits(s, i, r)
  BY <1>1, <1>2, <1>3, <1>4, <1>5, PlaceholderIsText DEF Fits
<1> QED BY <1>6 DEF r

\* The last byte, sent or kept.
LEMMA FitsLast ==
  ASSUME NEW s \in Seq(Bytes), Len(s) > 0
  PROVE  /\ Fits(s, Len(s), [out |-> <<Placeholder>>, rest |-> <<>>])
         /\ Widths[s[Len(s)]] = 1 => Fits(s, Len(s), [out |-> <<s[Len(s)]>>, rest |-> <<>>])
         /\ Fits(s, Len(s), [out |-> <<>>, rest |-> <<s[Len(s)]>>])
<1> DEFINE n == Len(s)
           b == s[n]
<1>1. n \in 1 .. n /\ n \in Nat /\ b \in Bytes /\ b \in Output /\ b # Placeholder /\ Placeholder \in Output
  BY WidthOf DEF Output
<1>2. ASSUME NEW c \in Output, c \in {b, Placeholder}, Text(<<c>>, FALSE)
      PROVE  Fits(s, n, [out |-> <<c>>, rest |-> <<>>])
  <2> DEFINE r == [out |-> <<c>>, rest |-> <<>>]
             o == <<c>>
  <2>1. r.out = o /\ r.rest = <<>> /\ o \in Seq(Output) /\ Len(o) = 1 /\ o[1] = c
    OBVIOUS
  <2>2. /\ <<>> \in Seq(Bytes) /\ Len(<<>>) = 0 /\ 1 .. 0 = {} /\ 1 .. 1 = {1} /\ n + 1 - 1 = n
        /\ 1 + 0 = n + 1 - n
    BY <1>1
  <2>3. Text(o, FALSE)
    BY <1>2
  <2> HIDE DEF r, o, n
  <2>4. Fits(s, n, r)
    BY <1>2, <2>1, <2>2, <2>3 DEF Fits, n, b
  <2> QED BY <2>4 DEF r, o
<1>3. Widths[b] = 1 => Text(<<b>>, FALSE)
  <2> SUFFICES ASSUME Widths[b] = 1 PROVE Text(<<b>>, FALSE)
    OBVIOUS
  <2> DEFINE o == <<b>>
  <2>1. DOMAIN o = {1} /\ o[1] = b /\ 1 + 1 .. 1 + 1 - 1 = {}
    OBVIOUS
  <2>2. o[1] # Placeholder
    BY <1>1
  <2>3. Widths[o[1]] = 1
    OBVIOUS
  <2> HIDE DEF o, b
  <2>4. Whole(o, 1, FALSE)
    BY <2>1, <2>2, <2>3 DEF Whole
  <2>5. 1 \in 1 .. 1 /\ 1 < 1 + Widths[o[1]]
    BY <2>3
  <2>6. Text(o, FALSE)
    BY <2>1, <2>4, <2>5 DEF Text
  <2> QED BY <2>6 DEF o
<1>4. Fits(s, n, [out |-> <<>>, rest |-> <<b>>])
  <2> DEFINE r == [out |-> <<>>, rest |-> <<b>>]
             o == <<b>>
  <2>1. r.out = <<>> /\ r.rest = o /\ o \in Seq(Bytes) /\ Len(o) = 1 /\ o[1] = b
    BY <1>1
  <2>2. /\ <<>> \in Seq(Output) /\ Len(<<>>) = 0 /\ 1 .. 0 = {} /\ 1 .. 1 = {1} /\ n + 0 + 1 - 1 = n
        /\ 0 + 1 = n + 1 - n
    BY <1>1
  <2> HIDE DEF r, o, n
  <2>3. Text(r.out, FALSE)
    BY <2>1, PlaceholderIsText
  <2>4. Len(r.out) = 0 /\ Len(r.rest) = 1
    BY <2>1, <2>2
  <2>5. \A k \in 1 .. Len(r.rest) : r.rest[k] = s[n + Len(r.out) + k - 1]
    BY <2>1, <2>2, <2>4
  <2>6. Len(r.out) + Len(r.rest) = n + 1 - n
    BY <2>2, <2>4
  <2>7. Fits(s, n, r)
    BY <2>1, <2>2, <2>3, <2>4, <2>5, <2>6 DEF Fits, n
  <2> QED BY <2>7 DEF r, o
<1> QED BY <1>1, <1>2, <1>3, <1>4, PlaceholderIsText

LEMMA LastFits ==
  ASSUME NEW s \in Seq(Bytes), Len(s) > 0
  PROVE  Fits(s, 1, HandleLastBytes(s))
<1>1. PICK f : f = LastBody(s, f) /\ HandleLastBytes(s) = f[1]
  BY LastUnfolds
<1> DEFINE S == {i \in 1 .. Len(s) : Fits(s, i, f[i])}
<1>2. ASSUME NEW i \in 1 .. Len(s), \A j \in i + 1 .. Len(s) : j \in S
      PROVE  i \in S
  <2>1. f[i] = IF ~RuneStart(s[i])
                 THEN IF i = Len(s) THEN [out |-> <<Placeholder>>, rest |-> <<>>]
                      ELSE Before(<<Placeholder>>, f[i + 1])
               ELSE IF i = Len(s)
                 THEN IF Widths[s[i]] = 1 THEN [out |-> <<s[i]>>, rest |-> <<>>]
                      ELSE [out |-> <<>>, rest |-> <<s[i]>>]
               ELSE IF s[i + 1] # "cont" THEN Before(<<Placeholder>>, f[i + 1])
               ELSE IF i + 2 <= Len(s) /\ s[i + 2] # "cont"
                 THEN Before(<<Placeholder, Placeholder>>, f[i + 2])
               ELSE [out |-> <<>>, rest |-> From(s, i)]
    BY <1>1, Zenon DEF LastBody
  <2>2. CASE i = Len(s)
    BY <2>1, <2>2, FitsLast
  <2>3. CASE f[i] = Before(<<Placeholder>>, f[i + 1]) /\ i < Len(s)
    <3>1. i + 1 \in i + 1 .. Len(s) /\ i + 1 \in i + 1 .. Len(s) + 1
      BY <2>3
    <3>2. Fits(s, i + 1, f[i + 1])
      BY <1>2, <3>1
    <3> QED BY <2>3, <3>2, OneReplaced
  <2>4. CASE f[i] = Before(<<Placeholder, Placeholder>>, f[i + 2]) /\ i + 2 <= Len(s)
    <3>1. i + 2 \in i + 1 .. Len(s) /\ i + 2 \in i + 1 .. Len(s) + 1
      BY <2>4
    <3>2. Fits(s, i + 2, f[i + 2])
      BY <1>2, <3>1
    <3>3. i < Len(s)
      BY <2>4
    <3> QED BY <2>4, <3>2, <3>3, TwoReplaced
  <2>5. CASE f[i] = [out |-> <<>>, rest |-> From(s, i)]
    BY <2>5, FitsKept
  <2>6. i < Len(s) \/ i = Len(s)
    OBVIOUS
  <2> HIDE DEF S
  <2>7. i \in S \/ i = Len(s) \/ (i < Len(s) /\ f[i] # Before(<<Placeholder>>, f[i + 1]) /\ f[i] # [out |-> <<>>, rest |-> From(s, i)])
    BY <2>3, <2>5, <2>6
  <2> QED BY <2>1, <2>2, <2>3, <2>4, <2>5, <2>6, <2>7
<1>3. 1 \in 1 .. Len(s) /\ Len(s) \in Nat
  OBVIOUS
<1>4. 1 \in S
  <2> HIDE DEF S
  <2> QED BY <1>2, <1>3, Downward
<1> QED BY <1>1, <1>4

\* What ReadRune reports at i looks like an error.
LooksWrong(s, i) == RuneWidth(s, i) = 0 \/ s[i] = "leadFFFD"

\* The equation that the loop of ProcessRaw solves.
LoopBody(data, dataLen, f) ==
    [i \in 1 .. Len(data) + 1 |->
        IF i > Len(data) THEN [out |-> <<>>, rest |-> <<>>]
        ELSE IF /\ RuneWidth(data, i) = 0 \/ data[i] = "leadFFFD"
                /\ CloseToTheEnd(dataLen, i) /\ RuneStart(data[i])
          THEN HandleLastBytes(From(data, i))
        ELSE IF RuneWidth(data, i) = 0 THEN Before(<<Placeholder>>, f[i + 1])
        ELSE Before(SubSeq(data, i, i + RuneWidth(data, i) - 1), f[i + RuneWidth(data, i)])]

LEMMA FilterUnfolds ==
  ASSUME NEW data \in Seq(Bytes), NEW dataLen
  PROVE  \E f : f = LoopBody(data, dataLen, f) /\ Filter(data, dataLen) = f[1]
<1> DEFINE n == Len(data) + 1
           skip == [i \in 1 .. n |->
                      IF i > Len(data) THEN 0
                      ELSE IF LooksWrong(data, i) /\ CloseToTheEnd(dataLen, i) /\ RuneStart(data[i]) THEN 0
                      ELSE IF RuneWidth(data, i) = 0 THEN i + 1
                      ELSE i + RuneWidth(data, i)]
           prefix == [i \in 1 .. n |->
                      IF RuneWidth(data, i) = 0 THEN <<Placeholder>>
                      ELSE SubSeq(data, i, i + RuneWidth(data, i) - 1)]
           final == [i \in 1 .. n |->
                      IF i > Len(data) THEN [out |-> <<>>, rest |-> <<>>]
                      ELSE HandleLastBytes(From(data, i))]
<1>1. Climbs(n, skip)
  <2>1. ASSUME NEW i \in 1 .. n PROVE skip[i] = 0 \/ skip[i] \in i + 1 .. n
    <3>1. CASE i > Len(data)
      BY <3>1
    <3>2. CASE i <= Len(data)
      <4>1. i \in 1 .. Len(data)
        BY <3>2
      <4>2. RuneWidth(data, i) \in 0 .. 4 /\ RuneWidth(data, i) <= Len(data) + 1 - i
        BY <4>1, WidthOfRune
      <4> QED BY <4>1, <4>2
    <3> QED BY <3>1, <3>2
  <2> HIDE DEF skip
  <2> QED BY <2>1 DEF Climbs
<1>2. Solvable(n, skip, prefix, final)
  <2>1. n \in Nat
    OBVIOUS
  <2> HIDE DEF skip, prefix, final, n
  <2> QED BY <1>1, <2>1, Recursion
<1>3. PICK T, f : /\ f \in [1 .. n -> T]
                  /\ \A i \in 1 .. n :
                        f[i] = IF skip[i] = 0 THEN final[i] ELSE Before(prefix[i], f[skip[i]])
  <2> HIDE DEF skip, prefix, final, n
  <2> QED BY <1>2 DEF Solvable
<1>4. f = LoopBody(data, dataLen, f)
  <2>1. ASSUME NEW i \in 1 .. n
        PROVE  (IF skip[i] = 0 THEN final[i] ELSE Before(prefix[i], f[skip[i]]))
                  = LoopBody(data, dataLen, f)[i]
    <3>1. CASE i > Len(data)
      BY <3>1 DEF LoopBody
    <3>2. CASE i <= Len(data)
      <4>1. RuneWidth(data, i) \in 0 .. 4
        BY <3>2, WidthOfRune
      <4> QED BY <3>2, <4>1 DEF LoopBody, LooksWrong
    <3> QED BY <3>1, <3>2
  <2>2. LoopBody(data, dataLen, f) = [i \in 1 .. n |-> LoopBody(data, dataLen, f)[i]]
    BY DEF LoopBody
  <2> HIDE DEF skip, prefix, final, n
  <2> QED BY <1>3, <2>1, <2>2
<1> DEFINE c == CHOOSE g : g = LoopBody(data, dataLen, g)
<1>5. Filter(data, dataLen) = c[1]
  BY Zenon DEF Filter, LoopBody
<1>6. c = LoopBody(data, dataLen, c)
  BY <1>4, Zenon
<1> QED BY <1>5, <1>6

\* A result for the bytes from i on, as bytes of their own, is one for them in place.
LEMMA FitsFrom ==
  ASSUME NEW s \in Seq(Bytes), NEW i \in 1 .. Len(s), NEW r, Fits(From(s, i), 1, r)
  PROVE  Fits(s, i, r)
<1> DEFINE c == From(s, i)
           n == Len(s)
           p == Len(r.out)
           q == Len(r.rest)
<1>1. /\ n \in Nat /\ i \in 1 .. n + 1 /\ n \in i - 1 .. n
  OBVIOUS
<1>2. Len(c) = n - i + 1 /\ \A k \in 1 .. n - i + 1 : c[k] = s[i + k - 1]
  BY <1>1, Slice DEF From
<1>3. /\ r.out \in Seq(Output) /\ r.rest \in Seq(Bytes) /\ Text(r.out, FALSE)
      /\ p + q = Len(c) + 1 - 1
      /\ \A k \in 1 .. p : r.out[k] \in {c[1 + k - 1], Placeholder}
      /\ \A k \in 1 .. q : r.rest[k] = c[1 + p + k - 1]
  BY DEF Fits
<1>4. p \in Nat /\ q \in Nat
  BY <1>3
<1> HIDE DEF c, n, p, q
<1>5. p + q = n + 1 - i
  BY <1>1, <1>2, <1>3, <1>4
<1>6. ASSUME NEW k \in 1 .. p PROVE r.out[k] \in {s[i + k - 1], Placeholder}
  <2>1. k \in 1 .. n - i + 1 /\ 1 + k - 1 = k
    BY <1>1, <1>4, <1>5
  <2> QED BY <1>2, <1>3, <2>1
<1>7. ASSUME NEW k \in 1 .. q PROVE r.rest[k] = s[i + p + k - 1]
  <2>1. p + k \in 1 .. n - i + 1 /\ 1 + p + k - 1 = p + k /\ i + (p + k) - 1 = i + p + k - 1
    BY <1>1, <1>4, <1>5
  <2> QED BY <1>2, <1>3, <2>1
<1> QED BY <1>3, <1>5, <1>6, <1>7 DEF Fits, n, p, q

\* Whatever bytes the loop is given, what it sends is text, and no byte is lost.
LEMMA FilterFits ==
  ASSUME NEW data \in Seq(Bytes), NEW dataLen
  PROVE  Fits(data, 1, Filter(data, dataLen))
<1>1. PICK f : f = LoopBody(data, dataLen, f) /\ Filter(data, dataLen) = f[1]
  BY FilterUnfolds
<1> DEFINE n == Len(data) + 1
           S == {i \in 1 .. n : Fits(data, i, f[i])}
<1>2. ASSUME NEW i \in 1 .. n, \A j \in i + 1 .. n : j \in S
      PROVE  i \in S
  <2>1. f[i] = IF i > Len(data) THEN [out |-> <<>>, rest |-> <<>>]
               ELSE IF /\ RuneWidth(data, i) = 0 \/ data[i] = "leadFFFD"
                       /\ CloseToTheEnd(dataLen, i) /\ RuneStart(data[i])
                 THEN HandleLastBytes(From(data, i))
               ELSE IF RuneWidth(data, i) = 0 THEN Before(<<Placeholder>>, f[i + 1])
               ELSE Before(SubSeq(data, i, i + RuneWidth(data, i) - 1), f[i + RuneWidth(data, i)])
    BY <1>1, Zenon DEF LoopBody
  <2>2. CASE i > Len(data)
    <3>1. i = Len(data) + 1
      BY <2>2
    <3>2. f[i] = Nothing
      BY <2>1, <2>2 DEF Nothing
    <3> QED BY <3>1, <3>2, FitsNothing
  <2>3. CASE i <= Len(data)
    <3>1. i \in 1 .. Len(data) /\ Len(data) \in Nat
      BY <2>3
    <3>w. RuneWidth(data, i) \in 0 .. 4
      BY <3>1, WidthOfRune
    <3>2. CASE /\ RuneWidth(data, i) > 0
               /\ f[i] = Before(SubSeq(data, i, i + RuneWidth(data, i) - 1), f[i + RuneWidth(data, i)])
      <4> DEFINE w == RuneWidth(data, i)
                 p == SubSeq(data, i, i + w - 1)
                 j == i + w
      <4>1. w \in 1 .. 4 /\ w <= Len(data) + 1 - i
        BY <3>1, <3>2, WidthOfRune
      <4>2. j \in i + 1 .. n /\ j \in i + 1 .. Len(data) + 1 /\ w = j - i
        BY <3>1, <4>1
      <4>3. Fits(data, j, f[j])
        BY <1>2, <4>2
      <4>4. /\ p \in Seq(Bytes) /\ Len(p) = w /\ Text(p, FALSE)
            /\ \A k \in 1 .. Len(p) : p[k] = data[i + k - 1]
        BY <3>1, <3>2, RuneIsText
      <4>5. f[i] = Before(p, f[j])
        BY <3>2
      <4> HIDE DEF p, w, j, S
      <4>6. Replaces(p, data, i, j)
        <5>1. p \in Seq(Output)
          BY <4>4 DEF Output
        <5>2. Len(p) = j - i
          BY <4>2, <4>4
        <5>3. \A k \in 1 .. Len(p) : p[k] \in {data[i + k - 1], Placeholder}
          BY <4>4
        <5> QED BY <4>4, <5>1, <5>2, <5>3, Zenon DEF Replaces
      <4> QED BY <3>1, <4>2, <4>3, <4>5, <4>6, FitsBefore DEF S
    <3>3. CASE f[i] = HandleLastBytes(From(data, i))
      <4>1. i \in 1 .. Len(data) + 1 /\ Len(data) \in i - 1 .. Len(data)
        BY <3>1
      <4>2. From(data, i) \in Seq(Bytes) /\ Len(From(data, i)) > 0
        BY <3>1, <4>1, Slice DEF From
      <4> QED BY <3>1, <3>3, <4>2, LastFits, FitsFrom
    <3>4. CASE f[i] = Before(<<Placeholder>>, f[i + 1])
      <4>1. i + 1 \in i + 1 .. n
        BY <3>1
      <4> QED BY <1>2, <3>1, <3>4, <4>1, OneReplaced
    <3>5. RuneWidth(data, i) # 0 => RuneWidth(data, i) > 0
      BY <3>w
    <3> HIDE DEF S
    <3> QED BY <2>1, <2>3, <3>2, <3>3, <3>4, <3>5
  <2> QED BY <2>2, <2>3
<1>3. 1 \in 1 .. n /\ n \in Nat
  OBVIOUS
<1>4. 1 \in S
  <2> HIDE DEF S, n
  <2> QED BY <1>2, <1>3, Downward
<1> QED BY <1>1, <1>4

-----------------------------------------------------------------------------
(***************************************************************************)
(* What the filter makes of text.                                          *)
(***************************************************************************)
\* In text a byte that is not a continuation begins a character.
LEMMA StartIsWhole ==
  ASSUME NEW s \in Seq(Bytes), Text(s, TRUE), NEW i \in 1 .. Len(s), s[i] # "cont"
  PROVE  Whole(s, i, TRUE) /\ Widths[s[i]] \in 1 .. 4
<1>1. s[i] # Placeholder /\ i \in DOMAIN s
  BY WidthOf
<1>2. PICK j \in 1 .. i : Whole(s, j, TRUE) /\ i < j + Widths[s[j]]
  BY <1>1 DEF Text
<1>3. s[j] \in Bytes /\ Widths[s[j]] \in 0 .. 4 /\ i <= Len(s)
  BY WidthOf
<1>4. ASSUME j < i PROVE FALSE
  <2>1. i \in j + 1 .. j + Widths[s[j]] - 1
    BY <1>2, <1>3, <1>4
  <2> QED BY <1>2, <1>3, <2>1 DEF Whole
<1>5. j = i
  BY <1>4
<1>6. Widths[s[i]] > 0
  BY <1>2, <1>5 DEF Whole
<1>7. Whole(s, i, TRUE) /\ Widths[s[i]] \in 0 .. 4
  BY <1>2, <1>3, <1>5
<1>8. \A n \in 0 .. 4 : n > 0 => n \in 1 .. 4
  OBVIOUS
<1>9. Widths[s[i]] \in 1 .. 4
  BY <1>6, <1>7, <1>8, Zenon
<1> QED BY <1>7, <1>9

\* A character is followed by another one.
LEMMA StartFollows ==
  ASSUME NEW s \in Seq(Bytes), Text(s, TRUE), NEW i \in 1 .. Len(s), s[i] # "cont",
         i + Widths[s[i]] <= Len(s)
  PROVE  s[i + Widths[s[i]]] # "cont"
<1> DEFINE w == Widths[s[i]]
           m == i + w
<1>1. Whole(s, i, TRUE) /\ w \in 1 .. 4
  BY StartIsWhole
<1>2. m \in 1 .. Len(s) /\ s[m] # Placeholder /\ m \in DOMAIN s
  BY <1>1, WidthOf
<1>3. PICK j \in 1 .. m : Whole(s, j, TRUE) /\ m < j + Widths[s[j]]
  <2> HIDE DEF m
  <2> QED BY <1>2 DEF Text
<1>4. s[j] \in Bytes /\ Widths[s[j]] \in 0 .. 4 /\ Widths[s[j]] > 0 /\ j \in 1 .. Len(s)
  <2>1. j \in 1 .. Len(s)
    BY <1>2
  <2>2. s[j] \in Bytes
    BY <2>1
  <2> HIDE DEF m
  <2> QED BY <1>3, <2>1, <2>2, WidthOf DEF Whole
<1>5. s[j] # "cont"
  BY <1>4, WidthOf
<1>6. ASSUME j \in i + 1 .. m - 1 PROVE FALSE
  <2>1. s[j] = "cont"
    BY <1>1, <1>4, <1>6 DEF Whole
  <2> QED BY <1>5, <2>1
<1>7. ASSUME j < i PROVE FALSE
  <2>1. i \in j + 1 .. j + Widths[s[j]] - 1
    BY <1>1, <1>3, <1>4, <1>7
  <2> QED BY <1>3, <1>4, <2>1 DEF Whole
<1>8. j # i
  BY <1>1, <1>3
<1>9. j = m
  BY <1>1, <1>4, <1>6, <1>7, <1>8
<1> QED BY <1>5, <1>9

\* What begins with a first byte, if up to two continuations follow, is kept.
LEMMA LastKeeps ==
  ASSUME NEW s \in Seq(Bytes), Len(s) > 0, s[1] # "cont", Widths[s[1]] # 1,
         \A k \in {2, 3} : k <= Len(s) => s[k] = "cont"
  PROVE  LET r == HandleLastBytes(s)
         IN  r.out = <<>> /\ Len(r.rest) = Len(s) /\ r.rest[1] = s[1]
<1>1. PICK f : f = LastBody(s, f) /\ HandleLastBytes(s) = f[1]
  BY LastUnfolds
<1>2. 1 \in 1 .. Len(s)
  OBVIOUS
<1>3. f[1] = IF ~RuneStart(s[1])
                 THEN IF 1 = Len(s) THEN [out |-> <<Placeholder>>, rest |-> <<>>]
                      ELSE Before(<<Placeholder>>, f[1 + 1])
               ELSE IF 1 = Len(s)
                 THEN IF Widths[s[1]] = 1 THEN [out |-> <<s[1]>>, rest |-> <<>>]
                      ELSE [out |-> <<>>, rest |-> <<s[1]>>]
               ELSE IF s[1 + 1] # "cont" THEN Before(<<Placeholder>>, f[1 + 1])
               ELSE IF 1 + 2 <= Len(s) /\ s[1 + 2] # "cont"
                 THEN Before(<<Placeholder, Placeholder>>, f[1 + 2])
               ELSE [out |-> <<>>, rest |-> From(s, 1)]
  BY <1>1, <1>2, Zenon DEF LastBody
<1>4. CASE Len(s) = 1
  <2>2. f[1] = [out |-> <<>>, rest |-> <<s[1]>>]
    BY <1>3, <1>4 DEF RuneStart
  <2> QED BY <1>1, <1>4, <2>2
<1>5. CASE Len(s) # 1
  <2>1. f[1] = [out |-> <<>>, rest |-> From(s, 1)]
    BY <1>3, <1>5 DEF RuneStart
  <2>2. 1 \in 1 .. Len(s) + 1 /\ Len(s) \in 1 - 1 .. Len(s)
    OBVIOUS
  <2>3. Len(From(s, 1)) = Len(s) - 1 + 1 /\ From(s, 1)[1] = s[1 + 1 - 1]
    BY <1>2, <2>2, Slice DEF From
  <2> DEFINE c == From(s, 1)
  <2>4. HandleLastBytes(s).out = <<>> /\ HandleLastBytes(s).rest = c
    BY <1>1, <2>1
  <2>5. Len(c) = Len(s) /\ c[1] = s[1]
    BY <2>3
  <2> HIDE DEF c
  <2> QED BY <2>4, <2>5
<1> QED BY <1>4, <1>5

\* What may be held back of text.
Waits(r) == Len(r) > 0 => r[1] = "leadFFFD" \/ Len(r) < Widths[r[1]]

\* A result in which the bytes from i on are sent as they are, but for what is held back.
Passes(s, i, r) ==
    /\ \A k \in 1 .. Len(r.out) : r.out[k] = s[i + k - 1]
    /\ Waits(r.rest)

LEMMA FilterPasses ==
  ASSUME NEW data \in Seq(Bytes), NEW dataLen \in Nat, dataLen <= Len(data), Text(data, TRUE)
  PROVE  Passes(data, 1, Filter(data, dataLen))
<1>1. PICK f : f = LoopBody(data, dataLen, f) /\ Filter(data, dataLen) = f[1]
  BY FilterUnfolds
<1> DEFINE n == Len(data) + 1
           S == {i \in 1 .. n : (i = n \/ data[i] # "cont") =>
                                   f[i].out \in Seq(Output) /\ Passes(data, i, f[i])}
<1>2. ASSUME NEW i \in 1 .. n, \A j \in i + 1 .. n : j \in S
      PROVE  i \in S
  <2> SUFFICES ASSUME i = n \/ data[i] # "cont"
               PROVE  f[i].out \in Seq(Output) /\ Passes(data, i, f[i])
    OBVIOUS
  <2>1. f[i] = IF i > Len(data) THEN [out |-> <<>>, rest |-> <<>>]
               ELSE IF /\ RuneWidth(data, i) = 0 \/ data[i] = "leadFFFD"
                       /\ CloseToTheEnd(dataLen, i) /\ RuneStart(data[i])
                 THEN HandleLastBytes(From(data, i))
               ELSE IF RuneWidth(data, i) = 0 THEN Before(<<Placeholder>>, f[i + 1])
               ELSE Before(SubSeq(data, i, i + RuneWidth(data, i) - 1), f[i + RuneWidth(data, i)])
    BY <1>1, Zenon DEF LoopBody
  <2>2. CASE i > Len(data)
    <3>1. f[i] = Nothing
      BY <2>1, <2>2 DEF Nothing
    <3>2. f[i].out = <<>> /\ f[i].rest = <<>> /\ Len(<<>>) = 0 /\ 1 .. 0 = {} /\ <<>> \in Seq(Output)
      BY <3>1 DEF Nothing
    <3>3. Passes(data, i, f[i])
      BY <3>2 DEF Passes, Waits
    <3> QED BY <3>2, <3>3
  <2>3. CASE i <= Len(data)
    <3> DEFINE w == Widths[data[i]]
    <3>1. i \in 1 .. Len(data) /\ Len(data) \in Nat /\ data[i] # "cont"
      BY <2>3
    <3>2. Whole(data, i, TRUE) /\ w \in 1 .. 4
      BY <3>1, StartIsWhole
    <3>3. ASSUME NEW k \in i + 1 .. i + w - 1, k <= Len(data) PROVE data[k] = "cont"
      BY <3>2, <3>3 DEF Whole
    <3>w. w = Widths[data[i]]
      OBVIOUS
    <3> DEFINE s == From(data, i)
    <3>s. /\ s \in Seq(Bytes) /\ Len(s) = Len(data) - i + 1
          /\ \A k \in 1 .. Len(data) - i + 1 : s[k] = data[i + k - 1]
      <4>1. i \in 1 .. Len(data) + 1 /\ Len(data) \in i - 1 .. Len(data)
        BY <3>1
      <4> QED BY <4>1, Slice DEF From
    <3>n. Len(<<>>) = 0 /\ 1 .. 0 = {} /\ <<>> \in Seq(Output)
      OBVIOUS
    <3> HIDE DEF w, S, s
    <3>k. ASSUME f[i] = HandleLastBytes(s), w # 1, \A k \in {2, 3} : k <= Len(s) => s[k] = "cont",
                 w > Len(s) \/ data[i] = "leadFFFD"
          PROVE  f[i].out \in Seq(Output) /\ Passes(data, i, f[i])
      <4> DEFINE r == HandleLastBytes(s)
      <4>1. Len(s) > 0 /\ Len(s) \in Nat /\ s[1] = data[i]
        BY <3>1, <3>s
      <4>2. r.out = <<>> /\ Len(r.rest) = Len(s) /\ r.rest[1] = s[1]
        BY <3>1, <3>s, <3>w, <3>k, <4>1, LastKeeps
      <4> HIDE DEF r
      <4>3. \A k \in 1 .. Len(r.out) : r.out[k] = data[i + k - 1]
        BY <3>n, <4>2
      <4>4. Waits(r.rest)
        BY <3>k, <3>w, <4>1, <4>2 DEF Waits
      <4> QED BY <3>k, <3>n, <4>2, <4>3, <4>4 DEF Passes, r
    <3>6. CASE i + w - 1 <= Len(data) /\ data[i] = "leadFFFD" /\ CloseToTheEnd(dataLen, i)
      <4>1. w = 3
        BY <3>w, <3>6 DEF Widths
      <4>2. f[i] = HandleLastBytes(s)
        BY <2>1, <2>3, <3>1, <3>6 DEF RuneStart, s
      <4>3. ASSUME NEW k \in {2, 3}, k <= Len(s) PROVE s[k] = "cont"
        <5>1. i + k - 1 \in i + 1 .. i + w - 1 /\ i + k - 1 <= Len(data) /\ k \in 1 .. Len(data) - i + 1
          BY <3>1, <3>6, <3>s, <4>1, <4>3
        <5> QED BY <3>3, <3>s, <5>1
      <4>4. w # 1 /\ \A k \in {2, 3} : k <= Len(s) => s[k] = "cont"
        BY <4>1, <4>3
      <4> QED BY <3>6, <3>k, <4>2, <4>4
    <3>4. CASE i + w - 1 <= Len(data) /\ ~(data[i] = "leadFFFD" /\ CloseToTheEnd(dataLen, i))
      <4> DEFINE p == SubSeq(data, i, i + w - 1)
                 j == i + w
      <4>1. RuneWidth(data, i) = w
        <5>1. \A k \in i + 1 .. i + w - 1 : data[k] = "cont"
          BY <3>2, <3>3, <3>4
        <5> QED BY <3>w, <3>4, <5>1 DEF RuneWidth
      <4>2. f[i] = Before(p, f[j])
        BY <2>1, <2>3, <3>2, <3>4, <4>1
      <4> HIDE DEF j
      <4>j. j = i + w
        BY DEF j
      <4>3. j \in i + 1 .. n
        BY <3>1, <3>2, <3>4, <4>j
      <4>4. j = n \/ data[j] # "cont"
        <5>1. CASE i + w <= Len(data)
          BY <3>1, <3>w, <4>j, <5>1, StartFollows
        <5>2. CASE i + w > Len(data)
          BY <3>1, <3>2, <3>4, <4>j, <5>2
        <5> QED BY <3>1, <3>2, <5>1, <5>2
      <4>5. f[j].out \in Seq(Output) /\ Passes(data, j, f[j])
        BY <1>2, <4>3, <4>4 DEF S
      <4>6. p \in Seq(Bytes) /\ Len(p) = w /\ \A k \in 1 .. w : p[k] = data[i + k - 1]
        <5>1. i \in 1 .. Len(data) + 1 /\ i + w - 1 \in i - 1 .. Len(data) /\ (i + w - 1) - i + 1 = w
          BY <3>1, <3>2, <3>4
        <5> QED BY <5>1, Slice
      <4> DEFINE q == f[j].out
                 o == p \o q
      <4>7. f[i].out = o /\ f[i].rest = f[j].rest
        <5> HIDE DEF p
        <5> QED BY <4>2 DEF Before
      <4>8. p \in Seq(Output)
        BY <4>6 DEF Output
      <4>9. /\ o \in Seq(Output) /\ Len(o) = w + Len(q) /\ Len(q) \in Nat
            /\ \A k \in 1 .. w + Len(q) : o[k] = IF k <= w THEN p[k] ELSE q[k - w]
        <5>1. q \in Seq(Output)
          BY <4>5
        <5> HIDE DEF p, q
        <5> QED BY <3>2, <4>6, <4>8, <5>1, ConcatProperties
      <4>10. \A k \in 1 .. Len(q) : q[k] = data[j + k - 1]
        BY <4>5 DEF Passes
      <4> HIDE DEF o, q, p, S
      <4>11. ASSUME NEW k \in 1 .. Len(o) PROVE o[k] = data[i + k - 1]
        <5>1. CASE k <= w
          BY <3>2, <4>6, <4>9, <5>1
        <5>2. CASE k > w
          <6>1. k - w \in 1 .. Len(q) /\ j + (k - w) - 1 = i + k - 1
            BY <3>1, <3>2, <4>j, <4>9, <5>2
          <6>2. o[k] = q[k - w]
            BY <3>2, <4>9, <5>2
          <6> QED BY <4>10, <6>1, <6>2
        <5> QED BY <3>2, <5>1, <5>2
      <4>12. Waits(f[i].rest)
        BY <4>5, <4>7 DEF Passes
      <4> QED BY <4>7, <4>9, <4>11, <4>12 DEF Passes
    <3>5. CASE i + w - 1 > Len(data)
      <4>w. i + w - 1 > Len(data) /\ i <= Len(data) /\ i \in Int /\ Len(data) \in Int /\ w \in Int
        BY <3>1, <3>2, <3>5
      <4>1. Len(s) \in 1 .. 3 /\ w > Len(s)
        BY <3>1, <3>2, <3>5, <3>s
      <4>2. f[i] = HandleLastBytes(s)
        <5>1. RuneWidth(data, i) = 0
          BY <3>1, <3>2, <3>w, <3>5 DEF RuneWidth
        <5>2. CloseToTheEnd(dataLen, i)
          BY <3>1, <3>2, <3>5 DEF CloseToTheEnd, UTFMax
        <5> QED BY <2>1, <2>3, <3>1, <5>1, <5>2 DEF RuneStart, s
      <4>3. ASSUME NEW k \in {2, 3}, k <= Len(s) PROVE s[k] = "cont"
        <5>1. i + k - 1 \in i + 1 .. i + w - 1 /\ i + k - 1 <= Len(data) /\ k \in 1 .. Len(data) - i + 1
          BY <3>1, <3>2, <3>5, <3>s, <4>1, <4>3
        <5> QED BY <3>3, <3>s, <5>1
      <4>4. w # 1 /\ \A k \in {2, 3} : k <= Len(s) => s[k] = "cont"
        <5>1. w # 1
          BY <4>w
        <5> QED BY <4>3, <5>1
      <4> QED BY <3>k, <4>1, <4>2, <4>4
    <3> QED BY <3>1, <3>2, <3>4, <3>5, <3>6
  <2> QED BY <2>2, <2>3
<1>3. 1 \in 1 .. n /\ n \in Nat
  OBVIOUS
<1>4. 1 \in S
  <2> HIDE DEF S, n
  <2> QED BY <1>2, <1>3, Downward
<1>5. 1 = n \/ data[1] # "cont"
  <2> SUFFICES ASSUME Len(data) > 0 PROVE data[1] # "cont"
    OBVIOUS
  <2>1. 1 \in DOMAIN data /\ data[1] # Placeholder
    BY WidthOf
  <2>2. PICK j \in 1 .. 1 : Whole(data, j, TRUE)
    BY <2>1 DEF Text
  <2>3. j = 1
    OBVIOUS
  <2> QED BY <2>2, <2>3, WidthOf DEF Whole
<1> QED BY <1>1, <1>4, <1>5

-----------------------------------------------------------------------------
(***************************************************************************)
(* The filter, chunk by chunk.                                             *)
(***************************************************************************)
\* Text is sent as it is, if it is valid as a whole.
LEMMA FilteredFits ==
  ASSUME NEW data \in Seq(Bytes), NEW dataLen \in Nat, dataLen <= Len(data)
  PROVE  LET r == Filtered(data, dataLen)
         IN  /\ Fits(data, 1, r)
             /\ Text(data, TRUE) => Passes(data, 1, r)
             /\ Text(data, FALSE) => Len(r.rest) = 0
<1> DEFINE r == Filtered(data, dataLen)
<1>1. CASE Text(data, FALSE)
  <2>1. r.out = data /\ r.rest = <<>>
    BY <1>1 DEF Filtered
  <2>2. /\ <<>> \in Seq(Bytes) /\ Len(<<>>) = 0 /\ 1 .. 0 = {} /\ Len(data) \in Nat
        /\ data \in Seq(Output)
    BY DEF Output
  <2>3. \A k \in 1 .. Len(data) : data[1 + k - 1] = data[k]
    OBVIOUS
  <2> HIDE DEF r
  <2>4. Len(r.out) + Len(r.rest) = Len(data) + 1 - 1
    BY <2>1, <2>2
  <2>5. Fits(data, 1, r)
    BY <1>1, <2>1, <2>2, <2>3, <2>4 DEF Fits
  <2>6. Passes(data, 1, r)
    BY <2>1, <2>2, <2>3 DEF Passes, Waits
  <2> QED BY <2>1, <2>2, <2>5, <2>6 DEF r
<1>2. CASE ~Text(data, FALSE)
  <2>1. r = Filter(data, dataLen)
    BY <1>2 DEF Filtered
  <2> HIDE DEF r
  <2> QED BY <1>2, <2>1, FilterFits, FilterPasses DEF r
<1> QED BY <1>1, <1>2

\* What has been sent is what was received, as long as that was text.
AsItCame ==
    ~overwritten /\ Text(given, TRUE) =>
        /\ \A k \in 1 .. Len(sent) : sent[k] = given[k]
        /\ Waits(rest)
        /\ Text(given, FALSE) => Len(rest) = 0

FilterInv ==
    /\ FilterTypeOK
    /\ OutputIsText
    /\ Text(sent, FALSE)
    /\ OnlyReplaces
    /\ AsItCame

LEMMA KeptBytes ==
  ASSUME FilterTypeOK, NEW chunk \in Seq(Bytes)
  PROVE  /\ Kept(chunk) \in Seq(Bytes) /\ Len(Kept(chunk)) = Len(rest)
         /\ rest \in Seq(Bytes)
<1>1. rest \in Seq(Bytes) /\ at \in {Own} \cup 0 .. BufferSize - 1 /\ BufferSize \in Nat
  BY FilterAssumption DEF FilterTypeOK, FilterAssumption
<1> DEFINE k == Kept(chunk)
<1>2. k \in [1 .. Len(rest) -> Bytes]
  <2>1. ASSUME NEW i \in DOMAIN rest, at # Own, at + i <= Len(chunk) PROVE chunk[at + i] \in Bytes
    <3>1. at + i \in 1 .. Len(chunk)
      BY <1>1, <2>1
    <3> QED BY <3>1
  <2>2. \A i \in DOMAIN rest : rest[i] \in Bytes
    BY <1>1
  <2>3. DOMAIN rest = 1 .. Len(rest)
    BY <1>1
  <2> QED BY <2>1, <2>2, <2>3 DEF Kept
<1>3. Len(rest) \in Nat
  BY <1>1
<1> HIDE DEF k
<1>4. k \in Seq(Bytes) /\ Len(k) = Len(rest)
  BY <1>2, <1>3
<1> QED BY <1>1, <1>4 DEF k

\* What ProcessRaw does, byte by byte.
LEMMA ProcessRawFits ==
  ASSUME FilterTypeOK, NEW chunk \in Seq(Bytes), ProcessRaw(chunk)
  PROVE  \E data \in Seq(Bytes) :
            /\ data = Kept(chunk) \o chunk
            /\ Len(data) = Len(rest) + Len(chunk)
            /\ out' \in Seq(Output) /\ rest' \in Seq(Bytes) /\ Text(out', FALSE)
            /\ Len(out') + Len(rest') = Len(data)
            /\ \A k \in 1 .. Len(out') : out'[k] \in {data[k], Placeholder}
            /\ \A k \in 1 .. Len(rest') : rest'[k] = data[Len(out') + k]
            /\ Text(data, TRUE) =>
                  /\ \A k \in 1 .. Len(out') : out'[k] = data[k]
                  /\ Waits(rest')
            /\ Text(data, FALSE) => Len(rest') = 0
<1> DEFINE data == Kept(chunk) \o chunk
           r == Filtered(data, Len(chunk))
           p == Len(out')
           q == Len(rest')
           n == Len(data)
<1>1. Kept(chunk) \in Seq(Bytes) /\ Len(Kept(chunk)) = Len(rest)
  BY KeptBytes
<1>2. rest \in Seq(Bytes) /\ Len(rest) \in Nat /\ Len(chunk) \in Nat
  BY DEF FilterTypeOK
<1>3. data \in Seq(Bytes) /\ n = Len(rest) + Len(chunk)
  BY <1>1
<1>4. rest' = r.rest /\ out' = r.out
  BY DEF ProcessRaw
<1> HIDE DEF data
<1>5. /\ Fits(data, 1, r)
      /\ Text(data, TRUE) => Passes(data, 1, r)
      /\ Text(data, FALSE) => Len(r.rest) = 0
  <2>1. Len(chunk) <= Len(data)
    BY <1>2, <1>3
  <2> QED BY <1>2, <1>3, <2>1, FilteredFits
<1> HIDE DEF r
<1>7. out' \in Seq(Output) /\ rest' \in Seq(Bytes) /\ Text(out', FALSE)
  BY <1>4, <1>5 DEF Fits
<1>8. p \in Nat /\ q \in Nat /\ n \in Nat
  BY <1>3, <1>7
<1>9. /\ p + q = n + 1 - 1
      /\ \A k \in 1 .. p : out'[k] \in {data[1 + k - 1], Placeholder}
      /\ \A k \in 1 .. q : rest'[k] = data[1 + p + k - 1]
  BY <1>4, <1>5 DEF Fits
<1>10. Text(data, TRUE) =>
          /\ \A k \in 1 .. p : out'[k] = data[1 + k - 1]
          /\ Waits(rest')
  BY <1>4, <1>5 DEF Passes
<1>17. Text(data, FALSE) => q = 0
  BY <1>4, <1>5
<1>n. n = Len(data)
  OBVIOUS
<1> HIDE DEF p, q, n
<1>11. p + q = n
  BY <1>8, <1>9
<1>12. \A k \in 1 .. p : 1 + k - 1 = k
  BY <1>8
<1>13. \A k \in 1 .. q : 1 + p + k - 1 = p + k
  BY <1>8
<1>14. /\ \A k \in 1 .. p : out'[k] \in {data[k], Placeholder}
       /\ \A k \in 1 .. q : rest'[k] = data[p + k]
  BY <1>9, <1>12, <1>13
<1>15. Text(data, TRUE) => /\ \A k \in 1 .. p : out'[k] = data[k]
                           /\ Waits(rest')
  BY <1>10, <1>12
<1>16. data = Kept(chunk) \o chunk
  BY DEF data
<1> QED BY <1>3, <1>7, <1>11, <1>14, <1>15, <1>16, <1>17, Zenon DEF p, q, n

LEMMA FilterTypesKept ==
  ASSUME FilterTypeOK, NEW chunk \in Seq(Bytes), ProcessRaw(chunk)
  PROVE  FilterTypeOK'
<1>1. PICK data \in Seq(Bytes) :
         /\ data = Kept(chunk) \o chunk
         /\ out' \in Seq(Output) /\ rest' \in Seq(Bytes)
         /\ Len(out') + Len(rest') = Len(data)
  BY ProcessRawFits
<1>2. /\ given \in Seq(Bytes) /\ sent \in Seq(Output) /\ overwritten \in BOOLEAN
      /\ at \in {Own} \cup 0 .. BufferSize - 1 /\ BufferSize \in Nat
  BY FilterAssumption DEF FilterTypeOK, FilterAssumption, Output
<1>3. given' = given \o chunk /\ sent' = sent \o out'
  BY DEF ProcessRaw
<1>4. given' \in Seq(Bytes) /\ sent' \in Seq(Output)
  BY <1>1, <1>2, <1>3
<1>5. overwritten' \in BOOLEAN
  BY DEF ProcessRaw
<1>6. at' \in {Own} \cup 0 .. BufferSize - 1
  <2> DEFINE start == IF rest = <<>> THEN 0 ELSE at
             m == Len(data)
             o == Len(out')
             q == Len(rest')
  <2>1. at' = IF (start # Own /\ start + m <= BufferSize) /\ rest' # <<>> THEN start + m - q ELSE Own
    BY <1>1 DEF ProcessRaw
  <2>2. start = Own \/ start \in Nat
    BY <1>2
  <2>3. m \in Nat /\ o \in Nat /\ q \in Nat /\ o + q = m
    BY <1>1
  <2>4. rest' # <<>> => q > 0
    BY <1>1
  <2> HIDE DEF start, m, o, q
  <2>5. CASE at' = start + m - q /\ start # Own /\ start + m <= BufferSize /\ rest' # <<>>
    BY <1>2, <2>2, <2>3, <2>4, <2>5
  <2>6. CASE at' = Own
    BY <2>6
  <2> QED BY <2>1, <2>5, <2>6
<1> QED BY <1>1, <1>4, <1>5, <1>6 DEF FilterTypeOK, Output

\* The data of the loop are the end of what has been received.
LEMMA DataIsTheEnd ==
  ASSUME FilterTypeOK, OnlyReplaces, NEW chunk \in Seq(Bytes), ProcessRaw(chunk),
         NEW data \in Seq(Bytes), data = Kept(chunk) \o chunk, Len(data) = Len(rest) + Len(chunk),
         ~overwritten'
  PROVE  \A k \in 1 .. Len(data) : data[k] = given'[Len(sent) + k]
<1>1. given \in Seq(Bytes) /\ sent \in Seq(Output) /\ rest \in Seq(Bytes)
  BY DEF FilterTypeOK, Output
<1>2. given' = given \o chunk /\ data = rest \o chunk /\ ~overwritten
  BY DEF ProcessRaw
<1> DEFINE m == Len(data)
           c == Len(chunk)
           t == Len(sent)
           u == Len(rest)
           g == Len(given)
<1>3. m \in Nat /\ c \in Nat /\ t \in Nat /\ u \in Nat /\ g \in Nat
  BY <1>1
<1>4. t + u = g
  BY DEF OnlyReplaces
<1>5. m = u + c
  OBVIOUS
<1>6. /\ \A k \in 1 .. g : given'[k] = given[k]
      /\ \A k \in 1 .. c : given'[g + k] = chunk[k]
      /\ \A k \in 1 .. u : data[k] = rest[k]
      /\ \A k \in 1 .. c : data[u + k] = chunk[k]
  BY <1>1, <1>2
<1>7. \A k \in 1 .. u : rest[k] = given[t + k]
  <2>1. DOMAIN rest = 1 .. u
    BY <1>1
  <2> HIDE DEF u, t
  <2> QED BY <1>2, <2>1 DEF OnlyReplaces, t
<1> HIDE DEF m, c, t, u, g
<1>8. ASSUME NEW k \in 1 .. m PROVE data[k] = given'[t + k]
  <2>1. CASE k <= u
    <3>1. k \in 1 .. u /\ t + k \in 1 .. g
      BY <1>3, <1>4, <1>5, <2>1
    <3>2. data[k] = rest[k] /\ rest[k] = given[t + k] /\ given'[t + k] = given[t + k]
      BY <1>6, <1>7, <3>1
    <3> QED BY <3>2
  <2>2. CASE k > u
    <3>1. k - u \in 1 .. c /\ k = u + (k - u) /\ t + k = g + (k - u)
      BY <1>3, <1>4, <1>5, <2>2
    <3>2. data[u + (k - u)] = chunk[k - u] /\ given'[g + (k - u)] = chunk[k - u]
      BY <1>6, <3>1
    <3>3. data[u + (k - u)] = data[k] /\ given'[g + (k - u)] = given'[t + k]
      BY <3>1, Zenon
    <3> QED BY <3>2, <3>3
  <2>3. k <= u \/ k > u
    BY <1>3
  <2> QED BY <2>1, <2>2, <2>3
<1> QED BY <1>8 DEF m, t

LEMMA OnlyReplacesKept ==
  ASSUME FilterTypeOK, OnlyReplaces, NEW chunk \in Seq(Bytes), ProcessRaw(chunk)
  PROVE  OnlyReplaces'
<1>1. PICK data \in Seq(Bytes) :
         /\ data = Kept(chunk) \o chunk
         /\ Len(data) = Len(rest) + Len(chunk)
         /\ out' \in Seq(Output) /\ rest' \in Seq(Bytes)
         /\ Len(out') + Len(rest') = Len(data)
         /\ \A k \in 1 .. Len(out') : out'[k] \in {data[k], Placeholder}
         /\ \A k \in 1 .. Len(rest') : rest'[k] = data[Len(out') + k]
  BY ProcessRawFits
<1>2. given \in Seq(Bytes) /\ sent \in Seq(Output) /\ rest \in Seq(Bytes)
  BY DEF FilterTypeOK, Output
<1>3. given' = given \o chunk /\ sent' = sent \o out'
  BY DEF ProcessRaw
<1> DEFINE o == Len(out')
           q == Len(rest')
           m == Len(data)
           c == Len(chunk)
           t == Len(sent)
           u == Len(rest)
           g == Len(given)
<1>4. o \in Nat /\ q \in Nat /\ m \in Nat /\ c \in Nat /\ t \in Nat /\ u \in Nat /\ g \in Nat
  BY <1>1, <1>2
<1>5. t + u = g
  BY DEF OnlyReplaces
<1>6. o + q = m /\ m = u + c
  BY <1>1
<1>7. Len(given') = g + c /\ Len(sent') = t + o
  BY <1>1, <1>2, <1>3
<1>8. /\ \A k \in 1 .. t : sent'[k] = sent[k]
      /\ \A k \in 1 .. o : sent'[t + k] = out'[k]
      /\ \A k \in 1 .. g : given'[k] = given[k]
      /\ DOMAIN sent' = 1 .. Len(sent') /\ DOMAIN rest' = 1 .. q
      /\ DOMAIN sent = 1 .. t
  BY <1>1, <1>2, <1>3
<1>9. (~overwritten') => /\ ~overwritten
                       /\ \A k \in 1 .. t : sent[k] \in {given[k], Placeholder}
  BY <1>8 DEF ProcessRaw, OnlyReplaces
<1>10. (~overwritten') => \A k \in 1 .. m : data[k] = given'[t + k]
  BY <1>1, DataIsTheEnd
<1>11. /\ \A k \in 1 .. o : out'[k] \in {data[k], Placeholder}
       /\ \A k \in 1 .. q : rest'[k] = data[o + k]
  BY <1>1
<1> HIDE DEF o, q, m, c, t, u, g
<1>12. ASSUME ~overwritten', NEW k \in 1 .. t + o PROVE sent'[k] \in {given'[k], Placeholder}
  <2>1. CASE k <= t
    <3>1. k \in 1 .. t /\ k \in 1 .. g
      BY <1>4, <1>5, <2>1
    <3> QED BY <1>8, <1>9, <1>12, <3>1
  <2>2. CASE k > t
    <3>1. k - t \in 1 .. o /\ k - t \in 1 .. m /\ k = t + (k - t)
      BY <1>4, <1>6, <2>2
    <3>2. sent'[t + (k - t)] = out'[k - t] /\ data[k - t] = given'[t + (k - t)]
      BY <1>8, <1>10, <1>12, <3>1
    <3> QED BY <1>11, <3>1, <3>2
  <2> QED BY <1>4, <2>1, <2>2
<1>13. ASSUME ~overwritten', NEW k \in 1 .. q PROVE rest'[k] = given'[t + o + k]
  <2>1. o + k \in 1 .. m /\ t + (o + k) = t + o + k
    BY <1>4, <1>6
  <2> QED BY <1>10, <1>11, <1>13, <2>1
<1>14. t + o + q = g + c
  BY <1>4, <1>5, <1>6
<1>15. Len(sent') + Len(rest') = Len(given')
  BY <1>7, <1>14 DEF q
<1> QED BY <1>7, <1>8, <1>12, <1>13, <1>15 DEF OnlyReplaces, q

\* The beginning of text is text with its end cut off, ...
LEMMA TextBefore ==
  ASSUME NEW a \in Seq(Bytes), NEW b \in Seq(Bytes), Text(a \o b, TRUE)
  PROVE  Text(a, TRUE)
<1> DEFINE s == a \o b
<1>1. /\ s \in Seq(Bytes) /\ Len(s) = Len(a) + Len(b) /\ DOMAIN s = 1 .. Len(s)
      /\ DOMAIN a = 1 .. Len(a) /\ Len(a) \in Nat /\ Len(b) \in Nat
      /\ \A k \in 1 .. Len(a) : s[k] = a[k]
  OBVIOUS
<1>2. Text(s, TRUE)
  OBVIOUS
<1> HIDE DEF s
<1>3. ASSUME NEW i \in 1 .. Len(a), a[i] # Placeholder
      PROVE  \E j \in 1 .. i : Whole(a, j, TRUE) /\ i < j + Widths[a[j]]
  <2>1. i \in DOMAIN s /\ s[i] # Placeholder
    BY <1>1, <1>3
  <2>2. PICK j \in 1 .. i : Whole(s, j, TRUE) /\ i < j + Widths[s[j]]
    BY <1>2, <2>1 DEF Text
  <2>3. j \in 1 .. Len(a) /\ s[j] = a[j] /\ a[j] \in Bytes
    BY <1>1
  <2>4. Widths[a[j]] \in 0 .. 4
    BY <2>3, WidthOf
  <2>5. ASSUME NEW k \in j + 1 .. j + Widths[a[j]] - 1, k <= Len(a) PROVE a[k] = "cont"
    <3>1. k \in 1 .. Len(a) /\ k <= Len(s)
      BY <1>1, <2>3, <2>4, <2>5
    <3>2. k \in j + 1 .. j + Widths[s[j]] - 1
      BY <2>3
    <3>3. s[k] = "cont"
      BY <2>2, <3>1, <3>2 DEF Whole
    <3> QED BY <1>1, <3>1, <3>3
  <2>6. Whole(a, j, TRUE)
    BY <2>2, <2>3, <2>5 DEF Whole
  <2> QED BY <2>2, <2>3, <2>6
<1> QED BY <1>1, <1>3 DEF Text

\* ... and what follows text in it is text.
LEMMA TextBehind ==
  ASSUME NEW s \in Seq(Bytes), NEW a \in Seq(Output), NEW b \in Seq(Bytes),
         NEW cut, Text(s, cut), Text(a, FALSE), Len(s) = Len(a) + Len(b),
         \A k \in 1 .. Len(a) : a[k] = s[k], \A k \in 1 .. Len(b) : b[k] = s[Len(a) + k]
  PROVE  Text(b, cut)
<1> DEFINE n == Len(a)
<1>1. /\ n \in Nat /\ Len(b) \in Nat /\ DOMAIN s = 1 .. Len(s) /\ DOMAIN a = 1 .. n
      /\ DOMAIN b = 1 .. Len(b)
  OBVIOUS
<1>n. n = Len(a)
  OBVIOUS
<1> HIDE DEF n
\* No character begins before and ends behind the end of a.
<1>2. ASSUME NEW j \in 1 .. n, Whole(s, j, cut) PROVE j + Widths[s[j]] - 1 <= n
  <2>1. s[j] = a[j] /\ j \in 1 .. Len(s) /\ s[j] \in Bytes
    BY <1>1, <1>n
  <2>2. Widths[s[j]] \in 0 .. 4 /\ Widths[s[j]] > 0 /\ s[j] # "cont" /\ s[j] # Placeholder
    BY <1>2, <2>1, WidthOf DEF Whole
  <2>3. PICK h \in 1 .. j : Whole(a, h, FALSE) /\ j < h + Widths[a[h]]
    BY <1>1, <2>1, <2>2 DEF Text
  <2>4. h \in 1 .. n /\ a[h] = s[h] /\ s[h] \in Bytes
    BY <1>1, <1>n
  <2>5. Widths[a[h]] \in 0 .. 4
    BY <2>4, WidthOf
  <2>6. ASSUME h < j PROVE FALSE
    <3>1. j \in h + 1 .. h + Widths[a[h]] - 1
      BY <2>3, <2>4, <2>5, <2>6
    <3>2. a[j] = "cont"
      BY <2>3, <3>1 DEF Whole
    <3> QED BY <2>1, <2>2, <3>2
  <2>7. h = j
    BY <2>6
  <2>8. Whole(a, j, FALSE)
    BY <2>3, <2>7
  <2> DEFINE e == j + Widths[a[j]] - 1
  <2>9. e \in Int /\ (e > j => e \in j + 1 .. e)
    BY <2>1, <2>2
  <2>10. e > j => e <= Len(a)
    BY <2>8, <2>9 DEF Whole
  <2> QED BY <1>1, <1>n, <2>1, <2>2, <2>10
<1>3. ASSUME NEW i \in 1 .. Len(b)
      PROVE  \E j \in 1 .. i : Whole(b, j, cut) /\ i < j + Widths[b[j]]
  <2>1. n + i \in 1 .. Len(s) /\ s[n + i] \in Bytes
    BY <1>1, <1>n
  <2>2. PICK j \in 1 .. n + i : Whole(s, j, cut) /\ n + i < j + Widths[s[j]]
    BY <1>1, <2>1, WidthOf DEF Text
  <2>3. j \in 1 .. Len(s) /\ s[j] \in Bytes
    BY <2>1
  <2>4. Widths[s[j]] \in 0 .. 4
    BY <2>3, WidthOf
  <2>5. j > n
    <3> DEFINE w == Widths[s[j]]
    <3>1. w \in Int /\ n + i < j + w
      BY <2>2, <2>4
    <3>2. j \in 1 .. n => j + w - 1 <= n
      BY <1>2, <2>2
    <3> HIDE DEF w
    <3> QED BY <1>1, <3>1, <3>2
  <2> DEFINE h == j - n
  <2>6. h \in 1 .. i /\ h \in 1 .. Len(b) /\ n + h = j
    BY <1>1, <2>5
  <2>7. b[h] = s[j]
    BY <1>n, <2>6
  <2> HIDE DEF h
  <2>8. ASSUME NEW k \in h + 1 .. h + Widths[b[h]] - 1
        PROVE  IF k <= Len(b) THEN b[k] = "cont" ELSE cut
    <3> DEFINE w == Widths[s[j]]
    <3>w. w \in Int /\ Widths[b[h]] = w /\ Len(s) = n + Len(b)
      BY <1>n, <2>4, <2>7
    <3> HIDE DEF w
    <3>k. h \in Int /\ n \in Int /\ Len(b) \in Int /\ j = n + h /\ h >= 1 /\ k \in h + 1 .. h + w - 1
      BY <1>1, <2>6, <2>8, <3>w
    <3>1. n + k \in j + 1 .. j + w - 1 /\ (k <= Len(b) <=> n + k <= Len(s))
      BY <3>w, <3>k
    <3>2. IF n + k <= Len(s) THEN s[n + k] = "cont" ELSE cut
      BY <2>2, <3>1 DEF Whole, w
    <3>3. k <= Len(b) => k \in 1 .. Len(b)
      BY <3>k
    <3> QED BY <1>n, <3>1, <3>2, <3>3
  <2>9. Whole(b, h, cut)
    <3>1. b[h] # Placeholder /\ Widths[b[h]] > 0
      BY <2>2, <2>7 DEF Whole
    <3>2. \A k \in h + 1 .. h + Widths[b[h]] - 1 : IF k <= Len(b) THEN b[k] = "cont" ELSE cut
      BY <2>8
    <3> QED BY <3>1, <3>2 DEF Whole
  <2>10. i < h + Widths[b[h]]
    <3> DEFINE w == Widths[s[j]]
    <3>1. w \in Int /\ n + i < j + w /\ h \in Int /\ n \in Int
      BY <1>1, <2>2, <2>4, <2>6
    <3>2. Widths[b[h]] = w
      BY <2>7
    <3> HIDE DEF w
    <3>3. i < h + w
      BY <2>6, <3>1
    <3> QED BY <3>2, <3>3
  <2> QED BY <2>6, <2>9, <2>10
<1> QED BY <1>1, <1>3 DEF Text

LEMMA WholeText == \A s : Text(s, FALSE) => Text(s, TRUE)
BY Zenon DEF Text, Whole

LEMMA AsItCameKept ==
  ASSUME FilterInv, NEW chunk \in Seq(Bytes), ProcessRaw(chunk)
  PROVE  AsItCame'
<1>1. PICK data \in Seq(Bytes) :
         /\ data = Kept(chunk) \o chunk
         /\ Len(data) = Len(rest) + Len(chunk)
         /\ out' \in Seq(Output) /\ rest' \in Seq(Bytes)
         /\ Len(out') + Len(rest') = Len(data)
         /\ Text(data, TRUE) =>
               /\ \A k \in 1 .. Len(out') : out'[k] = data[k]
               /\ Waits(rest')
         /\ Text(data, FALSE) => Len(rest') = 0
  BY ProcessRawFits DEF FilterInv
<1>2. given \in Seq(Bytes) /\ sent \in Seq(Output) /\ rest \in Seq(Bytes)
  BY DEF FilterInv, FilterTypeOK, Output
<1>3. given' = given \o chunk /\ sent' = sent \o out'
  BY DEF ProcessRaw
<1> SUFFICES ASSUME ~overwritten', Text(given', TRUE)
             PROVE  /\ \A k \in 1 .. Len(sent') : sent'[k] = given'[k]
                    /\ Waits(rest')
                    /\ Text(given', FALSE) => Len(rest') = 0
  BY DEF AsItCame, Text, Whole, Waits
<1>4. \A k \in 1 .. Len(data) : data[k] = given'[Len(sent) + k]
  BY <1>1, DataIsTheEnd DEF FilterInv
<1>5. Text(given, TRUE)
  BY <1>2, <1>3, TextBefore
<1>6. ~overwritten
  BY DEF ProcessRaw
<1> DEFINE o == Len(out')
           m == Len(data)
           c == Len(chunk)
           t == Len(sent)
           u == Len(rest)
           g == Len(given)
<1>7. o \in Nat /\ m \in Nat /\ c \in Nat /\ t \in Nat /\ u \in Nat /\ g \in Nat /\ Len(rest') \in Nat
  BY <1>1, <1>2
<1>8. /\ Len(given') = g + c /\ Len(sent') = t + o /\ given' \in Seq(Bytes)
      /\ \A k \in 1 .. t : sent'[k] = sent[k]
      /\ \A k \in 1 .. o : sent'[t + k] = out'[k]
      /\ \A k \in 1 .. g : given'[k] = given[k]
  BY <1>1, <1>2, <1>3
<1>9. t + u = g
  BY DEF FilterInv, OnlyReplaces
<1>10. m = u + c
  BY <1>1
<1>11. \A k \in 1 .. t : sent[k] = given[k]
  BY <1>5, <1>6 DEF FilterInv, AsItCame
<1>t. t = Len(sent)
  OBVIOUS
<1>m. m = Len(data)
  OBVIOUS
<1>12. o + Len(rest') = m
  BY <1>1
<1> HIDE DEF o, m, c, t, u, g
<1>13. \A k \in 1 .. t : sent[k] = given'[k]
  <2>1. \A k \in 1 .. t : k \in 1 .. g
    BY <1>7, <1>9
  <2> QED BY <1>8, <1>11, <2>1
<1>18. Len(given') = Len(sent) + Len(data)
  <2>1. Len(given') = t + m
    BY <1>7, <1>8, <1>9, <1>10
  <2> QED BY <1>t, <1>m, <2>1
<1>14. ASSUME NEW cut, Text(given', cut) PROVE Text(data, cut)
  <2>1. PICK s \in Seq(Bytes) : s = given'
    BY <1>8
  <2>2. Text(sent, FALSE)
    BY DEF FilterInv
  <2>3. \A k \in 1 .. Len(sent) : sent[k] = s[k]
    BY <1>13, <1>t, <2>1
  <2>4. \A k \in 1 .. Len(data) : data[k] = s[Len(sent) + k]
    BY <1>4, <2>1
  <2>5. Text(s, cut) /\ Len(s) = Len(sent) + Len(data)
    BY <1>14, <1>18, <2>1
  <2>6. s \in Seq(Bytes) /\ sent \in Seq(Output) /\ data \in Seq(Bytes)
    BY <1>2
  <2> QED BY <2>2, <2>3, <2>4, <2>5, <2>6, TextBehind
<1>17. Text(data, TRUE) /\ (Text(given', FALSE) => Text(data, FALSE))
  BY <1>14
<1>15. \A k \in 1 .. o : out'[k] = data[k]
  BY <1>1, <1>17 DEF o
<1>16. ASSUME NEW k \in 1 .. t + o PROVE sent'[k] = given'[k]
  <2>1. CASE k <= t
    BY <1>7, <1>8, <1>13, <2>1
  <2>2. CASE k > t
    <3>1. k - t \in 1 .. o /\ k - t \in 1 .. m /\ k = t + (k - t)
      BY <1>7, <1>12, <2>2
    <3>2. sent'[t + (k - t)] = out'[k - t] /\ data[k - t] = given'[t + (k - t)]
      BY <1>4, <1>8, <1>t, <1>m, <3>1
    <3> QED BY <1>15, <3>1, <3>2
  <2>3. k <= t \/ k > t
    BY <1>7
  <2> QED BY <2>1, <2>2, <2>3
<1> QED BY <1>1, <1>8, <1>16, <1>17

LEMMA FilterInvKept ==
  ASSUME FilterInv, NEW chunk \in Seq(Bytes), ProcessRaw(chunk)
  PROVE  FilterInv'
<1>1. out' \in Seq(Output) /\ Text(out', FALSE)
  BY ProcessRawFits DEF FilterInv
<1>2. Text(sent', FALSE)
  <2>1. sent' = sent \o out' /\ sent \in Seq(Output) /\ Text(sent, FALSE)
    BY DEF ProcessRaw, FilterInv, FilterTypeOK, Output
  <2> QED BY <1>1, <2>1, TextConcat
<1>3. FilterTypeOK' /\ OnlyReplaces' /\ AsItCame'
  BY FilterTypesKept, OnlyReplacesKept, AsItCameKept DEF FilterInv
<1>4. OutputIsText' /\ Text(sent, FALSE)'
  BY <1>1, <1>2 DEF OutputIsText, Text, Whole
<1> QED BY <1>3, <1>4 DEF FilterInv

LEMMA FilterInvFromInit == FilterInit => FilterInv
<1> SUFFICES ASSUME FilterInit PROVE FilterInv
  OBVIOUS
<1>1. /\ rest = <<>> /\ out = <<>> /\ sent = <<>> /\ given = <<>> /\ at = Own /\ overwritten = FALSE
  BY DEF FilterInit
<1>2. Len(<<>>) = 0 /\ 1 .. 0 = {} /\ DOMAIN <<>> = {} /\ 0 + 0 = 0
  OBVIOUS
<1>3. FilterTypeOK
  <2>1. <<>> \in Seq(Bytes) /\ <<>> \in Seq(Bytes \cup {Placeholder})
    OBVIOUS
  <2>2. {rest, given} \subseteq Seq(Bytes) /\ {out, sent} \subseteq Seq(Bytes \cup {Placeholder})
    BY <1>1, <2>1
  <2> QED BY <1>1, <2>2 DEF FilterTypeOK
<1>4. OutputIsText /\ Text(sent, FALSE)
  BY <1>1, PlaceholderIsText DEF OutputIsText
<1>5. OnlyReplaces
  BY <1>1, <1>2 DEF OnlyReplaces
<1>6. AsItCame
  BY <1>1, <1>2 DEF AsItCame, Waits
<1> QED BY <1>3, <1>4, <1>5, <1>6 DEF FilterInv
=============================================================================
