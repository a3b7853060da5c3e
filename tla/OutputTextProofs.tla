-------------------------- MODULE OutputTextProofs --------------------------
(***************************************************************************)
(* Proofs about the output of a terminal: for any bytes, cut into chunks   *)
(* in any way, and a ring of any size.                                     *)
(***************************************************************************)
EXTENDS OutputText, Utf8StreamFilterProofs

-----------------------------------------------------------------------------
(***************************************************************************)
(* What comes out of the filter.                                           *)
(***************************************************************************)
LEMMA FilterIsInvariant == Spec => []FilterInv
<1>1. Init => FilterInv
  BY FilterInvFromInit DEF Init
<1>2. FilterInv /\ [Next]_vars => FilterInv'
  <2> SUFFICES ASSUME FilterInv, [Next]_vars PROVE FilterInv'
    OBVIOUS
  <2>1. CASE Next
    <3>1. PICK chunk \in UNION {[1 .. n -> Bytes] : n \in 1 .. MaxChunk},
             scanned \in 0 .. MaxBytes : PtyWrite(chunk, scanned)
      BY <2>1 DEF Next
    <3>2. chunk \in Seq(Bytes)
      OBVIOUS
    <3>3. ProcessRaw(chunk)
      BY <3>1 DEF PtyWrite
    <3> QED BY <3>2, <3>3, FilterInvKept
  <2>2. CASE UNCHANGED vars
    BY <2>2 DEF vars, filterVars, FilterInv, FilterTypeOK, OutputIsText, OnlyReplaces, AsItCame, Text, Whole
  <2> QED BY <2>1, <2>2
<1> QED BY <1>1, <1>2, PTL DEF Spec

\* Whatever bytes an exec writes, and however they are cut into chunks, each message
\* to the connections is text (utf8-stream-filter.go:30-143).
THEOREM MessagesAreText == Spec => []OutputIsText
<1>1. FilterInv => OutputIsText
  BY DEF FilterInv
<1> QED BY <1>1, FilterIsInvariant, PTL

\* No byte of the output is lost, doubled or moved, rests that were overwritten apart
\* (utf8-stream-filter.go:30-143).
THEOREM BytesAreOnlyReplaced == Spec => []OnlyReplaces
<1>1. FilterInv => OnlyReplaces
  BY DEF FilterInv
<1> QED BY <1>1, FilterIsInvariant, PTL

\* Valid text comes through as it is, wherever it is cut; what is held back is a
\* character not yet complete, or begins with a U+FFFD, and nothing is once all are
\* complete; rests that were overwritten apart (utf8-stream-filter.go:35-82, 84-143).
THEOREM ValidTextComesThrough == Spec => []TextComesThrough
<1>1. FilterInv => TextComesThrough
  <2> SUFFICES ASSUME FilterInv, ~overwritten, Text(given, TRUE)
               PROVE  /\ sent \o rest = given
                      /\ rest # <<>> => rest[1] = "leadFFFD" \/ Len(rest) < Widths[rest[1]]
                      /\ Text(given, FALSE) => rest = <<>>
    BY Zenon DEF TextComesThrough
  <2>1. given \in Seq(Bytes) /\ sent \in Seq(Output) /\ rest \in Seq(Bytes)
    BY DEF FilterInv, FilterTypeOK, Output
  <2>2. rest # <<>> => Len(rest) > 0
    BY <2>1
  <2> DEFINE s == sent \o rest
             t == Len(sent)
             u == Len(rest)
  <2>3. /\ rest \in Seq(Output) /\ given \in Seq(Output) /\ t \in Nat /\ u \in Nat
    BY <2>1 DEF Output
  <2>4. /\ s \in Seq(Output) /\ Len(s) = t + u
        /\ \A k \in 1 .. t : s[k] = sent[k]
        /\ \A k \in 1 .. u : s[t + k] = rest[k]
    BY <2>1, <2>3
  <2>5. /\ t + u = Len(given)
        /\ \A k \in 1 .. t : sent[k] = given[k]
        /\ \A k \in 1 .. u : rest[k] = given[t + k]
    <3>1. DOMAIN rest = 1 .. u
      BY <2>1
    <3> HIDE DEF u
    <3>2. t + u = Len(given)
      BY DEF FilterInv, OnlyReplaces, u
    <3>3. \A k \in 1 .. u : rest[k] = given[t + k]
      BY <3>1 DEF FilterInv, OnlyReplaces
    <3>4. \A k \in 1 .. t : sent[k] = given[k]
      BY DEF FilterInv, AsItCame
    <3> QED BY <3>2, <3>3, <3>4
  <2> HIDE DEF s, t, u
  <2>6. ASSUME NEW k \in 1 .. t + u PROVE s[k] = given[k]
    <3>1. CASE k <= t
      BY <2>3, <2>4, <2>5, <3>1
    <3>2. CASE k > t
      <4>1. k - t \in 1 .. u /\ k = t + (k - t)
        BY <2>3, <3>2
      <4>2. s[t + (k - t)] = rest[k - t] /\ rest[k - t] = given[t + (k - t)]
        BY <2>4, <2>5, <4>1
      <4> QED BY <4>1, <4>2
    <3>3. k <= t \/ k > t
      BY <2>3
    <3> QED BY <3>1, <3>2, <3>3
  <2>7. s = given
    <3>1. Len(s) = Len(given)
      BY <2>4, <2>5
    <3>2. \A k \in 1 .. Len(s) : s[k] = given[k]
      BY <2>4, <2>6
    <3> QED BY <2>3, <2>4, <3>1, <3>2, SeqEqual
  <2>8. rest # <<>> => rest[1] = "leadFFFD" \/ Len(rest) < Widths[rest[1]]
    BY <2>2 DEF FilterInv, AsItCame, Waits
  <2>9. Text(given, FALSE) => rest = <<>>
    BY <2>1 DEF FilterInv, AsItCame
  <2> QED BY <2>7, <2>8, <2>9 DEF s
<1> QED BY <1>1, FilterIsInvariant, PTL

-----------------------------------------------------------------------------
(***************************************************************************)
(* Pieces, and the ring.                                                   *)
(***************************************************************************)
LEMMA MaxIsThere ==
  ASSUME NEW S, S \subseteq Nat, S # {}, NEW n \in Nat, \A x \in S : x <= n
  PROVE  Max(S) \in S /\ \A x \in S : x <= Max(S)
<1> DEFINE T == {n - x : x \in S}
<1>1. T \subseteq Nat /\ T # {}
  <2>1. \A x \in S : n - x \in Nat
    OBVIOUS
  <2> QED BY <2>1
<1>2. PICK y \in T : \A z \in T : y <= z
  BY <1>1, LeastNumber
<1>3. PICK m \in S : y = n - m
  OBVIOUS
<1>4. ASSUME NEW x \in S PROVE m >= x
  <2>1. n - x \in T
    OBVIOUS
  <2> HIDE DEF T
  <2>2. n - m <= n - x
    BY <1>2, <1>3, <2>1
  <2> QED BY <2>2
<1>5. Max(S) \in S /\ \A x \in S : Max(S) >= x
  BY <1>4, Zenon DEF Max
<1> QED BY <1>5


\* What holds of 0, and of each number if it holds of the one before, up to n, holds
\* of all of them.
LEMMA Upward ==
  ASSUME NEW n \in Nat, NEW S, 0 \in S, \A i \in 1 .. n : i - 1 \in S => i \in S
  PROVE  0 .. n \subseteq S
<1> SUFFICES ASSUME ~(0 .. n \subseteq S) PROVE FALSE
  OBVIOUS
<1> DEFINE T == 0 .. n \ S
<1>1. PICK i \in T : \A j \in T : i <= j
  <2>1. T \subseteq Nat /\ T # {}
    OBVIOUS
  <2> HIDE DEF T
  <2> QED BY <2>1, LeastNumber
<1>2. i \in 1 .. n /\ i - 1 \in 0 .. n
  OBVIOUS
<1>3. i - 1 \in S
  <2>1. i - 1 \in T => i <= i - 1
    BY <1>1
  <2> QED BY <1>2, <2>1
<1> QED BY <1>2, <1>3

\* Functions defined by recursion from 0 upwards.
Counts(n, init, step, f) ==
    f[0] = init /\ \A i \in 1 .. n : f[i] = step[i][f[i - 1]]

LEMMA FoldExists ==
  ASSUME NEW n \in Nat, NEW X, NEW init \in X, NEW step \in [1 .. n -> [X -> X]]
  PROVE  \E f \in [0 .. n -> X] : Counts(n, init, step, f)
<1> DEFINE S == {m \in 0 .. n : \E f \in [0 .. n -> X] : Counts(m, init, step, f)}
<1>1. 0 \in S
  <2> DEFINE f == [i \in 0 .. n |-> init]
  <2>1. f \in [0 .. n -> X] /\ f[0] = init /\ 1 .. 0 = {} /\ 0 \in 0 .. n
    OBVIOUS
  <2> HIDE DEF f
  <2>2. Counts(0, init, step, f)
    BY <2>1 DEF Counts
  <2> QED BY <2>1, <2>2
<1>2. ASSUME NEW m \in 1 .. n, m - 1 \in S PROVE m \in S
  <2>1. PICK f \in [0 .. n -> X] : Counts(m - 1, init, step, f)
    BY <1>2
  <2> DEFINE g == [f EXCEPT ![m] = step[m][f[m - 1]]]
  <2>2. m - 1 \in 0 .. n /\ m \in 0 .. n /\ 0 \in 0 .. n /\ m # 0
    OBVIOUS
  <2>3. g \in [0 .. n -> X]
    BY <2>2
  <2>4. g[m] = step[m][f[m - 1]] /\ \A i \in 0 .. n : i # m => g[i] = f[i]
    BY <2>2
  <2> HIDE DEF g
  <2>5. ASSUME NEW i \in 1 .. m PROVE g[i] = step[i][g[i - 1]]
    <3>1. CASE i = m
      BY <2>2, <2>4, <3>1
    <3>2. CASE i # m
      <4>1. i \in 1 .. m - 1 /\ i \in 0 .. n /\ i - 1 \in 0 .. n /\ i - 1 # m
        BY <3>2
      <4>2. f[i] = step[i][f[i - 1]]
        BY <2>1, <4>1 DEF Counts
      <4> QED BY <2>4, <3>2, <4>1, <4>2
    <3> QED BY <3>1, <3>2
  <2>6. g[0] = init
    BY <2>1, <2>2, <2>4 DEF Counts
  <2>7. Counts(m, init, step, g)
    BY <2>5, <2>6 DEF Counts
  <2> QED BY <2>2, <2>3, <2>7
<1>3. 0 .. n \subseteq S
  <2> HIDE DEF S
  <2> QED BY <1>1, <1>2, Upward
<1>4. n \in S
  <2> HIDE DEF S
  <2> QED BY <1>3
<1> QED BY <1>4

\* The equation that Pieces solves.
PiecesBody(s, f) ==
    [i \in 0 .. Len(s) |->
        IF i = 0 THEN <<>>
        ELSE IF i = 1 \/ s[i - 1] = "nl" THEN Append(f[i - 1], <<s[i]>>)
        ELSE [f[i - 1] EXCEPT ![Len(f[i - 1])] = Append(@, s[i])]]

LEMMA PiecesUnfold ==
  ASSUME NEW T, NEW s \in Seq(T)
  PROVE  \E f : f = PiecesBody(s, f) /\ Pieces(s) = f[Len(s)]
<1> DEFINE n == Len(s)
           X == Seq(Seq(T))
           step == [i \in 1 .. n |-> [p \in X |->
                      IF i = 1 \/ s[i - 1] = "nl" THEN Append(p, <<s[i]>>)
                      ELSE [p EXCEPT ![Len(p)] = Append(@, s[i])]]]
<1>1. n \in Nat /\ <<>> \in X
  OBVIOUS
<1>2. step \in [1 .. n -> [X -> X]]
  <2> SUFFICES ASSUME NEW i \in 1 .. n, NEW p \in X
               PROVE  (IF i = 1 \/ s[i - 1] = "nl" THEN Append(p, <<s[i]>>)
                       ELSE [p EXCEPT ![Len(p)] = Append(@, s[i])]) \in X
    OBVIOUS
  <2>1. s[i] \in T
    OBVIOUS
  <2>2. <<s[i]>> \in Seq(T)
    BY <2>1
  <2>3. Append(p, <<s[i]>>) \in X
    BY <2>2
  <2>4. [p EXCEPT ![Len(p)] = Append(@, s[i])] \in X
    <3>1. CASE Len(p) = 0
      <4> DEFINE e == Append(p[Len(p)], s[i])
                 q == [p EXCEPT ![Len(p)] = e]
      <4>1. p \in [1 .. 0 -> Seq(T)] /\ 1 .. 0 = {}
        BY <3>1
      <4> HIDE DEF e
      <4>2. q = p
        BY <4>1
      <4> QED BY <4>2 DEF e
    <3>2. CASE Len(p) # 0
      <4>1. Len(p) \in 1 .. Len(p) /\ p[Len(p)] \in Seq(T)
        BY <3>2
      <4>2. Append(p[Len(p)], s[i]) \in Seq(T)
        BY <2>1, <4>1
      <4> QED BY <4>1, <4>2, ExceptSeq
    <3> QED BY <3>1, <3>2
  <2> QED BY <2>3, <2>4
<1>3. PICK f \in [0 .. n -> X] : Counts(n, <<>>, step, f)
  <2> HIDE DEF n, X, step
  <2> QED BY <1>1, <1>2, FoldExists
<1>4. f = PiecesBody(s, f)
  <2>1. ASSUME NEW i \in 0 .. n PROVE f[i] = PiecesBody(s, f)[i]
    <3>1. CASE i = 0
      BY <1>3, <3>1 DEF Counts, PiecesBody
    <3>2. CASE i # 0
      <4>1. i \in 1 .. n /\ i - 1 \in 0 .. n
        BY <3>2
      <4>2. f[i] = step[i][f[i - 1]] /\ f[i - 1] \in X
        BY <1>3, <4>1 DEF Counts
      <4> HIDE DEF X
      <4>3. f[i] = IF i = 1 \/ s[i - 1] = "nl" THEN Append(f[i - 1], <<s[i]>>)
                   ELSE [f[i - 1] EXCEPT ![Len(f[i - 1])] = Append(@, s[i])]
        BY <4>1, <4>2, Zenon
      <4> QED BY <3>2, <4>3 DEF PiecesBody
    <3> QED BY <3>1, <3>2
  <2>2. PiecesBody(s, f) = [i \in 0 .. n |-> PiecesBody(s, f)[i]]
    BY DEF PiecesBody
  <2>3. f = [i \in 0 .. n |-> f[i]]
    OBVIOUS
  <2> HIDE DEF n, X, step
  <2> QED BY <2>1, <2>2, <2>3
<1> DEFINE c == CHOOSE g : g = PiecesBody(s, g)
<1>5. Pieces(s) = c[Len(s)]
  BY Zenon DEF Pieces, PiecesBody
<1>6. c = PiecesBody(s, c)
  BY <1>4, Zenon
<1> QED BY <1>5, <1>6

\* Sequences in a row.
FlatBody(seqs, f) ==
    [i \in 1 .. Len(seqs) |-> IF i = 1 THEN seqs[i] ELSE f[i - 1] \o seqs[i]]

Flat(seqs, F) == F[0] = <<>> /\ \A i \in 1 .. Len(seqs) : F[i] = F[i - 1] \o seqs[i]

LEMMA FlatUnfolds ==
  ASSUME NEW T, NEW seqs \in Seq(Seq(T))
  PROVE  \E F \in [0 .. Len(seqs) -> Seq(T)] : Flat(seqs, F) /\ FlattenSeq(seqs) = F[Len(seqs)]
<1> DEFINE n == Len(seqs)
           X == Seq(T)
           step == [i \in 1 .. n |-> [x \in X |-> x \o seqs[i]]]
<1>1. n \in Nat /\ <<>> \in X /\ \A i \in 1 .. n : seqs[i] \in X
  OBVIOUS
<1>2. step \in [1 .. n -> [X -> X]]
  <2> SUFFICES ASSUME NEW i \in 1 .. n, NEW x \in X PROVE x \o seqs[i] \in X
    OBVIOUS
  <2> QED BY <1>1
<1>3. PICK F \in [0 .. n -> X] : Counts(n, <<>>, step, F)
  <2> HIDE DEF n, X, step
  <2> QED BY <1>1, <1>2, FoldExists
<1>4. ASSUME NEW i \in 1 .. n PROVE F[i - 1] \in X /\ F[i] = F[i - 1] \o seqs[i]
  <2>1. i - 1 \in 0 .. n
    OBVIOUS
  <2>2. F[i - 1] \in X
    BY <2>1
  <2>3. F[i] = step[i][F[i - 1]]
    BY <1>3 DEF Counts
  <2> HIDE DEF X, n
  <2> QED BY <2>2, <2>3
<1>5. F[0] = <<>>
  BY <1>3 DEF Counts
<1>6. CASE n = 0
  <2>1. FlattenSeq(seqs) = seqs /\ seqs = <<>>
    BY <1>6 DEF FlattenSeq
  <2> QED BY <1>4, <1>5, <1>6, <2>1 DEF Flat
<1>7. CASE n # 0
  <2> DEFINE f == [i \in 1 .. n |-> F[i]]
             c == CHOOSE g : g = FlatBody(seqs, g)
             S == {i \in 0 .. n : i > 0 => c[i] = F[i]}
  <2>1. f = FlatBody(seqs, f)
    <3>1. ASSUME NEW i \in 1 .. n PROVE f[i] = IF i = 1 THEN seqs[i] ELSE f[i - 1] \o seqs[i]
      <4>1. CASE i = 1
        <5>0. 1 \in 1 .. n /\ 1 - 1 = 0
          BY <4>1
        <5>1. F[1] = F[0] \o seqs[1]
          BY <1>4, <5>0
        <5>2. <<>> \o seqs[1] = seqs[1]
          BY <1>1, <4>1
        <5> QED BY <1>5, <4>1, <5>1, <5>2
      <4>2. CASE i # 1
        <5>1. i - 1 \in 1 .. n
          BY <4>2
        <5> QED BY <1>4, <4>2, <5>1
      <4> QED BY <4>1, <4>2
    <3> HIDE DEF f, n
    <3>2. f = [i \in 1 .. n |-> IF i = 1 THEN seqs[i] ELSE f[i - 1] \o seqs[i]]
      BY <3>1 DEF f
    <3> QED BY <3>2, Zenon DEF FlatBody, n
  <2>2. c = FlatBody(seqs, c)
    BY <2>1, Zenon
  <2>3. FlattenSeq(seqs) = c[n]
    BY <1>7, Zenon DEF FlattenSeq, FlatBody
  <2>4. ASSUME NEW i \in 1 .. n, i - 1 \in S PROVE i \in S
    <3>0. i \in 0 .. n
      OBVIOUS
    <3>1. c[i] = IF i = 1 THEN seqs[i] ELSE c[i - 1] \o seqs[i]
      BY <2>2, Zenon DEF FlatBody
    <3>2. CASE i = 1
      <4>1. <<>> \o seqs[1] = seqs[1] /\ 1 \in 1 .. n /\ 1 - 1 = 0
        BY <1>1, <3>2
      <4>2. F[1] = F[0] \o seqs[1]
        BY <1>4, <4>1
      <4>3. c[i] = F[i]
        BY <1>5, <3>1, <3>2, <4>1, <4>2
      <4> QED BY <3>0, <4>3
    <3>3. CASE i # 1
      <4>1. i - 1 \in 0 .. n /\ i - 1 > 0
        BY <3>3
      <4>2. c[i - 1] = F[i - 1]
        BY <2>4, <4>1
      <4>3. c[i] = F[i]
        BY <1>4, <3>1, <3>3, <4>2
      <4> QED BY <3>0, <4>3
    <3> QED BY <3>2, <3>3
  <2>5. 0 \in S
    BY <1>1
  <2>6. 0 .. n \subseteq S
    <3> HIDE DEF S, c, n
    <3> QED BY <1>1, <2>4, <2>5, Upward
  <2>7. n \in 0 .. n /\ n > 0
    BY <1>1, <1>7
  <2>8. c[n] = F[n]
    <3> HIDE DEF c, n
    <3> QED BY <2>6, <2>7
  <2> HIDE DEF c
  <2> QED BY <1>4, <1>5, <2>3, <2>8 DEF Flat
<1> QED BY <1>6, <1>7

LEMMA FlatOne ==
  ASSUME NEW T, NEW x \in Seq(T)
  PROVE  FlattenSeq(<<x>>) = x
<1> DEFINE s == <<x>>
<1>1. s \in Seq(Seq(T)) /\ Len(s) = 1 /\ s[1] = x
  OBVIOUS
<1> HIDE DEF s
<1>2. PICK F : Flat(s, F) /\ FlattenSeq(s) = F[Len(s)]
  BY <1>1, FlatUnfolds
<1>3. 1 \in 1 .. 1 /\ 1 - 1 = 0
  OBVIOUS
<1>4. F[1] = <<>> \o x
  BY <1>1, <1>2, <1>3 DEF Flat
<1>5. FlattenSeq(s) = x
  BY <1>1, <1>2, <1>4
<1> QED BY <1>5 DEF s

\* Three sequences are joined in either order.
EitherWay(p, q, u) == (p \o q) \o u = p \o (q \o u)

LEMMA ThreeJoined ==
  ASSUME NEW T, NEW p \in Seq(T), NEW q \in Seq(T), NEW u \in Seq(T)
  PROVE  EitherWay(p, q, u)
BY ConcatAssociative DEF EitherWay

LEMMA FlatConcat ==
  ASSUME NEW T, NEW a \in Seq(Seq(T)), NEW b \in Seq(Seq(T))
  PROVE  /\ FlattenSeq(a \o b) = FlattenSeq(a) \o FlattenSeq(b)
         /\ FlattenSeq(a) \in Seq(T)
<1> DEFINE s == a \o b
           m == Len(a)
           n == Len(b)
<1>1. /\ s \in Seq(Seq(T)) /\ Len(s) = m + n /\ m \in Nat /\ n \in Nat
      /\ \A i \in 1 .. m : s[i] = a[i]
      /\ \A i \in 1 .. n : s[m + i] = b[i] /\ b[i] \in Seq(T)
  OBVIOUS
<1>2. PICK A \in [0 .. m -> Seq(T)] : Flat(a, A) /\ FlattenSeq(a) = A[m]
  BY FlatUnfolds
<1>3. PICK B \in [0 .. n -> Seq(T)] : Flat(b, B) /\ FlattenSeq(b) = B[n]
  BY FlatUnfolds
<1> HIDE DEF s
<1>4. PICK F \in [0 .. m + n -> Seq(T)] : Flat(s, F) /\ FlattenSeq(s) = F[m + n]
  <2>1. PICK F \in [0 .. Len(s) -> Seq(T)] : Flat(s, F) /\ FlattenSeq(s) = F[Len(s)]
    BY <1>1, FlatUnfolds
  <2>2. Len(s) = m + n
    BY <1>1
  <2> HIDE DEF m, n
  <2> QED BY <2>1, <2>2
<1>5. /\ A[0] = <<>> /\ B[0] = <<>> /\ F[0] = <<>>
      /\ \A i \in 1 .. m : A[i] = A[i - 1] \o a[i]
      /\ \A i \in 1 .. n : B[i] = B[i - 1] \o b[i]
      /\ \A i \in 1 .. m + n : F[i] = F[i - 1] \o s[i]
  BY <1>1, <1>2, <1>3, <1>4 DEF Flat
<1> HIDE DEF m, n
<1>6. 0 .. m \subseteq {i \in 0 .. m : F[i] = A[i]}
  <2> DEFINE S == {i \in 0 .. m : F[i] = A[i]}
  <2>1. 0 \in S
    BY <1>1, <1>5
  <2>2. ASSUME NEW i \in 1 .. m, i - 1 \in S PROVE i \in S
    <3>1. i \in 1 .. m + n /\ i \in 0 .. m
      BY <1>1
    <3>2. F[i] = F[i - 1] \o a[i] /\ A[i] = A[i - 1] \o a[i]
      BY <1>1, <1>5, <3>1
    <3> QED BY <2>2, <3>1, <3>2
  <2> HIDE DEF S
  <2>3. 0 .. m \subseteq S
    BY <1>1, <2>1, <2>2, Upward
  <2> QED BY <2>3 DEF S
<1>7. A[m] \in Seq(T) /\ F[m] = A[m]
  <2>1. m \in 0 .. m
    BY <1>1
  <2> QED BY <1>6, <2>1
<1>8. 0 .. n \subseteq {i \in 0 .. n : F[m + i] = A[m] \o B[i]}
  <2> DEFINE S == {i \in 0 .. n : F[m + i] = A[m] \o B[i]}
  <2>1. 0 \in S
    <3>1. A[m] \o <<>> = A[m] /\ m + 0 = m /\ 0 \in 0 .. n
      BY <1>1, <1>7
    <3> QED BY <1>5, <1>7, <3>1
  <2>2. ASSUME NEW i \in 1 .. n, i - 1 \in S PROVE i \in S
    <3>1. m + i \in 1 .. m + n /\ m + i - 1 = m + (i - 1) /\ i \in 0 .. n /\ i - 1 \in 0 .. n
      BY <1>1
    <3>2. F[m + i] = F[m + (i - 1)] \o b[i] /\ B[i] = B[i - 1] \o b[i]
      <4>1. PICK h \in 1 .. m + n : h = m + i
        BY <3>1
      <4>2. F[h] = F[h - 1] \o s[h]
        BY <1>5
      <4>3. h - 1 = m + (i - 1)
        BY <1>1, <3>1, <4>1
      <4>4. s[h] = b[i]
        BY <1>1, <4>1
      <4>5. F[m + i] = F[m + (i - 1)] \o b[i]
        BY <4>1, <4>2, <4>3, <4>4, Zenon
      <4>6. B[i] = B[i - 1] \o b[i]
        BY <1>5
      <4> QED BY <4>5, <4>6
    <3>3. B[i - 1] \in Seq(T) /\ b[i] \in Seq(T)
      BY <1>1, <3>1
    <3>4. (A[m] \o B[i - 1]) \o b[i] = A[m] \o (B[i - 1] \o b[i])
      <4> DEFINE x == A[m]
                 y == B[i - 1]
                 z == b[i]
      <4>1. x \in Seq(T) /\ y \in Seq(T) /\ z \in Seq(T)
        BY <1>7, <3>3
      <4> HIDE DEF x, y, z
      <4>2. (x \o y) \o z = x \o (y \o z)
        <5>1. EitherWay(x, y, z)
          BY <4>1, ThreeJoined
        <5> QED BY <5>1 DEF EitherWay
      <4> QED BY <4>2 DEF x, y, z
    <3>5. F[m + (i - 1)] = A[m] \o B[i - 1]
      BY <2>2
    <3> QED BY <3>1, <3>2, <3>4, <3>5
  <2> HIDE DEF S
  <2>3. 0 .. n \subseteq S
    BY <1>1, <2>1, <2>2, Upward
  <2> QED BY <2>3 DEF S
<1>9. F[m + n] = A[m] \o B[n]
  <2>1. n \in 0 .. n
    BY <1>1
  <2> QED BY <1>8, <2>1
<1> QED BY <1>2, <1>3, <1>4, <1>7, <1>9 DEF s

-----------------------------------------------------------------------------
(***************************************************************************)
(* A sequence cut behind each element of N, as text is into lines.         *)
(***************************************************************************)
IsCut(p, N) ==
    /\ \A k \in 1 .. Len(p) : Len(p[k]) > 0 /\ \A j \in 1 .. Len(p[k]) - 1 : p[k][j] \notin N
    /\ \A k \in 1 .. Len(p) - 1 : p[k][Len(p[k])] \in N

\* The last part is done.
Complete(p, N) == Len(p) > 0 => p[Len(p)][Len(p[Len(p)])] \in N

\* A piece of a part.
IsPiece(w, N) == Len(w) > 0 /\ \A j \in 1 .. Len(w) - 1 : w[j] \notin N

\* A piece that begins a part, ...
Begins(p, w, q) == q = Append(p, w)

LEMMA CutBegins ==
  ASSUME NEW T, NEW N, NEW p \in Seq(Seq(T)), IsCut(p, N), Complete(p, N),
         NEW w \in Seq(T), IsPiece(w, N), NEW q, Begins(p, w, q)
  PROVE  /\ q \in Seq(Seq(T)) /\ Len(q) = Len(p) + 1 /\ IsCut(q, N)
         /\ q[Len(q)] = w /\ \A k \in 1 .. Len(p) : q[k] = p[k]
         /\ FlattenSeq(q) = FlattenSeq(p) \o w
<1> DEFINE n == Len(p)
<1>1. Len(w) > 0 /\ \A j \in 1 .. Len(w) - 1 : w[j] \notin N
  BY DEF IsPiece
<1>n. n = Len(p)
  OBVIOUS
<1>q. q = Append(p, w)
  BY DEF Begins
<1>2. /\ q \in Seq(Seq(T)) /\ Len(q) = n + 1 /\ n \in Nat /\ q[n + 1] = w
      /\ \A k \in 1 .. n : q[k] = p[k]
  BY <1>1, <1>q
<1>3. q = p \o <<w>> /\ <<w>> \in Seq(Seq(T))
  <2>1. <<w>> \in Seq(Seq(T))
    BY <1>1
  <2>2. Append(p, w) = p \o <<w>>
    BY <1>1, AppendIsConcat
  <2> QED BY <2>1, <2>2, <1>q
<1> HIDE DEF n
<1>4. IsCut(q, N)
  <2>1. ASSUME NEW k \in 1 .. n + 1
        PROVE  Len(q[k]) > 0 /\ \A j \in 1 .. Len(q[k]) - 1 : q[k][j] \notin N
    <3>1. CASE k = n + 1
      <4>1. q[k] = w
        BY <1>2, <3>1
      <4> QED BY <1>1, <4>1
    <3>2. CASE k # n + 1
      <4>1. k \in 1 .. n
        BY <1>2, <3>2
      <4> QED BY <1>2, <1>n, <4>1 DEF IsCut
    <3> QED BY <3>1, <3>2
  <2>2. ASSUME NEW k \in 1 .. n PROVE q[k][Len(q[k])] \in N
    <3>1. CASE k = n
      BY <1>2, <1>n, <3>1 DEF Complete
    <3>2. CASE k # n
      <4>1. k \in 1 .. n - 1
        BY <1>2, <3>2
      <4> QED BY <1>2, <1>n, <4>1 DEF IsCut
    <3> QED BY <3>1, <3>2
  <2>3. Len(q) = n + 1 /\ Len(q) - 1 = n
    BY <1>2
  <2>4. \A k \in 1 .. Len(q) - 1 : q[k][Len(q[k])] \in N
    BY <2>2, <2>3
  <2>5. \A k \in 1 .. Len(q) : Len(q[k]) > 0 /\ \A j \in 1 .. Len(q[k]) - 1 : q[k][j] \notin N
    BY <2>1, <2>3
  <2> QED BY <2>4, <2>5, Zenon DEF IsCut
<1>5. FlattenSeq(q) = FlattenSeq(p) \o w
  <2>1. FlattenSeq(p \o <<w>>) = FlattenSeq(p) \o FlattenSeq(<<w>>)
    BY <1>3, FlatConcat
  <2>2. FlattenSeq(<<w>>) = w
    BY <1>1, FlatOne
  <2> QED BY <1>3, <2>1, <2>2
<1> QED BY <1>2, <1>4, <1>5, <1>n

\* ... or goes on with the last one.
GoesOn(p, x, q) ==
    Len(q) = Len(p) /\ \A k \in 1 .. Len(p) : q[k] = IF k = Len(p) THEN p[k] \o x ELSE p[k]

LEMMA CutGoesOn ==
  ASSUME NEW T, NEW N, NEW p \in Seq(Seq(T)), IsCut(p, N), ~Complete(p, N),
         NEW x \in Seq(T), IsPiece(x, N),
         NEW q \in Seq(Seq(T)), GoesOn(p, x, q)
  PROVE  /\ IsCut(q, N) /\ Len(p) > 0 /\ q[Len(q)] = p[Len(p)] \o x
         /\ FlattenSeq(q) = FlattenSeq(p) \o x
<1> DEFINE n == Len(p)
           u == p[n]
           w == u \o x
           front == SubSeq(p, 1, n - 1)
<1>1. n \in Nat /\ n > 0 /\ u[Len(u)] \notin N /\ n \in 1 .. n
  BY DEF Complete
<1>2. u \in Seq(T)
  BY <1>1
<1>3. Len(u) > 0 /\ \A j \in 1 .. Len(u) - 1 : u[j] \notin N
  BY <1>1 DEF IsCut
<1> HIDE DEF u
<1>x. Len(x) > 0 /\ \A j \in 1 .. Len(x) - 1 : x[j] \notin N
  BY DEF IsPiece
<1>4. /\ w \in Seq(T) /\ Len(w) = Len(u) + Len(x) /\ \A j \in 1 .. Len(u) : w[j] = u[j]
      /\ \A j \in 1 .. Len(x) : w[Len(u) + j] = x[j]
  BY <1>2
<1>5. Len(u) \in Nat /\ Len(x) \in Nat
  BY <1>2
<1>w. w = p[Len(p)] \o x
  BY DEF u
<1>n. n = Len(p)
  OBVIOUS
<1>u. u = p[n]
  BY DEF u
<1>o. w = u \o x
  OBVIOUS
<1> HIDE DEF w, n
<1>6. /\ q \in Seq(Seq(T)) /\ Len(q) = n
      /\ \A k \in 1 .. n : q[k] = IF k = n THEN w ELSE p[k]
  <2>1. Len(q) = Len(p) /\ \A k \in 1 .. Len(p) : q[k] = IF k = Len(p) THEN p[k] \o x ELSE p[k]
    BY Zenon DEF GoesOn
  <2>2. \A k \in 1 .. n : q[k] = IF k = n THEN w ELSE p[k]
    BY <2>1, <1>n, <1>w
  <2>3. q \in Seq(Seq(T)) /\ Len(q) = n
    BY <2>1, <1>n
  <2> QED BY <2>2, <2>3, Zenon
<1>7. q[n] = w /\ \A k \in 1 .. n - 1 : q[k] = p[k]
  BY <1>1, <1>6
<1>8. /\ front \in Seq(Seq(T)) /\ Len(front) = n - 1
      /\ \A k \in 1 .. n - 1 : front[k] = p[k]
  <2>1. 1 \in 1 .. Len(p) + 1 /\ n - 1 \in 1 - 1 .. Len(p) /\ n - 1 - 1 + 1 = n - 1
    BY <1>1, <1>n
  <2>2. \A k \in 1 .. n - 1 : 1 + k - 1 = k
    BY <1>1
  <2> QED BY <2>1, <2>2, Slice
<1> HIDE DEF front
<1>9. IsCut(q, N)
  <2>1. ASSUME NEW k \in 1 .. n
        PROVE  Len(q[k]) > 0 /\ \A j \in 1 .. Len(q[k]) - 1 : q[k][j] \notin N
    <3>1. CASE k = n
      <4>1. ASSUME NEW j \in 1 .. Len(w) - 1 PROVE w[j] \notin N
        <5>1. CASE j = Len(u)
          BY <1>1, <1>3, <1>4, <5>1
        <5>2. CASE j < Len(u)
          <6>1. j \in 1 .. Len(u) - 1 /\ j \in 1 .. Len(u)
            BY <1>5, <5>2
          <6> QED BY <1>3, <1>4, <6>1
        <5>3. CASE j > Len(u)
          <6>1. PICK i \in 1 .. Len(x) - 1 : j = Len(u) + i
            <7>1. j - Len(u) \in 1 .. Len(x) - 1 /\ j = Len(u) + (j - Len(u))
              BY <1>4, <1>5, <5>3
            <7> QED BY <7>1
          <6>2. i \in 1 .. Len(x)
            BY <1>5
          <6> QED BY <1>4, <1>x, <6>1, <6>2
        <5>4. j = Len(u) \/ j < Len(u) \/ j > Len(u)
          BY <1>5
        <5> QED BY <5>1, <5>2, <5>3, <5>4
      <4>2. Len(w) > 0
        BY <1>4, <1>5, <1>x
      <4> QED BY <1>7, <3>1, <4>1, <4>2
    <3>2. CASE k # n
      <4>1. k \in 1 .. n - 1
        BY <1>1, <3>2
      <4> QED BY <1>7, <1>n, <4>1 DEF IsCut
    <3> QED BY <3>1, <3>2
  <2>2. ASSUME NEW k \in 1 .. n - 1 PROVE q[k][Len(q[k])] \in N
    BY <1>7, <1>n DEF IsCut
  <2> QED BY <1>6, <2>1, <2>2 DEF IsCut
<1>10. FlattenSeq(q) = FlattenSeq(p) \o x
  <2>1. <<u>> \in Seq(Seq(T)) /\ <<w>> \in Seq(Seq(T))
    BY <1>2, <1>4
  <2>l. \A v \in Seq(T) : /\ front \o <<v>> \in Seq(Seq(T)) /\ Len(front \o <<v>>) = n
                         /\ \A k \in 1 .. n : (front \o <<v>>)[k] = IF k = n THEN v ELSE front[k]
    BY <1>1, <1>8
  <2>2. p = front \o <<u>>
    <3>1. /\ front \o <<u>> \in Seq(Seq(T)) /\ Len(front \o <<u>>) = n
          /\ \A k \in 1 .. n : (front \o <<u>>)[k] = IF k = n THEN u ELSE front[k]
      BY <1>2, <1>4, <2>l
    <3>2. \A k \in 1 .. n : k = n \/ k \in 1 .. n - 1
      BY <1>1
    <3>3. \A k \in 1 .. n : p[k] = (front \o <<u>>)[k]
      BY <1>8, <1>u, <3>1, <3>2
    <3> QED BY <1>n, <3>1, <3>3, SeqEqual
  <2>3. q = front \o <<w>>
    <3>1. /\ front \o <<w>> \in Seq(Seq(T)) /\ Len(front \o <<w>>) = n
          /\ \A k \in 1 .. n : (front \o <<w>>)[k] = IF k = n THEN w ELSE front[k]
      BY <1>2, <1>4, <2>l
    <3>2. \A k \in 1 .. n : k = n \/ k \in 1 .. n - 1
      BY <1>1
    <3>3. \A k \in 1 .. n : q[k] = (front \o <<w>>)[k]
      BY <1>7, <1>8, <3>1, <3>2
    <3> QED BY <1>6, <3>1, <3>3, SeqEqual
  <2>4. FlattenSeq(p) = FlattenSeq(front) \o u /\ FlattenSeq(front) \in Seq(T)
    <3>1. FlattenSeq(front \o <<u>>) = FlattenSeq(front) \o FlattenSeq(<<u>>) /\ FlattenSeq(front) \in Seq(T)
      BY <1>8, <2>1, FlatConcat
    <3>2. FlattenSeq(<<u>>) = u
      BY <1>2, FlatOne
    <3> QED BY <2>2, <3>1, <3>2
  <2>5. FlattenSeq(q) = FlattenSeq(front) \o w
    <3>1. FlattenSeq(front \o <<w>>) = FlattenSeq(front) \o FlattenSeq(<<w>>)
      BY <1>8, <2>1, FlatConcat
    <3>2. FlattenSeq(<<w>>) = w
      BY <1>4, FlatOne
    <3> QED BY <2>3, <3>1, <3>2
  <2> DEFINE y == FlattenSeq(front)
  <2>6. y \in Seq(T)
    BY <2>4
  <2> HIDE DEF y
  <2>7. (y \o u) \o x = y \o (u \o x)
    <3>1. EitherWay(y, u, x)
      BY <1>2, <2>6, ThreeJoined
    <3> QED BY <3>1 DEF EitherWay
  <2> QED BY <1>o, <2>4, <2>5, <2>7 DEF y
<1> QED BY <1>1, <1>6, <1>7, <1>9, <1>10, <1>n, <1>w

LEMMA OneMore ==
  ASSUME NEW T, NEW s \in Seq(T), NEW i \in 1 .. Len(s)
  PROVE  SubSeq(s, 1, i) = SubSeq(s, 1, i - 1) \o <<s[i]>>
<1> DEFINE a == SubSeq(s, 1, i)
           b == SubSeq(s, 1, i - 1)
           x == <<s[i]>>
<1>1. 1 \in 1 .. Len(s) + 1 /\ i \in 1 - 1 .. Len(s) /\ i - 1 \in 1 - 1 .. Len(s)
  OBVIOUS
<1>2. a \in Seq(T) /\ Len(a) = i - 1 + 1 /\ \A k \in 1 .. i - 1 + 1 : a[k] = s[1 + k - 1]
  BY <1>1, Slice
<1>3. b \in Seq(T) /\ Len(b) = i - 1 - 1 + 1 /\ \A k \in 1 .. i - 1 - 1 + 1 : b[k] = s[1 + k - 1]
  BY <1>1, Slice
<1>4. x \in Seq(T) /\ Len(x) = 1 /\ x[1] = s[i]
  OBVIOUS
<1> HIDE DEF a, b, x
<1>5. Len(a) = i /\ \A k \in 1 .. i : a[k] = s[k]
  BY <1>2
<1>6. Len(b) = i - 1 /\ \A k \in 1 .. i - 1 : b[k] = s[k]
  BY <1>3
<1>7. /\ b \o x \in Seq(T) /\ Len(b \o x) = i
      /\ \A k \in 1 .. i : (b \o x)[k] = IF k <= i - 1 THEN b[k] ELSE x[k - (i - 1)]
  <2>1. /\ b \o x \in Seq(T) /\ Len(b \o x) = Len(b) + Len(x)
        /\ \A k \in 1 .. Len(b) + Len(x) : (b \o x)[k] = IF k <= Len(b) THEN b[k] ELSE x[k - Len(b)]
    BY <1>3, <1>4, ConcatProperties
  <2>2. Len(b) + Len(x) = i
    BY <1>4, <1>6
  <2> QED BY <1>6, <2>1, <2>2
<1>8. ASSUME NEW k \in 1 .. i PROVE a[k] = (b \o x)[k]
  <2>1. CASE k <= i - 1
    <3>1. k \in 1 .. i - 1
      BY <2>1
    <3> QED BY <1>5, <1>6, <1>7, <2>1, <3>1
  <2>2. CASE ~(k <= i - 1)
    <3>1. k = i /\ k - (i - 1) = 1
      BY <2>2
    <3> QED BY <1>4, <1>5, <1>7, <2>2, <3>1
  <2> QED BY <2>1, <2>2
<1>9. a = b \o x
  BY <1>2, <1>5, <1>7, <1>8, SeqEqual
<1> QED BY <1>9 DEF a, b, x

\* Nothing is lost between the output and its pieces.
LEMMA PiecesAreCut ==
  ASSUME NEW T, NEW s \in Seq(T)
  PROVE  /\ Pieces(s) \in Seq(Seq(T)) /\ Len(Pieces(s)) <= Len(s)
         /\ IsCut(Pieces(s), {"nl"}) /\ FlattenSeq(Pieces(s)) = s
<1>1. PICK f : f = PiecesBody(s, f) /\ Pieces(s) = f[Len(s)]
  BY PiecesUnfold
<1> DEFINE n == Len(s)
           Fine(i, p) == /\ p \in Seq(Seq(T)) /\ Len(p) <= i /\ IsCut(p, {"nl"})
                         /\ i > 0 => Len(p) > 0 /\ p[Len(p)][Len(p[Len(p)])] = s[i]
                         /\ FlattenSeq(p) = SubSeq(s, 1, i)
           S == {i \in 0 .. n : Fine(i, f[i])}
<1>2. n \in Nat
  OBVIOUS
<1>3. SubSeq(s, 1, n) = s /\ SubSeq(s, 1, 0) = <<>>
  OBVIOUS
<1>4. 0 \in S
  <2>1. f[0] = <<>>
    <3>1. 0 \in 0 .. Len(s)
      OBVIOUS
    <3>2. PiecesBody(s, f)[0] = <<>>
      BY <3>1 DEF PiecesBody
    <3> QED BY <1>1, <3>2
  <2>2. <<>> \in Seq(Seq(T)) /\ Len(<<>>) = 0 /\ 1 .. 0 = {} /\ 1 .. 0 - 1 = {} /\ 0 \in 0 .. n
    OBVIOUS
  <2>3. FlattenSeq(<<>>) = <<>>
    BY <2>2 DEF FlattenSeq
  <2>4. IsCut(<<>>, {"nl"})
    BY <2>2 DEF IsCut
  <2>5. Fine(0, <<>>)
    <3> DEFINE e == <<>>
    <3>1. /\ e \in Seq(Seq(T)) /\ Len(e) = 0 /\ IsCut(e, {"nl"}) /\ FlattenSeq(e) = e
          /\ SubSeq(s, 1, 0) = e
      BY <1>3, <2>2, <2>3, <2>4
    <3> HIDE DEF e
    <3>2. Fine(0, e)
      BY <3>1
    <3> QED BY <3>2 DEF e
  <2> HIDE DEF n, Fine
  <2> QED BY <2>1, <2>2, <2>5
<1>5. ASSUME NEW i \in 1 .. n, i - 1 \in S PROVE i \in S
  <2> DEFINE p == f[i - 1]
             x == s[i]
  <2>1. /\ p \in Seq(Seq(T)) /\ Len(p) <= i - 1 /\ IsCut(p, {"nl"})
        /\ i - 1 > 0 => Len(p) > 0 /\ p[Len(p)][Len(p[Len(p)])] = s[i - 1]
        /\ FlattenSeq(p) = SubSeq(s, 1, i - 1)
    BY <1>5
  <2>2. f[i] = IF i = 1 \/ s[i - 1] = "nl" THEN Append(p, <<x>>)
               ELSE [p EXCEPT ![Len(p)] = Append(@, x)]
    <3>1. i \in 0 .. Len(s) /\ i # 0
      OBVIOUS
    <3> QED BY <1>1, <3>1, Zenon DEF PiecesBody
  <2>3. x \in T /\ i \in 0 .. n
    OBVIOUS
  <2>4. SubSeq(s, 1, i) = SubSeq(s, 1, i - 1) \o <<x>>
    BY OneMore
  <2>x. x = s[i]
    OBVIOUS
  <2> HIDE DEF p, x, S
  <2>5. CASE i = 1 \/ s[i - 1] = "nl"
    <3>1. Complete(p, {"nl"})
      <4>1. CASE i = 1
        BY <2>1, <4>1 DEF Complete
      <4>2. CASE i # 1
        BY <2>1, <2>5, <4>2 DEF Complete
      <4> QED BY <4>1, <4>2
    <3>w. PICK v : v = <<x>>
      OBVIOUS
    <3>y. PICK q : q = Append(p, v)
      OBVIOUS
    <3>v. v \in Seq(T) /\ IsPiece(v, {"nl"})
      <4>1. v \in Seq(T) /\ Len(v) = 1 /\ 1 .. 1 - 1 = {}
        BY <2>3, <3>w
      <4> QED BY <4>1 DEF IsPiece
    <3>2. /\ q \in Seq(Seq(T)) /\ Len(q) = Len(p) + 1 /\ IsCut(q, {"nl"})
          /\ q[Len(q)] = v /\ FlattenSeq(q) = FlattenSeq(p) \o v
      <4>1. p \in Seq(Seq(T)) /\ IsCut(p, {"nl"})
        BY <2>1
      <4>2. Begins(p, v, q)
        BY <3>y DEF Begins
      <4> QED BY <4>1, <4>2, <3>1, <3>v, CutBegins
    <3>3. f[i] = q
      BY <2>2, <2>5, <3>w, <3>y
    <3>4. Len(q) > 0 /\ q[Len(q)][Len(q[Len(q)])] = s[i]
      BY <2>1, <2>x, <3>2, <3>w
    <3>5. Len(q) <= i
      BY <2>1, <3>2
    <3>6. Fine(i, q)
      BY <2>1, <2>4, <3>2, <3>4, <3>5, <3>w
    <3> QED BY <2>3, <3>3, <3>6 DEF S
  <2>6. CASE ~(i = 1 \/ s[i - 1] = "nl")
    <3>1. ~Complete(p, {"nl"})
      BY <2>1, <2>6 DEF Complete
    <3> DEFINE q == [p EXCEPT ![Len(p)] = Append(p[Len(p)], x)]
    <3>e. q = [p EXCEPT ![Len(p)] = Append(@, x)]
      OBVIOUS
    <3>d. /\ q \in Seq(Seq(T)) /\ Len(q) = Len(p) /\ Len(p) > 0
          /\ \A k \in 1 .. Len(p) : q[k] = IF k = Len(p) THEN Append(p[k], x) ELSE p[k]
      <4>1. Len(p) \in 1 .. Len(p) /\ Len(p) > 0
        BY <2>1, <3>1 DEF Complete
      <4>2. p[Len(p)] \in Seq(T)
        BY <2>1, <4>1
      <4>3. Append(p[Len(p)], x) \in Seq(T)
        BY <2>3, <4>2
      <4> QED BY <2>1, <4>1, <4>3, ExceptSeq
    <3> HIDE DEF q
    <3>q. /\ IsCut(q, {"nl"}) /\ q[Len(q)] = Append(p[Len(p)], x)
          /\ FlattenSeq(q) = FlattenSeq(p) \o <<x>>
      <4> DEFINE v == <<x>>
      <4>1. v \in Seq(T) /\ Len(v) = 1 /\ 1 .. 1 - 1 = {}
        BY <2>3
      <4>2. \A k \in 1 .. Len(p) : Append(p[k], x) = p[k] \o v
        BY <2>1, <2>3, AppendIsConcat
      <4>3. p[Len(p)] \o v = Append(p[Len(p)], x)
        BY <3>d, <4>2
      <4>v. v = <<x>>
        OBVIOUS
      <4> HIDE DEF v
      <4>4. IsPiece(v, {"nl"})
        BY <4>1 DEF IsPiece
      <4>5. GoesOn(p, v, q)
        BY <3>d, <4>2 DEF GoesOn
      <4>6. /\ IsCut(q, {"nl"}) /\ q[Len(q)] = p[Len(p)] \o v
            /\ FlattenSeq(q) = FlattenSeq(p) \o v
        BY <2>1, <3>1, <3>d, <4>1, <4>4, <4>5, CutGoesOn, ZenonT(30)
      <4> QED BY <4>3, <4>6, <4>v
    <3> DEFINE u == p[Len(p)]
    <3>2. /\ q \in Seq(Seq(T)) /\ Len(q) = Len(p) /\ IsCut(q, {"nl"}) /\ Len(p) > 0
          /\ q[Len(q)] = Append(u, x) /\ FlattenSeq(q) = FlattenSeq(p) \o <<x>>
      BY <3>d, <3>q
    <3>3. f[i] = q
      BY <2>2, <2>6, <3>e
    <3>4. u \in Seq(T)
      BY <2>1, <3>2
    <3> HIDE DEF u
    <3>5. Len(Append(u, x)) = Len(u) + 1 /\ Append(u, x)[Len(u) + 1] = x
      BY <2>3, <3>4
    <3>6. Len(q) > 0 /\ q[Len(q)][Len(q[Len(q)])] = s[i]
      BY <2>x, <3>2, <3>5
    <3>7. Len(q) <= i
      BY <2>1, <3>2
    <3>8. Fine(i, q)
      BY <2>1, <2>4, <3>2, <3>6, <3>7
    <3> QED BY <2>3, <3>3, <3>8 DEF S
  <2> QED BY <2>5, <2>6
<1>6. n \in S
  <2> HIDE DEF S
  <2>1. 0 .. n \subseteq S
    BY <1>2, <1>4, <1>5, Upward
  <2> QED BY <1>2, <2>1
<1> QED BY <1>1, <1>3, <1>6

-----------------------------------------------------------------------------
(***************************************************************************)
(* The places of the ring.                                                 *)
(***************************************************************************)
\* The element that was written k lines before the last one, if p is the next one.
Ago(p, k) == Beyond(p, Size - 1 - k)

LEMMA Around ==
  ASSUME NEW p \in Slots, NEW d \in 0 .. Size
  PROVE  Beyond(p, d) = IF p + d < Size THEN p + d ELSE p + d - Size
<1>1. Size \in Nat /\ Size > 0 /\ p \in 0 .. Size - 1
  BY RingAssumption DEF RingAssumption, Slots
<1>2. CASE p + d < Size
  BY <1>1, <1>2 DEF Beyond
<1>3. CASE p + d >= Size
  BY <1>1, <1>3 DEF Beyond
<1> QED BY <1>1, <1>2, <1>3

LEMMA BeyondInSlots ==
  ASSUME NEW p \in Slots, NEW d \in Nat
  PROVE  Beyond(p, d) \in Slots
<1>1. Size \in Nat /\ Size > 0 /\ p \in 0 .. Size - 1
  BY RingAssumption DEF RingAssumption, Slots
<1> QED BY <1>1 DEF Beyond, Slots

LEMMA BeyondOneMore ==
  ASSUME NEW p \in Slots, NEW d \in Nat
  PROVE  Beyond(Beyond(p, d), 1) = Beyond(p, d + 1)
<1>1. Size \in Nat /\ Size > 0 /\ p \in 0 .. Size - 1
  BY RingAssumption DEF RingAssumption, Slots
<1> DEFINE a == p + d
           m == a % Size
           b == a + 1
           n == b % Size
<1>2. /\ a \in Nat /\ m \in 0 .. Size - 1 /\ a = Size * (a \div Size) + m
      /\ a \div Size \in Int
  BY <1>1
<1>3. /\ b = a + 1 /\ n \in 0 .. Size - 1 /\ b = Size * (b \div Size) + n
      /\ b \div Size \in Int
  BY <1>1
<1>4. m \in Slots /\ 1 \in 0 .. Size
  BY <1>1, <1>2 DEF Slots
<1>5. Beyond(m, 1) = IF m + 1 < Size THEN m + 1 ELSE m + 1 - Size
  BY <1>4, Around
<1>6. n = IF m + 1 < Size THEN m + 1 ELSE m + 1 - Size
  <2> DEFINE k == a \div Size
             l == b \div Size
  <2>1. /\ a = Size * k + m /\ b = Size * l + n /\ k \in Int /\ l \in Int
    BY <1>2, <1>3
  <2> HIDE DEF a, b, m, n, k, l
  <2>2. Size * (l - k) = m + 1 - n
    BY <1>1, <1>2, <1>3, <2>1
  <2>3. CASE l - k <= -1
    <3>1. Size * (l - k) <= -Size
      BY <1>1, <2>1, <2>3
    <3> QED BY <1>1, <1>2, <1>3, <2>2, <3>1
  <2>4. CASE l - k >= 2
    <3>1. Size * (l - k) >= 2 * Size
      BY <1>1, <2>1, <2>4
    <3> QED BY <1>1, <1>2, <1>3, <2>2, <3>1
  <2>5. CASE l - k = 0
    <3>1. m + 1 - n = 0
      BY <1>1, <2>2, <2>5
    <3> QED BY <1>1, <1>2, <1>3, <3>1
  <2>6. CASE l - k = 1
    <3>1. m + 1 - n = Size
      BY <1>1, <2>2, <2>6
    <3> QED BY <1>1, <1>2, <1>3, <3>1
  <2> QED BY <2>1, <2>3, <2>4, <2>5, <2>6
<1>7. Beyond(p, d) = m /\ Beyond(p, d + 1) = (p + (d + 1)) % Size /\ p + (d + 1) = b
  BY <1>1 DEF Beyond
<1> QED BY <1>5, <1>6, <1>7

\* The next element is the last one written, once it has been, and all others are a
\* line older.
LEMMA OneLater ==
  ASSUME NEW p \in Slots
  PROVE  /\ Beyond(p, 1) \in Slots /\ Ago(Beyond(p, 1), 0) = p
         /\ \A k \in 1 .. Size - 1 : Ago(Beyond(p, 1), k) = Ago(p, k - 1) /\ Ago(p, k - 1) # p
         /\ \A k \in Slots : Ago(p, k) \in Slots /\ (k # 0 => Ago(p, k) # Ago(p, 0))
<1>1. Size \in Nat /\ Size > 0 /\ p \in 0 .. Size - 1
  BY RingAssumption DEF RingAssumption, Slots
<1>2. Beyond(p, 1) \in Slots
  BY BeyondInSlots
<1>3. Beyond(p, 1) = IF p + 1 < Size THEN p + 1 ELSE p + 1 - Size
  BY <1>1, Around
<1>4. Ago(Beyond(p, 1), 0) = p
  BY <1>1, <1>2, <1>3, Around DEF Ago, Slots
<1>5. ASSUME NEW k \in 1 .. Size - 1
      PROVE  Ago(Beyond(p, 1), k) = Ago(p, k - 1) /\ Ago(p, k - 1) # p
  <2>1. Size - 1 - k \in 0 .. Size /\ Size - 1 - (k - 1) \in 0 .. Size
    BY <1>1
  <2>2. Ago(p, k - 1) = IF p + (Size - 1 - (k - 1)) < Size THEN p + (Size - 1 - (k - 1))
                        ELSE p + (Size - 1 - (k - 1)) - Size
    BY <2>1, Around DEF Ago
  <2> DEFINE b == Beyond(p, 1)
  <2>3. Ago(b, k) = IF b + (Size - 1 - k) < Size THEN b + (Size - 1 - k)
                    ELSE b + (Size - 1 - k) - Size
    BY <1>2, <2>1, Around DEF Ago
  <2> QED BY <1>1, <1>3, <2>2, <2>3
<1>6. ASSUME NEW k \in Slots PROVE Ago(p, k) \in Slots /\ (k # 0 => Ago(p, k) # Ago(p, 0))
  <2>1. k \in 0 .. Size - 1 /\ Size - 1 - k \in 0 .. Size /\ Size - 1 - 0 \in 0 .. Size
        /\ Size - 1 - k \in Nat
    BY <1>1 DEF Slots
  <2>2. /\ Ago(p, k) = IF p + (Size - 1 - k) < Size THEN p + (Size - 1 - k)
                       ELSE p + (Size - 1 - k) - Size
        /\ Ago(p, 0) = IF p + (Size - 1 - 0) < Size THEN p + (Size - 1 - 0)
                       ELSE p + (Size - 1 - 0) - Size
    BY <2>1, Around DEF Ago
  <2>3. Ago(p, k) \in Slots
    BY <2>1, BeyondInSlots DEF Ago
  <2> QED BY <1>1, <2>1, <2>2, <2>3
<1> QED BY <1>2, <1>4, <1>5, <1>6

\* A token put behind others.
LEMMA PutOneMore ==
  ASSUME NEW r, NEW p \in Slots, NEW X, NEW tokens \in Seq(X), NEW t \in X
  PROVE  Put(r, p, Append(tokens, t))
            = [Put(r, p, tokens) EXCEPT ![Beyond(p, Len(tokens))] = <<t>>]
<1> DEFINE n == Len(tokens)
           more == Append(tokens, t)
           hits(s, q) == {i \in DOMAIN s : Beyond(p, i - 1) = q}
           q0 == Beyond(p, n)
<1>1. /\ n \in Nat /\ DOMAIN tokens = 1 .. n /\ DOMAIN more = 1 .. n + 1
      /\ more[n + 1] = t /\ \A i \in 1 .. n : more[i] = tokens[i]
  OBVIOUS
<1> HIDE DEF more, n
<1>2. ASSUME NEW q \in Slots
      PROVE  Put(r, p, more)[q] = IF q = q0 THEN <<t>> ELSE Put(r, p, tokens)[q]
  <2>1. /\ Put(r, p, more)[q] = IF hits(more, q) = {} THEN r[q] ELSE <<more[Max(hits(more, q))]>>
        /\ Put(r, p, tokens)[q] = IF hits(tokens, q) = {} THEN r[q]
                                  ELSE <<tokens[Max(hits(tokens, q))]>>
    BY DEF Put
  <2>2. hits(tokens, q) \subseteq 1 .. n
    BY <1>1
  <2>3. CASE q = q0
    <3>1. n + 1 \in hits(more, q) /\ (n + 1) - 1 = n
      BY <1>1, <2>3
    <3>2. hits(more, q) \subseteq Nat /\ \A x \in hits(more, q) : x <= n + 1
      BY <1>1
    <3>3. n + 1 \in Nat
      BY <1>1
    <3> DEFINE h == hits(more, q)
    <3> HIDE DEF h
    <3>4. h \subseteq Nat /\ h # {} /\ n + 1 \in h /\ \A x \in h : x <= n + 1
      BY <3>1, <3>2 DEF h
    <3>5. Max(h) \in h /\ \A x \in h : x <= Max(h)
      BY <3>3, <3>4, MaxIsThere
    <3>6. Max(h) = n + 1
      <4> DEFINE y == Max(h)
      <4>1. y \in h /\ (\A x \in h : x <= y)
        BY <3>5
      <4> HIDE DEF y
      <4>2. y \in Nat /\ y <= n + 1 /\ n + 1 <= y
        BY <3>4, <4>1
      <4>3. y = n + 1
        BY <3>3, <4>2
      <4> QED BY <4>3 DEF y
    <3> QED BY <1>1, <2>1, <2>3, <3>4, <3>6 DEF h
  <2>4. CASE q # q0
    <3>1. hits(more, q) = hits(tokens, q)
      <4>1. (n + 1) - 1 = n
        BY <1>1
      <4>2. Beyond(p, (n + 1) - 1) = q0
        BY <4>1
      <4>3. n + 1 \notin hits(more, q)
        BY <2>4, <4>2
      <4>4. DOMAIN more = DOMAIN tokens \cup {n + 1}
        BY <1>1
      <4> QED BY <4>3, <4>4
    <3>2. hits(tokens, q) # {} => Max(hits(tokens, q)) \in 1 .. n
      <4> DEFINE h == hits(tokens, q)
      <4>1. h \subseteq 1 .. n
        BY <2>2
      <4> HIDE DEF h
      <4>2. h \subseteq Nat /\ \A x \in h : x <= n
        BY <1>1, <4>1
      <4>3. h # {} => Max(h) \in h
        BY <1>1, <4>2, MaxIsThere
      <4> QED BY <4>1, <4>3 DEF h
    <3> QED BY <1>1, <2>1, <2>4, <3>1, <3>2
  <2> QED BY <2>3, <2>4
<1>3. q0 \in Slots
  BY <1>1, BeyondInSlots
<1>4. Put(r, p, more) = [q \in Slots |-> Put(r, p, more)[q]] /\ DOMAIN Put(r, p, tokens) = Slots
  BY DEF Put
<1> DEFINE old == Put(r, p, tokens)
           new == Put(r, p, more)
<1>5. /\ new = [q \in Slots |-> new[q]] /\ DOMAIN old = Slots
      /\ \A q \in Slots : new[q] = IF q = q0 THEN <<t>> ELSE old[q]
  BY <1>2, <1>4
<1> HIDE DEF old, new, q0
<1>6. new = [old EXCEPT ![q0] = <<t>>]
  BY <1>3, <1>5
<1> QED BY <1>6 DEF old, new, q0, more, n

-----------------------------------------------------------------------------
(***************************************************************************)
(* The bytes of fragments.                                                 *)
(***************************************************************************)
\* Fragments of ps: their numbers are places in it, and they know how it ends there.
Told(ps) ==
    {f \in [n : 1 .. Len(ps), ended : BOOLEAN] : f.ended <=> ps[f.n][Len(ps[f.n])] = "nl"}

Parts(ps, s) == [i \in 1 .. Len(s) |-> ps[s[i].n]]

BytesIn(ps, s) == FlattenSeq(Parts(ps, s))

LEMMA ConcatIs ==
  ASSUME NEW X, NEW a \in Seq(X), NEW b \in Seq(X)
  PROVE  /\ a \o b \in Seq(X) /\ Len(a \o b) = Len(a) + Len(b)
         /\ \A i \in 1 .. Len(a) : (a \o b)[i] = a[i]
         /\ \A i \in 1 .. Len(b) : (a \o b)[Len(a) + i] = b[i]
  OBVIOUS

LEMMA PartsType ==
  ASSUME NEW T, NEW ps \in Seq(Seq(T)), NEW s \in Seq(Told(ps))
  PROVE  /\ Parts(ps, s) \in Seq(Seq(T)) /\ Len(Parts(ps, s)) = Len(s)
         /\ \A i \in 1 .. Len(s) : Parts(ps, s)[i] = ps[s[i].n]
         /\ BytesIn(ps, s) \in Seq(T)
<1> DEFINE n == Len(s)
           w == Parts(ps, s)
<1>1. n \in Nat /\ w = [i \in 1 .. n |-> ps[s[i].n]]
  BY DEF Parts
<1>2. ASSUME NEW i \in 1 .. n PROVE ps[s[i].n] \in Seq(T)
  <2>1. s[i] \in Told(ps)
    OBVIOUS
  <2>2. s[i].n \in 1 .. Len(ps)
    BY <2>1 DEF Told
  <2> QED BY <2>2
<1>n. n = Len(s)
  OBVIOUS
<1> HIDE DEF n, w
<1>3. w \in Seq(Seq(T)) /\ Len(w) = n
  BY <1>1, <1>2
<1>4. FlattenSeq(w) \in Seq(T)
  BY <1>3, FlatConcat
<1>5. \A i \in 1 .. n : w[i] = ps[s[i].n]
  BY <1>1
<1> QED BY <1>3, <1>4, <1>5, <1>n DEF w, BytesIn

LEMMA BytesInConcat ==
  ASSUME NEW T, NEW ps \in Seq(Seq(T)), NEW a \in Seq(Told(ps)), NEW b \in Seq(Told(ps))
  PROVE  BytesIn(ps, a \o b) = BytesIn(ps, a) \o BytesIn(ps, b)
<1> DEFINE s == a \o b
           m == Len(a)
           n == Len(b)
           u == Parts(ps, a)
           v == Parts(ps, b)
           w == Parts(ps, s)
<1>1. /\ s \in Seq(Told(ps)) /\ Len(s) = m + n /\ m \in Nat /\ n \in Nat
      /\ \A i \in 1 .. m + n : s[i] = IF i <= m THEN a[i] ELSE b[i - m]
  OBVIOUS
<1> HIDE DEF s
<1>2. /\ u \in Seq(Seq(T)) /\ Len(u) = m /\ \A i \in 1 .. m : u[i] = ps[a[i].n]
      /\ v \in Seq(Seq(T)) /\ Len(v) = n /\ \A i \in 1 .. n : v[i] = ps[b[i].n]
  BY PartsType
<1>3. w \in Seq(Seq(T)) /\ Len(w) = m + n /\ \A i \in 1 .. m + n : w[i] = ps[s[i].n]
  BY <1>1, PartsType, SMTT(30)
<1> HIDE DEF u, v, w, m, n
<1> DEFINE x == u \o v
<1>4. /\ x \in Seq(Seq(T)) /\ Len(x) = m + n
      /\ \A i \in 1 .. m : x[i] = u[i]
      /\ \A i \in 1 .. n : x[m + i] = v[i]
  <2>1. u \in Seq(Seq(T)) /\ v \in Seq(Seq(T)) /\ Len(u) = m /\ Len(v) = n
    BY <1>2
  <2>2. x \in Seq(Seq(T)) /\ Len(x) = Len(u) + Len(v)
    BY <2>1, ConcatIs
  <2>3. \A i \in 1 .. Len(u) : x[i] = u[i]
    BY <2>1, ConcatIs
  <2>4. \A i \in 1 .. Len(v) : x[Len(u) + i] = v[i]
    BY <2>1, ConcatIs
  <2> QED BY <2>1, <2>2, <2>3, <2>4
<1>5. FlattenSeq(x) = FlattenSeq(u) \o FlattenSeq(v)
  BY <1>2, FlatConcat
<1> HIDE DEF x
<1>6. ASSUME NEW i \in 1 .. m + n PROVE w[i] = x[i]
  <2>1. CASE i <= m
    <3>1. i \in 1 .. m
      BY <1>1, <2>1
    <3>2. x[i] = ps[a[i].n] /\ s[i] = a[i]
      BY <1>1, <1>2, <1>4, <2>1, <3>1
    <3> QED BY <1>3, <3>2
  <2>2. CASE ~(i <= m)
    <3>1. PICK j \in 1 .. n : i = m + j /\ i - m = j
      <4>1. i - m \in 1 .. n /\ i = m + (i - m)
        BY <1>1, <2>2
      <4> QED BY <4>1
    <3>2. x[i] = ps[b[j].n] /\ s[i] = b[j]
      BY <1>1, <1>2, <1>4, <2>2, <3>1
    <3> QED BY <1>3, <3>2
  <2> QED BY <2>1, <2>2
<1>7. Len(w) = Len(x) /\ \A i \in 1 .. Len(w) : w[i] = x[i]
  BY <1>3, <1>4, <1>6
<1>8. w = x
  BY <1>3, <1>4, <1>7, SeqEqual
<1> QED BY <1>5, <1>8 DEF BytesIn, s, u, v, w

LEMMA BytesInOne ==
  ASSUME NEW T, NEW ps \in Seq(Seq(T)), NEW t \in Told(ps)
  PROVE  BytesIn(ps, <<t>>) = ps[t.n] /\ ps[t.n] \in Seq(T)
<1> DEFINE s == <<t>>
           x == ps[t.n]
           w == Parts(ps, s)
<1>1. s \in Seq(Told(ps)) /\ Len(s) = 1 /\ s[1] = t
  OBVIOUS
<1>2. x \in Seq(T)
  <2>1. t.n \in 1 .. Len(ps)
    BY DEF Told
  <2> QED BY <2>1
<1> HIDE DEF s
<1>3. w \in Seq(Seq(T)) /\ Len(w) = 1 /\ w[1] = x
  <2>1. /\ w \in Seq(Seq(T)) /\ Len(w) = Len(s)
        /\ \A i \in 1 .. Len(s) : w[i] = ps[s[i].n]
    BY <1>1, PartsType
  <2>2. 1 \in 1 .. Len(s)
    BY <1>1
  <2> QED BY <1>1, <2>1, <2>2
<1> HIDE DEF w, x
<1>4. w = <<x>>
  BY <1>3
<1>5. FlattenSeq(w) = x
  BY <1>2, <1>4, FlatOne
<1> QED BY <1>2, <1>5 DEF BytesIn, s, w, x

\* More output does not change the fragments there are.
LEMMA BytesInMore ==
  ASSUME NEW T, NEW ps \in Seq(Seq(T)), NEW q \in Seq(Seq(T))
  PROVE  /\ Told(ps) \subseteq Told(ps \o q)
         /\ \A s \in Seq(Told(ps)) : BytesIn(ps \o q, s) = BytesIn(ps, s)
<1> DEFINE r == ps \o q
<1>1. /\ r \in Seq(Seq(T)) /\ Len(r) = Len(ps) + Len(q) /\ Len(ps) \in Nat /\ Len(q) \in Nat
      /\ \A k \in 1 .. Len(ps) : r[k] = ps[k]
  OBVIOUS
<1> HIDE DEF r
<1>2. ASSUME NEW f \in Told(ps) PROVE f \in Told(r) /\ r[f.n] = ps[f.n]
  <2>1. /\ f \in [n : 1 .. Len(ps), ended : BOOLEAN] /\ f.n \in 1 .. Len(ps)
        /\ f.ended <=> ps[f.n][Len(ps[f.n])] = "nl"
    BY DEF Told
  <2>2. r[f.n] = ps[f.n]
    BY <1>1, <2>1
  <2>3. 1 .. Len(ps) \subseteq 1 .. Len(r)
    BY <1>1
  <2>4. f \in [n : 1 .. Len(r), ended : BOOLEAN]
    BY <2>1, <2>3
  <2> QED BY <2>1, <2>2, <2>4 DEF Told
<1>3. ASSUME NEW s \in Seq(Told(ps)) PROVE BytesIn(r, s) = BytesIn(ps, s)
  <2>1. \A i \in 1 .. Len(s) : r[s[i].n] = ps[s[i].n]
    BY <1>2
  <2>2. Parts(r, s) = Parts(ps, s)
    BY <2>1 DEF Parts
  <2> QED BY <2>2 DEF BytesIn
<1> QED BY <1>2, <1>3 DEF r

AllBytes(ps, ss, bs) ==
    Len(bs) = Len(ss) /\ \A i \in 1 .. Len(ss) : bs[i] = BytesIn(ps, ss[i])

LEMMA BytesInFlat ==
  ASSUME NEW T, NEW ps \in Seq(Seq(T)), NEW ss \in Seq(Seq(Told(ps))),
         NEW bs \in Seq(Seq(T)), AllBytes(ps, ss, bs)
  PROVE  BytesIn(ps, FlattenSeq(ss)) = FlattenSeq(bs)
<1> DEFINE n == Len(ss)
           K == Told(ps)
<1>a. Len(bs) = Len(ss) /\ \A i \in 1 .. Len(ss) : bs[i] = BytesIn(ps, ss[i])
  BY DEF AllBytes
<1>1. PICK F \in [0 .. n -> Seq(K)] : Flat(ss, F) /\ FlattenSeq(ss) = F[n]
  BY FlatUnfolds
<1>2. PICK B \in [0 .. Len(bs) -> Seq(T)] : Flat(bs, B) /\ FlattenSeq(bs) = B[Len(bs)]
  BY FlatUnfolds
<1>3. /\ F[0] = <<>> /\ \A i \in 1 .. n : F[i] = F[i - 1] \o ss[i]
      /\ B[0] = <<>> /\ \A i \in 1 .. n : B[i] = B[i - 1] \o bs[i]
      /\ FlattenSeq(bs) = B[n]
  BY <1>1, <1>2, <1>a DEF Flat
<1> DEFINE S == {i \in 0 .. n : BytesIn(ps, F[i]) = B[i]}
<1>4. n \in Nat
  OBVIOUS
<1>n. /\ \A i \in 1 .. n : ss[i] \in Seq(Told(ps)) /\ bs[i] = BytesIn(ps, ss[i])
  BY <1>a
<1>5. 0 \in S
  <2>1. BytesIn(ps, <<>>) = <<>>
    <3>1. Parts(ps, <<>>) = <<>>
      BY DEF Parts
    <3>2. FlattenSeq(<<>>) = <<>>
      BY DEF FlattenSeq
    <3> QED BY <3>1, <3>2 DEF BytesIn
  <2> QED BY <1>3, <1>4, <2>1
<1> HIDE DEF n
<1>6. ASSUME NEW i \in 1 .. n, i - 1 \in S PROVE i \in S
  <2>1. i \in 0 .. n /\ i - 1 \in 0 .. n
    BY <1>4
  <2>2. F[i - 1] \in Seq(Told(ps)) /\ ss[i] \in Seq(Told(ps))
    BY <1>n, <2>1
  <2>3. BytesIn(ps, F[i - 1] \o ss[i]) = BytesIn(ps, F[i - 1]) \o BytesIn(ps, ss[i])
    BY <2>2, BytesInConcat
  <2>4. BytesIn(ps, F[i - 1]) = B[i - 1]
    BY <1>6
  <2>5. F[i] = F[i - 1] \o ss[i] /\ B[i] = B[i - 1] \o bs[i] /\ bs[i] = BytesIn(ps, ss[i])
    BY <1>3, <1>n
  <2>6. BytesIn(ps, F[i]) = B[i]
    BY <2>3, <2>4, <2>5
  <2> QED BY <2>1, <2>6
<1>7. 0 .. n \subseteq S
  <2> HIDE DEF S
  <2> QED BY <1>4, <1>5, <1>6, Upward
<1>8. n \in 0 .. n
  BY <1>4
<1> QED BY <1>1, <1>3, <1>7, <1>8

-----------------------------------------------------------------------------
(***************************************************************************)
(* One fragment more in the ring.                                          *)
(***************************************************************************)
AllPieces(ps) == \A k \in 1 .. Len(ps) : IsPiece(ps[k], {"nl"})

\* The ring r, whose next element is nx, holds the last of the lines lb, which are st.
Shows(ps, r, nx, st, lb) ==
    /\ r \in [Slots -> Seq(Told(ps))] /\ nx \in Slots
    /\ IsCut(lb, {"nl"}) /\ FlattenSeq(lb) = st
    /\ \A k \in Slots : BytesIn(ps, r[Ago(nx, k)]) = IF k < Len(lb) THEN lb[Len(lb) - k] ELSE <<>>
    /\ ShouldContinue(r[Ago(nx, 0)]) <=> ~Complete(lb, {"nl"})

Places(r, q, x, r2) == r2 = [r EXCEPT ![q] = x]

LEMMA ToldPiece ==
  ASSUME NEW T, NEW ps \in Seq(Seq(T)), AllPieces(ps), NEW t \in Told(ps)
  PROVE  /\ ps[t.n] \in Seq(T) /\ IsPiece(ps[t.n], {"nl"}) /\ Len(ps[t.n]) > 0
         /\ t.ended <=> ps[t.n][Len(ps[t.n])] = "nl"
<1>1. t.n \in 1 .. Len(ps) /\ (t.ended <=> ps[t.n][Len(ps[t.n])] = "nl")
  BY DEF Told
<1>2. IsPiece(ps[t.n], {"nl"})
  BY <1>1 DEF AllPieces
<1> QED BY <1>1, <1>2 DEF IsPiece

LEMMA TokenBegins ==
  ASSUME NEW T, NEW ps \in Seq(Seq(T)), AllPieces(ps), NEW lb \in Seq(Seq(T)),
         NEW r, NEW nx, NEW st, Shows(ps, r, nx, st, lb), ~ShouldContinue(r[Ago(nx, 0)]),
         NEW t \in Told(ps), NEW r2, Places(r, nx, <<t>>, r2)
  PROVE  \E lb2 \in Seq(Seq(T)) :
            /\ Shows(ps, r2, Beyond(nx, 1), st \o ps[t.n], lb2)
            /\ ShouldContinue(r2[Ago(Beyond(nx, 1), 0)]) <=> ~t.ended
<1> DEFINE w == ps[t.n]
           nx2 == Beyond(nx, 1)
           n == Len(lb)
           lb2 == Append(lb, w)
<1>n. n = Len(lb) /\ n \in Nat
  OBVIOUS
<1>1. /\ r \in [Slots -> Seq(Told(ps))] /\ nx \in Slots
      /\ IsCut(lb, {"nl"}) /\ FlattenSeq(lb) = st /\ Complete(lb, {"nl"})
      /\ \A k \in Slots : BytesIn(ps, r[Ago(nx, k)]) = IF k < n THEN lb[n - k] ELSE <<>>
  BY DEF Shows
<1>2. w \in Seq(T) /\ IsPiece(w, {"nl"}) /\ Len(w) > 0 /\ (t.ended <=> w[Len(w)] = "nl")
  BY ToldPiece
<1>3. BytesIn(ps, <<t>>) = w
  BY BytesInOne
<1>4. Begins(lb, w, lb2)
  BY DEF Begins
<1> HIDE DEF lb2, n, w
<1>5. /\ lb2 \in Seq(Seq(T)) /\ Len(lb2) = n + 1 /\ IsCut(lb2, {"nl"})
      /\ lb2[Len(lb2)] = w /\ \A k \in 1 .. n : lb2[k] = lb[k]
      /\ FlattenSeq(lb2) = st \o w
  <2>1. IsCut(lb, {"nl"}) /\ Complete(lb, {"nl"}) /\ w \in Seq(T) /\ IsPiece(w, {"nl"})
    BY <1>1, <1>2
  <2>2. /\ lb2 \in Seq(Seq(T)) /\ Len(lb2) = Len(lb) + 1 /\ IsCut(lb2, {"nl"})
        /\ lb2[Len(lb2)] = w
    BY <1>4, <2>1, CutBegins
  <2>3. \A k \in 1 .. Len(lb) : lb2[k] = lb[k]
    BY <1>4, <2>1, CutBegins
  <2>4. FlattenSeq(lb2) = FlattenSeq(lb) \o w
    BY <1>4, <2>1, CutBegins
  <2> QED BY <1>1, <1>n, <2>2, <2>3, <2>4
<1>6. /\ Size \in Nat /\ Size > 0 /\ Slots = 0 .. Size - 1
  BY RingAssumption DEF RingAssumption, Slots
<1>7. /\ nx2 \in Slots /\ Ago(nx2, 0) = nx
      /\ \A k \in 1 .. Size - 1 : Ago(nx2, k) = Ago(nx, k - 1) /\ Ago(nx, k - 1) # nx
  BY <1>1, OneLater
<1>8. \A k \in Slots : Ago(nx, k) \in Slots
  BY <1>1, OneLater
<1> HIDE DEF nx2
<1>9. /\ r2 \in [Slots -> Seq(Told(ps))] /\ r2[nx] = <<t>>
      /\ \A q \in Slots : q # nx => r2[q] = r[q]
  <2>1. <<t>> \in Seq(Told(ps))
    OBVIOUS
  <2> QED BY <1>1, <2>1 DEF Places
<1>10. ASSUME NEW k \in Slots
       PROVE  BytesIn(ps, r2[Ago(nx2, k)]) = IF k < n + 1 THEN lb2[(n + 1) - k] ELSE <<>>
  <2>1. CASE k = 0
    <3>1. r2[Ago(nx2, k)] = <<t>> /\ k < n + 1 /\ (n + 1) - k = n + 1
      BY <1>7, <1>9, <1>n, <2>1
    <3>2. lb2[n + 1] = w
      BY <1>5
    <3> QED BY <1>3, <3>1, <3>2
  <2>2. CASE k # 0
    <3>1. k \in 1 .. Size - 1 /\ k - 1 \in Slots
      BY <1>6, <2>2
    <3>2. r2[Ago(nx2, k)] = r[Ago(nx, k - 1)]
      BY <1>7, <1>8, <1>9, <3>1
    <3>3. BytesIn(ps, r2[Ago(nx2, k)]) = IF k - 1 < n THEN lb[n - (k - 1)] ELSE <<>>
      BY <1>1, <3>1, <3>2
    <3>4. CASE k < n + 1
      <4>1. k - 1 < n /\ (n + 1) - k \in 1 .. n /\ (n + 1) - k = n - (k - 1)
        BY <1>6, <1>n, <3>1, <3>4
      <4>2. lb2[(n + 1) - k] = lb[n - (k - 1)]
        BY <1>5, <4>1
      <4> QED BY <3>3, <3>4, <4>1, <4>2
    <3>5. CASE ~(k < n + 1)
      <4>1. ~(k - 1 < n)
        BY <1>6, <1>n, <3>1, <3>5
      <4> QED BY <3>3, <3>5, <4>1
    <3> QED BY <3>4, <3>5
  <2> QED BY <2>1, <2>2
<1>11. ShouldContinue(r2[Ago(nx2, 0)]) <=> ~t.ended
  <2>1. r2[Ago(nx2, 0)] = <<t>>
    BY <1>7, <1>9
  <2>2. <<t>> # <<>> /\ Last(<<t>>) = t
    BY DEF Last
  <2> QED BY <2>1, <2>2 DEF ShouldContinue
<1>12. Complete(lb2, {"nl"}) <=> t.ended
  BY <1>2, <1>5, <1>n DEF Complete
<1>13. Shows(ps, r2, nx2, st \o w, lb2)
  <2>1. \A k \in Slots : BytesIn(ps, r2[Ago(nx2, k)])
                            = IF k < Len(lb2) THEN lb2[Len(lb2) - k] ELSE <<>>
    BY <1>5, <1>10
  <2> QED BY <1>5, <1>7, <1>9, <1>11, <1>12, <2>1 DEF Shows
<1> QED BY <1>5, <1>11, <1>13 DEF w, nx2

LEMMA TokenGoesOn ==
  ASSUME NEW T, NEW ps \in Seq(Seq(T)), AllPieces(ps), NEW lb \in Seq(Seq(T)),
         NEW r, NEW nx, NEW st, Shows(ps, r, nx, st, lb), ShouldContinue(r[Ago(nx, 0)]),
         NEW t \in Told(ps), NEW r2, Places(r, Ago(nx, 0), Append(r[Ago(nx, 0)], t), r2)
  PROVE  \E lb2 \in Seq(Seq(T)) :
            /\ Shows(ps, r2, nx, st \o ps[t.n], lb2)
            /\ ShouldContinue(r2[Ago(nx, 0)]) <=> ~t.ended
<1> DEFINE w == ps[t.n]
           q == Ago(nx, 0)
           n == Len(lb)
           u == lb[n]
           e == u \o w
           lb2 == [lb EXCEPT ![n] = e]
<1>n. n = Len(lb) /\ n \in Nat
  OBVIOUS
<1>1. /\ r \in [Slots -> Seq(Told(ps))] /\ nx \in Slots
      /\ IsCut(lb, {"nl"}) /\ FlattenSeq(lb) = st /\ ~Complete(lb, {"nl"})
      /\ \A k \in Slots : BytesIn(ps, r[Ago(nx, k)]) = IF k < n THEN lb[n - k] ELSE <<>>
  BY DEF Shows
<1>2. w \in Seq(T) /\ IsPiece(w, {"nl"}) /\ Len(w) > 0 /\ (t.ended <=> w[Len(w)] = "nl")
  BY ToldPiece
<1>3. BytesIn(ps, <<t>>) = w
  BY BytesInOne
<1>4. n > 0 /\ n \in 1 .. n
  BY <1>1, <1>n DEF Complete
<1>5. u \in Seq(T) /\ u = lb[n]
  BY <1>4, <1>n
<1> HIDE DEF u, w
<1>e. e \in Seq(T) /\ e = u \o w /\ e[Len(e)] = w[Len(w)]
  <2>1. Len(w) \in 1 .. Len(w)
    BY <1>2
  <2>2. e \in Seq(T) /\ Len(e) = Len(u) + Len(w)
    BY <1>2, <1>5, ConcatIs
  <2>3. e[Len(u) + Len(w)] = w[Len(w)]
    BY <1>2, <1>5, <2>1, ConcatIs
  <2> QED BY <2>2, <2>3
<1> HIDE DEF e
<1>6. lb2 \in Seq(Seq(T)) /\ Len(lb2) = n /\ \A k \in 1 .. n : lb2[k] = IF k = n THEN e ELSE lb[k]
  BY <1>4, <1>e, ExceptSeq
<1> HIDE DEF lb2, n
<1>7. GoesOn(lb, w, lb2)
  <2>1. \A k \in 1 .. n : lb2[k] = IF k = n THEN lb[k] \o w ELSE lb[k]
    BY <1>5, <1>6, <1>e
  <2> QED BY <1>6, <1>n, <2>1 DEF GoesOn
<1>8. IsCut(lb2, {"nl"}) /\ FlattenSeq(lb2) = st \o w
  <2>0. /\ IsCut(lb, {"nl"}) /\ ~Complete(lb, {"nl"}) /\ w \in Seq(T) /\ IsPiece(w, {"nl"})
        /\ lb2 \in Seq(Seq(T))
    BY <1>1, <1>2, <1>6
  <2>1. IsCut(lb2, {"nl"}) /\ FlattenSeq(lb2) = FlattenSeq(lb) \o w
    BY <1>7, <2>0, CutGoesOn
  <2> QED BY <1>1, <2>1
<1>9. /\ Size \in Nat /\ Size > 0 /\ Slots = 0 .. Size - 1 /\ 0 \in Slots
  BY RingAssumption DEF RingAssumption, Slots
<1>10. q \in Slots /\ \A k \in Slots : Ago(nx, k) \in Slots /\ (k # 0 => Ago(nx, k) # q)
  BY <1>1, <1>9, OneLater
<1> HIDE DEF q
<1>11. r[q] \in Seq(Told(ps))
  BY <1>1, <1>10
<1>12. /\ r2 \in [Slots -> Seq(Told(ps))] /\ r2[q] = Append(r[q], t)
       /\ \A p \in Slots : p # q => r2[p] = r[p]
  <2>1. Append(r[q], t) \in Seq(Told(ps))
    BY <1>11
  <2>2. r2 = [r EXCEPT ![q] = Append(r[q], t)]
    BY DEF Places, q
  <2> QED BY <1>1, <1>10, <2>1, <2>2
<1>13. BytesIn(ps, r2[q]) = e
  <2>1. Append(r[q], t) = r[q] \o <<t>>
    BY <1>11, AppendIsConcat
  <2>2. <<t>> \in Seq(Told(ps))
    OBVIOUS
  <2>3. BytesIn(ps, r[q] \o <<t>>) = BytesIn(ps, r[q]) \o BytesIn(ps, <<t>>)
    BY <1>11, <2>2, BytesInConcat
  <2>4. BytesIn(ps, r[q]) = u
    <3>1. n - 0 = n /\ 0 < n
      BY <1>4, <1>n
    <3> QED BY <1>1, <1>5, <1>9, <3>1 DEF q
  <2> QED BY <1>3, <1>12, <1>e, <2>1, <2>3, <2>4
<1>14. ASSUME NEW k \in Slots
       PROVE  BytesIn(ps, r2[Ago(nx, k)]) = IF k < n THEN lb2[n - k] ELSE <<>>
  <2>1. CASE k = 0
    <3>1. n - k = n /\ k < n
      BY <1>4, <1>n, <2>1
    <3>2. lb2[n] = e
      BY <1>4, <1>6
    <3> QED BY <1>13, <2>1, <3>1, <3>2 DEF q
  <2>2. CASE k # 0
    <3>1. r2[Ago(nx, k)] = r[Ago(nx, k)]
      BY <1>10, <1>12, <2>2
    <3>2. k < n => lb2[n - k] = lb[n - k]
      <4>1. k < n => n - k \in 1 .. n /\ n - k # n
        BY <1>9, <1>n, <2>2
      <4> QED BY <1>6, <4>1
    <3> QED BY <1>1, <3>1, <3>2
  <2> QED BY <2>1, <2>2
<1>15. ShouldContinue(r2[q]) <=> ~t.ended
  <2> DEFINE y == r[q]
             z == Append(y, t)
  <2>1. y \in Seq(Told(ps))
    BY <1>11
  <2>2. r2[q] = z
    BY <1>12
  <2> HIDE DEF y
  <2>3. z # <<>> /\ Last(z) = t
    BY <2>1 DEF Last
  <2> QED BY <2>2, <2>3 DEF ShouldContinue
<1>16. Complete(lb2, {"nl"}) <=> t.ended
  <2>1. lb2[n] = e
    BY <1>4, <1>6
  <2> QED BY <1>2, <1>4, <1>6, <1>e, <2>1 DEF Complete
<1>17. Shows(ps, r2, nx, st \o w, lb2)
  <2>1. \A k \in Slots : BytesIn(ps, r2[Ago(nx, k)])
                            = IF k < Len(lb2) THEN lb2[Len(lb2) - k] ELSE <<>>
    BY <1>6, <1>14
  <2> QED BY <1>1, <1>8, <1>12, <1>15, <1>16, <2>1 DEF Shows, q
<1> QED BY <1>6, <1>15, <1>17 DEF w, q

\* Fragments put one behind the other.
LEMMA TokensBegin ==
  ASSUME NEW T, NEW ps \in Seq(Seq(T)), AllPieces(ps), NEW lb \in Seq(Seq(T)),
         NEW r, NEW nx, NEW st, Shows(ps, r, nx, st, lb),
         NEW tokens \in Seq(Told(ps)),
         \A i \in 1 .. Len(tokens) - 1 : tokens[i].ended,
         Len(tokens) > 0 => ~ShouldContinue(r[Ago(nx, 0)])
  PROVE  \E lb2 \in Seq(Seq(T)) :
            Shows(ps, Put(r, nx, tokens), Beyond(nx, Len(tokens)), st \o BytesIn(ps, tokens), lb2)
<1> DEFINE m == Len(tokens)
           some(j) == SubSeq(tokens, 1, j)
           ringOf(j) == Put(r, nx, some(j))
           Good(j) == \E lb2 \in Seq(Seq(T)) :
                         /\ Shows(ps, ringOf(j), Beyond(nx, j), st \o BytesIn(ps, some(j)), lb2)
                         /\ j < m => ~ShouldContinue(ringOf(j)[Ago(Beyond(nx, j), 0)])
           S == {j \in 0 .. m : Good(j)}
<1>1. /\ m \in Nat /\ r \in [Slots -> Seq(Told(ps))] /\ nx \in Slots /\ FlattenSeq(lb) = st
  BY DEF Shows
<1>2. st \in Seq(T)
  BY <1>1, FlatConcat
<1>3. 0 \in S
  <2>1. some(0) = <<>>
    OBVIOUS
  <2>2. Put(r, nx, <<>>) = r
    <3>1. \A p \in Slots : {i \in DOMAIN <<>> : Beyond(nx, i - 1) = p} = {}
      OBVIOUS
    <3>2. Put(r, nx, <<>>) = [p \in Slots |-> r[p]]
      BY <3>1 DEF Put
    <3> QED BY <1>1, <3>2
  <2>3. Beyond(nx, 0) = nx
    <3>1. Size \in Nat /\ Size > 0 /\ nx \in 0 .. Size - 1
      BY <1>1, RingAssumption DEF RingAssumption, Slots
    <3>2. Beyond(nx, 0) = IF nx + 0 < Size THEN nx + 0 ELSE nx + 0 - Size
      BY <1>1, <3>1, Around
    <3> QED BY <3>1, <3>2
  <2>4. st \o BytesIn(ps, <<>>) = st
    <3>1. Parts(ps, <<>>) = <<>>
      BY DEF Parts
    <3>2. FlattenSeq(<<>>) = <<>>
      BY DEF FlattenSeq
    <3> QED BY <1>2, <3>1, <3>2 DEF BytesIn
  <2>5. Good(0)
    BY <2>1, <2>2, <2>3, <2>4
  <2> HIDE DEF Good
  <2> QED BY <1>1, <2>5
<1>4. ASSUME NEW j \in 1 .. m, j - 1 \in S PROVE j \in S
  <2> DEFINE a == some(j - 1)
             b == some(j)
             t == tokens[j]
             nx1 == Beyond(nx, j - 1)
             r1 == Put(r, nx, a)
             r2 == Put(r, nx, b)
             st1 == st \o BytesIn(ps, a)
  <2>1. /\ a \in Seq(Told(ps)) /\ Len(a) = j - 1 /\ t \in Told(ps) /\ b = Append(a, t)
        /\ j - 1 \in Nat /\ b \in Seq(Told(ps)) /\ j - 1 < m
    BY <1>1
  <2>2. PICK lb1 \in Seq(Seq(T)) :
            /\ Shows(ps, r1, nx1, st1, lb1)
            /\ ~ShouldContinue(r1[Ago(nx1, 0)])
    BY <1>4, <2>1
  <2>3. t.ended <=> (j < m \/ t.ended)
    <3>1. j < m => j \in 1 .. Len(tokens) - 1
      BY <1>1
    <3> QED BY <3>1
  <2> HIDE DEF a, b, t
  <2>4. Places(r1, nx1, <<t>>, r2)
    <3>1. Put(r, nx, Append(a, t)) = [Put(r, nx, a) EXCEPT ![Beyond(nx, Len(a))] = <<t>>]
      BY <1>1, <2>1, PutOneMore, SMTT(30)
    <3>2. Beyond(nx, Len(a)) = nx1
      BY <2>1
    <3> QED BY <2>1, <3>1, <3>2 DEF Places
  <2>5. Beyond(nx1, 1) = Beyond(nx, j)
    <3>1. (j - 1) + 1 = j
      BY <1>1
    <3>2. Beyond(Beyond(nx, j - 1), 1) = Beyond(nx, (j - 1) + 1)
      BY <1>1, <2>1, BeyondOneMore
    <3> QED BY <3>1, <3>2
  <2>6. st1 \o ps[t.n] = st \o BytesIn(ps, b)
    <3> DEFINE x == BytesIn(ps, a)
               y == ps[t.n]
    <3>1. <<t>> \in Seq(Told(ps)) /\ b = a \o <<t>>
      BY <2>1, AppendIsConcat
    <3>2. BytesIn(ps, a \o <<t>>) = BytesIn(ps, a) \o BytesIn(ps, <<t>>)
      BY <2>1, <3>1, BytesInConcat
    <3>3. BytesIn(ps, <<t>>) = y /\ y \in Seq(T)
      BY <2>1, BytesInOne
    <3>4. x \in Seq(T)
      BY <2>1, PartsType
    <3> HIDE DEF x, y
    <3>5. (st \o x) \o y = st \o (x \o y)
      <4>1. y \in Seq(T)
        BY <3>3
      <4>2. st \in Seq(T)
        BY <1>2
      <4>3. EitherWay(st, x, y)
        BY <3>4, <4>1, <4>2, ThreeJoined
      <4> QED BY <4>3 DEF EitherWay
    <3> QED BY <3>1, <3>2, <3>3, <3>5 DEF x, y
  <2> HIDE DEF r1, r2, nx1, st1
  <2>7. PICK lb2 \in Seq(Seq(T)) :
            /\ Shows(ps, r2, Beyond(nx1, 1), st1 \o ps[t.n], lb2)
            /\ ShouldContinue(r2[Ago(Beyond(nx1, 1), 0)]) <=> ~t.ended
    BY <2>1, <2>2, <2>4, TokenBegins
  <2>8. Good(j)
    <3>1. Shows(ps, r2, Beyond(nx, j), st \o BytesIn(ps, b), lb2)
      BY <2>5, <2>6, <2>7
    <3>2. j < m => ~ShouldContinue(r2[Ago(Beyond(nx, j), 0)])
      BY <2>3, <2>5, <2>7
    <3> QED BY <3>1, <3>2 DEF r2, b
  <2> HIDE DEF Good
  <2> QED BY <1>1, <2>8
<1>5. 0 .. m \subseteq S
  <2> HIDE DEF S, m
  <2> QED BY <1>1, <1>3, <1>4, Upward
<1>6. Good(m)
  <2>1. m \in 0 .. m
    BY <1>1
  <2> HIDE DEF Good, m
  <2> QED BY <1>5, <2>1
<1>7. some(m) = tokens
  OBVIOUS
<1> QED BY <1>6, <1>7

\* A chunk written to the ring.
LEMMA WriteShows ==
  ASSUME NEW T, NEW ps \in Seq(Seq(T)), AllPieces(ps), NEW lb \in Seq(Seq(T)),
         NEW st, Shows(ps, ring, next, st, lb),
         NEW chunk \in Seq(Told(ps)), NEW scanned \in 0 .. Len(chunk),
         \A i \in 1 .. Len(chunk) - 1 : chunk[i].ended,
         Write(chunk, scanned)
  PROVE  \E lb2 \in Seq(Seq(T)) :
            Shows(ps, ring', next', st \o BytesIn(ps, SubSeq(chunk, 1, scanned)), lb2)
<1> DEFINE last == Ago(next, 0)
           tokens == SubSeq(chunk, 1, scanned)
           m == Len(tokens)
<1>1. /\ tokens \in Seq(Told(ps)) /\ m = scanned /\ m \in Nat /\ m <= Len(chunk)
      /\ \A i \in 1 .. m - 1 : tokens[i].ended
  OBVIOUS
<1>2. /\ ring \in [Slots -> Seq(Told(ps))] /\ next \in Slots /\ FlattenSeq(lb) = st
  BY DEF Shows
<1>3. last = Beyond(next, Size - 1) /\ last \in Slots
  <2>1. Size \in Nat /\ Size > 0 /\ 0 \in Slots
    BY RingAssumption DEF RingAssumption, Slots
  <2>2. Size - 1 - 0 = Size - 1
    BY <2>1
  <2> QED BY <1>2, <2>1, <2>2, OneLater DEF Ago
<1>4. st \in Seq(T)
  BY <1>2, FlatConcat
<1> DEFINE joined == tokens # <<>> /\ ShouldContinue(ring[last])
<1>5. /\ ring' = Put(IF joined THEN [ring EXCEPT ![last] = Append(@, Head(tokens))] ELSE ring,
                     next, IF joined THEN Tail(tokens) ELSE tokens)
      /\ next' = Beyond(next, Len(IF joined THEN Tail(tokens) ELSE tokens))
  BY <1>3 DEF Write
<1> HIDE DEF tokens, last
<1>6. tokens # <<>> <=> m > 0
  BY <1>1
<1>7. CASE ~joined
  <2>1. ring' = Put(ring, next, tokens) /\ next' = Beyond(next, Len(tokens))
    BY <1>5, <1>7
  <2>2. Len(tokens) > 0 => ~ShouldContinue(ring[Ago(next, 0)])
    BY <1>6, <1>7 DEF last
  <2>3. \E lb2 \in Seq(Seq(T)) :
            Shows(ps, Put(ring, next, tokens), Beyond(next, Len(tokens)),
                  st \o BytesIn(ps, tokens), lb2)
    BY <1>1, <2>2, TokensBegin
  <2> QED BY <2>1, <2>3 DEF tokens
<1>8. CASE joined
  <2> DEFINE t == Head(tokens)
             more == Tail(tokens)
             ring1 == [ring EXCEPT ![last] = Append(ring[last], t)]
  <2>1. /\ t \in Told(ps) /\ more \in Seq(Told(ps)) /\ t = tokens[1]
        /\ Len(more) = m - 1 /\ tokens = <<t>> \o more
        /\ \A i \in 1 .. m - 1 : more[i] = tokens[i + 1]
    <3>1. m > 0
      BY <1>6, <1>8
    <3>2. /\ t \in Told(ps) /\ more \in Seq(Told(ps)) /\ t = tokens[1]
          /\ Len(more) = m - 1 /\ \A i \in 1 .. m - 1 : more[i] = tokens[i + 1]
      BY <1>1, <3>1
    <3>3. tokens = <<t>> \o more
      BY <1>1, <1>6, <3>1, HeadTailProperties, SMT
    <3> QED BY <3>2, <3>3
  <2>2. ring' = Put(ring1, next, more) /\ next' = Beyond(next, Len(more))
    BY <1>5, <1>8
  <2>3. \A i \in 1 .. Len(more) - 1 : more[i].ended
    <3>1. ASSUME NEW i \in 1 .. Len(more) - 1 PROVE more[i].ended
      <4>1. i \in 1 .. m - 1 /\ i + 1 \in 1 .. m - 1
        BY <1>1, <2>1
      <4> QED BY <1>1, <2>1, <4>1
    <3> QED BY <3>1
  <2>4. Len(more) > 0 => t.ended
    BY <1>1, <2>1
  <2> HIDE DEF t, more, m
  <2>5. Places(ring, Ago(next, 0), Append(ring[Ago(next, 0)], t), ring1)
    BY DEF Places, last
  <2>6. ShouldContinue(ring[Ago(next, 0)])
    BY <1>8 DEF last
  <2> HIDE DEF ring1
  <2>t. t \in Told(ps)
    BY <2>1
  <2>7. PICK lb1 \in Seq(Seq(T)) :
            /\ Shows(ps, ring1, next, st \o ps[t.n], lb1)
            /\ ShouldContinue(ring1[Ago(next, 0)]) <=> ~t.ended
    BY <2>t, <2>5, <2>6, TokenGoesOn
  <2>8. Len(more) > 0 => ~ShouldContinue(ring1[Ago(next, 0)])
    BY <2>4, <2>7
  <2> DEFINE st1 == st \o ps[t.n]
  <2>9. Shows(ps, ring1, next, st1, lb1)
    BY <2>7
  <2>10. st1 \o BytesIn(ps, more) = st \o BytesIn(ps, tokens)
    <3> DEFINE x == ps[t.n]
               y == BytesIn(ps, more)
    <3>1. <<t>> \in Seq(Told(ps))
      BY <2>1
    <3>2. BytesIn(ps, <<t>> \o more) = BytesIn(ps, <<t>>) \o BytesIn(ps, more)
      BY <2>1, <3>1, BytesInConcat
    <3>3. BytesIn(ps, <<t>>) = x /\ x \in Seq(T)
      BY <2>1, BytesInOne
    <3>4. y \in Seq(T)
      BY <2>1, PartsType
    <3> HIDE DEF x, y
    <3>5. (st \o x) \o y = st \o (x \o y)
      <4>1. st \in Seq(T)
        BY <1>4
      <4>2. x \in Seq(T)
        BY <3>3
      <4>3. EitherWay(st, x, y)
        BY <3>4, <4>1, <4>2, ThreeJoined
      <4> QED BY <4>3 DEF EitherWay
    <3> QED BY <2>1, <3>2, <3>3, <3>5 DEF x, y
  <2> HIDE DEF st1
  <2>11. \E lb2 \in Seq(Seq(T)) :
            Shows(ps, Put(ring1, next, more), Beyond(next, Len(more)),
                  st1 \o BytesIn(ps, more), lb2)
    BY <2>1, <2>3, <2>8, <2>9, TokensBegin
  <2> QED BY <2>2, <2>10, <2>11 DEF tokens
<1> QED BY <1>7, <1>8

-----------------------------------------------------------------------------
(***************************************************************************)
(* Where the lines lie in the output.                                      *)
(***************************************************************************)
\* E[k] is the end of the line k of those that are cut at "nl".
Ends(lb, E) ==
    /\ E \in [0 .. Len(lb) -> Nat] /\ E[0] = 0 /\ E[Len(lb)] = Len(FlattenSeq(lb))
    /\ \A k \in 1 .. Len(lb) :
          /\ E[k - 1] < E[k]
          /\ k < Len(lb) => FlattenSeq(lb)[E[k]] = "nl"
          /\ \A j \in E[k - 1] + 1 .. E[k] - 1 : FlattenSeq(lb)[j] # "nl"
    /\ \A k \in 0 .. Len(lb) : FlattenSeq(SubSeq(lb, k + 1, Len(lb))) = From(FlattenSeq(lb), E[k] + 1)

LEMMA FromBehind ==
  ASSUME NEW T, NEW a \in Seq(T), NEW b \in Seq(T)
  PROVE  From(a \o b, Len(a) + 1) = b
<1> DEFINE s == a \o b
           m == Len(a)
           n == Len(b)
           c == SubSeq(s, m + 1, m + n)
<1>1. /\ s \in Seq(T) /\ Len(s) = m + n /\ m \in Nat /\ n \in Nat
      /\ \A i \in 1 .. n : s[m + i] = b[i]
  BY ConcatIs
<1>b. b \in Seq(T) /\ Len(b) = n
  OBVIOUS
<1> HIDE DEF s, m, n
<1>2. c \in Seq(T) /\ Len(c) = n /\ \A i \in 1 .. n : c[i] = s[m + i]
  <2>1. c \in Seq(T) /\ Len(c) = n
    BY <1>1
  <2>2. ASSUME NEW i \in 1 .. n PROVE c[i] = s[m + i]
    <3>1. m + 1 + i - 1 = m + i
      BY <1>1
    <3> QED BY <1>1, <3>1
  <2> QED BY <2>1, <2>2
<1>3. \A i \in 1 .. Len(c) : c[i] = b[i]
  BY <1>1, <1>2
<1>4. Len(c) = Len(b)
  BY <1>2, <1>b
<1> HIDE DEF c
<1>5. c = b
  BY <1>2, <1>3, <1>4, <1>b, SeqEqual
<1>6. From(s, m + 1) = SubSeq(s, m + 1, m + n)
  BY <1>1 DEF From
<1> QED BY <1>5, <1>6 DEF c, s, m

LEMMA LinesHaveEnds ==
  ASSUME NEW T, NEW lb \in Seq(Seq(T)), IsCut(lb, {"nl"})
  PROVE  \E E : Ends(lb, E)
<1> DEFINE n == Len(lb)
           st == FlattenSeq(lb)
           A(k) == FlattenSeq(SubSeq(lb, 1, k))
           R(k) == FlattenSeq(SubSeq(lb, k + 1, n))
           E == [k \in 0 .. n |-> Len(A(k))]
<1>n. n = Len(lb) /\ n \in Nat
  OBVIOUS
<1>1. ASSUME NEW k \in 0 .. n
      PROVE  A(k) \in Seq(T) /\ R(k) \in Seq(T) /\ st = A(k) \o R(k)
  <2> DEFINE a == SubSeq(lb, 1, k)
             b == SubSeq(lb, k + 1, n)
  <2>1. a \in Seq(Seq(T)) /\ b \in Seq(Seq(T))
    OBVIOUS
  <2>2. lb = a \o b
    <3>1. k \in 1 - 1 .. n /\ n \in k .. n /\ 1 \in 1 .. n + 1
      BY <1>n
    <3>2. SubSeq(lb, 1, n) = lb
      OBVIOUS
    <3> QED BY <3>1, <3>2, ConcatAdjacentSubSeq
  <2> HIDE DEF a, b
  <2>3. FlattenSeq(a \o b) = FlattenSeq(a) \o FlattenSeq(b)
    BY <2>1, FlatConcat
  <2>4. FlattenSeq(a) \in Seq(T) /\ FlattenSeq(b) \in Seq(T)
    BY <2>1, FlatConcat
  <2> QED BY <2>2, <2>3, <2>4 DEF a, b
<1>2. ASSUME NEW k \in 1 .. n
      PROVE  A(k) = A(k - 1) \o lb[k] /\ lb[k] \in Seq(T)
  <2> DEFINE a == SubSeq(lb, 1, k - 1)
             b == SubSeq(lb, 1, k)
             x == <<lb[k]>>
  <2>1. a \in Seq(Seq(T)) /\ b \in Seq(Seq(T)) /\ x \in Seq(Seq(T)) /\ lb[k] \in Seq(T)
    OBVIOUS
  <2>2. b = a \o x
    BY OneMore
  <2>x. x = <<lb[k]>>
    OBVIOUS
  <2> HIDE DEF a, b, x
  <2>3. FlattenSeq(a \o x) = FlattenSeq(a) \o FlattenSeq(x)
    BY <2>1, FlatConcat
  <2>4. FlattenSeq(x) = lb[k]
    BY <2>1, <2>x, FlatOne
  <2> QED BY <2>1, <2>2, <2>3, <2>4 DEF a, b
<1> HIDE DEF n, A, R, st
<1>3. ASSUME NEW k \in 0 .. n PROVE E[k] \in Nat /\ E[k] = Len(A(k)) /\ A(k) \in Seq(T)
  <2>1. A(k) \in Seq(T)
    BY <1>1
  <2> QED BY <2>1
<1>4. E[0] = 0
  <2>1. SubSeq(lb, 1, 0) = <<>> /\ Len(<<>>) = 0
    OBVIOUS
  <2>2. FlattenSeq(<<>>) = <<>>
    BY DEF FlattenSeq
  <2>3. 0 \in 0 .. n
    BY <1>n
  <2> QED BY <2>1, <2>2, <2>3 DEF A
<1>5. E[n] = Len(st)
  <2>1. SubSeq(lb, 1, n) = lb
    BY <1>n
  <2>2. n \in 0 .. n
    BY <1>n
  <2> QED BY <2>1, <2>2 DEF A, st
<1> HIDE DEF E
<1>6. ASSUME NEW k \in 1 .. n
      PROVE  /\ E[k - 1] < E[k]
             /\ k < n => st[E[k]] = "nl"
             /\ \A j \in E[k - 1] + 1 .. E[k] - 1 : st[j] # "nl"
  <2> DEFINE a == A(k - 1)
             b == A(k)
             w == lb[k]
             r == R(k)
  <2>0. k - 1 \in 0 .. n /\ k \in 0 .. n
    BY <1>n
  <2>1. /\ a \in Seq(T) /\ b \in Seq(T) /\ w \in Seq(T) /\ r \in Seq(T)
        /\ b = a \o w /\ st = b \o r
        /\ E[k - 1] = Len(a) /\ E[k] = Len(b)
    BY <1>1, <1>2, <1>3, <2>0
  <2>2. /\ Len(w) > 0 /\ \A j \in 1 .. Len(w) - 1 : w[j] # "nl"
        /\ k < n => w[Len(w)] = "nl"
    BY <1>n DEF IsCut
  <2> HIDE DEF a, b, w, r
  <2>3. Len(b) = Len(a) + Len(w) /\ \A j \in 1 .. Len(w) : b[Len(a) + j] = w[j]
    <3>1. Len(a \o w) = Len(a) + Len(w)
      BY <2>1, ConcatIs
    <3>2. \A j \in 1 .. Len(w) : (a \o w)[Len(a) + j] = w[j]
      BY <2>1, ConcatIs
    <3> QED BY <2>1, <3>1, <3>2
  <2>4. \A j \in 1 .. Len(b) : st[j] = b[j]
    <3>1. \A j \in 1 .. Len(b) : (b \o r)[j] = b[j]
      BY <2>1, ConcatIs
    <3> QED BY <2>1, <3>1
  <2> DEFINE u == Len(a)
             v == Len(w)
  <2>5. u \in Nat /\ v \in Nat /\ v > 0 /\ Len(b) = u + v
    BY <2>1, <2>2, <2>3
  <2> HIDE DEF u, v
  <2>6. \A j \in 1 .. v : st[u + j] = w[j]
    <3>1. \A j \in 1 .. v : b[u + j] = w[j]
      BY <2>3 DEF u, v
    <3>2. \A j \in 1 .. v : u + j \in 1 .. Len(b)
      BY <2>5
    <3> QED BY <2>4, <3>1, <3>2
  <2>7. E[k - 1] = u /\ E[k] = u + v
    BY <2>1, <2>5 DEF u
  <2>8. k < n => st[u + v] = "nl"
    <3>1. v \in 1 .. v
      BY <2>5
    <3> QED BY <2>2, <2>6, <3>1 DEF v
  <2>9. ASSUME NEW j \in u + 1 .. u + v - 1 PROVE st[j] # "nl"
    <3>1. PICK i \in 1 .. v - 1 : j = u + i
      <4>1. j - u \in 1 .. v - 1 /\ j = u + (j - u)
        BY <2>5
      <4> QED BY <4>1
    <3>2. i \in 1 .. v /\ w[i] # "nl"
      BY <2>2, <2>5 DEF v
    <3> QED BY <2>6, <3>1, <3>2
  <2> QED BY <2>5, <2>7, <2>8, <2>9
<1>7. ASSUME NEW k \in 0 .. n PROVE R(k) = From(st, E[k] + 1)
  <2>1. A(k) \in Seq(T) /\ R(k) \in Seq(T) /\ st = A(k) \o R(k) /\ E[k] = Len(A(k))
    BY <1>1, <1>3
  <2>2. From(A(k) \o R(k), Len(A(k)) + 1) = R(k)
    BY <2>1, FromBehind
  <2> QED BY <2>1, <2>2
<1>8. E \in [0 .. n -> Nat]
  <2>1. E = [k \in 0 .. n |-> E[k]]
    BY DEF E
  <2> QED BY <1>3, <2>1
<1>9. Ends(lb, E)
  <2>1. \A k \in 0 .. n : R(k) = From(st, E[k] + 1)
    BY <1>7
  <2>2. \A k \in 0 .. n : FlattenSeq(SubSeq(lb, k + 1, n)) = From(st, E[k] + 1)
    BY <2>1 DEF R
  <2>3. \A k \in 1 .. n :
             /\ E[k - 1] < E[k]
             /\ k < n => st[E[k]] = "nl"
             /\ \A j \in E[k - 1] + 1 .. E[k] - 1 : st[j] # "nl"
    BY <1>6
  <2> QED BY <1>4, <1>5, <1>8, <2>2, <2>3 DEF Ends, st, n
<1> QED BY <1>9

LEMMA EndsGrow ==
  ASSUME NEW T, NEW lb \in Seq(Seq(T)), NEW E, Ends(lb, E)
  PROVE  \A k, l \in 0 .. Len(lb) : k < l => E[k] < E[l]
<1> DEFINE n == Len(lb)
           S == {l \in 0 .. n : \A k \in 0 .. n : k < l => E[k] < E[l]}
<1>1. /\ n \in Nat /\ \A k \in 0 .. n : E[k] \in Nat
      /\ \A k \in 1 .. n : E[k - 1] < E[k]
  <2>1. n \in Nat /\ E \in [0 .. n -> Nat]
    BY DEF Ends
  <2>2. \A k \in 1 .. n : E[k - 1] < E[k]
    BY DEF Ends
  <2> QED BY <2>1, <2>2
<1> HIDE DEF n
<1>2. 0 \in S
  BY <1>1
<1>3. ASSUME NEW l \in 1 .. n, l - 1 \in S PROVE l \in S
  <2>1. l \in 0 .. n /\ l - 1 \in 0 .. n
    BY <1>1
  <2>2. ASSUME NEW k \in 0 .. n, k < l PROVE E[k] < E[l]
    <3>1. CASE k = l - 1
      BY <1>1, <3>1
    <3>2. CASE k # l - 1
      <4>1. k < l - 1
        BY <2>2, <3>2
      <4>2. E[k] < E[l - 1] /\ E[l - 1] < E[l]
        BY <1>1, <1>3, <4>1
      <4>3. E[k] \in Nat /\ E[l - 1] \in Nat /\ E[l] \in Nat
        BY <1>1, <2>1
      <4> QED BY <4>2, <4>3
    <3> QED BY <3>1, <3>2
  <2> QED BY <2>1, <2>2
<1>4. 0 .. n \subseteq S
  <2> HIDE DEF S
  <2> QED BY <1>1, <1>2, <1>3, Upward
<1> QED BY <1>4 DEF n

\* The newlines from i on, the last byte apart.
Newlines(st, i) == {j \in i .. Len(st) - 1 : st[j] = "nl"}

\* The newlines behind the line k are the ends of the lines that follow, but for the last.
LEMMA NewlinesAreEnds ==
  ASSUME NEW T, NEW lb \in Seq(Seq(T)), NEW E, Ends(lb, E), NEW k \in 0 .. Len(lb)
  PROVE  Newlines(FlattenSeq(lb), E[k] + 1) = {E[l] : l \in k + 1 .. Len(lb) - 1}
<1> DEFINE n == Len(lb)
           st == FlattenSeq(lb)
<1>1. /\ n \in Nat /\ E[0] = 0 /\ E[n] = Len(st)
      /\ \A l \in 0 .. n : E[l] \in Nat
      /\ \A l \in 1 .. n :
            /\ l < n => st[E[l]] = "nl"
            /\ \A j \in E[l - 1] + 1 .. E[l] - 1 : st[j] # "nl"
  <2>1. n \in Nat /\ E \in [0 .. n -> Nat] /\ E[0] = 0 /\ E[n] = Len(st)
    BY DEF Ends
  <2>2. \A l \in 1 .. n :
            /\ l < n => st[E[l]] = "nl"
            /\ \A j \in E[l - 1] + 1 .. E[l] - 1 : st[j] # "nl"
    BY Zenon DEF Ends
  <2> QED BY <2>1, <2>2
<1>2. \A l, m \in 0 .. n : l < m => E[l] < E[m]
  BY EndsGrow
<1>k. k \in 0 .. n
  OBVIOUS
<1> HIDE DEF n, st
<1>3. ASSUME NEW l \in k + 1 .. n - 1 PROVE E[l] \in Newlines(st, E[k] + 1)
  <2>1. l \in 1 .. n /\ l \in 0 .. n /\ n \in 0 .. n /\ k < l /\ l < n
    BY <1>1, <1>k
  <2>2. E[k] < E[l] /\ E[l] < E[n] /\ st[E[l]] = "nl"
    BY <1>1, <1>2, <1>k, <2>1
  <2>3. E[l] \in E[k] + 1 .. Len(st) - 1
    <3> DEFINE x == E[k]
               y == E[l]
               z == E[n]
    <3>1. x \in Nat /\ y \in Nat /\ z \in Nat /\ x < y /\ y < z /\ z = Len(st)
      BY <1>1, <1>k, <2>1, <2>2
    <3> HIDE DEF x, y, z
    <3>2. y \in x + 1 .. z - 1
      BY <3>1
    <3> QED BY <3>1, <3>2 DEF x, y
  <2> QED BY <2>2, <2>3 DEF Newlines
<1>4. ASSUME NEW j \in Newlines(st, E[k] + 1) PROVE \E l \in k + 1 .. n - 1 : j = E[l]
  <2>0. E[k] \in Nat /\ E[n] \in Nat
    <3>1. n \in 0 .. n
      BY <1>1
    <3> QED BY <1>1, <1>k, <3>1
  <2>1. j \in E[k] + 1 .. E[n] - 1 /\ st[j] = "nl"
    BY <1>1 DEF Newlines
  <2>2. j \in Nat /\ E[k] < j /\ j < E[n]
    BY <2>0, <2>1
  <2> DEFINE L == {l \in 0 .. n : j <= E[l]}
  <2>3. L \subseteq Nat /\ L # {}
    <3>1. n \in L
      BY <1>1, <2>0, <2>2
    <3> QED BY <3>1
  <2>4. PICK l \in L : \A m \in L : l <= m
    <3> HIDE DEF L
    <3> QED BY <2>3, LeastNumber
  <2>5. l \in 0 .. n /\ j <= E[l]
    OBVIOUS
  <2>6. l # 0
    BY <1>1, <2>0, <2>2, <2>5
  <2>7. l - 1 \in 0 .. n /\ l \in 1 .. n
    BY <1>1, <2>5, <2>6
  <2>8. E[l - 1] < j
    <3>1. l - 1 \notin L
      BY <2>4, <2>7
    <3>2. ~(j <= E[l - 1])
      BY <2>7, <3>1
    <3> QED BY <1>1, <2>2, <2>7, <3>2
  <2>9. j = E[l]
    <3> DEFINE x == E[l - 1]
               y == E[l]
    <3>1. x \in Nat /\ y \in Nat /\ x < j /\ j <= y
      BY <1>1, <2>5, <2>7, <2>8
    <3>2. \A i \in x + 1 .. y - 1 : st[i] # "nl"
      BY <1>1, <2>7
    <3> HIDE DEF x, y
    <3>3. j \notin x + 1 .. y - 1
      BY <2>1, <3>2
    <3>4. j = y
      BY <2>2, <3>1, <3>3
    <3> QED BY <3>4 DEF y
  <2>10. k < l
    <3>1. CASE l < k
      <4>1. E[l] < E[k] /\ E[l] \in Nat
        BY <1>1, <1>2, <1>k, <2>5, <3>1
      <4> QED BY <2>0, <2>2, <2>9, <4>1
    <3>2. CASE l = k
      BY <2>0, <2>2, <2>9, <3>2
    <3> QED BY <1>1, <1>k, <2>5, <3>1, <3>2
  <2>11. l # n
    BY <2>0, <2>2, <2>9
  <2>12. l \in k + 1 .. n - 1
    BY <1>1, <1>k, <2>5, <2>10, <2>11
  <2> QED BY <2>9, <2>12
<1>5. Newlines(st, E[k] + 1) = {E[l] : l \in k + 1 .. n - 1}
  BY <1>3, <1>4
<1> QED BY <1>5 DEF n, st

\* So many lines, so many newlines.
LEMMA NewlinesCounted ==
  ASSUME NEW T, NEW lb \in Seq(Seq(T)), NEW E, Ends(lb, E), NEW k \in 0 .. Len(lb)
  PROVE  LET N == Newlines(FlattenSeq(lb), E[k] + 1)
         IN  /\ IsFiniteSet(N)
             /\ Cardinality(N) = IF k + 1 > Len(lb) - 1 THEN 0 ELSE Len(lb) - 1 - k
<1> DEFINE n == Len(lb)
           D == k + 1 .. n - 1
           N == {E[l] : l \in D}
           f == [l \in D |-> E[l]]
<1>1. n \in Nat /\ k \in 0 .. n
  OBVIOUS
<1>2. \A l, m \in 0 .. n : l < m => E[l] < E[m]
  BY EndsGrow
<1>3. \A l \in 0 .. n : E[l] \in Nat
  BY DEF Ends
<1>4. Newlines(FlattenSeq(lb), E[k] + 1) = N
  BY NewlinesAreEnds
<1> HIDE DEF n
<1>5. IsFiniteSet(D) /\ Cardinality(D) = IF k + 1 > n - 1 THEN 0 ELSE (n - 1) - (k + 1) + 1
  BY <1>1, FS_Interval
<1>6. f \in Surjection(D, N)
  <2>1. f \in [D -> N] /\ \A x \in N : \E l \in D : f[l] = x
    OBVIOUS
  <2> HIDE DEF D, f, N
  <2> QED BY <2>1, Fun_IsSurj
<1>7. f \in Injection(D, N)
  <2>1. ASSUME NEW a \in D, NEW b \in D, E[a] = E[b] PROVE a = b
    <3>1. a \in 0 .. n /\ b \in 0 .. n /\ a \in Int /\ b \in Int
      BY <1>1
    <3>2. ~(E[a] < E[b]) /\ ~(E[b] < E[a])
      BY <1>3, <2>1, <3>1
    <3>3. ~(a < b) /\ ~(b < a)
      BY <1>2, <3>1, <3>2
    <3> QED BY <3>1, <3>3
  <2>2. f \in [D -> N]
    OBVIOUS
  <2>3. \A a, b \in D : f[a] = f[b] => a = b
    BY <2>1
  <2> HIDE DEF D, f, N
  <2> QED BY <2>2, <2>3, Fun_IsInj
<1> HIDE DEF D, N, f
<1>8. IsFiniteSet(N) /\ Cardinality(N) = Cardinality(D)
  BY <1>5, <1>6, <1>7, FS_Surjection
<1>9. (n - 1) - (k + 1) + 1 = n - 1 - k
  BY <1>1
<1> QED BY <1>4, <1>5, <1>8, <1>9 DEF n

LEMMA FewestFrom ==
  ASSUME NEW S, S \subseteq Int, NEW a \in S, \A x \in S : a <= x
  PROVE  Min(S) = a
<1> DEFINE m == Min(S)
<1>1. m \in S /\ \A x \in S : m <= x
  <2>1. \E x \in S : \A y \in S : x <= y
    OBVIOUS
  <2> QED BY <2>1 DEF Min
<1> HIDE DEF m
<1>2. m <= a /\ a <= m /\ m \in Int /\ a \in Int
  BY <1>1
<1>3. m = a
  BY <1>2
<1> QED BY <1>3 DEF m

\* The last Size lines begin where fewer than Size newlines follow.
Older(n) == IF n <= Size THEN 0 ELSE n - Size

LEMMA LastLines ==
  ASSUME NEW T, NEW lb \in Seq(Seq(T)), IsCut(lb, {"nl"})
  PROVE  LET st == FlattenSeq(lb)
             fewer == {i \in 1 .. Len(st) + 1 : Cardinality(Newlines(st, i)) < Size}
         IN  FlattenSeq(SubSeq(lb, Older(Len(lb)) + 1, Len(lb))) = From(st, Min(fewer))
<1> DEFINE n == Len(lb)
           m == Older(n)
           st == FlattenSeq(lb)
           fewer == {i \in 1 .. Len(st) + 1 : Cardinality(Newlines(st, i)) < Size}
           R == FlattenSeq(SubSeq(lb, m + 1, n))
<1>1. PICK E : Ends(lb, E)
  BY LinesHaveEnds
<1>2. Size \in Nat /\ Size > 0
  BY RingAssumption DEF RingAssumption
<1>3. n \in Nat /\ m \in 0 .. n /\ m = (IF n <= Size THEN 0 ELSE n - Size) /\ n = Len(lb)
  BY <1>2 DEF Older
<1>4. R = From(st, E[m] + 1)
  BY <1>1, <1>3 DEF Ends
<1>5. E \in [0 .. n -> Nat] /\ E[0] = 0 /\ E[n] = Len(st)
  BY <1>1 DEF Ends
<1>6. \A k, l \in 0 .. n : k < l => E[k] < E[l]
  BY <1>1, EndsGrow
<1>7. ASSUME NEW k \in 0 .. n
      PROVE  /\ IsFiniteSet(Newlines(st, E[k] + 1))
             /\ Cardinality(Newlines(st, E[k] + 1)) = IF k + 1 > n - 1 THEN 0 ELSE n - 1 - k
             /\ Newlines(st, E[k] + 1) = {E[l] : l \in k + 1 .. n - 1}
  BY <1>1, NewlinesCounted, NewlinesAreEnds
<1> HIDE DEF n, m, st, R
<1>8. n \in 0 .. n /\ E[m] \in Nat /\ E[n] \in Nat
  BY <1>3, <1>5
<1>9. E[m] + 1 \in fewer
  <2>1. Cardinality(Newlines(st, E[m] + 1)) < Size
    <3>1. 0 < Size /\ n - 1 - m < Size
      <4>1. n \in Nat /\ m \in Nat /\ n <= Size + m
        BY <1>2, <1>3
      <4> QED BY <1>2, <4>1
    <3>2. Cardinality(Newlines(st, E[m] + 1)) = IF m + 1 > n - 1 THEN 0 ELSE n - 1 - m
      BY <1>3, <1>7
    <3> QED BY <3>1, <3>2
  <2>2. E[m] <= E[n]
    <3>1. m < n \/ m = n
      BY <1>3
    <3>2. m < n => E[m] < E[n]
      BY <1>3, <1>6, <1>8
    <3> QED BY <1>8, <3>1, <3>2
  <2>3. E[m] + 1 \in 1 .. Len(st) + 1
    BY <1>5, <1>8, <2>2
  <2> QED BY <2>1, <2>3
<1>10. ASSUME NEW i \in fewer PROVE E[m] + 1 <= i
  <2>0. i \in Nat /\ i >= 1 /\ Cardinality(Newlines(st, i)) < Size
    BY <1>5, <1>8
  <2>1. CASE m = 0
    BY <1>5, <2>0, <2>1
  <2>2. CASE m # 0
    <3> SUFFICES ASSUME i <= E[m] PROVE FALSE
      BY <1>8, <2>0
    <3>1. m - 1 \in 0 .. n /\ m = n - Size /\ m > 0
      BY <1>2, <1>3, <2>2
    <3> DEFINE N == Newlines(st, E[m - 1] + 1)
               M == Newlines(st, i)
    <3>2. IsFiniteSet(N) /\ Cardinality(N) = Size /\ N = {E[l] : l \in m .. n - 1}
      <4>1. /\ IsFiniteSet(N) /\ N = {E[l] : l \in (m - 1) + 1 .. n - 1}
            /\ Cardinality(N) = IF (m - 1) + 1 > n - 1 THEN 0 ELSE n - 1 - (m - 1)
        BY <1>7, <3>1
      <4>2. (m - 1) + 1 = m /\ ~((m - 1) + 1 > n - 1) /\ n - 1 - (m - 1) = Size
        BY <1>2, <1>3, <3>1
      <4> QED BY <4>1, <4>2
    <3>3. ASSUME NEW l \in m .. n - 1 PROVE E[l] \in M
      <4>1. l \in 0 .. n /\ l < n /\ (l = m \/ m < l)
        BY <1>3
      <4>2. E[l] < E[n] /\ (m < l => E[m] < E[l]) /\ E[l] \in Nat
        BY <1>3, <1>5, <1>6, <1>8, <4>1
      <4>3. E[m] <= E[l]
        BY <1>8, <4>1, <4>2
      <4>4. E[l] \in N
        BY <3>2
      <4>5. st[E[l]] = "nl"
        BY <4>4 DEF Newlines
      <4>6. E[l] \in i .. Len(st) - 1
        <5> DEFINE x == E[l]
                   y == E[m]
                   z == E[n]
        <5>1. x \in Nat /\ y \in Nat /\ z \in Nat /\ i <= y /\ y <= x /\ x < z /\ z = Len(st)
          BY <1>5, <1>8, <4>2, <4>3
        <5> HIDE DEF x, y, z
        <5>2. x \in i .. z - 1
          BY <2>0, <5>1
        <5> QED BY <5>1, <5>2 DEF x
      <4> QED BY <4>5, <4>6 DEF Newlines
    <3>4. N \subseteq M
      BY <3>2, <3>3
    <3>5. IsFiniteSet(M)
      <4>1. Len(st) \in Nat
        BY <1>5, <1>8
      <4>2. IsFiniteSet(i .. Len(st) - 1)
        BY <2>0, <4>1, FS_Interval
      <4>3. M \subseteq i .. Len(st) - 1
        BY DEF Newlines
      <4> QED BY <4>2, <4>3, FS_Subset
    <3> HIDE DEF M, N
    <3>6. Cardinality(N) <= Cardinality(M) /\ Cardinality(M) \in Nat
      BY <3>4, <3>5, FS_Subset, FS_CardinalityType
    <3>7. Cardinality(M) < Size
      BY <2>0 DEF M
    <3> QED BY <1>2, <3>2, <3>6, <3>7
  <2> QED BY <2>1, <2>2
<1>11. Min(fewer) = E[m] + 1
  <2>1. fewer \subseteq Int
    BY <1>5, <1>8
  <2> DEFINE a == E[m] + 1
  <2>2. a \in fewer /\ \A x \in fewer : a <= x
    BY <1>9, <1>10
  <2> HIDE DEF a, fewer
  <2>3. Min(fewer) = a
    BY <2>1, <2>2, FewestFrom
  <2> QED BY <2>3 DEF a
<1> QED BY <1>4, <1>11 DEF n, m, st, R

-----------------------------------------------------------------------------
(***************************************************************************)
(* What GetContent returns.                                                *)
(***************************************************************************)
LEMMA FlatEmpty ==
  ASSUME NEW T, NEW es \in Seq(Seq(T)), \A i \in 1 .. Len(es) : es[i] = <<>>
  PROVE  FlattenSeq(es) = <<>>
<1> DEFINE n == Len(es)
<1>1. PICK F \in [0 .. n -> Seq(T)] : Flat(es, F) /\ FlattenSeq(es) = F[n]
  BY FlatUnfolds
<1>2. n \in Nat /\ F[0] = <<>> /\ \A i \in 1 .. n : F[i] = F[i - 1] \o <<>>
  <2>1. n \in Nat /\ F[0] = <<>>
    BY <1>1 DEF Flat
  <2>2. ASSUME NEW i \in 1 .. n PROVE F[i] = F[i - 1] \o <<>>
    <3>1. F[i] = F[i - 1] \o es[i]
      BY <1>1 DEF Flat
    <3>2. es[i] = <<>>
      OBVIOUS
    <3> QED BY <3>1, <3>2
  <2> QED BY <2>1, <2>2
<1> DEFINE S == {i \in 0 .. n : F[i] = <<>>}
<1> HIDE DEF n
<1>3. 0 \in S
  BY <1>2
<1>4. ASSUME NEW i \in 1 .. n, i - 1 \in S PROVE i \in S
  <2>1. F[i - 1] = <<>> /\ i \in 0 .. n
    BY <1>2, <1>4
  <2>2. F[i] = <<>> \o <<>>
    BY <1>2, <2>1
  <2>3. <<>> \o <<>> = <<>>
    OBVIOUS
  <2> QED BY <2>1, <2>2, <2>3
<1>5. 0 .. n \subseteq S
  <2> HIDE DEF S
  <2> QED BY <1>2, <1>3, <1>4, Upward
<1>6. n \in S
  <2>1. n \in 0 .. n
    BY <1>2
  <2> QED BY <1>5, <2>1
<1> QED BY <1>1, <1>6

LEMMA ContentShown ==
  ASSUME NEW T, NEW ps \in Seq(Seq(T)), AllPieces(ps), NEW lb \in Seq(Seq(T)),
         NEW st, Shows(ps, ring, next, st, lb)
  PROVE  /\ BytesIn(ps, GetContent) = FlattenSeq(SubSeq(lb, Older(Len(lb)) + 1, Len(lb)))
         /\ GetContent \in Seq(Told(ps))
<1> DEFINE n == Len(lb)
           ss == [i \in 1 .. Size |-> ring[Beyond(next, i - 1)]]
           bs == [i \in 1 .. Size |-> BytesIn(ps, ss[i])]
<1>1. Size \in Nat /\ Size > 0 /\ Slots = 0 .. Size - 1
  BY RingAssumption DEF RingAssumption, Slots
<1>2. /\ ring \in [Slots -> Seq(Told(ps))] /\ next \in Slots
      /\ \A k \in Slots : BytesIn(ps, ring[Ago(next, k)]) = IF k < n THEN lb[n - k] ELSE <<>>
  BY DEF Shows
<1>n. n \in Nat /\ \A k \in 1 .. n : lb[k] \in Seq(T)
  OBVIOUS
<1>3. ASSUME NEW i \in 1 .. Size PROVE ring[Beyond(next, i - 1)] \in Seq(Told(ps))
  <2>1. i - 1 \in Nat
    BY <1>1
  <2>2. Beyond(next, i - 1) \in Slots
    BY <1>2, <2>1, BeyondInSlots
  <2> QED BY <1>2, <2>2
<1>4. ss \in Seq(Seq(Told(ps))) /\ Len(ss) = Size
  BY <1>1, <1>3
<1>5. ASSUME NEW i \in 1 .. Size
      PROVE  bs[i] = (IF Size - i < n THEN lb[n - Size + i] ELSE <<>>) /\ bs[i] \in Seq(T)
  <2>1. Size - i \in Slots /\ Size - 1 - (Size - i) = i - 1
    BY <1>1
  <2>2. Ago(next, Size - i) = Beyond(next, i - 1)
    BY <2>1 DEF Ago
  <2>3. bs[i] = IF Size - i < n THEN lb[n - (Size - i)] ELSE <<>>
    BY <1>2, <2>1, <2>2
  <2>4. n - (Size - i) = n - Size + i
    BY <1>1, <1>n
  <2>5. Size - i < n => n - Size + i \in 1 .. n
    BY <1>1, <1>n
  <2>6. <<>> \in Seq(T)
    OBVIOUS
  <2> HIDE DEF bs, n
  <2>7. Size - i < n => lb[n - Size + i] \in Seq(T)
    BY <1>n, <2>5
  <2> QED BY <2>3, <2>4, <2>6, <2>7
<1>6. bs \in Seq(Seq(T)) /\ Len(bs) = Size
  <2>1. bs \in [1 .. Size -> Seq(T)]
    <3>1. \A i \in 1 .. Size : BytesIn(ps, ss[i]) \in Seq(T)
      BY <1>5
    <3> QED BY <3>1
  <2> HIDE DEF bs
  <2> QED BY <1>1, <2>1
<1>7. \A i \in 1 .. Len(ss) : bs[i] = BytesIn(ps, ss[i])
  BY <1>4
<1>8. GetContent = FlattenSeq(ss) /\ FlattenSeq(ss) \in Seq(Told(ps))
  BY <1>4, FlatConcat DEF GetContent
<1> HIDE DEF ss, bs
<1>9. BytesIn(ps, FlattenSeq(ss)) = FlattenSeq(bs)
  <2>1. AllBytes(ps, ss, bs)
    BY <1>4, <1>6, <1>7 DEF AllBytes
  <2> QED BY <1>4, <1>6, <2>1, BytesInFlat
<1>10. FlattenSeq(bs) = FlattenSeq(SubSeq(lb, Older(n) + 1, n))
  <2>1. CASE n >= Size
    <3> DEFINE m == n - Size
               c == SubSeq(lb, m + 1, n)
    <3>1. Older(n) = m /\ m \in Nat /\ m + Size = n
      BY <1>1, <1>n, <2>1 DEF Older
    <3>2. c \in Seq(Seq(T)) /\ Len(c) = Size
      BY <1>1, <3>1
    <3>3. ASSUME NEW i \in 1 .. Size PROVE c[i] = bs[i]
      <4>1. c[i] = lb[m + i]
        BY <1>1, <3>1
      <4>2. Size - i < n /\ n - Size + i = m + i
        BY <1>1, <1>n, <2>1
      <4>3. bs[i] = lb[n - Size + i]
        BY <1>5, <4>2
      <4> QED BY <4>1, <4>2, <4>3
    <3> HIDE DEF c
    <3>4. Len(c) = Len(bs) /\ \A i \in 1 .. Len(c) : c[i] = bs[i]
      BY <1>6, <3>2, <3>3
    <3>5. c = bs
      BY <1>6, <3>2, <3>4, SeqEqual
    <3> QED BY <3>1, <3>5 DEF c
  <2>2. CASE n < Size
    <3> DEFINE d == Size - n
               e == [i \in 1 .. d |-> <<>>]
               x == e \o lb
    <3>1. Older(n) = 0 /\ SubSeq(lb, 0 + 1, n) = lb /\ d \in Nat /\ d + n = Size
      BY <1>1, <1>n, <2>2 DEF Older
    <3>2. e \in Seq(Seq(T)) /\ Len(e) = d /\ \A i \in 1 .. d : e[i] = <<>>
      <4>1. e \in [1 .. d -> Seq(T)] /\ d \in Nat
        <5>1. <<>> \in Seq(T)
          OBVIOUS
        <5> QED BY <3>1, <5>1
      <4>2. \A i \in 1 .. d : e[i] = <<>>
        OBVIOUS
      <4> HIDE DEF e, d
      <4> QED BY <4>1, <4>2
    <3>d. d \in Nat /\ d + n = Size
      BY <3>1
    <3> HIDE DEF d, e
    <3>3. x \in Seq(Seq(T)) /\ Len(x) = Len(e) + Len(lb)
      BY <3>2, ConcatIs
    <3>4. \A i \in 1 .. Len(e) : x[i] = e[i]
      BY <3>2, ConcatIs
    <3>5. \A i \in 1 .. Len(lb) : x[Len(e) + i] = lb[i]
      BY <3>2, ConcatIs, SMTT(30)
    <3>6. FlattenSeq(x) = FlattenSeq(e) \o FlattenSeq(lb) /\ FlattenSeq(lb) \in Seq(T)
      BY <3>2, FlatConcat
    <3>7. FlattenSeq(e) = <<>>
      BY <3>2, FlatEmpty
    <3> HIDE DEF x
    <3>8. ASSUME NEW i \in 1 .. Size PROVE x[i] = bs[i]
      <4>1. CASE i <= d
        <5>1. i \in 1 .. Len(e) /\ ~(Size - i < n)
          BY <1>1, <1>n, <3>1, <3>2, <4>1
        <5> QED BY <1>5, <3>2, <3>4, <5>1
      <4>2. CASE i > d
        <5>1. PICK j \in 1 .. n : i = d + j /\ Size - i < n /\ n - Size + i = j
          <6> HIDE DEF n
          <6>1. i - d \in 1 .. n /\ i = d + (i - d) /\ Size - i < n /\ n - Size + i = i - d
            BY <1>1, <1>n, <3>d, <4>2
          <6> QED BY <6>1
        <5>2. x[i] = lb[j]
          BY <3>2, <3>5, <5>1
        <5>3. bs[i] = lb[j]
          BY <1>5, <5>1
        <5> QED BY <5>2, <5>3
      <4> QED BY <3>1, <4>1, <4>2
    <3>9. Len(x) = Len(bs) /\ \A i \in 1 .. Len(x) : x[i] = bs[i]
      BY <1>6, <3>1, <3>2, <3>3, <3>8
    <3>10. x = bs
      BY <1>6, <3>3, <3>9, SeqEqual
    <3>11. FlattenSeq(bs) = FlattenSeq(lb)
      BY <3>6, <3>7, <3>10
    <3> QED BY <3>1, <3>11
  <2> QED BY <1>1, <1>n, <2>1, <2>2
<1> QED BY <1>8, <1>9, <1>10

-----------------------------------------------------------------------------
(***************************************************************************)
(* The output and the ring, chunk by chunk.                                *)
(***************************************************************************)
\* What is stored, fragment by fragment.
Delivered(tx, ps, ls) == [i \in DOMAIN tx |-> IF i \in ls THEN <<>> ELSE ps[i]]

RingHolds(ps, r, nx, tx, ls) ==
    \E lb \in Seq(Seq(Output)) : Shows(ps, r, nx, FlattenSeq(Delivered(tx, ps, ls)), lb)

TextInv ==
    /\ FilterInv
    /\ Len(given) <= MaxBytes
    /\ pieces \in Seq(Seq(Output)) /\ AllPieces(pieces)
    /\ Len(pieces) <= Len(sent) /\ FlattenSeq(pieces) = sent
    /\ text \in Seq(Told(pieces)) /\ Len(text) = Len(pieces)
    /\ lost \subseteq 1 .. Len(text)
    /\ RingHolds(pieces, ring, next, text, lost)

\* The fragments of a chunk.
FragmentsOf(p, n) == [i \in DOMAIN p |-> [n |-> n + i, ended |-> Last(p[i]) = "nl"]]

LEMMA FragmentsAreTold ==
  ASSUME NEW T, NEW ps \in Seq(Seq(T)), AllPieces(ps), NEW p \in Seq(Seq(T)), IsCut(p, {"nl"})
  PROVE  LET f == FragmentsOf(p, Len(ps))
         IN  /\ AllPieces(ps \o p)
             /\ f \in Seq(Told(ps \o p)) /\ Len(f) = Len(p)
             /\ \A i \in 1 .. Len(p) : f[i].n = Len(ps) + i
             /\ \A i \in 1 .. Len(p) - 1 : f[i].ended
<1> DEFINE q == ps \o p
           m == Len(ps)
           n == Len(p)
           f == FragmentsOf(p, m)
<1>1. /\ m \in Nat /\ n \in Nat /\ Len(q) = m + n /\ q \in Seq(Seq(T))
      /\ \A i \in 1 .. m : q[i] = ps[i]
      /\ \A i \in 1 .. n : q[m + i] = p[i]
  <2>1. m \in Nat /\ n \in Nat
    OBVIOUS
  <2>2. Len(q) = m + n /\ q \in Seq(Seq(T))
    BY ConcatIs
  <2>3. \A i \in 1 .. m : q[i] = ps[i]
    BY ConcatIs
  <2>4. \A i \in 1 .. n : q[m + i] = p[i]
    BY ConcatIs
  <2> QED BY <2>1, <2>2, <2>3, <2>4
<1>2. \A i \in 1 .. n : /\ Len(p[i]) > 0 /\ \A j \in 1 .. Len(p[i]) - 1 : p[i][j] \notin {"nl"}
                        /\ i < n => p[i][Len(p[i])] = "nl"
  BY DEF IsCut
<1>3. f = [i \in 1 .. n |-> [n |-> m + i, ended |-> p[i][Len(p[i])] = "nl"]]
  BY DEF FragmentsOf, Last
<1>m. \A k \in 1 .. m : IsPiece(ps[k], {"nl"})
  BY DEF AllPieces
<1> HIDE DEF q, m, n, f
<1>4. AllPieces(q)
  <2>1. ASSUME NEW k \in 1 .. Len(q) PROVE IsPiece(q[k], {"nl"})
    <3>1. CASE k <= m
      <4>1. k \in 1 .. m
        BY <1>1, <3>1
      <4> QED BY <1>1, <1>m, <4>1
    <3>2. CASE k > m
      <4>1. PICK i \in 1 .. n : k = m + i
        <5>1. k - m \in 1 .. n /\ k = m + (k - m)
          BY <1>1, <3>2
        <5> QED BY <5>1
      <4>2. IsPiece(p[i], {"nl"})
        BY <1>2 DEF IsPiece
      <4> QED BY <1>1, <4>1, <4>2
    <3> QED BY <1>1, <3>1, <3>2
  <2> QED BY <2>1 DEF AllPieces
<1>5. ASSUME NEW i \in 1 .. n
      PROVE  /\ [n |-> m + i, ended |-> p[i][Len(p[i])] = "nl"] \in Told(q)
             /\ f[i].n = m + i /\ (f[i].ended <=> p[i][Len(p[i])] = "nl")
  <2>1. m + i \in 1 .. Len(q) /\ q[m + i] = p[i]
    BY <1>1
  <2> DEFINE t == [n |-> m + i, ended |-> p[i][Len(p[i])] = "nl"]
  <2>2. t.n = m + i /\ (t.ended <=> p[i][Len(p[i])] = "nl") /\ f[i] = t
    BY <1>3
  <2>3. t \in [n : 1 .. Len(q), ended : BOOLEAN]
    BY <2>1
  <2> HIDE DEF t
  <2>4. t \in Told(q)
    BY <2>1, <2>2, <2>3 DEF Told
  <2> QED BY <2>2, <2>4 DEF t
<1>6. f \in Seq(Told(q)) /\ Len(f) = n
  <2> DEFINE K == Told(q)
  <2>1. \A i \in 1 .. n : [n |-> m + i, ended |-> p[i][Len(p[i])] = "nl"] \in K
    BY <1>5
  <2> HIDE DEF K
  <2>2. f \in [1 .. n -> K]
    BY <1>3, <2>1
  <2>3. f \in Seq(K) /\ Len(f) = n
    BY <1>1, <2>2
  <2> QED BY <2>3 DEF K
<1>7. \A i \in 1 .. n - 1 : f[i].ended
  <2>1. ASSUME NEW i \in 1 .. n - 1 PROVE f[i].ended
    <3>1. i \in 1 .. n /\ i < n
      BY <1>1
    <3> QED BY <1>2, <1>5, <3>1
  <2> QED BY <2>1
<1>8. \A i \in 1 .. n : f[i].n = m + i
  BY <1>5
<1> QED BY <1>4, <1>6, <1>7, <1>8 DEF f, m, n, q

\* The ring holds the same when there is more output.
LEMMA ShowsMore ==
  ASSUME NEW T, NEW ps \in Seq(Seq(T)), NEW q \in Seq(Seq(T)), NEW lb, NEW r, NEW nx, NEW st,
         Shows(ps, r, nx, st, lb)
  PROVE  Shows(ps \o q, r, nx, st, lb)
<1> DEFINE qs == ps \o q
           K == Told(ps)
           L == Told(qs)
<1>1. K \subseteq L /\ \A s \in Seq(K) : BytesIn(qs, s) = BytesIn(ps, s)
  BY BytesInMore
<1>2. /\ r \in [Slots -> Seq(K)] /\ nx \in Slots
      /\ \A k \in Slots : BytesIn(ps, r[Ago(nx, k)]) = IF k < Len(lb) THEN lb[Len(lb) - k] ELSE <<>>
      /\ IsCut(lb, {"nl"}) /\ FlattenSeq(lb) = st
      /\ ShouldContinue(r[Ago(nx, 0)]) <=> ~Complete(lb, {"nl"})
  BY DEF Shows
<1>3. ASSUME NEW k \in Slots PROVE BytesIn(qs, r[Ago(nx, k)]) = BytesIn(ps, r[Ago(nx, k)])
  <2>1. Ago(nx, k) \in Slots
    BY <1>2, OneLater
  <2>2. r[Ago(nx, k)] \in Seq(K)
    BY <1>2, <2>1
  <2> QED BY <1>1, <2>2
<1> HIDE DEF K, L, qs
<1>4. r \in [Slots -> Seq(L)]
  <2>1. Seq(K) \subseteq Seq(L)
    BY <1>1
  <2> QED BY <1>2, <2>1
<1>5. \A k \in Slots : BytesIn(qs, r[Ago(nx, k)]) = IF k < Len(lb) THEN lb[Len(lb) - k] ELSE <<>>
  BY <1>2, <1>3
<1> QED BY <1>2, <1>4, <1>5 DEF Shows, L, qs

\* What a chunk adds to what is stored.
Numbered(f, m) == \A i \in 1 .. Len(f) : f[i].n = m + i

Numbers(f, k) == {f[i].n : i \in k + 1 .. Len(f)}

Adds(old, more, new) == new = old \o more

LEMMA DeliveredMore ==
  ASSUME NEW T, NEW ps \in Seq(Seq(T)), NEW p \in Seq(Seq(T)),
         NEW X, NEW tx \in Seq(X), Len(tx) = Len(ps), NEW f \in Seq(X), Len(f) = Len(p),
         Numbered(f, Len(ps)), NEW ls \in SUBSET (1 .. Len(ps)), NEW k \in 0 .. Len(p)
  PROVE  LET old == FlattenSeq(Delivered(tx, ps, ls))
             ls2 == ls \cup Numbers(f, k)
         IN  /\ Adds(old, FlattenSeq(SubSeq(p, 1, k)), FlattenSeq(Delivered(tx \o f, ps \o p, ls2)))
             /\ old \in Seq(T) /\ ls2 \subseteq 1 .. Len(tx \o f)
<1> DEFINE m == Len(ps)
           n == Len(p)
           ls2 == ls \cup Numbers(f, k)
           qs == ps \o p
           ty == tx \o f
           a == Delivered(tx, ps, ls)
           b == Delivered(ty, qs, ls2)
           c == SubSeq(p, 1, k)
           e == [i \in 1 .. n - k |-> <<>>]
<1>1. /\ m \in Nat /\ n \in Nat /\ k \in 0 .. n /\ DOMAIN tx = 1 .. m
      /\ ty \in Seq(X) /\ Len(ty) = m + n /\ DOMAIN ty = 1 .. m + n
      /\ \A i \in 1 .. m : ps[i] \in Seq(T)
      /\ \A i \in 1 .. n : p[i] \in Seq(T)
  <2>1. m \in Nat /\ n \in Nat /\ k \in 0 .. n /\ DOMAIN tx = 1 .. m
    OBVIOUS
  <2>2. ty \in Seq(X) /\ Len(ty) = Len(tx) + Len(f)
    BY ConcatIs
  <2>3. (\A i \in 1 .. m : ps[i] \in Seq(T)) /\ (\A i \in 1 .. n : p[i] \in Seq(T))
    OBVIOUS
  <2> QED BY <2>1, <2>2, <2>3
<1>f. Len(f) = n /\ ls \subseteq 1 .. m
  OBVIOUS
<1>l. \A i \in ls : i <= m
  OBVIOUS
<1>2. \A i \in 1 .. m : qs[i] = ps[i]
  BY ConcatIs
<1>3. \A i \in 1 .. n : qs[m + i] = p[i]
  BY ConcatIs
<1>4. a = [i \in 1 .. m |-> IF i \in ls THEN <<>> ELSE ps[i]]
  BY <1>1 DEF Delivered
<1>5. b = [i \in 1 .. m + n |-> IF i \in ls2 THEN <<>> ELSE qs[i]]
  BY <1>1 DEF Delivered
<1>6. c \in Seq(Seq(T)) /\ Len(c) = k /\ \A i \in 1 .. k : c[i] = p[i]
  OBVIOUS
<1>d. \A i \in 1 .. n : f[i].n = m + i
  BY DEF Numbered
<1>7. \A i \in 1 .. m + n : i \in ls2 <=> i \in ls \/ i > m + k
  <2>1. \A i \in 1 .. n : f[i].n = m + i
    BY <1>d
  <2>2. Len(f) = n /\ \A i \in ls : i <= m
    BY <1>f, <1>l
  <2> HIDE DEF m, n
  <2>3. ASSUME NEW i \in 1 .. m + n, i \in ls2, i \notin ls PROVE i > m + k
    <3>1. PICK j \in k + 1 .. Len(f) : i = f[j].n
      BY <2>3 DEF Numbers
    <3>2. j \in 1 .. n /\ j > k
      BY <1>1, <2>2
    <3> QED BY <1>1, <2>1, <3>1, <3>2
  <2>4. ASSUME NEW i \in 1 .. m + n, i > m + k PROVE i \in ls2
    <3>1. PICK j \in k + 1 .. n : i = m + j
      <4>1. i - m \in k + 1 .. n /\ i = m + (i - m)
        BY <1>1, <2>4
      <4> QED BY <4>1
    <3>2. j \in 1 .. n /\ j \in k + 1 .. Len(f)
      BY <1>1, <2>2
    <3> QED BY <2>1, <3>1, <3>2 DEF Numbers
  <2> QED BY <2>3, <2>4
<1>8. ls2 \subseteq 1 .. m + n
  <2>1. \A i \in 1 .. n : f[i].n = m + i
    BY <1>d
  <2>2. Len(f) = n /\ ls \subseteq 1 .. m
    BY <1>f
  <2> HIDE DEF m, n
  <2>3. ASSUME NEW i \in k + 1 .. Len(f) PROVE f[i].n \in 1 .. m + n
    <3>1. i \in 1 .. n
      BY <1>1, <2>2
    <3> QED BY <1>1, <2>1, <3>1
  <2>4. ls \subseteq 1 .. m + n
    BY <1>1, <2>2
  <2> QED BY <2>3, <2>4 DEF Numbers
<1> HIDE DEF m, n, ls2, qs, a, b, c
<1>9. a \in Seq(Seq(T)) /\ Len(a) = m
  <2>1. <<>> \in Seq(T)
    OBVIOUS
  <2>2. a \in [1 .. m -> Seq(T)]
    BY <1>1, <1>4, <2>1
  <2> QED BY <1>1, <2>2
<1>10. e \in Seq(Seq(T)) /\ Len(e) = n - k /\ \A i \in 1 .. n - k : e[i] = <<>>
  <2>1. <<>> \in Seq(T) /\ n - k \in Nat
    BY <1>1
  <2>2. e \in [1 .. n - k -> Seq(T)]
    BY <2>1
  <2> DEFINE h == n - k
  <2>3. e \in [1 .. h -> Seq(T)] /\ h \in Nat /\ \A i \in 1 .. h : e[i] = <<>>
    BY <2>1, <2>2
  <2> HIDE DEF h, e
  <2>4. e \in Seq(Seq(T)) /\ Len(e) = h
    BY <2>3
  <2> QED BY <2>3, <2>4 DEF h
<1> HIDE DEF e
<1> DEFINE ac == a \o c
           x == ac \o e
<1>11. ac \in Seq(Seq(T)) /\ Len(ac) = m + k
  BY <1>6, <1>9, ConcatIs
<1>12. \A i \in 1 .. m : ac[i] = a[i]
  BY <1>6, <1>9, ConcatIs
<1>13. \A i \in 1 .. k : ac[m + i] = c[i]
  BY <1>6, <1>9, ConcatIs
<1>14. FlattenSeq(ac) = FlattenSeq(a) \o FlattenSeq(c) /\ FlattenSeq(a) \in Seq(T)
  BY <1>6, <1>9, FlatConcat
<1> HIDE DEF ac
<1>15. x \in Seq(Seq(T)) /\ Len(x) = m + n
  <2>1. x \in Seq(Seq(T)) /\ Len(x) = Len(ac) + Len(e)
    BY <1>10, <1>11, ConcatIs
  <2> QED BY <1>1, <1>10, <1>11, <2>1
<1>16. \A i \in 1 .. m + k : x[i] = ac[i]
  BY <1>10, <1>11, ConcatIs
<1>17. \A i \in 1 .. n - k : x[(m + k) + i] = <<>>
  BY <1>10, <1>11, ConcatIs
<1>18. FlattenSeq(x) = FlattenSeq(ac)
  <2>1. FlattenSeq(x) = FlattenSeq(ac) \o FlattenSeq(e) /\ FlattenSeq(ac) \in Seq(T)
    BY <1>10, <1>11, FlatConcat
  <2>2. FlattenSeq(e) = <<>>
    BY <1>10, FlatEmpty
  <2> QED BY <2>1, <2>2
<1> HIDE DEF x
<1>19. ASSUME NEW i \in 1 .. m + n PROVE b[i] = x[i]
  <2>1. CASE i <= m
    <3>1. i \in 1 .. m /\ i \in 1 .. m + k /\ ~(i > m + k)
      BY <1>1, <2>1
    <3>2. i \in ls2 <=> i \in ls
      BY <1>7, <3>1
    <3> QED BY <1>2, <1>4, <1>5, <1>12, <1>16, <3>1, <3>2
  <2>2. CASE i > m /\ i <= m + k
    <3>1. PICK j \in 1 .. k : i = m + j
      <4>1. i - m \in 1 .. k /\ i = m + (i - m)
        BY <1>1, <2>2
      <4> QED BY <4>1
    <3>2. i \in 1 .. m + k /\ j \in 1 .. n /\ ~(i > m + k)
      BY <1>1, <2>2
    <3>3. i \notin ls
      BY <1>1, <1>l, <2>2
    <3>4. i \notin ls2
      BY <1>7, <3>2, <3>3
    <3>5. b[i] = p[j]
      BY <1>3, <1>5, <3>1, <3>2, <3>4
    <3>6. x[i] = c[j]
      BY <1>13, <1>16, <3>1, <3>2
    <3> QED BY <1>6, <3>5, <3>6
  <2>3. CASE i > m + k
    <3>1. PICK j \in 1 .. n - k : i = (m + k) + j
      <4>1. i - (m + k) \in 1 .. n - k /\ i = (m + k) + (i - (m + k))
        BY <1>1, <2>3
      <4> QED BY <4>1
    <3>2. i \in ls2
      BY <1>7, <2>3
    <3> QED BY <1>5, <1>17, <3>1, <3>2
  <2> QED BY <1>1, <2>1, <2>2, <2>3
<1>20. b \in Seq(Seq(T)) /\ Len(b) = m + n
  <2>1. \A i \in 1 .. m + n : x[i] \in Seq(T)
    BY <1>15
  <2>2. \A i \in 1 .. m + n : b[i] \in Seq(T)
    BY <1>19, <2>1
  <2> DEFINE h == m + n
             y(i) == IF i \in ls2 THEN <<>> ELSE qs[i]
  <2>3. b = [i \in 1 .. h |-> y(i)] /\ h \in Nat
    BY <1>1, <1>5
  <2>4. \A i \in 1 .. h : b[i] \in Seq(T)
    BY <2>2
  <2> HIDE DEF h, y
  <2>5. b \in [1 .. h -> Seq(T)]
    BY <2>3, <2>4
  <2>6. b \in Seq(Seq(T)) /\ Len(b) = h
    BY <2>3, <2>5
  <2> QED BY <2>6 DEF h
<1>21. b = x
  <2>1. Len(b) = Len(x) /\ \A i \in 1 .. Len(b) : b[i] = x[i]
    BY <1>15, <1>19, <1>20
  <2> QED BY <1>15, <1>20, <2>1, SeqEqual
<1>22. FlattenSeq(b) = FlattenSeq(a) \o FlattenSeq(c)
  BY <1>14, <1>18, <1>21
<1>23. Adds(FlattenSeq(a), FlattenSeq(c), FlattenSeq(b))
  BY <1>22 DEF Adds
<1> QED BY <1>1, <1>8, <1>14, <1>23 DEF a, b, c, ls2, qs

LEMMA TextInvFromInit == Init => TextInv
<1> SUFFICES ASSUME Init PROVE TextInv
  OBVIOUS
<1>1. FilterInv /\ given = <<>> /\ sent = <<>> /\ pieces = <<>>
  BY FilterInvFromInit DEF Init, FilterInit
<1>2. ring = [p \in Slots |-> <<>>] /\ next = 0 /\ text = <<>> /\ lost = {}
  BY DEF Init, RingInit
<1>3. Len(<<>>) = 0 /\ MaxBytes \in Nat /\ 1 .. 0 = {}
  BY FilterAssumption DEF FilterAssumption
<1>4. FlattenSeq(<<>>) = <<>>
  BY DEF FlattenSeq
<1>5. AllPieces(pieces)
  BY <1>1, <1>3 DEF AllPieces
<1>6. /\ <<>> \in Seq(Seq(Output)) /\ <<>> \in Seq(Told(pieces))
  OBVIOUS
<1>7. RingHolds(pieces, ring, next, text, lost)
  <2>1. Delivered(text, pieces, lost) = <<>>
    BY <1>1, <1>2 DEF Delivered
  <2>2. Size \in Nat /\ Size > 0 /\ 0 \in Slots
    BY RingAssumption DEF RingAssumption, Slots
  <2>3. \A k \in Slots : Ago(next, k) \in Slots
    BY <1>2, <2>2, OneLater
  <2>4. \A k \in Slots : ring[Ago(next, k)] = <<>>
    BY <1>2, <2>3
  <2>5. BytesIn(pieces, <<>>) = <<>>
    <3>1. Parts(pieces, <<>>) = <<>>
      BY DEF Parts
    <3> QED BY <1>4, <3>1 DEF BytesIn
  <2> DEFINE lb == <<>>
  <2>6. lb \in Seq(Seq(Output)) /\ Len(lb) = 0 /\ FlattenSeq(lb) = <<>>
    BY <1>4
  <2> HIDE DEF lb
  <2>7. IsCut(lb, {"nl"}) /\ Complete(lb, {"nl"})
    BY <2>6 DEF IsCut, Complete
  <2>8. ~ShouldContinue(ring[Ago(next, 0)])
    BY <2>2, <2>4 DEF ShouldContinue
  <2>9. ring \in [Slots -> Seq(Told(pieces))]
    BY <1>2, <1>6
  <2>10. \A k \in Slots : BytesIn(pieces, ring[Ago(next, k)])
                             = IF k < Len(lb) THEN lb[Len(lb) - k] ELSE <<>>
    <3>1. \A k \in Slots : ~(k < Len(lb))
      BY <2>2, <2>6 DEF Slots
    <3> QED BY <2>4, <2>5, <3>1
  <2>11. Shows(pieces, ring, next, FlattenSeq(Delivered(text, pieces, lost)), lb)
    BY <1>2, <1>4, <2>1, <2>2, <2>6, <2>7, <2>8, <2>9, <2>10 DEF Shows
  <2> QED BY <2>6, <2>11 DEF RingHolds
<1>8. pieces \in Seq(Seq(Output)) /\ Len(pieces) <= Len(sent) /\ Len(given) <= MaxBytes
  BY <1>1, <1>3, <1>6
<1>9. FlattenSeq(pieces) = sent
  BY <1>1, <1>4
<1>10. text \in Seq(Told(pieces)) /\ Len(text) = Len(pieces) /\ lost \subseteq 1 .. Len(text)
  BY <1>1, <1>2, <1>6
<1> QED BY <1>1, <1>5, <1>7, <1>8, <1>9, <1>10 DEF TextInv

LEMMA TextInvKept ==
  ASSUME TextInv, NEW chunk \in Seq(Bytes), Len(given) + Len(chunk) <= MaxBytes,
         NEW scanned \in 0 .. MaxBytes, PtyWrite(chunk, scanned)
  PROVE  TextInv'
<1> DEFINE p == Pieces(out')
           f == FragmentsOf(p, Len(pieces))
           ps == pieces \o p
           old == FlattenSeq(Delivered(text, pieces, lost))
           c == SubSeq(p, 1, scanned)
<1>1. /\ FilterInv /\ pieces \in Seq(Seq(Output)) /\ AllPieces(pieces)
      /\ Len(pieces) <= Len(sent) /\ FlattenSeq(pieces) = sent
      /\ text \in Seq(Told(pieces)) /\ Len(text) = Len(pieces)
      /\ lost \subseteq 1 .. Len(text)
      /\ RingHolds(pieces, ring, next, text, lost)
  BY DEF TextInv
<1>2. /\ ProcessRaw(chunk) /\ pieces' = ps
      /\ Len(text) = Len(pieces) => scanned <= Len(p) /\ Write(f, scanned)
  BY DEF PtyWrite, FragmentsOf
<1>3. scanned <= Len(p) /\ Write(f, scanned)
  BY <1>1, <1>2
<1>4. FilterInv' /\ out' \in Seq(Output) /\ sent' = sent \o out' /\ given' = given \o chunk
  <2>1. FilterInv'
    BY <1>1, <1>2, FilterInvKept
  <2>2. out' \in Seq(Output)
    BY <1>1, <1>2, ProcessRawFits DEF FilterInv
  <2> QED BY <1>2, <2>1, <2>2 DEF ProcessRaw
<1>5. sent \in Seq(Output) /\ given \in Seq(Bytes)
  BY <1>1 DEF FilterInv, FilterTypeOK, Output
<1>6. /\ p \in Seq(Seq(Output)) /\ Len(p) <= Len(out') /\ IsCut(p, {"nl"})
      /\ FlattenSeq(p) = out'
  BY <1>4, PiecesAreCut
<1> HIDE DEF p
<1>7. scanned \in 0 .. Len(p) /\ Len(p) \in Nat /\ Len(pieces) \in Nat
  BY <1>1, <1>3, <1>6
<1>8. /\ AllPieces(ps) /\ f \in Seq(Told(ps)) /\ Len(f) = Len(p)
      /\ \A i \in 1 .. Len(p) : f[i].n = Len(pieces) + i
      /\ \A i \in 1 .. Len(p) - 1 : f[i].ended
  BY <1>1, <1>6, FragmentsAreTold
<1>9. ps \in Seq(Seq(Output)) /\ Len(ps) = Len(pieces) + Len(p)
  BY <1>1, <1>6, ConcatIs
<1>10. FlattenSeq(ps) = FlattenSeq(pieces) \o FlattenSeq(p)
  BY <1>1, <1>6, FlatConcat
<1>11. Told(pieces) \subseteq Told(ps)
  BY <1>1, <1>6, BytesInMore
<1>12. text \in Seq(Told(ps))
  BY <1>1, <1>11
<1> HIDE DEF f
<1>13. text' = text \o f /\ lost' = lost \cup Numbers(f, scanned)
  BY <1>3 DEF Write, Numbers
<1>14. text' \in Seq(Told(ps)) /\ Len(text') = Len(ps)
  <2>1. text \o f \in Seq(Told(ps)) /\ Len(text \o f) = Len(text) + Len(f)
    BY <1>8, <1>12, ConcatIs
  <2> QED BY <1>1, <1>8, <1>9, <1>13, <2>1
<1>15. PICK lb \in Seq(Seq(Output)) : Shows(pieces, ring, next, old, lb)
  BY <1>1 DEF RingHolds
<1>16. Shows(ps, ring, next, old, lb)
  BY <1>1, <1>6, <1>15, ShowsMore
<1>17. /\ FlattenSeq(Delivered(text', ps, lost')) = old \o FlattenSeq(c)
       /\ lost' \subseteq 1 .. Len(text')
  <2>1. lost \in SUBSET (1 .. Len(pieces)) /\ Numbered(f, Len(pieces))
    BY <1>1, <1>8 DEF Numbered
  <2> DEFINE X == Told(ps)
  <2>2. /\ pieces \in Seq(Seq(Output)) /\ p \in Seq(Seq(Output))
        /\ text \in Seq(X) /\ Len(text) = Len(pieces) /\ f \in Seq(X) /\ Len(f) = Len(p)
        /\ scanned \in 0 .. Len(p)
    BY <1>1, <1>6, <1>7, <1>8, <1>12
  <2> HIDE DEF X
  <2> DEFINE l2 == lost \cup Numbers(f, scanned)
             new == FlattenSeq(Delivered(text \o f, pieces \o p, l2))
             more == FlattenSeq(SubSeq(p, 1, scanned))
  <2>3. Adds(old, more, new)
    BY <2>1, <2>2, DeliveredMore
  <2>4. lost \cup Numbers(f, scanned) \subseteq 1 .. Len(text \o f)
    BY <2>1, <2>2, DeliveredMore
  <2> QED BY <1>13, <2>3, <2>4 DEF Adds
<1> HIDE DEF old
<1>18. BytesIn(ps, SubSeq(f, 1, scanned)) = FlattenSeq(c)
  <2> DEFINE g == SubSeq(f, 1, scanned)
             w == Parts(ps, g)
  <2>1. g \in Seq(Told(ps)) /\ Len(g) = scanned /\ \A i \in 1 .. scanned : g[i] = f[i]
    BY <1>7, <1>8
  <2>2. c \in Seq(Seq(Output)) /\ Len(c) = scanned /\ \A i \in 1 .. scanned : c[i] = p[i]
    BY <1>6, <1>7
  <2> HIDE DEF g
  <2>3. w \in Seq(Seq(Output)) /\ Len(w) = Len(g)
    BY <1>9, <2>1, PartsType, ZenonT(30)
  <2>4. \A i \in 1 .. Len(g) : w[i] = ps[g[i].n]
    BY <1>9, <2>1, PartsType, ZenonT(30)
  <2>5. \A i \in 1 .. Len(p) : ps[Len(pieces) + i] = p[i]
    BY <1>1, <1>6, ConcatIs, SMTT(30)
  <2> HIDE DEF w, c, ps
  <2>6. ASSUME NEW i \in 1 .. scanned PROVE w[i] = c[i]
    <3>1. i \in 1 .. Len(p)
      BY <1>7
    <3>2. g[i] = f[i] /\ f[i].n = Len(pieces) + i
      BY <1>8, <2>1, <3>1
    <3>3. w[i] = ps[Len(pieces) + i]
      BY <2>1, <2>4, <3>2
    <3>4. ps[Len(pieces) + i] = p[i]
      BY <2>5, <3>1
    <3> QED BY <2>2, <3>3, <3>4
  <2>7. Len(w) = Len(c) /\ \A i \in 1 .. Len(w) : w[i] = c[i]
    BY <2>1, <2>2, <2>3, <2>6
  <2>8. w = c
    BY <2>2, <2>3, <2>7, SeqEqual
  <2> QED BY <2>8 DEF BytesIn, w, g
<1> HIDE DEF c, ps
<1>19. PICK lb2 \in Seq(Seq(Output)) :
           Shows(ps, ring', next', old \o BytesIn(ps, SubSeq(f, 1, scanned)), lb2)
  <2>1. scanned \in 0 .. Len(f) /\ \A i \in 1 .. Len(f) - 1 : f[i].ended
    BY <1>7, <1>8
  <2> QED BY <1>3, <1>8, <1>9, <1>16, <2>1, WriteShows
<1>20. RingHolds(pieces', ring', next', text', lost')
  BY <1>2, <1>17, <1>18, <1>19 DEF RingHolds
<1>21. Len(given') <= MaxBytes
  BY <1>4, <1>5
<1>22. Len(ps) <= Len(sent')
  <2>1. Len(sent \o out') = Len(sent) + Len(out') /\ Len(sent) \in Nat /\ Len(out') \in Nat
    BY <1>4, <1>5
  <2> DEFINE a == Len(pieces)
             b == Len(p)
             d == Len(sent)
             e == Len(out')
  <2>2. a \in Nat /\ b \in Nat /\ d \in Nat /\ e \in Nat /\ a <= d /\ b <= e
    BY <1>1, <1>6, <1>7, <2>1
  <2>3. Len(ps) = a + b /\ Len(sent') = d + e
    BY <1>4, <1>9, <2>1
  <2> HIDE DEF a, b, d, e
  <2> QED BY <2>2, <2>3
<1>23. FlattenSeq(ps) = sent'
  BY <1>1, <1>4, <1>6, <1>10
<1>24. /\ pieces' \in Seq(Seq(Output)) /\ AllPieces(pieces')
       /\ Len(pieces') <= Len(sent') /\ FlattenSeq(pieces') = sent'
       /\ text' \in Seq(Told(pieces')) /\ Len(text') = Len(pieces')
       /\ lost' \subseteq 1 .. Len(text')
  BY <1>2, <1>8, <1>9, <1>14, <1>17, <1>22, <1>23
<1> QED BY <1>4, <1>20, <1>21, <1>24 DEF TextInv

LEMMA TextIsInvariant == Spec => []TextInv
<1>1. TextInv /\ [Next]_vars => TextInv'
  <2> SUFFICES ASSUME TextInv, [Next]_vars PROVE TextInv'
    OBVIOUS
  <2>1. CASE Next
    <3>1. PICK chunk \in UNION {[1 .. n -> Bytes] : n \in 1 .. MaxChunk},
             scanned \in 0 .. MaxBytes :
                /\ Len(given) + Len(chunk) <= MaxBytes
                /\ PtyWrite(chunk, scanned)
      BY <2>1 DEF Next
    <3>2. chunk \in Seq(Bytes)
      OBVIOUS
    <3> QED BY <3>1, <3>2, TextInvKept
  <2>2. CASE UNCHANGED vars
    <3>1. FilterInv'
      BY <2>2 DEF vars, filterVars, TextInv, FilterInv, FilterTypeOK, OutputIsText, OnlyReplaces,
                  AsItCame, Text, Whole
    <3>2. /\ given' = given /\ sent' = sent /\ pieces' = pieces /\ text' = text /\ lost' = lost
          /\ ring' = ring /\ next' = next
      BY <2>2 DEF vars, filterVars, ringVars
    <3> QED BY <3>1, <3>2 DEF TextInv
  <2> QED BY <2>1, <2>2
<1> QED BY <1>1, TextInvFromInit, PTL DEF Spec

\* The variables of the filter and of the ring have their types: there are no more
\* fragments than bytes (pty_handler.go:37-47, line_ringe_buffer.go:36-76).
THEOREM TypeCorrect == Spec => []TypeOK
<1>1. TextInv => TypeOK
  <2> SUFFICES ASSUME TextInv PROVE TypeOK
    OBVIOUS
  <2>1. /\ FilterTypeOK /\ OnlyReplaces /\ Len(given) <= MaxBytes
        /\ Len(pieces) <= Len(sent) /\ text \in Seq(Told(pieces)) /\ Len(text) = Len(pieces)
        /\ lost \subseteq 1 .. Len(text) /\ pieces \in Seq(Seq(Output))
    BY DEF TextInv, FilterInv
  <2>2. Len(pieces) <= MaxWrites /\ Len(pieces) \in Nat /\ MaxWrites \in Nat
    <3>1. Len(sent) + Len(rest) = Len(given)
      BY <2>1 DEF OnlyReplaces
    <3>2. sent \in Seq(Output) /\ rest \in Seq(Bytes) /\ given \in Seq(Bytes)
      BY <2>1 DEF FilterTypeOK, Output
    <3>3. MaxBytes <= MaxWrites /\ MaxBytes \in Nat /\ MaxWrites \in Nat
      BY OutputAssumption, FilterAssumption, RingAssumption
         DEF OutputAssumption, FilterAssumption, RingAssumption
    <3> DEFINE a == Len(pieces)
               b == Len(sent)
               c == Len(rest)
               d == Len(given)
    <3>4. a \in Nat /\ b \in Nat /\ c \in Nat /\ d \in Nat /\ a <= b /\ b + c = d /\ d <= MaxBytes
      BY <2>1, <3>1, <3>2
    <3> HIDE DEF a, b, c, d
    <3>5. a <= MaxWrites
      BY <3>3, <3>4
    <3> QED BY <3>3, <3>4, <3>5 DEF a
  <2>3. Told(pieces) \subseteq Fragments
    <3>1. 1 .. Len(pieces) \subseteq 1 .. MaxWrites
      BY <2>2
    <3> QED BY <3>1 DEF Told, Fragments
  <2>4. text \in Seq(Fragments)
    BY <2>1, <2>3
  <2>5. lost \subseteq 1 .. MaxWrites
    BY <2>1, <2>2
  <2>6. ring \in [Slots -> Seq(Fragments)] /\ next \in Slots
    <3>1. ring \in [Slots -> Seq(Told(pieces))] /\ next \in Slots
      BY DEF TextInv, RingHolds, Shows
    <3>2. Seq(Told(pieces)) \subseteq Seq(Fragments)
      BY <2>3
    <3> QED BY <3>1, <3>2
  <2> QED BY <2>1, <2>4, <2>5, <2>6 DEF TypeOK, RingTypeOK
<1> QED BY <1>1, TextIsInvariant, PTL

\* Who attaches later is shown the last Size lines of what has been sent, each once
\* and whole, but for what the scanner has given up
\* (exec/pty_handler.go:37-47, output/line-buffer/line_ringe_buffer.go:36-76).
THEOREM TheReplayIsWhatWasSent == Spec => []ReplayIsWhatWasSent
<1>1. TextInv => ReplayIsWhatWasSent
  <2> SUFFICES ASSUME TextInv PROVE ReplayIsWhatWasSent
    OBVIOUS
  <2> DEFINE stored == FlattenSeq(Delivered(text, pieces, lost))
             fewer == {i \in 1 .. Len(stored) + 1 : Cardinality(Newlines(stored, i)) < Size}
  <2>1. /\ pieces \in Seq(Seq(Output)) /\ AllPieces(pieces) /\ FlattenSeq(pieces) = sent
        /\ text \in Seq(Told(pieces)) /\ Len(text) = Len(pieces)
        /\ RingHolds(pieces, ring, next, text, lost)
    BY DEF TextInv
  <2>2. PICK lb \in Seq(Seq(Output)) : Shows(pieces, ring, next, stored, lb)
    BY <2>1 DEF RingHolds
  <2>3. IsCut(lb, {"nl"}) /\ FlattenSeq(lb) = stored
    BY <2>2 DEF Shows
  <2>4. lost = {} => stored = sent
    <3>1. DOMAIN text = 1 .. Len(pieces) /\ pieces = [i \in 1 .. Len(pieces) |-> pieces[i]]
      BY <2>1
    <3>2. lost = {} => Delivered(text, pieces, lost) = pieces
      BY <3>1 DEF Delivered
    <3> QED BY <2>1, <3>2
  <2>5. /\ BytesIn(pieces, GetContent) = FlattenSeq(SubSeq(lb, Older(Len(lb)) + 1, Len(lb)))
        /\ GetContent \in Seq(Told(pieces))
    BY <2>1, <2>2, ContentShown
  <2>6. FlattenSeq(SubSeq(lb, Older(Len(lb)) + 1, Len(lb))) = From(stored, Min(fewer))
    BY <2>3, LastLines
  <2>7. FlattenSeq([i \in DOMAIN GetContent |-> pieces[GetContent[i].n]]) = From(stored, Min(fewer))
    <3>1. DOMAIN GetContent = 1 .. Len(GetContent)
      BY <2>5
    <3>2. [i \in DOMAIN GetContent |-> pieces[GetContent[i].n]] = Parts(pieces, GetContent)
      BY <3>1 DEF Parts
    <3> QED BY <2>5, <2>6, <3>2 DEF BytesIn
  <2>8. stored = FlattenSeq([i \in DOMAIN text |-> IF i \in lost THEN <<>> ELSE pieces[i]])
    BY DEF Delivered
  <2> HIDE DEF stored
  <2> QED BY <2>4, <2>7, <2>8 DEF ReplayIsWhatWasSent, Newlines
<1> QED BY <1>1, TextIsInvariant, PTL
=============================================================================
