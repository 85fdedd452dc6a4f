----------------------------- MODULE Inductions -----------------------------
(***************************************************************************)
(* Induction over numbers, and the recursions the models are built from: a *)
(* function defined by its previous value, a fold over a sequence, and the *)
(* flattening of a sequence of sequences.                                  *)
(* What is proved by induction is put as membership of a set of numbers.   *)
(***************************************************************************)
EXTENDS Integers, SequencesExt, FiniteSetsExt, SequenceTheorems, WellFoundedInduction, TLAPS

\* Every non-empty set of numbers has a smallest one.
LEMMA SmallestNumber ==
  ASSUME NEW T, T \subseteq Nat, T # {}
  PROVE  \E x \in T : \A y \in T : x <= y
<1>1. IsWellFoundedOn(OpToRel(<, Nat), Nat)
  BY NatLessThanWellFounded
<1>2. PICK x \in T : \A y \in T : ~ (<<y, x>> \in OpToRel(<, Nat))
  BY <1>1, WFMin
<1>3. \A y \in T : ~ (y < x)
  BY <1>2 DEF OpToRel
<1>4. QED BY <1>3

\* A set of numbers with zero and every successor has all of them.
LEMMA NumbersByInduction ==
  ASSUME NEW S, 0 \in S, \A n \in Nat : n \in S => n + 1 \in S
  PROVE  Nat \subseteq S
<1> SUFFICES ASSUME NEW n \in Nat, n \notin S PROVE FALSE
  OBVIOUS
<1> DEFINE T == {k \in Nat : k \notin S}
<1>1. PICK m \in T : \A y \in T : m <= y
  BY SmallestNumber
<1>2. m # 0 /\ m - 1 \in Nat /\ m - 1 \notin T
  BY <1>1
<1>3. QED BY <1>2

\* The same for the numbers up to a bound.
LEMMA NumbersUpTo ==
  ASSUME NEW N \in Nat, NEW S, 0 \in S, \A n \in 0..(N - 1) : n \in S => n + 1 \in S
  PROVE  0..N \subseteq S
<1> DEFINE T == {n \in Nat : n <= N => n \in S}
<1>1. 0 \in T
  OBVIOUS
<1>2. ASSUME NEW n \in Nat, n \in T PROVE n + 1 \in T
  BY <1>2
<1> HIDE DEF T
<1>3. Nat \subseteq T
  BY <1>1, <1>2, NumbersByInduction
<1>4. QED BY <1>3 DEF T

\* A function whose every value is a turn from the one before, and the
\* function a fold over 1..N is computed by.
HasTurns(N, X, a, F) ==
  \E g \in [0..N -> X] : g[0] = a /\ \A k \in 1..N : g[k] = F[k][g[k - 1]]
HasFold(N, X, a, F) ==
  \E iter \in [SUBSET (1..N) -> X] : \A s \in SUBSET (1..N) :
    iter[s] = IF s = {} THEN a ELSE F[Max(s)][iter[s \ {Max(s)}]]

\* The first exists.
LEMMA TurnByTurn ==
  ASSUME NEW N \in Nat, NEW X, NEW a \in X, NEW F \in [1..N -> [X -> X]]
  PROVE  HasTurns(N, X, a, F)
<1> DEFINE Good(n) == \E g \in [0..n -> X] : g[0] = a /\ \A k \in 1..n : g[k] = F[k][g[k - 1]]
           S == {n \in 0..N : Good(n)}
<1>1. Good(0)
  <2> DEFINE g == [k \in 0..0 |-> a]
  <2>1. g \in [0..0 -> X] /\ g[0] = a /\ 1..0 = {}
    OBVIOUS
  <2> HIDE DEF g
  <2>2. QED BY <2>1
<1>2. ASSUME NEW n \in Nat, n + 1 <= N, Good(n) PROVE Good(n + 1)
  <2>1. PICK g \in [0..n -> X] : g[0] = a /\ \A k \in 1..n : g[k] = F[k][g[k - 1]]
    BY <1>2
  <2> DEFINE h == [k \in 0..(n + 1) |-> IF k = n + 1 THEN F[n + 1][g[n]] ELSE g[k]]
  <2>2. F[n + 1][g[n]] \in X
    BY <1>2
  <2>3. h \in [0..(n + 1) -> X]
    <3>1. \A k \in 0..(n + 1) : k # n + 1 => k \in 0..n
      OBVIOUS
    <3>2. QED BY <2>2, <3>1
  <2>4. \A k \in 0..n : h[k] = g[k]
    OBVIOUS
  <2>5. h[n + 1] = F[n + 1][g[n]]
    OBVIOUS
  <2> HIDE DEF h
  <2>6. h[0] = a
    BY <2>1, <2>4
  <2>7. ASSUME NEW k \in 1..(n + 1) PROVE h[k] = F[k][h[k - 1]]
    <3>1. k - 1 \in 0..n /\ h[k - 1] = g[k - 1]
      BY <2>4
    <3>2. CASE k = n + 1
      BY <2>5, <3>1, <3>2
    <3>3. CASE k # n + 1
      BY <2>1, <2>4, <3>1, <3>3
    <3>4. QED BY <3>2, <3>3
  <2>8. QED BY <2>3, <2>6, <2>7
<1> HIDE DEF Good
<1>3. 0 \in S
  BY <1>1
<1>4. \A n \in 0..(N - 1) : n \in S => n + 1 \in S
  BY <1>2
<1> HIDE DEF S
<1>5. 0..N \subseteq S
  BY <1>3, <1>4, NumbersUpTo
<1>6. N \in S
  BY <1>5
<1>7. QED BY <1>6 DEF S, Good, HasTurns

\* The largest member of a non-empty set of numbers up to a bound.
LEMMA LargestNumber ==
  ASSUME NEW n \in Nat, NEW s \in SUBSET (1..n), s # {}
  PROVE  Max(s) \in s /\ \A y \in s : y <= Max(s)
<1> DEFINE T == {k \in Nat : \E y \in s : k = n - y}
<1>1. \A y \in s : n - y \in Nat
  OBVIOUS
<1>2. T \subseteq Nat /\ T # {}
  BY <1>1
<1> HIDE DEF T
<1>3. PICK t \in T : \A u \in T : t <= u
  BY <1>2, SmallestNumber
<1>4. PICK x \in s : t = n - x
  BY <1>3 DEF T
<1>5. \A y \in s : n - y \in T /\ n - x <= n - y
  BY <1>1, <1>3, <1>4 DEF T
<1>6. \A y \in s : x >= y
  BY <1>5
<1>7. QED BY <1>6 DEF Max

\* The second exists.
LEMMA FoldExists ==
  ASSUME NEW N \in Nat, NEW X, NEW a \in X, NEW F \in [1..N -> [X -> X]]
  PROVE  HasFold(N, X, a, F)
<1> DEFINE Good(n) == \E it \in [SUBSET (1..n) -> X] : \A s \in SUBSET (1..n) :
             it[s] = IF s = {} THEN a ELSE F[Max(s)][it[s \ {Max(s)}]]
           S == {n \in 0..N : Good(n)}
<1>1. Good(0)
  <2> DEFINE it == [s \in SUBSET (1..0) |-> a]
  <2>1. \A s \in SUBSET (1..0) : s = {} /\ it[s] = a
    OBVIOUS
  <2>2. it \in [SUBSET (1..0) -> X]
    OBVIOUS
  <2> HIDE DEF it
  <2>3. QED BY <2>1, <2>2
<1>2. ASSUME NEW n \in Nat, n + 1 <= N, Good(n) PROVE Good(n + 1)
  <2>1. PICK it \in [SUBSET (1..n) -> X] : \A s \in SUBSET (1..n) :
          it[s] = IF s = {} THEN a ELSE F[Max(s)][it[s \ {Max(s)}]]
    BY <1>2
  <2> DEFINE next == [s \in SUBSET (1..(n + 1)) |->
                        IF n + 1 \in s THEN F[n + 1][it[s \ {n + 1}]] ELSE it[s]]
  <2>2. ASSUME NEW s \in SUBSET (1..(n + 1)), n + 1 \in s
        PROVE  /\ s \ {n + 1} \in SUBSET (1..n) /\ Max(s) = n + 1
               /\ F[n + 1][it[s \ {n + 1}]] \in X
               /\ next[s] = F[n + 1][it[s \ {n + 1}]]
    <3>1. n + 1 \in Nat /\ s # {}
      BY <2>2
    <3>2. Max(s) \in s /\ \A y \in s : y <= Max(s)
      BY <3>1, LargestNumber
    <3>3. Max(s) \in 1..(n + 1) /\ n + 1 <= Max(s)
      BY <2>2, <3>2
    <3>4. s \ {n + 1} \in SUBSET (1..n)
      OBVIOUS
    <3>5. it[s \ {n + 1}] \in X /\ n + 1 \in 1..N
      BY <1>2, <3>4
    <3>6. QED BY <2>2, <3>3, <3>4, <3>5
  <2>3. ASSUME NEW s \in SUBSET (1..(n + 1)), n + 1 \notin s
        PROVE  s \in SUBSET (1..n) /\ it[s] \in X /\ next[s] = it[s]
    BY <2>3
  <2>4. next \in [SUBSET (1..(n + 1)) -> X]
    BY <2>2, <2>3
  <2> HIDE DEF next
  <2>5. ASSUME NEW s \in SUBSET (1..(n + 1))
        PROVE  next[s] = IF s = {} THEN a ELSE F[Max(s)][next[s \ {Max(s)}]]
    <3>1. CASE n + 1 \in s
      <4>1. s \ {n + 1} \in SUBSET (1..(n + 1)) /\ n + 1 \notin s \ {n + 1}
        OBVIOUS
      <4>2. next[s \ {n + 1}] = it[s \ {n + 1}]
        BY <2>3, <4>1
      <4>3. QED BY <2>2, <3>1, <4>2
    <3>2. CASE n + 1 \notin s
      <4>1. s \in SUBSET (1..n) /\ next[s] = it[s]
        BY <2>3, <3>2
      <4>2. s \ {Max(s)} \in SUBSET (1..(n + 1)) /\ n + 1 \notin s \ {Max(s)}
        BY <3>2
      <4>3. next[s \ {Max(s)}] = it[s \ {Max(s)}]
        BY <2>3, <4>2
      <4>4. QED BY <2>1, <4>1, <4>3
    <3>3. QED BY <3>1, <3>2
  <2>6. QED BY <2>4, <2>5
<1> HIDE DEF Good
<1>3. 0 \in S
  BY <1>1
<1>4. \A n \in 0..(N - 1) : n \in S => n + 1 \in S
  BY <1>2
<1> HIDE DEF S
<1>5. 0..N \subseteq S
  BY <1>3, <1>4, NumbersUpTo
<1>6. N \in S
  BY <1>5
<1>7. QED BY <1>6 DEF S, Good, HasFold
\* What a fold's turns keep, the fold keeps.
LEMMA FoldStays ==
  ASSUME NEW N \in Nat, NEW X, NEW it, it[{}] \in X,
         \A s \in SUBSET (1..N) : s # {} /\ it[s \ {Max(s)}] \in X => it[s] \in X
  PROVE  it[1..N] \in X
<1>. DEFINE S == {k \in 0..N : it[1..k] \in X}
<1>1. 0 \in S
  <2>1. 1..0 = {}
    OBVIOUS
  <2>. QED BY <2>1
<1>2. ASSUME NEW k \in 0..(N - 1), k \in S PROVE k + 1 \in S
  <2>1. /\ k + 1 \in Nat /\ k + 1 \in 0..N /\ 1..(k + 1) \in SUBSET (1..N)
        /\ 1..(k + 1) \in SUBSET (1..(k + 1)) /\ k + 1 \in 1..(k + 1)
    OBVIOUS
  <2>2. Max(1..(k + 1)) \in 1..(k + 1) /\ \A y \in 1..(k + 1) : y <= Max(1..(k + 1))
    BY <2>1, LargestNumber
  <2>3. Max(1..(k + 1)) = k + 1
    BY <2>1, <2>2
  <2>4. (1..(k + 1)) \ {k + 1} = 1..k
    OBVIOUS
  <2>. QED BY <1>2, <2>1, <2>3, <2>4
<1>. HIDE DEF S
<1>3. 0..N \subseteq S
  BY <1>1, <1>2, NumbersUpTo
<1>. QED BY <1>3 DEF S

-----------------------------------------------------------------------------
(* Sequences of sequences *)

\* Joining is associative; as an operator, for the provers to find it by name.
Regroups(T, a, b, c) == (a \o b) \o c = a \o (b \o c)
\* It holds of all sequences.
LEMMA Regrouped ==
  ASSUME NEW S, NEW a, NEW b, NEW c, a \in Seq(S), b \in Seq(S), c \in Seq(S)
  PROVE  Regroups(S, a, b, c)
BY ConcatAssociative DEF Regroups

\* What has been flattened after each member of a sequence.
FlatTurns(S, s, h) ==
  /\ h \in [0..Len(s) -> Seq(S)]
  /\ h[0] = <<>>
  /\ \A k \in 1..Len(s) : h[k] = h[k - 1] \o s[k]
HasFlatTurns(S, s) == \E h : FlatTurns(S, s, h)

\* Every sequence of sequences has such turns.
LEMMA FlatTurnsExist ==
  ASSUME NEW S, NEW s \in Seq(Seq(S))
  PROVE  HasFlatTurns(S, s)
<1> DEFINE N == Len(s)
           F == [k \in 1..N |-> [x \in Seq(S) |-> x \o s[k]]]
<1>1. N \in Nat
  OBVIOUS
<1>2. <<>> \in Seq(S)
  OBVIOUS
<1>3. \A k \in 1..N : s[k] \in Seq(S)
  OBVIOUS
<1>4. \A k \in 1..N : \A x \in Seq(S) : x \o s[k] \in Seq(S)
  BY <1>3
<1>5. F \in [1..N -> [Seq(S) -> Seq(S)]]
  BY <1>4
<1>6. \A k \in 1..N : \A x \in Seq(S) : F[k][x] = x \o s[k]
  OBVIOUS
<1> HIDE DEF F
<1>7. HasTurns(N, Seq(S), <<>>, F)
  BY <1>1, <1>2, <1>5, TurnByTurn
<1>8. PICK g \in [0..N -> Seq(S)] : g[0] = <<>> /\ \A k \in 1..N : g[k] = F[k][g[k - 1]]
  BY <1>7 DEF HasTurns
<1> HIDE DEF N
<1>9. \A k \in 1..N : g[k - 1] \in Seq(S)
  <2>1. \A k \in 1..N : k - 1 \in 0..N
    BY <1>1
  <2>2. QED BY <1>8, <2>1
<1>10. FlatTurns(S, s, g)
  BY <1>6, <1>8, <1>9 DEF FlatTurns, N
<1>11. QED BY <1>10 DEF HasFlatTurns

\* The last turn has the whole.
LEMMA FlattenedByTurns ==
  ASSUME NEW S, NEW s \in Seq(Seq(S)), NEW h, FlatTurns(S, s, h)
  PROVE  FlattenSeq(s) = h[Len(s)]
<1> DEFINE N == Len(s)
           Def(f) == [i \in 1..N |-> IF i = 1 THEN s[i] ELSE f[i - 1] \o s[i]]
           short == [k \in 1..N |-> h[k]]
           flat == CHOOSE f : f = Def(f)
<1>1. N \in Nat /\ \A k \in 1..N : s[k] \in Seq(S)
  OBVIOUS
<1>2. CASE N = 0
  <2>1. s = <<>>
    BY <1>2
  <2>2. FlattenSeq(s) = s
    BY <1>2 DEF FlattenSeq
  <2>3. QED BY <1>2, <2>1, <2>2 DEF FlatTurns
<1>3. CASE N # 0
  <2>1. \A k \in 1..N : h[k] = IF k = 1 THEN s[k] ELSE h[k - 1] \o s[k]
    <3> TAKE k \in 1..N
    <3>1. h[k] = h[k - 1] \o s[k]
      BY DEF FlatTurns
    <3>2. CASE k = 1
      <4>1. h[k - 1] = <<>>
        BY <3>2 DEF FlatTurns
      <4>2. <<>> \o s[k] = s[k]
        BY <1>1
      <4>3. QED BY <3>1, <3>2, <4>1, <4>2
    <3>3. QED BY <3>1, <3>2
  <2>2. \A k \in 1..N : k # 1 => k - 1 \in 1..N
    BY <1>1
  <2>3. \A k \in 1..N : short[k] = h[k]
    OBVIOUS
  <2>4. \A k \in 1..N : h[k] = IF k = 1 THEN s[k] ELSE short[k - 1] \o s[k]
    BY <2>1, <2>2, <2>3
  <2>5. short = Def(short)
    BY <2>3, <2>4
  <2>6. flat = Def(flat)
    BY <2>5
  <2>7. FlattenSeq(s) = flat[N]
    BY <1>3 DEF FlattenSeq
  <2> HIDE DEF flat
  <2>8. \A k \in 1..N : flat[k] = IF k = 1 THEN s[k] ELSE flat[k - 1] \o s[k]
    BY <2>6
  <2> DEFINE T == {n \in 0..N : n = 0 \/ flat[n] = h[n]}
  <2>9. 0 \in T
    BY <1>1
  <2>10. ASSUME NEW n \in 0..(N - 1), n \in T PROVE n + 1 \in T
    <3>1. n + 1 \in 1..N /\ (n + 1) - 1 = n /\ n \in Nat
      BY <1>1
    <3>2. CASE n = 0
      BY <2>1, <2>8, <3>1, <3>2
    <3>3. CASE n # 0
      <4>1. flat[n] = h[n] /\ n + 1 # 1
        BY <2>10, <3>1, <3>3
      <4>2. QED BY <2>1, <2>8, <3>1, <4>1
    <3>4. QED BY <3>2, <3>3
  <2> HIDE DEF T
  <2>11. 0..N \subseteq T
    BY <1>1, <2>9, <2>10, NumbersUpTo
  <2>12. N \in T
    BY <1>1, <2>11
  <2>13. flat[N] = h[N]
    BY <1>3, <2>12 DEF T
  <2>14. QED BY <2>7, <2>13
<1>4. QED BY <1>2, <1>3

\* What is flattened is a sequence of what its members are of.
LEMMA FlattenedIsSequence ==
  ASSUME NEW S, NEW s \in Seq(Seq(S))
  PROVE  FlattenSeq(s) \in Seq(S)
<1>1. PICK h : FlatTurns(S, s, h)
  BY FlatTurnsExist DEF HasFlatTurns
<1>2. FlattenSeq(s) = h[Len(s)]
  BY <1>1, FlattenedByTurns
<1>3. QED BY <1>1, <1>2 DEF FlatTurns

\* The whole of two is the whole of one and then of the other.
LEMMA FlattenTogether ==
  ASSUME NEW S, NEW a \in Seq(Seq(S)), NEW b \in Seq(Seq(S))
  PROVE  FlattenSeq(a \o b) = FlattenSeq(a) \o FlattenSeq(b)
<1>1. PICK g : FlatTurns(S, a, g)
  BY FlatTurnsExist DEF HasFlatTurns
<1>2. PICK h : FlatTurns(S, b, h)
  BY FlatTurnsExist DEF HasFlatTurns
<1> DEFINE M == Len(a)
           N == Len(b)
           both == [k \in 0..(M + N) |-> IF k <= M THEN g[k] ELSE g[M] \o h[k - M]]
<1>3. M \in Nat
  OBVIOUS
<1>4. N \in Nat
  OBVIOUS
<1>5. a \o b \in Seq(Seq(S)) /\ Len(a \o b) = M + N
  OBVIOUS
<1>6. g \in [0..M -> Seq(S)] /\ g[0] = <<>> /\ \A k \in 1..M : g[k] = g[k - 1] \o a[k]
  BY <1>1 DEF FlatTurns
<1>7. h \in [0..N -> Seq(S)] /\ h[0] = <<>> /\ \A k \in 1..N : h[k] = h[k - 1] \o b[k]
  BY <1>2 DEF FlatTurns
<1>8. \A k \in 1..N : b[k] \in Seq(S)
  OBVIOUS
<1>9. \A k \in 1..(M + N) : k <= M => (a \o b)[k] = a[k]
  OBVIOUS
<1>10. \A k \in 1..(M + N) : k > M => (a \o b)[k] = b[k - M]
  OBVIOUS
<1> HIDE DEF M, N
<1>11. g[M] \in Seq(S)
  BY <1>3, <1>6
<1>12. \A k \in 0..(M + N) : both[k] = IF k <= M THEN g[k] ELSE g[M] \o h[k - M]
  OBVIOUS
<1>13. both \in [0..(M + N) -> Seq(S)]
  <2>1. \A k \in 0..(M + N) : k <= M => k \in 0..M
    BY <1>3, <1>4
  <2>2. \A k \in 0..(M + N) : ~ (k <= M) => k - M \in 0..N
    BY <1>3, <1>4
  <2>3. \A x \in Seq(S) : g[M] \o x \in Seq(S)
    BY <1>11
  <2>4. ASSUME NEW k \in 0..(M + N) PROVE both[k] \in Seq(S)
    <3>1. CASE k <= M
      BY <1>6, <1>12, <2>1, <3>1
    <3>2. CASE ~ (k <= M)
      BY <1>7, <1>12, <2>2, <2>3, <3>2
    <3>3. QED BY <3>1, <3>2
  <2>5. QED BY <2>4
<1> HIDE DEF both
<1>14. both[0] = <<>>
  <2>1. 0 \in 0..(M + N) /\ 0 <= M
    BY <1>3, <1>4
  <2>2. QED BY <1>6, <1>12, <2>1
<1>15. ASSUME NEW k \in 1..(M + N) PROVE both[k] = both[k - 1] \o (a \o b)[k]
  <2>1. k \in 0..(M + N) /\ k - 1 \in 0..(M + N)
    BY <1>3, <1>4
  <2>2. CASE k <= M
    <3>1. k - 1 <= M /\ k \in 1..M
      BY <1>3, <1>4, <2>2
    <3>2. QED BY <1>6, <1>9, <1>12, <2>1, <2>2, <3>1
  <2>3. CASE k = M + 1
    <3>1. k - 1 = M /\ k - M = 1 /\ M <= M /\ ~ (k <= M) /\ k > M /\ 1 \in 1..N /\ 1 - 1 = 0
      BY <1>3, <1>4, <2>3
    <3>2. both[k] = g[M] \o h[1] /\ both[k - 1] = g[M] /\ (a \o b)[k] = b[1]
      BY <1>10, <1>12, <2>1, <3>1
    <3>3. h[1] = <<>> \o b[1]
      BY <1>7, <3>1
    <3>4. <<>> \o b[1] = b[1]
      BY <1>8, <3>1
    <3>5. QED BY <3>2, <3>3, <3>4
  <2>4. CASE k > M + 1
    <3>1. k - M \in 1..N /\ (k - M) - 1 \in 0..N /\ (k - 1) - M = (k - M) - 1
          /\ ~ (k <= M) /\ ~ (k - 1 <= M) /\ k > M
      BY <1>3, <1>4, <2>4
    <3>2. PICK u : u = h[(k - M) - 1]
      OBVIOUS
    <3>3. PICK v : v = b[k - M]
      OBVIOUS
    <3>4. both[k] = g[M] \o h[k - M] /\ both[k - 1] = g[M] \o u /\ (a \o b)[k] = v
      BY <1>10, <1>12, <2>1, <3>1, <3>2, <3>3
    <3>5. h[k - M] = u \o v
      BY <1>7, <3>1, <3>2, <3>3
    <3>6. u \in Seq(S)
      BY <1>7, <3>1, <3>2
    <3>7. v \in Seq(S)
      BY <1>8, <3>1, <3>3
    <3>8. PICK w : w = g[M]
      OBVIOUS
    <3>9. w \in Seq(S)
      BY <1>11, <3>8
    <3>10. Regroups(S, w, u, v)
      BY <3>6, <3>7, <3>9, Regrouped
    <3>11. both[k] = w \o (u \o v)
      BY <3>4, <3>5, <3>8, Zenon
    <3>12. both[k - 1] \o (a \o b)[k] = (w \o u) \o v
      BY <3>4, <3>8, Zenon
    <3>13. both[k] = both[k - 1] \o (a \o b)[k]
      BY <3>10, <3>11, <3>12, Zenon DEF Regroups
    <3>14. QED BY <3>13
  <2>5. k <= M \/ k = M + 1 \/ k > M + 1
    BY <1>3, <1>4
  <2>6. QED BY <2>2, <2>3, <2>4, <2>5, Zenon
<1>16. FlatTurns(S, a \o b, both)
  BY <1>5, <1>13, <1>14, <1>15 DEF FlatTurns
<1>17. FlattenSeq(a \o b) = both[M + N]
  BY <1>5, <1>16, FlattenedByTurns
<1>18. FlattenSeq(a) = g[M] /\ FlattenSeq(b) = h[N]
  BY <1>1, <1>2, FlattenedByTurns DEF M, N
<1>19. both[M + N] = g[M] \o h[N]
  <2>1. M + N \in 0..(M + N) /\ (M + N) - M = N
    BY <1>3, <1>4
  <2>2. CASE N = 0
    <3>1. M + N <= M /\ M + N = M
      BY <1>3, <2>2
    <3>2. h[N] = <<>>
      BY <1>7, <2>2
    <3>3. g[M] \o <<>> = g[M]
      BY <1>11
    <3>4. QED BY <1>12, <2>1, <3>1, <3>2, <3>3
  <2>3. CASE N # 0
    <3>1. ~ (M + N <= M)
      BY <1>3, <1>4, <2>3
    <3>2. QED BY <1>12, <2>1, <3>1
  <2>4. QED BY <2>2, <2>3
<1>20. QED BY <1>17, <1>18, <1>19

\* The whole of one is it.
LEMMA FlattenOne ==
  ASSUME NEW S, NEW x \in Seq(S)
  PROVE  FlattenSeq(<<x>>) = x
<1> DEFINE s == <<x>>
           h == [k \in 0..1 |-> IF k = 0 THEN <<>> ELSE x]
<1>1. s \in Seq(Seq(S)) /\ Len(s) = 1 /\ s[1] = x
  OBVIOUS
<1> HIDE DEF s
<1>2. h \in [0..1 -> Seq(S)] /\ h[0] = <<>> /\ h[1] = x
  OBVIOUS
<1> HIDE DEF h
<1>3. <<>> \o x = x
  OBVIOUS
<1>4. \A k \in 1..1 : h[k] = h[k - 1] \o s[k]
  BY <1>1, <1>2, <1>3
<1>5. FlatTurns(S, s, h)
  BY <1>1, <1>2, <1>4 DEF FlatTurns
<1>6. QED BY <1>1, <1>2, <1>5, FlattenedByTurns DEF s

\* There is nothing in no sequences.
LEMMA FlattenNone == FlattenSeq(<<>>) = <<>>
<1>1. Len(<<>>) = 0
  OBVIOUS
<1>2. QED BY <1>1 DEF FlattenSeq

\* One sequence more is its members more.
LEMMA FlattenAppend ==
  ASSUME NEW S, NEW s \in Seq(Seq(S)), NEW x \in Seq(S)
  PROVE  FlattenSeq(Append(s, x)) = FlattenSeq(s) \o x
<1>1. PICK y : y = <<x>>
  OBVIOUS
<1>2. y \in Seq(Seq(S))
  BY <1>1
<1>3. Append(s, x) = s \o y
  BY <1>1, AppendIsConcat
<1>4. FlattenSeq(s \o y) = FlattenSeq(s) \o FlattenSeq(y)
  BY <1>2, FlattenTogether
<1>5. FlattenSeq(y) = x
  BY <1>1, FlattenOne
<1>6. QED BY <1>3, <1>4, <1>5

-----------------------------------------------------------------------------
(* Sequences by their members *)

\* The members of two sequences joined are those of the one and of the other.
JoinedOf(S, a, b) ==
  /\ a \o b \in Seq(S) /\ Len(a \o b) = Len(a) + Len(b)
  /\ Len(a) \in Nat /\ Len(b) \in Nat
  /\ \A i \in 1..Len(a) : (a \o b)[i] = a[i]
  /\ \A i \in 1..Len(b) : (a \o b)[Len(a) + i] = b[i]
\* Any two.
LEMMA JoinedPlaces ==
  ASSUME NEW S, NEW a \in Seq(S), NEW b \in Seq(S)
  PROVE  JoinedOf(S, a, b)
BY DEF JoinedOf

\* The first members of a sequence.
LEMMA FirstPlaces ==
  ASSUME NEW S, NEW text \in Seq(S), NEW m \in Nat, m <= Len(text)
  PROVE  /\ DOMAIN SubSeq(text, 1, m) = 1..m /\ Len(SubSeq(text, 1, m)) = m
         /\ \A i \in 1..m : SubSeq(text, 1, m)[i] = text[i]
<1>1. CASE m = 0
  BY <1>1
<1>2. CASE 1 <= m
  BY <1>2
<1>. QED BY <1>1, <1>2

\* A sequence that is not empty has a first member and a rest.
LEMMA FirstAndRest ==
  ASSUME NEW S, NEW s \in Seq(S), s # <<>>
  PROVE  s[1] \in S /\ Tail(s) \in Seq(S) /\ s = <<s[1]>> \o Tail(s) /\ Len(Tail(s)) = Len(s) - 1
         /\ \A k \in 1..Len(s) : k = 1 \/ (k - 1 \in 1..Len(Tail(s)) /\ s[k] = Tail(s)[k - 1])
<1>1. Len(s) \in Nat /\ Len(s) # 0
  BY LenProperties, EmptySeq
<1>2. s[1] \in S
  BY <1>1, ElementOfSeq
<1>3. Tail(s) \in Seq(S) /\ Len(Tail(s)) = Len(s) - 1 /\ \A i \in 1..(Len(s) - 1) : Tail(s)[i] = s[i + 1]
  BY <1>1, HeadTailProperties
<1>. DEFINE t == <<s[1]>> \o Tail(s)
<1>4. t \in Seq(S) /\ Len(t) = Len(s) /\ t[1] = s[1] /\ \A i \in 1..(Len(s) - 1) : t[i + 1] = Tail(s)[i]
  BY <1>1, <1>2, <1>3
<1>. HIDE DEF t
<1>5. \A k \in 1..Len(s) : k = 1 \/ (k - 1 \in 1..Len(Tail(s)) /\ s[k] = Tail(s)[k - 1] /\ t[k] = s[k])
  <2>. SUFFICES ASSUME NEW k \in 1..Len(s), k # 1
                PROVE  k - 1 \in 1..Len(Tail(s)) /\ s[k] = Tail(s)[k - 1] /\ t[k] = s[k]
    OBVIOUS
  <2>1. k - 1 \in 1..(Len(s) - 1) /\ (k - 1) + 1 = k
    BY <1>1
  <2>. QED BY <1>3, <1>4, <2>1
<1>6. s = t
  BY <1>4, <1>5, SeqEqual
<1>. QED BY <1>2, <1>3, <1>5, <1>6 DEF t

\* A set that has no member's sequence, and each of its sequences after one
\* member more, has them all.
LEMMA SequencesByInduction ==
  ASSUME NEW S, NEW T, <<>> \in T,
         \A x \in S : \A s \in Seq(S) : s \in T => <<x>> \o s \in T
  PROVE  Seq(S) \subseteq T
<1>. DEFINE U == {n \in Nat : \A s \in Seq(S) : Len(s) = n => s \in T}
<1>1. 0 \in U
  <2>. SUFFICES ASSUME NEW s \in Seq(S), Len(s) = 0 PROVE s \in T
    OBVIOUS
  <2>1. s = <<>>
    BY EmptySeq
  <2>. QED BY <2>1
<1>2. ASSUME NEW n \in Nat, n \in U PROVE n + 1 \in U
  <2>. SUFFICES ASSUME NEW s \in Seq(S), Len(s) = n + 1 PROVE s \in T
    OBVIOUS
  <2>1. s # <<>>
    BY EmptySeq
  <2>2. s[1] \in S /\ Tail(s) \in Seq(S) /\ s = <<s[1]>> \o Tail(s) /\ Len(Tail(s)) = n
    BY <2>1, FirstAndRest
  <2>3. Tail(s) \in T
    BY <1>2, <2>2
  <2>. QED BY <2>2, <2>3
<1>. HIDE DEF U
<1>3. Nat \subseteq U
  BY <1>1, <1>2, NumbersByInduction
<1>. SUFFICES ASSUME NEW s \in Seq(S) PROVE s \in T
  OBVIOUS
<1>4. Len(s) \in U
  BY <1>3, LenProperties
<1>. QED BY <1>4 DEF U

\* What follows a sequence is told from the whole.
LEMMA RestsAgree ==
  ASSUME NEW S, NEW a \in Seq(S), NEW s \in Seq(S), NEW t \in Seq(S), a \o s = a \o t
  PROVE  s = t
BY ConcatSimplifications
=============================================================================
