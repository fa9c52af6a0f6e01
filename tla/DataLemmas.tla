----------------------------- MODULE DataLemmas -----------------------------
(***************************************************************************)
(* Facts about data that more than one proof needs: the least and the      *)
(* greatest of some numbers, induction on a number, folds and sequences.   *)
(* Induction is stated of a set instead of a predicate, so that a proof    *)
(* can cite it; that < on Nat is well-founded is the library's theorem.    *)
(***************************************************************************)
EXTENDS Integers, Sequences, SequencesExt, WellFoundedInduction, TLAPS

\* Some numbers have a least one.
LEMMA Least ==
    ASSUME NEW T, T \subseteq Nat, T # {}
    PROVE  \E x \in T : \A y \in T : x <= y
<1> DEFINE R == OpToRel(<, Nat)
<1>1. IsWellFoundedOn(R, Nat)
  BY NatLessThanWellFounded
<1>2. R = {ss \in Nat \X Nat : ss[1] < ss[2]}
  BY DEF OpToRel
<1> HIDE DEF R
<1>3. PICK x \in T : \A y \in T : <<y, x>> \notin R
  BY <1>1, WFMin
<1>4. ASSUME NEW y \in T PROVE x <= y
  <2>1. x \in Nat /\ y \in Nat
    OBVIOUS
  <2>2. ~(y < x)
    <3>1. <<y, x>> \in Nat \X Nat
      BY <2>1
    <3> QED BY <1>2, <1>3, <3>1
  <2> QED BY <2>1, <2>2
<1> QED BY <1>3, <1>4

\* What holds of 0 and of the next number holds of every number.
LEMMA Induct ==
    ASSUME NEW S, 0 \in S, \A n \in Nat : n \in S => n + 1 \in S
    PROVE  Nat \subseteq S
<1> DEFINE T == Nat \ S
<1>1. CASE T = {}
  BY <1>1
<1>2. CASE T # {}
  <2>1. PICK x \in T : \A y \in T : x <= y
    BY <1>2, Least
  <2>2. x # 0 /\ x \in Nat /\ x - 1 \in Nat
    BY <2>1
  <2>3. x - 1 \notin T
    BY <2>1, <2>2
  <2> QED BY <2>1, <2>2, <2>3
<1> QED BY <1>1, <1>2

\* Some numbers that are bounded have a greatest one, and Max is it.
LEMMA Most ==
    ASSUME NEW T, T \subseteq Nat, T # {}, NEW n \in Nat, \A x \in T : x <= n
    PROVE  Max(T) \in T /\ \A y \in T : Max(T) >= y
<1> DEFINE U == {n - x : x \in T}
<1>1. PICK u \in U : \A v \in U : u <= v
  <2>1. U \subseteq Nat
    OBVIOUS
  <2>2. U # {}
    OBVIOUS
  <2> HIDE DEF U
  <2> QED BY <2>1, <2>2, Least
<1>2. PICK x \in T : u = n - x
  BY <1>1
<1>3. ASSUME NEW y \in T PROVE x >= y
  <2>1. n - x <= n - y
    BY <1>1, <1>2
  <2>2. x \in Nat /\ y \in Nat
    OBVIOUS
  <2> QED BY <2>1, <2>2
<1> QED BY <1>3 DEF Max

\* The last of some positions.
LEMMA MaxOfPositions ==
    ASSUME NEW n \in Nat, NEW s \in SUBSET (1..n), s # {}
    PROVE  Max(s) \in s /\ \A x \in s : x <= Max(s)
<1>1. s \subseteq Nat /\ \A x \in s : x <= n
  OBVIOUS
<1>2. Max(s) \in s /\ \A x \in s : Max(s) >= x
  BY <1>1, Most
<1> QED BY <1>1, <1>2

\* The last of the first positions, and the others.
LEMMA LastPosition ==
    ASSUME NEW n \in Nat, NEW k \in Nat, k + 1 <= n
    PROVE  /\ 1..(k + 1) \in SUBSET (1..n) /\ 1..(k + 1) # {}
           /\ Max(1..(k + 1)) = k + 1 /\ (1..(k + 1)) \ {k + 1} = 1..k
<1>1. 1..(k + 1) \in SUBSET (1..n) /\ k + 1 \in 1..(k + 1)
  <2>1. \A i \in 1..(k + 1) : i \in 1..n
    OBVIOUS
  <2> QED BY <2>1
<1>2. Max(1..(k + 1)) \in 1..(k + 1) /\ k + 1 <= Max(1..(k + 1))
  BY <1>1, MaxOfPositions
<1>3. \A m \in 1..(k + 1) : k + 1 <= m => m = k + 1
  OBVIOUS
<1>4. (1..(k + 1)) \ {k + 1} = 1..k
  OBVIOUS
<1> QED BY <1>1, <1>2, <1>3, <1>4

\* A fold over n positions from the left is a function on the sets of them,
\* defined by recursion: F folds step, which takes a position and a value.
IsFold(F, V, base, step, n) ==
    /\ F \in [SUBSET (1..n) -> V]
    /\ \A s \in SUBSET (1..n) :
          F[s] = IF s = {} THEN base ELSE step[Max(s)][F[s \ {Max(s)}]]

\* Such a function exists.
LEMMA FoldExists ==
    ASSUME NEW V, NEW base \in V, NEW n \in Nat, NEW step \in [1..n -> [V -> V]]
    PROVE  \E F : IsFold(F, V, base, step, n)
<1> DEFINE S == {k \in Nat : k <= n => \E F : IsFold(F, V, base, step, k)}
<1>1. 0 \in S
  <2> DEFINE F == [s \in SUBSET (1..0) |-> base]
  <2>1. F \in [SUBSET (1..0) -> V] /\ \A s \in SUBSET (1..0) : s = {} /\ F[s] = base
    OBVIOUS
  <2>2. IsFold(F, V, base, step, 0)
    BY <2>1 DEF IsFold
  <2> QED BY <2>2
<1>2. ASSUME NEW k \in Nat, k \in S PROVE k + 1 \in S
  <2> SUFFICES ASSUME k + 1 <= n
               PROVE  \E G : IsFold(G, V, base, step, k + 1)
    OBVIOUS
  <2>1. PICK F : IsFold(F, V, base, step, k)
    BY <1>2
  <2> DEFINE G == [s \in SUBSET (1..(k + 1)) |->
                      IF k + 1 \in s THEN step[k + 1][F[s \ {k + 1}]] ELSE F[s]]
  <2>2. ASSUME NEW s \in SUBSET (1..(k + 1))
        PROVE  G[s] \in V
    <3>1. CASE k + 1 \in s
      <4>1. s \ {k + 1} \in SUBSET (1..k)
        OBVIOUS
      <4>2. F[s \ {k + 1}] \in V /\ k + 1 \in 1..n
        BY <2>1, <4>1 DEF IsFold
      <4> QED BY <3>1, <4>2
    <3>2. CASE k + 1 \notin s
      <4>1. s \in SUBSET (1..k)
        BY <3>2
      <4> QED BY <2>1, <3>2, <4>1 DEF IsFold
    <3> QED BY <3>1, <3>2
  <2>3. G \in [SUBSET (1..(k + 1)) -> V]
    <3>1. G = [s \in SUBSET (1..(k + 1)) |-> G[s]]
      OBVIOUS
    <3> HIDE DEF G
    <3> QED BY <2>2, <3>1
  <2>4. ASSUME NEW s \in SUBSET (1..(k + 1))
        PROVE  G[s] = IF s = {} THEN base ELSE step[Max(s)][G[s \ {Max(s)}]]
    <3>1. CASE k + 1 \in s
      <4>1. Max(s) = k + 1
        <5>1. k + 1 \in Nat /\ s # {}
          BY <3>1
        <5>2. Max(s) \in s /\ k + 1 <= Max(s)
          BY <3>1, <5>1, MaxOfPositions
        <5>3. Max(s) \in 1..(k + 1)
          BY <5>2
        <5>4. \A m \in 1..(k + 1) : k + 1 <= m => m = k + 1
          OBVIOUS
        <5> QED BY <5>2, <5>3, <5>4
      <4>2. s \ {k + 1} \in SUBSET (1..k) /\ s \ {k + 1} \in SUBSET (1..(k + 1))
        OBVIOUS
      <4>3. G[s \ {k + 1}] = F[s \ {k + 1}]
        BY <4>2
      <4>4. G[s] = step[k + 1][F[s \ {k + 1}]]
        BY <3>1
      <4> QED BY <3>1, <4>1, <4>3, <4>4
    <3>2. CASE k + 1 \notin s
      <4>1. s \in SUBSET (1..k) /\ G[s] = F[s]
        BY <3>2
      <4>2. F[s] = IF s = {} THEN base ELSE step[Max(s)][F[s \ {Max(s)}]]
        BY <2>1, <4>1 DEF IsFold
      <4>3. G[s \ {Max(s)}] = F[s \ {Max(s)}]
        BY <3>2
      <4> QED BY <4>1, <4>2, <4>3
    <3> QED BY <3>1, <3>2
  <2>5. IsFold(G, V, base, step, k + 1)
    <3> HIDE DEF G
    <3> QED BY <2>3, <2>4 DEF IsFold
  <2> QED BY <2>5
<1> HIDE DEF S
<1>3. n \in S
  BY <1>1, <1>2, Induct
<1> QED BY <1>3 DEF S

\* The values f[0], ..., f[n], each made of the one before it.
IsRecursion(f, V, base, step, n) ==
    /\ f \in [0..n -> V] /\ f[0] = base
    /\ \A k \in 1..n : f[k] = step[k][f[k - 1]]

\* They exist as well.
LEMMA RecursionExists ==
    ASSUME NEW V, NEW base \in V, NEW n \in Nat, NEW step \in [1..n -> [V -> V]]
    PROVE  \E f : IsRecursion(f, V, base, step, n)
<1>1. PICK F : IsFold(F, V, base, step, n)
  BY FoldExists
<1> DEFINE f == [k \in 0..n |-> F[1..k]]
<1>2. ASSUME NEW k \in 0..n PROVE 1..k \in SUBSET (1..n) /\ f[k] = F[1..k]
  <2>1. \A i \in 1..k : i \in 1..n
    OBVIOUS
  <2> QED BY <2>1
<1>3. \A k \in 0..n : f[k] \in V
  <2> HIDE DEF f
  <2> QED BY <1>1, <1>2 DEF IsFold
<1>4. f[0] = base
  <2>1. 1..0 = {} /\ 0 \in 0..n
    OBVIOUS
  <2>2. F[{}] = base
    BY <1>1 DEF IsFold
  <2> HIDE DEF f
  <2> QED BY <1>2, <2>1, <2>2
<1>5. ASSUME NEW k \in 1..n PROVE f[k] = step[k][f[k - 1]]
  <2> DEFINE j == k - 1
  <2>1. j \in Nat /\ j + 1 <= n /\ j + 1 = k /\ j \in 0..n /\ k \in 0..n
    OBVIOUS
  <2> HIDE DEF f, j
  <2>2. /\ 1..(j + 1) \in SUBSET (1..n) /\ 1..(j + 1) # {}
        /\ Max(1..(j + 1)) = j + 1 /\ (1..(j + 1)) \ {j + 1} = 1..j
    BY <2>1, LastPosition
  <2>3. F[1..(j + 1)] = step[j + 1][F[1..j]]
    BY <1>1, <2>2 DEF IsFold
  <2> QED BY <1>2, <2>1, <2>3 DEF j
<1>6. f \in [0..n -> V]
  <2>1. f = [k \in 0..n |-> f[k]]
    OBVIOUS
  <2> HIDE DEF f
  <2> QED BY <1>3, <2>1
<1> HIDE DEF f
<1> QED BY <1>4, <1>5, <1>6 DEF IsRecursion

-----------------------------------------------------------------------------
(* Sequences *)

\* The elements of a sequence.
LEMMA RangeHas ==
    ASSUME NEW S, NEW t \in Seq(S), NEW i \in 1..Len(t)
    PROVE  t[i] \in Range(t)
BY DEF Range

\* Where the elements of a sequence come from.
LEMMA SeqHolds ==
    ASSUME NEW S, NEW s \in Seq(S)
    PROVE  Range(s) \subseteq S
BY DEF Range

\* A sequence joined to another.
LEMMA JoinIs ==
    ASSUME NEW S, NEW t \in Seq(S), NEW u \in Seq(S)
    PROVE  /\ t \o u \in Seq(S) /\ Len(t \o u) = Len(t) + Len(u)
           /\ \A i \in 1..Len(t) : (t \o u)[i] = t[i]
           /\ \A i \in 1..Len(u) : (t \o u)[Len(t) + i] = u[i]
<1>1. /\ t \o u \in Seq(S) /\ Len(t \o u) = Len(t) + Len(u)
  OBVIOUS
<1>2. ASSUME NEW i \in 1..Len(t) PROVE (t \o u)[i] = t[i]
  OBVIOUS
<1>3. ASSUME NEW i \in 1..Len(u) PROVE (t \o u)[Len(t) + i] = u[i]
  OBVIOUS
<1> QED BY <1>1, <1>2, <1>3

\* It has the elements of both.
LEMMA JoinRange ==
    ASSUME NEW S, NEW t \in Seq(S), NEW u \in Seq(S)
    PROVE  Range(t) \subseteq Range(t \o u) /\ Range(u) \subseteq Range(t \o u)
<1>1. ASSUME NEW x \in Range(t) PROVE x \in Range(t \o u)
  <2>1. PICK i \in 1..Len(t) : x = t[i]
    BY DEF Range
  <2>2. i \in 1..Len(t \o u) /\ (t \o u)[i] = x
    BY <2>1, JoinIs
  <2> QED BY <2>2, JoinIs, RangeHas
<1>2. ASSUME NEW x \in Range(u) PROVE x \in Range(t \o u)
  <2>1. PICK i \in 1..Len(u) : x = u[i]
    BY DEF Range
  <2>2. Len(t) + i \in 1..Len(t \o u) /\ (t \o u)[Len(t) + i] = x
    BY <2>1, JoinIs
  <2> QED BY <2>2, JoinIs, RangeHas
<1> QED BY <1>1, <1>2

\* A sequence and one element more.
LEMMA AppendIs ==
    ASSUME NEW S, NEW s \in Seq(S), NEW x \in S
    PROVE  /\ Append(s, x) \in Seq(S) /\ Append(s, x) # <<>>
           /\ Len(Append(s, x)) = Len(s) + 1 /\ Append(s, x)[Len(s) + 1] = x
           /\ \A n \in 1..Len(s) : Append(s, x)[n] = s[n]
OBVIOUS

\* The element that was added is the last.
LEMMA LastAppended ==
    ASSUME NEW S, NEW s \in Seq(S), NEW x \in S
    PROVE  /\ Append(s, x) \in Seq(S) /\ Append(s, x) # <<>>
           /\ Last(Append(s, x)) = x
<1>1. /\ Append(s, x) \in Seq(S) /\ Append(s, x) # <<>>
      /\ Len(Append(s, x)) = Len(s) + 1 /\ Append(s, x)[Len(s) + 1] = x
  BY AppendIs
<1> QED BY <1>1 DEF Last

\* No element is lost when one is added.
LEMMA AppendHolds ==
    ASSUME NEW S, NEW s \in Seq(S), NEW x \in S
    PROVE  Range(s) \subseteq Range(Append(s, x))
<1> SUFFICES ASSUME NEW y \in Range(s) PROVE y \in Range(Append(s, x))
  OBVIOUS
<1>1. PICK i \in 1..Len(s) : y = s[i]
  BY DEF Range
<1>2. /\ Append(s, x) \in Seq(S) /\ i \in 1..Len(Append(s, x))
      /\ Append(s, x)[i] = y
  <2>1. Append(s, x) \in Seq(S) /\ Len(Append(s, x)) = Len(s) + 1
        /\ \A n \in 1..Len(s) : Append(s, x)[n] = s[n]
    BY AppendIs
  <2>2. Len(s) \in Nat
    OBVIOUS
  <2> QED BY <1>1, <2>1, <2>2
<1> QED BY <1>2, RangeHas

\* Two elements.
LEMMA PairIs ==
    ASSUME NEW S, NEW a \in S, NEW b \in S
    PROVE  /\ <<a, b>> \in Seq(S) /\ Len(<<a, b>>) = 2
           /\ <<a, b>>[1] = a /\ <<a, b>>[2] = b
OBVIOUS

\* The elements of a pair.
LEMMA PairOf ==
    ASSUME NEW a, NEW b
    PROVE  <<a, b>>[1] = a /\ <<a, b>>[2] = b
OBVIOUS

\* Two elements and a sequence behind them.
LEMMA PairJoined ==
    ASSUME NEW S, NEW t \in Seq(S), NEW u \in Seq(S)
    PROVE  Len(t) = 2 => /\ t \o u \in Seq(S) /\ Len(t \o u) = 2 + Len(u)
                         /\ (t \o u)[1] = t[1] /\ (t \o u)[2] = t[2]
                         /\ Len(u) > 0 => (t \o u)[3] = u[1]
                         /\ Len(u) > 1 => (t \o u)[4] = u[2]
<1>1. /\ t \o u \in Seq(S) /\ Len(t \o u) = Len(t) + Len(u)
      /\ \A i \in 1..Len(t) : (t \o u)[i] = t[i]
      /\ \A i \in 1..Len(u) : (t \o u)[Len(t) + i] = u[i]
  BY JoinIs
<1>2. Len(u) \in Nat
  OBVIOUS
<1> DEFINE w == t \o u
<1> HIDE DEF w
<1>3. ASSUME Len(t) = 2
      PROVE  /\ Len(w) = 2 + Len(u) /\ w[1] = t[1] /\ w[2] = t[2]
             /\ Len(u) > 0 => w[3] = u[1]
             /\ Len(u) > 1 => w[4] = u[2]
  <2>1. /\ Len(w) = Len(t) + Len(u) /\ \A i \in 1..Len(t) : w[i] = t[i]
        /\ \A i \in 1..Len(u) : w[Len(t) + i] = u[i]
    BY <1>1 DEF w
  <2>2. Len(w) = 2 + Len(u) /\ w[1] = t[1] /\ w[2] = t[2]
    BY <1>3, <2>1
  <2>3. ASSUME Len(u) > 0 PROVE w[3] = u[1]
    <3>1. 1 \in 1..Len(u) /\ Len(t) + 1 = 3
      BY <1>2, <1>3, <2>3
    <3> QED BY <2>1, <3>1
  <2>4. ASSUME Len(u) > 1 PROVE w[4] = u[2]
    <3>1. 2 \in 1..Len(u) /\ Len(t) + 2 = 4
      BY <1>2, <1>3, <2>4
    <3> QED BY <2>1, <3>1
  <2> QED BY <2>2, <2>3, <2>4
<1> QED BY <1>1, <1>3 DEF w

=============================================================================
