---------------------------- MODULE LedgerProofs ----------------------------
(***************************************************************************)
(* Proofs about ChannelState: what its operators keep of a channel record. *)
(* Every operation but the two that exchange a state keeps the states on   *)
(* record, and all of them keep the ledger: what is allocated is what the  *)
(* live games hold, and nothing is made or lost.                           *)
(***************************************************************************)
EXTENDS PotatoInvariant, NaturalsInduction, WellFoundedInduction, TLAPS

(***************************************************************************)
(* Folds.  The model writes them as recursive functions on 0..n.           *)
(***************************************************************************)

\* A set of numbers that is not empty has a smallest member.
LEMMA SmallestIn ==
    ASSUME NEW T \in SUBSET Nat, T # {}
    PROVE  \E x \in T : \A y \in T : x <= y
  <1>1. PICK x \in T : \A y \in T : ~(<<y, x>> \in OpToRel(<, Nat))
      BY NatLessThanWellFounded, WFMin, Zenon
  <1>2. \A y \in T : ~(y < x)
      BY <1>1, Zenon DEF OpToRel
  <1> QED
      BY <1>2

\* What holds at 0 and passes from each index to the next holds at all.
LEMMA AlongIndices ==
    ASSUME NEW n \in Nat, NEW T, 0 \in T, \A i \in 1..n : i - 1 \in T => i \in T
    PROVE  \A i \in 0..n : i \in T
  <1> DEFINE B == {i \in 0..n : i \notin T}
  <1> SUFFICES ASSUME B # {} PROVE FALSE
      OBVIOUS
  <1>1. B \in SUBSET Nat
      OBVIOUS
  <1>2. PICK m \in B : \A y \in B : m <= y
      BY <1>1, SmallestIn
  <1>3. m \in 1..n
      BY <1>2
  <1>4. m - 1 \in 0..n /\ ~(m <= m - 1)
      BY <1>3
  <1>5. m - 1 \in T
      BY <1>2, <1>4
  <1> QED
      BY <1>2, <1>3, <1>5

\* A fold has a value, in whatever set its step keeps.
Steps(n, S, b, F) == n \in Nat /\ b \in S /\ F \in [S \X (1..n) -> S]

Folds(f, n, S, b, F) ==
    f \in [0..n -> S] /\ f[0] = b /\ \A i \in 1..n : f[i] = F[<<f[i - 1], i>>]

LEMMA FoldExists ==
    ASSUME NEW n, NEW S, NEW b, NEW F, Steps(n, S, b, F)
    PROVE  \E f : Folds(f, n, S, b, F)
  <1> USE DEF Steps
  <1> DEFINE Good(m) == \E f \in [0..m -> S] :
                           f[0] = b /\ \A i \in 1..m : f[i] = F[<<f[i - 1], i>>]
  <1> DEFINE T == {m \in 0..n : Good(m)}
  <1>1. 0 \in T
    <2> DEFINE f == [i \in 0..0 |-> b]
    <2>1. f \in [0..0 -> S] /\ f[0] = b /\ \A i \in 1..0 : f[i] = F[<<f[i - 1], i>>]
        OBVIOUS
    <2> HIDE DEF f
    <2>2. Good(0)
        BY <2>1
    <2> QED
        BY <2>2
  <1>2. ASSUME NEW m \in 1..n, m - 1 \in T PROVE m \in T
    <2>1. PICK f \in [0..(m - 1) -> S] :
              f[0] = b /\ \A i \in 1..(m - 1) : f[i] = F[<<f[i - 1], i>>]
        BY <1>2
    <2> DEFINE g == [i \in 0..m |-> IF i = m THEN F[<<f[m - 1], m>>] ELSE f[i]]
    <2>2. \A i \in 0..m : g[i] = IF i = m THEN F[<<f[m - 1], m>>] ELSE f[i]
        OBVIOUS
    <2>3. g \in [0..m -> S]
      <3>1. f[m - 1] \in S
          BY <2>1
      <3>2. F[<<f[m - 1], m>>] \in S
          BY <3>1
      <3>3. \A i \in 0..m : i # m => f[i] \in S
          BY <2>1
      <3> QED
          BY <3>2, <3>3
    <2> HIDE DEF g
    <2>4. g[0] = b
        BY <2>1, <2>2
    <2>5. ASSUME NEW i \in 1..m PROVE g[i] = F[<<g[i - 1], i>>]
      <3>1. g[i - 1] = f[i - 1]
          BY <2>2
      <3>2. CASE i = m
          BY <3>1, <3>2, <2>2, SMTT(40)
      <3>3. CASE i # m
          BY <3>1, <3>3, <2>1, <2>2
      <3> QED
          BY <3>2, <3>3
    <2>6. Good(m)
        BY <2>3, <2>4, <2>5
    <2> QED
        BY <2>6
  <1> HIDE DEF T
  <1>3. \A i \in 0..n : i \in T
      BY <1>1, <1>2, AlongIndices
  <1> QED
      BY <1>3, SMTT(40) DEF T, Folds

\* What a fold is, as the LET of a recursive function defines it.
LEMMA FoldAgrees ==
    ASSUME NEW n \in Nat, NEW f, NEW g, f[0] = g[0],
           \A i \in 1..n : f[i - 1] = g[i - 1] => f[i] = g[i]
    PROVE  \A i \in 0..n : f[i] = g[i]
  <1> DEFINE T == {i \in 0..n : f[i] = g[i]}
  <1>1. 0 \in T /\ \A i \in 1..n : i - 1 \in T => i \in T
      OBVIOUS
  <1> HIDE DEF T
  <1>2. \A i \in 0..n : i \in T
      BY <1>1, AlongIndices
  <1> QED
      BY <1>2 DEF T

-----------------------------------------------------------------------------
(***************************************************************************)
(* Sequences.                                                              *)
(***************************************************************************)

Keeping(f, s, T) ==
    f = [i \in 0..Len(s) |->
            IF i = 0 THEN << >>
            ELSE IF s[i] \in T THEN Append(f[i - 1], s[i]) ELSE f[i - 1]]

\* A filter leaves members of the sequence.
LEMMA AmongType ==
    ASSUME NEW S, NEW s \in Seq(S), NEW T
    PROVE  Among(s, T) \in Seq(S)
  <1> DEFINE n == Len(s)
  <1> DEFINE F == [x \in Seq(S) \X (1..n) |->
                      IF s[x[2]] \in T THEN Append(x[1], s[x[2]]) ELSE x[1]]
  <1>1. n \in Nat /\ \A i \in 1..n : s[i] \in S
      OBVIOUS
  <1>2. F \in [Seq(S) \X (1..n) -> Seq(S)]
    <2> SUFFICES ASSUME NEW x \in Seq(S) \X (1..n)
                 PROVE  (IF s[x[2]] \in T THEN Append(x[1], s[x[2]]) ELSE x[1]) \in Seq(S)
        BY Zenon
    <2>1. x[1] \in Seq(S) /\ x[2] \in 1..n
        OBVIOUS
    <2>2. Append(x[1], s[x[2]]) \in Seq(S)
        BY <2>1, <1>1
    <2> QED
        BY <2>1, <2>2
  <1>3. \A x \in Seq(S), i \in 1..n :
            F[<<x, i>>] = IF s[i] \in T THEN Append(x, s[i]) ELSE x
    <2> SUFFICES ASSUME NEW x \in Seq(S), NEW i \in 1..n
                 PROVE  F[<<x, i>>] = IF s[i] \in T THEN Append(x, s[i]) ELSE x
        BY Zenon
    <2>1. <<x, i>> \in Seq(S) \X (1..n) /\ <<x, i>>[1] = x /\ <<x, i>>[2] = i
        OBVIOUS
    <2> QED
        BY <2>1, Zenon
  <1>4. << >> \in Seq(S)
      OBVIOUS
  <1>5. PICK f \in [0..n -> Seq(S)] :
            f[0] = << >> /\ \A i \in 1..n : f[i] = F[<<f[i - 1], i>>]
    <2> DEFINE Q == Seq(S)
    <2> DEFINE e == << >>
    <2>1. n \in Nat /\ e \in Q /\ F \in [Q \X (1..n) -> Q]
        BY <1>1, <1>2, <1>4
    <2> HIDE DEF F, n, Q, e
    <2>2. Steps(n, Q, e, F)
        BY <2>1, Zenon DEF Steps
    <2>3. \E f : Folds(f, n, Q, e, F)
        BY <2>2, FoldExists, Zenon
    <2> QED
        BY <2>3, Zenon DEF Q, e, Folds
  <1> HIDE DEF F
  <1>6. \A i \in 1..n : f[i] = IF s[i] \in T THEN Append(f[i - 1], s[i]) ELSE f[i - 1]
    <2> SUFFICES ASSUME NEW i \in 1..n
                 PROVE  f[i] = IF s[i] \in T THEN Append(f[i - 1], s[i]) ELSE f[i - 1]
        BY Zenon
    <2>1. f[i - 1] \in Seq(S)
        BY <1>1, <1>5
    <2>2. f[i] = F[<<f[i - 1], i>>]
        BY <1>5
    <2> QED
        BY <1>3, <2>1, <2>2, Zenon
  <1>7. f = [i \in 0..n |->
                IF i = 0 THEN << >>
                ELSE IF s[i] \in T THEN Append(f[i - 1], s[i]) ELSE f[i - 1]]
    <2>1. \A i \in 0..n : f[i] = IF i = 0 THEN << >>
                   ELSE IF s[i] \in T THEN Append(f[i - 1], s[i]) ELSE f[i - 1]
      <3> SUFFICES ASSUME NEW i \in 0..n
                   PROVE  f[i] = IF i = 0 THEN << >>
                   ELSE IF s[i] \in T THEN Append(f[i - 1], s[i]) ELSE f[i - 1]
          BY Zenon
      <3>1. CASE i = 0
          BY <3>1, <1>5
      <3>2. CASE i # 0
        <4>1. i \in 1..n
            BY <3>2, <1>1
        <4> QED
            BY <4>1, <3>2, <1>6, Zenon
      <3> QED
          BY <3>1, <3>2
    <2>2. f = [i \in 0..n |-> f[i]]
        BY <1>5
    <2> QED
        BY <2>1, <2>2
  <1>8. Keeping(f, s, T)
      BY <1>7 DEF Keeping
  <1> DEFINE g == CHOOSE g : Keeping(g, s, T)
  <1>9. Keeping(g, s, T)
      BY <1>8, Zenon
  <1>10. Among(s, T) = g[n]
      BY DEF Among, Keeping
  <1> HIDE DEF g
  <1>11. \A i \in 0..n : g[i] = IF i = 0 THEN << >>
                   ELSE IF s[i] \in T THEN Append(g[i - 1], s[i]) ELSE g[i - 1]
      BY <1>9 DEF Keeping
  <1>12. \A i \in 0..n : g[i] = f[i]
    <2>1. g[0] = f[0]
        BY <1>11, <1>5, <1>1
    <2>2. \A i \in 1..n : g[i - 1] = f[i - 1] => g[i] = f[i]
        BY <1>11, <1>6, <1>1
    <2> HIDE DEF n
    <2> QED
        BY <2>1, <2>2, <1>1, FoldAgrees, ZenonT(40)
  <1> QED
      BY <1>10, <1>12, <1>5, <1>1

LEMMA ConcatType ==
    ASSUME NEW S, NEW a \in Seq(S), NEW b \in Seq(S)
    PROVE  /\ a \o b \in Seq(S)
           /\ Len(a \o b) = Len(a) + Len(b)
           /\ \A i \in DOMAIN (a \o b) :
                 (a \o b)[i] = IF i <= Len(a) THEN a[i] ELSE b[i - Len(a)]
    OBVIOUS

\* One entry of a sequence is taken out.
LEMMA RemoveAtType ==
    ASSUME NEW S, NEW s \in Seq(S), NEW k \in 1..Len(s)
    PROVE  /\ RemoveAt(s, k) \in Seq(S)
           /\ Len(RemoveAt(s, k)) = Len(s) - 1
           /\ \A i \in 1..(Len(s) - 1) :
                 RemoveAt(s, k)[i] = IF i < k THEN s[i] ELSE s[i + 1]
  <1> DEFINE a == SubSeq(s, 1, k - 1)
  <1> DEFINE b == SubSeq(s, k + 1, Len(s))
  <1>1. /\ a \in Seq(S) /\ Len(a) = k - 1
        /\ \A i \in 1..(k - 1) : a[i] = s[i]
      OBVIOUS
  <1>2. /\ b \in Seq(S) /\ Len(b) = Len(s) - k
        /\ \A i \in 1..(Len(s) - k) : b[i] = s[i + k]
    <2>1. \A i \in (k + 1)..Len(s) : s[i] \in S
        OBVIOUS
    <2>2. b \in Seq(S)
        BY <2>1
    <2>3. Len(b) = Len(s) - k
      <3>1. CASE k + 1 <= Len(s)
          BY <3>1
      <3>2. CASE k = Len(s)
          BY <3>2
      <3> QED
          BY <3>1, <3>2
    <2>4. \A i \in 1..(Len(s) - k) : b[i] = s[i + k]
        OBVIOUS
    <2> QED
        BY <2>2, <2>3, <2>4
  <1>3. RemoveAt(s, k) = a \o b
      BY DEF RemoveAt
  <1> HIDE DEF a, b
  <1>4. a \o b \in Seq(S) /\ Len(a \o b) = Len(s) - 1
    <2>1. a \o b \in Seq(S) /\ Len(a \o b) = Len(a) + Len(b)
      <3>1. a \in Seq(S) /\ b \in Seq(S)
          BY <1>1, <1>2
      <3> QED
          BY <3>1, ConcatType, Zenon
    <2>2. Len(s) \in Nat
        OBVIOUS
    <2> QED
        BY <2>1, <2>2, <1>1, <1>2
  <1>5. ASSUME NEW i \in 1..(Len(s) - 1)
        PROVE  (a \o b)[i] = IF i < k THEN s[i] ELSE s[i + 1]
    <2>1. CASE i < k
        BY <2>1, <1>1, <1>2
    <2>2. CASE ~(i < k)
      <3>1. i > Len(a) /\ i - Len(a) \in 1..(Len(s) - k)
          BY <2>2, <1>1
      <3>2. (a \o b)[i] = b[i - Len(a)]
          BY <3>1, <1>1, <1>2
      <3>3. b[i - Len(a)] = s[i - Len(a) + k]
          BY <3>1, <1>2
      <3>4. i - Len(a) + k = i + 1
          BY <1>1
      <3> QED
          BY <2>2, <3>2, <3>3, <3>4
    <2> QED
        BY <2>1, <2>2
  <1> QED
      BY <1>3, <1>4, <1>5

-----------------------------------------------------------------------------
(***************************************************************************)
(* Games and their stakes.                                                 *)
(***************************************************************************)

LEMMA GameFields ==
    ASSUME NEW g \in Games
    PROVE  /\ g.id \in Nat /\ g.group \in Nat /\ g.contrib \in [Party -> Nat]
           /\ g.turn \in Party /\ g.share \in Nat /\ g.moves \in Nat
           /\ g.over \in BOOLEAN /\ g.share <= Amount(g) /\ Amount(g) \in Nat
    BY DEF Games, Amount, Party

Zero == [q \in Party |-> 0]

LEMMA PlusType ==
    ASSUME NEW f \in [Party -> Nat], NEW g \in [Party -> Nat]
    PROVE  Plus(f, g) \in [Party -> Nat] /\ \A q \in Party : Plus(f, g)[q] = f[q] + g[q]
    BY DEF Plus

Sums(f, games) ==
    /\ f \in [0..Len(games) -> [Party -> Nat]]
    /\ f[0] = Zero
    /\ \A i \in 1..Len(games) : f[i] = Plus(f[i - 1], games[i].contrib)

Summing(f, games) ==
    f = [i \in 0..Len(games) |->
            IF i = 0 THEN [q \in Party |-> 0] ELSE Plus(f[i - 1], games[i].contrib)]

\* The stakes of games are the last of the running sums.
LEMMA TotalOf ==
    ASSUME NEW games \in Seq(Games)
    PROVE  \E f : Sums(f, games) /\ Total(games) = f[Len(games)]
  <1> DEFINE n == Len(games)
  <1> DEFINE Q == [Party -> Nat]
  <1> DEFINE F == [x \in Q \X (1..n) |-> Plus(x[1], games[x[2]].contrib)]
  <1>1. n \in Nat /\ \A i \in 1..n : games[i].contrib \in Q
    <2>1. \A i \in 1..n : games[i] \in Games
        OBVIOUS
    <2> QED
        BY <2>1, GameFields
  <1>2. F \in [Q \X (1..n) -> Q]
    <2> SUFFICES ASSUME NEW x \in Q \X (1..n)
                 PROVE  Plus(x[1], games[x[2]].contrib) \in Q
        BY Zenon
    <2>1. x[1] \in Q /\ x[2] \in 1..n
        OBVIOUS
    <2> QED
        BY <2>1, <1>1, PlusType
  <1>3. \A x \in Q, i \in 1..n : F[<<x, i>>] = Plus(x, games[i].contrib)
    <2> SUFFICES ASSUME NEW x \in Q, NEW i \in 1..n
                 PROVE  F[<<x, i>>] = Plus(x, games[i].contrib)
        BY Zenon
    <2>1. <<x, i>> \in Q \X (1..n) /\ <<x, i>>[1] = x /\ <<x, i>>[2] = i
        OBVIOUS
    <2> QED
        BY <2>1, Zenon
  <1>4. Zero \in Q
      BY DEF Zero
  <1> HIDE DEF F, Q, n
  <1>5. Steps(n, Q, Zero, F)
      BY <1>1, <1>2, <1>4, Zenon DEF Steps
  <1>6. PICK f : Folds(f, n, Q, Zero, F)
      BY <1>5, FoldExists, Zenon
  <1>7. \A i \in 0..n : f[i] \in Q
      BY <1>6, Zenon DEF Folds
  <1>8. \A i \in 1..n : f[i] = Plus(f[i - 1], games[i].contrib)
    <2> SUFFICES ASSUME NEW i \in 1..n PROVE f[i] = Plus(f[i - 1], games[i].contrib)
        BY Zenon
    <2>1. i - 1 \in 0..n
        BY <1>1
    <2>2. f[i] = F[<<f[i - 1], i>>]
        BY <1>6, Zenon DEF Folds
    <2> QED
        BY <1>3, <1>7, <2>1, <2>2, Zenon
  <1>9. f = [i \in 0..n |->
                IF i = 0 THEN [q \in Party |-> 0] ELSE Plus(f[i - 1], games[i].contrib)]
    <2>1. \A i \in 0..n : f[i] = IF i = 0 THEN [q \in Party |-> 0]
                                 ELSE Plus(f[i - 1], games[i].contrib)
      <3> SUFFICES ASSUME NEW i \in 0..n
                   PROVE  f[i] = IF i = 0 THEN [q \in Party |-> 0]
                                 ELSE Plus(f[i - 1], games[i].contrib)
          BY Zenon
      <3>1. CASE i = 0
          BY <3>1, <1>6, Zenon DEF Folds, Zero
      <3>2. CASE i # 0
        <4>1. i \in 1..n
            BY <3>2, <1>1
        <4> QED
            BY <4>1, <3>2, <1>8, Zenon
      <3> QED
          BY <3>1, <3>2
    <2>2. f = [i \in 0..n |-> f[i]]
        BY <1>6 DEF Folds
    <2> QED
        BY <2>1, <2>2
  <1>10. Summing(f, games)
      BY <1>9 DEF Summing, n
  <1> DEFINE g == CHOOSE g : Summing(g, games)
  <1>11. Summing(g, games)
      BY <1>10, Zenon
  <1>12. Total(games) = g[n]
      BY DEF Total, Summing, n
  <1> HIDE DEF g
  <1>13. \A i \in 0..n : g[i] = IF i = 0 THEN [q \in Party |-> 0]
                                ELSE Plus(g[i - 1], games[i].contrib)
      BY <1>11 DEF Summing, n
  <1>14. \A i \in 0..n : g[i] = f[i]
    <2>1. g[0] = f[0]
        BY <1>13, <1>6, <1>1 DEF Folds, Zero
    <2>2. \A i \in 1..n : g[i - 1] = f[i - 1] => g[i] = f[i]
        BY <1>13, <1>8, <1>1
    <2> QED
        BY <2>1, <2>2, <1>1, FoldAgrees, ZenonT(40)
  <1>15. g[n] = f[n]
      BY <1>14, <1>1
  <1>16. Sums(f, games)
      BY <1>6, <1>8, Zenon DEF Folds, Sums, n, Q
  <1> QED
      BY <1>12, <1>15, <1>16 DEF n

\* What the running sums are, entry by entry.
LEMMA SumsFields ==
    ASSUME NEW games \in Seq(Games), NEW f, Sums(f, games)
    PROVE  /\ \A i \in 0..Len(games) : f[i] \in [Party -> Nat]
           /\ \A q \in Party : f[0][q] = 0
           /\ \A i \in 1..Len(games) : /\ games[i].contrib \in [Party -> Nat]
                                       /\ \A q \in Party :
                                             f[i][q] = f[i - 1][q] + games[i].contrib[q]
  <1>1. \A i \in 0..Len(games) : f[i] \in [Party -> Nat]
      BY DEF Sums
  <1>2. \A q \in Party : f[0][q] = 0
      BY DEF Sums, Zero
  <1>3. ASSUME NEW i \in 1..Len(games)
        PROVE  /\ games[i].contrib \in [Party -> Nat]
               /\ \A q \in Party : f[i][q] = f[i - 1][q] + games[i].contrib[q]
    <2>1. games[i] \in Games
        OBVIOUS
    <2>2. games[i].contrib \in [Party -> Nat]
        BY <2>1, GameFields
    <2>3. f[i - 1] \in [Party -> Nat]
        BY <1>1
    <2>4. f[i] = Plus(f[i - 1], games[i].contrib)
        BY DEF Sums
    <2>5. \A q \in Party :
              Plus(f[i - 1], games[i].contrib)[q] = f[i - 1][q] + games[i].contrib[q]
        BY <2>2, <2>3, PlusType, Zenon
    <2> QED
        BY <2>2, <2>4, <2>5, Zenon
  <1> QED
      BY <1>1, <1>2, <1>3

\* Every game holds its part of the stakes.
LEMMA TotalType ==
    ASSUME NEW games \in Seq(Games)
    PROVE  Total(games) \in [Party -> Nat]
  <1>1. PICK f : Sums(f, games) /\ Total(games) = f[Len(games)]
      BY TotalOf
  <1>2. Len(games) \in 0..Len(games)
      OBVIOUS
  <1> QED
      BY <1>1, <1>2, SumsFields

LEMMA TotalEmpty == Total(<< >>) = Zero
  <1>1. << >> \in Seq(Games) /\ Len(<< >>) = 0
      OBVIOUS
  <1>2. PICK f : Sums(f, << >>) /\ Total(<< >>) = f[Len(<< >>)]
      BY <1>1, TotalOf
  <1> QED
      BY <1>1, <1>2 DEF Sums

\* Two purses with the same money are equal.
LEMMA SamePurse ==
    ASSUME NEW f \in [Party -> Nat], NEW g \in [Party -> Nat], \A q \in Party : f[q] = g[q]
    PROVE  f = g
    OBVIOUS

\* Stakes depend on the contributions alone.
LEMMA TotalSame ==
    ASSUME NEW games \in Seq(Games), NEW other \in Seq(Games), Len(games) <= Len(other),
           \A i \in 1..Len(games) : games[i].contrib = other[i].contrib,
           NEW f, NEW g, Sums(f, games), Sums(g, other)
    PROVE  \A i \in 0..Len(games) : f[i] = g[i]
  <1>1. f[0] = g[0]
      BY DEF Sums
  <1>2. ASSUME NEW i \in 1..Len(games), f[i - 1] = g[i - 1] PROVE f[i] = g[i]
    <2>1. i \in 1..Len(other)
        OBVIOUS
    <2>2. f[i] = Plus(f[i - 1], games[i].contrib) /\ g[i] = Plus(g[i - 1], other[i].contrib)
        BY <2>1 DEF Sums
    <2> QED
        BY <1>2, <2>2
  <1> DEFINE n == Len(games)
  <1> DEFINE T == {i \in 0..n : f[i] = g[i]}
  <1>3. n \in Nat /\ 0 \in T /\ \A i \in 1..n : i - 1 \in T => i \in T
      BY <1>1, <1>2
  <1> HIDE DEF n, T
  <1>4. \A i \in 0..n : i \in T
      BY <1>3, AlongIndices, Zenon
  <1> QED
      BY <1>4 DEF n, T

LEMMA TotalPlayed ==
    ASSUME NEW games \in Seq(Games), NEW other \in Seq(Games), Len(games) = Len(other),
           \A i \in 1..Len(games) : games[i].contrib = other[i].contrib
    PROVE  Total(games) = Total(other)
  <1>1. PICK f : Sums(f, games) /\ Total(games) = f[Len(games)]
      BY TotalOf
  <1>2. PICK g : Sums(g, other) /\ Total(other) = g[Len(other)]
      BY TotalOf
  <1>3. Len(games) \in 0..Len(games) /\ Len(games) <= Len(other)
      OBVIOUS
  <1> QED
      BY <1>1, <1>2, <1>3, TotalSame

LEMMA TotalAppend ==
    ASSUME NEW games \in Seq(Games), NEW g \in Games
    PROVE  Total(Append(games, g)) = Plus(Total(games), g.contrib)
  <1> DEFINE more == Append(games, g)
  <1>1. /\ more \in Seq(Games) /\ Len(more) = Len(games) + 1
        /\ more[Len(more)] = g /\ \A i \in 1..Len(games) : more[i] = games[i]
      OBVIOUS
  <1>2. Len(games) \in Nat
      OBVIOUS
  <1> HIDE DEF more
  <1>3. PICK f : Sums(f, games) /\ Total(games) = f[Len(games)]
      BY TotalOf
  <1>4. PICK h : Sums(h, more) /\ Total(more) = h[Len(more)]
      BY <1>1, TotalOf
  <1>5. \A i \in 0..Len(games) : f[i] = h[i]
      BY <1>1, <1>2, <1>3, <1>4, TotalSame
  <1>6. h[Len(more)] = Plus(h[Len(more) - 1], g.contrib)
      BY <1>1, <1>2, <1>4 DEF Sums
  <1>7. h[Len(more) - 1] = f[Len(games)]
      BY <1>1, <1>2, <1>5
  <1> QED
      BY <1>3, <1>4, <1>6, <1>7 DEF more

\* The stakes of the game taken out are taken out.
LEMMA TotalRemove ==
    ASSUME NEW games \in Seq(Games), NEW k \in 1..Len(games)
    PROVE  Total(games) = Plus(Total(RemoveAt(games, k)), games[k].contrib)
  <1> DEFINE less == RemoveAt(games, k)
  <1> DEFINE n == Len(games)
  <1>1. /\ less \in Seq(Games) /\ Len(less) = n - 1
        /\ \A i \in 1..(n - 1) : less[i] = IF i < k THEN games[i] ELSE games[i + 1]
      BY RemoveAtType
  <1>2. n \in Nat /\ k \in 1..n /\ k \in Nat
      OBVIOUS
  <1>3. PICK f : Sums(f, games) /\ Total(games) = f[n]
      BY TotalOf
  <1> HIDE DEF less, n
  <1>4. PICK h : Sums(h, less) /\ Total(less) = h[n - 1]
      BY <1>1, TotalOf
  <1>5. /\ \A i \in 0..n : f[i] \in [Party -> Nat]
        /\ \A q \in Party : f[0][q] = 0
        /\ \A i \in 1..n : /\ games[i].contrib \in [Party -> Nat]
                           /\ \A q \in Party : f[i][q] = f[i - 1][q] + games[i].contrib[q]
      BY <1>3, SumsFields DEF n
  <1>6. /\ \A i \in 0..(n - 1) : h[i] \in [Party -> Nat]
        /\ \A q \in Party : h[0][q] = 0
        /\ \A i \in 1..(n - 1) : \A q \in Party : h[i][q] = h[i - 1][q] + less[i].contrib[q]
      BY <1>1, <1>4, SumsFields
  <1> DEFINE Lines(i) == \A q \in Party :
                 IF i < k THEN h[i][q] = f[i][q]
                 ELSE h[i][q] + games[k].contrib[q] = f[i + 1][q]
  <1> DEFINE T == {i \in 0..(n - 1) : Lines(i)}
  <1>7. 0 \in T
      BY <1>2, <1>5, <1>6
  <1>8. ASSUME NEW i \in 1..(n - 1), i - 1 \in T PROVE i \in T
    <2> SUFFICES ASSUME NEW q \in Party
                 PROVE  IF i < k THEN h[i][q] = f[i][q]
                        ELSE h[i][q] + games[k].contrib[q] = f[i + 1][q]
        BY <1>2
    <2>0. /\ i \in 1..n /\ i + 1 \in 1..n /\ i - 1 \in 0..(n - 1) /\ i \in 0..(n - 1)
          /\ i - 1 \in 0..n /\ i \in 0..n /\ i + 1 \in 0..n
          /\ i - 1 + 1 = i /\ i + 1 - 1 = i
        BY <1>2
    <2>1. /\ h[i][q] = h[i - 1][q] + less[i].contrib[q]
          /\ less[i] = IF i < k THEN games[i] ELSE games[i + 1]
        BY <1>1, <1>2, <1>6
    <2>2. IF i - 1 < k THEN h[i - 1][q] = f[i - 1][q]
          ELSE h[i - 1][q] + games[k].contrib[q] = f[i][q]
        BY <1>8, <2>0
    <2>3. /\ f[i][q] = f[i - 1][q] + games[i].contrib[q]
          /\ f[i + 1][q] = f[i][q] + games[i + 1].contrib[q]
      <3>1. PICK j \in 1..n : j = i + 1 /\ j - 1 = i
          BY <2>0
      <3>2. f[j][q] = f[j - 1][q] + games[j].contrib[q]
          BY <1>5, Zenon
      <3>3. f[i][q] = f[i - 1][q] + games[i].contrib[q]
          BY <2>0, <1>5, Zenon
      <3> QED
          BY <3>1, <3>2, <3>3
    <2>4. /\ games[i].contrib[q] \in Nat /\ games[i + 1].contrib[q] \in Nat
          /\ games[k].contrib[q] \in Nat /\ h[i - 1][q] \in Nat /\ h[i][q] \in Nat
          /\ f[i - 1][q] \in Nat /\ f[i][q] \in Nat /\ f[i + 1][q] \in Nat
      <3>1. \A c \in [Party -> Nat] : c[q] \in Nat
          OBVIOUS
      <3> QED
          BY <3>1, <2>0, <1>2, <1>5, <1>6, Zenon
    <2>5. CASE i < k
        BY <2>5, <2>1, <2>2, <2>3, <2>4, <1>2
    <2>6. CASE i = k
        BY <2>6, <2>1, <2>2, <2>3, <2>4, <1>2, SMTT(40)
    <2>7. CASE i > k
      <3>1. ~(i < k) /\ ~(i - 1 < k)
          BY <2>7, <1>2
      <3>2. /\ h[i][q] = h[i - 1][q] + games[i + 1].contrib[q]
            /\ h[i - 1][q] + games[k].contrib[q] = f[i][q]
          BY <3>1, <2>1, <2>2
      <3>3. h[i][q] + games[k].contrib[q] = f[i + 1][q]
        <4>1. PICK b \in Nat : b = h[i - 1][q]
            BY <2>4
        <4>2. PICK c \in Nat : c = games[i + 1].contrib[q]
            BY <2>4
        <4>3. PICK d \in Nat : d = games[k].contrib[q]
            BY <2>4
        <4>4. h[i][q] = b + c /\ f[i][q] = b + d /\ f[i + 1][q] = f[i][q] + c
            BY <4>1, <4>2, <4>3, <3>2, <2>3
        <4>5. (b + c) + d = (b + d) + c
            OBVIOUS
        <4> QED
            BY <4>3, <4>4, <4>5
      <3> QED
          BY <3>1, <3>3
    <2> QED
        BY <2>5, <2>6, <2>7, <1>2
  <1>9. n - 1 \in Nat /\ n - 1 \in 0..(n - 1)
      BY <1>2
  <1>10. n - 1 \in T
    <2> HIDE DEF T
    <2> QED
        BY <1>7, <1>8, <1>9, AlongIndices
  <1>11. Total(less) \in [Party -> Nat] /\ games[k].contrib \in [Party -> Nat]
      BY <1>1, <1>2, <1>5, TotalType
  <1>12. Plus(Total(less), games[k].contrib) \in [Party -> Nat]
      BY <1>11, PlusType
  <1>13. Total(games) \in [Party -> Nat]
      BY TotalType
  <1>14. ASSUME NEW q \in Party
         PROVE  Total(games)[q] = Plus(Total(less), games[k].contrib)[q]
    <2>1. Plus(Total(less), games[k].contrib)[q] = h[n - 1][q] + games[k].contrib[q]
      <3>1. Plus(Total(less), games[k].contrib)[q] = Total(less)[q] + games[k].contrib[q]
          BY <1>11, PlusType, Zenon
      <3> QED
          BY <3>1, <1>4
    <2>2. IF n - 1 < k THEN h[n - 1][q] = f[n - 1][q]
          ELSE h[n - 1][q] + games[k].contrib[q] = f[n][q]
      <3>1. n - 1 + 1 = n
          BY <1>2
      <3> QED
          BY <1>10, <3>1
    <2>3. f[n][q] = f[n - 1][q] + games[n].contrib[q]
        BY <1>2, <1>5
    <2>4. CASE n - 1 < k
      <3>1. k = n
          BY <2>4, <1>2
      <3> QED
          BY <3>1, <2>1, <2>2, <2>3, <2>4, <1>3
    <2>5. CASE ~(n - 1 < k)
        BY <2>1, <2>2, <2>3, <2>5, <1>3
    <2> QED
        BY <2>4, <2>5
  <1>15. Total(games) = Plus(Total(less), games[k].contrib)
      BY <1>12, <1>13, <1>14, SamePurse
  <1> QED
      BY <1>15 DEF less

LEMMA OtherParty ==
    ASSUME NEW p \in Party
    PROVE  Other(p) \in Party /\ Other(p) # p /\ Other(Other(p)) = p
           /\ \A q \in Party : q = p \/ q = Other(p)
    BY DEF Other, Party

LEMMA GameStartType ==
    ASSUME NEW t \in GameTypes, NEW i \in DOMAIN Factory[t], NEW id \in Nat,
           NEW group \in Nat, NEW sender \in Party
    PROVE  GameStart(t, i, id, group, sender) \in Games
           /\ GameStart(t, i, id, group, sender).id = id
  <1> DEFINE f == Factory[t][i]
  <1>1. /\ f.sender \in Nat /\ f.receiver \in Nat /\ f.mover_share \in Nat
        /\ f.mover_share <= f.sender + f.receiver
    <2>1. f \in FactoryGames
        BY FactoryAssumption
    <2> HIDE DEF f
    <2> QED
        BY <2>1 DEF FactoryGames
  <1> DEFINE c == [q \in Party |-> IF q = sender THEN f.sender ELSE f.receiver]
  <1> DEFINE u == IF f.sender_goes_first THEN sender ELSE Other(sender)
  <1>2. GameStart(t, i, id, group, sender) =
            [id |-> id, group |-> group, contrib |-> c, turn |-> u,
             share |-> f.mover_share, moves |-> 0, over |-> FALSE]
      BY DEF GameStart
  <1>3. u \in Party
      BY OtherParty
  <1>4. c \in [Party -> Nat] /\ c["alice"] + c["bob"] = f.sender + f.receiver
      BY <1>1 DEF Party
  <1> HIDE DEF f, c, u
  <1> DEFINE g == [id |-> id, group |-> group, contrib |-> c, turn |-> u,
                   share |-> f.mover_share, moves |-> 0, over |-> FALSE]
  <1>5. g \in [id : Nat, group : Nat, contrib : [Party -> Nat], turn : Party,
               share : Nat, moves : Nat, over : BOOLEAN]
      BY <1>1, <1>3, <1>4
  <1>6. g.share <= Amount(g)
      BY <1>1, <1>4 DEF Amount
  <1>7. g.id = id
      OBVIOUS
  <1> QED
      BY <1>2, <1>5, <1>6, <1>7 DEF Games

\* The games of a group, as its sender and its receiver make them.
LEMMA MembersType ==
    ASSUME NEW a \in ProposeGroups, NEW p \in Party
    PROVE  /\ Members(a.t, a.ids, p) \in Seq(Games)
           /\ Len(Members(a.t, a.ids, p)) = Len(a.ids) /\ Len(a.ids) # 0
           /\ \A i \in 1..Len(a.ids) : Members(a.t, a.ids, p)[i].id = a.ids[i]
  <1>1. a.t \in GameTypes /\ a.ids \in Seq(Nat) /\ Len(a.ids) = Len(Factory[a.t])
      BY DEF ProposeGroups
  <1>2. PICK t : t = a.t
      OBVIOUS
  <1>3. PICK ids : ids = a.ids
      OBVIOUS
  <1>4. t \in GameTypes /\ ids \in Seq(Nat) /\ Len(ids) = Len(Factory[t])
      BY <1>1, <1>2, <1>3
  <1>5. DOMAIN Factory[t] = 1..Len(ids) /\ Len(ids) \in Nat \ {0}
      BY <1>4, FactoryAssumption
  <1>6. DOMAIN ids = 1..Len(ids) /\ \A i \in 1..Len(ids) : ids[i] \in Nat
      BY <1>4
  <1>7. 1 \in 1..Len(ids)
      BY <1>5
  <1>8. \A i \in 1..Len(ids) : /\ GameStart(t, i, ids[i], ids[1], p) \in Games
                               /\ GameStart(t, i, ids[i], ids[1], p).id = ids[i]
    <2> SUFFICES ASSUME NEW i \in 1..Len(ids)
                 PROVE  /\ GameStart(t, i, ids[i], ids[1], p) \in Games
                        /\ GameStart(t, i, ids[i], ids[1], p).id = ids[i]
        BY Zenon
    <2>1. i \in DOMAIN Factory[t] /\ ids[i] \in Nat /\ ids[1] \in Nat
        BY <1>5, <1>6, <1>7, Zenon
    <2> QED
        BY <2>1, <1>4, GameStartType, Zenon
  <1>9. Members(t, ids, p) = [i \in 1..Len(ids) |-> GameStart(t, i, ids[i], ids[1], p)]
      BY <1>6 DEF Members
  <1> QED
      BY <1>2, <1>3, <1>5, <1>8, <1>9

LEMMA AdvanceType ==
    ASSUME NEW g \in Games, NEW mv \in Moves
    PROVE  Advance(g, mv) \in Games /\ Advance(g, mv).contrib = g.contrib
  <1> DEFINE sh == IF mv.give THEN Amount(g) ELSE 0
  <1> DEFINE u == Other(g.turn)
  <1> DEFINE m == g.moves + 1
  <1> DEFINE o == mv.final
  <1>1. sh \in Nat /\ sh <= Amount(g) /\ u \in Party /\ m \in Nat
      BY GameFields, OtherParty
  <1>2. o \in BOOLEAN
      BY MovesAssumption
  <1>3. Advance(g, mv) = [g EXCEPT !.turn = u, !.share = sh, !.moves = m, !.over = o]
      BY DEF Advance
  <1> HIDE DEF sh, u, m, o
  <1> DEFINE h == [g EXCEPT !.turn = u, !.share = sh, !.moves = m, !.over = o]
  <1>4. h \in [id : Nat, group : Nat, contrib : [Party -> Nat], turn : Party,
               share : Nat, moves : Nat, over : BOOLEAN] /\ h.contrib = g.contrib
        /\ h.share = sh
      BY <1>1, <1>2 DEF Games
  <1>5. Amount(h) = Amount(g)
      BY <1>4 DEF Amount
  <1> HIDE DEF h
  <1>6. h \in Games
      BY <1>4, <1>5, <1>1 DEF Games
  <1> QED
      BY <1>3, <1>4, <1>6 DEF h

\* The shares of a game divide its pot.
LEMMA SharesType ==
    ASSUME NEW g \in Games
    PROVE  /\ Shares(g) \in [Party -> Nat]
           /\ Pool(Shares(g)) = Pool(g.contrib)
           /\ \A p \in Party : CurrentShare(g, p) \in Nat
  <1>1. /\ g.share \in Nat /\ Amount(g) \in Nat /\ g.share <= Amount(g)
        /\ g.turn \in Party /\ g.contrib \in [Party -> Nat]
      BY GameFields
  <1>2. \A p \in Party : CurrentShare(g, p) \in Nat
      BY <1>1 DEF CurrentShare
  <1>3. CurrentShare(g, "alice") + CurrentShare(g, "bob") = Amount(g)
      BY <1>1 DEF CurrentShare, Party
  <1>4. Shares(g) \in [Party -> Nat]
      BY <1>2 DEF Shares
  <1>5. Shares(g)["alice"] = CurrentShare(g, "alice")
        /\ Shares(g)["bob"] = CurrentShare(g, "bob")
      BY DEF Shares, Party
  <1> QED
      BY <1>2, <1>3, <1>4, <1>5 DEF Pool, Amount

LEMMA IndexType ==
    ASSUME NEW games \in Seq(Games), NEW id \in Ids(games)
    PROVE  /\ Index(games, id) \in 1..Len(games)
           /\ Find(games, id) \in Games
           /\ Find(games, id) = games[Index(games, id)]
           /\ Find(games, id).id = id
           /\ id \in Nat
  <1>1. PICK i \in DOMAIN games : games[i].id = id
      BY DEF Ids
  <1>2. Index(games, id) \in DOMAIN games /\ games[Index(games, id)].id = id
      BY <1>1, Zenon DEF Index
  <1>3. games[Index(games, id)] \in Games
      BY <1>2
  <1> QED
      BY <1>2, <1>3, GameFields DEF Find

-----------------------------------------------------------------------------
(***************************************************************************)
(* The operations of ChannelState.                                         *)
(***************************************************************************)

LEMMA ChannelFields ==
    ASSUME NEW ch \in Channels
    PROVE  /\ ch.me \in Party /\ ch.bal \in [Party -> Nat] /\ ch.alloc \in [Party -> Nat]
           /\ ch.have_potato \in BOOLEAN /\ ch.redo \in Seq(Redos) /\ ch.sn \in Nat
           /\ ch.my_nonce \in Nat /\ ch.their_nonce \in Nat /\ ch.sent \in States
           /\ ch.received \in States /\ ch.known \in SUBSET States
           /\ ch.live \in Seq(Games) /\ ch.pending \in SUBSET Nat
           /\ ch.proposed \in Seq(Games)
    BY DEF Channels

\* The states on record, their numbers and the potato are as they were.
Control(c, d) ==
    /\ d.me = c.me /\ d.sn = c.sn /\ d.my_nonce = c.my_nonce
    /\ d.sent = c.sent /\ d.received = c.received /\ d.known = c.known
    /\ d.have_potato = c.have_potato

\* An operation inside a batch.
Keeps(c, d) == d \in Channels /\ LedgerInv(d) /\ Control(c, d)

LEMMA KeepsRecord ==
    ASSUME NEW c, NEW d, RecordInv(c), Control(c, d)
    PROVE  RecordInv(d)
    BY DEF Control, RecordInv

LEMMA ProposedKeeps ==
    ASSUME NEW ch \in Channels, LedgerInv(ch), NEW ps \in Seq(Games), NEW n \in Nat
    PROVE  LET d == [ch EXCEPT !.proposed = ps]
               e == [ch EXCEPT !.their_nonce = n, !.proposed = ps]
           IN /\ Keeps(ch, d) /\ d.proposed = ps /\ d.live = ch.live /\ d.bal = ch.bal
              /\ Keeps(ch, e) /\ e.proposed = ps /\ e.live = ch.live /\ e.bal = ch.bal
  <1> DEFINE d == [ch EXCEPT !.proposed = ps]
  <1> DEFINE e == [ch EXCEPT !.their_nonce = n, !.proposed = ps]
  <1>1. /\ d \in Channels /\ Control(ch, d) /\ d.proposed = ps
        /\ d.live = ch.live /\ d.bal = ch.bal /\ d.alloc = ch.alloc
      BY DEF Channels, Control
  <1>2. /\ e \in Channels /\ Control(ch, e) /\ e.proposed = ps
        /\ e.live = ch.live /\ e.bal = ch.bal /\ e.alloc = ch.alloc
      BY DEF Channels, Control
  <1> HIDE DEF d, e
  <1>3. LedgerInv(d) /\ LedgerInv(e)
      BY <1>1, <1>2 DEF LedgerInv
  <1> QED
      BY <1>1, <1>2, <1>3 DEF d, e, Keeps

LEMMA RedoKeeps ==
    ASSUME NEW ch \in Channels, LedgerInv(ch), NEW r \in Seq(Redos)
    PROVE  LET d == [ch EXCEPT !.redo = r]
           IN  /\ Keeps(ch, d) /\ d.redo = r /\ d.proposed = ch.proposed
               /\ d.live = ch.live /\ d.bal = ch.bal
  <1> DEFINE d == [ch EXCEPT !.redo = r]
  <1>1. /\ d \in Channels /\ Control(ch, d) /\ d.redo = r /\ d.proposed = ch.proposed
        /\ d.live = ch.live /\ d.bal = ch.bal /\ d.alloc = ch.alloc
      BY DEF Channels, Control
  <1> HIDE DEF d
  <1>2. LedgerInv(d)
      BY <1>1 DEF LedgerInv
  <1> QED
      BY <1>1, <1>2 DEF d, Keeps

LEMMA KeepsTrans ==
    ASSUME NEW c, NEW d, NEW e, Keeps(c, d), Keeps(d, e)
    PROVE  Keeps(c, e)
    BY DEF Keeps, Control

LEMMA WithoutType ==
    ASSUME NEW games \in Seq(Games), NEW id \in Ids(games)
    PROVE  /\ Without(games, id) \in Seq(Games)
           /\ Total(games) = Plus(Total(Without(games, id)), Find(games, id).contrib)
           /\ \A i \in DOMAIN Without(games, id) :
                 \E j \in DOMAIN games : Without(games, id)[i] = games[j]
  <1> DEFINE k == Index(games, id)
  <1>1. k \in 1..Len(games) /\ Find(games, id) = games[k]
      BY IndexType
  <1>2. Without(games, id) = RemoveAt(games, k)
      BY DEF Without
  <1> HIDE DEF k
  <1> DEFINE less == RemoveAt(games, k)
  <1>3. /\ less \in Seq(Games) /\ Len(less) = Len(games) - 1
        /\ \A i \in 1..(Len(games) - 1) : less[i] = IF i < k THEN games[i] ELSE games[i + 1]
      BY <1>1, RemoveAtType
  <1>4. Total(games) = Plus(Total(less), games[k].contrib)
      BY <1>1, TotalRemove
  <1> HIDE DEF less
  <1>5. ASSUME NEW i \in DOMAIN less PROVE \E j \in DOMAIN games : less[i] = games[j]
    <2>1. i \in 1..(Len(games) - 1) /\ Len(games) \in Nat
        BY <1>3
    <2>2. i \in DOMAIN games /\ i + 1 \in DOMAIN games
        BY <2>1
    <2> QED
        BY <1>3, <2>1, <2>2
  <1> QED
      BY <1>1, <1>2, <1>3, <1>4, <1>5 DEF less

\* Money moves between balances and games and stays in the pool.
Purses(T) == T \subseteq [Party -> Nat]

Staked(f, a, c, b, d) ==
    Purses({f, a, c, b, d}) /\ \A q \in Party : b[q] = f[q] - c[q] /\ d[q] = a[q] + c[q]

Settled(f, a, c, s, b, d) ==
    /\ Purses({f, a, c, s, b, d}) /\ Pool(s) = Pool(c)
    /\ \A q \in Party : b[q] = f[q] + s[q] /\ a[q] = d[q] + c[q]

LEMMA PoolStaked ==
    ASSUME NEW f, NEW a, NEW c, NEW b, NEW d, Staked(f, a, c, b, d)
    PROVE  Pool(b) + Pool(d) = Pool(f) + Pool(a)
  <1> USE DEF Staked, Purses
  <1>1. \A q \in Party : f[q] \in Nat /\ a[q] \in Nat /\ c[q] \in Nat
      OBVIOUS
  <1> QED
      BY <1>1 DEF Pool, Party

LEMMA PoolSettled ==
    ASSUME NEW f, NEW a, NEW c, NEW s, NEW b, NEW d, Settled(f, a, c, s, b, d)
    PROVE  Pool(b) + Pool(d) = Pool(f) + Pool(a)
  <1> USE DEF Settled, Purses
  <1>1. \A q \in Party : f[q] \in Nat /\ d[q] \in Nat /\ c[q] \in Nat /\ s[q] \in Nat
      OBVIOUS
  <1> QED
      BY <1>1 DEF Pool, Party

\* accept_proposal_inner: the stakes move from the balances to the games.
LEMMA AcceptKeeps ==
    ASSUME NEW ch \in Channels, LedgerInv(ch), NEW id \in Ids(ch.proposed),
           Covers(ch.bal, Find(ch.proposed, id).contrib)
    PROVE  Keeps(ch, AcceptProposalInner(ch, id))
  <1> DEFINE g == Find(ch.proposed, id)
  <1> DEFINE ps == Without(ch.proposed, id)
  <1> DEFINE b == Minus(ch.bal, g.contrib)
  <1> DEFINE al == Plus(ch.alloc, g.contrib)
  <1> DEFINE lv == Append(ch.live, g)
  <1>1. ch.proposed \in Seq(Games) /\ ch.live \in Seq(Games)
        /\ ch.bal \in [Party -> Nat] /\ ch.alloc \in [Party -> Nat]
      BY ChannelFields
  <1>2. g \in Games /\ ps \in Seq(Games)
      BY <1>1, IndexType, WithoutType
  <1>3. AcceptProposalInner(ch, id) =
            [ch EXCEPT !.proposed = ps, !.bal = b, !.alloc = al, !.live = lv]
      BY DEF AcceptProposalInner
  <1>4. Covers(ch.bal, g.contrib)
      OBVIOUS
  <1> HIDE DEF g, ps
  <1>5. g.contrib \in [Party -> Nat]
      BY <1>2, GameFields
  <1>6. lv \in Seq(Games) /\ Total(lv) = Plus(Total(ch.live), g.contrib)
      BY <1>1, <1>2, TotalAppend
  <1>7. al \in [Party -> Nat] /\ \A q \in Party : al[q] = ch.alloc[q] + g.contrib[q]
      BY <1>1, <1>5, PlusType
  <1>8. b \in [Party -> Nat] /\ \A q \in Party : b[q] = ch.bal[q] - g.contrib[q]
    <2>1. \A q \in Party : ch.bal[q] \in Nat /\ g.contrib[q] \in Nat /\ g.contrib[q] <= ch.bal[q]
        BY <1>1, <1>4, <1>5 DEF Covers
    <2>2. b = [q \in Party |-> ch.bal[q] - g.contrib[q]]
        BY DEF Minus
    <2> HIDE DEF b
    <2>3. \A q \in Party : ch.bal[q] - g.contrib[q] \in Nat
        BY <2>1
    <2> QED
        BY <2>2, <2>3
  <1> HIDE DEF b, al, lv
  <1>9. Pool(b) + Pool(al) = Pool(ch.bal) + Pool(ch.alloc)
    <2>1. \A q \in Party : b[q] = ch.bal[q] - g.contrib[q] /\ al[q] = ch.alloc[q] + g.contrib[q]
        BY <1>7, <1>8
    <2>2. Staked(ch.bal, ch.alloc, g.contrib, b, al)
        BY <2>1, <1>1, <1>5, <1>7, <1>8 DEF Staked, Purses
    <2> QED
        BY <2>2, PoolStaked
  <1> DEFINE d == [ch EXCEPT !.proposed = ps, !.bal = b, !.alloc = al, !.live = lv]
  <1>10. d \in Channels /\ Control(ch, d) /\ d.alloc = al /\ d.bal = b /\ d.live = lv
      BY <1>2, <1>6, <1>7, <1>8 DEF Channels, Control
  <1> HIDE DEF d
  <1>11. LedgerInv(d)
    <2>1. al = Total(lv)
        BY <1>6 DEF LedgerInv, al
    <2> QED
        BY <2>1, <1>9, <1>10 DEF LedgerInv
  <1> QED
      BY <1>3, <1>10, <1>11 DEF d, Keeps

\* One entry is put at the end of a sequence of a kind.
LEMMA AppendType ==
    ASSUME NEW S, NEW s \in Seq(S), NEW e \in S
    PROVE  /\ Append(s, e) \in Seq(S) /\ Len(Append(s, e)) = Len(s) + 1
           /\ Append(s, e)[Len(s) + 1] = e
           /\ \A i \in 1..Len(s) : Append(s, e)[i] = s[i]
    OBVIOUS

\* send_accept_proposal
LEMMA SendAcceptKeeps ==
    ASSUME NEW ch \in Channels, LedgerInv(ch), NEW id \in Ids(ch.proposed),
           Covers(ch.bal, Find(ch.proposed, id).contrib)
    PROVE  Keeps(ch, SendAcceptProposal(ch, id))
  <1> DEFINE d == AcceptProposalInner(ch, id)
  <1> DEFINE e == [k |-> "ProposalAccepted", id |-> id]
  <1> DEFINE r == Append(d.redo, e)
  <1>1. Keeps(ch, d)
      BY AcceptKeeps
  <1>2. id \in Nat
      BY IndexType, ChannelFields
  <1>3. e \in Redos
      BY <1>2 DEF Redos
  <1>4. SendAcceptProposal(ch, id) = [d EXCEPT !.redo = r]
      BY DEF SendAcceptProposal
  <1> HIDE DEF d, e
  <1>5. r \in Seq(Redos)
    <2>1. d.redo \in Seq(Redos)
        BY <1>1, ChannelFields DEF Keeps
    <2> QED
        BY <2>1, <1>3, AppendType
  <1> HIDE DEF r
  <1>6. Keeps(d, [d EXCEPT !.redo = r])
      BY <1>1, <1>5, RedoKeeps DEF Keeps
  <1> QED
      BY <1>1, <1>4, <1>6, KeepsTrans

\* send_cancel_proposal, received_cancel_proposal, cancel_all_proposals
LEMMA RemoveKeeps ==
    ASSUME NEW ch \in Channels, LedgerInv(ch), NEW id \in Ids(ch.proposed)
    PROVE  LET d == RemoveProposal(ch, id)
           IN  /\ Keeps(ch, d) /\ d.live = ch.live /\ d.bal = ch.bal
               /\ \A i \in DOMAIN d.proposed :
                     \E j \in DOMAIN ch.proposed : d.proposed[i] = ch.proposed[j]
  <1> DEFINE ps == Without(ch.proposed, id)
  <1>1. /\ ps \in Seq(Games)
        /\ \A i \in DOMAIN ps : \E j \in DOMAIN ch.proposed : ps[i] = ch.proposed[j]
      BY ChannelFields, WithoutType
  <1>2. RemoveProposal(ch, id) = [ch EXCEPT !.proposed = ps]
      BY DEF RemoveProposal
  <1> HIDE DEF ps
  <1>3. LET d == [ch EXCEPT !.proposed = ps]
        IN  Keeps(ch, d) /\ d.proposed = ps /\ d.live = ch.live /\ d.bal = ch.bal
      BY <1>1, ProposedKeeps
  <1> QED
      BY <1>1, <1>2, <1>3

LEMMA CancelAllKeeps ==
    ASSUME NEW ch \in Channels, LedgerInv(ch)
    PROVE  LET d == CancelAllProposals(ch)
           IN  Keeps(ch, d) /\ d.live = ch.live /\ d.bal = ch.bal /\ d.proposed = << >>
  <1>1. << >> \in Seq(Games)
      OBVIOUS
  <1> QED
      BY <1>1, ProposedKeeps DEF CancelAllProposals

\* A move changes neither the stakes nor the balances.
LEMMA PlayedType ==
    ASSUME NEW games \in Seq(Games), NEW id \in Ids(games), NEW mv \in Moves
    PROVE  Played(games, id, mv) \in Seq(Games) /\ Total(Played(games, id, mv)) = Total(games)
  <1> DEFINE k == Index(games, id)
  <1>1. k \in 1..Len(games)
      BY IndexType
  <1> DEFINE g == games[k]
  <1> DEFINE h == Advance(g, mv)
  <1> DEFINE after == [games EXCEPT ![k] = h]
  <1>2. g \in Games
      BY <1>1
  <1>3. h \in Games /\ h.contrib = g.contrib
      BY <1>2, AdvanceType
  <1>4. Played(games, id, mv) = after
      BY DEF Played
  <1> HIDE DEF k, h
  <1>5. after \in Seq(Games) /\ Len(after) = Len(games)
        /\ \A i \in 1..Len(games) : after[i] = IF i = k THEN h ELSE games[i]
      BY <1>1, <1>3
  <1>6. \A i \in 1..Len(games) : after[i].contrib = games[i].contrib
      BY <1>3, <1>5
  <1> HIDE DEF after
  <1>7. Total(after) = Total(games)
      BY <1>5, <1>6, TotalPlayed
  <1> QED
      BY <1>4, <1>5, <1>7

LEMMA LiveKeeps ==
    ASSUME NEW ch \in Channels, LedgerInv(ch), NEW lv \in Seq(Games), Total(lv) = Total(ch.live),
           NEW r \in Seq(Redos)
    PROVE  /\ Keeps(ch, [ch EXCEPT !.live = lv])
           /\ Keeps(ch, [ch EXCEPT !.live = lv, !.redo = r])
           /\ [ch EXCEPT !.live = lv].live = lv
  <1> DEFINE d == [ch EXCEPT !.live = lv]
  <1> DEFINE e == [ch EXCEPT !.live = lv, !.redo = r]
  <1>1. /\ d \in Channels /\ Control(ch, d) /\ d.live = lv /\ d.bal = ch.bal
        /\ d.alloc = ch.alloc
      BY DEF Channels, Control
  <1>2. /\ e \in Channels /\ Control(ch, e) /\ e.live = lv /\ e.bal = ch.bal
        /\ e.alloc = ch.alloc
      BY DEF Channels, Control
  <1> HIDE DEF d, e
  <1>3. LedgerInv(d) /\ LedgerInv(e)
      BY <1>1, <1>2 DEF LedgerInv
  <1> QED
      BY <1>1, <1>2, <1>3 DEF d, e, Keeps

LEMMA MoveKeeps ==
    ASSUME NEW ch \in Channels, LedgerInv(ch), NEW id \in Ids(ch.live), NEW mv \in Moves
    PROVE  Keeps(ch, SendMove(ch, id, mv)) /\ Keeps(ch, ApplyReceivedMove(ch, id, mv))
  <1> DEFINE lv == Played(ch.live, id, mv)
  <1> DEFINE e == [k |-> "CachedSendMove", id |-> id]
  <1> DEFINE r == Append(ch.redo, e)
  <1>1. ch.live \in Seq(Games) /\ ch.redo \in Seq(Redos)
      BY ChannelFields
  <1>2. lv \in Seq(Games) /\ Total(lv) = Total(ch.live)
      BY <1>1, PlayedType
  <1>3. e \in Redos
      BY <1>1, IndexType DEF Redos
  <1>4. /\ SendMove(ch, id, mv) = [ch EXCEPT !.live = lv, !.redo = r]
        /\ ApplyReceivedMove(ch, id, mv) = [ch EXCEPT !.live = lv]
      BY DEF SendMove, ApplyReceivedMove
  <1> HIDE DEF lv, e
  <1>5. r \in Seq(Redos)
      BY <1>1, <1>3, AppendType
  <1> HIDE DEF r
  <1> QED
    <2>1. Keeps(ch, [ch EXCEPT !.live = lv]) /\ Keeps(ch, [ch EXCEPT !.live = lv, !.redo = r])
        BY <1>2, <1>5, LiveKeeps, Zenon
    <2> QED
        BY <2>1, <1>4

\* A settled game gives its stakes back, as the shares of its last move.
LEMMA SettleKeeps ==
    ASSUME NEW ch \in Channels, LedgerInv(ch), NEW id \in Ids(ch.live)
    PROVE  Keeps(ch, Settle(ch, id))
  <1> DEFINE g == Find(ch.live, id)
  <1> DEFINE lv == Without(ch.live, id)
  <1> DEFINE al == Minus(ch.alloc, g.contrib)
  <1> DEFINE b == Plus(ch.bal, Shares(g))
  <1> DEFINE pd == ch.pending \cup {id}
  <1>1. ch.live \in Seq(Games) /\ ch.bal \in [Party -> Nat] /\ ch.alloc \in [Party -> Nat]
        /\ ch.pending \in SUBSET Nat
      BY ChannelFields
  <1>2. /\ g \in Games /\ lv \in Seq(Games) /\ id \in Nat
        /\ Total(ch.live) = Plus(Total(lv), g.contrib)
      BY <1>1, IndexType, WithoutType
  <1>3. Settle(ch, id) =
            [ch EXCEPT !.live = lv, !.alloc = al, !.bal = b, !.pending = pd]
      BY DEF Settle
  <1>4. pd \in SUBSET Nat
      BY <1>1, <1>2
  <1> HIDE DEF g, lv, pd
  <1>5. /\ g.contrib \in [Party -> Nat] /\ Shares(g) \in [Party -> Nat]
        /\ Pool(Shares(g)) = Pool(g.contrib)
      BY <1>2, GameFields, SharesType
  <1>6. b \in [Party -> Nat] /\ \A q \in Party : b[q] = ch.bal[q] + Shares(g)[q]
      BY <1>1, <1>5, PlusType
  <1>7. Total(lv) \in [Party -> Nat]
      BY <1>2, TotalType
  <1>8. \A q \in Party : ch.alloc[q] = Total(lv)[q] + g.contrib[q]
    <2>1. ch.alloc = Plus(Total(lv), g.contrib)
        BY <1>2 DEF LedgerInv
    <2> QED
        BY <2>1, <1>5, <1>7, PlusType
  <1>9. al = Total(lv)
    <2>1. al = [q \in Party |-> ch.alloc[q] - g.contrib[q]]
        BY DEF Minus
    <2> HIDE DEF al
    <2>2. \A q \in Party : Total(lv)[q] \in Nat /\ g.contrib[q] \in Nat
        BY <1>5, <1>7
    <2>3. \A q \in Party : ch.alloc[q] - g.contrib[q] = Total(lv)[q]
        BY <2>2, <1>8
    <2>4. al = [q \in Party |-> Total(lv)[q]]
        BY <2>1, <2>3
    <2> QED
        BY <2>4, <1>7
  <1> HIDE DEF al, b
  <1>10. Pool(b) + Pool(al) = Pool(ch.bal) + Pool(ch.alloc)
    <2> DEFINE sh == Shares(g)
    <2> DEFINE t == Total(lv)
    <2>1. \A q \in Party : b[q] = ch.bal[q] + sh[q] /\ ch.alloc[q] = t[q] + g.contrib[q]
        BY <1>6, <1>8
    <2>2. sh \in [Party -> Nat] /\ t \in [Party -> Nat] /\ Pool(sh) = Pool(g.contrib)
        BY <1>5, <1>7
    <2> HIDE DEF sh, t
    <2>3. Pool(b) + Pool(t) = Pool(ch.bal) + Pool(ch.alloc)
      <3>1. Settled(ch.bal, ch.alloc, g.contrib, sh, b, t)
          BY <2>1, <2>2, <1>1, <1>5, <1>6 DEF Settled, Purses
      <3> QED
          BY <3>1, PoolSettled
    <2> QED
        BY <2>3, <1>9 DEF t
  <1> DEFINE d == [ch EXCEPT !.live = lv, !.alloc = al, !.bal = b, !.pending = pd]
  <1>11. d \in Channels /\ Control(ch, d) /\ d.alloc = al /\ d.bal = b /\ d.live = lv
      BY <1>2, <1>4, <1>6, <1>7, <1>9 DEF Channels, Control
  <1> HIDE DEF d
  <1>12. LedgerInv(d)
      BY <1>9, <1>10, <1>11 DEF LedgerInv
  <1> QED
      BY <1>3, <1>11, <1>12 DEF d, Keeps

LEMMA SendSettleKeeps ==
    ASSUME NEW ch \in Channels, LedgerInv(ch), NEW id \in Ids(ch.live)
    PROVE  Keeps(ch, SendAcceptSettlement(ch, id))
  <1> DEFINE g == Find(ch.live, id)
  <1> DEFINE d == Settle(ch, id)
  <1> DEFINE e == [k |-> "CachedAcceptSettlement", id |-> id,
                   amt |-> CurrentShare(g, ch.me), pot |-> Amount(g)]
  <1> DEFINE r == Append(d.redo, e)
  <1>1. Keeps(ch, d)
      BY SettleKeeps
  <1>2. g \in Games /\ id \in Nat /\ ch.me \in Party
      BY IndexType, ChannelFields
  <1>3. SendAcceptSettlement(ch, id) = [d EXCEPT !.redo = r]
      BY DEF SendAcceptSettlement
  <1> HIDE DEF g, d
  <1>4. e \in Redos
    <2>1. CurrentShare(g, ch.me) \in Nat /\ Amount(g) \in Nat
        BY <1>2, SharesType, GameFields
    <2> QED
        BY <1>2, <2>1 DEF Redos
  <1> HIDE DEF e
  <1>5. r \in Seq(Redos)
    <2>1. d.redo \in Seq(Redos)
        BY <1>1, ChannelFields DEF Keeps
    <2> QED
        BY <2>1, <1>4, AppendType
  <1> HIDE DEF r
  <1>6. Keeps(d, [d EXCEPT !.redo = r])
      BY <1>1, <1>5, RedoKeeps DEF Keeps
  <1> QED
      BY <1>1, <1>3, <1>6, KeepsTrans

\* send_propose_game and apply_received_proposal, for the games of a group.
LEMMA ProposeKeeps ==
    ASSUME NEW ch \in Channels, LedgerInv(ch), NEW games \in Seq(Games), games # << >>
    PROVE  LET d == SendProposeGames(ch, games)
           IN  /\ Keeps(ch, d) /\ d.live = ch.live /\ d.bal = ch.bal
               /\ d.proposed = ch.proposed \o games
               /\ Keeps(ch, ApplyReceivedProposals(ch, games))
  <1> DEFINE ps == ch.proposed \o games
  <1> DEFINE n == games[Len(games)].id + 2
  <1>1. ch.proposed \in Seq(Games)
      BY ChannelFields
  <1>2. ps \in Seq(Games)
      BY <1>1, ConcatType
  <1>3. n \in Nat
    <2>1. Len(games) \in 1..Len(games)
        OBVIOUS
    <2>2. games[Len(games)] \in Games
        BY <2>1
    <2>3. games[Len(games)].id \in Nat
        BY <2>2, GameFields
    <2> QED
        BY <2>3
  <1>4. /\ SendProposeGames(ch, games) = [ch EXCEPT !.proposed = ps]
        /\ ApplyReceivedProposals(ch, games) = [ch EXCEPT !.their_nonce = n, !.proposed = ps]
      BY DEF SendProposeGames, ApplyReceivedProposals
  <1> HIDE DEF ps, n
  <1>5. LET d == [ch EXCEPT !.proposed = ps]
            e == [ch EXCEPT !.their_nonce = n, !.proposed = ps]
        IN /\ Keeps(ch, d) /\ d.proposed = ps /\ d.live = ch.live /\ d.bal = ch.bal
           /\ Keeps(ch, e)
      BY <1>2, <1>3, ProposedKeeps
  <1> QED
      BY <1>4, <1>5 DEF ps

\* drain_cached_accept_settlements
LEMMA DrainCachedKeeps ==
    ASSUME NEW ch \in Channels, LedgerInv(ch)
    PROVE  LET d == DrainCachedSettlements(ch)
           IN  /\ Keeps(ch, d) /\ d.live = ch.live /\ d.bal = ch.bal
               /\ d.proposed = ch.proposed
  <1> DEFINE r == Among(ch.redo, ToSet(ch.redo) \ CachedSettlements(ch))
  <1>1. r \in Seq(Redos)
      BY ChannelFields, AmongType
  <1>2. DrainCachedSettlements(ch) = [ch EXCEPT !.redo = r]
      BY DEF DrainCachedSettlements
  <1> HIDE DEF r
  <1> QED
      BY <1>1, <1>2, RedoKeeps

\* A state is numbered, signed and given away, or verified and received.
Gave(c, d) ==
    /\ d.me = c.me /\ d.my_nonce = c.my_nonce /\ d.sn = c.sn + 1
    /\ d.sent = Commitment(c, c.sn + 1) /\ d.received = c.received
    /\ d.known = c.known \cup {d.sent} /\ d.have_potato = FALSE

Got(c, d) ==
    /\ d.me = c.me /\ d.my_nonce = c.my_nonce /\ d.sn = c.sn + 1
    /\ d.received = Commitment(c, c.sn + 1) /\ d.sent = c.sent
    /\ d.known = c.known \cup {d.received} /\ d.have_potato = TRUE

LEMMA CommitmentType ==
    ASSUME NEW ch \in Channels
    PROVE  LET c == Commitment(ch, ch.sn + 1)
           IN  /\ c \in States /\ c.sn = ch.sn + 1 /\ c.bal = ch.bal /\ c.games = ch.live
               /\ ch.sn + 1 \in Nat
  <1>1. ch.sn \in Nat /\ ch.bal \in [Party -> Nat] /\ ch.live \in Seq(Games)
      BY ChannelFields
  <1> QED
      BY <1>1 DEF Commitment, States

\* A record of the states stays one when the next state is put on it.
LEMMA RecordNext ==
    ASSUME NEW c \in Channels, NEW d \in Channels, RecordInv(c), NEW x \in States,
           x.sn = c.sn + 1, d.sn = c.sn + 1, d.known = c.known \cup {x},
           d.sent \in {c.sent, x}, d.received \in {c.received, x}
    PROVE  RecordInv(d)
  <1>1. c.sn \in Nat /\ \A y \in c.known : y.sn \in Nat /\ y.sn <= c.sn
    <2>1. c.sn \in Nat /\ c.known \in SUBSET States
        BY ChannelFields
    <2> QED
        BY <2>1 DEF RecordInv, States
  <1>2. \A y \in d.known : y.sn <= d.sn
      BY <1>1
  <1>3. ASSUME NEW y \in d.known, NEW z \in d.known, y.sn = z.sn PROVE y = z
      BY <1>1, <1>3 DEF RecordInv
  <1>4. d.sent \in d.known /\ d.received \in d.known
      BY DEF RecordInv
  <1> QED
      BY <1>2, <1>3, <1>4 DEF RecordInv

\* update_cached_unroll_state
LEMMA GaveState ==
    ASSUME NEW ch \in Channels, ChannelInv(ch)
    PROVE  LET d == UpdateCachedUnrollState(ch)
           IN  /\ d \in Channels /\ ChannelInv(d) /\ Gave(ch, d)
               /\ d.live = ch.live /\ d.bal = ch.bal /\ d.proposed = ch.proposed
  <1> DEFINE c == Commitment(ch, ch.sn + 1)
  <1> DEFINE kn == ch.known \cup {c}
  <1> DEFINE n == ch.sn + 1
  <1> DEFINE d == [ch EXCEPT !.known = kn, !.sn = n, !.sent = c, !.have_potato = FALSE]
  <1>1. c \in States /\ c.sn = n /\ n \in Nat
      BY CommitmentType
  <1>2. kn \in SUBSET States
      BY <1>1, ChannelFields
  <1>3. UpdateCachedUnrollState(ch) = d
    <2>1. [ch EXCEPT !.known = kn].sn = ch.sn
        BY DEF Channels
    <2> QED
        BY <2>1 DEF UpdateCachedUnrollState, RecordUnroll
  <1> HIDE DEF c
  <1>4. kn = ch.known \cup {c} /\ n = ch.sn + 1
      OBVIOUS
  <1> HIDE DEF kn, n
  <1>5. /\ d \in Channels /\ d.me = ch.me /\ d.my_nonce = ch.my_nonce /\ d.sn = n
        /\ d.sent = c /\ d.received = ch.received /\ d.known = kn /\ d.have_potato = FALSE
        /\ d.live = ch.live /\ d.bal = ch.bal /\ d.proposed = ch.proposed
        /\ d.alloc = ch.alloc
      BY <1>1, <1>2 DEF Channels
  <1> HIDE DEF d
  <1>6. RecordInv(d)
    <2>1. RecordInv(ch) /\ d.sent \in {ch.sent, c} /\ d.received \in {ch.received, c}
        BY <1>5 DEF ChannelInv
    <2> QED
        BY <2>1, <1>1, <1>4, <1>5, RecordNext
  <1>7. LedgerInv(d)
      BY <1>5 DEF ChannelInv, LedgerInv
  <1>8. Gave(ch, d)
      BY <1>4, <1>5 DEF Gave, c
  <1> QED
      BY <1>3, <1>5, <1>6, <1>7, <1>8 DEF ChannelInv

\* verify_received_batch_signatures
LEMMA GotState ==
    ASSUME NEW ch \in Channels, ChannelInv(ch)
    PROVE  LET d == ReceiveSignedState(ch)
           IN  /\ d \in Channels /\ ChannelInv(d) /\ Got(ch, d)
               /\ d.live = ch.live /\ d.bal = ch.bal
  <1> DEFINE c == Commitment(ch, ch.sn + 1)
  <1> DEFINE kn == ch.known \cup {c}
  <1> DEFINE n == ch.sn + 1
  <1> DEFINE r == Among(ch.redo, CachedSettlements(ch))
  <1> DEFINE d == [ch EXCEPT !.known = kn, !.pending = {}, !.sn = n, !.received = c,
                             !.have_potato = TRUE, !.redo = r]
  <1>1. c \in States /\ c.sn = n /\ n \in Nat
      BY CommitmentType
  <1>2. kn \in SUBSET States /\ r \in Seq(Redos)
      BY <1>1, ChannelFields, AmongType
  <1>3. ReceiveSignedState(ch) = d
    <2>1. [ch EXCEPT !.known = kn].sn = ch.sn /\ [ch EXCEPT !.known = kn].redo = ch.redo
        BY DEF Channels
    <2> QED
        BY <2>1 DEF ReceiveSignedState, RecordUnroll
  <1> HIDE DEF c, r
  <1>4. kn = ch.known \cup {c} /\ n = ch.sn + 1
      OBVIOUS
  <1> HIDE DEF kn, n
  <1>5. /\ d \in Channels /\ d.me = ch.me /\ d.my_nonce = ch.my_nonce /\ d.sn = n
        /\ d.sent = ch.sent /\ d.received = c /\ d.known = kn /\ d.have_potato = TRUE
        /\ d.live = ch.live /\ d.bal = ch.bal /\ d.alloc = ch.alloc
      BY <1>1, <1>2 DEF Channels
  <1> HIDE DEF d
  <1>6. RecordInv(d)
    <2>1. RecordInv(ch) /\ d.sent \in {ch.sent, c} /\ d.received \in {ch.received, c}
        BY <1>5 DEF ChannelInv
    <2> QED
        BY <2>1, <1>1, <1>4, <1>5, RecordNext
  <1>7. LedgerInv(d)
      BY <1>5 DEF ChannelInv, LedgerInv
  <1>8. Got(ch, d)
      BY <1>4, <1>5 DEF Got, c
  <1> QED
      BY <1>3, <1>5, <1>6, <1>7, <1>8 DEF ChannelInv
=============================================================================
