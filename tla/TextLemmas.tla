------------------------------ MODULE TextLemmas ------------------------------
(***************************************************************************)
(* Lemmas about texts, which are sequences of characters, and about the    *)
(* operators of Names on them; and about what recursive functions compute. *)
(***************************************************************************)
EXTENDS Names, FiniteSetTheorems, SequenceTheorems, WellFoundedInduction, TLAPS

------------------------------------------------------------------------------
(* Induction and recursion, over sets and functions                        *)

\* Numbers have a least one.
LEMMA LeastNatural == \A T \in SUBSET Nat : T # {} => \E m \in T : \A n \in T : m <= n
<1> SUFFICES ASSUME NEW T \in SUBSET Nat, T # {} PROVE \E m \in T : \A n \in T : m <= n OBVIOUS
<1> DEFINE R == {r \in Nat \X Nat : r[1] < r[2]}
<1>1. IsWellFoundedOn(R, Nat) BY NatLessThanWellFounded DEF OpToRel
<1> HIDE DEF R
<1>2. PICK m \in T : \A n \in T : <<n, m>> \notin R BY <1>1, WFMin
<1>3. \A n \in T : n < m => <<n, m>> \in R BY DEF R
<1>4. \A n \in T : m <= n
  <2> SUFFICES ASSUME NEW n \in T PROVE m <= n OBVIOUS
  <2>1. ~(n < m) /\ n \in Nat /\ m \in Nat BY <1>2, <1>3
  <2>2. QED BY <2>1
<1>5. QED BY <1>4

\* f is what the recursion over 0 .. n with the first value a and the step g defines.
IsRecursive(f, n, X, a, g) ==
    f \in [0 .. n -> X] /\ f[0] = a /\ \A i \in 1 .. n : f[i] = g[<<i, f[i - 1]>>]

\* There is such a function.
LEMMA Recursion ==
    ASSUME NEW n \in Nat, NEW X, NEW a \in X, NEW g \in [(1 .. n) \X X -> X]
    PROVE  \E f : IsRecursive(f, n, X, a, g)
<1> DEFINE Upto(k) == \E f : IsRecursive(f, k, X, a, g)
           Bad == {k \in 0 .. n : ~Upto(k)}
<1> SUFFICES ASSUME Bad # {} PROVE FALSE OBVIOUS
<1>1. PICK m \in Bad : \A k \in Bad : m <= k BY LeastNatural, Bad \subseteq Nat
<1>2. m # 0
  <2> DEFINE f == [i \in 0 .. 0 |-> a]
  <2>1. IsRecursive(f, 0, X, a, g) BY DEF IsRecursive
  <2>2. Upto(0) BY <2>1
  <2>3. QED BY <2>2
<1>3. m - 1 \notin Bad /\ m - 1 \in 0 .. n
  <2> HIDE DEF Upto
  <2>1. m \in Nat /\ m <= n BY DEF Bad
  <2>2. QED BY <1>1, <1>2, <2>1
<1>4. PICK f \in [0 .. (m - 1) -> X] : f[0] = a /\ \A i \in 1 .. (m - 1) : f[i] = g[<<i, f[i - 1]>>]
  BY <1>3 DEF IsRecursive
<1> DEFINE h == [i \in 0 .. m |-> IF i = m THEN g[<<m, f[m - 1]>>] ELSE f[i]]
<1>5. m \in 1 .. n /\ m - 1 \in 0 .. (m - 1) BY <1>2, <1>3
<1>6. g[<<m, f[m - 1]>>] \in X BY <1>5
<1>7. h \in [0 .. m -> X] BY <1>5, <1>6
<1>8. h[0] = a BY <1>4, <1>5
<1>9. \A i \in 1 .. m : h[i] = g[<<i, h[i - 1]>>] 
  <2> SUFFICES ASSUME NEW i \in 1 .. m PROVE h[i] = g[<<i, h[i - 1]>>] OBVIOUS
  <2>1. i \in 0 .. m /\ i - 1 \in 0 .. m /\ i - 1 # m BY <1>5
  <2>2. h[i - 1] = f[i - 1] BY <2>1
  <2>3. CASE i = m BY <2>1, <2>2, <2>3
  <2>4. CASE i # m
    <3>1. i \in 1 .. (m - 1) BY <2>4, <1>5
    <3>2. QED BY <2>1, <2>2, <2>4, <3>1, <1>4
  <2>5. QED BY <2>3, <2>4
<1>10. Upto(m)
  <2> HIDE DEF h
  <2>1. IsRecursive(h, m, X, a, g) BY <1>7, <1>8, <1>9 DEF IsRecursive
  <2>2. QED BY <2>1
<1>11. QED BY <1>10

\* Induction: a set of numbers that has 0 and, up to n, with a number the next, has all of them.
LEMMA Induction ==
    ASSUME NEW n \in Nat, NEW T, 0 \in T, \A k \in 0 .. n - 1 : k \in T => k + 1 \in T
    PROVE  0 .. n \subseteq T
<1> DEFINE Bad == (0 .. n) \ T
<1> SUFFICES ASSUME Bad # {} PROVE FALSE OBVIOUS
<1>1. PICK m \in Bad : \A k \in Bad : m <= k BY LeastNatural, Bad \subseteq Nat
<1>2. m # 0 /\ m - 1 \in 0 .. n - 1 /\ ~(m <= m - 1) OBVIOUS
<1>3. m - 1 \in T BY <1>1, <1>2
<1>4. QED BY <1>2, <1>3

\* What grows with a set has a fixed point.
LEMMA FixedPoint ==
    ASSUME NEW C, NEW F \in [SUBSET C -> SUBSET C],
           \A S, T \in SUBSET C : S \subseteq T => F[S] \subseteq F[T]
    PROVE  \E G \in SUBSET C : F[G] = G
<1> DEFINE G == {c \in C : \A S \in SUBSET C : F[S] \subseteq S => c \in S}
<1>1. G \in SUBSET C OBVIOUS
<1>2. F[G] \subseteq G
  <2> SUFFICES ASSUME NEW c \in F[G], NEW S \in SUBSET C, F[S] \subseteq S PROVE c \in S
    BY <1>1
  <2>1. G \subseteq S OBVIOUS
  <2> HIDE DEF G
  <2>2. F[G] \subseteq F[S] BY <1>1, <2>1
  <2>3. QED BY <2>2
<1>3. G \subseteq F[G]
  <2> DEFINE D == F[G]
  <2>1. D \in SUBSET C BY <1>1
  <2>2. F[D] \subseteq D
    <3> HIDE DEF G
    <3>1. QED BY <1>1, <1>2, <2>1
  <2> HIDE DEF D
  <2>3. \A c \in G : c \in D BY <2>1, <2>2
  <2>4. QED BY <2>3 DEF D
<1>4. QED BY <1>1, <1>2, <1>3

\* A sequence of sequences is flattened by what its definition says.
LEMMA FlattenUnfolds ==
    ASSUME NEW X, NEW s \in Seq(Seq(X)), Len(s) # 0
    PROVE  \E f : /\ \A i \in 1 .. Len(s) : f[i] = IF i = 1 THEN s[i] ELSE f[i - 1] \o s[i]
                  /\ FlattenSeq(s) = f[Len(s)]
<1> DEFINE n == Len(s)
           g == [p \in (1 .. n) \X Seq(X) |-> IF p[1] = 1 THEN s[1] ELSE p[2] \o s[p[1]]]
           Unfolds(f) == f = [i \in 1 .. n |-> IF i = 1 THEN s[i] ELSE f[i - 1] \o s[i]]
<1>1. g \in [(1 .. n) \X Seq(X) -> Seq(X)]
  <2> SUFFICES ASSUME NEW p \in (1 .. n) \X Seq(X)
               PROVE  (IF p[1] = 1 THEN s[1] ELSE p[2] \o s[p[1]]) \in Seq(X)
    OBVIOUS
  <2>1. p[1] \in 1 .. n /\ p[2] \in Seq(X) /\ s[p[1]] \in Seq(X) OBVIOUS
  <2>2. QED BY <2>1
<1>2. <<>> \in Seq(X) /\ n \in Nat OBVIOUS
<1>3. PICK h \in [0 .. n -> Seq(X)] : h[0] = <<>> /\ \A i \in 1 .. n : h[i] = g[<<i, h[i - 1]>>]
  <2> DEFINE Y == Seq(X)
             e == <<>>
  <2>1. g \in [(1 .. n) \X Y -> Y] /\ e \in Y /\ n \in Nat BY <1>1, <1>2
  <2> HIDE DEF g, n, Y, e
  <2>2. \E f : IsRecursive(f, n, Y, e, g) BY <2>1, Recursion
  <2>3. QED BY <2>2 DEF Y, e, IsRecursive
<1> DEFINE f == [i \in 1 .. n |-> h[i]]
<1>4. Unfolds(f)
  <2> SUFFICES ASSUME NEW i \in 1 .. n
               PROVE  h[i] = IF i = 1 THEN s[i] ELSE f[i - 1] \o s[i]
    OBVIOUS
  <2>1. h[i] = g[<<i, h[i - 1]>>] /\ h[i - 1] \in Seq(X)
    <3>1. i - 1 \in 0 .. n OBVIOUS
    <3> HIDE DEF g, n
    <3>2. QED BY <1>3, <3>1
  <2>2. h[i] = IF i = 1 THEN s[1] ELSE h[i - 1] \o s[i] BY <2>1
  <2>3. i # 1 => f[i - 1] = h[i - 1] OBVIOUS
  <2>4. QED BY <2>2, <2>3
<1>5. Unfolds(CHOOSE e : Unfolds(e)) BY <1>4
<1>6. FlattenSeq(s) = (CHOOSE e : Unfolds(e))[n] BY DEF FlattenSeq
<1>7. \A i \in 1 .. n : (CHOOSE e : Unfolds(e))[i]
                            = IF i = 1 THEN s[i] ELSE (CHOOSE e : Unfolds(e))[i - 1] \o s[i]
  BY <1>5
<1>8. QED BY <1>6, <1>7

\* Pieces of a text make a text.
LEMMA FlattenTyped ==
    ASSUME NEW X, NEW s \in Seq(Seq(X))
    PROVE  FlattenSeq(s) \in Seq(X)
<1>1. CASE Len(s) = 0 BY <1>1 DEF FlattenSeq
<1>2. CASE Len(s) # 0
  <2>1. PICK f : /\ \A i \in 1 .. Len(s) : f[i] = IF i = 1 THEN s[i] ELSE f[i - 1] \o s[i]
                 /\ FlattenSeq(s) = f[Len(s)]
    BY <1>2, FlattenUnfolds
  <2> DEFINE T == {k \in 0 .. Len(s) : k = 0 \/ f[k] \in Seq(X)}
  <2>2. ASSUME NEW k \in 0 .. Len(s) - 1, k \in T PROVE k + 1 \in T
    <3>1. k + 1 \in 1 .. Len(s) /\ s[k + 1] \in Seq(X) /\ (k + 1) - 1 = k OBVIOUS
    <3>2. f[k + 1] = IF k + 1 = 1 THEN s[k + 1] ELSE f[k] \o s[k + 1] BY <2>1, <3>1
    <3>3. k # 0 => f[k] \in Seq(X) BY <2>2
    <3>4. f[k + 1] \in Seq(X)
      <4> HIDE DEF T
      <4>1. QED BY <3>1, <3>2, <3>3
    <3>5. QED BY <3>4
  <2>3. 0 .. Len(s) \subseteq T
    <3>1. 0 \in T /\ Len(s) \in Nat OBVIOUS
    <3> HIDE DEF T
    <3>2. QED BY <2>2, <3>1, Induction
  <2>4. QED BY <1>2, <2>1, <2>3
<1>3. QED BY <1>1, <1>2

\* A text cut into its characters is that text.
LEMMA FlattenSingles ==
    ASSUME NEW X, NEW t \in Seq(X)
    PROVE  FlattenSeq([i \in DOMAIN t |-> <<t[i]>>]) = t
<1> DEFINE s == [i \in DOMAIN t |-> <<t[i]>>]
<1>1. s \in Seq(Seq(X)) /\ Len(s) = Len(t) /\ \A i \in 1 .. Len(t) : s[i] = <<t[i]>>
  <2>1. \A i \in 1 .. Len(t) : <<t[i]>> \in Seq(X) OBVIOUS
  <2>2. s = [i \in 1 .. Len(t) |-> <<t[i]>>] OBVIOUS
  <2>3. QED BY <2>1, <2>2
<1> HIDE DEF s
<1>2. CASE Len(t) = 0
  <2>1. t = <<>> /\ s = <<>> BY <1>1, <1>2
  <2>2. FlattenSeq(s) = s BY <2>1 DEF FlattenSeq
  <2>3. QED BY <2>1, <2>2 DEF s
<1>3. CASE Len(t) # 0
  <2>1. PICK f : /\ \A i \in 1 .. Len(s) : f[i] = IF i = 1 THEN s[i] ELSE f[i - 1] \o s[i]
                 /\ FlattenSeq(s) = f[Len(s)]
    BY <1>1, <1>3, FlattenUnfolds
  <2> DEFINE T == {k \in 0 .. Len(t) : k = 0 \/ f[k] = SubSeq(t, 1, k)}
  <2>2. ASSUME NEW k \in 0 .. Len(t) - 1, k \in T PROVE k + 1 \in T
    <3>1. k + 1 \in 1 .. Len(t) /\ s[k + 1] = <<t[k + 1]>> /\ (k + 1) - 1 = k BY <1>1
    <3>2. f[k + 1] = IF k + 1 = 1 THEN s[k + 1] ELSE f[k] \o s[k + 1] BY <1>1, <2>1, <3>1
    <3>3. CASE k = 0 BY <3>1, <3>2, <3>3
    <3>4. CASE k # 0
      <4>1. f[k] = SubSeq(t, 1, k) /\ SubSeq(t, 1, k) \in Seq(X) BY <2>2, <3>4
      <4>2. SubSeq(t, 1, k) \o <<t[k + 1]>> = SubSeq(t, 1, k + 1) OBVIOUS
      <4>3. f[k + 1] = SubSeq(t, 1, k + 1)
        <5> HIDE DEF T
        <5>1. QED BY <3>1, <3>2, <3>4, <4>1, <4>2
      <4>4. QED BY <4>3
    <3>5. QED BY <3>3, <3>4
  <2>3. 0 .. Len(t) \subseteq T
    <3>1. 0 \in T /\ Len(t) \in Nat OBVIOUS
    <3> HIDE DEF T
    <3>2. QED BY <2>2, <3>1, Induction
  <2>4. f[Len(t)] = SubSeq(t, 1, Len(t)) BY <1>3, <2>3
  <2>5. SubSeq(t, 1, Len(t)) = t OBVIOUS
  <2>6. QED BY <1>1, <2>1, <2>4, <2>5 DEF s
<1>4. QED BY <1>2, <1>3
------------------------------------------------------------------------------
(* Sequences                                                               *)

\* Texts of one part, and texts put together.
LEMMA TextsOfParts == ASSUME NEW X, NEW c \in X PROVE <<c>> \in Seq(X) /\ Len(<<c>>) = 1
OBVIOUS

\* Two texts put together.
LEMMA Joining ==
    ASSUME NEW X, NEW s \in Seq(X), NEW t \in Seq(X)
    PROVE  /\ s \o t \in Seq(X) /\ Len(s \o t) = Len(s) + Len(t)
           /\ \A i \in 1 .. Len(t) : (s \o t)[Len(s) + i] = t[i]
OBVIOUS

\* A sequence with one more member.
LEMMA AppendOne ==
    ASSUME NEW S, NEW s \in Seq(S), NEW x
    PROVE  /\ Append(s, x) \in Seq(S \cup {x}) /\ Len(Append(s, x)) = Len(s) + 1
           /\ DOMAIN Append(s, x) = DOMAIN s \cup {Len(s) + 1}
           /\ \A i \in DOMAIN s : Append(s, x)[i] = s[i]
           /\ Append(s, x)[Len(s) + 1] = x
<1>1. s \in Seq(S \cup {x}) OBVIOUS
<1>2. /\ Append(s, x) \in Seq(S \cup {x}) /\ Len(Append(s, x)) = Len(s) + 1
      /\ \A i \in 1 .. Len(s) : Append(s, x)[i] = s[i]
      /\ Append(s, x)[Len(s) + 1] = x
  BY <1>1
<1>3. DOMAIN Append(s, x) = 1 .. (Len(s) + 1) /\ DOMAIN s = 1 .. Len(s) /\ Len(s) \in Nat
  BY <1>2
<1>4. QED BY <1>2, <1>3

------------------------------------------------------------------------------
(* Texts and their parts                                                   *)

\* The sequences of texts, but the empty one.
NonEmptySeq(X) == Seq(Seq(X)) \ {<<>>}

\* What the parts of a text become with one more character.
PartsAfter(parts, c, separator) ==
    IF c = separator THEN Append(parts, <<>>)
    ELSE [parts EXCEPT ![Len(parts)] = Append(parts[Len(parts)], c)]

\* The parts of the texts up to each character.
IsSplit(f, t, separator) ==
    /\ f[0] = << <<>> >>
    /\ \A i \in 1 .. Len(t) : f[i] = PartsAfter(f[i - 1], t[i], separator)

\* One sequence of parts is what another begins with, but for the last part, which may go on.
Begins(P, Q) ==
    /\ Len(P) <= Len(Q)
    /\ \A i \in 1 .. Len(P) - 1 : Q[i] = P[i]
    /\ Len(P[Len(P)]) <= Len(Q[Len(P)])
    /\ \A j \in 1 .. Len(P[Len(P)]) : Q[Len(P)][j] = P[Len(P)][j]

\* The parts of a text with one character more: one part more, or a longer last one.
LEMMA PartsAre ==
    ASSUME NEW X, NEW P \in NonEmptySeq(X), NEW c \in X, NEW separator
    PROVE  /\ PartsAfter(P, c, separator) \in NonEmptySeq(X)
           /\ c = separator =>
                /\ Len(PartsAfter(P, c, separator)) = Len(P) + 1
                /\ \A i \in 1 .. Len(P) : PartsAfter(P, c, separator)[i] = P[i]
           /\ c # separator =>
                /\ Len(PartsAfter(P, c, separator)) = Len(P)
                /\ \A i \in 1 .. Len(P) - 1 : PartsAfter(P, c, separator)[i] = P[i]
                /\ PartsAfter(P, c, separator)[Len(P)] = Append(P[Len(P)], c)
<1> DEFINE L == Len(P)
           last == Append(P[L], c)
           longer == [P EXCEPT ![L] = last]
<1>1. P \in Seq(Seq(X)) /\ L \in Nat /\ L # 0 /\ DOMAIN P = 1 .. L BY DEF NonEmptySeq
<1>2. L \in 1 .. L /\ P[L] \in Seq(X) BY <1>1
<1>3. last \in Seq(X) BY <1>2
<1>4. CASE c = separator
  <2>1. PartsAfter(P, c, separator) = Append(P, <<>>) BY <1>4 DEF PartsAfter
  <2>2. <<>> \in Seq(X) OBVIOUS
  <2>3. /\ Append(P, <<>>) \in Seq(Seq(X)) /\ Len(Append(P, <<>>)) = L + 1
        /\ \A i \in 1 .. L : Append(P, <<>>)[i] = P[i]
    BY <1>1, <2>2
  <2>4. Append(P, <<>>) # <<>> BY <1>1, <2>3
  <2>5. QED BY <1>4, <2>1, <2>3, <2>4 DEF NonEmptySeq
<1>5. CASE c # separator
  <2>1. PartsAfter(P, c, separator) = longer BY <1>5 DEF PartsAfter
  <2> HIDE DEF L, last
  <2>2. longer \in [1 .. L -> Seq(X)] BY <1>1, <1>3
  <2>3. longer \in Seq(Seq(X)) /\ Len(longer) = L BY <1>1, <2>2
  <2>4. longer # <<>> BY <1>1, <2>3
  <2>5. (\A i \in 1 .. L - 1 : longer[i] = P[i]) /\ longer[L] = last BY <1>1, <1>2
  <2> HIDE DEF longer
  <2>6. QED BY <1>5, <2>1, <2>3, <2>4, <2>5 DEF NonEmptySeq, L, last
<1>6. QED BY <1>4, <1>5

\* Parts are texts, and there is one at least.
LEMMA PartsTyped ==
    ASSUME NEW X, NEW P \in NonEmptySeq(X)
    PROVE  /\ Len(P) \in Nat /\ Len(P) # 0 /\ P \in Seq(Seq(X))
           /\ P[Len(P)] \in Seq(X) /\ Len(P[Len(P)]) \in Nat
           /\ \A i \in 1 .. Len(P) : P[i] \in Seq(X) /\ Len(P[i]) \in Nat
<1>1. P \in Seq(Seq(X)) /\ Len(P) \in Nat /\ Len(P) # 0 BY DEF NonEmptySeq
<1>2. \A i \in 1 .. Len(P) : P[i] \in Seq(X) /\ Len(P[i]) \in Nat BY <1>1
<1>3. Len(P) \in 1 .. Len(P) BY <1>1
<1>4. QED BY <1>1, <1>2, <1>3

\* What begins the beginning begins the whole.
LEMMA BeginsTransitive ==
    ASSUME NEW X, NEW P \in NonEmptySeq(X), NEW Q \in NonEmptySeq(X), NEW R \in NonEmptySeq(X),
           Begins(P, Q), Begins(Q, R)
    PROVE  Begins(P, R)
<1>1. /\ Len(P) \in Nat \ {0} /\ Len(Q) \in Nat \ {0} /\ Len(R) \in Nat \ {0}
      /\ Len(P) <= Len(Q) /\ Len(Q) <= Len(R)
  BY PartsTyped DEF Begins
<1>2. Len(P[Len(P)]) \in Nat /\ Len(Q[Len(P)]) \in Nat /\ Len(R[Len(P)]) \in Nat
  BY <1>1, PartsTyped
<1>3. CASE Len(P) < Len(Q)
  <2>1. \A i \in 1 .. Len(P) : R[i] = Q[i] BY <1>1, <1>3 DEF Begins
  <2>2. QED BY <1>1, <2>1 DEF Begins
<1>4. CASE Len(P) = Len(Q)
  <2>1. \A i \in 1 .. Len(P) - 1 : R[i] = P[i] BY <1>1, <1>4 DEF Begins
  <2>2. Len(P[Len(P)]) <= Len(R[Len(P)]) BY <1>1, <1>2, <1>4 DEF Begins
  <2>3. \A j \in 1 .. Len(P[Len(P)]) : R[Len(P)][j] = P[Len(P)][j]
    BY <1>1, <1>2, <1>4 DEF Begins
  <2>4. QED BY <1>1, <2>1, <2>2, <2>3 DEF Begins
<1>5. QED BY <1>1, <1>3, <1>4

\* What the parts of a text tell of the character that follows the first parts of it.
LEMMA NextCharacter ==
    ASSUME NEW X, NEW P \in NonEmptySeq(X), NEW R \in NonEmptySeq(X), NEW c \in X, NEW separator,
           Begins(PartsAfter(P, c, separator), R)
    PROVE  /\ Begins(P, R)
           /\ c = separator => /\ Len(R) > Len(P) /\ R[Len(P)] = P[Len(P)]
                               /\ \A i \in 1 .. Len(P) : R[i] = P[i]
           /\ c # separator => /\ Len(R[Len(P)]) > Len(P[Len(P)])
                               /\ R[Len(P)][Len(P[Len(P)]) + 1] = c
<1> DEFINE Q == PartsAfter(P, c, separator)
           L == Len(P)
           last == P[L]
<1>1. L \in Nat /\ L # 0 /\ last \in Seq(X) /\ Len(last) \in Nat /\ Q \in NonEmptySeq(X)
  BY PartsTyped, PartsAre
<1>2. Len(R) \in Nat /\ (L <= Len(R) => Len(R[L]) \in Nat) BY <1>1, PartsTyped
<1>3. CASE c = separator
  <2>1. Len(Q) = L + 1 /\ \A i \in 1 .. L : Q[i] = P[i] BY <1>3, PartsAre
  <2>2. Len(R) >= L + 1 /\ \A i \in 1 .. L : R[i] = P[i]
    <3> HIDE DEF Q, L
    <3>1. L + 1 <= Len(R) /\ \A i \in 1 .. (L + 1) - 1 : R[i] = Q[i] BY <2>1 DEF Begins, Q
    <3>2. QED BY <1>1, <1>2, <2>1, <3>1
  <2>3. R[L] = P[L] BY <1>1, <2>2
  <2>4. Begins(P, R) BY <1>1, <1>2, <2>2, <2>3 DEF Begins
  <2>5. QED BY <1>1, <1>2, <1>3, <2>2, <2>3, <2>4
<1>4. CASE c # separator
  <2>1. Len(Q) = L /\ (\A i \in 1 .. L - 1 : Q[i] = P[i]) /\ Q[L] = Append(last, c)
    BY <1>4, PartsAre
  <2>2. /\ Len(Append(last, c)) = Len(last) + 1
        /\ \A j \in 1 .. Len(last) : Append(last, c)[j] = last[j]
        /\ Append(last, c)[Len(last) + 1] = c
    BY <1>1
  <2> HIDE DEF Q, L, last
  <2>3. /\ L <= Len(R) /\ \A i \in 1 .. L - 1 : R[i] = P[i]
        /\ Len(last) + 1 <= Len(R[L])
        /\ \A j \in 1 .. Len(last) + 1 : R[L][j] = Append(last, c)[j]
    BY <2>1, <2>2 DEF Begins, Q
  <2>4. /\ Len(R[L]) > Len(last) /\ R[L][Len(last) + 1] = c
        /\ \A j \in 1 .. Len(last) : R[L][j] = last[j]
    BY <1>1, <1>2, <2>2, <2>3
  <2>5. Begins(P, R) BY <1>1, <1>2, <2>3, <2>4 DEF Begins, L, last
  <2>6. QED BY <1>4, <2>4, <2>5 DEF L, last
<1>5. QED BY <1>3, <1>4

\* The parts are those after each character, one by one.
LEMMA SplitUnfolds ==
    ASSUME NEW X, NEW t \in Seq(X), NEW separator
    PROVE  \E f \in [0 .. Len(t) -> NonEmptySeq(X)] :
              IsSplit(f, t, separator) /\ Split(t, separator) = f[Len(t)]
<1> DEFINE n == Len(t)
           g == [p \in (1 .. n) \X NonEmptySeq(X) |-> PartsAfter(p[2], t[p[1]], separator)]
           Unfolds(e) == e = [i \in 0 .. n |->
               IF i = 0 THEN << <<>> >>
               ELSE LET before == e[i - 1]
                    IN  IF t[i] = separator THEN Append(before, <<>>)
                        ELSE [before EXCEPT ![Len(before)] = Append(@, t[i])]]
           first == << <<>> >>
           Y == NonEmptySeq(X)
<1>1. g \in [(1 .. n) \X Y -> Y]
  <2> SUFFICES ASSUME NEW p \in (1 .. n) \X Y PROVE PartsAfter(p[2], t[p[1]], separator) \in Y
    OBVIOUS
  <2>1. p[2] \in Y /\ t[p[1]] \in X OBVIOUS
  <2> HIDE DEF Y
  <2>2. QED BY <2>1, PartsAre DEF Y
<1>2. n \in Nat OBVIOUS
<1>3. first \in Y
  <2>1. <<>> \in Seq(X) OBVIOUS
  <2>2. first \in Seq(Seq(X)) /\ Len(first) = 1 BY <2>1
  <2>3. QED BY <2>2 DEF NonEmptySeq
<1>4. PICK h : IsRecursive(h, n, Y, first, g)
  <2> HIDE DEF g, n, Y, first
  <2>1. QED BY <1>1, <1>2, <1>3, Recursion
<1>5. \A i \in 1 .. n : h[i] = PartsAfter(h[i - 1], t[i], separator)
  <2> SUFFICES ASSUME NEW i \in 1 .. n PROVE h[i] = PartsAfter(h[i - 1], t[i], separator) OBVIOUS
  <2>1. i - 1 \in 0 .. n BY <1>2
  <2> HIDE DEF n, Y, first
  <2>2. h[i - 1] \in Y /\ h[i] = g[<<i, h[i - 1]>>] BY <1>4, <2>1 DEF IsRecursive
  <2>3. QED BY <2>2 DEF Y
<1>6. DOMAIN h = 0 .. n /\ h[0] = first /\ h = [i \in 0 .. n |-> h[i]] BY <1>4 DEF IsRecursive
<1>7. Unfolds(h)
  <2> DEFINE e == [i \in 0 .. n |->
               IF i = 0 THEN << <<>> >>
               ELSE LET before == h[i - 1]
                    IN  IF t[i] = separator THEN Append(before, <<>>)
                        ELSE [before EXCEPT ![Len(before)] = Append(@, t[i])]]
  <2>1. ASSUME NEW i \in 0 .. n PROVE h[i] = e[i]
    <3>1. CASE i = 0 BY <1>6, <3>1
    <3>2. CASE i # 0
      <4>1. i \in 1 .. n BY <1>2, <3>2
      <4>2. h[i] = PartsAfter(h[i - 1], t[i], separator) BY <1>5, <4>1
      <4>3. QED BY <3>2, <4>2 DEF PartsAfter
    <3>3. QED BY <3>1, <3>2
  <2>2. QED BY <1>6, <2>1
<1> DEFINE parts == CHOOSE e : Unfolds(e)
<1>8. Unfolds(parts) BY <1>7
<1>9. Split(t, separator) = parts[n] BY DEF Split
<1>10. parts[0] = first /\ \A i \in 1 .. n : parts[i] = PartsAfter(parts[i - 1], t[i], separator)
  <2> HIDE DEF parts
  <2>1. 0 \in 0 .. n /\ \A i \in 1 .. n : i \in 0 .. n /\ i # 0 BY <1>2
  <2>2. QED BY <1>8, <2>1 DEF PartsAfter
<1>11. \A i \in 0 .. n : parts[i] = h[i]
  <2> DEFINE T == {i \in 0 .. n : parts[i] = h[i]}
  <2> HIDE DEF parts, n, first, Y, Unfolds
  <2>1. 0 \in T BY <1>2, <1>6, <1>10
  <2>2. ASSUME NEW k \in 0 .. n - 1, k \in T PROVE k + 1 \in T
    <3>1. k + 1 \in 1 .. n /\ (k + 1) - 1 = k BY <1>2
    <3>2. parts[k + 1] = PartsAfter(parts[k], t[k + 1], separator) BY <1>10, <3>1
    <3>3. h[k + 1] = PartsAfter(h[k], t[k + 1], separator) BY <1>5, <3>1
    <3>4. QED BY <2>2, <3>1, <3>2, <3>3
  <2> HIDE DEF T
  <2>3. 0 .. n \subseteq T BY <1>2, <2>1, <2>2, Induction
  <2>4. QED BY <2>3 DEF T
<1>12. h \in [0 .. Len(t) -> NonEmptySeq(X)] /\ IsSplit(h, t, separator)
  BY <1>4, <1>5 DEF IsRecursive, IsSplit
<1>13. Split(t, separator) = h[Len(t)]
  <2> HIDE DEF parts
  <2>1. n \in 0 .. n BY <1>2
  <2>2. QED BY <1>9, <1>11, <2>1
<1>14. QED BY <1>12, <1>13

\* The parts of a text begin with those of the text up to any of its characters.
LEMMA PartsGrow ==
    ASSUME NEW X, NEW t \in Seq(X), NEW separator,
           NEW f \in [0 .. Len(t) -> NonEmptySeq(X)], IsSplit(f, t, separator),
           NEW k \in 0 .. Len(t)
    PROVE  Begins(f[k], f[Len(t)])
<1> DEFINE n == Len(t)
           T == {d \in 0 .. n - k : Begins(f[k], f[k + d])}
<1>1. n \in Nat /\ k \in Nat /\ n - k \in Nat OBVIOUS
<1>2. \A P \in NonEmptySeq(X) : Begins(P, P)
  BY PartsTyped DEF Begins
<1> HIDE DEF n
<1>3. 0 \in T BY <1>1, <1>2 DEF n
<1>4. ASSUME NEW d \in 0 .. (n - k) - 1, d \in T PROVE d + 1 \in T
  <2>1. k + d \in 0 .. n /\ k + (d + 1) \in 1 .. n /\ (k + (d + 1)) - 1 = k + d BY <1>1
  <2>2. f[k + (d + 1)] = PartsAfter(f[k + d], t[k + (d + 1)], separator) BY <2>1 DEF IsSplit, n
  <2>3. f[k] \in NonEmptySeq(X) /\ f[k + d] \in NonEmptySeq(X) /\ f[k + (d + 1)] \in NonEmptySeq(X)
    BY <2>1 DEF n
  <2>4. t[k + (d + 1)] \in X BY <2>1 DEF n
  <2>5. Begins(f[k + (d + 1)], f[k + (d + 1)]) BY <1>2, <2>3
  <2>6. Begins(f[k + d], f[k + (d + 1)])
    <3>1. PICK P \in NonEmptySeq(X), Q \in NonEmptySeq(X), c \in X :
            P = f[k + d] /\ Q = f[k + (d + 1)] /\ c = t[k + (d + 1)]
      BY <2>3, <2>4
    <3>2. Begins(PartsAfter(P, c, separator), Q) BY <2>2, <2>5, <3>1
    <3>3. Begins(P, Q) BY <3>2, NextCharacter
    <3>4. QED BY <3>1, <3>3
  <2>7. Begins(f[k], f[k + d]) BY <1>4
  <2>8. Begins(f[k], f[k + (d + 1)]) BY <2>3, <2>6, <2>7, BeginsTransitive
  <2>9. QED BY <1>1, <2>8
<1>5. 0 .. n - k \subseteq T
  <2> HIDE DEF T
  <2>1. QED BY <1>1, <1>3, <1>4, Induction
<1>6. Begins(f[k], f[k + (n - k)]) BY <1>1, <1>5
<1>7. k + (n - k) = n BY <1>1
<1>8. QED BY <1>6, <1>7 DEF n

\* Two texts that agree up to a character have the same parts up to it.
LEMMA SamePrefix ==
    ASSUME NEW X, NEW s \in Seq(X), NEW t \in Seq(X), NEW separator,
           NEW g, IsSplit(g, s, separator), NEW f, IsSplit(f, t, separator),
           NEW m \in Nat, m <= Len(s), m <= Len(t), \A i \in 1 .. m : s[i] = t[i]
    PROVE  g[m] = f[m]
<1> DEFINE T == {j \in 0 .. m : g[j] = f[j]}
<1>1. 0 \in T BY DEF IsSplit
<1>2. ASSUME NEW k \in 0 .. m - 1, k \in T PROVE k + 1 \in T
  <2>1. k + 1 \in 1 .. m /\ k + 1 \in 1 .. Len(s) /\ k + 1 \in 1 .. Len(t) /\ (k + 1) - 1 = k OBVIOUS
  <2>2. g[k + 1] = PartsAfter(g[k], s[k + 1], separator) BY <2>1 DEF IsSplit
  <2>3. f[k + 1] = PartsAfter(f[k], t[k + 1], separator) BY <2>1 DEF IsSplit
  <2>4. QED BY <1>2, <2>1, <2>2, <2>3
<1> HIDE DEF T
<1>3. 0 .. m \subseteq T BY <1>1, <1>2, Induction
<1>4. QED BY <1>3 DEF T

\* Where the parts of one text begin with those of another, so does the text.
LEMMA TextsBegin ==
    ASSUME NEW X, NEW s \in Seq(X), NEW t \in Seq(X), NEW separator,
           NEW g \in [0 .. Len(s) -> NonEmptySeq(X)], IsSplit(g, s, separator),
           NEW f \in [0 .. Len(t) -> NonEmptySeq(X)], IsSplit(f, t, separator),
           Begins(g[Len(s)], f[Len(t)])
    PROVE  Len(s) <= Len(t) /\ \A i \in 1 .. Len(s) : s[i] = t[i]
<1> DEFINE m == Len(s)
           n == Len(t)
           R == f[n]
           T == {j \in 0 .. m : j <= n /\ \A i \in 1 .. j : s[i] = t[i]}
<1>1. m \in Nat /\ n \in Nat /\ R \in NonEmptySeq(X) OBVIOUS
<1>2. 0 \in T BY <1>1
<1>3. ASSUME NEW j \in 0 .. m - 1, j \in T PROVE j + 1 \in T
  <2>1. /\ j \in Nat /\ j \in 0 .. m /\ j + 1 \in 1 .. m /\ j + 1 \in 0 .. m /\ (j + 1) - 1 = j
        /\ j <= n /\ j <= m /\ \A i \in 1 .. j : s[i] = t[i]
    BY <1>1, <1>3
  <2>2. PICK P \in NonEmptySeq(X) : P = f[j] /\ P = g[j] BY <2>1, SamePrefix
  <2>3. s[j + 1] \in X /\ g[j + 1] = PartsAfter(P, s[j + 1], separator)
    BY <2>1, <2>2 DEF IsSplit
  <2>4. Begins(PartsAfter(P, s[j + 1], separator), R)
    <3>1. Begins(g[j + 1], g[m]) BY <2>1, PartsGrow
    <3>2. g[j + 1] \in NonEmptySeq(X) /\ g[m] \in NonEmptySeq(X) BY <2>1, <1>1
    <3>3. QED BY <1>1, <2>3, <3>1, <3>2, BeginsTransitive
  <2>5. ASSUME j < n
        PROVE  t[j + 1] \in X /\ Begins(PartsAfter(P, t[j + 1], separator), R)
    <3>1. j + 1 \in 1 .. n /\ j + 1 \in 0 .. n BY <1>1, <2>1, <2>5
    <3>2. f[j + 1] = PartsAfter(P, t[j + 1], separator) BY <2>1, <2>2, <3>1 DEF IsSplit
    <3>3. QED BY <3>1, <3>2, PartsGrow
  <2> HIDE DEF m, n, R, T
  <2>6. /\ Len(P) \in Nat /\ Len(R) \in Nat /\ Len(P[Len(P)]) \in Nat
        /\ Len(P) <= Len(R) => Len(R[Len(P)]) \in Nat
    BY <1>1, <2>2, PartsTyped
  <2>7. Len(P) <= Len(R) BY <1>1, <2>3, <2>4, NextCharacter DEF Begins
  <2>8. /\ s[j + 1] = separator => Len(R) > Len(P) /\ R[Len(P)] = P[Len(P)]
        /\ s[j + 1] # separator => /\ Len(R[Len(P)]) > Len(P[Len(P)])
                                   /\ R[Len(P)][Len(P[Len(P)]) + 1] = s[j + 1]
    BY <1>1, <2>3, <2>4, NextCharacter
  <2>9. j < n
    <3> SUFFICES ASSUME j = n PROVE FALSE BY <1>1, <2>1
    <3>1. R = P BY <2>2 DEF R
    <3>2. QED BY <2>6, <2>8, <3>1
  <2>10. /\ t[j + 1] = separator => Len(R) > Len(P) /\ R[Len(P)] = P[Len(P)]
         /\ t[j + 1] # separator => /\ Len(R[Len(P)]) > Len(P[Len(P)])
                                    /\ R[Len(P)][Len(P[Len(P)]) + 1] = t[j + 1]
    BY <1>1, <2>5, <2>9, NextCharacter
  <2>11. s[j + 1] = t[j + 1] BY <2>6, <2>7, <2>8, <2>10
  <2>12. \A i \in 1 .. j + 1 : s[i] = t[i] BY <2>1, <2>11
  <2>13. j + 1 <= n BY <1>1, <2>1, <2>9
  <2>14. QED BY <2>1, <2>12, <2>13 DEF T
<1>4. 0 .. m \subseteq T
  <2> HIDE DEF T, m, n
  <2>1. QED BY <1>1, <1>2, <1>3, Induction
<1>5. m \in T BY <1>1, <1>4
<1>6. QED BY <1>5

\* The parts of one text are the first parts of another just when the text is the other, or what
\* the other has before a separator.
LEMMA FirstParts ==
    ASSUME NEW X, NEW s \in Seq(X), NEW t \in Seq(X), NEW separator \in X
    PROVE  IsPrefix(Split(s, separator), Split(t, separator))
             <=> (t = s \/ IsPrefix(s \o <<separator>>, t))
<1> DEFINE m == Len(s)
           n == Len(t)
<1>1. PICK g \in [0 .. m -> NonEmptySeq(X)] :
        IsSplit(g, s, separator) /\ Split(s, separator) = g[m]
  BY SplitUnfolds
<1>2. PICK f \in [0 .. n -> NonEmptySeq(X)] :
        IsSplit(f, t, separator) /\ Split(t, separator) = f[n]
  BY SplitUnfolds
<1>3. m \in Nat /\ n \in Nat /\ g[m] \in NonEmptySeq(X) /\ f[n] \in NonEmptySeq(X) OBVIOUS
<1>4. PICK P, R : P = g[m] /\ R = f[n] OBVIOUS
<1>5. /\ Len(P) \in Nat /\ Len(P) # 0 /\ Len(R) \in Nat
      /\ P \in Seq(Seq(X)) /\ R \in Seq(Seq(X)) /\ P \in NonEmptySeq(X) /\ R \in NonEmptySeq(X)
      /\ Len(P[Len(P)]) \in Nat
  BY <1>3, <1>4, PartsTyped
<1>6. IsPrefix(P, R) <=> Len(P) <= Len(R) /\ \A i \in 1 .. Len(P) : P[i] = R[i]
  BY <1>5 DEF IsPrefix
<1>7. /\ s \o <<separator>> \in Seq(X) /\ Len(s \o <<separator>>) = m + 1
      /\ \A i \in 1 .. m : (s \o <<separator>>)[i] = s[i]
      /\ (s \o <<separator>>)[m + 1] = separator
  OBVIOUS
<1>8. IsPrefix(s \o <<separator>>, t)
        <=> m + 1 <= n /\ t[m + 1] = separator /\ \A i \in 1 .. m : s[i] = t[i]
  <2> DEFINE u == s \o <<separator>>
  <2>1. u \in Seq(X) /\ Len(u) = m + 1 /\ (\A i \in 1 .. m : u[i] = s[i]) /\ u[m + 1] = separator
    BY <1>7
  <2> HIDE DEF u
  <2>2. IsPrefix(u, t) <=> Len(u) <= n /\ \A i \in 1 .. Len(u) : u[i] = t[i]
    BY <2>1 DEF IsPrefix
  <2>3. (\A i \in 1 .. m + 1 : u[i] = t[i]) <=> t[m + 1] = separator /\ \A i \in 1 .. m : s[i] = t[i]
    <3> HIDE DEF m, n
    <3>1. m + 1 \in 1 .. m + 1 /\ \A i \in 1 .. m : i \in 1 .. m + 1 BY <1>3
    <3>2. \A i \in 1 .. m + 1 : i \in 1 .. m \/ i = m + 1 BY <1>3
    <3>3. QED BY <2>1, <3>1, <3>2
  <2>4. QED BY <2>1, <2>2, <2>3 DEF u
<1>9. ASSUME IsPrefix(P, R) PROVE t = s \/ IsPrefix(s \o <<separator>>, t)
  <2>1. Len(P) <= Len(R) /\ \A i \in 1 .. Len(P) : P[i] = R[i] BY <1>6, <1>9
  <2>2. Begins(P, R)
    <3>1. Len(P) \in 1 .. Len(P) /\ \A i \in 1 .. Len(P) - 1 : i \in 1 .. Len(P) BY <1>5
    <3>2. R[Len(P)] = P[Len(P)] /\ \A i \in 1 .. Len(P) - 1 : R[i] = P[i] BY <2>1, <3>1
    <3>3. Len(P[Len(P)]) <= Len(R[Len(P)]) BY <1>5, <3>2
    <3>4. QED BY <2>1, <3>2, <3>3 DEF Begins
  <2>3. m <= n /\ \A i \in 1 .. m : s[i] = t[i] BY <1>1, <1>2, <1>4, <2>2, TextsBegin
  <2>4. CASE m = n
    <3>1. t = s BY <2>3, <2>4
    <3>2. QED BY <3>1
  <2>5. CASE m < n
    <3>1. m + 1 \in 1 .. n /\ m + 1 \in 0 .. n /\ (m + 1) - 1 = m BY <1>3, <2>5
    <3>2. f[m] = P BY <1>1, <1>2, <1>3, <1>4, <2>3, SamePrefix
    <3>3. f[m + 1] = PartsAfter(P, t[m + 1], separator) /\ t[m + 1] \in X
      BY <1>2, <3>1, <3>2 DEF IsSplit
    <3>4. Begins(f[m + 1], R) BY <1>2, <1>4, <3>1, PartsGrow
    <3>5. t[m + 1] # separator => Len(R[Len(P)]) > Len(P[Len(P)])
      BY <1>5, <3>3, <3>4, NextCharacter
    <3>6. R[Len(P)] = P[Len(P)] BY <1>5, <2>1
    <3>7. t[m + 1] = separator BY <1>5, <3>5, <3>6
    <3>8. QED BY <1>3, <1>8, <2>3, <2>5, <3>7
  <2>6. QED BY <1>3, <2>3, <2>4, <2>5
<1>10. ASSUME t = s PROVE IsPrefix(P, R)
  <2>1. R = P BY <1>1, <1>2, <1>3, <1>4, <1>10
  <2>2. QED BY <1>5, <1>6, <2>1
<1>11. ASSUME IsPrefix(s \o <<separator>>, t) PROVE IsPrefix(P, R)
  <2>1. m + 1 <= n /\ t[m + 1] = separator /\ \A i \in 1 .. m : s[i] = t[i] BY <1>8, <1>11
  <2>2. m <= n /\ m + 1 \in 1 .. n /\ m + 1 \in 0 .. n /\ (m + 1) - 1 = m BY <1>3, <2>1
  <2>3. f[m] = P BY <1>1, <1>2, <1>3, <1>4, <2>1, <2>2, SamePrefix
  <2>4. f[m + 1] = PartsAfter(P, separator, separator) BY <1>2, <2>1, <2>2, <2>3 DEF IsSplit
  <2>5. Begins(f[m + 1], R) BY <1>2, <1>4, <2>2, PartsGrow
  <2>6. Len(R) > Len(P) /\ \A i \in 1 .. Len(P) : R[i] = P[i]
    BY <1>5, <2>4, <2>5, NextCharacter
  <2>7. QED BY <1>5, <1>6, <2>6
<1>12. QED BY <1>1, <1>2, <1>4, <1>9, <1>10, <1>11

------------------------------------------------------------------------------
(* The lexicographic order                                                 *)

\* R puts the members of X in a row.
StrictTotal(R, X) ==
    /\ \A x \in X : <<x, x>> \notin R
    /\ \A x, y, z \in X : <<x, y>> \in R /\ <<y, z>> \in R => <<x, z>> \in R
    /\ \A x, y \in X : x = y \/ <<x, y>> \in R \/ <<y, x>> \in R

\* a comes before b in lexicographic order.
Before(a, b, R) ==
    \/ Len(a) < Len(b) /\ \A i \in 1 .. Len(a) : a[i] = b[i]
    \/ \E i \in 1 .. Len(a) : /\ i <= Len(b) /\ <<a[i], b[i]>> \in R
                              /\ \A j \in 1 .. i - 1 : a[j] = b[j]

Lexicographic(R, X) == {c \in Seq(X) \X Seq(X) : Before(c[1], c[2], R)}

\* The order of sequences that a total order of their members makes is total.
LEMMA LexicographicIsTotal ==
    ASSUME NEW X, NEW R, StrictTotal(R, X)
    PROVE  StrictTotal(Lexicographic(R, X), Seq(X))
<1>1. \A a, b \in Seq(X) : <<a, b>> \in Lexicographic(R, X) <=> Before(a, b, R)
  BY DEF Lexicographic
<1>2. ASSUME NEW a \in Seq(X), NEW k \in 1 .. Len(a) PROVE a[k] \in X OBVIOUS
<1>3. ASSUME NEW a \in Seq(X) PROVE ~Before(a, a, R)
  <2>1. Len(a) \in Nat OBVIOUS
  <2>2. \A i \in 1 .. Len(a) : <<a[i], a[i]>> \notin R BY DEF StrictTotal
  <2>3. ~(Len(a) < Len(a)) BY <2>1
  <2>4. QED BY <2>2, <2>3, Zenon DEF Before
<1>4. ASSUME NEW a \in Seq(X), NEW b \in Seq(X), NEW c \in Seq(X), Before(a, b, R), Before(b, c, R)
      PROVE  Before(a, c, R)
  <2>1. Len(a) \in Nat /\ Len(b) \in Nat /\ Len(c) \in Nat OBVIOUS
  <2>2. CASE /\ Len(a) < Len(b) /\ \A i \in 1 .. Len(a) : a[i] = b[i]
             /\ Len(b) < Len(c) /\ \A i \in 1 .. Len(b) : b[i] = c[i]
    <3>1. Len(a) < Len(c) BY <2>1, <2>2
    <3>2. \A i \in 1 .. Len(a) : a[i] = c[i] BY <2>1, <2>2
    <3>3. QED BY <3>1, <3>2 DEF Before
  <2>3. ASSUME Len(a) < Len(b), \A i \in 1 .. Len(a) : a[i] = b[i],
               NEW i \in 1 .. Len(b), i <= Len(c), <<b[i], c[i]>> \in R,
               \A j \in 1 .. i - 1 : b[j] = c[j]
        PROVE  Before(a, c, R)
    <3>1. CASE i <= Len(a)
      <4>1. i \in 1 .. Len(a) /\ a[i] = b[i] BY <2>1, <2>3, <3>1
      <4>2. \A j \in 1 .. i - 1 : j \in 1 .. Len(a) BY <2>1, <2>3, <3>1
      <4>2a. \A j \in 1 .. i - 1 : a[j] = c[j] BY <2>3, <4>2, Zenon
      <4>3. QED BY <2>3, <4>1, <4>2a DEF Before
    <3>2. CASE i > Len(a)
      <4>1. Len(a) < Len(c) BY <2>1, <2>3, <3>2
      <4>2. \A j \in 1 .. Len(a) : a[j] = c[j] BY <2>1, <2>3, <3>2
      <4>3. QED BY <4>1, <4>2 DEF Before
    <3>3. QED BY <2>1, <3>1, <3>2
  <2>4. ASSUME NEW i \in 1 .. Len(a), i <= Len(b), <<a[i], b[i]>> \in R,
               \A j \in 1 .. i - 1 : a[j] = b[j],
               Len(b) < Len(c), \A j \in 1 .. Len(b) : b[j] = c[j]
        PROVE  Before(a, c, R)
    <3>1. i <= Len(c) /\ b[i] = c[i] BY <2>1, <2>4
    <3>2. \A j \in 1 .. i - 1 : a[j] = c[j] BY <2>1, <2>4
    <3>3. QED BY <2>4, <3>1, <3>2 DEF Before
  <2>5. ASSUME NEW i \in 1 .. Len(a), i <= Len(b), <<a[i], b[i]>> \in R,
               \A j \in 1 .. i - 1 : a[j] = b[j],
               NEW k \in 1 .. Len(b), k <= Len(c), <<b[k], c[k]>> \in R,
               \A j \in 1 .. k - 1 : b[j] = c[j]
        PROVE  Before(a, c, R)
    <3>1. CASE i < k
      <4>0. i \in 1 .. k - 1 /\ i <= Len(c) BY <2>1, <2>5, <3>1
      <4>1. i <= Len(c) /\ b[i] = c[i] BY <2>5, <4>0, Zenon
      <4>2. \A j \in 1 .. i - 1 : a[j] = c[j] BY <2>1, <2>5, <3>1
      <4>3. QED BY <2>5, <4>1, <4>2 DEF Before
    <3>2. CASE k < i
      <4>1. k \in 1 .. Len(a) /\ a[k] = b[k] BY <2>1, <2>5, <3>2
      <4>2. \A j \in 1 .. k - 1 : a[j] = c[j] BY <2>1, <2>5, <3>2
      <4>3. QED BY <2>5, <4>1, <4>2 DEF Before
    <3>3. CASE i = k
      <4>1. <<b[i], c[i]>> \in R /\ i \in 1 .. Len(b) /\ i \in 1 .. Len(c)
        BY <2>1, <2>5, <3>3
      <4>2. a[i] \in X /\ b[i] \in X /\ c[i] \in X BY <1>2, <2>5, <4>1
      <4>3. <<a[i], c[i]>> \in R BY <2>5, <4>1, <4>2 DEF StrictTotal
      <4>4. \A j \in 1 .. i - 1 : a[j] = c[j] BY <2>5, <3>3
      <4>5. i <= Len(c) BY <2>1, <4>1
      <4>6. QED BY <2>5, <4>3, <4>4, <4>5, Zenon DEF Before
    <3>4. QED BY <2>1, <3>1, <3>2, <3>3
  <2>6. QED BY <1>4, <2>2, <2>3, <2>4, <2>5 DEF Before
<1>5. ASSUME NEW a \in Seq(X), NEW b \in Seq(X), a # b PROVE Before(a, b, R) \/ Before(b, a, R)
  <2>1. Len(a) \in Nat /\ Len(b) \in Nat OBVIOUS
  <2> DEFINE Differ == {i \in 1 .. Len(a) : i <= Len(b) /\ a[i] # b[i]}
  <2>2. CASE Differ = {}
    <3>1. \A i \in 1 .. Len(a) : i <= Len(b) => a[i] = b[i] BY <2>2
    <3>2. CASE Len(a) < Len(b)
      <4>1. \A i \in 1 .. Len(a) : a[i] = b[i] BY <2>1, <3>1, <3>2
      <4>2. QED BY <3>2, <4>1 DEF Before
    <3>3. CASE Len(b) < Len(a)
      <4>1. \A i \in 1 .. Len(b) : b[i] = a[i] BY <2>1, <3>1, <3>3
      <4>2. QED BY <3>3, <4>1 DEF Before
    <3>4. CASE Len(a) = Len(b)
      <4>1. \A i \in 1 .. Len(a) : a[i] = b[i] BY <2>1, <3>1, <3>4
      <4>2. a = b BY <3>4, <4>1, SeqEqual
      <4>3. QED BY <1>5, <4>2
    <3>5. QED BY <2>1, <3>2, <3>3, <3>4
  <2>3. CASE Differ # {}
    <3>1. PICK i \in Differ : \A j \in Differ : i <= j BY <2>3, LeastNatural, Differ \subseteq Nat
    <3>2. i \in 1 .. Len(a) /\ i <= Len(b) /\ i \in 1 .. Len(b) /\ a[i] # b[i] BY <2>1
    <3>3. \A j \in 1 .. i - 1 : a[j] = b[j]
      <4> SUFFICES ASSUME NEW j \in 1 .. i - 1 PROVE a[j] = b[j] OBVIOUS
      <4>1. j \in 1 .. Len(a) /\ j <= Len(b) /\ ~(i <= j) BY <2>1, <3>2
      <4>2. j \notin Differ
        <5> HIDE DEF Differ
        <5>1. QED BY <3>1, <4>1
      <4>3. QED BY <4>1, <4>2
    <3>4. a[i] \in X /\ b[i] \in X BY <1>2, <3>2
    <3>5. <<a[i], b[i]>> \in R \/ <<b[i], a[i]>> \in R BY <3>2, <3>4 DEF StrictTotal
    <3>6. i <= Len(a) /\ \A j \in 1 .. i - 1 : b[j] = a[j] BY <2>1, <3>2, <3>3
    <3>7. QED BY <3>2, <3>3, <3>5, <3>6, Zenon DEF Before
  <2>4. QED BY <2>2, <2>3
<1>6. QED BY <1>1, <1>3, <1>4, <1>5 DEF StrictTotal

\* The first characters agree when they do one by one.
LEMMA SameStart ==
    ASSUME NEW X, NEW a \in Seq(X), NEW b \in Seq(X), NEW k \in Nat, k <= Len(a), k <= Len(b)
    PROVE  SubSeq(a, 1, k) = SubSeq(b, 1, k) <=> \A j \in 1 .. k : a[j] = b[j]
<1>1. /\ SubSeq(a, 1, k) \in Seq(X) /\ Len(SubSeq(a, 1, k)) = k
      /\ \A j \in 1 .. k : SubSeq(a, 1, k)[j] = a[j]
  OBVIOUS
<1>2. /\ SubSeq(b, 1, k) \in Seq(X) /\ Len(SubSeq(b, 1, k)) = k
      /\ \A j \in 1 .. k : SubSeq(b, 1, k)[j] = b[j]
  OBVIOUS
<1>3. ASSUME \A j \in 1 .. k : a[j] = b[j] PROVE SubSeq(a, 1, k) = SubSeq(b, 1, k)
  <2>1. PICK s, t : s = SubSeq(a, 1, k) /\ t = SubSeq(b, 1, k) OBVIOUS
  <2>2. s \in Seq(X) /\ t \in Seq(X) /\ Len(s) = k /\ Len(t) = k /\ \A j \in 1 .. k : s[j] = t[j]
    BY <1>1, <1>2, <1>3, <2>1
  <2>3. s = t BY <2>2, SeqEqual
  <2>4. QED BY <2>1, <2>3
<1>4. QED BY <1>1, <1>2, <1>3

------------------------------------------------------------------------------
(* Pieces put together, and texts taken apart *)

\* Induction: a set that has the empty sequence, and with a sequence each that is one longer.
LEMMA Growing ==
    ASSUME NEW X, NEW T, <<>> \in T,
           \A s \in Seq(X) : s \in T => \A e \in X : Append(s, e) \in T
    PROVE  Seq(X) \subseteq T
<1> SUFFICES ASSUME NEW s \in Seq(X) PROVE s \in T OBVIOUS
<1> DEFINE n == Len(s)
           K == {k \in 0 .. n : SubSeq(s, 1, k) \in T}
<1>1. n \in Nat BY LenProperties
<1>2. 0 \in K
  <2>1. SubSeq(s, 1, 0) = <<>> BY SubSeqEmpty
  <2>2. SubSeq(s, 1, 0) \in T BY <2>1
  <2>3. 0 \in 0 .. n BY <1>1
  <2>4. QED BY <2>2, <2>3
<1>3. ASSUME NEW k \in 0 .. n - 1, k \in K PROVE k + 1 \in K
  <2>1. k + 1 \in 1 .. n /\ s[k + 1] \in X /\ k + 1 \in 0 .. n BY <1>1
  <2>2. SubSeq(s, 1, k) \in Seq(X) /\ SubSeq(s, 1, k + 1) = Append(SubSeq(s, 1, k), s[k + 1])
    BY <1>1, <2>1
  <2>3. SubSeq(s, 1, k) \in T BY <1>3
  <2>4. QED BY <2>1, <2>2, <2>3
<1>4. 0 .. n \subseteq K
  <2> HIDE DEF K, n
  <2>1. QED BY <1>1, <1>2, <1>3, Induction
<1>5. n \in 0 .. n BY <1>1
<1>6. SubSeq(s, 1, n) \in T BY <1>4, <1>5
<1>7. SubSeq(s, 1, n) = s BY SubSeqFull
<1>8. QED BY <1>6, <1>7

\* Flattening, piece by piece.
LEMMA FlattenNothing == FlattenSeq(<<>>) = <<>>
BY DEF FlattenSeq

\* A piece more, at the end.
LEMMA FlattenAppend ==
    ASSUME NEW X, NEW s \in Seq(Seq(X)), NEW e \in Seq(X)
    PROVE  FlattenSeq(Append(s, e)) = FlattenSeq(s) \o e
<1> DEFINE n == Len(s)
           t == Append(s, e)
<1>1. /\ t \in Seq(Seq(X)) /\ n \in Nat /\ Len(t) = n + 1 /\ t[n + 1] = e
      /\ \A i \in 1 .. n : t[i] = s[i]
  OBVIOUS
<1> HIDE DEF t
<1>2. PICK h : /\ \A i \in 1 .. Len(t) : h[i] = IF i = 1 THEN t[i] ELSE h[i - 1] \o t[i]
               /\ FlattenSeq(t) = h[Len(t)]
  <2>1. Len(t) # 0 BY <1>1
  <2>2. QED BY <1>1, <2>1, FlattenUnfolds
<1>3. FlattenSeq(t) = IF n = 0 THEN e ELSE h[n] \o e
  <2>1. n + 1 \in 1 .. Len(t) /\ (n + 1) - 1 = n /\ (n + 1 = 1 <=> n = 0) BY <1>1
  <2>2. h[n + 1] = IF n + 1 = 1 THEN t[n + 1] ELSE h[(n + 1) - 1] \o t[n + 1] BY <1>2, <2>1
  <2>3. QED BY <1>1, <1>2, <2>1, <2>2
<1>4. CASE n = 0
  <2>1. s = <<>> BY <1>4
  <2>2. FlattenSeq(s) = <<>> BY <2>1, FlattenNothing
  <2>3. <<>> \o e = e OBVIOUS
  <2>4. QED BY <1>3, <1>4, <2>2, <2>3 DEF t
<1>5. CASE n # 0
  <2>1. PICK f : /\ \A i \in 1 .. Len(s) : f[i] = IF i = 1 THEN s[i] ELSE f[i - 1] \o s[i]
                 /\ FlattenSeq(s) = f[Len(s)]
    BY <1>5, FlattenUnfolds
  <2> DEFINE T == {k \in 0 .. n : k = 0 \/ f[k] = h[k]}
  <2>2. ASSUME NEW k \in 0 .. n - 1, k \in T PROVE k + 1 \in T
    <3>1. k + 1 \in 1 .. n /\ k + 1 \in 1 .. Len(t) /\ (k + 1) - 1 = k /\ (k + 1 = 1 <=> k = 0)
      <4> HIDE DEF T, n
      <4>1. QED BY <1>1
    <3>2. f[k + 1] = IF k + 1 = 1 THEN s[k + 1] ELSE f[(k + 1) - 1] \o s[k + 1] BY <2>1, <3>1
    <3>3. h[k + 1] = IF k + 1 = 1 THEN t[k + 1] ELSE h[(k + 1) - 1] \o t[k + 1] BY <1>2, <3>1
    <3>4. t[k + 1] = s[k + 1] BY <1>1, <3>1
    <3>5. k # 0 => f[k] = h[k] BY <2>2
    <3>6. f[k + 1] = h[k + 1]
      <4> HIDE DEF T
      <4>1. QED BY <3>1, <3>2, <3>3, <3>4, <3>5
    <3>7. QED BY <3>1, <3>6
  <2>3. 0 .. n \subseteq T
    <3>1. 0 \in T BY <1>1
    <3> HIDE DEF T
    <3>2. QED BY <1>1, <2>2, <3>1, Induction
  <2>4. f[n] = h[n]
    <3>1. n \in 0 .. n BY <1>1
    <3>2. n \in T BY <2>3, <3>1
    <3>3. QED BY <1>5, <3>2
  <2>5. QED BY <1>3, <1>5, <2>1, <2>4 DEF t
<1>6. QED BY <1>4, <1>5

\* A short list of pieces, made longer.
LEMMA AppendToShort ==
    ASSUME NEW a, NEW b, NEW c
    PROVE  Append(<<a>>, b) = <<a, b>> /\ Append(<<a, b>>, c) = <<a, b, c>>
<1> DEFINE X == {a, b, c}
<1>1. a \in X /\ b \in X /\ c \in X OBVIOUS
<1> HIDE DEF X
<1>2. <<a>> \in Seq(X) /\ <<a, b>> \in Seq(X) /\ <<a, b, c>> \in Seq(X) BY <1>1
<1>3. Append(<<a>>, b) \in Seq(X) /\ Append(<<a, b>>, c) \in Seq(X) BY <1>1, <1>2
<1>4. Append(<<a>>, b) = <<a, b>>
  <2>1. PICK s, t : s = Append(<<a>>, b) /\ t = <<a, b>> OBVIOUS
  <2>2. Len(s) = 2 /\ s[1] = a /\ s[2] = b BY <1>1, <1>2, <2>1
  <2>3. Len(t) = 2 /\ t[1] = a /\ t[2] = b BY <2>1
  <2>4. \A i \in 1 .. 2 : i = 1 \/ i = 2 OBVIOUS
  <2>5. s \in Seq(X) /\ t \in Seq(X) BY <1>2, <1>3, <2>1
  <2>6. \A i \in 1 .. Len(s) : s[i] = t[i] BY <2>2, <2>3, <2>4
  <2>7. s = t BY <2>2, <2>3, <2>5, <2>6, SeqEqual
  <2>8. QED BY <2>1, <2>7
<1>5. Append(<<a, b>>, c) = <<a, b, c>>
  <2>1. PICK s, t : s = Append(<<a, b>>, c) /\ t = <<a, b, c>> OBVIOUS
  <2>2. Len(s) = 3 /\ s[1] = a /\ s[2] = b /\ s[3] = c BY <1>1, <1>2, <2>1
  <2>3. Len(t) = 3 /\ t[1] = a /\ t[2] = b /\ t[3] = c BY <2>1
  <2>4. \A i \in 1 .. 3 : i = 1 \/ i = 2 \/ i = 3 OBVIOUS
  <2>5. s \in Seq(X) /\ t \in Seq(X) BY <1>2, <1>3, <2>1
  <2>6. \A i \in 1 .. Len(s) : s[i] = t[i] BY <2>2, <2>3, <2>4
  <2>7. s = t BY <2>2, <2>3, <2>5, <2>6, SeqEqual
  <2>8. QED BY <2>1, <2>7
<1>6. QED BY <1>4, <1>5

\* One piece is the whole.
LEMMA FlattenOne ==
    ASSUME NEW X, NEW e \in Seq(X)
    PROVE  /\ FlattenSeq(<<e>>) = e
           /\ FlattenSeq(<<e, <<>>, <<>>>>) = e
<1> DEFINE none == <<>>
           s == <<e>>
           t == <<e, <<>>>>
<1>1. none \in Seq(Seq(X)) /\ none \in Seq(X) /\ Append(none, e) = s /\ s \in Seq(Seq(X))
  OBVIOUS
<1>2. t \in Seq(Seq(X)) /\ Append(s, none) = t /\ Append(t, none) = <<e, <<>>, <<>>>>
  <2>1. none \in Seq(X) BY <1>1
  <2>2. Append(t, none) = <<e, none, none>> BY AppendToShort
  <2>3. Append(s, none) = <<e, none>> BY AppendToShort
  <2>4. t = <<e, none>> OBVIOUS
  <2> HIDE DEF s, t, none
  <2>5. <<e, none>> \in Seq(Seq(X)) BY <2>1
  <2>6. QED BY <2>2, <2>3, <2>4, <2>5 DEF none
<1>3. FlattenSeq(none) = none BY FlattenNothing
<1>4. none \o e = e /\ e \o none = e BY ConcatEmptySeq
<1> HIDE DEF none, s, t
<1>5. FlattenSeq(s) = e BY <1>1, <1>3, <1>4, FlattenAppend
<1>6. FlattenSeq(t) = e BY <1>1, <1>2, <1>4, <1>5, FlattenAppend
<1>7. FlattenSeq(Append(t, none)) = e BY <1>1, <1>2, <1>4, <1>6, FlattenAppend
<1>8. QED BY <1>2, <1>5, <1>7 DEF s

\* Two lists of pieces flatten one after the other.
LEMMA FlattenConcat ==
    ASSUME NEW X, NEW s \in Seq(Seq(X)), NEW t \in Seq(Seq(X))
    PROVE  FlattenSeq(s \o t) = FlattenSeq(s) \o FlattenSeq(t)
<1> DEFINE T == {u \in Seq(Seq(X)) : FlattenSeq(s \o u) = FlattenSeq(s) \o FlattenSeq(u)}
           none == <<>>
<1>1. FlattenSeq(s) \in Seq(X) BY FlattenTyped
<1>2. none \in T
  <2>1. none \in Seq(Seq(X)) /\ s \o none = s BY EmptySeq, ConcatEmptySeq
  <2>2. FlattenSeq(s) \o none = FlattenSeq(s) BY <1>1, ConcatEmptySeq
  <2>3. FlattenSeq(none) = none BY FlattenNothing
  <2> HIDE DEF none
  <2>4. QED BY <2>1, <2>2, <2>3
<1>3. ASSUME NEW u \in Seq(Seq(X)), u \in T, NEW e \in Seq(X) PROVE Append(u, e) \in T
  <2>1. /\ s \o u \in Seq(Seq(X)) /\ Append(u, e) \in Seq(Seq(X))
        /\ s \o Append(u, e) = Append(s \o u, e)
    OBVIOUS
  <2>2. FlattenSeq(s \o u) = FlattenSeq(s) \o FlattenSeq(u) BY <1>3
  <2>3. FlattenSeq(Append(s \o u, e)) = FlattenSeq(s \o u) \o e BY <2>1, FlattenAppend
  <2>4. FlattenSeq(Append(u, e)) = FlattenSeq(u) \o e BY FlattenAppend
  <2>5. FlattenSeq(u) \in Seq(X) BY FlattenTyped
  <2>6. (FlattenSeq(s) \o FlattenSeq(u)) \o e = FlattenSeq(s) \o (FlattenSeq(u) \o e)
    BY <1>1, <2>5, ConcatAssociative
  <2>7. QED BY <2>1, <2>2, <2>3, <2>4, <2>6
<1>4. Seq(Seq(X)) \subseteq T
  <2> HIDE DEF T
  <2>1. QED BY <1>2, <1>3, Growing
<1>5. QED BY <1>4

\* Pieces of four.
LEMMA FlattenFours ==
    ASSUME NEW X, NEW s \in Seq(Seq(X)), \A i \in 1 .. Len(s) : Len(s[i]) = 4
    PROVE  /\ Len(FlattenSeq(s)) = 4 * Len(s)
           /\ \A i \in 1 .. Len(s), j \in 1 .. 4 : FlattenSeq(s)[4 * (i - 1) + j] = s[i][j]
<1> DEFINE Fours(u) == \A i \in 1 .. Len(u) : Len(u[i]) = 4
           Placed(u) == /\ Len(FlattenSeq(u)) = 4 * Len(u)
                        /\ \A i \in 1 .. Len(u), j \in 1 .. 4 :
                             FlattenSeq(u)[4 * (i - 1) + j] = u[i][j]
           T == {u \in Seq(Seq(X)) : Fours(u) => Placed(u)}
           none == <<>>
<1>1. none \in T
  <2>1. none \in Seq(Seq(X)) /\ Len(none) = 0 BY EmptySeq
  <2>2. FlattenSeq(none) = none BY FlattenNothing
  <2> HIDE DEF none
  <2>3. QED BY <2>1, <2>2
<1>2. ASSUME NEW u \in Seq(Seq(X)), u \in T, NEW e \in Seq(X) PROVE Append(u, e) \in T
  <2> DEFINE v == Append(u, e)
  <2>1. /\ v \in Seq(Seq(X)) /\ Len(v) = Len(u) + 1 /\ Len(u) \in Nat /\ v[Len(u) + 1] = e
        /\ \A i \in 1 .. Len(u) : v[i] = u[i]
    OBVIOUS
  <2>2. FlattenSeq(v) = FlattenSeq(u) \o e BY FlattenAppend
  <2> HIDE DEF v
  <2> SUFFICES ASSUME Fours(v) PROVE Placed(v) BY <2>1 DEF v
  <2>3. Fours(u)
    <3> SUFFICES ASSUME NEW i \in 1 .. Len(u) PROVE Len(u[i]) = 4 OBVIOUS
    <3>1. i \in 1 .. Len(v) BY <2>1
    <3>2. QED BY <2>1, <3>1
  <2>4. Len(e) = 4
    <3>1. Len(u) + 1 \in 1 .. Len(v) BY <2>1
    <3>2. QED BY <2>1, <3>1
  <2>5. Placed(u) BY <1>2, <2>3
  <2>6. FlattenSeq(u) \in Seq(X) /\ Len(FlattenSeq(u)) = 4 * Len(u) BY <2>5, FlattenTyped
  <2>7. /\ Len(FlattenSeq(v)) = 4 * Len(u) + 4
        /\ \A k \in 1 .. 4 * Len(u) + 4 :
             FlattenSeq(v)[k] = IF k <= 4 * Len(u) THEN FlattenSeq(u)[k] ELSE e[k - 4 * Len(u)]
    <3> DEFINE f == FlattenSeq(u)
    <3>1. f \in Seq(X) /\ FlattenSeq(v) = f \o e /\ Len(f) = 4 * Len(u) BY <2>2, <2>6
    <3> HIDE DEF f
    <3>2. /\ Len(f \o e) = Len(f) + Len(e)
          /\ \A k \in 1 .. Len(f) + Len(e) :
               (f \o e)[k] = IF k <= Len(f) THEN f[k] ELSE e[k - Len(f)]
      BY <3>1, ConcatProperties
    <3>3. QED BY <2>4, <3>1, <3>2 DEF f
  <2>8. Len(FlattenSeq(v)) = 4 * Len(v) BY <2>1, <2>7
  <2>9. ASSUME NEW i \in 1 .. Len(v), NEW j \in 1 .. 4 PROVE FlattenSeq(v)[4 * (i - 1) + j] = v[i][j]
    <3>1. CASE i \in 1 .. Len(u)
      <4>1. /\ 4 * (i - 1) + j \in 1 .. 4 * Len(u) + 4 /\ 4 * (i - 1) + j <= 4 * Len(u)
        BY <2>1, <3>1
      <4>2. FlattenSeq(v)[4 * (i - 1) + j] = FlattenSeq(u)[4 * (i - 1) + j] BY <2>7, <4>1
      <4>3. QED BY <2>1, <2>5, <3>1, <4>2
    <3>2. CASE i = Len(u) + 1
      <4>1. /\ 4 * (i - 1) + j \in 1 .. 4 * Len(u) + 4 /\ ~(4 * (i - 1) + j <= 4 * Len(u))
            /\ (4 * (i - 1) + j) - 4 * Len(u) = j
        BY <2>1, <3>2
      <4>2. FlattenSeq(v)[4 * (i - 1) + j] = e[j] BY <2>7, <4>1
      <4>3. QED BY <2>1, <3>2, <4>2
    <3>3. QED BY <2>1, <3>1, <3>2
  <2>10. QED BY <2>8, <2>9
<1>3. Seq(Seq(X)) \subseteq T
  <2> HIDE DEF T
  <2>1. QED BY <1>1, <1>2, Growing
<1>4. QED BY <1>3

\* Pieces of two texts that agree in each character are the same.
LEMMA SlicesAgree ==
    ASSUME NEW X, NEW s \in Seq(X), NEW t \in Seq(X), NEW k \in Nat, NEW m \in Nat,
           1 <= k, k <= Len(s), m + k <= Len(t), \A j \in 1 .. k : t[m + j] = s[j]
    PROVE  SubSeq(s, 1, k) = SubSeq(t, m + 1, m + k)
<1>1. PICK x \in Nat, y \in Nat : x = m + 1 /\ y = m + k OBVIOUS
<1>2. PICK v, w : v = SubSeq(s, 1, k) /\ w = SubSeq(t, x, y) OBVIOUS
<1>3. v \in Seq(X) /\ Len(v) = k /\ \A j \in 1 .. k : v[j] = s[j] BY <1>2
<1>4. 1 <= x /\ x <= y /\ y <= Len(t) BY <1>1
<1>5. w \in Seq(X) /\ Len(w) = (y - x) + 1 /\ \A j \in 1 .. Len(w) : w[j] = t[(x + j) - 1]
  BY <1>2, <1>4
<1>6. (y - x) + 1 = k /\ \A j \in 1 .. k : (x + j) - 1 = m + j BY <1>1
<1>7. Len(w) = k BY <1>5, <1>6
<1>8. \A j \in 1 .. k : w[j] = s[j]
  <2> SUFFICES ASSUME NEW j \in 1 .. k PROVE w[j] = s[j] OBVIOUS
  <2>1. w[j] = t[(x + j) - 1] BY <1>5, <1>7
  <2>2. (x + j) - 1 = m + j BY <1>6
  <2>3. QED BY <2>1, <2>2
<1>9. \A j \in 1 .. Len(v) : v[j] = w[j] BY <1>3, <1>8
<1>10. v \in Seq(X) /\ w \in Seq(X) /\ Len(v) = Len(w) BY <1>3, <1>5, <1>7
<1>11. v = w
  BY <1>9, <1>10, SeqEqual
<1>12. SubSeq(t, m + 1, m + k) = w BY <1>1, <1>2
<1>13. QED BY <1>2, <1>11, <1>12

\* Splitting, character by character.
LEMMA SplitNothing == ASSUME NEW separator PROVE Split(<<>>, separator) = << <<>> >>
<1>1. <<>> \in Seq({}) /\ Len(<<>>) = 0 OBVIOUS
<1>2. PICK f : IsSplit(f, <<>>, separator) /\ Split(<<>>, separator) = f[Len(<<>>)]
  BY <1>1, SplitUnfolds
<1>3. QED BY <1>1, <1>2 DEF IsSplit

\* One character more ends a part or lengthens the last one.
LEMMA SplitMore ==
    ASSUME NEW X, NEW t \in Seq(X), NEW c \in X, NEW separator
    PROVE  Split(Append(t, c), separator) = PartsAfter(Split(t, separator), c, separator)
<1> DEFINE u == Append(t, c)
           n == Len(t)
<1>1. /\ u \in Seq(X) /\ Len(u) = n + 1 /\ n \in Nat /\ u[n + 1] = c
      /\ \A i \in 1 .. n : u[i] = t[i]
  OBVIOUS
<1> HIDE DEF u
<1>2. PICK g : IsSplit(g, t, separator) /\ Split(t, separator) = g[n] BY SplitUnfolds
<1>3. PICK f : IsSplit(f, u, separator) /\ Split(u, separator) = f[Len(u)] BY <1>1, SplitUnfolds
<1>4. g[n] = f[n] BY <1>1, <1>2, <1>3, SamePrefix
<1>5. f[n + 1] = PartsAfter(f[n], c, separator)
  <2>1. n + 1 \in 1 .. Len(u) /\ (n + 1) - 1 = n BY <1>1
  <2>2. QED BY <1>1, <1>3, <2>1 DEF IsSplit
<1>6. QED BY <1>1, <1>2, <1>3, <1>4, <1>5 DEF u

\* The parts of a text, of which one is the last.
PartsEnd(text, separator, front, last) == Split(text, separator) = Append(front, last)

Lacks(t, separator) == \A i \in 1 .. Len(t) : t[i] # separator

\* The last part goes on where no separator follows.
LEMMA SplitGoesOn ==
    ASSUME NEW X, NEW front \in Seq(Seq(X)), NEW a \in Seq(X), NEW last \in Seq(X),
           NEW separator, PartsEnd(a, separator, front, last),
           NEW t \in Seq(X), Lacks(t, separator)
    PROVE  PartsEnd(a \o t, separator, front, last \o t)
<1> DEFINE GoesOn(u) == PartsEnd(a \o u, separator, front, last \o u)
           T == {u \in Seq(X) : Lacks(u, separator) => GoesOn(u)}
           none == <<>>
<1>1. none \in T
  <2>1. none \in Seq(X) BY EmptySeq
  <2>2. a \o none = a /\ last \o none = last BY ConcatEmptySeq
  <2> HIDE DEF none
  <2>3. QED BY <2>1, <2>2
<1>2. ASSUME NEW u \in Seq(X), u \in T, NEW c \in X PROVE Append(u, c) \in T
  <2>0. Append(u, c) \in Seq(X) OBVIOUS
  <2> SUFFICES ASSUME Lacks(Append(u, c), separator) PROVE GoesOn(Append(u, c))
    <3> HIDE DEF GoesOn
    <3>1. QED BY <2>0
  <2>1. Lacks(u, separator) /\ c # separator
    <3>1. /\ Len(Append(u, c)) = Len(u) + 1 /\ Append(u, c)[Len(u) + 1] = c /\ Len(u) \in Nat
          /\ \A i \in 1 .. Len(u) : Append(u, c)[i] = u[i]
      OBVIOUS
    <3>2. Len(u) + 1 \in 1 .. Len(u) + 1 /\ \A i \in 1 .. Len(u) : i \in 1 .. Len(u) + 1
      BY <3>1
    <3>3. QED BY <3>1, <3>2 DEF Lacks
  <2>2. \A v \in Seq(X) : v \o u \in Seq(X) /\ v \o Append(u, c) = Append(v \o u, c) OBVIOUS
  <2>3. Split(a \o u, separator) = Append(front, last \o u) BY <1>2, <2>1 DEF PartsEnd
  <2>4. Split(Append(a \o u, c), separator)
            = PartsAfter(Append(front, last \o u), c, separator)
    <3>1. PICK w \in Seq(X) : w = a \o u BY <2>2
    <3>2. Split(Append(w, c), separator) = PartsAfter(Split(w, separator), c, separator) BY SplitMore
    <3>3. QED BY <2>3, <3>1, <3>2
  <2>5. PICK l \in Seq(X) : l = last \o u BY <2>2
  <2>6. PartsAfter(Append(front, l), c, separator) = Append(front, Append(l, c))
    <3> DEFINE P == Append(front, l)
               Q == Append(front, Append(l, c))
    <3>1. /\ P \in Seq(Seq(X)) /\ Len(P) = Len(front) + 1 /\ P[Len(front) + 1] = l
          /\ Len(front) \in Nat /\ \A i \in 1 .. Len(front) : P[i] = front[i]
      OBVIOUS
    <3>2. /\ Q \in Seq(Seq(X)) /\ Len(Q) = Len(front) + 1 /\ Q[Len(front) + 1] = Append(l, c)
          /\ \A i \in 1 .. Len(front) : Q[i] = front[i]
      <4>1. Append(l, c) \in Seq(X) OBVIOUS
      <4>2. QED BY <4>1
    <3> HIDE DEF P, Q
    <3>3. P \in NonEmptySeq(X) BY <3>1 DEF NonEmptySeq
    <3>4. PICK R : R = PartsAfter(P, c, separator) OBVIOUS
    <3>5. /\ R \in NonEmptySeq(X) /\ Len(R) = Len(P) /\ R[Len(P)] = Append(P[Len(P)], c)
          /\ \A i \in 1 .. Len(P) - 1 : R[i] = P[i]
      <4>1. /\ PartsAfter(P, c, separator) \in NonEmptySeq(X)
            /\ c # separator =>
                 /\ Len(PartsAfter(P, c, separator)) = Len(P)
                 /\ \A i \in 1 .. Len(P) - 1 : PartsAfter(P, c, separator)[i] = P[i]
                 /\ PartsAfter(P, c, separator)[Len(P)] = Append(P[Len(P)], c)
        BY <3>3, PartsAre
      <4>2. QED BY <2>1, <3>4, <4>1
    <3>6. R \in Seq(Seq(X)) BY <3>5 DEF NonEmptySeq
    <3>7. \A i \in 1 .. Len(R) : R[i] = Q[i]
      <4> SUFFICES ASSUME NEW i \in 1 .. Len(R) PROVE R[i] = Q[i] OBVIOUS
      <4>1. CASE i \in 1 .. Len(front) BY <3>1, <3>2, <3>5, <4>1
      <4>2. CASE i = Len(front) + 1 BY <3>1, <3>2, <3>5, <4>2
      <4>3. QED BY <3>1, <3>5, <4>1, <4>2
    <3>8. Len(R) = Len(Q) BY <3>1, <3>2, <3>5
    <3>9. R = Q BY <3>2, <3>6, <3>7, <3>8, SeqEqual
    <3>10. QED BY <3>4, <3>9 DEF P, Q
  <2>7. QED BY <2>2, <2>4, <2>5, <2>6 DEF PartsEnd
<1>3. Seq(X) \subseteq T
  <2> HIDE DEF T
  <2>1. QED BY <1>1, <1>2, Growing
<1>4. QED BY <1>3

\* One part, and one part more.
LEMMA SplitParts ==
    ASSUME NEW X, NEW separator \in X, NEW a \in Seq(X), NEW t \in Seq(X),
           Lacks(t, separator)
    PROVE  /\ Split(t, separator) = <<t>>
           /\ Split(a \o (<<separator>> \o t), separator) = Append(Split(a, separator), t)
           /\ Split(a, separator) \in Seq(Seq(X))
<1> DEFINE none == <<>>
<1>0. none \in Seq(X) /\ none \in Seq(Seq(X)) /\ none \o t = t /\ Append(none, none) = <<none>>
      /\ Append(none, t) = <<t>>
  BY EmptySeq, ConcatEmptySeq
<1>1. Split(none, separator) = Append(none, none) BY <1>0, SplitNothing
<1> HIDE DEF none
<1>2. Split(none \o t, separator) = Append(none, none \o t)
  <2>1. PICK front \in Seq(Seq(X)), last \in Seq(X), w \in Seq(X) :
          front = none /\ last = none /\ w = none
    BY <1>0
  <2>2. PartsEnd(w, separator, front, last) BY <1>1, <2>1 DEF PartsEnd
  <2>3. PartsEnd(w \o t, separator, front, last \o t) BY <2>2, SplitGoesOn
  <2>4. QED BY <2>1, <2>3 DEF PartsEnd
<1>3. Split(t, separator) = <<t>> BY <1>0, <1>2
<1>4. PICK P \in NonEmptySeq(X) : P = Split(a, separator)
  <2>1. PICK f \in [0 .. Len(a) -> NonEmptySeq(X)] :
          IsSplit(f, a, separator) /\ Split(a, separator) = f[Len(a)]
    BY SplitUnfolds
  <2>2. Len(a) \in 0 .. Len(a) OBVIOUS
  <2>3. QED BY <2>1, <2>2
<1>5. P \in Seq(Seq(X)) BY <1>4 DEF NonEmptySeq
<1>6. Split(Append(a, separator), separator) = Append(P, none)
  BY <1>4, SplitMore DEF PartsAfter, none
<1>7. Append(a, separator) \in Seq(X) /\ Append(a, separator) \o t = a \o (<<separator>> \o t)
  <2>1. /\ <<separator>> \in Seq(X) /\ Append(a, separator) = a \o <<separator>>
        /\ Append(a, separator) \in Seq(X)
    OBVIOUS
  <2>2. (a \o <<separator>>) \o t = a \o (<<separator>> \o t) BY <2>1, ConcatAssociative
  <2>3. QED BY <2>1, <2>2
<1>8. Split(Append(a, separator) \o t, separator) = Append(P, none \o t)
  <2>1. PICK last \in Seq(X), w \in Seq(X) : last = none /\ w = Append(a, separator) BY <1>0, <1>7
  <2>2. PartsEnd(w, separator, P, last) BY <1>6, <2>1 DEF PartsEnd
  <2>3. PartsEnd(w \o t, separator, P, last \o t) BY <1>5, <2>2, SplitGoesOn
  <2>4. QED BY <2>1, <2>3 DEF PartsEnd
<1>9. QED BY <1>0, <1>3, <1>4, <1>5, <1>7, <1>8

\* Texts none of which is empty.
LEMMA NoneEmpty ==
    ASSUME NEW X, NEW P \in Seq(Seq(X)), \A j \in 1 .. Len(P) : P[j] # <<>>
    PROVE  NonEmpty(P) = P
<1>1. NonEmpty(P) = FlattenSeq([i \in 1 .. Len(P) |-> IF P[i] = <<>> THEN <<>> ELSE <<P[i]>>])
  BY DEF NonEmpty
<1>2. DOMAIN P = 1 .. Len(P) OBVIOUS
<1>3. [i \in 1 .. Len(P) |-> IF P[i] = <<>> THEN <<>> ELSE <<P[i]>>]
          = [i \in DOMAIN P |-> <<P[i]>>]
  BY <1>2
<1>4. FlattenSeq([i \in DOMAIN P |-> <<P[i]>>]) = P BY FlattenSingles
<1>5. QED BY <1>1, <1>3, <1>4, Zenon

\* A finite set is listed whole, and nothing twice.
LEMMA ListedWhole ==
    ASSUME NEW S, IsFiniteSet(S)
    PROVE  /\ SetToSeq(S) \in [1 .. Cardinality(S) -> S] /\ Cardinality(S) \in Nat
           /\ \A x \in S : \E i \in 1 .. Cardinality(S) : SetToSeq(S)[i] = x
<1> DEFINE n == Cardinality(S)
<1>1. n \in Nat /\ ExistsBijection(1 .. n, S) BY FS_CardinalityType
<1>2. PICK f \in [1 .. n -> S] : IsInjective(f)
  BY <1>1 DEF ExistsBijection, Bijection, Injection
<1>3. PICK g : g = SetToSeq(S) OBVIOUS
<1>4. g \in [1 .. n -> S] /\ IsInjective(g) BY <1>2, <1>3 DEF SetToSeq
<1>5. g \in Injection(1 .. n, S) BY <1>4 DEF Injection
<1>6. Cardinality(1 .. n) = n
  <2>1. Cardinality(1 .. n) = IF 1 > n THEN 0 ELSE n - 1 + 1 BY <1>1, FS_Interval
  <2> HIDE DEF n
  <2>2. QED BY <1>1, <2>1
<1>7. g \in Surjection(1 .. n, S) BY <1>5, <1>6, FS_Injection
<1>8. QED BY <1>1, <1>3, <1>4, <1>7 DEF Surjection
------------------------------------------------------------------------------
(* Sorting, and the members of lists                                       *)

\* The members of S in the order R: at each place the one that as many precede.
Ranked(S, R) ==
    [r \in 1 .. Cardinality(S) |->
        CHOOSE p \in S : Cardinality({q \in S : <<q, p>> \in R}) = r - 1]

\* They are each there once, in that order.
LEMMA RankedIs ==
    ASSUME NEW S, IsFiniteSet(S), NEW R, StrictTotal(R, S)
    PROVE  /\ Ranked(S, R) \in Seq(S) /\ ToSet(Ranked(S, R)) = S
           /\ \A i, j \in 1 .. Len(Ranked(S, R)) :
                i < j => <<Ranked(S, R)[i], Ranked(S, R)[j]>> \in R
<1> DEFINE Below(p) == {q \in S : <<q, p>> \in R}
           rank == [p \in S |-> Cardinality(Below(p))]
<1>1. PICK n : n = Cardinality(S) OBVIOUS
<1>2. n \in Nat BY <1>1, FS_CardinalityType
<1>3. /\ \A p \in S : <<p, p>> \notin R
      /\ \A p, q, r \in S : <<p, q>> \in R /\ <<q, r>> \in R => <<p, r>> \in R
      /\ \A p, q \in S : p = q \/ <<p, q>> \in R \/ <<q, p>> \in R
  BY DEF StrictTotal
<1>4. \A p \in S : /\ IsFiniteSet(Below(p)) /\ rank[p] \in Nat /\ rank[p] = Cardinality(Below(p))
                   /\ IsFiniteSet(Below(p) \cup {p})
                   /\ Cardinality(Below(p) \cup {p}) = rank[p] + 1
  <2> SUFFICES ASSUME NEW p \in S
               PROVE  /\ IsFiniteSet(Below(p)) /\ rank[p] \in Nat /\ rank[p] = Cardinality(Below(p))
                      /\ IsFiniteSet(Below(p) \cup {p})
                      /\ Cardinality(Below(p) \cup {p}) = rank[p] + 1
    OBVIOUS
  <2>1. Below(p) \in SUBSET S /\ p \notin Below(p) /\ rank[p] = Cardinality(Below(p)) BY <1>3
  <2> HIDE DEF Below, rank
  <2>2. IsFiniteSet(Below(p)) BY <2>1, FS_Subset
  <2>3. QED BY <2>1, <2>2, FS_CardinalityType, FS_AddElement
<1>5. \A p \in S : rank[p] \in 0 .. n - 1
  <2> SUFFICES ASSUME NEW p \in S PROVE rank[p] \in 0 .. n - 1 OBVIOUS
  <2>1. Below(p) \cup {p} \in SUBSET S OBVIOUS
  <2> HIDE DEF Below, rank
  <2>2. Cardinality(Below(p) \cup {p}) <= n BY <1>1, <2>1, FS_Subset
  <2>3. rank[p] \in Nat /\ rank[p] + 1 <= n BY <1>4, <2>2
  <2>4. QED BY <1>2, <2>3
<1>6. \A p, q \in S : <<p, q>> \in R => rank[p] < rank[q]
  <2> SUFFICES ASSUME NEW p \in S, NEW q \in S, <<p, q>> \in R PROVE rank[p] < rank[q] OBVIOUS
  <2>1. Below(p) \cup {p} \in SUBSET Below(q) BY <1>3
  <2> HIDE DEF Below, rank
  <2>2. IsFiniteSet(Below(q)) /\ rank[q] = Cardinality(Below(q)) BY <1>4
  <2>3. Cardinality(Below(p) \cup {p}) <= rank[q] BY <2>1, <2>2, FS_Subset
  <2>4. rank[p] \in Nat /\ rank[q] \in Nat /\ rank[p] + 1 <= rank[q] BY <1>4, <2>3
  <2>5. QED BY <2>4
<1> HIDE DEF Below
<1>7. \A p, q \in S : rank[p] = rank[q] => p = q
  <2> HIDE DEF rank
  <2> SUFFICES ASSUME NEW p \in S, NEW q \in S, rank[p] = rank[q], p # q PROVE FALSE OBVIOUS
  <2>1. <<p, q>> \in R \/ <<q, p>> \in R BY <1>3
  <2>2. rank[p] < rank[q] \/ rank[q] < rank[p] BY <1>6, <2>1
  <2>3. rank[p] \in Nat /\ rank[q] \in Nat BY <1>4
  <2>4. QED BY <2>2, <2>3
<1>8. \A k \in 0 .. n - 1 : \E p \in S : rank[p] = k
  <2>1. rank \in Injection(S, 0 .. n - 1)
    <3>1. rank \in [S -> 0 .. n - 1] BY <1>5
    <3> HIDE DEF rank
    <3>2. QED BY <1>7, <3>1 DEF Injection, IsInjective
  <2>2. IsFiniteSet(0 .. n - 1) /\ Cardinality(0 .. n - 1) = n
    <3>1. n - 1 \in Int BY <1>2
    <3>2. /\ IsFiniteSet(0 .. n - 1)
          /\ Cardinality(0 .. n - 1) = IF 0 > n - 1 THEN 0 ELSE (n - 1) - 0 + 1
      BY <3>1, FS_Interval
    <3>3. QED BY <1>2, <3>2
  <2> HIDE DEF rank
  <2>3. rank \in Surjection(S, 0 .. n - 1) BY <1>1, <2>1, <2>2, FS_Injection
  <2>4. QED BY <2>3 DEF Surjection
<1> DEFINE s == Ranked(S, R)
           at(i) == CHOOSE p \in S : Cardinality(Below(p)) = i - 1
<1>9. s = [i \in 1 .. n |-> at(i)] BY <1>1 DEF Ranked, Below
<1>10. \A i \in 1 .. n : s[i] \in S /\ rank[s[i]] = i - 1
  <2> SUFFICES ASSUME NEW i \in 1 .. n PROVE s[i] \in S /\ rank[s[i]] = i - 1 OBVIOUS
  <2>1. s[i] = CHOOSE p \in S : Cardinality(Below(p)) = i - 1 BY <1>9
  <2>2. i - 1 \in 0 .. n - 1 BY <1>2
  <2>3. \E p \in S : Cardinality(Below(p)) = i - 1 BY <1>4, <1>8, <2>2
  <2> HIDE DEF s
  <2>4. s[i] \in S /\ Cardinality(Below(s[i])) = i - 1 BY <2>1, <2>3
  <2>5. QED BY <1>4, <2>4
<1>11. s \in Seq(S)
  <2> HIDE DEF s, at
  <2>1. \A i \in 1 .. n : at(i) \in S BY <1>9, <1>10
  <2>2. s \in [1 .. n -> S] BY <1>9, <2>1
  <2>3. QED BY <1>2, <2>2
<1> HIDE DEF s, rank, at
<1>12. DOMAIN s = 1 .. n BY <1>9
<1>13. ToSet(s) = S
  <2>1. \A p \in S : \E i \in DOMAIN s : s[i] = p
    <3> SUFFICES ASSUME NEW p \in S PROVE \E i \in DOMAIN s : s[i] = p OBVIOUS
    <3>1. PICK i : i = rank[p] + 1 OBVIOUS
    <3>2. i \in 1 .. n /\ i - 1 = rank[p] BY <1>2, <1>5, <3>1
    <3>3. s[i] = p BY <1>7, <1>10, <3>2
    <3>4. QED BY <1>12, <3>2, <3>3
  <2>2. \A i \in DOMAIN s : s[i] \in S BY <1>12, <1>10
  <2>3. QED BY <2>1, <2>2 DEF ToSet
<1>14. \A i, j \in 1 .. n : i < j => <<s[i], s[j]>> \in R
  <2> SUFFICES ASSUME NEW i \in 1 .. n, NEW j \in 1 .. n, i < j PROVE <<s[i], s[j]>> \in R
    OBVIOUS
  <2>1. /\ i \in 1 .. n /\ j \in 1 .. n /\ s[i] \in S /\ s[j] \in S
        /\ rank[s[i]] = i - 1 /\ rank[s[j]] = j - 1
    BY <1>12, <1>10
  <2>2. ~(rank[s[j]] < rank[s[i]]) /\ rank[s[i]] # rank[s[j]] BY <1>2, <2>1
  <2>3. QED BY <1>3, <1>6, <2>1, <2>2
<1>15. QED BY <1>2, <1>11, <1>12, <1>13, <1>14 DEF s

\* What is in two lists put together.
LEMMA ConcatenatedHas ==
    ASSUME NEW X, NEW s \in Seq(X), NEW t \in Seq(X)
    PROVE  ToSet(s \o t) = ToSet(s) \cup ToSet(t)
<1>1. PICK u, n, m : u = s \o t /\ n = Len(s) /\ m = Len(t) OBVIOUS
<1>2. /\ n \in Nat /\ m \in Nat /\ DOMAIN s = 1 .. n /\ DOMAIN t = 1 .. m
      /\ u \in Seq(X) /\ Len(u) = n + m /\ DOMAIN u = 1 .. n + m
  BY <1>1
<1>3. \A i \in 1 .. n : u[i] = s[i] BY <1>1, <1>2
<1>4. \A i \in 1 .. m : u[n + i] = t[i] BY <1>1, <1>2
<1>5. \A i \in 1 .. n : i \in DOMAIN u BY <1>2
<1>6. \A i \in 1 .. m : n + i \in DOMAIN u BY <1>2
<1>7. \A k \in DOMAIN u : k \in 1 .. n \/ (k - n \in 1 .. m /\ n + (k - n) = k) BY <1>2
<1>8. ToSet(s) \subseteq ToSet(u) BY <1>2, <1>3, <1>5 DEF ToSet
<1>9. ToSet(t) \subseteq ToSet(u) BY <1>2, <1>4, <1>6 DEF ToSet
<1>10. ToSet(u) \subseteq ToSet(s) \cup ToSet(t)
  <2> SUFFICES ASSUME NEW k \in DOMAIN u PROVE u[k] \in ToSet(s) \cup ToSet(t) BY DEF ToSet
  <2>1. CASE k \in 1 .. n BY <1>2, <1>3, <2>1 DEF ToSet
  <2>2. CASE k - n \in 1 .. m /\ n + (k - n) = k
    <3>1. u[k] = t[k - n] BY <1>4, <2>2
    <3>2. QED BY <1>2, <2>2, <3>1 DEF ToSet
  <2>3. QED BY <1>7, <2>1, <2>2
<1>11. QED BY <1>1, <1>8, <1>9, <1>10

\* What is in a list of pieces put together is in one of the pieces.
LEMMA FlattenHas ==
    ASSUME NEW X, NEW s \in Seq(Seq(X))
    PROVE  ToSet(FlattenSeq(s)) = UNION {ToSet(s[i]) : i \in 1 .. Len(s)}
<1> DEFINE U(v) == UNION {ToSet(v[i]) : i \in 1 .. Len(v)}
           T == {v \in Seq(Seq(X)) : ToSet(FlattenSeq(v)) = U(v)}
           none == <<>>
<1>1. none \in T
  <2>1. FlattenSeq(none) = none BY FlattenNothing
  <2>2. ToSet(none) = {} /\ U(none) = {} /\ none \in Seq(Seq(X)) BY DEF ToSet
  <2> HIDE DEF none, U
  <2>3. QED BY <2>1, <2>2
<1>2. ASSUME NEW v \in Seq(Seq(X)), v \in T, NEW e \in Seq(X) PROVE Append(v, e) \in T
  <2>1. PICK w, n : w = Append(v, e) /\ n = Len(v) OBVIOUS
  <2>2. /\ n \in Nat /\ w \in Seq(Seq(X)) /\ Len(w) = n + 1 /\ w[n + 1] = e
        /\ \A i \in 1 .. n : w[i] = v[i]
    BY <2>1
  <2>3. FlattenSeq(w) = FlattenSeq(v) \o e BY <2>1, FlattenAppend
  <2>4. FlattenSeq(v) \in Seq(X) BY FlattenTyped
  <2>5. ToSet(FlattenSeq(w)) = ToSet(FlattenSeq(v)) \cup ToSet(e)
    BY <2>3, <2>4, ConcatenatedHas
  <2>6. U(w) = U(v) \cup ToSet(e)
    <3>1. 1 .. Len(w) = (1 .. n) \cup {n + 1} BY <2>2
    <3>2. \A i \in 1 .. n : ToSet(w[i]) = ToSet(v[i]) BY <2>2
    <3>3. ToSet(w[n + 1]) = ToSet(e) BY <2>2
    <3>4. ASSUME NEW x PROVE x \in U(w) <=> x \in U(v) \/ x \in ToSet(e)
      <4>1. x \in U(w) <=> \E i \in 1 .. Len(w) : x \in ToSet(w[i]) OBVIOUS
      <4>2. x \in U(v) <=> \E i \in 1 .. n : x \in ToSet(v[i]) BY <2>1
      <4> HIDE DEF U
      <4>3. QED BY <3>1, <3>2, <3>3, <4>1, <4>2
    <3> HIDE DEF U
    <3>5. QED BY <3>4
  <2>7. ToSet(FlattenSeq(v)) = U(v) BY <1>2
  <2> HIDE DEF U
  <2>8. ToSet(FlattenSeq(w)) = U(w) BY <2>5, <2>6, <2>7
  <2>9. QED BY <2>1, <2>2, <2>8
<1>3. Seq(Seq(X)) \subseteq T
  <2> HIDE DEF T, none
  <2>1. none = <<>> BY DEF none
  <2>2. QED BY <1>1, <1>2, <2>1, Growing
<1>4. QED BY <1>3

\* What is in a list of which only the first of equal members are kept.
LEMMA FirstOnes ==
    ASSUME NEW X, NEW a \in Seq(X)
    PROVE  LET firsts == FlattenSeq([i \in 1 .. Len(a) |->
                             IF \E j \in 1 .. (i - 1) : a[j] = a[i] THEN <<>> ELSE <<a[i]>>])
           IN  firsts \in Seq(X) /\ ToSet(firsts) = ToSet(a)
<1> DEFINE n == Len(a)
           G == [i \in 1 .. n |-> IF \E j \in 1 .. (i - 1) : a[j] = a[i] THEN <<>> ELSE <<a[i]>>]
<1>1. n \in Nat /\ DOMAIN a = 1 .. n /\ \A i \in 1 .. n : a[i] \in X OBVIOUS
<1>2. \A i \in 1 .. n : <<a[i]>> \in Seq(X) /\ ToSet(<<a[i]>>) = {a[i]}
  <2> SUFFICES ASSUME NEW c \in X PROVE <<c>> \in Seq(X) /\ ToSet(<<c>>) = {c} BY <1>1
  <2>1. DOMAIN <<c>> = {1} /\ <<c>>[1] = c OBVIOUS
  <2>2. QED BY <2>1, TextsOfParts DEF ToSet
<1>3. ToSet(<<>>) = {} BY DEF ToSet
<1>4. \A i \in 1 .. n :
        /\ G[i] \in Seq(X)
        /\ ToSet(G[i]) = IF \E j \in 1 .. (i - 1) : a[j] = a[i] THEN {} ELSE {a[i]}
  <2> SUFFICES ASSUME NEW i \in 1 .. n
               PROVE  /\ G[i] \in Seq(X)
                      /\ ToSet(G[i]) = IF \E j \in 1 .. (i - 1) : a[j] = a[i] THEN {} ELSE {a[i]}
    OBVIOUS
  <2>1. CASE \E j \in 1 .. (i - 1) : a[j] = a[i]
    <3>1. G[i] = <<>> BY <2>1
    <3>2. <<>> \in Seq(X) OBVIOUS
    <3> HIDE DEF G, n
    <3>3. QED BY <1>3, <2>1, <3>1, <3>2
  <2>2. CASE ~\E j \in 1 .. (i - 1) : a[j] = a[i]
    <3>1. G[i] = <<a[i]>> BY <2>2
    <3> HIDE DEF G, n
    <3>2. QED BY <1>2, <2>2, <3>1
  <2>3. QED BY <2>1, <2>2
<1>5. G \in Seq(Seq(X)) /\ Len(G) = n
  <2>1. G = [i \in 1 .. n |-> G[i]] OBVIOUS
  <2> HIDE DEF G, n
  <2>2. QED BY <1>1, <1>4, <2>1
<1> HIDE DEF G
<1>6. FlattenSeq(G) \in Seq(X) BY <1>5, FlattenTyped
<1>7. ToSet(FlattenSeq(G)) = UNION {ToSet(G[i]) : i \in 1 .. n} BY <1>5, FlattenHas
<1>8. ToSet(FlattenSeq(G)) = ToSet(a)
  <2>1. ASSUME NEW x \in ToSet(FlattenSeq(G)) PROVE x \in ToSet(a)
    <3>1. PICK i \in 1 .. n : x \in ToSet(G[i]) BY <1>7
    <3>2. x = a[i] BY <1>4, <3>1
    <3>3. QED BY <1>1, <3>2 DEF ToSet
  <2>2. ASSUME NEW x \in ToSet(a) PROVE x \in ToSet(FlattenSeq(G))
    <3> DEFINE at == {i \in 1 .. n : a[i] = x}
    <3>1. at \in SUBSET Nat /\ at # {} BY <1>1 DEF ToSet
    <3>2. PICK i \in at : \A j \in at : i <= j
      <4> HIDE DEF at
      <4>1. QED BY <3>1, LeastNatural
    <3>3. i \in 1 .. n /\ a[i] = x BY <3>2
    <3>4. ASSUME NEW j \in 1 .. (i - 1), a[j] = a[i] PROVE FALSE
      <4>1. j \in 1 .. n /\ ~(i <= j) BY <1>1, <3>3
      <4>2. j \in at BY <3>3, <3>4, <4>1
      <4> HIDE DEF at
      <4>3. QED BY <3>2, <4>1, <4>2
    <3>5. ToSet(G[i]) = {x} BY <1>4, <3>3, <3>4
    <3>6. QED BY <1>7, <3>3, <3>5
  <2>3. QED BY <2>1, <2>2
<1>9. QED BY <1>6, <1>8 DEF G

\* A list given member by member.
LEMMA ListLen ==
    ASSUME NEW n \in Nat, NEW f, f = [k \in 1 .. n |-> f[k]]
    PROVE  Len(f) = n
<1>1. f \in [1 .. n -> {f[k] : k \in 1 .. n}] OBVIOUS
<1>2. QED BY <1>1

\* And a list of what its members are.
LEMMA ListTyped ==
    ASSUME NEW n \in Nat, NEW S, NEW f, f = [k \in 1 .. n |-> f[k]], \A k \in 1 .. n : f[k] \in S
    PROVE  f \in Seq(S)
<1>1. PICK g : g = [k \in 1 .. n |-> f[k]] OBVIOUS
<1>2. g \in [1 .. n -> S] BY <1>1
<1>3. g \in Seq(S) BY <1>2
<1>4. QED BY <1>1, <1>3

------------------------------------------------------------------------------
(* What ids are made of                                                    *)

Smalls == {"a", "b", "c", "d", "e", "f", "g", "h", "i", "j", "k", "l", "m",
           "n", "o", "p", "q", "r", "s", "t", "u", "v", "w", "x", "y", "z"}
Capitals == {"A", "B", "C", "D", "E", "F", "G", "H", "I", "J", "K", "L", "M",
             "N", "O", "P", "Q", "R", "S", "T", "U", "V", "W", "X", "Y", "Z"}

\* The characters normalize_module_id leaves.
IdCharacters == {LowerCase[i] : i \in 1 .. 26} \cup Digits \cup {"_", "."}

\* They are in the alphabet of ids and none is a capital; a capital of the alphabet becomes one.
LEMMA Lowered ==
    /\ \A c \in IdCharacters : InIdAlphabet(c) /\ ~IsUpper(c)
    /\ \A c : InIdAlphabet(c) => ToLower(c) \in IdCharacters
<1>1. Len(LowerCase) = 26 BY DEF LowerCase
<1>2. Len(UpperCase) = 26 BY DEF UpperCase
<1>3. \A i \in 1 .. 26 : LowerCase[i] \in Smalls BY DEF LowerCase, Smalls
<1>4. \A i \in 1 .. 26 : UpperCase[i] \in Capitals BY DEF UpperCase, Capitals
<1>5. Smalls \cap Capitals = {} BY Zenon DEF Smalls, Capitals
<1>6. Digits \cap Capitals = {} BY Zenon DEF Digits, Capitals
<1>7. "_" \notin Capitals BY Zenon DEF Capitals
<1>8. "." \notin Capitals BY Zenon DEF Capitals
<1>9. \A c : (IsLower(c) <=> \E i \in 1 .. 26 : LowerCase[i] = c)
             /\ (IsUpper(c) <=> \E i \in 1 .. 26 : UpperCase[i] = c)
  BY <1>1, <1>2 DEF IsLower, IsUpper, Contains
<1>10. \A c : IsUpper(c) => c \in Capitals BY <1>4, <1>9
<1>11. \A c : IsLower(c) => c \notin Capitals BY <1>3, <1>5, <1>9
<1>12. ASSUME NEW c \in IdCharacters PROVE InIdAlphabet(c) /\ ~IsUpper(c)
  <2>1. CASE \E i \in 1 .. 26 : LowerCase[i] = c
    BY <1>9, <1>10, <1>11, <2>1 DEF InIdAlphabet, IsAlphanumeric
  <2>2. CASE c \in Digits BY <1>6, <1>10, <2>2, Zenon DEF InIdAlphabet, IsAlphanumeric
  <2>3. CASE c = "_" BY <1>7, <1>10, <2>3, Zenon DEF InIdAlphabet
  <2>4. CASE c = "." BY <1>8, <1>10, <2>4, Zenon DEF InIdAlphabet
  <2>5. QED BY <2>1, <2>2, <2>3, <2>4, Zenon DEF IdCharacters
<1>13. ASSUME NEW c, InIdAlphabet(c) PROVE ToLower(c) \in IdCharacters
  <2>1. CASE IsUpper(c)
    <3>1. PICK i \in 1 .. 26 : i = CHOOSE k \in 1 .. 26 : UpperCase[k] = c BY <1>9, <2>1
    <3>2. ToLower(c) = LowerCase[i] BY <2>1, <3>1 DEF ToLower
    <3>3. QED BY <3>2, Zenon DEF IdCharacters
  <2>2. CASE ~IsUpper(c)
    <3>1. ToLower(c) = c BY <2>2, Zenon DEF ToLower
    <3>2. IsLower(c) \/ c \in Digits \/ c \in {"_", "."}
      BY <1>13, <2>2, Zenon DEF InIdAlphabet, IsAlphanumeric
    <3>3. CASE IsLower(c)
      <4>1. PICK i \in 1 .. 26 : LowerCase[i] = c BY <1>9, <3>3
      <4>2. QED BY <3>1, <4>1, Zenon DEF IdCharacters
    <3>4. CASE c \in Digits \cup {"_", "."} BY <3>1, <3>4, Zenon DEF IdCharacters
    <3>5. QED BY <3>2, <3>3, <3>4, Zenon
  <2>3. QED BY <2>1, <2>2
<1>14. QED BY <1>12, <1>13

\* What is left of a text without the characters it starts with is of the same characters.
LEMMA TrimmedTyped ==
    ASSUME NEW X, NEW text \in Seq(X), NEW c
    PROVE  TrimStart(text, c) \in Seq(X)
<1> DEFINE I == {i \in 1 .. Len(text) : \E j \in 1 .. i : text[j] # c}
<1>1. IsFiniteSet(1 .. Len(text)) /\ Cardinality(1 .. Len(text)) = Len(text)
  <2>1. PICK n \in Nat : n = Len(text) OBVIOUS
  <2>2. IsFiniteSet(1 .. n) /\ Cardinality(1 .. n) = IF 1 > n THEN 0 ELSE n - 1 + 1
    BY FS_Interval
  <2>3. Cardinality(1 .. n) = n BY <2>2
  <2>4. QED BY <2>1, <2>2, <2>3
<1>2. I \subseteq 1 .. Len(text) OBVIOUS
<1>3. PICK k : k = Cardinality(I) OBVIOUS
<1>4. IsFiniteSet(I) /\ k <= Len(text)
  <2> HIDE DEF I
  <2>1. QED BY <1>1, <1>2, <1>3, FS_Subset
<1>5. k \in Nat BY <1>3, <1>4, FS_CardinalityType
<1>6. TrimStart(text, c) = SubSeq(text, Len(text) + 1 - k, Len(text)) BY <1>3 DEF TrimStart
<1>7. PICK m : m = Len(text) + 1 - k OBVIOUS
<1>8. m \in 1 .. Len(text) + 1 BY <1>4, <1>5, <1>7
<1>9. SubSeq(text, m, Len(text)) \in Seq(X) BY <1>8
<1>10. QED BY <1>6, <1>7, <1>9

\* Texts, those of them that are not empty, and those put together are of the same characters.
LEMMA NonEmptyTyped ==
    ASSUME NEW X, NEW texts \in Seq(Seq(X))
    PROVE  NonEmpty(texts) \in Seq(Seq(X))
<1> DEFINE s == [i \in 1 .. Len(texts) |-> IF texts[i] = <<>> THEN <<>> ELSE <<texts[i]>>]
<1>1. PICK Y : Y = Seq(X) OBVIOUS
<1>2. \A i \in 1 .. Len(texts) : texts[i] \in Y BY <1>1
<1>3. \A i \in 1 .. Len(texts) : s[i] \in Seq(Y) BY <1>2
<1>4. s = [i \in 1 .. Len(texts) |-> s[i]] /\ Len(texts) \in Nat OBVIOUS
<1>5. s \in Seq(Seq(Y))
  <2> HIDE DEF s
  <2>1. QED BY <1>3, <1>4
<1>6. FlattenSeq(s) \in Seq(Y) BY <1>5, FlattenTyped
<1>7. QED BY <1>1, <1>6 DEF NonEmpty

\* Texts put together with a separator are of the same characters.
LEMMA JoinedTyped ==
    ASSUME NEW X, NEW parts \in Seq(Seq(X)), NEW separator \in X
    PROVE  Joined(parts, separator) \in Seq(X)
<1> DEFINE s == [i \in 1 .. Len(parts) |-> IF i = 1 THEN parts[1] ELSE <<separator>> \o parts[i]]
<1>1. \A i \in 1 .. Len(parts) : s[i] \in Seq(X)
  <2> SUFFICES ASSUME NEW i \in 1 .. Len(parts) PROVE s[i] \in Seq(X) OBVIOUS
  <2>1. parts[i] \in Seq(X) /\ <<separator>> \in Seq(X) OBVIOUS
  <2>2. <<separator>> \o parts[i] \in Seq(X) BY <2>1
  <2>3. QED BY <2>1, <2>2
<1>2. s = [i \in 1 .. Len(parts) |-> s[i]] /\ Len(parts) \in Nat OBVIOUS
<1>3. s \in Seq(Seq(X))
  <2> HIDE DEF s
  <2>1. QED BY <1>1, <1>2
<1>4. QED BY <1>3, FlattenTyped DEF Joined

\* The parts of a text are of its characters.
LEMMA SplitTyped ==
    ASSUME NEW X, NEW text \in Seq(X), NEW separator
    PROVE  Split(text, separator) \in Seq(Seq(X))
<1>1. PICK f \in [0 .. Len(text) -> NonEmptySeq(X)] : Split(text, separator) = f[Len(text)]
  BY SplitUnfolds
<1>2. Len(text) \in 0 .. Len(text) OBVIOUS
<1>3. QED BY <1>1, <1>2 DEF NonEmptySeq

\* Whatever a text was, what normalize_module_id makes of it is of the characters of ids.
LEMMA NormalizedIs ==
    ASSUME NEW X, NEW raw \in Seq(X)
    PROVE  NormalizeModuleId(raw) \in Seq(IdCharacters)
<1> DEFINE letter(i) == <<IF InIdAlphabet(raw[i]) THEN ToLower(raw[i]) ELSE "_">>
           gap(i) == IF WordEnds(raw, i) THEN <<"_">> ELSE <<>>
           pieces == [i \in 1 .. Len(raw) |-> letter(i) \o gap(i)]
           separated == FlattenSeq(pieces)
           segments == Split(separated, ".")
           trimmed == [i \in 1 .. Len(segments) |-> TrimStart(segments[i], "_")]
<1>1. "_" \in IdCharacters /\ "." \in IdCharacters BY Zenon DEF IdCharacters
<1>2. ASSUME NEW i \in 1 .. Len(raw)
      PROVE  letter(i) \in Seq(IdCharacters) /\ gap(i) \in Seq(IdCharacters)
  <2>1. PICK c : c = IF InIdAlphabet(raw[i]) THEN ToLower(raw[i]) ELSE "_" OBVIOUS
  <2>2. PICK u : u = "_" OBVIOUS
  <2>3. c \in IdCharacters /\ u \in IdCharacters BY <1>1, <2>1, <2>2, Lowered, Zenon
  <2>4. <<c>> \in Seq(IdCharacters) /\ <<u>> \in Seq(IdCharacters) BY <2>3, TextsOfParts
  <2>5. <<>> \in Seq(IdCharacters) BY EmptySeq
  <2>6. letter(i) = <<c>> /\ (gap(i) = <<u>> \/ gap(i) = <<>>) BY <2>1, <2>2, Zenon
  <2> HIDE DEF letter, gap
  <2>7. QED BY <2>4, <2>5, <2>6
<1>3. pieces \in Seq(Seq(IdCharacters))
  <2> HIDE DEF letter, gap, separated, segments, trimmed
  <2>1. \A i \in 1 .. Len(raw) : letter(i) \o gap(i) \in Seq(IdCharacters) BY <1>2
  <2>2. Len(raw) \in Nat OBVIOUS
  <2>3. pieces \in [1 .. Len(raw) -> Seq(IdCharacters)] BY <2>1
  <2> HIDE DEF pieces
  <2>4. QED BY <2>2, <2>3
<1> HIDE DEF pieces
<1>5. separated \in Seq(IdCharacters) BY <1>3, FlattenTyped
<1> HIDE DEF separated
<1>6. segments \in Seq(Seq(IdCharacters)) BY <1>5, SplitTyped
<1> HIDE DEF segments
<1>7. trimmed \in Seq(Seq(IdCharacters))
  <2>1. \A i \in 1 .. Len(segments) : segments[i] \in Seq(IdCharacters) BY <1>6
  <2>2. \A i \in 1 .. Len(segments) : TrimStart(segments[i], "_") \in Seq(IdCharacters)
    BY <2>1, TrimmedTyped
  <2>3. \A i \in 1 .. Len(segments) : trimmed[i] \in Seq(IdCharacters) BY <2>2
  <2>4. trimmed = [i \in 1 .. Len(segments) |-> trimmed[i]] /\ Len(segments) \in Nat BY <1>6
  <2> HIDE DEF trimmed
  <2>5. QED BY <2>3, <2>4
<1>8. NormalizeModuleId(raw) = Joined(NonEmpty(trimmed), ".")
  BY DEF NormalizeModuleId, pieces, separated, segments
<1> HIDE DEF trimmed
<1>9. NonEmpty(trimmed) \in Seq(Seq(IdCharacters)) BY <1>7, NonEmptyTyped
<1>10. QED BY <1>1, <1>8, <1>9, JoinedTyped

\* Each segment of an id that is not legal is among the illegal ones.
LEMMA IllegalAreListed ==
    ASSUME NEW X, NEW id \in Seq(X), NEW j \in 1 .. Len(Split(id, ".")),
           ~LegalSegment(Split(id, ".")[j])
    PROVE  IllegalSegments(id) # <<>>
<1>1. PICK segments \in Seq(Seq(X)) : segments = Split(id, ".") BY SplitTyped
<1>2. PICK Y : Y = Seq(X) OBVIOUS
<1> DEFINE s == [i \in 1 .. Len(segments) |->
                    IF LegalSegment(segments[i]) THEN <<>> ELSE <<segments[i]>>]
<1>3. \A i \in 1 .. Len(segments) : segments[i] \in Y BY <1>2
<1>4. \A i \in 1 .. Len(segments) : s[i] \in Seq(Y) BY <1>3
<1>5. s = [i \in 1 .. Len(segments) |-> s[i]] /\ Len(segments) \in Nat OBVIOUS
<1>6. s[j] = <<segments[j]>> BY <1>1
<1>7. ToSet(s[j]) = {segments[j]}
  <2>1. PICK w : w = segments[j] OBVIOUS
  <2>2. ToSet(<<w>>) = {w} BY DEF ToSet
  <2>3. QED BY <1>6, <2>1, <2>2
<1>8. IllegalSegments(id) = FlattenSeq(s) BY <1>1 DEF IllegalSegments
<1> HIDE DEF s
<1>9. s \in Seq(Seq(Y)) /\ Len(s) = Len(segments) BY <1>4, <1>5
<1>10. ToSet(FlattenSeq(s)) = UNION {ToSet(s[i]) : i \in 1 .. Len(s)} BY <1>9, FlattenHas
<1>11. segments[j] \in ToSet(FlattenSeq(s)) BY <1>1, <1>7, <1>9, <1>10
<1>12. ToSet(<<>>) = {} BY DEF ToSet
<1>13. QED BY <1>8, <1>11, <1>12
===============================================================================
