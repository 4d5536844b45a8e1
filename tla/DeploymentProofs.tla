--------------------------- MODULE DeploymentProofs ---------------------------
(***************************************************************************)
(* What holds of a directory the YAML writer writes and of the registry it *)
(* is loaded into, for all batches, modules, directories and registry      *)
(* writers, whatever step fails and wherever the process dies.             *)
(***************************************************************************)
EXTENDS Deployment, TextLemmas

------------------------------------------------------------------------------
(* The inductive invariants                                                *)

TempLabels == {"write_temp", "sync_temp", "rename", "remove_temp"}
Working == TempLabels \cup {"create_temp", "sync_dir", "verify"}

\* A batch is on its way through its modules, the one at hand under a name of its own.
CallOK ==
    /\ pc \in {"idle", "ok", "error", "create_dir", "loop"} \cup Working
    /\ batch \in Seq(Modules)
    /\ {options.dry_run, options.verify} \subseteq BOOLEAN
    /\ \E S : results \in Seq(S)
    /\ Len(results) <= Len(batch)
    /\ IsFiniteSet(taken)
    /\ pc \in Working => /\ Len(results) < Len(batch)
                         /\ ~options.dry_run
                         /\ current \in taken

\* There is a temporary file only under the name at hand, or where something went wrong.
TempsAccounted ==
    DOMAIN temps \subseteq excused \cup (IF pc \in TempLabels THEN {current} ELSE {})

\* What has been written for the module at hand, as far as the steps have come.
WorkInHand ==
    /\ pc \in {"sync_temp", "rename"} => current \in DOMAIN temps
    /\ pc = "sync_temp" => temps[current] = Whole(Document[Module])
    /\ pc = "rename" => temps[current] = Synced(Whole(Document[Module]))
    /\ pc \in {"sync_dir", "verify"} =>
         current \in DOMAIN files /\ files[current] = Synced(Whole(Document[Module]))

\* What a binding name shows is on disk; and no name is lost.
FilesSynced ==
    /\ \A n \in DOMAIN files : files[n].synced
    /\ \A n \in DOMAIN settled : settled[n].synced
    /\ DOMAIN settled \subseteq DOMAIN files

\* What was verified is still there: the document of a module that has an id and a target.
VouchedDocument(doc) == \E m \in Modules : doc = Document[m] /\ WellFormed(doc)
VouchedSound ==
    \A n \in vouched : n \in DOMAIN files /\ VouchedDocument(files[n].doc)

WriterInv == CallOK /\ TempsAccounted /\ WorkInHand /\ FilesSynced /\ VouchedSound

\* The files of the results are this batch's, none is the one at hand, and each still holds
\* the document of its own module.
ResultsKept ==
    \A i \in DOMAIN results : results[i].verified /\ ~options.dry_run =>
        /\ results[i].path \in taken
        /\ pc \in Working => results[i].path # current
        /\ results[i].path \in DOMAIN files
        /\ files[results[i].path].doc = Document[batch[i]]
------------------------------------------------------------------------------
(* Numbers                                                                 *)

\* What writes numbers.
IsNumeral(f) ==
    f = [n \in Nat |-> IF n < 10 THEN <<Digit(n)>> ELSE Append(f[n \div 10], Digit(n % 10))]

Decimal == {Digit(k) : k \in 0 .. 9}

LEMMA NumeralsWritten ==
    \E f \in [Nat -> Seq(Decimal)] : IsNumeral(f) /\ \A k : Numeral(k) = f[k]
<1> DEFINE C == Nat \X Seq(Decimal)
           Written(S, n, s) == IF n < 10 THEN s = <<Digit(n)>>
                               ELSE \E t \in Seq(Decimal) : <<n \div 10, t>> \in S
                                                            /\ s = Append(t, Digit(n % 10))
           F == [S \in SUBSET C |-> {c \in C : Written(S, c[1], c[2])}]
<1>1. F \in [SUBSET C -> SUBSET C] OBVIOUS
<1>2. \A S, T \in SUBSET C : S \subseteq T => F[S] \subseteq F[T] OBVIOUS
<1>3. PICK G \in SUBSET C : F[G] = G
  <2> HIDE DEF F, C
  <2>1. QED BY <1>1, <1>2, FixedPoint
<1>4. \A n \in Nat, s \in Seq(Decimal) : <<n, s>> \in G <=> Written(G, n, s)
  <2>1. \A n \in Nat, s \in Seq(Decimal) : <<n, s>> \in F[G] <=> Written(G, n, s) OBVIOUS
  <2> HIDE DEF F, C, Written
  <2>2. QED BY <1>3, <2>1
<1>5. \A n \in Nat : /\ n % 10 \in 0 .. 9 /\ Digit(n % 10) \in Decimal
                     /\ n < 10 => n \in 0 .. 9 /\ Digit(n) \in Decimal
                     /\ ~(n < 10) => n \div 10 \in Nat /\ n \div 10 < n
  <2>1. \A n \in Nat : n % 10 \in 0 .. 9 /\ (n < 10 => n \in 0 .. 9) OBVIOUS
  <2>2. \A n \in Nat : ~(n < 10) => n \div 10 \in Nat /\ n \div 10 < n OBVIOUS
  <2>3. QED BY <2>1, <2>2 DEF Decimal
<1> DEFINE One(n) == \E s \in Seq(Decimal) : \A t \in Seq(Decimal) : <<n, t>> \in G <=> t = s
           Bad == {n \in Nat : ~One(n)}
<1>6. \A n \in Nat : One(n)
  <2> SUFFICES ASSUME Bad # {} PROVE FALSE OBVIOUS
  <2>1. PICK n \in Bad : \A k \in Bad : n <= k BY LeastNatural, Bad \subseteq Nat
  <2>2. CASE n < 10
    <3>1. <<Digit(n)>> \in Seq(Decimal) BY <1>5, <2>2
    <3>2. \A t \in Seq(Decimal) : <<n, t>> \in G <=> t = <<Digit(n)>> BY <1>4, <2>2
    <3>3. QED BY <3>1, <3>2
  <2>3. CASE ~(n < 10)
    <3>0. n \in Nat OBVIOUS
    <3>1. n \div 10 \in Nat /\ n \div 10 \notin Bad
      <4> HIDE DEF Bad
      <4>1. QED BY <1>5, <2>1, <2>3, <3>0
    <3>2. One(n \div 10)
      <4> HIDE DEF One
      <4>1. QED BY <3>1
    <3>3. PICK s \in Seq(Decimal) : \A t \in Seq(Decimal) : <<n \div 10, t>> \in G <=> t = s
      BY <3>2
    <3>4. PICK u : u = Append(s, Digit(n % 10)) OBVIOUS
    <3>5. u \in Seq(Decimal) BY <1>5, <3>4
    <3>6. \A t \in Seq(Decimal) : <<n, t>> \in G <=> t = u BY <1>4, <2>3, <3>3, <3>4
    <3>7. QED BY <3>5, <3>6
  <2>4. QED BY <2>2, <2>3
<1> DEFINE f == [n \in Nat |-> CHOOSE s \in Seq(Decimal) : <<n, s>> \in G]
<1>7. \A n \in Nat : /\ f[n] \in Seq(Decimal) /\ <<n, f[n]>> \in G
                     /\ \A t \in Seq(Decimal) : <<n, t>> \in G => t = f[n]
  <2> SUFFICES ASSUME NEW n \in Nat
               PROVE  /\ f[n] \in Seq(Decimal) /\ <<n, f[n]>> \in G
                      /\ \A t \in Seq(Decimal) : <<n, t>> \in G => t = f[n]
    OBVIOUS
  <2>1. PICK s \in Seq(Decimal) : \A t \in Seq(Decimal) : <<n, t>> \in G <=> t = s BY <1>6
  <2>2. f[n] = CHOOSE t \in Seq(Decimal) : <<n, t>> \in G OBVIOUS
  <2> HIDE DEF f
  <2>3. QED BY <2>1, <2>2
<1>8. f \in [Nat -> Seq(Decimal)]
  <2>1. \A n \in Nat : (CHOOSE s \in Seq(Decimal) : <<n, s>> \in G) \in Seq(Decimal) BY <1>7
  <2>2. QED BY <2>1
<1>9. \A n \in Nat : f[n] = IF n < 10 THEN <<Digit(n)>> ELSE Append(f[n \div 10], Digit(n % 10))
  <2> HIDE DEF f
  <2> SUFFICES ASSUME NEW n \in Nat
               PROVE  f[n] = IF n < 10 THEN <<Digit(n)>> ELSE Append(f[n \div 10], Digit(n % 10))
    OBVIOUS
  <2>1. Written(G, n, f[n]) BY <1>4, <1>7
  <2>2. CASE n < 10 BY <2>1, <2>2
  <2>3. CASE ~(n < 10)
    <3>1. PICK t \in Seq(Decimal) : <<n \div 10, t>> \in G /\ f[n] = Append(t, Digit(n % 10))
      BY <2>1, <2>3
    <3>2. t = f[n \div 10] BY <1>5, <1>7, <2>3, <3>1
    <3>3. QED BY <2>3, <3>1, <3>2
  <2>4. QED BY <2>2, <2>3
<1>10. IsNumeral(f)
  <2> HIDE DEF f
  <2>1. f = [n \in Nat |-> f[n]] BY <1>8
  <2>2. QED BY <1>9, <2>1 DEF IsNumeral
<1> DEFINE chosen == CHOOSE e : IsNumeral(e)
<1>11. IsNumeral(chosen)
  <2> HIDE DEF f
  <2>1. QED BY <1>10
<1>12. \A k : Numeral(k) = chosen[k] BY DEF Numeral, IsNumeral
<1>13. chosen \in [Nat -> Seq(Decimal)]
  <2> HIDE DEF chosen
  <2> DEFINE Odds == {n \in Nat : chosen[n] \notin Seq(Decimal)}
  <2>1. \A n \in Nat : chosen[n] = IF n < 10 THEN <<Digit(n)>>
                                   ELSE Append(chosen[n \div 10], Digit(n % 10))
    BY <1>11 DEF IsNumeral
  <2>2. Odds = {}
    <3> SUFFICES ASSUME Odds # {} PROVE FALSE OBVIOUS
    <3>1. PICK n \in Odds : \A k \in Odds : n <= k BY LeastNatural, Odds \subseteq Nat
    <3>0. n \in Nat OBVIOUS
    <3>2. CASE n < 10
      <4>1. chosen[n] = <<Digit(n)>> /\ Digit(n) \in Decimal BY <1>5, <2>1, <3>0, <3>2
      <4>2. chosen[n] \in Seq(Decimal) BY <4>1
      <4>3. QED BY <4>2
    <3>3. CASE ~(n < 10)
      <4>1. n \div 10 \in Nat /\ n \div 10 \notin Odds
        <5> HIDE DEF Odds
        <5>1. QED BY <1>5, <3>0, <3>1, <3>3
      <4>2. chosen[n \div 10] \in Seq(Decimal) BY <4>1
      <4>3. Append(chosen[n \div 10], Digit(n % 10)) \in Seq(Decimal) BY <1>5, <4>2
      <4>4. QED BY <2>1, <3>3, <4>3
    <3>4. QED BY <3>2, <3>3
  <2>3. \A n \in Nat : chosen[n] \in Seq(Decimal) BY <2>2
  <2>4. chosen = [n \in Nat |-> chosen[n]] BY <1>11 DEF IsNumeral
  <2>5. QED BY <2>3, <2>4
<1> HIDE DEF chosen
<1>14. QED
  <2> WITNESS chosen \in [Nat -> Seq(Decimal)]
  <2>1. QED BY <1>11, <1>12

LEMMA DigitsDiffer == \A a, b \in 0 .. 9 : Digit(a) = Digit(b) => a = b
<1> SUFFICES ASSUME NEW a \in 0 .. 9, NEW b \in 0 .. 9, Digit(a) = Digit(b) PROVE a = b OBVIOUS
<1>1. \A k \in 0 .. 9 : /\ k = 0 => Digit(k) = "0"
                        /\ k = 1 => Digit(k) = "1"
                        /\ k = 2 => Digit(k) = "2"
                        /\ k = 3 => Digit(k) = "3"
                        /\ k = 4 => Digit(k) = "4"
                        /\ k = 5 => Digit(k) = "5"
                        /\ k = 6 => Digit(k) = "6"
                        /\ k = 7 => Digit(k) = "7"
                        /\ k = 8 => Digit(k) = "8"
                        /\ k = 9 => Digit(k) = "9"
  BY DEF Digit
<1>2. QED BY <1>1

\* Numbers are written in digits, different numbers differently.
LEMMA NumeralsDiffer ==
    \A j, k \in Nat : /\ Numeral(k) \in Seq(Decimal) /\ Len(Numeral(k)) >= 1
                      /\ Numeral(j) = Numeral(k) => j = k
<1>1. PICK f \in [Nat -> Seq(Decimal)] : IsNumeral(f) /\ \A k : Numeral(k) = f[k]
  BY NumeralsWritten
<1>2. \A n \in Nat : f[n] = IF n < 10 THEN <<Digit(n)>>
                            ELSE Append(f[n \div 10], Digit(n % 10))
  BY <1>1 DEF IsNumeral
<1>3. \A n \in Nat : /\ n % 10 \in 0 .. 9
                     /\ n < 10 => n \in 0 .. 9
                     /\ ~(n < 10) => n \div 10 \in Nat /\ n \div 10 < n
                     /\ n = 10 * (n \div 10) + (n % 10)
  OBVIOUS
<1>4. ASSUME NEW n \in Nat
      PROVE  /\ n < 10 => Len(f[n]) = 1 /\ f[n][1] = Digit(n)
             /\ ~(n < 10) => Len(f[n]) > 1
             /\ Len(f[n]) >= 1
  <2>1. \A m \in Nat : f[m] \in Seq(Decimal) /\ Len(f[m]) \in Nat OBVIOUS
  <2>2. ASSUME NEW m \in Nat, ~(m < 10)
        PROVE  Len(f[m]) = Len(f[m \div 10]) + 1
    <3>1. f[m \div 10] \in Seq(Decimal) BY <1>3, <2>1, <2>2
    <3>2. f[m] = Append(f[m \div 10], Digit(m % 10)) BY <1>2, <2>2
    <3>3. QED BY <3>1, <3>2
  <2>3. ASSUME NEW m \in Nat, m < 10 PROVE Len(f[m]) = 1 /\ f[m][1] = Digit(m)
    BY <1>2, <2>3
  <2> DEFINE Bad == {m \in Nat : Len(f[m]) < 1}
  <2>4. Bad = {}
    <3> SUFFICES ASSUME Bad # {} PROVE FALSE OBVIOUS
    <3>1. PICK m \in Bad : \A k \in Bad : m <= k BY LeastNatural, Bad \subseteq Nat
    <3>2. CASE m < 10 BY <2>3, <3>2
    <3>3. CASE ~(m < 10)
      <4>0. m \in Nat OBVIOUS
      <4>1. m \div 10 \in Nat /\ m \div 10 \notin Bad
        <5> HIDE DEF Bad
        <5>1. QED BY <1>3, <3>1, <3>3, <4>0
      <4>2. Len(f[m \div 10]) >= 1 BY <2>1, <4>1
      <4>3. Len(f[m]) = Len(f[m \div 10]) + 1 BY <2>2, <3>3, <4>0
      <4>4. Len(f[m \div 10]) \in Nat BY <2>1, <4>1
      <4>5. Len(f[m]) < 1 BY <3>1
      <4>6. QED BY <4>2, <4>3, <4>4, <4>5
    <3>4. QED BY <3>2, <3>3
  <2>5. \A m \in Nat : Len(f[m]) >= 1
    <3>1. \A m \in Nat : ~(Len(f[m]) < 1) BY <2>4, Zenon
    <3>2. QED BY <2>1, <3>1
  <2> HIDE DEF Bad
  <2>6. ~(n < 10) => Len(f[n]) > 1 BY <1>3, <2>1, <2>2, <2>5
  <2>7. QED BY <2>3, <2>5, <2>6
<1>4a. \A n \in Nat : /\ n < 10 => Len(f[n]) = 1 /\ f[n][1] = Digit(n)
                      /\ ~(n < 10) => Len(f[n]) > 1
  BY <1>4
<1> DEFINE Bad == {k \in Nat : \E j \in Nat : f[j] = f[k] /\ j # k}
<1>5. Bad = {}
  <2> SUFFICES ASSUME Bad # {} PROVE FALSE OBVIOUS
  <2>1. PICK k \in Bad : \A i \in Bad : k <= i BY LeastNatural, Bad \subseteq Nat
  <2>2. PICK j \in Nat : f[j] = f[k] /\ j # k OBVIOUS
  <2> HIDE DEF Bad
  <2>0. k \in Nat BY DEF Bad
  <2>3. CASE k < 10
    <3>1. j < 10
      <4>1. Len(f[k]) = 1 BY <1>4a, <2>0, <2>3
      <4>2. ~(Len(f[j]) > 1) BY <2>2, <4>1
      <4>3. QED BY <1>4a, <2>2, <4>2
    <3>2. Digit(j) = Digit(k) BY <1>4a, <2>0, <2>2, <2>3, <3>1
    <3>3. QED BY <1>3, <2>0, <2>2, <2>3, <3>1, <3>2, DigitsDiffer
  <2>4. CASE ~(k < 10)
    <3>1. ~(j < 10)
      <4>1. Len(f[k]) > 1 BY <1>4a, <2>0, <2>4
      <4>2. Len(f[j]) # 1
        <5>1. PICK l : l = Len(f[k]) OBVIOUS
        <5>2. l \in Nat /\ l > 1 BY <2>0, <4>1, <5>1
        <5>3. l # 1 BY <5>2
        <5>4. QED BY <2>2, <5>1, <5>3
      <4>3. QED BY <1>4a, <2>2, <4>2
    <3>2. PICK a, b, c, d : a = j \div 10 /\ b = k \div 10 /\ c = j % 10 /\ d = k % 10 OBVIOUS
    <3>3. a \in Nat /\ b \in Nat /\ b < k /\ c \in 0 .. 9 /\ d \in 0 .. 9
      BY <1>3, <2>0, <2>4, <3>1, <3>2
    <3>4. f[j] = Append(f[a], Digit(c)) /\ f[k] = Append(f[b], Digit(d))
      BY <1>2, <2>0, <2>4, <3>1, <3>2
    <3>5. f[a] \in Seq(Decimal) /\ f[b] \in Seq(Decimal) BY <3>3
    <3>6. f[a] = f[b] /\ Digit(c) = Digit(d)
      <4>1. Digit(c) \in Decimal /\ Digit(d) \in Decimal BY <3>3 DEF Decimal
      <4>2. Append(f[a], Digit(c)) = Append(f[b], Digit(d)) BY <2>2, <3>4
      <4>3. PICK s, t, x, y : s = f[a] /\ t = f[b] /\ x = Digit(c) /\ y = Digit(d) OBVIOUS
      <4>4. s \in Seq(Decimal) /\ t \in Seq(Decimal) /\ x \in Decimal /\ y \in Decimal
        BY <3>5, <4>1, <4>3
      <4>5. Append(s, x) = Append(t, y) BY <4>2, <4>3
      <4>6. s = t /\ x = y BY <4>4, <4>5, AppendInjective
      <4>7. QED BY <4>3, <4>6
    <3>7. c = d BY <3>3, <3>6, DigitsDiffer
    <3>8. a # b BY <1>3, <2>0, <2>2, <3>2, <3>7
    <3>9. b \in Bad BY <3>3, <3>6, <3>8 DEF Bad
    <3>10. QED BY <2>1, <3>3, <3>9, <2>0
  <2>5. QED BY <2>3, <2>4
<1>6. QED BY <1>1, <1>4, <1>5
------------------------------------------------------------------------------
(* File names                                                              *)

\* Whatever an id is, its file name is a text.
LEMMA SanitizeTyped ==
    ASSUME NEW X, NEW id \in Seq(X)
    PROVE  SanitizeFilename(id) \in Seq(NameLetters)
<1> DEFINE Safe(i) == IF id[i] \in SafeChars \cup {"."} THEN id[i] ELSE "_"
           Dot(i) == i \in DOMAIN id /\ id[i] = "."
           Piece(i) == CASE Dot(i) /\ Dot(i - 1)                -> <<>>
                         [] Dot(i) /\ ~Dot(i - 1) /\ Dot(i + 1) -> <<"_">>
                         [] OTHER                               -> <<Safe(i)>>
           pieces == [i \in DOMAIN id |-> Piece(i)]
<1>1. ASSUME NEW i \in DOMAIN id PROVE Piece(i) \in Seq(NameLetters)
  <2>1. Safe(i) \in NameLetters /\ "_" \in NameLetters BY DEF NameLetters
  <2> HIDE DEF Safe, Dot
  <2>2. <<"_">> \in Seq(NameLetters) /\ <<Safe(i)>> \in Seq(NameLetters) BY <2>1, TextsOfParts, Zenon
  <2>3. <<>> \in Seq(NameLetters) OBVIOUS
  <2>4. Piece(i) \in {<<>>, <<"_">>, <<Safe(i)>>} OBVIOUS
  <2> HIDE DEF Piece
  <2>5. QED BY <2>2, <2>3, <2>4, Zenon
<1>2. pieces \in Seq(Seq(NameLetters))
  <2> HIDE DEF Piece
  <2>1. pieces = [i \in 1 .. Len(id) |-> Piece(i)] OBVIOUS
  <2>2. QED BY <1>1, <2>1
<1>3. FlattenSeq(pieces) \in Seq(NameLetters)
  <2> HIDE DEF pieces
  <2>1. QED BY <1>2, FlattenTyped
<1>4. SanitizeFilename(id) = FlattenSeq(pieces) BY DEF SanitizeFilename
<1>5. QED BY <1>3, <1>4

\* A numbered name is a text, and another number makes another name.
LEMMA NumberedTyped ==
    ASSUME NEW base \in Seq(NameLetters), NEW k \in Nat
    PROVE  /\ Numbered(base, k) \in Seq(NameLetters)
           /\ k # 0 => /\ Len(Numbered(base, k)) = Len(base) + 1 + Len(Numeral(k))
                       /\ \A i \in 1 .. Len(Numeral(k)) :
                            Numbered(base, k)[Len(base) + 1 + i] = Numeral(k)[i]
<1>1. Numeral(k) \in Seq(NameLetters)
  <2>1. Numeral(k) \in Seq(Decimal) BY NumeralsDiffer
  <2>2. Decimal \subseteq NameLetters BY DEF Decimal, NameLetters
  <2>3. QED BY <2>1, <2>2
<1>2. "_" \in NameLetters BY DEF NameLetters
<1>3. <<"_">> \in Seq(NameLetters) /\ Len(<<"_">>) = 1 BY <1>2, TextsOfParts, Zenon
<1>4. PICK longer : longer = base \o <<"_">> OBVIOUS
<1>5. longer \in Seq(NameLetters) /\ Len(longer) = Len(base) + 1 BY <1>3, <1>4, Joining
<1>6. /\ longer \o Numeral(k) \in Seq(NameLetters)
      /\ Len(longer \o Numeral(k)) = Len(longer) + Len(Numeral(k))
      /\ \A i \in 1 .. Len(Numeral(k)) : (longer \o Numeral(k))[Len(longer) + i] = Numeral(k)[i]
  BY <1>1, <1>5, Joining
<1>7. Numbered(base, k) = IF k = 0 THEN base ELSE longer \o Numeral(k)
  <2>1. base \o <<"_">> \o Numeral(k) = longer \o Numeral(k) BY <1>4
  <2>2. QED BY <2>1 DEF Numbered
<1>8. QED BY <1>5, <1>6, <1>7, Zenon

LEMMA NumberedDiffer ==
    ASSUME NEW base \in Seq(NameLetters), NEW j \in Nat, NEW k \in Nat,
           Numbered(base, j) = Numbered(base, k)
    PROVE  j = k
<1>1. Len(base) \in Nat OBVIOUS
<1>2. Numbered(base, 0) = base BY Zenon DEF Numbered
<1>3. PICK s, t : s = Numeral(j) /\ t = Numeral(k) OBVIOUS
<1>4. s \in Seq(Decimal) /\ t \in Seq(Decimal) BY <1>3, NumeralsDiffer
<1>5. /\ j # 0 => /\ Len(Numbered(base, j)) = Len(base) + 1 + Len(s)
                  /\ \A i \in 1 .. Len(s) : Numbered(base, j)[Len(base) + 1 + i] = s[i]
      /\ k # 0 => /\ Len(Numbered(base, k)) = Len(base) + 1 + Len(t)
                  /\ \A i \in 1 .. Len(t) : Numbered(base, k)[Len(base) + 1 + i] = t[i]
  BY <1>3, NumberedTyped
<1>6. Len(s) \in Nat /\ Len(t) \in Nat BY <1>4
<1>7. j = 0 <=> k = 0
  <2>1. Len(base) # Len(base) + 1 + Len(s) /\ Len(base) # Len(base) + 1 + Len(t) BY <1>1, <1>6
  <2>2. QED BY <1>2, <1>5, <2>1, Zenon
<1>8. j # 0 => s = t
  <2> SUFFICES ASSUME j # 0 PROVE s = t OBVIOUS
  <2>1. Len(base) + 1 + Len(s) = Len(base) + 1 + Len(t) BY <1>5, <1>7
  <2>2. Len(s) = Len(t) BY <1>1, <1>6, <2>1
  <2>3. \A i \in 1 .. Len(s) : s[i] = t[i] BY <1>5, <1>7, <2>2, Zenon
  <2>4. QED BY <1>4, <2>2, <2>3, SeqEqual
<1>9. QED BY <1>3, <1>7, <1>8, NumeralsDiffer

\* The name a module is given is not one the batch has used: there are more numbers than names.
LEMMA FreeNameIsFree ==
    ASSUME NEW base \in Seq(NameLetters), NEW used, IsFiniteSet(used)
    PROVE  FreeName(base, used) \in Seq(NameLetters) \ used
<1> DEFINE n == Cardinality(used)
           free == {k \in 0 .. n : Numbered(base, k) \notin used}
<1>1. n \in Nat BY FS_CardinalityType
<1>2. free # {}
  <2> SUFFICES ASSUME free = {} PROVE FALSE OBVIOUS
  <2> DEFINE name == [k \in 0 .. n |-> Numbered(base, k)]
  <2>1. name \in [0 .. n -> used] OBVIOUS
  <2>2. IsFiniteSet(0 .. n) /\ Cardinality(0 .. n) = n + 1 BY <1>1, FS_Interval
  <2> HIDE DEF name
  <2>3. PICK j, k \in 0 .. n : j # k /\ name[j] = name[k] BY <1>1, <2>1, <2>2, FS_PigeonHole
  <2>4. QED BY <1>1, <2>3, NumberedDiffer DEF name
<1>3. PICK m \in free : \A k \in free : m <= k BY <1>1, <1>2, LeastNatural, free \subseteq Nat
<1>4. (CHOOSE k \in free : \A j \in free : k <= j) \in free BY <1>3
<1>5. FreeName(base, used) = Numbered(base, CHOOSE k \in free : \A j \in free : k <= j)
  BY DEF FreeName
<1>6. QED BY <1>1, <1>4, <1>5, NumberedTyped
------------------------------------------------------------------------------
(* Documents                                                               *)

\* The entry of a module's document, field by field.
EntryOf(m) == Entries(Binding(m))[1][2]

LEMMA BindingIs ==
    ASSUME NEW m
    PROVE  /\ Entries(Binding(m)) = <<Object(EntryOf(m))>>
           /\ Binding(m)[1] = "object" /\ DOMAIN Binding(m)[2] = {"spec_version", "bindings"}
           /\ Binding(m)[2]["bindings"] = Listing(<<Object(EntryOf(m))>>)
<1> USE DEF Object, Listing
<1>1. PICK e, v : Binding(m) = Object([spec_version |-> v, bindings |-> Listing(<<Object(e)>>)])
  BY DEF Binding
<1> DEFINE doc == [spec_version |-> v, bindings |-> Listing(<<Object(e)>>)]
<1>2. DOMAIN doc = {"spec_version", "bindings"} /\ doc["bindings"] = Listing(<<Object(e)>>) OBVIOUS
<1>3. Binding(m)[1] = "object" /\ Binding(m)[2] = doc BY <1>1
<1> HIDE DEF doc
<1>4. Entries(Binding(m)) = <<Object(e)>> BY <1>2, <1>3 DEF Entries, Given, Is
<1>5. EntryOf(m) = e BY <1>4 DEF EntryOf
<1>6. QED BY <1>2, <1>3, <1>4, <1>5

LEMMA EntryFields ==
    ASSUME NEW m, NEW e, e = EntryOf(m)
    PROVE  /\ DOMAIN e \subseteq EntryKeys \ {"warnings"}
           /\ {"module_id", "target", "description", "documentation", "tags", "version", "annotations",
               "examples", "metadata", "input_schema", "output_schema"} \subseteq DOMAIN e
           /\ "display" \in DOMAIN e <=> m.display # None
           /\ "suggested_alias" \in DOMAIN e <=> m.suggested_alias # None
           /\ e["module_id"] = Text(m.module_id) /\ e["target"] = Text(m.target)
           /\ e["description"] = Text(m.description) /\ e["version"] = Text(m.version)
           /\ e["documentation"] = OrNull("text", m.documentation)
           /\ e["tags"] = Listing([i \in DOMAIN m.tags |-> Text(m.tags[i])])
           /\ e["annotations"] = AnnotationsToDict(m.annotations)
           /\ e["examples"] = Listing([i \in DOMAIN m.examples |-> Object(m.examples[i])])
           /\ e["metadata"] = Object(m.metadata)
           /\ e["input_schema"] = m.input_schema /\ e["output_schema"] = m.output_schema
           /\ m.display # None => e["display"] = m.display
           /\ m.suggested_alias # None => e["suggested_alias"] = Text(m.suggested_alias)
<1> DEFINE entry == [module_id     |-> Text(m.module_id),
                     target        |-> Text(m.target),
                     description   |-> Text(m.description),
                     documentation |-> OrNull("text", m.documentation),
                     tags          |-> Listing([i \in DOMAIN m.tags |-> Text(m.tags[i])]),
                     version       |-> Text(m.version),
                     annotations   |-> AnnotationsToDict(m.annotations),
                     examples      |-> Listing([i \in DOMAIN m.examples |-> Object(m.examples[i])]),
                     metadata      |-> Object(m.metadata),
                     input_schema  |-> m.input_schema,
                     output_schema |-> m.output_schema,
                     display       |-> m.display,
                     suggested_alias |-> OrNull("text", m.suggested_alias)]
           absent == {k \in {"display", "suggested_alias"} : m[k] = None}
           entryOf == [k \in DOMAIN entry \ absent |-> entry[k]]
<1>1. e = entryOf
  <2>1. Binding(m) = Object([spec_version |-> Text("1.0"), bindings |-> Listing(<<Object(entryOf)>>)])
    BY DEF Binding
  <2> HIDE DEF entryOf
  <2> DEFINE doc == [spec_version |-> Text("1.0"), bindings |-> Listing(<<Object(entryOf)>>)]
  <2>2. "bindings" \in DOMAIN doc /\ doc["bindings"] = Listing(<<Object(entryOf)>>) OBVIOUS
  <2>3. Binding(m)[1] = "object" /\ Binding(m)[2] = doc BY <2>1 DEF Object
  <2> HIDE DEF doc
  <2>4. Entries(Binding(m)) = <<Object(entryOf)>> BY <2>2, <2>3 DEF Entries, Given, Is, Listing
  <2>5. QED BY <2>4 DEF EntryOf, Object
<1>2. m["display"] = m.display /\ m["suggested_alias"] = m.suggested_alias OBVIOUS
<1>3. DOMAIN e = DOMAIN entry \ absent /\ \A k \in DOMAIN e : e[k] = entry[k] BY <1>1
<1>4. "display" \in DOMAIN e <=> m.display # None BY <1>2, <1>3
<1>5. "suggested_alias" \in DOMAIN e <=> m.suggested_alias # None BY <1>2, <1>3
<1>6. {"module_id", "target", "description", "documentation", "tags", "version", "annotations",
       "examples", "metadata", "input_schema", "output_schema"} \subseteq DOMAIN e
  BY <1>3
<1>7. DOMAIN e \subseteq EntryKeys \ {"warnings"} BY <1>3 DEF EntryKeys
<1>8. m.suggested_alias # None => e["suggested_alias"] = Text(m.suggested_alias)
  BY <1>3, <1>5 DEF OrNull, Text
<1>9. QED BY <1>3, <1>4, <1>5, <1>6, <1>7, <1>8

\* A field is given what it holds, or its default.
LEMMA GivenField ==
    ASSUME NEW e, NEW key, key \in DOMAIN e, NEW type, NEW x, e[key] = <<type, x>>, NEW default
    PROVE  Given(e, key, type, default) = x
BY DEF Given, Is

LEMMA AbsentField ==
    ASSUME NEW e, NEW key, NEW type, NEW default, key \notin DOMAIN e
    PROVE  Given(e, key, type, default) = default
BY DEF Given, Is

LEMMA OtherField ==
    ASSUME NEW e, NEW key, NEW type, NEW default, e[key][1] # type
    PROVE  Given(e, key, type, default) = default
BY DEF Given, Is

LEMMA IdAndTarget ==
    ASSUME NEW m, NEW e, e = EntryOf(m)
    PROVE  /\ Given(e, "module_id", "text", <<>>) = m.module_id
           /\ Given(e, "target", "text", <<>>) = m.target
<1>1. "module_id" \in DOMAIN e /\ "target" \in DOMAIN e BY EntryFields
<1>2. e["module_id"] = <<"text", m.module_id>> /\ e["target"] = <<"text", m.target>>
  BY EntryFields DEF Text
<1>3. Given(e, "module_id", "text", <<>>) = m.module_id BY <1>1, <1>2, GivenField, Zenon
<1>4. Given(e, "target", "text", <<>>) = m.target BY <1>1, <1>2, GivenField, Zenon
<1>5. QED BY <1>3, <1>4

\* A module's document is one a loose load accepts, if the module has an id and a target, and
\* one a strict load accepts if its schemas, too, are objects.
LEMMA DocumentTaken ==
    ASSUME NEW m, m.module_id # <<>>, m.target # <<>>, NEW strict \in BOOLEAN
    PROVE  DocumentRejected(Binding(m), strict) <=>
               strict /\ ~({m.input_schema[1], m.output_schema[1]} \subseteq {"object"})
<1> DEFINE lacking == ~({m.input_schema[1], m.output_schema[1]} \subseteq {"object"})
<1>1. PICK e : e = EntryOf(m) OBVIOUS
<1>2. EntryRejected(e, strict) <=> strict /\ lacking
  <2>1. DOMAIN e \subseteq EntryKeys BY <1>1, EntryFields
  <2>2. "input_schema" \in DOMAIN e /\ "output_schema" \in DOMAIN e BY <1>1, EntryFields
  <2>3. \A field \in {"module_id", "target"} : Given(e, field, "text", <<>>) # <<>>
    BY <1>1, IdAndTarget
  <2>4. "tags" \in DOMAIN e /\ e["tags"][1] = "list"
    <3>1. "tags" \in DOMAIN e /\ e["tags"] = Listing([i \in DOMAIN m.tags |-> Text(m.tags[i])])
      BY <1>1, EntryFields
    <3>2. \A x : Listing(x)[1] = "list" BY DEF Listing
    <3>3. QED BY <3>1, <3>2
  <2>5. e["input_schema"] = m.input_schema /\ e["output_schema"] = m.output_schema
    BY <1>1, EntryFields
  <2>6. (\E field \in {"input_schema", "output_schema"} : ~Is(e, field, "object")) <=> lacking
    BY <2>2, <2>5 DEF Is
  <2> HIDE DEF lacking
  <2>7. QED BY <2>1, <2>2, <2>3, <2>4, <2>6 DEF EntryRejected
<1>3. Entries(Binding(m)) = <<Object(e)>> /\ Object(e)[1] = "object" /\ Object(e)[2] = e
  BY <1>1, BindingIs DEF Object
<1>4. Is(Binding(m)[2], "bindings", "list") BY BindingIs DEF Is, Listing
<1>5. DOMAIN Binding(m)[2] \subseteq DocumentKeys /\ Binding(m)[1] = "object" BY BindingIs DEF DocumentKeys
<1>6. /\ 1 \in DOMAIN Entries(Binding(m))
      /\ \A i \in DOMAIN Entries(Binding(m)) :
         Entries(Binding(m))[i][1] = "object" /\ Entries(Binding(m))[i][2] = e
  BY <1>3
<1> HIDE DEF lacking
<1>7. DocumentRejected(Binding(m), strict) <=> EntryRejected(e, strict)
  BY <1>4, <1>5, <1>6 DEF DocumentRejected
<1>8. QED BY <1>2, <1>7 DEF lacking

LEMMA DocumentAccepted ==
    ASSUME NEW m, m.module_id # <<>>, m.target # <<>>
    PROVE  ~DocumentRejected(Binding(m), FALSE)
<1>1. FALSE \in BOOLEAN OBVIOUS
<1>2. QED BY <1>1, DocumentTaken

\* What the built-in check passes has both.
LEMMA WellFormedNamed ==
    ASSUME NEW m, WellFormed(Binding(m))
    PROVE  m.module_id # <<>> /\ m.target # <<>>
<1>1. PICK e : e = EntryOf(m) OBVIOUS
<1>2. Entries(Binding(m)) = <<Object(e)>> /\ Object(e)[2] = e BY <1>1, BindingIs DEF Object
<1>3. \A field \in {"module_id", "target"} : ~Blank(Given(e, field, "text", <<>>))
  <2>1. 1 \in DOMAIN Entries(Binding(m)) /\ Entries(Binding(m))[1][2] = e BY <1>2
  <2>2. QED BY <2>1 DEF WellFormed
<1>4. Blank(<<>>)
  <2>1. DOMAIN <<>> = {} OBVIOUS
  <2>2. QED BY <2>1, Zenon DEF Blank
<1>5. QED BY <1>1, <1>3, <1>4, IdAndTarget, Zenon

\* A list of typed values is read back as the values.
LEMMA TypedReadBack ==
    ASSUME NEW X, NEW s \in Seq(X), NEW type
    PROVE  OfType([i \in DOMAIN s |-> <<type, s[i]>>], type) = s
<1> DEFINE values == [i \in DOMAIN s |-> <<type, s[i]>>]
           kept == [i \in DOMAIN values |-> IF values[i][1] = type THEN <<values[i][2]>> ELSE <<>>]
<1>1. kept = [i \in DOMAIN s |-> <<s[i]>>] OBVIOUS
<1>2. OfType(values, type) = FlattenSeq(kept) BY DEF OfType
<1> HIDE DEF kept, values
<1>3. QED BY <1>1, <1>2, FlattenSingles DEF values

LEMMA ParsedReadBack ==
    ASSUME NEW X, NEW s \in Seq(X), \A object \in X : Parses(object)
    PROVE  Parsed(s) = s
<1> DEFINE kept == [i \in DOMAIN s |-> IF Parses(s[i]) THEN <<s[i]>> ELSE <<>>]
<1>1. kept = [i \in DOMAIN s |-> <<s[i]>>] OBVIOUS
<1>2. Parsed(s) = FlattenSeq(kept) BY DEF Parsed
<1> HIDE DEF kept
<1>3. QED BY <1>1, <1>2, FlattenSingles

LEMMA AsLoadedIs ==
    ASSUME NEW m, IsModule(m)
    PROVE  AsLoaded(m) =
               [module_id |-> m.module_id, target |-> m.target, description |-> m.description,
                documentation |-> m.documentation, tags |-> m.tags, version |-> m.version,
                annotations |-> m.annotations, examples |-> m.examples,
                metadata |-> WithoutForbidden(m.metadata), suggested_alias |-> m.suggested_alias,
                input_schema |->
                    IF m.input_schema[1] = "object" THEN m.input_schema ELSE EmptyObject,
                output_schema |->
                    IF m.output_schema[1] = "object" THEN m.output_schema ELSE EmptyObject,
                display |-> IF m.display # None /\ m.display[1] = "object" THEN m.display ELSE None,
                warnings |-> <<>>]
<1> DEFINE data == WithoutForbidden(m.metadata)
           input == IF m.input_schema[1] = "object" THEN m.input_schema ELSE EmptyObject
           output == IF m.output_schema[1] = "object" THEN m.output_schema ELSE EmptyObject
           shown == IF m.display # None /\ m.display[1] = "object" THEN m.display ELSE None
<1>1. m = [module_id |-> m.module_id, target |-> m.target, description |-> m.description,
           documentation |-> m.documentation, tags |-> m.tags, version |-> m.version,
           annotations |-> m.annotations, examples |-> m.examples, metadata |-> m.metadata,
           suggested_alias |-> m.suggested_alias, input_schema |-> m.input_schema,
           output_schema |-> m.output_schema, display |-> m.display, warnings |-> m.warnings]
  BY DEF IsModule
<1> HIDE DEF data, input, output, shown
<1>2. PICK m1 : m1 = [m EXCEPT !.warnings = <<>>] OBVIOUS
<1>3. m1 = [module_id |-> m.module_id, target |-> m.target, description |-> m.description,
            documentation |-> m.documentation, tags |-> m.tags, version |-> m.version,
            annotations |-> m.annotations, examples |-> m.examples, metadata |-> m.metadata,
            suggested_alias |-> m.suggested_alias, input_schema |-> m.input_schema,
            output_schema |-> m.output_schema, display |-> m.display, warnings |-> <<>>]
  BY <1>1, <1>2
<1>4. PICK m2 : m2 = [m1 EXCEPT !.metadata = data] OBVIOUS
<1>5. m2 = [module_id |-> m.module_id, target |-> m.target, description |-> m.description,
            documentation |-> m.documentation, tags |-> m.tags, version |-> m.version,
            annotations |-> m.annotations, examples |-> m.examples, metadata |-> data,
            suggested_alias |-> m.suggested_alias, input_schema |-> m.input_schema,
            output_schema |-> m.output_schema, display |-> m.display, warnings |-> <<>>]
  BY <1>3, <1>4
<1>6. PICK m3 : m3 = [m2 EXCEPT !.input_schema = input] OBVIOUS
<1>7. m3 = [module_id |-> m.module_id, target |-> m.target, description |-> m.description,
            documentation |-> m.documentation, tags |-> m.tags, version |-> m.version,
            annotations |-> m.annotations, examples |-> m.examples, metadata |-> data,
            suggested_alias |-> m.suggested_alias, input_schema |-> input,
            output_schema |-> m.output_schema, display |-> m.display, warnings |-> <<>>]
  BY <1>5, <1>6
<1>8. PICK m4 : m4 = [m3 EXCEPT !.output_schema = output] OBVIOUS
<1>9. m4 = [module_id |-> m.module_id, target |-> m.target, description |-> m.description,
            documentation |-> m.documentation, tags |-> m.tags, version |-> m.version,
            annotations |-> m.annotations, examples |-> m.examples, metadata |-> data,
            suggested_alias |-> m.suggested_alias, input_schema |-> input,
            output_schema |-> output, display |-> m.display, warnings |-> <<>>]
  BY <1>7, <1>8
<1>10. PICK m5 : m5 = [m4 EXCEPT !.display = shown] OBVIOUS
<1>11. m5 = [module_id |-> m.module_id, target |-> m.target, description |-> m.description,
             documentation |-> m.documentation, tags |-> m.tags, version |-> m.version,
             annotations |-> m.annotations, examples |-> m.examples, metadata |-> data,
             suggested_alias |-> m.suggested_alias, input_schema |-> input,
             output_schema |-> output, display |-> shown, warnings |-> <<>>]
  BY <1>9, <1>10
<1>12. AsLoaded(m) = m5
  BY <1>1, <1>2, <1>4, <1>6, <1>8, <1>10, Zenon DEF AsLoaded, data, input, output, shown
<1>13. QED BY <1>11, <1>12 DEF data, input, output, shown

\* The loader is the inverse of the writer: of a module's document it makes the module, but for
\* what AsLoaded says is lost.
LEMMA RoundTrip ==
    ASSUME NEW m, IsModule(m)
    PROVE  ModulesOf(Binding(m)) = <<AsLoaded(m)>>
<1>0. PICK e : e = EntryOf(m) OBVIOUS
<1> DEFINE l == ModuleOf(e)
<1>1. ModulesOf(Binding(m)) = <<l>>
  <2>1. Entries(Binding(m)) = <<Object(e)>> /\ Object(e)[2] = e BY <1>0, BindingIs DEF Object
  <2>2. QED BY <2>1 DEF ModulesOf
<1>2. /\ "description" \in DOMAIN e /\ "version" \in DOMAIN e /\ "documentation" \in DOMAIN e
      /\ "metadata" \in DOMAIN e /\ "tags" \in DOMAIN e /\ "examples" \in DOMAIN e
      /\ "annotations" \in DOMAIN e /\ "input_schema" \in DOMAIN e /\ "output_schema" \in DOMAIN e
  BY <1>0, EntryFields
<1>3. /\ l.module_id = m.module_id /\ l.target = m.target
      /\ l.description = m.description /\ l.version = m.version
      /\ l.metadata = WithoutForbidden(m.metadata)
  <2>0. e["module_id"] = <<"text", m.module_id>> /\ e["target"] = <<"text", m.target>>
    BY <1>0, EntryFields DEF Text
  <2>1. e["module_id"][2] = m.module_id /\ e["target"][2] = m.target BY <2>0
  <2>2. e["description"] = <<"text", m.description>> /\ e["version"] = <<"text", m.version>>
    BY <1>0, EntryFields DEF Text
  <2>3. e["metadata"] = <<"object", m.metadata>> BY <1>0, EntryFields DEF Object
  <2>4. Given(e, "description", "text", "") = m.description BY <1>2, <2>2, GivenField, Zenon
  <2>5. Given(e, "version", "text", "1.0.0") = m.version BY <1>2, <2>2, GivenField, Zenon
  <2>6. Given(e, "metadata", "object", <<>>) = m.metadata BY <1>2, <2>3, GivenField, Zenon
  <2>7. QED BY <2>1, <2>4, <2>5, <2>6 DEF ModuleOf
<1>4. l.documentation = m.documentation
  <2>1. e["documentation"] = IF m.documentation = None THEN <<"null", <<>>>> ELSE <<"text", m.documentation>>
    BY <1>0, EntryFields, Zenon DEF OrNull, Null
  <2>2. CASE m.documentation = None
    <3>1. e["documentation"][1] # "text" BY <2>1, <2>2
    <3>2. Given(e, "documentation", "text", None) = None BY <3>1, OtherField, Zenon
    <3>3. QED BY <2>2, <3>2 DEF ModuleOf
  <2>3. CASE m.documentation # None
    <3>1. Given(e, "documentation", "text", None) = m.documentation
      BY <1>2, <2>1, <2>3, GivenField, Zenon
    <3>2. QED BY <3>1 DEF ModuleOf
  <2>4. QED BY <2>2, <2>3
<1>5. l.suggested_alias = m.suggested_alias
  <2>1. CASE m.suggested_alias = None
    <3>1. "suggested_alias" \notin DOMAIN e BY <1>0, <2>1, EntryFields
    <3>2. Given(e, "suggested_alias", "text", None) = None BY <3>1, AbsentField, Zenon
    <3>3. QED BY <2>1, <3>2 DEF ModuleOf
  <2>2. CASE m.suggested_alias # None
    <3>1. "suggested_alias" \in DOMAIN e /\ e["suggested_alias"] = <<"text", m.suggested_alias>>
      BY <1>0, <2>2, EntryFields, Zenon DEF Text
    <3>2. Given(e, "suggested_alias", "text", None) = m.suggested_alias BY <3>1, GivenField, Zenon
    <3>3. QED BY <3>2 DEF ModuleOf
  <2>3. QED BY <2>1, <2>2
<1>6. ASSUME NEW key, NEW schema, key \in DOMAIN e, e[key] = schema, schema = <<schema[1], schema[2]>>
      PROVE  Object(Given(e, key, "object", <<>>))
                 = IF schema[1] = "object" THEN schema ELSE EmptyObject
  <2>1. CASE schema[1] = "object"
    <3>1. e[key] = <<"object", schema[2]>> BY <1>6, <2>1
    <3>2. Given(e, key, "object", <<>>) = schema[2]
      <4>1. key \in DOMAIN e BY <1>6
      <4>2. QED BY <3>1, <4>1, GivenField, Zenon
    <3>3. Object(schema[2]) = schema BY <1>6, <2>1 DEF Object
    <3>4. QED BY <2>1, <3>2, <3>3, Zenon
  <2>2. CASE schema[1] # "object"
    <3>1. e[key][1] # "object" BY <1>6, <2>2
    <3>2. Given(e, key, "object", <<>>) = <<>> BY <3>1, OtherField, Zenon
    <3>3. QED BY <2>2, <3>2, Zenon DEF EmptyObject
  <2>3. QED BY <2>1, <2>2
<1>7. /\ l.input_schema = IF m.input_schema[1] = "object" THEN m.input_schema ELSE EmptyObject
      /\ l.output_schema = IF m.output_schema[1] = "object" THEN m.output_schema ELSE EmptyObject
  <2>1. e["input_schema"] = m.input_schema /\ e["output_schema"] = m.output_schema
    BY <1>0, EntryFields
  <2>2. /\ m.input_schema = <<m.input_schema[1], m.input_schema[2]>>
        /\ m.output_schema = <<m.output_schema[1], m.output_schema[2]>>
    BY DEF IsModule
  <2>3. l.input_schema = Object(Given(e, "input_schema", "object", <<>>))
    BY DEF ModuleOf
  <2>4. l.output_schema = Object(Given(e, "output_schema", "object", <<>>))
    BY DEF ModuleOf
  <2> HIDE DEF l
  <2>5. QED BY <1>2, <1>6, <2>1, <2>2, <2>3, <2>4, Zenon
<1>8. l.display = IF m.display # None /\ m.display[1] = "object" THEN m.display ELSE None
  <2>1. "display" \in DOMAIN e <=> m.display # None BY <1>0, EntryFields
  <2>2. m.display # None => e["display"] = m.display BY <1>0, EntryFields
  <2>3. QED BY <2>1, <2>2 DEF ModuleOf, Is
<1>9. l.annotations = m.annotations
  <2>1. CASE m.annotations = None
    <3>1. e["annotations"] = <<"null", <<>>>>
      BY <1>0, <2>1, EntryFields, Zenon DEF AnnotationsToDict, Null
    <3>2. e["annotations"][1] # "object" BY <3>1
    <3>3. l.annotations = None BY <3>2 DEF ModuleOf, Is
    <3>4. QED BY <2>1, <3>3
  <2>2. CASE m.annotations # None
    <3>1. m.annotations \in [streaming : BOOLEAN] BY <2>2 DEF IsModule
    <3> DEFINE b == m.annotations.streaming
               object == [streaming |-> <<"flag", b>>]
    <3>2. e["annotations"] = <<"object", object>>
      BY <1>0, <2>2, EntryFields DEF AnnotationsToDict, Object, Flag
    <3>3. Given(e, "annotations", "object", <<>>) = object
      <4> HIDE DEF object
      <4>1. QED BY <1>2, <3>2, GivenField, Zenon
    <3>4. Given(object, "streaming", "flag", FALSE) = b
      <4>1. "streaming" \in DOMAIN object /\ object["streaming"] = <<"flag", b>> OBVIOUS
      <4> HIDE DEF object
      <4>2. QED BY <4>1, GivenField, Zenon
    <3>5. Parses(object)
      <4>1. \A key \in DOMAIN object : object[key] = <<"flag", b>> OBVIOUS
      <4>2. <<"flag", b>> # Odd BY DEF Odd
      <4>3. QED BY <4>1, <4>2 DEF Parses
    <3>6. Is(e, "annotations", "object")
      <4> HIDE DEF object
      <4>1. e["annotations"][1] = "object" BY <3>2
      <4>2. QED BY <1>2, <4>1 DEF Is
    <3>7. l.annotations = [streaming |-> b]
      <4> HIDE DEF object
      <4>1. QED BY <3>3, <3>4, <3>5, <3>6 DEF ModuleOf
    <3>8. QED BY <3>1, <3>7
  <2>3. QED BY <2>1, <2>2
<1>10. l.warnings = <<>>
  <2>1. "warnings" \notin DOMAIN e BY <1>0, EntryFields
  <2>2. Given(e, "warnings", "list", <<>>) = <<>> BY <2>1, AbsentField, Zenon
  <2>3. l.warnings = OfType(<<>>, "text") BY <2>2 DEF ModuleOf
  <2>4. <<>> \in Seq({}) /\ [i \in DOMAIN <<>> |-> <<"text", <<>>[i]>>] = <<>> OBVIOUS
  <2>5. OfType(<<>>, "text") = <<>> BY <2>4, TypedReadBack, Zenon
  <2>6. QED BY <2>3, <2>5
<1>11. l.tags = m.tags
  <2>1. m.tags \in Seq(STRING) BY DEF IsModule
  <2> DEFINE tags == [i \in DOMAIN m.tags |-> <<"text", m.tags[i]>>]
  <2>2. e["tags"] = <<"list", tags>> BY <1>0, EntryFields, Zenon DEF Listing, Text
  <2>3. OfType(tags, "text") = m.tags BY <2>1, TypedReadBack, Zenon
  <2> HIDE DEF tags
  <2>4. Given(e, "tags", "list", <<>>) = tags BY <1>2, <2>2, GivenField, Zenon
  <2>5. QED BY <2>3, <2>4 DEF ModuleOf
<1>12. l.examples = m.examples
  <2> DEFINE X == {object \in {m.examples[i] : i \in DOMAIN m.examples} : Parses(object)}
             examples == [i \in DOMAIN m.examples |-> <<"object", m.examples[i]>>]
  <2>1. m.examples \in Seq(X) /\ \A object \in X : Parses(object) BY DEF IsModule
  <2>2. e["examples"] = <<"list", examples>> BY <1>0, EntryFields, Zenon DEF Listing, Object
  <2> HIDE DEF X
  <2>3. OfType(examples, "object") = m.examples BY <2>1, TypedReadBack, Zenon
  <2>4. Parsed(m.examples) = m.examples BY <2>1, ParsedReadBack
  <2> HIDE DEF examples
  <2>5. Given(e, "examples", "list", <<>>) = examples BY <1>2, <2>2, GivenField, Zenon
  <2>6. QED BY <2>3, <2>4, <2>5 DEF ModuleOf
<1>13. AsLoaded(m) = l
  <2>1. l = [module_id |-> l.module_id, target |-> l.target, description |-> l.description,
             documentation |-> l.documentation, tags |-> l.tags, version |-> l.version,
             annotations |-> l.annotations, examples |-> l.examples, metadata |-> l.metadata,
             suggested_alias |-> l.suggested_alias, input_schema |-> l.input_schema,
             output_schema |-> l.output_schema, display |-> l.display, warnings |-> l.warnings]
    BY DEF ModuleOf
  <2> HIDE DEF l
  <2>2. QED BY <1>3, <1>4, <1>5, <1>7, <1>8, <1>9, <1>10, <1>11, <1>12, <2>1, AsLoadedIs
<1>14. QED BY <1>1, <1>13
------------------------------------------------------------------------------
(* The writer's steps                                                      *)

\* A step of the system is one of the writer's, a crash, a power failure, or leaves it alone.
LEMMA WriterNext ==
    [Next]_vars => WriterStep \/ Crash \/ PowerLoss \/ UNCHANGED writerVars
BY DEF Next, vars, writerVars

\* There is a module at hand, one a caller may write.
LEMMA ModuleAtHand ==
    ASSUME CallOK, Len(results) < Len(batch)
    PROVE  /\ Len(results) + 1 \in DOMAIN batch /\ Module \in Modules /\ IsModule(Module)
           /\ Document[Module] = Binding(Module)
<1>1. batch \in Seq(Modules) /\ Len(results) \in Nat BY DEF CallOK
<1>2. Len(results) + 1 \in 1 .. Len(batch) BY <1>1
<1>3. Module \in Modules BY <1>1, <1>2 DEF Module
<1>4. QED BY <1>1, <1>2, <1>3, WriterAssumption DEF WriterAssumption, Document

LEMMA Reported1 ==
    ASSUME CallOK, NEW path, NEW verified, Report(path, verified), Len(results) < Len(batch),
           IsFiniteSet(taken')
    PROVE  CallOK'
<1> DEFINE r == [module_id |-> Module.module_id, path |-> path, verified |-> verified]
<1>1. PICK S : results \in Seq(S) BY DEF CallOK
<1>2. results' = Append(results, r) BY DEF Report
<1> HIDE DEF r
<1>3. results' \in Seq(S \cup {r}) /\ Len(results') = Len(results) + 1 BY <1>1, <1>2, AppendOne
<1>4. Len(results) \in Nat /\ Len(batch) \in Nat BY <1>1 DEF CallOK
<1>5. Len(results') <= Len(batch) BY <1>3, <1>4
<1>6. pc' = "loop" /\ batch' = batch /\ options' = options BY DEF Report
<1>7. QED BY <1>3, <1>5, <1>6 DEF CallOK, Working, TempLabels

LEMMA CallStep == CallOK /\ [Next]_vars => CallOK'
<1> SUFFICES ASSUME CallOK, [Next]_vars PROVE CallOK' OBVIOUS
<1> USE DEF Working, TempLabels
<1>0. \E S : <<>> \in Seq(S) OBVIOUS
<1>1. CASE Begin
  <2>1. PICK b \in Batches, o \in Options :
          batch' = b /\ options' = o /\ pc' \in {"loop", "create_dir"}
    BY <1>1 DEF Begin
  <2>2. b \in Seq(Modules) /\ {o.dry_run, o.verify} \subseteq BOOLEAN
    BY <2>1, WriterAssumption DEF WriterAssumption
  <2>3. results' = <<>> /\ taken' = {} BY <1>1 DEF Begin
  <2>4. Len(results') <= Len(batch') BY <2>1, <2>2, <2>3
  <2>5. QED BY <1>0, <2>1, <2>2, <2>3, <2>4, FS_EmptySet DEF CallOK
<1>2. CASE CreateDir \/ Finish \/ CreateTemp \/ WriteTemp \/ SyncTemp \/ Rename \/ RemoveTemp \/ SyncDir
  BY <1>2 DEF CreateDir, Finish, CreateTemp, WriteTemp, SyncTemp, Rename, RemoveTemp, SyncDir,
              Goto, Return, CallOK
<1>3. CASE DryRun
  <2>1. Report(None, TRUE) /\ Len(results) < Len(batch) /\ taken' = taken BY <1>3 DEF DryRun
  <2>2. QED BY <2>1, Reported1 DEF CallOK
<1>4. CASE Claim
  <2> DEFINE name == FreeName(SanitizeFilename(Module.module_id), taken)
  <2>1. Len(results) < Len(batch) /\ taken' = taken \cup {name} /\ ~options.dry_run BY <1>4 DEF Claim
  <2>2. \/ Report(name, FALSE)
        \/ pc' = "create_temp" /\ current' = name /\ UNCHANGED <<batch, options, results, started>>
    BY <1>4, Zenon DEF Claim
  <2> HIDE DEF name
  <2>3. IsFiniteSet(taken') BY <2>1, FS_AddElement DEF CallOK
  <2>4. CASE Report(name, FALSE) BY <2>1, <2>3, <2>4, Reported1
  <2>5. CASE pc' = "create_temp" /\ current' = name /\ UNCHANGED <<batch, options, results, started>>
    BY <2>1, <2>3, <2>5 DEF CallOK
  <2>6. QED BY <2>2, <2>4, <2>5
<1>5. CASE Verify
  <2>1. PICK verified : Report(current, verified) BY <1>5 DEF Verify
  <2>2. Len(results) < Len(batch) /\ taken' = taken /\ IsFiniteSet(taken) BY <1>5 DEF Verify, CallOK
  <2>3. QED BY <2>1, <2>2, Reported1
<1>6. CASE Crash \/ PowerLoss
  <2>1. Dies BY <1>6 DEF Crash, PowerLoss
  <2>2. batch' = <<>> /\ results' = <<>> /\ taken' = {} /\ pc' = "idle" /\ options' = options
    BY <2>1 DEF Dies
  <2>3. Len(<<>>) <= Len(<<>>) /\ <<>> \in Seq(Modules) OBVIOUS
  <2>4. QED BY <1>0, <2>2, <2>3, FS_EmptySet DEF CallOK
<1>7. CASE UNCHANGED writerVars BY <1>7 DEF writerVars, writer, CallOK
<1>8. QED BY <1>1, <1>2, <1>3, <1>4, <1>5, <1>6, <1>7, WriterNext DEF WriterStep

\* Every temporary file is accounted for.
LEMMA TempsStep == TempsAccounted /\ [Next]_vars => TempsAccounted'
<1> SUFFICES ASSUME TempsAccounted, [Next]_vars PROVE TempsAccounted' OBVIOUS
<1> USE DEF TempLabels
<1>1. CASE Begin \/ CreateDir \/ Finish \/ DryRun \/ SyncDir \/ Verify
  <2>1. temps' = temps /\ excused' = excused /\ pc \notin TempLabels
    BY <1>1 DEF Begin, CreateDir, Finish, DryRun, SyncDir, Verify, disk
  <2>2. QED BY <2>1 DEF TempsAccounted
<1>2. CASE Claim
  <2>1. temps' = temps /\ excused' = excused /\ pc \notin TempLabels BY <1>2 DEF Claim, disk
  <2>2. QED BY <2>1 DEF TempsAccounted
<1>3. CASE CreateTemp
  <2>1. pc \notin TempLabels /\ pc' \in TempLabels /\ current' = current /\ excused' = excused
    BY <1>3 DEF CreateTemp, Goto
  <2>2. DOMAIN temps' \subseteq DOMAIN temps \cup {current} BY <1>3 DEF CreateTemp, Put
  <2>3. QED BY <2>1, <2>2 DEF TempsAccounted
<1>4. CASE WriteTemp \/ SyncTemp
  <2>1. pc \in TempLabels /\ pc' \in TempLabels /\ current' = current /\ excused' = excused
    BY <1>4 DEF WriteTemp, SyncTemp, Goto
  <2>2. DOMAIN temps' \subseteq DOMAIN temps \cup {current} BY <1>4 DEF WriteTemp, SyncTemp, Put
  <2>3. QED BY <2>1, <2>2 DEF TempsAccounted
<1>5. CASE Rename
  <2>1. pc \in TempLabels /\ current' = current /\ excused' = excused BY <1>5 DEF Rename, Goto
  <2>2. \/ pc' \in TempLabels /\ temps' = temps
        \/ DOMAIN temps' = DOMAIN temps \ {current}
    BY <1>5 DEF Rename, Goto
  <2>3. QED BY <2>1, <2>2 DEF TempsAccounted
<1>6. CASE RemoveTemp
  <2>1. pc \in TempLabels BY <1>6 DEF RemoveTemp
  <2>2. \/ DOMAIN temps' = DOMAIN temps \ {current} /\ excused' = excused
        \/ temps' = temps /\ excused' = excused \cup {current}
    BY <1>6 DEF RemoveTemp
  <2>3. QED BY <2>1, <2>2 DEF TempsAccounted
<1>7. CASE Crash \/ PowerLoss
  <2>1. excused' = excused \cup DOMAIN temps BY <1>7 DEF Crash, PowerLoss, Dies
  <2>2. DOMAIN temps' = DOMAIN temps BY <1>7 DEF Crash, PowerLoss, disk
  <2>3. QED BY <2>1, <2>2 DEF TempsAccounted
<1>8. CASE UNCHANGED writerVars BY <1>8 DEF writerVars, writer, disk, TempsAccounted
<1>9. QED BY <1>1, <1>2, <1>3, <1>4, <1>5, <1>6, <1>7, <1>8, WriterNext DEF WriterStep

\* What is written is whole, and what is synced too.
LEMMA Contents ==
    /\ \A d : Whole(d).state = "whole" /\ Whole(d).doc = d
    /\ \A d : Synced(Whole(d)) = [state |-> "whole", doc |-> d, synced |-> TRUE]
BY DEF Whole, Synced

\* What the module at hand has been written to.
LEMMA WorkStep == CallOK /\ WorkInHand /\ [Next]_vars => WorkInHand'
<1> SUFFICES ASSUME CallOK, WorkInHand, [Next]_vars PROVE WorkInHand' OBVIOUS
<1> DEFINE whole == Whole(Document[Module])
<1>1. CASE Begin \/ CreateDir \/ Finish \/ DryRun \/ Claim \/ CreateTemp \/ RemoveTemp \/ Verify
           \/ Crash \/ PowerLoss
  <2>1. pc' \notin {"sync_temp", "rename", "sync_dir", "verify"}
    BY <1>1 DEF Begin, CreateDir, Finish, DryRun, Claim, CreateTemp, RemoveTemp, Verify, Crash,
                PowerLoss, Dies, Goto, Return, Report
  <2>2. QED BY <2>1 DEF WorkInHand
<1>2. CASE WriteTemp
  <2>1. pc' \in {"sync_temp", "remove_temp"} /\ current' = current /\ Module' = Module
    BY <1>2 DEF WriteTemp, Goto, Module
  <2>2. pc' = "sync_temp" => temps' = Put(temps, current, whole) BY <1>2 DEF WriteTemp, Goto
  <2> HIDE DEF whole
  <2>3. current \in DOMAIN Put(temps, current, whole) /\ Put(temps, current, whole)[current] = whole
    BY DEF Put
  <2>4. QED BY <2>1, <2>2, <2>3 DEF WorkInHand, whole
<1>3. CASE SyncTemp
  <2>1. pc' \in {"rename", "remove_temp"} /\ current' = current /\ Module' = Module
    BY <1>3 DEF SyncTemp, Goto, Module
  <2>2. pc' = "rename" => temps' = Put(temps, current, Synced(whole))
    BY <1>3 DEF SyncTemp, Goto, WorkInHand
  <2> HIDE DEF whole
  <2>3. /\ current \in DOMAIN Put(temps, current, Synced(whole))
        /\ Put(temps, current, Synced(whole))[current] = Synced(whole)
    BY DEF Put
  <2>4. QED BY <2>1, <2>2, <2>3 DEF WorkInHand, whole
<1>4. CASE Rename
  <2>1. pc' \in {"sync_dir", "remove_temp"} /\ current' = current /\ Module' = Module
    BY <1>4 DEF Rename, Goto, Module
  <2>2. pc' = "sync_dir" => files' = Put(files, current, Synced(whole))
    BY <1>4 DEF Rename, Goto, WorkInHand
  <2> HIDE DEF whole
  <2>3. /\ current \in DOMAIN Put(files, current, Synced(whole))
        /\ Put(files, current, Synced(whole))[current] = Synced(whole)
    BY DEF Put
  <2>4. QED BY <2>1, <2>2, <2>3 DEF WorkInHand, whole
<1>5. CASE SyncDir
  <2>1. /\ pc = "sync_dir" /\ pc' = "verify" /\ current' = current /\ files' = files
        /\ Module' = Module
    BY <1>5 DEF SyncDir, Goto, Module
  <2>2. QED BY <2>1 DEF WorkInHand
<1>6. CASE UNCHANGED writerVars
  <2>1. Module' = Module /\ pc' = pc /\ current' = current /\ files' = files /\ temps' = temps
    BY <1>6 DEF writerVars, writer, disk, Module
  <2>2. QED BY <2>1 DEF WorkInHand
<1>7. QED BY <1>1, <1>2, <1>3, <1>4, <1>5, <1>6, WriterNext DEF WriterStep

\* What a power failure leaves of a name is what it showed, or what it showed before.
LEMMA PowerLossFiles ==
    ASSUME FilesSynced, PowerLoss
    PROVE  /\ settled' = files'
           /\ DOMAIN settled \subseteq DOMAIN files' /\ DOMAIN files' \subseteq DOMAIN files
           /\ \A n \in DOMAIN files' :
                files'[n] = files[n] \/ (n \in DOMAIN settled /\ files'[n] = settled[n])
<1>1. PICK undone \in SUBSET DOMAIN files :
        files' = [n \in (DOMAIN files \ undone) \cup DOMAIN settled |->
                     Damaged(IF n \in undone THEN settled[n] ELSE files[n])]
  BY DEF PowerLoss
<1>2. DOMAIN files' = (DOMAIN files \ undone) \cup DOMAIN settled BY <1>1
<1>3. ASSUME NEW n \in DOMAIN files'
      PROVE  files'[n] = files[n] \/ (n \in DOMAIN settled /\ files'[n] = settled[n])
  <2>1. files'[n] = Damaged(IF n \in undone THEN settled[n] ELSE files[n]) BY <1>1, <1>3
  <2>2. n \in DOMAIN files /\ (n \in undone => n \in DOMAIN settled) BY <1>2 DEF FilesSynced
  <2>3. CASE n \in undone
    <3>1. settled[n].synced /\ n \in DOMAIN settled BY <2>2, <2>3 DEF FilesSynced
    <3>2. files'[n] = Damaged(settled[n]) BY <2>1, <2>3, Zenon
    <3>3. Damaged(settled[n]) = settled[n] BY <3>1, Zenon DEF Damaged
    <3>4. QED BY <3>1, <3>2, <3>3
  <2>4. CASE n \notin undone
    <3>1. files[n].synced BY <2>2 DEF FilesSynced
    <3>2. files'[n] = Damaged(files[n]) BY <2>1, <2>4, Zenon
    <3>3. Damaged(files[n]) = files[n] BY <3>1, Zenon DEF Damaged
    <3>4. QED BY <3>2, <3>3, Zenon
  <2>5. QED BY <2>3, <2>4
<1>4. settled' = files' BY DEF PowerLoss
<1>5. QED BY <1>2, <1>3, <1>4 DEF FilesSynced

\* Only a rename and a power failure change what binding names show.
LEMMA FilesChange ==
    ASSUME [Next]_vars
    PROVE  \/ files' = files /\ settled' \in {settled, files}
           \/ Rename /\ files' = Put(files, current, temps[current]) /\ settled' = settled
           \/ PowerLoss
<1>1. CASE Begin \/ CreateDir \/ Finish \/ DryRun \/ Claim \/ CreateTemp \/ WriteTemp \/ SyncTemp
           \/ RemoveTemp \/ SyncDir \/ Verify \/ Crash
  BY <1>1 DEF Begin, CreateDir, Finish, DryRun, Claim, CreateTemp, WriteTemp, SyncTemp, RemoveTemp,
              SyncDir, Verify, Crash, disk
<1>2. CASE Rename BY <1>2 DEF Rename
<1>3. CASE UNCHANGED writerVars BY <1>3 DEF writerVars, disk
<1>4. QED BY <1>1, <1>2, <1>3, WriterNext DEF WriterStep

LEMMA FilesStep == WorkInHand /\ FilesSynced /\ [Next]_vars => FilesSynced'
<1> SUFFICES ASSUME WorkInHand, FilesSynced, [Next]_vars PROVE FilesSynced' OBVIOUS
<1>1. CASE files' = files /\ settled' \in {settled, files} BY <1>1 DEF FilesSynced
<1>2. CASE Rename /\ files' = Put(files, current, temps[current]) /\ settled' = settled
  <2>1. temps[current].synced BY <1>2, Contents DEF Rename, WorkInHand
  <2>2. QED BY <1>2, <2>1 DEF FilesSynced, Put
<1>3. CASE PowerLoss BY <1>3, PowerLossFiles DEF FilesSynced
<1>4. QED BY <1>1, <1>2, <1>3, FilesChange

\* The built-in check has passed only what is well formed.
LEMMA YamlPassed ==
    ASSUME NEW content, content # None, NEW readable,
           RunVerifierChain(<<"yaml">>, content, readable) = {TRUE}
    PROVE  WellFormed(content.doc)
<1> DEFINE verdicts == [i \in DOMAIN <<"yaml">> |-> Verdicts(<<"yaml">>[i], content, readable)]
<1>1. TRUE \in RunVerifierChain(<<"yaml">>, content, readable) OBVIOUS
<1>2. ChainMayPass(verdicts) BY <1>1 DEF RunVerifierChain
<1>3. 1 \in DOMAIN verdicts /\ verdicts[1] = Verdicts("yaml", content, readable) OBVIOUS
<1> HIDE DEF verdicts
<1>4. "ok" \in Verdicts("yaml", content, readable) BY <1>2, <1>3 DEF ChainMayPass
<1>5. QED BY <1>4 DEF Verdicts

LEMMA VouchedStep == CallOK /\ WorkInHand /\ VouchedSound /\ [Next]_vars => VouchedSound'
<1> SUFFICES ASSUME CallOK, WorkInHand, VouchedSound, [Next]_vars PROVE VouchedSound' OBVIOUS
<1>1. CASE Begin \/ CreateDir \/ Finish \/ DryRun \/ Claim \/ CreateTemp \/ WriteTemp \/ SyncTemp
           \/ RemoveTemp \/ SyncDir \/ Crash
  <2>1. vouched' = vouched /\ files' = files
    BY <1>1 DEF Begin, CreateDir, Finish, DryRun, Claim, CreateTemp, WriteTemp, SyncTemp, RemoveTemp,
                SyncDir, Crash, disk
  <2>2. QED BY <2>1 DEF VouchedSound
<1>2. CASE Rename
  <2>1. \/ vouched' = vouched /\ files' = files
        \/ vouched' = vouched \ {current} /\ files' = Put(files, current, temps[current])
    BY <1>2 DEF Rename
  <2>2. QED BY <2>1 DEF VouchedSound, Put
<1>3. CASE Verify
  <2> DEFINE content == files[current]
  <2>1. /\ files' = files
        /\ \/ vouched' = vouched
           \/ /\ vouched' = vouched \cup {current}
              /\ \E readable \in BOOLEAN : RunVerifierChain(<<"yaml">>, content, readable) = {TRUE}
    BY <1>3 DEF Verify, disk
  <2>2. current \in DOMAIN files /\ content = Synced(Whole(Document[Module]))
    BY <1>3 DEF Verify, WorkInHand
  <2>3. Module \in Modules /\ Document[Module] = Binding(Module)
    BY <1>3, ModuleAtHand DEF Verify, CallOK, Working
  <2>4. content # None /\ content.doc = Binding(Module)
    BY <2>2, <2>3, Contents, WriterAssumption DEF WriterAssumption
  <2> HIDE DEF content
  <2>5. CASE vouched' = vouched BY <2>1, <2>5 DEF VouchedSound
  <2>6. CASE /\ vouched' = vouched \cup {current}
             /\ \E readable \in BOOLEAN : RunVerifierChain(<<"yaml">>, content, readable) = {TRUE}
    <3>1. WellFormed(content.doc) BY <2>4, <2>6, YamlPassed
    <3>2. VouchedDocument(content.doc) BY <2>3, <2>4, <3>1 DEF VouchedDocument
    <3>3. QED BY <2>1, <2>2, <2>6, <3>2 DEF VouchedSound, content
  <2>7. QED BY <2>1, <2>5, <2>6
<1>4. CASE PowerLoss BY <1>4 DEF PowerLoss, VouchedSound
<1>5. CASE UNCHANGED writerVars BY <1>5 DEF writerVars, disk, VouchedSound
<1>6. QED BY <1>1, <1>2, <1>3, <1>4, <1>5, WriterNext DEF WriterStep

\* The name a module claims is a new one.
LEMMA ClaimIsNew ==
    ASSUME CallOK, Len(results) < Len(batch)
    PROVE  FreeName(SanitizeFilename(Module.module_id), taken) \in Seq(NameLetters) \ taken
<1>1. Module.module_id \in Seq(STRING) BY ModuleAtHand DEF IsModule
<1>2. SanitizeFilename(Module.module_id) \in Seq(NameLetters) BY <1>1, SanitizeTyped
<1>3. IsFiniteSet(taken) BY DEF CallOK
<1>4. QED BY <1>2, <1>3, FreeNameIsFree

LEMMA ResultsStep ==
    CallOK /\ WorkInHand /\ ResultsKept /\ [Next]_vars => ResultsKept'
<1> SUFFICES ASSUME CallOK, WorkInHand, ResultsKept, [Next]_vars PROVE ResultsKept'
  OBVIOUS
<1> USE DEF Working, TempLabels
<1>1. CASE Begin \/ Crash \/ PowerLoss
  <2>1. results' = <<>> BY <1>1 DEF Begin, Crash, PowerLoss, Dies
  <2>2. QED BY <2>1 DEF ResultsKept
<1>2. CASE CreateDir \/ Finish
  <2>1. UNCHANGED <<files, results, options, batch, taken>> /\ pc' \notin Working
    BY <1>2 DEF CreateDir, Finish, Goto, Return, disk
  <2>2. QED BY <2>1 DEF ResultsKept
<1>3. CASE DryRun
  <2>1. options'.dry_run BY <1>3 DEF DryRun, Report
  <2>2. QED BY <2>1 DEF ResultsKept
<1>4. CASE Claim
  <2> DEFINE name == FreeName(SanitizeFilename(Module.module_id), taken)
  <2>1. /\ Len(results) < Len(batch) /\ taken' = taken \cup {name} /\ files' = files
        /\ batch' = batch /\ options' = options /\ pc = "loop"
    BY <1>4 DEF Claim, disk, Report
  <2>2. \/ Report(name, FALSE)
        \/ current' = name /\ results' = results
    BY <1>4, Zenon DEF Claim
  <2>3. name \notin taken BY <2>1, ClaimIsNew
  <2> HIDE DEF name
  <2>4. CASE current' = name /\ results' = results BY <2>1, <2>3, <2>4 DEF ResultsKept
  <2>5. CASE Report(name, FALSE)
    <3> DEFINE r == [module_id |-> Module.module_id, path |-> name, verified |-> FALSE]
    <3>1. results' = Append(results, r) /\ pc' = "loop" BY <2>5 DEF Report
    <3>2. ~r.verified OBVIOUS
    <3> HIDE DEF r
    <3>3. PICK S : results \in Seq(S) BY DEF CallOK
    <3>4. /\ DOMAIN results' = DOMAIN results \cup {Len(results) + 1}
          /\ \A i \in DOMAIN results : results'[i] = results[i]
          /\ results'[Len(results) + 1] = r
      BY <3>1, <3>3, AppendOne
    <3>5. QED BY <2>1, <3>1, <3>2, <3>4 DEF ResultsKept
  <2>6. QED BY <2>2, <2>4, <2>5
<1>5. CASE CreateTemp \/ WriteTemp \/ SyncTemp \/ SyncDir
  <2>1. UNCHANGED <<files, results, options, batch, taken, current>> /\ pc \in Working
    BY <1>5 DEF CreateTemp, WriteTemp, SyncTemp, SyncDir, Goto
  <2>2. QED BY <2>1 DEF ResultsKept
<1>6. CASE Rename
  <2>1. UNCHANGED <<results, options, batch, taken, current>> /\ pc \in Working
    BY <1>6 DEF Rename, Goto
  <2>2. files' = files \/ files' = Put(files, current, temps[current]) BY <1>6 DEF Rename
  <2>3. QED BY <2>1, <2>2 DEF ResultsKept, Put
<1>7. CASE RemoveTemp
  <2>1. UNCHANGED <<files, results, options, batch, taken>> /\ pc' \notin Working
    BY <1>7 DEF RemoveTemp, Return
  <2>2. QED BY <2>1 DEF ResultsKept
<1>8. CASE Verify
  <2>1. PICK verified : Report(current, verified) BY <1>8 DEF Verify
  <2> DEFINE r == [module_id |-> Module.module_id, path |-> current, verified |-> verified]
  <2>2. /\ results' = Append(results, r) /\ pc' = "loop" /\ batch' = batch /\ options' = options
        /\ taken' = taken /\ files' = files
    BY <1>8, <2>1 DEF Report, Verify, disk
  <2>3. r.path = current OBVIOUS
  <2> HIDE DEF r
  <2>4. PICK S : results \in Seq(S) BY DEF CallOK
  <2>5. /\ DOMAIN results' = DOMAIN results \cup {Len(results) + 1}
        /\ \A i \in DOMAIN results : results'[i] = results[i]
        /\ results'[Len(results) + 1] = r
    BY <2>2, <2>4, AppendOne
  <2>6. current \in taken /\ current \in DOMAIN files /\ files[current].doc = Document[Module]
    BY <1>8, Contents DEF Verify, CallOK, WorkInHand
  <2>7. Module = batch[Len(results) + 1] BY DEF Module
  <2>8. QED BY <2>2, <2>3, <2>5, <2>6, <2>7 DEF ResultsKept
<1>9. CASE UNCHANGED writerVars BY <1>9 DEF writerVars, writer, disk, ResultsKept
<1>10. QED BY <1>1, <1>2, <1>3, <1>4, <1>5, <1>6, <1>7, <1>8, <1>9, WriterNext DEF WriterStep
------------------------------------------------------------------------------
(* The theorems about the writer's directory                               *)

LEMMA WriterInit == DeploymentInit => WriterInv /\ ResultsKept
<1> SUFFICES ASSUME DeploymentInit PROVE WriterInv /\ ResultsKept OBVIOUS
<1>1. PICK d \in Directories : files = d.files BY DEF DeploymentInit, Init
<1>2. /\ settled = files /\ pc = "idle" /\ batch = <<>> /\ results = <<>> /\ taken = {}
      /\ options = [dry_run |-> FALSE, verify |-> FALSE, verifiers |-> <<>>]
      /\ vouched = {} /\ excused = DOMAIN temps
  BY DEF DeploymentInit, Init
<1>3. CallOK
  <2>1. \E S : <<>> \in Seq(S) OBVIOUS
  <2>2. <<>> \in Seq(Modules) /\ Len(<<>>) <= Len(<<>>) OBVIOUS
  <2>3. {options.dry_run, options.verify} \subseteq BOOLEAN BY <1>2
  <2>4. QED BY <1>2, <2>1, <2>2, <2>3, FS_EmptySet DEF CallOK, Working, TempLabels
<1>4. TempsAccounted BY <1>2 DEF TempsAccounted
<1>5. WorkInHand BY <1>2 DEF WorkInHand
<1>6. FilesSynced BY <1>1, <1>2, WriterAssumption DEF FilesSynced, WriterAssumption
<1>7. VouchedSound /\ ResultsKept BY <1>2 DEF VouchedSound, ResultsKept
<1>8. QED BY <1>3, <1>4, <1>5, <1>6, <1>7 DEF WriterInv

LEMMA WriterInductive == WriterInv /\ [Next]_vars => WriterInv'
BY CallStep, TempsStep, WorkStep, FilesStep, VouchedStep DEF WriterInv

\* Whatever the writer does, and wherever it dies, what it writes is synced before it is renamed,
\* and what it has verified stays loadable (write_one_binding, output/yaml_writer.rs).
THEOREM WriterInvariant == Spec => []WriterInv
<1>1. DeploymentInit => WriterInv BY WriterInit
<1>2. QED BY <1>1, WriterInductive, PTL DEF Spec

\* No temporary file is left behind, whatever step failed, but where its removal failed too or
\* the process died (output/yaml_writer.rs).
THEOREM NoTempIsStale == Spec => []NoStaleTemp
<1>1. WriterInv => NoStaleTemp BY DEF WriterInv, TempsAccounted, NoStaleTemp
<1>2. QED BY <1>1, WriterInvariant, PTL

\* What YAMLVerifier has passed holds the document of a module that was written: a loose load
\* takes it, a strict one takes it just when the module's schemas are objects
\* (output/verifiers.rs, binding_loader.rs).
THEOREM VouchedIsLoadable == Spec => []VerifiedIsLoadable
<1>1. ASSUME VouchedSound, NEW n \in vouched
      PROVE  \E m \in Modules :
                /\ files[n].doc = Document[m]
                /\ \A strict \in BOOLEAN :
                     DocumentRejected(files[n].doc, strict) <=>
                         strict /\ ~({m.input_schema[1], m.output_schema[1]} \subseteq {"object"})
  <2>1. PICK m \in Modules : files[n].doc = Document[m] /\ WellFormed(files[n].doc)
    BY <1>1 DEF VouchedSound, VouchedDocument
  <2>2. files[n].doc = Binding(m) BY <2>1 DEF Document
  <2>3. m.module_id # <<>> /\ m.target # <<>> BY <2>1, <2>2, WellFormedNamed
  <2>4. QED BY <2>1, <2>2, <2>3, DocumentTaken, Zenon
<1>2. WriterInv => VerifiedIsLoadable BY <1>1 DEF WriterInv, VerifiedIsLoadable
<1>3. QED BY <1>2, WriterInvariant, PTL

\* A result that is reported as verified is true when the batch goes on, and when it is over: the
\* file it names holds its own module's document, from which the loader makes the module again.
THEOREM ReportsAreTrue == Spec => []ReportsTrue
<1>1. DeploymentInit => WriterInv /\ ResultsKept BY WriterInit
<1>2. WriterInv /\ ResultsKept /\ [Next]_vars => (WriterInv /\ ResultsKept)'
  BY WriterInductive, ResultsStep DEF WriterInv
<1>3. WriterInv /\ ResultsKept => ReportsTrue
  <2> SUFFICES ASSUME WriterInv, ResultsKept,
                      NEW i \in DOMAIN results, results[i].verified /\ ~options.dry_run
               PROVE  /\ results[i].path \in DOMAIN files
                      /\ files[results[i].path].doc = Document[batch[i]]
                      /\ batch[i].module_id # <<>> /\ batch[i].target # <<>> =>
                           /\ ~DocumentRejected(files[results[i].path].doc, FALSE)
                           /\ ModulesOf(files[results[i].path].doc) = <<AsLoaded(batch[i])>>
    BY Zenon DEF ReportsTrue
  <2>1. batch[i] \in Modules
    <3>1. PICK S : results \in Seq(S) BY DEF WriterInv, CallOK
    <3>2. batch \in Seq(Modules) /\ Len(results) <= Len(batch) BY DEF WriterInv, CallOK
    <3>3. i \in 1 .. Len(batch) BY <3>1, <3>2
    <3>4. QED BY <3>2, <3>3
  <2>2. IsModule(batch[i]) /\ Document[batch[i]] = Binding(batch[i])
    BY <2>1, WriterAssumption DEF WriterAssumption, Document
  <2>3. results[i].path \in DOMAIN files /\ files[results[i].path].doc = Document[batch[i]]
    BY DEF ResultsKept
  <2>4. ModulesOf(Binding(batch[i])) = <<AsLoaded(batch[i])>> BY <2>2, RoundTrip
  <2>5. batch[i].module_id # <<>> /\ batch[i].target # <<>> =>
          ~DocumentRejected(Binding(batch[i]), FALSE)
    BY DocumentAccepted
  <2>6. QED BY <2>2, <2>3, <2>4, <2>5, Zenon
<1>4. QED BY <1>1, <1>2, <1>3, PTL DEF Spec

------------------------------------------------------------------------------
(* The directory keeps the writer's promise                                *)

\* The names the promise has as used, and its batch.
Used == taken \ (IF pc \in {"create_temp", "write_temp", "sync_temp", "rename", "remove_temp"}
                 THEN {current} ELSE {})
ToPublish == {Shown(Whole(Document[batch[i]])) : i \in DOMAIN batch}
Directory == [n \in DOMAIN files |-> Shown(files[n])]
Settled == [n \in DOMAIN settled |-> Shown(settled[n])]

LEMMA PromiseStep ==
    ASSUME CallOK, WorkInHand, FilesSynced, [Next]_vars
    PROVE  [Promise!Next]_(Promise!vars)
<1> USE DEF Working, TempLabels
<1>0. Shown(Synced(Whole(Document[Module]))) = Shown(Whole(Document[Module])) 
  BY DEF Shown, Synced, Whole
<1>1. CASE Begin
  <2>1. PICK b \in Batches : batch' = b BY <1>1 DEF Begin
  <2>2. batch' \in Seq(Modules) BY <2>1, WriterAssumption DEF WriterAssumption
  <2>3. ToPublish' \in SUBSET {Shown(Whole(d)) : d \in {Document[m] : m \in Modules}}
    <3>1. \A i \in DOMAIN batch' : batch'[i] \in Modules BY <2>2
    <3>2. QED BY <3>1 DEF ToPublish
  <2>4. Used' = {} /\ files' = files /\ settled' = settled BY <1>1 DEF Begin, disk, Used
  <2>5. Promise!Start BY <2>3, <2>4 DEF Promise!Start, ToPublish, Used
  <2>6. QED BY <2>5 DEF Promise!Next
<1>2. CASE Crash
  <2>1. batch' = <<>> /\ taken' = {} /\ files' = files /\ settled' = settled
    BY <1>2 DEF Crash, Dies, disk
  <2>2. ToPublish' = {} /\ Used' = {} BY <2>1 DEF ToPublish, Used
  <2>3. Promise!Start BY <2>1, <2>2 DEF Promise!Start, ToPublish, Used
  <2>4. QED BY <2>3 DEF Promise!Next
<1>3. CASE PowerLoss
  <2>1. batch' = <<>> /\ taken' = {} BY <1>3 DEF PowerLoss, Dies
  <2>2. ToPublish' = {} /\ Used' = {} BY <2>1 DEF ToPublish, Used
  <2>3. /\ settled' = files'
        /\ DOMAIN settled \subseteq DOMAIN files' /\ DOMAIN files' \subseteq DOMAIN files
        /\ \A n \in DOMAIN files' :
             files'[n] = files[n] \/ (n \in DOMAIN settled /\ files'[n] = settled[n])
    BY <1>3, PowerLossFiles
  <2>4. /\ DOMAIN Directory = DOMAIN files /\ DOMAIN Settled = DOMAIN settled
        /\ DOMAIN Directory' = DOMAIN files'
        /\ \A n \in DOMAIN files : Directory[n] = Shown(files[n])
        /\ \A n \in DOMAIN settled : Settled[n] = Shown(settled[n])
        /\ \A n \in DOMAIN files' : Directory'[n] = Shown(files'[n])
        /\ Settled' = Directory'
    BY <2>3 DEF Directory, Settled
  <2>5. \A n \in DOMAIN Directory' :
          Directory'[n] = Directory[n] \/ (n \in DOMAIN Settled /\ Directory'[n] = Settled[n])
    <3> SUFFICES ASSUME NEW n \in DOMAIN files'
                 PROVE  Directory'[n] = Directory[n] \/ (n \in DOMAIN Settled /\ Directory'[n] = Settled[n])
      BY <2>4
    <3>1. CASE files'[n] = files[n]
      <4>1. n \in DOMAIN files BY <2>3
      <4>2. Directory[n] = Shown(files[n]) /\ Directory'[n] = Shown(files'[n]) BY <2>4, <4>1
      <4>3. QED BY <3>1, <4>2, Zenon
    <3>2. CASE n \in DOMAIN settled /\ files'[n] = settled[n] BY <2>3, <2>4, <3>2
    <3>3. QED BY <2>3, <3>1, <3>2
  <2>6. Promise!PowerLoss
    BY <2>2, <2>3, <2>4, <2>5 DEF Promise!PowerLoss, Directory, Settled, ToPublish, Used
  <2>7. QED BY <2>6 DEF Promise!Next
<1>4. CASE UNCHANGED <<Directory, Settled, ToPublish, Used>>
  BY <1>4 DEF Promise!vars, Directory, Settled, ToPublish, Used
<1>5. CASE CreateDir \/ Finish \/ DryRun \/ CreateTemp \/ WriteTemp \/ SyncTemp \/ Verify
           \/ UNCHANGED writerVars
  <2>1. UNCHANGED <<files, settled, batch, taken>>
    BY <1>5 DEF CreateDir, Finish, DryRun, CreateTemp, WriteTemp, SyncTemp, Verify, Goto, Return,
                Report, disk, writerVars, writer
  <2>2. Used' = Used
    BY <1>5, <2>1 DEF CreateDir, Finish, DryRun, CreateTemp, WriteTemp, SyncTemp, Verify, Goto, Return,
                      Report, Used, writerVars, writer
  <2>3. QED BY <1>4, <2>1, <2>2 DEF Directory, Settled, ToPublish
<1>6. ASSUME NEW name, name \notin Used, Used' = Used \cup {name}, UNCHANGED <<files, settled, batch>>
      PROVE  [Promise!Next]_(Promise!vars)
  <2>1. Promise!GiveUp BY <1>6 DEF Promise!GiveUp, Used
  <2>2. QED BY <2>1 DEF Promise!Next
<1>7. CASE Claim
  <2> DEFINE name == FreeName(SanitizeFilename(Module.module_id), taken)
  <2>1. /\ Len(results) < Len(batch) /\ taken' = taken \cup {name} /\ files' = files
        /\ settled' = settled /\ batch' = batch /\ pc = "loop"
    BY <1>7 DEF Claim, disk, Report
  <2>2. \/ pc' = "loop"
        \/ current' = name /\ pc' = "create_temp"
    BY <1>7, Zenon DEF Claim, Report
  <2>3. name \notin taken BY <2>1, ClaimIsNew
  <2> HIDE DEF name
  <2>4. CASE pc' = "loop" BY <1>6, <2>1, <2>3, <2>4 DEF Used
  <2>5. CASE current' = name /\ pc' = "create_temp"
    <3>1. Used' = Used BY <2>1, <2>3, <2>5 DEF Used
    <3>2. QED BY <1>4, <2>1, <3>1 DEF Directory, Settled, ToPublish
  <2>6. QED BY <2>2, <2>4, <2>5
<1>8. CASE Rename
  <2>1. UNCHANGED <<settled, batch, taken, current>> /\ pc = "rename" BY <1>8 DEF Rename, Goto
  <2>2. \/ files' = files /\ pc' = "remove_temp"
        \/ files' = Put(files, current, temps[current]) /\ pc' = "sync_dir"
    BY <1>8 DEF Rename, Goto
  <2>3. CASE files' = files /\ pc' = "remove_temp"
    <3>1. Used' = Used BY <2>1, <2>3 DEF Used
    <3>2. QED BY <1>4, <2>1, <2>3, <3>1 DEF Directory, Settled, ToPublish
  <2>4. CASE files' = Put(files, current, temps[current]) /\ pc' = "sync_dir"
    <3> DEFINE doc == Shown(Whole(Document[Module]))
    <3>1. current \in taken /\ Len(results) < Len(batch) BY <2>1 DEF CallOK
    <3>2. Used' = Used \cup {current} /\ current \notin Used BY <2>1, <2>4, <3>1 DEF Used
    <3>3. files' = Put(files, current, Synced(Whole(Document[Module])))
      BY <2>1, <2>4 DEF WorkInHand
    <3>4. doc \in ToPublish
      BY <3>1, ModuleAtHand DEF ToPublish, Module
    <3>5. Directory' = [n \in DOMAIN Directory \cup {current} |->
                            IF n = current THEN doc ELSE Directory[n]]
      BY <1>0, <3>3 DEF Directory, Put
    <3>6. current \in DOMAIN Directory' BY <3>5
    <3>7. UNCHANGED <<Settled, ToPublish>> BY <2>1 DEF Settled, ToPublish
    <3> HIDE DEF doc
    <3>8. /\ \E name \in DOMAIN Directory' \ Used, d \in ToPublish :
               /\ Directory' = [n \in DOMAIN Directory \cup {name} |->
                                    IF n = name THEN d ELSE Directory[n]]
               /\ Used' = Used \cup {name}
          /\ UNCHANGED <<Settled, ToPublish>>
      BY <3>2, <3>4, <3>5, <3>6, <3>7
    <3>9. Promise!Publish BY <3>8 DEF Promise!Publish, Directory, Settled, ToPublish, Used
    <3>10. QED BY <3>9 DEF Promise!Next
  <2>5. QED BY <2>2, <2>3, <2>4
<1>9. CASE RemoveTemp
  <2>1. UNCHANGED <<files, settled, batch, taken>> /\ pc = "remove_temp" /\ pc' = "error"
    BY <1>9 DEF RemoveTemp, Return
  <2>2. current \in taken BY <2>1 DEF CallOK
  <2>3. Used' = Used \cup {current} /\ current \notin Used BY <2>1, <2>2 DEF Used
  <2>4. QED BY <1>6, <2>1, <2>3
<1>10. CASE SyncDir
  <2>1. /\ UNCHANGED <<files, batch, taken, current>> /\ pc = "sync_dir" /\ pc' = "verify"
        /\ settled' = files \/ settled' = settled
    BY <1>10 DEF SyncDir, Goto
  <2>2. Used' = Used BY <2>1 DEF Used
  <2>3. CASE settled' = settled BY <1>4, <2>1, <2>2, <2>3 DEF Directory, Settled, ToPublish
  <2>4. CASE settled' = files
    <3>1. Promise!Settle
      BY <2>1, <2>2, <2>4 DEF Promise!Settle, Used
    <3>2. QED BY <3>1 DEF Promise!Next
  <2>5. QED BY <2>1, <2>3, <2>4
<1>11. QED BY <1>1, <1>2, <1>3, <1>5, <1>7, <1>8, <1>9, <1>10, WriterNext DEF WriterStep

\* The directory is a binding set: the documents of a batch appear in it whole, one at a time and
\* each under a name of its own, and only what had not settled is taken back by a power failure.
THEOREM DirectoryImplementsPromise == Spec => ImplementsPromise
<1>1. DeploymentInit => WriterInv /\ Promise!Init
  <2> SUFFICES ASSUME DeploymentInit PROVE Promise!Init BY WriterInit
  <2>1. settled = files /\ pc = "idle" /\ batch = <<>> /\ taken = {} BY DEF DeploymentInit, Init
  <2>2. Settled = Directory /\ ToPublish = {} /\ Used = {}
    BY <2>1 DEF Settled, Directory, ToPublish, Used
  <2>3. QED BY <2>2 DEF Promise!Init, Settled, Directory, ToPublish, Used
<1>2. WriterInv /\ [Next]_vars => WriterInv' /\ [Promise!Next]_(Promise!vars)
  BY WriterInductive, PromiseStep DEF WriterInv
<1>3. QED BY <1>1, <1>2, PTL DEF Spec, ImplementsPromise, Promise!Spec

------------------------------------------------------------------------------
(* The texts of names and prefixes                                         *)

\* The prefix of a text that CHOOSE marks is a text.
LEMMA TextsCut ==
    ASSUME NEW X, NEW t \in Seq(X)
    PROVE  TrimDots(t) \in Seq(X) /\ ModulePath(t) \in Seq(X)
<1> DEFINE kept == {0} \cup {i \in DOMAIN t : t[i] # "."}
           colons == {i \in DOMAIN t : t[i] = ":"}
           n == Len(t)
<1>1. n \in Nat /\ DOMAIN t = 1 .. n OBVIOUS
<1>2. \A k \in 0 .. n : SubSeq(t, 1, k) \in Seq(X) OBVIOUS
<1>3. PICK last \in kept : \A j \in kept : j <= last
  <2> DEFINE T == {n - i : i \in kept}
  <2>1. kept \subseteq 0 .. n /\ kept # {} BY <1>1
  <2> HIDE DEF kept, n
  <2>2. T \in SUBSET Nat /\ T # {}
    <3>1. \A i \in 0 .. n : n - i \in Nat BY <1>1
    <3>2. \A i \in kept : n - i \in Nat BY <2>1, <3>1
    <3>3. PICK i \in kept : TRUE BY <2>1
    <3>4. n - i \in T BY <3>3
    <3>5. QED BY <3>2, <3>4
  <2> HIDE DEF T
  <2>3. PICK m \in T : \A k \in T : m <= k BY <2>2, LeastNatural
  <2>4. PICK i \in kept : m = n - i BY <2>3 DEF T
  <2>5. \A j \in kept : n - i <= n - j BY <2>3, <2>4 DEF T
  <2>6. \A j \in kept : j <= i BY <1>1, <2>1, <2>5
  <2>7. QED BY <2>6
<1>4. (CHOOSE j \in kept : \A i \in kept : i <= j) \in kept BY <1>3
<1>5. kept \subseteq 0 .. n BY <1>1
<1>6. TrimDots(t) = SubSeq(t, 1, CHOOSE j \in kept : \A i \in kept : i <= j) BY DEF TrimDots
<1>7. TrimDots(t) \in Seq(X)
  <2> HIDE DEF kept, n
  <2>1. QED BY <1>2, <1>4, <1>5, <1>6
<1>8. ASSUME colons # {}
      PROVE  (CHOOSE i \in colons : \A j \in colons : i <= j) - 1 \in 0 .. n
  <2>1. colons \subseteq 1 .. n /\ colons \in SUBSET Nat BY <1>1
  <2> HIDE DEF colons, n
  <2>2. PICK m \in colons : \A j \in colons : m <= j BY <1>8, <2>1, LeastNatural
  <2>3. PICK c : c = CHOOSE i \in colons : \A j \in colons : i <= j OBVIOUS
  <2>4. c \in colons BY <2>2, <2>3
  <2>5. c - 1 \in 0 .. n BY <1>1, <2>1, <2>4
  <2>6. QED BY <2>3, <2>5
<1>9. ModulePath(t) = IF colons = {} THEN t
                      ELSE SubSeq(t, 1, (CHOOSE i \in colons : \A j \in colons : i <= j) - 1)
  BY DEF ModulePath
<1>10. ModulePath(t) \in Seq(X)
  <2> HIDE DEF colons, n
  <2>1. QED BY <1>2, <1>8, <1>9
<1>11. QED BY <1>7, <1>10

\* A prefix matches, character by character, what it is the first components of.
LEMMA PrefixByComponents ==
    ASSUME NEW path \in Seq(STRING), NEW prefix \in Seq(STRING)
    PROVE  MatchesPrefix(path, prefix)
             <=> /\ TrimDots(prefix) # <<>>
                 /\ IsPrefix(Components(TrimDots(prefix)), Components(path))
<1> DEFINE X == STRING \cup {"."}
<1>0. path \in Seq(X) /\ TrimDots(prefix) \in Seq(X) BY TextsCut
<1>1. PICK s \in Seq(X) : s = TrimDots(prefix) BY <1>0
<1>2. PICK dot \in X : dot = "." OBVIOUS
<1> HIDE DEF X
<1>3. IsPrefix(Split(s, dot), Split(path, dot)) <=> (path = s \/ IsPrefix(s \o <<dot>>, path))
  BY <1>0, FirstParts
<1>4. QED BY <1>1, <1>2, <1>3, Zenon DEF MatchesPrefix, Components

LEMMA AllowedByComponents ==
    ASSUME NEW target \in Seq(STRING), NEW prefixes, prefixes # None,
           \A p \in prefixes : p \in Seq(STRING)
    PROVE  TargetAllowed(target, prefixes) <=> LiesWithin(target, prefixes)
<1>1. PICK path \in Seq(STRING) : path = ModulePath(target) BY TextsCut
<1>2. TargetAllowed(target, prefixes) <=> \E p \in prefixes : MatchesPrefix(path, p)
  BY <1>1 DEF TargetAllowed
<1>3. \A p \in prefixes : MatchesPrefix(path, p)
          <=> /\ TrimDots(p) # <<>>
              /\ IsPrefix(Components(TrimDots(p)), Components(path))
  BY PrefixByComponents
<1>4. QED BY <1>1, <1>2, <1>3, Zenon DEF LiesWithin
------------------------------------------------------------------------------
(* What is loaded, and what is registered of it                            *)

\* The factory does not hand out the handler that stands for none.
FactoryHasNoEcho ==
    \A w \in RegistryWriters : \A t \in Seq(STRING) : Handler(w.handlers, t) # Echo

\* A module as the loader makes it: a record with annotations among its fields, and a text for
\* its target.
IsLoaded(m) ==
    /\ m = [k \in DOMAIN m |-> m[k]]
    /\ "annotations" \in DOMAIN m /\ "target" \in DOMAIN m
    /\ m.target \in Seq(STRING)

\* Whatever file is read, its document has a sequence of entries.
FilesListed ==
    /\ \A n \in DOMAIN files : Listed(files[n])
    /\ \A n \in DOMAIN settled : Listed(settled[n])
    /\ \A n \in DOMAIN temps : Listed(temps[n])
    /\ \A p \in DOMAIN tree : tree[p].kind = "file" => Listed(tree[p].content)

\* What is loaded is a sequence of modules; nothing is reported before it is all loaded.
LoadOK ==
    /\ DOMAIN load = {"phase", "options", "seen", "found", "todo", "read"}
    /\ \E S : modules \in Seq(S)
    /\ \A i \in DOMAIN modules : IsLoaded(modules[i])
    /\ load.phase # "loaded" \/ writing = None => reports = <<>>
    /\ writing # None => writing \in RegistryWriters
    /\ \E S : reports \in Seq(S)

\* The registry holds, for each module reported as verified, just what to_module makes of it.
Registered(i) ==
    LET m == modules[i]
    IN  /\ IsLoaded(m)
        /\ reports[i].verified /\ ~writing.dry_run =>
             m.module_id \in DOMAIN registry /\ registry[m.module_id] = ToModule(m)
        /\ reports[i].why = "registration" => m.module_id \in DOMAIN registry

ReportsKept == \A i \in DOMAIN reports : Registered(i)

LEMMA ListedDocument ==
    ASSUME NEW m, IsModule(m)
    PROVE  Listed(Whole(Binding(m))) /\ Listed(Synced(Whole(Binding(m))))
<1>1. Entries(Binding(m)) = <<Object(EntryOf(m))>> BY BindingIs
<1> DEFINE entries == Entries(Binding(m))
<1>2. entries \in Seq({entries[i] : i \in DOMAIN entries}) BY <1>1
<1>3. Given(EntryOf(m), "target", "text", <<>>) \in Seq(STRING)
  <2>1. Given(EntryOf(m), "target", "text", <<>>) = m.target BY IdAndTarget
  <2>2. m.target \in Seq(STRING) BY DEF IsModule
  <2>3. QED BY <2>1, <2>2, Zenon
<1>4. \A i \in DOMAIN entries : Given(entries[i][2], "target", "text", <<>>) \in Seq(STRING)
  <2>1. \A i \in DOMAIN entries : entries[i][2] = EntryOf(m) BY <1>1 DEF Object
  <2>2. QED BY <1>3, <2>1
<1>5. ASSUME NEW content, content.doc = Binding(m) PROVE Listed(content)
  BY <1>2, <1>4, <1>5, Zenon DEF Listed
<1>6. Whole(Binding(m)).doc = Binding(m) /\ Synced(Whole(Binding(m))).doc = Binding(m) BY Contents
<1>7. QED BY <1>5, <1>6

LEMMA ListedStep ==
    CallOK /\ WorkInHand /\ FilesSynced /\ FilesListed /\ [Next]_vars => FilesListed'
<1> SUFFICES ASSUME CallOK, WorkInHand, FilesSynced, FilesListed, [Next]_vars PROVE FilesListed'
  OBVIOUS
<1>0. tree' = tree BY DEF Next, vars
<1>1. ASSUME NEW f, NEW name, NEW content, \A n \in DOMAIN f : Listed(f[n]), Listed(content)
      PROVE  \A n \in DOMAIN Put(f, name, content) : Listed(Put(f, name, content)[n])
  BY <1>1 DEF Put
<1>2. Listed(Unwritten) /\ Listed(Torn) BY DEF Listed, Unwritten, Torn
<1>3. CallOK /\ pc \in Working =>
        Listed(Whole(Document[Module])) /\ Listed(Synced(Whole(Document[Module])))
  BY ModuleAtHand, ListedDocument DEF CallOK
<1>4. \A content : Listed(content) => Listed(Damaged(content)) BY <1>2 DEF Damaged
<1>5. /\ \A n \in DOMAIN files' : Listed(files'[n])
      /\ \A n \in DOMAIN settled' : Listed(settled'[n])
  <2>1. CASE files' = files /\ settled' \in {settled, files} BY <2>1 DEF FilesListed
  <2>2. CASE Rename /\ files' = Put(files, current, temps[current]) /\ settled' = settled
    <3>1. Listed(temps[current])
      BY <1>3, <2>2 DEF Rename, WorkInHand, Working, TempLabels
    <3>2. QED BY <1>1, <2>2, <3>1 DEF FilesListed
  <2>3. CASE PowerLoss BY <2>3, PowerLossFiles DEF FilesListed
  <2>4. QED BY <2>1, <2>2, <2>3, FilesChange
<1>6. \A n \in DOMAIN temps' : Listed(temps'[n])
  <2>1. CASE Begin \/ CreateDir \/ Finish \/ DryRun \/ Claim \/ SyncDir \/ Verify \/ Crash
             \/ UNCHANGED writerVars
    <3>1. temps' = temps
      BY <2>1 DEF Begin, CreateDir, Finish, DryRun, Claim, SyncDir, Verify, Crash, writerVars, disk
    <3>2. QED BY <3>1 DEF FilesListed
  <2>2. CASE CreateTemp
    <3>1. temps' = temps \/ temps' = Put(temps, current, Unwritten) BY <2>2 DEF CreateTemp
    <3>2. QED BY <1>1, <1>2, <3>1 DEF FilesListed
  <2>3. CASE WriteTemp
    <3>1. \/ temps' = Put(temps, current, Whole(Document[Module]))
          \/ temps' = Put(temps, current, Torn)
      BY <2>3 DEF WriteTemp
    <3>2. Listed(Whole(Document[Module])) BY <1>3, <2>3 DEF WriteTemp, Working, TempLabels
    <3>3. QED BY <1>1, <1>2, <3>1, <3>2 DEF FilesListed
  <2>4. CASE SyncTemp
    <3>1. temps' = temps \/ temps' = Put(temps, current, Synced(Whole(Document[Module])))
      BY <2>4 DEF SyncTemp, WorkInHand
    <3>2. Listed(Synced(Whole(Document[Module])))
      BY <1>3, <2>4 DEF SyncTemp, Working, TempLabels
    <3>3. QED BY <1>1, <3>1, <3>2 DEF FilesListed
  <2>5. CASE Rename \/ RemoveTemp
    <3>1. temps' = temps \/ temps' = [n \in DOMAIN temps \ {current} |-> temps[n]]
      BY <2>5 DEF Rename, RemoveTemp
    <3>2. QED BY <3>1 DEF FilesListed
  <2>6. CASE PowerLoss
    <3>1. temps' = [n \in DOMAIN temps |-> Damaged(temps[n])] BY <2>6 DEF PowerLoss
    <3>2. QED BY <1>4, <3>1 DEF FilesListed
  <2>7. QED BY <2>1, <2>2, <2>3, <2>4, <2>5, <2>6, WriterNext DEF WriterStep
<1>7. QED BY <1>0, <1>5, <1>6 DEF FilesListed

\* A file that can be read is one of the directory's.
LEMMA RegularListed ==
    ASSUME FilesListed, NEW path \in DOMAIN Regular
    PROVE  Listed(Regular[path])
<1> DEFINE named(f, end) == [p \in {<<n \o end>> : n \in DOMAIN f} |->
                                f[CHOOSE n \in DOMAIN f : p = <<n \o end>>]]
           written == named(files, Suffix)
           temporary == named(temps, Suffix \o Temporary)
           others == [p \in {q \in DOMAIN tree : tree[q].kind = "file"} |-> tree[p].content]
<1>1. ASSUME NEW f, NEW end, \A n \in DOMAIN f : Listed(f[n])
      PROVE  \A p \in DOMAIN named(f, end) : Listed(named(f, end)[p])
  <2>1. TAKE p \in DOMAIN named(f, end)
  <2>2. \E n \in DOMAIN f : p = <<n \o end>> OBVIOUS
  <2>3. (CHOOSE n \in DOMAIN f : p = <<n \o end>>) \in DOMAIN f BY <2>2
  <2>4. QED BY <1>1, <2>3
<1>2. \A p \in DOMAIN others : Listed(others[p]) BY DEF FilesListed
<1>3. \A p \in DOMAIN written : Listed(written[p]) BY <1>1 DEF FilesListed
<1>4. \A p \in DOMAIN temporary : Listed(temporary[p]) BY <1>1 DEF FilesListed
<1>5. Regular = [p \in DOMAIN written \cup DOMAIN temporary \cup DOMAIN others |->
            CASE p \in DOMAIN written                       -> written[p]
              [] p \in DOMAIN temporary \ DOMAIN written    -> temporary[p]
              [] p \notin DOMAIN written \cup DOMAIN temporary -> others[p]]
  BY DEF Regular
<1> HIDE DEF written, temporary, others
<1>6. path \in DOMAIN written \cup DOMAIN temporary \cup DOMAIN others BY <1>5
<1>7. Regular[path] = CASE path \in DOMAIN written                       -> written[path]
                        [] path \in DOMAIN temporary \ DOMAIN written    -> temporary[path]
                        [] path \notin DOMAIN written \cup DOMAIN temporary -> others[path]
  BY <1>5, <1>6
<1>8. QED BY <1>2, <1>3, <1>4, <1>6, <1>7

\* The modules of a document are a sequence of records.
LEMMA ModulesListed ==
    ASSUME NEW content, Listed(content), content.state = "whole", NEW strict,
           ~DocumentRejected(content.doc, strict)
    PROVE  /\ \E S : ModulesOf(content.doc) \in Seq(S)
           /\ \A i \in DOMAIN ModulesOf(content.doc) : IsLoaded(ModulesOf(content.doc)[i])
<1> DEFINE entries == Entries(content.doc)
           S == {entries[i] : i \in DOMAIN entries}
           made == [i \in DOMAIN entries |-> ModuleOf(entries[i][2])]
<1>1. entries \in Seq(S) BY DEF Listed
<1>2. ModulesOf(content.doc) = made BY DEF ModulesOf
<1>3. ASSUME NEW i \in DOMAIN entries PROVE IsLoaded(ModuleOf(entries[i][2]))
  <2>1. PICK e : e = entries[i][2] OBVIOUS
  <2>2. Given(e, "target", "text", <<>>) \in Seq(STRING) /\ Given(e, "target", "text", <<>>) # <<>>
    BY <2>1 DEF Listed, DocumentRejected, EntryRejected
  <2>3. e["target"][2] \in Seq(STRING) BY <2>2 DEF Given
  <2>4. ModuleOf(e).target = e["target"][2] BY DEF ModuleOf
  <2>5. /\ ModuleOf(e) = [k \in DOMAIN ModuleOf(e) |-> ModuleOf(e)[k]]
        /\ "annotations" \in DOMAIN ModuleOf(e) /\ "target" \in DOMAIN ModuleOf(e)
    BY DEF ModuleOf
  <2>6. QED BY <2>1, <2>3, <2>4, <2>5 DEF IsLoaded
<1> HIDE DEF entries, S
<1>4. made = [i \in 1 .. Len(entries) |-> ModuleOf(entries[i][2])] /\ Len(entries) \in Nat BY <1>1
<1>5. made \in Seq({ModuleOf(entries[i][2]) : i \in 1 .. Len(entries)}) BY <1>4
<1>6. \A i \in DOMAIN made : IsLoaded(made[i]) BY <1>3
<1> HIDE DEF made
<1>7. QED BY <1>2, <1>5, <1>6

LEMMA Concatenated ==
    ASSUME NEW S, NEW s \in Seq(S), NEW T, NEW t \in Seq(T)
    PROVE  /\ s \o t \in Seq(S \cup T)
           /\ \A i \in DOMAIN (s \o t) : \/ i \in DOMAIN s /\ (s \o t)[i] = s[i]
                                         \/ \E j \in DOMAIN t : (s \o t)[i] = t[j]
<1>1. s \in Seq(S \cup T) /\ t \in Seq(S \cup T) OBVIOUS
<1>2. s \o t \in Seq(S \cup T) /\ Len(s \o t) = Len(s) + Len(t) BY <1>1
<1>3. SUFFICES ASSUME NEW i \in DOMAIN (s \o t)
               PROVE  \/ i \in DOMAIN s /\ (s \o t)[i] = s[i]
                      \/ \E j \in DOMAIN t : (s \o t)[i] = t[j]
  BY <1>2
<1>4. i \in 1 .. Len(s) + Len(t) /\ Len(s) \in Nat /\ Len(t) \in Nat BY <1>1, <1>2, <1>3
<1>5. CASE i <= Len(s) BY <1>1, <1>4, <1>5
<1>6. CASE i > Len(s)
  <2>1. i - Len(s) \in 1 .. Len(t) /\ (s \o t)[i] = t[i - Len(s)] BY <1>1, <1>4, <1>6
  <2>2. QED BY <1>1, <2>1
<1>7. QED BY <1>4, <1>5, <1>6

\* A step is one of the loader's, one of the registration's, the end of what was loaded, or leaves
\* both alone.
LEMMA Steps ==
    ASSUME [Next]_vars
    PROVE  \/ LoaderStep /\ UNCHANGED registrarVars
           \/ Construct
           \/ WriteNext
           \/ /\ load' = NotLoading /\ modules' = <<>> /\ reports' = <<>>
              /\ \/ writing' = writing /\ registry' = registry
                 \/ writing' = None /\ registry' = <<>>
           \/ UNCHANGED <<load, modules, writing, registry, reports>>
<1>1. CASE (WriterStep \/ Crash) /\ UNCHANGED <<tree, loaderVars, registrarVars>> /\ Watched
  BY <1>1 DEF loaderVars, registrarVars
<1>2. CASE LoaderStep /\ UNCHANGED <<writerVars, tree, registrarVars>> BY <1>2
<1>3. CASE WriteReturns BY <1>3 DEF WriteReturns
<1>4. CASE UNCHANGED vars BY <1>4 DEF vars, loaderVars, registrarVars
<1>5. QED BY <1>1, <1>2, <1>3, <1>4 DEF Next

LEMMA LoadInit == DeploymentInit => FilesListed /\ LoadOK
<1> SUFFICES ASSUME DeploymentInit PROVE FilesListed /\ LoadOK OBVIOUS
<1>1. FilesListed
  BY LoadingAssumption
  DEF DeploymentInit, LoadingInit, Init, LoadingAssumption, FilesListed
<1>2. load = NotLoading /\ modules = <<>> /\ writing = None /\ reports = <<>>
  BY DEF DeploymentInit, LoadingInit
<1>3. \E S : <<>> \in Seq(S) OBVIOUS
<1>4. DOMAIN modules = {} BY <1>2
<1>5. LoadOK BY <1>2, <1>3, <1>4 DEF LoadOK, NotLoading
<1>6. QED BY <1>1, <1>5

LEMMA LoadStep == FilesListed /\ LoadOK /\ [Next]_vars => LoadOK'
<1> SUFFICES ASSUME FilesListed, LoadOK, [Next]_vars PROVE LoadOK' OBVIOUS
<1>0. \E S : <<>> \in Seq(S) OBVIOUS
<1>1. ASSUME UNCHANGED registrarVars, load.phase # "loaded", NEW l,
             DOMAIN l = {"phase", "options", "seen", "found", "todo", "read"}, load' = l
      PROVE  modules' = <<>> \/ modules' = modules => LoadOK'
  <2>1. SUFFICES ASSUME modules' = <<>> \/ modules' = modules PROVE LoadOK' OBVIOUS
  <2>2. reports = <<>> /\ reports' = reports /\ writing' = writing
    BY <1>1 DEF LoadOK, registrarVars
  <2>3. (\E S : modules' \in Seq(S)) /\ \A i \in DOMAIN modules' : IsLoaded(modules'[i])
    <3>1. CASE modules' = <<>> BY <1>0, <3>1
    <3>2. CASE modules' = modules BY <3>2 DEF LoadOK
    <3>3. QED BY <2>1, <3>1, <3>2
  <2>4. QED BY <1>1, <2>2, <2>3 DEF LoadOK
<1>2. /\ DOMAIN NotLoading = {"phase", "options", "seen", "found", "todo", "read"}
      /\ NotLoading.phase = "idle"
  BY DEF NotLoading
<1>3. ASSUME UNCHANGED registrarVars, load.phase # "loaded", Fail PROVE LoadOK'
  BY <1>1, <1>2, <1>3 DEF Fail
<1>4. CASE (Open \/ Visit \/ Sort \/ ListingFails) /\ UNCHANGED registrarVars
  <2>1. load.phase # "loaded" BY <1>4 DEF Open, Visit, Sort, ListingFails
  <2>2. CASE Open
    <3>1. SUFFICES ASSUME ~Fail PROVE LoadOK' BY <1>3, <1>4, <2>1
    <3>2. PICK o : /\ load' = [NotLoading EXCEPT !.phase = "listing", !.options = o]
                   /\ modules' = <<>>
      BY <2>2, <3>1 DEF Open
    <3>3. DOMAIN load' = {"phase", "options", "seen", "found", "todo", "read"} BY <1>2, <3>2
    <3>4. QED BY <1>1, <1>4, <2>1, <3>2, <3>3
  <2>3. CASE Visit
    <3>1. PICK path : load' = [load EXCEPT !.seen = @ \cup {path},
                                           !.found = @ \cup ({path} \cap DOMAIN Regular)]
      BY <2>3 DEF Visit
    <3>2. DOMAIN load' = DOMAIN load /\ modules' = modules BY <2>3, <3>1 DEF Visit
    <3>3. QED BY <1>1, <1>4, <2>1, <3>2 DEF LoadOK
  <2>4. CASE Sort
    <3>1. SUFFICES ASSUME ~Fail PROVE LoadOK' BY <1>3, <1>4, <2>1
    <3>2. /\ load' = [NotLoading EXCEPT !.phase = "reading", !.options = load.options,
                                        !.todo = Sorted(load.found)]
          /\ modules' = modules
      BY <2>4, <3>1 DEF Sort
    <3>3. DOMAIN load' = {"phase", "options", "seen", "found", "todo", "read"} BY <1>2, <3>2
    <3>4. QED BY <1>1, <1>4, <2>1, <3>2, <3>3
  <2>5. CASE ListingFails BY <1>3, <1>4, <2>1, <2>5 DEF ListingFails
  <2>6. QED BY <1>4, <2>2, <2>3, <2>4, <2>5
<1>5. CASE ListOne /\ UNCHANGED registrarVars
  BY <1>1, <1>2, <1>3, <1>5 DEF ListOne
<1>6. CASE Read /\ UNCHANGED registrarVars
  <2> DEFINE path == Head(load.todo)
             next == [load EXCEPT !.todo = Tail(@), !.read = Append(@, path)]
  <2>1. load.phase = "reading" BY <1>6 DEF Read
  <2>2. DOMAIN next = DOMAIN load OBVIOUS
  <2>3. \/ load' = next /\ modules' = modules
        \/ /\ load' = next /\ path \in DOMAIN Regular /\ Accepts(Regular[path])
           /\ modules' = modules \o ModulesOf(Regular[path].doc)
        \/ Fail
    BY <1>6 DEF Read
  <2> HIDE DEF next
  <2>4. CASE load' = next /\ modules' = modules BY <1>1, <1>6, <2>1, <2>2, <2>4 DEF LoadOK
  <2>5. CASE /\ load' = next /\ path \in DOMAIN Regular /\ Accepts(Regular[path])
             /\ modules' = modules \o ModulesOf(Regular[path].doc)
    <3>1. /\ Listed(Regular[path]) /\ Regular[path].state = "whole"
          /\ ~DocumentRejected(Regular[path].doc, load.options.strict)
      BY <2>5, RegularListed DEF Accepts
    <3>2. PICK made : made = ModulesOf(Regular[path].doc) OBVIOUS
    <3>3. PICK S, T : modules \in Seq(S) /\ made \in Seq(T)
      BY <3>1, <3>2, ModulesListed DEF LoadOK
    <3>4. \A i \in DOMAIN made : IsLoaded(made[i]) BY <3>1, <3>2, ModulesListed
    <3>5. modules' = modules \o made BY <2>5, <3>2
    <3>6. modules' \in Seq(S \cup T) BY <3>3, <3>5, Concatenated
    <3>7. \A i \in DOMAIN modules' : IsLoaded(modules'[i])
      BY <3>3, <3>4, <3>5, Concatenated DEF LoadOK
    <3>8. QED BY <1>6, <2>1, <2>2, <2>5, <3>6, <3>7 DEF LoadOK, registrarVars
  <2>6. CASE Fail BY <1>3, <1>6, <2>1, <2>6
  <2>7. QED BY <2>3, <2>4, <2>5, <2>6
<1>7. CASE ReadFails /\ UNCHANGED registrarVars BY <1>3, <1>7 DEF ReadFails
<1>8. CASE Loaded /\ UNCHANGED registrarVars
  BY <1>1, <1>8 DEF Loaded, LoadOK
<1>9. CASE Construct
  BY <1>9 DEF Construct, LoadOK, loaderVars
<1>10. CASE WriteNext
  <2>1. load' = load /\ modules' = modules /\ writing' = writing /\ load.phase = "loaded"
        /\ writing # None
    BY <1>10 DEF WriteNext, loaderVars
  <2>2. \E r : reports' = Append(reports, r) BY <1>10 DEF WriteNext, Register, Verified, Reported
  <2>3. \E S : reports' \in Seq(S)
    <3>1. PICK r, S : reports' = Append(reports, r) /\ reports \in Seq(S) BY <2>2 DEF LoadOK
    <3>2. reports' \in Seq(S \cup {r}) BY <3>1, AppendOne
    <3>3. QED BY <3>2
  <2>4. QED BY <2>1, <2>3 DEF LoadOK
<1>11. CASE /\ load' = NotLoading /\ modules' = <<>> /\ reports' = <<>>
            /\ \/ writing' = writing /\ registry' = registry
               \/ writing' = None /\ registry' = <<>>
  BY <1>0, <1>2, <1>11 DEF LoadOK
<1>12. CASE UNCHANGED <<load, modules, writing, reports>> BY <1>12 DEF LoadOK
<1>13. CASE LoaderStep /\ UNCHANGED registrarVars
  BY <1>4, <1>5, <1>6, <1>7, <1>8, <1>13 DEF LoaderStep
<1>14. QED BY <1>9, <1>10, <1>11, <1>12, <1>13, Steps

\* What to_module makes of a module: all its fields, announced as streaming just when it can.
LEMMA MadeModule ==
    ASSUME NEW m, IsLoaded(m)
    PROVE  LET made == ToModule(m) IN
           /\ [made.descriptor EXCEPT !.annotations = m.annotations] = m
           /\ Streaming(made.descriptor)
                <=> (Streaming(m) /\ StreamHandler(writing.streams, m.target) # None)
           /\ made.streams # None <=> Streaming(made.descriptor)
           /\ made.runs = IF Handler(writing.handlers, m.target) = None
                          THEN Echo ELSE Handler(writing.handlers, m.target)
<1> DEFINE stream == IF Streaming(m) THEN StreamHandler(writing.streams, m.target) ELSE None
           handler == Handler(writing.handlers, m.target)
           flag == [streaming |-> stream # None]
           d == [m EXCEPT !.annotations = flag]
<1>1. ToModule(m) = [descriptor |-> d, runs |-> IF handler = None THEN Echo ELSE handler,
                     streams |-> stream]
  BY DEF ToModule
<1>2. flag # None /\ flag.streaming = (stream # None)
  <2>1. (stream # None) \in BOOLEAN OBVIOUS
  <2>2. flag \in [streaming : BOOLEAN] BY <2>1
  <2>3. QED BY <2>2, BindingsAssumption DEF BindingsAssumption
<1> HIDE DEF flag
<1>3. d.annotations = flag /\ [d EXCEPT !.annotations = m.annotations] = m BY DEF IsLoaded
<1>4. Streaming(d) <=> stream # None BY <1>2, <1>3 DEF Streaming
<1> HIDE DEF d
<1>5. QED BY <1>1, <1>3, <1>4

LEMMA ReportsStep == LoadOK /\ ReportsKept /\ [Next]_vars => ReportsKept'
<1> SUFFICES ASSUME LoadOK, ReportsKept, [Next]_vars PROVE ReportsKept' OBVIOUS
<1>0. ASSUME reports' = <<>> PROVE ReportsKept'
  <2>1. DOMAIN reports' = {} BY <1>0
  <2>2. QED BY <2>1 DEF ReportsKept
<1>1. CASE (LoaderStep /\ UNCHANGED registrarVars) \/ Construct
  <2>1. reports = <<>> /\ reports' = reports
    BY <1>1 DEF LoaderStep, Open, Visit, Sort, ListingFails, ListOne, Read, ReadFails, Loaded,
                Construct, LoadOK, registrarVars
  <2>2. QED BY <1>0, <2>1
<1>2. CASE /\ load' = NotLoading /\ modules' = <<>> /\ reports' = <<>>
           /\ \/ writing' = writing /\ registry' = registry
              \/ writing' = None /\ registry' = <<>>
  BY <1>0, <1>2
<1>3. CASE UNCHANGED <<load, modules, writing, registry, reports>>
  BY <1>3 DEF ReportsKept, Registered, ToModule
<1>4. CASE WriteNext
  <2>0. PICK n, m : n = Len(reports) + 1 /\ m = modules[n] OBVIOUS
  <2>1. modules' = modules /\ writing' = writing /\ Len(reports) < Len(modules)
    BY <1>4 DEF WriteNext, loaderVars
  <2>2. \E verified, why :
          /\ Reported(m, verified, why)
          /\ \/ /\ registry' = registry /\ (verified => writing.dry_run)
                /\ why = "registration" => ~Registrable(m.module_id, ToModule(m))
             \/ registry' = Put(registry, m.module_id, ToModule(m)) /\ m.module_id \notin DOMAIN registry
    <3>1. CASE writing.dry_run /\ Reported(m, TRUE, "dry run") /\ UNCHANGED registry
      <4>1. "dry run" = "registration" => ~Registrable(m.module_id, ToModule(m)) OBVIOUS
      <4>2. WITNESS TRUE, "dry run"
      <4>3. QED BY <3>1, <4>1
    <3>2. CASE Reported(m, FALSE, "refused") /\ UNCHANGED registry
      <4>1. "refused" = "registration" => ~Registrable(m.module_id, ToModule(m)) OBVIOUS
      <4>2. WITNESS FALSE, "refused"
      <4>3. QED BY <3>2, <4>1
    <3>3. CASE \E accepted \in BOOLEAN : Register(m, accepted)
      <4>1. PICK accepted \in BOOLEAN : Register(m, accepted) BY <3>3
      <4>2. CASE /\ ~(accepted /\ Registrable(m.module_id, ToModule(m)))
                 /\ Reported(m, FALSE, IF accepted THEN "registration" ELSE "registry")
                 /\ UNCHANGED registry
        <5> DEFINE why == IF accepted THEN "registration" ELSE "registry"
        <5>1. why = "registration" => accepted OBVIOUS
        <5>2. Reported(m, FALSE, why) BY <4>2
        <5> HIDE DEF why
        <5>3. QED BY <4>2, <5>1, <5>2
      <4>3. CASE /\ Registrable(m.module_id, ToModule(m)) /\ Verified(m)
                 /\ registry' = Put(registry, m.module_id, ToModule(m))
        <5>1. \E verified : Reported(m, verified, "verification") BY <4>3, Zenon DEF Verified
        <5>2. m.module_id \notin DOMAIN registry BY <4>3, Zenon DEF Registrable
        <5>3. QED BY <4>3, <5>1, <5>2, Zenon
      <4>4. QED BY <4>1, <4>2, <4>3, Zenon DEF Register
    <3>4. QED BY <1>4, <2>0, <3>1, <3>2, <3>3, Zenon DEF WriteNext
  <2>3. PICK verified, why :
          /\ Reported(m, verified, why)
          /\ \/ /\ registry' = registry /\ (verified => writing.dry_run)
                /\ why = "registration" => ~Registrable(m.module_id, ToModule(m))
             \/ registry' = Put(registry, m.module_id, ToModule(m)) /\ m.module_id \notin DOMAIN registry
    BY <2>2
  <2> DEFINE r == [id |-> m.module_id, verified |-> verified, why |-> why]
  <2>4. /\ DOMAIN reports' = DOMAIN reports \cup {n}
        /\ \A i \in DOMAIN reports : reports'[i] = reports[i]
        /\ reports'[n] = r
    <3>1. PICK S : reports \in Seq(S) BY DEF LoadOK
    <3>2. reports' = Append(reports, r) BY <2>3 DEF Reported
    <3> HIDE DEF r
    <3>3. QED BY <2>0, <3>1, <3>2, AppendOne
  <2>5. IsLoaded(m)
    <3>1. PICK S, T : modules \in Seq(S) /\ reports \in Seq(T) BY DEF LoadOK
    <3>2. n \in DOMAIN modules BY <2>0, <2>1, <3>1
    <3>3. QED BY <2>0, <3>2 DEF LoadOK
  <2>6. r.verified = verified /\ r.why = why OBVIOUS
  <2> HIDE DEF r
  <2>7. \A other : ToModule(other)' = ToModule(other) BY <2>1 DEF ToModule
  <2>8. modules'[n] = m BY <2>0, <2>1
  <2>9. CASE /\ registry' = registry /\ (verified => writing.dry_run)
             /\ why = "registration" => ~Registrable(m.module_id, ToModule(m))
    <3>1. why = "registration" => m.module_id \in DOMAIN registry
      BY <2>5, <2>9, MadeModule, Zenon DEF Registrable
    <3>2. Registered(n)' BY <2>1, <2>4, <2>5, <2>6, <2>8, <2>9, <3>1 DEF Registered
    <3>3. \A i \in DOMAIN reports : Registered(i)'
      BY <2>1, <2>4, <2>7, <2>9 DEF ReportsKept, Registered
    <3>4. QED BY <2>4, <3>2, <3>3 DEF ReportsKept
  <2>10. CASE registry' = Put(registry, m.module_id, ToModule(m)) /\ m.module_id \notin DOMAIN registry
    <3>1. /\ m.module_id \in DOMAIN registry' /\ registry'[m.module_id] = ToModule(m)
          /\ \A id \in DOMAIN registry : id \in DOMAIN registry' /\ registry'[id] = registry[id]
      BY <2>10 DEF Put
    <3>2. Registered(n)' BY <2>1, <2>4, <2>5, <2>7, <2>8, <3>1 DEF Registered
    <3>3. \A i \in DOMAIN reports : Registered(i)'
      BY <2>1, <2>4, <2>7, <3>1 DEF ReportsKept, Registered
    <3>4. QED BY <2>4, <3>2, <3>3 DEF ReportsKept
  <2>11. QED BY <2>3, <2>9, <2>10
<1>5. QED BY <1>1, <1>2, <1>3, <1>4, Steps

\* A result that is reported as verified is of a module the registry holds as it was loaded, running
\* its own handler and announced as streaming just when it can, however many results came after it;
\* and nothing is refused for a stream nobody provides (RegistryWriter::write,
\* output/registry_writer.rs).
THEOREM RegistryHoldsTheReported == FactoryHasNoEcho /\ Spec => []RegistrationsTrue
<1> SUFFICES ASSUME FactoryHasNoEcho PROVE Spec => []RegistrationsTrue OBVIOUS
<1> DEFINE Inv == WriterInv /\ FilesListed /\ LoadOK /\ ReportsKept
<1>1. DeploymentInit => Inv
  <2> SUFFICES ASSUME DeploymentInit PROVE FilesListed /\ LoadOK /\ ReportsKept BY WriterInit
  <2>1. FilesListed /\ LoadOK BY LoadInit
  <2>2. reports = <<>> /\ DOMAIN <<>> = {} BY DEF DeploymentInit
  <2>3. QED BY <2>1, <2>2 DEF ReportsKept
<1>2. Inv /\ [Next]_vars => Inv'
  BY WriterInductive, ListedStep, LoadStep, ReportsStep DEF WriterInv
<1>3. Inv => RegistrationsTrue
  <2> SUFFICES ASSUME LoadOK, ReportsKept, NEW i \in DOMAIN reports, NEW m, m = modules[i]
               PROVE  /\ reports[i].verified /\ ~writing.dry_run =>
                           /\ m.module_id \in DOMAIN registry
                           /\ LET registered == registry[m.module_id] IN
                              /\ [registered.descriptor EXCEPT !.annotations = m.annotations] = m
                              /\ Streaming(registered.descriptor)
                                   <=> (Streaming(m) /\ StreamHandler(writing.streams, m.target) # None)
                              /\ registered.runs \in {Handler(writing.handlers, m.target), Echo}
                              /\ registered.runs = Echo => Handler(writing.handlers, m.target) = None
                      /\ reports[i].why = "registration" => m.module_id \in DOMAIN registry
    BY Zenon DEF RegistrationsTrue
  <2>1. Registered(i) BY DEF ReportsKept
  <2>2. Handler(writing.handlers, m.target) # Echo
    <3>1. reports # <<>> OBVIOUS
    <3>2. writing \in RegistryWriters BY <3>1 DEF LoadOK
    <3>3. IsLoaded(m) BY <2>1 DEF Registered
    <3>4. QED BY <3>2, <3>3 DEF FactoryHasNoEcho, IsLoaded
  <2>3. IsLoaded(m) BY <2>1 DEF Registered
  <2>4. PICK made : made = ToModule(m) OBVIOUS
  <2>5. /\ [made.descriptor EXCEPT !.annotations = m.annotations] = m
        /\ Streaming(made.descriptor)
             <=> (Streaming(m) /\ StreamHandler(writing.streams, m.target) # None)
        /\ made.runs = IF Handler(writing.handlers, m.target) = None
                       THEN Echo ELSE Handler(writing.handlers, m.target)
    BY <2>3, <2>4, MadeModule, Zenon
  <2>6. /\ made.runs \in {Handler(writing.handlers, m.target), Echo}
        /\ made.runs = Echo => Handler(writing.handlers, m.target) = None
    BY <2>2, <2>5
  <2>7. reports[i].verified /\ ~writing.dry_run =>
          m.module_id \in DOMAIN registry /\ registry[m.module_id] = made
    BY <2>1, <2>4 DEF Registered
  <2>8. reports[i].why = "registration" => m.module_id \in DOMAIN registry
    BY <2>1 DEF Registered
  <2>9. QED BY <2>5, <2>6, <2>7, <2>8, Zenon
<1>4. QED BY <1>1, <1>2, <1>3, PTL DEF Spec

------------------------------------------------------------------------------
(* What the allow-list lets in                                             *)

\* The registry has only what the allow-list lets in, and what it lets in was not refused.
AllowListKept ==
    /\ writing = None => DOMAIN registry = {}
    /\ writing # None =>
         /\ \A id \in DOMAIN registry :
              /\ registry[id].descriptor.target \in Seq(STRING)
              /\ TargetAllowed(registry[id].descriptor.target, writing.allowed_prefixes)
         /\ \A i \in DOMAIN reports : reports[i].why = "refused" =>
              /\ modules[i].target \in Seq(STRING)
              /\ ~TargetAllowed(modules[i].target, writing.allowed_prefixes)

LEMMA AllowListStep == LoadOK /\ AllowListKept /\ [Next]_vars => AllowListKept'
<1> SUFFICES ASSUME LoadOK, AllowListKept, [Next]_vars PROVE AllowListKept' OBVIOUS
<1>0. ASSUME reports' = <<>>, \/ registry' = registry /\ writing' = writing
                              \/ DOMAIN registry' = {}
      PROVE  AllowListKept'
  <2>1. DOMAIN reports' = {} BY <1>0
  <2>2. QED BY <1>0, <2>1 DEF AllowListKept
<1>1. CASE LoaderStep /\ UNCHANGED registrarVars
  <2>1. reports = <<>> /\ reports' = reports /\ registry' = registry /\ writing' = writing
    BY <1>1 DEF LoaderStep, Open, Visit, Sort, ListingFails, ListOne, Read, ReadFails, Loaded, LoadOK,
                registrarVars
  <2>2. QED BY <1>0, <2>1
<1>2. CASE Construct
  <2>1. reports = <<>> /\ reports' = reports /\ registry' = registry /\ DOMAIN registry = {}
    BY <1>2 DEF Construct, LoadOK, AllowListKept
  <2>2. QED BY <1>0, <2>1
<1>3. CASE WriteNext
  <2>0. PICK n, m : n = Len(reports) + 1 /\ m = modules[n] OBVIOUS
  <2>1. modules' = modules /\ writing' = writing /\ Len(reports) < Len(modules) /\ writing # None
    BY <1>3 DEF WriteNext, loaderVars
  <2>2. \E r : /\ reports' = Append(reports, r)
               /\ r.why = "refused" => ~TargetAllowed(m.target, writing.allowed_prefixes)
    <3>1. ASSUME NEW verified, NEW why, Reported(m, verified, why),
                 why = "refused" => ~TargetAllowed(m.target, writing.allowed_prefixes)
          PROVE  \E r : /\ reports' = Append(reports, r)
                        /\ r.why = "refused" => ~TargetAllowed(m.target, writing.allowed_prefixes)
      <4> DEFINE r == [id |-> m.module_id, verified |-> verified, why |-> why]
      <4>1. r.why = why /\ reports' = Append(reports, r) BY <3>1 DEF Reported
      <4> HIDE DEF r
      <4>2. QED BY <3>1, <4>1
    <3>2. CASE Reported(m, TRUE, "dry run") BY <3>1, <3>2
    <3>3. CASE ~TargetAllowed(m.target, writing.allowed_prefixes) /\ Reported(m, FALSE, "refused")
      BY <3>1, <3>3
    <3>4. CASE \E accepted \in BOOLEAN : Register(m, accepted)
      <4>1. PICK why : /\ why \in {"registration", "registry", "verification"}
                       /\ \E verified : Reported(m, verified, why)
        BY <3>4 DEF Register, Verified
      <4>2. why # "refused" BY <4>1
      <4>3. QED BY <3>1, <4>1, <4>2
    <3>5. QED BY <1>3, <2>0, <3>2, <3>3, <3>4, Zenon DEF WriteNext
  <2>3. \/ registry' = registry
        \/ /\ registry' = Put(registry, m.module_id, ToModule(m))
           /\ TargetAllowed(m.target, writing.allowed_prefixes)
    BY <1>3, <2>0, Zenon DEF WriteNext, Register
  <2>4. IsLoaded(m)
    <3>1. PICK S, T : modules \in Seq(S) /\ reports \in Seq(T) BY DEF LoadOK
    <3>2. n \in DOMAIN modules BY <2>0, <2>1, <3>1
    <3>3. QED BY <2>0, <3>2 DEF LoadOK
  <2>5. ToModule(m).descriptor.target = m.target /\ m.target \in Seq(STRING)
    BY <2>4 DEF ToModule, IsLoaded
  <2>6. \A id \in DOMAIN registry' :
          /\ registry'[id].descriptor.target \in Seq(STRING)
          /\ TargetAllowed(registry'[id].descriptor.target, writing.allowed_prefixes)
    BY <2>1, <2>3, <2>5 DEF AllowListKept, Put
  <2>7. \A i \in DOMAIN reports' : reports'[i].why = "refused" =>
          /\ modules[i].target \in Seq(STRING)
          /\ ~TargetAllowed(modules[i].target, writing.allowed_prefixes)
    <3>1. PICK r, S : /\ reports' = Append(reports, r) /\ reports \in Seq(S)
                      /\ r.why = "refused" => ~TargetAllowed(m.target, writing.allowed_prefixes)
      BY <2>2 DEF LoadOK
    <3>2. /\ DOMAIN reports' = DOMAIN reports \cup {n}
          /\ \A i \in DOMAIN reports : reports'[i] = reports[i]
          /\ reports'[n] = r
      BY <2>0, <3>1, AppendOne
    <3>3. QED BY <2>0, <2>1, <2>5, <3>1, <3>2 DEF AllowListKept
  <2>8. QED BY <2>1, <2>6, <2>7 DEF AllowListKept
<1>4. CASE /\ load' = NotLoading /\ modules' = <<>> /\ reports' = <<>>
           /\ \/ writing' = writing /\ registry' = registry
              \/ writing' = None /\ registry' = <<>>
  <2>1. DOMAIN <<>> = {} OBVIOUS
  <2>2. QED BY <1>0, <1>4, <2>1
<1>5. CASE UNCHANGED <<load, modules, writing, registry, reports>> BY <1>5 DEF AllowListKept
<1>6. QED BY <1>1, <1>2, <1>3, <1>4, <1>5, Steps

\* What the allow-list keeps out is not registered, and what it lets in is not refused; and it is
\* by their components that prefixes and targets are compared, though the code compares their
\* characters (module_path_matches_prefix, output/registry_writer.rs).
THEOREM RegistryHonoursAllowList == Spec => []AllowListHonoured
<1> DEFINE Inv == WriterInv /\ FilesListed /\ LoadOK /\ AllowListKept
<1>1. DeploymentInit => Inv
  <2> SUFFICES ASSUME DeploymentInit PROVE FilesListed /\ LoadOK /\ AllowListKept BY WriterInit
  <2>1. FilesListed /\ LoadOK BY LoadInit
  <2>2. writing = None /\ registry = <<>> /\ DOMAIN <<>> = {} BY DEF DeploymentInit
  <2>3. QED BY <2>1, <2>2 DEF AllowListKept
<1>2. Inv /\ [Next]_vars => Inv'
  BY WriterInductive, ListedStep, LoadStep, AllowListStep DEF WriterInv
<1>3. Inv => AllowListHonoured
  <2> SUFFICES ASSUME LoadOK, AllowListKept, writing # None, writing.allowed_prefixes # None
               PROVE  /\ \A id \in DOMAIN registry :
                           LiesWithin(registry[id].descriptor.target, writing.allowed_prefixes)
                      /\ \A i \in DOMAIN reports : reports[i].why = "refused" =>
                           ~LiesWithin(modules[i].target, writing.allowed_prefixes)
    BY Zenon DEF AllowListHonoured
  <2>1. PICK prefixes : prefixes = writing.allowed_prefixes OBVIOUS
  <2>2. \A p \in prefixes : p \in Seq(STRING)
    BY <2>1, RegistryAssumption DEF RegistryAssumption, LoadOK
  <2>3. \A target \in Seq(STRING) : TargetAllowed(target, prefixes) <=> LiesWithin(target, prefixes)
    BY <2>1, <2>2, AllowedByComponents
  <2>4. \A id \in DOMAIN registry : LiesWithin(registry[id].descriptor.target, prefixes)
    BY <2>1, <2>3 DEF AllowListKept
  <2>5. \A i \in DOMAIN reports : reports[i].why = "refused" => ~LiesWithin(modules[i].target, prefixes)
    BY <2>1, <2>3 DEF AllowListKept
  <2>6. QED BY <2>1, <2>4, <2>5
<1>4. QED BY <1>1, <1>2, <1>3, PTL DEF Spec
------------------------------------------------------------------------------
(* Patterns                                                                *)

Cursors(pattern, name) ==
    {c \in (1 .. Len(pattern) + 1) \X (1 .. Len(name) + 1)
                          \X (0 .. Len(pattern)) \X (0 .. Len(name) + 1) :
                        c[3] < c[1] /\ c[4] <= c[2]}

Sees(pattern, p, token) == p <= Len(pattern) /\ pattern[p] = token

\* What the matcher makes of its cursors, where match is what it makes of the next ones.
Matches(pattern, name, match, c) ==
    IF c[2] > Len(name) THEN \A i \in c[1] .. Len(pattern) : pattern[i] = "*"
    ELSE CASE Sees(pattern, c[1], "*") -> match[<<c[1] + 1, c[2], c[1], c[2]>>]
           [] ~Sees(pattern, c[1], "*") /\ (Sees(pattern, c[1], "?") \/ Sees(pattern, c[1], name[c[2]])) ->
                  match[<<c[1] + 1, c[2] + 1, c[3], c[4]>>]
           [] OTHER -> c[3] # 0 /\ match[<<c[3] + 1, c[4] + 1, c[3], c[4] + 1>>]

IsMatch(match, pattern, name) ==
    match = [c \in Cursors(pattern, name) |-> Matches(pattern, name, match, c)]

LEMMA CursorsMove ==
    ASSUME NEW X, NEW pattern \in Seq(X), NEW name \in Seq(X), NEW c \in Cursors(pattern, name)
    PROVE  /\ c[1] \in 1 .. Len(pattern) + 1 /\ c[2] \in 1 .. Len(name) + 1
           /\ c[3] \in 0 .. Len(pattern) /\ c[4] \in 0 .. Len(name) + 1
           /\ c[3] < c[1] /\ c[4] <= c[2] /\ Len(pattern) \in Nat /\ Len(name) \in Nat
           /\ c = <<c[1], c[2], c[3], c[4]>>
           /\ c[2] <= Len(name) =>
                /\ c[1] <= Len(pattern) =>
                     /\ <<c[1] + 1, c[2], c[1], c[2]>> \in Cursors(pattern, name)
                     /\ <<c[1] + 1, c[2] + 1, c[3], c[4]>> \in Cursors(pattern, name)
                /\ c[3] # 0 => <<c[3] + 1, c[4] + 1, c[3], c[4] + 1>> \in Cursors(pattern, name)
<1>1. Len(pattern) \in Nat /\ Len(name) \in Nat OBVIOUS
<1>2. PICK p \in 1 .. Len(pattern) + 1, n \in 1 .. Len(name) + 1, star \in 0 .. Len(pattern),
           mark \in 0 .. Len(name) + 1 : c = <<p, n, star, mark>> /\ star < p /\ mark <= n
  BY DEF Cursors
<1>3. c[1] = p /\ c[2] = n /\ c[3] = star /\ c[4] = mark BY <1>2
<1>4. ASSUME NEW a \in 1 .. Len(pattern) + 1, NEW b \in 1 .. Len(name) + 1,
             NEW d \in 0 .. Len(pattern), NEW e \in 0 .. Len(name) + 1, d < a, e <= b
      PROVE  <<a, b, d, e>> \in Cursors(pattern, name)
  BY <1>4 DEF Cursors
<1>5. ASSUME n <= Len(name), p <= Len(pattern)
      PROVE  /\ <<p + 1, n, p, n>> \in Cursors(pattern, name)
             /\ <<p + 1, n + 1, star, mark>> \in Cursors(pattern, name)
  <2>1. /\ p + 1 \in 1 .. Len(pattern) + 1 /\ p \in 0 .. Len(pattern) /\ p < p + 1
        /\ n \in 0 .. Len(name) + 1 /\ n <= n /\ n + 1 \in 1 .. Len(name) + 1
        /\ star < p + 1 /\ mark <= n + 1
    BY <1>1, <1>2, <1>5
  <2>2. QED BY <1>2, <1>4, <2>1
<1>6. ASSUME n <= Len(name), star # 0
      PROVE  <<star + 1, mark + 1, star, mark + 1>> \in Cursors(pattern, name)
  <2>1. /\ star + 1 \in 1 .. Len(pattern) + 1 /\ star < star + 1
        /\ mark + 1 \in 1 .. Len(name) + 1 /\ mark + 1 <= mark + 1 /\ mark + 1 \in 0 .. Len(name) + 1
    BY <1>1, <1>2, <1>6
  <2>2. QED BY <1>2, <1>4, <2>1
<1>7. QED BY <1>1, <1>2, <1>3, <1>5, <1>6

\* The matcher is defined, for all patterns and names.
LEMMA MatchUnfolds ==
    ASSUME NEW X, NEW pattern \in Seq(X), NEW name \in Seq(X)
    PROVE  \E match : /\ IsMatch(match, pattern, name)
                      /\ MatchBindingPattern(pattern, name) = match[<<1, 1, 0, 0>>]
<1> DEFINE C == Cursors(pattern, name)
           In(S) == [c \in C |-> c \in S]
           F == [S \in SUBSET C |-> {c \in C : Matches(pattern, name, In(S), c)}]
<1>1. F \in [SUBSET C -> SUBSET C] OBVIOUS
<1>2. ASSUME NEW S \in SUBSET C, NEW T \in SUBSET C, S \subseteq T PROVE F[S] \subseteq F[T]
  <2> SUFFICES ASSUME NEW c \in C, Matches(pattern, name, In(S), c)
               PROVE  Matches(pattern, name, In(T), c)
    OBVIOUS
  <2>1. \A d \in C : In(S)[d] => In(T)[d] BY <1>2
  <2> HIDE DEF In, F, C
  <2>2. QED BY <2>1, CursorsMove DEF Matches, Sees, C
<1>3. PICK G \in SUBSET C : F[G] = G
  <2> HIDE DEF F, C
  <2>1. QED BY <1>1, <1>2, FixedPoint
<1>4. PICK match : match = In(G) OBVIOUS
<1>5. IsMatch(match, pattern, name)
  <2>1. \A c \in C : match[c] = (c \in G) BY <1>4
  <2>2. \A c \in C : c \in G <=> Matches(pattern, name, match, c) BY <1>3, <1>4
  <2>3. \A c \in C : Matches(pattern, name, match, c) \in BOOLEAN
    <3> SUFFICES ASSUME NEW c \in C PROVE Matches(pattern, name, match, c) \in BOOLEAN OBVIOUS
    <3>1. \A d \in C : match[d] \in BOOLEAN
      <4> SUFFICES ASSUME NEW d \in C PROVE match[d] \in BOOLEAN OBVIOUS
      <4> HIDE DEF C
      <4>1. match[d] = (d \in G) BY <2>1
      <4>2. (d \in G) \in BOOLEAN OBVIOUS
      <4>3. QED BY <4>1, <4>2
    <3> HIDE DEF C
    <3>0. /\ c[1] \in 1 .. Len(pattern) + 1 /\ c[2] \in 1 .. Len(name) + 1
          /\ Len(pattern) \in Nat /\ Len(name) \in Nat
      BY CursorsMove DEF C
    <3>2. CASE c[2] > Len(name) BY <3>2 DEF Matches
    <3>3. CASE ~(c[2] > Len(name)) /\ Sees(pattern, c[1], "*")
      <4>0. c[1] <= Len(pattern) /\ c[2] <= Len(name) BY <3>3, <3>0 DEF Sees
      <4>1. <<c[1] + 1, c[2], c[1], c[2]>> \in C BY <4>0, CursorsMove DEF C
      <4>2. Matches(pattern, name, match, c) = match[<<c[1] + 1, c[2], c[1], c[2]>>]
        BY <3>3 DEF Matches, Sees
      <4>3. QED BY <3>1, <4>1, <4>2
    <3>4. CASE /\ ~(c[2] > Len(name)) /\ ~Sees(pattern, c[1], "*")
               /\ Sees(pattern, c[1], "?") \/ Sees(pattern, c[1], name[c[2]])
      <4>0. c[1] <= Len(pattern) /\ c[2] <= Len(name) BY <3>4, <3>0 DEF Sees
      <4>1. <<c[1] + 1, c[2] + 1, c[3], c[4]>> \in C BY <4>0, CursorsMove DEF C
      <4>2. Matches(pattern, name, match, c) = match[<<c[1] + 1, c[2] + 1, c[3], c[4]>>]
        BY <3>4 DEF Matches
      <4>3. QED BY <3>1, <4>1, <4>2
    <3>5. CASE /\ ~(c[2] > Len(name)) /\ ~Sees(pattern, c[1], "*")
               /\ ~(Sees(pattern, c[1], "?") \/ Sees(pattern, c[1], name[c[2]]))
      <4>1. Matches(pattern, name, match, c)
              = (c[3] # 0 /\ match[<<c[3] + 1, c[4] + 1, c[3], c[4] + 1>>])
        BY <3>5 DEF Matches
      <4>2. QED BY <4>1
    <3>6. QED BY <3>2, <3>3, <3>4, <3>5
  <2>4. match = [c \in C |-> Matches(pattern, name, match, c)] BY <1>4, <2>1, <2>2, <2>3
  <2>5. QED BY <2>4 DEF IsMatch
<1> DEFINE chosen == CHOOSE e : IsMatch(e, pattern, name)
<1>6. IsMatch(chosen, pattern, name) BY <1>5
<1>7. MatchBindingPattern(pattern, name) = chosen[<<1, 1, 0, 0>>]
  BY DEF MatchBindingPattern, IsMatch, Matches, Cursors, Sees
<1> HIDE DEF chosen
<1>8. QED
  <2> WITNESS chosen
  <2>1. QED BY <1>6, <1>7

Places(pattern, name) == (1 .. Len(pattern) + 1) \X (1 .. Len(name) + 1)

\* What the reference makes of two places, where fits is what it makes of those after them.
Passes(pattern, name, fits, q) ==
    IF q[1] > Len(pattern) THEN q[2] > Len(name)
    ELSE IF pattern[q[1]] = "*" THEN \E m \in q[2] .. Len(name) + 1 : fits[<<q[1] + 1, m>>]
    ELSE q[2] <= Len(name) /\ pattern[q[1]] \in {"?", name[q[2]]} /\ fits[<<q[1] + 1, q[2] + 1>>]

IsFit(fits, pattern, name) ==
    fits = [q \in Places(pattern, name) |-> Passes(pattern, name, fits, q)]

LEMMA FitsUnfolds ==
    ASSUME NEW X, NEW pattern \in Seq(X), NEW name \in Seq(X)
    PROVE  \E fits : /\ IsFit(fits, pattern, name)
                     /\ Fits(pattern, name) = fits[<<1, 1>>]
<1> DEFINE C == Places(pattern, name)
           In(S) == [q \in C |-> q \in S]
           F == [S \in SUBSET C |-> {q \in C : Passes(pattern, name, In(S), q)}]
<1>1. F \in [SUBSET C -> SUBSET C] OBVIOUS
<1>2. ASSUME NEW S \in SUBSET C, NEW T \in SUBSET C, S \subseteq T PROVE F[S] \subseteq F[T]
  <2> SUFFICES ASSUME NEW q \in C, Passes(pattern, name, In(S), q)
               PROVE  Passes(pattern, name, In(T), q)
    OBVIOUS
  <2>1. \A d \in C : In(S)[d] => In(T)[d] BY <1>2
  <2>2. /\ q[1] <= Len(pattern) => \A m \in q[2] .. Len(name) + 1 : <<q[1] + 1, m>> \in C
        /\ q[1] <= Len(pattern) /\ q[2] <= Len(name) => <<q[1] + 1, q[2] + 1>> \in C
        /\ q[1] \in 1 .. Len(pattern) + 1 /\ Len(pattern) \in Nat
    BY DEF Places
  <2> HIDE DEF In, F, C
  <2>3. QED BY <2>1, <2>2 DEF Passes
<1>3. PICK G \in SUBSET C : F[G] = G
  <2> HIDE DEF F, C
  <2>1. QED BY <1>1, <1>2, FixedPoint
<1>4. PICK fits : fits = In(G) OBVIOUS
<1>5. IsFit(fits, pattern, name)
  <2>1. \A q \in C : fits[q] = (q \in G) BY <1>4
  <2>2. \A q \in C : q \in G <=> Passes(pattern, name, fits, q) BY <1>3, <1>4
  <2>3. \A q \in C : Passes(pattern, name, fits, q) \in BOOLEAN
    <3> SUFFICES ASSUME NEW q \in C PROVE Passes(pattern, name, fits, q) \in BOOLEAN OBVIOUS
    <3>0. q[2] \in Nat /\ Len(name) \in Nat BY DEF Places
    <3> HIDE DEF C
    <3>1. CASE q[1] > Len(pattern)
      <4>1. Passes(pattern, name, fits, q) = (q[2] > Len(name)) BY <3>1 DEF Passes
      <4>2. QED BY <3>0, <4>1
    <3>2. CASE ~(q[1] > Len(pattern)) /\ pattern[q[1]] = "*"
      <4>1. Passes(pattern, name, fits, q)
              = (\E m \in q[2] .. Len(name) + 1 : fits[<<q[1] + 1, m>>])
        BY <3>2 DEF Passes
      <4>2. QED BY <4>1
    <3>3. CASE ~(q[1] > Len(pattern)) /\ pattern[q[1]] # "*"
      <4>1. Passes(pattern, name, fits, q)
              = (/\ q[2] <= Len(name) /\ pattern[q[1]] \in {"?", name[q[2]]}
                 /\ fits[<<q[1] + 1, q[2] + 1>>])
        BY <3>3 DEF Passes
      <4>2. QED BY <4>1
    <3>4. QED BY <3>1, <3>2, <3>3
  <2>4. fits = [q \in C |-> Passes(pattern, name, fits, q)] BY <1>4, <2>1, <2>2, <2>3
  <2>5. QED BY <2>4 DEF IsFit
<1> DEFINE chosen == CHOOSE e : IsFit(e, pattern, name)
<1>6. IsFit(chosen, pattern, name) BY <1>5
<1>7. Fits(pattern, name) = chosen[<<1, 1>>]
  BY DEF Fits, IsFit, Passes, Places
<1> HIDE DEF chosen
<1>8. QED
  <2> WITNESS chosen
  <2>1. QED BY <1>6, <1>7

\* What the reference makes of the places from the p-th of the pattern and the n-th of the name.
FitHere(pattern, name, fits, p, n) ==
    /\ fits[<<p, n>>] \in BOOLEAN
    /\ p > Len(pattern) => (fits[<<p, n>>] <=> n > Len(name))
    /\ p <= Len(pattern) /\ pattern[p] = "*" =>
         (fits[<<p, n>>] <=> \E m \in n .. Len(name) + 1 : fits[<<p + 1, m>>])
    /\ p <= Len(pattern) /\ pattern[p] # "*" =>
         (fits[<<p, n>>] <=>
             n <= Len(name) /\ pattern[p] \in {"?", name[n]} /\ fits[<<p + 1, n + 1>>])

LEMMA FitsAt ==
    ASSUME NEW X, NEW pattern \in Seq(X), NEW name \in Seq(X), NEW fits,
           IsFit(fits, pattern, name)
    PROVE  \A p \in 1 .. Len(pattern) + 1, n \in 1 .. Len(name) + 1 :
               FitHere(pattern, name, fits, p, n)
<1> SUFFICES ASSUME NEW p \in 1 .. Len(pattern) + 1, NEW n \in 1 .. Len(name) + 1
             PROVE  FitHere(pattern, name, fits, p, n)
  OBVIOUS
<1> USE DEF FitHere
<1>1. <<p, n>> \in Places(pattern, name) BY DEF Places
<1>2. fits[<<p, n>>] = Passes(pattern, name, fits, <<p, n>>) BY <1>1 DEF IsFit
<1>3. Len(pattern) \in Nat /\ Len(name) \in Nat OBVIOUS
<1>4. /\ p > Len(pattern) => Passes(pattern, name, fits, <<p, n>>) = (n > Len(name))
      /\ ~(p > Len(pattern)) /\ pattern[p] = "*" =>
            Passes(pattern, name, fits, <<p, n>>)
                = \E m \in n .. Len(name) + 1 : fits[<<p + 1, m>>]
      /\ ~(p > Len(pattern)) /\ pattern[p] # "*" =>
            Passes(pattern, name, fits, <<p, n>>)
                = (n <= Len(name) /\ pattern[p] \in {"?", name[n]} /\ fits[<<p + 1, n + 1>>])
  BY DEF Passes
<1>5. CASE p > Len(pattern)
  <2>1. fits[<<p, n>>] = (n > Len(name)) BY <1>2, <1>4, <1>5
  <2>2. (n > Len(name)) \in BOOLEAN BY <1>3
  <2>3. fits[<<p, n>>] \in BOOLEAN /\ (fits[<<p, n>>] <=> n > Len(name)) BY <2>1, <2>2, Zenon
  <2>4. ~(p <= Len(pattern)) BY <1>3, <1>5
  <2>5. QED BY <2>3, <2>4, Zenon
<1>6. CASE ~(p > Len(pattern)) /\ pattern[p] = "*"
  <2>1. fits[<<p, n>>] = \E m \in n .. Len(name) + 1 : fits[<<p + 1, m>>]
    BY <1>2, <1>4, <1>6
  <2>2. (\E m \in n .. Len(name) + 1 : fits[<<p + 1, m>>]) \in BOOLEAN OBVIOUS
  <2>3. QED BY <1>3, <1>6, <2>1, <2>2
<1>7. CASE ~(p > Len(pattern)) /\ pattern[p] # "*"
  <2>1. fits[<<p, n>>] =
            (n <= Len(name) /\ pattern[p] \in {"?", name[n]} /\ fits[<<p + 1, n + 1>>])
    BY <1>2, <1>4, <1>7
  <2>2. (n <= Len(name) /\ pattern[p] \in {"?", name[n]} /\ fits[<<p + 1, n + 1>>])
            \in BOOLEAN
    OBVIOUS
  <2>3. QED BY <1>3, <1>7, <2>1, <2>2
<1>8. QED BY <1>3, <1>5, <1>6, <1>7

\* A part of the pattern without a star takes as many characters as it has.
LEMMA PartWithoutStar ==
    ASSUME NEW X, NEW pattern \in Seq(X), NEW name \in Seq(X), NEW fits,
           IsFit(fits, pattern, name),
           NEW p \in 1 .. Len(pattern) + 1, NEW m \in 1 .. Len(name) + 1, fits[<<p, m>>],
           NEW k \in Nat, p + k <= Len(pattern) + 1, \A i \in p .. p + k - 1 : pattern[i] # "*"
    PROVE  m + k <= Len(name) + 1 /\ fits[<<p + k, m + k>>]
<1>0. \A a \in 1 .. Len(pattern) + 1, b \in 1 .. Len(name) + 1 : FitHere(pattern, name, fits, a, b)
  BY FitsAt
<1> DEFINE T == {j \in 0 .. k : m + j <= Len(name) + 1 /\ fits[<<p + j, m + j>>]}
<1>1. Len(pattern) \in Nat /\ Len(name) \in Nat OBVIOUS
<1>2. 0 \in T BY <1>1
<1>3. ASSUME NEW j \in 0 .. k - 1, j \in T PROVE j + 1 \in T
  <2>1. PICK a, b : a = p + j /\ b = m + j OBVIOUS
  <2>2. a \in 1 .. Len(pattern) /\ b \in 1 .. Len(name) + 1 /\ a \in p .. p + k - 1
    BY <1>1, <1>3, <2>1
  <2>3. pattern[a] # "*" /\ fits[<<a, b>>] BY <1>3, <2>1, <2>2
  <2>4. b <= Len(name) /\ fits[<<a + 1, b + 1>>]
    <3>1. a \in 1 .. Len(pattern) + 1 /\ a <= Len(pattern) BY <1>1, <2>2
    <3>2. FitHere(pattern, name, fits, a, b) BY <1>0, <2>2, <3>1
    <3>3. QED BY <2>3, <3>1, <3>2, Zenon DEF FitHere
  <2>5. a + 1 = p + (j + 1) /\ b + 1 = m + (j + 1) BY <2>1
  <2>6. fits[<<p + (j + 1), m + (j + 1)>>] BY <2>4, <2>5, Zenon
  <2>7. m + (j + 1) <= Len(name) + 1 BY <1>1, <2>2, <2>4, <2>5
  <2>8. QED BY <2>6, <2>7
<1> HIDE DEF T
<1>4. 0 .. k \subseteq T BY <1>2, <1>3, Induction
<1>5. k \in T BY <1>4
<1>6. QED BY <1>5 DEF T

\* At the end of the name only stars fit.
LEMMA OnlyStarsAtEnd ==
    ASSUME NEW X, NEW pattern \in Seq(X), NEW name \in Seq(X), NEW fits,
           IsFit(fits, pattern, name), NEW p \in 1 .. Len(pattern) + 1
    PROVE  fits[<<p, Len(name) + 1>>] <=> \A i \in p .. Len(pattern) : pattern[i] = "*"
<1>0. \A a \in 1 .. Len(pattern) + 1, b \in 1 .. Len(name) + 1 : FitHere(pattern, name, fits, a, b)
  BY FitsAt
<1> DEFINE T == {k \in 0 .. Len(pattern) :
                    \A q \in 1 .. Len(pattern) + 1 : q = Len(pattern) + 1 - k =>
                        (fits[<<q, Len(name) + 1>>] <=>
                            \A i \in q .. Len(pattern) : pattern[i] = "*")}
<1>1. PICK l : l = Len(name) + 1 OBVIOUS
<1>2. Len(pattern) \in Nat /\ Len(name) \in Nat /\ l \in 1 .. Len(name) + 1 BY <1>1
<1>3. 0 \in T
  <2>1. fits[<<Len(pattern) + 1, l>>]
    <3>1. PICK e : e = Len(pattern) + 1 OBVIOUS
    <3>2. FitHere(pattern, name, fits, e, l) BY <1>0, <1>2, <3>1
    <3>3. QED BY <1>1, <1>2, <3>1, <3>2 DEF FitHere
  <2>2. QED BY <1>1, <1>2, <2>1
<1>4. ASSUME NEW k \in 0 .. Len(pattern) - 1, k \in T PROVE k + 1 \in T
  <2> SUFFICES ASSUME NEW q \in 1 .. Len(pattern) + 1, q = Len(pattern) + 1 - (k + 1)
               PROVE  fits[<<q, l>>] <=> \A i \in q .. Len(pattern) : pattern[i] = "*"
    BY <1>1, <1>2, <1>4
  <2>1. q <= Len(pattern) /\ q + 1 = Len(pattern) + 1 - k /\ q + 1 \in 1 .. Len(pattern) + 1
    BY <1>2
  <2>2. fits[<<q + 1, l>>] <=> \A i \in q + 1 .. Len(pattern) : pattern[i] = "*"
    BY <1>1, <1>4, <2>1
  <2>3. (\A i \in q .. Len(pattern) : pattern[i] = "*")
            <=> pattern[q] = "*" /\ \A i \in q + 1 .. Len(pattern) : pattern[i] = "*"
    <3>1. \A i \in q .. Len(pattern) : i = q \/ i \in q + 1 .. Len(pattern) BY <1>2, <2>1
    <3>2. q \in q .. Len(pattern) /\ \A i \in q + 1 .. Len(pattern) : i \in q .. Len(pattern)
      BY <1>2, <2>1
    <3>3. QED BY <3>1, <3>2
  <2>4. CASE pattern[q] = "*"
    <3>1. fits[<<q, l>>] <=> \E m \in l .. Len(name) + 1 : fits[<<q + 1, m>>]
      BY <1>0, <1>2, <2>1, <2>4 DEF FitHere
    <3>2. \A m \in l .. Len(name) + 1 : m = l BY <1>1, <1>2
    <3>3. l \in l .. Len(name) + 1 BY <1>1, <1>2
    <3>4. QED BY <2>2, <2>3, <2>4, <3>1, <3>2, <3>3
  <2>5. CASE pattern[q] # "*"
    <3>1. ~fits[<<q, l>>]
      <4>1. FitHere(pattern, name, fits, q, l) BY <1>0, <1>2
      <4>2. ~(l <= Len(name)) BY <1>1, <1>2
      <4>3. QED BY <2>1, <2>5, <4>1, <4>2, Zenon DEF FitHere
    <3>2. QED BY <2>3, <2>5, <3>1
  <2>6. QED BY <2>4, <2>5
<1> HIDE DEF T
<1>5. 0 .. Len(pattern) \subseteq T BY <1>2, <1>3, <1>4, Induction
<1>6. Len(pattern) + 1 - p \in T BY <1>2, <1>5
<1>7. QED
  <2>1. p = Len(pattern) + 1 - (Len(pattern) + 1 - p) BY <1>2
  <2>2. QED BY <1>6, <2>1 DEF T

\* What holds of a cursor the matcher comes to: since the last star there was no other, and it
\* took one character of the name for each of the pattern.
KeptAt(pattern, p, n, star, mark) ==
    star # 0 => /\ pattern[star] = "*"
                /\ mark >= 1
                /\ n = mark + (p - star - 1)
                /\ \A i \in star + 1 .. p - 1 : pattern[i] # "*"

Kept(pattern, c) == KeptAt(pattern, c[1], c[2], c[3], c[4])

\* The rest fits when the last star takes more than it has up to mark.
Longer(name, fits, star, mark) ==
    star # 0 /\ \E m \in mark + 1 .. Len(name) + 1 : fits[<<star + 1, m>>]

Right(name, fits, match, c) ==
    match[c] = (fits[<<c[1], c[2]>>] \/ Longer(name, fits, c[3], c[4]))

\* The order in which the matcher comes to its cursors.
Later(c, d) ==
    \/ c[3] < d[3]
    \/ c[3] = d[3] /\ c[4] < d[4]
    \/ c[3] = d[3] /\ c[4] = d[4] /\ c[1] < d[1]

\* When the last star can take more, so much is left for the part after it.
LEMMA LongerSkips ==
    ASSUME NEW X, NEW pattern \in Seq(X), NEW name \in Seq(X), NEW fits,
           IsFit(fits, pattern, name), NEW c \in Cursors(pattern, name), Kept(pattern, c),
           Longer(name, fits, c[3], c[4])
    PROVE  \E m \in c[2] + 1 .. Len(name) + 1 : fits[<<c[1], m>>]
<1>1. PICK p, n, star, mark : p = c[1] /\ n = c[2] /\ star = c[3] /\ mark = c[4] OBVIOUS
<1>2. /\ p \in 1 .. Len(pattern) + 1 /\ n \in 1 .. Len(name) + 1 /\ star \in 0 .. Len(pattern)
      /\ mark \in 0 .. Len(name) + 1 /\ star < p /\ Len(pattern) \in Nat /\ Len(name) \in Nat
  BY <1>1, CursorsMove
<1>3. PICK m \in mark + 1 .. Len(name) + 1 : star # 0 /\ fits[<<star + 1, m>>]
  BY <1>1 DEF Longer
<1>4. /\ mark >= 1 /\ n = mark + (p - star - 1)
      /\ \A i \in star + 1 .. p - 1 : pattern[i] # "*"
  BY <1>1, <1>3 DEF Kept, KeptAt
<1>5. PICK a, k : a = star + 1 /\ k = p - star - 1 OBVIOUS
<1>6. /\ a \in 1 .. Len(pattern) + 1 /\ k \in Nat /\ a + k = p /\ a + k <= Len(pattern) + 1
      /\ m \in 1 .. Len(name) + 1 /\ a + k - 1 = p - 1
  BY <1>2, <1>3, <1>4, <1>5
<1>7. \A i \in a .. a + k - 1 : pattern[i] # "*" BY <1>4, <1>5, <1>6
<1>8. m + k <= Len(name) + 1 /\ fits[<<a + k, m + k>>]
  <2>1. fits[<<a, m>>] BY <1>3, <1>5
  <2>2. QED BY <1>6, <1>7, <2>1, PartWithoutStar, Zenon
<1>9. m + k \in n + 1 .. Len(name) + 1 BY <1>2, <1>3, <1>4, <1>5, <1>8
<1>10. fits[<<p, m + k>>] BY <1>6, <1>8
<1>11. QED BY <1>1, <1>9, <1>10

LEMMA MatchStep ==
    ASSUME NEW X, NEW pattern \in Seq(X), NEW name \in Seq(X),
           NEW fits, IsFit(fits, pattern, name), NEW match, IsMatch(match, pattern, name),
           NEW c \in Cursors(pattern, name), Kept(pattern, c),
           \A d \in Cursors(pattern, name) :
               Later(c, d) /\ Kept(pattern, d) => Right(name, fits, match, d)
    PROVE  Right(name, fits, match, c)
<1>1. PICK p, n, star, mark : p = c[1] /\ n = c[2] /\ star = c[3] /\ mark = c[4] OBVIOUS
<1>2. /\ p \in 1 .. Len(pattern) + 1 /\ n \in 1 .. Len(name) + 1 /\ star \in 0 .. Len(pattern)
      /\ mark \in 0 .. Len(name) + 1 /\ star < p /\ mark <= n
      /\ Len(pattern) \in Nat /\ Len(name) \in Nat
  BY <1>1, CursorsMove
<1>3. \A a \in 1 .. Len(pattern) + 1, b \in 1 .. Len(name) + 1 :
          FitHere(pattern, name, fits, a, b)
  BY FitsAt
<1>4. fits[<<p, n>>] \in BOOLEAN BY <1>2, <1>3 DEF FitHere
<1>5. match[c] = Matches(pattern, name, match, c) BY DEF IsMatch
<1>6. ASSUME Longer(name, fits, star, mark)
      PROVE  \E m \in n + 1 .. Len(name) + 1 : fits[<<p, m>>]
  BY <1>1, <1>6, LongerSkips
<1>7. CASE n > Len(name)
  <2>1. match[c] = \A i \in p .. Len(pattern) : pattern[i] = "*"
    BY <1>1, <1>5, <1>7 DEF Matches
  <2>2. n = Len(name) + 1 BY <1>2, <1>7
  <2>3. fits[<<p, n>>] <=> \A i \in p .. Len(pattern) : pattern[i] = "*"
    BY <1>2, <2>2, OnlyStarsAtEnd
  <2>4. ~Longer(name, fits, star, mark)
    <3>1. \A m \in n + 1 .. Len(name) + 1 : FALSE BY <1>2, <1>7
    <3>2. QED BY <1>6, <3>1
  <2>5. QED BY <1>1, <1>4, <2>1, <2>3, <2>4 DEF Right
<1>8. CASE n <= Len(name) /\ p <= Len(pattern) /\ pattern[p] = "*"
  <2>1. PICK d : d = <<p + 1, n, p, n>> OBVIOUS
  <2>2. d \in Cursors(pattern, name) BY <1>1, <1>8, <2>1, CursorsMove
  <2>3. d[1] = p + 1 /\ d[2] = n /\ d[3] = p /\ d[4] = n BY <2>1
  <2>4. Later(c, d) BY <1>1, <1>2, <2>3 DEF Later
  <2>5. Kept(pattern, d)
    <3>1. \A i \in p + 1 .. (p + 1) - 1 : FALSE BY <1>2
    <3>2. n = n + ((p + 1) - p - 1) /\ n >= 1 BY <1>2
    <3>3. KeptAt(pattern, p + 1, n, p, n) BY <1>8, <3>1, <3>2, Zenon DEF KeptAt
    <3>4. QED BY <2>3, <3>3 DEF Kept
  <2>6. Right(name, fits, match, d) BY <2>2, <2>4, <2>5
  <2>7. match[c] = match[d]
    <3>1. Sees(pattern, p, "*") /\ ~(n > Len(name)) BY <1>2, <1>8 DEF Sees
    <3>2. QED BY <1>1, <1>5, <2>1, <3>1 DEF Matches, Sees
  <2>8. match[d] = (fits[<<p + 1, n>>] \/ \E m \in n + 1 .. Len(name) + 1 : fits[<<p + 1, m>>])
    <3>1. p # 0 BY <1>2
    <3>2. QED BY <2>3, <2>6, <3>1, Zenon DEF Right, Longer
  <2>9. fits[<<p, n>>] <=> \E m \in n .. Len(name) + 1 : fits[<<p + 1, m>>]
    BY <1>2, <1>3, <1>8 DEF FitHere
  <2>10. (\E m \in n .. Len(name) + 1 : fits[<<p + 1, m>>])
            <=> fits[<<p + 1, n>>] \/ \E m \in n + 1 .. Len(name) + 1 : fits[<<p + 1, m>>]
    <3>1. \A m \in n .. Len(name) + 1 : m = n \/ m \in n + 1 .. Len(name) + 1 BY <1>2
    <3>2. n \in n .. Len(name) + 1 /\ \A m \in n + 1 .. Len(name) + 1 : m \in n .. Len(name) + 1
      BY <1>2
    <3>3. QED BY <3>1, <3>2, Zenon
  <2>11. match[c] = fits[<<p, n>>] 
    BY <1>4, <2>7, <2>8, <2>9, <2>10, Zenon
  <2>12. Longer(name, fits, star, mark) => fits[<<p, n>>]
    <3> SUFFICES ASSUME Longer(name, fits, star, mark) PROVE fits[<<p, n>>] OBVIOUS
    <3>1. PICK m \in n + 1 .. Len(name) + 1 : fits[<<p, m>>] BY <1>6
    <3>2. m \in 1 .. Len(name) + 1 BY <1>2
    <3>3. FitHere(pattern, name, fits, p, m) BY <1>2, <1>3, <3>2
    <3>4. PICK l \in m .. Len(name) + 1 : fits[<<p + 1, l>>] BY <1>8, <3>1, <3>3 DEF FitHere
    <3>5. l \in n .. Len(name) + 1 BY <1>2, <3>2
    <3>6. QED BY <2>9, <3>4, <3>5
  <2>13. (fits[<<p, n>>] \/ Longer(name, fits, star, mark)) = fits[<<p, n>>]
    BY <1>4, <2>12, Zenon
  <2>14. QED BY <1>1, <2>11, <2>13 DEF Right
<1>9. CASE /\ n <= Len(name) /\ p <= Len(pattern) /\ pattern[p] # "*"
           /\ pattern[p] \in {"?", name[n]}
  <2>1. PICK d : d = <<p + 1, n + 1, star, mark>> OBVIOUS
  <2>2. d \in Cursors(pattern, name) BY <1>1, <1>9, <2>1, CursorsMove
  <2>3. d[1] = p + 1 /\ d[2] = n + 1 /\ d[3] = star /\ d[4] = mark BY <2>1
  <2>4. Later(c, d) BY <1>1, <1>2, <2>3 DEF Later
  <2>5. Kept(pattern, d)
    <3>0. KeptAt(pattern, p + 1, n + 1, star, mark) => Kept(pattern, d) BY <2>3 DEF Kept
    <3> SUFFICES ASSUME star # 0
                 PROVE  /\ pattern[star] = "*" /\ mark >= 1 /\ n + 1 = mark + ((p + 1) - star - 1)
                        /\ \A i \in star + 1 .. (p + 1) - 1 : pattern[i] # "*"
      BY <3>0, Zenon DEF KeptAt
    <3>1. /\ pattern[star] = "*" /\ mark >= 1 /\ n = mark + (p - star - 1)
          /\ \A i \in star + 1 .. p - 1 : pattern[i] # "*"
      BY <1>1 DEF Kept, KeptAt
    <3>2. \A i \in star + 1 .. (p + 1) - 1 : i = p \/ i \in star + 1 .. p - 1 BY <1>2
    <3>3. n + 1 = mark + ((p + 1) - star - 1) BY <1>2, <3>1
    <3>4. QED BY <1>9, <3>1, <3>2, <3>3
  <2>6. Right(name, fits, match, d) BY <2>2, <2>4, <2>5
  <2>7. match[c] = match[d]
    <3>1. /\ ~Sees(pattern, p, "*") /\ ~(n > Len(name))
          /\ Sees(pattern, p, "?") \/ Sees(pattern, p, name[n])
      BY <1>2, <1>9 DEF Sees
    <3>2. QED BY <1>1, <1>5, <2>1, <3>1 DEF Matches
  <2>8. fits[<<p, n>>] <=> fits[<<p + 1, n + 1>>]
    <3>1. FitHere(pattern, name, fits, p, n) BY <1>2, <1>3
    <3>2. QED BY <1>9, <3>1, Zenon DEF FitHere
  <2>9. match[d] = (fits[<<p + 1, n + 1>>] \/ Longer(name, fits, star, mark))
    BY <2>3, <2>6, Zenon DEF Right
  <2>10. match[c] = (fits[<<p, n>>] \/ Longer(name, fits, star, mark))
    BY <2>7, <2>8, <2>9, Zenon
  <2>11. QED BY <1>1, <2>10 DEF Right
<1>10. CASE /\ n <= Len(name)
            /\ ~(p <= Len(pattern) /\ pattern[p] = "*")
            /\ ~(p <= Len(pattern) /\ pattern[p] \in {"?", name[n]})
  <2>1. PICK d : d = <<star + 1, mark + 1, star, mark + 1>> OBVIOUS
  <2>2. match[c] = (star # 0 /\ match[d])
    <3>1. /\ ~Sees(pattern, p, "*") /\ ~(n > Len(name))
          /\ ~(Sees(pattern, p, "?") \/ Sees(pattern, p, name[n]))
      BY <1>2, <1>10 DEF Sees
    <3>2. Matches(pattern, name, match, c) = (star # 0 /\ match[d])
      BY <1>1, <2>1, <3>1 DEF Matches
    <3>3. QED BY <1>5, <3>2
  <2>3. ~fits[<<p, n>>]
    <3>1. FitHere(pattern, name, fits, p, n) BY <1>2, <1>3
    <3>2. CASE p > Len(pattern)
      <4>1. ~(n > Len(name)) BY <1>2, <1>10
      <4>2. QED BY <3>1, <3>2, <4>1 DEF FitHere
    <3>3. CASE p <= Len(pattern) BY <1>10, <3>1, <3>3, Zenon DEF FitHere
    <3>4. QED BY <1>2, <3>2, <3>3
  <2>4. CASE star = 0
    <3>1. ~Longer(name, fits, star, mark) BY <2>4 DEF Longer
    <3>2. match[c] = FALSE BY <2>2, <2>4
    <3>3. QED BY <1>1, <2>3, <3>1, <3>2 DEF Right
  <2>5. CASE star # 0
    <3>1. d \in Cursors(pattern, name) BY <1>1, <1>10, <2>1, <2>5, CursorsMove
    <3>2. d[1] = star + 1 /\ d[2] = mark + 1 /\ d[3] = star /\ d[4] = mark + 1 BY <2>1
    <3>3. Later(c, d) BY <1>1, <1>2, <3>2 DEF Later
    <3>4. Kept(pattern, d)
      <4>1. pattern[star] = "*" BY <1>1, <2>5 DEF Kept, KeptAt
      <4>2. \A i \in star + 1 .. (star + 1) - 1 : FALSE BY <1>2
      <4>3. mark + 1 >= 1 /\ mark + 1 = (mark + 1) + ((star + 1) - star - 1) BY <1>2
      <4>4. KeptAt(pattern, star + 1, mark + 1, star, mark + 1)
        BY <4>1, <4>2, <4>3, Zenon DEF KeptAt
      <4>5. QED BY <3>2, <4>4 DEF Kept
    <3>5. Right(name, fits, match, d) BY <3>1, <3>3, <3>4
    <3>6. match[d] = (fits[<<star + 1, mark + 1>>]
                        \/ \E m \in mark + 1 + 1 .. Len(name) + 1 : fits[<<star + 1, m>>])
      BY <2>5, <3>2, <3>5, Zenon DEF Right, Longer
    <3>7. (\E m \in mark + 1 .. Len(name) + 1 : fits[<<star + 1, m>>])
            <=> fits[<<star + 1, mark + 1>>]
                    \/ \E m \in mark + 1 + 1 .. Len(name) + 1 : fits[<<star + 1, m>>]
      <4>1. \A m \in mark + 1 .. Len(name) + 1 : m = mark + 1 \/ m \in mark + 1 + 1 .. Len(name) + 1
        BY <1>2
      <4>2. /\ mark + 1 \in mark + 1 .. Len(name) + 1
            /\ \A m \in mark + 1 + 1 .. Len(name) + 1 : m \in mark + 1 .. Len(name) + 1
        BY <1>2, <1>10
      <4>3. QED BY <4>1, <4>2, Zenon
    <3>8. match[c] = (fits[<<p, n>>] \/ Longer(name, fits, star, mark))
      BY <2>2, <2>3, <2>5, <3>6, <3>7, Zenon DEF Longer
    <3>9. QED BY <1>1, <3>8 DEF Right
  <2>6. QED BY <2>4, <2>5
<1>11. QED BY <1>2, <1>7, <1>8, <1>9, <1>10

\* So it is for every cursor the matcher can come to.
LEMMA MatchesRight ==
    ASSUME NEW X, NEW pattern \in Seq(X), NEW name \in Seq(X),
           NEW fits, IsFit(fits, pattern, name), NEW match, IsMatch(match, pattern, name)
    PROVE  \A c \in Cursors(pattern, name) : Kept(pattern, c) => Right(name, fits, match, c)
<1> DEFINE Bad == {c \in Cursors(pattern, name) : Kept(pattern, c) /\ ~Right(name, fits, match, c)}
<1> SUFFICES ASSUME Bad # {} PROVE FALSE BY Zenon
<1>1. Len(pattern) \in Nat /\ Len(name) \in Nat OBVIOUS
<1>2. \A c \in Bad : /\ c[1] \in 1 .. Len(pattern) + 1
                     /\ c[3] \in 0 .. Len(pattern) /\ c[4] \in 0 .. Len(name) + 1
  BY CursorsMove
<1>3. \A c \in Bad : \E d \in Bad : Later(c, d)
  <2> SUFFICES ASSUME NEW c \in Bad PROVE \E d \in Bad : Later(c, d) OBVIOUS
  <2>1. c \in Cursors(pattern, name) /\ Kept(pattern, c) /\ ~Right(name, fits, match, c) OBVIOUS
  <2>2. PICK d \in Cursors(pattern, name) :
            Later(c, d) /\ Kept(pattern, d) /\ ~Right(name, fits, match, d)
    BY <2>1, MatchStep, Zenon
  <2>3. QED BY <2>2
<1> HIDE DEF Bad
<1> DEFINE Stars == {Len(pattern) - c[3] : c \in Bad}
<1>4. PICK c1 \in Bad : \A c \in Bad : c[3] <= c1[3]
  <2>1. Stars \in SUBSET Nat /\ Stars # {} BY <1>1, <1>2
  <2>2. PICK s \in Stars : \A r \in Stars : s <= r BY <2>1, LeastNatural
  <2>3. PICK c1 \in Bad : s = Len(pattern) - c1[3] BY <2>2
  <2>4. \A c \in Bad : Len(pattern) - c1[3] <= Len(pattern) - c[3] BY <2>2, <2>3
  <2>5. ASSUME NEW c \in Bad PROVE c[3] <= c1[3]
    <3>1. c1 \in Bad /\ c \in Bad OBVIOUS
    <3>2. QED BY <1>1, <1>2, <2>4, <3>1
  <2>6. QED BY <2>5
<1> DEFINE B2 == {c \in Bad : c[3] = c1[3]}
           Marks == {Len(name) + 1 - c[4] : c \in B2}
<1>5. PICK c2 \in B2 : \A c \in B2 : c[4] <= c2[4]
  <2>1. Marks \in SUBSET Nat /\ Marks # {} BY <1>1, <1>2
  <2>2. PICK s \in Marks : \A r \in Marks : s <= r BY <2>1, LeastNatural
  <2>3. PICK c2 \in B2 : s = Len(name) + 1 - c2[4] BY <2>2
  <2>4. \A c \in B2 : Len(name) + 1 - c2[4] <= Len(name) + 1 - c[4] BY <2>2, <2>3
  <2>5. ASSUME NEW c \in B2 PROVE c[4] <= c2[4]
    <3>1. c2 \in Bad /\ c \in Bad OBVIOUS
    <3>2. QED BY <1>1, <1>2, <2>4, <3>1
  <2>6. QED BY <2>5
<1> DEFINE B3 == {c \in B2 : c[4] = c2[4]}
           Firsts == {Len(pattern) + 1 - c[1] : c \in B3}
<1>6. PICK c3 \in B3 : \A c \in B3 : c[1] <= c3[1]
  <2>1. Firsts \in SUBSET Nat /\ Firsts # {} BY <1>1, <1>2
  <2>2. PICK s \in Firsts : \A r \in Firsts : s <= r BY <2>1, LeastNatural
  <2>3. PICK c3 \in B3 : s = Len(pattern) + 1 - c3[1] BY <2>2
  <2>4. \A c \in B3 : Len(pattern) + 1 - c3[1] <= Len(pattern) + 1 - c[1] BY <2>2, <2>3
  <2>5. ASSUME NEW c \in B3 PROVE c[1] <= c3[1]
    <3>1. c3 \in Bad /\ c \in Bad OBVIOUS
    <3>2. QED BY <1>1, <1>2, <2>4, <3>1
  <2>6. QED BY <2>5
<1>7. PICK d \in Bad : Later(c3, d) BY <1>3
<1>8. d[3] <= c1[3] /\ c3[3] = c1[3] BY <1>4
<1>9. d[3] = c1[3] => d[4] <= c2[4] BY <1>5
<1>10. d[3] = c1[3] /\ d[4] = c2[4] => d[1] <= c3[1] BY <1>6
<1>11. c3[4] = c2[4] OBVIOUS
<1>12. QED BY <1>2, <1>7, <1>8, <1>9, <1>10, <1>11 DEF Later

\* The matcher that backtracks to its last star alone finds a fit exactly when there is one.
THEOREM MatcherFindsEveryFit ==
    ASSUME NEW X, NEW pattern \in Seq(X), NEW name \in Seq(X)
    PROVE  MatchBindingPattern(pattern, name) = Fits(pattern, name)
<1>1. PICK match : IsMatch(match, pattern, name)
                   /\ MatchBindingPattern(pattern, name) = match[<<1, 1, 0, 0>>]
  BY MatchUnfolds
<1>2. PICK fits : IsFit(fits, pattern, name) /\ Fits(pattern, name) = fits[<<1, 1>>]
  BY FitsUnfolds
<1>3. PICK c : c = <<1, 1, 0, 0>> OBVIOUS
<1>4. c \in Cursors(pattern, name) BY <1>3 DEF Cursors
<1>5. Kept(pattern, c) BY <1>3 DEF Kept, KeptAt
<1>6. Right(name, fits, match, c) BY <1>1, <1>2, <1>4, <1>5, MatchesRight
<1>7. match[c] = (fits[<<1, 1>>] \/ FALSE) BY <1>3, <1>6 DEF Right, Longer
<1>8. fits[<<1, 1>>] \in BOOLEAN
  <2>1. 1 \in 1 .. Len(pattern) + 1 /\ 1 \in 1 .. Len(name) + 1 OBVIOUS
  <2>2. FitHere(pattern, name, fits, 1, 1) BY <1>2, <2>1, FitsAt
  <2>3. QED BY <2>2 DEF FitHere
<1>9. QED BY <1>1, <1>2, <1>3, <1>7, <1>8
------------------------------------------------------------------------------
(* The order of paths                                                      *)

\* What the model's order of names and of paths is.
CodeOrder == {c \in ToSet(Alphabet) \X ToSet(Alphabet) : Code(c[1]) < Code(c[2])}

LEMMA PrecedesStarts ==
    ASSUME NEW X, NEW a \in Seq(X), NEW b \in Seq(X)
    PROVE  /\ IsPrefix(a, b) <=> Len(a) <= Len(b) /\ \A i \in 1 .. Len(a) : a[i] = b[i]
           /\ \A i \in 1 .. Len(a) : i <= Len(b) =>
                (SubSeq(a, 1, i - 1) = SubSeq(b, 1, i - 1) <=> \A j \in 1 .. i - 1 : a[j] = b[j])
<1>1. Len(a) \in Nat /\ Len(b) \in Nat OBVIOUS
<1>2. IsPrefix(a, b) <=> Len(a) <= Len(b) /\ \A i \in 1 .. Len(a) : a[i] = b[i]
  <2>1. CASE Len(a) <= Len(b) BY <1>1, <2>1, SameStart DEF IsPrefix
  <2>2. CASE ~(Len(a) <= Len(b)) BY <2>2 DEF IsPrefix
  <2>3. QED BY <2>1, <2>2
<1>3. ASSUME NEW i \in 1 .. Len(a), i <= Len(b)
      PROVE  SubSeq(a, 1, i - 1) = SubSeq(b, 1, i - 1) <=> \A j \in 1 .. i - 1 : a[j] = b[j]
  <2>1. PICK k : k = i - 1 OBVIOUS
  <2>2. k \in Nat /\ k <= Len(a) /\ k <= Len(b) BY <1>1, <1>3, <2>1
  <2>3. SubSeq(a, 1, k) = SubSeq(b, 1, k) <=> \A j \in 1 .. k : a[j] = b[j] BY <2>2, SameStart
  <2>4. QED BY <2>1, <2>3
<1>4. QED BY <1>2, <1>3

LEMMA NameLessIs ==
    ASSUME NEW a \in FileNames, NEW b \in FileNames
    PROVE  NameLess(a, b) <=> Before(a, b, CodeOrder)
<1>1. Len(a) \in Nat /\ Len(b) \in Nat /\ a \in Seq(ToSet(Alphabet)) /\ b \in Seq(ToSet(Alphabet))
  BY DEF FileNames
<1>2. \A i \in 1 .. Len(a) : i <= Len(b) =>
        (Code(a[i]) < Code(b[i]) <=> <<a[i], b[i]>> \in CodeOrder)
  <2> SUFFICES ASSUME NEW i \in 1 .. Len(a), i <= Len(b)
               PROVE  Code(a[i]) < Code(b[i]) <=> <<a[i], b[i]>> \in CodeOrder
    OBVIOUS
  <2>1. a[i] \in ToSet(Alphabet) /\ b[i] \in ToSet(Alphabet) BY <1>1
  <2>2. QED BY <2>1 DEF CodeOrder
<1>3. NameLess(a, b) <=>
        \/ Len(a) < Len(b) /\ IsPrefix(a, b)
        \/ \E i \in 1 .. Len(a) : /\ i <= Len(b) /\ Code(a[i]) < Code(b[i])
                                  /\ SubSeq(a, 1, i - 1) = SubSeq(b, 1, i - 1)
  BY DEF NameLess, Precedes
<1>4. Len(a) < Len(b) => Len(a) <= Len(b) BY <1>1
<1>5. /\ IsPrefix(a, b) <=> Len(a) <= Len(b) /\ \A i \in 1 .. Len(a) : a[i] = b[i]
      /\ \A i \in 1 .. Len(a) : i <= Len(b) =>
           (SubSeq(a, 1, i - 1) = SubSeq(b, 1, i - 1) <=> \A j \in 1 .. i - 1 : a[j] = b[j])
  BY <1>1, PrecedesStarts
<1>6. ASSUME NEW i \in 1 .. Len(a)
      PROVE  (/\ i <= Len(b) /\ Code(a[i]) < Code(b[i])
              /\ SubSeq(a, 1, i - 1) = SubSeq(b, 1, i - 1))
             <=> (/\ i <= Len(b) /\ <<a[i], b[i]>> \in CodeOrder
                  /\ \A j \in 1 .. i - 1 : a[j] = b[j])
  BY <1>2, <1>5, Zenon
<1>7. QED BY <1>3, <1>4, <1>5, <1>6, Zenon DEF Before

NameOrder == Lexicographic(CodeOrder, ToSet(Alphabet))
PathOrder == Lexicographic(NameOrder, FileNames)

LEMMA PathLessIs ==
    ASSUME NEW p \in Seq(FileNames), NEW q \in Seq(FileNames)
    PROVE  PathLess(p, q) <=> <<p, q>> \in PathOrder
<1>1. Len(p) \in Nat /\ Len(q) \in Nat OBVIOUS
<1>2. \A i \in 1 .. Len(p) : i <= Len(q) =>
        (NameLess(p[i], q[i]) <=> <<p[i], q[i]>> \in NameOrder)
  <2> SUFFICES ASSUME NEW i \in 1 .. Len(p), i <= Len(q)
               PROVE  NameLess(p[i], q[i]) <=> <<p[i], q[i]>> \in NameOrder
    OBVIOUS
  <2>1. p[i] \in FileNames /\ q[i] \in FileNames BY <1>1
  <2>2. PICK a, b : a = p[i] /\ b = q[i] OBVIOUS
  <2>3. <<a, b>> \in NameOrder <=> Before(a, b, CodeOrder)
    BY <2>1, <2>2 DEF NameOrder, Lexicographic, FileNames
  <2>4. QED BY <2>1, <2>2, <2>3, NameLessIs
<1>3. PathLess(p, q) <=>
        \/ Len(p) < Len(q) /\ IsPrefix(p, q)
        \/ \E i \in 1 .. Len(p) : /\ i <= Len(q) /\ NameLess(p[i], q[i])
                                  /\ SubSeq(p, 1, i - 1) = SubSeq(q, 1, i - 1)
  BY DEF PathLess, Precedes
<1>4. Len(p) < Len(q) => Len(p) <= Len(q) BY <1>1
<1>5. /\ IsPrefix(p, q) <=> Len(p) <= Len(q) /\ \A i \in 1 .. Len(p) : p[i] = q[i]
      /\ \A i \in 1 .. Len(p) : i <= Len(q) =>
           (SubSeq(p, 1, i - 1) = SubSeq(q, 1, i - 1) <=> \A j \in 1 .. i - 1 : p[j] = q[j])
  BY PrecedesStarts
<1>6. ASSUME NEW i \in 1 .. Len(p)
      PROVE  (/\ i <= Len(q) /\ NameLess(p[i], q[i])
              /\ SubSeq(p, 1, i - 1) = SubSeq(q, 1, i - 1))
             <=> (/\ i <= Len(q) /\ <<p[i], q[i]>> \in NameOrder
                  /\ \A j \in 1 .. i - 1 : p[j] = q[j])
  BY <1>2, <1>5, Zenon
<1>7. PathLess(p, q) <=> Before(p, q, NameOrder) BY <1>3, <1>4, <1>5, <1>6, Zenon DEF Before
<1>8. QED BY <1>7 DEF PathOrder, Lexicographic

LEMMA PathOrderIsTotal == StrictTotal(PathOrder, Seq(FileNames))
<1>1. \A c \in ToSet(Alphabet) : Code(c) \in Nat /\ Alphabet[Code(c)] = c
  <2> SUFFICES ASSUME NEW c \in ToSet(Alphabet) PROVE Code(c) \in Nat /\ Alphabet[Code(c)] = c
    OBVIOUS
  <2>1. \E i \in DOMAIN Alphabet : Alphabet[i] = c BY DEF ToSet
  <2>2. Code(c) \in DOMAIN Alphabet /\ Alphabet[Code(c)] = c BY <2>1 DEF Code
  <2>3. DOMAIN Alphabet \subseteq Nat BY LoadingAssumption DEF LoadingAssumption
  <2>4. QED BY <2>2, <2>3
<1>2. \A c, d \in ToSet(Alphabet) : <<c, d>> \in CodeOrder <=> Code(c) < Code(d)
  BY DEF CodeOrder
<1>3. StrictTotal(CodeOrder, ToSet(Alphabet)) BY <1>1, <1>2 DEF StrictTotal
<1>4. StrictTotal(NameOrder, FileNames) BY <1>3, LexicographicIsTotal DEF NameOrder, FileNames
<1>5. QED BY <1>4, LexicographicIsTotal DEF PathOrder

\* A finite set of paths is sorted: each is in the sequence, and after those that precede it.
LEMMA SortedIs ==
    ASSUME NEW S \in SUBSET Seq(FileNames), IsFiniteSet(S)
    PROVE  /\ Sorted(S) \in Seq(S) /\ ToSet(Sorted(S)) = S
           /\ \A i, j \in DOMAIN Sorted(S) : i < j => PathLess(Sorted(S)[i], Sorted(S)[j])
<1>1. \A p, q \in S : PathLess(p, q) <=> <<p, q>> \in PathOrder BY PathLessIs
<1>2. StrictTotal(PathOrder, S)
  <2>1. \A p \in S : p \in Seq(FileNames) OBVIOUS
  <2>2. QED BY <2>1, PathOrderIsTotal, Zenon DEF StrictTotal
<1>3. Sorted(S) = Ranked(S, PathOrder)
  <2>1. \A p \in S : {q \in S : PathLess(q, p)} = {q \in S : <<q, p>> \in PathOrder} BY <1>1
  <2>2. \A p \in S : Cardinality({q \in S : PathLess(q, p)})
                       = Cardinality({q \in S : <<q, p>> \in PathOrder})
    BY <2>1
  <2>3. ASSUME NEW r
        PROVE  (CHOOSE p \in S : Cardinality({q \in S : PathLess(q, p)}) = r - 1)
               = (CHOOSE p \in S : Cardinality({q \in S : <<q, p>> \in PathOrder}) = r - 1)
    BY <2>2
  <2>4. Sorted(S) = [r \in 1 .. Cardinality(S) |->
            CHOOSE p \in S : Cardinality({q \in S : PathLess(q, p)}) = r - 1]
    BY DEF Sorted
  <2>5. Ranked(S, PathOrder) = [r \in 1 .. Cardinality(S) |->
            CHOOSE p \in S : Cardinality({q \in S : <<q, p>> \in PathOrder}) = r - 1]
    BY DEF Ranked
  <2>6. QED BY <2>3, <2>4, <2>5
<1>4. PICK s : s = Sorted(S) OBVIOUS
<1>5. /\ s \in Seq(S) /\ ToSet(s) = S
      /\ \A i, j \in 1 .. Len(s) : i < j => <<s[i], s[j]>> \in PathOrder
  BY <1>2, <1>3, <1>4, RankedIs
<1>6. DOMAIN s = 1 .. Len(s) BY <1>5
<1>7. \A i, j \in DOMAIN s : i < j => PathLess(s[i], s[j])
  <2> SUFFICES ASSUME NEW i \in DOMAIN s, NEW j \in DOMAIN s, i < j
               PROVE  PathLess(s[i], s[j])
    OBVIOUS
  <2>1. s[i] \in S /\ s[j] \in S BY <1>5
  <2>2. <<s[i], s[j]>> \in PathOrder BY <1>5, <1>6
  <2>3. QED BY <1>1, <2>1, <2>2, Zenon
<1>8. QED BY <1>4, <1>5, <1>7
------------------------------------------------------------------------------
(* What a load reads                                                       *)

\* The directory holds finitely many files, and their names are spelled in the alphabet.
NamesSpelled ==
    /\ DOMAIN files \cup DOMAIN settled \cup DOMAIN temps \subseteq FileNames
    /\ IsFiniteSet(DOMAIN files) /\ IsFiniteSet(DOMAIN settled) /\ IsFiniteSet(DOMAIN temps)
    /\ pc \in Working => current \in FileNames
    /\ DOMAIN tree \subseteq Seq(FileNames) \ {<<>>} /\ IsFiniteSet(DOMAIN tree)

\* What a listing has found was there, at some time, and is all that it has come upon of what is
\* there throughout.
ListingSound ==
    load.phase = "listing" =>
        /\ load.options \in LoadOptions
        /\ looked.throughout \subseteq DOMAIN Regular
        /\ load.found \in SUBSET (Seq(FileNames) \ {<<>>}) /\ IsFiniteSet(load.found)
        /\ load.found \subseteq {path \in looked.sometime : Due(path)}
        /\ looked.throughout \cap load.seen \subseteq load.found

\* What has been read and what is still to be read hold all that was due and nothing else, in
\* order.
LoadSound ==
    load.phase \in {"reading", "loaded"} /\ load.options.file = None =>
        /\ \E S : load.read \in Seq(S) /\ load.todo \in Seq(S)
        /\ {path \in looked.throughout : Due(path)} \subseteq ToSet(load.read \o load.todo)
        /\ ToSet(load.read \o load.todo) \subseteq {path \in looked.sometime : Due(path)}
        /\ \A i, j \in DOMAIN (load.read \o load.todo) : i < j =>
             PathLess((load.read \o load.todo)[i], (load.read \o load.todo)[j])
        /\ load.phase = "loaded" => load.todo = <<>>

LEMMA NamesInit == DeploymentInit => NamesSpelled
<1> SUFFICES ASSUME DeploymentInit PROVE NamesSpelled OBVIOUS
<1>1. PICK d \in Directories : d.files = files /\ d.temps = temps /\ tree = d.tree
  BY DEF DeploymentInit, LoadingInit
<1>2. settled = files /\ pc = "idle" BY DEF DeploymentInit, Init
<1>3. /\ DOMAIN d.files \cup DOMAIN d.temps \subseteq FileNames
      /\ DOMAIN d.tree \subseteq Seq(FileNames) \ {<<>>}
      /\ \A there \in {d.files, d.temps, d.tree} : IsFiniteSet(DOMAIN there)
  BY LoadingAssumption DEF LoadingAssumption
<1>4. pc \notin Working BY <1>2 DEF Working, TempLabels
<1>5. QED BY <1>1, <1>2, <1>3, <1>4 DEF NamesSpelled

LEMMA PutDomain ==
    ASSUME NEW f, IsFiniteSet(DOMAIN f), NEW name, NEW content
    PROVE  /\ DOMAIN Put(f, name, content) = DOMAIN f \cup {name}
           /\ IsFiniteSet(DOMAIN Put(f, name, content))
<1>1. DOMAIN Put(f, name, content) = DOMAIN f \cup {name} BY DEF Put
<1>2. QED BY <1>1, FS_AddElement

LEMMA NamesStep == CallOK /\ FilesSynced /\ NamesSpelled /\ [Next]_vars => NamesSpelled'
<1> SUFFICES ASSUME CallOK, FilesSynced, NamesSpelled, [Next]_vars PROVE NamesSpelled' OBVIOUS
<1> USE DEF Working, TempLabels
<1>0. tree' = tree BY DEF Next, vars
<1>1. pc' \in Working => current' \in FileNames
  <2>1. CASE Claim
    <3> DEFINE name == FreeName(SanitizeFilename(Module.module_id), taken)
    <3>1. Len(results) < Len(batch) /\ (pc' = "loop" \/ current' = name)
      BY <2>1 DEF Claim, Report
    <3>2. name \in Seq(NameLetters) BY <3>1, ClaimIsNew
    <3>3. NameLetters \subseteq ToSet(Alphabet) BY LoadingAssumption DEF LoadingAssumption
    <3> HIDE DEF name
    <3>4. name \in FileNames BY <3>2, <3>3 DEF FileNames
    <3>5. QED BY <3>1, <3>4
  <2>2. CASE Begin \/ CreateDir \/ Finish \/ DryRun \/ Verify \/ RemoveTemp \/ Crash \/ PowerLoss
    BY <2>2 DEF Begin, CreateDir, Finish, DryRun, Verify, RemoveTemp, Crash, PowerLoss, Dies, Report,
                Return, Goto
  <2>3. CASE CreateTemp \/ WriteTemp \/ SyncTemp \/ Rename \/ SyncDir
    BY <2>3 DEF CreateTemp, WriteTemp, SyncTemp, Rename, SyncDir, Goto, NamesSpelled
  <2>4. CASE UNCHANGED writerVars BY <2>4 DEF writerVars, writer, NamesSpelled
  <2>5. QED BY <2>1, <2>2, <2>3, <2>4, WriterNext DEF WriterStep
<1>2. /\ DOMAIN files' \cup DOMAIN settled' \subseteq FileNames
      /\ IsFiniteSet(DOMAIN files') /\ IsFiniteSet(DOMAIN settled')
  <2>1. CASE files' = files /\ settled' \in {settled, files} BY <2>1 DEF NamesSpelled
  <2>2. CASE Rename /\ files' = Put(files, current, temps[current]) /\ settled' = settled
    <3>1. current \in FileNames BY <2>2 DEF Rename, NamesSpelled
    <3>2. DOMAIN files' = DOMAIN files \cup {current} /\ IsFiniteSet(DOMAIN files')
      BY <2>2, PutDomain DEF NamesSpelled
    <3>3. QED BY <2>2, <3>1, <3>2 DEF NamesSpelled
  <2>3. CASE PowerLoss
    <3>1. settled' = files' /\ DOMAIN files' \in SUBSET DOMAIN files BY <2>3, PowerLossFiles
    <3>2. IsFiniteSet(DOMAIN files') BY <3>1, FS_Subset DEF NamesSpelled
    <3>3. QED BY <3>1, <3>2 DEF NamesSpelled
  <2>4. QED BY <2>1, <2>2, <2>3, FilesChange
<1>3. DOMAIN temps' \subseteq FileNames /\ IsFiniteSet(DOMAIN temps')
  <2>1. CASE Begin \/ CreateDir \/ Finish \/ DryRun \/ Claim \/ SyncDir \/ Verify \/ Crash
             \/ UNCHANGED writerVars
    <3>1. temps' = temps
      BY <2>1 DEF Begin, CreateDir, Finish, DryRun, Claim, SyncDir, Verify, Crash, writerVars, disk
    <3>2. QED BY <3>1 DEF NamesSpelled
  <2>2. CASE CreateTemp \/ WriteTemp \/ SyncTemp
    <3>1. temps' = temps \/ \E content : temps' = Put(temps, current, content)
      BY <2>2 DEF CreateTemp, WriteTemp, SyncTemp
    <3>2. current \in FileNames BY <2>2 DEF CreateTemp, WriteTemp, SyncTemp, NamesSpelled
    <3>3. CASE temps' = temps BY <3>3 DEF NamesSpelled
    <3>4. ASSUME NEW content, temps' = Put(temps, current, content)
          PROVE  DOMAIN temps' \subseteq FileNames /\ IsFiniteSet(DOMAIN temps')
      <4>1. DOMAIN temps' = DOMAIN temps \cup {current} /\ IsFiniteSet(DOMAIN temps')
        BY <3>4, PutDomain DEF NamesSpelled
      <4>2. QED BY <3>2, <4>1 DEF NamesSpelled
    <3>5. QED BY <3>1, <3>3, <3>4
  <2>3. CASE Rename \/ RemoveTemp
    <3>1. DOMAIN temps' \in SUBSET DOMAIN temps BY <2>3 DEF Rename, RemoveTemp
    <3>2. IsFiniteSet(DOMAIN temps') BY <3>1, FS_Subset DEF NamesSpelled
    <3>3. QED BY <3>1, <3>2 DEF NamesSpelled
  <2>4. CASE PowerLoss
    <3>1. DOMAIN temps' = DOMAIN temps BY <2>4 DEF PowerLoss
    <3>2. QED BY <3>1 DEF NamesSpelled
  <2>5. QED BY <2>1, <2>2, <2>3, <2>4, WriterNext DEF WriterStep
<1>4. QED BY <1>0, <1>1, <1>2, <1>3 DEF NamesSpelled

\* The paths of the files are finitely many.
LEMMA NamedPaths ==
    ASSUME NEW S, S \subseteq FileNames, IsFiniteSet(S), NEW end \in FileNames
    PROVE  /\ {<<n \o end>> : n \in S} \subseteq Seq(FileNames) \ {<<>>}
           /\ IsFiniteSet({<<n \o end>> : n \in S})
<1>1. ASSUME NEW n \in S PROVE <<n \o end>> \in Seq(FileNames) \ {<<>>}
  <2>1. n \in Seq(ToSet(Alphabet)) /\ end \in Seq(ToSet(Alphabet)) BY DEF FileNames
  <2>2. PICK m : m = n \o end OBVIOUS
  <2>3. m \in FileNames BY <2>1, <2>2, Joining DEF FileNames
  <2>4. <<m>> \in Seq(FileNames) /\ Len(<<m>>) = 1 BY <2>3, TextsOfParts, Zenon
  <2>5. <<m>> # <<>> OBVIOUS
  <2>6. QED BY <2>2, <2>4, <2>5
<1> DEFINE f == [n \in S |-> <<n \o end>>]
           T == {<<n \o end>> : n \in S}
<1>2. f \in Surjection(S, T) BY DEF Surjection
<1> HIDE DEF f, T
<1>3. IsFiniteSet(T) BY <1>2, FS_Surjection
<1>4. QED BY <1>1, <1>3 DEF T

\* The paths there are, by what is under them; no other variable says which.
LEMMA RegularIs ==
    DOMAIN Regular = {<<n \o Suffix>> : n \in DOMAIN files}
                       \cup {<<n \o (Suffix \o Temporary)>> : n \in DOMAIN temps}
                       \cup {q \in DOMAIN tree : tree[q].kind = "file"}
BY DEF Regular

LEMMA RegularKept ==
    ASSUME files' = files, temps' = temps, tree' = tree
    PROVE  DOMAIN Regular' = DOMAIN Regular
<1>1. DOMAIN Regular' = {<<n \o Suffix>> : n \in DOMAIN files'}
                          \cup {<<n \o (Suffix \o Temporary)>> : n \in DOMAIN temps'}
                          \cup {q \in DOMAIN tree' : tree'[q].kind = "file"}
  BY DEF Regular
<1>2. QED BY <1>1, RegularIs

LEMMA RegularPaths ==
    ASSUME NamesSpelled
    PROVE  DOMAIN Regular \subseteq Seq(FileNames) \ {<<>>} /\ IsFiniteSet(DOMAIN Regular)
<1> DEFINE written == {<<n \o Suffix>> : n \in DOMAIN files}
           temporary == {<<n \o (Suffix \o Temporary)>> : n \in DOMAIN temps}
           others == {q \in DOMAIN tree : tree[q].kind = "file"}
<1>1. Suffix \in FileNames /\ (Suffix \o Temporary) \in FileNames
  <2>1. ToSet(Suffix) \subseteq ToSet(Alphabet) /\ ToSet(Temporary) \subseteq ToSet(Alphabet)
    BY LoadingAssumption DEF LoadingAssumption
  <2>2. Suffix \in Seq(ToSet(Suffix)) /\ Temporary \in Seq(ToSet(Temporary))
    BY DEF Suffix, Temporary, ToSet
  <2>3. Suffix \in Seq(ToSet(Alphabet)) /\ Temporary \in Seq(ToSet(Alphabet)) BY <2>1, <2>2
  <2>4. QED BY <2>3, Joining DEF FileNames
<1>2. written \subseteq Seq(FileNames) \ {<<>>} /\ IsFiniteSet(written)
  BY <1>1, NamedPaths DEF NamesSpelled
<1>3. temporary \subseteq Seq(FileNames) \ {<<>>} /\ IsFiniteSet(temporary)
  BY <1>1, NamedPaths DEF NamesSpelled
<1>4. others \in SUBSET DOMAIN tree OBVIOUS
<1> HIDE DEF written, temporary, others
<1>5. others \subseteq Seq(FileNames) \ {<<>>} /\ IsFiniteSet(others)
  BY <1>4, FS_Subset DEF NamesSpelled
<1>6. DOMAIN Regular = written \cup temporary \cup others
  BY RegularIs DEF written, temporary, others
<1>7. IsFiniteSet(written \cup temporary \cup others) BY <1>2, <1>3, <1>5, FS_Union
<1>8. QED BY <1>2, <1>3, <1>5, <1>6, <1>7

\* What the walk comes to by name is what the pattern means.
LEMMA CandidateIs ==
    ASSUME NEW o \in LoadOptions, NEW path \in Seq(FileNames) \ {<<>>}
    PROVE  Candidate(o, path) <=> Fits(o.pattern, Last(path)) /\ Walked(path, o.recursive)
<1>1. o.pattern \in Seq(STRING) BY LoadingAssumption DEF LoadingAssumption
<1>2. FileNames \subseteq Seq(STRING)
  <2>1. ToSet(Alphabet) \subseteq STRING BY LoadingAssumption DEF LoadingAssumption, ToSet
  <2>2. QED BY <2>1 DEF FileNames
<1>3. path \in Seq(FileNames) /\ path # <<>> OBVIOUS
<1>4. Len(path) \in 1 .. Len(path) BY <1>3
<1>5. Last(path) \in FileNames BY <1>3, <1>4 DEF Last
<1>6. PICK name, pattern : name = Last(path) /\ pattern = o.pattern OBVIOUS
<1>7. name \in Seq(STRING) /\ pattern \in Seq(STRING) BY <1>1, <1>2, <1>5, <1>6
<1>8. MatchBindingPattern(pattern, name) = Fits(pattern, name) BY <1>7, MatcherFindsEveryFit
<1>9. MatchBindingPattern(o.pattern, Last(path)) = Fits(o.pattern, Last(path)) BY <1>6, <1>8
<1>10. QED BY <1>9, Zenon DEF Candidate

\* The first of what is left goes to the end of what was read.
LEMMA OneMoreRead ==
    ASSUME NEW S, NEW read \in Seq(S), NEW todo \in Seq(S), todo # <<>>
    PROVE  /\ Append(read, Head(todo)) \in Seq(S) /\ Tail(todo) \in Seq(S)
           /\ Append(read, Head(todo)) \o Tail(todo) = read \o todo
<1>1. Head(todo) \in S /\ Tail(todo) \in Seq(S) /\ Len(Tail(todo)) = Len(todo) - 1 OBVIOUS
<1>2. Append(read, Head(todo)) \in Seq(S) BY <1>1
<1>3. PICK s, t : s = Append(read, Head(todo)) \o Tail(todo) /\ t = read \o todo OBVIOUS
<1>4. s \in Seq(S) /\ t \in Seq(S) /\ Len(s) = Len(t) BY <1>1, <1>2, <1>3
<1>5. \A i \in 1 .. Len(s) : s[i] = t[i] BY <1>1, <1>2, <1>3
<1>6. s = t BY <1>4, <1>5, SeqEqual
<1>7. QED BY <1>1, <1>2, <1>3, <1>6

\* A step is one of the loader's, ends what was loaded, or leaves the load alone, and a listing
\* sees what it does to the directory.
LEMMA ListingSteps ==
    ASSUME [Next]_vars
    PROVE  /\ tree' = tree
           /\ \/ LoaderStep /\ files' = files /\ temps' = temps
              \/ load' = NotLoading
              \/ load' = load /\ looked' = looked /\ files' = files /\ temps' = temps
              \/ load' = load /\ Watched
<1>1. CASE (WriterStep \/ Crash) /\ UNCHANGED <<tree, loaderVars, registrarVars>> /\ Watched
  BY <1>1 DEF loaderVars
<1>2. CASE LoaderStep /\ UNCHANGED <<writerVars, tree, registrarVars>> BY <1>2 DEF writerVars, disk
<1>3. CASE (Construct \/ WriteNext \/ WriteReturns) /\ UNCHANGED <<writerVars, tree>>
  BY <1>3 DEF Construct, WriteNext, WriteReturns, loaderVars, writerVars, disk
<1>4. CASE UNCHANGED vars BY <1>4 DEF vars, loaderVars, writerVars, disk
<1>5. QED BY <1>1, <1>2, <1>3, <1>4 DEF Next

\* While the call is the same, so is what is due of it.
LEMMA DueKept ==
    ASSUME tree' = tree, load'.options = load.options
    PROVE  \A path : Due(path)' <=> Due(path)
BY DEF Due, Walked

LEMMA ListingStep ==
    NamesSpelled /\ LoadOK /\ ListingSound /\ [Next]_vars => ListingSound'
<1> SUFFICES ASSUME NamesSpelled, LoadOK, ListingSound, [Next]_vars, load'.phase = "listing"
             PROVE  ListingSound'
  BY DEF ListingSound
<1>0. tree' = tree BY ListingSteps
<1>1. ~Fail BY DEF Fail, NotLoading
<1>2. CASE Open /\ files' = files /\ temps' = temps
  <2>1. PICK o \in LoadOptions :
            /\ load' = [NotLoading EXCEPT !.phase = "listing", !.options = o]
            /\ looked' = [throughout |-> DOMAIN Regular, sometime |-> DOMAIN Regular]
    BY <1>1, <1>2 DEF Open
  <2>2. /\ load'.options = o /\ load'.seen = {} /\ load'.found = {}
        /\ looked'.throughout = DOMAIN Regular
    BY <2>1 DEF NotLoading
  <2>3. looked'.throughout \subseteq DOMAIN Regular' BY <1>0, <1>2, <2>2, RegularKept
  <2>4. QED BY <2>2, <2>3, FS_EmptySet DEF ListingSound
<1>3. CASE Visit /\ files' = files /\ temps' = temps
  <2>1. PICK path \in looked.sometime \ load.seen :
            /\ Candidate(load.options, path)
            /\ load' = [load EXCEPT !.seen = @ \cup {path},
                                    !.found = @ \cup ({path} \cap DOMAIN Regular)]
    BY <1>3 DEF Visit
  <2>2. load.phase = "listing" /\ looked' = looked BY <1>3 DEF Visit
  <2>3. /\ load'.options = load.options /\ load'.seen = load.seen \cup {path}
        /\ load'.found = load.found \cup ({path} \cap DOMAIN Regular)
    BY <2>1 DEF LoadOK
  <2>4. DOMAIN Regular' = DOMAIN Regular BY <1>0, <1>3, RegularKept
  <2>5. {path} \cap DOMAIN Regular \subseteq Seq(FileNames) \ {<<>>} BY RegularPaths
  <2>6. IsFiniteSet(load'.found)
    <3>1. IsFiniteSet({path}) BY FS_Singleton
    <3>2. IsFiniteSet({path} \cap DOMAIN Regular) BY <3>1, FS_Intersection
    <3>3. IsFiniteSet(load.found) BY <2>2 DEF ListingSound
    <3>4. IsFiniteSet(load.found \cup ({path} \cap DOMAIN Regular)) BY <3>2, <3>3, FS_Union
    <3>5. QED BY <2>3, <3>4
  <2>7. path \in DOMAIN Regular => Due(path)
    <3>1. SUFFICES ASSUME path \in Seq(FileNames) \ {<<>>} PROVE Due(path) BY <2>5
    <3>2. load.options \in LoadOptions BY <2>2 DEF ListingSound
    <3>3. QED BY <2>1, <3>1, <3>2, CandidateIs DEF Due
  <2>8. \A q : Due(q)' <=> Due(q) BY <1>0, <2>3, DueKept
  <2>9. load'.found \subseteq {q \in looked'.sometime : Due(q)'}
    BY <2>1, <2>2, <2>3, <2>7, <2>8 DEF ListingSound
  <2>10. looked'.throughout \cap load'.seen \subseteq load'.found
    BY <2>2, <2>3 DEF ListingSound
  <2>11. QED BY <2>2, <2>3, <2>4, <2>5, <2>6, <2>9, <2>10 DEF ListingSound
<1>4. CASE (Sort \/ ListingFails \/ ListOne \/ Read \/ ReadFails \/ Loaded)
  <2>1. load.phase # "listing" => load'.phase # "listing"
    BY <1>1, <1>4 DEF Sort, ListingFails, ListOne, Read, ReadFails, Loaded, LoadOK, NotLoading
  <2>2. load.phase = "listing" => Sort \/ ListingFails
    BY <1>4 DEF ListOne, Read, ReadFails, Loaded
  <2>3. ~(Sort \/ ListingFails) BY <1>1 DEF Sort, ListingFails, NotLoading
  <2>4. QED BY <2>1, <2>2, <2>3
<1>5. CASE load' = NotLoading BY <1>5 DEF NotLoading
<1>6. CASE load' = load /\ looked' = looked /\ files' = files /\ temps' = temps
  <2>1. DOMAIN Regular' = DOMAIN Regular BY <1>0, <1>6, RegularKept
  <2>2. \A q : Due(q)' <=> Due(q) BY <1>0, <1>6, DueKept
  <2>3. QED BY <1>6, <2>1, <2>2 DEF ListingSound
<1>7. CASE load' = load /\ Watched
  <2>1. /\ looked'.throughout = looked.throughout \cap DOMAIN Regular'
        /\ looked'.sometime = looked.sometime \cup DOMAIN Regular'
    BY <1>7 DEF Watched
  <2>2. \A q : Due(q)' <=> Due(q) BY <1>0, <1>7, DueKept
  <2>3. QED BY <1>7, <2>1, <2>2 DEF ListingSound
<1>8. QED BY <1>2, <1>3, <1>4, <1>5, <1>6, <1>7, ListingSteps DEF LoaderStep

LEMMA LoadSoundStep ==
    NamesSpelled /\ LoadOK /\ ListingSound /\ LoadSound /\ [Next]_vars => LoadSound'
<1> SUFFICES ASSUME NamesSpelled, LoadOK, ListingSound, LoadSound, [Next]_vars PROVE LoadSound'
  OBVIOUS
<1>0. tree' = tree BY ListingSteps
<1>1. NotLoading.phase = "idle" BY DEF NotLoading
<1>2. CASE load'.phase \notin {"reading", "loaded"} BY <1>2 DEF LoadSound
<1>3. Fail => load'.phase = "failed" BY DEF Fail, NotLoading
<1>4. CASE Sort
  <2>1. SUFFICES ASSUME ~Fail PROVE LoadSound' BY <1>2, <1>3
  <2>2. PICK s : s = Sorted(load.found) OBVIOUS
  <2>3. /\ load' = [NotLoading EXCEPT !.phase = "reading", !.options = load.options, !.todo = s]
        /\ looked' = looked /\ load.phase = "listing"
        /\ {path \in looked.throughout : Candidate(load.options, path)} \subseteq load.seen
    BY <1>4, <2>1, <2>2 DEF Sort
  <2>4. /\ load'.phase = "reading" /\ load'.options = load.options
        /\ load'.todo = s /\ load'.read = <<>>
    BY <2>3 DEF NotLoading
  <2>5. /\ s \in Seq(load.found) /\ ToSet(s) = load.found
        /\ \A i, j \in DOMAIN s : i < j => PathLess(s[i], s[j])
    <3>1. load.found \in SUBSET Seq(FileNames) /\ IsFiniteSet(load.found)
      BY <2>3 DEF ListingSound
    <3>2. QED BY <2>2, <3>1, SortedIs
  <2>6. \A path : Due(path)' <=> Due(path) BY <1>0, <2>4, DueKept
  <2>7. {path \in looked.throughout : Due(path)} \subseteq load.found
    <3>1. SUFFICES ASSUME NEW path \in looked.throughout, Due(path) PROVE path \in load.found
      OBVIOUS
    <3>2. path \in Seq(FileNames) \ {<<>>} BY <2>3, RegularPaths DEF ListingSound
    <3>3. load.options \in LoadOptions BY <2>3 DEF ListingSound
    <3>4. Candidate(load.options, path) BY <3>1, <3>2, <3>3, CandidateIs DEF Due
    <3>5. QED BY <2>3, <3>4 DEF ListingSound
  <2>8. load.found \subseteq {path \in looked.sometime : Due(path)} BY <2>3 DEF ListingSound
  <2>9. load'.read \o load'.todo = s
    <3>1. <<>> \o s = s BY <2>5
    <3>2. QED BY <2>4, <3>1
  <2>10. load'.read \in Seq(load.found) /\ load'.todo \in Seq(load.found) BY <2>4, <2>5
  <2>11. QED BY <2>3, <2>4, <2>5, <2>6, <2>7, <2>8, <2>9, <2>10 DEF LoadSound
<1>5. CASE ListOne
  <2>1. SUFFICES ASSUME ~Fail PROVE LoadSound' BY <1>2, <1>3
  <2>2. PICK o \in LoadOptions :
            /\ o.file # None
            /\ load' = [NotLoading EXCEPT !.phase = "reading", !.options = o,
                                          !.todo = <<<<o.file>>>>]
    BY <1>5, <2>1 DEF ListOne
  <2>3. load'.options = o BY <2>2 DEF NotLoading
  <2>4. QED BY <2>2, <2>3 DEF LoadSound
<1>6. CASE Read
  <2>1. SUFFICES ASSUME ~Fail, load.options.file = None PROVE LoadSound'
    <3>1. SUFFICES ASSUME ~Fail PROVE load'.options = load.options BY <1>2, <1>3 DEF LoadSound
    <3>2. load' = [load EXCEPT !.todo = Tail(@), !.read = Append(@, Head(load.todo))]
      BY <1>6, <3>1 DEF Read
    <3>3. QED BY <3>2 DEF LoadOK
  <2>2. /\ load' = [load EXCEPT !.todo = Tail(@), !.read = Append(@, Head(load.todo))]
        /\ load.phase = "reading" /\ load.todo # <<>> /\ looked' = looked
    BY <1>6, <2>1 DEF Read
  <2>3. /\ load'.phase = "reading" /\ load'.options = load.options
        /\ load'.todo = Tail(load.todo) /\ load'.read = Append(load.read, Head(load.todo))
    BY <2>2 DEF LoadOK
  <2>4. PICK S : load.read \in Seq(S) /\ load.todo \in Seq(S) BY <2>1, <2>2 DEF LoadSound
  <2>5. /\ load'.read \in Seq(S) /\ load'.todo \in Seq(S)
        /\ load'.read \o load'.todo = load.read \o load.todo
    <3>1. PICK read, todo : read = load.read /\ todo = load.todo OBVIOUS
    <3>2. read \in Seq(S) /\ todo \in Seq(S) /\ todo # <<>> BY <2>2, <2>4, <3>1
    <3>3. /\ Append(read, Head(todo)) \in Seq(S) /\ Tail(todo) \in Seq(S)
          /\ Append(read, Head(todo)) \o Tail(todo) = read \o todo
      BY <3>2, OneMoreRead
    <3>4. QED BY <2>3, <3>1, <3>3
  <2>6. \A path : Due(path)' <=> Due(path) BY <1>0, <2>3, DueKept
  <2>7. QED BY <2>1, <2>2, <2>3, <2>5, <2>6 DEF LoadSound
<1>7. CASE Loaded
  <2>1. /\ load' = [load EXCEPT !.phase = "loaded"] /\ load.phase = "reading" /\ load.todo = <<>>
        /\ looked' = looked
    BY <1>7 DEF Loaded
  <2>2. /\ load'.phase = "loaded" /\ load'.options = load.options
        /\ load'.todo = load.todo /\ load'.read = load.read
    BY <2>1 DEF LoadOK
  <2>3. \A path : Due(path)' <=> Due(path) BY <1>0, <2>2, DueKept
  <2>4. QED BY <2>1, <2>2, <2>3 DEF LoadSound
<1>8. CASE Open
  <2>1. load'.phase \in {"listing", "failed"} BY <1>3, <1>8 DEF Open, NotLoading
  <2>2. QED BY <1>2, <2>1
<1>9. CASE Visit
  <2>1. load'.phase = load.phase /\ load.phase = "listing" BY <1>9 DEF Visit, LoadOK
  <2>2. QED BY <1>2, <2>1
<1>10. CASE ListingFails \/ ReadFails BY <1>2, <1>3, <1>10 DEF ListingFails, ReadFails
<1>11. CASE load' = NotLoading BY <1>1, <1>2, <1>11
<1>12. CASE load' = load /\ (looked' = looked \/ Watched)
  <2>1. SUFFICES ASSUME load.phase \in {"reading", "loaded"} PROVE LoadSound' BY <1>2, <1>12
  <2>2. looked' = looked BY <1>12, <2>1 DEF Watched
  <2>3. \A path : Due(path)' <=> Due(path) BY <1>0, <1>12, DueKept
  <2>4. QED BY <1>12, <2>2, <2>3 DEF LoadSound
<1>13. QED
  BY <1>4, <1>5, <1>6, <1>7, <1>8, <1>9, <1>10, <1>11, <1>12, ListingSteps DEF LoaderStep

\* A load that succeeds has read every file that was there all the time it was listing and that
\* the pattern names, none that was never there meanwhile or that it does not name, and in order
\* of path, while the writer goes on writing between any two entries (load_with_pattern and
\* match_binding_pattern, binding_loader.rs).
THEOREM LoadTakesWhatIsDue == Spec => []LoadComplete
<1> DEFINE Inv == WriterInv /\ FilesListed /\ LoadOK /\ NamesSpelled /\ ListingSound /\ LoadSound
<1>1. DeploymentInit => Inv
  <2>1. DeploymentInit => ListingSound /\ LoadSound
    BY DEF DeploymentInit, LoadingInit, ListingSound, LoadSound, NotLoading
  <2>2. QED BY <2>1, WriterInit, LoadInit, NamesInit
<1>2. Inv /\ [Next]_vars => Inv'
  BY WriterInductive, ListedStep, LoadStep, NamesStep, ListingStep, LoadSoundStep DEF WriterInv
<1>3. Inv => LoadComplete
  <2> SUFFICES ASSUME LoadSound, load.phase = "loaded", load.options.file = None
               PROVE  /\ {path \in looked.throughout : Due(path)} \subseteq ToSet(load.read)
                      /\ ToSet(load.read) \subseteq {path \in looked.sometime : Due(path)}
                      /\ \A i, j \in DOMAIN load.read :
                            i < j => PathLess(load.read[i], load.read[j])
    BY DEF LoadComplete
  <2>1. PICK S : load.read \in Seq(S) BY DEF LoadSound
  <2>2. load.read \o <<>> = load.read BY <2>1
  <2>3. load.read \o load.todo = load.read BY <2>2 DEF LoadSound
  <2>4. QED BY <2>3 DEF LoadSound
<1> HIDE DEF Inv
<1>4. QED BY <1>1, <1>2, <1>3, PTL DEF Spec
===============================================================================
