-------------------------- MODULE AuthPanels_proofs --------------------------
(***************************************************************************)
(* The boxes of the one-time code, for any number of them and any digits:  *)
(* what padding, setting one character and trimming make of a code.  The   *)
(* greatest element that TrimEnd takes exists because the inclusion of     *)
(* finite sets is well founded.                                            *)
(***************************************************************************)
EXTENDS AuthPanels, FiniteSetTheorems, SequenceTheorems, WellFoundedInduction, TLAPS

(* A nonempty set of numbers up to n has a greatest.                         *)
LEMMA Greatest ==
  ASSUME NEW n \in Nat, NEW S, S \subseteq 0..n, S # {}
  PROVE  Max(S) \in S /\ \A y \in S : Max(S) >= y
<1> DEFINE above(x) == (x + 1)..n
           T == {above(x) : x \in S}
<1>1. T \subseteq SUBSET (0..n) /\ T # {}
  <2>1. \A x \in S : above(x) \in SUBSET (0..n)
    OBVIOUS
  <2> HIDE DEF above
  <2> QED
    BY <2>1
<1>2. IsFiniteSet(0..n)
  BY FS_Interval
<1>3. IsWellFoundedOn(StrictSubsetOrdering(0..n), SUBSET (0..n))
  BY <1>2, FS_StrictSubsetOrderingWellFounded, FS_FiniteSubsetsOfFinite
<1> HIDE DEF T
<1>4. PICK t \in T : \A u \in T : <<u, t>> \notin StrictSubsetOrdering(0..n)
  <2> DEFINE R == StrictSubsetOrdering(0..n)
             D == SUBSET (0..n)
  <2>1. IsWellFoundedOn(R, D) /\ T \subseteq D /\ T # {}
    BY <1>1, <1>3
  <2> HIDE DEF R, D
  <2>2. \E x \in T : \A y \in T : ~ (<<y, x>> \in R)
    BY <2>1, WFMin, Zenon
  <2> QED
    BY <2>2 DEF R
<1>5. PICK x \in S : t = above(x)
  BY DEF T
<1>6. ASSUME NEW y \in S, ~(x >= y) PROVE FALSE
  <2>1. x \in 0..n /\ y \in 0..n /\ x < y
    BY <1>6
  <2>2. above(y) \in T /\ above(y) \subseteq above(x) /\ y \in above(x) /\ y \notin above(y)
    BY <2>1 DEF T
  <2>3. <<above(y), above(x)>> \in StrictSubsetOrdering(0..n)
    <3>1. above(y) \in SUBSET (0..n) /\ above(x) \in SUBSET (0..n)
      BY <2>1
    <3> HIDE DEF above
    <3> QED
      BY <2>2, <3>1 DEF StrictSubsetOrdering
  <2> QED
    BY <1>4, <1>5, <2>2, <2>3
<1>7. \E m \in S : \A y \in S : m >= y
  BY <1>6
<1> QED
  BY <1>7 DEF Max
(* What the boxes may show.                                                  *)
Chars == Digits \cup {Blank}
(* A code is a sequence that fits into the boxes.                            *)
LEMMA CodeSeq ==
  /\ \A c \in Codes : c \in Seq(Chars) /\ Len(c) \in 0..CodeLength /\ DOMAIN c = 1..Len(c)
  /\ \A c \in Seq(Chars) : Len(c) <= CodeLength => c \in Codes
<1>0. CodeLength \in Nat
  BY AuthPanelsAssumption
<1>1. ASSUME NEW c \in Codes PROVE c \in Seq(Chars) /\ Len(c) \in 0..CodeLength /\ DOMAIN c = 1..Len(c)
  <2>1. PICK n \in 0..CodeLength : c \in [1..n -> Chars]
    BY DEF Codes, Chars
  <2>2. n \in Nat
    BY <1>0
  <2>3. c \in Seq(Chars)
    BY <2>1, <2>2
  <2>4. Len(c) = n
    BY <2>1, <2>2, <2>3
  <2> QED
    BY <2>1, <2>3, <2>4
<1>2. ASSUME NEW c \in Seq(Chars), Len(c) <= CodeLength PROVE c \in Codes
  <2>1. Len(c) \in Nat /\ c \in [1..Len(c) -> Chars]
    BY LenProperties
  <2>2. Len(c) \in 0..CodeLength
    BY <1>0, <1>2, <2>1
  <2> QED
    BY <2>1, <2>2 DEF Codes, Chars
<1> QED
  BY <1>1, <1>2

(* The padded code fills the boxes, and shows in each what the code does.    *)
LEMMA PaddedSeq ==
  ASSUME NEW c \in Codes
  PROVE  /\ Padded(c) \in Seq(Chars) /\ Len(Padded(c)) = CodeLength
         /\ \A j \in 1..CodeLength : Padded(c)[j] = Box(c, j)
<1>0. CodeLength \in Nat
  BY AuthPanelsAssumption
<1>1. c \in Seq(Chars) /\ Len(c) \in 0..CodeLength /\ DOMAIN c = 1..Len(c) /\ Len(c) \in Nat
  BY CodeSeq
<1>2. ASSUME NEW i \in 1..CodeLength PROVE (IF i <= Len(c) THEN c[i] ELSE Blank) \in Chars
  <2>1. CASE i <= Len(c)
    <3>1. i \in 1..Len(c)
      BY <1>0, <1>1, <2>1
    <3> QED
      BY <1>1, <2>1, <3>1, ElementOfSeq
  <2>2. CASE ~(i <= Len(c))
    BY <2>2 DEF Chars
  <2> QED
    BY <2>1, <2>2
<1>3. Padded(c) \in [1..CodeLength -> Chars]
  BY <1>2 DEF Padded
<1>4. Padded(c) \in Seq(Chars) /\ Len(Padded(c)) = CodeLength
  BY <1>0, <1>3
<1> QED
  BY <1>4 DEF Padded, Box

(* Trimming takes blanks away from the end and nothing else.                 *)
LEMMA Trimmed ==
  ASSUME NEW c \in Seq(Chars), Len(c) <= CodeLength
  PROVE  TrimEnd(c) \in Codes /\ \A j \in 1..CodeLength : Box(TrimEnd(c), j) = Box(c, j)
<1>0. CodeLength \in Nat /\ Len(c) \in Nat
  BY AuthPanelsAssumption, LenProperties
<1> DEFINE S == {0} \cup {i \in 1..Len(c) : c[i] # Blank}
           m == Max(S)
<1>1. S \subseteq 0..Len(c) /\ S # {}
  BY <1>0
<1>2. m \in S /\ \A y \in S : m >= y
  <2> HIDE DEF S
  <2> QED
    BY <1>0, <1>1, Greatest
<1>3. m \in 0..Len(c) /\ \A j \in 1..Len(c) : j > m => c[j] = Blank
  <2>1. m \in 0..Len(c)
    BY <1>1, <1>2
  <2>2. ASSUME NEW j \in 1..Len(c), j > m, c[j] # Blank PROVE FALSE
    <3>1. j \in S
      BY <2>2
    <3>2. m >= j
      BY <1>2, <3>1
    <3> HIDE DEF m
    <3> QED
      BY <1>0, <2>1, <2>2, <3>2
  <2> QED
    BY <2>1, <2>2
<1>4. TrimEnd(c) = SubSeq(c, 1, m)
  BY DEF TrimEnd
<1> HIDE DEF m, S
<1>5. \A i \in 1..m : c[i] \in Chars
  BY <1>0, <1>3, ElementOfSeq
<1>6. /\ SubSeq(c, 1, m) \in Seq(Chars) /\ Len(SubSeq(c, 1, m)) = m
      /\ \A i \in 1..m : SubSeq(c, 1, m)[i] = c[i]
  BY <1>0, <1>3, <1>5
<1>7. TrimEnd(c) \in Codes
  <2>1. m <= CodeLength
    BY <1>0, <1>3
  <2> QED
    BY <1>4, <1>6, <2>1, CodeSeq
<1>8. ASSUME NEW j \in 1..CodeLength PROVE Box(TrimEnd(c), j) = Box(c, j)
  <2>1. Len(TrimEnd(c)) = m /\ j \in Nat /\ m \in Nat
    BY <1>0, <1>3, <1>4, <1>6
  <2>2. CASE j <= m
    <3>1. j \in 1..m /\ j <= Len(c)
      BY <1>0, <1>3, <2>1, <2>2
    <3> QED
      BY <1>4, <1>6, <2>1, <2>2, <3>1 DEF Box
  <2>3. CASE ~(j <= m)
    <3>1. Box(TrimEnd(c), j) = Blank
      BY <2>1, <2>3 DEF Box
    <3>2. j <= Len(c) => c[j] = Blank
      BY <1>0, <1>3, <2>1, <2>3
    <3> QED
      BY <3>1, <3>2 DEF Box
  <2> QED
    BY <2>2, <2>3
<1> QED
  BY <1>7, <1>8

(* What a stroke of a key makes of a code.                                   *)
LEMMA DigitUpdated ==
  ASSUME NEW c \in Codes, NEW i \in 1..CodeLength
  PROVE  /\ \A d \in Digits \cup {None} : UpdateDigit(c, i, d) \in Codes
         /\ \A d \in Digits, j \in 1..CodeLength :
              Box(UpdateDigit(c, i, d), j) = IF j = i THEN d ELSE Box(c, j)
<1> DEFINE p == Padded(c)
<1>0. CodeLength \in Nat
  BY AuthPanelsAssumption
<1>1. p \in Seq(Chars) /\ Len(p) = CodeLength /\ \A j \in 1..CodeLength : p[j] = Box(c, j)
  BY PaddedSeq
<1>2. \A d : UpdateDigit(c, i, d) =
               TrimEnd(IF d = None THEN RemoveAt(p, i) ELSE [p EXCEPT ![i] = d])
  BY DEF UpdateDigit, ReplaceAt
<1> HIDE DEF p
<1>3. RemoveAt(p, i) \in Seq(Chars) /\ Len(RemoveAt(p, i)) <= CodeLength
  <2>1. SubSeq(p, 1, i - 1) \in Seq(Chars) /\ Len(SubSeq(p, 1, i - 1)) = i - 1
    BY <1>0, <1>1
  <2>2. /\ SubSeq(p, i + 1, Len(p)) \in Seq(Chars)
        /\ Len(SubSeq(p, i + 1, Len(p))) = CodeLength - i
    BY <1>0, <1>1
  <2>3. PICK a \in Seq(Chars), b \in Seq(Chars) :
          /\ a = SubSeq(p, 1, i - 1) /\ b = SubSeq(p, i + 1, Len(p))
          /\ Len(a) = i - 1 /\ Len(b) = CodeLength - i
    BY <2>1, <2>2
  <2>4. RemoveAt(p, i) = a \o b
    BY <2>3 DEF RemoveAt
  <2>5. a \o b \in Seq(Chars) /\ Len(a \o b) = Len(a) + Len(b)
    BY ConcatProperties
  <2>6. Len(a \o b) <= CodeLength
    <3>1. Len(a \o b) = (i - 1) + (CodeLength - i)
      BY <2>3, <2>5, Zenon
    <3>2. (i - 1) + (CodeLength - i) <= CodeLength
      BY <1>0
    <3> QED
      BY <3>1, <3>2, Zenon
  <2> QED
    BY <2>4, <2>5, <2>6
<1>4. ASSUME NEW d \in Digits
      PROVE  /\ UpdateDigit(c, i, d) \in Codes
             /\ \A j \in 1..CodeLength :
                  Box(UpdateDigit(c, i, d), j) = IF j = i THEN d ELSE Box(c, j)
  <2> DEFINE q == [p EXCEPT ![i] = d]
  <2>1. d # None /\ d \in Chars
    BY AuthPanelsAssumption DEF Chars
  <2>2. UpdateDigit(c, i, d) = TrimEnd(q)
    BY <1>2, <2>1
  <2>3. /\ q \in Seq(Chars) /\ Len(q) = CodeLength
        /\ \A j \in 1..CodeLength : q[j] = IF j = i THEN d ELSE p[j]
    BY <1>1, <2>1, ExceptSeq
  <2> HIDE DEF q
  <2>4. \A j \in 1..CodeLength : Box(q, j) = q[j]
    BY <1>0, <2>3 DEF Box
  <2>5. TrimEnd(q) \in Codes /\ \A j \in 1..CodeLength : Box(TrimEnd(q), j) = Box(q, j)
    BY <1>0, <2>3, Trimmed
  <2> QED
    BY <1>1, <2>2, <2>3, <2>4, <2>5
<1>5. UpdateDigit(c, i, None) \in Codes
  BY <1>2, <1>3, Trimmed
<1> QED
  BY <1>4, <1>5
===============================================================================
