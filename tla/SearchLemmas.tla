---- MODULE SearchLemmas ----
(***************************************************************************)
(* What SequencesExt's SelectInSeq, which models the std::find_if searches *)
(* of the code, returns; and what becomes of a list that grows.            *)
(***************************************************************************)
EXTENDS Naturals, Sequences, SequencesExt, TLAPS, SequenceTheorems,
        WellFoundedInduction

\* A set of numbers that is not empty has a least element.
LEMMA MinOfNats ==
    ASSUME NEW I \in SUBSET Nat, I # {}
    PROVE  Min(I) \in I /\ \A i \in I : Min(I) <= i
<1> DEFINE R == {p \in Nat \X Nat : p[1] < p[2]}
<1>1. IsWellFoundedOn(R, Nat)
  BY NatLessThanWellFounded DEF OpToRel
<1>2. PICK x \in I : \A y \in I : ~ (<<y, x>> \in R)
  <2> HIDE DEF R
  <2>. QED
    BY <1>1, WFMin
<1>3. ASSUME NEW y \in I PROVE x <= y
  <2>1. x \in Nat /\ y \in Nat
    OBVIOUS
  <2>2. ~ (<<y, x>> \in R)
    BY <1>2
  <2>3. ~ (y < x)
    BY <2>1, <2>2
  <2>. QED
    BY <2>1, <2>3
<1>. QED
  BY <1>3 DEF Min

\* What SelectInSeq gives, in terms of the set of matching positions.
LEMMA FirstOrZero ==
    ASSUME NEW n \in Nat, NEW I \in SUBSET (1..n),
           NEW m, m = IF I # {} THEN Min(I) ELSE 0
    PROVE  /\ m \in 0..n
           /\ m = 0 <=> I = {}
           /\ m # 0 => m \in I /\ \A i \in I : m <= i
<1>1. CASE I = {}
  BY <1>1
<1>2. CASE I # {}
  <2>1. I \in SUBSET Nat
    OBVIOUS
  <2>2. m \in I /\ \A i \in I : m <= i
    BY <1>2, <2>1, MinOfNats
  <2>3. m \in 1..n
    BY <2>2
  <2>. QED
    BY <1>2, <2>2, <2>3
<1>. QED
  BY <1>1, <1>2

\* An element put in front moves the others back by one.
LEMMA ConsProperties ==
    ASSUME NEW S, NEW seq \in Seq(S), NEW x \in S
    PROVE  /\ Cons(x, seq) \in Seq(S)
           /\ Len(Cons(x, seq)) = Len(seq) + 1
           /\ DOMAIN Cons(x, seq) = 1..(Len(seq) + 1)
           /\ Cons(x, seq)[1] = x
           /\ \A i \in 2..(Len(seq) + 1) : i - 1 \in 1..Len(seq)
                                          /\ Cons(x, seq)[i] = seq[i - 1]
<1>1. <<x>> \in Seq(S) /\ Len(<<x>>) = 1 /\ <<x>>[1] = x
  OBVIOUS
<1>2. Len(seq) \in Nat
  BY LenProperties
<1>3. /\ Cons(x, seq) \in Seq(S)
      /\ Len(Cons(x, seq)) = 1 + Len(seq)
      /\ \A i \in 1..(1 + Len(seq)) :
           Cons(x, seq)[i] = IF i <= 1 THEN <<x>>[i] ELSE seq[i - 1]
  BY <1>1, <1>2, ConcatProperties DEF Cons
<1>4. DOMAIN Cons(x, seq) = 1..(Len(seq) + 1)
  BY <1>2, <1>3, LenProperties
<1>. QED
  BY <1>1, <1>2, <1>3, <1>4
====
