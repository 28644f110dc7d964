----------------------------- MODULE FoldingProofs -----------------------------
(***************************************************************************)
(* Induction, and what folds compute.  The provers have no rule of         *)
(* induction for operators; here it is about a set of numbers or of        *)
(* sequences, which needs only that every set of naturals has a least      *)
(* element.                                                                *)
(***************************************************************************)
EXTENDS Folding, SequenceTheorems, WellFoundedInduction, TLAPS

-----------------------------------------------------------------------------
(* Induction.                                                              *)

LEMMA LeastNumber ==
    ASSUME NEW T \in SUBSET Nat, T # {}
    PROVE  \E n \in T : \A m \in T : n <= m
<1> DEFINE R == OpToRel(<, Nat)
<1>1. IsWellFoundedOn(R, Nat)
  BY NatLessThanWellFounded
<1>2. \A x \in Nat, y \in Nat : y < x => <<y, x>> \in R
  BY DEF OpToRel
<1> HIDE DEF R
<1>3. PICK x \in T : \A y \in T : ~ (<<y, x>> \in R)
  BY <1>1, WFMin
<1>4. \A y \in T : ~ (y < x)
  BY <1>2, <1>3
<1>5. QED
  BY <1>4

\* Numbers up to k, or all of them.
LEMMA Induction ==
    ASSUME NEW T \in SUBSET Nat, 0 \in T, \A n \in T : n + 1 \in T
    PROVE  T = Nat
<1> SUFFICES ASSUME Nat \ T # {} PROVE FALSE
  OBVIOUS
<1>1. PICK n \in Nat \ T : \A m \in Nat \ T : n <= m
  BY LeastNumber
<1>2. n - 1 \in Nat /\ n - 1 \notin Nat \ T
  BY <1>1
<1>3. QED
  BY <1>1, <1>2

LEMMA InductionUpTo ==
    ASSUME NEW k \in Nat, NEW T, 0 \in T, \A n \in 0..k : n \in T /\ n < k => n + 1 \in T
    PROVE  \A n \in 0..k : n \in T
<1> DEFINE U == {n \in Nat : n <= k => n \in T}
<1>1. 0 \in U
  OBVIOUS
<1>2. \A n \in U : n + 1 \in U
  OBVIOUS
<1>3. U \in SUBSET Nat
  OBVIOUS
<1> HIDE DEF U
<1>4. U = Nat
  BY <1>1, <1>2, <1>3, Induction
<1>5. QED
  BY <1>4 DEF U

\* Sequences grow from the empty one, element by element.
LEMMA SequenceInduction ==
    ASSUME NEW S, NEW T \in SUBSET Seq(S), <<>> \in T,
           \A s \in T, x \in S : Append(s, x) \in T
    PROVE  T = Seq(S)
<1> DEFINE N == {n \in Nat : \A s \in Seq(S) : Len(s) = n => s \in T}
<1>1. 0 \in N
  <2>1. \A s \in Seq(S) : Len(s) = 0 => s = <<>>
    OBVIOUS
  <2>2. QED
    BY <2>1
<1>2. ASSUME NEW n \in N PROVE n + 1 \in N
  <2>1. SUFFICES ASSUME NEW s \in Seq(S), Len(s) = n + 1 PROVE s \in T
    OBVIOUS
  <2>2. s # <<>>
    BY <2>1
  <2>3. PICK front \in Seq(S), x \in S : s = Append(front, x)
    BY <2>2, SequenceEmptyOrAppend
  <2>4. Len(front) = n
    BY <2>1, <2>3, AppendProperties
  <2>5. QED
    BY <2>3, <2>4
<1>3. N \in SUBSET Nat
  OBVIOUS
<1> HIDE DEF N
<1>4. N = Nat
  BY <1>1, <1>2, <1>3, Induction
<1>5. \A n \in Nat : \A s \in Seq(S) : Len(s) = n => s \in T
  BY <1>4 DEF N
<1>6. QED
  BY <1>5

-----------------------------------------------------------------------------
(* Folds.                                                                  *)

\* What a fold makes of the first n elements.
IsFold(made, step, base, s) ==
    made = [n \in 0..Len(s) |-> IF n = 0 THEN base ELSE Taking(step, made[n - 1], s[n])]

LEMMA FoldSteps ==
    ASSUME NEW step, NEW base, NEW S, NEW s \in Seq(S), NEW made, IsFold(made, step, base, s)
    PROVE  /\ made[0] = base
           /\ \A n \in 1..Len(s) : made[n] = Taking(step, made[n - 1], s[n])
<1>1. \A n \in 0..Len(s) : made[n] = IF n = 0 THEN base ELSE Taking(step, made[n - 1], s[n])
  BY DEF IsFold
<1>2. 0 \in 0..Len(s) /\ \A n \in 1..Len(s) : n \in 0..Len(s) /\ n # 0
  OBVIOUS
<1>3. made[0] = base
  BY <1>1, <1>2
<1>4. ASSUME NEW n \in 1..Len(s) PROVE made[n] = Taking(step, made[n - 1], s[n])
  BY <1>1, <1>2
<1>5. QED
  BY <1>3, <1>4

LEMMA FoldExists ==
    ASSUME NEW step, NEW base, NEW S, NEW s \in Seq(S)
    PROVE  \E made : IsFold(made, step, base, s)
<1> DEFINE T == {k \in Nat : k <= Len(s) =>
                   \E f : f = [n \in 0..k |-> IF n = 0 THEN base ELSE Taking(step, f[n - 1], s[n])]}
<1>1. 0 \in T
  <2> DEFINE f == [n \in 0..0 |-> base]
  <2>1. f = [n \in 0..0 |-> IF n = 0 THEN base ELSE Taking(step, f[n - 1], s[n])]
    OBVIOUS
  <2> HIDE DEF f
  <2>2. QED
    BY <2>1
<1>2. ASSUME NEW k \in T PROVE k + 1 \in T
  <2> SUFFICES ASSUME k + 1 <= Len(s)
               PROVE  \E f : f = [n \in 0..(k + 1) |->
                                    IF n = 0 THEN base ELSE Taking(step, f[n - 1], s[n])]
    OBVIOUS
  <2>1. PICK f : f = [n \in 0..k |-> IF n = 0 THEN base ELSE Taking(step, f[n - 1], s[n])]
    OBVIOUS
  <2> DEFINE g == [n \in 0..(k + 1) |-> IF n <= k THEN f[n] ELSE Taking(step, f[k], s[k + 1])]
  <2>2. \A n \in 0..(k + 1) : g[n] = IF n = 0 THEN base ELSE Taking(step, g[n - 1], s[n])
    <3>1. g[0] = base
      BY <2>1
    <3>2. \A n \in 1..k : g[n] = Taking(step, f[n - 1], s[n]) /\ g[n - 1] = f[n - 1]
      <4>1. \A n \in 1..k : f[n] = Taking(step, f[n - 1], s[n])
        BY <2>1
      <4>2. QED
        BY <4>1
    <3>3. g[k + 1] = Taking(step, f[k], s[k + 1]) /\ g[k] = f[k]
      OBVIOUS
    <3> HIDE DEF g
    <3>4. \A n \in 0..(k + 1) : n = 0 \/ n \in 1..k \/ n = k + 1
      OBVIOUS
    <3>5. \A n \in 1..(k + 1) : g[n] = Taking(step, g[n - 1], s[n])
      <4>1. k + 1 - 1 = k
        OBVIOUS
      <4>2. \A n \in 1..k : g[n] = Taking(step, g[n - 1], s[n])
        BY <3>2
      <4>3. g[k + 1] = Taking(step, g[k + 1 - 1], s[k + 1])
        BY <3>3, <4>1
      <4>4. QED
        BY <3>4, <4>2, <4>3
    <3>6. QED
      BY <3>1, <3>4, <3>5
  <2>3. g = [n \in 0..(k + 1) |-> g[n]]
    OBVIOUS
  <2> HIDE DEF g
  <2>4. g = [n \in 0..(k + 1) |-> IF n = 0 THEN base ELSE Taking(step, g[n - 1], s[n])]
    BY <2>2, <2>3
  <2>5. QED
    BY <2>4
<1>3. T \in SUBSET Nat
  OBVIOUS
<1> HIDE DEF T
<1>4. T = Nat
  BY <1>1, <1>2, <1>3, Induction
<1>5. Len(s) \in Nat /\ Len(s) <= Len(s)
  OBVIOUS
<1>6. \E f : f = [n \in 0..Len(s) |-> IF n = 0 THEN base ELSE Taking(step, f[n - 1], s[n])]
  BY <1>4, <1>5 DEF T
<1>7. QED
  BY <1>6 DEF IsFold

LEMMA FoldUnfolds ==
    ASSUME NEW step, NEW base, NEW S, NEW s \in Seq(S)
    PROVE  \E made : IsFold(made, step, base, s) /\ Fold(step, base, s) = made[Len(s)]
<1> DEFINE made == CHOOSE f : IsFold(f, step, base, s)
<1>1. IsFold(made, step, base, s)
  BY FoldExists
<1>2. Fold(step, base, s) = made[Len(s)]
  BY DEF Fold, IsFold
<1>3. QED
  BY <1>1, <1>2

LEMMA FoldEmpty ==
    ASSUME NEW step, NEW base
    PROVE  Fold(step, base, <<>>) = base
<1>1. <<>> \in Seq({}) /\ Len(<<>>) = 0
  OBVIOUS
<1>2. PICK made : IsFold(made, step, base, <<>>) /\ Fold(step, base, <<>>) = made[0]
  BY <1>1, FoldUnfolds
<1>3. QED
  BY <1>1, <1>2 DEF IsFold

\* A fold takes the last element last.
LEMMA FoldAppend ==
    ASSUME NEW step, NEW base, NEW S, NEW s \in Seq(S), NEW x \in S
    PROVE  Fold(step, base, Append(s, x)) = Taking(step, Fold(step, base, s), x)
<1> DEFINE t == Append(s, x)
<1>1. /\ t \in Seq(S) /\ Len(s) \in Nat /\ Len(t) = Len(s) + 1
      /\ t[Len(s) + 1] = x
      /\ \A n \in 1..Len(s) : t[n] = s[n]
  OBVIOUS
<1> HIDE DEF t
<1>2. PICK f : IsFold(f, step, base, s) /\ Fold(step, base, s) = f[Len(s)]
  BY FoldUnfolds
<1>3. PICK g : IsFold(g, step, base, t) /\ Fold(step, base, t) = g[Len(t)]
  BY <1>1, FoldUnfolds
<1>4. /\ f[0] = base
      /\ \A n \in 1..Len(s) : f[n] = Taking(step, f[n - 1], s[n])
  BY <1>2, FoldSteps
<1>5. /\ g[0] = base
      /\ \A n \in 1..Len(t) : g[n] = Taking(step, g[n - 1], t[n])
  BY <1>1, <1>3, FoldSteps
<1>6. \A n \in 0..Len(s) : g[n] = f[n]
  <2> DEFINE T == {n \in 0..Len(s) : g[n] = f[n]}
  <2>1. 0 \in T
    BY <1>1, <1>4, <1>5
  <2>2. ASSUME NEW n \in 0..Len(s), n \in T, n < Len(s) PROVE n + 1 \in T
    <3>1. n + 1 \in 1..Len(s) /\ n + 1 \in 1..Len(t) /\ n + 1 - 1 = n /\ n + 1 \in 0..Len(s)
      BY <1>1, <2>2
    <3>2. f[n + 1] = Taking(step, f[n], s[n + 1])
      BY <1>4, <3>1
    <3>3. g[n + 1] = Taking(step, g[n], t[n + 1])
      BY <1>5, <3>1
    <3>4. QED
      BY <1>1, <2>2, <3>1, <3>2, <3>3
  <2> HIDE DEF T
  <2>3. \A n \in 0..Len(s) : n \in T
    BY <1>1, <2>1, <2>2, InductionUpTo
  <2>4. QED
    BY <2>3 DEF T
<1>7. g[Len(t)] = Taking(step, g[Len(s)], x)
  BY <1>1, <1>5
<1>8. QED
  BY <1>1, <1>2, <1>3, <1>6, <1>7 DEF t

\* What holds of the base and is kept by every step holds of the fold.
LEMMA FoldInvariant ==
    ASSUME NEW step, NEW S, NEW T, NEW base \in T,
           \A r \in T, x \in S : Taking(step, r, x) \in T
    PROVE  \A s \in Seq(S) : Fold(step, base, s) \in T
<1> DEFINE U == {s \in Seq(S) : Fold(step, base, s) \in T}
<1>1. <<>> \in U
  BY FoldEmpty
<1>2. ASSUME NEW s \in U, NEW x \in S PROVE Append(s, x) \in U
  <2>1. s \in Seq(S) /\ Append(s, x) \in Seq(S)
    OBVIOUS
  <2>2. Fold(step, base, Append(s, x)) = Taking(step, Fold(step, base, s), x)
    BY <2>1, FoldAppend
  <2>3. QED
    BY <2>1, <2>2
<1>3. U \in SUBSET Seq(S)
  OBVIOUS
<1> HIDE DEF U
<1>4. U = Seq(S)
  BY <1>1, <1>2, <1>3, SequenceInduction
<1>5. QED
  BY <1>4 DEF U

\* Folding one sequence and then another is folding both in one.
LEMMA FoldConcat ==
    ASSUME NEW step, NEW base, NEW S, NEW s \in Seq(S)
    PROVE  \A t \in Seq(S) :
               Fold(step, base, s \o t) = Fold(step, Fold(step, base, s), t)
<1> DEFINE U == {t \in Seq(S) : Fold(step, base, s \o t) = Fold(step, Fold(step, base, s), t)}
<1>1. <<>> \in U
  <2>1. s \o <<>> = s
    BY ConcatEmptySeq
  <2>2. QED
    BY <2>1, FoldEmpty, EmptySeq
<1>2. ASSUME NEW t \in U, NEW x \in S PROVE Append(t, x) \in U
  <2>1. t \in Seq(S) /\ s \o t \in Seq(S) /\ Append(t, x) \in Seq(S)
    OBVIOUS
  <2>2. s \o Append(t, x) = Append(s \o t, x)
    BY <2>1
  <2>3. Fold(step, base, Append(s \o t, x)) = Taking(step, Fold(step, base, s \o t), x)
    <3> DEFINE st == s \o t
    <3>1. st \in Seq(S)
      BY <2>1
    <3> HIDE DEF st
    <3>2. Fold(step, base, Append(st, x)) = Taking(step, Fold(step, base, st), x)
      BY <3>1, FoldAppend
    <3>3. QED
      BY <3>2 DEF st
  <2>4. Fold(step, Fold(step, base, s), Append(t, x))
          = Taking(step, Fold(step, Fold(step, base, s), t), x)
    BY <2>1, FoldAppend
  <2>5. QED
    BY <2>1, <2>2, <2>3, <2>4
<1>3. U \in SUBSET Seq(S)
  OBVIOUS
<1> HIDE DEF U
<1>4. U = Seq(S)
  BY <1>1, <1>2, <1>3, SequenceInduction
<1>5. QED
  BY <1>4 DEF U

-----------------------------------------------------------------------------
(* Concatenations: a name for \o, which the provers then do not take apart. *)

Longer(s, t) == s \o t

LEMMA LongerFacts ==
    ASSUME NEW S, NEW s \in Seq(S), NEW t \in Seq(S)
    PROVE  /\ Longer(s, t) \in Seq(S)
           /\ Longer(s, <<>>) = s /\ Longer(<<>>, s) = s
           /\ \A u \in Seq(S) : Longer(Longer(s, t), u) = Longer(s, Longer(t, u))
<1>1. s \o t \in Seq(S)
  BY ConcatProperties
<1>2. s \o <<>> = s /\ <<>> \o s = s
  BY ConcatEmptySeq
<1>3. ASSUME NEW u \in Seq(S) PROVE (s \o t) \o u = s \o (t \o u)
  BY ConcatAssociative
<1>4. QED
  BY <1>1, <1>2, <1>3 DEF Longer

LEMMA LongerElements ==
    ASSUME NEW S, NEW s \in Seq(S), NEW t \in Seq(S)
    PROVE  /\ Longer(s, t) \in Seq(S) /\ Len(Longer(s, t)) = Len(s) + Len(t)
           /\ \A i \in 1..(Len(s) + Len(t)) :
                  Longer(s, t)[i] = IF i <= Len(s) THEN s[i] ELSE t[i - Len(s)]
BY ConcatProperties DEF Longer

LEMMA OneFacts ==
    ASSUME NEW S, NEW s \in Seq(S), NEW x \in S
    PROVE  <<x>> \in Seq(S) /\ Append(s, x) = Longer(s, <<x>>)
<1>1. <<x>> \in Seq(S)
  OBVIOUS
<1>2. Append(s, x) = s \o <<x>>
  OBVIOUS
<1>3. QED
  BY <1>1, <1>2 DEF Longer

\* What a concatenation makes of the first n sequences.
IsFlat(out, seqs) ==
    out = [n \in 0..Len(seqs) |-> IF n = 0 THEN <<>> ELSE Longer(out[n - 1], seqs[n])]

LEMMA FlatExists ==
    ASSUME NEW S, NEW seqs \in Seq(S)
    PROVE  \E out : IsFlat(out, seqs)
<1> DEFINE T == {k \in Nat : k <= Len(seqs) =>
                   \E f : f = [n \in 0..k |-> IF n = 0 THEN <<>> ELSE Longer(f[n - 1], seqs[n])]}
<1>1. 0 \in T
  <2> DEFINE f == [n \in 0..0 |-> <<>>]
  <2>1. f = [n \in 0..0 |-> IF n = 0 THEN <<>> ELSE Longer(f[n - 1], seqs[n])]
    OBVIOUS
  <2> HIDE DEF f
  <2>2. QED
    BY <2>1
<1>2. ASSUME NEW k \in T PROVE k + 1 \in T
  <2> SUFFICES ASSUME k + 1 <= Len(seqs)
               PROVE  \E f : f = [n \in 0..(k + 1) |->
                                    IF n = 0 THEN <<>> ELSE Longer(f[n - 1], seqs[n])]
    OBVIOUS
  <2>1. PICK f : f = [n \in 0..k |-> IF n = 0 THEN <<>> ELSE Longer(f[n - 1], seqs[n])]
    OBVIOUS
  <2> DEFINE g == [n \in 0..(k + 1) |-> IF n <= k THEN f[n] ELSE Longer(f[k], seqs[k + 1])]
  <2>2. \A n \in 0..(k + 1) : g[n] = IF n = 0 THEN <<>> ELSE Longer(g[n - 1], seqs[n])
    <3>1. g[0] = <<>>
      BY <2>1
    <3>2. \A n \in 1..k : g[n] = Longer(f[n - 1], seqs[n]) /\ g[n - 1] = f[n - 1]
      <4>1. \A n \in 1..k : f[n] = Longer(f[n - 1], seqs[n])
        BY <2>1
      <4>2. QED
        BY <4>1
    <3>3. g[k + 1] = Longer(f[k], seqs[k + 1]) /\ g[k] = f[k]
      OBVIOUS
    <3> HIDE DEF g
    <3>4. \A n \in 0..(k + 1) : n = 0 \/ n \in 1..k \/ n = k + 1
      OBVIOUS
    <3>5. \A n \in 1..(k + 1) : g[n] = Longer(g[n - 1], seqs[n])
      <4>1. k + 1 - 1 = k
        OBVIOUS
      <4>2. \A n \in 1..k : g[n] = Longer(g[n - 1], seqs[n])
        BY <3>2
      <4>3. g[k + 1] = Longer(g[k + 1 - 1], seqs[k + 1])
        BY <3>3, <4>1
      <4>4. QED
        BY <3>4, <4>2, <4>3
    <3>6. QED
      BY <3>1, <3>4, <3>5
  <2>3. g = [n \in 0..(k + 1) |-> g[n]]
    OBVIOUS
  <2> HIDE DEF g
  <2>4. g = [n \in 0..(k + 1) |-> IF n = 0 THEN <<>> ELSE Longer(g[n - 1], seqs[n])]
    BY <2>2, <2>3
  <2>5. QED
    BY <2>4
<1>3. T \in SUBSET Nat
  OBVIOUS
<1> HIDE DEF T
<1>4. T = Nat
  BY <1>1, <1>2, <1>3, Induction
<1>5. Len(seqs) \in Nat /\ Len(seqs) <= Len(seqs)
  OBVIOUS
<1>6. \E f : f = [n \in 0..Len(seqs) |-> IF n = 0 THEN <<>> ELSE Longer(f[n - 1], seqs[n])]
  BY <1>4, <1>5 DEF T
<1>7. QED
  BY <1>6 DEF IsFlat

\* The parts of a concatenation, from left to right.
Parts(out, seqs) ==
    /\ out[0] = <<>>
    /\ \A n \in 1..Len(seqs) : out[n] = Longer(out[n - 1], seqs[n])
    /\ Flat(seqs) = out[Len(seqs)]

LEMMA FlatParts ==
    ASSUME NEW S, NEW seqs \in Seq(Seq(S))
    PROVE  \E out \in [0..Len(seqs) -> Seq(S)] : Parts(out, seqs)
<1> DEFINE out == CHOOSE f : IsFlat(f, seqs)
           k == Len(seqs)
<1>1. IsFlat(out, seqs)
  BY FlatExists
<1>2. Flat(seqs) = out[Len(seqs)]
  BY DEF Flat, IsFlat, Longer
<1> HIDE DEF out
<1>3. out = [n \in 0..k |-> IF n = 0 THEN <<>> ELSE Longer(out[n - 1], seqs[n])]
  BY <1>1 DEF IsFlat
<1>4. k \in Nat /\ \A n \in 1..k : seqs[n] \in Seq(S)
  BY ElementOfSeq
<1> HIDE DEF k
<1>5. out[0] = <<>>
  BY <1>3, <1>4
<1>6. \A n \in 1..k : out[n] = Longer(out[n - 1], seqs[n])
  <2>1. \A n \in 0..k : out[n] = IF n = 0 THEN <<>> ELSE Longer(out[n - 1], seqs[n])
    BY <1>3
  <2>2. \A n \in 1..k : n \in 0..k /\ n # 0
    BY <1>4
  <2>3. QED
    BY <2>1, <2>2
<1>7. \A n \in 0..k : out[n] \in Seq(S)
  <2> DEFINE T == {n \in 0..k : out[n] \in Seq(S)}
  <2>1. 0 \in T
    <3>1. out[0] \in Seq(S) /\ 0 \in 0..k
      BY <1>4, <1>5, EmptySeq
    <3>2. QED
      BY <3>1
  <2>2. ASSUME NEW n \in 0..k, n \in T, n < k PROVE n + 1 \in T
    <3>1. n + 1 \in 1..k /\ n + 1 - 1 = n /\ n + 1 \in 0..k
      BY <1>4, <2>2
    <3>2. out[n + 1] = Longer(out[n], seqs[n + 1]) /\ seqs[n + 1] \in Seq(S) /\ out[n] \in Seq(S)
      BY <1>4, <1>6, <2>2, <3>1
    <3>3. out[n + 1] \in Seq(S)
      BY <3>2, ConcatProperties DEF Longer
    <3>4. QED
      BY <3>1, <3>3
  <2> HIDE DEF T
  <2>3. \A n \in 0..k : n \in T
    BY <1>4, <2>1, <2>2, InductionUpTo
  <2>4. QED
    BY <2>3 DEF T
<1>8. out \in [0..k -> Seq(S)]
  BY <1>3, <1>7
<1>9. QED
  BY <1>2, <1>5, <1>6, <1>8 DEF Parts, k

LEMMA FlatInSeq ==
    ASSUME NEW S, NEW seqs \in Seq(Seq(S))
    PROVE  Flat(seqs) \in Seq(S)
<1>1. PICK out \in [0..Len(seqs) -> Seq(S)] : Parts(out, seqs)
  BY FlatParts
<1>2. Len(seqs) \in 0..Len(seqs)
  OBVIOUS
<1>3. QED
  BY <1>1, <1>2 DEF Parts

\* A table of values at 1..n is a sequence.
LEMMA TableIsSeq ==
    ASSUME NEW S, NEW n \in Nat, NEW f, f = [i \in 1..n |-> f[i]], \A i \in 1..n : f[i] \in S
    PROVE  f \in Seq(S) /\ Len(f) = n
<1>1. f \in [1..n -> S]
  OBVIOUS
<1>2. f \in Seq(S)
  BY <1>1, SeqDef
<1>3. QED
  BY <1>1, <1>2

\* The last sequence comes last.
LEMMA FlatOne ==
    ASSUME NEW S, NEW seqs \in Seq(Seq(S)), Len(seqs) = 1
    PROVE  Flat(seqs) = seqs[1]
<1>1. seqs[1] \in Seq(S)
  BY ElementOfSeq
<1>2. PICK out \in [0..Len(seqs) -> Seq(S)] : Parts(out, seqs)
  BY FlatParts
<1>3. Flat(seqs) = out[1] /\ out[1] = Longer(out[1 - 1], seqs[1]) /\ out[0] = <<>>
  BY <1>2 DEF Parts
<1>4. Flat(seqs) = Longer(<<>>, seqs[1])
  <2>1. 1 - 1 = 0
    OBVIOUS
  <2>2. QED
    BY <1>3, <2>1
<1>5. QED
  BY <1>1, <1>4, LongerFacts
===============================================================================
