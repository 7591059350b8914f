------------------------------ MODULE DataFacts ------------------------------
(***************************************************************************)
(* Facts about numbers, finite sets, sums and sequences that several       *)
(* proofs need, and that the library does not have.  Induction is stated   *)
(* with the set of the numbers, or of the sets, that have the property:    *)
(* the library's theorems of induction take a predicate as a parameter,    *)
(* these do not.  They follow from well-foundedness, and recursion and the *)
(* number theory behind RSA, up to Fermat's little theorem, from them.     *)
(***************************************************************************)
EXTENDS SequencesExt, FiniteSetTheorems, WellFoundedInduction, TLAPS

-----------------------------------------------------------------------------
(* Induction *)

\* A set of numbers has a least one, unless it is empty.
LEMMA LeastNumber ==
  ASSUME NEW S \in SUBSET Nat, S # {}
  PROVE  \E n \in S : \A m \in S : n <= m
<1>1. PICK n \in S : \A m \in S : ~(<<m, n>> \in OpToRel(<, Nat))
  BY WFMin, NatLessThanWellFounded
<1>2. \A m \in S : ~(m < n)
  BY <1>1 DEF OpToRel
<1> QED
  BY <1>2

\* What holds of 0, and of n + 1 when it holds of n, holds of every number.
LEMMA Induction ==
  ASSUME NEW S, 0 \in S, \A n \in Nat : n \in S => n + 1 \in S
  PROVE  \A n \in Nat : n \in S
<1> SUFFICES ASSUME Nat \ S # {} PROVE FALSE
  OBVIOUS
<1>1. PICK n \in Nat \ S : \A m \in Nat \ S : n <= m
  BY LeastNumber
<1> QED
  BY <1>1

\* What holds of a number when it holds of all smaller ones holds of every number.
LEMMA StrongInduction ==
  ASSUME NEW S, \A n \in Nat : (\A m \in Nat : m < n => m \in S) => n \in S
  PROVE  \A n \in Nat : n \in S
<1> SUFFICES ASSUME Nat \ S # {} PROVE FALSE
  OBVIOUS
<1>1. PICK n \in Nat \ S : \A m \in Nat \ S : n <= m
  BY LeastNumber
<1> QED
  BY <1>1

\* What holds of {} and of a set when it holds of the set without any one element holds of every
\* subset of a finite set.
LEMMA SetInduction ==
  ASSUME NEW S, IsFiniteSet(S), NEW X, {} \in X,
         \A T \in SUBSET S : (\A x \in T : T \ {x} \in X) => T \in X
  PROVE  \A T \in SUBSET S : T \in X
<1> SUFFICES ASSUME (SUBSET S) \ X # {} PROVE FALSE
  OBVIOUS
<1>1. (SUBSET S) \ X \subseteq FiniteSubsetsOf(S)
  BY FS_FiniteSubsetsOfFinite
<1>2. PICK T \in (SUBSET S) \ X : \A U \in (SUBSET S) \ X : ~(<<U, T>> \in StrictSubsetOrdering(S))
  <2> DEFINE B == (SUBSET S) \ X
             R == StrictSubsetOrdering(S)
             F == FiniteSubsetsOf(S)
  <2>1. IsWellFoundedOn(R, F)
    BY FS_StrictSubsetOrderingWellFounded
  <2>2. B \subseteq F /\ B # {}
    BY <1>1
  <2>3. \E T \in B : \A U \in B : ~(<<U, T>> \in R)
    <3> HIDE DEF B, R, F
    <3> QED
      BY <2>1, <2>2, WFMin
  <2> QED
    BY <2>3
<1>3. ASSUME NEW x \in T PROVE T \ {x} \in X
  <2>1. T \ {x} \in SUBSET S /\ T \ {x} \subseteq T /\ T \ {x} # T
    BY <1>3
  <2>2. <<T \ {x}, T>> \in StrictSubsetOrdering(S)
    BY <1>2, <2>1 DEF StrictSubsetOrdering
  <2> QED
    BY <1>2, <2>1, <2>2
<1> QED
  BY <1>2, <1>3

-----------------------------------------------------------------------------
\* The function that folds over sets are defined by.
FoldsOver(h, D, f, op, base) ==
  \A s \in D : h[s] = IF s = {} THEN base
                      ELSE LET x == CHOOSE y \in s : TRUE IN op[<<f[x], h[s \ {x}]>>]

\* There is such a function.
LEMMA FoldExists ==
  ASSUME NEW S, IsFiniteSet(S), NEW V, NEW f \in [S -> V], NEW op \in [V \X V -> V], NEW base \in V
  PROVE  \E h \in [SUBSET S -> V] : FoldsOver(h, SUBSET S, f, op, base)
<1> DEFINE D(n) == {s \in SUBSET S : Cardinality(s) <= n}
           Good == {n \in Nat : \E h \in [D(n) -> V] : FoldsOver(h, D(n), f, op, base)}
<1>0. \A s \in SUBSET S : IsFiniteSet(s) /\ Cardinality(s) \in Nat /\ (Cardinality(s) = 0 <=> s = {})
  BY FS_Subset, FS_CardinalityType, FS_EmptySet
<1>1. 0 \in Good
  <2> DEFINE h == [s \in D(0) |-> base]
  <2>1. h \in [D(0) -> V]
    OBVIOUS
  <2>2. FoldsOver(h, D(0), f, op, base)
    <3>1. \A s \in D(0) : s = {} /\ h[s] = base
      BY <1>0
    <3> QED
      BY <3>1 DEF FoldsOver
  <2> HIDE DEF h
  <2> QED
    BY <2>1, <2>2
<1>2. ASSUME NEW n \in Nat, n \in Good PROVE n + 1 \in Good
  <2>1. PICK h \in [D(n) -> V] : FoldsOver(h, D(n), f, op, base)
    BY <1>2
  <2> DEFINE k == [s \in D(n + 1) |-> IF s = {} THEN base
                                       ELSE LET x == CHOOSE y \in s : TRUE IN op[<<f[x], h[s \ {x}]>>]]
  <2>2. ASSUME NEW s \in D(n + 1), s # {}
        PROVE  LET x == CHOOSE y \in s : TRUE IN x \in s /\ s \ {x} \in D(n) /\ s \ {x} \in D(n + 1)
    <3> DEFINE x == CHOOSE y \in s : TRUE
    <3>1. x \in s
      BY <2>2
    <3> HIDE DEF x
    <3>2. Cardinality(s \ {x}) = Cardinality(s) - 1
      BY <1>0, <3>1, FS_RemoveElement
    <3> QED
      BY <1>0, <3>1, <3>2 DEF x
  <2>3. k \in [D(n + 1) -> V]
    <3> SUFFICES ASSUME NEW s \in D(n + 1), s # {}
                 PROVE LET x == CHOOSE y \in s : TRUE IN op[<<f[x], h[s \ {x}]>>] \in V
      OBVIOUS
    <3> DEFINE x == CHOOSE y \in s : TRUE
    <3>1. x \in S /\ s \ {x} \in D(n)
      BY <2>2
    <3> HIDE DEF x, D
    <3>2. f[x] \in V /\ h[s \ {x}] \in V
      BY <3>1
    <3> QED
      BY <3>2 DEF x
  <2>4. \A s \in D(n) : k[s] = h[s]
    <3> SUFFICES ASSUME NEW s \in D(n) PROVE k[s] = h[s]
      OBVIOUS
    <3>1. s \in D(n + 1)
      BY <1>0
    <3> HIDE DEF D
    <3> QED
      BY <2>1, <3>1 DEF FoldsOver
  <2>5. FoldsOver(k, D(n + 1), f, op, base)
    <3> SUFFICES ASSUME NEW s \in D(n + 1)
                 PROVE  k[s] = IF s = {} THEN base
                               ELSE LET x == CHOOSE y \in s : TRUE IN op[<<f[x], k[s \ {x}]>>]
      BY DEF FoldsOver
    <3> DEFINE x == CHOOSE y \in s : TRUE
    <3>1. s # {} => s \ {x} \in D(n)
      BY <2>2
    <3>2. s # {} => k[s \ {x}] = h[s \ {x}]
      BY <2>4, <3>1
    <3>3. k[s] = IF s = {} THEN base ELSE op[<<f[x], h[s \ {x}]>>]
      OBVIOUS
    <3> HIDE DEF D, x, k
    <3>4. k[s] = IF s = {} THEN base ELSE op[<<f[x], k[s \ {x}]>>]
      BY <3>2, <3>3
    <3> QED
      BY <3>4 DEF x
  <2> HIDE DEF k, D
  <2> QED
    BY <2>3, <2>5
<1>3. \A n \in Nat : n \in Good
  <2> HIDE DEF Good
  <2> QED
    BY <1>1, <1>2, Induction
<1>4. D(Cardinality(S)) = SUBSET S /\ Cardinality(S) \in Nat
  BY <1>0, FS_Subset
<1> QED
  BY <1>3, <1>4

\* A fold over the elements of a finite set, as the community modules define it, is a
\* function that folds all subsets.
LEMMA FoldFunctionSolves ==
  ASSUME NEW S, IsFiniteSet(S), NEW f \in [S -> Int]
  PROVE  \E h : /\ \A s \in SUBSET S : h[s] = IF s = {} THEN 0
                                              ELSE LET x == CHOOSE y \in s : TRUE IN f[x] + h[s \ {x}]
                /\ SumFunction(f) = h[S]
<1> DEFINE plus == [p \in Int \X Int |-> p[1] + p[2]]
           Solves(h) == h = [s \in SUBSET S |->
                               IF s = {} THEN 0
                               ELSE LET x == CHOOSE y \in s : TRUE IN f[x] + h[s \ {x}]]
<1>1. PICK h \in [SUBSET S -> Int] : FoldsOver(h, SUBSET S, f, plus, 0)
  <2>1. plus \in [Int \X Int -> Int] /\ 0 \in Int
    OBVIOUS
  <2> HIDE DEF plus
  <2> QED
    BY <2>1, FoldExists
<1>2. Solves(h)
  <2> SUFFICES ASSUME NEW s \in SUBSET S
               PROVE  h[s] = IF s = {} THEN 0 ELSE LET x == CHOOSE y \in s : TRUE IN f[x] + h[s \ {x}]
    BY <1>1
  <2> DEFINE x == CHOOSE y \in s : TRUE
  <2>1. s # {} => x \in S
    OBVIOUS
  <2>2. h[s] = IF s = {} THEN 0 ELSE plus[<<f[x], h[s \ {x}]>>]
    BY <1>1 DEF FoldsOver
  <2>3. s # {} => f[x] \in Int /\ h[s \ {x}] \in Int
    BY <2>1, <1>1
  <2> HIDE DEF x
  <2>4. h[s] = IF s = {} THEN 0 ELSE f[x] + h[s \ {x}]
    BY <2>2, <2>3
  <2> QED
    BY <2>4 DEF x
<1> DEFINE g == CHOOSE k : Solves(k)
<1>3. Solves(g)
  BY <1>2
<1>4. SumFunction(f) = g[S]
  BY DEF SumFunction, SumFunctionOnSet, FoldFunctionOnSet, MapThenFoldSet
<1>5. \A s \in SUBSET S : g[s] = IF s = {} THEN 0
                                 ELSE LET x == CHOOSE y \in s : TRUE IN f[x] + g[s \ {x}]
  <2> HIDE DEF g
  <2> QED
    BY <1>3
<1> QED
  BY <1>4, <1>5

\* A sum in which one term is replaced.
\* Where one value of a function changes, its sum changes by the difference.
LEMMA SumUpdate ==
  ASSUME NEW S, IsFiniteSet(S), NEW f \in [S -> Int], NEW t \in S, NEW v \in Int
  PROVE  SumFunction([f EXCEPT ![t] = v]) = SumFunction(f) - f[t] + v
<1> DEFINE g == [f EXCEPT ![t] = v]
<1>0. g \in [S -> Int] /\ g[t] = v /\ \A x \in S \ {t} : g[x] = f[x]
  OBVIOUS
<1>1. PICK F : /\ \A s \in SUBSET S : F[s] = IF s = {} THEN 0
                                            ELSE LET x == CHOOSE y \in s : TRUE IN f[x] + F[s \ {x}]
              /\ SumFunction(f) = F[S]
  BY FoldFunctionSolves
<1> HIDE DEF g
<1>2. PICK G : /\ \A s \in SUBSET S : G[s] = IF s = {} THEN 0
                                            ELSE LET x == CHOOSE y \in s : TRUE IN g[x] + G[s \ {x}]
              /\ SumFunction(g) = G[S]
  BY <1>0, FoldFunctionSolves
<1> DEFINE X == {s \in SUBSET S : /\ F[s] \in Int /\ G[s] \in Int
                                  /\ G[s] = IF t \in s THEN F[s] - f[t] + v ELSE F[s]}
<1>3. {} \in X
  <2>1. F[{}] = 0 /\ G[{}] = 0
    BY <1>1, <1>2
  <2> QED
    BY <2>1
<1>4. ASSUME NEW s \in SUBSET S, \A x \in s : s \ {x} \in X PROVE s \in X
  <2>1. CASE s = {}
    BY <1>3, <2>1
  <2>2. CASE s # {}
    <3> DEFINE x == CHOOSE y \in s : TRUE
    <3>1. x \in s
      BY <2>2
    <3>2. F[s] = f[x] + F[s \ {x}]
      BY <1>1, <2>2
    <3>3. G[s] = g[x] + G[s \ {x}]
      BY <1>2, <2>2
    <3> HIDE DEF x
    <3>4. s \ {x} \in X
      BY <1>4, <3>1
    <3> QED
      BY <1>0, <3>1, <3>2, <3>3, <3>4
  <2> QED
    BY <2>1, <2>2
<1>5. \A s \in SUBSET S : s \in X
  <2> HIDE DEF X
  <2>1. \A T \in SUBSET S : (\A x \in T : T \ {x} \in X) => T \in X
    BY <1>4
  <2> QED
    BY <1>3, <2>1, SetInduction
<1> QED
  BY <1>1, <1>2, <1>5 DEF g

\* A sum of nothing but zeros.
\* The sum of nothing but zeros.
LEMMA SumOfZeros ==
  ASSUME NEW S, IsFiniteSet(S)
  PROVE  SumFunction([x \in S |-> 0]) = 0
<1> DEFINE f == [x \in S |-> 0]
<1>0. f \in [S -> Int]
  OBVIOUS
<1> HIDE DEF f
<1>1. PICK F : /\ \A s \in SUBSET S : F[s] = IF s = {} THEN 0
                                            ELSE LET x == CHOOSE y \in s : TRUE IN f[x] + F[s \ {x}]
              /\ SumFunction(f) = F[S]
  BY <1>0, FoldFunctionSolves
<1> DEFINE X == {s \in SUBSET S : F[s] = 0}
<1>2. {} \in X
  BY <1>1
<1>3. ASSUME NEW s \in SUBSET S, \A x \in s : s \ {x} \in X PROVE s \in X
  <2>1. CASE s # {}
    <3> DEFINE x == CHOOSE y \in s : TRUE
    <3>1. x \in s
      BY <2>1
    <3>2. F[s] = f[x] + F[s \ {x}]
      BY <1>1, <2>1
    <3> HIDE DEF x
    <3>3. F[s \ {x}] = 0 /\ f[x] = 0
      BY <1>3, <3>1 DEF f
    <3> QED
      BY <3>2, <3>3
  <2> QED
    BY <1>2, <2>1
<1>4. \A s \in SUBSET S : s \in X
  <2> HIDE DEF X
  <2>1. \A T \in SUBSET S : (\A x \in T : T \ {x} \in X) => T \in X
    BY <1>3
  <2> QED
    BY <1>2, <2>1, SetInduction
<1> QED
  BY <1>1, <1>4 DEF f

-----------------------------------------------------------------------------
(* Sequences *)

\* Joined(p, q) hides the concatenation from the provers where only its laws count.
Joined(p, q) == p \o q

\* Length(s) hides the length in the same way.
Length(s) == Len(s)

\* Putting sequences together is associative.
LEMMA JoinedFacts ==
  ASSUME NEW S
  PROVE  \A p, q, r \in Seq(S) : Joined(p, q) \in Seq(S) /\ Joined(Joined(p, q), r) = Joined(p, Joined(q, r))
BY DEF Joined

\* The length of two sequences put together.
LEMMA JoinedLength ==
  ASSUME NEW p \in Seq(Nat), NEW q \in Seq(Nat)
  PROVE  Length(Joined(p, q)) = Length(p) + Length(q) /\ Length(p) \in Nat /\ Length(q) \in Nat
BY DEF Joined, Length

\* The lengths of sequences given by their elements.
LEMMA ShortLengths ==
  ASSUME NEW a, NEW b, NEW c, NEW d
  PROVE  /\ Length(<<a>>) = 1 /\ Length(<<a, b>>) = 2 /\ Length(<<a, b, c>>) = 3
         /\ Length(<<a, b, c, d>>) = 4
BY DEF Length

\* Two sequences with the same elements are the same.
LEMMA SameSequence ==
  ASSUME NEW S, NEW s \in Seq(S), NEW t \in Seq(S), Len(s) = Len(t), \A i \in 1..Len(s) : s[i] = t[i]
  PROVE  s = t
OBVIOUS

\* Short sequences, put together.
LEMMA PairJoined ==
  ASSUME NEW a \in Nat, NEW b \in Nat
  PROVE  Joined(<<a>>, <<b>>) = <<a, b>>
<1> DEFINE x == <<a>> \o <<b>>
           y == <<a, b>>
<1>1. x \in Seq(Nat) /\ y \in Seq(Nat) /\ Len(x) = 2 /\ Len(y) = 2
  OBVIOUS
<1>2. x[1] = a /\ x[2] = b
  OBVIOUS
<1>3. \A i \in 1..2 : x[i] = y[i]
  BY <1>2
<1> HIDE DEF x, y
<1>4. x = y
  BY <1>1, <1>3, SameSequence
<1> QED
  BY <1>4 DEF x, y, Joined

LEMMA TripleJoined ==
  ASSUME NEW a \in Nat, NEW b \in Nat, NEW c \in Nat
  PROVE  Joined(<<a>>, <<b, c>>) = <<a, b, c>>
<1> DEFINE x == <<a>> \o <<b, c>>
           y == <<a, b, c>>
<1>1. x \in Seq(Nat) /\ y \in Seq(Nat) /\ Len(x) = 3 /\ Len(y) = 3
  OBVIOUS
<1>2. x[1] = a /\ x[2] = b /\ x[3] = c
  OBVIOUS
<1>3. \A i \in 1..3 : x[i] = y[i]
  BY <1>2
<1> HIDE DEF x, y
<1>4. x = y
  BY <1>1, <1>3, SameSequence
<1> QED
  BY <1>4 DEF x, y, Joined

\* A sequence that begins with the elements of a shorter one has it as a prefix.
LEMMA PrefixByElements ==
  ASSUME NEW S, NEW x \in Seq(S), NEW y \in Seq(S), Len(y) <= Len(x), \A i \in 1..Len(y) : x[i] = y[i]
  PROVE  IsPrefix(y, x)
<1> DEFINE p == SubSeq(x, 1, Len(y))
           q == SubSeq(y, 1, Len(y))
<1>1. p \in Seq(S) /\ Len(p) = Len(y) /\ q \in Seq(S) /\ Len(q) = Len(y)
  OBVIOUS
<1>2. \A i \in 1..Len(y) : p[i] = q[i]
  OBVIOUS
<1> HIDE DEF p, q
<1>3. p = q
  BY <1>1, <1>2, SameSequence
<1> QED
  BY <1>3 DEF p, q, IsPrefix

\* n bytes that are 0.
Nulls(n) == [i \in 1..n |-> 0]

LEMMA NullsFacts ==
  ASSUME NEW n \in Nat
  PROVE  Nulls(n) \in Seq(Nat) /\ Len(Nulls(n)) = n /\ (n > 0 => Nulls(n)[1] = 0) /\ Length(Nulls(n)) = n
BY DEF Nulls, Length

\* A header of three or four bytes, the last of them 0, is a prefix of what begins with
\* those before the last and goes on with zeros.
LEMMA ShortPrefix ==
  ASSUME NEW a \in Nat, NEW b \in Nat, NEW n \in Nat \ {0}
  PROVE  /\ IsPrefix(<<a, b, 0>>, Joined(<<a, b>>, Nulls(n)))
         /\ Length(Joined(<<a, b>>, Nulls(n))) = n + 2
<1> DEFINE x == <<a, b>> \o Nulls(n)
           y == <<a, b, 0>>
<1>1. Nulls(n) \in Seq(Nat) /\ Len(Nulls(n)) = n /\ Nulls(n)[1] = 0
  BY NullsFacts
<1>2. x \in Seq(Nat) /\ Len(x) = n + 2 /\ y \in Seq(Nat) /\ Len(y) = 3
  BY <1>1
<1>3. x[1] = a /\ x[2] = b /\ x[3] = 0 /\ y[1] = a /\ y[2] = b /\ y[3] = 0
  BY <1>1
<1> HIDE DEF x, y
<1>4. \A i \in 1..3 : x[i] = y[i]
  BY <1>3
<1>5. x \in Seq(Nat) /\ y \in Seq(Nat) /\ Len(y) <= Len(x) /\ \A i \in 1..Len(y) : x[i] = y[i]
  BY <1>2, <1>4
<1>6. IsPrefix(y, x)
  BY <1>5, PrefixByElements
<1> QED
  BY <1>2, <1>6 DEF x, y, Joined, Length

LEMMA LongPrefix ==
  ASSUME NEW a \in Nat, NEW b \in Nat, NEW c \in Nat, NEW n \in Nat \ {0}
  PROVE  /\ IsPrefix(<<a, b, c, 0>>, Joined(<<a, b, c>>, Nulls(n)))
         /\ Length(Joined(<<a, b, c>>, Nulls(n))) = n + 3
<1> DEFINE x == <<a, b, c>> \o Nulls(n)
           y == <<a, b, c, 0>>
<1>1. Nulls(n) \in Seq(Nat) /\ Len(Nulls(n)) = n /\ Nulls(n)[1] = 0
  BY NullsFacts
<1>2. x \in Seq(Nat) /\ Len(x) = n + 3 /\ y \in Seq(Nat) /\ Len(y) = 4
  BY <1>1
<1>3. x[1] = a /\ x[2] = b /\ x[3] = c /\ x[4] = 0 /\ y[1] = a /\ y[2] = b /\ y[3] = c /\ y[4] = 0
  BY <1>1
<1> HIDE DEF x, y
<1>4. \A i \in 1..4 : x[i] = y[i]
  BY <1>3
<1>5. x \in Seq(Nat) /\ y \in Seq(Nat) /\ Len(y) <= Len(x) /\ \A i \in 1..Len(y) : x[i] = y[i]
  BY <1>2, <1>4
<1>6. IsPrefix(y, x)
  BY <1>5, PrefixByElements
<1> QED
  BY <1>2, <1>6 DEF x, y, Joined, Length

-----------------------------------------------------------------------------
(* Recursion over the numbers *)

\* The function that starts with base and goes on by step up to n.
Follows(h, base, step, n) ==
  h[0] = base /\ \A k \in Nat : k < n => h[k + 1] = step[<<k, h[k]>>]

Recurs(h, base, step) == h[0] = base /\ \A n \in Nat : h[n + 1] = step[<<n, h[n]>>]

\* A first value and a rule for the next one define a function of the numbers.
LEMMA Recursion ==
  ASSUME NEW V, NEW base \in V, NEW step \in [Nat \X V -> V]
  PROVE  \E f \in [Nat -> V] : Recurs(f, base, step)
<1> DEFINE Good == {n \in Nat : \E h \in [Nat -> V] : Follows(h, base, step, n)}
<1>1. 0 \in Good
  <2> DEFINE h == [n \in Nat |-> base]
  <2>1. h \in [Nat -> V] /\ Follows(h, base, step, 0)
    BY DEF Follows
  <2> HIDE DEF h
  <2> QED
    BY <2>1
<1>2. ASSUME NEW n \in Nat, n \in Good PROVE n + 1 \in Good
  <2>1. PICK h \in [Nat -> V] : Follows(h, base, step, n)
    BY <1>2
  <2> DEFINE k == [h EXCEPT ![n + 1] = step[<<n, h[n]>>]]
  <2>2. k \in [Nat -> V]
    OBVIOUS
  <2>3. \A m \in Nat : m <= n => k[m] = h[m]
    OBVIOUS
  <2>4. k[n + 1] = step[<<n, h[n]>>]
    OBVIOUS
  <2> HIDE DEF k
  <2>5. ASSUME NEW m \in Nat, m < n + 1 PROVE k[m + 1] = step[<<m, k[m]>>]
    <3>1. CASE m = n
      BY <2>3, <2>4, <3>1
    <3>2. CASE m < n
      BY <2>1, <2>3, <3>2 DEF Follows
    <3> QED
      BY <2>5, <3>1, <3>2
  <2>6. Follows(k, base, step, n + 1)
    BY <2>1, <2>3, <2>5 DEF Follows
  <2> QED
    BY <2>2, <2>6
<1> HIDE DEF Good
<1>3. \A n \in Nat : n \in Good
  BY <1>1, <1>2, Induction
<1> DEFINE H == [n \in Nat |-> CHOOSE h \in [Nat -> V] : Follows(h, base, step, n)]
           f == [n \in Nat |-> H[n][n]]
<1>4. \A n \in Nat : H[n] \in [Nat -> V] /\ Follows(H[n], base, step, n)
  BY <1>3 DEF Good
<1>5. \A n \in Nat : f[n] = H[n][n]
  OBVIOUS
<1>6. f \in [Nat -> V]
  BY <1>4
<1> HIDE DEF H, f
<1>7. f[0] = base
  BY <1>4, <1>5 DEF Follows
<1>8. ASSUME NEW n \in Nat PROVE f[n + 1] = step[<<n, f[n]>>]
  <2>1. n + 1 \in Nat /\ n < n + 1
    OBVIOUS
  <2> DEFINE g == H[n]
             h == H[n + 1]
  <2>2. g \in [Nat -> V] /\ h \in [Nat -> V] /\ Follows(g, base, step, n) /\ Follows(h, base, step, n + 1)
    BY <1>4, <2>1
  <2>3. f[n] = g[n] /\ f[n + 1] = h[n + 1]
    BY <1>5, <2>1
  <2> HIDE DEF g, h
  <2>4. Follows(h, base, step, n)
    BY <2>2 DEF Follows
  <2>5. g[n] = h[n]
    <3> DEFINE S == {k \in Nat : k <= n => g[k] = h[k]}
    <3>1. 0 \in S
      BY <2>2 DEF Follows
    <3>2. ASSUME NEW k \in Nat, k \in S, k + 1 <= n PROVE g[k + 1] = h[k + 1]
      <4>1. k < n /\ g[k] = h[k]
        BY <3>2
      <4> QED
        BY <4>1, <2>2, <2>4 DEF Follows
    <3>3. \A k \in Nat : k \in S => k + 1 \in S
      BY <3>2
    <3> HIDE DEF S
    <3>4. n \in S
      BY <3>1, <3>3, Induction
    <3> QED
      BY <3>4 DEF S
  <2>6. h[n + 1] = step[<<n, h[n]>>]
    BY <2>1, <2>2 DEF Follows
  <2> QED
    BY <2>3, <2>5, <2>6
<1> QED
  BY <1>6, <1>7, <1>8 DEF Recurs

-----------------------------------------------------------------------------
(* Powers *)

Powers(b) == CHOOSE f \in [Nat -> Int] : f[0] = 1 /\ \A n \in Nat : f[n + 1] = b * f[n]
Power(b, n) == Powers(b)[n]

\* Power() is what its recursion says.
LEMMA PowerRule ==
  ASSUME NEW b \in Int
  PROVE  /\ \A n \in Nat : Power(b, n) \in Int /\ Power(b, n + 1) = b * Power(b, n)
         /\ Power(b, 0) = 1
<1> DEFINE step == [x \in Nat \X Int |-> b * x[2]]
<1>1. step \in [Nat \X Int -> Int] /\ \A n \in Nat, v \in Int : step[<<n, v>>] = b * v
  OBVIOUS
<1> HIDE DEF step
<1> DEFINE V == Int
           one == 1
<1>a. one \in V /\ step \in [Nat \X V -> V]
  BY <1>1
<1> HIDE DEF V, one
<1>b. PICK f \in [Nat -> V] : Recurs(f, one, step)
  BY <1>a, Recursion
<1>2. f \in [Nat -> Int] /\ f[0] = 1 /\ \A n \in Nat : f[n + 1] = step[<<n, f[n]>>]
  BY <1>b DEF V, one, Recurs
<1>3. f \in [Nat -> Int] /\ f[0] = 1 /\ \A n \in Nat : f[n + 1] = b * f[n]
  BY <1>1, <1>2
<1>4. Powers(b) \in [Nat -> Int] /\ Powers(b)[0] = 1 /\ \A n \in Nat : Powers(b)[n + 1] = b * Powers(b)[n]
  BY <1>3 DEF Powers
<1> QED
  BY <1>4 DEF Power

-----------------------------------------------------------------------------
(* Division with remainder, and congruence *)

\* Quotient and remainder.
LEMMA Division ==
  ASSUME NEW a \in Int, NEW m \in Nat \ {0}
  PROVE  a = m * (a \div m) + (a % m) /\ a % m \in Nat /\ a % m < m /\ a \div m \in Int
OBVIOUS

\* What is left of a multiple and a number below the divisor.
LEMMA Remainder ==
  ASSUME NEW m \in Nat \ {0}, NEW q \in Int, NEW r \in Nat, r < m
  PROVE  (m * q + r) % m = r
OBVIOUS

Congruent(m, a, b) == \E k \in Int : a = b + m * k

\* Numbers are congruent when they leave the same remainder.
LEMMA SameRemainder ==
  ASSUME NEW m \in Nat \ {0}, NEW a \in Int, NEW b \in Int
  PROVE  Congruent(m, a, b) <=> a % m = b % m
<1> DEFINE r == b % m
           q == b \div m
<1>1. b = m * q + r /\ r \in Nat /\ r < m /\ q \in Int
  BY Division
<1>2. a = m * (a \div m) + (a % m) /\ a \div m \in Int
  BY Division
<1> HIDE DEF r, q
<1>3. ASSUME NEW k \in Int, a = b + m * k PROVE a % m = r
  <2>1. a = m * (q + k) + r /\ q + k \in Int
    BY <1>1, <1>3
  <2> QED
    BY <1>1, <2>1, Remainder
<1>4. ASSUME a % m = r PROVE Congruent(m, a, b)
  <2> DEFINE k == (a \div m) - q
  <2>1. k \in Int /\ a = b + m * k
    BY <1>1, <1>2, <1>4
  <2> HIDE DEF k
  <2> QED
    BY <2>1 DEF Congruent
<1> QED
  BY <1>3, <1>4 DEF r, Congruent

\* A number is congruent to its remainder.
LEMMA CongruentToRemainder ==
  ASSUME NEW m \in Nat \ {0}, NEW a \in Int
  PROVE  Congruent(m, a % m, a) /\ Congruent(m, a, a % m) /\ a % m \in Int
<1>1. a = m * (a \div m) + (a % m) /\ a % m \in Int /\ a \div m \in Int
  BY Division
<1> DEFINE k == a \div m
           r == a % m
           l == -k
<1>2. a = m * k + r /\ r \in Int /\ k \in Int
  BY <1>1
<1> HIDE DEF k, r
<1>3. l \in Int /\ r = a + m * l /\ a = r + m * k
  BY <1>2
<1> HIDE DEF l
<1> QED
  BY <1>2, <1>3 DEF Congruent, r

\* Congruence is an equivalence ...
LEMMA CongruentSelf ==
  ASSUME NEW m \in Nat, NEW a \in Int
  PROVE  Congruent(m, a, a)
<1>1. a = a + m * 0
  OBVIOUS
<1> QED
  BY <1>1 DEF Congruent

\* (in the other direction)
LEMMA CongruentSwap ==
  ASSUME NEW m \in Nat, NEW a \in Int, NEW b \in Int, Congruent(m, a, b)
  PROVE  Congruent(m, b, a)
<1>1. PICK k \in Int : a = b + m * k
  BY DEF Congruent
<1> DEFINE l == -k
<1>2. l \in Int /\ b = a + m * l
  BY <1>1
<1> HIDE DEF l
<1> QED
  BY <1>2 DEF Congruent

\* (from one number over another to a third)
LEMMA CongruentChain ==
  ASSUME NEW m \in Nat, NEW a \in Int, NEW b \in Int, NEW c \in Int, Congruent(m, a, b), Congruent(m, b, c)
  PROVE  Congruent(m, a, c)
<1>1. PICK k \in Int : a = b + m * k
  BY DEF Congruent
<1>2. PICK l \in Int : b = c + m * l
  BY DEF Congruent
<1> DEFINE n == k + l
<1>3. n \in Int /\ a = c + m * n
  BY <1>1, <1>2
<1> HIDE DEF n
<1> QED
  BY <1>3 DEF Congruent

\* ... that sums and differences respect,
LEMMA CongruentSum ==
  ASSUME NEW m \in Nat, NEW a \in Int, NEW b \in Int, NEW c \in Int, NEW d \in Int,
         Congruent(m, a, b), Congruent(m, c, d)
  PROVE  Congruent(m, a + c, b + d) /\ Congruent(m, a - c, b - d)
<1>1. PICK k \in Int : a = b + m * k
  BY DEF Congruent
<1>2. PICK l \in Int : c = d + m * l
  BY DEF Congruent
<1> DEFINE n == k + l
           o == k - l
<1>3. n \in Int /\ a + c = (b + d) + m * n /\ o \in Int /\ a - c = (b - d) + m * o
  BY <1>1, <1>2
<1> HIDE DEF n, o
<1> QED
  BY <1>3 DEF Congruent

\* and products.
LEMMA CongruentProduct ==
  ASSUME NEW m \in Nat, NEW a \in Int, NEW b \in Int, NEW c \in Int, NEW d \in Int,
         Congruent(m, a, b), Congruent(m, c, d)
  PROVE  Congruent(m, a * c, b * d)
<1>1. PICK k \in Int : a = b + m * k
  BY DEF Congruent
<1>2. PICK l \in Int : c = d + m * l
  BY DEF Congruent
<1> DEFINE n == b * l + d * k + m * (k * l)
<1>3. n \in Int
  OBVIOUS
<1>4. a * c = b * d + m * n
  BY <1>1, <1>2
<1> HIDE DEF n
<1> QED
  BY <1>3, <1>4 DEF Congruent

-----------------------------------------------------------------------------
(* Laws of powers *)

\* A power by a sum of exponents.
LEMMA PowerSum ==
  ASSUME NEW b \in Int, NEW m \in Nat, NEW n \in Nat
  PROVE  Power(b, m + n) = Power(b, m) * Power(b, n)
<1> DEFINE S == {k \in Nat : Power(b, m + k) = Power(b, m) * Power(b, k)}
<1>0. \A k \in Nat : Power(b, k) \in Int /\ Power(b, k + 1) = b * Power(b, k)
  BY PowerRule
<1>1. 0 \in S
  BY <1>0, PowerRule
<1>2. ASSUME NEW k \in Nat, k \in S PROVE k + 1 \in S
  <2>1. Power(b, (m + k) + 1) = b * Power(b, m + k) /\ (m + k) + 1 = m + (k + 1)
    BY <1>0
  <2>2. Power(b, m + (k + 1)) = b * (Power(b, m) * Power(b, k))
    BY <1>2, <2>1
  <2>3. Power(b, m) * Power(b, k + 1) = Power(b, m) * (b * Power(b, k))
    BY <1>0
  <2> DEFINE x == Power(b, m)
             y == Power(b, k)
  <2>4. x \in Int /\ y \in Int
    BY <1>0
  <2> HIDE DEF x, y
  <2>5. b * (x * y) = x * (b * y)
    BY <2>4
  <2> QED
    BY <2>2, <2>3, <2>5 DEF x, y
<1> HIDE DEF S
<1>3. n \in S
  BY <1>1, <1>2, Induction
<1> QED
  BY <1>3 DEF S

\* A power of a product.
LEMMA PowerOfProduct ==
  ASSUME NEW a \in Int, NEW b \in Int, NEW n \in Nat
  PROVE  Power(a * b, n) = Power(a, n) * Power(b, n)
<1> DEFINE S == {k \in Nat : Power(a * b, k) = Power(a, k) * Power(b, k)}
<1>0. /\ \A k \in Nat : Power(b, k) \in Int /\ Power(b, k + 1) = b * Power(b, k)
      /\ \A k \in Nat : Power(a, k) \in Int /\ Power(a, k + 1) = a * Power(a, k)
      /\ \A k \in Nat : Power(a * b, k) \in Int /\ Power(a * b, k + 1) = (a * b) * Power(a * b, k)
  BY PowerRule
<1>1. 0 \in S
  BY PowerRule
<1>2. ASSUME NEW k \in Nat, k \in S PROVE k + 1 \in S
  <2> DEFINE x == Power(a, k)
             y == Power(b, k)
  <2>1. Power(a * b, k + 1) = (a * b) * (x * y)
    BY <1>0, <1>2
  <2>2. Power(a, k + 1) * Power(b, k + 1) = (a * x) * (b * y)
    BY <1>0
  <2>3. x \in Int /\ y \in Int
    BY <1>0
  <2> HIDE DEF x, y
  <2>4. (a * b) * (x * y) = (a * x) * (b * y)
    BY <2>3
  <2> QED
    BY <2>1, <2>2, <2>4
<1> HIDE DEF S
<1>3. n \in S
  BY <1>1, <1>2, Induction
<1> QED
  BY <1>3 DEF S

\* A power by a product of exponents.
LEMMA PowerOfPower ==
  ASSUME NEW b \in Int, NEW m \in Nat, NEW n \in Nat
  PROVE  Power(b, m * n) = Power(Power(b, m), n)
<1> DEFINE c == Power(b, m)
           S == {k \in Nat : Power(b, m * k) = Power(c, k)}
<1>0. c \in Int /\ (\A k \in Nat : Power(c, k + 1) = c * Power(c, k) /\ Power(c, k) \in Int) /\ Power(c, 0) = 1 /\ Power(b, 0) = 1
  BY PowerRule
<1>1. 0 \in S
  BY <1>0
<1>2. ASSUME NEW k \in Nat, k \in S PROVE k + 1 \in S
  <2>1. m * k \in Nat /\ m * (k + 1) = m + m * k
    OBVIOUS
  <2>2. Power(b, m + m * k) = c * Power(b, m * k)
    BY <2>1, PowerSum
  <2> QED
    BY <1>0, <1>2, <2>1, <2>2
<1> HIDE DEF S
<1>3. n \in S
  BY <1>1, <1>2, Induction
<1> QED
  BY <1>3 DEF S

\* A power of 1.
LEMMA PowerOfOne ==
  ASSUME NEW n \in Nat
  PROVE  Power(1, n) = 1
<1> DEFINE S == {k \in Nat : Power(1, k) = 1}
<1>0. (\A k \in Nat : Power(1, k + 1) = 1 * Power(1, k) /\ Power(1, k) \in Int) /\ Power(1, 0) = 1
  BY PowerRule
<1>1. 0 \in S /\ \A k \in Nat : k \in S => k + 1 \in S
  BY <1>0
<1> HIDE DEF S
<1>3. n \in S
  BY <1>1, Induction
<1> QED
  BY <1>3 DEF S

\* Congruence respects powers.
LEMMA CongruentPower ==
  ASSUME NEW m \in Nat, NEW a \in Int, NEW b \in Int, Congruent(m, a, b), NEW n \in Nat
  PROVE  Congruent(m, Power(a, n), Power(b, n))
<1> DEFINE S == {k \in Nat : Congruent(m, Power(a, k), Power(b, k))}
<1>0. /\ \A k \in Nat : Power(b, k) \in Int /\ Power(b, k + 1) = b * Power(b, k)
      /\ \A k \in Nat : Power(a, k) \in Int /\ Power(a, k + 1) = a * Power(a, k)
      /\ Power(a, 0) = 1 /\ Power(b, 0) = 1
  BY PowerRule
<1>1. 0 \in S
  BY <1>0, CongruentSelf
<1>2. ASSUME NEW k \in Nat, k \in S PROVE k + 1 \in S
  <2> DEFINE x == Power(a, k)
             y == Power(b, k)
  <2>1. Power(a, k + 1) = a * x /\ Power(b, k + 1) = b * y /\ x \in Int /\ y \in Int
    BY <1>0
  <2>2. Congruent(m, x, y)
    BY <1>2
  <2> HIDE DEF x, y
  <2>3. Congruent(m, a * x, b * y)
    BY <2>1, <2>2, CongruentProduct
  <2> QED
    BY <2>1, <2>3
<1> HIDE DEF S
<1>3. n \in S
  BY <1>1, <1>2, Induction
<1> QED
  BY <1>3 DEF S

-----------------------------------------------------------------------------
(* Divisors and primes *)

Divides(d, a) == \E k \in Int : a = d * k
Coprime(a, b) == \A d \in Nat : Divides(d, a) /\ Divides(d, b) => d = 1
Prime(p)      == p > 1 /\ \A d \in Nat : Divides(d, p) => d = 1 \/ d = p

\* Divisible is what leaves no remainder.
LEMMA NoRemainder ==
  ASSUME NEW d \in Nat \ {0}, NEW a \in Int
  PROVE  Divides(d, a) <=> a % d = 0
<1>1. a = d * (a \div d) + (a % d) /\ a \div d \in Int /\ a % d \in Nat
  BY Division
<1>2. ASSUME NEW k \in Int, a = d * k PROVE a % d = 0
  <2>1. a = d * k + 0
    BY <1>2
  <2> QED
    BY <2>1, Remainder
<1>3. ASSUME a % d = 0 PROVE Divides(d, a)
  <2> DEFINE k == a \div d
  <2>1. k \in Int /\ a = d * k
    BY <1>1, <1>3
  <2> HIDE DEF k
  <2> QED
    BY <2>1 DEF Divides
<1> QED
  BY <1>2, <1>3 DEF Divides

\* The combinations of a and b.
Combines(a, b, n) == \E u, v \in Int : n = u * a + v * b

\* 1 is a combination of coprime numbers.
LEMMA Bezout ==
  ASSUME NEW a \in Nat \ {0}, NEW b \in Nat, Coprime(a, b)
  PROVE  \E u, v \in Int : u * a + v * b = 1
<1> DEFINE S == {n \in Nat : n > 0 /\ Combines(a, b, n)}
<1>1. Combines(a, b, a) /\ Combines(a, b, b)
  <2>1. a = 1 * a + 0 * b /\ b = 0 * a + 1 * b
    OBVIOUS
  <2> QED
    BY <2>1 DEF Combines
<1>2. a \in S
  BY <1>1
<1>3. PICK g \in S : \A n \in S : g <= n
  <2>1. S \in SUBSET Nat /\ S # {}
    BY <1>2
  <2> HIDE DEF S
  <2> QED
    BY <2>1, LeastNumber
<1>4. g \in Nat \ {0} /\ Combines(a, b, g)
  BY <1>3
<1>5. ASSUME NEW c \in Nat, Combines(a, b, c) PROVE Divides(g, c)
  <2>1. c = g * (c \div g) + (c % g) /\ c % g \in Nat /\ c % g < g /\ c \div g \in Int
    BY <1>4, Division
  <2> DEFINE q == c \div g
             r == c % g
  <2>2. q \in Int /\ r \in Nat /\ r < g /\ r = c - g * q
    BY <1>4, <2>1
  <2> HIDE DEF q, r
  <2>3. Combines(a, b, r)
    <3>1. PICK u, v \in Int : g = u * a + v * b
      BY <1>4 DEF Combines
    <3>2. PICK w, x \in Int : c = w * a + x * b
      BY <1>5 DEF Combines
    <3> DEFINE y == w - u * q
               z == x - v * q
    <3>3. y \in Int /\ z \in Int
      BY <2>2
    <3>4. c - g * q = y * a + z * b
      BY <2>2, <3>1, <3>2
    <3> HIDE DEF y, z
    <3> QED
      BY <2>2, <3>3, <3>4 DEF Combines
  <2>4. r = 0
    BY <1>3, <1>4, <2>2, <2>3
  <2> QED
    BY <1>4, <2>4, NoRemainder DEF r
<1>6. g = 1
  BY <1>1, <1>4, <1>5 DEF Coprime
<1>7. PICK u, v \in Int : 1 = u * a + v * b
  BY <1>4, <1>6 DEF Combines
<1> QED
  BY <1>7

\* A divisor of a product that has nothing in common with one factor divides the other.
LEMMA DividesFactor ==
  ASSUME NEW a \in Nat \ {0}, NEW b \in Nat, Coprime(a, b), NEW c \in Int, Divides(a, b * c)
  PROVE  Divides(a, c)
<1>1. PICK u, v \in Int : u * a + v * b = 1
  BY Bezout
<1>2. PICK k \in Int : b * c = a * k
  BY DEF Divides
<1> DEFINE l == u * c + v * k
<1>3. l \in Int
  OBVIOUS
<1>4. c = a * l
  <2>1. c = (u * a + v * b) * c
    BY <1>1
  <2>2. (u * a + v * b) * c = a * (u * c) + v * (b * c)
    OBVIOUS
  <2>3. v * (a * k) = a * (v * k)
    OBVIOUS
  <2>4. a * (u * c) + a * (v * k) = a * l
    OBVIOUS
  <2> QED
    BY <1>2, <2>1, <2>2, <2>3, <2>4
<1> HIDE DEF l
<1> QED
  BY <1>3, <1>4 DEF Divides

\* What two coprime numbers divide their product divides.
LEMMA DividesProduct ==
  ASSUME NEW a \in Nat \ {0}, NEW b \in Nat, Coprime(a, b), NEW c \in Int, Divides(a, c), Divides(b, c)
  PROVE  Divides(a * b, c)
<1>1. PICK k \in Int : c = b * k
  BY DEF Divides
<1>2. Divides(a, b * k)
  BY <1>1
<1>3. Divides(a, k)
  BY <1>2, DividesFactor
<1>4. PICK l \in Int : k = a * l
  BY <1>3 DEF Divides
<1>5. c = (a * b) * l
  BY <1>1, <1>4
<1> QED
  BY <1>5 DEF Divides

\* Numbers are congruent when the modulus divides their difference.
LEMMA CongruentIsDivided ==
  ASSUME NEW m \in Nat, NEW a \in Int, NEW b \in Int
  PROVE  Congruent(m, a, b) <=> Divides(m, a - b)
<1>1. \A k \in Int : a = b + m * k <=> a - b = m * k
  OBVIOUS
<1> QED
  BY <1>1 DEF Congruent, Divides

\* Congruence modulo two coprime numbers is congruence modulo their product.
LEMMA CongruentBoth ==
  ASSUME NEW m \in Nat \ {0}, NEW n \in Nat, Coprime(m, n), NEW a \in Int, NEW b \in Int,
         Congruent(m, a, b), Congruent(n, a, b)
  PROVE  Congruent(m * n, a, b)
<1>1. Divides(m, a - b) /\ Divides(n, a - b)
  BY CongruentIsDivided
<1>2. a - b \in Int /\ m * n \in Nat
  OBVIOUS
<1>3. Divides(m * n, a - b)
  BY <1>1, <1>2, DividesProduct
<1> QED
  BY <1>2, <1>3, CongruentIsDivided

\* What is congruent modulo a product is congruent modulo its factors.
LEMMA CongruentFactor ==
  ASSUME NEW m \in Nat, NEW n \in Nat, NEW a \in Int, NEW b \in Int, Congruent(m * n, a, b)
  PROVE  Congruent(m, a, b) /\ Congruent(n, a, b)
<1>1. PICK k \in Int : a = b + (m * n) * k
  BY DEF Congruent
<1>2. a = b + m * (n * k) /\ a = b + n * (m * k) /\ n * k \in Int /\ m * k \in Int
  BY <1>1
<1> DEFINE x == n * k
           y == m * k
<1>3. x \in Int /\ y \in Int /\ a = b + m * x /\ a = b + n * y
  BY <1>2
<1> HIDE DEF x, y
<1> QED
  BY <1>3 DEF Congruent

\* A prime number has nothing in common with what it does not divide.
LEMMA PrimeCoprime ==
  ASSUME NEW p \in Nat, Prime(p), NEW a \in Int, ~Divides(p, a)
  PROVE  Coprime(p, a)
BY DEF Prime, Coprime

\* Different primes have no common divisor.
LEMMA PrimesCoprime ==
  ASSUME NEW p \in Nat, NEW q \in Nat, Prime(p), Prime(q), p # q
  PROVE  Coprime(p, q)
BY DEF Prime, Coprime

-----------------------------------------------------------------------------
(* Fermat's little theorem *)

\* A prime, or any number, does not divide a smaller one.
LEMMA SmallNotDivided ==
  ASSUME NEW p \in Nat, NEW x \in Int, x # 0, -p < x, x < p
  PROVE  ~Divides(p, x)
<1> SUFFICES ASSUME Divides(p, x) PROVE FALSE
  OBVIOUS
<1>1. PICK k \in Int : x = p * k
  BY DEF Divides
<1>2. k # 0
  BY <1>1
<1>3. CASE k >= 1
  <2>1. p * k >= p * 1
    BY <1>3
  <2> QED
    BY <1>1, <2>1
<1>4. CASE k <= -1
  <2>1. p * k <= p * (-1)
    BY <1>4
  <2> QED
    BY <1>1, <2>1
<1> QED
  BY <1>2, <1>3, <1>4

\* A prime that divides a product divides a factor.
LEMMA PrimeDividesFactor ==
  ASSUME NEW p \in Nat, Prime(p), NEW b \in Nat, NEW c \in Int, Divides(p, b * c)
  PROVE  Divides(p, b) \/ Divides(p, c)
<1> SUFFICES ASSUME ~Divides(p, b) PROVE Divides(p, c)
  OBVIOUS
<1>1. Coprime(p, b) /\ p \in Nat \ {0}
  BY PrimeCoprime DEF Prime
<1> QED
  BY <1>1, DividesFactor

\* The product of the numbers of T up to n.
Products(T)   == CHOOSE f \in [Nat -> Nat] :
                   f[0] = 1 /\ \A n \in Nat : f[n + 1] = (IF n + 1 \in T THEN n + 1 ELSE 1) * f[n]
Product(T, n) == Products(T)[n]

\* Product() is what its recursion says.
LEMMA ProductRule ==
  ASSUME NEW T
  PROVE  /\ \A n \in Nat : Product(T, n) \in Nat
         /\ \A n \in Nat : n + 1 \in T => Product(T, n + 1) = (n + 1) * Product(T, n)
         /\ \A n \in Nat : n + 1 \notin T => Product(T, n + 1) = Product(T, n)
         /\ Product(T, 0) = 1
<1> DEFINE step == [x \in Nat \X Nat |-> (IF x[1] + 1 \in T THEN x[1] + 1 ELSE 1) * x[2]]
           V    == Nat
           one  == 1
<1>1. step \in [Nat \X Nat -> Nat] /\ \A n \in Nat, v \in Nat : step[<<n, v>>] = (IF n + 1 \in T THEN n + 1 ELSE 1) * v
  OBVIOUS
<1> HIDE DEF step
<1>2. one \in V /\ step \in [Nat \X V -> V]
  BY <1>1
<1> HIDE DEF V, one
<1>3. PICK f \in [Nat -> V] : Recurs(f, one, step)
  BY <1>2, Recursion
<1>4. f \in [Nat -> Nat] /\ f[0] = 1 /\ \A n \in Nat : f[n + 1] = step[<<n, f[n]>>]
  BY <1>3 DEF V, one, Recurs
<1>5. f[0] = 1 /\ \A n \in Nat : f[n + 1] = (IF n + 1 \in T THEN n + 1 ELSE 1) * f[n]
  BY <1>1, <1>4
<1> DEFINE g == Products(T)
<1>6. g \in [Nat -> Nat] /\ g[0] = 1 /\ \A n \in Nat : g[n + 1] = (IF n + 1 \in T THEN n + 1 ELSE 1) * g[n]
  BY <1>4, <1>5 DEF Products
<1>7. \A n \in Nat : g[n] = Product(T, n)
  BY DEF Product
<1> HIDE DEF g
<1>8. \A n \in Nat : n + 1 \notin T => g[n + 1] = g[n]
  BY <1>6
<1>9. \A n \in Nat : n + 1 \in T => g[n + 1] = (n + 1) * g[n]
  BY <1>6
<1> QED
  BY <1>6, <1>7, <1>8, <1>9

\* One more number in the set is one more factor.
LEMMA ProductAdd ==
  ASSUME NEW T, NEW n \in Nat, NEW x \in 1..n, x \notin T
  PROVE  Product(T \cup {x}, n) = x * Product(T, n)
<1> DEFINE U == T \cup {x}
           S == {k \in Nat : Product(U, k) = IF x <= k THEN x * Product(T, k) ELSE Product(T, k)}
<1>0. \A k \in Nat : Product(T, k) \in Nat /\ Product(U, k) \in Nat
  BY ProductRule
<1>1. 0 \in S
  BY ProductRule
<1>2. ASSUME NEW k \in Nat, k \in S PROVE k + 1 \in S
  <2> DEFINE v == Product(T, k)
  <2>0. v \in Nat
    BY <1>0
  <2>1. CASE k + 1 = x
    <3>1. k + 1 \in U /\ k + 1 \notin T
      BY <2>1
    <3>2. Product(U, k + 1) = (k + 1) * Product(U, k) /\ Product(T, k + 1) = v
      BY <3>1, ProductRule
    <3>3. Product(U, k) = v
      BY <1>2, <2>1
    <3> QED
      BY <2>1, <3>2, <3>3
  <2>2. CASE k + 1 # x /\ k + 1 \in T
    <3>1. k + 1 \in U
      BY <2>2
    <3>2. Product(U, k + 1) = (k + 1) * Product(U, k) /\ Product(T, k + 1) = (k + 1) * v
      BY <2>2, <3>1, ProductRule
    <3> HIDE DEF v
    <3>3. (k + 1) * (x * v) = x * ((k + 1) * v)
      BY <2>0
    <3>4. CASE x <= k
      <4>1. x <= k + 1
        BY <3>4
      <4>2. Product(U, k) = x * v
        BY <1>2, <3>4 DEF v
      <4>3. Product(U, k + 1) = x * Product(T, k + 1)
        BY <3>2, <3>3, <4>2
      <4> QED
        BY <4>1, <4>3
    <3>5. CASE ~(x <= k)
      <4>1. ~(x <= k + 1)
        BY <2>2, <3>5
      <4>2. Product(U, k) = v
        BY <1>2, <3>5 DEF v
      <4> QED
        BY <3>2, <4>1, <4>2
    <3> QED
      BY <3>4, <3>5
  <2>3. CASE k + 1 # x /\ k + 1 \notin T
    <3>1. k + 1 \notin U
      BY <2>3
    <3>2. Product(U, k + 1) = Product(U, k) /\ Product(T, k + 1) = v
      BY <2>3, <3>1, ProductRule
    <3>3. x <= k + 1 <=> x <= k
      BY <2>3
    <3> QED
      BY <1>2, <3>2, <3>3
  <2> QED
    BY <2>1, <2>2, <2>3
<1> HIDE DEF S
<1>3. n \in S
  BY <1>1, <1>2, Induction
<1> QED
  BY <1>3 DEF S

\* A prime does not divide a product of smaller numbers.
LEMMA ProductNotDivided ==
  ASSUME NEW p \in Nat, Prime(p), NEW T, NEW n \in Nat, n < p
  PROVE  ~Divides(p, Product(T, n))
<1> DEFINE S == {k \in Nat : k < p => ~Divides(p, Product(T, k))}
<1>0. \A k \in Nat : Product(T, k) \in Nat
  BY ProductRule
<1>1. 0 \in S
  <2>1. Product(T, 0) = 1 /\ 1 < p
    BY ProductRule DEF Prime
  <2>2. ~Divides(p, 1)
    BY <2>1, SmallNotDivided
  <2> QED
    BY <2>1, <2>2
<1>2. ASSUME NEW k \in Nat, k \in S PROVE k + 1 \in S
  <2> SUFFICES ASSUME k + 1 < p PROVE ~Divides(p, Product(T, k + 1))
    OBVIOUS
  <2>1. ~Divides(p, Product(T, k))
    BY <1>2
  <2>2. CASE k + 1 \in T
    <3>1. Product(T, k + 1) = (k + 1) * Product(T, k)
      BY <2>2, ProductRule
    <3>2. ~Divides(p, k + 1)
      BY SmallNotDivided
    <3>3. ~Divides(p, (k + 1) * Product(T, k))
      BY <1>0, <2>1, <3>2, PrimeDividesFactor
    <3> QED
      BY <3>1, <3>3
  <2>3. CASE k + 1 \notin T
    BY <2>1, <2>3, ProductRule
  <2> QED
    BY <2>2, <2>3
<1> HIDE DEF S
<1>3. n \in S
  BY <1>1, <1>2, Induction
<1> QED
  BY <1>3 DEF S

\* The multiples of a by 1 to j, reduced modulo p.
Multiples(a, p, j) == {(a * i) % p : i \in 1..j}

\* Two multiples of a number that p does not divide leave different remainders.
LEMMA MultiplesDiffer ==
  ASSUME NEW p \in Nat, Prime(p), NEW a \in Nat, ~Divides(p, a),
         NEW i \in 1..(p - 1), NEW j \in 1..(p - 1), (a * i) % p = (a * j) % p
  PROVE  i = j
<1> SUFFICES ASSUME i # j PROVE FALSE
  OBVIOUS
<1>1. p \in Nat \ {0}
  BY DEF Prime
<1> DEFINE x == a * i
           y == a * j
<1>2. x \in Int /\ y \in Int /\ x % p = y % p
  OBVIOUS
<1> HIDE DEF x, y
<1>3. Divides(p, x - y)
  BY <1>1, <1>2, SameRemainder, CongruentIsDivided
<1>4. x - y = a * (i - j)
  BY DEF x, y
<1>5. Divides(p, i - j)
  BY <1>3, <1>4, PrimeDividesFactor
<1>6. ~Divides(p, i - j)
  BY SmallNotDivided
<1> QED
  BY <1>5, <1>6

\* The remainders of all multiples are all the numbers below p.
LEMMA MultiplesAreAll ==
  ASSUME NEW p \in Nat, Prime(p), NEW a \in Nat, ~Divides(p, a)
  PROVE  /\ \A i \in 1..(p - 1) : (a * i) % p \in 1..(p - 1)
         /\ Multiples(a, p, p - 1) = 1..(p - 1)
<1>1. p \in Nat \ {0} /\ p > 1
  BY DEF Prime
<1>2. ASSUME NEW i \in 1..(p - 1) PROVE (a * i) % p \in 1..(p - 1)
  <2>1. ~Divides(p, i)
    BY SmallNotDivided
  <2>2. ~Divides(p, a * i)
    BY <2>1, PrimeDividesFactor
  <2>3. a * i \in Int
    OBVIOUS
  <2>4. (a * i) % p # 0 /\ (a * i) % p \in Nat /\ (a * i) % p < p
    <3> DEFINE x == a * i
    <3> HIDE DEF x
    <3>1. x % p # 0
      BY <1>1, <2>2, <2>3, NoRemainder DEF x
    <3>2. x % p \in Nat /\ x % p < p
      BY <1>1, <2>3, Division DEF x
    <3> QED
      BY <3>1, <3>2 DEF x
  <2> QED
    BY <2>4
<1>3. ASSUME NEW y \in 1..(p - 1) PROVE \E i \in 1..(p - 1) : (a * i) % p = y
  <2>1. Coprime(p, a)
    BY PrimeCoprime
  <2>2. PICK u, v \in Int : u * p + v * a = 1
    BY <1>1, <2>1, Bezout
  <2> DEFINE w == v * y
             i == w % p
             x == a * i
             k == -(u * y)
  <2>3. w \in Int
    OBVIOUS
  <2>4. Congruent(p, i, w) /\ i \in Int
    <3> HIDE DEF w
    <3> QED
      BY <1>1, <2>3, CongruentToRemainder
  <2>5. i \in Nat /\ i < p
    <3> HIDE DEF w
    <3> QED
      BY <1>1, <2>3, Division
  <2> HIDE DEF i
  <2>6. Congruent(p, a, a)
    BY CongruentSelf
  <2>7. Congruent(p, x, a * w)
    <3> HIDE DEF w
    <3> QED
      BY <2>3, <2>4, <2>6, CongruentProduct
  <2>8. a * w = y + p * k /\ k \in Int
    <3>1. (u * p + v * a) * y = y
      BY <2>2
    <3>2. (u * p + v * a) * y = p * (u * y) + a * (v * y)
      OBVIOUS
    <3> DEFINE uy == u * y
               vy == v * y
    <3>3. uy \in Int /\ vy \in Int /\ y = p * uy + a * vy
      BY <3>1, <3>2
    <3> HIDE DEF uy, vy
    <3>4. a * vy = y + p * (-uy) /\ -uy \in Int
      BY <3>3
    <3> QED
      BY <3>4 DEF uy, vy
  <2>9. Congruent(p, a * w, y)
    <3> HIDE DEF k, w
    <3> QED
      BY <2>8 DEF Congruent
  <2>10. x \in Int /\ a * w \in Int
    BY <2>4
  <2> HIDE DEF x, w
  <2>11. Congruent(p, x, y)
    BY <2>7, <2>9, <2>10, CongruentChain
  <2>12. x % p = y
    <3>1. x % p = y % p
      <4>1. y \in Int
        OBVIOUS
      <4> QED
        BY <1>1, <2>10, <2>11, <4>1, SameRemainder
    <3>2. y % p = y
      OBVIOUS
    <3> QED
      BY <3>1, <3>2
  <2>13. i # 0
    <3> SUFFICES ASSUME i = 0 PROVE FALSE
      OBVIOUS
    <3>1. x = 0
      BY DEF x
    <3> QED
      BY <1>1, <2>12, <3>1
  <2>14. i \in 1..(p - 1) /\ (a * i) % p = y
    BY <2>5, <2>12, <2>13 DEF x
  <2> QED
    BY <2>14
<1> QED
  BY <1>2, <1>3 DEF Multiples

\* The product of the multiples by 1 to j is that of 1 to j, times the power.
LEMMA ProductOfMultiples ==
  ASSUME NEW p \in Nat, Prime(p), NEW a \in Nat, ~Divides(p, a), NEW j \in Nat, j < p
  PROVE  Congruent(p, Product(Multiples(a, p, j), p - 1), Power(a, j) * Product(1..j, p - 1))
<1> DEFINE m == p - 1
           T(k) == Multiples(a, p, k)
           S == {k \in Nat : k < p => Congruent(p, Product(T(k), m), Power(a, k) * Product(1..k, m))}
<1>0. m \in Nat /\ p \in Nat \ {0} /\ \A k \in Nat : Power(a, k) \in Int /\ Power(a, k + 1) = a * Power(a, k)
  <2>1. m \in Nat /\ p \in Nat \ {0}
    BY DEF Prime
  <2>2. \A k \in Nat : Power(a, k) \in Int /\ Power(a, k + 1) = a * Power(a, k)
    <3>1. a \in Int
      OBVIOUS
    <3> QED
      BY <3>1, PowerRule
  <2> QED
    BY <2>1, <2>2
<1>1. 0 \in S
  <2>1. T(0) = 1..0
    BY DEF Multiples
  <2>2. Power(a, 0) = 1 /\ Product(1..0, m) \in Nat
    <3> DEFINE U == 1..0
    <3> HIDE DEF U, m
    <3>1. Product(U, m) \in Nat
      BY <1>0, ProductRule
    <3>2. Power(a, 0) = 1
      BY PowerRule
    <3> QED
      BY <3>1, <3>2 DEF U
  <2>3. Power(a, 0) * Product(1..0, m) = Product(1..0, m)
    BY <2>2
  <2>4. Congruent(p, Product(1..0, m), Product(1..0, m))
    BY <2>2, CongruentSelf
  <2> QED
    BY <2>1, <2>3, <2>4
<1>2. ASSUME NEW k \in Nat, k \in S PROVE k + 1 \in S
  <2> SUFFICES ASSUME k + 1 < p
               PROVE  Congruent(p, Product(T(k + 1), m), Power(a, k + 1) * Product(1..(k + 1), m))
    OBVIOUS
  <2> DEFINE z == a * (k + 1)
             x == z % p
             f == Product(T(k), m)
             g == Product(1..k, m)
             h == Power(a, k)
  <2>1. f \in Nat /\ g \in Nat /\ h \in Int /\ z \in Int
    <3> DEFINE U == 1..k
               V == T(k)
    <3> HIDE DEF U, V, m
    <3>1. Product(U, m) \in Nat /\ Product(V, m) \in Nat
      BY <1>0, ProductRule
    <3>2. h \in Int
      BY <1>0
    <3>3. z \in Int
      OBVIOUS
    <3> QED
      BY <3>1, <3>2, <3>3 DEF U, V
  <2>2. Congruent(p, f, h * g)
    BY <1>2
  <2>3. T(k + 1) = T(k) \cup {x}
    <3>1. 1..(k + 1) = (1..k) \cup {k + 1}
      OBVIOUS
    <3> QED
      BY <3>1 DEF Multiples
  <2>4. x \in 1..m
    <3>1. k + 1 \in 1..(p - 1)
      OBVIOUS
    <3> QED
      BY <3>1, MultiplesAreAll
  <2>5. x \notin T(k)
    <3> SUFFICES ASSUME NEW i \in 1..k, (a * i) % p = (a * (k + 1)) % p PROVE FALSE
      BY DEF Multiples
    <3>1. i \in 1..(p - 1) /\ k + 1 \in 1..(p - 1) /\ i # k + 1
      OBVIOUS
    <3> QED
      BY <3>1, MultiplesDiffer
  <2>6. Product(T(k + 1), m) = x * f
    <3> DEFINE U == T(k)
    <3> HIDE DEF U, x
    <3>1. Product(U \cup {x}, m) = x * Product(U, m)
      BY <1>0, <2>4, <2>5, ProductAdd DEF U
    <3> QED
      BY <2>3, <3>1 DEF U
  <2>7. Product(1..(k + 1), m) = (k + 1) * g
    <3> DEFINE U == 1..k
               y == k + 1
    <3>1. 1..(k + 1) = U \cup {y} /\ y \notin U /\ y \in 1..m
      OBVIOUS
    <3> HIDE DEF U, y
    <3>2. Product(U \cup {y}, m) = y * Product(U, m)
      BY <1>0, <3>1, ProductAdd
    <3> QED
      BY <3>1, <3>2 DEF U, y
  <2>8. Power(a, k + 1) = a * h
    BY <1>0
  <2>9. Congruent(p, x, z) /\ x \in Int
    <3> HIDE DEF z
    <3> QED
      BY <1>0, <2>1, CongruentToRemainder
  <2> HIDE DEF x, f, g, h
  <2>10. Congruent(p, x * f, z * (h * g))
    <3>1. h * g \in Int
      BY <2>1
    <3> HIDE DEF z
    <3> DEFINE hg == h * g
    <3>2. Congruent(p, f, hg) /\ hg \in Int
      BY <2>2, <3>1
    <3> HIDE DEF hg
    <3>3. Congruent(p, x * f, z * hg)
      BY <2>1, <2>9, <3>2, CongruentProduct
    <3> QED
      BY <3>3 DEF hg
  <2>11. z * (h * g) = (a * h) * ((k + 1) * g)
    <3> DEFINE y == k + 1
    <3>1. y \in Int
      OBVIOUS
    <3> HIDE DEF y
    <3>2. (a * y) * (h * g) = (a * h) * (y * g)
      BY <2>1, <3>1
    <3> QED
      BY <3>2 DEF y
  <2> QED
    BY <2>6, <2>7, <2>8, <2>10, <2>11
<1> HIDE DEF S
<1>3. j \in S
  BY <1>1, <1>2, Induction
<1> QED
  BY <1>3 DEF S

\* Fermat's little theorem: 1 modulo p is the power by p - 1 of what p does not divide.
LEMMA Fermat ==
  ASSUME NEW p \in Nat, Prime(p), NEW a \in Nat, ~Divides(p, a)
  PROVE  Congruent(p, Power(a, p - 1), 1)
<1> DEFINE m == p - 1
           f == Product(1..m, m)
           h == Power(a, m)
<1>0. m \in Nat /\ m < p
  BY DEF Prime
<1>1. f \in Nat /\ h \in Int
  <2> DEFINE U == 1..m
  <2> HIDE DEF U, m
  <2>1. a \in Int
    OBVIOUS
  <2>2. Product(U, m) \in Nat
    BY <1>0, ProductRule
  <2>3. Power(a, m) \in Int
    BY <1>0, <2>1, PowerRule
  <2> QED
    BY <2>2, <2>3 DEF U
<1>2. Congruent(p, f, h * f)
  BY <1>0, ProductOfMultiples, MultiplesAreAll
<1>3. ~Divides(p, f)
  BY <1>0, ProductNotDivided
<1> HIDE DEF f, h
<1>4. Divides(p, f - h * f)
  <2> DEFINE hf == h * f
  <2>1. hf \in Int /\ f \in Int
    BY <1>1
  <2>2. Congruent(p, f, hf)
    BY <1>2
  <2> HIDE DEF hf
  <2>3. Divides(p, f - hf)
    BY <2>1, <2>2, CongruentIsDivided
  <2> QED
    BY <2>3 DEF hf
<1>5. f - h * f = f * (1 - h)
  BY <1>1
<1>6. Divides(p, 1 - h)
  BY <1>1, <1>3, <1>4, <1>5, PrimeDividesFactor
<1>7. Congruent(p, 1, h)
  BY <1>1, <1>6, CongruentIsDivided
<1>8. Congruent(p, h, 1)
  BY <1>1, <1>7, CongruentSwap
<1> QED
  BY <1>8 DEF h

\* An exponent that is 1 modulo p - 1 changes nothing modulo p.
LEMMA FermatExponent ==
  ASSUME NEW p \in Nat, Prime(p), NEW a \in Nat, NEW n \in Nat, n > 0, Congruent(p - 1, n, 1)
  PROVE  Congruent(p, Power(a, n), a)
<1>0. p - 1 \in Nat \ {0} /\ p > 1
  BY DEF Prime
<1>1. PICK k \in Int : n = 1 + (p - 1) * k
  BY DEF Congruent
<1>2. k \in Nat
  <2> SUFFICES ASSUME k <= -1 PROVE FALSE
    OBVIOUS
  <2>1. (p - 1) * k <= (p - 1) * (-1)
    BY <1>0
  <2> QED
    BY <1>0, <1>1, <2>1
<1> DEFINE m == (p - 1) * k
           h == Power(a, m)
<1>3. m \in Nat /\ n = m + 1
  BY <1>0, <1>1, <1>2
<1>4. h \in Int /\ Power(a, n) = a * h
  <2> HIDE DEF m
  <2>0. a \in Int
    OBVIOUS
  <2>1. Power(a, m + 1) = a * Power(a, m) /\ Power(a, m) \in Int
    BY <1>3, <2>0, PowerRule
  <2> QED
    BY <1>3, <2>1
<1>5. CASE Divides(p, a)
  <2>1. PICK l \in Int : a = p * l
    BY <1>5 DEF Divides
  <2> DEFINE i == l * h - l
  <2>2. Power(a, n) = a + p * i /\ i \in Int
    <3> HIDE DEF h
    <3>1. (p * l) * h = p * l + p * (l * h - l)
      BY <1>4
    <3> QED
      BY <1>4, <2>1, <3>1
  <2> HIDE DEF i
  <2> QED
    BY <2>2 DEF Congruent
<1>6. CASE ~Divides(p, a)
  <2> DEFINE g == Power(a, p - 1)
  <2>1. Congruent(p, g, 1) /\ g \in Int
    BY <1>0, <1>6, Fermat, PowerRule
  <2>2. h = Power(g, k)
    BY <1>0, <1>2, PowerOfPower
  <2> HIDE DEF g
  <2>3. Congruent(p, Power(g, k), Power(1, k))
    BY <1>2, <2>1, CongruentPower
  <2>4. Congruent(p, h, 1)
    BY <1>2, <2>2, <2>3, PowerOfOne
  <2>5. Congruent(p, a, a)
    BY CongruentSelf
  <2> HIDE DEF h
  <2>6. Congruent(p, a * h, a * 1)
    BY <1>4, <2>4, <2>5, CongruentProduct
  <2>7. a * 1 = a
    OBVIOUS
  <2> QED
    BY <1>4, <2>6, <2>7
<1> QED
  BY <1>5, <1>6
=============================================================================
