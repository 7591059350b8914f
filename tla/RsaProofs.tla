------------------------------- MODULE RsaProofs -------------------------------
(***************************************************************************)
(* Proofs about RsaContext, for keys of any size.  First what its          *)
(* arithmetic computes; then that the exponents of a key that passes the   *)
(* checks undo each other and that the CRT computation is the power by the *)
(* private one; then the blinding values and the private operation; then   *)
(* the invariant of contexts, one lemma to an operation; then the          *)
(* properties; and last the two paddings: strings of bytes, their masks    *)
(* and parts, what OAEP and PSS encode and what they accept.               *)
(***************************************************************************)
EXTENDS RsaContext, DataFacts

-----------------------------------------------------------------------------
(* What the arithmetic computes *)

\* What the code calls a prime is one.
LEMMA PrimeIs ==
  ASSUME NEW p \in Nat, IsPrime(p)
  PROVE  Prime(p)
<1>1. p > 1 /\ \A d \in 2..(p - 1) : p % d # 0
  BY DEF IsPrime
<1>2. ASSUME NEW d \in Nat, Divides(d, p) PROVE d = 1 \/ d = p
  <2>1. PICK k \in Int : p = d * k
    BY <1>2 DEF Divides
  <2>2. d # 0 /\ k # 0
    BY <1>1, <2>1
  <2>3. k >= 1
    <3> SUFFICES ASSUME k <= -1 PROVE FALSE
      BY <2>2
    <3>1. d * k <= d * (-1)
      OBVIOUS
    <3> QED
      BY <1>1, <2>1, <3>1
  <2>4. d <= p
    <3>1. d * k >= d * 1
      BY <2>3
    <3> QED
      BY <2>1, <3>1
  <2>5. p % d = 0
    BY <1>2, <2>2, NoRemainder
  <2> QED
    BY <1>1, <2>2, <2>4, <2>5
<1> QED
  BY <1>1, <1>2 DEF Prime

\* Gcd() is the greatest common divisor.
LEMMA GcdIs ==
  ASSUME NEW a \in Nat \ {0}, NEW b \in Nat
  PROVE  /\ Gcd(a, b) \in Nat \ {0} /\ Gcd(a, b) <= a
         /\ Divides(Gcd(a, b), a) /\ Divides(Gcd(a, b), b)
         /\ \A d \in Nat : Divides(d, a) /\ Divides(d, b) => d <= Gcd(a, b)
<1> DEFINE S == {d \in 1..a : a % d = 0 /\ b % d = 0}
           T == {a - d : d \in S}
<1>1. 1 \in S
  OBVIOUS
<1>2. T \in SUBSET Nat /\ T # {}
  BY <1>1
<1>3. PICK t \in T : \A u \in T : t <= u
  <2> HIDE DEF T
  <2> QED
    BY <1>2, LeastNumber
<1>4. PICK x \in S : t = a - x
  BY <1>3
<1>5. ASSUME NEW y \in S PROVE x >= y
  <2>1. a - y \in T /\ x \in Nat /\ y \in Nat
    OBVIOUS
  <2> HIDE DEF S, T
  <2>2. a - x <= a - y
    BY <1>3, <1>4, <2>1
  <2> QED
    BY <2>1, <2>2
<1> DEFINE g == Max(S)
<1>6. g \in S /\ \A y \in S : g >= y
  BY <1>5 DEF Max
<1>7. Gcd(a, b) = g
  BY DEF Gcd
<1> HIDE DEF g
<1>8. g \in Nat \ {0} /\ g <= a /\ a % g = 0 /\ b % g = 0
  BY <1>6
<1>9. Divides(g, a) /\ Divides(g, b)
  BY <1>8, NoRemainder
<1>10. ASSUME NEW d \in Nat, Divides(d, a), Divides(d, b) PROVE d <= g
  <2>1. PICK k \in Int : a = d * k
    BY <1>10 DEF Divides
  <2>2. d # 0 /\ k # 0
    BY <2>1
  <2>3. k >= 1
    <3> SUFFICES ASSUME k <= -1 PROVE FALSE
      BY <2>2
    <3>1. d * k <= d * (-1)
      OBVIOUS
    <3> QED
      BY <2>1, <3>1
  <2>4. d <= a
    <3>1. d * k >= d * 1
      BY <2>3
    <3> QED
      BY <2>1, <3>1
  <2>5. a % d = 0 /\ b % d = 0
    BY <1>10, <2>2, NoRemainder
  <2>6. d \in S
    BY <2>2, <2>4, <2>5
  <2> QED
    BY <1>6, <2>6
<1> QED
  BY <1>7, <1>8, <1>9, <1>10

\* Numbers whose greatest common divisor is 1 have no other common divisor.
LEMMA GcdCoprime ==
  ASSUME NEW a \in Nat \ {0}, NEW b \in Nat, Gcd(a, b) = 1
  PROVE  Coprime(a, b)
<1>1. ASSUME NEW d \in Nat, Divides(d, a), Divides(d, b) PROVE d = 1
  <2>1. d <= 1
    BY <1>1, GcdIs
  <2>2. d # 0
    BY <1>1 DEF Divides
  <2> QED
    BY <2>1, <2>2
<1> QED
  BY <1>1 DEF Coprime

\* The inverse of a number that has nothing in common with the modulus.
LEMMA InverseIs ==
  ASSUME NEW a \in Nat \ {0}, NEW m \in Nat \ {0}, Coprime(a, m)
  PROVE  /\ Inverse_mod(a, m) \in Nat /\ Inverse_mod(a, m) < m
         /\ Congruent(m, a * Inverse_mod(a, m), 1)
<1>1. PICK u, v \in Int : u * a + v * m = 1
  BY Bezout
<1> DEFINE x == u % m
           i == Inverse_mod(a, m)
<1>2. x \in Nat /\ x < m /\ Congruent(m, x, u) /\ x \in Int
  BY Division, CongruentToRemainder
<1> HIDE DEF x
<1>3. Congruent(m, a, a) /\ a \in Int
  BY CongruentSelf
<1>4. Congruent(m, a * x, a * u)
  BY <1>2, <1>3, CongruentProduct
<1>5. a * u = 1 + m * (-v) /\ -v \in Int
  BY <1>1
<1> DEFINE y == a * x
           z == a * u
           w == -v
<1>6. y \in Int /\ z \in Int /\ w \in Int /\ z = 1 + m * w /\ Congruent(m, y, z) /\ 1 \in Int
  BY <1>2, <1>4, <1>5
<1> HIDE DEF y, z, w
<1>7. Congruent(m, z, 1)
  BY <1>6 DEF Congruent
<1>8. Congruent(m, y, 1)
  BY <1>6, <1>7, CongruentChain
<1>9. y % m = 1 % m
  BY <1>6, <1>8, SameRemainder
<1>10. x \in 0..(m - 1) /\ (a * x) % m = 1 % m
  BY <1>2, <1>9 DEF y
<1>11. i \in 0..(m - 1) /\ (a * i) % m = 1 % m
  BY <1>10 DEF Inverse_mod
<1> HIDE DEF i
<1> DEFINE j == a * i
<1>12. j \in Int /\ j % m = 1 % m
  BY <1>11
<1> HIDE DEF j
<1>13. Congruent(m, j, 1)
  BY <1>6, <1>12, SameRemainder
<1> QED
  BY <1>11, <1>13 DEF i, j

-----------------------------------------------------------------------------
\* The recursion of PowMod().
Halves(base, m, h) ==
  h = [n \in Nat |-> IF n = 0 THEN 1 % m
                     ELSE LET half == h[n \div 2] IN (((half * half) % m) * (IF n % 2 = 1 THEN base % m ELSE 1)) % m]
Step(base, m, n, half) == (((half * half) % m) * (IF n % 2 = 1 THEN base % m ELSE 1)) % m

\* One step of it on remainders of powers.
LEMMA PowerHalved ==
  ASSUME NEW base \in Nat, NEW m \in Nat \ {0}, NEW n \in Nat, n # 0,
         NEW half \in Nat, half = Power(base, n \div 2) % m
  PROVE  Step(base, m, n, half) = Power(base, n) % m
<1> DEFINE k == n \div 2
           h == Power(base, k)
           hh == h * h
           x == half * half
           r == x % m
<1>1. k \in Nat /\ (n = k + k \/ n = (k + k) + 1) /\ (n % 2 = 1 <=> n = (k + k) + 1)
  OBVIOUS
<1>2. base \in Int /\ k + k \in Nat
  BY <1>1
<1> HIDE DEF k
<1>3. h \in Int /\ Power(base, k + k) = hh /\ Power(base, (k + k) + 1) = base * hh
  <2>1. h \in Int
    BY <1>1, <1>2, PowerRule
  <2>2. Power(base, k + k) = hh
    BY <1>1, <1>2, PowerSum
  <2>3. Power(base, (k + k) + 1) = base * Power(base, k + k)
    <3> DEFINE l == k + k
    <3>1. l \in Nat
      BY <1>2
    <3> HIDE DEF l
    <3>2. Power(base, l + 1) = base * Power(base, l)
      BY <1>2, <3>1, PowerRule
    <3> QED
      BY <3>2 DEF l
  <2> HIDE DEF h
  <2> QED
    BY <2>1, <2>2, <2>3
<1>4. Congruent(m, half, h)
  BY <1>1, <1>2, <1>3, CongruentToRemainder DEF k
<1> HIDE DEF h
<1>5. Congruent(m, x, hh) /\ x \in Int /\ hh \in Int
  <2>1. half \in Int /\ m \in Nat
    OBVIOUS
  <2>2. Congruent(m, half * half, h * h)
    BY <1>3, <1>4, <2>1, CongruentProduct
  <2> QED
    BY <1>3, <2>1, <2>2
<1> HIDE DEF x, hh
<1>6. Congruent(m, r, x) /\ r \in Int
  BY <1>5, CongruentToRemainder
<1> HIDE DEF r
<1>7. Congruent(m, r, hh)
  BY <1>5, <1>6, CongruentChain
<1>8. CASE n = k + k
  <2>1. r * 1 = r
    BY <1>6
  <2>2. r % m = hh % m
    BY <1>5, <1>6, <1>7, SameRemainder
  <2> QED
    BY <1>1, <1>3, <1>8, <2>1, <2>2 DEF r, x, Step
<1>9. CASE n = (k + k) + 1
  <2> DEFINE b == base % m
  <2>1. Congruent(m, b, base) /\ b \in Int
    BY <1>2, CongruentToRemainder
  <2> HIDE DEF b
  <2> DEFINE y == r * b
             z == hh * base
  <2>2. Congruent(m, y, z) /\ y \in Int /\ z \in Int
    BY <1>2, <1>5, <1>6, <1>7, <2>1, CongruentProduct
  <2>3. z = base * hh
    BY <1>5
  <2> HIDE DEF y, z
  <2>4. y % m = z % m
    BY <2>2, SameRemainder
  <2>5. n % 2 = 1
    BY <1>1, <1>9
  <2> QED
    BY <1>3, <1>9, <2>3, <2>4, <2>5 DEF r, x, y, b, Step
<1> QED
  BY <1>1, <1>8, <1>9

\* The remainders of powers follow the recursion,
LEMMA HalvesExist ==
  ASSUME NEW base \in Nat, NEW m \in Nat \ {0}
  PROVE  Halves(base, m, [n \in Nat |-> Power(base, n) % m])
<1> DEFINE w == [n \in Nat |-> Power(base, n) % m]
<1>1. ASSUME NEW n \in Nat PROVE w[n] = IF n = 0 THEN 1 % m ELSE Step(base, m, n, w[n \div 2])
  <2>0. base \in Int
    OBVIOUS
  <2>1. CASE n = 0
    BY <2>0, <2>1, PowerRule
  <2>2. CASE n # 0
    <3>1. n \div 2 \in Nat
      OBVIOUS
    <3>2. Power(base, n \div 2) \in Int
      BY <2>0, <3>1, PowerRule
    <3>3. w[n \div 2] = Power(base, n \div 2) % m /\ w[n] = Power(base, n) % m
      BY <3>1
    <3>4. w[n \div 2] \in Nat
      BY <3>2, <3>3
    <3> DEFINE half == w[n \div 2]
    <3> HIDE DEF w
    <3>5. half \in Nat /\ half = Power(base, n \div 2) % m
      BY <3>3, <3>4
    <3> HIDE DEF half
    <3>6. Step(base, m, n, half) = Power(base, n) % m
      BY <2>2, <3>5, PowerHalved
    <3> QED
      BY <2>2, <3>3, <3>6 DEF half
  <2> QED
    BY <2>1, <2>2
<1> HIDE DEF w
<1>2. w = [n \in Nat |-> IF n = 0 THEN 1 % m ELSE Step(base, m, n, w[n \div 2])]
  <2>1. w = [n \in Nat |-> w[n]]
    BY DEF w
  <2> QED
    BY <1>1, <2>1
<1> QED
  BY <1>2 DEF Halves, w, Step

\* and nothing else does.
LEMMA HalvesUnique ==
  ASSUME NEW base \in Nat, NEW m \in Nat \ {0}, NEW h, Halves(base, m, h)
  PROVE  \A n \in Nat : h[n] = Power(base, n) % m
<1> DEFINE Good == {n \in Nat : h[n] = Power(base, n) % m}
<1>1. \A n \in Nat : h[n] = IF n = 0 THEN 1 % m ELSE Step(base, m, n, h[n \div 2])
  BY DEF Halves, Step
<1>2. ASSUME NEW n \in Nat, \A k \in Nat : k < n => k \in Good
      PROVE  n \in Good
  <2>0. base \in Int
    OBVIOUS
  <2>1. CASE n = 0
    BY <1>1, <2>0, <2>1, PowerRule
  <2>2. CASE n # 0
    <3>1. n \div 2 \in Nat /\ n \div 2 < n
      BY <2>2
    <3>2. Power(base, n \div 2) \in Int
      BY <2>0, <3>1, PowerRule
    <3>3. h[n \div 2] = Power(base, n \div 2) % m
      BY <1>2, <3>1
    <3> DEFINE half == h[n \div 2]
    <3>4. half \in Nat /\ half = Power(base, n \div 2) % m
      BY <3>2, <3>3
    <3>5. h[n] = Step(base, m, n, half)
      BY <1>1, <2>2
    <3> HIDE DEF half
    <3>6. Step(base, m, n, half) = Power(base, n) % m
      BY <2>2, <3>4, PowerHalved
    <3> QED
      BY <3>5, <3>6
  <2> QED
    BY <2>1, <2>2
<1> HIDE DEF Good
<1>3. \A n \in Nat : n \in Good
  BY <1>2, StrongInduction
<1> QED
  BY <1>3 DEF Good

\* PowMod() is the remainder of the power.
LEMMA PowModIs ==
  ASSUME NEW base \in Nat, NEW exponent \in Nat, NEW m \in Nat \ {0}
  PROVE  PowMod(base, exponent, m) = Power(base, exponent) % m
<1> DEFINE pow == CHOOSE h : Halves(base, m, h)
<1>1. Halves(base, m, pow)
  BY HalvesExist
<1>2. PowMod(base, exponent, m) = pow[exponent]
  BY DEF PowMod, Halves
<1> HIDE DEF pow
<1>3. pow[exponent] = Power(base, exponent) % m
  BY <1>1, HalvesUnique
<1> QED
  BY <1>2, <1>3

\* Exponents that are congruent modulo p - 1 give powers that are congruent modulo p.
LEMMA FermatExponents ==
  ASSUME NEW p \in Nat, Prime(p), NEW a \in Nat, NEW m \in Nat, m > 0, NEW k \in Nat
  PROVE  Congruent(p, Power(a, m + (p - 1) * k), Power(a, m))
<1> DEFINE n == m - 1
           l == 1 + (p - 1) * k
           x == Power(a, n)
           y == Power(a, l)
<1>1. p - 1 \in Nat /\ n \in Nat
  BY DEF Prime
<1>2. l \in Nat /\ l > 0 /\ m + (p - 1) * k = n + l /\ Congruent(p - 1, l, 1)
  <2>1. (p - 1) * k \in Nat
    BY <1>1
  <2>2. l \in Nat /\ l > 0 /\ m + (p - 1) * k = n + l
    BY <2>1
  <2> QED
    BY <2>2 DEF Congruent
<1>3. a \in Int /\ m = n + 1 /\ p \in Nat
  OBVIOUS
<1> HIDE DEF n, l
<1>4. Power(a, n + l) = x * y /\ Power(a, n + 1) = a * x /\ x \in Int /\ y \in Int
  <2>1. Power(a, n + l) = x * y
    BY <1>1, <1>2, <1>3, PowerSum
  <2>2. Power(a, n + 1) = a * x /\ x \in Int
    BY <1>1, <1>3, PowerRule
  <2>3. y \in Int
    BY <1>2, <1>3, PowerRule
  <2> QED
    BY <2>1, <2>2, <2>3
<1>5. Congruent(p, y, a)
  BY <1>2, FermatExponent
<1> HIDE DEF x, y
<1>6. Congruent(p, x, x)
  BY <1>4, CongruentSelf
<1>7. Congruent(p, x * y, x * a)
  BY <1>3, <1>4, <1>5, <1>6, CongruentProduct
<1>8. x * a = a * x
  BY <1>4
<1> QED
  BY <1>2, <1>3, <1>4, <1>7, <1>8

\* The same for two exponents, either of which may be the larger one.
LEMMA FermatSame ==
  ASSUME NEW p \in Nat, Prime(p), NEW a \in Nat, NEW m \in Nat, m > 0, NEW n \in Nat, n > 0,
         Congruent(p - 1, m, n)
  PROVE  Congruent(p, Power(a, m), Power(a, n))
<1>1. PICK k \in Int : m = n + (p - 1) * k
  BY DEF Congruent
<1>2. Power(a, m) \in Int /\ Power(a, n) \in Int
  <2>1. a \in Int
    OBVIOUS
  <2> QED
    BY <2>1, PowerRule
<1>3. CASE k \in Nat
  BY <1>1, <1>3, FermatExponents
<1>4. CASE -k \in Nat
  <2> DEFINE l == -k
  <2>1. l \in Nat /\ n = m + (p - 1) * l
    BY <1>1, <1>4
  <2> HIDE DEF l
  <2>2. Congruent(p, Power(a, n), Power(a, m))
    BY <2>1, FermatExponents
  <2> QED
    BY <1>2, <2>2, CongruentSwap
<1> QED
  BY <1>3, <1>4

-----------------------------------------------------------------------------
(* Accepted keys *)

Contexts == [N : Nat, P : Nat, Q : Nat, D : Nat, E : Nat, DP : Nat, DQ : Nat, QP : Nat,
             Vi : Nat, Vf : Nat, blinding : BOOLEAN, used : BOOLEAN, len : Nat,
             padding : {"V15", "V21"}, hash : BOOLEAN]

\* A context that passes the checks, made of primes.
Accepted(c) == mbedtls_rsa_check_privkey(c) /\ Prime(c.P) /\ Prime(c.Q)

\* The form in which the checks of a key state a congruence.
LEMMA RemainderOfDifference ==
  ASSUME NEW m \in Nat \ {0}, NEW a \in Int, NEW b \in Int, (a - b) % m = 0
  PROVE  Congruent(m, a, b)
<1>1. a - b \in Int
  OBVIOUS
<1>2. Divides(m, a - b)
  BY <1>1, NoRemainder
<1> QED
  BY <1>2, CongruentIsDivided

\* What the checks of a private key say.
LEMMA AcceptedFacts ==
  ASSUME NEW c \in Contexts, Accepted(c)
  PROVE  /\ c.N = c.P * c.Q /\ c.P > 1 /\ c.Q > 1 /\ c.P # c.Q /\ c.N > 1
         /\ c.D > 0 /\ c.E > 0 /\ c.DP > 0 /\ c.DQ > 0
         /\ Congruent(c.P - 1, c.D * c.E, 1) /\ Congruent(c.Q - 1, c.D * c.E, 1)
         /\ Congruent(c.P - 1, c.DP, c.D) /\ Congruent(c.Q - 1, c.DQ, c.D)
         /\ Congruent(c.P, c.QP * c.Q, 1)
<1>1. /\ c.N \in Nat /\ c.P \in Nat /\ c.Q \in Nat /\ c.D \in Nat /\ c.E \in Nat /\ c.DP \in Nat /\ c.DQ \in Nat
      /\ c.QP \in Nat
  BY DEF Contexts
<1>2. /\ c.E > 0 /\ c.DP > 0 /\ c.DQ > 0 /\ c.N = c.P * c.Q /\ c.P > 1 /\ c.Q > 1 /\ c.D > 1
      /\ c.D < c.N
      /\ (c.D * c.E - 1) % (c.P - 1) = 0 /\ (c.D * c.E - 1) % (c.Q - 1) = 0
      /\ (c.DP - c.D) % (c.P - 1) = 0 /\ (c.DQ - c.D) % (c.Q - 1) = 0
      /\ (c.QP * c.Q - 1) % c.P = 0
  BY DEF Accepted, mbedtls_rsa_check_privkey, rsa_check_context, validate_params, validate_crt
<1>3. c.P - 1 \in Nat \ {0} /\ c.Q - 1 \in Nat \ {0} /\ c.P \in Nat \ {0}
  BY <1>1, <1>2
<1>4. c.D * c.E \in Int /\ c.QP * c.Q \in Int /\ 1 \in Int /\ c.D \in Int /\ c.DP \in Int /\ c.DQ \in Int
  BY <1>1
<1>5. Congruent(c.P - 1, c.D * c.E, 1) /\ Congruent(c.Q - 1, c.D * c.E, 1)
  <2> DEFINE de == c.D * c.E
             p1 == c.P - 1
             q1 == c.Q - 1
  <2>1. de \in Int /\ (de - 1) % p1 = 0 /\ (de - 1) % q1 = 0 /\ p1 \in Nat \ {0} /\ q1 \in Nat \ {0} /\ 1 \in Int
    BY <1>2, <1>3, <1>4
  <2> HIDE DEF de, p1, q1
  <2>2. Congruent(p1, de, 1) /\ Congruent(q1, de, 1)
    BY <2>1, RemainderOfDifference
  <2> QED
    BY <2>2 DEF de, p1, q1
<1>6. Congruent(c.P - 1, c.DP, c.D) /\ Congruent(c.Q - 1, c.DQ, c.D)
  <2> DEFINE p1 == c.P - 1
             q1 == c.Q - 1
  <2>1. (c.DP - c.D) % p1 = 0 /\ (c.DQ - c.D) % q1 = 0 /\ p1 \in Nat \ {0} /\ q1 \in Nat \ {0}
    BY <1>2, <1>3
  <2> HIDE DEF p1, q1
  <2>2. Congruent(p1, c.DP, c.D) /\ Congruent(q1, c.DQ, c.D)
    BY <1>4, <2>1, RemainderOfDifference
  <2> QED
    BY <2>2 DEF p1, q1
<1>7. Congruent(c.P, c.QP * c.Q, 1)
  <2> DEFINE x == c.QP * c.Q
  <2>1. x \in Int /\ (x - 1) % c.P = 0
    BY <1>2, <1>4
  <2> HIDE DEF x
  <2>2. Congruent(c.P, x, 1)
    BY <1>3, <1>4, <2>1, RemainderOfDifference
  <2> QED
    BY <2>2 DEF x
<1>8. c.P # c.Q
  <2> SUFFICES ASSUME c.P = c.Q PROVE FALSE
    OBVIOUS
  <2>1. PICK k \in Int : c.QP * c.P = 1 + c.P * k
    BY <1>7 DEF Congruent
  <2> DEFINE l == c.QP - k
  <2>2. l \in Int /\ 1 = c.P * l
    BY <1>1, <2>1
  <2> HIDE DEF l
  <2>3. Divides(c.P, 1)
    BY <2>2 DEF Divides
  <2>4. ~Divides(c.P, 1)
    BY <1>1, <1>2, SmallNotDivided
  <2> QED
    BY <2>3, <2>4
<1>9. c.N > 1
  BY <1>1, <1>2
<1> QED
  BY <1>1, <1>2, <1>5, <1>6, <1>7, <1>8, <1>9

\* What is congruent modulo both factors of the modulus is congruent modulo it.
LEMMA CongruentModulus ==
  ASSUME NEW c \in Contexts, Accepted(c), NEW a \in Int, NEW b \in Int,
         Congruent(c.P, a, b), Congruent(c.Q, a, b)
  PROVE  Congruent(c.N, a, b)
<1>1. c.N = c.P * c.Q /\ c.P > 1 /\ c.P # c.Q /\ Prime(c.P) /\ Prime(c.Q)
  BY AcceptedFacts DEF Accepted
<1>2. c.P \in Nat /\ c.Q \in Nat
  BY DEF Contexts
<1>3. Coprime(c.P, c.Q) /\ c.P \in Nat \ {0}
  BY <1>1, <1>2, PrimesCoprime
<1> QED
  BY <1>1, <1>2, <1>3, CongruentBoth

\* The private exponent undoes the public one.
LEMMA ExponentsUndo ==
  ASSUME NEW c \in Contexts, Accepted(c), NEW a \in Nat
  PROVE  Congruent(c.N, Power(a, c.D * c.E), a)
<1> DEFINE n == c.D * c.E
<1>1. c.D > 0 /\ c.E > 0 /\ Congruent(c.P - 1, n, 1) /\ Congruent(c.Q - 1, n, 1) /\ Prime(c.P) /\ Prime(c.Q)
  BY AcceptedFacts DEF Accepted
<1>2. c.P \in Nat /\ c.Q \in Nat /\ c.D \in Nat /\ c.E \in Nat
  BY DEF Contexts
<1>3. n \in Nat /\ n > 0
  BY <1>1, <1>2
<1> HIDE DEF n
<1>4. Congruent(c.P, Power(a, n), a) /\ Congruent(c.Q, Power(a, n), a)
  BY <1>1, <1>2, <1>3, FermatExponent
<1>5. a \in Int /\ Power(a, n) \in Int
  <2>1. a \in Int
    OBVIOUS
  <2> QED
    BY <1>3, <2>1, PowerRule
<1>6. Congruent(c.N, Power(a, n), a)
  BY <1>4, <1>5, CongruentModulus
<1> QED
  BY <1>6 DEF n

-----------------------------------------------------------------------------
(* The Chinese remainder theorem, as the code uses it *)

\* Put together from its remainders modulo p and q.
Joint(p, q, i, x, y) == y + (((x - y) * i) % p) * q

\* The number put together is below the product, and right modulo q.
LEMMA JointRange ==
  ASSUME NEW p \in Nat \ {0}, NEW q \in Nat \ {0}, NEW i \in Nat, NEW x \in Nat, NEW y \in Nat, y < q
  PROVE  Joint(p, q, i, x, y) \in Nat /\ Joint(p, q, i, x, y) < p * q /\ Congruent(q, Joint(p, q, i, x, y), y)
<1> DEFINE d == (x - y) * i
           h == d % p
<1>1. d \in Int
  OBVIOUS
<1> HIDE DEF d
<1>2. h \in Nat /\ h < p
  BY <1>1, Division
<1> HIDE DEF h
<1>3. y + h * q \in Nat /\ y + h * q = y + q * h /\ h \in Int
  BY <1>2
<1>4. y + h * q < p * q
  <2>1. h <= p - 1
    BY <1>2
  <2>2. h * q <= (p - 1) * q
    BY <1>2, <2>1
  <2>3. (p - 1) * q = p * q - q
    OBVIOUS
  <2> QED
    BY <1>2, <2>2, <2>3
<1> QED
  BY <1>3, <1>4 DEF Joint, d, h, Congruent

\* It is right modulo p.
LEMMA JointFirst ==
  ASSUME NEW p \in Nat \ {0}, NEW q \in Nat, NEW i \in Nat, Congruent(p, i * q, 1), NEW x \in Nat, NEW y \in Nat
  PROVE  Congruent(p, Joint(p, q, i, x, y), x)
<1> DEFINE e == x - y
           d == e * i
           h == d % p
           j == i * q
<1>1. e \in Int /\ j \in Int /\ Congruent(p, j, 1) /\ p \in Nat
  OBVIOUS
<1> HIDE DEF e
<1>2. d \in Int
  BY <1>1
<1> HIDE DEF d
<1>3. h \in Int /\ Congruent(p, h, d)
  BY <1>2, CongruentToRemainder
<1> HIDE DEF h
<1>4. q \in Int /\ Congruent(p, q, q)
  BY CongruentSelf
<1>5. Congruent(p, h * q, d * q)
  BY <1>1, <1>2, <1>3, <1>4, CongruentProduct
<1>6. Congruent(p, e * j, e * 1)
  <2>1. Congruent(p, e, e)
    BY <1>1, CongruentSelf
  <2>2. 1 \in Int
    OBVIOUS
  <2> HIDE DEF j
  <2> QED
    BY <1>1, <2>1, <2>2, CongruentProduct
<1>7. d * q = e * j /\ e * 1 = e
  BY <1>1 DEF d
<1> DEFINE hq == h * q
           ej == e * j
<1>8. hq \in Int /\ ej \in Int /\ Congruent(p, hq, ej) /\ Congruent(p, ej, e)
  BY <1>1, <1>3, <1>5, <1>6, <1>7
<1> HIDE DEF hq, ej
<1>9. Congruent(p, hq, e)
  BY <1>1, <1>8, CongruentChain
<1>10. y \in Int /\ Congruent(p, y, y)
  BY CongruentSelf
<1>11. Congruent(p, y + hq, y + e)
  BY <1>1, <1>8, <1>9, <1>10, CongruentSum
<1>12. y + e = x
  BY DEF e
<1> QED
  BY <1>11, <1>12 DEF Joint, hq, h, d, e

\* A power modulo one of the primes, with the exponent the CRT computation uses.
LEMMA CrtPower ==
  ASSUME NEW p \in Nat, Prime(p), NEW t \in Nat, NEW d \in Nat, d > 0, NEW dp \in Nat, dp > 0,
         Congruent(p - 1, dp, d), NEW r \in Nat
  PROVE  /\ PowMod(t, dp + (p - 1) * r, p) \in Nat /\ PowMod(t, dp + (p - 1) * r, p) < p
         /\ Congruent(p, PowMod(t, dp + (p - 1) * r, p), Power(t, d))
<1> DEFINE n == dp + (p - 1) * r
           x == Power(t, n)
           y == PowMod(t, n, p)
           z == Power(t, dp)
           w == Power(t, d)
<1>1. p \in Nat \ {0} /\ p - 1 \in Nat
  BY DEF Prime
<1>2. n \in Nat
  <2>1. (p - 1) * r \in Nat
    BY <1>1
  <2> QED
    BY <2>1
<1>3. Congruent(p, x, z)
  BY FermatExponents
<1>4. Congruent(p, z, w)
  BY FermatSame
<1> HIDE DEF n
<1>5. y = x % p
  BY <1>1, <1>2, PowModIs
<1>6. t \in Int
  OBVIOUS
<1>7. x \in Int /\ z \in Int /\ w \in Int
  BY <1>2, <1>6, PowerRule
<1> HIDE DEF x, y, z, w
<1>8. y \in Nat /\ y < p /\ Congruent(p, y, x) /\ y \in Int
  BY <1>1, <1>5, <1>7, Division, CongruentToRemainder
<1>9. Congruent(p, y, w)
  <2>1. Congruent(p, y, z)
    BY <1>3, <1>7, <1>8, CongruentChain
  <2> QED
    BY <1>4, <1>7, <1>8, <2>1, CongruentChain
<1> QED
  BY <1>8, <1>9 DEF y, n, w

\* The CRT computation of an accepted key gives the power by the private exponent, and a number
\* below the modulus even when it is disturbed.
LEMMA CrtIs ==
  ASSUME NEW c \in Contexts, Accepted(c), NEW t \in Nat, NEW r \in Nat
  PROVE  /\ Crt(c, t, r, FALSE) \in Nat /\ Crt(c, t, r, FALSE) < c.N
         /\ Congruent(c.N, Crt(c, t, r, FALSE), Power(t, c.D))
         /\ Crt(c, t, r, TRUE) \in Nat /\ Crt(c, t, r, TRUE) < c.N
<1>1. /\ c.P \in Nat /\ c.Q \in Nat /\ c.D \in Nat /\ c.DP \in Nat /\ c.DQ \in Nat /\ c.QP \in Nat
  BY DEF Contexts
<1>2. /\ c.N = c.P * c.Q /\ c.P > 1 /\ c.Q > 1 /\ c.D > 0 /\ c.DP > 0 /\ c.DQ > 0
      /\ Congruent(c.P - 1, c.DP, c.D) /\ Congruent(c.Q - 1, c.DQ, c.D) /\ Congruent(c.P, c.QP * c.Q, 1)
      /\ Prime(c.P) /\ Prime(c.Q)
  BY AcceptedFacts DEF Accepted
<1> DEFINE x == PowMod(t, c.DP + (c.P - 1) * r, c.P)
           y == PowMod(t, c.DQ + (c.Q - 1) * r, c.Q)
           w == Power(t, c.D)
           z == (x + 1) % c.P
<1>3. x \in Nat /\ x < c.P /\ Congruent(c.P, x, w)
  BY <1>1, <1>2, CrtPower
<1>4. y \in Nat /\ y < c.Q /\ Congruent(c.Q, y, w)
  BY <1>1, <1>2, CrtPower
<1>5. w \in Int
  <2>1. t \in Int
    OBVIOUS
  <2> QED
    BY <1>1, <2>1, PowerRule
<1>6. c.P \in Nat \ {0} /\ c.Q \in Nat \ {0}
  BY <1>1, <1>2
<1>7. x % c.P = x /\ (x + 0) % c.P = x /\ z \in Nat
  <2> HIDE DEF x
  <2>1. x + 0 = x /\ x = c.P * 0 + x /\ x + 1 \in Int
    BY <1>1, <1>3
  <2>2. x % c.P = x
    BY <1>3, <1>6, <2>1, Remainder
  <2>3. z \in Nat
    BY <1>6, <2>1, Division
  <2> QED
    BY <2>1, <2>2, <2>3
<1>8. Crt(c, t, r, FALSE) = Joint(c.P, c.Q, c.QP, x, y) /\ Crt(c, t, r, TRUE) = Joint(c.P, c.Q, c.QP, z, y)
  BY <1>7 DEF Crt, Joint
<1> HIDE DEF x, y, z, w
<1> DEFINE j == Joint(c.P, c.Q, c.QP, x, y)
<1>9. j \in Nat /\ j < c.P * c.Q /\ Congruent(c.Q, j, y)
  BY <1>1, <1>3, <1>4, <1>6, JointRange
<1>10. Joint(c.P, c.Q, c.QP, z, y) \in Nat /\ Joint(c.P, c.Q, c.QP, z, y) < c.P * c.Q
  BY <1>1, <1>4, <1>6, <1>7, JointRange
<1>11. Congruent(c.P, j, x)
  BY <1>1, <1>2, <1>3, <1>4, <1>6, JointFirst
<1> HIDE DEF j
<1>12. j \in Int /\ x \in Int /\ y \in Int
  BY <1>3, <1>4, <1>9
<1>13. Congruent(c.P, j, w) /\ Congruent(c.Q, j, w)
  BY <1>1, <1>3, <1>4, <1>5, <1>9, <1>11, <1>12, CongruentChain
<1>14. Congruent(c.N, j, w)
  BY <1>5, <1>12, <1>13, CongruentModulus
<1> QED
  BY <1>2, <1>8, <1>9, <1>10, <1>14 DEF j, w

-----------------------------------------------------------------------------
(* Blinding *)

\* The two contexts hold the same key.
SameKey(b, c) ==
  /\ b.N = c.N /\ b.P = c.P /\ b.Q = c.Q /\ b.D = c.D /\ b.E = c.E
  /\ b.DP = c.DP /\ b.DQ = c.DQ /\ b.QP = c.QP /\ b.len = c.len

\* The blinding values undo each other.
Undo(n, e, f, i) == Congruent(n, Power(f, e) * i, 1)
Blinded(c)       == Undo(c.N, c.E, c.Vf, c.Vi)

\* A greatest common divisor is a number.
LEMMA GcdNat ==
  ASSUME NEW a \in Nat, NEW b \in Nat
  PROVE  Gcd(a, b) \in Nat
<1>1. CASE a = 0
  BY <1>1 DEF Gcd
<1>2. CASE a # 0
  BY <1>2, GcdIs
<1> QED
  BY <1>1, <1>2

\* Squared blinding values undo each other.
LEMMA UndoSquared ==
  ASSUME NEW n \in Nat \ {0}, NEW e \in Nat, NEW f \in Nat, NEW i \in Nat, Undo(n, e, f, i)
  PROVE  Undo(n, e, (f * f) % n, (i * i) % n)
<1> DEFINE g == (f * f) % n
           h == (i * i) % n
           x == Power(f, e)
           y == Power(g, e)
           ff == f * f
           ii == i * i
           xx == x * x
           xi == x * i
<1>1. ff \in Int /\ ii \in Int /\ f \in Int /\ i \in Int /\ n \in Nat
  OBVIOUS
<1>2. x \in Int
  BY <1>1, PowerRule
<1>3. Congruent(n, g, ff) /\ g \in Int /\ Congruent(n, h, ii) /\ h \in Int
  <2> HIDE DEF ff, ii
  <2> QED
    BY <1>1, CongruentToRemainder DEF ff, ii
<1>4. Power(ff, e) = xx
  BY <1>1, PowerOfProduct
<1> HIDE DEF g, h, ff, ii
<1>5. Congruent(n, y, Power(ff, e)) /\ y \in Int
  <2>1. Congruent(n, y, Power(ff, e))
    BY <1>1, <1>3, CongruentPower
  <2>2. y \in Int
    BY <1>3, PowerRule
  <2> QED
    BY <2>1, <2>2
<1> HIDE DEF x, y
<1>6. xx \in Int /\ xi \in Int /\ Congruent(n, xi, 1) /\ 1 \in Int
  <2>1. Congruent(n, xi, 1)
    BY DEF Undo, x
  <2> QED
    BY <1>1, <1>2, <2>1
<1> HIDE DEF xx
<1>7. Congruent(n, y * h, xx * ii)
  BY <1>1, <1>3, <1>4, <1>5, <1>6, CongruentProduct
<1>8. xx * ii = xi * xi
  BY <1>1, <1>2 DEF xx, ii
<1> HIDE DEF xi
<1>9. Congruent(n, xi * xi, 1 * 1)
  BY <1>1, <1>6, CongruentProduct
<1> DEFINE yh == y * h
           sq == xi * xi
<1>10. yh \in Int /\ sq \in Int /\ Congruent(n, yh, sq) /\ Congruent(n, sq, 1)
  BY <1>3, <1>5, <1>6, <1>7, <1>8, <1>9
<1> HIDE DEF yh, sq
<1>11. Congruent(n, yh, 1)
  BY <1>1, <1>6, <1>10, CongruentChain
<1> QED
  BY <1>11 DEF Undo, yh, y, g, h

\* So do new ones.
LEMMA UndoMade ==
  ASSUME NEW n \in Nat \ {0}, NEW e \in Nat, NEW r \in Nat \ {0}, Gcd(r, n) = 1
  PROVE  /\ Inverse_mod(r, n) \in Nat
         /\ PowMod(Inverse_mod(r, n), e, n) \in Nat
         /\ Undo(n, e, r, PowMod(Inverse_mod(r, n), e, n))
<1> DEFINE i == Inverse_mod(r, n)
           x == Power(r, e)
           z == Power(i, e)
           y == PowMod(i, e, n)
           ri == r * i
<1>1. Coprime(r, n)
  BY GcdCoprime
<1>2. i \in Nat /\ Congruent(n, ri, 1)
  BY <1>1, InverseIs
<1> HIDE DEF i
<1>3. y = z % n
  BY <1>2, PowModIs
<1>4. r \in Int /\ i \in Int /\ n \in Nat /\ 1 \in Int
  BY <1>2
<1>5. x \in Int /\ z \in Int
  BY <1>4, PowerRule
<1>6. Power(ri, e) = x * z /\ ri \in Int
  BY <1>4, PowerOfProduct
<1> HIDE DEF ri
<1>7. Congruent(n, Power(ri, e), Power(1, e))
  BY <1>2, <1>4, <1>6, CongruentPower
<1>8. Power(1, e) = 1
  BY PowerOfOne
<1> HIDE DEF x, z, y
<1>9. y \in Nat /\ Congruent(n, y, z) /\ y \in Int
  BY <1>3, <1>5, Division, CongruentToRemainder
<1>10. Congruent(n, x, x)
  BY <1>4, <1>5, CongruentSelf
<1>11. Congruent(n, x * y, x * z)
  BY <1>4, <1>5, <1>9, <1>10, CongruentProduct
<1> DEFINE xy == x * y
           xz == x * z
<1>12. xy \in Int /\ xz \in Int /\ Congruent(n, xy, xz) /\ Congruent(n, xz, 1)
  BY <1>5, <1>6, <1>7, <1>8, <1>9, <1>11
<1> HIDE DEF xy, xz
<1>13. Congruent(n, xy, 1)
  BY <1>4, <1>12, CongruentChain
<1> QED
  BY <1>2, <1>9, <1>13 DEF Undo, xy, x, y, i

\* What rsa_prepare_blinding() leaves behind.
LEMMA Prepares ==
  ASSUME NEW c \in Contexts, c.N > 1, NEW prepared \in rsa_prepare_blinding(c)
  PROVE  /\ prepared[1] \in Contexts /\ SameKey(prepared[1], c)
         /\ prepared[1].blinding /\ (c.used \/ ~c.blinding => prepared[1].used)
         /\ prepared[2] /\ (c.blinding => Blinded(c)) => Blinded(prepared[1])
<1>1. c.N \in Nat \ {0} /\ c.E \in Nat /\ c.Vi \in Nat /\ c.Vf \in Nat /\ c.blinding \in BOOLEAN
  BY DEF Contexts
<1>2. CASE c.blinding
  <2> DEFINE vi == (c.Vi * c.Vi) % c.N
             vf == (c.Vf * c.Vf) % c.N
             both == [c EXCEPT !.Vi = vi, !.Vf = vf]
             one  == [c EXCEPT !.Vi = vi]
  <2>1. prepared = <<both, TRUE>> \/ prepared = <<one, FALSE>>
    BY <1>2 DEF rsa_prepare_blinding, Squared
  <2>2. vi \in Nat /\ vf \in Nat
    <3>1. c.Vi * c.Vi \in Int /\ c.Vf * c.Vf \in Int
      BY <1>1
    <3> QED
      BY <1>1, <3>1, Division
  <2>3. Blinded(c) => Undo(c.N, c.E, vf, vi)
    BY <1>1, UndoSquared DEF Blinded
  <2> HIDE DEF vi, vf
  <2>4. both \in Contexts /\ one \in Contexts
    BY <2>2 DEF Contexts
  <2>5. SameKey(both, c) /\ SameKey(one, c) /\ both.Vi = vi /\ both.Vf = vf /\ both.N = c.N /\ both.E = c.E
        /\ both.blinding = c.blinding /\ one.blinding = c.blinding /\ both.used = c.used /\ one.used = c.used
    BY DEF SameKey, Contexts
  <2> HIDE DEF both, one
  <2>6. prepared[2] => prepared[1] = both
    <3>1. CASE prepared = <<both, TRUE>>
      BY <3>1
    <3>2. CASE prepared = <<one, FALSE>>
      BY <3>2
    <3> QED
      BY <2>1, <3>1, <3>2
  <2>7. prepared[1] = both \/ prepared[1] = one
    <3>1. CASE prepared = <<both, TRUE>>
      BY <3>1
    <3>2. CASE prepared = <<one, FALSE>>
      BY <3>2
    <3> QED
      BY <2>1, <3>1, <3>2
  <2>8. Blinded(c) => Blinded(both)
    BY <2>3, <2>5 DEF Blinded
  <2>9. prepared[1].blinding /\ (c.used => prepared[1].used)
    BY <1>2, <2>5, <2>7
  <2> QED
    BY <1>2, <2>4, <2>5, <2>6, <2>7, <2>8, <2>9
<1>3. CASE ~c.blinding
  <2> DEFINE left(f, i) == [c EXCEPT !.blinding = TRUE, !.used = TRUE, !.Vf = f, !.Vi = i]
  <2>1. PICK r \in Randoms :
          \/ Gcd(r, c.N) # 1 /\ prepared = <<left(r, Gcd(r, c.N)), FALSE>>
          \/ /\ Gcd(r, c.N) = 1
             /\ \/ prepared = <<left(r, 0), FALSE>> \/ prepared = <<left(r, 1), FALSE>>
                \/ prepared = <<left(r, Inverse_mod(r, c.N)), FALSE>>
                \/ prepared = <<left(r, PowMod(Inverse_mod(r, c.N), c.E, c.N)), TRUE>>
    BY <1>3 DEF rsa_prepare_blinding
  <2>2. r \in Nat
    BY ArgumentsAssumption
  <2>3. Gcd(r, c.N) \in Nat
    BY <1>1, <2>2, GcdNat
  <2>4. Gcd(r, c.N) = 1 => r # 0
    BY <1>1 DEF Gcd
  <2> DEFINE inv == Inverse_mod(r, c.N)
             pow == PowMod(inv, c.E, c.N)
  <2>5. Gcd(r, c.N) = 1 => inv \in Nat /\ pow \in Nat /\ Undo(c.N, c.E, r, pow)
    BY <1>1, <2>2, <2>4, UndoMade
  <2> HIDE DEF inv, pow
  <2>6. PICK i \in Nat : /\ prepared[1] = left(r, i)
                         /\ prepared[2] => Undo(c.N, c.E, r, i)
    <3> HIDE DEF left
    <3>1. ASSUME NEW i \in Nat, prepared = <<left(r, i), FALSE>>
          PROVE  prepared[1] = left(r, i) /\ ~prepared[2]
      BY <3>1
    <3>2. CASE prepared = <<left(r, pow), TRUE>> /\ Gcd(r, c.N) = 1
      <4>1. prepared[1] = left(r, pow)
        BY <3>2
      <4> QED
        BY <2>5, <3>2, <4>1
    <3>3. CASE \E i \in Nat : prepared = <<left(r, i), FALSE>>
      BY <3>1, <3>3
    <3>4. \/ \E i \in Nat : prepared = <<left(r, i), FALSE>>
          \/ prepared = <<left(r, pow), TRUE>> /\ Gcd(r, c.N) = 1
      BY <2>1, <2>3, <2>5 DEF inv, pow
    <3> QED
      BY <3>2, <3>3, <3>4
  <2> DEFINE b == left(r, i)
  <2>7. b \in Contexts
    BY <2>2 DEF Contexts
  <2>8. SameKey(b, c) /\ b.Vf = r /\ b.Vi = i /\ b.N = c.N /\ b.E = c.E /\ b.blinding /\ b.used
    BY DEF SameKey, Contexts
  <2>9. prepared[1] = b
    BY <2>6
  <2> HIDE DEF b, left
  <2>10. prepared[2] => Blinded(prepared[1])
    BY <2>6, <2>8, <2>9 DEF Blinded
  <2> QED
    BY <2>7, <2>8, <2>9, <2>10
<1> QED
  BY <1>1, <1>2, <1>3

-----------------------------------------------------------------------------
(* The private operation *)

\* The contexts it may compute with, and whether they are complete.
Preparations(c, rng) == IF rng THEN rsa_prepare_blinding(c) ELSE {<<c, TRUE>>}
\* The number it computes.
Result(c, b, rng, in, glitch) ==
  IF rng THEN (Crt(c, (in * b.Vi) % c.N, 1, glitch) * b.Vf) % c.N ELSE Crt(c, in, 0, glitch)

\* The ways in which it can end.
Computes(c, rng, in, ran, b) ==
  \/ ran = Ran(b, "PRIVATE_FAILED", 0, TRUE, FALSE)
  \/ \E glitch \in BOOLEAN :
       \/ /\ Verified(c, Result(c, b, rng, in, glitch), in)
          /\ ran = Ran([b EXCEPT !.used = TRUE], "ok", Result(c, b, rng, in, glitch), glitch, FALSE)
       \/ /\ ~Verified(c, Result(c, b, rng, in, glitch), in)
          /\ ran = Ran([b EXCEPT !.used = TRUE], "VERIFY_FAILED", 0, glitch, FALSE)
\* mbedtls_rsa_private() ends in one of these ways.
LEMMA PrivateCases ==
  ASSUME NEW c, NEW rng, NEW in, NEW ran \in mbedtls_rsa_private(c, rng, in)
  PROVE  \/ ~rsa_check_context(c, TRUE) /\ ran = Ran(c, "BAD_INPUT_DATA", 0, FALSE, FALSE)
         \/ in >= c.N /\ ran = Ran(c, "PRIVATE_FAILED", 0, FALSE, FALSE)
         \/ /\ rsa_check_context(c, TRUE)
            /\ \E prepared \in Preparations(c, rng) :
                 \/ ~prepared[2] /\ ran = Ran(prepared[1], "PRIVATE_FAILED", 0, FALSE, TRUE)
                 \/ prepared[2] /\ Computes(c, rng, in, ran, prepared[1])
<1>1. CASE ~rsa_check_context(c, TRUE)
  BY <1>1 DEF mbedtls_rsa_private
<1>2. CASE rsa_check_context(c, TRUE) /\ in >= c.N
  BY <1>2 DEF mbedtls_rsa_private
<1>3. CASE rsa_check_context(c, TRUE) /\ ~(in >= c.N)
  <2>1. PICK prepared \in Preparations(c, rng) :
          ran \in IF ~prepared[2] THEN {Ran(prepared[1], "PRIVATE_FAILED", 0, FALSE, TRUE)}
                  ELSE {Ran(prepared[1], "PRIVATE_FAILED", 0, TRUE, FALSE)} \cup
                    {LET t == Result(c, prepared[1], rng, in, glitch)
                     IN  IF Verified(c, t, in) THEN Ran([prepared[1] EXCEPT !.used = TRUE], "ok", t, glitch, FALSE)
                         ELSE Ran([prepared[1] EXCEPT !.used = TRUE], "VERIFY_FAILED", 0, glitch, FALSE) :
                       glitch \in BOOLEAN}
    BY <1>3, Zenon DEF mbedtls_rsa_private, Preparations, Result
  <2> DEFINE b == prepared[1]
  <2>2. CASE ~prepared[2]
    BY <1>3, <2>1, <2>2
  <2>3. CASE prepared[2]
    <3>1. \/ ran = Ran(b, "PRIVATE_FAILED", 0, TRUE, FALSE)
          \/ \E glitch \in BOOLEAN :
               ran = IF Verified(c, Result(c, b, rng, in, glitch), in)
                     THEN Ran([b EXCEPT !.used = TRUE], "ok", Result(c, b, rng, in, glitch), glitch, FALSE)
                     ELSE Ran([b EXCEPT !.used = TRUE], "VERIFY_FAILED", 0, glitch, FALSE)
      BY <2>1, <2>3, Zenon
    <3>2. Computes(c, rng, in, ran, b)
      BY <3>1, Zenon DEF Computes
    <3> QED
      BY <1>3, <2>3, <3>2
  <2> QED
    BY <2>2, <2>3
<1> QED
  BY <1>1, <1>2, <1>3

\* The context it computes with.
Sound(c, b, done, rng) ==
  /\ b \in Contexts /\ SameKey(b, c)
  /\ b.blinding => b.used
  /\ rng => b.blinding
  /\ done /\ b.blinding /\ (c.blinding => Blinded(c)) => Blinded(b)
\* The context prepared is sound.
LEMMA PreparationIs ==
  ASSUME NEW c \in Contexts, c.N > 1, c.blinding => c.used, NEW rng \in BOOLEAN,
         NEW prepared \in Preparations(c, rng)
  PROVE  Sound(c, prepared[1], prepared[2], rng)
<1>1. CASE rng
  BY <1>1, Prepares DEF Preparations, Sound
<1>2. CASE ~rng
  <2>1. prepared = <<c, TRUE>>
    BY <1>2 DEF Preparations
  <2>2. prepared[1] = c /\ prepared[2] = TRUE
    BY <2>1
  <2> QED
    BY <1>2, <2>2 DEF Sound, SameKey
<1> QED
  BY <1>1, <1>2

\* What it leaves of the context, whatever its input.
Leaves(c, ran) ==
  /\ ran.c \in Contexts /\ SameKey(ran.c, c)
  /\ ran.c.blinding => ran.c.used /\ (c.blinding \/ c.N > 1)
  /\ ran.bad \in BOOLEAN
  /\ ~ran.bad /\ ran.c.blinding /\ (c.blinding => Blinded(c)) => Blinded(ran.c)
\* Marking a context as used changes nothing else.
LEMMA SameBlinding ==
  ASSUME NEW c \in Contexts, NEW b \in Contexts, SameKey(b, c)
  PROVE  LET d == [b EXCEPT !.used = TRUE]
         IN  /\ d \in Contexts /\ SameKey(d, c) /\ d.used /\ (d.blinding <=> b.blinding)
             /\ Blinded(d) <=> Blinded(b)
<1> DEFINE d == [b EXCEPT !.used = TRUE]
<1>1. /\ d \in Contexts /\ SameKey(d, c) /\ d.used /\ d.blinding = b.blinding
      /\ d.N = b.N /\ d.E = b.E /\ d.Vi = b.Vi /\ d.Vf = b.Vf
  BY DEF Contexts, SameKey
<1> HIDE DEF d
<1>2. Blinded(d) <=> Blinded(b)
  BY <1>1 DEF Blinded
<1> QED
  BY <1>1, <1>2 DEF d

\* mbedtls_rsa_private() leaves a sound context of the same key, whatever its input.
LEMMA PrivateLeaves ==
  ASSUME NEW c \in Contexts, c.N # 0 => c.N > 1, c.blinding => c.used, NEW rng \in BOOLEAN, NEW in,
         NEW ran \in mbedtls_rsa_private(c, rng, in)
  PROVE  Leaves(c, ran)
<1>1. CASE ran = Ran(c, "BAD_INPUT_DATA", 0, FALSE, FALSE) \/ ran = Ran(c, "PRIVATE_FAILED", 0, FALSE, FALSE)
  <2>1. ran.c = c /\ ran.bad = FALSE
    BY <1>1 DEF Ran
  <2> QED
    BY <2>1 DEF Leaves, SameKey
<1>2. CASE /\ rsa_check_context(c, TRUE)
           /\ \E prepared \in Preparations(c, rng) :
                 \/ ~prepared[2] /\ ran = Ran(prepared[1], "PRIVATE_FAILED", 0, FALSE, TRUE)
                 \/ prepared[2] /\ Computes(c, rng, in, ran, prepared[1])
  <2>1. PICK prepared \in Preparations(c, rng) :
                 \/ ~prepared[2] /\ ran = Ran(prepared[1], "PRIVATE_FAILED", 0, FALSE, TRUE)
                 \/ prepared[2] /\ Computes(c, rng, in, ran, prepared[1])
    BY <1>2
  <2>2. c.N > 1
    BY <1>2 DEF rsa_check_context, Contexts
  <2> DEFINE b == prepared[1]
             done == prepared[2]
             d == [b EXCEPT !.used = TRUE]
  <2>3. Sound(c, b, done, rng)
    BY <2>2, PreparationIs
  <2>4. b \in Contexts /\ SameKey(b, c)
    BY <2>3 DEF Sound
  <2>5. d \in Contexts /\ SameKey(d, c) /\ d.used /\ (d.blinding <=> b.blinding) /\ (Blinded(d) <=> Blinded(b))
    BY <2>4, SameBlinding
  <2>6. \/ ~done /\ ran = Ran(b, "PRIVATE_FAILED", 0, FALSE, TRUE)
        \/ done /\ ran = Ran(b, "PRIVATE_FAILED", 0, TRUE, FALSE)
        \/ done /\ \E glitch, ret, out : ran = Ran(d, ret, out, glitch, FALSE)
    BY <2>1, Zenon DEF Computes
  <2>7. \/ ~done /\ ran.c = b /\ ran.bad = TRUE
        \/ done /\ ran.c = b /\ ran.bad = FALSE
        \/ done /\ ran.c = d /\ ran.bad = FALSE
    <3> HIDE DEF b, d
    <3>1. ASSUME NEW x, NEW ret, NEW out, NEW glitch, NEW bad, ran = Ran(x, ret, out, glitch, bad)
          PROVE  ran.c = x /\ ran.bad = bad
      BY <3>1, Zenon DEF Ran
    <3>2. CASE ~done /\ ran = Ran(b, "PRIVATE_FAILED", 0, FALSE, TRUE)
      BY <3>1, <3>2
    <3>3. CASE done /\ ran = Ran(b, "PRIVATE_FAILED", 0, TRUE, FALSE)
      BY <3>1, <3>3
    <3>4. CASE done /\ \E glitch, ret, out : ran = Ran(d, ret, out, glitch, FALSE)
      BY <3>1, <3>4
    <3> QED
      BY <2>6, <3>2, <3>3, <3>4
  <2> HIDE DEF b, done, d
  <2> QED
    BY <2>2, <2>3, <2>5, <2>7 DEF Leaves, Sound
<1> QED
  BY <1>1, <1>2, PrivateCases

\* A power of a power that is congruent to the number: below the modulus they are equal.
LEMMA PowersUndo ==
  ASSUME NEW n \in Nat \ {0}, NEW x \in Nat, x < n, NEW d \in Nat, NEW e \in Nat,
         Congruent(n, Power(x, d * e), x), NEW y \in Nat, Congruent(n, y, Power(x, d))
  PROVE  PowMod(y, e, n) = x
<1> DEFINE w == Power(x, d)
           v == Power(y, e)
           z == Power(w, e)
<1>1. x \in Int /\ y \in Int /\ n \in Nat
  OBVIOUS
<1>2. w \in Int
  BY <1>1, PowerRule
<1>3. Power(x, d * e) = z
  BY <1>1, PowerOfPower
<1>4. Congruent(n, v, z)
  <2> HIDE DEF w
  <2> QED
    BY <1>1, <1>2, CongruentPower DEF w
<1>5. z \in Int /\ v \in Int
  <2> HIDE DEF w
  <2> QED
    BY <1>1, <1>2, PowerRule
<1> HIDE DEF v, z
<1>6. Congruent(n, v, x)
  BY <1>1, <1>3, <1>4, <1>5, CongruentChain
<1>7. v % n = x % n
  BY <1>1, <1>5, <1>6, SameRemainder
<1>8. x % n = x
  <2>1. x = n * 0 + x
    OBVIOUS
  <2> QED
    BY <2>1, Remainder
<1>9. PowMod(y, e, n) = v % n
  BY PowModIs DEF v
<1> QED
  BY <1>7, <1>8, <1>9

\* The numbers of an accepted key.
LEMMA AcceptedNumbers ==
  ASSUME NEW c \in Contexts, Accepted(c)
  PROVE  c.N \in Nat \ {0} /\ c.N > 1 /\ c.D \in Nat /\ c.E \in Nat
<1>1. c.N > 1
  BY AcceptedFacts
<1> QED
  BY <1>1 DEF Contexts

\* The power by one exponent of an accepted key is undone by the power by the other one.
LEMMA KeyUndoes ==
  ASSUME NEW c \in Contexts, Accepted(c), NEW x \in Nat, x < c.N, NEW y \in Nat
  PROVE  /\ Congruent(c.N, y, Power(x, c.D)) => PowMod(y, c.E, c.N) = x
         /\ Congruent(c.N, y, Power(x, c.E)) => PowMod(y, c.D, c.N) = x
<1> DEFINE n == c.N
           d == c.D
           e == c.E
<1>1. n \in Nat \ {0} /\ d \in Nat /\ e \in Nat
  BY AcceptedNumbers
<1>2. Congruent(n, Power(x, d * e), x)
  BY ExponentsUndo
<1>3. Congruent(n, Power(x, e * d), x)
  <2>1. d * e = e * d
    BY <1>1
  <2> QED
    BY <1>2, <2>1
<1>4. x < n
  OBVIOUS
<1> HIDE DEF n, d, e
<1>5. Congruent(n, y, Power(x, d)) => PowMod(y, e, n) = x
  BY <1>1, <1>2, <1>4, PowersUndo
<1>6. Congruent(n, y, Power(x, e)) => PowMod(y, d, n) = x
  BY <1>1, <1>3, <1>4, PowersUndo
<1> QED
  BY <1>5, <1>6 DEF n, d, e

\* The check of the result: exactly the power by the private exponent passes it.
LEMMA VerifiedIs ==
  ASSUME NEW c \in Contexts, Accepted(c), NEW t \in Nat, t < c.N, NEW in \in Nat, in < c.N
  PROVE  /\ Verified(c, t, in) => t = PowMod(in, c.D, c.N)
         /\ Congruent(c.N, t, Power(in, c.D)) => Verified(c, t, in)
<1>1. c.N \in Nat \ {0} /\ c.D \in Nat /\ c.E \in Nat
  BY AcceptedNumbers
<1>2. ASSUME Verified(c, t, in) PROVE t = PowMod(in, c.D, c.N)
  <2>1. in = Power(t, c.E) % c.N
    BY <1>1, <1>2, PowModIs DEF Verified
  <2>2. Power(t, c.E) \in Int
    <3>1. t \in Int
      OBVIOUS
    <3> QED
      BY <1>1, <3>1, PowerRule
  <2>3. Congruent(c.N, in, Power(t, c.E))
    BY <1>1, <2>1, <2>2, CongruentToRemainder
  <2> QED
    BY <2>3, KeyUndoes
<1>3. ASSUME Congruent(c.N, t, Power(in, c.D)) PROVE Verified(c, t, in)
  BY <1>3, KeyUndoes DEF Verified
<1> QED
  BY <1>2, <1>3

\* Whatever the blinding values, and disturbed or not, the result is below the modulus.
LEMMA ResultRange ==
  ASSUME NEW c \in Contexts, Accepted(c), NEW b \in Contexts, NEW rng \in BOOLEAN, NEW in \in Nat,
         NEW glitch \in BOOLEAN
  PROVE  Result(c, b, rng, in, glitch) \in Nat /\ Result(c, b, rng, in, glitch) < c.N
<1>1. c.N \in Nat \ {0} /\ b.Vi \in Nat /\ b.Vf \in Nat
  BY AcceptedNumbers DEF Contexts
<1> DEFINE t == (in * b.Vi) % c.N
           u == Crt(c, t, 1, glitch)
           v == Crt(c, in, 0, glitch)
<1>2. t \in Nat
  <2>1. in * b.Vi \in Int
    BY <1>1
  <2> QED
    BY <1>1, <2>1, Division
<1> HIDE DEF t
<1>3. u \in Nat
  <2>1. 1 \in Nat /\ (glitch = TRUE \/ glitch = FALSE)
    OBVIOUS
  <2> QED
    BY <1>2, <2>1, CrtIs
<1>4. v \in Nat /\ v < c.N
  <2>1. 0 \in Nat /\ (glitch = TRUE \/ glitch = FALSE)
    OBVIOUS
  <2> QED
    BY <2>1, CrtIs
<1> HIDE DEF u, v
<1>5. (u * b.Vf) % c.N \in Nat /\ (u * b.Vf) % c.N < c.N
  <2>1. u * b.Vf \in Int
    BY <1>1, <1>3
  <2> QED
    BY <1>1, <2>1, Division
<1> QED
  BY <1>4, <1>5 DEF Result, t, u, v

\* Blinding values that undo each other for the one exponent do so for the other.
LEMMA UndoOther ==
  ASSUME NEW c \in Contexts, Accepted(c), NEW f \in Nat, NEW i \in Nat, Undo(c.N, c.E, f, i)
  PROVE  Congruent(c.N, f * Power(i, c.D), 1)
<1> DEFINE n == c.N
           d == c.D
           e == c.E
           fe == Power(f, e)
           id == Power(i, d)
           fed == Power(fe, d)
           x == fe * i
           xd == Power(x, d)
           y == f * id
           z == fed * id
<1>1. n \in Nat \ {0} /\ n \in Nat /\ d \in Nat /\ e \in Nat /\ f \in Int /\ i \in Int /\ 1 \in Int
  BY AcceptedNumbers
<1>2. Congruent(n, Power(f, d * e), f)
  BY ExponentsUndo
<1>3. Congruent(n, x, 1)
  BY DEF Undo
<1> HIDE DEF n, d, e
<1>4. fe \in Int /\ id \in Int
  BY <1>1, PowerRule
<1>5. Power(f, d * e) = fed
  <2>1. d * e = e * d
    BY <1>1
  <2>2. Power(f, e * d) = fed
    BY <1>1, PowerOfPower
  <2> QED
    BY <2>1, <2>2
<1> HIDE DEF fe
<1>6. fed \in Int /\ x \in Int
  <2>1. fed \in Int
    BY <1>1, <1>4, PowerRule
  <2> QED
    BY <1>1, <1>4, <2>1
<1>7. xd = z
  BY <1>1, <1>4, PowerOfProduct
<1> HIDE DEF x
<1>8. Congruent(n, xd, Power(1, d)) /\ Power(1, d) = 1
  <2>1. Congruent(n, xd, Power(1, d))
    BY <1>1, <1>3, <1>6, CongruentPower
  <2> QED
    BY <1>1, <2>1, PowerOfOne
<1> HIDE DEF fed, id
<1>9. Congruent(n, f, fed)
  BY <1>1, <1>2, <1>5, <1>6, CongruentSwap
<1>10. Congruent(n, id, id)
  BY <1>1, <1>4, CongruentSelf
<1>11. Congruent(n, y, z)
  BY <1>1, <1>4, <1>6, <1>9, <1>10, CongruentProduct
<1>12. y \in Int /\ z \in Int /\ Congruent(n, z, 1)
  BY <1>1, <1>4, <1>6, <1>7, <1>8
<1> HIDE DEF y, z
<1>13. Congruent(n, y, 1)
  BY <1>1, <1>11, <1>12, CongruentChain
<1> QED
  BY <1>13 DEF y, id, n, d

\* The blinded computation gives the power of the number that was blinded.
LEMMA BlindedPower ==
  ASSUME NEW n \in Nat \ {0}, NEW d \in Nat, NEW in \in Nat, NEW i \in Nat, NEW f \in Nat,
         Congruent(n, f * Power(i, d), 1), NEW u \in Nat, Congruent(n, u, Power((in * i) % n, d))
  PROVE  Congruent(n, (u * f) % n, Power(in, d))
<1> DEFINE ii == in * i
           t == ii % n
           td == Power(t, d)
           iid == Power(ii, d)
           ind == Power(in, d)
           id == Power(i, d)
           uf == u * f
           r == uf % n
           s == f * id
           vf == iid * f
           w == ind * s
<1>1. n \in Nat /\ in \in Int /\ i \in Int /\ f \in Int /\ u \in Int /\ ii \in Int /\ uf \in Int /\ 1 \in Int
  OBVIOUS
<1>2. iid = ind * id
  BY <1>1, PowerOfProduct
<1>3. ind \in Int /\ id \in Int
  BY <1>1, PowerRule
<1> HIDE DEF ii
<1>4. Congruent(n, t, ii) /\ t \in Int
  BY <1>1, CongruentToRemainder
<1>5. iid \in Int
  BY <1>1, PowerRule
<1> HIDE DEF t
<1>6. Congruent(n, td, iid)
  BY <1>1, <1>4, CongruentPower
<1>7. td \in Int
  BY <1>4, PowerRule
<1>8. Congruent(n, u, td)
  BY DEF td, t, ii
<1>9. Congruent(n, s, 1)
  BY DEF s, id
<1> HIDE DEF td, iid, ind, id, uf
<1>10. Congruent(n, r, uf) /\ r \in Int
  BY <1>1, CongruentToRemainder
<1> HIDE DEF r
<1>11. Congruent(n, u, iid)
  BY <1>1, <1>5, <1>6, <1>7, <1>8, CongruentChain
<1>12. Congruent(n, uf, vf)
  <2>1. Congruent(n, f, f)
    BY <1>1, CongruentSelf
  <2> QED
    BY <1>1, <1>5, <1>11, <2>1, CongruentProduct DEF uf
<1>13. vf = w /\ s \in Int /\ vf \in Int
  BY <1>1, <1>2, <1>3
<1> HIDE DEF s, vf
<1>14. Congruent(n, w, ind * 1)
  <2>1. Congruent(n, ind, ind)
    BY <1>1, <1>3, CongruentSelf
  <2> QED
    BY <1>1, <1>3, <1>9, <1>13, <2>1, CongruentProduct
<1>15. ind * 1 = ind
  BY <1>3
<1> HIDE DEF w
<1>16. Congruent(n, vf, ind)
  BY <1>13, <1>14, <1>15
<1>17. Congruent(n, uf, ind)
  BY <1>1, <1>3, <1>12, <1>13, <1>16, CongruentChain
<1>18. Congruent(n, r, ind)
  BY <1>1, <1>3, <1>10, <1>17, CongruentChain
<1> QED
  BY <1>18 DEF r, uf, ind

\* Undisturbed and with consistent blinding values, the result is the right one.
LEMMA ResultRight ==
  ASSUME NEW c \in Contexts, Accepted(c), NEW b \in Contexts, SameKey(b, c), NEW rng \in BOOLEAN,
         rng => Blinded(b), NEW in \in Nat
  PROVE  Congruent(c.N, Result(c, b, rng, in, FALSE), Power(in, c.D))
<1>1. c.N \in Nat \ {0} /\ c.D \in Nat /\ b.Vi \in Nat /\ b.Vf \in Nat
  BY AcceptedNumbers DEF Contexts
<1> DEFINE t == (in * b.Vi) % c.N
           u == Crt(c, t, 1, FALSE)
<1>2. t \in Nat
  <2>1. in * b.Vi \in Int
    BY <1>1
  <2> QED
    BY <1>1, <2>1, Division
<1>3. u \in Nat /\ Congruent(c.N, u, Power(t, c.D))
  <2> HIDE DEF t
  <2>1. 1 \in Nat
    OBVIOUS
  <2> QED
    BY <1>2, <2>1, CrtIs
<1>4. CASE rng
  <2>1. Undo(c.N, c.E, b.Vf, b.Vi)
    BY <1>4 DEF Blinded, SameKey
  <2>2. Congruent(c.N, b.Vf * Power(b.Vi, c.D), 1)
    BY <1>1, <2>1, UndoOther
  <2> HIDE DEF u
  <2>3. Congruent(c.N, (u * b.Vf) % c.N, Power(in, c.D))
    BY <1>1, <1>3, <2>2, BlindedPower
  <2> QED
    BY <1>4, <2>3 DEF Result, u
<1>5. CASE ~rng
  <2>1. 0 \in Nat
    OBVIOUS
  <2>2. Congruent(c.N, Crt(c, in, 0, FALSE), Power(in, c.D))
    BY <2>1, CrtIs
  <2> QED
    BY <1>5, <2>2 DEF Result
<1> QED
  BY <1>4, <1>5

\* The private operation gives out the right number or none; undisturbed and with
\* consistent blinding values it gives it out.
LEMMA PrivateOutcome ==
  ASSUME NEW c \in Contexts, Accepted(c), c.blinding => c.used, NEW rng \in BOOLEAN, NEW in \in Nat,
         NEW ran \in mbedtls_rsa_private(c, rng, in)
  PROVE  /\ ran.ret = "ok" => in < c.N /\ ran.out = PowMod(in, c.D, c.N)
         /\ in < c.N /\ ~ran.glitch /\ ~ran.bad /\ (c.blinding => Blinded(c)) => ran.ret = "ok"
<1>1. rsa_check_context(c, TRUE) /\ c.N > 1 /\ c.N \in Nat
  BY AcceptedNumbers DEF Accepted, mbedtls_rsa_check_privkey
<1>2. ASSUME NEW x, NEW ret, NEW out, NEW glitch, NEW bad, ran = Ran(x, ret, out, glitch, bad)
      PROVE  ran.ret = ret /\ ran.out = out /\ ran.glitch = glitch /\ ran.bad = bad
  BY <1>2, Zenon DEF Ran
<1>3. CASE in >= c.N /\ ran = Ran(c, "PRIVATE_FAILED", 0, FALSE, FALSE)
  <2>1. ran.ret = "PRIVATE_FAILED"
    BY <1>2, <1>3
  <2>2. ~(in < c.N)
    BY <1>1, <1>3
  <2>3. ran.ret # "ok"
    BY <2>1
  <2> QED
    BY <2>2, <2>3
<1>4. CASE \E prepared \in Preparations(c, rng) :
             \/ ~prepared[2] /\ ran = Ran(prepared[1], "PRIVATE_FAILED", 0, FALSE, TRUE)
             \/ prepared[2] /\ Computes(c, rng, in, ran, prepared[1])
  <2>1. PICK prepared \in Preparations(c, rng) :
             \/ ~prepared[2] /\ ran = Ran(prepared[1], "PRIVATE_FAILED", 0, FALSE, TRUE)
             \/ prepared[2] /\ Computes(c, rng, in, ran, prepared[1])
    BY <1>4
  <2> DEFINE b == prepared[1]
             done == prepared[2]
  <2>2. Sound(c, b, done, rng)
    BY <1>1, PreparationIs
  <2>3. \/ ~done /\ ran = Ran(b, "PRIVATE_FAILED", 0, FALSE, TRUE)
        \/ done /\ Computes(c, rng, in, ran, b)
    BY <2>1
  <2> HIDE DEF b, done
  <2>4. CASE ran = Ran(b, "PRIVATE_FAILED", 0, FALSE, TRUE)
    <3>1. ran.ret = "PRIVATE_FAILED" /\ ran.bad = TRUE
      BY <1>2, <2>4
    <3> QED
      BY <3>1
  <2>5. CASE ran = Ran(b, "PRIVATE_FAILED", 0, TRUE, FALSE)
    <3>1. ran.ret = "PRIVATE_FAILED" /\ ran.glitch = TRUE
      BY <1>2, <2>5
    <3> QED
      BY <3>1
  <2> DEFINE t(glitch) == Result(c, b, rng, in, glitch)
  <2>6. ASSUME NEW glitch \in BOOLEAN,  NEW d,
               \/ Verified(c, t(glitch), in) /\ ran = Ran(d, "ok", t(glitch), glitch, FALSE)
               \/ ~Verified(c, t(glitch), in) /\ ran = Ran(d, "VERIFY_FAILED", 0, glitch, FALSE),
               done
        PROVE  /\ ran.ret = "ok" => in < c.N /\ ran.out = PowMod(in, c.D, c.N)
               /\ in < c.N /\ ~ran.glitch /\ ~ran.bad /\ (c.blinding => Blinded(c)) => ran.ret = "ok"
    <3>1. t(glitch) \in Nat /\ t(glitch) < c.N
      BY <2>2, ResultRange DEF Sound
    <3>2. CASE Verified(c, t(glitch), in) /\ ran = Ran(d, "ok", t(glitch), glitch, FALSE)
      <4>1. ran.ret = "ok" /\ ran.out = t(glitch)
        BY <1>2, <3>2
      <4>2. in = PowMod(t(glitch), c.E, c.N)
        BY <3>2 DEF Verified
      <4>3. in < c.N
        <5> DEFINE x == Power(t(glitch), c.E)
        <5>1. c.N \in Nat \ {0} /\ c.E \in Nat
          BY AcceptedNumbers
        <5>2. in = x % c.N
          BY <3>1, <4>2, <5>1, PowModIs
        <5>3. x \in Int
          <6>1. t(glitch) \in Int
            BY <3>1
          <6> QED
            BY <5>1, <6>1, PowerRule
        <5> HIDE DEF x
        <5> QED
          BY <5>1, <5>2, <5>3, Division
      <4>4. t(glitch) = PowMod(in, c.D, c.N)
        BY <3>1, <3>2, <4>3, VerifiedIs
      <4> QED
        BY <4>1, <4>3, <4>4
    <3>3. CASE ~Verified(c, t(glitch), in) /\ ran = Ran(d, "VERIFY_FAILED", 0, glitch, FALSE)
      <4>1. ran.ret = "VERIFY_FAILED" /\ ran.glitch = glitch
        BY <1>2, <3>3
      <4>2. SUFFICES ASSUME in < c.N, ~glitch, c.blinding => Blinded(c) PROVE FALSE
        BY <4>1
      <4>3. rng => Blinded(b)
        BY <2>2, <2>6, <4>2 DEF Sound
      <4>4. glitch = FALSE
        BY <4>2
      <4>5. Congruent(c.N, t(FALSE), Power(in, c.D))
        BY <2>2, <4>3, ResultRight DEF Sound
      <4>6. Verified(c, t(FALSE), in)
        BY <3>1, <4>2, <4>4, <4>5, VerifiedIs
      <4> QED
        BY <3>3, <4>4, <4>6
    <3> QED
      BY <2>6, <3>2, <3>3
  <2>7. CASE done /\ Computes(c, rng, in, ran, b)
    <3>1. CASE ran = Ran(b, "PRIVATE_FAILED", 0, TRUE, FALSE)
      BY <2>5, <3>1
    <3>2. CASE \E glitch \in BOOLEAN : \E d :
                 \/ Verified(c, t(glitch), in) /\ ran = Ran(d, "ok", t(glitch), glitch, FALSE)
                 \/ ~Verified(c, t(glitch), in) /\ ran = Ran(d, "VERIFY_FAILED", 0, glitch, FALSE)
      <4> HIDE DEF t
      <4>1. PICK glitch \in BOOLEAN : \E d :
                 \/ Verified(c, t(glitch), in) /\ ran = Ran(d, "ok", t(glitch), glitch, FALSE)
                 \/ ~Verified(c, t(glitch), in) /\ ran = Ran(d, "VERIFY_FAILED", 0, glitch, FALSE)
        BY <3>2
      <4> QED
        BY <2>6, <2>7, <4>1
    <3>3. \/ ran = Ran(b, "PRIVATE_FAILED", 0, TRUE, FALSE)
          \/ \E glitch \in BOOLEAN : \E d :
                 \/ Verified(c, t(glitch), in) /\ ran = Ran(d, "ok", t(glitch), glitch, FALSE)
                 \/ ~Verified(c, t(glitch), in) /\ ran = Ran(d, "VERIFY_FAILED", 0, glitch, FALSE)
      BY <2>7, Zenon DEF Computes
    <3> QED
      BY <3>1, <3>2, <3>3
  <2> QED
    BY <2>3, <2>4, <2>7
<1> QED
  BY <1>1, <1>3, <1>4, PrivateCases

-----------------------------------------------------------------------------
(* Numbers of bits *)

\* k bits are enough for x and fewer are not.
Fits(x, k) == x < Power(2, k) /\ \A j \in Nat : j < k => Power(2, j) <= x

\* Powers of two are larger than their exponent.
LEMMA PowersOfTwo ==
  /\ Power(2, 0) = 1
  /\ \A n \in Nat : Power(2, n) \in Nat /\ Power(2, n) > n /\ Power(2, n + 1) = 2 * Power(2, n)
<1> DEFINE two == 2
           S == {n \in Nat : Power(two, n) \in Nat /\ Power(two, n) > n}
<1>1. two \in Int /\ two = 2
  OBVIOUS
<1> HIDE DEF two
<1>2. /\ Power(two, 0) = 1
      /\ \A n \in Nat : Power(two, n) \in Int /\ Power(two, n + 1) = two * Power(two, n)
  BY <1>1, PowerRule
<1>3. 0 \in S
  BY <1>2
<1>4. ASSUME NEW n \in Nat, n \in S PROVE n + 1 \in S
  <2> DEFINE x == Power(two, n)
  <2>1. x \in Nat /\ x > n /\ Power(two, n + 1) = 2 * x
    BY <1>1, <1>2, <1>4
  <2> HIDE DEF x
  <2> QED
    BY <2>1
<1>5. \A n \in Nat : n \in S
  <2> HIDE DEF S
  <2> QED
    BY <1>3, <1>4, Induction
<1> QED
  BY <1>1, <1>2, <1>5

\* There is exactly one least number of bits.
LEMMA FitsOnce ==
  ASSUME NEW x \in Nat
  PROVE  /\ \E k \in Nat : Fits(x, k)
         /\ \A k, l \in Nat : Fits(x, k) /\ Fits(x, l) => k = l
<1>1. \E k \in Nat : Fits(x, k)
  <2> DEFINE S == {k \in Nat : x < Power(2, k)}
  <2>1. S \in SUBSET Nat /\ S # {}
    BY PowersOfTwo
  <2>2. PICK k \in S : \A j \in S : k <= j
    <3> HIDE DEF S
    <3> QED
      BY <2>1, LeastNumber
  <2>3. ASSUME NEW j \in Nat, j < k PROVE Power(2, j) <= x
    <3>1. j \notin S
      BY <2>2, <2>3
    <3> QED
      BY <3>1, PowersOfTwo
  <2> QED
    BY <2>2, <2>3 DEF Fits
<1>2. ASSUME NEW k \in Nat, NEW l \in Nat, Fits(x, k), k < l PROVE ~Fits(x, l)
  BY <1>2, PowersOfTwo DEF Fits
<1> QED
  BY <1>1, <1>2

\* Half the number needs one bit less.
LEMMA FitsHalf ==
  ASSUME NEW x \in Nat, NEW k \in Nat, Fits(x, k)
  PROVE  /\ x = 0 => k = 0
         /\ x # 0 => k # 0 /\ Fits(x \div 2, k - 1)
<1>1. CASE x = 0
  <2>1. Fits(0, 0)
    BY PowersOfTwo DEF Fits
  <2> QED
    BY <1>1, <2>1, FitsOnce
<1>2. CASE x # 0
  <2>1. k # 0
    BY <1>2, PowersOfTwo DEF Fits
  <2> DEFINE l == k - 1
             y == Power(2, l)
             h == x \div 2
  <2>2. l \in Nat /\ k = l + 1
    BY <2>1
  <2>3. y \in Nat /\ Power(2, k) = 2 * y
    BY <2>2, PowersOfTwo
  <2>4. h < y
    <3>1. x < 2 * y
      BY <2>3 DEF Fits
    <3> HIDE DEF y
    <3> QED
      BY <2>3, <3>1
  <2>5. ASSUME NEW j \in Nat, j < l PROVE Power(2, j) <= h
    <3> DEFINE z == Power(2, j)
    <3>1. z \in Nat /\ Power(2, j + 1) = 2 * z
      BY PowersOfTwo
    <3>2. j + 1 \in Nat /\ j + 1 < k
      BY <2>2, <2>5
    <3>3. 2 * z <= x
      BY <3>1, <3>2 DEF Fits
    <3> HIDE DEF z
    <3>4. z <= h
      BY <3>1, <3>3
    <3> QED
      BY <3>4 DEF z
  <2> QED
    BY <1>2, <2>1, <2>4, <2>5 DEF Fits
<1> QED
  BY <1>1, <1>2

\* The recursion of BitLen().
Halving(h) == h = [x \in Nat |-> IF x = 0 THEN 0 ELSE 1 + h[x \div 2]]

\* BitLen() is the least number of bits that is enough.
LEMMA BitLenIs ==
  ASSUME NEW n \in Nat
  PROVE  BitLen(n) \in Nat /\ Fits(n, BitLen(n))
<1> DEFINE w == [x \in Nat |-> CHOOSE k \in Nat : Fits(x, k)]
           bits == CHOOSE h : Halving(h)
<1>1. ASSUME NEW x \in Nat PROVE w[x] \in Nat /\ Fits(x, w[x]) /\ \A k \in Nat : Fits(x, k) => k = w[x]
  <2>1. w[x] = CHOOSE k \in Nat : Fits(x, k)
    OBVIOUS
  <2> HIDE DEF w
  <2>2. w[x] \in Nat /\ Fits(x, w[x])
    BY <2>1, FitsOnce
  <2> QED
    BY <2>2, FitsOnce
<1>2. Halving(w)
  <2>1. ASSUME NEW x \in Nat PROVE w[x] = IF x = 0 THEN 0 ELSE 1 + w[x \div 2]
    <3>1. (x = 0 => w[x] = 0) /\ (x # 0 => w[x] # 0 /\ Fits(x \div 2, w[x] - 1))
      <4> HIDE DEF w
      <4> QED
        BY <1>1, FitsHalf
    <3>2. CASE x # 0
      <4>1. w[x] - 1 \in Nat /\ x \div 2 \in Nat
        BY <1>1, <3>1, <3>2
      <4> HIDE DEF w
      <4>2. w[x] - 1 = w[x \div 2]
        BY <1>1, <3>1, <3>2, <4>1
      <4> QED
        BY <1>1, <3>2, <4>2
    <3> QED
      BY <3>1, <3>2
  <2>2. w = [x \in Nat |-> w[x]]
    OBVIOUS
  <2> HIDE DEF w
  <2>3. w = [x \in Nat |-> IF x = 0 THEN 0 ELSE 1 + w[x \div 2]]
    BY <2>1, <2>2
  <2> QED
    BY <2>3 DEF Halving
<1> HIDE DEF w
<1>3. Halving(bits)
  BY <1>2
<1>4. BitLen(n) = bits[n]
  BY DEF BitLen, Halving
<1> HIDE DEF bits
<1> DEFINE S == {x \in Nat : bits[x] = w[x]}
<1>5. ASSUME NEW x \in Nat, \A y \in Nat : y < x => y \in S PROVE x \in S
  <2>1. bits[x] = IF x = 0 THEN 0 ELSE 1 + bits[x \div 2]
    BY <1>3 DEF Halving
  <2>2. w[x] = IF x = 0 THEN 0 ELSE 1 + w[x \div 2]
    BY <1>2 DEF Halving
  <2>3. x # 0 => x \div 2 \in Nat /\ x \div 2 < x
    OBVIOUS
  <2>4. x # 0 => bits[x \div 2] = w[x \div 2]
    BY <1>5, <2>3
  <2> QED
    BY <2>1, <2>2, <2>4
<1>6. \A x \in Nat : x \in S
  <2> HIDE DEF S
  <2> QED
    BY <1>5, StrongInduction
<1> QED
  BY <1>1, <1>4, <1>6

\* A number of bytes is a number.
LEMMA SizeIs ==
  ASSUME NEW n \in Nat
  PROVE  Size(n) \in Nat
<1>1. BitsPerByte \in Nat \ {0}
  BY ScaleAssumption
<1> DEFINE l == BitLen(n)
<1>2. l \in Nat
  BY BitLenIs
<1> HIDE DEF l
<1>3. (l + BitsPerByte - 1) \div BitsPerByte \in Nat
  <2> DEFINE x == l + BitsPerByte - 1
  <2>1. x \in Nat
    BY <1>1, <1>2
  <2> HIDE DEF x
  <2>2. x \div BitsPerByte \in Nat
    BY <1>1, <2>1
  <2> QED
    BY <2>2 DEF x
<1> QED
  BY <1>3 DEF Size, l

-----------------------------------------------------------------------------
(* Common multiples *)

\* The multiple divides the product and both numbers divide it.
LEMMA LcmIs ==
  ASSUME NEW a \in Nat \ {0}, NEW b \in Nat \ {0}
  PROVE  /\ Lcm(a, b) \in Nat \ {0} /\ Lcm(a, b) <= a * b
         /\ Divides(a, Lcm(a, b)) /\ Divides(b, Lcm(a, b)) /\ Divides(Lcm(a, b), a * b)
<1> DEFINE g == Gcd(a, b)
<1>1. g \in Nat \ {0} /\ Divides(g, a) /\ Divides(g, b)
  BY GcdIs
<1>2. Lcm(a, b) = (a * b) \div g
  BY DEF Lcm
<1> HIDE DEF g
<1>3. PICK k \in Int, l \in Int : a = g * k /\ b = g * l
  BY <1>1 DEF Divides
<1>4. k >= 1 /\ l >= 1
  <2>1. ASSUME NEW z \in Int, z <= 0 PROVE g * z <= 0
    BY <1>1, <2>1
  <2> QED
    BY <1>3, <2>1
<1> DEFINE gl == g * l
           m == k * gl
<1>5. a * b = g * m
  BY <1>1, <1>3
<1>6. gl \in Int /\ gl >= 1
  <2>1. gl = b
    BY <1>3
  <2> QED
    BY <2>1
<1>7. m \in Int /\ m >= 1
  <2> HIDE DEF gl
  <2>1. k * gl >= 1 * gl
    BY <1>4, <1>6
  <2> QED
    BY <1>6, <2>1
<1>8. m = k * b /\ m = l * a
  BY <1>1, <1>3
<1> HIDE DEF m, gl
<1>9. (g * m) \div g = m
  <2> DEFINE x == g * m
  <2>1. x \in Int /\ x = g * m
    BY <1>1, <1>7
  <2> HIDE DEF x
  <2>2. x = g * (x \div g) + (x % g) /\ x % g \in Nat /\ x % g < g /\ x \div g \in Int
    BY <1>1, <2>1, Division
  <2>3. x % g = 0
    <3>1. x = g * m + 0
      BY <1>1, <1>7, <2>1
    <3> QED
      BY <1>1, <1>7, <3>1, Remainder
  <2>4. g * (x \div g) = g * m
    BY <1>1, <1>7, <2>1, <2>2, <2>3
  <2>5. x \div g = m
    <3> DEFINE y == x \div g
    <3>1. y \in Int /\ g * y = g * m
      BY <2>2, <2>4
    <3> HIDE DEF y
    <3>2. g * (y - m) = 0
      BY <1>1, <1>7, <3>1
    <3>3. ASSUME y - m >= 1 PROVE FALSE
      <4>1. g * (y - m) >= g * 1
        BY <1>1, <1>7, <3>1, <3>3
      <4> QED
        BY <1>1, <3>2, <4>1
    <3>4. ASSUME y - m <= -1 PROVE FALSE
      <4>1. g * (y - m) <= g * (-1)
        BY <1>1, <1>7, <3>1, <3>4
      <4> QED
        BY <1>1, <3>2, <4>1
    <3>5. y = m
      BY <1>7, <3>1, <3>3, <3>4
    <3> QED
      BY <3>5 DEF y
  <2> QED
    BY <2>5 DEF x
<1>10. Lcm(a, b) = m
  BY <1>2, <1>5, <1>9
<1>11. m <= a * b
  <2>1. 1 * m <= g * m
    BY <1>1, <1>7
  <2> QED
    BY <1>5, <1>7, <2>1
<1>12. m = a * l /\ m = b * k /\ a * b = m * g
  BY <1>1, <1>3, <1>5, <1>7, <1>8
<1>13. Divides(a, m) /\ Divides(b, m) /\ Divides(m, a * b)
  <2> DEFINE ab == a * b
  <2>1. ab = m * g /\ g \in Int
    BY <1>1, <1>12
  <2> HIDE DEF ab
  <2>2. Divides(a, m) /\ Divides(b, m)
    BY <1>3, <1>12 DEF Divides
  <2>3. Divides(m, ab)
    BY <2>1 DEF Divides
  <2> QED
    BY <2>2, <2>3 DEF ab
<1> QED
  BY <1>7, <1>10, <1>11, <1>13

-----------------------------------------------------------------------------
(* The invariant of contexts *)

\* A context in a state where the blinding values may be spoilt: the factors are prime, and
\* blinding values that are there are consistent unless they are spoilt.
Usable(c, spoilt) ==
  /\ c \in Contexts
  /\ c.P # 0 => Prime(c.P)
  /\ c.Q # 0 => Prime(c.Q)
  /\ c.N # 0 => c.N > 1 /\ c.len = Size(c.N)
  /\ c.blinding => c.used /\ c.N > 1 /\ (~spoilt => Blinded(c))
IInv == Usable(ctx, spoiled) /\ spoiled \in BOOLEAN

\* The product of two primes can be a modulus.
LEMMA PrimesProduct ==
  ASSUME NEW p \in Nat, NEW q \in Nat, Prime(p), Prime(q)
  PROVE  p * q \in Nat /\ p * q > 1
<1>1. p > 1 /\ q > 1
  BY DEF Prime
<1>2. p * q >= 2 * q
  BY <1>1
<1> QED
  BY <1>1, <1>2

\* Having no common divisor is symmetric.
LEMMA CoprimeSwap ==
  ASSUME NEW a, NEW b, Coprime(a, b)
  PROVE  Coprime(b, a)
BY DEF Coprime

\* The CRT parts of a context.
LEMMA WithCrtIs ==
  ASSUME NEW c \in Contexts, Prime(c.P), Prime(c.Q), Coprime(c.P, c.Q)
  PROVE  /\ WithCrt(c) \in Contexts
         /\ \A f \in {"N", "P", "Q", "D", "E", "Vi", "Vf", "blinding", "used", "len"} : WithCrt(c)[f] = c[f]
         /\ WithCrt(c).DP = c.D % (c.P - 1) /\ WithCrt(c).DQ = c.D % (c.Q - 1)
         /\ Congruent(c.P, c.Q * WithCrt(c).QP, 1)
<1>1. c.P \in Nat \ {0} /\ c.Q \in Nat \ {0} /\ c.D \in Nat /\ c.P - 1 \in Nat \ {0} /\ c.Q - 1 \in Nat \ {0}
  BY DEF Contexts, Prime
<1> DEFINE dp == c.D % (c.P - 1)
           dq == c.D % (c.Q - 1)
           qp == Inverse_mod(c.Q, c.P)
<1>2. dp \in Nat /\ dq \in Nat
  <2>1. c.D \in Int
    BY <1>1
  <2> DEFINE p1 == c.P - 1
             q1 == c.Q - 1
  <2>2. p1 \in Nat \ {0} /\ q1 \in Nat \ {0}
    BY <1>1
  <2> HIDE DEF p1, q1
  <2>3. c.D % p1 \in Nat /\ c.D % q1 \in Nat
    BY <2>1, <2>2, Division
  <2> QED
    BY <2>3 DEF p1, q1
<1>3. Coprime(c.Q, c.P)
  BY CoprimeSwap
<1>4. qp \in Nat /\ Congruent(c.P, c.Q * qp, 1)
  BY <1>1, <1>3, InverseIs
<1>5. WithCrt(c) = [c EXCEPT !.DP = dp, !.DQ = dq, !.QP = qp]
  BY DEF WithCrt
<1> HIDE DEF dp, dq, qp
<1>6. WithCrt(c).DP = dp /\ WithCrt(c).DQ = dq /\ WithCrt(c).QP = qp
  BY <1>5 DEF Contexts
<1>7. WithCrt(c) \in Contexts
  BY <1>2, <1>4, <1>5 DEF Contexts
<1>8. \A f \in {"N", "P", "Q", "D", "E", "Vi", "Vf", "blinding", "used", "len"} : WithCrt(c)[f] = c[f]
  BY <1>5 DEF Contexts
<1> QED
  BY <1>4, <1>6, <1>7, <1>8 DEF dp, dq

\* A context that has not been used and gets a key, or parts of one, is usable.
LEMMA UnusedUsable ==
  ASSUME NEW c, NEW s, Usable(c, s), ~c.used, NEW b \in Contexts, b.blinding = c.blinding,
         b.P = 0 \/ Prime(b.P), b.Q = 0 \/ Prime(b.Q), b.N = 0 \/ b.N > 1, b.N # 0 => b.len = Size(b.N)
  PROVE  Usable(b, s)
BY DEF Usable

\* One that an operation leaves behind.
LEMMA LeavesUsable ==
  ASSUME NEW c, NEW s \in BOOLEAN, Usable(c, s), NEW ran, Leaves(c, ran)
  PROVE  Usable(ran.c, s \/ ran.bad) /\ (s \/ ran.bad) \in BOOLEAN
<1>1. /\ ran.c \in Contexts /\ ran.c.N = c.N /\ ran.c.P = c.P /\ ran.c.Q = c.Q /\ ran.bad \in BOOLEAN
      /\ ran.c.len = c.len
      /\ ran.c.blinding => ran.c.used /\ (c.blinding \/ c.N > 1)
      /\ ~ran.bad /\ ran.c.blinding /\ (c.blinding => Blinded(c)) => Blinded(ran.c)
  BY DEF Leaves, SameKey
<1>2. c.blinding => c.N > 1 /\ (~s => Blinded(c))
  BY DEF Usable
<1>3. (c.P # 0 => Prime(c.P)) /\ (c.Q # 0 => Prime(c.Q)) /\ (c.N # 0 => c.N > 1 /\ c.len = Size(c.N))
  BY DEF Usable
<1> QED
  BY <1>1, <1>2, <1>3 DEF Usable

\* mbedtls_rsa_public() leaves a sound context of the same key.
LEMMA PublicLeaves ==
  ASSUME NEW c \in Contexts, c.blinding => c.used, NEW in
  PROVE  Leaves(c, mbedtls_rsa_public(c, in))
<1> DEFINE d == [c EXCEPT !.used = TRUE]
           ran == mbedtls_rsa_public(c, in)
<1>1. SameKey(c, c)
  BY DEF SameKey
<1>2. d \in Contexts /\ SameKey(d, c) /\ d.used /\ (d.blinding <=> c.blinding) /\ (Blinded(d) <=> Blinded(c))
  BY <1>1, SameBlinding
<1>3. (ran.c = c \/ ran.c = d) /\ ran.bad = FALSE
  BY DEF mbedtls_rsa_public, Ran
<1> HIDE DEF d, ran
<1>4. Leaves(c, ran)
  BY <1>1, <1>2, <1>3 DEF Leaves
<1> QED
  BY <1>4 DEF ran

\* So does an operation that does not compute.
LEMMA RefusedLeaves ==
  ASSUME NEW c \in Contexts, c.blinding => c.used, NEW ret, NEW out, NEW glitch
  PROVE  /\ Leaves(c, Ran(c, ret, out, glitch, FALSE))
         /\ Leaves(c, Ran([c EXCEPT !.used = TRUE], ret, out, glitch, FALSE))
<1> DEFINE d == [c EXCEPT !.used = TRUE]
<1>1. SameKey(c, c)
  BY DEF SameKey
<1>2. d \in Contexts /\ SameKey(d, c) /\ d.used /\ (d.blinding <=> c.blinding) /\ (Blinded(d) <=> Blinded(c))
  BY <1>1, SameBlinding
<1> HIDE DEF d
<1> DEFINE x == Ran(c, ret, out, glitch, FALSE)
           y == Ran(d, ret, out, glitch, FALSE)
<1>3. x.c = c /\ x.bad = FALSE /\ y.c = d /\ y.bad = FALSE
  BY DEF Ran
<1> HIDE DEF x, y
<1>4. Leaves(c, x) /\ Leaves(c, y)
  BY <1>1, <1>2, <1>3 DEF Leaves
<1> QED
  BY <1>4 DEF x, y, d

-----------------------------------------------------------------------------
(* The operations keep it *)

\* The initial context is usable.
LEMMA InitUsable ==
  Init => IInv
<1> SUFFICES ASSUME Init PROVE IInv
  OBVIOUS
<1>1. PICK p \in Paddings : ctx = [Freed EXCEPT !.padding = p[1], !.hash = p[2]]
  BY DEF Init
<1>2. p[1] \in {"V15", "V21"} /\ p[2] \in BOOLEAN
  BY ArgumentsAssumption
<1>3. ctx \in Contexts /\ ctx.P = 0 /\ ctx.Q = 0 /\ ctx.N = 0 /\ ctx.blinding = FALSE
  BY <1>1, <1>2 DEF Contexts, Freed
<1>4. spoiled = FALSE
  BY DEF Init
<1> QED
  BY <1>3, <1>4 DEF IInv, Usable

\* The parts of a key that is imported.
LEMMA KeyIs ==
  ASSUME NEW key \in Keys
  PROVE  /\ key.P \in Nat /\ key.Q \in Nat /\ key.D \in Nat /\ key.E \in Nat
         /\ Prime(key.P) /\ Prime(key.Q) /\ key.N = key.P * key.Q /\ key.N \in Nat /\ key.N > 1
<1>1. /\ key.P \in Nat /\ key.Q \in Nat /\ key.D \in Nat /\ key.E \in Nat /\ key.N = key.P * key.Q
      /\ Prime(key.P) /\ Prime(key.Q)
  BY KeysAssumption, PrimeIs
<1> QED
  BY <1>1, PrimesProduct

\* mbedtls_rsa_import() keeps the invariant.
LEMMA ImportUsable ==
  ASSUME IInv, mbedtls_rsa_import PROVE IInv'
<1>1. PICK key \in Keys, parts \in PartSets :
       ctx' = [ctx EXCEPT !.N = IF "N" \in parts THEN key.N ELSE @, !.P = IF "P" \in parts THEN key.P ELSE @,
                          !.Q = IF "Q" \in parts THEN key.Q ELSE @, !.D = IF "D" \in parts THEN key.D ELSE @,
                          !.E = IF "E" \in parts THEN key.E ELSE @, !.len = IF "N" \in parts THEN Size(key.N) ELSE @]
  BY DEF mbedtls_rsa_import
<1>2. /\ key.P \in Nat /\ key.Q \in Nat /\ key.D \in Nat /\ key.E \in Nat /\ Prime(key.P) /\ Prime(key.Q)
      /\ key.N \in Nat /\ key.N > 1 /\ Size(key.N) \in Nat
  BY KeyIs, SizeIs
<1>3. ctx \in Contexts /\ (ctx.P # 0 => Prime(ctx.P)) /\ (ctx.Q # 0 => Prime(ctx.Q)) /\ (ctx.N # 0 => ctx.N > 1 /\ ctx.len = Size(ctx.N))
  BY DEF IInv, Usable
<1> DEFINE n == IF "N" \in parts THEN key.N ELSE ctx.N
           p == IF "P" \in parts THEN key.P ELSE ctx.P
           q == IF "Q" \in parts THEN key.Q ELSE ctx.Q
           d == IF "D" \in parts THEN key.D ELSE ctx.D
           e == IF "E" \in parts THEN key.E ELSE ctx.E
           l == IF "N" \in parts THEN Size(key.N) ELSE ctx.len
<1>a. /\ n \in Nat /\ p \in Nat /\ q \in Nat /\ d \in Nat /\ e \in Nat /\ l \in Nat
      /\ (n = 0 \/ n > 1) /\ (n # 0 => l = Size(n)) /\ (p = 0 \/ Prime(p)) /\ (q = 0 \/ Prime(q))
  BY <1>2, <1>3 DEF Contexts
<1>b. ctx' = [ctx EXCEPT !.N = n, !.P = p, !.Q = q, !.D = d, !.E = e, !.len = l]
  BY <1>1, Zenon
<1> HIDE DEF n, p, q, d, e, l
<1>4. ctx'.N = n /\ ctx'.P = p /\ ctx'.Q = q /\ ctx'.len = l /\ ctx'.blinding = ctx.blinding
  BY <1>3, <1>b DEF Contexts
<1>5. ctx' \in Contexts
  BY <1>3, <1>a, <1>b DEF Contexts
<1>6. ~ctx.used /\ spoiled' = spoiled
  BY DEF mbedtls_rsa_import
<1>7. Usable(ctx', spoiled)
  BY <1>4, <1>5, <1>6, <1>a, UnusedUsable DEF IInv
<1> QED
  BY <1>6, <1>7 DEF IInv

\* mbedtls_rsa_set_padding() keeps it.
LEMMA PaddingUsable ==
  ASSUME IInv, mbedtls_rsa_set_padding PROVE IInv'
<1>1. PICK p \in Paddings : ctx' = [ctx EXCEPT !.padding = p[1], !.hash = p[2]]
  BY DEF mbedtls_rsa_set_padding
<1>2. p[1] \in {"V15", "V21"} /\ p[2] \in BOOLEAN
  BY ArgumentsAssumption
<1>3. ctx \in Contexts
  BY DEF IInv, Usable
<1>4. /\ ctx' \in Contexts /\ ctx'.N = ctx.N /\ ctx'.P = ctx.P /\ ctx'.Q = ctx.Q /\ ctx'.E = ctx.E
      /\ ctx'.Vi = ctx.Vi /\ ctx'.Vf = ctx.Vf /\ ctx'.blinding = ctx.blinding /\ ctx'.used = ctx.used
      /\ ctx'.len = ctx.len
  BY <1>1, <1>2, <1>3 DEF Contexts
<1>5. Blinded(ctx) => Blinded(ctx')
  BY <1>4 DEF Blinded
<1>6. spoiled' = spoiled
  BY DEF mbedtls_rsa_set_padding
<1> QED
  BY <1>4, <1>5, <1>6 DEF IInv, Usable

\* A freed context is usable.
LEMMA FreedUsable ==
  ASSUME NEW c \in Contexts
  PROVE  /\ FreedFrom(c) \in Contexts /\ ~FreedFrom(c).blinding /\ \A s : Usable(FreedFrom(c), s)
         /\ \A s : Usable([Freed EXCEPT !.len = c.len], s)
<1> DEFINE a == FreedFrom(c)
           b == [Freed EXCEPT !.len = c.len]
<1>1. a \in Contexts /\ a.N = 0 /\ a.P = 0 /\ a.Q = 0 /\ a.blinding = FALSE
  BY DEF FreedFrom, Freed, Contexts
<1>2. b \in Contexts /\ b.N = 0 /\ b.P = 0 /\ b.Q = 0 /\ b.blinding = FALSE
  BY DEF Freed, Contexts
<1> HIDE DEF a, b
<1>3. \A s : Usable(a, s) /\ Usable(b, s)
  BY <1>1, <1>2 DEF Usable
<1> QED
  BY <1>1, <1>3 DEF a, b

\* mbedtls_rsa_free() keeps the invariant.
LEMMA FreeUsable ==
  ASSUME IInv, mbedtls_rsa_free PROVE IInv'
BY FreedUsable DEF IInv, mbedtls_rsa_free, Usable

\* mbedtls_rsa_copy() keeps it.
LEMMA CopyUsable ==
  ASSUME IInv, mbedtls_rsa_copy PROVE IInv'
<1>1. ctx \in Contexts
  BY DEF IInv, Usable
<1>2. CASE ctx' = Copied(ctx) /\ UNCHANGED <<last, spoiled, blinded>>
  BY <1>2 DEF IInv, Copied
<1>3. CASE ctx' = [Freed EXCEPT !.len = ctx.len] /\ spoiled' = FALSE
  <2>1. Usable(ctx', spoiled')
    BY <1>1, <1>3, FreedUsable
  <2> QED
    BY <1>3, <2>1 DEF IInv
<1> QED
  BY <1>2, <1>3 DEF mbedtls_rsa_copy

\* The context with its modulus.
LEMMA SetNIs ==
  ASSUME NEW c \in Contexts, c.P # 0 => Prime(c.P), c.Q # 0 => Prime(c.Q),
         c.N # 0 => c.N > 1 /\ c.len = Size(c.N)
  PROVE  /\ SetN(c) \in Contexts /\ SetN(c).P = c.P /\ SetN(c).Q = c.Q /\ SetN(c).D = c.D /\ SetN(c).E = c.E
         /\ SetN(c).blinding = c.blinding /\ SetN(c).used = c.used
         /\ SetN(c).N = 0 \/ SetN(c).N > 1
         /\ SetN(c).N # 0 => SetN(c).len = Size(SetN(c).N)
         /\ SetN(c).N = IF c.N = 0 /\ c.P # 0 /\ c.Q # 0 THEN c.P * c.Q ELSE c.N
<1>1. CASE c.N = 0 /\ c.P # 0 /\ c.Q # 0
  <2> DEFINE n == c.P * c.Q
             l == Size(n)
             b == [c EXCEPT !.N = n, !.len = l]
  <2>1. c.P \in Nat /\ c.Q \in Nat
    BY DEF Contexts
  <2>2. n \in Nat /\ n > 1
    BY <1>1, <2>1, PrimesProduct
  <2> HIDE DEF n
  <2>3. l \in Nat
    BY <2>2, SizeIs
  <2> HIDE DEF l
  <2>4. b \in Contexts /\ b.P = c.P /\ b.Q = c.Q /\ b.D = c.D /\ b.E = c.E /\ b.blinding = c.blinding
        /\ b.used = c.used /\ b.N = n /\ b.len = l
    BY <2>2, <2>3 DEF Contexts
  <2>5. SetN(c) = b
    BY <1>1 DEF SetN, n, l
  <2> HIDE DEF b
  <2> QED
    BY <1>1, <2>2, <2>4, <2>5 DEF n, l
<1>2. CASE ~(c.N = 0 /\ c.P # 0 /\ c.Q # 0)
  <2>1. SetN(c) = c
    BY <1>2 DEF SetN
  <2> QED
    BY <1>2, <2>1
<1> QED
  BY <1>1, <1>2

\* A private exponent computed from the factors and the public exponent.
LEMMA ExponentIs ==
  ASSUME NEW e \in Nat \ {0}, NEW p \in Nat, NEW q \in Nat, Prime(p), Prime(q),
         Gcd(e, Lcm(p - 1, q - 1)) = 1
  PROVE  /\ Inverse_mod(e, Lcm(p - 1, q - 1)) \in Nat
         /\ Inverse_mod(e, Lcm(p - 1, q - 1)) < Lcm(p - 1, q - 1)
         /\ Lcm(p - 1, q - 1) <= (p - 1) * (q - 1) /\ Lcm(p - 1, q - 1) \in Nat
         /\ Congruent(Lcm(p - 1, q - 1), Inverse_mod(e, Lcm(p - 1, q - 1)) * e, 1)
         /\ Congruent(p - 1, Inverse_mod(e, Lcm(p - 1, q - 1)) * e, 1)
         /\ Congruent(q - 1, Inverse_mod(e, Lcm(p - 1, q - 1)) * e, 1)
<1> DEFINE p1 == p - 1
           q1 == q - 1
           l == Lcm(p1, q1)
           d == Inverse_mod(e, l)
           ed == e * d
<1>1. p1 \in Nat \ {0} /\ q1 \in Nat \ {0}
  BY DEF Prime
<1> HIDE DEF p1, q1
<1>2. l \in Nat \ {0} /\ Divides(p1, l) /\ Divides(q1, l) /\ l <= p1 * q1
  BY <1>1, LcmIs
<1>3. Gcd(e, l) = 1
  BY DEF p1, q1
<1> HIDE DEF l
<1>4. Coprime(e, l)
  BY <1>2, <1>3, GcdCoprime
<1>5. d \in Nat /\ d < l /\ Congruent(l, ed, 1)
  BY <1>2, <1>4, InverseIs
<1> HIDE DEF d
<1>6. ed = d * e /\ ed \in Int /\ 1 \in Int
  BY <1>5
<1> HIDE DEF ed
<1>7. Congruent(p1, ed, 1) /\ Congruent(q1, ed, 1)
  <2>1. PICK k \in Int : ed = 1 + l * k
    BY <1>5 DEF Congruent
  <2>2. PICK x \in Int, y \in Int : l = p1 * x /\ l = q1 * y
    BY <1>2 DEF Divides
  <2>3. x * k \in Int /\ y * k \in Int
    OBVIOUS
  <2>4. l * k = p1 * (x * k) /\ l * k = q1 * (y * k)
    BY <1>1, <2>2
  <2> DEFINE xk == x * k
             yk == y * k
  <2>5. xk \in Int /\ yk \in Int /\ ed = 1 + p1 * xk /\ ed = 1 + q1 * yk
    BY <2>1, <2>3, <2>4
  <2> HIDE DEF xk, yk
  <2> QED
    BY <2>5 DEF Congruent
<1> QED
  BY <1>2, <1>5, <1>6, <1>7 DEF d, l, p1, q1

\* What is deduced of a context with two factors or none.
LEMMA DeducedIs ==
  ASSUME NEW c \in Contexts, NEW pq_missing \in BOOLEAN, NEW d_missing \in BOOLEAN,
         c.P = 0 \/ Prime(c.P), c.Q = 0 \/ Prime(c.Q),
         d_missing => c.P # 0 /\ c.Q # 0 /\ c.E # 0, ~(pq_missing /\ d_missing),
         NEW b \in Deduced(c, pq_missing, d_missing)
  PROVE  /\ b \in Contexts /\ (b.P = 0 \/ Prime(b.P)) /\ (b.Q = 0 \/ Prime(b.Q)) /\ b.N = c.N
         /\ b.blinding = c.blinding /\ b.used = c.used /\ b.E = c.E /\ b.len = c.len
         /\ ~pq_missing => b.P = c.P /\ b.Q = c.Q
         /\ pq_missing => b.P # 0 /\ b.Q # 0
<1>1. CASE pq_missing
  <2>1. PICK pair \in UNION {{<<key.P, key.Q>>, <<key.Q, key.P>>} : key \in Keys} :
          b = [c EXCEPT !.P = pair[1], !.Q = pair[2]]
    <3> DEFINE Pairs == UNION {{<<key.P, key.Q>>, <<key.Q, key.P>>} : key \in Keys}
               Good(pair) == /\ pair[1] * pair[2] = c.N
                             /\ (c.D * c.E - 1) % (pair[1] - 1) = 0 /\ (c.D * c.E - 1) % (pair[2] - 1) = 0
    <3>1. b \in {[c EXCEPT !.P = pq[1], !.Q = pq[2]] : pq \in {pair \in Pairs : Good(pair)}}
      BY <1>1, Zenon DEF Deduced
    <3> HIDE DEF Pairs, Good
    <3>2. \E pair \in Pairs : b = [c EXCEPT !.P = pair[1], !.Q = pair[2]]
      BY <3>1
    <3> QED
      BY <3>2 DEF Pairs
  <2>2. PICK key \in Keys : pair = <<key.P, key.Q>> \/ pair = <<key.Q, key.P>>
    OBVIOUS
  <2> DEFINE p == pair[1]
             q == pair[2]
  <2>3. p \in Nat /\ q \in Nat /\ Prime(p) /\ Prime(q)
    BY <2>2, KeyIs
  <2>4. b = [c EXCEPT !.P = p, !.Q = q]
    BY <2>1
  <2> HIDE DEF p, q
  <2>5. b \in Contexts /\ b.P = p /\ b.Q = q /\ b.N = c.N /\ b.blinding = c.blinding /\ b.used = c.used
        /\ b.E = c.E /\ b.len = c.len
    BY <2>3, <2>4 DEF Contexts
  <2>6. p # 0 /\ q # 0
    BY <2>3 DEF Prime
  <2> QED
    BY <1>1, <2>3, <2>5, <2>6
<1>2. CASE ~pq_missing /\ d_missing
  <2> DEFINE lambda == Lcm(c.P - 1, c.Q - 1)
             d == Inverse_mod(c.E, lambda)
  <2>1. Gcd(c.E, lambda) = 1 /\ b = [c EXCEPT !.D = d]
    BY <1>2 DEF Deduced
  <2>2. c.P \in Nat /\ c.Q \in Nat /\ c.E \in Nat \ {0} /\ Prime(c.P) /\ Prime(c.Q)
    BY <1>2 DEF Contexts
  <2>3. d \in Nat
    BY <2>1, <2>2, ExponentIs
  <2> HIDE DEF d
  <2>4. b \in Contexts /\ b.P = c.P /\ b.Q = c.Q /\ b.N = c.N /\ b.blinding = c.blinding /\ b.used = c.used
        /\ b.E = c.E /\ b.len = c.len
    BY <2>1, <2>3 DEF Contexts
  <2> QED
    BY <1>2, <2>4
<1>3. CASE ~pq_missing /\ ~d_missing
  BY <1>3 DEF Deduced
<1> QED
  BY <1>1, <1>2, <1>3

\* mbedtls_rsa_complete() keeps the invariant.
LEMMA CompleteUsable ==
  ASSUME IInv, mbedtls_rsa_complete PROVE IInv'
<1> DEFINE n_missing  == Have("P") /\ Have("Q") /\ Have("D") /\ Have("E")
           pq_missing == Have("N") /\ ~Have("P") /\ ~Have("Q") /\ Have("D") /\ Have("E")
           d_missing  == Have("P") /\ Have("Q") /\ ~Have("D") /\ Have("E")
           is_pub     == Have("N") /\ ~Have("P") /\ ~Have("Q") /\ ~Have("D") /\ Have("E")
           is_priv    == n_missing \/ pq_missing \/ d_missing
           start      == SetN(ctx)
           deduced    == Deduced(start, pq_missing, d_missing)
<1>1. /\ ctx \in Contexts /\ (ctx.P # 0 => Prime(ctx.P)) /\ (ctx.Q # 0 => Prime(ctx.Q))
      /\ (ctx.N # 0 => ctx.N > 1 /\ ctx.len = Size(ctx.N))
  BY DEF IInv, Usable
<1>2. ~ctx.used /\ spoiled' = spoiled
  BY DEF mbedtls_rsa_complete
<1>3. \/ ctx' = ctx
      \/ ctx' = start
      \/ \E c \in deduced : ctx' = (IF is_priv /\ ~(is_priv /\ Gcd(c.P, c.Q) # 1) THEN WithCrt(c) ELSE c)
  BY DEF mbedtls_rsa_complete
<1>4. /\ start \in Contexts /\ start.P = ctx.P /\ start.Q = ctx.Q /\ start.E = ctx.E
      /\ start.blinding = ctx.blinding /\ (start.N = 0 \/ start.N > 1)
      /\ (start.N # 0 => start.len = Size(start.N))
  BY <1>1, SetNIs
<1>5. pq_missing \in BOOLEAN /\ d_missing \in BOOLEAN /\ (d_missing => ctx.P # 0 /\ ctx.Q # 0 /\ ctx.E # 0)
      /\ ~(pq_missing /\ d_missing)
  BY DEF Have
<1>6. is_priv /\ ~pq_missing => ctx.P # 0 /\ ctx.Q # 0
  BY DEF Have
<1> HIDE DEF n_missing, pq_missing, d_missing, is_pub, is_priv, start
<1>7. CASE ctx' = ctx
  BY <1>2, <1>7 DEF IInv
<1>8. CASE ctx' = start
  <2>1. Usable(ctx', spoiled)
    BY <1>1, <1>2, <1>4, <1>8, UnusedUsable DEF IInv
  <2> QED
    BY <1>2, <2>1 DEF IInv
<1>9. CASE \E c \in deduced : ctx' = (IF is_priv /\ ~(is_priv /\ Gcd(c.P, c.Q) # 1) THEN WithCrt(c) ELSE c)
  <2>1. PICK c \in deduced : \/ ctx' = c
                             \/ is_priv /\ Gcd(c.P, c.Q) = 1 /\ ctx' = WithCrt(c)
    BY <1>9
  <2>2. c \in Deduced(start, pq_missing, d_missing)
    OBVIOUS
  <2> HIDE DEF deduced
  <2>3. /\ c \in Contexts /\ (c.P = 0 \/ Prime(c.P)) /\ (c.Q = 0 \/ Prime(c.Q)) /\ c.N = start.N
        /\ c.blinding = start.blinding /\ c.len = start.len /\ (~pq_missing => c.P = start.P /\ c.Q = start.Q)
        /\ (pq_missing => c.P # 0 /\ c.Q # 0)
    BY <1>1, <1>4, <1>5, <2>2, DeducedIs
  <2>4. CASE ctx' = c
    <3>1. Usable(ctx', spoiled)
      BY <1>2, <1>4, <2>3, <2>4, UnusedUsable DEF IInv
    <3> QED
      BY <1>2, <3>1 DEF IInv
  <2>5. CASE is_priv /\ Gcd(c.P, c.Q) = 1 /\ ctx' = WithCrt(c)
    <3>1. c.P # 0 /\ c.Q # 0
      BY <1>4, <1>6, <2>3, <2>5
    <3>2. Prime(c.P) /\ Prime(c.Q) /\ c.P \in Nat \ {0} /\ c.Q \in Nat
      BY <2>3, <3>1 DEF Contexts
    <3>3. Coprime(c.P, c.Q)
      BY <2>5, <3>2, GcdCoprime
    <3>4. /\ ctx' \in Contexts
          /\ \A f \in {"N", "P", "Q", "D", "E", "Vi", "Vf", "blinding", "used", "len"} : ctx'[f] = c[f]
      BY <2>3, <2>5, <3>2, <3>3, WithCrtIs
    <3>5. ctx'.N = c.N /\ ctx'.P = c.P /\ ctx'.Q = c.Q /\ ctx'.blinding = c.blinding /\ ctx'.len = c.len
      BY <3>4
    <3>6. Usable(ctx', spoiled)
      BY <1>2, <1>4, <2>3, <3>2, <3>4, <3>5, UnusedUsable DEF IInv
    <3> QED
      BY <1>2, <3>6 DEF IInv
  <2> QED
    BY <2>1, <2>4, <2>5
<1> QED
  BY <1>3, <1>7, <1>8, <1>9

\* A generated key: its parts, and what the loop has checked.
LEMMA GeneratedIs ==
  ASSUME ctx \in Contexts, NEW nbits \in Nat, NEW e \in Nat, e >= 3, NEW pq \in GoodPrimes(nbits, e)
  PROVE  LET key == GeneratedKey(pq, e)
         IN  /\ key \in Contexts /\ key.N = key.P * key.Q /\ key.N > 1 /\ Prime(key.P) /\ Prime(key.Q)
             /\ key.P > key.Q /\ key.blinding = ctx.blinding /\ key.used = ctx.used
             /\ key.len = Size(key.N) /\ BitLen(key.N) = 2 * (nbits \div 2) /\ BitLen(key.D) > (nbits + 1) \div 2
<1> DEFINE p == pq[1]
           q == pq[2]
           n == p * q
           l == Size(n)
           d == Inverse_mod(e, Lcm(p - 1, q - 1))
           c == [ctx EXCEPT !.N = n, !.P = p, !.Q = q, !.E = e, !.D = d, !.len = l]
           key == WithCrt(c)
<1>1. /\ p \in Primes /\ q \in Primes /\ BitLen(p) = nbits \div 2 /\ BitLen(q) = nbits \div 2
      /\ p > q /\ Gcd(e, (p - 1) * (q - 1)) = 1 /\ BitLen(d) > (nbits + 1) \div 2
  BY DEF GoodPrimes
<1>2. GeneratedKey(pq, e) = key
  BY DEF GeneratedKey
<1> HIDE DEF p, q
<1>3. p \in Nat /\ q \in Nat /\ Prime(p) /\ Prime(q)
  BY <1>1, GenerationAssumption, PrimeIs
<1>4. n \in Nat /\ n > 1
  BY <1>3, PrimesProduct
<1>5. BitLen(n) = 2 * (nbits \div 2)
  BY <1>1, GenerationAssumption
<1> HIDE DEF n
<1>6. l \in Nat
  BY <1>4, SizeIs
<1>7. Gcd(e, Lcm(p - 1, q - 1)) = 1
  <2> DEFINE p1 == p - 1
             q1 == q - 1
             m == Lcm(p1, q1)
             g == Gcd(e, m)
             pp == p1 * q1
  <2>1. p1 \in Nat \ {0} /\ q1 \in Nat \ {0} /\ e \in Nat \ {0}
    BY <1>3 DEF Prime
  <2>2. Gcd(e, pp) = 1
    BY <1>1
  <2>3. pp \in Nat
    BY <2>1
  <2> HIDE DEF p1, q1
  <2>4. m \in Nat /\ Divides(m, pp)
    BY <2>1, LcmIs
  <2> HIDE DEF m, pp
  <2>5. Coprime(e, pp)
    BY <2>1, <2>2, <2>3, GcdCoprime
  <2>6. g \in Nat /\ Divides(g, e) /\ Divides(g, m)
    BY <2>1, <2>4, GcdIs
  <2> HIDE DEF g
  <2>7. Divides(g, pp)
    <3>1. PICK x \in Int : m = g * x
      BY <2>6 DEF Divides
    <3>2. PICK y \in Int : pp = m * y
      BY <2>4 DEF Divides
    <3>3. pp = g * (x * y) /\ x * y \in Int
      BY <2>4, <2>6, <3>1, <3>2
    <3> DEFINE z == x * y
    <3>4. z \in Int /\ pp = g * z
      BY <3>3
    <3> HIDE DEF z
    <3> QED
      BY <3>4 DEF Divides
  <2>8. g = 1
    BY <2>5, <2>6, <2>7 DEF Coprime
  <2> QED
    BY <2>8 DEF g, m, p1, q1
<1>8. d \in Nat
  <2>1. e \in Nat \ {0}
    OBVIOUS
  <2> QED
    BY <1>3, <1>7, <2>1, ExponentIs
<1> HIDE DEF l, d
<1>9. /\ c \in Contexts /\ c.N = n /\ c.P = p /\ c.Q = q /\ c.D = d /\ c.len = l
      /\ c.blinding = ctx.blinding /\ c.used = ctx.used
  BY <1>3, <1>4, <1>6, <1>8 DEF Contexts
<1> HIDE DEF c
<1>10. Coprime(p, q)
  BY <1>1, <1>3, PrimesCoprime
<1>11. /\ key \in Contexts
       /\ \A f \in {"N", "P", "Q", "D", "E", "Vi", "Vf", "blinding", "used", "len"} : key[f] = c[f]
  BY <1>3, <1>9, <1>10, WithCrtIs
<1>12. key.N = c.N /\ key.P = c.P /\ key.Q = c.Q /\ key.D = c.D /\ key.blinding = c.blinding /\ key.used = c.used
       /\ key.len = c.len
  BY <1>11
<1> HIDE DEF key
<1>13. n = p * q /\ l = Size(n) /\ BitLen(d) > (nbits + 1) \div 2
  BY <1>1 DEF n, d, l
<1> QED
  BY <1>1, <1>2, <1>3, <1>4, <1>5, <1>9, <1>11, <1>12, <1>13

\* The ways in which generation ends.
LEMMA GenKeyEnds ==
  ASSUME mbedtls_rsa_gen_key
  PROVE  /\ ~ctx.used /\ UNCHANGED <<spoiled, blinded>>
         /\ \E nbits \in KeySizes, e \in Exponents :
              \/ ctx' = ctx /\ last' = Outcome("gen_key", "BAD_INPUT_DATA", nbits, 0)
              \/ ctx' = FreedFrom(ctx) /\ last' = Outcome("gen_key", "KEY_GEN_FAILED", nbits, 0)
              \/ /\ e >= 3 /\ nbits % 2 = 0
                 /\ \E pq \in GoodPrimes(nbits, e) :
                      /\ mbedtls_rsa_check_privkey(GeneratedKey(pq, e))
                      /\ ctx' = GeneratedKey(pq, e) /\ last' = Outcome("gen_key", "ok", nbits, 0)
<1>0. PICK nbits \in KeySizes, e \in Exponents : \E result \in GenKey(nbits, e) :
        ctx' = result[1] /\ last' = Outcome("gen_key", result[2], nbits, 0)
  BY DEF mbedtls_rsa_gen_key
<1>1. PICK result \in GenKey(nbits, e) :
        ctx' = result[1] /\ last' = Outcome("gen_key", result[2], nbits, 0)
  BY <1>0
<1>2. CASE nbits < MinKeyBits \/ e < 3 \/ nbits % 2 # 0
  <2>1. result = <<ctx, "BAD_INPUT_DATA">>
    BY <1>2 DEF GenKey
  <2> QED
    BY <1>1, <2>1 DEF mbedtls_rsa_gen_key
<1>3. CASE ~(nbits < MinKeyBits \/ e < 3 \/ nbits % 2 # 0)
  <2>1. CASE result = <<FreedFrom(ctx), "KEY_GEN_FAILED">>
    BY <1>1, <2>1 DEF mbedtls_rsa_gen_key
  <2>2. CASE \E pq \in GoodPrimes(nbits, e) : /\ mbedtls_rsa_check_privkey(GeneratedKey(pq, e))
                                              /\ result = <<GeneratedKey(pq, e), "ok">>
    <3>1. PICK pq \in GoodPrimes(nbits, e) : /\ mbedtls_rsa_check_privkey(GeneratedKey(pq, e))
                                             /\ result = <<GeneratedKey(pq, e), "ok">>
      BY <2>2
    <3>2. result[1] = GeneratedKey(pq, e) /\ result[2] = "ok"
      BY <3>1
    <3>3. e >= 3 /\ nbits % 2 = 0
      BY <1>3, GenerationAssumption
    <3> QED
      BY <1>1, <3>1, <3>2, <3>3 DEF mbedtls_rsa_gen_key
  <2> QED
    BY <1>3, <2>1, <2>2, Zenon DEF GenKey
<1> QED
  BY <1>2, <1>3

\* mbedtls_rsa_gen_key() keeps it.
LEMMA GenKeyUsable ==
  ASSUME IInv, mbedtls_rsa_gen_key PROVE IInv'
<1>1. ctx \in Contexts /\ Usable(ctx, spoiled)
  BY DEF IInv, Usable
<1>2. ~ctx.used /\ spoiled' = spoiled /\ spoiled \in BOOLEAN
  BY GenKeyEnds DEF IInv
<1>3. CASE ctx' = ctx
  BY <1>2, <1>3 DEF IInv
<1>4. CASE ctx' = FreedFrom(ctx)
  BY <1>1, <1>2, <1>4, FreedUsable DEF IInv
<1>5. CASE \E nbits \in KeySizes, e \in Exponents : e >= 3 /\ \E pq \in GoodPrimes(nbits, e) : ctx' = GeneratedKey(pq, e)
  <2>1. PICK nbits \in KeySizes, e \in Exponents : e >= 3 /\ \E pq \in GoodPrimes(nbits, e) : ctx' = GeneratedKey(pq, e)
    BY <1>5
  <2>2. PICK pq \in GoodPrimes(nbits, e) : ctx' = GeneratedKey(pq, e)
    BY <2>1
  <2>3. nbits \in Nat /\ e \in Nat
    BY GenerationAssumption
  <2>4. /\ ctx' \in Contexts /\ Prime(ctx'.P) /\ Prime(ctx'.Q) /\ ctx'.N > 1 /\ ctx'.blinding = ctx.blinding
        /\ ctx'.len = Size(ctx'.N)
    BY <1>1, <2>1, <2>2, <2>3, GeneratedIs
  <2>5. Usable(ctx', spoiled)
    BY <1>1, <1>2, <2>4, UnusedUsable
  <2> QED
    BY <1>2, <2>5 DEF IInv
<1> QED
  BY <1>3, <1>4, <1>5, GenKeyEnds

-----------------------------------------------------------------------------
\* An operation that leaves a sound context of the same key keeps it.
LEMMA LeaveUsable ==
  ASSUME IInv, NEW ran, Leaves(ctx, ran), NEW rng, NEW op, NEW ret, NEW in, NEW out, NEW text,
         Leave(ran, rng, op, ret, in, out, text)
  PROVE  IInv'
<1>1. spoiled \in BOOLEAN /\ Usable(ctx, spoiled)
  BY DEF IInv
<1>2. Usable(ran.c, spoiled \/ ran.bad) /\ (spoiled \/ ran.bad) \in BOOLEAN
  BY <1>1, LeavesUsable
<1>3. ctx' = ran.c /\ spoiled' = (spoiled \/ ran.bad)
  BY DEF Leave
<1> QED
  BY <1>2, <1>3 DEF IInv

\* What the operations need of it.
LEMMA UsableFacts ==
  ASSUME IInv
  PROVE  ctx \in Contexts /\ (ctx.N # 0 => ctx.N > 1) /\ (ctx.blinding => ctx.used)
BY DEF IInv, Usable

\* The public operation keeps it.
LEMMA PublicUsable ==
  ASSUME IInv, Public PROVE IInv'
<1>1. PICK in \in Inputs :
        LET ran == mbedtls_rsa_public(ctx, in) IN Leave(ran, FALSE, "public", ran.ret, in, ran.out, <<>>)
  BY DEF Public
<1> DEFINE ran == mbedtls_rsa_public(ctx, in)
<1>2. Leaves(ctx, ran)
  BY UsableFacts, PublicLeaves
<1> HIDE DEF ran
<1>3. Leave(ran, FALSE, "public", ran.ret, in, ran.out, <<>>)
  BY <1>1 DEF ran
<1> QED
  BY <1>2, <1>3, LeaveUsable

\* The private operation keeps it.
LEMMA PrivateUsable ==
  ASSUME IInv, Private PROVE IInv'
<1>0. PICK rng \in BOOLEAN, in \in Inputs : \E ran \in mbedtls_rsa_private(ctx, rng, in) :
        Leave(ran, rng, "private", ran.ret, in, ran.out, <<>>)
  BY DEF Private
<1>1. PICK ran \in mbedtls_rsa_private(ctx, rng, in) :
        Leave(ran, rng, "private", ran.ret, in, ran.out, <<>>)
  BY <1>0
<1>2. Leaves(ctx, ran)
  BY UsableFacts, PrivateLeaves
<1> QED
  BY <1>1, <1>2, LeaveUsable

\* mbedtls_rsa_pkcs1_encrypt() keeps it.
LEMMA EncryptUsable ==
  ASSUME IInv, mbedtls_rsa_pkcs1_encrypt PROVE IInv'
<1>1. CASE ctx.padding = "V15"
  BY <1>1 DEF mbedtls_rsa_pkcs1_encrypt, IInv
<1>2. CASE ctx.padding # "V15"
  <2>1. PICK rng \in BOOLEAN, seed \in RandomString(HashLen), msg \in Messages :
          LET ran == mbedtls_rsa_rsaes_oaep_encrypt(ctx, rng, seed, msg)
          IN  Leave(ran, FALSE, "encrypt", ran.ret, 0, ran.out, msg)
    BY <1>2 DEF mbedtls_rsa_pkcs1_encrypt
  <2> DEFINE ran == mbedtls_rsa_rsaes_oaep_encrypt(ctx, rng, seed, msg)
  <2>2. Leaves(ctx, ran)
    BY UsableFacts, PublicLeaves, RefusedLeaves DEF mbedtls_rsa_rsaes_oaep_encrypt
  <2>3. Leave(ran, FALSE, "encrypt", ran.ret, 0, ran.out, msg)
    BY <2>1
  <2> HIDE DEF ran
  <2> QED
    BY <2>2, <2>3, LeaveUsable
<1> QED
  BY <1>1, <1>2

\* mbedtls_rsa_pkcs1_decrypt() keeps it.
LEMMA DecryptUsable ==
  ASSUME IInv, mbedtls_rsa_pkcs1_decrypt PROVE IInv'
<1> DEFINE Ends(rng, in, max, sent) ==
             IF ~OaepDecryptable(ctx)
             THEN Leave(Ran(ctx, "", 0, FALSE, FALSE), FALSE, "decrypt", "BAD_INPUT_DATA", sent, max, <<>>)
             ELSE \E ran \in mbedtls_rsa_private(ctx, rng, in) :
                    LET result == mbedtls_rsa_rsaes_oaep_decrypt(ctx, ran, max)
                    IN  Leave(ran, rng, "decrypt", result[1], sent, max, result[2])
<1>0. PICK rng \in BOOLEAN : \E in, max, sent : Ends(rng, in, max, sent)
  BY DEF mbedtls_rsa_pkcs1_decrypt
<1>1. PICK in, max, sent : Ends(rng, in, max, sent)
  BY <1>0
<1>2. CASE Leave(Ran(ctx, "", 0, FALSE, FALSE), FALSE, "decrypt", "BAD_INPUT_DATA", sent, max, <<>>)
  <2> DEFINE ran == Ran(ctx, "", 0, FALSE, FALSE)
  <2>1. Leaves(ctx, ran)
    BY UsableFacts, RefusedLeaves
  <2> HIDE DEF ran
  <2>2. Leave(ran, FALSE, "decrypt", "BAD_INPUT_DATA", sent, max, <<>>)
    BY <1>2 DEF ran
  <2> QED
    BY <2>1, <2>2, LeaveUsable
<1>3. CASE \E ran \in mbedtls_rsa_private(ctx, rng, in) :
              LET result == mbedtls_rsa_rsaes_oaep_decrypt(ctx, ran, max)
              IN  Leave(ran, rng, "decrypt", result[1], sent, max, result[2])
  <2>1. PICK ran \in mbedtls_rsa_private(ctx, rng, in) : \E ret, text : Leave(ran, rng, "decrypt", ret, sent, max, text)
    BY <1>3
  <2>2. Leaves(ctx, ran)
    BY UsableFacts, PrivateLeaves
  <2> QED
    BY <2>1, <2>2, LeaveUsable
<1> QED
  BY <1>1, <1>2, <1>3

\* mbedtls_rsa_pkcs1_sign() keeps it.
LEMMA SignUsable ==
  ASSUME IInv, mbedtls_rsa_pkcs1_sign PROVE IInv'
<1>1. CASE ctx.padding = "V15"
  BY <1>1 DEF mbedtls_rsa_pkcs1_sign, IInv
<1>2. CASE ctx.padding # "V15"
  <2>1. PICK rng \in BOOLEAN, digest \in Digests : \E salt :
          \E ran \in mbedtls_rsa_rsassa_pss_sign(ctx, rng, digest, salt) :
            Leave(ran, rng, "sign", ran.ret, 0, ran.out, digest)
    BY <1>2 DEF mbedtls_rsa_pkcs1_sign
  <2>2. PICK salt : \E ran \in mbedtls_rsa_rsassa_pss_sign(ctx, rng, digest, salt) :
          Leave(ran, rng, "sign", ran.ret, 0, ran.out, digest)
    BY <2>1
  <2>3. PICK ran \in mbedtls_rsa_rsassa_pss_sign(ctx, rng, digest, salt) :
          Leave(ran, rng, "sign", ran.ret, 0, ran.out, digest)
    BY <2>2
  <2>4. \/ ran = Ran(ctx, "BAD_INPUT_DATA", 0, FALSE, FALSE)
        \/ \E in : ran \in mbedtls_rsa_private(ctx, rng, in)
    BY DEF mbedtls_rsa_rsassa_pss_sign
  <2>5. Leaves(ctx, ran)
    BY <2>4, UsableFacts, PrivateLeaves, RefusedLeaves
  <2> QED
    BY <2>3, <2>5, LeaveUsable
<1> QED
  BY <1>1, <1>2

\* mbedtls_rsa_pkcs1_verify() keeps it.
LEMMA VerifyUsable ==
  ASSUME IInv, mbedtls_rsa_pkcs1_verify PROVE IInv'
<1>1. PICK ret, in, out, text :
        Leave(Ran([ctx EXCEPT !.used = TRUE], "", 0, FALSE, FALSE), FALSE, "verify", ret, in, out, text)
  BY DEF mbedtls_rsa_pkcs1_verify
<1> DEFINE ran == Ran([ctx EXCEPT !.used = TRUE], "", 0, FALSE, FALSE)
<1>2. Leaves(ctx, ran)
  BY UsableFacts, RefusedLeaves
<1> HIDE DEF ran
<1>3. Leave(ran, FALSE, "verify", ret, in, out, text)
  BY <1>1 DEF ran
<1> QED
  BY <1>2, <1>3, LeaveUsable

\* Every step keeps the invariant.
LEMMA NextUsable ==
  IInv /\ [Next]_vars => IInv'
<1> SUFFICES ASSUME IInv, [Next]_vars PROVE IInv'
  OBVIOUS
<1>1. CASE UNCHANGED vars
  BY <1>1 DEF vars, IInv
<1>2. CASE Check \/ mbedtls_rsa_export
  BY <1>2 DEF Check, mbedtls_rsa_export, IInv
<1> QED
  BY <1>1, <1>2, ImportUsable, CompleteUsable, GenKeyUsable, PaddingUsable, CopyUsable, FreeUsable, PublicUsable,
     PrivateUsable, EncryptUsable, DecryptUsable, SignUsable, VerifyUsable DEF Next

-----------------------------------------------------------------------------
(* The results *)

\* What an operation that ran records.
LEMMA LeaveIs ==
  ASSUME NEW ran, NEW rng, NEW op, NEW ret, NEW in, NEW out, NEW text, Leave(ran, rng, op, ret, in, out, text)
  PROVE  /\ ctx' = ran.c /\ spoiled' = (spoiled \/ ran.bad)
         /\ last'.op = op /\ last'.ret = ret /\ last'.in = in /\ last'.out = out /\ last'.glitch = ran.glitch
BY DEF Leave

\* The steps that concern the properties of generation, of the check and of the private operation.
LEMMA StepKinds ==
  ASSUME [Next]_vars
  PROVE  \/ UNCHANGED <<ctx, last, spoiled>>
         \/ mbedtls_rsa_gen_key \/ Check \/ Private
         \/ last'.op \notin {"gen_key", "check_privkey", "private"}
<1> DEFINE Others == last'.op \notin {"gen_key", "check_privkey", "private"}
<1>1. CASE UNCHANGED vars
  BY <1>1 DEF vars
<1>2. CASE mbedtls_rsa_import \/ mbedtls_rsa_export \/ mbedtls_rsa_set_padding \/ mbedtls_rsa_free
  <2>1. \E op \in {"import", "export", "set_padding", "free"} : \E ret, in : last' = Outcome(op, ret, in, 0)
    BY <1>2, Zenon DEF mbedtls_rsa_import, mbedtls_rsa_export, mbedtls_rsa_set_padding, mbedtls_rsa_free
  <2>2. ASSUME NEW op \in {"import", "export", "set_padding", "free"}, NEW ret, NEW in, last' = Outcome(op, ret, in, 0)
        PROVE  Others
    BY <2>2 DEF Outcome
  <2> QED
    BY <2>1, <2>2
<1>3. CASE mbedtls_rsa_complete
  <2>1. \E ret : last' = Outcome("complete", ret, 0, 0)
    BY <1>3, Zenon DEF mbedtls_rsa_complete
  <2> QED
    BY <2>1 DEF Outcome
<1>4. CASE mbedtls_rsa_copy
  BY <1>4 DEF Outcome, mbedtls_rsa_copy, Copied
<1>5. CASE Public
  <2>1. PICK ran, ret, in, out, text : Leave(ran, FALSE, "public", ret, in, out, text)
    BY <1>5 DEF Public
  <2> QED
    BY <2>1, LeaveIs
<1>6. CASE mbedtls_rsa_pkcs1_encrypt
  <2>1. \/ last' = Outcome("v15", "chip", 0, 0)
        \/ \E ran, ret, in, out, text : Leave(ran, FALSE, "encrypt", ret, in, out, text)
    BY <1>6 DEF mbedtls_rsa_pkcs1_encrypt
  <2>2. CASE last' = Outcome("v15", "chip", 0, 0)
    BY <2>2 DEF Outcome
  <2>3. CASE \E ran, ret, in, out, text : Leave(ran, FALSE, "encrypt", ret, in, out, text)
    BY <2>3, LeaveIs
  <2> QED
    BY <2>1, <2>2, <2>3
<1>7. CASE mbedtls_rsa_pkcs1_decrypt
  <2>1. \E ran, rng, ret, in, out, text : Leave(ran, rng, "decrypt", ret, in, out, text)
    BY <1>7 DEF mbedtls_rsa_pkcs1_decrypt
  <2> QED
    BY <2>1, LeaveIs
<1>8. CASE mbedtls_rsa_pkcs1_sign
  <2>1. \/ last' = Outcome("v15", "chip", 0, 0)
        \/ \E ran, rng, ret, in, out, text : Leave(ran, rng, "sign", ret, in, out, text)
    BY <1>8 DEF mbedtls_rsa_pkcs1_sign
  <2> QED
    BY <2>1, LeaveIs DEF Outcome
<1>9. CASE mbedtls_rsa_pkcs1_verify
  <2>1. \E ran, ret, in, out, text : Leave(ran, FALSE, "verify", ret, in, out, text)
    BY <1>9 DEF mbedtls_rsa_pkcs1_verify
  <2> QED
    BY <2>1, LeaveIs
<1> QED
  BY <1>1, <1>2, <1>3, <1>4, <1>5, <1>6, <1>7, <1>8, <1>9 DEF Next

\* Contexts are usable at all times: the factors are prime, and blinding values are there only
\* in a context that is used, and undo each other unless making them was interrupted.
THEOREM ContextsUsable == Spec => []IInv
BY InitUsable, NextUsable, PTL DEF Spec

\* Sound blinding values as the property states them.
LEMMA BlindedIs ==
  IInv => BlindingConsistent
<1> SUFFICES ASSUME IInv, ctx.blinding, ~spoiled
             PROVE  (PowMod(ctx.Vf, ctx.E, ctx.N) * ctx.Vi) % ctx.N = 1
  BY DEF BlindingConsistent
<1>1. ctx \in Contexts /\ ctx.N > 1 /\ Blinded(ctx)
  BY DEF IInv, Usable
<1> DEFINE n == ctx.N
           e == ctx.E
           f == ctx.Vf
           i == ctx.Vi
           x == Power(f, e)
           y == PowMod(f, e, n)
           yi == y * i
           xi == x * i
<1>2. n \in Nat \ {0} /\ n \in Nat /\ n > 1 /\ e \in Nat /\ f \in Nat /\ f \in Int /\ i \in Int
  BY <1>1 DEF Contexts
<1>3. Congruent(n, xi, 1)
  BY <1>1 DEF Blinded, Undo
<1> HIDE DEF n, e, f, i
<1>4. y = x % n
  BY <1>2, PowModIs
<1>5. x \in Int
  BY <1>2, PowerRule
<1> HIDE DEF x, y
<1>6. Congruent(n, y, x) /\ y \in Int
  BY <1>2, <1>4, <1>5, CongruentToRemainder
<1>7. Congruent(n, i, i)
  BY <1>2, CongruentSelf
<1>8. Congruent(n, yi, xi)
  BY <1>2, <1>5, <1>6, <1>7, CongruentProduct
<1>9. yi \in Int /\ xi \in Int /\ 1 \in Int
  BY <1>2, <1>5, <1>6
<1> HIDE DEF yi, xi
<1>10. Congruent(n, yi, 1)
  BY <1>2, <1>3, <1>8, <1>9, CongruentChain
<1>11. yi % n = 1 % n
  BY <1>2, <1>9, <1>10, SameRemainder
<1>12. 1 % n = 1
  BY <1>2
<1> QED
  BY <1>11, <1>12 DEF yi, y, n, e, f, i

\* Blinding values that were made without an interruption undo each other, after any number
\* of squarings, in the context and in its copies.
THEOREM BlindingValuesConsistent == Spec => []BlindingConsistent
BY ContextsUsable, BlindedIs, PTL

\* A context that passes the checks is an accepted key.
LEMMA AcceptedContext ==
  ASSUME IInv, mbedtls_rsa_check_privkey(ctx) PROVE Accepted(ctx) /\ ctx \in Contexts
<1>1. ctx.P # 0 /\ ctx.Q # 0
  BY DEF mbedtls_rsa_check_privkey, rsa_check_context, IInv, Usable, Contexts
<1> QED
  BY <1>1 DEF Accepted, IInv, Usable

\* The CRT undoes the public operation.
LEMMA CrtDecrypts ==
  ASSUME NEW c \in Contexts, Accepted(c), NEW m \in 0..(c.N - 1)
  PROVE  Crt(c, PowMod(m, c.E, c.N), 0, FALSE) = m
<1>1. c.N \in Nat \ {0} /\ c.N > 1 /\ c.D \in Nat /\ c.E \in Nat /\ m \in Nat /\ m < c.N /\ m \in Int
  BY AcceptedNumbers
<1> DEFINE x == Power(m, c.E)
           t == PowMod(m, c.E, c.N)
           y == Crt(c, t, 0, FALSE)
           z == Power(t, c.D)
<1>2. t = x % c.N
  BY <1>1, PowModIs
<1>3. x \in Int
  BY <1>1, PowerRule
<1>4. t \in Nat /\ Congruent(c.N, t, x)
  <2> HIDE DEF x, t
  <2> QED
    BY <1>1, <1>2, <1>3, Division, CongruentToRemainder
<1>5. PowMod(t, c.D, c.N) = m
  <2> HIDE DEF t
  <2> QED
    BY <1>1, <1>4, KeyUndoes
<1> HIDE DEF t
<1>6. y \in Nat /\ y < c.N /\ Congruent(c.N, y, z)
  <2>1. 0 \in Nat
    OBVIOUS
  <2> QED
    BY <1>4, <2>1, CrtIs
<1>7. PowMod(t, c.D, c.N) = z % c.N
  BY <1>1, <1>4, PowModIs
<1>8. z \in Int /\ y \in Int
  <2>1. t \in Int
    BY <1>4
  <2>2. y \in Int
    <3> HIDE DEF y
    <3> QED
      BY <1>6
  <2> QED
    BY <1>1, <2>1, <2>2, PowerRule
<1> HIDE DEF y, z
<1>9. y % c.N = z % c.N
  BY <1>1, <1>6, <1>8, SameRemainder
<1>10. y % c.N = y
  <2>1. y = c.N * 0 + y
    BY <1>1, <1>6
  <2> QED
    BY <1>1, <1>6, <2>1, Remainder
<1> QED
  BY <1>5, <1>7, <1>9, <1>10 DEF y, t

\* The check of a private key passed.
CheckedIsAccepted ==
  last.op = "check_privkey" /\ last.ret = "ok" => mbedtls_rsa_check_privkey(ctx)

\* Steps keep it: the context does not change without another operation.
LEMMA CheckedStep ==
  ASSUME CheckedIsAccepted, [Next]_vars PROVE CheckedIsAccepted'
<1>1. CASE UNCHANGED <<ctx, last, spoiled>>
  BY <1>1 DEF CheckedIsAccepted
<1>2. CASE mbedtls_rsa_gen_key
  BY <1>2, GenKeyEnds DEF Outcome, CheckedIsAccepted
<1>3. CASE Check
  <2>1. last'.ret = "ok" => mbedtls_rsa_check_privkey(ctx)
    BY <1>3 DEF Outcome, Check
  <2>2. ctx' = ctx
    BY <1>3 DEF Check
  <2> QED
    BY <2>1, <2>2 DEF CheckedIsAccepted
<1>4. CASE Private
  <2>1. PICK ran, rng, ret, in, out, text : Leave(ran, rng, "private", ret, in, out, text)
    BY <1>4 DEF Private
  <2> QED
    BY <2>1, LeaveIs DEF CheckedIsAccepted
<1>5. CASE last'.op \notin {"gen_key", "check_privkey", "private"}
  BY <1>5 DEF CheckedIsAccepted
<1> QED
  BY <1>1, <1>2, <1>3, <1>4, <1>5, StepKinds

\* A key that mbedtls_rsa_check_privkey() has accepted, made of prime factors by import and
\* completion or by generation, decrypts through the CRT what was encrypted with it.
THEOREM AcceptedKeysWork == Spec => []AcceptedKeyWorks
<1>1. Init => CheckedIsAccepted
  BY DEF Outcome, Init, CheckedIsAccepted
<1>2. CheckedIsAccepted /\ [Next]_vars => CheckedIsAccepted'
  BY CheckedStep
<1>3. IInv /\ CheckedIsAccepted => AcceptedKeyWorks
  BY AcceptedContext, CrtDecrypts DEF CheckedIsAccepted, AcceptedKeyWorks
<1> QED
  BY <1>1, <1>2, <1>3, ContextsUsable, PTL DEF Spec

\* Steps keep GenKeyRight.
LEMMA GenKeyRightStep ==
  ASSUME IInv, GenKeyRight, [Next]_vars PROVE GenKeyRight'
<1>1. CASE UNCHANGED <<ctx, last, spoiled>>
  BY <1>1 DEF GenKeyRight
<1>2. CASE mbedtls_rsa_gen_key
  <2>1. PICK nbits \in KeySizes, e \in Exponents :
              \/ ctx' = ctx /\ last' = Outcome("gen_key", "BAD_INPUT_DATA", nbits, 0)
              \/ ctx' = FreedFrom(ctx) /\ last' = Outcome("gen_key", "KEY_GEN_FAILED", nbits, 0)
              \/ /\ e >= 3 /\ nbits % 2 = 0
                 /\ \E pq \in GoodPrimes(nbits, e) :
                      /\ mbedtls_rsa_check_privkey(GeneratedKey(pq, e))
                      /\ ctx' = GeneratedKey(pq, e) /\ last' = Outcome("gen_key", "ok", nbits, 0)
    BY <1>2, GenKeyEnds
  <2>2. CASE last' = Outcome("gen_key", "BAD_INPUT_DATA", nbits, 0)
    BY <2>2 DEF Outcome, GenKeyRight
  <2>3. CASE ctx' = FreedFrom(ctx) /\ last' = Outcome("gen_key", "KEY_GEN_FAILED", nbits, 0)
    <3>1. \A f \in Parts \cup {"DP", "DQ", "QP", "Vi", "Vf"} : FreedFrom(ctx)[f] = 0
      <4> DEFINE c == FreedFrom(ctx)
      <4>1. /\ c.N = 0 /\ c.P = 0 /\ c.Q = 0 /\ c.D = 0 /\ c.E = 0 /\ c.DP = 0 /\ c.DQ = 0 /\ c.QP = 0
            /\ c.Vi = 0 /\ c.Vf = 0
        BY DEF FreedFrom, Freed
      <4> HIDE DEF c
      <4>2. \A f \in Parts \cup {"DP", "DQ", "QP", "Vi", "Vf"} : c[f] = 0
        BY <4>1 DEF Parts
      <4> QED
        BY <4>2 DEF c
    <3> QED
      BY <2>3, <3>1 DEF Outcome, GenKeyRight
  <2>4. CASE /\ e >= 3 /\ nbits % 2 = 0
             /\ \E pq \in GoodPrimes(nbits, e) :
                      /\ mbedtls_rsa_check_privkey(GeneratedKey(pq, e))
                      /\ ctx' = GeneratedKey(pq, e) /\ last' = Outcome("gen_key", "ok", nbits, 0)
    <3>1. PICK pq \in GoodPrimes(nbits, e) :
                      /\ mbedtls_rsa_check_privkey(GeneratedKey(pq, e))
                      /\ ctx' = GeneratedKey(pq, e) /\ last' = Outcome("gen_key", "ok", nbits, 0)
      BY <2>4
    <3>2. nbits \in Nat /\ e \in Nat /\ ctx \in Contexts
      BY GenerationAssumption, UsableFacts
    <3>3. ctx'.P > ctx'.Q /\ BitLen(ctx'.N) = 2 * (nbits \div 2) /\ BitLen(ctx'.D) > (nbits + 1) \div 2
      BY <2>4, <3>1, <3>2, GeneratedIs
    <3>4. 2 * (nbits \div 2) = nbits /\ (nbits + 1) \div 2 = nbits \div 2
      BY <2>4, <3>2
    <3>5. mbedtls_rsa_check_privkey(ctx')
      BY <3>1
    <3>6. last'.in = nbits /\ last'.ret = "ok"
      BY <3>1 DEF Outcome
    <3> QED
      BY <3>3, <3>4, <3>5, <3>6 DEF GenKeyRight
  <2> QED
    BY <2>1, <2>2, <2>3, <2>4
<1>3. CASE Check
  BY <1>3 DEF Outcome, Check, GenKeyRight
<1>4. CASE Private
  <2>1. PICK ran, rng, ret, in, out, text : Leave(ran, rng, "private", ret, in, out, text)
    BY <1>4 DEF Private
  <2> QED
    BY <2>1, LeaveIs DEF GenKeyRight
<1>5. CASE last'.op \notin {"gen_key", "check_privkey", "private"}
  BY <1>5 DEF GenKeyRight
<1> QED
  BY <1>1, <1>2, <1>3, <1>4, <1>5, StepKinds

\* A generated key passes the check, has the size asked for and a large private exponent; a
\* failed generation leaves no number of the key behind.
THEOREM GeneratedKeysRight == Spec => []GenKeyRight
<1>1. Init => GenKeyRight
  BY DEF Outcome, Init, GenKeyRight
<1>2. IInv /\ GenKeyRight /\ [Next]_vars => GenKeyRight'
  BY GenKeyRightStep
<1> QED
  BY <1>1, <1>2, ContextsUsable, PTL DEF Spec

\* The checks look at the key only.
LEMMA SameCheck ==
  ASSUME NEW b, NEW c, SameKey(b, c)
  PROVE  mbedtls_rsa_check_privkey(b) <=> mbedtls_rsa_check_privkey(c)
BY DEF SameKey, mbedtls_rsa_check_privkey, mbedtls_rsa_check_pubkey, rsa_check_context, validate_params, validate_crt

\* Steps keep PrivateSound.
LEMMA PrivateSoundStep ==
  ASSUME IInv, PrivateSound, [Next]_vars PROVE PrivateSound'
<1>1. CASE UNCHANGED <<ctx, last, spoiled>>
  BY <1>1 DEF PrivateSound, PrivateSucceeds, PrivateRight
<1>2. CASE mbedtls_rsa_gen_key
  BY <1>2, GenKeyEnds DEF Outcome, PrivateSound, PrivateSucceeds, PrivateRight
<1>3. CASE Check
  BY <1>3 DEF Outcome, Check, PrivateSound, PrivateSucceeds, PrivateRight
<1>4. CASE Private
  <2>0. PICK rng \in BOOLEAN, in \in Inputs : \E ran \in mbedtls_rsa_private(ctx, rng, in) :
          Leave(ran, rng, "private", ran.ret, in, ran.out, <<>>)
    BY <1>4 DEF Private
  <2>1. PICK ran \in mbedtls_rsa_private(ctx, rng, in) : Leave(ran, rng, "private", ran.ret, in, ran.out, <<>>)
    BY <2>0
  <2>2. /\ ctx' = ran.c /\ spoiled' = (spoiled \/ ran.bad) /\ last'.ret = ran.ret /\ last'.in = in
        /\ last'.out = ran.out /\ last'.glitch = ran.glitch
    BY <2>1, LeaveIs
  <2>3. SameKey(ctx', ctx)
    BY <2>2, UsableFacts, PrivateLeaves DEF Leaves
  <2>4. ctx'.N = ctx.N /\ ctx'.D = ctx.D
    BY <2>3 DEF SameKey
  <2>5. ASSUME mbedtls_rsa_check_privkey(ctx')
        PROVE  /\ ran.ret = "ok" => in < ctx.N /\ ran.out = PowMod(in, ctx.D, ctx.N)
               /\ in < ctx.N /\ ~ran.glitch /\ ~ran.bad /\ (ctx.blinding => Blinded(ctx)) => ran.ret = "ok"
    <3>1. Accepted(ctx) /\ ctx \in Contexts
      BY <2>3, <2>5, SameCheck, AcceptedContext
    <3>2. in \in Nat
      BY ArgumentsAssumption
    <3> QED
      BY <3>1, <3>2, UsableFacts, PrivateOutcome
  <2>6. ~spoiled => (ctx.blinding => Blinded(ctx))
    BY DEF IInv, Usable
  <2>7. PrivateSucceeds'
    BY <2>2, <2>4, <2>5, <2>6 DEF PrivateSucceeds
  <2>8. PrivateRight'
    BY <2>2, <2>4, <2>5 DEF PrivateRight
  <2> QED
    BY <2>7, <2>8 DEF PrivateSound
<1>5. CASE last'.op \notin {"gen_key", "check_privkey", "private"}
  BY <1>5 DEF PrivateSound, PrivateSucceeds, PrivateRight
<1> QED
  BY <1>1, <1>2, <1>3, <1>4, <1>5, StepKinds

\* Whatever disturbs it, the private operation of an accepted key gives out the right number
\* or none; undisturbed and with sound blinding values it gives it out.
THEOREM PrivateOperationSound == Spec => []PrivateSound
<1>1. Init => PrivateSound
  BY DEF Outcome, Init, PrivateSound, PrivateSucceeds, PrivateRight
<1>2. IInv /\ PrivateSound /\ [Next]_vars => PrivateSound'
  BY PrivateSoundStep
<1> QED
  BY <1>1, <1>2, ContextsUsable, PTL DEF Spec

-----------------------------------------------------------------------------
(* Completion *)

\* The numbers of a key that passes the checks, in a key or in a context.
KeyFits(k) ==
  /\ k.N = k.P * k.Q /\ k.P # k.Q /\ k.N % 2 = 1
  /\ BitLen(k.N) >= MinKeyBits /\ Size(k.N) <= MaxLen
  /\ k.E % 2 = 1 /\ BitLen(k.E) >= 2 /\ k.E > 1 /\ k.E < k.N
  /\ k.D > 1 /\ k.D < k.N
  /\ Congruent(k.P - 1, k.D * k.E, 1) /\ Congruent(k.Q - 1, k.D * k.E, 1)

\* Coprime numbers have no greater common divisor than 1.
LEMMA CoprimeGcd ==
  ASSUME NEW a \in Nat \ {0}, NEW b \in Nat, Coprime(a, b)
  PROVE  Gcd(a, b) = 1
BY GcdIs DEF Coprime

\* A factor of an odd number is odd.
LEMMA OddFactors ==
  ASSUME NEW p \in Nat, NEW q \in Nat, (p * q) % 2 = 1
  PROVE  p % 2 = 1 /\ q % 2 = 1
<1>1. p % 2 = 1
  <2> SUFFICES ASSUME p % 2 # 1 PROVE FALSE
    OBVIOUS
  <2>1. PICK h \in Nat : p = 2 * h
    OBVIOUS
  <2> DEFINE hq == h * q
  <2>2. hq \in Nat /\ p * q = 2 * hq
    BY <2>1
  <2> HIDE DEF hq
  <2> QED
    BY <2>2
<1>2. q % 2 = 1
  <2> SUFFICES ASSUME q % 2 # 1 PROVE FALSE
    OBVIOUS
  <2>1. PICK h \in Nat : q = 2 * h
    OBVIOUS
  <2> DEFINE ph == p * h
  <2>2. ph \in Nat /\ p * q = 2 * ph
    BY <2>1
  <2> HIDE DEF ph
  <2> QED
    BY <2>2
<1> QED
  BY <1>1, <1>2

\* What is congruent to 1 is not a multiple.
LEMMA NotMultiple ==
  ASSUME NEW m \in Nat, m > 1, NEW a \in Nat, NEW b \in Nat, Congruent(m, a * b, 1)
  PROVE  a % m # 0 /\ a # 0 /\ ~Divides(m, a)
<1>1. PICK k \in Int : a * b = 1 + m * k
  BY DEF Congruent
<1>2. ~Divides(m, a)
  <2> SUFFICES ASSUME Divides(m, a) PROVE FALSE
    OBVIOUS
  <2>1. PICK l \in Int : a = m * l
    BY DEF Divides
  <2>2. m * (l * b - k) = 1 /\ l * b - k \in Int
    BY <1>1, <2>1
  <2> DEFINE x == l * b - k
  <2>3. x \in Int /\ 1 = m * x
    BY <2>2
  <2> HIDE DEF x
  <2>4. Divides(m, 1)
    BY <2>3 DEF Divides
  <2>5. ~Divides(m, 1)
    BY SmallNotDivided
  <2> QED
    BY <2>4, <2>5
<1>3. a % m # 0
  BY <1>2, NoRemainder
<1>4. a # 0
  BY <1>1, <1>3
<1> QED
  BY <1>2, <1>3, <1>4

\* The checks state congruences as remainders of differences.
LEMMA DifferenceOfCongruent ==
  ASSUME NEW m \in Nat \ {0}, NEW a \in Int, NEW b \in Int, Congruent(m, a, b)
  PROVE  (a - b) % m = 0
<1>1. a - b \in Int
  OBVIOUS
<1>2. Divides(m, a - b)
  BY CongruentIsDivided
<1> QED
  BY <1>1, <1>2, NoRemainder

\* A context whose numbers fit passes the checks once it has its CRT parts.
LEMMA FitPasses ==
  ASSUME NEW c \in Contexts, Prime(c.P), Prime(c.Q), KeyFits(c), c.len = Size(c.N)
  PROVE  /\ Gcd(c.P, c.Q) = 1 /\ WithCrt(c) \in Contexts
         /\ mbedtls_rsa_check_privkey(WithCrt(c)) /\ rsa_check_context(WithCrt(c), TRUE)
<1> DEFINE w == WithCrt(c)
           p1 == c.P - 1
           q1 == c.Q - 1
           de == c.D * c.E
<1>1. /\ c.N \in Nat /\ c.P \in Nat /\ c.Q \in Nat /\ c.D \in Nat /\ c.E \in Nat /\ c.P > 1 /\ c.Q > 1
      /\ c.P \in Nat \ {0} /\ c.Q \in Nat \ {0}
  BY DEF Contexts, Prime
<1>2. c.N = c.P * c.Q /\ c.P # c.Q /\ c.N % 2 = 1 /\ BitLen(c.N) >= MinKeyBits /\ Size(c.N) <= MaxLen
      /\ c.E % 2 = 1 /\ BitLen(c.E) >= 2 /\ c.E > 1 /\ c.E < c.N /\ c.D > 1 /\ c.D < c.N
      /\ Congruent(p1, de, 1) /\ Congruent(q1, de, 1)
  BY DEF KeyFits
<1>3. c.P % 2 = 1 /\ c.Q % 2 = 1
  BY <1>1, <1>2, OddFactors
<1>4. p1 \in Nat /\ p1 > 1 /\ q1 \in Nat /\ q1 > 1 /\ de \in Int
  BY <1>1, <1>3
<1>5. Coprime(c.P, c.Q)
  BY <1>1, <1>2, PrimesCoprime
<1>6. Gcd(c.P, c.Q) = 1
  BY <1>1, <1>5, CoprimeGcd
<1>7. /\ w \in Contexts
      /\ \A f \in {"N", "P", "Q", "D", "E", "Vi", "Vf", "blinding", "used", "len"} : w[f] = c[f]
      /\ w.DP = c.D % p1 /\ w.DQ = c.D % q1 /\ Congruent(c.P, c.Q * w.QP, 1)
  BY <1>5, WithCrtIs
<1>8. w.N = c.N /\ w.P = c.P /\ w.Q = c.Q /\ w.D = c.D /\ w.E = c.E /\ w.len = c.len
  BY <1>7
<1> HIDE DEF w
<1>9. w.DP \in Nat /\ w.DQ \in Nat /\ w.QP \in Nat
  BY <1>7 DEF Contexts
<1> HIDE DEF p1, q1
<1>10. c.D % p1 # 0 /\ c.D % q1 # 0
  BY <1>1, <1>2, <1>4, NotMultiple DEF de
<1>11. w.QP # 0
  <2>1. w.QP * c.Q = c.Q * w.QP
    BY <1>1, <1>9
  <2>2. Congruent(c.P, w.QP * c.Q, 1)
    BY <1>7, <2>1
  <2> QED
    BY <1>1, <1>9, <2>2, NotMultiple
<1>12. (de - 1) % p1 = 0 /\ (de - 1) % q1 = 0
  <2>1. p1 \in Nat \ {0} /\ q1 \in Nat \ {0} /\ 1 \in Int
    BY <1>4
  <2> HIDE DEF de
  <2> QED
    BY <1>2, <1>4, <2>1, DifferenceOfCongruent
<1>13. (w.DP - c.D) % p1 = 0 /\ (w.DQ - c.D) % q1 = 0
  <2>1. p1 \in Nat \ {0} /\ q1 \in Nat \ {0} /\ c.D \in Int /\ w.DP \in Int /\ w.DQ \in Int
    BY <1>1, <1>4, <1>9
  <2>2. Congruent(p1, w.DP, c.D) /\ Congruent(q1, w.DQ, c.D)
    BY <1>7, <2>1, CongruentToRemainder
  <2> QED
    BY <2>1, <2>2, DifferenceOfCongruent
<1>14. (w.QP * c.Q - 1) % c.P = 0
  <2> DEFINE x == w.QP * c.Q
  <2>1. x = c.Q * w.QP /\ x \in Int /\ 1 \in Int
    BY <1>1, <1>9
  <2>2. Congruent(c.P, x, 1)
    BY <1>7, <2>1
  <2> HIDE DEF x
  <2>3. (x - 1) % c.P = 0
    BY <1>1, <2>1, <2>2, DifferenceOfCongruent
  <2> QED
    BY <2>3 DEF x
<1>15. rsa_check_context(w, TRUE) /\ rsa_check_context(w, FALSE)
  <2>1. w.DP > 0 /\ w.DQ > 0 /\ w.QP > 0
    BY <1>7, <1>9, <1>10, <1>11 DEF p1, q1
  <2>2. w.N > 0
    BY <1>1, <1>2, <1>8
  <2> QED
    BY <1>1, <1>2, <1>3, <1>8, <2>1, <2>2 DEF rsa_check_context
<1>16. mbedtls_rsa_check_pubkey(w)
  BY <1>2, <1>8, <1>15 DEF mbedtls_rsa_check_pubkey
<1>17. validate_params(w)
  BY <1>1, <1>2, <1>8, <1>12 DEF validate_params, de, p1, q1
<1>18. validate_crt(w)
  BY <1>8, <1>13, <1>14 DEF validate_crt, p1, q1
<1>19. mbedtls_rsa_check_privkey(w)
  BY <1>15, <1>16, <1>17, <1>18 DEF mbedtls_rsa_check_privkey
<1> QED
  BY <1>6, <1>7, <1>15, <1>19 DEF w

\* A full key fits.
LEMMA FullKeyFits ==
  ASSUME NEW key \in FullKeys
  PROVE  /\ key \in Keys /\ KeyFits(key) /\ key.E < Lcm(key.P - 1, key.Q - 1)
         /\ mbedtls_rsa_check_privkey(Whole(key)) /\ Whole(key).N = key.N /\ Whole(key).E = key.E
<1> DEFINE b == [Freed EXCEPT !.N = key.N, !.P = key.P, !.Q = key.Q, !.D = key.D, !.E = key.E, !.len = Size(key.N)]
           w == WithCrt(b)
<1>1. /\ key \in Keys /\ key.P # key.Q /\ key.E < Lcm(key.P - 1, key.Q - 1) /\ mbedtls_rsa_check_privkey(w)
      /\ Whole(key) = w
  BY DEF FullKeys, Whole
<1>2. /\ key.P \in Nat /\ key.Q \in Nat /\ key.D \in Nat /\ key.E \in Nat /\ Prime(key.P) /\ Prime(key.Q)
      /\ key.N \in Nat /\ Size(key.N) \in Nat
  BY <1>1, KeyIs, SizeIs
<1>3. b \in Contexts /\ b.N = key.N /\ b.P = key.P /\ b.Q = key.Q /\ b.D = key.D /\ b.E = key.E /\ b.len = Size(key.N)
  BY <1>2 DEF Contexts, Freed
<1> HIDE DEF b
<1>4. Coprime(b.P, b.Q)
  BY <1>1, <1>2, <1>3, PrimesCoprime
<1>5. /\ w \in Contexts
      /\ \A f \in {"N", "P", "Q", "D", "E", "Vi", "Vf", "blinding", "used", "len"} : w[f] = b[f]
  BY <1>2, <1>3, <1>4, WithCrtIs
<1>6. w.N = key.N /\ w.P = key.P /\ w.Q = key.Q /\ w.D = key.D /\ w.E = key.E /\ w.len = Size(key.N)
  BY <1>3, <1>5
<1> HIDE DEF w
<1>7. Accepted(w)
  BY <1>1, <1>2, <1>6 DEF Accepted
<1>8. w.N = w.P * w.Q /\ Congruent(w.P - 1, w.D * w.E, 1) /\ Congruent(w.Q - 1, w.D * w.E, 1)
  BY <1>5, <1>7, AcceptedFacts
<1>9. /\ w.len <= MaxLen /\ w.N % 2 = 1 /\ BitLen(w.N) >= MinKeyBits /\ w.E % 2 = 1 /\ BitLen(w.E) >= 2 /\ w.E < w.N
      /\ w.D > 1 /\ w.D < w.N /\ w.E > 1
  BY <1>1 DEF mbedtls_rsa_check_privkey, mbedtls_rsa_check_pubkey, rsa_check_context, validate_params
<1>10. KeyFits(key)
  BY <1>1, <1>6, <1>8, <1>9 DEF KeyFits
<1> QED
  BY <1>1, <1>6, <1>10

\* A number with an inverse modulo m has no divisor in common with m.
LEMMA CoprimeFromCongruent ==
  ASSUME NEW m \in Nat, NEW a \in Nat, NEW b \in Nat, Congruent(m, a * b, 1)
  PROVE  Coprime(b, m)
<1>1. ASSUME NEW d \in Nat, Divides(d, b), Divides(d, m) PROVE d = 1
  <2>1. PICK k \in Int : a * b = 1 + m * k
    BY DEF Congruent
  <2>2. PICK x \in Int, y \in Int : b = d * x /\ m = d * y
    BY <1>1 DEF Divides
  <2>3. 1 = d * (a * x - y * k) /\ a * x - y * k \in Int
    BY <2>1, <2>2
  <2> DEFINE z == a * x - y * k
  <2>4. z \in Int /\ 1 = d * z
    BY <2>3
  <2> HIDE DEF z
  <2>5. Divides(d, 1) /\ d # 0
    BY <2>4 DEF Divides
  <2> QED
    BY <2>5, SmallNotDivided
<1> QED
  BY <1>1 DEF Coprime

\* A number that has no divisor in common with two others has none with their product.
LEMMA CoprimeProduct ==
  ASSUME NEW e \in Nat \ {0}, NEW a \in Nat, NEW b \in Nat, Coprime(e, a), Coprime(e, b)
  PROVE  Coprime(e, a * b)
<1>1. ASSUME NEW d \in Nat, Divides(d, e), Divides(d, a * b) PROVE d = 1
  <2>1. d # 0
    BY <1>1 DEF Divides
  <2>2. ASSUME NEW x \in Nat, Divides(x, d) PROVE Divides(x, e)
    <3>1. PICK k \in Int, l \in Int : d = x * k /\ e = d * l
      BY <1>1, <2>2 DEF Divides
    <3> DEFINE kl == k * l
    <3>2. kl \in Int /\ e = x * kl
      BY <3>1
    <3> HIDE DEF kl
    <3> QED
      BY <3>2 DEF Divides
  <2>3. Coprime(d, a)
    BY <2>2 DEF Coprime
  <2>4. Divides(d, b)
    <3>1. b \in Int
      OBVIOUS
    <3> QED
      BY <1>1, <2>1, <2>3, <3>1, DividesFactor
  <2> QED
    BY <1>1, <2>4 DEF Coprime
<1> QED
  BY <1>1 DEF Coprime

\* The exponent of a key has no divisor in common with the multiple of p - 1 and q - 1.
LEMMA FitCoprime ==
  ASSUME NEW e \in Nat \ {0}, NEW d \in Nat, NEW p \in Nat, NEW q \in Nat, Prime(p), Prime(q),
         Congruent(p - 1, d * e, 1), Congruent(q - 1, d * e, 1)
  PROVE  Gcd(e, Lcm(p - 1, q - 1)) = 1
<1> DEFINE p1 == p - 1
           q1 == q - 1
           m == Lcm(p1, q1)
           pp == p1 * q1
<1>1. p1 \in Nat \ {0} /\ q1 \in Nat \ {0} /\ Congruent(p1, d * e, 1) /\ Congruent(q1, d * e, 1)
  BY DEF Prime
<1> HIDE DEF p1, q1
<1>2. Coprime(e, p1) /\ Coprime(e, q1)
  BY <1>1, CoprimeFromCongruent
<1>3. Coprime(e, pp)
  BY <1>1, <1>2, CoprimeProduct
<1>4. m \in Nat /\ Divides(m, pp)
  BY <1>1, LcmIs
<1>5. pp \in Int
  BY <1>1
<1> HIDE DEF m, pp
<1>6. ASSUME NEW x \in Nat, Divides(x, e), Divides(x, m) PROVE x = 1
  <2>1. PICK k \in Int, l \in Int : m = x * k /\ pp = m * l
    BY <1>4, <1>6 DEF Divides
  <2> DEFINE kl == k * l
  <2>2. kl \in Int /\ pp = x * kl
    BY <2>1
  <2> HIDE DEF kl
  <2>3. Divides(x, pp)
    BY <2>2 DEF Divides
  <2> QED
    BY <1>3, <1>6, <2>3 DEF Coprime
<1>7. Coprime(e, m)
  BY <1>6 DEF Coprime
<1>8. Gcd(e, m) = 1
  BY <1>4, <1>7, CoprimeGcd
<1> QED
  BY <1>8 DEF m, p1, q1

\* The exponent computed from the factors and the public exponent fits them.
LEMMA ExponentFits ==
  ASSUME NEW c \in Contexts, NEW key \in FullKeys,
         c.N = key.N, c.P = key.P, c.Q = key.Q, c.E = key.E, c.D = 0, c.len = Size(c.N)
  PROVE  \E d \in Nat : /\ Deduced(c, FALSE, TRUE) = {[c EXCEPT !.D = d]}
                        /\ [c EXCEPT !.D = d] \in Contexts /\ KeyFits([c EXCEPT !.D = d])
<1> DEFINE p == key.P
           q == key.Q
           e == key.E
           m == Lcm(p - 1, q - 1)
           d == Inverse_mod(e, m)
           b == [c EXCEPT !.D = d]
<1>1. p \in Nat /\ q \in Nat /\ Prime(p) /\ Prime(q) /\ e \in Nat /\ key.D \in Nat /\ p > 1 /\ q > 1
  BY FullKeyFits, KeyIs DEF Prime
<1>2. KeyFits(key) /\ e < m
  BY FullKeyFits
<1>3. e > 1 /\ Congruent(p - 1, key.D * e, 1) /\ Congruent(q - 1, key.D * e, 1) /\ key.N = p * q
  BY <1>2 DEF KeyFits
<1>4. Gcd(e, m) = 1
  BY <1>1, <1>3, FitCoprime
<1>5. Deduced(c, FALSE, TRUE) = {b}
  BY <1>4 DEF Deduced
<1>6. /\ d \in Nat /\ d < m /\ m <= (p - 1) * (q - 1) /\ m \in Nat /\ Congruent(m, d * e, 1)
      /\ Congruent(p - 1, d * e, 1) /\ Congruent(q - 1, d * e, 1)
  <2>1. e \in Nat \ {0} /\ p \in Nat /\ q \in Nat /\ Prime(p) /\ Prime(q)
    BY <1>1, <1>3
  <2>2. Congruent(p - 1, d * e, 1) /\ Congruent(q - 1, d * e, 1) /\ Congruent(m, d * e, 1)
    <3> HIDE DEF p, q, e
    <3> QED
      BY <1>4, <2>1, ExponentIs
  <2>3. d \in Nat /\ d < m /\ m <= (p - 1) * (q - 1) /\ m \in Nat
    <3> HIDE DEF p, q, e
    <3> QED
      BY <1>4, <2>1, ExponentIs
  <2> QED
    BY <2>2, <2>3
<1> HIDE DEF m, d
<1>7. d < p * q
  <2>1. (p - 1) * (q - 1) = p * q - p - q + 1
    BY <1>1
  <2> DEFINE x == (p - 1) * (q - 1)
             y == p * q
  <2>2. x = y - p - q + 1 /\ y \in Nat /\ x \in Int
    BY <1>1, <2>1
  <2>3. d < x
    BY <1>6, <2>2
  <2> HIDE DEF x, y
  <2>4. d < y
    BY <1>1, <1>6, <2>2, <2>3
  <2> QED
    BY <2>4 DEF y
<1>8. d > 1
  <2>1. m > 1
    BY <1>1, <1>2, <1>3, <1>6
  <2>2. d # 0
    BY <1>1, <1>6, <2>1, NotMultiple
  <2>3. d # 1
    <3> SUFFICES ASSUME d = 1 PROVE FALSE
      OBVIOUS
    <3> DEFINE x == e - 1
    <3>1. x \in Int /\ x # 0 /\ -m < x /\ x < m /\ 1 \in Int /\ e \in Int
      BY <1>1, <1>2, <1>3, <1>6
    <3>2. Congruent(m, e, 1)
      <4>1. d * e = e
        BY <1>1
      <4> QED
        BY <1>6, <4>1
    <3>3. Divides(m, x)
      BY <1>6, <3>1, <3>2, CongruentIsDivided
    <3> HIDE DEF x
    <3> QED
      BY <1>6, <3>1, <3>3, SmallNotDivided
  <2> QED
    BY <1>6, <2>2, <2>3
<1>9. /\ b \in Contexts /\ b.N = key.N /\ b.P = p /\ b.Q = q /\ b.E = e /\ b.D = d
  BY <1>6 DEF Contexts
<1> HIDE DEF b
<1>10. KeyFits(b)
  BY <1>1, <1>2, <1>3, <1>6, <1>7, <1>8, <1>9 DEF KeyFits
<1> QED
  BY <1>5, <1>6, <1>9, <1>10 DEF b

\* A product of two different primes is no square.
LEMMA DifferentFactors ==
  ASSUME NEW p \in Nat, NEW q \in Nat, Prime(p), Prime(q), p # q,
         NEW a \in Nat, NEW b \in Nat, Prime(a), a * b = p * q
  PROVE  a # b
<1> SUFFICES ASSUME a = b PROVE FALSE
  OBVIOUS
<1>1. p > 1 /\ q > 1 /\ a > 1 /\ q \in Int
  BY DEF Prime
<1>2. Divides(a, p * q)
  BY DEF Divides
<1>3. Divides(a, p) \/ Divides(a, q)
  BY <1>1, <1>2, PrimeDividesFactor
<1>4. a = p \/ a = q
  BY <1>1, <1>3 DEF Prime
<1>5. ASSUME NEW x \in Nat, NEW y \in Nat, x > 1, x * x = x * y PROVE x = y
  <2> DEFINE d == x - y
  <2>1. d \in Int /\ x * d = 0 /\ y = x - d
    BY <1>5
  <2> HIDE DEF d
  <2>2. ASSUME d >= 1 PROVE FALSE
    <3>1. x * d >= x * 1
      BY <2>1, <2>2
    <3> QED
      BY <1>5, <2>1, <3>1
  <2>3. ASSUME d <= -1 PROVE FALSE
    <3>1. x * d <= x * (-1)
      BY <2>1, <2>3
    <3> QED
      BY <1>5, <2>1, <3>1
  <2> QED
    BY <2>1, <2>2, <2>3
<1>6. p * q = q * p
  OBVIOUS
<1> QED
  BY <1>1, <1>4, <1>5, <1>6

\* Factors found for the modulus fit it, and there are some.
LEMMA FactorsFit ==
  ASSUME NEW c \in Contexts, NEW key \in FullKeys,
         c.N = key.N, c.D = key.D, c.E = key.E, c.len = Size(c.N)
  PROVE  /\ Deduced(c, TRUE, FALSE) # {}
         /\ \A b \in Deduced(c, TRUE, FALSE) :
              /\ b \in Contexts /\ Prime(b.P) /\ Prime(b.Q) /\ KeyFits(b)
              /\ b.N = c.N /\ b.E = c.E /\ b.len = c.len
<1> DEFINE Pairs == UNION {{<<k.P, k.Q>>, <<k.Q, k.P>>} : k \in Keys}
           Good(pair) == /\ pair[1] * pair[2] = c.N
                         /\ (c.D * c.E - 1) % (pair[1] - 1) = 0 /\ (c.D * c.E - 1) % (pair[2] - 1) = 0
           New(pair)  == [c EXCEPT !.P = pair[1], !.Q = pair[2]]
<1>1. Deduced(c, TRUE, FALSE) = {New(pq) : pq \in {pair \in Pairs : Good(pair)}}
  BY Zenon DEF Deduced
<1>2. /\ key \in Keys /\ key.P \in Nat /\ key.Q \in Nat /\ Prime(key.P) /\ Prime(key.Q) /\ key.D \in Nat /\ key.E \in Nat
      /\ KeyFits(key)
  BY FullKeyFits, KeyIs
<1>3. /\ key.N = key.P * key.Q /\ key.P # key.Q
      /\ Congruent(key.P - 1, key.D * key.E, 1) /\ Congruent(key.Q - 1, key.D * key.E, 1)
  BY <1>2 DEF KeyFits
<1>4. Good(<<key.P, key.Q>>) /\ <<key.P, key.Q>> \in Pairs
  <2> DEFINE p1 == key.P - 1
             q1 == key.Q - 1
             de == key.D * key.E
  <2>1. p1 \in Nat \ {0} /\ q1 \in Nat \ {0} /\ de \in Int /\ 1 \in Int /\ Congruent(p1, de, 1) /\ Congruent(q1, de, 1)
    BY <1>2, <1>3 DEF Prime
  <2> HIDE DEF p1, q1, de
  <2>2. (de - 1) % p1 = 0 /\ (de - 1) % q1 = 0
    BY <2>1, DifferenceOfCongruent
  <2>3. Good(<<key.P, key.Q>>)
    BY <1>3, <2>2 DEF p1, q1, de
  <2>4. <<key.P, key.Q>> \in Pairs
    BY <1>2
  <2> QED
    BY <2>3, <2>4
<1>5. ASSUME NEW b \in Deduced(c, TRUE, FALSE)
      PROVE  /\ b \in Contexts /\ Prime(b.P) /\ Prime(b.Q) /\ KeyFits(b)
             /\ b.N = c.N /\ b.E = c.E /\ b.len = c.len
  <2>1. PICK pair \in Pairs : Good(pair) /\ b = New(pair)
    <3> HIDE DEF Pairs, Good, New
    <3> QED
      BY <1>1
  <2>2. PICK k \in Keys : pair = <<k.P, k.Q>> \/ pair = <<k.Q, k.P>>
    OBVIOUS
  <2> DEFINE p == pair[1]
             q == pair[2]
             p1 == p - 1
             q1 == q - 1
             de == c.D * c.E
  <2>3. p \in Nat /\ q \in Nat /\ Prime(p) /\ Prime(q)
    BY <2>2, KeyIs
  <2>4. p * q = c.N /\ (de - 1) % p1 = 0 /\ (de - 1) % q1 = 0
    BY <2>1
  <2>5. b = [c EXCEPT !.P = p, !.Q = q]
    BY <2>1
  <2> HIDE DEF p, q
  <2>6. /\ b \in Contexts /\ b.P = p /\ b.Q = q /\ b.N = c.N /\ b.D = c.D /\ b.E = c.E /\ b.len = c.len
    BY <2>3, <2>5 DEF Contexts
  <2>7. p # q
    BY <1>2, <1>3, <2>3, <2>4, DifferentFactors
  <2>8. p1 \in Nat \ {0} /\ q1 \in Nat \ {0} /\ de \in Int /\ 1 \in Int
    BY <1>2, <2>3 DEF Prime
  <2> HIDE DEF p1, q1, de
  <2>9. Congruent(p1, de, 1) /\ Congruent(q1, de, 1)
    BY <2>4, <2>8, RemainderOfDifference
  <2>10. KeyFits(b)
    BY <1>2, <2>4, <2>6, <2>7, <2>9 DEF KeyFits, p1, q1, de
  <2> QED
    BY <2>3, <2>6, <2>10
<1>6. Deduced(c, TRUE, FALSE) # {}
  <2>1. New(<<key.P, key.Q>>) \in {New(pq) : pq \in {pair \in Pairs : Good(pair)}}
    <3> HIDE DEF Pairs, Good, New
    <3> QED
      BY <1>4
  <2> HIDE DEF Pairs, Good, New
  <2> QED
    BY <1>1, <2>1
<1> QED
  BY <1>5, <1>6

\* What the case of a completion that finds a private key depends on.
Candidates(c, pq_missing, d_missing, key) ==
  /\ Deduced(c, pq_missing, d_missing) # {}
  /\ \A b \in Deduced(c, pq_missing, d_missing) :
       /\ b \in Contexts /\ Prime(b.P) /\ Prime(b.Q) /\ KeyFits(b)
       /\ b.len = Size(b.N) /\ b.N = key.N /\ b.E = key.E

\* The numbers a context has been given, one by one.
LEMMA GivenParts ==
  ASSUME NEW key \in FullKeys, NEW parts \in SUBSET Parts, Given(key, parts)
  PROVE  /\ ctx.N = IF "N" \in parts THEN key.N ELSE 0
         /\ ctx.P = IF "P" \in parts THEN key.P ELSE 0
         /\ ctx.Q = IF "Q" \in parts THEN key.Q ELSE 0
         /\ ctx.D = IF "D" \in parts THEN key.D ELSE 0
         /\ ctx.E = IF "E" \in parts THEN key.E ELSE 0
BY DEF Given, Parts

\* The numbers of a full key.
LEMMA FullKeyIs ==
  ASSUME NEW key \in FullKeys
  PROVE  /\ KeyFits(key) /\ key.N = key.P * key.Q /\ Prime(key.P) /\ Prime(key.Q)
         /\ key.N \in Nat \ {0} /\ key.P \in Nat \ {0} /\ key.Q \in Nat \ {0} /\ key.D \in Nat \ {0} /\ key.E \in Nat \ {0}
<1>1. key \in Keys /\ KeyFits(key)
  BY FullKeyFits
<1>2. /\ key.P \in Nat /\ key.Q \in Nat /\ key.D \in Nat /\ key.E \in Nat /\ key.N \in Nat
      /\ Prime(key.P) /\ Prime(key.Q)
  BY <1>1, KeyIs
<1>3. key.N = key.P * key.Q /\ key.D > 1 /\ key.E > 1 /\ key.E < key.N
  BY <1>1 DEF KeyFits
<1>4. key.N # 0 /\ key.P # 0 /\ key.Q # 0 /\ key.D # 0 /\ key.E # 0
  BY <1>2, <1>3 DEF Prime
<1> QED
  BY <1>1, <1>2, <1>3, <1>4

\* The context a completion starts from, given the factors.
LEMMA StartWithFactors ==
  ASSUME IInv, NEW key \in FullKeys, ctx.N \in {0, key.N}, ctx.P = key.P, ctx.Q = key.Q
  PROVE  /\ SetN(ctx) \in Contexts /\ SetN(ctx).N = key.N /\ SetN(ctx).len = Size(SetN(ctx).N)
         /\ SetN(ctx).P = key.P /\ SetN(ctx).Q = key.Q /\ SetN(ctx).D = ctx.D /\ SetN(ctx).E = ctx.E
<1>1. /\ ctx \in Contexts /\ (ctx.P # 0 => Prime(ctx.P)) /\ (ctx.Q # 0 => Prime(ctx.Q))
      /\ (ctx.N # 0 => ctx.N > 1 /\ ctx.len = Size(ctx.N))
  BY DEF IInv, Usable
<1>2. /\ SetN(ctx) \in Contexts /\ SetN(ctx).P = ctx.P /\ SetN(ctx).Q = ctx.Q /\ SetN(ctx).D = ctx.D /\ SetN(ctx).E = ctx.E
      /\ SetN(ctx).N # 0 => SetN(ctx).len = Size(SetN(ctx).N)
      /\ SetN(ctx).N = IF ctx.N = 0 /\ ctx.P # 0 /\ ctx.Q # 0 THEN ctx.P * ctx.Q ELSE ctx.N
  BY <1>1, SetNIs
<1>3. key.N = key.P * key.Q /\ key.N # 0 /\ key.P # 0 /\ key.Q # 0
  BY FullKeyIs
<1>4. SetN(ctx).N = key.N
  BY <1>2, <1>3
<1> QED
  BY <1>2, <1>3, <1>4

\* From each set of parts that suffices, completion comes to contexts that fit the key.
LEMMA SufficientCandidates ==
  ASSUME IInv, NEW key \in FullKeys, NEW parts \in Sufficient, Given(key, parts)
  PROVE  \E pq_missing \in BOOLEAN, d_missing \in BOOLEAN :
           /\ pq_missing <=> Have("N") /\ ~Have("P") /\ ~Have("Q") /\ Have("D") /\ Have("E")
           /\ d_missing  <=> Have("P") /\ Have("Q") /\ ~Have("D") /\ Have("E")
           /\ pq_missing \/ d_missing \/ (Have("P") /\ Have("Q") /\ Have("D") /\ Have("E"))
           /\ Candidates(SetN(ctx), pq_missing, d_missing, key)
<1>1. /\ KeyFits(key) /\ key.N = key.P * key.Q /\ Prime(key.P) /\ Prime(key.Q)
      /\ key.N # 0 /\ key.P # 0 /\ key.Q # 0 /\ key.D # 0 /\ key.E # 0
  BY FullKeyIs
<1>2. parts \in SUBSET Parts
  BY DEF Sufficient, Parts
<1>3. /\ ctx.N = IF "N" \in parts THEN key.N ELSE 0
      /\ ctx.P = IF "P" \in parts THEN key.P ELSE 0
      /\ ctx.Q = IF "Q" \in parts THEN key.Q ELSE 0
      /\ ctx.D = IF "D" \in parts THEN key.D ELSE 0
      /\ ctx.E = IF "E" \in parts THEN key.E ELSE 0
  BY <1>2, GivenParts
<1>4. CASE parts = {"N", "D", "E"}
  <2>1. ctx.N = key.N /\ ctx.P = 0 /\ ctx.Q = 0 /\ ctx.D = key.D /\ ctx.E = key.E
    BY <1>3, <1>4
  <2>2. ctx \in Contexts /\ ctx.len = Size(ctx.N)
    BY <1>1, <2>1 DEF IInv, Usable
  <2>3. SetN(ctx) = ctx
    BY <2>1 DEF SetN
  <2>4. /\ Deduced(ctx, TRUE, FALSE) # {}
        /\ \A b \in Deduced(ctx, TRUE, FALSE) :
             /\ b \in Contexts /\ Prime(b.P) /\ Prime(b.Q) /\ KeyFits(b)
             /\ b.N = ctx.N /\ b.E = ctx.E /\ b.len = ctx.len
    BY <2>1, <2>2, FactorsFit
  <2>5. Candidates(SetN(ctx), TRUE, FALSE, key)
    BY <2>1, <2>2, <2>3, <2>4 DEF Candidates
  <2>6. Have("N") /\ ~Have("P") /\ ~Have("Q") /\ Have("D") /\ Have("E")
    BY <1>1, <2>1 DEF Have
  <2> WITNESS TRUE \in BOOLEAN, FALSE \in BOOLEAN
  <2> QED
    BY <2>5, <2>6
<1>5. CASE parts \in {{"P", "Q", "D", "E"}, {"N", "P", "Q", "D", "E"}}
  <2>1. ctx.N \in {0, key.N} /\ ctx.P = key.P /\ ctx.Q = key.Q /\ ctx.D = key.D /\ ctx.E = key.E
    BY <1>3, <1>5
  <2> DEFINE s == SetN(ctx)
  <2>2. /\ s \in Contexts /\ s.N = key.N /\ s.len = Size(s.N)
        /\ s.P = key.P /\ s.Q = key.Q /\ s.D = key.D /\ s.E = key.E
    BY <2>1, StartWithFactors
  <2> HIDE DEF s
  <2>3. KeyFits(s)
    BY <1>1, <2>2 DEF KeyFits
  <2>4. Deduced(s, FALSE, FALSE) = {s}
    BY DEF Deduced
  <2>5. Candidates(s, FALSE, FALSE, key)
    BY <1>1, <2>2, <2>3, <2>4 DEF Candidates
  <2>6. Have("P") /\ Have("Q") /\ Have("D") /\ Have("E")
    BY <1>1, <2>1 DEF Have
  <2> QED
    BY <2>5, <2>6 DEF s
<1>6. CASE parts \in {{"P", "Q", "E"}, {"N", "P", "Q", "E"}}
  <2>1. ctx.N \in {0, key.N} /\ ctx.P = key.P /\ ctx.Q = key.Q /\ ctx.D = 0 /\ ctx.E = key.E
    BY <1>3, <1>6
  <2> DEFINE s == SetN(ctx)
  <2>2. /\ s \in Contexts /\ s.N = key.N /\ s.len = Size(s.N)
        /\ s.P = key.P /\ s.Q = key.Q /\ s.D = 0 /\ s.E = key.E
    BY <2>1, StartWithFactors
  <2> HIDE DEF s
  <2>3. PICK d \in Nat : /\ Deduced(s, FALSE, TRUE) = {[s EXCEPT !.D = d]}
                         /\ [s EXCEPT !.D = d] \in Contexts /\ KeyFits([s EXCEPT !.D = d])
    BY <2>2, ExponentFits
  <2> DEFINE b == [s EXCEPT !.D = d]
  <2>4. b.N = s.N /\ b.P = s.P /\ b.Q = s.Q /\ b.E = s.E /\ b.len = s.len
    BY <2>2 DEF Contexts
  <2> HIDE DEF b
  <2>5. Deduced(s, FALSE, TRUE) = {b} /\ b \in Contexts /\ KeyFits(b)
    BY <2>3 DEF b
  <2>6. Candidates(s, FALSE, TRUE, key)
    BY <1>1, <2>2, <2>4, <2>5 DEF Candidates
  <2>7. Have("P") /\ Have("Q") /\ ~Have("D") /\ Have("E")
    BY <1>1, <2>1 DEF Have
  <2> WITNESS FALSE \in BOOLEAN, TRUE \in BOOLEAN
  <2> QED
    BY <2>6, <2>7 DEF s
<1> QED
  BY <1>4, <1>5, <1>6 DEF Sufficient

\* Completion of a private key.
LEMMA CompletedPrivate ==
  ASSUME IInv, mbedtls_rsa_complete, NEW key \in FullKeys, NEW parts \in Sufficient, Given(key, parts)
  PROVE  last'.ret = "ok" /\ mbedtls_rsa_check_privkey(ctx') /\ ctx'.N = key.N /\ ctx'.E = key.E
<1>1. PICK pq_missing \in BOOLEAN, d_missing \in BOOLEAN :
           /\ pq_missing <=> Have("N") /\ ~Have("P") /\ ~Have("Q") /\ Have("D") /\ Have("E")
           /\ d_missing  <=> Have("P") /\ Have("Q") /\ ~Have("D") /\ Have("E")
           /\ pq_missing \/ d_missing \/ (Have("P") /\ Have("Q") /\ Have("D") /\ Have("E"))
           /\ Candidates(SetN(ctx), pq_missing, d_missing, key)
  BY SufficientCandidates
<1> DEFINE deduced == Deduced(SetN(ctx), pq_missing, d_missing)
<1>2. deduced # {} /\ \A c \in deduced : c \in Contexts /\ Prime(c.P) /\ Prime(c.Q) /\ KeyFits(c)
                                         /\ c.len = Size(c.N) /\ c.N = key.N /\ c.E = key.E
  BY <1>1 DEF Candidates
<1>3. \E c \in deduced :
         LET bad == Gcd(c.P, c.Q) # 1
         IN  /\ ctx' = IF ~bad THEN WithCrt(c) ELSE c
             /\ last' = Outcome("complete", IF ~bad /\ rsa_check_context(ctx', TRUE) THEN "ok" ELSE "BAD_INPUT_DATA", 0, 0)
  <2> DEFINE n == Have("P") /\ Have("Q") /\ Have("D") /\ Have("E")
             pq == Have("N") /\ ~Have("P") /\ ~Have("Q") /\ Have("D") /\ Have("E")
             d  == Have("P") /\ Have("Q") /\ ~Have("D") /\ Have("E")
             priv == n \/ pq \/ d
  <2>1. pq = pq_missing /\ d = d_missing /\ priv = TRUE
    BY <1>1
  <2>2. Deduced(SetN(ctx), pq, d) = deduced
    BY <2>1
  <2>3. \E c \in Deduced(SetN(ctx), pq, d) :
         LET bad == priv /\ Gcd(c.P, c.Q) # 1
         IN  /\ ctx' = IF priv /\ ~bad THEN WithCrt(c) ELSE c
             /\ last' = Outcome("complete", IF ~bad /\ rsa_check_context(ctx', priv) THEN "ok" ELSE "BAD_INPUT_DATA", 0, 0)
    <3>1. priv /\ Deduced(SetN(ctx), pq, d) # {}
      BY <1>2, <2>1, <2>2
    <3> QED
      BY <3>1 DEF mbedtls_rsa_complete
  <2> HIDE DEF n, pq, d, priv, deduced
  <2> QED
    BY <2>1, <2>2, <2>3
<1> HIDE DEF deduced
<1>4. PICK c \in deduced :
         /\ ctx' = (IF Gcd(c.P, c.Q) = 1 THEN WithCrt(c) ELSE c)
         /\ last' = Outcome("complete", IF Gcd(c.P, c.Q) = 1 /\ rsa_check_context(ctx', TRUE) THEN "ok" ELSE "BAD_INPUT_DATA", 0, 0)
  BY <1>3
<1>5. /\ c \in Contexts /\ Prime(c.P) /\ Prime(c.Q) /\ KeyFits(c)
      /\ c.len = Size(c.N) /\ c.N = key.N /\ c.E = key.E
  BY <1>2
<1>6. /\ Gcd(c.P, c.Q) = 1 /\ mbedtls_rsa_check_privkey(WithCrt(c)) /\ rsa_check_context(WithCrt(c), TRUE)
  BY <1>5, FitPasses
<1>7. ctx' = WithCrt(c) /\ last' = Outcome("complete", "ok", 0, 0)
  BY <1>4, <1>6
<1>8. WithCrt(c).N = c.N /\ WithCrt(c).E = c.E
  BY <1>5 DEF WithCrt, Contexts
<1> QED
  BY <1>5, <1>6, <1>7, <1>8 DEF Outcome

\* Completion of a public key.
LEMMA CompletedPublic ==
  ASSUME IInv, mbedtls_rsa_complete, NEW key \in FullKeys, Given(key, {"N", "E"})
  PROVE  last'.ret = "ok" /\ mbedtls_rsa_check_pub_priv(ctx', Whole(key))
<1>1. KeyFits(key) /\ key.N # 0 /\ key.E # 0 /\ key.N \in Nat /\ key.E \in Nat
  BY FullKeyIs
<1>2. ctx.N = key.N /\ ctx.E = key.E /\ ctx.P = 0 /\ ctx.Q = 0 /\ ctx.D = 0
  <2>1. {"N", "E"} \in SUBSET Parts
    BY DEF Parts
  <2> QED
    BY <2>1, GivenParts
<1>3. Have("N") /\ Have("E") /\ ~Have("P") /\ ~Have("Q") /\ ~Have("D")
  BY <1>1, <1>2 DEF Have
<1>4. SetN(ctx) = ctx /\ Deduced(ctx, FALSE, FALSE) = {ctx}
  BY <1>2 DEF SetN, Deduced
<1>5. \E c \in Deduced(SetN(ctx), FALSE, FALSE) :
         /\ ctx' = c
         /\ last' = Outcome("complete", IF rsa_check_context(ctx', FALSE) THEN "ok" ELSE "BAD_INPUT_DATA", 0, 0)
  <2> DEFINE n == Have("P") /\ Have("Q") /\ Have("D") /\ Have("E")
             pq == Have("N") /\ ~Have("P") /\ ~Have("Q") /\ Have("D") /\ Have("E")
             d  == Have("P") /\ Have("Q") /\ ~Have("D") /\ Have("E")
             priv == n \/ pq \/ d
             pub == Have("N") /\ ~Have("P") /\ ~Have("Q") /\ ~Have("D") /\ Have("E")
  <2>1. pq = FALSE /\ d = FALSE /\ priv = FALSE /\ pub
    BY <1>3
  <2>2. Deduced(SetN(ctx), pq, d) # {}
    BY <1>4, <2>1
  <2>3. \E c \in Deduced(SetN(ctx), pq, d) :
         LET bad == priv /\ Gcd(c.P, c.Q) # 1
         IN  /\ ctx' = IF priv /\ ~bad THEN WithCrt(c) ELSE c
             /\ last' = Outcome("complete", IF ~bad /\ rsa_check_context(ctx', priv) THEN "ok" ELSE "BAD_INPUT_DATA", 0, 0)
    <3>1. pub /\ Deduced(SetN(ctx), pq, d) # {}
      BY <2>1, <2>2
    <3> QED
      BY <3>1 DEF mbedtls_rsa_complete
  <2> HIDE DEF n, pq, d, priv, pub
  <2> QED
    BY <2>1, <2>3
<1>6. /\ ctx' = ctx
      /\ last' = Outcome("complete", IF rsa_check_context(ctx, FALSE) THEN "ok" ELSE "BAD_INPUT_DATA", 0, 0)
  BY <1>4, <1>5
<1>7. mbedtls_rsa_check_pubkey(ctx) /\ rsa_check_context(ctx, FALSE)
  <2>1. ctx.len = Size(ctx.N)
    BY <1>1, <1>2 DEF IInv, Usable
  <2>2. /\ key.N % 2 = 1 /\ BitLen(key.N) >= MinKeyBits /\ Size(key.N) <= MaxLen
        /\ key.E % 2 = 1 /\ BitLen(key.E) >= 2 /\ key.E > 1 /\ key.E < key.N
    BY <1>1 DEF KeyFits
  <2>3. rsa_check_context(ctx, FALSE)
    BY <1>1, <1>2, <2>1, <2>2 DEF rsa_check_context
  <2> QED
    BY <1>2, <2>2, <2>3 DEF mbedtls_rsa_check_pubkey
<1>8. mbedtls_rsa_check_privkey(Whole(key)) /\ Whole(key).N = key.N /\ Whole(key).E = key.E
  BY FullKeyFits
<1>9. mbedtls_rsa_check_pub_priv(ctx, Whole(key))
  BY <1>2, <1>7, <1>8 DEF mbedtls_rsa_check_pub_priv
<1>10. last'.ret = "ok"
  BY <1>6, <1>7 DEF Outcome
<1> QED
  BY <1>6, <1>9, <1>10

\* Only completion answers for completion.
LEMMA OnlyCompletes ==
  ASSUME [Next]_vars, last'.op = "complete", last.op # "complete"
  PROVE  mbedtls_rsa_complete
<1> SUFFICES ASSUME ~mbedtls_rsa_complete PROVE last'.op # "complete" \/ last' = last
  OBVIOUS
<1>1. CASE UNCHANGED vars
  BY <1>1 DEF vars
<1>2. CASE mbedtls_rsa_import \/ mbedtls_rsa_gen_key \/ Check \/ mbedtls_rsa_export \/ mbedtls_rsa_set_padding \/ mbedtls_rsa_free
  <2>1. \E op \in {"import", "gen_key", "check_privkey", "export", "set_padding", "free"} : \E ret, in : last' = Outcome(op, ret, in, 0)
    BY <1>2, Zenon DEF mbedtls_rsa_import, mbedtls_rsa_gen_key, Check, mbedtls_rsa_export, mbedtls_rsa_set_padding, mbedtls_rsa_free
  <2>2. ASSUME NEW op \in {"import", "gen_key", "check_privkey", "export", "set_padding", "free"}, NEW ret, NEW in,
               last' = Outcome(op, ret, in, 0)
        PROVE  last'.op # "complete"
    BY <2>2 DEF Outcome
  <2> QED
    BY <2>1, <2>2
<1>3. CASE mbedtls_rsa_copy
  BY <1>3 DEF Outcome, mbedtls_rsa_copy, Copied
<1>4. CASE Public
  <2>1. PICK ran, ret, in, out, text : Leave(ran, FALSE, "public", ret, in, out, text)
    BY <1>4 DEF Public
  <2> QED
    BY <2>1, LeaveIs
<1>5. CASE Private
  <2>1. PICK ran, rng, ret, in, out, text : Leave(ran, rng, "private", ret, in, out, text)
    BY <1>5 DEF Private
  <2> QED
    BY <2>1, LeaveIs
<1>6. CASE mbedtls_rsa_pkcs1_encrypt
  <2>1. \/ last' = Outcome("v15", "chip", 0, 0)
        \/ \E ran, ret, in, out, text : Leave(ran, FALSE, "encrypt", ret, in, out, text)
    BY <1>6 DEF mbedtls_rsa_pkcs1_encrypt
  <2>2. CASE last' = Outcome("v15", "chip", 0, 0)
    BY <2>2 DEF Outcome
  <2>3. CASE \E ran, ret, in, out, text : Leave(ran, FALSE, "encrypt", ret, in, out, text)
    BY <2>3, LeaveIs
  <2> QED
    BY <2>1, <2>2, <2>3
<1>7. CASE mbedtls_rsa_pkcs1_decrypt
  <2>1. \E ran, rng, ret, in, out, text : Leave(ran, rng, "decrypt", ret, in, out, text)
    BY <1>7 DEF mbedtls_rsa_pkcs1_decrypt
  <2> QED
    BY <2>1, LeaveIs
<1>8. CASE mbedtls_rsa_pkcs1_sign
  <2>1. \/ last' = Outcome("v15", "chip", 0, 0)
        \/ \E ran, rng, ret, in, out, text : Leave(ran, rng, "sign", ret, in, out, text)
    BY <1>8 DEF mbedtls_rsa_pkcs1_sign
  <2> QED
    BY <2>1, LeaveIs DEF Outcome
<1>9. CASE mbedtls_rsa_pkcs1_verify
  <2>1. \E ran, ret, in, out, text : Leave(ran, FALSE, "verify", ret, in, out, text)
    BY <1>9 DEF mbedtls_rsa_pkcs1_verify
  <2> QED
    BY <2>1, LeaveIs
<1> QED
  BY <1>1, <1>2, <1>3, <1>4, <1>5, <1>6, <1>7, <1>8, <1>9 DEF Next

\* Completion makes of the parts of a key that suffice the key itself, for every key that passes
\* the checks.
THEOREM CompletionRight == Spec => CompleteRight
<1>1. IInv /\ [Next]_vars =>
        [last'.op = "complete" /\ last.op # "complete" =>
           \A key \in FullKeys :
             /\ (\E parts \in Sufficient : Given(key, parts)) =>
                  last'.ret = "ok" /\ mbedtls_rsa_check_privkey(ctx') /\ ctx'.N = key.N /\ ctx'.E = key.E
             /\ Given(key, {"N", "E"}) => last'.ret = "ok" /\ mbedtls_rsa_check_pub_priv(ctx', Whole(key))]_vars
  <2> SUFFICES ASSUME IInv, [Next]_vars, last'.op = "complete", last.op # "complete", NEW key \in FullKeys
               PROVE  /\ (\E parts \in Sufficient : Given(key, parts)) =>
                           last'.ret = "ok" /\ mbedtls_rsa_check_privkey(ctx') /\ ctx'.N = key.N /\ ctx'.E = key.E
                      /\ Given(key, {"N", "E"}) => last'.ret = "ok" /\ mbedtls_rsa_check_pub_priv(ctx', Whole(key))
    OBVIOUS
  <2>1. mbedtls_rsa_complete
    BY OnlyCompletes
  <2> QED
    BY <2>1, CompletedPrivate, CompletedPublic
<1> QED
  BY <1>1, ContextsUsable, PTL DEF Spec, CompleteRight

-----------------------------------------------------------------------------
(* Bytes *)

\* A quotient and its remainder, from the division as a whole.
LEMMA Quotient ==
  ASSUME NEW m \in Nat \ {0}, NEW q \in Int, NEW r \in Nat, r < m
  PROVE  (m * q + r) \div m = q
OBVIOUS

\* Dividing twice is dividing by the product.
LEMMA DividedTwice ==
  ASSUME NEW x \in Nat, NEW b \in Nat \ {0}, NEW c \in Nat \ {0}
  PROVE  (x \div b) \div c = x \div (b * c)
<1> DEFINE q == x \div b
           r == x % b
           p == q \div c
           s == q % c
           bc == b * c
           bs == b * s
           t == bs + r
<1>1. x = b * q + r /\ q \in Nat /\ r \in Nat /\ r < b
  BY Division
<1> HIDE DEF q, r
<1>2. q = c * p + s /\ p \in Int /\ s \in Nat /\ s < c
  BY <1>1, Division
<1> HIDE DEF p, s
<1>3. x = bc * p + t
  <2>1. b * (c * p + s) = bc * p + b * s
    BY <1>2
  <2> QED
    BY <1>1, <1>2, <2>1
<1>4. bc \in Nat \ {0} /\ t \in Nat
  BY <1>1, <1>2
<1>5. t < bc
  <2>1. s + 1 <= c
    BY <1>2
  <2>2. b * (s + 1) <= b * c
    BY <1>2, <2>1
  <2>3. b * (s + 1) = b * s + b
    BY <1>2
  <2> QED
    BY <1>1, <1>2, <2>2, <2>3
<1> HIDE DEF bc, t
<1>6. (bc * p + t) \div bc = p
  BY <1>2, <1>4, <1>5, Quotient
<1> QED
  BY <1>3, <1>6 DEF p, q, bc

Doubling(f) == f = [i \in Nat |-> IF i = 0 THEN 1 ELSE 2 * f[i - 1]]

\* Pow2() gives the powers of two.
LEMMA Pow2Is ==
  ASSUME NEW n \in Nat
  PROVE  Pow2(n) = Power(2, n)
<1> DEFINE two == 2
           w == [i \in Nat |-> Power(two, i)]
           power == CHOOSE f : Doubling(f)
<1>1. two \in Int /\ two = 2
  OBVIOUS
<1> HIDE DEF two
<1>2. Power(two, 0) = 1 /\ \A i \in Nat : Power(two, i) \in Int /\ Power(two, i + 1) = two * Power(two, i)
  BY <1>1, PowerRule
<1>3. Doubling(w)
  <2>1. ASSUME NEW i \in Nat PROVE w[i] = IF i = 0 THEN 1 ELSE 2 * w[i - 1]
    <3>1. CASE i = 0
      BY <1>2, <3>1
    <3>2. CASE i # 0
      <4>1. i - 1 \in Nat /\ (i - 1) + 1 = i
        BY <3>2
      <4>2. Power(two, (i - 1) + 1) = two * Power(two, i - 1)
        BY <1>2, <4>1
      <4> QED
        BY <1>1, <3>2, <4>1, <4>2
    <3> QED
      BY <3>1, <3>2
  <2>2. w = [i \in Nat |-> w[i]]
    OBVIOUS
  <2> HIDE DEF w
  <2>3. w = [i \in Nat |-> IF i = 0 THEN 1 ELSE 2 * w[i - 1]]
    BY <2>1, <2>2
  <2> QED
    BY <2>3 DEF Doubling
<1>4. \A i \in Nat : w[i] = Power(two, i)
  OBVIOUS
<1> HIDE DEF w
<1>5. Doubling(power)
  BY <1>3
<1>6. Pow2(n) = power[n]
  BY DEF Pow2, Doubling
<1> HIDE DEF power
<1> DEFINE S == {i \in Nat : power[i] = Power(two, i)}
<1>7. 0 \in S
  BY <1>2, <1>5 DEF Doubling
<1>8. ASSUME NEW i \in Nat, i \in S PROVE i + 1 \in S
  <2>1. power[i + 1] = 2 * power[i]
    BY <1>5 DEF Doubling
  <2> QED
    BY <1>1, <1>2, <1>8, <2>1
<1> HIDE DEF S
<1>9. \A i \in Nat : i \in S
  BY <1>7, <1>8, Induction
<1> QED
  BY <1>1, <1>6, <1>9 DEF S

Counting(bytes, f) ==
  f = [n \in 0..Len(bytes) |-> IF n = 0 THEN 0 ELSE f[n - 1] * Pow2(BitsPerByte) + bytes[n]]

\* The number of the first n bytes, for each n.
Counts(bytes, f) ==
  /\ f[0] = 0 /\ \A n \in 0..Len(bytes) : f[n] \in Nat
  /\ \A n \in 0..(Len(bytes) - 1) : f[n + 1] = f[n] * Pow2(BitsPerByte) + bytes[n + 1]

\* The number of values of a byte.
LEMMA BaseIs ==
  /\ Pow2(BitsPerByte) \in Nat \ {0} /\ Pow2(BitsPerByte) > 1
  /\ \A n \in Nat : Pow2(BitsPerByte * n) = Power(Pow2(BitsPerByte), n)
<1>1. BitsPerByte \in Nat \ {0} /\ BitsPerByte \in Nat
  BY ScaleAssumption
<1> DEFINE two == 2
           p == Power(two, BitsPerByte)
<1>2. two \in Int /\ two = 2
  OBVIOUS
<1> HIDE DEF two
<1>3. Pow2(BitsPerByte) = p
  BY <1>1, <1>2, Pow2Is
<1>4. ASSUME NEW n \in Nat PROVE Pow2(BitsPerByte * n) = Power(p, n)
  <2> DEFINE k == BitsPerByte * n
  <2>1. k \in Nat
    BY <1>1
  <2> HIDE DEF k
  <2>2. Pow2(k) = Power(two, k)
    BY <1>2, <2>1, Pow2Is
  <2> QED
    BY <1>1, <1>2, <2>2, PowerOfPower DEF k
<1>5. p \in Nat /\ p > 1
  <2>1. \A n \in Nat : Power(two, n) \in Nat /\ Power(two, n) > n
    BY <1>2, PowersOfTwo
  <2> QED
    BY <1>1, <2>1
<1> QED
  BY <1>3, <1>4, <1>5

\* Powers of a positive number are positive.
LEMMA PowerPositive ==
  ASSUME NEW b \in Nat \ {0}
  PROVE  \A n \in Nat : Power(b, n) \in Nat \ {0}
<1> DEFINE S == {n \in Nat : Power(b, n) \in Nat \ {0}}
<1>1. b \in Int
  OBVIOUS
<1>2. Power(b, 0) = 1 /\ \A n \in Nat : Power(b, n + 1) = b * Power(b, n)
  BY <1>1, PowerRule
<1>3. 0 \in S
  BY <1>2
<1>4. ASSUME NEW n \in Nat, n \in S PROVE n + 1 \in S
  <2> DEFINE x == Power(b, n)
  <2>1. x \in Nat \ {0} /\ Power(b, n + 1) = b * x
    BY <1>2, <1>4
  <2> HIDE DEF x
  <2>2. b * x \in Nat \ {0}
    BY <2>1
  <2> QED
    BY <2>1, <2>2
<1> HIDE DEF S
<1>5. \A n \in Nat : n \in S
  BY <1>3, <1>4, Induction
<1> QED
  BY <1>5 DEF S

\* Number() is the last value of its recursion.
LEMMA NumberIs ==
  ASSUME NEW bytes \in Seq(Nat)
  PROVE  \E f : Counts(bytes, f) /\ Number(bytes) = f[Len(bytes)]
<1> DEFINE B == Pow2(BitsPerByte)
           L == Len(bytes)
           number == CHOOSE f : Counting(bytes, f)
<1>1. B \in Nat /\ L \in Nat /\ \A n \in 1..L : bytes[n] \in Nat
  BY BaseIs
<1> HIDE DEF B, L
<1>2. \E f : Counting(bytes, f)
  <2> DEFINE step == [x \in Nat \X Nat |-> IF x[1] + 1 <= L THEN x[2] * B + bytes[x[1] + 1] ELSE 0]
             V == Nat
             zero == 0
  <2>1. \A n \in Nat, v \in Nat : step[<<n, v>>] = IF n + 1 <= L THEN v * B + bytes[n + 1] ELSE 0
    OBVIOUS
  <2>2. ASSUME NEW n \in Nat, NEW v \in Nat PROVE step[<<n, v>>] \in Nat
    <3> HIDE DEF step
    <3>1. CASE n + 1 <= L
      <4>1. n + 1 \in 1..L
        BY <1>1, <3>1
      <4>2. bytes[n + 1] \in Nat /\ v * B \in Nat
        BY <1>1, <4>1
      <4> QED
        BY <2>1, <3>1, <4>2
    <3>2. CASE ~(n + 1 <= L)
      BY <2>1, <3>2
    <3> QED
      BY <3>1, <3>2
  <2>3. step \in [Nat \X V -> V]
    <3>1. step = [x \in Nat \X Nat |-> step[x]]
      OBVIOUS
    <3>2. \A x \in Nat \X Nat : step[x] \in Nat
      <4> HIDE DEF step
      <4> QED
        BY <2>2
    <3> HIDE DEF step
    <3> QED
      BY <3>1, <3>2
  <2> HIDE DEF step
  <2>4. zero \in V
    OBVIOUS
  <2> HIDE DEF V, zero
  <2>5. PICK h \in [Nat -> V] : Recurs(h, zero, step)
    BY <2>3, <2>4, Recursion
  <2>6. h[0] = 0 /\ \A n \in Nat : h[n] \in Nat /\ h[n + 1] = step[<<n, h[n]>>]
    BY <2>5 DEF Recurs, V, zero
  <2> DEFINE f == [n \in 0..L |-> h[n]]
  <2>7. ASSUME NEW n \in 0..L PROVE f[n] = IF n = 0 THEN 0 ELSE f[n - 1] * B + bytes[n]
    <3>1. CASE n = 0
      BY <2>6, <3>1
    <3>2. CASE n # 0
      <4>1. n - 1 \in Nat /\ n - 1 \in 0..L /\ (n - 1) + 1 = n /\ n <= L
        BY <1>1, <3>2
      <4>2. h[n] = step[<<n - 1, h[n - 1]>>] /\ h[n - 1] \in Nat
        BY <2>6, <4>1
      <4>3. step[<<n - 1, h[n - 1]>>] = h[n - 1] * B + bytes[n]
        BY <2>1, <4>1, <4>2
      <4> QED
        BY <3>2, <4>1, <4>2, <4>3
    <3> QED
      BY <3>1, <3>2
  <2>8. f = [n \in 0..L |-> f[n]]
    OBVIOUS
  <2> HIDE DEF f
  <2>9. f = [n \in 0..L |-> IF n = 0 THEN 0 ELSE f[n - 1] * B + bytes[n]]
    BY <2>7, <2>8
  <2>10. Counting(bytes, f)
    BY <2>9, Zenon DEF Counting, B, L
  <2> QED
    BY <2>10, Zenon
<1>3. Counting(bytes, number)
  BY <1>2
<1>4. Number(bytes) = number[L]
  BY DEF Number, Counting, L
<1> HIDE DEF number
<1>5. number[0] = 0 /\ \A n \in 0..L : n # 0 => number[n] = number[n - 1] * B + bytes[n]
  <2>1. number = [n \in 0..L |-> IF n = 0 THEN 0 ELSE number[n - 1] * B + bytes[n]]
    BY <1>3, Zenon DEF Counting, B, L
  <2>2. ASSUME NEW n \in 0..L PROVE number[n] = IF n = 0 THEN 0 ELSE number[n - 1] * B + bytes[n]
    BY <2>1, Zenon
  <2>3. 0 \in 0..L
    BY <1>1
  <2> QED
    BY <2>2, <2>3
<1>6. ASSUME NEW n \in 0..(L - 1) PROVE number[n + 1] = number[n] * B + bytes[n + 1]
  <2>1. n + 1 \in 0..L /\ n + 1 # 0 /\ (n + 1) - 1 = n
    BY <1>1
  <2> QED
    BY <1>5, <2>1
<1> DEFINE S == {n \in Nat : n <= L => number[n] \in Nat}
<1>7. 0 \in S
  BY <1>5
<1>8. ASSUME NEW n \in Nat, n \in S PROVE n + 1 \in S
  <2> SUFFICES ASSUME n + 1 <= L PROVE number[n + 1] \in Nat
    OBVIOUS
  <2>1. n \in 0..(L - 1) /\ n + 1 \in 1..L /\ number[n] \in Nat
    BY <1>1, <1>8
  <2>2. bytes[n + 1] \in Nat /\ number[n] * B \in Nat
    BY <1>1, <2>1
  <2> QED
    BY <1>6, <2>1, <2>2
<1> HIDE DEF S
<1>9. \A n \in Nat : n \in S
  BY <1>7, <1>8, Induction
<1>10. \A n \in 0..L : number[n] \in Nat
  BY <1>1, <1>9 DEF S
<1>11. Counts(bytes, number)
  BY <1>5, <1>6, <1>10 DEF Counts, B, L
<1> QED
  BY <1>4, <1>11 DEF L

\* The first bytes of a number are what is left when the others are divided away.
LEMMA FirstBytes ==
  ASSUME NEW bytes \in Seq(Byte), NEW f, Counts(bytes, f), NEW n \in 0..Len(bytes)
  PROVE  \A k \in Nat : k <= n => f[n] \div Power(Pow2(BitsPerByte), k) = f[n - k]
<1> DEFINE B == Pow2(BitsPerByte)
           L == Len(bytes)
           S == {k \in Nat : k <= n => f[n] \div Power(B, k) = f[n - k]}
<1>1. B \in Nat \ {0} /\ B \in Int /\ L \in Nat /\ \A i \in 1..L : bytes[i] \in Nat /\ bytes[i] < B
  BY BaseIs DEF Byte
<1>2. /\ \A i \in 0..L : f[i] \in Nat
      /\ \A i \in 0..(L - 1) : f[i + 1] = f[i] * B + bytes[i + 1]
  BY DEF Counts
<1>3. n \in 0..L
  OBVIOUS
<1> HIDE DEF B, L
<1>4. Power(B, 0) = 1 /\ \A i \in Nat : Power(B, i + 1) = B * Power(B, i)
  BY <1>1, PowerRule
<1>5. \A i \in Nat : Power(B, i) \in Nat \ {0}
  BY <1>1, PowerPositive
<1>6. 0 \in S
  <2>1. f[n] \in Nat /\ n - 0 = n
    BY <1>2, <1>3
  <2>2. \A x \in Nat : x \div 1 = x
    OBVIOUS
  <2>3. f[n] \div Power(B, 0) = f[n]
    BY <1>4, <2>1, <2>2
  <2> QED
    BY <2>1, <2>3
<1>7. ASSUME NEW k \in Nat, k \in S PROVE k + 1 \in S
  <2> SUFFICES ASSUME k + 1 <= n PROVE f[n] \div Power(B, k + 1) = f[n - (k + 1)]
    OBVIOUS
  <2> DEFINE i == n - (k + 1)
             p == Power(B, k)
             x == f[n]
             y == f[i]
             b == bytes[i + 1]
  <2>1. i \in 0..(L - 1) /\ i \in 0..L /\ i + 1 \in 1..L /\ i + 1 = n - k
    BY <1>1, <1>3
  <2>2. y \in Nat /\ b \in Nat /\ b < B /\ f[n - k] = y * B + b /\ x \in Nat
    BY <1>1, <1>2, <1>3, <2>1
  <2>3. x \div p = y * B + b
    BY <1>7, <2>2
  <2>4. p \in Nat \ {0}
    BY <1>5
  <2>5. Power(B, k + 1) = p * B
    BY <1>1, <1>4, <2>4
  <2> HIDE DEF p, x, y, b, i
  <2>6. x \div (p * B) = (x \div p) \div B
    BY <1>1, <2>2, <2>4, DividedTwice
  <2>7. (B * y + b) \div B = y
    BY <1>1, <2>2, Quotient
  <2>8. y * B = B * y
    BY <1>1, <2>2
  <2>9. x \div (p * B) = y
    BY <2>3, <2>6, <2>7, <2>8
  <2> QED
    BY <2>5, <2>9 DEF x, y, i
<1> HIDE DEF S
<1>8. \A k \in Nat : k \in S
  BY <1>6, <1>7, Induction
<1> QED
  BY <1>8 DEF S, B

\* Writing a number that was read gives the bytes back.
LEMMA BytesOfNumber ==
  ASSUME NEW bytes \in Seq(Byte)
  PROVE  Number(bytes) \in Nat /\ Bytes(Number(bytes), Len(bytes)) = bytes
<1> DEFINE B == Pow2(BitsPerByte)
           L == Len(bytes)
           num == Number(bytes)
<1>1. B \in Nat \ {0} /\ B \in Int /\ L \in Nat /\ \A i \in 1..L : bytes[i] \in Nat /\ bytes[i] < B
  BY BaseIs DEF Byte
<1>2. bytes \in Seq(Nat)
  BY BaseIs DEF Byte
<1>3. PICK f : Counts(bytes, f) /\ num = f[L]
  BY <1>2, NumberIs
<1>4. /\ \A i \in 0..L : f[i] \in Nat
      /\ \A i \in 0..(L - 1) : f[i + 1] = f[i] * B + bytes[i + 1]
  BY <1>3 DEF Counts
<1>5. L \in 0..L
  BY <1>1
<1>6. \A k \in Nat : k <= L => num \div Power(B, k) = f[L - k]
  BY <1>3, <1>5, FirstBytes
<1>7. \A k \in Nat : Pow2(BitsPerByte * k) = Power(B, k)
  BY BaseIs
<1> HIDE DEF B, num
<1>8. ASSUME NEW i \in 1..L PROVE (num \div Pow2(BitsPerByte * (L - i))) % B = bytes[i]
  <2> DEFINE j == i - 1
             y == f[j]
             b == bytes[i]
  <2>1. L - i \in Nat /\ L - i <= L /\ L - (L - i) = i /\ j \in 0..(L - 1) /\ j \in 0..L /\ j + 1 = i
    BY <1>1
  <2>2. num \div Pow2(BitsPerByte * (L - i)) = f[i]
    BY <1>6, <1>7, <2>1
  <2>3. f[i] = y * B + b /\ y \in Nat /\ b \in Nat /\ b < B
    BY <1>1, <1>4, <2>1
  <2> HIDE DEF y, b, j
  <2>4. y * B = B * y
    BY <1>1, <2>3
  <2>5. (B * y + b) % B = b
    <3>1. y \in Int /\ b \in Nat /\ b < B /\ B \in Nat \ {0}
      BY <1>1, <2>3
    <3> QED
      BY ONLY <3>1, Remainder
  <2> QED
    BY <2>2, <2>3, <2>4, <2>5 DEF b
<1>9. bytes = [i \in 1..L |-> bytes[i]]
  OBVIOUS
<1>10. Bytes(num, L) = [i \in 1..L |-> bytes[i]]
  BY <1>8 DEF Bytes, B
<1>11. num \in Nat
  BY <1>3, <1>4, <1>5
<1> QED
  BY <1>9, <1>10, <1>11 DEF num

-----------------------------------------------------------------------------
(* Strings of n bytes *)

\* The length of a string of n bytes.
LEMMA StringLength ==
  ASSUME NEW S, NEW n \in Nat, NEW s \in [1..n -> S]
  PROVE  s \in Seq(S) /\ Len(s) = n
OBVIOUS

\* A sequence of bytes is a string of its length ...
LEMMA SequenceString ==
  ASSUME NEW S, NEW s \in Seq(S)
  PROVE  s \in [1..Len(s) -> S] /\ Len(s) \in Nat
OBVIOUS

\* ... and a string is a sequence.
LEMMA AllStringsAre ==
  ASSUME NEW n \in Nat, NEW s
  PROVE  s \in AllStrings(n) <=> s \in Seq(Byte) /\ Len(s) = n
<1>1. s \in AllStrings(n) => s \in Seq(Byte) /\ Len(s) = n
  BY StringLength DEF AllStrings
<1>2. s \in Seq(Byte) /\ Len(s) = n => s \in AllStrings(n)
  BY SequenceString DEF AllStrings
<1> QED
  BY <1>1, <1>2

\* The bytes of a string.
LEMMA StringBytes ==
  ASSUME NEW n \in Nat, NEW s \in AllStrings(n), NEW i \in 1..n
  PROVE  s[i] \in Byte
BY DEF AllStrings

\* Strings with the same bytes are equal.
LEMMA SameString ==
  ASSUME NEW n \in Nat, NEW s \in AllStrings(n), NEW t \in AllStrings(n), \A i \in 1..n : s[i] = t[i]
  PROVE  s = t
BY DEF AllStrings

\* One string after another.
LEMMA JoinedStrings ==
  ASSUME NEW m \in Nat, NEW n \in Nat, NEW s \in AllStrings(m), NEW t \in AllStrings(n)
  PROVE  /\ s \o t \in AllStrings(m + n)
         /\ \A i \in 1..m : (s \o t)[i] = s[i]
         /\ \A i \in 1..n : (s \o t)[m + i] = t[i]
<1>1. s \in Seq(Byte) /\ Len(s) = m /\ t \in Seq(Byte) /\ Len(t) = n
  BY AllStringsAre
<1>2. s \o t \in Seq(Byte) /\ Len(s \o t) = m + n /\ m + n \in Nat
  BY <1>1
<1>3. s \o t \in AllStrings(m + n)
  BY <1>2, AllStringsAre
<1>4. \A i \in 1..m : (s \o t)[i] = s[i]
  BY <1>1
<1>5. \A i \in 1..n : (s \o t)[m + i] = t[i]
  BY <1>1
<1> QED
  BY <1>3, <1>4, <1>5

\* A part of a string.
LEMMA PartOfString ==
  ASSUME NEW n \in Nat, NEW s \in AllStrings(n), NEW a \in Nat, NEW b \in Nat,
         1 <= a, a <= b + 1, b <= n
  PROVE  /\ SubSeq(s, a, b) \in AllStrings(b - a + 1) /\ b - a + 1 \in Nat
         /\ \A i \in 1..(b - a + 1) : SubSeq(s, a, b)[i] = s[a + i - 1]
<1>1. s \in Seq(Byte) /\ Len(s) = n
  BY AllStringsAre
<1>2. SubSeq(s, a, b) \in Seq(Byte) /\ Len(SubSeq(s, a, b)) = b - a + 1 /\ b - a + 1 \in Nat
  BY <1>1
<1>3. SubSeq(s, a, b) \in AllStrings(b - a + 1)
  BY <1>2, AllStringsAre
<1>4. \A i \in 1..(b - a + 1) : SubSeq(s, a, b)[i] = s[a + i - 1]
  BY <1>1
<1> QED
  BY <1>2, <1>3, <1>4

\* The byte i of the mask that src generates.
Mask(src, i) == Hash(src \o <<(i - 1) \div HashLen>>)[((i - 1) % HashLen) + 1]

\* The hash function gives strings of its length for all strings.
HashRight == \A s \in Seq(Nat) : Hash(s) \in AllStrings(HashLen)

\* A masked string has the length of the string ...
LEMMA MaskIs ==
  ASSUME HashRight, NEW src \in Seq(Nat), NEW i \in Nat \ {0}
  PROVE  Mask(src, i) \in Byte
<1> DEFINE j == i - 1
           q == j \div HashLen
           r == j % HashLen
<1>1. HashLen \in Nat \ {0} /\ j \in Nat
  BY ScaleAssumption
<1> HIDE DEF j
<1>2. q \in Nat /\ r \in Nat /\ r < HashLen
  BY <1>1, Division
<1> HIDE DEF q, r
<1>3. src \o <<q>> \in Seq(Nat)
  BY <1>2
<1>4. Hash(src \o <<q>>) \in AllStrings(HashLen)
  BY <1>3 DEF HashRight
<1>5. r + 1 \in 1..HashLen
  BY <1>1, <1>2
<1>6. Hash(src \o <<q>>)[r + 1] \in Byte
  BY <1>4, <1>5 DEF AllStrings
<1> QED
  BY <1>6 DEF Mask, j, q, r

\* ... and masking it again gives the string.
LEMMA MaskedIs ==
  ASSUME HashRight, NEW src \in Seq(Nat), NEW n \in Nat, NEW dst \in AllStrings(n)
  PROVE  /\ mgf_mask(dst, src) \in AllStrings(n)
         /\ \A i \in 1..n : mgf_mask(dst, src)[i] = ExclusiveOr(dst[i], Mask(src, i))
         /\ mgf_mask(mgf_mask(dst, src), src) = dst
<1>1. Len(dst) = n
  BY AllStringsAre
<1>2. ASSUME NEW i \in 1..n
      PROVE  /\ Mask(src, i) \in Byte /\ ExclusiveOr(dst[i], Mask(src, i)) \in Byte
             /\ ExclusiveOr(ExclusiveOr(dst[i], Mask(src, i)), Mask(src, i)) = dst[i]
  <2>1. i \in Nat \ {0} /\ dst[i] \in Byte
    BY DEF AllStrings
  <2>2. Mask(src, i) \in Byte
    BY <2>1, MaskIs
  <2> QED
    BY <2>1, <2>2, ExclusiveOrAssumption
<1> DEFINE x == [i \in 1..n |-> ExclusiveOr(dst[i], Mask(src, i))]
           y == [i \in 1..n |-> ExclusiveOr(x[i], Mask(src, i))]
<1>3. mgf_mask(dst, src) = x
  BY <1>1 DEF mgf_mask, Mask
<1>4. x \in AllStrings(n) /\ \A i \in 1..n : x[i] = ExclusiveOr(dst[i], Mask(src, i))
  BY <1>2 DEF AllStrings
<1> HIDE DEF x
<1>5. Len(x) = n
  BY <1>4, AllStringsAre
<1>6. mgf_mask(x, src) = y
  BY <1>5 DEF mgf_mask, Mask
<1>7. \A i \in 1..n : y[i] = dst[i]
  BY <1>2, <1>4
<1>8. y \in AllStrings(n)
  BY <1>2, <1>4 DEF AllStrings
<1> HIDE DEF y
<1>9. y = dst
  BY <1>7, <1>8, SameString
<1> QED
  BY <1>3, <1>4, <1>6, <1>9

\* What is below a power of two up to that of a byte is a byte.
LEMMA BitsAreBytes ==
  /\ 0 \in Byte /\ 1 \in Byte /\ Trailer \in Byte
  /\ \A b \in Byte : b \in Nat /\ b < Pow2(BitsPerByte)
BY BaseIs, ScaleAssumption DEF Byte

\* Where the zeros of a string end.
LEMMA ZerosEndIs ==
  ASSUME NEW n \in Nat \ {0}, NEW s \in AllStrings(n)
  PROVE  /\ ZerosEnd(s) \in 1..n /\ (s[ZerosEnd(s)] # 0 \/ ZerosEnd(s) = n)
         /\ \A j \in 1..(ZerosEnd(s) - 1) : s[j] = 0
<1> DEFINE P(i) == (s[i] # 0 \/ i = n) /\ \A j \in 1..(i - 1) : s[j] = 0
           S == {i \in 1..n : s[i] # 0 \/ i = n}
<1>1. Len(s) = n
  BY AllStringsAre
<1>2. S \in SUBSET Nat /\ n \in S
  OBVIOUS
<1>3. PICK k \in S : \A m \in S : k <= m
  <2> HIDE DEF S
  <2> QED
    BY <1>2, LeastNumber
<1>4. \A j \in 1..(k - 1) : s[j] = 0
  <2> SUFFICES ASSUME NEW j \in 1..(k - 1), s[j] # 0 PROVE FALSE
    OBVIOUS
  <2>1. j \in S /\ j < k
    BY <1>2, <1>3
  <2> QED
    BY <1>2, <1>3, <2>1
<1>5. k \in 1..n /\ P(k)
  BY <1>3, <1>4
<1>6. ZerosEnd(s) = CHOOSE i \in 1..n : P(i)
  BY <1>1 DEF ZerosEnd
<1> HIDE DEF P
<1>7. ZerosEnd(s) \in 1..n /\ P(ZerosEnd(s))
  BY <1>5, <1>6
<1> QED
  BY <1>7 DEF P

\* The first byte that is not zero ends them.
LEMMA ZerosEndAt ==
  ASSUME NEW n \in Nat \ {0}, NEW s \in AllStrings(n), NEW k \in 1..n, s[k] # 0, \A j \in 1..(k - 1) : s[j] = 0
  PROVE  ZerosEnd(s) = k
<1> DEFINE z == ZerosEnd(s)
<1>1. z \in 1..n /\ (s[z] # 0 \/ z = n) /\ \A j \in 1..(z - 1) : s[j] = 0
  BY ZerosEndIs
<1> HIDE DEF z
<1>2. ~(z < k)
  <2> SUFFICES ASSUME z < k PROVE FALSE
    OBVIOUS
  <2>1. z \in 1..(k - 1) /\ z # n
    BY <1>1
  <2> QED
    BY <1>1, <2>1
<1>3. ~(k < z)
  <2> SUFFICES ASSUME k < z PROVE FALSE
    OBVIOUS
  <2>1. k \in 1..(z - 1)
    BY <1>1
  <2> QED
    BY <1>1, <2>1
<1> QED
  BY <1>1, <1>2, <1>3 DEF z

\* A padding of zeros and a one, before a string.
Padded(k, t) == Zeros(k) \o <<1>> \o t

\* A string of zeros.
LEMMA ZerosAre ==
  ASSUME NEW k \in Nat
  PROVE  Zeros(k) \in AllStrings(k) /\ \A i \in 1..k : Zeros(k)[i] = 0
BY BitsAreBytes DEF Zeros, AllStrings

\* The byte 1.
LEMMA OneByte ==
  ASSUME NEW b \in Byte
  PROVE  <<b>> \in AllStrings(1) /\ <<b>>[1] = b
<1>1. <<b>> \in Seq(Byte) /\ Len(<<b>>) = 1
  OBVIOUS
<1> QED
  BY <1>1, AllStringsAre

\* j is s, of m bytes, and then t, of n bytes.
Adjacent(j, m, n, s, t) ==
  j \in AllStrings(m + n) /\ (\A i \in 1..m : j[i] = s[i]) /\ \A i \in 1..n : j[m + i] = t[i]

\* Two strings joined are adjacent.
LEMMA StringsAdjacent ==
  ASSUME NEW m \in Nat, NEW n \in Nat, NEW s \in AllStrings(m), NEW t \in AllStrings(n)
  PROVE  Adjacent(s \o t, m, n, s, t)
BY JoinedStrings DEF Adjacent

\* A padded message is a string of its own length.
LEMMA PaddedIs ==
  ASSUME NEW k \in Nat, NEW n \in Nat, NEW t \in AllStrings(n)
  PROVE  /\ Padded(k, t) \in AllStrings(k + 1 + n)
         /\ \A i \in 1..k : Padded(k, t)[i] = 0
         /\ Padded(k, t)[k + 1] = 1
         /\ \A i \in 1..n : Padded(k, t)[k + 1 + i] = t[i]
<1> DEFINE z == Zeros(k)
           o == <<1>>
           zo == z \o o
           l == k + 1
           one == 1
<1>1. z \in AllStrings(k) /\ \A i \in 1..k : z[i] = 0
  BY ZerosAre
<1>2. o \in AllStrings(one) /\ o[one] = 1
  BY OneByte, BitsAreBytes
<1>3. one \in Nat /\ one \in 1..one /\ l \in Nat /\ l = k + one
  OBVIOUS
<1> HIDE DEF z, o, one
<1>4. zo \in AllStrings(k + one) /\ (\A i \in 1..k : zo[i] = z[i]) /\ \A i \in 1..one : zo[k + i] = o[i]
  <2>1. Adjacent(z \o o, k, one, z, o)
    BY ONLY k \in Nat, <1>1, <1>2, <1>3, StringsAdjacent
  <2> QED
    BY <2>1 DEF Adjacent
<1> HIDE DEF zo, l
<1>5. zo \in AllStrings(l) /\ (\A i \in 1..k : zo[i] = 0) /\ zo[l] = 1
  BY <1>1, <1>2, <1>3, <1>4
<1> USE DEF l
<1>6. zo \o t \in AllStrings(l + n) /\ (\A i \in 1..l : (zo \o t)[i] = zo[i]) /\ \A i \in 1..n : (zo \o t)[l + i] = t[i]
  <2>1. Adjacent(zo \o t, l, n, zo, t)
    BY <1>3, <1>5, StringsAdjacent
  <2> QED
    BY <2>1 DEF Adjacent
<1>7. Padded(k, t) = zo \o t
  BY DEF Padded, zo, z, o, one
<1> DEFINE p == zo \o t
<1> HIDE DEF p
<1>8. p \in AllStrings(l + n) /\ (\A i \in 1..l : p[i] = zo[i]) /\ \A i \in 1..n : p[l + i] = t[i]
  BY <1>6 DEF p
<1>9. \A i \in 1..k : p[i] = 0
  BY <1>3, <1>5, <1>8
<1>10. p[k + 1] = 1
  BY <1>3, <1>5, <1>8
<1> QED
  BY <1>7, <1>8, <1>9, <1>10 DEF p

\* What a padding that was put on is found to be.
LEMMA PaddedEnds ==
  ASSUME NEW k \in Nat, NEW n \in Nat, NEW t \in AllStrings(n)
  PROVE  /\ ZerosEnd(Padded(k, t)) = k + 1
         /\ SubSeq(Padded(k, t), k + 2, k + 1 + n) = t
<1> DEFINE p == Padded(k, t)
           m == k + 1 + n
           a == k + 2
<1>1. p \in AllStrings(m) /\ (\A i \in 1..k : p[i] = 0) /\ p[k + 1] = 1 /\ \A i \in 1..n : p[k + 1 + i] = t[i]
  BY PaddedIs
<1> HIDE DEF p
<1>2. ZerosEnd(p) = k + 1
  <2> DEFINE l == k + 1
  <2>1. m \in Nat \ {0} /\ l \in 1..m /\ p[l] # 0 /\ \A j \in 1..(l - 1) : p[j] = 0
    BY <1>1
  <2> HIDE DEF l, m
  <2>2. ZerosEnd(p) = l
    BY <1>1, <2>1, ZerosEndAt
  <2> QED
    BY <2>2 DEF l
<1> DEFINE u == SubSeq(p, a, m)
<1>3. u \in AllStrings(m - a + 1) /\ \A i \in 1..(m - a + 1) : u[i] = p[a + i - 1]
  <2>1. a \in Nat /\ m \in Nat /\ 1 <= a /\ a <= m + 1 /\ m <= m
    OBVIOUS
  <2> HIDE DEF a, m
  <2> QED
    BY <1>1, <2>1, PartOfString
<1> HIDE DEF u
<1>4. m - a + 1 = n /\ \A i \in 1..n : a + i - 1 = k + 1 + i
  OBVIOUS
<1>5. u \in AllStrings(n) /\ \A i \in 1..n : u[i] = t[i]
  BY <1>1, <1>3, <1>4
<1>6. u = t
  BY <1>5, SameString
<1> QED
  BY <1>2, <1>6 DEF u, p, a, m

\* A string that is found to be padded is a padded one.
LEMMA FoundPadded ==
  ASSUME NEW n \in Nat \ {0}, NEW s \in AllStrings(n), s[ZerosEnd(s)] = 1
  PROVE  LET z == ZerosEnd(s)
             t == SubSeq(s, z + 1, n)
         IN  /\ z \in 1..n /\ n - z \in Nat /\ t \in AllStrings(n - z)
             /\ s = Padded(z - 1, t)
<1> DEFINE z == ZerosEnd(s)
           a == z + 1
           t == SubSeq(s, a, n)
           k == z - 1
           m == n - z
           p == Padded(k, t)
<1>1. z \in 1..n /\ s[z] = 1 /\ \A j \in 1..(z - 1) : s[j] = 0
  BY ZerosEndIs
<1> HIDE DEF z
<1>2. k \in Nat /\ m \in Nat /\ a \in Nat /\ 1 <= a /\ a <= n + 1 /\ n <= n /\ n \in Nat
  BY <1>1
<1>3. t \in AllStrings(n - a + 1) /\ \A i \in 1..(n - a + 1) : t[i] = s[a + i - 1]
  <2> HIDE DEF a
  <2> QED
    BY <1>2, PartOfString
<1> HIDE DEF t
<1>4. n - a + 1 = m
  BY <1>1
<1>5. t \in AllStrings(m) /\ \A i \in 1..m : t[i] = s[a + i - 1]
  BY <1>3, <1>4
<1>6. /\ p \in AllStrings(k + 1 + m)
      /\ \A i \in 1..k : p[i] = 0
      /\ p[k + 1] = 1
      /\ \A i \in 1..m : p[k + 1 + i] = t[i]
  <2> HIDE DEF k, m
  <2> QED
    BY <1>2, <1>5, PaddedIs
<1> HIDE DEF p
<1>7. k + 1 + m = n
  BY <1>1
<1>8. p \in AllStrings(n)
  BY <1>6, <1>7
<1>9. ASSUME NEW i \in 1..n PROVE s[i] = p[i]
  <2>1. CASE i < z
    BY <1>1, <1>6, <2>1
  <2>2. CASE i = z
    <3>1. k + 1 = z
      BY <1>1
    <3> QED
      BY <1>1, <1>6, <2>2, <3>1
  <2>3. CASE i > z
    <3> DEFINE j == i - z
    <3>1. j \in 1..m /\ k + 1 + j = i /\ a + j - 1 = i
      BY <1>1, <2>3
    <3> HIDE DEF j, k, m, a
    <3>2. p[k + 1 + j] = t[j] /\ t[j] = s[a + j - 1]
      BY <1>5, <1>6, <3>1
    <3> QED
      BY <3>1, <3>2
  <2> QED
    BY <1>1, <2>1, <2>2, <2>3
<1>10. s = p
  BY <1>2, <1>8, <1>9, SameString
<1> QED
  BY <1>1, <1>2, <1>5, <1>10 DEF p, k, m, t, a, z

\* A part of a sequence, byte by byte.
LEMMA PartIs ==
  ASSUME NEW n \in Nat, NEW s \in AllStrings(n), NEW a \in Nat, NEW m \in Nat, NEW t \in AllStrings(m),
         a + m <= n, \A i \in 1..m : s[a + i] = t[i]
  PROVE  SubSeq(s, a + 1, a + m) = t
<1> DEFINE x == a + 1
           y == a + m
           u == SubSeq(s, x, y)
<1>1. x \in Nat /\ y \in Nat /\ 1 <= x /\ x <= y + 1 /\ y <= n
  OBVIOUS
<1>2. u \in AllStrings(y - x + 1) /\ \A i \in 1..(y - x + 1) : u[i] = s[x + i - 1]
  <2> HIDE DEF x, y
  <2> QED
    BY <1>1, PartOfString
<1> HIDE DEF u
<1>3. y - x + 1 = m /\ \A i \in 1..m : x + i - 1 = a + i
  OBVIOUS
<1>4. u \in AllStrings(m) /\ \A i \in 1..m : u[i] = s[a + i]
  BY <1>2, <1>3
<1>5. \A i \in 1..m : u[i] = t[i]
  BY <1>4
<1>6. u = t
  BY <1>4, <1>5, SameString
<1> QED
  BY <1>6 DEF u, x, y

\* The parts of a string j: s and t, of lengths a and b.
InTwo(j, a, b, s, t) ==
  /\ j \in AllStrings(a + b) /\ SubSeq(j, 1, a) = s /\ SubSeq(j, a + 1, a + b) = t
  /\ (\A i \in 1..a : j[i] = s[i]) /\ \A i \in 1..b : j[a + i] = t[i]

\* Two strings joined, and a string in two parts.
LEMMA TwoStrings ==
  ASSUME NEW a \in Nat, NEW b \in Nat, NEW s \in AllStrings(a), NEW t \in AllStrings(b)
  PROVE  InTwo(s \o t, a, b, s, t)
<1> DEFINE j == s \o t
           n == a + b
           zero == 0
<1>1. j \in AllStrings(n) /\ (\A i \in 1..a : j[i] = s[i]) /\ \A i \in 1..b : j[a + i] = t[i]
  BY JoinedStrings
<1>2. n \in Nat /\ a + b <= n /\ zero \in Nat /\ zero + a <= n /\ \A i \in 1..a : zero + i = i
  OBVIOUS
<1> HIDE DEF j, n
<1>3. SubSeq(j, a + 1, a + b) = t
  BY <1>1, <1>2, PartIs
<1>4. \A i \in 1..a : j[zero + i] = s[i]
  BY <1>1, <1>2
<1>5. zero + 1 = 1 /\ zero + a = a
  OBVIOUS
<1> HIDE DEF zero
<1>6. SubSeq(j, zero + 1, zero + a) = s
  BY <1>1, <1>2, <1>4, PartIs
<1> QED
  BY <1>1, <1>3, <1>5, <1>6 DEF j, n, InTwo

\* u is the part of s from a to b.
IsPart(u, s, a, b) ==
  u \in AllStrings(b - a + 1) /\ \A i \in 1..(b - a + 1) : u[i] = s[a + i - 1]

\* This is what SubSeq() gives.
LEMMA PartIsPart ==
  ASSUME NEW n \in Nat, NEW s \in AllStrings(n), NEW a \in Nat, NEW b \in Nat,
         1 <= a, a <= b + 1, b <= n
  PROVE  IsPart(SubSeq(s, a, b), s, a, b)
<1> DEFINE u == SubSeq(s, a, b)
<1>1. u \in AllStrings(b - a + 1)
  BY PartOfString
<1>2. \A i \in 1..(b - a + 1) : u[i] = s[a + i - 1]
  BY PartOfString
<1> HIDE DEF u
<1>3. IsPart(u, s, a, b)
  BY <1>1, <1>2 DEF IsPart
<1> QED
  BY <1>3 DEF u

\* Two adjacent parts make up the string.
LEMMA TwoParts ==
  ASSUME NEW a \in Nat, NEW b \in Nat, NEW j \in AllStrings(a + b)
  PROVE  /\ SubSeq(j, 1, a) \in AllStrings(a) /\ SubSeq(j, a + 1, a + b) \in AllStrings(b)
         /\ j = SubSeq(j, 1, a) \o SubSeq(j, a + 1, a + b)
<1> DEFINE n == a + b
           l == a + 1
           one == 1
           s == SubSeq(j, one, a)
           t == SubSeq(j, l, n)
           st == s \o t
<1>0. j \in AllStrings(n)
  OBVIOUS
<1>1. /\ n \in Nat /\ one \in Nat /\ 1 <= one /\ one <= a + 1 /\ a <= n /\ a - one + 1 = a
      /\ l \in Nat /\ 1 <= l /\ l <= n + 1 /\ n <= n /\ n - l + 1 = b /\ (\A i \in 1..a : one + i - 1 = i)
      /\ \A i \in 1..b : l + i - 1 = a + i
  BY ONLY a \in Nat, b \in Nat
<1>2. s \in AllStrings(a - one + 1) /\ \A i \in 1..(a - one + 1) : s[i] = j[one + i - 1]
  <2> HIDE DEF one, n
  <2>1. IsPart(SubSeq(j, one, a), j, one, a)
    BY ONLY a \in Nat, <1>0, <1>1, PartIsPart
  <2> QED
    BY <2>1 DEF IsPart
<1>3. t \in AllStrings(n - l + 1) /\ \A i \in 1..(n - l + 1) : t[i] = j[l + i - 1]
  <2> HIDE DEF l, n
  <2>1. IsPart(SubSeq(j, l, n), j, l, n)
    BY ONLY <1>0, <1>1, PartIsPart
  <2> QED
    BY <2>1 DEF IsPart
<1> HIDE DEF s, t
<1>4. s \in AllStrings(a) /\ \A i \in 1..a : s[i] = j[i]
  BY <1>1, <1>2
<1>5. t \in AllStrings(b) /\ \A i \in 1..b : t[i] = j[a + i]
  BY <1>1, <1>3
<1>6. st \in AllStrings(n) /\ (\A i \in 1..a : st[i] = s[i]) /\ \A i \in 1..b : st[a + i] = t[i]
  BY <1>4, <1>5, JoinedStrings
<1> HIDE DEF st
<1>7. ASSUME NEW i \in 1..n PROVE j[i] = st[i]
  <2>1. CASE i <= a
    BY <1>4, <1>6, <2>1
  <2>2. CASE i > a
    <3> DEFINE k == i - a
    <3>1. k \in 1..b /\ a + k = i
      BY <2>2
    <3> HIDE DEF k
    <3>2. st[a + k] = t[k] /\ t[k] = j[a + k]
      BY <1>5, <1>6, <3>1
    <3> QED
      BY <3>1, <3>2
  <2> QED
    BY <2>1, <2>2
<1>8. j = st
  <2> HIDE DEF n
  <2> QED
    BY <1>0, <1>1, <1>6, <1>7, SameString
<1> QED
  BY <1>4, <1>5, <1>8 DEF st, s, t, n, l, one

\* Joining is associative.
LEMMA StringsAssociate ==
  ASSUME NEW s \in Seq(Byte), NEW t \in Seq(Byte), NEW u \in Seq(Byte)
  PROVE  Joined(Joined(s, t), u) = Joined(s, Joined(t, u)) /\ Joined(s, t) \in Seq(Byte)
BY JoinedFacts

\* The parts of a string j: s, t and u, of lengths a, b and c.
InThree(j, a, b, c, s, t, u) ==
  /\ j \in AllStrings(a + b + c)
  /\ SubSeq(j, 1, a) = s
  /\ SubSeq(j, a + 1, a + b) = t
  /\ SubSeq(j, a + b + 1, a + b + c) = u

\* Three strings joined, and a string in three parts.
LEMMA ThreeStrings ==
  ASSUME NEW a \in Nat, NEW b \in Nat, NEW c \in Nat,
         NEW s \in AllStrings(a), NEW t \in AllStrings(b), NEW u \in AllStrings(c)
  PROVE  InThree(s \o t \o u, a, b, c, s, t, u)
<1> DEFINE st == s \o t
           ab == a + b
           j == st \o u
           n == ab + c
           zero == 0
<1>1. st \in AllStrings(ab) /\ (\A i \in 1..a : st[i] = s[i]) /\ \A i \in 1..b : st[a + i] = t[i]
  BY JoinedStrings
<1>2. ab \in Nat
  OBVIOUS
<1> HIDE DEF st
<1>3. j \in AllStrings(n) /\ SubSeq(j, ab + 1, ab + c) = u /\ \A i \in 1..ab : j[i] = st[i]
  <2> HIDE DEF ab
  <2>1. ab \in Nat /\ c \in Nat /\ st \in AllStrings(ab) /\ u \in AllStrings(c)
    BY <1>1, <1>2
  <2>2. InTwo(j, ab, c, st, u)
    BY ONLY <2>1, TwoStrings
  <2> QED
    BY <2>2 DEF InTwo
<1> HIDE DEF j
<1>4. \A i \in 1..a : j[zero + i] = s[i]
  BY <1>1, <1>3
<1>5. \A i \in 1..b : j[a + i] = t[i]
  BY <1>1, <1>3
<1>6. n \in Nat /\ a + b <= n /\ zero \in Nat /\ zero + a <= n /\ zero + 1 = 1 /\ zero + a = a
  OBVIOUS
<1> HIDE DEF zero, n
<1>7. SubSeq(j, zero + 1, zero + a) = s
  BY <1>3, <1>4, <1>6, PartIs
<1>8. SubSeq(j, a + 1, a + b) = t
  BY <1>3, <1>5, <1>6, PartIs
<1> QED
  BY <1>3, <1>6, <1>7, <1>8 DEF j, st, ab, n, InThree

MadeOfParts(j, a, b, c) ==
  LET s == SubSeq(j, 1, a)
      t == SubSeq(j, a + 1, a + b)
      u == SubSeq(j, a + b + 1, a + b + c)
  IN  /\ s \in AllStrings(a) /\ t \in AllStrings(b) /\ u \in AllStrings(c)
      /\ j = s \o t \o u

\* Three adjacent parts make up the string.
LEMMA ThreeParts ==
  ASSUME NEW a \in Nat, NEW b \in Nat, NEW c \in Nat, NEW j \in AllStrings(a + b + c)
  PROVE  MadeOfParts(j, a, b, c)
<1> DEFINE ab == a + b
           x == SubSeq(j, 1, ab)
           u == SubSeq(j, ab + 1, ab + c)
           s == SubSeq(x, 1, a)
           t == SubSeq(x, a + 1, a + b)
<1>1. ab \in Nat
  OBVIOUS
<1>2. x \in AllStrings(ab) /\ u \in AllStrings(c) /\ j = x \o u
  <2>1. j \in AllStrings(ab + c)
    OBVIOUS
  <2> HIDE DEF ab
  <2> QED
    BY <1>1, <2>1, TwoParts
<1> HIDE DEF x, u
<1>3. s \in AllStrings(a) /\ t \in AllStrings(b) /\ x = s \o t
  BY <1>2, TwoParts
<1> HIDE DEF s, t
<1>4. j = s \o t \o u
  BY <1>2, <1>3
<1>5. SubSeq(s \o t \o u, 1, a) = s /\ SubSeq(s \o t \o u, a + 1, a + b) = t
  <2>1. a \in Nat /\ b \in Nat /\ c \in Nat /\ s \in AllStrings(a) /\ t \in AllStrings(b) /\ u \in AllStrings(c)
    BY <1>2, <1>3
  <2>2. InThree(s \o t \o u, a, b, c, s, t, u)
    BY ONLY <2>1, ThreeStrings
  <2> QED
    BY <2>2 DEF InThree
<1> QED
  BY <1>2, <1>3, <1>4, <1>5 DEF u, ab, MadeOfParts

-----------------------------------------------------------------------------
(* OAEP *)

\* A string is a sequence of numbers of its length.
LEMMA BytesAreNumbers ==
  ASSUME NEW n \in Nat, NEW s \in AllStrings(n)
  PROVE  s \in Seq(Nat) /\ s \in Seq(Byte) /\ Len(s) = n
<1>1. s \in Seq(Byte) /\ Len(s) = n
  BY AllStringsAre
<1>2. s \in Seq(Nat)
  BY <1>1, BitsAreBytes
<1> QED
  BY <1>1, <1>2

\* The block with its padding put together.
LEMMA OaepBlockIs ==
  ASSUME HashRight, NEW olen \in Nat, NEW n \in Nat, NEW k \in Nat, k = olen - 2 * HashLen - 2 - n,
         NEW seed \in AllStrings(HashLen), NEW msg \in AllStrings(n)
  PROVE  LET db == mgf_mask(Hash(<<>>) \o Padded(k, msg), seed)
         IN  OaepBlock(olen, seed, msg) = <<0>> \o mgf_mask(seed, db) \o db
<1> DEFINE lhash == Hash(<<>>)
           plain == lhash \o Padded(k, msg)
<1>1. lhash \in AllStrings(HashLen)
  <2>1. <<>> \in Seq(Nat)
    OBVIOUS
  <2> QED
    BY <2>1 DEF HashRight
<1>2. Len(msg) = n
  BY BytesAreNumbers
<1> DEFINE z == Zeros(k)
           o == <<1>>
<1>3. z \in AllStrings(k) /\ o \in Seq(Byte) /\ HashLen \in Nat
  BY ZerosAre, BitsAreBytes, ScaleAssumption
<1> HIDE DEF lhash, z, o
<1>4. lhash \in Seq(Byte) /\ z \in Seq(Byte) /\ msg \in Seq(Byte)
  BY <1>1, <1>3, BytesAreNumbers
<1>5. Joined(Joined(lhash, z), o) = Joined(lhash, Joined(z, o)) /\ Joined(z, o) \in Seq(Byte)
  BY <1>3, <1>4, StringsAssociate
<1>6. Joined(Joined(lhash, Joined(z, o)), msg) = Joined(lhash, Joined(Joined(z, o), msg))
  BY <1>3, <1>4, <1>5, StringsAssociate
<1>7. Joined(Joined(Joined(lhash, z), o), msg) = Joined(lhash, Joined(Joined(z, o), msg))
  BY <1>5, <1>6
<1>8. lhash \o z \o o \o msg = plain
  BY <1>7 DEF Padded, Joined, z, o
<1> QED
  BY <1>2, <1>8 DEF OaepBlock, lhash, z, o

\* What OAEP encodes is decoded.
LEMMA OaepDecodes ==
  ASSUME HashRight, NEW olen \in Nat, NEW n \in Nat, OaepRoom(olen, n),
         NEW seed \in AllStrings(HashLen), NEW msg \in AllStrings(n)
  PROVE  /\ OaepBlock(olen, seed, msg) \in AllStrings(olen)
         /\ OaepUnpad(olen, OaepBlock(olen, seed, msg)) = <<"ok", msg>>
<1> DEFINE H == HashLen
           m == olen - HashLen - 1
           k == olen - 2 * HashLen - 2 - n
           r == k + 1 + n
           lhash == Hash(<<>>)
           rest == Padded(k, msg)
           plain == lhash \o rest
           db == mgf_mask(plain, seed)
           ms == mgf_mask(seed, db)
           zero == <<0>>
           one == 1
           block == zero \o ms \o db
<1>1. H \in Nat /\ H > 1 /\ olen >= n + 2 * H + 2
  BY ScaleAssumption DEF OaepRoom
<1>2. k \in Nat /\ m \in Nat /\ r \in Nat \ {0} /\ m = H + r /\ olen = one + H + m /\ one \in Nat /\ H \in Nat
  BY <1>1
<1>3. lhash \in AllStrings(H)
  <2>1. <<>> \in Seq(Nat)
    OBVIOUS
  <2> QED
    BY <2>1 DEF HashRight
<1>4. /\ rest \in AllStrings(r) /\ rest[k + 1] = 1 /\ ZerosEnd(rest) = k + 1
      /\ SubSeq(rest, k + 2, r) = msg
  <2>1. k \in Nat
    BY <1>2
  <2> HIDE DEF k
  <2>2. rest \in AllStrings(r) /\ rest[k + 1] = 1
    BY <2>1, PaddedIs
  <2>3. ZerosEnd(rest) = k + 1 /\ SubSeq(rest, k + 2, r) = msg
    BY <2>1, PaddedEnds
  <2> QED
    BY <2>2, <2>3
<1>5. OaepBlock(olen, seed, msg) = block
  BY <1>2, OaepBlockIs
<1> HIDE DEF lhash, rest, k, r
<1>6. /\ plain \in AllStrings(m) /\ SubSeq(plain, 1, H) = lhash /\ SubSeq(plain, H + 1, m) = rest
  <2> HIDE DEF H
  <2>1. H \in Nat /\ r \in Nat /\ lhash \in AllStrings(H) /\ rest \in AllStrings(r) /\ m = H + r
    BY <1>2, <1>3, <1>4
  <2> HIDE DEF m
  <2>2. InTwo(plain, H, r, lhash, rest)
    BY ONLY <2>1, TwoStrings
  <2> QED
    BY <2>1, <2>2 DEF InTwo
<1> HIDE DEF plain
<1>7. seed \in Seq(Nat)
  BY BytesAreNumbers, <1>2
<1> HIDE DEF m
<1>8. db \in AllStrings(m) /\ mgf_mask(db, seed) = plain
  BY <1>2, <1>6, <1>7, MaskedIs
<1> HIDE DEF db
<1>9. db \in Seq(Nat)
  BY <1>2, <1>8, BytesAreNumbers
<1>10. ms \in AllStrings(H) /\ mgf_mask(ms, db) = seed
  BY <1>2, <1>9, MaskedIs
<1> HIDE DEF ms
<1>11. zero \in AllStrings(one) /\ zero[1] = 0
  BY OneByte, BitsAreBytes
<1> HIDE DEF zero, one, H
<1>12. InThree(block, one, H, m, zero, ms, db)
  BY ONLY <1>2, <1>8, <1>10, <1>11, ThreeStrings
<1> HIDE DEF block
<1>13. /\ block \in AllStrings(olen) /\ SubSeq(block, 1, one) = zero
       /\ SubSeq(block, one + 1, one + H) = ms /\ SubSeq(block, one + H + 1, olen) = db
  BY <1>2, <1>12 DEF InThree
<1>14. one + 1 = 2 /\ one + H = H + 1 /\ one + H + 1 = H + 2
  BY <1>2 DEF one
<1>15. SubSeq(block, 2, H + 1) = ms /\ SubSeq(block, H + 2, olen) = db
  BY <1>13, <1>14
<1>16. block[1] = 0
  <2>1. SubSeq(block, 1, 1) = zero
    BY <1>13 DEF one
  <2>2. block \in Seq(Byte) /\ Len(block) = olen /\ olen >= 1
    BY <1>1, <1>2, <1>13, BytesAreNumbers
  <2>3. SubSeq(block, 1, 1)[1] = block[1]
    BY <2>2
  <2> QED
    BY <1>11, <2>1, <2>3
<1>17. Len(plain) = m /\ Len(rest) = r
  BY <1>2, <1>4, <1>6, BytesAreNumbers
<1>18. OaepUnpad(olen, block) = <<"ok", msg>>
  <2>1. (k + 1) + 1 = k + 2
    BY <1>2
  <2>2. rest[k + 1] = 1 /\ ZerosEnd(rest) = k + 1 /\ SubSeq(rest, (k + 1) + 1, Len(rest)) = msg
    BY <1>4, <1>17, <2>1
  <2> DEFINE e == k + 1
  <2>3. rest[e] = 1 /\ ZerosEnd(rest) = e /\ SubSeq(rest, e + 1, Len(rest)) = msg
    BY <2>2
  <2> HIDE DEF e
  <2>4. /\ mgf_mask(SubSeq(block, 2, H + 1), SubSeq(block, H + 2, olen)) = seed
        /\ mgf_mask(SubSeq(block, H + 2, olen), seed) = plain
        /\ SubSeq(plain, H + 1, Len(plain)) = rest
        /\ SubSeq(plain, 1, H) = Hash(<<>>)
    BY <1>6, <1>8, <1>10, <1>15, <1>17 DEF lhash
  <2> QED
    BY <1>16, <2>3, <2>4, Zenon DEF OaepUnpad, H
<1> QED
  BY <1>5, <1>13, <1>18

\* A block that OAEP decodes is one that it encodes.
LEMMA OaepEncodes ==
  ASSUME HashRight, NEW olen \in Nat, olen >= 2 * HashLen + 2, NEW b \in AllStrings(olen),
         OaepUnpad(olen, b)[1] = "ok"
  PROVE  \E n \in 0..(olen - 2 * HashLen - 2) : \E seed \in AllStrings(HashLen), msg \in AllStrings(n) :
           b = OaepBlock(olen, seed, msg)
<1> DEFINE H == HashLen
           m == olen - HashLen - 1
           r == olen - 2 * HashLen - 1
           ms == SubSeq(b, 2, H + 1)
           db == SubSeq(b, H + 2, olen)
           seed == mgf_mask(ms, db)
           plain == mgf_mask(db, seed)
           rest == SubSeq(plain, H + 1, m)
           e == ZerosEnd(rest)
           msg == SubSeq(rest, e + 1, r)
           n == r - e
           k == e - 1
           one == 1
           first == SubSeq(b, 1, one)
           lhash == Hash(<<>>)
<1>1. /\ H \in Nat /\ H > 1 /\ m \in Nat /\ r \in Nat \ {0} /\ m = H + r /\ olen = one + H + m /\ one \in Nat
      /\ one + 1 = 2 /\ one + H = H + 1 /\ one + H + 1 = H + 2
  BY ScaleAssumption
<1>2. first \in AllStrings(one) /\ ms \in AllStrings(H) /\ db \in AllStrings(m) /\ b = first \o ms \o db
  <2> HIDE DEF one, H, m
  <2>1. one \in Nat /\ H \in Nat /\ m \in Nat /\ b \in AllStrings(one + H + m)
    BY <1>1
  <2> DEFINE x == SubSeq(b, one + 1, one + H)
             y == SubSeq(b, one + H + 1, one + H + m)
  <2>2. /\ first \in AllStrings(one) /\ x \in AllStrings(H) /\ y \in AllStrings(m) /\ b = first \o x \o y
    <3>1. MadeOfParts(b, one, H, m)
      BY ONLY <2>1, ThreeParts
    <3> QED
      BY <2>1, <3>1 DEF MadeOfParts
  <2>3. x = ms /\ y = db
    BY <1>1
  <2> HIDE DEF x, y
  <2> QED
    BY <2>2, <2>3
<1> HIDE DEF ms, db, first
<1>3. db \in Seq(Nat) /\ Len(db) = m /\ Len(b) = olen /\ b \in Seq(Byte)
  BY <1>1, <1>2, BytesAreNumbers
<1>4. seed \in AllStrings(H) /\ mgf_mask(seed, db) = ms
  BY <1>1, <1>2, <1>3, MaskedIs
<1> HIDE DEF seed
<1>5. seed \in Seq(Nat)
  BY <1>1, <1>4, BytesAreNumbers
<1>6. plain \in AllStrings(m) /\ mgf_mask(plain, seed) = db
  <2> HIDE DEF m
  <2> QED
    BY <1>1, <1>2, <1>5, MaskedIs
<1> HIDE DEF plain
<1>7. Len(plain) = m
  BY <1>1, <1>6, BytesAreNumbers
<1>8. rest \in AllStrings(r) /\ plain = SubSeq(plain, 1, H) \o rest
  <2> HIDE DEF H, m, r
  <2>1. H \in Nat /\ r \in Nat /\ plain \in AllStrings(H + r) /\ m = H + r
    BY <1>1, <1>6
  <2>2. /\ SubSeq(plain, H + 1, H + r) \in AllStrings(r)
        /\ plain = SubSeq(plain, 1, H) \o SubSeq(plain, H + 1, H + r)
    BY ONLY <2>1, TwoParts
  <2> QED
    BY <2>1, <2>2
<1> HIDE DEF rest
<1>9. Len(rest) = r
  BY <1>1, <1>8, BytesAreNumbers
<1>10. b[1] = 0 /\ SubSeq(plain, 1, H) = lhash /\ rest[e] = 1
  <2>1. /\ SubSeq(b, 2, H + 1) = ms /\ SubSeq(b, H + 2, olen) = db /\ mgf_mask(ms, db) = seed
        /\ mgf_mask(db, seed) = plain /\ SubSeq(plain, H + 1, Len(plain)) = rest
    BY <1>7 DEF ms, db, seed, plain, rest
  <2>2. b[1] # 0 \/ SubSeq(plain, 1, H) # lhash \/ rest[e] # 1 => OaepUnpad(olen, b) = <<"INVALID_PADDING", <<>>>>
    BY <2>1, Zenon DEF OaepUnpad, H, e, lhash
  <2>3. <<"INVALID_PADDING", <<>>>>[1] = "INVALID_PADDING"
    OBVIOUS
  <2> QED
    BY <2>2, <2>3
<1> HIDE DEF r
<1>11. e \in 1..r /\ n \in Nat /\ msg \in AllStrings(n) /\ rest = Padded(k, msg)
  BY <1>1, <1>8, <1>10, FoundPadded
<1> HIDE DEF e, msg
<1>12. k \in Nat /\ k = olen - 2 * HashLen - 2 - n /\ n \in 0..(olen - 2 * HashLen - 2)
  BY <1>1, <1>11 DEF r
<1> HIDE DEF k, n
<1>13. OaepBlock(olen, seed, msg) = <<0>> \o ms \o db
  <2>1. LET d == mgf_mask(Hash(<<>>) \o Padded(k, msg), seed)
        IN  OaepBlock(olen, seed, msg) = <<0>> \o mgf_mask(seed, d) \o d
    <3>1. n \in Nat /\ seed \in AllStrings(HashLen)
      BY <1>4, <1>11
    <3> QED
      BY <1>11, <1>12, <3>1, OaepBlockIs
  <2>2. Hash(<<>>) \o Padded(k, msg) = plain
    BY <1>8, <1>10, <1>11 DEF lhash
  <2>3. OaepBlock(olen, seed, msg) = <<0>> \o mgf_mask(seed, mgf_mask(plain, seed)) \o mgf_mask(plain, seed)
    BY <2>1, <2>2
  <2> QED
    BY <1>4, <1>6, <2>3
<1>14. first = <<0>>
  <2>1. Len(first) = 1 /\ first[1] = b[1] /\ first \in Seq(Byte)
    BY <1>1, <1>3 DEF first
  <2> QED
    BY <1>10, <2>1
<1>15. b = OaepBlock(olen, seed, msg)
  BY <1>2, <1>13, <1>14
<1> QED
  BY <1>4, <1>11, <1>12, <1>15

-----------------------------------------------------------------------------
(* PSS *)

\* The length of the encoded message, and the bits of its first byte that are used.
EmLen(n) == (PssMsb(n) + BitsPerByte - 1) \div BitsPerByte
TopBits(n) == PssMsb(n) - (EmLen(n) - 1) * BitsPerByte

\* The length of the encoded block and the bits of its first byte.
LEMMA PssLengths ==
  ASSUME NEW n \in Nat, n > 1
  PROVE  /\ PssMsb(n) \in Nat /\ EmLen(n) \in Nat \ {0} /\ TopBits(n) \in 1..BitsPerByte
         /\ TopBits(n) = BitsPerByte - (BitsPerByte * EmLen(n) - PssMsb(n))
         /\ PssMsb(n) % BitsPerByte = 0
              => Size(n) = EmLen(n) + 1 /\ PssMsb(n) - (Size(n) - 1) * BitsPerByte = 0 /\ TopBits(n) = BitsPerByte
         /\ PssMsb(n) % BitsPerByte # 0
              => Size(n) = EmLen(n) /\ PssMsb(n) - (Size(n) - 1) * BitsPerByte = TopBits(n)
<1> DEFINE B == BitsPerByte
           msb == PssMsb(n)
           q == msb \div B
           r == msb % B
           q1 == q + 1
           r1 == r - 1
           b1 == B - 1
<1>1. B \in Nat \ {0}
  BY ScaleAssumption
<1>2. BitLen(n) \in Nat /\ msb \in Nat \ {0} /\ msb + 1 = BitLen(n)
  <2> DEFINE k == BitLen(n)
             two == 2
  <2>1. k \in Nat /\ Fits(n, k)
    BY BitLenIs
  <2> HIDE DEF k
  <2>2. k # 0 /\ k # 1
    <3>1. /\ Power(2, 0) = 1
          /\ \A m \in Nat : Power(2, m) \in Nat /\ Power(2, m) > m /\ Power(2, m + 1) = 2 * Power(2, m)
      BY PowersOfTwo
    <3>2. Power(2, 0 + 1) = 2 * Power(2, 0)
      BY <3>1
    <3>3. Power(2, 1) = 2
      BY <3>1, <3>2
    <3> QED
      BY <2>1, <3>1, <3>3 DEF Fits
  <2> QED
    BY <2>1, <2>2 DEF PssMsb, k
<1> HIDE DEF msb
<1>3. msb = B * q + r /\ r \in Nat /\ r < B /\ q \in Int
  BY <1>1, <1>2, Division
<1> HIDE DEF q, r, B
<1>4. q \in Nat
  <2> SUFFICES ASSUME q < 0 PROVE FALSE
    BY <1>3
  <2>1. B * q <= B * (-1)
    BY <1>1, <1>3
  <2> QED
    BY <1>1, <1>2, <1>3, <2>1
<1>5. EmLen(n) = (msb + B - 1) \div B /\ Size(n) = (msb + B) \div B /\ TopBits(n) = msb - (EmLen(n) - 1) * B
  BY <1>1, <1>2 DEF EmLen, Size, TopBits, msb, B
<1>6. CASE r = 0
  <2>1. msb + B - 1 = B * q + b1 /\ b1 \in Nat /\ b1 < B
    BY <1>1, <1>3, <1>6
  <2>2. (B * q + b1) \div B = q
    <3> HIDE DEF b1
    <3> QED
      BY <1>1, <1>3, <2>1, Quotient
  <2>3. msb + B = B * q1 + 0 /\ q1 \in Int /\ 0 \in Nat /\ 0 < B
    BY <1>1, <1>3, <1>6
  <2>4. (B * q1 + 0) \div B = q1
    <3> HIDE DEF q1
    <3> QED
      BY <1>1, <2>3, Quotient
  <2>5. EmLen(n) = q /\ Size(n) = q + 1
    BY <1>5, <2>1, <2>2, <2>3, <2>4
  <2>6. q # 0
    BY <1>1, <1>2, <1>3, <1>6
  <2>7. B * q = msb /\ q * B = msb /\ (q - 1) * B = msb - B
    BY <1>1, <1>3, <1>6
  <2>8. TopBits(n) = B
    BY <1>1, <1>2, <1>5, <2>5, <2>7
  <2>9. (Size(n) - 1) * B = msb
    BY <1>4, <2>5, <2>7
  <2> QED
    BY <1>1, <1>2, <1>4, <1>6, <2>5, <2>6, <2>7, <2>8, <2>9 DEF B, msb, r
<1>7. CASE r # 0
  <2>1. msb + B - 1 = B * q1 + r1 /\ q1 \in Int /\ r1 \in Nat /\ r1 < B
    BY <1>1, <1>3, <1>7
  <2>2. (B * q1 + r1) \div B = q1
    <3> HIDE DEF q1, r1
    <3> QED
      BY <1>1, <2>1, Quotient
  <2>3. msb + B = B * q1 + r
    BY <1>1, <1>3
  <2>4. (B * q1 + r) \div B = q1
    <3> HIDE DEF q1
    <3> QED
      BY <1>1, <1>3, <2>1, Quotient
  <2>5. EmLen(n) = q1 /\ Size(n) = q1
    BY <1>5, <2>1, <2>2, <2>3, <2>4
  <2>6. (q1 - 1) * B = msb - r /\ B * q1 = msb - r + B
    BY <1>1, <1>3
  <2>7. TopBits(n) = r
    BY <1>2, <1>3, <1>5, <2>5, <2>6
  <2>8. (Size(n) - 1) * B = msb - r
    BY <2>5, <2>6
  <2>9. EmLen(n) \in Nat \ {0} /\ TopBits(n) \in 1..B /\ Size(n) = EmLen(n)
    BY <1>1, <1>3, <1>4, <1>7, <2>5, <2>7
  <2>10. TopBits(n) = B - (B * EmLen(n) - msb)
    BY <1>1, <1>2, <1>3, <2>5, <2>6, <2>7
  <2>11. msb - (Size(n) - 1) * B = TopBits(n)
    BY <1>2, <1>3, <2>7, <2>8
  <2> QED
    BY <1>2, <1>7, <2>9, <2>10, <2>11 DEF B, msb, r
<1> QED
  BY <1>6, <1>7

\* Only the lowest e bits of the first byte are kept.
Cut(s, e) == [s EXCEPT ![1] = @ % Pow2(e)]

\* Powers of two are positive.
LEMMA PowersArePositive ==
  ASSUME NEW e \in Nat
  PROVE  Pow2(e) \in Nat \ {0} /\ (e # 0 => Pow2(e) > 1)
<1> DEFINE two == 2
<1>1. two \in Nat \ {0} /\ two = 2
  OBVIOUS
<1> HIDE DEF two
<1>2. Pow2(e) = Power(two, e)
  BY <1>1, Pow2Is
<1>3. \A n \in Nat : Power(two, n) \in Nat /\ Power(two, n) > n
  BY <1>1, PowersOfTwo
<1> QED
  BY <1>2, <1>3

\* A remainder changes nothing below the divisor.
LEMMA SmallRemainder ==
  ASSUME NEW x \in Nat, NEW m \in Nat \ {0}
  PROVE  x % m \in Nat /\ x % m < m /\ x % m <= x /\ (x < m => x % m = x)
OBVIOUS

\* Clearing the top bits of the first byte gives a string of the same length.
LEMMA CutIs ==
  ASSUME NEW n \in Nat \ {0}, NEW s \in AllStrings(n), NEW e \in Nat
  PROVE  /\ Cut(s, e) \in AllStrings(n) /\ Cut(s, e)[1] = s[1] % Pow2(e) /\ Cut(s, e)[1] < Pow2(e)
         /\ \A i \in 2..n : Cut(s, e)[i] = s[i]
<1> DEFINE p == Pow2(e)
           c == [s EXCEPT ![1] = @ % p]
<1>1. p \in Nat \ {0}
  BY PowersArePositive
<1> HIDE DEF p
<1>2. 1 \in 1..n /\ s[1] \in Byte /\ s \in [1..n -> Byte]
  BY DEF AllStrings
<1>3. s[1] % p \in Byte /\ s[1] % p < p
  <2>1. s[1] \in Nat
    BY <1>2, BitsAreBytes
  <2>2. s[1] % p \in Nat /\ s[1] % p < p /\ s[1] % p <= s[1]
    BY <1>1, <2>1, SmallRemainder
  <2> QED
    BY <1>2, <2>2, BaseIs DEF Byte
<1>4. c \in [1..n -> Byte] /\ c[1] = s[1] % p /\ \A i \in 2..n : c[i] = s[i]
  BY <1>2, <1>3
<1> QED
  BY <1>3, <1>4 DEF Cut, c, p, AllStrings

\* Masking twice cancels out also if the first byte is cut each time.
LEMMA CutTwice ==
  ASSUME HashRight, NEW src \in Seq(Nat), NEW n \in Nat \ {0}, NEW s \in AllStrings(n), NEW e \in 0..BitsPerByte,
         s[1] < Pow2(e)
  PROVE  /\ Cut(mgf_mask(s, src), e) \in AllStrings(n) /\ Cut(mgf_mask(s, src), e)[1] < Pow2(e)
         /\ Cut(mgf_mask(Cut(mgf_mask(s, src), e), src), e) = s
<1> DEFINE p == Pow2(e)
           a == mgf_mask(s, src)
           b == Cut(a, e)
           c == mgf_mask(b, src)
           d == Cut(c, e)
           m == Mask(src, 1)
<1>0. e \in Nat /\ n \in Nat
  BY ScaleAssumption
<1>1. p \in Nat \ {0}
  BY <1>0, PowersArePositive
<1>2. a \in AllStrings(n) /\ (\A i \in 1..n : a[i] = ExclusiveOr(s[i], Mask(src, i))) /\ mgf_mask(a, src) = s
  BY <1>0, MaskedIs
<1>3. mgf_mask(a, src) \in AllStrings(n) /\ \A i \in 1..n : mgf_mask(a, src)[i] = ExclusiveOr(a[i], Mask(src, i))
  <2> HIDE DEF a
  <2> QED
    BY <1>0, <1>2, MaskedIs
<1> HIDE DEF a
<1>4. \A i \in 1..n : s[i] = ExclusiveOr(a[i], Mask(src, i))
  BY <1>2, <1>3
<1>5. b \in AllStrings(n) /\ b[1] = a[1] % p /\ b[1] < p /\ \A i \in 2..n : b[i] = a[i]
  BY <1>0, <1>2, CutIs
<1> HIDE DEF b
<1>6. c \in AllStrings(n) /\ \A i \in 1..n : c[i] = ExclusiveOr(b[i], Mask(src, i))
  BY <1>0, <1>5, MaskedIs
<1> HIDE DEF c
<1>7. d \in AllStrings(n) /\ d[1] = c[1] % p /\ \A i \in 2..n : d[i] = c[i]
  BY <1>0, <1>6, CutIs
<1> HIDE DEF d
<1>8. d[1] = s[1]
  <2>1. 1 \in 1..n /\ 1 \in Nat \ {0}
    OBVIOUS
  <2>2. a[1] \in Byte /\ b[1] \in Byte /\ s[1] \in Byte /\ m \in Byte
    BY <1>2, <1>5, <2>1, MaskIs DEF AllStrings
  <2>3. c[1] = ExclusiveOr(b[1], m) /\ s[1] = ExclusiveOr(a[1], m)
    BY <1>4, <1>6, <2>1
  <2> HIDE DEF m
  <2> DEFINE a1 == a[1]
             b1 == b[1]
  <2>4. a1 \in Byte /\ b1 \in Byte /\ b1 = a1 % p
    BY <1>5, <2>2
  <2> HIDE DEF a1, b1
  <2>5. ExclusiveOr(b1, m) % p = ExclusiveOr(b1 % p, m % p)
    BY <2>2, <2>4, ExclusiveOrAssumption
  <2>6. ExclusiveOr(a1, m) % p = ExclusiveOr(a1 % p, m % p)
    BY <2>2, <2>4, ExclusiveOrAssumption
  <2>7. b1 % p = b1
    <3>1. b1 \in Nat /\ b1 < p
      BY <1>5, <2>4, BitsAreBytes DEF b1
    <3> HIDE DEF p
    <3> QED
      BY <1>1, <3>1, SmallRemainder
  <2>8. ExclusiveOr(b1, m) % p = ExclusiveOr(a1, m) % p
    BY <2>4, <2>5, <2>6, <2>7
  <2>9. s[1] % p = s[1]
    <3>1. s[1] \in Nat /\ s[1] < p
      BY <2>2, BitsAreBytes
    <3> HIDE DEF p
    <3> QED
      BY <1>1, <3>1, SmallRemainder
  <2>10. d[1] = ExclusiveOr(b1, m) % p /\ s[1] = ExclusiveOr(a1, m)
    BY <1>7, <2>3 DEF a1, b1
  <2> HIDE DEF p
  <2> QED
    BY <2>8, <2>9, <2>10
<1>9. ASSUME NEW i \in 1..n PROVE d[i] = s[i]
  <2>1. CASE i = 1
    BY <1>8, <2>1
  <2>2. CASE i # 1
    <3>1. i \in 2..n
      BY <2>2
    <3> QED
      BY <1>4, <1>5, <1>6, <1>7, <3>1
  <2> QED
    BY <2>1, <2>2
<1>10. d = s
  BY <1>0, <1>7, <1>9, SameString
<1> QED
  BY <1>5, <1>10 DEF d, c, b, a, p

\* The hash of a PSS block is a string.
LEMMA PssHashIs ==
  ASSUME HashRight, NEW digest \in Seq(Byte), NEW salt \in Seq(Byte)
  PROVE  PssHash(digest, salt) \in AllStrings(HashLen)
<1> DEFINE eight == 8
           z == Zeros(eight)
<1>1. eight \in Nat
  OBVIOUS
<1> HIDE DEF eight
<1>2. z \in AllStrings(eight)
  BY <1>1, ZerosAre
<1>3. z \in Seq(Byte)
  BY <1>1, <1>2, AllStringsAre
<1> HIDE DEF z
<1>4. z \in Seq(Nat) /\ digest \in Seq(Nat) /\ salt \in Seq(Nat)
  BY <1>3, BitsAreBytes
<1>5. z \o digest \o salt \in Seq(Nat)
  BY <1>4
<1>6. PssHash(digest, salt) = Hash(z \o digest \o salt)
  BY DEF PssHash, z, eight
<1> QED
  BY <1>5, <1>6 DEF HashRight

\* An encoded message of l bytes, e bits in the first one.
EmBlock(l, e, digest, salt) ==
  LET h == PssHash(digest, salt)
  IN  Cut(mgf_mask(Padded(l - Len(salt) - HashLen - 2, salt), h), e) \o h \o <<Trailer>>

\* The checks of an encoded message.
EmHash(em, l) == SubSeq(em, l - HashLen, l - 1)
EmPadded(em, l, e) == Cut(mgf_mask(SubSeq(em, 1, l - HashLen - 1), EmHash(em, l)), e)
EmSalt(em, l, e) == SubSeq(EmPadded(em, l, e), ZerosEnd(EmPadded(em, l, e)) + 1, Len(EmPadded(em, l, e)))
EmRight(em, l, e, digest, salt_len) ==
  /\ EmPadded(em, l, e)[ZerosEnd(EmPadded(em, l, e))] = 1
  /\ salt_len = -1 \/ Len(EmSalt(em, l, e)) = salt_len
  /\ PssHash(digest, EmSalt(em, l, e)) = EmHash(em, l)

\* The first byte of a string.
LEMMA OneOfString ==
  ASSUME NEW s \in Seq(Byte), NEW i \in 1..Len(s)
  PROVE  SubSeq(s, i, i) = <<s[i]>> /\ s[i] \in Byte
<1> DEFINE t == SubSeq(s, i, i)
<1>1. Len(t) = 1 /\ t[1] = s[i] /\ t \in Seq(Byte)
  OBVIOUS
<1> HIDE DEF t
<1>2. t = <<s[i]>>
  BY <1>1
<1> QED
  BY <1>2 DEF t

\* The three parts of an encoded message.
EmMadeOfParts(em, l, m) ==
  /\ SubSeq(em, 1, m) \in AllStrings(m) /\ SubSeq(em, 1, m)[1] = em[1]
  /\ EmHash(em, l) \in AllStrings(HashLen)
  /\ em[l] \in Byte /\ em = SubSeq(em, 1, m) \o EmHash(em, l) \o <<em[l]>>

\* These are its parts.
LEMMA EmParts ==
  ASSUME NEW l \in Nat, NEW m \in Nat \ {0}, m = l - HashLen - 1, NEW em \in AllStrings(l)
  PROVE  EmMadeOfParts(em, l, m)
<1> DEFINE H == HashLen
           one == 1
           s == SubSeq(em, 1, m)
           h == SubSeq(em, m + 1, m + H)
           t == SubSeq(em, m + H + 1, m + H + one)
<1>1. H \in Nat \ {0, 1} /\ H \in Nat /\ one \in Nat /\ l = m + H + one /\ m + 1 = l - H /\ m + H = l - 1
  BY ScaleAssumption
<1>2. s \in AllStrings(m) /\ h \in AllStrings(H) /\ t \in AllStrings(one) /\ em = s \o h \o t
  <2> HIDE DEF H, one
  <2>1. m \in Nat /\ H \in Nat /\ one \in Nat /\ em \in AllStrings(m + H + one)
    BY <1>1
  <2>2. MadeOfParts(em, m, H, one)
    BY ONLY <2>1, ThreeParts
  <2> QED
    BY <2>1, <2>2 DEF MadeOfParts
<1>3. h = EmHash(em, l)
  BY <1>1 DEF EmHash
<1>4. em \in Seq(Byte) /\ Len(em) = l
  BY BytesAreNumbers
<1>5. t = <<em[l]>> /\ em[l] \in Byte
  <2>1. t = SubSeq(em, l, l) /\ l \in 1..l
    BY <1>1
  <2>2. l \in 1..Len(em)
    BY <1>4, <2>1
  <2>3. SubSeq(em, l, l) = <<em[l]>> /\ em[l] \in Byte
    BY <1>4, <2>2, OneOfString
  <2> QED
    BY <2>1, <2>3
<1>6. s[1] = em[1]
  BY <1>1, <1>4
<1> QED
  BY <1>2, <1>3, <1>5, <1>6 DEF EmMadeOfParts

\* What PSS encodes passes the checks.
LEMMA EmDecodes ==
  ASSUME HashRight, NEW l \in Nat, NEW e \in 1..BitsPerByte, NEW n \in Nat, l >= n + HashLen + 2,
         NEW digest \in Seq(Byte), NEW salt \in AllStrings(n), NEW salt_len \in {-1, n}
  PROVE  LET em == EmBlock(l, e, digest, salt)
         IN  em \in AllStrings(l) /\ em[1] < Pow2(e) /\ em[l] = Trailer /\ EmRight(em, l, e, digest, salt_len)
<1> DEFINE H == HashLen
           k == l - n - H - 2
           m == k + 1 + n
           p == Padded(k, salt)
           h == PssHash(digest, salt)
           b == Cut(mgf_mask(p, h), e)
           t == <<Trailer>>
           one == 1
           em == b \o h \o t
<1>1. /\ H \in Nat /\ k \in Nat /\ m \in Nat \ {0} /\ m \in Nat /\ one \in Nat /\ l = m + H + one /\ m = l - H - 1
      /\ m + 1 = l - H /\ m + H = l - 1 /\ e \in Nat /\ e \in 0..BitsPerByte /\ e # 0
  BY ScaleAssumption
<1>2. salt \in Seq(Byte) /\ Len(salt) = n
  BY BytesAreNumbers
<1>3. h \in AllStrings(H)
  BY <1>2, PssHashIs
<1> HIDE DEF h
<1>4. h \in Seq(Nat)
  BY <1>1, <1>3, BytesAreNumbers
<1>5. EmBlock(l, e, digest, salt) = em
  BY <1>2 DEF EmBlock, h
<1>6. /\ p \in AllStrings(m) /\ (\A i \in 1..k : p[i] = 0) /\ p[k + 1] = 1
      /\ ZerosEnd(p) = k + 1 /\ SubSeq(p, k + 2, m) = salt
  <2>0. k \in Nat
    BY <1>1
  <2> HIDE DEF k
  <2>1. p \in AllStrings(m) /\ (\A i \in 1..k : p[i] = 0) /\ p[k + 1] = 1
    BY <2>0, PaddedIs
  <2>2. ZerosEnd(p) = k + 1 /\ SubSeq(p, k + 2, m) = salt
    BY <2>0, PaddedEnds
  <2> QED
    BY <2>1, <2>2
<1> HIDE DEF p
<1>7. p[1] < Pow2(e)
  <2>1. Pow2(e) > 1 /\ Pow2(e) \in Nat
    BY <1>1, PowersArePositive
  <2>2. p[1] = 0 \/ p[1] = 1
    <3>1. CASE k = 0
      <4>1. k + 1 = 1
        BY <3>1
      <4> QED
        BY <1>6, <4>1
    <3>2. CASE k # 0
      <4>1. 1 \in 1..k
        BY <1>1, <3>2
      <4> QED
        BY <1>6, <4>1
    <3> QED
      BY <3>1, <3>2
  <2> QED
    BY <1>1, <2>1, <2>2
<1> HIDE DEF k, m, H
<1>8. b \in AllStrings(m) /\ b[1] < Pow2(e) /\ Cut(mgf_mask(b, h), e) = p
  BY <1>1, <1>4, <1>6, <1>7, CutTwice
<1> HIDE DEF b
<1>9. t \in AllStrings(one) /\ t[1] = Trailer
  BY OneByte, BitsAreBytes
<1> HIDE DEF t, one
<1>10. InThree(em, m, H, one, b, h, t)
  BY ONLY <1>1, <1>3, <1>8, <1>9, ThreeStrings
<1> HIDE DEF em
<1>11. em \in AllStrings(l) /\ SubSeq(em, 1, m) = b /\ SubSeq(em, m + 1, m + H) = h /\ SubSeq(em, m + H + 1, l) = t
  BY <1>1, <1>10 DEF InThree
<1>12. em \in Seq(Byte) /\ Len(em) = l
  BY <1>11, BytesAreNumbers
<1>13. em[l] = Trailer
  <2>1. m + H + 1 = l /\ l \in 1..l
    BY <1>1 DEF one
  <2>2. l \in 1..Len(em)
    BY <1>12, <2>1
  <2>3. SubSeq(em, l, l) = <<em[l]>>
    BY <1>12, <2>2, OneOfString
  <2>4. <<em[l]>>[1] = em[l]
    OBVIOUS
  <2>5. SubSeq(em, l, l) = t
    BY <1>11, <2>1
  <2> QED
    BY <1>9, <2>3, <2>4, <2>5
<1>14. em[1] = b[1]
  <2>1. m >= 1 /\ m <= l
    BY <1>1 DEF one
  <2>2. SubSeq(em, 1, m)[1] = em[1]
    BY <1>1, <1>12, <2>1
  <2> QED
    BY <1>11, <2>2
<1>15. EmHash(em, l) = h
  BY <1>1, <1>11 DEF EmHash, H
<1>16. EmPadded(em, l, e) = p
  <2>1. SubSeq(em, 1, l - HashLen - 1) = b
    BY <1>1, <1>11 DEF H
  <2> QED
    BY <1>8, <1>15, <2>1 DEF EmPadded
<1>17. Len(p) = m
  BY <1>1, <1>6, BytesAreNumbers
<1>18. EmSalt(em, l, e) = salt
  <2>1. (k + 1) + 1 = k + 2
    BY <1>1
  <2>2. SubSeq(p, ZerosEnd(p) + 1, Len(p)) = salt
    BY <1>6, <1>17, <2>1
  <2> QED
    BY <1>16, <2>2 DEF EmSalt
<1>19. EmRight(em, l, e, digest, salt_len)
  BY <1>2, <1>6, <1>15, <1>16, <1>18 DEF EmRight, h
<1> QED
  BY <1>5, <1>8, <1>11, <1>13, <1>14, <1>19

\* An encoded message that passes the checks is one that PSS encodes.
LEMMA EmEncodes ==
  ASSUME HashRight, NEW l \in Nat, NEW e \in 1..BitsPerByte, l >= HashLen + 2,
         NEW digest \in Seq(Byte), NEW em \in AllStrings(l), em[1] < Pow2(e), em[l] = Trailer,
         EmRight(em, l, e, digest, -1)
  PROVE  \E n \in 0..(l - HashLen - 2) : \E salt \in AllStrings(n) : em = EmBlock(l, e, digest, salt)
<1> DEFINE H == HashLen
           m == l - H - 1
           s == SubSeq(em, 1, m)
           h == EmHash(em, l)
           a == mgf_mask(s, h)
           p == Cut(a, e)
           z == ZerosEnd(p)
           salt == SubSeq(p, z + 1, m)
           k == z - 1
           n == m - z
<1>1. H \in Nat /\ m \in Nat \ {0} /\ m \in Nat /\ e \in Nat /\ e \in 0..BitsPerByte /\ m = l - HashLen - 1
  BY ScaleAssumption
<1>2. /\ s \in AllStrings(m) /\ s[1] = em[1] /\ h \in AllStrings(H) /\ em = s \o h \o <<em[l]>>
  <2> HIDE DEF m
  <2>1. EmMadeOfParts(em, l, m)
    BY <1>1, EmParts
  <2> QED
    BY <2>1 DEF EmMadeOfParts
<1> HIDE DEF s, h, H
<1>3. h \in Seq(Nat)
  BY <1>1, <1>2, BytesAreNumbers
<1>4. EmPadded(em, l, e) = p
  BY DEF EmPadded, s, h, m, H
<1> HIDE DEF m
<1>5. p \in AllStrings(m) /\ Cut(mgf_mask(p, h), e) = s
  BY <1>1, <1>2, <1>3, CutTwice
<1> HIDE DEF p
<1>6. Len(p) = m
  BY <1>1, <1>5, BytesAreNumbers
<1>7. EmSalt(em, l, e) = salt
  BY <1>4, <1>6 DEF EmSalt
<1>8. p[z] = 1 /\ PssHash(digest, salt) = h
  BY <1>4, <1>7 DEF EmRight, h
<1>9. z \in 1..m /\ n \in Nat /\ salt \in AllStrings(n) /\ p = Padded(k, salt)
  BY <1>1, <1>5, <1>8, FoundPadded
<1> HIDE DEF z, salt
<1>10. n \in 0..(l - HashLen - 2) /\ k = l - n - HashLen - 2
  BY <1>1, <1>9 DEF H
<1>11. Len(salt) = n
  BY <1>9, BytesAreNumbers
<1> HIDE DEF k, n
<1>12. em = EmBlock(l, e, digest, salt)
  <2>1. EmBlock(l, e, digest, salt) = Cut(mgf_mask(p, h), e) \o h \o <<Trailer>>
    BY <1>8, <1>9, <1>10, <1>11 DEF EmBlock
  <2> QED
    BY <1>2, <1>5, <2>1
<1> QED
  BY <1>9, <1>10, <1>12

\* The lengths in the two cases that PSS tells apart.
LEMMA PssSizes ==
  ASSUME NEW n \in Nat, n > 1
  PROVE  /\ EmLen(n) \in Nat \ {0} /\ EmLen(n) \in Nat /\ TopBits(n) \in 1..BitsPerByte /\ TopBits(n) \in Nat
         /\ TopBits(n) \in 0..BitsPerByte /\ Size(n) \in Nat
         /\ \/ Size(n) = EmLen(n) + 1 /\ PssMsb(n) - (Size(n) - 1) * BitsPerByte = 0 /\ TopBits(n) = BitsPerByte
               /\ PssMsb(n) % BitsPerByte = 0
            \/ Size(n) = EmLen(n) /\ PssMsb(n) - (Size(n) - 1) * BitsPerByte = TopBits(n)
               /\ PssMsb(n) % BitsPerByte # 0
<1> DEFINE x == PssMsb(n) - (Size(n) - 1) * BitsPerByte
           r == PssMsb(n) % BitsPerByte
           y == BitsPerByte - (BitsPerByte * EmLen(n) - PssMsb(n))
<1>1. /\ EmLen(n) \in Nat \ {0} /\ TopBits(n) \in 1..BitsPerByte
      /\ r = 0 => Size(n) = EmLen(n) + 1 /\ x = 0 /\ TopBits(n) = BitsPerByte
      /\ r # 0 => Size(n) = EmLen(n) /\ x = TopBits(n)
  BY PssLengths
<1> HIDE DEF x, r
<1>2. BitsPerByte \in Nat
  BY ScaleAssumption
<1>3. /\ EmLen(n) \in Nat \ {0} /\ EmLen(n) \in Nat /\ TopBits(n) \in 1..BitsPerByte /\ TopBits(n) \in Nat
      /\ TopBits(n) \in 0..BitsPerByte /\ Size(n) \in Nat
  BY <1>1, <1>2
<1>4. \/ Size(n) = EmLen(n) + 1 /\ x = 0 /\ TopBits(n) = BitsPerByte /\ r = 0
      \/ Size(n) = EmLen(n) /\ x = TopBits(n) /\ r # 0
  BY <1>1
<1> QED
  BY <1>3, <1>4 DEF x, r

\* The block of RFC 8017 is an encoded message, after a zero if the message is shorter.
LEMMA RfcBlockIs ==
  ASSUME HashRight, NEW n \in Nat, n > 1, NEW k \in Nat, NEW salt \in AllStrings(k), NEW digest \in Seq(Byte),
         EmLen(n) >= k + HashLen + 2
  PROVE  RfcBlock(PssMsb(n), Size(n), digest, salt)
           = Zeros(Size(n) - EmLen(n)) \o EmBlock(EmLen(n), TopBits(n), digest, salt)
<1> DEFINE l == EmLen(n)
           e == TopBits(n)
           olen == Size(n)
           z == Zeros(olen - l)
           h == PssHash(digest, salt)
           p == Padded(l - k - HashLen - 2, salt)
           q == Zeros(l - k - HashLen - 2) \o <<1>> \o salt
           c == Cut(mgf_mask(p, h), e)
           t == <<Trailer>>
<1>1. olen \in Nat /\ l \in Nat /\ (olen = l \/ olen = l + 1) /\ HashLen \in Nat /\ e \in Nat
  BY PssSizes, ScaleAssumption
<1>15. e = BitsPerByte - (BitsPerByte * l - PssMsb(n))
  BY PssLengths
<1>2. Len(salt) = k /\ salt \in Seq(Byte)
  BY BytesAreNumbers
<1>3. h \in AllStrings(HashLen)
  BY <1>2, PssHashIs
<1> HIDE DEF h
<1>4. h \in Seq(Nat) /\ h \in Seq(Byte)
  BY <1>1, <1>3, BytesAreNumbers
<1>5. q = p
  BY DEF Padded
<1>6. c \in Seq(Byte)
  <2> DEFINE j == l - k - HashLen - 2
             m == j + 1 + k
  <2>1. j \in Nat /\ m \in Nat \ {0} /\ m \in Nat
    BY <1>1
  <2>2. p \in AllStrings(m)
    <3>1. p = Padded(j, salt)
      OBVIOUS
    <3> HIDE DEF j
    <3> QED
      BY <2>1, <3>1, PaddedIs
  <2> HIDE DEF p, j, m
  <2>3. mgf_mask(p, h) \in AllStrings(m)
    BY <1>4, <2>1, <2>2, MaskedIs
  <2>4. c \in AllStrings(m)
    BY <1>1, <2>1, <2>3, CutIs
  <2> QED
    BY <2>1, <2>4, BytesAreNumbers
<1>7. t \in Seq(Byte)
  BY BitsAreBytes
<1>8. z \in Seq(Byte)
  <2> DEFINE j == olen - l
  <2>1. j \in Nat
    BY <1>1
  <2> HIDE DEF j
  <2>2. Zeros(j) \in AllStrings(j)
    BY <2>1, ZerosAre
  <2> QED
    BY <2>1, <2>2, BytesAreNumbers DEF j
<1>9. RfcBlock(PssMsb(n), olen, digest, salt) = z \o c \o h \o t
  <2> DEFINE e2 == BitsPerByte - (BitsPerByte * l - PssMsb(n))
             masked == mgf_mask(q, h)
  <2>1. [masked EXCEPT ![1] = @ % Pow2(e2)] = c
    BY <1>5, <1>15 DEF Cut
  <2>2. l - Len(salt) - HashLen - 2 = l - k - HashLen - 2
    BY <1>2
  <2>3. mgf_mask(Zeros(l - Len(salt) - HashLen - 2) \o <<1>> \o salt, h) = masked
    BY <2>2
  <2> HIDE DEF masked, c
  <2> QED
    BY <2>1, <2>3 DEF RfcBlock, EmLen, h
<1>10. EmBlock(l, e, digest, salt) = c \o h \o t
  BY <1>2 DEF EmBlock, h
<1> HIDE DEF z, c, t
<1>11. Joined(Joined(z, c), h) = Joined(z, Joined(c, h)) /\ Joined(c, h) \in Seq(Byte)
  BY <1>4, <1>6, <1>8, StringsAssociate
<1>12. Joined(Joined(z, Joined(c, h)), t) = Joined(z, Joined(Joined(c, h), t))
  BY <1>7, <1>8, <1>11, StringsAssociate
<1>13. Joined(Joined(Joined(z, c), h), t) = Joined(z, Joined(Joined(c, h), t))
  BY <1>11, <1>12
<1>14. z \o c \o h \o t = z \o (c \o h \o t)
  BY <1>13 DEF Joined
<1> QED
  BY <1>9, <1>10, <1>14 DEF z

\* The checks of a block, with its encoded message.
LEMMA PssUnpadIs ==
  ASSUME NEW n \in Nat, n > 1, NEW buf \in AllStrings(Size(n)), EmLen(n) >= HashLen + 2,
         NEW digest, NEW salt_len
  PROVE  LET l    == EmLen(n)
             rest == SubSeq(buf, 1, Size(n) - l)
             em   == SubSeq(buf, Size(n) - l + 1, Size(n))
         IN  /\ em \in AllStrings(l) /\ buf = rest \o em
             /\ PssUnpad(n, buf, digest, salt_len) = "ok" <=>
                  /\ rest = Zeros(Size(n) - l) /\ em[1] < Pow2(TopBits(n)) /\ em[l] = Trailer
                  /\ EmRight(em, l, TopBits(n), digest, salt_len)
<1> DEFINE l == EmLen(n)
           e == TopBits(n)
           olen == Size(n)
           j == olen - l
           rest == SubSeq(buf, 1, j)
           em == SubSeq(buf, j + 1, olen)
           x == PssMsb(n) - (olen - 1) * BitsPerByte
           top == buf[1] \div Pow2(x)
           siglen == IF PssMsb(n) % BitsPerByte = 0 THEN Len(buf) - 1 ELSE Len(buf)
<1>1. /\ l \in Nat \ {0} /\ l \in Nat /\ e \in 1..BitsPerByte /\ olen \in Nat /\ olen = j + l /\ HashLen \in Nat
      /\ BitsPerByte \in Nat /\ e \in Nat
  <2>1. l \in Nat \ {0} /\ l \in Nat /\ e \in 1..BitsPerByte /\ olen \in Nat /\ e \in Nat
    BY PssSizes
  <2>2. HashLen \in Nat /\ BitsPerByte \in Nat
    BY ScaleAssumption
  <2> HIDE DEF l, e, olen
  <2>3. olen = j + l
    BY <2>1
  <2> QED
    BY <2>1, <2>2, <2>3
<1>2. \/ j = 1 /\ x = 0 /\ e = BitsPerByte /\ PssMsb(n) % BitsPerByte = 0
      \/ j = 0 /\ x = e /\ PssMsb(n) % BitsPerByte # 0
  BY PssSizes
<1>3. Len(buf) = olen /\ buf \in Seq(Byte) /\ buf \in AllStrings(olen)
  BY <1>1, BytesAreNumbers
<1>4. siglen = l
  BY <1>1, <1>2, <1>3
<1> HIDE DEF siglen, x, l, e
<1>5. j \in Nat /\ j \in {0, 1}
  BY <1>2
<1> HIDE DEF j, olen
<1>6. rest \in AllStrings(j) /\ em \in AllStrings(l) /\ buf = rest \o em
  <2> DEFINE y == SubSeq(buf, j + 1, j + l)
  <2>1. buf \in AllStrings(j + l)
    BY <1>1, <1>3
  <2>2. y = em
    BY <1>1
  <2>3. rest \in AllStrings(j) /\ y \in AllStrings(l) /\ buf = rest \o y
    BY ONLY <1>1, <1>5, <2>1, TwoParts
  <2> QED
    BY <2>2, <2>3
<1>7. em[l] = buf[olen] /\ em[1] = buf[j + 1] /\ em[1] \in Byte
  <2>1. l \in 1..l /\ 1 \in 1..l /\ olen - (j + 1) + 1 = l /\ j + 1 \in Nat /\ 1 <= j + 1 /\ j + 1 <= olen + 1
        /\ olen <= olen
    BY <1>1, <1>5
  <2> DEFINE a == j + 1
             u == SubSeq(buf, a, olen)
  <2>2. u \in AllStrings(olen - a + 1) /\ \A i \in 1..(olen - a + 1) : u[i] = buf[a + i - 1]
    <3>1. a \in Nat /\ 1 <= a /\ a <= olen + 1 /\ olen <= olen
      BY <2>1
    <3> HIDE DEF a
    <3> QED
      BY <1>1, <1>3, <3>1, PartOfString
  <2>3. a + l - 1 = olen /\ a + 1 - 1 = a /\ olen - a + 1 = l /\ u = em
    BY <1>1, <1>5
  <2> HIDE DEF em, a, u
  <2>4. em[l] = buf[a + l - 1] /\ em[1] = buf[a + 1 - 1]
    BY <2>1, <2>2, <2>3
  <2>5. em[1] \in Byte
    BY <1>6, <2>1 DEF AllStrings
  <2> QED
    BY <2>3, <2>4, <2>5 DEF a
<1>8. top = 0 <=> rest = Zeros(j) /\ em[1] < Pow2(e)
  <2>1. CASE j = 0
    <3>1. rest = <<>> /\ Zeros(j) = <<>>
      BY <1>3, <2>1 DEF Zeros
    <3>2. buf[1] = em[1] /\ buf[1] \in Nat
      <4>1. j + 1 = 1
        BY <2>1
      <4> HIDE DEF em
      <4> QED
        BY <1>7, <4>1, BitsAreBytes
    <3>3. x = e
      BY <1>2, <2>1
    <3>4. Pow2(e) \in Nat \ {0}
      BY <1>1, PowersArePositive
    <3> DEFINE a == buf[1]
               b == Pow2(e)
    <3>5. a \in Nat /\ b \in Nat \ {0}
      BY <3>2, <3>4
    <3> HIDE DEF a, b
    <3>6. a \div b = 0 <=> a < b
      BY <3>5
    <3> QED
      BY <3>1, <3>2, <3>3, <3>6 DEF a, b
  <2>2. CASE j = 1
    <3>1. x = 0 /\ e = BitsPerByte
      BY <1>2, <2>2
    <3>2. Pow2(x) = 1
      BY <3>1, Pow2Is, PowersOfTwo
    <3>3. em[1] < Pow2(e)
      BY <1>7, <3>1, BitsAreBytes
    <3>4. 1 \in 1..Len(buf)
      BY <1>1, <1>3, <1>5
    <3>5. rest = <<buf[1]>> /\ buf[1] \in Nat
      BY <1>3, <2>2, <3>4, OneOfString, BitsAreBytes
    <3>6. Zeros(j) = <<0>>
      BY <2>2 DEF Zeros
    <3>7. top = buf[1]
      BY <3>2, <3>5
    <3>8. rest = Zeros(j) <=> buf[1] = 0
      BY <3>5, <3>6
    <3> QED
      BY <3>3, <3>7, <3>8
  <2> QED
    BY <1>5, <2>1, <2>2
<1>9. PssUnpad(n, buf, digest, salt_len) =
        IF buf[olen] # Trailer THEN "INVALID_PADDING"
        ELSE IF top # 0 \/ l < HashLen + 2 THEN "BAD_INPUT_DATA"
        ELSE IF EmPadded(em, l, e)[ZerosEnd(EmPadded(em, l, e))] # 1 \/ (salt_len # -1 /\ Len(EmSalt(em, l, e)) # salt_len)
        THEN "INVALID_PADDING"
        ELSE IF PssHash(digest, EmSalt(em, l, e)) # EmHash(em, l) THEN "VERIFY_FAILED" ELSE "ok"
  <2> DEFINE em0     == SubSeq(buf, Len(buf) - siglen + 1, Len(buf))
             h0      == SubSeq(em0, siglen - HashLen, siglen - 1)
             masked0 == mgf_mask(SubSeq(em0, 1, siglen - HashLen - 1), h0)
             db0     == [masked0 EXCEPT ![1] = @ % Pow2(PssMsb(n) - (siglen - 1) * BitsPerByte)]
             one0    == ZerosEnd(db0)
             salt0   == SubSeq(db0, one0 + 1, Len(db0))
             top0    == buf[1] \div Pow2(PssMsb(n) - (Len(buf) - 1) * BitsPerByte)
  <2>1. PssUnpad(n, buf, digest, salt_len) =
          IF buf[Len(buf)] # Trailer THEN "INVALID_PADDING"
          ELSE IF top0 # 0 \/ siglen < HashLen + 2 THEN "BAD_INPUT_DATA"
          ELSE IF db0[one0] # 1 \/ (salt_len # -1 /\ Len(salt0) # salt_len) THEN "INVALID_PADDING"
          ELSE IF PssHash(digest, salt0) # h0 THEN "VERIFY_FAILED" ELSE "ok"
    BY Zenon DEF PssUnpad, siglen
  <2>2. em0 = em
    <3>1. Len(buf) - siglen + 1 = j + 1
      BY <1>1, <1>3, <1>4, <1>5
    <3> QED
      BY <1>3, <3>1
  <2> HIDE DEF em0, em
  <2>3. h0 = EmHash(em, l)
    BY <1>4, <2>2 DEF EmHash
  <2> HIDE DEF h0
  <2>4. db0 = EmPadded(em, l, e)
    <3>1. masked0 = mgf_mask(SubSeq(em, 1, l - HashLen - 1), EmHash(em, l))
      BY <1>4, <2>2, <2>3
    <3>2. PssMsb(n) - (siglen - 1) * BitsPerByte = e
      BY <1>4 DEF l, e, TopBits
    <3> HIDE DEF masked0
    <3> QED
      BY <3>1, <3>2 DEF EmPadded, Cut
  <2> HIDE DEF db0
  <2>5. one0 = ZerosEnd(EmPadded(em, l, e))
    BY <2>4
  <2>6. salt0 = EmSalt(em, l, e)
    BY <2>4, <2>5 DEF EmSalt
  <2>7. top0 = top
    BY <1>3 DEF x, olen
  <2> HIDE DEF one0, salt0, top0, top
  <2> QED
    BY <1>3, <1>4, <2>1, <2>3, <2>4, <2>5, <2>6, <2>7
<1>10. ~(l < HashLen + 2)
  BY <1>1 DEF l
<1>11. PssUnpad(n, buf, digest, salt_len) = "ok" <=>
         /\ rest = Zeros(j) /\ em[1] < Pow2(e) /\ em[l] = Trailer
         /\ EmRight(em, l, e, digest, salt_len)
  <2> HIDE DEF em, top, rest
  <2>1. PssUnpad(n, buf, digest, salt_len) = "ok" <=>
          /\ buf[olen] = Trailer /\ top = 0
          /\ EmPadded(em, l, e)[ZerosEnd(EmPadded(em, l, e))] = 1
          /\ (salt_len = -1 \/ Len(EmSalt(em, l, e)) = salt_len)
          /\ PssHash(digest, EmSalt(em, l, e)) = EmHash(em, l)
    BY <1>9, <1>10
  <2> QED
    BY <1>7, <1>8, <2>1 DEF EmRight
<1> QED
  BY <1>6, <1>11 DEF em, rest, j, l, e, olen

\* The blocks of RFC 8017 are accepted ...
LEMMA RfcAccepted ==
  ASSUME HashRight, NEW n \in Nat, n > 1, NEW k \in Nat, NEW salt \in AllStrings(k), NEW digest \in Seq(Byte),
         EmLen(n) >= k + HashLen + 2, NEW salt_len \in {-1, k}
  PROVE  LET b == RfcBlock(PssMsb(n), Size(n), digest, salt)
         IN  b \in AllStrings(Size(n)) /\ PssUnpad(n, b, digest, salt_len) = "ok"
<1> DEFINE l == EmLen(n)
           e == TopBits(n)
           olen == Size(n)
           j == olen - l
           z == Zeros(j)
           em == EmBlock(l, e, digest, salt)
           b == z \o em
<1>1. RfcBlock(PssMsb(n), Size(n), digest, salt) = b
  BY RfcBlockIs
<1>2. l \in Nat /\ e \in 1..BitsPerByte /\ olen \in Nat /\ (olen = l \/ olen = l + 1) /\ HashLen \in Nat
  BY PssSizes, ScaleAssumption
<1>3. j \in Nat /\ olen = j + l /\ l >= k + HashLen + 2 /\ l >= HashLen + 2
  BY <1>2
<1>4. em \in AllStrings(l) /\ em[1] < Pow2(e) /\ em[l] = Trailer /\ EmRight(em, l, e, digest, salt_len)
  <2> HIDE DEF l, e
  <2> QED
    BY <1>2, <1>3, EmDecodes
<1> HIDE DEF em, j
<1>5. z \in AllStrings(j)
  BY <1>3, ZerosAre
<1> HIDE DEF z, l, olen
<1>6. InTwo(b, j, l, z, em)
  BY <1>2, <1>3, <1>4, <1>5, TwoStrings
<1> HIDE DEF b
<1>7. b \in AllStrings(olen) /\ SubSeq(b, 1, j) = z /\ SubSeq(b, j + 1, olen) = em
  BY <1>3, <1>6 DEF InTwo
<1>8. PssUnpad(n, b, digest, salt_len) = "ok" <=>
        /\ SubSeq(b, 1, olen - l) = Zeros(olen - l) /\ SubSeq(b, olen - l + 1, olen)[1] < Pow2(TopBits(n))
        /\ SubSeq(b, olen - l + 1, olen)[l] = Trailer
        /\ EmRight(SubSeq(b, olen - l + 1, olen), l, TopBits(n), digest, salt_len)
  BY <1>3, <1>7, PssUnpadIs DEF l, olen
<1>9. olen - l = j
  BY DEF j
<1>10. PssUnpad(n, b, digest, salt_len) = "ok"
  BY <1>4, <1>7, <1>8, <1>9 DEF z
<1> QED
  BY <1>1, <1>7, <1>10 DEF olen

\* ... and no others.
LEMMA AcceptedRfc ==
  ASSUME HashRight, NEW n \in Nat, n > 1, EmLen(n) >= HashLen + 2, NEW digest \in Seq(Byte),
         NEW b \in AllStrings(Size(n)), PssUnpad(n, b, digest, -1) = "ok"
  PROVE  \E k \in 0..(EmLen(n) - HashLen - 2) : \E salt \in AllStrings(k) :
           b = RfcBlock(PssMsb(n), Size(n), digest, salt)
<1> DEFINE l == EmLen(n)
           e == TopBits(n)
           olen == Size(n)
           rest == SubSeq(b, 1, olen - l)
           em == SubSeq(b, olen - l + 1, olen)
           minus == -1
<1>1. /\ em \in AllStrings(l) /\ b = rest \o em
      /\ PssUnpad(n, b, digest, minus) = "ok" <=>
           /\ rest = Zeros(olen - l) /\ em[1] < Pow2(e) /\ em[l] = Trailer
           /\ EmRight(em, l, e, digest, minus)
  <2> HIDE DEF minus
  <2> QED
    BY PssUnpadIs
<1> HIDE DEF rest, em
<1>2. rest = Zeros(olen - l) /\ em[1] < Pow2(e) /\ em[l] = Trailer /\ EmRight(em, l, e, digest, -1)
  BY <1>1
<1>3. l \in Nat /\ e \in 1..BitsPerByte /\ l >= HashLen + 2 /\ HashLen \in Nat
  BY PssSizes, ScaleAssumption
<1> HIDE DEF l, e
<1>4. PICK k \in 0..(l - HashLen - 2) : \E salt \in AllStrings(k) : em = EmBlock(l, e, digest, salt)
  BY <1>1, <1>2, <1>3, EmEncodes
<1>5. PICK salt \in AllStrings(k) : em = EmBlock(l, e, digest, salt)
  BY <1>4
<1>6. k \in Nat /\ l >= k + HashLen + 2
  BY <1>3, <1>4
<1>7. RfcBlock(PssMsb(n), olen, digest, salt) = Zeros(olen - l) \o EmBlock(l, e, digest, salt)
  BY <1>6, RfcBlockIs DEF l, e
<1>8. b = RfcBlock(PssMsb(n), olen, digest, salt)
  BY <1>1, <1>2, <1>5, <1>7
<1> QED
  BY <1>4, <1>5, <1>8 DEF l

\* What is signed is a block of RFC 8017, unless a modulus of a whole number of bytes and one
\* bit has no byte to spare.
LEMMA PssBlockIs ==
  ASSUME HashRight, NEW n \in Nat, n > 1, NEW k \in Nat, NEW salt \in AllStrings(k), NEW digest \in Seq(Byte),
         EmLen(n) >= k + HashLen + 2
  PROVE  PssBlock(n, Size(n), digest, salt) = RfcBlock(PssMsb(n), Size(n), digest, salt)
<1> DEFINE l == EmLen(n)
           e == TopBits(n)
           olen == Size(n)
           h == PssHash(digest, salt)
           i == l - k - HashLen - 2
           t == <<Trailer>>
           x == PssMsb(n) - (olen - 1) * BitsPerByte
           offset == IF PssMsb(n) % BitsPerByte = 0 THEN 1 ELSE 0
           db == Zeros(olen - HashLen - Len(salt) - 2) \o <<1>> \o salt
           masked == SubSeq(db, 1, offset) \o mgf_mask(SubSeq(db, offset + 1, Len(db)), h)
           p == Padded(i, salt)
           m == i + 1 + k
           a == mgf_mask(p, h)
           c == Cut(a, e)
<1>1. /\ l \in Nat /\ e \in 1..BitsPerByte /\ olen \in Nat /\ HashLen \in Nat /\ BitsPerByte \in Nat /\ e \in Nat
      /\ \/ olen = l + 1 /\ x = 0 /\ e = BitsPerByte /\ offset = 1
         \/ olen = l /\ x = e /\ offset = 0
  BY PssSizes, ScaleAssumption
<1> HIDE DEF x, offset, l, e, olen
<1>2. i \in Nat /\ m \in Nat \ {0} /\ m \in Nat
  <2>1. l >= k + HashLen + 2 /\ k \in Nat
    BY DEF l
  <2> QED
    BY ONLY <1>1, <2>1
<1>3. salt \in Seq(Byte) /\ Len(salt) = k
  BY BytesAreNumbers
<1>4. h \in AllStrings(HashLen)
  BY <1>3, PssHashIs
<1> HIDE DEF h
<1>5. h \in Seq(Nat) /\ h \in Seq(Byte)
  BY <1>1, <1>4, BytesAreNumbers
<1>6. p \in AllStrings(m)
  <2> HIDE DEF i
  <2> QED
    BY <1>2, PaddedIs
<1> HIDE DEF m
<1>7. a \in AllStrings(m)
  BY <1>2, <1>5, <1>6, MaskedIs
<1>8. PssBlock(n, olen, digest, salt) = [masked EXCEPT ![1] = @ % Pow2(x)] \o h \o t
  BY DEF PssBlock, h, x, offset
<1>9. RfcBlock(PssMsb(n), olen, digest, salt) = Zeros(olen - l) \o (c \o h \o t)
  <2>1. RfcBlock(PssMsb(n), olen, digest, salt) = Zeros(olen - l) \o EmBlock(l, e, digest, salt)
    BY RfcBlockIs DEF l, e, olen
  <2>2. EmBlock(l, e, digest, salt) = c \o h \o t
    BY <1>3 DEF EmBlock, h
  <2> QED
    BY <2>1, <2>2
<1>10. c \in AllStrings(m) /\ c[1] = a[1] % Pow2(e) /\ \A q \in 2..m : c[q] = a[q]
  <2> HIDE DEF a
  <2> QED
    BY <1>1, <1>2, <1>7, CutIs
<1>11. c \in Seq(Byte) /\ a \in Seq(Byte) /\ Len(a) = m /\ Len(p) = m /\ p \in Seq(Byte)
  <2> HIDE DEF a, c
  <2> QED
    BY <1>2, <1>6, <1>7, <1>10, BytesAreNumbers
<1>12. CASE olen = l
  <2>1. x = e /\ offset = 0
    BY <1>1, <1>12
  <2>2. db = p
    <3>1. olen - HashLen - Len(salt) - 2 = i
      BY <1>1, <1>3, <1>12
    <3> QED
      BY <3>1 DEF Padded
  <2>3. masked = a
    <3>1. SubSeq(db, 1, offset) = <<>> /\ SubSeq(db, offset + 1, Len(db)) = p
      <4> HIDE DEF db, p
      <4> QED
        BY <1>11, <2>1, <2>2
    <3>2. masked = <<>> \o a
      <4> HIDE DEF db, p
      <4> QED
        BY <3>1
    <3> HIDE DEF masked, a
    <3> QED
      BY <1>11, <3>2
  <2>4. Zeros(olen - l) = <<>>
    BY <1>1, <1>12 DEF Zeros
  <2>5. [masked EXCEPT ![1] = @ % Pow2(x)] = c
    <3> HIDE DEF a, masked
    <3> QED
      BY <2>1, <2>3 DEF Cut
  <2>6. <<>> \o (c \o h \o t) = c \o h \o t
    <3>1. t \in Seq(Byte)
      BY BitsAreBytes
    <3> HIDE DEF c, t
    <3>2. c \o h \o t \in Seq(Byte)
      BY <1>5, <1>11, <3>1
    <3> QED
      BY <3>2
  <2> HIDE DEF c, masked
  <2> QED
    BY <1>8, <1>9, <2>4, <2>5, <2>6 DEF olen
<1>13. CASE olen = l + 1
  <2>1. x = 0 /\ offset = 1 /\ e = BitsPerByte
    BY <1>1, <1>13
  <2> DEFINE o == <<0>>
             i1 == i + 1
             zero == Zeros(i1) \o <<1>> \o salt
  <2>2. i1 \in Nat /\ olen - HashLen - Len(salt) - 2 = i1 /\ i1 - 1 = i
    BY <1>1, <1>2, <1>3, <1>13
  <2>3. db = Padded(i1, salt)
    BY <2>2 DEF Padded
  <2>4. /\ db \in AllStrings(i1 + 1 + k) /\ (\A q \in 1..i1 : db[q] = 0) /\ db[i1 + 1] = 1
        /\ \A q \in 1..k : db[i1 + 1 + q] = salt[q]
    <3> HIDE DEF i1, i, db
    <3>1. i1 \in Nat /\ k \in Nat /\ salt \in AllStrings(k)
      BY <2>2
    <3>2. /\ Padded(i1, salt) \in AllStrings(i1 + 1 + k) /\ (\A q \in 1..i1 : Padded(i1, salt)[q] = 0)
          /\ Padded(i1, salt)[i1 + 1] = 1 /\ \A q \in 1..k : Padded(i1, salt)[i1 + 1 + q] = salt[q]
      BY ONLY <3>1, PaddedIs
    <3> QED
      BY ONLY <2>3, <3>2
  <2>5. /\ p \in AllStrings(i + 1 + k) /\ (\A q \in 1..i : p[q] = 0) /\ p[i + 1] = 1
        /\ \A q \in 1..k : p[i + 1 + q] = salt[q]
    <3> HIDE DEF i
    <3>1. i \in Nat /\ k \in Nat /\ salt \in AllStrings(k)
      BY <1>2
    <3> QED
      BY ONLY <3>1, PaddedIs
  <2> HIDE DEF db, p
  <2> DEFINE m1 == m + 1
  <2>6. /\ m1 \in Nat /\ i1 + 1 + k = m1 /\ m = i + 1 + k /\ db \in AllStrings(m1) /\ db \in Seq(Byte) /\ Len(db) = m1
        /\ 1 + m <= m1 /\ m1 = 1 + m /\ 1 \in Nat
    <3>1. m1 \in Nat /\ i1 + 1 + k = m1 /\ m = i + 1 + k
      BY <1>2 DEF m
    <3>2. db \in AllStrings(m1)
      BY <2>4, <3>1
    <3> HIDE DEF m1
    <3>3. db \in Seq(Byte) /\ Len(db) = m1
      BY <3>1, <3>2, BytesAreNumbers
    <3> QED
      BY <1>2, <3>1, <3>2, <3>3 DEF m1
  <2>7. \A q \in 1..m : db[1 + q] = p[q]
    <3> SUFFICES ASSUME NEW q \in 1..m PROVE db[1 + q] = p[q]
      OBVIOUS
    <3>1. CASE q <= i
      <4>1. 1 + q \in 1..i1 /\ q \in 1..i
        BY <1>2, <3>1
      <4> QED
        BY <2>4, <2>5, <4>1
    <3>2. CASE q = i + 1
      <4>1. 1 + q = i1 + 1
        BY <1>2, <3>2
      <4> QED
        BY <2>4, <2>5, <3>2, <4>1
    <3>3. CASE q > i + 1
      <4> DEFINE r == q - (i + 1)
      <4>1. r \in 1..k /\ i1 + 1 + r = 1 + q /\ i + 1 + r = q
        <5>1. i \in Nat /\ m = i + 1 + k /\ q \in Nat /\ q <= m
          BY <1>2, <2>6
        <5> HIDE DEF i
        <5> QED
          BY <3>3, <5>1
      <4> HIDE DEF r, i1, i
      <4> QED
        BY <2>4, <2>5, <4>1
    <3> QED
      BY <1>2, <3>1, <3>2, <3>3
  <2>8. SubSeq(db, 2, Len(db)) = p
    <3> DEFINE one == 1
    <3>1. one \in Nat /\ one + m <= m1 /\ \A q \in 1..m : db[one + q] = p[q]
      BY <2>6, <2>7
    <3> HIDE DEF one
    <3>2. SubSeq(db, one + 1, one + m) = p
      <4> HIDE DEF m1
      <4> QED
        BY <1>2, <1>6, <2>6, <3>1, PartIs
    <3> QED
      BY <2>6, <3>2 DEF one
  <2>9. SubSeq(db, 1, 1) = <<0>>
    <3>1. 1 \in 1..Len(db) /\ 1 \in 1..i1
      BY <1>2, <2>6
    <3>2. db[1] = 0
      BY <2>4, <3>1
    <3> QED
      BY <2>6, <3>1, <3>2, OneOfString
  <2>10. masked = o \o a
    <3>1. offset + 1 = 2
      BY <2>1
    <3>2. mgf_mask(SubSeq(db, offset + 1, Len(db)), h) = a
      BY <2>8, <3>1
    <3>3. SubSeq(db, 1, offset) = o
      BY <2>1, <2>9
    <3> HIDE DEF a, o
    <3> QED
      BY <3>2, <3>3
  <2>11. c = a
    <3>1. 1 \in 1..m
      BY <1>2
    <3>2. a[1] \in Byte
      BY <1>7, <3>1 DEF AllStrings
    <3>3. a[1] \in Nat /\ a[1] < Pow2(e) /\ Pow2(e) \in Nat \ {0}
      BY <1>1, <2>1, <3>2, BitsAreBytes, PowersArePositive
    <3> DEFINE u == a[1]
               w == Pow2(e)
    <3>4. u \in Nat /\ u < w /\ w \in Nat \ {0}
      BY <3>3
    <3> HIDE DEF u, w
    <3>5. u % w = u
      BY <3>4, SmallRemainder
    <3>6. c[1] = a[1]
      BY <1>10, <3>5 DEF u, w
    <3> HIDE DEF a, c
    <3>7. ASSUME NEW q \in 1..m PROVE c[q] = a[q]
      <4>1. CASE q = 1
        BY <3>6, <4>1
      <4>2. CASE q # 1
        <5>1. q \in 2..m
          BY <4>2
        <5> QED
          BY <1>10, <5>1
      <4> QED
        BY <4>1, <4>2
    <3> QED
      BY <1>2, <1>7, <1>10, <3>7, SameString
  <2>12. [masked EXCEPT ![1] = @ % Pow2(x)] = o \o c
    <3> HIDE DEF a, c
    <3> DEFINE oa == o \o a
    <3>1. o \in AllStrings(1) /\ o[1] = 0 /\ 1 \in Nat
      BY OneByte, BitsAreBytes
    <3>2. oa \in AllStrings(1 + m) /\ oa[1] = 0 /\ 1 + m \in Nat \ {0}
      <4>1. o \in Seq(Byte) /\ Len(o) = 1
        BY BitsAreBytes
      <4>2. oa \in Seq(Byte) /\ Len(oa) = 1 + m /\ oa[1] = 0
        BY <1>11, <4>1
      <4> DEFINE m2 == 1 + m
      <4>3. m2 \in Nat /\ m2 \in Nat \ {0} /\ Len(oa) = m2
        BY <1>2, <4>2
      <4> HIDE DEF m2, oa
      <4>4. oa \in AllStrings(m2)
        BY <4>2, <4>3, AllStringsAre
      <4> QED
        BY <4>2, <4>3, <4>4 DEF m2
    <3> HIDE DEF oa, o
    <3>3. Pow2(x) = 1
      BY <2>1, Pow2Is, PowersOfTwo
    <3>4. [oa EXCEPT ![1] = @ % Pow2(x)] = oa
      <4>1. oa \in [1..(1 + m) -> Byte] /\ oa[1] % Pow2(x) = oa[1]
        BY <3>2, <3>3 DEF AllStrings
      <4> QED
        BY <4>1
    <3> HIDE DEF masked
    <3> QED
      BY <2>10, <2>11, <3>4 DEF oa
  <2>13. Zeros(olen - l) = o
    BY <1>1, <1>13 DEF Zeros
  <2>14. o \o c \o h \o t = o \o (c \o h \o t)
    <3>1. t \in Seq(Byte) /\ o \in Seq(Byte)
      BY BitsAreBytes
    <3> HIDE DEF c, t, o
    <3>2. Joined(Joined(o, c), h) = Joined(o, Joined(c, h)) /\ Joined(c, h) \in Seq(Byte)
      BY <1>5, <1>11, <3>1, StringsAssociate
    <3>3. Joined(Joined(o, Joined(c, h)), t) = Joined(o, Joined(Joined(c, h), t))
      BY <3>1, <3>2, StringsAssociate
    <3>4. Joined(Joined(Joined(o, c), h), t) = Joined(o, Joined(Joined(c, h), t))
      BY <3>2, <3>3
    <3> QED
      BY <3>4 DEF Joined
  <2> HIDE DEF c, masked, o
  <2> QED
    BY <1>8, <1>9, <2>12, <2>13, <2>14 DEF olen
<1> QED
  BY <1>1, <1>12, <1>13

\* The moduli of keys.
LEMMA ModulusIs ==
  ASSUME NEW key \in Keys
  PROVE  key.N \in Nat /\ key.N > 1 /\ Size(key.N) \in Nat
<1>1. key.P \in Nat /\ key.Q \in Nat /\ Prime(key.P) /\ Prime(key.Q) /\ key.N = key.P * key.Q
  BY KeysAssumption, PrimeIs
<1>2. key.N \in Nat /\ key.N > 1
  BY <1>1, PrimesProduct
<1> QED
  BY <1>2, SizeIs

\* The lengths that PaddingExact quantifies over.
LEMMA KeyLengthIs ==
  ASSUME NEW length \in KeyLengths
  PROVE  /\ length[1] \in Nat /\ length[1] > 1 /\ length[2] = Size(length[1]) /\ length[2] \in Nat
         /\ length[2] >= 2 * HashLen + 2 /\ EmLen(length[1]) >= HashLen + 2
<1>1. PICK key \in Keys : Size(key.N) >= 2 * HashLen + 2 /\ length = <<key.N, Size(key.N)>>
  BY DEF KeyLengths
<1>2. key.N \in Nat /\ key.N > 1 /\ Size(key.N) \in Nat
  BY ModulusIs
<1>3. EmLen(key.N) \in Nat /\ (Size(key.N) = EmLen(key.N) + 1 \/ Size(key.N) = EmLen(key.N))
  BY <1>2, PssSizes
<1>4. HashLen \in Nat /\ HashLen > 1
  BY ScaleAssumption
<1>5. length[1] = key.N /\ length[2] = Size(key.N)
  BY <1>1
<1> QED
  BY <1>1, <1>2, <1>3, <1>4, <1>5

\* OAEP accepts what it can make.
LEMMA OaepExact ==
  ASSUME HashRight PROVE OaepAcceptsEncodings
<1>1. ASSUME NEW olen \in {length[2] : length \in KeyLengths}
      PROVE  LET Room == UNION {AllStrings(n) : n \in 0..(olen - 2 * HashLen - 2)}
                 made == {<<OaepBlock(olen, seed, m), m>> : seed \in AllStrings(HashLen), m \in Room}
                 sent == {pair[1] : pair \in made}
             IN  /\ \A pair \in made : OaepUnpad(olen, pair[1]) = <<"ok", pair[2]>>
                 /\ \A b \in AllStrings(olen) : OaepUnpad(olen, b)[1] = "ok" => b \in sent
  <2> DEFINE Room == UNION {AllStrings(n) : n \in 0..(olen - 2 * HashLen - 2)}
             made == {<<OaepBlock(olen, seed, m), m>> : seed \in AllStrings(HashLen), m \in Room}
             sent == {pair[1] : pair \in made}
  <2>0. PICK length \in KeyLengths : olen = length[2]
    OBVIOUS
  <2>1. olen \in Nat /\ olen >= 2 * HashLen + 2 /\ HashLen \in Nat
    BY <2>0, KeyLengthIs, ScaleAssumption
  <2>2. ASSUME NEW pair \in made PROVE OaepUnpad(olen, pair[1]) = <<"ok", pair[2]>>
    <3>1. PICK seed \in AllStrings(HashLen), m \in Room : pair = <<OaepBlock(olen, seed, m), m>>
      BY <2>2
    <3>2. PICK n \in 0..(olen - 2 * HashLen - 2) : m \in AllStrings(n)
      BY <3>1
    <3>3. n \in Nat /\ OaepRoom(olen, n)
      BY <2>1, <3>2 DEF OaepRoom
    <3>4. OaepUnpad(olen, OaepBlock(olen, seed, m)) = <<"ok", m>>
      BY <2>1, <3>2, <3>3, OaepDecodes
    <3> QED
      BY <3>1, <3>4
  <2>3. ASSUME NEW b \in AllStrings(olen), OaepUnpad(olen, b)[1] = "ok" PROVE b \in sent
    <3>1. PICK n \in 0..(olen - 2 * HashLen - 2) : \E seed \in AllStrings(HashLen), m \in AllStrings(n) :
            b = OaepBlock(olen, seed, m)
      BY <2>1, <2>3, OaepEncodes
    <3>2. PICK seed \in AllStrings(HashLen), m \in AllStrings(n) : b = OaepBlock(olen, seed, m)
      BY <3>1
    <3>3. m \in Room
      BY <3>1, <3>2
    <3> DEFINE pair == <<OaepBlock(olen, seed, m), m>>
    <3>4. pair \in made /\ pair[1] = b
      BY <3>2, <3>3
    <3> HIDE DEF pair, made
    <3> QED
      BY <3>4
  <2> HIDE DEF made, sent
  <2>4. (\A pair \in made : OaepUnpad(olen, pair[1]) = <<"ok", pair[2]>>)
        /\ \A b \in AllStrings(olen) : OaepUnpad(olen, b)[1] = "ok" => b \in sent
    BY <2>2, <2>3
  <2> QED
    BY <2>4 DEF made, sent
<1> QED
  BY <1>1, SMT DEF OaepAcceptsEncodings

\* PSS accepts the blocks of RFC 8017.
LEMMA PssExact ==
  ASSUME HashRight PROVE PssAcceptsRfc
<1>1. ASSUME NEW length \in KeyLengths, NEW digest \in Digests
      PROVE  {b \in AllStrings(length[2]) : PssUnpad(length[1], b, digest, -1) = "ok"}
               = RfcBlocks(PssMsb(length[1]), length[2], digest)
  <2> DEFINE n == length[1]
             Salt == UNION {AllStrings(k) : k \in 0..(EmLen(n) - HashLen - 2)}
             minus == -1
  <2>1. n \in Nat /\ n > 1 /\ length[2] = Size(n) /\ EmLen(n) >= HashLen + 2 /\ digest \in Seq(Byte)
    BY KeyLengthIs, ArgumentsAssumption
  <2> HIDE DEF n
  <2>2. HashLen \in Nat /\ EmLen(n) \in Nat
    BY <2>1, ScaleAssumption, PssSizes
  <2>3. RfcBlocks(PssMsb(n), Size(n), digest) = {RfcBlock(PssMsb(n), Size(n), digest, salt) : salt \in Salt}
    BY Zenon DEF RfcBlocks, EmLen
  <2>4. ASSUME NEW salt \in Salt
        PROVE  LET b == RfcBlock(PssMsb(n), Size(n), digest, salt)
               IN  b \in AllStrings(Size(n)) /\ PssUnpad(n, b, digest, minus) = "ok"
    <3>1. PICK k \in 0..(EmLen(n) - HashLen - 2) : salt \in AllStrings(k)
      BY <2>4
    <3>2. k \in Nat /\ EmLen(n) >= k + HashLen + 2 /\ minus \in {-1, k}
      BY <2>2, <3>1
    <3> HIDE DEF minus
    <3> QED
      BY <2>1, <3>1, <3>2, RfcAccepted
  <2>5. ASSUME NEW b \in AllStrings(Size(n)), PssUnpad(n, b, digest, minus) = "ok"
        PROVE  \E salt \in Salt : b = RfcBlock(PssMsb(n), Size(n), digest, salt)
    <3>1. \E k \in 0..(EmLen(n) - HashLen - 2) : \E salt \in AllStrings(k) :
            b = RfcBlock(PssMsb(n), Size(n), digest, salt)
      BY <2>1, <2>5, AcceptedRfc
    <3> QED
      BY <3>1
  <2> HIDE DEF Salt, minus
  <2>6. {b \in AllStrings(Size(n)) : PssUnpad(n, b, digest, minus) = "ok"}
          = {RfcBlock(PssMsb(n), Size(n), digest, salt) : salt \in Salt}
    BY <2>4, <2>5
  <2> QED
    BY <2>1, <2>3, <2>6 DEF n, minus
<1> QED
  BY <1>1, Zenon DEF PssAcceptsRfc

\* Whatever the hash function, OAEP accepts the blocks that it can make and no other, and
\* gives back their messages; PSS accepts the blocks of RFC 8017 and no other.
THEOREM PaddingsExact ==
  ASSUME HashRight PROVE Spec => []PaddingExact
<1>1. PaddingExact
  BY OaepExact, PssExact DEF PaddingExact
<1> QED
  BY <1>1, PTL

-----------------------------------------------------------------------------
(* What is encrypted or signed, and what comes back *)

\* What encryption and signing give out, and from which block.
Encrypted(c, out, text) ==
  /\ text \in Messages /\ OaepRoom(c.len, Len(text))
  /\ \E seed \in RandomString(HashLen) :
       /\ ~(Number(OaepBlock(c.len, seed, text)) >= c.N)
       /\ out = PowMod(Number(OaepBlock(c.len, seed, text)), c.E, c.N)
Signed(c, out, text) ==
  /\ text \in Digests /\ c.len >= 2 * HashLen
  /\ \E salt \in RandomString(PssSaltLen(c.len)) :
       /\ Number(PssBlock(c.N, c.len, text, salt)) < c.N
       /\ out = PowMod(Number(PssBlock(c.N, c.len, text, salt)), c.D, c.N)

\* The power by one exponent of an accepted key is undone by the other one.
LEMMA PowModUndone ==
  ASSUME NEW c \in Contexts, Accepted(c), NEW x \in Nat, x < c.N
  PROVE  /\ PowMod(x, c.E, c.N) \in Nat /\ PowMod(x, c.E, c.N) < c.N
         /\ PowMod(PowMod(x, c.E, c.N), c.D, c.N) = x
         /\ PowMod(x, c.D, c.N) \in Nat /\ PowMod(x, c.D, c.N) < c.N
         /\ PowMod(PowMod(x, c.D, c.N), c.E, c.N) = x
<1> DEFINE n == c.N
           e == c.E
           d == c.D
           y == PowMod(x, e, n)
           z == PowMod(x, d, n)
<1>1. n \in Nat \ {0} /\ e \in Nat /\ d \in Nat /\ x \in Int
  BY AcceptedNumbers
<1> HIDE DEF n, e, d
<1>2. y = Power(x, e) % n
  BY <1>1, PowModIs
<1>3. z = Power(x, d) % n
  BY <1>1, PowModIs
<1>4. Power(x, e) \in Int
  BY <1>1, PowerRule
<1>5. Power(x, d) \in Int
  BY <1>1, PowerRule
<1> HIDE DEF y, z
<1>6. y \in Nat /\ y < n /\ Congruent(n, y, Power(x, e))
  BY <1>1, <1>2, <1>4, Division, CongruentToRemainder
<1>7. z \in Nat /\ z < n /\ Congruent(n, z, Power(x, d))
  BY <1>1, <1>3, <1>5, Division, CongruentToRemainder
<1>8. PowMod(y, c.D, c.N) = x
  BY <1>6, KeyUndoes DEF n, e
<1>9. PowMod(z, c.E, c.N) = x
  BY <1>7, KeyUndoes DEF n, d
<1> QED
  BY <1>6, <1>7, <1>8, <1>9 DEF y, z, n, e, d

\* A random string is a string of the length asked for.
LEMMA RandomStringIs ==
  ASSUME NEW k \in Nat, NEW s \in RandomString(k)
  PROVE  s \in AllStrings(k)
<1>1. s \in Seq(Byte) /\ Len(s) = k
  BY ArgumentsAssumption DEF RandomString
<1> QED
  BY <1>1, SequenceString DEF AllStrings

\* Decrypting with the private exponent gives back the block and its message.
LEMMA EncryptionUndone ==
  ASSUME HashRight, NEW c \in Contexts, Accepted(c), NEW out, NEW text, Encrypted(c, out, text)
  PROVE  /\ out \in Nat /\ out < c.N
         /\ OaepUnpad(c.len, Bytes(PowMod(out, c.D, c.N), c.len)) = <<"ok", text>>
<1>1. PICK seed \in RandomString(HashLen) :
        /\ ~(Number(OaepBlock(c.len, seed, text)) >= c.N)
        /\ out = PowMod(Number(OaepBlock(c.len, seed, text)), c.E, c.N)
  BY DEF Encrypted
<1> DEFINE block == OaepBlock(c.len, seed, text)
           num == Number(block)
           k == Len(text)
           olen == c.len
<1>2. HashLen \in Nat /\ seed \in AllStrings(HashLen)
  BY ScaleAssumption, RandomStringIs
<1>3. text \in Seq(Byte) /\ k \in Nat /\ OaepRoom(olen, k)
  BY ArgumentsAssumption DEF Encrypted
<1>4. text \in AllStrings(k)
  BY <1>3, SequenceString DEF AllStrings
<1>5. olen \in Nat
  BY DEF Contexts
<1> HIDE DEF k, olen
<1>6. OaepBlock(olen, seed, text) \in AllStrings(olen) /\ OaepUnpad(olen, OaepBlock(olen, seed, text)) = <<"ok", text>>
  BY <1>2, <1>3, <1>4, <1>5, OaepDecodes
<1>7. block \in AllStrings(olen) /\ OaepUnpad(olen, block) = <<"ok", text>>
  BY <1>6 DEF olen
<1> HIDE DEF block
<1>8. block \in Seq(Byte) /\ Len(block) = olen
  BY <1>5, <1>7, BytesAreNumbers
<1>9. num \in Nat /\ Bytes(num, olen) = block
  BY <1>8, BytesOfNumber
<1>10. c.N \in Nat /\ num < c.N /\ out = PowMod(num, c.E, c.N)
  BY <1>1, <1>9, AcceptedNumbers DEF block
<1> HIDE DEF num
<1>11. out \in Nat /\ out < c.N /\ PowMod(out, c.D, c.N) = num
  BY <1>9, <1>10, PowModUndone
<1> QED
  BY <1>7, <1>9, <1>11 DEF olen

\* The salt that is chosen leaves room for the block.
LEMMA SaltFits ==
  ASSUME NEW n \in Nat, n > 1, Size(n) >= 2 * HashLen, HasRoom(n, Size(n))
  PROVE  PssSaltLen(Size(n)) \in Nat /\ EmLen(n) >= PssSaltLen(Size(n)) + HashLen + 2
<1> DEFINE olen == Size(n)
           k == PssSaltLen(olen)
<1>1. HashLen \in Nat /\ HashLen >= 2
  BY ScaleAssumption
<1>2. /\ olen \in Nat /\ EmLen(n) \in Nat
      /\ \/ olen = EmLen(n) + 1 /\ PssMsb(n) % BitsPerByte = 0
         \/ olen = EmLen(n)
  BY PssSizes
<1>3. PssMsb(n) % BitsPerByte # 0 \/ olen > 2 * HashLen + 2
  BY DEF HasRoom
<1>4. olen >= 2 * HashLen
  OBVIOUS
<1>5. k = IF olen >= 2 * HashLen + 2 THEN HashLen ELSE olen - HashLen - 2
  BY DEF PssSaltLen
<1> HIDE DEF olen, k
<1>6. k \in Nat /\ EmLen(n) >= k + HashLen + 2
  BY <1>1, <1>2, <1>3, <1>4, <1>5
<1> QED
  BY <1>6 DEF k, olen

\* A block that PSS makes, when there is room for it.
LEMMA PssBlockVerifies ==
  ASSUME HashRight, NEW n \in Nat, n > 1, Size(n) >= 2 * HashLen, HasRoom(n, Size(n)),
         NEW digest \in Digests, NEW salt \in RandomString(PssSaltLen(Size(n)))
  PROVE  LET block == PssBlock(n, Size(n), digest, salt)
         IN  /\ Number(block) \in Nat /\ Bytes(Number(block), Size(n)) = block
             /\ \A salt_len \in {-1, PssSaltLen(Size(n))} : PssUnpad(n, block, digest, salt_len) = "ok"
<1> DEFINE olen == Size(n)
           k == PssSaltLen(olen)
           block == PssBlock(n, olen, digest, salt)
           rfc == RfcBlock(PssMsb(n), olen, digest, salt)
<1>1. k \in Nat /\ EmLen(n) >= k + HashLen + 2
  BY SaltFits
<1>2. olen \in Nat /\ digest \in Seq(Byte)
  BY PssSizes, ArgumentsAssumption
<1> HIDE DEF k
<1>3. salt \in AllStrings(k)
  BY <1>1, RandomStringIs DEF k
<1>4. block = rfc
  BY <1>1, <1>2, <1>3, PssBlockIs
<1>5. ASSUME NEW salt_len \in {-1, k} PROVE rfc \in AllStrings(olen) /\ PssUnpad(n, rfc, digest, salt_len) = "ok"
  BY <1>1, <1>2, <1>3, RfcAccepted
<1> HIDE DEF olen, block, rfc
<1>6. block \in AllStrings(olen) /\ \A salt_len \in {-1, k} : PssUnpad(n, block, digest, salt_len) = "ok"
  <2>1. k \in {-1, k}
    OBVIOUS
  <2> QED
    BY <1>4, <1>5, <2>1
<1>7. block \in Seq(Byte) /\ Len(block) = olen
  BY <1>2, <1>6, BytesAreNumbers
<1>8. Number(block) \in Nat /\ Bytes(Number(block), olen) = block
  BY <1>7, BytesOfNumber
<1> QED
  BY <1>6, <1>8 DEF block, olen, k

\* A signature made by the private exponent is accepted.
LEMMA SignatureVerifies ==
  ASSUME HashRight, NEW c \in Contexts, Accepted(c), HasRoom(c.N, c.len), NEW out, NEW text, Signed(c, out, text),
         NEW salt_len \in {-1, PssSaltLen(c.len)}
  PROVE  /\ ~(out >= c.N)
         /\ PssUnpad(c.N, Bytes(PowMod(out, c.E, c.N), c.len), text, salt_len) = "ok"
<1>1. PICK salt \in RandomString(PssSaltLen(c.len)) :
       /\ Number(PssBlock(c.N, c.len, text, salt)) < c.N
       /\ out = PowMod(Number(PssBlock(c.N, c.len, text, salt)), c.D, c.N)
  BY DEF Signed
<1> DEFINE n == c.N
           block == PssBlock(n, Size(n), text, salt)
           num == Number(block)
<1>2. c.len = Size(c.N)
  BY DEF Accepted, mbedtls_rsa_check_privkey, rsa_check_context
<1>3. n \in Nat /\ n > 1
  BY AcceptedNumbers
<1>4. text \in Digests /\ Size(n) >= 2 * HashLen /\ HasRoom(n, Size(n))
  BY <1>2 DEF Signed
<1>5. salt \in RandomString(PssSaltLen(Size(n))) /\ salt_len \in {-1, PssSaltLen(Size(n))}
  BY <1>2
<1>6. num < n /\ out = PowMod(num, c.D, c.N)
  BY <1>1, <1>2
<1> HIDE DEF n
<1>7. num \in Nat /\ Bytes(num, Size(n)) = block /\ PssUnpad(n, block, text, salt_len) = "ok"
  BY <1>3, <1>4, <1>5, PssBlockVerifies
<1> HIDE DEF num, block
<1>8. out \in Nat /\ out < n /\ PowMod(out, c.E, c.N) = num
  BY <1>6, <1>7, PowModUndone DEF n
<1>9. ~(out >= n)
  BY <1>3, <1>8
<1> QED
  BY <1>2, <1>7, <1>8, <1>9 DEF n

\* The invariant of what was encrypted or signed last.
Made ==
  /\ last.op = "encrypt" /\ last.ret = "ok" => Encrypted(ctx, last.out, last.text)
  /\ last.op = "sign" /\ last.ret = "ok" /\ mbedtls_rsa_check_privkey(ctx) /\ HasRoom(ctx.N, ctx.len)
       => Signed(ctx, last.out, last.text)

\* The text that an operation records.
LEMMA TextIs ==
  ASSUME NEW ran, NEW rng, NEW op, NEW ret, NEW in, NEW out, NEW text, Leave(ran, rng, op, ret, in, out, text)
  PROVE  last'.text = text
BY DEF Leave

\* The steps that concern the paddings.
LEMMA PaddingSteps ==
  ASSUME [Next]_vars
  PROVE  \/ UNCHANGED <<ctx, last, spoiled>>
         \/ mbedtls_rsa_pkcs1_encrypt \/ mbedtls_rsa_pkcs1_decrypt
         \/ mbedtls_rsa_pkcs1_sign \/ mbedtls_rsa_pkcs1_verify
         \/ last'.op \notin {"encrypt", "decrypt", "sign", "verify"}
<1> DEFINE Ops == {"import", "complete", "gen_key", "check_privkey", "export", "set_padding", "free"}
           Others == last'.op \notin {"encrypt", "decrypt", "sign", "verify"}
<1>1. CASE UNCHANGED vars
  BY <1>1 DEF vars
<1>2. CASE \/ mbedtls_rsa_import \/ mbedtls_rsa_complete \/ mbedtls_rsa_gen_key \/ Check
           \/ mbedtls_rsa_export \/ mbedtls_rsa_set_padding \/ mbedtls_rsa_free
  <2>1. \E op \in Ops : \E ret, in : last' = Outcome(op, ret, in, 0)
    <3>1. CASE mbedtls_rsa_import
      BY <3>1, Zenon DEF mbedtls_rsa_import
    <3>2. CASE mbedtls_rsa_complete
      <4>1. \E ret : last' = Outcome("complete", ret, 0, 0)
        BY <3>2, Zenon DEF mbedtls_rsa_complete
      <4> QED
        BY <4>1
    <3>3. CASE mbedtls_rsa_gen_key
      BY <3>3, Zenon DEF mbedtls_rsa_gen_key
    <3>4. CASE Check
      BY <3>4, Zenon DEF Check
    <3>5. CASE mbedtls_rsa_export
      BY <3>5, Zenon DEF mbedtls_rsa_export
    <3>6. CASE mbedtls_rsa_set_padding
      BY <3>6, Zenon DEF mbedtls_rsa_set_padding
    <3>7. CASE mbedtls_rsa_free
      BY <3>7, Zenon DEF mbedtls_rsa_free
    <3> QED
      BY <1>2, <3>1, <3>2, <3>3, <3>4, <3>5, <3>6, <3>7
  <2>2. ASSUME NEW op \in Ops, NEW ret, NEW in, last' = Outcome(op, ret, in, 0) PROVE Others
    BY <2>2 DEF Outcome
  <2> QED
    BY <2>1, <2>2
<1>3. CASE mbedtls_rsa_copy
  BY <1>3 DEF Outcome, mbedtls_rsa_copy, Copied
<1>4. CASE Public
  <2>1. PICK ran, ret, in, out, text : Leave(ran, FALSE, "public", ret, in, out, text)
    BY <1>4 DEF Public
  <2> QED
    BY <2>1, LeaveIs
<1>5. CASE Private
  <2>1. PICK ran, rng, ret, in, out, text : Leave(ran, rng, "private", ret, in, out, text)
    BY <1>5 DEF Private
  <2> QED
    BY <2>1, LeaveIs
<1> QED
  BY <1>1, <1>2, <1>3, <1>4, <1>5 DEF Next

\* What was made concerns the key only.
LEMMA MadeSame ==
  ASSUME NEW b, NEW c, SameKey(b, c), NEW out, NEW text
  PROVE  /\ Encrypted(b, out, text) <=> Encrypted(c, out, text)
         /\ Signed(b, out, text) <=> Signed(c, out, text)
         /\ HasRoom(b.N, b.len) <=> HasRoom(c.N, c.len)
<1>1. b.N = c.N /\ b.E = c.E /\ b.D = c.D /\ b.len = c.len
  BY DEF SameKey
<1> QED
  BY <1>1 DEF Encrypted, Signed

\* Encryption establishes the invariant.
LEMMA EncryptMakes ==
  ASSUME IInv, mbedtls_rsa_pkcs1_encrypt, last'.op # "v15"
  PROVE  /\ last'.op = "encrypt"
         /\ last'.ret = "ok" => Encrypted(ctx', last'.out, last'.text)
<1>1. ctx.padding # "V15"
  <2>1. last' # Outcome("v15", "chip", 0, 0)
    BY DEF Outcome
  <2> QED
    BY <2>1 DEF mbedtls_rsa_pkcs1_encrypt
<1>2. PICK rng \in BOOLEAN, seed \in RandomString(HashLen), msg \in Messages :
          LET ran == mbedtls_rsa_rsaes_oaep_encrypt(ctx, rng, seed, msg)
          IN  Leave(ran, FALSE, "encrypt", ran.ret, 0, ran.out, msg)
  BY <1>1 DEF mbedtls_rsa_pkcs1_encrypt
<1> DEFINE ran == mbedtls_rsa_rsaes_oaep_encrypt(ctx, rng, seed, msg)
           num == Number(OaepBlock(ctx.len, seed, msg))
<1>3. Leaves(ctx, ran)
  BY UsableFacts, PublicLeaves, RefusedLeaves DEF mbedtls_rsa_rsaes_oaep_encrypt
<1>4. ran.ret = "ok" => OaepRoom(ctx.len, Len(msg)) /\ ~(num >= ctx.N) /\ ran.out = PowMod(num, ctx.E, ctx.N)
  <2> DEFINE refused == Ran(ctx, "BAD_INPUT_DATA", 0, FALSE, FALSE)
             raised == mbedtls_rsa_public(ctx, num)
  <2>1. ran = IF ~rng \/ ~ctx.hash \/ ~OaepRoom(ctx.len, Len(msg)) THEN refused ELSE raised
    BY DEF mbedtls_rsa_rsaes_oaep_encrypt
  <2>2. refused.ret # "ok"
    BY DEF Ran
  <2> HIDE DEF num, ran, refused
  <2>3. raised.ret = "ok" => ~(num >= ctx.N) /\ raised.out = PowMod(num, ctx.E, ctx.N)
    BY DEF mbedtls_rsa_public, Ran
  <2> HIDE DEF raised
  <2> QED
    BY <2>1, <2>2, <2>3
<1>5. Leave(ran, FALSE, "encrypt", ran.ret, 0, ran.out, msg)
  BY <1>2
<1>6. ran.ret = "ok" => Encrypted(ctx, ran.out, msg)
  <2> HIDE DEF ran
  <2> QED
    BY <1>4 DEF Encrypted
<1> HIDE DEF ran
<1>7. ctx' = ran.c /\ last'.op = "encrypt" /\ last'.ret = ran.ret /\ last'.out = ran.out /\ last'.text = msg
  BY <1>5, LeaveIs, TextIs
<1>8. SameKey(ctx', ctx)
  BY <1>3, <1>7 DEF Leaves
<1> QED
  BY <1>6, <1>7, <1>8, MadeSame

\* So does signing.
LEMMA SignMakes ==
  ASSUME HashRight, IInv, mbedtls_rsa_pkcs1_sign, last'.op # "v15"
  PROVE  /\ last'.op = "sign"
         /\ last'.ret = "ok" /\ mbedtls_rsa_check_privkey(ctx') /\ HasRoom(ctx'.N, ctx'.len)
              => Signed(ctx', last'.out, last'.text)
<1>1. ctx.padding # "V15"
  <2>1. last' # Outcome("v15", "chip", 0, 0)
    BY DEF Outcome
  <2> QED
    BY <2>1 DEF mbedtls_rsa_pkcs1_sign
<1> DEFINE Strings == IF ctx.len < 2 * HashLen THEN {<<>>} ELSE RandomString(PssSaltLen(ctx.len))
<1>2. PICK rng \in BOOLEAN, digest \in Digests : \E salt \in Strings :
         \E ran \in mbedtls_rsa_rsassa_pss_sign(ctx, rng, digest, salt) :
           Leave(ran, rng, "sign", ran.ret, 0, ran.out, digest)
  BY <1>1 DEF mbedtls_rsa_pkcs1_sign
<1>3. PICK salt \in Strings : \E ran \in mbedtls_rsa_rsassa_pss_sign(ctx, rng, digest, salt) :
           Leave(ran, rng, "sign", ran.ret, 0, ran.out, digest)
  BY <1>2
<1>4. PICK ran \in mbedtls_rsa_rsassa_pss_sign(ctx, rng, digest, salt) :
           Leave(ran, rng, "sign", ran.ret, 0, ran.out, digest)
  BY <1>3
<1> DEFINE num == Number(PssBlock(ctx.N, ctx.len, digest, salt))
<1>5. \/ ran = Ran(ctx, "BAD_INPUT_DATA", 0, FALSE, FALSE)
      \/ ~(ctx.len < 2 * HashLen) /\ ran \in mbedtls_rsa_private(ctx, rng, num)
  BY DEF mbedtls_rsa_rsassa_pss_sign
<1>6. Leaves(ctx, ran)
  BY <1>5, UsableFacts, PrivateLeaves, RefusedLeaves
<1>7. ctx' = ran.c /\ last'.op = "sign" /\ last'.ret = ran.ret /\ last'.out = ran.out /\ last'.text = digest
  BY <1>4, LeaveIs, TextIs
<1>8. SameKey(ctx', ctx)
  BY <1>6, <1>7 DEF Leaves
<1>9. ASSUME ran.ret = "ok", mbedtls_rsa_check_privkey(ctx), HasRoom(ctx.N, ctx.len)
      PROVE  Signed(ctx, ran.out, digest)
  <2>1. Accepted(ctx) /\ ctx \in Contexts /\ (ctx.blinding => ctx.used)
    BY <1>9, AcceptedContext, UsableFacts
  <2>2. ran # Ran(ctx, "BAD_INPUT_DATA", 0, FALSE, FALSE)
    BY <1>9 DEF Ran
  <2>3. ~(ctx.len < 2 * HashLen) /\ ran \in mbedtls_rsa_private(ctx, rng, num)
    BY <1>5, <2>2
  <2>4. salt \in RandomString(PssSaltLen(ctx.len))
    BY <2>3
  <2> DEFINE n == ctx.N
             olen == ctx.len
  <2>5. n \in Nat /\ n > 1 /\ olen \in Nat /\ olen = Size(n) /\ HashLen \in Nat
    BY <2>1, AcceptedNumbers, ScaleAssumption
       DEF Contexts, Accepted, mbedtls_rsa_check_privkey, mbedtls_rsa_check_pubkey, rsa_check_context
  <2>6. olen >= 2 * HashLen
    <3> HIDE DEF olen
    <3> QED
      BY <2>3, <2>5 DEF olen
  <2>7. Number(PssBlock(n, olen, digest, salt)) \in Nat
    <3> HIDE DEF n, olen
    <3>1. HasRoom(n, Size(n)) /\ Size(n) >= 2 * HashLen /\ salt \in RandomString(PssSaltLen(Size(n)))
      BY <1>9, <2>4, <2>5, <2>6 DEF n, olen
    <3>2. Number(PssBlock(n, Size(n), digest, salt)) \in Nat
      BY <2>5, <3>1, PssBlockVerifies
    <3> QED
      BY <2>5, <3>2
  <2>8. num \in Nat
    BY <2>7
  <2> HIDE DEF num, n, olen
  <2>9. num < ctx.N /\ ran.out = PowMod(num, ctx.D, ctx.N)
    BY <1>9, <2>1, <2>3, <2>8, PrivateOutcome
  <2> QED
    BY <2>4, <2>6, <2>9 DEF Signed, num, olen
<1>10. ASSUME ran.ret = "ok", mbedtls_rsa_check_privkey(ctx'), HasRoom(ctx'.N, ctx'.len)
       PROVE  Signed(ctx', ran.out, digest)
  <2>1. mbedtls_rsa_check_privkey(ctx)
    BY <1>8, <1>10, SameCheck
  <2>2. HasRoom(ctx.N, ctx.len)
    BY <1>8, <1>10, MadeSame
  <2> QED
    BY <1>8, <1>9, <1>10, <2>1, <2>2, MadeSame
<1> QED
  BY <1>7, <1>10

\* No string of bytes is what stands for an altered message.
LEMMA AlteredIs ==
  ASSUME NEW s \in Seq(Byte) PROVE s # Altered
<1>1. Altered[1] \notin Byte
  <2>1. Pow2(BitsPerByte) \in Nat
    BY BaseIs
  <2> QED
    BY <2>1 DEF Altered, Byte
<1>2. Len(Altered) = 1
  BY DEF Altered
<1> QED
  BY <1>1, <1>2

\* Decryption of what was encrypted, when the private operation ends as it may.
LEMMA DecryptedIs ==
  ASSUME HashRight, NEW c \in Contexts, Accepted(c), c.blinding => c.used, NEW rng \in BOOLEAN,
         NEW out, NEW text, Encrypted(c, out, text), NEW ran \in mbedtls_rsa_private(c, rng, out), NEW max
  PROVE  LET result == mbedtls_rsa_rsaes_oaep_decrypt(c, ran, max)
         IN  /\ result[1] = "ok" => result[2] = text
             /\ ~(Len(text) > max) /\ ~ran.glitch /\ ~ran.bad /\ (c.blinding => Blinded(c)) => result[1] = "ok"
<1> DEFINE result == mbedtls_rsa_rsaes_oaep_decrypt(c, ran, max)
           unpadded == OaepUnpad(c.len, Bytes(ran.out, c.len))
<1>1. /\ out \in Nat /\ out < c.N
      /\ OaepUnpad(c.len, Bytes(PowMod(out, c.D, c.N), c.len)) = <<"ok", text>>
  BY EncryptionUndone
<1>2. /\ ran.ret = "ok" => ran.out = PowMod(out, c.D, c.N)
      /\ ~ran.glitch /\ ~ran.bad /\ (c.blinding => Blinded(c)) => ran.ret = "ok"
  BY <1>1, PrivateOutcome
<1>3. ran.ret = "ok" => unpadded = <<"ok", text>>
  BY <1>1, <1>2
<1>4. result = IF ran.ret # "ok" THEN <<ran.ret, <<>>>>
               ELSE IF Len(unpadded[2]) > max THEN <<"OUTPUT_TOO_LARGE", <<>>>> ELSE unpadded
  BY DEF mbedtls_rsa_rsaes_oaep_decrypt
<1> HIDE DEF result, unpadded
<1>5. CASE ran.ret # "ok"
  <2>1. result[1] = ran.ret
    BY <1>4, <1>5
  <2> QED
    BY <1>2, <1>5, <2>1 DEF result
<1>6. CASE ran.ret = "ok" /\ Len(text) > max
  <2>1. result = <<"OUTPUT_TOO_LARGE", <<>>>>
    BY <1>3, <1>4, <1>6
  <2> QED
    BY <1>6, <2>1 DEF result
<1>7. CASE ran.ret = "ok" /\ ~(Len(text) > max)
  <2>1. result = <<"ok", text>>
    BY <1>3, <1>4, <1>7
  <2> QED
    BY <2>1 DEF result
<1> QED
  BY <1>5, <1>6, <1>7

\* Decryption has the result that the property asks for.
LEMMA DecryptRight ==
  ASSUME HashRight, IInv, Made, mbedtls_rsa_pkcs1_decrypt
  PROVE  last'.op = "decrypt" /\ OaepRoundTrip'
<1> DEFINE Ends(rng, in, max) ==
       LET sent == IF in = last.out THEN last.text ELSE Altered
       IN  IF ~OaepDecryptable(ctx)
           THEN Leave(Ran(ctx, "", 0, FALSE, FALSE), FALSE, "decrypt", "BAD_INPUT_DATA", sent, max, <<>>)
           ELSE \E ran \in mbedtls_rsa_private(ctx, rng, in) :
                  LET result == mbedtls_rsa_rsaes_oaep_decrypt(ctx, ran, max)
                  IN  Leave(ran, rng, "decrypt", result[1], sent, max, result[2])
<1>0. PICK rng \in BOOLEAN, in \in {last.out, (last.out + 1) % ctx.N}, max \in {0, MaxLen} : Ends(rng, in, max)
  BY DEF mbedtls_rsa_pkcs1_decrypt
<1>1. Encrypted(ctx, last.out, last.text)
  BY DEF mbedtls_rsa_pkcs1_decrypt, Made
<1> DEFINE sent == IF in = last.out THEN last.text ELSE Altered
<1>2. CASE ~OaepDecryptable(ctx)
  <2> DEFINE ran == Ran(ctx, "", 0, FALSE, FALSE)
  <2>1. ran.c = ctx
    BY DEF Ran
  <2>2. Leave(ran, FALSE, "decrypt", "BAD_INPUT_DATA", sent, max, <<>>)
    BY <1>0, <1>2
  <2> HIDE DEF ran, sent
  <2>3. ctx' = ctx /\ last'.op = "decrypt"
    BY <2>1, <2>2, LeaveIs
  <2>4. ~OaepDecryptable(ctx)'
    BY <1>2, <2>3 DEF OaepDecryptable
  <2> QED
    BY <2>3, <2>4 DEF OaepRoundTrip
<1>3. CASE OaepDecryptable(ctx)
  <2>1. PICK ran \in mbedtls_rsa_private(ctx, rng, in) :
          LET result == mbedtls_rsa_rsaes_oaep_decrypt(ctx, ran, max)
          IN  Leave(ran, rng, "decrypt", result[1], sent, max, result[2])
    BY <1>0, <1>3
  <2> DEFINE result == mbedtls_rsa_rsaes_oaep_decrypt(ctx, ran, max)
  <2>2. Leave(ran, rng, "decrypt", result[1], sent, max, result[2])
    BY <2>1
  <2>3. Leaves(ctx, ran)
    BY UsableFacts, PrivateLeaves
  <2> HIDE DEF result, sent
  <2>4. /\ ctx' = ran.c /\ spoiled' = (spoiled \/ ran.bad) /\ last'.op = "decrypt" /\ last'.ret = result[1]
        /\ last'.in = sent /\ last'.out = max /\ last'.glitch = ran.glitch /\ last'.text = result[2]
    BY <2>2, LeaveIs, TextIs
  <2>5. SameKey(ctx', ctx)
    BY <2>3, <2>4 DEF Leaves
  <2>6. ASSUME sent # Altered, mbedtls_rsa_check_privkey(ctx')
        PROVE  /\ result[1] = "ok" => sent = result[2]
               /\ ~(Len(sent) > max) /\ ~ran.glitch /\ ~spoiled' => result[1] = "ok"
    <3>1. in = last.out /\ sent = last.text
      BY <2>6 DEF sent
    <3>2. Accepted(ctx) /\ ctx \in Contexts /\ (ctx.blinding => ctx.used)
      BY <2>5, <2>6, SameCheck, AcceptedContext, UsableFacts
    <3>3. ~spoiled' => ~ran.bad /\ (ctx.blinding => Blinded(ctx))
      BY <2>4 DEF IInv, Usable
    <3>4. /\ result[1] = "ok" => result[2] = last.text
          /\ ~(Len(last.text) > max) /\ ~ran.glitch /\ ~ran.bad /\ (ctx.blinding => Blinded(ctx))
               => result[1] = "ok"
      BY <1>1, <3>1, <3>2, DecryptedIs DEF result
    <3> QED
      BY <3>1, <3>3, <3>4
  <2>7. ASSUME sent # Altered PROVE Len(sent) \in Nat /\ max \in Nat
    <3>1. sent \in Messages
      BY <1>1, <2>7 DEF sent, Encrypted
    <3> QED
      BY <3>1, ArgumentsAssumption, ScaleAssumption
  <2>8. ASSUME sent # Altered, mbedtls_rsa_check_privkey(ctx')
        PROVE  /\ result[1] = "ok" => sent = result[2]
               /\ Len(sent) <= max /\ ~ran.glitch /\ ~spoiled' => result[1] = "ok"
    BY <2>6, <2>7, <2>8
  <2>9. last'.in # Altered /\ mbedtls_rsa_check_privkey(ctx')
          => /\ last'.ret = "ok" => last'.in = last'.text
             /\ Len(last'.in) <= last'.out /\ ~last'.glitch /\ ~spoiled' => last'.ret = "ok"
    BY <2>4, <2>8
  <2> QED
    BY <2>4, <2>9 DEF OaepRoundTrip, Altered
<1> QED
  BY <1>2, <1>3

\* So has verification.
LEMMA VerifyRight ==
  ASSUME HashRight, IInv, Made, mbedtls_rsa_pkcs1_verify
  PROVE  last'.op = "verify" /\ PssRoundTrip'
<1>1. PICK in \in {last.out, (last.out + 1) % ctx.N}, digest \in Digests, salt_len \in {-1, HashLen} :
         Leave(Ran([ctx EXCEPT !.used = TRUE], "", 0, FALSE, FALSE), FALSE, "verify",
                mbedtls_rsa_rsassa_pss_verify(ctx, in, digest, salt_len),
                IF in = last.out THEN last.text ELSE Altered, salt_len, digest)
  BY DEF mbedtls_rsa_pkcs1_verify
<1> DEFINE ran == Ran([ctx EXCEPT !.used = TRUE], "", 0, FALSE, FALSE)
           ret == mbedtls_rsa_rsassa_pss_verify(ctx, in, digest, salt_len)
           sent == IF in = last.out THEN last.text ELSE Altered
<1>2. Leaves(ctx, ran)
  BY UsableFacts, RefusedLeaves
<1> HIDE DEF ran, ret, sent
<1>3. Leave(ran, FALSE, "verify", ret, sent, salt_len, digest)
  BY <1>1 DEF ran, ret, sent
<1>4. /\ ctx' = ran.c /\ last'.op = "verify" /\ last'.ret = ret
      /\ last'.in = sent /\ last'.out = salt_len /\ last'.text = digest
  BY <1>3, LeaveIs, TextIs
<1>5. SameKey(ctx', ctx)
  BY <1>2, <1>4 DEF Leaves
<1>6. ASSUME mbedtls_rsa_check_privkey(ctx), ctx.len >= MinBlock, HasRoom(ctx.N, ctx.len), sent = digest,
             salt_len \in {-1, PssSaltLen(ctx.len)}
      PROVE  ret = "ok"
  <2>1. digest # Altered
    BY ArgumentsAssumption, AlteredIs
  <2>2. in = last.out /\ digest = last.text
    BY <1>6, <2>1 DEF sent
  <2>3. Signed(ctx, last.out, last.text)
    BY <1>6 DEF Made, mbedtls_rsa_pkcs1_verify
  <2>4. Accepted(ctx) /\ ctx \in Contexts
    BY <1>6, AcceptedContext
  <2> DEFINE power == PowMod(last.out, ctx.E, ctx.N)
             checked == PssUnpad(ctx.N, Bytes(power, ctx.len), last.text, salt_len)
  <2>5. ~(last.out >= ctx.N) /\ checked = "ok"
    BY <1>6, <2>3, <2>4, SignatureVerifies
  <2>6. rsa_check_context(ctx, FALSE) /\ ~(ctx.len < MinBlock) /\ ~(ctx.len > MaxLen)
    <3>1. rsa_check_context(ctx, FALSE)
      BY <1>6 DEF mbedtls_rsa_check_privkey, mbedtls_rsa_check_pubkey
    <3> DEFINE olen == ctx.len
    <3>2. olen <= MaxLen /\ olen >= MinBlock
      BY <1>6, <3>1 DEF rsa_check_context
    <3>3. olen \in Nat /\ MaxLen \in Nat /\ MinBlock \in Nat
      BY <2>4, ScaleAssumption DEF Contexts
    <3> HIDE DEF olen
    <3>4. ~(olen < MinBlock) /\ ~(olen > MaxLen)
      BY <3>2, <3>3
    <3> QED
      BY <3>1, <3>4 DEF olen
  <2> DEFINE computed == mbedtls_rsa_public(ctx, last.out)
  <2>7. computed.ret = "ok" /\ computed.out = power
    BY <2>5, <2>6 DEF mbedtls_rsa_public, Ran
  <2>8. ret = IF ctx.len < MinBlock \/ ctx.len > MaxLen THEN "BAD_INPUT_DATA"
              ELSE IF computed.ret # "ok" THEN computed.ret
              ELSE PssUnpad(ctx.N, Bytes(computed.out, ctx.len), last.text, salt_len)
    BY <2>2 DEF ret, mbedtls_rsa_rsassa_pss_verify
  <2> HIDE DEF computed, power
  <2> QED
    BY <2>5, <2>6, <2>7, <2>8
<1>7. ASSUME mbedtls_rsa_check_privkey(ctx'), ctx'.len >= MinBlock, HasRoom(ctx'.N, ctx'.len), sent = digest,
             salt_len \in {-1, PssSaltLen(ctx'.len)}
      PROVE  ret = "ok"
  <2>1. ctx'.len = ctx.len /\ ctx'.N = ctx.N
    BY <1>5 DEF SameKey
  <2>2. mbedtls_rsa_check_privkey(ctx)
    BY <1>5, <1>7, SameCheck
  <2> QED
    BY <1>6, <1>7, <2>1, <2>2
<1>8. last'.in = last'.text /\ last'.out \in {-1, PssSaltLen(ctx'.len)} /\ mbedtls_rsa_check_privkey(ctx')
        /\ ctx'.len >= MinBlock /\ HasRoom(ctx'.N, ctx'.len) => last'.ret = "ok"
  BY <1>4, <1>7
<1> QED
  BY <1>4, <1>8 DEF PssRoundTrip

\* Steps keep the invariant and the property.
LEMMA RoundTripStep ==
  ASSUME HashRight, IInv, Made, PaddingRoundTrip, [Next]_vars
  PROVE  Made' /\ PaddingRoundTrip'
<1>1. CASE UNCHANGED <<ctx, last, spoiled>>
  BY <1>1 DEF Made, PaddingRoundTrip, OaepRoundTrip, PssRoundTrip, Altered
<1>2. CASE last'.op \notin {"encrypt", "decrypt", "sign", "verify"}
  BY <1>2 DEF Made, PaddingRoundTrip, OaepRoundTrip, PssRoundTrip
<1>3. CASE mbedtls_rsa_pkcs1_encrypt /\ last'.op # "v15"
  BY <1>3, EncryptMakes DEF Made, PaddingRoundTrip, OaepRoundTrip, PssRoundTrip
<1>4. CASE mbedtls_rsa_pkcs1_sign /\ last'.op # "v15"
  BY <1>4, SignMakes DEF Made, PaddingRoundTrip, OaepRoundTrip, PssRoundTrip
<1>5. CASE mbedtls_rsa_pkcs1_decrypt
  BY <1>5, DecryptRight DEF Made, PaddingRoundTrip, PssRoundTrip
<1>6. CASE mbedtls_rsa_pkcs1_verify
  BY <1>6, VerifyRight DEF Made, PaddingRoundTrip, OaepRoundTrip
<1>7. CASE last'.op = "v15"
  BY <1>7 DEF Made, PaddingRoundTrip, OaepRoundTrip, PssRoundTrip
<1> QED
  BY <1>1, <1>2, <1>3, <1>4, <1>5, <1>6, <1>7, PaddingSteps

\* What an accepted key decrypts is what was encrypted with it, and a signature made with it
\* verifies, whatever the hash function, the key, the seed and the salt.
THEOREM PaddingsUndone ==
  ASSUME HashRight PROVE Spec => []PaddingRoundTrip
<1>1. Init => Made /\ PaddingRoundTrip
  BY DEF Outcome, Init, Made, PaddingRoundTrip, OaepRoundTrip, PssRoundTrip
<1>2. IInv /\ Made /\ PaddingRoundTrip /\ [Next]_vars => Made' /\ PaddingRoundTrip'
  BY RoundTripStep
<1> QED
  BY <1>1, <1>2, ContextsUsable, PTL DEF Spec
=============================================================================
