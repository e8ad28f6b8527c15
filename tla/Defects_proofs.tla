--------------------------- MODULE Defects_proofs ---------------------------
(***************************************************************************)
(* For every fund, schedule, calendar and draw of the generators: the NAV  *)
(* of the walk chains, its tables keep their shape, their columns agree,   *)
(* the books balance, the assets of each day are explained, shares roll    *)
(* forward by the orders, positions reconcile with the trades and the      *)
(* finished warehouse shows the defects that were seeded.                  *)
(*                                                                         *)
(* The arithmetic comes first (fractions and their sums), then the walk,   *)
(* then what each injector leaves of its tables.                           *)
(***************************************************************************)
EXTENDS Defects, FiniteSetTheorems, WellFoundedInduction, TLAPS

(***************************************************************************)
(* Lowest terms.  Gcd is a recursive function: that it is Euclid's greatest *)
(* common divisor is shown of a least counterexample, and from it that a   *)
(* fraction in lowest terms is determined by what it means (Gauss).        *)
(***************************************************************************)

Divides(t, m) == \E k \in Int : m = t * k

IsGcd(g, m, n) ==
  /\ g \in Nat /\ Divides(g, m) /\ Divides(g, n)
  /\ \A t \in Nat : Divides(t, m) /\ Divides(t, n) => Divides(t, g)

LEMMA DividesCombination ==
  ASSUME NEW t \in Int, NEW m \in Int, NEW n \in Int, NEW j \in Int,
         Divides(t, m), Divides(t, n)
  PROVE  Divides(t, m + n * j)
<1>1. PICK a \in Int : m = t * a
  BY DEF Divides
<1>2. PICK b \in Int : n = t * b
  BY DEF Divides
<1>3. m + n * j = t * (a + b * j) /\ a + b * j \in Int
  BY <1>1, <1>2
<1> QED
  BY <1>3 DEF Divides

LEMMA Division ==
  ASSUME NEW m \in Int, NEW n \in Nat, n > 0
  PROVE  /\ m \div n \in Int /\ m % n \in 0 .. n - 1
         /\ m = n * (m \div n) + (m % n)
  OBVIOUS

LEMMA ExactDivision ==
  ASSUME NEW k \in Int, NEW n \in Nat, n > 0
  PROVE  (n * k) \div n = k
  OBVIOUS

LEMMA GcdStep ==
  ASSUME NEW m \in Nat, NEW n \in Nat, n > 0, NEW g, IsGcd(g, n, m % n)
  PROVE  IsGcd(g, m, n)
<1>1. PICK q, r : q = m \div n /\ r = m % n
  OBVIOUS
<1>2. q \in Int /\ r \in Int /\ m = r + n * q /\ r = m + n * (-q) /\ -q \in Int
  BY <1>1, Division
<1>3. g \in Nat /\ Divides(g, n) /\ Divides(g, r)
  BY <1>1 DEF IsGcd
<1>4. Divides(g, m)
  <2>1. Divides(g, r + n * q)
    <3>1. g \in Int /\ n \in Int
      BY <1>3
    <3> QED
      BY <1>2, <1>3, <3>1, DividesCombination, Zenon
  <2> QED
    BY <1>2, <2>1
<1>5. ASSUME NEW t \in Nat, Divides(t, m), Divides(t, n) PROVE Divides(t, g)
  <2>0. PICK p \in Int : p = -q
    BY <1>2
  <2>1. Divides(t, m + n * p)
    <3>1. t \in Int /\ m \in Int /\ n \in Int
      OBVIOUS
    <3> QED
      BY <1>5, <3>1, DividesCombination, Zenon
  <2>2. Divides(t, r)
    BY <1>2, <2>0, <2>1
  <2> QED
    BY <1>1, <1>5, <2>2 DEF IsGcd
<1> QED
  BY <1>3, <1>4, <1>5 DEF IsGcd

LEMMA DividesOrder ==
  ASSUME NEW t \in Nat, NEW m \in Nat, m > 0, Divides(t, m)
  PROVE  t > 0 /\ t <= m
<1>1. PICK k \in Int : m = t * k
  BY DEF Divides
<1>2. t > 0 /\ k > 0
  BY <1>1
<1>3. t * k >= t * 1
  BY <1>2
<1> QED
  BY <1>1, <1>2, <1>3

LEMMA DividesSelf ==
  ASSUME NEW m \in Int
  PROVE  Divides(m, m) /\ Divides(m, 0) /\ Divides(1, m)
<1>1. m = m * 1 /\ 0 = m * 0 /\ m = 1 * m
  OBVIOUS
<1> QED
  BY <1>1 DEF Divides

\* There is one greatest common divisor.
LEMMA GcdUnique ==
  ASSUME NEW m, NEW n, NEW g, NEW h, IsGcd(g, m, n), IsGcd(h, m, n)
  PROVE  g = h
<1>1. g \in Nat /\ h \in Nat /\ Divides(g, h) /\ Divides(h, g)
  BY DEF IsGcd
<1>2. CASE g = 0
  <2>1. PICK k \in Int : h = g * k
    BY <1>1 DEF Divides
  <2> QED
    BY <1>2, <2>1
<1>3. CASE h = 0
  <2>1. PICK k \in Int : g = h * k
    BY <1>1 DEF Divides
  <2> QED
    BY <1>3, <2>1
<1>4. CASE g > 0 /\ h > 0
  BY <1>1, <1>4, DividesOrder
<1> QED
  BY <1>1, <1>2, <1>3, <1>4

LEMMA LeastNat ==
  ASSUME NEW S \in SUBSET Nat, S # {}
  PROVE  \E n \in S : \A m \in S : n <= m
<1> DEFINE R == OpToRel(<, Nat)
<1>1. IsWellFoundedOn(R, Nat)
  BY NatLessThanWellFounded
<1>2. \A x, y \in Nat : y < x => << y, x >> \in R
  BY DEF OpToRel
<1> HIDE DEF R
<1>3. PICK x \in S : \A y \in S : ~ (<< y, x >> \in R)
  BY <1>1, WFMin
<1>4. ASSUME NEW y \in S PROVE x <= y
  <2>1. x \in Nat /\ y \in Nat
    OBVIOUS
  <2>2. ~ (y < x)
    BY <1>2, <1>3, <2>1
  <2> QED
    BY <2>1, <2>2
<1> QED
  BY <1>4

LEMMA GcdBase == ASSUME NEW m \in Nat PROVE IsGcd(m, m, 0)
  BY DividesSelf DEF IsGcd

LEMMA GcdExists ==
  ASSUME NEW m \in Nat, NEW n \in Nat
  PROVE  \E g : IsGcd(g, m, n)
<1> DEFINE Not == {y \in Nat : \E x \in Nat : ~\E g : IsGcd(g, x, y)}
<1> SUFFICES ASSUME Not # {} PROVE FALSE
  OBVIOUS
<1>1. PICK y \in Not : \A z \in Not : y <= z
  BY LeastNat
<1>2. PICK x \in Nat : ~\E g : IsGcd(g, x, y)
  OBVIOUS
<1>3. y \in Nat /\ y > 0
  BY <1>2, GcdBase
<1>4. PICK r : r = x % y
  OBVIOUS
<1>5. r \in 0 .. y - 1
  BY <1>3, <1>4, Division
<1>6. r \notin Not /\ r \in Nat
  BY <1>1, <1>3, <1>5
<1>7. PICK g : IsGcd(g, y, r)
  BY <1>3, <1>6
<1>8. IsGcd(g, x, y)
  BY <1>3, <1>4, <1>7, GcdStep
<1> QED
  BY <1>2, <1>8

\* What the recursive definition of Gcd asks of a function.
Euclid(f) == f = [n \in Nat |-> [m \in Nat |-> IF n = 0 THEN m ELSE f[m % n][n]]]

LEMMA EuclidExists == \E f : Euclid(f)
<1> DEFINE G(m, n) == CHOOSE g : IsGcd(g, m, n)
           f == [n \in Nat |-> [m \in Nat |-> G(m, n)]]
<1>1. ASSUME NEW m \in Nat, NEW n \in Nat PROVE IsGcd(G(m, n), m, n)
  BY GcdExists
<1> HIDE DEF G
<1>2. ASSUME NEW m \in Nat PROVE G(m, 0) = m
  BY <1>1, GcdBase, GcdUnique
<1>3. ASSUME NEW m \in Nat, NEW n \in Nat, n > 0 PROVE m % n \in Nat /\ G(m, n) = G(n, m % n)
  <2>1. PICK r : r = m % n
    OBVIOUS
  <2>2. r \in Nat
    BY <1>3, <2>1, Division
  <2>3. IsGcd(G(n, r), n, r)
    BY <1>1, <2>2
  <2>4. IsGcd(G(n, r), m, n)
    BY <1>3, <2>1, <2>3, GcdStep
  <2> QED
    BY <1>1, <2>1, <2>2, <2>4, GcdUnique
<1>4. ASSUME NEW m \in Nat, NEW n \in Nat
      PROVE  f[n][m] = IF n = 0 THEN m ELSE f[m % n][n]
  <2>1. CASE n = 0
    BY <1>2, <2>1
  <2>2. CASE n > 0
    <3>1. PICK r : r = m % n
      OBVIOUS
    <3>2. r \in Nat /\ G(m, n) = G(n, r)
      BY <1>3, <2>2, <3>1
    <3>3. f[n][m] = G(m, n) /\ f[r][n] = G(n, r)
      BY <3>2
    <3> QED
      BY <2>2, <3>1, <3>2, <3>3
  <2> QED
    BY <2>1, <2>2
<1>5. Euclid(f)
  <2>1. \A n \in Nat : f[n] = [m \in Nat |-> IF n = 0 THEN m ELSE f[m % n][n]]
    <3> SUFFICES ASSUME NEW n \in Nat
                 PROVE  f[n] = [m \in Nat |-> IF n = 0 THEN m ELSE f[m % n][n]]
      OBVIOUS
    <3>1. f[n] = [m \in Nat |-> f[n][m]]
      OBVIOUS
    <3> QED
      BY <1>4, <3>1
  <2>2. f = [n \in Nat |-> f[n]]
    OBVIOUS
  <2> HIDE DEF f
  <2> QED
    BY <2>1, <2>2 DEF Euclid
<1> QED
  BY <1>5

LEMMA GcdIsGreatest ==
  ASSUME NEW m \in Nat, NEW n \in Nat
  PROVE  IsGcd(Gcd[n][m], m, n)
<1>1. Euclid(Gcd)
  BY EuclidExists DEF Gcd, Euclid
<1>2. \A y, x \in Nat : Gcd[y][x] = IF y = 0 THEN x ELSE Gcd[x % y][y]
  BY <1>1 DEF Euclid
<1> DEFINE Not == {y \in Nat : \E x \in Nat : ~IsGcd(Gcd[y][x], x, y)}
<1> SUFFICES ASSUME Not # {} PROVE FALSE
  OBVIOUS
<1>3. PICK y \in Not : \A z \in Not : y <= z
  BY LeastNat
<1>4. PICK x \in Nat : ~IsGcd(Gcd[y][x], x, y)
  OBVIOUS
<1>5. y \in Nat /\ y > 0
  BY <1>2, <1>4, GcdBase
<1>6. PICK r : r = x % y
  OBVIOUS
<1>7. r \in 0 .. y - 1
  BY <1>5, <1>6, Division
<1>8. r \notin Not /\ r \in Nat
  BY <1>3, <1>5, <1>7
<1>9. IsGcd(Gcd[r][y], y, r)
  BY <1>5, <1>8
<1>10. IsGcd(Gcd[r][y], x, y)
  BY <1>5, <1>6, <1>9, GcdStep
<1> QED
  BY <1>2, <1>4, <1>5, <1>6, <1>10

Coprime(m, n) == \A t \in Nat : Divides(t, m) /\ Divides(t, n) => t = 1

\* The least multiple of a that b divides divides all such.
LEMMA LeastMultiple ==
  ASSUME NEW a \in Int, NEW b \in Nat, b > 0
  PROVE  \E q \in Nat : /\ q > 0 /\ Divides(b, a * q)
                        /\ \A c \in Int : Divides(b, a * c) => Divides(q, c)
<1> DEFINE S == {q \in Nat : q > 0 /\ Divides(b, a * q)}
<1>1. b \in S
  <2>1. a * b = b * a
    OBVIOUS
  <2> QED
    BY <2>1 DEF Divides
<1>2. PICK q \in S : \A r \in S : q <= r
  BY <1>1, LeastNat
<1>3. q \in Nat /\ q > 0 /\ Divides(b, a * q)
  OBVIOUS
<1>4. ASSUME NEW c \in Int, Divides(b, a * c) PROVE Divides(q, c)
  <2>1. PICK k, r : k = c \div q /\ r = c % q
    OBVIOUS
  <2>2. k \in Int /\ r \in 0 .. q - 1 /\ c = q * k + r
    BY <1>3, <2>1, Division
  <2>3. PICK u \in Int : a * c = b * u
    BY <1>4 DEF Divides
  <2>4. PICK v \in Int : a * q = b * v
    BY <1>3 DEF Divides
  <2>5. a * r = b * (u - v * k)
    <3>1. a * c = (a * q) * k + a * r
      BY <1>3, <2>2
    <3>2. b * u = (b * v) * k + a * r
      BY <2>3, <2>4, <3>1
    <3>3. b * (u - v * k) = b * u - (b * v) * k
      BY <2>2
    <3> QED
      BY <1>3, <2>2, <3>2, <3>3
  <2>6. u - v * k \in Int /\ r \in Nat
    BY <1>3, <2>2
  <2>7. Divides(b, a * r)
    BY <2>5, <2>6 DEF Divides
  <2>8. r = 0
    BY <1>2, <1>3, <2>2, <2>6, <2>7
  <2>9. c = q * k
    BY <1>3, <2>2, <2>8
  <2> QED
    BY <2>2, <2>9 DEF Divides
<1> QED
  BY <1>3, <1>4

\* What divides a product and is coprime to one factor divides the other.
LEMMA Gauss ==
  ASSUME NEW a \in Int, NEW b \in Nat, b > 0, NEW c \in Int,
         Coprime(a, b), Divides(b, a * c)
  PROVE  Divides(b, c)
<1>1. PICK q \in Nat : /\ q > 0 /\ Divides(b, a * q)
                       /\ \A x \in Int : Divides(b, a * x) => Divides(q, x)
  BY LeastMultiple
<1>2. Divides(q, b)
  <2>1. a * b = b * a
    OBVIOUS
  <2>2. Divides(b, a * b)
    BY <2>1 DEF Divides
  <2> QED
    BY <1>1, <2>2
<1>3. PICK t \in Int : b = q * t
  BY <1>2 DEF Divides
<1>4. t \in Nat /\ t > 0
  BY <1>1, <1>3
<1>5. PICK k \in Int : a * q = b * k
  BY <1>1 DEF Divides
<1>6. a = t * k
  <2>1. q * a = q * (t * k)
    BY <1>3, <1>5
  <2>2. t * k \in Int
    BY <1>4
  <2>3. PICK p \in Int : p = t * k
    BY <2>2
  <2>4. q * (a - p) = 0
    BY <2>1, <2>3
  <2> QED
    BY <1>1, <2>3, <2>4
<1>7. Divides(t, a)
  BY <1>6 DEF Divides
<1>8. Divides(t, b)
  <2>1. b = t * q
    BY <1>3
  <2> QED
    BY <2>1, <1>1 DEF Divides
<1>9. b = q
  BY <1>3, <1>4, <1>7, <1>8 DEF Coprime
<1> QED
  BY <1>1, <1>9

LEMMA Cancel ==
  ASSUME NEW k \in Int, k # 0, NEW m \in Int, NEW n \in Int, k * m = k * n
  PROVE  m = n
<1>1. k * (m - n) = 0
  OBVIOUS
<1> QED
  BY <1>1

\* Lowest terms are unique.
LEMMA LowestTerms ==
  ASSUME NEW m \in Int, NEW d \in Nat, d > 0, NEW n \in Int, NEW e \in Nat, e > 0,
         Coprime(m, d), Coprime(n, e), m * e = n * d
  PROVE  m = n /\ d = e
<1>1. Divides(e, n * d)
  <2>1. n * d = e * m
    OBVIOUS
  <2> QED
    BY <2>1 DEF Divides
<1>2. Divides(d, m * e)
  <2>1. m * e = d * n
    OBVIOUS
  <2> QED
    BY <2>1 DEF Divides
<1>3. Divides(e, d) /\ Divides(d, e)
  BY <1>1, <1>2, Gauss
<1>4. d = e
  BY <1>3, DividesOrder
<1>5. d * m = d * n
  BY <1>4
<1> QED
  BY <1>4, <1>5, Cancel

\* x is the fraction n / d, whatever n and d have in common.
Means(x, n, d) == n \in Int /\ d \in Int /\ d # 0 /\ x[1] * d = n * x[2]

LEMMA RatParts ==
  ASSUME NEW x, IsRat(x)
  PROVE  x[1] \in Int /\ x[2] \in Nat /\ x[2] > 0 /\ x = << x[1], x[2] >>
  BY DEF IsRat

LEMMA RatCoprime ==
  ASSUME NEW x, IsRat(x)
  PROVE  Coprime(x[1], x[2])
<1>1. x[1] \in Int /\ x[2] \in Nat /\ x[2] > 0 /\ Gcd[x[2]][Abs(x[1])] = 1
  BY DEF IsRat
<1>2. PICK n, d : n = x[1] /\ d = x[2]
  OBVIOUS
<1>3. Abs(n) \in Nat
  BY <1>1, <1>2 DEF Abs
<1>4. IsGcd(1, Abs(n), d)
  BY <1>1, <1>2, <1>3, GcdIsGreatest
<1>5. ASSUME NEW t \in Nat, Divides(t, n), Divides(t, d) PROVE t = 1
  <2>1. PICK k \in Int : n = t * k
    BY <1>5 DEF Divides
  <2>2. -k \in Int /\ (Abs(n) = t * k \/ Abs(n) = t * (-k))
    BY <1>1, <1>2, <2>1 DEF Abs
  <2>3. Divides(t, Abs(n))
    BY <2>2 DEF Divides
  <2>4. Divides(t, 1)
    BY <1>4, <1>5, <2>3 DEF IsGcd
  <2> QED
    BY <2>4, DividesOrder
<1> QED
  BY <1>2, <1>5 DEF Coprime

\* A fraction in lowest terms is a rational.
LEMMA CoprimeRat ==
  ASSUME NEW n \in Int, NEW d \in Nat, d > 0, Coprime(n, d)
  PROVE  IsRat(<< n, d >>)
<1>1. PICK g : g = Gcd[d][Abs(n)]
  OBVIOUS
<1>2. Abs(n) \in Nat
  BY DEF Abs
<1>3. IsGcd(g, Abs(n), d)
  BY <1>1, <1>2, GcdIsGreatest
<1>4. g \in Nat /\ Divides(g, d)
  BY <1>3 DEF IsGcd
<1>5. Divides(g, n)
  <2>1. PICK k \in Int : Abs(n) = g * k
    BY <1>3 DEF IsGcd, Divides
  <2>2. n = g * k \/ n = g * (-k)
    BY <1>4, <2>1 DEF Abs
  <2> QED
    BY <2>2 DEF Divides
<1>6. g = 1
  BY <1>4, <1>5 DEF Coprime
<1>7. PICK x : x = << n, d >>
  OBVIOUS
<1>8. x[1] = n /\ x[2] = d /\ x \in Int \X (Nat \ {0})
  BY <1>7
<1> QED
  BY <1>1, <1>6, <1>7, <1>8 DEF IsRat

\* Two rationals that mean the same fraction are the same.
LEMMA SameMeaning ==
  ASSUME NEW x, NEW y, IsRat(x), IsRat(y), NEW n, NEW d, Means(x, n, d), Means(y, n, d)
  PROVE  x = y
<1>1. PICK p, q : p = x[1] /\ q = x[2]
  OBVIOUS
<1>2. PICK r, s : r = y[1] /\ s = y[2]
  OBVIOUS
<1>3. /\ p \in Int /\ q \in Nat /\ q > 0 /\ r \in Int /\ s \in Nat /\ s > 0
      /\ x = << p, q >> /\ y = << r, s >>
  BY <1>1, <1>2, RatParts
<1>4. Coprime(p, q) /\ Coprime(r, s)
  BY <1>1, <1>2, RatCoprime
<1>5. d \in Int /\ d # 0 /\ n \in Int /\ p * d = n * q /\ r * d = n * s
  BY <1>1, <1>2 DEF Means
<1>6. p * s = r * q
  <2>1. d * (p * s) = (p * d) * s
    BY <1>3, <1>5
  <2>2. (n * q) * s = (n * s) * q
    BY <1>3, <1>5
  <2>3. d * (r * q) = (r * d) * q
    BY <1>3, <1>5
  <2>4. d * (p * s) = d * (r * q)
    BY <1>5, <2>1, <2>2, <2>3
  <2>5. p * s \in Int /\ r * q \in Int
    BY <1>3
  <2> QED
    BY <1>5, <2>4, <2>5, Cancel
<1>7. p = r /\ q = s
  BY <1>3, <1>4, <1>6, LowestTerms
<1> QED
  BY <1>3, <1>7

LEMMA DividesMultiple ==
  ASSUME NEW t \in Int, NEW m \in Int, NEW k \in Int, Divides(t, m)
  PROVE  Divides(t, k * m)
<1>1. PICK u \in Int : m = t * u
  BY DEF Divides
<1>2. k * m = t * (k * u) /\ k * u \in Int
  BY <1>1
<1> QED
  BY <1>2 DEF Divides

LEMMA DividesTrans ==
  ASSUME NEW t \in Int, NEW m \in Int, NEW n \in Int, Divides(t, m), Divides(m, n)
  PROVE  Divides(t, n)
<1>1. PICK u \in Int : n = m * u
  BY DEF Divides
<1>2. Divides(t, u * m)
  BY <1>1, DividesMultiple
<1> QED
  BY <1>1, <1>2

\* Frac takes the greatest common factor out.
LEMMA FracTakesOut ==
  ASSUME NEW n \in Int, NEW d \in Int, d # 0
  PROVE  /\ IsRat(Frac(n, d))
         /\ \E g \in Int : g # 0 /\ n = g * Frac(n, d)[1] /\ d = g * Frac(n, d)[2]
<1> DEFINE s == IF d < 0 THEN -1 ELSE 1
<1>1. PICK N, D : N = Abs(n) /\ D = Abs(d)
  OBVIOUS
<1>2. N \in Nat /\ D \in Nat /\ D > 0 /\ D = s * d
  BY <1>1 DEF Abs
<1>3. PICK g : g = Gcd[D][N]
  OBVIOUS
<1>4. IsGcd(g, N, D)
  BY <1>2, <1>3, GcdIsGreatest
<1>5. g \in Nat /\ g > 0
  BY <1>2, <1>4, DividesOrder DEF IsGcd
<1>6. PICK b \in Int : D = g * b
  BY <1>4 DEF IsGcd, Divides
<1>7. PICK a \in Int : n = g * a
  <2>1. PICK k \in Int : N = g * k
    BY <1>4 DEF IsGcd, Divides
  <2>2. -k \in Int /\ (n = g * k \/ n = g * (-k))
    BY <1>1, <1>5, <2>1 DEF Abs
  <2> QED
    BY <2>1, <2>2
<1>8. b \in Nat /\ b > 0
  BY <1>2, <1>5, <1>6
<1>9. s \in Int /\ s # 0 /\ s * s = 1 /\ d = g * (s * b) /\ s * b \in Int
  BY <1>2, <1>5, <1>6, <1>8
<1>10. Frac(n, d) = << s * a, b >>
  <2>1. n \div g = a /\ d \div g = s * b
    BY <1>5, <1>7, <1>9, ExactDivision
  <2>2. Frac(n, d) = << s * (n \div g), s * (d \div g) >>
    BY <1>1, <1>3 DEF Frac
  <2>3. s * (s * b) = b
    BY <1>8
  <2> QED
    BY <2>1, <2>2, <2>3
<1>11. Coprime(s * a, b)
  <2> SUFFICES ASSUME NEW t \in Nat, Divides(t, s * a), Divides(t, b) PROVE t = 1
    BY DEF Coprime
  <2>1. PICK u \in Int : s * a = t * u
    BY DEF Divides
  <2>2. PICK v \in Int : b = t * v
    BY DEF Divides
  <2>3. Divides(g * t, D)
    <3>1. D = (g * t) * v
      BY <1>5, <1>6, <2>2
    <3> QED
      BY <3>1 DEF Divides
  <2>4. Divides(g * t, N)
    <3>1. N = n \/ N = -n
      BY <1>1 DEF Abs
    <3>2. PICK w \in Int : n = (g * t) * w
      <4>1. a = s * (t * u)
        BY <1>7, <2>1
      <4>2. n = (g * t) * (s * u) /\ s * u \in Int
        BY <1>5, <1>7, <4>1
      <4> QED
        BY <4>2
    <3>3. N = (g * t) * w \/ N = (g * t) * (-w)
      BY <1>5, <3>1, <3>2
    <3> QED
      BY <3>2, <3>3 DEF Divides
  <2>5. g * t \in Nat
    BY <1>5
  <2>6. Divides(g * t, g)
    BY <1>4, <2>3, <2>4, <2>5 DEF IsGcd
  <2>7. g * t <= g /\ t > 0
    <3>1. g * t > 0 /\ g * t <= g
      BY <1>5, <2>5, <2>6, DividesOrder
    <3>2. t # 0
      BY <1>5, <3>1
    <3> QED
      BY <3>1, <3>2
  <2> QED
    BY <1>5, <2>7
<1>12. IsRat(<< s * a, b >>)
  BY <1>7, <1>8, <1>9, <1>11, CoprimeRat
<1>13. PICK k, p : k = s * g /\ p = s * a
  OBVIOUS
<1>14. k \in Int /\ k # 0 /\ p \in Int /\ n = k * p /\ d = k * b
  BY <1>5, <1>7, <1>8, <1>9, <1>13
<1> HIDE DEF s
<1>15. Frac(n, d)[1] = p /\ Frac(n, d)[2] = b
  BY <1>10, <1>13
<1> QED
  BY <1>10, <1>12, <1>14, <1>15

LEMMA FracMeans ==
  ASSUME NEW n \in Int, NEW d \in Int, d # 0
  PROVE  IsRat(Frac(n, d)) /\ Means(Frac(n, d), n, d)
<1>1. PICK x : x = Frac(n, d)
  OBVIOUS
<1>2. IsRat(x) /\ \E g \in Int : g # 0 /\ n = g * x[1] /\ d = g * x[2]
  BY <1>1, FracTakesOut
<1>3. PICK p, q : p = x[1] /\ q = x[2]
  OBVIOUS
<1>4. p \in Int /\ q \in Int
  BY <1>2, <1>3, RatParts
<1>5. PICK g \in Int : n = g * p /\ d = g * q
  BY <1>2, <1>3
<1>6. p * d = n * q
  BY <1>4, <1>5
<1> QED
  BY <1>1, <1>2, <1>3, <1>6 DEF Means

LEMMA MeansUnscaled ==
  ASSUME NEW x, IsRat(x), NEW k \in Int, k # 0, NEW n \in Int, NEW d \in Int, d # 0, Means(x, n, d)
  PROVE  Means(x, k * n, k * d)
<1>1. PICK p, q : p = x[1] /\ q = x[2]
  OBVIOUS
<1>2. p \in Int /\ q \in Int /\ p * d = n * q
  BY <1>1, RatParts DEF Means
<1>3. p * (k * d) = (k * n) * q
  <2>1. p * (k * d) = k * (p * d) /\ (k * n) * q = k * (n * q)
    BY <1>2
  <2> QED
    BY <1>2, <2>1
<1>4. k * d # 0 /\ k * d \in Int /\ k * n \in Int
  OBVIOUS
<1> QED
  BY <1>1, <1>3, <1>4 DEF Means

LEMMA GcdPositive ==
  ASSUME NEW m \in Nat, m > 0, NEW n \in Nat
  PROVE  /\ Gcd[n][m] \in Nat /\ Gcd[n][m] > 0
         /\ Divides(Gcd[n][m], m) /\ Divides(Gcd[n][m], n)
  BY GcdIsGreatest, DividesOrder DEF IsGcd

LEMMA SumMeans ==
  ASSUME NEW a, NEW b, IsRat(a), IsRat(b)
  PROVE  IsRat(a \oplus b) /\ Means(a \oplus b, a[1] * b[2] + b[1] * a[2], a[2] * b[2])
<1>1. PICK m, d : m = a[1] /\ d = a[2]
  OBVIOUS
<1>2. PICK n, e : n = b[1] /\ e = b[2]
  OBVIOUS
<1>3. m \in Int /\ n \in Int /\ d \in Nat /\ d > 0 /\ e \in Nat /\ e > 0
  BY <1>1, <1>2, RatParts
<1>4. PICK g : g = Gcd[e][d]
  OBVIOUS
<1>5. g \in Nat /\ g > 0 /\ Divides(g, d) /\ Divides(g, e)
  BY <1>3, <1>4, GcdPositive
<1>6. PICK u \in Int : d = g * u
  BY <1>5 DEF Divides
<1>7. PICK v \in Int : e = g * v
  BY <1>5 DEF Divides
<1>8. d \div g = u /\ e \div g = v /\ u > 0
  BY <1>3, <1>5, <1>6, <1>7, ExactDivision
<1>9. PICK N, D : N = m * v + n * u /\ D = u * e
  OBVIOUS
<1>10. a \oplus b = Frac(N, D)
  BY <1>1, <1>2, <1>4, <1>8, <1>9 DEF \oplus
<1>11. N \in Int /\ D \in Int /\ D # 0
  BY <1>3, <1>8, <1>9
<1>12. IsRat(Frac(N, D)) /\ Means(Frac(N, D), N, D)
  BY <1>11, FracMeans
<1>13. Means(Frac(N, D), g * N, g * D)
  BY <1>5, <1>11, <1>12, MeansUnscaled
<1>14. g * N = m * e + n * d /\ g * D = d * e
  BY <1>3, <1>5, <1>6, <1>7, <1>9
<1> QED
  BY <1>1, <1>2, <1>10, <1>12, <1>13, <1>14

LEMMA CoprimeProducts ==
  ASSUME NEW a \in Int, NEW b \in Int, NEW c \in Nat, c > 0, Coprime(a, c), Coprime(b, c)
  PROVE  Coprime(a * b, c)
<1> SUFFICES ASSUME NEW t \in Nat, Divides(t, a * b), Divides(t, c) PROVE t = 1
  BY DEF Coprime
<1>1. t > 0
  BY DividesOrder
<1>2. Coprime(a, t)
  <2> SUFFICES ASSUME NEW u \in Nat, Divides(u, a), Divides(u, t) PROVE u = 1
    BY DEF Coprime
  <2>1. Divides(u, c)
    BY DividesTrans
  <2> QED
    BY <2>1 DEF Coprime
<1>3. Divides(t, b)
  BY <1>1, <1>2, Gauss
<1> QED
  BY <1>3 DEF Coprime

LEMMA CoprimeDenominators ==
  ASSUME NEW a \in Int, NEW b \in Nat, NEW c \in Nat, b > 0, c > 0, Coprime(a, b), Coprime(a, c)
  PROVE  Coprime(a, b * c)
<1> SUFFICES ASSUME NEW t \in Nat, Divides(t, a), Divides(t, b * c) PROVE t = 1
  BY DEF Coprime
<1>1. t > 0
  <2>1. b * c \in Nat /\ b * c > 0
    OBVIOUS
  <2> QED
    BY <2>1, DividesOrder
<1>2. Coprime(b, t)
  <2> SUFFICES ASSUME NEW u \in Nat, Divides(u, b), Divides(u, t) PROVE u = 1
    BY DEF Coprime
  <2>1. Divides(u, a)
    BY DividesTrans
  <2> QED
    BY <2>1 DEF Coprime
<1>3. Divides(t, c)
  BY <1>1, <1>2, Gauss
<1> QED
  BY <1>3 DEF Coprime

LEMMA ProductMeans ==
  ASSUME NEW a, NEW b, IsRat(a), IsRat(b)
  PROVE  IsRat(a \otimes b) /\ Means(a \otimes b, a[1] * b[1], a[2] * b[2])
<1>1. PICK m, d : m = a[1] /\ d = a[2]
  OBVIOUS
<1>2. PICK n, e : n = b[1] /\ e = b[2]
  OBVIOUS
<1>3. m \in Int /\ n \in Int /\ d \in Nat /\ d > 0 /\ e \in Nat /\ e > 0
  BY <1>1, <1>2, RatParts
<1>4. PICK x, y : x = Frac(m, e) /\ y = Frac(n, d)
  OBVIOUS
<1>5. PICK p, q : p = x[1] /\ q = x[2]
  OBVIOUS
<1>6. PICK r, s : r = y[1] /\ s = y[2]
  OBVIOUS
<1>7. IsRat(x) /\ IsRat(y)
  BY <1>3, <1>4, FracTakesOut
<1>8. /\ p \in Int /\ r \in Int /\ q \in Nat /\ q > 0 /\ s \in Nat /\ s > 0
      /\ Coprime(p, q) /\ Coprime(r, s)
  BY <1>5, <1>6, <1>7, RatParts, RatCoprime
<1>9. PICK g \in Int : g # 0 /\ m = g * p /\ e = g * q
  BY <1>3, <1>4, <1>5, FracTakesOut
<1>10. PICK h \in Int : h # 0 /\ n = h * r /\ d = h * s
  BY <1>3, <1>4, <1>6, FracTakesOut
<1>11. Coprime(m, d) /\ Coprime(n, e)
  BY <1>1, <1>2, RatCoprime
<1>12. Coprime(p, s)
  <2> SUFFICES ASSUME NEW t \in Nat, Divides(t, p), Divides(t, s) PROVE t = 1
    BY DEF Coprime
  <2>1. Divides(t, g * p) /\ Divides(t, h * s)
    BY <1>8, DividesMultiple
  <2> QED
    BY <1>9, <1>10, <1>11, <2>1 DEF Coprime
<1>13. Coprime(r, q)
  <2> SUFFICES ASSUME NEW t \in Nat, Divides(t, r), Divides(t, q) PROVE t = 1
    BY DEF Coprime
  <2>1. Divides(t, h * r) /\ Divides(t, g * q)
    BY <1>8, DividesMultiple
  <2> QED
    BY <1>9, <1>10, <1>11, <2>1 DEF Coprime
<1>14. PICK N, D : N = p * r /\ D = q * s
  OBVIOUS
<1>15. N \in Int /\ D \in Nat /\ D > 0
  BY <1>8, <1>14
<1>16. Coprime(N, D)
  BY <1>8, <1>12, <1>13, <1>14, CoprimeProducts, CoprimeDenominators
<1>17. a \otimes b = << N, D >>
  BY <1>1, <1>2, <1>4, <1>5, <1>6, <1>14 DEF \otimes
<1>18. IsRat(<< N, D >>)
  BY <1>15, <1>16, CoprimeRat
<1>19. N * (d * e) = (m * n) * D
  <2>1. N * (d * e) = (p * r) * ((h * s) * (g * q))
    BY <1>9, <1>10, <1>14
  <2>2. (m * n) * D = ((g * p) * (h * r)) * (q * s)
    BY <1>9, <1>10, <1>14
  <2>3. (p * r) * ((h * s) * (g * q)) = ((g * p) * (h * r)) * (q * s)
    BY <1>8
  <2> QED
    BY <2>1, <2>2, <2>3
<1>20. d * e # 0 /\ d * e \in Int /\ m * n \in Int
  BY <1>3
<1>21. PICK z : z = << N, D >>
  OBVIOUS
<1>22. z[1] = N /\ z[2] = D
  BY <1>21
<1>23. Means(z, m * n, d * e)
  BY <1>19, <1>20, <1>22 DEF Means
<1> QED
  BY <1>1, <1>2, <1>17, <1>18, <1>21, <1>23

LEMMA MeansSame ==
  ASSUME NEW x, IsRat(x), NEW n, NEW d, Means(x, n, d),
         NEW m \in Int, NEW e \in Int, e # 0, n * e = m * d
  PROVE  Means(x, m, e)
<1>1. PICK p, q : p = x[1] /\ q = x[2]
  OBVIOUS
<1>2. p \in Int /\ q \in Int /\ n \in Int /\ d \in Int /\ d # 0 /\ p * d = n * q
  BY <1>1, RatParts DEF Means
<1>3. d * (p * e) = (p * d) * e
  BY <1>2
<1>4. d * (m * q) = (n * e) * q
  <2>1. d * (m * q) = (m * d) * q
    BY <1>2
  <2> QED
    BY <2>1
<1>5. (p * d) * e = (n * q) * e
  BY <1>2
<1>6. (n * q) * e = (n * e) * q
  BY <1>2
<1>7. p * e \in Int /\ m * q \in Int /\ d * (p * e) = d * (m * q)
  BY <1>2, <1>3, <1>4, <1>5, <1>6
<1>8. p * e = m * q
  BY <1>2, <1>7, Cancel
<1> QED
  BY <1>1, <1>8 DEF Means

\* The parts of x and y as integers, for arithmetic.
LEMMA SumOf ==
  ASSUME NEW x, NEW y, IsRat(x), IsRat(y), NEW n, NEW d, NEW m, NEW e,
         Means(x, n, d), Means(y, m, e)
  PROVE  IsRat(x \oplus y) /\ Means(x \oplus y, n * e + m * d, d * e)
<1>1. PICK p, q : p = x[1] /\ q = x[2]
  OBVIOUS
<1>2. PICK r, s : r = y[1] /\ s = y[2]
  OBVIOUS
<1>3. PICK z : z = x \oplus y
  OBVIOUS
<1>4. IsRat(z) /\ Means(z, p * s + r * q, q * s)
  BY <1>1, <1>2, <1>3, SumMeans
<1>5. /\ p \in Int /\ q \in Int /\ r \in Int /\ s \in Int
      /\ n \in Int /\ d \in Int /\ m \in Int /\ e \in Int /\ d # 0 /\ e # 0
      /\ p * d = n * q /\ r * e = m * s
  BY <1>1, <1>2, RatParts DEF Means
<1>6. (p * s + r * q) * (d * e) = (n * e + m * d) * (q * s)
  <2>1. (p * s + r * q) * (d * e) = (p * d) * (s * e) + (r * e) * (q * d)
    BY <1>5
  <2>2. (p * d) * (s * e) + (r * e) * (q * d) = (n * q) * (s * e) + (m * s) * (q * d)
    BY <1>5
  <2>3. (n * q) * (s * e) + (m * s) * (q * d) = (n * e + m * d) * (q * s)
    BY <1>5
  <2> QED
    BY <2>1, <2>2, <2>3
<1>7. n * e + m * d \in Int /\ d * e \in Int /\ d * e # 0
  BY <1>5
<1> QED
  BY <1>3, <1>4, <1>6, <1>7, MeansSame

LEMMA ProductOf ==
  ASSUME NEW x, NEW y, IsRat(x), IsRat(y), NEW n, NEW d, NEW m, NEW e,
         Means(x, n, d), Means(y, m, e)
  PROVE  IsRat(x \otimes y) /\ Means(x \otimes y, n * m, d * e)
<1>1. PICK p, q : p = x[1] /\ q = x[2]
  OBVIOUS
<1>2. PICK r, s : r = y[1] /\ s = y[2]
  OBVIOUS
<1>3. PICK z : z = x \otimes y
  OBVIOUS
<1>4. IsRat(z) /\ Means(z, p * r, q * s)
  BY <1>1, <1>2, <1>3, ProductMeans
<1>5. /\ p \in Int /\ q \in Int /\ r \in Int /\ s \in Int
      /\ n \in Int /\ d \in Int /\ m \in Int /\ e \in Int /\ d # 0 /\ e # 0
      /\ p * d = n * q /\ r * e = m * s
  BY <1>1, <1>2, RatParts DEF Means
<1>6. (p * r) * (d * e) = (n * m) * (q * s)
  <2>1. (p * r) * (d * e) = (p * d) * (r * e)
    BY <1>5
  <2>2. (p * d) * (r * e) = (n * q) * (m * s)
    BY <1>5
  <2>3. (n * q) * (m * s) = (n * m) * (q * s)
    BY <1>5
  <2> QED
    BY <2>1, <2>2, <2>3
<1>7. n * m \in Int /\ d * e \in Int /\ d * e # 0
  BY <1>5
<1> QED
  BY <1>3, <1>4, <1>6, <1>7, MeansSame

Negative(x)   == << -x[1], x[2] >>
Reciprocal(x) == IF x[1] < 0 THEN << -x[2], -x[1] >> ELSE << x[2], x[1] >>

LEMMA NegativeOf ==
  ASSUME NEW x, IsRat(x), NEW n, NEW d, Means(x, n, d)
  PROVE  IsRat(Negative(x)) /\ Means(Negative(x), -n, d)
<1>1. PICK p, q : p = x[1] /\ q = x[2]
  OBVIOUS
<1>2. p \in Int /\ q \in Nat /\ q > 0 /\ p * d = n * q /\ n \in Int /\ d \in Int /\ d # 0
  BY <1>1, RatParts DEF Means
<1>3. Coprime(-p, q)
  <2> SUFFICES ASSUME NEW t \in Nat, Divides(t, -p), Divides(t, q) PROVE t = 1
    BY DEF Coprime
  <2>1. PICK u \in Int : u = -p
    BY <1>2
  <2>2. Divides(t, (-1) * u) /\ (-1) * u = p
    BY <1>2, <2>1, DividesMultiple
  <2>3. Divides(t, p)
    BY <2>2
  <2> QED
    BY <1>1, <2>3, RatCoprime DEF Coprime
<1>4. IsRat(<< -p, q >>)
  BY <1>2, <1>3, CoprimeRat
<1>5. (-p) * d = (-n) * q
  BY <1>2
<1>6. PICK z : z = << -p, q >>
  OBVIOUS
<1>7. z[1] = -p /\ z[2] = q /\ z = Negative(x)
  BY <1>1, <1>6 DEF Negative
<1> QED
  BY <1>2, <1>4, <1>5, <1>6, <1>7 DEF Means

LEMMA DifferenceOf ==
  ASSUME NEW x, NEW y, IsRat(x), IsRat(y), NEW n, NEW d, NEW m, NEW e,
         Means(x, n, d), Means(y, m, e)
  PROVE  IsRat(x \ominus y) /\ Means(x \ominus y, n * e - m * d, d * e)
<1>1. PICK z : z = Negative(y)
  OBVIOUS
<1>2. IsRat(z) /\ Means(z, -m, e) /\ x \ominus y = x \oplus z
  BY <1>1, NegativeOf DEF \ominus, Negative
<1>3. IsRat(x \oplus z) /\ Means(x \oplus z, n * e + (-m) * d, d * e)
  BY <1>2, SumOf
<1>4. n * e + (-m) * d = n * e - m * d
  BY DEF Means
<1> QED
  BY <1>2, <1>3, <1>4

LEMMA ReciprocalOf ==
  ASSUME NEW x, IsRat(x), NEW n, NEW d, Means(x, n, d), n # 0
  PROVE  IsRat(Reciprocal(x)) /\ Means(Reciprocal(x), d, n)
<1>1. PICK p, q : p = x[1] /\ q = x[2]
  OBVIOUS
<1>2. p \in Int /\ q \in Nat /\ q > 0 /\ p * d = n * q /\ n \in Int /\ d \in Int /\ d # 0
  BY <1>1, RatParts DEF Means
<1>3. p # 0
  <2>1. n * q # 0
    BY <1>2
  <2> QED
    BY <1>2, <2>1
<1>4. PICK r, s : r = (IF p < 0 THEN -q ELSE q) /\ s = (IF p < 0 THEN -p ELSE p)
  OBVIOUS
<1>5. r \in Int /\ s \in Nat /\ s > 0 /\ r * n = d * s
  <2>1. CASE p < 0
    BY <1>2, <1>4, <2>1
  <2>2. CASE p > 0
    BY <1>2, <1>4, <2>2
  <2> QED
    BY <1>2, <1>3, <2>1, <2>2
<1>6. Coprime(r, s)
  <2> SUFFICES ASSUME NEW t \in Nat, Divides(t, r), Divides(t, s) PROVE t = 1
    BY DEF Coprime
  <2>1. Divides(t, (-1) * r) /\ Divides(t, (-1) * s)
    BY <1>5, DividesMultiple
  <2>2. (q = r \/ q = (-1) * r) /\ (p = s \/ p = (-1) * s)
    BY <1>2, <1>4
  <2>3. Divides(t, p) /\ Divides(t, q)
    BY <2>1, <2>2
  <2> QED
    BY <1>1, <2>3, RatCoprime DEF Coprime
<1>7. IsRat(<< r, s >>)
  BY <1>5, <1>6, CoprimeRat
<1>8. PICK z : z = << r, s >>
  OBVIOUS
<1>9. z[1] = r /\ z[2] = s /\ z = Reciprocal(x)
  BY <1>1, <1>4, <1>8 DEF Reciprocal
<1> QED
  BY <1>2, <1>5, <1>7, <1>8, <1>9 DEF Means

LEMMA QuotientOf ==
  ASSUME NEW x, NEW y, IsRat(x), IsRat(y), NEW n, NEW d, NEW m, NEW e,
         Means(x, n, d), Means(y, m, e), m # 0
  PROVE  IsRat(x \oslash y) /\ Means(x \oslash y, n * e, d * m)
<1>1. PICK z : z = Reciprocal(y)
  OBVIOUS
<1>2. IsRat(z) /\ Means(z, e, m) /\ x \oslash y = x \otimes z
  BY <1>1, ReciprocalOf DEF \oslash, Reciprocal
<1> QED
  BY <1>2, ProductOf

LEMMA MeansItself ==
  ASSUME NEW x, IsRat(x)
  PROVE  Means(x, x[1], x[2]) /\ x[1] \in Int /\ x[2] \in Int /\ x[2] > 0
  BY RatParts DEF Means

LEMMA ZeroOne ==
  /\ IsRat(Zero) /\ IsRat(One) /\ Zero # One
  /\ Zero[1] = 0 /\ Zero[2] = 1 /\ One[1] = 1 /\ One[2] = 1
<1>1. Coprime(0, 1) /\ Coprime(1, 1)
  BY DividesOrder DEF Coprime
<1> QED
  BY <1>1, CoprimeRat DEF Zero, One, Rat

LEMMA Integral == ASSUME NEW n \in Int PROVE IsRat(Rat(n))
<1>1. Coprime(n, 1)
  BY DividesOrder DEF Coprime
<1> QED
  BY <1>1, CoprimeRat DEF Rat

LEMMA NonZero == ASSUME NEW x, IsRat(x) PROVE x[1] = 0 <=> x = Zero
<1>1. ASSUME x[1] = 0 PROVE x = Zero
  <2>1. Means(x, 0, 1) /\ Means(Zero, 0, 1)
    BY <1>1, RatParts, ZeroOne DEF Means
  <2> QED
    BY <2>1, ZeroOne, SameMeaning
<1> QED
  BY <1>1, ZeroOne

LEMMA SumIsRat ==
  ASSUME NEW a, NEW b, IsRat(a), IsRat(b) PROVE IsRat(a \oplus b)
  BY SumMeans

LEMMA DifferenceIsRat ==
  ASSUME NEW a, NEW b, IsRat(a), IsRat(b) PROVE IsRat(a \ominus b)
  BY MeansItself, DifferenceOf

LEMMA ProductIsRat ==
  ASSUME NEW a, NEW b, IsRat(a), IsRat(b) PROVE IsRat(a \otimes b)
  BY ProductMeans

LEMMA QuotientIsRat ==
  ASSUME NEW a, NEW b, IsRat(a), IsRat(b), b # Zero PROVE IsRat(a \oslash b)
  BY MeansItself, NonZero, QuotientOf

LEMMA SumCommutes ==
  ASSUME NEW a, NEW b, IsRat(a), IsRat(b) PROVE a \oplus b = b \oplus a
<1>1. PICK m, d : m = a[1] /\ d = a[2]
  OBVIOUS
<1>2. PICK n, e : n = b[1] /\ e = b[2]
  OBVIOUS
<1>3. m \in Int /\ n \in Int /\ d \in Int /\ d > 0 /\ e \in Int /\ e > 0
  BY <1>1, <1>2, MeansItself
<1>4. m * e + n * d = n * d + m * e /\ d * e = e * d
  BY <1>3
<1> QED
  BY <1>1, <1>2, <1>4, SumMeans, SameMeaning

LEMMA SumAssociates ==
  ASSUME NEW a, NEW b, NEW c, IsRat(a), IsRat(b), IsRat(c)
  PROVE  (a \oplus b) \oplus c = a \oplus (b \oplus c)
<1>1. PICK m, d : m = a[1] /\ d = a[2]
  OBVIOUS
<1>2. PICK n, e : n = b[1] /\ e = b[2]
  OBVIOUS
<1>3. PICK p, q : p = c[1] /\ q = c[2]
  OBVIOUS
<1>4. /\ m \in Int /\ n \in Int /\ p \in Int /\ d \in Int /\ e \in Int /\ q \in Int
      /\ Means(a, m, d) /\ Means(b, n, e) /\ Means(c, p, q)
  BY <1>1, <1>2, <1>3, MeansItself
<1>5. /\ IsRat((a \oplus b) \oplus c)
      /\ Means((a \oplus b) \oplus c, (m * e + n * d) * q + p * (d * e), (d * e) * q)
  BY <1>4, SumOf
<1>6. /\ IsRat(a \oplus (b \oplus c))
      /\ Means(a \oplus (b \oplus c), m * (e * q) + (n * q + p * e) * d, d * (e * q))
  BY <1>4, SumOf
<1>7. /\ (m * e + n * d) * q + p * (d * e) = m * (e * q) + (n * q + p * e) * d
      /\ (d * e) * q = d * (e * q)
  BY <1>4
<1> QED
  BY <1>5, <1>6, <1>7, SameMeaning

LEMMA ProductCommutes ==
  ASSUME NEW a, NEW b, IsRat(a), IsRat(b) PROVE a \otimes b = b \otimes a
<1>1. PICK m, d : m = a[1] /\ d = a[2]
  OBVIOUS
<1>2. PICK n, e : n = b[1] /\ e = b[2]
  OBVIOUS
<1>3. m \in Int /\ n \in Int /\ d \in Int /\ d > 0 /\ e \in Int /\ e > 0
  BY <1>1, <1>2, MeansItself
<1>4. m * n = n * m /\ d * e = e * d
  BY <1>3
<1> QED
  BY <1>1, <1>2, <1>4, ProductMeans, SameMeaning

LEMMA ProductAssociates ==
  ASSUME NEW a, NEW b, NEW c, IsRat(a), IsRat(b), IsRat(c)
  PROVE  (a \otimes b) \otimes c = a \otimes (b \otimes c)
<1>1. PICK m, d : m = a[1] /\ d = a[2]
  OBVIOUS
<1>2. PICK n, e : n = b[1] /\ e = b[2]
  OBVIOUS
<1>3. PICK p, q : p = c[1] /\ q = c[2]
  OBVIOUS
<1>4. /\ m \in Int /\ n \in Int /\ p \in Int /\ d \in Int /\ e \in Int /\ q \in Int
      /\ Means(a, m, d) /\ Means(b, n, e) /\ Means(c, p, q)
  BY <1>1, <1>2, <1>3, MeansItself
<1>5. /\ IsRat((a \otimes b) \otimes c)
      /\ Means((a \otimes b) \otimes c, (m * n) * p, (d * e) * q)
  BY <1>4, ProductOf
<1>6. /\ IsRat(a \otimes (b \otimes c))
      /\ Means(a \otimes (b \otimes c), m * (n * p), d * (e * q))
  BY <1>4, ProductOf
<1>7. (m * n) * p = m * (n * p) /\ (d * e) * q = d * (e * q)
  BY <1>4
<1> QED
  BY <1>5, <1>6, <1>7, SameMeaning

LEMMA Distributes ==
  ASSUME NEW a, NEW b, NEW c, IsRat(a), IsRat(b), IsRat(c)
  PROVE  a \otimes (b \oplus c) = (a \otimes b) \oplus (a \otimes c)
<1>1. PICK m, d : m = a[1] /\ d = a[2]
  OBVIOUS
<1>2. PICK n, e : n = b[1] /\ e = b[2]
  OBVIOUS
<1>3. PICK p, q : p = c[1] /\ q = c[2]
  OBVIOUS
<1>4. /\ m \in Int /\ n \in Int /\ p \in Int /\ d \in Int /\ e \in Int /\ q \in Int
      /\ d > 0 /\ e > 0 /\ q > 0
      /\ Means(a, m, d) /\ Means(b, n, e) /\ Means(c, p, q)
  BY <1>1, <1>2, <1>3, MeansItself
<1>5. /\ IsRat(a \otimes (b \oplus c))
      /\ Means(a \otimes (b \oplus c), m * (n * q + p * e), d * (e * q))
  BY <1>4, ProductOf, SumOf
<1>6. /\ IsRat((a \otimes b) \oplus (a \otimes c))
      /\ Means((a \otimes b) \oplus (a \otimes c),
               (m * n) * (d * q) + (m * p) * (d * e), (d * e) * (d * q))
  BY <1>4, ProductOf, SumOf
<1>7. PICK x, u, v : x = a \otimes (b \oplus c) /\ u = m * (n * q + p * e) /\ v = d * (e * q)
  OBVIOUS
<1>8. Means(x, d * u, d * v)
  <2>1. IsRat(x) /\ Means(x, u, v) /\ d # 0
    BY <1>4, <1>5, <1>7
  <2>2. u \in Int /\ v \in Int /\ v # 0
    BY <2>1 DEF Means
  <2> QED
    BY <1>4, <2>1, <2>2, MeansUnscaled
<1>9. /\ d * u = (m * n) * (d * q) + (m * p) * (d * e)
      /\ d * v = (d * e) * (d * q)
  BY <1>4, <1>7
<1> QED
  BY <1>5, <1>6, <1>7, <1>8, <1>9, SameMeaning

LEMMA ZeroSum == ASSUME NEW a, IsRat(a) PROVE a \oplus Zero = a /\ Zero \oplus a = a
<1>1. PICK m, d : m = a[1] /\ d = a[2]
  OBVIOUS
<1>2. m \in Int /\ d \in Int /\ Means(a, m, d)
  BY <1>1, MeansItself
<1>3. IsRat(a \oplus Zero) /\ Means(a \oplus Zero, m * 1 + 0 * d, d * 1)
  BY <1>1, ZeroOne, SumMeans
<1>4. m * 1 + 0 * d = m /\ d * 1 = d
  BY <1>2
<1> QED
  BY <1>2, <1>3, <1>4, SameMeaning, SumCommutes, ZeroOne

LEMMA OneProduct == ASSUME NEW a, IsRat(a) PROVE a \otimes One = a /\ One \otimes a = a
<1>1. PICK m, d : m = a[1] /\ d = a[2]
  OBVIOUS
<1>2. m \in Int /\ d \in Int /\ Means(a, m, d)
  BY <1>1, MeansItself
<1>3. IsRat(a \otimes One) /\ Means(a \otimes One, m * 1, d * 1)
  BY <1>1, ZeroOne, ProductMeans
<1>4. m * 1 = m /\ d * 1 = d
  BY <1>2
<1> QED
  BY <1>2, <1>3, <1>4, SameMeaning, ProductCommutes, ZeroOne

LEMMA DifferenceCancels ==
  ASSUME NEW a, NEW b, IsRat(a), IsRat(b) PROVE (a \ominus b) \oplus b = a
<1>1. PICK m, d : m = a[1] /\ d = a[2]
  OBVIOUS
<1>2. PICK n, e : n = b[1] /\ e = b[2]
  OBVIOUS
<1>3. /\ m \in Int /\ n \in Int /\ d \in Int /\ e \in Int /\ d > 0 /\ e > 0
      /\ Means(a, m, d) /\ Means(b, n, e)
  BY <1>1, <1>2, MeansItself
<1>4. /\ IsRat((a \ominus b) \oplus b)
      /\ Means((a \ominus b) \oplus b, (m * e - n * d) * e + n * (d * e), (d * e) * e)
  BY <1>3, DifferenceOf, SumOf
<1>5. PICK x, u, v : x = (a \ominus b) \oplus b /\ u = (m * e - n * d) * e + n * (d * e)
                     /\ v = (d * e) * e
  OBVIOUS
<1>6. u * d = m * v
  BY <1>3, <1>5
<1>7. Means(x, m, d)
  BY <1>3, <1>4, <1>5, <1>6, MeansSame
<1> QED
  BY <1>3, <1>4, <1>5, <1>7, SameMeaning

LEMMA QuotientCancels ==
  ASSUME NEW a, NEW b, IsRat(a), IsRat(b), b # Zero PROVE (a \oslash b) \otimes b = a
<1>1. PICK m, d : m = a[1] /\ d = a[2]
  OBVIOUS
<1>2. PICK n, e : n = b[1] /\ e = b[2]
  OBVIOUS
<1>3. /\ m \in Int /\ n \in Int /\ d \in Int /\ e \in Int /\ d > 0 /\ e > 0 /\ n # 0
      /\ Means(a, m, d) /\ Means(b, n, e)
  BY <1>1, <1>2, MeansItself, NonZero
<1>4. /\ IsRat((a \oslash b) \otimes b)
      /\ Means((a \oslash b) \otimes b, (m * e) * n, (d * n) * e)
  BY <1>3, QuotientOf, ProductOf
<1>5. PICK x, u, v : x = (a \oslash b) \otimes b /\ u = (m * e) * n /\ v = (d * n) * e
  OBVIOUS
<1>6. u * d = m * v
  <2>1. u * d = m * ((d * n) * e)
    BY <1>3, <1>5
  <2> QED
    BY <1>5, <2>1
<1>7. Means(x, m, d)
  BY <1>3, <1>4, <1>5, <1>6, MeansSame
<1> QED
  BY <1>3, <1>4, <1>5, <1>7, SameMeaning

\* What holds of {}, and of a set when it does without one element, holds.
LEMMA SetInduction ==
  ASSUME NEW S, IsFiniteSet(S), NEW J, {} \in J,
         \A s \in SUBSET S : \A x \in s : s \ {x} \in J => s \in J
  PROVE  S \in J
<1> DEFINE Not == {n \in Nat : \E s \in SUBSET S : s \notin J /\ Cardinality(s) = n}
<1> SUFFICES ASSUME S \notin J PROVE FALSE
  OBVIOUS
<1>1. Cardinality(S) \in Not
  BY FS_CardinalityType
<1>2. PICK n \in Not : \A m \in Not : n <= m
  BY <1>1, LeastNat
<1>3. PICK s \in SUBSET S : s \notin J /\ Cardinality(s) = n
  OBVIOUS
<1>4. PICK x : x \in s
  BY <1>3
<1>5. PICK r : r = s \ {x}
  OBVIOUS
<1>6. IsFiniteSet(s) /\ r \in SUBSET S
  BY <1>5, FS_Subset
<1>7. Cardinality(r) = n - 1 /\ Cardinality(r) \in Nat
  BY <1>3, <1>4, <1>5, <1>6, FS_RemoveElement, FS_CardinalityType
<1>8. r \in J
  BY <1>2, <1>6, <1>7
<1> QED
  BY <1>3, <1>4, <1>5, <1>8

RatSet == {x \in Int \X (Nat \ {0}) : IsRat(x)}

LEMMA RatSetIs == \A x : x \in RatSet <=> IsRat(x)
  BY DEF RatSet, IsRat

Choice(s) == CHOOSE x \in s : TRUE

\* What the recursive definition of a sum asks of a function over the subsets.
SumsOn(g, f, s) == g[s] = IF s = {} THEN Zero ELSE f[Choice(s)] \oplus g[s \ {Choice(s)}]
Sums(g, f, S) == \A s \in SUBSET S : SumsOn(g, f, s)

LEMMA ChoiceIn == ASSUME NEW s, s # {} PROVE Choice(s) \in s
  BY DEF Choice

LEMMA SumsExist ==
  ASSUME NEW S, IsFiniteSet(S), NEW f, \A x \in S : IsRat(f[x])
  PROVE  \E g \in [SUBSET S -> RatSet] : Sums(g, f, S)
<1> DEFINE Upto(m) == \E g \in [SUBSET S -> RatSet] :
                        \A s \in SUBSET S : Cardinality(s) <= m => SumsOn(g, f, s)
           Not == {m \in Nat : ~Upto(m)}
<1>0. \A s \in SUBSET S : IsFiniteSet(s) /\ Cardinality(s) \in Nat
                          /\ Cardinality(s) <= Cardinality(S) /\ Cardinality(S) \in Nat
  BY FS_Subset, FS_CardinalityType
<1>1. Upto(0)
  <2>1. PICK g : g = [s \in SUBSET S |-> Zero]
    OBVIOUS
  <2>2. g \in [SUBSET S -> RatSet]
    BY <2>1, ZeroOne, RatSetIs
  <2>3. ASSUME NEW s \in SUBSET S, Cardinality(s) <= 0 PROVE SumsOn(g, f, s)
    <3>1. s = {}
      BY <1>0, <2>3, FS_EmptySet
    <3> QED
      BY <2>1, <3>1 DEF SumsOn
  <2> QED
    BY <2>2, <2>3
<1>2. ASSUME NEW m \in Nat, Upto(m) PROVE Upto(m + 1)
  <2>1. PICK g \in [SUBSET S -> RatSet] :
          \A s \in SUBSET S : Cardinality(s) <= m => SumsOn(g, f, s)
    BY <1>2
  <2>2. PICK h : h = [s \in SUBSET S |->
                        IF Cardinality(s) = m + 1 THEN f[Choice(s)] \oplus g[s \ {Choice(s)}]
                        ELSE g[s]]
    OBVIOUS
  <2>3. ASSUME NEW s \in SUBSET S, s # {}
        PROVE  /\ Choice(s) \in S /\ s \ {Choice(s)} \in SUBSET S
               /\ Cardinality(s \ {Choice(s)}) = Cardinality(s) - 1
    BY <1>0, <2>3, ChoiceIn, FS_RemoveElement
  <2>4. \A s \in SUBSET S : Cardinality(s) = m + 1 => s # {}
    <3>1. Cardinality({}) # m + 1
      BY FS_EmptySet
    <3> QED
      BY <3>1
  <2>5. h \in [SUBSET S -> RatSet]
    <3>1. ASSUME NEW s \in SUBSET S PROVE h[s] \in RatSet
      <4>1. CASE Cardinality(s) = m + 1
        <5>1. IsRat(f[Choice(s)]) /\ IsRat(g[s \ {Choice(s)}])
          BY <2>3, <2>4, <4>1, RatSetIs
        <5> QED
          BY <2>2, <4>1, <5>1, SumIsRat, RatSetIs
      <4>2. CASE Cardinality(s) # m + 1
        BY <2>2, <4>2
      <4> QED
        BY <4>1, <4>2
    <3> QED
      BY <2>2, <3>1
  <2>6. ASSUME NEW s \in SUBSET S, Cardinality(s) <= m + 1 PROVE SumsOn(h, f, s)
    <3>1. CASE s = {}
      <4>1. Cardinality(s) = 0
        BY <3>1, FS_EmptySet
      <4>2. h[s] = g[s] /\ SumsOn(g, f, s)
        BY <2>1, <2>2, <4>1
      <4> QED
        BY <3>1, <4>2 DEF SumsOn
    <3>2. CASE s # {}
      <4>1. PICK r : r = s \ {Choice(s)}
        OBVIOUS
      <4>2. r \in SUBSET S /\ Cardinality(r) = Cardinality(s) - 1
        BY <2>3, <3>2, <4>1
      <4>3. h[r] = g[r]
        BY <1>0, <2>2, <2>6, <4>2
      <4>4. h[s] = f[Choice(s)] \oplus g[r]
        <5>1. CASE Cardinality(s) = m + 1
          BY <2>2, <4>1, <5>1
        <5>2. CASE Cardinality(s) # m + 1
          <6>1. SumsOn(g, f, s)
            BY <1>0, <2>1, <2>6, <5>2
          <6> QED
            BY <2>2, <3>2, <4>1, <5>2, <6>1 DEF SumsOn
        <5> QED
          BY <5>1, <5>2
      <4> QED
        BY <3>2, <4>1, <4>3, <4>4 DEF SumsOn
    <3> QED
      BY <3>1, <3>2
  <2> QED
    BY <2>5, <2>6
<1> HIDE DEF Upto
<1>3. Not = {}
  <2> SUFFICES ASSUME Not # {} PROVE FALSE
    OBVIOUS
  <2>1. PICK m \in Not : \A k \in Not : m <= k
    BY LeastNat
  <2>2. m \in Nat /\ ~Upto(m) /\ m # 0
    BY <1>1
  <2>3. m - 1 \in Nat /\ m - 1 \notin Not
    BY <2>1, <2>2
  <2>4. Upto(m - 1 + 1)
    BY <1>2, <2>3
  <2> QED
    BY <2>2, <2>4
<1>4. Upto(Cardinality(S))
  BY <1>0, <1>3
<1> QED
  BY <1>0, <1>4 DEF Upto, Sums

\* Sums of functions that agree agree, on every set they both know.
LEMMA SumsAgree ==
  ASSUME NEW S, NEW T, T \subseteq S, IsFiniteSet(T), NEW f, NEW e, \A x \in T : e[x] = f[x],
         NEW g, NEW h, Sums(g, f, S), Sums(h, e, T)
  PROVE  h[T] = g[T]
<1> DEFINE Not == {n \in Nat : \E s \in SUBSET T : h[s] # g[s] /\ Cardinality(s) = n}
<1> SUFFICES ASSUME h[T] # g[T] PROVE FALSE
  OBVIOUS
<1>1. Cardinality(T) \in Not
  BY FS_CardinalityType
<1>2. PICK n \in Not : \A m \in Not : n <= m
  BY <1>1, LeastNat
<1>3. PICK s \in SUBSET T : h[s] # g[s] /\ Cardinality(s) = n
  OBVIOUS
<1>4. SumsOn(g, f, s) /\ SumsOn(h, e, s)
  BY DEF Sums
<1>5. s # {}
  BY <1>3, <1>4 DEF SumsOn
<1>6. PICK c, r : c = Choice(s) /\ r = s \ {c}
  OBVIOUS
<1>7. c \in s /\ r \in SUBSET T /\ e[c] = f[c]
  BY <1>5, <1>6, ChoiceIn
<1>8. Cardinality(r) = n - 1 /\ Cardinality(r) \in Nat
  <2>1. IsFiniteSet(s) /\ IsFiniteSet(r)
    BY <1>7, FS_Subset
  <2> QED
    BY <1>3, <1>6, <1>7, <2>1, FS_RemoveElement, FS_CardinalityType
<1>9. h[r] = g[r]
  BY <1>2, <1>7, <1>8
<1> QED
  BY <1>3, <1>4, <1>5, <1>6, <1>7, <1>9 DEF SumsOn

\* The sum of the values of f over s.
Over(f, s) == Total([x \in s |-> f[x]])

LEMMA TotalSums ==
  ASSUME NEW f, IsFiniteSet(DOMAIN f), \A x \in DOMAIN f : IsRat(f[x])
  PROVE  \E g : Sums(g, f, DOMAIN f) /\ Total(f) = g[DOMAIN f]
<1>1. PICK S : S = DOMAIN f
  OBVIOUS
<1>2. PICK g \in [SUBSET S -> RatSet] : Sums(g, f, S)
  BY <1>1, SumsExist
<1> DEFINE Is(h) == h = [s \in SUBSET S |->
                           IF s = {} THEN Zero ELSE f[Choice(s)] \oplus h[s \ {Choice(s)}]]
<1>3. Is(g)
  <2>1. \A s \in SUBSET S : g[s] = IF s = {} THEN Zero ELSE f[Choice(s)] \oplus g[s \ {Choice(s)}]
    BY <1>2 DEF Sums, SumsOn
  <2>2. g = [s \in SUBSET S |-> g[s]]
    OBVIOUS
  <2> QED
    BY <2>1, <2>2
<1>4. PICK h : h = CHOOSE e : Is(e)
  OBVIOUS
<1>5. Is(h)
  BY <1>3, <1>4
<1>6. Sums(h, f, S)
  BY <1>5 DEF Sums, SumsOn
<1>7. Total(f) = h[S]
  BY <1>1, <1>4 DEF Total, FoldFunction, FoldFunctionOnSet, MapThenFoldSet, Choice
<1> QED
  BY <1>1, <1>6, <1>7

LEMMA OverSums ==
  ASSUME NEW S, IsFiniteSet(S), NEW f, \A x \in S : IsRat(f[x]), NEW g, Sums(g, f, S),
         NEW s \in SUBSET S
  PROVE  Over(f, s) = g[s]
<1>1. PICK e : e = [x \in s |-> f[x]]
  OBVIOUS
<1>2. DOMAIN e = s /\ IsFiniteSet(s) /\ \A x \in s : e[x] = f[x] /\ IsRat(e[x])
  BY <1>1, FS_Subset
<1>3. PICK h : Sums(h, e, s) /\ Total(e) = h[s]
  BY <1>2, TotalSums
<1>4. h[s] = g[s]
  BY <1>2, <1>3, SumsAgree
<1> QED
  BY <1>1, <1>3, <1>4 DEF Over

\* A family of rationals over a finite set.
Family(f, S) == IsFiniteSet(S) /\ \A x \in S : IsRat(f[x])

LEMMA SubFamily ==
  ASSUME NEW f, NEW S, Family(f, S), NEW s \in SUBSET S PROVE Family(f, s)
  BY FS_Subset DEF Family

LEMMA OverIsRat == ASSUME NEW f, NEW S, Family(f, S) PROVE IsRat(Over(f, S))
<1>1. PICK g \in [SUBSET S -> RatSet] : Sums(g, f, S)
  BY SumsExist DEF Family
<1>2. Over(f, S) = g[S]
  BY <1>1, OverSums DEF Family
<1> QED
  BY <1>1, <1>2, RatSetIs

LEMMA OverEmpty == ASSUME NEW f PROVE Over(f, {}) = Zero
<1>1. IsFiniteSet({})
  BY FS_EmptySet
<1>2. PICK g : Sums(g, f, {})
  BY <1>1, SumsExist
<1>3. Over(f, {}) = g[{}]
  BY <1>1, <1>2, OverSums
<1> QED
  BY <1>2, <1>3 DEF Sums, SumsOn

\* Whatever element is added last.
LEMMA OverRemove ==
  ASSUME NEW f, NEW S, Family(f, S), NEW x \in S
  PROVE  Over(f, S) = f[x] \oplus Over(f, S \ {x})
<1>1. PICK g \in [SUBSET S -> RatSet] : Sums(g, f, S)
  BY SumsExist DEF Family
<1>2. ASSUME NEW s \in SUBSET S PROVE Over(f, s) = g[s] /\ IsRat(g[s])
  BY <1>1, OverSums, RatSetIs DEF Family
<1> DEFINE Free(s) == \A y \in s : g[s] = f[y] \oplus g[s \ {y}]
           Not == {n \in Nat : \E s \in SUBSET S : ~Free(s) /\ Cardinality(s) = n}
<1>3. ASSUME ~Free(S) PROVE FALSE
  <2>1. Cardinality(S) \in Not
    BY <1>3, FS_CardinalityType DEF Family
  <2>2. PICK n \in Not : \A m \in Not : n <= m
    BY <2>1, LeastNat
  <2>3. PICK s \in SUBSET S : ~Free(s) /\ Cardinality(s) = n
    OBVIOUS
  <2>4. PICK y \in s : g[s] # f[y] \oplus g[s \ {y}]
    BY <2>3
  <2>5. PICK c : c = Choice(s)
    OBVIOUS
  <2>6. c \in s /\ g[s] = f[c] \oplus g[s \ {c}]
    BY <1>1, <2>5, ChoiceIn DEF Sums, SumsOn
  <2>7. PICK r, t : r = s \ {c} /\ t = s \ {y}
    OBVIOUS
  <2>8. y # c /\ y \in r /\ c \in t /\ r \in SUBSET S /\ t \in SUBSET S
    BY <2>4, <2>6, <2>7
  <2>9. ASSUME NEW u \in SUBSET S, NEW z \in s, u = s \ {z} PROVE Free(u)
    <3>1. IsFiniteSet(s) /\ IsFiniteSet(u)
      BY FS_Subset DEF Family
    <3>2. Cardinality(u) = n - 1 /\ Cardinality(u) \in Nat
      BY <2>3, <2>9, <3>1, FS_RemoveElement, FS_CardinalityType
    <3> HIDE DEF Free
    <3> QED
      BY <2>2, <3>2
  <2>10. g[r] = f[y] \oplus g[r \ {y}] /\ g[t] = f[c] \oplus g[t \ {c}]
    BY <2>6, <2>7, <2>8, <2>9
  <2>11. PICK w : w = r \ {y}
    OBVIOUS
  <2>12. w = t \ {c} /\ w \in SUBSET S
    BY <2>7, <2>8, <2>11
  <2>13. PICK p, q, v : p = f[c] /\ q = f[y] /\ v = g[w]
    OBVIOUS
  <2>14. IsRat(p) /\ IsRat(q) /\ IsRat(v)
    BY <1>2, <2>6, <2>12, <2>13 DEF Family
  <2>15. p \oplus (q \oplus v) = q \oplus (p \oplus v)
    <3>1. p \oplus (q \oplus v) = (p \oplus q) \oplus v
      BY <2>14, SumAssociates
    <3>2. q \oplus (p \oplus v) = (q \oplus p) \oplus v
      BY <2>14, SumAssociates
    <3> QED
      BY <2>14, <3>1, <3>2, SumCommutes
  <2> QED
    BY <2>4, <2>6, <2>7, <2>10, <2>11, <2>12, <2>13, <2>15
<1>4. g[S] = f[x] \oplus g[S \ {x}]
  BY <1>3
<1>5. S \ {x} \in SUBSET S /\ S \in SUBSET S
  OBVIOUS
<1> QED
  BY <1>2, <1>4, <1>5

-----------------------------------------------------------------------------

Early == {"fx", "equities", "bonds", "actions", "trades", "capstock", "prewalk", "walk"}
Late  == {"postwalk", "catalog", "done"}

(***************************************************************************)
(* The inductive invariant of NavChains.  The rows in memory chain without *)
(* exception, and the state of a class is the last row written for it; the *)
(* tables chain but after a day that some post-walk entry is for.          *)
(***************************************************************************)

\* Each day of a table has a row for every class of the fund.
Rowed(nav) ==
  \A d \in DOMAIN nav :
    /\ d \in Days /\ DOMAIN nav[d] = DOMAIN fund.classes
    /\ \A c \in DOMAIN fund.classes : {"nav", "prior"} \subseteq DOMAIN nav[d][c]

Chains(nav, d) ==
  \A c \in DOMAIN fund.classes : nav[d + 1][c].prior = nav[d][c].nav

ClassesFollow(w) ==
  /\ DOMAIN w.classes = DOMAIN fund.classes
  /\ \A c \in DOMAIN fund.classes : "nav" \in DOMAIN w.classes[c]
  /\ w.day - 1 \in DOMAIN w.rows.nav =>
       \A c \in DOMAIN fund.classes : w.classes[c].nav = w.rows.nav[w.day - 1][c].nav

WalkShape(w) ==
  /\ w.day \in 1 .. LastDay + 1 /\ {"day", "classes", "rows"} \subseteq DOMAIN w
  /\ {"nav", "holdings", "fees", "receipts"} \subseteq DOMAIN w.rows
  /\ \A d \in DOMAIN w.rows.nav : d < w.day

WalkChains(w) ==
  /\ WalkShape(w) /\ Rowed(w.rows.nav) /\ ClassesFollow(w)
  /\ \A d \in DOMAIN w.rows.nav : d + 1 \in DOMAIN w.rows.nav => Chains(w.rows.nav, d)

BooksChain(b) ==
  /\ {"nav", "holdings", "fees", "receipts"} \subseteq DOMAIN b /\ Rowed(b.nav)
  /\ \A d \in DOMAIN b.nav :
       d + 1 \in DOMAIN b.nav => Chains(b.nav, d) \/ Marred(PostWalkCodes, d)

ChainInv ==
  /\ phase \in Early \cup Late
  /\ WalkChains(walk)
  /\ phase \in Early => books = NoBooks
  /\ phase \in Late => BooksChain(books)

USE DEF Early, Late

LEMMA InitChains == Init => ChainInv
<1> SUFFICES ASSUME Init PROVE ChainInv
  OBVIOUS
<1>1. WalkShape(walk)
  BY LastDayAssumption DEF Init, InitFundState, WalkShape, NoBooks
<1>2. Rowed(walk.rows.nav) /\ DOMAIN walk.rows.nav = {}
  BY DEF Init, InitFundState, Rowed, NoBooks
<1>3. ClassesFollow(walk)
  BY <1>2 DEF Init, InitFundState, ClassesFollow
<1> QED
  BY <1>1, <1>2, <1>3 DEF Init, ChainInv, WalkChains

\* A post-walk entry for another fund: one of the loop, and no row of this fund.
LEMMA ElsewhereKeeps ==
  ASSUME Elsewhere
  PROVE  /\ UNCHANGED << phase, fund, schedule, walk, books, catalog >>
         /\ phase = "postwalk" /\ cursor \in DOMAIN schedule /\ cursor' = cursor + 1
         /\ Entry.code \in PostWalkCodes /\ ~Mine(Entry)
  BY Zenon DEF Elsewhere, Defect2Elsewhere, Defect9Elsewhere, RowsElsewhere, DueElsewhere, Due,
               PostWalkCodes

\* The fund and its schedule are chosen once.
LEMMA NextSame == Next => fund' = fund /\ schedule' = schedule
  BY ElsewhereKeeps, Zenon DEF Next, Generate, PreWalk, PostWalk, WriteFx, WriteEquityPrices, WriteBonds,
         WriteCorporateActions, WriteTrades, WriteCapstock, Defect1, Defect3, Defect4, Defect7,
         WalkDay, BulkWrite, Defect2, Defect5, Defect6, Defect8, Defect9, Defect10, PassOver,
         EndInjection, UpdateCatalog, Built, vars

\* Every step but one of the walk and of the surgery leaves both alone.
LEMMA OthersKeep ==
  ASSUME Next, ChainInv, ~WalkDay, ~BulkWrite, ~PostWalk
  PROVE  /\ walk' = walk /\ books' = books /\ phase' \in Early \cup Late
         /\ phase' \in Early <=> phase \in Early
<1>1. CASE Generate
  BY <1>1 DEF Generate, WriteFx, WriteEquityPrices, WriteBonds, WriteCorporateActions,
              WriteTrades, WriteCapstock, Advance
<1>2. CASE PreWalk
  BY <1>2 DEF PreWalk, Defect1, Defect3, Defect4, Defect7, Due, DueHere, ChainInv
<1>3. CASE PassOver \/ EndInjection \/ UpdateCatalog \/ Built
  BY <1>3 DEF PassOver, EndInjection, UpdateCatalog, Built, Advance, vars, ChainInv
<1>4. CASE Elsewhere
  BY <1>4, ElsewhereKeeps DEF ChainInv
<1> QED
  BY <1>1, <1>2, <1>3, <1>4 DEF Next

\* A day passed over strikes nothing.
LEMMA SkippedChains ==
  ASSUME LastDay \in Nat, WalkChains(walk), walk.day \in Days,
         walk' = [walk EXCEPT !.day = @ + 1], fund' = fund
  PROVE  WalkChains(walk)'
<1>1. walk'.day = walk.day + 1 /\ walk'.rows = walk.rows /\ walk'.classes = walk.classes
      /\ DOMAIN walk' = DOMAIN walk
  BY DEF WalkChains, WalkShape
<1>2. walk.day \in Int /\ walk.day + 1 \in 1 .. LastDay + 1
  BY DEF Days
<1>3. WalkShape(walk)'
  BY <1>1, <1>2 DEF WalkChains, WalkShape, Rowed, Days
<1>4. Rowed(walk.rows.nav)'
  BY <1>1 DEF WalkChains, Rowed
<1>5. ClassesFollow(walk)'
  <2>1. walk'.day - 1 \notin DOMAIN walk'.rows.nav
    BY <1>1, <1>2 DEF WalkChains, WalkShape
  <2> QED
    BY <2>1, <1>1 DEF WalkChains, ClassesFollow
<1> QED
  BY <1>1, <1>3, <1>4, <1>5 DEF WalkChains, Chains

\* What a day struck is to the chain: the row of a class has the NAV the class
\* goes on with, and the NAV it had for its prior.
StruckDay(d, nav) ==
  /\ DOMAIN nav = DOMAIN fund.classes
  /\ \A c \in DOMAIN fund.classes :
       /\ {"nav", "prior"} \subseteq DOMAIN nav[c]
       /\ nav[c].prior = walk.classes[c].nav

LEMMA StepStrikes ==
  ASSUME WalkChains(walk), NEW d, walk' = StepOneDay(d)
  PROVE  \E nav :
           /\ StruckDay(d, nav)
           /\ walk'.rows.nav = Put(walk.rows.nav, d, nav) /\ walk'.day = d + 1
           /\ {"day", "classes", "rows"} \subseteq DOMAIN walk'
           /\ {"nav", "holdings", "fees", "receipts"} \subseteq DOMAIN walk'.rows
           /\ DOMAIN walk'.classes = DOMAIN fund.classes
           /\ \A c \in DOMAIN fund.classes :
                "nav" \in DOMAIN walk'.classes[c] /\ walk'.classes[c].nav = nav[c].nav
<1> DEFINE holdings == AfterTrades(d)
           hrows    == HoldingRows(holdings, d)
           receipts == Receipts(holdings, d)
           cash     == walk.cash \oplus TradeCash(d) \oplus ReceiptCash(receipts, d)
           assets   == cash \oplus Total([i \in DOMAIN hrows |-> hrows[i].mv_base])
           Day(c)   == ClassDay(c, FundReturn(assets), d)
           navs     == [c \in DOMAIN fund.classes |-> NavRow(Day(c), walk.classes[c].nav)]
<1>1. /\ walk'.rows.nav = Put(walk.rows.nav, d, navs) /\ walk'.day = d + 1
      /\ {"day", "classes", "rows"} \subseteq DOMAIN walk'
      /\ {"nav", "holdings", "fees", "receipts"} \subseteq DOMAIN walk'.rows
      /\ walk'.classes = [c \in DOMAIN fund.classes |->
             [walk.classes[c] EXCEPT !.shares = Day(c).shares, !.nav = Day(c).nav,
                                     !.balance = Day(c).target]]
  BY Zenon DEF StepOneDay
<1>2. StruckDay(d, navs)
  BY DEF NavRow, StruckDay
<1>3. \A c \in DOMAIN fund.classes :
        "nav" \in DOMAIN walk'.classes[c] /\ walk'.classes[c].nav = navs[c].nav
  <2> SUFFICES ASSUME NEW c \in DOMAIN fund.classes
               PROVE  "nav" \in DOMAIN walk'.classes[c] /\ walk'.classes[c].nav = navs[c].nav
    OBVIOUS
  <2>1. "nav" \in DOMAIN walk.classes[c]
    BY DEF WalkChains, ClassesFollow
  <2>2. navs[c].nav = Day(c).nav
    BY DEF NavRow
  <2> HIDE DEF Day, navs
  <2>3. walk'.classes[c] = [walk.classes[c] EXCEPT !.shares = Day(c).shares, !.nav = Day(c).nav,
                                                   !.balance = Day(c).target]
    BY <1>1
  <2> QED
    BY <2>1, <2>2, <2>3
<1> HIDE DEF navs
<1> QED
  BY <1>1, <1>2, <1>3

LEMMA StruckChains ==
  ASSUME LastDay \in Nat, WalkChains(walk), walk.day \in Days,
         walk' = StepOneDay(walk.day), fund' = fund
  PROVE  WalkChains(walk)'
<1> DEFINE d == walk.day
<1> HIDE DEF d
<1>1. PICK nav :
           /\ StruckDay(d, nav)
           /\ walk'.rows.nav = Put(walk.rows.nav, d, nav) /\ walk'.day = d + 1
           /\ {"day", "classes", "rows"} \subseteq DOMAIN walk'
           /\ {"nav", "holdings", "fees", "receipts"} \subseteq DOMAIN walk'.rows
           /\ DOMAIN walk'.classes = DOMAIN fund.classes
           /\ \A c \in DOMAIN fund.classes :
                "nav" \in DOMAIN walk'.classes[c] /\ walk'.classes[c].nav = nav[c].nav
  BY StepStrikes DEF d
<1>2. d \in Days /\ d \in Int /\ d + 1 \in 1 .. LastDay + 1
  BY DEF Days, d
<1>3. PICK old : old = walk.rows.nav
  OBVIOUS
<1>4. PICK new : new = walk'.rows.nav
  OBVIOUS
<1>5. \A x \in DOMAIN old : x \in Int /\ x < d
  BY <1>3 DEF WalkChains, WalkShape, Rowed, Days, d
<1>6. /\ DOMAIN new = DOMAIN old \cup {d} /\ new[d] = nav
      /\ \A x \in DOMAIN old : new[x] = old[x]
  <2>1. d \notin DOMAIN old
    BY <1>2, <1>5
  <2> QED
    BY <1>1, <1>3, <1>4, <2>1 DEF Put
<1>7. WalkShape(walk)'
  BY <1>1, <1>2, <1>4, <1>5, <1>6 DEF WalkShape
<1>8. Rowed(new)'
  <2>1. Rowed(old)
    BY <1>3 DEF WalkChains
  <2> QED
    BY <1>1, <1>2, <1>6, <2>1 DEF Rowed, StruckDay
<1>9. ClassesFollow(walk)'
  <2>1. walk'.day - 1 = d
    BY <1>1, <1>2
  <2> QED
    BY <1>1, <1>4, <1>6, <2>1 DEF ClassesFollow
<1>10. ASSUME NEW x \in DOMAIN new, x + 1 \in DOMAIN new PROVE Chains(new, x)'
  <2>1. x \in DOMAIN old
    BY <1>2, <1>5, <1>6, <1>10
  <2>2. CASE x + 1 \in DOMAIN old
    <3>1. Chains(old, x)
      BY <1>3, <2>1, <2>2 DEF WalkChains
    <3> QED
      BY <2>1, <2>2, <3>1, <1>6 DEF Chains
  <2>3. CASE x + 1 = d
    <3>1. d - 1 = x /\ d - 1 \in DOMAIN old
      BY <1>5, <2>1, <2>3
    <3>2. \A c \in DOMAIN fund.classes : walk.classes[c].nav = old[x][c].nav
      BY <3>1, <1>3 DEF WalkChains, ClassesFollow, d
    <3>3. new[x + 1] = nav /\ new[x] = old[x]
      BY <2>1, <2>3, <1>6
    <3> QED
      BY <3>2, <3>3, <1>1 DEF StruckDay, Chains
  <2> QED
    BY <2>2, <2>3, <1>6, <1>10
<1> QED
  BY <1>4, <1>7, <1>8, <1>9, <1>10 DEF WalkChains

\* A table of which surgery has touched the rows of one day: it keeps their
\* prior, or copies it from the day before.
Surgery(old, new, d) ==
  /\ DOMAIN new = DOMAIN old
  /\ \A x \in DOMAIN old : x # d => new[x] = old[x]
  /\ d \in DOMAIN old =>
       /\ DOMAIN new[d] = DOMAIN fund.classes
       /\ \A c \in DOMAIN fund.classes :
            /\ DOMAIN new[d][c] = DOMAIN old[d][c]
            /\ \/ new[d][c].prior = old[d][c].prior
               \/ d - 1 \in DOMAIN old /\ new[d][c].prior = old[d - 1][c].nav

LEMMA SurgeryChains ==
  ASSUME BooksChain(books), NEW d, Marred(PostWalkCodes, d),
         Surgery(books.nav, books'.nav, d), {"nav", "holdings", "fees", "receipts"} \subseteq DOMAIN books',
         LastDay \in Nat, fund' = fund, schedule' = schedule
  PROVE  BooksChain(books)'
<1>1. PICK old, new : old = books.nav /\ new = books'.nav
  OBVIOUS
<1>2. Surgery(old, new, d) /\ Rowed(old)
  BY <1>1 DEF BooksChain
<1>3. Rowed(new)'
  BY <1>2 DEF Rowed, Surgery
<1>4. ASSUME NEW x \in DOMAIN new, x + 1 \in DOMAIN new, ~Marred(PostWalkCodes, x)
      PROVE  Chains(new, x)
  <2>1. x # d /\ x \in DOMAIN old /\ x + 1 \in DOMAIN old /\ x \in Int
    BY <1>2, <1>4 DEF Surgery, Rowed, Days
  <2>2. Chains(old, x) /\ new[x] = old[x]
    BY <1>1, <1>2, <1>4, <2>1 DEF BooksChain, Surgery
  <2>3. CASE x + 1 # d
    BY <1>2, <2>1, <2>2, <2>3 DEF Surgery, Chains
  <2>4. CASE x + 1 = d
    <3>1. d - 1 = x
      BY <2>1, <2>4
    <3> QED
      BY <1>2, <2>1, <2>2, <2>4, <3>1 DEF Surgery, Chains
  <2> QED
    BY <2>3, <2>4
<1> QED
  BY <1>1, <1>3, <1>4 DEF BooksChain, Marred, OwnEntries, Mine, Chains

LEMMA RestatedRow ==
  ASSUME NEW row, "prior" \in DOMAIN row, NEW nav_base, NEW shares, NEW prior, NEW fees
  PROVE  LET new == Restated(row, nav_base, shares, prior, fees)
         IN  DOMAIN new = DOMAIN row /\ new.prior = prior
  BY DEF Restated

\* An injector that restates the row of one class.
LEMMA RestatingIsSurgery ==
  ASSUME NEW old, Rowed(old), NEW d, NEW c, NEW row,
         d \in DOMAIN old /\ c \in DOMAIN fund.classes =>
           /\ DOMAIN row = DOMAIN old[d][c]
           /\ \/ row.prior = old[d][c].prior
              \/ d - 1 \in DOMAIN old /\ row.prior = old[d - 1][c].nav
  PROVE  Surgery(old, [old EXCEPT ![d][c] = row], d)
  BY DEF Surgery, Rowed

LEMMA AdjustingIsSurgery ==
  ASSUME NEW old, Rowed(old), NEW d, NEW delta
  PROVE  Surgery(old, AdjustClassNav(old, d, delta), d)
<1> DEFINE total == Total([c \in DOMAIN old[d] |-> old[d][c].nav_base])
           Part(row) == row.nav_base \oplus (delta \otimes (row.nav_base \oslash total))
           Row(c) == Restated(old[d][c], Part(old[d][c]), old[d][c].shares, old[d][c].prior,
                              old[d][c].fees)
<1>1. CASE ~(Zero \prec total)
  BY <1>1 DEF AdjustClassNav, Surgery, Rowed
<1>2. CASE Zero \prec total
  <2>1. AdjustClassNav(old, d, delta) = [old EXCEPT ![d] = [c \in DOMAIN old[d] |-> Row(c)]]
    BY <1>2 DEF AdjustClassNav
  <2>2. ASSUME d \in DOMAIN old, NEW c \in DOMAIN fund.classes
        PROVE  DOMAIN Row(c) = DOMAIN old[d][c] /\ Row(c).prior = old[d][c].prior
    <3>1. "prior" \in DOMAIN old[d][c]
      BY <2>2 DEF Rowed
    <3> QED
      BY <3>1, RestatedRow
  <2> HIDE DEF Row
  <2> QED
    BY <2>1, <2>2 DEF Surgery, Rowed
<1> QED
  BY <1>1, <1>2

\* The entry under the loop is one of the schedule's.
LEMMA EntryMars ==
  ASSUME cursor \in DOMAIN schedule, Entry.code \in PostWalkCodes, Mine(Entry)
  PROVE  Marred(PostWalkCodes, Entry.as_of)
  BY DEF Marred, OwnEntries, Entry

\* What a surgeon may do to the tables.
Operated ==
  /\ {"nav", "holdings", "fees", "receipts"} \subseteq DOMAIN books'
  /\ Surgery(books.nav, books'.nav, Entry.as_of)

LEMMA UntouchedOperated == ASSUME BooksChain(books), books' = books PROVE Operated
  BY DEF Operated, BooksChain, Surgery, Rowed

LEMMA Defect2Operates == ASSUME BooksChain(books), Defect2 PROVE Operated
<1>1. PICK rows, delta :
        books' = [books EXCEPT !.holdings[Entry.as_of] = rows,
                               !.nav = AdjustClassNav(@, Entry.as_of, delta)]
  BY Zenon DEF Defect2
<1>2. {"nav", "holdings", "fees", "receipts"} \subseteq DOMAIN books /\ Rowed(books.nav)
  BY DEF BooksChain
<1>3. books'.nav = AdjustClassNav(books.nav, Entry.as_of, delta) /\ DOMAIN books' = DOMAIN books
  BY <1>1, <1>2
<1> QED
  BY <1>2, <1>3, AdjustingIsSurgery DEF Operated

LEMMA Defect5Operates == ASSUME BooksChain(books), Defect5 PROVE Operated
<1> DEFINE d == Entry.as_of
           c == Entry.class
<1>1. PICK fee, nav_base, fees :
        books' = [books EXCEPT !.fees[d][c] = fee,
                     !.nav[d][c] = Restated(@, nav_base, books.nav[d][c].shares,
                                            books.nav[d][c].prior, fees)]
  BY Zenon DEF Defect5
<1>2. {"nav", "holdings", "fees", "receipts"} \subseteq DOMAIN books /\ Rowed(books.nav)
  BY DEF BooksChain
<1>3. PICK row : row = Restated(books.nav[d][c], nav_base, books.nav[d][c].shares,
                                books.nav[d][c].prior, fees)
  OBVIOUS
<1>4. books'.nav = [books.nav EXCEPT ![d][c] = row] /\ DOMAIN books' = DOMAIN books
  BY <1>1, <1>2, <1>3
<1>5. ASSUME d \in DOMAIN books.nav, c \in DOMAIN fund.classes
      PROVE  DOMAIN row = DOMAIN books.nav[d][c] /\ row.prior = books.nav[d][c].prior
  <2>1. "prior" \in DOMAIN books.nav[d][c]
    BY <1>2, <1>5 DEF Rowed
  <2> QED
    BY <2>1, <1>3, RestatedRow
<1> HIDE DEF d, c
<1> QED
  BY <1>2, <1>4, <1>5, RestatingIsSurgery DEF Operated, d

LEMMA Defect8Operates == ASSUME BooksChain(books), Defect8 PROVE Operated
<1> DEFINE d == Entry.as_of
           c == Entry.class
           prior == books.nav[PriorBusinessDay(d)][c].nav
<1>1. CASE PriorBusinessDay(d) \notin DOMAIN books.nav
  BY <1>1, UntouchedOperated DEF Defect8
<1>2. CASE PriorBusinessDay(d) \in DOMAIN books.nav
  <2>1. PICK nav_base, shares, fees :
          books' = [books EXCEPT
                      !.nav[d][c] = Restated(@, nav_base, shares, prior, fees)]
    <3> DEFINE row    == books.nav[d][c]
               before == row.shares \ominus Total([e \in FlowsToday(c, d) |-> e.delta])
               value  == (before \otimes prior \otimes (One \oplus Entry.gain)) \oplus Entry.amount
               shares == before \oplus (Entry.amount \oslash prior)
    <3>1. books' = [books EXCEPT !.nav[d][c] = Restated(@, value, shares, prior, row.fees)]
      BY <1>2 DEF Defect8
    <3> HIDE DEF row, value, shares
    <3> QED
      BY <3>1
  <2>2. {"nav", "holdings", "fees", "receipts"} \subseteq DOMAIN books /\ Rowed(books.nav)
    BY DEF BooksChain
  <2>3. PICK row : row = Restated(books.nav[d][c], nav_base, shares, prior, fees)
    OBVIOUS
  <2>4. books'.nav = [books.nav EXCEPT ![d][c] = row] /\ DOMAIN books' = DOMAIN books
    BY <2>1, <2>2, <2>3
  <2>5. ASSUME d \in DOMAIN books.nav, c \in DOMAIN fund.classes
        PROVE  /\ DOMAIN row = DOMAIN books.nav[d][c]
               /\ d - 1 \in DOMAIN books.nav /\ row.prior = books.nav[d - 1][c].nav
    <3>1. "prior" \in DOMAIN books.nav[d][c]
      BY <2>2, <2>5 DEF Rowed
    <3> QED
      BY <3>1, <2>3, <1>2, RestatedRow DEF PriorBusinessDay
  <2> HIDE DEF d, c
  <2> QED
    BY <2>2, <2>4, <2>5, RestatingIsSurgery DEF Operated, d
<1> QED
  BY <1>1, <1>2

LEMMA Defect9Operates == ASSUME BooksChain(books), Defect9 PROVE Operated
<1>1. CASE books' = books
  BY <1>1, UntouchedOperated
<1>2. CASE books' # books
  <2>1. PICK receipt, delta :
          books' = [books EXCEPT !.receipts = @ \cup {receipt},
                                 !.nav = AdjustClassNav(@, Entry.as_of, delta)]
    BY <1>2, Zenon DEF Defect9
  <2>2. {"nav", "holdings", "fees", "receipts"} \subseteq DOMAIN books /\ Rowed(books.nav)
    BY DEF BooksChain
  <2>3. books'.nav = AdjustClassNav(books.nav, Entry.as_of, delta) /\ DOMAIN books' = DOMAIN books
    BY <2>1, <2>2
  <2> QED
    BY <2>2, <2>3, AdjustingIsSurgery DEF Operated
<1> QED
  BY <1>1, <1>2

LEMMA Defect10Operates == ASSUME BooksChain(books), Defect10 PROVE Operated
<1> DEFINE d == Entry.as_of
           c == Entry.class
<1>1. PICK extra, nav_base, fees :
        books' = [books EXCEPT
                     !.nav[d][c] = Restated(@, nav_base, books.nav[d][c].shares,
                                            books.nav[d][c].prior, fees),
                     !.fees[d][c].mgmt = @ \oplus extra]
  BY Zenon DEF Defect10
<1>2. {"nav", "holdings", "fees", "receipts"} \subseteq DOMAIN books /\ Rowed(books.nav)
  BY DEF BooksChain
<1>3. PICK row : row = Restated(books.nav[d][c], nav_base, books.nav[d][c].shares,
                                books.nav[d][c].prior, fees)
  OBVIOUS
<1>4. books'.nav = [books.nav EXCEPT ![d][c] = row] /\ DOMAIN books' = DOMAIN books
  BY <1>1, <1>2, <1>3
<1>5. ASSUME d \in DOMAIN books.nav, c \in DOMAIN fund.classes
      PROVE  DOMAIN row = DOMAIN books.nav[d][c] /\ row.prior = books.nav[d][c].prior
  <2>1. "prior" \in DOMAIN books.nav[d][c]
    BY <1>2, <1>5 DEF Rowed
  <2> QED
    BY <2>1, <1>3, RestatedRow
<1> HIDE DEF d, c
<1> QED
  BY <1>2, <1>4, <1>5, RestatingIsSurgery DEF Operated, d

LEMMA PostWalkOperates ==
  ASSUME BooksChain(books), PostWalk
  PROVE  Operated /\ Marred(PostWalkCodes, Entry.as_of) /\ UNCHANGED << phase, walk >>
         /\ phase = "postwalk"
<1>1. Operated
  <2>1. CASE Defect6
    BY <2>1, UntouchedOperated DEF Defect6
  <2> QED
    BY <2>1, Defect2Operates, Defect5Operates, Defect8Operates, Defect9Operates,
       Defect10Operates DEF PostWalk
<1>2. /\ cursor \in DOMAIN schedule /\ Entry.code \in PostWalkCodes /\ Mine(Entry)
      /\ UNCHANGED << phase, walk >> /\ phase = "postwalk"
  BY Zenon DEF PostWalk, Defect2, Defect5, Defect6, Defect8, Defect9, Defect10, Due, DueHere,
               PostWalkCodes
<1> QED
  BY <1>1, <1>2, EntryMars

LEMMA NextChains == ChainInv /\ [Next]_vars => ChainInv'
<1> SUFFICES ASSUME ChainInv, [Next]_vars PROVE ChainInv'
  OBVIOUS
<1> USE LastDayAssumption
<1>1. CASE UNCHANGED vars
  BY <1>1 DEF vars, ChainInv, WalkChains, WalkShape, Rowed, ClassesFollow, Chains, BooksChain,
              Marred, OwnEntries, Mine
<1>2. CASE Next
  <2>0. fund' = fund /\ schedule' = schedule
    BY <1>2, NextSame
  <2>1. CASE WalkDay
    <3>1. WalkChains(walk)'
      <4>1. WalkChains(walk) /\ walk.day \in Days
        BY <2>1 DEF ChainInv, WalkDay
      <4>2. CASE walk' = StepOneDay(walk.day)
        BY <2>0, <4>1, <4>2, StruckChains
      <4>3. CASE walk' = [walk EXCEPT !.day = @ + 1]
        BY <2>0, <4>1, <4>3, SkippedChains
      <4> QED
        BY <2>1, <4>2, <4>3 DEF WalkDay
    <3> QED
      BY <2>1, <3>1 DEF ChainInv, WalkDay
  <2>2. CASE BulkWrite
    <3>1. walk' = walk /\ books' = walk.rows /\ phase' = "postwalk"
      BY <2>2 DEF BulkWrite, Advance
    <3>2. WalkChains(walk)'
      BY <2>0, <3>1 DEF ChainInv, WalkChains, WalkShape, Rowed, ClassesFollow, Chains
    <3>3. BooksChain(books)'
      BY <2>0, <3>1 DEF ChainInv, WalkChains, WalkShape, Rowed, Chains, BooksChain
    <3> QED
      BY <3>1, <3>2, <3>3 DEF ChainInv
  <2>3. CASE PostWalk
    <3>1. BooksChain(books)
      BY <2>3, Zenon DEF ChainInv, PostWalk, Defect2, Defect5, Defect6, Defect8, Defect9, Defect10,
                         Due, DueHere
    <3>2. BooksChain(books)'
      BY <2>0, <2>3, <3>1, PostWalkOperates, SurgeryChains DEF Operated
    <3>3. UNCHANGED << phase, walk >> /\ phase = "postwalk"
      BY <2>3, <3>1, PostWalkOperates
    <3> QED
      BY <2>0, <3>2, <3>3 DEF ChainInv, WalkChains, WalkShape, Rowed, ClassesFollow, Chains
  <2>4. CASE ~WalkDay /\ ~BulkWrite /\ ~PostWalk
    <3>1. /\ walk' = walk /\ books' = books /\ phase' \in Early \cup Late
          /\ phase' \in Early <=> phase \in Early
      BY <1>2, <2>4, OthersKeep
    <3>2. WalkChains(walk)'
      BY <2>0, <3>1 DEF ChainInv, WalkChains, WalkShape, Rowed, ClassesFollow, Chains
    <3>3. BooksChain(books) => BooksChain(books)'
      BY <2>0, <3>1 DEF BooksChain, Rowed, Chains, Marred, OwnEntries, Mine
    <3> QED
      BY <3>1, <3>2, <3>3 DEF ChainInv
  <2> QED
    BY <1>2, <2>1, <2>2, <2>3, <2>4
<1> QED
  BY <1>1, <1>2

LEMMA ChainsHold == ChainInv => NavChains
<1> SUFFICES ASSUME ChainInv PROVE NavChains
  OBVIOUS
<1>1. CASE phase = "walk"
  BY <1>1 DEF ChainInv, WalkChains, NavChains, Rows, Struck, Chains
<1>2. CASE phase # "walk" /\ phase \in Early
  BY <1>2 DEF ChainInv, NavChains, Rows, Struck, NoBooks
<1>3. CASE phase \in Late
  BY <1>3 DEF ChainInv, BooksChain, NavChains, Rows, Struck, Chains
<1> QED
  BY <1>1, <1>2, <1>3 DEF ChainInv

\* The NAV a row calls prior is the NAV of the row before it, but right after a
\* day whose rows an injector rewrote alone (defects.py:361): for every fund,
\* schedule, calendar and draw of the generators.
THEOREM NavAlwaysChains == Spec => []NavChains
<1>1. Spec => []ChainInv
  BY InitChains, NextChains, PTL DEF Spec
<1> QED
  BY <1>1, ChainsHold, PTL

Divisor(x) == IsRat(x) /\ x # Zero

FxTyped(fx) ==
  /\ DOMAIN fx = Snaps /\ DOMAIN fx["LDN_4PM"] = Days
  /\ \A d \in Days : \A c \in Ccys : Divisor(fx["LDN_4PM"][d][c])

PricesTyped(prices, I) ==
  /\ DOMAIN prices = Sources
  /\ \A s \in Sources : DOMAIN prices[s] = Days
  /\ \A s \in Sources : \A d \in Days : DOMAIN prices[s][d] = I
  /\ \A d \in Days : \A i \in I : Divisor(prices["PRIMARY"][d][i])

AccrualsTyped(accruals) ==
  DOMAIN accruals = Days
  /\ \A d \in Days : DOMAIN accruals[d] = Bonds /\ \A b \in Bonds : IsRat(accruals[d][b])

ActionsTyped(actions) == IsFiniteSet(actions) /\ \A ca \in actions : IsRat(ca.gross)
TradeTyped(t) == "qty" \in DOMAIN t /\ IsRat(t.qty)
TradesTyped(trades)   == IsFiniteSet(trades) /\ \A t \in trades : TradeTyped(t)
FlowTyped(e) ==
  /\ {"day", "class", "gross", "delta"} \subseteq DOMAIN e
  /\ e.day \in Days /\ e.class \in DOMAIN fund.classes
  /\ IsRat(e.gross) /\ IsRat(e.delta)
FlowsTyped(capstock)  == IsFiniteSet(capstock) /\ \A e \in capstock : FlowTyped(e)

Inputs == {"fx", "prices", "accruals", "actions", "trades", "capstock"}
InputTyped ==
  /\ Inputs \subseteq DOMAIN input
  /\ phase # "fx" => FxTyped(input.fx)
  /\ phase = "bonds" => PricesTyped(input.prices, Equities)
  /\ phase \notin {"fx", "equities", "bonds"} =>
       PricesTyped(input.prices, Instruments) /\ AccrualsTyped(input.accruals)
  /\ ActionsTyped(input.actions) /\ TradesTyped(input.trades) /\ FlowsTyped(input.capstock)

HoldingTyped(r) ==
  /\ {"qty", "fx", "mv_base"} \subseteq DOMAIN r
  /\ IsRat(r.qty) /\ IsRat(r.mv_local) /\ IsRat(r.mv_base)
FeeTyped(r) ==
  /\ {"mgmt", "delta", "balance", "hwm"} \subseteq DOMAIN r
  /\ IsRat(r.mgmt) /\ IsRat(r.delta) /\ IsRat(r.balance) /\ IsRat(r.hwm)
NavTyped(r) ==
  /\ {"fees", "nav_base", "shares", "nav", "prior", "move", "is_break"} \subseteq DOMAIN r
  /\ IsRat(r.nav_base) /\ IsRat(r.shares) /\ IsRat(r.nav) /\ r.is_break \in BOOLEAN

DayTyped(b, d) ==
  /\ d \in Days /\ IsRat(b.cash[d])
  /\ DOMAIN b.holdings[d] \subseteq Instruments
  /\ \A i \in DOMAIN b.holdings[d] : HoldingTyped(b.holdings[d][i])
  /\ DOMAIN b.fees[d] = DOMAIN fund.classes /\ DOMAIN b.nav[d] = DOMAIN fund.classes
  /\ \A c \in DOMAIN fund.classes : FeeTyped(b.fees[d][c]) /\ NavTyped(b.nav[d][c])

Tables == {"holdings", "cash", "fees", "nav", "receipts"}
TablesTyped(b) ==
  /\ Tables \subseteq DOMAIN b
  /\ DOMAIN b.holdings = DOMAIN b.nav /\ DOMAIN b.cash = DOMAIN b.nav
  /\ DOMAIN b.fees = DOMAIN b.nav
  /\ \A d \in DOMAIN b.nav : DayTyped(b, d)

ClassTyped(cs) ==
  /\ {"shares", "nav", "balance"} \subseteq DOMAIN cs
  /\ IsRat(cs.shares) /\ IsRat(cs.nav) /\ IsRat(cs.balance) /\ IsRat(cs.hwm)

WalkTyped ==
  /\ {"day", "holdings", "cash", "prior", "classes", "rows"} \subseteq DOMAIN walk
  /\ walk.day \in 1 .. LastDay + 1
  /\ DOMAIN walk.holdings \subseteq Instruments
  /\ \A i \in DOMAIN walk.holdings : IsRat(walk.holdings[i])
  /\ IsRat(walk.cash) /\ IsRat(walk.prior)
  /\ DOMAIN walk.classes = DOMAIN fund.classes
  /\ \A c \in DOMAIN fund.classes : ClassTyped(walk.classes[c])
  /\ TablesTyped(walk.rows) /\ DOMAIN walk.rows.nav = 1 .. walk.day - 1

ChoicesTyped ==
  /\ fund \in Funds /\ schedule \in fund.schedules /\ cursor \in 1 .. Len(schedule) + 1
  /\ phase \in {"fx", "equities", "bonds", "actions", "trades", "capstock", "prewalk", "walk",
                "postwalk", "catalog", "done"}

BooksTyped ==
  IF phase \in {"postwalk", "catalog", "done"} THEN TablesTyped(books) /\ DOMAIN books.nav = Days
  ELSE books = NoBooks
  
Typed == ChoicesTyped /\ InputTyped /\ WalkTyped /\ BooksTyped
-----------------------------------------------------------------------------
LEMMA ZeroProduct == ASSUME NEW a, IsRat(a) PROVE a \otimes Zero = Zero /\ Zero \otimes a = Zero
<1>1. PICK m, d : m = a[1] /\ d = a[2]
  OBVIOUS
<1>2. m \in Int /\ d \in Int /\ d # 0
  BY <1>1, MeansItself
<1>3. IsRat(a \otimes Zero) /\ Means(a \otimes Zero, m * 0, d * 1)
  BY <1>1, ZeroOne, ProductMeans
<1>4. Means(Zero, m * 0, d * 1)
  BY <1>2, ZeroOne DEF Means
<1>5. a \otimes Zero = Zero
  BY <1>3, <1>4, ZeroOne, SameMeaning
<1> QED
  BY <1>5, ZeroOne, ProductCommutes

LEMMA DivisorProduct ==
  ASSUME NEW a, NEW b, Divisor(a), Divisor(b) PROVE Divisor(a \otimes b)
<1>1. PICK m, d, n, e : m = a[1] /\ d = a[2] /\ n = b[1] /\ e = b[2]
  OBVIOUS
<1>2. m \in Int /\ n \in Int /\ m # 0 /\ n # 0
  BY <1>1, MeansItself, NonZero DEF Divisor
<1>3. IsRat(a \otimes b) /\ Means(a \otimes b, m * n, d * e)
  BY <1>1, ProductMeans DEF Divisor
<1>4. m * n # 0
  BY <1>2
<1>5. a \otimes b # Zero
  <2> SUFFICES ASSUME a \otimes b = Zero PROVE FALSE
    OBVIOUS
  <2>1. PICK k : k = d * e
    OBVIOUS
  <2>2. PICK x : x = m * n
    OBVIOUS
  <2>3. 0 * k = x * 1 /\ k \in Int /\ x \in Int
    BY <1>2, <1>3, <2>1, <2>2, ZeroOne DEF Means
  <2>4. x = 0
    BY <2>3
  <2> QED
    BY <1>4, <2>2, <2>4
<1> QED
  BY <1>3, <1>5 DEF Divisor

LEMMA DivisorQuotient ==
  ASSUME NEW a, NEW b, Divisor(a), Divisor(b) PROVE Divisor(a \oslash b)
<1>1. IsRat(a \oslash b) /\ (a \oslash b) \otimes b = a
  BY QuotientIsRat, QuotientCancels DEF Divisor
<1>2. a \oslash b # Zero
  BY <1>1, ZeroProduct DEF Divisor
<1> QED
  BY <1>1, <1>2 DEF Divisor

LEMMA PositiveDivisor == ASSUME NEW a, Positive(a) PROVE Divisor(a)
<1>1. a # Zero
  <2>1. (Zero \ominus Zero) \oplus Zero = Zero /\ IsRat(Zero \ominus Zero)
    BY ZeroOne, DifferenceCancels, DifferenceIsRat
  <2>2. Zero \ominus Zero = Zero
    BY <2>1, ZeroSum
  <2> QED
    BY <2>2, ZeroOne DEF Positive, \prec
<1> QED
  BY <1>1 DEF Positive, Divisor

LEMMA TotalIsRat ==
  ASSUME NEW f, NEW S, f = [x \in S |-> f[x]], Family(f, S) PROVE IsRat(Total(f))
<1>1. Total(f) = Over(f, S)
  BY DEF Over
<1> QED
  BY <1>1, OverIsRat

LEMMA EntryIsComplete ==
  ASSUME ChoicesTyped, cursor \in DOMAIN schedule PROVE EntryComplete(fund, Entry)
<1>1. Entry \in Range(schedule)
  BY DEF Entry, Range
<1> QED
  BY <1>1, ScheduleAssumption DEF ChoicesTyped

LEMMA ScheduleLength ==
  ASSUME fund \in Funds, schedule \in fund.schedules
  PROVE  Len(schedule) \in Nat /\ DOMAIN schedule = 1 .. Len(schedule)
<1>1. PICK S : S = Range(schedule)
  OBVIOUS
<1>2. schedule \in Seq(S)
  BY <1>1, ScheduleAssumption
<1> QED
  BY <1>2

LEMMA RescaledTyped ==
  ASSUME NEW p, PricesTyped(p, Instruments), NEW i \in Instruments, NEW k, Divisor(k),
         NEW sources, NEW d
  PROVE  PricesTyped(Rescaled(p, sources, i, d, k), Instruments)
<1>1. PICK q : q = Rescaled(p, sources, i, d, k)
  OBVIOUS
<1>2. /\ DOMAIN q = Sources /\ \A s \in Sources : DOMAIN q[s] = Days
      /\ \A s \in Sources : \A x \in Days :
           q[s][x] = IF s \in sources /\ x >= d THEN [p[s][x] EXCEPT ![i] = @ \otimes k]
                     ELSE p[s][x]
  BY <1>1 DEF Rescaled
<1>3. ASSUME NEW s \in Sources, NEW x \in Days PROVE DOMAIN q[s][x] = Instruments
  <2>1. PICK old : old = p[s][x]
    OBVIOUS
  <2>2. DOMAIN old = Instruments /\ \A v : DOMAIN [old EXCEPT ![i] = v] = Instruments
    BY <2>1 DEF PricesTyped
  <2>3. q[s][x] = IF s \in sources /\ x >= d THEN [old EXCEPT ![i] = old[i] \otimes k] ELSE old
    BY <1>2, <2>1
  <2> QED
    BY <2>2, <2>3
<1>4. ASSUME NEW x \in Days, NEW j \in Instruments PROVE Divisor(q["PRIMARY"][x][j])
  <2>1. PICK v : v = p["PRIMARY"][x][j]
    OBVIOUS
  <2>2. Divisor(v) /\ DOMAIN p["PRIMARY"][x] = Instruments
    BY <2>1 DEF PricesTyped, Sources
  <2>3. Divisor(v \otimes k)
    BY <2>2, DivisorProduct
  <2>4. q["PRIMARY"][x][j] \in {v, v \otimes k}
    BY <1>2, <2>1, <2>2 DEF Sources
  <2> QED
    BY <2>2, <2>3, <2>4
<1> QED
  BY <1>1, <1>2, <1>3, <1>4 DEF PricesTyped

LEMMA HeldTyped ==
  ASSUME NEW p, PricesTyped(p, Instruments), NEW i \in Instruments, NEW v, Divisor(v), NEW days
  PROVE  PricesTyped([p EXCEPT !["PRIMARY"] = Held(@, days, i, v)], Instruments)
<1>1. PICK q : q = [p EXCEPT !["PRIMARY"] = Held(@, days, i, v)]
  OBVIOUS
<1>2. /\ DOMAIN q = Sources /\ q["PRIMARY"] = Held(p["PRIMARY"], days, i, v)
      /\ \A s \in Sources : s # "PRIMARY" => q[s] = p[s]
  BY <1>1 DEF PricesTyped, Sources
<1>3. /\ DOMAIN q["PRIMARY"] = Days
      /\ \A x \in Days : q["PRIMARY"][x] \in
           {p["PRIMARY"][x], [p["PRIMARY"][x] EXCEPT ![i] = v]}
  BY <1>2 DEF Held, PricesTyped, Sources
<1>4. \A x \in Days : DOMAIN q["PRIMARY"][x] = Instruments
                       /\ \A j \in Instruments : Divisor(q["PRIMARY"][x][j])
  BY <1>3 DEF PricesTyped, Sources
<1> QED
  BY <1>1, <1>2, <1>3, <1>4 DEF PricesTyped

LEMMA PricesQuoted ==
  ASSUME phase \notin {"fx", "equities", "bonds"}, InputTyped
  PROVE  /\ PricesTyped(input.prices, Instruments)
         /\ \A d \in Days : \A i \in Instruments : Divisor(Price(d)[i])
  BY DEF InputTyped, PricesTyped, Price

LEMMA Defect1Typed == ASSUME Typed, Defect1 PROVE InputTyped'
<1> DEFINE i == Entry.instr
           d == Entry.as_of
           up == One \oplus Entry.shock
           k == (Price(PriorBusinessDay(d))[i] \otimes up) \oslash Price(d)[i]
<1>1. /\ phase' = phase /\ fund' = fund /\ phase = "prewalk" /\ EntryComplete(fund, Entry)
      /\ Entry.code = "single_stock_shock"
  BY EntryIsComplete DEF Defect1, Due, DueHere, Typed
<1>2. i \in Instruments /\ Divisor(up)
  BY <1>1, PositiveDivisor DEF EntryComplete
<1>3. CASE {d, PriorBusinessDay(d)} \subseteq Days
  <2>1. Divisor(k)
    <3>1. Divisor(Price(PriorBusinessDay(d))[i]) /\ Divisor(Price(d)[i])
      BY <1>1, <1>2, <1>3, PricesQuoted DEF Typed
    <3>2. PICK x, y : x = Price(PriorBusinessDay(d))[i] /\ y = Price(d)[i]
      OBVIOUS
    <3> HIDE DEF up
    <3>3. Divisor(x \otimes up)
      BY <1>2, <3>1, <3>2, DivisorProduct
    <3> QED
      BY <3>1, <3>2, <3>3, DivisorQuotient
  <2>2. input' = [input EXCEPT !.prices = Rescaled(@, Sources, i, d, k)]
    BY <1>3 DEF Defect1
  <2> HIDE DEF i, d, k
  <2>3. PricesTyped(Rescaled(input.prices, Sources, i, d, k), Instruments)
    BY <1>1, <1>2, <2>1, RescaledTyped, PricesQuoted DEF Typed
  <2> QED
    BY <1>1, <2>2, <2>3 DEF Typed, InputTyped, Inputs, FlowsTyped, FlowTyped
<1>4. CASE input' = input
  BY <1>1, <1>4 DEF Typed, InputTyped, Inputs, FlowsTyped, FlowTyped
<1> QED
  BY <1>3, <1>4 DEF Defect1

LEMMA ActionAdded ==
  ASSUME NEW actions, ActionsTyped(actions), NEW ca, IsRat(ca.gross)
  PROVE  ActionsTyped(actions \cup {ca})
  BY FS_AddElement DEF ActionsTyped

LEMMA Defect3Typed == ASSUME Typed, Defect3 PROVE InputTyped'
<1> DEFINE i == Entry.instr
           d == Entry.as_of
           k == One \ominus Entry.div_pct
           gross == Price(PriorBusinessDay(d))[i] \otimes Entry.div_pct
           ca == [id |-> "CA_DEFECT_3", instr |-> i, type |-> "SPECIAL_DIV", ex |-> d, pay |-> d,
                  gross |-> gross, applied |-> FALSE]
<1>1. /\ phase' = phase /\ fund' = fund /\ phase = "prewalk" /\ EntryComplete(fund, Entry)
      /\ Entry.code = "missed_corp_action"
  BY EntryIsComplete DEF Defect3, Due, DueHere, Typed
<1>2. i \in Instruments /\ Divisor(k) /\ IsRat(Entry.div_pct)
  BY <1>1, PositiveDivisor DEF EntryComplete
<1>3. CASE PriorBusinessDay(d) \in Days
  <2>1. IsRat(gross)
    <3>1. Divisor(Price(PriorBusinessDay(d))[i])
      BY <1>1, <1>2, <1>3, PricesQuoted DEF Typed
    <3> QED
      BY <1>2, <3>1, ProductIsRat DEF Divisor
  <2>2. input' = [input EXCEPT !.actions = @ \cup {ca},
                               !.prices = Rescaled(@, Sources, i, d, k)]
    BY <1>3 DEF Defect3
  <2>3. IsRat(ca.gross)
    BY <2>1
  <2> HIDE DEF i, d, k, ca, gross
  <2>4. PricesTyped(Rescaled(input.prices, Sources, i, d, k), Instruments)
    BY <1>1, <1>2, RescaledTyped, PricesQuoted DEF Typed
  <2>5. ActionsTyped(input.actions \cup {ca})
    BY <2>3, ActionAdded DEF Typed, InputTyped
  <2> QED
    BY <1>1, <2>2, <2>4, <2>5 DEF Typed, InputTyped, Inputs, FlowsTyped, FlowTyped
<1>4. CASE input' = input
  BY <1>1, <1>4 DEF Typed, InputTyped, Inputs, FlowsTyped, FlowTyped
<1> QED
  BY <1>3, <1>4 DEF Defect3

LEMMA Defect4Typed == ASSUME Typed, Defect4 PROVE InputTyped'
<1> DEFINE i    == Entry.instr
           d    == Entry.as_of
           good == d - Entry.stale_days - 1
           v    == Price(good)[i]
           up   == One \oplus Entry.drift
           k    == (v \otimes up) \oslash Price(d)[i]
           flat == [input.prices EXCEPT !["PRIMARY"] = Held(@, StaleWindow(Entry), i, v)]
<1>1. /\ phase' = phase /\ fund' = fund /\ phase = "prewalk" /\ EntryComplete(fund, Entry)
      /\ Entry.code = "stale_price"
  BY EntryIsComplete DEF Defect4, Due, DueHere, Typed
<1>2. i \in Instruments /\ Divisor(up) /\ d \in Days
  BY <1>1, PositiveDivisor DEF EntryComplete
<1>3. CASE good \in Days
  <2>1. Divisor(v) /\ Divisor(Price(d)[i])
    BY <1>1, <1>2, <1>3, PricesQuoted DEF Typed
  <2>2. Divisor(k)
    <3>1. PICK y : y = Price(d)[i]
      OBVIOUS
    <3>2. Divisor(y)
      BY <2>1, <3>1
    <3> HIDE DEF up, v
    <3>3. Divisor(v \otimes up)
      BY <1>2, <2>1, DivisorProduct
    <3> QED
      BY <3>1, <3>2, <3>3, DivisorQuotient
  <2>3. input' = [input EXCEPT !.prices = Rescaled(flat, {"PRIMARY"}, i, d, k)]
    BY <1>3, Zenon DEF Defect4
  <2> HIDE DEF i, d, k, v
  <2>4. PricesTyped(flat, Instruments)
    BY <1>1, <1>2, <2>1, HeldTyped, PricesQuoted DEF Typed
  <2> HIDE DEF flat
  <2>5. PricesTyped(Rescaled(flat, {"PRIMARY"}, i, d, k), Instruments)
    BY <1>2, <2>2, <2>4, RescaledTyped
  <2> QED
    BY <1>1, <2>3, <2>5 DEF Typed, InputTyped, Inputs, FlowsTyped, FlowTyped
<1>4. CASE input' = input
  BY <1>1, <1>4 DEF Typed, InputTyped, Inputs, FlowsTyped, FlowTyped
<1> QED
  BY <1>3, <1>4 DEF Defect4

LEMMA Defect7Typed == ASSUME Typed, Defect7 PROVE InputTyped'
<1> DEFINE i    == Entry.instr
           good == Entry.as_of - Entry.missed_days
           old  == input.accruals
           new  == Held(old, FrozenWindow(Entry), i, old[good][i])
<1>1. /\ phase' = phase /\ fund' = fund /\ phase = "prewalk" /\ EntryComplete(fund, Entry)
      /\ Entry.code = "missed_coupon_accrual"
  BY EntryIsComplete DEF Defect7, Due, DueHere, Typed
<1>2. i \in Bonds
  BY <1>1 DEF EntryComplete
<1>3. CASE good \in Days
  <2>1. input' = [input EXCEPT !.accruals = new]
    BY <1>3 DEF Defect7
  <2>2. AccrualsTyped(new)
    <3>1. AccrualsTyped(old) /\ IsRat(old[good][i])
      BY <1>1, <1>2, <1>3 DEF Typed, InputTyped, AccrualsTyped
    <3>2. DOMAIN new = Days
          /\ \A x \in Days : new[x] \in {old[x], [old[x] EXCEPT ![i] = old[good][i]]}
      BY <3>1 DEF Held, AccrualsTyped
    <3> HIDE DEF new, old, i, good
    <3> QED
      BY <3>1, <3>2 DEF AccrualsTyped
  <2> HIDE DEF new
  <2> QED
    BY <1>1, <2>1, <2>2 DEF Typed, InputTyped, Inputs, FlowsTyped, FlowTyped
<1>4. CASE input' = input
  BY <1>1, <1>4 DEF Typed, InputTyped, Inputs, FlowsTyped, FlowTyped
<1> QED
  BY <1>3, <1>4 DEF Defect7

LEMMA FiniteImage ==
  ASSUME NEW S, IsFiniteSet(S), NEW f, DOMAIN f = S PROVE IsFiniteSet({f[x] : x \in S})
<1> DEFINE T == {f[x] : x \in S}
           g == [x \in S |-> f[x]]
<1>1. g \in Surjection(S, T)
  BY DEF Surjection
<1> HIDE DEF g, T
<1> QED
  BY <1>1, FS_Surjection DEF T

LEMMA WriteFxTyped == ASSUME Typed, WriteFx PROVE InputTyped'
<1>1. PICK path \in FxPaths :
        input' = [input EXCEPT !.fx =
          [s \in Snaps |-> [d \in Days |-> [c \in Ccys |->
             IF c = "USD" THEN One
             ELSE IF s = "LDN_4PM" THEN path[d][c] ELSE path[d][c] \otimes Intraday]]]]
  BY DEF WriteFx
<1>2. phase = "fx" /\ phase' = "equities" /\ fund' = fund
  BY DEF WriteFx, Advance
<1>3. PICK fx : fx = [s \in Snaps |-> [d \in Days |-> [c \in Ccys |->
             IF c = "USD" THEN One
             ELSE IF s = "LDN_4PM" THEN path[d][c] ELSE path[d][c] \otimes Intraday]]]
  OBVIOUS
<1>4. input' = [input EXCEPT !.fx = fx]
  BY <1>1, <1>3
<1>5. FxTyped(fx)
  <2>1. DOMAIN fx = Snaps /\ DOMAIN fx["LDN_4PM"] = Days
    BY <1>3 DEF Snaps
  <2>2. ASSUME NEW d \in Days, NEW c \in Ccys PROVE Divisor(fx["LDN_4PM"][d][c])
    <3>1. fx["LDN_4PM"][d][c] = IF c = "USD" THEN One ELSE path[d][c]
      BY <1>3 DEF Snaps
    <3>2. Divisor(One)
      BY ZeroOne DEF Divisor
    <3>3. c # "USD" => Positive(path[d][c])
      BY PathsAssumption
    <3> QED
      BY <3>1, <3>2, <3>3, PositiveDivisor
  <2> QED
    BY <2>1, <2>2 DEF FxTyped
<1> QED
  BY <1>2, <1>4, <1>5 DEF Typed, InputTyped, Inputs, FlowsTyped, FlowTyped

LEMMA QuotesTyped ==
  ASSUME NEW path \in EquityPaths \cup BondPaths, NEW I PROVE PricesTyped(Quotes(path, I), I)
<1>1. PICK q : q = Quotes(path, I)
  OBVIOUS
<1>2. /\ DOMAIN q = Sources /\ \A s \in Sources : DOMAIN q[s] = Days
      /\ \A s \in Sources : \A d \in Days : DOMAIN q[s][d] = I
      /\ \A d \in Days : \A i \in I : q["PRIMARY"][d][i] = path[d]
  BY <1>1 DEF Quotes, Sources
<1>3. \A d \in Days : Divisor(path[d])
  BY PathsAssumption, PositiveDivisor
<1> QED
  BY <1>1, <1>2, <1>3 DEF PricesTyped

LEMMA WriteEquityPricesTyped == ASSUME Typed, WriteEquityPrices PROVE InputTyped'
<1>1. PICK path \in EquityPaths : input' = [input EXCEPT !.prices = Quotes(path, Equities)]
  BY DEF WriteEquityPrices
<1>2. phase = "equities" /\ phase' = "bonds" /\ fund' = fund
  BY DEF WriteEquityPrices, Advance
<1>3. PricesTyped(Quotes(path, Equities), Equities)
  BY QuotesTyped
<1> QED
  BY <1>1, <1>2, <1>3 DEF Typed, InputTyped, Inputs, FlowsTyped, FlowTyped

LEMMA WriteBondsTyped == ASSUME Typed, WriteBonds PROVE InputTyped'
<1>1. PICK path \in BondPaths :
        input' = [input EXCEPT
          !.prices = [s \in Sources |-> [d \in Days |->
                        [i \in DOMAIN input.prices[s][d] \cup Bonds |->
                           IF i \in Bonds THEN Quotes(path, Bonds)[s][d][i]
                           ELSE input.prices[s][d][i]]]],
          !.accruals = [d \in Days |-> [b \in Bonds |-> Rat(d) \otimes CouponDaily]]]
  BY Zenon DEF WriteBonds
<1>2. phase = "bonds" /\ phase' = "actions" /\ fund' = fund
  BY DEF WriteBonds, Advance
<1>3. PICK old, quotes : old = input.prices /\ quotes = Quotes(path, Bonds)
  OBVIOUS
<1>4. PICK new : new = [s \in Sources |-> [d \in Days |->
                          [i \in DOMAIN old[s][d] \cup Bonds |->
                             IF i \in Bonds THEN quotes[s][d][i] ELSE old[s][d][i]]]]
  OBVIOUS
<1>5. PICK accruals : accruals = [d \in Days |-> [b \in Bonds |-> Rat(d) \otimes CouponDaily]]
  OBVIOUS
<1>6. input' = [input EXCEPT !.prices = new, !.accruals = accruals]
  BY <1>1, <1>3, <1>4, <1>5
<1>7. PricesTyped(old, Equities) /\ PricesTyped(quotes, Bonds)
  BY <1>2, <1>3, QuotesTyped DEF Typed, InputTyped
<1>8. PricesTyped(new, Instruments)
  <2>1. Instruments = Equities \cup Bonds
    BY DEF Equities, Bonds
  <2>2. DOMAIN new = Sources /\ \A s \in Sources : DOMAIN new[s] = Days
    BY <1>4
  <2>3. \A s \in Sources : \A d \in Days : DOMAIN new[s][d] = Instruments
    BY <1>4, <1>7, <2>1 DEF PricesTyped
  <2>4. ASSUME NEW d \in Days, NEW i \in Instruments PROVE Divisor(new["PRIMARY"][d][i])
    <3>1. DOMAIN old["PRIMARY"][d] = Equities /\ "PRIMARY" \in Sources
      BY <1>7 DEF PricesTyped, Sources
    <3>2. new["PRIMARY"][d][i] = IF i \in Bonds THEN quotes["PRIMARY"][d][i]
                                 ELSE old["PRIMARY"][d][i]
      BY <1>4, <2>1, <3>1
    <3> QED
      BY <1>7, <2>1, <3>2 DEF PricesTyped
  <2> QED
    BY <2>2, <2>3, <2>4 DEF PricesTyped
<1>9. AccrualsTyped(accruals)
  <2>1. ASSUME NEW d \in Days PROVE IsRat(Rat(d) \otimes CouponDaily)
    <3>1. d \in Int
      BY DEF Days
    <3> QED
      BY <3>1, Integral, ProductIsRat, RatesAssumption DEF Positive
  <2> QED
    BY <1>5, <2>1 DEF AccrualsTyped
<1> QED
  BY <1>2, <1>6, <1>8, <1>9 DEF Typed, InputTyped, Inputs, FlowsTyped, FlowTyped

LEMMA WriteCorporateActionsTyped == ASSUME Typed, WriteCorporateActions PROVE InputTyped'
<1>1. PICK drawn \in DividendDraws : input' = [input EXCEPT !.actions =
         {[id |-> x.id, instr |-> x.instr, type |-> "CASH_DIV", ex |-> x.ex,
           pay |-> Least(x.ex + x.offset, LastDay), gross |-> x.gross,
           applied |-> TRUE] : x \in drawn}]
  BY DEF WriteCorporateActions
<1>2. phase = "actions" /\ phase' = "trades" /\ fund' = fund
  BY DEF WriteCorporateActions, Advance
<1>3. PICK f : f = [x \in drawn |->
          [id |-> x.id, instr |-> x.instr, type |-> "CASH_DIV", ex |-> x.ex,
           pay |-> Least(x.ex + x.offset, LastDay), gross |-> x.gross, applied |-> TRUE]]
  OBVIOUS
<1>4. PICK actions : actions = {f[x] : x \in drawn}
  OBVIOUS
<1>5. input' = [input EXCEPT !.actions = actions]
  BY <1>1, <1>3, <1>4
<1>6. IsFiniteSet(drawn) /\ \A x \in drawn : IsRat(x.gross)
  BY DrawsAssumption
<1>7. IsFiniteSet(actions) /\ \A ca \in actions : IsRat(ca.gross)
  <2>1. DOMAIN f = drawn /\ \A x \in drawn : f[x].gross = x.gross
    BY <1>3
  <2>2. IsFiniteSet({f[x] : x \in drawn})
    BY <1>6, <2>1, FiniteImage
  <2> QED
    BY <2>1, <2>2, <1>4, <1>6
<1> QED
  BY <1>2, <1>5, <1>7 DEF Typed, InputTyped, Inputs, ActionsTyped, FlowsTyped, FlowTyped

LEMMA WriteTradesTyped == ASSUME Typed, WriteTrades PROVE InputTyped'
<1>1. PICK drawn \in TradeDraws : input' = [input EXCEPT !.trades =
         {[id |-> t.id, instr |-> t.instr, side |-> t.side, qty |-> t.qty,
           day |-> t.day, price |-> Zero, note |-> ""] : t \in drawn}]
  BY DEF WriteTrades
<1>2. phase = "trades" /\ phase' = "capstock" /\ fund' = fund
  BY DEF WriteTrades, Advance
<1>3. PICK f : f = [t \in drawn |->
          [id |-> t.id, instr |-> t.instr, side |-> t.side, qty |-> t.qty,
           day |-> t.day, price |-> Zero, note |-> ""]]
  OBVIOUS
<1>4. PICK trades : trades = {f[t] : t \in drawn}
  OBVIOUS
<1>5. input' = [input EXCEPT !.trades = trades]
  BY <1>1, <1>3, <1>4
<1>6. IsFiniteSet(drawn) /\ \A t \in drawn : IsRat(t.qty)
  BY DrawsAssumption DEF Positive
<1>7. IsFiniteSet(trades) /\ \A t \in trades : TradeTyped(t)
  <2>1. DOMAIN f = drawn /\ \A t \in drawn : f[t].qty = t.qty /\ "qty" \in DOMAIN f[t]
    BY <1>3
  <2>2. IsFiniteSet({f[t] : t \in drawn})
    BY <1>6, <2>1, FiniteImage
  <2> QED
    BY <2>1, <2>2, <1>4, <1>6 DEF TradeTyped
<1> QED
  BY <1>2, <1>5, <1>7 DEF Typed, InputTyped, Inputs, TradesTyped, FlowsTyped, FlowTyped

LEMMA WriteCapstockTyped == ASSUME Typed, WriteCapstock PROVE InputTyped'
<1>1. PICK drawn \in CapstockDraws : input' = [input EXCEPT !.capstock =
         {[id |-> e.id, class |-> e.class, day |-> e.day, received |-> CutoffTime - e.early,
           type |-> e.type, gross |-> e.gross, delta |-> Zero] :
             e \in {e \in drawn : e.class \in DOMAIN fund.classes}}]
  BY DEF WriteCapstock
<1>2. phase = "capstock" /\ phase' = "prewalk" /\ fund' = fund
  BY DEF WriteCapstock, Advance
<1>3. PICK own : own = {e \in drawn : e.class \in DOMAIN fund.classes}
  OBVIOUS
<1>4. PICK f : f = [e \in own |->
          [id |-> e.id, class |-> e.class, day |-> e.day, received |-> CutoffTime - e.early,
           type |-> e.type, gross |-> e.gross, delta |-> Zero]]
  OBVIOUS
<1>5. PICK capstock : capstock = {f[e] : e \in own}
  OBVIOUS
<1>6. input' = [input EXCEPT !.capstock = capstock]
  BY <1>1, <1>3, <1>4, <1>5
<1>7. IsFiniteSet(own)
  BY <1>3, FS_Subset, DrawsAssumption
<1>8. \A e \in own : e.day \in Days /\ IsRat(e.gross) /\ e.class \in DOMAIN fund.classes
  BY <1>3, DrawsAssumption
<1>9. IsFiniteSet(capstock) /\ \A e \in capstock : FlowTyped(e)
  <2>1. IsFiniteSet(capstock)
    BY <1>4, <1>5, <1>7, FiniteImage
  <2>2. \A e \in own : FlowTyped(f[e])
    BY <1>4, <1>8, ZeroOne DEF FlowTyped
  <2> QED
    BY <1>5, <2>1, <2>2
<1> QED
  BY <1>2, <1>6, <1>9 DEF Typed, InputTyped, Inputs, FlowsTyped, FlowTyped

LEMMA GenerateTyped == ASSUME Typed, Generate PROVE InputTyped'
  BY WriteFxTyped, WriteEquityPricesTyped, WriteBondsTyped, WriteCorporateActionsTyped,
     WriteTradesTyped, WriteCapstockTyped DEF Generate

LEMMA PreWalkTyped == ASSUME Typed, PreWalk PROVE InputTyped'
  BY Defect1Typed, Defect3Typed, Defect4Typed, Defect7Typed DEF PreWalk

LEMMA InputKept ==
  ASSUME Typed, UNCHANGED << input, fund, phase >> PROVE InputTyped'
  BY DEF Typed, InputTyped, Inputs, FlowsTyped, FlowTyped

\* A day on which everything can be valued.
Valued(d) ==
  /\ d \in Days /\ fund \in Funds
  /\ FxTyped(input.fx) /\ PricesTyped(input.prices, Instruments)
  /\ AccrualsTyped(input.accruals)
  /\ ActionsTyped(input.actions) /\ TradesTyped(input.trades) /\ FlowsTyped(input.capstock)

LEMMA WindowValued ==
  ASSUME Typed, phase \notin {"fx", "equities", "bonds"}, NEW d \in Days PROVE Valued(d)
  BY DEF Typed, ChoicesTyped, InputTyped, Valued

LEMMA FxToBaseIsRat ==
  ASSUME NEW d, Valued(d), NEW ccy \in Ccys PROVE IsRat(FxToBase(d, ccy))
<1>1. fund.base \in Ccys
  BY FundsAssumption DEF Valued
<1>2. PICK a, b : a = input.fx["LDN_4PM"][d][ccy] /\ b = input.fx["LDN_4PM"][d][fund.base]
  OBVIOUS
<1>3. Divisor(a) /\ Divisor(b)
  BY <1>1, <1>2 DEF Valued, FxTyped
<1>4. IsRat(a \oslash b)
  BY <1>3, QuotientIsRat DEF Divisor
<1> QED
  BY <1>2, <1>4 DEF FxToBase

LEMMA CurrencyKnown == ASSUME NEW i \in Instruments PROVE Instr[i].ccy \in Ccys
  BY DEF Ccys

LEMMA PriceIsRat ==
  ASSUME NEW d, Valued(d), NEW i \in Instruments PROVE IsRat(Price(d)[i]) /\ DOMAIN Price(d) = Instruments
  BY DEF Valued, PricesTyped, Price, Divisor, Sources

LEMMA MvLocalIsRat ==
  ASSUME NEW d, Valued(d), NEW i \in Instruments, NEW qty, IsRat(qty)
  PROVE  IsRat(MvLocal(i, qty, d))
<1>1. PICK p : p = Price(d)[i]
  OBVIOUS
<1>2. IsRat(p)
  BY <1>1, PriceIsRat
<1>3. CASE i \in Bonds
  <2>1. PICK a, face : a = input.accruals[d][i] /\ face = Frac(Instr[i].face, 100)
    OBVIOUS
  <2>2. IsRat(a)
    BY <1>3, <2>1 DEF Valued, AccrualsTyped
  <2>3. IsRat(face)
    BY <2>1, FracMeans, InstrAssumption
  <2>4. IsRat(p \oplus a)
    BY <1>2, <2>2, SumIsRat
  <2>5. IsRat(qty \otimes (p \oplus a))
    BY <2>4, ProductIsRat
  <2>6. IsRat(qty \otimes (p \oplus a) \otimes face)
    BY <2>3, <2>5, ProductIsRat
  <2> QED
    BY <1>1, <1>3, <2>1, <2>6 DEF MvLocal
<1>4. CASE i \notin Bonds
  <2>1. IsRat(qty \otimes p)
    BY <1>2, ProductIsRat
  <2> QED
    BY <1>1, <1>4, <2>1 DEF MvLocal
<1> QED
  BY <1>3, <1>4

LEMMA MvBaseIsRat ==
  ASSUME NEW d, Valued(d), NEW i \in Instruments, NEW qty, IsRat(qty)
  PROVE  IsRat(MvBase(i, qty, d))
<1>1. PICK a, b : a = MvLocal(i, qty, d) /\ b = FxToBase(d, Instr[i].ccy)
  OBVIOUS
<1>2. IsRat(a) /\ IsRat(b)
  BY <1>1, MvLocalIsRat, FxToBaseIsRat, CurrencyKnown
<1> QED
  BY <1>1, <1>2, ProductIsRat DEF MvBase

LEMMA NegatedIsRat == ASSUME NEW a, IsRat(a) PROVE IsRat(Zero \ominus a)
  BY ZeroOne, DifferenceIsRat

LEMMA SignedQtyIsRat ==
  ASSUME NEW d, Valued(d), NEW t \in input.trades PROVE IsRat(SignedQty(t))
<1>1. IsRat(t.qty)
  BY DEF Valued, TradesTyped, TradeTyped
<1> QED
  BY <1>1, NegatedIsRat DEF SignedQty

LEMMA TradesTodayKnown ==
  ASSUME NEW d, Valued(d)
  PROVE  /\ IsFiniteSet(TradesToday(d)) /\ TradesToday(d) \subseteq input.trades
         /\ \A t \in TradesToday(d) : t.instr \in Instruments
<1>1. TradesToday(d) \subseteq input.trades
  BY DEF TradesToday
<1>2. IsFiniteSet(TradesToday(d))
  BY <1>1, FS_Subset DEF Valued, TradesTyped
<1>3. ASSUME NEW t \in TradesToday(d) PROVE t.instr \in Instruments
  <2>1. t.instr \in DOMAIN Price(d)
    BY DEF TradesToday
  <2> QED
    BY <2>1 DEF Valued, PricesTyped, Price, Sources
<1> QED
  BY <1>1, <1>2, <1>3

\* Positions, with their signs.
PositionsTyped(holdings) ==
  DOMAIN holdings \subseteq Instruments /\ \A i \in DOMAIN holdings : IsRat(holdings[i])

LEMMA AfterTradesTyped ==
  ASSUME NEW d, Valued(d), PositionsTyped(walk.holdings) PROVE PositionsTyped(AfterTrades(d))
<1>1. PICK own : own = DOMAIN walk.holdings \cup {t.instr : t \in TradesToday(d)}
  OBVIOUS
<1>2. own \subseteq Instruments
  BY <1>1, TradesTodayKnown DEF PositionsTyped
<1>3. ASSUME NEW i \in own
      PROVE  IsRat((IF i \in DOMAIN walk.holdings THEN walk.holdings[i] ELSE Zero)
                     \oplus Total([t \in {t \in TradesToday(d) : t.instr = i} |-> SignedQty(t)]))
  <2>1. PICK S : S = {t \in TradesToday(d) : t.instr = i}
    OBVIOUS
  <2>2. PICK f : f = [t \in S |-> SignedQty(t)]
    OBVIOUS
  <2>3. Family(f, S)
    <3>1. IsFiniteSet(S) /\ S \subseteq input.trades
      BY <2>1, FS_Subset, TradesTodayKnown
    <3> QED
      BY <2>2, <3>1, SignedQtyIsRat DEF Family
  <2>4. IsRat(Total(f))
    BY <2>2, <2>3, TotalIsRat
  <2>5. PICK q : q = IF i \in DOMAIN walk.holdings THEN walk.holdings[i] ELSE Zero
    OBVIOUS
  <2>6. IsRat(q)
    BY <2>5, ZeroOne DEF PositionsTyped
  <2> QED
    BY <2>1, <2>2, <2>4, <2>5, <2>6, SumIsRat
<1> QED
  BY <1>1, <1>2, <1>3 DEF AfterTrades, PositionsTyped

LEMMA TradeCashIsRat == ASSUME NEW d, Valued(d) PROVE IsRat(TradeCash(d))
<1>1. PICK S, f : S = TradesToday(d) /\ f = [t \in S |-> MvBase(t.instr, SignedQty(t), d)]
  OBVIOUS
<1>2. Family(f, S)
  <2>1. ASSUME NEW t \in S PROVE IsRat(MvBase(t.instr, SignedQty(t), d))
    <3>1. PICK i, q : i = t.instr /\ q = SignedQty(t)
      OBVIOUS
    <3>2. i \in Instruments /\ IsRat(q)
      BY <1>1, <3>1, TradesTodayKnown, SignedQtyIsRat
    <3> QED
      BY <3>1, <3>2, MvBaseIsRat
  <2> QED
    BY <1>1, <2>1, TradesTodayKnown DEF Family
<1>3. IsRat(Total(f))
  BY <1>1, <1>2, TotalIsRat
<1> QED
  BY <1>1, <1>3, NegatedIsRat DEF TradeCash

HoldingsTyped(rows) ==
  DOMAIN rows \subseteq Instruments /\ \A i \in DOMAIN rows : HoldingTyped(rows[i])

LEMMA HoldingRowsTyped ==
  ASSUME NEW d, Valued(d), NEW holdings, PositionsTyped(holdings)
  PROVE  HoldingsTyped(HoldingRows(holdings, d))
<1>1. PICK rows : rows = HoldingRows(holdings, d)
  OBVIOUS
<1>2. DOMAIN rows \subseteq DOMAIN holdings
  BY <1>1 DEF HoldingRows
<1>3. ASSUME NEW i \in DOMAIN rows PROVE HoldingTyped(rows[i])
  <2>1. PICK q : q = holdings[i]
    OBVIOUS
  <2>2. i \in Instruments /\ IsRat(q)
    BY <1>2, <2>1 DEF PositionsTyped
  <2>3. IsRat(MvLocal(i, q, d)) /\ IsRat(MvBase(i, q, d))
    BY <2>2, MvLocalIsRat, MvBaseIsRat
  <2>4. rows[i] = [qty |-> q, price |-> Price(d)[i], mv_local |-> MvLocal(i, q, d),
                   fx |-> FxToBase(d, Instr[i].ccy), mv_base |-> MvBase(i, q, d)]
    BY <1>1, <2>1 DEF HoldingRows
  <2> QED
    BY <2>2, <2>3, <2>4 DEF HoldingTyped
<1> QED
  BY <1>1, <1>2, <1>3 DEF HoldingsTyped, PositionsTyped

LEMMA MvBaseTotalIsRat ==
  ASSUME NEW rows, HoldingsTyped(rows) PROVE IsRat(MvBaseTotal(rows))
<1>1. PICK S, f : S = DOMAIN rows /\ f = [i \in S |-> rows[i].mv_base]
  OBVIOUS
<1>2. IsFiniteSet(S)
  BY <1>1, FS_Subset, InstrAssumption DEF HoldingsTyped
<1>3. Family(f, S)
  BY <1>1, <1>2 DEF Family, HoldingsTyped, HoldingTyped
<1> QED
  BY <1>1, <1>3, TotalIsRat DEF MvBaseTotal

LEMMA TreatyIsRat ==
  ASSUME NEW domicile, NEW country PROVE IsRat(GetWhtRates(domicile, country).treaty)
<1>1. IsRat(Frac(3, 10))
  BY FracMeans
<1>2. CASE << domicile, country >> \in DOMAIN WHT_TREATY
  BY <1>2, InstrAssumption DEF GetWhtRates
<1>3. CASE << domicile, country >> \notin DOMAIN WHT_TREATY
  <2>1. GetWhtRates(domicile, country)
          = [treaty |-> Frac(3, 10), statutory |-> Frac(3, 10)]
    BY <1>3 DEF GetWhtRates
  <2> QED
    BY <1>1, <2>1
<1> QED
  BY <1>2, <1>3

LEMMA ReceiptsTyped ==
  ASSUME NEW d, Valued(d), NEW holdings, PositionsTyped(holdings)
  PROVE  /\ IsFiniteSet(Receipts(holdings, d))
         /\ \A x \in Receipts(holdings, d) : x.instr \in Instruments /\ IsRat(x.net)
<1> DEFINE Paid(ca) == /\ Payable(ca, d)
                       /\ ca.instr \in DOMAIN holdings /\ Zero \prec holdings[ca.instr]
           Rate(ca) == GetWhtRates(fund.domicile, Instr[ca.instr].country).treaty
           Gross(ca) == holdings[ca.instr] \otimes ca.gross
           Receipt(ca) == [id |-> ca.id, instr |-> ca.instr, day |-> d, gross |-> Gross(ca),
                           rate |-> Rate(ca), net |-> Gross(ca) \ominus (Gross(ca) \otimes Rate(ca))]
<1>1. PICK S : S = {ca \in input.actions : Paid(ca)}
  OBVIOUS
<1>2. PICK f : f = [ca \in S |-> Receipt(ca)]
  OBVIOUS
<1>3. PICK T : T = {f[ca] : ca \in S}
  OBVIOUS
<1>4. Receipts(holdings, d) = T
  BY <1>1, <1>2, <1>3 DEF Receipts
<1>5. IsFiniteSet(T)
  <2>1. IsFiniteSet(S)
    BY <1>1, FS_Subset DEF Valued, ActionsTyped
  <2>2. DOMAIN f = S
    BY <1>2
  <2> QED
    BY <1>3, <2>1, <2>2, FiniteImage
<1>6. ASSUME NEW ca \in S PROVE f[ca].instr \in Instruments /\ IsRat(f[ca].net)
  <2>1. ca.instr \in DOMAIN holdings /\ IsRat(ca.gross)
    BY <1>1 DEF Valued, ActionsTyped
  <2>2. PICK g, r : g = Gross(ca) /\ r = Rate(ca)
    OBVIOUS
  <2>3. IsRat(g) /\ IsRat(r)
    BY <2>1, <2>2, ProductIsRat, TreatyIsRat DEF PositionsTyped
  <2>4. IsRat(g \ominus (g \otimes r))
    BY <2>3, ProductIsRat, DifferenceIsRat
  <2>5. f[ca].instr = ca.instr /\ f[ca].net = g \ominus (g \otimes r)
    BY <1>2, <2>2
  <2> QED
    BY <2>1, <2>4, <2>5 DEF PositionsTyped
<1> QED
  BY <1>3, <1>4, <1>5, <1>6

LEMMA ReceiptCashIsRat ==
  ASSUME NEW d, Valued(d), NEW S, IsFiniteSet(S),
         \A x \in S : x.instr \in Instruments /\ IsRat(x.net)
  PROVE  IsRat(ReceiptCash(S, d))
<1>1. PICK f : f = [x \in S |-> x.net \otimes FxToBase(d, Instr[x.instr].ccy)]
  OBVIOUS
<1>2. Family(f, S)
  BY <1>1, CurrencyKnown, FxToBaseIsRat, ProductIsRat DEF Family
<1> QED
  BY <1>1, <1>2, TotalIsRat DEF ReceiptCash

LEMMA FlowsTodayKnown ==
  ASSUME NEW d, Valued(d), NEW c
  PROVE  /\ IsFiniteSet(FlowsToday(c, d))
         /\ \A e \in FlowsToday(c, d) : FlowTyped(e) /\ IsRat(SignedGross(e))
<1>1. FlowsToday(c, d) \subseteq input.capstock
  BY DEF FlowsToday
<1>2. IsFiniteSet(FlowsToday(c, d))
  BY <1>1, FS_Subset DEF Valued, FlowsTyped
<1>3. \A e \in FlowsToday(c, d) : FlowTyped(e)
  BY <1>1 DEF Valued, FlowsTyped
<1>4. \A e \in FlowsToday(c, d) : IsRat(SignedGross(e))
  BY <1>3, NegatedIsRat DEF SignedGross, FlowTyped
<1> QED
  BY <1>2, <1>3, <1>4

ClassDayTyped(x) ==
  /\ IsRat(x.gav) /\ IsRat(x.mgmt) /\ IsRat(x.target) /\ IsRat(x.nav) /\ IsRat(x.delta)
  /\ IsRat(x.flow)
  /\ x.nav # Zero => IsRat(x.shares)

LEMMA NoLessIsRat == ASSUME NEW a, NEW b, IsRat(a), IsRat(b) PROVE IsRat(NoLess(a, b))
  BY DEF NoLess

LEMMA ClassIsTyped ==
  ASSUME fund \in Funds, NEW c \in DOMAIN fund.classes
  PROVE  /\ IsRat(fund.classes[c].mgmt) /\ IsRat(fund.classes[c].perf)
         /\ IsRat(fund.classes[c].shares) /\ IsRat(fund.classes[c].nav)
  BY FundsAssumption

LEMMA ClassDayIsTyped ==
  ASSUME NEW d, Valued(d), NEW c \in DOMAIN fund.classes, ClassTyped(walk.classes[c]),
         walk.classes[c].shares # Zero, NEW r, IsRat(r)
  PROVE  ClassDayTyped(ClassDay(c, r, d))
<1> DEFINE cs     == walk.classes[c]
           cfg    == fund.classes[c]
           gav    == cs.shares \otimes cs.nav \otimes (One \oplus r)
           mgmt   == gav \otimes cfg.mgmt
           left   == gav \ominus mgmt
           above  == (left \oslash cs.shares) \ominus cs.hwm
           fee    == above \otimes cs.shares \otimes cfg.perf
           target == IF cfg.has_hwm THEN NoLess(Zero, fee) ELSE Zero
           nav    == (left \ominus target) \oslash cs.shares
           flows  == FlowsToday(c, d)
           delta  == IF cfg.has_hwm THEN PerfFeeDelta(target, cs.balance) ELSE Zero
           flow   == Total([e \in flows |-> SignedGross(e)])
           shares == cs.shares \oplus Total([e \in flows |-> SharesDelta(e, nav, cs.nav)])
<1>1. ClassDay(c, r, d) = [gav |-> gav, mgmt |-> mgmt, target |-> target, nav |-> nav,
                           delta |-> delta, flow |-> flow, shares |-> shares]
  BY DEF ClassDay
<1>2. /\ IsRat(cs.shares) /\ IsRat(cs.nav) /\ IsRat(cs.balance) /\ IsRat(cs.hwm)
      /\ cs.shares # Zero
  BY DEF ClassTyped
<1>3. IsRat(cfg.mgmt) /\ IsRat(cfg.perf)
  BY ClassIsTyped DEF Valued
<1> HIDE DEF cs, cfg
<1>4. IsRat(gav)
  BY <1>2, SumIsRat, ProductIsRat, ZeroOne
<1> HIDE DEF gav
<1>5. IsRat(mgmt)
  BY <1>3, <1>4, ProductIsRat
<1> HIDE DEF mgmt
<1>6. IsRat(left)
  BY <1>4, <1>5, DifferenceIsRat
<1> HIDE DEF left
<1>7. IsRat(above)
  BY <1>2, <1>6, QuotientIsRat, DifferenceIsRat
<1> HIDE DEF above
<1>8. IsRat(fee)
  BY <1>2, <1>3, <1>7, ProductIsRat
<1> HIDE DEF fee
<1>9. IsRat(target)
  BY <1>8, ZeroOne, NoLessIsRat
<1> HIDE DEF target
<1>10. IsRat(nav)
  BY <1>2, <1>6, <1>9, DifferenceIsRat, QuotientIsRat
<1>11. IsRat(delta)
  BY <1>2, <1>9, DifferenceIsRat, ZeroOne DEF PerfFeeDelta
<1> HIDE DEF nav, delta
<1>12. IsFiniteSet(flows) /\ \A e \in flows : IsRat(SignedGross(e))
  BY FlowsTodayKnown
<1> HIDE DEF flows
<1>13. IsRat(flow)
  <2>1. PICK f : f = [e \in flows |-> SignedGross(e)]
    OBVIOUS
  <2>2. Family(f, flows)
    BY <1>12, <2>1 DEF Family
  <2> QED
    BY <2>1, <2>2, TotalIsRat
<1>14. ASSUME nav # Zero PROVE IsRat(shares)
  <2>1. PICK f : f = [e \in flows |-> SharesDelta(e, nav, cs.nav)]
    OBVIOUS
  <2>2. Family(f, flows)
    BY <1>10, <1>12, <1>14, <2>1, QuotientIsRat DEF Family, SharesDelta
  <2>3. IsRat(Total(f))
    BY <2>1, <2>2, TotalIsRat
  <2> QED
    BY <1>2, <2>1, <2>3, SumIsRat
<1> HIDE DEF flow, shares
<1> QED
  BY <1>1, <1>4, <1>5, <1>9, <1>10, <1>11, <1>13, <1>14 DEF ClassDayTyped

\* What StepOneDay(d) puts together.
DayRows(d)   == HoldingRows(AfterTrades(d), d)
DayReceipts(d) == Receipts(AfterTrades(d), d)
DayCash(d)   == walk.cash \oplus TradeCash(d) \oplus ReceiptCash(DayReceipts(d), d)
DayAssets(d) == DayCash(d) \oplus MvBaseTotal(DayRows(d))
DayOf(c, d)  == ClassDay(c, FundReturn(DayAssets(d)), d)
DayOut(c, d) == DayOf(c, d).flow \ominus DayOf(c, d).mgmt \ominus DayOf(c, d).delta
DayCashOut(d) == DayCash(d) \oplus Total([c \in DOMAIN fund.classes |-> DayOut(c, d)])
DayNav(d)    == [c \in DOMAIN fund.classes |-> NavRow(DayOf(c, d), walk.classes[c].nav)]
DayClass(c, d) == [walk.classes[c] EXCEPT !.shares = DayOf(c, d).shares, !.nav = DayOf(c, d).nav,
                                          !.balance = DayOf(c, d).target]
DayPrior(d)  == Total([c \in DOMAIN fund.classes |-> DayNav(d)[c].nav_base])
DayFees(d)   == [c \in DOMAIN fund.classes |-> FeeRow(DayOf(c, d), walk.classes[c])]

LEMMA StepUnfolds ==
  ASSUME NEW d, NEW w, w = StepOneDay(d)
  PROVE  /\ {"day", "holdings", "cash", "prior", "classes", "rows"} \subseteq DOMAIN w
         /\ w.day = d + 1 /\ w.holdings = AfterTrades(d) /\ w.cash = DayCashOut(d)
         /\ w.prior = DayPrior(d)
         /\ w.classes = [c \in DOMAIN fund.classes |-> DayClass(c, d)]
         /\ Tables \subseteq DOMAIN w.rows
         /\ w.rows.holdings = Put(walk.rows.holdings, d, DayRows(d))
         /\ w.rows.cash = Put(walk.rows.cash, d, DayCashOut(d))
         /\ w.rows.fees = Put(walk.rows.fees, d, DayFees(d))
         /\ w.rows.nav = Put(walk.rows.nav, d, DayNav(d))
         /\ w.rows.receipts = walk.rows.receipts \cup DayReceipts(d)
<1>1. w = [day |-> d + 1, holdings |-> AfterTrades(d), cash |-> DayCashOut(d),
           prior |-> DayPrior(d), classes |-> [c \in DOMAIN fund.classes |-> DayClass(c, d)],
           rows |-> [holdings |-> Put(walk.rows.holdings, d, DayRows(d)),
                     cash |-> Put(walk.rows.cash, d, DayCashOut(d)),
                     fees |-> Put(walk.rows.fees, d, DayFees(d)),
                     nav |-> Put(walk.rows.nav, d, DayNav(d)),
                     receipts |-> walk.rows.receipts \cup DayReceipts(d)]]
  BY Zenon DEF StepOneDay, DayRows, DayReceipts, DayCash, DayAssets, DayOf, DayOut, DayCashOut,
               DayNav, DayFees, DayClass, DayPrior, MvBaseTotal
<1> QED
  BY <1>1 DEF Tables

LEMMA FundReturnIsRat ==
  ASSUME IsRat(walk.prior), NEW assets, IsRat(assets) PROVE IsRat(FundReturn(assets))
<1>1. CASE Zero \prec walk.prior
  <2>1. Divisor(walk.prior)
    BY <1>1, PositiveDivisor DEF Positive
  <2> QED
    BY <1>1, <2>1, QuotientIsRat, DifferenceIsRat, ZeroOne DEF FundReturn, Divisor
<1>2. CASE ~(Zero \prec walk.prior)
  BY <1>2, ZeroOne DEF FundReturn
<1> QED
  BY <1>1, <1>2

\* The share classes of a fund have shares.
Subscribed == \A c \in DOMAIN fund.classes : walk.classes[c].shares # Zero

LEMMA DayIsTyped ==
  ASSUME NEW d, Valued(d), WalkTyped, Subscribed
  PROVE  /\ PositionsTyped(AfterTrades(d)) /\ HoldingsTyped(DayRows(d))
         /\ IsRat(DayCash(d)) /\ IsRat(DayAssets(d)) /\ IsRat(DayCashOut(d))
         /\ \A c \in DOMAIN fund.classes : ClassDayTyped(DayOf(c, d))
<1>1. PositionsTyped(AfterTrades(d))
  BY AfterTradesTyped DEF WalkTyped, PositionsTyped
<1>2. HoldingsTyped(DayRows(d))
  BY <1>1, HoldingRowsTyped DEF DayRows
<1>3. IsRat(ReceiptCash(DayReceipts(d), d))
  BY <1>1, ReceiptsTyped, ReceiptCashIsRat DEF DayReceipts
<1>4. IsRat(DayCash(d))
  BY <1>3, TradeCashIsRat, SumIsRat DEF DayCash, WalkTyped
<1>5. IsRat(DayAssets(d))
  BY <1>2, <1>4, MvBaseTotalIsRat, SumIsRat DEF DayAssets
<1>6. IsRat(FundReturn(DayAssets(d)))
  BY <1>5, FundReturnIsRat DEF WalkTyped
<1>7. ASSUME NEW c \in DOMAIN fund.classes PROVE ClassDayTyped(DayOf(c, d))
  BY <1>6, ClassDayIsTyped DEF DayOf, WalkTyped, Subscribed
<1>8. IsRat(DayCashOut(d))
  <2>1. PICK f : f = [c \in DOMAIN fund.classes |-> DayOut(c, d)]
    OBVIOUS
  <2>2. ASSUME NEW c \in DOMAIN fund.classes PROVE IsRat(DayOut(c, d))
    BY <1>7, DifferenceIsRat DEF DayOut, ClassDayTyped
  <2>3. Family(f, DOMAIN fund.classes)
    BY <2>1, <2>2, FundsAssumption DEF Family, Valued
  <2>4. IsRat(Total(f))
    BY <2>1, <2>3, TotalIsRat
  <2> QED
    BY <1>4, <2>1, <2>4, SumIsRat DEF DayCashOut
<1> QED
  BY <1>1, <1>2, <1>4, <1>5, <1>7, <1>8

\* What a day writes, the class keeping some NAV.
LEMMA DayWritten ==
  ASSUME NEW d, Valued(d), WalkTyped, Subscribed, NEW c \in DOMAIN fund.classes,
         DayOf(c, d).nav # Zero
  PROVE  /\ NavTyped(DayNav(d)[c]) /\ FeeTyped(DayFees(d)[c])
         /\ IsRat(DayOf(c, d).shares) /\ IsRat(DayOf(c, d).nav) /\ IsRat(DayOf(c, d).target)
<1>1. PICK x : x = DayOf(c, d)
  OBVIOUS
<1>2. ClassDayTyped(x) /\ x.nav # Zero
  BY <1>1, DayIsTyped
<1>3. IsRat(x.nav \otimes x.shares)
  BY <1>2, ProductIsRat DEF ClassDayTyped
<1>4. NavTyped(NavRow(x, walk.classes[c].nav))
  BY <1>2, <1>3 DEF NavRow, NavTyped, ClassDayTyped, IsBreak, \prec
<1>5. FeeTyped(FeeRow(x, walk.classes[c]))
  BY <1>2 DEF FeeRow, FeeTyped, ClassDayTyped, WalkTyped, ClassTyped
<1> QED
  BY <1>1, <1>2, <1>4, <1>5 DEF DayNav, DayFees, ClassDayTyped

\* A table with one more row.
Added(new, old, S, d, row) ==
  DOMAIN new = S \cup {d} /\ new[d] = row /\ \A x \in S : new[x] = old[x]

LEMMA PutAdds ==
  ASSUME NEW old, NEW S, DOMAIN old = S, NEW d, d \notin S, NEW row
  PROVE  Added(Put(old, d, row), old, S, d, row)
  BY DEF Put, Added

\* Tables with one more day.
Grown(new, b, d) ==
  /\ Tables \subseteq DOMAIN new
  /\ Added(new.holdings, b.holdings, DOMAIN b.nav, d, new.holdings[d])
  /\ Added(new.cash, b.cash, DOMAIN b.nav, d, new.cash[d])
  /\ Added(new.fees, b.fees, DOMAIN b.nav, d, new.fees[d])
  /\ Added(new.nav, b.nav, DOMAIN b.nav, d, new.nav[d])

LEMMA GrownTyped ==
  ASSUME NEW b, TablesTyped(b), NEW d, NEW new, Grown(new, b, d), DayTyped(new, d)
  PROVE  TablesTyped(new)
<1>1. ASSUME NEW x \in DOMAIN b.nav PROVE DayTyped(new, x)
  <2>1. DayTyped(b, x)
    BY DEF TablesTyped
  <2>2. /\ new.holdings[x] = b.holdings[x] /\ new.cash[x] = b.cash[x]
        /\ new.fees[x] = b.fees[x] /\ new.nav[x] = b.nav[x]
    BY DEF Grown, Added
  <2> QED
    BY <2>1, <2>2 DEF DayTyped
<1> QED
  BY <1>1 DEF TablesTyped, Grown, Added

LEMMA StepGrows ==
  ASSUME TablesTyped(walk.rows), NEW d, d \notin DOMAIN walk.rows.nav, NEW w, w = StepOneDay(d)
  PROVE  /\ Grown(w.rows, walk.rows, d)
         /\ w.rows.holdings[d] = DayRows(d) /\ w.rows.cash[d] = DayCashOut(d)
         /\ w.rows.fees[d] = DayFees(d) /\ w.rows.nav[d] = DayNav(d)
<1>1. PICK b, new, S : b = walk.rows /\ new = w.rows /\ S = DOMAIN b.nav
  OBVIOUS
<1>2. DOMAIN b.holdings = S /\ DOMAIN b.cash = S /\ DOMAIN b.fees = S /\ d \notin S
  BY <1>1 DEF TablesTyped
<1>3. /\ Tables \subseteq DOMAIN new
      /\ new.holdings = Put(b.holdings, d, DayRows(d)) /\ new.cash = Put(b.cash, d, DayCashOut(d))
      /\ new.fees = Put(b.fees, d, DayFees(d)) /\ new.nav = Put(b.nav, d, DayNav(d))
  BY <1>1, StepUnfolds
<1>4. Added(new.holdings, b.holdings, S, d, DayRows(d))
  BY <1>2, <1>3, PutAdds
<1>5. Added(new.cash, b.cash, S, d, DayCashOut(d))
  BY <1>2, <1>3, PutAdds
<1>6. Added(new.fees, b.fees, S, d, DayFees(d))
  BY <1>2, <1>3, PutAdds
<1>7. Added(new.nav, b.nav, S, d, DayNav(d))
  BY <1>1, <1>2, <1>3, PutAdds
<1> QED
  BY <1>1, <1>3, <1>4, <1>5, <1>6, <1>7 DEF Grown, Added

LEMMA ClassRestated ==
  ASSUME NEW cs, ClassTyped(cs), NEW shares, NEW nav, NEW balance,
         IsRat(shares), IsRat(nav), IsRat(balance)
  PROVE  ClassTyped([cs EXCEPT !.shares = shares, !.nav = nav, !.balance = balance])
  BY DEF ClassTyped

LEMMA StruckTyped ==
  ASSUME NEW d, Valued(d), WalkTyped, d = walk.day, Subscribed, walk' = StepOneDay(d),
         fund' = fund, Solvent'
  PROVE  WalkTyped'
<1> USE LastDayAssumption
<1> DEFINE C == DOMAIN fund.classes
<1>1. PICK w : w = walk'
  OBVIOUS
<1>2. /\ w.day = d + 1 /\ w.holdings = AfterTrades(d) /\ w.cash = DayCashOut(d)
      /\ w.prior = DayPrior(d) /\ w.classes = [c \in C |-> DayClass(c, d)]
      /\ {"day", "holdings", "cash", "prior", "classes", "rows"} \subseteq DOMAIN w
  BY <1>1, StepUnfolds
<1>3. ASSUME NEW c \in C PROVE DayOf(c, d).nav # Zero
  <2>1. ClassTyped(walk.classes[c])
    BY DEF WalkTyped
  <2>2. DayClass(c, d).nav = DayOf(c, d).nav
    BY <2>1 DEF ClassTyped, DayClass
  <2>3. w.classes[c].nav # Zero
    BY <1>1 DEF Solvent
  <2> QED
    BY <1>2, <2>2, <2>3
<1>4. ASSUME NEW c \in C
      PROVE  /\ NavTyped(DayNav(d)[c]) /\ FeeTyped(DayFees(d)[c])
             /\ IsRat(DayOf(c, d).shares) /\ IsRat(DayOf(c, d).nav) /\ IsRat(DayOf(c, d).target)
  BY <1>3, DayWritten
<1>5. ASSUME NEW c \in C PROVE ClassTyped(w.classes[c])
  <2>1. ClassTyped(walk.classes[c])
    BY DEF WalkTyped
  <2>2. ClassTyped(DayClass(c, d))
    BY <1>4, <2>1, ClassRestated DEF DayClass
  <2> QED
    BY <1>2, <2>2
<1>6. IsRat(w.prior)
  <2>1. PICK f : f = [c \in C |-> DayNav(d)[c].nav_base]
    OBVIOUS
  <2>2. Family(f, C)
    BY <1>4, <2>1, FundsAssumption DEF Family, Valued, NavTyped
  <2>3. IsRat(Total(f))
    BY <2>1, <2>2, TotalIsRat
  <2> QED
    BY <1>2, <2>1, <2>3 DEF DayPrior
<1>7. /\ IsRat(DayCashOut(d)) /\ PositionsTyped(AfterTrades(d)) /\ HoldingsTyped(DayRows(d))
  BY DayIsTyped
<1>8. d \in Days /\ d \notin DOMAIN walk.rows.nav /\ TablesTyped(walk.rows)
  BY DEF Valued, WalkTyped, Days
<1>9. /\ Grown(w.rows, walk.rows, d)
      /\ w.rows.holdings[d] = DayRows(d) /\ w.rows.cash[d] = DayCashOut(d)
      /\ w.rows.fees[d] = DayFees(d) /\ w.rows.nav[d] = DayNav(d)
  BY <1>1, <1>8, StepGrows
<1>10. DayTyped(w.rows, d)
  <2>1. DOMAIN DayFees(d) = C /\ DOMAIN DayNav(d) = C
    BY DEF DayFees, DayNav
  <2> QED
    BY <1>4, <1>7, <1>8, <1>9, <2>1 DEF DayTyped, HoldingsTyped
<1>11. TablesTyped(w.rows)
  BY <1>8, <1>9, <1>10, GrownTyped
<1>12. TablesTyped(walk.rows)'
  BY <1>1, <1>11 DEF TablesTyped, DayTyped
<1>13. d \in 1 .. LastDay /\ DOMAIN w.rows.nav = 1 .. (d + 1) - 1 /\ d + 1 \in 1 .. LastDay + 1
  BY <1>8, <1>9 DEF WalkTyped, Days, Grown, Added
<1> QED
  BY <1>1, <1>2, <1>5, <1>6, <1>7, <1>12, <1>13 DEF WalkTyped, PositionsTyped

LEMMA FinalizedTyped ==
  ASSUME InputTyped, fund \in Funds, phase = "walk", NEW rows, TablesTyped(rows), DOMAIN rows.nav = Days,
         \A d \in Days : \A c \in DOMAIN fund.classes : rows.nav[d][c].nav # Zero,
         input' = Finalized(rows), fund' = fund, phase' = "postwalk"
  PROVE  InputTyped'
<1> DEFINE Priced(t) == IF t \in TradesToday(t.day)
                        THEN [t EXCEPT !.price = Price(t.day)[t.instr]] ELSE t
           Shared(e) == [e EXCEPT !.delta = SharesDelta(e, rows.nav[e.day][e.class].nav,
                                                        rows.nav[e.day][e.class].prior)]
<1>1. PICK S, T : S = input.trades /\ T = input.capstock
  OBVIOUS
<1>2. PICK f : f = [t \in S |-> Priced(t)]
  OBVIOUS
<1>3. PICK g : g = [e \in T |-> Shared(e)]
  OBVIOUS
<1>4. PICK trades, capstock : trades = {f[t] : t \in S} /\ capstock = {g[e] : e \in T}
  OBVIOUS
<1>5. input' = [input EXCEPT !.trades = trades, !.capstock = capstock]
  BY <1>1, <1>2, <1>3, <1>4, Zenon DEF Finalized
<1>6. TradesTyped(trades)
  <2>1. IsFiniteSet(S) /\ \A t \in S : TradeTyped(t)
    BY <1>1 DEF InputTyped, TradesTyped
  <2>2. ASSUME NEW t \in S PROVE TradeTyped(f[t])
    <3>1. f[t] = Priced(t)
      BY <1>2
    <3>2. TradeTyped(t)
      BY <2>1
    <3>3. TradeTyped([t EXCEPT !.price = Price(t.day)[t.instr]])
      BY <3>2 DEF TradeTyped
    <3> QED
      BY <3>1, <3>2, <3>3
  <2>3. IsFiniteSet(trades)
    BY <1>2, <1>4, <2>1, FiniteImage
  <2> QED
    BY <1>4, <2>2, <2>3 DEF TradesTyped
<1>7. FlowsTyped(capstock)
  <2>1. IsFiniteSet(T) /\ \A e \in T : FlowTyped(e)
    BY <1>1 DEF InputTyped, FlowsTyped
  <2>2. ASSUME NEW e \in T PROVE FlowTyped(g[e])
    <3>1. FlowTyped(e)
      BY <2>1
    <3>2. PICK n, p : n = rows.nav[e.day][e.class].nav /\ p = rows.nav[e.day][e.class].prior
      OBVIOUS
    <3>3. IsRat(n) /\ n # Zero
      BY <3>1, <3>2 DEF FlowTyped, TablesTyped, DayTyped, NavTyped
    <3>4. IsRat(SignedGross(e))
      BY <3>1, NegatedIsRat DEF FlowTyped, SignedGross
    <3>5. PICK v : v = SharesDelta(e, n, p)
      OBVIOUS
    <3>6. IsRat(v)
      BY <3>3, <3>4, <3>5, QuotientIsRat DEF SharesDelta
    <3>7. g[e] = [e EXCEPT !.delta = v]
      BY <1>3, <3>2, <3>5
    <3> QED
      BY <3>1, <3>6, <3>7 DEF FlowTyped
  <2>3. IsFiniteSet(capstock)
    BY <1>3, <1>4, <2>1, FiniteImage
  <2> QED
    BY <1>4, <2>2, <2>3 DEF FlowsTyped
<1>8. FlowsTyped(capstock)'
  BY <1>7 DEF FlowsTyped, FlowTyped
<1> QED
  BY <1>5, <1>6, <1>8 DEF InputTyped, Inputs, FlowsTyped, FlowTyped

LEMMA BulkWriteTyped ==
  ASSUME Typed, BulkWrite, Solvent' PROVE InputTyped' /\ WalkTyped' /\ BooksTyped'
<1>1. /\ phase = "walk" /\ phase' = "postwalk" /\ fund' = fund /\ walk' = walk
      /\ books' = walk.rows /\ walk.day = LastDay + 1 /\ input' = Finalized(walk.rows)
  BY DEF BulkWrite, Advance
<1>2. DOMAIN walk.rows.nav = Days /\ TablesTyped(walk.rows)
  BY <1>1, LastDayAssumption DEF Typed, WalkTyped, Days
<1>3. \A d \in Days : \A c \in DOMAIN fund.classes : walk.rows.nav[d][c].nav # Zero
  BY <1>1, <1>2 DEF Solvent
<1>4. InputTyped'
  BY <1>1, <1>2, <1>3, FinalizedTyped DEF Typed, ChoicesTyped
<1>5. TablesTyped(books)'
  BY <1>1, <1>2 DEF TablesTyped, DayTyped
<1>6. BooksTyped'
  BY <1>1, <1>2, <1>5 DEF BooksTyped
<1>7. WalkTyped'
  BY <1>1 DEF Typed, WalkTyped, TablesTyped, DayTyped
<1> QED
  BY <1>4, <1>6, <1>7

(***************************************************************************)
(* What the post-walk injectors leave of the tables.                       *)
(***************************************************************************)

Only(new, old, d) == DOMAIN new = DOMAIN old /\ \A x \in DOMAIN old : x # d => new[x] = old[x]

\* Nothing but the rows of a day, and no cash.
Touched(new, b, d) ==
  /\ Tables \subseteq DOMAIN new
  /\ Only(new.holdings, b.holdings, d) /\ Only(new.cash, b.cash, d)
  /\ Only(new.fees, b.fees, d) /\ Only(new.nav, b.nav, d)
  /\ new.cash[d] = b.cash[d]

LEMMA TouchedTyped ==
  ASSUME NEW b, TablesTyped(b), NEW d, NEW new, Touched(new, b, d), DayTyped(new, d)
  PROVE  TablesTyped(new) /\ DOMAIN new.nav = DOMAIN b.nav
<1>1. ASSUME NEW x \in DOMAIN b.nav, x # d PROVE DayTyped(new, x)
  <2>1. DayTyped(b, x)
    BY DEF TablesTyped
  <2>2. /\ new.holdings[x] = b.holdings[x] /\ new.cash[x] = b.cash[x]
        /\ new.fees[x] = b.fees[x] /\ new.nav[x] = b.nav[x]
    BY <1>1 DEF Touched, Only, TablesTyped
  <2> QED
    BY <2>1, <2>2 DEF DayTyped
<1> QED
  BY <1>1 DEF TablesTyped, Touched, Only

\* The row of one class restated, with its fee row.
OneRestated(new, b, d, c, row, fee) ==
  /\ Touched(new, b, d) /\ new.holdings[d] = b.holdings[d]
  /\ DOMAIN new.nav[d] = DOMAIN fund.classes /\ DOMAIN new.fees[d] = DOMAIN fund.classes
  /\ \A x \in DOMAIN fund.classes \ {c} :
       new.nav[d][x] = b.nav[d][x] /\ new.fees[d][x] = b.fees[d][x]
  /\ new.nav[d][c] = row /\ new.fees[d][c] = fee

LEMMA OneRestatedTyped ==
  ASSUME NEW b, TablesTyped(b), NEW d \in DOMAIN b.nav, NEW c, NEW row, NEW fee,
         NavTyped(row), FeeTyped(fee), NEW new, OneRestated(new, b, d, c, row, fee)
  PROVE  TablesTyped(new) /\ DOMAIN new.nav = DOMAIN b.nav
<1>1. DayTyped(b, d)
  BY DEF TablesTyped
<1>2. \A x \in DOMAIN fund.classes : FeeTyped(new.fees[d][x]) /\ NavTyped(new.nav[d][x])
  BY <1>1 DEF DayTyped, OneRestated
<1>3. DayTyped(new, d)
  BY <1>1, <1>2 DEF DayTyped, OneRestated, Touched
<1> QED
  BY <1>3, TouchedTyped DEF OneRestated

LEMMA RestatedTyped ==
  ASSUME NEW row, NavTyped(row), NEW nav_base, IsRat(nav_base), NEW shares, IsRat(shares),
         shares # Zero, NEW prior, NEW fees
  PROVE  NavTyped(Restated(row, nav_base, shares, prior, fees))
<1>1. PICK nav : nav = nav_base \oslash shares
  OBVIOUS
<1>2. IsRat(nav)
  BY <1>1, QuotientIsRat
<1>3. PICK move, break : move = Move(nav, prior) /\ break = IsBreak(move)
  OBVIOUS
<1>4. break \in BOOLEAN
  BY <1>3 DEF IsBreak, \prec
<1>5. Restated(row, nav_base, shares, prior, fees) =
        [row EXCEPT !.nav_base = nav_base, !.shares = shares, !.nav = nav, !.prior = prior,
                    !.fees = fees, !.move = move, !.is_break = break]
  BY <1>1, <1>3 DEF Restated
<1> QED
  BY <1>2, <1>4, <1>5 DEF NavTyped

\* The rows of the day adjusted, and its holdings revalued or not.
AllAdjusted(new, b, d, rows, delta) ==
  /\ Touched(new, b, d) /\ new.holdings[d] = rows /\ new.fees[d] = b.fees[d]
  /\ new.nav = AdjustClassNav(b.nav, d, delta)

DayTotal(nav, d) == Total([c \in DOMAIN nav[d] |-> nav[d][c].nav_base])
Part(nav, d, c, delta) ==
  nav[d][c].nav_base \oplus (delta \otimes (nav[d][c].nav_base \oslash DayTotal(nav, d)))
PartRow(nav, d, c, delta) ==
  Restated(nav[d][c], Part(nav, d, c, delta), nav[d][c].shares, nav[d][c].prior, nav[d][c].fees)

LEMMA AdjustUnfolds ==
  ASSUME NEW nav, NEW d, NEW delta
  PROVE  AdjustClassNav(nav, d, delta) =
           IF ~(Zero \prec DayTotal(nav, d)) THEN nav
           ELSE [nav EXCEPT ![d] = [c \in DOMAIN nav[d] |-> PartRow(nav, d, c, delta)]]
  BY DEF AdjustClassNav, DayTotal, Part, PartRow

LEMMA DayTotalIsRat ==
  ASSUME fund \in Funds, NEW b, TablesTyped(b), NEW d \in DOMAIN b.nav
  PROVE  IsRat(DayTotal(b.nav, d))
<1>1. PICK S, f : S = DOMAIN b.nav[d] /\ f = [c \in S |-> b.nav[d][c].nav_base]
  OBVIOUS
<1>2. S = DOMAIN fund.classes /\ \A c \in S : IsRat(b.nav[d][c].nav_base)
  BY <1>1 DEF TablesTyped, DayTyped, NavTyped
<1>3. Family(f, S)
  BY <1>1, <1>2, FundsAssumption DEF Family
<1> QED
  BY <1>1, <1>3, TotalIsRat DEF DayTotal

\* Each row of an adjusted day is as it was, or restated.
LEMMA AdjustedRows ==
  ASSUME NEW b, TablesTyped(b), NEW d \in DOMAIN b.nav, NEW rows, NEW delta, NEW new,
         AllAdjusted(new, b, d, rows, delta)
  PROVE  /\ DOMAIN new.nav[d] = DOMAIN fund.classes
         /\ ~(Zero \prec DayTotal(b.nav, d)) => new.nav[d] = b.nav[d]
         /\ Zero \prec DayTotal(b.nav, d) =>
              \A c \in DOMAIN fund.classes : new.nav[d][c] = PartRow(b.nav, d, c, delta)
<1>1. DOMAIN b.nav[d] = DOMAIN fund.classes
  BY DEF TablesTyped, DayTyped
<1>2. CASE ~(Zero \prec DayTotal(b.nav, d))
  BY <1>1, <1>2, AdjustUnfolds DEF AllAdjusted
<1>3. CASE Zero \prec DayTotal(b.nav, d)
  <2>1. PICK f : f = [c \in DOMAIN b.nav[d] |-> PartRow(b.nav, d, c, delta)]
    OBVIOUS
  <2>2. new.nav = [b.nav EXCEPT ![d] = f]
    BY <1>3, <2>1, AdjustUnfolds DEF AllAdjusted
  <2>3. new.nav[d] = f
    BY <2>2
  <2> QED
    BY <1>1, <1>3, <2>1, <2>3
<1> QED
  BY <1>2, <1>3

LEMMA PartIsRat ==
  ASSUME fund \in Funds, NEW b, TablesTyped(b), NEW d \in DOMAIN b.nav, NEW delta, IsRat(delta),
         Zero \prec DayTotal(b.nav, d), NEW c \in DOMAIN fund.classes
  PROVE  /\ IsRat(Part(b.nav, d, c, delta)) /\ DayTotal(b.nav, d) # Zero
         /\ NavTyped(b.nav[d][c])
<1>1. PICK t, n : t = DayTotal(b.nav, d) /\ n = b.nav[d][c].nav_base
  OBVIOUS
<1>2. IsRat(t) /\ t # Zero
  BY <1>1, DayTotalIsRat, PositiveDivisor DEF Positive, Divisor
<1>3. NavTyped(b.nav[d][c]) /\ IsRat(n)
  BY <1>1 DEF TablesTyped, DayTyped, NavTyped
<1>4. IsRat(n \oplus (delta \otimes (n \oslash t)))
  BY <1>2, <1>3, QuotientIsRat, ProductIsRat, SumIsRat
<1> QED
  BY <1>1, <1>2, <1>3, <1>4 DEF Part

LEMMA AllAdjustedTyped ==
  ASSUME fund \in Funds, NEW b, TablesTyped(b), NEW d \in DOMAIN b.nav,
         NEW rows, HoldingsTyped(rows), NEW delta, IsRat(delta),
         \A c \in DOMAIN fund.classes : b.nav[d][c].shares # Zero,
         NEW new, AllAdjusted(new, b, d, rows, delta)
  PROVE  TablesTyped(new) /\ DOMAIN new.nav = DOMAIN b.nav
<1>1. DayTyped(b, d)
  BY DEF TablesTyped
<1>2. ASSUME NEW c \in DOMAIN fund.classes PROVE NavTyped(new.nav[d][c])
  <2>1. CASE ~(Zero \prec DayTotal(b.nav, d))
    BY <1>1, <2>1, AdjustedRows DEF DayTyped
  <2>2. CASE Zero \prec DayTotal(b.nav, d)
    <3>1. PICK p : p = Part(b.nav, d, c, delta)
      OBVIOUS
    <3>2. IsRat(p) /\ NavTyped(b.nav[d][c])
      BY <2>2, <3>1, PartIsRat
    <3>3. IsRat(b.nav[d][c].shares)
      BY <3>2 DEF NavTyped
    <3>4. NavTyped(Restated(b.nav[d][c], p, b.nav[d][c].shares, b.nav[d][c].prior,
                            b.nav[d][c].fees))
      BY <3>2, <3>3, RestatedTyped
    <3>5. new.nav[d][c] = PartRow(b.nav, d, c, delta)
      BY <2>2, AdjustedRows
    <3> QED
      BY <3>1, <3>4, <3>5 DEF PartRow
  <2> QED
    BY <2>1, <2>2
<1>3. DOMAIN new.nav[d] = DOMAIN fund.classes
  BY AdjustedRows
<1>4. DayTyped(new, d)
  BY <1>1, <1>2, <1>3 DEF DayTyped, AllAdjusted, Touched, HoldingsTyped
<1> QED
  BY <1>4, TouchedTyped DEF AllAdjusted

\* The columns of a row agree with each other and with the fee row.
Agree(row, fee) ==
  /\ row.nav_base = row.nav \otimes row.shares
  /\ row.move = (row.nav \oslash row.prior) \ominus One
  /\ row.is_break <=> fund.tolerance \prec Magnitude(row.move)
  /\ row.fees = fee.mgmt \oplus fee.balance

AllAgree(b) ==
  \A d \in DOMAIN b.nav : \A c \in DOMAIN fund.classes : Agree(b.nav[d][c], b.fees[d][c])

LEMMA RestatedAgrees ==
  ASSUME NEW row, NavTyped(row), NEW nav_base, IsRat(nav_base), NEW shares, IsRat(shares),
         shares # Zero, NEW prior, NEW fees, NEW fee, fees = fee.mgmt \oplus fee.balance
  PROVE  Agree(Restated(row, nav_base, shares, prior, fees), fee)
<1>1. PICK nav : nav = nav_base \oslash shares
  OBVIOUS
<1>2. nav \otimes shares = nav_base
  BY <1>1, QuotientCancels
<1>3. PICK move : move = Move(nav, prior)
  OBVIOUS
<1>4. PICK new : new = Restated(row, nav_base, shares, prior, fees)
  OBVIOUS
<1>5. PICK break : break = IsBreak(move)
  OBVIOUS
<1>6. /\ new.nav_base = nav_base /\ new.shares = shares /\ new.nav = nav /\ new.prior = prior
      /\ new.fees = fees /\ new.move = move /\ new.is_break = break
  <2>1. new = [row EXCEPT !.nav_base = nav_base, !.shares = shares, !.nav = nav, !.prior = prior,
                    !.fees = fees, !.move = move, !.is_break = break]
    BY <1>1, <1>3, <1>4, <1>5 DEF Restated
  <2> QED
    BY <2>1 DEF NavTyped
<1>7. new.move = (nav \oslash prior) \ominus One
  BY <1>3, <1>6 DEF Move
<1>8. new.is_break <=> fund.tolerance \prec Magnitude(move)
  BY <1>5, <1>6 DEF IsBreak
<1> QED
  BY <1>2, <1>4, <1>6, <1>7, <1>8 DEF Agree

\* The tables an injector works on, and the day it works on them.
LEMMA Operating ==
  ASSUME Typed, phase = "postwalk", cursor \in DOMAIN schedule
  PROVE  /\ Entry.as_of \in Days /\ TablesTyped(books) /\ DOMAIN books.nav = Days
         /\ Valued(Entry.as_of) /\ EntryComplete(fund, Entry) /\ DayTyped(books, Entry.as_of)
<1>1. EntryComplete(fund, Entry) /\ TablesTyped(books) /\ DOMAIN books.nav = Days
  BY EntryIsComplete DEF Typed, BooksTyped
<1>2. Entry.as_of \in Days
  BY <1>1 DEF EntryComplete
<1>3. Valued(Entry.as_of)
  BY <1>2, WindowValued
<1> QED
  BY <1>1, <1>2, <1>3 DEF TablesTyped

LEMMA ClassOperated ==
  ASSUME NEW b, TablesTyped(b), NEW d \in DOMAIN b.nav, NEW c \in DOMAIN fund.classes,
         NEW row, NEW fee, NEW new, Tables \subseteq DOMAIN new,
         new.holdings = b.holdings, new.cash = b.cash,
         new.nav = [b.nav EXCEPT ![d][c] = row],
         \/ new.fees = b.fees /\ fee = b.fees[d][c]
         \/ new.fees = [b.fees EXCEPT ![d][c] = fee]
  PROVE  OneRestated(new, b, d, c, row, fee)
<1>1. /\ DOMAIN b.nav[d] = DOMAIN fund.classes /\ DOMAIN b.fees[d] = DOMAIN fund.classes
      /\ DOMAIN b.fees = DOMAIN b.nav
  BY DEF TablesTyped, DayTyped
<1>2. /\ Only(new.nav, b.nav, d) /\ DOMAIN new.nav[d] = DOMAIN fund.classes
      /\ \A x \in DOMAIN fund.classes \ {c} : new.nav[d][x] = b.nav[d][x]
      /\ new.nav[d][c] = row
  BY <1>1 DEF Only
<1>3. /\ Only(new.fees, b.fees, d) /\ DOMAIN new.fees[d] = DOMAIN fund.classes
      /\ \A x \in DOMAIN fund.classes \ {c} : new.fees[d][x] = b.fees[d][x]
      /\ new.fees[d][c] = fee
  BY <1>1 DEF Only
<1>4. Only(new.holdings, b.holdings, d) /\ Only(new.cash, b.cash, d)
  BY DEF Only
<1>5. new.holdings[d] = b.holdings[d] /\ new.cash[d] = b.cash[d]
  OBVIOUS
<1>6. Touched(new, b, d)
  BY <1>2, <1>3, <1>4, <1>5 DEF Touched
<1> QED
  BY <1>2, <1>3, <1>5, <1>6, Zenon DEF OneRestated

\* What an injector that restates a class leaves.
ClassRestatement ==
  \E row, fee : /\ OneRestated(books', books, Entry.as_of, Entry.class, row, fee)
                /\ NavTyped(row) /\ FeeTyped(fee)
                /\ AllAgree(books) => Agree(row, fee)
                /\ \/ Entry.code = "subscription_pre_cutoff"
                   \/ row.shares = books.nav[Entry.as_of][Entry.class].shares

LEMMA RestatedShares ==
  ASSUME NEW row, NavTyped(row), NEW nav_base, NEW shares, NEW prior, NEW fees
  PROVE  Restated(row, nav_base, shares, prior, fees).shares = shares
  BY DEF Restated, NavTyped

LEMMA Defect5Restates == ASSUME Typed, Solvent, Defect5 PROVE ClassRestatement
<1> DEFINE d      == Entry.as_of
           c      == Entry.class
           cfg    == fund.classes[c]
           row    == books.nav[d][c]
           fee    == books.fees[d][c]
           stale  == cfg.nav \otimes (One \oplus Entry.offset)
           gross  == row.nav_base \oplus fee.balance
           over   == ((gross \oslash row.shares) \ominus stale) \otimes row.shares \otimes cfg.perf
           target == NoLess(Zero, over)
           fee2   == [fee EXCEPT !.balance = target, !.delta = target, !.hwm = stale]
           row2   == Restated(row, gross \ominus target, row.shares, row.prior,
                              fee.mgmt \oplus target)
<1>1. /\ d \in Days /\ TablesTyped(books) /\ DOMAIN books.nav = Days
      /\ DayTyped(books, d) /\ EntryComplete(fund, Entry)
  BY Operating DEF Defect5, Due, DueHere
<1>2. c \in DOMAIN fund.classes /\ IsRat(Entry.offset)
  BY <1>1 DEF Defect5, Due, DueHere, EntryComplete, Mine
<1>3. NavTyped(row) /\ FeeTyped(fee) /\ row.shares # Zero
  BY <1>1, <1>2 DEF DayTyped, Solvent
<1>4. /\ IsRat(row.nav_base) /\ IsRat(row.shares) /\ IsRat(fee.mgmt) /\ IsRat(fee.balance)
      /\ IsRat(cfg.nav) /\ IsRat(cfg.perf)
  BY <1>2, <1>3, ClassIsTyped DEF NavTyped, FeeTyped, Typed, ChoicesTyped
<1>5. books' = [books EXCEPT !.fees[d][c] = fee2, !.nav[d][c] = row2]
  BY Zenon DEF Defect5
<1> HIDE DEF d, c, cfg, row, fee
<1>6. IsRat(stale)
  BY <1>2, <1>4, ZeroOne, SumIsRat, ProductIsRat
<1>7. IsRat(gross)
  BY <1>4, SumIsRat
<1> HIDE DEF stale, gross
<1>8. IsRat(over)
  BY <1>3, <1>4, <1>6, <1>7, QuotientIsRat, DifferenceIsRat, ProductIsRat
<1> HIDE DEF over
<1>9. IsRat(target)
  BY <1>8, ZeroOne, NoLessIsRat
<1> HIDE DEF target
<1>10. FeeTyped(fee2) /\ fee2.mgmt = fee.mgmt /\ fee2.balance = target
  BY <1>3, <1>6, <1>9 DEF FeeTyped
<1>11. IsRat(gross \ominus target)
  BY <1>7, <1>9, DifferenceIsRat
<1>12. NavTyped(row2)
  BY <1>3, <1>4, <1>11, RestatedTyped
<1>13. Agree(row2, fee2)
  BY <1>3, <1>4, <1>10, <1>11, RestatedAgrees
<1>14. row2.shares = row.shares
  BY <1>3, RestatedShares
<1> HIDE DEF fee2, row2
<1>15. OneRestated(books', books, d, c, row2, fee2)
  <2>1. Tables \subseteq DOMAIN books
    BY <1>1 DEF TablesTyped
  <2>2. /\ Tables \subseteq DOMAIN books' /\ books'.holdings = books.holdings
        /\ books'.cash = books.cash /\ books'.nav = [books.nav EXCEPT ![d][c] = row2]
        /\ books'.fees = [books.fees EXCEPT ![d][c] = fee2]
    BY <1>5, <2>1 DEF Tables
  <2> QED
    BY <1>1, <1>2, <2>2, ClassOperated
<1> QED
  BY <1>10, <1>12, <1>13, <1>14, <1>15 DEF ClassRestatement, d, c, row

LEMMA FeesRegroup ==
  ASSUME NEW a, NEW b, NEW x, IsRat(a), IsRat(b), IsRat(x)
  PROVE  (a \oplus b) \oplus x = (a \oplus x) \oplus b
<1>1. (a \oplus b) \oplus x = a \oplus (b \oplus x) /\ (a \oplus x) \oplus b = a \oplus (x \oplus b)
  BY SumAssociates
<1>2. b \oplus x = x \oplus b
  BY SumCommutes
<1> QED
  BY <1>1, <1>2

LEMMA Defect10Restates == ASSUME Typed, Solvent, Defect10 PROVE ClassRestatement
<1> DEFINE d      == Entry.as_of
           c      == Entry.class
           row    == books.nav[d][c]
           fee    == books.fees[d][c]
           extra  == books.fees[d][Entry.from].mgmt \otimes Overcharge
           fee2   == [fee EXCEPT !.mgmt = @ \oplus extra]
           row2   == Restated(row, row.nav_base \ominus extra, row.shares, row.prior,
                              row.fees \oplus extra)
<1>1. /\ d \in Days /\ TablesTyped(books) /\ DOMAIN books.nav = Days
      /\ DayTyped(books, d) /\ EntryComplete(fund, Entry)
  BY Operating DEF Defect10, Due, DueHere
<1>2. c \in DOMAIN fund.classes /\ Entry.from \in DOMAIN fund.classes
  BY <1>1 DEF Defect10, Due, DueHere, EntryComplete, Mine
<1>3. NavTyped(row) /\ FeeTyped(fee) /\ row.shares # Zero
  BY <1>1, <1>2 DEF DayTyped, Solvent
<1>4. IsRat(row.nav_base) /\ IsRat(row.shares) /\ IsRat(fee.mgmt) /\ IsRat(fee.balance)
  BY <1>3 DEF NavTyped, FeeTyped
<1>5. IsRat(extra)
  <2>1. PICK m : m = books.fees[d][Entry.from].mgmt
    OBVIOUS
  <2>2. IsRat(m)
    BY <1>1, <1>2, <2>1 DEF DayTyped, FeeTyped
  <2> QED
    BY <2>1, <2>2, Integral, ProductIsRat DEF Overcharge
<1>6. books' = [books EXCEPT !.nav[d][c] = row2, !.fees[d][c] = fee2]
  <2>1. books' = [books EXCEPT !.nav[d][c] = row2, !.fees[d][c].mgmt = @ \oplus extra]
    BY Zenon DEF Defect10
  <2> HIDE DEF extra, row2
  <2> QED
    BY <2>1
<1>7. AllAgree(books) => row.fees = fee.mgmt \oplus fee.balance
  BY <1>1, <1>2 DEF AllAgree, Agree
<1> HIDE DEF d, c, row, fee, extra
<1>8. FeeTyped(fee2) /\ fee2.mgmt = fee.mgmt \oplus extra /\ fee2.balance = fee.balance
  BY <1>3, <1>4, <1>5, SumIsRat DEF FeeTyped
<1>9. IsRat(row.nav_base \ominus extra)
  BY <1>4, <1>5, DifferenceIsRat
<1>10. NavTyped(row2)
  BY <1>3, <1>4, <1>9, RestatedTyped
<1>11. row2.shares = row.shares
  BY <1>3, RestatedShares
<1>12. ASSUME AllAgree(books) PROVE Agree(row2, fee2)
  <2>1. row.fees \oplus extra = fee2.mgmt \oplus fee2.balance
    BY <1>4, <1>5, <1>7, <1>8, <1>12, FeesRegroup
  <2> QED
    BY <1>3, <1>4, <1>9, <2>1, RestatedAgrees
<1> HIDE DEF fee2, row2
<1>13. OneRestated(books', books, d, c, row2, fee2)
  <2>1. Tables \subseteq DOMAIN books
    BY <1>1 DEF TablesTyped
  <2>2. /\ Tables \subseteq DOMAIN books' /\ books'.holdings = books.holdings
        /\ books'.cash = books.cash /\ books'.nav = [books.nav EXCEPT ![d][c] = row2]
        /\ books'.fees = [books.fees EXCEPT ![d][c] = fee2]
    BY <1>6, <2>1 DEF Tables
  <2> QED
    BY <1>1, <1>2, <2>2, ClassOperated
<1> QED
  BY <1>8, <1>10, <1>11, <1>12, <1>13 DEF ClassRestatement, d, c, row

\* An order booked late, or no order.
LEMMA Defect8Restates ==
  ASSUME Typed, Solvent, Solvent', fund' = fund, Defect8
  PROVE  /\ InputTyped'
         /\ ClassRestatement \/ books' = books
<1> DEFINE d      == Entry.as_of
           c      == Entry.class
           row    == books.nav[d][c]
           fee    == books.fees[d][c]
           prior  == books.nav[PriorBusinessDay(d)][c].nav
           S      == FlowsToday(c, d)
           booked == Total([e \in S |-> e.delta])
           before == row.shares \ominus booked
           new    == Entry.amount \oslash prior
           shares == before \oplus new
           value  == (before \otimes prior \otimes (One \oplus Entry.gain)) \oplus Entry.amount
           order  == [id |-> "CS_DEFECT_8", class |-> c, day |-> d, received |-> CutoffTime + 1,
                      type |-> "SUB", gross |-> Entry.amount, delta |-> new]
           row2   == Restated(row, value, shares, prior, row.fees)
<1>1. /\ d \in Days /\ TablesTyped(books) /\ DOMAIN books.nav = Days /\ Valued(d)
      /\ DayTyped(books, d) /\ EntryComplete(fund, Entry)
  BY Operating DEF Defect8, Due, DueHere
<1>2. /\ c \in DOMAIN fund.classes /\ IsRat(Entry.amount) /\ IsRat(Entry.gain)
      /\ phase = "postwalk" /\ phase' = phase
  BY <1>1 DEF Defect8, Due, DueHere, EntryComplete, Mine
<1>3. NavTyped(row) /\ FeeTyped(fee)
  BY <1>1, <1>2 DEF DayTyped
<1>4. CASE PriorBusinessDay(d) \in DOMAIN books.nav
  <2>1. IsRat(prior) /\ prior # Zero
    BY <1>1, <1>2, <1>4 DEF TablesTyped, DayTyped, NavTyped, Solvent
  <2>2. books' = [books EXCEPT !.nav[d][c] = row2]
    BY <1>4, Zenon DEF Defect8
  <2>3. input' = [input EXCEPT !.capstock = @ \cup {order}]
    BY <1>4, Zenon DEF Defect8
  <2>4. IsRat(booked)
    <3>1. PICK f : f = [e \in S |-> e.delta]
      OBVIOUS
    <3>2. Family(f, S)
      BY <1>1, <3>1, FlowsTodayKnown DEF Family, FlowTyped
    <3> QED
      BY <3>1, <3>2, TotalIsRat
  <2>5. AllAgree(books) => row.fees = fee.mgmt \oplus fee.balance
    BY <1>1, <1>2 DEF AllAgree, Agree
  <2>6. FlowTyped(order)
    BY <1>1, <1>2, <2>1, QuotientIsRat DEF FlowTyped
  <2> HIDE DEF order, S
  <2>7. InputTyped'
    <3>1. FlowsTyped(input.capstock \cup {order})
      BY <2>6, FS_AddElement DEF Typed, InputTyped, FlowsTyped
    <3> QED
      BY <1>2, <2>3, <3>1 DEF Typed, InputTyped, Inputs, FlowsTyped, FlowTyped
  <2>8. OneRestated(books', books, d, c, row2, fee)
    <3> HIDE DEF d, c, row2
    <3>1. Tables \subseteq DOMAIN books
      BY <1>1 DEF TablesTyped
    <3>2. /\ Tables \subseteq DOMAIN books' /\ books'.holdings = books.holdings
          /\ books'.cash = books.cash /\ books'.nav = [books.nav EXCEPT ![d][c] = row2]
          /\ books'.fees = books.fees
      BY <2>2, <3>1 DEF Tables
    <3> QED
      BY <1>1, <1>2, <3>2, ClassOperated
  <2>9. row2.shares = shares
    <3> HIDE DEF d, c, row, fee, prior, booked, before, new, shares, value
    <3> QED
      BY <1>3 DEF Restated, NavTyped
  <2>10. shares # Zero
    <3>1. books'.nav[d][c].shares # Zero
      <4>1. d \in DOMAIN books'.nav
        BY <1>1, <2>8 DEF OneRestated, Touched, Only
      <4> HIDE DEF d, c
      <4> QED
        BY <1>2, <4>1 DEF Solvent
    <3>2. books'.nav[d][c] = row2
      BY <2>8 DEF OneRestated
    <3> HIDE DEF row2, shares
    <3> QED
      BY <2>9, <3>1, <3>2
  <2> HIDE DEF d, c, row, fee, prior, booked
  <2>11. IsRat(before)
    BY <1>3, <2>4, DifferenceIsRat DEF NavTyped
  <2> HIDE DEF before
  <2>12. IsRat(new)
    BY <1>2, <2>1, QuotientIsRat
  <2> HIDE DEF new
  <2>13. IsRat(shares)
    BY <2>11, <2>12, SumIsRat
  <2> HIDE DEF shares
  <2>14. IsRat(value)
    BY <1>2, <2>1, <2>11, ZeroOne, SumIsRat, ProductIsRat
  <2> HIDE DEF value
  <2>15. NavTyped(row2)
    BY <1>3, <2>10, <2>13, <2>14, RestatedTyped
  <2>16. AllAgree(books) => Agree(row2, fee)
    BY <1>3, <2>5, <2>10, <2>13, <2>14, RestatedAgrees
  <2> HIDE DEF row2
  <2>17. Entry.code = "subscription_pre_cutoff"
    BY DEF Defect8, Due, DueHere
  <2> QED
    BY <1>3, <2>7, <2>8, <2>15, <2>16, <2>17 DEF ClassRestatement, d, c
<1>5. CASE PriorBusinessDay(d) \notin DOMAIN books.nav
  <2>1. books' = books /\ input' = input
    BY <1>5 DEF Defect8
  <2> QED
    BY <1>2, <2>1, InputKept
<1> QED
  BY <1>4, <1>5

SameQuantities(rows, old) ==
  DOMAIN rows = DOMAIN old /\ \A i \in DOMAIN old : rows[i].qty = old[i].qty

\* What an injector that adjusts a fund leaves: either the holdings of the day
\* are revalued, and the adjustment is what that changes, or they are not.
FundAdjustment ==
  \E rows, delta : /\ AllAdjusted(books', books, Entry.as_of, rows, delta)
                   /\ HoldingsTyped(rows) /\ IsRat(delta)
                   /\ SameQuantities(rows, books.holdings[Entry.as_of])
                   /\ \/ delta = MvBaseTotal(rows) \ominus MvBaseTotal(books.holdings[Entry.as_of])
                      \/ Entry.code = "wrong_wht"

\* What defects 2 and 9 put in the tables every fund reads, whosever the entry.
LEMMA NewYorkIsRat ==
  ASSUME Valued(Entry.as_of), Entry.ccy \in Ccys, IsRat(One \ominus Entry.intraday),
         Entry.as_of \in Days
  PROVE  IsRat(NewYorkRate(Entry))
<1>1. PICK a, b : a = input.fx["LDN_4PM"][Entry.as_of][Entry.ccy] /\ b = One \ominus Entry.intraday
  OBVIOUS
<1>2. IsRat(a) /\ IsRat(b)
  BY <1>1 DEF Valued, FxTyped, Divisor
<1> QED
  BY <1>1, <1>2, ProductIsRat DEF NewYorkRate

LEMMA NewYorkTyped ==
  ASSUME Typed, fund' = fund, phase' = phase, phase = "postwalk",
         input' = [input EXCEPT !.fx["NY_10AM"][Entry.as_of][Entry.ccy] = NewYorkRate(Entry)]
  PROVE  InputTyped'
<1>1. PICK ny, fx : ny = NewYorkRate(Entry)
                    /\ fx = [input.fx EXCEPT !["NY_10AM"][Entry.as_of][Entry.ccy] = ny]
  OBVIOUS
<1>2. FxTyped(fx)
  <2>1. FxTyped(input.fx)
    BY DEF Typed, InputTyped
  <2>2. DOMAIN fx = Snaps /\ fx["LDN_4PM"] = input.fx["LDN_4PM"]
    BY <1>1, <2>1 DEF FxTyped, Snaps
  <2> QED
    BY <2>1, <2>2 DEF FxTyped
<1>3. input' = [input EXCEPT !.fx = fx]
  BY <1>1
<1> QED
  BY <1>2, <1>3 DEF Typed, InputTyped, Inputs, FlowsTyped, FlowTyped

LEMMA DividendTyped ==
  ASSUME Typed, fund' = fund, phase' = phase, phase = "postwalk", Valued(Entry.as_of),
         Entry.as_of \in Days, Entry.instr \in Instruments, IsRat(Entry.div_pct),
         input' = [input EXCEPT !.actions = @ \cup {DividendOf(Entry)}]
  PROVE  InputTyped' /\ IsRat(DividendPer(Entry))
<1>1. PICK p, ca : p = Price(Entry.as_of)[Entry.instr] /\ ca = DividendOf(Entry)
  OBVIOUS
<1>2. IsRat(p)
  BY <1>1, PriceIsRat
<1>3. IsRat(DividendPer(Entry))
  BY <1>1, <1>2, ProductIsRat DEF DividendPer
<1>4. IsRat(ca.gross)
  BY <1>1, <1>3 DEF DividendOf
<1>5. ActionsTyped(input.actions \cup {ca})
  BY <1>1, <1>4, ActionAdded DEF Typed, InputTyped
<1> QED
  BY <1>1, <1>3, <1>5 DEF Typed, InputTyped, Inputs, FlowsTyped, FlowTyped

LEMMA Defect2Adjusts ==
  ASSUME Typed, fund' = fund, Defect2 PROVE InputTyped' /\ FundAdjustment
<1> DEFINE d    == Entry.as_of
           ccy  == Entry.ccy
           ny   == NewYorkRate(Entry)
           old  == books.holdings[d]
           Row(i) == IF Instr[i].ccy # ccy THEN old[i]
                     ELSE [old[i] EXCEPT !.fx = ny, !.mv_base = old[i].mv_local \otimes ny]
           rows == [i \in DOMAIN old |-> Row(i)]
           delta == MvBaseTotal(rows) \ominus MvBaseTotal(old)
<1>1. /\ d \in Days /\ TablesTyped(books) /\ DOMAIN books.nav = Days /\ Valued(d)
      /\ DayTyped(books, d) /\ EntryComplete(fund, Entry)
  BY Operating DEF Defect2, Due, DueHere
<1>2. /\ ccy \in Ccys /\ IsRat(One \ominus Entry.intraday)
      /\ phase = "postwalk" /\ phase' = phase
  BY <1>1 DEF Defect2, Due, DueHere, EntryComplete
<1>3. /\ input' = [input EXCEPT !.fx["NY_10AM"][d][ccy] = ny]
      /\ books' = [books EXCEPT !.holdings[d] = rows, !.nav = AdjustClassNav(@, d, delta)]
  BY Zenon DEF Defect2
<1>4. IsRat(ny)
  BY <1>1, <1>2, NewYorkIsRat
<1>5. InputTyped'
  BY <1>1, <1>2, <1>3, NewYorkTyped
<1> HIDE DEF ny
<1>6. HoldingsTyped(old)
  BY <1>1 DEF DayTyped, HoldingsTyped
<1> HIDE DEF old
<1>7. HoldingsTyped(rows) /\ SameQuantities(rows, old)
  <2>1. ASSUME NEW i \in DOMAIN old PROVE HoldingTyped(Row(i)) /\ Row(i).qty = old[i].qty
    <3>1. PICK row : row = old[i]
      OBVIOUS
    <3>2. HoldingTyped(row)
      BY <1>6, <3>1 DEF HoldingsTyped
    <3>3. PICK mv : mv = row.mv_local \otimes ny
      OBVIOUS
    <3>4. IsRat(mv)
      BY <1>4, <3>2, <3>3, ProductIsRat DEF HoldingTyped
    <3>5. /\ HoldingTyped([row EXCEPT !.fx = ny, !.mv_base = mv])
          /\ [row EXCEPT !.fx = ny, !.mv_base = mv].qty = row.qty
      BY <3>2, <3>4 DEF HoldingTyped
    <3>6. Row(i) = row \/ Row(i) = [row EXCEPT !.fx = ny, !.mv_base = mv]
      BY <3>1, <3>3
    <3> QED
      BY <3>1, <3>2, <3>5, <3>6
  <2> HIDE DEF Row
  <2> QED
    BY <1>6, <2>1 DEF HoldingsTyped, SameQuantities
<1> HIDE DEF rows
<1>8. IsRat(delta)
  BY <1>6, <1>7, MvBaseTotalIsRat, DifferenceIsRat
<1>9. /\ delta = MvBaseTotal(rows) \ominus MvBaseTotal(books.holdings[d])
      /\ SameQuantities(rows, books.holdings[d])
  BY <1>7 DEF old
<1> HIDE DEF delta, d
<1>10. AllAdjusted(books', books, d, rows, delta)
  <2>1. Tables \subseteq DOMAIN books /\ DOMAIN books.holdings = DOMAIN books.nav
    BY <1>1 DEF TablesTyped
  <2>2. /\ Tables \subseteq DOMAIN books' /\ books'.holdings = [books.holdings EXCEPT ![d] = rows]
        /\ books'.cash = books.cash /\ books'.fees = books.fees
        /\ books'.nav = AdjustClassNav(books.nav, d, delta)
    BY <1>3, <2>1 DEF Tables
  <2>3. Only(books'.nav, books.nav, d)
    BY <2>2, AdjustUnfolds DEF Only
  <2> QED
    BY <1>1, <2>1, <2>2, <2>3 DEF AllAdjusted, Touched, Only
<1> QED
  BY <1>5, <1>7, <1>8, <1>9, <1>10 DEF FundAdjustment, d

LEMMA Defect9Adjusts ==
  ASSUME Typed, fund' = fund, Defect9
  PROVE  /\ InputTyped'
         /\ FundAdjustment \/ books' = books
<1> DEFINE d     == Entry.as_of
           i     == Entry.instr
           per   == DividendPer(Entry)
           gross == books.holdings[d][i].qty \otimes per
           over  == (Entry.applied_rate \ominus Entry.treaty_rate) \otimes gross
                      \otimes input.fx["LDN_4PM"][d][Instr[i].ccy]
           ca    == DividendOf(Entry)
           receipt == [id |-> "CA_DEFECT_9", instr |-> i, day |-> d, gross |-> gross,
                       rate |-> Entry.applied_rate,
                       net |-> gross \ominus (gross \otimes Entry.applied_rate)]
           delta == Zero \ominus over
<1>1. /\ d \in Days /\ TablesTyped(books) /\ DOMAIN books.nav = Days /\ Valued(d)
      /\ DayTyped(books, d) /\ EntryComplete(fund, Entry)
  BY Operating DEF Defect9, Due, DueHere
<1>2. /\ i \in Instruments /\ Entry.code = "wrong_wht" /\ IsRat(Entry.div_pct)
      /\ IsRat(Entry.applied_rate) /\ IsRat(Entry.treaty_rate)
      /\ phase = "postwalk" /\ phase' = phase
  BY <1>1 DEF Defect9, Due, DueHere, EntryComplete
<1>3. CASE i \in DOMAIN books.holdings[d] /\ Zero \prec books.holdings[d][i].qty
  <2>1. input' = [input EXCEPT !.actions = @ \cup {ca}]
    BY <1>3, Zenon DEF Defect9
  <2>2. books' = [books EXCEPT !.receipts = @ \cup {receipt},
                               !.nav = AdjustClassNav(@, d, delta)]
    BY <1>3, Zenon DEF Defect9
  <2>3. InputTyped' /\ IsRat(per)
    BY <1>1, <1>2, <2>1, DividendTyped
  <2>4. IsRat(books.holdings[d][i].qty) /\ IsRat(input.fx["LDN_4PM"][d][Instr[i].ccy])
    BY <1>1, <1>2, <1>3, CurrencyKnown DEF DayTyped, HoldingTyped, Valued, FxTyped, Divisor
  <2> HIDE DEF ca, per
  <2>7. IsRat(gross)
    BY <2>3, <2>4, ProductIsRat
  <2> HIDE DEF gross
  <2>8. IsRat(over)
    <3>1. PICK x, y : x = Entry.applied_rate \ominus Entry.treaty_rate
                      /\ y = input.fx["LDN_4PM"][d][Instr[i].ccy]
      OBVIOUS
    <3>2. IsRat(x) /\ IsRat(y)
      BY <1>2, <2>4, <3>1, DifferenceIsRat
    <3> QED
      BY <2>7, <3>1, <3>2, ProductIsRat
  <2> HIDE DEF over
  <2>9. IsRat(delta)
    BY <2>8, NegatedIsRat
  <2> HIDE DEF delta, d, receipt
  <2>10. AllAdjusted(books', books, d, books.holdings[d], delta)
    <3>1. Tables \subseteq DOMAIN books /\ DOMAIN books.holdings = DOMAIN books.nav
      BY <1>1 DEF TablesTyped
    <3>2. /\ Tables \subseteq DOMAIN books' /\ books'.holdings = books.holdings
          /\ books'.cash = books.cash /\ books'.fees = books.fees
          /\ books'.nav = AdjustClassNav(books.nav, d, delta)
      BY <2>2, <3>1 DEF Tables
    <3>3. Only(books'.nav, books.nav, d)
      BY <3>2, AdjustUnfolds DEF Only
    <3> QED
      BY <1>1, <3>1, <3>2, <3>3 DEF AllAdjusted, Touched, Only
  <2>11. HoldingsTyped(books.holdings[d])
    BY <1>1 DEF DayTyped, HoldingsTyped
  <2>12. SameQuantities(books.holdings[d], books.holdings[d])
    BY DEF SameQuantities
  <2> QED
    BY <1>2, <2>3, <2>9, <2>10, <2>11, <2>12 DEF FundAdjustment, d
<1>4. CASE ~(i \in DOMAIN books.holdings[d] /\ Zero \prec books.holdings[d][i].qty)
  <2>1. books' = books /\ input' = input
    BY <1>4, Zenon DEF Defect9
  <2> QED
    BY <1>2, <2>1, InputKept
<1> QED
  BY <1>3, <1>4

LEMMA Defect6Typed == ASSUME Typed, fund' = fund, Defect6 PROVE InputTyped' /\ books' = books
<1>1. phase' = phase /\ books' = books
  BY DEF Defect6, Due, DueHere
<1>2. CASE input' = input
  BY <1>1, <1>2, InputKept
<1>3. CASE input' # input
  <2>1. PICK t \in input.trades : input' = [input EXCEPT !.trades = (@ \ {t}) \cup
                               {[t EXCEPT !.side = Opposite(t.side), !.note = "flipped"]}]
    BY <1>3 DEF Defect6
  <2>2. PICK u : u = [t EXCEPT !.side = Opposite(t.side), !.note = "flipped"]
    OBVIOUS
  <2>3. TradesTyped(input.trades)
    BY DEF Typed, InputTyped
  <2>4. TradeTyped(u)
    BY <2>2, <2>3 DEF TradesTyped, TradeTyped
  <2>5. PICK trades : trades = (input.trades \ {t}) \cup {u}
    OBVIOUS
  <2>6. TradesTyped(trades)
    BY <2>3, <2>4, <2>5, FS_AddElement, FS_Difference DEF TradesTyped
  <2>7. input' = [input EXCEPT !.trades = trades]
    BY <2>1, <2>2, <2>5
  <2> QED
    BY <1>1, <2>6, <2>7 DEF Typed, InputTyped, Inputs, FlowsTyped, FlowTyped
<1> QED
  BY <1>1, <1>2, <1>3

LEMMA InitTyped == Init => Typed
<1> SUFFICES ASSUME Init PROVE Typed
  OBVIOUS
<1>1. ChoicesTyped
  <2>1. fund \in Funds /\ schedule \in fund.schedules /\ cursor = 1 /\ phase = "fx"
    BY DEF Init
  <2>2. Len(schedule) \in Nat
    BY <2>1, ScheduleLength
  <2> QED
    BY <2>1, <2>2 DEF ChoicesTyped
<1>2. InputTyped
  BY FS_EmptySet DEF Init, InputTyped, Inputs, ActionsTyped, TradesTyped, FlowsTyped
<1>3. BooksTyped
  BY DEF Init, BooksTyped
<1>4. WalkTyped
  <2> DEFINE C == DOMAIN fund.classes
  <2>1. fund \in Funds /\ walk = InitFundState(fund)
    BY DEF Init
  <2>2. PICK aum : aum = InitialAum(fund)
    OBVIOUS
  <2>3. IsRat(aum)
    <3>1. PICK f : f = [c \in C |-> fund.classes[c].shares \otimes fund.classes[c].nav]
      OBVIOUS
    <3>2. \A c \in C : IsRat(fund.classes[c].shares) /\ IsRat(fund.classes[c].nav)
      BY <2>1, ClassIsTyped
    <3>3. Family(f, C)
      BY <2>1, <3>1, <3>2, ProductIsRat, FundsAssumption DEF Family
    <3>4. IsRat(Total(f))
      BY <3>1, <3>3, TotalIsRat
    <3> QED
      BY <2>2, <3>1, <3>4 DEF InitialAum
  <2>4. IsRat(aum \otimes InitialCashPct)
    BY <2>3, RatesAssumption, ProductIsRat
  <2>5. PICK holdings :
          holdings = [i \in {i \in Instruments : Zero \prec fund.holdings[i]} |-> fund.holdings[i]]
    OBVIOUS
  <2>6. DOMAIN holdings \subseteq Instruments /\ \A i \in DOMAIN holdings : IsRat(holdings[i])
    BY <2>1, <2>5, FundsAssumption
  <2>7. walk = [day |-> 1, holdings |-> holdings, cash |-> aum \otimes InitialCashPct,
                prior |-> aum,
                classes |-> [c \in C |->
                   [shares |-> fund.classes[c].shares, nav |-> fund.classes[c].nav,
                    balance |-> Zero, hwm |-> fund.classes[c].nav]],
                rows |-> NoBooks]
    BY <2>1, <2>2, <2>5 DEF InitFundState, InitialPortfolio
  <2>8. \A c \in C : ClassTyped(walk.classes[c])
    BY <2>1, <2>7, ClassIsTyped, ZeroOne DEF ClassTyped
  <2>9. TablesTyped(NoBooks) /\ DOMAIN NoBooks.nav = {}
    BY DEF TablesTyped, NoBooks, Tables
  <2>10. walk.day = 1 /\ 1 \in 1 .. LastDay + 1 /\ 1 .. walk.day - 1 = {}
    BY <2>7, LastDayAssumption
  <2> QED
    BY <2>3, <2>4, <2>6, <2>7, <2>8, <2>9, <2>10 DEF WalkTyped
<1> QED
  BY <1>1, <1>2, <1>3, <1>4 DEF Typed

\* The loops.
LEMMA ChoicesKept == ASSUME Typed, Next PROVE ChoicesTyped'
<1>1. fund' = fund /\ schedule' = schedule
  BY NextSame
<1>2. Len(schedule) \in Nat /\ DOMAIN schedule = 1 .. Len(schedule)
  BY ScheduleLength DEF Typed, ChoicesTyped
<1>3. /\ phase' \in {"fx", "equities", "bonds", "actions", "trades", "capstock", "prewalk", "walk",
                    "postwalk", "catalog", "done"}
      /\ \/ cursor' = cursor
         \/ cursor' = 1
         \/ cursor' = cursor + 1 /\ cursor \in DOMAIN schedule
  <2>1. CASE Generate
    BY <2>1 DEF Generate, WriteFx, WriteEquityPrices, WriteBonds, WriteCorporateActions,
                WriteTrades, WriteCapstock, Advance
  <2>2. CASE PreWalk
    BY <2>2 DEF PreWalk, Defect1, Defect3, Defect4, Defect7, Due, DueHere
  <2>3. CASE PostWalk
    BY <2>3, Zenon DEF PostWalk, Defect2, Defect5, Defect6, Defect8, Defect9, Defect10, Due, DueHere
  <2>4. CASE WalkDay \/ BulkWrite \/ PassOver \/ EndInjection \/ UpdateCatalog \/ Built
    BY <2>4 DEF WalkDay, BulkWrite, PassOver, EndInjection, UpdateCatalog, Built, vars, Advance,
                Typed, ChoicesTyped
  <2>5. CASE Elsewhere
    BY <2>5, ElsewhereKeeps
  <2> QED
    BY <2>1, <2>2, <2>3, <2>4, <2>5 DEF Next
<1> QED
  BY <1>1, <1>2, <1>3 DEF Typed, ChoicesTyped

LEMMA WalkKept ==
  ASSUME WalkTyped, UNCHANGED << walk, fund >> PROVE WalkTyped'
  BY DEF WalkTyped, TablesTyped, DayTyped

LEMMA BooksKept ==
  ASSUME BooksTyped, UNCHANGED << books, fund >>,
         phase' \in {"postwalk", "catalog", "done"} <=> phase \in {"postwalk", "catalog", "done"}
  PROVE  BooksTyped'
  BY DEF BooksTyped, TablesTyped, DayTyped

LEMMA WalkDayTyped ==
  ASSUME Typed, Solvent, Solvent', WalkDay PROVE WalkTyped'
<1>1. /\ phase = "walk" /\ walk.day \in Days /\ fund' = fund /\ FxTyped(input.fx)
  BY DEF WalkDay, Typed, InputTyped
<1>2. Valued(walk.day)
  BY <1>1, WindowValued
<1>3. walk.day \in DOMAIN input.fx["LDN_4PM"]
  BY <1>1 DEF FxTyped
<1>4. walk' = StepOneDay(walk.day)
  BY <1>3 DEF WalkDay
<1>5. Subscribed
  BY DEF Solvent, Subscribed
<1> QED
  BY <1>1, <1>2, <1>4, <1>5, StruckTyped DEF Typed

\* What surgery leaves of the tables.
LEMMA SurgeryTyped ==
  ASSUME Typed, Solvent, Solvent', fund' = fund, PostWalk
  PROVE  /\ InputTyped' /\ TablesTyped(books)' /\ DOMAIN books'.nav = Days
         /\ ClassRestatement \/ FundAdjustment \/ books' = books
<1>1. phase = "postwalk" /\ cursor \in DOMAIN schedule /\ phase' = phase
  BY Zenon DEF PostWalk, Defect2, Defect5, Defect6, Defect8, Defect9, Defect10, Due, DueHere
<1>2. Defect5 \/ Defect10 => input' = input
  BY DEF Defect5, Defect10
<1>3. /\ InputTyped'
      /\ ClassRestatement \/ FundAdjustment \/ books' = books
  BY <1>1, <1>2, InputKept, Defect2Adjusts, Defect5Restates, Defect6Typed, Defect8Restates,
     Defect9Adjusts, Defect10Restates DEF PostWalk
<1>4. /\ Entry.as_of \in Days /\ TablesTyped(books) /\ DOMAIN books.nav = Days
  BY <1>1, Operating
<1>5. PICK d : d = Entry.as_of
  OBVIOUS
<1>6. TablesTyped(books') /\ DOMAIN books'.nav = Days
  <2>1. CASE ClassRestatement
    <3>1. PICK row, fee : OneRestated(books', books, d, Entry.class, row, fee)
                          /\ NavTyped(row) /\ FeeTyped(fee)
      BY <1>5, <2>1 DEF ClassRestatement
    <3> QED
      BY <1>4, <1>5, <3>1, OneRestatedTyped
  <2>2. CASE FundAdjustment
    <3>1. PICK rows, delta : AllAdjusted(books', books, d, rows, delta)
                             /\ HoldingsTyped(rows) /\ IsRat(delta)
      BY <1>5, <2>2 DEF FundAdjustment
    <3>2. \A c \in DOMAIN fund.classes : books.nav[d][c].shares # Zero
      BY <1>4, <1>5 DEF Solvent
    <3> QED
      BY <1>4, <1>5, <3>1, <3>2, AllAdjustedTyped DEF Typed, ChoicesTyped
  <2>3. CASE books' = books
    BY <1>4, <2>3
  <2> QED
    BY <1>3, <2>1, <2>2, <2>3
<1>7. TablesTyped(books)'
  BY <1>6 DEF TablesTyped, DayTyped
<1> QED
  BY <1>3, <1>6, <1>7

\* Of the tables, such an entry touches a rate and perhaps the actions.
LEMMA ElsewhereInput ==
  ASSUME Typed, Elsewhere
  PROVE  /\ input'.prices = input.prices /\ input'.accruals = input.accruals
         /\ input'.trades = input.trades /\ input'.capstock = input.capstock
         /\ \/ input'.actions = input.actions
            \/ /\ Entry.code = "wrong_wht"
               /\ input'.actions = input.actions \cup {DividendOf(Entry)}
<1>1. Inputs \subseteq DOMAIN input
  BY DEF Typed, InputTyped
<1>2. CASE Defect2Elsewhere
  <2>1. PICK fx : input' = [input EXCEPT !.fx = fx]
    BY <1>2 DEF Defect2Elsewhere
  <2> QED
    BY <1>1, <2>1 DEF Inputs
<1>3. CASE Defect9Elsewhere
  BY <1>1, <1>3 DEF Defect9Elsewhere, DueElsewhere, Due, Inputs
<1> QED
  BY <1>2, <1>3 DEF Elsewhere, RowsElsewhere

LEMMA ElsewhereTyped == ASSUME Typed, Elsewhere PROVE InputTyped'
<1>1. /\ phase' = phase /\ fund' = fund /\ phase = "postwalk" /\ Valued(Entry.as_of)
      /\ Entry.as_of \in Days /\ EntryComplete(fund, Entry)
  BY ElsewhereKeeps, Operating
<1>2. CASE input' = input
  BY <1>1, <1>2, InputKept
<1>3. CASE Defect2Elsewhere
  BY <1>1, <1>3, NewYorkTyped DEF Defect2Elsewhere
<1>4. CASE Defect9Elsewhere /\ input' # input
  <2>1. input' = [input EXCEPT !.actions = @ \cup {DividendOf(Entry)}]
    BY <1>4 DEF Defect9Elsewhere
  <2>2. Entry.instr \in Instruments /\ IsRat(Entry.div_pct)
    BY <1>1, <1>4 DEF Defect9Elsewhere, DueElsewhere, Due, EntryComplete
  <2> QED
    BY <1>1, <2>1, <2>2, DividendTyped
<1> QED
  BY <1>2, <1>3, <1>4 DEF Elsewhere, RowsElsewhere

LEMMA NextTyped == Typed /\ Solvent /\ Solvent' /\ [Next]_vars => Typed'
<1> SUFFICES ASSUME Typed, Solvent, Solvent', [Next]_vars PROVE Typed'
  OBVIOUS
<1>1. CASE UNCHANGED vars
  <2>1. ChoicesTyped'
    BY <1>1 DEF Typed, ChoicesTyped, vars
  <2> QED
    BY <1>1, <2>1, InputKept, WalkKept, BooksKept DEF Typed, vars
<1>2. CASE Next
  <2>0. fund' = fund /\ ChoicesTyped'
    BY <1>2, NextSame, ChoicesKept
  <2>1. CASE Generate \/ PreWalk
    <3>1. InputTyped'
      BY <2>1, GenerateTyped, PreWalkTyped
    <3>2. /\ UNCHANGED << walk, books >>
          /\ phase \notin {"postwalk", "catalog", "done"}
          /\ phase' \notin {"postwalk", "catalog", "done"}
      <4>1. CASE Generate
        BY <4>1 DEF Generate, WriteFx, WriteEquityPrices, WriteBonds, WriteCorporateActions,
                    WriteTrades, WriteCapstock, Advance
      <4>2. CASE PreWalk
        BY <4>2 DEF PreWalk, Defect1, Defect3, Defect4, Defect7, Due, DueHere
      <4> QED
        BY <2>1, <4>1, <4>2
    <3> QED
      BY <2>0, <3>1, <3>2, WalkKept, BooksKept DEF Typed
  <2>2. CASE WalkDay
    <3>1. UNCHANGED << phase, input, books >>
      BY <2>2 DEF WalkDay
    <3> QED
      BY <2>0, <2>2, <3>1, WalkDayTyped, InputKept, BooksKept DEF Typed
  <2>3. CASE BulkWrite
    BY <2>0, <2>3, BulkWriteTyped DEF Typed
  <2>4. CASE PostWalk
    <3>1. phase' = "postwalk" /\ walk' = walk
      BY <2>4, Zenon DEF PostWalk, Defect2, Defect5, Defect6, Defect8, Defect9, Defect10, Due, DueHere
    <3>2. BooksTyped'
      BY <2>0, <2>4, <3>1, SurgeryTyped DEF BooksTyped
    <3> QED
      BY <2>0, <2>4, <3>1, <3>2, SurgeryTyped, WalkKept DEF Typed
  <2>5. CASE PassOver \/ EndInjection \/ UpdateCatalog \/ Built
    <3>1. /\ UNCHANGED << walk, books, input >>
          /\ phase' \in {"postwalk", "catalog", "done"} <=> phase \in {"postwalk", "catalog", "done"}
          /\ phase' \in {"fx", "equities", "bonds"} <=> phase \in {"fx", "equities", "bonds"}
          /\ phase' \in {"fx", "equities", "bonds"} => phase' = phase
      BY <2>5 DEF PassOver, EndInjection, UpdateCatalog, Built, vars, Advance
    <3>2. InputTyped'
      BY <2>0, <3>1 DEF Typed, InputTyped, Inputs, FlowsTyped, FlowTyped
    <3> QED
      BY <2>0, <3>1, <3>2, WalkKept, BooksKept DEF Typed
  <2>6. CASE Elsewhere
    BY <2>0, <2>6, ElsewhereKeeps, ElsewhereTyped, WalkKept, BooksKept DEF Typed
  <2> QED
    BY <1>2, <2>1, <2>2, <2>3, <2>4, <2>5, <2>6 DEF Next
<1> QED
  BY <1>1, <1>2

LEMMA TypedIsTypeOK == ASSUME Typed, Solvent PROVE TypeOK
<1>1. CASE phase = "walk"
  BY <1>1 DEF Typed, ChoicesTyped, WalkTyped, TypeOK, Rows, Struck, TablesTyped, DayTyped, NavTyped
<1>2. CASE phase # "walk" /\ phase \notin {"postwalk", "catalog", "done"}
  <2>1. books = NoBooks
    BY <1>2 DEF Typed, BooksTyped
  <2> QED
    BY <1>2, <2>1 DEF Typed, ChoicesTyped, WalkTyped, TypeOK, Rows, Struck, NoBooks
<1>3. CASE phase \in {"postwalk", "catalog", "done"}
  BY <1>3 DEF Typed, ChoicesTyped, WalkTyped, BooksTyped, TypeOK, Rows, Struck, TablesTyped,
              DayTyped, NavTyped
<1> QED
  BY <1>1, <1>2, <1>3

\* As long as the fund goes on (Solvent), the tables keep their shape: amounts
\* are fractions, and each table has a row for every class and every day walked,
\* through the walk, the bulk insert and the surgery.
THEOREM AlwaysTypeOK == Spec /\ []Solvent => []TypeOK
<1>1. Spec /\ []Solvent => []Typed
  BY InitTyped, NextTyped, PTL DEF Spec
<1> QED
  BY <1>1, TypedIsTypeOK, PTL

(***************************************************************************)
(* The columns of the rows.                                                *)
(***************************************************************************)

LEMMA DayAgrees ==
  ASSUME NEW d, NEW c \in DOMAIN fund.classes, Zero \prec walk.classes[c].nav
  PROVE  Agree(DayNav(d)[c], DayFees(d)[c])
  BY DEF DayNav, DayFees, NavRow, FeeRow, DayMove, Move, IsBreak, Agree

LEMMA GrownAgrees ==
  ASSUME NEW b, TablesTyped(b), AllAgree(b), NEW d, NEW new, Grown(new, b, d),
         \A c \in DOMAIN fund.classes : Agree(new.nav[d][c], new.fees[d][c])
  PROVE  AllAgree(new)
<1> SUFFICES ASSUME NEW x \in DOMAIN new.nav, NEW c \in DOMAIN fund.classes
             PROVE  Agree(new.nav[x][c], new.fees[x][c])
  BY DEF AllAgree
<1>1. CASE x = d
  BY <1>1
<1>2. CASE x # d
  <2>1. x \in DOMAIN b.nav /\ new.nav[x] = b.nav[x] /\ new.fees[x] = b.fees[x]
    BY <1>2 DEF Grown, Added
  <2>2. Agree(b.nav[x][c], b.fees[x][c])
    BY <2>1 DEF AllAgree
  <2> QED
    BY <2>1, <2>2
<1> QED
  BY <1>1, <1>2

LEMMA TouchedAgrees ==
  ASSUME NEW b, TablesTyped(b), AllAgree(b), NEW d, NEW new, Touched(new, b, d),
         \A c \in DOMAIN fund.classes : Agree(new.nav[d][c], new.fees[d][c])
  PROVE  AllAgree(new)
<1> SUFFICES ASSUME NEW x \in DOMAIN new.nav, NEW c \in DOMAIN fund.classes
             PROVE  Agree(new.nav[x][c], new.fees[x][c])
  BY DEF AllAgree
<1>1. CASE x = d
  BY <1>1
<1>2. CASE x # d
  <2>1. x \in DOMAIN b.nav /\ new.nav[x] = b.nav[x] /\ new.fees[x] = b.fees[x]
    BY <1>2 DEF Touched, Only, TablesTyped
  <2>2. Agree(b.nav[x][c], b.fees[x][c])
    BY <2>1 DEF AllAgree
  <2> QED
    BY <2>1, <2>2
<1> QED
  BY <1>1, <1>2

LEMMA AllAdjustedAgrees ==
  ASSUME fund \in Funds, NEW b, TablesTyped(b), AllAgree(b), NEW d \in DOMAIN b.nav,
         NEW rows, NEW delta, IsRat(delta),
         \A c \in DOMAIN fund.classes : b.nav[d][c].shares # Zero,
         NEW new, AllAdjusted(new, b, d, rows, delta)
  PROVE  AllAgree(new)
<1> SUFFICES ASSUME NEW c \in DOMAIN fund.classes PROVE Agree(new.nav[d][c], new.fees[d][c])
  BY TouchedAgrees DEF AllAdjusted
<1>1. new.fees[d] = b.fees[d]
  BY DEF AllAdjusted
<1>2. PICK row, fee : row = b.nav[d][c] /\ fee = b.fees[d][c]
  OBVIOUS
<1>3. Agree(row, fee)
  BY <1>2 DEF AllAgree
<1>4. CASE ~(Zero \prec DayTotal(b.nav, d))
  <2>1. new.nav[d] = b.nav[d]
    BY <1>4, AdjustedRows
  <2> QED
    BY <1>1, <1>2, <1>3, <2>1
<1>5. CASE Zero \prec DayTotal(b.nav, d)
  <2>1. new.nav[d][c] = PartRow(b.nav, d, c, delta)
    BY <1>5, AdjustedRows
  <2>2. PICK part : part = Part(b.nav, d, c, delta)
    OBVIOUS
  <2>3. IsRat(part) /\ NavTyped(row)
    BY <1>2, <1>5, <2>2, PartIsRat
  <2>4. new.nav[d][c] = Restated(row, part, row.shares, row.prior, row.fees)
    BY <1>2, <2>1, <2>2 DEF PartRow
  <2>5. row.shares # Zero /\ IsRat(row.shares)
    BY <1>2, <2>3 DEF NavTyped
  <2>6. row.fees = fee.mgmt \oplus fee.balance
    BY <1>3 DEF Agree
  <2>7. Agree(Restated(row, part, row.shares, row.prior, row.fees), fee)
    BY <2>3, <2>5, <2>6, RestatedAgrees
  <2> QED
    BY <1>1, <1>2, <2>4, <2>7
<1> QED
  BY <1>4, <1>5

Agreeing == AllAgree(walk.rows) /\ AllAgree(books)

LEMMA WalkDayAgrees == ASSUME Typed, Solvent, AllAgree(walk.rows), WalkDay PROVE AllAgree(walk'.rows)
<1>1. /\ phase = "walk" /\ walk.day \in Days /\ fund' = fund /\ FxTyped(input.fx)
  BY DEF WalkDay, Typed, InputTyped
<1>2. PICK d, w : d = walk.day /\ w = StepOneDay(d)
  OBVIOUS
<1>3. walk' = w
  BY <1>1, <1>2 DEF WalkDay, FxTyped
<1>4. TablesTyped(walk.rows) /\ d \notin DOMAIN walk.rows.nav
  BY <1>1, <1>2 DEF Typed, WalkTyped, Days
<1>5. Grown(w.rows, walk.rows, d) /\ w.rows.fees[d] = DayFees(d) /\ w.rows.nav[d] = DayNav(d)
  BY <1>2, <1>4, StepGrows
<1>6. \A c \in DOMAIN fund.classes : Agree(DayNav(d)[c], DayFees(d)[c])
  BY <1>1, <1>2, DayAgrees DEF Solvent
<1>7. AllAgree(w.rows)
  BY <1>4, <1>5, <1>6, GrownAgrees
<1> QED
  BY <1>3, <1>7

LEMMA SurgeryAgrees ==
  ASSUME Typed, Solvent, Solvent', fund' = fund, PostWalk, AllAgree(books)
  PROVE  AllAgree(books')
<1>1. phase = "postwalk" /\ cursor \in DOMAIN schedule
  BY Zenon DEF PostWalk, Defect2, Defect5, Defect6, Defect8, Defect9, Defect10, Due, DueHere
<1>2. /\ Entry.as_of \in Days /\ TablesTyped(books) /\ DOMAIN books.nav = Days
  BY <1>1, Operating
<1>3. PICK d : d = Entry.as_of
  OBVIOUS
<1>4. CASE ClassRestatement
  <2>1. PICK row, fee : OneRestated(books', books, d, Entry.class, row, fee) /\ Agree(row, fee)
    BY <1>3, <1>4 DEF ClassRestatement
  <2>2. \A c \in DOMAIN fund.classes : Agree(books'.nav[d][c], books'.fees[d][c])
    <3> SUFFICES ASSUME NEW c \in DOMAIN fund.classes
                 PROVE  Agree(books'.nav[d][c], books'.fees[d][c])
      OBVIOUS
    <3>1. CASE c = Entry.class
      BY <2>1, <3>1 DEF OneRestated
    <3>2. CASE c # Entry.class
      BY <1>2, <1>3, <2>1, <3>2 DEF OneRestated, AllAgree
    <3> QED
      BY <3>1, <3>2
  <2>3. Touched(books', books, d)
    BY <2>1 DEF OneRestated
  <2> QED
    BY <1>2, <2>2, <2>3, TouchedAgrees
<1>5. CASE FundAdjustment
  <2>1. PICK rows, delta : AllAdjusted(books', books, d, rows, delta) /\ IsRat(delta)
    BY <1>3, <1>5 DEF FundAdjustment
  <2>2. \A c \in DOMAIN fund.classes : books.nav[d][c].shares # Zero
    BY <1>2, <1>3 DEF Solvent
  <2> QED
    BY <1>2, <1>3, <2>1, <2>2, AllAdjustedAgrees DEF Typed, ChoicesTyped
<1>6. CASE books' = books
  BY <1>6
<1> QED
  BY <1>4, <1>5, <1>6, SurgeryTyped

LEMMA NextAgrees == Typed /\ Solvent /\ Solvent' /\ Agreeing /\ [Next]_vars => Agreeing'
<1> SUFFICES ASSUME Typed, Solvent, Solvent', Agreeing, [Next]_vars PROVE Agreeing'
  OBVIOUS
<1>1. fund' = fund
  BY NextSame DEF vars
<1>2. AllAgree(walk'.rows) /\ AllAgree(books')
  <2>1. CASE WalkDay
    <3>1. books' = books
      BY <2>1 DEF WalkDay
    <3> QED
      BY <2>1, <3>1, WalkDayAgrees DEF Agreeing
  <2>2. CASE BulkWrite
    <3>1. books' = walk.rows /\ walk' = walk
      BY <2>2 DEF BulkWrite
    <3> QED
      BY <3>1 DEF Agreeing
  <2>3. CASE PostWalk
    <3>1. walk' = walk
      BY <2>3, Zenon DEF PostWalk, Defect2, Defect5, Defect6, Defect8, Defect9, Defect10
    <3> QED
      BY <1>1, <2>3, <3>1, SurgeryAgrees DEF Agreeing
  <2>4. CASE Generate \/ PreWalk \/ PassOver \/ EndInjection \/ UpdateCatalog \/ Built
    <3>1. UNCHANGED << walk, books >>
      BY <2>4 DEF Generate, WriteFx, WriteEquityPrices, WriteBonds, WriteCorporateActions,
                  WriteTrades, WriteCapstock, PreWalk, Defect1, Defect3, Defect4, Defect7,
                  PassOver, EndInjection, UpdateCatalog, Built, vars
    <3> QED
      BY <3>1 DEF Agreeing
  <2>5. CASE UNCHANGED vars
    BY <2>5 DEF Agreeing, vars
  <2>6. CASE Elsewhere
    BY <2>6, ElsewhereKeeps DEF Agreeing
  <2> QED
    BY <2>1, <2>2, <2>3, <2>4, <2>5, <2>6 DEF Next
<1> QED
  BY <1>1, <1>2 DEF Agreeing, AllAgree, Agree

\* As long as the fund goes on, the columns of a row agree with each other and
\* with the fee row, whoever wrote them last: the walk (walk.py:302-323), or an
\* injector that restated some of them (defects.py:361, 449, 549, 621).
THEOREM RowsAlwaysAgree == Spec /\ []Solvent => []RowsAgree
<1>1. Init => Agreeing
  BY DEF Init, InitFundState, NoBooks, Agreeing, AllAgree
<1>2. Agreeing => RowsAgree
  BY DEF Agreeing, AllAgree, Agree, RowsAgree, Rows, Struck
<1>3. Spec /\ []Solvent => []Typed
  BY InitTyped, NextTyped, PTL DEF Spec
<1> QED
  BY <1>1, <1>2, <1>3, NextAgrees, PTL DEF Spec

(***************************************************************************)
(* Sums of families added and scaled term by term.                         *)
(***************************************************************************)

\* The ways the terms of a sum are regrouped below.
LEMMA Exchange ==
  ASSUME NEW a, NEW b, NEW p, NEW q, IsRat(a), IsRat(b), IsRat(p), IsRat(q)
  PROVE  (a \oplus b) \oplus (p \oplus q) = (a \oplus p) \oplus (b \oplus q)
<1>1. IsRat(b \oplus p) /\ IsRat(p \oplus q) /\ IsRat(b \oplus q) /\ IsRat(a \oplus b)
  BY SumIsRat
<1>2. b \oplus (p \oplus q) = p \oplus (b \oplus q)
  <2>1. b \oplus (p \oplus q) = (b \oplus p) \oplus q
    BY SumAssociates
  <2>2. p \oplus (b \oplus q) = (p \oplus b) \oplus q
    BY SumAssociates
  <2> QED
    BY <2>1, <2>2, SumCommutes
<1>3. (a \oplus b) \oplus (p \oplus q) = a \oplus (b \oplus (p \oplus q))
  BY <1>1, SumAssociates
<1>4. (a \oplus p) \oplus (b \oplus q) = a \oplus (p \oplus (b \oplus q))
  BY <1>1, SumAssociates
<1> QED
  BY <1>2, <1>3, <1>4

LEMMA OverAdds ==
  ASSUME NEW S, NEW f, NEW g, NEW h, Family(f, S), Family(g, S),
         \A x \in S : h[x] = f[x] \oplus g[x]
  PROVE  Over(h, S) = Over(f, S) \oplus Over(g, S)
<1> DEFINE J == {s \in SUBSET S : Over(h, s) = Over(f, s) \oplus Over(g, s)}
<1>1. {} \in J
  <2>1. Zero \oplus Zero = Zero
    BY ZeroOne, ZeroSum
  <2> QED
    BY <2>1, OverEmpty
<1>2. Family(h, S)
  BY SumIsRat DEF Family
<1>3. ASSUME NEW s \in SUBSET S, NEW x \in s, s \ {x} \in J PROVE s \in J
  <2>1. PICK r : r = s \ {x}
    OBVIOUS
  <2>2. /\ Family(f, s) /\ Family(g, s) /\ Family(h, s)
        /\ Family(f, r) /\ Family(g, r)
    BY <1>2, <2>1, SubFamily
  <2>3. PICK a, b, p, q : a = f[x] /\ b = Over(f, r) /\ p = g[x] /\ q = Over(g, r)
    OBVIOUS
  <2>4. IsRat(a) /\ IsRat(b) /\ IsRat(p) /\ IsRat(q)
    BY <2>2, <2>3, OverIsRat DEF Family
  <2>5. /\ Over(f, s) = a \oplus b /\ Over(g, s) = p \oplus q
        /\ Over(h, s) = (a \oplus p) \oplus (b \oplus q)
    BY <1>3, <2>1, <2>2, <2>3, OverRemove
  <2>6. Over(h, s) = Over(f, s) \oplus Over(g, s)
    BY <2>4, <2>5, Exchange
  <2> QED
    BY <2>6
<1>4. IsFiniteSet(S)
  BY DEF Family
<1> HIDE DEF J
<1>5. S \in J
  BY <1>1, <1>3, <1>4, SetInduction
<1> QED
  BY <1>5 DEF J

LEMMA OverScales ==
  ASSUME NEW S, NEW f, NEW h, Family(f, S), NEW k, IsRat(k), \A x \in S : h[x] = k \otimes f[x]
  PROVE  Over(h, S) = k \otimes Over(f, S)
<1> DEFINE J == {s \in SUBSET S : Over(h, s) = k \otimes Over(f, s)}
<1>1. {} \in J
  BY OverEmpty, ZeroProduct
<1>2. Family(h, S)
  BY ProductIsRat DEF Family
<1>3. ASSUME NEW s \in SUBSET S, NEW x \in s, s \ {x} \in J PROVE s \in J
  <2>1. PICK r : r = s \ {x}
    OBVIOUS
  <2>2. Family(f, s) /\ Family(h, s) /\ Family(f, r)
    BY <1>2, <2>1, SubFamily
  <2>3. PICK a, b : a = f[x] /\ b = Over(f, r)
    OBVIOUS
  <2>4. IsRat(a) /\ IsRat(b)
    BY <2>2, <2>3, OverIsRat DEF Family
  <2>5. /\ Over(f, s) = a \oplus b
        /\ Over(h, s) = (k \otimes a) \oplus (k \otimes b)
    BY <1>3, <2>1, <2>2, <2>3, OverRemove
  <2>6. Over(h, s) = k \otimes Over(f, s)
    BY <2>4, <2>5, Distributes
  <2> QED
    BY <2>6
<1>4. IsFiniteSet(S)
  BY DEF Family
<1> HIDE DEF J
<1>5. S \in J
  BY <1>1, <1>3, <1>4, SetInduction
<1> QED
  BY <1>5 DEF J

LEMMA TotalIsOver ==
  ASSUME NEW S, NEW f, f = [x \in S |-> f[x]] PROVE Total(f) = Over(f, S)
  BY DEF Over

LEMMA TotalAdds ==
  ASSUME NEW S, NEW f, NEW g, NEW h, Family(f, S), Family(g, S),
         f = [x \in S |-> f[x]], g = [x \in S |-> g[x]], h = [x \in S |-> f[x] \oplus g[x]]
  PROVE  Total(h) = Total(f) \oplus Total(g)
<1>1. h = [x \in S |-> h[x]] /\ \A x \in S : h[x] = f[x] \oplus g[x]
  OBVIOUS
<1>2. Total(f) = Over(f, S) /\ Total(g) = Over(g, S) /\ Total(h) = Over(h, S)
  BY <1>1, TotalIsOver
<1> QED
  BY <1>1, <1>2, OverAdds

LEMMA TotalScales ==
  ASSUME NEW S, NEW f, NEW h, Family(f, S), NEW k, IsRat(k),
         f = [x \in S |-> f[x]], h = [x \in S |-> k \otimes f[x]]
  PROVE  Total(h) = k \otimes Total(f)
<1>1. h = [x \in S |-> h[x]] /\ \A x \in S : h[x] = k \otimes f[x]
  OBVIOUS
<1>2. Total(f) = Over(f, S) /\ Total(h) = Over(h, S)
  BY <1>1, TotalIsOver
<1> QED
  BY <1>1, <1>2, OverScales

\* Adding and taking away what is in between.
LEMMA Between ==
  ASSUME NEW a, NEW b, NEW c, IsRat(a), IsRat(b), IsRat(c)
  PROVE  (a \ominus b) \oplus (b \ominus c) = a \ominus c
<1>1. /\ IsRat(Negative(b)) /\ IsRat(Negative(c)) /\ a \ominus c = a \oplus Negative(c)
      /\ a \ominus b = a \oplus Negative(b) /\ b \ominus c = b \oplus Negative(c)
  BY MeansItself, NegativeOf DEF Negative, \ominus
<1>2. (a \ominus b) \oplus b = a
  BY DifferenceCancels
<1>3. (a \ominus b) \oplus (b \oplus Negative(c)) = ((a \ominus b) \oplus b) \oplus Negative(c)
  BY <1>1, DifferenceIsRat, SumAssociates
<1> QED
  BY <1>1, <1>2, <1>3

\* What is taken away may be taken away before or after another thing is added.
LEMMA TakenEither ==
  ASSUME NEW a, NEW m, NEW b, IsRat(a), IsRat(m), IsRat(b)
  PROVE  (a \ominus m) \oplus b = a \oplus (b \ominus m)
<1>1. PICK n : n = Negative(m)
  OBVIOUS
<1>2. IsRat(n) /\ a \ominus m = a \oplus n /\ b \ominus m = b \oplus n
  BY <1>1, MeansItself, NegativeOf DEF Negative, \ominus
<1>3. (a \oplus n) \oplus b = a \oplus (n \oplus b)
  BY <1>2, SumAssociates
<1> QED
  BY <1>2, <1>3, SumCommutes

(***************************************************************************)
(* The balance of a day as the walk strikes it.                            *)
(***************************************************************************)

Balance(b, d) ==
  Total([c \in DOMAIN fund.classes |-> b.nav[d][c].nav_base]) =
    MvBaseTotal(b.holdings[d]) \oplus b.cash[d] \oplus
      Total([c \in DOMAIN fund.classes |-> b.fees[d][c].delta \ominus b.fees[d][c].balance])

\* What the classes are worth together, for the shares and NAV they have.
Worth == Total([c \in DOMAIN fund.classes |->
                  walk.classes[c].shares \otimes walk.classes[c].nav])

\* What a class has over its share of the fund's assets.
Extra(x) == x.flow \ominus x.mgmt \ominus x.target

LEMMA ExtraRegroups ==
  ASSUME NEW g, NEW m, NEW t, NEW f, IsRat(g), IsRat(m), IsRat(t), IsRat(f)
  PROVE  (g \ominus m \ominus t) \oplus f = g \oplus (f \ominus m \ominus t)
<1>1. PICK a : a = g \ominus m
  OBVIOUS
<1>2. IsRat(a) /\ IsRat(f \ominus t)
  BY <1>1, DifferenceIsRat
<1>3. (a \ominus t) \oplus f = a \oplus (f \ominus t)
  BY <1>2, TakenEither
<1>4. (g \ominus m) \oplus (f \ominus t) = g \oplus ((f \ominus t) \ominus m)
  BY <1>2, TakenEither
<1>5. (f \ominus t) \ominus m = (f \ominus m) \ominus t
  <2>1. PICK n, u : n = Negative(m) /\ u = Negative(t)
    OBVIOUS
  <2>2. /\ IsRat(n) /\ IsRat(u) /\ f \ominus t = f \oplus u /\ f \ominus m = f \oplus n
        /\ \A x : x \ominus m = x \oplus n /\ x \ominus t = x \oplus u
    BY <2>1, MeansItself, NegativeOf DEF Negative, \ominus
  <2>3. (f \oplus u) \oplus n = (f \oplus n) \oplus u
    BY <2>2, FeesRegroup
  <2> QED
    BY <2>2, <2>3
<1> QED
  BY <1>1, <1>3, <1>4, <1>5

\* The flows of a day buy shares for what they are worth.
LEMMA FlowsBuyShares ==
  ASSUME NEW d, Valued(d), NEW c, NEW nav, IsRat(nav), nav # Zero, NEW prior
  PROVE  /\ IsRat(Total([e \in FlowsToday(c, d) |-> SharesDelta(e, nav, prior)]))
         /\ nav \otimes Total([e \in FlowsToday(c, d) |-> SharesDelta(e, nav, prior)]) =
              Total([e \in FlowsToday(c, d) |-> SignedGross(e)])
<1>1. PICK F : F = FlowsToday(c, d)
  OBVIOUS
<1>2. PICK f : f = [e \in F |-> SharesDelta(e, nav, prior)]
  OBVIOUS
<1>3. PICK h : h = [e \in F |-> SignedGross(e)]
  OBVIOUS
<1>4. IsFiniteSet(F) /\ \A e \in F : IsRat(SignedGross(e))
  BY <1>1, FlowsTodayKnown
<1>5. ASSUME NEW e \in F PROVE IsRat(f[e]) /\ h[e] = nav \otimes f[e]
  <2>1. PICK s : s = SignedGross(e)
    OBVIOUS
  <2>2. IsRat(s) /\ f[e] = s \oslash nav /\ h[e] = s
    BY <1>2, <1>3, <1>4, <2>1 DEF SharesDelta
  <2>3. IsRat(s \oslash nav) /\ (s \oslash nav) \otimes nav = s
    BY <2>2, QuotientIsRat, QuotientCancels
  <2> QED
    BY <2>2, <2>3, ProductCommutes
<1>6. Family(f, F)
  BY <1>4, <1>5 DEF Family
<1>7. h = [e \in F |-> nav \otimes f[e]]
  BY <1>3, <1>5
<1>8. f = [e \in F |-> f[e]]
  BY <1>2
<1>9. Total(h) = nav \otimes Total(f)
  BY <1>6, <1>7, <1>8, TotalScales
<1>10. IsRat(Total(f))
  BY <1>6, <1>8, TotalIsRat
<1> QED
  BY <1>1, <1>2, <1>3, <1>9, <1>10

LEMMA ClassBalances ==
  ASSUME NEW d, Valued(d), NEW c \in DOMAIN fund.classes, ClassTyped(walk.classes[c]),
         walk.classes[c].shares # Zero, NEW r, IsRat(r), NEW x, x = ClassDay(c, r, d), x.nav # Zero
  PROVE  /\ IsRat(Extra(x)) /\ IsRat(x.gav)
         /\ x.nav \otimes x.shares = x.gav \oplus Extra(x)
<1>1. PICK s : s = walk.classes[c].shares
  OBVIOUS
<1>2. PICK z : z = Total([e \in FlowsToday(c, d) |-> SharesDelta(e, x.nav, walk.classes[c].nav)])
  OBVIOUS
<1>3. ClassDayTyped(x) /\ IsRat(s) /\ s # Zero
  BY <1>1, ClassDayIsTyped DEF ClassTyped
<1>4. PICK g, m, t, f, n : g = x.gav /\ m = x.mgmt /\ t = x.target /\ f = x.flow /\ n = x.nav
  OBVIOUS
<1>5. IsRat(g) /\ IsRat(m) /\ IsRat(t) /\ IsRat(f) /\ IsRat(n) /\ n # Zero
  BY <1>3, <1>4 DEF ClassDayTyped
<1>6. /\ n = (g \ominus m \ominus t) \oslash s /\ x.shares = s \oplus z
      /\ f = Total([e \in FlowsToday(c, d) |-> SignedGross(e)])
  BY <1>1, <1>2, <1>4 DEF ClassDay
<1>7. IsRat(z) /\ n \otimes z = f
  BY <1>2, <1>4, <1>5, <1>6, FlowsBuyShares
<1>8. PICK y : y = g \ominus m \ominus t
  OBVIOUS
<1>9. IsRat(y) /\ n = y \oslash s
  BY <1>5, <1>6, <1>8, DifferenceIsRat
<1>10. n \otimes s = y
  BY <1>3, <1>9, QuotientCancels
<1>11. n \otimes (s \oplus z) = y \oplus f
  BY <1>3, <1>5, <1>7, <1>10, Distributes
<1>12. y \oplus f = g \oplus (f \ominus m \ominus t)
  BY <1>5, <1>8, ExtraRegroups
<1>13. Extra(x) = f \ominus m \ominus t /\ IsRat(f \ominus m \ominus t)
  BY <1>4, <1>5, DifferenceIsRat DEF Extra
<1> QED
  BY <1>4, <1>5, <1>6, <1>11, <1>12, <1>13

LEMMA AssetsRegroup ==
  ASSUME NEW c, NEW v, NEW o, NEW h, IsRat(c), IsRat(v), IsRat(o), IsRat(h)
  PROVE  (c \oplus v) \oplus (o \oplus h) = v \oplus (c \oplus o) \oplus h
<1>1. IsRat(c \oplus v) /\ IsRat(v \oplus c)
  BY SumIsRat
<1>2. (c \oplus v) \oplus (o \oplus h) = ((c \oplus v) \oplus o) \oplus h
  BY <1>1, SumAssociates
<1>3. (v \oplus c) \oplus o = v \oplus (c \oplus o)
  BY SumAssociates
<1> QED
  BY <1>2, <1>3, SumCommutes

\* The return of the fund shares its assets out to the classes.
LEMMA AssetsShared ==
  ASSUME NEW d, fund \in Funds, WalkTyped, Zero \prec walk.prior, walk.prior = Worth,
         NEW A, IsRat(A),
         NEW gav, gav = [c \in DOMAIN fund.classes |->
                           walk.classes[c].shares \otimes walk.classes[c].nav
                             \otimes (One \oplus FundReturn(A))]
  PROVE  Total(gav) = A
<1>0. PICK C : C = DOMAIN fund.classes
  OBVIOUS
<1>1. PICK P, r, q : P = walk.prior /\ r = FundReturn(A) /\ q = A \oslash P
  OBVIOUS
<1>2. PICK own : own = [c \in C |-> walk.classes[c].shares \otimes walk.classes[c].nav]
  OBVIOUS
<1>3. IsRat(P) /\ P # Zero
  BY <1>1, PositiveDivisor DEF WalkTyped, Positive, Divisor
<1>4. IsRat(q) /\ q \otimes P = A
  BY <1>1, <1>3, QuotientIsRat, QuotientCancels
<1>5. One \oplus r = q
  <2>1. r = q \ominus One
    BY <1>1 DEF FundReturn
  <2>2. IsRat(r) /\ r \oplus One = q
    BY <1>4, <2>1, ZeroOne, DifferenceIsRat, DifferenceCancels
  <2> QED
    BY <2>2, ZeroOne, SumCommutes
<1>6. \A c \in C : IsRat(own[c])
  BY <1>0, <1>2, ProductIsRat DEF WalkTyped, ClassTyped
<1>7. IsFiniteSet(C)
  BY <1>0, FundsAssumption
<1>8. Family(own, C)
  BY <1>6, <1>7 DEF Family
<1>9. gav = [c \in C |-> q \otimes own[c]]
  <2>1. \A c \in C : gav[c] = own[c] \otimes q
    BY <1>0, <1>1, <1>2, <1>5
  <2>2. \A c \in C : gav[c] = q \otimes own[c]
    BY <1>4, <1>6, <2>1, ProductCommutes
  <2>3. gav = [c \in C |-> gav[c]]
    BY <1>0
  <2> QED
    BY <2>2, <2>3
<1>10. own = [c \in C |-> own[c]]
  BY <1>2
<1>11. Total(gav) = q \otimes Total(own)
  BY <1>4, <1>8, <1>9, <1>10, TotalScales
<1>12. Total(own) = P
  BY <1>0, <1>1, <1>2 DEF Worth
<1> QED
  BY <1>4, <1>11, <1>12

LEMMA StruckBalances ==
  ASSUME NEW d, Valued(d), WalkTyped, Subscribed, Zero \prec walk.prior, walk.prior = Worth,
         \A c \in DOMAIN fund.classes : DayOf(c, d).nav # Zero
  PROVE  Total([c \in DOMAIN fund.classes |-> DayNav(d)[c].nav_base]) =
           MvBaseTotal(DayRows(d)) \oplus DayCashOut(d) \oplus
             Total([c \in DOMAIN fund.classes |-> DayFees(d)[c].delta \ominus DayFees(d)[c].balance])
<1>0. PICK C : C = DOMAIN fund.classes
  OBVIOUS
<1>1. PICK A, cash, v : A = DayAssets(d) /\ cash = DayCash(d) /\ v = MvBaseTotal(DayRows(d))
  OBVIOUS
<1>2. IsRat(A) /\ IsRat(cash) /\ IsRat(v) /\ A = cash \oplus v
  BY <1>1, DayIsTyped, MvBaseTotalIsRat DEF DayAssets
<1>3. PICK day : day = [c \in C |-> DayOf(c, d)]
  OBVIOUS
<1>4. IsFiniteSet(C) /\ fund \in Funds
  BY <1>0, FundsAssumption DEF Valued
<1>5. PICK r : r = FundReturn(A)
  OBVIOUS
<1>6. IsRat(r) /\ \A c \in C : day[c] = ClassDay(c, r, d)
  BY <1>0, <1>1, <1>2, <1>3, <1>5, FundReturnIsRat DEF DayOf, WalkTyped
<1>7. ASSUME NEW c \in C
      PROVE  /\ IsRat(Extra(day[c])) /\ IsRat(day[c].gav) /\ ClassDayTyped(day[c])
             /\ day[c].nav \otimes day[c].shares = day[c].gav \oplus Extra(day[c])
  <2>1. ClassTyped(walk.classes[c]) /\ walk.classes[c].shares # Zero
    BY <1>0 DEF WalkTyped, Subscribed
  <2>2. day[c].nav # Zero
    BY <1>0, <1>3
  <2> QED
    BY <1>0, <1>6, <2>1, <2>2, ClassBalances, ClassDayIsTyped
<1>8. PICK gav, extra, nb : /\ gav = [c \in C |-> day[c].gav]
                            /\ extra = [c \in C |-> Extra(day[c])]
                            /\ nb = [c \in C |-> DayNav(d)[c].nav_base]
  OBVIOUS
<1>9. PICK out, held : /\ out = [c \in C |-> DayOut(c, d)]
                       /\ held = [c \in C |-> DayFees(d)[c].delta \ominus DayFees(d)[c].balance]
  OBVIOUS
<1>10. gav = [c \in C |-> walk.classes[c].shares \otimes walk.classes[c].nav
                             \otimes (One \oplus FundReturn(A))]
  <2>1. ASSUME NEW c \in C
        PROVE  day[c].gav = walk.classes[c].shares \otimes walk.classes[c].nav
                              \otimes (One \oplus r)
    <3>1. ClassDay(c, r, d).gav = walk.classes[c].shares \otimes walk.classes[c].nav
                                    \otimes (One \oplus r)
      BY DEF ClassDay
    <3> QED
      BY <1>6, <3>1
  <2> QED
    BY <1>0, <1>5, <1>8, <2>1
<1>11. Total(gav) = A
  BY <1>0, <1>2, <1>4, <1>10, AssetsShared
<1>12. Family(gav, C) /\ Family(extra, C)
  BY <1>4, <1>7, <1>8 DEF Family
<1>13. nb = [c \in C |-> gav[c] \oplus extra[c]]
  <2>1. ASSUME NEW c \in C PROVE nb[c] = gav[c] \oplus extra[c]
    <3>1. nb[c] = day[c].nav \otimes day[c].shares
      BY <1>0, <1>3, <1>8 DEF DayNav, NavRow
    <3> QED
      BY <1>7, <1>8, <3>1
  <2> QED
    BY <1>8, <2>1
<1>14. Total(nb) = A \oplus Total(extra)
  <2>1. gav = [c \in C |-> gav[c]] /\ extra = [c \in C |-> extra[c]]
    BY <1>8
  <2> QED
    BY <1>11, <1>12, <1>13, <2>1, TotalAdds
<1>15. ASSUME NEW c \in C
       PROVE  IsRat(out[c]) /\ IsRat(held[c]) /\ extra[c] = out[c] \oplus held[c]
  <2>1. PICK m, t, f, dl : m = day[c].mgmt /\ t = day[c].target /\ f = day[c].flow
                           /\ dl = day[c].delta
    OBVIOUS
  <2>2. IsRat(m) /\ IsRat(t) /\ IsRat(f) /\ IsRat(dl)
    BY <1>7, <2>1 DEF ClassDayTyped
  <2>3. out[c] = f \ominus m \ominus dl
    BY <1>3, <1>9, <2>1 DEF DayOut
  <2>4. held[c] = dl \ominus t
    BY <1>0, <1>3, <1>9, <2>1 DEF DayFees, FeeRow
  <2>5. extra[c] = f \ominus m \ominus t
    BY <1>8, <2>1 DEF Extra
  <2>6. PICK a : a = f \ominus m
    OBVIOUS
  <2>7. IsRat(a) /\ IsRat(a \ominus dl) /\ IsRat(dl \ominus t)
    BY <2>2, <2>6, DifferenceIsRat
  <2>8. (a \ominus dl) \oplus (dl \ominus t) = a \ominus t
    BY <2>2, <2>7, Between
  <2> QED
    BY <2>3, <2>4, <2>5, <2>6, <2>7, <2>8
<1>16. Family(out, C) /\ Family(held, C)
  BY <1>4, <1>15 DEF Family
<1>17. out = [c \in C |-> out[c]] /\ held = [c \in C |-> held[c]]
  BY <1>9
<1>18. extra = [c \in C |-> out[c] \oplus held[c]]
  BY <1>8, <1>15
<1>19. Total(extra) = Total(out) \oplus Total(held)
  BY <1>16, <1>17, <1>18, TotalAdds
<1>20. PICK o, h : o = Total(out) /\ h = Total(held)
  OBVIOUS
<1>21. IsRat(o) /\ IsRat(h)
  BY <1>16, <1>17, <1>20, TotalIsRat
<1>22. Total(nb) = v \oplus (cash \oplus o) \oplus h
  BY <1>2, <1>14, <1>19, <1>20, <1>21, AssetsRegroup
<1>23. DayCashOut(d) = cash \oplus o
  BY <1>0, <1>1, <1>9, <1>20 DEF DayCashOut
<1> QED
  BY <1>0, <1>1, <1>8, <1>9, <1>20, <1>22, <1>23

LEMMA WorthStruck ==
  ASSUME NEW d, Valued(d), WalkTyped, Subscribed, walk' = StepOneDay(d), fund' = fund,
         \A c \in DOMAIN fund.classes : DayOf(c, d).nav # Zero
  PROVE  walk'.prior = Worth'
<1>1. PICK C, w : C = DOMAIN fund.classes /\ w = StepOneDay(d)
  OBVIOUS
<1>2. w.prior = DayPrior(d) /\ w.classes = [c \in C |-> DayClass(c, d)]
  BY <1>1, StepUnfolds
<1>3. ASSUME NEW c \in C
      PROVE  DayNav(d)[c].nav_base = w.classes[c].shares \otimes w.classes[c].nav
  <2>1. IsRat(DayOf(c, d).shares) /\ IsRat(DayOf(c, d).nav)
    BY <1>1, <1>3, DayWritten
  <2>2. w.classes[c].shares = DayOf(c, d).shares /\ w.classes[c].nav = DayOf(c, d).nav
    BY <1>1, <1>2 DEF DayClass, WalkTyped, ClassTyped
  <2>3. DayNav(d)[c].nav_base = DayOf(c, d).nav \otimes DayOf(c, d).shares
    BY <1>1 DEF DayNav, NavRow
  <2> QED
    BY <2>1, <2>2, <2>3, ProductCommutes
<1>4. [c \in C |-> DayNav(d)[c].nav_base] = [c \in C |-> w.classes[c].shares \otimes w.classes[c].nav]
  BY <1>3
<1>5. DayPrior(d) = Total([c \in C |-> w.classes[c].shares \otimes w.classes[c].nav])
  BY <1>1, <1>4 DEF DayPrior
<1> QED
  BY <1>1, <1>2, <1>5 DEF Worth

\* The balance of the rows of a day that are as they were.
LEMMA BalanceKept ==
  ASSUME NEW b, NEW d, Balance(b, d), NEW new, new.nav[d] = b.nav[d],
         new.holdings[d] = b.holdings[d], new.cash[d] = b.cash[d], new.fees[d] = b.fees[d]
  PROVE  Balance(new, d)
  BY DEF Balance

Marring == {"stale_hwm_perf_fee", "subscription_pre_cutoff", "wrong_wht",
            "class_fee_misallocation"}
RowsBalance   == \A d \in DOMAIN walk.rows.nav : Balance(walk.rows, d)
TablesBalance == \A d \in DOMAIN books.nav : Marred(Marring, d) \/ Balance(books, d)

LEMMA WalkDayBalances ==
  ASSUME Typed, Solvent, Solvent', walk.prior = Worth, RowsBalance, WalkDay
  PROVE  walk'.prior = Worth' /\ RowsBalance'
<1>1. /\ phase = "walk" /\ walk.day \in Days /\ fund' = fund /\ FxTyped(input.fx)
  BY DEF WalkDay, Typed, InputTyped
<1>2. PICK d, w : d = walk.day /\ w = StepOneDay(d)
  OBVIOUS
<1>3. walk' = w
  BY <1>1, <1>2 DEF WalkDay, FxTyped
<1>4. Valued(d)
  BY <1>1, <1>2, WindowValued
<1>5. WalkTyped /\ TablesTyped(walk.rows) /\ d \notin DOMAIN walk.rows.nav
  BY <1>1, <1>2 DEF Typed, WalkTyped, Days
<1>6. Subscribed /\ Zero \prec walk.prior
  BY <1>1 DEF Solvent, Subscribed
<1>7. ASSUME NEW c \in DOMAIN fund.classes PROVE DayOf(c, d).nav # Zero
  <2>1. w.classes = [x \in DOMAIN fund.classes |-> DayClass(x, d)]
    BY <1>2, StepUnfolds
  <2>2. w.classes[c].nav = DayOf(c, d).nav
    BY <1>5, <2>1 DEF DayClass, WalkTyped, ClassTyped
  <2> QED
    BY <1>1, <1>3, <2>2 DEF Solvent
<1>8. walk'.prior = Worth'
  BY <1>1, <1>2, <1>3, <1>4, <1>5, <1>6, <1>7, WorthStruck
<1>9. /\ Grown(w.rows, walk.rows, d)
      /\ w.rows.holdings[d] = DayRows(d) /\ w.rows.cash[d] = DayCashOut(d)
      /\ w.rows.fees[d] = DayFees(d) /\ w.rows.nav[d] = DayNav(d)
  BY <1>2, <1>5, StepGrows
<1>10. Balance(w.rows, d)
  BY <1>4, <1>5, <1>6, <1>7, <1>9, StruckBalances DEF Balance
<1>11. ASSUME NEW x \in DOMAIN w.rows.nav PROVE Balance(w.rows, x)
  <2>1. CASE x = d
    BY <1>10, <2>1
  <2>2. CASE x # d
    <3>1. x \in DOMAIN walk.rows.nav
      BY <1>9, <2>2 DEF Grown, Added
    <3>2. /\ w.rows.nav[x] = walk.rows.nav[x] /\ w.rows.holdings[x] = walk.rows.holdings[x]
          /\ w.rows.cash[x] = walk.rows.cash[x] /\ w.rows.fees[x] = walk.rows.fees[x]
      BY <1>9, <3>1 DEF Grown, Added
    <3>3. Balance(walk.rows, x)
      BY <3>1 DEF RowsBalance
    <3> QED
      BY <3>2, <3>3, BalanceKept
  <2> QED
    BY <2>1, <2>2
<1>12. RowsBalance'
  BY <1>1, <1>3, <1>11 DEF RowsBalance, Balance
<1> QED
  BY <1>8, <1>12

(***************************************************************************)
(* The balance of a day whose assets an injector revalues.                 *)
(***************************************************************************)

\* Shared out in proportion, all of delta_base is shared out.
LEMMA PartsAddUp ==
  ASSUME fund \in Funds, NEW b, TablesTyped(b), NEW d \in DOMAIN b.nav, NEW delta, IsRat(delta),
         Zero \prec DayTotal(b.nav, d)
  PROVE  Total([c \in DOMAIN fund.classes |-> Part(b.nav, d, c, delta)]) =
           DayTotal(b.nav, d) \oplus delta
<1>0. PICK C, T : C = DOMAIN fund.classes /\ T = DayTotal(b.nav, d)
  OBVIOUS
<1>1. IsFiniteSet(C) /\ IsRat(T) /\ DOMAIN b.nav[d] = C
  BY <1>0, FundsAssumption, DayTotalIsRat DEF TablesTyped, DayTyped
<1>2. T # Zero
  BY <1>0, <1>1, PositiveDivisor DEF Positive, Divisor
<1>3. PICK f, h, k : /\ f = [c \in C |-> b.nav[d][c].nav_base] /\ k = delta \oslash T
                     /\ h = [c \in C |-> k \otimes f[c]]
  OBVIOUS
<1>4. IsRat(k) /\ k \otimes T = delta
  BY <1>1, <1>2, <1>3, QuotientIsRat, QuotientCancels
<1>5. \A c \in C : IsRat(f[c]) /\ IsRat(h[c]) /\ h[c] = k \otimes f[c]
  BY <1>0, <1>3, <1>4, ProductIsRat DEF TablesTyped, DayTyped, NavTyped
<1>6. Family(f, C) /\ Family(h, C) /\ f = [c \in C |-> f[c]] /\ h = [c \in C |-> h[c]]
  BY <1>1, <1>3, <1>5 DEF Family
<1>7. Total(f) = T
  BY <1>0, <1>1, <1>3 DEF DayTotal
<1>8. Total(h) = delta
  BY <1>3, <1>4, <1>6, <1>7, TotalScales
<1>9. ASSUME NEW c \in C PROVE Part(b.nav, d, c, delta) = f[c] \oplus h[c]
  <2>1. PICK n, u : n = f[c] /\ u = Reciprocal(T)
    OBVIOUS
  <2>2. IsRat(n) /\ IsRat(u)
    BY <1>1, <1>2, <1>5, <2>1, MeansItself, NonZero, ReciprocalOf
  <2>3. n \oslash T = n \otimes u /\ k = delta \otimes u
    BY <1>3, <2>1 DEF Reciprocal, \oslash
  <2>4. delta \otimes (n \otimes u) = (delta \otimes u) \otimes n
    BY <2>2, ProductCommutes, ProductAssociates
  <2> QED
    BY <1>0, <1>3, <1>5, <2>1, <2>3, <2>4 DEF Part
<1>10. [c \in C |-> Part(b.nav, d, c, delta)] = [c \in C |-> f[c] \oplus h[c]]
  BY <1>9
<1>11. Total([c \in C |-> f[c] \oplus h[c]]) = T \oplus delta
  BY <1>6, <1>7, <1>8, TotalAdds
<1> QED
  BY <1>0, <1>10, <1>11

LEMMA RevaluedRegroups ==
  ASSUME NEW v, NEW w, NEW c, NEW h, IsRat(v), IsRat(w), IsRat(c), IsRat(h)
  PROVE  (v \oplus c \oplus h) \oplus (w \ominus v) = w \oplus c \oplus h
<1>1. PICK e : e = w \ominus v
  OBVIOUS
<1>2. IsRat(e) /\ v \oplus e = w /\ IsRat(v \oplus c)
  BY <1>1, DifferenceIsRat, DifferenceCancels, SumCommutes, SumIsRat
<1>3. ((v \oplus c) \oplus h) \oplus e = ((v \oplus c) \oplus e) \oplus h
  BY <1>2, FeesRegroup
<1>4. (v \oplus c) \oplus e = (v \oplus e) \oplus c
  BY <1>2, FeesRegroup
<1> QED
  BY <1>1, <1>2, <1>3, <1>4

LEMMA AdjustedBalances ==
  ASSUME fund \in Funds, NEW b, TablesTyped(b), NEW d \in DOMAIN b.nav, Balance(b, d),
         NEW rows, HoldingsTyped(rows), NEW delta, Zero \prec DayTotal(b.nav, d),
         delta = MvBaseTotal(rows) \ominus MvBaseTotal(b.holdings[d]),
         NEW new, AllAdjusted(new, b, d, rows, delta)
  PROVE  Balance(new, d)
<1>0. PICK C : C = DOMAIN fund.classes
  OBVIOUS
<1>1. PICK v, w, k : v = MvBaseTotal(b.holdings[d]) /\ w = MvBaseTotal(rows) /\ k = b.cash[d]
  OBVIOUS
<1>2. DayTyped(b, d) /\ HoldingsTyped(b.holdings[d])
  BY DEF TablesTyped, DayTyped, HoldingsTyped
<1>3. IsRat(v) /\ IsRat(w) /\ IsRat(k) /\ IsRat(delta) /\ delta = w \ominus v
  BY <1>1, <1>2, MvBaseTotalIsRat, DifferenceIsRat DEF DayTyped
<1>4. PICK held : held = [c \in C |-> b.fees[d][c].delta \ominus b.fees[d][c].balance]
  OBVIOUS
<1>5. IsRat(Total(held))
  <2>1. \A c \in C : IsRat(held[c])
    BY <1>0, <1>2, <1>4, DifferenceIsRat DEF DayTyped, FeeTyped
  <2>2. Family(held, C)
    BY <1>0, <2>1, FundsAssumption DEF Family
  <2>3. held = [c \in C |-> held[c]]
    BY <1>4
  <2> QED
    BY <2>2, <2>3, TotalIsRat
<1>6. \A c \in C : new.nav[d][c].nav_base = Part(b.nav, d, c, delta)
  <2> SUFFICES ASSUME NEW c \in C PROVE new.nav[d][c].nav_base = Part(b.nav, d, c, delta)
    OBVIOUS
  <2>1. new.nav[d][c] = PartRow(b.nav, d, c, delta)
    BY <1>0, AdjustedRows
  <2>2. "nav_base" \in DOMAIN b.nav[d][c]
    BY <1>0, <1>2 DEF DayTyped, NavTyped
  <2> QED
    BY <2>1, <2>2 DEF PartRow, Restated
<1>7. [c \in C |-> new.nav[d][c].nav_base] = [c \in C |-> Part(b.nav, d, c, delta)]
  BY <1>6
<1>8. Total([c \in C |-> new.nav[d][c].nav_base]) = DayTotal(b.nav, d) \oplus delta
  BY <1>0, <1>3, <1>7, PartsAddUp
<1>9. DayTotal(b.nav, d) = v \oplus k \oplus Total(held)
  <2>1. DOMAIN b.nav[d] = C
    BY <1>0, <1>2 DEF DayTyped
  <2> QED
    BY <1>0, <1>1, <1>4, <2>1 DEF DayTotal, Balance
<1>10. (v \oplus k \oplus Total(held)) \oplus (w \ominus v) = w \oplus k \oplus Total(held)
  BY <1>3, <1>5, RevaluedRegroups
<1>11. new.holdings[d] = rows /\ new.cash[d] = k /\ new.fees[d] = b.fees[d]
  BY <1>1 DEF AllAdjusted, Touched
<1> QED
  BY <1>0, <1>1, <1>3, <1>4, <1>8, <1>9, <1>10, <1>11 DEF Balance

LEMMA SurgeryBalances ==
  ASSUME Typed, Solvent, Solvent', fund' = fund, schedule' = schedule, PostWalk, TablesBalance
  PROVE  TablesBalance'
<1>1. phase = "postwalk" /\ cursor \in OwnEntries
  BY Zenon DEF PostWalk, Defect2, Defect5, Defect6, Defect8, Defect9, Defect10, Due, DueHere,
               OwnEntries, Entry
<1>2. Entry.as_of \in Days /\ TablesTyped(books) /\ DOMAIN books.nav = Days
  BY <1>1, Operating DEF OwnEntries
<1>3. PICK d, new : d = Entry.as_of /\ new = books'
  OBVIOUS
<1>4. DOMAIN new.nav = Days
  BY <1>3, SurgeryTyped
<1>5. CASE new = books
  BY <1>3, <1>5 DEF TablesBalance, Balance, Marred, OwnEntries, Mine
<1>6. CASE new # books
  <2>1. ClassRestatement \/ FundAdjustment
    BY <1>3, <1>6, SurgeryTyped
  <2>2. Touched(new, books, d)
    <3>1. CASE ClassRestatement
      BY <1>3, <3>1 DEF ClassRestatement, OneRestated
    <3>2. CASE FundAdjustment
      BY <1>3, <3>2 DEF FundAdjustment, AllAdjusted
    <3> QED
      BY <2>1, <3>1, <3>2
  <2>3. ASSUME NEW x \in Days, x # d PROVE Marred(Marring, x) \/ Balance(new, x)
    <3>1. /\ new.nav[x] = books.nav[x] /\ new.holdings[x] = books.holdings[x]
          /\ new.cash[x] = books.cash[x] /\ new.fees[x] = books.fees[x]
      BY <1>2, <2>2, <2>3 DEF Touched, Only, TablesTyped
    <3>2. Marred(Marring, x) \/ Balance(books, x)
      BY <1>2 DEF TablesBalance
    <3> QED
      BY <3>1, <3>2, BalanceKept
  <2>4. Marred(Marring, d) \/ Balance(new, d)
    <3>1. CASE Entry.code \in Marring
      BY <1>1, <1>3, <3>1 DEF Marred, Entry
    <3>2. CASE Entry.code \notin Marring
      <4>1. Defect2
        <5>1. ~(Defect5 \/ Defect8 \/ Defect9 \/ Defect10)
          BY <3>2 DEF Marring, Defect5, Defect8, Defect9, Defect10, Due, DueHere
        <5>2. ~Defect6
          BY <1>3, <1>6, Defect6Typed
        <5> QED
          BY <5>1, <5>2 DEF PostWalk
      <4>2. FundAdjustment
        BY <4>1, Defect2Adjusts
      <4>3. PICK rows, delta : /\ AllAdjusted(new, books, d, rows, delta)
                               /\ HoldingsTyped(rows)
                               /\ delta = MvBaseTotal(rows) \ominus MvBaseTotal(books.holdings[d])
        BY <1>3, <3>2, <4>2 DEF FundAdjustment, Marring
      <4>4. Zero \prec DayTotal(books.nav, d)
        <5>1. cursor >= cursor
          BY ScheduleLength DEF Typed, ChoicesTyped
        <5> QED
          BY <1>1, <1>3, <5>1 DEF Solvent, DayTotal, Entry
      <4>5. Marred(Marring, d) \/ Balance(books, d)
        BY <1>2, <1>3 DEF TablesBalance
      <4> QED
        BY <1>2, <1>3, <4>3, <4>4, <4>5, AdjustedBalances DEF Typed, ChoicesTyped
    <3> QED
      BY <3>1, <3>2
  <2>5. \A x \in Days : Marred(Marring, x) \/ Balance(new, x)
    BY <2>3, <2>4
  <2> QED
    BY <1>3, <1>4, <2>5 DEF TablesBalance, Marred, OwnEntries, Mine, Balance
<1> QED
  BY <1>5, <1>6

Balancing == walk.prior = Worth /\ RowsBalance /\ TablesBalance

LEMMA NextBalances == Typed /\ Solvent /\ Solvent' /\ Balancing /\ [Next]_vars => Balancing'
<1> SUFFICES ASSUME Typed, Solvent, Solvent', Balancing, [Next]_vars PROVE Balancing'
  OBVIOUS
<1>1. fund' = fund /\ schedule' = schedule
  BY NextSame DEF vars
<1>2. UNCHANGED walk => walk'.prior = Worth' /\ RowsBalance'
  BY <1>1 DEF Balancing, Worth, RowsBalance, Balance
<1>3. UNCHANGED books => TablesBalance'
  BY <1>1 DEF Balancing, TablesBalance, Balance, Marred, OwnEntries, Mine
<1>4. CASE WalkDay
  <2>1. books' = books
    BY <1>4 DEF WalkDay
  <2> QED
    BY <1>3, <1>4, <2>1, WalkDayBalances DEF Balancing
<1>5. CASE BulkWrite
  <2>1. books' = walk.rows /\ walk' = walk
    BY <1>5 DEF BulkWrite
  <2>2. TablesBalance'
    BY <1>1, <2>1 DEF Balancing, RowsBalance, TablesBalance, Balance
  <2> QED
    BY <1>2, <2>1, <2>2 DEF Balancing
<1>6. CASE PostWalk
  <2>1. walk' = walk
    BY <1>6 DEF PostWalk, Defect2, Defect5, Defect6, Defect8, Defect9, Defect10
  <2> QED
    BY <1>1, <1>2, <1>6, <2>1, SurgeryBalances DEF Balancing
<1>7. CASE Generate \/ PreWalk \/ PassOver \/ EndInjection \/ UpdateCatalog \/ Built
  <2>1. UNCHANGED << walk, books >>
    BY <1>7 DEF Generate, WriteFx, WriteEquityPrices, WriteBonds, WriteCorporateActions,
                WriteTrades, WriteCapstock, PreWalk, Defect1, Defect3, Defect4, Defect7,
                PassOver, EndInjection, UpdateCatalog, Built, vars
  <2> QED
    BY <1>2, <1>3, <2>1 DEF Balancing
<1>8. CASE UNCHANGED vars
  BY <1>2, <1>3, <1>8 DEF Balancing, vars
<1>9. CASE Elsewhere
  BY <1>2, <1>3, <1>9, ElsewhereKeeps DEF Balancing
<1> QED
  BY <1>4, <1>5, <1>6, <1>7, <1>8, <1>9 DEF Next

\* As long as the fund goes on, the NAV of the classes together is what the fund
\* owns, but for the part of the fee balance that cash has paid on earlier days:
\* whatever is drawn and scheduled, the allocation of the return (walk.py:249),
\* the fees and the flows neither lose nor make money, and an injector that
\* revalues a day (defects.py:226-282) moves holdings and NAV alike.
THEOREM BooksAlwaysBalance == Spec /\ []Solvent => []BooksBalance
<1>1. Init => Balancing
  <2> SUFFICES ASSUME Init PROVE Balancing
    OBVIOUS
  <2>1. walk.rows = NoBooks /\ books = NoBooks /\ walk.prior = InitialAum(fund)
    BY DEF Init, InitFundState, InitialPortfolio
  <2>2. InitialAum(fund) = Worth
    <3>1. \A c \in DOMAIN fund.classes : /\ walk.classes[c].shares = fund.classes[c].shares
                                         /\ walk.classes[c].nav = fund.classes[c].nav
      BY DEF Init, InitFundState
    <3>2. [c \in DOMAIN fund.classes |-> walk.classes[c].shares \otimes walk.classes[c].nav] =
          [c \in DOMAIN fund.classes |-> fund.classes[c].shares \otimes fund.classes[c].nav]
      BY <3>1
    <3> QED
      BY <3>2 DEF InitialAum, Worth
  <2> QED
    BY <2>1, <2>2 DEF Balancing, RowsBalance, TablesBalance, NoBooks
<1>2. Balancing => BooksBalance
  BY DEF Balancing, RowsBalance, TablesBalance, Balance, BooksBalance, Rows, Struck, Marring
<1>3. Spec /\ []Solvent => []Typed
  BY InitTyped, NextTyped, PTL DEF Spec
<1> QED
  BY <1>1, <1>2, <1>3, NextBalances, PTL DEF Spec

(***************************************************************************)
(* Sums over parts of a set.                                               *)
(***************************************************************************)

LEMMA OverSame ==
  ASSUME NEW S, NEW f, NEW g, \A x \in S : f[x] = g[x] PROVE Over(f, S) = Over(g, S)
<1>1. [x \in S |-> f[x]] = [x \in S |-> g[x]]
  OBVIOUS
<1> QED
  BY <1>1 DEF Over

LEMMA OverZeros ==
  ASSUME NEW S, IsFiniteSet(S), NEW f, \A x \in S : f[x] = Zero PROVE Over(f, S) = Zero
<1>1. Family(f, S)
  BY ZeroOne DEF Family
<1>2. \A x \in S : f[x] = Zero \otimes f[x]
  BY ZeroOne, ZeroProduct
<1>3. Over(f, S) = Zero \otimes Over(f, S)
  BY <1>1, <1>2, ZeroOne, OverScales
<1> QED
  BY <1>1, <1>3, OverIsRat, ZeroProduct

\* Terms that are zero may be left out.
LEMMA OverExtends ==
  ASSUME NEW S, NEW T, S \subseteq T, NEW f, Family(f, T), \A x \in T \ S : f[x] = Zero
  PROVE  Over(f, T) = Over(f, S)
<1>1. PICK D : D = T \ S
  OBVIOUS
<1> DEFINE J == {s \in SUBSET D : Over(f, S \cup s) = Over(f, S)}
<1>2. {} \in J
  BY <1>1
<1>3. ASSUME NEW s \in SUBSET D, NEW x \in s, s \ {x} \in J PROVE s \in J
  <2>1. PICK r, u : r = s \ {x} /\ u = S \cup s
    OBVIOUS
  <2>2. x \in u /\ u \ {x} = S \cup r /\ u \in SUBSET T /\ f[x] = Zero
    BY <1>1, <2>1
  <2>3. Family(f, u) /\ Family(f, S \cup r)
    BY <2>2, SubFamily
  <2>4. Over(f, u) = Zero \oplus Over(f, S \cup r)
    BY <2>2, <2>3, OverRemove
  <2>5. Over(f, u) = Over(f, S)
    BY <1>3, <2>1, <2>3, <2>4, OverIsRat, ZeroSum
  <2> QED
    BY <2>1, <2>5
<1>4. IsFiniteSet(D)
  BY <1>1, FS_Difference DEF Family
<1> HIDE DEF J
<1>5. D \in J
  BY <1>2, <1>3, <1>4, SetInduction
<1>6. S \cup D = T
  BY <1>1
<1> QED
  BY <1>5, <1>6 DEF J

LEMMA OverPoint ==
  ASSUME NEW S, NEW f, Family(f, S), NEW x \in S, \A y \in S \ {x} : f[y] = Zero
  PROVE  Over(f, S) = f[x]
<1>1. Over(f, S) = f[x] \oplus Over(f, S \ {x})
  BY OverRemove
<1>2. IsFiniteSet(S \ {x}) /\ IsRat(f[x])
  BY FS_Difference, FS_Subset DEF Family
<1>3. Over(f, S \ {x}) = Zero
  BY <1>2, OverZeros
<1> QED
  BY <1>1, <1>2, <1>3, ZeroSum

Fiber(s, key, i) == {t \in s : key[t] = i}
Fibers(f, s, key, I) == [i \in I |-> Over(f, Fiber(s, key, i))]

\* A sum is the sum of the sums over the classes of a partition.
LEMMA OverFibers ==
  ASSUME NEW T, NEW f, Family(f, T), NEW I, IsFiniteSet(I), NEW key, \A t \in T : key[t] \in I
  PROVE  /\ Over(Fibers(f, T, key, I), I) = Over(f, T)
         /\ Family(Fibers(f, T, key, I), I)
<1> DEFINE J == {s \in SUBSET T : Over(Fibers(f, s, key, I), I) = Over(f, s)}
<1>1. ASSUME NEW s \in SUBSET T PROVE Family(Fibers(f, s, key, I), I)
  <2>1. ASSUME NEW i \in I PROVE IsRat(Over(f, Fiber(s, key, i)))
    <3>1. Fiber(s, key, i) \in SUBSET T
      BY DEF Fiber
    <3> QED
      BY <3>1, SubFamily, OverIsRat
  <2> QED
    BY <2>1 DEF Family, Fibers
<1>2. {} \in J
  <2>1. \A i \in I : Fiber({}, key, i) = {}
    BY DEF Fiber
  <2>2. PICK g : g = Fibers(f, {}, key, I)
    OBVIOUS
  <2>3. \A i \in I : g[i] = Zero
    BY <2>1, <2>2, OverEmpty DEF Fibers
  <2> QED
    BY <2>2, <2>3, OverZeros, OverEmpty
<1>3. ASSUME NEW s \in SUBSET T, NEW x \in s, s \ {x} \in J PROVE s \in J
  <2>1. PICK r, k : r = s \ {x} /\ k = key[x]
    OBVIOUS
  <2>2. PICK g, h, p : /\ g = Fibers(f, s, key, I) /\ h = Fibers(f, r, key, I)
                       /\ p = [i \in I |-> IF i = k THEN f[x] ELSE Zero]
    OBVIOUS
  <2>3. Family(g, I) /\ Family(h, I) /\ Family(f, s) /\ Family(f, r) /\ k \in I /\ IsRat(f[x])
    BY <1>1, <2>1, <2>2, SubFamily DEF Family
  <2>4. Family(p, I) /\ Over(p, I) = f[x]
    <3>1. Family(p, I)
      BY <2>2, <2>3, ZeroOne DEF Family
    <3> QED
      BY <2>2, <2>3, <3>1, OverPoint
  <2>5. ASSUME NEW i \in I PROVE g[i] = p[i] \oplus h[i]
    <3>1. PICK a, b : a = Fiber(s, key, i) /\ b = Fiber(r, key, i)
      OBVIOUS
    <3>2. g[i] = Over(f, a) /\ h[i] = Over(f, b) /\ Family(f, a) /\ Family(f, b)
      <4>1. a \in SUBSET s /\ b \in SUBSET r
        BY <3>1 DEF Fiber
      <4> QED
        BY <2>2, <2>3, <3>1, <4>1, SubFamily DEF Fibers
    <3>3. CASE i = k
      <4>1. x \in a /\ b = a \ {x}
        BY <2>1, <3>1, <3>3 DEF Fiber
      <4>2. Over(f, a) = f[x] \oplus Over(f, b)
        BY <3>2, <4>1, OverRemove
      <4> QED
        BY <2>2, <3>2, <3>3, <4>2
    <3>4. CASE i # k
      <4>1. a = b
        BY <2>1, <3>1, <3>4 DEF Fiber
      <4>2. p[i] = Zero
        BY <2>2, <3>4
      <4> QED
        BY <3>2, <4>1, <4>2, OverIsRat, ZeroSum
    <3> QED
      BY <3>3, <3>4
  <2>6. Over(g, I) = f[x] \oplus Over(h, I)
    BY <2>3, <2>4, <2>5, OverAdds
  <2>7. Over(h, I) = Over(f, r)
    BY <1>3, <2>1, <2>2
  <2>8. Over(f, s) = f[x] \oplus Over(f, r)
    BY <2>1, <2>3, OverRemove
  <2>9. Over(Fibers(f, s, key, I), I) = Over(f, s)
    BY <2>2, <2>6, <2>7, <2>8
  <2> QED
    BY <2>9
<1>4. IsFiniteSet(T)
  BY DEF Family
<1> HIDE DEF J
<1>5. T \in J
  BY <1>2, <1>3, <1>4, SetInduction
<1> QED
  BY <1>1, <1>5 DEF J

\* A sum over an image, when no two elements have the same.
LEMMA OverImage ==
  ASSUME NEW S, NEW g, NEW f, NEW h, Family(h, S), \A x \in S : h[x] = f[g[x]],
         \A x, y \in S : g[x] = g[y] => x = y
  PROVE  Over(f, {g[x] : x \in S}) = Over(h, S)
<1>1. PICK I, key : I = {g[x] : x \in S} /\ key = [x \in S |-> g[x]]
  OBVIOUS
<1>2. DOMAIN key = S /\ I = {key[x] : x \in S}
  BY <1>1
<1>3. IsFiniteSet(I)
  BY <1>2, FiniteImage DEF Family
<1>4. ASSUME NEW i \in I PROVE Over(h, Fiber(S, key, i)) = f[i]
  <2>1. PICK x \in S : i = g[x]
    BY <1>1
  <2>2. Fiber(S, key, i) = {x}
    BY <1>1, <2>1 DEF Fiber
  <2>3. Family(h, {x}) /\ {x} \ {x} = {}
    BY SubFamily
  <2>4. Over(h, {x}) = h[x]
    BY <2>3, OverPoint
  <2> QED
    BY <2>1, <2>2, <2>4
<1>5. Over(Fibers(h, S, key, I), I) = Over(h, S)
  BY <1>1, <1>3, OverFibers
<1>6. PICK e : e = Fibers(h, S, key, I)
  OBVIOUS
<1>7. \A i \in I : e[i] = f[i]
  BY <1>4, <1>6 DEF Fibers
<1>8. Over(f, I) = Over(e, I)
  BY <1>7, OverSame
<1> QED
  BY <1>1, <1>5, <1>6, <1>8

(***************************************************************************)
(* What positions are worth on a day.                                      *)
(***************************************************************************)

LEMMA SelfDifference == ASSUME NEW b, IsRat(b) PROVE b \ominus b = Zero
<1>1. PICK m, d : m = b[1] /\ d = b[2]
  OBVIOUS
<1>2. m \in Int /\ d \in Int /\ d > 0 /\ Means(b, m, d)
  BY <1>1, MeansItself
<1>3. PICK x : x = b \ominus b
  OBVIOUS
<1>4. IsRat(x) /\ Means(x, m * d - m * d, d * d)
  BY <1>2, <1>3, DifferenceOf
<1>5. PICK p, q : p = x[1] /\ q = x[2]
  OBVIOUS
<1>6. p \in Int /\ q \in Int /\ d * d # 0 /\ m * d - m * d = 0
  BY <1>2, <1>4, <1>5, RatParts
<1>7. Means(x, 0, d * d)
  BY <1>4, <1>6
<1>8. p * (d * d) = 0 * q
  BY <1>5, <1>7 DEF Means
<1>9. p = 0
  BY <1>2, <1>6, <1>8
<1> QED
  BY <1>3, <1>4, <1>5, <1>9, NonZero

LEMMA SumGives ==
  ASSUME NEW a, NEW b, IsRat(a), IsRat(b) PROVE (a \oplus b) \ominus b = a
<1>1. PICK n : n = Negative(b)
  OBVIOUS
<1>2. IsRat(n) /\ \A x : x \ominus b = x \oplus n
  BY <1>1, MeansItself, NegativeOf DEF Negative, \ominus
<1>3. (a \oplus b) \oplus n = a \oplus (b \oplus n)
  BY <1>2, SumAssociates
<1>4. b \oplus n = Zero
  BY <1>2, SelfDifference
<1> QED
  BY <1>2, <1>3, <1>4, ZeroSum

\* The value of a position is its quantity times that of a unit.
LEMMA ValueIsLinear ==
  ASSUME NEW d, Valued(d), NEW i \in Instruments
  PROVE  \E u : IsRat(u) /\ \A q : IsRat(q) => MvBase(i, q, d) = q \otimes u
<1>1. PICK p, fx : p = Price(d)[i] /\ fx = FxToBase(d, Instr[i].ccy)
  OBVIOUS
<1>2. IsRat(p) /\ IsRat(fx)
  BY <1>1, PriceIsRat, FxToBaseIsRat, CurrencyKnown
<1>3. CASE i \in Bonds
  <2>1. PICK a, face : a = input.accruals[d][i] /\ face = Frac(Instr[i].face, 100)
    OBVIOUS
  <2>2. IsRat(a)
    BY <1>3, <2>1 DEF Valued, AccrualsTyped
  <2>3. IsRat(face)
    BY <2>1, FracMeans, InstrAssumption
  <2>4. PICK v : v = p \oplus a
    OBVIOUS
  <2>5. IsRat(v)
    BY <1>2, <2>2, <2>4, SumIsRat
  <2>6. PICK u : u = v \otimes (face \otimes fx)
    OBVIOUS
  <2>7. IsRat(u) /\ IsRat(face \otimes fx)
    BY <1>2, <2>3, <2>5, <2>6, ProductIsRat
  <2>8. ASSUME NEW q, IsRat(q) PROVE MvBase(i, q, d) = q \otimes u
    <3>1. MvBase(i, q, d) = ((q \otimes v) \otimes face) \otimes fx
      BY <1>1, <1>3, <2>1, <2>4 DEF MvBase, MvLocal
    <3>2. IsRat(q \otimes v)
      BY <2>5, <2>8, ProductIsRat
    <3>3. ((q \otimes v) \otimes face) \otimes fx = (q \otimes v) \otimes (face \otimes fx)
      BY <1>2, <2>3, <3>2, ProductAssociates
    <3>4. (q \otimes v) \otimes (face \otimes fx) = q \otimes (v \otimes (face \otimes fx))
      BY <2>5, <2>7, <2>8, ProductAssociates
    <3> QED
      BY <2>6, <3>1, <3>3, <3>4
  <2> QED
    BY <2>7, <2>8
<1>4. CASE i \notin Bonds
  <2>1. PICK u : u = p \otimes fx
    OBVIOUS
  <2>2. IsRat(u)
    BY <1>2, <2>1, ProductIsRat
  <2>3. ASSUME NEW q, IsRat(q) PROVE MvBase(i, q, d) = q \otimes u
    <3>1. MvBase(i, q, d) = (q \otimes p) \otimes fx
      BY <1>1, <1>4 DEF MvBase, MvLocal
    <3> QED
      BY <1>2, <2>1, <2>3, <3>1, ProductAssociates
  <2> QED
    BY <2>2, <2>3
<1> QED
  BY <1>3, <1>4

Position(holdings, i) == IF i \in DOMAIN holdings THEN holdings[i] ELSE Zero
ValuesOf(holdings, d) == [i \in Instruments |-> MvBase(i, Position(holdings, i), d)]

LEMMA ValuesOfPositions ==
  ASSUME NEW d, Valued(d), NEW holdings, PositionsTyped(holdings)
  PROVE  /\ Family(ValuesOf(holdings, d), Instruments)
         /\ \A i \in Instruments :
              /\ IsRat(Position(holdings, i))
              /\ Position(holdings, i) = Zero => ValuesOf(holdings, d)[i] = Zero
<1>1. ASSUME NEW i \in Instruments
      PROVE  /\ IsRat(Position(holdings, i)) /\ IsRat(ValuesOf(holdings, d)[i])
             /\ Position(holdings, i) = Zero => ValuesOf(holdings, d)[i] = Zero
  <2>1. PICK q : q = Position(holdings, i)
    OBVIOUS
  <2>2. IsRat(q)
    BY <2>1, ZeroOne DEF Position, PositionsTyped
  <2>3. PICK u : IsRat(u) /\ \A x : IsRat(x) => MvBase(i, x, d) = x \otimes u
    BY ValueIsLinear
  <2>4. ValuesOf(holdings, d)[i] = q \otimes u
    BY <2>1, <2>2, <2>3 DEF ValuesOf
  <2> QED
    BY <2>1, <2>2, <2>3, <2>4, ProductIsRat, ZeroProduct
<1>2. IsFiniteSet(Instruments)
  BY InstrAssumption
<1> QED
  BY <1>1, <1>2 DEF Family

\* The rows that are kept of positions: those not closed.
Open(holdings) == {i \in DOMAIN holdings : holdings[i] # Zero}
Kept(rows, holdings) ==
  DOMAIN rows = Open(holdings) /\ \A i \in Open(holdings) : rows[i].qty = holdings[i]

LEMMA RowsKept ==
  ASSUME NEW d, Valued(d), NEW holdings, PositionsTyped(holdings)
  PROVE  Kept(HoldingRows(holdings, d), holdings)
<1>1. \A i \in DOMAIN holdings : i \in DOMAIN Price(d)
  BY PriceIsRat DEF PositionsTyped
<1> QED
  BY <1>1 DEF Kept, Open, HoldingRows

\* The positions without the closed ones are worth the same.
LEMMA OpenValue ==
  ASSUME NEW d, Valued(d), NEW holdings, PositionsTyped(holdings),
         NEW f, \A i \in Open(holdings) : f[i] = MvBase(i, holdings[i], d)
  PROVE  Over(f, Open(holdings)) = Over(ValuesOf(holdings, d), Instruments)
<1>1. PICK S, v : S = Open(holdings) /\ v = ValuesOf(holdings, d)
  OBVIOUS
<1>2. S \subseteq Instruments
  BY <1>1 DEF Open, PositionsTyped
<1>3. \A i \in S : f[i] = v[i]
  BY <1>1, <1>2 DEF ValuesOf, Position, Open
<1>4. \A i \in Instruments \ S : v[i] = Zero
  BY <1>1, ValuesOfPositions DEF Open, Position
<1>5. Family(v, Instruments)
  BY <1>1, ValuesOfPositions
<1>6. Over(v, Instruments) = Over(v, S)
  BY <1>2, <1>4, <1>5, OverExtends
<1> QED
  BY <1>1, <1>3, <1>6, OverSame

LEMMA RowsValue ==
  ASSUME NEW d, Valued(d), NEW holdings, PositionsTyped(holdings)
  PROVE  MvBaseTotal(HoldingRows(holdings, d)) = Over(ValuesOf(holdings, d), Instruments)
<1>1. PICK rows, f : rows = HoldingRows(holdings, d) /\ f = [i \in DOMAIN rows |-> rows[i].mv_base]
  OBVIOUS
<1>2. DOMAIN rows = Open(holdings)
  BY <1>1, RowsKept DEF Kept
<1>3. \A i \in Open(holdings) : f[i] = MvBase(i, holdings[i], d)
  BY <1>1, <1>2 DEF HoldingRows
<1>4. f = [i \in Open(holdings) |-> f[i]]
  BY <1>1, <1>2
<1>5. Total(f) = Over(f, Open(holdings))
  BY <1>4, TotalIsOver
<1> QED
  BY <1>1, <1>3, <1>5, OpenValue DEF MvBaseTotal

\* What is bought and sold on a day is paid for with cash.
LEMMA TradesAreNeutral ==
  ASSUME NEW d, Valued(d), PositionsTyped(walk.holdings)
  PROVE  \E tv : /\ IsRat(tv) /\ TradeCash(d) = Zero \ominus tv
                 /\ Over(ValuesOf(AfterTrades(d), d), Instruments) =
                      Over(ValuesOf(walk.holdings, d), Instruments) \oplus tv
<1>1. PICK T, H, N : T = TradesToday(d) /\ H = walk.holdings /\ N = AfterTrades(d)
  OBVIOUS
<1>2. PICK val, key : /\ val = [t \in T |-> MvBase(t.instr, SignedQty(t), d)]
                      /\ key = [t \in T |-> t.instr]
  OBVIOUS
<1>3. \A t \in T : t.instr \in Instruments /\ IsRat(SignedQty(t)) /\ key[t] = t.instr
  BY <1>1, <1>2, TradesTodayKnown, SignedQtyIsRat
<1>4. Family(val, T)
  <2>1. \A t \in T : IsRat(val[t])
    BY <1>2, <1>3, MvBaseIsRat
  <2> QED
    BY <1>1, <2>1, TradesTodayKnown DEF Family
<1>5. IsFiniteSet(Instruments)
  BY InstrAssumption
<1>6. PICK g : g = Fibers(val, T, key, Instruments)
  OBVIOUS
<1>7. Over(g, Instruments) = Over(val, T) /\ Family(g, Instruments)
  BY <1>3, <1>4, <1>5, <1>6, OverFibers
<1>8. PositionsTyped(N)
  BY <1>1, AfterTradesTyped
<1>9. PICK h, n : h = ValuesOf(H, d) /\ n = ValuesOf(N, d)
  OBVIOUS
<1>10. Family(h, Instruments)
  BY <1>1, <1>9, ValuesOfPositions
<1>11. ASSUME NEW i \in Instruments PROVE n[i] = h[i] \oplus g[i]
  <2>1. PICK S : S = Fiber(T, key, i)
    OBVIOUS
  <2>2. S = {t \in T : t.instr = i}
    BY <1>2, <2>1 DEF Fiber
  <2>3. PICK f : f = [t \in S |-> SignedQty(t)]
    OBVIOUS
  <2>4. Family(f, S) /\ S \in SUBSET T
    <3>1. S \in SUBSET T /\ IsFiniteSet(S)
      BY <1>4, <2>2, FS_Subset DEF Family
    <3> QED
      BY <1>3, <2>3, <3>1 DEF Family
  <2>5. PICK Q, q : Q = Total(f) /\ q = Position(H, i)
    OBVIOUS
  <2>6. IsRat(Q) /\ IsRat(q)
    BY <1>1, <2>3, <2>4, <2>5, TotalIsRat, ValuesOfPositions
  <2>7. Position(N, i) = q \oplus Q
    <3>1. CASE i \in DOMAIN N
      <4>1. N[i] = (IF i \in DOMAIN H THEN H[i] ELSE Zero)
                     \oplus Total([t \in {t \in T : t.instr = i} |-> SignedQty(t)])
        BY <1>1, <3>1 DEF AfterTrades
      <4>2. N[i] = q \oplus Q
        BY <2>2, <2>3, <2>5, <4>1 DEF Position
      <4> QED
        BY <3>1, <4>2 DEF Position
    <3>2. CASE i \notin DOMAIN N
      <4>1. i \notin DOMAIN H /\ S = {}
        BY <1>1, <2>2, <3>2 DEF AfterTrades
      <4>2. Q = Zero
        <5>1. f = [t \in S |-> f[t]]
          BY <2>3
        <5> QED
          BY <2>5, <4>1, <5>1, TotalIsOver, OverEmpty
      <4> QED
        BY <2>5, <3>2, <4>1, <4>2, ZeroOne, ZeroSum DEF Position
    <3> QED
      BY <3>1, <3>2
  <2>8. PICK u : IsRat(u) /\ \A x : IsRat(x) => MvBase(i, x, d) = x \otimes u
    BY ValueIsLinear
  <2>9. n[i] = (q \oplus Q) \otimes u /\ h[i] = q \otimes u
    BY <1>9, <2>5, <2>6, <2>7, <2>8, SumIsRat DEF ValuesOf
  <2>10. (q \oplus Q) \otimes u = (q \otimes u) \oplus (u \otimes Q)
    <3>1. u \otimes (q \oplus Q) = (u \otimes q) \oplus (u \otimes Q)
      BY <2>6, <2>8, Distributes
    <3> QED
      BY <2>6, <2>8, <3>1, SumIsRat, ProductCommutes
  <2>11. g[i] = u \otimes Q
    <3>1. g[i] = Over(val, S)
      BY <1>6, <2>1 DEF Fibers
    <3>2. \A t \in S : val[t] = u \otimes f[t]
      <4> SUFFICES ASSUME NEW t \in S PROVE val[t] = u \otimes f[t]
        OBVIOUS
      <4>1. PICK s : s = SignedQty(t)
        OBVIOUS
      <4>2. t \in T /\ t.instr = i /\ IsRat(s) /\ f[t] = s
        BY <1>3, <2>2, <2>3, <4>1
      <4>3. val[t] = MvBase(i, s, d)
        BY <1>2, <4>1, <4>2
      <4> QED
        BY <2>8, <4>2, <4>3, ProductCommutes
    <3>3. Over(val, S) = u \otimes Over(f, S)
      BY <2>4, <2>8, <3>2, OverScales
    <3>4. Over(f, S) = Q
      <4>1. f = [t \in S |-> f[t]]
        BY <2>3
      <4> QED
        BY <2>5, <4>1, TotalIsOver
    <3> QED
      BY <3>1, <3>3, <3>4
  <2> QED
    BY <2>9, <2>10, <2>11
<1>12. Over(n, Instruments) = Over(h, Instruments) \oplus Over(g, Instruments)
  BY <1>7, <1>10, <1>11, OverAdds
<1>13. PICK tv : tv = Over(val, T)
  OBVIOUS
<1>14. IsRat(tv) /\ TradeCash(d) = Zero \ominus tv
  <2>1. val = [t \in T |-> val[t]]
    BY <1>2
  <2>2. Total(val) = tv
    BY <1>13, <2>1, TotalIsOver
  <2> QED
    BY <1>1, <1>2, <1>4, <1>13, <2>2, OverIsRat DEF TradeCash
<1> QED
  BY <1>1, <1>7, <1>9, <1>12, <1>13, <1>14

(***************************************************************************)
(* What explains the assets of a day.                                      *)
(***************************************************************************)

DayFlows(d) == {e \in input.capstock : e.day = d}

\* Every order of the day is booked to a class of the fund.
LEMMA FlowsAddUp ==
  ASSUME NEW d, Valued(d), NEW flow,
         flow = [c \in DOMAIN fund.classes |->
                   Total([e \in FlowsToday(c, d) |-> SignedGross(e)])]
  PROVE  /\ Total(flow) = Total([e \in DayFlows(d) |-> SignedGross(e)])
         /\ Family(flow, DOMAIN fund.classes)
<1>1. PICK C, T : C = DOMAIN fund.classes /\ T = DayFlows(d)
  OBVIOUS
<1>2. PICK f, key : f = [e \in T |-> SignedGross(e)] /\ key = [e \in T |-> e.class]
  OBVIOUS
<1>3. IsFiniteSet(C) /\ IsFiniteSet(T) /\ \A e \in T : FlowTyped(e)
  BY <1>1, FundsAssumption, FS_Subset DEF Valued, FlowsTyped, DayFlows
<1>4. Family(f, T)
  <2>1. \A e \in T : IsRat(f[e])
    BY <1>2, <1>3, NegatedIsRat DEF SignedGross, FlowTyped
  <2> QED
    BY <1>3, <2>1 DEF Family
<1>5. \A e \in T : key[e] \in C
  BY <1>1, <1>2, <1>3 DEF FlowTyped
<1>6. PICK g : g = Fibers(f, T, key, C)
  OBVIOUS
<1>7. Over(g, C) = Over(f, T) /\ Family(g, C)
  BY <1>3, <1>4, <1>5, <1>6, OverFibers
<1>8. ASSUME NEW c \in C PROVE flow[c] = g[c]
  <2>1. PICK S : S = FlowsToday(c, d)
    OBVIOUS
  <2>2. Fiber(T, key, c) = S
    BY <1>1, <1>2, <2>1 DEF Fiber, DayFlows, FlowsToday
  <2>3. g[c] = Over(f, S)
    BY <1>6, <2>2 DEF Fibers
  <2>4. \A e \in S : f[e] = SignedGross(e)
    BY <1>1, <1>2, <2>1 DEF DayFlows, FlowsToday
  <2>5. [e \in S |-> f[e]] = [e \in S |-> SignedGross(e)]
    BY <2>4
  <2>6. flow[c] = Total([e \in S |-> SignedGross(e)])
    BY <1>1, <2>1
  <2> QED
    BY <2>3, <2>5, <2>6 DEF Over
<1>9. flow = [c \in C |-> flow[c]] /\ f = [e \in T |-> f[e]]
  BY <1>1, <1>2
<1>10. Total(flow) = Over(flow, C) /\ Total(f) = Over(f, T)
  BY <1>9, TotalIsOver
<1>11. Over(flow, C) = Over(g, C)
  BY <1>8, OverSame
<1>12. Family(flow, C)
  BY <1>7, <1>8 DEF Family
<1> QED
  BY <1>1, <1>2, <1>7, <1>10, <1>11, <1>12

\* The cash of the classes: their flows, less their fees.
LEMMA ClassCash ==
  ASSUME NEW d, Valued(d), WalkTyped, Subscribed
  PROVE  \E fees : /\ IsRat(fees)
                   /\ fees = Total([c \in DOMAIN fund.classes |->
                                      DayFees(d)[c].mgmt \oplus DayFees(d)[c].delta])
                   /\ IsRat(Total([e \in DayFlows(d) |-> SignedGross(e)]))
                   /\ Total([c \in DOMAIN fund.classes |-> DayOut(c, d)]) =
                        Total([e \in DayFlows(d) |-> SignedGross(e)]) \ominus fees
<1>1. PICK C : C = DOMAIN fund.classes
  OBVIOUS
<1>2. PICK out, fee, flow : /\ out = [c \in C |-> DayOut(c, d)]
                            /\ fee = [c \in C |-> DayFees(d)[c].mgmt \oplus DayFees(d)[c].delta]
                            /\ flow = [c \in C |-> Total([e \in FlowsToday(c, d) |-> SignedGross(e)])]
  OBVIOUS
<1>3. IsFiniteSet(C)
  BY <1>1, FundsAssumption DEF Valued
<1>4. ASSUME NEW c \in C
      PROVE  IsRat(out[c]) /\ IsRat(fee[c]) /\ flow[c] = out[c] \oplus fee[c]
  <2>1. PICK x : x = DayOf(c, d)
    OBVIOUS
  <2>2. PICK m, f, dl : m = x.mgmt /\ f = x.flow /\ dl = x.delta
    OBVIOUS
  <2>3. IsRat(m) /\ IsRat(f) /\ IsRat(dl)
    BY <1>1, <2>1, <2>2, DayIsTyped DEF ClassDayTyped
  <2>4. out[c] = f \ominus m \ominus dl
    BY <1>2, <2>1, <2>2 DEF DayOut
  <2>5. fee[c] = m \oplus dl
    BY <1>1, <1>2, <2>1, <2>2 DEF DayFees, FeeRow
  <2>6. flow[c] = f
    <3>1. x.flow = Total([e \in FlowsToday(c, d) |-> SignedGross(e)])
      BY <2>1 DEF DayOf, ClassDay
    <3> QED
      BY <1>2, <2>2, <3>1
  <2>7. PICK a, b : a = f \ominus m /\ b = a \ominus dl
    OBVIOUS
  <2>8. IsRat(a) /\ IsRat(b) /\ IsRat(m \oplus dl)
    BY <2>3, <2>7, DifferenceIsRat, SumIsRat
  <2>9. b \oplus (m \oplus dl) = f
    <3>1. b \oplus dl = a /\ a \oplus m = f
      BY <2>3, <2>7, <2>8, DifferenceCancels
    <3>2. (b \oplus dl) \oplus m = b \oplus (dl \oplus m)
      BY <2>3, <2>8, SumAssociates
    <3> QED
      BY <2>3, <3>1, <3>2, SumCommutes
  <2> QED
    BY <2>4, <2>5, <2>6, <2>7, <2>8, <2>9
<1>5. Family(out, C) /\ Family(fee, C)
  BY <1>3, <1>4 DEF Family
<1>6. out = [c \in C |-> out[c]] /\ fee = [c \in C |-> fee[c]]
  BY <1>2
<1>7. flow = [c \in C |-> out[c] \oplus fee[c]]
  BY <1>2, <1>4
<1>8. PICK o, k, l : o = Total(out) /\ k = Total(fee) /\ l = Total(flow)
  OBVIOUS
<1>9. IsRat(o) /\ IsRat(k) /\ l = o \oplus k
  BY <1>5, <1>6, <1>7, <1>8, TotalAdds, TotalIsRat
<1>10. o = l \ominus k /\ IsRat(l)
  BY <1>9, SumGives, SumIsRat
<1>11. l = Total([e \in DayFlows(d) |-> SignedGross(e)])
  BY <1>1, <1>2, <1>8, FlowsAddUp
<1> QED
  BY <1>1, <1>2, <1>8, <1>9, <1>10, <1>11

LEMMA ExplanationRegroups ==
  ASSUME NEW own, NEW tv, NEW tc, NEW k, NEW rc, NEW out,
         IsRat(own), IsRat(tv), IsRat(k), IsRat(rc), IsRat(out), tc = Zero \ominus tv
  PROVE  (own \oplus tv) \oplus (k \oplus tc \oplus rc \oplus out) = own \oplus k \oplus rc \oplus out
<1>1. IsRat(tc) /\ tv \oplus tc = Zero
  BY ZeroOne, DifferenceIsRat, DifferenceCancels, SumCommutes
<1>2. PICK y, w : y = k \oplus tc /\ w = own \oplus tv
  OBVIOUS
<1>3. IsRat(y) /\ IsRat(w) /\ IsRat(y \oplus rc) /\ IsRat(w \oplus y) /\ IsRat(own \oplus k)
  BY <1>1, <1>2, SumIsRat
<1>4. w \oplus y = own \oplus k
  <2>1. w \oplus y = (own \oplus k) \oplus (tv \oplus tc)
    BY <1>1, <1>2, Exchange
  <2> QED
    BY <1>1, <1>3, <2>1, ZeroSum
<1>5. w \oplus ((y \oplus rc) \oplus out) = (w \oplus (y \oplus rc)) \oplus out
  BY <1>3, SumAssociates
<1>6. w \oplus (y \oplus rc) = (w \oplus y) \oplus rc
  BY <1>3, SumAssociates
<1> QED
  BY <1>2, <1>4, <1>5, <1>6

Explained(b, d) ==
  LET own == {i \in DOMAIN b.holdings[d - 1] : i \in DOMAIN Price(d)}
  IN  MvBaseTotal(b.holdings[d]) \oplus b.cash[d] =
        Total([i \in own |-> MvBase(i, b.holdings[d - 1][i].qty, d)])
          \oplus b.cash[d - 1]
          \oplus Total([x \in {x \in b.receipts : x.day = d} |->
                         x.net \otimes FxToBase(d, Instr[x.instr].ccy)])
          \oplus Total([e \in {e \in input.capstock : e.day = d} |-> SignedGross(e)])
          \ominus Total([c \in DOMAIN fund.classes |-> b.fees[d][c].mgmt \oplus b.fees[d][c].delta])

LEMMA StruckIsExplained ==
  ASSUME NEW d, Valued(d), WalkTyped, Subscribed, NEW b,
         b.holdings[d] = DayRows(d), b.cash[d] = DayCashOut(d), b.fees[d] = DayFees(d),
         {x \in b.receipts : x.day = d} = DayReceipts(d),
         b.cash[d - 1] = walk.cash, Kept(b.holdings[d - 1], walk.holdings)
  PROVE  Explained(b, d)
<1>1. PositionsTyped(walk.holdings)
  BY DEF WalkTyped, PositionsTyped
<1>2. PICK tv : /\ IsRat(tv) /\ TradeCash(d) = Zero \ominus tv
                /\ Over(ValuesOf(AfterTrades(d), d), Instruments) =
                     Over(ValuesOf(walk.holdings, d), Instruments) \oplus tv
  BY <1>1, TradesAreNeutral
<1>3. PICK own, mv : /\ own = Over(ValuesOf(walk.holdings, d), Instruments)
                     /\ mv = MvBaseTotal(DayRows(d))
  OBVIOUS
<1>4. mv = own \oplus tv /\ IsRat(own)
  <2>1. PositionsTyped(AfterTrades(d))
    BY <1>1, AfterTradesTyped
  <2>2. mv = Over(ValuesOf(AfterTrades(d), d), Instruments)
    BY <1>3, <2>1, RowsValue DEF DayRows
  <2>3. IsRat(own)
    BY <1>1, <1>3, ValuesOfPositions, OverIsRat
  <2> QED
    BY <1>2, <1>3, <2>2, <2>3
<1>5. PICK f, S : /\ S = {i \in DOMAIN b.holdings[d - 1] : i \in DOMAIN Price(d)}
                  /\ f = [i \in S |-> MvBase(i, b.holdings[d - 1][i].qty, d)]
  OBVIOUS
<1>6. Total(f) = own
  <2>1. S = Open(walk.holdings)
    BY <1>1, <1>5, PriceIsRat DEF Kept, Open, PositionsTyped
  <2>2. \A i \in S : f[i] = MvBase(i, walk.holdings[i], d)
    BY <1>5, <2>1 DEF Kept
  <2>3. f = [i \in S |-> f[i]]
    BY <1>5
  <2>4. Total(f) = Over(f, S)
    BY <2>3, TotalIsOver
  <2> QED
    BY <1>1, <1>3, <2>1, <2>2, <2>4, OpenValue
<1>7. PICK fees : /\ IsRat(fees)
                  /\ fees = Total([c \in DOMAIN fund.classes |->
                                     DayFees(d)[c].mgmt \oplus DayFees(d)[c].delta])
                  /\ IsRat(Total([e \in DayFlows(d) |-> SignedGross(e)]))
                  /\ Total([c \in DOMAIN fund.classes |-> DayOut(c, d)]) =
                       Total([e \in DayFlows(d) |-> SignedGross(e)]) \ominus fees
  BY ClassCash
<1>8. PICK k, tc, rc, l : /\ k = walk.cash /\ tc = TradeCash(d)
                          /\ rc = ReceiptCash(DayReceipts(d), d)
                          /\ l = Total([e \in DayFlows(d) |-> SignedGross(e)])
  OBVIOUS
<1>9. IsRat(k) /\ IsRat(rc) /\ IsRat(l) /\ IsRat(l \ominus fees) /\ tc = Zero \ominus tv
  <2>1. IsRat(rc)
    BY <1>1, <1>8, AfterTradesTyped, ReceiptsTyped, ReceiptCashIsRat DEF DayReceipts
  <2> QED
    BY <1>2, <1>7, <1>8, <2>1, DifferenceIsRat DEF WalkTyped
<1>10. DayCashOut(d) = k \oplus tc \oplus rc \oplus (l \ominus fees)
  BY <1>7, <1>8 DEF DayCashOut, DayCash
<1>11. mv \oplus DayCashOut(d) = own \oplus k \oplus rc \oplus (l \ominus fees)
  BY <1>2, <1>4, <1>9, <1>10, ExplanationRegroups
<1>12. rc = Total([x \in {x \in b.receipts : x.day = d} |->
                     x.net \otimes FxToBase(d, Instr[x.instr].ccy)])
  BY <1>8 DEF ReceiptCash
<1>13. l = Total([e \in {e \in input.capstock : e.day = d} |-> SignedGross(e)])
  BY <1>8 DEF DayFlows
<1>14. fees = Total([c \in DOMAIN fund.classes |-> b.fees[d][c].mgmt \oplus b.fees[d][c].delta])
  BY <1>7
<1>15. Total([i \in S |-> MvBase(i, b.holdings[d - 1][i].qty, d)]) = own
  BY <1>5, <1>6
<1> QED
  BY <1>3, <1>5, <1>8, <1>11, <1>12, <1>13, <1>14, <1>15, Zenon DEF Explained

\* What explains a day is in its rows, in those of the day before, and in the inputs.
LEMMA ExplainedKept ==
  ASSUME NEW b, NEW d, Explained(b, d), NEW new,
         new.holdings[d] = b.holdings[d], new.cash[d] = b.cash[d], new.fees[d] = b.fees[d],
         new.holdings[d - 1] = b.holdings[d - 1], new.cash[d - 1] = b.cash[d - 1],
         {x \in new.receipts : x.day = d} = {x \in b.receipts : x.day = d}
  PROVE  Explained(new, d)
  BY DEF Explained

LEMMA ExplainedPrimed ==
  ASSUME NEW b, NEW d, Explained(b, d), input' = input, fund' = fund PROVE Explained(b, d)'
  BY DEF Explained, Price, MvBase, MvLocal, FxToBase

LEMMA ReceiptsOfTheDay ==
  ASSUME NEW holdings, NEW d, NEW x \in Receipts(holdings, d) PROVE x.day = d
  BY DEF Receipts

(* The state of the walk follows its rows: cash and positions are those of  *)
(* the last day, and each day is explained by the one before.               *)
Following ==
  /\ phase \in Early \ {"walk"} => walk.day = 1
  /\ \A x \in walk.rows.receipts : x.day \in 1 .. walk.day - 1
  /\ walk.day > 1 => /\ walk.rows.cash[walk.day - 1] = walk.cash
                     /\ Kept(walk.rows.holdings[walk.day - 1], walk.holdings)
  /\ phase = "walk" => \A d \in DOMAIN walk.rows.nav \ {1} : Explained(walk.rows, d)

LEMMA WalkDayFollows == ASSUME Typed, Solvent, Solvent', Following, WalkDay PROVE Following'
<1>1. /\ phase = "walk" /\ walk.day \in Days /\ fund' = fund /\ FxTyped(input.fx)
      /\ phase' = "walk" /\ input' = input
  BY DEF WalkDay, Typed, InputTyped
<1>2. PICK d, w, b, new : d = walk.day /\ w = StepOneDay(d) /\ b = walk.rows /\ new = w.rows
  OBVIOUS
<1>3. walk' = w
  BY <1>1, <1>2 DEF WalkDay, FxTyped
<1>4. Valued(d)
  BY <1>1, <1>2, WindowValued
<1>5. /\ WalkTyped /\ TablesTyped(b) /\ DOMAIN b.nav = 1 .. d - 1 /\ d \notin DOMAIN b.nav
      /\ d \in Nat /\ d > 0
  BY <1>1, <1>2 DEF Typed, WalkTyped, Days
<1>6. Subscribed
  BY DEF Solvent, Subscribed
<1>7. /\ Grown(new, b, d)
      /\ new.holdings[d] = DayRows(d) /\ new.cash[d] = DayCashOut(d) /\ new.fees[d] = DayFees(d)
  BY <1>2, <1>5, StepGrows
<1>8. /\ w.day = d + 1 /\ w.holdings = AfterTrades(d) /\ w.cash = DayCashOut(d)
      /\ new.receipts = b.receipts \cup DayReceipts(d)
  BY <1>2, StepUnfolds
<1>9. /\ \A x \in b.receipts : x.day \in 1 .. d - 1
      /\ \A x \in DayReceipts(d) : x.day = d
  BY <1>2, ReceiptsOfTheDay DEF Following, DayReceipts
<1>10. PositionsTyped(walk.holdings)
  BY <1>5 DEF WalkTyped, PositionsTyped
<1>11. Kept(DayRows(d), AfterTrades(d))
  BY <1>4, <1>10, AfterTradesTyped, RowsKept DEF DayRows
<1>12. ASSUME NEW x \in DOMAIN b.nav
       PROVE  /\ new.holdings[x] = b.holdings[x] /\ new.cash[x] = b.cash[x]
              /\ new.fees[x] = b.fees[x]
  BY <1>7 DEF Grown, Added
<1>13. ASSUME d # 1 PROVE Explained(new, d)
  <2>1. d - 1 \in DOMAIN b.nav /\ walk.day > 1
    BY <1>2, <1>5, <1>13
  <2>2. new.cash[d - 1] = walk.cash /\ Kept(new.holdings[d - 1], walk.holdings)
    BY <1>2, <1>12, <2>1 DEF Following
  <2>3. {x \in new.receipts : x.day = d} = DayReceipts(d)
    BY <1>5, <1>8, <1>9
  <2> QED
    BY <1>4, <1>5, <1>6, <1>7, <2>2, <2>3, StruckIsExplained
<1>14. ASSUME NEW x \in DOMAIN b.nav, x # 1 PROVE Explained(new, x)
  <2>1. x - 1 \in DOMAIN b.nav /\ x # d
    BY <1>5, <1>14
  <2>2. Explained(b, x)
    BY <1>1, <1>2, <1>14 DEF Following
  <2>3. {y \in new.receipts : y.day = x} = {y \in b.receipts : y.day = x}
    BY <1>8, <1>9, <2>1
  <2> QED
    BY <1>12, <2>1, <2>2, <2>3, ExplainedKept
<1>15. DOMAIN new.nav = DOMAIN b.nav \cup {d}
  BY <1>7 DEF Grown, Added
<1>16. \A x \in DOMAIN new.nav \ {1} : Explained(new, x)
  BY <1>13, <1>14, <1>15
<1>17. \A x \in DOMAIN walk'.rows.nav \ {1} : Explained(walk.rows, x)'
  <2>1. walk'.rows = new
    BY <1>2, <1>3
  <2>2. \A x \in DOMAIN new.nav \ {1} : Explained(new, x)'
    BY <1>1, <1>16, ExplainedPrimed
  <2> QED
    BY <2>1, <2>2 DEF Explained
<1>18. \A x \in walk'.rows.receipts : x.day \in 1 .. walk'.day - 1
  BY <1>2, <1>3, <1>5, <1>8, <1>9
<1>19. walk'.day > 1 => /\ walk'.rows.cash[walk'.day - 1] = walk'.cash
                        /\ Kept(walk'.rows.holdings[walk'.day - 1], walk'.holdings)
  <2>1. walk'.day - 1 = d
    BY <1>3, <1>5, <1>8
  <2> QED
    BY <1>2, <1>3, <1>7, <1>8, <1>11, <2>1
<1> QED
  BY <1>1, <1>17, <1>18, <1>19 DEF Following, Early

LEMMA InitFollows == Init => Following
<1> SUFFICES ASSUME Init PROVE Following
  OBVIOUS
<1>1. walk.day = 1 /\ walk.rows = NoBooks /\ phase = "fx"
  BY DEF Init, InitFundState
<1> QED
  BY <1>1 DEF Following, NoBooks

LEMMA NextFollows == Typed /\ Solvent /\ Solvent' /\ Following /\ [Next]_vars => Following'
<1> SUFFICES ASSUME Typed, Solvent, Solvent', Following, [Next]_vars PROVE Following'
  OBVIOUS
<1>1. CASE WalkDay
  BY <1>1, WalkDayFollows
<1>2. CASE UNCHANGED vars
  <2>1. phase = "walk" => \A d \in DOMAIN walk.rows.nav \ {1} : Explained(walk.rows, d)'
    BY <1>2, ExplainedPrimed DEF Following, vars
  <2> QED
    BY <1>2, <2>1 DEF Following, vars, Explained
<1>3. CASE Generate \/ PreWalk \/ BulkWrite \/ PostWalk \/ Elsewhere \/ UpdateCatalog
  <2>1. /\ UNCHANGED walk /\ phase' # "walk"
        /\ phase' \in Early => phase \in Early \ {"walk"}
    <3>1. CASE Generate
      BY <3>1 DEF Generate, WriteFx, WriteEquityPrices, WriteBonds, WriteCorporateActions,
                  WriteTrades, WriteCapstock, Advance, Early
    <3>2. CASE PreWalk
      BY <3>2 DEF PreWalk, Defect1, Defect3, Defect4, Defect7, Due, DueHere, Early
    <3>3. CASE PostWalk
      BY <3>3, Zenon DEF PostWalk, Defect2, Defect5, Defect6, Defect8, Defect9, Defect10, Due,
                         DueHere, Early
    <3>4. CASE BulkWrite \/ UpdateCatalog
      BY <3>4 DEF BulkWrite, UpdateCatalog, Advance, Early
    <3>5. CASE Elsewhere
      BY <3>5, ElsewhereKeeps DEF Early
    <3> QED
      BY <1>3, <3>1, <3>2, <3>3, <3>4, <3>5
  <2> QED
    BY <2>1 DEF Following
<1>4. CASE PassOver \/ EndInjection \/ Built
  <2>1. /\ UNCHANGED << walk, input, fund >>
        /\ phase' \in Early \ {"walk"} => phase \in Early \ {"walk"}
        /\ phase' = "walk" => phase = "prewalk" \/ phase = "walk"
    BY <1>4 DEF PassOver, EndInjection, Built, vars, Advance, Early
  <2>2. ASSUME phase' = "walk", NEW d \in DOMAIN walk.rows.nav \ {1}
        PROVE  Explained(walk.rows, d)'
    <3>1. CASE phase = "walk"
      <4>1. PICK b : b = walk.rows
        OBVIOUS
      <4>2. Explained(b, d)'
        BY <2>1, <2>2, <3>1, <4>1, ExplainedPrimed DEF Following
      <4> QED
        BY <2>1, <4>1, <4>2 DEF Explained
    <3>2. CASE phase = "prewalk"
      <4>1. walk.day = 1
        BY <3>2 DEF Following, Early
      <4>2. DOMAIN walk.rows.nav = {}
        BY <4>1 DEF Typed, WalkTyped
      <4> QED
        BY <2>2, <4>2
    <3> QED
      BY <2>1, <2>2, <3>1, <3>2
  <2> QED
    BY <2>1, <2>2 DEF Following
<1> QED
  BY <1>1, <1>2, <1>3, <1>4 DEF Next

\* As long as the fund goes on, and whatever is traded, paid and subscribed, the
\* assets of each day of the walk are those of the day before at the day's prices
\* and rates, with the dividends and flows of the day, less its fees: the walk
\* (walk.py:156-336) trades at value and pays no dividend twice.
THEOREM AssetsAlwaysExplained == Spec /\ []Solvent => []AssetsExplained
<1>1. Init => Following
  BY InitFollows
<1>2. Following => AssetsExplained
  BY DEF Following, AssetsExplained, Explained, Rows, Struck
<1>3. Spec /\ []Solvent => []Typed
  BY InitTyped, NextTyped, PTL DEF Spec
<1> QED
  BY <1>1, <1>2, <1>3, NextFollows, PTL DEF Spec

(***************************************************************************)
(* Orders and shares.                                                      *)
(***************************************************************************)

\* An order as the generator books it: its shares are still to be filled in.
Booked(e) ==
  e = [id |-> e.id, class |-> e.class, day |-> e.day, received |-> e.received,
       type |-> e.type, gross |-> e.gross, delta |-> Zero]

\* The shares that the orders of a day come to at the prices of a row, and
\* those that the orders say.
Brought(c, d, row) == Total([e \in FlowsToday(c, d) |-> SharesDelta(e, row.nav, row.prior)])
Credited(c, d)     == Total([e \in FlowsToday(c, d) |-> e.delta])

RowsRoll(b, d) ==
  \A c \in DOMAIN fund.classes :
    b.nav[d][c].shares = b.nav[d - 1][c].shares \oplus Brought(c, d, b.nav[d][c])
Late8 == {"subscription_pre_cutoff"}
TableRolls(b, d) ==
  \A c \in DOMAIN fund.classes :
    \/ b.nav[d][c].shares = b.nav[d - 1][c].shares \oplus Credited(c, d)
    \/ \E x \in {d, d - 1} : Marred(Late8, x)

(* Until the bulk insert the orders are as they were booked, and the rows    *)
(* roll by what they come to; the walk goes on with the shares of its last   *)
(* rows.  Then the tables roll by what the orders say.                       *)
Rolling ==
  /\ phase \in Early => \A e \in input.capstock : Booked(e)
  /\ phase \in Early \ {"walk"} => walk.day = 1
  /\ walk.day > 1 =>
       \A c \in DOMAIN fund.classes :
         walk.classes[c].shares = walk.rows.nav[walk.day - 1][c].shares
  /\ phase = "walk" => \A d \in DOMAIN walk.rows.nav \ {1} : RowsRoll(walk.rows, d)
  /\ phase \in Late => \A d \in DOMAIN books.nav \ {1} : TableRolls(books, d)

LEMMA WalkDayRolls == ASSUME Typed, Rolling, WalkDay PROVE Rolling'
<1>1. /\ phase = "walk" /\ walk.day \in Days /\ fund' = fund /\ FxTyped(input.fx)
      /\ phase' = "walk" /\ input' = input
  BY DEF WalkDay, Typed, InputTyped
<1>2. PICK d, w, b, new : d = walk.day /\ w = StepOneDay(d) /\ b = walk.rows /\ new = w.rows
  OBVIOUS
<1>3. walk' = w
  BY <1>1, <1>2 DEF WalkDay, FxTyped
<1>4. /\ WalkTyped /\ TablesTyped(b) /\ DOMAIN b.nav = 1 .. d - 1 /\ d \notin DOMAIN b.nav
      /\ d \in Nat /\ d > 0
  BY <1>1, <1>2 DEF Typed, WalkTyped, Days
<1>5. Grown(new, b, d) /\ new.nav[d] = DayNav(d)
  BY <1>2, <1>4, StepGrows
<1>6. w.day = d + 1 /\ w.classes = [c \in DOMAIN fund.classes |-> DayClass(c, d)]
  BY <1>2, StepUnfolds
<1>7. ASSUME NEW c \in DOMAIN fund.classes
      PROVE  /\ DayNav(d)[c].nav = DayOf(c, d).nav /\ DayNav(d)[c].shares = DayOf(c, d).shares
             /\ DayNav(d)[c].prior = walk.classes[c].nav
             /\ DayClass(c, d).shares = DayOf(c, d).shares
  <2>1. ClassTyped(walk.classes[c])
    BY <1>4 DEF WalkTyped
  <2> QED
    BY <2>1 DEF DayNav, NavRow, DayClass, ClassTyped
<1>8. ASSUME NEW c \in DOMAIN fund.classes
      PROVE  DayNav(d)[c].shares =
               walk.classes[c].shares \oplus Brought(c, d, DayNav(d)[c])
  <2>1. PICK x : x = DayOf(c, d)
    OBVIOUS
  <2>2. x.shares = walk.classes[c].shares \oplus
                     Total([e \in FlowsToday(c, d) |-> SharesDelta(e, x.nav, walk.classes[c].nav)])
    BY <2>1 DEF DayOf, ClassDay
  <2> QED
    BY <1>7, <2>1, <2>2 DEF Brought
<1>9. ASSUME d # 1 PROVE RowsRoll(new, d)
  <2>1. d - 1 \in DOMAIN b.nav /\ walk.day > 1
    BY <1>2, <1>4, <1>9
  <2>2. new.nav[d - 1] = b.nav[d - 1]
    BY <1>5, <2>1 DEF Grown, Added
  <2>3. \A c \in DOMAIN fund.classes : walk.classes[c].shares = new.nav[d - 1][c].shares
    BY <1>2, <2>1, <2>2 DEF Rolling
  <2> QED
    BY <1>5, <1>8, <2>3 DEF RowsRoll
<1>10. ASSUME NEW x \in DOMAIN b.nav, x # 1 PROVE RowsRoll(new, x)
  <2>1. x - 1 \in DOMAIN b.nav
    BY <1>4, <1>10
  <2>2. RowsRoll(b, x)
    BY <1>1, <1>2, <1>10 DEF Rolling
  <2>3. new.nav[x] = b.nav[x] /\ new.nav[x - 1] = b.nav[x - 1]
    BY <1>5, <2>1 DEF Grown, Added
  <2> QED
    BY <2>2, <2>3 DEF RowsRoll
<1>11. DOMAIN new.nav = DOMAIN b.nav \cup {d}
  BY <1>5 DEF Grown, Added
<1>12. \A x \in DOMAIN new.nav \ {1} : RowsRoll(new, x)
  BY <1>9, <1>10, <1>11
<1>13. \A x \in DOMAIN walk'.rows.nav \ {1} : RowsRoll(walk.rows, x)'
  <2>1. walk'.rows = new
    BY <1>2, <1>3
  <2> QED
    BY <1>1, <1>12, <2>1 DEF RowsRoll, Brought, FlowsToday, SharesDelta, SignedGross
<1>14. walk'.day > 1 => \A c \in DOMAIN fund.classes :
                          walk'.classes[c].shares = walk'.rows.nav[walk'.day - 1][c].shares
  <2>1. walk'.day - 1 = d /\ walk'.rows.nav[d] = DayNav(d)
    BY <1>2, <1>3, <1>4, <1>5, <1>6
  <2> QED
    BY <1>3, <1>6, <1>7, <2>1
<1> QED
  BY <1>1, <1>13, <1>14 DEF Rolling, Early, Late

\* The bulk insert fills in the orders what the walk took of them.
LEMMA BulkWriteRolls == ASSUME Typed, Solvent', Rolling, BulkWrite PROVE Rolling'
<1>1. /\ phase = "walk" /\ phase' = "postwalk" /\ fund' = fund /\ walk' = walk
      /\ schedule' = schedule
      /\ books' = walk.rows /\ walk.day = LastDay + 1 /\ input' = Finalized(walk.rows)
  BY DEF BulkWrite, Advance
<1>2. PICK rows, T : rows = walk.rows /\ T = input.capstock
  OBVIOUS
<1>3. DOMAIN rows.nav = Days /\ TablesTyped(rows) /\ FlowsTyped(T)
  BY <1>1, <1>2, LastDayAssumption DEF Typed, WalkTyped, InputTyped, Days
<1>4. \A d \in Days : \A c \in DOMAIN fund.classes : rows.nav[d][c].nav # Zero
  BY <1>1, <1>2, <1>3 DEF Solvent
<1> DEFINE Filled(e) == [e EXCEPT !.delta = SharesDelta(e, rows.nav[e.day][e.class].nav,
                                                           rows.nav[e.day][e.class].prior)]
<1>5. input'.capstock = {Filled(e) : e \in T}
  BY <1>1, <1>2 DEF Finalized, Typed, InputTyped, Inputs
<1>6. ASSUME NEW e \in T
      PROVE  /\ Filled(e).day = e.day /\ Filled(e).class = e.class
             /\ Filled(e).delta = SharesDelta(e, rows.nav[e.day][e.class].nav,
                                                 rows.nav[e.day][e.class].prior)
  <2>1. PICK v : v = SharesDelta(e, rows.nav[e.day][e.class].nav, rows.nav[e.day][e.class].prior)
    OBVIOUS
  <2>2. {"day", "class", "delta"} \subseteq DOMAIN e
    BY <1>3 DEF FlowsTyped, FlowTyped
  <2> QED
    BY <2>1, <2>2
<1>7. ASSUME NEW e \in T, NEW f \in T, Filled(e) = Filled(f) PROVE e = f
  <2>1. PICK u, v : /\ u = SharesDelta(e, rows.nav[e.day][e.class].nav,
                                          rows.nav[e.day][e.class].prior)
                    /\ v = SharesDelta(f, rows.nav[f.day][f.class].nav,
                                          rows.nav[f.day][f.class].prior)
    OBVIOUS
  <2>2. [e EXCEPT !.delta = u] = [f EXCEPT !.delta = v]
    BY <1>7, <2>1
  <2>3. Booked(e) /\ Booked(f)
    BY <1>1, <1>2 DEF Rolling, Early
  <2> QED
    BY <2>2, <2>3 DEF Booked
<1>8. ASSUME NEW d \in Days, NEW c \in DOMAIN fund.classes
      PROVE  Credited(c, d)' = Brought(c, d, rows.nav[d][c])
  <2>1. PICK row, S : row = rows.nav[d][c] /\ S = FlowsToday(c, d)
    OBVIOUS
  <2>2. S \subseteq T /\ \A e \in S : e.class = c /\ e.day = d
    BY <1>2, <2>1 DEF FlowsToday
  <2>3. PICK g : g = [e \in S |-> Filled(e)]
    OBVIOUS
  <2>4. PICK I : I = {g[e] : e \in S}
    OBVIOUS
  <2>5. I = FlowsToday(c, d)'
    <3>1. FlowsToday(c, d)' = {x \in {Filled(e) : e \in T} : x.class = c /\ x.day = d}
      BY <1>5 DEF FlowsToday
    <3>2. S = {e \in T : e.class = c /\ e.day = d}
      BY <1>2, <2>1 DEF FlowsToday
    <3> HIDE DEF Filled
    <3> QED
      BY <1>6, <2>3, <2>4, <3>1, <3>2
  <2>6. PICK f, h : /\ f = [x \in I |-> x.delta]
                    /\ h = [e \in S |-> SharesDelta(e, row.nav, row.prior)]
    OBVIOUS
  <2>7. \A e \in S : h[e] = f[g[e]]
    <3> HIDE DEF Filled
    <3> QED
      BY <1>6, <2>1, <2>2, <2>3, <2>4, <2>6
  <2>8. Family(h, S)
    <3>1. IsFiniteSet(S) /\ \A e \in S : FlowTyped(e)
      BY <1>3, <2>2, FS_Subset DEF FlowsTyped
    <3>2. IsRat(row.nav) /\ row.nav # Zero
      BY <1>3, <1>4, <2>1 DEF TablesTyped, DayTyped, NavTyped
    <3>3. ASSUME NEW e \in S PROVE IsRat(h[e])
      <4>1. IsRat(SignedGross(e))
        BY <3>1, NegatedIsRat DEF FlowTyped, SignedGross
      <4> QED
        BY <2>6, <3>2, <4>1, QuotientIsRat DEF SharesDelta
    <3> QED
      BY <3>1, <3>3 DEF Family
  <2>9. \A x, y \in S : g[x] = g[y] => x = y
    <3> HIDE DEF Filled
    <3> QED
      BY <1>7, <2>2, <2>3
  <2>10. Over(f, I) = Over(h, S)
    BY <2>4, <2>7, <2>8, <2>9, OverImage
  <2>11. Over(h, S) = Brought(c, d, row)
    BY <2>1, <2>6 DEF Brought, Over
  <2>12. Over(f, I) = Credited(c, d)'
    BY <2>5, <2>6 DEF Credited, Over
  <2> QED
    BY <2>1, <2>10, <2>11, <2>12
<1>9. ASSUME NEW d \in Days \ {1} PROVE TableRolls(books, d)'
  <2>1. RowsRoll(rows, d)
    BY <1>1, <1>2, <1>3 DEF Rolling
  <2> QED
    BY <1>1, <1>2, <1>8, <2>1 DEF RowsRoll, TableRolls
<1> QED
  BY <1>1, <1>2, <1>3, <1>9 DEF Rolling, Early, Late

\* Each row of the day keeps its shares, but that of a class with a late order.
LEMMA SurgeryShares ==
  ASSUME Typed, Solvent, Solvent', fund' = fund, PostWalk,
         NEW x \in Days, x # Entry.as_of \/ Entry.code \notin Late8, NEW c \in DOMAIN fund.classes
  PROVE  books'.nav[x][c].shares = books.nav[x][c].shares
<1>1. phase = "postwalk" /\ cursor \in DOMAIN schedule
  BY Zenon DEF PostWalk, Defect2, Defect5, Defect6, Defect8, Defect9, Defect10, Due, DueHere
<1>2. Entry.as_of \in Days /\ TablesTyped(books) /\ DOMAIN books.nav = Days
  BY <1>1, Operating
<1>3. PICK d, new : d = Entry.as_of /\ new = books'
  OBVIOUS
<1>4. CASE ClassRestatement
  <2>1. PICK row, fee : /\ OneRestated(new, books, d, Entry.class, row, fee)
                        /\ \/ Entry.code = "subscription_pre_cutoff"
                           \/ row.shares = books.nav[d][Entry.class].shares
    BY <1>3, <1>4 DEF ClassRestatement
  <2> QED
    BY <1>2, <1>3, <2>1 DEF OneRestated, Touched, Only, Late8
<1>5. CASE FundAdjustment
  <2>1. PICK rows, delta : AllAdjusted(new, books, d, rows, delta)
    BY <1>3, <1>5 DEF FundAdjustment
  <2>2. CASE x # d
    BY <1>2, <1>3, <2>1, <2>2 DEF AllAdjusted, Touched, Only
  <2>3. CASE x = d
    <3>1. \/ new.nav[d] = books.nav[d]
          \/ new.nav[d][c] = PartRow(books.nav, d, c, delta)
      BY <1>2, <1>3, <2>1, AdjustedRows
    <3>2. NavTyped(books.nav[d][c])
      BY <1>2, <1>3 DEF TablesTyped, DayTyped
    <3>3. PartRow(books.nav, d, c, delta).shares = books.nav[d][c].shares
      BY <3>2, RestatedShares DEF PartRow
    <3> QED
      BY <1>3, <2>3, <3>1, <3>3
  <2> QED
    BY <2>2, <2>3
<1> QED
  BY <1>4, <1>5, SurgeryTyped

\* The orders of the other days are those there were.
LEMMA SurgeryFlows ==
  ASSUME Typed, PostWalk, NEW x, x # Entry.as_of \/ Entry.code \notin Late8, NEW c
  PROVE  FlowsToday(c, x)' = FlowsToday(c, x)
<1>1. Inputs \subseteq DOMAIN input
  BY DEF Typed, InputTyped
<1>2. CASE Entry.code \notin Late8
  <2>1. ~Defect8
    BY <1>2 DEF Defect8, Due, DueHere, Late8
  <2>2. input'.capstock = input.capstock
    BY <1>1, <2>1, Zenon DEF PostWalk, Defect2, Defect5, Defect6, Defect9, Defect10, Inputs
  <2> QED
    BY <2>2 DEF FlowsToday
<1>3. CASE Entry.code \in Late8
  <2>1. Defect8
    BY <1>3, Zenon DEF PostWalk, Defect2, Defect5, Defect6, Defect9, Defect10, Due, DueHere, Late8
  <2>2. \/ input' = input
        \/ \E order : order.day = Entry.as_of
                      /\ input' = [input EXCEPT !.capstock = @ \cup {order}]
    <3>1. PICK order : order =
            [id |-> "CS_DEFECT_8", class |-> Entry.class, day |-> Entry.as_of,
             received |-> CutoffTime + 1, type |-> "SUB", gross |-> Entry.amount,
             delta |-> Entry.amount
                         \oslash books.nav[PriorBusinessDay(Entry.as_of)][Entry.class].nav]
      OBVIOUS
    <3>2. order.day = Entry.as_of
      BY <3>1
    <3>3. input' = input \/ input' = [input EXCEPT !.capstock = @ \cup {order}]
      BY <2>1, <3>1, Zenon DEF Defect8
    <3> QED
      BY <3>2, <3>3
  <2>3. CASE input' = input
    BY <2>3 DEF FlowsToday
  <2>4. ASSUME NEW order, order.day = Entry.as_of,
               input' = [input EXCEPT !.capstock = @ \cup {order}]
        PROVE  FlowsToday(c, x)' = FlowsToday(c, x)
    <3>1. input'.capstock = input.capstock \cup {order}
      BY <1>1, <2>4 DEF Inputs
    <3> QED
      BY <1>3, <2>4, <3>1 DEF FlowsToday
  <2> QED
    BY <2>2, <2>3, <2>4
<1> QED
  BY <1>2, <1>3

LEMMA SurgeryRolls ==
  ASSUME Typed, Solvent, Solvent', fund' = fund, schedule' = schedule, Rolling, PostWalk
  PROVE  Rolling'
<1>1. phase = "postwalk" /\ phase' = phase /\ walk' = walk /\ cursor \in OwnEntries
  BY Zenon DEF PostWalk, Defect2, Defect5, Defect6, Defect8, Defect9, Defect10, Due, DueHere,
               OwnEntries, Entry
<1>2. Entry.as_of \in Days /\ DOMAIN books.nav = Days /\ DOMAIN books'.nav = Days
  BY <1>1, Operating, SurgeryTyped DEF OwnEntries
<1>3. ASSUME NEW x \in Days \ {1} PROVE TableRolls(books, x)'
  <2>1. x - 1 \in Days
    BY <1>3, LastDayAssumption DEF Days
  <2>2. TableRolls(books, x)
    BY <1>1, <1>2, <1>3 DEF Rolling, Late
  <2>3. CASE Entry.code \in Late8 /\ Entry.as_of \in {x, x - 1}
    <3>1. PICK y, k : y = Entry.as_of /\ k = cursor
      OBVIOUS
    <3>2. k \in OwnEntries /\ schedule[k].code \in Late8 /\ schedule[k].as_of = y
      BY <1>1, <2>3, <3>1 DEF Entry
    <3>3. y \in {x, x - 1} /\ Marred(Late8, y)'
      BY <2>3, <3>1, <3>2 DEF Marred, OwnEntries, Mine
    <3> QED
      BY <3>3 DEF TableRolls
  <2>4. CASE Entry.code \notin Late8 \/ Entry.as_of \notin {x, x - 1}
    <3>1. ASSUME NEW c \in DOMAIN fund.classes
          PROVE  /\ books'.nav[x][c].shares = books.nav[x][c].shares
                 /\ books'.nav[x - 1][c].shares = books.nav[x - 1][c].shares
                 /\ Credited(c, x)' = Credited(c, x)
      BY <2>1, <2>4, SurgeryShares, SurgeryFlows DEF Credited
    <3> QED
      BY <2>2, <3>1 DEF TableRolls, Marred, OwnEntries, Mine
  <2> QED
    BY <2>3, <2>4
<1> QED
  BY <1>1, <1>2, <1>3 DEF Rolling, Early, Late

LEMMA NextRolls == Typed /\ Solvent /\ Solvent' /\ Rolling /\ [Next]_vars => Rolling'
<1> SUFFICES ASSUME Typed, Solvent, Solvent', Rolling, [Next]_vars PROVE Rolling'
  OBVIOUS
<1>0. fund' = fund /\ schedule' = schedule
  BY NextSame DEF vars
<1>1. CASE WalkDay
  BY <1>1, WalkDayRolls
<1>2. CASE BulkWrite
  BY <1>2, BulkWriteRolls
<1>3. CASE PostWalk
  BY <1>0, <1>3, SurgeryRolls
<1>4. CASE Generate \/ PreWalk
  <2>1. /\ UNCHANGED walk /\ phase' \in Early \ {"walk"} /\ phase \in Early \ {"walk"}
    <3>1. CASE Generate
      BY <3>1 DEF Generate, WriteFx, WriteEquityPrices, WriteBonds, WriteCorporateActions,
                  WriteTrades, WriteCapstock, Advance, Early
    <3>2. CASE PreWalk
      BY <3>2 DEF PreWalk, Defect1, Defect3, Defect4, Defect7, Due, DueHere, Early
    <3> QED
      BY <1>4, <3>1, <3>2
  <2>2. \A e \in input'.capstock : Booked(e)
    <3>1. CASE WriteCapstock
      <4>1. PICK drawn \in CapstockDraws :
              input' = [input EXCEPT !.capstock =
                {[id |-> e.id, class |-> e.class, day |-> e.day,
                  received |-> CutoffTime - e.early, type |-> e.type, gross |-> e.gross,
                  delta |-> Zero] : e \in {e \in drawn : e.class \in DOMAIN fund.classes}}]
        BY <3>1 DEF WriteCapstock
      <4>2. input'.capstock =
                {[id |-> e.id, class |-> e.class, day |-> e.day,
                  received |-> CutoffTime - e.early, type |-> e.type, gross |-> e.gross,
                  delta |-> Zero] : e \in {e \in drawn : e.class \in DOMAIN fund.classes}}
        BY <4>1 DEF Typed, InputTyped, Inputs
      <4> QED
        BY <4>2 DEF Booked
    <3>2. CASE ~WriteCapstock
      <4>1. input'.capstock = input.capstock
        BY <1>4, <3>2 DEF Generate, PreWalk, WriteFx, WriteEquityPrices, WriteBonds,
          WriteCorporateActions, WriteTrades, Defect1, Defect3, Defect4, Defect7,
          Typed, InputTyped, Inputs
      <4> QED
        BY <2>1, <4>1 DEF Rolling
    <3> QED
      BY <3>1, <3>2
  <2> QED
    BY <2>1, <2>2 DEF Rolling, Late, Early
<1>5. CASE PassOver \/ EndInjection \/ UpdateCatalog \/ Built \/ UNCHANGED vars
  <2>1. /\ UNCHANGED << walk, input, books >>
        /\ phase' \in Early => phase \in Early
        /\ phase' \in Early \ {"walk"} => phase \in Early \ {"walk"}
        /\ phase' = "walk" => phase = "walk" \/ phase = "prewalk"
        /\ phase' \in Late => phase \in Late
    BY <1>5 DEF PassOver, EndInjection, UpdateCatalog, Built, vars, Advance, Early, Late
  <2>2. \A d : RowsRoll(walk.rows, d)' = RowsRoll(walk.rows, d)
    BY <1>0, <2>1 DEF RowsRoll, Brought, FlowsToday, SharesDelta, SignedGross
  <2>3. \A d : TableRolls(books, d)' = TableRolls(books, d)
    BY <1>0, <2>1 DEF TableRolls, Credited, FlowsToday, Marred, OwnEntries, Mine
  <2>4. phase = "prewalk" => DOMAIN walk.rows.nav = {}
    BY DEF Rolling, Early, Typed, WalkTyped
  <2>5. phase' \in Early => \A e \in input'.capstock : Booked(e)
    BY <2>1 DEF Rolling
  <2>6. phase' \in Early \ {"walk"} => walk'.day = 1
    BY <2>1 DEF Rolling
  <2>7. walk'.day > 1 => \A c \in DOMAIN fund'.classes :
                            walk'.classes[c].shares = walk'.rows.nav[walk'.day - 1][c].shares
    BY <1>0, <2>1 DEF Rolling
  <2>8. ASSUME phase' = "walk", NEW d \in DOMAIN walk.rows.nav \ {1} PROVE RowsRoll(walk.rows, d)'
    <3>1. phase = "walk"
      BY <2>1, <2>4, <2>8
    <3>2. RowsRoll(walk.rows, d)
      BY <2>8, <3>1 DEF Rolling
    <3> QED
      BY <2>2, <3>2
  <2>9. ASSUME phase' \in Late, NEW d \in DOMAIN books.nav \ {1} PROVE TableRolls(books, d)'
    <3>1. TableRolls(books, d)
      BY <2>1, <2>9 DEF Rolling
    <3> QED
      BY <2>3, <3>1
  <2>10. phase' = "walk" => \A d \in DOMAIN walk'.rows.nav \ {1} : RowsRoll(walk.rows, d)'
    BY <2>1, <2>8
  <2>11. phase' \in Late => \A d \in DOMAIN books'.nav \ {1} : TableRolls(books, d)'
    BY <2>1, <2>9
  <2> QED
    BY <2>5, <2>6, <2>7, <2>10, <2>11 DEF Rolling, RowsRoll, TableRolls
<1>6. CASE Elsewhere
  <2>1. /\ UNCHANGED << phase, walk, books >> /\ phase = "postwalk"
        /\ input'.capstock = input.capstock
    BY <1>6, ElsewhereKeeps, ElsewhereInput
  <2>2. \A d : TableRolls(books, d)' = TableRolls(books, d)
    BY <1>0, <2>1 DEF TableRolls, Credited, FlowsToday, Marred, OwnEntries, Mine
  <2> QED
    BY <1>0, <2>1, <2>2 DEF Rolling, Early, Late
<1> QED
  BY <1>1, <1>2, <1>3, <1>4, <1>5, <1>6 DEF Next

\* As long as the fund goes on, the shares of a class follow from those of the
\* day before and the orders booked for the day (walk.py:281-300, 441-447), which
\* bring the shares that the walk gave for them, however many there are; but for a
\* late order that took the place of those booked (defects.py:402-484), and on the
\* day after.
THEOREM SharesAlwaysRollForward == Spec /\ []Solvent => []SharesRollForward
<1>1. Init => Rolling
  <2> SUFFICES ASSUME Init PROVE Rolling
    OBVIOUS
  <2>1. walk.day = 1 /\ input.capstock = {} /\ phase = "fx"
    BY DEF Init, InitFundState
  <2> QED
    BY <2>1 DEF Rolling, Early, Late
<1>2. Rolling => SharesRollForward
  BY DEF Rolling, SharesRollForward, TableRolls, Credited, FlowsToday, Rows, Struck, Late8, Late
<1>3. Spec /\ []Solvent => []Typed
  BY InitTyped, NextTyped, PTL DEF Spec
<1> QED
  BY <1>1, <1>2, <1>3, NextRolls, PTL DEF Spec

(***************************************************************************)
(* Positions and trades.                                                   *)
(***************************************************************************)

\* A trade as the generator books it, whatever its price and note are by now.
Ticket(t) ==
  /\ t = [id |-> t.id, instr |-> t.instr, side |-> t.side, qty |-> t.qty,
          day |-> t.day, price |-> t.price, note |-> t.note]
  /\ IsRat(t.qty) /\ t.qty # Zero

TradesOf(i, d) == {t \in input.trades : t.instr = i /\ t.day = d}
Turnover(S)    == Total([t \in S |-> SignedQty(t)])
Flipped(i, d)  == \E t \in TradesOf(i, d) : t.note = "flipped"
Size(rows, i)  == IF i \in DOMAIN rows THEN rows[i].qty ELSE Zero
Adds(b, i, d)  ==
  Size(b.holdings[d], i) = Size(b.holdings[d - 1], i) \oplus Turnover(TradesOf(i, d))

FlipEntry(k, d) ==
  Mine(schedule[k]) /\ schedule[k].code = "trade_wrong_side" /\ schedule[k].as_of = d
\* No day of the fund has two flips: the second could undo the first.
OneFlip(f, s) ==
  \A k, l \in DOMAIN s :
    /\ s[k].fund_id = f.id /\ s[l].fund_id = f.id
    /\ s[k].code = "trade_wrong_side" /\ s[l].code = "trade_wrong_side"
    /\ s[k].as_of = s[l].as_of
    => k = l

(* No trade is flipped before its entry is passed, and there is one entry    *)
(* for a day; so what an injector flips adds up until then, and does not     *)
(* after.  Until the bulk insert the trades differ in more than their price. *)
Reconciling ==
  /\ \A t \in input.trades : Ticket(t)
  /\ phase \in Early => \A t \in input.trades : t.price = Zero /\ t.note = ""
  /\ phase = "postwalk" => \A t \in input.trades : t.note = "flipped" =>
       \E k \in 1 .. cursor - 1 : FlipEntry(k, t.day)
  /\ phase = "walk" => \A d \in DOMAIN walk.rows.nav \ {1} : \A i \in Instruments :
       Adds(walk.rows, i, d)
  /\ phase \in Late => \A d \in Days \ {1} : \A i \in Instruments :
       Adds(books, i, d) <=> ~Flipped(i, d)

LEMMA SumCancels ==
  ASSUME NEW a, NEW x, NEW y, IsRat(a), IsRat(x), IsRat(y), a \oplus x = a \oplus y
  PROVE  x = y
<1>1. a \oplus x = x \oplus a /\ a \oplus y = y \oplus a
  BY SumCommutes
<1>2. (x \oplus a) \ominus a = x /\ (y \oplus a) \ominus a = y
  BY SumGives
<1> QED
  BY <1>1, <1>2

LEMMA OppositeOf ==
  ASSUME NEW q, IsRat(q), q # Zero
  PROVE  IsRat(Zero \ominus q) /\ Zero \ominus q # q /\ Zero \ominus q # Zero
<1>1. PICK n, m, d : n = Negative(q) /\ m = q[1] /\ d = q[2]
  OBVIOUS
<1>2. m \in Int /\ m # 0
  BY <1>1, NonZero, RatParts
<1>3. IsRat(n) /\ n[1] = -m
  BY <1>1, MeansItself, NegativeOf DEF Negative
<1>4. Zero \ominus q = Zero \oplus n
  BY <1>1 DEF Negative, \ominus
<1>5. Zero \ominus q = n
  BY <1>3, <1>4, ZeroSum
<1>6. n # q /\ n[1] # 0
  BY <1>1, <1>2, <1>3
<1> QED
  BY <1>3, <1>5, <1>6, NonZero

LEMMA TicketSigned ==
  ASSUME NEW t, Ticket(t) PROVE IsRat(SignedQty(t)) /\ SignedQty(t) # Zero
  BY OppositeOf DEF SignedQty, Ticket

\* The rows of positions tell them, closed ones included.
LEMMA KeptSizes ==
  ASSUME NEW rows, NEW holdings, Kept(rows, holdings), NEW i
  PROVE  Size(rows, i) = Position(holdings, i)
  BY DEF Kept, Open, Size, Position

LEMMA TurnoverIsRat ==
  ASSUME NEW S, IsFiniteSet(S), \A t \in S : Ticket(t)
  PROVE  /\ IsRat(Turnover(S))
         /\ \A t \in S : Turnover(S) = SignedQty(t) \oplus Turnover(S \ {t})
<1>1. PICK f : f = [t \in S |-> SignedQty(t)]
  OBVIOUS
<1>2. Family(f, S)
  BY <1>1, TicketSigned DEF Family
<1>3. ASSUME NEW s \in SUBSET S PROVE Turnover(s) = Over(f, s)
  <2>1. [t \in s |-> SignedQty(t)] = [t \in s |-> f[t]]
    BY <1>1
  <2> QED
    BY <2>1 DEF Turnover, Over
<1>4. \A t \in S : Over(f, S) = f[t] \oplus Over(f, S \ {t})
  BY <1>2, OverRemove
<1> QED
  BY <1>1, <1>2, <1>3, <1>4, OverIsRat

\* Trades move a position by what they add up to.
LEMMA PositionsMove ==
  ASSUME NEW d, Valued(d), PositionsTyped(walk.holdings), \A t \in input.trades : Ticket(t),
         NEW i \in Instruments
  PROVE  Position(AfterTrades(d), i) = Position(walk.holdings, i) \oplus Turnover(TradesOf(i, d))
<1>1. i \in DOMAIN Price(d)
  BY PriceIsRat
<1>2. {t \in TradesToday(d) : t.instr = i} = TradesOf(i, d)
  BY <1>1 DEF TradesToday, TradesOf
<1>3. PICK own, p, v : /\ own = DOMAIN walk.holdings \cup {t.instr : t \in TradesToday(d)}
                       /\ p = Position(walk.holdings, i) /\ v = Turnover(TradesOf(i, d))
  OBVIOUS
<1>4. CASE i \in own
  BY <1>2, <1>3, <1>4 DEF AfterTrades, Position, Turnover
<1>5. CASE i \notin own
  <2>1. TradesOf(i, d) = {}
    BY <1>2, <1>3, <1>5
  <2>2. PICK f : f = [t \in {} |-> SignedQty(t)]
    OBVIOUS
  <2>3. v = Total(f) /\ f = [t \in {} |-> f[t]]
    BY <1>3, <2>1, <2>2 DEF Turnover
  <2>4. v = Zero
    BY <2>3, TotalIsOver, OverEmpty
  <2>5. p = Zero /\ Position(AfterTrades(d), i) = Zero
    BY <1>3, <1>5 DEF Position, AfterTrades
  <2> QED
    BY <1>3, <2>4, <2>5, ZeroOne, ZeroSum
<1> QED
  BY <1>4, <1>5

LEMMA WalkDayReconciles ==
  ASSUME Typed, Following, Reconciling, WalkDay PROVE Reconciling'
<1>1. /\ phase = "walk" /\ walk.day \in Days /\ FxTyped(input.fx)
      /\ phase' = "walk" /\ input' = input
  BY DEF WalkDay, Typed, InputTyped
<1>2. PICK d, w, b, new : d = walk.day /\ w = StepOneDay(d) /\ b = walk.rows /\ new = w.rows
  OBVIOUS
<1>3. walk' = w
  BY <1>1, <1>2 DEF WalkDay, FxTyped
<1>4. Valued(d)
  BY <1>1, <1>2, WindowValued
<1>5. /\ WalkTyped /\ TablesTyped(b) /\ DOMAIN b.nav = 1 .. d - 1 /\ d \notin DOMAIN b.nav
      /\ d \in Nat /\ d > 0
  BY <1>1, <1>2 DEF Typed, WalkTyped, Days
<1>6. Grown(new, b, d) /\ new.holdings[d] = DayRows(d)
  BY <1>2, <1>5, StepGrows
<1>7. PositionsTyped(walk.holdings) /\ \A t \in input.trades : Ticket(t)
  BY <1>5 DEF WalkTyped, PositionsTyped, Reconciling
<1>8. Kept(DayRows(d), AfterTrades(d))
  BY <1>4, <1>7, AfterTradesTyped, RowsKept DEF DayRows
<1>9. \A x \in DOMAIN b.nav : new.holdings[x] = b.holdings[x]
  BY <1>6 DEF Grown, Added
<1>10. ASSUME d # 1, NEW i \in Instruments PROVE Adds(new, i, d)
  <2>1. d - 1 \in DOMAIN b.nav /\ walk.day > 1
    BY <1>2, <1>5, <1>10
  <2>2. Kept(new.holdings[d - 1], walk.holdings)
    BY <1>2, <1>9, <2>1 DEF Following
  <2>3. Size(new.holdings[d - 1], i) = Position(walk.holdings, i)
    BY <2>2, KeptSizes
  <2>4. Size(new.holdings[d], i) = Position(AfterTrades(d), i)
    BY <1>6, <1>8, KeptSizes
  <2>5. Position(AfterTrades(d), i) = Position(walk.holdings, i) \oplus Turnover(TradesOf(i, d))
    BY <1>4, <1>7, PositionsMove
  <2> QED
    BY <2>3, <2>4, <2>5 DEF Adds
<1>11. ASSUME NEW x \in DOMAIN b.nav, x # 1, NEW i \in Instruments PROVE Adds(new, i, x)
  <2>1. x - 1 \in DOMAIN b.nav
    BY <1>5, <1>11
  <2>2. Adds(b, i, x)
    BY <1>1, <1>2, <1>11 DEF Reconciling
  <2> QED
    BY <1>9, <2>1, <2>2 DEF Adds
<1>12. DOMAIN new.nav = DOMAIN b.nav \cup {d}
  BY <1>6 DEF Grown, Added
<1>13. \A x \in DOMAIN new.nav \ {1} : \A i \in Instruments : Adds(new, i, x)
  BY <1>10, <1>11, <1>12
<1>14. \A x \in DOMAIN walk'.rows.nav \ {1} : \A i \in Instruments : Adds(walk.rows, i, x)'
  <2>1. walk'.rows = new
    BY <1>2, <1>3
  <2> QED
    BY <1>1, <1>13, <2>1 DEF Adds, Turnover, TradesOf, SignedQty
<1> QED
  BY <1>1, <1>14 DEF Reconciling, Early, Late

LEMMA PricedTicket ==
  ASSUME NEW t, Ticket(t), NEW p, NEW u, u = [t EXCEPT !.price = p]
  PROVE  /\ Ticket(u) /\ u.note = t.note /\ u.instr = t.instr /\ u.day = t.day
         /\ u.side = t.side /\ u.qty = t.qty
<1>1. u = [id |-> t.id, instr |-> t.instr, side |-> t.side, qty |-> t.qty,
           day |-> t.day, price |-> p, note |-> t.note]
  BY DEF Ticket
<1> QED
  BY <1>1 DEF Ticket

\* The bulk insert prices the trades and leaves their quantities.
LEMMA BulkWriteReconciles == ASSUME Typed, Reconciling, BulkWrite PROVE Reconciling'
<1>1. /\ phase = "walk" /\ phase' = "postwalk" /\ books' = walk.rows
      /\ walk.day = LastDay + 1 /\ input' = Finalized(walk.rows)
  BY DEF BulkWrite, Advance
<1>2. DOMAIN walk.rows.nav = Days
  BY <1>1, LastDayAssumption DEF Typed, WalkTyped, Days
<1> DEFINE Priced(t) == IF t \in TradesToday(t.day)
                        THEN [t EXCEPT !.price = Price(t.day)[t.instr]] ELSE t
<1>3. PICK T : T = input.trades
  OBVIOUS
<1>4. input'.trades = {Priced(t) : t \in T}
  BY <1>1, <1>3 DEF Finalized, Typed, InputTyped, Inputs
<1>5. ASSUME NEW t \in T
      PROVE  /\ Ticket(Priced(t)) /\ Priced(t).note = ""
             /\ Priced(t).instr = t.instr /\ Priced(t).day = t.day
             /\ SignedQty(Priced(t)) = SignedQty(t)
  <2>1. Ticket(t) /\ t.note = ""
    BY <1>1, <1>3 DEF Reconciling, Early
  <2>2. CASE t \in TradesToday(t.day)
    <3>1. PICK p, u : p = Price(t.day)[t.instr] /\ u = [t EXCEPT !.price = p]
      OBVIOUS
    <3>2. Priced(t) = u
      BY <2>2, <3>1
    <3>3. /\ Ticket(u) /\ u.note = t.note /\ u.instr = t.instr /\ u.day = t.day
          /\ u.side = t.side /\ u.qty = t.qty
      <4>1. Ticket(t) /\ u = [t EXCEPT !.price = p]
        BY <2>1, <3>1
      <4> QED
        BY <4>1, PricedTicket
    <3>4. SignedQty(u) = SignedQty(t)
      BY <3>3 DEF SignedQty
    <3> HIDE DEF Priced
    <3> QED
      BY <2>1, <3>2, <3>3, <3>4
  <2>3. CASE t \notin TradesToday(t.day)
    BY <2>1, <2>3
  <2> QED
    BY <2>2, <2>3
<1>6. ASSUME NEW t \in T, NEW u \in T, Priced(t) = Priced(u) PROVE t = u
  <2>1. Ticket(t) /\ t.price = Zero /\ Ticket(u) /\ u.price = Zero
    BY <1>1, <1>3 DEF Reconciling, Early
  <2>2. ASSUME NEW x \in T, Ticket(x), x.price = Zero PROVE x = [Priced(x) EXCEPT !.price = Zero]
    <3>1. ASSUME NEW p PROVE x = [[x EXCEPT !.price = p] EXCEPT !.price = Zero]
      BY <2>2 DEF Ticket
    <3>2. x = [x EXCEPT !.price = Zero]
      BY <2>2 DEF Ticket
    <3> QED
      BY <3>1, <3>2
  <2> HIDE DEF Priced
  <2> QED
    BY <1>6, <2>1, <2>2
<1> HIDE DEF Priced
<1>7. ASSUME NEW i, NEW d PROVE Turnover(TradesOf(i, d))' = Turnover(TradesOf(i, d))
  <2>1. PICK S, g : S = TradesOf(i, d) /\ g = [t \in S |-> Priced(t)]
    OBVIOUS
  <2>2. PICK I : I = {g[t] : t \in S}
    OBVIOUS
  <2>3. S \subseteq T
    BY <1>3, <2>1 DEF TradesOf
  <2>4. I = TradesOf(i, d)'
    <3>1. TradesOf(i, d)' = {x \in {Priced(t) : t \in T} : x.instr = i /\ x.day = d}
      BY <1>4 DEF TradesOf
    <3>2. S = {t \in T : t.instr = i /\ t.day = d}
      BY <1>3, <2>1 DEF TradesOf
    <3>3. \A t \in T : Priced(t).instr = t.instr /\ Priced(t).day = t.day
      BY <1>5
    <3>4. I = {Priced(t) : t \in S}
      BY <2>1, <2>2
    <3> QED
      BY <3>1, <3>2, <3>3, <3>4
  <2>5. PICK f, h : f = [x \in I |-> SignedQty(x)] /\ h = [t \in S |-> SignedQty(t)]
    OBVIOUS
  <2>6. \A t \in S : h[t] = f[g[t]]
    BY <1>5, <2>1, <2>2, <2>3, <2>5
  <2>7. Family(h, S)
    <3>1. IsFiniteSet(S)
      BY <1>3, <2>3, FS_Subset DEF Typed, InputTyped, TradesTyped
    <3>2. \A t \in S : Ticket(t)
      BY <1>3, <2>3 DEF Reconciling
    <3> QED
      BY <2>5, <3>1, <3>2, TicketSigned DEF Family
  <2>8. \A x, y \in S : g[x] = g[y] => x = y
    BY <1>6, <2>1, <2>3
  <2>9. Over(f, I) = Over(h, S)
    BY <2>2, <2>6, <2>7, <2>8, OverImage
  <2>10. Over(h, S) = Turnover(TradesOf(i, d))
    BY <2>1, <2>5 DEF Turnover, Over
  <2>11. Over(f, I) = Turnover(TradesOf(i, d))'
    BY <2>4, <2>5 DEF Turnover, Over, SignedQty
  <2> QED
    BY <2>9, <2>10, <2>11
<1>8. \A t \in input'.trades : Ticket(t) /\ t.note = ""
  BY <1>4, <1>5
<1>9. ASSUME NEW d \in Days \ {1}, NEW i \in Instruments PROVE (Adds(books, i, d) <=> ~Flipped(i, d))'
  <2>1. Adds(walk.rows, i, d)
    BY <1>1, <1>2 DEF Reconciling
  <2>2. Adds(books, i, d)'
    BY <1>1, <1>7, <2>1 DEF Adds
  <2>3. ~Flipped(i, d)'
    BY <1>8 DEF Flipped, TradesOf
  <2> QED
    BY <2>2, <2>3
<1> QED
  BY <1>1, <1>8, <1>9 DEF Reconciling, Early, Late

\* Surgery revalues positions and leaves their quantities.
LEMMA SurgerySizes ==
  ASSUME Typed, Solvent, Solvent', fund' = fund, PostWalk, NEW x \in Days, NEW i
  PROVE  Size(books'.holdings[x], i) = Size(books.holdings[x], i)
<1>1. phase = "postwalk" /\ cursor \in DOMAIN schedule
  BY Zenon DEF PostWalk, Defect2, Defect5, Defect6, Defect8, Defect9, Defect10, Due, DueHere
<1>2. Entry.as_of \in Days /\ TablesTyped(books) /\ DOMAIN books.nav = Days
  BY <1>1, Operating
<1>3. PICK d, new : d = Entry.as_of /\ new = books'
  OBVIOUS
<1>4. CASE ClassRestatement
  <2>1. PICK row, fee : OneRestated(new, books, d, Entry.class, row, fee)
    BY <1>3, <1>4 DEF ClassRestatement
  <2>2. new.holdings[x] = books.holdings[x]
    BY <1>2, <2>1 DEF OneRestated, Touched, Only, TablesTyped
  <2> QED
    BY <1>3, <2>2
<1>5. CASE FundAdjustment
  <2>1. PICK rows, delta : /\ AllAdjusted(new, books, d, rows, delta)
                           /\ SameQuantities(rows, books.holdings[d])
    BY <1>3, <1>5 DEF FundAdjustment
  <2>2. CASE x # d
    <3>1. new.holdings[x] = books.holdings[x]
      BY <1>2, <2>1, <2>2 DEF AllAdjusted, Touched, Only, TablesTyped
    <3> QED
      BY <1>3, <3>1
  <2>3. CASE x = d
    <3>1. new.holdings[x] = rows
      BY <2>1, <2>3 DEF AllAdjusted
    <3> QED
      BY <1>3, <2>1, <2>3, <3>1 DEF SameQuantities, Size
  <2> QED
    BY <2>2, <2>3
<1> QED
  BY <1>4, <1>5, SurgeryTyped

\* One trade of the day changes side.
Flip(trades, t, d) ==
  \E u : /\ t \in input.trades /\ t.day = d
         /\ u = [t EXCEPT !.side = Opposite(t.side), !.note = "flipped"]
         /\ trades = (input.trades \ {t}) \cup {u}

LEMMA SurgeryTrades ==
  ASSUME Typed, PostWalk
  PROVE  \/ input'.trades = input.trades
         \/ /\ Entry.code = "trade_wrong_side"
            /\ \E t : Flip(input'.trades, t, Entry.as_of)
<1>1. Inputs \subseteq DOMAIN input
  BY DEF Typed, InputTyped
<1>2. CASE Defect6
  <2>1. PICK today : today = {t \in input.trades : t.day = Entry.as_of}
    OBVIOUS
  <2>2. ASSUME today # {}
        PROVE  \E t \in today : input' = [input EXCEPT !.trades = (@ \ {t}) \cup
                               {[t EXCEPT !.side = Opposite(t.side), !.note = "flipped"]}]
    BY <1>2, <2>1, <2>2 DEF Defect6
  <2>3. ASSUME NEW t \in today,
               input' = [input EXCEPT !.trades = (@ \ {t}) \cup
                               {[t EXCEPT !.side = Opposite(t.side), !.note = "flipped"]}]
        PROVE  Flip(input'.trades, t, Entry.as_of)
    <3>1. PICK u : u = [t EXCEPT !.side = Opposite(t.side), !.note = "flipped"]
      OBVIOUS
    <3>2. input'.trades = (input.trades \ {t}) \cup {u}
      BY <1>1, <2>3, <3>1 DEF Inputs
    <3> QED
      BY <2>1, <3>1, <3>2 DEF Flip
  <2>4. CASE today = {}
    BY <1>2, <2>1, <2>4, Zenon DEF Defect6
  <2> QED
    BY <1>2, <2>2, <2>3, <2>4 DEF Defect6, Due, DueHere
<1>3. CASE Defect2 \/ Defect5 \/ Defect8 \/ Defect9 \/ Defect10
  BY <1>1, <1>3, Zenon DEF Defect2, Defect5, Defect8, Defect9, Defect10, Inputs
<1> QED
  BY <1>2, <1>3 DEF PostWalk

LEMMA FlipChanges ==
  ASSUME NEW t, Ticket(t), NEW u, u = [t EXCEPT !.side = Opposite(t.side), !.note = "flipped"]
  PROVE  /\ Ticket(u) /\ u.note = "flipped" /\ u.instr = t.instr /\ u.day = t.day
         /\ SignedQty(u) # SignedQty(t)
<1>1. u = [id |-> t.id, instr |-> t.instr, side |-> Opposite(t.side), qty |-> t.qty,
           day |-> t.day, price |-> t.price, note |-> "flipped"]
  BY DEF Ticket
<1>2. /\ Ticket(u) /\ u.note = "flipped" /\ u.instr = t.instr /\ u.day = t.day
      /\ u.qty = t.qty /\ u.side = Opposite(t.side)
  BY <1>1 DEF Ticket
<1>3. u.side = "BUY" <=> t.side # "BUY"
  BY <1>2 DEF Opposite
<1>4. Zero \ominus t.qty # t.qty
  BY OppositeOf DEF Ticket
<1> QED
  BY <1>2, <1>3, <1>4 DEF SignedQty

\* The trades of an instrument add up to something else once one is flipped.
LEMMA FlipShows ==
  ASSUME Typed, NEW t, Flip(input'.trades, t, t.day), \A x \in input.trades : Ticket(x),
         \A x \in TradesOf(t.instr, t.day) : x.note # "flipped",
         NEW q, IsRat(q)
  PROVE  q \oplus Turnover(TradesOf(t.instr, t.day))' # q \oplus Turnover(TradesOf(t.instr, t.day))
<1>1. PICK u : /\ u = [t EXCEPT !.side = Opposite(t.side), !.note = "flipped"]
               /\ input'.trades = (input.trades \ {t}) \cup {u}
  BY DEF Flip
<1>2. t \in input.trades /\ Ticket(t)
  BY DEF Flip
<1>3. /\ Ticket(u) /\ u.note = "flipped" /\ u.instr = t.instr /\ u.day = t.day
      /\ SignedQty(u) # SignedQty(t)
  BY <1>1, <1>2, FlipChanges
<1>4. PICK S, N, R : /\ S = TradesOf(t.instr, t.day) /\ R = S \ {t} /\ N = R \cup {u}
  OBVIOUS
<1>5. t \in S /\ u \notin S /\ N \ {u} = R
  BY <1>2, <1>3, <1>4 DEF TradesOf
<1>6. TradesOf(t.instr, t.day)' = N
  BY <1>1, <1>3, <1>4 DEF TradesOf
<1>7. /\ IsFiniteSet(S) /\ IsFiniteSet(R) /\ IsFiniteSet(N)
      /\ \A x \in S : Ticket(x)
  <2>1. IsFiniteSet(S)
    <3>1. S \subseteq input.trades
      BY <1>4 DEF TradesOf
    <3> QED
      BY <3>1, FS_Subset DEF Typed, InputTyped, TradesTyped
  <2> QED
    BY <1>4, <2>1, FS_Subset, FS_AddElement DEF TradesOf
<1>8. PICK r, a, b : r = Turnover(R) /\ a = SignedQty(t) /\ b = SignedQty(u)
  OBVIOUS
<1>9. Turnover(S) = a \oplus r /\ Turnover(N) = b \oplus r /\ IsRat(r)
  <2>1. \A x \in N : Ticket(x)
    BY <1>3, <1>4, <1>7
  <2>2. \A x \in R : Ticket(x)
    BY <1>4, <1>7
  <2>3. Turnover(S) = SignedQty(t) \oplus Turnover(S \ {t})
    BY <1>5, <1>7, TurnoverIsRat
  <2>4. Turnover(N) = SignedQty(u) \oplus Turnover(N \ {u})
    BY <1>4, <1>7, <2>1, TurnoverIsRat
  <2>5. IsRat(Turnover(R))
    BY <1>7, <2>2, TurnoverIsRat
  <2> QED
    BY <1>4, <1>5, <1>8, <2>3, <2>4, <2>5
<1>10. IsRat(a) /\ IsRat(b) /\ a # b
  BY <1>2, <1>3, <1>8, TicketSigned
<1>11. a \oplus r # b \oplus r
  BY <1>9, <1>10, SumCommutes, SumCancels
<1>12. q \oplus (a \oplus r) # q \oplus (b \oplus r)
  BY <1>9, <1>10, <1>11, SumIsRat, SumCancels
<1>13. Turnover(TradesOf(t.instr, t.day))' = Turnover(N)
  BY <1>6 DEF Turnover, SignedQty
<1> QED
  BY <1>4, <1>9, <1>12, <1>13

LEMMA SurgeryReconciles ==
  ASSUME Typed, Solvent, Solvent', fund' = fund, schedule' = schedule, OneFlip(fund, schedule),
         Reconciling, PostWalk
  PROVE  Reconciling'
<1>1. /\ phase = "postwalk" /\ phase' = phase /\ cursor \in DOMAIN schedule
      /\ cursor' = cursor + 1 /\ Mine(Entry)
  BY Zenon DEF PostWalk, Defect2, Defect5, Defect6, Defect8, Defect9, Defect10, Due, DueHere
<1>2. /\ Entry.as_of \in Days /\ TablesTyped(books) /\ DOMAIN books.nav = Days
      /\ DOMAIN schedule = 1 .. Len(schedule) /\ Len(schedule) \in Nat /\ cursor \in Nat
  BY <1>1, Operating, ScheduleLength DEF Typed, ChoicesTyped
<1>3. PICK d, T : d = Entry.as_of /\ T = input'.trades
  OBVIOUS
<1>4. /\ \A t \in input.trades : Ticket(t)
      /\ \A t \in input.trades : t.note = "flipped" =>
           \E k \in 1 .. cursor - 1 : FlipEntry(k, t.day)
      /\ \A x \in Days \ {1} : \A i \in Instruments : Adds(books, i, x) <=> ~Flipped(i, x)
  BY <1>1 DEF Reconciling, Late
<1>5. ASSUME NEW i \in Instruments, NEW x \in Days \ {1},
             TradesOf(i, x)' = TradesOf(i, x)
      PROVE  (Adds(books, i, x) <=> ~Flipped(i, x))'
  <2>1. x \in Days /\ x - 1 \in Days
    BY LastDayAssumption DEF Days
  <2>2. /\ Size(books'.holdings[x], i) = Size(books.holdings[x], i)
        /\ Size(books'.holdings[x - 1], i) = Size(books.holdings[x - 1], i)
    BY <2>1, SurgerySizes
  <2>3. Turnover(TradesOf(i, x))' = Turnover(TradesOf(i, x))
    BY <1>5 DEF Turnover, SignedQty
  <2>4. Adds(books, i, x)' <=> Adds(books, i, x)
    BY <2>2, <2>3 DEF Adds
  <2>5. Flipped(i, x)' <=> Flipped(i, x)
    BY <1>5 DEF Flipped
  <2> QED
    BY <1>4, <2>4, <2>5
<1>6. CASE T = input.trades
  <2>1. \A t \in T : t.note = "flipped" => \E k \in 1 .. cursor' - 1 : FlipEntry(k, t.day)
    BY <1>1, <1>2, <1>4, <1>6
  <2>2. \A i, x : TradesOf(i, x)' = TradesOf(i, x)
    BY <1>3, <1>6 DEF TradesOf
  <2>3. \A x \in Days \ {1} : \A i \in Instruments : (Adds(books, i, x) <=> ~Flipped(i, x))'
    BY <1>5, <2>2
  <2> QED
    BY <1>1, <1>3, <1>4, <1>6, <2>1, <2>3 DEF Reconciling, Early, Late, FlipEntry, Mine
<1>7. ASSUME NEW t, Flip(T, t, d), Entry.code = "trade_wrong_side" PROVE Reconciling'
  <2>1. PICK u : /\ u = [t EXCEPT !.side = Opposite(t.side), !.note = "flipped"]
                 /\ T = (input.trades \ {t}) \cup {u} /\ t \in input.trades /\ t.day = d
    BY <1>7 DEF Flip
  <2>2. /\ Ticket(u) /\ u.note = "flipped" /\ u.instr = t.instr /\ u.day = d
    BY <1>4, <2>1, FlipChanges
  <2>3. FlipEntry(cursor, d)
    BY <1>1, <1>3, <1>7 DEF FlipEntry, Entry
  <2>4. ASSUME NEW v \in input.trades, v.day = d PROVE v.note # "flipped"
    <3>1. ASSUME v.note = "flipped" PROVE FALSE
      <4>1. PICK k \in 1 .. cursor - 1 : FlipEntry(k, d)
        BY <1>4, <2>4, <3>1
      <4>2. k \in DOMAIN schedule /\ k # cursor
        BY <1>1, <1>2
      <4> QED
        BY <1>1, <2>3, <4>1, <4>2 DEF FlipEntry, OneFlip, Mine
    <3> QED
      BY <3>1
  <2>5. \A v \in T : v.note = "flipped" => \E k \in 1 .. cursor' - 1 : FlipEntry(k, v.day)
    <3>1. \A k \in 1 .. cursor - 1 : k \in 1 .. cursor' - 1
      BY <1>1, <1>2
    <3>2. cursor \in 1 .. cursor' - 1
      BY <1>1, <1>2
    <3> QED
      BY <1>4, <2>1, <2>2, <2>3, <3>1, <3>2
  <2>6. ASSUME NEW i \in Instruments, NEW x \in Days \ {1}, i # t.instr \/ x # d
        PROVE  (Adds(books, i, x) <=> ~Flipped(i, x))'
    <3>1. TradesOf(i, x)' = TradesOf(i, x)
      BY <1>3, <2>1, <2>2, <2>6 DEF TradesOf
    <3> QED
      BY <1>5, <3>1
  <2>7. ASSUME t.instr \in Instruments, d \in Days \ {1}
        PROVE  (Adds(books, t.instr, d) <=> ~Flipped(t.instr, d))'
    <3>1. PICK i : i = t.instr
      OBVIOUS
    <3>2. ~Flipped(i, d)
      BY <2>4 DEF Flipped, TradesOf
    <3>3. Adds(books, i, d)
      BY <1>4, <2>7, <3>1, <3>2
    <3>4. d - 1 \in Days
      BY <2>7, LastDayAssumption DEF Days
    <3>5. /\ Size(books'.holdings[d], i) = Size(books.holdings[d], i)
          /\ Size(books'.holdings[d - 1], i) = Size(books.holdings[d - 1], i)
      BY <2>7, <3>4, SurgerySizes
    <3>6. PICK q : q = Size(books.holdings[d - 1], i)
      OBVIOUS
    <3>7. IsRat(q)
      BY <1>2, <3>4, <3>6, ZeroOne DEF Size, TablesTyped, DayTyped, HoldingTyped
    <3>8. q \oplus Turnover(TradesOf(i, d))' # q \oplus Turnover(TradesOf(i, d))
      <4>1. Flip(input'.trades, t, t.day)
        BY <1>3, <1>7, <2>1
      <4>2. \A v \in TradesOf(t.instr, t.day) : v.note # "flipped"
        BY <2>1, <2>4 DEF TradesOf
      <4>3. q \oplus Turnover(TradesOf(t.instr, t.day))'
              # q \oplus Turnover(TradesOf(t.instr, t.day))
        BY <1>4, <3>7, <4>1, <4>2, FlipShows
      <4> QED
        BY <2>1, <3>1, <4>3
    <3>9. ~Adds(books, i, d)'
      BY <3>3, <3>5, <3>6, <3>8 DEF Adds
    <3>10. Flipped(i, d)'
      BY <1>3, <2>1, <2>2, <3>1 DEF Flipped, TradesOf
    <3> QED
      BY <3>1, <3>9, <3>10
  <2>8. \A x \in Days \ {1} : \A i \in Instruments : (Adds(books, i, x) <=> ~Flipped(i, x))'
    BY <2>6, <2>7
  <2>9. \A v \in T : Ticket(v)
    BY <1>4, <2>1, <2>2
  <2> QED
    BY <1>1, <1>3, <2>5, <2>8, <2>9 DEF Reconciling, Early, Late, FlipEntry, Mine
<1> QED
  BY <1>3, <1>6, <1>7, SurgeryTrades

\* What is left of Next adds no trade, flips none and moves no position.
LEMMA OthersReconcile ==
  ASSUME Typed, Following, Reconciling, fund' = fund, schedule' = schedule,
         Generate \/ PreWalk \/ Elsewhere \/ PassOver \/ EndInjection \/ UpdateCatalog \/ Built
           \/ UNCHANGED vars,
         ~WriteTrades
  PROVE  Reconciling'
<1>1. /\ UNCHANGED << walk, books >> /\ input'.trades = input.trades
      /\ phase' \in Early => phase \in Early
      /\ phase' = "walk" => phase = "walk" \/ phase = "prewalk"
      /\ phase' = "postwalk" => phase = "postwalk" /\ cursor' \in {cursor, cursor + 1}
      /\ phase' \in Late => phase \in Late
  <2>1. Inputs \subseteq DOMAIN input
    BY DEF Typed, InputTyped
  <2>2. CASE Generate
    BY <2>1, <2>2 DEF Generate, WriteFx, WriteEquityPrices, WriteBonds, WriteCorporateActions,
                      WriteCapstock, Advance, Early, Late, Inputs
  <2>3. CASE PreWalk
    BY <2>1, <2>3 DEF PreWalk, Defect1, Defect3, Defect4, Defect7, Due, DueHere, Early, Late, Inputs
  <2>4. CASE PassOver \/ EndInjection \/ UpdateCatalog \/ Built \/ UNCHANGED vars
    BY <2>4 DEF PassOver, EndInjection, UpdateCatalog, Built, vars, Advance, Early, Late
  <2>5. CASE Elsewhere
    BY <2>5, ElsewhereKeeps, ElsewhereInput DEF Early, Late
  <2> QED
    BY <2>2, <2>3, <2>4, <2>5
<1>2. \A i, x : TradesOf(i, x)' = TradesOf(i, x)
  BY <1>1 DEF TradesOf
<1>3. \A i, x : Turnover(TradesOf(i, x))' = Turnover(TradesOf(i, x))
  BY <1>2 DEF Turnover, SignedQty
<1>4. \A i, x : /\ Adds(walk.rows, i, x)' <=> Adds(walk.rows, i, x)
                /\ Adds(books, i, x)' <=> Adds(books, i, x)
                /\ Flipped(i, x)' <=> Flipped(i, x)
  BY <1>1, <1>2, <1>3 DEF Adds, Flipped
<1>5. phase' = "walk" => \A x \in DOMAIN walk'.rows.nav \ {1} : \A i \in Instruments :
                            Adds(walk.rows, i, x)'
  <2>1. CASE phase = "walk"
    BY <1>1, <1>4, <2>1 DEF Reconciling
  <2>2. CASE phase = "prewalk"
    <3>1. walk.day = 1
      BY <2>2 DEF Following, Early
    <3>2. DOMAIN walk.rows.nav = {}
      BY <3>1 DEF Typed, WalkTyped
    <3> QED
      BY <1>1, <3>2
  <2> QED
    BY <1>1, <2>1, <2>2
<1>6. phase' \in Late => \A x \in Days \ {1} : \A i \in Instruments :
                            (Adds(books, i, x) <=> ~Flipped(i, x))'
  BY <1>1, <1>4 DEF Reconciling
<1>7. phase' = "postwalk" => \A t \in input'.trades : t.note = "flipped" =>
        \E k \in 1 .. cursor' - 1 : FlipEntry(k, t.day)'
  <2> SUFFICES ASSUME phase' = "postwalk", NEW t \in input.trades, t.note = "flipped"
               PROVE  \E k \in 1 .. cursor' - 1 : FlipEntry(k, t.day)'
    BY <1>1
  <2>1. PICK k \in 1 .. cursor - 1 : FlipEntry(k, t.day)
    BY <1>1 DEF Reconciling
  <2>2. cursor \in Int
    BY ScheduleLength DEF Typed, ChoicesTyped
  <2>3. k \in 1 .. cursor' - 1
    BY <1>1, <2>2
  <2> QED
    BY <2>1, <2>3 DEF FlipEntry, Mine
<1> QED
  BY <1>1, <1>5, <1>6, <1>7 DEF Reconciling

LEMMA WriteTradesReconciles ==
  ASSUME Typed, WriteTrades PROVE Reconciling'
<1>1. PICK drawn \in TradeDraws : input' = [input EXCEPT !.trades =
         {[id |-> t.id, instr |-> t.instr, side |-> t.side, qty |-> t.qty,
           day |-> t.day, price |-> Zero, note |-> ""] : t \in drawn}]
  BY DEF WriteTrades
<1>2. input'.trades = {[id |-> t.id, instr |-> t.instr, side |-> t.side, qty |-> t.qty,
                        day |-> t.day, price |-> Zero, note |-> ""] : t \in drawn}
  BY <1>1 DEF Typed, InputTyped, Inputs
<1>3. ASSUME NEW t \in drawn PROVE IsRat(t.qty) /\ t.qty # Zero
  BY DrawsAssumption, PositiveDivisor DEF Divisor
<1>4. ASSUME NEW t \in input'.trades PROVE Ticket(t) /\ t.price = Zero /\ t.note = ""
  <2>1. PICK x \in drawn :
          t = [id |-> x.id, instr |-> x.instr, side |-> x.side, qty |-> x.qty,
               day |-> x.day, price |-> Zero, note |-> ""]
    BY <1>2
  <2>2. /\ t.id = x.id /\ t.instr = x.instr /\ t.side = x.side /\ t.qty = x.qty
        /\ t.day = x.day /\ t.price = Zero /\ t.note = ""
    BY <2>1
  <2> QED
    BY <1>3, <2>1, <2>2 DEF Ticket
<1>5. phase' = "capstock"
  BY DEF WriteTrades, Advance
<1> QED
  BY <1>4, <1>5 DEF Reconciling, Late

LEMMA NextReconciles ==
  Typed /\ Solvent /\ Solvent' /\ Following /\ OneFlip(fund, schedule) /\ Reconciling /\ [Next]_vars
    => Reconciling'
<1> SUFFICES ASSUME Typed, Solvent, Solvent', Following, OneFlip(fund, schedule), Reconciling, [Next]_vars
             PROVE  Reconciling'
  OBVIOUS
<1>1. fund' = fund /\ schedule' = schedule
  BY NextSame DEF vars
<1>2. CASE WriteTrades
  BY <1>2, WriteTradesReconciles
<1>3. CASE WalkDay
  BY <1>3, WalkDayReconciles
<1>4. CASE BulkWrite
  BY <1>4, BulkWriteReconciles
<1>5. CASE PostWalk
  BY <1>1, <1>5, SurgeryReconciles
<1>6. CASE /\ Generate \/ PreWalk \/ Elsewhere \/ PassOver \/ EndInjection \/ UpdateCatalog \/ Built
                \/ UNCHANGED vars
           /\ ~WriteTrades
  BY <1>1, <1>6, OthersReconcile
<1> QED
  BY <1>2, <1>3, <1>4, <1>5, <1>6 DEF Next

\* As long as the fund goes on, and no day of it has two flips scheduled, a position
\* differs from that of the day before by the trades of the day exactly when none
\* of them was flipped (defects.py:377-399): the walk books every trade once
\* (walk.py:178-220), and no other injector moves a position or a trade.
THEOREM PositionsAlwaysReconcile ==
  ASSUME \A f \in Funds : \A s \in f.schedules : OneFlip(f, s)
  PROVE  Spec /\ []Solvent => []PositionsReconcile
<1>1. Init => Reconciling /\ OneFlip(fund, schedule)
  <2> SUFFICES ASSUME Init PROVE Reconciling /\ OneFlip(fund, schedule)
    OBVIOUS
  <2>1. input.trades = {} /\ phase = "fx" /\ fund \in Funds /\ schedule \in fund.schedules
    BY DEF Init
  <2> QED
    BY <2>1 DEF Reconciling, Late
<1>2. Typed /\ Reconciling => PositionsReconcile
  <2> SUFFICES ASSUME Typed, Reconciling PROVE PositionsReconcile
    OBVIOUS
  <2>1. ASSUME NEW i, NEW d PROVE Traded(i, d) = Turnover(TradesOf(i, d))
    BY DEF Traded, Turnover, TradesOf, SignedQty
  <2>2. ASSUME NEW i, NEW d
        PROVE  /\ phase = "walk" => (Adds(walk.rows, i, d) <=>
                    Quantity(i, d) = Quantity(i, d - 1) \oplus Traded(i, d))
               /\ phase \in Late => (Adds(books, i, d) <=>
                    Quantity(i, d) = Quantity(i, d - 1) \oplus Traded(i, d))
    BY <2>1 DEF Adds, Size, Quantity, Rows, Late
  <2>3. phase \in Late => Struck = Days
    BY DEF Struck, Rows, Late, Typed, BooksTyped
  <2>4. ASSUME phase = "walk", NEW d \in Struck \ {1}, NEW i \in Instruments
        PROVE  (Quantity(i, d) = Quantity(i, d - 1) \oplus Traded(i, d)) <=> ~Flipped(i, d)
    BY <2>2, <2>4 DEF Reconciling, Struck, Rows, Early, Flipped, TradesOf
  <2>5. ASSUME phase \in Late, NEW d \in Struck \ {1}, NEW i \in Instruments
        PROVE  (Quantity(i, d) = Quantity(i, d - 1) \oplus Traded(i, d)) <=> ~Flipped(i, d)
    BY <2>2, <2>3, <2>5 DEF Reconciling
  <2> QED
    BY <2>4, <2>5 DEF PositionsReconcile, Flipped, TradesOf, Late
<1>3. Spec /\ []Solvent => []Typed
  BY InitTyped, NextTyped, PTL DEF Spec
<1>4. OneFlip(fund, schedule) /\ [Next]_vars => OneFlip(fund, schedule)'
  BY NextSame DEF vars, OneFlip
<1>5. Init => Following
  BY InitFollows
<1> QED
  BY <1>1, <1>2, <1>3, <1>4, <1>5, NextReconciles, NextFollows, PTL DEF Spec

(***************************************************************************)
(* Signals and seeds.                                                      *)
(***************************************************************************)

\* The entries of a code that the loop before the walk has passed, those that
\* the loop after it has, and of these the fund's own.
Injected(code) ==
  {k \in DOMAIN schedule : /\ schedule[k].code = code
                           /\ \/ phase = "prewalk" /\ k < cursor
                              \/ phase \in {"walk", "postwalk", "catalog", "done"}}
Passed(code) ==
  {k \in DOMAIN schedule : /\ schedule[k].code = code
                           /\ \/ phase = "postwalk" /\ k < cursor
                              \/ phase \in {"catalog", "done"}}
Acted(code) == {k \in Passed(code) : Mine(schedule[k])}

\* Each loop begins with the first entry.
Paced == phase \in Early \ {"prewalk"} => cursor = 1

(* What an entry must say for its signal to be seen: a day before its own   *)
(* to go back to, and in the fund it is for, a rate that is not the         *)
(* treaty's, a mark that is not the class's, a fee that another class pays. *)
Tells(f, e) ==
  /\ e.code = "missed_corp_action" => e.as_of > 1
  /\ e.code = "missed_coupon_accrual" => e.missed_days \in 1 .. e.as_of - 1
  /\ e.fund_id = f.id =>
       /\ e.code = "subscription_pre_cutoff" => e.as_of > 1
       /\ e.code = "wrong_wht" =>
            e.applied_rate # GetWhtRates(f.domicile, Instr[e.instr].country).treaty
       /\ e.code = "stale_hwm_perf_fee" => e.offset # Zero
       /\ e.code = "class_fee_misallocation" =>
            f.classes[e.from].mgmt # Zero /\ ~f.classes[e.from].has_hwm
\* No code is scheduled twice: the second entry could undo the first.
OnceEach(s) == \A k, l \in DOMAIN s : s[k].code = s[l].code => k = l
Telling(f, s) == OnceEach(s) /\ \A k \in DOMAIN s : Tells(f, s[k])

(* A bond accrues a coupon a day, but in the days an entry has frozen, when  *)
(* it has what it had on the last good day.                                  *)
Frozen(k, b, d) == schedule[k].instr = b /\ d \in FrozenWindow(schedule[k])
GoodDay(k) == schedule[k].as_of - schedule[k].missed_days
Accruing ==
  phase \notin {"fx", "equities", "bonds"} =>
    \A d \in Days : \A b \in Bonds :
      /\ \A k \in Injected("missed_coupon_accrual") :
           Frozen(k, b, d) => input.accruals[d][b] = Rat(GoodDay(k)) \otimes CouponDaily
      /\ (\A k \in Injected("missed_coupon_accrual") : ~Frozen(k, b, d)) =>
           input.accruals[d][b] = Rat(d) \otimes CouponDaily

\* An order is late when an injector has booked it.
IsLate(e) == e.received > CutoffTime
Ordering ==
  /\ phase \in Early => \A e \in input.capstock : ~IsLate(e)
  /\ phase \in Late => \A e \in input.capstock : IsLate(e) =>
       \E k \in Acted("subscription_pre_cutoff") : schedule[k].as_of = e.day
  /\ phase \in Late => \A k \in Acted("subscription_pre_cutoff") :
       \E e \in input.capstock : IsLate(e) /\ e.day = schedule[k].as_of

\* An action is one that is paid, or one that an entry has added: unapplied
\* before the walk, or after it for the holders of a fund that has the receipt.
Seeding == {"CA_DEFECT_3", "CA_DEFECT_9"}
Omits(k, ca) ==
  ca.id = "CA_DEFECT_3" /\ ca.instr = schedule[k].instr /\ ca.pay = schedule[k].as_of
Brings(k, ca) ==
  ca.id = "CA_DEFECT_9" /\ ca.instr = schedule[k].instr /\ ca.pay = schedule[k].as_of
IsPaid(b, ca) == \E x \in b.receipts : x.id = ca.id
Owed(b, ca) == ca.applied /\ ca.pay \in DOMAIN b.nav /\ Zero \prec Size(b.holdings[ca.pay], ca.instr)
Paying(b) ==
  /\ \A x \in b.receipts : x.id # "CA_DEFECT_3"
  /\ \A ca \in input.actions : ca.id \notin Seeding /\ Owed(b, ca) => IsPaid(b, ca)
Applying ==
  /\ \A ca \in input.actions :
       \/ ca.applied /\ ca.pay \in Days /\ ca.id \notin Seeding
       \/ ~ca.applied /\ \E k \in Injected("missed_corp_action") : Omits(k, ca)
       \/ \E k \in Passed("wrong_wht") : Brings(k, ca)
  /\ \A k \in Injected("missed_corp_action") : \E ca \in input.actions : Omits(k, ca)
Payments ==
  /\ Applying
  /\ phase \in Early => Paying(walk.rows)
  /\ phase \in Late => Paying(books)

\* A receipt is taxed at the treaty rate but where an entry says otherwise.
Treaty(x) == x.rate = GetWhtRates(fund.domicile, Instr[x.instr].country).treaty
Taxes(k, d) == schedule[k].as_of = d /\ Zero \prec Size(books.holdings[d], schedule[k].instr)
\* The receipt of the injected dividend is there when the fund is the entry's.
FromDefect9(x) == x.id = "CA_DEFECT_9"
Taxing ==
  /\ \A x \in walk.rows.receipts : Treaty(x) /\ ~FromDefect9(x)
  /\ phase \in Late => \A x \in books.receipts :
       (Treaty(x) /\ ~FromDefect9(x)) \/ \E k \in Acted("wrong_wht") : Taxes(k, x.day)
  /\ phase \in Late => \A k \in Acted("wrong_wht") : \A d \in Days :
       Taxes(k, d) => \E x \in books.receipts : ~Treaty(x) /\ FromDefect9(x) /\ x.day = d

\* A high-water mark is the class's but where an entry says otherwise.
Strikes(k, d, c) == schedule[k].as_of = d /\ schedule[k].class = c
Mark(b, d, c) == b.fees[d][c].hwm = fund.classes[c].nav
Marking ==
  /\ \A c \in DOMAIN fund.classes :
       /\ fund.classes[c].nav # Zero
       /\ "hwm" \in DOMAIN walk.classes[c] /\ walk.classes[c].hwm = fund.classes[c].nav
  /\ \A d \in DOMAIN walk.rows.nav : \A c \in DOMAIN fund.classes : Mark(walk.rows, d, c)
  /\ phase \in Late => \A d \in Days : \A c \in DOMAIN fund.classes :
       Mark(books, d, c) <=> ~\E k \in Acted("stale_hwm_perf_fee") : Strikes(k, d, c)

\* A fee is the class's rate but where an entry says otherwise.
Gross(b, d, c) ==
  /\ "gav" \in DOMAIN b.nav[d][c] /\ IsRat(b.nav[d][c].gav)
  /\ ~fund.classes[c].has_hwm => b.nav[d][c].gav # Zero
Charge(b, d, c) == b.fees[d][c].mgmt = b.nav[d][c].gav \otimes fund.classes[c].mgmt
Charging ==
  /\ \A d \in DOMAIN walk.rows.nav : \A c \in DOMAIN fund.classes :
       Gross(walk.rows, d, c) /\ Charge(walk.rows, d, c)
  /\ phase \in Late => \A d \in Days : \A c \in DOMAIN fund.classes :
       /\ Gross(books, d, c)
       /\ Charge(books, d, c) <=> ~\E k \in Acted("class_fee_misallocation") : Strikes(k, d, c)

\* A step that is no injector's.
Idle == ~PreWalk /\ ~PostWalk /\ ~Elsewhere

LEMMA Looping ==
  ASSUME Typed, Paced, [Next]_vars
  PROVE  /\ fund' = fund /\ schedule' = schedule /\ cursor \in Nat /\ Len(schedule) \in Nat
         /\ DOMAIN schedule = 1 .. Len(schedule)
         /\ \/ phase' = phase /\ cursor' = cursor /\ Idle
            \/ /\ phase' \notin {"walk"} \cup Late /\ phase \notin {"prewalk", "walk"} \cup Late
               /\ cursor = 1 /\ cursor' = 1 /\ Idle
            \/ /\ phase = "prewalk" /\ phase' = "prewalk" /\ cursor' = cursor + 1 /\ ~PostWalk /\ ~Elsewhere
               /\ cursor \in DOMAIN schedule /\ Entry.code \in PreWalkCodes <=> PreWalk
            \/ /\ phase = "prewalk" /\ phase' = "walk" /\ cursor' = 1 /\ Idle
               /\ cursor = Len(schedule) + 1
            \/ /\ phase = "walk" /\ phase' = "postwalk" /\ cursor' = 1 /\ Idle
               /\ BulkWrite
            \/ /\ phase = "postwalk" /\ phase' = "postwalk" /\ cursor' = cursor + 1 /\ ~PreWalk
               /\ cursor \in DOMAIN schedule
               /\ (Entry.code \in PostWalkCodes /\ Mine(Entry)) <=> PostWalk
               /\ (Entry.code \in PostWalkCodes /\ ~Mine(Entry)) <=> Elsewhere
            \/ /\ phase = "postwalk" /\ phase' = "catalog" /\ Idle
               /\ cursor = Len(schedule) + 1
            \/ /\ phase = "catalog" /\ phase' = "done" /\ Idle
<1>1. fund' = fund /\ schedule' = schedule
  BY NextSame DEF vars
<1>2. Len(schedule) \in Nat /\ DOMAIN schedule = 1 .. Len(schedule) /\ cursor \in Nat
  BY ScheduleLength DEF Typed, ChoicesTyped
<1>3. /\ PreWalk => /\ phase = "prewalk" /\ phase' = phase /\ cursor \in DOMAIN schedule
                    /\ cursor' = cursor + 1 /\ Entry.code \in PreWalkCodes
      /\ PostWalk => /\ phase = "postwalk" /\ phase' = phase /\ cursor \in DOMAIN schedule
                     /\ cursor' = cursor + 1 /\ Entry.code \in PostWalkCodes /\ Mine(Entry)
      /\ Elsewhere => /\ phase = "postwalk" /\ phase' = phase /\ cursor \in DOMAIN schedule
                      /\ cursor' = cursor + 1 /\ Entry.code \in PostWalkCodes /\ ~Mine(Entry)
  BY ElsewhereKeeps, Zenon DEF PreWalk, PostWalk, Defect1, Defect3, Defect4, Defect7, Defect2, Defect5, Defect6,
               Defect8, Defect9, Defect10, Due, DueHere, PreWalkCodes, PostWalkCodes
<1>4. CASE Generate
  <2>1. /\ phase \in {"fx", "equities", "bonds", "actions", "trades", "capstock"}
        /\ phase' \in {"equities", "bonds", "actions", "trades", "capstock", "prewalk"}
        /\ cursor' = cursor
    BY <1>4 DEF Generate, WriteFx, WriteEquityPrices, WriteBonds, WriteCorporateActions,
                WriteTrades, WriteCapstock, Advance
  <2>2. cursor = 1
    BY <2>1 DEF Paced, Early
  <2> QED
    BY <1>1, <1>2, <1>3, <2>1, <2>2 DEF Late, Idle
<1>5. CASE PassOver
  <2>1. /\ phase' = phase /\ cursor' = cursor + 1 /\ cursor \in DOMAIN schedule
        /\ \/ phase = "prewalk" /\ Entry.code \notin PreWalkCodes
           \/ phase = "postwalk" /\ Entry.code \notin PostWalkCodes
    BY <1>5 DEF PassOver
  <2> QED
    BY <1>1, <1>2, <1>3, <2>1 DEF Idle
<1>6. CASE EndInjection
  BY <1>1, <1>2, <1>3, <1>6 DEF EndInjection, Advance, Idle
<1>7. CASE BulkWrite
  BY <1>1, <1>2, <1>3, <1>7 DEF BulkWrite, Advance, Paced, Early, Idle
<1>8. CASE UpdateCatalog
  BY <1>1, <1>2, <1>3, <1>8 DEF UpdateCatalog, Advance, Idle
<1>9. CASE WalkDay
  BY <1>1, <1>2, <1>3, <1>9 DEF WalkDay, Idle
<1>10. CASE UNCHANGED vars
  BY <1>1, <1>2, <1>3, <1>10 DEF vars, Idle
<1>11. CASE PreWalk \/ PostWalk \/ Elsewhere
  BY <1>1, <1>2, <1>3, <1>11 DEF Idle
<1> QED
  BY <1>4, <1>5, <1>6, <1>7, <1>8, <1>9, <1>10, <1>11 DEF Next, Built

LEMMA NextPaced == Typed /\ Paced /\ [Next]_vars => Paced'
  BY Looping DEF Paced, Early, Late, Typed, ChoicesTyped

LEMMA InjectedGrows ==
  ASSUME Typed, Paced, [Next]_vars, NEW code \in PreWalkCodes
  PROVE  Injected(code)' = IF PreWalk /\ Entry.code = code THEN Injected(code) \cup {cursor}
                           ELSE Injected(code)
<1>1. ASSUME PreWalk, Entry.code = code PROVE Injected(code)' = Injected(code) \cup {cursor}
  BY <1>1, Looping DEF Injected, Entry, Late, Idle
<1>2. ASSUME ~(PreWalk /\ Entry.code = code) PROVE Injected(code)' = Injected(code)
  BY <1>2, Looping DEF Injected, Entry, Late, Idle
<1> QED
  BY <1>1, <1>2

LEMMA PassedGrows ==
  ASSUME Typed, Paced, [Next]_vars, NEW code \in PostWalkCodes
  PROVE  Passed(code)' = IF (PostWalk \/ Elsewhere) /\ Entry.code = code
                         THEN Passed(code) \cup {cursor} ELSE Passed(code)
<1>1. ASSUME PostWalk \/ Elsewhere, Entry.code = code
      PROVE  Passed(code)' = Passed(code) \cup {cursor}
  BY <1>1, Looping DEF Passed, Entry, Late, Idle
<1>2. ASSUME ~((PostWalk \/ Elsewhere) /\ Entry.code = code) PROVE Passed(code)' = Passed(code)
  BY <1>2, Looping DEF Passed, Entry, Late, Idle
<1> QED
  BY <1>1, <1>2

LEMMA ActedGrows ==
  ASSUME Typed, Paced, [Next]_vars, NEW code \in PostWalkCodes
  PROVE  Acted(code)' = IF PostWalk /\ Entry.code = code THEN Acted(code) \cup {cursor}
                        ELSE Acted(code)
<1>1. fund' = fund /\ schedule' = schedule
  BY Looping
<1>2. PostWalk => Mine(Entry)
  BY Looping DEF Idle
<1>3. Elsewhere => ~Mine(Entry)
  BY ElsewhereKeeps
<1> QED
  BY <1>1, <1>2, <1>3, PassedGrows DEF Acted, Mine, Entry

LEMMA InputFields ==
  ASSUME Typed, [Next]_vars
  PROVE  /\ WriteBonds \/ Defect7 \/ input'.accruals = input.accruals
         /\ WriteCapstock \/ BulkWrite \/ Defect8 \/ input'.capstock = input.capstock
         /\ \/ WriteCorporateActions \/ Defect3 \/ Defect9 \/ Defect9Elsewhere
            \/ input'.actions = input.actions
<1>1. Inputs \subseteq DOMAIN input
  BY DEF Typed, InputTyped
<1>2. CASE Generate
  BY <1>1, <1>2 DEF Generate, WriteFx, WriteEquityPrices, WriteCorporateActions, WriteTrades,
                    WriteBonds, WriteCapstock, Advance, Inputs
<1>3. CASE PreWalk
  <2>1. CASE Defect1
    BY <1>1, <2>1 DEF Defect1, Inputs
  <2>2. CASE Defect3
    <3>1. input' = input \/ \E A, P : input' = [input EXCEPT !.actions = A, !.prices = P]
      BY <2>2, Zenon DEF Defect3
    <3> QED
      BY <1>1, <2>2, <3>1 DEF Inputs
  <2>3. CASE Defect4
    BY <1>1, <2>3 DEF Defect4, Inputs
  <2>4. CASE Defect7
    BY <1>1, <2>4 DEF Defect7, Inputs
  <2> QED
    BY <1>3, <2>1, <2>2, <2>3, <2>4 DEF PreWalk
<1>4. CASE PostWalk
  <2>1. CASE Defect2
    BY <1>1, <2>1 DEF Defect2, Inputs
  <2>2. CASE Defect6
    BY <1>1, <2>2 DEF Defect6, Inputs
  <2>3. CASE Defect8
    <3>1. input' = input \/ \E S : input' = [input EXCEPT !.capstock = S]
      BY <2>3, Zenon DEF Defect8
    <3> QED
      BY <1>1, <2>3, <3>1 DEF Inputs
  <2>4. CASE Defect9
    <3>1. input' = input \/ \E S : input' = [input EXCEPT !.actions = S]
      BY <2>4, Zenon DEF Defect9
    <3> QED
      BY <1>1, <2>4, <3>1 DEF Inputs
  <2>5. CASE Defect5 \/ Defect10
    BY <2>5 DEF Defect5, Defect10
  <2> QED
    BY <1>4, <2>1, <2>2, <2>3, <2>4, <2>5 DEF PostWalk
<1>5. CASE BulkWrite
  <2>1. input' = Finalized(walk.rows)
    BY <1>5 DEF BulkWrite
  <2> QED
    BY <1>1, <1>5, <2>1 DEF Finalized, Inputs
<1>6. CASE WalkDay \/ PassOver \/ EndInjection \/ UpdateCatalog \/ Built \/ UNCHANGED vars
  BY <1>6 DEF WalkDay, PassOver, EndInjection, UpdateCatalog, Built, vars
<1>7. CASE Elsewhere
  <2>1. input'.accruals = input.accruals /\ input'.capstock = input.capstock
    BY <1>7, ElsewhereInput
  <2>2. Defect9Elsewhere \/ input'.actions = input.actions
    BY <1>1, <1>7 DEF Elsewhere, Defect2Elsewhere, RowsElsewhere, Inputs
  <2> QED
    BY <2>1, <2>2
<1> QED
  BY <1>2, <1>3, <1>4, <1>5, <1>6, <1>7 DEF Next

LEMMA TablesKept ==
  ASSUME [Next]_vars
  PROVE  /\ WalkDay \/ walk' = walk
         /\ BulkWrite \/ PostWalk \/ books' = books
<1>1. CASE Generate
  BY <1>1 DEF Generate, WriteFx, WriteEquityPrices, WriteCorporateActions, WriteTrades,
              WriteBonds, WriteCapstock
<1>2. CASE PreWalk
  BY <1>2 DEF PreWalk, Defect1, Defect3, Defect4, Defect7
<1>3. CASE PostWalk
  BY <1>3, Zenon DEF PostWalk, Defect2, Defect5, Defect6, Defect8, Defect9, Defect10
<1>4. CASE BulkWrite \/ WalkDay \/ PassOver \/ EndInjection \/ UpdateCatalog \/ Built \/ UNCHANGED vars
  BY <1>4 DEF BulkWrite, WalkDay, PassOver, EndInjection, UpdateCatalog, Built, vars
<1>5. CASE Elsewhere
  BY <1>5, ElsewhereKeeps
<1> QED
  BY <1>1, <1>2, <1>3, <1>4, <1>5 DEF Next

LEMMA ProductCancels ==
  ASSUME NEW a, NEW b, NEW c, IsRat(a), IsRat(b), Divisor(c), a \otimes c = b \otimes c
  PROVE  a = b
<1>1. PICK u : u = One \oslash c
  OBVIOUS
<1>2. IsRat(c) /\ IsRat(u) /\ c \otimes u = One
  <2>1. IsRat(c) /\ c # Zero
    BY DEF Divisor
  <2>2. IsRat(u) /\ u \otimes c = One
    BY <1>1, <2>1, ZeroOne, QuotientIsRat, QuotientCancels
  <2> QED
    BY <2>1, <2>2, ProductCommutes
<1>3. (a \otimes c) \otimes u = a /\ (b \otimes c) \otimes u = b
  BY <1>2, ProductAssociates, OneProduct
<1> QED
  BY <1>3

-----------------------------------------------------------------------------
(* The accruals.                                                           *)

LEMMA CouponsDiffer ==
  ASSUME NEW m \in Int, NEW n \in Int, Rat(m) \otimes CouponDaily = Rat(n) \otimes CouponDaily
  PROVE  m = n
<1>1. Divisor(CouponDaily)
  BY RatesAssumption, PositiveDivisor
<1>2. Rat(m) = Rat(n)
  BY <1>1, Integral, ProductCancels
<1> QED
  BY <1>2 DEF Rat

LEMMA Defect7Accrues ==
  ASSUME Typed, Paced, Telling(fund, schedule), Accruing, Defect7 PROVE Accruing'
<1>1. /\ phase = "prewalk" /\ phase' = "prewalk" /\ cursor \in DOMAIN schedule
      /\ Entry.code = "missed_coupon_accrual" /\ schedule' = schedule
  BY DEF Defect7, Due, DueHere
<1>2. PICK i, good, a : /\ i = Entry.instr /\ good = Entry.as_of - Entry.missed_days
                        /\ a = input.accruals
  OBVIOUS
<1>3. good \in Days /\ EntryComplete(fund, Entry) /\ good = GoodDay(cursor)
      /\ Entry.missed_days \in 1 .. Entry.as_of - 1 /\ Entry.as_of \in Days
  <2>1. EntryComplete(fund, Entry)
    BY <1>1, EntryIsComplete DEF Typed
  <2>2. Tells(fund, Entry)
    BY <1>1 DEF Telling, Entry
  <2>3. Entry.as_of \in Days /\ Entry.missed_days \in 1 .. Entry.as_of - 1
    BY <1>1, <2>1, <2>2 DEF EntryComplete, Tells
  <2> QED
    BY <1>2, <2>1, <2>3, LastDayAssumption DEF Days, GoodDay, Entry
<1>4. i \in Bonds
  BY <1>1, <1>2, <1>3 DEF EntryComplete
<1>5. AccrualsTyped(a)
  BY <1>1, <1>2 DEF Typed, InputTyped
<1>6. input'.accruals = Held(a, FrozenWindow(Entry), i, a[good][i])
  <2>1. input' = [input EXCEPT !.accruals = Held(@, FrozenWindow(Entry), Entry.instr,
                    input.accruals[Entry.as_of - Entry.missed_days][Entry.instr])]
    <3>1. Entry.as_of - Entry.missed_days \in Days
      BY <1>2, <1>3
    <3> QED
      BY <3>1, Zenon DEF Defect7
  <2>2. input' = [input EXCEPT !.accruals = Held(a, FrozenWindow(Entry), i, a[good][i])]
    BY <1>2, <2>1, Zenon
  <2> QED
    BY <2>2 DEF Typed, InputTyped, Inputs
<1>7. ASSUME NEW d \in Days, NEW b \in Bonds
      PROVE  input'.accruals[d][b] = IF b = i /\ d \in FrozenWindow(Entry) THEN a[good][i]
                                     ELSE a[d][b]
  BY <1>4, <1>5, <1>6 DEF Held, AccrualsTyped
<1>8. Injected("missed_coupon_accrual") = {}
  BY <1>1, Looping DEF Injected, Telling, OnceEach, Entry
<1>9. Injected("missed_coupon_accrual")' = {cursor}
  <2>1. PreWalk /\ "missed_coupon_accrual" \in PreWalkCodes
    BY DEF PreWalk, PreWalkCodes
  <2> QED
    BY <1>1, <1>8, <2>1, InjectedGrows DEF Next
<1>10. \A d \in Days : \A b \in Bonds : a[d][b] = Rat(d) \otimes CouponDaily
  BY <1>1, <1>2, <1>8 DEF Accruing
<1>11. ASSUME NEW d \in Days, NEW b \in Bonds
       PROVE  /\ Frozen(cursor, b, d) =>
                   input'.accruals[d][b] = Rat(GoodDay(cursor)) \otimes CouponDaily
              /\ ~Frozen(cursor, b, d) => input'.accruals[d][b] = Rat(d) \otimes CouponDaily
  BY <1>2, <1>3, <1>4, <1>7, <1>10 DEF Frozen, Entry
<1> QED
  BY <1>1, <1>9, <1>11 DEF Accruing, Frozen, GoodDay

LEMMA NextAccrues ==
  Typed /\ Paced /\ Telling(fund, schedule) /\ Accruing /\ [Next]_vars => Accruing'
<1> SUFFICES ASSUME Typed, Paced, Telling(fund, schedule), Accruing, [Next]_vars
             PROVE  Accruing'
  OBVIOUS
<1>1. CASE WriteBonds
  <2>1. phase = "bonds" /\ phase' = "actions"
    BY <1>1 DEF WriteBonds, Advance
  <2>2. input'.accruals = [d \in Days |-> [b \in Bonds |-> Rat(d) \otimes CouponDaily]]
    BY <1>1 DEF WriteBonds, Typed, InputTyped, Inputs
  <2>3. Injected("missed_coupon_accrual")' = {}
    BY <2>1 DEF Injected
  <2> QED
    BY <2>2, <2>3 DEF Accruing
<1>2. CASE Defect7
  BY <1>2, Defect7Accrues
<1>3. CASE ~WriteBonds /\ ~Defect7
  <2>1. input'.accruals = input.accruals
    BY <1>3, InputFields
  <2>2. Injected("missed_coupon_accrual")' = Injected("missed_coupon_accrual")
    <3>1. ~(PreWalk /\ Entry.code = "missed_coupon_accrual")
      BY <1>3 DEF PreWalk, Defect1, Defect3, Defect4, Due, DueHere
    <3> QED
      BY <3>1, InjectedGrows DEF PreWalkCodes
  <2>3. phase' \notin {"fx", "equities", "bonds"} => phase \notin {"fx", "equities", "bonds"}
    BY <1>3, ElsewhereKeeps, Zenon DEF Next, Generate, WriteFx, WriteEquityPrices, WriteCorporateActions,
                       WriteTrades, WriteCapstock, PreWalk, PostWalk, Defect1, Defect3, Defect4, Defect2, Defect5,
              Defect6, Defect8, Defect9, Defect10, Due, DueHere, BulkWrite, WalkDay, PassOver,
              EndInjection, UpdateCatalog, Built, vars, Advance
  <2>4. schedule' = schedule
    BY Looping
  <2> QED
    BY <2>1, <2>2, <2>3, <2>4 DEF Accruing, Frozen, GoodDay
<1> QED
  BY <1>1, <1>2, <1>3

-----------------------------------------------------------------------------
(* The orders.                                                             *)

LEMMA WriteCapstockOrders == ASSUME Typed, WriteCapstock PROVE Ordering'
<1>1. PICK drawn \in CapstockDraws :
        input' = [input EXCEPT !.capstock =
         {[id |-> e.id, class |-> e.class, day |-> e.day, received |-> CutoffTime - e.early,
           type |-> e.type, gross |-> e.gross, delta |-> Zero] :
             e \in {e \in drawn : e.class \in DOMAIN fund.classes}}]
  BY DEF WriteCapstock
<1>2. input'.capstock =
         {[id |-> e.id, class |-> e.class, day |-> e.day, received |-> CutoffTime - e.early,
           type |-> e.type, gross |-> e.gross, delta |-> Zero] :
             e \in {e \in drawn : e.class \in DOMAIN fund.classes}}
  BY <1>1 DEF Typed, InputTyped, Inputs
<1>3. ASSUME NEW x \in input'.capstock PROVE ~IsLate(x)
  <2>1. PICK e \in drawn : x.received = CutoffTime - e.early
    BY <1>2
  <2>2. e.early \in Nat
    BY DrawsAssumption
  <2> QED
    BY <2>1, <2>2 DEF IsLate, CutoffTime
<1>4. phase' = "prewalk"
  BY DEF WriteCapstock, Advance
<1> QED
  BY <1>3, <1>4 DEF Ordering, Late, IsLate

LEMMA BulkWriteOrders == ASSUME Typed, Paced, Rolling, Ordering, BulkWrite PROVE Ordering'
<1>1. /\ phase = "walk" /\ phase' = "postwalk" /\ input' = Finalized(walk.rows) /\ schedule' = schedule
  BY DEF BulkWrite, Advance
<1>2. PICK rows : rows = walk.rows
  OBVIOUS
<1>3. input'.capstock = {[e EXCEPT !.delta = SharesDelta(e, rows.nav[e.day][e.class].nav,
                                                rows.nav[e.day][e.class].prior)] : e \in input.capstock}
  BY <1>1, <1>2 DEF Finalized, Typed, InputTyped, Inputs
<1>4. ASSUME NEW x \in input'.capstock PROVE ~IsLate(x)
  <2>1. PICK e, v : e \in input.capstock /\ x = [e EXCEPT !.delta = v]
    BY <1>3
  <2>2. Booked(e) /\ ~IsLate(e)
    BY <1>1, <2>1 DEF Rolling, Ordering, Early
  <2>3. x.received = e.received
    BY <2>1, <2>2 DEF Booked
  <2> QED
    BY <2>2, <2>3 DEF IsLate
<1>5. Acted("subscription_pre_cutoff")' = {}
  BY <1>1, Looping DEF Acted, Passed, Next
<1> QED
  BY <1>1, <1>4, <1>5 DEF Ordering, Early, Late, IsLate

LEMMA Defect8Orders ==
  ASSUME Typed, Paced, Telling(fund, schedule), Ordering, Defect8 PROVE Ordering'
<1>1. /\ phase = "postwalk" /\ phase' = "postwalk" /\ cursor \in DOMAIN schedule
      /\ Entry.code = "subscription_pre_cutoff" /\ schedule' = schedule /\ Mine(Entry)
  BY DEF Defect8, Due, DueHere
<1>2. PriorBusinessDay(Entry.as_of) \in DOMAIN books.nav
  <2>1. Tells(fund, Entry)
    BY <1>1 DEF Telling, Entry
  <2>2. Entry.as_of \in Days /\ DOMAIN books.nav = Days
    BY <1>1, Operating
  <2> QED
    BY <1>1, <2>1, <2>2, LastDayAssumption DEF Days, Tells, Mine, PriorBusinessDay
<1>3. PICK order : order =
        [id |-> "CS_DEFECT_8", class |-> Entry.class, day |-> Entry.as_of,
         received |-> CutoffTime + 1, type |-> "SUB", gross |-> Entry.amount,
         delta |-> Entry.amount
                     \oslash books.nav[PriorBusinessDay(Entry.as_of)][Entry.class].nav]
  OBVIOUS
<1>4. input' = [input EXCEPT !.capstock = @ \cup {order}]
  BY <1>2, <1>3, Zenon DEF Defect8
<1>5. input'.capstock = input.capstock \cup {order}
  BY <1>4 DEF Typed, InputTyped, Inputs
<1>6. IsLate(order) /\ order.day = Entry.as_of
  BY <1>3 DEF IsLate, CutoffTime
<1>7. Acted("subscription_pre_cutoff")' = Acted("subscription_pre_cutoff") \cup {cursor}
  <2>1. PostWalk /\ "subscription_pre_cutoff" \in PostWalkCodes
    BY DEF PostWalk, PostWalkCodes
  <2> QED
    BY <1>1, <2>1, ActedGrows DEF Next
<1>8. /\ \A e \in input.capstock : IsLate(e) =>
           \E k \in Acted("subscription_pre_cutoff") : schedule[k].as_of = e.day
      /\ \A k \in Acted("subscription_pre_cutoff") :
           \E e \in input.capstock : IsLate(e) /\ e.day = schedule[k].as_of
  BY <1>1 DEF Ordering, Late
<1> QED
  BY <1>1, <1>5, <1>6, <1>7, <1>8 DEF Ordering, Early, Late, Entry, IsLate

LEMMA NextOrders ==
  Typed /\ Paced /\ Telling(fund, schedule) /\ Rolling /\ Ordering /\ [Next]_vars => Ordering'
<1> SUFFICES ASSUME Typed, Paced, Telling(fund, schedule), Rolling, Ordering, [Next]_vars
             PROVE  Ordering'
  OBVIOUS
<1>1. CASE WriteCapstock
  BY <1>1, WriteCapstockOrders
<1>2. CASE BulkWrite
  BY <1>2, BulkWriteOrders
<1>3. CASE Defect8
  BY <1>3, Defect8Orders
<1>4. CASE ~WriteCapstock /\ ~BulkWrite /\ ~Defect8
  <2>1. input'.capstock = input.capstock
    BY <1>4, InputFields
  <2>2. Acted("subscription_pre_cutoff")' = Acted("subscription_pre_cutoff")
    <3>1. ~(PostWalk /\ Entry.code = "subscription_pre_cutoff")
      BY <1>4, Zenon DEF PostWalk, Defect2, Defect5, Defect6, Defect9, Defect10, Due, DueHere
    <3> QED
      BY <3>1, ActedGrows DEF PostWalkCodes
  <2>3. phase' \in Late => phase \in Late
    BY <1>4, Looping DEF Late
  <2>4. phase' \in Early => phase \in Early
    BY Looping DEF Early, Late, Typed, ChoicesTyped
  <2>5. schedule' = schedule
    BY Looping
  <2> QED
    BY <2>1, <2>2, <2>3, <2>4, <2>5 DEF Ordering, IsLate
<1> QED
  BY <1>1, <1>2, <1>3, <1>4

-----------------------------------------------------------------------------
(* The dividends.                                                          *)

LEMMA SurgeryKeeps ==
  ASSUME Typed, PostWalk
  PROVE  /\ Defect9 \/ books'.receipts = books.receipts
         /\ Defect5 \/ Defect10 \/ books'.fees = books.fees
<1>1. Tables \subseteq DOMAIN books
  <2>1. phase = "postwalk"
    BY Zenon DEF PostWalk, Defect2, Defect5, Defect6, Defect8, Defect9, Defect10, Due, DueHere
  <2> QED
    BY <2>1 DEF Typed, BooksTyped, TablesTyped
<1>2. CASE Defect2
  <2>1. \E rows, nav : books' = [books EXCEPT !.holdings[Entry.as_of] = rows, !.nav = nav]
    BY <1>2, Zenon DEF Defect2
  <2> QED
    BY <1>1, <2>1 DEF Tables
<1>3. CASE Defect5
  <2>1. \E fee, row : books' = [books EXCEPT !.fees[Entry.as_of][Entry.class] = fee,
                                             !.nav[Entry.as_of][Entry.class] = row]
    BY <1>3, Zenon DEF Defect5
  <2> QED
    BY <1>1, <1>3, <2>1 DEF Tables
<1>4. CASE Defect6
  BY <1>4 DEF Defect6
<1>5. CASE Defect8
  <2>1. books' = books
          \/ \E row : books' = [books EXCEPT !.nav[Entry.as_of][Entry.class] = row]
    BY <1>5, Zenon DEF Defect8
  <2> QED
    BY <1>1, <2>1 DEF Tables
<1>6. CASE Defect9
  <2>1. books' = books
          \/ \E S, nav : books' = [books EXCEPT !.receipts = S, !.nav = nav]
    BY <1>6, Zenon DEF Defect9
  <2> QED
    BY <1>1, <1>6, <2>1 DEF Tables
<1>7. CASE Defect10
  <2>1. \E row, x : books' = [books EXCEPT !.nav[Entry.as_of][Entry.class] = row,
                                 !.fees[Entry.as_of][Entry.class].mgmt = x]
    BY <1>7, Zenon DEF Defect10
  <2> QED
    BY <1>1, <1>7, <2>1 DEF Tables
<1> QED
  BY <1>2, <1>3, <1>4, <1>5, <1>6, <1>7 DEF PostWalk

LEMMA PositiveSize ==
  ASSUME NEW rows, NEW i
  PROVE  Zero \prec Size(rows, i) <=> i \in DOMAIN rows /\ Zero \prec rows[i].qty
<1>1. ~(Zero \prec Zero)
  <2>1. Zero \ominus Zero = Zero
    BY ZeroOne, SelfDifference
  <2> QED
    BY <2>1, ZeroOne DEF \prec
<1> QED
  BY <1>1 DEF Size

\* The dividend of defect 9, and its receipt.
Booking(ca, x) ==
  /\ ca.id = "CA_DEFECT_9" /\ ca.instr = Entry.instr /\ ca.pay = Entry.as_of
  /\ x.id = "CA_DEFECT_9" /\ x.instr = Entry.instr /\ x.day = Entry.as_of
  /\ x.rate = Entry.applied_rate
LEMMA Defect9Books ==
  ASSUME Typed, Defect9
  PROVE  /\ Zero \prec Size(books.holdings[Entry.as_of], Entry.instr) =>
              \E ca, x : /\ Booking(ca, x)
                         /\ input'.actions = input.actions \cup {ca}
                         /\ books'.receipts = books.receipts \cup {x}
         /\ ~(Zero \prec Size(books.holdings[Entry.as_of], Entry.instr)) =>
              input' = input /\ books' = books
<1> DEFINE d     == Entry.as_of
           i     == Entry.instr
           per   == DividendPer(Entry)
           gross == books.holdings[d][i].qty \otimes per
           over  == (Entry.applied_rate \ominus Entry.treaty_rate) \otimes gross
                      \otimes input.fx["LDN_4PM"][d][Instr[i].ccy]
           ca    == DividendOf(Entry)
           receipt == [id |-> "CA_DEFECT_9", instr |-> i, day |-> d, gross |-> gross,
                       rate |-> Entry.applied_rate,
                       net |-> gross \ominus (gross \otimes Entry.applied_rate)]
           nav == AdjustClassNav(books.nav, d, Zero \ominus over)
<1>1. Tables \subseteq DOMAIN books /\ Inputs \subseteq DOMAIN input
  <2>1. phase = "postwalk"
    BY DEF Defect9, Due, DueHere
  <2> QED
    BY <2>1 DEF Typed, BooksTyped, TablesTyped, InputTyped
<1>2. CASE i \in DOMAIN books.holdings[d] /\ Zero \prec books.holdings[d][i].qty
  <2>1. input' = [input EXCEPT !.actions = @ \cup {ca}]
    BY <1>2, Zenon DEF Defect9
  <2>2. books' = [books EXCEPT !.receipts = @ \cup {receipt}, !.nav = nav]
    <3>1. books' = [books EXCEPT !.receipts = @ \cup {receipt},
                                 !.nav = AdjustClassNav(@, d, Zero \ominus over)]
      BY <1>2, Zenon DEF Defect9
    <3> QED
      BY <3>1, Zenon
  <2>3. Booking(ca, receipt)
    BY DEF Booking, DividendOf
  <2>4. Zero \prec Size(books.holdings[Entry.as_of], Entry.instr)
    BY <1>2, PositiveSize
  <2> HIDE DEF ca, receipt, nav
  <2>5. input'.actions = input.actions \cup {ca}
    BY <1>1, <2>1 DEF Inputs
  <2>6. books'.receipts = books.receipts \cup {receipt}
    BY <1>1, <2>2 DEF Tables
  <2> QED
    BY <2>3, <2>4, <2>5, <2>6
<1>3. CASE ~(i \in DOMAIN books.holdings[d] /\ Zero \prec books.holdings[d][i].qty)
  <2>1. books' = books /\ input' = input
    BY <1>3, Zenon DEF Defect9
  <2>2. ~(Zero \prec Size(books.holdings[Entry.as_of], Entry.instr))
    BY <1>3, PositiveSize
  <2> QED
    BY <2>1, <2>2
<1> QED
  BY <1>2, <1>3

LEMMA NotBelowItself == ~(Zero \prec Zero)
<1>1. Zero \ominus Zero = Zero
  BY ZeroOne, SelfDifference
<1> QED
  BY <1>1, ZeroOne DEF \prec

LEMMA DayPays ==
  ASSUME NEW d, Valued(d), PositionsTyped(walk.holdings),
         NEW ca \in input.actions, ca.applied, ca.pay = d, Zero \prec Size(DayRows(d), ca.instr)
  PROVE  \E x \in DayReceipts(d) : x.id = ca.id
<1>1. PICK h : h = AfterTrades(d)
  OBVIOUS
<1>2. Kept(DayRows(d), h)
  BY <1>1, AfterTradesTyped, RowsKept DEF DayRows
<1>3. Size(DayRows(d), ca.instr) = Position(h, ca.instr)
  BY <1>2, KeptSizes
<1>4. ca.instr \in DOMAIN h /\ Zero \prec h[ca.instr]
  BY <1>3, NotBelowItself DEF Position
<1>5. Payable(ca, d)
  BY DEF Payable
<1>6. PICK S : S = {c \in input.actions : /\ Payable(c, d) /\ c.instr \in DOMAIN h
                                           /\ Zero \prec h[c.instr]}
  OBVIOUS
<1>7. ca \in S
  BY <1>4, <1>5, <1>6
<1> DEFINE Rate(c)  == GetWhtRates(fund.domicile, Instr[c.instr].country).treaty
           Whole(c) == h[c.instr] \otimes c.gross
           Row(c)   == [id |-> c.id, instr |-> c.instr, day |-> d, gross |-> Whole(c),
                        rate |-> Rate(c), net |-> Whole(c) \ominus (Whole(c) \otimes Rate(c))]
<1>8. DayReceipts(d) = {Row(c) : c \in S}
  BY <1>1, <1>6, Zenon DEF DayReceipts, Receipts
<1>9. Row(ca).id = ca.id
  OBVIOUS
<1> HIDE DEF Row
<1> QED
  BY <1>7, <1>8, <1>9

LEMMA DayReceiptsOf ==
  ASSUME NEW d, NEW x \in DayReceipts(d)
  PROVE  /\ \E ca \in input.actions : ca.applied /\ ca.pay = d /\ x.id = ca.id
         /\ Treaty(x)
  BY DEF DayReceipts, Receipts, Payable, Treaty

LEMMA WalkDayPays == ASSUME Typed, Paced, Payments, WalkDay PROVE Payments'
<1>1. /\ phase = "walk" /\ walk.day \in Days /\ FxTyped(input.fx)
      /\ phase' = "walk" /\ input' = input /\ schedule' = schedule
  BY DEF WalkDay, Typed, InputTyped
<1>2. PICK d, w, b, new : d = walk.day /\ w = StepOneDay(d) /\ b = walk.rows /\ new = w.rows
  OBVIOUS
<1>3. walk' = w
  BY <1>1, <1>2 DEF WalkDay, FxTyped
<1>4. Valued(d) /\ PositionsTyped(walk.holdings)
  BY <1>1, <1>2, WindowValued DEF Typed, WalkTyped, PositionsTyped
<1>5. /\ TablesTyped(b) /\ DOMAIN b.nav = 1 .. d - 1 /\ d \notin DOMAIN b.nav
  BY <1>1, <1>2 DEF Typed, WalkTyped, Days
<1>6. Grown(new, b, d) /\ new.holdings[d] = DayRows(d)
  BY <1>2, <1>5, StepGrows
<1>7. new.receipts = b.receipts \cup DayReceipts(d)
  BY <1>2, StepUnfolds
<1>8. DOMAIN new.nav = DOMAIN b.nav \cup {d} /\ \A x \in DOMAIN b.nav : new.holdings[x] = b.holdings[x]
  BY <1>6 DEF Grown, Added
<1>9. Applying /\ Paying(b)
  BY <1>1, <1>2 DEF Payments, Early
<1>10. \A x \in new.receipts : x.id # "CA_DEFECT_3"
  <2>1. ASSUME NEW x \in DayReceipts(d) PROVE x.id # "CA_DEFECT_3"
    <3>1. PICK ca \in input.actions : ca.applied /\ x.id = ca.id
      BY DayReceiptsOf
    <3>2. Passed("wrong_wht") = {}
      BY <1>1 DEF Passed
    <3> QED
      BY <1>9, <3>1, <3>2 DEF Applying, Seeding
  <2> QED
    BY <1>7, <1>9, <2>1 DEF Paying
<1>11. ASSUME NEW ca \in input.actions, ca.id \notin Seeding, Owed(new, ca) PROVE IsPaid(new, ca)
  <2>1. CASE ca.pay \in DOMAIN b.nav
    <3>1. Owed(b, ca)
      BY <1>8, <1>11, <2>1 DEF Owed
    <3> QED
      BY <1>7, <1>9, <1>11, <3>1 DEF Paying, IsPaid
  <2>2. CASE ca.pay = d
    <3>1. ca.applied /\ Zero \prec Size(DayRows(d), ca.instr)
      BY <1>6, <1>11, <2>2 DEF Owed
    <3>2. \E x \in DayReceipts(d) : x.id = ca.id
      BY <1>4, <2>2, <3>1, DayPays
    <3> QED
      BY <1>7, <3>2 DEF IsPaid
  <2> QED
    BY <1>8, <1>11, <2>1, <2>2 DEF Owed
<1>12. Paying(new)
  BY <1>10, <1>11 DEF Paying
<1>13. Paying(walk.rows)'
  BY <1>1, <1>2, <1>3, <1>12 DEF Paying
<1>14. Applying'
  <2>1. Injected("missed_corp_action")' = Injected("missed_corp_action")
    BY <1>1 DEF Injected
  <2>2. Passed("wrong_wht")' = Passed("wrong_wht")
    BY <1>1 DEF Passed
  <2> QED
    BY <1>1, <1>9, <2>1, <2>2 DEF Applying, Omits, Brings
<1> QED
  BY <1>1, <1>13, <1>14 DEF Payments, Early, Late

LEMMA WriteActionsPays ==
  ASSUME Typed, Paced, Following, Payments, WriteCorporateActions PROVE Payments'
<1>1. PICK drawn \in DividendDraws :
        input' = [input EXCEPT !.actions =
         {[id |-> x.id, instr |-> x.instr, type |-> "CASH_DIV", ex |-> x.ex,
           pay |-> Least(x.ex + x.offset, LastDay), gross |-> x.gross,
           applied |-> TRUE] : x \in drawn}]
  BY DEF WriteCorporateActions
<1>2. input'.actions =
         {[id |-> x.id, instr |-> x.instr, type |-> "CASH_DIV", ex |-> x.ex,
           pay |-> Least(x.ex + x.offset, LastDay), gross |-> x.gross,
           applied |-> TRUE] : x \in drawn}
  BY <1>1 DEF Typed, InputTyped, Inputs
<1>3. ASSUME NEW ca \in input'.actions
      PROVE  ca.applied /\ ca.pay \in Days /\ ca.id \notin Seeding
  <2>1. PICK x \in drawn : /\ ca.id = x.id /\ ca.applied = TRUE
                           /\ ca.pay = Least(x.ex + x.offset, LastDay)
    BY <1>2
  <2>2. x.ex \in Days /\ x.offset \in Nat /\ x.id \notin Seeding
    BY DrawsAssumption, IdsAssumption DEF Seeding
  <2>3. Least(x.ex + x.offset, LastDay) \in Days
    BY <2>2, LastDayAssumption DEF Least, Days
  <2> QED
    BY <2>1, <2>2, <2>3
<1>4. /\ phase = "actions" /\ phase' = "trades" /\ walk' = walk
  BY DEF WriteCorporateActions, Advance
<1>5. Injected("missed_corp_action")' = {}
  BY <1>4 DEF Injected
<1>6. Applying'
  BY <1>3, <1>5 DEF Applying
<1>7. DOMAIN walk.rows.nav = {} /\ \A x \in walk.rows.receipts : x.id # "CA_DEFECT_3"
  BY <1>4 DEF Typed, WalkTyped, Following, Early, Payments, Paying
<1>8. Paying(walk.rows)'
  BY <1>4, <1>7 DEF Paying, Owed
<1> QED
  BY <1>4, <1>6, <1>8 DEF Payments, Early, Late

LEMMA Defect3Pays ==
  ASSUME Typed, Paced, Telling(fund, schedule), Payments, Defect3 PROVE Payments'
<1>1. /\ phase = "prewalk" /\ phase' = "prewalk" /\ cursor \in DOMAIN schedule
      /\ Entry.code = "missed_corp_action" /\ schedule' = schedule /\ walk' = walk
  BY DEF Defect3, Due, DueHere
<1>2. PriorBusinessDay(Entry.as_of) \in Days
  <2>1. Tells(fund, Entry)
    BY <1>1 DEF Telling, Entry
  <2>2. Entry.as_of \in Days
    BY <1>1, EntryIsComplete DEF Typed, EntryComplete
  <2> QED
    BY <1>1, <2>1, <2>2, LastDayAssumption DEF Days, Tells, PriorBusinessDay
<1>3. PICK ca : ca =
        [id |-> "CA_DEFECT_3", instr |-> Entry.instr, type |-> "SPECIAL_DIV", ex |-> Entry.as_of,
         pay |-> Entry.as_of,
         gross |-> Price(PriorBusinessDay(Entry.as_of))[Entry.instr] \otimes Entry.div_pct,
         applied |-> FALSE]
  OBVIOUS
<1>4. input'.actions = input.actions \cup {ca}
  <2>1. \E P : input' = [input EXCEPT !.actions = @ \cup {ca}, !.prices = P]
    BY <1>2, <1>3, Zenon DEF Defect3
  <2> QED
    BY <2>1 DEF Typed, InputTyped, Inputs
<1>5. ~ca.applied /\ Omits(cursor, ca)
  BY <1>3 DEF Omits, Entry
<1>6. Injected("missed_corp_action")' = Injected("missed_corp_action") \cup {cursor}
  <2>1. PreWalk /\ "missed_corp_action" \in PreWalkCodes
    BY DEF PreWalk, PreWalkCodes
  <2> QED
    BY <1>1, <2>1, InjectedGrows DEF Next
<1>7. Applying /\ Paying(walk.rows)
  BY <1>1 DEF Payments, Early
<1>8. Applying'
  <2>1. Passed("wrong_wht") = {}
    BY <1>1 DEF Passed
  <2> QED
    BY <1>1, <1>4, <1>5, <1>6, <1>7, <2>1 DEF Applying, Omits
<1>9. Paying(walk.rows)'
  BY <1>1, <1>4, <1>5, <1>7 DEF Paying, Owed
<1> QED
  BY <1>1, <1>8, <1>9 DEF Payments, Early, Late

LEMMA ApplyingKept ==
  ASSUME Typed, Paced, Applying, [Next]_vars, input'.actions = input.actions, ~Defect3
  PROVE  Applying'
<1>1. ~(PreWalk /\ Entry.code = "missed_corp_action")
  BY DEF PreWalk, Defect1, Defect3, Defect4, Defect7, Due, DueHere
<1>2. Injected("missed_corp_action")' = Injected("missed_corp_action")
  BY <1>1, InjectedGrows DEF PreWalkCodes
<1>3. schedule' = schedule
  BY Looping
<1>4. Passed("wrong_wht") \subseteq Passed("wrong_wht")'
  BY PassedGrows DEF PostWalkCodes
<1> QED
  BY <1>2, <1>3, <1>4 DEF Applying, Omits, Brings

LEMMA SurgeryPays ==
  ASSUME Typed, Paced, Solvent, Solvent', fund' = fund, Payments, PostWalk PROVE Payments'
<1>1. /\ phase = "postwalk" /\ phase' = "postwalk" /\ cursor \in DOMAIN schedule
      /\ schedule' = schedule
  BY Zenon DEF PostWalk, Defect2, Defect5, Defect6, Defect8, Defect9, Defect10, Due, DueHere
<1>2. Entry.as_of \in Days /\ DOMAIN books.nav = Days /\ DOMAIN books'.nav = Days
  BY <1>1, Operating, SurgeryTyped
<1>3. Applying /\ Paying(books)
  BY <1>1 DEF Payments, Late
<1>4. \A ca : Owed(books', ca) <=> Owed(books, ca)
  BY <1>2, SurgerySizes DEF Owed
<1>5. CASE input'.actions = input.actions /\ books'.receipts = books.receipts
  <2>1. Applying'
    BY <1>3, <1>5, ApplyingKept, Zenon DEF Next, PostWalk, Defect2, Defect5, Defect6, Defect8,
                                           Defect9, Defect10, Defect3, Due, DueHere
  <2>2. Paying(books)'
    BY <1>3, <1>4, <1>5 DEF Paying, IsPaid
  <2> QED
    BY <1>1, <2>1, <2>2 DEF Payments, Early, Late
<1>6. CASE ~(input'.actions = input.actions /\ books'.receipts = books.receipts)
  <2>1. Defect9
    <3>1. ~WriteCorporateActions /\ ~Defect3
      BY <1>1 DEF WriteCorporateActions, Defect3, Due, DueHere, Advance
    <3> QED
      BY <1>1, <1>6, <3>1, SurgeryKeeps, InputFields, ElsewhereKeeps, Looping
         DEF Next, Idle, Elsewhere
  <2>2. PICK ca, x : /\ Booking(ca, x) /\ input'.actions = input.actions \cup {ca}
                     /\ books'.receipts = books.receipts \cup {x}
    BY <1>6, <2>1, Defect9Books
  <2>3. Brings(cursor, ca) /\ ca.id \in Seeding /\ x.id # "CA_DEFECT_3"
    BY <2>2 DEF Booking, Brings, Seeding, Entry
  <2>4. Injected("missed_corp_action")' = Injected("missed_corp_action")
    BY <1>1 DEF Injected
  <2>5. Passed("wrong_wht")' = Passed("wrong_wht") \cup {cursor}
    <3>1. Entry.code = "wrong_wht" /\ "wrong_wht" \in PostWalkCodes
      BY <2>1 DEF Defect9, DueHere, Due, PostWalkCodes
    <3> QED
      BY <3>1, PassedGrows DEF Next
  <2>6. Applying'
    BY <1>1, <1>3, <2>2, <2>3, <2>4, <2>5 DEF Applying, Omits, Brings
  <2>7. Paying(books)'
    BY <1>3, <1>4, <2>2, <2>3 DEF Paying, IsPaid
  <2> QED
    BY <1>1, <2>6, <2>7 DEF Payments, Early, Late
<1> QED
  BY <1>5, <1>6

LEMMA NextPays ==
  Typed /\ Paced /\ Solvent /\ Solvent' /\ Following /\ Telling(fund, schedule) /\ Payments
    /\ [Next]_vars => Payments'
<1> SUFFICES ASSUME Typed, Paced, Solvent, Solvent', Following, Telling(fund, schedule), Payments,
                    [Next]_vars
             PROVE  Payments'
  OBVIOUS
<1>1. CASE WriteCorporateActions
  BY <1>1, WriteActionsPays
<1>2. CASE Defect3
  BY <1>2, Defect3Pays
<1>3. CASE WalkDay
  BY <1>3, WalkDayPays
<1>4. CASE PostWalk
  BY <1>4, Looping, SurgeryPays
<1>5. CASE Defect9Elsewhere
  <2>1. Elsewhere /\ Entry.code = "wrong_wht" /\ "wrong_wht" \in PostWalkCodes
    BY <1>5 DEF Elsewhere, Defect9Elsewhere, DueElsewhere, Due, PostWalkCodes
  <2>2. /\ phase = "postwalk" /\ phase' = "postwalk" /\ books' = books /\ schedule' = schedule
    BY <2>1, ElsewhereKeeps
  <2>3. Passed("wrong_wht")' = Passed("wrong_wht") \cup {cursor}
    BY <2>1, PassedGrows
  <2>4. PICK ca : ca = DividendOf(Entry)
    OBVIOUS
  <2>5. Brings(cursor, ca) /\ ca.id \in Seeding
    BY <2>4 DEF DividendOf, Brings, Seeding, Entry
  <2>6. input'.actions = input.actions \/ input'.actions = input.actions \cup {ca}
    BY <2>1, <2>4, ElsewhereInput
  <2>7. Injected("missed_corp_action")' = Injected("missed_corp_action")
    BY <2>2 DEF Injected
  <2>8. Applying'
    BY <2>2, <2>3, <2>5, <2>6, <2>7 DEF Payments, Applying, Omits, Brings
  <2>9. Paying(books)'
    BY <2>2, <2>5, <2>6 DEF Payments, Paying, Owed, IsPaid, Late
  <2> QED
    BY <2>2, <2>8, <2>9 DEF Payments, Early, Late
<1>6. CASE /\ ~WriteCorporateActions /\ ~Defect3 /\ ~WalkDay /\ ~PostWalk
           /\ ~Defect9Elsewhere
  <2>1. input'.actions = input.actions /\ walk' = walk
    BY <1>6, InputFields, TablesKept DEF PostWalk
  <2>2. Applying'
    BY <1>6, <2>1, ApplyingKept DEF Payments
  <2>3. CASE BulkWrite
    <3>1. phase = "walk" /\ phase' = "postwalk" /\ books' = walk.rows
      BY <2>3 DEF BulkWrite, Advance
    <3>2. Paying(books)'
      BY <2>1, <3>1 DEF Payments, Paying, Early
    <3> QED
      BY <2>2, <3>1, <3>2 DEF Payments, Early, Late
  <2>4. CASE ~BulkWrite
    <3>1. books' = books
      BY <1>6, <2>4, TablesKept
    <3>2. phase' \in Late => phase \in Late
      BY <2>4, Looping DEF Late
    <3>3. phase' \in Early => phase \in Early
      BY Looping DEF Early, Late, Typed, ChoicesTyped
    <3>4. Paying(walk.rows) => Paying(walk.rows)'
      BY <2>1 DEF Paying
    <3>5. Paying(books) => Paying(books)'
      BY <2>1, <3>1 DEF Paying
    <3> QED
      BY <2>2, <3>2, <3>3, <3>4, <3>5 DEF Payments
  <2> QED
    BY <2>3, <2>4
<1> QED
  BY <1>1, <1>2, <1>3, <1>4, <1>5, <1>6

-----------------------------------------------------------------------------
(* The taxes.                                                              *)

LEMMA EntriesComplete ==
  ASSUME Typed, NEW k \in DOMAIN schedule
  PROVE  EntryComplete(fund, schedule[k]) /\ schedule[k].as_of \in Days
<1>1. schedule[k] \in Range(schedule)
  BY DEF Range
<1>2. EntryComplete(fund, schedule[k])
  BY <1>1, ScheduleAssumption DEF Typed, ChoicesTyped
<1> QED
  BY <1>2 DEF EntryComplete

LEMMA TaxesKept ==
  ASSUME Typed, Solvent, Solvent', fund' = fund, schedule' = schedule, PostWalk,
         NEW k \in DOMAIN schedule, NEW d
  PROVE  Taxes(k, d)' <=> Taxes(k, d)
<1>1. CASE d \in Days
  <2>1. Size(books'.holdings[d], schedule[k].instr) = Size(books.holdings[d], schedule[k].instr)
    BY <1>1, SurgerySizes
  <2> QED
    BY <2>1 DEF Taxes
<1>2. CASE d \notin Days
  BY <1>2, EntriesComplete DEF Taxes
<1> QED
  BY <1>1, <1>2

LEMMA Defect9Taxes ==
  ASSUME Typed, Paced, Solvent, Solvent', Telling(fund, schedule), Taxing, Defect9 PROVE Taxing'
<1>1. /\ phase = "postwalk" /\ phase' = "postwalk" /\ cursor \in DOMAIN schedule
      /\ Entry.code = "wrong_wht" /\ schedule' = schedule /\ fund' = fund /\ walk' = walk
      /\ Mine(Entry)
  BY DEF Defect9, Due, DueHere
<1>2. PostWalk /\ [Next]_vars
  BY DEF PostWalk, Next
<1>3. Acted("wrong_wht")' = Acted("wrong_wht") \cup {cursor}
  BY <1>1, <1>2, ActedGrows DEF PostWalkCodes
<1>4. Acted("wrong_wht") \subseteq DOMAIN schedule
  BY DEF Acted, Passed
<1>5. \A k \in DOMAIN schedule : \A d : Taxes(k, d)' <=> Taxes(k, d)
  BY <1>1, <1>2, TaxesKept
<1>6. /\ \A x \in walk.rows.receipts : Treaty(x) /\ ~FromDefect9(x)
      /\ \A x \in books.receipts :
           (Treaty(x) /\ ~FromDefect9(x)) \/ \E k \in Acted("wrong_wht") : Taxes(k, x.day)
      /\ \A k \in Acted("wrong_wht") : \A d \in Days :
           Taxes(k, d) => \E x \in books.receipts : ~Treaty(x) /\ FromDefect9(x) /\ x.day = d
  BY <1>1 DEF Taxing, Late
<1>7. \A x : (Treaty(x)' <=> Treaty(x)) /\ (FromDefect9(x)' <=> FromDefect9(x))
  BY <1>1 DEF Treaty, FromDefect9
<1>8. CASE Zero \prec Size(books.holdings[Entry.as_of], Entry.instr)
  <2>1. PICK ca, y : Booking(ca, y) /\ books'.receipts = books.receipts \cup {y}
    BY <1>8, Defect9Books
  <2>2. Taxes(cursor, Entry.as_of)
    BY <1>8 DEF Taxes, Entry
  <2>3. ~Treaty(y) /\ FromDefect9(y) /\ y.day = Entry.as_of
    <3>1. Tells(fund, Entry)
      BY <1>1 DEF Telling, Entry
    <3> QED
      BY <1>1, <2>1, <3>1 DEF Treaty, FromDefect9, Tells, Mine, Booking
  <2>4. \A d : Taxes(cursor, d) => d = Entry.as_of
    BY DEF Taxes, Entry
  <2>5. \A x \in books'.receipts :
           (Treaty(x) /\ ~FromDefect9(x))' \/ \E k \in Acted("wrong_wht")' : Taxes(k, x.day)'
    BY <1>1, <1>3, <1>4, <1>5, <1>6, <1>7, <2>1, <2>2, <2>3
  <2>6. \A k \in Acted("wrong_wht")' : \A d \in Days :
           Taxes(k, d)' => \E x \in books'.receipts : (~Treaty(x) /\ FromDefect9(x))' /\ x.day = d
    BY <1>1, <1>3, <1>4, <1>5, <1>6, <1>7, <2>1, <2>3, <2>4
  <2> QED
    BY <1>1, <1>6, <1>7, <2>5, <2>6 DEF Taxing
<1>9. CASE ~(Zero \prec Size(books.holdings[Entry.as_of], Entry.instr))
  <2>1. books' = books
    BY <1>9, Defect9Books
  <2>2. \A d : ~Taxes(cursor, d)
    BY <1>9 DEF Taxes, Entry
  <2> QED
    BY <1>1, <1>3, <1>4, <1>5, <1>6, <1>7, <2>1, <2>2 DEF Taxing
<1> QED
  BY <1>8, <1>9

LEMMA NextTaxes ==
  Typed /\ Paced /\ Solvent /\ Solvent' /\ Telling(fund, schedule) /\ Payments /\ Taxing
    /\ [Next]_vars
    => Taxing'
<1> SUFFICES ASSUME Typed, Paced, Solvent, Solvent', Telling(fund, schedule), Payments, Taxing,
                    [Next]_vars
             PROVE  Taxing'
  OBVIOUS
<1>1. fund' = fund /\ schedule' = schedule
  BY Looping
<1>2. \A x : (Treaty(x)' <=> Treaty(x)) /\ (FromDefect9(x)' <=> FromDefect9(x))
  BY <1>1 DEF Treaty, FromDefect9
<1>3. CASE WalkDay
  <2>1. phase = "walk" /\ phase' = "walk" /\ walk.day \in Days /\ FxTyped(input.fx)
    BY <1>3 DEF WalkDay, Typed, InputTyped
  <2>2. PICK d : d = walk.day
    OBVIOUS
  <2>3. walk' = StepOneDay(d)
    BY <1>3, <2>1, <2>2 DEF WalkDay, FxTyped
  <2>4. walk'.rows.receipts = walk.rows.receipts \cup DayReceipts(d)
    BY <2>3, StepUnfolds
  <2>5. ASSUME NEW x \in DayReceipts(d) PROVE Treaty(x) /\ ~FromDefect9(x)
    <3>1. PICK ca \in input.actions : ca.applied /\ x.id = ca.id
      BY DayReceiptsOf
    <3>2. Passed("wrong_wht") = {}
      BY <2>1 DEF Passed
    <3>3. Treaty(x) /\ ca.id # "CA_DEFECT_9"
      BY <3>1, <3>2, DayReceiptsOf DEF Payments, Applying, Seeding
    <3> QED
      BY <3>1, <3>3 DEF FromDefect9
  <2> QED
    BY <1>2, <2>1, <2>4, <2>5 DEF Taxing, Late
<1>4. CASE BulkWrite
  <2>1. phase = "walk" /\ phase' = "postwalk" /\ books' = walk.rows /\ walk' = walk
    BY <1>4 DEF BulkWrite, Advance
  <2>2. Acted("wrong_wht")' = {}
    BY <2>1, Looping DEF Acted, Passed
  <2> QED
    BY <1>2, <2>1, <2>2 DEF Taxing, Late
<1>5. CASE Defect9
  BY <1>5, Defect9Taxes
<1>6. CASE ~WalkDay /\ ~BulkWrite /\ ~Defect9
  <2>1. Acted("wrong_wht")' = Acted("wrong_wht") /\ Acted("wrong_wht") \subseteq DOMAIN schedule
    <3>1. ~(PostWalk /\ Entry.code = "wrong_wht")
      BY <1>6, Zenon DEF PostWalk, Defect2, Defect5, Defect6, Defect8, Defect10, Due, DueHere
    <3> QED
      BY <3>1, ActedGrows DEF PostWalkCodes, Acted, Passed
  <2>2. books'.receipts = books.receipts /\ walk' = walk
    BY <1>6, TablesKept, SurgeryKeeps
  <2>3. \A k \in DOMAIN schedule : \A d : Taxes(k, d)' <=> Taxes(k, d)
    <3>1. CASE PostWalk
      BY <1>1, <3>1, TaxesKept
    <3>2. CASE ~PostWalk
      BY <1>1, <1>6, <3>2, TablesKept DEF Taxes
    <3> QED
      BY <3>1, <3>2
  <2>4. phase' \in Late => phase \in Late
    BY <1>6, Looping DEF Late
  <2>5. \A x \in walk'.rows.receipts : (Treaty(x) /\ ~FromDefect9(x))'
    BY <1>2, <2>2 DEF Taxing
  <2>6. ASSUME phase' \in Late
        PROVE  /\ \A x \in books'.receipts :
                    (Treaty(x) /\ ~FromDefect9(x))' \/ \E k \in Acted("wrong_wht")' : Taxes(k, x.day)'
               /\ \A k \in Acted("wrong_wht")' : \A d \in Days :
                    Taxes(k, d)' => \E x \in books'.receipts :
                      (~Treaty(x) /\ FromDefect9(x))' /\ x.day = d
    <3>1. /\ \A x \in books.receipts :
               (Treaty(x) /\ ~FromDefect9(x)) \/ \E k \in Acted("wrong_wht") : Taxes(k, x.day)
          /\ \A k \in Acted("wrong_wht") : \A d \in Days :
               Taxes(k, d) => \E x \in books.receipts : ~Treaty(x) /\ FromDefect9(x) /\ x.day = d
      BY <2>4, <2>6 DEF Taxing
    <3> QED
      BY <1>2, <2>1, <2>2, <2>3, <3>1
  <2> QED
    BY <2>5, <2>6 DEF Taxing
<1> QED
  BY <1>3, <1>4, <1>5, <1>6

-----------------------------------------------------------------------------
(* The high-water marks.                                                   *)

LEMMA DayStruck ==
  ASSUME Typed, WalkDay
  PROVE  /\ phase = "walk" /\ phase' = "walk" /\ fund' = fund /\ schedule' = schedule
         /\ walk.day \in Days /\ walk' = StepOneDay(walk.day) /\ Valued(walk.day)
         /\ Grown(walk'.rows, walk.rows, walk.day)
         /\ walk'.rows.fees[walk.day] = DayFees(walk.day)
         /\ walk'.rows.nav[walk.day] = DayNav(walk.day)
         /\ walk'.classes = [c \in DOMAIN fund.classes |-> DayClass(c, walk.day)]
<1>1. /\ phase = "walk" /\ walk.day \in Days /\ FxTyped(input.fx)
      /\ phase' = "walk" /\ fund' = fund /\ schedule' = schedule
  BY DEF WalkDay, Typed, InputTyped
<1>2. PICK d, w : d = walk.day /\ w = StepOneDay(d)
  OBVIOUS
<1>3. walk' = w
  BY <1>1, <1>2 DEF WalkDay, FxTyped
<1>4. Valued(d)
  BY <1>1, <1>2, WindowValued
<1>5. TablesTyped(walk.rows) /\ DOMAIN walk.rows.nav = 1 .. d - 1 /\ d \notin DOMAIN walk.rows.nav
  BY <1>1, <1>2 DEF Typed, WalkTyped, Days
<1>6. /\ Grown(w.rows, walk.rows, d)
      /\ w.rows.fees[d] = DayFees(d) /\ w.rows.nav[d] = DayNav(d)
  BY <1>2, <1>5, StepGrows
<1>7. w.classes = [c \in DOMAIN fund.classes |-> DayClass(c, d)]
  BY <1>2, StepUnfolds
<1> QED
  BY <1>1, <1>2, <1>3, <1>4, <1>6, <1>7

LEMMA WalkDayMarks == ASSUME Typed, Paced, Marking, WalkDay PROVE Marking'
<1>1. PICK d, b, new : d = walk.day /\ b = walk.rows /\ new = walk'.rows
  OBVIOUS
<1>2. /\ phase' = "walk" /\ fund' = fund /\ Grown(new, b, d) /\ new.fees[d] = DayFees(d)
      /\ walk'.classes = [c \in DOMAIN fund.classes |-> DayClass(c, d)]
  BY <1>1, DayStruck
<1>3. DOMAIN new.nav = DOMAIN b.nav \cup {d} /\ \A x \in DOMAIN b.nav : new.fees[x] = b.fees[x]
  BY <1>2 DEF Grown, Added
<1>4. ASSUME NEW c \in DOMAIN fund.classes
      PROVE  /\ fund.classes[c].nav # Zero
             /\ "hwm" \in DOMAIN DayClass(c, d) /\ DayClass(c, d).hwm = fund.classes[c].nav
             /\ DayFees(d)[c].hwm = fund.classes[c].nav
  <2>1. /\ fund.classes[c].nav # Zero /\ "hwm" \in DOMAIN walk.classes[c]
        /\ walk.classes[c].hwm = fund.classes[c].nav
    BY DEF Marking
  <2>2. DayFees(d)[c].hwm = walk.classes[c].hwm
    BY DEF DayFees, FeeRow
  <2>3. PICK s, n, t : DayClass(c, d) = [walk.classes[c] EXCEPT !.shares = s, !.nav = n, !.balance = t]
    BY DEF DayClass
  <2> QED
    BY <2>1, <2>2, <2>3
<1>5. \A x \in DOMAIN b.nav : \A c \in DOMAIN fund.classes : Mark(b, x, c)
  BY <1>1 DEF Marking
<1>6. \A x \in DOMAIN new.nav : \A c \in DOMAIN fund.classes : Mark(new, x, c)
  BY <1>2, <1>3, <1>4, <1>5 DEF Mark
<1>7. \A x \in DOMAIN walk'.rows.nav : \A c \in DOMAIN fund'.classes : Mark(walk.rows, x, c)'
  BY <1>1, <1>2, <1>6 DEF Mark
<1>8. \A c \in DOMAIN fund'.classes :
        /\ fund'.classes[c].nav # Zero
        /\ "hwm" \in DOMAIN walk'.classes[c] /\ walk'.classes[c].hwm = fund'.classes[c].nav
  BY <1>2, <1>4
<1> QED
  BY <1>2, <1>7, <1>8 DEF Marking, Late

\* Another mark than the class's is left, on the day and for the class.
LEMMA Defect5Fees ==
  ASSUME Typed, Solvent, Telling(fund, schedule), Marking, Defect5
  PROVE  /\ DOMAIN books'.fees = DOMAIN books.fees
         /\ books'.fees[Entry.as_of][Entry.class].hwm # fund.classes[Entry.class].nav
         /\ books'.fees[Entry.as_of][Entry.class].mgmt = books.fees[Entry.as_of][Entry.class].mgmt
         /\ \A d \in Days : \A c \in DOMAIN fund.classes :
              d # Entry.as_of \/ c # Entry.class => books'.fees[d][c] = books.fees[d][c]
<1> DEFINE d     == Entry.as_of
           c     == Entry.class
           n     == fund.classes[c].nav
           stale == n \otimes (One \oplus Entry.offset)
           fee   == books.fees[d][c]
<1>1. \E t, row : books' = [books EXCEPT
         !.fees[d][c] = [fee EXCEPT !.balance = t, !.delta = t, !.hwm = stale],
         !.nav[d][c]  = row]
  BY Zenon DEF Defect5
<1>2. /\ d \in Days /\ TablesTyped(books) /\ DOMAIN books.nav = Days
      /\ DayTyped(books, d) /\ EntryComplete(fund, Entry)
  BY Operating DEF Defect5, Due, DueHere
<1>3. /\ c \in DOMAIN fund.classes /\ IsRat(Entry.offset) /\ Entry.offset # Zero
  <2>1. Tells(fund, Entry)
    BY DEF Defect5, Due, DueHere, Telling, Entry
  <2> QED
    BY <1>2, <2>1 DEF Defect5, Due, DueHere, EntryComplete, Tells, Mine
<1> HIDE DEF d, c
<1>5. Divisor(n)
  BY <1>3, ClassIsTyped DEF Marking, Divisor, Typed, ChoicesTyped
<1> HIDE DEF n
<1>6. stale # n
  <2>1. stale = (n \otimes One) \oplus (n \otimes Entry.offset) /\ n \otimes One = n
    BY <1>3, <1>5, ZeroOne, Distributes, OneProduct DEF Divisor
  <2>2. Divisor(n \otimes Entry.offset)
    BY <1>3, <1>5, DivisorProduct DEF Divisor
  <2>3. n \oplus Zero = n
    BY <1>5, ZeroSum DEF Divisor
  <2> HIDE DEF stale
  <2> QED
    BY <1>5, <2>1, <2>2, <2>3, ZeroOne, SumCancels DEF Divisor
<1>7. FeeTyped(fee)
  BY <1>2, <1>3 DEF DayTyped
<1> HIDE DEF stale, fee
<1>9. PICK t, row : books' = [books EXCEPT
         !.fees[d][c] = [fee EXCEPT !.balance = t, !.delta = t, !.hwm = stale],
         !.nav[d][c]  = row]
  BY <1>1
<1>10. PICK fee2 : fee2 = [fee EXCEPT !.balance = t, !.delta = t, !.hwm = stale]
  OBVIOUS
<1>12. fee2.hwm = stale /\ fee2.mgmt = fee.mgmt
  BY <1>7, <1>10 DEF FeeTyped
<1>13. books' = [books EXCEPT !.fees[d][c] = fee2, !.nav[d][c] = row]
  BY <1>9, <1>10
<1>14. books'.fees = [books.fees EXCEPT ![d][c] = fee2]
  BY <1>2, <1>13 DEF TablesTyped, Tables
<1>15. DOMAIN books.fees = Days /\ DOMAIN books.fees[d] = DOMAIN fund.classes
  BY <1>2 DEF TablesTyped, DayTyped
<1>16. books'.fees[d][c] = fee2
  BY <1>2, <1>3, <1>14, <1>15
<1>17. /\ DOMAIN books'.fees = DOMAIN books.fees
       /\ \A x \in Days : \A y \in DOMAIN fund.classes :
            x # d \/ y # c => books'.fees[x][y] = books.fees[x][y]
  BY <1>14, <1>15
<1>18. books'.fees[d][c].hwm # n /\ books'.fees[d][c].mgmt = fee.mgmt
  BY <1>6, <1>12, <1>16
<1> QED
  BY <1>17, <1>18 DEF d, c, n, fee

LEMMA Defect10Fees ==
  ASSUME Typed, Defect10
  PROVE  /\ Entry.class \in DOMAIN fund.classes /\ Entry.from \in DOMAIN fund.classes
         /\ books'.fees[Entry.as_of][Entry.class].hwm = books.fees[Entry.as_of][Entry.class].hwm
         /\ books'.fees[Entry.as_of][Entry.class].mgmt =
              books.fees[Entry.as_of][Entry.class].mgmt
                \oplus (books.fees[Entry.as_of][Entry.from].mgmt \otimes Overcharge)
         /\ \A d \in Days : \A c \in DOMAIN fund.classes :
              d # Entry.as_of \/ c # Entry.class => books'.fees[d][c] = books.fees[d][c]
<1> DEFINE d     == Entry.as_of
           c     == Entry.class
           fee   == books.fees[d][c]
           extra == books.fees[d][Entry.from].mgmt \otimes Overcharge
<1>1. \E row : books' = [books EXCEPT !.nav[d][c] = row, !.fees[d][c].mgmt = @ \oplus extra]
  BY Zenon DEF Defect10
<1>2. /\ d \in Days /\ TablesTyped(books) /\ DOMAIN books.nav = Days
      /\ DayTyped(books, d) /\ EntryComplete(fund, Entry)
  BY Operating DEF Defect10, Due, DueHere
<1>3. c \in DOMAIN fund.classes /\ Entry.from \in DOMAIN fund.classes
  BY <1>2 DEF Defect10, Due, DueHere, EntryComplete, Mine
<1> HIDE DEF d, c, extra
<1>4. FeeTyped(fee)
  BY <1>2, <1>3 DEF DayTyped
<1>5. PICK row : books' = [books EXCEPT !.nav[d][c] = row, !.fees[d][c].mgmt = @ \oplus extra]
  BY <1>1
<1>6. books'.fees = [books.fees EXCEPT ![d][c].mgmt = @ \oplus extra]
  BY <1>2, <1>5 DEF TablesTyped, Tables
<1>7. DOMAIN books.fees = Days /\ DOMAIN books.fees[d] = DOMAIN fund.classes
  BY <1>2 DEF TablesTyped, DayTyped
<1>8. books'.fees[d][c] = [fee EXCEPT !.mgmt = @ \oplus extra]
  BY <1>2, <1>3, <1>6, <1>7
<1>9. books'.fees[d][c].hwm = fee.hwm /\ books'.fees[d][c].mgmt = fee.mgmt \oplus extra
  <2> HIDE DEF fee
  <2> QED
    BY <1>4, <1>8 DEF FeeTyped
<1>10. \A x \in Days : \A y \in DOMAIN fund.classes :
            x # d \/ y # c => books'.fees[x][y] = books.fees[x][y]
  BY <1>6, <1>7
<1> QED
  BY <1>3, <1>9, <1>10 DEF d, c, fee, extra

LEMMA Defect5Marks ==
  ASSUME Typed, Paced, Solvent, Telling(fund, schedule), Marking, Defect5 PROVE Marking'
<1>1. /\ phase = "postwalk" /\ phase' = "postwalk" /\ cursor \in DOMAIN schedule
      /\ Entry.code = "stale_hwm_perf_fee" /\ schedule' = schedule /\ fund' = fund /\ walk' = walk
  BY DEF Defect5, Due, DueHere
<1>2. Acted("stale_hwm_perf_fee")' = Acted("stale_hwm_perf_fee") \cup {cursor}
  BY <1>1, ActedGrows DEF PostWalkCodes, PostWalk, Next
<1>3. PICK d, c : d = Entry.as_of /\ c = Entry.class
  OBVIOUS
<1>4. /\ books'.fees[d][c].hwm # fund.classes[c].nav
      /\ \A x \in Days : \A y \in DOMAIN fund.classes :
              x # d \/ y # c => books'.fees[x][y] = books.fees[x][y]
  BY <1>3, Defect5Fees
<1>5. \A x, y : Strikes(cursor, x, y) <=> x = d /\ y = c
  BY <1>3 DEF Strikes, Entry
<1>6. \A k, x, y : Strikes(k, x, y)' <=> Strikes(k, x, y)
  BY <1>1 DEF Strikes
<1>7. ASSUME NEW x \in Days, NEW y \in DOMAIN fund.classes
      PROVE  Mark(books, x, y)' <=> ~\E k \in Acted("stale_hwm_perf_fee")' : Strikes(k, x, y)'
  <2>1. Mark(books, x, y) <=> ~\E k \in Acted("stale_hwm_perf_fee") : Strikes(k, x, y)
    BY <1>1 DEF Marking, Late
  <2>2. CASE x = d /\ y = c
    <3>1. ~Mark(books, x, y)'
      BY <1>1, <1>4, <2>2 DEF Mark
    <3> QED
      BY <1>2, <1>5, <1>6, <2>2, <3>1
  <2>3. CASE ~(x = d /\ y = c)
    <3>1. Mark(books, x, y)' <=> Mark(books, x, y)
      BY <1>1, <1>4, <2>3 DEF Mark
    <3> QED
      BY <1>2, <1>5, <1>6, <2>1, <2>3, <3>1
  <2> QED
    BY <2>2, <2>3
<1> QED
  BY <1>1, <1>7 DEF Marking, Mark

LEMMA NextMarks ==
  Typed /\ Paced /\ Solvent /\ Telling(fund, schedule) /\ Marking /\ [Next]_vars => Marking'
<1> SUFFICES ASSUME Typed, Paced, Solvent, Telling(fund, schedule), Marking, [Next]_vars
             PROVE  Marking'
  OBVIOUS
<1>1. fund' = fund /\ schedule' = schedule
  BY Looping
<1>2. CASE WalkDay
  BY <1>2, WalkDayMarks
<1>3. CASE Defect5
  BY <1>3, Defect5Marks
<1>4. CASE BulkWrite
  <2>1. /\ phase = "walk" /\ phase' = "postwalk" /\ books' = walk.rows /\ walk' = walk
        /\ walk.day = LastDay + 1
    BY <1>4 DEF BulkWrite, Advance
  <2>2. Acted("stale_hwm_perf_fee")' = {}
    BY <2>1, Looping DEF Acted, Passed
  <2>3. DOMAIN walk.rows.nav = Days
    BY <2>1, LastDayAssumption DEF Typed, WalkTyped, Days
  <2>4. \A d \in Days : \A c \in DOMAIN fund.classes : Mark(books, d, c)' /\ Mark(walk.rows, d, c)'
    BY <1>1, <2>1, <2>3 DEF Marking, Mark
  <2> QED
    BY <1>1, <2>1, <2>2, <2>3, <2>4 DEF Marking
<1>5. CASE ~WalkDay /\ ~BulkWrite /\ ~Defect5
  <2>1. Acted("stale_hwm_perf_fee")' = Acted("stale_hwm_perf_fee")
    <3>1. ~(PostWalk /\ Entry.code = "stale_hwm_perf_fee")
      BY <1>5, Zenon DEF PostWalk, Defect2, Defect6, Defect8, Defect9, Defect10, Due, DueHere
    <3> QED
      BY <3>1, ActedGrows DEF PostWalkCodes
  <2>2. walk' = walk
    BY <1>5, TablesKept
  <2>3. phase' \in Late => phase \in Late
    BY <1>5, Looping DEF Late
  <2>4. ASSUME NEW d \in Days, NEW c \in DOMAIN fund.classes
        PROVE  books'.fees[d][c].hwm = books.fees[d][c].hwm
    <3>1. CASE Defect10
      <4>1. PICK x, y : x = Entry.as_of /\ y = Entry.class
        OBVIOUS
      <4>2. /\ books'.fees[x][y].hwm = books.fees[x][y].hwm
            /\ d # x \/ c # y => books'.fees[d][c] = books.fees[d][c]
        BY <3>1, <4>1, Defect10Fees
      <4> QED
        BY <4>2
    <3>2. CASE ~Defect10
      BY <1>5, <3>2, TablesKept, SurgeryKeeps
    <3> QED
      BY <3>1, <3>2
  <2>5. \A d \in Days : \A c \in DOMAIN fund.classes : Mark(books, d, c)' <=> Mark(books, d, c)
    BY <1>1, <2>4 DEF Mark
  <2>6. \A k, d, c : Strikes(k, d, c)' <=> Strikes(k, d, c)
    BY <1>1 DEF Strikes
  <2>7. /\ \A c \in DOMAIN fund'.classes :
             /\ fund'.classes[c].nav # Zero
             /\ "hwm" \in DOMAIN walk'.classes[c] /\ walk'.classes[c].hwm = fund'.classes[c].nav
        /\ \A d \in DOMAIN walk'.rows.nav : \A c \in DOMAIN fund'.classes : Mark(walk.rows, d, c)'
    BY <1>1, <2>2 DEF Marking, Mark
  <2>8. phase' \in Late => \A d \in Days : \A c \in DOMAIN fund.classes :
          Mark(books, d, c)' <=> ~\E k \in Acted("stale_hwm_perf_fee")' : Strikes(k, d, c)'
    <3> SUFFICES ASSUME phase' \in Late, NEW d \in Days, NEW c \in DOMAIN fund.classes
                 PROVE  Mark(books, d, c)' <=>
                          ~\E k \in Acted("stale_hwm_perf_fee")' : Strikes(k, d, c)'
      OBVIOUS
    <3>1. Mark(books, d, c) <=> ~\E k \in Acted("stale_hwm_perf_fee") : Strikes(k, d, c)
      BY <2>3 DEF Marking
    <3> QED
      BY <2>1, <2>5, <2>6, <3>1
  <2> QED
    BY <1>1, <2>7, <2>8 DEF Marking
<1> QED
  BY <1>2, <1>3, <1>4, <1>5

-----------------------------------------------------------------------------
(* The fees.                                                               *)

LEMMA ZeroQuotient == ASSUME NEW s, Divisor(s) PROVE Zero \oslash s = Zero
<1>1. IsRat(Reciprocal(s))
  BY MeansItself, NonZero, ReciprocalOf DEF Divisor
<1>2. Zero \oslash s = Zero \otimes Reciprocal(s)
  BY DEF \oslash, Reciprocal
<1> QED
  BY <1>1, <1>2, ZeroProduct

\* A class that charges no performance fee is worth nothing when it has nothing.
LEMMA NothingGained ==
  ASSUME NEW c, ~fund.classes[c].has_hwm, IsRat(fund.classes[c].mgmt),
         Divisor(walk.classes[c].shares), NEW r, NEW d, ClassDay(c, r, d).gav = Zero
  PROVE  ClassDay(c, r, d).nav = Zero
<1>1. PICK s, m : s = walk.classes[c].shares /\ m = fund.classes[c].mgmt
  OBVIOUS
<1>2. PICK x : x = ClassDay(c, r, d)
  OBVIOUS
<1>3. /\ x.gav = Zero /\ x.mgmt = x.gav \otimes m /\ x.target = Zero
      /\ x.nav = (x.gav \ominus x.mgmt \ominus x.target) \oslash s
  BY <1>1, <1>2 DEF ClassDay
<1>4. x.mgmt = Zero
  BY <1>1, <1>3, ZeroProduct
<1>5. Zero \ominus Zero = Zero
  BY ZeroOne, SelfDifference
<1> QED
  BY <1>1, <1>2, <1>3, <1>4, <1>5, ZeroQuotient

LEMMA WalkDayCharges ==
  ASSUME Typed, Paced, Solvent, Solvent', Charging, WalkDay PROVE Charging'
<1>1. PICK d, b, new : d = walk.day /\ b = walk.rows /\ new = walk'.rows
  OBVIOUS
<1>2. /\ phase' = "walk" /\ fund' = fund /\ Grown(new, b, d)
      /\ new.fees[d] = DayFees(d) /\ new.nav[d] = DayNav(d) /\ Valued(d)
      /\ walk'.classes = [c \in DOMAIN fund.classes |-> DayClass(c, d)]
  BY <1>1, DayStruck
<1>3. /\ DOMAIN new.nav = DOMAIN b.nav \cup {d}
      /\ \A x \in DOMAIN b.nav : new.fees[x] = b.fees[x] /\ new.nav[x] = b.nav[x]
  BY <1>2 DEF Grown, Added
<1>4. WalkTyped /\ Subscribed
  BY DEF Typed, Solvent, Subscribed
<1>5. ASSUME NEW c \in DOMAIN fund.classes
      PROVE  Gross(new, d, c) /\ Charge(new, d, c)
  <2>1. PICK x, r : r = FundReturn(DayAssets(d)) /\ x = ClassDay(c, r, d)
    OBVIOUS
  <2>2. x = DayOf(c, d)
    BY <2>1 DEF DayOf
  <2>3. ClassDayTyped(x) /\ IsRat(x.gav)
    BY <1>2, <1>4, <2>2, DayIsTyped DEF ClassDayTyped
  <2>4. new.nav[d][c].gav = x.gav /\ "gav" \in DOMAIN new.nav[d][c]
    BY <1>2, <2>2 DEF DayNav, NavRow
  <2>5. new.fees[d][c].mgmt = x.mgmt
    BY <1>2, <2>2 DEF DayFees, FeeRow
  <2>6. x.mgmt = x.gav \otimes fund.classes[c].mgmt
    BY <2>1 DEF ClassDay
  <2>7. x.nav # Zero
    <3>1. walk'.classes[c].nav # Zero
      BY <1>2 DEF Solvent
    <3>2. ClassTyped(walk.classes[c])
      BY <1>4 DEF WalkTyped
    <3>3. DayClass(c, d).nav = x.nav
      BY <2>2, <3>2 DEF DayClass, ClassTyped
    <3> QED
      BY <1>2, <3>1, <3>3
  <2>8. ~fund.classes[c].has_hwm => x.gav # Zero
    <3>1. Divisor(walk.classes[c].shares)
      BY <1>4 DEF WalkTyped, ClassTyped, Subscribed, Divisor
    <3>2. IsRat(fund.classes[c].mgmt)
      BY ClassIsTyped DEF Typed, ChoicesTyped
    <3> QED
      BY <2>1, <2>7, <3>1, <3>2, NothingGained
  <2> QED
    BY <2>3, <2>4, <2>5, <2>6, <2>8 DEF Gross, Charge
<1>6. \A x \in DOMAIN b.nav : \A c \in DOMAIN fund.classes : Gross(b, x, c) /\ Charge(b, x, c)
  BY <1>1 DEF Charging
<1>7. \A x \in DOMAIN new.nav : \A c \in DOMAIN fund.classes : Gross(new, x, c) /\ Charge(new, x, c)
  BY <1>3, <1>5, <1>6 DEF Gross, Charge
<1>8. \A x \in DOMAIN walk'.rows.nav : \A c \in DOMAIN fund'.classes :
        Gross(walk.rows, x, c)' /\ Charge(walk.rows, x, c)'
  BY <1>1, <1>2, <1>7 DEF Gross, Charge
<1> QED
  BY <1>2, <1>8 DEF Charging, Late

LEMMA RestatedGross ==
  ASSUME NEW row, "gav" \in DOMAIN row, NEW nav_base, NEW shares, NEW prior, NEW fees,
         NEW new, new = Restated(row, nav_base, shares, prior, fees)
  PROVE  "gav" \in DOMAIN new /\ new.gav = row.gav
<1>1. \E nav, move, break : new = [row EXCEPT !.nav_base = nav_base, !.shares = shares, !.nav = nav,
                 !.prior = prior, !.fees = fees, !.move = move, !.is_break = break]
  BY DEF Restated
<1> QED
  BY <1>1

\* The row of one class restated, and perhaps its fee row.
LEMMA OneGross ==
  ASSUME NEW d \in Days, NEW y, NEW row, NEW nav_base, NEW shares, NEW prior, NEW fees,
         DayTyped(books, d), DOMAIN books.nav = Days,
         books'.nav = [books.nav EXCEPT ![d][y] = row],
         row = Restated(books.nav[d][y], nav_base, shares, prior, fees),
         NEW x \in Days, NEW c \in DOMAIN fund.classes, "gav" \in DOMAIN books.nav[x][c]
  PROVE  "gav" \in DOMAIN books'.nav[x][c] /\ books'.nav[x][c].gav = books.nav[x][c].gav
<1>1. DOMAIN books.nav[d] = DOMAIN fund.classes
  BY DEF DayTyped
<1>2. CASE x = d /\ c = y
  <2>1. books'.nav[x][c] = row
    BY <1>1, <1>2
  <2>2. "gav" \in DOMAIN row /\ row.gav = books.nav[x][c].gav
    BY <1>2, RestatedGross
  <2> QED
    BY <2>1, <2>2
<1>3. CASE ~(x = d /\ c = y)
  BY <1>1, <1>3
<1> QED
  BY <1>2, <1>3

LEMMA Defect5Gross ==
  ASSUME Typed, Defect5, NEW x \in Days,
         NEW c \in DOMAIN fund.classes, "gav" \in DOMAIN books.nav[x][c]
  PROVE  "gav" \in DOMAIN books'.nav[x][c] /\ books'.nav[x][c].gav = books.nav[x][c].gav
<1> DEFINE d      == Entry.as_of
           y      == Entry.class
           old    == books.nav[d][y]
<1>1. \E fee, n, f, row : /\ books' = [books EXCEPT !.fees[d][y] = fee, !.nav[d][y] = row]
                          /\ row = Restated(old, n, old.shares, old.prior, f)
  <2> DEFINE cfg    == fund.classes[y]
             fee    == books.fees[d][y]
             stale  == cfg.nav \otimes (One \oplus Entry.offset)
             gross  == old.nav_base \oplus fee.balance
             target == NoLess(Zero, ((gross \oslash old.shares) \ominus stale)
                               \otimes old.shares \otimes cfg.perf)
             fee2   == [fee EXCEPT !.balance = target, !.delta = target, !.hwm = stale]
             row2   == Restated(old, gross \ominus target, old.shares, old.prior,
                                fee.mgmt \oplus target)
  <2>1. books' = [books EXCEPT !.fees[d][y] = fee2, !.nav[d][y] = row2]
    BY Zenon DEF Defect5
  <2> HIDE DEF d, y, cfg, fee, old, fee2, gross, target
  <2> QED
    BY <2>1
<1>2. d \in Days /\ TablesTyped(books) /\ DOMAIN books.nav = Days /\ DayTyped(books, d)
  BY Operating DEF Defect5, Due, DueHere
<1> HIDE DEF d, y
<1>3. PICK fee, n, f, row : /\ books' = [books EXCEPT !.fees[d][y] = fee, !.nav[d][y] = row]
                            /\ row = Restated(old, n, old.shares, old.prior, f)
  BY <1>1
<1>4. books'.nav = [books.nav EXCEPT ![d][y] = row]
  BY <1>2, <1>3 DEF TablesTyped, Tables
<1> QED
  BY <1>2, <1>3, <1>4, OneGross

LEMMA Defect10Gross ==
  ASSUME Typed, Defect10, NEW x \in Days,
         NEW c \in DOMAIN fund.classes, "gav" \in DOMAIN books.nav[x][c]
  PROVE  "gav" \in DOMAIN books'.nav[x][c] /\ books'.nav[x][c].gav = books.nav[x][c].gav
<1> DEFINE d      == Entry.as_of
           y      == Entry.class
           old    == books.nav[d][y]
           extra  == books.fees[d][Entry.from].mgmt \otimes Overcharge
           row2   == Restated(old, old.nav_base \ominus extra, old.shares, old.prior,
                              old.fees \oplus extra)
<1>1. books' = [books EXCEPT !.nav[d][y] = row2, !.fees[d][y].mgmt = @ \oplus extra]
  BY Zenon DEF Defect10
<1>2. d \in Days /\ TablesTyped(books) /\ DOMAIN books.nav = Days /\ DayTyped(books, d)
  BY Operating DEF Defect10, Due, DueHere
<1> HIDE DEF d, y, extra
<1>3. PICK row, n, s, p, f : row = row2 /\ row = Restated(books.nav[d][y], n, s, p, f)
  OBVIOUS
<1>4. books'.nav = [books.nav EXCEPT ![d][y] = row]
  <2> HIDE DEF row2
  <2> QED
    BY <1>1, <1>2, <1>3 DEF TablesTyped, Tables
<1> QED
  BY <1>2, <1>3, <1>4, OneGross

LEMMA Defect8Gross ==
  ASSUME Typed, Defect8, NEW x \in Days,
         NEW c \in DOMAIN fund.classes, "gav" \in DOMAIN books.nav[x][c]
  PROVE  "gav" \in DOMAIN books'.nav[x][c] /\ books'.nav[x][c].gav = books.nav[x][c].gav
<1> DEFINE d      == Entry.as_of
           y      == Entry.class
           old    == books.nav[d][y]
           prior  == books.nav[PriorBusinessDay(d)][y].nav
           booked == Total([e \in FlowsToday(y, d) |-> e.delta])
           before == old.shares \ominus booked
           new    == Entry.amount \oslash prior
           row2   == Restated(old, (before \otimes prior \otimes (One \oplus Entry.gain))
                                 \oplus Entry.amount,
                            before \oplus new, prior, old.fees)
<1>1. CASE PriorBusinessDay(d) \in DOMAIN books.nav
  <2>1. books' = [books EXCEPT !.nav[d][y] = row2]
    BY <1>1, Zenon DEF Defect8
  <2>2. d \in Days /\ TablesTyped(books) /\ DOMAIN books.nav = Days /\ DayTyped(books, d)
    BY Operating DEF Defect8, Due, DueHere
  <2> HIDE DEF d, y, before, new, prior
  <2>3. PICK row, n, s, p, f : row = row2 /\ row = Restated(books.nav[d][y], n, s, p, f)
    OBVIOUS
  <2>4. books'.nav = [books.nav EXCEPT ![d][y] = row]
    <3> HIDE DEF row2
    <3> QED
      BY <2>1, <2>2, <2>3 DEF TablesTyped, Tables
  <2> QED
    BY <2>2, <2>3, <2>4, OneGross
<1>2. CASE ~(PriorBusinessDay(d) \in DOMAIN books.nav)
  <2>1. books' = books
    BY <1>2, Zenon DEF Defect8
  <2> QED
    BY <2>1
<1> QED
  BY <1>1, <1>2

LEMMA SurgeryGross ==
  ASSUME Typed, Solvent, Solvent', fund' = fund, PostWalk, NEW x \in Days,
         NEW c \in DOMAIN fund.classes, "gav" \in DOMAIN books.nav[x][c]
  PROVE  "gav" \in DOMAIN books'.nav[x][c] /\ books'.nav[x][c].gav = books.nav[x][c].gav
<1> DEFINE d == Entry.as_of
<1>1. phase = "postwalk" /\ cursor \in DOMAIN schedule
  BY Zenon DEF PostWalk, Defect2, Defect5, Defect6, Defect8, Defect9, Defect10, Due, DueHere
<1>2. d \in Days /\ TablesTyped(books) /\ DOMAIN books.nav = Days /\ DayTyped(books, d)
  BY <1>1, Operating
<1>3. CASE Defect5 \/ Defect8 \/ Defect10
  BY <1>3, Defect5Gross, Defect8Gross, Defect10Gross
<1>4. CASE FundAdjustment
  <2>1. PICK rows, delta : AllAdjusted(books', books, d, rows, delta)
    BY <1>4 DEF FundAdjustment
  <2>2. CASE x # d
    BY <1>2, <2>1, <2>2 DEF AllAdjusted, Touched, Only
  <2>3. CASE x = d
    <3>1. \/ books'.nav[d] = books.nav[d]
          \/ books'.nav[d][c] = PartRow(books.nav, d, c, delta)
      BY <1>2, <2>1, AdjustedRows
    <3> HIDE DEF d
    <3> QED
      BY <2>3, <3>1, RestatedGross DEF PartRow
  <2> QED
    BY <2>2, <2>3
<1>5. CASE books' = books
  BY <1>5
<1> QED
  BY <1>3, <1>4, <1>5, Defect2Adjusts, Defect6Typed, Defect9Adjusts DEF PostWalk

LEMMA NoneActed ==
  ASSUME Typed, Paced, OnceEach(schedule), phase = "postwalk", cursor \in DOMAIN schedule
  PROVE  Acted(Entry.code) = {}
<1>1. ASSUME NEW k \in Acted(Entry.code) PROVE FALSE
  <2>1. k \in DOMAIN schedule /\ schedule[k].code = schedule[cursor].code /\ k < cursor
    BY <1>1 DEF Acted, Passed, Entry
  <2>2. k = cursor
    BY <2>1 DEF OnceEach
  <2>3. cursor \in Nat
    BY ScheduleLength DEF Typed, ChoicesTyped
  <2> QED
    BY <2>1, <2>2, <2>3
<1> QED
  BY <1>1

\* Another fee than the class's rate is left, on the day and for the class.
LEMMA Defect10Charges ==
  ASSUME Typed, Paced, Solvent, Solvent', Telling(fund, schedule), Charging, Defect10
  PROVE  Charging'
<1>1. /\ phase = "postwalk" /\ phase' = "postwalk" /\ cursor \in DOMAIN schedule /\ PostWalk
      /\ Entry.code = "class_fee_misallocation" /\ schedule' = schedule /\ fund' = fund
      /\ walk' = walk /\ Mine(Entry)
  BY DEF Defect10, Due, DueHere, PostWalk
<1>2. Acted("class_fee_misallocation")' = {cursor}
  <2>1. Acted("class_fee_misallocation") = {}
    BY <1>1, NoneActed DEF Telling
  <2> QED
    BY <1>1, <2>1, ActedGrows DEF PostWalkCodes, Next
<1>3. Acted("class_fee_misallocation") = {}
  BY <1>1, NoneActed DEF Telling
<1>4. PICK d, c, from : d = Entry.as_of /\ c = Entry.class /\ from = Entry.from
  OBVIOUS
<1>5. /\ c \in DOMAIN fund.classes /\ from \in DOMAIN fund.classes
      /\ books'.fees[d][c].mgmt =
           books.fees[d][c].mgmt \oplus (books.fees[d][from].mgmt \otimes Overcharge)
      /\ \A x \in Days : \A y \in DOMAIN fund.classes :
           x # d \/ y # c => books'.fees[x][y] = books.fees[x][y]
  BY <1>4, Defect10Fees
<1>6. d \in Days
  BY <1>1, <1>4, Operating
<1>7. \A x \in Days : \A y \in DOMAIN fund.classes : Gross(books, x, y) /\ Charge(books, x, y)
  BY <1>1, <1>3 DEF Charging, Late
<1>8. \A x \in Days : \A y \in DOMAIN fund.classes :
        "gav" \in DOMAIN books'.nav[x][y] /\ books'.nav[x][y].gav = books.nav[x][y].gav
  BY <1>1, <1>7, SurgeryGross DEF Gross
<1>9. books'.fees[d][c].mgmt # books'.nav[d][c].gav \otimes fund.classes[c].mgmt
  <2>1. PICK m, n, g, h, r, q : /\ m = books.fees[d][c].mgmt /\ n = books.fees[d][from].mgmt
                             /\ g = books.nav[d][c].gav /\ h = books.nav[d][from].gav
                             /\ r = fund.classes[c].mgmt /\ q = fund.classes[from].mgmt
    OBVIOUS
  <2>2. m = g \otimes r /\ n = h \otimes q /\ IsRat(g) /\ IsRat(h)
    BY <1>5, <1>6, <1>7, <2>1 DEF Gross, Charge
  <2>3. h # Zero /\ q # Zero
    <3>1. Tells(fund, Entry)
      BY <1>1 DEF Telling, Entry
    <3>2. ~fund.classes[from].has_hwm /\ q # Zero
      BY <1>1, <1>4, <2>1, <3>1 DEF Tells, Mine
    <3> QED
      BY <1>5, <1>6, <1>7, <2>1, <3>2 DEF Gross
  <2>4. IsRat(r) /\ IsRat(q)
    BY <1>5, <2>1, ClassIsTyped DEF Typed, ChoicesTyped
  <2>5. Divisor(Overcharge)
    BY Integral DEF Divisor, Overcharge, Rat, Zero
  <2>6. PICK o : o = Overcharge
    OBVIOUS
  <2>7. Divisor(n \otimes o)
    BY <2>2, <2>3, <2>4, <2>5, <2>6, DivisorProduct DEF Divisor
  <2>8. PICK x : x = n \otimes o
    OBVIOUS
  <2>9. IsRat(m)
    BY <2>2, <2>4, ProductIsRat
  <2>10. m \oplus x # m
    <3>1. m \oplus Zero = m
      BY <2>9, ZeroSum
    <3> QED
      BY <2>7, <2>8, <2>9, <3>1, ZeroOne, SumCancels DEF Divisor
  <2>11. books'.fees[d][c].mgmt = m \oplus x
    BY <1>5, <2>1, <2>6, <2>8
  <2> QED
    BY <1>5, <1>6, <1>8, <2>1, <2>2, <2>10, <2>11
<1>10. \A x, y : Strikes(cursor, x, y) <=> x = d /\ y = c
  BY <1>4 DEF Strikes, Entry
<1>11. \A k, x, y : Strikes(k, x, y)' <=> Strikes(k, x, y)
  BY <1>1 DEF Strikes
<1>12. ASSUME NEW x \in Days, NEW y \in DOMAIN fund.classes
       PROVE  /\ Gross(books, x, y)'
              /\ Charge(books, x, y)' <=>
                   ~\E k \in Acted("class_fee_misallocation")' : Strikes(k, x, y)'
  <2>1. Gross(books, x, y)'
    BY <1>1, <1>7, <1>8 DEF Gross
  <2>2. CASE x = d /\ y = c
    BY <1>1, <1>2, <1>9, <1>10, <1>11, <2>1, <2>2 DEF Charge
  <2>3. CASE ~(x = d /\ y = c)
    <3>1. Charge(books, x, y)'
      BY <1>1, <1>5, <1>7, <1>8, <2>3 DEF Charge
    <3> QED
      BY <1>2, <1>10, <1>11, <2>1, <2>3, <3>1
  <2> QED
    BY <2>2, <2>3
<1> QED
  BY <1>1, <1>12 DEF Charging, Gross, Charge

LEMMA BulkWriteCharges == ASSUME Typed, Paced, Charging, BulkWrite PROVE Charging'
<1>1. /\ phase = "walk" /\ phase' = "postwalk" /\ books' = walk.rows /\ walk' = walk
      /\ walk.day = LastDay + 1
  BY DEF BulkWrite, Advance
<1>2. fund' = fund /\ schedule' = schedule /\ [Next]_vars
  BY Looping DEF Next
<1>3. Acted("class_fee_misallocation")' = {}
  BY <1>1, <1>2, Looping DEF Acted, Passed
<1>4. DOMAIN walk.rows.nav = Days
  BY <1>1, LastDayAssumption DEF Typed, WalkTyped, Days
<1>5. \A d \in Days : \A c \in DOMAIN fund.classes :
        /\ Gross(books, d, c)' /\ Charge(books, d, c)'
        /\ Gross(walk.rows, d, c)' /\ Charge(walk.rows, d, c)'
  BY <1>1, <1>2, <1>4 DEF Charging, Gross, Charge
<1> QED
  BY <1>1, <1>2, <1>3, <1>4, <1>5 DEF Charging

LEMMA OtherSurgeryCharges ==
  ASSUME Typed, Paced, Solvent, Solvent', Telling(fund, schedule), Marking, Charging,
         PostWalk, ~Defect10
  PROVE  Charging'
<1>1. /\ phase = "postwalk" /\ phase' = "postwalk" /\ cursor \in DOMAIN schedule
      /\ Entry.code # "class_fee_misallocation"
  BY Zenon DEF PostWalk, Defect2, Defect5, Defect6, Defect8, Defect9, Due, DueHere
<1>2. fund' = fund /\ schedule' = schedule /\ [Next]_vars
  BY Looping DEF Next
<1>3. Acted("class_fee_misallocation")' = Acted("class_fee_misallocation")
  BY <1>1, <1>2, ActedGrows DEF PostWalkCodes
<1>4. walk' = walk
  BY <1>1, <1>2, TablesKept DEF WalkDay
<1>5. ASSUME NEW x \in Days, NEW y \in DOMAIN fund.classes
      PROVE  books'.fees[x][y].mgmt = books.fees[x][y].mgmt
  <2>1. CASE Defect5
    <3>1. PICK d, c : d = Entry.as_of /\ c = Entry.class
      OBVIOUS
    <3>2. /\ books'.fees[d][c].mgmt = books.fees[d][c].mgmt
          /\ x # d \/ y # c => books'.fees[x][y] = books.fees[x][y]
      BY <2>1, <3>1, Defect5Fees
    <3> QED
      BY <3>2
  <2>2. CASE ~Defect5
    BY <2>2, SurgeryKeeps
  <2> QED
    BY <2>1, <2>2
<1>6. ASSUME NEW x \in Days, NEW y \in DOMAIN fund.classes
      PROVE  /\ Gross(books, x, y)'
             /\ Charge(books, x, y)' <=>
                  ~\E k \in Acted("class_fee_misallocation")' : Strikes(k, x, y)'
  <2>1. /\ Gross(books, x, y)
        /\ Charge(books, x, y) <=>
             ~\E k \in Acted("class_fee_misallocation") : Strikes(k, x, y)
    BY <1>1 DEF Charging, Late
  <2>2. "gav" \in DOMAIN books'.nav[x][y] /\ books'.nav[x][y].gav = books.nav[x][y].gav
    BY <1>2, <2>1, SurgeryGross DEF Gross
  <2>3. Gross(books, x, y)'
    BY <1>2, <2>1, <2>2 DEF Gross
  <2>4. Charge(books, x, y)' <=> Charge(books, x, y)
    BY <1>2, <1>5, <2>2 DEF Charge
  <2>5. \A k : Strikes(k, x, y)' <=> Strikes(k, x, y)
    BY <1>2 DEF Strikes
  <2> QED
    BY <1>3, <2>1, <2>3, <2>4, <2>5
<1>7. \A x \in DOMAIN walk'.rows.nav : \A y \in DOMAIN fund'.classes :
        Gross(walk.rows, x, y)' /\ Charge(walk.rows, x, y)'
  BY <1>2, <1>4 DEF Charging, Gross, Charge
<1> QED
  BY <1>1, <1>2, <1>6, <1>7 DEF Charging

LEMMA NextCharges ==
  Typed /\ Paced /\ Solvent /\ Solvent' /\ Telling(fund, schedule) /\ Marking /\ Charging
    /\ [Next]_vars => Charging'
<1> SUFFICES ASSUME Typed, Paced, Solvent, Solvent', Telling(fund, schedule), Marking, Charging,
                    [Next]_vars
             PROVE  Charging'
  OBVIOUS
<1>1. CASE WalkDay \/ BulkWrite \/ PostWalk
  BY <1>1, WalkDayCharges, BulkWriteCharges, Defect10Charges, OtherSurgeryCharges
<1>2. CASE ~(WalkDay \/ BulkWrite \/ PostWalk)
  <2>1. walk' = walk /\ books' = books /\ fund' = fund /\ schedule' = schedule
    BY <1>2, TablesKept, Looping
  <2>2. Acted("class_fee_misallocation")' = Acted("class_fee_misallocation")
    BY <1>2, ActedGrows DEF PostWalkCodes
  <2>3. phase' \in Late => phase \in Late
    BY <1>2, Looping DEF Late
  <2>4. \A d, c : /\ Gross(books, d, c)' <=> Gross(books, d, c)
                  /\ Charge(books, d, c)' <=> Charge(books, d, c)
                  /\ Gross(walk.rows, d, c)' <=> Gross(walk.rows, d, c)
                  /\ Charge(walk.rows, d, c)' <=> Charge(walk.rows, d, c)
                  /\ \A k : Strikes(k, d, c)' <=> Strikes(k, d, c)
    BY <2>1 DEF Gross, Charge, Strikes
  <2> QED
    BY <2>1, <2>2, <2>3, <2>4 DEF Charging
<1> QED
  BY <1>1, <1>2

-----------------------------------------------------------------------------
(* Everything together.                                                    *)

Signalling ==
  Paced /\ Accruing /\ Ordering /\ Payments /\ Taxing /\ Marking /\ Charging

LEMMA InitSignals == Init /\ Solvent => Signalling
<1> SUFFICES ASSUME Init, Solvent PROVE Signalling
  OBVIOUS
<1>1. /\ phase = "fx" /\ cursor = 1 /\ input.capstock = {} /\ input.actions = {}
      /\ walk = InitFundState(fund)
  BY DEF Init
<1>2. /\ walk.rows.receipts = {} /\ DOMAIN walk.rows.nav = {}
  BY <1>1 DEF InitFundState, NoBooks
<1>3. Injected("missed_corp_action") = {}
  BY <1>1 DEF Injected
<1>4. Paced /\ Accruing /\ Ordering /\ Taxing /\ Charging
  BY <1>1, <1>2 DEF Paced, Accruing, Ordering, Taxing, Charging
<1>5. Payments
  BY <1>1, <1>2, <1>3 DEF Payments, Applying, Paying
<1>6. ASSUME NEW c \in DOMAIN fund.classes
      PROVE  /\ fund.classes[c].nav # Zero
             /\ "hwm" \in DOMAIN walk.classes[c] /\ walk.classes[c].hwm = fund.classes[c].nav
  <2>1. walk.classes[c] = [shares |-> fund.classes[c].shares, nav |-> fund.classes[c].nav,
                           balance |-> Zero, hwm |-> fund.classes[c].nav]
    BY <1>1 DEF InitFundState
  <2>2. walk.classes[c].nav # Zero
    BY DEF Solvent
  <2> QED
    BY <2>1, <2>2
<1>7. Marking
  BY <1>1, <1>2, <1>6 DEF Marking
<1> QED
  BY <1>4, <1>5, <1>7 DEF Signalling

LEMMA NextSignals ==
  Typed /\ Solvent /\ Solvent' /\ Rolling /\ Following /\ Telling(fund, schedule)
    /\ Signalling /\ [Next]_vars => Signalling'
  BY NextPaced, NextAccrues, NextOrders, NextPays, NextTaxes, NextMarks, NextCharges DEF Signalling

LEMMA NextTells == Telling(fund, schedule) /\ [Next]_vars => Telling(fund, schedule)'
<1> SUFFICES ASSUME Telling(fund, schedule), [Next]_vars PROVE Telling(fund, schedule)'
  OBVIOUS
<1>1. fund' = fund /\ schedule' = schedule
  BY NextSame DEF vars
<1> QED
  BY <1>1 DEF Telling, OnceEach, Tells

\* The finished warehouse has gone through both loops.
LEMMA Finished ==
  ASSUME Typed, phase = "done"
  PROVE  /\ Rows = books /\ Struck = Days /\ DOMAIN books.nav = Days
         /\ \A code : /\ Injected(code) = {k \in DOMAIN schedule : schedule[k].code = code}
                      /\ Passed(code) = {k \in DOMAIN schedule : schedule[k].code = code}
                      /\ Acted(code) = {k \in OwnEntries : schedule[k].code = code}
         /\ \A i, d : Holds(i, d) <=> Zero \prec Size(books.holdings[d], i)
<1>1. Rows = books /\ Struck = Days /\ DOMAIN books.nav = Days
  BY DEF Rows, Struck, Typed, BooksTyped
<1>2. \A code : /\ Injected(code) = {k \in DOMAIN schedule : schedule[k].code = code}
                /\ Passed(code) = {k \in DOMAIN schedule : schedule[k].code = code}
                /\ Acted(code) = {k \in OwnEntries : schedule[k].code = code}
  BY DEF Injected, Passed, Acted, OwnEntries
<1>3. \A i, d : Quantity(i, d) = Size(books.holdings[d], i)
  BY <1>1, Zenon DEF Quantity, Size
<1> QED
  BY <1>1, <1>2, <1>3 DEF Holds

\* What the schedule has for a day: an entry of some of it, an entry whose
\* instrument the fund holds, and an entry for another fund that strays.
Seeded(K, code, d) == \E k \in K : schedule[k].code = code /\ schedule[k].as_of = d
SeededHeld(K, code, d) ==
  \E k \in K : schedule[k].code = code /\ schedule[k].as_of = d /\ Holds(schedule[k].instr, d)
StraysOn(d) == \E k \in DOMAIN schedule : schedule[k].as_of = d /\ Strays(schedule[k])

Unpaid(ca) == Holds(ca.instr, ca.pay) /\ \A x \in books.receipts : x.id # ca.id

\* The receipt of defect 9 is that of an entry of the fund, the only one.
LEMMA ReceiptIsOwn ==
  ASSUME Typed, Taxing, Telling(fund, schedule), phase = "done",
         NEW k \in DOMAIN schedule, schedule[k].code = "wrong_wht",
         Holds(schedule[k].instr, schedule[k].as_of)
  PROVE  (\E x \in books.receipts : x.id = "CA_DEFECT_9") <=> Mine(schedule[k])
<1>1. Acted("wrong_wht") = {l \in OwnEntries : schedule[l].code = "wrong_wht"}
  BY Finished
<1>2. ASSUME NEW x \in books.receipts, x.id = "CA_DEFECT_9" PROVE Mine(schedule[k])
  <2>1. PICK l \in Acted("wrong_wht") : Taxes(l, x.day)
    BY <1>2 DEF Taxing, FromDefect9, Late
  <2>2. l \in DOMAIN schedule /\ schedule[l].code = "wrong_wht" /\ Mine(schedule[l])
    BY <1>1, <2>1 DEF OwnEntries
  <2> QED
    BY <2>2 DEF Telling, OnceEach
<1>3. ASSUME Mine(schedule[k]) PROVE \E x \in books.receipts : x.id = "CA_DEFECT_9"
  <2>1. k \in Acted("wrong_wht")
    BY <1>1, <1>3 DEF OwnEntries
  <2>2. PICK d : d = schedule[k].as_of
    OBVIOUS
  <2>3. Taxes(k, d)
    BY <2>2, Finished DEF Taxes
  <2>4. d \in Days
    BY <2>2, EntriesComplete
  <2> QED
    BY <2>1, <2>3, <2>4 DEF Taxing, FromDefect9, Late
<1> QED
  BY <1>2, <1>3

LEMMA UnpaidIsSeeded ==
  ASSUME Typed, Payments, Taxing, Telling(fund, schedule), phase = "done", NEW d
  PROVE  (\E ca \in input.actions : ca.pay = d /\ Unpaid(ca))
           <=> SeededHeld(DOMAIN schedule, "missed_corp_action", d) \/ StraysOn(d)
<1>1. Paying(books) /\ Applying
  BY DEF Payments, Late
<1>2. Passed("wrong_wht") = {k \in DOMAIN schedule : schedule[k].code = "wrong_wht"}
  BY Finished
<1>3. ASSUME NEW ca \in input.actions, ca.pay = d, Unpaid(ca)
      PROVE  SeededHeld(DOMAIN schedule, "missed_corp_action", d) \/ StraysOn(d)
  <2>1. CASE ca.applied /\ ca.pay \in Days /\ ca.id \notin Seeding
    <3>1. Owed(books, ca)
      BY <1>3, <2>1, Finished DEF Owed, Unpaid
    <3> QED
      BY <1>1, <1>3, <2>1, <3>1 DEF Paying, IsPaid, Unpaid
  <2>2. CASE \E k \in Injected("missed_corp_action") : Omits(k, ca)
    <3>1. PICK k \in Injected("missed_corp_action") : Omits(k, ca)
      BY <2>2
    <3>2. k \in DOMAIN schedule /\ schedule[k].code = "missed_corp_action"
      BY <3>1, Finished
    <3> QED
      BY <1>3, <3>1, <3>2 DEF SeededHeld, Omits, Unpaid
  <2>3. CASE \E k \in Passed("wrong_wht") : Brings(k, ca)
    <3>1. PICK k \in Passed("wrong_wht") : Brings(k, ca)
      BY <2>3
    <3>2. /\ k \in DOMAIN schedule /\ schedule[k].code = "wrong_wht" /\ schedule[k].as_of = d
          /\ Holds(schedule[k].instr, schedule[k].as_of)
      BY <1>2, <1>3, <3>1 DEF Brings, Unpaid
    <3>3. ~Mine(schedule[k])
      BY <1>3, <3>1, <3>2, ReceiptIsOwn DEF Brings, Unpaid
    <3> QED
      BY <3>1, <3>2, <3>3 DEF Brings, StraysOn, Strays
  <2> QED
    BY <1>1, <2>1, <2>2, <2>3 DEF Applying
<1>4. ASSUME NEW k \in DOMAIN schedule, schedule[k].code = "missed_corp_action",
             schedule[k].as_of = d, Holds(schedule[k].instr, d)
      PROVE  \E ca \in input.actions : ca.pay = d /\ Unpaid(ca)
  <2>1. k \in Injected("missed_corp_action")
    BY <1>4, Finished
  <2>2. PICK ca \in input.actions : Omits(k, ca)
    BY <1>1, <2>1 DEF Applying
  <2> QED
    BY <1>1, <1>4, <2>2 DEF Paying, Omits, Unpaid
<1>5. ASSUME NEW k \in DOMAIN schedule, schedule[k].as_of = d, Strays(schedule[k])
      PROVE  \E ca \in input.actions : ca.pay = d /\ Unpaid(ca)
  <2>1. /\ schedule[k].code = "wrong_wht" /\ ~Mine(schedule[k])
        /\ Holds(schedule[k].instr, schedule[k].as_of)
    BY <1>5 DEF Strays
  <2>2. PICK ca \in input.actions : ca.id = "CA_DEFECT_9"
    BY <1>5 DEF Strays
  <2>3. PICK l \in Passed("wrong_wht") : Brings(l, ca)
    BY <1>1, <2>2 DEF Applying, Seeding, Omits
  <2>4. l = k
    BY <1>2, <2>1, <2>3 DEF Telling, OnceEach
  <2>5. ~\E x \in books.receipts : x.id = "CA_DEFECT_9"
    BY <2>1, ReceiptIsOwn
  <2> QED
    BY <1>5, <2>1, <2>2, <2>3, <2>4, <2>5 DEF Brings, Unpaid
<1> QED
  BY <1>3, <1>4, <1>5 DEF SeededHeld, StraysOn

LEMMA LateIsSeeded ==
  ASSUME Typed, Ordering, phase = "done", NEW d
  PROVE  (\E e \in input.capstock : e.received > CutoffTime /\ e.day = d)
           <=> Seeded(OwnEntries, "subscription_pre_cutoff", d)
<1>1. Acted("subscription_pre_cutoff") =
        {k \in OwnEntries : schedule[k].code = "subscription_pre_cutoff"}
  BY Finished
<1> QED
  BY <1>1 DEF Ordering, IsLate, Seeded, Late

LEMMA TaxIsSeeded ==
  ASSUME Typed, Taxing, phase = "done", NEW d
  PROVE  (\E x \in books.receipts :
            x.rate # GetWhtRates(fund.domicile, Instr[x.instr].country).treaty /\ x.day = d)
           <=> SeededHeld(OwnEntries, "wrong_wht", d)
<1>1. Acted("wrong_wht") = {k \in OwnEntries : schedule[k].code = "wrong_wht"}
  BY Finished
<1>2. \A k : Taxes(k, d) <=> schedule[k].as_of = d /\ Holds(schedule[k].instr, d)
  BY Finished DEF Taxes
<1>3. ASSUME NEW x \in books.receipts, ~Treaty(x), x.day = d
      PROVE  SeededHeld(OwnEntries, "wrong_wht", d)
  <2>1. PICK k \in Acted("wrong_wht") : Taxes(k, d)
    BY <1>3 DEF Taxing, Late
  <2> QED
    BY <1>1, <1>2, <2>1 DEF SeededHeld
<1>4. ASSUME SeededHeld(OwnEntries, "wrong_wht", d)
      PROVE  \E x \in books.receipts : ~Treaty(x) /\ x.day = d
  <2>1. PICK k \in OwnEntries : /\ schedule[k].code = "wrong_wht" /\ schedule[k].as_of = d
                                /\ Holds(schedule[k].instr, d)
    BY <1>4 DEF SeededHeld
  <2>2. k \in Acted("wrong_wht") /\ Taxes(k, d)
    BY <1>1, <1>2, <2>1
  <2>3. d \in Days
    BY <2>1, EntriesComplete DEF OwnEntries
  <2> QED
    BY <2>2, <2>3 DEF Taxing, Late
<1> QED
  BY <1>3, <1>4 DEF Treaty

LEMMA MarkIsSeeded ==
  ASSUME Typed, Marking, phase = "done", NEW d
  PROVE  (d \in Days /\ \E c \in DOMAIN fund.classes : books.fees[d][c].hwm # fund.classes[c].nav)
           <=> Seeded(OwnEntries, "stale_hwm_perf_fee", d)
<1>1. Acted("stale_hwm_perf_fee") =
        {k \in OwnEntries : schedule[k].code = "stale_hwm_perf_fee"}
  BY Finished
<1>2. \A k \in Acted("stale_hwm_perf_fee") :
        schedule[k].as_of \in Days /\ schedule[k].class \in DOMAIN fund.classes
  BY <1>1, EntriesComplete DEF EntryComplete, OwnEntries, Mine
<1>3. \A x \in Days : \A c \in DOMAIN fund.classes :
        Mark(books, x, c) <=> ~\E k \in Acted("stale_hwm_perf_fee") : Strikes(k, x, c)
  BY DEF Marking, Late
<1> QED
  BY <1>1, <1>2, <1>3 DEF Mark, Strikes, Seeded

LEMMA ChargeIsSeeded ==
  ASSUME Typed, Charging, phase = "done", NEW d
  PROVE  (d \in Days /\ \E c \in DOMAIN fund.classes :
            books.fees[d][c].mgmt # books.nav[d][c].gav \otimes fund.classes[c].mgmt)
           <=> Seeded(OwnEntries, "class_fee_misallocation", d)
<1>1. Acted("class_fee_misallocation") =
        {k \in OwnEntries : schedule[k].code = "class_fee_misallocation"}
  BY Finished
<1>2. \A k \in Acted("class_fee_misallocation") :
        schedule[k].as_of \in Days /\ schedule[k].class \in DOMAIN fund.classes
  BY <1>1, EntriesComplete DEF EntryComplete, OwnEntries, Mine
<1>3. \A x \in Days : \A c \in DOMAIN fund.classes :
        Charge(books, x, c) <=> ~\E k \in Acted("class_fee_misallocation") : Strikes(k, x, c)
  BY DEF Charging, Late
<1> QED
  BY <1>1, <1>2, <1>3 DEF Charge, Strikes, Seeded

\* A value that stands still on a day and moves on the next.
Stands(d, b) ==
  /\ input.accruals[d][b] = input.accruals[d - 1][b]
  /\ d = LastDay \/ input.accruals[d + 1][b] # input.accruals[d][b]

LEMMA CouponTold ==
  ASSUME Typed, Telling(fund, schedule), phase = "done",
         NEW k \in Injected("missed_coupon_accrual")
  PROVE  /\ schedule[k].as_of \in Days /\ schedule[k].instr \in Bonds
         /\ schedule[k].missed_days \in 1 .. schedule[k].as_of - 1
         /\ GoodDay(k) \in Days
         /\ \A d \in Int :
              d \in FrozenWindow(schedule[k]) <=> GoodDay(k) < d /\ d <= schedule[k].as_of
         /\ \A l \in Injected("missed_coupon_accrual") : l = k
<1>1. /\ k \in DOMAIN schedule /\ schedule[k].code = "missed_coupon_accrual"
      /\ \A l \in Injected("missed_coupon_accrual") :
            l \in DOMAIN schedule /\ schedule[l].code = "missed_coupon_accrual"
  BY Finished
<1>2. PICK a, m : a = schedule[k].as_of /\ m = schedule[k].missed_days
  OBVIOUS
<1>3. a \in Days /\ schedule[k].instr \in Bonds
  BY <1>1, <1>2, EntriesComplete DEF EntryComplete
<1>4. m \in 1 .. a - 1
  <2>1. Tells(fund, schedule[k])
    BY <1>1 DEF Telling
  <2> QED
    BY <1>1, <1>2, <2>1 DEF Tells
<1>5. /\ GoodDay(k) = a - m /\ FrozenWindow(schedule[k]) = a - (m - 1) .. a
  BY <1>2 DEF GoodDay, FrozenWindow
<1>6. /\ GoodDay(k) \in Days
      /\ \A d \in Int : d \in FrozenWindow(schedule[k]) <=> GoodDay(k) < d /\ d <= a
  BY <1>3, <1>4, <1>5, LastDayAssumption DEF Days
<1>7. \A l \in Injected("missed_coupon_accrual") : l = k
  BY <1>1 DEF Telling, OnceEach
<1> QED
  BY <1>2, <1>3, <1>4, <1>6, <1>7

LEMMA StandingIsFrozen ==
  ASSUME Typed, Telling(fund, schedule), Accruing, phase = "done",
         NEW d \in Days \ {1}, NEW b \in Bonds, Stands(d, b)
  PROVE  \E k \in Injected("missed_coupon_accrual") :
           schedule[k].as_of = d /\ schedule[k].instr = b
<1>1. PICK S : S = Injected("missed_coupon_accrual")
  OBVIOUS
<1>2. \A x \in Days : /\ \A k \in S : Frozen(k, b, x) =>
                              input.accruals[x][b] = Rat(GoodDay(k)) \otimes CouponDaily
                      /\ (\A k \in S : ~Frozen(k, b, x)) =>
                              input.accruals[x][b] = Rat(x) \otimes CouponDaily
  BY <1>1 DEF Accruing
<1>3. d \in Int /\ d - 1 \in Days /\ (d # LastDay => d + 1 \in Days)
  BY LastDayAssumption DEF Days
<1>4. CASE \E k \in S : Frozen(k, b, d)
  <2>1. PICK k \in S : Frozen(k, b, d)
    BY <1>4
  <2>2. PICK g, a : g = GoodDay(k) /\ a = schedule[k].as_of
    OBVIOUS
  <2>3. /\ a \in Days /\ g \in Days
        /\ \A x \in Int : x \in FrozenWindow(schedule[k]) <=> g < x /\ x <= a
    BY <1>1, <2>2, CouponTold
  <2>4. g < d /\ d <= a
    BY <1>3, <2>1, <2>3 DEF Frozen
  <2>5. ASSUME d # a PROVE FALSE
    <3>1. d # LastDay /\ d + 1 \in Int /\ g < d + 1 /\ d + 1 <= a
      BY <2>3, <2>4, <2>5, LastDayAssumption DEF Days
    <3>2. Frozen(k, b, d + 1)
      BY <2>1, <2>3, <3>1 DEF Frozen
    <3>3. input.accruals[d + 1][b] = input.accruals[d][b]
      BY <1>2, <1>3, <2>1, <3>1, <3>2
    <3> QED
      BY <3>1, <3>3 DEF Stands
  <2> QED
    BY <1>1, <2>1, <2>2, <2>5 DEF Frozen
<1>5. CASE \A k \in S : ~Frozen(k, b, d)
  <2>1. input.accruals[d - 1][b] = Rat(d) \otimes CouponDaily
    BY <1>2, <1>5 DEF Stands
  <2>2. CASE \E k \in S : Frozen(k, b, d - 1)
    <3>1. PICK k \in S : Frozen(k, b, d - 1)
      BY <2>2
    <3>2. PICK g : g = GoodDay(k)
      OBVIOUS
    <3>3. g \in Days /\ \A x \in Int : x \in FrozenWindow(schedule[k]) => g < x
      BY <1>1, <3>2, CouponTold
    <3>4. g < d - 1
      BY <1>3, <3>1, <3>3 DEF Frozen
    <3>5. input.accruals[d - 1][b] = Rat(g) \otimes CouponDaily
      BY <1>2, <1>3, <3>1, <3>2
    <3>6. g = d
      <4>1. g \in Int /\ d \in Int /\ Rat(g) \otimes CouponDaily = Rat(d) \otimes CouponDaily
        BY <1>3, <2>1, <3>3, <3>5 DEF Days
      <4> QED
        BY <4>1, CouponsDiffer
    <3> QED
      BY <1>3, <3>3, <3>4, <3>6 DEF Days
  <2>3. CASE \A k \in S : ~Frozen(k, b, d - 1)
    <3>1. input.accruals[d - 1][b] = Rat(d - 1) \otimes CouponDaily
      BY <1>2, <1>3, <2>3
    <3>2. PICK x : x = d - 1
      OBVIOUS
    <3>3. x = d
      <4>1. x \in Int /\ d \in Int /\ Rat(x) \otimes CouponDaily = Rat(d) \otimes CouponDaily
        BY <1>3, <2>1, <3>1, <3>2
      <4> QED
        BY <4>1, CouponsDiffer
    <3> QED
      BY <1>3, <3>2, <3>3
  <2> QED
    BY <2>2, <2>3
<1> QED
  BY <1>4, <1>5

LEMMA FrozenStands ==
  ASSUME Typed, Telling(fund, schedule), Accruing, phase = "done",
         NEW k \in Injected("missed_coupon_accrual")
  PROVE  schedule[k].as_of \in Days \ {1} /\ Stands(schedule[k].as_of, schedule[k].instr)
<1>1. PICK S, b, g, d : /\ S = Injected("missed_coupon_accrual") /\ b = schedule[k].instr
                        /\ g = GoodDay(k) /\ d = schedule[k].as_of
  OBVIOUS
<1>2. /\ d \in Days /\ g \in Days /\ b \in Bonds /\ schedule[k].missed_days \in 1 .. d - 1
      /\ \A x \in Int : x \in FrozenWindow(schedule[k]) <=> g < x /\ x <= d
      /\ \A l \in S : l = k
  BY <1>1, CouponTold
<1>3. \A x \in Days : /\ \A l \in S : Frozen(l, b, x) =>
                              input.accruals[x][b] = Rat(GoodDay(l)) \otimes CouponDaily
                      /\ (\A l \in S : ~Frozen(l, b, x)) =>
                              input.accruals[x][b] = Rat(x) \otimes CouponDaily
  BY <1>1, <1>2 DEF Accruing
<1>4. \A x \in Days : Frozen(k, b, x) <=> g < x /\ x <= d
  BY <1>1, <1>2, LastDayAssumption DEF Frozen, Days
<1>5. \A x \in Days : /\ g < x /\ x <= d => input.accruals[x][b] = Rat(g) \otimes CouponDaily
                      /\ ~(g < x /\ x <= d) => input.accruals[x][b] = Rat(x) \otimes CouponDaily
  BY <1>1, <1>2, <1>3, <1>4
<1>6. d \in Int /\ g \in Int /\ 1 <= g /\ g < d /\ d - 1 \in Days /\ d # 1
  <2>1. g = d - schedule[k].missed_days
    BY <1>1 DEF GoodDay
  <2> QED
    BY <1>2, <2>1, LastDayAssumption DEF Days
<1>7. input.accruals[d][b] = Rat(g) \otimes CouponDaily
  BY <1>2, <1>5, <1>6
<1>8. input.accruals[d - 1][b] = Rat(g) \otimes CouponDaily
  <2>1. CASE d - 1 = g
    <3>1. input.accruals[g][b] = Rat(g) \otimes CouponDaily
      BY <1>2, <1>5, <1>6
    <3> QED
      BY <2>1, <3>1
  <2>2. CASE d - 1 # g
    <3>1. g < d - 1 /\ d - 1 <= d
      BY <1>6, <2>2
    <3> QED
      BY <1>5, <1>6, <3>1
  <2> QED
    BY <2>1, <2>2
<1>9. ASSUME d # LastDay PROVE input.accruals[d + 1][b] # Rat(g) \otimes CouponDaily
  <2>1. d + 1 \in Days /\ d + 1 \in Int /\ ~(d + 1 <= d)
    BY <1>2, <1>6, <1>9, LastDayAssumption DEF Days
  <2>2. input.accruals[d + 1][b] = Rat(d + 1) \otimes CouponDaily
    BY <1>5, <2>1
  <2>3. PICK x : x = d + 1
    OBVIOUS
  <2>4. ASSUME input.accruals[x][b] = Rat(g) \otimes CouponDaily PROVE x = g
    BY <1>6, <2>1, <2>2, <2>3, <2>4, CouponsDiffer
  <2> QED
    BY <1>6, <2>3, <2>4
<1> QED
  BY <1>1, <1>2, <1>6, <1>7, <1>8, <1>9 DEF Stands

LEMMA CouponIsSeeded ==
  ASSUME Typed, Telling(fund, schedule), Accruing, phase = "done", NEW d
  PROVE  (d \in Days \ {1} /\ \E b \in Bonds : Holds(b, d) /\ Stands(d, b))
           <=> SeededHeld(DOMAIN schedule, "missed_coupon_accrual", d)
<1>1. Injected("missed_coupon_accrual") =
        {k \in DOMAIN schedule : schedule[k].code = "missed_coupon_accrual"}
  BY Finished
<1>2. \A k \in Injected("missed_coupon_accrual") : schedule[k].instr \in Bonds
  BY CouponTold
<1> QED
  BY <1>1, <1>2, StandingIsFrozen, FrozenStands DEF SeededHeld

\* The signals, and what they are accounted for by, kind by kind.
UnpaidSignals == {<< "missed_corp_action", ca.pay >> : ca \in {ca \in input.actions : Unpaid(ca)}}
StillSignals ==
  {<< "missed_coupon_accrual", d >> : d \in {d \in Days \ {1} :
     \E b \in Bonds : Holds(b, d) /\ Stands(d, b)}}
LateSignals ==
  {<< "subscription_pre_cutoff", e.day >> : e \in {e \in input.capstock : e.received > CutoffTime}}
TaxSignals ==
  {<< "wrong_wht", x.day >> : x \in {x \in books.receipts :
     x.rate # GetWhtRates(fund.domicile, Instr[x.instr].country).treaty}}
MarkSignals ==
  {<< "stale_hwm_perf_fee", d >> : d \in {d \in Struck : \E c \in DOMAIN fund.classes :
     books.fees[d][c].hwm # fund.classes[c].nav}}
ChargeSignals ==
  {<< "class_fee_misallocation", d >> : d \in {d \in Struck : \E c \in DOMAIN fund.classes :
     books.fees[d][c].mgmt # books.nav[d][c].gav \otimes fund.classes[c].mgmt}}
Of(K, code)     == {<< code, d >> : d \in {d \in Days : Seeded(K, code, d)}}
OfHeld(K, code) == {<< code, d >> : d \in {d \in Days : SeededHeld(K, code, d)}}
Strayed         == {<< "missed_corp_action", d >> : d \in {d \in Days : StraysOn(d)}}

LEMMA SignalsByKind ==
  Signals = UnpaidSignals \cup StillSignals \cup LateSignals \cup TaxSignals \cup MarkSignals
              \cup ChargeSignals
  BY DEF Signals, UnpaidSignals, StillSignals, LateSignals, TaxSignals, MarkSignals, ChargeSignals,
         Unpaid, Stands

LEMMA SeedsByKind ==
  ASSUME Typed
  PROVE  SeededSignals =
           OfHeld(DOMAIN schedule, "missed_corp_action") \cup Strayed
             \cup OfHeld(DOMAIN schedule, "missed_coupon_accrual")
             \cup Of(OwnEntries, "subscription_pre_cutoff") \cup OfHeld(OwnEntries, "wrong_wht")
             \cup Of(OwnEntries, "stale_hwm_perf_fee")
             \cup Of(OwnEntries, "class_fee_misallocation")
<1> DEFINE Seeds == OfHeld(DOMAIN schedule, "missed_corp_action") \cup Strayed
             \cup OfHeld(DOMAIN schedule, "missed_coupon_accrual")
             \cup Of(OwnEntries, "subscription_pre_cutoff") \cup OfHeld(OwnEntries, "wrong_wht")
             \cup Of(OwnEntries, "stale_hwm_perf_fee")
             \cup Of(OwnEntries, "class_fee_misallocation")
<1>1. \A k \in DOMAIN schedule : schedule[k].as_of \in Days
  BY EntriesComplete
<1>2. ASSUME NEW k \in DOMAIN schedule, Shows(schedule[k])
      PROVE  << schedule[k].code, schedule[k].as_of >> \in Seeds
  BY <1>1, <1>2 DEF Shows, SharedCodes, PrivateCodes, Of, OfHeld, Seeded, SeededHeld, OwnEntries
<1>3. ASSUME NEW k \in DOMAIN schedule, Strays(schedule[k])
      PROVE  << "missed_corp_action", schedule[k].as_of >> \in Seeds
  BY <1>1, <1>3 DEF Strayed, StraysOn
<1>4. ASSUME NEW x \in Seeds PROVE x \in SeededSignals
  <2>1. CASE x \in Strayed
    BY <2>1 DEF Strayed, StraysOn, SeededSignals
  <2>2. CASE \E code \in SharedCodes : x \in OfHeld(DOMAIN schedule, code)
    BY <2>2 DEF OfHeld, SeededHeld, SeededSignals, Shows
  <2>3. CASE x \in OfHeld(OwnEntries, "wrong_wht")
    BY <2>3 DEF OfHeld, SeededHeld, SeededSignals, Shows, PrivateCodes, OwnEntries
  <2>4. CASE \E code \in PrivateCodes \ {"wrong_wht"} : x \in Of(OwnEntries, code)
    BY <2>4 DEF Of, Seeded, SeededSignals, Shows, OwnEntries
  <2> QED
    BY <1>4, <2>1, <2>2, <2>3, <2>4 DEF SharedCodes, PrivateCodes
<1> HIDE DEF Seeds
<1>5. SeededSignals = Seeds
  BY <1>2, <1>3, <1>4 DEF SeededSignals
<1> QED
  BY <1>5 DEF Seeds

\* The finished warehouse shows the fund the defects that were seeded for it,
\* and of the others what the shared tables let through.
LEMMA SeededIsSeen ==
  ASSUME Typed, Signalling, Telling(fund, schedule) PROVE SignalsAreAccountedFor
<1> SUFFICES ASSUME phase = "done" PROVE Signals = SeededSignals
  BY DEF SignalsAreAccountedFor
<1>1. Struck = Days
  BY Finished
<1>2. \A K : K \subseteq DOMAIN schedule => \A code, d :
        Seeded(K, code, d) \/ SeededHeld(K, code, d) \/ StraysOn(d) => d \in Days
  BY EntriesComplete DEF Seeded, SeededHeld, StraysOn
<1>3. OwnEntries \subseteq DOMAIN schedule
  BY DEF OwnEntries
<1>4. UnpaidSignals = OfHeld(DOMAIN schedule, "missed_corp_action") \cup Strayed
  <2>1. \A d : (\E ca \in input.actions : ca.pay = d /\ Unpaid(ca))
                 <=> SeededHeld(DOMAIN schedule, "missed_corp_action", d) \/ StraysOn(d)
    BY UnpaidIsSeeded DEF Signalling
  <2> QED
    BY <1>2, <2>1 DEF UnpaidSignals, OfHeld, Strayed
<1>5. StillSignals = OfHeld(DOMAIN schedule, "missed_coupon_accrual")
  <2>1. \A d : (d \in Days \ {1} /\ \E b \in Bonds : Holds(b, d) /\ Stands(d, b))
                 <=> SeededHeld(DOMAIN schedule, "missed_coupon_accrual", d)
    BY CouponIsSeeded DEF Signalling
  <2> QED
    BY <2>1 DEF StillSignals, OfHeld
<1>6. LateSignals = Of(OwnEntries, "subscription_pre_cutoff")
  <2>1. \A d : (\E e \in input.capstock : e.received > CutoffTime /\ e.day = d)
                 <=> Seeded(OwnEntries, "subscription_pre_cutoff", d)
    BY LateIsSeeded DEF Signalling
  <2> QED
    BY <1>2, <1>3, <2>1 DEF LateSignals, Of
<1>7. TaxSignals = OfHeld(OwnEntries, "wrong_wht")
  <2>1. \A d : (\E x \in books.receipts :
                  x.rate # GetWhtRates(fund.domicile, Instr[x.instr].country).treaty /\ x.day = d)
                 <=> SeededHeld(OwnEntries, "wrong_wht", d)
    BY TaxIsSeeded DEF Signalling
  <2> QED
    BY <1>2, <1>3, <2>1 DEF TaxSignals, OfHeld
<1>8. MarkSignals = Of(OwnEntries, "stale_hwm_perf_fee")
  <2>1. \A d : (d \in Days /\ \E c \in DOMAIN fund.classes :
                  books.fees[d][c].hwm # fund.classes[c].nav)
                 <=> Seeded(OwnEntries, "stale_hwm_perf_fee", d)
    BY MarkIsSeeded DEF Signalling
  <2> QED
    BY <1>1, <2>1 DEF MarkSignals, Of
<1>9. ChargeSignals = Of(OwnEntries, "class_fee_misallocation")
  <2>1. \A d : (d \in Days /\ \E c \in DOMAIN fund.classes :
                  books.fees[d][c].mgmt # books.nav[d][c].gav \otimes fund.classes[c].mgmt)
                 <=> Seeded(OwnEntries, "class_fee_misallocation", d)
    BY ChargeIsSeeded DEF Signalling
  <2> QED
    BY <1>1, <2>1 DEF ChargeSignals, Of
<1> QED
  BY <1>4, <1>5, <1>6, <1>7, <1>8, <1>9, SignalsByKind, SeedsByKind

\* As long as the fund goes on, and the schedule has no code twice and entries that
\* change something (as those of DEFECT_SCHEDULE do, config.py:162), whoever looks for
\* the signals of docs/defects.md in the finished warehouse finds of any fund the
\* defects that were seeded for it, each on its day; of the defects seeded for other
\* funds what the shared tables let through to a holder, a missed action, a missed
\* coupon and the dividend of defect 9 without a receipt; and nothing else: the walk
\* leaves none of the signals by itself, it keeps those of the tables changed before
\* it, and no injector adds or takes away another's.
THEOREM SignalsAlwaysAccountedFor ==
  ASSUME \A f \in Funds : \A s \in f.schedules : Telling(f, s)
  PROVE  Spec /\ []Solvent => []SignalsAreAccountedFor
<1>1. Init => Telling(fund, schedule) /\ Rolling
  <2> SUFFICES ASSUME Init PROVE Telling(fund, schedule) /\ Rolling
    OBVIOUS
  <2>1. /\ fund \in Funds /\ schedule \in fund.schedules
        /\ walk.day = 1 /\ input.capstock = {} /\ phase = "fx"
    BY DEF Init, InitFundState
  <2> QED
    BY <2>1 DEF Rolling
<1>2. Typed /\ Signalling /\ Telling(fund, schedule) => SignalsAreAccountedFor
  BY SeededIsSeen
<1>3. Spec /\ []Solvent => []Typed
  BY InitTyped, NextTyped, PTL DEF Spec
<1>4. Spec /\ []Solvent => []Rolling
  BY <1>1, <1>3, NextRolls, PTL DEF Spec
<1>5. Spec /\ []Solvent => []Following
  BY <1>3, InitFollows, NextFollows, PTL DEF Spec
<1>6. Spec => []Telling(fund, schedule)
  BY <1>1, NextTells, PTL DEF Spec
<1>7. Spec /\ []Solvent => []Signalling
  BY <1>3, <1>4, <1>5, <1>6, InitSignals, NextSignals, PTL DEF Spec
<1> QED
  BY <1>2, <1>3, <1>6, <1>7, PTL
=============================================================================
