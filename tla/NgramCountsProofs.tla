------------------------- MODULE NgramCountsProofs --------------------------
(***************************************************************************)
(* The weight of every n-gram that was counted, after any number of pairs, *)
(* is the sum over the alignments of the pairs, each with its share: for   *)
(* any corpus, any alignments, options and topology.                       *)
(*                                                                         *)
(* Weights are fractions in lowest terms, and a counting trie is the union *)
(* of tries that were pushed: what multiplies to a weight along a path     *)
(* before a union still does after it.                                     *)
(***************************************************************************)
EXTENDS CreateAndTrainProofs

-----------------------------------------------------------------------------
(* The weights of the n-grams.                                             *)

\* Quotient and remainder.
LEMMA DivisionExists ==
  ASSUME NEW d \in Nat, d # 0, NEW n \in Nat
  PROVE  \E q \in Nat, r \in Nat : n = d * q + r /\ r < d
<1> DEFINE Good(m) == \E q \in Nat, r \in Nat : m = d * q + r /\ r < d
           B == {m \in Nat : ~ Good(m)}
<1>1. ASSUME B # {} PROVE FALSE
  <2>1. PICK m \in B : \A k \in B : m <= k
    <3>1. B \in SUBSET Nat
      OBVIOUS
    <3> HIDE DEF B
    <3> QED BY <1>1, <3>1, LeastNatural
  <2>2. m \in Nat /\ ~ Good(m)
    OBVIOUS
  <2>3. ~ (m < d)
    <3>1. m < d => m = d * 0 + m
      BY <2>2
    <3> QED BY <2>2, <3>1
  <2>4. m - d \in Nat /\ m - d < m
    BY <2>2, <2>3
  <2>5. Good(m - d)
    BY <2>1, <2>2, <2>4
  <2>6. PICK q \in Nat : \E r \in Nat : m - d = d * q + r /\ r < d
    BY <2>5
  <2>7. PICK r \in Nat : m - d = d * q + r /\ r < d
    BY <2>6
  <2>8. d * (q + 1) = d * q + d /\ d * q \in Nat /\ q + 1 \in Nat
    OBVIOUS
  <2>9. m = d * (q + 1) + r
    BY <2>2, <2>7, <2>8
  <2> QED BY <2>2, <2>7, <2>8, <2>9
<1> QED BY <1>1

LEMMA DivisionUnique ==
  ASSUME NEW d \in Nat, NEW n \in Nat, NEW q \in Nat, NEW r \in Nat, n = d * q + r, r < d
  PROVE  n % d = r /\ n \div d = q
OBVIOUS

LEMMA DivisionIs ==
  ASSUME NEW d \in Nat, d # 0, NEW n \in Nat
  PROVE  n \div d \in Nat /\ n % d \in Nat /\ n % d < d /\ n = d * (n \div d) + (n % d)
<1>1. PICK q \in Nat : \E r \in Nat : n = d * q + r /\ r < d
  BY DivisionExists
<1>2. PICK r \in Nat : n = d * q + r /\ r < d
  BY <1>1
<1>3. n % d = r /\ n \div d = q
  BY <1>2, DivisionUnique
<1> QED BY <1>2, <1>3

\* What divides.
Divides(k, n) == \E m \in Nat : n = k * m

LEMMA DividesSums ==
  ASSUME NEW k \in Nat, k # 0, NEW d \in Nat, NEW q \in Nat, NEW r \in Nat, Divides(k, d)
  PROVE  Divides(k, d * q + r) <=> Divides(k, r)
<1>1. PICK a \in Nat : d = k * a
  BY DEF Divides
<1>2. d * q = k * (a * q) /\ a * q \in Nat
  BY <1>1
<1>3. ASSUME Divides(k, r) PROVE Divides(k, d * q + r)
  <2>1. PICK b \in Nat : r = k * b
    BY <1>3 DEF Divides
  <2>2. k * (a * q + b) = k * (a * q) + k * b /\ a * q + b \in Nat
    BY <1>2
  <2> QED BY <1>2, <2>1, <2>2 DEF Divides
<1>4. ASSUME Divides(k, d * q + r) PROVE Divides(k, r)
  <2>1. PICK b \in Nat : d * q + r = k * b
    BY <1>4 DEF Divides
  <2> DEFINE c == a * q
  <2>2. c \in Nat /\ k * c + r = k * b
    BY <1>2, <2>1
  <2> HIDE DEF c
  <2>3. k * (b - c) = k * b - k * c
    BY <2>2
  <2>4. k * (b - c) = r
    BY <2>2, <2>3
  <2>5. b - c \in Nat
    <3>1. CASE b < c
      <4>1. c - b \in Nat /\ c - b >= 1 /\ k * (c - b) = k * c - k * b
        BY <2>2, <3>1
      <4>2. k * (c - b) >= 1
        BY <4>1
      <4> QED BY <2>2, <4>1, <4>2
    <3> QED BY <2>2, <3>1
  <2> QED BY <2>4, <2>5 DEF Divides
<1> QED BY <1>3, <1>4

LEMMA DividesSmaller ==
  ASSUME NEW k \in Nat, NEW n \in Nat, n # 0, Divides(k, n)
  PROVE  k # 0 /\ k <= n
<1>1. PICK m \in Nat : n = k * m
  BY DEF Divides
<1>2. k # 0 /\ m # 0
  BY <1>1
<1>3. k * m >= k
  BY <1>2
<1> QED BY <1>1, <1>2, <1>3

LEMMA DividesItself == ASSUME NEW n \in Nat PROVE Divides(n, n) /\ Divides(1, n) /\ Divides(n, 0)
<1>1. n = n * 1 /\ n = 1 * n /\ 0 = n * 0
  OBVIOUS
<1> QED BY <1>1 DEF Divides

\* The function gcd chooses one of these.
IsGcd(f) == f = [x \in Nat \X Nat |-> IF x[2] = 0 THEN x[1] ELSE f[<<x[2], x[1] % x[2]>>]]

\* The greatest number that divides both.
Dividing(n, d) == {k \in Nat : k # 0 /\ Divides(k, n) /\ Divides(k, d)}
Greatest(n, d) == CHOOSE k \in Dividing(n, d) : \A j \in Dividing(n, d) : j <= k

LEMMA GreatestIs ==
  ASSUME NEW n \in Nat, NEW d \in Nat, d # 0
  PROVE  Greatest(n, d) \in Dividing(n, d) /\ \A j \in Dividing(n, d) : j <= Greatest(n, d)
<1> DEFINE C == Dividing(n, d)
<1>1. 1 \in C
  BY DividesItself DEF Dividing
<1>2. C \in SUBSET (1 .. d)
  <2>1. ASSUME NEW k \in C PROVE k \in 1 .. d
    <3>1. k \in Nat /\ k # 0 /\ Divides(k, d)
      BY DEF Dividing
    <3>2. k <= d
      BY <3>1, DividesSmaller
    <3> QED BY <3>1, <3>2
  <2> QED BY <2>1
<1> HIDE DEF C
<1>3. Max(C) \in C /\ \A k \in C : k <= Max(C)
  BY <1>1, <1>2, MaxIn
<1>4. \E k \in C : \A j \in C : j <= k
  BY <1>3
<1> QED BY <1>4 DEF Greatest, C

LEMMA GcdExists == \E f : IsGcd(f)
<1> DEFINE g == [x \in Nat \X Nat |-> IF x[2] = 0 THEN x[1] ELSE Greatest(x[1], x[2])]
<1>1. ASSUME NEW n \in Nat, NEW d \in Nat, d # 0
      PROVE  g[<<n, d>>] = g[<<d, n % d>>]
  <2> DEFINE r == n % d
             q == n \div d
  <2>1. q \in Nat /\ r \in Nat /\ r < d /\ n = d * q + r
    BY <1>1, DivisionIs
  <2> HIDE DEF r, q
  <2>2. Dividing(n, d) = Dividing(d, r)
    <3>1. ASSUME NEW k \in Nat, k # 0, Divides(k, d) PROVE Divides(k, n) <=> Divides(k, r)
      BY <2>1, <3>1, DividesSums
    <3> QED BY <3>1 DEF Dividing
  <2>3. g[<<n, d>>] = Greatest(n, d) /\ g[<<d, r>>] = IF r = 0 THEN d ELSE Greatest(d, r)
    BY <1>1, <2>1
  <2> HIDE DEF g
  <2>4. CASE r = 0
    <3>1. d \in Dividing(d, r)
      BY <1>1, <2>4, DividesItself DEF Dividing
    <3>2. Greatest(n, d) \in Dividing(d, r) /\ \A j \in Dividing(d, r) : j <= Greatest(n, d)
      BY <1>1, <2>2, GreatestIs
    <3>3. d <= Greatest(n, d)
      BY <3>1, <3>2
    <3>4. Greatest(n, d) \in Nat /\ Greatest(n, d) <= d
      <4>1. Greatest(n, d) \in Nat /\ Divides(Greatest(n, d), d)
        BY <3>2 DEF Dividing
      <4> QED BY <1>1, <4>1, DividesSmaller
    <3>5. Greatest(n, d) = d
      BY <3>3, <3>4
    <3> QED BY <2>3, <2>4, <3>5 DEF r
  <2>5. CASE r # 0
    <3>1. Greatest(n, d) = Greatest(d, r)
      BY <2>2, Zenon DEF Greatest
    <3> QED BY <2>3, <2>5, <3>1 DEF r
  <2> QED BY <2>4, <2>5
<1>2. ASSUME NEW x \in Nat \X Nat
      PROVE  g[x] = IF x[2] = 0 THEN x[1] ELSE g[<<x[2], x[1] % x[2]>>]
  <2>1. x = <<x[1], x[2]>> /\ x[1] \in Nat /\ x[2] \in Nat
    OBVIOUS
  <2>2. CASE x[2] = 0
    BY <2>2
  <2>3. CASE x[2] # 0
    <3> HIDE DEF g
    <3>1. g[<<x[1], x[2]>>] = g[<<x[2], x[1] % x[2]>>]
      BY <1>1, <2>1, <2>3
    <3> QED BY <2>1, <2>3, <3>1
  <2> QED BY <2>2, <2>3
<1>3. g = [x \in Nat \X Nat |-> g[x]]
  OBVIOUS
<1> HIDE DEF g
<1>4. IsGcd(g)
  BY <1>2, <1>3 DEF IsGcd
<1> QED BY <1>4

LEMMA GcdIs ==
  ASSUME NEW n \in Nat, NEW d \in Nat
  PROVE  gcd[<<n, d>>] = IF d = 0 THEN n ELSE gcd[<<d, n % d>>]
<1>1. gcd = CHOOSE f : IsGcd(f)
  BY DEF gcd, IsGcd
<1>2. IsGcd(gcd)
  BY <1>1, GcdExists
<1> HIDE DEF gcd
<1> QED BY <1>2 DEF IsGcd

\* It divides both.
LEMMA GcdDivides ==
  ASSUME NEW n \in Nat, NEW d \in Nat, n # 0 \/ d # 0
  PROVE  /\ gcd[<<n, d>>] \in Nat /\ gcd[<<n, d>>] # 0
         /\ Divides(gcd[<<n, d>>], n) /\ Divides(gcd[<<n, d>>], d)
<1> DEFINE Ok(a, b) == /\ gcd[<<a, b>>] \in Nat /\ gcd[<<a, b>>] # 0
                       /\ Divides(gcd[<<a, b>>], a) /\ Divides(gcd[<<a, b>>], b)
           Good(b) == \A a \in Nat : a # 0 \/ b # 0 => Ok(a, b)
           B == {b \in Nat : ~ Good(b)}
<1>1. ASSUME B # {} PROVE FALSE
  <2>1. PICK b \in B : \A k \in B : b <= k
    <3>1. B \in SUBSET Nat
      OBVIOUS
    <3> HIDE DEF B
    <3> QED BY <1>1, <3>1, LeastNatural
  <2>2. b \in Nat /\ ~ Good(b)
    OBVIOUS
  <2>3. \A c \in Nat : c < b => Good(c)
    <3>1. ASSUME NEW c \in Nat, c < b, ~ Good(c) PROVE FALSE
      <4>1. c \in B
        BY <3>1
      <4>2. b <= c
        BY <2>1, <4>1
      <4> QED BY <2>2, <3>1, <4>2
    <3> QED BY <3>1
  <2>4. ASSUME NEW a \in Nat, a # 0 \/ b # 0 PROVE Ok(a, b)
    <3>1. CASE b = 0
      <4>1. gcd[<<a, b>>] = a
        BY <3>1, GcdIs
      <4> QED BY <2>4, <3>1, <4>1, DividesItself
    <3>2. CASE b # 0
      <4> DEFINE r == a % b
                 q == a \div b
                 g == gcd[<<b, r>>]
      <4>1. q \in Nat /\ r \in Nat /\ r < b /\ a = b * q + r
        BY <2>2, <3>2, DivisionIs
      <4>2. gcd[<<a, b>>] = g
        BY <2>2, <3>2, GcdIs
      <4> HIDE DEF r, q
      <4>3. Ok(b, r)
        BY <2>2, <2>3, <3>2, <4>1
      <4>4. g \in Nat /\ g # 0 /\ Divides(g, b) /\ Divides(g, r)
        BY <4>3
      <4> HIDE DEF g
      <4>5. Divides(g, a)
        BY <2>2, <4>1, <4>4, DividesSums
      <4> QED BY <4>2, <4>4, <4>5
    <3> QED BY <3>1, <3>2
  <2> QED BY <2>2, <2>4
<1>2. d \notin B
  BY <1>1
<1>3. Good(d)
  BY <1>2
<1> QED BY <1>3

\* It grows with both.
LEMMA GcdScales ==
  ASSUME NEW n \in Nat, NEW d \in Nat, NEW k \in Nat, k # 0
  PROVE  gcd[<<k * n, k * d>>] = k * gcd[<<n, d>>]
<1> DEFINE Good(b) == \A a \in Nat : gcd[<<k * a, k * b>>] = k * gcd[<<a, b>>]
           B == {b \in Nat : ~ Good(b)}
<1>1. ASSUME B # {} PROVE FALSE
  <2>1. PICK b \in B : \A c \in B : b <= c
    <3>1. B \in SUBSET Nat
      OBVIOUS
    <3> HIDE DEF B
    <3> QED BY <1>1, <3>1, LeastNatural
  <2>2. b \in Nat /\ ~ Good(b)
    OBVIOUS
  <2>3. \A c \in Nat : c < b => Good(c)
    <3>1. ASSUME NEW c \in Nat, c < b, ~ Good(c) PROVE FALSE
      <4>1. c \in B
        BY <3>1
      <4>2. b <= c
        BY <2>1, <4>1
      <4> QED BY <2>2, <3>1, <4>2
    <3> QED BY <3>1
  <2>4. ASSUME NEW a \in Nat PROVE gcd[<<k * a, k * b>>] = k * gcd[<<a, b>>]
    <3>1. k * a \in Nat /\ k * b \in Nat
      BY <2>2
    <3>2. CASE b = 0
      <4>1. k * b = 0
        BY <3>2
      <4>2. gcd[<<a, b>>] = a
        BY <3>2, GcdIs
      <4>3. gcd[<<k * a, k * b>>] = k * a
        BY <3>1, <4>1, GcdIs
      <4> QED BY <4>2, <4>3
    <3>3. CASE b # 0
      <4> DEFINE r == a % b
                 q == a \div b
      <4>1. q \in Nat /\ r \in Nat /\ r < b /\ a = b * q + r
        BY <2>2, <3>3, DivisionIs
      <4>2. gcd[<<a, b>>] = gcd[<<b, r>>]
        BY <2>2, <3>3, GcdIs
      <4> HIDE DEF r, q
      <4>3. k * b # 0
        BY <2>2, <3>3
      <4>4. (k * a) % (k * b) = k * r
        <5>1. k * (b * q + r) = (k * b) * q + k * r
          BY <2>2, <4>1
        <5>2. k * r < k * b
          <6>1. k * (b - r) = k * b - k * r /\ b - r >= 1
            BY <2>2, <4>1
          <6>2. k * (b - r) >= 1
            BY <2>2, <4>1, <6>1
          <6>3. k * b \in Nat /\ k * r \in Nat
            BY <2>2, <4>1
          <6> QED BY <6>1, <6>2, <6>3
        <5>3. k * r \in Nat
          BY <4>1
        <5> QED BY <3>1, <4>1, <5>1, <5>2, <5>3, DivisionUnique
      <4>5. gcd[<<k * a, k * b>>] = gcd[<<k * b, k * r>>]
        BY <3>1, <4>3, <4>4, GcdIs
      <4>6. gcd[<<k * b, k * r>>] = k * gcd[<<b, r>>]
        BY <2>2, <2>3, <4>1
      <4> QED BY <4>2, <4>5, <4>6
    <3> QED BY <3>2, <3>3
  <2> QED BY <2>2, <2>4
<1>2. d \notin B
  BY <1>1
<1>3. Good(d)
  BY <1>2
<1> QED BY <1>3

\* Fractions, those with the same value, and those in lowest terms.
Fraction == Nat \X (Nat \ {0})
Same(x, y) == x[1] * y[2] = y[1] * x[2]
Ratio == {Reduced(n, d) : n \in Nat, d \in Nat \ {0}}

\* To reduce a fraction changes its terms only.
LEMMA ReducedIs ==
  ASSUME NEW n \in Nat, NEW d \in Nat, d # 0
  PROVE  Reduced(n, d) \in Fraction /\ Same(Reduced(n, d), <<n, d>>)
<1> DEFINE g == gcd[<<n, d>>]
<1>1. g \in Nat /\ g # 0 /\ Divides(g, n) /\ Divides(g, d)
  BY GcdDivides
<1>2. Reduced(n, d) = <<n \div g, d \div g>>
  BY DEF Reduced
<1> HIDE DEF g
<1>3. PICK a \in Nat : n = g * a
  BY <1>1 DEF Divides
<1>4. PICK b \in Nat : d = g * b
  BY <1>1 DEF Divides
<1>5. n \div g = a /\ d \div g = b
  <2>1. n = g * a + 0 /\ d = g * b + 0 /\ 0 < g
    BY <1>1, <1>3, <1>4
  <2> QED BY <1>1, <1>3, <1>4, <2>1, DivisionUnique
<1>6. b # 0
  BY <1>1, <1>4
<1>7. a * d = n * b
  BY <1>1, <1>3, <1>4
<1> QED BY <1>2, <1>5, <1>6, <1>7 DEF Fraction, Same

\* With a common factor more it reduces to the same.
LEMMA ReducedScales ==
  ASSUME NEW n \in Nat, NEW d \in Nat, d # 0, NEW k \in Nat, k # 0
  PROVE  Reduced(k * n, k * d) = Reduced(n, d)
<1> DEFINE g == gcd[<<n, d>>]
           h == gcd[<<k * n, k * d>>]
<1>1. g \in Nat /\ g # 0 /\ Divides(g, n) /\ Divides(g, d)
  BY GcdDivides
<1>2. h = k * g
  BY GcdScales
<1>3. Reduced(n, d) = <<n \div g, d \div g>> /\ Reduced(k * n, k * d) = <<(k * n) \div h, (k * d) \div h>>
  BY DEF Reduced
<1> HIDE DEF g, h
<1>4. PICK a \in Nat : n = g * a
  BY <1>1 DEF Divides
<1>5. PICK b \in Nat : d = g * b
  BY <1>1 DEF Divides
<1>6. h \in Nat /\ h > 0
  BY <1>1, <1>2
<1>7. n = g * a + 0 /\ d = g * b + 0 /\ 0 < g
  BY <1>1, <1>4, <1>5
<1>8. k * n = h * a + 0 /\ k * d = h * b + 0
  BY <1>1, <1>2, <1>4, <1>5
<1>9. n \div g = a /\ d \div g = b
  BY <1>1, <1>7, DivisionUnique
<1>10. k * n \in Nat /\ k * d \in Nat /\ 0 \in Nat
  OBVIOUS
<1>11. (k * n) \div h = a /\ (k * d) \div h = b
  BY <1>6, <1>8, <1>10, DivisionUnique
<1> QED BY <1>3, <1>9, <1>11

\* Fractions of the same value reduce to the same.
LEMMA ReducedSame ==
  ASSUME NEW n \in Nat, NEW d \in Nat, d # 0, NEW m \in Nat, NEW e \in Nat, e # 0, n * e = m * d
  PROVE  Reduced(n, d) = Reduced(m, e)
<1>1. Reduced(e * n, e * d) = Reduced(n, d)
  BY ReducedScales
<1>2. Reduced(d * m, d * e) = Reduced(m, e)
  BY ReducedScales
<1>3. e * n = d * m /\ e * d = d * e
  OBVIOUS
<1> QED BY <1>1, <1>2, <1>3

\* A ratio is a fraction that is reduced.
LEMMA RatioIs ==
  ASSUME NEW x \in Ratio
  PROVE  /\ x[1] \in Nat /\ x[2] \in Nat /\ x[2] # 0 /\ x = <<x[1], x[2]>>
         /\ Reduced(x[1], x[2]) = x
<1>1. PICK n \in Nat, d \in Nat \ {0} : x = Reduced(n, d)
  BY DEF Ratio
<1>2. x \in Fraction /\ x[1] * d = n * x[2]
  BY <1>1, ReducedIs DEF Same
<1>3. x[1] \in Nat /\ x[2] \in Nat /\ x[2] # 0 /\ x = <<x[1], x[2]>>
  BY <1>2 DEF Fraction
<1> HIDE DEF Ratio
<1>4. Reduced(x[1], x[2]) = Reduced(n, d)
  BY <1>2, <1>3, ReducedSame
<1> QED BY <1>1, <1>3, <1>4

\* Ratios with the same value are equal.
LEMMA RatioSame ==
  ASSUME NEW x \in Ratio, NEW n \in Nat, NEW d \in Nat, d # 0, x[1] * d = n * x[2]
  PROVE  x = Reduced(n, d)
<1>1. x[1] \in Nat /\ x[2] \in Nat /\ x[2] # 0 /\ Reduced(x[1], x[2]) = x
  BY RatioIs
<1> QED BY <1>1, ReducedSame

\* A ratio and the value that it has.
Has(x, n, d) == x \in Ratio /\ n \in Nat /\ d \in Nat /\ d # 0 /\ x[1] * d = n * x[2]

LEMMA HasReduced ==
  ASSUME NEW n \in Nat, NEW d \in Nat, d # 0
  PROVE  Has(Reduced(n, d), n, d)
<1>1. Reduced(n, d) \in Ratio
  BY DEF Ratio
<1> QED BY <1>1, ReducedIs DEF Has, Same

LEMMA HasOwn == ASSUME NEW x \in Ratio PROVE Has(x, x[1], x[2])
BY RatioIs DEF Has

LEMMA HasEqual ==
  ASSUME NEW x, NEW y, NEW n, NEW d, NEW m, NEW e, Has(x, n, d), Has(y, m, e), n * e = m * d
  PROVE  x = y
<1>1. x \in Ratio /\ y \in Ratio /\ n \in Nat /\ d \in Nat /\ d # 0 /\ m \in Nat /\ e \in Nat /\ e # 0
      /\ x[1] * d = n * x[2] /\ y[1] * e = m * y[2]
  BY DEF Has
<1>2. x = Reduced(n, d) /\ y = Reduced(m, e)
  BY <1>1, RatioSame
<1>3. Reduced(n, d) = Reduced(m, e)
  BY <1>1, ReducedSame
<1> QED BY <1>2, <1>3

\* The value of a product.
LEMMA HasTimes ==
  ASSUME NEW x, NEW y, NEW n, NEW d, NEW m, NEW e, Has(x, n, d), Has(y, m, e)
  PROVE  Has(Times(x, y), n * m, d * e)
<1> DEFINE a == x[1]
           b == x[2]
           p == y[1]
           q == y[2]
<1>1. /\ x \in Ratio /\ y \in Ratio /\ n \in Nat /\ d \in Nat /\ d # 0 /\ m \in Nat /\ e \in Nat /\ e # 0
      /\ a * d = n * b /\ p * e = m * q
  BY DEF Has
<1>2. a \in Nat /\ b \in Nat /\ b # 0 /\ p \in Nat /\ q \in Nat /\ q # 0
  BY <1>1, RatioIs
<1>3. Times(x, y) = Reduced(a * p, b * q)
  BY DEF Times
<1> HIDE DEF a, b, p, q
<1>4. a * p \in Nat /\ b * q \in Nat /\ b * q # 0 /\ n * m \in Nat /\ d * e \in Nat /\ d * e # 0
  BY <1>1, <1>2
<1>5. (a * d) * (p * e) = (n * b) * (m * q)
  BY <1>1
<1>6. (a * p) * (d * e) = (a * d) * (p * e) /\ (n * m) * (b * q) = (n * b) * (m * q)
  BY <1>1, <1>2
<1>7. (a * p) * (d * e) = (n * m) * (b * q)
  BY <1>5, <1>6
<1>8. Reduced(a * p, b * q) = Reduced(n * m, d * e)
  <2> DEFINE A == a * p
             B == b * q
             C == n * m
             D == d * e
  <2>1. A \in Nat /\ B \in Nat /\ B # 0 /\ C \in Nat /\ D \in Nat /\ D # 0 /\ A * D = C * B
    BY <1>4, <1>7
  <2> HIDE DEF A, B, C, D
  <2>2. Reduced(A, B) = Reduced(C, D)
    BY <2>1, ReducedSame
  <2> QED BY <2>2 DEF A, B, C, D
<1> QED BY <1>3, <1>4, <1>8, HasReduced

\* The value of a sum.
LEMMA HasPlus ==
  ASSUME NEW x, NEW y, NEW n, NEW d, NEW m, NEW e, Has(x, n, d), Has(y, m, e)
  PROVE  Has(Plus(x, y), n * e + m * d, d * e)
<1> DEFINE a == x[1]
           b == x[2]
           p == y[1]
           q == y[2]
<1>1. /\ x \in Ratio /\ y \in Ratio /\ n \in Nat /\ d \in Nat /\ d # 0 /\ m \in Nat /\ e \in Nat /\ e # 0
      /\ a * d = n * b /\ p * e = m * q
  BY DEF Has
<1>2. a \in Nat /\ b \in Nat /\ b # 0 /\ p \in Nat /\ q \in Nat /\ q # 0
  BY <1>1, RatioIs
<1>3. Plus(x, y) = Reduced(a * q + p * b, b * q)
  BY DEF Plus
<1> HIDE DEF a, b, p, q
<1>4. /\ a * q + p * b \in Nat /\ b * q \in Nat /\ b * q # 0
      /\ n * e + m * d \in Nat /\ d * e \in Nat /\ d * e # 0
  BY <1>1, <1>2
<1>5. (a * d) * (q * e) = (n * b) * (q * e) /\ (p * e) * (b * d) = (m * q) * (b * d)
  BY <1>1
<1>6. (a * q + p * b) * (d * e) = (a * d) * (q * e) + (p * e) * (b * d)
  BY <1>1, <1>2
<1>7. (n * e + m * d) * (b * q) = (n * b) * (q * e) + (m * q) * (b * d)
  BY <1>1, <1>2
<1>8. (a * q + p * b) * (d * e) = (n * e + m * d) * (b * q)
  BY <1>5, <1>6, <1>7
<1>9. Reduced(a * q + p * b, b * q) = Reduced(n * e + m * d, d * e)
  <2> DEFINE A == a * q + p * b
             B == b * q
             C == n * e + m * d
             D == d * e
  <2>1. A \in Nat /\ B \in Nat /\ B # 0 /\ C \in Nat /\ D \in Nat /\ D # 0 /\ A * D = C * B
    BY <1>4, <1>8
  <2> HIDE DEF A, B, C, D
  <2>2. Reduced(A, B) = Reduced(C, D)
    BY <2>1, ReducedSame
  <2> QED BY <2>2 DEF A, B, C, D
<1> QED BY <1>3, <1>4, <1>9, HasReduced

Positive(x) == x \in Ratio /\ x # Zero

LEMMA ZeroOne ==
  /\ Has(Zero, 0, 1) /\ Has(One, 1, 1) /\ Zero # One
  /\ \A x \in Ratio : x # Zero <=> x[1] # 0
<1>1. gcd[<<0, 1>>] = 1 /\ gcd[<<1, 1>>] = 1
  <2>1. 0 % 1 = 0 /\ 1 % 1 = 0
    BY DivisionIs
  <2>2. gcd[<<1, 0>>] = 1
    BY GcdIs
  <2>3. ASSUME NEW n \in Nat PROVE gcd[<<n, 1>>] = gcd[<<1, n % 1>>]
    <3>1. 1 \in Nat /\ 1 # 0
      OBVIOUS
    <3> QED BY <3>1, GcdIs
  <2>4. gcd[<<0, 1>>] = gcd[<<1, 0 % 1>>] /\ gcd[<<1, 1>>] = gcd[<<1, 1 % 1>>]
    <3>1. 0 \in Nat /\ 1 \in Nat
      OBVIOUS
    <3> QED BY <2>3, <3>1
  <2> QED BY <2>1, <2>2, <2>4
<1>2. Reduced(0, 1) = Zero /\ Reduced(1, 1) = One
  <2>1. 0 \div 1 = 0 /\ 1 \div 1 = 1
    BY DivisionIs
  <2> QED BY <1>1, <2>1 DEF Reduced, Zero, One
<1>3. Has(Reduced(0, 1), 0, 1) /\ Has(Reduced(1, 1), 1, 1)
  BY HasReduced
<1>4. Has(Zero, 0, 1) /\ Has(One, 1, 1)
  BY <1>2, <1>3
<1>5. ASSUME NEW x \in Ratio, x[1] = 0 PROVE x = Zero
  <2>1. Has(x, x[1], x[2])
    BY HasOwn
  <2>2. x[1] * 1 = 0 * x[2]
    BY <1>5, RatioIs
  <2> QED BY <1>4, <2>1, <2>2, HasEqual
<1> QED BY <1>4, <1>5 DEF Zero, One

\* Sums and products of ratios are ratios.
LEMMA RatioType ==
  ASSUME NEW x \in Ratio, NEW y \in Ratio
  PROVE  /\ Times(x, y) \in Ratio /\ Plus(x, y) \in Ratio
         /\ x # Zero /\ y # Zero => Times(x, y) # Zero
         /\ y # Zero => Plus(x, y) # Zero
<1>1. Has(x, x[1], x[2]) /\ Has(y, y[1], y[2])
  BY HasOwn
<1>2. x[1] \in Nat /\ x[2] \in Nat /\ x[2] # 0 /\ y[1] \in Nat /\ y[2] \in Nat /\ y[2] # 0
  BY RatioIs
<1> DEFINE t == Times(x, y)
           s == Plus(x, y)
<1>3. Has(t, x[1] * y[1], x[2] * y[2])
  BY <1>1, HasTimes
<1>4. Has(s, x[1] * y[2] + y[1] * x[2], x[2] * y[2])
  BY <1>1, HasPlus
<1> HIDE DEF t, s
<1>5. t \in Ratio /\ s \in Ratio
  BY <1>3, <1>4 DEF Has
<1>6. t[1] \in Nat /\ t[2] \in Nat /\ s[1] \in Nat /\ s[2] \in Nat /\ t[2] # 0 /\ s[2] # 0
  BY <1>5, RatioIs
<1>7. ASSUME x # Zero, y # Zero PROVE t # Zero
  <2>1. x[1] # 0 /\ y[1] # 0
    BY <1>7, ZeroOne
  <2>2. t[1] * (x[2] * y[2]) = (x[1] * y[1]) * t[2]
    BY <1>3 DEF Has
  <2>3. x[1] * y[1] # 0
    BY <1>2, <2>1
  <2>4. (x[1] * y[1]) * t[2] # 0
    BY <1>2, <1>6, <2>3
  <2>5. t[1] # 0
    BY <1>2, <2>2, <2>4
  <2> QED BY <1>5, <2>5, ZeroOne
<1>8. ASSUME y # Zero PROVE s # Zero
  <2>1. y[1] # 0
    BY <1>8, ZeroOne
  <2>2. s[1] * (x[2] * y[2]) = (x[1] * y[2] + y[1] * x[2]) * s[2]
    BY <1>4 DEF Has
  <2>3. y[1] * x[2] > 0 /\ x[1] * y[2] >= 0
    BY <1>2, <2>1
  <2>4. x[1] * y[2] + y[1] * x[2] # 0 /\ x[1] * y[2] + y[1] * x[2] \in Nat
    BY <1>2, <2>3
  <2>5. (x[1] * y[2] + y[1] * x[2]) * s[2] # 0
    BY <1>6, <2>4
  <2>6. s[1] # 0
    BY <1>2, <2>2, <2>5
  <2> QED BY <1>5, <2>6, ZeroOne
<1> QED BY <1>5, <1>7, <1>8 DEF t, s

\* The laws of products and sums.
LEMMA TimesCommutes ==
  ASSUME NEW x \in Ratio, NEW y \in Ratio
  PROVE  Times(x, y) = Times(y, x) /\ Plus(x, y) = Plus(y, x)
<1>1. Has(x, x[1], x[2]) /\ Has(y, y[1], y[2])
  BY HasOwn
<1>2. x[1] \in Nat /\ x[2] \in Nat /\ y[1] \in Nat /\ y[2] \in Nat
  BY RatioIs
<1>3. x[1] * y[1] = y[1] * x[1] /\ x[2] * y[2] = y[2] * x[2]
      /\ x[1] * y[2] + y[1] * x[2] = y[1] * x[2] + x[1] * y[2]
  BY <1>2
<1> QED BY <1>3 DEF Times, Plus

LEMMA TimesAssociates ==
  ASSUME NEW x \in Ratio, NEW y \in Ratio, NEW z \in Ratio
  PROVE  Times(Times(x, y), z) = Times(x, Times(y, z))
<1> DEFINE a == x[1]
           b == x[2]
           c == y[1]
           d == y[2]
           e == z[1]
           f == z[2]
<1>1. Has(x, a, b) /\ Has(y, c, d) /\ Has(z, e, f)
  BY HasOwn
<1>2. a \in Nat /\ b \in Nat /\ c \in Nat /\ d \in Nat /\ e \in Nat /\ f \in Nat
  BY RatioIs
<1> HIDE DEF a, b, c, d, e, f
<1>3. Has(Times(Times(x, y), z), (a * c) * e, (b * d) * f)
  BY <1>1, HasTimes
<1>4. Has(Times(x, Times(y, z)), a * (c * e), b * (d * f))
  BY <1>1, HasTimes
<1>5. ((a * c) * e) * (b * (d * f)) = (a * (c * e)) * ((b * d) * f)
  BY <1>2
<1> QED BY <1>3, <1>4, <1>5, HasEqual

LEMMA PlusAssociates ==
  ASSUME NEW x \in Ratio, NEW y \in Ratio, NEW z \in Ratio
  PROVE  Plus(Plus(x, y), z) = Plus(x, Plus(y, z))
<1> DEFINE a == x[1]
           b == x[2]
           c == y[1]
           d == y[2]
           e == z[1]
           f == z[2]
<1>1. Has(x, a, b) /\ Has(y, c, d) /\ Has(z, e, f)
  BY HasOwn
<1>2. a \in Nat /\ b \in Nat /\ c \in Nat /\ d \in Nat /\ e \in Nat /\ f \in Nat
  BY RatioIs
<1> HIDE DEF a, b, c, d, e, f
<1>3. Has(Plus(Plus(x, y), z), (a * d + c * b) * f + e * (b * d), (b * d) * f)
  BY <1>1, HasPlus
<1>4. Has(Plus(x, Plus(y, z)), a * (d * f) + (c * f + e * d) * b, b * (d * f))
  BY <1>1, HasPlus
<1>5. (a * d + c * b) * f + e * (b * d) = a * (d * f) + (c * f + e * d) * b
  BY <1>2
<1>6. (b * d) * f = b * (d * f)
  BY <1>2
<1> QED BY <1>3, <1>4, <1>5, <1>6, HasEqual

LEMMA TimesDistributes ==
  ASSUME NEW x \in Ratio, NEW y \in Ratio, NEW z \in Ratio
  PROVE  Times(x, Plus(y, z)) = Plus(Times(x, y), Times(x, z))
<1> DEFINE a == x[1]
           b == x[2]
           c == y[1]
           d == y[2]
           e == z[1]
           f == z[2]
<1>1. Has(x, a, b) /\ Has(y, c, d) /\ Has(z, e, f)
  BY HasOwn
<1>2. a \in Nat /\ b \in Nat /\ c \in Nat /\ d \in Nat /\ e \in Nat /\ f \in Nat
  BY RatioIs
<1> HIDE DEF a, b, c, d, e, f
<1>3. Has(Times(x, Plus(y, z)), a * (c * f + e * d), b * (d * f))
  BY <1>1, HasTimes, HasPlus
<1>4. Has(Plus(Times(x, y), Times(x, z)), (a * c) * (b * f) + (a * e) * (b * d), (b * d) * (b * f))
  BY <1>1, HasTimes, HasPlus
<1>5. (a * (c * f + e * d)) * ((b * d) * (b * f)) = ((a * c) * (b * f) + (a * e) * (b * d)) * (b * (d * f))
  BY <1>2
<1> QED BY <1>3, <1>4, <1>5, HasEqual

LEMMA ZeroOneLaws ==
  ASSUME NEW x \in Ratio
  PROVE  /\ Times(x, One) = x /\ Times(One, x) = x /\ Times(x, Zero) = Zero /\ Times(Zero, x) = Zero
         /\ Plus(x, Zero) = x /\ Plus(Zero, x) = x
<1> DEFINE a == x[1]
           b == x[2]
<1>1. Has(x, a, b) /\ Has(One, 1, 1) /\ Has(Zero, 0, 1)
  BY HasOwn, ZeroOne
<1>2. a \in Nat /\ b \in Nat
  BY RatioIs
<1> HIDE DEF a, b
<1>3. Has(Times(x, One), a * 1, b * 1) /\ Has(Times(x, Zero), a * 0, b * 1) /\ Has(Plus(x, Zero), a * 1 + 0 * b, b * 1)
  BY <1>1, HasTimes, HasPlus
<1>4. (a * 1) * b = a * (b * 1) /\ (a * 0) * 1 = 0 * (b * 1) /\ (a * 1 + 0 * b) * b = a * (b * 1)
  BY <1>2
<1>5. Times(x, One) = x /\ Times(x, Zero) = Zero /\ Plus(x, Zero) = x
  BY <1>1, <1>3, <1>4, HasEqual
<1>6. One \in Ratio /\ Zero \in Ratio
  BY <1>1 DEF Has
<1> QED BY <1>5, <1>6, TimesCommutes

\* Division undoes a product.
LEMMA DivideIs ==
  ASSUME NEW x \in Ratio, NEW y \in Ratio, y # Zero
  PROVE  /\ Divide(x, y) \in Ratio /\ Times(y, Divide(x, y)) = x
         /\ x # Zero => Divide(x, y) # Zero
<1> DEFINE a == x[1]
           b == x[2]
           c == y[1]
           d == y[2]
           q == Divide(x, y)
<1>1. Has(x, a, b) /\ Has(y, c, d)
  BY HasOwn
<1>2. a \in Nat /\ b \in Nat /\ b # 0 /\ c \in Nat /\ d \in Nat /\ d # 0
  BY RatioIs
<1>3. c # 0
  BY ZeroOne
<1>4. q = Reduced(a * d, b * c)
  BY DEF Divide
<1> HIDE DEF a, b, c, d, q
<1>5. Has(q, a * d, b * c)
  <2>1. a * d \in Nat /\ b * c \in Nat /\ b * c # 0
    BY <1>2, <1>3
  <2> QED BY <1>4, <2>1, HasReduced
<1>6. Has(Times(y, q), c * (a * d), d * (b * c))
  BY <1>1, <1>5, HasTimes
<1>7. (c * (a * d)) * b = a * (d * (b * c))
  BY <1>2
<1>8. Times(y, q) = x
  BY <1>1, <1>6, <1>7, HasEqual
<1>9. q \in Ratio
  BY <1>5 DEF Has
<1>10. q = Zero => x = Zero
  BY <1>8, ZeroOneLaws
<1> QED BY <1>8, <1>9, <1>10 DEF q

-----------------------------------------------------------------------------

\* The weight of an n-gram in a trie.

\* The products of weights along a path.
Multiplies(w, n, h) == h = [i \in 0 .. n |-> IF i = 0 THEN One ELSE Times(h[i - 1], w[i])]

LEMMA RunningExists ==
  ASSUME NEW n \in Nat, NEW w \in [1 .. n -> Ratio]
  PROVE  \E h \in [0 .. n -> Ratio] : Multiplies(w, n, h)
<1> DEFINE Has2(k) == \E h \in [0 .. k -> Ratio] : Multiplies(w, k, h)
           G == {k \in 0 .. n : Has2(k)}
<1>1. One \in Ratio
  BY ZeroOne DEF Has
<1> HIDE DEF Ratio
<1>2. 0 \in G
  <2> DEFINE h == [i \in 0 .. 0 |-> One]
  <2>1. h \in [0 .. 0 -> Ratio] /\ \A i \in 0 .. 0 : i = 0
    BY <1>1
  <2>2. h = [i \in 0 .. 0 |-> IF i = 0 THEN One ELSE Times(h[i - 1], w[i])]
    BY <2>1
  <2>3. Multiplies(w, 0, h)
    BY <2>2 DEF Multiplies
  <2> HIDE DEF h
  <2>4. Has2(0)
    BY <2>1, <2>3
  <2> QED BY <2>4
<1>3. ASSUME NEW k \in 0 .. n - 1, k \in G PROVE k + 1 \in G
  <2>1. PICK g \in [0 .. k -> Ratio] : Multiplies(w, k, g)
    BY <1>3
  <2> DEFINE m == k + 1
  <2>2. /\ m \in 1 .. n /\ m \in 0 .. n /\ k \in 0 .. k /\ k = m - 1 /\ m # 0
        /\ \A i \in 0 .. m : i = m \/ i \in 0 .. k
        /\ \A i \in 0 .. k : i # m /\ i \in 0 .. m /\ (i # 0 => i - 1 \in 0 .. k)
    OBVIOUS
  <2> DEFINE h == [i \in 0 .. m |-> IF i = m THEN Times(g[k], w[m]) ELSE g[i]]
  <2>3. Times(g[k], w[m]) \in Ratio
    BY <2>1, <2>2, RatioType
  <2> HIDE DEF m
  <2>4. h \in [0 .. m -> Ratio]
    BY <2>2, <2>3
  <2>5. \A i \in 0 .. k : g[i] = IF i = 0 THEN One ELSE Times(g[i - 1], w[i])
    BY <2>1 DEF Multiplies
  <2>6. ASSUME NEW i \in 0 .. m PROVE h[i] = IF i = 0 THEN One ELSE Times(h[i - 1], w[i])
    <3>1. CASE i = m
      <4>1. h[k] = g[k] /\ h[m] = Times(g[k], w[m])
        BY <2>2
      <4> QED BY <2>2, <3>1, <4>1
    <3>2. CASE i \in 0 .. k
      <4>1. h[i] = g[i] /\ (i # 0 => h[i - 1] = g[i - 1])
        BY <2>2, <3>2
      <4> QED BY <2>5, <3>2, <4>1
    <3> QED BY <2>2, <3>1, <3>2
  <2>7. h = [i \in 0 .. m |-> h[i]]
    OBVIOUS
  <2> HIDE DEF h
  <2>8. Multiplies(w, m, h)
    BY <2>6, <2>7 DEF Multiplies
  <2>9. Has2(m)
    BY <2>4, <2>8
  <2> QED BY <2>2, <2>9 DEF m
<1> HIDE DEF G
<1>4. n \in G
  <2>1. \A k \in 0 .. n : k \in G
    BY <1>2, <1>3, UpTo
  <2> QED BY <2>1
<1> QED BY <1>4 DEF G

LEMMA RunningSame ==
  ASSUME NEW n \in Nat, NEW m \in Nat, m <= n, NEW w, NEW v, NEW g, NEW h,
         Multiplies(w, n, g), Multiplies(v, m, h), \A i \in 1 .. m : w[i] = v[i]
  PROVE  \A i \in 0 .. m : g[i] = h[i]
<1>1. /\ \A i \in 0 .. n : g[i] = IF i = 0 THEN One ELSE Times(g[i - 1], w[i])
      /\ \A i \in 0 .. m : h[i] = IF i = 0 THEN One ELSE Times(h[i - 1], v[i])
  BY DEF Multiplies
<1> DEFINE G == {k \in 0 .. m : g[k] = h[k]}
<1>2. 0 \in G
  <2>1. 0 \in 0 .. m /\ 0 \in 0 .. n
    OBVIOUS
  <2> QED BY <1>1, <2>1
<1>3. ASSUME NEW k \in 0 .. m - 1, k \in G PROVE k + 1 \in G
  <2> DEFINE j == k + 1
  <2>1. j \in 0 .. m /\ j \in 0 .. n /\ j # 0 /\ j - 1 = k /\ j \in 1 .. m
    OBVIOUS
  <2> HIDE DEF j
  <2>2. g[j] = Times(g[k], w[j]) /\ h[j] = Times(h[k], v[j])
    BY <1>1, <2>1
  <2>3. g[j] = h[j]
    BY <1>3, <2>1, <2>2
  <2> QED BY <2>1, <2>3 DEF j
<1> HIDE DEF G
<1>4. \A k \in 0 .. m : k \in G
  BY <1>2, <1>3, UpTo
<1> QED BY <1>4 DEF G

\* All weights are ratios.
Weighted(t) == \A p \in DOMAIN t : t[p].weight \in Ratio /\ t[p].final \in Ratio

WeightsAlong(t, p) == [i \in 1 .. Len(p) |-> t[SubSeq(p, 1, i)].weight]

\* What PathWeight multiplies with the final weight.
ProductTo(t, p) ==
  LET upTo[i \in 0 .. Len(p)] ==
        IF i = 0 THEN One ELSE Times(upTo[i - 1], t[SubSeq(p, 1, i)].weight)
  IN upTo[Len(p)]

LEMMA PathWeightIs == ASSUME NEW t, NEW p PROVE PathWeight(t, p) = Times(ProductTo(t, p), t[p].final)
BY Zenon DEF PathWeight, ProductTo

\* The beginnings of a string.
LEMMA BeginningIs ==
  ASSUME NEW n \in Nat, NEW t, IsTrie(t, n), NEW p \in DOMAIN t, NEW i \in 1 .. Len(p)
  PROVE  /\ SubSeq(p, 1, i) \in DOMAIN t /\ Begins(SubSeq(p, 1, i), p)
         /\ i = Len(p) => SubSeq(p, 1, i) = p
         /\ i < Len(p) => SubSeq(Front(p), 1, i) = SubSeq(p, 1, i)
<1>1. p \in Seq(1 .. n) /\ Len(p) \in Nat /\ 1 \in 1 .. Len(p) /\ 1 <= i
  BY DEF IsTrie
<1> DEFINE q == SubSeq(p, 1, i)
<1>2. q \in Seq(1 .. n) /\ Len(q) = i - 1 + 1 /\ \A k \in 1 .. i - 1 + 1 : q[k] = p[1 + k - 1]
  BY <1>1, SubSeqFacts
<1>3. Len(q) = i /\ \A k \in 1 .. i : q[k] = p[k]
  BY <1>1, <1>2
<1> HIDE DEF q
<1>4. Begins(q, p)
  BY <1>1, <1>3 DEF Begins
<1>5. q \in DOMAIN t
  BY <1>2, <1>4, TrieBeginnings
<1>6. i = Len(p) => q = p
  BY <1>1, <1>2, <1>3, SameSequence
<1>7. ASSUME i < Len(p) PROVE SubSeq(Front(p), 1, i) = q
  <2> DEFINE f == Front(p)
             r == SubSeq(f, 1, i)
  <2>1. p # <<>> /\ f \in Seq(1 .. n) /\ Len(f) = Len(p) - 1 /\ \A k \in 1 .. Len(p) - 1 : f[k] = p[k]
    <3>1. Len(p) # 0
      BY <1>1, <1>7
    <3>2. p # <<>>
      BY <3>1
    <3> QED BY <1>1, <3>2, FrontFacts
  <2>2. i \in 1 .. Len(f) /\ 1 \in 1 .. Len(f)
    BY <1>1, <1>7, <2>1
  <2> HIDE DEF f
  <2>3. r \in Seq(1 .. n) /\ Len(r) = i - 1 + 1 /\ \A k \in 1 .. i - 1 + 1 : r[k] = f[1 + k - 1]
    BY <1>1, <2>1, <2>2, SubSeqFacts
  <2> HIDE DEF r
  <2>4. Len(r) = i /\ \A k \in 1 .. i : r[k] = p[k]
    <3>1. i \in Nat /\ i - 1 + 1 = i /\ \A k \in 1 .. i : 1 + k - 1 = k /\ k \in 1 .. Len(p) - 1
      BY <1>1, <1>7
    <3> QED BY <2>1, <2>3, <3>1
  <2>5. r = q
    BY <1>2, <1>3, <2>3, <2>4, SameSequence
  <2> QED BY <2>5 DEF r, f
<1> QED BY <1>4, <1>5, <1>6, <1>7 DEF q

\* The product chosen is the last of the running products.
LEMMA ProductRuns ==
  ASSUME NEW n \in Nat, NEW t, IsTrie(t, n), Weighted(t), NEW p \in DOMAIN t
  PROVE  \E h \in [0 .. Len(p) -> Ratio] : Multiplies(WeightsAlong(t, p), Len(p), h) /\ ProductTo(t, p) = h[Len(p)]
<1> DEFINE N == Len(p)
           w == WeightsAlong(t, p)
           c == CHOOSE h : h = [i \in 0 .. N |-> IF i = 0 THEN One ELSE Times(h[i - 1], t[SubSeq(p, 1, i)].weight)]
<1>1. p \in Seq(1 .. n) /\ N \in Nat
  BY DEF IsTrie
<1>2. w \in [1 .. N -> Ratio]
  <2>1. \A i \in 1 .. N : SubSeq(p, 1, i) \in DOMAIN t
    BY BeginningIs
  <2> QED BY <2>1 DEF WeightsAlong, Weighted
<1>3. ProductTo(t, p) = c[N]
  BY Zenon DEF ProductTo
<1>4. \A i \in 1 .. N : w[i] = t[SubSeq(p, 1, i)].weight
  BY DEF WeightsAlong
<1> DEFINE R(h) == h = [i \in 0 .. N |-> IF i = 0 THEN One ELSE Times(h[i - 1], t[SubSeq(p, 1, i)].weight)]
<1> HIDE DEF w, N
<1>5. \A h : R(h) <=> Multiplies(w, N, h)
  <2> SUFFICES ASSUME NEW h PROVE R(h) <=> Multiplies(w, N, h)
    OBVIOUS
  <2>1. \A i \in 0 .. N : i = 0 \/ i \in 1 .. N
    BY <1>1 DEF N
  <2>2. [i \in 0 .. N |-> IF i = 0 THEN One ELSE Times(h[i - 1], w[i])]
        = [i \in 0 .. N |-> IF i = 0 THEN One ELSE Times(h[i - 1], t[SubSeq(p, 1, i)].weight)]
    BY <1>4, <2>1
  <2> QED BY <2>2 DEF Multiplies
<1>6. PICK h \in [0 .. N -> Ratio] : Multiplies(w, N, h)
  BY <1>1, <1>2, RunningExists DEF N
<1>7. R(c)
  <2>1. R(h)
    BY <1>5, <1>6
  <2> HIDE DEF R
  <2>2. \E x : R(x)
    BY <2>1
  <2>3. c = CHOOSE x : R(x)
    BY DEF R
  <2> HIDE DEF c
  <2> QED BY <2>2, <2>3
<1> HIDE DEF c, R
<1>8. Multiplies(w, N, c)
  BY <1>5, <1>7
<1>9. \A i \in 0 .. N : c[i] = h[i]
  <2>1. N \in Nat /\ N <= N
    BY <1>1 DEF N
  <2> QED BY <1>6, <1>8, <2>1, RunningSame
<1>10. N \in 0 .. N
  BY <1>1 DEF N
<1> QED BY <1>3, <1>6, <1>9, <1>10 DEF N, w

\* Label by label.
LEMMA ProductStep ==
  ASSUME NEW n \in Nat, NEW t, IsTrie(t, n), Weighted(t), NEW p \in DOMAIN t
  PROVE  /\ ProductTo(t, p) \in Ratio
         /\ p = Root => ProductTo(t, p) = One
         /\ p # Root => Front(p) \in DOMAIN t /\ ProductTo(t, p) = Times(ProductTo(t, Front(p)), t[p].weight)
<1>1. PICK h \in [0 .. Len(p) -> Ratio] : Multiplies(WeightsAlong(t, p), Len(p), h) /\ ProductTo(t, p) = h[Len(p)]
  BY ProductRuns
<1>2. p \in Seq(1 .. n) /\ Len(p) \in Nat /\ Len(p) \in 0 .. Len(p)
  BY DEF IsTrie
<1>3. \A i \in 0 .. Len(p) : h[i] = IF i = 0 THEN One ELSE Times(h[i - 1], WeightsAlong(t, p)[i])
  BY <1>1 DEF Multiplies
<1>4. p = Root => ProductTo(t, p) = One
  <2>1. p = Root => Len(p) = 0
    BY EmptyFacts DEF Root
  <2> QED BY <1>1, <1>2, <1>3, <2>1
<1>5. ASSUME p # Root PROVE Front(p) \in DOMAIN t /\ ProductTo(t, p) = Times(ProductTo(t, Front(p)), t[p].weight)
  <2> DEFINE f == Front(p)
             N == Len(p)
             M == N - 1
  <2>1. f \in DOMAIN t
    BY <1>5 DEF IsTrie
  <2>2. Len(f) = M /\ M \in Nat /\ N \in 1 .. N /\ M <= N /\ N # 0 /\ M \in 0 .. M
        /\ (\A i \in 1 .. M : i \in 1 .. N /\ i < N)
    <3>1. p # <<>>
      BY <1>5 DEF Root
    <3>2. Len(f) = Len(p) - 1
      BY <1>2, <3>1, FrontFacts
    <3>3. Len(p) # 0
      BY <1>2, <3>1
    <3> QED BY <1>2, <3>2, <3>3
  <2>3. PICK g \in [0 .. Len(f) -> Ratio] : Multiplies(WeightsAlong(t, f), Len(f), g) /\ ProductTo(t, f) = g[Len(f)]
    BY <2>1, ProductRuns
  <2>4. \A i \in 1 .. M : WeightsAlong(t, p)[i] = WeightsAlong(t, f)[i]
    <3> SUFFICES ASSUME NEW i \in 1 .. M PROVE WeightsAlong(t, p)[i] = WeightsAlong(t, f)[i]
      OBVIOUS
    <3>1. SubSeq(f, 1, i) = SubSeq(p, 1, i)
      BY <2>2, BeginningIs
    <3>2. i \in 1 .. Len(p) /\ i \in 1 .. Len(f)
      BY <2>2
    <3> QED BY <3>1, <3>2 DEF WeightsAlong
  <2>5. \A i \in 0 .. M : h[i] = g[i]
    <3> DEFINE w == WeightsAlong(t, p)
               v == WeightsAlong(t, f)
    <3>1. Multiplies(w, N, h) /\ Multiplies(v, M, g) /\ N \in Nat /\ \A i \in 1 .. M : w[i] = v[i]
      BY <1>1, <1>2, <2>2, <2>3, <2>4
    <3> HIDE DEF w, v, N, M
    <3> QED BY <2>2, <3>1, RunningSame
  <2>6. WeightsAlong(t, p)[N] = t[p].weight
    <3>1. SubSeq(p, 1, N) = p
      BY <2>2, BeginningIs
    <3> QED BY <2>2, <3>1 DEF WeightsAlong
  <2>7. h[N] = Times(h[M], WeightsAlong(t, p)[N])
    BY <1>2, <1>3, <2>2
  <2> QED BY <1>1, <2>1, <2>2, <2>3, <2>5, <2>6, <2>7
<1> QED BY <1>1, <1>2, <1>4, <1>5

-----------------------------------------------------------------------------

\* Sums over a set of pairs.

\* The function that SumOver chooses.
SumsTo(e, S, h) ==
  h = [s \in SUBSET S |->
         IF s = {} THEN Zero ELSE Plus(e[CHOOSE x \in s : TRUE], h[s \ {CHOOSE x \in s : TRUE}])]

LEMMA SumExists ==
  ASSUME NEW S, IsFiniteSet(S), NEW e, \A x \in S : e[x] \in Ratio
  PROVE  \E h : SumsTo(e, S, h)
<1> DEFINE f == [q \in S \X Ratio |-> Plus(e[q[1]], q[2])]
<1>1. Zero \in Ratio
  BY ZeroOne DEF Has
<1> HIDE DEF Ratio
<1>2. f \in [S \X Ratio -> Ratio]
  <2>1. \A x \in S, a \in Ratio : Plus(e[x], a) \in Ratio
    BY RatioType
  <2> QED BY <2>1
<1>3. \A x \in S, a \in Ratio : f[<<x, a>>] = Plus(e[x], a)
  OBVIOUS
<1> HIDE DEF f
<1>4. PICK g \in [SUBSET S -> Ratio] : FoldResult(f, Zero, S, g)
  BY <1>1, <1>2, FoldExists
<1>5. \A s \in SUBSET S : s # {} =>
        f[<<CHOOSE x \in s : TRUE, g[s \ {CHOOSE x \in s : TRUE}]>>]
          = Plus(e[CHOOSE x \in s : TRUE], g[s \ {CHOOSE x \in s : TRUE}])
  <2> SUFFICES ASSUME NEW s \in SUBSET S, s # {}, NEW x, x = CHOOSE z \in s : TRUE
               PROVE  f[<<x, g[s \ {x}]>>] = Plus(e[x], g[s \ {x}])
    OBVIOUS
  <2>1. x \in S /\ g[s \ {x}] \in Ratio
    OBVIOUS
  <2> QED BY <1>3, <2>1
<1>6. SumsTo(e, S, g)
  BY <1>4, <1>5 DEF FoldResult, SumsTo
<1> QED BY <1>6

\* The order makes no difference.
LEMMA SumSteps ==
  ASSUME NEW S, IsFiniteSet(S), NEW e, \A x \in S : e[x] \in Ratio, NEW h, SumsTo(e, S, h)
  PROVE  /\ h[{}] = Zero
         /\ \A s \in SUBSET S : h[s] \in Ratio /\ \A x \in s : h[s] = Plus(e[x], h[s \ {x}])
<1>1. Zero \in Ratio
  BY ZeroOne DEF Has
<1> HIDE DEF Ratio
<1>2. h[{}] = Zero
  BY DEF SumsTo
<1>3. ASSUME NEW s \in SUBSET S, s # {}
      PROVE  \E c \in s : h[s] = Plus(e[c], h[s \ {c}])
  <2> DEFINE c == CHOOSE x \in s : TRUE
  <2>1. c \in s
    BY <1>3
  <2>2. h[s] = Plus(e[c], h[s \ {c}])
    BY <1>3 DEF SumsTo
  <2> QED BY <2>1, <2>2
<1>4. \A s \in SUBSET S : h[s] \in Ratio
  <2> DEFINE Bad == {s \in SUBSET S : h[s] \notin Ratio}
  <2> SUFFICES ASSUME Bad # {} PROVE FALSE
    OBVIOUS
  <2>1. PICK t \in Bad : \A u \in Bad : u \subseteq t => u = t
    <3>1. Bad \in SUBSET SUBSET S
      OBVIOUS
    <3> HIDE DEF Bad
    <3> QED BY <3>1, SmallestSet
  <2>2. t # {}
    BY <1>1, <1>2, <2>1
  <2>3. PICK c \in t : h[t] = Plus(e[c], h[t \ {c}])
    BY <1>3, <2>1, <2>2
  <2>4. t \ {c} \notin Bad /\ t \ {c} \in SUBSET S
    BY <2>1
  <2>5. h[t \ {c}] \in Ratio /\ e[c] \in Ratio
    BY <2>1, <2>4
  <2> QED BY <2>1, <2>3, <2>5, RatioType
<1>5. \A s \in SUBSET S : \A x \in s : h[s] = Plus(e[x], h[s \ {x}])
  <2> DEFINE Bad == {s \in SUBSET S : \E x \in s : h[s] # Plus(e[x], h[s \ {x}])}
  <2> SUFFICES ASSUME Bad # {} PROVE FALSE
    OBVIOUS
  <2>1. PICK t \in Bad : \A u \in Bad : u \subseteq t => u = t
    <3>1. Bad \in SUBSET SUBSET S
      OBVIOUS
    <3> HIDE DEF Bad
    <3> QED BY <3>1, SmallestSet
  <2>2. PICK x \in t : h[t] # Plus(e[x], h[t \ {x}])
    BY <2>1
  <2>3. PICK c \in t : h[t] = Plus(e[c], h[t \ {c}])
    BY <1>3, <2>1
  <2>4. x # c
    BY <2>2, <2>3
  <2> DEFINE u == t \ {c}
             v == t \ {x}
             r == t \ {c, x}
  <2>5. u \in SUBSET S /\ v \in SUBSET S /\ u \notin Bad /\ v \notin Bad /\ x \in u /\ c \in v
    BY <2>1, <2>4
  <2>6. h[u] = Plus(e[x], h[u \ {x}]) /\ h[v] = Plus(e[c], h[v \ {c}])
    <3> HIDE DEF u, v
    <3> QED BY <2>5
  <2>7. u \ {x} = r /\ v \ {c} = r /\ r \in SUBSET S /\ x \in S /\ c \in S
    BY <2>1
  <2> HIDE DEF u, v, r
  <2>8. e[x] \in Ratio /\ e[c] \in Ratio /\ h[r] \in Ratio
    BY <1>4, <2>7
  <2>9. Plus(e[c], Plus(e[x], h[r])) = Plus(e[x], Plus(e[c], h[r]))
    <3> DEFINE a == e[c]
               b == e[x]
               d == h[r]
    <3>1. a \in Ratio /\ b \in Ratio /\ d \in Ratio
      BY <2>8
    <3> HIDE DEF a, b, d
    <3>2. Plus(Plus(a, b), d) = Plus(a, Plus(b, d)) /\ Plus(Plus(b, a), d) = Plus(b, Plus(a, d)) /\ Plus(a, b) = Plus(b, a)
      BY <3>1, PlusAssociates, TimesCommutes
    <3>3. Plus(a, Plus(b, d)) = Plus(b, Plus(a, d))
      BY <3>2
    <3> QED BY <3>3 DEF a, b, d
  <2>10. h[t] = Plus(e[c], h[u]) /\ h[t] # Plus(e[x], h[v])
    BY <2>2, <2>3 DEF u, v
  <2> QED BY <2>6, <2>7, <2>9, <2>10
<1> QED BY <1>2, <1>4, <1>5

\* The sum over some elements is the same in a sum over more.
LEMMA SumsAgree ==
  ASSUME NEW S, IsFiniteSet(S), NEW R, R \subseteq S, NEW e, NEW d, \A x \in R : e[x] = d[x],
         NEW h, SumsTo(e, S, h), NEW g, SumsTo(d, R, g)
  PROVE  \A s \in SUBSET R : g[s] = h[s]
<1> DEFINE Bad == {s \in SUBSET R : g[s] # h[s]}
<1> SUFFICES ASSUME Bad # {} PROVE FALSE
  OBVIOUS
<1>1. PICK t \in Bad : \A u \in Bad : u \subseteq t => u = t
  <2>1. Bad \in SUBSET SUBSET S
    OBVIOUS
  <2> HIDE DEF Bad
  <2> QED BY <2>1, SmallestSet
<1>2. t # {}
  BY <1>1 DEF SumsTo
<1> DEFINE c == CHOOSE x \in t : TRUE
<1>3. c \in t /\ c \in R /\ c \in S
  BY <1>1, <1>2
<1>4. g[t] = Plus(d[c], g[t \ {c}])
  BY <1>1, <1>2 DEF SumsTo
<1>5. h[t] = Plus(e[c], h[t \ {c}])
  BY <1>1, <1>2 DEF SumsTo
<1> HIDE DEF c
<1>6. t \ {c} \notin Bad /\ t \ {c} \in SUBSET R
  BY <1>1, <1>3
<1> QED BY <1>1, <1>3, <1>4, <1>5, <1>6

\* The expected counts of p in the first k pairs, together.
CountedPairs(ls, k) == {i \in 1 .. k : ls[i] # {}}
Total(p, ls, k) == SumOver(CountedPairs(ls, k), LAMBDA i : ExpectedCount(p, ls[i]))

\* The expected count of p in a pair is a ratio.
CountTyped(p, ls, i) == ls[i] # {} => ExpectedCount(p, ls[i]) \in Ratio

LEMMA TotalIs ==
  ASSUME NEW p, NEW ls, NEW k \in Nat, \A i \in 1 .. k : CountTyped(p, ls, i),
         NEW e, e = [i \in 1 .. k |-> ExpectedCount(p, ls[i])]
  PROVE  \E h : SumsTo(e, CountedPairs(ls, k), h) /\ Total(p, ls, k) = h[CountedPairs(ls, k)]
<1> DEFINE S == CountedPairs(ls, k)
           one(s) == CHOOSE x \in s : TRUE
           R(h) == h = [s \in SUBSET S |->
                          IF s = {} THEN Zero
                          ELSE Plus(ExpectedCount(p, ls[CHOOSE x \in s : TRUE]), h[s \ {CHOOSE x \in s : TRUE}])]
           c == CHOOSE h : R(h)
<1>1. Total(p, ls, k) = c[S]
  BY Zenon DEF Total, SumOver, FoldSet, MapThenFoldSet
<1>2. IsFiniteSet(S) /\ S \subseteq 1 .. k
  <2>1. IsFiniteSet(1 .. k)
    BY IntervalFinite
  <2>2. S \subseteq 1 .. k
    BY DEF CountedPairs
  <2> QED BY <2>1, <2>2, FS_Subset
<1>3. \A x \in S : e[x] = ExpectedCount(p, ls[x]) /\ e[x] \in Ratio
  BY DEF CountedPairs, CountTyped
<1> HIDE DEF S
<1>4. \A h : R(h) <=> SumsTo(e, S, h)
  <2> SUFFICES ASSUME NEW h PROVE R(h) <=> SumsTo(e, S, h)
    OBVIOUS
  <2>1. \A s \in SUBSET S : s # {} => e[one(s)] = ExpectedCount(p, ls[one(s)])
    <3> SUFFICES ASSUME NEW s \in SUBSET S, s # {} PROVE one(s) \in S
      BY <1>3
    <3> QED OBVIOUS
  <2>2. [s \in SUBSET S |-> IF s = {} THEN Zero ELSE Plus(ExpectedCount(p, ls[CHOOSE x \in s : TRUE]), h[s \ {CHOOSE x \in s : TRUE}])]
        = [s \in SUBSET S |-> IF s = {} THEN Zero ELSE Plus(e[CHOOSE x \in s : TRUE], h[s \ {CHOOSE x \in s : TRUE}])]
    BY <2>1
  <2> QED BY <2>2 DEF SumsTo
<1>5. \E h : SumsTo(e, S, h)
  BY <1>2, <1>3, SumExists
<1>6. SumsTo(e, S, c)
  <2> HIDE DEF R
  <2>1. \E h : R(h)
    BY <1>4, <1>5
  <2>2. R(c)
    BY <2>1
  <2> QED BY <1>4, <2>2
<1> HIDE DEF c
<1> QED BY <1>1, <1>6 DEF S

\* One pair more.
LEMMA TotalStep ==
  ASSUME NEW p, NEW ls, NEW k \in Nat, \A i \in 1 .. k + 1 : CountTyped(p, ls, i)
  PROVE  /\ Total(p, ls, k) \in Ratio /\ Total(p, ls, 0) = Zero
         /\ ls[k + 1] = {} => Total(p, ls, k + 1) = Total(p, ls, k)
         /\ ls[k + 1] # {} =>
              Total(p, ls, k + 1) = Plus(ExpectedCount(p, ls[k + 1]), Total(p, ls, k))
<1> DEFINE m == k + 1
           e == [i \in 1 .. k |-> ExpectedCount(p, ls[i])]
           d == [i \in 1 .. m |-> ExpectedCount(p, ls[i])]
           S == CountedPairs(ls, k)
           T == CountedPairs(ls, m)
<1>1. m \in Nat /\ k \in Nat /\ m \in 1 .. m /\ m \notin 1 .. k /\ 1 .. m = (1 .. k) \cup {m} /\ 1 .. 0 = {}
  OBVIOUS
<1>2. \A i \in 1 .. m : CountTyped(p, ls, i)
  OBVIOUS
<1> HIDE DEF m
<1>3. PICK g : SumsTo(e, S, g) /\ Total(p, ls, k) = g[S]
  BY <1>1, <1>2, TotalIs
<1>4. PICK h : SumsTo(d, T, h) /\ Total(p, ls, m) = h[T]
  BY <1>1, <1>2, TotalIs
<1>5. /\ IsFiniteSet(T) /\ S \subseteq T /\ S \subseteq 1 .. k /\ T \subseteq 1 .. m
      /\ ls[m] = {} => T = S
      /\ ls[m] # {} => T \ {m} = S /\ m \in T
  <2>1. IsFiniteSet(1 .. m)
    BY <1>1, IntervalFinite
  <2>2. T \subseteq 1 .. m
    BY DEF CountedPairs
  <2>3. IsFiniteSet(T)
    BY <2>1, <2>2, FS_Subset
  <2> QED BY <1>1, <2>2, <2>3 DEF CountedPairs
<1>6. \A i \in S : e[i] = d[i]
  BY <1>1, <1>5
<1>7. \A i \in T : d[i] \in Ratio
  BY <1>2, <1>5 DEF CountTyped, CountedPairs
<1>8. /\ \A s \in SUBSET T : h[s] \in Ratio /\ \A x \in s : h[s] = Plus(d[x], h[s \ {x}])
      /\ h[{}] = Zero
  <2>1. IsFiniteSet(T) /\ (\A i \in T : d[i] \in Ratio) /\ SumsTo(d, T, h)
    BY <1>4, <1>5, <1>7
  <2> HIDE DEF T, d
  <2> QED BY ONLY <2>1, SumSteps
<1>9. \A s \in SUBSET S : g[s] = h[s]
  <2>1. \A i \in S : d[i] = e[i]
    BY <1>6
  <2> HIDE DEF S, T, d, e
  <2>2. SumsTo(d, T, h) /\ SumsTo(e, S, g) /\ IsFiniteSet(T) /\ S \subseteq T
    BY <1>3, <1>4, <1>5
  <2> QED BY ONLY <2>1, <2>2, SumsAgree
<1>10. d[m] = ExpectedCount(p, ls[m])
  BY <1>1
<1> HIDE DEF S, T, d, e
<1>11. Total(p, ls, k) = h[S] /\ S \in SUBSET T
  BY <1>3, <1>5, <1>9
<1>12. Total(p, ls, 0) = Zero
  <2>1. \A i \in 1 .. 0 : CountTyped(p, ls, i)
    OBVIOUS
  <2>2. PICK f : SumsTo([i \in 1 .. 0 |-> ExpectedCount(p, ls[i])], CountedPairs(ls, 0), f) /\ Total(p, ls, 0) = f[CountedPairs(ls, 0)]
    BY <2>1, TotalIs
  <2>3. CountedPairs(ls, 0) = {}
    BY <1>1 DEF CountedPairs
  <2> QED BY <2>2, <2>3 DEF SumsTo
<1>13. ls[m] # {} => h[T] = Plus(d[m], h[S])
  BY <1>5, <1>8
<1> QED BY <1>4, <1>5, <1>8, <1>10, <1>11, <1>12, <1>13 DEF m

\* What is in none of the pairs.
LEMMA TotalZero ==
  ASSUME NEW p, NEW ls, NEW k \in Nat, \A i \in 1 .. k : ls[i] # {} => ExpectedCount(p, ls[i]) = Zero
  PROVE  Total(p, ls, k) = Zero
<1> DEFINE G == {j \in 0 .. k : Total(p, ls, j) = Zero}
<1>1. Zero \in Ratio /\ Plus(Zero, Zero) = Zero
  BY ZeroOne, ZeroOneLaws DEF Has
<1> HIDE DEF Ratio
<1>2. \A i \in 1 .. k : CountTyped(p, ls, i)
  BY <1>1 DEF CountTyped
<1>3. 0 \in G
  <2> DEFINE z == [i \in 1 .. 0 |-> ExpectedCount(p, ls[i])]
  <2>1. \A i \in 1 .. 0 : CountTyped(p, ls, i)
    OBVIOUS
  <2>2. PICK f : SumsTo(z, CountedPairs(ls, 0), f) /\ Total(p, ls, 0) = f[CountedPairs(ls, 0)]
    BY <2>1, TotalIs
  <2>3. CountedPairs(ls, 0) = {}
    BY DEF CountedPairs
  <2>4. 0 \in 0 .. k
    OBVIOUS
  <2> QED BY <2>2, <2>3, <2>4 DEF SumsTo
<1>4. ASSUME NEW j \in 0 .. k - 1, j \in G PROVE j + 1 \in G
  <2> DEFINE m == j + 1
  <2>1. m \in 1 .. k /\ j \in Nat /\ m \in 0 .. k
    OBVIOUS
  <2>2. \A i \in 1 .. m : CountTyped(p, ls, i)
    BY <1>2, <2>1
  <2>3. /\ ls[m] = {} => Total(p, ls, m) = Total(p, ls, j)
        /\ ls[m] # {} => Total(p, ls, m) = Plus(ExpectedCount(p, ls[m]), Total(p, ls, j))
    BY <2>1, <2>2, TotalStep
  <2> HIDE DEF m
  <2>4. Total(p, ls, m) = Zero
    BY <1>1, <1>4, <2>1, <2>3
  <2> QED BY <2>1, <2>4 DEF m
<1> HIDE DEF G
<1>5. k \in G
  <2>1. \A j \in 0 .. k : j \in G
    BY <1>3, <1>4, UpTo
  <2> QED BY <2>1
<1> QED BY <1>5 DEF G

\* It is a matter of the first k lattices.
LEMMA TotalSame ==
  ASSUME NEW p, NEW ls, NEW ms, NEW k \in Nat, \A i \in 1 .. k : CountTyped(p, ls, i) /\ ms[i] = ls[i]
  PROVE  Total(p, ms, k) = Total(p, ls, k)
<1> DEFINE e == [i \in 1 .. k |-> ExpectedCount(p, ls[i])]
           d == [i \in 1 .. k |-> ExpectedCount(p, ms[i])]
           S == CountedPairs(ls, k)
           T == CountedPairs(ms, k)
<1>1. d = e /\ T = S /\ S \subseteq 1 .. k
  BY DEF CountedPairs
<1>2. \A i \in 1 .. k : CountTyped(p, ms, i)
  BY DEF CountTyped
<1>3. IsFiniteSet(S)
  <2>1. IsFiniteSet(1 .. k)
    BY IntervalFinite
  <2> QED BY <1>1, <2>1, FS_Subset
<1>4. PICK h : SumsTo(e, S, h) /\ Total(p, ls, k) = h[S]
  BY TotalIs
<1>5. PICK g : SumsTo(d, T, g) /\ Total(p, ms, k) = g[T]
  BY <1>2, TotalIs
<1> HIDE DEF e, d, S, T
<1>6. \A s \in SUBSET S : g[s] = h[s]
  <2>1. SumsTo(e, S, h) /\ SumsTo(e, S, g) /\ S \subseteq S /\ \A x \in S : e[x] = e[x]
    BY <1>1, <1>4, <1>5
  <2> QED BY ONLY <1>3, <2>1, SumsAgree
<1> QED BY <1>1, <1>4, <1>5, <1>6

-----------------------------------------------------------------------------

\* The expected count of an n-gram.

\* The function that the fold of ExpectedCount chooses.
CountsTo(e, S, h) ==
  h = [s \in SUBSET S |->
         IF s = {} THEN 0 ELSE h[s \ {CHOOSE x \in s : TRUE}] + e[CHOOSE x \in s : TRUE]]

LEMMA CountsExist ==
  ASSUME NEW S, IsFiniteSet(S), NEW e, \A x \in S : e[x] \in Nat
  PROVE  \E h : CountsTo(e, S, h)
<1> DEFINE f == [q \in S \X Nat |-> q[2] + e[q[1]]]
<1>1. f \in [S \X Nat -> Nat]
  OBVIOUS
<1>2. \A x \in S, a \in Nat : f[<<x, a>>] = a + e[x]
  OBVIOUS
<1> HIDE DEF f
<1>3. PICK g \in [SUBSET S -> Nat] : FoldResult(f, 0, S, g)
  BY <1>1, FoldExists
<1>4. \A s \in SUBSET S : s # {} =>
        f[<<CHOOSE x \in s : TRUE, g[s \ {CHOOSE x \in s : TRUE}]>>]
          = g[s \ {CHOOSE x \in s : TRUE}] + e[CHOOSE x \in s : TRUE]
  <2> SUFFICES ASSUME NEW s \in SUBSET S, s # {}, NEW x, x = CHOOSE z \in s : TRUE
               PROVE  f[<<x, g[s \ {x}]>>] = g[s \ {x}] + e[x]
    OBVIOUS
  <2>1. x \in S /\ g[s \ {x}] \in Nat
    OBVIOUS
  <2> QED BY <1>2, <2>1
<1>5. CountsTo(e, S, g)
  BY <1>3, <1>4 DEF FoldResult, CountsTo
<1> QED BY <1>5

LEMMA CountsAre ==
  ASSUME NEW S, IsFiniteSet(S), NEW e, \A x \in S : e[x] \in Nat, NEW h, CountsTo(e, S, h)
  PROVE  h[S] \in Nat /\ (h[S] = 0 <=> \A x \in S : e[x] = 0)
<1> DEFINE Correct(s) == h[s] \in Nat /\ (h[s] = 0 <=> \A x \in s : e[x] = 0)
           Bad == {s \in SUBSET S : ~ Correct(s)}
<1> SUFFICES ASSUME Bad # {} PROVE FALSE
  OBVIOUS
<1>1. PICK t \in Bad : \A u \in Bad : u \subseteq t => u = t
  <2>1. Bad \in SUBSET SUBSET S
    OBVIOUS
  <2> HIDE DEF Bad
  <2> QED BY <2>1, SmallestSet
<1>2. t # {}
  BY <1>1 DEF CountsTo
<1> DEFINE c == CHOOSE x \in t : TRUE
           u == t \ {c}
<1>3. c \in t /\ t = u \cup {c} /\ e[c] \in Nat
  BY <1>1, <1>2
<1>4. h[t] = h[u] + e[c]
  BY <1>1, <1>2 DEF CountsTo
<1>5. u \in SUBSET S /\ u \notin Bad
  BY <1>1, <1>3
<1> HIDE DEF c, u
<1>6. Correct(u)
  BY <1>5
<1>7. h[t] \in Nat /\ (h[t] = 0 <=> h[u] = 0 /\ e[c] = 0)
  BY <1>3, <1>4, <1>6
<1>8. Correct(t)
  BY <1>3, <1>6, <1>7
<1> QED BY <1>1, <1>8

\* Where p is in a string.
LEMMA OccurrencesAre ==
  ASSUME NEW L, NEW v \in Seq(L), NEW p \in Seq(L), Len(p) > 0
  PROVE  /\ IsFiniteSet(Occurrences(p, v)) /\ Cardinality(Occurrences(p, v)) \in Nat
         /\ Cardinality(Occurrences(p, v)) = 0 <=> ~ \E i \in Nat : StandsAt(p, v, i)
<1> DEFINE O == Occurrences(p, v)
<1>1. DOMAIN v = 1 .. Len(v) /\ Len(v) \in Nat /\ Len(p) \in Nat
  OBVIOUS
<1>2. IsFiniteSet(O)
  <2>1. O \subseteq 1 .. Len(v)
    BY <1>1 DEF Occurrences
  <2>2. IsFiniteSet(1 .. Len(v))
    BY <1>1, IntervalFinite
  <2> QED BY <2>1, <2>2, FS_Subset
<1>3. ASSUME NEW i \in Nat, StandsAt(p, v, i) PROVE i \in O
  <2> DEFINE j == i + Len(p) - 1
             s == SubSeq(v, i, j)
  <2>1. i \in 1 .. Len(v) /\ j \in 1 .. Len(v) /\ i <= j /\ j - i + 1 = Len(p)
    BY <1>1, <1>3 DEF StandsAt
  <2>2. s \in Seq(L) /\ Len(s) = j - i + 1 /\ \A k \in 1 .. j - i + 1 : s[k] = v[i + k - 1]
    <3> HIDE DEF j
    <3> QED BY <2>1, SubSeqFacts
  <2> HIDE DEF j
  <2>3. s = p
    <3>1. Len(s) = Len(p) /\ \A k \in 1 .. Len(p) : s[k] = p[k]
      BY <1>3, <2>1, <2>2 DEF StandsAt
    <3> HIDE DEF s
    <3> QED BY <2>2, <3>1, SameSequence
  <2> QED BY <1>1, <2>1, <2>3 DEF j, Occurrences
<1>4. ASSUME NEW i \in O PROVE i \in Nat /\ StandsAt(p, v, i)
  <2> DEFINE j == i + Len(p) - 1
  <2>1. i \in 1 .. Len(v) /\ j \in 1 .. Len(v) /\ SubSeq(v, i, j) = p
    BY <1>1, <1>4 DEF Occurrences
  <2>2. i <= j /\ j - i + 1 = Len(p) /\ i \in Nat \ {0} /\ i + Len(p) - 1 <= Len(v)
    BY <1>1, <2>1
  <2>3. \A k \in 1 .. j - i + 1 : p[k] = v[i + k - 1]
    <3> HIDE DEF j
    <3> QED BY <2>1, <2>2, SubSeqFacts
  <2> HIDE DEF j
  <2> QED BY <2>2, <2>3 DEF StandsAt
<1> HIDE DEF O
<1>5. Cardinality(O) \in Nat /\ (Cardinality(O) = 0 <=> O = {})
  BY <1>2, FS_CardinalityType, FS_EmptySet
<1>6. O = {} <=> ~ \E i \in Nat : StandsAt(p, v, i)
  BY <1>3, <1>4
<1> QED BY <1>2, <1>5, <1>6 DEF O

\* Zero for what does not occur, and for nothing else.
LEMMA ExpectedCountIs ==
  ASSUME NEW L, NEW lattice \in SUBSET Seq(L), IsFiniteSet(lattice), lattice # {},
         NEW order \in Nat, NEW p \in Seq(L), Len(p) \in 1 .. order
  PROVE  /\ ExpectedCount(p, lattice) \in Ratio
         /\ ExpectedCount(p, lattice) = Zero <=> p \notin NgramsOf(lattice, order)
<1> DEFINE R(h) == h = [s \in SUBSET lattice |->
                          IF s = {} THEN 0
                          ELSE h[s \ {CHOOSE x \in s : TRUE}] + Cardinality(Occurrences(p, CHOOSE x \in s : TRUE))]
           c == CHOOSE h : R(h)
           d == Cardinality(lattice)
           e == [v \in lattice |-> Cardinality(Occurrences(p, v))]
           one(s) == CHOOSE x \in s : TRUE
<1>1. ExpectedCount(p, lattice) = Reduced(c[lattice], d)
  BY Zenon DEF ExpectedCount, FoldSet, MapThenFoldSet
<1>2. \A v \in lattice : e[v] \in Nat /\ (e[v] = 0 <=> ~ \E i \in Nat : StandsAt(p, v, i))
  <2> SUFFICES ASSUME NEW v \in lattice
               PROVE  e[v] \in Nat /\ (e[v] = 0 <=> ~ \E i \in Nat : StandsAt(p, v, i))
    OBVIOUS
  <2>1. v \in Seq(L) /\ Len(p) > 0
    OBVIOUS
  <2> QED BY <2>1, OccurrencesAre
<1>3. \A h : R(h) <=> CountsTo(e, lattice, h)
  <2> SUFFICES ASSUME NEW h PROVE R(h) <=> CountsTo(e, lattice, h)
    OBVIOUS
  <2>1. \A s \in SUBSET lattice : s # {} => e[one(s)] = Cardinality(Occurrences(p, one(s)))
    <3> SUFFICES ASSUME NEW s \in SUBSET lattice, s # {} PROVE one(s) \in lattice
      OBVIOUS
    <3> QED OBVIOUS
  <2>2. [s \in SUBSET lattice |-> IF s = {} THEN 0
           ELSE h[s \ {CHOOSE x \in s : TRUE}] + Cardinality(Occurrences(p, CHOOSE x \in s : TRUE))]
        = [s \in SUBSET lattice |-> IF s = {} THEN 0
             ELSE h[s \ {CHOOSE x \in s : TRUE}] + e[CHOOSE x \in s : TRUE]]
    BY <2>1
  <2> QED BY <2>2 DEF CountsTo
<1> HIDE DEF e
<1>4. CountsTo(e, lattice, c)
  <2>1. \E h : CountsTo(e, lattice, h)
    BY <1>2, CountsExist
  <2> HIDE DEF R
  <2>2. \E h : R(h)
    BY <1>3, <2>1
  <2>3. R(c)
    BY <2>2
  <2> QED BY <1>3, <2>3
<1> HIDE DEF R, c
<1>5. c[lattice] \in Nat /\ (c[lattice] = 0 <=> \A v \in lattice : e[v] = 0)
  BY <1>2, <1>4, CountsAre
<1>6. d \in Nat /\ d # 0
  BY FS_CardinalityType, FS_EmptySet
<1>7. p \in NgramsOf(lattice, order) <=> \E v \in lattice, i \in Nat : StandsAt(p, v, i)
  BY NgramsSay
<1> HIDE DEF d
<1>8. Reduced(c[lattice], d) \in Ratio
  BY <1>5, <1>6 DEF Ratio
<1>9. Reduced(c[lattice], d) = Zero <=> c[lattice] = 0
  <2> DEFINE m == c[lattice]
             x == Reduced(m, d)
  <2>1. Has(x, m, d) /\ Has(Zero, 0, 1)
    BY <1>5, <1>6, HasReduced, ZeroOne
  <2>2. m \in Nat
    BY <1>5
  <2> HIDE DEF m, x
  <2>3. m = 0 => x = Zero
    <3>1. m = 0 => m * 1 = 0 * d
      BY <1>6
    <3> QED BY <2>1, <3>1, HasEqual
  <2>4. x = Zero => m = 0
    <3> SUFFICES ASSUME x = Zero PROVE m = 0
      OBVIOUS
    <3>1. Zero[1] * d = m * Zero[2]
      BY <2>1 DEF Has
    <3>2. Zero[1] = 0 /\ Zero[2] = 1
      BY DEF Zero
    <3> QED BY <1>6, <2>2, <3>1, <3>2
  <2> QED BY <2>3, <2>4 DEF m, x
<1> QED BY <1>1, <1>2, <1>5, <1>7, <1>8, <1>9

-----------------------------------------------------------------------------

\* The lattices are finite.

\* Strings with a symbol more.
LEMMA AppendedFinite ==
  ASSUME NEW S, IsFiniteSet(S), NEW s
  PROVE  IsFiniteSet({Append(w, s) : w \in S})
<1> DEFINE f == [w \in S |-> Append(w, s)]
           T == {f[w] : w \in S}
           A == {Append(w, s) : w \in S}
<1>1. T = A
  OBVIOUS
<1>2. T = {f[w] : w \in S}
  OBVIOUS
<1> HIDE DEF T, A, f
<1>3. IsFiniteSet(T)
  BY <1>2, ImageFinite
<1>4. IsFiniteSet(A)
  BY <1>1, <1>3
<1> QED BY <1>4 DEF A

LEMMA ExtendedFinite ==
  ASSUME NEW in, NEW out, NEW g, NEW p,
         p[1] > 0 => IsFiniteSet(g[<<p[1] - 1, p[2]>>]),
         p[2] > 0 => IsFiniteSet(g[<<p[1], p[2] - 1>>]),
         p[1] > 0 /\ p[2] > 0 => IsFiniteSet(g[<<p[1] - 1, p[2] - 1>>])
  PROVE  IsFiniteSet(Extended(in, out, g, p))
<1> DEFINE A(S, s) == {Append(w, s) : w \in S}
           a == IF p[1] = 0 /\ p[2] = 0 THEN {<<>>} ELSE {}
           b == IF p[1] > 0 THEN A(g[<<p[1] - 1, p[2]>>], Symbol(in[p[1]], Eps)) ELSE {}
           c == IF p[2] > 0 THEN A(g[<<p[1], p[2] - 1>>], Symbol(Eps, out[p[2]])) ELSE {}
           d == IF p[1] > 0 /\ p[2] > 0
                THEN A(g[<<p[1] - 1, p[2] - 1>>], Symbol(in[p[1]], out[p[2]])) ELSE {}
<1>1. Extended(in, out, g, p) = ((a \cup b) \cup c) \cup d
  BY DEF Extended
<1>2. \A S, s : IsFiniteSet(S) => IsFiniteSet(A(S, s))
  BY AppendedFinite
<1> HIDE DEF A
<1>3. IsFiniteSet({}) /\ IsFiniteSet({<<>>})
  BY FS_EmptySet, FS_Singleton
<1>4. IsFiniteSet(a) /\ IsFiniteSet(b) /\ IsFiniteSet(c) /\ IsFiniteSet(d)
  BY <1>2, <1>3
<1> HIDE DEF a, b, c, d
<1>5. IsFiniteSet(a \cup b)
  BY <1>4, FS_Union
<1>6. IsFiniteSet((a \cup b) \cup c)
  BY <1>4, <1>5, FS_Union
<1>7. IsFiniteSet(((a \cup b) \cup c) \cup d)
  BY <1>4, <1>6, FS_Union
<1> QED BY <1>1, <1>7

LEMMA ExtendsFinite ==
  ASSUME NEW in \in Seq(LetterOrEps), NEW out \in Seq(LetterOrEps), NEW g, Extends(in, out, g)
  PROVE  IsFiniteSet(g[<<Len(in), Len(out)>>])
<1> DEFINE m == Len(in)
           n == Len(out)
           D == (0 .. m) \X (0 .. n)
           G == {k \in 0 .. m + n + 1 : \A p \in D : p[1] + p[2] < k => IsFiniteSet(g[p])}
<1>1. m \in Nat /\ n \in Nat /\ \A p \in D : p[1] \in 0 .. m /\ p[2] \in 0 .. n /\ p = <<p[1], p[2]>>
  OBVIOUS
<1>2. \A p \in D : g[p] = Extended(in, out, g, p)
  BY DEF Extends
<1>3. 0 \in G
  BY <1>1
<1>4. ASSUME NEW k \in 0 .. (m + n + 1) - 1, k \in G PROVE k + 1 \in G
  <2>1. \A a \in 0 .. m, b \in 0 .. n : a + b < k => IsFiniteSet(g[<<a, b>>])
    <3> SUFFICES ASSUME NEW a \in 0 .. m, NEW b \in 0 .. n, a + b < k PROVE IsFiniteSet(g[<<a, b>>])
      OBVIOUS
    <3>1. <<a, b>> \in D /\ <<a, b>>[1] = a /\ <<a, b>>[2] = b
      OBVIOUS
    <3> QED BY <1>4, <3>1
  <2>2. ASSUME NEW p \in D, p[1] + p[2] < k + 1 PROVE IsFiniteSet(g[p])
    <3> DEFINE i == p[1]
               j == p[2]
    <3>1. i \in 0 .. m /\ j \in 0 .. n /\ i + j <= k
      BY <1>1, <2>2
    <3>2. /\ i > 0 => i - 1 \in 0 .. m /\ (i - 1) + j < k
          /\ j > 0 => j - 1 \in 0 .. n /\ i + (j - 1) < k
          /\ i > 0 /\ j > 0 => (i - 1) + (j - 1) < k
      BY <1>1, <3>1
    <3> HIDE DEF G
    <3>3. /\ i > 0 => IsFiniteSet(g[<<i - 1, j>>])
          /\ j > 0 => IsFiniteSet(g[<<i, j - 1>>])
          /\ i > 0 /\ j > 0 => IsFiniteSet(g[<<i - 1, j - 1>>])
      BY <2>1, <3>1, <3>2
    <3>4. IsFiniteSet(Extended(in, out, g, p))
      BY <3>3, ExtendedFinite
    <3> QED BY <1>2, <3>4
  <2>3. k + 1 \in 0 .. m + n + 1
    BY <1>1
  <2> QED BY <2>2, <2>3
<1>5. m + n + 1 \in G
  <2> HIDE DEF G
  <2>1. m + n + 1 \in Nat /\ m + n + 1 \in 0 .. m + n + 1
    BY <1>1
  <2> QED BY <1>3, <1>4, <2>1, UpTo
<1>6. <<m, n>> \in D /\ <<m, n>>[1] + <<m, n>>[2] < m + n + 1
  BY <1>1
<1> QED BY <1>5, <1>6

LEMMA AlignmentsFinite ==
  ASSUME NEW in \in Seq(LetterOrEps), NEW out \in Seq(LetterOrEps)
  PROVE  IsFiniteSet(Alignments(in, out))
<1> DEFINE h == CHOOSE g : Extends(in, out, g)
           S == h[<<Len(in), Len(out)>>]
           f == [v \in S |-> <<StartSym>> \o v \o <<EndSym>>]
           T == {f[v] : v \in S}
<1>1. Extends(in, out, h)
  BY ExtendsExists
<1>2. Alignments(in, out) = {<<StartSym>> \o v \o <<EndSym>> : v \in h[<<Len(in), Len(out)>>]}
  BY Zenon DEF Alignments, Extends, Extended
<1>3. Alignments(in, out) = T
  <2> HIDE DEF h
  <2> QED BY <1>2
<1> HIDE DEF h
<1>4. IsFiniteSet(S)
  BY <1>1, ExtendsFinite
<1>5. T = {f[v] : v \in S}
  OBVIOUS
<1> HIDE DEF S, f, T
<1>6. IsFiniteSet(T)
  BY <1>4, <1>5, ImageFinite
<1> QED BY <1>3, <1>6

\* A pair's alignments, as the code lets them be.
LEMMA AlignmentsOfFinite ==
  ASSUME NEW p, PairOfStrings(p)
  PROVE  IsFiniteSet(AlignmentsOf(p))
<1>1. AlignmentsOf(p) \subseteq Alignments(p.in, p.out)
  BY DEF AlignmentsOf, PairOfStrings
<1>2. IsFiniteSet(Alignments(p.in, p.out))
  BY AlignmentsFinite DEF PairOfStrings
<1> QED BY <1>1, <1>2, FS_Subset

\* And so is what they become with annotations.
LEMMA LatticeFinite ==
  ASSUME IsTable(table), data \in Corpora, NEW i \in DOMAIN data
  PROVE  IsFiniteSet(Lattice(data[i]))
<1> DEFINE aligned == AlignmentsOf(data[i])
           n == Len(table)
           f == [w \in aligned |-> Short(n, Len(w))]
           T == {f[w] : w \in aligned}
<1>1. PairOfStrings(data[i])
  BY CorpusPairs
<1>2. \A w \in aligned : Hooked(w)
  BY <1>1, AlignmentsOfType
<1>3. IsFiniteSet(aligned)
  BY <1>1, AlignmentsOfFinite
<1>4. /\ table \in Seq(AnySymbol) /\ DOMAIN table = 1 .. n /\ n \in Nat
  BY DEF IsTable
<1>5. \A w \in aligned : w \in Seq(BasicSymbol) /\ Len(w) \in Nat
  BY <1>2 DEF Hooked
<1>6. \A w \in aligned : IsFiniteSet(Short(n, Len(w)))
  BY <1>4, <1>5, ShortFinite
<1>7. \A w \in aligned : Annotate(w, table) \subseteq Short(n, Len(w))
  <2> SUFFICES ASSUME NEW w \in aligned, NEW v \in Annotate(w, table) PROVE v \in Short(n, Len(w))
    OBVIOUS
  <2>1. v \in Forms(w, table, Len(w))
    BY <1>4, <1>5, AnnotateType
  <2>2. v \in Seq(1 .. n) /\ Len(v) = Len(w)
    BY <1>4, <2>1 DEF Forms
  <2> QED BY <1>5, <2>2 DEF Short
<1>8. Lattice(data[i]) \subseteq UNION {Annotate(w, table) : w \in aligned}
  BY DEF Lattice
<1> HIDE DEF aligned, n
<1>9. T = {f[w] : w \in aligned} /\ \A t \in T : \E w \in aligned : t = Short(n, Len(w))
  OBVIOUS
<1>10. Lattice(data[i]) \subseteq UNION T
  BY <1>7, <1>8
<1> HIDE DEF f, T
<1>11. IsFiniteSet(T)
  BY <1>3, <1>9, ImageFinite
<1>12. IsFiniteSet(UNION T)
  BY <1>6, <1>9, <1>11, FS_UNION
<1> QED BY <1>10, <1>12, FS_Subset

-----------------------------------------------------------------------------

\* One arc of a union.

\* The new weight of the arc, and what is left for the arcs after it.
LEMMA WeightsOfBoth ==
  ASSUME NEW T \in Ratio, NEW v1 \in Ratio, NEW v2 \in Ratio, NEW w1 \in Ratio, NEW w2 \in Ratio,
         NEW f \in Ratio, NEW c, c = Times(Times(T, v2), w2), c # Zero,
         NEW w, w = Plus(Times(v1, w1), Times(v2, w2)),
         NEW r1, r1 = Divide(Times(v1, w1), w), NEW r2, r2 = Divide(Times(v2, w2), w),
         NEW f2, f2 = Plus(Times(r1, f), Times(r2, One))
  PROVE  /\ w \in Ratio /\ r1 \in Ratio /\ r2 \in Ratio /\ f2 \in Ratio
         /\ Times(Times(T, w), r2) = c /\ Times(r1, Times(T, w)) = Times(v1, Times(T, w1))
         /\ Times(Times(T, w), f2) = Plus(Times(Times(v1, Times(T, w1)), f), c)
<1> DEFINE a == Times(v1, w1)
           b == Times(v2, w2)
<1>1. a \in Ratio /\ b \in Ratio
  BY RatioType
<1>2. c = Times(T, b)
  BY TimesAssociates
<1>3. b # Zero
  BY <1>2, ZeroOneLaws
<1> HIDE DEF a, b
<1>4. w = Plus(a, b) /\ r1 = Divide(a, w) /\ r2 = Divide(b, w)
  BY DEF a, b
<1>5. w \in Ratio /\ w # Zero
  BY <1>1, <1>3, <1>4, RatioType
<1>6. r1 \in Ratio /\ r2 \in Ratio /\ Times(w, r1) = a /\ Times(w, r2) = b
  BY <1>1, <1>4, <1>5, DivideIs
<1>7. One \in Ratio /\ Times(r2, One) = r2
  BY <1>6, ZeroOne, ZeroOneLaws DEF Has
<1> DEFINE s == Times(r1, f)
<1>8. s \in Ratio /\ f2 = Plus(s, r2)
  BY <1>6, <1>7, RatioType
<1> HIDE DEF s
<1>9. f2 \in Ratio /\ Times(T, w) \in Ratio
  BY <1>5, <1>6, <1>8, RatioType
<1>10. Times(Times(T, w), r2) = c
  <2>1. Times(Times(T, w), r2) = Times(T, Times(w, r2))
    BY <1>5, <1>6, TimesAssociates
  <2> QED BY <1>2, <1>6, <2>1
<1>11. Times(Times(T, w), r1) = Times(T, a)
  <2>1. Times(Times(T, w), r1) = Times(T, Times(w, r1))
    BY <1>5, <1>6, TimesAssociates
  <2> QED BY <1>6, <2>1
<1>12. Times(T, a) = Times(v1, Times(T, w1))
  <2>1. Times(T, Times(v1, w1)) = Times(Times(T, v1), w1) /\ Times(Times(v1, T), w1) = Times(v1, Times(T, w1))
    BY TimesAssociates
  <2>2. Times(T, v1) = Times(v1, T)
    BY TimesCommutes
  <2> QED BY <2>1, <2>2 DEF a
<1>13. Times(r1, Times(T, w)) = Times(v1, Times(T, w1))
  BY <1>6, <1>9, <1>11, <1>12, TimesCommutes
<1>14. Times(Times(T, w), f2) = Plus(Times(Times(v1, Times(T, w1)), f), c)
  <2> DEFINE U == Times(T, w)
  <2>1. U \in Ratio /\ Times(U, r2) = c /\ Times(U, r1) = Times(v1, Times(T, w1))
    BY <1>9, <1>10, <1>11, <1>12
  <2> HIDE DEF U
  <2>2. Times(U, Plus(s, r2)) = Plus(Times(U, s), Times(U, r2))
    BY <1>6, <1>8, <2>1, TimesDistributes
  <2>3. Times(U, s) = Times(Times(U, r1), f)
    BY <1>6, <2>1, TimesAssociates DEF s
  <2>4. Times(U, f2) = Plus(Times(Times(v1, Times(T, w1)), f), c)
    BY <1>8, <2>1, <2>2, <2>3
  <2> QED BY <2>4 DEF U
<1> QED BY <1>5, <1>6, <1>9, <1>10, <1>13, <1>14

\* An arc of the pair's counts only.
LEMMA WeightsOfNew ==
  ASSUME NEW T \in Ratio, NEW v2 \in Ratio, NEW w2 \in Ratio,
         NEW c, c = Times(Times(T, v2), w2), c # Zero,
         NEW w, w = Times(v2, w2), NEW r1, r1 = Divide(One, w), NEW r2, r2 = Divide(w, w),
         NEW f2, f2 = Plus(Times(r1, Zero), Times(r2, One))
  PROVE  /\ w \in Ratio /\ r1 \in Ratio /\ r2 \in Ratio /\ f2 \in Ratio
         /\ Times(Times(T, w), r2) = c /\ Times(Times(T, w), f2) = c
<1>1. w \in Ratio /\ c = Times(T, w)
  BY RatioType, TimesAssociates
<1>2. w # Zero
  BY <1>1, ZeroOneLaws
<1>3. One \in Ratio /\ Zero \in Ratio
  BY ZeroOne DEF Has
<1>4. r1 \in Ratio /\ r2 \in Ratio /\ Times(w, r2) = w
  BY <1>1, <1>2, <1>3, DivideIs
<1>5. f2 = r2
  <2>1. Times(r1, Zero) = Zero /\ Times(r2, One) = r2
    BY <1>4, ZeroOneLaws
  <2> QED BY <1>4, <2>1, ZeroOneLaws
<1>6. Times(Times(T, w), r2) = c
  <2>1. Times(Times(T, w), r2) = Times(T, Times(w, r2))
    BY <1>1, <1>4, TimesAssociates
  <2> QED BY <1>1, <1>4, <2>1
<1> QED BY <1>1, <1>4, <1>5, <1>6

-----------------------------------------------------------------------------

\* Products in two tries.

\* If the weights after k are the same, then what the products to k differ by is
\* what those to any string after k differ by.
LEMMA ProductsScale ==
  ASSUME NEW n \in Nat, NEW t, IsTrie(t, n), Weighted(t), NEW u, IsTrie(u, n), Weighted(u),
         NEW k \in DOMAIN t, k \in DOMAIN u, NEW x \in Ratio, NEW y \in Ratio,
         Times(x, ProductTo(u, k)) = Times(y, ProductTo(t, k)),
         \A p \in DOMAIN t : Begins(k, p) /\ p # k => p \in DOMAIN u /\ u[p].weight = t[p].weight
  PROVE  \A p \in DOMAIN t : Begins(k, p) => Times(x, ProductTo(u, p)) = Times(y, ProductTo(t, p))
<1> DEFINE Wrong(p) == p \in DOMAIN t /\ Begins(k, p) /\ Times(x, ProductTo(u, p)) # Times(y, ProductTo(t, p))
           B == {j \in Nat : \E p : Wrong(p) /\ Len(p) = j}
<1>1. DOMAIN t \subseteq Seq(1 .. n) /\ k \in Seq(1 .. n) /\ \A p \in DOMAIN t : Len(p) \in Nat
  BY DEF IsTrie
<1> SUFFICES ASSUME B # {} PROVE FALSE
  <2>1. \A p : Wrong(p) => Len(p) \in B
    BY <1>1
  <2> QED BY <2>1
<1>2. PICK m \in B : \A j \in B : m <= j
  <2>1. B \in SUBSET Nat
    OBVIOUS
  <2> HIDE DEF B
  <2> QED BY <2>1, LeastNatural
<1>3. PICK p : Wrong(p) /\ Len(p) = m
  BY <1>2
<1>4. p # k /\ p \in Seq(1 .. n) /\ p \in DOMAIN u /\ u[p].weight = t[p].weight
  BY <1>1, <1>3
<1>5. p # Root
  <2>1. p = Root => Len(p) = 0
    BY EmptyFacts DEF Root
  <2>2. Len(k) \in Nat /\ Len(k) <= Len(p)
    BY <1>1, <1>3 DEF Begins
  <2>3. p = Root => k = p
    <3>1. p = Root => Len(k) = Len(p)
      BY <2>1, <2>2
    <3> QED BY <1>1, <1>3, <1>4, <3>1, SameSequence DEF Begins
  <2> QED BY <1>4, <2>3
<1> DEFINE q == Front(p)
           a == p[Len(p)]
<1>6. q \in Seq(1 .. n) /\ Len(q) = Len(p) - 1 /\ a \in 1 .. n /\ Append(q, a) = p
  <2>1. p # <<>>
    BY <1>5 DEF Root
  <2>2. /\ Front(p) \in Seq(1 .. n) /\ Len(Front(p)) = Len(p) - 1 /\ Last(p) \in 1 .. n
        /\ Last(p) = p[Len(p)] /\ Append(Front(p), Last(p)) = p
    BY <1>4, <2>1, FrontFacts
  <2> QED BY <2>2
<1> HIDE DEF a
<1>7. Begins(k, q)
  <2>1. Begins(k, Append(q, a)) /\ k # Append(q, a)
    BY <1>3, <1>4, <1>6
  <2>2. k \in Seq(1 .. n) /\ q \in Seq(1 .. n) /\ a \in 1 .. n
    BY <1>1, <1>6
  <2> HIDE DEF q
  <2>3. k = Append(q, a) \/ Begins(k, q)
    BY ONLY <2>1, <2>2, BeginsFacts
  <2> QED BY <2>1, <2>3
<1>8. q \in DOMAIN t /\ ProductTo(t, p) = Times(ProductTo(t, q), t[p].weight)
  BY <1>3, <1>5, ProductStep
<1>9. q \in DOMAIN u /\ ProductTo(u, p) = Times(ProductTo(u, q), u[p].weight)
  BY <1>4, <1>5, ProductStep
<1>10. Times(x, ProductTo(u, q)) = Times(y, ProductTo(t, q))
  <2> HIDE DEF q
  <2>1. ~ Wrong(q)
    <3> SUFFICES ASSUME Wrong(q) PROVE FALSE
      OBVIOUS
    <3>1. Len(q) \in B
      BY <1>1
    <3>2. Len(q) \in Nat /\ Len(p) \in Nat
      BY <1>1, <1>3
    <3> HIDE DEF B
    <3>3. m <= Len(q)
      BY <1>2, <3>1
    <3> QED BY <1>3, <1>6, <3>2, <3>3
  <2> QED BY <1>7, <1>8, <2>1
<1> DEFINE b == t[p].weight
           f == ProductTo(t, q)
           g == ProductTo(u, q)
<1>11. b \in Ratio /\ f \in Ratio /\ g \in Ratio
  BY <1>3, <1>8, <1>9, ProductStep DEF Weighted
<1>12. ProductTo(t, p) = Times(f, b) /\ ProductTo(u, p) = Times(g, b) /\ Times(x, g) = Times(y, f)
  BY <1>4, <1>8, <1>9, <1>10
<1> HIDE DEF b, f, g
<1>13. Times(x, Times(g, b)) = Times(Times(x, g), b) /\ Times(y, Times(f, b)) = Times(Times(y, f), b)
  BY <1>11, TimesAssociates
<1>14. Times(x, ProductTo(u, p)) = Times(y, ProductTo(t, p))
  BY <1>12, <1>13
<1> QED BY <1>3, <1>14

\* Products are the same but after at if the weights are.
LEMMA ProductsStay ==
  ASSUME NEW n \in Nat, NEW t, IsTrie(t, n), Weighted(t), NEW u, IsTrie(u, n), Weighted(u),
         NEW at \in Seq(1 .. n),
         \A p \in DOMAIN t : (Begins(at, p) => p = at) => p \in DOMAIN u /\ u[p].weight = t[p].weight
  PROVE  \A p \in DOMAIN t : (Begins(at, p) => p = at) => ProductTo(u, p) = ProductTo(t, p)
<1> DEFINE Apart(p) == Begins(at, p) => p = at
           Wrong(p) == p \in DOMAIN t /\ Apart(p) /\ ProductTo(u, p) # ProductTo(t, p)
           B == {j \in Nat : \E p : Wrong(p) /\ Len(p) = j}
<1>1. DOMAIN t \subseteq Seq(1 .. n) /\ \A p \in DOMAIN t : Len(p) \in Nat
  BY DEF IsTrie
<1> SUFFICES ASSUME B # {} PROVE FALSE
  <2>1. \A p : Wrong(p) => Len(p) \in B
    BY <1>1
  <2> QED BY <2>1
<1>2. PICK m \in B : \A j \in B : m <= j
  <2>1. B \in SUBSET Nat
    OBVIOUS
  <2> HIDE DEF B
  <2> QED BY <2>1, LeastNatural
<1>3. PICK p : Wrong(p) /\ Len(p) = m
  BY <1>2
<1>4. p \in Seq(1 .. n) /\ p \in DOMAIN u /\ u[p].weight = t[p].weight
  BY <1>1, <1>3
<1>5. p # Root
  <2> SUFFICES ASSUME p = Root PROVE FALSE
    OBVIOUS
  <2>1. p \in DOMAIN t /\ p \in DOMAIN u
    BY <1>3, <1>4
  <2>2. ProductTo(t, p) = One /\ ProductTo(u, p) = One
    BY <2>1, ProductStep
  <2> QED BY <1>3, <2>2
<1> DEFINE q == Front(p)
           a == p[Len(p)]
<1>6. q \in Seq(1 .. n) /\ Len(q) = Len(p) - 1 /\ a \in 1 .. n /\ Append(q, a) = p
  <2>1. p # <<>>
    BY <1>5 DEF Root
  <2>2. /\ Front(p) \in Seq(1 .. n) /\ Len(Front(p)) = Len(p) - 1 /\ Last(p) \in 1 .. n
        /\ Last(p) = p[Len(p)] /\ Append(Front(p), Last(p)) = p
    BY <1>4, <2>1, FrontFacts
  <2> QED BY <2>2
<1> HIDE DEF a
<1>7. Apart(q)
  <2> HIDE DEF q
  <2>1. Begins(q, p)
    BY <1>6, BeginsFacts
  <2> SUFFICES ASSUME Begins(at, q) PROVE q = at
    OBVIOUS
  <2>2. Begins(at, p)
    BY <1>4, <1>6, <2>1, BeginsFacts
  <2>3. p = at
    BY <1>3, <2>2
  <2>4. Len(at) <= Len(q)
    BY DEF Begins
  <2>5. Len(q) \in Nat /\ Len(p) \in Nat
    BY <1>4, <1>6
  <2> QED BY <1>6, <2>3, <2>4, <2>5
<1>8. q \in DOMAIN t /\ ProductTo(t, p) = Times(ProductTo(t, q), t[p].weight)
  BY <1>3, <1>5, ProductStep
<1>9. ProductTo(u, p) = Times(ProductTo(u, q), u[p].weight)
  BY <1>4, <1>5, ProductStep
<1>10. ProductTo(u, q) = ProductTo(t, q)
  <2> HIDE DEF q
  <2>1. ~ Wrong(q)
    <3> SUFFICES ASSUME Wrong(q) PROVE FALSE
      OBVIOUS
    <3>1. Len(q) \in B
      BY <1>1
    <3>2. Len(q) \in Nat /\ Len(p) \in Nat
      BY <1>1, <1>3
    <3> HIDE DEF B
    <3>3. m <= Len(q)
      BY <1>2, <3>1
    <3> QED BY <1>3, <1>6, <3>2, <3>3
  <2> QED BY <1>7, <1>8, <2>1
<1> QED BY <1>3, <1>4, <1>8, <1>9, <1>10

-----------------------------------------------------------------------------

\* The weights of a union, state by state.

\* p is properly below at; and p hangs on an arc of at.
Beneath(at, p) == Begins(at, p) /\ p # at
Kid(at, p) == p # Root /\ Front(p) = at

LEMMA KidFacts ==
  ASSUME NEW n, NEW at \in Seq(1 .. n), NEW p \in Seq(1 .. n)
  PROVE  /\ Kid(at, p) => /\ Beneath(at, p) /\ Len(p) = Len(at) + 1 /\ ~ Begins(p, at)
                          /\ p = Append(at, Last(p)) /\ Last(p) \in 1 .. n
         /\ \A l \in 1 .. n : Kid(at, Append(at, l)) /\ Append(at, l) \in Seq(1 .. n)
<1>0. Len(at) \in Nat /\ Len(p) \in Nat
  OBVIOUS
<1>1. ASSUME Kid(at, p)
      PROVE  /\ Beneath(at, p) /\ Len(p) = Len(at) + 1 /\ ~ Begins(p, at)
             /\ p = Append(at, Last(p)) /\ Last(p) \in 1 .. n
  <2>1. p # <<>> /\ Front(p) = at
    BY <1>1 DEF Kid, Root
  <2>2. Len(at) = Len(p) - 1 /\ Last(p) \in 1 .. n /\ p = Append(at, Last(p))
    BY <2>1, FrontFacts
  <2> DEFINE l == Last(p)
  <2>3. l \in 1 .. n /\ p = Append(at, l)
    BY <2>2
  <2> HIDE DEF l
  <2>4. Begins(at, Append(at, l))
    BY ONLY <2>3, at \in Seq(1 .. n), BeginsFacts
  <2>5. Len(p) = Len(at) + 1
    BY <1>0, <2>2
  <2>6. ~ Begins(p, at) /\ p # at
    BY <1>0, <2>5 DEF Begins
  <2> QED BY <2>2, <2>3, <2>4, <2>5, <2>6 DEF Beneath
<1>2. ASSUME NEW l \in 1 .. n PROVE Kid(at, Append(at, l)) /\ Append(at, l) \in Seq(1 .. n)
  <2> DEFINE L == 1 .. n
  <2>1. at \in Seq(L) /\ l \in L
    BY <1>2
  <2> HIDE DEF L
  <2>2. Append(at, l) \in Seq(L) /\ Append(at, l) # <<>> /\ Front(Append(at, l)) = at
    BY ONLY <2>1, AppendFacts
  <2> QED BY <2>2 DEF Kid, Root, L
<1> QED BY <1>1, <1>2

\* Between a state and one below it there is an arc of the former.
LEMMA WayDown ==
  ASSUME NEW n, NEW at \in Seq(1 .. n), NEW p \in Seq(1 .. n), Beneath(at, p)
  PROVE  \E k \in Seq(1 .. n) : Kid(at, k) /\ Begins(k, p)
<1> DEFINE l == p[Len(at) + 1]
           k == Append(at, l)
<1>1. l \in 1 .. n /\ Begins(k, p)
  BY BeginsFacts DEF Beneath
<1> HIDE DEF l
<1>2. Kid(at, k) /\ k \in Seq(1 .. n)
  BY <1>1, KidFacts
<1> QED BY <1>1, <1>2

\* What has the counts old before a pair, and what the pair's counts c have to do with
\* the weights of its trie.
Counts(t, g, old, c) ==
  /\ c[Root] = One
  /\ \A p \in DOMAIN g : p # Root =>
       /\ c[p] \in Ratio /\ c[p] # Zero /\ g[p].weight \in Ratio /\ g[p].final = One
       /\ c[p] = Times(c[Front(p)], g[p].weight)
  /\ \A p \in DOMAIN t : p \notin DOMAIN g => c[p] = Zero
  /\ \A p \in DOMAIN g : p \notin DOMAIN t => old[p] = Zero
  /\ \A p \in DOMAIN t \cup DOMAIN g : p # Root => old[p] \in Ratio

\* What is left for the arcs after p.
Rest1(t, e, p, w) == Divide(IF p \in DOMAIN t THEN Times(e.v1, t[p].weight) ELSE One, w)
Rest2(g, e, p, w) == Divide(Times(e.v2, g[p].weight), w)

\* The weights that a step of the union makes of those of t.
WeightStep(t, g, e, t2) ==
  /\ DOMAIN t2 = DOMAIN t \cup {p \in DOMAIN g : Kid(e.at, p)}
  /\ \A p \in DOMAIN t2 :
       /\ Kid(e.at, p) /\ p \in DOMAIN g =>
            /\ t2[p].weight = IF p \in DOMAIN t THEN Plus(Times(e.v1, t[p].weight), Times(e.v2, g[p].weight))
                              ELSE Times(e.v2, g[p].weight)
            /\ t2[p].final = Plus(Times(Rest1(t, e, p, t2[p].weight), IF p \in DOMAIN t THEN t[p].final ELSE Zero),
                                  Times(Rest2(g, e, p, t2[p].weight), g[p].final))
       /\ Kid(e.at, p) /\ p \notin DOMAIN g =>
            t2[p].weight = Times(e.v1, t[p].weight) /\ t2[p].final = t[p].final
       /\ ~ Kid(e.at, p) => t2[p].weight = t[p].weight /\ t2[p].final = t[p].final

\* What the element e says of the state it is for.
Holds(t, e, old, c) ==
  /\ e.v1 \in Ratio /\ e.v2 \in Ratio /\ Times(ProductTo(t, e.at), e.v2) = c[e.at]
  /\ \A p \in DOMAIN t : Beneath(e.at, p) => Times(Times(e.v1, ProductTo(t, p)), t[p].final) = old[p]

\* A step at the element e.
Stepping(t, g, e, t2, old, c, n) ==
  /\ IsTrie(t, n) /\ IsTrie(g, n) /\ IsTrie(t2, n) /\ Weighted(t)
  /\ e.at \in DOMAIN t /\ e.at \in DOMAIN g
  /\ Holds(t, e, old, c) /\ Counts(t, g, old, c) /\ WeightStep(t, g, e, t2)

\* An arc of both: what it weighs, and what is left.
LEMMA StepBoth ==
  ASSUME NEW n \in Nat, NEW t, NEW g, NEW e, NEW t2, NEW old, NEW c, Stepping(t, g, e, t2, old, c, n),
         NEW p \in DOMAIN t, p \in DOMAIN g, Kid(e.at, p),
         NEW T, T = ProductTo(t, e.at), NEW w, w = t2[p].weight,
         NEW r1, r1 = Rest1(t, e, p, w), NEW r2, r2 = Rest2(g, e, p, w)
  PROVE  /\ w \in Ratio /\ r1 \in Ratio /\ r2 \in Ratio /\ t2[p].final \in Ratio
         /\ Times(Times(T, w), r2) = c[p] /\ Times(r1, Times(T, w)) = Times(e.v1, ProductTo(t, p))
         /\ Times(Times(T, w), t2[p].final) = Plus(c[p], old[p])
<1>1. /\ IsTrie(t, n) /\ Weighted(t) /\ e.at \in DOMAIN t /\ e.at \in DOMAIN g
      /\ e.v1 \in Ratio /\ e.v2 \in Ratio /\ Times(T, e.v2) = c[e.at]
      /\ DOMAIN t \subseteq Seq(1 .. n)
  BY DEF Stepping, Holds, IsTrie
<1>2. p # Root /\ Front(p) = e.at /\ Beneath(e.at, p)
  <2>1. p \in Seq(1 .. n) /\ e.at \in Seq(1 .. n)
    BY <1>1
  <2> QED BY <2>1, KidFacts DEF Kid
<1>3. /\ c[p] \in Ratio /\ c[p] # Zero /\ g[p].weight \in Ratio /\ g[p].final = One
      /\ c[p] = Times(c[e.at], g[p].weight)
  BY <1>2 DEF Stepping, Counts
<1>4. p \in DOMAIN t2 /\ DOMAIN t \subseteq DOMAIN t2
  BY DEF Stepping, WeightStep
<1>5. /\ w = Plus(Times(e.v1, t[p].weight), Times(e.v2, g[p].weight))
      /\ t2[p].final = Plus(Times(r1, t[p].final), Times(r2, g[p].final))
  BY <1>4 DEF Stepping, WeightStep
<1>6. r1 = Divide(Times(e.v1, t[p].weight), w) /\ r2 = Divide(Times(e.v2, g[p].weight), w)
  BY DEF Rest1, Rest2
<1>7. t[p].weight \in Ratio /\ t[p].final \in Ratio /\ T \in Ratio
      /\ ProductTo(t, p) = Times(T, t[p].weight) /\ ProductTo(t, p) \in Ratio
  BY <1>1, <1>2, ProductStep DEF Weighted
<1>8. Times(Times(e.v1, ProductTo(t, p)), t[p].final) = old[p]
  BY <1>2 DEF Stepping, Holds
<1> DEFINE v1 == e.v1
           v2 == e.v2
           w1 == t[p].weight
           w2 == g[p].weight
           f == t[p].final
           f2 == t2[p].final
           d == c[p]
           o == old[p]
           P == ProductTo(t, p)
<1>9. /\ T \in Ratio /\ v1 \in Ratio /\ v2 \in Ratio /\ w1 \in Ratio /\ w2 \in Ratio /\ f \in Ratio
      /\ d = Times(Times(T, v2), w2) /\ d # Zero /\ w = Plus(Times(v1, w1), Times(v2, w2))
      /\ r1 = Divide(Times(v1, w1), w) /\ r2 = Divide(Times(v2, w2), w)
      /\ f2 = Plus(Times(r1, f), Times(r2, One))
  BY <1>1, <1>3, <1>5, <1>6, <1>7
<1>10. P = Times(T, w1) /\ P \in Ratio /\ Times(Times(v1, P), f) = o /\ d \in Ratio
  BY <1>3, <1>7, <1>8
<1> HIDE DEF v1, v2, w1, w2, f, f2, d, o, P
<1>11. /\ w \in Ratio /\ r1 \in Ratio /\ r2 \in Ratio /\ f2 \in Ratio
       /\ Times(Times(T, w), r2) = d /\ Times(r1, Times(T, w)) = Times(v1, Times(T, w1))
       /\ Times(Times(T, w), f2) = Plus(Times(Times(v1, Times(T, w1)), f), d)
  BY ONLY <1>9, WeightsOfBoth
<1>12. o \in Ratio
  BY <1>9, <1>10, RatioType
<1>13. Times(Times(T, w), f2) = Plus(d, o)
  BY <1>10, <1>11, <1>12, TimesCommutes
<1> QED BY <1>10, <1>11, <1>13 DEF v1, v2, w1, w2, f, f2, d, o, P

\* An arc of the pair only.
LEMMA StepNew ==
  ASSUME NEW n \in Nat, NEW t, NEW g, NEW e, NEW t2, NEW old, NEW c, Stepping(t, g, e, t2, old, c, n),
         NEW p \in DOMAIN g, p \notin DOMAIN t, Kid(e.at, p),
         NEW T, T = ProductTo(t, e.at), NEW w, w = t2[p].weight,
         NEW r1, r1 = Rest1(t, e, p, w), NEW r2, r2 = Rest2(g, e, p, w)
  PROVE  /\ w \in Ratio /\ r1 \in Ratio /\ r2 \in Ratio /\ t2[p].final \in Ratio
         /\ Times(Times(T, w), r2) = c[p]
         /\ Times(Times(T, w), t2[p].final) = Plus(c[p], old[p])
<1>1. /\ IsTrie(t, n) /\ IsTrie(g, n) /\ Weighted(t) /\ e.at \in DOMAIN t
      /\ e.v1 \in Ratio /\ e.v2 \in Ratio /\ Times(T, e.v2) = c[e.at]
  BY DEF Stepping, Holds
<1>2. p # Root /\ Front(p) = e.at
  BY DEF Kid
<1>3. /\ c[p] \in Ratio /\ c[p] # Zero /\ g[p].weight \in Ratio /\ g[p].final = One
      /\ c[p] = Times(c[e.at], g[p].weight) /\ old[p] = Zero
  BY <1>2 DEF Stepping, Counts
<1>4. p \in DOMAIN t2
  BY DEF Stepping, WeightStep
<1>5. /\ w = Times(e.v2, g[p].weight)
      /\ t2[p].final = Plus(Times(r1, Zero), Times(r2, g[p].final))
  BY <1>4 DEF Stepping, WeightStep
<1>6. r1 = Divide(One, w) /\ r2 = Divide(w, w)
  BY <1>5 DEF Rest1, Rest2
<1>7. T \in Ratio
  BY <1>1, ProductStep
<1> DEFINE v2 == e.v2
           w2 == g[p].weight
           f2 == t2[p].final
           d == c[p]
<1>9. /\ T \in Ratio /\ v2 \in Ratio /\ w2 \in Ratio
      /\ d = Times(Times(T, v2), w2) /\ d # Zero /\ w = Times(v2, w2)
      /\ r1 = Divide(One, w) /\ r2 = Divide(w, w)
      /\ f2 = Plus(Times(r1, Zero), Times(r2, One))
  BY <1>1, <1>3, <1>5, <1>6, <1>7
<1>10. d \in Ratio
  BY <1>3
<1> HIDE DEF v2, w2, f2, d
<1>11. /\ w \in Ratio /\ r1 \in Ratio /\ r2 \in Ratio /\ f2 \in Ratio
       /\ Times(Times(T, w), r2) = d /\ Times(Times(T, w), f2) = d
  BY ONLY <1>9, WeightsOfNew
<1>12. Plus(d, Zero) = d
  BY <1>10, ZeroOneLaws
<1> QED BY <1>3, <1>11, <1>12 DEF v2, w2, f2, d

\* An arc of the trie only.
LEMMA StepOld ==
  ASSUME NEW n \in Nat, NEW t, NEW g, NEW e, NEW t2, NEW old, NEW c, Stepping(t, g, e, t2, old, c, n),
         NEW p \in DOMAIN t, p \notin DOMAIN g, Kid(e.at, p),
         NEW T, T = ProductTo(t, e.at), NEW w, w = t2[p].weight
  PROVE  /\ w \in Ratio /\ t2[p].final \in Ratio /\ Times(T, w) = Times(e.v1, ProductTo(t, p))
<1>1. /\ IsTrie(t, n) /\ IsTrie(g, n) /\ Weighted(t) /\ e.at \in DOMAIN t /\ e.v1 \in Ratio
  BY DEF Stepping, Holds
<1>2. p # Root /\ Front(p) = e.at
  BY DEF Kid
<1>3. w = Times(e.v1, t[p].weight) /\ t2[p].final = t[p].final
  <2>1. p \in DOMAIN t2
    BY DEF Stepping, WeightStep
  <2> QED BY <2>1 DEF Stepping, WeightStep
<1>4. t[p].weight \in Ratio /\ t[p].final \in Ratio /\ T \in Ratio
      /\ ProductTo(t, p) = Times(T, t[p].weight)
  BY <1>1, <1>2, ProductStep DEF Weighted
<1> DEFINE v1 == e.v1
           w1 == t[p].weight
<1>5. v1 \in Ratio /\ w1 \in Ratio /\ w = Times(v1, w1) /\ T \in Ratio /\ ProductTo(t, p) = Times(T, w1)
  BY <1>1, <1>3, <1>4
<1> HIDE DEF v1, w1
<1>6. w \in Ratio
  BY <1>5, RatioType
<1>7. Times(T, Times(v1, w1)) = Times(v1, Times(T, w1))
  <2>1. Times(T, Times(v1, w1)) = Times(Times(T, v1), w1) /\ Times(Times(v1, T), w1) = Times(v1, Times(T, w1))
    BY <1>5, TimesAssociates
  <2>2. Times(T, v1) = Times(v1, T)
    BY <1>5, TimesCommutes
  <2> QED BY <2>1, <2>2
<1> QED BY <1>3, <1>4, <1>5, <1>6, <1>7 DEF v1

\* After a step the trie is typed.
LEMMA StepWeighted ==
  ASSUME NEW n \in Nat, NEW t, NEW g, NEW e, NEW t2, NEW old, NEW c, Stepping(t, g, e, t2, old, c, n)
  PROVE  Weighted(t2)
<1> SUFFICES ASSUME NEW p \in DOMAIN t2 PROVE t2[p].weight \in Ratio /\ t2[p].final \in Ratio
  BY DEF Weighted
<1>1. DOMAIN t2 = DOMAIN t \cup {x \in DOMAIN g : Kid(e.at, x)}
  BY DEF Stepping, WeightStep
<1>2. CASE Kid(e.at, p) /\ p \in DOMAIN g /\ p \in DOMAIN t
  <2>1. n \in Nat /\ Stepping(t, g, e, t2, old, c, n) /\ Kid(e.at, p) /\ p \in DOMAIN g /\ p \in DOMAIN t
    BY <1>2
  <2> QED BY ONLY <2>1, StepBoth
<1>3. CASE Kid(e.at, p) /\ p \in DOMAIN g /\ p \notin DOMAIN t
  BY <1>3, StepNew
<1>4. CASE Kid(e.at, p) /\ p \notin DOMAIN g
  <2>1. p \in DOMAIN t
    BY <1>1, <1>4
  <2> QED BY <1>4, <2>1, StepOld
<1>5. CASE ~ Kid(e.at, p)
  <2>1. p \in DOMAIN t
    BY <1>1, <1>5
  <2>2. t2[p].weight = t[p].weight /\ t2[p].final = t[p].final
    BY <1>5 DEF Stepping, WeightStep
  <2> QED BY <2>1, <2>2 DEF Stepping, Weighted
<1> QED BY <1>2, <1>3, <1>4, <1>5

\* It is the same but beneath the state of the step.
LEMMA StepStays ==
  ASSUME NEW n \in Nat, NEW t, NEW g, NEW e, NEW t2, NEW old, NEW c, Stepping(t, g, e, t2, old, c, n),
         NEW p \in DOMAIN t, ~ Beneath(e.at, p)
  PROVE  p \in DOMAIN t2 /\ ProductTo(t2, p) = ProductTo(t, p) /\ t2[p].final = t[p].final
<1>1. /\ IsTrie(t, n) /\ IsTrie(t2, n) /\ Weighted(t) /\ Weighted(t2)
      /\ e.at \in Seq(1 .. n) /\ DOMAIN t \subseteq Seq(1 .. n)
  BY StepWeighted DEF Stepping, IsTrie
<1>2. ASSUME NEW x \in DOMAIN t, Begins(e.at, x) => x = e.at
      PROVE  x \in DOMAIN t2 /\ t2[x].weight = t[x].weight /\ t2[x].final = t[x].final
  <2>1. ~ Beneath(e.at, x)
    BY <1>2 DEF Beneath
  <2>2. ~ Kid(e.at, x)
    <3>1. x \in Seq(1 .. n)
      BY <1>1
    <3> QED BY <1>1, <2>1, <3>1, KidFacts
  <2>3. x \in DOMAIN t2
    BY DEF Stepping, WeightStep
  <2> QED BY <2>2, <2>3 DEF Stepping, WeightStep
<1>3. Begins(e.at, p) => p = e.at
  BY DEF Beneath
<1> DEFINE at == e.at
<1>4. at \in Seq(1 .. n) /\ \A x \in DOMAIN t : (Begins(at, x) => x = at) => x \in DOMAIN t2 /\ t2[x].weight = t[x].weight
  BY <1>1, <1>2
<1>5. Begins(at, p) => p = at
  BY <1>3
<1> HIDE DEF at
<1>6. ProductTo(t2, p) = ProductTo(t, p)
  <2>1. n \in Nat /\ IsTrie(t, n) /\ IsTrie(t2, n) /\ Weighted(t) /\ Weighted(t2)
    BY <1>1
  <2>2. \A x \in DOMAIN t : (Begins(at, x) => x = at) => ProductTo(t2, x) = ProductTo(t, x)
    BY ONLY <1>4, <2>1, ProductsStay
  <2> QED BY <1>5, <2>2
<1> QED BY <1>2, <1>3, <1>6

\* To a state right beneath it.
LEMMA StepKid ==
  ASSUME NEW n \in Nat, NEW t, NEW g, NEW e, NEW t2, NEW old, NEW c, Stepping(t, g, e, t2, old, c, n),
         NEW p \in DOMAIN t2, Kid(e.at, p)
  PROVE  ProductTo(t2, p) = Times(ProductTo(t, e.at), t2[p].weight)
<1>1. IsTrie(t2, n) /\ Weighted(t2) /\ e.at \in DOMAIN t
  BY StepWeighted DEF Stepping
<1>2. p # Root /\ Front(p) = e.at
  BY DEF Kid
<1>3. ProductTo(t2, p) = Times(ProductTo(t2, e.at), t2[p].weight)
  BY <1>1, <1>2, ProductStep
<1>4. ~ Beneath(e.at, e.at)
  BY DEF Beneath
<1>5. ProductTo(t2, e.at) = ProductTo(t, e.at)
  BY <1>1, <1>4, StepStays
<1> QED BY <1>3, <1>5

\* What is beneath a state right beneath it.
LEMMA StepBeneath ==
  ASSUME NEW n \in Nat, NEW t, NEW g, NEW e, NEW t2, NEW old, NEW c, Stepping(t, g, e, t2, old, c, n),
         NEW k \in DOMAIN t2, Kid(e.at, k), NEW p \in DOMAIN t2, Beneath(k, p)
  PROVE  /\ p \in DOMAIN t /\ k \in DOMAIN t /\ Beneath(e.at, p)
         /\ t2[p].weight = t[p].weight /\ t2[p].final = t[p].final
<1>1. /\ IsTrie(t, n) /\ IsTrie(t2, n) /\ e.at \in Seq(1 .. n) /\ k \in Seq(1 .. n) /\ p \in Seq(1 .. n)
  BY DEF Stepping, IsTrie
<1>2. Beneath(e.at, k) /\ Len(k) = Len(e.at) + 1 /\ ~ Begins(k, e.at)
  BY <1>1, KidFacts
<1>3. Begins(e.at, k) /\ Begins(k, p) /\ p # k
  BY <1>2 DEF Beneath
<1>4. Begins(e.at, p)
  BY <1>1, <1>3, BeginsFacts
<1>5. p # e.at
  BY <1>2, <1>3
<1>6. Len(k) < Len(p)
  BY <1>1, <1>3, BeginsFacts
<1>7. ~ Kid(e.at, p)
  <2>1. Kid(e.at, p) => Len(p) = Len(e.at) + 1
    BY <1>1, KidFacts
  <2>2. Len(p) \in Nat /\ Len(k) \in Nat
    BY <1>1
  <2> QED BY <1>2, <1>6, <2>1, <2>2
<1>8. p \in DOMAIN t /\ t2[p].weight = t[p].weight /\ t2[p].final = t[p].final
  BY <1>7 DEF Stepping, WeightStep
<1>9. k \in DOMAIN t
  BY <1>1, <1>3, <1>8, TrieBeginnings
<1> QED BY <1>4, <1>5, <1>8, <1>9 DEF Beneath

\* What products beneath it are, given what that to the state right beneath is.
LEMMA StepScales ==
  ASSUME NEW n \in Nat, NEW t, NEW g, NEW e, NEW t2, NEW old, NEW c, Stepping(t, g, e, t2, old, c, n),
         NEW k \in DOMAIN t2, Kid(e.at, k), k \in DOMAIN t, NEW x \in Ratio,
         Times(x, ProductTo(t2, k)) = Times(e.v1, ProductTo(t, k)),
         NEW p \in DOMAIN t2, Beneath(k, p)
  PROVE  Times(Times(x, ProductTo(t2, p)), t2[p].final) = old[p]
<1>1. /\ IsTrie(t, n) /\ IsTrie(t2, n) /\ Weighted(t) /\ Weighted(t2) /\ e.v1 \in Ratio
  BY StepWeighted DEF Stepping, Holds
<1>2. /\ p \in DOMAIN t /\ Beneath(e.at, p) /\ t2[p].final = t[p].final
  BY StepBeneath
<1>3. ASSUME NEW q \in DOMAIN t, Begins(k, q), q # k PROVE q \in DOMAIN t2 /\ t2[q].weight = t[q].weight
  <2>1. q \in DOMAIN t2 /\ Beneath(k, q)
    BY <1>3 DEF Stepping, WeightStep, Beneath
  <2> QED BY <2>1, StepBeneath
<1> DEFINE y == e.v1
<1>4. /\ y \in Ratio /\ Times(x, ProductTo(t2, k)) = Times(y, ProductTo(t, k))
      /\ \A q \in DOMAIN t : Begins(k, q) /\ q # k => q \in DOMAIN t2 /\ t2[q].weight = t[q].weight
  BY <1>1, <1>3
<1> HIDE DEF y
<1>5. Times(x, ProductTo(t2, p)) = Times(y, ProductTo(t, p))
  <2>1. \A q \in DOMAIN t : Begins(k, q) => Times(x, ProductTo(t2, q)) = Times(y, ProductTo(t, q))
    BY <1>1, <1>4, ProductsScale
  <2> QED BY <1>2, <2>1 DEF Beneath
<1>6. Times(Times(e.v1, ProductTo(t, p)), t[p].final) = old[p]
  BY <1>2 DEF Stepping, Holds
<1> QED BY <1>2, <1>5, <1>6 DEF y

\* The queue after a step: what was behind the first element, and the elements of
\* the arcs of the pair.
QueueStep(t, g, s, t2, s2) ==
  /\ \A i \in 1 .. Len(s2) :
       \/ \E j \in 2 .. Len(s) : s2[i] = s[j]
       \/ \E p \in DOMAIN g : /\ Kid(s[1].at, p) /\ s2[i].at = p
                              /\ s2[i].v1 = Rest1(t, s[1], p, t2[p].weight)
                              /\ s2[i].v2 = Rest2(g, s[1], p, t2[p].weight)
  /\ \A j \in 2 .. Len(s) : \E i \in 1 .. Len(s2) : s2[i] = s[j]
  /\ \A p \in DOMAIN g : Kid(s[1].at, p) => \E i \in 1 .. Len(s2) : s2[i].at = p

\* What a union under way weighs: beneath a state that is queued the counts before,
\* but for what is left of the arcs to it; anywhere else the pair's counts more.
Weighs(t, s, old, c) ==
  /\ Weighted(t)
  /\ \A i \in 1 .. Len(s) : Holds(t, s[i], old, c)
  /\ \A p \in DOMAIN t : p # Root /\ (\A i \in 1 .. Len(s) : ~ Beneath(s[i].at, p)) =>
       Times(ProductTo(t, p), t[p].final) = Plus(c[p], old[p])

\* Two states of which neither begins the other have nothing beneath both.
LEMMA Unrelated ==
  ASSUME NEW n, NEW a \in Seq(1 .. n), NEW b \in Seq(1 .. n), ~ Begins(a, b), ~ Begins(b, a)
  PROVE  ~ Beneath(a, b) /\ \A p \in Seq(1 .. n) : ~ (Beneath(a, p) /\ Beneath(b, p))
BY BeginsFacts DEF Beneath

LEMMA ElementStays ==
  ASSUME NEW n \in Nat, NEW t, NEW g, NEW e, NEW t2, NEW old, NEW c, Stepping(t, g, e, t2, old, c, n),
         NEW d, Holds(t, d, old, c), d.at \in DOMAIN t, ~ Begins(e.at, d.at), ~ Begins(d.at, e.at)
  PROVE  Holds(t2, d, old, c)
<1>1. e.at \in Seq(1 .. n) /\ d.at \in Seq(1 .. n) /\ DOMAIN t \subseteq Seq(1 .. n) /\ DOMAIN t2 \subseteq Seq(1 .. n)
  BY DEF Stepping, IsTrie
<1>2. ~ Beneath(e.at, d.at) /\ \A p \in Seq(1 .. n) : ~ (Beneath(e.at, p) /\ Beneath(d.at, p))
  BY <1>1, Unrelated
<1>3. ProductTo(t2, d.at) = ProductTo(t, d.at)
  BY <1>2, StepStays
<1>4. ASSUME NEW p \in DOMAIN t2, Beneath(d.at, p)
      PROVE  Times(Times(d.v1, ProductTo(t2, p)), t2[p].final) = old[p]
  <2>1. ~ Beneath(e.at, p)
    BY <1>1, <1>2, <1>4
  <2>2. p \in DOMAIN t
    <3>1. ~ Kid(e.at, p)
      BY <1>1, <2>1, KidFacts
    <3> QED BY <3>1 DEF Stepping, WeightStep
  <2>3. ProductTo(t2, p) = ProductTo(t, p) /\ t2[p].final = t[p].final
    BY <2>1, <2>2, StepStays
  <2> QED BY <1>4, <2>2, <2>3 DEF Holds
<1> QED BY <1>3, <1>4 DEF Holds

LEMMA ElementEnters ==
  ASSUME NEW n \in Nat, NEW t, NEW g, NEW e, NEW t2, NEW old, NEW c, Stepping(t, g, e, t2, old, c, n),
         NEW p \in DOMAIN g, Kid(e.at, p), NEW d, d.at = p,
         d.v1 = Rest1(t, e, p, t2[p].weight), d.v2 = Rest2(g, e, p, t2[p].weight)
  PROVE  Holds(t2, d, old, c)
<1> DEFINE T == ProductTo(t, e.at)
           w == t2[p].weight
           r1 == Rest1(t, e, p, w)
           r2 == Rest2(g, e, p, w)
<1>1. p \in DOMAIN t2 /\ d.v1 = r1 /\ d.v2 = r2
  BY DEF Stepping, WeightStep
<1>2. ProductTo(t2, p) = Times(T, w)
  BY <1>1, StepKid
<1>3. r1 \in Ratio /\ r2 \in Ratio /\ Times(Times(T, w), r2) = c[p]
  <2>1. CASE p \in DOMAIN t
    <3>1. n \in Nat /\ Stepping(t, g, e, t2, old, c, n) /\ Kid(e.at, p) /\ p \in DOMAIN g /\ p \in DOMAIN t
      BY <2>1
    <3> QED BY ONLY <3>1, StepBoth
  <2>2. CASE p \notin DOMAIN t
    <3>1. n \in Nat /\ Stepping(t, g, e, t2, old, c, n) /\ Kid(e.at, p) /\ p \in DOMAIN g /\ p \notin DOMAIN t
      BY <2>2
    <3> QED BY ONLY <3>1, StepNew
  <2> QED BY <2>1, <2>2
<1>4. ASSUME NEW q \in DOMAIN t2, Beneath(p, q)
      PROVE  Times(Times(r1, ProductTo(t2, q)), t2[q].final) = old[q]
  <2>1. p \in DOMAIN t
    BY <1>1, <1>4, StepBeneath
  <2>2. Times(r1, Times(T, w)) = Times(e.v1, ProductTo(t, p))
    <3>1. n \in Nat /\ Stepping(t, g, e, t2, old, c, n) /\ Kid(e.at, p) /\ p \in DOMAIN g /\ p \in DOMAIN t
      BY <2>1
    <3> QED BY ONLY <3>1, StepBoth
  <2>3. r1 \in Ratio /\ Times(r1, ProductTo(t2, p)) = Times(e.v1, ProductTo(t, p))
    BY <1>2, <1>3, <2>2
  <2> HIDE DEF r1
  <2> QED BY <1>1, <1>4, <2>1, <2>3, StepScales
<1> HIDE DEF T, w, r1, r2
<1> QED BY <1>1, <1>2, <1>3, <1>4 DEF Holds

\* What a state weighs that a step settles.
LEMMA KidSettles ==
  ASSUME NEW n \in Nat, NEW t, NEW g, NEW e, NEW t2, NEW old, NEW c, Stepping(t, g, e, t2, old, c, n),
         NEW p \in DOMAIN t2, Kid(e.at, p), p \in DOMAIN g
  PROVE  Times(ProductTo(t2, p), t2[p].final) = Plus(c[p], old[p])
<1> DEFINE T == ProductTo(t, e.at)
           w == t2[p].weight
<1>1. ProductTo(t2, p) = Times(T, w)
  BY StepKid
<1>2. Times(Times(T, w), t2[p].final) = Plus(c[p], old[p])
  <2>1. CASE p \in DOMAIN t
    <3>1. n \in Nat /\ Stepping(t, g, e, t2, old, c, n) /\ Kid(e.at, p) /\ p \in DOMAIN g /\ p \in DOMAIN t
      BY <2>1
    <3> QED BY ONLY <3>1, StepBoth
  <2>2. CASE p \notin DOMAIN t
    <3>1. n \in Nat /\ Stepping(t, g, e, t2, old, c, n) /\ Kid(e.at, p) /\ p \in DOMAIN g /\ p \notin DOMAIN t
      BY <2>2
    <3> QED BY ONLY <3>1, StepNew
  <2> QED BY <2>1, <2>2
<1> QED BY <1>1, <1>2

\* Nor has the pair the n-grams beneath an arc of the trie only.
LEMMA OldSettles ==
  ASSUME NEW n \in Nat, NEW t, NEW g, NEW e, NEW t2, NEW old, NEW c, Stepping(t, g, e, t2, old, c, n),
         NEW k \in DOMAIN t2, Kid(e.at, k), k \notin DOMAIN g, NEW p \in DOMAIN t2, Begins(k, p)
  PROVE  Times(ProductTo(t2, p), t2[p].final) = Plus(c[p], old[p])
<1>1. /\ IsTrie(t, n) /\ IsTrie(g, n) /\ IsTrie(t2, n) /\ Weighted(t) /\ Weighted(t2) /\ e.v1 \in Ratio
      /\ e.at \in Seq(1 .. n) /\ DOMAIN t2 \subseteq Seq(1 .. n) /\ DOMAIN g \subseteq Seq(1 .. n)
  <2>1. Weighted(t2)
    BY StepWeighted
  <2>2. IsTrie(t, n) /\ IsTrie(g, n) /\ IsTrie(t2, n) /\ Weighted(t) /\ e.v1 \in Ratio /\ e.at \in DOMAIN t
    BY DEF Stepping, Holds
  <2>3. e.at \in Seq(1 .. n) /\ DOMAIN t2 \subseteq Seq(1 .. n) /\ DOMAIN g \subseteq Seq(1 .. n)
    BY <2>2 DEF IsTrie
  <2> QED BY <2>1, <2>2, <2>3
<1>2. k \in DOMAIN t /\ Beneath(e.at, k)
  <2>1. k \in DOMAIN t
    BY DEF Stepping, WeightStep
  <2> QED BY <1>1, <2>1, KidFacts
<1>3. ProductTo(t2, k) = Times(e.v1, ProductTo(t, k))
  <2>1. ProductTo(t2, k) = Times(ProductTo(t, e.at), t2[k].weight)
    BY StepKid
  <2>2. n \in Nat /\ Stepping(t, g, e, t2, old, c, n) /\ Kid(e.at, k) /\ k \notin DOMAIN g /\ k \in DOMAIN t
    BY <1>2
  <2>3. Times(ProductTo(t, e.at), t2[k].weight) = Times(e.v1, ProductTo(t, k))
    BY ONLY <2>2, StepOld
  <2> QED BY <2>1, <2>3
<1>4. /\ One \in Ratio /\ ProductTo(t2, k) \in Ratio /\ ProductTo(t2, p) \in Ratio
      /\ Times(One, ProductTo(t2, p)) = ProductTo(t2, p)
      /\ Times(One, ProductTo(t2, k)) = ProductTo(t2, k)
  <2>1. One \in Ratio
    BY ZeroOne DEF Has
  <2>2. ProductTo(t2, k) \in Ratio /\ ProductTo(t2, p) \in Ratio
    BY <1>1, ProductStep
  <2> QED BY <2>1, <2>2, ZeroOneLaws
<1>5. Times(ProductTo(t2, p), t2[p].final) = old[p] /\ p \in DOMAIN t
  <2>1. CASE p = k
    <3>1. t2[k].final = t[k].final
      BY DEF Stepping, WeightStep
    <3>2. Times(Times(e.v1, ProductTo(t, k)), t[k].final) = old[k]
      BY <1>2 DEF Stepping, Holds
    <3> QED BY <1>2, <1>3, <2>1, <3>1, <3>2
  <2>2. CASE p # k
    <3>1. Beneath(k, p)
      BY <2>2 DEF Beneath
    <3>2. Times(One, ProductTo(t2, k)) = Times(e.v1, ProductTo(t, k))
      BY <1>3, <1>4
    <3> DEFINE x == One
    <3>a. x \in Ratio /\ Times(x, ProductTo(t2, k)) = Times(e.v1, ProductTo(t, k)) /\ k \in DOMAIN t
      BY <1>2, <1>4, <3>2
    <3> HIDE DEF x
    <3>b. Times(Times(x, ProductTo(t2, p)), t2[p].final) = old[p]
      BY <3>1, <3>a, StepScales
    <3>3. Times(Times(One, ProductTo(t2, p)), t2[p].final) = old[p]
      BY <3>b DEF x
    <3>4. p \in DOMAIN t
      BY <3>1, StepBeneath
    <3> QED BY <1>4, <3>3, <3>4
  <2> QED BY <2>1, <2>2
<1>6. c[p] = Zero
  <2>1. p \notin DOMAIN g
    BY <1>1, TrieBeginnings
  <2> QED BY <1>5, <2>1 DEF Stepping, Counts
<1>7. old[p] \in Ratio
  <2>1. t2[p].final \in Ratio
    BY <1>1 DEF Weighted
  <2> QED BY <1>4, <1>5, <2>1, RatioType
<1> QED BY <1>5, <1>6, <1>7, ZeroOneLaws

\* A step keeps it.
LEMMA WeighsStep ==
  ASSUME NEW n \in Nat, NEW t, NEW g, NEW s, NEW t2, NEW s2, NEW old, NEW c,
         IsTrie(t, n), IsTrie(g, n), IsTrie(t2, n), Len(s) \in Nat, Len(s) > 0,
         \A i \in 1 .. Len(s) : s[i].at \in DOMAIN t /\ s[i].at \in DOMAIN g,
         \A i, j \in 1 .. Len(s) : i # j => ~ Begins(s[i].at, s[j].at),
         Counts(t, g, old, c), WeightStep(t, g, s[1], t2), QueueStep(t, g, s, t2, s2),
         Weighs(t, s, old, c)
  PROVE  Weighs(t2, s2, old, c)
<1> DEFINE e == s[1]
<1>1. 1 \in 1 .. Len(s) /\ \A j \in 2 .. Len(s) : j \in 1 .. Len(s) /\ j # 1
  OBVIOUS
<1>2. Stepping(t, g, e, t2, old, c, n)
  BY <1>1 DEF Stepping, Weighs
<1>3. Weighted(t2)
  BY <1>2, StepWeighted
<1>4. e.at \in Seq(1 .. n) /\ DOMAIN t2 \subseteq Seq(1 .. n)
  BY <1>1 DEF IsTrie
<1> HIDE DEF e
<1>5. ASSUME NEW i \in 1 .. Len(s2) PROVE Holds(t2, s2[i], old, c)
  <2>1. ASSUME NEW j \in 2 .. Len(s), s2[i] = s[j] PROVE Holds(t2, s2[i], old, c)
    <3>1. Holds(t, s[j], old, c) /\ s[j].at \in DOMAIN t /\ ~ Begins(e.at, s[j].at) /\ ~ Begins(s[j].at, e.at)
      BY <1>1 DEF Weighs, e
    <3> QED BY <1>2, <2>1, <3>1, ElementStays
  <2>2. ASSUME NEW p \in DOMAIN g, Kid(e.at, p), s2[i].at = p,
               s2[i].v1 = Rest1(t, e, p, t2[p].weight), s2[i].v2 = Rest2(g, e, p, t2[p].weight)
        PROVE  Holds(t2, s2[i], old, c)
    BY <1>2, <2>2, ElementEnters
  <2> QED BY <2>1, <2>2 DEF QueueStep, e
<1>6. ASSUME NEW p \in DOMAIN t2, p # Root, \A i \in 1 .. Len(s2) : ~ Beneath(s2[i].at, p)
      PROVE  Times(ProductTo(t2, p), t2[p].final) = Plus(c[p], old[p])
  <2>1. p \in Seq(1 .. n)
    BY <1>4
  <2>2. CASE Kid(e.at, p) /\ p \in DOMAIN g
    BY <1>2, <2>2, KidSettles
  <2>3. CASE Kid(e.at, p) /\ p \notin DOMAIN g
    <3>1. Begins(p, p)
      BY <2>1, BeginsFacts
    <3> QED BY <1>2, <2>3, <3>1, OldSettles
  <2>4. CASE ~ Kid(e.at, p) /\ Beneath(e.at, p)
    <3>1. PICK k \in Seq(1 .. n) : Kid(e.at, k) /\ Begins(k, p)
      BY <1>4, <2>1, <2>4, WayDown
    <3>2. k \in DOMAIN t2 /\ p # k
      BY <2>4, <3>1, TrieBeginnings
    <3>3. k \notin DOMAIN g
      <4>1. ASSUME k \in DOMAIN g PROVE FALSE
        <5>1. \E i \in 1 .. Len(s2) : s2[i].at = k
          BY <3>1, <4>1 DEF QueueStep, e
        <5>2. Beneath(k, p)
          BY <3>1, <3>2 DEF Beneath
        <5> QED BY <1>6, <5>1, <5>2
      <4> QED BY <4>1
    <3> QED BY <1>2, <3>1, <3>2, <3>3, OldSettles
  <2>5. CASE ~ Beneath(e.at, p)
    <3>1. ~ Kid(e.at, p)
      BY <1>4, <2>1, <2>5, KidFacts
    <3>2. p \in DOMAIN t
      BY <3>1 DEF WeightStep, e
    <3>3. \A i \in 1 .. Len(s) : ~ Beneath(s[i].at, p)
      <4> SUFFICES ASSUME NEW j \in 1 .. Len(s), j # 1 PROVE ~ Beneath(s[j].at, p)
        BY <2>5 DEF e
      <4>1. j \in 2 .. Len(s)
        OBVIOUS
      <4>2. \E i \in 1 .. Len(s2) : s2[i] = s[j]
        BY <4>1 DEF QueueStep
      <4> QED BY <1>6, <4>2
    <3>4. Times(ProductTo(t, p), t[p].final) = Plus(c[p], old[p])
      BY <1>6, <3>2, <3>3 DEF Weighs
    <3>5. ProductTo(t2, p) = ProductTo(t, p) /\ t2[p].final = t[p].final
      BY <1>2, <2>5, <3>2, StepStays
    <3> QED BY <3>4, <3>5
  <2> QED BY <2>2, <2>3, <2>4, <2>5
<1> QED BY <1>3, <1>5, <1>6 DEF Weighs

\* The counts of a pair, and of the first k pairs.
CountsOf(lattice, n) == [p \in Seq(1 .. n) |-> IF p = Root THEN One ELSE ExpectedCount(p, lattice)]
CountsBefore(ls, k, n) == [p \in Seq(1 .. n) |-> Total(p, ls, k)]

\* The first of three that holds.
LEMMA FirstCase ==
  ASSUME NEW p, NEW k, NEW a, NEW b, NEW c, k = 1 => p # <<>>
  PROVE  (CASE p = <<>> -> a [] k = 1 -> b [] OTHER -> c) = IF p = <<>> THEN a ELSE IF k = 1 THEN b ELSE c
OBVIOUS

\* The weights of a pair's trie are such that the products of them are its counts.
LEMMA CountedWeights ==
  ASSUME NEW n \in Nat, NEW lattice \in SUBSET Seq(1 .. n), IsFiniteSet(lattice), lattice # {},
         CountOrder \in Nat, NEW g, g = CountNgrams(lattice), NEW c, c = CountsOf(lattice, n)
  PROVE  /\ c[Root] = One
         /\ \A p \in DOMAIN g : p # Root =>
              /\ c[p] \in Ratio /\ c[p] # Zero /\ g[p].weight \in Ratio /\ g[p].final = One
              /\ c[p] = Times(c[Front(p)], g[p].weight)
         /\ \A p \in Seq(1 .. n) : Len(p) \in 1 .. CountOrder => c[p] \in Ratio /\ (p \notin DOMAIN g => c[p] = Zero)
<1> DEFINE G == NgramsOf(lattice, CountOrder)
           f == [p \in G |-> ExpectedCount(p, lattice)]
           count == Tabulated(f)
           w(p) == CASE p = <<>> -> One
                     [] Len(p) = 1 -> count[p]
                     [] OTHER -> Divide(count[p], count[Front(p)])
<1>1. g = [p \in G \cup {<<>>} |-> [labels |-> LabelsAfter(p, G), weight |-> w(p),
                                     final |-> IF p = <<>> THEN Zero ELSE One]]
  BY Zenon DEF CountNgrams
<1>2. G \in SUBSET Seq(1 .. n) /\ \A p \in G : Len(p) \in 1 .. CountOrder
  BY NgramsSay
<1>3. /\ Root \in Seq(1 .. n) /\ c[Root] = One
      /\ \A p \in Seq(1 .. n) : p # Root => c[p] = ExpectedCount(p, lattice)
  BY EmptyFacts DEF CountsOf, Root
<1>4. ASSUME NEW p \in Seq(1 .. n), Len(p) \in 1 .. CountOrder
      PROVE  p # Root /\ c[p] \in Ratio /\ (c[p] = Zero <=> p \notin G)
  <2>1. p # Root
    <3>1. Len(p) # 0
      BY <1>4
    <3> QED BY <3>1, EmptyFacts DEF Root
  <2>2. ExpectedCount(p, lattice) \in Ratio /\ (ExpectedCount(p, lattice) = Zero <=> p \notin G)
    BY <1>4, ExpectedCountIs
  <2> QED BY <1>3, <2>1, <2>2
<1>5. \A p \in G : count[p] = c[p] /\ p # Root
  <2>1. count = f
    BY TabulatedIs
  <2> HIDE DEF count, G
  <2>2. \A p \in G : f[p] = ExpectedCount(p, lattice)
    OBVIOUS
  <2> QED BY <1>2, <1>3, <1>4, <2>1, <2>2
<1> HIDE DEF f, count
<1>6. DOMAIN g = G \cup {Root} /\ \A p \in G : g[p].weight = w(p) /\ g[p].final = One
  <2> HIDE DEF w, G
  <2>1. \A p \in G : p # <<>>
    BY <1>5 DEF Root
  <2> QED BY <1>1, <2>1 DEF Root
<1>7. ASSUME NEW p \in G
      PROVE  /\ c[p] \in Ratio /\ c[p] # Zero /\ g[p].weight \in Ratio
             /\ c[p] = Times(c[Front(p)], g[p].weight)
  <2>1. p \in Seq(1 .. n) /\ Len(p) \in 1 .. CountOrder /\ p # <<>> /\ Len(p) \in Nat /\ Len(p) > 0
    BY <1>2, <1>4 DEF Root
  <2>2. c[p] \in Ratio /\ c[p] # Zero
    BY <1>4, <2>1
  <2>3. g[p].weight = IF Len(p) = 1 THEN count[p] ELSE Divide(count[p], count[Front(p)])
    <3>1. w(p) = IF p = <<>> THEN One ELSE IF Len(p) = 1 THEN count[p] ELSE Divide(count[p], count[Front(p)])
      BY <2>1, FirstCase
    <3> HIDE DEF w
    <3> QED BY <1>6, <2>1, <3>1
  <2>4. Front(p) \in Seq(1 .. n) /\ Len(Front(p)) = Len(p) - 1
    BY <2>1, FrontFacts
  <2>5. CASE Len(p) = 1
    <3>1. Front(p) = Root
      <4>1. Len(Front(p)) = 0
        BY <2>4, <2>5
      <4> QED BY <2>4, <4>1, EmptyFacts DEF Root
    <3>2. g[p].weight = c[p]
      BY <1>5, <2>3, <2>5
    <3> QED BY <1>3, <2>2, <3>1, <3>2, ZeroOneLaws
  <2>6. CASE Len(p) # 1
    <3>1. Len(p) > 1
      <4>1. \A k \in Nat : k > 0 /\ k # 1 => k > 1
        OBVIOUS
      <4> QED BY <2>1, <2>6, <4>1
    <3>2. Front(p) \in G
      <4>1. p \in NgramsOf(lattice, CountOrder) /\ CountOrder \in Nat /\ lattice \in SUBSET Seq(1 .. n) /\ Len(p) > 1
        BY <3>1
      <4>2. Front(p) \in NgramsOf(lattice, CountOrder)
        BY ONLY <4>1, NgramsClosed
      <4> QED BY <4>2
    <3>3. c[Front(p)] \in Ratio /\ c[Front(p)] # Zero /\ g[p].weight = Divide(c[p], c[Front(p)])
      <4>1. Front(p) \in Seq(1 .. n) /\ Len(Front(p)) \in 1 .. CountOrder
        BY <1>2, <3>2
      <4>2. c[Front(p)] \in Ratio /\ c[Front(p)] # Zero
        BY <1>4, <3>2, <4>1
      <4> QED BY <1>5, <2>3, <2>6, <3>2, <4>2
    <3> DEFINE x == c[p]
               y == c[Front(p)]
    <3>4. x \in Ratio /\ y \in Ratio /\ y # Zero
      BY <2>2, <3>3
    <3> HIDE DEF x, y
    <3>5. Divide(x, y) \in Ratio /\ Times(y, Divide(x, y)) = x
      BY <3>4, DivideIs
    <3> QED BY <2>2, <3>3, <3>5 DEF x, y
  <2> QED BY <2>2, <2>5, <2>6
<1> HIDE DEF w, G
<1> QED BY <1>3, <1>4, <1>6, <1>7

-----------------------------------------------------------------------------

\* The lattices of the pairs.
Lattices == [i \in 1 .. Len(data) |-> Lattice(data[i])]

\* The counts of a pair, of whatever is as long as an n-gram.
LEMMA LatticeCounts ==
  ASSUME IsTable(table), data \in Corpora, opts.order \in Nat, NEW i \in 1 .. Len(data),
         NEW p \in Seq(1 .. Len(table)), Len(p) \in 1 .. CountOrder
  PROVE  /\ CountTyped(p, Lattices, i)
         /\ Lattices[i] # {} /\ p \notin NgramsOf(Lattice(data[i]), CountOrder) => ExpectedCount(p, Lattices[i]) = Zero
<1> DEFINE lattice == Lattice(data[i])
<1>1. Lattices[i] = lattice
  BY DEF Lattices
<1>2. lattice \in SUBSET Seq(1 .. Len(table)) /\ IsFiniteSet(lattice) /\ CountOrder \in Nat
  <2>1. i \in DOMAIN data
    BY CorpusLength
  <2> QED BY <2>1, LatticeType, LatticeFinite, CountOrderType
<1> HIDE DEF lattice
<1>3. lattice # {} => /\ ExpectedCount(p, lattice) \in Ratio
                      /\ ExpectedCount(p, lattice) = Zero <=> p \notin NgramsOf(lattice, CountOrder)
  BY <1>2, ExpectedCountIs
<1> QED BY <1>1, <1>3 DEF CountTyped, lattice

\* What the n-grams of the pairs are.
LEMMA SeenFacts ==
  ASSUME IsTable(table), data \in Corpora, opts.order \in Nat, NEW k \in 0 .. Len(data),
         NEW p \in Seen(k), p # Root
  PROVE  p \in Seq(1 .. Len(table)) /\ Len(p) \in 1 .. CountOrder
<1>1. PICK i \in 1 .. k : p \in NgramsOf(Lattice(data[i]), CountOrder)
  BY DEF Seen
<1>2. i \in DOMAIN data /\ CountOrder \in Nat
  BY CorpusLength, CountOrderType
<1> DEFINE lattice == Lattice(data[i])
           n == Len(table)
<1>3. lattice \in SUBSET Seq(1 .. n) /\ n \in Nat
  BY <1>2, LatticeType DEF IsTable
<1>4. p \in NgramsOf(lattice, CountOrder)
  BY <1>1
<1> HIDE DEF lattice, n
<1>5. NgramsOf(lattice, CountOrder) \in SUBSET Seq(1 .. n) /\ \A x \in NgramsOf(lattice, CountOrder) : Len(x) \in 1 .. CountOrder
  BY <1>2, <1>3, NgramsSay
<1> QED BY <1>4, <1>5 DEF n

\* The counts of the pairs before, and those of the pair.
LEMMA PairCounts ==
  ASSUME IsTable(table), data \in Corpora, opts.order \in Nat, NEW k \in 1 .. Len(data),
         Lattice(data[k]) # {}, NEW g, g = CountNgrams(Lattice(data[k])),
         NEW t, Seen(k - 1) \subseteq DOMAIN t, DOMAIN t \subseteq Seen(k), NEW n, n = Len(table)
  PROVE  Counts(t, g, CountsBefore(Lattices, k - 1, n), CountsOf(Lattice(data[k]), n))
<1> DEFINE lattice == Lattice(data[k])
           c == CountsOf(lattice, n)
           old == CountsBefore(Lattices, k - 1, n)
           j == k - 1
<1>1. /\ Len(data) \in Nat /\ k \in DOMAIN data /\ k \in 0 .. Len(data) /\ j \in Nat
      /\ CountOrder \in Nat /\ n \in Nat /\ \A i \in 1 .. j : i \in 1 .. Len(data)
  BY CorpusLength, CountOrderType DEF IsTable
<1>2. lattice \in SUBSET Seq(1 .. n) /\ IsFiniteSet(lattice) /\ lattice # {}
  BY <1>1, LatticeType, LatticeFinite
<1>3. /\ c[Root] = One
      /\ \A p \in DOMAIN g : p # Root =>
           /\ c[p] \in Ratio /\ c[p] # Zero /\ g[p].weight \in Ratio /\ g[p].final = One
           /\ c[p] = Times(c[Front(p)], g[p].weight)
      /\ \A p \in Seq(1 .. n) : Len(p) \in 1 .. CountOrder => c[p] \in Ratio /\ (p \notin DOMAIN g => c[p] = Zero)
  <2>1. g = CountNgrams(lattice) /\ c = CountsOf(lattice, n)
    OBVIOUS
  <2> HIDE DEF lattice, c
  <2> QED BY ONLY <1>1, <1>2, <2>1, CountedWeights
<1>4. DOMAIN g = NgramsOf(lattice, CountOrder) \cup {Root}
  <2>1. g = CountNgrams(lattice)
    OBVIOUS
  <2> HIDE DEF lattice
  <2> QED BY <1>1, <1>2, <2>1, CountedTrie DEF GramsOf
<1>5. /\ \A p \in Seen(k) : p # Root => p \in Seq(1 .. n) /\ Len(p) \in 1 .. CountOrder
      /\ DOMAIN g \subseteq Seen(k)
  <2>1. \A p \in Seen(k) : p # Root => p \in Seq(1 .. n) /\ Len(p) \in 1 .. CountOrder
    BY <1>1, SeenFacts
  <2>2. DOMAIN g \subseteq Seen(k)
    BY <1>1, <1>4 DEF Seen
  <2> QED BY <2>1, <2>2
<1>6. ASSUME NEW p \in Seen(k), p # Root
      PROVE  old[p] \in Ratio /\ (p \notin DOMAIN t => old[p] = Zero)
  <2>1. p \in Seq(1 .. n) /\ Len(p) \in 1 .. CountOrder /\ old[p] = Total(p, Lattices, j)
    BY <1>5, <1>6 DEF CountsBefore
  <2>2. \A i \in 1 .. Len(data) :
          /\ CountTyped(p, Lattices, i)
          /\ Lattices[i] # {} /\ p \notin NgramsOf(Lattice(data[i]), CountOrder) => ExpectedCount(p, Lattices[i]) = Zero
    BY <2>1, LatticeCounts
  <2> HIDE DEF old
  <2>3. Total(p, Lattices, j) \in Ratio
    <3>1. \A i \in 1 .. j + 1 : CountTyped(p, Lattices, i)
      BY <1>1, <2>2
    <3> HIDE DEF j
    <3> QED BY <1>1, <3>1, TotalStep
  <2>4. ASSUME p \notin DOMAIN t PROVE Total(p, Lattices, j) = Zero
    <3>1. p \notin Seen(j)
      BY <2>4
    <3> HIDE DEF j
    <3>2. \A i \in 1 .. j : p \notin NgramsOf(Lattice(data[i]), CountOrder)
      BY <3>1 DEF Seen
    <3>3. \A i \in 1 .. j : Lattices[i] # {} => ExpectedCount(p, Lattices[i]) = Zero
      BY <1>1, <2>2, <3>2
    <3> QED BY <1>1, <3>3, TotalZero
  <2> QED BY <2>1, <2>3, <2>4
<1>7. \A p \in DOMAIN t : p \notin DOMAIN g => c[p] = Zero
  <2>1. Root \in DOMAIN g
    BY <1>4
  <2> QED BY <1>3, <1>5, <2>1
<1>8. \A p \in DOMAIN g : p \notin DOMAIN t => old[p] = Zero
  <2>1. Root \in DOMAIN t
    BY DEF Seen
  <2> QED BY <1>5, <1>6, <2>1
<1>9. \A p \in DOMAIN t \cup DOMAIN g : p # Root => old[p] \in Ratio
  BY <1>5, <1>6
<1> HIDE DEF c, old
<1>10. Counts(t, g, old, c)
  BY <1>3, <1>7, <1>8, <1>9 DEF Counts
<1> QED BY <1>10 DEF c, old, lattice

\* If the weights are the same, so are the products of them.
LEMMA SameProducts ==
  ASSUME NEW n \in Nat, NEW t, IsTrie(t, n), Weighted(t), NEW u, IsTrie(u, n), Weighted(u),
         \A p \in DOMAIN t : p \in DOMAIN u /\ u[p].weight = t[p].weight
  PROVE  \A p \in DOMAIN t : ProductTo(u, p) = ProductTo(t, p)
<1>1. /\ Root \in DOMAIN t /\ Root \in DOMAIN u /\ One \in Ratio
      /\ ProductTo(t, Root) = One /\ ProductTo(u, Root) = One
  <2>1. Root \in DOMAIN t /\ Root \in DOMAIN u
    BY DEF IsTrie
  <2>2. ProductTo(t, Root) = One /\ ProductTo(u, Root) = One
    BY <2>1, ProductStep
  <2> QED BY <2>1, <2>2, ZeroOne DEF Has
<1> DEFINE k == Root
           x == One
<1>2. /\ k \in DOMAIN t /\ k \in DOMAIN u /\ x \in Ratio
      /\ Times(x, ProductTo(u, k)) = Times(x, ProductTo(t, k))
      /\ \A p \in DOMAIN t : Begins(k, p) /\ p # k => p \in DOMAIN u /\ u[p].weight = t[p].weight
  BY <1>1
<1> HIDE DEF k, x
<1>3. \A p \in DOMAIN t : Begins(k, p) => Times(x, ProductTo(u, p)) = Times(x, ProductTo(t, p))
  BY <1>2, ProductsScale
<1>4. \A p \in DOMAIN t : Begins(k, p)
  <2>1. DOMAIN t \subseteq Seq(1 .. n)
    BY DEF IsTrie
  <2> QED BY <2>1, BeginsFacts DEF k
<1>5. \A p \in DOMAIN t : ProductTo(u, p) \in Ratio /\ ProductTo(t, p) \in Ratio
  BY ProductStep
<1>6. \A y \in Ratio : Times(x, y) = y
  BY ZeroOneLaws DEF x
<1> QED BY <1>3, <1>4, <1>5, <1>6

\* A node with new labels, or a new weight.
LEMMA NodeWeights ==
  ASSUME NEW r, IsNode(r), NEW u
  PROVE  /\ [r EXCEPT !.labels = u].weight = r.weight /\ [r EXCEPT !.labels = u].final = r.final
         /\ [r EXCEPT !.weight = u].weight = u /\ [r EXCEPT !.weight = u].final = r.final
<1>1. PICK a, b, c : r = [labels |-> a, weight |-> b, final |-> c]
  BY NodeFacts
<1> QED BY <1>1

\* Sorting the arcs changes no weight.
LEMMA ArcSortWeights ==
  ASSUME NEW n \in Nat, NEW t, IsTrie(t, n), Weighted(t)
  PROVE  /\ Weighted(ArcSort(t))
         /\ \A p \in DOMAIN t : ProductTo(ArcSort(t), p) = ProductTo(t, p) /\ ArcSort(t)[p].final = t[p].final
<1> DEFINE u == ArcSort(t)
<1>1. IsTrie(u, n) /\ DOMAIN u = DOMAIN t
  BY ArcSortTrie
<1>2. \A p \in DOMAIN t : u[p].weight = t[p].weight /\ u[p].final = t[p].final
  <2> SUFFICES ASSUME NEW p \in DOMAIN t PROVE u[p].weight = t[p].weight /\ u[p].final = t[p].final
    OBVIOUS
  <2> DEFINE r == t[p]
             s == Sorted(ToSet(t[p].labels))
  <2>1. u[p] = [r EXCEPT !.labels = s]
    BY DEF ArcSort
  <2>2. IsNode(r)
    BY DEF IsTrie
  <2> HIDE DEF r, s, u
  <2>3. u[p].weight = r.weight /\ u[p].final = r.final
    BY <2>1, <2>2, NodeWeights
  <2> QED BY <2>3 DEF r
<1> HIDE DEF u
<1>3. Weighted(u)
  BY <1>1, <1>2 DEF Weighted
<1>4. \A p \in DOMAIN t : ProductTo(u, p) = ProductTo(t, p)
  BY <1>1, <1>2, <1>3, SameProducts
<1> QED BY <1>2, <1>3, <1>4 DEF u

\* Adding to the end of a sequence of whatever.
LEMMA QueuedAfter ==
  ASSUME NEW s, IsSequence(s), NEW f, NEW k \in Nat, f = [i \in 1 .. k |-> f[i]]
  PROVE  /\ Len(s \o f) = Len(s) + k
         /\ \A i \in 1 .. Len(s) : (s \o f)[i] = s[i]
         /\ \A i \in 1 .. k : (s \o f)[Len(s) + i] = f[i]
<1> DEFINE S == {s[i] : i \in 1 .. Len(s)} \cup {f[i] : i \in 1 .. k}
<1>1. s \in Seq(S)
  <2>1. s \in Seq({s[i] : i \in 1 .. Len(s)})
    BY SequenceIsSeq
  <2> QED BY <2>1
<1>2. f \in Seq(S) /\ Len(f) = k
  OBVIOUS
<1> HIDE DEF S
<1> QED BY <1>1, <1>2, ConcatFacts

\* One subset: what it makes of the weights, and the elements it puts on the queue.
LEMMA ProcessWeights ==
  ASSUME NEW n \in Nat, Uniting(trie, ngrams, Ats(queue), n), IsSequence(queue), ProcessSubset
  PROVE  /\ WeightStep(trie, ngrams, queue[1], trie')
         /\ QueueStep(trie, ngrams, queue, trie', queue')
<1>1. queue # <<>> /\ ngrams' = ngrams
  BY DEF ProcessSubset
<1> DEFINE q == Head(queue)
           at == q.at
           a == trie[at].labels
           b == ngrams[at].labels
           both == Matched(a, b)
           new == Kept(b, ToSet(b) \ both)
           shared == Kept(b, both)
           to(l) == Append(at, l)
           vw1(l) == Times(q.v1, trie[to(l)].weight)
           vw2(l) == Times(q.v2, ngrams[to(l)].weight)
           weight(l) == IF l \in both THEN Plus(vw1(l), vw2(l)) ELSE vw2(l)
           v1(l) == IF l \in both THEN Residual(vw1(l), weight(l)) ELSE Residual(One, weight(l))
           v2(l) == Residual(vw2(l), weight(l))
           old(l) == IF l \in both THEN trie[to(l)].final ELSE Zero
           merged(l) ==
             [labels |-> IF l \in both THEN trie[to(l)].labels ELSE <<>>,
              weight |-> weight(l),
              final |-> Plus(Times(v1(l), old(l)), Times(v2(l), ngrams[to(l)].final))]
           reached == {to(l) : l \in ToSet(b)}
           kept == {to(l) : l \in ToSet(a) \ ToSet(b)}
           element(l) == [at |-> to(l), v1 |-> v1(l), v2 |-> v2(l)]
           found == shared \o new
<1>2. trie' = [p \in DOMAIN trie \cup reached |->
                 IF p = q.at THEN [trie[p] EXCEPT !.labels = a \o new]
                 ELSE IF p \in reached THEN merged(Last(p))
                 ELSE IF p \in kept THEN [trie[p] EXCEPT !.weight = Times(q.v1, @)]
                 ELSE trie[p]]
  BY Zenon DEF ProcessSubset
<1>3. queue' = Tail(queue) \o [i \in DOMAIN found |-> element(found[i])]
  BY Zenon DEF ProcessSubset
<1>4. /\ IsTrie(trie, n) /\ IsTrie(ngrams, n) /\ AscendingTrie(ngrams)
      /\ Ats(queue) \in Seq(DOMAIN trie \cap DOMAIN ngrams)
  BY DEF Uniting
<1>5. /\ Len(queue) \in Nat /\ Len(queue) > 0 /\ q = queue[1] /\ IsSequence(Tail(queue))
      /\ Len(Tail(queue)) = Len(queue) - 1
      /\ \A i \in 1 .. Len(queue) - 1 : Tail(queue)[i] = queue[i + 1]
  BY <1>1, SequenceFacts DEF IsSequence
<1>6. Len(Ats(queue)) = Len(queue) /\ \A i \in 1 .. Len(queue) : Ats(queue)[i] = queue[i].at
  BY <1>5 DEF Ats
<1>7. at \in DOMAIN trie /\ at \in DOMAIN ngrams /\ Ats(queue)[1] = at /\ 1 \in 1 .. Len(Ats(queue))
  BY <1>4, <1>5, <1>6
<1>8. /\ at \in Seq(1 .. n) /\ a \in Seq(1 .. n) /\ b \in Seq(1 .. n)
      /\ Ascending(a) /\ Ascending(b) /\ NoDups(a) /\ NoDups(b)
      /\ ToSet(a) = {l \in 1 .. n : Append(at, l) \in DOMAIN trie}
      /\ ToSet(b) = {l \in 1 .. n : Append(at, l) \in DOMAIN ngrams}
  <2>1. \A p \in DOMAIN trie : Begins(at, p) => Ascending(trie[p].labels)
    BY <1>7 DEF Uniting
  <2>2. at \in Seq(1 .. n)
    BY <1>4, <1>7 DEF IsTrie
  <2>3. Begins(at, at)
    BY <2>2, BeginsFacts
  <2> HIDE DEF at
  <2> QED BY <1>4, <1>7, <2>1, <2>2, <2>3 DEF IsTrie, AscendingTrie
<1>9. /\ both = ToSet(a) \cap ToSet(b) /\ found \in Seq(1 .. n) /\ ToSet(found) = ToSet(b)
  <2>1. found = FoundLabels(a, b)
    BY DEF FoundLabels, NewLabelsOf
  <2> HIDE DEF a, b, found
  <2>2. /\ Matched(a, b) = ToSet(a) \cap ToSet(b)
        /\ FoundLabels(a, b) \in Seq(1 .. n) /\ ToSet(FoundLabels(a, b)) = ToSet(b)
    BY <1>8, FoundFacts
  <2> QED BY <2>1, <2>2
<1>10. \A r, w : Residual(r, w) = Divide(r, w)
  BY DEF Residual
\* The states that hang on the state.
<1>11. ASSUME NEW l \in 1 .. n
       PROVE  to(l) \in Seq(1 .. n) /\ Last(to(l)) = l /\ to(l) # at /\ Kid(at, to(l))
  <2>1. at \in Seq(1 .. n)
    BY <1>8
  <2> HIDE DEF at
  <2>2. Append(at, l) \in Seq(1 .. n) /\ Last(Append(at, l)) = l /\ Len(Append(at, l)) = Len(at) + 1
        /\ Kid(at, Append(at, l)) /\ Len(at) \in Nat
    BY <2>1, AppendFacts, KidFacts
  <2> DEFINE x == Append(at, l)
  <2>3. Len(x) = Len(at) + 1 /\ Len(at) \in Nat
    BY <2>2
  <2> HIDE DEF x
  <2>4. x # at
    BY <2>3
  <2> QED BY <2>2, <2>4 DEF x
<1>12. ASSUME NEW p \in Seq(1 .. n), Kid(at, p) PROVE Last(p) \in 1 .. n /\ p = to(Last(p)) /\ p # at
  <2>1. at \in Seq(1 .. n)
    BY <1>8
  <2> HIDE DEF at
  <2> QED BY <1>12, <2>1, KidFacts DEF Beneath
<1>13. DOMAIN trie \subseteq Seq(1 .. n) /\ DOMAIN ngrams \subseteq Seq(1 .. n)
       /\ \A p \in DOMAIN trie : IsNode(trie[p])
  BY <1>4 DEF IsTrie
<1> DEFINE e == queue[1]
<1>14. e.at = at /\ e.v1 = q.v1 /\ e.v2 = q.v2
  BY <1>5
<1> HIDE DEF a, b, both, new, shared, to, vw1, vw2, weight, v1, v2, old, merged, reached, kept, element, found, at, q, e
<1>15. \A p \in Seq(1 .. n) : p \in reached <=> p \in DOMAIN ngrams /\ Kid(at, p)
  <2>1. \A l \in ToSet(b) : l \in 1 .. n /\ to(l) \in DOMAIN ngrams
    BY <1>8 DEF to
  <2>2. ASSUME NEW p \in Seq(1 .. n), p \in DOMAIN ngrams, Kid(at, p) PROVE p \in reached
    <3>1. Last(p) \in 1 .. n /\ p = to(Last(p))
      BY <1>12, <2>2
    <3>2. Last(p) \in ToSet(b)
      BY <1>8, <2>2, <3>1 DEF to
    <3> QED BY <3>1, <3>2 DEF reached
  <2>3. ASSUME NEW p \in reached PROVE p \in DOMAIN ngrams /\ Kid(at, p)
    BY <1>11, <2>1, <2>3 DEF reached
  <2> QED BY <2>2, <2>3
<1>16. ASSUME NEW p \in DOMAIN trie, Kid(at, p), p \notin DOMAIN ngrams PROVE p \in kept
  <2>1. Last(p) \in 1 .. n /\ p = to(Last(p))
    BY <1>12, <1>13, <1>16
  <2>2. Last(p) \in ToSet(a) \ ToSet(b)
    BY <1>8, <1>16, <2>1 DEF to
  <2> QED BY <2>1, <2>2 DEF kept
<1>17. ASSUME NEW p \in Seq(1 .. n), ~ Kid(at, p) PROVE p \notin kept /\ p \notin reached
  <2>1. \A l \in ToSet(a) \cup ToSet(b) : l \in 1 .. n
    BY <1>8
  <2> QED BY <1>11, <1>17, <2>1 DEF kept, reached
<1>18. DOMAIN trie' = DOMAIN trie \cup {p \in DOMAIN ngrams : Kid(at, p)}
  <2>1. DOMAIN trie' = DOMAIN trie \cup reached
    BY <1>2
  <2>2. reached = {p \in DOMAIN ngrams : Kid(at, p)}
    <3>1. reached \subseteq Seq(1 .. n)
      BY <1>8, <1>11 DEF reached
    <3> QED BY <1>13, <1>15, <3>1
  <2> QED BY <2>1, <2>2
\* An arc that the pair has.
<1>19. ASSUME NEW l \in ToSet(b)
       PROVE  /\ l \in 1 .. n /\ to(l) \in DOMAIN ngrams /\ Kid(at, to(l)) /\ to(l) \in reached
              /\ trie'[to(l)] = merged(l) /\ (l \in both <=> to(l) \in DOMAIN trie)
              /\ trie'[to(l)].weight = weight(l)
              /\ trie'[to(l)].final = Plus(Times(v1(l), old(l)), Times(v2(l), ngrams[to(l)].final))
              /\ v1(l) = Rest1(trie, e, to(l), weight(l)) /\ v2(l) = Rest2(ngrams, e, to(l), weight(l))
  <2>1. l \in 1 .. n /\ to(l) \in DOMAIN ngrams
    BY <1>8 DEF to
  <2>2. /\ Kid(at, to(l)) /\ Last(to(l)) = l /\ to(l) # at /\ to(l) \in reached
    BY <1>11, <2>1 DEF reached
  <2>3. trie'[to(l)] = merged(l)
    BY <1>2, <2>2 DEF at
  <2>4. l \in both <=> to(l) \in DOMAIN trie
    BY <1>8, <1>9, <2>1 DEF to
  <2>5. merged(l).weight = weight(l)
        /\ merged(l).final = Plus(Times(v1(l), old(l)), Times(v2(l), ngrams[to(l)].final))
    BY DEF merged
  <2>6. v1(l) = Rest1(trie, e, to(l), weight(l))
    <3>1. vw1(l) = Times(e.v1, trie[to(l)].weight)
      BY <1>14 DEF vw1
    <3>2. v1(l) = IF l \in both THEN Divide(vw1(l), weight(l)) ELSE Divide(One, weight(l))
      BY <1>10 DEF v1
    <3> QED BY <2>4, <3>1, <3>2 DEF Rest1
  <2>7. v2(l) = Rest2(ngrams, e, to(l), weight(l))
    BY <1>10, <1>14 DEF v2, vw2, Rest2
  <2> QED BY <2>1, <2>2, <2>3, <2>4, <2>5, <2>6, <2>7
<1>20. WeightStep(trie, ngrams, e, trie')
  <2> SUFFICES ASSUME NEW p \in DOMAIN trie'
               PROVE  /\ Kid(at, p) /\ p \in DOMAIN ngrams =>
                           /\ trie'[p].weight = IF p \in DOMAIN trie
                                                THEN Plus(Times(e.v1, trie[p].weight), Times(e.v2, ngrams[p].weight))
                                                ELSE Times(e.v2, ngrams[p].weight)
                           /\ trie'[p].final =
                                Plus(Times(Rest1(trie, e, p, trie'[p].weight), IF p \in DOMAIN trie THEN trie[p].final ELSE Zero),
                                     Times(Rest2(ngrams, e, p, trie'[p].weight), ngrams[p].final))
                      /\ Kid(at, p) /\ p \notin DOMAIN ngrams =>
                           trie'[p].weight = Times(e.v1, trie[p].weight) /\ trie'[p].final = trie[p].final
                      /\ ~ Kid(at, p) => trie'[p].weight = trie[p].weight /\ trie'[p].final = trie[p].final
    BY <1>14, <1>18 DEF WeightStep
  <2>1. p \in Seq(1 .. n)
    BY <1>13, <1>18
  <2>2. ASSUME Kid(at, p), p \in DOMAIN ngrams
        PROVE  /\ trie'[p].weight = IF p \in DOMAIN trie
                                    THEN Plus(Times(e.v1, trie[p].weight), Times(e.v2, ngrams[p].weight))
                                    ELSE Times(e.v2, ngrams[p].weight)
               /\ trie'[p].final =
                    Plus(Times(Rest1(trie, e, p, trie'[p].weight), IF p \in DOMAIN trie THEN trie[p].final ELSE Zero),
                         Times(Rest2(ngrams, e, p, trie'[p].weight), ngrams[p].final))
    <3>1. p \in reached
      BY <1>15, <2>1, <2>2
    <3>2. PICK l \in ToSet(b) : p = to(l)
      BY <3>1 DEF reached
    <3>3. /\ l \in both <=> p \in DOMAIN trie
          /\ trie'[p].weight = weight(l)
          /\ trie'[p].final = Plus(Times(v1(l), old(l)), Times(v2(l), ngrams[p].final))
          /\ v1(l) = Rest1(trie, e, p, trie'[p].weight) /\ v2(l) = Rest2(ngrams, e, p, trie'[p].weight)
      BY <1>19, <3>2
    <3>4. old(l) = IF p \in DOMAIN trie THEN trie[p].final ELSE Zero
      BY <3>2, <3>3 DEF old
    <3>5. weight(l) = IF p \in DOMAIN trie THEN Plus(Times(e.v1, trie[p].weight), Times(e.v2, ngrams[p].weight))
                      ELSE Times(e.v2, ngrams[p].weight)
      BY <1>14, <3>2, <3>3 DEF weight, vw1, vw2
    <3> QED BY <3>3, <3>4, <3>5
  <2>3. ASSUME Kid(at, p), p \notin DOMAIN ngrams
        PROVE  trie'[p].weight = Times(e.v1, trie[p].weight) /\ trie'[p].final = trie[p].final
    <3>1. p \in DOMAIN trie /\ p \in kept /\ p \notin reached /\ p # at
      BY <1>12, <1>15, <1>16, <1>18, <2>1, <2>3
    <3>2. trie'[p] = [trie[p] EXCEPT !.weight = Times(q.v1, trie[p].weight)]
      BY <1>2, <3>1 DEF at
    <3> DEFINE r == trie[p]
               u == Times(q.v1, trie[p].weight)
    <3>3. IsNode(r) /\ trie'[p] = [r EXCEPT !.weight = u]
      BY <1>13, <3>1, <3>2
    <3>4. u = Times(e.v1, trie[p].weight)
      BY <1>14
    <3> HIDE DEF r, u
    <3>5. trie'[p].weight = u /\ trie'[p].final = r.final
      BY <3>3, NodeWeights
    <3> QED BY <3>4, <3>5 DEF r
  <2>4. ASSUME ~ Kid(at, p) PROVE trie'[p].weight = trie[p].weight /\ trie'[p].final = trie[p].final
    <3>1. p \in DOMAIN trie /\ p \notin kept /\ p \notin reached
      BY <1>17, <1>18, <2>1, <2>4
    <3>2. CASE p # at
      <4>1. trie'[p] = trie[p]
        BY <1>2, <3>1, <3>2 DEF at
      <4> QED BY <4>1
    <3>3. CASE p = at
      <4> DEFINE r == trie[p]
                 u == a \o new
      <4>1. IsNode(r) /\ trie'[p] = [r EXCEPT !.labels = u]
        BY <1>2, <1>13, <3>1, <3>3 DEF at
      <4> HIDE DEF r, u
      <4>2. trie'[p].weight = r.weight /\ trie'[p].final = r.final
        BY <4>1, NodeWeights
      <4> QED BY <4>2 DEF r
    <3> QED BY <3>2, <3>3
  <2> QED BY <2>2, <2>3, <2>4
<1>21. QueueStep(trie, ngrams, queue, trie', queue')
  <2> DEFINE more == [i \in DOMAIN found |-> element(found[i])]
             T == Tail(queue)
             k == Len(found)
             d == Len(queue) - 1
  <2>1. DOMAIN found = 1 .. k /\ k \in Nat /\ ToSet(found) = {found[i] : i \in 1 .. k}
    BY <1>9 DEF ToSet
  <2>2. more = [i \in 1 .. k |-> more[i]] /\ \A i \in 1 .. k : more[i] = element(found[i])
    BY <2>1
  <2>3. IsSequence(T) /\ Len(T) = d /\ d \in Nat /\ \A i \in 1 .. d : T[i] = queue[i + 1]
    BY <1>5
  <2>4. queue' = T \o more
    BY <1>3
  <2> HIDE DEF more, T, k, d
  <2>5. /\ Len(queue') = d + k
        /\ \A i \in 1 .. d : queue'[i] = queue[i + 1]
        /\ \A i \in 1 .. k : queue'[d + i] = element(found[i])
    <3>1. /\ Len(T \o more) = Len(T) + k
          /\ \A i \in 1 .. Len(T) : (T \o more)[i] = T[i]
          /\ \A i \in 1 .. k : (T \o more)[Len(T) + i] = more[i]
      BY <2>1, <2>2, <2>3, QueuedAfter
    <3> QED BY <2>2, <2>3, <2>4, <3>1
  <2>6. \A l : element(l).at = to(l) /\ element(l).v1 = v1(l) /\ element(l).v2 = v2(l)
    BY DEF element
  <2>7. ASSUME NEW i \in 1 .. Len(queue')
        PROVE  \/ \E j \in 2 .. Len(queue) : queue'[i] = queue[j]
               \/ \E p \in DOMAIN ngrams : /\ Kid(e.at, p) /\ queue'[i].at = p
                                           /\ queue'[i].v1 = Rest1(trie, e, p, trie'[p].weight)
                                           /\ queue'[i].v2 = Rest2(ngrams, e, p, trie'[p].weight)
    <3>1. CASE i \in 1 .. d
      <4>1. i + 1 \in 2 .. Len(queue)
        BY <1>5, <3>1 DEF d
      <4> QED BY <2>5, <3>1, <4>1
    <3>2. CASE i \notin 1 .. d
      <4> DEFINE m == i - d
      <4>1. m \in 1 .. k /\ d + m = i
        BY <2>1, <2>3, <2>5, <3>2
      <4> HIDE DEF m
      <4> DEFINE l == found[m]
                 p == to(l)
      <4>2. l \in ToSet(b) /\ queue'[i] = element(l)
        BY <1>9, <2>1, <2>5, <4>1
      <4> HIDE DEF l
      <4>3. /\ p \in DOMAIN ngrams /\ Kid(at, p) /\ trie'[p].weight = weight(l)
            /\ v1(l) = Rest1(trie, e, p, weight(l)) /\ v2(l) = Rest2(ngrams, e, p, weight(l))
        BY <1>19, <4>2
      <4>4. queue'[i].at = p /\ queue'[i].v1 = v1(l) /\ queue'[i].v2 = v2(l)
        BY <2>6, <4>2
      <4> HIDE DEF p
      <4> QED BY <1>14, <4>3, <4>4
    <3> QED BY <3>1, <3>2
  <2>8. ASSUME NEW j \in 2 .. Len(queue) PROVE \E i \in 1 .. Len(queue') : queue'[i] = queue[j]
    <3> DEFINE i == j - 1
    <3>1. i \in 1 .. d /\ i + 1 = j /\ i \in 1 .. Len(queue')
      BY <1>5, <2>1, <2>3, <2>5 DEF d
    <3> HIDE DEF i
    <3> QED BY <2>5, <3>1
  <2>9. ASSUME NEW p \in DOMAIN ngrams, Kid(e.at, p) PROVE \E i \in 1 .. Len(queue') : queue'[i].at = p
    <3>1. p \in reached
      BY <1>13, <1>14, <1>15, <2>9
    <3>2. PICK l \in ToSet(b) : p = to(l)
      BY <3>1 DEF reached
    <3>3. PICK m \in 1 .. k : found[m] = l
      BY <1>9, <2>1
    <3> DEFINE i == d + m
    <3>4. i \in 1 .. Len(queue') /\ queue'[i] = element(l)
      BY <2>1, <2>3, <2>5, <3>3
    <3> HIDE DEF i
    <3> QED BY <2>6, <3>2, <3>4
  <2> QED BY <2>7, <2>8, <2>9 DEF QueueStep, e
<1> QED BY <1>20, <1>21 DEF e

\* CountNgrams, as a matter of the order only.
WeighedGrams(lattice, order) ==
  LET grams == NgramsOf(lattice, order)
      count == Tabulated([p \in grams |-> ExpectedCount(p, lattice)])
  IN [p \in grams \cup {<<>>} |->
        [labels |-> LabelsAfter(p, grams),
         weight |-> CASE p = <<>> -> One
                      [] Len(p) = 1 -> count[p]
                      [] OTHER -> Divide(count[p], count[Front(p)]),
         final |-> IF p = <<>> THEN Zero ELSE One]]

LEMMA WeighedIs == \A lattice : CountNgrams(lattice) = WeighedGrams(lattice, CountOrder)
BY Zenon DEF CountNgrams, WeighedGrams

\* The union of the pair's counts with the trie, as far as weights go.
WeighsPair ==
  /\ Lattice(data[pair]) # {} /\ ngrams = WeighedGrams(Lattice(data[pair]), CountOrder)
  /\ Weighs(trie, queue, CountsBefore(Lattices, pair - 1, Len(table)),
            CountsOf(Lattice(data[pair]), Len(table)))

\* Between two pairs the trie weighs what was counted.
WeighsSeen ==
  /\ Weighted(trie)
  /\ \A p \in DOMAIN trie : p # Root => Times(ProductTo(trie, p), trie[p].final) = Total(p, Lattices, pair)

WeightsInv == stage = "count" => (queue # <<>> => WeighsPair) /\ (queue = <<>> => WeighsSeen)

LEMMA InitWeightsInv == AllInit => WeightsInv
<1> SUFFICES ASSUME AllInit PROVE stage # "count"
  BY DEF WeightsInv
<1>1. CASE IdleCreation
  BY <1>1 DEF IdleCreation
<1>2. CASE CreatingInit
  BY <1>2 DEF CreatingInit, TopologyInit, CreateInit, CountInit
<1> QED BY <1>1, <1>2 DEF AllInit

\* The lattices do not change while they are counted.
LEMMA LatticesKept ==
  ASSUME opts' = opts, data' = data, table' = table
  PROVE  Lattices' = Lattices /\ CountOrder' = CountOrder /\ \A i : Lattice(data[i])' = Lattice(data[i])
<1>1. CountOrder' = CountOrder /\ \A i : Lattice(data[i])' = Lattice(data[i])
  BY SeenKept
<1>2. Lattices' = Lattices
  BY <1>1 DEF Lattices
<1> QED BY <1>1, <1>2

LEMMA MakeSymbolsWeightsInv == CountInv /\ MakeSymbols => WeightsInv'
<1> SUFFICES ASSUME CountInv, MakeSymbols PROVE WeightsInv'
  OBVIOUS
<1>1. trie' = NoTrie /\ queue' = <<>>
  BY DEF MakeSymbols, CountInv
<1>2. DOMAIN NoTrie = {Root} /\ NoTrie[Root].weight = One /\ NoTrie[Root].final = Zero
  BY DEF NoTrie, Root
<1>3. Weighted(NoTrie) /\ \A p \in DOMAIN NoTrie : p = Root
  BY <1>2, ZeroOne DEF Weighted, Has
<1>4. WeighsSeen'
  BY <1>1, <1>3 DEF WeighsSeen
<1> QED BY <1>1, <1>4 DEF WeightsInv

\* The next pair.
LEMMA AddCountsWeightsInv == CountInv /\ WeightsInv /\ AddCounts => WeightsInv'
<1> SUFFICES ASSUME CountInv, WeightsInv, AddCounts PROVE WeightsInv'
  OBVIOUS
<1> DEFINE n == Len(table)
           k == pair + 1
           lattice == Lattice(data[k])
<1>1. /\ stage = "count" /\ queue = <<>> /\ pair < Len(data) /\ trie' = ArcSort(trie) /\ pair' = k
      /\ opts' = opts /\ data' = data /\ table' = table
      /\ IF lattice = {}
         THEN ngrams' = ngrams /\ queue' = queue
         ELSE ngrams' = CountNgrams(lattice) /\ queue' = <<[at |-> <<>>, v1 |-> One, v2 |-> One]>>
  BY DEF AddCounts
<1>2. /\ opts.order \in Nat /\ n \in Nat /\ IsTrie(trie, n) /\ IsTable(table) /\ data \in Corpora
      /\ pair \in 0 .. Len(data) /\ DOMAIN trie = Seen(pair)
  BY <1>1 DEF CountInv, CountSays
<1>3. Len(data) \in Nat /\ pair \in Nat /\ k \in 1 .. Len(data) /\ k - 1 = pair
  BY <1>1, <1>2, CorpusLength
<1>4. Weighted(trie) /\ \A p \in DOMAIN trie : p # Root => Times(ProductTo(trie, p), trie[p].final) = Total(p, Lattices, pair)
  BY <1>1 DEF WeightsInv, WeighsSeen
<1>5. /\ IsTrie(trie', n) /\ DOMAIN trie' = DOMAIN trie /\ Weighted(trie')
      /\ \A p \in DOMAIN trie' : ProductTo(trie', p) = ProductTo(trie, p) /\ trie'[p].final = trie[p].final
  BY <1>1, <1>2, <1>4, ArcSortTrie, ArcSortWeights
<1>6. \A p \in DOMAIN trie' : p # Root => Times(ProductTo(trie', p), trie'[p].final) = Total(p, Lattices, pair)
  BY <1>4, <1>5
<1>7. Lattices' = Lattices /\ CountOrder' = CountOrder /\ \A i : Lattice(data[i])' = Lattice(data[i])
  BY <1>1, LatticesKept
<1>8. \A p \in DOMAIN trie' : p # Root => p \in Seq(1 .. n) /\ Len(p) \in 1 .. CountOrder
  BY <1>2, <1>5, SeenFacts
<1>9. Lattices[k] = lattice
  BY <1>3 DEF Lattices
<1> HIDE DEF k, n, lattice
<1>10. ASSUME lattice = {} PROVE WeighsSeen'
  <2>1. ASSUME NEW p \in DOMAIN trie', p # Root PROVE Total(p, Lattices, k) = Total(p, Lattices, pair)
    <3>1. \A i \in 1 .. Len(data) : CountTyped(p, Lattices, i)
      BY <1>2, <1>8, <2>1, LatticeCounts DEF n
    <3>2. pair \in Nat /\ \A i \in 1 .. pair + 1 : CountTyped(p, Lattices, i)
      BY <1>3, <3>1 DEF k
    <3>3. Lattices[pair + 1] = {}
      BY <1>9, <1>10 DEF k
    <3>4. Total(p, Lattices, pair + 1) = Total(p, Lattices, pair)
      BY <3>2, <3>3, TotalStep
    <3> QED BY <3>4 DEF k
  <2>2. \A p \in DOMAIN trie' : p # Root => Times(ProductTo(trie', p), trie'[p].final) = Total(p, Lattices', pair')
    BY <1>1, <1>6, <1>7, <2>1
  <2> QED BY <1>5, <2>2 DEF WeighsSeen
<1>11. ASSUME lattice # {} PROVE WeighsPair'
  <2> DEFINE e == [at |-> <<>>, v1 |-> One, v2 |-> One]
             q == <<e>>
             old == CountsBefore(Lattices, pair, n)
             c == CountsOf(lattice, n)
  <2>1. queue' = q /\ ngrams' = WeighedGrams(lattice, CountOrder)
    BY <1>1, <1>11, WeighedIs
  <2>2. Lattice(data[pair])' = lattice /\ pair' - 1 = pair /\ Len(table)' = n
    BY <1>1, <1>3, <1>7 DEF lattice, n
  <2>3. Len(q) = 1 /\ q[1].at = Root /\ q[1].v1 = One /\ q[1].v2 = One
    BY DEF Root
  <2>4. c[Root] = One /\ \A p \in Seq(1 .. n) : old[p] = Total(p, Lattices, pair)
    BY EmptyFacts DEF CountsOf, CountsBefore, Root
  <2> HIDE DEF q, e, old, c
  <2>5. One \in Ratio /\ Times(One, One) = One /\ Root \in DOMAIN trie' /\ ProductTo(trie', Root) = One
        /\ \A y \in Ratio : Times(One, y) = y
    <3>1. One \in Ratio
      BY ZeroOne DEF Has
    <3>2. Root \in DOMAIN trie'
      BY <1>5 DEF IsTrie
    <3>3. ProductTo(trie', Root) = One
      BY <1>2, <1>5, <3>2, ProductStep
    <3> QED BY <3>1, <3>2, <3>3, ZeroOneLaws
  <2>6. ASSUME NEW p \in DOMAIN trie', p # Root
        PROVE  /\ Times(Times(One, ProductTo(trie', p)), trie'[p].final) = old[p]
               /\ Beneath(Root, p)
    <3>1. ProductTo(trie', p) \in Ratio
      BY <1>2, <1>5, ProductStep
    <3>2. Beneath(Root, p)
      BY <1>8, <2>6, BeginsFacts DEF Beneath
    <3> QED BY <1>6, <1>8, <2>4, <2>5, <2>6, <3>1, <3>2
  <2>7. Holds(trie', q[1], old, c)
    BY <2>3, <2>4, <2>5, <2>6 DEF Holds, Beneath
  <2>8. Weighs(trie', q, old, c)
    <3>1. \A i \in 1 .. Len(q) : i = 1
      BY <2>3
    <3>2. 1 \in 1 .. Len(q)
      BY <2>3
    <3> QED BY <1>5, <2>3, <2>6, <2>7, <3>1, <3>2 DEF Weighs
  <2>9. CountsBefore(Lattices, pair - 1, Len(table))' = old /\ CountsOf(Lattice(data[pair]), Len(table))' = c
    BY <1>7, <2>2 DEF old, c
  <2>10. Weighs(trie, queue, CountsBefore(Lattices, pair - 1, Len(table)),
                CountsOf(Lattice(data[pair]), Len(table)))'
    BY <2>1, <2>8, <2>9
  <2>11. (Lattice(data[pair]) # {} /\ ngrams = WeighedGrams(Lattice(data[pair]), CountOrder))'
    BY <1>7, <1>11, <2>1, <2>2
  <2> QED BY <2>10, <2>11 DEF WeighsPair
<1>12. lattice = {} => queue' = <<>>
  BY <1>1
<1>13. lattice # {} => queue' # <<>>
  BY <1>1
<1> QED BY <1>10, <1>11, <1>12, <1>13 DEF WeightsInv

\* Uniting a subset more.
LEMMA ProcessSubsetWeightsInv == CountInv /\ WeightsInv /\ ProcessSubset => WeightsInv'
<1> SUFFICES ASSUME CountInv, WeightsInv, ProcessSubset PROVE WeightsInv'
  OBVIOUS
<1> DEFINE n == Len(table)
           k == pair
           lattice == Lattice(data[k])
           old == CountsBefore(Lattices, k - 1, n)
           c == CountsOf(lattice, n)
<1>1. /\ stage = "count" /\ queue # <<>> /\ stage' = stage
      /\ opts' = opts /\ data' = data /\ pair' = pair /\ table' = table /\ ngrams' = ngrams
  BY DEF ProcessSubset
<1>2. /\ opts.order \in Nat /\ n \in Nat /\ IsTable(table) /\ IsSequence(queue)
      /\ data \in Corpora /\ UnitesPair
  BY <1>1 DEF CountInv, CountSays
<1>3. /\ Uniting(trie, ngrams, Ats(queue), n) /\ k \in 1 .. Len(data)
      /\ Seen(k - 1) \subseteq DOMAIN trie /\ DOMAIN trie \subseteq Seen(k)
  BY <1>2 DEF UnitesPair
<1>4. /\ lattice # {} /\ ngrams = CountNgrams(lattice) /\ Weighs(trie, queue, old, c)
  BY <1>1, WeighedIs DEF WeightsInv, WeighsPair
<1>5. Counts(trie, ngrams, old, c)
  BY <1>2, <1>3, <1>4, PairCounts
<1>6. WeightStep(trie, ngrams, queue[1], trie') /\ QueueStep(trie, ngrams, queue, trie', queue')
  <2> HIDE DEF n
  <2> QED BY <1>2, <1>3, ProcessWeights
<1>7. CountInv'
  BY ProcessSubsetCountInv
<1>8. /\ IsTrie(trie, n) /\ IsTrie(ngrams, n) /\ IsTrie(trie', n)
      /\ stage' = "count" /\ CountSays' /\ table' = table
  <2>1. IsTrie(trie, n) /\ IsTrie(ngrams, n)
    BY <1>3 DEF Uniting
  <2>2. IsTrie(trie', n)
    BY <1>1, <1>7 DEF CountInv
  <2>3. CountSays'
    BY <1>1, <1>7 DEF CountInv
  <2> QED BY <1>1, <2>1, <2>2, <2>3
<1> HIDE DEF n, k, lattice, old, c
<1>9. /\ Len(queue) \in Nat /\ Len(queue) > 0
      /\ \A i \in 1 .. Len(queue) : queue[i].at \in DOMAIN trie /\ queue[i].at \in DOMAIN ngrams
      /\ \A i, j \in 1 .. Len(queue) : i # j => ~ Begins(queue[i].at, queue[j].at)
  <2>1. Len(queue) \in Nat /\ Len(queue) > 0
    BY <1>1, <1>2, SequenceFacts DEF IsSequence
  <2>2. Len(Ats(queue)) = Len(queue) /\ \A i \in 1 .. Len(queue) : Ats(queue)[i] = queue[i].at
    BY <2>1 DEF Ats
  <2> DEFINE ats == Ats(queue)
  <2>3. /\ ats \in Seq(DOMAIN trie \cap DOMAIN ngrams)
        /\ \A i, j \in 1 .. Len(ats) : i # j => ~ Begins(ats[i], ats[j])
    BY <1>3 DEF Uniting
  <2> HIDE DEF ats
  <2>4. \A i \in 1 .. Len(ats) : ats[i] \in DOMAIN trie \cap DOMAIN ngrams
    BY <2>3
  <2> QED BY <2>1, <2>2, <2>3, <2>4 DEF ats
<1>10. Weighs(trie', queue', old, c)
  <2> DEFINE t == trie
             g == ngrams
             s == queue
             t2 == trie'
             s2 == queue'
  <2>1. /\ n \in Nat /\ IsTrie(t, n) /\ IsTrie(g, n) /\ IsTrie(t2, n) /\ Len(s) \in Nat /\ Len(s) > 0
        /\ \A i \in 1 .. Len(s) : s[i].at \in DOMAIN t /\ s[i].at \in DOMAIN g
        /\ \A i, j \in 1 .. Len(s) : i # j => ~ Begins(s[i].at, s[j].at)
        /\ Counts(t, g, old, c) /\ WeightStep(t, g, s[1], t2) /\ QueueStep(t, g, s, t2, s2)
        /\ Weighs(t, s, old, c)
    BY <1>2, <1>4, <1>5, <1>6, <1>8, <1>9
  <2> HIDE DEF t, g, s, t2, s2
  <2>2. Weighs(t2, s2, old, c)
    BY ONLY <2>1, WeighsStep
  <2> QED BY <2>2 DEF t2, s2
<1>11. Lattices' = Lattices /\ CountOrder' = CountOrder /\ \A i : Lattice(data[i])' = Lattice(data[i])
  BY <1>1, LatticesKept
<1>12. Lattice(data[pair])' = lattice
  BY <1>1, <1>11 DEF lattice, k
<1>13. WeighsPair'
  <2>1. CountsBefore(Lattices, pair - 1, Len(table))' = old /\ CountsOf(Lattice(data[pair]), Len(table))' = c
    BY <1>1, <1>11, <1>12 DEF old, c, n, k
  <2>2. (Lattice(data[pair]) # {} /\ ngrams = WeighedGrams(Lattice(data[pair]), CountOrder))'
    BY <1>1, <1>4, <1>11, <1>12, WeighedIs
  <2>3. Weighs(trie, queue, CountsBefore(Lattices, pair - 1, Len(table)),
               CountsOf(Lattice(data[pair]), Len(table)))'
    BY <1>10, <2>1
  <2> QED BY <2>2, <2>3 DEF WeighsPair
<1>14. ASSUME queue' = <<>> PROVE WeighsSeen'
  <2>1. DOMAIN trie' = Seen(k)
    <3>1. (queue = <<>> => DOMAIN trie = Seen(pair))'
      BY <1>8 DEF CountSays
    <3>2. Seen(pair)' = Seen(pair)
      BY <1>1, SeenKept
    <3> QED BY <1>14, <3>1, <3>2 DEF k
  <2>2. ASSUME NEW p \in DOMAIN trie', p # Root
        PROVE  Times(ProductTo(trie', p), trie'[p].final) = Total(p, Lattices, k)
    <3>1. Len(<<>>) = 0 /\ 1 .. 0 = {}
      OBVIOUS
    <3>2. Times(ProductTo(trie', p), trie'[p].final) = Plus(c[p], old[p])
      BY <1>10, <1>14, <2>2, <3>1 DEF Weighs
    <3>3. k \in 0 .. Len(data) /\ k - 1 \in Nat /\ (k - 1) + 1 = k
      BY <1>2, <1>3, CorpusLength
    <3>4. p \in Seq(1 .. n) /\ Len(p) \in 1 .. CountOrder
      BY <1>2, <2>1, <2>2, <3>3, SeenFacts DEF n
    <3>5. \A i \in 1 .. Len(data) : CountTyped(p, Lattices, i)
      BY <1>2, <3>4, LatticeCounts DEF n
    <3> DEFINE j == k - 1
    <3>6. j \in Nat /\ j + 1 = k /\ \A i \in 1 .. j + 1 : CountTyped(p, Lattices, i)
      BY <1>3, <3>3, <3>5
    <3>7. Lattices[k] = lattice
      BY <1>3 DEF Lattices, lattice
    <3>8. old[p] = Total(p, Lattices, j) /\ c[p] = ExpectedCount(p, lattice)
      BY <2>2, <3>4 DEF old, c, CountsOf, CountsBefore
    <3> HIDE DEF j
    <3>9. Total(p, Lattices, j + 1) = Plus(ExpectedCount(p, Lattices[j + 1]), Total(p, Lattices, j))
      BY <1>4, <3>6, <3>7, TotalStep
    <3> QED BY <3>2, <3>6, <3>7, <3>8, <3>9
  <2>3. Weighted(trie')
    BY <1>10 DEF Weighs
  <2>4. \A p \in DOMAIN trie' : p # Root => Times(ProductTo(trie', p), trie'[p].final) = Total(p, Lattices', pair')
    BY <1>1, <1>11, <2>2 DEF k
  <2> QED BY <2>3, <2>4 DEF WeighsSeen
<1> QED BY <1>13, <1>14 DEF WeightsInv

\* Every other step of a creation ends the counting, or comes after it.
LEMMA CountedWeightsInv == Counted => WeightsInv'
BY DEF Counted, WeightsInv

\* Steps that are about something else.
LEMMA KeptWeightsInv == WeightsInv /\ CountKept => WeightsInv'
<1> SUFFICES ASSUME WeightsInv, CountKept PROVE WeightsInv'
  OBVIOUS
<1>1. /\ opts' = opts /\ data' = data /\ stage' = stage /\ pair' = pair /\ table' = table
      /\ ngrams' = ngrams /\ trie' = trie /\ queue' = queue
  BY DEF CountKept
<1>2. Lattices' = Lattices /\ CountOrder' = CountOrder /\ \A i : Lattice(data[i])' = Lattice(data[i])
  BY <1>1, LatticesKept
<1>3. Lattice(data[pair])' = Lattice(data[pair])
  BY <1>1, <1>2
<1>4. WeighsPair => WeighsPair'
  <2>1. CountsBefore(Lattices, pair - 1, Len(table))' = CountsBefore(Lattices, pair - 1, Len(table))
    BY <1>1, <1>2
  <2>2. CountsOf(Lattice(data[pair]), Len(table))' = CountsOf(Lattice(data[pair]), Len(table))
    BY <1>1, <1>3
  <2>3. Weighs(trie, queue, CountsBefore(Lattices, pair - 1, Len(table)), CountsOf(Lattice(data[pair]), Len(table)))
        => Weighs(trie, queue, CountsBefore(Lattices, pair - 1, Len(table)), CountsOf(Lattice(data[pair]), Len(table)))'
    BY <1>1, <2>1, <2>2
  <2>4. (Lattice(data[pair]) # {} /\ ngrams = WeighedGrams(Lattice(data[pair]), CountOrder))
        => (Lattice(data[pair]) # {} /\ ngrams = WeighedGrams(Lattice(data[pair]), CountOrder))'
    BY <1>1, <1>2, <1>3
  <2> QED BY <2>3, <2>4 DEF WeighsPair
<1>5. WeighsSeen => WeighsSeen'
  <2>1. Weighted(trie) => Weighted(trie)'
    BY <1>1
  <2>2. ASSUME NEW p \in DOMAIN trie
        PROVE  Times(ProductTo(trie', p), trie'[p].final) = Times(ProductTo(trie, p), trie[p].final)
               /\ Total(p, Lattices', pair') = Total(p, Lattices, pair)
    BY <1>1, <1>2
  <2> QED BY <1>1, <2>1, <2>2 DEF WeighsSeen
<1> QED BY <1>1, <1>4, <1>5 DEF WeightsInv

LEMMA TopologyNextWeightsInv == CountInv /\ WeightsInv /\ TopologyNext => WeightsInv'
<1> SUFFICES ASSUME CountInv, WeightsInv, TopologyNext PROVE WeightsInv'
  OBVIOUS
<1>1. CASE MakeSymbols
  BY <1>1, MakeSymbolsWeightsInv
<1>2. CASE AddCounts
  BY <1>2, AddCountsWeightsInv
<1>3. CASE ProcessSubset
  BY <1>3, ProcessSubsetWeightsInv
<1>4. CASE Select
  BY <1>4 DEF Select, WeightsInv
<1>5. CASE CreateNgramTrie
  BY <1>5 DEF CreateNgramTrie, WeightsInv
<1>6. CASE DoubleFree
  BY <1>6 DEF DoubleFree, WeightsInv
<1>7. CASE StartAddBackoff \/ AddBackoffArc \/ AddPhiArc \/ Convert \/ NgramFsaInsertFeatures \/ CreateScoringFst
  <2>1. Counted
    <3>1. CASE StartAddBackoff
      BY <3>1 DEF StartAddBackoff, Counted
    <3>2. CASE AddBackoffArc
      BY <3>2 DEF AddBackoffArc, Counted
    <3>3. CASE AddPhiArc
      BY <3>3 DEF AddPhiArc, Counted
    <3>4. CASE Convert
      BY <3>4 DEF Convert, Counted
    <3>5. CASE NgramFsaInsertFeatures
      BY <3>5 DEF NgramFsaInsertFeatures, Counted
    <3>6. CASE CreateScoringFst
      BY <3>6 DEF CreateScoringFst, Counted
    <3> QED BY <1>7, <3>1, <3>2, <3>3, <3>4, <3>5, <3>6
  <2> QED BY <2>1, CountedWeightsInv
<1>8. CASE NoepshistNext
  <2>1. Counted
    <3>1. CASE StartScoring
      BY <3>1 DEF StartScoring, Counted
    <3>2. CASE AddArcs
      BY <3>2 DEF AddArcs, Counted
    <3>3. CASE ComposeScoringFst
      BY <3>3 DEF ComposeScoringFst, Counted
    <3> QED BY <1>8, <3>1, <3>2, <3>3 DEF NoepshistNext
  <2> QED BY <2>1, CountedWeightsInv
<1> QED BY <1>1, <1>2, <1>3, <1>4, <1>5, <1>6, <1>7, <1>8 DEF TopologyNext, CreateNext, CountNext

LEMMA AllNextWeightsInv == CountInv /\ WeightsInv /\ [AllNext]_allVars => WeightsInv'
<1> SUFFICES ASSUME CountInv, WeightsInv, [AllNext]_allVars PROVE WeightsInv'
  OBVIOUS
<1>1. CASE TopologyNext
  BY <1>1, TopologyNextWeightsInv
<1>2. CASE HandOver
  BY <1>2 DEF HandOver, WeightsInv
<1>3. CASE UNCHANGED topologyVars
  <2>1. CountKept
    BY <1>3 DEF topologyVars, createVars, countVars, CountKept
  <2> QED BY <2>1, KeptWeightsInv
<1> QED BY <1>1, <1>2, <1>3 DEF AllNext, allVars, Create, SessionStep

\* There are no n-grams without alignments.
LEMMA NoGrams == NgramsOf({}, CountOrder) = {}
BY DEF NgramsOf, Occurrences

LEMMA WeightsAreCounts == CountInv /\ WeightsInv => NgramCountsExact
<1> SUFFICES ASSUME CountInv, WeightsInv, stage = "count", queue = <<>> PROVE NgramCountsExact
  BY DEF NgramCountsExact
<1> DEFINE f == [i \in 1 .. pair |-> Lattice(data[i])]
           ls == Tabulated(f)
           counted == CountedPairs(ls, pair)
           grams == UNION {NgramsOf(ls[i], CountOrder) : i \in counted}
<1>1. ls = [i \in 1 .. pair |-> Lattice(data[i])]
  BY TabulatedIs
<1>2. /\ opts.order \in Nat /\ IsTable(table) /\ data \in Corpora /\ pair \in 0 .. Len(data) /\ DOMAIN trie = Seen(pair)
      /\ WeighsSeen
  BY DEF CountInv, CountSays, WeightsInv
<1>3. Len(data) \in Nat /\ pair \in Nat /\ \A i \in 1 .. pair : i \in 1 .. Len(data)
  BY <1>2, CorpusLength
<1>4. \A i \in 1 .. pair : ls[i] = Lattice(data[i]) /\ Lattices[i] = ls[i]
  BY <1>1, <1>3 DEF Lattices
<1> HIDE DEF f, ls
<1>5. grams \cup {<<>>} = Seen(pair)
  <2>1. ASSUME NEW i \in 1 .. pair, i \notin counted PROVE NgramsOf(Lattice(data[i]), CountOrder) = {}
    BY <1>4, <2>1, NoGrams DEF CountedPairs
  <2>2. counted \subseteq 1 .. pair
    BY DEF CountedPairs
  <2> HIDE DEF counted
  <2>3. \A p \in grams : p \in Seen(pair)
    BY <1>4, <2>2 DEF Seen
  <2>4. \A p \in Seen(pair) : p \in grams \/ p = <<>>
    BY <1>4, <2>1 DEF Seen, Root
  <2> QED BY <2>3, <2>4 DEF Seen, Root
<1>6. ASSUME NEW p \in grams
      PROVE  PathWeight(trie, p) = SumOver(counted, LAMBDA i : ExpectedCount(p, ls[i]))
  <2>1. p \in DOMAIN trie /\ p # Root
    <3>1. p \in Seen(pair)
      BY <1>5
    <3>2. PICK i \in counted : p \in NgramsOf(ls[i], CountOrder)
      OBVIOUS
    <3>3. i \in 1 .. pair
      BY DEF CountedPairs
    <3> HIDE DEF counted, grams
    <3>4. p # <<>>
      <4>1. CountOrder \in Nat
        BY <1>2 DEF CountOrder
      <4>2. Len(p) \in 1 .. CountOrder
        BY <3>2 DEF NgramsOf
      <4> QED BY <4>1, <4>2, EmptyFacts
    <3> QED BY <1>2, <3>1, <3>4 DEF Root
  <2> HIDE DEF counted, grams
  <2>2. p \in Seq(1 .. Len(table)) /\ Len(p) \in 1 .. CountOrder
    BY <1>2, <2>1, SeenFacts
  <2>3. \A i \in 1 .. pair : CountTyped(p, Lattices, i) /\ ls[i] = Lattices[i]
    BY <1>2, <1>3, <1>4, <2>2, LatticeCounts
  <2>4. Total(p, ls, pair) = Total(p, Lattices, pair)
    BY <1>3, <2>3, TotalSame
  <2>5. PathWeight(trie, p) = Total(p, Lattices, pair)
    BY <1>2, <2>1, PathWeightIs DEF WeighsSeen
  <2> QED BY <2>4, <2>5 DEF Total, counted
<1>7. DOMAIN trie = grams \cup {<<>>} /\ \A p \in grams : PathWeight(trie, p) = SumOver(counted, LAMBDA i : ExpectedCount(p, ls[i]))
  BY <1>2, <1>5, <1>6
<1> QED BY <1>7 DEF NgramCountsExact, counted, CountedPairs, ls, f

\* When the counts of a pair have been united with the trie, each n-gram weighs
\* its expected count in all pairs so far, whatever the pairs share and in
\* whichever order their n-grams are united.
THEOREM CountsAreExact == AllSpec => []NgramCountsExact
<1>1. AllInit => CountInv /\ WeightsInv
  BY InitCountInv, InitWeightsInv
<1>2. CountInv /\ WeightsInv /\ [AllNext]_allVars => (CountInv /\ WeightsInv)'
  BY AllNextCountInv, AllNextWeightsInv
<1>3. CountInv /\ WeightsInv => NgramCountsExact
  BY WeightsAreCounts
<1> QED BY <1>1, <1>2, <1>3, PTL DEF AllSpec

=============================================================================
