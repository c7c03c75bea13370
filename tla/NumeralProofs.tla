--------------------------- MODULE NumeralProofs ---------------------------
(* What numerals are worth, for every base and any number of digits.       *)
EXTENDS Numerals, TLAPS, NaturalsInduction, WellFoundedInduction

LessThan == {ss \in Nat \X Nat : ss[1] < ss[2]}

(* A set of numbers has a least one: a claim about every number is shown by *)
(* what the least counterexample would have to be.  (The library's         *)
(* induction takes an operator, which no prover here can supply.)          *)
LEMMA Least ==
    ASSUME NEW S \in SUBSET Nat, S # {}
    PROVE  \E n \in S : \A k \in S : n <= k
<1>1. IsWellFoundedOn(LessThan, Nat)
  BY NatLessThanWellFounded DEF OpToRel, LessThan
<1>2. PICK n \in S : \A y \in S : ~(<<y, n>> \in LessThan)
  BY <1>1, WFMin
<1>3. \A y \in S : ~(y < n)
  BY <1>2 DEF LessThan
<1>4. QED
  BY <1>3

LEMMA ProductCounts ==
    ASSUME NEW a \in Nat, NEW b \in Nat
    PROVE  a * b \in Nat
OBVIOUS

(* f is the table by which ValueOf reads the first k digits.             *)
Reads(base, digits, k, f) ==
    f = [n \in 0..k |-> IF n = 0 THEN 0 ELSE base * f[n - 1] + digits[n]]

(* There is one, so that ValueOf is what its definition says.            *)
LEMMA ReadingsExist ==
    ASSUME NEW base \in Nat \ {0, 1},
           NEW digits \in Seq(Nat), NEW k \in Nat
    PROVE  \E f : Reads(base, digits, k, f)
<1> DEFINE S == {n \in Nat : ~\E f : Reads(base, digits, n, f)}
<1>1. SUFFICES ASSUME S # {} PROVE FALSE
  OBVIOUS
<1>2. PICK n \in S : \A m \in S : n <= m
  BY <1>1, Least
<1>3. Reads(base, digits, 0, [i \in 0..0 |-> 0])
  BY DEF Reads
<1>4. n \in Nat \ {0}
  BY <1>3
<1>5. n - 1 \in Nat /\ n - 1 \notin S
  BY <1>2, <1>4
<1>6. PICK f : Reads(base, digits, n - 1, f)
  BY <1>5
<1> DEFINE g == [i \in 0..n |-> IF i = n THEN base * f[n - 1] + digits[n] ELSE f[i]]
<1>7. ASSUME NEW i \in 0..n
      PROVE  g[i] = IF i = 0 THEN 0 ELSE base * g[i - 1] + digits[i]
  <2>1. CASE i = n
    <3>1. n - 1 \in 0..n /\ n - 1 # n
      BY <1>4
    <3>2. g[n - 1] = f[n - 1]
      BY <3>1
    <3>3. QED
      BY <2>1, <3>2, <1>4
  <2>2. CASE i # n
    <3>1. i \in 0..(n - 1)
      BY <2>2, <1>4
    <3>2. f[i] = IF i = 0 THEN 0 ELSE base * f[i - 1] + digits[i]
      BY <1>6, <3>1 DEF Reads
    <3>3. i # 0 => i - 1 \in 0..n /\ i - 1 # n
      BY <3>1, <1>4
    <3>4. i # 0 => g[i - 1] = f[i - 1]
      BY <3>3
    <3>5. QED
      BY <2>2, <3>2, <3>4
  <2>3. QED
    BY <2>1, <2>2
<1>8. g = [i \in 0..n |-> IF i = 0 THEN 0 ELSE base * g[i - 1] + digits[i]]
  <2> HIDE DEF S
  <2>1. g = [i \in 0..n |-> g[i]]
    OBVIOUS
  <2> HIDE DEF g
  <2>2. QED
    BY <2>1, <1>7
<1>9. Reads(base, digits, n, g)
  BY <1>8 DEF Reads
<1>10. QED
  BY <1>9, <1>2

(* Two sequences read the same as far as they are the same.               *)
LEMMA ReadingsAgree ==
    ASSUME NEW base \in Nat \ {0, 1},
           NEW s \in Seq(Nat), NEW t \in Seq(Nat), NEW k \in Nat, NEW l \in Nat, k <= l,
           \A i \in 1..k : s[i] = t[i],
           NEW f, Reads(base, s, k, f), NEW g, Reads(base, t, l, g)
    PROVE  \A n \in 0..k : f[n] = g[n]
<1> DEFINE S == {n \in 0..k : f[n] # g[n]}
<1>1. SUFFICES ASSUME S # {} PROVE FALSE
  OBVIOUS
<1>2. PICK n \in S : \A m \in S : n <= m
  <2>1. S \in SUBSET Nat
    OBVIOUS
  <2> HIDE DEF S
  <2>2. QED
    BY <1>1, <2>1, Least
<1>3. /\ f[n] = IF n = 0 THEN 0 ELSE base * f[n - 1] + s[n]
      /\ g[n] = IF n = 0 THEN 0 ELSE base * g[n - 1] + t[n]
  <2>1. n \in 0..k /\ n \in 0..l
    OBVIOUS
  <2>2. QED
    BY <2>1 DEF Reads
<1>4. n # 0 /\ n \in 1..k
  BY <1>3
<1>5. n - 1 \in 0..k /\ n - 1 \notin S
  BY <1>2, <1>4
<1>6. f[n - 1] = g[n - 1] /\ s[n] = t[n]
  BY <1>4, <1>5
<1>7. QED
  BY <1>3, <1>4, <1>6

LEMMA ReadingsCount ==
    ASSUME NEW base \in Nat \ {0, 1},
           NEW s \in Seq(Nat), NEW f, Reads(base, s, Len(s), f)
    PROVE  \A n \in 0..Len(s) : f[n] \in Nat
<1> DEFINE S == {n \in 0..Len(s) : f[n] \notin Nat}
<1>1. SUFFICES ASSUME S # {} PROVE FALSE
  OBVIOUS
<1>2. PICK n \in S : \A m \in S : n <= m
  <2>1. S \in SUBSET Nat
    OBVIOUS
  <2> HIDE DEF S
  <2>2. QED
    BY <1>1, <2>1, Least
<1>3. f[n] = IF n = 0 THEN 0 ELSE base * f[n - 1] + s[n]
  <2>1. n \in 0..Len(s)
    OBVIOUS
  <2>2. QED
    BY <2>1 DEF Reads
<1>4. n # 0 /\ n \in 1..Len(s)
  BY <1>3
<1>5. n - 1 \in 0..Len(s) /\ n - 1 \notin S
  BY <1>2, <1>4
<1>6. f[n - 1] \in Nat /\ s[n] \in Nat
  BY <1>4, <1>5
<1>7. base * f[n - 1] \in Nat
  BY <1>6, ProductCounts
<1>8. QED
  BY <1>3, <1>4, <1>6, <1>7

LEMMA ValueIsRead ==
    ASSUME NEW base \in Nat \ {0, 1},
           NEW digits \in Seq(Nat)
    PROVE  \E f : Reads(base, digits, Len(digits), f) /\ ValueOf(base, digits) = f[Len(digits)]
<1> DEFINE f == CHOOSE f : Reads(base, digits, Len(digits), f)
<1>1. ValueOf(base, digits) = f[Len(digits)]
  BY DEF ValueOf, Reads
<1>2. \E g : Reads(base, digits, Len(digits), g)
  BY ReadingsExist
<1>3. Reads(base, digits, Len(digits), f)
  BY <1>2
<1>4. QED
  BY <1>1, <1>3

LEMMA ValueCounts ==
    ASSUME NEW base \in Nat \ {0, 1},
           NEW digits \in Seq(Nat)
    PROVE  ValueOf(base, digits) \in Nat
BY ValueIsRead, ReadingsCount

LEMMA ValueOfNone ==
    ASSUME NEW base \in Nat \ {0, 1}
    PROVE  ValueOf(base, <<>>) = 0
<1>1. <<>> \in Seq(Nat) /\ Len(<<>>) = 0
  OBVIOUS
<1>2. PICK f : Reads(base, <<>>, 0, f) /\ ValueOf(base, <<>>) = f[0]
  BY <1>1, ValueIsRead
<1>3. QED
  BY <1>2 DEF Reads

(* A digit on the right.                                                   *)
LEMMA ValueOfMore ==
    ASSUME NEW base \in Nat \ {0, 1},
           NEW s \in Seq(Nat), NEW d \in Nat
    PROVE  ValueOf(base, Append(s, d)) = base * ValueOf(base, s) + d
<1> DEFINE t == Append(s, d)
           l == Len(s)
<1>1. /\ t \in Seq(Nat) /\ Len(t) = l + 1 /\ l \in Nat
      /\ \A i \in 1..l : s[i] = t[i]
      /\ t[l + 1] = d
  OBVIOUS
<1>2. PICK f : Reads(base, s, l, f) /\ ValueOf(base, s) = f[l]
  BY ValueIsRead
<1>3. PICK g : Reads(base, t, l + 1, g) /\ ValueOf(base, t) = g[l + 1]
  BY <1>1, ValueIsRead
<1> HIDE DEF t
<1>4. f[l] = g[l]
  <2>1. l \in Nat /\ l + 1 \in Nat /\ l <= l + 1 /\ l \in 0..l
    BY <1>1
  <2> HIDE DEF l
  <2>2. \A n \in 0..l : f[n] = g[n]
    BY <1>1, <1>2, <1>3, <2>1, ReadingsAgree
  <2>3. QED
    BY <2>1, <2>2
<1> HIDE DEF l
<1>5. g[l + 1] = base * g[l] + t[l + 1]
  BY <1>1, <1>3 DEF Reads
<1>6. QED
  BY <1>1, <1>2, <1>3, <1>4, <1>5 DEF t, l

LEMMA NoZeros ==
    ASSUME NEW s \in Seq(Nat)
    PROVE  s \o Zeros(0) = s
BY DEF Zeros

LEMMA MoreZeros ==
    ASSUME NEW s \in Seq(Nat), NEW n \in Nat
    PROVE  /\ s \o Zeros(n) \in Seq(Nat)
           /\ s \o Zeros(n + 1) = Append(s \o Zeros(n), 0)
BY DEF Zeros

LEMMA PowersAreNumbers ==
    ASSUME NEW base \in Nat \ {0, 1},
           NEW n \in Nat
    PROVE  Power(base, n) \in Nat
<1>1. <<1>> \in Seq(Nat)
  OBVIOUS
<1>2. QED
  BY <1>1, MoreZeros, ValueCounts DEF Power

LEMMA PowerOfNone ==
    ASSUME NEW base \in Nat \ {0, 1}
    PROVE  Power(base, 0) = 1
<1>1. <<>> \in Seq(Nat) /\ <<1>> \in Seq(Nat) /\ <<1>> = Append(<<>>, 1)
  OBVIOUS
<1>2. Power(base, 0) = ValueOf(base, Append(<<>>, 1))
  BY <1>1, NoZeros DEF Power
<1>3. ValueOf(base, Append(<<>>, 1)) = base * ValueOf(base, <<>>) + 1
  BY <1>1, ValueOfMore
<1>4. QED
  BY <1>2, <1>3, ValueOfNone

LEMMA PowerOfMore ==
    ASSUME NEW base \in Nat \ {0, 1},
           NEW n \in Nat
    PROVE  Power(base, n + 1) = base * Power(base, n)
<1>1. <<1>> \in Seq(Nat)
  OBVIOUS
<1>2. /\ <<1>> \o Zeros(n) \in Seq(Nat)
      /\ <<1>> \o Zeros(n + 1) = Append(<<1>> \o Zeros(n), 0)
  BY <1>1, MoreZeros
<1>3. ValueOf(base, Append(<<1>> \o Zeros(n), 0)) = base * ValueOf(base, <<1>> \o Zeros(n)) + 0
  <2> DEFINE t == <<1>> \o Zeros(n)
  <2> HIDE DEF t
  <2>1. t \in Seq(Nat) => ValueOf(base, Append(t, 0)) = base * ValueOf(base, t) + 0
    BY ValueOfMore
  <2>2. QED
    BY <1>2, <2>1 DEF t
<1>4. Power(base, n + 1) = base * Power(base, n) + 0
  BY <1>2, <1>3 DEF Power
<1>5. QED
  BY <1>4, PowersAreNumbers, ProductCounts

(* k zeros on the right.                                                   *)
LEMMA ValueShifts ==
    ASSUME NEW base \in Nat \ {0, 1},
           NEW s \in Seq(Nat), NEW k \in Nat
    PROVE  ValueOf(base, s \o Zeros(k)) = ValueOf(base, s) * Power(base, k)
<1> DEFINE S == {n \in Nat : ValueOf(base, s \o Zeros(n)) # ValueOf(base, s) * Power(base, n)}
<1>1. SUFFICES ASSUME S # {} PROVE FALSE
  OBVIOUS
<1>2. PICK n \in S : \A m \in S : n <= m
  BY <1>1, Least
<1>3. ValueOf(base, s) \in Nat
  BY ValueCounts
<1>4. n # 0
  <2>1. s \o Zeros(0) = s
    BY NoZeros
  <2>2. ValueOf(base, s) * 1 = ValueOf(base, s)
    BY <1>3
  <2>3. ValueOf(base, s \o Zeros(0)) = ValueOf(base, s) * Power(base, 0)
    BY <2>1, <2>2, PowerOfNone
  <2>4. QED
    BY <2>3
<1> DEFINE m == n - 1
<1>5. m \in Nat /\ m \notin S /\ n = m + 1
  <2>1. n \in Nat \ {0} /\ \A i \in S : n <= i
    BY <1>2, <1>4
  <2> HIDE DEF S
  <2>2. QED
    BY <2>1
<1>6. ValueOf(base, s \o Zeros(m)) = ValueOf(base, s) * Power(base, m)
  BY <1>5
<1> HIDE DEF m
<1>7. ValueOf(base, s \o Zeros(n)) = base * ValueOf(base, s \o Zeros(m)) + 0
  <2> DEFINE t == s \o Zeros(m)
  <2>1. t \in Seq(Nat) /\ s \o Zeros(n) = Append(t, 0)
    BY <1>5, MoreZeros
  <2> HIDE DEF t
  <2>2. ValueOf(base, Append(t, 0)) = base * ValueOf(base, t) + 0
    BY <2>1, ValueOfMore
  <2>3. QED
    BY <2>1, <2>2 DEF t
<1>8. Power(base, n) = base * Power(base, m) /\ Power(base, m) \in Nat
  BY <1>5, PowerOfMore, PowersAreNumbers
<1>9. ValueOf(base, s \o Zeros(n)) = ValueOf(base, s) * Power(base, n)
  BY <1>3, <1>6, <1>7, <1>8
<1>10. QED
  BY <1>9

LEMMA PowersArePositive ==
    ASSUME NEW base \in Nat \ {0, 1},
           NEW k \in Nat
    PROVE  Power(base, k) > 0
<1> DEFINE S == {n \in Nat : ~(Power(base, n) > 0)}
<1>1. SUFFICES ASSUME S # {} PROVE FALSE
  OBVIOUS
<1>2. PICK n \in S : \A m \in S : n <= m
  BY <1>1, Least
<1>3. n # 0
  BY PowerOfNone
<1> DEFINE m == n - 1
<1>4. m \in Nat /\ m \notin S /\ n = m + 1
  BY <1>2, <1>3
<1>5. Power(base, m) > 0
  BY <1>4
<1> HIDE DEF m
<1>6. Power(base, n) = base * Power(base, m) /\ Power(base, m) \in Nat
  BY <1>4, PowerOfMore, PowersAreNumbers
<1>7. QED
  BY <1>5, <1>6

LEMMA PowerOfSum ==
    ASSUME NEW base \in Nat \ {0, 1},
           NEW a \in Nat, NEW b \in Nat
    PROVE  Power(base, a + b) = Power(base, a) * Power(base, b)
<1>1. <<1>> \in Seq(Nat)
  OBVIOUS
<1>2. <<1>> \o Zeros(a) \in Seq(Nat)
  BY <1>1, MoreZeros
<1>3. (<<1>> \o Zeros(a)) \o Zeros(b) = <<1>> \o Zeros(a + b)
  BY DEF Zeros
<1>4. QED
  BY <1>2, <1>3, ValueShifts DEF Power

LEMMA Divided ==
    ASSUME NEW a \in Nat, NEW b \in Nat \ {0}
    PROVE  /\ a \div b \in Nat
           /\ a % b \in 0..(b - 1)
           /\ a = (a \div b) * b + (a % b)
OBVIOUS

(* Multiples of b are b apart.                                             *)
LEMMA RowsApart ==
    ASSUME NEW b \in Nat, NEW x \in Nat, NEW y \in Nat, x < y
    PROVE  x * b + b <= y * b
<1>1. PICK d \in Nat : y = x + 1 + d
  <2>1. y - x - 1 \in Nat /\ y = x + 1 + (y - x - 1)
    OBVIOUS
  <2>2. QED
    BY <2>1
<1>2. y * b = x * b + b + d * b
  BY <1>1
<1>3. d * b \in Nat /\ x * b \in Nat
  OBVIOUS
<1>4. QED
  BY <1>2, <1>3

(* Quotient and remainder are unique.                                      *)
LEMMA Quotient ==
    ASSUME NEW b \in Nat \ {0}, NEW q \in Nat, NEW r \in Nat, r < b,
           NEW p \in Nat, NEW t \in Nat, t < b, q * b + r = p * b + t
    PROVE  q = p /\ r = t
<1>1. ASSUME NEW x \in Nat, NEW y \in Nat, x < y
      PROVE  x * b + b <= y * b
  BY <1>1, RowsApart
<1>2. q * b \in Nat /\ p * b \in Nat
  OBVIOUS
<1>3. ~(q < p)
  BY <1>1, <1>2
<1>4. ~(p < q)
  BY <1>1, <1>2
<1>5. QED
  BY <1>3, <1>4

LEMMA QuotientOf ==
    ASSUME NEW a \in Nat, NEW b \in Nat \ {0}, NEW q \in Nat, NEW r \in Nat, r < b,
           a = q * b + r
    PROVE  a \div b = q /\ a % b = r
<1>1. /\ a \div b \in Nat /\ a % b \in Nat /\ a % b < b
      /\ a = (a \div b) * b + (a % b)
  BY Divided
<1> DEFINE p == a \div b
           t == a % b
<1>2. /\ p \in Nat /\ t \in Nat /\ t < b /\ q * b + r = p * b + t
  BY <1>1
<1> HIDE DEF p, t
<1>3. q = p /\ r = t
  BY <1>2, Quotient
<1>4. QED
  BY <1>3 DEF p, t

(* Dividing by ten and then by b.                                          *)
LEMMA DividedInSteps ==
    ASSUME NEW base \in Nat \ {0, 1},
           NEW a \in Nat, NEW b \in Nat \ {0}
    PROVE  /\ (a \div base) \div b = a \div (base * b)
           /\ base * ((a \div base) % b) + (a % base) = a % (base * b)
<1> DEFINE m == a \div base
           q == m \div b
           r == m % b
           d == a % base
<1>1. m \in Nat /\ d \in 0..(base - 1) /\ a = m * base + d
  BY Divided
<1> HIDE DEF m, d
<1>2. q \in Nat /\ r \in 0..(b - 1) /\ m = q * b + r
  BY <1>1, Divided
<1> HIDE DEF q, r
<1>3. base * b \in Nat \ {0} /\ base * r + d \in Nat /\ base * r + d < base * b
  BY <1>1, <1>2
<1>4. q * (base * b) = base * (q * b)
  BY <1>2
<1>5. q * b \in Nat
  BY <1>2
<1>6. a = q * (base * b) + (base * r + d)
  BY <1>1, <1>2, <1>4, <1>5
<1> DEFINE e == base * b
           f == base * r + d
<1>7. e \in Nat \ {0} /\ f \in Nat /\ f < e /\ a = q * e + f
  BY <1>3, <1>6
<1> HIDE DEF e, f
<1>8. a \div e = q /\ a % e = f
  BY <1>2, <1>7, QuotientOf
<1>9. QED
  BY <1>8 DEF e, f, q, r, m, d

(* n + 1 digits of m are n digits of a tenth of it, and its last.         *)
LEMMA LastDigit ==
    ASSUME NEW base \in Nat \ {0, 1},
           NEW m \in Nat, NEW n \in Nat
    PROVE  /\ DigitsOf(base, m \div base, n) \in Seq(Nat)
           /\ DigitsOf(base, m, n + 1) = Append(DigitsOf(base, m \div base, n), m % base)
<1>1. m \div base \in Nat
  BY Divided
<1>2. ASSUME NEW i \in 1..n
      PROVE  /\ ((m \div base) \div Power(base, n - i)) % base \in Nat
             /\ (m \div Power(base, n + 1 - i)) % base = ((m \div base) \div Power(base, n - i)) % base
  <2>1. n - i \in Nat /\ n + 1 - i = (n - i) + 1
    OBVIOUS
  <2>2. Power(base, n + 1 - i) = base * Power(base, n - i) /\ Power(base, n - i) \in Nat \ {0}
    BY <2>1, PowerOfMore, PowersAreNumbers, PowersArePositive
  <2>3. m \div Power(base, n + 1 - i) = (m \div base) \div Power(base, n - i)
    <3> DEFINE p == Power(base, n - i)
    <3> HIDE DEF p
    <3>1. p \in Nat \ {0} => (m \div base) \div p = m \div (base * p)
      BY DividedInSteps
    <3>2. QED
      BY <2>2, <3>1 DEF p
  <2>4. (m \div base) \div Power(base, n - i) \in Nat
    BY <1>1, <2>2, Divided
  <2>5. ((m \div base) \div Power(base, n - i)) % base \in Nat
    BY <2>4, Divided
  <2>6. QED
    BY <2>3, <2>5
<1>3. (m \div Power(base, n + 1 - (n + 1))) % base = m % base
  <2>1. n + 1 - (n + 1) = 0
    OBVIOUS
  <2>2. m \div 1 = m
    OBVIOUS
  <2>3. QED
    BY <2>1, <2>2, PowerOfNone
<1>4. m % base \in Nat
  BY Divided
<1> DEFINE s == DigitsOf(base, m \div base, n)
<1>5. s \in Seq(Nat) /\ Len(s) = n /\ DOMAIN s = 1..n
      /\ \A i \in 1..n : s[i] = ((m \div base) \div Power(base, n - i)) % base
  BY <1>2 DEF DigitsOf
<1> HIDE DEF s
<1>6. Append(s, m % base) = [i \in 1..(n + 1) |-> IF i \in 1..n THEN s[i] ELSE m % base]
  BY <1>4, <1>5
<1>7. ASSUME NEW i \in 1..(n + 1)
      PROVE  (m \div Power(base, n + 1 - i)) % base = IF i \in 1..n THEN s[i] ELSE m % base
  <2>1. CASE i \in 1..n
    BY <2>1, <1>2, <1>5
  <2>2. CASE i = n + 1
    BY <2>2, <1>3
  <2>3. QED
    BY <2>1, <2>2
<1>8. DigitsOf(base, m, n + 1) = [i \in 1..(n + 1) |-> IF i \in 1..n THEN s[i] ELSE m % base]
  <2> DEFINE G(i) == (m \div Power(base, n + 1 - i)) % base
             H(i) == IF i \in 1..n THEN s[i] ELSE m % base
  <2>1. \A i \in 1..(n + 1) : G(i) = H(i)
    BY <1>7
  <2>2. DigitsOf(base, m, n + 1) = [i \in 1..(n + 1) |-> G(i)]
    BY DEF DigitsOf
  <2> HIDE DEF G, H
  <2>3. DigitsOf(base, m, n + 1) = [i \in 1..(n + 1) |-> H(i)]
    BY <2>1, <2>2
  <2>4. QED
    BY <2>3 DEF H
<1>9. QED
  BY <1>5, <1>6, <1>8 DEF s

(* The digits of a number read as that number.                            *)
LEMMA DigitsWrite ==
    ASSUME NEW base \in Nat \ {0, 1},
           NEW k \in Nat, NEW a \in Nat
    PROVE  ValueOf(base, DigitsOf(base, a, k)) = a % Power(base, k)
<1> DEFINE S == {n \in Nat : \E m \in Nat : ValueOf(base, DigitsOf(base, m, n)) # m % Power(base, n)}
<1>1. SUFFICES ASSUME S # {} PROVE FALSE
  OBVIOUS
<1>2. PICK n \in S : \A i \in S : n <= i
  BY <1>1, Least
<1>3. PICK m \in Nat : ValueOf(base, DigitsOf(base, m, n)) # m % Power(base, n)
  OBVIOUS
<1>4. n # 0
  <2>1. DigitsOf(base, m, 0) = <<>>
    <3>1. DigitsOf(base, m, 0) \in Seq(Nat) /\ Len(DigitsOf(base, m, 0)) = 0
      BY DEF DigitsOf
    <3>2. QED
      BY <3>1
  <2>2. m % 1 = 0
    OBVIOUS
  <2>3. ValueOf(base, DigitsOf(base, m, 0)) = m % Power(base, 0)
    BY <2>1, <2>2, ValueOfNone, PowerOfNone
  <2>4. QED
    BY <2>3, <1>3
<1> DEFINE p == n - 1
           h == m \div base
<1>5. p \in Nat /\ p \notin S /\ n = p + 1
  <2>1. n \in Nat \ {0} /\ \A i \in S : n <= i
    BY <1>2, <1>4
  <2> HIDE DEF S
  <2>2. QED
    BY <2>1
<1>6. h \in Nat
  BY Divided
<1>7. ValueOf(base, DigitsOf(base, h, p)) = h % Power(base, p)
  BY <1>5, <1>6
<1> HIDE DEF p
<1>8. /\ DigitsOf(base, h, p) \in Seq(Nat)
      /\ DigitsOf(base, m, n) = Append(DigitsOf(base, h, p), m % base)
  BY <1>5, LastDigit
<1>9. m % base \in Nat
  BY Divided
<1>10. ValueOf(base, DigitsOf(base, m, n)) = base * (h % Power(base, p)) + (m % base)
  BY <1>7, <1>8, <1>9, ValueOfMore
<1>11. Power(base, n) = base * Power(base, p) /\ Power(base, p) \in Nat \ {0}
  BY <1>5, PowerOfMore, PowersAreNumbers, PowersArePositive
<1>12. base * (h % Power(base, p)) + (m % base) = m % (base * Power(base, p))
  BY <1>11, DividedInSteps
<1>13. QED
  BY <1>3, <1>10, <1>11, <1>12

(* A number is read back from any numeral long enough for it. *)
LEMMA ReadBack ==
    ASSUME NEW base \in Nat \ {0, 1}, NEW v \in Nat, NEW n \in Nat, v < Power(base, n)
    PROVE  /\ DigitsOf(base, v, n) \in Seq(0..(base - 1))
           /\ Len(DigitsOf(base, v, n)) = n
           /\ ValueOf(base, DigitsOf(base, v, n)) = v
<1> DEFINE p(i) == Power(base, n - i)
<1>1. ASSUME NEW i \in 1..n
      PROVE  (v \div p(i)) % base \in 0..(base - 1)
  <2>1. n - i \in Nat
    OBVIOUS
  <2>2. p(i) \in Nat \ {0}
    BY <2>1, PowersAreNumbers, PowersArePositive
  <2> HIDE DEF p
  <2>3. v \div p(i) \in Nat
    BY <2>2, Divided
  <2>4. QED
    BY <2>3, Divided
<1>2. DigitsOf(base, v, n) = [i \in 1..n |-> (v \div p(i)) % base]
  BY DEF DigitsOf
<1> HIDE DEF p
<1>3. DigitsOf(base, v, n) \in Seq(0..(base - 1)) /\ Len(DigitsOf(base, v, n)) = n
  BY <1>1, <1>2
<1>4. Power(base, n) \in Nat \ {0}
  BY PowersAreNumbers, PowersArePositive
<1>5. v % Power(base, n) = v
  <2>1. v = 0 * Power(base, n) + v
    BY <1>4
  <2>2. QED
    BY <1>4, <2>1, QuotientOf
<1>6. QED
  BY <1>3, <1>5, DigitsWrite

(* One more digit than it takes is a zero in front. *)
LEMMA LeadingZero ==
    ASSUME NEW base \in Nat \ {0, 1}, NEW v \in Nat, NEW n \in Nat, v < Power(base, n)
    PROVE  DigitsOf(base, v, n + 1) = <<0>> \o DigitsOf(base, v, n)
<1> DEFINE d == DigitsOf(base, v, n)
           G(i) == (v \div Power(base, n + 1 - i)) % base
           H(i) == IF i = 1 THEN 0 ELSE d[i - 1]
<1>1. Len(d) = n /\ d \in Seq(0..(base - 1))
  BY ReadBack
<1>2. G(1) = 0
  <2>1. Power(base, n) \in Nat \ {0} /\ n + 1 - 1 = n
    BY PowersAreNumbers, PowersArePositive
  <2>2. v = 0 * Power(base, n) + v
    BY <2>1
  <2>3. v \div Power(base, n) = 0
    BY <2>1, <2>2, QuotientOf
  <2>4. 0 % base = 0
    <3>1. 0 = 0 * base + 0
      OBVIOUS
    <3>2. QED
      BY <3>1, QuotientOf
  <2>5. QED
    BY <2>1, <2>3, <2>4
<1>3. ASSUME NEW i \in 2..(n + 1)
      PROVE  G(i) = d[i - 1]
  <2>1. i - 1 \in 1..n /\ n + 1 - i = n - (i - 1)
    OBVIOUS
  <2>2. d[i - 1] = (v \div Power(base, n - (i - 1))) % base
    BY <2>1 DEF DigitsOf
  <2>3. QED
    BY <2>1, <2>2
<1>4. \A i \in 1..(n + 1) : G(i) = H(i)
  BY <1>2, <1>3
<1>5. DigitsOf(base, v, n + 1) = [i \in 1..(n + 1) |-> G(i)]
  BY DEF DigitsOf
<1> HIDE DEF d, G, H
<1>6. DigitsOf(base, v, n + 1) = [i \in 1..(n + 1) |-> H(i)]
  BY <1>4, <1>5
<1>7. <<0>> \o d = [i \in 1..(n + 1) |-> H(i)]
  BY <1>1 DEF H
<1>8. QED
  BY <1>6, <1>7 DEF d

LEMMA PowersGrow ==
    ASSUME NEW base \in Nat \ {0, 1}, NEW k \in Nat
    PROVE  k < Power(base, k)
<1> DEFINE S == {n \in Nat : ~(n < Power(base, n))}
<1>1. SUFFICES ASSUME S # {} PROVE FALSE
  OBVIOUS
<1>2. PICK n \in S : \A m \in S : n <= m
  BY <1>1, Least
<1>3. n # 0
  BY PowerOfNone
<1> DEFINE m == n - 1
<1>4. m \in Nat /\ m \notin S /\ n = m + 1
  BY <1>2, <1>3
<1>5. m < Power(base, m)
  BY <1>4
<1>6. ~(n < Power(base, n))
  OBVIOUS
<1> HIDE DEF m, S
<1>7. Power(base, n) = base * Power(base, m) /\ Power(base, m) \in Nat
  BY <1>4, PowerOfMore, PowersAreNumbers
<1> DEFINE p == Power(base, m)
<1>8. base * p >= p + p
  <2>1. PICK e \in Nat : base = 2 + e
    <3>1. base - 2 \in Nat /\ base = 2 + (base - 2)
      OBVIOUS
    <3>2. QED
      BY <3>1
  <2> HIDE DEF p
  <2>2. p \in Nat
    BY <1>7 DEF p
  <2>3. (2 + e) * p = p + p + e * p /\ e * p \in Nat
    BY <2>2
  <2>4. QED
    BY <2>1, <2>2, <2>3
<1>9. QED
  BY <1>4, <1>5, <1>6, <1>7, <1>8

LEMMA PowersAreOrdered ==
    ASSUME NEW base \in Nat \ {0, 1}, NEW m \in Nat, NEW n \in Nat, m <= n
    PROVE  Power(base, m) <= Power(base, n)
<1>1. PICK k \in Nat : n = m + k
  <2>1. n - m \in Nat /\ n = m + (n - m)
    OBVIOUS
  <2>2. QED
    BY <2>1
<1>2. Power(base, n) = Power(base, m) * Power(base, k)
  BY <1>1, PowerOfSum
<1>3. Power(base, m) \in Nat /\ Power(base, k) \in Nat \ {0}
  BY PowersAreNumbers, PowersArePositive
<1> DEFINE p == Power(base, m)
           q == Power(base, k)
<1> HIDE DEF p, q
<1>4. PICK e \in Nat : q = 1 + e
  <2>1. q - 1 \in Nat /\ q = 1 + (q - 1)
    BY <1>3 DEF q
  <2>2. QED
    BY <2>1
<1>5. p \in Nat
  BY <1>3 DEF p
<1>6. p * (1 + e) = p + p * e /\ p * e \in Nat
  BY <1>5
<1>7. QED
  BY <1>2, <1>4, <1>5, <1>6 DEF p, q

LEMMA WidthFits ==
    ASSUME NEW base \in Nat \ {0, 1}, NEW v \in Nat
    PROVE  /\ Width(base, v) \in Nat \ {0}
           /\ v < Power(base, Width(base, v))
           /\ Width(base, v) > 1 => Power(base, Width(base, v) - 1) <= v
<1> DEFINE S == {n \in Nat \ {0} : v < Power(base, n)}
<1>1. v + 1 \in S
  <2>1. v + 1 \in Nat \ {0}
    OBVIOUS
  <2>2. v + 1 < Power(base, v + 1) /\ Power(base, v + 1) \in Nat
    BY <2>1, PowersGrow, PowersAreNumbers
  <2>3. QED
    BY <2>1, <2>2
<1>2. S \in SUBSET Nat /\ S # {}
  BY <1>1
<1> HIDE DEF S
<1>3. PICK n \in S : \A m \in S : n <= m
  BY <1>2, Least
<1>4. n \in 1..(v + 1) /\ v < Power(base, n)
  BY <1>1, <1>3 DEF S
<1>5. n > 1 => Power(base, n - 1) <= v
  <2>1. SUFFICES ASSUME n > 1 PROVE Power(base, n - 1) <= v
    OBVIOUS
  <2>2. n - 1 \in Nat \ {0} /\ n - 1 \notin S
    BY <1>3, <1>4, <2>1
  <2>3. Power(base, n - 1) \in Nat
    BY <2>2, PowersAreNumbers
  <2>4. QED
    BY <2>2, <2>3 DEF S
<1> DEFINE Fits(w) == v < Power(base, w) /\ (w > 1 => Power(base, w - 1) <= v)
<1>6. Width(base, v) = CHOOSE w \in 1..(v + 1) : Fits(w)
  BY DEF Width
<1>7. Fits(n)
  BY <1>4, <1>5
<1> HIDE DEF Fits
<1>8. Width(base, v) \in 1..(v + 1) /\ Fits(Width(base, v))
  BY <1>4, <1>6, <1>7
<1>9. QED
  BY <1>8 DEF Fits

(* No numeral of a number is shorter. *)
LEMMA WidthIsLeast ==
    ASSUME NEW base \in Nat \ {0, 1}, NEW v \in Nat, NEW n \in Nat \ {0}, v < Power(base, n)
    PROVE  Width(base, v) <= n
<1> DEFINE w == Width(base, v)
<1>1. w \in Nat \ {0} /\ (w > 1 => Power(base, w - 1) <= v)
  BY WidthFits
<1> HIDE DEF w
<1>2. SUFFICES ASSUME n < w PROVE FALSE
  BY <1>1 DEF w
<1>3. n <= w - 1 /\ w - 1 \in Nat /\ w > 1
  BY <1>1, <1>2
<1>4. Power(base, n) <= Power(base, w - 1)
  BY <1>3, PowersAreOrdered
<1>5. Power(base, n) \in Nat /\ Power(base, w - 1) \in Nat
  BY <1>3, PowersAreNumbers
<1>6. QED
  BY <1>1, <1>3, <1>4, <1>5
=============================================================================
