----------------------- MODULE PrintfNomalloc_proofs -----------------------
(***************************************************************************)
(* Proofs about the printf that allocates no memory: for every alphabet,   *)
(* every length of the formats, every width and every size of the integers *)
(* it stops inside a conversion only at the limits it declares, and what   *)
(* it prints is what the C standard asks for.                              *)
(*                                                                         *)
(* First what the recursive definitions compute (the value of a numeral,   *)
(* the numeral print_uint writes), by the least number for which they      *)
(* would not; then what the parser knows of the modifiers it has read; then*)
(* the two invariants.                                                     *)
(***************************************************************************)
EXTENDS PrintfNomalloc, NaturalsInduction, WellFoundedInduction, TLAPS

-----------------------------------------------------------------------------
(* Characters. *)

AnyDigit == {Digits[i] : i \in 1 .. 16}

LEMMA DecimalsAre == Decimals = {"0", "1", "2", "3", "4", "5", "6", "7", "8", "9"}
BY DEF Decimals, Digits

LEMMA ModifiersAre ==
  Modifiers = {"l", "z", "-", "*", "0", "1", "2", "3", "4", "5", "6", "7", "8", "9"}
BY DecimalsAre DEF Modifiers

LEMMA DigitsFacts ==
  /\ DOMAIN Digits = 1 .. 16
  /\ \A i, j \in 1 .. 16 : Digits[i] = Digits[j] => i = j
  /\ Digits[1] = "0"
<1>1. DOMAIN Digits = 1 .. 16 /\ Digits[1] = "0"
  BY DEF Digits
<1>3. \A i, j \in 1 .. 16 : Digits[i] = Digits[j] => i = j
  BY DEF Digits
<1> QED BY <1>1, <1>3

LEMMA DigitValues ==
  ASSUME NEW i \in 1 .. 16
  PROVE  DigitValue(Digits[i]) = i - 1
BY DigitsFacts DEF DigitValue

\* Every digit has a value, which only the digit "0" has equal to zero.
LEMMA ValueOfDigit ==
  ASSUME NEW c \in AnyDigit
  PROVE  DigitValue(c) \in 0 .. 15 /\ (DigitValue(c) = 0 <=> c = "0")
<1>1. PICK i \in 1 .. 16 : c = Digits[i]
  BY DEF AnyDigit
<1>2. c = "0" <=> i = 1
  BY <1>1, DigitsFacts
<1>3. DigitValue(c) = i - 1
  BY <1>1, DigitValues
<1> QED BY <1>2, <1>3

LEMMA DecimalsAreDigits == Decimals \subseteq AnyDigit
BY DEF Decimals, AnyDigit

-----------------------------------------------------------------------------
(***************************************************************************)
(* The value of a numeral.                                                 *)
(***************************************************************************)

\* A set of natural numbers has a least element.
LEMMA LeastNumber ==
  ASSUME NEW T \in SUBSET Nat, T # {}
  PROVE  \E m \in T : \A k \in T : m <= k
<1>1. T \subseteq Nat
  OBVIOUS
<1>2. PICK m \in T : \A k \in T : ~(<<k, m>> \in OpToRel(<, Nat))
  BY <1>1, NatLessThanWellFounded, WFMin
<1>3. m \in Nat /\ \A k \in T : k \in Nat
  BY <1>1
<1>4. \A k \in T : ~(k < m)
  BY <1>2, <1>3 DEF OpToRel
<1> QED BY <1>3, <1>4

\* f has the values of the first n digits of d and of every shorter beginning.
Sums(d, base, n, f) ==
  f = [i \in 0 .. n |-> IF i = 0 THEN 0 ELSE f[i - 1] * base + DigitValue(d[i])]

\* The same, one digit at a time.
StepwiseSums(d, base, n, f) ==
  /\ f[0] = 0
  /\ \A i \in 1 .. n : f[i] = f[i - 1] * base + DigitValue(d[i])

LEMMA SumsFacts ==
  ASSUME NEW d, NEW base, NEW n \in Nat, NEW f, Sums(d, base, n, f)
  PROVE  StepwiseSums(d, base, n, f)
<1>1. f = [i \in 0 .. n |-> IF i = 0 THEN 0 ELSE f[i - 1] * base + DigitValue(d[i])]
  BY DEF Sums
<1>2. \A i \in 0 .. n : f[i] = IF i = 0 THEN 0 ELSE f[i - 1] * base + DigitValue(d[i])
  BY <1>1
<1>3. 0 \in 0 .. n /\ \A i \in 1 .. n : i \in 0 .. n /\ i # 0
  OBVIOUS
<1> QED BY <1>2, <1>3 DEF StepwiseSums

LEMMA SumsExist ==
  ASSUME NEW d, NEW base, NEW n \in Nat
  PROVE  \E f : Sums(d, base, n, f)
<1> DEFINE T == {k \in Nat : ~ \E f : Sums(d, base, k, f)}
<1> SUFFICES ASSUME T # {}
             PROVE  FALSE
  OBVIOUS
<1>1. T \in SUBSET Nat
  OBVIOUS
<1>2. PICK k \in T : \A j \in T : k <= j
  BY <1>1, LeastNumber
<1>3. k \in Nat /\ ~ \E f : Sums(d, base, k, f)
  OBVIOUS
<1>4. CASE k = 0
  <2> DEFINE f == [i \in 0 .. 0 |-> 0]
  <2>1. Sums(d, base, 0, f)
    BY DEF Sums
  <2> QED BY <1>3, <1>4, <2>1
<1>5. CASE k # 0
  <2>1. k - 1 \in Nat /\ k - 1 \notin T
    BY <1>2, <1>3, <1>5
  <2>2. PICK g : Sums(d, base, k - 1, g)
    BY <2>1
  <2> DEFINE f == [i \in 0 .. k |-> IF i = 0 THEN 0 ELSE g[i - 1] * base + DigitValue(d[i])]
  <2>3. \A i \in 0 .. k - 1 : f[i] = g[i]
    <3>1. \A i \in 0 .. k - 1 : i \in 0 .. k /\ (i # 0 => i \in 1 .. k - 1)
      BY <1>3
    <3>2. g[0] = 0 /\ \A i \in 1 .. k - 1 : g[i] = g[i - 1] * base + DigitValue(d[i])
      <4>1. StepwiseSums(d, base, k - 1, g)
        BY <2>1, <2>2, SumsFacts
      <4> QED BY <4>1 DEF StepwiseSums
    <3> QED BY <3>1, <3>2
  <2>4. \A i \in 0 .. k : i # 0 => i - 1 \in 0 .. k - 1
    BY <1>3
  <2>5. f = [i \in 0 .. k |-> IF i = 0 THEN 0 ELSE f[i - 1] * base + DigitValue(d[i])]
    BY <2>3, <2>4
  <2>6. Sums(d, base, k, f)
    BY <2>5 DEF Sums
  <2> QED BY <1>3, <2>6
<1> QED BY <1>4, <1>5

\* Numerals that begin alike have the same sums there.
LEMMA SumsAgree ==
  ASSUME NEW d, NEW e, NEW base, NEW m \in Nat, NEW n \in Nat, NEW f, NEW g,
         Sums(d, base, m, f), Sums(e, base, n, g),
         m <= n, \A i \in 1 .. m : d[i] = e[i]
  PROVE  \A i \in 0 .. m : f[i] = g[i]
<1> DEFINE T == {k \in 0 .. m : f[k] # g[k]}
<1> SUFFICES ASSUME T # {}
             PROVE  FALSE
  OBVIOUS
<1>1. T \in SUBSET Nat
  OBVIOUS
<1>2. PICK k \in T : \A j \in T : k <= j
  BY <1>1, LeastNumber
<1>3. /\ f[0] = 0 /\ \A i \in 1 .. m : f[i] = f[i - 1] * base + DigitValue(d[i])
      /\ g[0] = 0 /\ \A i \in 1 .. n : g[i] = g[i - 1] * base + DigitValue(e[i])
  BY SumsFacts DEF StepwiseSums
<1>4. k # 0
  BY <1>3
<1>5. k - 1 \in 0 .. m /\ k - 1 \notin T /\ k \in 1 .. m /\ k \in 1 .. n
  BY <1>2, <1>4
<1> QED BY <1>3, <1>5

LEMMA ValueIsSum ==
  ASSUME NEW d, NEW base, Len(d) \in Nat, NEW f, Sums(d, base, Len(d), f)
  PROVE  ValueOf(d, base) = f[Len(d)]
<1> DEFINE g == CHOOSE h : Sums(d, base, Len(d), h)
<1>1. Sums(d, base, Len(d), g)
  OBVIOUS
<1>2. ValueOf(d, base) = g[Len(d)]
  BY DEF ValueOf, Sums
<1> HIDE DEF g
<1>3. f[Len(d)] = g[Len(d)]
  <2>1. \A i \in 0 .. Len(d) : f[i] = g[i]
    BY <1>1, SumsAgree
  <2> QED BY <2>1
<1> QED BY <1>2, <1>3

LEMMA ValueOfNone ==
  ASSUME NEW base
  PROVE  ValueOf(<<>>, base) = 0
<1>1. PICK d : d = <<>>
  OBVIOUS
<1>2. PICK n \in Nat : n = 0 /\ n = Len(d)
  BY <1>1
<1>3. PICK f : Sums(d, base, n, f)
  BY SumsExist
<1>4. f[0] = 0
  BY <1>3, SumsFacts DEF StepwiseSums
<1>5. ValueOf(d, base) = f[n]
  BY <1>2, <1>3, ValueIsSum
<1> QED BY <1>1, <1>2, <1>4, <1>5

\* One more digit.
LEMMA ValueOfAppend ==
  ASSUME NEW d \in Seq(AnyDigit), NEW c, NEW base
  PROVE  ValueOf(Append(d, c), base) = ValueOf(d, base) * base + DigitValue(c)
<1>1. PICK n \in Nat : n = Len(d)
  OBVIOUS
<1>2. PICK e : e = Append(d, c)
  OBVIOUS
<1>3. Len(e) = n + 1 /\ e[n + 1] = c /\ \A i \in 1 .. n : e[i] = d[i]
  BY <1>1, <1>2
<1>4. PICK f : Sums(d, base, n, f)
  BY SumsExist
<1>10. n + 1 \in Nat
  OBVIOUS
<1>5. PICK g : Sums(e, base, n + 1, g)
  BY SumsExist
<1>6. g[n + 1] = g[n] * base + DigitValue(c)
  <2>1. StepwiseSums(e, base, n + 1, g)
    BY <1>5, <1>10, SumsFacts
  <2> QED BY <1>3, <2>1 DEF StepwiseSums
<1>7. f[n] = g[n]
  <2>1. \A i \in 0 .. n : f[i] = g[i]
    <3>1. PICK m \in Nat : m = n + 1
      BY <1>10
    <3>2. Sums(e, base, m, g) /\ n <= m
      BY <1>5, <3>1
    <3> QED BY <1>3, <1>4, <3>2, SumsAgree
  <2> QED BY <2>1
<1>8. ValueOf(d, base) = f[n]
  BY <1>1, <1>4, ValueIsSum
<1>9. ValueOf(e, base) = g[n + 1]
  BY <1>3, <1>5, ValueIsSum
<1> QED BY <1>2, <1>6, <1>7, <1>8, <1>9

\* Only zeros are worth nothing.
LEMMA ValueOfType ==
  ASSUME NEW d \in Seq(AnyDigit), NEW base \in Nat \ {0}
  PROVE  /\ ValueOf(d, base) \in Nat
         /\ Len(d) > 0 /\ d[1] # "0" => ValueOf(d, base) > 0
<1>1. PICK n \in Nat : n = Len(d)
  OBVIOUS
<1>2. PICK f : Sums(d, base, n, f)
  BY SumsExist
<1>3. ValueOf(d, base) = f[n]
  BY <1>1, <1>2, ValueIsSum
<1>4. f[0] = 0 /\ \A i \in 1 .. n : f[i] = f[i - 1] * base + DigitValue(d[i])
  <2>1. StepwiseSums(d, base, n, f)
    BY <1>2, SumsFacts
  <2> QED BY <2>1 DEF StepwiseSums
<1>5. \A i \in 1 .. n : DigitValue(d[i]) \in Nat /\ (d[i] # "0" => DigitValue(d[i]) > 0)
  BY <1>1, ValueOfDigit
<1> DEFINE Good(i) == f[i] \in Nat /\ (i > 0 /\ d[1] # "0" => f[i] > 0)
<1> DEFINE T == {k \in 0 .. n : ~ Good(k)}
<1>6. T = {}
  <2> SUFFICES ASSUME T # {}
               PROVE  FALSE
    OBVIOUS
  <2>1. T \in SUBSET Nat
    OBVIOUS
  <2>2. PICK k \in T : \A j \in T : k <= j
    BY <2>1, LeastNumber
  <2>3. k # 0
    BY <1>4
  <2>4. k - 1 \in 0 .. n /\ k - 1 \notin T /\ k \in 1 .. n
    BY <2>2, <2>3
  <2>5. f[k - 1] \in Nat /\ (k - 1 > 0 /\ d[1] # "0" => f[k - 1] > 0)
    BY <2>4
  <2>6. DigitValue(d[k]) \in Nat /\ (d[k] # "0" => DigitValue(d[k]) > 0)
    BY <1>5, <2>4
  <2>7. PICK v \in Nat, w \in Nat : v = f[k - 1] /\ w = DigitValue(d[k])
    BY <2>5, <2>6
  <2>8. f[k] = v * base + w
    BY <1>4, <2>4, <2>7
  <2>9. v * base \in Nat /\ (v > 0 => v * base > 0)
    BY SMT
  <2>10. PICK x \in Nat : x = v * base /\ (v > 0 => x > 0)
    BY ONLY <2>9
  <2>11. f[k] = x + w
    BY ONLY <2>8, <2>10
  <2>12. x + w \in Nat /\ (x > 0 \/ w > 0 => x + w > 0)
    BY SMT
  <2>13. f[k] \in Nat
    BY ONLY <2>11, <2>12
  <2>14. d[1] # "0" => x > 0 \/ w > 0
    <3>1. CASE k = 1
      <4>1. d[k] # "0" => w > 0
        BY ONLY <2>6, <2>7
      <4> QED BY ONLY <3>1, <4>1
    <3>2. CASE k # 1
      <4>1. k - 1 > 0
        BY <2>4, <3>2
      <4>2. d[1] # "0" => v > 0
        BY ONLY <2>5, <2>7, <4>1
      <4> QED BY ONLY <2>10, <4>2
    <3> QED BY ONLY <3>1, <3>2
  <2>15. d[1] # "0" => f[k] > 0
    BY ONLY <2>11, <2>12, <2>14
  <2> QED BY <2>13, <2>15
<1>7. n \in 0 .. n /\ n \notin T
  BY <1>6
<1> QED BY <1>1, <1>3, <1>7

-----------------------------------------------------------------------------
(***************************************************************************)
(* The numerals of print_uint.                                             *)
(***************************************************************************)

Numeral(body, n, base) == body \in Seq(AnyDigit) /\ IsNumber(body, n, base)

LEMMA OneDigit ==
  ASSUME NEW base \in 2 .. 16, NEW n \in 0 .. base - 1
  PROVE  Numeral(<<Digits[n + 1]>>, n, base)
<1>1. PICK c : c = Digits[n + 1]
  OBVIOUS
<1>2. n + 1 \in 1 .. base /\ n + 1 \in 1 .. 16 /\ base \in Nat \ {0}
  OBVIOUS
<1>3. c \in AnyDigit /\ c \in {Digits[i] : i \in 1 .. base}
  BY <1>1, <1>2 DEF AnyDigit
<1>4. PICK e : e = <<>>
  OBVIOUS
<1>5. e \in Seq(AnyDigit)
  BY <1>4
<1>6. DigitValue(c) = n
  <2>1. DigitValue(Digits[n + 1]) = n + 1 - 1
    BY <1>2, DigitValues
  <2> QED BY <1>1, <2>1
<1>7. ValueOf(e, base) = 0
  BY <1>4, ValueOfNone
<1>8. ValueOf(Append(e, c), base) = ValueOf(e, base) * base + DigitValue(c)
  BY <1>5, ValueOfAppend
<1>9. Append(e, c) = <<c>>
  BY <1>4
<1>10. ValueOf(<<c>>, base) = n
  BY <1>2, <1>6, <1>7, <1>8, <1>9
<1>11. <<c>> # <<>> /\ Len(<<c>>) = 1 /\ AllIn(<<c>>, {Digits[i] : i \in 1 .. base})
  BY <1>3 DEF AllIn
<1> QED BY <1>1, <1>3, <1>10, <1>11 DEF Numeral, IsNumber

LEMMA OneDigitMore ==
  ASSUME NEW base \in 2 .. 16, NEW r \in 0 .. base - 1, NEW q \in Nat \ {0}, NEW w,
         Numeral(w, q, base)
  PROVE  Numeral(w \o <<Digits[r + 1]>>, q * base + r, base)
<1>1. PICK c : c = Digits[r + 1]
  OBVIOUS
<1>2. r + 1 \in 1 .. base /\ r + 1 \in 1 .. 16 /\ base \in Nat \ {0}
  OBVIOUS
<1> DEFINE D == {Digits[i] : i \in 1 .. base}
<1>3. c \in AnyDigit /\ c \in D
  BY <1>1, <1>2 DEF AnyDigit
<1>4. /\ w \in Seq(AnyDigit) /\ w # <<>> /\ AllIn(w, D)
      /\ Len(w) > 1 => w[1] # "0"
      /\ ValueOf(w, base) = q
  BY DEF Numeral, IsNumber
<1> HIDE DEF D
<1>5. PICK b : b = Append(w, c)
  OBVIOUS
<1>6. PICK n \in Nat \ {0} : n = Len(w)
  BY <1>4
<1>7. /\ b = w \o <<c>> /\ b \in Seq(AnyDigit) /\ b # <<>> /\ Len(b) = n + 1 /\ b[n + 1] = c
      /\ \A i \in 1 .. n : b[i] = w[i]
  BY <1>3, <1>4, <1>5, <1>6
<1>8. AllIn(b, D)
  <2>1. \A i \in 1 .. n : w[i] \in D
    BY <1>4, <1>6 DEF AllIn
  <2>2. \A i \in 1 .. n + 1 : b[i] \in D
    BY <1>3, <1>7, <2>1
  <2>3. DOMAIN b = 1 .. n + 1
    BY <1>7
  <2> QED BY <2>2, <2>3 DEF AllIn
<1>9. DigitValue(c) = r
  <2>1. DigitValue(Digits[r + 1]) = r + 1 - 1
    BY <1>2, DigitValues
  <2> QED BY <1>1, <2>1
<1>10. ValueOf(b, base) = q * base + r
  <2>1. ValueOf(Append(w, c), base) = ValueOf(w, base) * base + DigitValue(c)
    BY <1>4, ValueOfAppend
  <2> QED BY <1>4, <1>5, <1>9, <2>1
<1>11. b[1] # "0"
  <2>1. b[1] = w[1]
    BY <1>6, <1>7
  <2>2. CASE n > 1
    BY <1>4, <1>6, <2>1, <2>2
  <2>3. CASE n = 1
    <3>1. PICK e : e = <<>>
      OBVIOUS
    <3>2. w = Append(e, w[1]) /\ e \in Seq(AnyDigit) /\ w[1] \in AnyDigit
      <4>1. w \in Seq(AnyDigit) /\ Len(w) = 1
        BY <1>4, <1>6, <2>3
      <4>2. w = <<w[1]>> /\ w[1] \in AnyDigit
        <5>1. PICK x \in AnyDigit : x = w[1]
          BY <4>1
        <5>2. w \in [1 .. 1 -> AnyDigit] /\ <<x>> \in [1 .. 1 -> AnyDigit] /\ <<x>>[1] = x
          BY <4>1
        <5>3. \A i \in 1 .. 1 : w[i] = <<x>>[i]
          BY <5>1
        <5>4. w = <<x>>
          BY <5>2, <5>3
        <5> QED BY <5>1, <5>4
      <4>3. Append(e, w[1]) = <<w[1]>> /\ e \in Seq(AnyDigit)
        BY <3>1
      <4> QED BY <4>2, <4>3
    <3>3. ValueOf(Append(e, w[1]), base) = ValueOf(e, base) * base + DigitValue(w[1])
      BY <3>2, ValueOfAppend
    <3>4. ValueOf(e, base) = 0
      BY <3>1, ValueOfNone
    <3>5. DigitValue(w[1]) \in 0 .. 15 /\ (DigitValue(w[1]) = 0 <=> w[1] = "0")
      BY <3>2, ValueOfDigit
    <3>6. 0 * base = 0
      BY <1>2
    <3>7. ValueOf(w, base) = DigitValue(w[1])
      <4>1. PICK v \in Nat : v = DigitValue(w[1])
        BY <3>5
      <4>2. ValueOf(w, base) = 0 * base + v
        BY <3>2, <3>3, <3>4, <4>1
      <4> QED BY <3>6, <4>1, <4>2
    <3> QED BY <1>4, <2>1, <3>5, <3>7
  <2> QED BY <1>6, <2>2, <2>3
<1>12. Numeral(b, q * base + r, base)
  BY <1>7, <1>8, <1>10, <1>11 DEF Numeral, IsNumber, D
<1> QED BY <1>1, <1>7, <1>12

\* Dividing by the base.
LEMMA DividedByBase ==
  ASSUME NEW base \in 2 .. 16, NEW n \in Nat
  PROVE  /\ n \div base \in Nat /\ n % base \in 0 .. base - 1
         /\ n = (n \div base) * base + (n % base)
         /\ n >= base => n \div base >= 1 /\ n \div base < n
<1>1. /\ n \div base \in Int /\ n % base \in Int
      /\ n = base * (n \div base) + (n % base)
      /\ 0 <= n % base /\ n % base < base
  BY SMT
<1>2. PICK q \in Int, r \in Int : q = n \div base /\ r = n % base
  BY <1>1
<1>3. n = base * q + r /\ 0 <= r /\ r < base
  BY <1>1, <1>2
<1>4. base * (q + 1) > 0
  BY <1>3, SMT
<1>5. q + 1 > 0
  BY <1>4, SMT
<1>6. n >= base => base * q > 0
  BY <1>3, SMT
<1>7. n >= base => q >= 1
  BY <1>6, SMT
<1>8. q >= 1 => base * q >= 2 * q
  BY SMT
<1>9. base * q = q * base
  BY SMT
<1> QED BY <1>2, <1>3, <1>5, <1>7, <1>8, <1>9

\* f has the numerals of the numbers up to num.
Writes(num, base, f) ==
  f = [n \in 0 .. num |-> IF n < base THEN <<Digits[n + 1]>>
                          ELSE f[n \div base] \o <<Digits[(n % base) + 1]>>]

Written(n, base, f) ==
  IF n < base THEN <<Digits[n + 1]>> ELSE f[n \div base] \o <<Digits[(n % base) + 1]>>

LEMMA WritesFacts ==
  ASSUME NEW num \in Nat, NEW base, NEW f
  PROVE  /\ Writes(num, base, f) <=> f = [n \in 0 .. num |-> Written(n, base, f)]
         /\ Writes(num, base, f) => \A n \in 0 .. num : f[n] = Written(n, base, f)
BY DEF Writes, Written

LEMMA WritesExist ==
  ASSUME NEW num \in Nat, NEW base \in 2 .. 16
  PROVE  \E f : Writes(num, base, f)
<1> DEFINE T == {k \in Nat : ~ \E f : Writes(k, base, f)}
<1> SUFFICES ASSUME T # {}
             PROVE  FALSE
  OBVIOUS
<1>1. T \in SUBSET Nat
  OBVIOUS
<1>2. PICK k \in T : \A j \in T : k <= j
  BY <1>1, LeastNumber
<1>3. k \in Nat /\ ~ \E f : Writes(k, base, f)
  OBVIOUS
<1>4. PICK g : k # 0 => Writes(k - 1, base, g)
  BY <1>2, <1>3
<1> DEFINE f == [n \in 0 .. k |-> Written(n, base, g)]
<1>5. \A n \in 0 .. k - 1 : f[n] = g[n]
  <2>1. k # 0 => \A n \in 0 .. k - 1 : g[n] = Written(n, base, g)
    BY <1>3, <1>4, WritesFacts
  <2> QED BY <1>3, <2>1
<1>6. \A n \in 0 .. k : n >= base => n \div base \in 0 .. k - 1
  BY <1>3, DividedByBase
<1>7. \A n \in 0 .. k : Written(n, base, g) = Written(n, base, f)
  <2> SUFFICES ASSUME NEW n \in 0 .. k
               PROVE  Written(n, base, g) = Written(n, base, f)
    OBVIOUS
  <2>1. PICK q : q = n \div base
    OBVIOUS
  <2>2. n >= base => f[q] = g[q]
    BY <1>5, <1>6, <2>1
  <2>3. n < base \/ n >= base
    OBVIOUS
  <2> HIDE DEF f
  <2> QED BY <2>1, <2>2, <2>3 DEF Written
<1>8. f = [n \in 0 .. k |-> Written(n, base, f)]
  BY <1>7
<1>9. Writes(k, base, f)
  BY <1>3, <1>8, WritesFacts
<1> QED BY <1>3, <1>9

LEMMA WritesNumerals ==
  ASSUME NEW num \in Nat, NEW base \in 2 .. 16, NEW f, Writes(num, base, f)
  PROVE  \A n \in 0 .. num : Numeral(f[n], n, base)
<1> DEFINE T == {k \in 0 .. num : ~ Numeral(f[k], k, base)}
<1> SUFFICES ASSUME T # {}
             PROVE  FALSE
  OBVIOUS
<1>1. T \in SUBSET Nat
  OBVIOUS
<1>2. PICK k \in T : \A j \in T : k <= j
  BY <1>1, LeastNumber
<1>3. k \in Nat /\ k \in 0 .. num /\ ~ Numeral(f[k], k, base)
  OBVIOUS
<1>4. f[k] = Written(k, base, f)
  BY <1>3, WritesFacts
<1>5. CASE k < base
  <2>1. Numeral(<<Digits[k + 1]>>, k, base)
    BY <1>3, <1>5, OneDigit
  <2> QED BY <1>3, <1>4, <1>5, <2>1 DEF Written
<1>6. CASE ~ (k < base)
  <2>1. PICK q, r : q = k \div base /\ r = k % base
    OBVIOUS
  <2>2. /\ q \in Nat \ {0} /\ q < k /\ r \in 0 .. base - 1
        /\ k = q * base + r
    BY <1>3, <1>6, <2>1, DividedByBase
  <2>3. q \in 0 .. num /\ q \notin T
    BY <1>2, <1>3, <2>2
  <2>4. Numeral(f[q], q, base)
    BY <2>3
  <2>5. Numeral(f[q] \o <<Digits[r + 1]>>, q * base + r, base)
    BY <2>2, <2>4, OneDigitMore
  <2>6. f[k] = f[q] \o <<Digits[r + 1]>>
    BY <1>4, <1>6, <2>1 DEF Written
  <2> QED BY <1>3, <2>2, <2>5, <2>6
<1> QED BY <1>5, <1>6

\* print_uint writes the number, without leading zeros.
LEMMA PrintUintWrites ==
  ASSUME NEW num \in Nat, NEW base \in 2 .. 16
  PROVE  Numeral(PrintUint(num, base), num, base)
<1> DEFINE g == CHOOSE f : Writes(num, base, f)
<1>1. Writes(num, base, g)
  BY WritesExist
<1>2. PrintUint(num, base) = g[num]
  BY DEF PrintUint, Writes
<1> HIDE DEF g
<1> QED BY <1>1, <1>2, WritesNumerals

-----------------------------------------------------------------------------
(***************************************************************************)
(* Arguments fetched with the length they were passed with.                *)
(***************************************************************************)

LEMMA UnsignedFits ==
  ASSUME NEW bits \in {IntBits, LongBits}, NEW n \in Unsigned(bits)
  PROVE  n \in Nat /\ LowBits(n, bits) = n
<1>1. PICK m : m = 2 ^ bits
  OBVIOUS
<1>2. m \in Nat \ {0}
  BY <1>1, PowersOfTwo
<1>3. n \in Nat /\ n < m
  BY <1>1, <1>2 DEF Unsigned
<1>4. n % m = n
  BY <1>2, <1>3, SMT
<1> QED BY <1>1, <1>3, <1>4 DEF LowBits

LEMMA SignedFits ==
  ASSUME NEW bits \in {IntBits, LongBits}, NEW n \in Signed(bits)
  PROVE  n \in Int /\ AsSigned(n, bits) = n
<1>1. PICK h : h = 2 ^ (bits - 1)
  OBVIOUS
<1>2. h \in Nat \ {0} /\ 2 ^ bits = 2 * h
  BY <1>1, PowersOfTwo
<1>3. n \in Int /\ -h <= n /\ n < h
  BY <1>1, <1>2 DEF Signed
<1>4. PICK m \in Nat \ {0} : m = 2 * h
  BY <1>2
<1>5. /\ n \div m \in Int /\ n % m \in Int
      /\ n = m * (n \div m) + (n % m)
      /\ 0 <= n % m /\ n % m < m
  BY <1>3, SMT
<1>6. n % m = IF n >= 0 THEN n ELSE n + m
  <2>1. PICK q \in Int, r \in Int : q = n \div m /\ r = n % m
    BY <1>5
  <2>2. n = m * q + r /\ 0 <= r /\ r < m
    BY <1>5, <2>1
  <2>3. r = IF n >= 0 THEN n ELSE n + m
    <3>1. CASE n >= 0
      <4>1. m * q < m /\ m * q > -m
        <5>1. PICK x \in Int : x = m * q
          BY <2>1
        <5>2. x < m /\ x > -m
          BY <1>2, <1>3, <1>4, <2>1, <2>2, <3>1, <5>1
        <5> QED BY <5>1, <5>2
      <4>2. m * (q - 1) < 0 /\ m * (q + 1) > 0
        BY <4>1, SMT
      <4>3. q - 1 < 0 /\ q + 1 > 0
        BY <4>2, SMT
      <4>4. q = 0
        BY <4>3
      <4> QED BY <2>2, <3>1, <4>4, SMT
    <3>2. CASE n < 0
      <4>1. m * q < 0 /\ m * q > -(2 * m)
        <5>1. PICK x \in Int : x = m * q
          BY <2>1
        <5>2. x < 0 /\ x > -(2 * m)
          BY <1>2, <1>3, <1>4, <2>1, <2>2, <3>2, <5>1
        <5> QED BY <5>1, <5>2
      <4>2. m * (q + 2) > 0
        BY <4>1, SMT
      <4>3. q < 0 /\ q + 2 > 0
        BY <4>1, <4>2, SMT
      <4>4. q = -1
        BY <4>3
      <4> QED BY <2>2, <3>2, <4>4, SMT
    <3> QED BY <1>3, <3>1, <3>2
  <2> QED BY <2>1, <2>3
<1>7. LowBits(n, bits) = IF n >= 0 THEN n ELSE n + m
  BY <1>2, <1>4, <1>6 DEF LowBits
<1> QED BY <1>1, <1>2, <1>3, <1>4, <1>7 DEF AsSigned

-----------------------------------------------------------------------------
(***************************************************************************)
(* The parts of the modifiers.                                             *)
(***************************************************************************)

\* Parts of a sequence that are as short as the texts they are compared with.
IsPart(S, s, i, j, p) ==
  /\ p \in Seq(S) /\ Len(p) = j - i
  /\ \A k \in 1 .. j - i : p[k] = s[i + k]
  /\ p = <<>> <=> i = j
  /\ \A c : p = <<c>> <=> j = i + 1 /\ s[j] = c
  /\ \A c, d : p = <<c, d>> <=> j = i + 2 /\ s[i + 1] = c /\ s[j] = d

LEMMA ShortParts ==
  ASSUME NEW S, NEW s \in Seq(S), NEW i \in Nat, NEW j \in Nat, i <= j, j <= Len(s)
  PROVE  IsPart(S, s, i, j, SubSeq(s, i + 1, j))
<1>1. PICK p : p = SubSeq(s, i + 1, j)
  OBVIOUS
<1>2. p \in Seq(S) /\ Len(p) = j - i /\ \A k \in 1 .. j - i : p[k] = s[i + k]
  <2>1. i + 1 \in Int /\ \A k \in i + 1 .. j : s[k] \in S
    OBVIOUS
  <2> QED BY <1>1, <2>1
<1>3. DOMAIN p = 1 .. j - i
  BY <1>2
<1>4. p = <<>> <=> i = j
  BY <1>2
<1>5. \A c : p = <<c>> <=> j = i + 1 /\ s[j] = c
  <2> SUFFICES ASSUME NEW c
               PROVE  p = <<c>> <=> j = i + 1 /\ s[j] = c
    OBVIOUS
  <2>1. ASSUME p = <<c>>
        PROVE  j = i + 1 /\ s[j] = c
    <3>1. Len(p) = 1 /\ p[1] = c
      BY <2>1
    <3>3. j - i = 1
      BY <1>2, <3>1
    <3>2. j = i + 1 /\ 1 \in 1 .. j - i
      BY <3>3
    <3> QED BY <1>2, <3>1, <3>2
  <2>2. ASSUME j = i + 1, s[j] = c
        PROVE  p = <<c>>
    <3>1. Len(p) = 1 /\ p[1] = c /\ c \in S
      BY <1>2, <2>2
    <3>2. p \in [1 .. 1 -> S] /\ <<c>> \in [1 .. 1 -> S] /\ <<c>>[1] = c
      BY <1>2, <3>1
    <3> QED BY <3>1, <3>2
  <2> QED BY <2>1, <2>2
<1>6. \A c, d : p = <<c, d>> <=> j = i + 2 /\ s[i + 1] = c /\ s[j] = d
  <2> SUFFICES ASSUME NEW c, NEW d
               PROVE  p = <<c, d>> <=> j = i + 2 /\ s[i + 1] = c /\ s[j] = d
    OBVIOUS
  <2>1. ASSUME p = <<c, d>>
        PROVE  j = i + 2 /\ s[i + 1] = c /\ s[j] = d
    <3>1. Len(p) = 2 /\ p[1] = c /\ p[2] = d
      BY <2>1
    <3>3. j - i = 2
      BY <1>2, <3>1
    <3>2. j = i + 2 /\ 1 \in 1 .. j - i /\ 2 \in 1 .. j - i
      BY <3>3
    <3> QED BY <1>2, <3>1, <3>2
  <2>2. ASSUME j = i + 2, s[i + 1] = c, s[j] = d
        PROVE  p = <<c, d>>
    <3>1. Len(p) = 2 /\ p[1] = c /\ p[2] = d /\ c \in S /\ d \in S
      BY <1>2, <2>2
    <3>2. PICK q : q = <<c, d>>
      OBVIOUS
    <3>3. p \in [1 .. 2 -> S] /\ q \in [1 .. 2 -> S] /\ q[1] = c /\ q[2] = d
      BY <1>2, <3>1, <3>2
    <3>4. \A k \in 1 .. 2 : p[k] = q[k]
      BY <3>1, <3>3
    <3> QED BY <3>2, <3>3, <3>4
  <2> QED BY <2>1, <2>2
<1> QED BY <1>1, <1>2, <1>4, <1>5, <1>6 DEF IsPart

\* The modifiers from i + 1 to j are a width.
WidthAt(mods, i, j) ==
  \/ i = j
  \/ j = i + 1 /\ mods[j] = "*"
  \/ i < j /\ mods[i + 1] # "0" /\ \A k \in i + 1 .. j : mods[k] \in Decimals

\* The modifiers after j are a length.
LengthAt(mods, j) ==
  \/ j = Len(mods)
  \/ j + 1 = Len(mods) /\ mods[Len(mods)] \in {"l", "z"}
  \/ j + 2 = Len(mods) /\ mods[j + 1] = "l" /\ mods[Len(mods)] = "l"

SplitAt(mods, i, j) ==
  /\ i \in 0 .. Len(mods) /\ j \in 0 .. Len(mods) /\ i <= j
  /\ \A k \in 1 .. i : mods[k] \in {"-", "0"}
  /\ WidthAt(mods, i, j)
  /\ LengthAt(mods, j)

LEMMA SplitFacts ==
  ASSUME NEW mods \in Seq(Modifiers), NEW i \in 0 .. Len(mods), NEW j \in 0 .. Len(mods)
  PROVE  <<i, j>> \in Splits(mods) <=> SplitAt(mods, i, j)
<1>1. PICK n \in Nat : n = Len(mods)
  OBVIOUS
<1>2. /\ i \in Nat /\ j \in Nat /\ i <= n /\ j <= n
      /\ <<i, j>>[1] = i /\ <<i, j>>[2] = j
      /\ <<i, j>> \in (0 .. Len(mods)) \X (0 .. Len(mods))
  BY <1>1
<1>3. CASE ~ (i <= j)
  BY <1>2, <1>3 DEF Splits, SplitAt
<1>4. CASE i <= j
  <2>1. AllIn(SubSeq(mods, 1, i), {"-", "0"}) <=> \A k \in 1 .. i : mods[k] \in {"-", "0"}
    <3>1. PICK p : p = SubSeq(mods, 0 + 1, i)
      OBVIOUS
    <3>2. IsPart(Modifiers, mods, 0, i, p)
      BY <1>1, <1>2, <3>1, ShortParts
    <3>3. DOMAIN p = 1 .. i /\ \A k \in 1 .. i : p[k] = mods[k]
      BY <1>2, <3>2 DEF IsPart
    <3>4. p = SubSeq(mods, 1, i)
      BY <3>1
    <3> QED BY <3>3, <3>4 DEF AllIn
  <2>2. IsWidth(SubSeq(mods, i + 1, j)) <=> WidthAt(mods, i, j)
    <3>1. PICK p : p = SubSeq(mods, i + 1, j)
      OBVIOUS
    <3>2. /\ p \in Seq(Modifiers) /\ Len(p) = j - i
          /\ \A k \in 1 .. j - i : p[k] = mods[i + k]
          /\ p = <<>> <=> i = j
          /\ p = <<"*">> <=> j = i + 1 /\ mods[j] = "*"
      <4>1. IsPart(Modifiers, mods, i, j, p)
        BY <1>1, <1>2, <1>4, <3>1, ShortParts
      <4> QED BY <4>1 DEF IsPart
    <3>3. AllIn(p, Decimals) <=> \A k \in i + 1 .. j : mods[k] \in Decimals
      <4>1. DOMAIN p = 1 .. j - i
        BY <3>2
      <4>2. \A k \in i + 1 .. j : k - i \in 1 .. j - i /\ mods[k] = p[k - i]
        BY <1>2, <3>2
      <4>3. \A k \in 1 .. j - i : i + k \in i + 1 .. j
        BY <1>2
      <4> QED BY <3>2, <4>1, <4>2, <4>3 DEF AllIn
    <3>4. i < j => p[1] = mods[i + 1]
      BY <1>2, <3>2
    <3>5. i = j \/ i < j
      BY <1>2, <1>4
    <3>6. IsWidth(p) <=> WidthAt(mods, i, j)
      BY <3>2, <3>3, <3>4, <3>5 DEF IsWidth, WidthAt
    <3> QED BY <3>1, <3>6
  <2>3. SubSeq(mods, j + 1, Len(mods)) \in Lengths <=> LengthAt(mods, j)
    <3>1. PICK p : p = SubSeq(mods, j + 1, n)
      OBVIOUS
    <3>2. IsPart(Modifiers, mods, j, n, p)
      BY <1>1, <1>2, <3>1, ShortParts
    <3>3. p \in Lengths <=> p = <<>> \/ p = <<"l">> \/ p = <<"l", "l">> \/ p = <<"z">>
      BY DEF Lengths
    <3>4. p \in Lengths <=> LengthAt(mods, j)
      <4>1. /\ p = <<>> <=> j = n
            /\ p = <<"l">> <=> n = j + 1 /\ mods[n] = "l"
            /\ p = <<"z">> <=> n = j + 1 /\ mods[n] = "z"
            /\ p = <<"l", "l">> <=> n = j + 2 /\ mods[j + 1] = "l" /\ mods[n] = "l"
        BY <3>2 DEF IsPart
      <4> QED BY <1>1, <3>3, <4>1 DEF LengthAt
    <3> QED BY <1>1, <3>1, <3>4
  <2> QED BY <1>2, <1>4, <2>1, <2>2, <2>3 DEF Splits, SplitAt
<1> QED BY <1>3, <1>4

\* A split is a pair of places.
LEMMA SplitIsPair ==
  ASSUME NEW mods \in Seq(Modifiers), NEW s \in Splits(mods)
  PROVE  s = <<s[1], s[2]>> /\ SplitAt(mods, s[1], s[2])
<1>1. s \in (0 .. Len(mods)) \X (0 .. Len(mods))
  BY DEF Splits
<1>2. s = <<s[1], s[2]>> /\ s[1] \in 0 .. Len(mods) /\ s[2] \in 0 .. Len(mods)
  BY <1>1
<1>3. <<s[1], s[2]>> \in Splits(mods)
  BY <1>2
<1> QED BY <1>2, <1>3, SplitFacts

-----------------------------------------------------------------------------
(***************************************************************************)
(* What the parser knows of the modifiers it has read: all that a split of *)
(* them says.                                                              *)
(***************************************************************************)

WidthGiven(mods, i, j) ==
  IF j = i + 1 /\ mods[j] = "*" THEN Custom ELSE ValueOf(SubSeq(mods, i + 1, j), 10)

LengthGiven(mods, j) ==
  IF j = Len(mods) THEN 0
  ELSE IF j + 1 = Len(mods) /\ mods[Len(mods)] = "l" THEN 1 ELSE 2

Knows(m, mods, i, j) ==
  /\ m.width = WidthGiven(mods, i, j)
  /\ m.longness = LengthGiven(mods, j)
  /\ m.left <=> \E k \in 1 .. i : mods[k] = "-"
  /\ m.padding = IF \E k \in 1 .. i : mods[k] = "0" THEN "0" ELSE " "

Understood ==
  \A i, j \in 0 .. Len(flags) : SplitAt(flags, i, j) => Knows(mod, flags, i, j)

\* The splits of the modifiers before the last one are splits of their own.
SplitBefore(mods, c, n, i, j) ==
  \/ /\ j <= n /\ c \in {"l", "z"} /\ SplitAt(mods, i, j)
     /\ j = n \/ (j + 1 = n /\ c = "l" /\ mods[n] = "l")
  \/ /\ j = n + 1 /\ i <= n /\ SplitAt(mods, i, n)
     /\ \/ c = "*" /\ i = n
        \/ /\ c \in Decimals
           /\ i = n => c # "0"
           /\ i < n => /\ mods[i + 1] # "0"
                       /\ \A k \in i + 1 .. n : mods[k] \in Decimals
  \/ j = n + 1 /\ i = n + 1 /\ c \in {"-", "0"} /\ SplitAt(mods, n, n)

LEMMA SplitOfAppend ==
  ASSUME NEW mods \in Seq(Modifiers), NEW c \in Modifiers, NEW n \in Nat, n = Len(mods),
         NEW b, b = Append(mods, c), NEW i, NEW j, SplitAt(b, i, j)
  PROVE  SplitBefore(mods, c, n, i, j)
<1>1. Len(b) = n + 1 /\ b[n + 1] = c /\ \A k \in 1 .. n : b[k] = mods[k]
  OBVIOUS
<1>2. /\ i \in 0 .. n + 1 /\ j \in 0 .. n + 1 /\ i <= j
      /\ \A k \in 1 .. i : b[k] \in {"-", "0"}
      /\ WidthAt(b, i, j) /\ LengthAt(b, j)
  BY <1>1 DEF SplitAt
<1>3. CASE j <= n
  <2>1. \/ j = n /\ c \in {"l", "z"}
        \/ j + 1 = n /\ c = "l" /\ mods[n] = "l"
    BY <1>1, <1>2, <1>3 DEF LengthAt
  <2>2. LengthAt(mods, j)
    BY <2>1 DEF LengthAt
  <2>3. WidthAt(mods, i, j)
    <3>1. i + 1 = j => b[j] = mods[j]
      BY <1>1, <1>2, <1>3
    <3>2. i < j => b[i + 1] = mods[i + 1]
      BY <1>1, <1>2, <1>3
    <3>3. \A k \in i + 1 .. j : b[k] = mods[k]
      BY <1>1, <1>2, <1>3
    <3> QED BY <1>2, <3>1, <3>2, <3>3 DEF WidthAt
  <2>4. \A k \in 1 .. i : mods[k] \in {"-", "0"}
    BY <1>1, <1>2, <1>3
  <2>5. SplitAt(mods, i, j)
    BY <1>2, <1>3, <2>2, <2>3, <2>4 DEF SplitAt
  <2> QED BY <1>3, <2>1, <2>5 DEF SplitBefore
<1>4. CASE j = n + 1 /\ i <= n
  <2>1. \A k \in 1 .. i : mods[k] \in {"-", "0"}
    BY <1>1, <1>2, <1>4
  <2>2. LengthAt(mods, n)
    BY DEF LengthAt
  <2>3. CASE c = "*" /\ i = n
    <3>1. WidthAt(mods, i, n)
      BY <2>3 DEF WidthAt
    <3>2. SplitAt(mods, i, n)
      BY <1>2, <1>4, <2>1, <2>2, <3>1 DEF SplitAt
    <3> QED BY <1>4, <2>3, <3>2 DEF SplitBefore
  <2>4. CASE b[i + 1] # "0" /\ \A k \in i + 1 .. n + 1 : b[k] \in Decimals
    <3>1. c \in Decimals /\ (i = n => c # "0")
      BY <1>1, <1>2, <1>4, <2>4
    <3>2. i < n => mods[i + 1] # "0" /\ \A k \in i + 1 .. n : mods[k] \in Decimals
      BY <1>1, <1>2, <1>4, <2>4
    <3>3. WidthAt(mods, i, n)
      BY <1>2, <1>4, <3>2 DEF WidthAt
    <3>4. SplitAt(mods, i, n)
      BY <1>2, <1>4, <2>1, <2>2, <3>3 DEF SplitAt
    <3> QED BY <1>4, <3>1, <3>2, <3>4 DEF SplitBefore
  <2>5. WidthAt(b, i, n + 1)
    BY <1>2, <1>4
  <2> QED BY <1>1, <1>2, <1>4, <2>3, <2>4, <2>5 DEF WidthAt
<1>5. CASE j = n + 1 /\ i = n + 1
  <2>1. c \in {"-", "0"} /\ \A k \in 1 .. n : mods[k] \in {"-", "0"}
    BY <1>1, <1>2, <1>5
  <2>2. LengthAt(mods, n) /\ WidthAt(mods, n, n)
    BY DEF LengthAt, WidthAt
  <2>3. SplitAt(mods, n, n)
    BY <2>1, <2>2 DEF SplitAt
  <2> QED BY <1>5, <2>1, <2>3 DEF SplitBefore
<1> QED BY <1>2, <1>3, <1>4, <1>5

LEMMA WidthNotBegun ==
  ASSUME NEW mods \in Seq(Modifiers), NEW i \in 0 .. Len(mods)
  PROVE  WidthGiven(mods, i, i) = 0
<1>1. IsPart(Modifiers, mods, i, i, SubSeq(mods, i + 1, i))
  BY ShortParts
<1>2. SubSeq(mods, i + 1, i) = <<>>
  BY <1>1 DEF IsPart
<1>3. ~ (i = i + 1)
  OBVIOUS
<1> QED BY <1>2, <1>3, ValueOfNone DEF WidthGiven

\* Reading on leaves a width that has ended alone.
LEMMA WidthStays ==
  ASSUME NEW mods \in Seq(Modifiers), NEW c \in Modifiers,
         NEW i \in Nat, NEW j \in Nat, i <= j, j <= Len(mods)
  PROVE  WidthGiven(Append(mods, c), i, j) = WidthGiven(mods, i, j)
<1>0. PICK b : b = Append(mods, c)
  OBVIOUS
<1>1. b \in Seq(Modifiers) /\ Len(b) = Len(mods) + 1 /\ \A k \in 1 .. Len(mods) : b[k] = mods[k]
  BY <1>0
<1>2. PICK p : p = SubSeq(mods, i + 1, j)
  OBVIOUS
<1>3. PICK q : q = SubSeq(b, i + 1, j)
  OBVIOUS
<1>4. IsPart(Modifiers, mods, i, j, p)
  BY <1>2, ShortParts
<1>5. IsPart(Modifiers, b, i, j, q)
  <2>1. j <= Len(b)
    BY <1>1
  <2> QED BY <1>1, <1>3, <2>1, ShortParts
<1>6. \A k \in 1 .. j - i : p[k] = q[k]
  <2> SUFFICES ASSUME NEW k \in 1 .. j - i
               PROVE  p[k] = q[k]
    OBVIOUS
  <2>1. p[k] = mods[i + k] /\ q[k] = b[i + k]
    BY <1>4, <1>5 DEF IsPart
  <2>2. i + k \in 1 .. Len(mods)
    OBVIOUS
  <2> QED BY <1>1, <2>1, <2>2
<1>7. p \in Seq(Modifiers) /\ q \in Seq(Modifiers) /\ Len(p) = j - i /\ Len(q) = j - i
  BY <1>4, <1>5 DEF IsPart
<1>8. p = q
  BY <1>6, <1>7
<1>9. j = i + 1 => b[j] = mods[j]
  BY <1>1
<1> QED BY <1>0, <1>2, <1>3, <1>8, <1>9 DEF WidthGiven

\* One more digit of the width.
GrowsBy(mods, b, c, i, n) ==
  /\ WidthGiven(b, i, n + 1) = 10 * WidthGiven(mods, i, n) + DigitValue(c)
  /\ WidthGiven(mods, i, n) \in Nat
  /\ i < n /\ mods[i + 1] # "0" => WidthGiven(mods, i, n) # 0

LEMMA WidthGrows ==
  ASSUME NEW mods \in Seq(Modifiers), NEW c \in Decimals, NEW b, b = Append(mods, c),
         NEW n \in Nat, n = Len(mods), NEW i \in 0 .. n,
         \A k \in i + 1 .. n : mods[k] \in Decimals
  PROVE  GrowsBy(mods, b, c, i, n)
<1>1. /\ b \in Seq(Modifiers) /\ Len(b) = n + 1 /\ b[n + 1] = c
      /\ \A k \in 1 .. n : b[k] = mods[k]
  BY DEF Modifiers
<1>2. PICK p : p = SubSeq(mods, i + 1, n)
  OBVIOUS
<1>3. PICK q : q = SubSeq(b, i + 1, n + 1)
  OBVIOUS
<1>4. IsPart(Modifiers, mods, i, n, p)
  BY <1>2, ShortParts
<1>5. IsPart(Modifiers, b, i, n + 1, q)
  <2>1. PICK m \in Nat : m = n + 1
    OBVIOUS
  <2>2. i \in Nat /\ i <= m /\ m <= Len(b)
    BY <1>1, <2>1
  <2>3. IsPart(Modifiers, b, i, m, SubSeq(b, i + 1, m))
    BY <1>1, <2>2, ShortParts
  <2> QED BY <1>3, <2>1, <2>3
<1>17. PICK m \in Nat : m = n - i
  <2>1. n - i \in Nat
    OBVIOUS
  <2> QED BY <2>1
<1>6. p \in Seq(Modifiers) /\ Len(p) = m /\ \A k \in 1 .. m : p[k] = mods[i + k]
  BY <1>4, <1>17 DEF IsPart
<1>7. q \in Seq(Modifiers) /\ Len(q) = m + 1 /\ \A k \in 1 .. m + 1 : q[k] = b[i + k]
  <2>1. n + 1 - i = m + 1
    BY <1>17
  <2> QED BY <1>5, <2>1 DEF IsPart
<1>8. p \in Seq(AnyDigit)
  <2>1. \A k \in 1 .. m : p[k] \in AnyDigit
    BY <1>6, <1>17, DecimalsAreDigits
  <2> QED BY <1>6, <2>1
<1>9. q = Append(p, c)
  <2>1. PICK r : r = Append(p, c)
    OBVIOUS
  <2>2. r \in Seq(Modifiers) /\ Len(r) = m + 1 /\ r[m + 1] = c /\ \A k \in 1 .. m : r[k] = p[k]
    BY <1>6, <2>1 DEF Modifiers
  <2>3. q[m + 1] = c
    <3>1. m + 1 \in 1 .. m + 1 /\ i + (m + 1) = n + 1
      BY <1>17
    <3> QED BY <1>1, <1>7, <3>1
  <2>4. \A k \in 1 .. m : q[k] = p[k]
    <3> SUFFICES ASSUME NEW k \in 1 .. m
                 PROVE  q[k] = p[k]
      OBVIOUS
    <3>1. k \in 1 .. m + 1 /\ i + k \in 1 .. n
      BY <1>17
    <3> QED BY <1>1, <1>6, <1>7, <3>1
  <2>5. \A k \in 1 .. m + 1 : q[k] = r[k]
    BY <2>2, <2>3, <2>4
  <2>6. q = r
    <3>1. q \in Seq(Modifiers) /\ r \in Seq(Modifiers) /\ Len(q) = m + 1 /\ Len(r) = m + 1
      BY <1>7, <2>2
    <3> QED BY <2>5, <3>1
  <2> QED BY <2>1, <2>6
<1>10. ValueOf(q, 10) = ValueOf(p, 10) * 10 + DigitValue(c)
  BY <1>8, <1>9, ValueOfAppend
<1>11. ValueOf(p, 10) \in Nat /\ (Len(p) > 0 /\ p[1] # "0" => ValueOf(p, 10) > 0)
  BY <1>8, ValueOfType
<1>12. "*" \notin Decimals
  BY DecimalsAre
<1>13. WidthGiven(mods, i, n) = ValueOf(p, 10)
  BY <1>2, <1>12 DEF WidthGiven
<1>14. WidthGiven(b, i, n + 1) = ValueOf(q, 10)
  BY <1>1, <1>3, <1>12 DEF WidthGiven
<1>15. i < n => Len(p) > 0 /\ p[1] = mods[i + 1]
  BY <1>6, <1>17
<1>16. DigitValue(c) \in 0 .. 15
  BY DecimalsAreDigits, ValueOfDigit
<1> QED BY <1>10, <1>11, <1>13, <1>14, <1>15, <1>16 DEF GrowsBy

\* The modifiers that have been read say of each split what it says.
ModType == [longness : Nat, width : Int, left : BOOLEAN, padding : {" ", "0"}]

LEMMA ModifiedFields ==
  ASSUME NEW c \in Modifiers, mod \in ModType
  PROVE  /\ Modified(c) \in ModType
         /\ Modified(c).longness = IF c = "l" THEN mod.longness + 1
                                   ELSE IF c = "z" THEN 2 ELSE mod.longness
         /\ Modified(c).left = (c = "-" \/ mod.left)
         /\ Modified(c).padding = IF IsZeroFlag(c) THEN "0" ELSE mod.padding
         /\ Modified(c).width = IF c \in {"l", "z", "-"} \/ IsZeroFlag(c) THEN mod.width
                                ELSE IF c = "*" THEN Custom ELSE 10 * mod.width + DigitValue(c)
<1>1. /\ mod.longness \in Nat /\ mod.width \in Int /\ mod.left \in BOOLEAN
      /\ mod.padding \in {" ", "0"}
  BY DEF ModType
<1>2. CASE c = "l"
  <2>1. PICK v \in Nat : v = mod.longness + 1
    <3>1. PICK w \in Nat : w = mod.longness
      BY <1>1
    <3>2. w + 1 \in Nat
      OBVIOUS
    <3> QED BY <3>1, <3>2
  <2>2. Modified(c) = [mod EXCEPT !.longness = v]
    BY <1>2, <2>1 DEF Modified
  <2> QED BY <1>1, <1>2, <2>1, <2>2 DEF ModType, IsZeroFlag
<1>3. CASE c = "z"
  <2>2. PICK v \in Nat : v = 2
    OBVIOUS
  <2>1. Modified(c) = [mod EXCEPT !.longness = v] /\ v = 2
    BY <1>3, <2>2 DEF Modified
  <2> QED BY <1>1, <1>3, <2>1 DEF ModType, IsZeroFlag
<1>4. CASE c = "-"
  <2>1. Modified(c) = [mod EXCEPT !.left = TRUE]
    BY <1>4 DEF Modified
  <2> QED BY <1>1, <1>4, <2>1 DEF ModType, IsZeroFlag
<1>5. CASE c = "*"
  <2>1. Modified(c) = [mod EXCEPT !.width = Custom]
    BY <1>5 DEF Modified
  <2>2. Custom \in Int
    BY DEF Custom
  <2> QED BY <1>1, <1>5, <2>1, <2>2 DEF ModType, IsZeroFlag
<1>6. CASE IsZeroFlag(c)
  <2>1. Modified(c) = [mod EXCEPT !.padding = "0"] /\ c = "0"
    BY <1>6 DEF Modified, IsZeroFlag
  <2> QED BY <1>1, <1>6, <2>1 DEF ModType
<1>7. CASE c \notin {"l", "z", "-", "*"} /\ ~ IsZeroFlag(c)
  <2>1. c \in Decimals
    BY <1>7 DEF Modifiers
  <2>2. PICK v \in Int : v = 10 * mod.width + DigitValue(c)
    <3>1. PICK w \in Int : w = mod.width
      BY <1>1
    <3>2. DigitValue(c) \in 0 .. 15
      BY <2>1, DecimalsAreDigits, ValueOfDigit
    <3>3. 10 * w + DigitValue(c) \in Int
      BY <3>2
    <3> QED BY <3>1, <3>3
  <2>3. Modified(c) = [mod EXCEPT !.width = v]
    BY <1>7, <2>2 DEF Modified
  <2> QED BY <1>1, <1>7, <2>2, <2>3 DEF ModType
<1> QED BY <1>2, <1>3, <1>4, <1>5, <1>6, <1>7

LEMMA SplitGoesOn ==
  ASSUME NEW c \in Modifiers, flags \in Seq(Modifiers), mod \in ModType, Understood,
         NEW i, NEW j, SplitAt(Append(flags, c), i, j)
  PROVE  ~ Rejected(c) /\ Knows(Modified(c), Append(flags, c), i, j)
<1>0. PICK mods \in Seq(Modifiers) : mods = flags
  OBVIOUS
<1>13. PICK o : o = mod
  OBVIOUS
<1>14. \A k, l \in 0 .. Len(mods) : SplitAt(mods, k, l) => Knows(o, mods, k, l)
  BY <1>0, <1>13 DEF Understood
<1>1. PICK n \in Nat : n = Len(mods)
  OBVIOUS
<1>2. PICK b : b = Append(mods, c)
  OBVIOUS
<1>3. /\ b \in Seq(Modifiers) /\ Len(b) = n + 1 /\ b[n + 1] = c
      /\ \A k \in 1 .. n : b[k] = mods[k]
  BY <1>1, <1>2
<1>4. /\ i \in 0 .. n + 1 /\ j \in 0 .. n + 1 /\ i <= j
      /\ \A k \in 1 .. i : b[k] \in {"-", "0"}
  BY <1>0, <1>2, <1>3 DEF SplitAt
<1>5. PICK m : m = Modified(c)
  OBVIOUS
<1>6. /\ m.longness = IF c = "l" THEN o.longness + 1
                      ELSE IF c = "z" THEN 2 ELSE o.longness
      /\ m.left = (c = "-" \/ o.left)
      /\ m.padding = IF IsZeroFlag(c) THEN "0" ELSE o.padding
      /\ m.width = IF c \in {"l", "z", "-"} \/ IsZeroFlag(c) THEN o.width
                   ELSE IF c = "*" THEN Custom ELSE 10 * o.width + DigitValue(c)
  BY <1>5, <1>13, ModifiedFields
<1>7. /\ "l" \notin Decimals /\ "z" \notin Decimals /\ "-" \notin Decimals /\ "*" \notin Decimals
  BY DecimalsAre
<1>8. CASE /\ j <= n /\ c \in {"l", "z"} /\ SplitAt(mods, i, j)
           /\ j = n \/ (j + 1 = n /\ c = "l" /\ mods[n] = "l")
  <2>1. i \in 0 .. n /\ j \in 0 .. n
    BY <1>4, <1>8
  <2>2. Knows(o, mods, i, j)
    BY <1>1, <1>8, <1>14, <2>1
  <2>3. WidthGiven(b, i, j) = WidthGiven(mods, i, j)
    <3>1. i \in Nat /\ j \in Nat /\ i <= j /\ j <= Len(mods)
      BY <1>1, <1>4, <2>1
    <3>2. WidthGiven(Append(mods, c), i, j) = WidthGiven(mods, i, j)
      BY <3>1, WidthStays
    <3> QED BY <1>2, <3>2
  <2>4. m.width = WidthGiven(b, i, j)
    BY <1>6, <1>8, <2>2, <2>3 DEF Knows
  <2>5. m.longness = LengthGiven(b, j)
    <3>1. o.longness = LengthGiven(mods, j)
      BY <2>2 DEF Knows
    <3> QED BY <1>1, <1>3, <1>6, <1>8, <2>1, <3>1 DEF LengthGiven
  <2>6. \A k \in 1 .. i : b[k] = mods[k]
    BY <1>3, <2>1
  <2>7. ~ IsZeroFlag(c) /\ c # "-"
    BY <1>8, <1>13 DEF IsZeroFlag
  <2>8. Knows(m, b, i, j)
    BY <1>6, <2>2, <2>4, <2>5, <2>6, <2>7 DEF Knows
  <2>9. ~ Rejected(c)
    BY <1>7, <1>8 DEF Rejected
  <2> QED BY <1>0, <1>2, <1>5, <2>8, <2>9
<1>9. CASE j = n + 1 /\ i <= n /\ SplitAt(mods, i, n) /\ c = "*" /\ i = n
  <2>1. Knows(o, mods, n, n)
    BY <1>1, <1>9, <1>14
  <2>2. o.width = 0 /\ o.longness = 0
    <3>1. WidthGiven(mods, n, n) = 0
      BY <1>1, WidthNotBegun
    <3> QED BY <1>1, <2>1, <3>1 DEF Knows, LengthGiven
  <2>3. ~ Rejected(c)
    BY <1>7, <1>9, <2>2, <1>13 DEF Rejected, AsteriskRefused
  <2>4. ~ IsZeroFlag(c)
    BY <1>9, <1>13 DEF IsZeroFlag
  <2>5. m.width = WidthGiven(b, i, j)
    BY <1>3, <1>6, <1>9, <2>4 DEF WidthGiven
  <2>6. m.longness = LengthGiven(b, j)
    BY <1>3, <1>6, <1>9, <2>2 DEF LengthGiven
  <2>7. \A k \in 1 .. i : b[k] = mods[k]
    BY <1>3, <1>9
  <2>8. Knows(m, b, i, j)
    BY <1>6, <1>9, <2>1, <2>4, <2>5, <2>6, <2>7 DEF Knows
  <2> QED BY <1>0, <1>2, <1>5, <2>3, <2>8
<1>10. CASE /\ j = n + 1 /\ i <= n /\ SplitAt(mods, i, n)
            /\ c \in Decimals
            /\ i = n => c # "0"
            /\ i < n => mods[i + 1] # "0" /\ \A k \in i + 1 .. n : mods[k] \in Decimals
  <2>1. i \in 0 .. n
    BY <1>4, <1>10
  <2>2. Knows(o, mods, i, n)
    BY <1>1, <1>10, <1>14, <2>1
  <2>3. \A k \in i + 1 .. n : mods[k] \in Decimals
    BY <1>10, <2>1
  <2>4. /\ WidthGiven(b, i, n + 1) = 10 * WidthGiven(mods, i, n) + DigitValue(c)
        /\ WidthGiven(mods, i, n) \in Nat
        /\ i < n /\ mods[i + 1] # "0" => WidthGiven(mods, i, n) # 0
    <3>1. c \in Decimals
      BY <1>10
    <3>2. GrowsBy(mods, b, c, i, n)
      BY <1>1, <1>2, <2>1, <2>3, <3>1, WidthGrows
    <3> QED BY <3>2 DEF GrowsBy
  <2>5. o.width = WidthGiven(mods, i, n) /\ o.longness = 0
    BY <1>1, <2>2 DEF Knows, LengthGiven
  <2>6. ~ IsZeroFlag(c)
    BY <1>10, <2>1, <2>4, <2>5, <1>13 DEF IsZeroFlag
  <2>7. ~ Rejected(c)
    BY <1>7, <1>10, <2>4, <2>5, <1>13 DEF Rejected, Custom
  <2>8. c \notin {"l", "z", "-", "*"}
    BY <1>7, <1>10
  <2>9. m.width = WidthGiven(b, i, j)
    BY <1>6, <1>10, <2>4, <2>5, <2>6, <2>8
  <2>10. m.longness = LengthGiven(b, j)
    BY <1>3, <1>6, <1>10, <2>5, <2>8 DEF LengthGiven
  <2>11. \A k \in 1 .. i : b[k] = mods[k]
    BY <1>3, <2>1
  <2>12. Knows(m, b, i, j)
    BY <1>6, <2>2, <2>6, <2>8, <2>9, <2>10, <2>11 DEF Knows
  <2> QED BY <1>0, <1>2, <1>5, <2>7, <2>12
<1>11. CASE j = n + 1 /\ i = n + 1 /\ c \in {"-", "0"} /\ SplitAt(mods, n, n)
  <2>1. Knows(o, mods, n, n)
    BY <1>1, <1>11, <1>14
  <2>2. o.width = 0 /\ o.longness = 0
    <3>1. WidthGiven(mods, n, n) = 0
      BY <1>1, WidthNotBegun
    <3> QED BY <1>1, <2>1, <3>1 DEF Knows, LengthGiven
  <2>3. IsZeroFlag(c) <=> c = "0"
    BY <2>2, <1>13 DEF IsZeroFlag
  <2>4. ~ Rejected(c)
    BY <1>7, <1>11, <2>3 DEF Rejected
  <2>5. m.width = 0 /\ m.longness = 0
    BY <1>6, <1>11, <2>2, <2>3
  <2>6. m.width = WidthGiven(b, i, j)
    BY <1>3, <1>11, <2>5, WidthNotBegun
  <2>7. m.longness = LengthGiven(b, j)
    BY <1>3, <1>11, <2>5 DEF LengthGiven
  <2>8. m.left <=> \E k \in 1 .. n + 1 : b[k] = "-"
    <3>1. o.left <=> \E k \in 1 .. n : mods[k] = "-"
      BY <2>1 DEF Knows
    <3>2. (\E k \in 1 .. n + 1 : b[k] = "-") <=> c = "-" \/ \E k \in 1 .. n : mods[k] = "-"
      BY <1>3
    <3> QED BY <1>6, <3>1, <3>2
  <2>9. m.padding = IF \E k \in 1 .. n + 1 : b[k] = "0" THEN "0" ELSE " "
    <3>1. o.padding = IF \E k \in 1 .. n : mods[k] = "0" THEN "0" ELSE " "
      BY <2>1 DEF Knows
    <3>2. (\E k \in 1 .. n + 1 : b[k] = "0") <=> c = "0" \/ \E k \in 1 .. n : mods[k] = "0"
      BY <1>3
    <3> QED BY <1>6, <2>3, <3>1, <3>2
  <2>10. Knows(m, b, i, j)
    BY <1>11, <2>6, <2>7, <2>8, <2>9 DEF Knows
  <2> QED BY <1>0, <1>2, <1>5, <2>4, <2>10
<1>12. \/ /\ j <= n /\ c \in {"l", "z"} /\ SplitAt(mods, i, j)
          /\ j = n \/ (j + 1 = n /\ c = "l" /\ mods[n] = "l")
       \/ /\ j = n + 1 /\ i <= n /\ SplitAt(mods, i, n)
          /\ \/ c = "*" /\ i = n
             \/ /\ c \in Decimals
                /\ i = n => c # "0"
                /\ i < n => /\ mods[i + 1] # "0"
                            /\ \A k \in i + 1 .. n : mods[k] \in Decimals
       \/ j = n + 1 /\ i = n + 1 /\ c \in {"-", "0"} /\ SplitAt(mods, n, n)
  <2>1. SplitAt(b, i, j)
    BY <1>0, <1>2
  <2>2. SplitBefore(mods, c, n, i, j)
    BY <1>1, <1>2, <2>1, SplitOfAppend
  <2> QED BY <2>2 DEF SplitBefore
<1> QED BY <1>8, <1>9, <1>10, <1>11, <1>12

-----------------------------------------------------------------------------
(***************************************************************************)
(* What a split of the modifiers says, as the C standard reads it.         *)
(***************************************************************************)

LEMMA OneSplit ==
  ASSUME NEW mods \in Seq(Modifiers), NEW i, NEW j, SplitAt(mods, i, j),
         NEW k, NEW l, SplitAt(mods, k, l)
  PROVE  i = k /\ j = l
<1>1. PICK n \in Nat : n = Len(mods)
  OBVIOUS
<1>2. /\ "l" \notin Decimals /\ "z" \notin Decimals /\ "-" \notin Decimals /\ "*" \notin Decimals
  BY DecimalsAre
<1> DEFINE Split(a, b) ==
      /\ a \in 0 .. n /\ b \in 0 .. n /\ a <= b
      /\ \A m \in 1 .. a : mods[m] \in {"-", "0"}
      /\ \A m \in a + 1 .. b : mods[m] = "*" \/ mods[m] \in Decimals
      /\ a < b => mods[a + 1] # "0"
      /\ b < n => mods[b + 1] \in {"l", "z"}
<1>3. ASSUME NEW a, NEW b, SplitAt(mods, a, b)
      PROVE  Split(a, b)
  <2>1. a \in 0 .. n /\ b \in 0 .. n /\ a <= b /\ \A m \in 1 .. a : mods[m] \in {"-", "0"}
    BY <1>1, <1>3 DEF SplitAt
  <2>2. WidthAt(mods, a, b)
    BY <1>3 DEF SplitAt
  <2>3. /\ \A m \in a + 1 .. b : mods[m] = "*" \/ mods[m] \in Decimals
        /\ a < b => mods[a + 1] # "0"
    BY <2>1, <2>2 DEF WidthAt
  <2>4. b < n => mods[b + 1] \in {"l", "z"}
    BY <1>1, <1>3, <2>1 DEF SplitAt, LengthAt
  <2> QED BY <2>1, <2>3, <2>4
<1>4. Split(i, j) /\ Split(k, l)
  BY <1>3
<1>5. ASSUME NEW a, NEW b, NEW e, NEW d, Split(a, b), Split(e, d)
      PROVE  ~ (a < e)
  <2> SUFFICES ASSUME a < e
               PROVE  FALSE
    OBVIOUS
  <2>1. mods[a + 1] \in {"-", "0"}
    <3>1. a + 1 \in 1 .. e
      BY <1>5
    <3> QED BY <1>5, <3>1
  <2>2. CASE a < b
    <3>1. a + 1 \in a + 1 .. b
      BY <1>5, <2>2
    <3>2. mods[a + 1] # "0" /\ (mods[a + 1] = "*" \/ mods[a + 1] \in Decimals)
      BY <1>5, <2>2, <3>1
    <3> QED BY <1>2, <2>1, <3>2
  <2>3. CASE a = b
    <3>1. b < n
      BY <1>5, <2>3
    <3>2. mods[a + 1] \in {"l", "z"}
      BY <1>5, <2>3, <3>1
    <3> QED BY <2>1, <3>2
  <2> QED BY <1>5, <2>2, <2>3
<1>6. ASSUME NEW a, NEW b, NEW d, Split(a, b), Split(a, d)
      PROVE  ~ (b < d)
  <2> SUFFICES ASSUME b < d
               PROVE  FALSE
    OBVIOUS
  <2>1. b < n /\ b + 1 \in a + 1 .. d
    BY <1>6
  <2>2. mods[b + 1] \in {"l", "z"} /\ (mods[b + 1] = "*" \/ mods[b + 1] \in Decimals)
    BY <1>6, <2>1
  <2> QED BY <1>2, <2>2
<1>7. i \in Nat /\ j \in Nat /\ k \in Nat /\ l \in Nat
  BY <1>4
<1> HIDE DEF Split
<1>8. i = k
  <2>1. ~ (i < k)
    BY <1>4, <1>5
  <2>2. ~ (k < i)
    BY <1>4, <1>5
  <2> QED BY <1>7, <2>1, <2>2
<1>9. j = l
  <2>1. Split(i, j) /\ Split(i, l)
    BY <1>4, <1>8
  <2>2. ~ (j < l)
    BY <1>6, <2>1
  <2>3. ~ (l < j)
    BY <1>6, <2>1
  <2> QED BY <1>7, <2>2, <2>3
<1> QED BY <1>8, <1>9

\* The flags of the standard's reading are those in front of the width.
LEMMA FlagsOfSplit ==
  ASSUME NEW mods \in Seq(Modifiers), NEW i, NEW j, SplitAt(mods, i, j)
  PROVE  /\ <<i, j>> \in Splits(mods)
         /\ \A s \in Splits(mods) : s[1] = i /\ s[2] = j
         /\ \A f : HasFlag(mods, f) <=> \E k \in 1 .. i : mods[k] = f
<1>1. <<i, j>> \in Splits(mods)
  BY SplitFacts DEF SplitAt
<1>2. \A s \in Splits(mods) : s[1] = i /\ s[2] = j
  <2> SUFFICES ASSUME NEW s \in Splits(mods)
               PROVE  s[1] = i /\ s[2] = j
    OBVIOUS
  <2>1. PICK k, l : k = s[1] /\ l = s[2]
    OBVIOUS
  <2>2. SplitAt(mods, k, l)
    BY <2>1, SplitIsPair
  <2> QED BY <2>1, <2>2, OneSplit
<1>3. <<i, j>>[1] = i
  OBVIOUS
<1>4. \A f : HasFlag(mods, f) <=> \E k \in 1 .. i : mods[k] = f
  BY <1>1, <1>2, <1>3 DEF HasFlag
<1> QED BY <1>1, <1>2, <1>4

\* The standard asks for a long argument where the longness is 1 or 2.
LEMMA LengthOfSplit ==
  ASSUME NEW mods \in Seq(Modifiers), NEW i, NEW j, SplitAt(mods, i, j)
  PROVE  (\E k \in DOMAIN mods : mods[k] \in {"l", "z"}) <=> LengthGiven(mods, j) \in {1, 2}
<1>1. PICK n \in Nat : n = Len(mods) /\ DOMAIN mods = 1 .. n
  OBVIOUS
<1>2. "l" \notin Decimals /\ "z" \notin Decimals
  BY DecimalsAre
<1>3. i \in 0 .. n /\ j \in 0 .. n /\ i <= j
  BY <1>1 DEF SplitAt
<1>4. \A k \in 1 .. j : mods[k] \notin {"l", "z"}
  <2> SUFFICES ASSUME NEW k \in 1 .. j
               PROVE  mods[k] \notin {"l", "z"}
    OBVIOUS
  <2>1. CASE k <= i
    BY <1>3, <2>1 DEF SplitAt
  <2>2. CASE k > i
    <3>1. WidthAt(mods, i, j)
      BY DEF SplitAt
    <3>2. k \in i + 1 .. j /\ i # j
      BY <1>3, <2>2
    <3>3. mods[k] = "*" \/ mods[k] \in Decimals
      BY <1>3, <3>1, <3>2 DEF WidthAt
    <3> QED BY <1>2, <3>3
  <2> QED BY <1>3, <2>1, <2>2
<1>5. CASE j = n
  BY <1>1, <1>4, <1>5 DEF LengthGiven
<1>6. CASE j # n
  <2>1. mods[n] \in {"l", "z"} /\ n \in 1 .. n
    BY <1>1, <1>3, <1>6 DEF SplitAt, LengthAt
  <2>2. LengthGiven(mods, j) \in {1, 2}
    BY <1>1, <1>6 DEF LengthGiven
  <2> QED BY <1>1, <2>1, <2>2
<1> QED BY <1>5, <1>6

\* The width: one that is passed, or the number that is written.
LEMMA WidthOfSplit ==
  ASSUME NEW mods \in Seq(Modifiers), NEW i, NEW j, SplitAt(mods, i, j),
         NEW c, c.mods = mods
  PROVE  /\ WidthGiven(mods, i, j) = Custom \/ WidthGiven(mods, i, j) \in Nat
         /\ WidthOf(c) = IF WidthGiven(mods, i, j) = Custom THEN c.width
                         ELSE WidthGiven(mods, i, j)
<1>1. PICK n \in Nat : n = Len(mods)
  OBVIOUS
<1>2. i \in 0 .. n /\ j \in 0 .. n /\ i <= j
  BY <1>1 DEF SplitAt
<1>3. PICK w : w = SubSeq(mods, i + 1, j)
  OBVIOUS
<1>4. IsPart(Modifiers, mods, i, j, w)
  BY <1>1, <1>2, <1>3, ShortParts
<1>5. w = <<"*">> <=> j = i + 1 /\ mods[j] = "*"
  BY <1>4 DEF IsPart
<1>6. WidthGiven(mods, i, j) = IF w = <<"*">> THEN Custom ELSE ValueOf(w, 10)
  BY <1>3, <1>5 DEF WidthGiven
<1>7. w # <<"*">> => ValueOf(w, 10) \in Nat
  <2> SUFFICES ASSUME w # <<"*">>
               PROVE  ValueOf(w, 10) \in Nat
    OBVIOUS
  <2>1. PICK m \in Nat : m = j - i
    <3>1. j - i \in Nat
      BY <1>2
    <3> QED BY <3>1
  <2>2. w \in Seq(Modifiers) /\ Len(w) = m /\ \A k \in 1 .. m : w[k] = mods[i + k]
    BY <1>4, <2>1 DEF IsPart
  <2>3. \A k \in i + 1 .. j : mods[k] \in Decimals
    <3>1. WidthAt(mods, i, j)
      BY DEF SplitAt
    <3> QED BY <1>2, <1>5, <3>1 DEF WidthAt
  <2>4. \A k \in 1 .. m : i + k \in i + 1 .. j
    BY <1>2, <2>1
  <2>5. \A k \in 1 .. m : w[k] \in AnyDigit
    BY <2>2, <2>3, <2>4, DecimalsAreDigits
  <2>6. w \in Seq(AnyDigit)
    BY <2>2, <2>5
  <2> QED BY <2>6, ValueOfType
<1>8. Custom \notin Nat
  BY DEF Custom
<1>9. WidthOf(c) = IF w = <<"*">> THEN c.width ELSE ValueOf(w, 10)
  <2> DEFINE s == CHOOSE t \in Splits(c.mods) :
                    \A u \in Splits(c.mods) : u[2] - u[1] <= t[2] - t[1]
  <2>1. /\ <<i, j>> \in Splits(mods)
        /\ \A t \in Splits(mods) : t[1] = i /\ t[2] = j
    BY FlagsOfSplit
  <2>2. <<i, j>>[1] = i /\ <<i, j>>[2] = j /\ j - i <= j - i
    BY <1>2
  <2>3. \E t \in Splits(c.mods) : \A u \in Splits(c.mods) : u[2] - u[1] <= t[2] - t[1]
    BY <2>1, <2>2
  <2>4. s \in Splits(mods)
    BY <2>3
  <2>5. s[1] = i /\ s[2] = j
    BY <2>1, <2>4
  <2>6. WidthOf(c) = LET v == SubSeq(c.mods, s[1] + 1, s[2])
                     IN  IF v = <<"*">> THEN c.width ELSE ValueOf(v, 10)
    BY DEF WidthOf
  <2> HIDE DEF s
  <2> QED BY <1>3, <2>5, <2>6
<1> QED BY <1>6, <1>7, <1>8, <1>9

-----------------------------------------------------------------------------
(***************************************************************************)
(* What is printed.                                                        *)
(***************************************************************************)

\* The text stands in what is printed, with the missing characters on one side.
Padded(text, width, out) ==
  LET n == IF width > Len(text) THEN width - Len(text) ELSE 0
  IN  /\ Len(out) - Len(text) = n
      /\ out = IF mod.left THEN text \o Fill(" ", n) ELSE Fill(mod.padding, n) \o text
      /\ text \in Parts(out)

LEMMA LargerSeq ==
  ASSUME NEW S, NEW T, S \subseteq T, NEW s \in Seq(S)
  PROVE  s \in Seq(T)
<1>1. Len(s) \in Nat /\ s \in [1 .. Len(s) -> S]
  OBVIOUS
<1>2. s \in [1 .. Len(s) -> T]
  BY <1>1
<1> QED BY <1>1, <1>2

LEMMA FillFacts ==
  ASSUME NEW char, NEW n \in Nat
  PROVE  /\ Fill(char, n) \in Seq({char}) /\ Len(Fill(char, n)) = n
         /\ Fill(char, 0) = <<>>
<1>1. Fill(char, n) \in [1 .. n -> {char}]
  BY DEF Fill
<1>2. Fill(char, n) \in Seq({char}) /\ Len(Fill(char, n)) = n
  BY <1>1
<1>3. Fill(char, 0) = <<>>
  BY DEF Fill
<1> QED BY <1>2, <1>3

LEMMA PartsFacts ==
  ASSUME NEW S, NEW a \in Seq(S), NEW b \in Seq(S)
  PROVE  a \in Parts(a \o b) /\ b \in Parts(a \o b)
<1>1. PICK m \in Nat, n \in Nat : m = Len(a) /\ n = Len(b)
  OBVIOUS
<1>2. PICK c : c = a \o b
  OBVIOUS
<1>3. /\ c \in Seq(S) /\ Len(c) = m + n
      /\ \A k \in 1 .. m : c[k] = a[k]
      /\ \A k \in 1 .. n : c[m + k] = b[k]
  BY <1>1, <1>2
<1>4. a \in Parts(c)
  <2>1. PICK p : p = SubSeq(c, 0 + 1, m)
    OBVIOUS
  <2>2. 0 <= m /\ m <= Len(c) /\ 0 \in Nat
    BY <1>3
  <2>3. IsPart(S, c, 0, m, p)
    BY <1>3, <2>1, <2>2, ShortParts
  <2>4. p \in Seq(S) /\ Len(p) = m /\ \A k \in 1 .. m : p[k] = c[k]
    BY <2>3 DEF IsPart
  <2>5. \A k \in 1 .. m : p[k] = a[k]
    BY <1>3, <2>4
  <2>6. p = a
    <3>1. Len(p) = m /\ p \in Seq(S)
      BY <2>4
    <3> QED BY <1>1, <2>5, <3>1
  <2>7. p = SubSeq(c, 1, m) /\ 1 \in 1 .. Len(c) + 1 /\ m \in 0 .. Len(c)
    BY <1>3, <2>1
  <2> QED BY <2>6, <2>7 DEF Parts
<1>5. b \in Parts(c)
  <2>1. PICK l \in Nat : l = m + n
    OBVIOUS
  <2>2. PICK p : p = SubSeq(c, m + 1, l)
    OBVIOUS
  <2>3. m <= l /\ l <= Len(c)
    BY <1>3, <2>1
  <2>4. IsPart(S, c, m, l, p)
    BY <1>3, <2>2, <2>3, ShortParts
  <2>5. l - m = n
    BY <2>1
  <2>6. p \in Seq(S) /\ Len(p) = n /\ \A k \in 1 .. n : p[k] = c[m + k]
    BY <2>4, <2>5 DEF IsPart
  <2>7. \A k \in 1 .. n : p[k] = b[k]
    BY <1>3, <2>6
  <2>8. p = b
    <3>1. Len(p) = n /\ p \in Seq(S)
      BY <2>6
    <3> QED BY <1>1, <2>7, <3>1
  <2>9. m + 1 \in 1 .. Len(c) + 1 /\ l \in 0 .. Len(c)
    BY <1>3, <2>1
  <2>10. PICK x : x = m + 1
    OBVIOUS
  <2>11. x \in 1 .. Len(c) + 1 /\ l \in 0 .. Len(c) /\ b = SubSeq(c, x, l)
    BY <2>2, <2>8, <2>9, <2>10
  <2> QED BY <2>11 DEF Parts
<1> QED BY <1>2, <1>4, <1>5

LEMMA PadPads ==
  ASSUME NEW S, NEW text \in Seq(S), NEW width \in Nat
  PROVE  Padded(text, width, Pad(text, width))
<1>1. PICK m \in Nat : m = Len(text)
  OBVIOUS
<1>2. PICK n \in Nat : n = IF width > m THEN width - m ELSE 0
  <2>1. (IF width > m THEN width - m ELSE 0) \in Nat
    OBVIOUS
  <2> QED BY <2>1
<1>3. PICK out : out = IF mod.left THEN text \o Fill(" ", n) ELSE Fill(mod.padding, n) \o text
  OBVIOUS
<1>9. PICK T : T = S \cup {" ", mod.padding}
  OBVIOUS
<1>4. text \in Seq(T)
  <2>1. S \subseteq T
    BY <1>9
  <2> QED BY <2>1, LargerSeq
<1>5. /\ Fill(" ", n) \in Seq(T) /\ Len(Fill(" ", n)) = n
      /\ Fill(mod.padding, n) \in Seq(T) /\ Len(Fill(mod.padding, n)) = n
  <2>1. Fill(" ", n) \in Seq({" "}) /\ Len(Fill(" ", n)) = n
    BY FillFacts
  <2>2. PICK d : d = mod.padding
    OBVIOUS
  <2>3. Fill(d, n) \in Seq({d}) /\ Len(Fill(d, n)) = n
    BY FillFacts
  <2>4. PICK A, D : A = {" "} /\ D = {d}
    OBVIOUS
  <2>5. A \subseteq T /\ Fill(" ", n) \in Seq(A)
    BY <1>9, <2>1, <2>4
  <2>6. D \subseteq T /\ Fill(d, n) \in Seq(D)
    BY <1>9, <2>2, <2>3, <2>4
  <2>7. Fill(" ", n) \in Seq(T)
    BY ONLY <2>5, LargerSeq
  <2>8. Fill(d, n) \in Seq(T)
    BY ONLY <2>6, LargerSeq
  <2> QED BY <2>1, <2>2, <2>3, <2>7, <2>8
<1>6. Len(out) - m = n
  <2>1. PICK f \in Seq(T) : /\ Len(f) = n
                            /\ out = text \o f \/ out = f \o text
    BY <1>3, <1>5
  <2>2. Len(out) = m + n
    BY <1>1, <1>4, <2>1
  <2> QED BY <2>2
<1>7. text \in Parts(out)
  BY <1>3, <1>4, <1>5, PartsFacts
<1>8. Pad(text, width) = out
  <2>1. CASE m >= width
    <3>1. n = 0 /\ Pad(text, width) = text
      BY <1>1, <1>2, <2>1 DEF Pad
    <3>2. Fill(" ", 0) = <<>> /\ Fill(mod.padding, 0) = <<>>
      <4>1. PICK d : d = mod.padding
        OBVIOUS
      <4>2. Fill(d, 0) = <<>> /\ Fill(" ", 0) = <<>>
        BY FillFacts
      <4> QED BY <4>1, <4>2
    <3>3. text \o <<>> = text /\ <<>> \o text = text
      BY <1>4
    <3> QED BY <1>3, <3>1, <3>2, <3>3
  <2>2. CASE ~ (m >= width)
    <3>1. n = width - m
      BY <1>2, <2>2
    <3> QED BY <1>1, <1>3, <2>2, <3>1 DEF Pad
  <2> QED BY <2>1, <2>2
<1> QED BY <1>1, <1>2, <1>3, <1>6, <1>7, <1>8 DEF Padded

\* The text of a conversion, whose argument is fetched as it was passed, is
\* the converted argument.
LEMMA PrintedIsConverted ==
  ASSUME NEW spec \in Specifiers, NEW arg \in Arguments(spec), FetchBits = CallerBits,
         NEW c, c.spec = spec, c.arg = arg
  PROVE  /\ IsConverted(c, Printed(spec, arg))
         /\ \E S : Printed(spec, arg) \in Seq(S)
<1>1. CallerBits \in {IntBits, LongBits}
  BY DEF CallerBits
<1>2. PICK bits \in {IntBits, LongBits} : bits = CallerBits /\ bits = FetchBits
  BY <1>1
<1>3. \A n \in Nat : /\ PrintUint(n, 10) \in Seq(AnyDigit) /\ IsNumber(PrintUint(n, 10), n, 10)
                     /\ PrintUint(n, 16) \in Seq(AnyDigit) /\ IsNumber(PrintUint(n, 16), n, 16)
  BY PrintUintWrites DEF Numeral
<1>4. CASE spec \in SignedSpecifiers
  <2>1. arg \in Signed(bits)
    BY <1>2, <1>4 DEF Arguments, SignedSpecifiers, HexSpecifiers
  <2>2. arg \in Int /\ AsSigned(arg, bits) = arg
    BY <2>1, SignedFits
  <2>3. Printed(spec, arg) = PrintInt(arg)
    BY <1>2, <1>4, <2>2 DEF Printed, SignedSpecifiers, HexSpecifiers
  <2>4. CASE arg >= 0
    <3>1. arg \in Nat /\ PrintInt(arg) = PrintUint(arg, 10)
      BY <2>2, <2>4 DEF PrintInt
    <3>2. PICK w \in Seq(AnyDigit) : w = PrintUint(arg, 10) /\ IsNumber(w, arg, 10)
      BY <1>3, <3>1
    <3>3. Printed(spec, arg) = w
      BY <2>3, <3>1, <3>2
    <3>4. IsConverted(c, w)
      <4>1. c.spec \in SignedSpecifiers /\ c.arg >= 0 /\ ~ (c.arg < 0) /\ IsNumber(w, c.arg, 10)
        BY <1>4, <2>2, <2>4, <3>2
      <4> QED BY <4>1 DEF IsConverted, SignedSpecifiers, HexSpecifiers
    <3> QED BY <3>3, <3>4
  <2>5. CASE arg < 0
    <3>1. PICK n \in Nat : n = -arg
      BY <2>2, <2>5
    <3>2. PICK w \in Seq(AnyDigit) : w = PrintUint(n, 10) /\ IsNumber(w, n, 10)
      BY <1>3
    <3>3. PICK b : b = <<"-">> \o w
      OBVIOUS
    <3>4. b \in Seq(AnyDigit \cup {"-"}) /\ b # <<>> /\ b[1] = "-" /\ Tail(b) = w
      <4>1. <<"-">> \in Seq(AnyDigit \cup {"-"}) /\ w \in Seq(AnyDigit \cup {"-"})
        OBVIOUS
      <4> QED BY <3>3, <4>1
    <3>5. Printed(spec, arg) = b
      BY <2>2, <2>3, <2>5, <3>1, <3>2, <3>3 DEF PrintInt
    <3>6. ~ (arg >= 0)
      BY <2>2, <2>5
    <3> QED BY <1>4, <2>5, <3>1, <3>2, <3>4, <3>5, <3>6
       DEF IsConverted, SignedSpecifiers, HexSpecifiers
  <2> QED BY <2>2, <2>4, <2>5
<1>5. CASE spec \in {"u"} \cup HexSpecifiers
  <2>4. spec \in {"u", "x", "X"}
    BY <1>5 DEF HexSpecifiers
  <2>1. arg \in Unsigned(bits)
    BY <1>2, <2>4 DEF Arguments, SignedSpecifiers, HexSpecifiers
  <2>2. arg \in Nat /\ LowBits(arg, bits) = arg
    BY <2>1, UnsignedFits
  <2>3. Printed(spec, arg) = IF spec = "u" THEN PrintUint(arg, 10) ELSE PrintUint(arg, 16)
    BY <1>2, <2>2, <2>4 DEF Printed, SignedSpecifiers, HexSpecifiers
  <2> QED BY <1>3, <2>2, <2>3, <2>4 DEF IsConverted, SignedSpecifiers, HexSpecifiers
<1>6. CASE spec = "p"
  <2>1. arg \in {0, 10}
    BY <1>6 DEF Arguments, SignedSpecifiers, HexSpecifiers
  <2>2. CASE arg = 0
    <3>1. Printed(spec, arg) = NullPtr
      BY <1>6, <2>2 DEF Printed, SignedSpecifiers, HexSpecifiers
    <3>2. NullPtr \in Seq({"(null ptr)"})
      BY DEF NullPtr
    <3> QED BY <1>6, <2>2, <3>1, <3>2 DEF IsConverted, SignedSpecifiers, HexSpecifiers
  <2>3. CASE arg = 10
    <3>1. PICK w \in Seq(AnyDigit) : w = PrintUint(10, 16) /\ IsNumber(w, 10, 16)
      BY <1>3
    <3>2. PICK b : b = <<"0", "x">> \o w
      OBVIOUS
    <3>3. PICK n \in Nat : n = Len(w)
      OBVIOUS
    <3> DEFINE S == AnyDigit \cup {"0", "x"}
    <3>4. <<"0", "x">> \in Seq(S) /\ w \in Seq(S) /\ Len(<<"0", "x">>) = 2
      OBVIOUS
    <3>5. /\ b \in Seq(S) /\ Len(b) = n + 2 /\ b[1] = "0" /\ b[2] = "x"
          /\ \A k \in 1 .. n : b[2 + k] = w[k]
      BY <3>2, <3>3, <3>4
    <3> HIDE DEF S
    <3>6. SubSeq(b, 1, 2) = <<"0", "x">>
      <4>1. PICK p : p = SubSeq(b, 0 + 1, 2)
        OBVIOUS
      <4>2. 0 <= 2 /\ 2 <= Len(b) /\ 0 \in Nat /\ 2 \in Nat
        BY <3>5
      <4>3. IsPart(S, b, 0, 2, p)
        BY <3>5, <4>1, <4>2, ShortParts
      <4>4. p = <<"0", "x">> <=> 2 = 0 + 2 /\ b[0 + 1] = "0" /\ b[2] = "x"
        BY <4>3 DEF IsPart
      <4> QED BY <3>5, <4>1, <4>4
    <3>7. SubSeq(b, 3, Len(b)) = w
      <4>1. PICK l \in Nat : l = n + 2
        OBVIOUS
      <4>2. PICK p : p = SubSeq(b, 2 + 1, l)
        OBVIOUS
      <4>3. 2 <= l /\ l <= Len(b) /\ 2 \in Nat
        BY <3>5, <4>1
      <4>4. IsPart(S, b, 2, l, p)
        BY <3>5, <4>2, <4>3, ShortParts
      <4>5. l - 2 = n
        BY <4>1
      <4>6. p \in Seq(S) /\ Len(p) = n /\ \A k \in 1 .. n : p[k] = b[2 + k]
        BY <4>4, <4>5 DEF IsPart
      <4>7. \A k \in 1 .. n : p[k] = w[k]
        BY <3>5, <4>6
      <4>8. p = w
        <5>1. p \in Seq(S) /\ w \in Seq(S) /\ Len(p) = n /\ Len(w) = n
          BY <3>3, <3>4, <4>6
        <5> QED BY <4>7, <5>1
      <4>9. Len(b) = l /\ 2 + 1 = 3
        BY <3>5, <4>1
      <4> QED BY <4>2, <4>8, <4>9
    <3>8. Len(b) > 2
      <4>1. w # <<>>
        BY <3>1 DEF IsNumber
      <4>2. n # 0
        BY <3>3, <4>1
      <4> QED BY <3>5, <4>2
    <3>9. Printed(spec, arg) = b
      BY <1>6, <2>3, <3>1, <3>2 DEF Printed, SignedSpecifiers, HexSpecifiers
    <3>10. IsNumber(SubSeq(b, 3, Len(b)), arg, 16)
      BY <2>3, <3>1, <3>7
    <3>11. IsConverted(c, b)
      BY <1>6, <2>3, <3>6, <3>8, <3>10 DEF IsConverted, SignedSpecifiers, HexSpecifiers
    <3> QED BY <3>5, <3>9, <3>11
  <2> QED BY <2>1, <2>2, <2>3
<1>7. CASE spec = "c"
  <2>1. Printed(spec, arg) = <<arg>>
    BY <1>7 DEF Printed, SignedSpecifiers, HexSpecifiers
  <2>2. <<arg>> \in Seq({arg})
    OBVIOUS
  <2> QED BY <1>7, <2>1, <2>2 DEF IsConverted, SignedSpecifiers, HexSpecifiers
<1>8. CASE spec = "s"
  <2>1. Printed(spec, arg) = arg
    BY <1>8 DEF Printed, SignedSpecifiers, HexSpecifiers
  <2>2. arg \in Strings \cup {NullStr}
    BY <1>8 DEF Arguments, SignedSpecifiers, HexSpecifiers
  <2>3. NullStr \in Seq({"(null str)"})
    BY DEF NullStr
  <2>4. \E S : arg \in Seq(S)
    BY <2>2, <2>3, ArgumentsAssumption
  <2> QED BY <1>8, <2>1, <2>4 DEF IsConverted, SignedSpecifiers, HexSpecifiers
<1>9. CASE spec = "%"
  <2>1. Printed(spec, arg) = <<"%">>
    BY <1>9 DEF Printed, SignedSpecifiers, HexSpecifiers
  <2>2. <<"%">> \in Seq({"%"})
    OBVIOUS
  <2> QED BY <1>9, <2>1, <2>2 DEF IsConverted, SignedSpecifiers, HexSpecifiers
<1> QED BY <1>4, <1>5, <1>6, <1>7, <1>8, <1>9 DEF Specifiers

-----------------------------------------------------------------------------
(***************************************************************************)
(* The invariant.                                                          *)
(***************************************************************************)

\* What do_vsprintf keeps between two characters of the format.
ParserInv ==
  /\ flags \in Seq(Modifiers)
  /\ mod \in ModType
  /\ pc = "text" => flags = <<>> /\ mod = NoModifiers
  /\ pc = "modifiers" => Understood
  /\ pc \in {"write", "done"} => last = Nothing

\* Of no modifiers, the parser knows all there is to know.
LEMMA UnderstoodAtFirst ==
  ASSUME flags = <<>>, mod = NoModifiers
  PROVE  Understood /\ flags \in Seq(Modifiers) /\ mod \in ModType
<1>1. PICK mods \in Seq(Modifiers) : mods = <<>>
  <2>1. <<>> \in Seq(Modifiers)
    OBVIOUS
  <2> QED BY <2>1
<1>2. Len(mods) = 0 /\ 0 \in 0 .. Len(mods)
  BY <1>1
<1>3. WidthGiven(mods, 0, 0) = 0
  BY <1>2, WidthNotBegun
<1>4. LengthGiven(mods, 0) = 0
  BY <1>2 DEF LengthGiven
<1>5. Knows(mod, mods, 0, 0)
  <2>1. mod.width = 0 /\ mod.longness = 0 /\ ~ mod.left /\ mod.padding = " "
    BY DEF NoModifiers
  <2>2. \A k \in 1 .. 0 : FALSE
    OBVIOUS
  <2> QED BY <1>3, <1>4, <2>1, <2>2 DEF Knows
<1>6. \A i, j \in 0 .. Len(mods) : i = 0 /\ j = 0
  BY <1>2
<1>7. Understood
  BY <1>1, <1>5, <1>6 DEF Understood
<1>8. mod \in ModType
  <2>1. 0 \in Nat /\ 0 \in Int /\ FALSE \in BOOLEAN /\ " " \in {" ", "0"}
    OBVIOUS
  <2>2. NoModifiers \in ModType
    BY <2>1 DEF ModType, NoModifiers
  <2> QED BY <2>2
<1> QED BY <1>1, <1>7, <1>8

\* What a split of the modifiers says of the conversion about to be made.
LEMMA SplitOfConversion ==
  ASSUME ParserInv, pc = "modifiers", Splits(flags) # {}
  PROVE  /\ FetchBits = CallerBits
         /\ \A f : f \in {"-", "0"} =>
              (HasFlag(flags, f) <=> IF f = "-" THEN mod.left ELSE mod.padding = "0")
         /\ \A c : c.mods = flags =>
              WidthOf(c) = IF mod.width = Custom THEN c.width ELSE mod.width
<1>1. PICK mods \in Seq(Modifiers) : mods = flags
  BY DEF ParserInv
<1>2. PICK s \in Splits(mods) : TRUE
  BY <1>1
<1>3. PICK i, j : i = s[1] /\ j = s[2]
  OBVIOUS
<1>4. SplitAt(mods, i, j)
  BY <1>3, SplitIsPair
<1>5. PICK o : o = mod
  OBVIOUS
<1>6. Knows(o, mods, i, j)
  BY <1>1, <1>4, <1>5 DEF ParserInv, Understood, SplitAt
<1>7. FetchBits = CallerBits
  <2>1. (\E k \in DOMAIN mods : mods[k] \in {"l", "z"}) <=> LengthGiven(mods, j) \in {1, 2}
    BY <1>4, LengthOfSplit
  <2>2. o.longness = LengthGiven(mods, j)
    BY <1>6 DEF Knows
  <2> QED BY <1>1, <1>5, <2>1, <2>2 DEF FetchBits, CallerBits
<1>8. \A f : HasFlag(mods, f) <=> \E k \in 1 .. i : mods[k] = f
  BY <1>4, FlagsOfSplit
<1>9. HasFlag(mods, "-") <=> o.left
  BY <1>6, <1>8 DEF Knows
<1>10. HasFlag(mods, "0") <=> o.padding = "0"
  BY <1>6, <1>8 DEF Knows
<1>11. \A c : c.mods = mods => WidthOf(c) = IF o.width = Custom THEN c.width ELSE o.width
  <2> SUFFICES ASSUME NEW c, c.mods = mods
               PROVE  WidthOf(c) = IF o.width = Custom THEN c.width ELSE o.width
    OBVIOUS
  <2>1. WidthOf(c) = IF WidthGiven(mods, i, j) = Custom THEN c.width
                     ELSE WidthGiven(mods, i, j)
    BY <1>4, WidthOfSplit
  <2> QED BY <1>6, <2>1 DEF Knows
<1> QED BY <1>1, <1>5, <1>7, <1>9, <1>10, <1>11

\* A conversion that the standard defines prints the converted argument, and
\* all that pads it on the side where the standard has padding.
LEMMA ConversionAsC ==
  ASSUME ParserInv, pc = "modifiers",
         NEW spec \in Specifiers, NEW arg \in Arguments(spec), NEW width \in Nat,
         mod.width # Custom => width = mod.width,
         NEW out, out = Pad(Printed(spec, arg), width),
         NEW c, c = Conversion(flags, spec, width, arg, out), InStandard(c)
  PROVE  \E body \in Parts(c.out) : IsConverted(c, body) /\ IsPadded(c, body)
<1>1. c.mods = flags /\ c.spec = spec /\ c.width = width /\ c.arg = arg /\ c.out = out
  BY DEF Conversion
<1>2. Splits(flags) # {}
  BY <1>1 DEF InStandard
<1>3. /\ FetchBits = CallerBits
      /\ HasFlag(flags, "-") <=> mod.left
      /\ HasFlag(flags, "0") <=> mod.padding = "0"
      /\ WidthOf(c) = IF mod.width = Custom THEN c.width ELSE mod.width
  BY <1>1, <1>2, SplitOfConversion
<1>4. PICK body : body = Printed(spec, arg)
  OBVIOUS
<1>5. IsConverted(c, body) /\ \E S : body \in Seq(S)
  BY <1>1, <1>3, <1>4, PrintedIsConverted
<1>6. PICK S : body \in Seq(S)
  BY <1>5
<1>7. Padded(body, width, out)
  BY <1>4, <1>6, PadPads
<1>8. WidthOf(c) = width
  BY <1>1, <1>3
<1>9. mod.padding \in {" ", "0"}
  BY DEF ParserInv, ModType
<1>10. IsPadded(c, body)
  <2>1. PICK n : n = IF width > Len(body) THEN width - Len(body) ELSE 0
    OBVIOUS
  <2>5. n = Missing(c, Len(body))
    BY <1>8, <2>1 DEF Missing
  <2>2. /\ Len(out) - Len(body) = n
        /\ out = IF mod.left THEN body \o Fill(" ", n) ELSE Fill(mod.padding, n) \o body
    BY <1>7, <2>1 DEF Padded
  <2>3. CASE mod.left
    <3>1. HasFlag(c.mods, "-") /\ out = body \o Fill(" ", n)
      BY <1>1, <1>3, <2>2, <2>3
    <3> QED BY <1>1, <2>2, <2>5, <3>1 DEF IsPadded
  <2>4. CASE ~ mod.left
    <3>1. ~ HasFlag(c.mods, "-") /\ out = Fill(mod.padding, n) \o body
      BY <1>1, <1>3, <2>2, <2>4
    <3>2. mod.padding = IF HasFlag(c.mods, "0") THEN "0" ELSE " "
      BY <1>1, <1>3, <1>9
    <3> QED BY <1>1, <2>2, <2>5, <3>1, <3>2 DEF IsPadded
  <2> QED BY <2>3, <2>4
<1>11. body \in Parts(c.out)
  BY <1>1, <1>7 DEF Padded
<1> QED BY <1>5, <1>10, <1>11

PrintfInv == ParserInv /\ PrintsAsC /\ StopsOnlyAtLimits

LEMMA NothingFacts ==
  ASSUME last = Nothing
  PROVE  PrintsAsC /\ StopsOnlyAtLimits
BY DEF PrintsAsC, Converted, StopsOnlyAtLimits, Nothing, Conversion

LEMMA InitPrintf == Init => PrintfInv
<1> SUFFICES ASSUME Init
             PROVE  PrintfInv
  OBVIOUS
<1>1. flags = <<>> /\ mod = NoModifiers /\ pc \in {"text", "stopped"} /\ last = Nothing
  BY DEF Init
<1> QED BY <1>1, UnderstoodAtFirst, NothingFacts DEF PrintfInv, ParserInv

LEMMA ReadTextKeeps ==
  ASSUME PrintfInv, NEW c \in Alphabet, ReadText(c)
  PROVE  PrintfInv'
<1>1. /\ flags = <<>> /\ mod = NoModifiers
      /\ UNCHANGED <<mod, flags>> /\ last' = Nothing
      /\ pc' \in {"text", "modifiers"}
  BY DEF ReadText, PrintfInv, ParserInv
<1>2. Understood' /\ flags' \in Seq(Modifiers) /\ mod' \in ModType
  <2>1. Understood /\ flags \in Seq(Modifiers) /\ mod \in ModType
    BY <1>1, UnderstoodAtFirst
  <2> QED BY <1>1, <2>1 DEF Understood
<1>3. ParserInv'
  BY <1>1, <1>2 DEF ParserInv
<1>4. (PrintsAsC /\ StopsOnlyAtLimits)'
  BY <1>1 DEF PrintsAsC, Converted, StopsOnlyAtLimits, Nothing, Conversion
<1> QED BY <1>3, <1>4 DEF PrintfInv

LEMMA ReadModifierKeeps ==
  ASSUME PrintfInv, NEW c \in Alphabet, ReadModifier(c)
  PROVE  PrintfInv'
<1>1. /\ pc = "modifiers" /\ c \in Modifiers
      /\ flags \in Seq(Modifiers) /\ mod \in ModType /\ Understood
  BY DEF ReadModifier, PrintfInv, ParserInv
<1>2. CASE Rejected(c)
  <2>1. /\ pc' = "stopped" /\ UNCHANGED <<mod, flags>>
        /\ last' = Conversion(Append(flags, c), "d", 0, NoArg, <<>>)
    BY <1>2 DEF ReadModifier
  <2>2. ParserInv'
    BY <1>1, <2>1 DEF ParserInv
  <2>3. PICK b \in Seq(Modifiers) : b = Append(flags, c)
    <3>1. Append(flags, c) \in Seq(Modifiers)
      BY <1>1
    <3> QED BY <3>1
  <2>4. Splits(b) = {}
    <3> SUFFICES ASSUME NEW s \in Splits(b)
                 PROVE  FALSE
      OBVIOUS
    <3>1. PICK i, j : i = s[1] /\ j = s[2]
      OBVIOUS
    <3>2. SplitAt(Append(flags, c), i, j)
      BY <2>3, <3>1, SplitIsPair
    <3> QED BY <1>1, <1>2, <3>2, SplitGoesOn
  <2>5. last'.mods = b
    BY <2>1, <2>3 DEF Conversion
  <2>6. ~ InStandard(last')
    BY <2>4, <2>5 DEF InStandard
  <2>7. PrintsAsC' /\ StopsOnlyAtLimits'
    BY <2>1, <2>6 DEF PrintsAsC, Converted, StopsOnlyAtLimits
  <2> QED BY <2>2, <2>7 DEF PrintfInv
<1>3. CASE ~ Rejected(c)
  <2>1. mod' = Modified(c) /\ flags' = Append(flags, c) /\ UNCHANGED <<pc, last>>
    BY <1>3 DEF ReadModifier
  <2>2. flags' \in Seq(Modifiers) /\ mod' \in ModType
    BY <1>1, <2>1, ModifiedFields
  <2>3. Understood'
    <3> SUFFICES ASSUME NEW i \in 0 .. Len(flags'), NEW j \in 0 .. Len(flags'),
                        SplitAt(flags', i, j)
                 PROVE  Knows(mod', flags', i, j)
      BY DEF Understood
    <3>1. SplitAt(Append(flags, c), i, j)
      BY <2>1
    <3>2. Knows(Modified(c), Append(flags, c), i, j)
      BY <1>1, <3>1, SplitGoesOn
    <3> QED BY <2>1, <3>2
  <2>4. ParserInv'
    BY <1>1, <2>1, <2>2, <2>3 DEF ParserInv
  <2>5. PrintsAsC' /\ StopsOnlyAtLimits'
    BY <2>1 DEF PrintfInv, PrintsAsC, Converted, StopsOnlyAtLimits
  <2> QED BY <2>4, <2>5 DEF PrintfInv
<1> QED BY <1>2, <1>3

LEMMA ReadSpecifierKeeps ==
  ASSUME PrintfInv, NEW spec \in Alphabet, ReadSpecifier(spec)
  PROVE  PrintfInv'
<1>1. pc = "modifiers" /\ ParserInv /\ HandleFormat(spec)
  BY DEF ReadSpecifier, PrintfInv
<1>2. PICK width \in IF mod.width = Custom THEN Widths ELSE {mod.width} :
      \E arg \in Arguments(spec) :
        IF width < 0 \/ spec \notin Specifiers \/ Refused(spec, arg)
        THEN Stop(width, arg, spec)
        ELSE LET out == Pad(Printed(spec, arg), width)
             IN  /\ pc' = "text"
                 /\ len' = len + Len(out)
                 /\ last' = Conversion(flags, spec, width, arg, out)
                 /\ mod' = NoModifiers
                 /\ flags' = <<>>
  BY <1>1 DEF HandleFormat
<1>3. PICK arg \in Arguments(spec) :
        IF width < 0 \/ spec \notin Specifiers \/ Refused(spec, arg)
        THEN Stop(width, arg, spec)
        ELSE LET out == Pad(Printed(spec, arg), width)
             IN  /\ pc' = "text"
                 /\ len' = len + Len(out)
                 /\ last' = Conversion(flags, spec, width, arg, out)
                 /\ mod' = NoModifiers
                 /\ flags' = <<>>
  BY <1>2
<1>4. width \in Int /\ (mod.width # Custom => width = mod.width)
  BY <1>1, <1>2, ArgumentsAssumption DEF ParserInv, ModType
<1>5. CASE width < 0 \/ spec \notin Specifiers \/ Refused(spec, arg)
  <2>1. /\ pc' = "stopped" /\ UNCHANGED <<mod, flags>>
        /\ last' = Conversion(flags, spec, width, arg, <<>>)
    BY <1>3, <1>5 DEF Stop
  <2>2. ParserInv'
    BY <1>1, <2>1 DEF ParserInv
  <2>3. last'.mods = flags /\ last'.spec = spec /\ last'.width = width /\ last'.arg = arg
    BY <2>1 DEF Conversion
  <2>4. CASE Refused(spec, arg) /\ InStandard(last')
    <3>1. FetchBits = CallerBits
      BY <1>1, <2>3, <2>4, SplitOfConversion DEF InStandard
    <3>2. PICK bits \in {IntBits, LongBits} : bits = CallerBits /\ bits = FetchBits
      BY <3>1 DEF CallerBits
    <3>3. spec \in SignedSpecifiers /\ AsSigned(arg, bits) = -(2 ^ (LongBits - 1))
      BY <2>4, <3>2 DEF Refused
    <3>4. arg \in Signed(bits)
      BY <3>2, <3>3 DEF Arguments, SignedSpecifiers, HexSpecifiers
    <3>5. arg = -(2 ^ (LongBits - 1))
      BY <3>3, <3>4, SignedFits
    <3> QED BY <2>1, <2>2, <2>3, <3>3, <3>5 DEF PrintfInv, PrintsAsC, Converted, StopsOnlyAtLimits
  <2>5. CASE ~ (Refused(spec, arg) /\ InStandard(last'))
    BY <1>5, <2>1, <2>2, <2>3, <2>5
    DEF PrintfInv, PrintsAsC, Converted, StopsOnlyAtLimits, Specifiers, SignedSpecifiers,
        HexSpecifiers
  <2> QED BY <2>4, <2>5
<1>6. CASE ~ (width < 0 \/ spec \notin Specifiers \/ Refused(spec, arg))
  <2>1. PICK out : out = Pad(Printed(spec, arg), width)
    OBVIOUS
  <2>2. /\ pc' = "text" /\ mod' = NoModifiers /\ flags' = <<>>
        /\ last' = Conversion(flags, spec, width, arg, out)
    BY <1>3, <1>6, <2>1
  <2>3. ParserInv'
    <3>1. <<>> \in Seq(Modifiers) /\ NoModifiers \in ModType
      BY DEF ModType, NoModifiers
    <3> QED BY <2>2, <3>1 DEF ParserInv
  <2>4. PICK c : c = Conversion(flags, spec, width, arg, out)
    OBVIOUS
  <2>5. InStandard(c) => \E body \in Parts(c.out) : IsConverted(c, body) /\ IsPadded(c, body)
    <3>1. width \in Nat /\ spec \in Specifiers
      BY <1>4, <1>6
    <3> QED BY <1>1, <1>4, <2>1, <2>4, <3>1, ConversionAsC
  <2>6. PrintsAsC' /\ StopsOnlyAtLimits'
    BY <2>2, <2>4, <2>5 DEF PrintsAsC, Converted, StopsOnlyAtLimits
  <2> QED BY <2>3, <2>6 DEF PrintfInv
<1> QED BY <1>5, <1>6

LEMMA OtherPrintfSteps ==
  ASSUME PrintfInv, ReadEnd \/ Write \/ UNCHANGED vars
  PROVE  PrintfInv'
<1>1. CASE ReadEnd
  <2>1. /\ pc' \in {"write", "done", "stopped"} /\ last' = Nothing
        /\ UNCHANGED <<mod, flags>>
    BY <1>1 DEF ReadEnd
  <2>2. ParserInv'
    BY <2>1 DEF PrintfInv, ParserInv
  <2>3. PrintsAsC' /\ StopsOnlyAtLimits'
    BY <2>1 DEF PrintsAsC, Converted, StopsOnlyAtLimits, Nothing, Conversion
  <2> QED BY <2>2, <2>3 DEF PrintfInv
<1>2. CASE Write
  <2>1. /\ pc' \in {"done", "stopped"} /\ last' = last /\ last = Nothing
        /\ UNCHANGED <<mod, flags>>
    BY <1>2 DEF Write, PrintfInv, ParserInv
  <2>2. ParserInv'
    BY <2>1 DEF PrintfInv, ParserInv
  <2>3. PrintsAsC' /\ StopsOnlyAtLimits'
    BY <2>1 DEF PrintsAsC, Converted, StopsOnlyAtLimits, Nothing, Conversion
  <2> QED BY <2>2, <2>3 DEF PrintfInv
<1>3. CASE UNCHANGED vars
  BY <1>3 DEF vars, PrintfInv, ParserInv, Understood, PrintsAsC, Converted,
    StopsOnlyAtLimits
<1> QED BY <1>1, <1>2, <1>3

LEMMA PrintfStep == PrintfInv /\ [Next]_vars => PrintfInv'
<1> SUFFICES ASSUME PrintfInv, [Next]_vars
             PROVE  PrintfInv'
  OBVIOUS
<1>1. ASSUME NEW c \in Alphabet, ReadText(c) \/ ReadModifier(c) \/ ReadSpecifier(c)
      PROVE  PrintfInv'
  BY <1>1, ReadTextKeeps, ReadModifierKeeps, ReadSpecifierKeeps
<1>2. CASE ReadEnd \/ Write \/ UNCHANGED vars
  BY <1>2, OtherPrintfSteps
<1> QED BY <1>1, <1>2 DEF Next

LEMMA PrintfAlways == Spec => []PrintfInv
<1> QED BY InitPrintf, PrintfStep, PTL DEF Spec

-----------------------------------------------------------------------------

\* Whatever the format, a conversion that the C standard defines prints what
\* PrintsAsC says of it, which leaves out the negative numbers padded by zeros
\* (the code does not follow the standard there): do_vsprintf and handle_format
\* agree with the standard on what the flags, the width and the length mean, and
\* print_int and print_uint write the number that was passed.
THEOREM AlwaysPrintsAsC == Spec => []PrintsAsC
<1>1. PrintfInv => PrintsAsC
  BY DEF PrintfInv
<1> QED BY <1>1, PrintfAlways, PTL

\* Inside a conversion the SAFE_ASSERTs and the default of handle_format stop
\* the process only for what the standard does not define, a negative width,
\* an unknown specifier and the most negative number.
THEOREM AlwaysStopsOnlyAtLimits == Spec => []StopsOnlyAtLimits
<1>1. PrintfInv => StopsOnlyAtLimits
  BY DEF PrintfInv
<1> QED BY <1>1, PrintfAlways, PTL
=============================================================================
