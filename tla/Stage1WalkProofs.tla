-------------------------- MODULE Stage1WalkProofs --------------------------
(***************************************************************************)
(* The walk answers what an AT answers, for all widths, the code's own     *)
(* (pages of 2^12 and up, addresses of 64 bits) among them.                *)
(***************************************************************************)
EXTENDS Stage1Walk, TLAPS

-----------------------------------------------------------------------------
(* Quotients and remainders. *)

\* Division with remainder.
LEMMA Euclid ==
  ASSUME NEW x \in Nat, NEW b \in Nat \ {0}
  PROVE  /\ x \div b \in Nat /\ x % b \in 0 .. b - 1
         /\ x = b * (x \div b) + (x % b)
  OBVIOUS

\* There is one quotient and one remainder.
LEMMA Quotient ==
  ASSUME NEW x \in Nat, NEW b \in Nat \ {0}, NEW q \in Nat, NEW r \in 0 .. b - 1,
         x = b * q + r
  PROVE  x \div b = q /\ x % b = r
  OBVIOUS

\* A number below the divisor is its own remainder.
LEMMA Small ==
  ASSUME NEW x \in Nat, NEW b \in Nat \ {0}, x < b
  PROVE  x % b = x
  BY Quotient, x = b * 0 + x

\* A number with a lower digit r, a middle one s and the rest q.
LEMMA Digits ==
  ASSUME NEW a \in Nat \ {0}, NEW b \in Nat \ {0}, NEW q \in Nat,
         NEW s \in 0 .. b - 1, NEW r \in 0 .. a - 1
  PROVE  /\ a * (b * q + s) + r = (a * b) * q + (a * s + r)
         /\ a * s + r \in 0 .. a * b - 1
         /\ a * b \in Nat \ {0}
<1>1. a * (b * q + s) = (a * b) * q + a * s
  OBVIOUS
<1>2. a * s \in 0 .. a * (b - 1)
  OBVIOUS
<1>3. a * (b - 1) = a * b - a
  OBVIOUS
<1>4. a * b \in Nat \ {0} /\ (a * b) * q \in Nat
  OBVIOUS
<1> QED
  BY <1>1, <1>2, <1>3, <1>4

\* Quotient and remainder by a product, in one step or in two.
LEMMA Product ==
  ASSUME NEW x \in Nat, NEW a \in Nat \ {0}, NEW b \in Nat \ {0}
  PROVE  /\ (x \div a) \div b = x \div (a * b)
         /\ (x % (a * b)) \div a = (x \div a) % b
         /\ (x % (a * b)) % a = x % a
<1>1. PICK y \in Nat, r \in 0 .. a - 1 : y = x \div a /\ r = x % a /\ x = a * y + r
  BY Euclid
<1>2. PICK q \in Nat, s \in 0 .. b - 1 : q = y \div b /\ s = y % b /\ y = b * q + s
  BY Euclid
<1>3. PICK m \in Nat : m = a * s + r
  OBVIOUS
<1>4. PICK ab \in Nat \ {0} : ab = a * b
  OBVIOUS
<1>5. x = ab * q + m /\ m \in 0 .. ab - 1
  <2>1. /\ a * (b * q + s) + r = (a * b) * q + (a * s + r)
        /\ a * s + r \in 0 .. a * b - 1
    BY Digits
  <2> QED
    BY <2>1, <1>1, <1>2, <1>3, <1>4, Zenon
<1>6. x \div ab = q /\ x % ab = m
  BY <1>5, Quotient
<1>7. m \div a = s /\ m % a = r
  BY <1>3, Quotient
<1> QED
  BY <1>1, <1>2, <1>4, <1>6, <1>7

\* Cutting an address short and then shifting it, or the other way round.
LEMMA ModDiv ==
  ASSUME NEW x \in Nat, NEW a \in Nat \ {0}, NEW b \in Nat \ {0}
  PROVE  (x % (a * b)) \div a = (x \div a) % b
  BY Product, Zenon

-----------------------------------------------------------------------------
(* The fields of an address. *)

\* The guest's controls and descriptors.
TypeInv ==
  /\ mem \in [Words -> Descs]
  /\ on \in BOOLEAN
  /\ tsz \in 0 .. VaWidth - 1
  /\ tg \in 0 .. 3

\* A granule, and a size of address that four levels of it resolve.
Regime(pb) ==
  /\ pb \in {OutBits, MidBits, BigBits}
  /\ VaBits >= pb /\ VaBits <= pb + 4 * LevelBits(pb)

\* The widths of a regime are numbers, and a level resolves at least one bit.
LEMMA Widths ==
  ASSUME TypeInv, NEW pb, Regime(pb)
  PROVE  /\ OutBits \in Nat \ {0} /\ DescBits \in Nat /\ VaWidth \in Nat
         /\ pb \in Nat /\ OutBits <= pb
         /\ LevelBits(pb) \in Nat \ {0} /\ LevelBits(pb) <= pb
         /\ VaBits \in Nat /\ VaBits <= VaWidth
  BY WalkAssumption DEF TypeInv, Regime, LevelBits, VaBits

\* The loop that looks for the first level stops where the fields, counted from
\* the bottom, have used up the address.
LEMMA FirstLevel ==
  ASSUME TypeInv, NEW pb, Regime(pb)
  PROVE  /\ StartLevel(pb) = 4 - Levels(pb)
         /\ StartLevel(pb) \in 0 .. 3
         /\ VaBits <= pb + Levels(pb) * LevelBits(pb) /\ Levels(pb) \in 1 .. 4
         /\ pb + (Levels(pb) - 1) * LevelBits(pb) <= VaBits
         /\ \A l \in StartLevel(pb) .. 3 :
              /\ l \in 0 .. 3
              /\ (3 - l) * LevelBits(pb) \in Nat
              /\ Shift(pb, l) = pb + (3 - l) * LevelBits(pb)
              /\ Shift(pb, l) \in pb .. VaBits
<1> DEFINE L == LevelBits(pb)
           V == VaBits
           Good(n) == pb + n * L >= V /\ (n = 1 \/ pb + (n - 1) * L < V)
           enough == {l \in 0 .. 3 : l = 0 \/ Shift(pb, l) + L >= V}
<1>1. pb \in Nat /\ L \in Nat \ {0} /\ V \in Nat /\ V >= pb /\ V <= pb + 4 * L
  BY Widths DEF Regime
<1>2. \E n \in 1 .. 4 : Good(n)
  <2>1. CASE V <= pb + L
    BY <1>1, <2>1, Good(1)
  <2>2. CASE V > pb + L /\ V <= pb + 2 * L
    BY <1>1, <2>2, Good(2)
  <2>3. CASE V > pb + 2 * L /\ V <= pb + 3 * L
    BY <1>1, <2>3, Good(3)
  <2>4. CASE V > pb + 3 * L
    BY <1>1, <2>4, Good(4)
  <2> QED
    BY <1>1, <2>1, <2>2, <2>3, <2>4
<1>3. PICK n \in 1 .. 4 : n = Levels(pb) /\ Good(n)
  <2>1. Levels(pb) = CHOOSE n \in 1 .. 4 : Good(n)
    BY DEF Levels
  <2> QED
    BY <1>2, <2>1
<1>4. StartLevel(pb) = CHOOSE l \in enough : \A k \in enough : k <= l
  BY DEF StartLevel
<1>5. \A l \in 0 .. 3 : Shift(pb, l) = pb + (3 - l) * L
  BY DEF Shift
<1>6. 4 - n \in enough
  BY <1>1, <1>3, <1>5
<1>7. \A k \in enough : k <= 4 - n
  <2> SUFFICES ASSUME NEW k \in 0 .. 3, k > 4 - n, pb + (3 - k) * L + L >= V
               PROVE  FALSE
    BY <1>5
  <2>1. pb + (n - 1) * L < V
    BY <1>3
  <2>2. (3 - k) * L + L <= (n - 1) * L
    BY <1>1
  <2> QED
    BY <1>1, <2>1, <2>2
<1>8. StartLevel(pb) = 4 - n
  <2>1. \A l \in enough : (\A k \in enough : k <= l) => l = 4 - n
    BY <1>6, <1>7
  <2> HIDE DEF enough
  <2> QED
    BY <1>4, <1>6, <1>7, <2>1
<1>9. ASSUME NEW l \in 4 - n .. 3
      PROVE  l \in 0 .. 3 /\ (3 - l) * L \in Nat /\ pb + (3 - l) * L <= V
  <2>1. l \in 0 .. 3 /\ (3 - l) * L \in Nat
    BY <1>1
  <2>2. CASE n = 1
    BY <1>1, <2>1, <2>2
  <2>3. CASE n # 1
    <3>1. (3 - l) * L <= (n - 1) * L
      BY <1>1
    <3> QED
      BY <1>1, <1>3, <2>1, <2>3, <3>1
  <2> QED
    BY <2>1, <2>2, <2>3
<1>10. ASSUME NEW l \in StartLevel(pb) .. 3
       PROVE  /\ l \in 0 .. 3 /\ (3 - l) * L \in Nat
              /\ Shift(pb, l) = pb + (3 - l) * L /\ Shift(pb, l) \in pb .. V
  <2>1. l \in 0 .. 3 /\ (3 - l) * L \in Nat /\ pb + (3 - l) * L <= V
    BY <1>8, <1>9
  <2>2. Shift(pb, l) = pb + (3 - l) * L
    BY <1>5, <2>1
  <2> QED
    BY <1>1, <2>1, <2>2
<1>11. StartLevel(pb) = 4 - Levels(pb) /\ StartLevel(pb) \in 0 .. 3
  BY <1>3, <1>8
<1>12. V <= pb + Levels(pb) * L /\ Levels(pb) \in 1 .. 4 /\ pb + (Levels(pb) - 1) * L <= V
  <2>1. CASE n = 1
    BY <1>1, <1>3, <2>1
  <2>2. CASE n # 1
    <3>1. pb + (n - 1) * L < V /\ (n - 1) * L \in Nat
      BY <1>1, <1>3, <2>2
    <3> QED
      BY <1>1, <1>3, <3>1
  <2> QED
    BY <2>1, <2>2
<1> QED
  BY <1>10, <1>11, <1>12

\* What the assumption about powers is used for.
LEMMA Powers ==
  ASSUME NEW m \in Nat, NEW n \in Nat, m <= VaWidth, n <= VaWidth
  PROVE  /\ 2^m \in Nat \ {0} /\ 2^n \in Nat \ {0}
         /\ 2^(m + n) = 2^m * 2^n
  BY PowerAssumption, WalkAssumption

\* The power of a width, split at a smaller one.
LEMMA PowerSplit ==
  ASSUME NEW m \in Nat, NEW n \in Nat, m <= n, n <= VaWidth
  PROVE  /\ n - m \in Nat /\ 2^(n - m) \in Nat \ {0} /\ 2^m \in Nat \ {0}
         /\ 2^n = 2^m * 2^(n - m) /\ 2^m <= 2^n
<1>1. n - m \in Nat /\ n - m <= VaWidth /\ m <= VaWidth /\ n = m + (n - m)
  BY WalkAssumption
<1>2. 2^(m + (n - m)) = 2^m * 2^(n - m) /\ 2^m \in Nat \ {0} /\ 2^(n - m) \in Nat \ {0}
  BY <1>1, Powers
<1>3. 2^n = 2^m * 2^(n - m)
  BY <1>1, <1>2, Zenon
<1>4. PICK a \in Nat \ {0}, b \in Nat \ {0} : a = 2^m /\ b = 2^(n - m)
  BY <1>2
<1>5. a <= a * b
  OBVIOUS
<1> QED
  BY <1>1, <1>2, <1>3, <1>4, <1>5

\* The index of the code, which is cut short at the first level, is the field.
LEMMA IndexIsField ==
  ASSUME TypeInv, NEW pb, Regime(pb), NEW va \in Nat, NEW l \in StartLevel(pb) .. 3
  PROVE  Index(va, pb, l) = Field(va, pb, l)
<1> DEFINE L == LevelBits(pb)
           V == VaBits
           k == (3 - l) * L
           s == Shift(pb, l)
<1>1. k \in Nat /\ s = pb + k /\ s \in pb .. V
  BY FirstLevel
<1>2. pb \in Nat /\ L \in Nat \ {0} /\ L <= pb /\ V \in Nat /\ V <= VaWidth /\ VaWidth \in Nat
  BY Widths
<1>3. /\ s \in Nat /\ k <= VaWidth /\ pb <= VaWidth /\ s <= VaWidth /\ L <= VaWidth
      /\ s <= V
  BY <1>1, <1>2
<1> HIDE DEF k, s, L, V
<1>4. PICK A \in Nat \ {0}, B \in Nat \ {0} : A = 2^pb /\ B = 2^k /\ 2^s = A * B
  <2>1. 2^(pb + k) = 2^pb * 2^k /\ 2^pb \in Nat \ {0} /\ 2^k \in Nat \ {0}
    BY <1>1, <1>2, <1>3, Powers
  <2> QED
    BY <1>1, <2>1
<1>5. PICK C \in Nat \ {0}, T \in Nat \ {0} : C = 2^(V - s) /\ T = 2^s /\ 2^V = T * C
  BY <1>2, <1>3, PowerSplit
<1>6. T = A * B
  BY <1>4, <1>5
<1>7. PICK D \in Nat \ {0} : D = 2^L
  BY <1>2, <1>3, Powers
<1>8. PICK y \in Nat : y = va \div T
  BY Euclid
\* The field, without the steps through which it is taken.
<1>9. Field(va, pb, l) = (y % C) % D
  <2>1. Field(va, pb, l) = (((va % (2^V)) \div 2^pb) \div 2^k) % 2^L
    BY DEF Field, k, L, V
  <2>2. PICK w \in Nat : w = va % (T * C)
    <3>1. T * C \in Nat \ {0}
      OBVIOUS
    <3> QED
      BY <3>1, Euclid
  <2>3. (w \div A) \div B = w \div T
    <3>1. (w \div A) \div B = w \div (A * B)
      BY Product
    <3> QED
      BY <1>6, <3>1, Zenon
  <2>4. w \div T = y % C
    <3>1. (va % (T * C)) \div T = (va \div T) % C
      BY ModDiv, Zenon
    <3> QED
      BY <1>8, <2>2, <3>1, Zenon
  <2> QED
    BY <1>4, <1>5, <1>7, <2>1, <2>2, <2>3, <2>4, Zenon
<1>10. CASE s + L > V
  <2>1. Index(va, pb, l) = y % C
    BY <1>5, <1>8, <1>10 DEF Index, s, L, V
  <2>2. V - s \in Nat /\ V - s <= L /\ L \in Nat
    BY <1>2, <1>3, <1>10
  <2>3. C <= D
    BY <1>3, <1>5, <1>7, <2>2, PowerSplit
  <2>4. y % C \in 0 .. C - 1
    BY Euclid
  <2>5. (y % C) % D = y % C
    BY <2>3, <2>4, Small
  <2> QED
    BY <1>9, <2>1, <2>5
<1>11. CASE ~(s + L > V)
  <2>1. Index(va, pb, l) = y % D
    BY <1>5, <1>7, <1>8, <1>11 DEF Index, s, L, V
  <2>2. L \in Nat /\ V - s \in Nat /\ L <= V - s /\ V - s <= VaWidth
    BY <1>2, <1>3, <1>11
  <2>3. PICK E \in Nat \ {0} : C = D * E
    <3>1. 2^(V - s) = 2^L * 2^((V - s) - L) /\ 2^((V - s) - L) \in Nat \ {0}
      BY <2>2, PowerSplit
    <3> QED
      BY <1>5, <1>7, <3>1, Zenon
  <2>4. (y % (D * E)) % D = y % D
    BY Product
  <2> QED
    BY <1>9, <2>1, <2>3, <2>4
<1> QED
  BY <1>10, <1>11

-----------------------------------------------------------------------------
(* Rounding down, the leaf, the granule. *)

\* Clearing low bits is taking the multiple below.
LEMMA DownIsMultiple ==
  ASSUME NEW x \in Nat, NEW n \in Nat, n <= VaWidth
  PROVE  Down(x, n) = (x \div 2^n) * 2^n /\ Down(x, n) \in Nat
<1>1. PICK b \in Nat \ {0} : b = 2^n
  BY Powers
<1>2. PICK q \in Nat, r \in 0 .. b - 1 : q = x \div b /\ r = x % b /\ x = b * q + r
  BY Euclid
<1>3. x - r = q * b /\ q * b \in Nat
  BY <1>2
<1> QED
  BY <1>1, <1>2, <1>3 DEF Down

\* A number below the top of a physical address is not cut.
LEMMA CutKeeps ==
  ASSUME NEW x \in Nat, x < 2^PaBits
  PROVE  Cut(x) = x
<1>1. PICK b \in Nat \ {0} : b = 2^PaBits
  BY Powers, WalkAssumption
<1> QED
  BY <1>1, Small DEF Cut

\* A first table that begins at a page begins where the code looks for it.
LEMMA BaseIsFirstTable ==
  ASSUME TypeInv, NEW pb, Regime(pb), FirstTable(pb) % 2^pb = 0
  PROVE  FirstTable(pb) = TableBase(pb)
<1> DEFINE x == DescBits + (VaBits - (pb + (Levels(pb) - 1) * LevelBits(pb)))
           T == Cut(Ttbr)
<1>1. pb \in Nat /\ pb <= VaWidth /\ DescBits \in Nat
  BY Widths, WalkAssumption DEF Regime
<1>2. x \in Nat /\ x <= pb
  <2>1. /\ Levels(pb) \in 1 .. 4 /\ LevelBits(pb) \in Nat \ {0} /\ VaBits \in Nat
        /\ VaBits <= pb + Levels(pb) * LevelBits(pb)
        /\ pb + (Levels(pb) - 1) * LevelBits(pb) <= VaBits
    BY FirstLevel, Widths
  <2>2. PICK n \in 1 .. 4 : n = Levels(pb)
    BY <2>1
  <2>3. PICK L \in Nat \ {0} : L = LevelBits(pb)
    BY <2>1
  <2>4. pb = DescBits + L
    BY <1>1, <2>3, Widths DEF LevelBits
  <2>5. (n - 1) * L = n * L - L /\ n * L \in Nat
    OBVIOUS
  <2>6. PICK p \in Nat : p = n * L /\ (n - 1) * L = p - L
    BY <2>5
  <2>7. VaBits \in Nat /\ VaBits <= pb + p /\ pb + (p - L) <= VaBits
    BY <2>1, <2>2, <2>3, <2>6
  <2>8. x = DescBits + (VaBits - (pb + (p - L)))
    BY <2>2, <2>3, <2>6
  <2> QED
    BY <1>1, <2>4, <2>7, <2>8
<1>3. T \in Nat
  <2>1. PICK b \in Nat \ {0} : b = 2^PaBits
    BY Powers, WalkAssumption
  <2>2. Ttbr \in Nat
    BY WalkAssumption
  <2>3. (Ttbr % b) \in 0 .. b - 1
    BY <2>1, <2>2, Euclid
  <2> QED
    BY <2>1, <2>3 DEF Cut
<1> HIDE DEF x, T
<1>4. PICK a \in Nat \ {0}, b \in Nat \ {0} : a = 2^x /\ b = 2^pb /\ a <= b
  BY <1>1, <1>2, PowerSplit
<1>5. PICK y \in 0 .. a - 1 : y = T % a /\ y <= T
  <2>1. T = a * (T \div a) + (T % a) /\ T \div a \in Nat /\ (T % a) \in 0 .. a - 1
    BY <1>3, <1>4, Euclid
  <2>2. PICK q \in Nat, z \in 0 .. a - 1 : q = T \div a /\ z = T % a
    BY <2>1
  <2>3. a * q \in Nat
    OBVIOUS
  <2>4. PICK c \in Nat : c = a * q
    BY <2>3
  <2>5. T = c + z
    BY <2>1, <2>2, <2>4
  <2> QED
    BY <2>2, <2>5
<1>6. PICK d \in Nat : d = T - y /\ FirstTable(pb) = d
  <2>1. FirstTable(pb) = Down(T, x)
    BY DEF FirstTable, T, x
  <2>2. FirstTable(pb) = T - y
    BY <1>4, <1>5, <2>1 DEF Down
  <2> QED
    BY <1>3, <1>5, <2>2
<1>7. PICK k \in Nat : d = b * k
  <2>1. d % b = 0
    BY <1>4, <1>6
  <2>2. d = b * (d \div b) + (d % b) /\ d \div b \in Nat
    BY <1>4, <1>6, Euclid
  <2>3. PICK j \in Nat : j = d \div b
    BY <2>2
  <2>4. d = b * j + 0
    BY <2>1, <2>2, <2>3
  <2> QED
    BY <2>3, <2>4
<1>8. T = b * k + y /\ y \in 0 .. b - 1
  BY <1>3, <1>4, <1>6, <1>7
<1>9. T % b = y
  BY <1>3, <1>8, Quotient
<1> QED
  BY <1>4, <1>6, <1>9 DEF TableBase, Down, T

\* Pages and the blocks the architecture has are not larger than an address.
LEMMA LeafFits ==
  ASSUME TypeInv, NEW pb, Regime(pb), NEW l \in BlockLevels(pb) \union {3}
  PROVE  Shift(pb, l) <= PaBits
<1>1. /\ OutBits \in Nat /\ MidBits \in Nat /\ BigBits \in Nat /\ DescBits \in Nat
      /\ DescBits < OutBits /\ OutBits < MidBits /\ MidBits < BigBits /\ PaBits \in Nat
      /\ OutBits + 2 * (OutBits - DescBits) <= PaBits
      /\ BigBits + (BigBits - DescBits) <= PaBits
  BY WalkAssumption
<1>2. pb \in {OutBits, MidBits, BigBits}
  BY DEF Regime
<1>3. CASE l = 3
  BY <1>1, <1>2, <1>3 DEF Shift, LevelBits
<1>4. CASE l = 2
  BY <1>1, <1>2, <1>4 DEF Shift, LevelBits
<1>5. CASE l = 1 /\ pb = OutBits
  BY <1>1, <1>5 DEF Shift, LevelBits
<1> QED
  BY <1>3, <1>4, <1>5 DEF BlockLevels

\* The address in a leaf, by the fields: what the leaf holds, and of the address
\* what its level leaves.
Pa(out, va, pb, l) ==
  LET size == 2^(pb + (3 - l) * LevelBits(pb)) IN
  (out \div size) * size + ((va % size) \div 2^OutBits) * 2^OutBits

\* The code's leaf address is the architecture's: base of the block and offset in it.
LEMMA LeafIsPa ==
  ASSUME TypeInv, NEW pb, Regime(pb), NEW va \in Nat, NEW l \in StartLevel(pb) .. 3,
         NEW d, d.out \in Nat, l \in BlockLevels(pb) \union {3}
  PROVE  Leaf(d, va, pb, l) = Pa(d.out, va, pb, l)
<1>1. /\ Shift(pb, l) = pb + (3 - l) * LevelBits(pb) /\ Shift(pb, l) \in Nat
      /\ Shift(pb, l) <= VaWidth /\ OutBits \in Nat /\ OutBits <= VaWidth
  BY FirstLevel, Widths, WalkAssumption
<1>2. Down(d.out, Shift(pb, l)) = (d.out \div 2^Shift(pb, l)) * 2^Shift(pb, l)
  BY <1>1, DownIsMultiple
<1>3. va % (2^Shift(pb, l)) \in Nat
  <2>1. PICK b \in Nat \ {0} : b = 2^Shift(pb, l)
    BY <1>1, Powers
  <2>2. va % b \in Nat
    BY Euclid
  <2> QED
    BY <2>1, <2>2
<1>5. Cut(va % (2^Shift(pb, l))) = va % (2^Shift(pb, l))
  <2>1. PICK b \in Nat \ {0}, c \in Nat \ {0} : b = 2^Shift(pb, l) /\ c = 2^PaBits /\ b <= c
    BY <1>1, LeafFits, PowerSplit, WalkAssumption
  <2>2. va % b \in 0 .. b - 1
    BY Euclid
  <2>3. va % b \in Nat /\ va % b < c
    BY <2>1, <2>2
  <2> QED
    BY <2>1, <2>3, CutKeeps
<1>4. Down(va % (2^Shift(pb, l)), OutBits) = ((va % (2^Shift(pb, l))) \div 2^OutBits) * 2^OutBits
  BY <1>1, <1>3, DownIsMultiple
<1> QED
  BY <1>1, <1>2, <1>4, <1>5, Zenon DEF Leaf, Pa

\* Both tables of granules are the architecture's.
LEMMA GranuleIsPageBits ==
  ASSUME TypeInv, NEW va
  PROVE  /\ PageBits(va) = Granule(va)
         /\ PageBits(va) \in {0, OutBits, MidBits, BigBits}
<1>1. tg \in {0, 1, 2, 3} /\ OutBits \in Nat
  BY WalkAssumption DEF TypeInv
<1>2. CASE Upper(va)
  BY <1>1, <1>2 DEF PageBits, Granule
<1>3. CASE ~Upper(va)
  BY <1>1, <1>3 DEF PageBits, Granule
<1> QED
  BY <1>2, <1>3

\* With the MMU off the address is its own answer: it is the first of a page.
LEMMA OffIsIdentity ==
  ASSUME NEW va \in Vas
  PROVE  /\ va \in Nat
         /\ va < 2^PaBits => Down(Cut(va), OutBits) = va
<1>1. OutBits \in Nat /\ OutBits <= VaWidth /\ VaWidth - OutBits \in Nat /\ VaWidth - OutBits <= VaWidth
  BY WalkAssumption
<1>2. PICK b \in Nat \ {0}, n \in Nat \ {0} : b = 2^OutBits /\ n = 2^(VaWidth - OutBits)
  BY <1>1, Powers
<1>3. PICK p \in 0 .. n - 1 : va = p * b
  BY <1>2 DEF Vas
<1>4. va \in Nat /\ va = b * p + 0
  BY <1>3
<1>5. va % b = 0
  BY <1>4, Quotient
<1>6. Down(va, OutBits) = va
  BY <1>2, <1>4, <1>5 DEF Down
<1> QED
  BY <1>4, <1>6, CutKeeps

-----------------------------------------------------------------------------
(* The loop as an equation.  It takes at most four turns, so the function the  *)
(* recursion asks for is put together level by level.                          *)

\* One turn: from table t at level l, with rest the answers from the level below.
Turn(va, pb, l, t, rest) ==
  LET a == t + Index(va, pb, l) * 2^DescBits IN
  IF a \notin Words \/ mem[a].type = 0 THEN Fault
  ELSE IF mem[a].type = 1 \/ l = 3 THEN Leaf(mem[a], va, pb, l)
  ELSE rest[Down(mem[a].out, pb)]

\* The recursive function exists, level by level from the last, and obeys its equation.
LEMMA WalkUnfolds ==
  ASSUME NEW va, NEW pb, NEW l \in 0 .. 3, NEW t \in Tables(pb)
  PROVE  WalkFrom(va, pb)[l][t] = Turn(va, pb, l, t, WalkFrom(va, pb)[l + 1])
<1> DEFINE T == Tables(pb)
           Def(g) == [k \in 0 .. 3 |-> [u \in T |-> Turn(va, pb, k, u, g[k + 1])]]
           w3 == [u \in T |-> Turn(va, pb, 3, u, 0)]
           w2 == [u \in T |-> Turn(va, pb, 2, u, w3)]
           w1 == [u \in T |-> Turn(va, pb, 1, u, w2)]
           w0 == [u \in T |-> Turn(va, pb, 0, u, w1)]
           w  == [k \in 0 .. 3 |-> IF k = 3 THEN w3 ELSE IF k = 2 THEN w2
                                    ELSE IF k = 1 THEN w1 ELSE w0]
<1>1. \A u, x : Turn(va, pb, 3, u, x) = Turn(va, pb, 3, u, 0)
  BY DEF Turn
<1>2. w = Def(w)
  <2>1. \A k \in 0 .. 3 : w[k] = [u \in T |-> Turn(va, pb, k, u, w[k + 1])]
    <3>1. w[3] = [u \in T |-> Turn(va, pb, 3, u, w[4])]
      BY <1>1
    <3>2. w[2] = [u \in T |-> Turn(va, pb, 2, u, w[3])]
      OBVIOUS
    <3>3. w[1] = [u \in T |-> Turn(va, pb, 1, u, w[2])]
      OBVIOUS
    <3>4. w[0] = [u \in T |-> Turn(va, pb, 0, u, w[1])]
      OBVIOUS
    <3> HIDE DEF w
    <3> QED
      BY <3>1, <3>2, <3>3, <3>4
  <2>2. DOMAIN w = 0 .. 3 /\ w = [k \in 0 .. 3 |-> w[k]]
    OBVIOUS
  <2> HIDE DEF w
  <2> QED
    BY <2>1, <2>2
<1>3. WalkFrom(va, pb) = CHOOSE g : g = Def(g)
  BY Zenon DEF WalkFrom, Turn
<1>4. WalkFrom(va, pb) = Def(WalkFrom(va, pb))
  <2> HIDE DEF Def, w
  <2> QED
    BY <1>2, <1>3, Zenon
<1> QED
  <2>1. WalkFrom(va, pb)[l] = [u \in T |-> Turn(va, pb, l, u, WalkFrom(va, pb)[l + 1])]
    BY <1>4
  <2> QED
    BY <2>1

-----------------------------------------------------------------------------
(* Chains that begin anywhere. *)

\* The descriptor of the address in table t at level l.
At(va, pb, l, t) == t + Field(va, pb, l) * 2^DescBits

\* Chains from table t at level l, and the addresses they lead to.
Paths(l, t, last, type, va, pb) ==
  {c \in [l .. last -> Tables(pb)] :
     /\ c[l] = t
     /\ \A k \in l .. last : At(va, pb, k, c[k]) \in Words
     /\ \A k \in l .. last - 1 :
          /\ mem[At(va, pb, k, c[k])].type = 3
          /\ c[k + 1] = Down(mem[At(va, pb, k, c[k])].out, pb)
     /\ mem[At(va, pb, last, c[last])].type = type}

LastType(last) == IF last = 3 THEN 3 ELSE 1

Results(l, t, va, pb) ==
  UNION {{Pa(mem[At(va, pb, last, c[last])].out, va, pb, last)
             : c \in Paths(l, t, last, LastType(last), va, pb)} : last \in l .. 3}

\* No chain from there ends in a reserved encoding.
Proper(l, t, va, pb) ==
  \A last \in (l .. 3) \ BlockLevels(pb) : Paths(l, t, last, 1, va, pb) = {}

\* A chain of one level.
LEMMA PathHere ==
  ASSUME NEW va, NEW pb, NEW l \in 0 .. 3, NEW t \in Tables(pb), NEW type
  PROVE  /\ \A c \in Paths(l, t, l, type, va, pb) :
              c[l] = t /\ At(va, pb, l, t) \in Words /\ mem[At(va, pb, l, t)].type = type
         /\ At(va, pb, l, t) \in Words /\ mem[At(va, pb, l, t)].type = type
              => [k \in l .. l |-> t] \in Paths(l, t, l, type, va, pb)
<1>1. l .. l = {l} /\ l .. l - 1 = {}
  OBVIOUS
<1> QED
  BY <1>1 DEF Paths

\* A longer one is a table descriptor, at a, and a chain from the table it names.
Extends(l, t, last, type, va, pb, a) ==
  /\ \A c \in Paths(l, t, last, type, va, pb) :
       /\ a \in Words /\ mem[a].type = 3
       /\ \E e \in Paths(l + 1, Down(mem[a].out, pb), last, type, va, pb) : e[last] = c[last]
  /\ a \in Words /\ mem[a].type = 3 =>
       \A e \in Paths(l + 1, Down(mem[a].out, pb), last, type, va, pb) :
         \E c \in Paths(l, t, last, type, va, pb) : c[last] = e[last]

\* A longer chain is a step down and a chain from there.
LEMMA PathBelow ==
  ASSUME NEW va, NEW pb, NEW l \in 0 .. 2, NEW t \in Tables(pb), NEW type,
         NEW last \in l + 1 .. 3
  PROVE  Extends(l, t, last, type, va, pb, At(va, pb, l, t))
<1> DEFINE a == At(va, pb, l, t)
<1>1. ASSUME NEW c \in Paths(l, t, last, type, va, pb)
      PROVE  /\ a \in Words /\ mem[a].type = 3
             /\ \E e \in Paths(l + 1, Down(mem[a].out, pb), last, type, va, pb) :
                  e[last] = c[last]
  <2> DEFINE e == [k \in l + 1 .. last |-> c[k]]
  <2>1. l \in l .. last /\ l \in l .. last - 1 /\ last \in l + 1 .. last /\ l + 1 \in l + 1 .. last
    OBVIOUS
  <2>2. /\ c \in [l .. last -> Tables(pb)] /\ c[l] = t
        /\ \A k \in l .. last : At(va, pb, k, c[k]) \in Words
        /\ \A k \in l .. last - 1 :
             /\ mem[At(va, pb, k, c[k])].type = 3
             /\ c[k + 1] = Down(mem[At(va, pb, k, c[k])].out, pb)
        /\ mem[At(va, pb, last, c[last])].type = type
    BY DEF Paths
  <2>3. a \in Words /\ mem[a].type = 3 /\ c[l + 1] = Down(mem[a].out, pb)
    BY <2>1, <2>2
  <2>4. \A k \in l + 1 .. last : k \in l .. last /\ e[k] = c[k]
    OBVIOUS
  <2>5. \A k \in l + 1 .. last - 1 :
          k \in l .. last - 1 /\ k \in l + 1 .. last /\ k + 1 \in l + 1 .. last
    OBVIOUS
  <2>6. e \in [l + 1 .. last -> Tables(pb)]
    BY <2>2, <2>4
  <2> HIDE DEF e
  <2>7. e \in Paths(l + 1, Down(mem[a].out, pb), last, type, va, pb)
    BY <2>1, <2>2, <2>3, <2>4, <2>5, <2>6 DEF Paths
  <2> QED
    BY <2>1, <2>3, <2>4, <2>7
<1>2. ASSUME a \in Words, mem[a].type = 3,
             NEW e \in Paths(l + 1, Down(mem[a].out, pb), last, type, va, pb)
      PROVE  \E c \in Paths(l, t, last, type, va, pb) : c[last] = e[last]
  <2> DEFINE c == [k \in l .. last |-> IF k = l THEN t ELSE e[k]]
  <2>1. l \in l .. last /\ last \in l + 1 .. last /\ last \in l .. last /\ l + 1 \in l + 1 .. last
    OBVIOUS
  <2>2. /\ e \in [l + 1 .. last -> Tables(pb)] /\ e[l + 1] = Down(mem[a].out, pb)
        /\ \A k \in l + 1 .. last : At(va, pb, k, e[k]) \in Words
        /\ \A k \in l + 1 .. last - 1 :
             /\ mem[At(va, pb, k, e[k])].type = 3
             /\ e[k + 1] = Down(mem[At(va, pb, k, e[k])].out, pb)
        /\ mem[At(va, pb, last, e[last])].type = type
    BY DEF Paths
  <2>3. c[l] = t /\ \A k \in l + 1 .. last : c[k] = e[k]
    OBVIOUS
  <2>4. \A k \in l .. last : k = l \/ k \in l + 1 .. last
    OBVIOUS
  <2>5. \A k \in l .. last - 1 :
          k + 1 \in l + 1 .. last /\ (k = l \/ (k \in l + 1 .. last - 1 /\ k \in l + 1 .. last))
    OBVIOUS
  <2>6. c \in [l .. last -> Tables(pb)]
    BY <2>2, <2>3, <2>4
  <2> HIDE DEF c
  <2>7. c \in Paths(l, t, last, type, va, pb)
    <3>1. \A k \in l .. last : At(va, pb, k, c[k]) \in Words
      BY <1>2, <2>2, <2>3, <2>4
    <3>2. \A k \in l .. last - 1 :
             /\ mem[At(va, pb, k, c[k])].type = 3
             /\ c[k + 1] = Down(mem[At(va, pb, k, c[k])].out, pb)
      BY <1>2, <2>1, <2>2, <2>3, <2>5
    <3>3. mem[At(va, pb, last, c[last])].type = type
      BY <2>1, <2>2, <2>3
    <3> QED
      BY <2>3, <2>6, <3>1, <3>2, <3>3 DEF Paths
  <2> QED
    BY <2>1, <2>3, <2>7
<1> QED
  BY <1>1, <1>2 DEF Extends

\* An address is a result if a chain leads to it.
LEMMA InResults ==
  ASSUME NEW va, NEW pb, NEW l, NEW t, NEW x
  PROVE  x \in Results(l, t, va, pb) <=>
           \E last \in l .. 3 : \E c \in Paths(l, t, last, LastType(last), va, pb) :
             x = Pa(mem[At(va, pb, last, c[last])].out, va, pb, last)
  BY DEF Results

-----------------------------------------------------------------------------
(* From a table at a level, the loop and the chains come to the same. *)

Agree(l, t, va, pb) ==
  Proper(l, t, va, pb) =>
    \/ Results(l, t, va, pb) = {} /\ WalkFrom(va, pb)[l][t] = Fault
    \/ Results(l, t, va, pb) = {WalkFrom(va, pb)[l][t]}

\* A level of the loop agrees with the chains from it if the next level does.
LEMMA AgreeHere ==
  ASSUME TypeInv, NEW pb, Regime(pb), NEW va \in Nat,
         NEW l \in StartLevel(pb) .. 3, NEW t \in Tables(pb),
         l < 3 => \A u \in Tables(pb) : Agree(l + 1, u, va, pb)
  PROVE  Agree(l, t, va, pb)
<1> DEFINE a == At(va, pb, l, t)
           W == WalkFrom(va, pb)
           R == Results(l, t, va, pb)
<1> HIDE DEF W
<1> SUFFICES ASSUME Proper(l, t, va, pb)
             PROVE  (R = {} /\ W[l][t] = Fault) \/ R = {W[l][t]}
  BY DEF Agree, W
<1>1. l \in 0 .. 3 /\ l \in l .. 3
  BY FirstLevel
<1>2. a = t + Index(va, pb, l) * 2^DescBits
  BY IndexIsField DEF At
<1>3. W[l][t] = Turn(va, pb, l, t, W[l + 1])
  BY <1>1, WalkUnfolds DEF W
<1>4. a \in Words => /\ mem[a].type \in {0, 1, 3}
                     /\ mem[a].type # 0 => mem[a].out \in Outputs /\ mem[a].out \in Nat
  BY WalkAssumption DEF TypeInv, Descs
<1>5. \A last \in l .. 3 : last = l \/ (l < 3 /\ l \in 0 .. 2 /\ last \in l + 1 .. 3)
  BY <1>1
<1>6. \A last \in l .. 3 : LastType(last) \in {1, 3}
  BY DEF LastType
<1> HIDE DEF a
<1>7. \A type :
        /\ \A c \in Paths(l, t, l, type, va, pb) :
             c[l] = t /\ a \in Words /\ mem[a].type = type
        /\ a \in Words /\ mem[a].type = type
             => [k \in l .. l |-> t] \in Paths(l, t, l, type, va, pb)
  BY <1>1, PathHere, Zenon DEF a
<1>8. a = At(va, pb, l, t)
  BY DEF a
<1>9. ASSUME l \in 0 .. 2, NEW last \in l + 1 .. 3, NEW type
      PROVE  Extends(l, t, last, type, va, pb, a)
  BY <1>8, <1>9, PathBelow
<1>10. CASE a \notin Words \/ mem[a].type = 0
  <2>1. W[l][t] = Fault
    BY <1>2, <1>3, <1>10 DEF Turn
  <2>2. ASSUME NEW last \in l .. 3, NEW type \in {1, 3}
        PROVE  Paths(l, t, last, type, va, pb) = {}
    <3>1. CASE last = l
      BY <1>1, <1>10, <3>1, <1>7
    <3>2. CASE l \in 0 .. 2 /\ last \in l + 1 .. 3
      BY <1>10, <3>2, <1>9 DEF Extends
    <3> QED
      BY <1>5, <3>1, <3>2
  <2>3. R = {}
    BY <1>6, <2>2, InResults
  <2> QED
    BY <2>1, <2>3
<1>11. CASE a \in Words /\ (mem[a].type = 1 \/ (mem[a].type = 3 /\ l = 3))
  <2>1. ~(mem[a].type = 1 /\ l \notin BlockLevels(pb))
    <3> SUFFICES ASSUME mem[a].type = 1, l \notin BlockLevels(pb) PROVE FALSE
      OBVIOUS
    <3>1. Paths(l, t, l, 1, va, pb) # {}
      BY <1>1, <1>11, <1>7
    <3>2. l \in (l .. 3) \ BlockLevels(pb)
      BY <1>1
    <3> QED
      BY <3>1, <3>2 DEF Proper
  <2>2. mem[a].type = LastType(l)
    BY <1>1, <1>11, <2>1 DEF LastType, BlockLevels
  <2>3. W[l][t] = Pa(mem[a].out, va, pb, l)
    <3>1. W[l][t] = Leaf(mem[a], va, pb, l)
      BY <1>2, <1>3, <1>11 DEF Turn
    <3>2. l \in BlockLevels(pb) \union {3}
      BY <1>11, <2>1
    <3> QED
      BY <1>4, <1>11, <3>1, <3>2, LeafIsPa
  <2>4. W[l][t] \in R
    <3>1. PICK c \in Paths(l, t, l, LastType(l), va, pb) : c[l] = t
      BY <1>1, <1>11, <2>2, <1>7
    <3> QED
      BY <1>1, <2>3, <3>1, InResults DEF a
  <2>5. ASSUME NEW x \in R PROVE x = W[l][t]
    <3>0. PICK last \in l .. 3 : \E c \in Paths(l, t, last, LastType(last), va, pb) :
            x = Pa(mem[At(va, pb, last, c[last])].out, va, pb, last)
      BY InResults
    <3>1. PICK c \in Paths(l, t, last, LastType(last), va, pb) :
            x = Pa(mem[At(va, pb, last, c[last])].out, va, pb, last)
      BY <3>0
    <3>2. last = l
      <4>1. ~(l \in 0 .. 2 /\ last \in l + 1 .. 3)
        BY <1>11, <1>9 DEF Extends
      <4> QED
        BY <1>5, <4>1
    <3>3. c[l] = t
      BY <1>1, <3>2, <1>7
    <3> QED
      BY <2>3, <3>1, <3>2, <3>3 DEF a
  <2> QED
    BY <2>4, <2>5
<1>12. CASE a \in Words /\ mem[a].type = 3 /\ l # 3
  <2> DEFINE u == Down(mem[a].out, pb)
  <2>1. u \in Tables(pb) /\ l \in 0 .. 2 /\ l < 3
    BY <1>1, <1>4, <1>12 DEF Tables
  <2>2. W[l][t] = W[l + 1][u]
    BY <1>2, <1>3, <1>12 DEF Turn
  <2> HIDE DEF u
  <2>3. Proper(l + 1, u, va, pb)
    <3> SUFFICES ASSUME NEW last \in (l + 1 .. 3) \ BlockLevels(pb)
                 PROVE  Paths(l + 1, u, last, 1, va, pb) = {}
      BY DEF Proper
    <3>1. last \in (l .. 3) \ BlockLevels(pb) /\ last \in l + 1 .. 3
      BY <2>1
    <3>2. Paths(l, t, last, 1, va, pb) = {}
      BY <3>1 DEF Proper
    <3> QED
      BY <1>12, <2>1, <3>1, <3>2, <1>9 DEF u, Extends
  <2>4. R = Results(l + 1, u, va, pb)
    <3>1. ASSUME NEW x \in R PROVE x \in Results(l + 1, u, va, pb)
      <4>0. PICK last \in l .. 3 : \E c \in Paths(l, t, last, LastType(last), va, pb) :
              x = Pa(mem[At(va, pb, last, c[last])].out, va, pb, last)
        BY InResults
      <4>1. PICK c \in Paths(l, t, last, LastType(last), va, pb) :
              x = Pa(mem[At(va, pb, last, c[last])].out, va, pb, last)
        BY <4>0
      <4>2. last # l
        <5> SUFFICES ASSUME last = l PROVE FALSE
          OBVIOUS
        <5>1. mem[a].type = LastType(l)
          BY <1>1, <1>7
        <5> QED
          BY <1>12, <5>1 DEF LastType
      <4>3. last \in l + 1 .. 3
        BY <1>5, <4>2
      <4>4. PICK e \in Paths(l + 1, u, last, LastType(last), va, pb) : e[last] = c[last]
        BY <2>1, <4>3, <1>9 DEF u, Extends
      <4> QED
        BY <4>1, <4>3, <4>4, InResults
    <3>2. ASSUME NEW x \in Results(l + 1, u, va, pb) PROVE x \in R
      <4>0. PICK last \in l + 1 .. 3 : \E e \in Paths(l + 1, u, last, LastType(last), va, pb) :
              x = Pa(mem[At(va, pb, last, e[last])].out, va, pb, last)
        BY InResults
      <4>1. PICK e \in Paths(l + 1, u, last, LastType(last), va, pb) :
              x = Pa(mem[At(va, pb, last, e[last])].out, va, pb, last)
        BY <4>0
      <4>2. PICK c \in Paths(l, t, last, LastType(last), va, pb) : c[last] = e[last]
        BY <1>12, <2>1, <1>9 DEF u, Extends
      <4>3. last \in l .. 3
        BY <2>1
      <4> QED
        BY <4>1, <4>2, <4>3, InResults
    <3> QED
      BY <3>1, <3>2
  <2>5. Agree(l + 1, u, va, pb)
    BY <2>1
  <2> QED
    BY <2>2, <2>3, <2>4, <2>5 DEF Agree, W
<1> QED
  BY <1>4, <1>10, <1>11, <1>12

\* From the last level up, a level at a time.
LEMMA AgreeAll ==
  ASSUME TypeInv, NEW pb, Regime(pb), NEW va \in Nat, NEW t \in Tables(pb)
  PROVE  Agree(StartLevel(pb), t, va, pb)
<1> DEFINE s == StartLevel(pb)
           A(l) == l \in s .. 3 => \A u \in Tables(pb) : Agree(l, u, va, pb)
<1>1. s \in 0 .. 3
  BY FirstLevel
<1>2. A(3)
  BY AgreeHere
<1>3. A(2)
  <2>1. 2 \in s .. 3 => 3 \in s .. 3 /\ 2 + 1 = 3
    BY <1>1
  <2> QED
    BY <1>2, <2>1, AgreeHere
<1>4. A(1)
  <2>1. 1 \in s .. 3 => 2 \in s .. 3 /\ 1 + 1 = 2
    BY <1>1
  <2> QED
    BY <1>3, <2>1, AgreeHere
<1>5. A(0)
  <2>1. 0 \in s .. 3 => 1 \in s .. 3 /\ 0 + 1 = 1
    BY <1>1
  <2> QED
    BY <1>4, <2>1, AgreeHere
<1>6. s \in {0, 1, 2, 3} /\ s \in s .. 3
  BY <1>1
<1> HIDE DEF s
<1> QED
  BY <1>2, <1>3, <1>4, <1>5, <1>6 DEF s

\* The chains of the definition begin at the table base and the first level.
LEMMA ChainsArePaths ==
  ASSUME TypeInv, NEW pb, Regime(pb), FirstTable(pb) = TableBase(pb),
         NEW va, NEW last, NEW type
  PROVE  Chains(last, type, va, pb) =
           Paths(StartLevel(pb), TableBase(pb), last, type, va, pb)
<1>1. StartLevel(pb) = 4 - Levels(pb)
  BY FirstLevel
<1> QED
  BY <1>1 DEF Chains, Chain, Paths, At, Tables

\* The translations of the definition are the results from the first level, if no
\* chain ends where it may not.
LEMMA TranslationsAreResults ==
  ASSUME TypeInv, NEW pb, Regime(pb), FirstTable(pb) = TableBase(pb), NEW va,
         Proper(StartLevel(pb), TableBase(pb), va, pb)
  PROVE  Translations(va, pb) = Results(StartLevel(pb), TableBase(pb), va, pb)
<1> DEFINE s == StartLevel(pb)
           b == TableBase(pb)
           R(last) == {Pa(mem[At(va, pb, last, c[last])].out, va, pb, last)
                         : c \in Paths(s, b, last, LastType(last), va, pb)}
           ends == (BlockLevels(pb) \union {3}) \cap (s .. 3)
<1>1. s = 4 - Levels(pb)
  BY FirstLevel
<1>2. \A last, type : Chains(last, type, va, pb) = Paths(s, b, last, type, va, pb)
  BY ChainsArePaths
<1>3. Translations(va, pb) = UNION {R(last) : last \in ends}
  BY <1>1, <1>2 DEF Translations, Pa, At, LastType
<1>4. Results(s, b, va, pb) = UNION {R(last) : last \in s .. 3}
  BY DEF Results
<1>5. \A last \in (s .. 3) \ ends : R(last) = {}
  BY DEF Proper, LastType
<1>6. ends \subseteq s .. 3
  OBVIOUS
<1> HIDE DEF R, ends, s, b
<1>7. UNION {R(last) : last \in ends} = UNION {R(last) : last \in s .. 3}
  BY <1>5, <1>6
<1> QED
  BY <1>3, <1>4, <1>7 DEF s, b

\* One address, in a state of the right types.
LEMMA TranslateIsAnswer ==
  ASSUME TypeInv, NEW va \in Vas, Supported(va)
  PROVE  Translate(va) = Answer(va)
<1> DEFINE pb == PageBits(va)
<1>1. va \in Nat /\ (va < 2^PaBits => Down(Cut(va), OutBits) = va)
  BY OffIsIdentity
<1>2. pb = Granule(va) /\ pb \in {0, OutBits, MidBits, BigBits}
  BY GranuleIsPageBits
<1>3. CASE ~on
  BY <1>1, <1>3 DEF Translate, Answer, Supported
<1>4. CASE on /\ (pb = 0 \/ VaBits < pb \/ VaBits > MaxVaBits)
  BY <1>2, <1>4 DEF Translate, Answer, RefusedSize
<1>5. CASE on /\ ~(pb = 0 \/ VaBits < pb \/ VaBits > MaxVaBits)
  <2> DEFINE s == StartLevel(pb)
             b == TableBase(pb)
  <2>1. WellFormed(va, pb) /\ ~RefusedSize(va)
    BY <1>2, <1>5 DEF Supported, RefusedSize
  <2>2. Regime(pb)
    <3>1. VaBits \in Nat /\ pb \in Nat
      BY <1>2, WalkAssumption DEF TypeInv, VaBits
    <3> QED
      BY <1>2, <1>5, <2>1, <3>1 DEF Regime, WellFormed
  <2> HIDE DEF pb
  <2>3. b \in Tables(pb) /\ FirstTable(pb) = b
    BY <2>1, <2>2, BaseIsFirstTable DEF Tables, WellFormed
  <2>4. Proper(s, b, va, pb)
    <3>1. s = 4 - Levels(pb)
      BY <2>2, FirstLevel
    <3>2. \A last : Chains(last, 1, va, pb) = Paths(s, b, last, 1, va, pb)
      BY <2>2, <2>3, ChainsArePaths
    <3> QED
      BY <2>1, <3>1, <3>2 DEF WellFormed, Proper
  <2>5. Agree(s, b, va, pb)
    BY <1>1, <2>2, <2>3, AgreeAll
  <2>6. Translations(va, pb) = Results(s, b, va, pb)
    BY <2>2, <2>3, <2>4, TranslationsAreResults
  <2>7. Translate(va) = WalkFrom(va, pb)[s][b]
    BY <1>5 DEF Translate, Walk, pb
  <2>8. Answer(va) = IF Translations(va, pb) = {} THEN Fault
                     ELSE CHOOSE pa \in Translations(va, pb) : TRUE
    BY <1>2, <1>5, <2>1 DEF Answer
  <2> HIDE DEF s, b
  <2> QED
    BY <2>4, <2>5, <2>6, <2>7, <2>8 DEF Agree
<1> QED
  BY <1>3, <1>4, <1>5

-----------------------------------------------------------------------------
(* The theorem. *)

\* The guest writes descriptors and fields of the controls, and nothing else.
LEMMA WalkTypes == Spec => []TypeInv
<1>1. Init => TypeInv
  <2> DEFINE d == [type |-> 0, out |-> 0]
  <2>1. d \in Descs
    BY DEF Descs
  <2>2. 0 \in 0 .. VaWidth - 1 /\ 0 \in 0 .. 3
    BY WalkAssumption
  <2>3. Init => mem = [a \in Words |-> d] /\ on = FALSE /\ tsz = 0 /\ tg = 0
    BY DEF Init
  <2> HIDE DEF d
  <2> QED
    BY <2>1, <2>2, <2>3 DEF TypeInv
<1>2. TypeInv /\ [Next]_vars => TypeInv'
  BY DEF TypeInv, Next, vars, WriteSctlr, WriteTsz, WriteTg, WriteDesc
<1> QED
  BY <1>1, <1>2, PTL DEF Spec

\* ohv_translate_stage1 answers an AT as the architecture does, for every supported
\* address, whatever tables and controls the guest has set up, and for all widths
\* of address and page.
THEOREM WalkAlwaysAgrees == Spec => []WalkAgrees
<1>1. TypeInv => WalkAgrees
  BY TranslateIsAnswer DEF WalkAgrees
<1> QED
  BY <1>1, WalkTypes, PTL
=============================================================================
