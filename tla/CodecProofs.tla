---------------------------- MODULE CodecProofs ----------------------------
(***************************************************************************)
(* Proofs about Codec: words, strings and ids come back from their bytes,  *)
(* and keys of records with different parts are different.                 *)
(***************************************************************************)
EXTENDS Codec, SequenceTheorems, WellFoundedInduction, TLAPS

-----------------------------------------------------------------------------
(* Numbers *)

\* Products with a positive factor are natural and not smaller than the other.
LEMMA ProductBound ==
  ASSUME NEW q \in Nat, NEW c \in Nat \ {0}
  PROVE  q * c \in Nat /\ q <= q * c
<1>1. q * c = q + q * (c - 1)
  BY SMT
<1>2. c - 1 \in Nat
  BY SMT
<1>3. q * (c - 1) \in Nat
  BY <1>2, SMT
<1> QED
  BY <1>1, <1>3, SMT

\* Different multiples of c lie at least c apart.
LEMMA MultiplesApart ==
  ASSUME NEW p \in Nat, NEW q \in Nat, NEW c \in Nat \ {0}, p < q
  PROVE  p * c + c <= q * c
<1>1. PICK d \in Nat : q = p + 1 + d
  <2>1. q - p - 1 \in Nat
    BY SMT
  <2>2. q = p + 1 + (q - p - 1)
    BY SMT
  <2> QED
    BY <2>1, <2>2
<1>2. d * c \in Nat
  BY SMT
<1>3. q * c = p * c + c + d * c
  BY <1>1, SMT
<1>4. p * c \in Nat
  BY SMT
<1> QED
  BY <1>2, <1>3, <1>4, SMT

\* A number has only one multiple of c and offset below c.
LEMMA UniqueOffset ==
  ASSUME NEW p \in Nat, NEW q \in Nat, NEW c \in Nat \ {0},
         NEW a \in 0 .. c - 1, NEW b \in 0 .. c - 1,
         p * c + a + 1 = q * c + b + 1
  PROVE  p = q /\ a = b
<1>1. p * c \in Nat /\ q * c \in Nat
  BY ProductBound
<1>2. ~(p < q)
  BY <1>1, MultiplesApart, SMT
<1>3. ~(q < p)
  BY <1>1, MultiplesApart, SMT
<1>4. p = q
  BY <1>2, <1>3, SMT
<1> QED
  BY <1>1, <1>4, SMT

\* The quotient and the rest of a division.
LEMMA Division ==
  ASSUME NEW u \in Nat, NEW c \in Nat \ {0}
  PROVE  u \div c \in Nat /\ u % c \in 0 .. c - 1 /\ u = (u \div c) * c + (u % c)
BY SMT

LEMMA Quotient ==
  ASSUME NEW u \in Nat, NEW c \in Nat \ {0}, NEW q \in Nat, NEW r \in 0 .. c - 1, u = q * c + r
  PROVE  u \div c = q
<1>1. /\ u \div c \in Nat /\ u % c \in 0 .. c - 1
      /\ (u \div c) * c + (u % c) + 1 = q * c + r + 1
  BY Division
<1> QED
  BY <1>1, UniqueOffset

LEMMA LastDigit ==
  ASSUME NEW y \in Nat
  PROVE  y = 256 * (y \div 256) + (y % 256)
BY SMT

\* Bytes are taken off one by one.
LEMMA QuotientOfQuotient ==
  ASSUME NEW u \in Nat, NEW c \in Nat \ {0}
  PROVE  u \div (256 * c) = (u \div c) \div 256
<1> DEFINE q == u \div c
           r == u % c
           a == q \div 256
           b == q % 256
<1>1. q \in Nat /\ r \in 0 .. c - 1 /\ u = q * c + r
  BY Division
<1> HIDE DEF q, r
<1>2. a \in Nat /\ b \in 0 .. 255 /\ q = 256 * a + b
  BY <1>1
<1> HIDE DEF a, b
<1>3. q * c = a * (256 * c) + b * c
  BY <1>1, <1>2
<1>4. b * c + c <= 256 * c /\ b * c \in Nat
  BY <1>2, MultiplesApart, ProductBound
<1>5. 256 * c \in Nat \ {0} /\ a * (256 * c) \in Nat
  BY <1>2, ProductBound
<1>6. b * c + r \in 0 .. 256 * c - 1
  BY <1>1, <1>4
<1>7. u = a * (256 * c) + (b * c + r)
  <2>1. PICK x, y, z \in Nat : x = q * c /\ y = b * c /\ z = a * (256 * c)
    BY <1>1, <1>4, <1>5, ProductBound
  <2>2. x = z + y /\ u = x + r /\ r \in Nat
    BY <1>1, <1>3, <2>1
  <2>3. u = z + (y + r)
    BY <2>1, <2>2
  <2> QED
    BY <2>1, <2>3, Zenon
<1>8. u \div (256 * c) = a
  BY <1>2, <1>5, <1>6, <1>7, Quotient
<1> QED
  BY <1>8 DEF a, q

-----------------------------------------------------------------------------
(* Recursive functions *)

\* A set of natural numbers that is not empty has a least one.
LEMMA LeastNumber ==
  ASSUME NEW T \in SUBSET Nat, T # {}
  PROVE  \E m \in T : \A k \in T : m <= k
<1> DEFINE R == OpToRel(<, Nat)
<1>1. IsWellFoundedOn(R, Nat)
  BY NatLessThanWellFounded
<1> HIDE DEF R
<1>2. PICK m \in T : \A k \in T : ~(<<k, m>> \in R)
  BY <1>1, WFMin, Zenon
<1>3. ASSUME NEW k \in T PROVE m <= k
  <2>1. k \in Nat /\ m \in Nat
    OBVIOUS
  <2>2. k < m => <<k, m>> \in R
    BY <2>1 DEF R, OpToRel
  <2> QED
    BY <1>2, <2>1, <2>2
<1> QED
  BY <1>3

\* f takes the steps 1 .. n, one after the other, from a.
Steps(f, n, a, step) ==
  f[0] = a /\ \A j \in 1 .. n : f[j] = step[<<j, f[j - 1]>>]

\* There is such a function for any number of steps.
LEMMA StepsExist ==
  ASSUME NEW S, NEW a \in S, NEW step \in [(Nat \ {0}) \X S -> S], NEW n \in Nat
  PROVE  \E f \in [0 .. n -> S] : Steps(f, n, a, step)
<1> DEFINE T == {m \in Nat : ~ \E f \in [0 .. m -> S] : Steps(f, m, a, step)}
<1>1. T = {}
  <2> SUFFICES ASSUME T # {} PROVE FALSE
    OBVIOUS
  <2>1. PICK m \in T : \A k \in T : m <= k
    BY LeastNumber
  <2>2. m \in Nat /\ ~ \E f \in [0 .. m -> S] : Steps(f, m, a, step)
    BY <2>1
  <2>3. m # 0
    <3> DEFINE f == [j \in 0 .. 0 |-> a]
    <3>1. f \in [0 .. 0 -> S] /\ Steps(f, 0, a, step)
      BY DEF Steps
    <3> QED
      BY <2>2, <3>1
  <2>4. m - 1 \in Nat /\ ~(m <= m - 1) /\ m \in Nat \ {0}
    BY <2>2, <2>3
  <2>5. PICK f \in [0 .. m - 1 -> S] : Steps(f, m - 1, a, step)
    BY <2>1, <2>4
  <2> DEFINE new == step[<<m, f[m - 1]>>]
             g == [j \in 0 .. m |-> IF j = m THEN new ELSE f[j]]
  <2>6. new \in S
    <3>1. f[m - 1] \in S
      BY <2>4, <2>5
    <3> QED
      BY <2>4, <3>1
  <2> HIDE DEF new
  <2>7. \A j \in 0 .. m - 1 : g[j] = f[j]
    BY <2>2
  <2>8. g[m] = new
    BY <2>2
  <2>9. g \in [0 .. m -> S]
    BY <2>2, <2>5, <2>6
  <2> HIDE DEF g
  <2>10. g[0] = a
    BY <2>4, <2>5, <2>7 DEF Steps
  <2>11. ASSUME NEW j \in 1 .. m PROVE g[j] = step[<<j, g[j - 1]>>]
    <3>1. j - 1 \in 0 .. m - 1
      BY <2>2
    <3>2. g[j - 1] = f[j - 1]
      BY <2>7, <3>1
    <3>3. CASE j = m
      BY <2>8, <3>2, <3>3, Zenon DEF new
    <3>4. CASE j # m
      <4>1. j \in 1 .. m - 1 /\ j \in 0 .. m - 1
        BY <2>2, <3>4
      <4>2. f[j] = step[<<j, f[j - 1]>>] /\ g[j] = f[j]
        BY <2>5, <2>7, <4>1 DEF Steps
      <4> QED
        BY <3>2, <4>2, Zenon
    <3> QED
      BY <3>3, <3>4
  <2> QED
    BY <2>2, <2>9, <2>10, <2>11 DEF Steps
<1> QED
  BY <1>1

\* What holds at 0 and is kept by every step up to n holds up to n.
LEMMA Induction ==
  ASSUME NEW n \in Nat, NEW T \in SUBSET (0 .. n), 0 \in T,
         \A j \in 1 .. n : j - 1 \in T => j \in T
  PROVE  T = 0 .. n
<1> DEFINE U == (0 .. n) \ T
<1>1. U = {}
  <2> SUFFICES ASSUME U # {} PROVE FALSE
    OBVIOUS
  <2>1. PICK m \in U : \A k \in U : m <= k
    <3>1. U \in SUBSET Nat
      OBVIOUS
    <3> HIDE DEF U
    <3> QED
      BY <3>1, LeastNumber
  <2>2. m \in 1 .. n /\ m - 1 \in 0 .. n /\ ~(m <= m - 1) /\ m \notin T
    BY <2>1
  <2> QED
    BY <2>1, <2>2
<1> QED
  BY <1>1

-----------------------------------------------------------------------------
(* Words *)

\* The powers of 256.
LEMMA Powers ==
  /\ Pow256 \in [0 .. W64 -> Nat \ {0}]
  /\ Pow256[0] = 1
  /\ \A j \in 1 .. W64 : Pow256[j] = 256 * Pow256[j - 1]
<1> DEFINE Eq(f) == f = [j \in 0 .. W64 |-> IF j = 0 THEN 1 ELSE 256 * f[j - 1]]
           step == [p \in (Nat \ {0}) \X (Nat \ {0}) |-> 256 * p[2]]
<1>0. W64 \in Nat
  BY CodecAssumption
<1>1. step \in [(Nat \ {0}) \X (Nat \ {0}) -> Nat \ {0}]
  OBVIOUS
<1>2. \A j, x \in Nat \ {0} : step[<<j, x>>] = 256 * x
  OBVIOUS
<1> HIDE DEF step
<1>3. PICK f \in [0 .. W64 -> Nat \ {0}] : Steps(f, W64, 1, step)
  <2>1. 1 \in Nat \ {0}
    OBVIOUS
  <2> QED
    BY <1>0, <1>1, <2>1, StepsExist, Zenon
<1>4. f[0] = 1 /\ \A j \in 1 .. W64 : f[j] = 256 * f[j - 1]
  <2>1. ASSUME NEW j \in 1 .. W64 PROVE f[j] = 256 * f[j - 1]
    <3>1. j \in Nat \ {0} /\ f[j - 1] \in Nat \ {0}
      BY <1>0, <1>3
    <3>2. f[j] = step[<<j, f[j - 1]>>]
      BY <1>3 DEF Steps
    <3>3. step[<<j, f[j - 1]>>] = 256 * f[j - 1]
      BY <1>2, <3>1
    <3> QED
      BY <3>2, <3>3
  <2> QED
    BY <1>3, <2>1 DEF Steps
<1>5. Eq(f)
  BY <1>0, <1>3, <1>4
<1>6. Pow256 = CHOOSE g : Eq(g)
  BY DEF Pow256
<1>7. Eq(Pow256)
  <2> HIDE DEF Eq
  <2> QED
    BY <1>5, <1>6
<1>8. DOMAIN Pow256 = 0 .. W64 /\ Pow256 = [j \in 0 .. W64 |-> Pow256[j]]
  BY <1>7
<1>9. Pow256[0] = 1 /\ \A j \in 1 .. W64 : Pow256[j] = 256 * Pow256[j - 1]
  BY <1>0, <1>7
<1> HIDE DEF Eq
<1>10. \A j \in 0 .. W64 : Pow256[j] \in Nat \ {0}
  <2> DEFINE T == {j \in 0 .. W64 : Pow256[j] \in Nat \ {0}}
  <2>1. 0 \in T
    BY <1>0, <1>9
  <2>2. ASSUME NEW j \in 1 .. W64, j - 1 \in T PROVE j \in T
    BY <1>0, <1>9, <2>2
  <2>3. T \in SUBSET (0 .. W64)
    OBVIOUS
  <2>4. T = 0 .. W64
    <3> HIDE DEF T
    <3> QED
      BY <1>0, <2>1, <2>2, <2>3, Induction
  <2> QED
    BY <2>4
<1> QED
  BY <1>8, <1>9, <1>10

\* A smaller power is at most a greater one.
LEMMA PowersGrow ==
  ASSUME NEW n \in 0 .. W64, NEW m \in 0 .. n
  PROVE  Pow256[m] <= Pow256[n]
<1> DEFINE T == {j \in 0 .. n : j < m \/ Pow256[m] <= Pow256[j]}
<1>0. n \in Nat /\ m \in Nat /\ W64 \in Nat
  BY CodecAssumption
<1>1. 0 \in T
  <2>1. 0 < m \/ m = 0
    BY <1>0
  <2>2. Pow256[0] <= Pow256[0]
    BY <1>0, Powers
  <2> QED
    BY <1>0, <2>1, <2>2
<1>2. ASSUME NEW j \in 1 .. n, j - 1 \in T PROVE j \in T
  <2>1. j \in 1 .. W64 /\ j - 1 \in 0 .. W64 /\ j \in 0 .. W64
    BY <1>0
  <2>2. Pow256[j - 1] \in Nat \ {0} /\ Pow256[j] = 256 * Pow256[j - 1] /\ Pow256[j] \in Nat
    BY <2>1, Powers
  <2>3. j < m \/ j = m \/ ~(j - 1 < m)
    BY <1>0
  <2>4. Pow256[m] \in Nat
    BY <1>0, Powers
  <2> QED
    BY <1>0, <1>2, <2>2, <2>3, <2>4
<1>3. T \in SUBSET (0 .. n)
  OBVIOUS
<1>4. T = 0 .. n
  <2> HIDE DEF T
  <2> QED
    BY <1>0, <1>1, <1>2, <1>3, Induction
<1>5. n \in T
  BY <1>0, <1>4
<1> QED
  BY <1>0, <1>5

\* A word that is read is the value the bytes have step by step.
Decodes(in, w) ==
  \E f \in [0 .. w -> Nat] :
    /\ f[0] = 0
    /\ \A i \in 1 .. w : f[i] = 256 * f[i - 1] + in[i]
    /\ DecodeUInt(in, w) = f[w]

LEMMA DecodeSteps ==
  ASSUME NEW w \in Nat, NEW in, \A i \in 1 .. w : in[i] \in Nat
  PROVE  Decodes(in, w)
<1> DEFINE Eq(f) == f = [i \in 0 .. w |-> IF i = 0 THEN 0 ELSE 256 * f[i - 1] + in[i]]
           byte(i) == IF i \in 1 .. w THEN in[i] ELSE 0
           step == [p \in (Nat \ {0}) \X Nat |-> 256 * p[2] + byte(p[1])]
           upTo == CHOOSE f : Eq(f)
<1>1. DecodeUInt(in, w) = upTo[w]
  BY DEF DecodeUInt
<1>2. \A i \in Nat : byte(i) \in Nat
  OBVIOUS
<1>3. \A i \in 1 .. w : byte(i) = in[i]
  OBVIOUS
<1> HIDE DEF byte
<1>4. step \in [(Nat \ {0}) \X Nat -> Nat]
  BY <1>2
<1>5. \A i \in Nat \ {0}, x \in Nat : step[<<i, x>>] = 256 * x + byte(i)
  OBVIOUS
<1> HIDE DEF step
<1>6. PICK f \in [0 .. w -> Nat] : Steps(f, w, 0, step)
  BY <1>4, StepsExist
<1>7. f[0] = 0 /\ \A i \in 1 .. w : f[i] = 256 * f[i - 1] + in[i]
  <2>1. ASSUME NEW i \in 1 .. w PROVE f[i] = 256 * f[i - 1] + in[i]
    <3>1. i \in Nat \ {0} /\ f[i - 1] \in Nat
      BY <1>6
    <3>2. f[i] = step[<<i, f[i - 1]>>]
      BY <1>6 DEF Steps
    <3> QED
      BY <1>3, <1>5, <3>1, <3>2
  <2> QED
    BY <1>6, <2>1 DEF Steps
<1>8. Eq(f)
  BY <1>6, <1>7
<1>9. Eq(upTo)
  <2> HIDE DEF Eq
  <2> QED
    BY <1>8
<1> HIDE DEF upTo
<1>10. upTo[0] = 0 /\ \A i \in 1 .. w : upTo[i] = 256 * upTo[i - 1] + in[i]
  BY <1>9
<1> HIDE DEF Eq
<1> DEFINE T == {i \in 0 .. w : upTo[i] = f[i]}
<1>11. T = 0 .. w
  <2>1. 0 \in T
    BY <1>7, <1>10
  <2>2. ASSUME NEW i \in 1 .. w, i - 1 \in T PROVE i \in T
    BY <1>7, <1>10, <2>2
  <2>3. T \in SUBSET (0 .. w)
    OBVIOUS
  <2> HIDE DEF T
  <2> QED
    BY <2>1, <2>2, <2>3, Induction
<1>12. upTo[w] = f[w]
  BY <1>11
<1> QED
  BY <1>1, <1>7, <1>12 DEF Decodes

\* A word is as many bytes as it has.
LEMMA WordBytes ==
  ASSUME NEW u \in Nat, NEW w \in 0 .. W64
  PROVE  /\ EncodeUInt(u, w) \in Seq(Byte)
         /\ Len(EncodeUInt(u, w)) = w
         /\ \A i \in 1 .. w : EncodeUInt(u, w)[i] = (u \div Pow256[w - i]) % 256
<1>0. w \in Nat /\ W64 \in Nat
  BY CodecAssumption
<1>1. \A i \in 1 .. w : (u \div Pow256[w - i]) % 256 \in Byte
  <2> TAKE i \in 1 .. w
  <2>1. Pow256[w - i] \in Nat \ {0}
    BY <1>0, Powers
  <2>2. u \div Pow256[w - i] \in Nat
    BY <2>1, Division
  <2> QED
    BY <2>2 DEF Byte
<1>2. EncodeUInt(u, w) = [i \in 1 .. w |-> (u \div Pow256[w - i]) % 256]
  BY DEF EncodeUInt
<1> QED
  BY <1>0, <1>1, <1>2

\* A word that fits into its bytes is read back, whatever follows them.
LEMMA WordComesBack ==
  ASSUME NEW w \in 0 .. W64, NEW u \in 0 .. Pow256[w] - 1, NEW in,
         \A i \in 1 .. w : in[i] = EncodeUInt(u, w)[i]
  PROVE  DecodeUInt(in, w) = u
<1>0. w \in Nat /\ W64 \in Nat /\ u \in Nat /\ u < Pow256[w]
  BY CodecAssumption, Powers
<1> DEFINE left(i) == u \div Pow256[w - i]
<1>1. \A i \in 1 .. w : in[i] = left(i) % 256
  BY <1>0, WordBytes
<1>2. \A i \in 0 .. w : Pow256[w - i] \in Nat \ {0} /\ left(i) \in Nat
  <2> TAKE i \in 0 .. w
  <2>1. Pow256[w - i] \in Nat \ {0}
    BY <1>0, Powers
  <2> QED
    BY <1>0, <2>1, Division
<1>3. \A i \in 1 .. w : in[i] \in Nat
  BY <1>1, <1>2
<1>4. PICK f \in [0 .. w -> Nat] :
        /\ f[0] = 0
        /\ \A i \in 1 .. w : f[i] = 256 * f[i - 1] + in[i]
        /\ DecodeUInt(in, w) = f[w]
  <2> HIDE DEF left
  <2>1. w \in Nat /\ \A i \in 1 .. w : in[i] \in Nat
    BY <1>0, <1>3
  <2>2. Decodes(in, w)
    BY <2>1, DecodeSteps, Zenon
  <2> QED
    BY <2>2 DEF Decodes
<1> DEFINE T == {i \in 0 .. w : f[i] = left(i)}
<1>5. 0 \in T
  <2>1. Pow256[w] \in Nat \ {0}
    BY Powers
  <2>2. u = 0 * Pow256[w] + u /\ u \in 0 .. Pow256[w] - 1
    BY <1>0, <2>1
  <2>3. u \div Pow256[w] = 0
    BY <1>0, <2>1, <2>2, Quotient
  <2> QED
    BY <1>0, <1>4, <2>3
<1>6. ASSUME NEW i \in 1 .. w, i - 1 \in T PROVE i \in T
  <2> DEFINE c == Pow256[w - i]
  <2>1. w - i + 1 \in 1 .. W64 /\ w - (i - 1) = w - i + 1 /\ (w - i + 1) - 1 = w - i
    BY <1>0
  <2>2. Pow256[w - (i - 1)] = 256 * c
    BY <2>1, Powers
  <2>3. c \in Nat \ {0} /\ left(i) \in Nat /\ left(i) = u \div c
    BY <1>0, <1>2
  <2> HIDE DEF c
  <2>4. left(i - 1) = left(i) \div 256
    <3>1. left(i - 1) = u \div (256 * c)
      BY <2>2
    <3>2. u \div (256 * c) = (u \div c) \div 256
      <4>1. c \in Nat \ {0} /\ u \in Nat
        BY <1>0, <2>3
      <4> QED
        BY <4>1, QuotientOfQuotient
    <3> HIDE DEF left
    <3> QED
      BY <2>3, <3>1, <3>2
  <2>5. f[i - 1] = left(i - 1) /\ f[i] = 256 * f[i - 1] + in[i] /\ in[i] = left(i) % 256
    <3>1. f[i - 1] = left(i - 1)
      BY <1>6
    <3>2. f[i] = 256 * f[i - 1] + in[i]
      BY <1>4
    <3>3. in[i] = left(i) % 256
      BY <1>1
    <3> HIDE DEF left
    <3> QED
      BY <3>1, <3>2, <3>3
  <2> HIDE DEF left
  <2>6. f[i] = left(i)
    <3>1. PICK y \in Nat : y = left(i)
      BY <2>3
    <3>2. y = 256 * (y \div 256) + (y % 256)
      BY LastDigit
    <3> QED
      BY <2>4, <2>5, <3>1, <3>2
  <2> QED
    BY <1>0, <2>6
<1>7. T \in SUBSET (0 .. w)
  OBVIOUS
<1>8. T = 0 .. w
  <2> HIDE DEF T
  <2> QED
    BY <1>0, <1>5, <1>6, <1>7, Induction
<1>9. f[w] = u \div Pow256[0]
  <2>1. w \in T
    BY <1>0, <1>8
  <2>2. w - w = 0
    BY <1>0
  <2> QED
    BY <2>1, <2>2
<1>10. u \div 1 = u
  BY <1>0
<1> QED
  BY <1>4, <1>9, <1>10, Powers

\* Words that fit differ in their bytes.
LEMMA WordsDiffer ==
  ASSUME NEW w \in 0 .. W64, NEW u \in 0 .. Pow256[w] - 1, NEW v \in 0 .. Pow256[w] - 1,
         \A i \in 1 .. w : EncodeUInt(u, w)[i] = EncodeUInt(v, w)[i]
  PROVE  u = v
<1>1. DecodeUInt(EncodeUInt(u, w), w) = u
  BY WordComesBack
<1>2. DecodeUInt(EncodeUInt(u, w), w) = v
  BY WordComesBack
<1> QED
  BY <1>1, <1>2

\* The first bytes of a word are 0 when it fits into the others.
LEMMA LeadingZeros ==
  ASSUME NEW w \in 0 .. W64, NEW k \in 0 .. w, NEW u \in 0 .. Pow256[k] - 1, NEW i \in 1 .. w - k
  PROVE  EncodeUInt(u, w)[i] = 0
<1>0. w \in Nat /\ W64 \in Nat /\ k \in Nat /\ i \in 1 .. w /\ u \in Nat
  BY CodecAssumption, Powers
<1> DEFINE c == Pow256[w - i]
<1>1. k \in 0 .. w - i /\ w - i \in 0 .. W64 /\ k \in 0 .. W64
  BY <1>0
<1>2. Pow256[k] <= c /\ c \in Nat \ {0} /\ Pow256[k] \in Nat
  BY <1>1, Powers, PowersGrow
<1>3. EncodeUInt(u, w)[i] = (u \div c) % 256
  BY <1>0, WordBytes
<1> HIDE DEF c
<1>4. u = 0 * c + u /\ u \in 0 .. c - 1
  BY <1>0, <1>2
<1>5. u \div c = 0
  BY <1>0, <1>2, <1>4, Quotient
<1> QED
  BY <1>3, <1>5

-----------------------------------------------------------------------------
(* Sequences of bytes *)

Bytes == Seq(Byte)

LEMMA Concatenation ==
  ASSUME NEW a \in Bytes, NEW b \in Bytes
  PROVE  a \o b \in Bytes /\ Len(a \o b) = Len(a) + Len(b) /\ Len(a) \in Nat
BY ConcatProperties, LenProperties DEF Bytes

\* The items of a concatenation, position by position.
LEMMA ItemOfConcatenation ==
  ASSUME NEW a \in Bytes, NEW b \in Bytes
  PROVE  /\ \A i \in 1 .. Len(a) : (a \o b)[i] = a[i]
         /\ \A i \in 1 .. Len(b) : (a \o b)[Len(a) + i] = b[i]
<1>1. a \in Seq(Byte) /\ b \in Seq(Byte)
  BY DEF Bytes
<1>2. Len(a) \in Nat /\ Len(b) \in Nat
  BY <1>1, LenProperties
<1>3. \A k \in 1 .. Len(a) + Len(b) :
        (a \o b)[k] = IF k <= Len(a) THEN a[k] ELSE b[k - Len(a)]
  BY <1>1, ConcatProperties, Zenon
<1>4. ASSUME NEW i \in 1 .. Len(a)
      PROVE  (a \o b)[i] = a[i]
  <2>1. i \in 1 .. Len(a) + Len(b) /\ i <= Len(a)
    BY <1>2
  <2> QED
    BY <1>3, <2>1, Zenon
<1>5. ASSUME NEW i \in 1 .. Len(b)
      PROVE  (a \o b)[Len(a) + i] = b[i]
  <2> DEFINE k == Len(a) + i
  <2>1. k \in 1 .. Len(a) + Len(b) /\ ~(k <= Len(a)) /\ k - Len(a) = i
    BY <1>2
  <2>2. (a \o b)[k] = IF k <= Len(a) THEN a[k] ELSE b[k - Len(a)]
    BY <1>3, <2>1, Zenon
  <2> QED
    BY <2>1, <2>2, Zenon
<1> QED
  BY <1>4, <1>5

\* Concatenations of parts of the same lengths are equal when the parts are.
LEMMA PartsEqual ==
  ASSUME NEW a \in Bytes, NEW b \in Bytes, NEW c \in Bytes, NEW d \in Bytes,
         Len(a) = Len(c), a \o b = c \o d
  PROVE  a = c /\ b = d
<1>1. a \in Seq(Byte) /\ b \in Seq(Byte) /\ c \in Seq(Byte) /\ d \in Seq(Byte)
  BY DEF Bytes
<1>2. Len(a) \in Nat /\ Len(b) \in Nat
  BY <1>1, LenProperties
<1>3. \A i \in 1 .. Len(a) : a[i] = c[i]
  <2> TAKE i \in 1 .. Len(a)
  <2>1. i \in 1 .. Len(c)
    OBVIOUS
  <2>2. (a \o b)[i] = a[i] /\ (c \o d)[i] = c[i]
    BY <2>1, ItemOfConcatenation
  <2> QED
    BY <2>2
<1>4. a = c
  BY <1>1, <1>3, SeqEqual
<1>5. b = d
  <2>1. Len(d) \in Nat /\ Len(b) = Len(d)
    <3>1. Len(a \o b) = Len(a) + Len(b) /\ Len(c \o d) = Len(c) + Len(d) /\ Len(d) \in Nat
      BY <1>1, ConcatProperties, LenProperties
    <3> QED
      BY <1>2, <3>1
  <2>2. \A i \in 1 .. Len(b) : b[i] = d[i]
    <3> TAKE i \in 1 .. Len(b)
    <3>1. i \in 1 .. Len(d)
      BY <2>1
    <3>2. (a \o b)[Len(a) + i] = b[i] /\ (c \o d)[Len(c) + i] = d[i]
      BY <3>1, ItemOfConcatenation
    <3> QED
      BY <3>2
  <2> QED
    BY <1>1, <2>1, <2>2, SeqEqual
<1> QED
  BY <1>4, <1>5

LEMMA OneByte ==
  ASSUME NEW tag \in Byte
  PROVE  <<tag>> \in Bytes /\ Len(<<tag>>) = 1
BY DEF Bytes

\* The words of W64 bytes.
Word == 0 .. Pow256[W64] - 1

LEMMA Words ==
  ASSUME NEW u \in Nat
  PROVE  U64(u) \in Bytes /\ Len(U64(u)) = W64
<1>1. W64 \in 0 .. W64
  BY CodecAssumption
<1> QED
  BY <1>1, WordBytes DEF U64, Bytes

LEMMA WordsAreNat ==
  /\ Word \subseteq Nat /\ 0 \in Word
  /\ W64 \in Nat \ {0} /\ W32 \in Nat \ {0} /\ W32 < W64
<1>1. W64 \in Nat \ {0} /\ W32 \in Nat \ {0} /\ W32 < W64
  BY CodecAssumption
<1>2. Pow256[W64] \in Nat \ {0}
  BY <1>1, Powers
<1> QED
  BY <1>1, <1>2 DEF Word

LEMMA WordsEqual ==
  ASSUME NEW u \in Word, NEW v \in Word, U64(u) = U64(v)
  PROVE  u = v
<1>1. W64 \in 0 .. W64
  BY WordsAreNat
<1> QED
  BY <1>1, WordsDiffer DEF U64, Word

\* A text and its length.
LEMMA Texts ==
  ASSUME NEW a \in Bytes
  PROVE  EncodeBytes(a) \in Bytes /\ Len(EncodeBytes(a)) = W32 + Len(a)
<1>1. W32 \in 0 .. W64
  BY CodecAssumption
<1>2. Len(a) \in Nat
  BY LenProperties DEF Bytes
<1>3. EncodeUInt(Len(a), W32) \in Bytes /\ Len(EncodeUInt(Len(a), W32)) = W32
  BY <1>1, <1>2, WordBytes DEF Bytes
<1> QED
  BY <1>3, Concatenation DEF EncodeBytes

\* Texts of one length, and so all texts, differ in their bytes.
LEMMA TextsEqual ==
  ASSUME NEW a \in Bytes, NEW b \in Bytes, EncodeBytes(a) = EncodeBytes(b)
  PROVE  a = b
<1>1. W32 \in 0 .. W64 /\ W32 \in Nat
  BY CodecAssumption
<1>2. Len(a) \in Nat /\ Len(b) \in Nat
  BY LenProperties DEF Bytes
<1>3. Len(a) = Len(b)
  BY <1>1, <1>2, Texts
<1>4. EncodeUInt(Len(a), W32) \in Bytes
  BY <1>1, <1>2, WordBytes DEF Bytes
<1> QED
  BY <1>3, <1>4, PartsEqual DEF EncodeBytes

\* A text does not look like a word whose first bytes, those of a length, are 0.
LEMMA TextIsNoWord ==
  ASSUME NEW a \in Bytes, NEW u \in 0 .. Pow256[W64 - W32] - 1, W64 - W32 < Pow256[W32]
  PROVE  EncodeBytes(a) # U64(u)
<1> SUFFICES ASSUME EncodeBytes(a) = U64(u) PROVE FALSE
  OBVIOUS
<1> DEFINE k == W64 - W32
           size == Len(a)
<1>1. W64 \in Nat /\ W32 \in Nat /\ k \in 1 .. W64 /\ W32 \in 0 .. W64 /\ W64 \in 0 .. W64
  BY CodecAssumption
<1>2. Pow256[k] \in Nat /\ u \in Nat /\ size \in Nat
  BY <1>1, Powers, LenProperties DEF Bytes
<1>3. size = k
  <2>1. W32 + size = W64
    BY <1>2, Texts, Words
  <2> QED
    BY <1>1, <1>2, <2>1
<1>4. EncodeUInt(size, W32) \in Bytes /\ Len(EncodeUInt(size, W32)) = W32
  BY <1>1, <1>2, WordBytes DEF Bytes
<1>5. \A i \in 1 .. W32 : EncodeUInt(size, W32)[i] = 0
  <2> TAKE i \in 1 .. W32
  <2>1. EncodeBytes(a)[i] = EncodeUInt(size, W32)[i]
    <3>1. i \in 1 .. Len(EncodeUInt(size, W32)) + Len(a) /\ i <= Len(EncodeUInt(size, W32))
      BY <1>1, <1>2, <1>4
    <3> QED
      BY <1>4, <3>1, ConcatProperties DEF EncodeBytes, Bytes
  <2>2. U64(u)[i] = 0
    <3>1. i \in 1 .. W64 - k /\ k \in 0 .. W64
      BY <1>1
    <3> QED
      BY <1>1, <3>1, LeadingZeros DEF U64
  <2> QED
    BY <2>1, <2>2
<1>6. \A i \in 1 .. W32 : EncodeUInt(0, W32)[i] = 0
  <2> TAKE i \in 1 .. W32
  <2>1. 0 \in 0 .. W32 /\ 0 \in 0 .. Pow256[0] - 1 /\ i \in 1 .. W32 - 0
    BY <1>1, Powers
  <2> QED
    BY <1>1, <2>1, LeadingZeros
<1>7. size \in 0 .. Pow256[W32] - 1 /\ 0 \in 0 .. Pow256[W32] - 1
  <2>1. Pow256[W32] \in Nat \ {0}
    BY <1>1, Powers
  <2> QED
    BY <1>1, <1>2, <1>3, <2>1
<1>8. size = 0
  <2> HIDE DEF size
  <2> QED
    BY <1>1, <1>5, <1>6, <1>7, WordsDiffer
<1> QED
  BY <1>1, <1>3, <1>8

-----------------------------------------------------------------------------
(* Keys *)

\* A key of two ids and a rest; a key of the catalog has a tag behind the ids of
\* no database and no table.
Own(db, table, rest) == (U64(db) \o U64(table)) \o rest

Tagged(tag, rest) == Own(0, 0, <<tag>> \o rest)

LEMMA OwnParts ==
  ASSUME NEW db \in Nat, NEW table \in Nat, NEW rest \in Bytes
  PROVE  /\ U64(db) \o U64(table) \in Bytes
         /\ Len(U64(db) \o U64(table)) = 2 * W64
         /\ Own(db, table, rest) \in Bytes
<1>1. U64(db) \o U64(table) \in Bytes /\ Len(U64(db) \o U64(table)) = 2 * W64
  BY Words, Concatenation, WordsAreNat
<1> QED
  BY <1>1, Concatenation DEF Own

LEMMA OwnEqual ==
  ASSUME NEW d \in Word, NEW t \in Word, NEW r \in Bytes,
         NEW e \in Word, NEW u \in Word, NEW q \in Bytes, Own(d, t, r) = Own(e, u, q)
  PROVE  d = e /\ t = u /\ r = q
<1>1. d \in Nat /\ t \in Nat /\ e \in Nat /\ u \in Nat
  BY WordsAreNat
<1>2. U64(d) \o U64(t) = U64(e) \o U64(u) /\ r = q
  <2>1. PICK a, c : a = U64(d) \o U64(t) /\ c = U64(e) \o U64(u)
    OBVIOUS
  <2>2. a \in Bytes /\ c \in Bytes /\ Len(a) = Len(c)
    BY <1>1, <2>1, OwnParts
  <2>3. a \o r = c \o q
    BY <2>1, Zenon DEF Own
  <2>4. a = c /\ r = q
    BY <2>2, <2>3, PartsEqual
  <2> QED
    BY <2>1, <2>4
<1>3. U64(d) = U64(e) /\ U64(t) = U64(u)
  <2>1. /\ U64(d) \in Bytes /\ U64(t) \in Bytes /\ U64(e) \in Bytes /\ U64(u) \in Bytes
        /\ Len(U64(d)) = Len(U64(e))
    BY <1>1, Words
  <2> QED
    BY <1>2, <2>1, PartsEqual, Zenon
<1> QED
  BY <1>2, <1>3, WordsEqual

LEMMA RestsEqual ==
  ASSUME NEW d \in Word, NEW t \in Word, NEW r \in Bytes, NEW q \in Bytes, Own(d, t, r) = Own(d, t, q)
  PROVE  r = q
<1>1. d \in Nat /\ t \in Nat
  BY WordsAreNat
<1>2. PICK a \in Bytes : a = U64(d) \o U64(t)
  BY <1>1, OwnParts
<1>3. a \o r = a \o q
  BY <1>2, Zenon DEF Own
<1> QED
  BY <1>3, PartsEqual

LEMMA TaggedEqual ==
  ASSUME NEW a \in Byte, NEW r \in Bytes, NEW b \in Byte, NEW q \in Bytes, Tagged(a, r) = Tagged(b, q)
  PROVE  a = b /\ r = q
<1>1. <<a>> \in Bytes /\ <<b>> \in Bytes /\ Len(<<a>>) = Len(<<b>>)
  BY OneByte
<1>2. <<a>> \o r \in Bytes /\ <<b>> \o q \in Bytes
  BY <1>1, Concatenation
<1>3. <<a>> \o r = <<b>> \o q
  <2>1. PICK x, y \in Bytes : x = <<a>> \o r /\ y = <<b>> \o q
    BY <1>2
  <2>2. PICK zero \in Word : zero = 0
    BY WordsAreNat
  <2>3. Own(zero, zero, x) = Own(zero, zero, y) => x = y
    BY RestsEqual, Zenon
  <2>4. Own(zero, zero, x) = Own(zero, zero, y)
    BY <2>1, <2>2, Zenon DEF Tagged
  <2> QED
    BY <2>1, <2>3, <2>4
<1>4. <<a>> = <<b>> /\ r = q
  BY <1>1, <1>3, PartsEqual, Zenon
<1> QED
  BY <1>4

\* A key of a table, whose database has an id, is none of the catalog.
LEMMA OwnIsNotTagged ==
  ASSUME NEW d \in Word \ {0}, NEW t \in Word, NEW r \in Bytes, NEW a \in Byte, NEW q \in Bytes
  PROVE  Own(d, t, r) # Tagged(a, q)
<1>1. <<a>> \o q \in Bytes
  BY OneByte, Concatenation
<1> QED
  BY <1>1, OwnEqual, WordsAreNat DEF Tagged

\* Three and four parts, the last ones taken together.
Cat(a, b) == a \o b

LEMMA Cats ==
  /\ \A p, c \in Bytes : Cat(p, c) \in Bytes
  /\ \A p, c, r \in Bytes : Cat(Cat(p, c), r) = Cat(p, Cat(c, r))
<1>1. \A p, c \in Bytes : Cat(p, c) \in Bytes
  BY Concatenation DEF Cat
<1>2. ASSUME NEW p \in Bytes, NEW c \in Bytes, NEW r \in Bytes
      PROVE  (p \o c) \o r = p \o (c \o r)
  <2>1. p \in Seq(Byte) /\ c \in Seq(Byte) /\ r \in Seq(Byte)
    BY <1>2 DEF Bytes
  <2> QED
    BY <2>1, ConcatAssociative
<1> QED
  BY <1>1, <1>2, Zenon DEF Cat

LEMMA LastTogether ==
  ASSUME NEW p \in Bytes, NEW c \in Bytes, NEW r \in Bytes
  PROVE  Cat(Cat(p, c), r) = Cat(p, Cat(c, r))
BY Cats, Zenon

LEMMA LastThreeTogether ==
  ASSUME NEW p \in Bytes, NEW c \in Bytes, NEW r \in Bytes, NEW q \in Bytes
  PROVE  Cat(Cat(Cat(p, c), r), q) = Cat(p, Cat(c, Cat(r, q)))
<1> DEFINE x == Cat(c, r)
<1>1. x \in Bytes
  BY Cats, Zenon
<1>2. Cat(Cat(p, c), r) = Cat(p, x)
  BY LastTogether, SMT
<1>3. Cat(x, q) = Cat(c, Cat(r, q))
  BY LastTogether, SMT
<1> HIDE DEF x
<1>4. Cat(Cat(p, x), q) = Cat(p, Cat(x, q))
  BY <1>1, LastTogether, SMT
<1> QED
  BY <1>2, <1>3, <1>4, Zenon

\* What the keys are made of.
LEMMA CatalogKeys ==
  ASSUME NEW d \in Nat, NEW t \in Nat, NEW name \in Bytes
  PROVE  /\ EncodeDatabaseAllocID(d) = Tagged(2, U64(d))
         /\ EncodeTableAllocID(d) = Tagged(3, U64(d))
         /\ EncodeDatabaseID(d) = Tagged(1, U64(d))
         /\ EncodeDatabaseName(name) = Tagged(2, EncodeBytes(name))
         /\ EncodeTableID(d, t) = Tagged(3, U64(d) \o U64(t))
         /\ EncodeTableName(d, name) = Tagged(4, U64(d) \o EncodeBytes(name))
<1>1. U64(d) \in Bytes /\ U64(t) \in Bytes /\ EncodeBytes(name) \in Bytes
  BY Words, Texts
<1>2. 0 \in Nat /\ 1 \in Byte /\ 2 \in Byte /\ 3 \in Byte /\ 4 \in Byte
  BY DEF Byte
<1>3. ASSUME NEW b \in Byte, NEW r \in Bytes, NEW q \in Bytes
      PROVE  /\ (Global \o <<b>>) \o r = Tagged(b, r)
             /\ ((Global \o <<b>>) \o r) \o q = Tagged(b, r \o q)
  <2>1. Global \in Bytes /\ <<b>> \in Bytes /\ r \in Bytes /\ q \in Bytes
    BY <1>2, <1>3, OwnParts, OneByte DEF Global
  <2>2. PICK g, x \in Bytes : g = Global /\ x = <<b>>
    BY <2>1, Zenon
  <2>3. Cat(Cat(g, x), r) = Cat(g, Cat(x, r))
    BY LastTogether, SMT
  <2>4. Cat(Cat(Cat(g, x), r), q) = Cat(g, Cat(x, Cat(r, q)))
    BY LastThreeTogether, SMT
  <2> QED
    BY <2>2, <2>3, <2>4, Zenon DEF Global, Tagged, Own, Cat
<1>4. EncodeDatabaseAllocID(d) = Tagged(2, U64(d))
  BY <1>1, <1>2, <1>3 DEF EncodeDatabaseAllocID
<1>5. EncodeTableAllocID(d) = Tagged(3, U64(d))
  BY <1>1, <1>2, <1>3 DEF EncodeTableAllocID
<1>6. EncodeDatabaseID(d) = Tagged(1, U64(d))
  BY <1>1, <1>2, <1>3 DEF EncodeDatabaseID
<1>7. EncodeDatabaseName(name) = Tagged(2, EncodeBytes(name))
  BY <1>1, <1>2, <1>3 DEF EncodeDatabaseName
<1>8. EncodeTableID(d, t) = Tagged(3, U64(d) \o U64(t))
  BY <1>1, <1>2, <1>3 DEF EncodeTableID
<1>9. EncodeTableName(d, name) = Tagged(4, U64(d) \o EncodeBytes(name))
  BY <1>1, <1>2, <1>3 DEF EncodeTableName
<1> QED
  BY <1>4, <1>5, <1>6, <1>7, <1>8, <1>9

LEMMA NodeKeyParts ==
  ASSUME NEW d \in Nat, NEW t \in Nat, NEW i \in Nat, NEW n \in Nat
  PROVE  \E r \in Bytes : EncodeIndexTreeNodeID(d, t, i, n) = Own(d, t, r)
<1>1. U64(d) \o U64(t) \in Bytes /\ <<0>> \in Bytes /\ U64(i) \in Bytes /\ U64(n) \in Bytes
  <2>1. 0 \in Byte /\ U64(i) \in Bytes /\ U64(n) \in Bytes
    BY Words DEF Byte
  <2> QED
    BY <2>1, OwnParts, OneByte
<1>2. PICK p, tag, x, y :
        /\ p = U64(d) \o U64(t) /\ tag = <<0>> /\ x = U64(i) /\ y = U64(n)
        /\ p \in Bytes /\ tag \in Bytes /\ x \in Bytes /\ y \in Bytes
  BY <1>1
<1>3. p \in Bytes /\ tag \in Bytes /\ x \in Bytes /\ y \in Bytes
  BY <1>2, Zenon
<1>4. Cat(Cat(Cat(p, tag), x), y) = Cat(p, Cat(tag, Cat(x, y)))
  BY <1>3, LastThreeTogether, SMT
<1>5. Cat(tag, Cat(x, y)) \in Bytes
  BY <1>3, Cats, SMT
<1> QED
  BY <1>2, <1>4, <1>5, Zenon DEF EncodeIndexTreeNodeID, Own, Cat

LEMMA RowKeyParts ==
  ASSUME NEW d \in Nat, NEW t \in Nat, NEW text \in Bytes
  PROVE  \E r \in Bytes : EncodeDataKey(d, t, text) = Own(d, t, r)
<1>1. U64(d) \o U64(t) \in Bytes /\ <<1>> \in Bytes /\ EncodeBytes(text) \in Bytes
  <2>1. 1 \in Byte /\ EncodeBytes(text) \in Bytes
    BY Texts DEF Byte
  <2> QED
    BY <2>1, OwnParts, OneByte
<1>2. PICK p, tag, x :
        /\ p = U64(d) \o U64(t) /\ tag = <<1>> /\ x = EncodeBytes(text)
        /\ p \in Bytes /\ tag \in Bytes /\ x \in Bytes
  BY <1>1
<1>3. p \in Bytes /\ tag \in Bytes /\ x \in Bytes
  BY <1>2, Zenon
<1>4. Cat(Cat(p, tag), x) = Cat(p, Cat(tag, x))
  BY <1>3, LastTogether, SMT
<1>5. Cat(tag, x) \in Bytes
  BY <1>3, Cats, SMT
<1> QED
  BY <1>2, <1>4, <1>5, Zenon DEF EncodeDataKey, Own, Cat

LEMMA TableStatisticKeyParts ==
  ASSUME NEW d \in Nat, NEW t \in Nat
  PROVE  EncodeMetaStatistic(d, t) = Own(d, t, <<5>>) /\ <<5>> \in Bytes
<1>1. 5 \in Byte
  BY DEF Byte
<1>2. <<5>> \in Bytes
  BY <1>1, OneByte
<1> QED
  BY <1>2, Zenon DEF EncodeMetaStatistic, Own

LEMMA ColumnStatisticKeyParts ==
  ASSUME NEW d \in Nat, NEW t \in Nat, NEW c \in Nat
  PROVE  /\ EncodeColumnStatistic(d, t, c) = Own(d, t, U64(c) \o <<6>>)
         /\ U64(c) \o <<6>> \in Bytes
<1>1. U64(d) \o U64(t) \in Bytes /\ U64(c) \in Bytes /\ <<6>> \in Bytes
  <2>1. 6 \in Byte /\ U64(c) \in Bytes
    BY Words DEF Byte
  <2> QED
    BY <2>1, OwnParts, OneByte
<1>2. PICK p, x, tag :
        /\ p = U64(d) \o U64(t) /\ x = U64(c) /\ tag = <<6>>
        /\ p \in Bytes /\ x \in Bytes /\ tag \in Bytes
  BY <1>1
<1>3. p \in Bytes /\ x \in Bytes /\ tag \in Bytes
  BY <1>2, Zenon
<1>4. Cat(Cat(p, x), tag) = Cat(p, Cat(x, tag))
  BY <1>3, LastTogether, SMT
<1>5. Cat(x, tag) \in Bytes
  BY <1>3, Cats, SMT
<1> QED
  BY <1>2, <1>4, <1>5, Zenon DEF EncodeColumnStatistic, Own, Cat

\* The ids kept in a key are read back.
LEMMA IdsComeBack ==
  ASSUME NEW d \in Word, NEW t \in Word
  PROVE  /\ DecodeDatabaseID(EncodeDatabaseID(d)) = d
         /\ DecodeTableID(EncodeTableID(d, t)) = [db |-> d, table |-> t]
<1>1. /\ d \in Nat /\ t \in Nat /\ W64 \in Nat \ {0} /\ W64 \in 0 .. W64
      /\ d \in 0 .. Pow256[W64] - 1 /\ t \in 0 .. Pow256[W64] - 1
  BY WordsAreNat DEF Word
<1> DEFINE at == 2 * W64 + 2
<1>2. ASSUME NEW tag \in Byte, NEW a \in Bytes, NEW i \in 1 .. Len(a)
      PROVE  /\ Tagged(tag, a)[at - 1 + i] = a[i]
             /\ Len(Tagged(tag, a)) = at - 1 + Len(a) /\ Tagged(tag, a) \in Bytes
  <2> DEFINE p == U64(0) \o U64(0)
  <2>1. p \in Seq(Byte) /\ Len(p) = 2 * W64 /\ <<tag>> \in Seq(Byte) /\ a \in Seq(Byte)
    BY OwnParts, OneByte DEF Bytes
  <2>2. <<tag>> \o a \in Seq(Byte) /\ Len(<<tag>> \o a) = 1 + Len(a) /\ Len(a) \in Nat
    BY <2>1, ConcatProperties, LenProperties, OneByte
  <2>3. Tagged(tag, a) = p \o (<<tag>> \o a)
    BY DEF Tagged, Own
  <2> HIDE DEF p
  <2>4. Tagged(tag, a) \in Bytes /\ Len(Tagged(tag, a)) = at - 1 + Len(a)
    <3>1. PICK b : b = <<tag>> \o a
      OBVIOUS
    <3>2. b \in Seq(Byte) /\ Len(b) = 1 + Len(a)
      BY <2>2, <3>1
    <3>3. p \o b \in Seq(Byte) /\ Len(p \o b) = Len(p) + Len(b)
      BY <2>1, <3>2, ConcatProperties
    <3>4. Tagged(tag, a) = p \o b
      BY <2>3, <3>1
    <3> QED
      BY <1>1, <2>1, <2>2, <3>2, <3>3, <3>4 DEF Bytes
  <2>5. PICK j, h : j = at - 1 + i /\ h = 1 + i
    OBVIOUS
  <2>6. /\ j \in 1 .. Len(p) + Len(<<tag>> \o a) /\ ~(j <= Len(p)) /\ j - Len(p) = h
        /\ h \in 1 .. Len(<<tag>>) + Len(a) /\ ~(h <= Len(<<tag>>)) /\ h - Len(<<tag>>) = i
    BY <1>1, <2>1, <2>2, <2>5, OneByte
  <2>7. (p \o (<<tag>> \o a))[j] = (<<tag>> \o a)[h]
    BY <2>1, <2>2, <2>6, ConcatProperties
  <2>8. (<<tag>> \o a)[h] = a[i]
    BY <2>1, <2>6, ConcatProperties
  <2> QED
    BY <2>3, <2>4, <2>5, <2>7, <2>8
<1>3. U64(d) \in Bytes /\ Len(U64(d)) = W64 /\ U64(t) \in Bytes /\ Len(U64(t)) = W64
  BY <1>1, Words
<1>4. DecodeDatabaseID(EncodeDatabaseID(d)) = d
  <2> DEFINE key == Tagged(1, U64(d))
             in == SubSeq(key, at, Len(key))
  <2>1. 1 \in Byte
    BY DEF Byte
  <2>2. EncodeDatabaseID(d) = key
    BY <1>1, <1>3, CatalogKeys
  <2>3. key \in Bytes /\ Len(key) = at - 1 + W64 /\ \A i \in 1 .. W64 : key[at - 1 + i] = U64(d)[i]
    BY <1>1, <1>2, <1>3, <2>1
  <2> HIDE DEF key
  <2>4. \A i \in 1 .. W64 : in[i] = key[at - 1 + i]
    <3>1. at \in Int /\ Len(key) \in Int /\ \A i \in at .. Len(key) : key[i] \in Byte
      <4>1. at \in Nat \ {0} /\ Len(key) \in Nat
        BY <1>1, <2>3
      <4> QED
        BY <2>3, <4>1, ElementOfSeq DEF Bytes
    <3>2. \A i \in 1 .. Len(key) - at + 1 : in[i] = key[at + i - 1]
      BY <3>1, SubSeqProperties
    <3> QED
      BY <1>1, <2>3, <3>2
  <2>5. DecodeUInt(in, W64) = d
    <3> HIDE DEF in
    <3>1. \A i \in 1 .. W64 : in[i] = EncodeUInt(d, W64)[i]
      BY <2>3, <2>4 DEF U64
    <3> QED
      BY <1>1, <3>1, WordComesBack, Zenon
  <2> QED
    BY <2>2, <2>5 DEF DecodeDatabaseID
<1>5. DecodeTableID(EncodeTableID(d, t)) = [db |-> d, table |-> t]
  <2> DEFINE both == U64(d) \o U64(t)
             key == Tagged(3, both)
             in == SubSeq(key, at, Len(key))
             im == SubSeq(key, at + W64, Len(key))
  <2>1. 3 \in Byte
    BY DEF Byte
  <2>2. EncodeTableID(d, t) = key
    BY <1>1, <1>3, CatalogKeys, EmptySeq DEF Bytes
  <2>3. /\ both \in Bytes /\ Len(both) = 2 * W64
        /\ \A i \in 1 .. W64 : both[i] = U64(d)[i] /\ both[W64 + i] = U64(t)[i]
    <3>1. both \in Bytes /\ Len(both) = 2 * W64
      BY <1>1, <1>3, Concatenation
    <3>2. ASSUME NEW i \in 1 .. W64 PROVE both[i] = U64(d)[i] /\ both[W64 + i] = U64(t)[i]
      <4>1. PICK j : j = W64 + i
        OBVIOUS
      <4>2. /\ i \in 1 .. Len(U64(d)) + Len(U64(t)) /\ i <= Len(U64(d))
            /\ j \in 1 .. Len(U64(d)) + Len(U64(t)) /\ ~(j <= Len(U64(d))) /\ j - Len(U64(d)) = i
        BY <1>1, <1>3, <4>1
      <4>3. both[i] = U64(d)[i]
        BY <1>3, <4>2, ConcatProperties DEF Bytes
      <4>4. both[j] = U64(t)[i]
        BY <1>3, <4>2, ConcatProperties DEF Bytes
      <4> QED
        BY <4>1, <4>3, <4>4
    <3> QED
      BY <3>1, <3>2
  <2> HIDE DEF both
  <2>4. /\ key \in Bytes /\ Len(key) = at - 1 + 2 * W64
        /\ \A i \in 1 .. 2 * W64 : key[at - 1 + i] = both[i]
    <3>1. 1 \in 1 .. Len(both)
      BY <1>1, <2>3
    <3> QED
      BY <1>2, <2>1, <2>3, <3>1
  <2> HIDE DEF key
  <2>5. \A i \in 1 .. W64 : in[i] = U64(d)[i] /\ im[i] = U64(t)[i]
    <3> TAKE i \in 1 .. W64
    <3>1. at \in Int /\ at + W64 \in Int /\ Len(key) \in Int /\ \A j \in at .. Len(key) : key[j] \in Byte
      <4>1. at \in Nat \ {0} /\ Len(key) \in Nat
        BY <1>1, <2>4
      <4> QED
        BY <1>1, <2>4, <4>1, ElementOfSeq DEF Bytes
    <3>2. in[i] = key[at + i - 1]
      <4>1. i \in 1 .. Len(key) - at + 1
        BY <1>1, <2>4
      <4> QED
        BY <3>1, <4>1, SubSeqProperties
    <3>3. im[i] = key[(at + W64) + i - 1]
      <4>1. i \in 1 .. Len(key) - (at + W64) + 1
        BY <1>1, <2>4
      <4>2. \A j \in at + W64 .. Len(key) : key[j] \in Byte
        BY <1>1, <3>1
      <4> QED
        BY <3>1, <4>1, <4>2, SubSeqProperties
    <3>4. key[at + i - 1] = both[i]
      <4>1. at + i - 1 = at - 1 + i /\ i \in 1 .. 2 * W64
        BY <1>1
      <4> QED
        BY <2>4, <4>1
    <3>5. key[(at + W64) + i - 1] = both[W64 + i]
      <4>1. (at + W64) + i - 1 = at - 1 + (W64 + i) /\ W64 + i \in 1 .. 2 * W64
        BY <1>1
      <4> QED
        BY <2>4, <4>1
    <3> QED
      BY <2>3, <3>2, <3>3, <3>4, <3>5
  <2>6. DecodeUInt(in, W64) = d /\ DecodeUInt(im, W64) = t
    <3> HIDE DEF in, im
    <3> QED
      BY <1>1, <2>5, WordComesBack DEF U64
  <2> QED
    BY <2>2, <2>6 DEF DecodeTableID
<1> QED
  BY <1>4, <1>5

=============================================================================
