--------------------------- MODULE PathHashProofs ---------------------------
(***************************************************************************)
(* Proofs about PathHash, at the width of the code: with words of 32 bits   *)
(* and the constants of libagdb_hash_calculate, the body of the unrolled    *)
(* loop is eight rounds of the hash, for every hash and every eight bytes.  *)
(* TLC checks the loops on words of 12 bits.                                *)
(***************************************************************************)
EXTENDS PathHash, WellFoundedInduction, TLAPS

\* Cutting a value to the width of a word before a round makes no difference.
LEMMA RoundOfWord ==
  ASSUME NEW a \in Int, NEW b \in Int
  PROVE  ((a % 4294967296) * 37 + b) % 4294967296 = (a * 37 + b) % 4294967296
  BY SMT

\* The same without a byte, and for the seed of a sum.
LEMMA SumOfWord ==
  ASSUME NEW a \in Int, NEW b \in Int
  PROVE  ((a % 4294967296) + b) % 4294967296 = (a + b) % 4294967296
  BY SMT

\* A multiple of the number of words adds nothing.
LEMMA MultipleOfWords ==
  ASSUME NEW a \in Int, NEW n \in Int
  PROVE  (a + 4294967296 * n) % 4294967296 = a % 4294967296
  BY SMT

\* The rounds one byte at a time, in one sum.
Sum1(h, d) == h * 37 + d
Sum6(d) ==
  Sum1(Sum1(Sum1(Sum1(Sum1(d[2], d[3]), d[4]), d[5]), d[6]), d[7])

\* What the body of the unrolled loop has to compute: eight rounds.
EightRounds(h, d) ==
  Round(Round(Round(Round(Round(Round(Round(Round(h, d[1]), d[2]), d[3]),
    d[4]), d[5]), d[6]), d[7]), d[8])

LEMMA RoundIsSum ==
  ASSUME Modulus = 4294967296, NEW h \in Int, NEW d \in Int
  PROVE  /\ Round(h, d) = Sum1(h, d) % Modulus
         /\ Round(h % Modulus, d) = Sum1(h, d) % Modulus
  BY RoundOfWord, SMT DEF Round, Sum1

LEMMA MiddleRoundsSum ==
  ASSUME Modulus = 4294967296, NEW d \in [1 .. 8 -> Int]
  PROVE  MiddleRounds(d) = Sum6(d) % Modulus /\ Sum6(d) \in Int
<1> DEFINE h3 == Sum1(d[2], d[3])
           h4 == Sum1(h3, d[4])
           h5 == Sum1(h4, d[5])
           h6 == Sum1(h5, d[6])
           h7 == Sum1(h6, d[7])
<1>0. /\ d[2] \in Int /\ d[3] \in Int /\ d[4] \in Int /\ d[5] \in Int
      /\ d[6] \in Int /\ d[7] \in Int
  BY SMT
<1>1. h3 \in Int /\ h4 \in Int /\ h5 \in Int /\ h6 \in Int /\ h7 \in Int
  BY <1>0, SMT DEF Sum1
<1>2. /\ MiddleRounds(d) =
           Round(Round(Round(Round(Round(d[2], d[3]), d[4]), d[5]), d[6]), d[7])
      /\ Sum6(d) = h7
  BY SMT DEF MiddleRounds, Sum6
<1> HIDE DEF h3, h4, h5, h6, h7
<1>3. Round(d[2], d[3]) = h3 % Modulus
  BY <1>0, RoundIsSum, SMT DEF h3
<1>4. Round(h3 % Modulus, d[4]) = h4 % Modulus
  BY <1>0, <1>1, RoundIsSum, SMT DEF h4
<1>5. Round(h4 % Modulus, d[5]) = h5 % Modulus
  BY <1>0, <1>1, RoundIsSum, SMT DEF h5
<1>6. Round(h5 % Modulus, d[6]) = h6 % Modulus
  BY <1>0, <1>1, RoundIsSum, SMT DEF h6
<1>7. Round(h6 % Modulus, d[7]) = h7 % Modulus
  BY <1>0, <1>1, RoundIsSum, SMT DEF h7
<1>8. QED
  BY <1>1, <1>2, <1>3, <1>4, <1>5, <1>6, <1>7, SMT

\* Eight rounds in one sum: the powers of 37 before they are cut to a word.
LEMMA EightRoundsSum ==
  ASSUME Modulus = 4294967296, NEW h \in Int, NEW d \in [1 .. 8 -> Int]
  PROVE  EightRounds(h, d) =
           (3512479453921 * h + 94931877133 * d[1] + 37 * Sum6(d) + d[8])
             % Modulus
<1> DEFINE h1 == Sum1(h, d[1])
           h2 == Sum1(h1, d[2])
           h3 == Sum1(h2, d[3])
           h4 == Sum1(h3, d[4])
           h5 == Sum1(h4, d[5])
           h6 == Sum1(h5, d[6])
           h7 == Sum1(h6, d[7])
           h8 == Sum1(h7, d[8])
<1>0. /\ d[1] \in Int /\ d[2] \in Int /\ d[3] \in Int /\ d[4] \in Int
      /\ d[5] \in Int /\ d[6] \in Int /\ d[7] \in Int /\ d[8] \in Int
  BY SMT
<1>1. /\ h1 \in Int /\ h2 \in Int /\ h3 \in Int /\ h4 \in Int
      /\ h5 \in Int /\ h6 \in Int /\ h7 \in Int
  BY <1>0, SMT DEF Sum1
<1>2. h8 = 3512479453921 * h + 94931877133 * d[1] + 37 * Sum6(d) + d[8]
  BY <1>0, SMT DEF Sum1, Sum6
<1> HIDE DEF h1, h2, h3, h4, h5, h6, h7, h8
<1>3. Round(h, d[1]) = h1 % Modulus
  BY <1>0, RoundIsSum, SMT DEF h1
<1>4. Round(h1 % Modulus, d[2]) = h2 % Modulus
  BY <1>0, <1>1, RoundIsSum, SMT DEF h2
<1>5. Round(h2 % Modulus, d[3]) = h3 % Modulus
  BY <1>0, <1>1, RoundIsSum, SMT DEF h3
<1>6. Round(h3 % Modulus, d[4]) = h4 % Modulus
  BY <1>0, <1>1, RoundIsSum, SMT DEF h4
<1>7. Round(h4 % Modulus, d[5]) = h5 % Modulus
  BY <1>0, <1>1, RoundIsSum, SMT DEF h5
<1>8. Round(h5 % Modulus, d[6]) = h6 % Modulus
  BY <1>0, <1>1, RoundIsSum, SMT DEF h6
<1>9. Round(h6 % Modulus, d[7]) = h7 % Modulus
  BY <1>0, <1>1, RoundIsSum, SMT DEF h7
<1>10. Round(h7 % Modulus, d[8]) = h8 % Modulus
  BY <1>0, <1>1, RoundIsSum, SMT DEF h8
<1>11. EightRounds(h, d) = h8 % Modulus
  BY <1>3, <1>4, <1>5, <1>6, <1>7, <1>8, <1>9, <1>10, SMT DEF EightRounds
<1>12. QED
  BY <1>2, <1>11, SMT

LEMMA WordsAndBytes ==
  ASSUME Modulus \in Nat, NEW h \in Words, NEW d \in [1 .. 8 -> Bytes]
  PROVE  /\ h \in Int /\ d \in [1 .. 8 -> Int]
         /\ d[1] \in Int /\ d[8] \in Int
  BY DEF Words, Bytes

(* The two constants of the code stand for seven and eight multiplications  *)
(* by 37: whatever the hash so far and the eight bytes are, the body of the *)
(* unrolled loop gives what eight rounds of the loop over the rest give.    *)
THEOREM UnrolledIsEightRounds ==
  ASSUME Modulus = 4294967296, Power7 = 442596621, Power8 = 803794207,
         NEW h \in Words, NEW d \in [1 .. 8 -> Bytes]
  PROVE  Unrolled(h, d) = EightRounds(h, d)
<1> DEFINE middle == Sum6(d)
           scaled == middle * 37 + Power7 * d[1]
           hashed == scaled - Power8 * h + d[8]
<1>0. /\ h \in Int /\ d \in [1 .. 8 -> Int]
      /\ d[1] \in Int /\ d[8] \in Int
  BY WordsAndBytes, SMT
<1>1. MiddleRounds(d) = middle % Modulus /\ middle \in Int
  BY <1>0, MiddleRoundsSum, SMT
<1>2. Unrolled(h, d) =
        ((((((middle % Modulus) * 37) % Modulus) + Power7 * d[1]) % Modulus)
           - Power8 * h + d[8]) % Modulus
  BY <1>1, SMT DEF Unrolled
<1> HIDE DEF middle
<1>3. ((middle % Modulus) * 37) % Modulus = (middle * 37) % Modulus
  BY <1>1, RoundOfWord, SMT
<1>4. (((middle * 37) % Modulus) + Power7 * d[1]) % Modulus = scaled % Modulus
  <2>1. middle * 37 \in Int /\ Power7 * d[1] \in Int
    BY <1>0, <1>1, SMT
  <2>2. QED
    BY <2>1, SumOfWord, SMT
<1>5. scaled \in Int /\ hashed \in Int /\ d[8] - Power8 * h \in Int
  BY <1>0, <1>1, SMT
<1>6. ((scaled % Modulus) - Power8 * h + d[8]) % Modulus = hashed % Modulus
  <2>1. ((scaled % Modulus) + (d[8] - Power8 * h)) % Modulus
          = (scaled + (d[8] - Power8 * h)) % Modulus
    BY <1>5, SumOfWord, SMT
  <2>2. (scaled % Modulus) - Power8 * h + d[8]
          = (scaled % Modulus) + (d[8] - Power8 * h)
    BY <1>0, <1>5, SMT
  <2>3. hashed = scaled + (d[8] - Power8 * h)
    BY <1>0, <1>5, SMT
  <2>4. QED
    BY <2>1, <2>2, <2>3, SMT
<1>7. Unrolled(h, d) = hashed % Modulus
  BY <1>2, <1>3, <1>4, <1>6, SMT
<1>8. 3512479453921 * h + 94931877133 * d[1] + 37 * middle + d[8]
        = hashed + 4294967296 * (818 * h + 22 * d[1])
  BY <1>0, <1>1, SMT
<1>9. (hashed + 4294967296 * (818 * h + 22 * d[1])) % Modulus
        = hashed % Modulus
  <2>1. 818 * h + 22 * d[1] \in Int
    BY <1>0, SMT
  <2>2. QED
    BY <1>5, <2>1, MultipleOfWords, SMT
<1>10. EightRounds(h, d) =
         (3512479453921 * h + 94931877133 * d[1] + 37 * middle + d[8])
           % Modulus
  BY <1>0, EightRoundsSum, SMT DEF middle
<1>11. QED
  BY <1>7, <1>8, <1>9, <1>10, SMT

-----------------------------------------------------------------------------
\* A remainder is a word.
LEMMA RemainderIsWord == ASSUME NEW a \in Int PROVE a % Modulus \in Words
  BY InputAssumption DEF Words

LEMMA RoundIsWord ==
  ASSUME NEW h \in Int, NEW d \in Int
  PROVE  Round(h, d) \in Words /\ Round(h, d) \in Int
<1>1. h * 37 + d \in Int
  OBVIOUS
<1>2. Round(h, d) \in Words
  BY <1>1, RemainderIsWord DEF Round
<1>3. QED
  BY <1>2, InputAssumption DEF Words

LEMMA UnrolledIsWord ==
  ASSUME NEW h \in Int, NEW d \in [1 .. 8 -> Int]
  PROVE  Unrolled(h, d) \in Words
<1>1. /\ d[1] \in Int /\ d[2] \in Int /\ d[3] \in Int /\ d[4] \in Int
      /\ d[5] \in Int /\ d[6] \in Int /\ d[7] \in Int /\ d[8] \in Int
      /\ Power7 \in Int /\ Power8 \in Int
  BY InputAssumption DEF Words
<1>2. MiddleRounds(d) \in Int
  BY <1>1, RoundIsWord DEF MiddleRounds
<1> DEFINE lifted == (MiddleRounds(d) * 37) % Modulus
           scaled == (lifted + Power7 * d[1]) % Modulus
<1>3. lifted \in Int
  BY <1>2, RemainderIsWord, InputAssumption DEF Words
<1> HIDE DEF lifted
<1>4. Power7 * d[1] \in Int /\ lifted + Power7 * d[1] \in Int
  BY <1>1, <1>3
<1>5. scaled \in Int
  BY <1>4, RemainderIsWord, InputAssumption DEF Words
<1> HIDE DEF scaled
<1>6. Power8 * h \in Int /\ scaled - Power8 * h + d[8] \in Int
  BY <1>1, <1>5
<1>7. Unrolled(h, d) = (scaled - Power8 * h + d[8]) % Modulus
  BY DEF Unrolled, scaled, lifted
<1>8. QED
  BY <1>6, <1>7, RemainderIsWord

(* The hash is a word at every step and the loops stay within the data.     *)
THEOREM TypeCorrect == Spec => []TypeOK
<1>1. Init => TypeOK
  BY InputAssumption DEF Init, TypeOK
<1>2. TypeOK /\ [Next]_vars => TypeOK'
  <2> SUFFICES ASSUME TypeOK, [Next]_vars PROVE TypeOK'
    OBVIOUS
  <2>1. /\ data \in Seq(Bytes) /\ Len(data) \in Nat
        /\ data_offset \in Nat /\ data_offset <= Len(data)
        /\ hash_value \in Int
    BY InputAssumption DEF TypeOK, Words
  <2>b. \A i \in 1 .. Len(data) : data[i] \in Int
    <3>1. \A i \in 1 .. Len(data) : data[i] \in Bytes
      BY <2>1
    <3>2. \A byte \in Bytes : byte \in Int
      BY DEF Bytes
    <3>3. QED
      BY <3>1, <3>2, Zenon
  <2>2. CASE HashEight
    <3> DEFINE eight == SubSeq(data, data_offset + 1, data_offset + 8)
    <3>1. eight \in [1 .. 8 -> Int]
      <4>1. data_offset + 8 < Len(data)
        BY <2>2 DEF HashEight
      <4>2. eight = [i \in 1 .. 8 |-> data[i + data_offset]]
        BY <2>1, <4>1
      <4>3. ASSUME NEW i \in 1 .. 8 PROVE data[i + data_offset] \in Int
        <5>1. i + data_offset \in 1 .. Len(data)
          BY <2>1, <4>1
        <5>2. QED
          BY <2>1, <2>b, <5>1
      <4>4. QED
        BY <4>2, <4>3
    <3>2. hash_value' \in Words
      BY <2>1, <2>2, <3>1, UnrolledIsWord DEF HashEight
    <3>3. QED
      BY <2>1, <2>2, <3>2 DEF HashEight, TypeOK
  <2>3. CASE HashByte
    <3>1. data[data_offset + 1] \in Int
      <4>1. data_offset + 1 \in 1 .. Len(data)
        BY <2>1, <2>3 DEF HashByte
      <4>2. QED
        BY <2>b, <4>1
    <3>2. hash_value' \in Words
      BY <2>1, <2>3, <3>1, RoundIsWord DEF HashByte
    <3>3. QED
      BY <2>1, <2>3, <3>2 DEF HashByte, TypeOK
  <2>4. CASE UNCHANGED vars
    BY <2>4 DEF TypeOK, vars
  <2>5. QED
    BY <2>2, <2>3, <2>4 DEF Next
<1>3. QED
  BY <1>1, <1>2, PTL DEF Spec

-----------------------------------------------------------------------------
(* The loops                                                               *)

\* Numbers are well-founded: what holds of 0 and goes from each number to the
\* next holds of all.
LEMMA SmallestNumber ==
  ASSUME NEW T \in SUBSET Nat, T # {}
  PROVE  \E n \in T : \A m \in T : n <= m
<1> DEFINE R == OpToRel(<, Nat)
<1>1. \A m, n \in Nat : m < n => <<m, n>> \in R
  BY DEF OpToRel
<1>2. IsWellFoundedOn(R, Nat)
  BY NatLessThanWellFounded
<1> HIDE DEF R
<1>3. PICK n \in T : \A m \in T : ~(<<m, n>> \in R)
  BY <1>2, WFMin
<1>4. ASSUME NEW m \in T PROVE n <= m
  <2>1. m \in Nat /\ n \in Nat
    OBVIOUS
  <2>2. ~(m < n)
    BY <1>1, <1>3, <2>1, Zenon
  <2>3. QED
    BY <2>1, <2>2
<1>5. QED
  BY <1>4

LEMMA Induction ==
  ASSUME NEW S, 0 \in S, \A n \in Nat : n \in S => n + 1 \in S
  PROVE  Nat \subseteq S
<1> DEFINE T == Nat \ S
<1> SUFFICES ASSUME T # {} PROVE FALSE
  OBVIOUS
<1>1. PICK n \in T : \A m \in T : n <= m
  BY SmallestNumber
<1>2. n # 0 /\ n - 1 \in Nat /\ n - 1 \notin T
  BY <1>1
<1>3. QED
  BY <1>2

\* f gives the hash of the first n bytes of d for each n up to m.
HashesUpTo(f, d, m) ==
  /\ f[0] = Seed
  /\ \A n \in 1 .. m : f[n] = Round(f[n - 1], d[n])

LEMMA HashesExist ==
  ASSUME NEW d, NEW m \in Nat
  PROVE  \E f : DOMAIN f = 0 .. m /\ f = [n \in 0 .. m |-> f[n]]
                 /\ HashesUpTo(f, d, m)
<1> DEFINE Exists(k) == \E f : /\ DOMAIN f = 0 .. k
                               /\ f = [n \in 0 .. k |-> f[n]]
                               /\ HashesUpTo(f, d, k)
           S == {k \in Nat : Exists(k)}
<1>1. Exists(0)
  <2> DEFINE f == [n \in 0 .. 0 |-> Seed]
  <2>1. HashesUpTo(f, d, 0) /\ DOMAIN f = 0 .. 0 /\ f = [n \in 0 .. 0 |-> f[n]]
    BY DEF HashesUpTo
  <2> HIDE DEF f
  <2>2. QED
    BY <2>1
<1>2. ASSUME NEW k \in Nat, Exists(k) PROVE Exists(k + 1)
  <2>1. PICK f : DOMAIN f = 0 .. k /\ HashesUpTo(f, d, k)
    BY <1>2
  <2> DEFINE g == [n \in 0 .. k + 1 |->
                     IF n = k + 1 THEN Round(f[k], d[k + 1]) ELSE f[n]]
  <2>2. \A n \in 0 .. k : g[n] = f[n]
    OBVIOUS
  <2>3. g[k + 1] = Round(g[k], d[k + 1])
    BY <2>2
  <2>4. DOMAIN g = 0 .. k + 1 /\ g = [n \in 0 .. k + 1 |-> g[n]]
    OBVIOUS
  <2> HIDE DEF g
  <2>5. ASSUME NEW n \in 1 .. k + 1
        PROVE  g[n] = Round(g[n - 1], d[n])
    <3>1. CASE n = k + 1
      BY <2>3, <3>1
    <3>2. CASE n \in 1 .. k
      <4>1. g[n] = f[n] /\ g[n - 1] = f[n - 1]
        BY <2>2, <3>2
      <4>2. QED
        BY <2>1, <3>2, <4>1 DEF HashesUpTo
    <3>3. QED
      BY <3>1, <3>2
  <2>6. g[0] = Seed
    BY <2>1, <2>2 DEF HashesUpTo
  <2>7. QED
    BY <2>4, <2>5, <2>6 DEF HashesUpTo
<1> HIDE DEF Exists
<1>3. 0 \in S /\ \A k \in Nat : k \in S => k + 1 \in S
  BY <1>1, <1>2
<1>4. m \in S
  BY <1>3, Induction
<1>5. QED
  BY <1>4 DEF Exists

(* The recursive definition defines what it says.                           *)
LEMMA HashesDefined ==
  ASSUME NEW d, Len(d) \in Nat
  PROVE  HashesUpTo(Hashes(d), d, Len(d))
<1> DEFINE Body(f) == [n \in 0 .. Len(d) |->
                         IF n = 0 THEN Seed ELSE Round(f[n - 1], d[n])]
<1>1. PICK f : /\ f = [n \in 0 .. Len(d) |-> f[n]]
               /\ HashesUpTo(f, d, Len(d))
  BY HashesExist
<1>2. f = Body(f)
  <2>1. \A n \in 0 .. Len(d) :
          f[n] = IF n = 0 THEN Seed ELSE Round(f[n - 1], d[n])
    BY <1>1 DEF HashesUpTo
  <2>2. QED
    BY <1>1, <2>1, Zenon
<1>3. Hashes(d) = Body(Hashes(d))
  BY <1>2, Zenon DEF Hashes
<1>4. \A n \in 0 .. Len(d) :
        Hashes(d)[n] = IF n = 0 THEN Seed ELSE Round(Hashes(d)[n - 1], d[n])
  <2> DEFINE h == Hashes(d)
  <2> HIDE DEF h
  <2>1. h = [n \in 0 .. Len(d) |-> IF n = 0 THEN Seed ELSE Round(h[n - 1], d[n])]
    BY <1>3 DEF h
  <2>2. QED
    BY <2>1 DEF h
<1>5. QED
  BY <1>4 DEF HashesUpTo

LEMMA InitHashed == Init => PrefixHashed
<1> SUFFICES ASSUME Init PROVE PrefixHashed
  OBVIOUS
<1>1. Len(data) \in Nat
  BY InputAssumption DEF Init
<1>2. QED
  BY <1>1, HashesDefined DEF Init, PrefixHashed, HashesUpTo

(* A step keeps the hash what it is defined to be, provided that the body   *)
(* of the unrolled loop is eight rounds.                                    *)
LEMMA StepHashed ==
  ASSUME TypeOK, PrefixHashed, [Next]_vars,
         \A hash \in Words : \A d \in [1 .. 8 -> Bytes] :
           Unrolled(hash, d) = EightRounds(hash, d)
  PROVE  PrefixHashed'
<1>0. /\ data \in Seq(Bytes) /\ Len(data) \in Nat
      /\ data_offset \in Nat /\ data_offset <= Len(data)
      /\ hash_value \in Words
  BY InputAssumption DEF TypeOK
<1> DEFINE h == Hashes(data)
<1>1. \A n \in 1 .. Len(data) : h[n] = Round(h[n - 1], data[n])
  BY <1>0, HashesDefined DEF HashesUpTo
<1>2. hash_value = h[data_offset]
  BY DEF PrefixHashed
<1> HIDE DEF h
<1>3. CASE HashEight
  <2> DEFINE eight == SubSeq(data, data_offset + 1, data_offset + 8)
  <2>1. data_offset + 8 < Len(data) /\ data' = data
        /\ data_offset' = data_offset + 8
        /\ hash_value' = Unrolled(hash_value, eight)
    BY <1>3 DEF HashEight
  <2>2. eight = [i \in 1 .. 8 |-> data[i + data_offset]]
    BY <1>0, <2>1
  <2>3. ASSUME NEW i \in 1 .. 8
        PROVE  /\ eight[i] = data[data_offset + i]
               /\ eight[i] \in Bytes
               /\ h[data_offset + i] = Round(h[data_offset + i - 1], eight[i])
    <3>1. i + data_offset \in 1 .. Len(data)
          /\ i + data_offset = data_offset + i
      BY <1>0, <2>1
    <3>2. eight[i] = data[data_offset + i]
      BY <2>2, <3>1
    <3>3. data[data_offset + i] \in Bytes
      BY <1>0, <3>1
    <3>4. PICK n \in 1 .. Len(data) : n = data_offset + i
      BY <3>1
    <3>5. h[n] = Round(h[n - 1], data[n])
      BY <1>1
    <3>6. n - 1 = data_offset + i - 1
      <4>1. n \in Nat /\ i \in Nat /\ data_offset \in Nat
        BY <1>0
      <4>2. QED
        BY <3>4, <4>1
    <3> HIDE DEF eight
    <3>7. QED
      BY <3>2, <3>3, <3>4, <3>5, <3>6
  <2>4. eight \in [1 .. 8 -> Bytes]
    BY <2>2, <2>3
  <2> HIDE DEF eight
  <2>5. /\ h[data_offset + 1] = Round(h[data_offset], eight[1])
        /\ h[data_offset + 2] = Round(h[data_offset + 1], eight[2])
        /\ h[data_offset + 3] = Round(h[data_offset + 2], eight[3])
        /\ h[data_offset + 4] = Round(h[data_offset + 3], eight[4])
        /\ h[data_offset + 5] = Round(h[data_offset + 4], eight[5])
        /\ h[data_offset + 6] = Round(h[data_offset + 5], eight[6])
        /\ h[data_offset + 7] = Round(h[data_offset + 6], eight[7])
        /\ h[data_offset + 8] = Round(h[data_offset + 7], eight[8])
    <3>1. \A i \in 1 .. 8, j \in 0 .. 7 : i = j + 1 =>
            h[data_offset + i] = Round(h[data_offset + j], eight[i])
      <4> TAKE i \in 1 .. 8, j \in 0 .. 7
      <4> HAVE i = j + 1
      <4>1. data_offset + i - 1 = data_offset + j
        BY <1>0
      <4>2. QED
        BY <2>3, <4>1
    <3>2. data_offset + 0 = data_offset
      BY <1>0
    <3>3. QED
      BY <3>1, <3>2
  <2>6. EightRounds(hash_value, eight) = h[data_offset + 8]
    BY <1>2, <2>5, Zenon DEF EightRounds
  <2>7. hash_value' = h[data_offset']
    BY <1>0, <2>1, <2>4, <2>6
  <2>8. QED
    BY <2>1, <2>7 DEF PrefixHashed, h
<1>4. CASE HashByte
  <2>1. /\ data_offset + 1 \in 1 .. Len(data) /\ data' = data
        /\ data_offset' = data_offset + 1
        /\ hash_value' = Round(hash_value, data[data_offset + 1])
    BY <1>0, <1>4 DEF HashByte
  <2>2. h[data_offset + 1] = Round(h[data_offset], data[data_offset + 1])
    <3>1. PICK n \in 1 .. Len(data) : n = data_offset + 1
      BY <2>1
    <3>2. n - 1 = data_offset
      BY <1>0, <3>1
    <3>3. h[n] = Round(h[n - 1], data[n])
      BY <1>1
    <3>4. QED
      BY <3>1, <3>2, <3>3, Zenon
  <2>3. hash_value' = h[data_offset']
    BY <1>2, <2>1, <2>2
  <2>4. QED
    BY <2>1, <2>3 DEF PrefixHashed, h
<1>5. CASE UNCHANGED vars
  BY <1>5 DEF vars, PrefixHashed
<1>6. QED
  BY <1>3, <1>4, <1>5 DEF Next

(* With the words and the constants of the code, the two loops together     *)
(* compute the hash that the second alone defines, for data of any length.  *)
THEOREM LoopsComputeHash ==
  ASSUME Modulus = 4294967296, Power7 = 442596621, Power8 = 803794207
  PROVE  Spec => []PrefixHashed
<1>1. \A h \in Words : \A d \in [1 .. 8 -> Bytes] :
        Unrolled(h, d) = EightRounds(h, d)
  BY UnrolledIsEightRounds, SMT
<1>2. TypeOK /\ PrefixHashed /\ [Next]_vars => PrefixHashed'
  BY <1>1, StepHashed, SMT
<1>3. QED
  BY <1>2, InitHashed, TypeCorrect, PTL DEF Spec
=============================================================================
