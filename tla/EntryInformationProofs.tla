----------------------- MODULE EntryInformationProofs -----------------------
(***************************************************************************)
(* Proofs about EntryInformation and UncompressedHeader, for every entry   *)
(* and every stream, whatever their sizes, fields and characters are: what *)
(* the structures of EntryLayout give back of what was stored in them, the *)
(* memory of an object, and that what is read is what was written.         *)
(***************************************************************************)
EXTENDS EntryInformation, UncompressedHeader, SequenceTheorems,
        WellFoundedInduction, TLAPS

-----------------------------------------------------------------------------
(* Induction over the natural numbers                                      *)

(* A set of natural numbers that is not empty has a smallest.               *)
LEMMA SmallestNumber ==
  ASSUME NEW T \in SUBSET Nat, T # {}
  PROVE  \E n \in T : \A m \in T : n <= m
<1> DEFINE R == OpToRel(<, Nat)
<1>1. \A m, n \in Nat : m < n => <<m, n>> \in R
  BY DEF OpToRel
<1>2. IsWellFoundedOn(R, Nat)
  BY NatLessThanWellFounded
<1> HIDE DEF R
<1>3. PICK n \in T : \A m \in T : ~(<<m, n>> \in R)
  BY <1>2, WFMin
<1>4. ASSUME NEW m \in T PROVE n <= m
  <2>1. m \in Nat /\ n \in Nat
    OBVIOUS
  <2>2. ~(m < n)
    BY <1>1, <1>3, <2>1, Zenon
  <2>3. QED
    BY <2>1, <2>2
<1>5. QED
  BY <1>4

(* Induction over the natural numbers, for a set.                           *)
LEMMA Induction ==
  ASSUME NEW S, 0 \in S, \A n \in Nat : n \in S => n + 1 \in S
  PROVE  Nat \subseteq S
<1> DEFINE T == Nat \ S
<1> SUFFICES ASSUME T # {} PROVE FALSE
  OBVIOUS
<1>1. PICK n \in T : \A m \in T : n <= m
  BY SmallestNumber
<1>2. n # 0 /\ n - 1 \in Nat /\ n - 1 \notin T
  BY <1>1
<1>3. QED
  BY <1>2

\* next takes the value at n - 1 to that at n.
Steps(next, m, V) == \A n \in 1 .. m, v \in V : next[n][v] \in V

Follows(f, first, next, m) ==
  f[0] = first /\ \A n \in 1 .. m : f[n] = next[n][f[n - 1]]

(* A function of the numbers up to m may be defined by its first value and  *)
(* by what each value makes of the one before.                              *)
LEMMA Recursion ==
  ASSUME NEW V, NEW first \in V, NEW m \in Nat, NEW next, Steps(next, m, V)
  PROVE  \E f \in [0 .. m -> V] : Follows(f, first, next, m)
<1> USE DEF Steps, Follows
<1> DEFINE UpTo(k) == \E f \in [0 .. k -> V] :
             f[0] = first /\ \A n \in 1 .. k : f[n] = next[n][f[n - 1]]
           S == {k \in Nat : k <= m => UpTo(k)}
<1>1. UpTo(0)
  <2> DEFINE f == [n \in 0 .. 0 |-> first]
  <2>1. f \in [0 .. 0 -> V] /\ f[0] = first
    OBVIOUS
  <2> HIDE DEF f
  <2>2. QED
    BY <2>1
<1>2. ASSUME NEW k \in Nat, k + 1 <= m, UpTo(k) PROVE UpTo(k + 1)
  <2>1. PICK f \in [0 .. k -> V] :
          f[0] = first /\ \A n \in 1 .. k : f[n] = next[n][f[n - 1]]
    BY <1>2
  <2> DEFINE g == [n \in 0 .. k + 1 |->
                     IF n = k + 1 THEN next[k + 1][f[k]] ELSE f[n]]
  <2>2. f[k] \in V /\ k + 1 \in 1 .. m
    BY <1>2
  <2>3. next[k + 1][f[k]] \in V
    BY <2>2
  <2>4. g \in [0 .. k + 1 -> V]
    BY <2>3
  <2>5. \A n \in 0 .. k : g[n] = f[n]
    OBVIOUS
  <2>6. g[k + 1] = next[k + 1][g[k]]
    BY <2>5
  <2> HIDE DEF g
  <2>7. ASSUME NEW n \in 1 .. k + 1
        PROVE  g[n] = next[n][g[n - 1]]
    <3>1. CASE n = k + 1
      BY <2>6, <3>1
    <3>2. CASE n \in 1 .. k
      <4>1. g[n] = f[n] /\ g[n - 1] = f[n - 1]
        BY <2>5, <3>2
      <4>2. QED
        BY <2>1, <3>2, <4>1
    <3>3. QED
      BY <3>1, <3>2
  <2>8. g[0] = first
    BY <2>1, <2>5
  <2>9. QED
    BY <2>4, <2>7, <2>8
<1> HIDE DEF UpTo
<1>3. 0 \in S /\ \A k \in Nat : k \in S => k + 1 \in S
  <2>1. \A k \in Nat : k + 1 <= m => k <= m
    OBVIOUS
  <2>2. QED
    BY <1>1, <1>2, <2>1
<1>4. m \in S
  BY <1>3, Induction
<1>5. QED
  BY <1>4 DEF UpTo

Stays(h, m, V) == \A n \in 1 .. m : h[n - 1] \in V => h[n] \in V

(* A function whose first value is in V, and every one that follows such a  *)
(* value, has all its values in V.                                          *)
LEMMA RecursionTyped ==
  ASSUME NEW V, NEW m \in Nat, NEW h, h = [n \in 0 .. m |-> h[n]],
         h[0] \in V, Stays(h, m, V)
  PROVE  h \in [0 .. m -> V]
<1> USE DEF Stays
<1> DEFINE S == {k \in Nat : k <= m => h[k] \in V}
<1>1. ASSUME NEW k \in Nat, k + 1 <= m, h[k] \in V
      PROVE  h[k + 1] \in V
  <2>1. PICK n \in 1 .. m : n = k + 1
    BY <1>1
  <2>2. n - 1 = k
    BY <2>1
  <2>3. QED
    BY <1>1, <2>1, <2>2
<1>2. \A k \in Nat : k + 1 <= m => k <= m
  OBVIOUS
<1>3. 0 \in S /\ \A k \in Nat : k \in S => k + 1 \in S
  BY <1>1, <1>2
<1>4. Nat \subseteq S
  BY <1>3, Induction
<1>5. \A k \in 0 .. m : h[k] \in V
  BY <1>4
<1>6. QED
  BY <1>5

(* Each field ends its width behind the one before.                         *)
LEMMA EndsDefined ==
  ASSUME NEW s, Len(s) \in Nat, \A i \in 1 .. Len(s) : s[i][2] \in Nat
  PROVE  /\ Ends(s) \in [0 .. Len(s) -> Nat]
         /\ Ends(s)[0] = 0
         /\ \A i \in 1 .. Len(s) : Ends(s)[i] = Ends(s)[i - 1] + s[i][2]
<1> DEFINE Body(f) == [i \in 0 .. Len(s) |->
                         IF i = 0 THEN 0 ELSE f[i - 1] + s[i][2]]
           next == [i \in 1 .. Len(s) |-> [v \in Nat |-> v + s[i][2]]]
<1>0. PICK m \in Nat : m = Len(s)
  OBVIOUS
<1>1. \A i \in 1 .. m : s[i][2] \in Nat
  BY <1>0
<1>2. \A i \in 1 .. m, v \in Nat :
        next[i][v] = v + s[i][2] /\ next[i][v] \in Nat
  BY <1>0, <1>1
<1> HIDE DEF next
<1>3. PICK f \in [0 .. m -> Nat] :
        f[0] = 0 /\ \A i \in 1 .. m : f[i] = next[i][f[i - 1]]
  <2>1. Steps(next, m, Nat)
    BY <1>2 DEF Steps
  <2>2. PICK f \in [0 .. m -> Nat] : Follows(f, 0, next, m)
    BY <2>1, Recursion
  <2>3. QED
    BY <2>2 DEF Follows
<1>4. \A i \in 0 .. m : f[i] = IF i = 0 THEN 0 ELSE f[i - 1] + s[i][2]
  <2>1. \A i \in 1 .. m : f[i - 1] \in Nat
    OBVIOUS
  <2>2. \A i \in 0 .. m : i = 0 \/ i \in 1 .. m
    OBVIOUS
  <2>3. \A i \in 1 .. m : i # 0
    OBVIOUS
  <2>4. QED
    BY <1>2, <1>3, <2>1, <2>2, <2>3, Zenon
<1>5. f = Body(f)
  BY <1>0, <1>4
<1>6. Ends(s) = Body(Ends(s))
  BY <1>5, Zenon DEF Ends
<1> DEFINE h == Ends(s)
<1> HIDE DEF h
<1>7. h = [i \in 0 .. m |-> IF i = 0 THEN 0 ELSE h[i - 1] + s[i][2]]
  BY <1>0, <1>6 DEF h
<1>8. /\ h[0] = 0
      /\ \A i \in 1 .. m : h[i] = h[i - 1] + s[i][2]
      /\ h = [i \in 0 .. m |-> h[i]]
  <2>1. 0 \in 0 .. m /\ \A i \in 1 .. m : i \in 0 .. m /\ i # 0
    OBVIOUS
  <2>2. QED
    BY <1>7, <2>1, Zenon
<1>9. ASSUME NEW i \in 1 .. m, h[i - 1] \in Nat PROVE h[i] \in Nat
  <2>1. h[i] = h[i - 1] + s[i][2]
    BY <1>8
  <2>2. s[i][2] \in Nat
    BY <1>1
  <2>3. QED
    BY <1>9, <2>1, <2>2
<1>10. h \in [0 .. m -> Nat]
  <2>1. h[0] \in Nat
    BY <1>8
  <2>2. h = [i \in 0 .. m |-> h[i]]
    BY <1>8
  <2>3. Stays(h, m, Nat)
    BY <1>9, Zenon DEF Stays
  <2>4. QED
    BY <2>1, <2>2, <2>3, RecursionTyped
<1>11. QED
  BY <1>0, <1>8, <1>10 DEF h

(* Each suffix of the bytes is the number it stands for.                    *)
LEMMA LittleEndiansDefined ==
  ASSUME NEW b \in Seq(Nat)
  PROVE  /\ LittleEndians(b) \in [0 .. Len(b) -> Nat]
         /\ LittleEndians(b)[0] = 0
         /\ \A i \in 1 .. Len(b) :
              LittleEndians(b)[i]
                = b[Len(b) + 1 - i] + 256 * LittleEndians(b)[i - 1]
<1> DEFINE Byte(i) == b[Len(b) + 1 - i]
           Body(f) == [i \in 0 .. Len(b) |->
                         IF i = 0 THEN 0
                         ELSE b[Len(b) + 1 - i] + 256 * f[i - 1]]
           next == [i \in 1 .. Len(b) |-> [v \in Nat |-> Byte(i) + 256 * v]]
<1>0. PICK m \in Nat : m = Len(b)
  OBVIOUS
<1>1. \A i \in 1 .. m : Byte(i) \in Nat
  BY <1>0
<1> HIDE DEF Byte
<1>2. \A i \in 1 .. m, v \in Nat :
        next[i][v] = Byte(i) + 256 * v /\ next[i][v] \in Nat
  BY <1>0, <1>1
<1> HIDE DEF next
<1>3. PICK f \in [0 .. m -> Nat] :
        f[0] = 0 /\ \A i \in 1 .. m : f[i] = next[i][f[i - 1]]
  <2>1. Steps(next, m, Nat)
    BY <1>2 DEF Steps
  <2>2. PICK f \in [0 .. m -> Nat] : Follows(f, 0, next, m)
    BY <2>1, Recursion
  <2>3. QED
    BY <2>2 DEF Follows
<1>4. \A i \in 0 .. m :
        f[i] = IF i = 0 THEN 0 ELSE Byte(i) + 256 * f[i - 1]
  <2>1. \A i \in 1 .. m : f[i - 1] \in Nat
    OBVIOUS
  <2>2. \A i \in 0 .. m : i = 0 \/ i \in 1 .. m
    OBVIOUS
  <2>3. \A i \in 1 .. m : i # 0
    OBVIOUS
  <2>4. QED
    BY <1>2, <1>3, <2>1, <2>2, <2>3, Zenon
<1>5. f = Body(f)
  BY <1>0, <1>4 DEF Byte
<1>6. LittleEndians(b) = Body(LittleEndians(b))
  BY <1>5, Zenon DEF LittleEndians
<1> DEFINE h == LittleEndians(b)
<1> HIDE DEF h
<1>7. h = [i \in 0 .. m |-> IF i = 0 THEN 0 ELSE Byte(i) + 256 * h[i - 1]]
  BY <1>0, <1>6 DEF h, Byte
<1>8. /\ h[0] = 0
      /\ \A i \in 1 .. m : h[i] = Byte(i) + 256 * h[i - 1]
      /\ h = [i \in 0 .. m |-> h[i]]
  <2>1. 0 \in 0 .. m /\ \A i \in 1 .. m : i \in 0 .. m /\ i # 0
    OBVIOUS
  <2>2. QED
    BY <1>7, <2>1, Zenon
<1>9. ASSUME NEW i \in 1 .. m, h[i - 1] \in Nat PROVE h[i] \in Nat
  <2>1. h[i] = Byte(i) + 256 * h[i - 1]
    BY <1>8
  <2>2. Byte(i) \in Nat
    BY <1>1
  <2>3. QED
    BY <1>9, <2>1, <2>2
<1>10. h \in [0 .. m -> Nat]
  <2>1. h[0] \in Nat
    BY <1>8
  <2>2. h = [i \in 0 .. m |-> h[i]]
    BY <1>8
  <2>3. Stays(h, m, Nat)
    BY <1>9, Zenon DEF Stays
  <2>4. QED
    BY <2>1, <2>2, <2>3, RecursionTyped
<1>11. QED
  BY <1>0, <1>8, <1>10 DEF h, Byte

(* Bytes put together are a natural number.                                 *)
LEMMA LittleEndianIsNat ==
  ASSUME NEW b \in Seq(Nat)
  PROVE  LittleEndian(b) \in Nat
<1>1. PICK m \in Nat : m = Len(b)
  OBVIOUS
<1>2. LittleEndians(b) \in [0 .. m -> Nat]
  BY <1>1, LittleEndiansDefined
<1>3. LittleEndians(b)[m] \in Nat
  BY <1>2
<1>4. QED
  BY <1>1, <1>3 DEF LittleEndian

(* One byte is the number itself.                                           *)
LEMMA LittleEndianOfOne ==
  ASSUME NEW b \in Seq(Nat), Len(b) = 1
  PROVE  LittleEndian(b) = b[1]
<1> DEFINE h == LittleEndians(b)
<1>1. h[0] = 0 /\ h[1] = b[Len(b) + 1 - 1] + 256 * h[1 - 1]
  <2>1. 1 \in 1 .. Len(b)
    OBVIOUS
  <2>2. QED
    BY <2>1, LittleEndiansDefined
<1> HIDE DEF h
<1>2. b \in [1 .. 1 -> Nat]
  OBVIOUS
<1>3. b[1] \in Nat
  BY <1>2
<1>4. h[1] = b[1] + 256 * h[0]
  BY <1>1
<1>5. h[1] = b[1]
  BY <1>1, <1>3, <1>4
<1>6. QED
  BY <1>5 DEF LittleEndian, h

(* Two bytes are a number of 16 bits.                                       *)
LEMMA LittleEndianOfTwo ==
  ASSUME NEW b \in Seq(Nat), Len(b) = 2
  PROVE  LittleEndian(b) = b[1] + 256 * b[2]
<1> DEFINE h == LittleEndians(b)
<1>1. /\ h[0] = 0
      /\ h[1] = b[Len(b) + 1 - 1] + 256 * h[1 - 1]
      /\ h[2] = b[Len(b) + 1 - 2] + 256 * h[2 - 1]
  <2>1. 1 \in 1 .. Len(b) /\ 2 \in 1 .. Len(b)
    OBVIOUS
  <2>2. QED
    BY <2>1, LittleEndiansDefined
<1> HIDE DEF h
<1>2. b \in [1 .. 2 -> Nat]
  OBVIOUS
<1>3. b[1] \in Nat /\ b[2] \in Nat
  BY <1>2
<1>4. h[1] = b[2] + 256 * h[0] /\ h[2] = b[1] + 256 * h[1]
  BY <1>1
<1>5. h[1] = b[2]
  BY <1>1, <1>3, <1>4
<1>6. QED
  BY <1>4, <1>5 DEF LittleEndian, h

-----------------------------------------------------------------------------
(* Sequences put together                                                   *)

(* What a concatenation holds, and where.                                   *)
LEMMA Concatenated ==
  ASSUME NEW V, NEW s \in Seq(V), NEW t \in Seq(V)
  PROVE  /\ s \o t \in Seq(V)
         /\ Len(s \o t) = Len(s) + Len(t)
         /\ \A i \in 1 .. Len(s) : (s \o t)[i] = s[i]
         /\ \A j \in 1 .. Len(t) : (s \o t)[Len(s) + j] = t[j]
  OBVIOUS

\* e tells where each of the parts ends.
EndsOf(e, parts) ==
  /\ e[0] = 0
  /\ \A i \in 1 .. Len(parts) :
       e[i] \in Nat /\ e[i] = e[i - 1] + Len(parts[i])

\* whole is the parts, each behind the one before.
PutTogether(whole, e, parts) ==
  /\ Len(whole) = e[Len(parts)]
  /\ \A i \in 1 .. Len(parts) :
       /\ e[i] <= e[Len(parts)]
       /\ \A j \in 1 .. Len(parts[i]) : whole[e[i - 1] + j] = parts[i][j]

(* What a sequence of parts holds once it is flattened, and where.          *)
LEMMA Flattened ==
  ASSUME NEW V, NEW parts \in Seq(Seq(V)), NEW e, EndsOf(e, parts)
  PROVE  /\ FlattenSeq(parts) \in Seq(V)
         /\ PutTogether(FlattenSeq(parts), e, parts)
<1> USE DEF PutTogether
<1>0. PICK m \in Nat : m = Len(parts)
  OBVIOUS
<1> DEFINE next == [i \in 1 .. m |-> [s \in Seq(V) |-> s \o parts[i]]]
           Body(f) == [i \in 1 .. Len(parts) |->
                         IF i = 1 THEN parts[i] ELSE f[i - 1] \o parts[i]]
<1>1. \A i \in 1 .. m : parts[i] \in Seq(V)
  BY <1>0
<1>2. CASE m = 0
  <2>1. FlattenSeq(parts) = parts
    BY <1>0, <1>2 DEF FlattenSeq
  <2>2. parts = <<>>
    BY <1>0, <1>2, EmptySeq
  <2>3. QED
    BY <1>0, <1>2, <2>1, <2>2 DEF EndsOf
<1>3. CASE m > 0
  <2>1. \A i \in 1 .. m, s \in Seq(V) :
          next[i][s] = s \o parts[i] /\ next[i][s] \in Seq(V)
    BY <1>1
  <2> HIDE DEF next
  <2>2. PICK f \in [0 .. m -> Seq(V)] : Follows(f, <<>>, next, m)
    <3>1. Steps(next, m, Seq(V))
      BY <2>1 DEF Steps
    <3>2. <<>> \in Seq(V)
      OBVIOUS
    <3>3. QED
      BY <3>1, <3>2, Recursion
  <2> DEFINE g == [i \in 1 .. m |-> f[i]]
  <2>3. g = Body(g)
    <3>1. \A i \in 1 .. m :
            f[i] = IF i = 1 THEN parts[i] ELSE g[i - 1] \o parts[i]
      <4> TAKE i \in 1 .. m
      <4>1. f[i - 1] \in Seq(V)
        OBVIOUS
      <4>2. f[i] = f[i - 1] \o parts[i]
        BY <2>1, <2>2, <4>1 DEF Follows
      <4>3. CASE i = 1
        <5>1. f[0] = <<>> /\ parts[1] \in Seq(V)
          BY <1>1, <2>2, <4>3 DEF Follows
        <5>2. <<>> \o parts[1] = parts[1]
          BY <5>1
        <5>3. i - 1 = 0
          BY <4>3
        <5>4. QED
          BY <4>2, <4>3, <5>1, <5>2, <5>3
      <4>4. CASE i # 1
        <5>1. i - 1 \in 1 .. m
          BY <4>4
        <5>2. QED
          BY <4>2, <4>4, <5>1
      <4>5. QED
        BY <4>3, <4>4
    <3>2. QED
      BY <1>0, <3>1
  <2> DEFINE h == CHOOSE w : w = Body(w)
  <2>4. FlattenSeq(parts) = h[m]
    BY <1>0, <1>3 DEF FlattenSeq
  <2>5. h = Body(h)
    BY <2>3, Zenon
  <2> HIDE DEF g, h
  <2>6. /\ h[1] = parts[1]
        /\ \A i \in 1 .. m : i # 1 => h[i] = h[i - 1] \o parts[i]
    <3>1. 1 \in 1 .. m
      BY <1>3
    <3>2. h = [i \in 1 .. m |->
                 IF i = 1 THEN parts[i] ELSE h[i - 1] \o parts[i]]
      BY <1>0, <2>5, Zenon
    <3>3. QED
      BY <3>1, <3>2, Zenon
  <2> HIDE DEF Body
  <2> DEFINE Lies(k) ==
        /\ h[k] \in Seq(V)
        /\ Len(h[k]) = e[k]
        /\ \A i \in 1 .. k :
             /\ e[i] <= e[k]
             /\ \A j \in 1 .. Len(parts[i]) :
                  h[k][e[i - 1] + j] = parts[i][j]
             S == {k \in Nat : k + 1 <= m => Lies(k + 1)}
  <2>7. /\ e[0] = 0
        /\ \A i \in 1 .. m : /\ e[i] \in Nat /\ e[i - 1] \in Nat
                             /\ e[i] = e[i - 1] + Len(parts[i])
    <3>1. \A i \in 1 .. m : i - 1 = 0 \/ i - 1 \in 1 .. m
      OBVIOUS
    <3>2. QED
      BY <1>0, <3>1 DEF EndsOf
  <2>8. Lies(1)
    <3>1. 1 \in 1 .. m
      BY <1>3
    <3>2. h[1] = parts[1] /\ parts[1] \in Seq(V)
      BY <1>1, <2>6, <3>1
    <3>3. e[1] = Len(parts[1])
      BY <2>7, <3>1, <3>2
    <3>4. \A j \in 1 .. Len(parts[1]) : e[0] + j = j
      BY <2>7, <3>2
    <3>5. \A j \in 1 .. Len(parts[1]) : h[1][e[0] + j] = parts[1][j]
      BY <3>2, <3>4, Zenon
    <3>6. e[1] <= e[1] /\ 1 - 1 = 0
      BY <2>7, <3>1
    <3>7. \A i \in 1 .. 1 : i = 1
      OBVIOUS
    <3>8. QED
      BY <3>2, <3>3, <3>5, <3>6, <3>7
  <2>9. ASSUME NEW k \in 1 .. m, k + 1 <= m, Lies(k) PROVE Lies(k + 1)
    <3>1. PICK n \in 1 .. m : n = k + 1
      BY <2>9
    <3>2. n # 1 /\ n - 1 = k
      BY <3>1
    <3>3. h[n] = h[k] \o parts[n] /\ e[n] = e[k] + Len(parts[n])
      BY <2>6, <2>7, <3>2
    <3>4. h[k] \in Seq(V) /\ parts[n] \in Seq(V)
          /\ e[k] \in Nat /\ Len(h[k]) = e[k] /\ Len(parts[n]) \in Nat
      BY <1>1, <2>7, <2>9
    <3>5. /\ h[n] \in Seq(V)
          /\ Len(h[n]) = e[n]
          /\ \A i \in 1 .. e[k] : h[n][i] = h[k][i]
          /\ \A j \in 1 .. Len(parts[n]) : h[n][e[k] + j] = parts[n][j]
      <4>1. PICK s \in Seq(V), t \in Seq(V) : s = h[k] /\ t = parts[n]
        BY <3>4
      <4>2. h[n] = s \o t /\ Len(s) = e[k] /\ Len(t) = Len(parts[n])
        BY <3>3, <3>4, <4>1
      <4>3. /\ s \o t \in Seq(V)
            /\ Len(s \o t) = Len(s) + Len(t)
            /\ \A i \in 1 .. Len(s) : (s \o t)[i] = s[i]
            /\ \A j \in 1 .. Len(t) : (s \o t)[Len(s) + j] = t[j]
        BY Concatenated
      <4>4. Len(h[n]) = e[n]
        BY <3>3, <4>2, <4>3, Zenon
      <4>5. \A i \in 1 .. e[k] : h[n][i] = h[k][i]
        BY <4>1, <4>2, <4>3, Zenon
      <4>6. \A j \in 1 .. Len(parts[n]) : h[n][e[k] + j] = parts[n][j]
        BY <4>1, <4>2, <4>3, Zenon
      <4>7. QED
        BY <4>2, <4>3, <4>4, <4>5, <4>6, Zenon
    <3>6. e[k] <= e[n] /\ e[n] <= e[n]
      BY <3>3, <3>4
    <3>7. ASSUME NEW i \in 1 .. n
          PROVE  /\ e[i] <= e[n]
                 /\ \A j \in 1 .. Len(parts[i]) :
                      h[n][e[i - 1] + j] = parts[i][j]
      <4>1. CASE i = n
        BY <3>2, <3>5, <3>6, <4>1
      <4>2. CASE i \in 1 .. k
        <5>1. /\ e[i] <= e[k] /\ e[i] \in Nat /\ e[i - 1] \in Nat
              /\ e[i] = e[i - 1] + Len(parts[i])
          BY <2>7, <2>9, <4>2
        <5>2. ASSUME NEW j \in 1 .. Len(parts[i])
              PROVE  h[n][e[i - 1] + j] = parts[i][j]
          <6>1. Len(parts[i]) \in Nat
            BY <1>1
          <6>2. e[i - 1] + j \in 1 .. e[k]
            <7>1. \A a, b, c, l \in Nat : \A x \in 1 .. l :
                    b = a + l /\ b <= c => a + x \in 1 .. c
              OBVIOUS
            <7>2. QED
              BY <3>4, <5>1, <6>1, <7>1, Zenon
          <6>3. h[n][e[i - 1] + j] = h[k][e[i - 1] + j]
            BY <3>5, <6>2
          <6>4. h[k][e[i - 1] + j] = parts[i][j]
            BY <2>9, <4>2
          <6>5. QED
            BY <6>3, <6>4
        <5>3. e[i] <= e[n]
          <6>1. \A a, b, c \in Nat : a <= b /\ b <= c => a <= c
            OBVIOUS
          <6>2. e[n] \in Nat
            BY <2>7
          <6>3. QED
            BY <3>4, <3>6, <5>1, <6>1, <6>2, Zenon
        <5>4. QED
          BY <5>2, <5>3
      <4>3. i = n \/ i \in 1 .. k
        BY <3>1
      <4>4. QED
        BY <4>1, <4>2, <4>3
    <3>8. Lies(n)
      BY <3>5, <3>7
    <3>9. QED
      BY <3>1, <3>8
  <2> HIDE DEF Lies
  <2>10. 0 \in S /\ \A k \in Nat : k \in S => k + 1 \in S
    <3>1. 0 + 1 = 1
      OBVIOUS
    <3>2. ASSUME NEW k \in Nat, k + 1 <= m => Lies(k + 1), k + 1 + 1 <= m
          PROVE  Lies(k + 1 + 1)
      <4>1. k + 1 \in 1 .. m
        BY <3>2
      <4>2. QED
        BY <2>9, <3>2, <4>1
    <3>3. QED
      BY <2>8, <3>1, <3>2
  <2>11. Lies(m)
    <3>1. PICK k \in Nat : k + 1 = m
      <4>1. m - 1 \in Nat /\ m - 1 + 1 = m
        BY <1>3
      <4>2. QED
        BY <4>1
    <3>2. Nat \subseteq S
      BY <2>10, Induction
    <3>3. k + 1 <= m
      BY <3>1
    <3>4. QED
      BY <3>1, <3>2, <3>3
  <2>12. QED
    BY <1>0, <2>4, <2>11 DEF Lies
<1>4. QED
  BY <1>2, <1>3

-----------------------------------------------------------------------------
(* The fields of a structure                                                *)

IsStructure(s) ==
  /\ Len(s) \in Nat /\ DOMAIN s = 1 .. Len(s)
  /\ \A i \in 1 .. Len(s) : s[i][2] \in Nat

\* Each field ends its width behind the one before, and there are m.
Unfolds(e, s, m) ==
  /\ Len(s) = m /\ DOMAIN s = 1 .. m
  /\ \A i \in 1 .. m : s[i][2] \in Nat
  /\ e[0] = 0
  /\ \A i \in 1 .. m : e[i] = e[i - 1] + s[i][2]

(* Ends is what its recursive function says.                                *)
LEMMA EndsUnfold ==
  ASSUME NEW s, NEW m \in Nat, Len(s) = m, DOMAIN s = 1 .. m,
         \A i \in 1 .. m : s[i][2] \in Nat
  PROVE  Unfolds(Ends(s), s, m)
  BY EndsDefined, Zenon DEF Unfolds

\* The field of this name, and no other, is the k-th and lies at this offset.
Placed(s, name, k, offset, width) ==
  /\ k \in 1 .. Len(s)
  /\ \A i \in 1 .. Len(s) : s[i][1] = name <=> i = k
  /\ Ends(s)[k - 1] = offset
  /\ s[k][2] = width

(* A field that is placed has that offset and width.                        *)
LEMMA FieldIsPlaced ==
  ASSUME NEW s, IsStructure(s), NEW name, NEW k, NEW offset, NEW width,
         Placed(s, name, k, offset, width)
  PROVE  OffsetOf(s, name) = offset /\ WidthOf(s, name) = width
<1>1. FieldOf(s, name) = k
  BY Zenon DEF FieldOf, IsStructure, Placed
<1>2. QED
  BY <1>1, Zenon DEF OffsetOf, WidthOf, Placed

(* What the writer stored is found where the structure has its fields.      *)
LEMMA StoredFields ==
  ASSUME NEW s, IsStructure(s), NEW fields, Fits(s, fields)
  PROVE  /\ Stored(s, fields) \in Seq(0 .. 255)
         /\ Len(Stored(s, fields)) = SizeOf(s)
         /\ \A k \in 1 .. Len(s) :
              /\ Ends(s)[k] <= SizeOf(s)
              /\ s[k][1] \in DOMAIN fields =>
                   \A j \in 1 .. s[k][2] :
                     Stored(s, fields)[Ends(s)[k - 1] + j]
                       = fields[s[k][1]][j]
<1> DEFINE Part(i) == IF s[i][1] \in DOMAIN fields THEN fields[s[i][1]]
                      ELSE [b \in 1 .. s[i][2] |-> Filler]
           parts == [i \in DOMAIN s |-> Part(i)]
           V == 0 .. 255
<1>1. PICK m \in Nat : m = Len(s) /\ DOMAIN s = 1 .. m
  BY DEF IsStructure
<1>2. ASSUME NEW i \in 1 .. m
      PROVE  Part(i) \in Seq(V) /\ Len(Part(i)) = s[i][2]
  <2>1. CASE s[i][1] \in DOMAIN fields
    BY <1>1, <2>1 DEF Fits
  <2>2. CASE s[i][1] \notin DOMAIN fields
    <3>1. PICK n \in Nat : n = s[i][2]
      BY <1>1 DEF IsStructure
    <3>2. Part(i) = [b \in 1 .. n |-> Filler] /\ Filler \in V
      BY <2>2, <3>1 DEF Filler
    <3>3. \A W : \A g \in [1 .. n -> W] : g \in Seq(W) /\ Len(g) = n
      OBVIOUS
    <3>4. [b \in 1 .. n |-> Filler] \in [1 .. n -> V]
      BY <3>2
    <3>5. Part(i) \in [1 .. n -> V]
      BY <3>2, <3>4, Zenon
    <3> HIDE DEF Part, V
    <3>6. Part(i) \in Seq(V) /\ Len(Part(i)) = n
      BY <3>3, <3>5, Zenon
    <3>7. QED
      BY <3>1, <3>6
  <2>3. QED
    BY <2>1, <2>2
<1>3. Stored(s, fields) = FlattenSeq(parts)
  BY DEF Stored
<1>4. \A i \in 1 .. m : parts[i] = Part(i)
  BY <1>1
<1>5. parts = [i \in 1 .. m |-> Part(i)]
  BY <1>1
<1> HIDE DEF Part
<1>6. parts \in Seq(Seq(V)) /\ Len(parts) = m
  BY <1>2, <1>5
<1>7. EndsOf(Ends(s), parts)
  <2>1. /\ Ends(s) \in [0 .. m -> Nat]
        /\ Ends(s)[0] = 0
        /\ \A i \in 1 .. m : Ends(s)[i] = Ends(s)[i - 1] + s[i][2]
    BY <1>1, EndsDefined DEF IsStructure
  <2>2. ASSUME NEW i \in 1 .. m
        PROVE  /\ Ends(s)[i] \in Nat
               /\ Ends(s)[i] = Ends(s)[i - 1] + Len(parts[i])
    <3>1. Ends(s)[i] \in Nat
      BY <2>1
    <3>2. Len(parts[i]) = s[i][2]
      BY <1>2, <1>4, Zenon
    <3>3. QED
      BY <2>1, <3>1, <3>2, Zenon
  <2>3. QED
    BY <1>6, <2>1, <2>2, Zenon DEF EndsOf
<1> HIDE DEF parts, V
<1>8. /\ FlattenSeq(parts) \in Seq(V)
      /\ Len(FlattenSeq(parts)) = Ends(s)[m]
      /\ \A i \in 1 .. m :
           /\ Ends(s)[i] <= Ends(s)[m]
           /\ \A j \in 1 .. Len(parts[i]) :
                FlattenSeq(parts)[Ends(s)[i - 1] + j] = parts[i][j]
  <2>1. /\ FlattenSeq(parts) \in Seq(V)
        /\ PutTogether(FlattenSeq(parts), Ends(s), parts)
    BY <1>6, <1>7, Flattened
  <2>2. QED
    BY <1>6, <2>1, Zenon DEF PutTogether
<1>9. SizeOf(s) = Ends(s)[m]
  BY <1>1 DEF SizeOf
<1>10. ASSUME NEW k \in 1 .. m, s[k][1] \in DOMAIN fields,
              NEW j \in 1 .. s[k][2]
       PROVE  Stored(s, fields)[Ends(s)[k - 1] + j] = fields[s[k][1]][j]
  <2>1. Len(parts[k]) = s[k][2]
    BY <1>2, <1>4
  <2>2. parts[k] = fields[s[k][1]]
    BY <1>4, <1>10 DEF Part
  <2>3. QED
    BY <1>3, <1>8, <2>1, <2>2, Zenon
<1>11. QED
  BY <1>1, <1>3, <1>8, <1>9, <1>10, Zenon DEF V

(* A field is read back, in whatever structure it was written, when the     *)
(* structure the data is cast to has it in the same place.                  *)
LEMMA FieldRead ==
  ASSUME NEW w, IsStructure(w), NEW fields, Fits(w, fields),
         NEW c, IsStructure(c), NEW name, name \in DOMAIN fields,
         NEW k, NEW l, NEW offset, NEW width,
         Placed(w, name, k, offset, width), Placed(c, name, l, offset, width)
  PROVE  FieldBytes(c, Stored(w, fields), name) = fields[name]
<1>1. /\ k \in 1 .. Len(w)
      /\ w[k][1] = name /\ Ends(w)[k - 1] = offset /\ w[k][2] = width
  BY DEF Placed
<1>2. PICK o \in Nat, n \in Nat : o = offset /\ n = width
  <2>1. Ends(w) \in [0 .. Len(w) -> Nat] /\ width \in Nat
    BY <1>1, EndsDefined DEF IsStructure
  <2>2. k - 1 \in 0 .. Len(w)
    BY <1>1 DEF IsStructure
  <2>3. offset \in Nat
    BY <1>1, <2>1, <2>2
  <2>4. QED
    BY <2>1, <2>3
<1>3. FieldBytes(c, Stored(w, fields), name)
        = SubSeq(Stored(w, fields), o + 1, o + n)
  BY <1>2, FieldIsPlaced, Zenon DEF FieldBytes
<1>4. PICK f \in Seq(0 .. 255) : f = fields[name] /\ Len(f) = n
  <2>1. k \in DOMAIN w
    BY <1>1 DEF IsStructure
  <2>2. QED
    BY <1>1, <1>2, <2>1, Zenon DEF Fits
<1>5. PICK d \in Seq(0 .. 255) : d = Stored(w, fields)
  BY StoredFields
<1>6. o + n <= Len(d)
  <2>1. Ends(w)[k] = Ends(w)[k - 1] + w[k][2]
    BY <1>1, EndsDefined DEF IsStructure
  <2>2. Ends(w)[k] <= Len(d)
    BY <1>1, <1>5, StoredFields
  <2>3. QED
    BY <1>1, <1>2, <2>1, <2>2
<1>7. \A j \in 1 .. n : d[o + j] = f[j]
  <2>1. \A j \in 1 .. w[k][2] :
          Stored(w, fields)[Ends(w)[k - 1] + j] = fields[w[k][1]][j]
    BY <1>1, StoredFields
  <2>2. QED
    BY <1>1, <1>2, <1>4, <1>5, <2>1, Zenon
<1>8. SubSeq(d, o + 1, o + n) = [j \in 1 .. n |-> d[o + j]]
  BY <1>6
<1>9. f = [j \in 1 .. n |-> f[j]]
  BY <1>4
<1>10. SubSeq(d, o + 1, o + n) = f
  BY <1>7, <1>8, <1>9, Zenon
<1>11. QED
  BY <1>3, <1>4, <1>5, <1>10
(* A field the writer gave has the bytes its place is for.                  *)
LEMMA FieldFits ==
  ASSUME NEW w, IsStructure(w), NEW fields, Fits(w, fields),
         NEW name, name \in DOMAIN fields, NEW k, NEW offset, NEW width,
         Placed(w, name, k, offset, width)
  PROVE  fields[name] \in Seq(0 .. 255) /\ Len(fields[name]) = width
<1>1. k \in DOMAIN w /\ w[k][1] = name /\ w[k][2] = width
  BY DEF Placed, IsStructure
<1>2. QED
  BY <1>1, Zenon DEF Fits

(* Where the fields that are read are in this structure.                    *)
LEMMA VolumeInformation56Layout ==
  /\ IsStructure(VolumeInformation56)
  /\ SizeOf(VolumeInformation56) = 56
  /\ Placed(VolumeInformation56, "number_of_files", 3, 8, 4)
  /\ Placed(VolumeInformation56, "creation_time", 6, 24, 8)
  /\ Placed(VolumeInformation56, "serial_number", 7, 32, 4)
  /\ Placed(VolumeInformation56, "device_path_number_of_characters",
            10, 44, 2)
<1> DEFINE s == VolumeInformation56
           e == Ends(s)
<1>1. Unfolds(e, s, 12)
  <2>1. /\ Len(s) = 12 /\ DOMAIN s = 1 .. 12
        /\ \A i \in 1 .. 12 : s[i][2] \in Nat
    BY DEF VolumeInformation56
  <2> HIDE DEF s
  <2>2. QED
    BY <2>1, EndsUnfold
<1> HIDE DEF e
<1>2. e[2] = 8 /\ e[5] = 24 /\ e[6] = 32 /\ e[9] = 44 /\ e[12] = 56
  BY <1>1 DEF Unfolds, VolumeInformation56
<1>3. /\ s[3][2] = 4 /\ \A i \in 1 .. 12 : s[i][1] = "number_of_files" <=> i = 3
      /\ s[6][2] = 8 /\ \A i \in 1 .. 12 : s[i][1] = "creation_time" <=> i = 6
      /\ s[7][2] = 4 /\ \A i \in 1 .. 12 : s[i][1] = "serial_number" <=> i = 7
      /\ s[10][2] = 2 /\ \A i \in 1 .. 12 :
           s[i][1] = "device_path_number_of_characters" <=> i = 10
  BY DEF VolumeInformation56
<1> HIDE DEF s
<1>4. QED
  BY <1>1, <1>2, <1>3 DEF s, e, Unfolds, IsStructure, SizeOf, Placed

(* Where the fields that are read are in this structure.                    *)
LEMMA VolumeInformation72Layout ==
  /\ IsStructure(VolumeInformation72)
  /\ SizeOf(VolumeInformation72) = 72
  /\ Placed(VolumeInformation72, "number_of_files", 3, 16, 4)
  /\ Placed(VolumeInformation72, "creation_time", 6, 32, 8)
  /\ Placed(VolumeInformation72, "serial_number", 7, 40, 4)
  /\ Placed(VolumeInformation72, "device_path_number_of_characters",
            10, 56, 2)
<1> DEFINE s == VolumeInformation72
           e == Ends(s)
<1>1. Unfolds(e, s, 13)
  <2>1. /\ Len(s) = 13 /\ DOMAIN s = 1 .. 13
        /\ \A i \in 1 .. 13 : s[i][2] \in Nat
    BY DEF VolumeInformation72
  <2> HIDE DEF s
  <2>2. QED
    BY <2>1, EndsUnfold
<1> HIDE DEF e
<1>2. e[2] = 16 /\ e[5] = 32 /\ e[6] = 40 /\ e[9] = 56 /\ e[13] = 72
  BY <1>1 DEF Unfolds, VolumeInformation72
<1>3. /\ s[3][2] = 4 /\ \A i \in 1 .. 13 : s[i][1] = "number_of_files" <=> i = 3
      /\ s[6][2] = 8 /\ \A i \in 1 .. 13 : s[i][1] = "creation_time" <=> i = 6
      /\ s[7][2] = 4 /\ \A i \in 1 .. 13 : s[i][1] = "serial_number" <=> i = 7
      /\ s[10][2] = 2 /\ \A i \in 1 .. 13 :
           s[i][1] = "device_path_number_of_characters" <=> i = 10
  BY DEF VolumeInformation72
<1> HIDE DEF s
<1>4. QED
  BY <1>1, <1>2, <1>3 DEF s, e, Unfolds, IsStructure, SizeOf, Placed

(* Where the fields that are read are in this structure.                    *)
LEMMA FileInformation36Layout ==
  /\ IsStructure(FileInformation36)
  /\ SizeOf(FileInformation36) = 36
  /\ Placed(FileInformation36, "number_of_entries", 3, 8, 4)
  /\ Placed(FileInformation36, "path_number_of_characters", 8, 28, 4)
<1> DEFINE s == FileInformation36
           e == Ends(s)
<1>1. Unfolds(e, s, 9)
  <2>1. /\ Len(s) = 9 /\ DOMAIN s = 1 .. 9
        /\ \A i \in 1 .. 9 : s[i][2] \in Nat
    BY DEF FileInformation36
  <2> HIDE DEF s
  <2>2. QED
    BY <2>1, EndsUnfold
<1> HIDE DEF e
<1>2. e[2] = 8 /\ e[7] = 28 /\ e[9] = 36
  BY <1>1 DEF Unfolds, FileInformation36
<1>3. /\ s[3][2] = 4 /\ \A i \in 1 .. 9 : s[i][1] = "number_of_entries" <=> i = 3
      /\ s[8][2] = 4 /\ \A i \in 1 .. 9 :
           s[i][1] = "path_number_of_characters" <=> i = 8
  BY DEF FileInformation36
<1> HIDE DEF s
<1>4. QED
  BY <1>1, <1>2, <1>3 DEF s, e, Unfolds, IsStructure, SizeOf, Placed

(* Where the fields that are read are in this structure.                    *)
LEMMA FileInformation52Layout ==
  /\ IsStructure(FileInformation52)
  /\ SizeOf(FileInformation52) = 52
  /\ Placed(FileInformation52, "number_of_entries", 3, 8, 4)
  /\ Placed(FileInformation52, "path_number_of_characters", 10, 28, 4)
<1> DEFINE s == FileInformation52
           e == Ends(s)
<1>1. Unfolds(e, s, 17)
  <2>1. /\ Len(s) = 17 /\ DOMAIN s = 1 .. 17
        /\ \A i \in 1 .. 17 : s[i][2] \in Nat
    BY DEF FileInformation52
  <2> HIDE DEF s
  <2>2. QED
    BY <2>1, EndsUnfold
<1> HIDE DEF e
<1>2. e[2] = 8 /\ e[9] = 28 /\ e[17] = 52
  BY <1>1 DEF Unfolds, FileInformation52
<1>3. /\ s[3][2] = 4 /\ \A i \in 1 .. 17 : s[i][1] = "number_of_entries" <=> i = 3
      /\ s[10][2] = 4 /\ \A i \in 1 .. 17 :
           s[i][1] = "path_number_of_characters" <=> i = 10
  BY DEF FileInformation52
<1> HIDE DEF s
<1>4. QED
  BY <1>1, <1>2, <1>3 DEF s, e, Unfolds, IsStructure, SizeOf, Placed

(* Where the fields that are read are in this structure.                    *)
LEMMA FileInformation56Layout ==
  /\ IsStructure(FileInformation56)
  /\ SizeOf(FileInformation56) = 56
  /\ Placed(FileInformation56, "number_of_entries", 3, 8, 4)
  /\ Placed(FileInformation56, "path_number_of_characters", 8, 28, 4)
<1> DEFINE s == FileInformation56
           e == Ends(s)
<1>1. Unfolds(e, s, 12)
  <2>1. /\ Len(s) = 12 /\ DOMAIN s = 1 .. 12
        /\ \A i \in 1 .. 12 : s[i][2] \in Nat
    BY DEF FileInformation56
  <2> HIDE DEF s
  <2>2. QED
    BY <2>1, EndsUnfold
<1> HIDE DEF e
<1>2. e[2] = 8 /\ e[7] = 28 /\ e[12] = 56
  BY <1>1 DEF Unfolds, FileInformation56
<1>3. /\ s[3][2] = 4 /\ \A i \in 1 .. 12 : s[i][1] = "number_of_entries" <=> i = 3
      /\ s[8][2] = 4 /\ \A i \in 1 .. 12 :
           s[i][1] = "path_number_of_characters" <=> i = 8
  BY DEF FileInformation56
<1> HIDE DEF s
<1>4. QED
  BY <1>1, <1>2, <1>3 DEF s, e, Unfolds, IsStructure, SizeOf, Placed

(* Where the fields that are read are in this structure.                    *)
LEMMA FileInformation64Layout ==
  /\ IsStructure(FileInformation64)
  /\ SizeOf(FileInformation64) = 64
  /\ Placed(FileInformation64, "number_of_entries", 3, 16, 4)
  /\ Placed(FileInformation64, "path_number_of_characters", 9, 48, 4)
<1> DEFINE s == FileInformation64
           e == Ends(s)
<1>1. Unfolds(e, s, 11)
  <2>1. /\ Len(s) = 11 /\ DOMAIN s = 1 .. 11
        /\ \A i \in 1 .. 11 : s[i][2] \in Nat
    BY DEF FileInformation64
  <2> HIDE DEF s
  <2>2. QED
    BY <2>1, EndsUnfold
<1> HIDE DEF e
<1>2. e[2] = 16 /\ e[8] = 48 /\ e[11] = 64
  BY <1>1 DEF Unfolds, FileInformation64
<1>3. /\ s[3][2] = 4 /\ \A i \in 1 .. 11 : s[i][1] = "number_of_entries" <=> i = 3
      /\ s[9][2] = 4 /\ \A i \in 1 .. 11 :
           s[i][1] = "path_number_of_characters" <=> i = 9
  BY DEF FileInformation64
<1> HIDE DEF s
<1>4. QED
  BY <1>1, <1>2, <1>3 DEF s, e, Unfolds, IsStructure, SizeOf, Placed

(* Where the fields that are read are in this structure.                    *)
LEMMA FileInformation72Layout ==
  /\ IsStructure(FileInformation72)
  /\ SizeOf(FileInformation72) = 72
  /\ Placed(FileInformation72, "number_of_entries", 3, 8, 4)
  /\ Placed(FileInformation72, "path_number_of_characters", 8, 28, 4)
<1> DEFINE s == FileInformation72
           e == Ends(s)
<1>1. Unfolds(e, s, 18)
  <2>1. /\ Len(s) = 18 /\ DOMAIN s = 1 .. 18
        /\ \A i \in 1 .. 18 : s[i][2] \in Nat
    BY DEF FileInformation72
  <2> HIDE DEF s
  <2>2. QED
    BY <2>1, EndsUnfold
<1> HIDE DEF e
<1>2. e[2] = 8 /\ e[7] = 28 /\ e[18] = 72
  BY <1>1 DEF Unfolds, FileInformation72
<1>3. /\ s[3][2] = 4 /\ \A i \in 1 .. 18 : s[i][1] = "number_of_entries" <=> i = 3
      /\ s[8][2] = 4 /\ \A i \in 1 .. 18 :
           s[i][1] = "path_number_of_characters" <=> i = 8
  BY DEF FileInformation72
<1> HIDE DEF s
<1>4. QED
  BY <1>1, <1>2, <1>3 DEF s, e, Unfolds, IsStructure, SizeOf, Placed

(* Where the fields that are read are in this structure.                    *)
LEMMA FileInformation88Layout ==
  /\ IsStructure(FileInformation88)
  /\ SizeOf(FileInformation88) = 88
  /\ Placed(FileInformation88, "number_of_entries", 3, 16, 4)
  /\ Placed(FileInformation88, "path_number_of_characters", 10, 48, 4)
<1> DEFINE s == FileInformation88
           e == Ends(s)
<1>1. Unfolds(e, s, 18)
  <2>1. /\ Len(s) = 18 /\ DOMAIN s = 1 .. 18
        /\ \A i \in 1 .. 18 : s[i][2] \in Nat
    BY DEF FileInformation88
  <2> HIDE DEF s
  <2>2. QED
    BY <2>1, EndsUnfold
<1> HIDE DEF e
<1>2. e[2] = 16 /\ e[9] = 48 /\ e[18] = 88
  BY <1>1 DEF Unfolds, FileInformation88
<1>3. /\ s[3][2] = 4 /\ \A i \in 1 .. 18 : s[i][1] = "number_of_entries" <=> i = 3
      /\ s[10][2] = 4 /\ \A i \in 1 .. 18 :
           s[i][1] = "path_number_of_characters" <=> i = 10
  BY DEF FileInformation88
<1> HIDE DEF s
<1>4. QED
  BY <1>1, <1>2, <1>3 DEF s, e, Unfolds, IsStructure, SizeOf, Placed

(* Where the fields that are read are in this structure.                    *)
LEMMA FileInformation112Layout ==
  /\ IsStructure(FileInformation112)
  /\ SizeOf(FileInformation112) = 112
  /\ Placed(FileInformation112, "number_of_entries", 3, 16, 4)
  /\ Placed(FileInformation112, "path_number_of_characters", 8, 48, 4)
<1> DEFINE s == FileInformation112
           e == Ends(s)
<1>1. Unfolds(e, s, 17)
  <2>1. /\ Len(s) = 17 /\ DOMAIN s = 1 .. 17
        /\ \A i \in 1 .. 17 : s[i][2] \in Nat
    BY DEF FileInformation112
  <2> HIDE DEF s
  <2>2. QED
    BY <2>1, EndsUnfold
<1> HIDE DEF e
<1>2. e[2] = 16 /\ e[7] = 48 /\ e[17] = 112
  BY <1>1 DEF Unfolds, FileInformation112
<1>3. /\ s[3][2] = 4 /\ \A i \in 1 .. 17 : s[i][1] = "number_of_entries" <=> i = 3
      /\ s[8][2] = 4 /\ \A i \in 1 .. 17 :
           s[i][1] = "path_number_of_characters" <=> i = 8
  BY DEF FileInformation112
<1> HIDE DEF s
<1>4. QED
  BY <1>1, <1>2, <1>3 DEF s, e, Unfolds, IsStructure, SizeOf, Placed

(* Where the fields that are read are in this structure.                    *)
LEMMA SourceInformation60Layout ==
  /\ IsStructure(SourceInformation60)
  /\ SizeOf(SourceInformation60) = 60
  /\ Placed(SourceInformation60, "unknown3", 3, 8, 4)
<1> DEFINE s == SourceInformation60
           e == Ends(s)
<1>1. Unfolds(e, s, 11)
  <2>1. /\ Len(s) = 11 /\ DOMAIN s = 1 .. 11
        /\ \A i \in 1 .. 11 : s[i][2] \in Nat
    BY DEF SourceInformation60
  <2> HIDE DEF s
  <2>2. QED
    BY <2>1, EndsUnfold
<1> HIDE DEF e
<1>2. e[2] = 8 /\ e[11] = 60
  BY <1>1 DEF Unfolds, SourceInformation60
<1>3. /\ s[3][2] = 4 /\ \A i \in 1 .. 11 : s[i][1] = "unknown3" <=> i = 3
  BY DEF SourceInformation60
<1> HIDE DEF s
<1>4. QED
  BY <1>1, <1>2, <1>3 DEF s, e, Unfolds, IsStructure, SizeOf, Placed

(* Where the fields that are read are in this structure.                    *)
LEMMA SourceInformation88Layout ==
  /\ IsStructure(SourceInformation88)
  /\ SizeOf(SourceInformation88) = 88
  /\ Placed(SourceInformation88, "unknown3", 3, 16, 4)
<1> DEFINE s == SourceInformation88
           e == Ends(s)
<1>1. Unfolds(e, s, 11)
  <2>1. /\ Len(s) = 11 /\ DOMAIN s = 1 .. 11
        /\ \A i \in 1 .. 11 : s[i][2] \in Nat
    BY DEF SourceInformation88
  <2> HIDE DEF s
  <2>2. QED
    BY <2>1, EndsUnfold
<1> HIDE DEF e
<1>2. e[2] = 16 /\ e[11] = 88
  BY <1>1 DEF Unfolds, SourceInformation88
<1>3. /\ s[3][2] = 4 /\ \A i \in 1 .. 11 : s[i][1] = "unknown3" <=> i = 3
  BY DEF SourceInformation88
<1> HIDE DEF s
<1>4. QED
  BY <1>1, <1>2, <1>3 DEF s, e, Unfolds, IsStructure, SizeOf, Placed

(* Where the fields that are read are in this structure.                    *)
LEMMA SourceInformation100Layout ==
  /\ IsStructure(SourceInformation100)
  /\ SizeOf(SourceInformation100) = 100
  /\ Placed(SourceInformation100, "executable_filename", 10, 44, 16)
<1> DEFINE s == SourceInformation100
           e == Ends(s)
<1>1. Unfolds(e, s, 20)
  <2>1. /\ Len(s) = 20 /\ DOMAIN s = 1 .. 20
        /\ \A i \in 1 .. 20 : s[i][2] \in Nat
    BY DEF SourceInformation100
  <2> HIDE DEF s
  <2>2. QED
    BY <2>1, EndsUnfold
<1> HIDE DEF e
<1>2. e[9] = 44 /\ e[20] = 100
  BY <1>1 DEF Unfolds, SourceInformation100
<1>3. /\ s[10][2] = 16 /\ \A i \in 1 .. 20 :
           s[i][1] = "executable_filename" <=> i = 10
  BY DEF SourceInformation100
<1> HIDE DEF s
<1>4. QED
  BY <1>1, <1>2, <1>3 DEF s, e, Unfolds, IsStructure, SizeOf, Placed

(* Where the fields that are read are in this structure.                    *)
LEMMA SourceInformation144Layout ==
  /\ IsStructure(SourceInformation144)
  /\ SizeOf(SourceInformation144) = 144
  /\ Placed(SourceInformation144, "executable_filename", 10, 72, 16)
<1> DEFINE s == SourceInformation144
           e == Ends(s)
<1>1. Unfolds(e, s, 20)
  <2>1. /\ Len(s) = 20 /\ DOMAIN s = 1 .. 20
        /\ \A i \in 1 .. 20 : s[i][2] \in Nat
    BY DEF SourceInformation144
  <2> HIDE DEF s
  <2>2. QED
    BY <2>1, EndsUnfold
<1> HIDE DEF e
<1>2. e[9] = 72 /\ e[20] = 144
  BY <1>1 DEF Unfolds, SourceInformation144
<1>3. /\ s[10][2] = 16 /\ \A i \in 1 .. 20 :
           s[i][1] = "executable_filename" <=> i = 10
  BY DEF SourceInformation144
<1> HIDE DEF s
<1>4. QED
  BY <1>1, <1>2, <1>3 DEF s, e, Unfolds, IsStructure, SizeOf, Placed

-----------------------------------------------------------------------------
(* The object, its memory and its string                                    *)

Fields ==
  {"string", "string_size", "creation_time", "serial_number",
   "number_of_files", "files"}

\* What an object looks like and where it is being read.
ObjectInv ==
  /\ kind \in {"volume", "file", "source"}
  /\ object # NULL => DOMAIN object = Fields /\ object.files \in Nat
  /\ pc \in Labels
  /\ pc # "idle" => object # NULL
  /\ pc \in {"files", "file"} => kind = "volume"
  /\ pc \in {"string", "string_data"} => kind # "source"
  /\ pc \in {"entry", "string"} /\ kind # "source" => object.string = NULL
  /\ pc = "string_data" => object.string # NULL

\* What the read that is going on holds besides the object.
Pending ==
  (IF pc = "entry" THEN {Block("data")} ELSE {})
    \cup (IF pc = "file" THEN {Block("new_file")} ELSE {})

MemoryInv ==
  allocated = IF object = NULL THEN {} ELSE Owned \cup Pending

\* The size of the string that the entry gives.
EntryStringSize ==
  IF ~Supported THEN 0
  ELSE IF kind = "file"
  THEN PathSize(FieldValue(FileCast, Data, "path_number_of_characters"))
  ELSE IF entry_size \in VolumeSizes
  THEN DevicePathSize(
         FieldValue(VolumeCast, Data, "device_path_number_of_characters"))
  ELSE 0

\* A string has the size the entry gives, though the tests may read the entry
\* again.
StringInv ==
  object # NULL /\ kind # "source" =>
    /\ object.string_size \in {0, EntryStringSize}
    /\ result = "data" \/ pc \notin {"idle", "entry"} =>
         object.string_size = EntryStringSize
    /\ object.string # NULL =>
         /\ object.string_size \in 1 .. MaximumAllocation
         /\ object.string_size = EntryStringSize
         /\ Len(object.string) = object.string_size

IndInv == ObjectInv /\ MemoryInv /\ StringInv

(* Every entry is one a writer may have written.                            *)
LEMMA EntryIsWellWritten == ASSUME entry \in Entries PROVE WellWritten(entry)
  BY EntryAssumption, Zenon

(* A string of at least one byte is not NULL, and has its size.             *)
LEMMA StringOfSize ==
  ASSUME NEW n \in Nat, NEW f, DOMAIN f = 1 .. n, f = [i \in 1 .. n |-> f[i]]
  PROVE  /\ n > 0 => f # NULL
         /\ Len(f) = n
<1>1. f \in [1 .. n -> {f[i] : i \in 1 .. n}]
  BY Zenon
<1>2. \A S : \A g \in [1 .. n -> S] : Len(g) = n
  OBVIOUS
<1>3. Len(f) = n
  BY <1>1, <1>2, Zenon
<1>4. Len(NULL) = 0
  BY DEF NULL
<1>5. QED
  BY <1>3, <1>4

(* An object is not NULL, and stays one when a field is set.                *)
LEMMA ObjectIsNotNull ==
  ASSUME NEW o, DOMAIN o = Fields
  PROVE  o # NULL
<1>1. DOMAIN NULL = {}
  BY DEF NULL
<1>2. "files" \in Fields
  BY DEF Fields
<1>3. QED
  BY <1>1, <1>2

(* What decoding the entry does to the object.                              *)
LEMMA DecodedObject ==
  ASSUME ObjectInv, StringInv, object # NULL, DecodeEntry, entry' = entry
  PROVE  /\ object' # NULL /\ DOMAIN object' = Fields
         /\ object'.files = object.files
         /\ kind # "source" => /\ object'.string = object.string
                               /\ object'.string_size = EntryStringSize
<1>1. DOMAIN object = Fields /\ kind \in {"volume", "file", "source"}
  BY DEF ObjectInv
<1>2. Supported
  BY DEF DecodeEntry
<1>3. CASE kind = "volume"
  <2>1. object' = VolumeData(Data)
    BY <1>3 DEF DecodeEntry
  <2>2. CASE entry_size \notin VolumeSizes
    <3>1. object' = object
      BY <2>1, <2>2 DEF VolumeData
    <3>2. EntryStringSize = 0
      BY <1>2, <1>3, <2>2 DEF EntryStringSize
    <3>3. QED
      BY <1>1, <1>3, <3>1, <3>2 DEF StringInv
  <2>3. CASE entry_size \in VolumeSizes
    <3> DEFINE F(name) == FieldValue(VolumeCast, Data, name)
               size == DevicePathSize(F("device_path_number_of_characters"))
    <3>1. object' = [object EXCEPT
                       !.number_of_files = F("number_of_files"),
                       !.creation_time = F("creation_time"),
                       !.serial_number = F("serial_number"),
                       !.string_size = size]
      BY <2>1, <2>3 DEF VolumeData
    <3>2. EntryStringSize = size
      BY <1>2, <1>3, <2>3 DEF EntryStringSize
    <3> HIDE DEF F, size
    <3>3. /\ DOMAIN object' = Fields /\ object'.files = object.files
          /\ object'.string = object.string /\ object'.string_size = size
      BY <1>1, <3>1 DEF Fields
    <3>4. QED
      BY <3>2, <3>3, ObjectIsNotNull
  <2>4. QED
    BY <2>2, <2>3
<1>4. CASE kind = "file"
  <2> DEFINE size ==
        PathSize(FieldValue(FileCast, Data, "path_number_of_characters"))
  <2>1. object' = [object EXCEPT !.string_size = size]
    BY <1>4 DEF DecodeEntry, FileData
  <2>2. EntryStringSize = size
    BY <1>2, <1>4 DEF EntryStringSize
  <2> HIDE DEF size
  <2>3. /\ DOMAIN object' = Fields /\ object'.files = object.files
        /\ object'.string = object.string /\ object'.string_size = size
    BY <1>1, <2>1 DEF Fields
  <2>4. QED
    BY <2>2, <2>3, ObjectIsNotNull
<1>5. CASE kind = "source"
  <2>1. object' = SourceData(Data)
    BY <1>5 DEF DecodeEntry
  <2>2. PICK string, size :
          \/ object' = object
          \/ object' = [object EXCEPT !.string = string, !.string_size = size]
    BY <2>1 DEF SourceData
  <2>3. DOMAIN object' = Fields /\ object'.files = object.files
    BY <1>1, <2>2 DEF Fields
  <2>4. QED
    BY <1>5, <2>3, ObjectIsNotNull
<1>6. QED
  BY <1>1, <1>3, <1>4, <1>5

(* What on_error does to the object and the memory.                         *)
LEMMA DroppedString ==
  ASSUME ObjectInv, object # NULL, DropString
  PROVE  /\ object' # NULL /\ DOMAIN object' = Fields
         /\ object'.files = object.files
         /\ object'.string_size = 0
         /\ kind # "source" => object'.string = NULL
<1>1. DOMAIN object = Fields
  BY DEF ObjectInv
<1>2. DOMAIN object' = Fields /\ object'.files = object.files
  BY <1>1 DEF DropString, Fields
<1>3. object'.string_size = 0 /\ (kind # "source" => object'.string = NULL)
  BY <1>1 DEF DropString, Fields
<1>4. QED
  BY <1>2, <1>3, ObjectIsNotNull

(* The strings the library allocates and fills.                             *)
LEMMA ZeroesFacts ==
  ASSUME NEW n \in 1 .. MaximumAllocation
  PROVE  Zeroes(n) # NULL /\ Len(Zeroes(n)) = n
<1>1. n \in Nat /\ n > 0
  BY MaximumAssumption
<1>2. DOMAIN Zeroes(n) = 1 .. n /\ Zeroes(n) = [i \in 1 .. n |-> Zeroes(n)[i]]
  BY DEF Zeroes
<1>3. QED
  BY <1>1, <1>2, StringOfSize

(* A string that is kept fills its memory.                                  *)
LEMMA KeptFacts ==
  ASSUME object.string_size \in 1 .. MaximumAllocation
  PROVE  Kept # NULL /\ Len(Kept) = object.string_size
<1>1. PICK n \in Nat : n = object.string_size /\ n > 0
  BY MaximumAssumption
<1>2. DOMAIN Kept = 1 .. n /\ Kept = [i \in 1 .. n |-> Kept[i]]
  BY <1>1 DEF Kept
<1>3. QED
  BY <1>1, <1>2, StringOfSize

(* A step that sets the string leaves the rest of the object alone.         *)
LEMMA StringSet ==
  ASSUME ObjectInv, object # NULL, NEW string,
         object' = [object EXCEPT !.string = string]
  PROVE  /\ object' # NULL /\ DOMAIN object' = Fields
         /\ object'.files = object.files
         /\ object'.string_size = object.string_size
         /\ object'.string = string
<1>1. DOMAIN object = Fields
  BY DEF ObjectInv
<1>2. /\ DOMAIN object' = Fields
      /\ object'.files = object.files
      /\ object'.string_size = object.string_size
      /\ object'.string = string
  BY <1>1 DEF Fields
<1>3. QED
  BY <1>2, ObjectIsNotNull

(* What initialize leaves in an object.                                     *)
LEMMA BlankObject ==
  /\ Blank # NULL /\ DOMAIN Blank = Fields
  /\ Blank.files = 0 /\ Blank.string_size = 0
  /\ kind # "source" => Blank.string = NULL
<1>1. DOMAIN Blank = Fields
  BY DEF Blank, Fields
<1>2. /\ Blank.files = 0 /\ Blank.string_size = 0
      /\ kind # "source" => Blank.string = NULL
  BY DEF Blank
<1>3. QED
  BY <1>1, <1>2, ObjectIsNotNull

-----------------------------------------------------------------------------
(* The object                                                               *)

(* The invariant holds before anything is called.                           *)
LEMMA InitIndInv == Init => IndInv
<1> SUFFICES ASSUME Init
             PROVE  IndInv
  OBVIOUS
<1>1. kind \in {"volume", "file", "source"}
  BY EntryIsWellWritten DEF WellWritten, Init, kind
<1>2. object = NULL /\ allocated = {} /\ pc = "idle"
  BY DEF Init
<1>3. QED
  BY <1>1, <1>2 DEF IndInv, ObjectInv, MemoryInv, StringInv, Labels

(* The entry stays the same while it is read.                               *)
LEMMA EntryKept ==
  [Next]_vars => UNCHANGED <<entry, sub_entry_size>>
  BY DEF Next, Initialize, InternalFree, ReadData, ReadPathData, Read,
         BeginRead, ReadEntry, AllocateString, ReadString, InitializeFile,
         AppendFile, ReadSubEntry, SubEntriesUnknown, ReadEnds, ReadFails,
         GetDevicePath, GetPath, GetExecutableFilename, ReturnString, Goto,
         Return, Unread, vars

\* A getter returns a string and changes nothing else.
Getters == GetDevicePath \/ GetPath \/ GetExecutableFilename

(* A getter changes nothing of the object.                                  *)
LEMMA GettersRead ==
  Getters => UNCHANGED <<object, allocated, pc, result>>
  BY DEF Getters, GetDevicePath, GetPath, GetExecutableFilename, ReturnString

(* Every step keeps the object as it should be.                             *)
LEMMA StepObject ==
  ASSUME ObjectInv, StringInv, [Next]_vars
  PROVE  ObjectInv'
<1>1. entry' = entry /\ kind' = kind
  BY EntryKept DEF kind
<1> USE DEF ObjectInv, Labels
<1>2. CASE Initialize
  BY <1>1, <1>2, BlankObject DEF Initialize
<1>3. CASE InternalFree
  BY <1>1, <1>3 DEF InternalFree
<1>4. CASE ReadData \/ ReadEntry
  <2>1. /\ object # NULL
        /\ DecodeEntry \/ UNCHANGED object
        /\ pc' \in {pc, "sub_entries", "string"}
        /\ pc' \in {"idle", "sub_entries"} \/ (pc = "entry" /\ kind # "source")
        /\ pc \in {"idle", "entry"}
    BY <1>4 DEF ReadData, ReadEntry, Goto
  <2>2. CASE DecodeEntry
    <3>1. /\ object' # NULL /\ DOMAIN object' = Fields
          /\ object'.files = object.files
          /\ kind # "source" => object'.string = object.string
      BY <1>1, <2>1, <2>2, DecodedObject
    <3>2. QED
      BY <1>1, <1>4, <2>1, <3>1 DEF ReadData, ReadEntry, Goto
  <2>3. CASE UNCHANGED object
    BY <1>1, <2>1, <2>3, <1>4 DEF ReadData, ReadEntry, Goto
  <2>4. QED
    BY <2>1, <2>2, <2>3
<1>5. CASE ReadPathData
  <2>1. pc = "idle" /\ pc' = "idle" /\ object # NULL
    BY <1>5 DEF ReadPathData
  <2>2. CASE UNCHANGED object
    BY <1>1, <2>1, <2>2
  <2>3. CASE DropString
    BY <1>1, <2>1, <2>3, DroppedString
  <2>4. CASE object' = [object EXCEPT !.string = Kept]
    <3>1. PICK string : string = Kept
      OBVIOUS
    <3>2. QED
      BY <1>1, <2>1, <2>4, <3>1, StringSet
  <2>5. QED
    BY <1>5, <2>2, <2>3, <2>4 DEF ReadPathData
<1>6. CASE BeginRead
  <2>1. object # NULL /\ pc = "idle"
    BY <1>6 DEF BeginRead
  <2>2. CASE DropString /\ Return("error")
    BY <1>1, <2>1, <2>2, DroppedString DEF Return
  <2>3. CASE UNCHANGED object /\ pc' = "idle"
    BY <1>1, <2>1, <2>3
  <2>4. CASE UNCHANGED object /\ pc' = "entry"
             /\ (kind = "source" \/ object.string = NULL)
    BY <1>1, <2>1, <2>4
  <2>5. QED
    BY <1>6, <2>2, <2>3, <2>4 DEF BeginRead, Return, Goto
<1>7. CASE AllocateString
  <2>1. pc = "string" /\ object # NULL /\ kind # "source"
    BY <1>7 DEF AllocateString
  <2>2. CASE /\ object.string_size \in 1 .. MaximumAllocation
             /\ object' = [object EXCEPT !.string = Zeroes(object.string_size)]
             /\ pc' = "string_data"
    <3>1. PICK string : string = Zeroes(object.string_size)
      OBVIOUS
    <3>2. string # NULL
      BY <2>2, <3>1, ZeroesFacts
    <3>3. /\ object' # NULL /\ DOMAIN object' = Fields
          /\ object'.files = object.files /\ object'.string = string
      BY <2>1, <2>2, <3>1, StringSet
    <3>4. QED
      BY <1>1, <2>1, <2>2, <3>2, <3>3
  <2>3. CASE /\ UNCHANGED object
             /\ pc' = IF kind = "volume" THEN "files" ELSE "sub_entries"
    BY <1>1, <2>1, <2>3
  <2>4. QED
    BY <1>7, <2>2, <2>3 DEF AllocateString, Goto
<1>8. CASE ReadString
  <2>1. /\ pc = "string_data" /\ object # NULL
        /\ object' = [object EXCEPT !.string = Kept]
        /\ pc' = IF kind = "volume" THEN "files" ELSE "sub_entries"
    BY <1>8 DEF ReadString, Goto
  <2>2. PICK string : string = Kept
    OBVIOUS
  <2>3. QED
    BY <1>1, <2>1, <2>2, StringSet
<1>9. CASE AppendFile
  <2>1. /\ pc = "file" /\ pc' = "files" /\ object # NULL
        /\ object' = [object EXCEPT !.files = @ + 1]
    BY <1>9 DEF AppendFile, Goto
  <2>2. DOMAIN object' = Fields /\ object'.files = object.files + 1
    BY <2>1 DEF Fields
  <2>3. QED
    BY <1>1, <2>1, <2>2, ObjectIsNotNull
<1>10. CASE InitializeFile \/ ReadSubEntry \/ SubEntriesUnknown \/ ReadEnds
  BY <1>1, <1>10
  DEF InitializeFile, ReadSubEntry, SubEntriesUnknown, ReadEnds, Goto, Return
<1>11. CASE ReadFails
  <2>1. object # NULL /\ DropString /\ pc' = "idle"
    BY <1>11 DEF ReadFails, MayFail, Return
  <2>2. QED
    BY <1>1, <2>1, DroppedString
<1>12. CASE Getters \/ UNCHANGED vars
  <2>1. UNCHANGED <<object, pc>>
    BY <1>12, GettersRead DEF vars
  <2>2. QED
    BY <1>1, <2>1
<1>13. QED
  BY <1>2, <1>3, <1>4, <1>5, <1>6, <1>7, <1>8, <1>9, <1>10, <1>11, <1>12
  DEF Next, Read, Getters

-----------------------------------------------------------------------------
(* The memory                                                               *)

\* What the object holds besides its string.
Base ==
  {Block("object")}
    \cup (IF kind = "volume" THEN {Block("files_array")} ELSE {})
    \cup FileBlocks(object.files)

(* What an object owns is its string, if it has one, and the rest.          *)
LEMMA OwnedInParts ==
  Owned = Base \cup (IF kind # "source" /\ object.string # NULL
                     THEN {Block("string")} ELSE {})
  BY DEF Owned, Base

(* The blocks that come and go during a read are not among the rest.        *)
LEMMA OtherBlocks ==
  /\ Block("string") \notin Base /\ Block("data") \notin Base
  /\ Block("new_file") \notin Base
  /\ Block("string") # Block("data") /\ Block("string") # Block("new_file")
  /\ Block("data") # Block("new_file")
  BY DEF Base, Block, FileBlocks

(* The rest stays the same while no file is appended.                       *)
LEMMA BaseKept ==
  ASSUME entry' = entry, object'.files = object.files
  PROVE  Base' = Base
  BY DEF Base, kind, FileBlocks, Block

\* The memory of an object, when its files stay what they are.
MemoryOf(string, label) ==
  Base \cup (IF kind # "source" /\ string # NULL THEN {Block("string")} ELSE {})
       \cup (IF label = "entry" THEN {Block("data")} ELSE {})
       \cup (IF label = "file" THEN {Block("new_file")} ELSE {})

(* The memory in use, for an object that is there.                          *)
LEMMA MemoryIs ==
  ASSUME object # NULL
  PROVE  MemoryInv <=> allocated = MemoryOf(object.string, pc)
  BY OwnedInParts, Zenon DEF MemoryInv, MemoryOf, Pending

(* The same after a step that appends no file.                              *)
LEMMA MemoryAfter ==
  ASSUME entry' = entry, object' # NULL, object'.files = object.files,
         allocated' = MemoryOf(object'.string, pc')
  PROVE  MemoryInv'
<1>1. Base' = Base /\ kind' = kind
  BY BaseKept DEF kind
<1>2. Owned' = Base \cup (IF kind # "source" /\ object'.string # NULL
                         THEN {Block("string")} ELSE {})
  BY <1>1 DEF Owned, Base, Block, NULL
<1>3. Pending' = (IF pc' = "entry" THEN {Block("data")} ELSE {})
                   \cup (IF pc' = "file" THEN {Block("new_file")} ELSE {})
  BY DEF Pending, Block
<1>4. QED
  BY <1>2, <1>3 DEF MemoryInv, MemoryOf, NULL

\* on_error leaves the object without its string.
LEMMA DropKeepsMemory ==
  ASSUME ObjectInv, MemoryInv, object # NULL, entry' = entry, DropString,
         pc' = "idle"
  PROVE  MemoryInv'
<1>1. allocated = MemoryOf(object.string, pc)
  BY MemoryIs
<1>2. /\ object' # NULL /\ object'.files = object.files
      /\ kind # "source" => object'.string = NULL
  BY DroppedString
<1>3. allocated'
        = allocated \ {Block("string"), Block("data"), Block("new_file")}
  BY DEF DropString
<1>4. allocated' = Base
  BY <1>1, <1>3, OtherBlocks DEF MemoryOf
<1>5. allocated' = MemoryOf(object'.string, pc')
  BY <1>2, <1>4 DEF MemoryOf
<1>6. QED
  BY <1>2, <1>5, MemoryAfter

(* Every step keeps the memory what the object owns.                        *)
LEMMA StepMemory ==
  ASSUME ObjectInv, StringInv, MemoryInv, [Next]_vars
  PROVE  MemoryInv'
<1>1. entry' = entry /\ kind' = kind
  BY EntryKept DEF kind
<1>2. object # NULL => allocated = MemoryOf(object.string, pc)
  BY MemoryIs
<1>3. CASE Initialize
  <2>1. /\ object' = Blank /\ pc' = "idle"
        /\ allocated' = {Block("object")}
             \cup (IF kind = "volume" THEN {Block("files_array")} ELSE {})
    BY <1>3 DEF Initialize
  <2>2. /\ object' # NULL /\ object'.files = 0
        /\ kind # "source" => object'.string = NULL
    BY <2>1, BlankObject
  <2>3. FileBlocks(object'.files) = {}
    BY <2>2 DEF FileBlocks
  <2>4. Owned' = allocated'
    BY <1>1, <2>1, <2>2, <2>3 DEF Owned, Block, NULL
  <2>5. Pending' = {}
    BY <2>1 DEF Pending
  <2>6. QED
    BY <2>2, <2>4, <2>5 DEF MemoryInv, NULL
<1>4. CASE InternalFree
  <2>1. /\ object # NULL /\ object' = NULL /\ pc = "idle"
        /\ allocated' =
             allocated \ ({Block("object"), Block("files_array")}
                            \cup FileBlocks(object.files)
                            \cup IF object.string # NULL
                                 THEN {Block("string")} ELSE {})
    BY <1>4 DEF InternalFree
  <2>2. allocated' = {}
    BY <1>2, <2>1 DEF MemoryOf, Base
  <2>3. QED
    BY <2>1, <2>2 DEF MemoryInv, NULL
<1>5. CASE ReadData \/ ReadEntry
  <2>1. object # NULL /\ (DecodeEntry \/ UNCHANGED object)
    BY <1>5 DEF ReadData, ReadEntry, ObjectInv
  <2>2. /\ object' # NULL /\ object'.files = object.files
        /\ kind # "source" => object'.string = object.string
    BY <1>1, <2>1, DecodedObject
  <2>3. CASE ReadData
    <3>1. allocated' = allocated /\ pc' = pc
      BY <2>3 DEF ReadData
    <3>2. allocated' = MemoryOf(object'.string, pc')
      BY <1>2, <2>1, <2>2, <3>1 DEF MemoryOf
    <3>3. QED
      BY <1>1, <2>2, <3>2, MemoryAfter
  <2>4. CASE ReadEntry
    <3>1. /\ allocated' = allocated \ {Block("data")} /\ pc = "entry"
          /\ pc' \notin {"entry", "file"}
      BY <2>4 DEF ReadEntry, Goto
    <3>2. allocated' = MemoryOf(object'.string, pc')
      BY <1>2, <2>1, <2>2, <3>1, OtherBlocks DEF MemoryOf
    <3>3. QED
      BY <1>1, <2>2, <3>2, MemoryAfter
  <2>5. QED
    BY <1>5, <2>3, <2>4
<1>6. CASE ReadPathData
  <2>1. /\ pc = "idle" /\ pc' = "idle" /\ object # NULL /\ kind # "source"
    BY <1>6 DEF ReadPathData
  <2>2. CASE UNCHANGED <<object, allocated>>
    <3>1. allocated' = MemoryOf(object'.string, pc')
      BY <1>2, <2>1, <2>2 DEF MemoryOf
    <3>2. QED
      BY <1>1, <2>1, <2>2, <3>1, MemoryAfter
  <2>3. CASE DropString
    BY <1>1, <2>1, <2>3, DropKeepsMemory
  <2>4. CASE /\ object.string_size \in 1 .. MaximumAllocation
             /\ object' = [object EXCEPT !.string = Kept]
             /\ allocated' = allocated \cup {Block("string")}
    <3>1. PICK string : string = Kept
      OBVIOUS
    <3>2. string # NULL
      BY <2>4, <3>1, KeptFacts
    <3>3. /\ object' # NULL /\ object'.files = object.files
          /\ object'.string = string
      BY <2>1, <2>4, <3>1, StringSet
    <3>4. allocated' = MemoryOf(object'.string, pc')
      BY <1>2, <2>1, <2>4, <3>2, <3>3 DEF MemoryOf
    <3>5. QED
      BY <1>1, <3>3, <3>4, MemoryAfter
  <2>5. QED
    BY <1>6, <2>2, <2>3, <2>4 DEF ReadPathData
<1>7. CASE BeginRead
  <2>1. object # NULL /\ pc = "idle"
    BY <1>7 DEF BeginRead
  <2>2. CASE DropString /\ pc' = "idle"
    BY <1>1, <2>1, <2>2, DropKeepsMemory
  <2>3. CASE UNCHANGED <<object, allocated>> /\ pc' = "idle"
    <3>1. allocated' = MemoryOf(object'.string, pc')
      BY <1>2, <2>1, <2>3 DEF MemoryOf
    <3>2. QED
      BY <1>1, <2>1, <2>3, <3>1, MemoryAfter
  <2>4. CASE /\ UNCHANGED object /\ pc' = "entry"
             /\ allocated' = allocated \cup {Block("data")}
    <3>1. allocated' = MemoryOf(object'.string, pc')
      BY <1>2, <2>1, <2>4 DEF MemoryOf
    <3>2. QED
      BY <1>1, <2>1, <2>4, <3>1, MemoryAfter
  <2>5. QED
    BY <1>7, <2>2, <2>3, <2>4 DEF BeginRead, Return, Goto
<1>8. CASE AllocateString
  <2>1. /\ pc = "string" /\ pc' \notin {"entry", "file"}
        /\ object # NULL /\ kind # "source"
    BY <1>8 DEF AllocateString, ObjectInv, Goto
  <2>2. CASE /\ object.string_size \in 1 .. MaximumAllocation
             /\ object' = [object EXCEPT !.string = Zeroes(object.string_size)]
             /\ allocated' = allocated \cup {Block("string")}
    <3>1. PICK string : string = Zeroes(object.string_size)
      OBVIOUS
    <3>2. string # NULL
      BY <2>2, <3>1, ZeroesFacts
    <3>3. /\ object' # NULL /\ object'.files = object.files
          /\ object'.string = string
      BY <2>1, <2>2, <3>1, StringSet
    <3>4. allocated' = MemoryOf(object'.string, pc')
      BY <1>2, <2>1, <2>2, <3>2, <3>3 DEF MemoryOf
    <3>5. QED
      BY <1>1, <3>3, <3>4, MemoryAfter
  <2>3. CASE UNCHANGED <<object, allocated>>
    <3>1. allocated' = MemoryOf(object'.string, pc')
      BY <1>2, <2>1, <2>3 DEF MemoryOf
    <3>2. QED
      BY <1>1, <2>1, <2>3, <3>1, MemoryAfter
  <2>4. QED
    BY <1>8, <2>2, <2>3 DEF AllocateString
<1>9. CASE ReadString
  <2>1. /\ pc = "string_data" /\ pc' \notin {"entry", "file"}
        /\ object # NULL /\ kind # "source" /\ object.string # NULL
        /\ object' = [object EXCEPT !.string = Kept]
        /\ allocated' = allocated
    BY <1>9 DEF ReadString, ObjectInv, Goto
  <2>2. PICK string : string = Kept
    OBVIOUS
  <2>3. string # NULL
    BY <2>1, <2>2, KeptFacts DEF StringInv
  <2>4. /\ object' # NULL /\ object'.files = object.files
        /\ object'.string = string
    BY <2>1, <2>2, StringSet
  <2>5. allocated' = MemoryOf(object'.string, pc')
    BY <1>2, <2>1, <2>3, <2>4 DEF MemoryOf
  <2>6. QED
    BY <1>1, <2>4, <2>5, MemoryAfter
<1>10. CASE InitializeFile
  <2>1. /\ pc = "files" /\ pc' = "file" /\ object # NULL /\ object' = object
        /\ allocated' = allocated \cup {Block("new_file")}
    BY <1>10 DEF InitializeFile, ObjectInv, Goto
  <2>2. allocated' = MemoryOf(object'.string, pc')
    BY <1>2, <2>1 DEF MemoryOf
  <2>3. QED
    BY <1>1, <2>1, <2>2, MemoryAfter
<1>11. CASE AppendFile
  <2>1. /\ pc = "file" /\ pc' = "files" /\ object # NULL
        /\ object' = [object EXCEPT !.files = @ + 1]
        /\ allocated' = (allocated \ {Block("new_file")})
                          \cup {<<"file", object.files + 1>>}
    BY <1>11 DEF AppendFile, ObjectInv, Goto
  <2>2. /\ DOMAIN object' = Fields /\ object'.files = object.files + 1
        /\ object'.string = object.string /\ object.files \in Nat
    BY <2>1 DEF ObjectInv, Fields
  <2>3. object' # NULL
    BY <2>2, ObjectIsNotNull
  <2>4. FileBlocks(object'.files)
          = FileBlocks(object.files) \cup {<<"file", object.files + 1>>}
    BY <2>2 DEF FileBlocks
  <2>5. Base' = Base \cup {<<"file", object.files + 1>>}
    BY <1>1, <2>4 DEF Base, Block
  <2>6. Owned' = Base' \cup (IF kind # "source" /\ object.string # NULL
                            THEN {Block("string")} ELSE {})
    BY <1>1, <2>2 DEF Owned, Base, Block, NULL
  <2>7. Pending' = {}
    BY <2>1 DEF Pending
  <2>8. allocated' = Owned'
    BY <1>2, <2>1, <2>5, <2>6, OtherBlocks DEF MemoryOf
  <2>9. QED
    BY <2>3, <2>7, <2>8 DEF MemoryInv, NULL
<1>12. CASE ReadSubEntry \/ SubEntriesUnknown \/ ReadEnds
  <2>1. /\ object # NULL /\ object' = object /\ allocated' = allocated
        /\ pc \notin {"entry", "file"} /\ pc' \notin {"entry", "file"}
    BY <1>12 DEF ReadSubEntry, SubEntriesUnknown, ReadEnds, ObjectInv, Goto,
                 Return
  <2>2. allocated' = MemoryOf(object'.string, pc')
    BY <1>2, <2>1 DEF MemoryOf
  <2>3. QED
    BY <1>1, <2>1, <2>2, MemoryAfter
<1>13. CASE ReadFails
  <2>1. object # NULL /\ DropString /\ pc' = "idle"
    BY <1>13 DEF ReadFails, MayFail, Return, ObjectInv
  <2>2. QED
    BY <1>1, <2>1, DropKeepsMemory
<1>14. CASE Getters \/ UNCHANGED vars
  <2>1. UNCHANGED <<object, allocated, pc>>
    BY <1>14, GettersRead DEF vars
  <2>2. QED
    BY <1>1, <2>1
    DEF MemoryInv, Owned, Pending, FileBlocks, Block, NULL
<1>15. QED
  BY <1>3, <1>4, <1>5, <1>6, <1>7, <1>8, <1>9, <1>10, <1>11, <1>12, <1>13,
     <1>14
  DEF Next, Read, Getters

-----------------------------------------------------------------------------
(* The string                                                               *)

(* The size of the string is one of the entry.                              *)
LEMMA EntrySizeFixed ==
  entry' = entry => EntryStringSize' = EntryStringSize
  BY DEF EntryStringSize, Supported, Data, kind, entry_size, FileCast,
         VolumeCast

(* Every step keeps the string and its size together.                       *)
LEMMA StepString ==
  ASSUME ObjectInv, StringInv, [Next]_vars
  PROVE  StringInv'
<1>1. entry' = entry /\ kind' = kind
  BY EntryKept DEF kind
<1>2. EntryStringSize' = EntryStringSize /\ NULL' = NULL
  BY <1>1, EntrySizeFixed DEF NULL
<1>3. SUFFICES ASSUME object' # NULL, kind # "source"
               PROVE
      /\ object'.string_size \in {0, EntryStringSize}
      /\ result' = "data" \/ pc' \notin {"idle", "entry"} =>
           object'.string_size = EntryStringSize
      /\ object'.string # NULL =>
           /\ object'.string_size \in 1 .. MaximumAllocation
           /\ object'.string_size = EntryStringSize
           /\ Len(object'.string) = object'.string_size
  BY <1>1, <1>2 DEF StringInv
<1> DEFINE Before ==
      /\ object.string_size \in {0, EntryStringSize}
      /\ result = "data" \/ pc \notin {"idle", "entry"} =>
           object.string_size = EntryStringSize
      /\ object.string # NULL =>
           /\ object.string_size \in 1 .. MaximumAllocation
           /\ object.string_size = EntryStringSize
           /\ Len(object.string) = object.string_size
<1>4. object # NULL => Before
  BY <1>3 DEF StringInv
<1>5. CASE Initialize
  BY <1>3, <1>5, BlankObject DEF Initialize
<1>6. CASE InternalFree
  BY <1>3, <1>6 DEF InternalFree
<1>7. CASE ReadData
  <2>1. object # NULL /\ pc' = "idle"
    BY <1>7 DEF ReadData
  <2>2. CASE DecodeEntry
    <3>1. /\ object'.string = object.string
          /\ object'.string_size = EntryStringSize
      BY <1>1, <1>3, <2>1, <2>2, DecodedObject
    <3>2. QED
      BY <1>4, <2>1, <3>1
  <2>3. CASE UNCHANGED <<object, result>>
    BY <1>4, <1>7, <2>1, <2>3 DEF ReadData
  <2>4. QED
    BY <1>7, <2>2, <2>3 DEF ReadData
<1>8. CASE ReadEntry
  <2>1. object # NULL /\ DecodeEntry /\ object.string = NULL
    BY <1>3, <1>8 DEF ReadEntry, ObjectInv
  <2>2. /\ object'.string = NULL
        /\ object'.string_size = EntryStringSize
    BY <1>1, <1>3, <2>1, DecodedObject
  <2>3. QED
    BY <2>2
<1>9. CASE ReadPathData
  <2>1. object # NULL /\ pc = "idle" /\ pc' = "idle" /\ result = "data"
    BY <1>9 DEF ReadPathData
  <2>2. CASE UNCHANGED <<object, result>>
    BY <1>4, <2>1, <2>2
  <2>3. CASE DropString /\ result' = "error"
    BY <1>3, <2>1, <2>3, DroppedString
  <2>4. CASE /\ object.string_size \in 1 .. MaximumAllocation
             /\ object' = [object EXCEPT !.string = Kept]
    <3>1. PICK string : string = Kept
      OBVIOUS
    <3>2. Len(string) = object.string_size
      BY <2>4, <3>1, KeptFacts
    <3>3. /\ object'.string_size = object.string_size
          /\ object'.string = string
      BY <2>1, <2>4, <3>1, StringSet
    <3>4. object.string_size = EntryStringSize
      BY <1>4, <2>1
    <3>5. QED
      BY <2>4, <3>2, <3>3, <3>4
  <2>5. QED
    BY <1>9, <2>2, <2>3, <2>4 DEF ReadPathData
<1>10. CASE BeginRead
  <2>1. object # NULL /\ pc = "idle"
    BY <1>10 DEF BeginRead
  <2>2. CASE DropString /\ Return("error")
    BY <1>3, <2>1, <2>2, DroppedString DEF Return
  <2>3. CASE UNCHANGED object /\ Return("refused")
    BY <1>4, <2>1, <2>3 DEF Return
  <2>4. CASE UNCHANGED object /\ Goto("entry")
    BY <1>4, <2>1, <2>4 DEF Goto
  <2>5. QED
    BY <1>10, <2>2, <2>3, <2>4 DEF BeginRead
<1>11. CASE AllocateString
  <2>1. /\ object # NULL /\ pc = "string" /\ result' = result
    BY <1>11 DEF AllocateString, ObjectInv, Goto
  <2>2. object.string_size = EntryStringSize
    BY <1>4, <2>1
  <2>3. CASE /\ object.string_size \in 1 .. MaximumAllocation
             /\ object' = [object EXCEPT !.string = Zeroes(object.string_size)]
    <3>1. PICK string : string = Zeroes(object.string_size)
      OBVIOUS
    <3>2. Len(string) = object.string_size
      BY <2>3, <3>1, ZeroesFacts
    <3>3. /\ object'.string_size = object.string_size
          /\ object'.string = string
      BY <2>1, <2>3, <3>1, StringSet
    <3>4. QED
      BY <2>2, <2>3, <3>2, <3>3
  <2>4. CASE UNCHANGED object
    BY <1>4, <2>1, <2>2, <2>4
  <2>5. QED
    BY <1>11, <2>3, <2>4 DEF AllocateString
<1>12. CASE ReadString
  <2>1. /\ object # NULL /\ pc = "string_data" /\ object.string # NULL
        /\ object' = [object EXCEPT !.string = Kept]
    BY <1>12 DEF ReadString, ObjectInv
  <2>2. object.string_size \in 1 .. MaximumAllocation
        /\ object.string_size = EntryStringSize
    BY <1>4, <2>1
  <2>3. PICK string : string = Kept
    OBVIOUS
  <2>4. Len(string) = object.string_size
    BY <2>2, <2>3, KeptFacts
  <2>5. /\ object'.string_size = object.string_size
        /\ object'.string = string
    BY <2>1, <2>3, StringSet
  <2>6. QED
    BY <2>2, <2>4, <2>5
<1>13. CASE AppendFile
  <2>1. /\ pc = "file" /\ object # NULL
        /\ object' = [object EXCEPT !.files = @ + 1]
    BY <1>13 DEF AppendFile, ObjectInv
  <2>2. /\ object'.string = object.string
        /\ object'.string_size = object.string_size
    BY <2>1 DEF ObjectInv, Fields
  <2>3. QED
    BY <1>4, <2>1, <2>2
<1>14. CASE InitializeFile \/ ReadSubEntry \/ SubEntriesUnknown \/ ReadEnds
  <2>1. object # NULL /\ object' = object /\ pc \notin {"idle", "entry"}
    BY <1>14
    DEF InitializeFile, ReadSubEntry, SubEntriesUnknown, ReadEnds, ObjectInv
  <2>2. QED
    BY <1>4, <2>1
<1>15. CASE ReadFails
  <2>1. object # NULL /\ DropString /\ pc' = "idle" /\ result' = "error"
    BY <1>15 DEF ReadFails, MayFail, Return, ObjectInv
  <2>2. QED
    BY <1>3, <2>1, DroppedString
<1>16. CASE Getters \/ UNCHANGED vars
  <2>1. UNCHANGED <<object, pc, result>>
    BY <1>16, GettersRead DEF vars
  <2>2. QED
    BY <1>3, <1>4, <2>1
<1>17. QED
  BY <1>5, <1>6, <1>7, <1>8, <1>9, <1>10, <1>11, <1>12, <1>13, <1>14, <1>15,
     <1>16
  DEF Next, Read, Getters

(* Every step keeps the invariant.                                          *)
LEMMA StepIndInv == IndInv /\ [Next]_vars => IndInv'
  BY StepObject, StepMemory, StepString DEF IndInv

(* The invariant of the object, its memory and its string.                  *)
LEMMA AlwaysIndInv == Spec => []IndInv
  BY InitIndInv, StepIndInv, PTL DEF Spec

-----------------------------------------------------------------------------
(* The fields of the entry                                                  *)

(* A field of the entry is read when the cast has it where the structure of *)
(* the entry has it.                                                        *)
LEMMA EntryFieldRead ==
  ASSUME entry \in Entries, NEW name \in FieldsOf[kind],
         IsStructure(entry.structure), NEW c, IsStructure(c),
         NEW k, NEW l, NEW offset, NEW width,
         Placed(entry.structure, name, k, offset, width),
         Placed(c, name, l, offset, width)
  PROVE  /\ FieldBytes(c, Data, name) = entry.fields[name]
         /\ entry.fields[name] \in Seq(0 .. 255)
         /\ Len(entry.fields[name]) = width
         /\ FieldValue(c, Data, name) = Written(name)
<1>1. Fits(entry.structure, entry.fields) /\ name \in DOMAIN entry.fields
  BY EntryIsWellWritten, Zenon DEF WellWritten, kind
<1>2. FieldBytes(c, Data, name) = entry.fields[name]
  BY <1>1, FieldRead DEF Data
<1>3. QED
  BY <1>1, <1>2, FieldFits DEF FieldValue, Written

(* A sequence over a set is one over any larger set.                        *)
LEMMA SeqOfMore ==
  ASSUME NEW W, NEW V \in SUBSET W, NEW s \in Seq(V)
  PROVE  s \in Seq(W)
<1>1. PICK n \in Nat : n = Len(s)
  BY LenProperties
<1>2. s \in [1 .. n -> V]
  BY <1>1, LenProperties
<1>3. s \in [1 .. n -> W]
  BY <1>2
<1>4. QED
  BY <1>3

(* What the writer gave a field is a natural number.                        *)
LEMMA WrittenIsNat ==
  ASSUME NEW name, entry.fields[name] \in Seq(0 .. 255)
  PROVE  Written(name) \in Nat
<1>1. entry.fields[name] \in Seq(Nat)
  <2>1. 0 .. 255 \subseteq Nat
    OBVIOUS
  <2>2. QED
    BY <2>1, SeqOfMore
<1>2. QED
  BY <1>1, LittleEndianIsNat DEF Written

(* Each field of a volume entry is read as it was written.                  *)
LEMMA VolumeFieldsRead ==
  ASSUME entry \in Entries, kind = "volume", entry_size \in VolumeSizes,
         NEW name \in FieldsOf["volume"]
  PROVE  FieldValue(VolumeCast, Data, name) = Written(name)
         /\ Written(name) \in Nat
<1>1. /\ entry.structure \in {VolumeInformation56, VolumeInformation72}
      /\ entry_size = SizeOf(entry.structure)
           \/ \A s \in {VolumeInformation56, VolumeInformation72} :
                entry_size # SizeOf(s)
  BY EntryIsWellWritten DEF WellWritten, kind, entry_size, Structures
<1>2. entry.structure = VolumeCast
  BY <1>1, VolumeInformation56Layout, VolumeInformation72Layout
  DEF VolumeSizes, VolumeCast
<1>3. IsStructure(VolumeCast)
  BY VolumeInformation56Layout, VolumeInformation72Layout DEF VolumeCast
<1>4. PICK k, offset, width : Placed(VolumeCast, name, k, offset, width)
  BY VolumeInformation56Layout, VolumeInformation72Layout
  DEF VolumeCast, FieldsOf
<1>5. QED
  BY <1>2, <1>3, <1>4, EntryFieldRead, WrittenIsNat

(* Each field of a file entry is read as it was written.                    *)
LEMMA FileFieldsRead ==
  ASSUME entry \in Entries, kind = "file",
         entry_size \in FileSizes32 \cup FileSizes64,
         NEW name \in FieldsOf["file"]
  PROVE  FieldValue(FileCast, Data, name) = Written(name)
         /\ Written(name) \in Nat
<1> DEFINE s32 == {FileInformation36, FileInformation52, FileInformation56,
                   FileInformation72}
           s64 == {FileInformation64, FileInformation88, FileInformation112}
<1>1. /\ entry.structure \in s32 \cup s64
      /\ entry_size = SizeOf(entry.structure)
           \/ \A s \in s32 \cup s64 : entry_size # SizeOf(s)
  BY EntryIsWellWritten DEF WellWritten, kind, entry_size, Structures
<1>2. /\ \A s \in s32 : SizeOf(s) \in FileSizes32 /\ IsStructure(s)
      /\ \A s \in s64 : SizeOf(s) \in FileSizes64 /\ IsStructure(s)
      /\ \A n \in FileSizes32 : \E s \in s32 : SizeOf(s) = n
      /\ \A n \in FileSizes64 : \E s \in s64 : SizeOf(s) = n
  BY FileInformation36Layout, FileInformation52Layout,
     FileInformation56Layout, FileInformation64Layout,
     FileInformation72Layout, FileInformation88Layout,
     FileInformation112Layout
  DEF FileSizes32, FileSizes64
<1>3. /\ \A s \in s32 : \E k : Placed(s, "number_of_entries", k, 8, 4)
      /\ \A s \in s32 : \E k : Placed(s, "path_number_of_characters", k, 28, 4)
      /\ \A s \in s64 : \E k : Placed(s, "number_of_entries", k, 16, 4)
      /\ \A s \in s64 : \E k : Placed(s, "path_number_of_characters", k, 48, 4)
  BY FileInformation36Layout, FileInformation52Layout,
     FileInformation56Layout, FileInformation64Layout,
     FileInformation72Layout, FileInformation88Layout,
     FileInformation112Layout
<1>4. name \in {"number_of_entries", "path_number_of_characters"}
      /\ name \in FieldsOf[kind]
  BY DEF FieldsOf
<1>5. FileSizes32 \cap FileSizes64 = {}
  BY DEF FileSizes32, FileSizes64
<1>6. \/ entry.structure \in s32 /\ FileCast \in s32
      \/ entry.structure \in s64 /\ FileCast \in s64
  <2>1. entry_size = SizeOf(entry.structure)
    <3> HIDE DEF s32, s64
    <3>1. QED
      BY <1>1, <1>2, Zenon
  <2>2. CASE entry_size \in FileSizes32
    <3>1. entry.structure \in s32
      <4> HIDE DEF s32, s64
      <4>1. QED
        BY <1>1, <1>2, <1>5, <2>1, <2>2
    <3>2. FileCast = FileInformation36
      BY <2>2 DEF FileCast
    <3>3. QED
      BY <3>1, <3>2
  <2>3. CASE entry_size \in FileSizes64
    <3>1. entry.structure \in s64
      <4> HIDE DEF s32, s64
      <4>1. QED
        BY <1>1, <1>2, <1>5, <2>1, <2>3
    <3>2. FileCast = FileInformation64
      BY <1>5, <2>3 DEF FileCast
    <3>3. QED
      BY <3>1, <3>2
  <2>4. QED
    BY <2>2, <2>3
<1> HIDE DEF s32, s64
<1>7. PICK k, l, offset, width :
        /\ Placed(entry.structure, name, k, offset, width)
        /\ Placed(FileCast, name, l, offset, width)
  BY <1>3, <1>4, <1>6, Zenon
<1>8. IsStructure(entry.structure) /\ IsStructure(FileCast)
  BY <1>2, <1>6, Zenon
<1>9. QED
  BY <1>4, <1>7, <1>8, EntryFieldRead, WrittenIsNat

(* A source has the number of its sub entries in two structures, the        *)
(* filename in the other two.                                               *)
LEMMA SourceFieldsRead ==
  ASSUME entry \in Entries, kind = "source", entry_size \in SourceSizes
  PROVE  /\ entry_size \in {60, 88} =>
              /\ FieldValue(SourceCast, Data, "unknown3") = Written("unknown3")
              /\ Written("unknown3") \in Nat
         /\ entry_size \notin {60, 88} =>
              LET filename == entry.fields["executable_filename"]
              IN  /\ FieldBytes(SourceCast, Data, "executable_filename")
                       = filename
                  /\ filename \in Seq(0 .. 255) /\ Len(filename) = 16
<1> DEFINE S == {SourceInformation60, SourceInformation88,
                 SourceInformation100, SourceInformation144}
<1>1. /\ entry.structure \in S
      /\ entry_size = SizeOf(entry.structure)
           \/ \A s \in S : entry_size # SizeOf(s)
  BY EntryIsWellWritten DEF WellWritten, kind, entry_size, Structures
<1>2. /\ SizeOf(SourceInformation60) = 60
      /\ SizeOf(SourceInformation88) = 88
      /\ SizeOf(SourceInformation100) = 100
      /\ SizeOf(SourceInformation144) = 144
      /\ \A s \in S : IsStructure(s)
  BY SourceInformation60Layout, SourceInformation88Layout,
     SourceInformation100Layout, SourceInformation144Layout
<1>3. entry.structure = SourceCast
  BY <1>1, <1>2 DEF SourceSizes, SourceCast
<1>4. IsStructure(SourceCast)
  BY <1>2 DEF SourceCast
<1>5. "unknown3" \in FieldsOf[kind] /\ "executable_filename" \in FieldsOf[kind]
  BY DEF FieldsOf
<1>6. CASE entry_size \in {60, 88}
  <2>1. PICK k, offset : Placed(SourceCast, "unknown3", k, offset, 4)
    BY <1>6, SourceInformation60Layout, SourceInformation88Layout
    DEF SourceCast
  <2>2. QED
    BY <1>3, <1>4, <1>5, <1>6, <2>1, EntryFieldRead, WrittenIsNat
<1>7. CASE entry_size \notin {60, 88}
  <2>1. PICK k, offset :
          Placed(SourceCast, "executable_filename", k, offset, 16)
    BY <1>7, SourceInformation100Layout, SourceInformation144Layout
    DEF SourceCast
  <2>2. LET filename == entry.fields["executable_filename"]
        IN  /\ FieldBytes(SourceCast, Data, "executable_filename") = filename
            /\ filename \in Seq(0 .. 255) /\ Len(filename) = 16
    BY <1>3, <1>4, <1>5, <2>1, EntryFieldRead
  <2>3. QED
    BY <1>7, <2>2
<1>8. QED
  BY <1>6, <1>7

\* The place of the first zero, of the terminator when there is none.
End(s) == CHOOSE z \in {i \in 1 .. Len(s \o <<0>>) : (s \o <<0>>)[i] = 0} :
            \A i \in {i \in 1 .. Len(s \o <<0>>) : (s \o <<0>>)[i] = 0} : z <= i

(* End is the place of the first zero, or that behind the last one.         *)
LEMMA EndFacts ==
  ASSUME NEW s \in Seq(Nat)
  PROVE  /\ End(s) \in 1 .. Len(s) + 1
         /\ End(s) <= Len(s) => s[End(s)] = 0
         /\ \A i \in 1 .. Len(s) : i < End(s) => s[i] # 0
         /\ FilenameSize(s) = End(s)
         /\ UpToEnd(s) = SubSeq(s, 1, End(s) - 1)
<1> DEFINE t == s \o <<0>>
           T == {i \in 1 .. Len(t) : t[i] = 0}
<1>1. PICK m \in Nat : m = Len(s)
  OBVIOUS
<1>2. <<0>> \in Seq(Nat) /\ Len(<<0>>) = 1 /\ <<0>>[1] = 0
  OBVIOUS
<1>3. /\ Len(t) = m + 1
      /\ \A i \in 1 .. m : t[i] = s[i]
      /\ t[m + 1] = 0
  <2>1. 1 \in 1 .. Len(<<0>>)
    BY <1>2
  <2>2. QED
    BY <1>1, <1>2, <2>1, Concatenated
<1> HIDE DEF t
<1>4. T \in SUBSET Nat /\ m + 1 \in T
  BY <1>3
<1>5. PICK z \in T : \A i \in T : z <= i
  BY <1>4, SmallestNumber
<1>6. End(s) \in T /\ \A i \in T : End(s) <= i
  BY <1>5, Zenon DEF End, t
<1>7. FilenameSize(s) = End(s)
  <2>1. T # {}
    BY <1>4
  <2>2. QED
    BY <2>1, Zenon DEF FilenameSize, SelectInSeq, Min, End, t
<1>8. UpToEnd(s) = SubSeq(s, 1, End(s) - 1)
  <2>1. T # {}
    BY <1>4
  <2>2. QED
    BY <2>1, Zenon DEF UpToEnd, SelectInSeq, Min, End, t
<1>9. QED
  BY <1>1, <1>3, <1>6, <1>7, <1>8

(* Two strings that agree up to their first zero are the same to a reader.  *)
LEMMA SameUpToEnd ==
  ASSUME NEW s \in Seq(Nat), NEW t \in Seq(Nat),
         End(s) = End(t),
         \A i \in 1 .. End(s) - 1 : s[i] = t[i]
  PROVE  UpToEnd(s) = UpToEnd(t)
<1>1. PICK z \in Nat : z + 1 = End(s) /\ z <= Len(s) /\ z <= Len(t)
  <2>1. End(s) \in 1 .. Len(s) + 1 /\ End(t) \in 1 .. Len(t) + 1
        /\ Len(s) \in Nat /\ Len(t) \in Nat
    BY EndFacts
  <2>2. End(s) - 1 \in Nat /\ End(s) - 1 + 1 = End(s)
        /\ End(s) - 1 <= Len(s) /\ End(s) - 1 <= Len(t)
    BY <2>1
  <2>3. QED
    BY <2>2
<1>2. End(s) - 1 = z /\ End(t) - 1 = z
  BY <1>1
<1>3. UpToEnd(s) = SubSeq(s, 1, z) /\ UpToEnd(t) = SubSeq(t, 1, z)
  BY <1>2, EndFacts
<1>4. /\ SubSeq(s, 1, z) = [i \in 1 .. z |-> s[i]]
      /\ SubSeq(t, 1, z) = [i \in 1 .. z |-> t[i]]
  BY <1>1
<1>5. \A i \in 1 .. z : s[i] = t[i]
  BY <1>2
<1>6. QED
  BY <1>3, <1>4, <1>5

(* Text up to its end is text.                                              *)
LEMMA UpToEndIsText ==
  ASSUME NEW s \in Seq(Nat)
  PROVE  UpToEnd(s) \in Seq(Nat)
<1>1. PICK z \in Nat : End(s) - 1 = z /\ z <= Len(s)
  <2>1. End(s) \in 1 .. Len(s) + 1 /\ Len(s) \in Nat
    BY EndFacts
  <2>2. End(s) - 1 \in Nat /\ End(s) - 1 <= Len(s)
    BY <2>1
  <2>3. QED
    BY <2>2
<1>2. UpToEnd(s) = SubSeq(s, 1, z)
  BY <1>1, EndFacts
<1>3. QED
  BY <1>1, <1>2

-----------------------------------------------------------------------------
(* Characters and their bytes                                               *)

Byte == 0 .. 255

(* A code unit is its two bytes.                                            *)
LEMMA CodeUnitBytes ==
  ASSUME NEW c \in CodeUnits
  PROVE  /\ c \in Nat /\ c % 256 \in Byte /\ c \div 256 \in Byte
         /\ c = (c % 256) + 256 * (c \div 256)
<1>1. PICK n \in Nat : n = c /\ n < 256 * 256
  BY DEF CodeUnits
<1>2. n % 256 \in 0 .. 255
  OBVIOUS
<1>3. n \div 256 \in Nat
  OBVIOUS
<1>4. n = (n % 256) + 256 * (n \div 256)
  OBVIOUS
<1>5. n \div 256 \in 0 .. 255
  BY <1>1, <1>2, <1>3, <1>4
<1>6. QED
  BY <1>1, <1>2, <1>4, <1>5 DEF Byte

(* The bytes the writer stored for the text.                                *)
LEMMA TextBytesFacts ==
  ASSUME entry \in Entries
  PROVE  /\ entry.text \in Seq(CodeUnits)
         /\ TextBytes \in Seq(Byte)
         /\ Len(TextBytes) = 2 * Len(entry.text)
         /\ \A i \in 1 .. Len(entry.text) :
              /\ TextBytes[2 * i - 1] = entry.text[i] % 256
              /\ TextBytes[2 * i] = entry.text[i] \div 256
<1>1. PICK text \in Seq(CodeUnits) : text = entry.text
  BY EntryIsWellWritten DEF WellWritten
<1>2. PICK n \in Nat : n = Len(text) /\ text \in [1 .. n -> CodeUnits]
  BY LenProperties
<1> DEFINE Part(i) == <<text[i] % 256, text[i] \div 256>>
           parts == [i \in DOMAIN text |-> Part(i)]
           e == [i \in 0 .. n |-> 2 * i]
<1>3. ASSUME NEW i \in 1 .. n
      PROVE  Part(i) \in Seq(Byte) /\ Len(Part(i)) = 2
             /\ Part(i)[1] = text[i] % 256 /\ Part(i)[2] = text[i] \div 256
  <2>1. text[i] \in CodeUnits
    BY <1>2
  <2>2. text[i] % 256 \in Byte /\ text[i] \div 256 \in Byte
    BY <2>1, CodeUnitBytes
  <2>3. \A V : \A a, b \in V : <<a, b>> \in Seq(V)
    OBVIOUS
  <2>4. Part(i) \in Seq(Byte)
    BY <2>2, <2>3, Zenon
  <2>5. QED
    BY <2>4
<1>4. TextBytes = FlattenSeq(parts)
  BY <1>1 DEF TextBytes
<1>5. parts = [i \in 1 .. n |-> Part(i)]
  BY <1>2
<1> HIDE DEF Part
<1>6. parts \in Seq(Seq(Byte)) /\ Len(parts) = n
  BY <1>3, <1>5
<1>7. \A i \in 1 .. n : parts[i] = Part(i)
  BY <1>5
<1>8. /\ e[0] = 0 /\ e[n] = 2 * n
      /\ \A i \in 1 .. n : e[i] \in Nat /\ e[i] = e[i - 1] + 2
      /\ \A i \in 1 .. n : e[i - 1] + 1 = 2 * i - 1 /\ e[i - 1] + 2 = 2 * i
  OBVIOUS
<1> HIDE DEF e, parts
<1>9. EndsOf(e, parts)
  BY <1>3, <1>6, <1>7, <1>8 DEF EndsOf
<1>10. TextBytes \in Seq(Byte) /\ PutTogether(TextBytes, e, parts)
  BY <1>4, <1>6, <1>9, Flattened
<1>11. Len(TextBytes) = 2 * n
  BY <1>6, <1>8, <1>10 DEF PutTogether
<1>12. ASSUME NEW i \in 1 .. n
       PROVE  /\ TextBytes[2 * i - 1] = text[i] % 256
              /\ TextBytes[2 * i] = text[i] \div 256
  <2>1. \A j \in 1 .. 2 : TextBytes[e[i - 1] + j] = Part(i)[j]
    <3>1. parts[i] = Part(i) /\ Len(parts[i]) = 2 /\ i \in 1 .. Len(parts)
      BY <1>3, <1>6, <1>7
    <3>2. QED
      BY <1>10, <3>1, Zenon DEF PutTogether
  <2>2. TextBytes[e[i - 1] + 1] = Part(i)[1]
        /\ TextBytes[e[i - 1] + 2] = Part(i)[2]
    BY <2>1
  <2>3. QED
    BY <1>3, <1>8, <2>2
<1>13. QED
  BY <1>1, <1>2, <1>10, <1>11, <1>12

(* The ASCII characters of bytes, or of what stands before the terminator:  *)
(* replacing a byte makes no terminator and takes none away.                *)
LEMMA AsciiUpToEnd ==
  ASSUME NEW s \in Seq(Nat)
  PROVE  /\ AsciiCharacters(s) \in Seq(Nat)
         /\ UpToEnd(AsciiCharacters(s)) = AsciiCharacters(UpToEnd(s))
<1> DEFINE a == AsciiCharacters(s)
<1>1. PICK n \in Nat : n = Len(s) /\ \A i \in 1 .. n : s[i] \in Nat
  BY LenProperties
<1>2. \A c \in Nat : /\ AsciiCharacter(c) \in Nat
                     /\ AsciiCharacter(c) = 0 <=> c = 0
  BY DEF AsciiCharacter, ReplacementCharacter
<1>3. a = [i \in 1 .. n |-> AsciiCharacter(s[i])]
  BY <1>1 DEF AsciiCharacters
<1>4. /\ a \in Seq(Nat) /\ Len(a) = n
      /\ \A i \in 1 .. n : a[i] = AsciiCharacter(s[i])
  <2>1. \A i \in 1 .. n : AsciiCharacter(s[i]) \in Nat
    BY <1>1, <1>2
  <2>2. a \in [1 .. n -> Nat]
    BY <1>3, <2>1
  <2> HIDE DEF a
  <2>3. a \in Seq(Nat) /\ Len(a) = n
    BY <2>2
  <2>4. QED
    BY <1>3, <2>3
<1> HIDE DEF a
<1>5. PICK z \in Nat : z = End(s) - 1 /\ z <= n /\ End(a) - 1 = z
  <2>1. \A i \in 1 .. n : a[i] = 0 <=> s[i] = 0
    BY <1>1, <1>2, <1>4
  <2>2. /\ End(s) \in 1 .. n + 1 /\ End(a) \in 1 .. n + 1
        /\ End(s) <= n => s[End(s)] = 0
        /\ End(a) <= n => a[End(a)] = 0
        /\ \A i \in 1 .. n : i < End(s) => s[i] # 0
        /\ \A i \in 1 .. n : i < End(a) => a[i] # 0
    BY <1>1, <1>4, EndFacts
  <2>3. ~(End(a) < End(s)) /\ ~(End(s) < End(a))
    BY <1>1, <2>1, <2>2
  <2>4. End(a) = End(s) /\ End(s) - 1 \in Nat /\ End(s) - 1 <= n
    BY <1>1, <2>2, <2>3
  <2>5. QED
    BY <2>4
<1>6. UpToEnd(s) = SubSeq(s, 1, z) /\ UpToEnd(a) = SubSeq(a, 1, z)
  BY <1>4, <1>5, EndFacts
<1>7. SubSeq(a, 1, z) = [i \in 1 .. z |-> AsciiCharacter(s[i])]
  <2>1. SubSeq(a, 1, z) = [i \in 1 .. z |-> a[i]]
    BY <1>4, <1>5
  <2>2. \A i \in 1 .. z : a[i] = AsciiCharacter(s[i])
    BY <1>4, <1>5
  <2>3. QED
    BY <2>1, <2>2
<1>8. AsciiCharacters(SubSeq(s, 1, z)) = [i \in 1 .. z |-> AsciiCharacter(s[i])]
  <2>1. Len(SubSeq(s, 1, z)) = z /\ \A i \in 1 .. z : SubSeq(s, 1, z)[i] = s[i]
    BY <1>1, <1>5
  <2>2. QED
    BY <2>1, Zenon DEF AsciiCharacters
<1>9. QED
  BY <1>4, <1>6, <1>7, <1>8 DEF a

(* Read two bytes at a time they are the text.                              *)
LEMMA CharactersOfTwo ==
  ASSUME NEW b \in Seq(Byte), NEW text \in Seq(CodeUnits),
         Len(b) = 2 * Len(text),
         \A i \in 1 .. Len(text) : /\ b[2 * i - 1] = text[i] % 256
                                   /\ b[2 * i] = text[i] \div 256
  PROVE  Characters(b) = text
<1>1. PICK n \in Nat : n = Len(text) /\ text = [i \in 1 .. n |-> text[i]]
  BY LenProperties
<1>2. b \in Seq(Nat)
  <2>1. Byte \subseteq Nat
    BY DEF Byte
  <2>2. QED
    BY <2>1, SeqOfMore
<1>3. ASSUME NEW i \in 1 .. n
      PROVE  LittleEndian(SubSeq(b, 2 * (i - 1) + 1, 2 * i)) = text[i]
  <2>1. PICK k \in Nat : k = 2 * i - 1 /\ k + 1 = 2 * i /\ k + 1 <= Len(b)
                         /\ k >= 1
    <3>1. 2 * i - 1 \in Nat /\ 2 * i - 1 + 1 = 2 * i /\ 2 * i <= Len(b)
          /\ 2 * i - 1 >= 1
      BY <1>1
    <3>2. QED
      BY <3>1
  <2>2. 2 * (i - 1) + 1 = k
    BY <2>1
  <2> DEFINE s == SubSeq(b, k, k + 1)
  <2>3. s \in Seq(Nat) /\ Len(s) = 2 /\ s[1] = b[k] /\ s[2] = b[k + 1]
    BY <1>2, <2>1
  <2> HIDE DEF s
  <2>4. LittleEndian(s) = b[k] + 256 * b[k + 1]
    BY <2>3, LittleEndianOfTwo
  <2>5. text[i] \in CodeUnits
    BY <1>1
  <2>6. b[k] = text[i] % 256 /\ b[k + 1] = text[i] \div 256
    BY <1>1, <2>1
  <2>7. LittleEndian(s) = text[i]
    BY <2>4, <2>5, <2>6, CodeUnitBytes
  <2>8. QED
    BY <2>1, <2>2, <2>7 DEF s
<1>4. Len(b) \div 2 = n
  BY <1>1
<1>5. QED
  BY <1>1, <1>3, <1>4 DEF Characters

-----------------------------------------------------------------------------
(* The number of characters the entry gives is that of its field            *)

(* The size of the string is two bytes for each character, and two more.    *)
LEMMA StringSizeGiven ==
  ASSUME entry \in Entries, kind \in {"volume", "file"}
  PROVE  \/ EntryStringSize = 0
         \/ \E given \in Nat : /\ given = CharactersGiven(entry)
                              /\ EntryStringSize = 2 * (given + 1)
<1>1. CASE kind = "volume" /\ entry_size \in VolumeSizes
  <2> DEFINE n == Written("device_path_number_of_characters")
  <2>1. "device_path_number_of_characters" \in FieldsOf["volume"]
    BY DEF FieldsOf
  <2>2. n \in Nat /\ EntryStringSize = DevicePathSize(n)
    BY <1>1, <2>1, VolumeFieldsRead DEF EntryStringSize, Supported
  <2>3. n = CharactersGiven(entry)
    BY <1>1 DEF Written, CharactersGiven, kind
  <2> HIDE DEF n
  <2>4. QED
    BY <2>2, <2>3 DEF DevicePathSize
<1>2. CASE kind = "file" /\ Supported
  <2> DEFINE field == Written("path_number_of_characters")
  <2>1. "path_number_of_characters" \in FieldsOf["file"]
        /\ entry_size \in FileSizes32 \cup FileSizes64
    BY <1>2 DEF FieldsOf, Supported
  <2>2. field \in Nat /\ EntryStringSize = PathSize(field)
    BY <1>2, <2>1, FileFieldsRead DEF EntryStringSize
  <2>3. field \div 4 = CharactersGiven(entry)
    BY <1>2 DEF Written, CharactersGiven, kind
  <2> HIDE DEF field
  <2>4. field \div 4 \in Nat
    BY <2>2
  <2>5. PathSize(field) \in {0, 2 * (field \div 4 + 1)}
    BY <2>4 DEF PathSize
  <2>6. 2 * (field \div 4 + 1) \in Nat
    BY <2>4
  <2>7. QED
    BY <2>2, <2>3, <2>5, <2>6
<1>3. CASE ~Supported \/ (kind = "volume" /\ entry_size \notin VolumeSizes)
  BY <1>3 DEF EntryStringSize
<1>4. QED
  BY <1>1, <1>2, <1>3

(* What is kept of a string that is not cut is all of it.                   *)
LEMMA KeptIsText ==
  ASSUME entry \in Entries, kind \in {"volume", "file"},
         object.string_size = EntryStringSize, object.string_size > 0,
         object.string_size <= Len(TextBytes)
  PROVE  Kept = TextBytes
<1>1. EntryStringSize # 0
  OBVIOUS
<1>2. PICK given \in Nat : given = CharactersGiven(entry)
                           /\ EntryStringSize = 2 * (given + 1)
  BY <1>1, StringSizeGiven
<1>3. Len(entry.text) <= given + 1
  BY <1>2, EntryIsWellWritten DEF WellWritten, kind
<1>4. entry.text \in Seq(CodeUnits) /\ TextBytes \in Seq(Byte)
      /\ Len(TextBytes) = 2 * Len(entry.text)
  BY TextBytesFacts
<1>5. PICK n \in Nat : n = Len(entry.text)
  BY <1>4, LenProperties
<1>6. object.string_size = Len(TextBytes)
  <2>1. PICK m \in Nat : m = object.string_size /\ m = 2 * (given + 1)
    BY <1>2
  <2>2. Len(TextBytes) = 2 * n /\ n <= given + 1
    BY <1>3, <1>4, <1>5
  <2>3. m <= 2 * n
    BY <2>1, <2>2
  <2>4. m = 2 * n
    BY <2>1, <2>2, <2>3
  <2>5. QED
    BY <2>1, <2>2, <2>4
<1>7. \A s \in Seq(Byte) : s = [i \in 1 .. Len(s) |-> s[i]]
  BY LenProperties
<1>8. QED
  BY <1>4, <1>6, <1>7, Zenon DEF Kept

(* That size is a natural number.                                           *)
LEMMA StringSizeIsNat ==
  ASSUME entry \in Entries, kind \in {"volume", "file"}
  PROVE  EntryStringSize \in Nat
  BY StringSizeGiven

-----------------------------------------------------------------------------
(* What decoding the entry gives                                            *)

Filename == entry.fields["executable_filename"]

(* What decoding a volume entry sets.                                       *)
LEMMA DecodedVolume ==
  ASSUME entry \in Entries, ObjectInv, object # NULL, DecodeEntry,
         kind = "volume"
  PROVE  /\ number_of_entries' = number_of_entries
         /\ entry_size \notin VolumeSizes => object' = object
         /\ entry_size \in VolumeSizes =>
              /\ object'.number_of_files = Written("number_of_files")
              /\ object'.creation_time = Written("creation_time")
              /\ object'.serial_number = Written("serial_number")
              /\ {Written("number_of_files"), Written("creation_time"),
                  Written("serial_number")} \subseteq Nat
<1>1. object' = VolumeData(Data) /\ number_of_entries' = number_of_entries
  BY DEF DecodeEntry, EntriesField
<1>2. CASE entry_size \in VolumeSizes
  <2>1. {"number_of_files", "creation_time", "serial_number"}
          \subseteq FieldsOf["volume"]
    BY DEF FieldsOf
  <2> DEFINE F(name) == FieldValue(VolumeCast, Data, name)
             size == DevicePathSize(F("device_path_number_of_characters"))
  <2>2. object' = [object EXCEPT
                     !.number_of_files = F("number_of_files"),
                     !.creation_time = F("creation_time"),
                     !.serial_number = F("serial_number"),
                     !.string_size = size]
    BY <1>1, <1>2 DEF VolumeData
  <2>3. \A name \in {"number_of_files", "creation_time", "serial_number"} :
          F(name) = Written(name) /\ Written(name) \in Nat
    BY <1>2, <2>1, VolumeFieldsRead
  <2> HIDE DEF F, size
  <2>4. /\ object'.number_of_files = F("number_of_files")
        /\ object'.creation_time = F("creation_time")
        /\ object'.serial_number = F("serial_number")
    BY <2>2 DEF ObjectInv, Fields
  <2>5. QED
    BY <1>1, <1>2, <2>3, <2>4
<1>3. CASE entry_size \notin VolumeSizes
  BY <1>1, <1>3 DEF VolumeData
<1>4. QED
  BY <1>2, <1>3

(* What decoding a file entry sets.                                         *)
LEMMA DecodedFile ==
  ASSUME entry \in Entries, ObjectInv, object # NULL, DecodeEntry,
         kind = "file"
  PROVE  /\ number_of_entries' = Written("number_of_entries")
         /\ Written("number_of_entries") \in Nat
         /\ object'.number_of_files = object.number_of_files
         /\ object'.creation_time = object.creation_time
         /\ object'.serial_number = object.serial_number
<1>1. entry_size \in FileSizes32 \cup FileSizes64
  BY DEF DecodeEntry, Supported
<1>2. "number_of_entries" \in FieldsOf["file"]
  BY DEF FieldsOf
<1>3. number_of_entries' = FieldValue(FileCast, Data, "number_of_entries")
  BY DEF DecodeEntry, EntriesField
<1>4. PICK size : object' = [object EXCEPT !.string_size = size]
  BY DEF DecodeEntry, FileData
<1>5. /\ object'.number_of_files = object.number_of_files
      /\ object'.creation_time = object.creation_time
      /\ object'.serial_number = object.serial_number
  BY <1>4 DEF ObjectInv, Fields
<1>6. QED
  BY <1>1, <1>2, <1>3, <1>5, FileFieldsRead

(* What decoding a source entry sets: the filename is in the longer two.    *)
LEMMA DecodedSource ==
  ASSUME entry \in Entries, ObjectInv, object # NULL, DecodeEntry,
         kind = "source"
  PROVE  /\ entry_size \in {60, 88} =>
              /\ object' = object
              /\ number_of_entries' = Written("unknown3")
              /\ Written("unknown3") \in Nat
         /\ entry_size \notin {60, 88} =>
              /\ number_of_entries' = number_of_entries
              /\ object'.number_of_files = object.number_of_files
              /\ object'.creation_time = object.creation_time
              /\ object'.serial_number = object.serial_number
              /\ object'.string = Filename
              /\ object'.string_size = End(Filename)
              /\ Filename \in Seq(Byte) /\ Len(Filename) = 16
<1>1. entry_size \in SourceSizes /\ object' = SourceData(Data)
      /\ number_of_entries' = EntriesField(Data)
  BY DEF DecodeEntry, Supported
<1>2. CASE entry_size \in {60, 88}
  BY <1>1, <1>2, SourceFieldsRead DEF SourceData, EntriesField
<1>3. CASE entry_size \notin {60, 88}
  <2>1. /\ FieldBytes(SourceCast, Data, "executable_filename") = Filename
        /\ Filename \in Seq(Byte) /\ Len(Filename) = 16
    BY <1>1, <1>3, SourceFieldsRead, Zenon DEF Filename, Byte
  <2>2. number_of_entries' = number_of_entries
    BY <1>1, <1>3 DEF EntriesField
  <2>3. PICK name, size : name = Filename /\ size = FilenameSize(Filename)
    OBVIOUS
  <2>4. object' = [object EXCEPT !.string = name, !.string_size = size]
    BY <1>1, <1>3, <2>1, <2>3, Zenon DEF SourceData
  <2>5. /\ object'.number_of_files = object.number_of_files
        /\ object'.creation_time = object.creation_time
        /\ object'.serial_number = object.serial_number
        /\ object'.string = name /\ object'.string_size = size
    BY <2>4 DEF ObjectInv, Fields
  <2>6. Filename \in Seq(Nat)
    <3>1. Byte \subseteq Nat
      BY DEF Byte
    <3>2. QED
      BY <2>1, <3>1, SeqOfMore
  <2>7. size = End(Filename)
    BY <2>3, <2>6, EndFacts
  <2>8. QED
    BY <1>3, <2>1, <2>2, <2>3, <2>5, <2>7
<1>4. QED
  BY <1>2, <1>3

-----------------------------------------------------------------------------
(* The fields, the counts and the string                                    *)

NumberInv ==
  /\ entry \in Entries /\ sub_entry_size \in SubEntrySizes
  /\ number_of_entries \in Nat /\ index \in Nat
  /\ result \in {"none", "new", "data", "ok", "error", "refused"}
  /\ object # NULL =>
       {object.string_size, object.creation_time, object.serial_number,
        object.number_of_files} \subseteq Nat

\* How far the files of a volume have been read.
CountInv ==
  /\ object = NULL => result = "none"
  /\ pc # "idle" => result \in {"new", "data"}
  /\ object # NULL => object.files <= object.number_of_files
  /\ /\ object # NULL
     /\ pc \in {"entry", "string", "string_data"}
          \/ (pc = "idle" /\ result \in {"new", "data"})
     => object.files = 0
  /\ pc \in {"entry", "string", "string_data"} => index = 0
  /\ pc \in {"files", "file"} => object.files = index
  /\ pc = "file" => index < object.number_of_files
  /\ pc = "sub_entries" => kind # "volume"
  /\ kind = "volume" =>
       /\ result = "ok" \/ pc \in {"string_data", "files", "file"} => Readable
       /\ result = "ok" => object.files = object.number_of_files

FieldsRead ==
  IF kind = "volume"
  THEN Readable => /\ object.number_of_files = Written("number_of_files")
                   /\ object.creation_time = Written("creation_time")
                   /\ object.serial_number = Written("serial_number")
  ELSE IF kind = "file" THEN number_of_entries = Written("number_of_entries")
  ELSE entry_size \in {60, 88} => number_of_entries = Written("unknown3")

\* Once decoded, the fields stay, whatever is read after them.
FieldsInv ==
  object # NULL /\ (result \in {"data", "ok"} \/ pc \notin {"idle", "entry"})
  => FieldsRead

\* A string is that of the entry, except while it is being read.
TextInv ==
  object # NULL =>
    IF kind = "source"
    THEN /\ object.string \in Seq(Byte) /\ Len(object.string) = 16
         /\ object.string_size > 0 =>
              object.string = Filename /\ object.string_size = End(Filename)
    ELSE \/ object.string \in {NULL, TextBytes}
         \/ pc = "string_data" /\ object.string \in Seq(Byte)

\* A filename of 16 bytes has a terminator among them.
TerminatedFilenames ==
  \A e \in Entries :
    e.kind = "source" => \E i \in 1 .. 16 : e.fields["executable_filename"][i] = 0

ReturnedInv ==
  /\ returned \subseteq Seq(Nat)
  /\ TerminatedFilenames => StringAsWritten

\* What is decoded anew only with the entry.
NumbersKept ==
  /\ object'.number_of_files = object.number_of_files
  /\ object'.creation_time = object.creation_time
  /\ object'.serial_number = object.serial_number

(* Dropping the string leaves the numbers alone.                            *)
LEMMA DropKeepsNumbers ==
  ASSUME ObjectInv, object # NULL, DropString
  PROVE  NumbersKept
  BY DEF ObjectInv, Fields, DropString, NumbersKept

(* Setting the string leaves the numbers alone.                             *)
LEMMA StringSetKeepsNumbers ==
  ASSUME ObjectInv, object # NULL, NEW string,
         object' = [object EXCEPT !.string = string]
  PROVE  NumbersKept
  BY DEF ObjectInv, Fields, NumbersKept

(* Appending a file leaves the numbers alone.                               *)
LEMMA AppendKeepsNumbers ==
  ASSUME ObjectInv, object # NULL, object' = [object EXCEPT !.files = @ + 1]
  PROVE  /\ NumbersKept
         /\ object'.string_size = object.string_size
         /\ object'.string = object.string
         /\ object'.files = object.files + 1
  BY DEF ObjectInv, Fields, NumbersKept

(* A step that does not decode the entry or begin with a new object.        *)
LEMMA OtherStep ==
  ASSUME ObjectInv, [Next]_vars
  PROVE  \/ object' = NULL /\ number_of_entries' = number_of_entries
         \/ Initialize
         \/ (ReadData \/ ReadEntry) /\ DecodeEntry
         \/ /\ object # NULL /\ NumbersKept
            /\ object'.string_size \in {object.string_size, 0}
            /\ number_of_entries' = number_of_entries
<1>1. CASE UNCHANGED <<object, number_of_entries>>
  BY <1>1 DEF NumbersKept
<1>2. CASE Initialize \/ InternalFree
  BY <1>2 DEF InternalFree
<1>3. CASE ReadData \/ ReadEntry
  <2>1. DecodeEntry \/ UNCHANGED <<object, number_of_entries>>
    BY <1>3 DEF ReadData, ReadEntry
  <2>2. QED
    BY <1>1, <1>3, <2>1
<1>4. ASSUME object # NULL, DropString, number_of_entries' = number_of_entries
      PROVE  NumbersKept /\ object'.string_size = 0
  BY <1>4, DropKeepsNumbers, DroppedString
<1>5. ASSUME NEW string, object # NULL,
             object' = [object EXCEPT !.string = string]
      PROVE  NumbersKept /\ object'.string_size = object.string_size
  BY <1>5, StringSetKeepsNumbers, StringSet
<1>6. CASE ReadPathData
  <2>1. object # NULL /\ number_of_entries' = number_of_entries
    BY <1>6 DEF ReadPathData
  <2>2. CASE UNCHANGED object
    BY <1>1, <2>1, <2>2
  <2>3. CASE DropString
    BY <1>4, <2>1, <2>3
  <2>4. CASE object' = [object EXCEPT !.string = Kept]
    BY <1>5, <2>1, <2>4
  <2>5. QED
    BY <1>6, <2>2, <2>3, <2>4 DEF ReadPathData
<1>7. CASE BeginRead
  <2>1. object # NULL /\ number_of_entries' = number_of_entries
    BY <1>7 DEF BeginRead
  <2>2. CASE UNCHANGED object
    BY <1>1, <2>1, <2>2
  <2>3. CASE DropString
    BY <1>4, <2>1, <2>3
  <2>4. QED
    BY <1>7, <2>2, <2>3 DEF BeginRead
<1>8. CASE AllocateString
  <2>1. object # NULL /\ number_of_entries' = number_of_entries
    BY <1>8 DEF AllocateString, ObjectInv
  <2>2. CASE UNCHANGED object
    BY <1>1, <2>1, <2>2
  <2>3. CASE object' = [object EXCEPT !.string = Zeroes(object.string_size)]
    BY <1>5, <2>1, <2>3
  <2>4. QED
    BY <1>8, <2>2, <2>3 DEF AllocateString
<1>9. CASE ReadString
  <2>1. object # NULL /\ number_of_entries' = number_of_entries
        /\ object' = [object EXCEPT !.string = Kept]
    BY <1>9 DEF ReadString, ObjectInv
  <2>2. QED
    BY <1>5, <2>1
<1>10. CASE AppendFile
  <2>1. object # NULL /\ number_of_entries' = number_of_entries
        /\ object' = [object EXCEPT !.files = @ + 1]
    BY <1>10 DEF AppendFile, ObjectInv
  <2>2. QED
    BY <2>1, AppendKeepsNumbers
<1>11. CASE InitializeFile \/ ReadSubEntry \/ SubEntriesUnknown \/ ReadEnds
              \/ Getters \/ UNCHANGED vars
  BY <1>1, <1>11
  DEF InitializeFile, ReadSubEntry, SubEntriesUnknown, ReadEnds, Getters,
      GetDevicePath, GetPath, GetExecutableFilename, ReturnString, vars
<1>12. CASE ReadFails
  <2>1. object # NULL /\ DropString /\ number_of_entries' = number_of_entries
    BY <1>12 DEF ReadFails, MayFail, ObjectInv
  <2>2. QED
    BY <1>4, <2>1
<1>13. QED
  BY <1>2, <1>3, <1>6, <1>7, <1>8, <1>9, <1>10, <1>11, <1>12
  DEF Next, Read, Getters

(* The index and the result keep their types.                               *)
LEMMA StepIndexAndResult ==
  ASSUME ObjectInv, [Next]_vars, index \in Nat,
         result \in {"none", "new", "data", "ok", "error", "refused"}
  PROVE  /\ index' \in Nat
         /\ result' \in {"none", "new", "data", "ok", "error", "refused"}
<1>1. CASE Initialize \/ InternalFree \/ ReadData \/ ReadPathData \/ Getters
             \/ UNCHANGED vars
  BY <1>1
  DEF Initialize, InternalFree, ReadData, ReadPathData, Getters,
      GetDevicePath, GetPath, GetExecutableFilename, ReturnString, vars
<1>2. CASE BeginRead
  BY <1>2 DEF BeginRead, Goto, Return
<1>3. CASE ReadEntry \/ AllocateString \/ ReadString
  BY <1>3 DEF ReadEntry, AllocateString, ReadString, Goto
<1>4. CASE InitializeFile \/ AppendFile \/ ReadSubEntry
  BY <1>4 DEF InitializeFile, AppendFile, ReadSubEntry, Goto
<1>5. CASE SubEntriesUnknown \/ ReadEnds \/ ReadFails
  BY <1>5 DEF SubEntriesUnknown, ReadEnds, ReadFails, Return
<1>6. QED
  BY <1>1, <1>2, <1>3, <1>4, <1>5 DEF Next, Read, Getters

(* Every step keeps the types of the numbers.                               *)
LEMMA StepNumber ==
  ASSUME ObjectInv, StringInv, NumberInv, [Next]_vars
  PROVE  NumberInv'
<1>1. entry' = entry /\ sub_entry_size' = sub_entry_size
  BY EntryKept
<1>2. /\ index' \in Nat
      /\ result' \in {"none", "new", "data", "ok", "error", "refused"}
  BY StepIndexAndResult DEF NumberInv
<1>3. kind \in {"volume", "file", "source"}
  BY DEF ObjectInv
<1>4. SUFFICES
        /\ number_of_entries' \in Nat
        /\ object' # NULL =>
             {object'.string_size, object'.creation_time,
              object'.serial_number, object'.number_of_files} \subseteq Nat
  BY <1>1, <1>2 DEF NumberInv, NULL
<1>5. CASE object' = NULL /\ number_of_entries' = number_of_entries
  BY <1>5 DEF NumberInv
<1>6. CASE Initialize
  BY <1>6 DEF Initialize, Blank
<1>7. CASE (ReadData \/ ReadEntry) /\ DecodeEntry
  <2>1. object # NULL
    BY <1>7 DEF ReadData, ReadEntry, ObjectInv
  <2>2. {object.string_size, object.creation_time, object.serial_number,
         object.number_of_files} \subseteq Nat
        /\ entry \in Entries /\ number_of_entries \in Nat
    BY <2>1 DEF NumberInv
  <2>3. kind # "source" => object'.string_size = EntryStringSize
                           /\ EntryStringSize \in Nat
    BY <1>1, <1>3, <1>7, <2>1, <2>2, DecodedObject, StringSizeIsNat
  <2>4. CASE kind = "volume"
    BY <1>7, <2>1, <2>2, <2>3, <2>4, DecodedVolume
  <2>5. CASE kind = "file"
    BY <1>7, <2>1, <2>2, <2>3, <2>5, DecodedFile
  <2>6. CASE kind = "source"
    <3>1. CASE entry_size \in {60, 88}
      BY <1>7, <2>1, <2>2, <2>6, <3>1, DecodedSource
    <3>2. CASE entry_size \notin {60, 88}
      <4>1. Filename \in Seq(Nat) /\ Len(Filename) = 16
        <5>1. Byte \subseteq Nat
          BY DEF Byte
        <5>2. Filename \in Seq(Byte) /\ Len(Filename) = 16
          BY <1>7, <2>1, <2>2, <2>6, <3>2, DecodedSource
        <5>3. QED
          BY <5>1, <5>2, SeqOfMore
      <4>2. End(Filename) \in Nat
        BY <4>1, EndFacts
      <4>3. QED
        BY <1>7, <2>1, <2>2, <2>6, <3>2, <4>2, DecodedSource
    <3>3. QED
      BY <3>1, <3>2
  <2>7. QED
    BY <1>3, <2>4, <2>5, <2>6
<1>8. CASE /\ object # NULL /\ NumbersKept
           /\ object'.string_size \in {object.string_size, 0}
           /\ number_of_entries' = number_of_entries
  BY <1>8 DEF NumberInv, NumbersKept
<1>9. QED
  BY <1>5, <1>6, <1>7, <1>8, OtherStep

(* A getter leaves the counts alone.                                        *)
LEMMA GettersKeepCounts ==
  Getters => UNCHANGED <<number_of_entries, index>>
  BY DEF Getters, GetDevicePath, GetPath, GetExecutableFilename, ReturnString

(* A new object has zero for its numbers.                                   *)
LEMMA BlankNumbers ==
  /\ Blank.number_of_files = 0 /\ Blank.creation_time = 0
  /\ Blank.serial_number = 0
  BY DEF Blank

(* Every step keeps the counts.                                             *)
LEMMA StepCount ==
  ASSUME ObjectInv, StringInv, NumberInv, CountInv, [Next]_vars
  PROVE  CountInv'
<1>1. entry' = entry /\ kind' = kind /\ Readable' = Readable /\ NULL' = NULL
  BY EntryKept DEF kind, Readable, entry_size, NULL
<1>2. object' # NULL => object'.number_of_files \in Nat
  BY <1>1, StepNumber DEF NumberInv
<1>3. object # NULL => object.files \in Nat /\ object.number_of_files \in Nat
  BY DEF ObjectInv, NumberInv
<1> USE DEF CountInv
<1>4. CASE Initialize
  BY <1>1, <1>4, BlankObject, BlankNumbers DEF Initialize
<1>5. CASE InternalFree
  BY <1>1, <1>5 DEF InternalFree
<1>6. CASE ReadData
  <2>1. /\ pc = "idle" /\ pc' = "idle" /\ object # NULL
        /\ result \in {"new", "data"} /\ object.files = 0
    BY <1>6 DEF ReadData
  <2>2. CASE DecodeEntry /\ result' = "data"
    <3>1. object' # NULL /\ object'.files = 0
      BY <1>1, <2>1, <2>2, DecodedObject
    <3>2. QED
      BY <1>1, <1>2, <2>1, <2>2, <3>1
  <2>3. CASE UNCHANGED <<object, result>>
    BY <1>1, <2>1, <2>3
  <2>4. QED
    BY <1>6, <2>2, <2>3 DEF ReadData
<1>7. CASE ReadPathData
  <2>1. /\ pc = "idle" /\ pc' = "idle" /\ object # NULL
        /\ result = "data" /\ object.files = 0
        /\ result' \in {"data", "error"}
    BY <1>7 DEF ReadPathData
  <2>2. object' # NULL /\ object'.files = 0
    <3>1. CASE UNCHANGED object
      BY <2>1, <3>1
    <3>2. CASE DropString
      BY <2>1, <3>2, DroppedString
    <3>3. CASE object' = [object EXCEPT !.string = Kept]
      <4>1. PICK string : string = Kept
        OBVIOUS
      <4>2. QED
        BY <2>1, <3>3, <4>1, StringSet
    <3>4. QED
      BY <1>7, <3>1, <3>2, <3>3 DEF ReadPathData
  <2>3. QED
    BY <1>1, <1>2, <2>1, <2>2
<1>8. CASE BeginRead
  <2>1. /\ pc = "idle" /\ object # NULL /\ object.files = 0 /\ index' = 0
        /\ result \in {"new", "data"}
    BY <1>8 DEF BeginRead
  <2>2. object' # NULL /\ object'.files = 0
    <3>1. CASE UNCHANGED object
      BY <2>1, <3>1
    <3>2. CASE DropString
      BY <2>1, <3>2, DroppedString
    <3>3. QED
      BY <1>8, <3>1, <3>2 DEF BeginRead
  <2>3. \/ pc' = "entry" /\ result' = result
        \/ pc' = "idle" /\ result' \in {"error", "refused"}
    BY <1>8 DEF BeginRead, Goto, Return
  <2>4. QED
    BY <1>1, <1>2, <2>1, <2>2, <2>3
<1>9. CASE ReadEntry
  <2>1. /\ pc = "entry" /\ object # NULL /\ object.files = 0 /\ index = 0
        /\ result \in {"new", "data"}
        /\ pc' = IF kind = "source" THEN "sub_entries" ELSE "string"
        /\ result' = result /\ index' = index /\ DecodeEntry
    BY <1>9 DEF ReadEntry, ObjectInv, Goto
  <2>2. object' # NULL /\ object'.files = 0
    BY <1>1, <2>1, DecodedObject
  <2>3. QED
    BY <1>1, <1>2, <2>1, <2>2
<1>10. CASE AllocateString \/ ReadString
  <2>1. /\ pc \in {"string", "string_data"} /\ object # NULL
        /\ object.files = 0 /\ index = 0 /\ result \in {"new", "data"}
        /\ result' = result /\ index' = index
        /\ pc' \in {"string_data", IF kind = "volume" THEN "files"
                                                     ELSE "sub_entries"}
        /\ kind = "volume" => Readable
    BY <1>10 DEF AllocateString, ReadString, ObjectInv, Goto
  <2>2. object' # NULL /\ object'.files = 0
    <3>1. CASE UNCHANGED object
      BY <2>1, <3>1
    <3>2. CASE \E string : object' = [object EXCEPT !.string = string]
      BY <2>1, <3>2, StringSet
    <3>3. QED
      BY <1>10, <3>1, <3>2 DEF AllocateString, ReadString
  <2>3. QED
    BY <1>1, <1>2, <2>1, <2>2
<1>11. CASE InitializeFile
  BY <1>1, <1>11 DEF InitializeFile, Goto
<1>12. CASE AppendFile
  <2>1. /\ pc = "file" /\ pc' = "files" /\ object # NULL
        /\ object' = [object EXCEPT !.files = @ + 1]
        /\ index' = index + 1 /\ result' = result
    BY <1>12 DEF AppendFile, ObjectInv, Goto
  <2>2. /\ object'.files = object.files + 1
        /\ object'.number_of_files = object.number_of_files
    BY <2>1, AppendKeepsNumbers DEF NumbersKept
  <2>3. object'.files = index' /\ object'.files <= object'.number_of_files
    BY <1>3, <2>1, <2>2 DEF NumberInv
  <2>4. kind = "volume" /\ result' \in {"new", "data"} /\ Readable
    BY <2>1 DEF ObjectInv
  <2>5. object' # NULL
    BY <2>1, StepObject DEF ObjectInv, NULL
  <2>6. QED
    BY <1>1, <2>1, <2>3, <2>4, <2>5
<1>13. CASE ReadSubEntry \/ SubEntriesUnknown
  BY <1>1, <1>13
  DEF ReadSubEntry, SubEntriesUnknown, Goto, Return, ObjectInv
<1>14. CASE ReadEnds
  <2>1. /\ object # NULL /\ object' = object /\ pc' = "idle" /\ result' = "ok"
        /\ \/ pc = "files" /\ index = object.number_of_files
           \/ pc = "sub_entries"
    BY <1>14 DEF ReadEnds, Return, ObjectInv
  <2>2. QED
    BY <1>1, <1>3, <2>1
<1>15. CASE ReadFails
  <2>1. /\ object # NULL /\ DropString /\ pc' = "idle" /\ result' = "error"
    BY <1>15 DEF ReadFails, MayFail, Return, ObjectInv
  <2>2. /\ object' # NULL /\ object'.files = object.files
        /\ object'.number_of_files = object.number_of_files
    BY <2>1, DroppedString, DropKeepsNumbers DEF NumbersKept
  <2>3. QED
    BY <1>1, <2>1, <2>2
<1>16. CASE Getters \/ UNCHANGED vars
  <2>1. UNCHANGED <<object, pc, result, index>>
    BY <1>16, GettersRead, GettersKeepCounts DEF vars
  <2>2. QED
    BY <1>1, <2>1
<1>17. QED
  BY <1>4, <1>5, <1>6, <1>7, <1>8, <1>9, <1>10, <1>11, <1>12, <1>13, <1>14,
     <1>15, <1>16
  DEF Next, Read, Getters

-----------------------------------------------------------------------------
(* The fields                                                               *)

(* After decoding, the fields are those of the entry.                       *)
LEMMA DecodedFields ==
  ASSUME entry \in Entries, ObjectInv, object # NULL, DecodeEntry,
         entry' = entry
  PROVE  FieldsRead'
<1>1. /\ kind' = kind /\ entry_size' = entry_size /\ Readable' = Readable
      /\ kind \in {"volume", "file", "source"}
      /\ \A name : Written(name)' = Written(name)
  BY DEF kind, entry_size, Readable, Written, ObjectInv
<1>2. CASE kind = "volume"
  <2>1. Readable <=> entry_size \in VolumeSizes
    BY <1>2 DEF Readable
  <2>2. QED
    BY <1>1, <1>2, <2>1, DecodedVolume DEF FieldsRead, Written
<1>3. CASE kind = "file"
  BY <1>1, <1>3, DecodedFile DEF FieldsRead, Written
<1>4. CASE kind = "source"
  BY <1>1, <1>4, DecodedSource DEF FieldsRead, Written
<1>5. QED
  BY <1>1, <1>2, <1>3, <1>4

Decoded == result \in {"data", "ok"} \/ pc \notin {"idle", "entry"}

\* Only the decoding makes an entry decoded.
LEMMA DecodedBefore ==
  ASSUME ObjectInv, CountInv, [Next]_vars, Decoded', object' # NULL
  PROVE  Decoded \/ ((ReadData \/ ReadEntry) /\ DecodeEntry)
<1> USE DEF Decoded
<1>1. CASE Initialize \/ InternalFree
  BY <1>1 DEF Initialize, InternalFree
<1>2. CASE ReadData \/ ReadEntry
  BY <1>2 DEF ReadData, ReadEntry
<1>3. CASE BeginRead
  BY <1>3 DEF BeginRead, Goto, Return
<1>4. CASE ReadPathData
  BY <1>4 DEF ReadPathData
<1>5. CASE AllocateString \/ ReadString \/ InitializeFile \/ AppendFile
             \/ ReadSubEntry \/ SubEntriesUnknown \/ ReadEnds
  BY <1>5
  DEF AllocateString, ReadString, InitializeFile, AppendFile, ReadSubEntry,
      SubEntriesUnknown, ReadEnds
<1>6. CASE ReadFails
  BY <1>6 DEF ReadFails, Return
<1>7. CASE Getters \/ UNCHANGED vars
  BY <1>7, GettersRead DEF vars
<1>8. QED
  BY <1>1, <1>2, <1>3, <1>4, <1>5, <1>6, <1>7 DEF Next, Read, Getters

(* Every step keeps the fields those of the entry.                          *)
LEMMA StepFields ==
  ASSUME ObjectInv, NumberInv, CountInv, FieldsInv, [Next]_vars
  PROVE  FieldsInv'
<1>1. entry' = entry /\ NULL' = NULL
  BY EntryKept DEF NULL
<1>2. SUFFICES ASSUME object' # NULL, Decoded' PROVE FieldsRead'
  BY <1>1 DEF FieldsInv, Decoded
<1>3. CASE (ReadData \/ ReadEntry) /\ DecodeEntry
  <2>1. object # NULL
    BY <1>3 DEF ReadData, ReadEntry, ObjectInv
  <2>2. QED
    BY <1>1, <1>3, <2>1, DecodedFields DEF NumberInv
<1>4. CASE Decoded /\ ~((ReadData \/ ReadEntry) /\ DecodeEntry)
  <2>1. ~Initialize
    BY <1>2 DEF Initialize, Decoded
  <2>2. /\ object # NULL /\ NumbersKept
        /\ number_of_entries' = number_of_entries
    BY <1>2, <1>4, <2>1, OtherStep
  <2>3. FieldsRead
    BY <1>4, <2>2 DEF FieldsInv, Decoded
  <2>4. /\ kind' = kind /\ entry_size' = entry_size /\ Readable' = Readable
        /\ \A name : Written(name)' = Written(name)
    BY <1>1 DEF kind, entry_size, Readable, Written
  <2>5. QED
    BY <1>1, <2>2, <2>3, <2>4 DEF FieldsRead, NumbersKept, Written
<1>5. QED
  BY <1>2, <1>3, <1>4, DecodedBefore

-----------------------------------------------------------------------------
(* The text                                                                 *)

(* Memory set to zero is bytes.                                             *)
LEMMA ZeroesAreBytes ==
  ASSUME NEW n \in Nat
  PROVE  Zeroes(n) \in Seq(Byte) /\ Len(Zeroes(n)) = n
<1>1. Zeroes(n) \in [1 .. n -> Byte]
  BY DEF Zeroes, Byte
<1>2. \A V : \A s \in [1 .. n -> V] : s \in Seq(V) /\ Len(s) = n
  OBVIOUS
<1>3. QED
  BY <1>1, <1>2, Zenon

(* Every step keeps the filename of a source that of the entry.             *)
LEMMA StepSourceText ==
  ASSUME ObjectInv, NumberInv, CountInv, TextInv, [Next]_vars,
         kind = "source", object' # NULL
  PROVE  /\ object'.string \in Seq(Byte) /\ Len(object'.string) = 16
         /\ object'.string_size > 0 =>
              object'.string = Filename /\ object'.string_size = End(Filename)
<1>1. ASSUME object # NULL
      PROVE  /\ object.string \in Seq(Byte) /\ Len(object.string) = 16
             /\ object.string_size > 0 =>
                  object.string = Filename /\ object.string_size = End(Filename)
  BY <1>1 DEF TextInv
<1>2. CASE UNCHANGED object
  BY <1>1, <1>2 DEF NULL
<1>3. CASE Initialize
  <2>1. Blank.string = Zeroes(16) /\ Blank.string_size = 0
    BY DEF Blank
  <2>2. object' = Blank
    BY <1>3 DEF Initialize
  <2>3. PICK n \in Nat : n = 16
    OBVIOUS
  <2>4. Zeroes(n) \in Seq(Byte) /\ Len(Zeroes(n)) = n
    BY ZeroesAreBytes
  <2>5. QED
    BY <2>1, <2>2, <2>3, <2>4
<1>4. CASE InternalFree
  BY <1>4 DEF InternalFree, NULL
<1>5. CASE ReadData \/ ReadEntry
  <2>1. object # NULL /\ (DecodeEntry \/ UNCHANGED object)
    BY <1>5 DEF ReadData, ReadEntry, ObjectInv
  <2>2. CASE DecodeEntry
    <3>1. entry \in Entries
      BY DEF NumberInv
    <3>2. CASE entry_size \in {60, 88}
      BY <1>2, <2>1, <2>2, <3>1, <3>2, DecodedSource
    <3>3. CASE entry_size \notin {60, 88}
      BY <2>1, <2>2, <3>1, <3>3, DecodedSource
    <3>4. QED
      BY <3>2, <3>3
  <2>3. QED
    BY <1>2, <2>1, <2>2
<1>6. ASSUME object # NULL, DropString
      PROVE  object'.string = object.string /\ object'.string_size = 0
  BY <1>6 DEF DropString, ObjectInv, Fields
<1>7. CASE BeginRead \/ ReadFails
  <2>1. object # NULL /\ (DropString \/ UNCHANGED object)
    BY <1>7 DEF BeginRead, ReadFails, MayFail, ObjectInv
  <2>2. QED
    BY <1>1, <1>2, <1>6, <2>1
<1>8. CASE ReadPathData \/ AllocateString \/ ReadString \/ AppendFile
  BY <1>8
  DEF ReadPathData, AllocateString, ReadString, AppendFile, ObjectInv
<1>9. CASE InitializeFile \/ ReadSubEntry \/ SubEntriesUnknown \/ ReadEnds
  BY <1>2, <1>9 DEF InitializeFile, ReadSubEntry, SubEntriesUnknown, ReadEnds
<1>10. CASE Getters \/ UNCHANGED vars
  BY <1>2, <1>10, GettersRead DEF vars
<1>11. QED
  BY <1>3, <1>4, <1>5, <1>7, <1>8, <1>9, <1>10 DEF Next, Read, Getters

(* Every step keeps the string of a volume or a file that of the entry.     *)
LEMMA StepStringText ==
  ASSUME ObjectInv, StringInv, NumberInv, CountInv, TextInv, [Next]_vars,
         kind # "source", object' # NULL
  PROVE  \/ object'.string \in {NULL, TextBytes}
         \/ pc' = "string_data" /\ object'.string \in Seq(Byte)
<1>1. entry' = entry /\ kind \in {"volume", "file"} /\ entry \in Entries
  BY EntryKept DEF ObjectInv, NumberInv
<1>2. object # NULL => \/ object.string \in {NULL, TextBytes}
                       \/ pc = "string_data" /\ object.string \in Seq(Byte)
  BY DEF TextInv
<1>3. CASE UNCHANGED object /\ pc # "string_data"
  BY <1>2, <1>3 DEF NULL
<1>4. CASE Initialize
  BY <1>4, BlankObject DEF Initialize
<1>5. CASE InternalFree
  BY <1>5 DEF InternalFree, NULL
<1>6. CASE ReadData \/ ReadEntry
  <2>1. /\ object # NULL /\ (DecodeEntry \/ UNCHANGED object)
        /\ pc # "string_data"
    BY <1>6 DEF ReadData, ReadEntry, ObjectInv
  <2>2. CASE DecodeEntry
    <3>1. object'.string = object.string
      BY <1>1, <2>1, <2>2, DecodedObject
    <3>2. QED
      BY <1>2, <2>1, <3>1
  <2>3. QED
    BY <1>3, <2>1, <2>2
<1>7. ASSUME object # NULL, DropString
      PROVE  object'.string = NULL
  BY <1>7, DroppedString
<1>8. CASE BeginRead \/ ReadFails
  <2>1. object # NULL
        /\ (DropString \/ (UNCHANGED object /\ pc # "string_data"))
    BY <1>8 DEF BeginRead, ReadFails, MayFail, ObjectInv
  <2>2. QED
    BY <1>3, <1>7, <2>1
<1>9. ASSUME object # NULL, object' = [object EXCEPT !.string = Kept],
             object.string_size \in 1 .. MaximumAllocation,
             object.string_size = EntryStringSize,
             Len(TextBytes) >= object.string_size
      PROVE  object'.string = TextBytes
  <2>1. object.string_size > 0 /\ object.string_size <= Len(TextBytes)
    <3>1. object.string_size \in Nat /\ object.string_size > 0
      BY <1>9, MaximumAssumption
    <3>2. Len(TextBytes) \in Nat
      BY <1>1, TextBytesFacts, LenProperties
    <3>3. QED
      BY <1>9, <3>1, <3>2
  <2>2. Kept = TextBytes
    BY <1>1, <1>9, <2>1, KeptIsText
  <2>3. PICK string : string = Kept
    OBVIOUS
  <2>4. object'.string = string
    BY <1>9, <2>3, StringSet
  <2>5. QED
    BY <2>2, <2>3, <2>4
<1>10. CASE ReadPathData
  <2>1. /\ object # NULL /\ pc # "string_data" /\ result = "data"
    BY <1>10 DEF ReadPathData
  <2>2. CASE DropString
    BY <1>7, <2>1, <2>2
  <2>3. CASE /\ Len(TextBytes) >= object.string_size
             /\ object.string_size \in 1 .. MaximumAllocation
             /\ object' = [object EXCEPT !.string = Kept]
    BY <1>9, <2>1, <2>3 DEF StringInv
  <2>4. CASE UNCHANGED object
    BY <1>3, <2>1, <2>4
  <2>5. QED
    BY <1>10, <2>2, <2>3, <2>4 DEF ReadPathData
<1>11. CASE AllocateString
  <2>1. /\ object # NULL /\ pc = "string"
    BY <1>11 DEF AllocateString, ObjectInv
  <2>2. CASE /\ object.string_size \in 1 .. MaximumAllocation
             /\ object' = [object EXCEPT !.string = Zeroes(object.string_size)]
             /\ pc' = "string_data"
    <3>1. PICK n \in Nat : n = object.string_size
      BY <2>2, MaximumAssumption
    <3>2. PICK string : string = Zeroes(n)
      OBVIOUS
    <3>3. string \in Seq(Byte) /\ object'.string = string
      BY <2>1, <2>2, <3>1, <3>2, ZeroesAreBytes, StringSet
    <3>4. QED
      BY <2>2, <3>3
  <2>3. CASE UNCHANGED object
    BY <1>3, <2>1, <2>3
  <2>4. QED
    BY <1>11, <2>2, <2>3 DEF AllocateString, Goto
<1>12. CASE ReadString
  <2>1. /\ object # NULL /\ pc = "string_data" /\ object.string # NULL
        /\ object' = [object EXCEPT !.string = Kept]
        /\ Len(TextBytes) >= object.string_size
    BY <1>12 DEF ReadString, ObjectInv
  <2>2. /\ object.string_size \in 1 .. MaximumAllocation
        /\ object.string_size = EntryStringSize
    BY <2>1 DEF StringInv
  <2>3. QED
    BY <1>9, <2>1, <2>2
<1>13. CASE AppendFile
  <2>1. /\ object # NULL /\ pc = "file"
        /\ object' = [object EXCEPT !.files = @ + 1]
    BY <1>13 DEF AppendFile, ObjectInv
  <2>2. QED
    BY <1>2, <2>1, AppendKeepsNumbers
<1>14. CASE InitializeFile \/ ReadSubEntry \/ SubEntriesUnknown \/ ReadEnds
  BY <1>3, <1>14 DEF InitializeFile, ReadSubEntry, SubEntriesUnknown, ReadEnds
<1>15. CASE Getters \/ UNCHANGED vars
  <2>1. object' = object /\ pc' = pc
    BY <1>15, GettersRead DEF vars
  <2>2. QED
    BY <1>2, <2>1 DEF NULL
<1>16. QED
  BY <1>4, <1>5, <1>6, <1>8, <1>10, <1>11, <1>12, <1>13, <1>14, <1>15
  DEF Next, Read, Getters

(* Every step keeps the string that of the entry.                           *)
LEMMA StepText ==
  ASSUME ObjectInv, StringInv, NumberInv, CountInv, TextInv, [Next]_vars
  PROVE  TextInv'
<1>1. /\ kind' = kind /\ TextBytes' = TextBytes /\ NULL' = NULL
      /\ Filename' = Filename /\ Byte' = Byte
      /\ End(Filename)' = End(Filename)
  BY EntryKept DEF kind, TextBytes, NULL, Filename, Byte, End
<1>2. QED
  BY <1>1, StepSourceText, StepStringText DEF TextInv

(* The bytes of a number are bytes.                                         *)
LEMMA BytesOfNumber ==
  ASSUME NEW number \in Nat, NEW m \in Nat
  PROVE  Bytes(number, m) \in Seq(Byte) /\ Len(Bytes(number, m)) = m
<1> DEFINE Body(f) == [i \in 0 .. m |->
                         IF i = 0 THEN number ELSE f[i - 1] \div 256]
           Rest(v) == v \div 256
           next == [i \in 1 .. m |-> [v \in Nat |-> Rest(v)]]
           h == CHOOSE f : f = Body(f)
<1>1. \A i \in 1 .. m, v \in Nat :
        next[i][v] = Rest(v) /\ next[i][v] \in Nat
  OBVIOUS
<1> HIDE DEF next, Rest
<1>2. PICK f \in [0 .. m -> Nat] :
        f[0] = number /\ \A i \in 1 .. m : f[i] = next[i][f[i - 1]]
  <2>1. Steps(next, m, Nat)
    BY <1>1 DEF Steps
  <2>2. PICK f \in [0 .. m -> Nat] : Follows(f, number, next, m)
    BY <2>1, Recursion
  <2>3. QED
    BY <2>2 DEF Follows
<1>3. \A i \in 0 .. m :
        f[i] = IF i = 0 THEN number ELSE Rest(f[i - 1])
  <2>1. \A i \in 1 .. m : f[i - 1] \in Nat
    OBVIOUS
  <2>2. \A i \in 0 .. m : i = 0 \/ i \in 1 .. m
    OBVIOUS
  <2>3. \A i \in 1 .. m : i # 0
    OBVIOUS
  <2>4. QED
    BY <1>1, <1>2, <2>1, <2>2, <2>3, Zenon
<1>4. f = Body(f)
  BY <1>3 DEF Rest
<1>5. h = Body(h)
  BY <1>4, Zenon
<1>6. Bytes(number, m) = [i \in 1 .. m |-> h[i - 1] % 256]
  BY Zenon DEF Bytes
<1> HIDE DEF h
<1>7. /\ h[0] = number
      /\ \A i \in 1 .. m : h[i] = h[i - 1] \div 256
      /\ h = [i \in 0 .. m |-> h[i]]
  <2>1. 0 \in 0 .. m /\ \A i \in 1 .. m : i \in 0 .. m /\ i # 0
    OBVIOUS
  <2>2. QED
    BY <1>5, <2>1, Zenon
<1>8. h \in [0 .. m -> Nat]
  <2>1. \A n \in Nat : n \div 256 \in Nat
    OBVIOUS
  <2>2. Stays(h, m, Nat)
    BY <1>7, <2>1, Zenon DEF Stays
  <2>3. QED
    BY <1>7, <2>2, RecursionTyped
<1>9. \A n \in Nat : n % 256 \in Byte
  BY DEF Byte
<1>10. \A i \in 1 .. m : h[i - 1] \in Nat
  BY <1>8
<1>11. Bytes(number, m) \in [1 .. m -> Byte]
  BY <1>6, <1>9, <1>10
<1>12. \A V : \A s \in [1 .. m -> V] : s \in Seq(V) /\ Len(s) = m
  OBVIOUS
<1>13. QED
  BY <1>11, <1>12, Zenon

(* A function on 1 .. n is a sequence.                                      *)
LEMMA FunctionIsSeq ==
  ASSUME NEW V, NEW n \in Nat, NEW f \in [1 .. n -> V]
  PROVE  f \in Seq(V) /\ Len(f) = n
  OBVIOUS

(* What follows the filename in the object is four bytes.                   *)
LEMMA FollowingBytes ==
  ASSUME object.string_size \in Nat, NEW after \in Following
  PROVE  after \in Seq(Byte) /\ Len(after) = 4
<1>1. PICK s \in Seq(Byte) : s = Bytes(object.string_size, 4) /\ Len(s) = 4
  BY BytesOfNumber
<1>2. s \in [1 .. 4 -> Byte]
  BY <1>1, LenProperties
<1>3. Reverse(s) \in [1 .. 4 -> Byte]
  <2>1. Reverse(s) = [i \in 1 .. 4 |-> s[(4 - i) + 1]]
    BY <1>1 DEF Reverse
  <2>2. \A i \in 1 .. 4 : (4 - i) + 1 \in 1 .. 4
    OBVIOUS
  <2>3. QED
    BY <1>2, <2>1, <2>2, Zenon
<1>4. 4 \in Nat
  OBVIOUS
<1>5. Reverse(s) \in Seq(Byte) /\ Len(Reverse(s)) = 4
  BY <1>3, <1>4, FunctionIsSeq, Zenon
<1>6. QED
  BY <1>1, <1>5 DEF Following

-----------------------------------------------------------------------------
(* What the getters return                                                  *)

(* Bytes are natural numbers.                                               *)
LEMMA BytesAreNumbers == ASSUME NEW s \in Seq(Byte) PROVE s \in Seq(Nat)
<1>1. Byte \subseteq Nat
  BY DEF Byte
<1>2. QED
  BY <1>1, SeqOfMore

(* The path of a file and of a volume is returned as it was written.        *)
LEMMA PathReturned ==
  ASSUME ObjectInv, NumberInv, TextInv, kind # "source", HasString,
         pc = "idle", ReturnString(Characters(object.string))
  PROVE  /\ returned' \subseteq Seq(Nat)
         /\ returned' \subseteq {UpToEnd(entry.text)}
<1>1. entry \in Entries /\ object.string = TextBytes
  BY DEF NumberInv, TextInv, HasString
<1>2. PICK text \in Seq(CodeUnits) : text = entry.text
  BY <1>1, TextBytesFacts
<1>3. PICK b \in Seq(Byte) : b = TextBytes
  BY <1>1, TextBytesFacts
<1>4. Characters(b) = text
  <2>1. /\ Len(b) = 2 * Len(text)
        /\ \A i \in 1 .. Len(text) : /\ b[2 * i - 1] = text[i] % 256
                                     /\ b[2 * i] = text[i] \div 256
    BY <1>1, <1>2, <1>3, TextBytesFacts
  <2>2. QED
    BY <2>1, CharactersOfTwo
<1>5. returned' = {UpToEnd(text)}
  BY <1>1, <1>3, <1>4 DEF ReturnString
<1>6. text \in Seq(Nat)
  <2>1. CodeUnits \subseteq Nat
    BY CodeUnitBytes
  <2>2. QED
    BY <2>1, SeqOfMore
<1>7. QED
  BY <1>2, <1>5, <1>6, UpToEndIsText

(* The start of bytes is bytes.                                             *)
LEMMA StartIsBytes ==
  ASSUME NEW s \in Seq(Byte), NEW z \in 1 .. Len(s)
  PROVE  SubSeq(s, 1, z) \in Seq(Byte)
  OBVIOUS

(* Bytes joined are bytes, and start with the first of them.                *)
LEMMA BytesJoined ==
  ASSUME NEW s \in Seq(Byte), NEW t \in Seq(Byte)
  PROVE  /\ s \o t \in Seq(Byte)
         /\ Len(s \o t) = Len(s) + Len(t)
         /\ \A i \in 1 .. Len(s) : (s \o t)[i] = s[i]
<1>1. s \o t \in Seq(Byte)
  OBVIOUS
<1>2. Len(s \o t) = Len(s) + Len(t)
  OBVIOUS
<1>3. \A i \in 1 .. Len(s) : (s \o t)[i] = s[i]
  OBVIOUS
<1>4. QED
  BY <1>1, <1>2, <1>3

(* The first zero is the end.                                               *)
LEMMA EndIs ==
  ASSUME NEW s \in Seq(Nat), NEW z \in 1 .. Len(s), s[z] = 0,
         \A j \in 1 .. Len(s) : j < z => s[j] # 0
  PROVE  End(s) = z
<1>1. /\ End(s) \in 1 .. Len(s) + 1
      /\ End(s) <= Len(s) => s[End(s)] = 0
      /\ \A i \in 1 .. Len(s) : i < End(s) => s[i] # 0
  BY EndFacts
<1>2. ~(z < End(s))
  BY <1>1
<1>3. End(s) <= z /\ End(s) \in 1 .. Len(s)
  BY <1>1, <1>2
<1>4. ~(End(s) < z)
  BY <1>1, <1>3
<1>5. QED
  BY <1>1, <1>3, <1>4

\* The part of the object libuna reads, of which the size is the last byte.
LEMMA FilenameRead ==
  ASSUME NEW name \in Seq(Byte), Len(name) = 16,
         NEW after \in Seq(Byte), Len(after) = 4
  PROVE  LET read == SubSeq(name \o after, 1, End(name))
         IN  /\ read \in Seq(Byte)
             /\ (\E i \in 1 .. 16 : name[i] = 0) =>
                  /\ End(name) <= 16
                  /\ UpToEnd(read) = UpToEnd(name \o <<0>>)
<1> DEFINE whole == name \o after
           read == SubSeq(whole, 1, End(name))
           text == name \o <<0>>
<1>1. name \in Seq(Nat)
  BY BytesAreNumbers
<1>2. PICK z \in Nat : z = End(name) /\ z \in 1 .. 17
  <2>1. End(name) \in 1 .. Len(name) + 1
    BY <1>1, EndFacts
  <2>2. QED
    BY <2>1
<1>3. whole \in Seq(Byte) /\ Len(whole) = 20
      /\ \A i \in 1 .. 16 : whole[i] = name[i]
  <2>1. Len(whole) = Len(name) + Len(after) /\ whole \in Seq(Byte)
        /\ \A i \in 1 .. Len(name) : whole[i] = name[i]
    BY BytesJoined, Zenon
  <2> HIDE DEF whole
  <2>2. QED
    BY <2>1
<1>4. 0 \in Byte
  BY DEF Byte
<1>5. text \in Seq(Byte) /\ Len(text) = 17
      /\ \A i \in 1 .. 16 : text[i] = name[i]
  <2>1. <<0>> \in Seq(Byte) /\ Len(<<0>>) = 1
    BY <1>4
  <2>2. Len(text) = Len(name) + 1 /\ text \in Seq(Byte)
        /\ \A i \in 1 .. Len(name) : text[i] = name[i]
    BY <2>1, BytesJoined
  <2> HIDE DEF text
  <2>3. QED
    BY <2>2
<1> HIDE DEF whole, text
<1>6. read \in Seq(Byte) /\ Len(read) = z
      /\ \A i \in 1 .. z : read[i] = whole[i]
  <2>1. read = SubSeq(whole, 1, z)
    BY <1>2
  <2>2. SubSeq(whole, 1, z) \in Seq(Byte)
    <3>1. z \in 1 .. Len(whole)
      BY <1>2, <1>3
    <3>2. QED
      BY <1>3, <3>1, StartIsBytes
  <2>3. Len(SubSeq(whole, 1, z)) = z
    BY <1>2, <1>3
  <2>4. \A i \in 1 .. z : SubSeq(whole, 1, z)[i] = whole[i]
    BY <1>2, <1>3
  <2>5. QED
    BY <2>1, <2>2, <2>3, <2>4, Zenon
<1> HIDE DEF read
<1>7. ASSUME NEW i \in 1 .. 16, name[i] = 0
      PROVE  End(name) <= 16 /\ UpToEnd(read) = UpToEnd(text)
  <2>1. z <= 16
    <3>1. \A j \in 1 .. Len(name) : j < End(name) => name[j] # 0
      BY <1>1, EndFacts
    <3>2. ~(i < z)
      BY <1>2, <1>7, <3>1
    <3>3. QED
      BY <1>2, <3>2
  <2>2. name[z] = 0 /\ \A j \in 1 .. 16 : j < z => name[j] # 0
    BY <1>1, <1>2, <2>1, EndFacts
  <2>3. read \in Seq(Nat) /\ text \in Seq(Nat)
    BY <1>5, <1>6, BytesAreNumbers
  <2>4. \A j \in 1 .. z : read[j] = name[j] /\ text[j] = name[j]
    <3>1. \A j \in 1 .. z : j \in 1 .. 16
      BY <2>1
    <3>2. QED
      BY <1>3, <1>5, <1>6, <3>1, Zenon
  <2>9. text[z] = name[z]
    BY <1>2, <2>4
  <2>5. End(read) = z
    <3>1. z \in 1 .. Len(read)
      BY <1>2, <1>6
    <3>2. read[z] = 0
      <4>1. z \in 1 .. z
        BY <1>2
      <4>2. QED
        BY <2>2, <2>4, <4>1, Zenon
    <3>3. \A j \in 1 .. Len(read) : j < z => read[j] # 0
      BY <1>6, <2>1, <2>2, <2>4
    <3>4. QED
      BY <2>3, <3>1, <3>2, <3>3, EndIs, Zenon
  <2>6. End(text) = z
    <3>1. z \in 1 .. Len(text)
      BY <1>2, <1>5
    <3>2. text[z] = 0
      BY <2>2, <2>9
    <3>3. \A j \in 1 .. Len(text) : j < z => text[j] # 0
      BY <2>1, <2>2, <2>4
    <3>4. QED
      BY <2>3, <3>1, <3>2, <3>3, EndIs, Zenon
  <2>7. \A j \in 1 .. z - 1 : read[j] = text[j]
    BY <1>2, <2>4
  <2>8. QED
    BY <1>2, <2>1, <2>3, <2>5, <2>6, <2>7, SameUpToEnd
<1>8. QED
  BY <1>6, <1>7 DEF read, text, whole

(* A filename that has its terminator is returned as it was written.        *)
LEMMA FilenameReturned ==
  ASSUME NumberInv, TextInv, kind = "source", object # NULL,
         object.string_size > 0, NEW after \in Following,
         ReturnString(AsciiCharacters(
                        SubSeq(object.string \o after, 1, object.string_size)))
  PROVE  /\ returned' \subseteq Seq(Nat)
         /\ TerminatedFilenames =>
              returned' \subseteq {AsciiCharacters(UpToEnd(entry.text))}
<1>1. PICK name \in Seq(Byte) : /\ name = object.string /\ Len(name) = 16
                                /\ name = Filename
                                /\ object.string_size = End(name)
  BY DEF TextInv
<1>2. after \in Seq(Byte) /\ Len(after) = 4
  BY FollowingBytes DEF NumberInv
<1> DEFINE read == SubSeq(name \o after, 1, End(name))
<1>3. /\ read \in Seq(Byte)
      /\ (\E i \in 1 .. 16 : name[i] = 0) =>
           UpToEnd(read) = UpToEnd(name \o <<0>>)
  BY <1>1, <1>2, FilenameRead
<1>4. returned' = {UpToEnd(AsciiCharacters(read))}
  BY <1>1 DEF ReturnString
<1> HIDE DEF read
<1>5. read \in Seq(Nat)
  BY <1>3, BytesAreNumbers
<1>6. /\ returned' = {AsciiCharacters(UpToEnd(read))}
      /\ UpToEnd(AsciiCharacters(read)) \in Seq(Nat)
  BY <1>4, <1>5, AsciiUpToEnd, UpToEndIsText
<1>7. entry \in Entries /\ entry.kind = "source"
      /\ entry.text = name \o <<0>>
  BY <1>1, EntryIsWellWritten DEF NumberInv, WellWritten, kind, Filename
<1>8. TerminatedFilenames => \E i \in 1 .. 16 : name[i] = 0
  BY <1>1, <1>7 DEF TerminatedFilenames, Filename
<1>9. QED
  BY <1>3, <1>4, <1>6, <1>7, <1>8

(* Every step keeps what was returned right.                                *)
LEMMA StepReturned ==
  ASSUME ObjectInv, NumberInv, TextInv, ReturnedInv, [Next]_vars
  PROVE  ReturnedInv'
<1> DEFINE Given == IF kind = "source" THEN AsciiCharacters(UpToEnd(entry.text))
                                      ELSE UpToEnd(entry.text)
<1>1. entry' = entry
  BY EntryKept
<1>2. SUFFICES /\ returned' \subseteq Seq(Nat)
               /\ TerminatedFilenames => returned' \subseteq {Given}
  BY <1>1, Zenon DEF ReturnedInv, StringAsWritten, TerminatedFilenames, kind
<1>3. CASE returned' = {} \/ returned' = returned
  BY <1>3 DEF ReturnedInv, StringAsWritten
<1>4. CASE Getters
  <2>1. CASE GetDevicePath \/ GetPath
    <3>1. /\ kind # "source" /\ HasString /\ pc = "idle"
          /\ ReturnString(Characters(object.string))
      BY <2>1 DEF GetDevicePath, GetPath, ReturnString
    <3>2. QED
      BY <3>1, PathReturned
  <2>2. CASE GetExecutableFilename
    <3>1. /\ kind = "source" /\ object # NULL /\ object.string_size > 0
      BY <2>2 DEF GetExecutableFilename, HasString
    <3>2. PICK after \in Following :
            ReturnString(AsciiCharacters(
              SubSeq(object.string \o after, 1, object.string_size)))
      BY <2>2 DEF GetExecutableFilename
    <3>3. QED
      BY <3>1, <3>2, FilenameReturned
  <2>3. QED
    BY <1>4, <2>1, <2>2 DEF Getters
<1>5. CASE Initialize \/ InternalFree \/ ReadData \/ ReadPathData
             \/ UNCHANGED vars
  BY <1>3, <1>5 DEF Initialize, InternalFree, ReadData, ReadPathData, vars
<1>6. CASE BeginRead \/ ReadEntry \/ AllocateString \/ ReadString
             \/ InitializeFile
  BY <1>3, <1>6
  DEF BeginRead, ReadEntry, AllocateString, ReadString, InitializeFile, Goto,
      Return
<1>7. CASE AppendFile \/ ReadSubEntry \/ SubEntriesUnknown \/ ReadEnds
             \/ ReadFails
  BY <1>3, <1>7
  DEF AppendFile, ReadSubEntry, SubEntriesUnknown, ReadEnds, ReadFails, Goto,
      Return
<1>8. QED
  BY <1>4, <1>5, <1>6, <1>7 DEF Next, Read, Getters

-----------------------------------------------------------------------------
(* The invariants of EntryInformation                                       *)

(* Between calls the memory in use is exactly what the object holds, so     *)
(* that internal_free releases all of it, whatever the entry says, wherever *)
(* reading failed and in whatever order it was read before.                 *)
THEOREM ObjectOwnsMemory == Spec => []MemoryIsOwned
<1>1. IndInv => MemoryIsOwned
  BY DEF IndInv, MemoryInv, Pending, MemoryIsOwned
<1>2. QED
  BY <1>1, AlwaysIndInv, PTL

(* The string of a volume or a file lies inside its memory.                 *)
LEMMA StringIsInside ==
  ASSUME IndInv, kind # "source"
  PROVE  StringInsideMemory
<1> SUFFICES ASSUME object # NULL, pc \notin {"entry"}
             PROVE  /\ object.string # NULL <=> Block("string") \in allocated
                    /\ object.string # NULL =>
                         Len(object.string) = object.string_size
  BY DEF StringInsideMemory
<1>1. allocated = MemoryOf(object.string, pc)
  BY MemoryIs DEF IndInv
<1>2. object.string # NULL <=> Block("string") \in allocated
  BY <1>1, OtherBlocks DEF MemoryOf
<1>3. QED
  BY <1>2 DEF IndInv, StringInv

(* The size that goes with the string of a volume or a file is that of the  *)
(* memory behind it, for every size and number of characters an entry may   *)
(* give: what libuna is told to read exists.  (The filename of a source,    *)
(* which has no memory of its own, is excluded: one that fills its field    *)
(* has a size that does not fit.)                                           *)
THEOREM StringHasItsSize ==
  Spec => [](kind # "source" => StringInsideMemory)
<1>1. IndInv => (kind # "source" => StringInsideMemory)
  BY StringIsInside
<1>2. QED
  BY <1>1, AlwaysIndInv, PTL

ReadInv == NumberInv /\ CountInv /\ FieldsInv /\ TextInv /\ ReturnedInv

(* Before anything is called nothing was read.                              *)
LEMMA InitReadInv == Init => ReadInv
<1> SUFFICES ASSUME Init PROVE ReadInv
  OBVIOUS
<1>1. NumberInv /\ CountInv
  BY DEF Init, NumberInv, CountInv
<1>2. FieldsInv /\ TextInv
  BY DEF Init, FieldsInv, TextInv
<1>3. ReturnedInv
  BY DEF Init, ReturnedInv, StringAsWritten
<1>4. QED
  BY <1>1, <1>2, <1>3 DEF ReadInv

(* Every step keeps what was read right.                                    *)
LEMMA StepReadInv == IndInv /\ ReadInv /\ [Next]_vars => ReadInv'
  BY StepNumber, StepCount, StepFields, StepText, StepReturned
  DEF IndInv, ReadInv

(* Both invariants always hold.                                             *)
LEMMA AlwaysReadInv == Spec => [](IndInv /\ ReadInv)
<1>1. Init => IndInv /\ ReadInv
  BY InitIndInv, InitReadInv
<1>2. IndInv /\ ReadInv /\ [Next]_vars => (IndInv /\ ReadInv)'
  BY StepIndInv, StepReadInv
<1>3. QED
  BY <1>1, <1>2, PTL DEF Spec

(* The memory in use consists of the blocks there are.                      *)
LEMMA MemoryTyped ==
  ASSUME ObjectInv, MemoryInv
  PROVE  allocated \subseteq
           {"object", "files_array", "data", "string", "new_file", "file"}
             \X Nat
<1>1. CASE object = NULL
  BY <1>1 DEF MemoryInv
<1>2. CASE object # NULL
  <2>1. /\ Owned \subseteq
             {"object", "files_array", "data", "string", "new_file", "file"}
               \X Nat
        /\ Pending \subseteq
             {"object", "files_array", "data", "string", "new_file", "file"}
               \X Nat
    BY <1>2 DEF Owned, Pending, Block, FileBlocks, ObjectInv
  <2>2. QED
    BY <1>2, <2>1 DEF MemoryInv
<1>3. QED
  BY <1>1, <1>2

(* The variables have their types, for every entry: no number is ever taken *)
(* from outside the bytes of the entry, and nothing is in use but the       *)
(* blocks of an object and of the read that is under way.                   *)
THEOREM TypeCorrect == Spec => []TypeOK
<1>1. ASSUME IndInv, ReadInv PROVE TypeOK
  <2>1. ASSUME object # NULL PROVE ObjectOK
    <3>1. object.string # NULL => object.string \in Seq(0 .. 255)
      <4>1. TextBytes \in Seq(Byte)
        BY <1>1, TextBytesFacts DEF ReadInv, NumberInv
      <4>2. object.string # NULL => object.string \in Seq(Byte)
        BY <1>1, <2>1, <4>1 DEF ReadInv, TextInv
      <4>3. QED
        BY <4>2 DEF Byte
    <3>2. {object.string_size, object.creation_time, object.serial_number,
           object.number_of_files} \subseteq Nat
      BY <1>1, <2>1 DEF ReadInv, NumberInv
    <3>3. object.files \in 0 .. object.number_of_files
      BY <1>1, <2>1, <3>2 DEF IndInv, ObjectInv, ReadInv, CountInv
    <3>4. QED
      BY <3>1, <3>2, <3>3 DEF ObjectOK
  <2>2. allocated \subseteq
          {"object", "files_array", "data", "string", "new_file", "file"}
            \X Nat
    BY <1>1, MemoryTyped DEF IndInv
  <2>3. QED
    BY <1>1, <2>1, <2>2
    DEF TypeOK, IndInv, ObjectInv, ReadInv, NumberInv, ReturnedInv
<1>2. QED
  BY <1>1, AlwaysReadInv, PTL

(* Once the entry has been read, every field that a getter returns is the   *)
(* number the writer gave it, whichever of the structures of that kind the  *)
(* size of the entry selects: libagdb reads a field through a cast to one   *)
(* structure where the writer used another, and they agree.                 *)
THEOREM FieldsReadAsWritten == Spec => []FieldsAsWritten
<1>1. ASSUME IndInv, ReadInv PROVE FieldsAsWritten
  <2> SUFFICES ASSUME pc = "idle",
                      result = "ok"
                        \/ (result = "data" /\ (kind = "volume" => Readable))
               PROVE
         IF kind = "volume"
         THEN /\ object.number_of_files = Written("number_of_files")
              /\ object.creation_time = Written("creation_time")
              /\ object.serial_number = Written("serial_number")
              /\ result = "ok" => object.files = object.number_of_files
         ELSE IF kind = "file"
         THEN number_of_entries = Written("number_of_entries")
         ELSE entry_size \in {60, 88} =>
                number_of_entries = Written("unknown3")
    BY DEF FieldsAsWritten
  <2>1. object # NULL
    BY <1>1 DEF ReadInv, CountInv
  <2>2. FieldsRead
    BY <1>1, <2>1 DEF ReadInv, FieldsInv
  <2>3. kind = "volume" =>
          Readable /\ (result = "ok" => object.files = object.number_of_files)
    BY <1>1 DEF ReadInv, CountInv
  <2>4. QED
    BY <2>2, <2>3 DEF FieldsRead
<1>2. QED
  BY <1>1, AlwaysReadInv, PTL

(* What the path and filename getters return is the text the writer stored, *)
(* up to its terminator, for every text: the bytes of the characters, their *)
(* number in the entry, the size that is allocated, the read and the count  *)
(* of the getters fit together. In a filename a byte that is no ASCII       *)
(* character is replaced in its place. For filenames it needs the           *)
(* terminator inside the field, which libagdb_source_information.c does not *)
(* ask for.                                                                 *)
THEOREM StringReadAsWritten ==
  ASSUME TerminatedFilenames
  PROVE  Spec => []StringAsWritten
<1>1. IndInv /\ ReadInv => StringAsWritten
  BY DEF ReadInv, ReturnedInv
<1>2. QED
  BY <1>1, AlwaysReadInv, PTL

(* The size that goes with any string is within the memory of it, for every *)
(* entry, the sources included when their filenames have a terminator.      *)
THEOREM StringsInsideMemory ==
  ASSUME TerminatedFilenames
  PROVE  Spec => []StringInsideMemory
<1>1. ASSUME IndInv, ReadInv PROVE StringInsideMemory
  <2>1. CASE kind # "source"
    BY <1>1, <2>1, StringIsInside
  <2>2. ASSUME kind = "source", object # NULL
        PROVE  object.string_size <= 16
    <3>1. object.string_size \in Nat
      BY <1>1, <2>2 DEF ReadInv, NumberInv
    <3>2. CASE object.string_size > 0
      <4>1. PICK name \in Seq(Byte) : /\ Len(name) = 16 /\ name = Filename
                                      /\ object.string_size = End(name)
        BY <1>1, <2>2, <3>2 DEF ReadInv, TextInv
      <4>2. \E i \in 1 .. 16 : name[i] = 0
        BY <1>1, <2>2, <4>1
        DEF ReadInv, NumberInv, TerminatedFilenames, Filename, kind
      <4>3. PICK after \in Seq(Byte) : Len(after) = 4
        <5>1. 0 \in Nat /\ 4 \in Nat
          OBVIOUS
        <5>2. QED
          BY <5>1, BytesOfNumber
      <4>4. End(name) <= 16
        BY <4>1, <4>2, <4>3, FilenameRead
      <4>5. QED
        BY <4>1, <4>4
    <3>3. QED
      BY <3>1, <3>2
  <2>3. QED
    BY <2>1, <2>2 DEF StringInsideMemory
<1>2. QED
  BY <1>1, AlwaysReadInv, PTL

-----------------------------------------------------------------------------
(* The structures of the headers                                           *)

(* Where the fields of the file header are.                                 *)
LEMMA FileHeaderLayout ==
  /\ IsStructure(FileHeader)
  /\ SizeOf(FileHeader) = 12
  /\ Placed(FileHeader, "unknown1", 1, 0, 4)
  /\ Placed(FileHeader, "data_size", 2, 4, 4)
  /\ Placed(FileHeader, "header_size", 3, 8, 4)
<1> DEFINE s == FileHeader
           e == Ends(s)
<1>1. Unfolds(e, s, 3)
  <2>1. /\ Len(s) = 3 /\ DOMAIN s = 1 .. 3
        /\ \A i \in 1 .. 3 : s[i][2] \in Nat
    BY DEF FileHeader
  <2> HIDE DEF s
  <2>2. QED
    BY <2>1, EndsUnfold
<1> HIDE DEF e
<1>2. e[0] = 0 /\ e[1] = 4 /\ e[2] = 8 /\ e[3] = 12
  BY <1>1 DEF Unfolds, FileHeader
<1>3. /\ s[1][2] = 4 /\ \A i \in 1 .. 3 : s[i][1] = "unknown1" <=> i = 1
      /\ s[2][2] = 4 /\ \A i \in 1 .. 3 : s[i][1] = "data_size" <=> i = 2
      /\ s[3][2] = 4 /\ \A i \in 1 .. 3 : s[i][1] = "header_size" <=> i = 3
  BY DEF FileHeader
<1> HIDE DEF s
<1>4. QED
  BY <1>1, <1>2, <1>3 DEF s, e, Unfolds, IsStructure, SizeOf, Placed


(* Where the fields of the database header are.                             *)
LEMMA DatabaseHeaderLayout ==
  /\ IsStructure(DatabaseHeader)
  /\ SizeOf(DatabaseHeader) = 64
  /\ Placed(DatabaseHeader, "database_type", 1, 0, 4)
  /\ Placed(DatabaseHeader, "database_parameters", 2, 4, 36)
  /\ Placed(DatabaseHeader, "number_of_volumes", 3, 40, 4)
  /\ Placed(DatabaseHeader, "number_of_sources", 6, 52, 4)
  /\ Placed(DatabaseHeader, "unknown5", 8, 60, 4)
<1> DEFINE s == DatabaseHeader
           e == Ends(s)
<1>1. Unfolds(e, s, 8)
  <2>1. /\ Len(s) = 8 /\ DOMAIN s = 1 .. 8
        /\ \A i \in 1 .. 8 : s[i][2] \in Nat
    BY DEF DatabaseHeader
  <2> HIDE DEF s
  <2>2. QED
    BY <2>1, EndsUnfold
<1> HIDE DEF e
<1>2. e[0] = 0 /\ e[1] = 4 /\ e[2] = 40 /\ e[5] = 52 /\ e[7] = 60 /\ e[8] = 64
  BY <1>1 DEF Unfolds, DatabaseHeader
<1>3. /\ s[1][2] = 4 /\ \A i \in 1 .. 8 : s[i][1] = "database_type" <=> i = 1
      /\ s[2][2] = 36 /\ \A i \in 1 .. 8 :
           s[i][1] = "database_parameters" <=> i = 2
      /\ s[3][2] = 4 /\ \A i \in 1 .. 8 : s[i][1] = "number_of_volumes" <=> i = 3
      /\ s[6][2] = 4 /\ \A i \in 1 .. 8 : s[i][1] = "number_of_sources" <=> i = 6
      /\ s[8][2] = 4 /\ \A i \in 1 .. 8 : s[i][1] = "unknown5" <=> i = 8
  BY DEF DatabaseHeader
<1> HIDE DEF s
<1>4. QED
  BY <1>1, <1>2, <1>3 DEF s, e, Unfolds, IsStructure, SizeOf, Placed


(* The fields that are read are at the same place in every structure.       *)
LEMMA HeaderPlaced ==
  ASSUME NEW s, IsStructure(s), StartsAsHeader(s)
  PROVE  /\ Placed(s, "database_type", 1, 0, 4)
         /\ Placed(s, "database_parameters", 2, 4, 36)
         /\ Placed(s, "number_of_volumes", 3, 40, 4)
         /\ Placed(s, "number_of_sources", 6, 52, 4)
         /\ Ends(s)[6] = 56
<1>1. PICK m \in Nat : m = Len(s) /\ m >= 7
  BY DEF IsStructure, StartsAsHeader
<1> DEFINE e == Ends(s)
<1>2. e[0] = 0 /\ \A i \in 1 .. m : e[i] = e[i - 1] + s[i][2]
  BY <1>1, EndsDefined DEF IsStructure
<1> HIDE DEF e
<1>3. /\ s[1] = <<"database_type", 4>>
      /\ s[2] = <<"database_parameters", 36>>
      /\ s[3] = <<"number_of_volumes", 4>>
      /\ s[4] = <<"number_of_files", 4>>
      /\ s[5] = <<"unknown3", 4>>
      /\ s[6] = <<"number_of_sources", 4>>
      /\ s[7] = <<"unknown4", 4>>
  BY DEF StartsAsHeader, DatabaseHeader
<1>4. e[1] = 4 /\ e[2] = 40 /\ e[3] = 44 /\ e[4] = 48 /\ e[5] = 52 /\ e[6] = 56
  BY <1>1, <1>2, <1>3
<1>5. ASSUME NEW i \in 1 .. m
      PROVE  /\ s[i][1] = "database_type" <=> i = 1
             /\ s[i][1] = "database_parameters" <=> i = 2
             /\ s[i][1] = "number_of_volumes" <=> i = 3
             /\ s[i][1] = "number_of_sources" <=> i = 6
  <2>1. CASE i \in 1 .. 7
    BY <1>3, <2>1
  <2>2. CASE i \in 8 .. m
    <3>1. s[i][1] \notin HeaderFields
      BY <1>1, <2>2 DEF StartsAsHeader
    <3>2. QED
      BY <2>2, <3>1 DEF HeaderFields
  <2>3. QED
    BY <2>1, <2>2
<1>6. 1 \in 1 .. m /\ 2 \in 1 .. m /\ 3 \in 1 .. m /\ 6 \in 1 .. m
  BY <1>1
<1>7. QED
  BY <1>1, <1>2, <1>3, <1>4, <1>5, <1>6 DEF Placed, e

Agree(d, e, n) ==
  n <= Len(d) /\ n <= Len(e) /\ \A i \in 1 .. n : d[i] = e[i]

(* Fields are the same in data that agree as far as the field goes.         *)
LEMMA FieldBytesSame ==
  ASSUME NEW c, IsStructure(c), NEW name, NEW l, NEW offset \in Nat,
         NEW width \in Nat, Placed(c, name, l, offset, width),
         NEW d \in Seq(Byte), NEW e \in Seq(Byte),
         NEW k \in Nat, Agree(d, e, k), offset + width <= k
  PROVE  FieldBytes(c, d, name) = FieldBytes(c, e, name)
<1>1. OffsetOf(c, name) = offset /\ WidthOf(c, name) = width
  BY FieldIsPlaced
<1>2. /\ FieldBytes(c, d, name) = SubSeq(d, offset + 1, offset + width)
      /\ FieldBytes(c, e, name) = SubSeq(e, offset + 1, offset + width)
  BY <1>1, Zenon DEF FieldBytes
<1>3. SubSeq(d, offset + 1, offset + width)
        = [j \in 1 .. width |-> d[offset + j]]
  BY DEF Agree
<1>4. SubSeq(e, offset + 1, offset + width)
        = [j \in 1 .. width |-> e[offset + j]]
  BY DEF Agree
<1>5. \A j \in 1 .. width : d[offset + j] = e[offset + j]
  <2>1. \A i \in 1 .. k : d[i] = e[i]
    BY DEF Agree
  <2>2. \A j \in 1 .. width : offset + j \in 1 .. k
    OBVIOUS
  <2>3. QED
    BY <2>1, <2>2
<1>6. QED
  BY <1>2, <1>3, <1>4, <1>5

(* A sequence of names and widths is a structure.                           *)
LEMMA StructureTyped ==
  ASSUME NEW s \in Seq(STRING \X Nat)
  PROVE  IsStructure(s)
<1>1. PICK m \in Nat : m = Len(s) /\ DOMAIN s = 1 .. m
  BY LenProperties
<1>2. \A i \in 1 .. m : s[i] \in STRING \X Nat
  BY <1>1, LenProperties
<1>3. QED
  BY <1>1, <1>2 DEF IsStructure

(* The stream begins with the file header, and goes on with the header of   *)
(* the database.                                                            *)
LEMMA StreamFacts ==
  ASSUME NEW s \in Streams
  PROVE  /\ IsStructure(s.structure) /\ s.size \in Nat
         /\ StreamData(s) \in Seq(Byte) /\ Len(StreamData(s)) = s.size
         /\ Stored(FileHeader, s.file) \in Seq(Byte)
         /\ Len(Stored(FileHeader, s.file)) = 12
         /\ Stored(s.structure, s.fields) \in Seq(Byte)
         /\ Len(Stored(s.structure, s.fields)) = SizeOf(s.structure)
         /\ \A i \in 1 .. 12 :
              i <= s.size => StreamData(s)[i] = Stored(FileHeader, s.file)[i]
         /\ \A i \in 1 .. SizeOf(s.structure) :
              12 + i <= s.size =>
                StreamData(s)[12 + i] = Stored(s.structure, s.fields)[i]
<1>1. StreamWellWritten(s)
  BY StreamAssumption
<1>2. IsStructure(s.structure) /\ s.size \in Nat
  BY <1>1, StructureTyped DEF StreamWellWritten
<1>3. PICK a \in Seq(Byte) : a = Stored(FileHeader, s.file) /\ Len(a) = 12
  <2>1. Fits(FileHeader, s.file)
    BY <1>1 DEF StreamWellWritten
  <2>2. Stored(FileHeader, s.file) \in Seq(0 .. 255)
        /\ Len(Stored(FileHeader, s.file)) = SizeOf(FileHeader)
    BY <2>1, FileHeaderLayout, StoredFields
  <2>3. QED
    BY <2>2, FileHeaderLayout DEF Byte
<1>4. PICK b \in Seq(Byte) : b = Stored(s.structure, s.fields)
                            /\ Len(b) = SizeOf(s.structure)
  <2>1. Fits(s.structure, s.fields)
    BY <1>1 DEF StreamWellWritten
  <2>2. Stored(s.structure, s.fields) \in Seq(0 .. 255)
        /\ Len(Stored(s.structure, s.fields)) = SizeOf(s.structure)
    BY <1>2, <2>1, StoredFields
  <2>3. QED
    BY <2>2 DEF Byte
<1> DEFINE written == a \o b
<1>5. /\ written \in Seq(Byte) /\ Len(written) = 12 + Len(b)
      /\ \A i \in 1 .. 12 : written[i] = a[i]
      /\ \A i \in 1 .. Len(b) : written[12 + i] = b[i]
  <2>1. written \in Seq(Byte) /\ Len(written) = Len(a) + Len(b)
        /\ \A i \in 1 .. Len(a) : written[i] = a[i]
    BY BytesJoined, Zenon
  <2>2. \A i \in 1 .. Len(b) : written[Len(a) + i] = b[i]
    OBVIOUS
  <2> HIDE DEF written
  <2>3. QED
    BY <1>3, <2>1, <2>2
<1>6. StreamData(s) = [i \in 1 .. s.size |->
                         IF i <= Len(written) THEN written[i] ELSE Filler]
  BY <1>3, <1>4 DEF StreamData
<1> HIDE DEF written
<1>7. PICK n \in Nat : n = s.size
  BY <1>2
<1>8. StreamData(s) \in [1 .. n -> Byte]
  <2>1. Filler \in Byte
    BY DEF Filler, Byte
  <2>2. ASSUME NEW i \in 1 .. n
        PROVE  (IF i <= Len(written) THEN written[i] ELSE Filler) \in Byte
    BY <1>5, <2>1
  <2>3. QED
    BY <1>6, <1>7, <2>2
<1>9. StreamData(s) \in Seq(Byte) /\ Len(StreamData(s)) = n
  BY <1>8, FunctionIsSeq, Zenon
<1>10. \A i \in 1 .. n : i <= Len(written) => StreamData(s)[i] = written[i]
  BY <1>6, <1>7
<1>11. Len(b) \in Nat
  BY LenProperties
<1>12. \A i \in 1 .. 12 : i <= n => StreamData(s)[i] = a[i]
  BY <1>5, <1>10, <1>11
<1>13. \A i \in 1 .. Len(b) : 12 + i <= n => StreamData(s)[12 + i] = b[i]
  BY <1>5, <1>10, <1>11
<1>14. QED
  BY <1>2, <1>3, <1>4, <1>7, <1>9, <1>12, <1>13

-----------------------------------------------------------------------------
(* The uncompressed file and database header                               *)

(* Each field of the file header is what the writer gave it.                *)
LEMMA FileHeaderRead ==
  ASSUME stream \in Streams, stream.size >= SizeOf(FileHeader),
         NEW name \in {"unknown1", "data_size", "header_size"}
  PROVE  /\ FileHeaderField(name) = LittleEndian(stream.file[name])
         /\ FileHeaderField(name) \in Nat
<1> DEFINE a == Stored(FileHeader, stream.file)
           d == StreamData(stream)
<1>1. PICK k, offset \in Nat : /\ Placed(FileHeader, name, k, offset, 4)
                               /\ offset + 4 <= 12
  BY FileHeaderLayout
<1>2. IsStructure(FileHeader) /\ SizeOf(FileHeader) = 12
  BY FileHeaderLayout
<1>3. /\ Fits(FileHeader, stream.file) /\ name \in DOMAIN stream.file
  BY StreamAssumption DEF StreamWellWritten
<1>4. /\ a \in Seq(Byte) /\ Len(a) = 12
      /\ d \in Seq(Byte) /\ Len(d) = stream.size /\ stream.size \in Nat
      /\ \A i \in 1 .. 12 : i <= stream.size => d[i] = a[i]
  BY StreamFacts
<1>5. FieldBytes(FileHeader, a, name) = stream.file[name]
  BY <1>1, <1>2, <1>3, FieldRead
<1> HIDE DEF a, d
<1>6. FieldBytes(FileHeader, d, name) = FieldBytes(FileHeader, a, name)
  <2>1. 12 <= Len(a) /\ 12 <= Len(d)
    BY <1>2, <1>4
  <2>2. \A i \in 1 .. 12 : d[i] = a[i]
    <3>1. \A i \in 1 .. 12 : i <= stream.size
      BY <1>2, <1>4
    <3>2. QED
      BY <1>4, <3>1
  <2>3. Agree(d, a, 12)
    BY <2>1, <2>2 DEF Agree
  <2>4. 4 \in Nat /\ 12 \in Nat
    OBVIOUS
  <2>5. QED
    BY <1>1, <1>2, <1>4, <2>3, <2>4, FieldBytesSame
<1>7. FileHeaderField(name) = LittleEndian(stream.file[name])
  BY <1>5, <1>6 DEF FileHeaderField, FieldValue, d
<1>8. stream.file[name] \in Seq(0 .. 255)
  BY <1>1, <1>2, <1>3, FieldFits
<1>9. stream.file[name] \in Seq(Nat)
  BY <1>8, BytesAreNumbers DEF Byte
<1>10. QED
  BY <1>7, <1>9, LittleEndianIsNat

\* The data the header is decoded from.
HeaderBytes == SubSeq(StreamData(stream), SizeOf(FileHeader) + 1, header_size)

(* Each field of a database header is what the writer gave it.              *)
LEMMA HeaderFieldRead ==
  ASSUME stream \in Streams, header_size \in Nat,
         header_size = LittleEndian(stream.file["header_size"]),
         header_size >= 72, header_size <= stream.size,
         NEW name \in HeaderFields
  PROVE  /\ FieldBytes(DatabaseHeader, HeaderBytes, name) = stream.fields[name]
         /\ stream.fields[name] \in Seq(Byte)
         /\ name # "database_parameters" => Len(stream.fields[name]) = 4
         /\ name = "database_parameters" => Len(stream.fields[name]) = 36
<1> DEFINE w == stream.structure
           b == Stored(w, stream.fields)
           d == HeaderBytes
<1>1. /\ IsStructure(DatabaseHeader) /\ SizeOf(FileHeader) = 12
      /\ OffsetOf(DatabaseHeader, "unknown5") = 60
  BY DatabaseHeaderLayout, FileHeaderLayout, FieldIsPlaced
<1>2. StreamWellWritten(stream)
  BY StreamAssumption
<1>3. StartsAsHeader(w)
  BY <1>1, <1>2 DEF StreamWellWritten
<1>4. /\ IsStructure(w) /\ Fits(w, stream.fields)
      /\ name \in DOMAIN stream.fields
  BY <1>2, StreamFacts DEF StreamWellWritten
<1>5. PICK k, l, offset, width \in Nat :
        /\ Placed(w, name, k, offset, width)
        /\ Placed(DatabaseHeader, name, l, offset, width)
        /\ offset + width <= 56
        /\ name # "database_parameters" => width = 4
        /\ name = "database_parameters" => width = 36
  BY <1>3, <1>4, HeaderPlaced, DatabaseHeaderLayout DEF HeaderFields
<1>6. FieldBytes(DatabaseHeader, b, name) = stream.fields[name]
  BY <1>1, <1>4, <1>5, FieldRead
<1>7. PICK n \in Nat : n = Len(b) /\ n >= 56 /\ b \in Seq(Byte)
                       /\ n = SizeOf(w)
  <2>1. Ends(w)[6] <= SizeOf(w) /\ Ends(w)[6] = 56
    <3>1. 6 \in 1 .. Len(w)
      BY <1>3, <1>4 DEF StartsAsHeader, IsStructure
    <3>2. QED
      BY <1>3, <1>4, <3>1, StoredFields, HeaderPlaced
  <2>2. b \in Seq(Byte) /\ Len(b) = SizeOf(w)
    BY StreamFacts
  <2>3. Len(b) \in Nat
    BY <2>2, LenProperties
  <2>4. QED
    BY <2>1, <2>2, <2>3
<1>8. /\ d \in Seq(Byte) /\ Len(d) = header_size - 12
      /\ \A i \in 1 .. 56 : d[i] = b[i]
  <2>1. PICK t \in Seq(Byte) : t = StreamData(stream) /\ Len(t) = stream.size
                              /\ stream.size \in Nat
    BY StreamFacts
  <2>2. d = SubSeq(t, 13, header_size)
    BY <1>1, <2>1 DEF HeaderBytes
  <2>3. SubSeq(t, 13, header_size) \in Seq(Byte)
    BY <2>1
  <2>4. Len(SubSeq(t, 13, header_size)) = header_size - 12
    BY <2>1
  <2>5. \A i \in 1 .. 56 : SubSeq(t, 13, header_size)[i] = t[12 + i]
    BY <2>1
  <2>6. ASSUME NEW i \in 1 .. 56 PROVE t[12 + i] = b[i]
    <3>1. \A j \in 1 .. SizeOf(w) : 12 + j <= stream.size => t[12 + j] = b[j]
      BY <2>1, StreamFacts
    <3>2. i \in 1 .. SizeOf(w) /\ 12 + i <= stream.size
      BY <1>7, <2>1
    <3>3. QED
      BY <3>1, <3>2
  <2>7. QED
    BY <2>2, <2>3, <2>4, <2>5, <2>6
<1> HIDE DEF b, d
<1>9. FieldBytes(DatabaseHeader, d, name) = FieldBytes(DatabaseHeader, b, name)
  <2>1. PICK bb \in Seq(Byte) : bb = b /\ Len(bb) = n
    BY <1>7
  <2>2. PICK h \in Nat : h = header_size /\ h >= 72
    OBVIOUS
  <2>3. PICK dd \in Seq(Byte) : dd = d /\ Len(dd) = h - 12
    BY <1>8, <2>2
  <2>4. \A i \in 1 .. 56 : dd[i] = bb[i]
    BY <1>8, <2>1, <2>3
  <2>5. 56 <= Len(bb) /\ 56 <= Len(dd)
    BY <1>7, <2>1, <2>2, <2>3
  <2>6. Agree(dd, bb, 56)
    BY <2>4, <2>5 DEF Agree
  <2>7. Placed(DatabaseHeader, name, l, offset, width) /\ offset + width <= 56
    BY <1>5
  <2>8. 56 \in Nat
    OBVIOUS
  <2>9. FieldBytes(DatabaseHeader, dd, name) = FieldBytes(DatabaseHeader, bb, name)
    BY <1>1, <2>6, <2>7, <2>8, FieldBytesSame
  <2>10. QED
    BY <2>1, <2>3, <2>9
<1>10. stream.fields[name] \in Seq(0 .. 255) /\ Len(stream.fields[name]) = width
  BY <1>4, <1>5, FieldFits
<1>11. QED
  BY <1>5, <1>6, <1>9, <1>10 DEF d, Byte

\* The data is all that has been read, and holds every field.
HeaderComplete ==
  /\ stream \in Streams /\ header_size \in Nat
  /\ header_size = LittleEndian(stream.file["header_size"])
  /\ header_size >= 72 /\ header_size <= stream.size

(* Each number of the database header is what the writer gave it.           *)
LEMMA HeaderNumberRead ==
  ASSUME HeaderComplete,
         NEW name \in {"database_type", "number_of_volumes",
                       "number_of_sources"}
  PROVE  /\ FieldValue(DatabaseHeader, HeaderBytes, name) = HeaderWritten(name)
         /\ HeaderWritten(name) \in Nat
<1>1. name \in HeaderFields
  BY DEF HeaderFields
<1>2. /\ FieldBytes(DatabaseHeader, HeaderBytes, name) = stream.fields[name]
      /\ stream.fields[name] \in Seq(Byte)
  BY <1>1, HeaderFieldRead DEF HeaderComplete
<1>3. stream.fields[name] \in Seq(Nat)
  BY <1>2, BytesAreNumbers
<1>4. QED
  BY <1>2, <1>3, LittleEndianIsNat DEF FieldValue, HeaderWritten

PositionOf(p) == CHOOSE j \in DOMAIN Parameters : Parameters[j] = p

(* A parameter has a position among the five.                               *)
LEMMA ParameterPosition ==
  ASSUME NEW p \in ToSet(Parameters)
  PROVE  PositionOf(p) \in 1 .. 5
<1>1. DOMAIN Parameters = 1 .. 5
  BY DEF Parameters
<1>2. \E j \in DOMAIN Parameters : Parameters[j] = p
  BY DEF ToSet
<1>3. QED
  BY <1>1, <1>2, Zenon DEF PositionOf

(* Part of bytes is bytes.                                                  *)
LEMMA PartOfBytes ==
  ASSUME NEW b \in Seq(Byte), NEW x \in 1 .. Len(b), NEW y \in 1 .. Len(b), x <= y
  PROVE  SubSeq(b, x, y) \in Seq(Byte)
  OBVIOUS

(* Each of the parameters is bytes.                                         *)
LEMMA PartIsBytes ==
  ASSUME NEW b \in Seq(Byte), Len(b) = 36, NEW j \in 1 .. 5
  PROVE  SubSeq(b, 4 * j - 3, 4 * j) \in Seq(Byte)
<1>1. 4 * j - 3 \in 1 .. 36 /\ 4 * j \in 1 .. 36
  OBVIOUS
<1>2. PICK x, y \in 1 .. 36 : x = 4 * j - 3 /\ y = 4 * j /\ x <= y
  BY <1>1
<1>3. SubSeq(b, x, y) \in Seq(Byte)
  BY <1>2, PartOfBytes
<1>4. QED
  BY <1>2, <1>3

(* Each entry size is what the writer put into its place of the parameters. *)
LEMMA HeaderParameterRead ==
  ASSUME HeaderComplete, NEW p \in ToSet(Parameters)
  PROVE  /\ DecodedParameters(HeaderBytes)[p] = WrittenParameter(p)
         /\ WrittenParameter(p) \in Nat
<1> DEFINE name == "database_parameters"
           b == stream.fields[name]
<1>1. name \in HeaderFields
  BY DEF HeaderFields
<1>2. /\ FieldBytes(DatabaseHeader, HeaderBytes, name) = b
      /\ b \in Seq(Byte) /\ Len(b) = 36
  BY <1>1, HeaderFieldRead DEF HeaderComplete
<1> HIDE DEF b
<1>3. PICK j \in 1 .. 5 : j = PositionOf(p)
  BY ParameterPosition
<1>4. DecodedParameters(HeaderBytes)[p] = Parameter(HeaderBytes, j - 1)
  BY <1>3, Zenon DEF DecodedParameters, PositionOf
<1>5. Parameter(HeaderBytes, j - 1)
        = LittleEndian(SubSeq(b, 4 * (j - 1) + 1, 4 * (j - 1) + 4))
  BY <1>2, Zenon DEF Parameter
<1>6. 4 * (j - 1) + 1 = 4 * j - 3 /\ 4 * (j - 1) + 4 = 4 * j
  OBVIOUS
<1>7. WrittenParameter(p) = LittleEndian(SubSeq(b, 4 * j - 3, 4 * j))
  BY <1>3, Zenon DEF WrittenParameter, PositionOf, b
<1>8. SubSeq(b, 4 * j - 3, 4 * j) \in Seq(Nat)
  BY <1>2, PartIsBytes, BytesAreNumbers
<1>9. QED
  BY <1>4, <1>5, <1>6, <1>7, <1>8, LittleEndianIsNat

-----------------------------------------------------------------------------
\* Past the file header the stream is known to have one, of a database of this
\* type, and the size it states is kept.
HeaderFound ==
  header_pc \in {"database_header", "read", "decode"} =>
    /\ stream.size >= SizeOf(FileHeader)
    /\ FileHeaderField("unknown1") = 14
    /\ header_size = LittleEndian(stream.file["header_size"])

\* There is memory for the header, of its size, until it is decoded.
HeaderAllocated ==
  IF header_pc \in {"read", "decode"}
  THEN /\ database_header_data # NULL
       /\ DatabaseHeaderSize \in MinimumHeaderSize .. MaximumAllocation
       /\ Len(database_header_data) = DatabaseHeaderSize
  ELSE database_header_data = NULL

\* What is decoded lies inside the stream.
HeaderRead ==
  header_pc = "decode" =>
    header_size <= stream.size /\ database_header_data = HeaderBytes

\* An open starts from nothing.
NothingReturned ==
  /\ header_pc # "idle" => header_result = "none"
  /\ header_pc = "file_header" => outputs = <<0, 0, 0>>

HeaderInv ==
  HeaderTypeOK /\ HeaderFound /\ HeaderAllocated /\ HeaderRead /\ NothingReturned

(* What is decoded is all of the header.                                    *)
LEMMA DecodeIsComplete ==
  ASSUME HeaderInv, header_pc = "decode"
  PROVE  HeaderComplete /\ database_header_data = HeaderBytes
<1>1. SizeOf(FileHeader) = 12
  BY FileHeaderLayout
<1>2. header_size - 12 \in 60 .. MaximumAllocation
  BY <1>1 DEF HeaderInv, HeaderAllocated, DatabaseHeaderSize, MinimumHeaderSize
<1>3. header_size \in Nat /\ stream \in Streams
  BY DEF HeaderInv, HeaderTypeOK
<1>4. header_size >= 72
  BY <1>2, <1>3, MaximumAssumption
<1>5. QED
  BY <1>3, <1>4 DEF HeaderInv, HeaderFound, HeaderRead, HeaderComplete

(* The invariant holds before the first open.                               *)
LEMMA InitHeaderInv == HeaderInit => HeaderInv
<1> SUFFICES ASSUME HeaderInit PROVE HeaderInv
  OBVIOUS
<1>1. HeaderTypeOK
  <2>1. io_handle \in [DOMAIN Cleared -> Nat]
    BY DEF HeaderInit, Cleared
  <2>2. QED
    BY <2>1 DEF HeaderInit, HeaderTypeOK
<1>2. QED
  BY <1>1 DEF HeaderInit, HeaderInv, HeaderFound, HeaderAllocated, HeaderRead,
              NothingReturned

(* Every step keeps the invariant.                                          *)
LEMMA StepHeaderInv == HeaderInv /\ [HeaderNext]_header_vars => HeaderInv'
<1> SUFFICES ASSUME HeaderInv, [HeaderNext]_header_vars PROVE HeaderInv'
  OBVIOUS
<1> USE DEF outputs
<1>1. CASE UNCHANGED header_vars
  BY <1>1 DEF header_vars, HeaderInv, HeaderTypeOK, HeaderFound, HeaderAllocated,
     HeaderRead, NothingReturned, FileHeaderField, DatabaseHeaderSize, HeaderBytes
<1>2. CASE Begin
  BY <1>2 DEF Begin, HeaderInv, HeaderTypeOK, HeaderFound, HeaderAllocated,
     HeaderRead, NothingReturned
<1>3. CASE ReadFileHeader
  <2>1. /\ stream \in Streams /\ stream' = stream
        /\ stream.size >= SizeOf(FileHeader)
    BY <1>3 DEF ReadFileHeader, HeaderInv, HeaderTypeOK
  <2>2. /\ FileHeaderField("header_size")
             = LittleEndian(stream.file["header_size"])
        /\ FileHeaderField("header_size") \in Nat
    BY <2>1, FileHeaderRead
  <2>3. FileHeaderField("unknown1")' = FileHeaderField("unknown1")
    BY <2>1 DEF FileHeaderField
  <2>4. HeaderTypeOK'
    BY <1>3, <2>2 DEF ReadFileHeader, HeaderInv, HeaderTypeOK
  <2>5. HeaderFound'
    BY <1>3, <2>1, <2>2, <2>3 DEF ReadFileHeader, HeaderFound
  <2>6. (HeaderAllocated /\ HeaderRead /\ NothingReturned)'
    BY <1>3 DEF ReadFileHeader, HeaderInv, HeaderAllocated, HeaderRead,
       NothingReturned
  <2>7. QED
    BY <2>4, <2>5, <2>6 DEF HeaderInv
<1>4. CASE AllocateHeader
  <2>1. DatabaseHeaderSize \in 60 .. MaximumAllocation
    BY <1>4 DEF AllocateHeader, MinimumHeaderSize
  <2>2. PICK n \in 60 .. MaximumAllocation : n = DatabaseHeaderSize
    BY <2>1
  <2>3. /\ database_header_data' = [i \in 1 .. n |-> Filler]
        /\ DatabaseHeaderSize' = n
    BY <1>4, <2>2 DEF AllocateHeader, DatabaseHeaderSize
  <2>4. n \in Nat /\ n # 0
    BY <2>2, MaximumAssumption
  <2>5. /\ [i \in 1 .. n |-> Filler] \in Seq(0 .. 255)
        /\ Len([i \in 1 .. n |-> Filler]) = n
    BY <2>4 DEF Filler
  <2>6. database_header_data' # NULL
    BY <2>3, <2>4, <2>5 DEF NULL
  <2>7. HeaderTypeOK'
    BY <1>4, <2>3, <2>5 DEF AllocateHeader, HeaderInv, HeaderTypeOK
  <2>8. HeaderAllocated'
    BY <1>4, <2>2, <2>3, <2>5, <2>6 DEF AllocateHeader, HeaderAllocated,
       MinimumHeaderSize
  <2>9. (HeaderFound /\ HeaderRead /\ NothingReturned)'
    BY <1>4 DEF AllocateHeader, HeaderInv, HeaderFound, HeaderRead,
       NothingReturned, FileHeaderField
  <2>10. QED
    BY <2>7, <2>8, <2>9 DEF HeaderInv
<1>5. CASE ReadDatabaseHeader
  <2>1. stream \in Streams /\ header_size \in Nat /\ SizeOf(FileHeader) = 12
    BY FileHeaderLayout DEF HeaderInv, HeaderTypeOK
  <2>2. PICK h \in Nat : h = header_size
    BY <2>1
  <2>3. PICK t \in Seq(Byte) : /\ t = StreamData(stream)
                               /\ Len(t) = stream.size /\ Len(t) \in Nat
    BY <2>1, StreamFacts
  <2>4. DatabaseHeaderSize = h - 12 /\ h - 12 \in 60 .. MaximumAllocation
    BY <1>5, <2>1, <2>2 DEF ReadDatabaseHeader, HeaderInv, HeaderAllocated,
       DatabaseHeaderSize, MinimumHeaderSize
  <2>5. h >= 72
    BY <2>4, MaximumAssumption
  <2>6. h <= Len(t)
    <3>1. 12 + (h - 12) <= Len(t)
      BY <1>5, <2>1, <2>3, <2>4 DEF ReadDatabaseHeader
    <3>2. QED
      BY <2>3, <3>1
  <2>7. SubSeq(t, 13, h) \in Seq(Byte) /\ Len(SubSeq(t, 13, h)) = h - 12
    BY <2>3, <2>5, <2>6
  <2>8. database_header_data' = SubSeq(t, 13, h) /\ HeaderBytes' = SubSeq(t, 13, h)
    BY <1>5, <2>1, <2>2, <2>3 DEF ReadDatabaseHeader, HeaderBytes
  <2>9. SubSeq(t, 13, h) # NULL
    <3>1. Len(SubSeq(t, 13, h)) # 0
      BY <2>5, <2>7
    <3>2. Len(NULL) = 0
      BY DEF NULL
    <3>3. QED
      BY <3>1, <3>2, Zenon
  <2>10. HeaderTypeOK'
    BY <1>5, <2>7, <2>8 DEF ReadDatabaseHeader, HeaderInv, HeaderTypeOK, Byte
  <2>11. HeaderAllocated'
    <3>1. DatabaseHeaderSize' = h - 12
      BY <1>5, <2>4 DEF ReadDatabaseHeader, DatabaseHeaderSize
    <3>2. QED
      BY <1>5, <2>4, <2>7, <2>8, <2>9, <3>1
         DEF ReadDatabaseHeader, HeaderAllocated, MinimumHeaderSize
  <2>12. HeaderRead'
    BY <1>5, <2>2, <2>3, <2>6, <2>8 DEF ReadDatabaseHeader, HeaderRead
  <2>13. (HeaderFound /\ NothingReturned)'
    BY <1>5 DEF ReadDatabaseHeader, HeaderInv, HeaderFound, NothingReturned,
       FileHeaderField
  <2>14. QED
    BY <2>10, <2>11, <2>12, <2>13 DEF HeaderInv
<1>6. CASE DecodeDatabaseHeader
  <2>1. header_pc = "decode"
    BY <1>6 DEF DecodeDatabaseHeader
  <2>2. HeaderComplete /\ database_header_data = HeaderBytes
    BY <2>1, DecodeIsComplete
  <2>3. /\ FieldValue(DatabaseHeader, HeaderBytes, "database_type") \in Nat
        /\ FieldValue(DatabaseHeader, HeaderBytes, "number_of_volumes") \in Nat
        /\ FieldValue(DatabaseHeader, HeaderBytes, "number_of_sources") \in Nat
    BY <2>2, HeaderNumberRead
  <2>4. \A p \in ToSet(Parameters) : DecodedParameters(HeaderBytes)[p] \in Nat
    BY <2>2, HeaderParameterRead
  <2>5. /\ io_handle \in [DOMAIN Cleared -> Nat]
        /\ DOMAIN Cleared = ToSet(Parameters) \cup {"database_type"}
    BY DEF HeaderInv, HeaderTypeOK, Cleared
  <2>6. io_handle' \in [DOMAIN Cleared -> Nat]
    <3>1. io_handle' =
            [p \in DOMAIN io_handle |->
               IF p = "database_type"
               THEN FieldValue(DatabaseHeader, HeaderBytes, "database_type")
               ELSE DecodedParameters(HeaderBytes)[p]]
      BY <1>6, <2>2 DEF DecodeDatabaseHeader
    <3>2. QED
      BY <2>3, <2>4, <2>5, <3>1
  <2>7. HeaderTypeOK'
    BY <1>6, <2>2, <2>3, <2>6
       DEF DecodeDatabaseHeader, HeaderInv, HeaderTypeOK, NULL
  <2>8. (HeaderFound /\ HeaderAllocated /\ HeaderRead /\ NothingReturned)'
    BY <1>6 DEF DecodeDatabaseHeader, HeaderFound, HeaderAllocated, HeaderRead,
       NothingReturned
  <2>9. QED
    BY <2>7, <2>8 DEF HeaderInv
<1>7. CASE Fails
  BY <1>7 DEF Fails, HeaderInv, HeaderTypeOK, HeaderFound, HeaderAllocated,
     HeaderRead, NothingReturned
<1>8. CASE Clear
  <2>1. Cleared \in [DOMAIN Cleared -> Nat]
    BY DEF Cleared
  <2>2. QED
    BY <1>8, <2>1 DEF Clear, HeaderInv, HeaderTypeOK, HeaderFound,
       HeaderAllocated, HeaderRead, NothingReturned
<1>9. QED
  BY <1>1, <1>2, <1>3, <1>4, <1>5, <1>6, <1>7, <1>8 DEF HeaderNext

(* The invariant of the header always holds.                                *)
LEMMA AlwaysHeaderInv == HeaderSpec => []HeaderInv
<1>1. QED
  BY InitHeaderInv, StepHeaderInv, PTL DEF HeaderSpec

(* The variables of the header have their types, for every stream.          *)
THEOREM HeaderTypeCorrect == HeaderSpec => []HeaderTypeOK
<1>1. HeaderInv => HeaderTypeOK
  BY DEF HeaderInv
<1>2. QED
  BY <1>1, AlwaysHeaderInv, PTL

(* Every field of the database header is taken from inside the memory that  *)
(* was allocated for it, whatever size the file header gives: a check for   *)
(* 60 bytes is enough for a structure of 64.                                *)
THEOREM HeaderReadInside == HeaderSpec => []ReadsInsideHeader
<1>1. HeaderInv => ReadsInsideHeader
  <2> SUFFICES ASSUME HeaderInv, database_header_data # NULL,
                      NEW name \in HeaderFields
               PROVE  OffsetOf(DatabaseHeader, name)
                        + WidthOf(DatabaseHeader, name)
                        <= Len(database_header_data)
    BY DEF ReadsInsideHeader
  <2>1. /\ DatabaseHeaderSize \in 60 .. MaximumAllocation
        /\ Len(database_header_data) = DatabaseHeaderSize
    BY DEF HeaderInv, HeaderAllocated, MinimumHeaderSize
  <2>2. PICK n \in 60 .. MaximumAllocation : n = Len(database_header_data)
    BY <2>1
  <2>3. PICK l, offset, width \in Nat :
          /\ Placed(DatabaseHeader, name, l, offset, width)
          /\ offset + width <= 60
    BY DatabaseHeaderLayout DEF HeaderFields
  <2>4. /\ OffsetOf(DatabaseHeader, name) = offset
        /\ WidthOf(DatabaseHeader, name) = width
    BY <2>3, DatabaseHeaderLayout, FieldIsPlaced
  <2>5. offset + width <= n
    BY <2>2, <2>3, MaximumAssumption
  <2>6. QED
    BY <2>2, <2>4, <2>5
<1>2. QED
  BY <1>1, AlwaysHeaderInv, PTL

(* When libagdb_io_handle_read_uncompressed_file_header succeeds, the entry *)
(* sizes, the counts and the offset it leaves are those of the database     *)
(* that was read, for every stream a writer may have written and whatever   *)
(* database was read, or failed to be read, before with the same IO handle. *)
THEOREM HeaderReadAsWritten == HeaderSpec => HeaderAsWritten
<1> DEFINE Step ==
      header_pc # "idle" /\ header_result' = "ok" =>
        IF FileHeaderField("unknown1") = 14
        THEN /\ number_of_volumes' = HeaderWritten("number_of_volumes")
             /\ number_of_sources' = HeaderWritten("number_of_sources")
             /\ volumes_information_offset' =
                  LittleEndian(stream.file["header_size"])
             /\ \A p \in ToSet(Parameters) :
                  io_handle'[p] = WrittenParameter(p)
        ELSE outputs' = <<0, 0, 0>>
<1>1. HeaderInv /\ [HeaderNext]_header_vars => [Step]_header_vars
  <2> SUFFICES ASSUME HeaderInv, HeaderNext, header_pc # "idle",
                      header_result' = "ok"
               PROVE  Step
    OBVIOUS
  <2>1. header_result = "none"
    BY DEF HeaderInv, NothingReturned
  <2>2. CASE ReadFileHeader
    <3>1. FileHeaderField("unknown1") # 14 /\ outputs' = outputs
      BY <2>1, <2>2 DEF ReadFileHeader
    <3>2. outputs = <<0, 0, 0>>
      BY <2>2 DEF ReadFileHeader, HeaderInv, NothingReturned
    <3>3. QED
      BY <3>1, <3>2
  <2>3. CASE DecodeDatabaseHeader
    <3>1. header_pc = "decode"
      BY <2>3 DEF DecodeDatabaseHeader
    <3>2. /\ HeaderComplete /\ database_header_data = HeaderBytes
          /\ FileHeaderField("unknown1") = 14
      BY <3>1, DecodeIsComplete DEF HeaderInv, HeaderFound
    <3>3. number_of_volumes' = HeaderWritten("number_of_volumes")
      BY <2>3, <3>2, HeaderNumberRead DEF DecodeDatabaseHeader
    <3>4. number_of_sources' = HeaderWritten("number_of_sources")
      BY <2>3, <3>2, HeaderNumberRead DEF DecodeDatabaseHeader
    <3>5. volumes_information_offset' = LittleEndian(stream.file["header_size"])
      BY <2>3, <3>2 DEF DecodeDatabaseHeader, HeaderComplete
    <3>6. ASSUME NEW p \in ToSet(Parameters)
          PROVE  io_handle'[p] = WrittenParameter(p)
      <4>1. p \in DOMAIN io_handle
        BY DEF HeaderInv, HeaderTypeOK, Cleared
      <4>2. p # "database_type"
        BY DEF Parameters, ToSet
      <4>3. io_handle'[p] = DecodedParameters(HeaderBytes)[p]
        BY <2>3, <3>2, <4>1, <4>2 DEF DecodeDatabaseHeader
      <4>4. QED
        BY <3>2, <4>3, HeaderParameterRead
    <3>7. QED
      BY <3>2, <3>3, <3>4, <3>5, <3>6
  <2>4. CASE Begin \/ AllocateHeader \/ ReadDatabaseHeader \/ Fails \/ Clear
    BY <2>1, <2>4 DEF Begin, AllocateHeader, ReadDatabaseHeader, Fails, Clear
  <2>5. QED
    BY <2>2, <2>3, <2>4 DEF HeaderNext
<1>2. QED
  BY <1>1, AlwaysHeaderInv, PTL DEF HeaderSpec, HeaderAsWritten
=============================================================================
