---------------------------- MODULE TrainPlaces -----------------------------
(***************************************************************************)
(* Where each pull request of a run is, for every value of the constants:  *)
(* in no two of the lists of the run's thread at once, so never both held  *)
(* and merged; in one of them or in the receipt, so never forgotten.       *)
(***************************************************************************)
EXTENDS TrainProofs

---------------------------------------------------------------------------
(* Lists of pull requests.  ToSet(q) is who is on a list; a list on which  *)
(* nobody is twice is injective.                                           *)

\* Nobody is on the empty list.
LEMMA NobodyListed == ToSet(<<>>) = {} /\ IsInjective(<<>>)
BY DEF ToSet, IsInjective

\* Who is on a list, by the positions of it.
LEMMA ListedAt ==
  ASSUME NEW S, NEW q \in Seq(S)
  PROVE  /\ Len(q) \in Nat /\ DOMAIN q = 1..Len(q) /\ \A i \in 1..Len(q) : q[i] \in S
         /\ ToSet(q) \subseteq S /\ \A i \in 1..Len(q) : q[i] \in ToSet(q)
         /\ \A x \in ToSet(q) : \E i \in 1..Len(q) : q[i] = x
         /\ IsInjective(q) <=> \A i, j \in 1..Len(q) : q[i] = q[j] => i = j
<1>1. Len(q) \in Nat /\ DOMAIN q = 1..Len(q) /\ \A i \in 1..Len(q) : q[i] \in S
  BY ElementOfSeq, LenProperties
<1> QED BY <1>1 DEF ToSet, IsInjective

\* One list behind another.
LEMMA ListsJoined ==
  ASSUME NEW S, NEW q \in Seq(S), NEW t \in Seq(S)
  PROVE  /\ ToSet(q \o t) = ToSet(q) \union ToSet(t)
         /\ IsInjective(q) /\ IsInjective(t) /\ ToSet(q) \cap ToSet(t) = {} => IsInjective(q \o t)
<1>1. /\ q \o t \in Seq(S) /\ Len(q \o t) = Len(q) + Len(t)
      /\ \A i \in 1..(Len(q) + Len(t)) : (q \o t)[i] = IF i <= Len(q) THEN q[i] ELSE t[i - Len(q)]
  BY ConcatProperties
<1> DEFINE u == q \o t
<1>5. /\ \A i \in 1..Len(u) : u[i] \in ToSet(u)
      /\ \A x \in ToSet(u) : \E i \in 1..Len(u) : u[i] = x
      /\ IsInjective(u) <=> \A i, j \in 1..Len(u) : u[i] = u[j] => i = j
  BY <1>1, ListedAt
<1>2. /\ Len(q) \in Nat /\ Len(t) \in Nat
      /\ \A i \in 1..Len(q) : q[i] \in ToSet(q)
      /\ \A x \in ToSet(q) : \E i \in 1..Len(q) : q[i] = x
      /\ \A i \in 1..Len(t) : t[i] \in ToSet(t)
      /\ \A x \in ToSet(t) : \E i \in 1..Len(t) : t[i] = x
      /\ \A i \in 1..(Len(q) + Len(t)) : (q \o t)[i] \in ToSet(q \o t)
      /\ \A x \in ToSet(q \o t) : \E i \in 1..(Len(q) + Len(t)) : (q \o t)[i] = x
      /\ IsInjective(q) <=> \A i, j \in 1..Len(q) : q[i] = q[j] => i = j
      /\ IsInjective(t) <=> \A i, j \in 1..Len(t) : t[i] = t[j] => i = j
      /\ IsInjective(q \o t) <=> \A i, j \in 1..(Len(q) + Len(t)) : (q \o t)[i] = (q \o t)[j] => i = j
  <2>1. /\ \A i \in 1..(Len(q) + Len(t)) : u[i] \in ToSet(u)
        /\ \A x \in ToSet(u) : \E i \in 1..(Len(q) + Len(t)) : u[i] = x
        /\ IsInjective(u) <=> \A i, j \in 1..(Len(q) + Len(t)) : u[i] = u[j] => i = j
    BY <1>1, <1>5
  <2> QED BY <2>1, ListedAt
<1>3. ToSet(q \o t) = ToSet(q) \union ToSet(t)
  <2>1. ASSUME NEW i \in 1..Len(q) PROVE q[i] \in ToSet(q \o t)
    <3>1. i \in 1..(Len(q) + Len(t)) /\ (q \o t)[i] = q[i]
      BY <1>1, <1>2
    <3> QED BY <1>2, <3>1
  <2>2. ASSUME NEW i \in 1..Len(t) PROVE t[i] \in ToSet(q \o t)
    <3>1. Len(q) + i \in 1..(Len(q) + Len(t)) /\ (q \o t)[Len(q) + i] = t[i]
      BY <1>1, <1>2
    <3> QED BY <1>2, <3>1
  <2>3. ASSUME NEW i \in 1..(Len(q) + Len(t)) PROVE (q \o t)[i] \in ToSet(q) \union ToSet(t)
    <3>1. CASE i <= Len(q)
      <4>1. i \in 1..Len(q) /\ (q \o t)[i] = q[i]
        BY <1>1, <1>2, <3>1
      <4> QED BY <1>2, <4>1
    <3>2. CASE ~(i <= Len(q))
      <4>1. i - Len(q) \in 1..Len(t) /\ (q \o t)[i] = t[i - Len(q)]
        BY <1>1, <1>2, <3>2
      <4> QED BY <1>2, <4>1
    <3> QED BY <3>1, <3>2
  <2>4. ToSet(q \o t) \subseteq ToSet(q) \union ToSet(t)
    BY <1>2, <2>3
  <2>5. ToSet(q) \subseteq ToSet(q \o t) /\ ToSet(t) \subseteq ToSet(q \o t)
    BY <1>2, <2>1, <2>2
  <2> QED BY <2>4, <2>5
<1>4. ASSUME IsInjective(q), IsInjective(t), ToSet(q) \cap ToSet(t) = {},
             NEW i \in 1..(Len(q) + Len(t)), NEW j \in 1..(Len(q) + Len(t)), (q \o t)[i] = (q \o t)[j]
      PROVE  i = j
  <2>1. CASE i <= Len(q) /\ j <= Len(q)
    BY <1>1, <1>2, <1>4, <2>1
  <2>2. CASE ~(i <= Len(q)) /\ ~(j <= Len(q))
    <3>1. /\ i - Len(q) \in 1..Len(t) /\ j - Len(q) \in 1..Len(t)
          /\ t[i - Len(q)] = t[j - Len(q)]
      BY <1>1, <1>2, <1>4, <2>2
    <3>2. i - Len(q) = j - Len(q)
      BY <1>2, <1>4, <3>1
    <3> QED BY <1>2, <3>2
  <2>3. ASSUME NEW a \in 1..Len(q), NEW b \in 1..Len(t) PROVE q[a] # t[b]
    BY <1>2, <1>4
  <2>4. CASE i <= Len(q) /\ ~(j <= Len(q))
    <3>1. i \in 1..Len(q) /\ j - Len(q) \in 1..Len(t) /\ q[i] = t[j - Len(q)]
      BY <1>1, <1>2, <1>4, <2>4
    <3> QED BY <2>3, <3>1
  <2>5. CASE ~(i <= Len(q)) /\ j <= Len(q)
    <3>1. j \in 1..Len(q) /\ i - Len(q) \in 1..Len(t) /\ q[j] = t[i - Len(q)]
      BY <1>1, <1>2, <1>4, <2>5
    <3> QED BY <2>3, <3>1
  <2> QED BY <2>1, <2>2, <2>4, <2>5
<1> QED BY <1>2, <1>3, <1>4

\* A list split behind its i-th place.
LEMMA ListSplit ==
  ASSUME NEW S, NEW q \in Seq(S), NEW i \in Nat, i <= Len(q)
  PROVE  /\ SubSeq(q, 1, i) \in Seq(S) /\ From(q, i + 1) \in Seq(S)
         /\ Len(SubSeq(q, 1, i)) = i /\ Len(From(q, i + 1)) = Len(q) - i
         /\ \A j \in 1..i : SubSeq(q, 1, i)[j] = q[j]
         /\ \A j \in 1..(Len(q) - i) : From(q, i + 1)[j] = q[i + j]
         /\ ToSet(q) = ToSet(SubSeq(q, 1, i)) \union ToSet(From(q, i + 1))
         /\ IsInjective(q) => /\ IsInjective(SubSeq(q, 1, i)) /\ IsInjective(From(q, i + 1))
                              /\ ToSet(SubSeq(q, 1, i)) \cap ToSet(From(q, i + 1)) = {}
<1>1. Len(q) \in Nat /\ \A j \in 1..Len(q) : q[j] \in S
  BY ListedAt
<1>2. /\ SubSeq(q, 1, i) \in Seq(S) /\ Len(SubSeq(q, 1, i)) = i
      /\ \A j \in 1..i : SubSeq(q, 1, i)[j] = q[j]
  <2>1. /\ Len(SubSeq(q, 1, i)) = IF 1 <= i THEN i - 1 + 1 ELSE 0
        /\ \A j \in 1..(i - 1 + 1) : SubSeq(q, 1, i)[j] = q[1 + j - 1]
        /\ SubSeq(q, 1, i) \in Seq(S)
    BY <1>1, SubSeqProperties
  <2> QED BY <2>1
<1>3. /\ From(q, i + 1) \in Seq(S) /\ Len(From(q, i + 1)) = Len(q) - i
      /\ \A j \in 1..(Len(q) - i) : From(q, i + 1)[j] = q[i + j]
  <2>1. \A j \in (i + 1)..Len(q) : q[j] \in S
    BY <1>1
  <2>2. /\ SubSeq(q, i + 1, Len(q)) \in Seq(S)
        /\ Len(SubSeq(q, i + 1, Len(q))) = IF i + 1 <= Len(q) THEN Len(q) - (i + 1) + 1 ELSE 0
        /\ \A j \in 1..(Len(q) - (i + 1) + 1) : SubSeq(q, i + 1, Len(q))[j] = q[(i + 1) + j - 1]
    BY <1>1, <2>1, SubSeqProperties
  <2> QED BY <1>1, <2>2 DEF From
<1> DEFINE a == SubSeq(q, 1, i)
           b == From(q, i + 1)
<1>4. /\ a \in Seq(S) /\ Len(a) = i /\ \A j \in 1..i : a[j] = q[j]
      /\ b \in Seq(S) /\ Len(b) = Len(q) - i /\ \A j \in 1..(Len(q) - i) : b[j] = q[i + j]
  BY <1>2, <1>3
<1> HIDE DEF a, b
<1>5. /\ \A j \in 1..i : a[j] \in ToSet(a)
      /\ \A x \in ToSet(a) : \E j \in 1..i : a[j] = x
      /\ IsInjective(a) <=> \A j, k \in 1..i : a[j] = a[k] => j = k
  BY <1>4, ListedAt
<1>6. /\ \A j \in 1..(Len(q) - i) : b[j] \in ToSet(b)
      /\ \A x \in ToSet(b) : \E j \in 1..(Len(q) - i) : b[j] = x
      /\ IsInjective(b) <=> \A j, k \in 1..(Len(q) - i) : b[j] = b[k] => j = k
  <2>1. /\ \A j \in 1..Len(b) : b[j] \in ToSet(b)
        /\ \A x \in ToSet(b) : \E j \in 1..Len(b) : b[j] = x
        /\ IsInjective(b) <=> \A j, k \in 1..Len(b) : b[j] = b[k] => j = k
    BY <1>4, ListedAt
  <2> QED BY <1>4, <2>1
<1>7. /\ \A j \in 1..Len(q) : q[j] \in ToSet(q)
      /\ \A x \in ToSet(q) : \E j \in 1..Len(q) : q[j] = x
      /\ IsInjective(q) <=> \A j, k \in 1..Len(q) : q[j] = q[k] => j = k
  BY ListedAt
<1>8. ToSet(q) = ToSet(a) \union ToSet(b)
  <2>1. ASSUME NEW j \in 1..Len(q) PROVE q[j] \in ToSet(a) \union ToSet(b)
    <3>1. CASE j <= i
      BY <1>1, <1>4, <1>5, <3>1
    <3>2. CASE ~(j <= i)
      <4>1. j - i \in 1..(Len(q) - i) /\ b[j - i] = q[j]
        BY <1>1, <1>4, <3>2
      <4> QED BY <1>6, <4>1
    <3> QED BY <3>1, <3>2
  <2>2. \A j \in 1..i : a[j] \in ToSet(q)
    BY <1>1, <1>4, <1>7
  <2>3. ASSUME NEW j \in 1..(Len(q) - i) PROVE b[j] \in ToSet(q)
    <3>1. i + j \in 1..Len(q) /\ b[j] = q[i + j]
      BY <1>1, <1>4
    <3> QED BY <1>7, <3>1
  <2>4. ToSet(q) \subseteq ToSet(a) \union ToSet(b)
    BY <1>7, <2>1
  <2>5. ToSet(a) \subseteq ToSet(q)
    BY <1>5, <2>2
  <2>6. ToSet(b) \subseteq ToSet(q)
    BY <1>6, <2>3
  <2> QED BY <2>4, <2>5, <2>6
<1>9. ASSUME IsInjective(q)
      PROVE  IsInjective(a) /\ IsInjective(b) /\ ToSet(a) \cap ToSet(b) = {}
  <2>1. ASSUME NEW j \in 1..i, NEW k \in 1..i, a[j] = a[k] PROVE j = k
    BY <1>1, <1>4, <1>7, <1>9, <2>1
  <2>2. ASSUME NEW j \in 1..(Len(q) - i), NEW k \in 1..(Len(q) - i), b[j] = b[k] PROVE j = k
    <3>1. i + j \in 1..Len(q) /\ i + k \in 1..Len(q) /\ q[i + j] = q[i + k]
      BY <1>1, <1>4, <2>2
    <3>2. i + j = i + k
      BY <1>7, <1>9, <3>1
    <3> QED BY <1>1, <3>2
  <2>3. ASSUME NEW j \in 1..i, NEW k \in 1..(Len(q) - i) PROVE a[j] # b[k]
    <3>1. j \in 1..Len(q) /\ i + k \in 1..Len(q) /\ j # i + k /\ a[j] = q[j] /\ b[k] = q[i + k]
      BY <1>1, <1>4
    <3> QED BY <1>7, <1>9, <3>1
  <2>4. ToSet(a) \cap ToSet(b) = {}
    BY <1>5, <1>6, <2>3
  <2> QED BY <1>5, <1>6, <2>1, <2>2, <2>4
<1> QED BY <1>4, <1>8, <1>9 DEF a, b

\* What is behind the i-th place.
LEMMA ListBehind ==
  ASSUME NEW S, NEW q \in Seq(S)
  PROVE  \A i \in Nat : i <= Len(q) =>
           /\ From(q, i + 1) \in Seq(S) /\ Len(From(q, i + 1)) = Len(q) - i
           /\ \A j \in 1..(Len(q) - i) : From(q, i + 1)[j] = q[i + j]
BY ListSplit

\* The first of a list, and the others.
LEMMA ListHead ==
  ASSUME NEW S, NEW q \in Seq(S), q # <<>>
  PROVE  /\ Head(q) \in S /\ Tail(q) \in Seq(S) /\ q[1] = Head(q) /\ 1 \in DOMAIN q
         /\ Len(Tail(q)) = Len(q) - 1 /\ \A i \in 1..(Len(q) - 1) : Tail(q)[i] = q[i + 1]
         /\ ToSet(q) = {Head(q)} \union ToSet(Tail(q))
         /\ IsInjective(q) => IsInjective(Tail(q)) /\ Head(q) \notin ToSet(Tail(q))
<1>1. Len(q) \in Nat \ {0} /\ DOMAIN q = 1..Len(q) /\ \A i \in 1..Len(q) : q[i] \in S
  BY ListedAt, EmptySeq
<1>2. /\ Head(q) = q[1] /\ Tail(q) \in Seq(S) /\ Len(Tail(q)) = Len(q) - 1
      /\ \A i \in 1..Len(Tail(q)) : Tail(q)[i] = q[i + 1]
  BY HeadTailProperties
<1> DEFINE t == Tail(q)
           m == Len(q) - 1
<1>3. /\ \A i \in 1..m : t[i] \in ToSet(t) /\ t[i] = q[i + 1]
      /\ \A x \in ToSet(t) : \E i \in 1..m : t[i] = x
      /\ IsInjective(t) <=> \A i, j \in 1..m : t[i] = t[j] => i = j
  <2>1. Len(t) = m /\ t \in Seq(S)
    BY <1>2
  <2>2. /\ \A i \in 1..Len(t) : t[i] \in ToSet(t)
        /\ \A x \in ToSet(t) : \E i \in 1..Len(t) : t[i] = x
        /\ IsInjective(t) <=> \A i, j \in 1..Len(t) : t[i] = t[j] => i = j
    BY <2>1, ListedAt
  <2> QED BY <1>2, <2>1, <2>2
<1>4. /\ \A i \in 1..Len(q) : q[i] \in ToSet(q)
      /\ \A x \in ToSet(q) : \E i \in 1..Len(q) : q[i] = x
      /\ IsInjective(q) <=> \A i, j \in 1..Len(q) : q[i] = q[j] => i = j
  BY ListedAt
<1>5. \A i \in 1..m : i + 1 \in 1..Len(q) /\ i + 1 # 1
  BY <1>1
<1>6. \A i \in 1..Len(q) : i = 1 \/ (i - 1 \in 1..m /\ i = (i - 1) + 1)
  BY <1>1
<1>7. m \in Nat /\ 1 \in 1..Len(q)
  BY <1>1
<1> HIDE DEF t, m
<1>8. ToSet(q) \subseteq {q[1]} \union ToSet(t)
  BY <1>3, <1>4, <1>6
<1>9. {q[1]} \union ToSet(t) \subseteq ToSet(q)
  BY <1>3, <1>4, <1>5, <1>7
<1>10. ASSUME IsInjective(q) PROVE IsInjective(t) /\ q[1] \notin ToSet(t)
  <2>1. ASSUME NEW i \in 1..m, NEW j \in 1..m, t[i] = t[j] PROVE i = j
    <3>1. i + 1 = j + 1
      BY <1>3, <1>4, <1>5, <1>10, <2>1
    <3> QED BY <1>7, <3>1
  <2>2. ASSUME NEW i \in 1..m PROVE t[i] # q[1]
    BY <1>3, <1>4, <1>5, <1>7, <1>10
  <2> QED BY <1>3, <2>1, <2>2
<1> QED BY <1>1, <1>2, <1>8, <1>9, <1>10 DEF t

\* A chunk of a list, and what is behind it (chunk).
LEMMA ListChunk ==
  ASSUME NEW S, NEW q \in Seq(S), NEW i \in Nat
  PROVE  /\ Upto(q, i) \in Seq(S) /\ From(q, i + 1) \in Seq(S)
         /\ ToSet(q) = ToSet(Upto(q, i)) \union ToSet(From(q, i + 1))
         /\ IsInjective(q) => /\ IsInjective(Upto(q, i)) /\ IsInjective(From(q, i + 1))
                              /\ ToSet(Upto(q, i)) \cap ToSet(From(q, i + 1)) = {}
<1>1. Len(q) \in Nat
  BY ListedAt
<1>2. CASE i <= Len(q)
  <2>1. Upto(q, i) = SubSeq(q, 1, i)
    BY <1>2 DEF Upto
  <2> QED BY <1>2, <2>1, ListSplit
<1>3. CASE ~(i <= Len(q))
  <2>1. Upto(q, i) = SubSeq(q, 1, Len(q))
    BY <1>3 DEF Upto
  <2>2. From(q, i + 1) \in Seq(S) /\ Len(From(q, i + 1)) = 0
    BY <1>1, <1>3, SubSeqProperties DEF From
  <2>3. From(q, i + 1) = <<>>
    BY <2>2, EmptySeq
  <2>4. SubSeq(q, 1, Len(q)) = q
    BY <1>1, SubSeqFull
  <2> QED BY <2>1, <2>3, <2>4, NobodyListed, EmptySeq
<1> QED BY <1>2, <1>3

\* What is left of a list at one of its places, and behind it.
LEMMA ListFrom ==
  ASSUME NEW S, NEW q \in Seq(S), NEW i \in DOMAIN q
  PROVE  /\ From(q, i) \in Seq(S) /\ From(q, i + 1) \in Seq(S) /\ From(q, 1) = q
         /\ Tail(From(q, i)) = From(q, i + 1) /\ q[i] \in S
         /\ ToSet(From(q, i)) = {q[i]} \union ToSet(From(q, i + 1))
         /\ IsInjective(From(q, i)) => /\ IsInjective(From(q, i + 1))
                                       /\ q[i] \notin ToSet(From(q, i + 1))
<1>1. Len(q) \in Nat /\ i \in 1..Len(q)
  BY ListedAt
<1>10. \A j \in Nat : j <= Len(q) =>
        /\ From(q, j + 1) \in Seq(S) /\ Len(From(q, j + 1)) = Len(q) - j
        /\ \A k \in 1..(Len(q) - j) : From(q, j + 1)[k] = q[j + k]
  BY ListBehind
<1>2. /\ From(q, i) \in Seq(S) /\ Len(From(q, i)) = Len(q) - i + 1
      /\ \A j \in 1..(Len(q) - i + 1) : From(q, i)[j] = q[i + j - 1]
  <2>1. PICK h \in Nat : h + 1 = i /\ h <= Len(q)
    <3>1. i - 1 \in Nat /\ (i - 1) + 1 = i /\ i - 1 <= Len(q)
      BY <1>1
    <3> QED BY <3>1
  <2>2. /\ From(q, h + 1) \in Seq(S) /\ Len(From(q, h + 1)) = Len(q) - h
        /\ \A k \in 1..(Len(q) - h) : From(q, h + 1)[k] = q[h + k]
    BY <1>10, <2>1
  <2>3. Len(q) - h = Len(q) - i + 1 /\ \A k \in 1..(Len(q) - h) : h + k = i + k - 1
    BY <1>1, <2>1
  <2> QED BY <2>1, <2>2, <2>3
<1>3. /\ From(q, i + 1) \in Seq(S) /\ Len(From(q, i + 1)) = Len(q) - i
      /\ \A j \in 1..(Len(q) - i) : From(q, i + 1)[j] = q[i + j]
  <2>1. i \in Nat /\ i <= Len(q)
    BY <1>1
  <2> QED BY <1>10, <2>1
<1>4. From(q, i) # <<>> /\ From(q, i)[1] = q[i]
  <2>1. Len(From(q, i)) # 0
    BY <1>1, <1>2
  <2> QED BY <1>1, <1>2, <2>1, EmptySeq
<1>5. Tail(From(q, i)) = From(q, i + 1)
  <2>1. /\ Tail(From(q, i)) \in Seq(S) /\ Len(Tail(From(q, i))) = Len(q) - i
        /\ \A j \in 1..(Len(q) - i) : Tail(From(q, i))[j] = From(q, i)[j + 1]
    <3>1. (Len(q) - i + 1) - 1 = Len(q) - i
      BY <1>1
    <3> QED BY <1>2, <1>4, <3>1, ListHead
  <2>2. ASSUME NEW j \in 1..(Len(q) - i) PROVE Tail(From(q, i))[j] = From(q, i + 1)[j]
    <3>1. j + 1 \in 1..(Len(q) - i + 1) /\ i + (j + 1) - 1 = i + j
      BY <1>1
    <3>2. From(q, i)[j + 1] = q[i + j]
      BY <1>2, <3>1
    <3> QED BY <1>3, <2>1, <3>2
  <2> QED BY <1>3, <2>1, <2>2, SeqEqual
<1>6. From(q, 1) = q
  BY <1>1, SubSeqFull DEF From
<1>7. Head(From(q, i)) = q[i]
  BY <1>2, <1>4, ListHead
<1>8. q[i] \in S
  BY <1>1, ListedAt
<1>9. /\ ToSet(From(q, i)) = {q[i]} \union ToSet(From(q, i + 1))
      /\ IsInjective(From(q, i)) => /\ IsInjective(From(q, i + 1))
                                    /\ q[i] \notin ToSet(From(q, i + 1))
  <2>1. /\ ToSet(From(q, i)) = {Head(From(q, i))} \union ToSet(Tail(From(q, i)))
        /\ IsInjective(From(q, i)) => /\ IsInjective(Tail(From(q, i)))
                                      /\ Head(From(q, i)) \notin ToSet(Tail(From(q, i)))
    BY <1>2, <1>4, ListHead
  <2> QED BY <1>5, <1>7, <2>1
<1> QED BY <1>2, <1>3, <1>5, <1>6, <1>8, <1>9

\* One more on a list.
LEMMA ListAppend ==
  ASSUME NEW S, NEW q \in Seq(S), NEW x \in S
  PROVE  /\ ToSet(Append(q, x)) = ToSet(q) \union {x}
         /\ IsInjective(q) /\ x \notin ToSet(q) => IsInjective(Append(q, x))
<1>1. <<x>> \in Seq(S) /\ Len(<<x>>) = 1 /\ <<x>>[1] = x
  BY SingletonTyped
<1>2. ToSet(<<x>>) = {x} /\ IsInjective(<<x>>)
  <2>1. \A i \in 1..1 : <<x>>[i] = x
    BY <1>1
  <2>2. DOMAIN <<x>> = 1..1
    BY <1>1, ListedAt
  <2> QED BY <2>1, <2>2 DEF ToSet, IsInjective
<1>3. Append(q, x) = q \o <<x>>
  BY AppendIsConcat
<1>4. /\ ToSet(q \o <<x>>) = ToSet(q) \union ToSet(<<x>>)
      /\ IsInjective(q) /\ IsInjective(<<x>>) /\ ToSet(q) \cap ToSet(<<x>>) = {} => IsInjective(q \o <<x>>)
  BY <1>1, ListsJoined
<1> QED BY <1>2, <1>3, <1>4

\* The parts of a bisection: all their members, and that no part shares one.
Parts(st) == UNION {ToSet(st[i]) : i \in DOMAIN st}
Parted(st) ==
  /\ \A i \in DOMAIN st : IsInjective(st[i])
  /\ \A i, j \in DOMAIN st : i # j => ToSet(st[i]) \cap ToSet(st[j]) = {}

\* The members of the parts.
LEMMA PartsAt == ASSUME NEW st, NEW x PROVE x \in Parts(st) <=> \E i \in DOMAIN st : x \in ToSet(st[i])
BY DEF Parts

\* No parts.
LEMMA NoParts == Parts(<<>>) = {} /\ Parted(<<>>)
BY DEF Parts, Parted

\* The next part, and the others.
LEMMA PartsHead ==
  ASSUME NEW st \in Seq(Seq(PR)), st # <<>>
  PROVE  /\ Head(st) \in Seq(PR) /\ Tail(st) \in Seq(Seq(PR))
         /\ Parts(st) = ToSet(Head(st)) \union Parts(Tail(st))
         /\ Parted(st) => /\ IsInjective(Head(st)) /\ Parted(Tail(st))
                          /\ ToSet(Head(st)) \cap Parts(Tail(st)) = {}
<1>1. /\ Head(st) \in Seq(PR) /\ Tail(st) \in Seq(Seq(PR)) /\ st[1] = Head(st) /\ 1 \in DOMAIN st
      /\ Len(Tail(st)) = Len(st) - 1 /\ \A i \in 1..(Len(st) - 1) : Tail(st)[i] = st[i + 1]
  BY ListHead
<1>2. Len(st) \in Nat /\ DOMAIN st = 1..Len(st)
  BY LenProperties
<1>3. DOMAIN Tail(st) = 1..(Len(st) - 1)
  BY <1>1, LenProperties
<1> DEFINE t == Tail(st)
<1>4. \A i \in DOMAIN t : i + 1 \in DOMAIN st /\ i + 1 # 1 /\ t[i] = st[i + 1]
  BY <1>1, <1>2, <1>3
<1>5. \A i \in DOMAIN st : i = 1 \/ (i - 1 \in DOMAIN t /\ t[i - 1] = st[i])
  <2> SUFFICES ASSUME NEW i \in DOMAIN st, i # 1 PROVE i - 1 \in DOMAIN t /\ t[i - 1] = st[i]
    OBVIOUS
  <2>1. i - 1 \in 1..(Len(st) - 1) /\ (i - 1) + 1 = i
    BY <1>2
  <2> QED BY <1>1, <1>3, <2>1
<1>6. \A i, j \in DOMAIN t : i # j => i + 1 # j + 1
  BY <1>2, <1>3
<1> HIDE DEF t
<1>7. Parts(st) \subseteq ToSet(st[1]) \union Parts(t)
  BY <1>5, PartsAt
<1>8. ToSet(st[1]) \union Parts(t) \subseteq Parts(st)
  BY <1>1, <1>4, PartsAt
<1>9. ASSUME Parted(st)
      PROVE  IsInjective(st[1]) /\ Parted(t) /\ ToSet(st[1]) \cap Parts(t) = {}
  <2>1. IsInjective(st[1])
    BY <1>1, <1>9 DEF Parted
  <2>2. \A i \in DOMAIN t : IsInjective(t[i])
    BY <1>4, <1>9 DEF Parted
  <2>3. ASSUME NEW i \in DOMAIN t, NEW j \in DOMAIN t, i # j PROVE ToSet(t[i]) \cap ToSet(t[j]) = {}
    <3>1. /\ i + 1 \in DOMAIN st /\ j + 1 \in DOMAIN st /\ i + 1 # j + 1
          /\ t[i] = st[i + 1] /\ t[j] = st[j + 1]
      BY <1>4, <1>6, <2>3
    <3> QED BY <1>9, <3>1 DEF Parted
  <2>4. \A i \in DOMAIN t : ToSet(st[1]) \cap ToSet(t[i]) = {}
    BY <1>1, <1>4, <1>9 DEF Parted
  <2> QED BY <2>1, <2>2, <2>3, <2>4, PartsAt DEF Parted
<1> QED BY <1>1, <1>7, <1>8, <1>9 DEF t

\* Both ways to split a red family give every member to one of two parts (settle_red).
LEMMA SplitsApart ==
  ASSUME NEW q \in Seq(PR), IsInjective(q), NEW halves \in Splits(q)
  PROVE  \E a, b \in Seq(PR) :
           /\ halves = <<a, b>> /\ IsInjective(a) /\ IsInjective(b)
           /\ ToSet(a) \cap ToSet(b) = {} /\ ToSet(a) \union ToSet(b) = ToSet(q)
<1>1. Len(q) \in Nat /\ DOMAIN q = 1..Len(q)
  BY ListedAt
<1>2. CASE halves = <<SubSeq(q, 1, Len(q) \div 2), From(q, Len(q) \div 2 + 1)>>
  <2>1. Len(q) \div 2 \in Nat /\ Len(q) \div 2 <= Len(q)
    BY <1>1
  <2>2. PICK h \in Nat : h = Len(q) \div 2 /\ h <= Len(q)
    BY <2>1
  <2>3. /\ SubSeq(q, 1, h) \in Seq(PR) /\ From(q, h + 1) \in Seq(PR)
        /\ ToSet(q) = ToSet(SubSeq(q, 1, h)) \union ToSet(From(q, h + 1))
        /\ IsInjective(SubSeq(q, 1, h)) /\ IsInjective(From(q, h + 1))
        /\ ToSet(SubSeq(q, 1, h)) \cap ToSet(From(q, h + 1)) = {}
    BY <2>2, ListSplit
  <2> QED BY <1>2, <2>2, <2>3
<1>3. CASE \E i \in DOMAIN q : halves = <<SubSeq(q, 1, i - 1) \o From(q, i + 1), <<q[i]>> >>
  <2>1. PICK i \in DOMAIN q : halves = <<SubSeq(q, 1, i - 1) \o From(q, i + 1), <<q[i]>> >>
    BY <1>3
  <2>2. PICK h \in Nat : h + 1 = i /\ i - 1 = h /\ h <= Len(q)
    <3>1. i - 1 \in Nat /\ (i - 1) + 1 = i /\ i - 1 <= Len(q)
      BY <1>1
    <3> QED BY <3>1
  <2> DEFINE u == SubSeq(q, 1, h)
             v == From(q, i + 1)
  <2>3. /\ u \in Seq(PR) /\ ToSet(q) = ToSet(u) \union ToSet(From(q, i))
        /\ IsInjective(u) /\ IsInjective(From(q, i)) /\ ToSet(u) \cap ToSet(From(q, i)) = {}
    BY <2>2, ListSplit
  <2>4. /\ v \in Seq(PR) /\ q[i] \in PR /\ ToSet(From(q, i)) = {q[i]} \union ToSet(v)
        /\ IsInjective(v) /\ q[i] \notin ToSet(v)
    BY <2>3, ListFrom
  <2>5. <<q[i]>> \in Seq(PR) /\ ToSet(<<q[i]>>) = {q[i]} /\ IsInjective(<<q[i]>>)
    <3>1. <<q[i]>> \in Seq(PR) /\ Len(<<q[i]>>) = 1 /\ <<q[i]>>[1] = q[i]
      BY <2>4, SingletonTyped
    <3>2. DOMAIN <<q[i]>> = 1..1
      BY <3>1, ListedAt
    <3> QED BY <3>1, <3>2 DEF ToSet, IsInjective
  <2> HIDE DEF u, v
  <2>6. u \o v \in Seq(PR) /\ ToSet(u \o v) = ToSet(u) \union ToSet(v) /\ IsInjective(u \o v)
    <3>1. ToSet(u) \cap ToSet(v) = {}
      BY <2>3, <2>4
    <3> QED BY <2>3, <2>4, <3>1, ListsJoined, ConcatProperties
  <2>7. halves = <<u \o v, <<q[i]>> >>
    BY <2>1, <2>2 DEF u, v
  <2>8. /\ ToSet(u \o v) \cap ToSet(<<q[i]>>) = {}
        /\ ToSet(u \o v) \union ToSet(<<q[i]>>) = ToSet(q)
    BY <2>3, <2>4, <2>5, <2>6
  <2> QED BY <2>5, <2>6, <2>7, <2>8
<1> QED BY <1>2, <1>3 DEF Splits

\* The halves of a family join the parts.
LEMMA PartsSplit ==
  ASSUME NEW st \in Seq(Seq(PR)), Parted(st), NEW q \in Seq(PR), IsInjective(q),
         ToSet(q) \cap Parts(st) = {}, NEW halves \in Splits(q)
  PROVE  Parted(halves \o st) /\ Parts(halves \o st) = ToSet(q) \union Parts(st)
<1>1. PICK a \in Seq(PR), b \in Seq(PR) :
           /\ halves = <<a, b>> /\ IsInjective(a) /\ IsInjective(b)
           /\ ToSet(a) \cap ToSet(b) = {} /\ ToSet(a) \union ToSet(b) = ToSet(q)
  BY SplitsApart
<1> DEFINE u == halves \o st
<1>2. halves \in Seq(Seq(PR)) /\ Len(halves) = 2 /\ halves[1] = a /\ halves[2] = b
  BY <1>1
<1>3. Len(st) \in Nat /\ DOMAIN st = 1..Len(st)
  BY LenProperties
<1>4. /\ u \in Seq(Seq(PR)) /\ Len(u) = 2 + Len(st)
      /\ \A i \in 1..(2 + Len(st)) : u[i] = IF i <= 2 THEN halves[i] ELSE st[i - 2]
  <2>1. /\ halves \o st \in Seq(Seq(PR)) /\ Len(halves \o st) = Len(halves) + Len(st)
        /\ \A i \in 1..(Len(halves) + Len(st)) :
             (halves \o st)[i] = IF i <= Len(halves) THEN halves[i] ELSE st[i - Len(halves)]
    BY <1>2, ConcatProperties
  <2> QED BY <1>2, <2>1
<1>5. DOMAIN u = 1..(2 + Len(st))
  BY <1>4, LenProperties
<1>6. /\ 1 \in DOMAIN u /\ 2 \in DOMAIN u /\ u[1] = a /\ u[2] = b
      /\ \A i \in DOMAIN u : i = 1 \/ i = 2 \/ (i - 2 \in DOMAIN st /\ u[i] = st[i - 2])
  <2>1. 1 \in 1..(2 + Len(st)) /\ 2 \in 1..(2 + Len(st)) /\ 1 <= 2
    BY <1>3
  <2>2. u[1] = a /\ u[2] = b
    BY <1>2, <1>4, <2>1
  <2>3. \A i \in DOMAIN u : i = 1 \/ i = 2 \/ (i - 2 \in 1..Len(st) /\ ~(i <= 2))
    BY <1>3, <1>5
  <2> QED BY <1>3, <1>4, <1>5, <2>1, <2>2, <2>3
<1>7. \A i \in DOMAIN st : i + 2 \in DOMAIN u /\ u[i + 2] = st[i]
  <2> SUFFICES ASSUME NEW i \in DOMAIN st PROVE i + 2 \in DOMAIN u /\ u[i + 2] = st[i]
    OBVIOUS
  <2>1. i + 2 \in 1..(2 + Len(st)) /\ ~(i + 2 <= 2) /\ (i + 2) - 2 = i
    BY <1>3
  <2> QED BY <1>4, <1>5, <2>1
<1>8. \A i, j \in DOMAIN u : i # j => i - 2 # j - 2
  BY <1>3, <1>5
<1> HIDE DEF u
<1>9. Parts(u) \subseteq ToSet(q) \union Parts(st)
  BY <1>1, <1>6, PartsAt
<1>10. ToSet(q) \union Parts(st) \subseteq Parts(u)
  <2>1. ToSet(a) \subseteq Parts(u) /\ ToSet(b) \subseteq Parts(u)
    BY <1>6, PartsAt
  <2>2. Parts(st) \subseteq Parts(u)
    BY <1>7, PartsAt
  <2> QED BY <1>1, <2>1, <2>2
<1>11. \A i \in DOMAIN u : IsInjective(u[i])
  BY <1>1, <1>6 DEF Parted
<1>12. \A i \in DOMAIN st : ToSet(st[i]) \cap ToSet(a) = {} /\ ToSet(st[i]) \cap ToSet(b) = {}
  BY <1>1, PartsAt
<1>13. ASSUME NEW i \in DOMAIN u, NEW j \in DOMAIN u, i # j PROVE ToSet(u[i]) \cap ToSet(u[j]) = {}
  <2>1. CASE i \in {1, 2} /\ j \in {1, 2}
    BY <1>1, <1>6, <1>13, <2>1
  <2>2. CASE i \in {1, 2} /\ j \notin {1, 2}
    BY <1>6, <1>12, <2>2
  <2>3. CASE i \notin {1, 2} /\ j \in {1, 2}
    BY <1>6, <1>12, <2>3
  <2>4. CASE i \notin {1, 2} /\ j \notin {1, 2}
    BY <1>6, <1>8, <1>13, <2>4 DEF Parted
  <2> QED BY <2>1, <2>2, <2>3, <2>4
<1> QED BY <1>9, <1>10, <1>11, <1>13 DEF Parted, u

---------------------------------------------------------------------------
(* The families of a round and the list of what they hold.                 *)

\* The members of the i-th family of the round stand on the list behind those of the
\* families before it, from its place off[i] on, and nobody else is on the list.
Starts(off) ==
  /\ IF batch = <<>> THEN later = <<>>
     ELSE off[1] = 0 /\ Len(later) = off[Len(batch)] + Len(families[batch[Len(batch)]].steps)
  /\ \A i \in DOMAIN batch : i + 1 \in DOMAIN batch => off[i + 1] = off[i] + Len(families[batch[i]].steps)
  /\ \A i, j \in DOMAIN batch : i < j => off[i] + Len(families[batch[i]].steps) <= off[j]
  /\ \A i \in DOMAIN batch : \A k \in DOMAIN families[batch[i]].steps :
       off[i] + k \in DOMAIN later /\ later[off[i] + k] = families[batch[i]].steps[k].pr

LinedUp == \E off \in [DOMAIN batch -> Nat] : Starts(off)

\* So the list is what the first family holds, and then what is behind it.
LEMMA FirstLined ==
  ASSUME TypeOK, LinedUp, batch # <<>>
  PROVE  /\ Members(batch[1]) \in Seq(PR) /\ Behind \in Seq(PR)
         /\ ToSet(later) = ToSet(Members(batch[1])) \union ToSet(Behind)
         /\ IsInjective(later) => /\ IsInjective(Members(batch[1])) /\ IsInjective(Behind)
                                  /\ ToSet(Members(batch[1])) \cap ToSet(Behind) = {}
<1> DEFINE q == Members(batch[1])
           n == Len(families[batch[1]].steps)
<1>1. 1 \in DOMAIN batch /\ batch[1] \in DOMAIN families
  BY BatchTyped, BatchTail
<1>2. families[batch[1]].steps \in Seq(Step) /\ q \in Seq(PR) /\ later \in Seq(PR)
  BY <1>1, MembersTyped DEF TypeOK, ThreadTyped
<1>3. n \in Nat /\ DOMAIN families[batch[1]].steps = 1..n /\ DOMAIN later = 1..Len(later) /\ Len(later) \in Nat
  BY <1>2, LenProperties
<1>4. Len(q) = n /\ \A k \in 1..n : q[k] = families[batch[1]].steps[k].pr
  <2>1. DOMAIN q = 1..n /\ \A k \in 1..n : q[k] = families[batch[1]].steps[k].pr
    BY <1>3 DEF Members, Numbers
  <2> QED BY <1>2, <1>3, <2>1, LenProperties
<1>5. PICK off \in [DOMAIN batch -> Nat] : Starts(off)
  BY DEF LinedUp
<1>6. \A k \in 1..n : k \in DOMAIN later /\ later[k] = q[k]
  <2>1. off[1] = 0 /\ \A k \in 1..n : off[1] + k \in DOMAIN later /\ later[off[1] + k] = q[k]
    BY <1>1, <1>3, <1>4, <1>5 DEF Starts
  <2> QED BY <1>3, <2>1
<1>7. n <= Len(later)
  BY <1>3, <1>6
<1> HIDE DEF q, n
<1>8. SubSeq(later, 1, n) = q
  <2>1. /\ SubSeq(later, 1, n) \in Seq(PR) /\ Len(SubSeq(later, 1, n)) = n
        /\ \A k \in 1..n : SubSeq(later, 1, n)[k] = later[k]
    BY <1>2, <1>3, <1>7, ListSplit
  <2> QED BY <1>2, <1>4, <1>6, <2>1, SeqEqual
<1>9. /\ From(later, n + 1) \in Seq(PR)
      /\ ToSet(later) = ToSet(SubSeq(later, 1, n)) \union ToSet(From(later, n + 1))
      /\ IsInjective(later) => /\ IsInjective(SubSeq(later, 1, n)) /\ IsInjective(From(later, n + 1))
                               /\ ToSet(SubSeq(later, 1, n)) \cap ToSet(From(later, n + 1)) = {}
  BY <1>2, <1>3, <1>7, ListSplit
<1>10. Behind = From(later, n + 1)
  BY DEF Behind, n
<1> QED BY <1>2, <1>8, <1>9, <1>10 DEF q

\* Serving the first family takes its members off the list.
LEMMA NextLined ==
  ASSUME TypeOK, LinedUp, batch # <<>>, batch' = Tail(batch), later' = Behind,
         \A f \in DOMAIN families : f \in DOMAIN families' /\ families'[f].steps = families[f].steps
  PROVE  LinedUp'
<1> DEFINE n == Len(families[batch[1]].steps)
           m == Len(batch)
           len(i) == Len(families[batch[i]].steps)
<1>1. /\ m \in Nat \ {0} /\ DOMAIN batch = 1..m /\ \A i \in DOMAIN batch : batch[i] \in DOMAIN families
      /\ DOMAIN batch' = 1..(m - 1) /\ \A i \in DOMAIN batch' : batch'[i] = batch[i + 1] /\ i + 1 \in DOMAIN batch
  BY BatchTyped, BatchTail, EmptySeq
<1>2. \A i \in DOMAIN batch : families[batch[i]].steps \in Seq(Step) /\ len(i) \in Nat
                              /\ DOMAIN families[batch[i]].steps = 1..len(i)
  BY <1>1, MembersTyped, LenProperties DEF TypeOK
<1>3. later \in Seq(PR) /\ Len(later) \in Nat /\ DOMAIN later = 1..Len(later)
  BY LenProperties DEF TypeOK, ThreadTyped
<1>4. PICK off \in [DOMAIN batch -> Nat] : Starts(off)
  BY DEF LinedUp
<1>5. /\ off[1] = 0 /\ Len(later) = off[m] + len(m)
      /\ \A i \in DOMAIN batch : i + 1 \in DOMAIN batch => off[i + 1] = off[i] + len(i)
      /\ \A i, j \in DOMAIN batch : i < j => off[i] + len(i) <= off[j]
      /\ \A i \in DOMAIN batch : \A k \in DOMAIN families[batch[i]].steps :
           off[i] + k \in DOMAIN later /\ later[off[i] + k] = families[batch[i]].steps[k].pr
  BY <1>4 DEF Starts
<1>6. 1 \in DOMAIN batch /\ len(1) = n /\ n \in Nat
  BY <1>1, <1>2
<1>7. \A i \in DOMAIN batch' : off[i + 1] \in Nat /\ off[i + 1] - n \in Nat
  <2> SUFFICES ASSUME NEW i \in DOMAIN batch' PROVE off[i + 1] \in Nat /\ off[i + 1] - n \in Nat
    OBVIOUS
  <2>1. i + 1 \in DOMAIN batch /\ 1 < i + 1
    BY <1>1
  <2>2. off[1] + len(1) <= off[i + 1] /\ off[i + 1] \in Nat
    BY <1>5, <1>6, <2>1
  <2> QED BY <1>5, <1>6, <2>2
<1>8. n <= Len(later)
  <2>1. CASE m = 1
    BY <1>3, <1>5, <1>6, <2>1
  <2>2. CASE m # 1
    <3>1. 1 < m /\ m \in DOMAIN batch
      BY <1>1, <2>2
    <3>2. off[1] + len(1) <= off[m] /\ off[m] \in Nat /\ len(m) \in Nat
      BY <1>2, <1>5, <1>6, <3>1
    <3> QED BY <1>3, <1>5, <1>6, <3>2
  <2> QED BY <2>1, <2>2
<1>9. /\ later' \in Seq(PR) /\ Len(later') = Len(later) - n
      /\ \A j \in 1..(Len(later) - n) : later'[j] = later[n + j]
  <2>1. later' = From(later, n + 1)
    BY DEF Behind
  <2> HIDE DEF n
  <2>2. n \in Nat
    BY <1>6
  <2>3. later \in Seq(PR)
    BY <1>3
  <2>4. /\ From(later, n + 1) \in Seq(PR) /\ Len(From(later, n + 1)) = Len(later) - n
        /\ \A j \in 1..(Len(later) - n) : From(later, n + 1)[j] = later[n + j]
    BY <1>8, <2>2, <2>3, ListBehind
  <2> QED BY <2>1, <2>4
<1>10. DOMAIN later' = 1..(Len(later) - n)
  BY <1>9, LenProperties
<1> DEFINE new == [i \in DOMAIN batch' |-> off[i + 1] - n]
<1>11. new \in [DOMAIN batch' -> Nat]
  BY <1>7
<1>12. \A i \in DOMAIN batch' : /\ families'[batch'[i]].steps = families[batch[i + 1]].steps
                                /\ Len(families'[batch'[i]].steps) = len(i + 1)
  BY <1>1
<1>13. ASSUME batch' # <<>>
       PROVE  new[1] = 0 /\ Len(later') = new[Len(batch')] + Len(families'[batch'[Len(batch')]].steps)
  <2>1. Len(batch') = m - 1 /\ m - 1 \in DOMAIN batch' /\ 1 \in DOMAIN batch'
    <3>1. batch' \in Seq(Nat) /\ DOMAIN batch' = 1..Len(batch')
      BY BatchTail, LenProperties
    <3>2. Len(batch') \in Nat \ {0}
      BY <1>13, <3>1, EmptySeq, LenProperties
    <3> QED BY <1>1, <3>1, <3>2
  <2>2. new[1] = off[2] - n /\ off[2] = n
    <3>1. 1 + 1 \in DOMAIN batch
      BY <1>1, <2>1
    <3>2. off[1 + 1] = off[1] + len(1)
      BY <1>5, <1>6, <3>1
    <3> QED BY <1>5, <1>6, <2>1, <3>2
  <2>3. new[m - 1] = off[m] - n /\ Len(families'[batch'[m - 1]].steps) = len(m)
    <3>1. (m - 1) + 1 = m
      BY <1>1
    <3>2. new[m - 1] = off[(m - 1) + 1] - n /\ Len(families'[batch'[m - 1]].steps) = len((m - 1) + 1)
      BY <1>12, <2>1
    <3> QED BY <3>1, <3>2
  <2>4. off[m] \in Nat /\ len(m) \in Nat
    BY <1>1, <1>2
  <2>5. Len(later') = (off[m] - n) + len(m)
    <3> HIDE DEF n, len, m
    <3> QED BY <1>5, <1>6, <1>9, <2>4
  <2>6. new[1] = 0
    <3> HIDE DEF n, new
    <3> QED BY <1>6, <2>2
  <2>7. new[Len(batch')] = off[m] - n /\ Len(families'[batch'[Len(batch')]].steps) = len(m)
    BY <2>1, <2>3
  <2> QED BY <2>5, <2>6, <2>7
<1>14. batch' = <<>> => later' = <<>>
  <2> SUFFICES ASSUME batch' = <<>> PROVE later' = <<>>
    OBVIOUS
  <2>1. m = 1
    <3>1. Len(batch') = 0 /\ Len(batch') = m - 1
      BY HeadTailProperties, EmptySeq, BatchTyped
    <3> QED BY <1>1, <3>1
  <2>2. Len(later') = 0
    BY <1>3, <1>5, <1>6, <1>9, <2>1
  <2> QED BY <1>9, <2>2, EmptySeq
<1>15. ASSUME NEW i \in DOMAIN batch', i + 1 \in DOMAIN batch'
       PROVE  new[i + 1] = new[i] + Len(families'[batch'[i]].steps)
  <2>1. off[(i + 1) + 1] = off[i + 1] + len(i + 1)
    BY <1>1, <1>5, <1>15
  <2>2. off[(i + 1) + 1] \in Nat /\ off[i + 1] \in Nat /\ len(i + 1) \in Nat
    BY <1>1, <1>2, <1>15
  <2>3. off[(i + 1) + 1] - n = (off[i + 1] - n) + len(i + 1)
    <3> HIDE DEF n, len
    <3> QED BY <1>6, <2>1, <2>2
  <2>4. new[i + 1] = off[(i + 1) + 1] - n /\ new[i] = off[i + 1] - n
    BY <1>15
  <2>5. Len(families'[batch'[i]].steps) = len(i + 1)
    BY <1>12
  <2> QED BY <2>3, <2>4, <2>5
<1>16. ASSUME NEW i \in DOMAIN batch', NEW j \in DOMAIN batch', i < j
       PROVE  new[i] + Len(families'[batch'[i]].steps) <= new[j]
  <2>1. i + 1 \in DOMAIN batch /\ j + 1 \in DOMAIN batch /\ i + 1 < j + 1
    BY <1>1, <1>16
  <2>2. off[i + 1] + len(i + 1) <= off[j + 1] /\ off[j + 1] \in Nat /\ off[i + 1] \in Nat /\ len(i + 1) \in Nat
    BY <1>2, <1>5, <2>1
  <2>3. (off[i + 1] - n) + len(i + 1) <= off[j + 1] - n
    <3> HIDE DEF n, len
    <3> QED BY <1>6, <2>2
  <2>4. new[i] = off[i + 1] - n /\ new[j] = off[j + 1] - n
    OBVIOUS
  <2>5. Len(families'[batch'[i]].steps) = len(i + 1)
    BY <1>12
  <2> QED BY <2>3, <2>4, <2>5
<1>17. ASSUME NEW i \in DOMAIN batch', NEW k \in DOMAIN families'[batch'[i]].steps
       PROVE  /\ new[i] + k \in DOMAIN later'
              /\ later'[new[i] + k] = families'[batch'[i]].steps[k].pr
  <2>1. i + 1 \in DOMAIN batch /\ k \in DOMAIN families[batch[i + 1]].steps /\ k \in Nat \ {0}
    BY <1>1, <1>2, <1>12, <1>17
  <2>2. /\ off[i + 1] + k \in DOMAIN later
        /\ later[off[i + 1] + k] = families[batch[i + 1]].steps[k].pr
    BY <1>5, <2>1
  <2>3. new[i] = off[i + 1] - n /\ off[i + 1] - n \in Nat /\ off[i + 1] \in Nat
    BY <1>7
  <2>4. new[i] + k \in 1..(Len(later) - n) /\ n + (new[i] + k) = off[i + 1] + k
    <3>1. off[i + 1] + k \in 1..Len(later)
      BY <1>3, <2>2
    <3> HIDE DEF n, new
    <3> QED BY <1>3, <1>6, <2>1, <2>3, <3>1
  <2> QED BY <1>9, <1>10, <1>12, <2>2, <2>4
<1> HIDE DEF new
<1> QED BY <1>11, <1>13, <1>14, <1>15, <1>16, <1>17 DEF LinedUp, Starts

\* A round that has served all of its families has nobody left on the list.
LEMMA NoneLined == ASSUME batch' = <<>>, later' = <<>> PROVE LinedUp'
<1>1. DOMAIN batch' = {}
  BY EmptySeq, LenProperties
<1> DEFINE off == [i \in DOMAIN batch' |-> 0]
<1>2. off \in [DOMAIN batch' -> Nat]
  OBVIOUS
<1> HIDE DEF off
<1> QED BY <1>1, <1>2 DEF LinedUp, Starts

\* Whatever keeps the steps of the families keeps the list in line with them.
LEMMA StillLined ==
  ASSUME TypeOK, LinedUp, UNCHANGED <<batch, later>>,
         \A f \in DOMAIN families : f \in DOMAIN families' /\ families'[f].steps = families[f].steps
  PROVE  LinedUp'
<1>1. PICK off \in [DOMAIN batch -> Nat] : Starts(off)
  BY DEF LinedUp
<1>2. \A i \in DOMAIN batch : families'[batch[i]].steps = families[batch[i]].steps
  BY BatchTyped
<1>3. batch # <<>> => Len(batch) \in DOMAIN batch
  BY BatchTyped, EmptySeq
<1>4. batch # <<>> => Len(later) = off[Len(batch)] + Len(families'[batch[Len(batch)]].steps)
  BY <1>1, <1>2, <1>3 DEF Starts
<1>5. /\ \A i \in DOMAIN batch : i + 1 \in DOMAIN batch => off[i + 1] = off[i] + Len(families'[batch[i]].steps)
      /\ \A i, j \in DOMAIN batch : i < j => off[i] + Len(families'[batch[i]].steps) <= off[j]
      /\ \A i \in DOMAIN batch : \A k \in DOMAIN families'[batch[i]].steps :
           off[i] + k \in DOMAIN later /\ later[off[i] + k] = families'[batch[i]].steps[k].pr
  BY <1>1, <1>2 DEF Starts
<1> QED BY <1>1, <1>4, <1>5 DEF LinedUp, Starts

\* A family planned behind the others brings its members along.
LEMMA MoreLined ==
  ASSUME TypeOK, LinedUp, NEW new \in Family, families' = Append(families, new),
         batch' = Append(batch, Len(families) + 1), later' = later \o Numbers(new.steps)
  PROVE  LinedUp'
<1> DEFINE m == Len(batch)
           n == Len(new.steps)
           all == Len(later)
<1>1. /\ batch \in Seq(Nat) /\ m \in Nat /\ DOMAIN batch = 1..m
      /\ \A i \in DOMAIN batch : batch[i] \in DOMAIN families
      /\ families \in Seq(Family) /\ Len(families) \in Nat /\ DOMAIN families = 1..Len(families)
  BY BatchTyped DEF TypeOK, GatesTyped
<1>2. /\ batch' \in Seq(Nat) /\ Len(batch') = m + 1 /\ \A i \in 1..m : batch'[i] = batch[i]
      /\ batch'[m + 1] = Len(families) + 1
  <2>1. Len(families) + 1 \in Nat
    BY <1>1
  <2> QED BY <1>1, <2>1, AppendProperties
<1>3. DOMAIN batch' = 1..(m + 1)
  BY <1>2, LenProperties
<1>4. \A f \in DOMAIN families : families'[f] = families[f]
  BY <1>1, AppendProperties
<1>5. families'[Len(families) + 1] = new
  BY <1>1, AppendProperties
<1>6. later \in Seq(PR) /\ all \in Nat /\ DOMAIN later = 1..all
  BY LenProperties DEF TypeOK, ThreadTyped
<1>7. new.steps \in Seq(Step) /\ n \in Nat /\ DOMAIN new.steps = 1..n /\ Numbers(new.steps) \in Seq(PR)
  BY NumbersTyped, LenProperties DEF Family
<1>8. Len(Numbers(new.steps)) = n /\ \A k \in 1..n : Numbers(new.steps)[k] = new.steps[k].pr
  <2>1. DOMAIN Numbers(new.steps) = 1..n /\ \A k \in 1..n : Numbers(new.steps)[k] = new.steps[k].pr
    BY <1>7 DEF Numbers
  <2> QED BY <1>7, <2>1, LenProperties
<1>9. /\ later' \in Seq(PR) /\ Len(later') = all + n
      /\ \A j \in 1..(all + n) : later'[j] = IF j <= all THEN later[j] ELSE Numbers(new.steps)[j - all]
  <2> DEFINE q == Numbers(new.steps)
  <2>1. q \in Seq(PR) /\ Len(q) = n
    BY <1>7, <1>8
  <2>2. later' = later \o q
    OBVIOUS
  <2> HIDE DEF q
  <2>3. /\ later \o q \in Seq(PR) /\ Len(later \o q) = Len(later) + Len(q)
        /\ \A j \in 1..(Len(later) + Len(q)) :
             (later \o q)[j] = IF j <= Len(later) THEN later[j] ELSE q[j - Len(later)]
    BY <1>6, <2>1, ConcatProperties
  <2> QED BY <2>1, <2>2, <2>3 DEF q
<1>10. DOMAIN later' = 1..(all + n)
  BY <1>9, LenProperties
<1>11. PICK off \in [DOMAIN batch -> Nat] : Starts(off)
  BY DEF LinedUp
<1> DEFINE next == [i \in DOMAIN batch' |-> IF i \in DOMAIN batch THEN off[i] ELSE all]
<1>12. /\ next \in [DOMAIN batch' -> Nat]
       /\ \A i \in DOMAIN batch : i \in DOMAIN batch' /\ next[i] = off[i]
       /\ m + 1 \in DOMAIN batch' /\ next[m + 1] = all
  BY <1>1, <1>3, <1>6
<1> HIDE DEF next
<1>13. \A i \in DOMAIN batch : families'[batch'[i]].steps = families[batch[i]].steps
  BY <1>1, <1>2, <1>4
<1>14. families'[batch'[m + 1]].steps = new.steps
  BY <1>2, <1>5
<1>15. \A i \in DOMAIN batch' : i \in DOMAIN batch \/ i = m + 1
  BY <1>1, <1>3
<1>16. \A i \in DOMAIN batch : off[i] \in Nat /\ Len(families[batch[i]].steps) \in Nat
  BY <1>1, <1>11, MembersTyped, LenProperties DEF TypeOK
<1>17. batch' # <<>> /\ next[1] = 0 /\ Len(later') = next[Len(batch')] + Len(families'[batch'[Len(batch')]].steps)
  <2>1. next[1] = 0
    <3>1. CASE batch = <<>>
      <4>1. m = 0 /\ all = 0
        BY <1>11, <3>1, EmptySeq DEF Starts
      <4> QED BY <1>12, <4>1
    <3>2. CASE batch # <<>>
      <4>1. 1 \in DOMAIN batch
        BY <1>1, <3>2, EmptySeq
      <4> QED BY <1>11, <1>12, <3>2, <4>1 DEF Starts
    <3> QED BY <3>1, <3>2
  <2>2. batch' # <<>>
    BY <1>1, <1>2, EmptySeq
  <2> QED BY <1>2, <1>9, <1>12, <1>14, <2>1, <2>2
<1>18. ASSUME NEW i \in DOMAIN batch', i + 1 \in DOMAIN batch'
       PROVE  next[i + 1] = next[i] + Len(families'[batch'[i]].steps)
  <2>1. i \in DOMAIN batch
    BY <1>1, <1>3, <1>18
  <2>2. CASE i + 1 \in DOMAIN batch
    BY <1>11, <1>12, <1>13, <2>1, <2>2 DEF Starts
  <2>3. CASE i + 1 = m + 1
    <3>1. i = m /\ batch # <<>>
      BY <1>1, <2>1, <2>3, EmptySeq, LenProperties
    <3>2. all = off[m] + Len(families[batch[m]].steps)
      BY <1>11, <3>1 DEF Starts
    <3> QED BY <1>12, <1>13, <2>1, <2>3, <3>1, <3>2
  <2> QED BY <1>15, <1>18, <2>2, <2>3
<1>19. \A i \in DOMAIN batch : off[i] + Len(families[batch[i]].steps) <= all
  <2> SUFFICES ASSUME NEW i \in DOMAIN batch PROVE off[i] + Len(families[batch[i]].steps) <= all
    OBVIOUS
  <2>1. m \in DOMAIN batch /\ batch # <<>>
    BY <1>1, EmptySeq, LenProperties
  <2>2. all = off[m] + Len(families[batch[m]].steps)
    BY <1>11, <2>1 DEF Starts
  <2>3. CASE i = m
    BY <1>16, <2>2, <2>3
  <2>4. CASE i # m
    <3>1. i < m
      BY <1>1, <2>4
    <3>2. off[i] + Len(families[batch[i]].steps) <= off[m]
      BY <1>11, <2>1, <3>1 DEF Starts
    <3> HIDE DEF m, all
    <3> QED BY <1>16, <2>1, <2>2, <3>2
  <2> QED BY <2>3, <2>4
<1>20. ASSUME NEW i \in DOMAIN batch', NEW j \in DOMAIN batch', i < j
       PROVE  next[i] + Len(families'[batch'[i]].steps) <= next[j]
  <2>1. i \in DOMAIN batch
    BY <1>1, <1>3, <1>20
  <2>2. CASE j \in DOMAIN batch
    BY <1>11, <1>12, <1>13, <1>20, <2>1, <2>2 DEF Starts
  <2>3. CASE j = m + 1
    BY <1>12, <1>13, <1>19, <2>1, <2>3
  <2> QED BY <1>15, <2>2, <2>3
<1>21. ASSUME NEW i \in DOMAIN batch', NEW k \in DOMAIN families'[batch'[i]].steps
       PROVE  /\ next[i] + k \in DOMAIN later'
              /\ later'[next[i] + k] = families'[batch'[i]].steps[k].pr
  <2>1. CASE i \in DOMAIN batch
    <3>1. /\ off[i] + k \in DOMAIN later /\ later[off[i] + k] = families[batch[i]].steps[k].pr
      BY <1>11, <1>13, <1>21, <2>1 DEF Starts
    <3>2. off[i] + k \in 1..(all + n) /\ off[i] + k <= all
      BY <1>6, <1>7, <3>1
    <3>3. later'[off[i] + k] = later[off[i] + k]
      BY <1>9, <3>2
    <3> QED BY <1>10, <1>12, <1>13, <2>1, <3>1, <3>2, <3>3
  <2>2. CASE i = m + 1
    <3>1. k \in 1..n
      BY <1>7, <1>14, <1>21, <2>2
    <3>2. all + k \in 1..(all + n) /\ ~(all + k <= all) /\ (all + k) - all = k
      BY <1>6, <1>7, <3>1
    <3>3. later'[all + k] = Numbers(new.steps)[k]
      BY <1>9, <3>2
    <3> QED BY <1>8, <1>10, <1>12, <1>14, <2>2, <3>1, <3>2, <3>3
  <2> QED BY <1>15, <2>1, <2>2
<1> QED BY <1>12, <1>17, <1>18, <1>20, <1>21 DEF LinedUp, Starts

---------------------------------------------------------------------------
(* Where a pull request is while a round goes on.                          *)

Queued  == pc \in {"snapshot", "pairs", "round"}
InRound == ~Queued /\ pc # "done"

\* Who is left of the family at hand: from the member that is landed on, or all.
Ahead == IF pc = "confirm" THEN at + 1 ELSE IF pc \in Landing THEN at ELSE 1
Unserved == From(Members(cur), Ahead)
InHand == IF AtHand THEN Unserved ELSE <<>>
\* The list without the family that is landing.
Line == IF pc \in Landing /\ ~settling THEN Behind ELSE later

\* Who is being folded or served, and all who will be before the round ends.
Folded == Numbers(fold.steps)
Mine == ToSet(Folded) \union ToSet(fold.todo) \union ToSet(fold.rest) \union ToSet(InHand)
Served == Mine \union ToSet(Line) \union Parts(stack)
Around == Served \union ToSet(requeue)

\* Nobody is folded twice, and folding is a thing of its own.
FoldOnce ==
  /\ IsInjective(Folded) /\ IsInjective(fold.todo) /\ IsInjective(fold.rest)
  /\ ToSet(Folded) \cap ToSet(fold.todo) = {} /\ ToSet(Folded) \cap ToSet(fold.rest) = {}
  /\ ToSet(fold.todo) \cap ToSet(fold.rest) = {}
  /\ pc # "plan" => fold.steps = <<>> /\ fold.todo = <<>> /\ fold.rest = <<>>
  /\ settling => fold.rest = <<>>

\* During a round nobody is in two places.
OnePlace ==
  /\ IsInjective(InHand) /\ IsInjective(Line) /\ Parted(stack) /\ IsInjective(requeue)
  /\ Mine \cap ToSet(Line) = {} /\ Mine \cap Parts(stack) = {} /\ Mine \cap ToSet(requeue) = {}
  /\ ToSet(Line) \cap Parts(stack) = {} /\ ToSet(Line) \cap ToSet(requeue) = {}
  /\ Parts(stack) \cap ToSet(requeue) = {}

\* Between rounds a queue that was read before names nobody twice.
QueueOnce == pc = "round" \/ (pc = "snapshot" /\ rounds > 0) => IsInjective(queue)

Active == IF Queued THEN ToSet(queue) ELSE IF pc = "done" THEN {} ELSE Around
Serves == IF pc \in {"pairs", "round"} THEN ToSet(queue) ELSE IF InRound THEN Served ELSE {}
HeldPRs == {h.pr : h \in held}

\* Who is held is nowhere else; who was merged is closed, and not served in this round.
HeldAside == HeldPRs \cap Active = {} /\ HeldPRs \cap Merged = {}
MergedGone == Serves \cap Merged = {} /\ \A n \in Merged : n \in PR => ~pulls[n].open

PlacesInv ==
  /\ FoldOnce /\ (InRound => OnePlace) /\ QueueOnce
  /\ (pc \notin {"snapshot", "pairs", "done"} => rounds > 0)
  /\ (~settling /\ pc # "part" => LinedUp)
  /\ HeldAside /\ MergedGone

\* The lists of a round are lists of pull requests.
LEMMA PlacesTyped ==
  ASSUME TypeOK
  PROVE  /\ Folded \in Seq(PR) /\ fold.todo \in Seq(PR) /\ fold.rest \in Seq(PR)
         /\ fold.steps \in Seq(Step) /\ fold.size \in Nat
         /\ later \in Seq(PR) /\ requeue \in Seq(PR) /\ stack \in Seq(Seq(PR)) /\ queue \in Seq(PR)
         /\ AtHand => cur \in DOMAIN families /\ Members(cur) \in Seq(PR)
         /\ pc \in Landing /\ ~settling => batch # <<>> /\ batch[1] = cur
<1>1. fold \in Folding
  BY DEF TypeOK, ThreadTyped
<1>2. /\ fold.steps \in Seq(Step) /\ fold.todo \in Seq(PR) /\ fold.rest \in Seq(PR) /\ fold.size \in Nat
  BY <1>1 DEF Folding
<1>3. AtHand => cur \in DOMAIN families
  BY LandingPointers DEF AtHand, TypeOK, Pointers
<1> QED BY <1>2, <1>3, NumbersTyped, MembersTyped, LandingPointers DEF Folded, TypeOK, ThreadTyped

\* While nothing is folded, what the run's thread has of its own is the family at hand.
LEMMA MineInHand ==
  ASSUME FoldOnce, pc # "plan"
  PROVE  Mine = ToSet(InHand)
<1>1. fold.steps = <<>> /\ fold.todo = <<>> /\ fold.rest = <<>>
  BY DEF FoldOnce
<1>2. ToSet(Folded) = {}
  <2>1. DOMAIN <<>> = {}
    BY EmptySeq, LenProperties
  <2> QED BY <1>1, <2>1 DEF Folded, Numbers, ToSet
<1> QED BY <1>1, <1>2, NobodyListed DEF Mine

\* The same behind a step that folds nothing.
LEMMA StillNotFolding ==
  ASSUME FoldOnce, pc # "plan", pc' # "plan", UNCHANGED fold
  PROVE  FoldOnce' /\ Mine' = ToSet(InHand')
<1>1. fold.steps = <<>> /\ fold.todo = <<>> /\ fold.rest = <<>>
  BY DEF FoldOnce
<1>2. Folded' = Folded
  BY DEF Folded
<1>3. ToSet(Folded) = {}
  <2>1. DOMAIN <<>> = {}
    BY EmptySeq, LenProperties
  <2> QED BY <1>1, <2>1 DEF Folded, Numbers, ToSet
<1> QED BY <1>1, <1>2, <1>3, NobodyListed DEF FoldOnce, Mine

---------------------------------------------------------------------------
(* Steps within a round.                                                   *)

StepsKept == \A f \in DOMAIN families : f \in DOMAIN families' /\ families'[f].steps = families[f].steps

\* Who needs no further place: they were merged, or the receipt names them.
Ended == MembersWith({"GATED_DRY", "RED_DRY", "TREE_MISMATCH"})
Noted == Merged \union HeldPRs \union retry \union pending \union Ended

\* The receipt only grows.
Grows ==
  /\ HeldPRs \subseteq HeldPRs' /\ retry \subseteq retry' /\ pending \subseteq pending'
  /\ UNCHANGED <<out, rounds>> /\ alerts \subseteq alerts'

\* A step of a round takes nobody in, holds only whom it served and lets go, and lets
\* nobody go whom the receipt does not name.
Moves ==
  /\ InRound /\ InRound' /\ Grows
  /\ FoldOnce' /\ OnePlace'
  /\ ~settling' /\ pc' # "part" => LinedUp'
  /\ Served' \subseteq Served /\ Around' \subseteq Around
  /\ HeldPRs' \subseteq HeldPRs \union (Served \ Around')
  /\ Around \subseteq Around' \union Noted'

\* Only a merge of the run adds to who was merged.
LEMMA NoneMerged == ASSUME TypeOK, main' = main \/ OutsideCommit PROVE Merged' = Merged
<1>1. CASE main' = main
  BY <1>1 DEF Merged
<1>2. CASE OutsideCommit
  <2>1. PICK added \in {{}, {<<0, Tip>>}} : main' = Append(main, [tree |-> main[Tip].tree \union added, by |-> 0])
    BY <1>2 DEF OutsideCommit
  <2> DEFINE row == [tree |-> main[Tip].tree \union added, by |-> 0]
  <2>2. row \in BaseRow /\ row.by = 0
    BY TipTyped, MainIndex DEF TypeOK, BaseRow, Tree, Lane
  <2>3. main' = Append(main, row)
    BY <2>1
  <2> HIDE DEF row
  <2>4. Grown /\ DOMAIN main' = DOMAIN main \union {Tip + 1} /\ main'[Tip + 1].by = 0
    BY <2>2, <2>3, Appended
  <2> QED BY <2>4 DEF Merged, Grown
<1> QED BY <1>1, <1>2

\* The family at hand stays the same.
LEMMA SameHand ==
  ASSUME TypeOK, StepsKept, UNCHANGED cur, AtHand' <=> AtHand, AtHand => Ahead' = Ahead
  PROVE  InHand' = InHand
<1>1. AtHand => cur \in DOMAIN families
  BY PlacesTyped
<1>2. AtHand => Members(cur)' = Members(cur)
  BY <1>1 DEF Members, StepsKept
<1> QED BY <1>2 DEF InHand, Unserved

\* So does the list, without a family that is landing.
LEMMA SameLine ==
  ASSUME TypeOK, StepsKept, UNCHANGED <<later, batch, settling>>, pc' \in Landing <=> pc \in Landing
  PROVE  Line' = Line
<1>1. CASE pc \in Landing /\ ~settling
  <2>1. batch[1] \in DOMAIN families
    BY <1>1, PlacesTyped, BatchTail, BatchTyped
  <2>2. families'[batch[1]].steps = families[batch[1]].steps
    BY <2>1 DEF StepsKept
  <2> QED BY <2>2 DEF Line, Behind
<1>2. CASE ~(pc \in Landing /\ ~settling)
  BY <1>2 DEF Line
<1> QED BY <1>1, <1>2

\* A step that leaves everybody where they are.
LEMMA StandingStill ==
  ASSUME TypeOK, PlacesInv, InRound, InRound', Grows, StepsKept, UNCHANGED HeldPRs,
         UNCHANGED <<fold, stack, requeue, later, batch, settling>>, InHand' = InHand, Line' = Line,
         pc' = "plan" <=> pc = "plan", pc = "part" <=> pc' = "part"
  PROVE  Moves
<1>1. FoldOnce /\ OnePlace
  BY DEF PlacesInv
<1>2. Folded' = Folded
  BY DEF Folded
<1>3. Mine' = Mine
  BY <1>2 DEF Mine
<1>4. Served' = Served /\ Around' = Around
  BY <1>3 DEF Served, Around
<1>5. FoldOnce' /\ OnePlace'
  <2>1. FoldOnce'
    BY <1>1, <1>2 DEF FoldOnce
  <2>2. OnePlace'
    BY <1>1, <1>3 DEF OnePlace
  <2> QED BY <2>1, <2>2
<1>6. ~settling' /\ pc' # "part" => LinedUp'
  BY StillLined DEF PlacesInv, StepsKept
<1> QED BY <1>4, <1>5, <1>6 DEF Moves

\* The gates and the outside move nobody.
LEMMA OthersStand ==
  ASSUME TypeOK, LandingInv, PlacesInv, InRound,
         \/ \E f \in DOMAIN families : Gate(f)
         \/ Disturb
         \/ UNCHANGED vars
  PROVE  Moves
<1>1. UNCHANGED <<thread, lists, pc, mode, rows, stopped>>
  BY DEF Gate, GateCancelled, GateReused, GateStart, GatePostponed, GateFinish, GateRecord, ByGate,
     Disturb, Outside, vars, world
<1>2. StepsKept
  <2>1. Next \/ UNCHANGED vars
    BY DEF Next
  <2> QED BY <2>1, RunGrows DEF StepsKept
<1>4. /\ UNCHANGED <<fold, stack, requeue, later, batch, settling, cur, at, out, retry, pending, alerts, held, rounds>>
  BY <1>1 DEF thread, lists
<1>5. InHand' = InHand
  BY <1>1, <1>2, <1>4, SameHand DEF AtHand, Ahead
<1>6. Line' = Line
  BY <1>1, <1>2, <1>4, SameLine
<1>7. Grows /\ InRound' /\ UNCHANGED HeldPRs
  BY <1>1, <1>4 DEF Grows, InRound, Queued, HeldPRs
<1> QED BY <1>1, <1>2, <1>4, <1>5, <1>6, <1>7, StandingStill

\* Planning one more step puts its pull request behind the others.
LEMMA NumbersAppend ==
  ASSUME NEW steps \in Seq(Step), NEW s \in Step
  PROVE  Numbers(Append(steps, s)) = Append(Numbers(steps), s.pr)
<1>1. Len(steps) \in Nat /\ DOMAIN steps = 1..Len(steps) /\ \A i \in 1..Len(steps) : steps[i] \in Step
  BY ListedAt
<1>2. /\ Append(steps, s) \in Seq(Step) /\ Len(Append(steps, s)) = Len(steps) + 1
      /\ \A i \in 1..Len(steps) : Append(steps, s)[i] = steps[i]
      /\ Append(steps, s)[Len(steps) + 1] = s
  BY AppendProperties
<1>3. Numbers(steps) \in Seq(PR) /\ Numbers(Append(steps, s)) \in Seq(PR) /\ s.pr \in PR
  BY <1>2, NumbersTyped DEF Step
<1>4. Len(Numbers(steps)) = Len(steps) /\ \A i \in 1..Len(steps) : Numbers(steps)[i] = steps[i].pr
  <2>1. DOMAIN Numbers(steps) = 1..Len(steps) /\ \A i \in 1..Len(steps) : Numbers(steps)[i] = steps[i].pr
    BY <1>1 DEF Numbers
  <2> QED BY <1>1, <1>3, <2>1, LenProperties
<1> DEFINE t == Append(steps, s)
           q == Append(Numbers(steps), s.pr)
<1>5. DOMAIN t = 1..(Len(steps) + 1)
  BY <1>2, LenProperties
<1>6. Len(Numbers(t)) = Len(steps) + 1 /\ \A i \in 1..(Len(steps) + 1) : Numbers(t)[i] = t[i].pr
  <2>1. DOMAIN Numbers(t) = 1..(Len(steps) + 1) /\ \A i \in 1..(Len(steps) + 1) : Numbers(t)[i] = t[i].pr
    BY <1>5 DEF Numbers
  <2> QED BY <1>1, <1>3, <2>1, LenProperties
<1>7. /\ q \in Seq(PR) /\ Len(q) = Len(steps) + 1 /\ \A i \in 1..Len(steps) : q[i] = steps[i].pr
      /\ q[Len(steps) + 1] = s.pr
  <2>1. /\ q \in Seq(PR) /\ Len(q) = Len(Numbers(steps)) + 1
        /\ \A i \in 1..Len(Numbers(steps)) : q[i] = Numbers(steps)[i]
        /\ q[Len(Numbers(steps)) + 1] = s.pr
    BY <1>3, AppendProperties
  <2> QED BY <1>4, <2>1
<1>8. \A i \in 1..(Len(steps) + 1) : Numbers(t)[i] = q[i]
  <2> SUFFICES ASSUME NEW i \in 1..(Len(steps) + 1) PROVE Numbers(t)[i] = q[i]
    OBVIOUS
  <2>1. CASE i = Len(steps) + 1
    BY <1>2, <1>6, <1>7, <2>1
  <2>2. CASE i \in 1..Len(steps)
    BY <1>2, <1>6, <1>7, <2>2
  <2> HIDE DEF q, t
  <2>3. i = Len(steps) + 1 \/ i \in 1..Len(steps)
    BY <1>1
  <2> QED BY <2>1, <2>2, <2>3
<1> QED BY <1>3, <1>6, <1>7, <1>8, SeqEqual

\* One more is held.
LEMMA OneMoreHeld == ASSUME NEW x, held' = held \union {x} PROVE HeldPRs' = HeldPRs \union {x.pr}
BY DEF HeldPRs

\* What planning does to the lists of the fold: the next pull request is skipped, held or
\* to be retried, or it is planned.
LEMMA PlanStepFold ==
  ASSUME TypeOK, PlanStep
  PROVE  LET n == Head(fold.todo)
         IN /\ fold.todo # <<>> /\ pc = "plan" /\ pc' = "plan"
            /\ fold'.todo = Tail(fold.todo) /\ fold'.rest = fold.rest
            /\ \/ /\ fold'.steps = fold.steps
                  /\ \/ HeldPRs' = HeldPRs \union {n} /\ retry' = retry
                     \/ HeldPRs' = HeldPRs /\ retry' = retry \union {n}
               \/ /\ \E s \in Step : s.pr = n /\ fold'.steps = Append(fold.steps, s)
                  /\ HeldPRs' = HeldPRs /\ retry' = retry
<1> DEFINE n == Head(fold.todo)
           joined == Joined(fold.acc, rows[n])
           step == [pr |-> n, commit |-> joined]
<1>1. fold \in Folding /\ fold.todo # <<>> /\ pc = "plan" /\ pc' = "plan"
  BY DEF TypeOK, ThreadTyped, PlanStep
<1>2. n \in PR
  <2>1. fold.todo \in Seq(PR)
    BY <1>1 DEF Folding
  <2> QED BY <1>1, <2>1, ListHead
<1>3. step \in Step
  <2>1. fold.acc \in Commit
    BY <1>1 DEF Folding
  <2> QED BY <1>2, <2>1, HeadsTyped, JoinedTyped DEF Step
<1>4. \/ /\ fold' = [fold EXCEPT !.todo = Tail(@)]
         /\ \/ /\ \E h : held' = held \union {[pr |-> n, reason |-> "CONFLICT", head |-> rows[n].lanes, tree |-> h]}
               /\ retry' = retry
            \/ held' = held /\ retry' = retry \union {n}
      \/ /\ fold' = [fold EXCEPT !.todo = Tail(@), !.acc = joined, !.steps = Append(@, step)]
         /\ held' = held /\ retry' = retry
  BY DEF PlanStep
<1> HIDE DEF step, joined
<1>5. step.pr = n
  BY DEF step
<1>6. CASE fold' = [fold EXCEPT !.todo = Tail(@)]
  <2>1. fold'.todo = Tail(fold.todo) /\ fold'.rest = fold.rest /\ fold'.steps = fold.steps
    BY <1>1, <1>6 DEF Folding
  <2>2. ASSUME NEW h, held' = held \union {[pr |-> n, reason |-> "CONFLICT", head |-> rows[n].lanes, tree |-> h]}
        PROVE  HeldPRs' = HeldPRs \union {n}
    <3> DEFINE x == [pr |-> n, reason |-> "CONFLICT", head |-> rows[n].lanes, tree |-> h]
    <3>1. held' = held \union {x} /\ x.pr = n
      BY <2>2
    <3> HIDE DEF x
    <3> QED BY <3>1, OneMoreHeld
  <2>3. fold'.steps = fold.steps /\ Append(fold.steps, step) # fold.steps
    <3>1. fold.steps \in Seq(Step)
      BY <1>1 DEF Folding
    <3>2. Len(Append(fold.steps, step)) = Len(fold.steps) + 1 /\ Len(fold.steps) \in Nat
      BY <1>3, <3>1, AppendProperties, LenProperties
    <3> QED BY <2>1, <3>2
  <2>4. fold' # [fold EXCEPT !.todo = Tail(@), !.acc = joined, !.steps = Append(@, step)]
    BY <1>1, <2>3 DEF Folding
  <2>5. held' = held => HeldPRs' = HeldPRs
    BY DEF HeldPRs
  <2> QED BY <1>1, <1>4, <2>1, <2>2, <2>4, <2>5
<1>7. CASE fold' = [fold EXCEPT !.todo = Tail(@), !.acc = joined, !.steps = Append(@, step)]
  <2>1. fold'.todo = Tail(fold.todo) /\ fold'.rest = fold.rest /\ fold'.steps = Append(fold.steps, step)
    BY <1>1, <1>7 DEF Folding
  <2>2. held' = held /\ retry' = retry
    <3>1. fold'.steps # fold.steps
      <4>1. fold.steps \in Seq(Step)
        BY <1>1 DEF Folding
      <4>2. Len(Append(fold.steps, step)) = Len(fold.steps) + 1 /\ Len(fold.steps) \in Nat
        BY <1>3, <4>1, AppendProperties, LenProperties
      <4> QED BY <2>1, <4>2
    <3>2. fold' # [fold EXCEPT !.todo = Tail(@)]
      BY <1>1, <3>1 DEF Folding
    <3> QED BY <1>4, <3>2
  <2>3. HeldPRs' = HeldPRs
    BY <2>2 DEF HeldPRs
  <2> QED BY <1>1, <1>3, <1>5, <2>1, <2>2, <2>3
<1> QED BY <1>4, <1>6, <1>7

\* Who is served while a family of the round is planned.
LEMMA PlanningPlaces ==
  ASSUME pc = "plan"
  PROVE  /\ InHand = <<>> /\ Line = later /\ ~AtHand /\ InRound
         /\ Mine = ToSet(Folded) \union ToSet(fold.todo) \union ToSet(fold.rest)
<1>1. ~AtHand /\ pc \notin Landing
  BY DEF AtHand, Landing
<1>2. InHand = <<>> /\ Line = later
  BY <1>1 DEF InHand, Line
<1> QED BY <1>1, <1>2, NobodyListed DEF Mine, InRound, Queued

\* Planning one pull request takes it off the chunk.
LEMMA PlanStepMoves == ASSUME TypeOK, LandingInv, PlacesInv, PlanStep PROVE Moves
<1> DEFINE n == Head(fold.todo)
<1>1. /\ fold.todo # <<>> /\ pc = "plan" /\ pc' = "plan"
      /\ fold'.todo = Tail(fold.todo) /\ fold'.rest = fold.rest
      /\ \/ /\ fold'.steps = fold.steps
            /\ \/ HeldPRs' = HeldPRs \union {n} /\ retry' = retry
               \/ HeldPRs' = HeldPRs /\ retry' = retry \union {n}
         \/ /\ \E s \in Step : s.pr = n /\ fold'.steps = Append(fold.steps, s)
            /\ HeldPRs' = HeldPRs /\ retry' = retry
  BY PlanStepFold
<1>2. /\ UNCHANGED <<out, pending, alerts, rounds, stack, requeue, later, batch, settling, cur, at, families>>
  BY DEF PlanStep, Untouched
<1>3. FoldOnce /\ OnePlace /\ InRound
  BY <1>1, PlanningPlaces DEF PlacesInv
<1>4. /\ InHand = <<>> /\ Line = later
      /\ Mine = ToSet(Folded) \union ToSet(fold.todo) \union ToSet(fold.rest)
  BY <1>1, PlanningPlaces
<1>5. /\ InHand' = <<>> /\ Line' = later' /\ InRound'
      /\ Mine' = ToSet(Folded') \union ToSet(fold'.todo) \union ToSet(fold'.rest)
  <2>1. ~AtHand' /\ pc' \notin Landing
    BY <1>1 DEF AtHand, Landing
  <2>2. InHand' = <<>> /\ Line' = later'
    BY <2>1 DEF InHand, Line
  <2> QED BY <1>1, <2>2, NobodyListed DEF Mine, InRound, Queued
<1>6. /\ ToSet(fold.todo) = {n} \union ToSet(fold'.todo)
      /\ IsInjective(fold'.todo) /\ n \notin ToSet(fold'.todo)
  <2>1. fold.todo \in Seq(PR) /\ IsInjective(fold.todo)
    BY <1>3, PlacesTyped DEF FoldOnce
  <2> QED BY <1>1, <2>1, ListHead
<1>7. n \notin ToSet(Folded) /\ n \notin ToSet(fold.rest)
  BY <1>3, <1>6 DEF FoldOnce
<1>8. /\ ToSet(Folded') \in {ToSet(Folded), ToSet(Folded) \union {n}} /\ IsInjective(Folded')
      /\ ToSet(Folded') = ToSet(Folded) =>
           n \in HeldPRs' \union retry' /\ HeldPRs' \subseteq HeldPRs \union {n} /\ HeldPRs \subseteq HeldPRs'
      /\ ToSet(Folded') # ToSet(Folded) => HeldPRs' = HeldPRs
      /\ retry \subseteq retry' /\ HeldPRs \subseteq HeldPRs'
  <2>1. CASE fold'.steps = fold.steps /\ (HeldPRs' = HeldPRs \union {n} \/ (HeldPRs' = HeldPRs /\ retry' = retry \union {n}))
    <3>1. Folded' = Folded
      BY <2>1 DEF Folded
    <3> QED BY <1>1, <1>3, <2>1, <3>1 DEF FoldOnce
  <2>2. ASSUME NEW s \in Step, s.pr = n, fold'.steps = Append(fold.steps, s), HeldPRs' = HeldPRs, retry' = retry
        PROVE  /\ ToSet(Folded') = ToSet(Folded) \union {n} /\ IsInjective(Folded')
               /\ HeldPRs \subseteq HeldPRs' /\ retry \subseteq retry'
    <3>1. fold.steps \in Seq(Step) /\ Folded \in Seq(PR)
      BY PlacesTyped
    <3>2. Folded' = Append(Folded, n)
      BY <2>2, <3>1, NumbersAppend DEF Folded
    <3>3. n \in PR /\ IsInjective(Folded)
      BY <1>3, <2>2 DEF Step, FoldOnce
    <3> QED BY <1>7, <2>2, <3>1, <3>2, <3>3, ListAppend
  <2> QED BY <1>1, <1>7, <2>1, <2>2
<1> HIDE DEF n
<1>9. FoldOnce'
  BY <1>1, <1>2, <1>3, <1>6, <1>7, <1>8 DEF FoldOnce
<1>10. /\ Mine' \subseteq Mine /\ Mine \subseteq Mine' \union {n} /\ n \in Mine
       /\ (ToSet(Folded') = ToSet(Folded) => n \notin Mine')
       /\ (ToSet(Folded') # ToSet(Folded) => n \in Mine')
  BY <1>1, <1>3, <1>4, <1>5, <1>6, <1>7, <1>8
<1>11. OnePlace'
  BY <1>2, <1>3, <1>4, <1>5, <1>10, NobodyListed DEF OnePlace
<1>12. Served' \subseteq Served /\ Around' \subseteq Around /\ Around \subseteq Around' \union {n}
  BY <1>2, <1>4, <1>5, <1>10 DEF Served, Around
<1>13. ToSet(Folded') = ToSet(Folded) => n \notin Around' /\ n \in Served
  BY <1>2, <1>3, <1>4, <1>5, <1>10 DEF Served, Around, OnePlace
<1>14. ToSet(Folded') # ToSet(Folded) => n \in Around'
  BY <1>10 DEF Served, Around
<1>15. HeldPRs' \subseteq HeldPRs \union (Served \ Around')
  BY <1>8, <1>13
<1>16. Around \subseteq Around' \union Noted'
  BY <1>8, <1>12, <1>14 DEF Noted
<1>17. Grows
  BY <1>2, <1>8 DEF Grows
<1>18. ~settling' /\ pc' # "part" => LinedUp'
  BY <1>1, <1>2, StillLined DEF PlacesInv
<1> QED BY <1>3, <1>5, <1>9, <1>11, <1>12, <1>15, <1>16, <1>17, <1>18 DEF Moves

\* A list nobody is on is empty.
LEMMA NobodyOn == ASSUME NEW S, NEW q \in Seq(S), ToSet(q) = {} PROVE q = <<>>
<1>1. q # <<>> => Head(q) \in ToSet(q)
  BY ListHead
<1> QED BY <1>1

\* No steps, no pull requests.
LEMMA NoNumbers == ToSet(Numbers(<<>>)) = {} /\ IsInjective(Numbers(<<>>))
<1>1. DOMAIN <<>> = {}
  BY EmptySeq, LenProperties
<1> QED BY <1>1 DEF Numbers, ToSet, IsInjective

\* What closing a part of the fold leaves of it: the next chunk, if there is one.
LEMMA PlanCloseFold ==
  ASSUME TypeOK, FoldOnce, PlanClose
  PROVE  /\ pc = "plan" /\ fold.todo = <<>> /\ fold'.steps = <<>>
         /\ ToSet(fold'.todo) \union ToSet(fold'.rest) = ToSet(fold.rest)
         /\ pc' # "plan" => fold'.todo = <<>> /\ fold'.rest = <<>> /\ fold.rest = <<>>
         /\ pc' = IF settling THEN (IF fold.steps = <<>> THEN "part" ELSE "submit") ELSE pc'
         /\ ~settling => pc' \in {"plan", "drain", "submit"}
         /\ FoldOnce'
<1>1. pc = "plan" /\ fold.todo = <<>> /\ settling' = settling /\ pc' = AfterFold(fold.steps = <<>>)
      /\ fold' = [fold EXCEPT !.steps = <<>>, !.todo = Upto(fold.rest, fold.size), !.rest = From(@, fold.size + 1)]
  BY DEF PlanClose
<1>2. /\ fold \in Folding /\ fold.rest \in Seq(PR) /\ fold.size \in Nat
  BY FoldTyped
<1>3. /\ fold'.steps = <<>> /\ fold'.todo = Upto(fold.rest, fold.size)
      /\ fold'.rest = From(fold.rest, fold.size + 1)
  BY <1>1, <1>2 DEF Folding
<1>4. /\ fold'.todo \in Seq(PR) /\ fold'.rest \in Seq(PR)
      /\ ToSet(fold.rest) = ToSet(fold'.todo) \union ToSet(fold'.rest)
      /\ IsInjective(fold'.todo) /\ IsInjective(fold'.rest)
      /\ ToSet(fold'.todo) \cap ToSet(fold'.rest) = {}
  <2>1. IsInjective(fold.rest)
    BY DEF FoldOnce
  <2>2. /\ Upto(fold.rest, fold.size) \in Seq(PR) /\ From(fold.rest, fold.size + 1) \in Seq(PR)
        /\ ToSet(fold.rest) = ToSet(Upto(fold.rest, fold.size)) \union ToSet(From(fold.rest, fold.size + 1))
        /\ IsInjective(Upto(fold.rest, fold.size)) /\ IsInjective(From(fold.rest, fold.size + 1))
        /\ ToSet(Upto(fold.rest, fold.size)) \cap ToSet(From(fold.rest, fold.size + 1)) = {}
    BY <1>2, <2>1, ListChunk
  <2> QED BY <1>3, <2>2
<1>5. /\ settling => pc' = IF fold.steps = <<>> THEN "part" ELSE "submit"
      /\ ~settling => pc' \in {"plan", "drain", "submit"} /\ (pc' # "plan" => fold.rest = <<>>)
  BY <1>1 DEF AfterFold
<1>6. pc' # "plan" => fold.rest = <<>>
  BY <1>5 DEF FoldOnce
<1>7. fold.rest = <<>> => fold'.todo = <<>> /\ fold'.rest = <<>>
  BY <1>4, NobodyListed, NobodyOn
<1>8. ToSet(Folded') = {} /\ IsInjective(Folded')
  BY <1>3, NoNumbers DEF Folded
<1>9. FoldOnce'
  BY <1>1, <1>3, <1>4, <1>6, <1>7, <1>8 DEF FoldOnce
<1> QED BY <1>1, <1>3, <1>4, <1>5, <1>6, <1>7, <1>9

\* Closing a part of the fold hands its members to the round, or to the gate.
LEMMA PlanCloseMoves == ASSUME TypeOK, LandingInv, PlacesInv, PlanClose PROVE Moves
<1> DEFINE last == IF settling \/ batch = <<>> THEN 0 ELSE batch[Len(batch)]
           new == NewFamily(fold.steps, fold.base, last, settling)
           none == fold.steps = <<>>
<1>1. FoldOnce /\ OnePlace /\ InRound
  BY PlanningPlaces DEF PlacesInv, PlanClose
<1>2. /\ pc = "plan" /\ fold.todo = <<>> /\ fold'.steps = <<>>
      /\ ToSet(fold'.todo) \union ToSet(fold'.rest) = ToSet(fold.rest)
      /\ settling => pc' = IF none THEN "part" ELSE "submit"
      /\ ~settling => pc' \in {"plan", "drain", "submit"}
      /\ FoldOnce'
  BY <1>1, PlanCloseFold
<1>3. /\ UNCHANGED <<out, held, retry, pending, alerts, rounds, stack, requeue, settling>>
      /\ families' = IF none THEN families ELSE Append(families, new)
      /\ batch' = IF none \/ settling THEN batch ELSE Append(batch, Len(families) + 1)
      /\ later' = IF none \/ settling THEN later ELSE later \o Folded
      /\ cur' = IF settling /\ ~none THEN Len(families) + 1 ELSE cur
  BY DEF PlanClose, lists, Folded
<1>4. new \in Family /\ new.steps = fold.steps
  <2>1. last \in Nat
    <3>1. batch # <<>> => Len(batch) \in DOMAIN batch
      BY BatchTyped, EmptySeq
    <3>2. \A i \in DOMAIN batch : batch[i] \in Nat
      BY BatchTyped
    <3> QED BY <3>1, <3>2
  <2>2. settling \in BOOLEAN
    BY DEF TypeOK, ThreadTyped
  <2> HIDE DEF last
  <2>3. new \in Family
    BY <2>1, <2>2, FoldTyped, NewFamilyTyped
  <2> QED BY <2>3 DEF NewFamily
<1> HIDE DEF new
<1>5. /\ Folded \in Seq(PR) /\ later \in Seq(PR) /\ IsInjective(Folded) /\ IsInjective(later)
      /\ InHand = <<>> /\ Line = later /\ Mine = ToSet(Folded) \union ToSet(fold.todo) \union ToSet(fold.rest)
  BY <1>1, <1>2, PlacesTyped, PlanningPlaces DEF FoldOnce, OnePlace
<1>6. Mine = ToSet(Folded) \union ToSet(fold.rest)
  BY <1>2, <1>5, NobodyListed
<1>7. ToSet(Folded') = {}
  BY <1>2, NoNumbers DEF Folded
<1>8. none => ToSet(Folded) = {}
  BY NoNumbers DEF Folded
<1>9. Line' = later' /\ InRound'
  BY <1>2, <1>3 DEF Line, Landing, InRound, Queued
<1>10. ASSUME settling, ~none
       PROVE  /\ Mine' \union ToSet(Line') = Mine \union ToSet(Line) /\ Mine' \cap ToSet(Line') = {}
              /\ IsInjective(InHand') /\ IsInjective(Line')
  <2>1. InHand' = Folded
    <3>1. AtHand' /\ Ahead' = 1
      BY <1>2, <1>3, <1>10 DEF AtHand, Ahead, Landing
    <3>2. families' = Append(families, new) /\ families \in Seq(Family) /\ cur' = Len(families) + 1
      BY <1>3, <1>10 DEF TypeOK, GatesTyped
    <3>3. families'[cur'].steps = fold.steps
      BY <1>4, <3>2, AppendProperties
    <3>4. Unserved' = From(Folded, 1)
      BY <3>1, <3>3 DEF Unserved, Members, Folded
    <3>5. From(Folded, 1) = Folded
      BY <1>5, ListedAt, SubSeqFull DEF From
    <3> QED BY <3>1, <3>4, <3>5 DEF InHand
  <2>2. Mine' = Mine /\ Line' = Line
    BY <1>2, <1>3, <1>5, <1>6, <1>7, <1>9, <1>10, <2>1 DEF Mine
  <2> QED BY <1>1, <1>5, <2>1, <2>2 DEF OnePlace
<1>11. ASSUME ~(settling /\ ~none)
       PROVE  /\ Mine' \union ToSet(Line') = Mine \union ToSet(Line) /\ Mine' \cap ToSet(Line') = {}
              /\ IsInjective(InHand') /\ IsInjective(Line')
  <2>1. InHand' = <<>>
    <3>1. ~AtHand'
      BY <1>2, <1>3, <1>11 DEF AtHand, Landing
    <3> QED BY <3>1 DEF InHand
  <2>2. Mine' = ToSet(fold.rest)
    BY <1>2, <1>7, <2>1, NobodyListed DEF Mine
  <2>3. CASE none
    <3>1. Line' = Line
      BY <1>3, <1>5, <1>9, <2>3
    <3> QED BY <1>1, <1>6, <1>8, <2>1, <2>2, <2>3, <3>1, NobodyListed DEF OnePlace
  <2>4. CASE ~none
    <3>1. Line' = later \o Folded
      BY <1>3, <1>9, <1>11, <2>4
    <3>2. ToSet(later) \cap ToSet(Folded) = {}
      BY <1>1, <1>5, <1>6 DEF OnePlace
    <3>3. ToSet(Line') = ToSet(Line) \union ToSet(Folded) /\ IsInjective(Line')
      BY <1>5, <3>1, <3>2, ListsJoined
    <3>4. ToSet(fold.rest) \cap ToSet(Folded) = {}
      BY <1>1 DEF FoldOnce
    <3> QED BY <1>1, <1>6, <2>1, <2>2, <3>3, <3>4, NobodyListed DEF OnePlace
  <2> QED BY <2>3, <2>4
<1>12. /\ Mine' \union ToSet(Line') = Mine \union ToSet(Line) /\ Mine' \cap ToSet(Line') = {}
       /\ IsInjective(InHand') /\ IsInjective(Line')
  BY <1>10, <1>11
<1>13. OnePlace'
  BY <1>1, <1>3, <1>12 DEF OnePlace
<1>14. Served' = Served /\ Around' = Around
  BY <1>3, <1>12 DEF Served, Around
<1>15. Grows /\ HeldPRs' = HeldPRs
  BY <1>3 DEF Grows, HeldPRs
<1>16. StepsKept
  BY PlanCloseQuiet DEF Quiet, NoneLands, StepsKept
<1>17. ~settling' /\ pc' # "part" => LinedUp'
  <2> SUFFICES ASSUME ~settling PROVE LinedUp'
    BY <1>3
  <2>1. LinedUp
    BY <1>2 DEF PlacesInv
  <2>2. CASE none
    BY <1>3, <1>16, <2>1, <2>2, StillLined DEF StepsKept
  <2>3. CASE ~none
    BY <1>3, <1>4, <2>1, <2>3, MoreLined DEF Folded
  <2> QED BY <2>2, <2>3
<1> QED BY <1>1, <1>2, <1>9, <1>13, <1>14, <1>15, <1>17 DEF Moves

\* Where everybody is while nothing is folded.
LEMMA Spread ==
  ASSUME TypeOK, PlacesInv, InRound, pc # "plan"
  PROVE  /\ InHand \in Seq(PR) /\ Line \in Seq(PR) /\ stack \in Seq(Seq(PR)) /\ requeue \in Seq(PR)
         /\ IsInjective(InHand) /\ IsInjective(Line) /\ Parted(stack) /\ IsInjective(requeue)
         /\ ToSet(InHand) \cap ToSet(Line) = {} /\ ToSet(InHand) \cap Parts(stack) = {}
         /\ ToSet(InHand) \cap ToSet(requeue) = {} /\ ToSet(Line) \cap Parts(stack) = {}
         /\ ToSet(Line) \cap ToSet(requeue) = {} /\ Parts(stack) \cap ToSet(requeue) = {}
         /\ Mine = ToSet(InHand) /\ Served = ToSet(InHand) \union ToSet(Line) \union Parts(stack)
         /\ Around = Served \union ToSet(requeue)
<1>1. FoldOnce /\ OnePlace
  BY DEF PlacesInv
<1>2. Mine = ToSet(InHand)
  BY <1>1, MineInHand
<1>3. stack \in Seq(Seq(PR)) /\ requeue \in Seq(PR) /\ later \in Seq(PR)
  BY PlacesTyped
<1>4. InHand \in Seq(PR)
  <2>1. AtHand => Members(cur) \in Seq(PR)
    BY PlacesTyped
  <2>2. Ahead \in Nat \ {0}
    <3>1. at \in Nat /\ (pc \in Landing => at \in Nat \ {0})
      BY LandingPointers DEF TypeOK, ThreadTyped
    <3> QED BY <3>1 DEF Ahead
  <2>3. AtHand => Unserved \in Seq(PR)
    BY <2>1, <2>2, FromTyped DEF Unserved
  <2> QED BY <2>3, EmptySeq DEF InHand
<1>5. Line \in Seq(PR)
  <2>1. pc \in Landing /\ ~settling => Behind \in Seq(PR)
    BY PlacesTyped, BehindTyped
  <2> QED BY <1>3, <2>1 DEF Line
<1> QED BY <1>1, <1>2, <1>3, <1>4, <1>5 DEF OnePlace, Served, Around

\* A step that folds nothing, by who is where behind it.
LEMMA Going ==
  ASSUME TypeOK, PlacesInv, InRound, InRound', pc # "plan", pc' # "plan", UNCHANGED fold, Grows,
         ~settling' /\ pc' # "part" => LinedUp',
         IsInjective(InHand'), IsInjective(Line'), Parted(stack'), IsInjective(requeue'),
         ToSet(InHand') \cap ToSet(Line') = {}, ToSet(InHand') \cap Parts(stack') = {},
         ToSet(InHand') \cap ToSet(requeue') = {}, ToSet(Line') \cap Parts(stack') = {},
         ToSet(Line') \cap ToSet(requeue') = {}, Parts(stack') \cap ToSet(requeue') = {},
         ToSet(InHand') \subseteq Served, ToSet(Line') \subseteq Served, Parts(stack') \subseteq Served,
         ToSet(requeue') \subseteq Around,
         \A n \in HeldPRs' \ HeldPRs : /\ n \in Served /\ n \notin ToSet(InHand') /\ n \notin ToSet(Line')
                                       /\ n \notin Parts(stack') /\ n \notin ToSet(requeue'),
         Around \subseteq ToSet(InHand') \union ToSet(Line') \union Parts(stack') \union ToSet(requeue')
                            \union Noted'
  PROVE  Moves
<1>1. FoldOnce' /\ Mine' = ToSet(InHand')
  BY StillNotFolding DEF PlacesInv
<1>2. OnePlace'
  BY <1>1 DEF OnePlace
<1>3. /\ Served' = ToSet(InHand') \union ToSet(Line') \union Parts(stack')
      /\ Around' = ToSet(InHand') \union ToSet(Line') \union Parts(stack') \union ToSet(requeue')
  BY <1>1 DEF Served, Around
<1>4. HeldPRs' \subseteq HeldPRs \union (Served \ Around')
  BY <1>3
<1>5. Served \subseteq Around
  BY DEF Around
<1>6. Served' \subseteq Served /\ Around' \subseteq Around /\ Around \subseteq Around' \union Noted'
  BY <1>3, <1>5
<1> QED BY <1>1, <1>2, <1>4, <1>6 DEF Moves

\* Whoever is left behind joins those who are requeued, and nobody is held.
LEMMA Requeueing ==
  ASSUME TypeOK, PlacesInv, InRound, InRound', pc # "plan", pc' # "plan", UNCHANGED <<fold, stack>>,
         Grows, HeldPRs' = HeldPRs, ~settling' /\ pc' # "part" => LinedUp',
         NEW back \in Seq(PR), requeue' = requeue \o back, IsInjective(back),
         IsInjective(InHand'), IsInjective(Line'), ToSet(InHand') \cap ToSet(Line') = {},
         ToSet(back) \cap ToSet(InHand') = {}, ToSet(back) \cap ToSet(Line') = {},
         ToSet(back) \union ToSet(InHand') \union ToSet(Line') \subseteq ToSet(InHand) \union ToSet(Line),
         ToSet(InHand) \union ToSet(Line) \subseteq
           ToSet(back) \union ToSet(InHand') \union ToSet(Line') \union Noted'
  PROVE  Moves
<1>1. /\ Parted(stack) /\ IsInjective(requeue) /\ requeue \in Seq(PR)
      /\ ToSet(InHand) \cap Parts(stack) = {} /\ ToSet(InHand) \cap ToSet(requeue) = {}
      /\ ToSet(Line) \cap Parts(stack) = {} /\ ToSet(Line) \cap ToSet(requeue) = {}
      /\ Parts(stack) \cap ToSet(requeue) = {}
      /\ Served = ToSet(InHand) \union ToSet(Line) \union Parts(stack)
      /\ Around = Served \union ToSet(requeue)
  BY Spread
<1>2. ToSet(back) \cap ToSet(requeue) = {} /\ ToSet(back) \cap Parts(stack) = {}
  BY <1>1
<1>3. ToSet(requeue') = ToSet(requeue) \union ToSet(back) /\ IsInjective(requeue')
  BY <1>1, <1>2, ListsJoined
<1>4. Parted(stack') /\ Parts(stack') = Parts(stack)
  BY <1>1
<1>5. /\ ToSet(InHand') \cap Parts(stack') = {} /\ ToSet(Line') \cap Parts(stack') = {}
      /\ ToSet(InHand') \cap ToSet(requeue') = {} /\ ToSet(Line') \cap ToSet(requeue') = {}
      /\ Parts(stack') \cap ToSet(requeue') = {}
  BY <1>1, <1>2, <1>3, <1>4
<1>6. /\ ToSet(InHand') \subseteq Served /\ ToSet(Line') \subseteq Served /\ Parts(stack') \subseteq Served
      /\ ToSet(requeue') \subseteq Around
  BY <1>1, <1>3, <1>4
<1>7. Around \subseteq ToSet(InHand') \union ToSet(Line') \union Parts(stack') \union ToSet(requeue') \union Noted'
  BY <1>1, <1>3, <1>4
<1> QED BY <1>3, <1>4, <1>5, <1>6, <1>7, Going

\* Nobody is requeued.
LEMMA Passing ==
  ASSUME TypeOK, PlacesInv, InRound, InRound', pc # "plan", pc' # "plan", UNCHANGED <<fold, stack, requeue>>,
         Grows, HeldPRs' = HeldPRs, ~settling' /\ pc' # "part" => LinedUp',
         IsInjective(InHand'), IsInjective(Line'), ToSet(InHand') \cap ToSet(Line') = {},
         ToSet(InHand') \union ToSet(Line') \subseteq ToSet(InHand) \union ToSet(Line),
         ToSet(InHand) \union ToSet(Line) \subseteq ToSet(InHand') \union ToSet(Line') \union Noted'
  PROVE  Moves
<1>1. requeue \in Seq(PR)
  BY PlacesTyped
<1>2. requeue' = requeue \o <<>> /\ <<>> \in Seq(PR)
  BY <1>1, ConcatEmptySeq, EmptySeq
<1>3. ToSet(<<>>) = {} /\ IsInjective(<<>>)
  BY NobodyListed
<1> QED BY <1>2, <1>3, Requeueing

\* Taken off the hand, or never in it.
LEMMA NotAtHand == ASSUME ~AtHand' PROVE InHand' = <<>> /\ ToSet(InHand') = {} /\ IsInjective(InHand')
BY NobodyListed DEF InHand

\* A family that is not landing is in hand as a whole.
LEMMA WholeInHand ==
  ASSUME TypeOK, AtHand, pc \notin Landing
  PROVE  InHand = Members(cur)
<1>1. Members(cur) \in Seq(PR)
  BY PlacesTyped
<1>2. From(Members(cur), 1) = Members(cur)
  BY <1>1, ListedAt, SubSeqFull DEF From
<1>3. pc # "confirm"
  BY DEF Landing
<1> QED BY <1>2, <1>3 DEF InHand, Unserved, Ahead

\* Submitting hands the families to their gates, or gives them back.
LEMMA SubmitMoves == ASSUME TypeOK, LandingInv, RoundInv, PlacesInv, Submit PROVE Moves
<1>1. /\ pc = "submit" /\ UNCHANGED <<out, held, retry, pending, alerts, rounds, stack, settling, cur, at, fold>>
  BY DEF Submit, world, lists
<1>2. InRound /\ pc # "plan" /\ pc \notin Landing /\ Line = later /\ pc # "part"
  BY <1>1 DEF InRound, Queued, Landing, Line
<1>3. Grows /\ HeldPRs' = HeldPRs
  BY <1>1 DEF Grows, HeldPRs
<1>4. CASE stop
  <2>1. /\ requeue' = requeue \o (IF settling THEN Members(cur) ELSE later)
        /\ batch' = IF settling THEN batch ELSE <<>>
        /\ later' = IF settling THEN later ELSE <<>>
        /\ pc' = IF settling THEN "part" ELSE "drain"
        /\ families' = families
    BY <1>4 DEF Submit
  <2>2. /\ InRound' /\ pc' # "plan" /\ ~AtHand' /\ Line' = later'
    BY <1>1, <2>1 DEF InRound, Queued, AtHand, Landing, Line
  <2>3. CASE settling
    <3>1. AtHand /\ InHand = Members(cur)
      BY <1>1, <1>2, <2>3, WholeInHand DEF AtHand
    <3> QED BY <1>1, <1>2, <1>3, <2>1, <2>2, <2>3, <3>1, NotAtHand, Spread, Requeueing
  <2>4. CASE ~settling
    <3>1. LinedUp' /\ ToSet(later') = {} /\ IsInjective(later')
      BY <2>1, <2>4, NoneLined, NobodyListed
    <3>2. InHand = <<>> /\ ToSet(InHand) = {}
      BY <1>2, <2>4, NobodyListed DEF InHand, AtHand
    <3>3. later \in Seq(PR) /\ IsInjective(later)
      BY <1>2, Spread
    <3>4. requeue' = requeue \o later
      BY <2>1, <2>4
    <3> QED BY <1>1, <1>2, <1>3, <2>1, <2>2, <3>1, <3>2, <3>3, <3>4, NotAtHand, Requeueing
  <2> QED BY <2>3, <2>4
<1>5. CASE ~stop
  <2>1. /\ UNCHANGED <<requeue, batch, later>> /\ pc' = IF settling THEN "gate" ELSE "collect"
    BY <1>5 DEF Submit
  <2>2. StepsKept
    BY SubmitQuiet DEF Quiet, NoneLands, StepsKept
  <2>3. /\ InRound' /\ (pc' = "plan" <=> pc = "plan") /\ (pc = "part" <=> pc' = "part")
        /\ (pc' \in Landing <=> pc \in Landing) /\ (AtHand' <=> AtHand) /\ (AtHand => Ahead' = Ahead)
    BY <1>1, <2>1 DEF InRound, Queued, AtHand, Landing, Ahead
  <2>4. InHand' = InHand /\ Line' = Line
    BY <1>1, <2>1, <2>2, <2>3, SameHand, SameLine
  <2> QED BY <1>1, <1>2, <1>3, <2>1, <2>2, <2>3, <2>4, StandingStill
<1> QED BY <1>4, <1>5

\* While a round collects, the first family of it is what is served next.
LEMMA CollectingPlaces ==
  ASSUME TypeOK, RoundInv, PlacesInv, Collect
  PROVE  /\ pc = "collect" /\ InRound /\ batch # <<>> /\ ~settling /\ ~AtHand /\ batch[1] \in DOMAIN families
         /\ InHand = <<>> /\ ToSet(InHand) = {} /\ Line = later /\ LinedUp
         /\ Members(batch[1]) \in Seq(PR) /\ Behind \in Seq(PR) /\ later \in Seq(PR)
         /\ IsInjective(later) /\ IsInjective(Members(batch[1])) /\ IsInjective(Behind)
         /\ ToSet(later) = ToSet(Members(batch[1])) \union ToSet(Behind)
         /\ ToSet(Members(batch[1])) \cap ToSet(Behind) = {}
<1>1. pc = "collect"
  BY DEF Collect
<1>2. InRound /\ pc # "plan" /\ pc \notin Landing /\ Line = later /\ pc # "part"
  BY <1>1 DEF InRound, Queued, Landing, Line
<1>3. batch # <<>> /\ ~settling
  BY <1>1 DEF TypeOK, Pointers, RoundInv, InOrder
<1>4. ~AtHand /\ InHand = <<>>
  BY <1>2, <1>3 DEF AtHand, InHand
<1>5. LinedUp /\ IsInjective(later) /\ later \in Seq(PR)
  BY <1>2, <1>3, Spread DEF PlacesInv
<1>6. batch[1] \in DOMAIN families
  BY <1>3, BatchHead
<1> QED BY <1>1, <1>2, <1>3, <1>4, <1>5, <1>6, FirstLined, NobodyListed

\* The receipt names the members of a family that ended so.
LEMMA EndedBy ==
  ASSUME TypeOK, NEW f \in DOMAIN families, NEW s \in {"GATED_DRY", "RED_DRY", "TREE_MISMATCH"},
         families' = Setting(f, s)
  PROVE  ToSet(Members(f)) \subseteq Ended'
<1>1. families[f] \in Family
  BY BatchTyped
<1>2. f \in DOMAIN families' /\ families'[f].status = s /\ families'[f].steps = families[f].steps
  BY <1>1 DEF Setting, Family
<1>3. Members(f)' = Members(f)
  BY <1>2 DEF Members
<1> QED BY <1>2, <1>3 DEF Ended, MembersWith

\* A red family's only member is held, or its members are requeued or split in two (settle_red).
LEMMA SettleRedMoves ==
  ASSUME TypeOK, PlacesInv, InRound, InRound', pc # "plan", pc' # "plan",
         UNCHANGED <<fold, out, retry, pending, alerts, rounds>>,
         ~settling' /\ pc' # "part" => LinedUp',
         NEW f \in DOMAIN families, SettleRed(f), IsInjective(Members(f)), ~AtHand', IsInjective(Line'),
         ToSet(Members(f)) \cap ToSet(Line') = {},
         ToSet(InHand) \union ToSet(Line) = ToSet(Members(f)) \union ToSet(Line')
  PROVE  Moves
<1> DEFINE q == Members(f)
<1>1. q \in Seq(PR)
  BY MembersTyped DEF TypeOK
<1>2. InHand' = <<>> /\ ToSet(InHand') = {} /\ IsInjective(InHand')
  BY NotAtHand
<1>3. /\ stack \in Seq(Seq(PR)) /\ requeue \in Seq(PR) /\ Parted(stack) /\ IsInjective(requeue)
      /\ ToSet(InHand) \cap Parts(stack) = {} /\ ToSet(InHand) \cap ToSet(requeue) = {}
      /\ ToSet(Line) \cap Parts(stack) = {} /\ ToSet(Line) \cap ToSet(requeue) = {}
      /\ Parts(stack) \cap ToSet(requeue) = {}
      /\ Served = ToSet(InHand) \union ToSet(Line) \union Parts(stack)
      /\ Around = Served \union ToSet(requeue)
  BY Spread
<1>4. /\ ToSet(q) \cap Parts(stack) = {} /\ ToSet(q) \cap ToSet(requeue) = {}
      /\ ToSet(Line') \cap Parts(stack) = {} /\ ToSet(Line') \cap ToSet(requeue) = {}
  BY <1>3
<1>5. CASE Alone(f)
  <2>1. /\ HeldPRs' = HeldPRs \union {q[1]} /\ UNCHANGED <<stack, requeue>>
    <3> DEFINE x == [pr |-> q[1], reason |-> "GATE_RED", head |-> rows[q[1]].lanes, tree |-> FamilyTree(f)]
    <3>1. held' = held \union {x} /\ UNCHANGED <<stack, requeue>> /\ x.pr = q[1]
      BY <1>5 DEF SettleRed
    <3> HIDE DEF x
    <3> QED BY <3>1, OneMoreHeld
  <2>2. ToSet(q) = {q[1]}
    <3>1. Len(q) = 1
      BY <1>5 DEF Alone
    <3>2. \A i \in 1..1 : i = 1
      OBVIOUS
    <3> QED BY <1>1, <3>1, <3>2, ListedAt
  <2>3. Grows /\ q[1] \in Noted'
    BY <2>1 DEF Grows, Noted
  <2>4. /\ Parted(stack') /\ IsInjective(requeue') /\ Parts(stack') = Parts(stack)
        /\ ToSet(requeue') = ToSet(requeue)
    BY <1>3, <2>1
  <2>5. \A n \in HeldPRs' \ HeldPRs : n = q[1]
    BY <2>1
  <2>6. q[1] \in Served /\ q[1] \notin ToSet(Line') /\ q[1] \notin Parts(stack') /\ q[1] \notin ToSet(requeue')
    BY <1>3, <1>4, <2>2, <2>4
  <2>7. /\ ToSet(Line') \subseteq Served /\ Parts(stack') \subseteq Served /\ ToSet(requeue') \subseteq Around
        /\ Around \subseteq ToSet(InHand') \union ToSet(Line') \union Parts(stack') \union ToSet(requeue') \union Noted'
    BY <1>2, <1>3, <2>2, <2>3, <2>4
  <2>8. /\ ToSet(Line') \cap Parts(stack') = {} /\ ToSet(Line') \cap ToSet(requeue') = {}
        /\ Parts(stack') \cap ToSet(requeue') = {}
    BY <1>3, <1>4, <2>4
  <2> QED BY <1>2, <2>3, <2>4, <2>5, <2>6, <2>7, <2>8, Going
<1>6. CASE ~Alone(f)
  <2>1. held' = held
    BY <1>6 DEF SettleRed
  <2>2. Grows /\ HeldPRs' = HeldPRs
    BY <2>1 DEF Grows, HeldPRs
  <2>3. CASE stop
    <3>1. requeue' = requeue \o q /\ stack' = stack
      BY <1>6, <2>3 DEF SettleRed
    <3> QED BY <1>1, <1>2, <2>2, <3>1, Requeueing
  <2>4. CASE ~stop
    <3>1. PICK halves \in Splits(q) : stack' = halves \o stack
      BY <1>6, <2>4 DEF SettleRed
    <3>2. requeue' = requeue
      BY <1>6, <2>4 DEF SettleRed
    <3>3. Parted(stack') /\ Parts(stack') = ToSet(q) \union Parts(stack)
      <4>1. Parted(halves \o stack) /\ Parts(halves \o stack) = ToSet(q) \union Parts(stack)
        <5> HIDE DEF q
        <5>1. IsInjective(q)
          BY DEF q
        <5> QED BY <1>1, <1>3, <1>4, <3>1, <5>1, PartsSplit
      <4> QED BY <3>1, <4>1
    <3>4. IsInjective(requeue') /\ ToSet(requeue') = ToSet(requeue)
      BY <1>3, <3>2
    <3>5. /\ ToSet(Line') \subseteq Served /\ Parts(stack') \subseteq Served /\ ToSet(requeue') \subseteq Around
          /\ Around \subseteq ToSet(InHand') \union ToSet(Line') \union Parts(stack') \union ToSet(requeue') \union Noted'
      BY <1>2, <1>3, <3>3, <3>4
    <3>6. /\ ToSet(Line') \cap Parts(stack') = {} /\ ToSet(Line') \cap ToSet(requeue') = {}
          /\ Parts(stack') \cap ToSet(requeue') = {}
      BY <1>3, <1>4, <3>3, <3>4
    <3> QED BY <1>2, <2>2, <3>3, <3>4, <3>5, <3>6, Going
  <2> QED BY <2>3, <2>4
<1> QED BY <1>5, <1>6

\* A family's verdict serves its members: they are let go, in hand, held, or back in the queue.
LEMMA CollectMoves == ASSUME TypeOK, LandingInv, RoundInv, PlacesInv, Collect PROVE Moves
<1> DEFINE f == batch[1]
<1>1. /\ pc = "collect" /\ InRound /\ batch # <<>> /\ ~settling /\ ~AtHand /\ f \in DOMAIN families
      /\ InHand = <<>> /\ ToSet(InHand) = {} /\ Line = later /\ LinedUp
      /\ Members(f) \in Seq(PR) /\ Behind \in Seq(PR) /\ later \in Seq(PR)
      /\ IsInjective(later) /\ IsInjective(Members(f)) /\ IsInjective(Behind)
      /\ ToSet(later) = ToSet(Members(f)) \union ToSet(Behind)
      /\ ToSet(Members(f)) \cap ToSet(Behind) = {}
  BY CollectingPlaces
<1>2. UNCHANGED <<out, alerts, rounds, settling, fold>>
  BY DEF Collect, CollectStopped, CollectDry, CollectGreen, CollectUnread, CollectRed, ByCollect
<1>3. StepsKept
  BY CollectQuiet DEF Quiet, NoneLands, StepsKept
<1>5. held' = held => HeldPRs' = HeldPRs
  BY DEF HeldPRs
<1>6. CASE CollectStopped(f)
  <2>1. /\ requeue' = requeue \o later /\ batch' = <<>> /\ later' = <<>> /\ pc' = "drain"
        /\ UNCHANGED <<stack, held, retry, pending>>
    BY <1>6 DEF CollectStopped
  <2>2. InRound' /\ pc' # "plan" /\ ~AtHand' /\ Line' = <<>>
    BY <2>1 DEF InRound, Queued, AtHand, Landing, Line
  <2>3. LinedUp' /\ Grows
    BY <1>2, <1>5, <2>1, NoneLined DEF Grows
  <2> QED BY <1>1, <1>2, <1>5, <2>1, <2>2, <2>3, NotAtHand, NobodyListed, Requeueing
<1>7. CASE CollectDry(f)
  <2>1. /\ batch' = Tail(batch) /\ later' = Behind /\ pc' \in {"drain", "collect"}
        /\ UNCHANGED <<stack, requeue, held, retry, pending>>
    BY <1>7 DEF CollectDry
  <2>2. InRound' /\ pc' # "plan" /\ ~AtHand' /\ Line' = Behind
    BY <1>2, <1>1, <2>1 DEF InRound, Queued, AtHand, Landing, Line
  <2>3. LinedUp' /\ Grows
    BY <1>1, <1>2, <1>3, <1>5, <2>1, NextLined DEF Grows, StepsKept
  <2>4. ToSet(Members(f)) \subseteq Noted'
    <3>1. PICK s \in {"GATED_DRY", "RED_DRY"} : families' = Setting(f, s)
      BY <1>7 DEF CollectDry
    <3>2. ToSet(Members(f)) \subseteq Ended'
      BY <1>1, <3>1, EndedBy
    <3> QED BY <3>2 DEF Noted
  <2> QED BY <1>1, <1>2, <1>5, <2>1, <2>2, <2>3, <2>4, NotAtHand, NobodyListed, Passing
<1>8. CASE CollectGreen(f)
  <2>1. /\ cur' = f /\ at' = 1 /\ pc' = "land"
        /\ UNCHANGED <<families, batch, later, stack, requeue, held, retry, pending>>
    BY <1>8 DEF CollectGreen
  <2>2. InRound' /\ pc' # "plan" /\ Line' = Behind
    <3>1. Line' = Behind' /\ Behind' = Behind
      BY <1>1, <1>2, <2>1 DEF Line, Landing, Behind
    <3> QED BY <2>1, <3>1 DEF InRound, Queued
  <2>3. InHand' = Members(f)
    <3>1. AtHand' /\ Ahead' = 1 /\ Members(cur)' = Members(f)
      BY <2>1 DEF AtHand, Landing, Ahead, Members
    <3>2. From(Members(f), 1) = Members(f)
      BY <1>1, ListedAt, SubSeqFull DEF From
    <3> QED BY <3>1, <3>2 DEF InHand, Unserved
  <2>4. LinedUp' /\ Grows
    BY <1>1, <1>2, <1>3, <1>5, <2>1, StillLined DEF Grows, StepsKept
  <2> QED BY <1>1, <1>2, <1>5, <2>1, <2>2, <2>3, <2>4, Passing
<1>9. CASE CollectUnread(f)
  <2>1. /\ requeue' = requeue \o Behind /\ batch' = <<>> /\ later' = <<>> /\ pc' = "drain"
        /\ retry' = retry \union ToSet(Members(f)) /\ pending' = pending \union ToSet(Members(f))
        /\ UNCHANGED <<stack, held>>
    BY <1>9 DEF CollectUnread
  <2>2. InRound' /\ pc' # "plan" /\ ~AtHand' /\ Line' = <<>>
    BY <2>1 DEF InRound, Queued, AtHand, Landing, Line
  <2>3. LinedUp' /\ Grows
    BY <1>2, <1>5, <2>1, NoneLined DEF Grows
  <2>4. ToSet(Members(f)) \subseteq Noted'
    BY <2>1 DEF Noted
  <2> QED BY <1>1, <1>2, <1>5, <2>1, <2>2, <2>3, <2>4, NotAtHand, NobodyListed, Requeueing
<1>10. CASE CollectRed(f)
  <2>1. /\ batch' = <<>> /\ later' = Behind /\ pc' = "part" /\ SettleRed(f)
        /\ UNCHANGED <<retry, pending>>
    BY <1>10 DEF CollectRed
  <2>2. InRound' /\ pc' # "plan" /\ ~AtHand' /\ Line' = Behind
    BY <1>1, <1>2, <2>1 DEF InRound, Queued, AtHand, Landing, Line
  <2> QED BY <1>1, <1>2, <2>1, <2>2, SettleRedMoves
<1> QED BY <1>6, <1>7, <1>8, <1>9, <1>10 DEF Collect

\* Between two parts of a bisection nobody is in hand.
LEMMA PartingPlaces ==
  ASSUME TypeOK, PlacesInv, pc = "part"
  PROVE  /\ InRound /\ pc # "plan" /\ ~AtHand /\ InHand = <<>> /\ ToSet(InHand) = {} /\ Line = later
         /\ later \in Seq(PR) /\ IsInjective(later)
<1>1. InRound /\ pc # "plan" /\ ~AtHand /\ Line = later
  BY DEF InRound, Queued, AtHand, Landing, Line
<1>2. InHand = <<>>
  BY <1>1 DEF InHand
<1> QED BY <1>1, <1>2, Spread, NobodyListed

\* When no part is left, whoever was planned behind the red family is requeued.
LEMMA PartsDoneMoves == ASSUME TypeOK, RoundInv, PlacesInv, PartsDone PROVE Moves
<1>1. /\ pc = "part" /\ pc' = "drain" /\ requeue' = requeue \o later /\ later' = <<>> /\ ~settling'
      /\ UNCHANGED <<out, held, retry, pending, alerts, rounds, stack, batch, fold, families>>
  BY DEF PartsDone, world, lists
<1>2. batch = <<>>
  BY <1>1 DEF RoundInv, InOrder
<1>3. /\ InRound /\ pc # "plan" /\ InHand = <<>> /\ ToSet(InHand) = {} /\ Line = later
      /\ later \in Seq(PR) /\ IsInjective(later)
  BY <1>1, PartingPlaces
<1>4. InRound' /\ pc' # "plan" /\ ~AtHand' /\ Line' = <<>>
  BY <1>1 DEF InRound, Queued, AtHand, Landing, Line
<1>5. LinedUp' /\ Grows /\ HeldPRs' = HeldPRs
  BY <1>1, <1>2, NoneLined DEF Grows, HeldPRs
<1> QED BY <1>1, <1>3, <1>4, <1>5, NotAtHand, NobodyListed, Requeueing

\* The next part is folded, or requeued.
LEMMA PartMoves == ASSUME TypeOK, LandingInv, RoundInv, PlacesInv, Part PROVE Moves
<1> DEFINE q == Head(stack)
<1>1. /\ pc = "part" /\ stack # <<>> /\ stack' = Tail(stack)
      /\ UNCHANGED <<out, held, retry, pending, alerts, rounds, batch, later, families>>
      /\ \/ requeue' = requeue \o q /\ UNCHANGED <<fold, settling, pc>>
         \/ /\ requeue' = requeue /\ settling' /\ pc' = "plan"
            /\ fold'.steps = <<>> /\ fold'.todo = q /\ fold'.rest = <<>>
  <2>1. /\ pc = "part" /\ stack # <<>> /\ stack' = Tail(stack)
        /\ UNCHANGED <<out, held, retry, pending, alerts, rounds, batch, later, families>>
    BY DEF Part, lists
  <2>2. \/ requeue' = requeue \o q /\ UNCHANGED <<fold, settling, pc>>
        \/ /\ requeue' = requeue /\ settling' = TRUE /\ pc' = "plan"
           /\ fold' = [base |-> Tip, acc |-> BaseCommit(Tip), steps |-> <<>>, todo |-> Head(stack),
                    rest |-> <<>>, size |-> 1]
    BY DEF Part
  <2> QED BY <2>1, <2>2
<1>2. /\ InRound /\ pc # "plan" /\ InHand = <<>> /\ ToSet(InHand) = {} /\ Line = later
      /\ later \in Seq(PR) /\ IsInjective(later)
  BY <1>1, PartingPlaces
<1>3. /\ stack \in Seq(Seq(PR)) /\ requeue \in Seq(PR) /\ Parted(stack) /\ IsInjective(requeue)
      /\ ToSet(Line) \cap Parts(stack) = {} /\ ToSet(Line) \cap ToSet(requeue) = {}
      /\ Parts(stack) \cap ToSet(requeue) = {}
      /\ Served = ToSet(InHand) \union ToSet(Line) \union Parts(stack)
      /\ Around = Served \union ToSet(requeue)
  BY <1>2, Spread
<1>4. /\ q \in Seq(PR) /\ Parts(stack) = ToSet(q) \union Parts(Tail(stack))
      /\ IsInjective(q) /\ Parted(Tail(stack)) /\ ToSet(q) \cap Parts(Tail(stack)) = {}
  BY <1>1, <1>3, PartsHead
<1>5. Grows /\ HeldPRs' = HeldPRs
  BY <1>1 DEF Grows, HeldPRs
<1>6. Parted(stack') /\ Parts(stack') = Parts(Tail(stack))
  BY <1>1, <1>4
<1> HIDE DEF q
<1>7. CASE requeue' = requeue \o q /\ UNCHANGED <<fold, settling, pc>>
  <2>1. pc' = "part" /\ InRound' /\ pc' # "plan" /\ ~AtHand' /\ Line' = later
    BY <1>1, <1>7 DEF InRound, Queued, AtHand, Landing, Line
  <2>2. ToSet(q) \cap ToSet(requeue) = {}
    BY <1>3, <1>4
  <2>3. ToSet(requeue') = ToSet(requeue) \union ToSet(q) /\ IsInjective(requeue')
    BY <1>3, <1>4, <1>7, <2>2, ListsJoined
  <2>4. InHand' = <<>> /\ ToSet(InHand') = {} /\ IsInjective(InHand')
    BY <2>1, NotAtHand
  <2>5. /\ ToSet(Line') \subseteq Served /\ Parts(stack') \subseteq Served /\ ToSet(requeue') \subseteq Around
        /\ Around \subseteq ToSet(InHand') \union ToSet(Line') \union Parts(stack') \union ToSet(requeue') \union Noted'
    BY <1>2, <1>3, <1>4, <1>6, <2>1, <2>3
  <2>6. /\ ToSet(Line') \cap Parts(stack') = {} /\ ToSet(Line') \cap ToSet(requeue') = {}
        /\ Parts(stack') \cap ToSet(requeue') = {} /\ IsInjective(Line')
    BY <1>2, <1>3, <1>4, <1>6, <2>1, <2>3
  <2> QED BY <1>1, <1>2, <1>5, <1>6, <1>7, <2>1, <2>3, <2>4, <2>5, <2>6, Going
<1>8. CASE /\ requeue' = requeue /\ settling' /\ pc' = "plan"
           /\ fold'.steps = <<>> /\ fold'.todo = q /\ fold'.rest = <<>>
  <2>1. InRound' /\ ~AtHand' /\ Line' = later
    BY <1>1, <1>8 DEF InRound, Queued, AtHand, Landing, Line
  <2>2. InHand' = <<>> /\ ToSet(InHand') = {} /\ IsInjective(InHand')
    BY <2>1, NotAtHand
  <2>3. ToSet(Folded') = {} /\ IsInjective(Folded')
    BY <1>8, NoNumbers DEF Folded
  <2>4. Mine' = ToSet(q)
    BY <1>8, <2>2, <2>3, NobodyListed DEF Mine
  <2>5. FoldOnce'
    BY <1>4, <1>8, <2>3, NobodyListed DEF FoldOnce
  <2>6. OnePlace'
    <3>1. /\ IsInjective(Line') /\ ToSet(Line') = ToSet(Line) /\ IsInjective(requeue') /\ ToSet(requeue') = ToSet(requeue)
      BY <1>2, <1>3, <1>8, <2>1
    <3>2. /\ Mine' \cap ToSet(Line') = {} /\ Mine' \cap Parts(stack') = {} /\ Mine' \cap ToSet(requeue') = {}
          /\ ToSet(Line') \cap Parts(stack') = {} /\ ToSet(Line') \cap ToSet(requeue') = {}
          /\ Parts(stack') \cap ToSet(requeue') = {}
      BY <1>3, <1>4, <1>6, <2>4, <3>1
    <3> QED BY <1>6, <2>2, <3>1, <3>2 DEF OnePlace
  <2>7. Served' = Served /\ Around' = Around
    <3>1. Served' = ToSet(q) \union ToSet(Line) \union Parts(Tail(stack))
      BY <1>2, <1>6, <2>1, <2>4 DEF Served
    <3>2. Served' = Served
      BY <1>2, <1>3, <1>4, <3>1
    <3> QED BY <1>3, <1>8, <3>2 DEF Around
  <2> QED BY <1>2, <1>5, <1>8, <2>1, <2>5, <2>6, <2>7 DEF Moves
<1> QED BY <1>1, <1>7, <1>8

\* The verdict of a part serves the members in hand.
LEMMA PartGatedMoves == ASSUME TypeOK, LandingInv, RoundInv, PlacesInv, PartGated PROVE Moves
<1>1. /\ pc = "gate" /\ settling /\ cur \in DOMAIN families
      /\ UNCHANGED <<out, alerts, rounds, settling, fold, later, batch, cur, pending>>
  BY DEF PartGated, ByCollect, TypeOK, Pointers
<1>2. InRound /\ pc # "plan" /\ pc \notin Landing /\ Line = later /\ AtHand /\ pc # "part"
  BY <1>1 DEF InRound, Queued, AtHand, Landing, Line
<1>3. InHand = Members(cur)
  BY <1>2, WholeInHand
<1>4. /\ InHand \in Seq(PR) /\ IsInjective(InHand) /\ IsInjective(Line)
      /\ ToSet(InHand) \cap ToSet(Line) = {}
  BY <1>2, Spread
<1>5. (held' = held => HeldPRs' = HeldPRs) /\ StepsKept
  BY <1>1, PartsQuiet DEF HeldPRs, Quiet, NoneLands, StepsKept
<1>6. CASE /\ retry' = retry \union ToSet(Members(cur)) /\ pc' = "part"
           /\ UNCHANGED <<families, at, held, stack, requeue>>
  <2>1. InRound' /\ pc' # "plan" /\ ~AtHand' /\ Line' = later /\ pc' = "part"
    BY <1>1, <1>6 DEF InRound, Queued, AtHand, Landing, Line
  <2>2. Grows
    BY <1>1, <1>5, <1>6 DEF Grows
  <2>3. ToSet(Members(cur)) \subseteq Noted'
    BY <1>6 DEF Noted
  <2> QED BY <1>1, <1>2, <1>3, <1>4, <1>5, <1>6, <2>1, <2>2, <2>3, NotAtHand, Passing
<1>7. CASE /\ at' = 1 /\ pc' = "land" /\ UNCHANGED <<families, retry, held, stack, requeue>>
  <2>1. /\ InRound' /\ pc' # "plan" /\ AtHand' /\ Line' = later /\ pc' # "part" /\ Ahead' = 1
    BY <1>1, <1>7 DEF InRound, Queued, AtHand, Landing, Line, Ahead
  <2>2. InHand' = InHand
    <3>1. Members(cur)' = Members(cur)
      BY <1>1, <1>7 DEF Members
    <3>2. From(Members(cur), 1) = Members(cur)
      BY <1>3, <1>4, ListedAt, SubSeqFull DEF From
    <3> QED BY <1>3, <2>1, <3>1, <3>2 DEF InHand, Unserved
  <2>3. Grows
    BY <1>1, <1>5, <1>7 DEF Grows
  <2> QED BY <1>1, <1>2, <1>4, <1>5, <1>7, <2>1, <2>2, <2>3, Passing
<1>8. CASE SettleRed(cur) /\ pc' = "part" /\ UNCHANGED <<retry, at>>
  <2>1. InRound' /\ pc' # "plan" /\ ~AtHand' /\ Line' = later
    BY <1>1, <1>8 DEF InRound, Queued, AtHand, Landing, Line
  <2> QED BY <1>1, <1>2, <1>3, <1>4, <1>8, <2>1, SettleRedMoves
<1> QED BY <1>6, <1>7, <1>8 DEF PartGated

\* Only a merge adds to who was merged, and closes pull requests.
LEMMA NobodyMerged ==
  ASSUME TypeOK, [Next]_vars, ~Merge
  PROVE  Merged' = Merged /\ \A n \in PR : pulls'[n].open = pulls[n].open
<1>1. main' = main \/ OutsideCommit
  BY BaseSteps DEF vars, world
<1>2. pulls' = pulls \/ Push \/ Disturb
  <2>1. CASE StopEarly \/ Snapshot \/ Pairs \/ Round \/ PlanStep \/ PlanClose \/ Submit
    BY <2>1 DEF StopEarly, Snapshot, Pairs, Round, RunUnread, PlanStep, Untouched, PlanClose, Submit, world
  <2>2. CASE Collect \/ PartsDone \/ Part \/ PartGated \/ Cancel \/ Join
    BY <2>2 DEF Collect, CollectStopped, CollectDry, CollectGreen, CollectUnread, CollectRed, ByCollect,
       PartsDone, Part, PartGated, Cancel, Join, world
  <2>3. CASE Land
    BY <2>3 DEF Land, LandCheck, Decide, Reobserve, Await, Confirm, world
  <2>4. CASE \E f \in DOMAIN families : Gate(f)
    BY <2>4 DEF Gate, GateCancelled, GateReused, GateStart, GatePostponed, GateFinish, GateRecord, ByGate
  <2>5. CASE Finished \/ UNCHANGED vars
    BY <2>5 DEF Finished, vars, world
  <2> QED BY <2>1, <2>2, <2>3, <2>4, <2>5 DEF Next, Train
<1>3. pulls \in [PR -> [open : BOOLEAN, label : BOOLEAN, head : Commit]]
  BY DEF TypeOK, RemoteTyped
<1>4. ASSUME NEW n \in PR PROVE pulls'[n].open = pulls[n].open
  <2>1. CASE Push
    <3>1. pulls' = pulls \/ \E x : pulls' = [pulls EXCEPT ![N].head = x]
      BY <2>1 DEF Push
    <3> QED BY <1>3, <3>1
  <2>2. ASSUME NEW p \in PR, AuthorPush(p) PROVE pulls'[n].open = pulls[n].open
    <3>1. PICK x : pulls' = [pulls EXCEPT ![p].head.lanes = x]
      BY <2>2 DEF AuthorPush
    <3> QED BY <1>3, <3>1
  <2>3. ASSUME NEW p \in PR, HoldLabel(p) PROVE pulls'[n].open = pulls[n].open
    <3>1. pulls' = [pulls EXCEPT ![p].label = TRUE]
      BY <2>3 DEF HoldLabel
    <3> QED BY <1>3, <3>1
  <2> QED BY <1>2, <2>1, <2>2, <2>3 DEF Disturb, OutsideCommit, RequestStop
<1> QED BY <1>1, <1>4, NoneMerged

\* A landing that is left gives back whoever the receipt does not name, and in a round
\* everybody behind them.
LEMMA LeaveMoves ==
  ASSUME TypeOK, RoundInv, PlacesInv, pc \in Landing, NEW status, NEW back \in Seq(PR),
         Leave(status, back), UNCHANGED <<fold, stack, settling, held>>, Grows,
         IsInjective(back), ToSet(back) \subseteq ToSet(InHand), ToSet(InHand) \subseteq ToSet(back) \union Noted'
  PROVE  Moves
<1>1. InRound /\ pc # "plan" /\ HeldPRs' = HeldPRs
  BY DEF InRound, Queued, Landing, HeldPRs
<1>2. /\ InHand \in Seq(PR) /\ Line \in Seq(PR) /\ requeue \in Seq(PR) /\ IsInjective(Line)
      /\ ToSet(InHand) \cap ToSet(Line) = {}
  BY <1>1, Spread
<1>3. CASE settling
  <2>1. requeue' = requeue \o back /\ pc' = "part" /\ UNCHANGED <<batch, later>>
    BY <1>3 DEF Leave, Returned
  <2>2. InRound' /\ pc' # "plan" /\ ~AtHand' /\ Line' = Line
    BY <1>3, <2>1 DEF InRound, Queued, AtHand, Landing, Line
  <2> QED BY <1>1, <1>2, <2>1, <2>2, NotAtHand, Requeueing
<1>4. CASE ~settling
  <2>1. requeue' = (requeue \o back) \o Line /\ pc' = "drain" /\ batch' = <<>> /\ later' = <<>>
    BY <1>4 DEF Leave, Returned, Line
  <2>2. requeue' = requeue \o (back \o Line)
    BY <1>2, <2>1, ConcatAssociative
  <2>3. InRound' /\ pc' # "plan" /\ ~AtHand' /\ Line' = <<>>
    BY <2>1 DEF InRound, Queued, AtHand, Landing, Line
  <2>4. ToSet(back) \cap ToSet(Line) = {}
    BY <1>2
  <2>5. back \o Line \in Seq(PR) /\ ToSet(back \o Line) = ToSet(back) \union ToSet(Line) /\ IsInjective(back \o Line)
    BY <1>2, <2>4, ListsJoined, ConcatProperties
  <2>6. LinedUp'
    BY <2>1, NoneLined
  <2> DEFINE all == back \o Line
  <2>7. all \in Seq(PR) /\ ToSet(all) = ToSet(back) \union ToSet(Line) /\ IsInjective(all) /\ requeue' = requeue \o all
    BY <2>2, <2>5
  <2> HIDE DEF all
  <2> QED BY <1>1, <1>2, <2>3, <2>6, <2>7, NotAtHand, NobodyListed, Requeueing
<1> QED BY <1>3, <1>4

\* The members of the family that is landing, from the one at hand on.
LEMMA LandingPlaces ==
  ASSUME TypeOK, PlacesInv, pc \in Landing
  PROVE  /\ Rest \in Seq(PR) /\ Tail(Rest) \in Seq(PR) /\ N \in PR /\ at \in DOMAIN Members(cur)
         /\ Tail(Rest) = From(Members(cur), at + 1) /\ ToSet(Rest) = {N} \union ToSet(Tail(Rest))
         /\ pc # "confirm" => InHand = Rest
         /\ pc = "confirm" => InHand = Tail(Rest)
         /\ IsInjective(InHand) /\ InHand \in Seq(PR)
         /\ pc # "confirm" => IsInjective(Tail(Rest)) /\ N \notin ToSet(Tail(Rest))
<1>1. cur \in DOMAIN families /\ at \in DOMAIN families[cur].steps /\ N \in PR /\ Members(cur) \in Seq(PR)
  BY LandingPointers
<1>2. at \in DOMAIN Members(cur) /\ Members(cur)[at] = N
  BY <1>1 DEF Members, Numbers, N, Planned
<1>3. /\ From(Members(cur), at) \in Seq(PR) /\ From(Members(cur), at + 1) \in Seq(PR)
      /\ Tail(From(Members(cur), at)) = From(Members(cur), at + 1)
      /\ ToSet(From(Members(cur), at)) = {Members(cur)[at]} \union ToSet(From(Members(cur), at + 1))
      /\ IsInjective(From(Members(cur), at)) => /\ IsInjective(From(Members(cur), at + 1))
                                                /\ Members(cur)[at] \notin ToSet(From(Members(cur), at + 1))
  BY <1>1, <1>2, ListFrom
<1>4. AtHand /\ InRound /\ pc # "plan"
  BY DEF AtHand, InRound, Queued, Landing
<1>5. InHand = From(Members(cur), Ahead) /\ Ahead = IF pc = "confirm" THEN at + 1 ELSE at
  BY <1>4 DEF InHand, Unserved, Ahead
<1>6. IsInjective(InHand) /\ InHand \in Seq(PR)
  BY <1>4, Spread
<1> QED BY <1>1, <1>2, <1>3, <1>5, <1>6 DEF Rest

\* A landing that is left before its merge, by a read that failed, a hold label, or a head
\* or a base that moved: the member at hand is requeued, to be retried or pending.
LEMMA StopMoves ==
  ASSUME TypeOK, RoundInv, PlacesInv, pc \in Landing, pc # "confirm",
         UNCHANGED <<fold, stack, settling, held>>, Grows,
         \/ ReadFails \/ Withheld \/ Leave(StopStatus("REQUEUED"), Rest)
         \/ Leave(StopStatus("RETRY"), <<>>) /\ ToSet(Rest) \subseteq pending'
  PROVE  Moves
<1>1. /\ Rest \in Seq(PR) /\ Tail(Rest) \in Seq(PR) /\ ToSet(Rest) = {N} \union ToSet(Tail(Rest))
      /\ InHand = Rest /\ IsInjective(Rest) /\ IsInjective(Tail(Rest))
  BY LandingPlaces
<1>2. CASE ReadFails \/ Leave(StopStatus("REQUEUED"), Rest)
  <2>1. \E s : Leave(s, Rest)
    BY <1>2 DEF ReadFails
  <2> QED BY <1>1, <2>1, LeaveMoves
<1>3. CASE Withheld
  <2>1. \E s : Leave(s, Tail(Rest))
    BY <1>3 DEF Withheld
  <2>2. N \in Noted'
    BY <1>3 DEF Withheld, Noted
  <2> QED BY <1>1, <2>1, <2>2, LeaveMoves
<1>4. CASE Leave(StopStatus("RETRY"), <<>>) /\ ToSet(Rest) \subseteq pending'
  <2>1. ToSet(Rest) \subseteq Noted'
    BY <1>4 DEF Noted
  <2>2. <<>> \in Seq(PR) /\ IsInjective(<<>>) /\ ToSet(<<>>) = {}
    BY EmptySeq, NobodyListed
  <2> QED BY <1>1, <1>4, <2>1, <2>2, LeaveMoves
<1> QED BY <1>2, <1>3, <1>4

\* Every step of a landing before its merge.
LEMMA LandingMoves ==
  ASSUME TypeOK, RoundInv, PlacesInv, LandCheck \/ Decide \/ Reobserve \/ Push \/ Await
  PROVE  Moves
<1>1. /\ UNCHANGED <<fold, stack, settling, cur, at, held, out, rounds, alerts>> /\ pc \in Landing \ {"confirm", "merge"}
      /\ \/ /\ ReadFails \/ Withheld \/ Leave(StopStatus("REQUEUED"), Rest)
            /\ pending' = pending /\ retry \subseteq retry'
         \/ Leave(StopStatus("RETRY"), <<>>) /\ pending' = pending \union ToSet(Rest) /\ retry \subseteq retry'
         \/ /\ pc' \in {"decide", "push", "recheck", "reread", "await", "merge"}
            /\ UNCHANGED <<families, batch, requeue, later, retry, pending>>
  BY DEF LandCheck, Decide, Reobserve, Push, Await, ByLanding, Landing, ReadFails, Withheld
<1>2. Grows /\ HeldPRs' = HeldPRs
  BY <1>1 DEF Grows, HeldPRs
<1>3. CASE \/ ReadFails \/ Withheld \/ Leave(StopStatus("REQUEUED"), Rest)
           \/ Leave(StopStatus("RETRY"), <<>>) /\ pending' = pending \union ToSet(Rest)
  BY <1>1, <1>2, <1>3, StopMoves
<1>4. CASE /\ pc' \in {"decide", "push", "recheck", "reread", "await", "merge"}
           /\ UNCHANGED <<families, batch, requeue, later, retry, pending>>
  <2>1. /\ InRound /\ InRound' /\ pc # "plan" /\ pc' # "plan" /\ pc # "part" /\ pc' # "part"
        /\ AtHand /\ AtHand' /\ pc' \in Landing /\ Ahead = at /\ Ahead' = at
    BY <1>1, <1>4 DEF InRound, Queued, AtHand, Landing, Ahead
  <2>2. StepsKept
    BY <1>4 DEF StepsKept
  <2>3. InHand' = InHand /\ Line' = Line
    BY <1>1, <1>4, <2>1, <2>2, SameHand, SameLine
  <2> QED BY <1>1, <1>2, <1>4, <2>1, <2>2, <2>3, StandingStill
<1> QED BY <1>1, <1>3, <1>4

\* What has not started is cancelled, and nobody moves.
LEMMA CancelMoves == ASSUME TypeOK, LandingInv, PlacesInv, Cancel PROVE Moves
<1>1. /\ pc = "drain" /\ pc' = "join"
      /\ UNCHANGED <<out, held, retry, pending, alerts, rounds, stack, requeue, later, batch, settling, cur, at, fold>>
  BY DEF Cancel, thread, lists
<1>2. /\ InRound /\ InRound' /\ ~AtHand /\ ~AtHand' /\ pc \notin Landing /\ pc' \notin Landing
  BY <1>1 DEF InRound, Queued, AtHand, Landing
<1>3. StepsKept
  BY PartsQuiet DEF Quiet, NoneLands, StepsKept
<1>4. InHand' = InHand /\ Line' = Line
  BY <1>1, <1>2, <1>3, SameHand, SameLine
<1>5. Grows /\ HeldPRs' = HeldPRs
  BY <1>1 DEF Grows, HeldPRs
<1> QED BY <1>1, <1>2, <1>3, <1>4, <1>5, StandingStill

\* Reading the merged tree back: the next member is at hand, the family is done with, or it
\* is left.
LEMMA ConfirmMoves == ASSUME TypeOK, LandingInv, RoundInv, PlacesInv, Confirm PROVE Moves
<1>1. /\ pc = "confirm" /\ pc \in Landing /\ UNCHANGED <<fold, stack, settling, cur, held, out, rounds, pending>>
      /\ retry \subseteq retry' /\ alerts \subseteq alerts'
  BY DEF Confirm, ByLanding, Landing
<1>2. Grows /\ HeldPRs' = HeldPRs
  BY <1>1 DEF Grows, HeldPRs
<1>3. /\ Tail(Rest) \in Seq(PR) /\ InHand = Tail(Rest) /\ Tail(Rest) = From(Members(cur), at + 1)
      /\ IsInjective(InHand) /\ at \in DOMAIN Members(cur)
  BY <1>1, LandingPlaces
<1>4. /\ cur \in DOMAIN families /\ Members(cur) \in Seq(PR) /\ (~settling => batch # <<>> /\ batch[1] = cur)
      /\ at \in Nat \ {0} /\ Len(families[cur].steps) \in Nat /\ DOMAIN Members(cur) = DOMAIN families[cur].steps
      /\ at \in DOMAIN families[cur].steps /\ DOMAIN families[cur].steps = 1..Len(families[cur].steps)
  <2>1. families[cur].steps \in Seq(Step)
    BY <1>1, LandingPointers, MembersTyped DEF TypeOK
  <2> QED BY <1>1, <2>1, LandingPointers, LenProperties DEF Members, Numbers
<1>5. CASE Leave("LANDED_TREE_UNREAD", Tail(Rest))
  BY <1>1, <1>2, <1>3, <1>5, LeaveMoves
<1>6. CASE Leave("TREE_MISMATCH", <<>>)
  <2>1. ToSet(Members(cur)) \subseteq Ended'
    BY <1>4, <1>6, EndedBy DEF Leave
  <2>2. ToSet(Tail(Rest)) \subseteq ToSet(Members(cur))
    <3>1. at \in Nat
      BY <1>4
    <3>2. ToSet(Members(cur)) = ToSet(Upto(Members(cur), at)) \union ToSet(From(Members(cur), at + 1))
      BY <1>4, <3>1, ListChunk
    <3> QED BY <1>3, <3>2
  <2>3. ToSet(InHand) \subseteq Noted'
    BY <1>3, <2>1, <2>2 DEF Noted
  <2>4. <<>> \in Seq(PR) /\ IsInjective(<<>>) /\ ToSet(<<>>) = {}
    BY EmptySeq, NobodyListed
  <2> QED BY <1>1, <1>2, <1>6, <2>3, <2>4, LeaveMoves
<1>7. InRound /\ pc # "plan" /\ AtHand /\ Ahead = at + 1
  BY <1>1 DEF InRound, Queued, AtHand, Landing, Ahead
<1>8. IsInjective(Line) /\ Line \in Seq(PR) /\ ToSet(InHand) \cap ToSet(Line) = {}
  BY <1>7, Spread
<1>9. CASE /\ at < Len(families[cur].steps) /\ UNCHANGED requeue
           /\ at' = at + 1 /\ pc' = "land" /\ UNCHANGED <<families, batch, later>>
  <2>1. InRound' /\ pc' # "plan" /\ AtHand' /\ Ahead' = at + 1 /\ pc' \in Landing /\ pc' # "part"
    BY <1>9 DEF InRound, Queued, AtHand, Landing, Ahead
  <2>2. StepsKept
    BY <1>9 DEF StepsKept
  <2>3. InHand' = InHand /\ Line' = Line
    BY <1>1, <1>7, <1>9, <2>1, <2>2, SameHand, SameLine
  <2> QED BY <1>1, <1>2, <1>7, <1>9, <2>1, <2>2, <2>3, StandingStill
<1>10. CASE /\ ~(at < Len(families[cur].steps)) /\ UNCHANGED requeue
            /\ families' = [families EXCEPT ![cur].status = "LANDED", ![cur].landed = merges[Len(merges)].sha]
            /\ batch' = IF settling THEN batch ELSE Tail(batch)
            /\ later' = IF settling THEN later ELSE Behind
            /\ pc' = IF settling THEN "part" ELSE IF Tail(batch) = <<>> THEN "drain" ELSE "collect"
  <2>1. InRound' /\ pc' # "plan" /\ ~AtHand' /\ pc' \notin Landing
    BY <1>1, <1>10 DEF InRound, Queued, AtHand, Landing
  <2>2. ToSet(InHand) = {}
    <3>1. at = Len(families[cur].steps) /\ Len(Members(cur)) = Len(families[cur].steps)
      BY <1>4, <1>10, LenProperties
    <3>2. at \in Nat /\ at <= Len(Members(cur)) /\ Len(Members(cur)) - at = 0
      BY <1>4, <3>1
    <3>3. Len(From(Members(cur), at + 1)) = Len(Members(cur)) - at
      BY <1>4, <3>2, ListBehind
    <3>4. InHand = <<>>
      BY <1>3, <3>2, <3>3, EmptySeq
    <3> QED BY <3>4, NobodyListed
  <2>3. Line' = Line
    BY <1>1, <1>10, <2>1 DEF Line
  <2>4. LinedUp' \/ settling'
    <3> SUFFICES ASSUME ~settling PROVE LinedUp'
      BY <1>1
    <3>1. LinedUp
      BY <1>1 DEF PlacesInv
    <3>2. \A f \in DOMAIN families : f \in DOMAIN families' /\ families'[f].steps = families[f].steps
      BY <1>4, <1>10, BatchTyped DEF Family
    <3> QED BY <1>4, <1>10, <3>1, <3>2, NextLined
  <2> QED BY <1>1, <1>2, <1>7, <1>8, <1>10, <2>1, <2>2, <2>3, <2>4, NotAtHand, Passing
<1> QED BY <1>5, <1>6, <1>9, <1>10 DEF Confirm

\* A merge takes the member at hand off the round, or an answer is lost and it is requeued
\* though it is closed.
LEMMA MergeMoves ==
  ASSUME TypeOK, RoundInv, PlacesInv, Merge
  PROVE  /\ Moves /\ HeldPRs' = HeldPRs /\ Merged \subseteq Merged'
         /\ Merged' \ Merged \subseteq Served \ Served'
         /\ \A n \in PR : pulls'[n].open => pulls[n].open /\ n \notin Merged' \ Merged
<1> DEFINE row == [tree |-> main[Tip].tree \union pulls[N].head.lanes, by |-> N]
<1>1. /\ pc = "merge" /\ pc \in Landing /\ UNCHANGED <<fold, stack, settling, cur, at, held, out, rounds, pending, alerts>>
      /\ retry \subseteq retry'
  BY DEF Merge, ByLanding, Landing, ReadFails
<1>2. Grows /\ HeldPRs' = HeldPRs
  BY <1>1 DEF Grows, HeldPRs
<1>3. /\ Rest \in Seq(PR) /\ Tail(Rest) \in Seq(PR) /\ N \in PR /\ Tail(Rest) = From(Members(cur), at + 1)
      /\ InHand = Rest /\ ToSet(Rest) = {N} \union ToSet(Tail(Rest))
      /\ IsInjective(Rest) /\ IsInjective(Tail(Rest)) /\ N \notin ToSet(Tail(Rest))
  BY <1>1, LandingPlaces
<1>4. InRound /\ pc # "plan"
  BY <1>1 DEF InRound, Queued, Landing
<1>5. /\ ToSet(InHand) \cap ToSet(Line) = {} /\ ToSet(InHand) \cap Parts(stack) = {}
      /\ Served = ToSet(InHand) \union ToSet(Line) \union Parts(stack) /\ IsInjective(Line)
  BY <1>4, Spread
<1>6. pulls \in [PR -> [open : BOOLEAN, label : BOOLEAN, head : Commit]]
  BY DEF TypeOK, RemoteTyped
<1>7. /\ main \in Seq(BaseRow) /\ row \in BaseRow /\ row.by = N /\ N # 0
  <2>1. main[Tip] \in BaseRow /\ pulls[N].head \in Commit
    BY <1>3, TipTyped, MainIndex, HeadsTyped DEF TypeOK
  <2>2. row \in BaseRow
    BY <1>3, <2>1 DEF BaseRow, Commit, Tree
  <2> QED BY <1>3, <2>2, PRAssumption DEF TypeOK, RemoteTyped
<1> HIDE DEF row
<1>8. main' = Append(main, row) => Merged' = Merged \union {N}
  <2> SUFFICES ASSUME main' = Append(main, row) PROVE Merged' = Merged \union {N}
    OBVIOUS
  <2>1. Grown /\ DOMAIN main' = DOMAIN main \union {Tip + 1} /\ main'[Tip + 1] = row
    BY <1>7, Appended
  <2> QED BY <1>7, <2>1 DEF Merged, Grown
<1>9. CASE /\ main' = Append(main, row) /\ pulls' = [pulls EXCEPT ![N].open = FALSE] /\ pc' = "confirm"
           /\ UNCHANGED <<families, requeue, batch, later, retry>>
  <2>1. InRound' /\ pc' # "plan" /\ AtHand' /\ Ahead' = at + 1 /\ pc' \in Landing /\ pc' # "part" /\ pc # "part"
    BY <1>1, <1>9 DEF InRound, Queued, AtHand, Landing, Ahead
  <2>2. StepsKept
    BY <1>9 DEF StepsKept
  <2>3. Line' = Line
    BY <1>1, <1>9, <2>1, <2>2, SameLine
  <2>4. InHand' = Tail(Rest)
    <3>1. Members(cur)' = Members(cur)
      BY <1>1, <1>9 DEF Members
    <3> QED BY <1>3, <2>1, <3>1 DEF InHand, Unserved
  <2>5. Merged' = Merged \union {N} /\ N \in Noted'
    BY <1>8, <1>9 DEF Noted
  <2>6. ~settling' /\ pc' # "part" => LinedUp'
    BY <1>1, <1>9, <2>1, <2>2, StillLined DEF PlacesInv, StepsKept
  <2>7. Moves
    BY <1>1, <1>2, <1>3, <1>4, <1>5, <1>9, <2>1, <2>3, <2>4, <2>5, <2>6, Passing
  <2>8. N \in Served /\ N \notin Served'
    <3>1. Mine' = ToSet(InHand')
      BY <1>1, <1>4, <2>1, StillNotFolding DEF PlacesInv
    <3>2. Served' = ToSet(Tail(Rest)) \union ToSet(Line) \union Parts(stack)
      BY <1>1, <2>3, <2>4, <3>1 DEF Served
    <3> QED BY <1>3, <1>5, <3>2
  <2>9. \A n \in PR : pulls'[n].open => pulls[n].open /\ n # N
    BY <1>3, <1>6, <1>9
  <2> QED BY <1>2, <2>5, <2>7, <2>8, <2>9
<1>10. CASE /\ ReadFails
            /\ \/ main' = Append(main, row) /\ pulls' = [pulls EXCEPT ![N].open = FALSE]
               \/ UNCHANGED <<main, pulls>>
  <2>1. Moves
    BY <1>1, <1>2, <1>10, StopMoves
  <2>2. N \in Served /\ N \notin Served'
    <3>1. pc' \in {"part", "drain"} /\ (~settling => later' = <<>>) /\ (settling => later' = later)
      BY <1>10 DEF ReadFails, Leave
    <3>2. pc' # "plan" /\ ~AtHand' /\ Line' = later'
      BY <1>1, <3>1 DEF AtHand, Landing, Line
    <3>3. Mine' = ToSet(InHand') /\ ToSet(InHand') = {}
      BY <1>1, <1>4, <3>2, StillNotFolding, NotAtHand DEF PlacesInv
    <3>4. Served' = ToSet(Line') \union Parts(stack)
      BY <1>1, <3>3 DEF Served
    <3>5. ToSet(Line') \subseteq ToSet(Line)
      <4>1. settling => Line' = Line
        BY <3>1, <3>2 DEF Line
      <4>2. ~settling => ToSet(Line') = {}
        BY <3>1, <3>2, NobodyListed
      <4> QED BY <4>1, <4>2
    <3> QED BY <1>3, <1>5, <3>4, <3>5
  <2>3. CASE main' = Append(main, row) /\ pulls' = [pulls EXCEPT ![N].open = FALSE]
    <3>1. \A n \in PR : pulls'[n].open => pulls[n].open /\ n # N
      BY <1>3, <1>6, <2>3
    <3> QED BY <1>2, <1>8, <2>1, <2>2, <2>3, <3>1
  <2>4. CASE UNCHANGED <<main, pulls>>
    <3>1. Merged' = Merged
      BY <2>4 DEF Merged
    <3> QED BY <1>2, <2>1, <2>4, <3>1
  <2> QED BY <1>10, <2>3, <2>4
<1> QED BY <1>9, <1>10 DEF Merge, row

\* A step of a round keeps everybody in one place, and who is held and who is merged apart.
LEMMA MovesKeep ==
  ASSUME TypeOK, TypeOK', PlacesInv, Moves, HeldPRs' = HeldPRs \/ Merged' = Merged, Merged \subseteq Merged',
         Merged' \ Merged \subseteq Served \ Served',
         \A n \in PR : pulls'[n].open => pulls[n].open /\ n \notin Merged' \ Merged
  PROVE  PlacesInv'
<1>1. /\ InRound /\ InRound' /\ HeldAside /\ MergedGone /\ rounds' = rounds
      /\ HeldPRs' \subseteq HeldPRs \union (Served \ Around') /\ Served' \subseteq Served /\ Around' \subseteq Around
  BY DEF Moves, PlacesInv, Grows
<1>2. /\ Active = Around /\ Serves = Served /\ Active' = Around' /\ Serves' = Served'
  BY <1>1 DEF InRound, Queued, Active, Serves
<1>3. HeldPRs' \cap Active' = {}
  BY <1>1, <1>2 DEF HeldAside
<1>4. HeldPRs' \cap Merged' = {}
  <2>1. Served \subseteq Around /\ HeldPRs \cap Served = {}
    BY <1>1, <1>2 DEF HeldAside, Around
  <2>2. HeldPRs \cap Merged = {} /\ Served \cap Merged = {}
    BY <1>1, <1>2 DEF HeldAside, MergedGone
  <2>3. CASE HeldPRs' = HeldPRs
    BY <2>1, <2>2, <2>3
  <2>4. CASE Merged' = Merged
    BY <1>1, <2>2, <2>4
  <2> QED BY <2>3, <2>4
<1>5. Serves' \cap Merged' = {}
  BY <1>1, <1>2 DEF MergedGone
<1>6. \A n \in Merged' : n \in PR => ~pulls'[n].open
  BY <1>1 DEF MergedGone
<1>7. rounds' > 0
  BY <1>1 DEF PlacesInv, InRound, Queued
<1>8. QueueOnce'
  BY <1>1 DEF QueueOnce, InRound, Queued
<1> QED BY <1>3, <1>4, <1>5, <1>6, <1>7, <1>8 DEF Moves, PlacesInv, HeldAside, MergedGone

---------------------------------------------------------------------------
(* Steps between two rounds.                                               *)

\* A step that ends a round, or comes between two, with fewer to be served.
LEMMA RestingPlaces ==
  ASSUME TypeOK, TypeOK', PlacesInv, pc \notin {"plan", "part"}, pc' # "plan", ~InRound',
         UNCHANGED <<fold, batch, later, settling, families, held, Merged>>,
         \A n \in PR : pulls'[n].open = pulls[n].open,
         pc' = "round" => rounds' > 0, QueueOnce', Active' \subseteq Active, Serves' \cap Merged = {}
  PROVE  PlacesInv'
<1>1. FoldOnce'
  <2>1. Folded' = Folded
    BY DEF Folded
  <2> QED BY <2>1 DEF PlacesInv, FoldOnce
<1>2. LinedUp' \/ settling'
  BY StillLined DEF PlacesInv
<1>3. HeldPRs' = HeldPRs
  BY DEF HeldPRs
<1>4. HeldAside'
  BY <1>3 DEF PlacesInv, HeldAside
<1>5. MergedGone'
  BY DEF PlacesInv, MergedGone
<1>6. pc' \notin {"snapshot", "pairs", "done"} => pc' = "round"
  BY DEF InRound, Queued
<1> QED BY <1>1, <1>2, <1>4, <1>5, <1>6 DEF PlacesInv

\* Those of the queue that are still open are as much apart as all of it.
LEMMA StillOpenApart ==
  ASSUME TypeOK, NEW present \in Seq(PR), StillOpen(present)
  PROVE  /\ ToSet(present) = {n \in ToSet(queue) : pulls[n].open}
         /\ IsInjective(queue) => IsInjective(present)
<1>1. queue \in Seq(PR) /\ DOMAIN queue = 1..Len(queue) /\ DOMAIN present = 1..Len(present)
      /\ Len(queue) \in Nat /\ Len(present) \in Nat
  BY LenProperties DEF TypeOK, ThreadTyped
<1>2. PICK kept \in [DOMAIN present -> DOMAIN queue] :
           /\ \A i, j \in DOMAIN present : i < j => kept[i] < kept[j]
           /\ {kept[i] : i \in DOMAIN present} = {k \in DOMAIN queue : pulls[queue[k]].open}
           /\ \A i \in DOMAIN present : present[i] = queue[kept[i]]
  BY DEF StillOpen
<1>3. ASSUME NEW n \in ToSet(present) PROVE n \in ToSet(queue) /\ pulls[n].open
  <2>1. PICK i \in DOMAIN present : n = present[i]
    BY DEF ToSet
  <2>2. kept[i] \in DOMAIN queue /\ pulls[queue[kept[i]]].open /\ n = queue[kept[i]]
    BY <1>2, <2>1
  <2> QED BY <2>2 DEF ToSet
<1>4. ASSUME NEW n \in ToSet(queue), pulls[n].open PROVE n \in ToSet(present)
  <2>1. PICK k \in DOMAIN queue : n = queue[k]
    BY DEF ToSet
  <2>2. PICK i \in DOMAIN present : k = kept[i]
    BY <1>2, <1>4, <2>1
  <2> QED BY <1>2, <2>1, <2>2 DEF ToSet
<1>5. ASSUME IsInjective(queue), NEW i \in DOMAIN present, NEW j \in DOMAIN present, present[i] = present[j]
      PROVE  i = j
  <2>1. kept[i] = kept[j] /\ kept[i] \in 1..Len(queue)
    BY <1>1, <1>2, <1>5 DEF IsInjective
  <2>2. ~(i < j) /\ ~(j < i)
    <3>1. ~(kept[i] < kept[j]) /\ ~(kept[j] < kept[i])
      BY <2>1
    <3> QED BY <1>2, <3>1
  <2> QED BY <1>1, <2>2
<1> QED BY <1>3, <1>4, <1>5 DEF IsInjective

\* A sorted listing names nobody twice.
LEMMA SortedApart ==
  ASSUME NEW line \in Seq(PR), NEW S, IsSortedListing(line, S)
  PROVE  ToSet(line) = S /\ IsInjective(line)
<1>1. DOMAIN line = 1..Len(line) /\ Len(line) \in Nat /\ \A i \in 1..Len(line) : line[i] \in Nat
  BY LenProperties, ElementOfSeq, PRAssumption
<1>2. ASSUME NEW i \in DOMAIN line, NEW j \in DOMAIN line, line[i] = line[j] PROVE i = j
  <2>1. i < j => line[i] < line[j]
    BY DEF IsSortedListing
  <2>2. j < i => line[j] < line[i]
    BY DEF IsSortedListing
  <2>3. ~(line[i] < line[j]) /\ ~(line[j] < line[i])
    BY <1>1, <1>2
  <2> QED BY <1>1, <2>1, <2>2, <2>3
<1> QED BY <1>2 DEF IsSortedListing, IsInjective

\* The snapshot keeps who is open, in the order of the queue.
LEMMA SnapshotPlaces == ASSUME TypeOK, TypeOK', PlacesInv, Snapshot, Merged' = Merged PROVE PlacesInv'
<1>1. pc = "snapshot" /\ Active = ToSet(queue)
  BY DEF Snapshot, Active, Queued
<1>2. CASE RunUnread
  <2>1. pc' = "done" /\ UNCHANGED <<pulls, fold, batch, later, settling, families, held>>
    BY <1>2 DEF RunUnread, thread
  <2>2. ~InRound' /\ QueueOnce' /\ Active' = {} /\ Serves' = {}
    BY <2>1 DEF InRound, Queued, QueueOnce, Active, Serves
  <2> QED BY <1>1, <2>1, <2>2, RestingPlaces
<1>3. CASE ~RunUnread
  <2>1. PICK present \in Listings(Len(queue)) : StillOpen(present) /\ queue' = present
    BY <1>3 DEF Snapshot
  <2>2. /\ pc' = IF rounds = 0 THEN "pairs" ELSE "round"
        /\ UNCHANGED <<pulls, rounds, fold, batch, later, settling, families, held>>
    BY <1>3 DEF Snapshot, world
  <2>3. present \in Seq(PR)
    BY <2>1 DEF TypeOK, ThreadTyped
  <2>4. /\ ToSet(present) = {n \in ToSet(queue) : pulls[n].open} /\ ToSet(present) \subseteq PR
        /\ IsInjective(queue) => IsInjective(present)
    BY <2>1, <2>3, StillOpenApart, ToSetTyped
  <2>5. ~InRound' /\ Active' = ToSet(present) /\ Serves' = ToSet(present)
    BY <2>1, <2>2 DEF InRound, Queued, Active, Serves
  <2>6. ToSet(present) \cap Merged = {}
    BY <2>4 DEF PlacesInv, MergedGone
  <2>7. rounds \in Nat
    BY DEF TypeOK, ThreadTyped
  <2>8. QueueOnce' /\ (pc' = "round" => rounds' > 0)
    BY <1>1, <2>1, <2>2, <2>4, <2>7 DEF PlacesInv, QueueOnce
  <2>9. Active' \subseteq Active
    BY <1>1, <2>4, <2>5
  <2> QED BY <1>1, <2>2, <2>5, <2>6, <2>8, <2>9, RestingPlaces
<1> QED BY <1>2, <1>3

\* What is served next, if anything is (the head of run's loop).
LEMMA ContinuePlaces ==
  ASSUME TypeOK, NEW q \in Seq(PR), Continue(q), IsInjective(q)
  PROVE  /\ ~InRound' /\ QueueOnce' /\ (pc' = "round" => rounds' > 0) /\ pc' # "plan"
         /\ Active' \subseteq ToSet(q) /\ ToSet(q) \subseteq Active' \union pending'
         /\ Serves' = {} \/ (rounds = 0 /\ Serves' = ToSet(q))
         /\ pending \subseteq pending'
<1>1. rounds \in Nat
  BY DEF TypeOK, ThreadTyped
<1>2. CASE pc' = "done" /\ pending' = pending \union ToSet(q)
  BY <1>2 DEF InRound, Queued, QueueOnce, Active, Serves
<1>3. CASE queue' = q /\ rounds' = rounds + 1 /\ pc' = IF rounds = 0 THEN "round" ELSE "snapshot"
  <2>1. rounds' > 0
    BY <1>1, <1>3
  <2>2. pc' \in {"round", "snapshot"}
    BY <1>3
  <2>3. ~InRound' /\ Active' = ToSet(q) /\ QueueOnce'
    BY <1>3, <2>2 DEF InRound, Queued, Active, QueueOnce
  <2>4. Serves' = IF pc' = "round" THEN ToSet(q) ELSE {}
    BY <1>3, <2>2, <2>3 DEF Serves
  <2>5. pending \subseteq pending'
    BY <1>3 DEF Continue
  <2> QED BY <1>3, <2>1, <2>2, <2>3, <2>4, <2>5
<1> QED BY <1>2, <1>3 DEF Continue

\* The pairwise read keeps a family of the queue, the others are out of this run.
LEMMA PairsPlaces == ASSUME TypeOK, TypeOK', PlacesInv, Pairs, Merged' = Merged PROVE PlacesInv'
<1>1. /\ pc = "pairs" /\ UNCHANGED <<pulls, fold, batch, later, settling, families, held>>
  BY DEF Pairs
<1>2. PICK edges : Choose(edges)
  BY DEF Pairs
<1>3. PICK chosen \in SUBSET PR, line \in Queues :
           IsMaximumFamily(chosen, ToSet(queue), edges) /\ IsSortedListing(line, chosen) /\ Continue(line)
  BY <1>2 DEF Choose
<1>4. line \in Seq(PR) /\ ToSet(line) = chosen /\ IsInjective(line)
  BY <1>3, QueuesTyped, SortedApart
<1>5. chosen \subseteq ToSet(queue)
  BY <1>3 DEF IsMaximumFamily
<1>6. Active = ToSet(queue) /\ Serves = ToSet(queue)
  BY <1>1 DEF Active, Serves, Queued
<1>7. Serves' \cap Merged = {}
  BY <1>3, <1>4, <1>5, <1>6, ContinuePlaces DEF PlacesInv, MergedGone
<1> QED BY <1>1, <1>3, <1>4, <1>5, <1>6, <1>7, ContinuePlaces, RestingPlaces

\* A step that ends the run leaves nobody to be served.
LEMMA EndingPlaces ==
  ASSUME TypeOK, TypeOK', PlacesInv, Queued, pc' = "done", Merged' = Merged,
         UNCHANGED <<pulls, fold, batch, later, settling, families, held>>
  PROVE  PlacesInv'
<1>1. ~InRound' /\ QueueOnce' /\ Active' = {} /\ Serves' = {}
  BY DEF InRound, Queued, QueueOnce, Active, Serves
<1>2. pc \notin {"plan", "part"}
  BY DEF Queued
<1> QED BY <1>1, <1>2, RestingPlaces

\* A round takes its queue apart: the first chunk is folded, the rest waits.
LEMMA RoundPlaces == ASSUME TypeOK, TypeOK', PlacesInv, Round, Merged' = Merged PROVE PlacesInv'
<1>1. pc = "round" /\ Queued
  BY DEF Round, Queued
<1>2. CASE pc' # "plan"
  <2>1. pc' = "done" /\ UNCHANGED <<pulls, fold, batch, later, settling, families, held>>
    BY <1>2 DEF Round, RunUnread, world, thread
  <2> QED BY <1>1, <2>1, EndingPlaces
<1>3. CASE pc' = "plan"
  <2>1. PICK size \in FamilySizes :
             fold' = [base |-> Tip, acc |-> BaseCommit(Tip), steps |-> <<>>,
                      todo |-> Upto(queue, size), rest |-> From(queue, size + 1), size |-> size]
    BY <1>3 DEF Round, RunUnread
  <2>2. /\ requeue' = <<>> /\ later' = <<>> /\ batch' = <<>> /\ stack' = <<>> /\ settling' = FALSE
        /\ UNCHANGED <<pulls, rounds, families, held>>
    BY <1>3 DEF Round, RunUnread, world, lists
  <2>3. queue \in Seq(PR) /\ size \in Nat /\ IsInjective(queue) /\ rounds > 0
    BY <1>1, SizesAssumption DEF TypeOK, ThreadTyped, PlacesInv, QueueOnce
  <2>4. fold'.steps = <<>> /\ fold'.todo = Upto(queue, size) /\ fold'.rest = From(queue, size + 1)
    BY <2>1
  <2>5. /\ ToSet(fold'.todo) \union ToSet(fold'.rest) = ToSet(queue)
        /\ IsInjective(fold'.todo) /\ IsInjective(fold'.rest)
        /\ ToSet(fold'.todo) \cap ToSet(fold'.rest) = {}
    <3>1. /\ ToSet(Upto(queue, size)) \union ToSet(From(queue, size + 1)) = ToSet(queue)
          /\ IsInjective(Upto(queue, size)) /\ IsInjective(From(queue, size + 1))
          /\ ToSet(Upto(queue, size)) \cap ToSet(From(queue, size + 1)) = {}
      BY <2>3, ListChunk
    <3> QED BY <2>4, <3>1
  <2>6. ToSet(Folded') = {} /\ IsInjective(Folded')
    BY <2>4, NoNumbers DEF Folded
  <2>7. FoldOnce'
    BY <1>3, <2>2, <2>5, <2>6 DEF FoldOnce
  <2>8. ~AtHand'
    BY <1>3, <2>2 DEF AtHand, Landing
  <2>9. InHand' = <<>> /\ ToSet(InHand') = {} /\ IsInjective(InHand')
    BY <2>8, NotAtHand
  <2>10. Line' = <<>>
    BY <1>3, <2>2 DEF Line, Landing
  <2>11. Mine' = ToSet(queue)
    BY <2>5, <2>6, <2>9 DEF Mine
  <2>12. Parts(stack') = {} /\ Parted(stack')
    BY <2>2, NoParts
  <2>13. OnePlace'
    BY <2>2, <2>9, <2>10, <2>11, <2>12, NobodyListed DEF OnePlace
  <2>14. Served' = ToSet(queue) /\ Around' = ToSet(queue)
    BY <2>2, <2>10, <2>11, <2>12, NobodyListed DEF Served, Around
  <2>15. Active' = ToSet(queue) /\ Serves' = ToSet(queue)
    BY <1>3, <2>14 DEF Active, Serves, InRound, Queued
  <2>16. Active = ToSet(queue) /\ Serves = ToSet(queue)
    BY <1>1 DEF Active, Serves, Queued
  <2>17. HeldAside'
    BY <2>2, <2>15, <2>16 DEF PlacesInv, HeldAside, HeldPRs
  <2>18. MergedGone'
    BY <2>2, <2>15, <2>16 DEF PlacesInv, MergedGone
  <2>19. LinedUp'
    BY <2>2, NoneLined
  <2>20. QueueOnce'
    BY <1>3 DEF QueueOnce
  <2>21. rounds' > 0
    BY <2>2, <2>3
  <2> QED BY <2>7, <2>13, <2>17, <2>18, <2>19, <2>20, <2>21 DEF PlacesInv
<1> QED BY <1>2, <1>3

\* Behind a round, those that were queued again are served in the next.
LEMMA JoinPlaces == ASSUME TypeOK, TypeOK', PlacesInv, Join, Merged' = Merged PROVE PlacesInv'
<1>1. pc = "join" /\ Continue(requeue) /\ InRound
      /\ UNCHANGED <<pulls, fold, batch, later, settling, families, held>>
  BY DEF Join, world, InRound, Queued
<1>2. requeue \in Seq(PR) /\ IsInjective(requeue) /\ rounds > 0
  BY <1>1 DEF TypeOK, ThreadTyped, PlacesInv, OnePlace
<1>3. rounds # 0
  BY <1>2
<1>4. /\ ~InRound' /\ QueueOnce' /\ (pc' = "round" => rounds' > 0) /\ pc' # "plan"
      /\ Active' \subseteq ToSet(requeue) /\ Serves' = {}
  BY <1>1, <1>2, <1>3, ContinuePlaces
<1>5. Active = Around
  BY <1>1 DEF Active, InRound
<1>6. Active' \subseteq Active
  BY <1>4, <1>5 DEF Around
<1> QED BY <1>1, <1>4, <1>6, RestingPlaces

\* A step outside a round that the run's thread has no part in.
LEMMA OthersRest ==
  ASSUME TypeOK, TypeOK', LandingInv, PlacesInv, ~InRound, Merged' = Merged,
         \A n \in PR : pulls'[n].open = pulls[n].open,
         \/ \E f \in DOMAIN families : Gate(f)
         \/ Disturb
         \/ UNCHANGED vars
  PROVE  PlacesInv'
<1>1. UNCHANGED <<thread, lists, pc, mode, rows, stopped>>
  BY DEF Gate, GateCancelled, GateReused, GateStart, GatePostponed, GateFinish, GateRecord, ByGate,
     Disturb, Outside, vars, world
<1>2. StepsKept
  <2>1. Next \/ UNCHANGED vars
    BY DEF Next
  <2> QED BY <2>1, RunGrows DEF StepsKept
<1>3. UNCHANGED <<fold, stack, requeue, later, batch, settling, held, rounds, queue, pc>>
  BY <1>1 DEF thread, lists
<1>4. ~InRound' /\ pc \notin {"plan", "part"}
  BY <1>3 DEF InRound, Queued
<1>5. FoldOnce'
  <2>1. Folded' = Folded
    BY <1>3 DEF Folded
  <2> QED BY <1>3, <2>1 DEF PlacesInv, FoldOnce
<1>6. ~settling' => LinedUp'
  BY <1>2, <1>3, <1>4, StillLined DEF PlacesInv, StepsKept
<1>7. Active' = Active /\ Serves' = Serves /\ HeldPRs' = HeldPRs
  BY <1>3, <1>4 DEF Active, Serves, InRound, Queued, HeldPRs
<1>8. HeldAside' /\ MergedGone'
  BY <1>7 DEF PlacesInv, HeldAside, MergedGone
<1>9. QueueOnce' /\ (pc' \notin {"snapshot", "pairs", "done"} => rounds' > 0)
  BY <1>3 DEF PlacesInv, QueueOnce
<1> QED BY <1>4, <1>5, <1>6, <1>8, <1>9 DEF PlacesInv

LEMMA StopEarlyPlaces == ASSUME TypeOK, TypeOK', PlacesInv, StopEarly, Merged' = Merged PROVE PlacesInv'
<1>1. Queued /\ pc' = "done" /\ UNCHANGED <<pulls, fold, batch, later, settling, families, held>>
  BY DEF StopEarly, Queued, world, thread
<1> QED BY <1>1, EndingPlaces

---------------------------------------------------------------------------
(* Nobody who was merged is held.                                          *)

LEMMA InitPlaces == ASSUME Init PROVE PlacesInv
<1>1. /\ main = << [tree |-> {}, by |-> 0] >> /\ pc = "snapshot" /\ rounds = 0 /\ settling = FALSE
      /\ batch = <<>> /\ later = <<>> /\ held = {}
      /\ fold.steps = <<>> /\ fold.todo = <<>> /\ fold.rest = <<>>
  BY DEF Init
<1>2. DOMAIN main = {1} /\ main[1].by = 0
  BY <1>1
<1>3. Merged = {}
  BY <1>2 DEF Merged
<1>4. FoldOnce
  BY <1>1, NoNumbers, NobodyListed DEF FoldOnce, Folded
<1>5. LinedUp
  <2>1. DOMAIN batch = {} /\ later = <<>> /\ batch = <<>>
    BY <1>1
  <2> DEFINE off == [i \in DOMAIN batch |-> 0]
  <2>2. off \in [DOMAIN batch -> Nat]
    OBVIOUS
  <2> HIDE DEF off
  <2> QED BY <2>1, <2>2 DEF LinedUp, Starts
<1>6. ~InRound /\ QueueOnce
  BY <1>1 DEF InRound, Queued, QueueOnce
<1>7. HeldAside
  BY <1>1 DEF HeldAside, HeldPRs
<1>8. MergedGone
  BY <1>3 DEF MergedGone
<1> QED BY <1>1, <1>4, <1>5, <1>6, <1>7, <1>8 DEF PlacesInv

LEMMA PlacesNext ==
  ASSUME TypeOK, TypeOK', LandingInv, RoundInv, PlacesInv, [Next]_vars
  PROVE  PlacesInv'
<1>1. CASE Merge
  <2>1. /\ Moves /\ HeldPRs' = HeldPRs /\ Merged \subseteq Merged'
        /\ Merged' \ Merged \subseteq Served \ Served'
        /\ \A n \in PR : pulls'[n].open => pulls[n].open /\ n \notin Merged' \ Merged
    BY <1>1, MergeMoves
  <2> QED BY <2>1, MovesKeep
<1>2. CASE ~Merge
  <2>1. Merged' = Merged /\ \A n \in PR : pulls'[n].open = pulls[n].open
    BY <1>2, NobodyMerged
  <2>2. Moves => PlacesInv'
    BY <2>1, MovesKeep
  <2>3. CASE StopEarly \/ Snapshot \/ Pairs \/ Round \/ Join
    BY <2>1, <2>3, StopEarlyPlaces, SnapshotPlaces, PairsPlaces, RoundPlaces, JoinPlaces
  <2>4. CASE PlanStep \/ PlanClose \/ Submit \/ Collect \/ PartsDone \/ Part \/ PartGated \/ Cancel
    BY <2>2, <2>4, PlanStepMoves, PlanCloseMoves, SubmitMoves, CollectMoves, PartsDoneMoves, PartMoves,
       PartGatedMoves, CancelMoves
  <2>5. CASE Land
    <3>1. CASE LandCheck \/ Decide \/ Reobserve \/ Push \/ Await
      BY <2>2, <3>1, LandingMoves
    <3>2. CASE Confirm
      BY <2>2, <3>2, ConfirmMoves
    <3> QED BY <1>2, <2>5, <3>1, <3>2 DEF Land
  <2>6. CASE (\E f \in DOMAIN families : Gate(f)) \/ Disturb \/ Finished \/ UNCHANGED vars
    <3>1. \/ \E f \in DOMAIN families : Gate(f)
          \/ Disturb
          \/ UNCHANGED vars
      BY <2>6 DEF Finished
    <3>2. CASE InRound
      BY <2>2, <3>1, <3>2, OthersStand
    <3>3. CASE ~InRound
      BY <2>1, <3>1, <3>3, OthersRest
    <3> QED BY <3>2, <3>3
  <2> QED BY <2>3, <2>4, <2>5, <2>6 DEF Next, Train
<1> QED BY <1>1, <1>2

LEMMA PlacesAlways == Spec => []PlacesInv
<1>1. Init => PlacesInv
  BY InitPlaces
<1>2. TypeOK /\ TypeOK' /\ LandingInv /\ RoundInv /\ PlacesInv /\ [Next]_vars => PlacesInv'
  BY PlacesNext
<1> QED BY <1>1, <1>2, TrainTypeOK, TrainLandingInv, RoundAlways, PTL DEF Spec

\* A pull request this run held is never merged by it, and never was: who is held has left
\* the round, and nobody is served in a round in two places (settle_red, PlanClose, Merge).
THEOREM NobodyHeldIsMerged == Spec => []HeldNeverMerged
<1>1. TypeOK /\ PlacesInv => HeldNeverMerged
  <2> SUFFICES ASSUME TypeOK, PlacesInv, NEW h \in held, NEW i \in DOMAIN main, main[i].by = h.pr
               PROVE  FALSE
    BY DEF HeldNeverMerged
  <2>1. h.pr \in PR
    BY DEF TypeOK, ListsTyped
  <2>2. h.pr # 0
    BY <2>1, PRAssumption
  <2>3. h.pr \in HeldPRs /\ h.pr \in Merged
    BY <2>2 DEF HeldPRs, Merged
  <2> QED BY <2>3 DEF PlacesInv, HeldAside
<1> QED BY <1>1, TrainTypeOK, PlacesAlways, PTL

---------------------------------------------------------------------------
(* Nobody is forgotten.                                                    *)

\* Parts are left only while a red family is bisected, and a round ends with none of its
\* families left.
Emptied ==
  /\ ~settling /\ pc # "part" => stack = <<>>
  /\ pc \in {"drain", "join"} => ~settling /\ batch = <<>>

\* Everybody is on the queue that is read first, and none is out of the run before the
\* pairs are read.
FirstRead ==
  /\ pc = "snapshot" /\ rounds = 0 => PR \subseteq ToSet(queue) /\ out = {}
  /\ pc = "pairs" => out = {}

\* A family the receipt ends with is done with.
Ends == {"GATED_DRY", "RED_DRY", "TREE_MISMATCH"}
Retired(f) == families[f].future = "done" /\ ~Serving(f)
EndedRests == \A f \in DOMAIN families : families[f].status \in Ends => Retired(f)

\* Whoever is served no more is named by the receipt.
Covered == "RUN_UNREAD" \notin alerts => PR \subseteq Noted \union out \union Active

CoverInv == Emptied /\ FirstRead /\ EndedRests /\ Covered

LEMMA EmptiedNext == ASSUME TypeOK, RoundInv, Emptied, [Next]_vars PROVE Emptied'
<1>1. settling \/ pc = "part" => batch = <<>>
  BY DEF RoundInv, InOrder
<1>2. CASE StopEarly \/ Snapshot \/ Round \/ PlanStep
  BY <1>2 DEF StopEarly, Snapshot, Round, RunUnread, PlanStep, Untouched, thread, Emptied
<1>3. CASE Pairs
  <2>1. pc = "pairs" /\ UNCHANGED <<stack, settling>> /\ pc' \in {"round", "snapshot", "done"}
    BY <1>3, ChooseTyped DEF Pairs
  <2> QED BY <2>1 DEF Emptied
<1>4. CASE PlanClose
  <2>1. /\ pc = "plan" /\ UNCHANGED <<stack, settling>> /\ pc' \in {"part", "submit", "plan", "drain"}
        /\ pc' = "drain" => ~settling /\ batch' = <<>>
    BY <1>4 DEF PlanClose, AfterFold
  <2> QED BY <2>1 DEF Emptied
<1>5. CASE Submit
  <2>1. /\ pc = "submit" /\ UNCHANGED <<stack, settling>> /\ pc' \in {"part", "drain", "gate", "collect"}
        /\ pc' = "drain" => ~settling /\ batch' = <<>>
    BY <1>5 DEF Submit
  <2> QED BY <2>1 DEF Emptied
<1>6. CASE Collect
  <2>1. pc = "collect" /\ batch # <<>> /\ ~settling
    BY <1>1, <1>6 DEF Collect, TypeOK, Pointers
  <2>2. /\ UNCHANGED settling /\ (pc' # "part" => UNCHANGED stack)
        /\ pc' \in {"drain", "collect", "land", "part"} /\ (pc' = "drain" => batch' = <<>>)
    BY <1>6 DEF Collect, CollectStopped, CollectDry, CollectGreen, CollectUnread, CollectRed
  <2> QED BY <2>1, <2>2 DEF Emptied
<1>7. CASE PartsDone \/ Part
  BY <1>1, <1>7 DEF PartsDone, Part, Emptied
<1>8. CASE PartGated
  <2>1. pc = "gate" /\ settling /\ UNCHANGED settling /\ pc' \in {"part", "land"}
    BY <1>8 DEF PartGated, TypeOK, Pointers
  <2> QED BY <2>1 DEF Emptied
<1>9. CASE Land
  <2>1. pc \in Landing /\ UNCHANGED <<stack, settling>>
    BY <1>9 DEF Land, LandCheck, Decide, Reobserve, Push, Await, Merge, Confirm, ByLanding, Landing
  <2>2. pc' \in Landing \/ pc' = "part" \/ pc' = "collect" \/ (pc' = "drain" /\ ~settling /\ batch' = <<>>)
    BY <1>9 DEF Land, LandCheck, Decide, Reobserve, Push, Await, Merge, Confirm, Landing, ReadFails, Withheld,
       Leave
  <2> QED BY <2>1, <2>2 DEF Emptied, Landing
<1>10. CASE Cancel \/ Join
  <2>1. /\ pc \in {"drain", "join"} /\ UNCHANGED <<stack, settling, batch>>
        /\ pc' \in {"join", "round", "snapshot", "done"}
    BY <1>10 DEF Cancel, Join, Continue, thread
  <2> QED BY <2>1 DEF Emptied
<1>11. CASE (\E f \in DOMAIN families : Gate(f)) \/ Disturb \/ Finished \/ UNCHANGED vars
  <2>1. UNCHANGED <<thread, pc>>
    BY <1>11 DEF Gate, GateCancelled, GateReused, GateStart, GatePostponed, GateFinish, GateRecord, ByGate,
       Disturb, Outside, Finished, vars
  <2> QED BY <2>1 DEF Emptied, thread
<1> QED BY <1>2, <1>3, <1>4, <1>5, <1>6, <1>7, <1>8, <1>9, <1>10, <1>11 DEF Next, Train

LEMMA FirstReadNext == ASSUME TypeOK, FirstRead, [Next]_vars PROVE FirstRead'
<1>1. rounds \in Nat
  BY DEF TypeOK, ThreadTyped
<1>2. CASE StopEarly \/ Snapshot \/ Round \/ PlanStep
  <2>1. pc' \notin {"snapshot", "pairs"} \/ (pc = "snapshot" /\ rounds = 0 /\ pc' = "pairs" /\ UNCHANGED out)
    BY <1>2 DEF StopEarly, Snapshot, Round, RunUnread, PlanStep, Untouched
  <2> QED BY <2>1 DEF FirstRead
<1>3. CASE Pairs \/ Join
  <2>1. PICK q : Continue(q)
    BY <1>3 DEF Pairs, Choose, Join
  <2>2. pc' \in {"round", "done"} \/ (pc' = "snapshot" /\ rounds' = rounds + 1)
    BY <2>1 DEF Continue
  <2>3. rounds + 1 # 0
    BY <1>1
  <2> QED BY <2>2, <2>3 DEF FirstRead
<1>4. CASE PlanClose \/ Submit \/ Collect \/ PartsDone \/ Part \/ PartGated \/ Cancel
  <2>1. pc' \notin {"snapshot", "pairs"}
    BY <1>4 DEF PlanClose, AfterFold, Submit, Collect, CollectStopped, CollectDry, CollectGreen,
       CollectUnread, CollectRed, PartsDone, Part, PartGated, Cancel
  <2> QED BY <2>1 DEF FirstRead
<1>5. CASE Land
  <2>1. pc' \notin {"snapshot", "pairs"}
    BY <1>5 DEF Land, LandCheck, Decide, Reobserve, Push, Await, Merge, Confirm, ReadFails, Withheld, Leave
  <2> QED BY <2>1 DEF FirstRead
<1>6. CASE (\E f \in DOMAIN families : Gate(f)) \/ Disturb \/ Finished \/ UNCHANGED vars
  <2>1. UNCHANGED <<thread, lists, pc>>
    BY <1>6 DEF Gate, GateCancelled, GateReused, GateStart, GatePostponed, GateFinish, GateRecord, ByGate,
       Disturb, Outside, Finished, vars
  <2> QED BY <2>1 DEF FirstRead, thread, lists
<1> QED BY <1>2, <1>3, <1>4, <1>5, <1>6 DEF Next, Train

\* Who serves nobody before the step serves nobody behind it.
LEMMA OnwardRetired ==
  ASSUME TypeOK, RoundInv, Onward, NEW f \in DOMAIN families, Retired(f)
  PROVE  f \in DOMAIN families' /\ families'[f].status = families[f].status /\ Retired(f)'
<1>1. ToSet(batch') \subseteq ToSet(batch)
  BY OrderKept DEF Onward, RoundInv
<1>2. Serving(f)' => Serving(f)
  BY <1>1 DEF Onward, Serving
<1> QED BY <1>2 DEF Onward, Respected, Retired

LEMMA PlanCloseRetired ==
  ASSUME TypeOK, RoundInv, PlanClose
  PROVE  /\ \A f \in DOMAIN families :
              Retired(f) => f \in DOMAIN families' /\ families'[f].status = families[f].status /\ Retired(f)'
         /\ \A f \in DOMAIN families' : families'[f].status \in Ends =>
              f \in DOMAIN families /\ families[f].status \in Ends
<1> DEFINE last == IF settling \/ batch = <<>> THEN 0 ELSE batch[Len(batch)]
           new == NewFamily(fold.steps, fold.base, last, settling)
           next == Len(families) + 1
<1>1. settling => batch = <<>>
  BY DEF RoundInv, InOrder
<1>2. /\ pc = "plan" /\ UNCHANGED settling /\ pc' \in {"part", "submit", "plan", "drain"}
      /\ \/ families' = families /\ UNCHANGED <<batch, cur>> /\ (settling => pc' = "part")
         \/ /\ families' = Append(families, new)
            /\ batch' = IF settling THEN batch ELSE Append(batch, next)
            /\ cur' = IF settling THEN next ELSE cur
  BY DEF PlanClose, AfterFold
<1>3. CASE families' = families /\ UNCHANGED <<batch, cur>> /\ (settling => pc' = "part")
  <2>1. ~AtHand'
    BY <1>2, <1>3 DEF AtHand, Landing
  <2> QED BY <1>3, <2>1 DEF Retired, Serving
<1>4. CASE /\ families' = Append(families, new)
           /\ batch' = IF settling THEN batch ELSE Append(batch, next)
           /\ cur' = IF settling THEN next ELSE cur
  <2>1. /\ families \in Seq(Family) /\ Len(families) \in Nat /\ DOMAIN families = 1..Len(families)
        /\ batch \in Seq(Nat) /\ Len(batch) \in Nat /\ DOMAIN batch = 1..Len(batch)
    BY BatchTyped DEF TypeOK, GatesTyped
  <2>2. new.status = "PLANNED"
    BY DEF NewFamily
  <2> HIDE DEF new
  <2>3. /\ DOMAIN families' = 1..next /\ families'[next] = new
        /\ \A f \in DOMAIN families : families'[f] = families[f]
    BY <1>4, <2>1
  <2>4. next \notin DOMAIN families
    BY <2>1
  <2>5. /\ ~settling => DOMAIN batch' = 1..(Len(batch) + 1) /\ batch'[Len(batch) + 1] = next
                        /\ \A i \in DOMAIN batch : batch'[i] = batch[i]
        /\ settling => batch' = <<>>
    BY <1>1, <1>4, <2>1
  <2>6. \A f \in DOMAIN families : Serving(f)' => Serving(f)
    <3>1. ASSUME NEW f \in DOMAIN families, f \in ToSet(batch') PROVE f \in ToSet(batch)
      <4>1. PICK j \in DOMAIN batch' : batch'[j] = f
        BY <3>1 DEF ToSet
      <4>2. ~settling
        BY <2>5, <4>1
      <4>3. j \in DOMAIN batch /\ batch'[j] = batch[j]
        BY <2>1, <2>4, <2>5, <4>1, <4>2
      <4> QED BY <4>1, <4>3 DEF ToSet
    <3>2. AtHand' => cur' = next
      BY <1>2, <1>4 DEF AtHand, Landing
    <3> QED BY <2>4, <3>1, <3>2 DEF Serving
  <2>7. \A f \in DOMAIN families : Retired(f) => f \in DOMAIN families' /\ Retired(f)'
    BY <2>1, <2>3, <2>6 DEF Retired
  <2>8. \A f \in DOMAIN families' : families'[f].status \in Ends => f \in DOMAIN families /\ families[f].status \in Ends
    BY <2>1, <2>2, <2>3 DEF Ends
  <2> QED BY <2>3, <2>7, <2>8
<1> QED BY <1>2, <1>3, <1>4

\* A landing changes the family at hand only, and what it ends is done with.
LEMMA LandRetired ==
  ASSUME TypeOK, RoundInv, Land
  PROVE  /\ \A f \in DOMAIN families :
              Retired(f) => f \in DOMAIN families' /\ families'[f].status = families[f].status /\ Retired(f)'
         /\ \A f \in DOMAIN families' : families'[f].status \in Ends =>
              f \in DOMAIN families /\ (families[f].status \in Ends \/ Retired(f)')
<1>1. InOrder /\ pc \in Landing
  BY DEF RoundInv, Land, LandCheck, Decide, Reobserve, Push, Await, Merge, Confirm, Landing
<1>2. cur \in DOMAIN families /\ families[cur] \in Family /\ families[cur].future = "done"
  BY <1>1, LandingPointers, BatchTyped DEF InOrder
<1>3. AtHand /\ Serving(cur) /\ (~settling => batch # <<>> /\ batch[1] = cur) /\ (settling => batch = <<>>)
  BY <1>1, LandingPointers DEF AtHand, Serving, TypeOK, Pointers, InOrder
<1>4. \/ \E s, back : Leave(s, back)
      \/ pc' \in Landing /\ UNCHANGED <<families, batch>>
      \/ /\ pc' \in {"part", "drain", "collect"}
         /\ \E sha : families' = [families EXCEPT ![cur].status = "LANDED", ![cur].landed = sha]
         /\ batch' = IF settling THEN batch ELSE Tail(batch)
  <2>1. CASE LandCheck \/ Decide \/ Reobserve \/ Push \/ Await \/ Merge
    BY <2>1 DEF LandCheck, Decide, Reobserve, Push, Await, Merge, ReadFails, Withheld, Landing
  <2>2. CASE Confirm
    BY <2>2 DEF Confirm, Landing
  <2> QED BY <2>1, <2>2 DEF Land
<1>5. UNCHANGED <<cur, settling>>
  BY DEF Land, LandCheck, Decide, Reobserve, Push, Await, Merge, Confirm, ByLanding
<1>6. CASE \E s, back : Leave(s, back)
  <2>1. PICK s, back : Leave(s, back)
    BY <1>6
  <2>2. batch' = <<>> /\ pc' \in {"part", "drain"} /\ families' = Setting(cur, s)
    BY <1>3, <2>1 DEF Leave
  <2>3. ~AtHand' /\ ToSet(batch') = {}
    BY <2>2, NobodyListed DEF AtHand, Landing
  <2>4. \A f : ~Serving(f)'
    BY <2>3 DEF Serving
  <2>5. /\ DOMAIN families' = DOMAIN families /\ families'[cur].future = "done"
        /\ \A f \in DOMAIN families : f # cur => families'[f] = families[f]
    BY <1>2, <2>2 DEF Setting, Family
  <2> QED BY <1>3, <2>4, <2>5 DEF Retired
<1>7. CASE pc' \in Landing /\ UNCHANGED <<families, batch>>
  <2>1. \A f : Serving(f)' <=> Serving(f)
    BY <1>1, <1>5, <1>7 DEF Serving, AtHand
  <2> QED BY <1>7, <2>1 DEF Retired
<1>8. CASE /\ pc' \in {"part", "drain", "collect"}
           /\ \E sha : families' = [families EXCEPT ![cur].status = "LANDED", ![cur].landed = sha]
           /\ batch' = IF settling THEN batch ELSE Tail(batch)
  <2>1. PICK sha : families' = [families EXCEPT ![cur].status = "LANDED", ![cur].landed = sha]
    BY <1>8
  <2>2. ToSet(batch') \subseteq ToSet(batch)
    BY <1>1, <1>3, <1>8, OrderKept
  <2>3. ~AtHand'
    BY <1>8 DEF AtHand, Landing
  <2>4. \A f : Serving(f)' => Serving(f)
    BY <2>2, <2>3 DEF Serving
  <2>5. /\ DOMAIN families' = DOMAIN families /\ families'[cur].status = "LANDED"
        /\ \A f \in DOMAIN families : f # cur => families'[f] = families[f]
    BY <1>2, <2>1 DEF Family
  <2> QED BY <1>3, <2>4, <2>5 DEF Retired, Ends
<1> QED BY <1>4, <1>6, <1>7, <1>8

\* What is taken of a round's gates ends a family in a dry run only, and takes it out.
LEMMA CollectEnds ==
  ASSUME TypeOK, RoundInv, Collect
  PROVE  \A g \in DOMAIN families' : families'[g].status \in Ends =>
           g \in DOMAIN families /\ (families[g].status \in Ends \/ Retired(g)')
<1>0. PICK f : /\ f = batch[1]
               /\ CollectStopped(f) \/ CollectDry(f) \/ CollectGreen(f) \/ CollectUnread(f) \/ CollectRed(f)
  BY DEF Collect
<1>1. InOrder /\ pc = "collect" /\ batch # <<>> /\ ~settling
  BY DEF RoundInv, InOrder, Collect, TypeOK, Pointers
<1>2. f \in DOMAIN families /\ f \notin ToSet(Tail(batch)) /\ \A g \in DOMAIN families : families[g] \in Family
  BY <1>0, <1>1, BatchTail, BatchTyped, HeadApart
<1>3. CASE CollectDry(f)
  <2>1. families' = Setting(f, IF families[f].result.verdict = "green" THEN "GATED_DRY" ELSE "RED_DRY")
    BY <1>3 DEF CollectDry
  <2>2. /\ DOMAIN families' = DOMAIN families /\ families'[f].future = families[f].future
        /\ \A g \in DOMAIN families : g # f => families'[g] = families[g]
    BY <1>2, <2>1 DEF Setting, Family
  <2>3. families[f].future = "done" /\ batch' = Tail(batch) /\ pc' \in {"drain", "collect"} /\ UNCHANGED settling
    BY <1>3 DEF CollectDry
  <2>4. ~Serving(f)'
    BY <1>1, <1>2, <2>3 DEF Serving, AtHand, Landing
  <2> QED BY <2>2, <2>3, <2>4 DEF Retired
<1>4. CASE CollectGreen(f)
  BY <1>4 DEF CollectGreen
<1>5. CASE CollectStopped(f)
  <2>1. families' = Setting(f, "REQUEUED")
    BY <1>5 DEF CollectStopped
  <2>2. DOMAIN families' = DOMAIN families /\ families'[f].status = "REQUEUED"
        /\ \A g \in DOMAIN families : g # f => families'[g] = families[g]
    BY <1>2, <2>1 DEF Setting, Family
  <2> QED BY <2>2 DEF Ends
<1>6. CASE CollectUnread(f) \/ CollectRed(f)
  <2>1. PICK s : families' = Void(f, s) /\ (s = families[f].status \/ s \in {"HELD", "BISECTED"})
    BY <1>6 DEF CollectUnread, CollectRed, RedStatus
  <2>2. /\ DOMAIN families' = DOMAIN families
        /\ \A g \in DOMAIN families : families'[g].status \in {families[g].status, s, "SPECULATION_VOID"}
    BY <1>2, <2>1 DEF Void, Family
  <2>3. families'[f].status = s /\ \A g \in DOMAIN families : g # f =>
          families'[g].status \in {families[g].status, "SPECULATION_VOID"}
    BY <1>2, <2>1 DEF Void, Family
  <2> QED BY <2>1, <2>2, <2>3 DEF Ends
<1> QED BY <1>0, <1>3, <1>4, <1>5, <1>6

\* Nothing else ends a family.
LEMMA OthersEnd ==
  ASSUME TypeOK, [Next]_vars, ~PlanClose, ~Land, ~Collect
  PROVE  \A f \in DOMAIN families' : families'[f].status \in Ends => f \in DOMAIN families /\ families[f].status \in Ends
<1>1. \A f \in DOMAIN families : families[f] \in Family
  BY FamilyTyped DEF TypeOK
<1>2. CASE UNCHANGED families
  BY <1>2
<1>3. CASE Submit \/ Cancel
  <2>1. /\ DOMAIN families' = DOMAIN families
        /\ \A f \in DOMAIN families :
             families'[f] \in {families[f], [families[f] EXCEPT !.future = "queued"],
                               [families[f] EXCEPT !.future = "cancelled", !.status = "REQUEUED"],
                               [families[f] EXCEPT !.future = "cancelled"]}
    <3>1. CASE Submit
      BY <3>1 DEF Submit
    <3>2. CASE Cancel
      <4>1. /\ DOMAIN families' = DOMAIN families
            /\ \A f \in DOMAIN families : families'[f] = 
                 IF families[f].future # "queued" THEN families[f]
                 ELSE [families[f] EXCEPT !.future = "cancelled",
                                          !.status = IF stop THEN "REQUEUED" ELSE families[f].status]
        BY <3>2 DEF Cancel
      <4>2. \A f \in DOMAIN families :
              [families[f] EXCEPT !.future = "cancelled", !.status = families[f].status]
                = [families[f] EXCEPT !.future = "cancelled"]
        BY <1>1 DEF Family
      <4> QED BY <4>1, <4>2
    <3> QED BY <1>3, <3>1, <3>2
  <2>2. \A f \in DOMAIN families :
          /\ [families[f] EXCEPT !.future = "queued"].status = families[f].status
          /\ [families[f] EXCEPT !.future = "cancelled", !.status = "REQUEUED"].status = "REQUEUED"
          /\ [families[f] EXCEPT !.future = "cancelled"].status = families[f].status
    BY <1>1 DEF Family
  <2>3. \A f \in DOMAIN families : families'[f].status \in {families[f].status, "REQUEUED"}
    BY <2>1, <2>2
  <2> QED BY <2>1, <2>3 DEF Ends
<1>4. ASSUME NEW g \in DOMAIN families, NEW s, s \notin Ends,
             DOMAIN families' = DOMAIN families, families'[g].status \in {families[g].status, s},
             \A f \in DOMAIN families \ {g} : families'[f] = families[f]
      PROVE  \A f \in DOMAIN families' : families'[f].status \in Ends =>
               f \in DOMAIN families /\ families[f].status \in Ends
  BY <1>4
<1>5. CASE PartGated
  <2>1. cur \in DOMAIN families
    BY <1>5 DEF PartGated, TypeOK, Pointers
  <2>2. CASE families' = Setting(cur, RedStatus(cur))
    <3>1. RedStatus(cur) \notin Ends
      BY DEF RedStatus, Ends
    <3>2. /\ DOMAIN families' = DOMAIN families /\ families'[cur].status = RedStatus(cur)
          /\ \A f \in DOMAIN families \ {cur} : families'[f] = families[f]
      BY <1>1, <2>1, <2>2 DEF Setting, Family
    <3> QED BY <1>4, <2>1, <3>1, <3>2
  <2> QED BY <1>2, <1>5, <2>2 DEF PartGated
<1>6. ASSUME NEW g \in DOMAIN families, Gate(g)
      PROVE  \A f \in DOMAIN families' : families'[f].status \in Ends =>
               f \in DOMAIN families /\ families[f].status \in Ends
  <2>1. families[g] \in Family /\ DOMAIN families' = DOMAIN families
        /\ \A f \in DOMAIN families \ {g} : families'[f] = families[f]
    BY <1>1, <1>6 DEF Gate, GateCancelled, GateReused, GateStart, GatePostponed, GateFinish, GateRecord
  <2>2. \E s : s \notin Ends /\ families'[g].status \in {families[g].status, s}
    <3>1. CASE GateStart(g) \/ GateRecord(g) \/ GateCancelled(g)
      <4>1. families'[g].status \in {families[g].status, "REQUEUED"}
        BY <2>1, <3>1 DEF GateStart, GateRecord, GateCancelled, Family
      <4> QED BY <4>1 DEF Ends
    <3>2. CASE GateReused(g) \/ GatePostponed(g) \/ GateFinish(g)
      <4>1. PICK s, n, r : s \notin Ends /\
                           families' = [families EXCEPT ![g].future = "recording", ![g].status = s,
                                                        ![g].gate = n, ![g].result = r]
        <5>1. CASE GateReused(g)
          <6>1. PICK known \in KnownRed(FamilyTree(g)) :
                  families' = [families EXCEPT
                    ![g].future = "recording", ![g].status = "RED", ![g].gate = NextRow,
                    ![g].result = [verdict |-> gates[known.gate].verdict,
                                   tree |-> gates[known.gate].tree, reused |-> known.gate]]
            BY <5>1 DEF GateReused
          <6>2. "RED" \notin Ends
            BY DEF Ends
          <6> QED BY <6>1, <6>2, Zenon
        <5>2. CASE GatePostponed(g)
          <6>1. "GATE_RETRY" \notin Ends
            BY DEF Ends
          <6> QED BY <5>2, <6>1, Zenon DEF GatePostponed
        <5>3. CASE GateFinish(g)
          <6>1. PICK verdict \in {"green", "red", "unread"} :
                  families' = [families EXCEPT
                    ![g].future = "recording", ![g].status = GateStatus(verdict), ![g].gate = NextRow,
                    ![g].result = [verdict |-> verdict, tree |-> FamilyTree(g), reused |-> 0]]
            BY <5>3 DEF GateFinish
          <6>2. GateStatus(verdict) \notin Ends
            BY DEF GateStatus, Ends
          <6> QED BY <6>1, <6>2, Zenon
        <5> QED BY <3>2, <5>1, <5>2, <5>3
      <4>2. families'[g].status = s
        BY <2>1, <4>1 DEF Family
      <4> QED BY <4>1, <4>2
    <3> QED BY <1>6, <3>1, <3>2 DEF Gate
  <2> QED BY <1>4, <2>1, <2>2
<1>7. UNCHANGED families \/ Submit \/ Cancel \/ PartGated \/ \E g \in DOMAIN families : Gate(g)
  <2>1. CASE StopEarly \/ Snapshot \/ Pairs \/ Round \/ PlanStep
    BY <2>1 DEF StopEarly, Snapshot, Pairs, Round, PlanStep, RunUnread, Untouched
  <2>2. CASE PartsDone \/ Part \/ Join \/ Disturb \/ Finished \/ UNCHANGED vars
    BY <2>2 DEF PartsDone, Part, Join, Disturb, Outside, Finished, vars
  <2> QED BY <2>1, <2>2 DEF Next, Train
<1> QED BY <1>2, <1>3, <1>5, <1>6, <1>7

\* So what has ended stays so, and what ends is done with.
LEMMA EndsNext ==
  ASSUME TypeOK, LandingInv, RoundInv, EndedRests, [Next]_vars
  PROVE  EndedRests' /\ Ended \subseteq Ended'
<1>1. \A f \in DOMAIN families : 
         Retired(f) => f \in DOMAIN families' /\ families'[f].status = families[f].status /\ Retired(f)'
  <2>1. CASE Onward
    BY <2>1, OnwardRetired
  <2>2. CASE PlanClose \/ Land
    BY <2>2, PlanCloseRetired, LandRetired
  <2>3. Onward \/ PlanClose \/ Land
    BY PlanningOnward, SubmitOnward, CollectOnward, PartsOnward, GateOnward, DisturbOnward DEF Next, Train
  <2> QED BY <2>1, <2>2, <2>3
<1>2. \A f \in DOMAIN families' : families'[f].status \in Ends =>
        f \in DOMAIN families /\ (families[f].status \in Ends \/ Retired(f)')
  BY PlanCloseRetired, LandRetired, CollectEnds, OthersEnd
<1>3. EndedRests'
  BY <1>1, <1>2 DEF EndedRests
<1>4. ASSUME NEW n \in Ended PROVE n \in Ended'
  <2>1. PICK f \in DOMAIN families : families[f].status \in Ends /\ n \in ToSet(Members(f))
    BY DEF Ended, MembersWith, Ends
  <2>2. f \in DOMAIN families' /\ families'[f].status \in Ends
    BY <1>1, <2>1 DEF EndedRests
  <2>3. families'[f].steps = families[f].steps
    BY RunGrows
  <2>4. Members(f)' = Members(f)
    BY <2>3 DEF Members
  <2> QED BY <2>1, <2>2, <2>4 DEF Ended, MembersWith, Ends
<1> QED BY <1>3, <1>4

\* A step of a round but its end moves nobody out of sight.
LEMMA RoundMoves ==
  ASSUME TypeOK, LandingInv, RoundInv, PlacesInv, [Next]_vars, InRound, ~Join
  PROVE  Moves
<1>1. CASE StopEarly \/ Snapshot \/ Pairs \/ Round
  BY <1>1 DEF StopEarly, Snapshot, Pairs, Round, InRound, Queued
<1>2. CASE PlanStep \/ PlanClose \/ Submit \/ Collect \/ PartsDone \/ Part \/ PartGated \/ Cancel
  BY <1>2, PlanStepMoves, PlanCloseMoves, SubmitMoves, CollectMoves, PartsDoneMoves, PartMoves,
     PartGatedMoves, CancelMoves
<1>3. CASE Land
  BY <1>3, LandingMoves, MergeMoves, ConfirmMoves DEF Land
<1>4. CASE (\E f \in DOMAIN families : Gate(f)) \/ Disturb \/ Finished \/ UNCHANGED vars
  BY <1>4, OthersStand DEF Finished
<1> QED BY <1>1, <1>2, <1>3, <1>4 DEF Next, Train

\* At the end of a round those that were queued again are all that is left of it.
LEMMA JoinLeaves == ASSUME TypeOK, PlacesInv, Emptied, pc = "join" PROVE Active = ToSet(requeue)
<1>1. InRound /\ ~settling /\ batch = <<>> /\ stack = <<>> /\ LinedUp /\ FoldOnce
  BY DEF Emptied, PlacesInv, InRound, Queued
<1>2. later = <<>>
  BY <1>1 DEF LinedUp, Starts
<1>3. Line = <<>> /\ ~AtHand
  BY <1>1, <1>2 DEF Line, AtHand, Landing
<1>4. Mine = {}
  BY <1>1, <1>3, MineInHand, NobodyListed DEF InHand
<1>5. Parts(stack) = {}
  BY <1>1, NoParts
<1> QED BY <1>1, <1>3, <1>4, <1>5, NobodyListed DEF Active, Around, Served, InRound

\* Covering in terms of what a step may do to it.
LEMMA CoveredKept ==
  ASSUME Covered, Merged \subseteq Merged', HeldPRs \subseteq HeldPRs', retry \subseteq retry',
         pending \subseteq pending', Ended \subseteq Ended', out \subseteq out',
         alerts \subseteq alerts', Active \subseteq Active' \union Noted' \union out'
  PROVE  Covered'
<1>1. Noted \subseteq Noted'
  BY DEF Noted
<1> QED BY <1>1 DEF Covered

LEMMA CoverNext ==
  ASSUME TypeOK, TypeOK', LandingInv, RoundInv, PlacesInv, CoverInv, [Next]_vars
  PROVE  CoverInv'
<1>1. Emptied' /\ FirstRead' /\ EndedRests' /\ Ended \subseteq Ended'
  BY EmptiedNext, FirstReadNext, EndsNext DEF CoverInv
<1>2. Merged \subseteq Merged'
  BY RunGrows DEF Grown, Merged
<1>3. Covered /\ Emptied /\ FirstRead
  BY DEF CoverInv
<1>4. CASE InRound /\ ~Join
  <2>1. Moves
    BY <1>4, RoundMoves
  <2>2. Active = Around /\ Active' = Around'
    BY <2>1 DEF Moves, Active, InRound
  <2>3. Active \subseteq Active' \union Noted'
    BY <2>1, <2>2 DEF Moves
  <2> QED BY <1>1, <1>2, <1>3, <2>1, <2>3, CoveredKept DEF Moves, Grows, CoverInv
<1>5. CASE Join
  <2>1. pc = "join" /\ Continue(requeue) /\ UNCHANGED <<held, retry, out, alerts>>
    BY <1>5 DEF Join
  <2>2. requeue \in Seq(PR) /\ IsInjective(requeue)
    BY <2>1 DEF TypeOK, ThreadTyped, PlacesInv, OnePlace, InRound, Queued
  <2>3. ToSet(requeue) \subseteq Active' \union pending' /\ pending \subseteq pending'
    BY <2>1, <2>2, ContinuePlaces
  <2>4. Active \subseteq Active' \union Noted'
    BY <1>3, <2>1, <2>3, JoinLeaves DEF Noted
  <2>5. HeldPRs' = HeldPRs
    BY <2>1 DEF HeldPRs
  <2> QED BY <1>1, <1>2, <1>3, <2>1, <2>3, <2>4, <2>5, CoveredKept DEF CoverInv
<1>6. CASE RunUnread
  BY <1>1, <1>6 DEF RunUnread, Covered, CoverInv
<1>7. CASE StopEarly
  <2>1. PR \subseteq pending'
    BY <1>3, <1>7 DEF StopEarly, FirstRead
  <2> QED BY <1>1, <2>1 DEF Covered, Noted, CoverInv
<1>8. CASE Snapshot /\ ~RunUnread
  <2>1. PICK present \in Listings(Len(queue)) :
             /\ queue' = present /\ retry' = retry \union (ToSet(queue) \ ToSet(present))
    BY <1>8 DEF Snapshot
  <2>2. pc = "snapshot" /\ pc' \in {"pairs", "round"} /\ UNCHANGED <<held, pending, out, alerts>>
    BY <1>8 DEF Snapshot
  <2>3. Active = ToSet(queue) /\ Active' = ToSet(present) /\ HeldPRs' = HeldPRs
    BY <2>1, <2>2 DEF Active, Queued, HeldPRs
  <2>4. Active \subseteq Active' \union Noted'
    BY <2>1, <2>3 DEF Noted
  <2> QED BY <1>1, <1>2, <1>3, <2>1, <2>2, <2>3, <2>4, CoveredKept DEF CoverInv
<1>9. CASE Pairs
  <2>1. pc = "pairs" /\ UNCHANGED <<held, retry>> /\ alerts \subseteq alerts' /\ out = {}
    BY <1>3, <1>9 DEF Pairs, FirstRead
  <2>2. PICK edges : Choose(edges)
    BY <1>9 DEF Pairs
  <2>3. PICK chosen \in SUBSET PR, line \in Queues :
             /\ IsMaximumFamily(chosen, ToSet(queue), edges) /\ IsSortedListing(line, chosen)
             /\ out' = ToSet(queue) \ chosen /\ Continue(line)
    BY <2>2 DEF Choose
  <2>4. line \in Seq(PR) /\ ToSet(line) = chosen /\ IsInjective(line)
    BY <2>3, QueuesTyped, SortedApart
  <2>5. chosen \subseteq Active' \union pending' /\ pending \subseteq pending'
    BY <2>3, <2>4, ContinuePlaces
  <2>6. Active = ToSet(queue) /\ HeldPRs' = HeldPRs
    BY <2>1 DEF Active, Queued, HeldPRs
  <2>7. Active \subseteq Active' \union Noted' \union out'
    BY <2>3, <2>5, <2>6 DEF Noted
  <2>8. out \subseteq out'
    BY <2>1
  <2> QED BY <1>1, <1>2, <1>3, <2>1, <2>5, <2>6, <2>7, <2>8, CoveredKept DEF CoverInv
<1>10. CASE Round /\ ~RunUnread
  <2>1. pc = "round" /\ UNCHANGED <<held, retry, out, alerts>>
    BY <1>10 DEF Round, lists
  <2>2. Active = ToSet(queue) /\ HeldPRs' = HeldPRs
    BY <2>1 DEF Active, Queued, HeldPRs
  <2>3. CASE pc' # "plan"
    <3>1. pending' = pending \union ToSet(queue)
      BY <1>10, <2>3 DEF Round
    <3>2. Active \subseteq Active' \union Noted' /\ pending \subseteq pending'
      BY <2>2, <3>1 DEF Noted
    <3> QED BY <1>1, <1>2, <1>3, <2>1, <2>2, <3>2, CoveredKept DEF CoverInv
  <2>4. CASE pc' = "plan"
    <3>1. UNCHANGED pending
      BY <1>10, <2>4 DEF Round, lists
    <3>2. Active \subseteq Active'
      <4>1. PICK size \in FamilySizes :
                 fold' = [base |-> Tip, acc |-> BaseCommit(Tip), steps |-> <<>>,
                          todo |-> Upto(queue, size), rest |-> From(queue, size + 1), size |-> size]
        BY <1>10, <2>4 DEF Round
      <4>2. fold'.todo = Upto(queue, size) /\ fold'.rest = From(queue, size + 1)
        BY <4>1
      <4>3. ToSet(queue) = ToSet(Upto(queue, size)) \union ToSet(From(queue, size + 1))
        BY SizesAssumption, ListChunk DEF TypeOK, ThreadTyped
      <4>4. ToSet(queue) \subseteq Mine'
        BY <4>2, <4>3 DEF Mine
      <4>5. Active' = Around'
        BY <2>4 DEF Active, Queued
      <4> QED BY <2>2, <4>4, <4>5 DEF Around, Served
    <3> QED BY <1>1, <1>2, <1>3, <2>1, <2>2, <3>1, <3>2, CoveredKept DEF CoverInv
  <2> QED BY <2>3, <2>4
<1>11. CASE ~InRound /\ ((\E f \in DOMAIN families : Gate(f)) \/ Disturb \/ Finished \/ UNCHANGED vars)
  <2>1. UNCHANGED <<thread, lists, pc>>
    BY <1>11 DEF Gate, GateCancelled, GateReused, GateStart, GatePostponed, GateFinish, GateRecord, ByGate,
       Disturb, Outside, Finished, vars
  <2>2. UNCHANGED <<queue, held, retry, pending, out, alerts>>
    BY <2>1 DEF thread, lists
  <2>3. Active' = Active /\ HeldPRs' = HeldPRs
    BY <1>11, <2>1, <2>2 DEF Active, InRound, Queued, HeldPRs
  <2> QED BY <1>1, <1>2, <1>3, <2>2, <2>3, CoveredKept DEF CoverInv
<1>12. InRound \/ ~(PlanStep \/ PlanClose \/ Submit \/ Collect \/ PartsDone \/ Part \/ PartGated \/ Land \/ Cancel)
  <2>1. CASE PlanStep \/ PlanClose \/ Submit \/ Collect \/ PartsDone \/ Part \/ PartGated \/ Cancel
    BY <2>1 DEF PlanStep, PlanClose, Submit, Collect, PartsDone, Part, PartGated, Cancel, InRound, Queued
  <2>2. CASE Land
    BY <2>2 DEF Land, LandCheck, Decide, Reobserve, Push, Await, Merge, Confirm, InRound, Queued
  <2> QED BY <2>1, <2>2
<1> QED BY <1>4, <1>5, <1>6, <1>7, <1>8, <1>9, <1>10, <1>11, <1>12 DEF Next, Train

LEMMA InitCover == ASSUME Init PROVE CoverInv
<1>1. /\ stack = <<>> /\ pc = "snapshot" /\ out = {} /\ families = <<>> /\ PR \subseteq ToSet(queue)
  BY DEF Init
<1>2. Emptied /\ FirstRead
  BY <1>1 DEF Emptied, FirstRead
<1>3. EndedRests
  BY <1>1 DEF EndedRests
<1>4. Covered
  BY <1>1 DEF Covered, Active, Queued
<1> QED BY <1>2, <1>3, <1>4 DEF CoverInv

\* Nothing asked of the run is forgotten: at the end every pull request was merged, held,
\* left out, kept pending, named to be retried or (dry) gated, because every step that
\* lets one go names it (run, round, settle_red, land_family).
THEOREM NothingAskedIsForgotten == Spec => []Accounted
<1>1. Init => CoverInv
  BY InitCover
<1>2. TypeOK /\ TypeOK' /\ LandingInv /\ RoundInv /\ PlacesInv /\ CoverInv /\ [Next]_vars => CoverInv'
  BY CoverNext
<1>3. CoverInv => Accounted
  <2>1. pc = "done" => Active = {}
    BY DEF Active, Queued
  <2> QED BY <2>1 DEF CoverInv, Covered, Noted, HeldPRs, Ended, Accounted
<1> QED BY <1>1, <1>2, <1>3, TrainTypeOK, TrainLandingInv, RoundAlways, PlacesAlways, PTL DEF Spec
=============================================================================
