--------------------------- MODULE Readers_proofs ---------------------------
(***************************************************************************)
(* Proofs about Readers for texts, tables and logs of any length: the      *)
(* search, then what a text becomes when it is joined, split and trimmed,  *)
(* then the settings, each listing and the log.                            *)
(***************************************************************************)
EXTENDS Readers, TLAPS, SequenceTheorems, NaturalsInduction, WellFoundedInduction

(* Induction, for a set of naturals: the least natural outside the set has a
   predecessor inside it. *)
LEMMA AllOfNat ==
  ASSUME NEW T \in SUBSET Nat, 0 \in T, \A n \in T : n + 1 \in T
  PROVE  T = Nat
<1> DEFINE R == OpToRel(<, Nat)
<1> SUFFICES ASSUME Nat \ T # {} PROVE FALSE
  OBVIOUS
<1>1. R = {ss \in Nat \X Nat : ss[1] < ss[2]}
  BY Zenon DEF OpToRel
<1>2. IsWellFoundedOn(R, Nat)
  BY NatLessThanWellFounded
<1>3. \E x \in Nat \ T : \A y \in Nat \ T : <<y, x>> \notin R
  <2> HIDE DEF R
  <2> QED
    BY <1>2, WFMin
<1> HIDE DEF R
<1>4. PICK x \in Nat \ T : \A y \in Nat \ T : <<y, x>> \notin R
  BY <1>3
<1>5. x - 1 \in Nat /\ (x - 1) + 1 = x /\ x - 1 < x
  BY <1>4
<1>6. x - 1 \notin T
  BY <1>4, <1>5
<1>7. <<x - 1, x>> \in Nat \X Nat /\ <<x - 1, x>>[1] = x - 1 /\ <<x - 1, x>>[2] = x
  BY <1>4, <1>5
<1> QED
  BY <1>1, <1>4, <1>5, <1>6, <1>7

-----------------------------------------------------------------------------
(* The search. *)

(* One step of the loop of Places, as an equation for the function h that maps i
   to the places among the first i. *)
FoundStep(h, marks, n) ==
    [i \in 0 .. n |->
        IF i = 0 THEN <<>>
        ELSE IF marks[i] THEN Append(h[i - 1], i)
        ELSE h[i - 1]]

(* Places is what a solution of the equation has at the end ... *)
LEMMA PlacesIs ==
  ASSUME NEW marks, \E g : g = FoundStep(g, marks, Len(marks))
  PROVE  \E h : h = FoundStep(h, marks, Len(marks)) /\ Places(marks) = h[Len(marks)]
<1> DEFINE K == CHOOSE found : found = FoundStep(found, marks, Len(marks))
<1>1. Places(marks) = K[Len(marks)]
  BY Zenon DEF Places, FoundStep
<1>2. K = FoundStep(K, marks, Len(marks))
  BY Zenon
<1> QED
  BY <1>1, <1>2, Zenon

(* The equation, at one place. *)
LEMMA FoundAt ==
  ASSUME NEW h, NEW marks, NEW n \in Nat, h = FoundStep(h, marks, n), NEW i \in 0 .. n
  PROVE  /\ i = 0 => h[i] = <<>>
         /\ i # 0 /\ marks[i] => h[i] = Append(h[i - 1], i)
         /\ i # 0 /\ ~marks[i] => h[i] = h[i - 1]
<1>1. h[i] = FoundStep(h, marks, n)[i]
  OBVIOUS
<1> QED
  BY <1>1, Zenon DEF FoundStep

(* The equation, from one place to the next. *)
LEMMA FoundNext ==
  ASSUME NEW h, NEW marks, NEW n \in Nat, h = FoundStep(h, marks, n), NEW i \in Nat, i + 1 <= n
  PROVE  /\ marks[i + 1] => h[i + 1] = Append(h[i], i + 1)
         /\ ~marks[i + 1] => h[i + 1] = h[i]
<1> DEFINE j == i + 1
<1>1. j \in 0 .. n /\ j # 0 /\ j - 1 = i
  OBVIOUS
<1> HIDE DEF j
<1>2. /\ marks[j] => h[j] = Append(h[j - 1], j)
      /\ ~marks[j] => h[j] = h[j - 1]
  BY <1>1, FoundAt
<1>3. /\ marks[j] => h[j] = Append(h[i], j)
      /\ ~marks[j] => h[j] = h[i]
  BY <1>1, <1>2
<1> QED
  BY <1>3 DEF j

(* ... and it has a solution. *)
LEMMA FoundExists ==
  ASSUME NEW marks, NEW m \in Nat
  PROVE  \E h : h = FoundStep(h, marks, m)
<1> DEFINE T == {n \in Nat : \E h : h = FoundStep(h, marks, n)}
<1>1. 0 \in T
  <2> DEFINE h == [i \in 0 .. 0 |-> <<>>]
  <2>1. h = FoundStep(h, marks, 0)
    BY DEF FoundStep
  <2> QED
    BY <2>1, Zenon
<1>2. ASSUME NEW n \in T PROVE n + 1 \in T
  <2>1. PICK h : h = FoundStep(h, marks, n)
    OBVIOUS
  <2> DEFINE last == IF marks[n + 1] THEN Append(h[n], n + 1) ELSE h[n]
             g == [i \in 0 .. (n + 1) |-> IF i <= n THEN h[i] ELSE last]
  <2>2. g = FoundStep(g, marks, n + 1)
    <3> SUFFICES ASSUME NEW i \in 0 .. (n + 1)
                 PROVE  g[i] = IF i = 0 THEN <<>>
                               ELSE IF marks[i] THEN Append(g[i - 1], i)
                               ELSE g[i - 1]
      BY Zenon DEF FoundStep
    <3> HIDE DEF last
    <3>1. CASE i = 0
      <4>1. h[0] = <<>>
        <5>1. n \in Nat /\ 0 \in 0 .. n
          OBVIOUS
        <5> QED
          BY <2>1, <5>1, FoundAt
      <4> QED
        BY <3>1, <4>1
    <3>2. CASE i \in 1 .. n
      <4>1. g[i] = h[i] /\ g[i - 1] = h[i - 1] /\ i \in 0 .. n /\ i # 0
        BY <3>2
      <4> HIDE DEF g
      <4>2. h[i] = IF marks[i] THEN Append(h[i - 1], i) ELSE h[i - 1]
        BY <2>1, <4>1, FoundAt
      <4> QED
        BY <4>1, <4>2
    <3>3. CASE i = n + 1
      <4>1. g[i] = last /\ g[i - 1] = h[n] /\ i # 0
        BY <3>3
      <4> HIDE DEF g
      <4> QED
        BY <3>3, <4>1 DEF last
    <3> QED
      BY <3>1, <3>2, <3>3
  <2> HIDE DEF g
  <2>3. n + 1 \in Nat
    OBVIOUS
  <2> QED
    BY <2>2, <2>3
<1>3. T = Nat
  <2> HIDE DEF T
  <2>1. T \in SUBSET Nat
    BY DEF T
  <2> QED
    BY <1>1, <1>2, <2>1, AllOfNat
<1> QED
  BY <1>3

(* So Places can be reasoned about as the last value of a solution. *)
LEMMA PlacesOf ==
  ASSUME NEW marks, NEW m \in Nat, Len(marks) = m
  PROVE  \E h : h = FoundStep(h, marks, m) /\ Places(marks) = h[m]
<1>1. \E g : g = FoundStep(g, marks, Len(marks))
  BY FoundExists
<1> QED
  BY <1>1, PlacesIs

(* What a solution holds: places up to i. *)
LEMMA FoundTyped ==
  ASSUME NEW marks, NEW n \in Nat, NEW h, h = FoundStep(h, marks, n)
  PROVE  \A i \in 0 .. n : h[i] \in Seq(Nat) /\ \A k \in 1 .. Len(h[i]) : h[i][k] \in 1 .. i
<1> DEFINE P(i) == h[i] \in Seq(Nat) /\ \A k \in 1 .. Len(h[i]) : h[i][k] \in 1 .. i
           T == {i \in Nat : i <= n => P(i)}
<1>1. 0 \in T
  <2>1. 0 \in 0 .. n
    OBVIOUS
  <2>2. h[0] = <<>>
    BY <2>1, FoundAt
  <2>3. <<>> \in Seq(Nat) /\ \A k \in 1 .. Len(<<>>) : <<>>[k] \in 1 .. 0
    OBVIOUS
  <2>4. P(0)
    BY <2>2, <2>3, Zenon
  <2> HIDE DEF P
  <2> QED
    BY <2>4
<1>2. ASSUME NEW i \in T PROVE i + 1 \in T
  <2> SUFFICES ASSUME i + 1 <= n PROVE P(i + 1)
    <3> HIDE DEF P
    <3> QED
      OBVIOUS
  <2>p. P(i) /\ i \in Nat
    <3> HIDE DEF P
    <3> QED
      OBVIOUS
  <2> HIDE DEF T
  <2> DEFINE s == h[i]
  <2>1. s \in Seq(Nat) /\ \A k \in 1 .. Len(s) : s[k] \in 1 .. i
    BY <2>p
  <2>2. /\ marks[i + 1] => h[i + 1] = Append(s, i + 1)
        /\ ~marks[i + 1] => h[i + 1] = s
    BY <2>p, FoundNext
  <2> HIDE DEF s
  <2>3. Len(s) \in Nat
    BY <2>1
  <2>4. /\ Append(s, i + 1) \in Seq(Nat) /\ Len(Append(s, i + 1)) = Len(s) + 1
        /\ Append(s, i + 1)[Len(s) + 1] = i + 1
        /\ \A k \in 1 .. Len(s) : Append(s, i + 1)[k] = s[k]
    BY <2>p, <2>1
  <2>5. ASSUME NEW k \in 1 .. (Len(s) + 1) PROVE Append(s, i + 1)[k] \in 1 .. (i + 1)
    <3>1. CASE k = Len(s) + 1
      BY <2>p, <2>4, <3>1
    <3>2. CASE k \in 1 .. Len(s)
      BY <2>p, <2>1, <2>4, <3>2
    <3> QED
      BY <2>3, <3>1, <3>2
  <2>6. CASE marks[i + 1]
    BY <2>2, <2>4, <2>5, <2>6
  <2>7. CASE ~marks[i + 1]
    <3>1. \A k \in 1 .. Len(s) : s[k] \in 1 .. (i + 1)
      BY <2>p, <2>1
    <3> QED
      BY <2>1, <2>2, <2>7, <3>1
  <2> QED
    BY <2>6, <2>7
<1>3. T = Nat
  <2> HIDE DEF T
  <2>1. T \in SUBSET Nat
    BY DEF T
  <2> QED
    BY <1>1, <1>2, <2>1, AllOfNat
<1>4. \A i \in 0 .. n : P(i)
  <2> HIDE DEF P
  <2> QED
    BY <1>3
<1> QED
  BY <1>4

(* A place is never smaller than its number. *)
LEMMA FoundAbove ==
  ASSUME NEW marks, NEW n \in Nat, NEW h, h = FoundStep(h, marks, n)
  PROVE  \A i \in 0 .. n : Len(h[i]) <= i /\ \A k \in 1 .. Len(h[i]) : k <= h[i][k]
<1> DEFINE P(i) == Len(h[i]) <= i /\ \A k \in 1 .. Len(h[i]) : k <= h[i][k]
           T == {i \in Nat : i <= n => P(i)}
<1>t. \A i \in 0 .. n : h[i] \in Seq(Nat)
  BY FoundTyped
<1>1. 0 \in T
  <2>1. 0 \in 0 .. n
    OBVIOUS
  <2>2. h[0] = <<>>
    BY <2>1, FoundAt
  <2>3. Len(<<>>) <= 0 /\ \A k \in 1 .. Len(<<>>) : k <= <<>>[k]
    OBVIOUS
  <2>4. P(0)
    BY <2>2, <2>3, Zenon
  <2> HIDE DEF P
  <2> QED
    BY <2>4
<1>2. ASSUME NEW i \in T PROVE i + 1 \in T
  <2> SUFFICES ASSUME i + 1 <= n PROVE P(i + 1)
    <3> HIDE DEF P
    <3> QED
      OBVIOUS
  <2>p. P(i) /\ i \in Nat
    <3> HIDE DEF P
    <3> QED
      OBVIOUS
  <2> HIDE DEF T
  <2> DEFINE s == h[i]
  <2>1. s \in Seq(Nat) /\ Len(s) <= i /\ \A k \in 1 .. Len(s) : k <= s[k]
    <3>1. i \in 0 .. n
      BY <2>p
    <3> QED
      BY <1>t, <2>p, <3>1
  <2>2. /\ marks[i + 1] => h[i + 1] = Append(s, i + 1)
        /\ ~marks[i + 1] => h[i + 1] = s
    BY <2>p, FoundNext
  <2> HIDE DEF s
  <2>3. Len(s) \in Nat
    BY <2>1
  <2>4. /\ Len(Append(s, i + 1)) = Len(s) + 1
        /\ Append(s, i + 1)[Len(s) + 1] = i + 1
        /\ \A k \in 1 .. Len(s) : Append(s, i + 1)[k] = s[k]
    BY <2>p, <2>1
  <2>5. ASSUME NEW k \in 1 .. (Len(s) + 1) PROVE k <= Append(s, i + 1)[k]
    <3>1. CASE k = Len(s) + 1
      BY <2>p, <2>1, <2>3, <2>4, <3>1
    <3>2. CASE k \in 1 .. Len(s)
      BY <2>1, <2>4, <3>2
    <3> QED
      BY <2>3, <3>1, <3>2
  <2>6. CASE marks[i + 1]
    <3>1. Len(s) + 1 <= i + 1
      BY <2>p, <2>1, <2>3
    <3> QED
      BY <2>2, <2>4, <2>5, <2>6, <3>1
  <2>7. CASE ~marks[i + 1]
    <3>1. Len(s) <= i + 1
      BY <2>p, <2>1, <2>3
    <3> QED
      BY <2>1, <2>2, <2>7, <3>1
  <2> QED
    BY <2>6, <2>7
<1>3. T = Nat
  <2> HIDE DEF T
  <2>1. T \in SUBSET Nat
    BY DEF T
  <2> QED
    BY <1>1, <1>2, <2>1, AllOfNat
<1>4. \A i \in 0 .. n : P(i)
  <2> HIDE DEF P
  <2> QED
    BY <1>3
<1> QED
  BY <1>4

(* The places of a sequence of marks. *)
LEMMA PlacesTyped ==
  ASSUME NEW marks \in Seq(BOOLEAN)
  PROVE  /\ Places(marks) \in Seq(Nat)
         /\ \A k \in 1 .. Len(Places(marks)) : Places(marks)[k] \in 1 .. Len(marks)
<1>1. Len(marks) \in Nat /\ Len(marks) \in 0 .. Len(marks)
  OBVIOUS
<1>2. PICK h : h = FoundStep(h, marks, Len(marks)) /\ Places(marks) = h[Len(marks)]
  BY <1>1, PlacesOf
<1> QED
  BY <1>1, <1>2, FoundTyped

(* Nor is one of a sequence of marks. *)
LEMMA PlacesAbove ==
  ASSUME NEW marks \in Seq(BOOLEAN)
  PROVE  \A k \in 1 .. Len(Places(marks)) : k <= Places(marks)[k]
<1>1. Len(marks) \in Nat /\ Len(marks) \in 0 .. Len(marks)
  OBVIOUS
<1>2. PICK h : h = FoundStep(h, marks, Len(marks)) /\ Places(marks) = h[Len(marks)]
  BY <1>1, PlacesOf
<1> QED
  BY <1>1, <1>2, FoundAbove

(* Without marks there are no places. *)
LEMMA PlacesNone == Places(<<>>) = <<>>
<1>1. Len(<<>>) = 0 /\ 0 \in Nat /\ 0 \in 0 .. 0
  OBVIOUS
<1>2. PICK h : h = FoundStep(h, <<>>, 0) /\ Places(<<>>) = h[0]
  BY <1>1, PlacesOf
<1>3. h[0] = <<>>
  BY <1>2 DEF FoundStep
<1> QED
  BY <1>2, <1>3

(* Marks that begin alike have the same places there. *)
LEMMA FoundPrefix ==
  ASSUME NEW a, NEW b, NEW m \in Nat, NEW n \in Nat, m <= n,
         \A i \in 1 .. m : a[i] = b[i],
         NEW g, g = FoundStep(g, a, m), NEW h, h = FoundStep(h, b, n)
  PROVE  g[m] = h[m]
<1> DEFINE T == {i \in Nat : i <= m => g[i] = h[i]}
<1>1. 0 \in T
  <2>1. 0 \in 0 .. m /\ 0 \in 0 .. n
    OBVIOUS
  <2>2. g[0] = <<>>
    BY <2>1, FoundAt
  <2>3. h[0] = <<>>
    BY <2>1, FoundAt
  <2> QED
    BY <2>2, <2>3
<1>2. ASSUME NEW i \in T PROVE i + 1 \in T
  <2> SUFFICES ASSUME i + 1 <= m PROVE g[i + 1] = h[i + 1]
    OBVIOUS
  <2>1. /\ i \in Nat /\ i + 1 \in 0 .. n
        /\ i + 1 \in 1 .. m /\ g[i] = h[i]
    OBVIOUS
  <2> HIDE DEF T
  <2>2. a[i + 1] = b[i + 1]
    BY <2>1
  <2>3. /\ a[i + 1] => g[i + 1] = Append(g[i], i + 1)
        /\ ~a[i + 1] => g[i + 1] = g[i]
    BY <2>1, FoundNext
  <2>4. /\ b[i + 1] => h[i + 1] = Append(h[i], i + 1)
        /\ ~b[i + 1] => h[i + 1] = h[i]
    <3>1. i + 1 <= n /\ i \in Nat
      BY <2>1
    <3> QED
      BY <3>1, FoundNext
  <2> QED
    BY <2>1, <2>2, <2>3, <2>4
<1>3. T = Nat
  <2> HIDE DEF T
  <2>1. T \in SUBSET Nat
    BY DEF T
  <2> QED
    BY <1>1, <1>2, <2>1, AllOfNat
<1> QED
  BY <1>3

(* One mark more is one place more, or none. *)
LEMMA PlacesMore ==
  ASSUME NEW a, NEW b, NEW n \in Nat, Len(a) = n, Len(b) = n + 1,
         \A i \in 1 .. n : a[i] = b[i]
  PROVE  /\ b[n + 1] => Places(b) = Append(Places(a), n + 1)
         /\ ~b[n + 1] => Places(b) = Places(a)
<1>1. PICK g : g = FoundStep(g, a, n) /\ Places(a) = g[n]
  BY PlacesOf
<1>2. n + 1 \in Nat /\ n <= n + 1 /\ n + 1 \in 0 .. (n + 1) /\ n + 1 # 0 /\ (n + 1) - 1 = n
  OBVIOUS
<1>3. PICK h : h = FoundStep(h, b, n + 1) /\ Places(b) = h[n + 1]
  BY <1>2, PlacesOf
<1>4. g[n] = h[n]
  <2> DEFINE m == n + 1
  <2>1. m \in Nat /\ n <= m /\ h = FoundStep(h, b, m) /\ g = FoundStep(g, a, n)
    BY <1>1, <1>2, <1>3
  <2> HIDE DEF m
  <2> QED
    BY <2>1, FoundPrefix
<1>5. /\ b[n + 1] => h[n + 1] = Append(h[n], n + 1)
      /\ ~b[n + 1] => h[n + 1] = h[n]
  BY <1>2, <1>3, FoundNext
<1> QED
  BY <1>1, <1>3, <1>4, <1>5

(* Up to the first mark that is not set, the places are 1, 2, 3, ... *)
LEMMA PlacesAll ==
  ASSUME NEW marks, NEW m \in Nat, Len(marks) = m, NEW n \in 0 .. m,
         \A j \in 1 .. n : marks[j]
  PROVE  /\ n <= Len(Places(marks)) /\ \A j \in 1 .. n : Places(marks)[j] = j
         /\ n = m => Len(Places(marks)) = n
<1>1. PICK h : h = FoundStep(h, marks, m) /\ Places(marks) = h[m]
  BY PlacesOf
<1>t. \A i \in 0 .. m : h[i] \in Seq(Nat)
  BY <1>1, FoundTyped
<1> DEFINE T == {i \in Nat : i <= m =>
                    /\ i <= n => Len(h[i]) = i
                    /\ i > n => Len(h[i]) >= n
                    /\ \A j \in 1 .. n : j <= i => h[i][j] = j}
<1>2. 0 \in T
  <2>1. 0 \in 0 .. m
    OBVIOUS
  <2>2. h[0] = <<>>
    BY <1>1, <2>1, FoundAt
  <2> QED
    BY <2>2
<1>3. ASSUME NEW i \in T PROVE i + 1 \in T
  <2> SUFFICES ASSUME i + 1 <= m
               PROVE  /\ i + 1 <= n => Len(h[i + 1]) = i + 1
                      /\ i + 1 > n => Len(h[i + 1]) >= n
                      /\ \A j \in 1 .. n : j <= i + 1 => h[i + 1][j] = j
    OBVIOUS
  <2> DEFINE s == h[i]
             t == h[i + 1]
  <2>1. /\ i + 1 \in 0 .. m /\ i + 1 # 0 /\ (i + 1) - 1 = i /\ i \in Nat /\ n \in Nat
        /\ i \in 0 .. m
    OBVIOUS
  <2>2. /\ i <= n => Len(s) = i
        /\ i > n => Len(s) >= n
        /\ \A j \in 1 .. n : j <= i => s[j] = j
    OBVIOUS
  <2>3. s \in Seq(Nat) /\ Len(s) \in Nat
    BY <1>t, <2>1
  <2>4. /\ marks[i + 1] => t = Append(s, i + 1)
        /\ ~marks[i + 1] => t = s
    <3>1. h = FoundStep(h, marks, m)
      BY <1>1
    <3> QED
      BY <2>1, <3>1, FoundNext
  <2> HIDE DEF T, s, t
  <2>5. /\ Len(Append(s, i + 1)) = Len(s) + 1
        /\ Append(s, i + 1)[Len(s) + 1] = i + 1
        /\ \A k \in 1 .. Len(s) : Append(s, i + 1)[k] = s[k]
    BY <2>1, <2>3
  <2>6. CASE i + 1 <= n
    <3>1. marks[i + 1] /\ Len(s) = i
      BY <2>1, <2>2, <2>6
    <3>2. t = Append(s, i + 1) /\ Len(t) = i + 1
      BY <2>4, <2>5, <3>1
    <3>3. ASSUME NEW j \in 1 .. n, j <= i + 1 PROVE t[j] = j
      <4>1. CASE j = i + 1
        BY <2>5, <3>1, <3>2, <4>1
      <4>2. CASE j <= i
        BY <2>1, <2>2, <2>5, <3>1, <3>2, <4>2
      <4> QED
        BY <2>1, <3>3, <4>1, <4>2
    <3> QED
      BY <2>1, <2>6, <3>2, <3>3 DEF t
  <2>7. CASE i + 1 > n
    <3>1. Len(s) >= n /\ \A j \in 1 .. n : s[j] = j
      BY <2>1, <2>2, <2>7
    <3>2. Len(t) >= n /\ \A j \in 1 .. n : t[j] = j
      <4>1. CASE t = s
        BY <3>1, <4>1
      <4>2. CASE t = Append(s, i + 1)
        <5>1. Len(t) >= n
          BY <2>1, <2>3, <2>5, <3>1, <4>2
        <5>2. \A j \in 1 .. n : j \in 1 .. Len(s)
          BY <2>1, <2>3, <3>1
        <5>3. \A j \in 1 .. n : t[j] = s[j]
          BY <2>5, <4>2, <5>2
        <5> QED
          BY <3>1, <5>1, <5>3
      <4> QED
        BY <2>4, <4>1, <4>2
    <3> QED
      BY <2>1, <2>7, <3>2 DEF t
  <2> QED
    BY <2>1, <2>6, <2>7
<1>4. T = Nat
  <2> HIDE DEF T
  <2>1. T \in SUBSET Nat
    BY DEF T
  <2> QED
    BY <1>2, <1>3, <2>1, AllOfNat
<1>5. /\ m <= n => Len(h[m]) = m
      /\ m > n => Len(h[m]) >= n
      /\ \A j \in 1 .. n : j <= m => h[m][j] = j
  BY <1>4
<1> QED
  BY <1>1, <1>5

(* The loop of Results, like that of Places. *)
TakenStep(h, page, n) ==
    [i \in 0 .. n |->
        IF i = 0 THEN <<>>
        ELSE IF Len(h[i - 1]) >= MaxResults \/ Links(page)[i] = 0 THEN h[i - 1]
        ELSE Append(h[i - 1], [link |-> i, snippet |-> Snippet(page, i)])]

(* Results is what a solution has at the end ... *)
LEMMA ResultsIs ==
  ASSUME NEW page, \E g : g = TakenStep(g, page, Len(page))
  PROVE  \E h : h = TakenStep(h, page, Len(page)) /\ Results(page) = h[Len(page)]
<1> DEFINE K == CHOOSE after : after = TakenStep(after, page, Len(page))
<1>1. Results(page) = K[Len(page)]
  BY Zenon DEF Results, TakenStep
<1>2. K = TakenStep(K, page, Len(page))
  BY Zenon
<1> QED
  BY <1>1, <1>2, Zenon

(* The equation of Results, at one place. *)
LEMMA TakenAt ==
  ASSUME NEW h, NEW page, NEW n \in Nat, h = TakenStep(h, page, n), NEW i \in 0 .. n
  PROVE  /\ i = 0 => h[i] = <<>>
         /\ i # 0 => h[i] = IF Len(h[i - 1]) >= MaxResults \/ Links(page)[i] = 0 THEN h[i - 1]
                            ELSE Append(h[i - 1], [link |-> i, snippet |-> Snippet(page, i)])
<1>1. h[i] = TakenStep(h, page, n)[i]
  OBVIOUS
<1> QED
  BY <1>1, Zenon DEF TakenStep

(* The equation of Results, from one link to the next. *)
LEMMA TakenNext ==
  ASSUME NEW h, NEW page, NEW n \in Nat, h = TakenStep(h, page, n), NEW i \in Nat, i + 1 <= n
  PROVE  h[i + 1] = IF Len(h[i]) >= MaxResults \/ Links(page)[i + 1] = 0 THEN h[i]
                    ELSE Append(h[i], [link |-> i + 1, snippet |-> Snippet(page, i + 1)])
<1> DEFINE j == i + 1
<1>1. j \in 0 .. n /\ j # 0 /\ j - 1 = i
  OBVIOUS
<1> HIDE DEF j
<1>2. h[j] = IF Len(h[j - 1]) >= MaxResults \/ Links(page)[j] = 0 THEN h[j - 1]
             ELSE Append(h[j - 1], [link |-> j, snippet |-> Snippet(page, j)])
  BY <1>1, TakenAt
<1>3. h[j] = IF Len(h[i]) >= MaxResults \/ Links(page)[j] = 0 THEN h[i]
             ELSE Append(h[i], [link |-> j, snippet |-> Snippet(page, j)])
  BY <1>1, <1>2
<1> QED
  BY <1>3 DEF j

(* ... and it has a solution. *)
LEMMA TakenExists ==
  ASSUME NEW page, NEW m \in Nat
  PROVE  \E h : h = TakenStep(h, page, m)
<1> DEFINE T == {n \in Nat : \E h : h = TakenStep(h, page, n)}
<1>1. 0 \in T
  <2> DEFINE h == [i \in 0 .. 0 |-> <<>>]
  <2>1. h = TakenStep(h, page, 0)
    BY DEF TakenStep
  <2> QED
    BY <2>1, Zenon
<1>2. ASSUME NEW n \in T PROVE n + 1 \in T
  <2>1. PICK h : h = TakenStep(h, page, n)
    OBVIOUS
  <2> DEFINE row == [link |-> n + 1, snippet |-> Snippet(page, n + 1)]
             last == IF Len(h[n]) >= MaxResults \/ Links(page)[n + 1] = 0 THEN h[n]
                     ELSE Append(h[n], row)
             g == [i \in 0 .. (n + 1) |-> IF i <= n THEN h[i] ELSE last]
  <2>2. g = TakenStep(g, page, n + 1)
    <3> SUFFICES ASSUME NEW i \in 0 .. (n + 1)
                 PROVE  g[i] = IF i = 0 THEN <<>>
                               ELSE IF Len(g[i - 1]) >= MaxResults \/ Links(page)[i] = 0
                               THEN g[i - 1]
                               ELSE Append(g[i - 1], [link |-> i, snippet |-> Snippet(page, i)])
      BY Zenon DEF TakenStep
    <3> HIDE DEF last
    <3>1. CASE i = 0
      <4>1. h[0] = <<>>
        <5>1. n \in Nat /\ 0 \in 0 .. n
          OBVIOUS
        <5> QED
          BY <2>1, <5>1, TakenAt
      <4> QED
        BY <3>1, <4>1
    <3>2. CASE i \in 1 .. n
      <4>1. g[i] = h[i] /\ g[i - 1] = h[i - 1] /\ i \in 0 .. n /\ i # 0
        BY <3>2
      <4> HIDE DEF g
      <4>2. h[i] = IF Len(h[i - 1]) >= MaxResults \/ Links(page)[i] = 0 THEN h[i - 1]
                   ELSE Append(h[i - 1], [link |-> i, snippet |-> Snippet(page, i)])
        BY <2>1, <4>1, TakenAt
      <4> QED
        BY <4>1, <4>2
    <3>3. CASE i = n + 1
      <4>1. g[i] = last /\ g[i - 1] = h[n] /\ i # 0
        BY <3>3
      <4> HIDE DEF g
      <4> QED
        BY <3>3, <4>1 DEF last
    <3> QED
      BY <3>1, <3>2, <3>3
  <2> HIDE DEF g
  <2>3. n + 1 \in Nat
    OBVIOUS
  <2> QED
    BY <2>2, <2>3
<1>3. T = Nat
  <2> HIDE DEF T
  <2>1. T \in SUBSET Nat
    BY DEF T
  <2> QED
    BY <1>1, <1>2, <2>1, AllOfNat
<1> QED
  BY <1>3

(* The parts of a hit. *)
LEMMA HitIs ==
  ASSUME NEW page \in Seq(Hits), NEW i \in 1 .. Len(page)
  PROVE  page[i].title \in BOOLEAN /\ page[i].snippet \in BOOLEAN
<1>1. page[i] \in Hits
  BY ElementOfSeq
<1> QED
  BY <1>1 DEF Hits

(* A hit has the snippet of its own place as long as no hit before lacks one. *)
LEMMA OwnSnippet ==
  ASSUME NEW page \in Seq(Hits), NEW i \in 1 .. Len(page), \A j \in 1 .. i : page[j].snippet
  PROVE  Snippet(page, i) = i
<1> DEFINE marks == [j \in DOMAIN page |-> page[j].snippet]
           m == Len(page)
<1>1. m \in Nat /\ DOMAIN page = 1 .. m /\ i \in 0 .. m /\ i \in 1 .. i
  OBVIOUS
<1>2. marks \in Seq(BOOLEAN) /\ Len(marks) = m /\ \A j \in 1 .. i : marks[j]
  <2>1. \A j \in 1 .. m : page[j].snippet \in BOOLEAN
    BY HitIs
  <2>2. marks \in [1 .. m -> BOOLEAN]
    BY <1>1, <2>1
  <2>3. \A j \in 1 .. i : marks[j]
    BY <1>1
  <2> HIDE DEF marks
  <2> QED
    BY <1>1, <2>2, <2>3
<1> HIDE DEF marks, m
<1>3. i <= Len(Places(marks)) /\ Places(marks)[i] = i
  BY <1>1, <1>2, PlacesAll
<1>4. Places(marks) \in Seq(Nat)
  BY <1>2, PlacesTyped
<1>5. Snippets(page) = Places(marks)
  BY DEF Snippets, marks
<1>6. i \in DOMAIN Places(marks)
  BY <1>1, <1>3, <1>4
<1> QED
  BY <1>3, <1>5, <1>6 DEF Snippet

(* The rows of a page of results. *)
TakenRows == [link : Nat, snippet : Nat]

(* The results for the first hits are those of the first titles among them. *)
TakenOf(r, t, page) ==
    /\ Len(r) = IF Len(t) < MaxResults THEN Len(t) ELSE MaxResults
    /\ \A k \in 1 .. Len(r) :
          /\ r[k].link = t[k]
          /\ (\A j \in 1..t[k] : page[j].snippet) => r[k].snippet = t[k]
          /\ r[k].snippet = 0 \/ r[k].snippet >= t[k]

(* A snippet is a place, or 0, and never the place of an earlier hit. *)
LEMMA SnippetTyped ==
  ASSUME NEW page \in Seq(Hits), NEW i \in Nat
  PROVE  /\ Snippet(page, i) \in Nat
         /\ Snippet(page, i) = 0 \/ Snippet(page, i) >= i
<1> DEFINE marks == [j \in DOMAIN page |-> page[j].snippet]
<1>1. marks \in Seq(BOOLEAN)
  <2>1. \A j \in 1 .. Len(page) : page[j].snippet \in BOOLEAN
    BY HitIs
  <2>2. marks \in [1 .. Len(page) -> BOOLEAN] /\ Len(page) \in Nat
    BY <2>1
  <2> HIDE DEF marks
  <2> QED
    BY <2>2
<1> HIDE DEF marks
<1>2. Places(marks) \in Seq(Nat) /\ \A k \in 1 .. Len(Places(marks)) : k <= Places(marks)[k]
  BY <1>1, PlacesTyped, PlacesAbove
<1>3. Snippets(page) = Places(marks)
  BY DEF Snippets, marks
<1> DEFINE p == Places(marks)
<1>4. Snippet(page, i) = IF i \in DOMAIN p THEN p[i] ELSE 0
  BY <1>3 DEF Snippet
<1> HIDE DEF p
<1>5. p \in Seq(Nat) /\ \A k \in 1 .. Len(p) : k <= p[k]
  BY <1>2 DEF p
<1>6. CASE i \in DOMAIN p
  <2>1. i \in 1 .. Len(p) /\ p[i] \in Nat /\ i <= p[i]
    BY <1>5, <1>6
  <2> QED
    BY <1>4, <1>6, <2>1
<1>7. CASE i \notin DOMAIN p
  BY <1>4, <1>7
<1> QED
  BY <1>6, <1>7

(* Every page of results matches its page of hits: induction on the links. *)
LEMMA ResultsMatched ==
  ASSUME NEW page \in Seq(Hits), MaxResults \in Nat
  PROVE  ResultsMatch(page)
<1> DEFINE titles == [j \in DOMAIN page |-> page[j].title]
           m == Len(page)
<1>1. m \in Nat /\ DOMAIN page = 1 .. m /\ \A j \in 1 .. m : page[j].title \in BOOLEAN
  <2>1. m \in Nat /\ DOMAIN page = 1 .. m
    OBVIOUS
  <2>2. \A j \in 1 .. m : page[j].title \in BOOLEAN
    BY HitIs
  <2> QED
    BY <2>1, <2>2
<1>2. Len(titles) = m /\ \A j \in 1 .. m : titles[j] = page[j].title
  <2>1. titles \in [1 .. m -> BOOLEAN]
    BY <1>1
  <2>2. \A j \in 1 .. m : titles[j] = page[j].title
    BY <1>1
  <2> HIDE DEF titles
  <2> QED
    BY <1>1, <2>1, <2>2
<1>3. \A j \in 1 .. m : Links(page)[j] = IF titles[j] THEN j ELSE 0
  BY <1>1 DEF Links
<1> HIDE DEF titles, m
<1>4. PICK f : f = FoundStep(f, titles, m) /\ Places(titles) = f[m]
  BY <1>1, <1>2, PlacesOf
<1>5. \A i \in 0 .. m : f[i] \in Seq(Nat)
  BY <1>1, <1>4, FoundTyped
<1>6. PICK h : h = TakenStep(h, page, m) /\ Results(page) = h[m]
  <2>1. \E g : g = TakenStep(g, page, Len(page))
    BY <1>1, TakenExists DEF m
  <2> QED
    BY <2>1, ResultsIs DEF m
<1> DEFINE P(i) == h[i] \in Seq(TakenRows) /\ TakenOf(h[i], f[i], page)
           T == {i \in Nat : i <= m => P(i)}
<1>7. 0 \in T
  <2>0. 0 \in 0 .. m
    BY <1>1
  <2>1. f[0] = <<>>
    BY <1>1, <1>4, <2>0, FoundAt
  <2>2. h[0] = <<>>
    BY <1>1, <1>6, <2>0, TakenAt
  <2>3. P(0)
    BY <2>1, <2>2 DEF TakenOf
  <2> HIDE DEF P
  <2> QED
    BY <2>3
<1>8. ASSUME NEW i \in T PROVE i + 1 \in T
  <2> SUFFICES ASSUME i + 1 <= m PROVE P(i + 1)
    <3> HIDE DEF P
    <3> QED
      OBVIOUS
  <2>1. P(i) /\ i \in Nat
    <3>1. i \in Nat /\ i <= m
      BY <1>1
    <3> HIDE DEF P
    <3> QED
      BY <3>1
  <2> HIDE DEF T
  <2> DEFINE r == h[i]
             t == f[i]
             row == [link |-> i + 1, snippet |-> Snippet(page, i + 1)]
  <2>2. /\ titles[i + 1] => f[i + 1] = Append(t, i + 1)
        /\ ~titles[i + 1] => f[i + 1] = t
    BY <1>1, <1>4, <2>1, FoundNext
  <2>3. h[i + 1] = IF Len(r) >= MaxResults \/ Links(page)[i + 1] = 0 THEN r ELSE Append(r, row)
    BY <1>1, <1>6, <2>1, TakenNext
  <2>4. t \in Seq(Nat) /\ r \in Seq(TakenRows) /\ TakenOf(r, t, page)
    BY <1>1, <1>5, <2>1
  <2>5. Links(page)[i + 1] = 0 <=> ~titles[i + 1]
    BY <1>1, <1>3, <2>1
  <2>6. row \in TakenRows
    BY <2>1, SnippetTyped DEF TakenRows
  <2>7. /\ row.link = i + 1
        /\ (\A j \in 1 .. (i + 1) : page[j].snippet) => row.snippet = i + 1
        /\ row.snippet = 0 \/ row.snippet >= i + 1
    <3>1. i + 1 \in 1 .. Len(page) /\ i + 1 \in Nat
      BY <1>1, <2>1 DEF m
    <3> QED
      BY <3>1, OwnSnippet, SnippetTyped
  <2> HIDE DEF r, t, row
  <2>8. Len(r) \in Nat /\ Len(t) \in Nat
    BY <2>4
  <2>9. /\ Len(Append(t, i + 1)) = Len(t) + 1
        /\ Append(t, i + 1)[Len(t) + 1] = i + 1
        /\ \A k \in 1 .. Len(t) : Append(t, i + 1)[k] = t[k]
    BY <2>1, <2>4
  <2>10. /\ Len(Append(r, row)) = Len(r) + 1 /\ Append(r, row) \in Seq(TakenRows)
         /\ Append(r, row)[Len(r) + 1] = row
         /\ \A k \in 1 .. Len(r) : Append(r, row)[k] = r[k]
    BY <2>4, <2>6
  <2>11. CASE ~titles[i + 1]
    BY <2>2, <2>3, <2>4, <2>5, <2>11
  <2>12. CASE titles[i + 1] /\ Len(r) >= MaxResults
    <3>1. h[i + 1] = r /\ f[i + 1] = Append(t, i + 1)
      BY <2>2, <2>3, <2>12
    <3>2. Len(r) <= Len(t) /\ Len(r) = MaxResults /\ ~(Len(Append(t, i + 1)) < MaxResults)
      BY <2>4, <2>8, <2>9, <2>12 DEF TakenOf
    <3>3. \A k \in 1 .. Len(r) : Append(t, i + 1)[k] = t[k]
      BY <2>8, <2>9, <3>2
    <3>4. TakenOf(r, Append(t, i + 1), page)
      BY <2>4, <3>2, <3>3 DEF TakenOf
    <3> QED
      BY <2>4, <3>1, <3>4
  <2>13. CASE titles[i + 1] /\ ~(Len(r) >= MaxResults)
    <3>1. h[i + 1] = Append(r, row) /\ f[i + 1] = Append(t, i + 1)
      BY <2>2, <2>3, <2>5, <2>13
    <3>2. Len(r) = Len(t) /\ Len(t) < MaxResults
      BY <2>4, <2>8, <2>13 DEF TakenOf
    <3> DEFINE r1 == Append(r, row)
               t1 == Append(t, i + 1)
    <3>3. ASSUME NEW k \in 1 .. (Len(r) + 1)
          PROVE  /\ r1[k].link = t1[k]
                 /\ (\A j \in 1..t1[k] : page[j].snippet) => r1[k].snippet = t1[k]
                 /\ r1[k].snippet = 0 \/ r1[k].snippet >= t1[k]
      <4>1. CASE k = Len(r) + 1
        <5>1. r1[k] = row /\ t1[k] = i + 1
          BY <2>9, <2>10, <3>2, <4>1
        <5> QED
          BY <2>7, <5>1
      <4>2. CASE k \in 1 .. Len(r)
        <5>1. r1[k] = r[k] /\ t1[k] = t[k]
          BY <2>9, <2>10, <3>2, <4>2
        <5>2. /\ r[k].link = t[k]
              /\ (\A j \in 1..t[k] : page[j].snippet) => r[k].snippet = t[k]
              /\ r[k].snippet = 0 \/ r[k].snippet >= t[k]
          BY <2>4, <4>2 DEF TakenOf
        <5> QED
          BY <5>1, <5>2
      <4>3. k = Len(r) + 1 \/ k \in 1 .. Len(r)
        BY <2>8
      <4> HIDE DEF r1, t1
      <4> QED
        BY <4>1, <4>2, <4>3
    <3>4. Len(r1) = Len(r) + 1 /\ Len(t1) = Len(r) + 1 /\ r1 \in Seq(TakenRows)
      BY <2>9, <2>10, <3>2
    <3> HIDE DEF r1, t1
    <3>5. Len(r1) = IF Len(t1) < MaxResults THEN Len(t1) ELSE MaxResults
      BY <2>8, <3>2, <3>4
    <3>6. TakenOf(r1, t1, page)
      BY <3>3, <3>4, <3>5 DEF TakenOf
    <3> QED
      BY <3>1, <3>4, <3>6 DEF r1, t1
  <2> QED
    BY <2>11, <2>12, <2>13
<1>9. T = Nat
  <2> HIDE DEF T
  <2>1. T \in SUBSET Nat
    BY DEF T
  <2> QED
    BY <1>7, <1>8, <2>1, AllOfNat
<1>10. P(m)
  <2> HIDE DEF P
  <2> QED
    BY <1>1, <1>9
<1>11. Results(page) \in Seq(TakenRows) /\ TakenOf(Results(page), Places(titles), page)
  BY <1>4, <1>6, <1>10
<1>12. DOMAIN Results(page) = 1 .. Len(Results(page))
  BY <1>11
<1> QED
  BY <1>11, <1>12 DEF ResultsMatch, TakenOf, titles

(* Links: what a target consists of, and its encoding. *)
Plain == Letters \ {"%", "+"}
Code == Letters \cup Hex
ReadChars == Code \cup {" ", "other"}

(* What is decoded is a character. *)
LEMMA DecodedIs ==
  ASSUME NEW s \in Seq(Code), Decodable(s), NEW i \in 1 .. Len(s)
  PROVE  Decoded(s, i) \in ReadChars
<1>1. s[i] \in Code
  BY ElementOfSeq
<1> QED
  BY <1>1 DEF Decoded, ReadChars, Code, Letters, Hex

(* The starts of a text are places in it. *)
LEMMA StartsIs ==
  ASSUME NEW s \in Seq(Code)
  PROVE  /\ Starts(s) \in Seq(Nat) /\ Len(Starts(s)) \in Nat
         /\ \A k \in 1 .. Len(Starts(s)) : Starts(s)[k] \in 1 .. Len(s)
<1> DEFINE marks == [i \in 1 .. Len(s) |-> ~Inside(s, i)]
<1>1. marks \in Seq(BOOLEAN) /\ Len(marks) = Len(s)
  <2>1. marks \in [1 .. Len(s) -> BOOLEAN] /\ Len(s) \in Nat
    OBVIOUS
  <2> HIDE DEF marks
  <2> QED
    BY <2>1
<1>2. Starts(s) = Places(marks)
  BY DEF Starts
<1> HIDE DEF marks
<1> QED
  BY <1>1, <1>2, PlacesTyped

(* In a decodable text no escape reaches beyond the end, so one character more,
   or one escape more, is one character more to read. *)
LEMMA InsideStays ==
  ASSUME NEW s \in Seq(Code), NEW t \in Seq(Code), NEW n \in Nat, Len(s) = n, Decodable(s),
         n < Len(t), \A i \in 1 .. n : s[i] = t[i]
  PROVE  /\ \A i \in 1 .. n : Inside(s, i) <=> Inside(t, i)
         /\ ~Inside(t, n + 1)
<1>1. ASSUME NEW i \in 1 .. n PROVE Inside(s, i) <=> Inside(t, i)
  <2>1. \A d \in 1 .. 2 : d < i => s[i - d] = t[i - d]
    <3> TAKE d \in 1 .. 2
    <3> HAVE d < i
    <3>1. i - d \in 1 .. n
      OBVIOUS
    <3> QED
      BY <3>1
  <2> QED
    BY <2>1 DEF Inside
<1>2. ASSUME Inside(t, n + 1) PROVE FALSE
  <2>1. PICK d \in 1 .. 2 : d < n + 1 /\ t[(n + 1) - d] = "%"
    BY <1>2 DEF Inside
  <2> DEFINE i == (n + 1) - d
  <2>2. i \in 1 .. n /\ ~(i + 2 <= n)
    BY <2>1
  <2>3. t[i] = "%"
    BY <2>1
  <2> HIDE DEF i
  <2>4. i \in DOMAIN s /\ s[i] = "%"
    BY <2>2, <2>3
  <2> QED
    BY <2>2, <2>4 DEF Decodable
<1> QED
  BY <1>1, <1>2

(* The marks of what is not inside of an escape, among the first k. *)
Outside(t, k) == [i \in 1 .. k |-> ~Inside(t, i)]

(* The marks of a text continued. *)
LEMMA OutsideMore ==
  ASSUME NEW t, NEW n \in Nat
  PROVE  /\ Inside(t, n + 1) => Places(Outside(t, n + 1)) = Places(Outside(t, n))
         /\ ~Inside(t, n + 1) => Places(Outside(t, n + 1)) = Append(Places(Outside(t, n)), n + 1)
<1> DEFINE a == Outside(t, n)
           b == Outside(t, n + 1)
<1>1. Len(a) = n /\ Len(b) = n + 1
  BY DEF Outside
<1>2. \A i \in 1 .. n : a[i] = b[i]
  BY DEF Outside
<1>3. b[n + 1] <=> ~Inside(t, n + 1)
  <2>1. n + 1 \in 1 .. (n + 1)
    OBVIOUS
  <2> QED
    BY <2>1, Zenon DEF Outside
<1> HIDE DEF a, b
<1>4. /\ b[n + 1] => Places(b) = Append(Places(a), n + 1)
      /\ ~b[n + 1] => Places(b) = Places(a)
  BY <1>1, <1>2, PlacesMore
<1> QED
  BY <1>3, <1>4 DEF a, b

(* One character more, or one escape more, is one start more. *)
LEMMA StartsMore ==
  ASSUME NEW s \in Seq(Code), NEW t \in Seq(Code), NEW n \in Nat, Len(s) = n, Decodable(s),
         \A i \in 1 .. n : s[i] = t[i],
         Len(t) = n + 1 \/ (Len(t) = n + 3 /\ t[n + 1] = "%")
  PROVE  Starts(t) = Append(Starts(s), n + 1)
<1>1. n < Len(t)
  OBVIOUS
<1>2. Starts(s) = Places(Outside(t, n))
  <2>1. \A i \in 1 .. n : ~Inside(s, i) <=> ~Inside(t, i)
    BY <1>1, InsideStays
  <2>2. [i \in 1 .. n |-> ~Inside(s, i)] = [i \in 1 .. n |-> ~Inside(t, i)]
    BY <2>1, Zenon
  <2>3. DOMAIN s = 1 .. n
    OBVIOUS
  <2> QED
    BY <2>2, <2>3 DEF Starts, Outside
<1>3. Places(Outside(t, n + 1)) = Append(Places(Outside(t, n)), n + 1)
  <2>1. ~Inside(t, n + 1)
    BY <1>1, InsideStays
  <2> QED
    BY <2>1, OutsideMore
<1>4. Starts(t) = Places(Outside(t, Len(t)))
  <2>1. DOMAIN t = 1 .. Len(t)
    OBVIOUS
  <2> QED
    BY <2>1 DEF Starts, Outside
<1>5. CASE Len(t) = n + 1
  BY <1>2, <1>3, <1>4, <1>5
<1>6. CASE Len(t) = n + 3 /\ t[n + 1] = "%"
  <2> DEFINE k == n + 1
             m == k + 1
  <2>1. k \in Nat /\ m \in Nat /\ m + 1 = n + 3
    OBVIOUS
  <2>2. Inside(t, m)
    <3>1. 1 \in 1 .. 2 /\ 1 < m /\ m - 1 = n + 1
      OBVIOUS
    <3> QED
      BY <1>6, <3>1 DEF Inside
  <2>3. Inside(t, m + 1)
    <3>1. 2 \in 1 .. 2 /\ 2 < m + 1 /\ (m + 1) - 2 = n + 1
      OBVIOUS
    <3> QED
      BY <1>6, <3>1 DEF Inside
  <2> HIDE DEF m
  <2>4. Places(Outside(t, m + 1)) = Places(Outside(t, m))
    BY <2>1, <2>3, OutsideMore
  <2>5. Places(Outside(t, m)) = Places(Outside(t, k))
    <3> HIDE DEF k
    <3> QED
      BY <2>1, <2>2, OutsideMore DEF m
  <2> QED
    BY <1>2, <1>3, <1>4, <1>6, <2>1, <2>4, <2>5
<1> QED
  BY <1>5, <1>6

(* ... and one character more of the decoded text. *)
LEMMA UnescapeMore ==
  ASSUME NEW s \in Seq(Code), NEW t \in Seq(Code), NEW n \in Nat, Len(s) = n,
         Decodable(s), Decodable(t),
         \A i \in 1 .. n : s[i] = t[i],
         Len(t) = n + 1 \/ (Len(t) = n + 3 /\ t[n + 1] = "%")
  PROVE  /\ QueryUnescape(s) \in Seq(ReadChars)
         /\ QueryUnescape(t) = Append(QueryUnescape(s), Decoded(t, n + 1))
<1> DEFINE p == Starts(s)
           l == Len(p)
           q == Starts(t)
           u == QueryUnescape(s)
           v == QueryUnescape(t)
           x == Decoded(t, n + 1)
<1>1. p \in Seq(Nat) /\ l \in Nat /\ \A k \in 1 .. l : p[k] \in 1 .. n
  BY StartsIs
<1>2. q = Append(p, n + 1)
  BY StartsMore
<1> HIDE DEF p, q
<1>3. /\ Len(q) = l + 1 /\ DOMAIN q = 1 .. (l + 1) /\ q[l + 1] = n + 1
      /\ \A k \in 1 .. l : q[k] = p[k]
  BY <1>1, <1>2
<1>4. u = [k \in 1 .. l |-> Decoded(s, p[k])]
  <2>1. DOMAIN p = 1 .. l
    BY <1>1
  <2> QED
    BY <2>1 DEF QueryUnescape, p
<1>5. v = [k \in 1 .. (l + 1) |-> Decoded(t, q[k])]
  BY <1>3 DEF QueryUnescape, q
<1>6. x \in ReadChars
  <2>1. n + 1 \in 1 .. Len(t)
    OBVIOUS
  <2> QED
    BY <2>1, DecodedIs
<1>7. u \in Seq(ReadChars) /\ Len(u) = l /\ \A k \in 1 .. l : u[k] = Decoded(s, p[k])
  <2>1. \A k \in 1 .. l : Decoded(s, p[k]) \in ReadChars
    BY <1>1, DecodedIs
  <2>2. u \in [1 .. l -> ReadChars]
    BY <1>4, <2>1
  <2>3. \A k \in 1 .. l : u[k] = Decoded(s, p[k])
    BY <1>4
  <2>4. l \in Nat
    BY <1>1
  <2> HIDE DEF u, l
  <2>5. u \in Seq(ReadChars) /\ Len(u) = l
    BY <2>2, <2>4
  <2> QED
    BY <2>3, <2>5
<1>8. ASSUME NEW i \in 1 .. n PROVE Decoded(t, i) = Decoded(s, i)
  <2>1. s[i] = t[i] /\ i \in DOMAIN s
    OBVIOUS
  <2>2. CASE s[i] = "%"
    <3>1. i + 2 <= n
      BY <2>1, <2>2 DEF Decodable
    <3>2. i + 1 \in 1 .. n /\ i + 2 \in 1 .. n
      BY <3>1
    <3>3. s[i + 1] = t[i + 1] /\ s[i + 2] = t[i + 2]
      BY <3>2
    <3> QED
      BY <2>1, <3>3 DEF Decoded
  <2>3. CASE s[i] # "%"
    BY <2>1, <2>3 DEF Decoded
  <2> QED
    BY <2>2, <2>3
<1> HIDE DEF u, v, x, l
<1>9. /\ Append(u, x) \in Seq(ReadChars) /\ Len(Append(u, x)) = l + 1
      /\ Append(u, x)[l + 1] = x
      /\ \A k \in 1 .. l : Append(u, x)[k] = u[k]
  BY <1>6, <1>7, AppendProperties
<1>10. ASSUME NEW k \in 1 .. (l + 1) PROVE v[k] = Append(u, x)[k]
  <2>1. v[k] = Decoded(t, q[k])
    BY <1>5
  <2>2. CASE k = l + 1
    BY <1>3, <1>9, <2>1, <2>2 DEF x
  <2>3. CASE k \in 1 .. l
    <3>1. q[k] = p[k] /\ p[k] \in 1 .. n
      BY <1>1, <1>3, <2>3
    <3>2. Decoded(t, p[k]) = Decoded(s, p[k])
      BY <1>8, <3>1
    <3> QED
      BY <1>7, <1>9, <2>1, <2>3, <3>1, <3>2
  <2>4. k = l + 1 \/ k \in 1 .. l
    <3>1. l \in Nat
      BY <1>1
    <3> QED
      BY <3>1
  <2> QED
    BY <2>2, <2>3, <2>4
<1>11. v = Append(u, x)
  <2>1. v \in Seq(ReadChars) /\ Len(v) = l + 1
    <3>1. \A k \in 1 .. (l + 1) : Append(u, x)[k] \in ReadChars
      BY <1>9, ElementOfSeq
    <3>2. v \in [1 .. (l + 1) -> ReadChars]
      BY <1>5, <1>10, <3>1
    <3>3. l + 1 \in Nat
      BY <1>1
    <3> QED
      BY <3>2, <3>3
  <2> QED
    BY <1>9, <1>10, <2>1, SeqEqual
<1> QED
  BY <1>7, <1>11 DEF u, v, x

(* Nothing decodes to nothing. *)
LEMMA UnescapeNone == Decodable(<<>>) /\ QueryUnescape(<<>>) = <<>>
<1>1. Decodable(<<>>)
  BY DEF Decodable
<1>2. Starts(<<>>) = <<>>
  <2>1. [i \in DOMAIN <<>> |-> ~Inside(<<>>, i)] = <<>>
    OBVIOUS
  <2> QED
    BY <2>1, PlacesNone DEF Starts
<1> QED
  BY <1>1, <1>2 DEF QueryUnescape

(* How a character of a target is encoded, and the escapes. *)
Escape(c) ==
    IF c = "%" THEN <<"%", "2", "5">> ELSE IF c = "+" THEN <<"%", "2", "B">> ELSE <<"%", "3", "A">>

Escaped == {"%", "+", ":"}

LEMMA EncodedIs ==
  ASSUME NEW c \in Letters
  PROVE  /\ Encoded(c) = IF c \in Escaped THEN Escape(c) ELSE <<c>>
         /\ c \in Escaped => /\ Len(Escape(c)) = 3 /\ Escape(c) \in Seq(Code)
                             /\ Escape(c)[1] = "%" /\ Escape(c)[2] \in Hex /\ Escape(c)[3] \in Hex
<1>1. Encoded(c) = IF c \in Escaped THEN Escape(c) ELSE <<c>>
  BY DEF Encoded, Escape, Escaped
<1>2. /\ "%" \in Code /\ "2" \in Code /\ "5" \in Code /\ "B" \in Code /\ "3" \in Code /\ "A" \in Code
      /\ "2" \in Hex /\ "5" \in Hex /\ "B" \in Hex /\ "3" \in Hex /\ "A" \in Hex
  BY DEF Code, Letters, Hex
<1>3. ASSUME NEW b \in Hex, NEW d \in Hex
      PROVE  LET x == <<"%", b, d>>
             IN Len(x) = 3 /\ x \in Seq(Code) /\ x[1] = "%" /\ x[2] \in Hex /\ x[3] \in Hex
  <2>1. b \in Code /\ d \in Code
    BY DEF Code
  <2> QED
    BY <1>2, <2>1
<1>4. c \in Escaped => \E b, d \in Hex : Escape(c) = <<"%", b, d>>
  BY <1>2, Zenon DEF Escape, Escaped
<1> QED
  BY <1>1, <1>3, <1>4

(* Decoding reads an encoded character as the character. *)
LEMMA UnescapeEncoded ==
  ASSUME NEW s \in Seq(Code), Decodable(s), NEW c \in Letters
  PROVE  /\ s \o Encoded(c) \in Seq(Code) /\ Decodable(s \o Encoded(c))
         /\ QueryUnescape(s) \in Seq(ReadChars)
         /\ QueryUnescape(s \o Encoded(c)) = Append(QueryUnescape(s), c)
<1> DEFINE n == Len(s)
           e == Encoded(c)
           t == s \o e
<1>1. n \in Nat /\ Len(s) = n
  OBVIOUS
<1>2. /\ e \in Seq(Code)
      /\ c \in Escaped => Len(e) = 3 /\ e[1] = "%" /\ e[2] \in Hex /\ e[3] \in Hex /\ e = Escape(c)
      /\ c \notin Escaped => Len(e) = 1 /\ e[1] = c
  <2>1. CASE c \in Escaped
    <3>1. e = Escape(c)
      BY <2>1, EncodedIs
    <3> HIDE DEF e
    <3> QED
      BY <2>1, <3>1, EncodedIs
  <2>2. CASE c \notin Escaped
    <3>1. e = <<c>>
      BY <2>2, EncodedIs
    <3>2. c \in Code
      BY DEF Code
    <3> HIDE DEF e
    <3> QED
      BY <2>2, <3>1, <3>2
  <2> QED
    BY <2>1, <2>2
<1> HIDE DEF n, e
<1>3. /\ t \in Seq(Code) /\ Len(t) = n + Len(e)
      /\ \A i \in 1 .. n : t[i] = s[i]
      /\ \A i \in 1 .. Len(e) : t[n + i] = e[i]
  <2>1. /\ s \o e \in Seq(Code) /\ Len(s \o e) = Len(s) + Len(e)
        /\ \A i \in 1 .. Len(s) : (s \o e)[i] = s[i]
        /\ \A i \in 1 .. Len(e) : (s \o e)[Len(s) + i] = e[i]
    BY <1>2, ConcatProperties
  <2> HIDE DEF t
  <2> QED
    BY <1>1, <2>1 DEF t
<1> HIDE DEF t
<1>4. c \in Code /\ (c \notin Escaped => c # "%" /\ c # "+")
  BY DEF Code, Escaped
<1>5. ASSUME NEW i \in 1 .. n, t[i] = "%"
      PROVE  i + 2 <= n /\ t[i + 1] \in Hex /\ t[i + 2] \in Hex
  <2>1. i \in DOMAIN s /\ s[i] = "%"
    BY <1>1, <1>3, <1>5
  <2>2. i + 2 <= Len(s) /\ s[i + 1] \in Hex /\ s[i + 2] \in Hex
    BY <2>1 DEF Decodable
  <2>3. i + 1 \in 1 .. n /\ i + 2 \in 1 .. n
    BY <1>1, <2>2
  <2> QED
    BY <1>1, <1>3, <2>2, <2>3
<1>6. CASE c \in Escaped
  <2>1. /\ Len(t) = n + 3 /\ t[n + 1] = "%" /\ t[n + 2] \in Hex /\ t[n + 3] \in Hex
        /\ t[n + 2] = Escape(c)[2] /\ t[n + 3] = Escape(c)[3]
    <3>1. Len(e) = 3 /\ e[1] = "%" /\ e[2] \in Hex /\ e[3] \in Hex /\ e = Escape(c)
      BY <1>2, <1>6
    <3>2. 1 \in 1 .. Len(e) /\ 2 \in 1 .. Len(e) /\ 3 \in 1 .. Len(e)
      BY <3>1
    <3>3. t[n + 1] = e[1] /\ t[n + 2] = e[2] /\ t[n + 3] = e[3]
      BY <1>3, <3>2, Zenon
    <3>4. Len(t) = n + Len(e)
      BY <1>3
    <3> QED
      BY <3>1, <3>3, <3>4
  <2>2. Decodable(t)
    <3> SUFFICES ASSUME NEW i \in 1 .. (n + 3), t[i] = "%"
                 PROVE  i + 2 <= n + 3 /\ t[i + 1] \in Hex /\ t[i + 2] \in Hex
      BY <1>3, <2>1 DEF Decodable
    <3>1. CASE i \in 1 .. n
      BY <1>1, <1>5, <3>1
    <3>2. CASE i = n + 1
      BY <1>1, <2>1, <3>2
    <3>3. i # n + 2 /\ i # n + 3
      BY <2>1 DEF Hex
    <3> QED
      BY <1>1, <3>1, <3>2, <3>3
  <2>3. Decoded(t, n + 1) = c
    <3>1. (n + 1) + 1 = n + 2 /\ (n + 1) + 2 = n + 3
      BY <1>1
    <3>2. Decoded(t, n + 1) = CASE t[n + 2] = "2" /\ t[n + 3] = "5" -> "%"
                                [] t[n + 2] = "2" /\ t[n + 3] = "B" -> "+"
                                [] t[n + 2] = "3" /\ t[n + 3] = "A" -> ":"
                                [] OTHER -> "other"
      BY <2>1, <3>1 DEF Decoded
    <3>3. /\ c = "%" => Escape(c)[2] = "2" /\ Escape(c)[3] = "5"
          /\ c = "+" => Escape(c)[2] = "2" /\ Escape(c)[3] = "B"
          /\ c = ":" => Escape(c)[2] = "3" /\ Escape(c)[3] = "A"
      BY DEF Escape
    <3>4. c = "%" \/ c = "+" \/ c = ":"
      BY <1>6 DEF Escaped
    <3> QED
      BY <2>1, <3>2, <3>3, <3>4
  <2>4. QueryUnescape(s) \in Seq(ReadChars) /\ QueryUnescape(t) = Append(QueryUnescape(s), Decoded(t, n + 1))
    BY <1>1, <1>3, <2>1, <2>2, UnescapeMore
  <2> QED
    BY <1>3, <2>2, <2>3, <2>4 DEF t, e
<1>7. CASE c \notin Escaped
  <2>1. Len(t) = n + 1 /\ t[n + 1] = c
    <3>1. Len(e) = 1 /\ e[1] = c
      BY <1>2, <1>7
    <3>2. 1 \in 1 .. Len(e)
      BY <3>1
    <3>3. t[n + 1] = e[1]
      BY <1>3, <3>2, Zenon
    <3>4. Len(t) = n + Len(e)
      BY <1>3
    <3> QED
      BY <3>1, <3>3, <3>4
  <2>2. Decodable(t)
    <3> SUFFICES ASSUME NEW i \in 1 .. (n + 1), t[i] = "%"
                 PROVE  i + 2 <= n + 1 /\ t[i + 1] \in Hex /\ t[i + 2] \in Hex
      BY <1>3, <2>1 DEF Decodable
    <3>1. i \in 1 .. n
      BY <1>1, <1>4, <1>7, <2>1
    <3> QED
      BY <1>1, <1>5, <3>1
  <2>3. Decoded(t, n + 1) = c
    BY <1>4, <1>7, <2>1 DEF Decoded
  <2>4. QueryUnescape(s) \in Seq(ReadChars) /\ QueryUnescape(t) = Append(QueryUnescape(s), Decoded(t, n + 1))
    BY <1>1, <1>3, <2>1, <2>2, UnescapeMore
  <2> QED
    BY <1>3, <2>2, <2>3, <2>4 DEF t, e
<1> QED
  BY <1>6, <1>7

(* The loop of FlattenSeq. *)
FlatStep(h, e, n) ==
    [i \in 1 .. n |-> IF i = 1 THEN e[i] ELSE h[i - 1] \o e[i]]

(* FlattenSeq is what a solution has at the end ... *)
LEMMA FlattenIs ==
  ASSUME NEW e, Len(e) # 0, \E g : g = FlatStep(g, e, Len(e))
  PROVE  \E h : h = FlatStep(h, e, Len(e)) /\ FlattenSeq(e) = h[Len(e)]
<1> DEFINE K == CHOOSE flatten : flatten = FlatStep(flatten, e, Len(e))
<1>1. FlattenSeq(e) = K[Len(e)]
  BY Zenon DEF FlattenSeq, FlatStep
<1>2. K = FlatStep(K, e, Len(e))
  BY Zenon
<1> QED
  BY <1>1, <1>2, Zenon

(* The equation of FlattenSeq, at one place. *)
LEMMA FlatAt ==
  ASSUME NEW h, NEW e, NEW n \in Nat, h = FlatStep(h, e, n), NEW i \in 1 .. n
  PROVE  h[i] = IF i = 1 THEN e[i] ELSE h[i - 1] \o e[i]
<1>1. h[i] = FlatStep(h, e, n)[i]
  OBVIOUS
<1> QED
  BY <1>1, Zenon DEF FlatStep

(* ... and it has a solution. *)
LEMMA FlatExists ==
  ASSUME NEW e, NEW m \in Nat
  PROVE  \E h : h = FlatStep(h, e, m)
<1> DEFINE T == {n \in Nat : \E h : h = FlatStep(h, e, n)}
<1>1. 0 \in T
  <2> DEFINE h == [i \in 1 .. 0 |-> e[i]]
  <2>1. h = FlatStep(h, e, 0)
    BY DEF FlatStep
  <2> QED
    BY <2>1, Zenon
<1>2. ASSUME NEW n \in T PROVE n + 1 \in T
  <2>1. PICK h : h = FlatStep(h, e, n)
    OBVIOUS
  <2> DEFINE last == IF n + 1 = 1 THEN e[n + 1] ELSE h[n] \o e[n + 1]
             g == [i \in 1 .. (n + 1) |-> IF i <= n THEN h[i] ELSE last]
  <2>2. g = FlatStep(g, e, n + 1)
    <3> SUFFICES ASSUME NEW i \in 1 .. (n + 1)
                 PROVE  g[i] = IF i = 1 THEN e[i] ELSE g[i - 1] \o e[i]
      BY Zenon DEF FlatStep
    <3> HIDE DEF last
    <3>1. CASE i \in 1 .. n
      <4>1. g[i] = h[i] /\ (i # 1 => g[i - 1] = h[i - 1])
        BY <3>1
      <4> HIDE DEF g
      <4>2. h[i] = IF i = 1 THEN e[i] ELSE h[i - 1] \o e[i]
        BY <2>1, <3>1, FlatAt
      <4> QED
        BY <4>1, <4>2
    <3>2. CASE i = n + 1
      <4>1. g[i] = last /\ (i # 1 => g[i - 1] = h[n])
        BY <3>2
      <4> HIDE DEF g
      <4> QED
        BY <3>2, <4>1 DEF last
    <3> QED
      BY <3>1, <3>2
  <2> HIDE DEF g
  <2>3. n + 1 \in Nat
    OBVIOUS
  <2> QED
    BY <2>2, <2>3
<1>3. T = Nat
  <2> HIDE DEF T
  <2>1. T \in SUBSET Nat
    BY DEF T
  <2> QED
    BY <1>1, <1>2, <2>1, AllOfNat
<1> QED
  BY <1>3

(* Decoding undoes the encoding ... *)
LEMMA UnescapeEscape ==
  ASSUME NEW url \in Seq(Letters), url # <<>>
  PROVE  QueryUnescape(QueryEscape(url)) = url
<1> DEFINE n == Len(url)
           e == Mapped(Encoded, url)
<1>1. n \in Nat /\ n # 0 /\ n >= 1 /\ \A i \in 1 .. n : url[i] \in Letters
  OBVIOUS
<1>2. Len(e) = n /\ \A i \in 1 .. n : e[i] = Encoded(url[i])
  <2>1. e = [i \in 1 .. n |-> Encoded(url[i])]
    BY DEF Mapped
  <2> HIDE DEF e, n
  <2> QED
    BY <1>1, <2>1
<1>3. QueryEscape(url) = FlattenSeq(e)
  BY DEF QueryEscape
<1> HIDE DEF e
<1>4. PICK h : h = FlatStep(h, e, n) /\ FlattenSeq(e) = h[n]
  <2> HIDE DEF n
  <2>1. \E g : g = FlatStep(g, e, Len(e))
    BY <1>1, <1>2, FlatExists
  <2> QED
    BY <1>1, <1>2, <2>1, FlattenIs
<1> DEFINE P(k) == /\ h[k] \in Seq(Code) /\ Decodable(h[k])
                   /\ QueryUnescape(h[k]) = SubSeq(url, 1, k)
           T == {k \in Nat : k + 1 <= n => P(k + 1)}
<1>5. \A k \in 0 .. n : SubSeq(url, 1, k) \in Seq(Letters)
  OBVIOUS
<1>6. ASSUME NEW k \in Nat, k + 1 <= n
      PROVE  SubSeq(url, 1, k + 1) = Append(SubSeq(url, 1, k), url[k + 1])
  <2>1. k + 1 \in 1 .. n
    BY <1>1, <1>6
  <2> QED
    BY <2>1
<1> HIDE DEF n
<1>7. 0 \in T
  <2>1. h[1] = Encoded(url[1])
    <3>1. 1 \in 1 .. n
      BY <1>1
    <3> QED
      BY <1>1, <1>2, <1>4, <3>1, FlatAt
  <2>2. <<>> \in Seq(Code) /\ url[1] \in Letters
    BY <1>1
  <2>3. /\ <<>> \o Encoded(url[1]) \in Seq(Code) /\ Decodable(<<>> \o Encoded(url[1]))
        /\ QueryUnescape(<<>> \o Encoded(url[1])) = Append(QueryUnescape(<<>>), url[1])
    BY <2>2, UnescapeNone, UnescapeEncoded
  <2>4. <<>> \o Encoded(url[1]) = Encoded(url[1])
    <3>1. Encoded(url[1]) \in Seq(Code)
      <4>1. url[1] \notin Escaped => <<url[1]>> \in Seq(Code)
        BY <2>2 DEF Code
      <4> QED
        BY <2>2, <4>1, EncodedIs
    <3> QED
      BY <3>1, ConcatEmptySeq
  <2>5. SubSeq(url, 1, 1) = Append(<<>>, url[1])
    <3>1. SubSeq(url, 1, 0 + 1) = Append(SubSeq(url, 1, 0), url[0 + 1])
      BY <1>1, <1>6
    <3>2. SubSeq(url, 1, 0) = <<>>
      OBVIOUS
    <3>3. 0 + 1 = 1
      OBVIOUS
    <3>4. SubSeq(url, 1, 1) = Append(SubSeq(url, 1, 0), url[1])
      BY <3>1, <3>3, Zenon
    <3> QED
      BY <3>2, <3>4, Zenon
  <2>6. P(1)
    BY <2>1, <2>3, <2>4, <2>5, UnescapeNone
  <2> HIDE DEF P
  <2> QED
    BY <2>6
<1>8. ASSUME NEW k \in T PROVE k + 1 \in T
  <2> DEFINE j == k + 1
  <2> SUFFICES ASSUME j + 1 <= n PROVE P(j + 1)
    <3> HIDE DEF P
    <3> QED
      OBVIOUS
  <2>1. P(j) /\ j \in Nat /\ j >= 1
    <3>1. k \in Nat /\ k + 1 <= n
      BY <1>1
    <3> HIDE DEF P
    <3> QED
      BY <3>1
  <2> HIDE DEF T, j
  <2>2. j + 1 \in 1 .. n /\ j + 1 # 1 /\ (j + 1) - 1 = j
    BY <1>1, <2>1
  <2>3. h[j + 1] = h[j] \o Encoded(url[j + 1])
    <3>1. h[j + 1] = IF j + 1 = 1 THEN e[j + 1] ELSE h[(j + 1) - 1] \o e[j + 1]
      BY <1>1, <1>4, <2>2, FlatAt
    <3> QED
      BY <1>2, <2>2, <3>1
  <2>4. url[j + 1] \in Letters
    BY <1>1, <2>2
  <2>5. /\ h[j] \o Encoded(url[j + 1]) \in Seq(Code) /\ Decodable(h[j] \o Encoded(url[j + 1]))
        /\ QueryUnescape(h[j] \o Encoded(url[j + 1])) = Append(QueryUnescape(h[j]), url[j + 1])
    BY <2>1, <2>4, UnescapeEncoded
  <2>6. SubSeq(url, 1, j + 1) = Append(SubSeq(url, 1, j), url[j + 1])
    BY <1>6, <2>1
  <2> QED
    BY <2>1, <2>3, <2>5, <2>6
<1>9. T = Nat
  <2> HIDE DEF T
  <2>1. T \in SUBSET Nat
    BY DEF T
  <2> QED
    BY <1>7, <1>8, <2>1, AllOfNat
<1>10. P(n)
  <2>1. n - 1 \in Nat /\ (n - 1) + 1 = n
    BY <1>1
  <2>2. n - 1 \in T
    BY <1>9, <2>1
  <2> HIDE DEF P
  <2> QED
    BY <1>1, <2>1, <2>2
<1>11. SubSeq(url, 1, n) = url
  BY DEF n
<1> QED
  BY <1>3, <1>4, <1>10, <1>11

(* ... and leaves alone what is not encoded. *)
LEMMA UnescapePlain ==
  ASSUME NEW url \in Seq(Plain)
  PROVE  QueryUnescape(url) = url
<1> DEFINE n == Len(url)
<1>1. n \in Nat /\ DOMAIN url = 1 .. n /\ \A i \in 1 .. n : url[i] \in Plain
  OBVIOUS
<1>2. \A i \in 1 .. n : url[i] # "%" /\ url[i] # "+"
  BY <1>1 DEF Plain
<1>3. Decodable(url)
  BY <1>1, <1>2 DEF Decodable
<1>4. ASSUME NEW i \in 1 .. n PROVE ~Inside(url, i)
  <2>1. \A d \in 1 .. 2 : d < i => i - d \in 1 .. n
    BY <1>1
  <2> QED
    BY <1>2, <2>1 DEF Inside
<1> DEFINE marks == Outside(url, n)
<1>5. Len(marks) = n /\ \A i \in 1 .. n : marks[i]
  <2>1. Len(marks) = n
    BY <1>1 DEF Outside
  <2>2. \A i \in 1 .. n : marks[i]
    BY <1>4, Zenon DEF Outside
  <2> QED
    BY <2>1, <2>2
<1>6. Starts(url) = Places(marks)
  BY <1>1 DEF Starts, Outside
<1> HIDE DEF n, marks
<1>7. Len(Places(marks)) = n /\ \A i \in 1 .. n : Places(marks)[i] = i
  <2>1. n \in 0 .. n
    BY <1>1
  <2> QED
    BY <1>1, <1>5, <2>1, PlacesAll
<1>8. url \in Seq(Code)
  <2>1. Plain \subseteq Code
    BY DEF Plain, Code
  <2> QED
    BY <2>1
<1>9. DOMAIN Starts(url) = 1 .. n
  BY <1>6, <1>7, <1>8, StartsIs
<1>10. ASSUME NEW i \in 1 .. n PROVE Decoded(url, Starts(url)[i]) = url[i]
  <2>1. Starts(url)[i] = i
    BY <1>6, <1>7
  <2> QED
    BY <1>2, <2>1 DEF Decoded
<1>11. QueryUnescape(url) = [i \in 1 .. n |-> Decoded(url, Starts(url)[i])]
  BY <1>3, <1>9 DEF QueryUnescape
<1>12. [i \in 1 .. n |-> Decoded(url, Starts(url)[i])] = [i \in 1 .. n |-> url[i]]
  BY <1>10, Zenon
<1>13. url = [i \in 1 .. n |-> url[i]]
  BY <1>1
<1> QED
  BY <1>11, <1>12, <1>13

(* A target is a code, and what is decoded of it is no error. *)
LEMMA TargetDecodes ==
  ASSUME NEW url \in Seq(Letters)
  PROVE  /\ url # <<>> => url # Undecodable
         /\ Decodable(url) => QueryUnescape(url) # Undecodable
<1>1. url \in Seq(Code)
  <2>1. Letters \subseteq Code
    BY DEF Code
  <2> QED
    BY <2>1, SeqMonotonic
<1>2. "undecodable" \notin ReadChars /\ Letters \subseteq ReadChars
  BY DEF ReadChars, Code, Letters, Hex
<1>3. ASSUME NEW s \in Seq(ReadChars) PROVE s # Undecodable
  <2> SUFFICES ASSUME s = Undecodable PROVE FALSE
    OBVIOUS
  <2>1. Len(s) = 1 /\ s[1] = "undecodable"
    BY DEF Undecodable
  <2>2. s[1] \in ReadChars
    BY <2>1, ElementOfSeq
  <2> QED
    BY <1>2, <2>1, <2>2
<1>4. url \in Seq(ReadChars)
  BY <1>2, SeqMonotonic
<1>5. ASSUME Decodable(url) PROVE QueryUnescape(url) \in Seq(ReadChars)
  <2>1. "z" \in Letters
    BY DEF Letters
  <2> QED
    BY <1>1, <1>5, <2>1, UnescapeEncoded
<1> QED
  BY <1>3, <1>4, <1>5

(* The encoding of nothing is nothing. *)
LEMMA EscapeNone == QueryEscape(<<>>) = <<>>
<1>1. Mapped(Encoded, <<>>) = <<>>
  BY DEF Mapped
<1>2. FlattenSeq(<<>>) = <<>>
  BY DEF FlattenSeq
<1> QED
  BY <1>1, <1>2 DEF QueryEscape

(* Every target is unwrapped to what decoding makes of it, or stays wrapped. *)
LEMMA TargetsMatched ==
  ASSUME NEW url \in Seq(Letters)
  PROVE  TargetsMatch(url)
<1> DEFINE read == ResolveDDGRedirect(Wrapped(url))
           target == QueryUnescape(QueryEscape(url))
           decoded == QueryUnescape(target)
<1>1. ResolveDDGRedirect(Direct(url)) = Direct(url)
  BY DEF ResolveDDGRedirect, Direct
<1>2. read = IF target \notin {<<>>, Undecodable} /\ decoded # Undecodable
             THEN Direct(decoded) ELSE Wrapped(url)
  <2>1. Wrapped(url).redirect /\ Wrapped(url).text = QueryEscape(url)
    BY DEF Wrapped
  <2> QED
    BY <2>1 DEF ResolveDDGRedirect
<1>3. target = url
  <2>1. CASE url = <<>>
    BY <2>1, EscapeNone, UnescapeNone
  <2>2. CASE url # <<>>
    BY <2>2, UnescapeEscape
  <2> QED
    BY <2>1, <2>2
<1> HIDE DEF read, target, decoded
<1>4. decoded = QueryUnescape(url)
  BY <1>3 DEF decoded
<1>5. decoded # Undecodable <=> Decodable(url)
  <2>1. ~Decodable(url) => QueryUnescape(url) = Undecodable
    BY DEF QueryUnescape
  <2> QED
    BY <1>4, <2>1, TargetDecodes
<1>6. read = IF url # <<>> /\ Decodable(url) THEN Direct(QueryUnescape(url)) ELSE Wrapped(url)
  BY <1>2, <1>3, <1>4, <1>5, TargetDecodes
<1>7. ASSUME url # <<>>, \A i \in DOMAIN url : url[i] \notin {"%", "+"}
      PROVE  read = Direct(url)
  <2>1. \A i \in 1 .. Len(url) : url[i] \in Plain
    <3>1. \A i \in 1 .. Len(url) : url[i] \in Letters
      BY ElementOfSeq
    <3> QED
      BY <1>7, <3>1 DEF Plain
  <2>2. url \in Seq(Plain)
    BY <2>1
  <2>3. QueryUnescape(url) = url
    BY <2>2, UnescapePlain
  <2>4. decoded # Undecodable
    BY <1>4, <1>7, <2>3, TargetDecodes
  <2> QED
    BY <1>2, <1>3, <1>4, <1>7, <2>3, <2>4, TargetDecodes
<1> QED
  BY <1>1, <1>6, <1>7 DEF TargetsMatch, read

(* What BoundedSeq enumerates are sequences. *)
LEMMA SeqOfSet ==
  ASSUME NEW S, NEW n, NEW s \in BoundedSeq(S, n)
  PROVE  s \in Seq(S)
<1>1. BoundedSeq(S, n) = UNION {[1 .. m -> S] : m \in 0 .. n}
  BY DEF BoundedSeq, SeqOf
<1>2. PICK m \in 0 .. n : s \in [1 .. m -> S]
  BY <1>1
<1> QED
  BY <1>2

-----------------------------------------------------------------------------
(* Texts, and loops over them. *)

(* What holds of the empty sequence, and of a sequence with one element more,
   holds of every sequence. *)
LEMMA AllSequences ==
  ASSUME NEW C, NEW T \in SUBSET Seq(C), <<>> \in T,
         \A s \in T : \A c \in C : Append(s, c) \in T
  PROVE  T = Seq(C)
<1> DEFINE N == {n \in Nat : \A s \in Seq(C) : Len(s) = n => s \in T}
<1>1. 0 \in N
  <2>1. ASSUME NEW s \in Seq(C), Len(s) = 0 PROVE s \in T
    <3>1. s = <<>>
      BY <2>1, EmptySeq
    <3> QED
      BY <3>1
  <2> QED
    BY <2>1
<1>2. ASSUME NEW n \in N PROVE n + 1 \in N
  <2>1. ASSUME NEW s \in Seq(C), Len(s) = n + 1 PROVE s \in T
    <3>1. s # <<>>
      BY <2>1
    <3>2. PICK t \in Seq(C), c \in C : s = Append(t, c)
      BY <3>1, SequenceEmptyOrAppend
    <3>3. Len(s) = Len(t) + 1 /\ Len(t) \in Nat
      BY <3>2, AppendProperties
    <3>4. Len(t) = n
      BY <2>1, <3>3
    <3>5. t \in T
      BY <3>4
    <3> QED
      BY <3>2, <3>5
  <2> QED
    BY <2>1
<1>3. N = Nat
  <2> HIDE DEF N
  <2>1. N \in SUBSET Nat
    BY DEF N
  <2> QED
    BY <1>1, <1>2, <2>1, AllOfNat
<1>4. ASSUME NEW s \in Seq(C) PROVE s \in T
  <2>1. Len(s) \in N
    BY <1>3
  <2> QED
    BY <2>1
<1> QED
  BY <1>4

(* A function on 1 .. n with values in S is a sequence over S. *)
LEMMA SeqIs ==
  ASSUME NEW S, NEW n \in Nat, NEW f, f = [i \in 1 .. n |-> f[i]], \A i \in 1 .. n : f[i] \in S
  PROVE  f \in Seq(S) /\ Len(f) = n /\ DOMAIN f = 1 .. n
<1>1. [i \in 1 .. n |-> f[i]] \in Seq(S) /\ Len([i \in 1 .. n |-> f[i]]) = n
      /\ DOMAIN [i \in 1 .. n |-> f[i]] = 1 .. n
  OBVIOUS
<1> QED
  BY <1>1

(* A loop of m steps, the i-th of which is the function f[i], has a course. *)
Course(h, x, f, m) == h[0] = x /\ \A i \in 1 .. m : h[i] = f[i][h[i - 1]]

(* A loop of m steps, each a function on S, has a course from any start. *)
LEMMA LoopRuns ==
  ASSUME NEW S, NEW x \in S, NEW m \in Nat, NEW f \in [1 .. m -> [S -> S]]
  PROVE  \E h \in [0 .. m -> S] : Course(h, x, f, m)
<1> DEFINE R(n, h) == h[0] = x /\ \A i \in 1 .. n : h[i] = f[i][h[i - 1]]
           T == {n \in Nat : n <= m => \E h \in [0 .. n -> S] : R(n, h)}
<1>1. 0 \in T
  <2> DEFINE h == [i \in 0 .. 0 |-> x]
  <2>1. h \in [0 .. 0 -> S] /\ R(0, h)
    OBVIOUS
  <2> HIDE DEF R, h
  <2> QED
    BY <2>1
<1>2. ASSUME NEW n \in T PROVE n + 1 \in T
  <2> SUFFICES ASSUME n + 1 <= m PROVE \E h \in [0 .. (n + 1) -> S] : R(n + 1, h)
    <3> HIDE DEF R
    <3> QED
      OBVIOUS
  <2>1. n \in Nat /\ n <= m /\ n + 1 \in 1 .. m
    OBVIOUS
  <2>2. PICK h \in [0 .. n -> S] : R(n, h)
    <3> HIDE DEF R
    <3> QED
      BY <2>1
  <2> DEFINE last == f[n + 1][h[n]]
             g == [i \in 0 .. (n + 1) |-> IF i <= n THEN h[i] ELSE last]
  <2>3. last \in S
    <3>1. h[n] \in S /\ f[n + 1] \in [S -> S]
      BY <2>1
    <3> QED
      BY <3>1
  <2>4. g \in [0 .. (n + 1) -> S]
    <3> HIDE DEF last
    <3> QED
      BY <2>1, <2>3
  <2>5. g[0] = x
    BY <2>1, <2>2
  <2>6. ASSUME NEW i \in 1 .. (n + 1) PROVE g[i] = f[i][g[i - 1]]
    <3>1. CASE i <= n
      <4>1. g[i] = h[i] /\ g[i - 1] = h[i - 1] /\ i \in 1 .. n
        BY <2>1, <3>1
      <4> HIDE DEF g
      <4> QED
        BY <2>2, <4>1
    <3>2. CASE i = n + 1
      <4>1. g[i] = last /\ g[i - 1] = h[n]
        BY <2>1, <3>2
      <4> HIDE DEF g
      <4> QED
        BY <3>2, <4>1
    <3> QED
      BY <2>1, <3>1, <3>2
  <2> HIDE DEF g
  <2>7. R(n + 1, g)
    BY <2>5, <2>6
  <2> HIDE DEF R
  <2> QED
    BY <2>4, <2>7
<1>3. T = Nat
  <2> HIDE DEF T
  <2>1. T \in SUBSET Nat
    BY DEF T
  <2> QED
    BY <1>1, <1>2, <2>1, AllOfNat
<1>4. m \in T
  BY <1>3
<1> HIDE DEF R
<1>5. \E h \in [0 .. m -> S] : R(m, h)
  BY <1>4
<1> QED
  BY <1>5 DEF R, Course

(* SplitN. *)

PartsOf(C) == Seq(Seq(C)) \ {<<>>}

(* What the parts of the first m characters consist of. *)
Consists(s, m, C, sep, n) == \A i \in 1 .. m : s[i] \in C \/ (s[i] = sep /\ n < 0)

SplitStep(h, s, sep, n, m) ==
    [i \in 0 .. m |-> IF i = 0 THEN << <<>> >> ELSE Grown(h[i - 1], s[i], sep, n)]

(* One character more: the last part grows, or another one begins.  No part
   holds a separator where there is no bound on their number. *)
LEMMA GrownTyped ==
  ASSUME NEW C, NEW parts \in PartsOf(C), NEW c, NEW sep, NEW n \in Int,
         c \in C \/ (c = sep /\ n < 0)
  PROVE  Grown(parts, c, sep, n) \in PartsOf(C)
<1> DEFINE k == Len(parts)
<1>1. parts \in Seq(Seq(C)) /\ k \in Nat /\ k \in 1 .. k /\ parts[k] \in Seq(C)
  BY DEF PartsOf
<1>2. CASE c = sep /\ (n < 0 \/ Len(parts) < n)
  <2>1. <<>> \in Seq(C)
    OBVIOUS
  <2>2. Append(parts, <<>>) \in Seq(Seq(C)) /\ Append(parts, <<>>) # <<>>
    BY <1>1, <2>1, AppendProperties
  <2> QED
    BY <1>2, <2>2 DEF Grown, PartsOf
<1>3. CASE ~(c = sep /\ (n < 0 \/ Len(parts) < n))
  <2>1. c \in C
    BY <1>3
  <2>2. Append(parts[k], c) \in Seq(C)
    BY <1>1, <2>1, AppendProperties
  <2>3. [parts EXCEPT ![k] = Append(parts[k], c)] \in Seq(Seq(C))
    BY <1>1, <2>2, ExceptSeq
  <2>4. Len([parts EXCEPT ![k] = Append(parts[k], c)]) = k
    BY <1>1, <2>2, ExceptSeq
  <2>5. Grown(parts, c, sep, n) = [parts EXCEPT ![k] = Append(parts[k], c)]
    BY <1>3 DEF Grown
  <2>6. Len(Grown(parts, c, sep, n)) # 0
    BY <1>1, <2>4, <2>5
  <2>7. Grown(parts, c, sep, n) \in Seq(Seq(C))
    BY <2>3, <2>5
  <2> HIDE DEF k
  <2> QED
    BY <2>6, <2>7 DEF PartsOf
<1> QED
  BY <1>2, <1>3

(* SplitN is what a solution of its equation has at the end ... *)
LEMMA SplitIs ==
  ASSUME NEW s, NEW sep, NEW n, \E g : g = SplitStep(g, s, sep, n, Len(s))
  PROVE  \E h : h = SplitStep(h, s, sep, n, Len(s)) /\ SplitN(s, sep, n) = h[Len(s)]
<1> DEFINE K == CHOOSE parts : parts = SplitStep(parts, s, sep, n, Len(s))
<1>1. SplitN(s, sep, n) = K[Len(s)]
  BY Zenon DEF SplitN, SplitStep
<1>2. K = SplitStep(K, s, sep, n, Len(s))
  BY Zenon
<1> QED
  BY <1>1, <1>2, Zenon

(* A step of the loop, at one character. *)
LEMMA SplitAt ==
  ASSUME NEW h, NEW s, NEW sep, NEW n, NEW m \in Nat, h = SplitStep(h, s, sep, n, m),
         NEW i \in 0 .. m
  PROVE  h[i] = IF i = 0 THEN << <<>> >> ELSE Grown(h[i - 1], s[i], sep, n)
<1>1. h[i] = SplitStep(h, s, sep, n, m)[i]
  OBVIOUS
<1> QED
  BY <1>1, Zenon DEF SplitStep

(* ... and it has a solution, which consists of parts. *)
LEMMA SplitExists ==
  ASSUME NEW C, NEW sep, NEW n \in Int, NEW s, NEW m \in Nat,
         Consists(s, m, C, sep, n)
  PROVE  \E h \in [0 .. m -> PartsOf(C)] : h = SplitStep(h, s, sep, n, m)
<1> DEFINE f == [i \in 1 .. m |-> [parts \in PartsOf(C) |-> Grown(parts, s[i], sep, n)]]
<1>1. << <<>> >> \in PartsOf(C)
  BY DEF PartsOf
<1>2. f \in [1 .. m -> [PartsOf(C) -> PartsOf(C)]]
  BY GrownTyped DEF Consists
<1>3. PICK h \in [0 .. m -> PartsOf(C)] :
         h[0] = << <<>> >> /\ \A i \in 1 .. m : h[i] = f[i][h[i - 1]]
  <2> DEFINE S == PartsOf(C)
             x == << <<>> >>
  <2>1. x \in S /\ f \in [1 .. m -> [S -> S]]
    BY <1>1, <1>2
  <2> HIDE DEF f, S, x
  <2>2. \E h \in [0 .. m -> S] : Course(h, x, f, m)
    BY <2>1, LoopRuns
  <2> QED
    BY <2>2 DEF S, x, Course
<1>4. ASSUME NEW i \in 0 .. m
      PROVE  h[i] = IF i = 0 THEN << <<>> >> ELSE Grown(h[i - 1], s[i], sep, n)
  <2>1. CASE i = 0
    BY <1>3, <2>1
  <2>2. CASE i # 0
    <3>1. i \in 1 .. m /\ i - 1 \in 0 .. m
      BY <2>2
    <3>2. h[i - 1] \in PartsOf(C)
      BY <3>1
    <3>3. f[i][h[i - 1]] = Grown(h[i - 1], s[i], sep, n)
      BY <3>1, <3>2
    <3>4. h[i] = f[i][h[i - 1]]
      BY <1>3, <3>1
    <3> HIDE DEF f
    <3> QED
      BY <2>2, <3>3, <3>4
  <2> QED
    BY <2>1, <2>2
<1>5. h = SplitStep(h, s, sep, n, m)
  BY <1>4 DEF SplitStep
<1> QED
  BY <1>5

(* What SplitN returns is the end of a course of its loop. *)
LEMMA SplitRuns ==
  ASSUME NEW C, NEW sep, NEW n \in Int, NEW s, NEW m \in Nat, Len(s) = m,
         Consists(s, m, C, sep, n)
  PROVE  \E h : h = SplitStep(h, s, sep, n, m) /\ SplitN(s, sep, n) = h[m]
<1>1. \E g \in [0 .. m -> PartsOf(C)] : g = SplitStep(g, s, sep, n, m)
  BY SplitExists
<1>2. \E g : g = SplitStep(g, s, sep, n, Len(s))
  BY <1>1
<1> QED
  BY <1>2, SplitIs

(* Solutions for texts that begin alike agree there. *)
LEMMA SplitPrefix ==
  ASSUME NEW a, NEW b, NEW sep, NEW n, NEW m \in Nat, NEW l \in Nat, m <= l,
         \A i \in 1 .. m : a[i] = b[i],
         NEW g, g = SplitStep(g, a, sep, n, m), NEW h, h = SplitStep(h, b, sep, n, l)
  PROVE  g[m] = h[m]
<1> DEFINE T == {i \in Nat : i <= m => g[i] = h[i]}
<1>1. 0 \in T
  <2>1. 0 \in 0 .. m /\ 0 \in 0 .. l
    OBVIOUS
  <2>2. g[0] = << <<>> >>
    BY <2>1, SplitAt
  <2>3. h[0] = << <<>> >>
    BY <2>1, SplitAt
  <2> QED
    BY <2>2, <2>3
<1>2. ASSUME NEW i \in T PROVE i + 1 \in T
  <2> SUFFICES ASSUME i + 1 <= m PROVE g[i + 1] = h[i + 1]
    OBVIOUS
  <2>1. /\ i \in Nat /\ i + 1 \in 0 .. l /\ i + 1 \in 0 .. m /\ i + 1 # 0
        /\ i + 1 \in 1 .. m /\ g[i] = h[i] /\ (i + 1) - 1 = i
    OBVIOUS
  <2> HIDE DEF T
  <2>2. a[i + 1] = b[i + 1]
    BY <2>1
  <2>3. g[i + 1] = Grown(g[i], a[i + 1], sep, n)
    BY <2>1, SplitAt
  <2>4. h[i + 1] = Grown(h[i], b[i + 1], sep, n)
    BY <2>1, SplitAt
  <2> QED
    BY <2>1, <2>2, <2>3, <2>4
<1>3. T = Nat
  <2> HIDE DEF T
  <2>1. T \in SUBSET Nat
    BY DEF T
  <2> QED
    BY <1>1, <1>2, <2>1, AllOfNat
<1> QED
  BY <1>3

(* The parts of a text, ... *)
LEMMA SplitTyped ==
  ASSUME NEW C, NEW sep, NEW n \in Int, NEW D, NEW s \in Seq(D),
         \A c \in D : c \in C \/ (c = sep /\ n < 0)
  PROVE  SplitN(s, sep, n) \in PartsOf(C)
<1> DEFINE m == Len(s)
<1>1. m \in Nat /\ m \in 0 .. m /\ \A i \in 1 .. m : s[i] \in D
  OBVIOUS
<1>2. Consists(s, m, C, sep, n)
  BY <1>1 DEF Consists
<1>3. PICK g \in [0 .. m -> PartsOf(C)] : g = SplitStep(g, s, sep, n, m)
  <2>1. \E g \in [0 .. m -> PartsOf(C)] : g = SplitStep(g, s, sep, n, m)
    <3> HIDE DEF m
    <3> QED
      BY <1>1, <1>2, SplitExists
  <2> QED
    BY <2>1
<1>4. PICK h : h = SplitStep(h, s, sep, n, m) /\ SplitN(s, sep, n) = h[m]
  BY <1>1, <1>2, SplitRuns
<1> HIDE DEF m
<1>5. g[m] = h[m]
  BY <1>1, <1>3, <1>4, SplitPrefix
<1>6. g[m] \in PartsOf(C)
  BY <1>1, <1>3
<1> QED
  BY <1>4, <1>5, <1>6

(* ... of an empty one, ... *)
LEMMA SplitNone ==
  ASSUME NEW sep, NEW n \in Int
  PROVE  SplitN(<<>>, sep, n) = << <<>> >>
<1>1. Len(<<>>) = 0 /\ 0 \in Nat /\ 0 \in 0 .. 0 
  OBVIOUS
<1>c. Consists(<<>>, 0, {}, sep, n)
  BY DEF Consists
<1>2. PICK h : h = SplitStep(h, <<>>, sep, n, 0) /\ SplitN(<<>>, sep, n) = h[0]
  BY <1>1, <1>c, SplitRuns
<1>3. h[0] = << <<>> >>
  BY <1>1, <1>2, SplitAt
<1> QED
  BY <1>2, <1>3

(* ... and of one with a character more. *)
LEMMA SplitMore ==
  ASSUME NEW C, NEW sep, NEW n \in Int, NEW s \in Seq(C), NEW c \in C
  PROVE  SplitN(Append(s, c), sep, n) = Grown(SplitN(s, sep, n), c, sep, n)
<1> DEFINE m == Len(s)
           t == Append(s, c)
<1>1. m \in Nat /\ m + 1 \in Nat /\ m <= m + 1 /\ m + 1 \in 0 .. (m + 1) /\ m + 1 # 0 /\ (m + 1) - 1 = m
  OBVIOUS
<1>2. t \in Seq(C) /\ Len(t) = m + 1 /\ t[m + 1] = c /\ \A i \in 1 .. m : s[i] = t[i]
  BY AppendProperties
<1>3. Consists(s, m, C, sep, n) /\ Consists(t, m + 1, C, sep, n)
  <2>1. \A i \in 1 .. m : s[i] \in C
    OBVIOUS
  <2> HIDE DEF t
  <2>2. \A i \in 1 .. (m + 1) : t[i] \in C
    BY <1>2
  <2> QED
    BY <2>1, <2>2 DEF Consists
<1>4. PICK g : g = SplitStep(g, s, sep, n, m) /\ SplitN(s, sep, n) = g[m]
  BY <1>1, <1>3, SplitRuns
<1> HIDE DEF m, t
<1>5. PICK h : h = SplitStep(h, t, sep, n, m + 1) /\ SplitN(t, sep, n) = h[m + 1]
  BY <1>1, <1>2, <1>3, SplitRuns
<1>6. g[m] = h[m]
  <2> DEFINE l == m + 1
  <2>1. l \in Nat /\ m <= l /\ h = SplitStep(h, t, sep, n, l)
    BY <1>1, <1>5
  <2> HIDE DEF l
  <2> QED
    BY <1>1, <1>2, <1>4, <2>1, SplitPrefix
<1>7. h[m + 1] = Grown(h[m], t[m + 1], sep, n)
  BY <1>1, <1>5, SplitAt
<1> QED
  BY <1>2, <1>4, <1>5, <1>6, <1>7 DEF t

(* Append goes through a concatenation. *)
LEMMA ConcatAppend ==
  ASSUME NEW S, NEW s \in Seq(S), NEW t \in Seq(S), NEW c \in S
  PROVE  s \o Append(t, c) = Append(s \o t, c) /\ s \o Append(t, c) \in Seq(S)
<1>1. <<c>> \in Seq(S) /\ s \o t \in Seq(S)
  OBVIOUS
<1>2. Append(t, c) = t \o <<c>> /\ Append(s \o t, c) = (s \o t) \o <<c>>
  BY <1>1, AppendIsConcat
<1>3. (s \o t) \o <<c>> = s \o (t \o <<c>>)
  BY <1>1, ConcatAssociative
<1>4. (s \o t) \o <<c>> \in Seq(S)
  BY <1>1, ConcatProperties
<1> QED
  BY <1>2, <1>3, <1>4

(* The last part, with a text behind it. *)
Extended(parts, p) == [parts EXCEPT ![Len(parts)] = @ \o p]

(* Nothing behind the last part changes nothing. *)
LEMMA ExtendedNone ==
  ASSUME NEW C, NEW parts \in PartsOf(C)
  PROVE  Extended(parts, <<>>) = parts
<1> DEFINE k == Len(parts)
           last == parts[k]
<1>1. parts \in Seq(Seq(C)) /\ k \in Nat /\ k \in 1 .. k /\ last \in Seq(C)
  BY DEF PartsOf
<1>2. last \o <<>> = last
  BY <1>1
<1>3. Extended(parts, <<>>) = [parts EXCEPT ![k] = last]
  BY <1>2 DEF Extended
<1> QED
  BY <1>1, <1>3

(* A character that is not the separator goes to the last part. *)
LEMMA ExtendedMore ==
  ASSUME NEW C, NEW parts \in PartsOf(C), NEW p \in Seq(C), NEW c \in C, NEW sep, c # sep,
         NEW n \in Int
  PROVE  Grown(Extended(parts, p), c, sep, n) = Extended(parts, Append(p, c))
<1> DEFINE k == Len(parts)
           e == Extended(parts, p)
           last == parts[k]
<1>1. parts \in Seq(Seq(C)) /\ k \in Nat /\ k \in 1 .. k /\ last \in Seq(C)
  BY DEF PartsOf
<1>2. last \o p \in Seq(C)
  BY <1>1
<1>3. Append(last \o p, c) = last \o Append(p, c)
  <2>1. last \in Seq(C)
    BY <1>1
  <2> HIDE DEF last
  <2>2. last \o Append(p, c) = Append(last \o p, c)
    BY <2>1, ConcatAppend
  <2> QED
    BY <2>2
<1>4. e = [parts EXCEPT ![k] = last \o p]
  BY DEF Extended
<1>5. e \in Seq(Seq(C)) /\ Len(e) = k /\ \A j \in 1 .. k : e[j] = IF j = k THEN last \o p ELSE parts[j]
  <2> HIDE DEF last, e, k
  <2>1. [parts EXCEPT ![k] = last \o p] \in Seq(Seq(C))
    BY <1>1, <1>2, ExceptSeq DEF k
  <2>2. Len([parts EXCEPT ![k] = last \o p]) = k
    BY <1>1, <1>2, ExceptSeq DEF k
  <2>3. \A j \in 1 .. k : [parts EXCEPT ![k] = last \o p][j] = IF j = k THEN last \o p ELSE parts[j]
    BY <1>1, <1>2, ExceptSeq DEF k
  <2> QED
    BY <1>4, <2>1, <2>2, <2>3
<1>6. Grown(e, c, sep, n) = [e EXCEPT ![k] = Append(last \o p, c)]
  <2>1. Grown(e, c, sep, n) = [e EXCEPT ![Len(e)] = Append(e[Len(e)], c)]
    BY DEF Grown
  <2>2. Len(e) = k /\ e[k] = last \o p
    BY <1>1, <1>5
  <2> HIDE DEF e, last, k
  <2> QED
    BY <2>1, <2>2
<1>7. [e EXCEPT ![k] = Append(last \o p, c)] = [parts EXCEPT ![k] = last \o Append(p, c)]
  <2> DEFINE y == Append(last \o p, c)
             x == last \o p
  <2>1. y = last \o Append(p, c)
    BY <1>3
  <2>2. e = [parts EXCEPT ![k] = x]
    BY <1>4
  <2> HIDE DEF e, last, k, x, y
  <2>3. [e EXCEPT ![k] = y] = [parts EXCEPT ![k] = y]
    BY <2>2
  <2> QED
    BY <2>1, <2>3 DEF y
<1>9. Extended(parts, Append(p, c)) = [parts EXCEPT ![k] = last \o Append(p, c)]
  BY DEF Extended
<1> HIDE DEF last, k
<1> QED
  BY <1>6, <1>7, <1>9 DEF e

(* A text without a separator belongs to the last part. *)
LEMMA SplitPiece ==
  ASSUME NEW D, NEW C \in SUBSET D, NEW sep, sep \notin C, NEW n \in Int,
         NEW s \in Seq(D), NEW p \in Seq(C)
  PROVE  SplitN(s \o p, sep, n) = Extended(SplitN(s, sep, n), p)
<1> DEFINE all == SplitN(s, sep, n)
           P(q) == SplitN(s \o q, sep, n) = Extended(all, q)
           T == {q \in Seq(C) : P(q)}
<1>1. all \in PartsOf(D \cup {sep})
  BY SplitTyped
<1>2. \A q \in Seq(C) : q \in Seq(D)
  BY SeqMonotonic
<1>3. <<>> \in T
  <2>1. s \o <<>> = s
    OBVIOUS
  <2>2. P(<<>>)
    BY <1>1, <2>1, ExtendedNone
  <2> HIDE DEF P
  <2> QED
    BY <2>2
<1>4. ASSUME NEW q \in T, NEW c \in C PROVE Append(q, c) \in T
  <2>1. q \in Seq(C) /\ P(q) /\ q \in Seq(D) /\ c \in D /\ c # sep
    BY <1>2
  <2>2. s \o Append(q, c) = Append(s \o q, c) /\ s \o q \in Seq(D) /\ Append(q, c) \in Seq(C)
    BY <2>1, ConcatAppend, ConcatProperties, AppendProperties
  <2>3. SplitN(Append(s \o q, c), sep, n) = Grown(SplitN(s \o q, sep, n), c, sep, n)
    <3> DEFINE u == s \o q
    <3>1. u \in Seq(D) /\ c \in D
      BY <2>1, <2>2
    <3> HIDE DEF u
    <3>2. SplitN(Append(u, c), sep, n) = Grown(SplitN(u, sep, n), c, sep, n)
      BY <3>1, SplitMore
    <3> QED
      BY <3>2 DEF u
  <2>4. Grown(Extended(all, q), c, sep, n) = Extended(all, Append(q, c))
    <3> DEFINE E == D \cup {sep}
    <3>1. all \in PartsOf(E) /\ c \in E /\ q \in Seq(E)
      <4>1. q \in Seq(E)
        BY <2>1, SeqMonotonic
      <4> QED
        BY <1>1, <2>1, <4>1
    <3> HIDE DEF E, all
    <3> QED
      BY <2>1, <3>1, ExtendedMore
  <2>5. P(Append(q, c))
    BY <2>1, <2>2, <2>3, <2>4
  <2> HIDE DEF P
  <2> QED
    BY <2>2, <2>5
<1>5. T = Seq(C)
  <2> HIDE DEF T
  <2>1. T \in SUBSET Seq(C)
    BY DEF T
  <2> QED
    BY <1>3, <1>4, <2>1, AllSequences
<1>6. P(p)
  <2> HIDE DEF P
  <2> QED
    BY <1>5
<1> QED
  BY <1>6

(* Joined. *)

JoinedStep(h, parts, sep, m) ==
    [i \in 0 .. m |-> CASE i = 0 -> <<>>
                        [] i = 1 -> parts[1]
                        [] OTHER -> h[i - 1] \o sep \o parts[i]]

(* Joined is what a solution of its equation has at the end ... *)
LEMMA JoinedIs ==
  ASSUME NEW parts, NEW sep, \E g : g = JoinedStep(g, parts, sep, Len(parts))
  PROVE  \E h : h = JoinedStep(h, parts, sep, Len(parts)) /\ Joined(parts, sep) = h[Len(parts)]
<1> DEFINE K == CHOOSE all : all = JoinedStep(all, parts, sep, Len(parts))
<1>1. Joined(parts, sep) = K[Len(parts)]
  BY Zenon DEF Joined, JoinedStep
<1>2. K = JoinedStep(K, parts, sep, Len(parts))
  BY Zenon
<1> QED
  BY <1>1, <1>2, Zenon

(* A step of the loop of Joined, as a case distinction. *)
LEMMA JoinedAt ==
  ASSUME NEW h, NEW parts, NEW sep, NEW m \in Nat, h = JoinedStep(h, parts, sep, m),
         NEW i \in 0 .. m
  PROVE  h[i] = IF i = 0 THEN <<>> ELSE IF i = 1 THEN parts[1]
                ELSE h[i - 1] \o sep \o parts[i]
<1>1. h[i] = JoinedStep(h, parts, sep, m)[i]
  OBVIOUS
<1> DEFINE next == h[i - 1] \o sep \o parts[i]
           first == parts[1]
<1>2. h[i] = CASE i = 0 -> <<>> [] i = 1 -> first [] OTHER -> next
  BY <1>1, Zenon DEF JoinedStep
<1>3. i \in Nat
  OBVIOUS
<1> HIDE DEF next, first
<1>4. h[i] = IF i = 0 THEN <<>> ELSE IF i = 1 THEN first ELSE next
  BY <1>2, <1>3
<1> QED
  BY <1>4 DEF next, first

(* ... and it has a solution, which consists of texts. *)
LEMMA JoinedExists ==
  ASSUME NEW C, NEW parts \in Seq(Seq(C)), NEW sep \in Seq(C), NEW m \in Nat, m = Len(parts)
  PROVE  \E h \in [0 .. m -> Seq(C)] : h = JoinedStep(h, parts, sep, m)
<1> DEFINE S == Seq(C)
           x == <<>>
           f == [i \in 1 .. m |-> [t \in S |-> IF i = 1 THEN parts[1] ELSE t \o sep \o parts[i]]]
<1>1. x \in S
  OBVIOUS
<1>2. f \in [1 .. m -> [S -> S]]
  <2>1. ASSUME NEW i \in 1 .. m, NEW t \in S
        PROVE  (IF i = 1 THEN parts[1] ELSE t \o sep \o parts[i]) \in S
    <3>1. parts[1] \in Seq(C) /\ parts[i] \in Seq(C)
      BY <2>1
    <3>2. t \o sep \in Seq(C)
      BY ConcatProperties
    <3>3. (t \o sep) \o parts[i] \in Seq(C)
      BY <3>1, <3>2, ConcatProperties
    <3> QED
      BY <3>1, <3>3
  <2> HIDE DEF S
  <2> QED
    BY <2>1
<1>3. PICK h \in [0 .. m -> S] : Course(h, x, f, m)
  <2> HIDE DEF f, S, x
  <2> QED
    BY <1>1, <1>2, LoopRuns
<1>4. ASSUME NEW i \in 0 .. m
      PROVE  h[i] = CASE i = 0 -> <<>>
                      [] i = 1 -> parts[1]
                      [] OTHER -> h[i - 1] \o sep \o parts[i]
  <2>1. h[0] = <<>> /\ \A j \in 1 .. m : h[j] = f[j][h[j - 1]]
    BY <1>3, Zenon DEF Course
  <2> DEFINE next == h[i - 1] \o sep \o parts[i]
             first == parts[1]
  <2>2. i # 0 => h[i] = IF i = 1 THEN first ELSE next
    <3> SUFFICES ASSUME i # 0 PROVE h[i] = IF i = 1 THEN first ELSE next
      OBVIOUS
    <3>1. i \in 1 .. m /\ i - 1 \in 0 .. m
      OBVIOUS
    <3>2. h[i - 1] \in S
      BY <3>1
    <3>3. f[i][h[i - 1]] = IF i = 1 THEN first ELSE next
      <4> HIDE DEF S
      <4> QED
        BY <3>1, <3>2
    <3>4. h[i] = f[i][h[i - 1]]
      <4> HIDE DEF f
      <4> QED
        BY <2>1, <3>1
    <3> HIDE DEF f
    <3> QED
      BY <3>3, <3>4
  <2> HIDE DEF next, first
  <2>3. h[i] = CASE i = 0 -> <<>> [] i = 1 -> first [] OTHER -> next
    BY <2>1, <2>2
  <2> QED
    BY <2>3 DEF next, first
<1>5. h = JoinedStep(h, parts, sep, m)
  <2> HIDE DEF f, S, x
  <2> QED
    BY <1>4 DEF JoinedStep, S
<1> QED
  BY <1>5

(* What Joined returns is the end of a course of its loop. *)
LEMMA JoinedRuns ==
  ASSUME NEW C, NEW parts \in Seq(Seq(C)), NEW sep \in Seq(C), NEW m \in Nat, m = Len(parts)
  PROVE  \E h : h = JoinedStep(h, parts, sep, m) /\ Joined(parts, sep) = h[m]
<1>1. \E g \in [0 .. m -> Seq(C)] : g = JoinedStep(g, parts, sep, m)
  BY JoinedExists
<1>2. \E g : g = JoinedStep(g, parts, sep, Len(parts))
  BY <1>1
<1> QED
  BY <1>2, JoinedIs

(* The course depends on the parts so far only. *)
LEMMA JoinedPrefix ==
  ASSUME NEW a, NEW b, NEW sep, NEW m \in Nat, NEW l \in Nat, m <= l,
         \A i \in 1 .. m : a[i] = b[i],
         NEW g, g = JoinedStep(g, a, sep, m), NEW h, h = JoinedStep(h, b, sep, l)
  PROVE  g[m] = h[m]
<1> DEFINE T == {i \in Nat : i <= m => g[i] = h[i]}
<1>1. 0 \in T
  <2>1. 0 \in 0 .. m /\ 0 \in 0 .. l
    OBVIOUS
  <2>2. g[0] = <<>>
    BY <2>1, JoinedAt
  <2>3. h[0] = <<>>
    BY <2>1, JoinedAt
  <2> QED
    BY <2>2, <2>3
<1>2. ASSUME NEW i \in T PROVE i + 1 \in T
  <2> SUFFICES ASSUME i + 1 <= m PROVE g[i + 1] = h[i + 1]
    OBVIOUS
  <2>1. /\ i \in Nat /\ i + 1 \in 0 .. l /\ i + 1 \in 0 .. m /\ i + 1 # 0
        /\ i + 1 \in 1 .. m /\ g[i] = h[i] /\ (i + 1) - 1 = i /\ 1 \in 1 .. m
    OBVIOUS
  <2> HIDE DEF T
  <2>2. a[i + 1] = b[i + 1] /\ a[1] = b[1]
    BY <2>1
  <2>3. g[i + 1] = IF i + 1 = 0 THEN <<>> ELSE IF i + 1 = 1 THEN a[1]
                   ELSE g[(i + 1) - 1] \o sep \o a[i + 1]
    BY <2>1, JoinedAt
  <2>4. h[i + 1] = IF i + 1 = 0 THEN <<>> ELSE IF i + 1 = 1 THEN b[1]
                   ELSE h[(i + 1) - 1] \o sep \o b[i + 1]
    BY <2>1, JoinedAt
  <2>5. i + 1 = 1 \/ i + 1 > 1
    BY <2>1
  <2> QED
    BY <2>1, <2>2, <2>3, <2>4, <2>5
<1>3. T = Nat
  <2> HIDE DEF T
  <2>1. T \in SUBSET Nat
    BY DEF T
  <2> QED
    BY <1>1, <1>2, <2>1, AllOfNat
<1> QED
  BY <1>3

(* Parts and separator over the same characters give a text over them. *)
LEMMA JoinedTyped ==
  ASSUME NEW C, NEW parts \in Seq(Seq(C)), NEW sep \in Seq(C)
  PROVE  Joined(parts, sep) \in Seq(C)
<1> DEFINE m == Len(parts)
<1>1. m \in Nat /\ m <= m /\ m \in 0 .. m
  OBVIOUS
<1> HIDE DEF m
<1>2. PICK g \in [0 .. m -> Seq(C)] : g = JoinedStep(g, parts, sep, m)
  BY <1>1, JoinedExists DEF m
<1>3. PICK h : h = JoinedStep(h, parts, sep, m) /\ Joined(parts, sep) = h[m]
  BY <1>1, JoinedRuns DEF m
<1>4. g[m] = h[m]
  <2>1. \A i \in 1 .. m : parts[i] = parts[i]
    OBVIOUS
  <2> QED
    BY <1>1, <1>2, <1>3, <2>1, JoinedPrefix
<1>5. g[m] \in Seq(C)
  BY <1>1, <1>2
<1> QED
  BY <1>3, <1>4, <1>5

(* No part gives the empty text. *)
LEMMA JoinedNone ==
  ASSUME NEW sep
  PROVE  Joined(<<>>, sep) = <<>>
<1> DEFINE h == [i \in 0 .. 0 |-> <<>>]
<1>1. Len(<<>>) = 0
  OBVIOUS
<1>2. h = JoinedStep(h, <<>>, sep, 0)
  BY DEF JoinedStep
<1> HIDE DEF h
<1>3. PICK g : g = JoinedStep(g, <<>>, sep, 0) /\ Joined(<<>>, sep) = g[0]
  BY <1>1, <1>2, JoinedIs
<1>4. g[0] = <<>>
  <2>1. 0 \in Nat /\ 0 \in 0 .. 0
    OBVIOUS
  <2> QED
    BY <1>3, <2>1, JoinedAt
<1> QED
  BY <1>3, <1>4

(* One part more. *)
Beside(t, sep, p) == t \o sep \o p

(* One more part comes after one more separator, unless it is the first. *)
LEMMA JoinedMore ==
  ASSUME NEW C, NEW parts \in Seq(Seq(C)), NEW sep \in Seq(C), NEW p \in Seq(C)
  PROVE  /\ parts = <<>> => Joined(Append(parts, p), sep) = p
         /\ parts # <<>> => Joined(Append(parts, p), sep) = Beside(Joined(parts, sep), sep, p)
<1> DEFINE m == Len(parts)
           t == Append(parts, p)
           l == m + 1
<1>1. m \in Nat /\ l \in Nat /\ m <= l /\ l \in 0 .. l /\ l - 1 = m
      /\ (parts = <<>> => l = 1) /\ (parts # <<>> => l > 1)
  OBVIOUS
<1>2. t \in Seq(Seq(C)) /\ Len(t) = l /\ t[l] = p /\ \A i \in 1 .. m : parts[i] = t[i]
  BY AppendProperties
<1> HIDE DEF m, t, l
<1>3. PICK g : g = JoinedStep(g, parts, sep, m) /\ Joined(parts, sep) = g[m]
  BY <1>1, JoinedRuns DEF m
<1>4. PICK h : h = JoinedStep(h, t, sep, l) /\ Joined(t, sep) = h[l]
  BY <1>1, <1>2, JoinedRuns
<1>5. g[m] = h[m]
  <2>1. m \in Nat /\ l \in Nat /\ m <= l
    BY <1>1
  <2>2. \A i \in 1 .. m : parts[i] = t[i]
    BY <1>2
  <2>3. g = JoinedStep(g, parts, sep, m) /\ h = JoinedStep(h, t, sep, l)
    BY <1>3, <1>4
  <2> QED
    BY <2>1, <2>2, <2>3, JoinedPrefix
<1>6. h[l] = IF l = 0 THEN <<>> ELSE IF l = 1 THEN t[1] ELSE h[l - 1] \o sep \o t[l]
  BY <1>1, <1>4, JoinedAt
<1>7. parts = <<>> => Joined(t, sep) = p
  BY <1>1, <1>2, <1>4, <1>6
<1>8. parts # <<>> => Joined(t, sep) = Beside(Joined(parts, sep), sep, p)
  BY <1>1, <1>2, <1>3, <1>4, <1>5, <1>6 DEF Beside
<1> QED
  BY <1>7, <1>8 DEF t

(* Splitting undoes joining, if no part holds a separator and the parts are not
   more than asked for. *)
LEMMA SplitJoined ==
  ASSUME NEW C, NEW sep, sep \notin C, NEW n \in Int, NEW parts \in Seq(Seq(C)),
         parts # <<>>, n < 0 \/ Len(parts) <= n
  PROVE  SplitN(Joined(parts, <<sep>>), sep, n) = parts
<1> DEFINE D == C \cup {sep}
           P(a) == a # <<>> /\ (n < 0 \/ Len(a) <= n) => SplitN(Joined(a, <<sep>>), sep, n) = a
           T == {a \in Seq(Seq(C)) : P(a)}
<1>1. C \in SUBSET D /\ sep \in D /\ <<sep>> \in Seq(D)
  OBVIOUS
<1>2. \A a \in Seq(Seq(C)) : a \in Seq(Seq(D))
  <2>1. \A q \in Seq(C) : q \in Seq(D)
    BY <1>1, SeqMonotonic
  <2>2. Seq(C) \subseteq Seq(D)
    BY <2>1
  <2> HIDE DEF D
  <2> QED
    BY <2>2, SeqMonotonic
<1> HIDE DEF D
<1>3. <<>> \in T
  <2>1. <<>> \in Seq(Seq(C))
    OBVIOUS
  <2> QED
    BY <2>1
<1>4. ASSUME NEW a \in T, NEW p \in Seq(C) PROVE Append(a, p) \in T
  <2> DEFINE b == Append(a, p)
             J == Joined(a, <<sep>>)
  <2>1. a \in Seq(Seq(C)) /\ P(a) /\ a \in Seq(Seq(D)) /\ p \in Seq(D)
    BY <1>1, <1>2, SeqMonotonic
  <2>2. b \in Seq(Seq(C)) /\ Len(b) = Len(a) + 1 /\ Len(a) \in Nat
    BY <2>1, AppendProperties
  <2>3. /\ a = <<>> => Joined(b, <<sep>>) = p
        /\ a # <<>> => Joined(b, <<sep>>) = J \o <<sep>> \o p
    <3> DEFINE q == <<sep>>
    <3>1. q \in Seq(D) /\ a \in Seq(Seq(D)) /\ p \in Seq(D)
      BY <1>1, <2>1
    <3> HIDE DEF q, P, T
    <3>2. /\ a = <<>> => Joined(Append(a, p), q) = p
          /\ a # <<>> => Joined(Append(a, p), q) = Beside(Joined(a, q), q, p)
      BY <3>1, JoinedMore
    <3> QED
      BY <3>2 DEF q, Beside
  <2>4. J \in Seq(D)
    BY <1>1, <2>1, JoinedTyped
  <2> HIDE DEF b, J
  <2>5. CASE a = <<>>
    <3>1. b = <<p>>
      BY <2>5 DEF b
    <3>2. <<>> \in Seq(D) /\ <<>> \o p = p
      OBVIOUS
    <3>3. SplitN(<<>> \o p, sep, n) = Extended(SplitN(<<>>, sep, n), p)
      <4> DEFINE u == <<>>
      <4>1. u \in Seq(D)
        BY <3>2
      <4> HIDE DEF u, P, T
      <4>2. SplitN(u \o p, sep, n) = Extended(SplitN(u, sep, n), p)
        BY <1>1, <4>1, SplitPiece
      <4> QED
        BY <4>2 DEF u
    <3>4. SplitN(<<>>, sep, n) = << <<>> >>
      BY SplitNone
    <3>5. Extended(<< <<>> >>, p) = <<p>>
      BY <3>2 DEF Extended
    <3>6. SplitN(Joined(b, <<sep>>), sep, n) = b
      BY <2>3, <2>5, <3>1, <3>2, <3>3, <3>4, <3>5
    <3> QED
      BY <2>2, <3>6 DEF b
  <2>6. CASE a # <<>>
    <3>1. SUFFICES ASSUME n < 0 \/ Len(b) <= n PROVE SplitN(Joined(b, <<sep>>), sep, n) = b
      BY <2>2 DEF b
    <3>2. n < 0 \/ Len(a) < n
      BY <2>2, <3>1
    <3>3. SplitN(J, sep, n) = a
      BY <2>1, <2>2, <2>6, <3>2 DEF J
    <3>4. J \o <<sep>> = Append(J, sep) /\ Append(J, sep) \in Seq(D)
      BY <1>1, <2>4, AppendIsConcat, AppendProperties
    <3>5. SplitN(Append(J, sep), sep, n) = Grown(a, sep, sep, n)
      BY <1>1, <2>4, <3>3, SplitMore
    <3>6. Grown(a, sep, sep, n) = Append(a, <<>>)
      BY <3>2 DEF Grown
    <3>7. SplitN(Append(J, sep) \o p, sep, n) = Extended(Append(a, <<>>), p)
      <4> DEFINE u == Append(J, sep)
      <4>1. u \in Seq(D)
        BY <3>4
      <4> HIDE DEF u, P, T
      <4>2. SplitN(u \o p, sep, n) = Extended(SplitN(u, sep, n), p)
        BY <1>1, <4>1, SplitPiece
      <4> QED
        BY <3>5, <3>6, <4>2 DEF u
    <3>8. Extended(Append(a, <<>>), p) = b
      <4> DEFINE c == Append(a, <<>>)
                 k == Len(a) + 1
      <4>1. c \in Seq(Seq(C)) /\ Len(c) = k /\ c[k] = <<>> /\ \A i \in 1 .. Len(a) : c[i] = a[i]
        <5>1. <<>> \in Seq(C)
          OBVIOUS
        <5> QED
          BY <2>1, <5>1, AppendProperties
      <4>2. b[k] = p /\ \A i \in 1 .. Len(a) : b[i] = a[i]
        BY <2>1, AppendProperties DEF b
      <4> HIDE DEF c
      <4>3. Extended(c, p) = [c EXCEPT ![k] = p]
        BY <3>2, <4>1 DEF Extended
      <4>4. k \in 1 .. Len(c) /\ Len(c) \in Nat
        BY <2>2, <4>1
      <4>5. /\ [c EXCEPT ![k] = p] \in Seq(Seq(C))
            /\ Len([c EXCEPT ![k] = p]) = Len(c)
            /\ \A j \in 1 .. Len(c) : [c EXCEPT ![k] = p][j] = IF j = k THEN p ELSE c[j]
        BY <4>1, <4>4, ExceptSeq
      <4> DEFINE e == [c EXCEPT ![k] = p]
      <4>6. ASSUME NEW j \in 1 .. Len(c) PROVE e[j] = b[j]
        <5>1. e[j] = IF j = k THEN p ELSE c[j]
          BY <4>5
        <5>2. j # k => j \in 1 .. Len(a)
          BY <2>2, <4>1
        <5> HIDE DEF e
        <5>3. CASE j = k
          BY <4>2, <5>1, <5>3
        <5>4. CASE j # k
          <6>1. c[j] = a[j] /\ b[j] = a[j]
            BY <4>1, <4>2, <5>2, <5>4
          <6> QED
            BY <5>1, <5>4, <6>1
        <5> QED
          BY <5>3, <5>4
      <4>7. [c EXCEPT ![k] = p] = b
        BY <2>2, <4>1, <4>5, <4>6, SeqEqual
      <4> QED
        BY <4>3, <4>7 DEF c
    <3> QED
      BY <2>3, <2>6, <3>4, <3>7, <3>8
  <2> QED
    BY <2>5, <2>6 DEF b
<1>5. T = Seq(Seq(C))
  <2> HIDE DEF T
  <2>1. T \in SUBSET Seq(Seq(C))
    BY DEF T
  <2> QED
    BY <1>3, <1>4, <2>1, AllSequences
<1>6. P(parts)
  <2> HIDE DEF P
  <2> QED
    BY <1>5
<1> QED
  BY <1>6

(* Picked. *)

(* What is picked is of the sequence, in as many places as are marked. *)
LEMMA PickedTyped ==
  ASSUME NEW S, NEW s \in Seq(S), NEW a \in Seq(BOOLEAN), Len(a) = Len(s)
  PROVE  /\ Picked(s, a) \in Seq(S) /\ Len(Picked(s, a)) = Len(Places(a))
         /\ \A k \in 1 .. Len(Places(a)) : Picked(s, a)[k] = s[Places(a)[k]]
<1>1. /\ Places(a) \in Seq(Nat)
      /\ \A k \in 1 .. Len(Places(a)) : Places(a)[k] \in 1 .. Len(a)
  BY PlacesTyped
<1> DEFINE t == Places(a)
           n == Len(t)
<1> HIDE DEF t
<1>2. n \in Nat /\ DOMAIN t = 1 .. n
  BY <1>1 DEF t
<1>3. \A k \in 1 .. n : s[t[k]] \in S
  BY <1>1 DEF t
<1>4. Picked(s, a) = [k \in 1 .. n |-> s[t[k]]]
  BY <1>2 DEF Picked, t
<1> HIDE DEF n
<1>5. [k \in 1 .. n |-> s[t[k]]] \in Seq(S) /\ Len([k \in 1 .. n |-> s[t[k]]]) = n
  BY <1>2, <1>3
<1>6. \A k \in 1 .. n : [j \in 1 .. n |-> s[t[j]]][k] = s[t[k]]
  OBVIOUS
<1> QED
  BY <1>4, <1>5, <1>6 DEF t, n

(* One element more is picked, or not. *)
LEMMA PickedMore ==
  ASSUME NEW S, NEW s \in Seq(S), NEW x \in S, NEW a \in Seq(BOOLEAN), Len(a) = Len(s),
         NEW b \in Seq(BOOLEAN), Len(b) = Len(s) + 1, \A i \in 1 .. Len(s) : a[i] = b[i]
  PROVE  /\ b[Len(s) + 1] => Picked(Append(s, x), b) = Append(Picked(s, a), x)
         /\ ~b[Len(s) + 1] => Picked(Append(s, x), b) = Picked(s, a)
<1> DEFINE n == Len(s)
           t == Append(s, x)
           A == Places(a)
           B == Places(b)
           P == Picked(s, a)
           Q == Picked(t, b)
<1>1. n \in Nat /\ Len(a) = n /\ Len(b) = n + 1 /\ n + 1 \in 1 .. n + 1
  OBVIOUS
<1>2. t \in Seq(S) /\ Len(t) = n + 1 /\ t[n + 1] = x /\ \A i \in 1 .. n : t[i] = s[i]
  BY AppendProperties
<1>3. /\ A \in Seq(Nat) /\ \A k \in 1 .. Len(A) : A[k] \in 1 .. Len(a)
  BY PlacesTyped
<1>4. /\ P \in Seq(S) /\ Len(P) = Len(A) /\ \A k \in 1 .. Len(A) : P[k] = s[A[k]]
  BY PickedTyped
<1> HIDE DEF n
<1>5. /\ b[n + 1] => B = Append(A, n + 1)
      /\ ~b[n + 1] => B = A
  <2>1. \A i \in 1 .. n : a[i] = b[i]
    BY DEF n
  <2> QED
    BY <1>1, <2>1, PlacesMore
<1> HIDE DEF t
<1>6. /\ Q \in Seq(S) /\ Len(Q) = Len(B) /\ \A k \in 1 .. Len(B) : Q[k] = t[B[k]]
  BY <1>1, <1>2, PickedTyped
<1> HIDE DEF A, B, P, Q
<1>7. CASE b[n + 1]
  <2>1. Len(A) \in Nat /\ n + 1 \in Nat
    BY <1>1, <1>3
  <2>2. Len(B) = Len(A) + 1 /\ B[Len(A) + 1] = n + 1 /\ \A k \in 1 .. Len(A) : B[k] = A[k]
    BY <1>3, <1>5, <1>7, <2>1, AppendProperties
  <2>3. /\ Append(P, x) \in Seq(S) /\ Len(Append(P, x)) = Len(A) + 1
        /\ Append(P, x)[Len(A) + 1] = x
        /\ \A k \in 1 .. Len(A) : Append(P, x)[k] = P[k]
    BY <1>4, AppendProperties
  <2>4. ASSUME NEW k \in 1 .. Len(Q) PROVE Q[k] = Append(P, x)[k]
    <3>1. k \in 1 .. Len(B)
      BY <1>6
    <3>2. CASE k = Len(A) + 1
      <4>1. Q[k] = t[n + 1]
        BY <1>6, <2>2, <3>1, <3>2
      <4> QED
        BY <1>2, <2>3, <3>2, <4>1
    <3>3. CASE k # Len(A) + 1
      <4>1. k \in 1 .. Len(A)
        BY <2>1, <2>2, <3>1, <3>3
      <4>2. A[k] \in 1 .. n
        BY <1>1, <1>3, <4>1
      <4>3. Q[k] = t[A[k]]
        BY <1>6, <2>2, <3>1, <4>1
      <4>4. Q[k] = s[A[k]]
        BY <1>2, <4>2, <4>3
      <4>5. Append(P, x)[k] = s[A[k]]
        BY <1>4, <2>3, <4>1
      <4> QED
        BY <4>4, <4>5
    <3> QED
      BY <3>2, <3>3
  <2>5. Len(Q) = Len(Append(P, x))
    BY <1>6, <2>2, <2>3
  <2>6. Q = Append(P, x)
    BY <1>6, <2>3, <2>4, <2>5, SeqEqual
  <2> QED
    BY <1>7, <2>6 DEF P, Q, t, n
<1>8. CASE ~b[n + 1]
  <2>1. B = A
    BY <1>5, <1>8
  <2>2. ASSUME NEW k \in 1 .. Len(Q) PROVE Q[k] = P[k]
    <3>1. k \in 1 .. Len(A)
      BY <1>6, <2>1
    <3>2. A[k] \in 1 .. n
      BY <1>1, <1>3, <3>1
    <3>3. Q[k] = t[A[k]]
      BY <1>6, <2>1, <3>1
    <3>4. P[k] = s[A[k]]
      BY <1>4, <3>1
    <3> QED
      BY <1>2, <3>2, <3>3, <3>4
  <2>3. Len(Q) = Len(P)
    BY <1>4, <1>6, <2>1
  <2>4. Q = P
    BY <1>4, <1>6, <2>2, <2>3, SeqEqual
  <2> QED
    BY <1>8, <2>4 DEF P, Q, t, n
<1> QED
  BY <1>7, <1>8

(* With every place marked all of it is picked. *)
LEMMA PickedAll ==
  ASSUME NEW S, NEW s \in Seq(S), NEW a \in Seq(BOOLEAN), Len(a) = Len(s),
         \A i \in 1 .. Len(s) : a[i]
  PROVE  Picked(s, a) = s
<1> DEFINE n == Len(s)
<1>1. n \in Nat /\ n \in 0 .. n /\ Len(a) = n
  OBVIOUS
<1>2. Len(Places(a)) = n /\ \A j \in 1 .. n : Places(a)[j] = j
  <2> HIDE DEF n
  <2>1. \A j \in 1 .. n : a[j]
    BY DEF n
  <2> QED
    BY <1>1, <2>1, PlacesAll
<1>3. /\ Picked(s, a) \in Seq(S) /\ Len(Picked(s, a)) = Len(Places(a))
      /\ \A k \in 1 .. Len(Places(a)) : Picked(s, a)[k] = s[Places(a)[k]]
  BY PickedTyped
<1>4. Len(Picked(s, a)) = Len(s) /\ \A k \in 1 .. Len(Picked(s, a)) : Picked(s, a)[k] = s[k]
  BY <1>2, <1>3
<1> QED
  BY <1>3, <1>4, SeqEqual

(* Without marks nothing is picked. *)
LEMMA PlacesNever ==
  ASSUME NEW a \in Seq({FALSE})
  PROVE  Places(a) = <<>>
<1> DEFINE T == {b \in Seq({FALSE}) : Places(b) = <<>>}
<1>1. <<>> \in T
  BY PlacesNone
<1>2. ASSUME NEW b \in T, NEW c \in {FALSE} PROVE Append(b, c) \in T
  <2> DEFINE t == Append(b, c)
             n == Len(b)
  <2>1. b \in Seq({FALSE}) /\ Places(b) = <<>> /\ n \in Nat
    OBVIOUS
  <2>2. t \in Seq({FALSE}) /\ Len(t) = n + 1 /\ t[n + 1] = FALSE /\ \A i \in 1 .. n : b[i] = t[i]
    BY <2>1, AppendProperties
  <2> HIDE DEF t, n
  <2>3. ~t[n + 1] => Places(t) = Places(b)
    BY <2>1, <2>2, PlacesMore DEF n
  <2> QED
    BY <2>1, <2>2, <2>3 DEF t
<1>3. T = Seq({FALSE})
  <2> HIDE DEF T
  <2>1. T \in SUBSET Seq({FALSE})
    BY DEF T
  <2> QED
    BY <1>1, <1>2, <2>1, AllSequences
<1> QED
  BY <1>3

(* NonEmpty. *)

(* The marks of the parts that are not empty. *)
LEMMA SolidMarks ==
  ASSUME NEW S, NEW parts \in Seq(S)
  PROVE  LET a == [i \in DOMAIN parts |-> parts[i] # <<>>]
         IN a \in Seq(BOOLEAN) /\ Len(a) = Len(parts) /\ \A i \in 1 .. Len(parts) : a[i] = (parts[i] # <<>>)
<1> DEFINE a == [i \in DOMAIN parts |-> parts[i] # <<>>]
           n == Len(parts)
<1>1. n \in Nat /\ DOMAIN parts = 1 .. n
  OBVIOUS
<1>2. a = [i \in 1 .. n |-> parts[i] # <<>>]
  BY <1>1
<1> HIDE DEF n
<1>3. a = [i \in 1 .. n |-> a[i]] /\ \A i \in 1 .. n : a[i] = (parts[i] # <<>>)
  BY <1>2
<1> HIDE DEF a
<1>4. \A i \in 1 .. n : a[i] \in BOOLEAN
  BY <1>3
<1>5. a \in Seq(BOOLEAN) /\ Len(a) = n
  BY <1>1, <1>3, <1>4, SeqIs
<1> QED
  BY <1>3, <1>5 DEF a, n

(* The parts that are not empty are parts. *)
LEMMA NonEmptyTyped ==
  ASSUME NEW S, NEW parts \in Seq(S)
  PROVE  NonEmpty(parts) \in Seq(S)
<1> DEFINE a == [i \in DOMAIN parts |-> parts[i] # <<>>]
<1>1. a \in Seq(BOOLEAN) /\ Len(a) = Len(parts)
  BY SolidMarks
<1> HIDE DEF a
<1>2. Picked(parts, a) \in Seq(S)
  BY <1>1, PickedTyped
<1> QED
  BY <1>2 DEF NonEmpty, a

(* There are none among no parts. *)
LEMMA NonEmptyNone == NonEmpty(<<>>) = <<>>
<1> DEFINE a == [i \in DOMAIN <<>> |-> <<>>[i] # <<>>]
<1>1. a = <<>>
  OBVIOUS
<1>2. NonEmpty(<<>>) = Picked(<<>>, <<>>)
  BY <1>1 DEF NonEmpty
<1>3. Picked(<<>>, <<>>) = [k \in DOMAIN <<>> |-> <<>>[(<<>>)[k]]]
  BY PlacesNone DEF Picked
<1>4. [k \in DOMAIN <<>> |-> <<>>[(<<>>)[k]]] = <<>>
  OBVIOUS
<1> QED
  BY <1>2, <1>3, <1>4

(* A part more is kept unless it is empty. *)
LEMMA NonEmptyMore ==
  ASSUME NEW S, NEW parts \in Seq(S), NEW p \in S
  PROVE  /\ p # <<>> => NonEmpty(Append(parts, p)) = Append(NonEmpty(parts), p)
         /\ p = <<>> => NonEmpty(Append(parts, p)) = NonEmpty(parts)
<1> DEFINE n == Len(parts)
           t == Append(parts, p)
           a == [i \in DOMAIN parts |-> parts[i] # <<>>]
           b == [i \in DOMAIN t |-> t[i] # <<>>]
<1>1. n \in Nat
  OBVIOUS
<1>2. t \in Seq(S) /\ Len(t) = n + 1 /\ t[n + 1] = p /\ \A i \in 1 .. n : t[i] = parts[i]
  BY AppendProperties
<1>3. a \in Seq(BOOLEAN) /\ Len(a) = n /\ \A i \in 1 .. n : a[i] = (parts[i] # <<>>)
  BY SolidMarks
<1>4. b \in Seq(BOOLEAN) /\ Len(b) = n + 1 /\ \A i \in 1 .. n + 1 : b[i] = (t[i] # <<>>)
  <2> HIDE DEF t
  <2>1. b \in Seq(BOOLEAN) /\ Len(b) = Len(t) /\ \A i \in 1 .. Len(t) : b[i] = (t[i] # <<>>)
    BY <1>2, SolidMarks
  <2> HIDE DEF b
  <2> QED
    BY <1>2, <2>1
<1> HIDE DEF a, b, t
<1>5. /\ b[n + 1] => Picked(Append(parts, p), b) = Append(Picked(parts, a), p)
      /\ ~b[n + 1] => Picked(Append(parts, p), b) = Picked(parts, a)
  <2>1. \A i \in 1 .. n : a[i] = b[i]
    BY <1>1, <1>2, <1>3, <1>4
  <2> QED
    BY <1>3, <1>4, <2>1, PickedMore
<1>6. b[n + 1] = (p # <<>>)
  BY <1>1, <1>2, <1>4
<1>7. NonEmpty(parts) = Picked(parts, a) /\ NonEmpty(t) = Picked(t, b)
  BY DEF NonEmpty, a, b
<1> HIDE DEF n
<1> QED
  BY <1>5, <1>6, <1>7 DEF t

(* Parts none of which is empty all stay. *)
LEMMA NonEmptyAll ==
  ASSUME NEW S, NEW parts \in Seq(S), <<>> \notin S
  PROVE  NonEmpty(parts) = parts
<1> DEFINE a == [i \in DOMAIN parts |-> parts[i] # <<>>]
<1>1. a \in Seq(BOOLEAN) /\ Len(a) = Len(parts) /\ \A i \in 1 .. Len(parts) : a[i] = (parts[i] # <<>>)
  BY SolidMarks
<1> HIDE DEF a
<1>2. \A i \in 1 .. Len(parts) : a[i]
  BY <1>1
<1>3. Picked(parts, a) = parts
  BY <1>1, <1>2, PickedAll
<1> QED
  BY <1>3 DEF NonEmpty, a

(* Empty parts can be dropped on either side of a concatenation. *)
LEMMA NonEmptyConcat ==
  ASSUME NEW S, NEW a \in Seq(S), NEW b \in Seq(S)
  PROVE  NonEmpty(a \o b) = NonEmpty(a) \o NonEmpty(b)
<1> DEFINE P(c) == NonEmpty(a \o c) = NonEmpty(a) \o NonEmpty(c)
           T == {c \in Seq(S) : P(c)}
<1>1. NonEmpty(a) \in Seq(S)
  BY NonEmptyTyped
<1>2. <<>> \in T
  <2>1. a \o <<>> = a /\ NonEmpty(a) \o <<>> = NonEmpty(a)
    BY <1>1, ConcatEmptySeq
  <2>2. P(<<>>)
    BY <2>1, NonEmptyNone
  <2> HIDE DEF P
  <2> QED
    BY <2>2
<1>3. ASSUME NEW c \in T, NEW p \in S PROVE Append(c, p) \in T
  <2> DEFINE u == a \o c
             v == NonEmpty(c)
             w == NonEmpty(a)
  <2>1. c \in Seq(S) /\ P(c)
    OBVIOUS
  <2>2. u \in Seq(S) /\ v \in Seq(S) /\ w \in Seq(S) /\ Append(c, p) \in Seq(S)
    BY <1>1, <2>1, NonEmptyTyped, ConcatProperties, AppendProperties
  <2>3. a \o Append(c, p) = Append(u, p) /\ w \o Append(v, p) = Append(w \o v, p)
    <3>1. a \o Append(c, p) = Append(a \o c, p)
      <4> HIDE DEF P, T
      <4> QED
        BY <2>1, ConcatAppend
    <3> HIDE DEF P, T, u, v, w
    <3>2. w \o Append(v, p) = Append(w \o v, p)
      BY <2>2, ConcatAppend
    <3> QED
      BY <3>1, <3>2 DEF u
  <2>4. NonEmpty(u) = w \o v
    BY <2>1
  <2> HIDE DEF u, v, w, P, T
  <2>5. /\ p # <<>> => NonEmpty(Append(u, p)) = Append(NonEmpty(u), p)
        /\ p = <<>> => NonEmpty(Append(u, p)) = NonEmpty(u)
    BY <2>2, NonEmptyMore
  <2>6. /\ p # <<>> => NonEmpty(Append(c, p)) = Append(v, p)
        /\ p = <<>> => NonEmpty(Append(c, p)) = v
    BY <2>1, NonEmptyMore DEF v
  <2>7. P(Append(c, p))
    BY <2>3, <2>4, <2>5, <2>6 DEF P, w
  <2> QED
    BY <2>2, <2>7 DEF T
<1>4. T = Seq(S)
  <2> HIDE DEF T
  <2>1. T \in SUBSET Seq(S)
    BY DEF T
  <2> QED
    BY <1>2, <1>3, <2>1, AllSequences
<1>5. P(b)
  <2> HIDE DEF P
  <2> QED
    BY <1>4
<1> QED
  BY <1>5

(* Trim. *)

Bare(u) == u # <<>> /\ u[1] \notin Blank /\ u[Len(u)] \notin Blank

(* Of blanks nothing is left. *)
LEMMA TrimBlank ==
  ASSUME NEW s, \A i \in DOMAIN s : s[i] \in Blank
  PROVE  Trim(s) = <<>>
<1>1. {i \in DOMAIN s : s[i] \notin Blank} = {}
  OBVIOUS
<1> QED
  BY <1>1, Zenon DEF Trim

(* What is left goes from the first to the last character that is not blank. *)
LEMMA TrimIs ==
  ASSUME NEW C, NEW s \in Seq(C), NEW i \in 1 .. Len(s), NEW j \in 1 .. Len(s),
         s[i] \notin Blank, s[j] \notin Blank,
         \A k \in 1 .. Len(s) : k < i \/ k > j => s[k] \in Blank
  PROVE  Trim(s) = SubSeq(s, i, j)
<1> DEFINE solid == {k \in DOMAIN s : s[k] \notin Blank}
           first == CHOOSE k \in solid : \A l \in solid : k <= l
           last == CHOOSE k \in solid : \A l \in solid : k >= l
<1>1. Len(s) \in Nat /\ DOMAIN s = 1 .. Len(s)
  OBVIOUS
<1>2. i \in solid /\ j \in solid
  BY <1>1
<1>3. \A l \in solid : l \in Nat /\ i <= l /\ j >= l
  BY <1>1
<1>4. solid # {} /\ solid \subseteq Nat
  BY <1>2, <1>3
<1>5. Trim(s) = IF solid = {} THEN <<>> ELSE SubSeq(s, first, last)
  BY Zenon DEF Trim
<1> HIDE DEF solid
<1>6. first = i
  <2>1. first \in solid /\ \A l \in solid : first <= l
    <3>1. i \in solid /\ \A l \in solid : i <= l
      BY <1>2, <1>3
    <3> QED
      BY <3>1
  <2>2. first <= i /\ i <= first
    BY <1>2, <1>3, <2>1
  <2> HIDE DEF first
  <2> QED
    BY <1>1, <1>3, <2>1, <2>2
<1>7. last = j
  <2>1. last \in solid /\ \A l \in solid : last >= l
    <3>1. j \in solid /\ \A l \in solid : j >= l
      BY <1>2, <1>3
    <3> QED
      BY <3>1
  <2>2. last <= j /\ j <= last
    BY <1>2, <1>3, <2>1
  <2> HIDE DEF last
  <2> QED
    BY <1>1, <1>3, <2>1, <2>2
<1> HIDE DEF first, last
<1> QED
  BY <1>4, <1>5, <1>6, <1>7

(* Blanks around a text vanish. *)
LEMMA TrimText ==
  ASSUME NEW C, Blank \subseteq C, NEW v \in Seq(Blank), NEW w \in Seq(Blank),
         NEW u \in Seq(C), Bare(u)
  PROVE  Trim(Beside(v, u, w)) = u
<1> DEFINE a == Len(v)
           b == Len(u)
           c == Len(w)
           s == Beside(v, u, w)
           i == a + 1
           j == a + b
<1>1. v \in Seq(C) /\ w \in Seq(C)
  BY SeqMonotonic
<1>2. a \in Nat /\ b \in Nat /\ c \in Nat /\ b # 0
  BY DEF Bare
<1>3. v \o u \in Seq(C) /\ Len(v \o u) = a + b
  BY <1>1, ConcatProperties
<1>4. \A k \in 1 .. a + b : (v \o u)[k] = IF k <= a THEN v[k] ELSE u[k - a]
  BY <1>1, ConcatProperties
<1> DEFINE t == v \o u
<1> HIDE DEF t
<1>5. t \o w \in Seq(C) /\ Len(t \o w) = (a + b) + c
  BY <1>1, <1>3, ConcatProperties DEF t
<1>6. \A k \in 1 .. (a + b) + c : (t \o w)[k] = IF k <= a + b THEN t[k] ELSE w[k - (a + b)]
  <2>1. t \in Seq(C) /\ Len(t) = a + b
    BY <1>3 DEF t
  <2>2. \A k \in 1 .. Len(t) + Len(w) : (t \o w)[k] = IF k <= Len(t) THEN t[k] ELSE w[k - Len(t)]
    BY <1>1, <2>1, ConcatProperties
  <2> QED
    BY <2>1, <2>2
<1>7. s = t \o w
  BY DEF Beside, t
<1>8. \A k \in 1 .. a : v[k] \in Blank
  OBVIOUS
<1>9. \A k \in 1 .. c : w[k] \in Blank
  OBVIOUS
<1>p. u[1] \notin Blank /\ u[b] \notin Blank
  BY DEF Bare
<1> HIDE DEF a, b, c, s
<1>10. s \in Seq(C) /\ Len(s) = (a + b) + c
  BY <1>5, <1>7
<1>11. \A k \in 1 .. a : s[k] = v[k]
  <2>1. ASSUME NEW k \in 1 .. a PROVE s[k] = v[k]
    <3>1. k \in 1 .. (a + b) + c /\ k <= a + b /\ k \in 1 .. a + b /\ k <= a
      BY <1>2
    <3>2. s[k] = t[k]
      BY <1>6, <1>7, <3>1
    <3>3. t[k] = v[k]
      BY <1>4, <3>1 DEF t
    <3> QED
      BY <3>2, <3>3
  <2> QED
    BY <2>1
<1>12. \A k \in 1 .. b : s[a + k] = u[k]
  <2>1. ASSUME NEW k \in 1 .. b PROVE s[a + k] = u[k]
    <3>1. a + k \in 1 .. (a + b) + c /\ a + k <= a + b /\ a + k \in 1 .. a + b /\ ~(a + k <= a)
          /\ (a + k) - a = k
      BY <1>2
    <3>2. s[a + k] = t[a + k]
      BY <1>6, <1>7, <3>1
    <3>3. t[a + k] = u[(a + k) - a]
      BY <1>4, <3>1 DEF t
    <3> QED
      BY <3>1, <3>2, <3>3
  <2> QED
    BY <2>1
<1>13. ASSUME NEW k \in 1 .. Len(s), k < i \/ k > j PROVE s[k] \in Blank
  <2>1. CASE k < i
    <3>1. k \in 1 .. a
      BY <1>2, <1>10, <2>1
    <3> QED
      BY <1>8, <1>11, <3>1
  <2>2. CASE k > j
    <3>1. k \in 1 .. (a + b) + c /\ ~(k <= a + b) /\ k - (a + b) \in 1 .. c
      BY <1>2, <1>10, <2>2
    <3>2. s[k] = w[k - (a + b)]
      BY <1>6, <1>7, <3>1
    <3> QED
      BY <1>9, <3>1, <3>2
  <2> QED
    BY <1>13, <2>1, <2>2
<1>14. i \in 1 .. Len(s) /\ j \in 1 .. Len(s) /\ i <= j + 1
  BY <1>2, <1>10
<1>15. s[i] = u[1] /\ s[j] = u[b]
  <2>1. 1 \in 1 .. b /\ b \in 1 .. b
    BY <1>2
  <2>2. s[a + 1] = u[1] /\ s[a + b] = u[b]
    BY <1>12, <2>1
  <2> QED
    BY <2>2
<1>16. Trim(s) = SubSeq(s, i, j)
  <2> HIDE DEF i, j
  <2>1. s[i] \notin Blank /\ s[j] \notin Blank
    BY <1>15, <1>p
  <2> QED
    BY <1>10, <1>13, <1>14, <2>1, TrimIs
<1>17. SubSeq(s, i, j) = u
  <2>1. \A k \in i .. j : s[k] \in C
    BY <1>2, <1>10
  <2>2. i \in Int /\ j \in Int /\ j - i + 1 = b /\ i <= j
    BY <1>2
  <2>3. /\ SubSeq(s, i, j) \in Seq(C)
        /\ Len(SubSeq(s, i, j)) = b
        /\ \A k \in 1 .. b : SubSeq(s, i, j)[k] = s[i + k - 1]
    <3> HIDE DEF i, j
    <3>1. /\ SubSeq(s, i, j) \in Seq(C)
          /\ Len(SubSeq(s, i, j)) = IF i <= j THEN j - i + 1 ELSE 0
          /\ \A k \in 1 .. j - i + 1 : SubSeq(s, i, j)[k] = s[i + k - 1]
      BY <2>1, <2>2, SubSeqProperties
    <3> QED
      BY <2>2, <3>1
  <2>4. ASSUME NEW k \in 1 .. b PROVE SubSeq(s, i, j)[k] = u[k]
    <3>1. SubSeq(s, i, j)[k] = s[i + k - 1]
      BY <2>3
    <3>2. i + k - 1 = a + k
      BY <1>2
    <3> QED
      BY <1>12, <3>1, <3>2
  <2> DEFINE r == SubSeq(s, i, j)
  <2>5. r \in Seq(C) /\ Len(r) = Len(u) /\ \A k \in 1 .. Len(r) : r[k] = u[k]
    BY <2>3, <2>4 DEF b
  <2> HIDE DEF r
  <2>6. r = u
    BY <2>5, SeqEqual
  <2> QED
    BY <2>6 DEF r
<1> QED
  BY <1>16, <1>17 DEF s

(* Blanks behind a text vanish. *)
LEMMA TrimEnd ==
  ASSUME NEW C, NEW u \in Seq(C), Bare(u), NEW w \in Seq(Blank)
  PROVE  Trim(u \o w) = u /\ Trim(u) = u
<1> DEFINE D == C \cup Blank
           v == <<>>
<1>1. u \in Seq(D) /\ Blank \subseteq D
  BY SeqMonotonic
<1>2. v \in Seq(Blank)
  OBVIOUS
<1>3. v \o u = u /\ u \o v = u
  OBVIOUS
<1> HIDE DEF D, v
<1>4. Trim(Beside(v, u, w)) = u /\ Trim(Beside(v, u, v)) = u
  BY <1>1, <1>2, TrimText
<1>5. Beside(v, u, w) = u \o w /\ Beside(v, u, v) = u
  BY <1>3 DEF Beside
<1> QED
  BY <1>4, <1>5

-----------------------------------------------------------------------------
(* What is written. *)

Inner == Glyphs \cup {" "}

(* No glyph separates anything, and no inner character a line, a column or an item. *)
LEMMA GlyphsApart ==
  /\ " " \notin Glyphs /\ "tab" \notin Glyphs /\ "nl" \notin Glyphs /\ "," \notin Glyphs
  /\ Glyphs \cap Blank = {} /\ "tab" \notin Inner /\ "nl" \notin Inner /\ "," \notin Inner
BY SettingsAssumption DEF Inner, Blank

(* A phrase is over inner characters and begins and ends with none that is blank. *)
LEMMA PhraseIs ==
  ASSUME NEW p \in Phrases
  PROVE  p \in Seq(Inner) /\ (p # <<>> => Bare(p))
<1>1. p \in Seq(Inner) /\ (p # <<>> => p[1] # " " /\ p[Len(p)] # " ")
  BY SettingsAssumption DEF Inner
<1>2. ASSUME p # <<>> PROVE Bare(p)
  <2>1. 1 \in 1 .. Len(p) /\ Len(p) \in 1 .. Len(p)
    <3>1. Len(p) \in Nat \ {0}
      BY <1>1, <1>2, EmptySeq
    <3> QED
      BY <3>1
  <2>2. p[1] \in Inner /\ p[Len(p)] \in Inner
    BY <1>1, <2>1, ElementOfSeq
  <2>3. p[1] \in Glyphs /\ p[Len(p)] \in Glyphs
    BY <1>1, <1>2, <2>2 DEF Inner
  <2> QED
    BY <1>2, <2>3, GlyphsApart DEF Bare
<1> QED
  BY <1>1, <1>2

(* A word is a phrase of glyphs, and not empty. *)
LEMMA WordIs ==
  ASSUME NEW w \in Words
  PROVE  w \in Seq(Glyphs) /\ w # <<>> /\ Bare(w) /\ w \in Phrases
<1>1. w \in Phrases /\ w # <<>> /\ " " \notin ToSet(w)
  BY DEF Words
<1>2. w \in Seq(Inner) /\ Bare(w)
  BY <1>1, PhraseIs
<1>3. ASSUME NEW i \in 1 .. Len(w) PROVE w[i] \in Glyphs
  <2>1. w[i] \in Inner /\ w[i] \in ToSet(w)
    BY <1>2 DEF ToSet
  <2> QED
    BY <1>1, <2>1 DEF Inner
<1>4. w \in Seq(Glyphs)
  BY <1>2, <1>3
<1> QED
  BY <1>1, <1>2, <1>4

(* One element is a sequence. *)
LEMMA Single ==
  ASSUME NEW S, NEW c \in S
  PROVE  <<c>> \in Seq(S)
OBVIOUS

(* Settings. *)

(* The blanks around an item. *)
LEMMA PadIs == \A b \in BOOLEAN : Pad(b) \in Seq({" "}) /\ Pad(b) \in Seq(Blank) /\ Pad(b) \in Seq(Inner)
<1>1. ASSUME NEW b \in BOOLEAN
      PROVE  Pad(b) \in Seq({" "}) /\ Pad(b) \in Seq(Blank) /\ Pad(b) \in Seq(Inner)
  <2>1. Pad(b) = <<" ">> \/ Pad(b) = <<>>
    BY DEF Pad
  <2>2. " " \in Blank /\ " " \in Inner
    BY DEF Blank, Inner
  <2>3. <<" ">> \in Seq({" "}) /\ <<" ">> \in Seq(Blank) /\ <<" ">> \in Seq(Inner)
    BY <2>2, Single
  <2>4. <<>> \in Seq({" "}) /\ <<>> \in Seq(Blank) /\ <<>> \in Seq(Inner)
    OBVIOUS
  <2>5. CASE Pad(b) = <<" ">>
    BY <2>3, <2>5
  <2>6. CASE Pad(b) = <<>>
    BY <2>4, <2>6
  <2> QED
    BY <2>1, <2>5, <2>6
<1> QED
  BY <1>1

(* An item loses the blanks around it and nothing else. *)
LEMMA PaddedIs ==
  ASSUME NEW cell \in Cells
  PROVE  Padded(cell) \in Seq(Inner) /\ Trim(Padded(cell)) = cell.item
<1> DEFINE p == cell.item
           v == Pad(cell.before)
           w == Pad(cell.after)
<1>1. p \in Phrases /\ v \in Seq({" "}) /\ v \in Seq(Blank) /\ v \in Seq(Inner)
      /\ w \in Seq({" "}) /\ w \in Seq(Blank) /\ w \in Seq(Inner)
  BY PadIs DEF Cells
<1>2. p \in Seq(Inner) /\ (p # <<>> => Bare(p))
  BY <1>1, PhraseIs
<1>3. Padded(cell) = (v \o p) \o w /\ Padded(cell) = Beside(v, p, w)
  BY DEF Padded, Beside
<1> HIDE DEF p, v, w
<1>4. v \o p \in Seq(Inner)
  BY <1>1, <1>2, ConcatProperties
<1>5. (v \o p) \o w \in Seq(Inner)
  BY <1>1, <1>4, ConcatProperties
<1>6. CASE p = <<>>
  <2>1. (v \o p) \o w = v \o w
    BY <1>1, <1>6, ConcatEmptySeq
  <2>2. v \o w \in Seq(Blank)
    BY <1>1, ConcatProperties
  <2>3. \A i \in DOMAIN (v \o w) : (v \o w)[i] \in Blank
    BY <2>2
  <2>4. Trim(v \o w) = <<>>
    BY <2>3, TrimBlank
  <2> QED
    BY <1>3, <1>5, <1>6, <2>1, <2>4 DEF p
<1>7. CASE p # <<>>
  <2> DEFINE D == Inner \cup Blank
  <2>1. p \in Seq(D) /\ Blank \subseteq D /\ Bare(p)
    BY <1>2, <1>7, SeqMonotonic
  <2> HIDE DEF D
  <2>2. Trim(Beside(v, p, w)) = p
    <3>1. v \in Seq(Blank) /\ w \in Seq(Blank)
      BY <1>1
    <3> QED
      BY <2>1, <3>1, TrimText
  <2> QED
    BY <1>3, <1>5, <2>2 DEF p
<1> QED
  BY <1>6, <1>7

(* The items of a text are those that were written. *)
ItemsOf(cells) == NonEmpty([i \in DOMAIN cells |-> cells[i].item])

(* The list that is read holds the items that were written, or is the default. *)
LEMMA ListIs ==
  ASSUME NEW cells \in Seq(Cells), NEW def
  PROVE  EnvList(ListText(cells), def) = IF ItemsOf(cells) = <<>> THEN def ELSE ItemsOf(cells)
<1> DEFINE n == Len(cells)
           padded == Mapped(Padded, cells)
           parts == Split(ListText(cells), ",")
           items == [i \in DOMAIN cells |-> cells[i].item]
<1>1. n \in Nat /\ DOMAIN cells = 1 .. n /\ \A i \in 1 .. n : cells[i] \in Cells
  OBVIOUS
<1>2. \A i \in 1 .. n : Padded(cells[i]) \in Seq(Inner) /\ Trim(Padded(cells[i])) = cells[i].item
  BY <1>1, PaddedIs
<1>3. padded = [i \in 1 .. n |-> Padded(cells[i])]
  BY <1>1 DEF Mapped
<1>4. items = [i \in 1 .. n |-> cells[i].item]
  BY <1>1
<1>5. EnvList(ListText(cells), def) =
         IF NonEmpty(Mapped(Trim, parts)) # <<>> THEN NonEmpty(Mapped(Trim, parts)) ELSE def
  BY DEF EnvList
<1>6. Mapped(Trim, parts) = [i \in DOMAIN parts |-> Trim(parts[i])]
  BY DEF Mapped
<1>7. parts = SplitN(Joined(padded, <<",">>), ",", -1)
  BY DEF Split, ListText
<1> HIDE DEF n, padded, parts, items
<1>8. padded \in Seq(Seq(Inner)) /\ Len(padded) = n
  BY <1>1, <1>2, <1>3
<1>9. NonEmpty(Mapped(Trim, parts)) = NonEmpty(items)
  <2>1. CASE n = 0
    <3>1. padded = <<>> /\ items = <<>>
      BY <1>3, <1>4, <2>1
    <3>2. parts = << <<>> >>
      <4>1. Joined(<<>>, <<",">>) = <<>>
        BY JoinedNone
      <4>2. SplitN(<<>>, ",", -1) = << <<>> >>
        <5> DEFINE k == -1
                   sep == ","
        <5>1. k \in Int
          OBVIOUS
        <5> HIDE DEF k, sep
        <5>2. SplitN(<<>>, sep, k) = << <<>> >>
          BY <5>1, SplitNone
        <5> QED
          BY <5>2 DEF k, sep
      <4> QED
        BY <1>7, <3>1, <4>1, <4>2
    <3>3. Trim(<<>>) = <<>>
      BY TrimBlank
    <3>4. Mapped(Trim, parts) = << <<>> >>
      BY <1>6, <3>2, <3>3
    <3>5. << <<>> >> = Append(<<>>, <<>>) /\ <<>> \in Seq({<<>>})
      OBVIOUS
    <3>6. NonEmpty(Append(<<>>, <<>>)) = NonEmpty(<<>>)
      BY <3>5, NonEmptyMore
    <3> QED
      BY <3>1, <3>4, <3>5, <3>6
  <2>2. CASE n # 0
    <3>1. padded # <<>>
      BY <1>1, <1>8, <2>2
    <3>2. parts = padded
      <4> DEFINE k == -1
                 sep == ","
      <4>1. sep \notin Inner
        BY GlyphsApart
      <4>k. k \in Int /\ k < 0
        OBVIOUS
      <4> HIDE DEF k, sep
      <4>2. SplitN(Joined(padded, <<sep>>), sep, k) = padded
        BY <1>8, <3>1, <4>1, <4>k, SplitJoined
      <4> QED
        BY <1>7, <4>2 DEF k, sep
    <3>3. Mapped(Trim, parts) = items
      BY <1>2, <1>3, <1>4, <1>6, <3>2
    <3> QED
      BY <3>3
  <2> QED
    BY <2>1, <2>2
<1>10. ItemsOf(cells) = NonEmpty(items)
  BY DEF ItemsOf, items
<1> QED
  BY <1>5, <1>9, <1>10

(* Each setting is read apart from the others. *)
LEMMA LoadServices ==
  ASSUME NEW x
  PROVE  Load([Unset EXCEPT !.services = x]) = [Load(Unset) EXCEPT !.Services = EnvList(x, << <<"ssh">>, <<"ufw">> >>)]
<1> DEFINE std == << <<"ssh">>, <<"ufw">> >>
           log == << <<"syslog">> >>
           home == EnvStr(<<>>, <<".">>) \o <<"/.local/share/hackercockpit">>
           a == EnvInt(<<>>, DefaultPort)
           b == EnvInt(<<>>, 30)
           c == EnvBool(<<>>, FALSE)
           d == EnvList(<<>>, std)
           e == EnvList(<<>>, log)
           f == EnvStr(<<>>, home)
           new == EnvList(x, << <<"ssh">>, <<"ufw">> >>)
           env == [Unset EXCEPT !.services = x]
           all == [Port |-> a, TerminalTimeoutSec |-> b, AuthEnabled |-> c, Services |-> d,
                   AllowedLogs |-> e, DataDir |-> f]
<1>1. Load(Unset) = all
  BY DEF Load, Unset
<1>2. /\ env.port = <<>> /\ env.timeout = <<>> /\ env.auth = <<>>
      /\ env.services = x /\ env.logs = <<>> /\ env.dir = <<>> /\ env.home = <<>>
  BY DEF Unset
<1> HIDE DEF env
<1>3. Load(env) = [Port |-> a, TerminalTimeoutSec |-> b, AuthEnabled |-> c, Services |-> new,
                   AllowedLogs |-> e, DataDir |-> f]
  BY <1>2 DEF Load
<1> HIDE DEF a, b, c, d, e, f, new
<1>4. Load(env) = [all EXCEPT !.Services = new]
  BY <1>3
<1> QED
  BY <1>1, <1>4 DEF env, new

(* The port is read of its own variable. *)
LEMMA LoadPort ==
  ASSUME NEW x
  PROVE  Load([Unset EXCEPT !.port = x]) = [Load(Unset) EXCEPT !.Port = EnvInt(x, DefaultPort)]
<1> DEFINE std == << <<"ssh">>, <<"ufw">> >>
           log == << <<"syslog">> >>
           home == EnvStr(<<>>, <<".">>) \o <<"/.local/share/hackercockpit">>
           a == EnvInt(<<>>, DefaultPort)
           b == EnvInt(<<>>, 30)
           c == EnvBool(<<>>, FALSE)
           d == EnvList(<<>>, std)
           e == EnvList(<<>>, log)
           f == EnvStr(<<>>, home)
           new == EnvInt(x, DefaultPort)
           env == [Unset EXCEPT !.port = x]
           all == [Port |-> a, TerminalTimeoutSec |-> b, AuthEnabled |-> c, Services |-> d,
                   AllowedLogs |-> e, DataDir |-> f]
<1>1. Load(Unset) = all
  BY DEF Load, Unset
<1>2. /\ env.port = x /\ env.timeout = <<>> /\ env.auth = <<>>
      /\ env.services = <<>> /\ env.logs = <<>> /\ env.dir = <<>> /\ env.home = <<>>
  BY DEF Unset
<1> HIDE DEF env
<1>3. Load(env) = [Port |-> new, TerminalTimeoutSec |-> b, AuthEnabled |-> c, Services |-> d,
                   AllowedLogs |-> e, DataDir |-> f]
  BY <1>2 DEF Load
<1> HIDE DEF a, b, c, d, e, f, new
<1>4. Load(env) = [all EXCEPT !.Port = new]
  BY <1>3
<1> QED
  BY <1>1, <1>4 DEF env, new

(* The switch is read of its own variable. *)
LEMMA LoadAuth ==
  ASSUME NEW x
  PROVE  Load([Unset EXCEPT !.auth = x]) = [Load(Unset) EXCEPT !.AuthEnabled = EnvBool(x, FALSE)]
<1> DEFINE std == << <<"ssh">>, <<"ufw">> >>
           log == << <<"syslog">> >>
           home == EnvStr(<<>>, <<".">>) \o <<"/.local/share/hackercockpit">>
           a == EnvInt(<<>>, DefaultPort)
           b == EnvInt(<<>>, 30)
           c == EnvBool(<<>>, FALSE)
           d == EnvList(<<>>, std)
           e == EnvList(<<>>, log)
           f == EnvStr(<<>>, home)
           new == EnvBool(x, FALSE)
           env == [Unset EXCEPT !.auth = x]
           all == [Port |-> a, TerminalTimeoutSec |-> b, AuthEnabled |-> c, Services |-> d,
                   AllowedLogs |-> e, DataDir |-> f]
<1>1. Load(Unset) = all
  BY DEF Load, Unset
<1>2. /\ env.port = <<>> /\ env.timeout = <<>> /\ env.auth = x
      /\ env.services = <<>> /\ env.logs = <<>> /\ env.dir = <<>> /\ env.home = <<>>
  BY DEF Unset
<1> HIDE DEF env
<1>3. Load(env) = [Port |-> a, TerminalTimeoutSec |-> b, AuthEnabled |-> new, Services |-> d,
                   AllowedLogs |-> e, DataDir |-> f]
  BY <1>2 DEF Load
<1> HIDE DEF a, b, c, d, e, f, new
<1>4. Load(env) = [all EXCEPT !.AuthEnabled = new]
  BY <1>3
<1> QED
  BY <1>1, <1>4 DEF env, new

(* What is not set is the default. *)
LEMMA LoadStandard ==
  /\ Load(Unset).Services = EnvList(<<>>, << <<"ssh">>, <<"ufw">> >>)
  /\ [Load(Unset) EXCEPT !.Services = Load(Unset).Services] = Load(Unset)
<1> DEFINE std == << <<"ssh">>, <<"ufw">> >>
           home == EnvStr(<<>>, <<".">>) \o <<"/.local/share/hackercockpit">>
           a == EnvInt(<<>>, DefaultPort)
           b == EnvInt(<<>>, 30)
           c == EnvBool(<<>>, FALSE)
           d == EnvList(<<>>, std)
           e == EnvList(<<>>, << <<"syslog">> >>)
           f == EnvStr(<<>>, home)
           all == [Port |-> a, TerminalTimeoutSec |-> b, AuthEnabled |-> c, Services |-> d,
                   AllowedLogs |-> e, DataDir |-> f]
<1>1. Load(Unset) = all
  BY DEF Load, Unset
<1> HIDE DEF a, b, c, d, e, f
<1>2. all.Services = d /\ [all EXCEPT !.Services = d] = all
  OBVIOUS
<1> QED
  BY <1>1, <1>2 DEF d

(* A list of any length reads back (envList, Load). *)
LEMMA ListRead ==
  ASSUME NEW cells \in Seq(Cells)
  PROVE  ListReads(cells)
<1> DEFINE std == << <<"ssh">>, <<"ufw">> >>
           v == EnvList(ListText(cells), std)
           none == EnvList(<<>>, std)
<1>1. v = IF ItemsOf(cells) = <<>> THEN std ELSE ItemsOf(cells)
  BY ListIs
<1>2. none = std
  <2>1. <<>> \in Seq(Cells) /\ ListText(<<>>) = <<>>
    <3>1. Mapped(Padded, <<>>) = <<>>
      BY DEF Mapped
    <3> QED
      <4>1. Joined(<<>>, <<",">>) = <<>>
        BY JoinedNone
      <4>2. <<>> \in Seq(Cells)
        OBVIOUS
      <4> QED
        BY <3>1, <4>1, <4>2 DEF ListText
  <2>2. ItemsOf(<<>>) = <<>>
    <3>1. [i \in DOMAIN <<>> |-> <<>>[i].item] = <<>>
      OBVIOUS
    <3> QED
      BY <3>1, NonEmptyNone DEF ItemsOf
  <2>3. EnvList(ListText(<<>>), std) = IF ItemsOf(<<>>) = <<>> THEN std ELSE ItemsOf(<<>>)
    BY <2>1, ListIs
  <2> QED
    BY <2>1, <2>2, <2>3
<1>3. Load(Unset).Services = none
  BY LoadStandard
<1>4. Load([Unset EXCEPT !.services = ListText(cells)]) = [Load(Unset) EXCEPT !.Services = v]
  BY LoadServices
<1>5. [Load(Unset) EXCEPT !.Services = Load(Unset).Services] = Load(Unset)
  BY LoadStandard
<1> DEFINE read == Load([Unset EXCEPT !.services = ListText(cells)])
<1> HIDE DEF std, v, none, read
<1>6. read = IF ItemsOf(cells) = <<>> THEN Load(Unset)
             ELSE [Load(Unset) EXCEPT !.Services = ItemsOf(cells)]
  BY <1>1, <1>2, <1>3, <1>4, <1>5 DEF read
<1> QED
  BY <1>6 DEF ListReads, ItemsOf, read

ValueStep(h, digits, m) ==
    [i \in 0 .. m |-> IF i = 0 THEN 0 ELSE 10 * h[i - 1] + DigitValue(digits[i])]

(* What Value returns is the end of a course of its loop. *)
LEMMA ValueIs ==
  ASSUME NEW digits, \E g : g = ValueStep(g, digits, Len(digits))
  PROVE  \E h : h = ValueStep(h, digits, Len(digits)) /\ Value(digits) = h[Len(digits)]
<1> DEFINE K == CHOOSE first : first = ValueStep(first, digits, Len(digits))
<1>1. Value(digits) = K[Len(digits)]
  BY Zenon DEF Value, ValueStep
<1>2. K = ValueStep(K, digits, Len(digits))
  BY Zenon
<1> QED
  BY <1>1, <1>2, Zenon

(* Each digit has its value and is no sign. *)
LEMMA DigitIs ==
  ASSUME NEW d \in 0 .. 9
  PROVE  /\ Digit[d + 1] \in ToSet(Digit) /\ Digit[d + 1] \notin {"-", "+", " "}
         /\ DigitValue(Digit[d + 1]) = d
<1>1. DOMAIN Digit = 1 .. 10
  BY DEF Digit
<1>2. Digit[d + 1] \in ToSet(Digit)
  BY <1>1 DEF ToSet
<1>3. Digit[d + 1] \in {"0", "1", "2", "3", "4", "5", "6", "7", "8", "9"}
  BY SMTT(30) DEF Digit
<1>4. \A e \in 0 .. 9 : Digit[e + 1] = Digit[d + 1] => e = d
  BY DEF Digit
<1> DEFINE c == Digit[d + 1]
           x == CHOOSE e \in 0 .. 9 : Digit[e + 1] = c
<1>5. x \in 0 .. 9 /\ Digit[x + 1] = c
  <2>1. d \in 0 .. 9 /\ Digit[d + 1] = c
    OBVIOUS
  <2> HIDE DEF c
  <2> QED
    BY <2>1
<1> HIDE DEF x
<1>6. x = d
  BY <1>4, <1>5
<1> QED
  BY <1>2, <1>3, <1>6 DEF x, DigitValue

(* A blank is no digit. *)
LEMMA BlankIsNoDigit == " " \notin ToSet(Digit)
<1>1. ASSUME NEW i \in 1 .. 10 PROVE Digit[i] # " "
  <2>1. i - 1 \in 0 .. 9 /\ i = (i - 1) + 1
    OBVIOUS
  <2>2. Digit[(i - 1) + 1] \notin {"-", "+", " "}
    BY <2>1, DigitIs
  <2> QED
    BY <2>1, <2>2
<1>2. DOMAIN Digit = 1 .. 10
  BY DEF Digit
<1> QED
  BY <1>1, <1>2 DEF ToSet

(* The value of two digits. *)
LEMMA ValueOfTwo ==
  ASSUME NEW d \in 0 .. 9, NEW e \in 0 .. 9
  PROVE  Value(<<Digit[d + 1], Digit[e + 1]>>) = 10 * d + e
<1> DEFINE v == <<Digit[d + 1], Digit[e + 1]>>
           one == 10 * 0 + DigitValue(v[1])
           two == 10 * one + DigitValue(v[2])
           h == [i \in 0 .. 2 |-> IF i = 0 THEN 0 ELSE IF i = 1 THEN one ELSE two]
<1>1. Len(v) = 2 /\ DigitValue(v[1]) = d /\ DigitValue(v[2]) = e
  BY DigitIs
<1> HIDE DEF v
<1>2. h = ValueStep(h, v, 2)
  <2>1. h[0] = 0 /\ h[1] = one /\ h[2] = two
    OBVIOUS
  <2>2. ASSUME NEW i \in 0 .. 2
        PROVE  h[i] = IF i = 0 THEN 0 ELSE 10 * h[i - 1] + DigitValue(v[i])
    <3>1. i = 0 \/ i = 1 \/ i = 2
      OBVIOUS
    <3> HIDE DEF h
    <3>2. CASE i = 0
      BY <2>1, <3>2
    <3>3. CASE i = 1
      BY <2>1, <3>3
    <3>4. CASE i = 2
      BY <2>1, <3>4
    <3> QED
      BY <3>1, <3>2, <3>3, <3>4
  <2> QED
    BY <2>2 DEF ValueStep
<1> HIDE DEF h
<1>3. PICK g : g = ValueStep(g, v, 2) /\ Value(v) = g[2]
  <2>1. \E f : f = ValueStep(f, v, Len(v))
    BY <1>1, <1>2
  <2> QED
    BY <1>1, <2>1, ValueIs
<1>4. g = [i \in 0 .. 2 |-> IF i = 0 THEN 0 ELSE 10 * g[i - 1] + DigitValue(v[i])]
  BY <1>3 DEF ValueStep
<1>5. g[0] = 0
  BY <1>4
<1>6. g[1] = 10 * g[0] + DigitValue(v[1])
  BY <1>4
<1>7. g[2] = 10 * g[1] + DigitValue(v[2])
  BY <1>4
<1> QED
  BY <1>1, <1>3, <1>5, <1>6, <1>7 DEF v

(* A character in front of two. *)
LEMMA BeforeTwo ==
  ASSUME NEW S, NEW c \in S, NEW x \in S, NEW y \in S
  PROVE  LET v == <<c>> \o <<x, y>>
         IN v # <<>> /\ v[1] = c /\ Tail(v) = <<x, y>> /\ c \in ToSet(v)
<1>1. <<c>> \in Seq(S) /\ <<x, y>> \in Seq(S)
  OBVIOUS
<1> DEFINE a == <<c>>
           b == <<x, y>>
           v == a \o b
           w == <<c, x, y>>
<1>2. a \in Seq(S) /\ b \in Seq(S) /\ Len(a) = 1 /\ Len(b) = 2 /\ a[1] = c /\ b[1] = x /\ b[2] = y
  BY <1>1
<1>3. w \in Seq(S) /\ Len(w) = 3 /\ w[1] = c /\ w[2] = x /\ w[3] = y /\ Tail(w) = <<x, y>>
  OBVIOUS
<1> HIDE DEF a, b
<1>4. v \in Seq(S) /\ Len(v) = 3 /\ \A i \in 1 .. 3 : v[i] = IF i <= 1 THEN a[i] ELSE b[i - 1]
  BY <1>2, ConcatProperties
<1>5. v[1] = c /\ v[2] = x /\ v[3] = y
  BY <1>2, <1>4
<1> HIDE DEF v, w
<1>6. \A i \in 1 .. 3 : v[i] = w[i]
  <2>1. \A i \in 1 .. 3 : i = 1 \/ i = 2 \/ i = 3
    OBVIOUS
  <2> QED
    BY <1>3, <1>5, <2>1
<1>7. v = w
  BY <1>3, <1>4, <1>6, SeqEqual
<1>8. v # <<>> /\ c \in ToSet(v)
  <2>1. 1 \in DOMAIN v
    BY <1>4
  <2>2. v # <<>>
    BY <1>4, EmptySeq
  <2>3. c \in ToSet(v)
    BY <1>5, <2>1 DEF ToSet
  <2> QED
    BY <2>2, <2>3
<1> QED
  BY <1>3, <1>5, <1>7, <1>8 DEF v, a, b

Two(d, e) == <<Digit[d + 1], Digit[e + 1]>>
Before(c, w) == <<c>> \o w

(* A number without a sign. *)
LEMMA IntPlain ==
  ASSUME NEW d \in 0 .. 9, NEW e \in 0 .. 9
  PROVE  EnvInt(Two(d, e), DefaultPort) = 10 * d + e
<1> DEFINE x == Digit[d + 1]
           y == Digit[e + 1]
           w == <<x, y>>
<1>1. x \in ToSet(Digit) /\ y \in ToSet(Digit) /\ x \notin {"-", "+", " "} /\ y \notin {"-", "+", " "}
  BY DigitIs
<1>2. Value(w) = 10 * d + e
  BY ValueOfTwo
<1> HIDE DEF x, y
<1>3. ToSet(w) = {x, y} /\ w # <<>> /\ w[1] = x
  <2>1. DOMAIN w = {1, 2} /\ w[1] = x /\ w[2] = y
    OBVIOUS
  <2>2. w # <<>>
    OBVIOUS
  <2> HIDE DEF w
  <2> QED
    BY <2>1, <2>2 DEF ToSet
<1> HIDE DEF w
<1>4. ~Signed(w)
  BY <1>1, <1>3 DEF Signed
<1>5. Digits(w) = w
  BY <1>4 DEF Digits
<1>6. IsNumber(w)
  BY <1>1, <1>3, <1>5 DEF IsNumber
<1>7. Atoi(w) = Value(w)
  BY <1>1, <1>3, <1>5 DEF Atoi
<1>8. EnvInt(w, DefaultPort) = 10 * d + e
  BY <1>2, <1>6, <1>7 DEF EnvInt
<1> QED
  BY <1>8 DEF w, x, y, Two

(* A number with a sign. *)
LEMMA IntSigned ==
  ASSUME NEW d \in 0 .. 9, NEW e \in 0 .. 9, NEW c \in {"-", "+"}
  PROVE  EnvInt(Before(c, Two(d, e)), DefaultPort) =
            IF c = "-" THEN -(10 * d + e) ELSE 10 * d + e
<1> DEFINE x == Digit[d + 1]
           y == Digit[e + 1]
           w == <<x, y>>
<1>1. x \in ToSet(Digit) /\ y \in ToSet(Digit) /\ x \notin {"-", "+", " "} /\ y \notin {"-", "+", " "}
  BY DigitIs
<1>2. Value(w) = 10 * d + e
  BY ValueOfTwo
<1> HIDE DEF x, y
<1>3. ToSet(w) = {x, y} /\ w # <<>> /\ w[1] = x
  <2>1. DOMAIN w = {1, 2} /\ w[1] = x /\ w[2] = y
    OBVIOUS
  <2>2. w # <<>>
    OBVIOUS
  <2> HIDE DEF w
  <2> QED
    BY <2>1, <2>2 DEF ToSet
<1> DEFINE S == {c, x, y}
           v == <<c>> \o w
<1>4. v # <<>> /\ v[1] = c /\ Tail(v) = w
  <2>1. c \in S /\ x \in S /\ y \in S
    OBVIOUS
  <2> HIDE DEF S
  <2> QED
    BY <2>1, BeforeTwo
<1> HIDE DEF v, w
<1>5. Signed(v)
  BY <1>4 DEF Signed
<1>6. Digits(v) = w
  BY <1>4, <1>5 DEF Digits
<1>7. IsNumber(v)
  BY <1>1, <1>3, <1>6 DEF IsNumber
<1>8. Atoi(v) = IF c = "-" THEN -Value(w) ELSE Value(w)
  BY <1>4, <1>6 DEF Atoi
<1>9. EnvInt(v, DefaultPort) = IF c = "-" THEN -(10 * d + e) ELSE 10 * d + e
  BY <1>2, <1>7, <1>8 DEF EnvInt
<1> QED
  BY <1>9 DEF v, w, x, y, Two, Before

(* A blank is no digit: the number is not trimmed. *)
LEMMA IntBlank ==
  ASSUME NEW d, NEW e, NEW c, c \notin {"-", "+"}, c \notin ToSet(Digit)
  PROVE  EnvInt(Before(c, Two(d, e)), DefaultPort) = DefaultPort
<1> DEFINE x == Digit[d + 1]
           y == Digit[e + 1]
           w == <<x, y>>
           S == {c, x, y}
           v == <<c>> \o w
<1> HIDE DEF x, y
<1>1. v # <<>> /\ v[1] = c /\ c \in ToSet(v)
  <2>1. c \in S /\ x \in S /\ y \in S
    OBVIOUS
  <2> HIDE DEF S
  <2> QED
    BY <2>1, BeforeTwo
<1> HIDE DEF v, w
<1>2. ~Signed(v)
  BY <1>1 DEF Signed
<1>3. ~IsNumber(v)
  BY <1>1, <1>2 DEF IsNumber, Digits
<1>4. EnvInt(v, DefaultPort) = DefaultPort
  BY <1>3, Zenon DEF EnvInt
<1> QED
  BY <1>4 DEF v, w, x, y, Two, Before

(* Each number reads back, one behind a blank as the default (envInt). *)
LEMMA NumberRead ==
  ASSUME NEW sign \in Signs, NEW n \in 0 .. 99
  PROVE  NumberReads(sign, n)
<1> DEFINE d == n \div 10
           e == n % 10
           w == Two(d, e)
           v == sign \o <<Digit[d + 1], Digit[e + 1]>>
           meant == IF sign = <<"-">> THEN -n ELSE IF sign = <<" ">> THEN DefaultPort ELSE n
<1>1. d \in 0 .. 9 /\ e \in 0 .. 9 /\ 10 * d + e = n
  OBVIOUS
<1> HIDE DEF d, e
<1>2. /\ EnvInt(w, DefaultPort) = n /\ EnvInt(Before("-", w), DefaultPort) = -n
      /\ EnvInt(Before("+", w), DefaultPort) = n /\ EnvInt(Before(" ", w), DefaultPort) = DefaultPort
  <2>1. EnvInt(w, DefaultPort) = n
    BY <1>1, IntPlain
  <2>2. EnvInt(Before("-", w), DefaultPort) = -n
    BY <1>1, IntSigned
  <2>3. EnvInt(Before("+", w), DefaultPort) = n
    BY <1>1, IntSigned
  <2>4. EnvInt(Before(" ", w), DefaultPort) = DefaultPort
    <3>1. " " \notin {"-", "+"}
      OBVIOUS
    <3> QED
      BY <3>1, BlankIsNoDigit, IntBlank
  <2> QED
    BY <2>1, <2>2, <2>3, <2>4
<1>3. /\ sign = <<"-">> => meant = -n
      /\ sign = <<" ">> => meant = DefaultPort
      /\ sign = <<>> => meant = n
      /\ sign = <<"+">> => meant = n
  <2>1. <<"-">> # <<" ">> /\ <<"+">> # <<"-">> /\ <<"+">> # <<" ">> /\ <<>> # <<"-">> /\ <<>> # <<" ">>
    OBVIOUS
  <2> QED
    BY <2>1, Zenon
<1>4. /\ sign = <<>> => v = w
      /\ sign = <<"-">> => v = Before("-", w)
      /\ sign = <<"+">> => v = Before("+", w)
      /\ sign = <<" ">> => v = Before(" ", w)
  <2>1. w \in Seq({Digit[d + 1], Digit[e + 1]}) /\ v = sign \o w
    BY DEF Two
  <2> HIDE DEF w, v
  <2>2. <<>> \o w = w
    BY <2>1, ConcatEmptySeq
  <2> QED
    BY <2>1, <2>2 DEF Before
<1> HIDE DEF w, meant, v
<1>5. sign = <<>> \/ sign = <<"-">> \/ sign = <<"+">> \/ sign = <<" ">>
  BY DEF Signs
<1>6. EnvInt(v, DefaultPort) = meant
  BY <1>2, <1>3, <1>4, <1>5, Zenon
<1>7. Load([Unset EXCEPT !.port = v]) = [Load(Unset) EXCEPT !.Port = EnvInt(v, DefaultPort)]
  BY LoadPort
<1>8. Load([Unset EXCEPT !.port = v]) = [Load(Unset) EXCEPT !.Port = meant]
  BY <1>6, <1>7
<1> QED
  BY <1>8 DEF NumberReads, v, meant, d, e

(* Any text whatsoever is on, off or the default (envBool). *)
LEMMA WordRead ==
  ASSUME NEW v
  PROVE  WordReads(v)
<1> DEFINE plain == Mapped(Lower, v)
<1>1. Load([Unset EXCEPT !.auth = v]) = [Load(Unset) EXCEPT !.AuthEnabled = EnvBool(v, FALSE)]
  BY LoadAuth
<1> DEFINE on == plain \in TrueWords
           off == plain \in FalseWords
<1>2. EnvBool(v, FALSE) = on
  <2>1. EnvBool(v, FALSE) = IF on THEN TRUE ELSE IF off THEN FALSE ELSE FALSE
    BY DEF EnvBool
  <2> HIDE DEF on, off
  <2>2. on \in BOOLEAN
    BY DEF on
  <2>3. CASE on
    BY <2>1, <2>3
  <2>4. CASE ~on
    BY <2>1, <2>2, <2>4
  <2> QED
    BY <2>3, <2>4
<1>3. EnvBool(v, TRUE) <=> plain \notin FalseWords
  <2>1. TrueWords \cap FalseWords = {}
    BY DEF TrueWords, FalseWords
  <2> HIDE DEF plain
  <2>2. EnvBool(v, TRUE) = IF plain \in TrueWords THEN TRUE
                           ELSE IF plain \in FalseWords THEN FALSE ELSE TRUE
    BY DEF EnvBool, plain
  <2> QED
    BY <2>1, <2>2
<1> HIDE DEF plain
<1> QED
  BY <1>1, <1>2, <1>3 DEF WordReads, plain

-----------------------------------------------------------------------------
(* Rows and lines. *)

(* A text without tabulators and ends of lines stays what it is. *)
LEMMA SpacedIs ==
  ASSUME NEW S, S \cap {"tab", "nl"} = {}, NEW s \in Seq(S)
  PROVE  Spaced(s) = s
<1>1. \A i \in DOMAIN s : s[i] \in S /\ (s[i] \in Blank => s[i] = " ")
  <2>1. \A i \in DOMAIN s : s[i] \in S
    OBVIOUS
  <2> QED
    BY <2>1 DEF Blank
<1>2. s = [i \in DOMAIN s |-> s[i]]
  OBVIOUS
<1>3. [i \in DOMAIN s |-> IF s[i] \in Blank THEN " " ELSE s[i]] = [i \in DOMAIN s |-> s[i]]
  BY <1>1
<1> QED
  BY <1>2, <1>3 DEF Spaced

Filled(C) == Seq(C) \ {<<>>}

(* A filled text over C is one over more characters. *)
LEMMA FilledIs ==
  ASSUME NEW C, NEW D, C \subseteq D, NEW s \in Seq(Filled(C))
  PROVE  s \in Seq(Seq(D)) /\ s \in Seq(Filled(D)) /\ s \in Seq(Seq(C))
<1>1. \A i \in 1 .. Len(s) : s[i] \in Seq(C) /\ s[i] # <<>>
  BY DEF Filled
<1>2. \A i \in 1 .. Len(s) : s[i] \in Seq(D)
  BY <1>1, SeqMonotonic
<1>3. s = [i \in 1 .. Len(s) |-> s[i]] /\ Len(s) \in Nat
  OBVIOUS
<1>4. [i \in 1 .. Len(s) |-> s[i]] \in Seq(Seq(D))
  BY <1>2, <1>3
<1>5. [i \in 1 .. Len(s) |-> s[i]] \in Seq(Filled(D))
  BY <1>1, <1>2, <1>3 DEF Filled
<1>6. [i \in 1 .. Len(s) |-> s[i]] \in Seq(Seq(C))
  BY <1>1, <1>3
<1> QED
  BY <1>3, <1>4, <1>5, <1>6

(* The fields of a row of words are those words. *)
LEMMA FieldsRead ==
  ASSUME NEW C, C \cap Blank = {}, NEW words \in Seq(Filled(C)), words # <<>>
  PROVE  Fields(Joined(words, <<" ">>)) = words
<1> DEFINE D == C \cup {" "}
           sep == " "
           row == Joined(words, <<sep>>)
           k == -1
<1>1. words \in Seq(Seq(D)) /\ words \in Seq(Seq(C))
  BY FilledIs
<1>2. sep \notin C /\ sep \in D /\ D \cap {"tab", "nl"} = {} /\ k \in Int /\ k < 0
  <2>1. " " \notin C /\ "tab" \notin C /\ "nl" \notin C
    BY DEF Blank
  <2>2. D \cap {"tab", "nl"} = {}
    BY <2>1
  <2>3. k \in Int /\ k < 0
    OBVIOUS
  <2> HIDE DEF k
  <2> QED
    BY <2>1, <2>2, <2>3
<1>3. <<>> \notin Filled(C)
  BY DEF Filled
<1> HIDE DEF D, sep, k
<1>4. <<sep>> \in Seq(D)
  BY <1>2, Single
<1>5. row \in Seq(D)
  BY <1>1, <1>4, JoinedTyped
<1>6. Spaced(row) = row
  BY <1>2, <1>5, SpacedIs
<1>7. SplitN(row, sep, k) = words
  BY <1>1, <1>2, SplitJoined
<1>8. NonEmpty(words) = words
  BY <1>3, NonEmptyAll
<1> QED
  BY <1>6, <1>7, <1>8 DEF Fields, Split, sep, k

(* The lines of an output are the rows that were printed. *)
LEMMA LinesRead ==
  ASSUME NEW D, "nl" \notin D, NEW texts \in Seq(Filled(D))
  PROVE  /\ Split(Joined(Append(texts, <<>>), <<"nl">>), "nl") = Append(texts, <<>>)
         /\ Lines(Joined(Append(texts, <<>>), <<"nl">>)) = texts
         /\ texts # <<>> => /\ Split(Joined(texts, <<"nl">>), "nl") = texts
                           /\ Lines(Joined(texts, <<"nl">>)) = texts
<1> DEFINE sep == "nl"
           k == -1
           all == Append(texts, <<>>)
<1>1. texts \in Seq(Seq(D)) /\ <<>> \in Seq(D)
  BY FilledIs
<1>2. all \in Seq(Seq(D)) /\ all # <<>>
  <2>1. all \in Seq(Seq(D)) /\ Len(all) = Len(texts) + 1 /\ Len(texts) \in Nat
    BY <1>1, AppendProperties
  <2> HIDE DEF all
  <2> QED
    BY <2>1, EmptySeq
<1>3. sep \notin D /\ k \in Int /\ k < 0 /\ <<>> \notin Filled(D)
  BY DEF Filled
<1>4. NonEmpty(texts) = texts
  BY <1>3, NonEmptyAll
<1>5. NonEmpty(all) = NonEmpty(texts)
  BY <1>1, NonEmptyMore
<1> HIDE DEF sep, k, all
<1>6. SplitN(Joined(all, <<sep>>), sep, k) = all
  BY <1>2, <1>3, SplitJoined
<1>7. texts # <<>> => SplitN(Joined(texts, <<sep>>), sep, k) = texts
  BY <1>1, <1>3, SplitJoined
<1>8. Split(Joined(all, <<"nl">>), "nl") = all
  BY <1>6 DEF Split, sep, k
<1>9. texts # <<>> => Split(Joined(texts, <<"nl">>), "nl") = texts
  BY <1>7 DEF Split, sep, k
<1>10. Lines(Joined(all, <<"nl">>)) = texts
  BY <1>4, <1>5, <1>8 DEF Lines
<1>11. texts # <<>> => Lines(Joined(texts, <<"nl">>)) = texts
  BY <1>4, <1>9 DEF Lines
<1> QED
  BY <1>8, <1>9, <1>10, <1>11 DEF all

(* What starts a joined text is what starts its first part, and what ends it
   is what ends its last one. *)
Firm(D) == {r \in Seq(D) : r # <<>> /\ r[1] \notin Blank}

(* What begins with a is not empty and begins as a does. *)
LEMMA FirstOfTwo ==
  ASSUME NEW D, NEW a \in Seq(D), a # <<>>, NEW b \in Seq(D), NEW c \in Seq(D)
  PROVE  Beside(a, b, c) \in Seq(D) /\ Beside(a, b, c) # <<>> /\ Beside(a, b, c)[1] = a[1]
<1>1. a \o b \in Seq(D) /\ Len(a \o b) = Len(a) + Len(b) /\ \A i \in 1 .. Len(a) : (a \o b)[i] = a[i]
  BY ConcatProperties
<1>2. Len(a) \in Nat \ {0} /\ Len(b) \in Nat /\ Len(c) \in Nat
  BY EmptySeq
<1>3. 1 \in 1 .. Len(a) /\ 1 \in 1 .. Len(a \o b)
  BY <1>1, <1>2
<1> DEFINE t == a \o b
<1>4. t \in Seq(D) /\ t[1] = a[1] /\ Len(t) \in Nat \ {0} /\ 1 \in 1 .. Len(t)
  BY <1>1, <1>2, <1>3
<1> HIDE DEF t
<1>5. t \o c \in Seq(D) /\ Len(t \o c) = Len(t) + Len(c) /\ (t \o c)[1] = t[1]
  BY <1>4, ConcatProperties
<1>6. Len(t \o c) # 0
  BY <1>2, <1>4, <1>5
<1>7. t \o c # <<>>
  BY <1>5, <1>6, EmptySeq
<1>8. Beside(a, b, c) = t \o c
  BY DEF Beside, t
<1> QED
  BY <1>4, <1>5, <1>7, <1>8

(* Joined parts begin as the first of them does. *)
LEMMA JoinedStarts ==
  ASSUME NEW D, NEW sep \in Seq(D), NEW parts \in Seq(Firm(D)), parts # <<>>
  PROVE  Joined(parts, sep) \in Firm(D)
<1> DEFINE F == Firm(D)
           T == {p \in Seq(F) : p # <<>> => Joined(p, sep) \in F}
<1>1. \A r : r \in F <=> r \in Seq(D) /\ r # <<>> /\ r[1] \notin Blank
  BY DEF Firm
<1> HIDE DEF F
<1>2. T \in SUBSET Seq(F) /\ <<>> \in T
  OBVIOUS
<1>3. ASSUME NEW s \in T, NEW c \in F PROVE Append(s, c) \in T
  <2>1. s \in Seq(F) /\ Append(s, c) \in Seq(F) /\ (s # <<>> => Joined(s, sep) \in F)
    OBVIOUS
  <2>2. s \in Seq(Seq(D)) /\ c \in Seq(D)
    <3>1. F \subseteq Seq(D)
      BY <1>1
    <3> QED
      BY <2>1, <3>1, SeqMonotonic
  <2> DEFINE a == Joined(s, sep)
             b == Joined(Append(s, c), sep)
  <2> HIDE DEF T
  <2>j. /\ s = <<>> => b = c
        /\ s # <<>> => b = Beside(a, sep, c)
    BY <2>2, JoinedMore
  <2> HIDE DEF a, b
  <2>3. CASE s = <<>>
    BY <2>1, <2>3, <2>j DEF T, b
  <2>4. CASE s # <<>>
    <3>2. a \in Seq(D) /\ a # <<>> /\ a[1] \notin Blank
      BY <1>1, <2>1, <2>4 DEF a
    <3>3. Beside(a, sep, c) \in F
      BY <1>1, <2>2, <3>2, FirstOfTwo
    <3> QED
      BY <2>1, <2>4, <2>j, <3>3 DEF T, b
  <2> QED
    BY <2>3, <2>4
<1> HIDE DEF T
<1>4. T = Seq(F)
  BY <1>2, <1>3, AllSequences
<1> QED
  BY <1>4 DEF T, F

Follows(y, x, w) == y = x \o w

(* What ends the last part ends the joined text. *)
LEMMA JoinedEnds ==
  ASSUME NEW D, NEW sep \in Seq(D), NEW front \in Seq(Seq(D)), NEW x \in Seq(D), NEW w \in Seq(D),
         NEW y, Follows(y, x, w)
  PROVE  Joined(Append(front, y), sep) = Joined(Append(front, x), sep) \o w
<1>1. x \o w \in Seq(D)
  BY ConcatProperties
<1>2. y \in Seq(D) /\ y = x \o w
  BY <1>1 DEF Follows
<1>j. /\ front = <<>> => Joined(Append(front, x), sep) = x
      /\ front # <<>> => Joined(Append(front, x), sep) = Beside(Joined(front, sep), sep, x)
  BY <1>2, JoinedMore
<1>k. /\ front = <<>> => Joined(Append(front, y), sep) = y
      /\ front # <<>> => Joined(Append(front, y), sep) = Beside(Joined(front, sep), sep, y)
  <2>1. y \in Seq(D)
    BY <1>2
  <2> QED
    BY <2>1, JoinedMore
<1> DEFINE jx == Joined(Append(front, x), sep)
           jy == Joined(Append(front, y), sep)
<1> HIDE DEF jx, jy
<1>3. CASE front = <<>>
  BY <1>2, <1>3, <1>j, <1>k
<1>4. CASE front # <<>>
  <2> DEFINE a == Joined(front, sep)
             b == a \o sep
  <2>1. Joined(Append(front, x), sep) = Beside(a, sep, x) /\ Joined(Append(front, y), sep) = Beside(a, sep, y)
    BY <1>4, <1>j, <1>k
  <2>2. a \in Seq(D)
    BY JoinedTyped
  <2> HIDE DEF a
  <2>3. b \in Seq(D)
    BY <2>2, ConcatProperties
  <2>4. Beside(a, sep, x) = b \o x /\ Beside(a, sep, y) = b \o y
    BY DEF Beside
  <2> HIDE DEF b
  <2>5. b \o (x \o w) = (b \o x) \o w
    BY <2>3, ConcatAssociative
  <2> QED
    BY <1>2, <2>1, <2>4, <2>5
<1> QED
  BY <1>2, <1>3, <1>4

(* What ends with c ends as c does. *)
LEMMA LastOfThree ==
  ASSUME NEW D, NEW a \in Seq(D), NEW b \in Seq(D), NEW c \in Seq(D), c # <<>>
  PROVE  Beside(a, b, c)[Len(Beside(a, b, c))] = c[Len(c)]
<1> DEFINE t == a \o b
<1>1. t \in Seq(D)
  BY ConcatProperties
<1>2. Len(c) \in Nat \ {0} /\ Len(t) \in Nat
  BY <1>1, EmptySeq
<1>3. Beside(a, b, c) = t \o c
  BY DEF Beside
<1> HIDE DEF t
<1>4. Len(t \o c) = Len(t) + Len(c)
  BY <1>1, ConcatProperties
<1>5. \A i \in 1 .. Len(t) + Len(c) : (t \o c)[i] = IF i <= Len(t) THEN t[i] ELSE c[i - Len(t)]
  BY <1>1, ConcatProperties
<1> DEFINE z == t \o c
           l == Len(t) + Len(c)
<1>6. l \in 1 .. Len(t) + Len(c) /\ ~(l <= Len(t)) /\ l - Len(t) = Len(c)
  BY <1>2
<1>7. z[l] = c[Len(c)]
  BY <1>5, <1>6
<1> QED
  BY <1>3, <1>4, <1>7

(* Parts joined from one that begins solid to one that is bare are bare. *)
LEMMA JoinedBare ==
  ASSUME NEW D, NEW sep \in Seq(D), NEW front \in Seq(Firm(D)), NEW last \in Seq(D), Bare(last)
  PROVE  Joined(Append(front, last), sep) \in Seq(D) /\ Bare(Joined(Append(front, last), sep))
<1> DEFINE J == Joined(Append(front, last), sep)
           a == Joined(front, sep)
<1>1. last \in Firm(D) /\ last # <<>> /\ last[Len(last)] \notin Blank
  BY DEF Firm, Bare
<1>2. Firm(D) \subseteq Seq(D)
  BY DEF Firm
<1>3. front \in Seq(Seq(D))
  BY <1>2, SeqMonotonic
<1>4. a \in Seq(D)
  BY <1>3, JoinedTyped
<1>5. J \in Firm(D)
  <2>1. Append(front, last) \in Seq(Firm(D)) /\ Append(front, last) # <<>>
    <3> DEFINE all == Append(front, last)
    <3>1. all \in Seq(Firm(D)) /\ Len(all) = Len(front) + 1 /\ Len(front) \in Nat
      BY <1>1, AppendProperties
    <3> HIDE DEF all
    <3>2. all # <<>>
      BY <3>1, EmptySeq
    <3> QED
      BY <3>1, <3>2 DEF all
  <2> QED
    BY <2>1, JoinedStarts
<1>6. /\ front = <<>> => J = last
      /\ front # <<>> => J = Beside(a, sep, last)
  BY <1>3, JoinedMore
<1> HIDE DEF J, a
<1>7. J[Len(J)] = last[Len(last)]
  BY <1>1, <1>4, <1>6, LastOfThree
<1>8. J \in Seq(D) /\ J # <<>> /\ J[1] \notin Blank
  BY <1>5 DEF Firm
<1> QED
  BY <1>1, <1>7, <1>8 DEF Bare, J

(* Trimming a listing takes away what ends its last line, and nothing else. *)
LEMMA PrintedTrims ==
  ASSUME NEW D, "nl" \notin D, NEW front \in Seq(Firm(D)), NEW last \in Seq(D), Bare(last),
         NEW w \in Seq(D), w \in Seq(Blank)
  PROVE  Trim(Joined(Append(Append(front, last \o w), <<>>), <<"nl">>)) =
            Joined(Append(front, last), <<"nl">>)
<1> DEFINE E == D \cup {"nl"}
           nl == <<"nl">>
           y == last \o w
           texts == Append(front, y)
           u == Joined(Append(front, last), nl)
<1>1. D \subseteq E /\ "nl" \in E /\ "nl" \in Blank
  BY DEF Blank
<1>2. nl \in Seq(E) /\ nl \in Seq(Blank) /\ <<>> \in Seq(E)
  BY <1>1, Single
<1>3. last \in Seq(E) /\ w \in Seq(E)
  BY <1>1, SeqMonotonic
<1>4. y \in Seq(E)
  BY <1>3, ConcatProperties
<1>5. front \in Seq(Firm(E))
  <2>1. Firm(D) \subseteq Firm(E)
    BY <1>1, SeqMonotonic DEF Firm
  <2> QED
    BY <2>1, SeqMonotonic
<1>6. front \in Seq(Seq(E))
  <2>1. Firm(E) \subseteq Seq(E)
    BY DEF Firm
  <2> QED
    BY <1>5, <2>1, SeqMonotonic
<1> HIDE DEF E, nl
<1>7. u \in Seq(E) /\ Bare(u)
  BY <1>2, <1>3, <1>5, JoinedBare
<1>8. Joined(texts, nl) = u \o w
  <2>1. nl \in Seq(E) /\ front \in Seq(Seq(E)) /\ last \in Seq(E) /\ w \in Seq(E)
    BY <1>2, <1>3, <1>6
  <2>2. Follows(y, last, w)
    BY DEF Follows
  <2> HIDE DEF y
  <2>3. Joined(Append(front, y), nl) = Joined(Append(front, last), nl) \o w
    BY <2>1, <2>2, JoinedEnds
  <2> QED
    BY <2>3
<1> HIDE DEF y
<1>9. texts \in Seq(Seq(E)) /\ texts # <<>>
  <2>1. texts \in Seq(Seq(E)) /\ Len(texts) = Len(front) + 1 /\ Len(front) \in Nat
    BY <1>4, <1>6, AppendProperties
  <2> HIDE DEF texts
  <2> QED
    BY <2>1, EmptySeq
<1> HIDE DEF texts, u
<1> DEFINE J == Joined(texts, nl)
<1>10. Joined(Append(texts, <<>>), nl) = Beside(J, nl, <<>>)
  <2> DEFINE e == <<>>
  <2>1. e \in Seq(E)
    BY <1>2
  <2> HIDE DEF e
  <2>2. /\ texts = <<>> => Joined(Append(texts, e), nl) = e
        /\ texts # <<>> => Joined(Append(texts, e), nl) = Beside(Joined(texts, nl), nl, e)
    BY <1>2, <1>9, <2>1, JoinedMore
  <2> QED
    BY <1>9, <2>2 DEF e
<1>11. J \in Seq(E)
  BY <1>2, <1>9, JoinedTyped
<1> HIDE DEF J
<1>12. Beside(J, nl, <<>>) = J \o nl
  <2>1. J \o nl \in Seq(E)
    BY <1>2, <1>11, ConcatProperties
  <2>2. (J \o nl) \o <<>> = J \o nl
    BY <2>1, ConcatEmptySeq
  <2> QED
    BY <2>2 DEF Beside
<1>13. J \o nl = u \o (w \o nl)
  <2>1. (u \o w) \o nl = u \o (w \o nl)
    BY <1>2, <1>3, <1>7, ConcatAssociative
  <2> QED
    BY <1>8, <2>1 DEF J
<1>14. w \o nl \in Seq(Blank)
  BY <1>2, ConcatProperties
<1>15. Trim(u \o (w \o nl)) = u
  BY <1>7, <1>14, TrimEnd
<1>16. Trim(Joined(Append(texts, <<>>), nl)) = u
  BY <1>10, <1>12, <1>13, <1>15
<1> QED
  BY <1>16 DEF texts, y, u, nl

(* Nothing printed is nothing read. *)
LEMMA NothingTrims == Trim(Joined(Append(<<>>, <<>>), <<"nl">>)) = <<>> /\ Lines(<<>>) = <<>>
<1>1. Joined(Append(<<>>, <<>>), <<"nl">>) = <<>>
  <2>1. Append(<<>>, <<>>) = << <<>> >> /\ <<>> \in Seq({})
    OBVIOUS
  <2> DEFINE e == <<>>
             nl == <<"nl">>
  <2>2. e \in Seq({"nl"}) /\ nl \in Seq({"nl"}) /\ e \in Seq(Seq({"nl"}))
    OBVIOUS
  <2>3. e = <<>>
    OBVIOUS
  <2> HIDE DEF e, nl
  <2>4. /\ e = <<>> => Joined(Append(e, e), nl) = e
        /\ e # <<>> => Joined(Append(e, e), nl) = Beside(Joined(e, nl), nl, e)
    BY <2>2, JoinedMore
  <2> QED
    BY <2>3, <2>4 DEF e, nl
<1>2. Trim(<<>>) = <<>>
  BY TrimBlank
<1>3. Lines(<<>>) = <<>>
  <2> DEFINE k == -1
             sep == "nl"
  <2>1. k \in Int
    OBVIOUS
  <2> HIDE DEF k, sep
  <2>2. SplitN(<<>>, sep, k) = << <<>> >>
    BY <2>1, SplitNone
  <2>3. << <<>> >> = Append(<<>>, <<>>) /\ <<>> \in Seq({<<>>})
    OBVIOUS
  <2>4. NonEmpty(Append(<<>>, <<>>)) = NonEmpty(<<>>)
    BY <2>3, NonEmptyMore
  <2> QED
    BY <2>2, <2>3, <2>4, NonEmptyNone DEF Lines, Split, k, sep
<1> QED
  BY <1>1, <1>2, <1>3

Ended(texts) == Joined(Append(texts, <<>>), <<"nl">>)

Cut(texts, n, x) == [texts EXCEPT ![n] = x]

(* Trimming what is printed shortens the last row at most, and the lines are the
   rows. *)
LEMMA LinesTrimmed ==
  ASSUME NEW D, "nl" \notin D, NEW texts \in Seq(Firm(D)), NEW n \in Nat \ {0}, Len(texts) = n,
         NEW x \in Seq(D), Bare(x), NEW w \in Seq(D), w \in Seq(Blank), Follows(texts[n], x, w)
  PROVE  /\ Trim(Ended(texts)) = Joined(Cut(texts, n, x), <<"nl">>)
         /\ Lines(Trim(Ended(texts))) = Cut(texts, n, x)
         /\ Split(Trim(Ended(texts)), "nl") = Cut(texts, n, x)
<1> DEFINE m == n - 1
           front == [i \in 1 .. m |-> texts[i]]
           y == x \o w
           cut == [texts EXCEPT ![n] = x]
           t == Trim(Ended(texts))
<1>1. m \in Nat /\ n = m + 1 /\ n \in 1 .. n
  OBVIOUS
<1>2. DOMAIN texts = 1 .. n /\ \A i \in 1 .. n : texts[i] \in Firm(D)
  OBVIOUS
<1>3. texts[n] = y
  BY DEF Follows
<1>4. front \in Seq(Firm(D)) /\ Len(front) = m /\ \A i \in 1 .. m : front[i] = texts[i]
  <2>1. \A i \in 1 .. m : texts[i] \in Firm(D)
    BY <1>1, <1>2
  <2> HIDE DEF m
  <2> QED
    BY <1>1, <2>1
<1>5. y \in Firm(D)
  BY <1>1, <1>2, <1>3
<1>6. x \in Firm(D) /\ Firm(D) \subseteq Filled(D)
  BY DEF Firm, Bare, Filled
<1> HIDE DEF front, y, m
<1>7. texts = Append(front, y)
  <2> DEFINE z == Append(front, y)
  <2>1. z \in Seq(Firm(D)) /\ Len(z) = m + 1
        /\ \A i \in 1 .. m + 1 : z[i] = IF i <= m THEN front[i] ELSE y
    BY <1>1, <1>4, <1>5, AppendProperties
  <2> HIDE DEF z
  <2>2. \A i \in 1 .. n : z[i] = texts[i]
    <3>1. \A i \in 1 .. n : (i <= m => i \in 1 .. m) /\ (~(i <= m) => i = n) /\ i \in 1 .. m + 1
      BY <1>1
    <3> QED
      BY <1>3, <1>4, <2>1, <3>1
  <2> QED
    BY <1>1, <2>1, <2>2, SeqEqual DEF z
<1>8. cut = Append(front, x)
  <2> DEFINE z == Append(front, x)
  <2>1. z \in Seq(Firm(D)) /\ Len(z) = m + 1
        /\ \A i \in 1 .. m + 1 : z[i] = IF i <= m THEN front[i] ELSE x
    BY <1>1, <1>4, <1>6, AppendProperties
  <2>2. cut \in Seq(Firm(D)) /\ Len(cut) = n /\ \A i \in 1 .. n : cut[i] = IF i = n THEN x ELSE texts[i]
    BY <1>2, <1>6
  <2> HIDE DEF z, cut
  <2>3. \A i \in 1 .. n : z[i] = cut[i]
    <3>1. \A i \in 1 .. n : (i <= m => i \in 1 .. m /\ i # n) /\ (~(i <= m) => i = n) /\ i \in 1 .. m + 1
      BY <1>1
    <3> QED
      BY <1>4, <2>1, <2>2, <3>1
  <2> QED
    BY <1>1, <2>1, <2>2, <2>3, SeqEqual DEF z
<1>9. t = Joined(cut, <<"nl">>)
  <2>1. Trim(Joined(Append(Append(front, x \o w), <<>>), <<"nl">>)) = Joined(Append(front, x), <<"nl">>)
    BY <1>4, PrintedTrims
  <2> QED
    BY <1>7, <1>8, <2>1 DEF Ended, y
<1>10. cut \in Seq(Filled(D)) /\ cut # <<>>
  <2>1. cut \in Seq(Firm(D)) /\ Len(cut) = n
    BY <1>2, <1>6
  <2> HIDE DEF cut
  <2>2. cut \in Seq(Filled(D))
    BY <1>6, <2>1, SeqMonotonic
  <2> QED
    BY <2>1, <2>2, EmptySeq
<1> HIDE DEF cut, t
<1>11. Split(Joined(cut, <<"nl">>), "nl") = cut /\ Lines(Joined(cut, <<"nl">>)) = cut
  BY <1>10, LinesRead
<1> QED
  BY <1>9, <1>11 DEF cut, t, Cut

BareOf(D) == {r \in Seq(D) : Bare(r)}

(* Rows that neither start nor end with a blank come back as they are. *)
LEMMA LinesPlain ==
  ASSUME NEW D, "nl" \notin D, NEW texts \in Seq(BareOf(D))
  PROVE  /\ Lines(Trim(Ended(texts))) = texts
         /\ texts # <<>> => /\ Split(Trim(Ended(texts)), "nl") = texts
                           /\ Trim(Ended(texts)) = Joined(texts, <<"nl">>)
         /\ texts = <<>> => Trim(Ended(texts)) = <<>>
<1>1. CASE texts = <<>>
  BY <1>1, NothingTrims DEF Ended
<1>2. CASE texts # <<>>
  <2> DEFINE n == Len(texts)
             x == texts[n]
             w == <<>>
             t == Trim(Ended(texts))
  <2>1. n \in Nat \ {0} /\ n \in 1 .. n
    <3>1. n \in Nat /\ n # 0
      BY <1>2, EmptySeq
    <3> HIDE DEF n
    <3> QED
      BY <3>1
  <2>2. \A i \in 1 .. n : texts[i] \in BareOf(D)
    OBVIOUS
  <2>3. x \in Seq(D) /\ Bare(x)
    BY <2>1, <2>2 DEF BareOf
  <2>4. texts \in Seq(Firm(D))
    <3>1. BareOf(D) \subseteq Firm(D)
      BY DEF BareOf, Firm, Bare
    <3> QED
      BY <3>1, SeqMonotonic
  <2>5. w \in Seq(D) /\ w \in Seq(Blank)
    OBVIOUS
  <2>6. Follows(x, x, w)
    BY <2>3, ConcatEmptySeq DEF Follows
  <2>7. [texts EXCEPT ![n] = x] = texts
    BY <2>1
  <2>8. Len(texts) = n
    OBVIOUS
  <2>10. Follows(texts[n], x, w)
    BY <2>6
  <2> HIDE DEF w, n, x
  <2> DEFINE cut == Cut(texts, n, x)
  <2>9. t = Joined(cut, <<"nl">>) /\ Lines(t) = cut /\ Split(t, "nl") = cut
    BY <2>1, <2>3, <2>4, <2>5, <2>10, <2>8, LinesTrimmed
  <2> QED
    BY <1>2, <2>7, <2>9 DEF Cut
<1> QED
  BY <1>1, <1>2

(* A joined row of words is one. *)
LEMMA RowIsPlain ==
  ASSUME NEW C, C \cap Blank = {}, NEW D, C \subseteq D, NEW sep \in Seq(D),
         NEW words \in Seq(Filled(C)), words # <<>>
  PROVE  Joined(words, sep) \in BareOf(D)
<1> DEFINE n == Len(words)
           m == n - 1
           front == [i \in 1 .. m |-> words[i]]
           last == words[n]
<1>1. n \in Nat \ {0} /\ \A i \in 1 .. n : words[i] \in Filled(C)
  <2>1. Len(words) \in Nat /\ Len(words) # 0 /\ \A i \in 1 .. Len(words) : words[i] \in Filled(C)
    BY EmptySeq
  <2> QED
    BY <2>1
<1>2. \A r \in Filled(C) : r \in Firm(D) /\ r \in Seq(D) /\ Bare(r)
  <2>1. SUFFICES ASSUME NEW r \in Seq(C), r # <<>>
                 PROVE  r \in Firm(D) /\ r \in Seq(D) /\ Bare(r)
    BY DEF Filled
  <2>2. Len(r) \in Nat \ {0}
    BY <2>1, EmptySeq
  <2>3. 1 \in 1 .. Len(r) /\ Len(r) \in 1 .. Len(r)
    BY <2>2
  <2>4. r[1] \in C /\ r[Len(r)] \in C
    BY <2>1, <2>3, ElementOfSeq
  <2>5. r[1] \notin Blank /\ r[Len(r)] \notin Blank
    BY <2>4
  <2>6. r \in Seq(D)
    BY <2>1, SeqMonotonic
  <2> QED
    BY <2>1, <2>5, <2>6 DEF Firm, Bare
<1>3. m \in Nat /\ n = m + 1
  BY <1>1
<1>4. front \in Seq(Firm(D)) /\ Len(front) = m
  <2>1. \A i \in 1 .. m : words[i] \in Firm(D)
    BY <1>1, <1>2, <1>3
  <2> HIDE DEF m
  <2> QED
    BY <1>3, <2>1
<1>5. last \in Seq(D) /\ Bare(last) /\ last \in Firm(D)
  BY <1>1, <1>2
<1>6. words = Append(front, last)
  <2> DEFINE z == Append(front, last)
  <2>0. \A i \in 1 .. m : front[i] = words[i]
    OBVIOUS
  <2>a. words \in Seq(Firm(D)) /\ last = words[n] /\ Len(words) = n
    <3>1. Filled(C) \subseteq Firm(D)
      BY <1>2
    <3> QED
      BY <3>1, SeqMonotonic
  <2> HIDE DEF front, last, n, m
  <2>b. last \in Firm(D)
    BY <1>5
  <2>1. z \in Seq(Firm(D)) /\ Len(z) = m + 1
        /\ \A i \in 1 .. m + 1 : z[i] = IF i <= m THEN front[i] ELSE last
    BY <1>3, <1>4, <2>b, AppendProperties
  <2> HIDE DEF z
  <2>2. \A i \in 1 .. n : z[i] = words[i]
    <3>1. \A i \in 1 .. n : (i <= m => i \in 1 .. m) /\ (~(i <= m) => i = n) /\ i \in 1 .. m + 1
      BY <1>3
    <3> QED
      BY <2>0, <2>a, <2>1, <3>1
  <2> QED
    BY <1>3, <2>a, <2>1, <2>2, SeqEqual DEF z
<1> HIDE DEF front, last
<1>7. Joined(Append(front, last), sep) \in Seq(D) /\ Bare(Joined(Append(front, last), sep))
  BY <1>4, <1>5, JoinedBare
<1> QED
  BY <1>6, <1>7 DEF BareOf

-----------------------------------------------------------------------------
(* Containers. *)

(* Two elements, one after the other. *)
LEMMA TwoIs ==
  ASSUME NEW S, NEW a \in S, NEW b \in S
  PROVE  Append(<<a>>, b) = <<a, b>>
<1> DEFINE p == <<a>>
           q == <<a, b>>
           z == Append(p, b)
<1>1. p \in Seq(S) /\ Len(p) = 1 /\ p[1] = a
  OBVIOUS
<1>2. q \in Seq(S) /\ Len(q) = 2 /\ q[1] = a /\ q[2] = b
  OBVIOUS
<1> HIDE DEF p, q
<1>3. z \in Seq(S) /\ Len(z) = 2 /\ z[1] = a /\ z[2] = b
  <2>0. p \in Seq(S)
    BY <1>1
  <2>1. z \in Seq(S) /\ Len(z) = Len(p) + 1
    BY <2>0, AppendProperties
  <2>a. \A i \in 1 .. Len(p) : z[i] = p[i]
    BY <2>0, AppendProperties
  <2>2. z[Len(p) + 1] = b
    BY <2>0, AppendProperties
  <2> HIDE DEF z
  <2>3. z[1] = a /\ z[2] = b
    BY <1>1, <2>a, <2>2
  <2> QED
    BY <1>1, <2>1, <2>3
<1> HIDE DEF z
<1>4. ASSUME NEW i \in 1 .. 2 PROVE z[i] = q[i]
  <2>1. i = 1 \/ i = 2
    OBVIOUS
  <2> QED
    BY <1>2, <1>3, <2>1
<1>5. z = q
  BY <1>2, <1>3, <1>4, SeqEqual
<1> QED
  BY <1>5 DEF z, p, q

(* Three elements, the last appended. *)
LEMMA ThreeIs ==
  ASSUME NEW S, NEW a \in S, NEW b \in S, NEW c \in S
  PROVE  Append(<<a, b>>, c) = <<a, b, c>>
<1> DEFINE p == <<a, b>>
           q == <<a, b, c>>
           z == Append(p, c)
<1>1. p \in Seq(S) /\ Len(p) = 2 /\ p[1] = a /\ p[2] = b
  OBVIOUS
<1>2. q \in Seq(S) /\ Len(q) = 3 /\ q[1] = a /\ q[2] = b /\ q[3] = c
  OBVIOUS
<1> HIDE DEF p, q
<1>3. z \in Seq(S) /\ Len(z) = 3 /\ z[1] = a /\ z[2] = b /\ z[3] = c
  <2>0. p \in Seq(S)
    BY <1>1
  <2>1. z \in Seq(S) /\ Len(z) = Len(p) + 1
    BY <2>0, AppendProperties
  <2>a. \A i \in 1 .. Len(p) : z[i] = p[i]
    BY <2>0, AppendProperties
  <2>2. z[Len(p) + 1] = c
    BY <2>0, AppendProperties
  <2> HIDE DEF z
  <2>3. z[1] = a /\ z[2] = b /\ z[3] = c
    BY <1>1, <2>a, <2>2
  <2> QED
    BY <1>1, <2>1, <2>3
<1> HIDE DEF z
<1>4. ASSUME NEW i \in 1 .. 3 PROVE z[i] = q[i]
  <2>1. i = 1 \/ i = 2 \/ i = 3
    OBVIOUS
  <2> QED
    BY <1>2, <1>3, <2>1
<1>5. z = q
  BY <1>2, <1>3, <1>4, SeqEqual
<1> QED
  BY <1>5 DEF z, p, q

(* Four elements, the last appended. *)
LEMMA FourIs ==
  ASSUME NEW S, NEW a \in S, NEW b \in S, NEW c \in S, NEW d \in S
  PROVE  Append(<<a, b, c>>, d) = <<a, b, c, d>>
<1> DEFINE p == <<a, b, c>>
           q == <<a, b, c, d>>
           z == Append(p, d)
<1>1. p \in Seq(S) /\ Len(p) = 3 /\ p[1] = a /\ p[2] = b /\ p[3] = c
  OBVIOUS
<1>2. q \in Seq(S) /\ Len(q) = 4 /\ q[1] = a /\ q[2] = b /\ q[3] = c /\ q[4] = d
  OBVIOUS
<1> HIDE DEF p, q
<1>3. z \in Seq(S) /\ Len(z) = 4 /\ z[1] = a /\ z[2] = b /\ z[3] = c /\ z[4] = d
  <2>0. p \in Seq(S)
    BY <1>1
  <2>1. z \in Seq(S) /\ Len(z) = Len(p) + 1
    BY <2>0, AppendProperties
  <2>a. \A i \in 1 .. Len(p) : z[i] = p[i]
    BY <2>0, AppendProperties
  <2>2. z[Len(p) + 1] = d
    BY <2>0, AppendProperties
  <2> HIDE DEF z
  <2>3. z[1] = a /\ z[2] = b /\ z[3] = c /\ z[4] = d
    BY <1>1, <2>a, <2>2
  <2> QED
    BY <1>1, <2>1, <2>3
<1> HIDE DEF z
<1>4. ASSUME NEW i \in 1 .. 4 PROVE z[i] = q[i]
  <2>1. i = 1 \/ i = 2 \/ i = 3 \/ i = 4
    OBVIOUS
  <2> QED
    BY <1>2, <1>3, <2>1
<1>5. z = q
  BY <1>2, <1>3, <1>4, SeqEqual
<1> QED
  BY <1>5 DEF z, p, q

(* One part is joined to itself. *)
LEMMA JoinedOne ==
  ASSUME NEW D, NEW sep \in Seq(D), NEW a \in Seq(D)
  PROVE  Joined(<<a>>, sep) = a
<1> DEFINE p == <<a>>
           e == <<>>
<1>1. Append(e, a) = p
  OBVIOUS
<1>2. e \in Seq(Seq(D)) /\ e = <<>>
  OBVIOUS
<1> HIDE DEF p, e
<1>3. /\ e = <<>> => Joined(Append(e, a), sep) = a
      /\ e # <<>> => Joined(Append(e, a), sep) = Beside(Joined(e, sep), sep, a)
  <2>1. e \in Seq(Seq(D))
    BY <1>2
  <2> QED
    BY <2>1, JoinedMore
<1>4. Joined(p, sep) = a
  BY <1>1, <1>2, <1>3
<1> QED
  BY <1>4 DEF p

(* Two parts with the separator in between. *)
LEMMA JoinedTwo ==
  ASSUME NEW D, NEW sep \in Seq(D), NEW a \in Seq(D), NEW b \in Seq(D)
  PROVE  Joined(<<a, b>>, sep) = Beside(a, sep, b)
<1> DEFINE r == <<a>>
           s == <<a, b>>
<1>1. Append(r, b) = s
  BY TwoIs
<1>2. r \in Seq(Seq(D)) /\ r # <<>>
  OBVIOUS
<1>r. Joined(r, sep) = a
  BY JoinedOne
<1> HIDE DEF r, s
<1>3. /\ r = <<>> => Joined(Append(r, b), sep) = b
      /\ r # <<>> => Joined(Append(r, b), sep) = Beside(Joined(r, sep), sep, b)
  BY <1>2, JoinedMore
<1>4. Joined(s, sep) = Beside(Joined(r, sep), sep, b)
  BY <1>1, <1>2, <1>3
<1> QED
  BY <1>4, <1>r DEF s

(* A third part comes after one more separator. *)
LEMMA JoinedThree ==
  ASSUME NEW D, NEW sep \in Seq(D), NEW a \in Seq(D), NEW b \in Seq(D), NEW c \in Seq(D)
  PROVE  Joined(<<a, b, c>>, sep) = Beside(Joined(<<a, b>>, sep), sep, c)
<1> DEFINE r == <<a, b>>
           s == <<a, b, c>>
<1>1. Append(r, c) = s
  BY ThreeIs
<1>2. r \in Seq(Seq(D)) /\ r # <<>>
  OBVIOUS
<1>r. Joined(r, sep) = Joined(<<a, b>>, sep)
  OBVIOUS
<1> HIDE DEF r, s
<1>3. /\ r = <<>> => Joined(Append(r, c), sep) = c
      /\ r # <<>> => Joined(Append(r, c), sep) = Beside(Joined(r, sep), sep, c)
  BY <1>2, JoinedMore
<1>4. Joined(s, sep) = Beside(Joined(r, sep), sep, c)
  BY <1>1, <1>2, <1>3
<1> QED
  BY <1>4, <1>r DEF s

(* A fourth part comes after one more separator. *)
LEMMA JoinedFour ==
  ASSUME NEW D, NEW sep \in Seq(D), NEW a \in Seq(D), NEW b \in Seq(D), NEW c \in Seq(D), NEW d \in Seq(D)
  PROVE  Joined(<<a, b, c, d>>, sep) = Beside(Joined(<<a, b, c>>, sep), sep, d)
<1> DEFINE r == <<a, b, c>>
           s == <<a, b, c, d>>
<1>1. Append(r, d) = s
  BY FourIs
<1>2. r \in Seq(Seq(D)) /\ r # <<>>
  OBVIOUS
<1> HIDE DEF r, s
<1>3. /\ r = <<>> => Joined(Append(r, d), sep) = d
      /\ r # <<>> => Joined(Append(r, d), sep) = Beside(Joined(r, sep), sep, d)
  BY <1>2, JoinedMore
<1>4. Joined(s, sep) = Beside(Joined(r, sep), sep, d)
  BY <1>1, <1>2, <1>3
<1> QED
  BY <1>4 DEF r, s

(* A text that begins solid still does when more is put behind it. *)
LEMMA FirmGrows ==
  ASSUME NEW D, NEW a \in Firm(D), NEW sep \in Seq(D), NEW b \in Seq(D)
  PROVE  Beside(a, sep, b) \in Firm(D)
<1>1. a \in Seq(D) /\ a # <<>> /\ a[1] \notin Blank
  BY DEF Firm
<1>2. Beside(a, sep, b) \in Seq(D) /\ Beside(a, sep, b) # <<>> /\ Beside(a, sep, b)[1] = a[1]
  BY <1>1, FirstOfTwo
<1> QED
  BY <1>1, <1>2 DEF Firm

(* A bare text behind another makes the whole bare. *)
LEMMA BareGrows ==
  ASSUME NEW D, NEW a \in Firm(D), NEW sep \in Seq(D), NEW b \in Seq(D), Bare(b)
  PROVE  Beside(a, sep, b) \in Seq(D) /\ Bare(Beside(a, sep, b))
<1>1. Beside(a, sep, b) \in Firm(D)
  BY FirmGrows
<1>2. a \in Seq(D) /\ b # <<>> /\ b[Len(b)] \notin Blank
  BY DEF Firm, Bare
<1>3. Beside(a, sep, b)[Len(Beside(a, sep, b))] = b[Len(b)]
  BY <1>2, LastOfThree
<1> QED
  BY <1>1, <1>2, <1>3 DEF Firm, Bare

(* Empty columns at the end leave separators only. *)
LEMMA EndsBare ==
  ASSUME NEW D, NEW x \in Seq(D), NEW t \in Seq(D)
  PROVE  /\ <<>> \in Seq(D) /\ Follows(x, x, <<>>) /\ Beside(x, t, <<>>) = x \o t
         /\ Follows(Beside(x, t, <<>>), x, t)
         /\ Follows(Beside(Beside(x, t, <<>>), t, <<>>), x, t \o t) /\ t \o t \in Seq(D)
<1>1. x \o t \in Seq(D) /\ t \o t \in Seq(D)
  BY ConcatProperties
<1> DEFINE y == x \o t
<1>2. y \o t \in Seq(D)
  <2>1. y \in Seq(D)
    BY <1>1
  <2> HIDE DEF y
  <2> QED
    BY <2>1, ConcatProperties
<1>3. (x \o t) \o <<>> = x \o t
  BY <1>1, ConcatEmptySeq
<1>4. Beside(x, t, <<>>) = y
  BY <1>3 DEF Beside
<1>5. Beside(y, t, <<>>) = y \o t
  <2> HIDE DEF y
  <2>1. (y \o t) \o <<>> = y \o t
    BY <1>2, ConcatEmptySeq
  <2> QED
    BY <2>1 DEF Beside
<1>6. y \o t = x \o (t \o t)
  BY ConcatAssociative
<1>7. x \o <<>> = x
  BY ConcatEmptySeq
<1>8. Follows(x, x, <<>>)
  BY <1>7 DEF Follows
<1>9. Follows(Beside(x, t, <<>>), x, t)
  BY <1>4 DEF Follows
<1>10. Follows(Beside(Beside(x, t, <<>>), t, <<>>), x, t \o t)
  BY <1>4, <1>5, <1>6 DEF Follows
<1> QED
  BY <1>1, <1>4, <1>8, <1>9, <1>10

ColumnsOf(parts) == [i \in 1 .. 4 |-> Column(parts, i)]

(* The columns read are those of the row, when the missing ones were empty. *)
LEMMA ColumnsAre ==
  ASSUME NEW S, NEW r \in Seq(S), Len(r) = 4, NEW parts, DOMAIN parts \subseteq 1 .. 4,
         \A i \in 1 .. 4 : IF i \in DOMAIN parts THEN parts[i] = r[i] ELSE r[i] = <<>>
  PROVE  ColumnsOf(parts) = r
<1>1. r = [i \in 1 .. 4 |-> r[i]]
  OBVIOUS
<1>2. \A i \in 1 .. 4 : Column(parts, i) = r[i]
  BY DEF Column
<1> QED
  BY <1>1, <1>2 DEF ColumnsOf

Tabbed(line) == ColumnsOf(Split(line, "tab"))

(* A row splits at its tabulators into its columns. *)
LEMMA TabbedRead ==
  ASSUME NEW parts \in Seq(Seq(Inner)), parts # <<>>
  PROVE  Split(Joined(parts, <<"tab">>), "tab") = parts
<1> DEFINE sep == "tab"
           k == -1
<1>1. sep \notin Inner
  BY GlyphsApart
<1>k. k \in Int /\ k < 0
  OBVIOUS
<1> HIDE DEF sep, k
<1>2. SplitN(Joined(parts, <<sep>>), sep, k) = parts
  BY <1>1, <1>k, SplitJoined
<1> QED
  BY <1>2 DEF Split, sep, k

CutOf(D, line, r) ==
    \E x \in Seq(D), w \in Seq(D) :
        Bare(x) /\ w \in Seq(Blank) /\ Follows(line, x, w) /\ Tabbed(x) = r

(* A row of a container starts with its id; what trimming its line takes away
   are the empty columns at its end. *)
LEMMA RowCut ==
  ASSUME NEW r \in Words \X Words \X Phrases \X Phrases
  PROVE  /\ Joined(r, <<"tab">>) \in Firm(Inner \cup {"tab"})
         /\ Tabbed(Joined(r, <<"tab">>)) = r
         /\ CutOf(Inner \cup {"tab"}, Joined(r, <<"tab">>), r)
<1> DEFINE a == r[1]
           b == r[2]
           c == r[3]
           d == r[4]
           D == Inner \cup {"tab"}
           tab == <<"tab">>
<1>1. a \in Words /\ b \in Words /\ c \in Phrases /\ d \in Phrases /\ r = <<a, b, c, d>>
  OBVIOUS
<1> HIDE DEF a, b, c, d
<1>2. /\ a \in Seq(Inner) /\ b \in Seq(Inner) /\ c \in Seq(Inner) /\ d \in Seq(Inner)
      /\ a # <<>> /\ Bare(a) /\ Bare(b) /\ (c # <<>> => Bare(c)) /\ (d # <<>> => Bare(d))
  <2>1. a \in Phrases /\ b \in Phrases /\ a # <<>> /\ b # <<>>
    BY <1>1, WordIs
  <2> QED
    BY <1>1, <2>1, PhraseIs
<1>3. /\ a \in Seq(D) /\ b \in Seq(D) /\ c \in Seq(D) /\ d \in Seq(D) /\ tab \in Seq(D)
      /\ "tab" \in Blank
  <2>1. Inner \subseteq D /\ "tab" \in D
    OBVIOUS
  <2>2. "tab" \in Blank
    BY DEF Blank
  <2> HIDE DEF D
  <2> QED
    BY <1>2, <2>1, <2>2, SeqMonotonic, Single
<1> DEFINE x2 == Joined(<<a, b>>, tab)
           x3 == Joined(<<a, b, c>>, tab)
           x4 == Joined(<<a, b, c, d>>, tab)
<1>4. Tabbed(x4) = r
  <2> DEFINE p == <<a, b, c, d>>
  <2>1. p \in Seq(Seq(Inner)) /\ p # <<>> /\ Len(p) = 4 /\ DOMAIN p = 1 .. 4 /\ p = r
    BY <1>1, <1>2
  <2> HIDE DEF p
  <2>2. Split(Joined(p, <<"tab">>), "tab") = p
    BY <2>1, TabbedRead
  <2>3. ColumnsOf(p) = p
    BY <2>1, ColumnsAre
  <2> QED
    BY <2>1, <2>2, <2>3 DEF Tabbed, p
<1>5. d = <<>> => Tabbed(x3) = r
  <2> DEFINE p == <<a, b, c>>
  <2>1. p \in Seq(Seq(Inner)) /\ p # <<>> /\ DOMAIN p = 1 .. 3 /\ p[1] = a /\ p[2] = b /\ p[3] = c
    BY <1>2
  <2>2. r \in Seq(Seq(Inner)) /\ Len(r) = 4 /\ r[1] = a /\ r[2] = b /\ r[3] = c /\ r[4] = d
    BY <1>1, <1>2
  <2> HIDE DEF p
  <2>3. Split(Joined(p, <<"tab">>), "tab") = p
    BY <2>1, TabbedRead
  <2>4. ASSUME d = <<>> PROVE ColumnsOf(p) = r
    <3>1. DOMAIN p \subseteq 1 .. 4
      BY <2>1
    <3>2. ASSUME NEW i \in 1 .. 4 PROVE IF i \in DOMAIN p THEN p[i] = r[i] ELSE r[i] = <<>>
      <4>1. i = 1 \/ i = 2 \/ i = 3 \/ i = 4
        OBVIOUS
      <4> QED
        BY <2>1, <2>2, <2>4, <4>1
    <3> QED
      BY <2>2, <3>1, <3>2, ColumnsAre
  <2> QED
    BY <2>3, <2>4 DEF Tabbed, p
<1>6. c = <<>> /\ d = <<>> => Tabbed(x2) = r
  <2> DEFINE p == <<a, b>>
  <2>1. p \in Seq(Seq(Inner)) /\ p # <<>> /\ DOMAIN p = 1 .. 2 /\ p[1] = a /\ p[2] = b
    BY <1>2
  <2>2. r \in Seq(Seq(Inner)) /\ Len(r) = 4 /\ r[1] = a /\ r[2] = b /\ r[3] = c /\ r[4] = d
    BY <1>1, <1>2
  <2> HIDE DEF p
  <2>3. Split(Joined(p, <<"tab">>), "tab") = p
    BY <2>1, TabbedRead
  <2>4. ASSUME c = <<>>, d = <<>> PROVE ColumnsOf(p) = r
    <3>1. DOMAIN p \subseteq 1 .. 4
      BY <2>1
    <3>2. ASSUME NEW i \in 1 .. 4 PROVE IF i \in DOMAIN p THEN p[i] = r[i] ELSE r[i] = <<>>
      <4>1. i = 1 \/ i = 2 \/ i = 3 \/ i = 4
        OBVIOUS
      <4> QED
        BY <2>1, <2>2, <2>4, <4>1
    <3> QED
      BY <2>2, <3>1, <3>2, ColumnsAre
  <2> QED
    BY <2>3, <2>4 DEF Tabbed, p
<1>7. tab \in Seq(Blank)
  BY <1>3, Single
<1> HIDE DEF D, tab
<1>8. x2 = Beside(a, tab, b) /\ x3 = Beside(x2, tab, c) /\ x4 = Beside(x3, tab, d)
  <2>1. x2 = Beside(a, tab, b)
    BY <1>3, JoinedTwo
  <2>2. x3 = Beside(x2, tab, c)
    BY <1>3, JoinedThree
  <2>3. x4 = Beside(x3, tab, d)
    BY <1>3, JoinedFour
  <2> QED
    BY <2>1, <2>2, <2>3
<1> HIDE DEF x2, x3, x4
<1>9. a \in Firm(D)
  BY <1>2, <1>3 DEF Firm, Bare
<1>10. x2 \in Firm(D) /\ Bare(x2) /\ x2 \in Seq(D)
  BY <1>2, <1>3, <1>8, <1>9, FirmGrows, BareGrows
<1>11. x3 \in Firm(D) /\ (c # <<>> => Bare(x3) /\ x3 \in Seq(D))
  BY <1>2, <1>3, <1>8, <1>10, FirmGrows, BareGrows
<1>12. x4 \in Firm(D) /\ (d # <<>> => Bare(x4) /\ x4 \in Seq(D))
  BY <1>2, <1>3, <1>8, <1>11, FirmGrows, BareGrows
<1>13. CutOf(D, x4, r)
  <2>1. CASE d # <<>>
    <3> DEFINE w == <<>>
    <3>1. w \in Seq(D) /\ w \in Seq(Blank)
      OBVIOUS
    <3>2. Follows(x4, x4, w)
      BY <1>12, <2>1, <1>3, EndsBare
    <3> HIDE DEF w
    <3> QED
      BY <1>4, <1>12, <2>1, <3>1, <3>2 DEF CutOf
  <2>2. CASE d = <<>> /\ c # <<>>
    <3>1. Follows(x4, x3, tab)
      BY <1>3, <1>8, <1>11, <2>2, EndsBare
    <3> QED
      BY <1>3, <1>5, <1>7, <1>11, <2>2, <3>1 DEF CutOf
  <2>3. CASE d = <<>> /\ c = <<>>
    <3> DEFINE w == tab \o tab
    <3>1. Follows(x4, x2, w) /\ w \in Seq(D)
      BY <1>3, <1>8, <1>10, <2>3, EndsBare
    <3>2. w \in Seq(Blank)
      BY <1>7, ConcatProperties
    <3> HIDE DEF w
    <3> QED
      BY <1>6, <1>10, <2>3, <3>1, <3>2 DEF CutOf
  <2> QED
    BY <2>1, <2>2, <2>3
<1>14. Joined(r, tab) = x4
  BY <1>1 DEF x4
<1> QED
  BY <1>4, <1>12, <1>13, <1>14 DEF D, tab

(* A table of containers of any length reads back, though the output is trimmed
   (dockermgr.List). *)
LEMMA ContainersReadBack ==
  ASSUME NEW table \in Seq(Words \X Words \X Phrases \X Phrases)
  PROVE  ContainersRead(table)
<1> DEFINE n == Len(table)
           W == Words \X Words \X Phrases \X Phrases
           D == Inner \cup {"tab"}
           texts == [i \in 1 .. n |-> Joined(table[i], <<"tab">>)]
           out == Printed(table, "tab")
           lines == Lines(Trim(out))
<1>1. n \in Nat /\ DOMAIN table = 1 .. n /\ table = [i \in 1 .. n |-> table[i]]
      /\ \A i \in 1 .. n : table[i] \in W
  OBVIOUS
<1>2. \A i \in 1 .. n : /\ texts[i] \in Firm(D) /\ Tabbed(texts[i]) = table[i]
                        /\ CutOf(D, texts[i], table[i])
  BY <1>1, RowCut
<1>3. out = Ended(texts)
  BY <1>1 DEF Printed, Ended, Mapped
<1>4. ContainersOf(out) = [i \in DOMAIN lines |-> Tabbed(lines[i])]
  BY DEF ContainersOf, Mapped, Tabbed, ColumnsOf
<1>5. DOMAIN texts = 1 .. n
  OBVIOUS
<1>6. "nl" \notin D
  BY GlyphsApart
<1> HIDE DEF n, W, texts, out, D
<1>7. texts \in Seq(Firm(D)) /\ Len(texts) = n
  <2>1. texts = [i \in 1 .. n |-> texts[i]]
    BY <1>5 DEF texts
  <2>2. [i \in 1 .. n |-> texts[i]] \in Seq(Firm(D)) /\ Len([i \in 1 .. n |-> texts[i]]) = n
    BY <1>1, <1>2
  <2> QED
    BY <1>1, <1>5, <2>1, <2>2
<1>8. DOMAIN lines = 1 .. n /\ \A i \in 1 .. n : Tabbed(lines[i]) = table[i]
  <2>1. CASE n = 0
    <3>1. texts = <<>>
      BY <1>7, <2>1, EmptySeq
    <3>2. lines = <<>>
      BY <1>3, <3>1, NothingTrims DEF Ended
    <3> QED
      BY <2>1, <3>2
  <2>2. CASE n # 0
    <3>1. n \in Nat \ {0} /\ n \in 1 .. n
      BY <1>1, <2>2
    <3>2. PICK x \in Seq(D), w \in Seq(D) :
             Bare(x) /\ w \in Seq(Blank) /\ Follows(texts[n], x, w) /\ Tabbed(x) = table[n]
      BY <1>2, <3>1 DEF CutOf
    <3>3. Lines(Trim(Ended(texts))) = Cut(texts, n, x)
      BY <1>6, <1>7, <3>1, <3>2, LinesTrimmed
    <3>4. lines = [texts EXCEPT ![n] = x]
      BY <1>3, <3>3 DEF Cut
    <3> QED
      BY <1>2, <1>5, <3>1, <3>2, <3>4
  <2> QED
    BY <2>1, <2>2
<1> HIDE DEF lines
<1>9. [i \in DOMAIN lines |-> Tabbed(lines[i])] = table
  BY <1>1, <1>8
<1> QED
  BY <1>4, <1>9 DEF ContainersRead, out

(* Accounts. *)

(* With a character in between the whole is not empty. *)
LEMMA BesideFilled ==
  ASSUME NEW D, NEW a \in Seq(D), NEW c \in D, NEW b \in Seq(D)
  PROVE  Beside(a, <<c>>, b) \in Filled(D)
<1> DEFINE s == <<c>>
           t == a \o s
<1>1. s \in Seq(D) /\ Len(s) = 1
  OBVIOUS
<1> HIDE DEF s
<1>2. t \in Seq(D) /\ Len(t) = Len(a) + Len(s)
  BY <1>1, ConcatProperties
<1>3. Len(t) \in Nat \ {0}
  BY <1>1, <1>2
<1>4. Beside(a, s, b) = t \o b
  BY DEF Beside
<1> HIDE DEF t
<1>5. t \o b \in Seq(D) /\ Len(t \o b) = Len(t) + Len(b)
  BY <1>2, ConcatProperties
<1> DEFINE z == t \o b
<1>6. z \in Seq(D) /\ Len(z) = Len(t) + Len(b) /\ Len(b) \in Nat
  BY <1>5
<1> HIDE DEF z
<1>7. Len(z) # 0
  BY <1>3, <1>6
<1>8. z # <<>>
  BY <1>6, <1>7, EmptySeq
<1> QED
  BY <1>4, <1>6, <1>8 DEF Filled, z, s

SeparatedOf(out, m) ==
    [i \in DOMAIN Lines(out) |-> [k \in 1 .. m |-> Column(SplitN(Lines(out)[i], ":", m), k)]]

Separable(T, m) ==
    \A r \in T : /\ r \in Seq(Seq(Inner)) /\ r # <<>> /\ Len(r) = m
                 /\ Joined(r, <<":">>) \in Filled(Inner \cup {":"})

(* Rows of m columns, of which the last keeps its separators. *)
LEMMA SeparatedRead ==
  ASSUME NEW m \in Nat, NEW T, NEW table \in Seq(T), Separable(T, m)
  PROVE  SeparatedOf(Printed(table, ":"), m) = table
<1> DEFINE n == Len(table)
           D == Inner \cup {":"}
           texts == [i \in 1 .. n |-> Joined(table[i], <<":">>)]
<1>1. n \in Nat /\ DOMAIN table = 1 .. n /\ table = [i \in 1 .. n |-> table[i]]
      /\ \A i \in 1 .. n : table[i] \in T
  OBVIOUS
<1>s. \A i \in 1 .. n : /\ table[i] \in Seq(Seq(Inner)) /\ table[i] # <<>> /\ Len(table[i]) = m
                        /\ Joined(table[i], <<":">>) \in Filled(D)
  BY <1>1 DEF Separable
<1>2. ":" \notin Inner /\ "nl" \notin D
  BY GlyphsApart, SettingsAssumption, ListingsAssumption DEF Inner, Marking
<1>3. Printed(table, ":") = Ended(texts)
  BY <1>1 DEF Printed, Ended, Mapped
<1>4. texts \in Seq(Filled(D)) /\ DOMAIN texts = 1 .. n
  <2>1. \A i \in 1 .. n : texts[i] \in Filled(D)
    BY <1>s
  <2>2. texts = [i \in 1 .. n |-> texts[i]]
    OBVIOUS
  <2> HIDE DEF D, n, texts
  <2> QED
    BY <1>1, <2>1, <2>2, SeqIs
<1>5. Lines(Ended(texts)) = texts
  <2> HIDE DEF D, texts
  <2>1. Lines(Joined(Append(texts, <<>>), <<"nl">>)) = texts
    BY <1>2, <1>4, LinesRead
  <2> QED
    BY <2>1 DEF Ended
<1>6. ASSUME NEW i \in 1 .. n
      PROVE  [k \in 1 .. m |-> Column(SplitN(texts[i], ":", m), k)] = table[i]
  <2> DEFINE r == table[i]
             sep == ":"
  <2>1. r \in Seq(Seq(Inner)) /\ r # <<>> /\ Len(r) = m /\ sep \notin Inner
    BY <1>s, <1>2
  <2>2. texts[i] = Joined(r, <<sep>>)
    OBVIOUS
  <2> HIDE DEF r, texts, sep
  <2>3. SplitN(texts[i], sep, m) = r
    <3>1. m \in Int /\ Len(r) <= m
      BY <2>1
    <3> QED
      BY <2>1, <2>2, <3>1, SplitJoined
  <2>4. DOMAIN r = 1 .. m /\ r = [k \in 1 .. m |-> r[k]]
    BY <2>1
  <2>5. \A k \in 1 .. m : Column(r, k) = r[k]
    BY <2>4 DEF Column
  <2>6. [k \in 1 .. m |-> Column(r, k)] = r
    BY <2>4, <2>5
  <2> QED
    BY <2>3, <2>6 DEF r, sep
<1> HIDE DEF texts, n, D
<1>7. [i \in DOMAIN texts |-> [k \in 1 .. m |-> Column(SplitN(texts[i], ":", m), k)]] = table
  BY <1>1, <1>4, <1>6
<1> QED
  BY <1>3, <1>5, <1>7 DEF SeparatedOf

(* Accounts and groups of any number read back (users.List, Groups). *)
LEMMA AccountsReadBack ==
  ASSUME NEW table \in Seq(Phrases \X Words \X Phrases)
  PROVE  AccountsRead(table)
<1> DEFINE T == Phrases \X Words \X Phrases
           U == Phrases \X Words
           D == Inner \cup {":"}
           colon == <<":">>
           groups == [i \in DOMAIN table |-> <<table[i][1], table[i][2]>>]
<1>1. colon \in Seq(D) /\ ":" \in D /\ Inner \subseteq D
  OBVIOUS
<1>2. ASSUME NEW a \in Phrases, NEW b \in Words, NEW c \in Phrases
      PROVE  /\ <<a, b, c>> \in Seq(Seq(Inner)) /\ <<a, b>> \in Seq(Seq(Inner))
             /\ Joined(<<a, b>>, colon) \in Filled(D) /\ Joined(<<a, b, c>>, colon) \in Filled(D)
  <2>1. a \in Seq(Inner) /\ b \in Seq(Inner) /\ c \in Seq(Inner)
    BY WordIs, PhraseIs
  <2>2. a \in Seq(D) /\ b \in Seq(D) /\ c \in Seq(D)
    BY <1>1, <2>1, SeqMonotonic
  <2> DEFINE x2 == Joined(<<a, b>>, colon)
             x3 == Joined(<<a, b, c>>, colon)
  <2> HIDE DEF D
  <2>3. x2 = Beside(a, colon, b) /\ x3 = Beside(x2, colon, c)
    <3> HIDE DEF colon
    <3>1. x2 = Beside(a, colon, b)
      BY <1>1, <2>2, JoinedTwo
    <3>2. x3 = Beside(x2, colon, c)
      BY <1>1, <2>2, JoinedThree
    <3> QED
      BY <3>1, <3>2
  <2> HIDE DEF x2, x3
  <2>4. x2 \in Filled(D) /\ x2 \in Seq(D)
    BY <1>1, <2>2, <2>3, BesideFilled DEF Filled
  <2>5. x3 \in Filled(D)
    BY <1>1, <2>2, <2>3, <2>4, BesideFilled
  <2> QED
    BY <2>1, <2>4, <2>5 DEF x2, x3
<1>3. ASSUME NEW r \in T
      PROVE  r \in Seq(Seq(Inner)) /\ r # <<>> /\ Len(r) = 3 /\ Joined(r, colon) \in Filled(D)
  <2> DEFINE a == r[1]
             b == r[2]
             c == r[3]
  <2>1. a \in Phrases /\ b \in Words /\ c \in Phrases /\ r = <<a, b, c>>
    OBVIOUS
  <2>2. <<a, b, c>> # <<>> /\ Len(<<a, b, c>>) = 3
    OBVIOUS
  <2> HIDE DEF a, b, c, D, colon
  <2> QED
    BY <1>2, <2>1, <2>2
<1>4. ASSUME NEW r \in U
      PROVE  r \in Seq(Seq(Inner)) /\ r # <<>> /\ Len(r) = 2 /\ Joined(r, colon) \in Filled(D)
  <2> DEFINE a == r[1]
             b == r[2]
  <2>1. a \in Phrases /\ b \in Words /\ r = <<a, b>>
    OBVIOUS
  <2>2. <<a, b>> # <<>> /\ Len(<<a, b>>) = 2
    OBVIOUS
  <2>3. b \in Phrases
    BY <2>1, WordIs
  <2> HIDE DEF a, b, D, colon
  <2> QED
    BY <1>2, <2>1, <2>2, <2>3
<1>5. table \in Seq(T) /\ groups \in Seq(U)
  <2>1. \A i \in DOMAIN table : <<table[i][1], table[i][2]>> \in U
    OBVIOUS
  <2>2. DOMAIN table = 1 .. Len(table) /\ Len(table) \in Nat
    OBVIOUS
  <2> HIDE DEF U
  <2> QED
    BY <2>1, <2>2
<1>6. UsersOf(Printed(table, ":")) = table
  <2>0. Separable(T, 3)
    BY <1>3 DEF Separable
  <2> HIDE DEF T, D
  <2>1. SeparatedOf(Printed(table, ":"), 3) = table
    BY <2>0, <1>5, SeparatedRead
  <2> QED
    BY <2>1 DEF UsersOf, SeparatedOf, Mapped
<1>7. GroupsOf(Printed(groups, ":")) = groups
  <2>0. Separable(U, 2)
    BY <1>4 DEF Separable
  <2> HIDE DEF U, D, groups
  <2>1. SeparatedOf(Printed(groups, ":"), 2) = groups
    BY <2>0, <1>5, SeparatedRead
  <2> QED
    BY <2>1 DEF GroupsOf, SeparatedOf, Mapped
<1> QED
  BY <1>6, <1>7 DEF AccountsRead, Mapped

-----------------------------------------------------------------------------
(* Sockets, packages and figures. *)

Worded(T, C) == \A r \in T : r \in Seq(Filled(C)) /\ r # <<>>

WordRows(table) == [i \in DOMAIN table |-> Joined(table[i], <<" ">>)]

(* A table of words: its lines are its rows, and their fields its columns. *)
LEMMA WordsRead ==
  ASSUME NEW C, C \cap Blank = {}, NEW T, Worded(T, C), NEW table \in Seq(T)
  PROVE  /\ Printed(table, " ") = Ended(WordRows(table))
         /\ WordRows(table) \in Seq(BareOf(C \cup {" "})) /\ Len(WordRows(table)) = Len(table)
         /\ DOMAIN WordRows(table) = 1 .. Len(table)
         /\ Lines(Trim(Printed(table, " "))) = WordRows(table)
         /\ \A i \in 1 .. Len(table) : Fields(WordRows(table)[i]) = table[i]
<1> DEFINE n == Len(table)
           D == C \cup {" "}
           sep == <<" ">>
           texts == WordRows(table)
<1>1. n \in Nat /\ DOMAIN table = 1 .. n /\ \A i \in 1 .. n : table[i] \in T
  OBVIOUS
<1>2. texts = [i \in 1 .. n |-> Joined(table[i], sep)] /\ texts = [i \in 1 .. n |-> texts[i]]
  BY <1>1 DEF WordRows
<1>3. Printed(table, " ") = Ended(texts)
  BY <1>1, <1>2 DEF Printed, Ended, Mapped
<1>4. sep \in Seq(D) /\ C \subseteq D /\ "nl" \notin D
  <2>1. "nl" \notin C
    BY DEF Blank
  <2>2. "nl" \notin D /\ C \subseteq D /\ " " \in D
    BY <2>1
  <2> HIDE DEF D
  <2> QED
    BY <2>2, Single
<1>5. \A i \in 1 .. n : table[i] \in Seq(Filled(C)) /\ table[i] # <<>>
  BY <1>1 DEF Worded
<1> HIDE DEF n, D, texts
<1>6. \A i \in 1 .. n : texts[i] \in BareOf(D) /\ Fields(texts[i]) = table[i]
  <2>1. SUFFICES ASSUME NEW i \in 1 .. n
                 PROVE  texts[i] \in BareOf(D) /\ Fields(texts[i]) = table[i]
    OBVIOUS
  <2> DEFINE r == table[i]
  <2>2. r \in Seq(Filled(C)) /\ r # <<>> /\ texts[i] = Joined(r, sep)
    BY <1>2, <1>5
  <2> HIDE DEF r
  <2>3. Fields(Joined(r, sep)) = r
    BY <2>2, FieldsRead
  <2> HIDE DEF sep
  <2>4. Joined(r, sep) \in BareOf(D)
    BY <1>4, <2>2, RowIsPlain
  <2> QED
    BY <2>2, <2>3, <2>4 DEF r
<1>7. texts \in Seq(BareOf(D)) /\ Len(texts) = n /\ DOMAIN texts = 1 .. n
  <2>1. texts = [i \in 1 .. n |-> texts[i]] /\ \A i \in 1 .. n : texts[i] \in BareOf(D)
    BY <1>2, <1>6
  <2> QED
    BY <1>1, <2>1, SeqIs
<1>8. Lines(Trim(Ended(texts))) = texts
  BY <1>4, <1>7, LinesPlain
<1> QED
  BY <1>3, <1>6, <1>7, <1>8 DEF texts, n, D

(* The first rows are rows. *)
LEMMA FirstIs ==
  ASSUME NEW S, NEW s \in Seq(S), NEW m \in Nat
  PROVE  FirstOf(s, m) \in Seq(S)
<1> DEFINE l == IF Len(s) < m THEN Len(s) ELSE m
<1>1. l \in 0 .. Len(s)
  OBVIOUS
<1> HIDE DEF l
<1>2. SubSeq(s, 1, l) \in Seq(S)
  <2>1. \A i \in 1 .. l : s[i] \in S
    BY <1>1
  <2> QED
    BY <1>1, <2>1, SubSeqProperties
<1> QED
  BY <1>2 DEF FirstOf, l

(* The first sockets and packages of any listing read back (Connections,
   pkgmanager.List). *)
LEMMA SocketsReadBack ==
  ASSUME NEW table \in Seq(Words \X Words \X Words \X Words)
  PROVE  SocketsRead(table)
<1> DEFINE T == Words \X Words \X Words \X Words
           U == {<<w>> : w \in Words}
           names == [i \in DOMAIN table |-> <<table[i][1]>>]
           t == FirstOf(table, MaxRows)
           u == FirstOf(names, MaxRows)
<1>1. Glyphs \cap Blank = {} /\ MaxRows \in Nat
  BY GlyphsApart, ListingsAssumption
<1>2. \A w \in Words : w \in Filled(Glyphs)
  BY WordIs DEF Filled
<1>3. Worded(T, Glyphs)
  <2>1. SUFFICES ASSUME NEW r \in T PROVE r \in Seq(Filled(Glyphs)) /\ r # <<>>
    BY DEF Worded
  <2> DEFINE a == r[1]
             b == r[2]
             c == r[3]
             d == r[4]
  <2>2. a \in Words /\ b \in Words /\ c \in Words /\ d \in Words /\ r = <<a, b, c, d>>
    OBVIOUS
  <2> HIDE DEF a, b, c, d, T
  <2>3. a \in Filled(Glyphs) /\ b \in Filled(Glyphs) /\ c \in Filled(Glyphs) /\ d \in Filled(Glyphs)
    BY <1>2, <2>2
  <2> DEFINE F == Filled(Glyphs)
  <2> HIDE DEF F
  <2>4. <<a, b, c, d>> \in Seq(F) /\ <<a, b, c, d>> # <<>>
    BY <2>3 DEF F
  <2> QED
    BY <2>2, <2>4 DEF F
<1>4. Worded(U, Glyphs)
  <2>1. SUFFICES ASSUME NEW w \in Words PROVE <<w>> \in Seq(Filled(Glyphs)) /\ <<w>> # <<>>
    BY DEF Worded
  <2> QED
    BY <1>2, Single
<1>5. names \in Seq(U)
  <2>1. Len(table) \in Nat /\ DOMAIN table = 1 .. Len(table)
    OBVIOUS
  <2>2. \A i \in DOMAIN table : names[i] \in U
    OBVIOUS
  <2>3. names = [i \in 1 .. Len(table) |-> names[i]]
    BY <2>1
  <2> HIDE DEF names, U
  <2> QED
    BY <2>1, <2>2, <2>3, SeqIs
<1> HIDE DEF T, U, names
<1>6. t \in Seq(T) /\ u \in Seq(U)
  BY <1>1, <1>5, FirstIs DEF T
<1> HIDE DEF t, u
<1>7. ConnectionsOf(Printed(t, " ")) = t
  <2> DEFINE lines == Lines(Trim(Printed(t, " ")))
  <2>1. /\ DOMAIN lines = 1 .. Len(t)
        /\ \A i \in 1 .. Len(t) : Fields(lines[i]) = t[i]
    BY <1>1, <1>3, <1>6, WordsRead
  <2>2. ConnectionsOf(Printed(t, " ")) = [k \in DOMAIN lines |-> [i \in 1 .. 4 |-> Column(Fields(lines[k]), i)]]
    BY DEF ConnectionsOf, Mapped
  <2> HIDE DEF lines
  <2>3. ASSUME NEW k \in 1 .. Len(t) PROVE [i \in 1 .. 4 |-> Column(t[k], i)] = t[k]
    <3>1. t[k] \in Words \X Words \X Words \X Words
      BY <1>6 DEF T
    <3> DEFINE r == t[k]
    <3>2. DOMAIN r = 1 .. 4 /\ r = [i \in 1 .. 4 |-> r[i]]
      BY <3>1
    <3> HIDE DEF r
    <3>3. \A i \in 1 .. 4 : Column(r, i) = r[i]
      BY <3>2 DEF Column
    <3> QED
      BY <3>2, <3>3 DEF r
  <2>4. t = [k \in 1 .. Len(t) |-> t[k]]
    BY <1>6
  <2>5. \A k \in 1 .. Len(t) : [i \in 1 .. 4 |-> Column(Fields(lines[k]), i)] = t[k]
    BY <2>1, <2>3
  <2> DEFINE row == [k \in DOMAIN lines |-> [i \in 1 .. 4 |-> Column(Fields(lines[k]), i)]]
  <2>6. row = [k \in 1 .. Len(t) |-> t[k]]
    BY <2>1, <2>5
  <2> QED
    BY <2>2, <2>4, <2>6
<1>8. PackagesOf(Printed(u, " ")) = [i \in DOMAIN u |-> u[i][1]]
  <2>1. PackagesOf(Printed(u, " ")) = WordRows(u)
    BY <1>1, <1>4, <1>6, WordsRead DEF PackagesOf
  <2>2. ASSUME NEW i \in DOMAIN u PROVE Joined(u[i], <<" ">>) = u[i][1]
    <3>1. u[i] \in U
      BY <1>6
    <3>2. PICK w \in Words : u[i] = <<w>>
      BY <3>1 DEF U
    <3> DEFINE D == Inner
               sep == <<" ">>
    <3>3. w \in Seq(Inner) /\ sep \in Seq(Inner)
      <4>1. " " \in Inner
        BY DEF Inner
      <4> QED
        BY <4>1, WordIs, PhraseIs, Single
    <3> HIDE DEF sep
    <3>4. Joined(<<w>>, sep) = w
      BY <3>3, JoinedOne
    <3> DEFINE v == <<w>>
    <3>5. u[i] = v /\ v[1] = w /\ Joined(v, sep) = w
      BY <3>2, <3>4
    <3> HIDE DEF v
    <3>6. Joined(u[i], sep) = u[i][1]
      BY <3>5
    <3> QED
      BY <3>6 DEF sep
  <2> QED
    BY <2>1, <2>2 DEF WordRows
<1> QED
  BY <1>7, <1>8 DEF SocketsRead, t, u, names, Mapped

(* A suffix that was put behind a text comes off it. *)
LEMMA SuffixTrims ==
  ASSUME NEW S, NEW s \in Seq(S), NEW c \in S
  PROVE  TrimSuffix(s \o <<c>>, c) = s
<1> DEFINE e == <<c>>
           z == s \o e
           n == Len(s)
<1>1. e \in Seq(S) /\ Len(e) = 1 /\ e[1] = c /\ n \in Nat
  OBVIOUS
<1> HIDE DEF e
<1>2. z \in Seq(S) /\ Len(z) = n + 1
  BY <1>1, ConcatProperties
<1>3. \A i \in 1 .. Len(s) + Len(e) : z[i] = IF i <= Len(s) THEN s[i] ELSE e[i - Len(s)]
  BY <1>1, ConcatProperties
<1>4. z[n + 1] = c /\ \A i \in 1 .. n : z[i] = s[i]
  <2> HIDE DEF z
  <2>1. n + 1 \in 1 .. Len(s) + Len(e) /\ ~(n + 1 <= Len(s)) /\ (n + 1) - Len(s) = 1
    BY <1>1
  <2>2. z[n + 1] = e[(n + 1) - Len(s)]
    BY <1>3, <2>1
  <2>3. \A i \in 1 .. n : i \in 1 .. Len(s) + Len(e) /\ i <= Len(s)
    BY <1>1
  <2> QED
    BY <1>1, <1>3, <2>1, <2>2, <2>3
<1>d. DOMAIN s = 1 .. n
  OBVIOUS
<1> HIDE DEF z, n
<1>5. z # <<>> /\ (n + 1) - 1 = n
  BY <1>1, <1>2, EmptySeq
<1>6. SubSeq(z, 1, n) = s
  <2>1. \A i \in 1 .. n : z[i] \in S
    BY <1>1, <1>2, ElementOfSeq
  <2>2. SubSeq(z, 1, n) = [i \in 1 .. n |-> z[i]]
    BY <1>1, <1>2
  <2>3. s = [i \in 1 .. n |-> s[i]]
    BY <1>d
  <2> QED
    BY <1>4, <2>2, <2>3
<1>7. TrimSuffix(z, c) = s
  BY <1>1, <1>2, <1>4, <1>5, <1>6 DEF TrimSuffix
<1> QED
  BY <1>7 DEF z, e

(* Of a failed job zeros and no process remain. *)
LEMMA FailedRead ==
  /\ DiskOf(Failed) = << <<"0">>, <<"0">>, <<"0">> >>
  /\ MemoryOf(Failed) = << <<"0">>, <<"0">> >>
  /\ ProcessesOf(Failed) = <<>>
<1> DEFINE C == {"N/A"}
           f == <<Failed>>
           sep == <<" ">>
<1>1. Failed \in Filled(C) /\ C \cap Blank = {}
  BY DEF Failed, Filled, Blank
<1>2. f \in Seq(Filled(C)) /\ f # <<>> /\ Len(f) = 1
  BY <1>1
<1>3. Joined(f, sep) = Failed
  <2> DEFINE D == C \cup {" "}
  <2>1. sep \in Seq(D) /\ Failed \in Seq(D)
    BY DEF Failed
  <2> HIDE DEF D, sep
  <2> QED
    BY <2>1, JoinedOne
<1> HIDE DEF C, f
<1>4. Fields(Joined(f, <<" ">>)) = f
  BY <1>1, <1>2, FieldsRead
<1>5. Fields(Failed) = f
  BY <1>3, <1>4
<1>6. ~(1 >= 3) /\ 1 # 2
  OBVIOUS
<1> QED
  BY <1>2, <1>5, <1>6 DEF DiskOf, MemoryOf, ProcessesOf

(* The figures of a disk and of the memory read back. *)
LEMMA DiskRead ==
  ASSUME NEW a \in Words, NEW b \in Words, NEW c \in Words
  PROVE  /\ DiskOf(Joined(<<a, b, c \o <<"%">> >>, <<" ">>)) = <<a, b, c>>
         /\ MemoryOf(Joined(<<a, b>>, <<" ">>)) = <<a, b>>
<1> DEFINE C == Glyphs \cup {"%"}
           p == c \o <<"%">>
           f == <<a, b, p>>
           g == <<a, b>>
<1>1. C \cap Blank = {} /\ "%" \in C
  BY GlyphsApart DEF Blank
<1>2. a \in Filled(C) /\ b \in Filled(C) /\ c \in Filled(C) /\ c \in Seq(C)
  <2>1. \A w \in Words : w \in Seq(Glyphs) /\ w # <<>>
    BY WordIs
  <2>2. \A w \in Words : w \in Seq(C) /\ w # <<>>
    BY <2>1, SeqMonotonic
  <2> QED
    BY <2>2 DEF Filled
<1>3. p \in Filled(C) /\ TrimSuffix(p, "%") = c
  <2>1. p \in Filled(C)
    <3> DEFINE e == <<"%">>
    <3>1. e \in Seq(C) /\ Len(e) = 1
      BY <1>1
    <3> HIDE DEF C, e
    <3>2. c \o e \in Seq(C) /\ Len(c \o e) = Len(c) + Len(e) /\ Len(c) \in Nat
      BY <1>2, <3>1, ConcatProperties
    <3> DEFINE z == c \o e
    <3>3. z \in Seq(C) /\ Len(z) # 0
      BY <3>1, <3>2
    <3> HIDE DEF z
    <3>4. z # <<>>
      BY <3>3, EmptySeq
    <3> QED
      BY <3>3, <3>4 DEF z, e, Filled
  <2> HIDE DEF C
  <2>2. TrimSuffix(c \o <<"%">>, "%") = c
    BY <1>1, <1>2, SuffixTrims
  <2> QED
    BY <2>1, <2>2
<1> HIDE DEF C, p
<1>4. f \in Seq(Filled(C)) /\ f # <<>> /\ Len(f) = 3 /\ f[1] = a /\ f[2] = b /\ f[3] = p
  BY <1>2, <1>3
<1>5. g \in Seq(Filled(C)) /\ g # <<>> /\ Len(g) = 2
  BY <1>2
<1> HIDE DEF f, g
<1>6. Fields(Joined(f, <<" ">>)) = f /\ Fields(Joined(g, <<" ">>)) = g
  BY <1>1, <1>4, <1>5, FieldsRead
<1>7. DiskOf(Joined(f, <<" ">>)) = <<a, b, c>>
  <2> DEFINE j == Joined(f, <<" ">>)
  <2>0. Len(f) = 3 /\ Fields(j) = f
    BY <1>4, <1>6
  <2>1. Len(f) >= 3
    <3> DEFINE k == Len(f)
    <3>1. k = 3
      BY <2>0
    <3> HIDE DEF k
    <3>2. k >= 3
      BY <3>1
    <3> QED
      BY <3>2 DEF k
  <2> HIDE DEF j
  <2>2. DiskOf(j) = <<f[1], f[2], TrimSuffix(f[3], "%")>>
    BY <2>0, <2>1 DEF DiskOf
  <2> QED
    BY <1>3, <1>4, <2>2 DEF j
<1>8. MemoryOf(Joined(g, <<" ">>)) = g
  BY <1>5, <1>6 DEF MemoryOf
<1> QED
  BY <1>7, <1>8 DEF f, g, p

PrintedProcess(r) == << <<"u">>, r[1], r[2], r[3], <<"S">>, r[4]>>

(* The processes read back, whatever their number. *)
LEMMA ProcessesRead ==
  ASSUME NEW table \in Seq(Words \X Words \X Words \X Words)
  PROVE  ProcessesOf(Trim(Printed([i \in DOMAIN table |-> PrintedProcess(table[i])], " "))) =
            [i \in DOMAIN table |-> <<table[i][1], table[i][4], table[i][2], table[i][3], <<"S">> >>]
<1> DEFINE n == Len(table)
           C == Glyphs \cup {"u", "S"}
           T == {PrintedProcess(r) : r \in Words \X Words \X Words \X Words}
           t == [i \in DOMAIN table |-> PrintedProcess(table[i])]
           out == Trim(Printed(t, " "))
           lines == Lines(out)
<1>1. n \in Nat /\ DOMAIN table = 1 .. n
      /\ \A i \in 1 .. n : table[i] \in Words \X Words \X Words \X Words
  OBVIOUS
<1>2. C \cap Blank = {} /\ "nl" \notin C \cup {" "} /\ "N/A" \notin C \cup {" ", "nl"}
  <2>1. "N/A" \notin Glyphs /\ "nl" \notin Glyphs
    BY GlyphsApart, ListingsAssumption
  <2>2. C \cap Blank = {}
    BY GlyphsApart DEF Blank
  <2> QED
    BY <2>1, <2>2
<1>3. \A w \in Words : w \in Filled(C)
  <2>1. \A w \in Words : w \in Seq(Glyphs) /\ w # <<>>
    BY WordIs
  <2>2. \A w \in Words : w \in Seq(C) /\ w # <<>>
    BY <2>1, SeqMonotonic
  <2> QED
    BY <2>2 DEF Filled
<1>4. <<"u">> \in Filled(C) /\ <<"S">> \in Filled(C)
  BY DEF Filled
<1> HIDE DEF C
<1>5. ASSUME NEW r \in Words \X Words \X Words \X Words
      PROVE  /\ PrintedProcess(r) \in Seq(Filled(C)) /\ PrintedProcess(r) # <<>>
  <2> DEFINE F == Filled(C)
             a == <<"u">>
             b == <<"S">>
  <2>1. r[1] \in F /\ r[2] \in F /\ r[3] \in F /\ r[4] \in F /\ a \in F /\ b \in F
    BY <1>3, <1>4
  <2>2. PrintedProcess(r) = <<a, r[1], r[2], r[3], b, r[4]>>
    BY DEF PrintedProcess
  <2> HIDE DEF F, a, b
  <2>3. <<a, r[1], r[2], r[3], b, r[4]>> \in Seq(F) /\ <<a, r[1], r[2], r[3], b, r[4]>> # <<>>
    BY <2>1
  <2> QED
    BY <2>2, <2>3 DEF F
<1>6. Worded(T, C)
  BY <1>5 DEF Worded
<1>7. t \in Seq(T) /\ Len(t) = n /\ \A i \in 1 .. n : t[i] = PrintedProcess(table[i])
  <2>1. t = [i \in 1 .. n |-> t[i]] /\ \A i \in 1 .. n : t[i] = PrintedProcess(table[i])
    BY <1>1
  <2>2. \A i \in 1 .. n : t[i] \in T
    BY <1>1, <2>1
  <2> HIDE DEF t, T, n
  <2> QED
    BY <1>1, <2>1, <2>2, SeqIs
<1> HIDE DEF T, t, n
<1>8. /\ WordRows(t) \in Seq(BareOf(C \cup {" "})) /\ Len(WordRows(t)) = n /\ DOMAIN WordRows(t) = 1 .. n
      /\ Printed(t, " ") = Ended(WordRows(t)) /\ lines = WordRows(t)
      /\ \A i \in 1 .. n : Fields(lines[i]) = t[i]
  BY <1>2, <1>6, <1>7, WordsRead
<1>9. CASE n = 0
  <2>1. out = <<>>
    <3>1. WordRows(t) = <<>>
      BY <1>8, <1>9, EmptySeq
    <3> QED
      BY <1>8, <3>1, NothingTrims DEF Ended
  <2> HIDE DEF out
  <2>2. ProcessesOf(out) = <<>>
    BY <2>1 DEF ProcessesOf
  <2>3. [i \in DOMAIN table |-> <<table[i][1], table[i][4], table[i][2], table[i][3], <<"S">> >>] = <<>>
    BY <1>1, <1>9
  <2> QED
    BY <2>2, <2>3 DEF out, t
<1>10. CASE n # 0
  <2>1. out \notin {<<>>, Failed}
    <3> DEFINE texts == WordRows(t)
               D == C \cup {" "}
               E == D \cup {"nl"}
               nl == <<"nl">>
    <3>1. texts # <<>>
      BY <1>8, <1>10, EmptySeq
    <3>2. out = Joined(texts, nl)
      BY <1>2, <1>8, <3>1, LinesPlain
    <3>3. texts \in Seq(Firm(E)) /\ texts \in Seq(Seq(E))
      <4>1. D \subseteq E
        OBVIOUS
      <4> HIDE DEF E
      <4>2. BareOf(D) \subseteq Firm(E) /\ BareOf(D) \subseteq Seq(E)
        BY <4>1, SeqMonotonic DEF BareOf, Firm, Bare
      <4> HIDE DEF D, texts
      <4>3. texts \in Seq(BareOf(D))
        BY <1>8 DEF D, texts
      <4> QED
        BY <4>2, <4>3, SeqMonotonic
    <3>4. nl \in Seq(E)
      OBVIOUS
    <3>5. "N/A" \notin E
      BY <1>2
    <3> HIDE DEF texts, E, nl, out, D
    <3>6. out \in Firm(E)
      BY <3>1, <3>2, <3>3, <3>4, JoinedStarts
    <3>7. out # <<>> /\ out \in Seq(E)
      BY <3>6 DEF Firm
    <3>8. out # Failed
      <4>1. Failed[1] = "N/A" /\ 1 \in 1 .. Len(Failed)
        BY DEF Failed
      <4>2. 1 \in 1 .. Len(out) => out[1] \in E
        BY <3>7
      <4> QED
        BY <3>5, <4>1, <4>2
    <3> QED
      BY <3>7, <3>8
  <2>2. ASSUME NEW i \in 1 .. n
        PROVE  LET get(k) == Column(Fields(lines[i]), k)
               IN <<get(2), get(6), OrZero(get(3)), OrZero(get(4)), get(5)>> =
                  <<table[i][1], table[i][4], table[i][2], table[i][3], <<"S">> >>
    <3> DEFINE r == table[i]
               f == Fields(lines[i])
    <3>1. r \in Words \X Words \X Words \X Words /\ f = PrintedProcess(r)
      BY <1>1, <1>7, <1>8
    <3>2. r[2] # <<>> /\ r[3] # <<>>
      <4>1. r[2] \in Words /\ r[3] \in Words
        BY <3>1
      <4> QED
        BY <4>1, WordIs
    <3> HIDE DEF r, f
    <3>3. DOMAIN f = 1 .. 6 /\ f[2] = r[1] /\ f[3] = r[2] /\ f[4] = r[3] /\ f[5] = <<"S">> /\ f[6] = r[4]
      BY <3>1 DEF PrintedProcess
    <3>4. Column(f, 2) = r[1] /\ Column(f, 3) = r[2] /\ Column(f, 4) = r[3]
          /\ Column(f, 5) = <<"S">> /\ Column(f, 6) = r[4]
      BY <3>3 DEF Column
    <3>5. OrZero(Column(f, 3)) = r[2] /\ OrZero(Column(f, 4)) = r[3]
      BY <3>2, <3>4 DEF OrZero
    <3> QED
      BY <3>4, <3>5 DEF r, f
  <2> DEFINE row(l) == LET get(k) == Column(Fields(l), k)
                       IN <<get(2), get(6), OrZero(get(3)), OrZero(get(4)), get(5)>>
             want(i) == <<table[i][1], table[i][4], table[i][2], table[i][3], <<"S">> >>
  <2>3. ProcessesOf(out) = [i \in DOMAIN lines |-> row(lines[i])]
    BY <2>1 DEF ProcessesOf, Mapped
  <2>4. \A i \in 1 .. n : row(lines[i]) = want(i)
    BY <2>2
  <2> HIDE DEF row, want
  <2>5. DOMAIN lines = 1 .. n
    BY <1>8
  <2> HIDE DEF lines, out
  <2>6. [i \in DOMAIN lines |-> row(lines[i])] = [i \in 1 .. n |-> want(i)]
    BY <2>4, <2>5
  <2> QED
    BY <1>1, <2>3, <2>6 DEF out, want, t
<1> QED
  BY <1>9, <1>10

(* The figures and processes of any table read back (Collect). *)
LEMMA FiguresReadBack ==
  ASSUME NEW table \in Seq(Words \X Words \X Words \X Words)
  PROVE  FiguresRead(table)
<1>1. ASSUME NEW i \in DOMAIN table
      PROVE  LET total == table[i][1] used == table[i][2]
             IN /\ DiskOf(Joined(<<total, used, table[i][4] \o <<"%">> >>, <<" ">>)) =
                      <<total, used, table[i][4]>>
                /\ MemoryOf(Joined(<<total, used>>, <<" ">>)) = <<total, used>>
  <2>1. table[i][1] \in Words /\ table[i][2] \in Words /\ table[i][4] \in Words
    OBVIOUS
  <2> QED
    BY <2>1, DiskRead
<1>2. Mapped(LAMBDA r : << <<"u">>, r[1], r[2], r[3], <<"S">>, r[4]>>, table) =
         [i \in DOMAIN table |-> PrintedProcess(table[i])]
  BY DEF Mapped, PrintedProcess
<1>3. Mapped(LAMBDA r : <<r[1], r[4], r[2], r[3], <<"S">> >>, table) =
         [i \in DOMAIN table |-> <<table[i][1], table[i][4], table[i][2], table[i][3], <<"S">> >>]
  BY DEF Mapped
<1>4. ProcessesOf(Trim(Printed(Mapped(LAMBDA r : << <<"u">>, r[1], r[2], r[3], <<"S">>, r[4]>>,
                                     table), " "))) =
         Mapped(LAMBDA r : <<r[1], r[4], r[2], r[3], <<"S">> >>, table)
  BY <1>2, <1>3, ProcessesRead
<1> QED
  BY <1>1, <1>4, FailedRead DEF FiguresRead

-----------------------------------------------------------------------------
(* Interfaces. *)

(* A sequence that is not empty has a last element. *)
LEMMA LastApart ==
  ASSUME NEW S, NEW s \in Seq(S), s # <<>>
  PROVE  \E front \in Seq(S), last \in S : s = Append(front, last)
<1> DEFINE n == Len(s)
           m == n - 1
           front == [i \in 1 .. m |-> s[i]]
           last == s[n]
           z == Append(front, last)
<1>1. n \in Nat \ {0} /\ DOMAIN s = 1 .. n
  <2>1. Len(s) \in Nat /\ Len(s) # 0 /\ DOMAIN s = 1 .. Len(s)
    BY EmptySeq
  <2> QED
    BY <2>1
<1>2. \A i \in 1 .. n : s[i] \in S
  OBVIOUS
<1> HIDE DEF n
<1>3. m \in Nat /\ n = m + 1 /\ n \in 1 .. n
  BY <1>1
<1>4. front \in Seq(S) /\ Len(front) = m /\ \A i \in 1 .. m : front[i] = s[i]
  <2>1. front = [i \in 1 .. m |-> front[i]] /\ \A i \in 1 .. m : front[i] = s[i]
    OBVIOUS
  <2>2. \A i \in 1 .. m : s[i] \in S
    BY <1>2, <1>3
  <2> HIDE DEF front, m
  <2> QED
    BY <1>3, <2>1, <2>2, SeqIs
<1>5. last \in S
  BY <1>2, <1>3
<1> HIDE DEF front, m
<1>6. z \in Seq(S)
  BY <1>4, <1>5, AppendProperties
<1>7. Len(z) = m + 1
  BY <1>4, <1>5, AppendProperties
<1>8. (\A i \in 1 .. Len(front) : z[i] = front[i]) /\ z[Len(front) + 1] = last
  BY <1>4, <1>5, AppendProperties
<1> HIDE DEF z
<1>9. \A i \in 1 .. n : z[i] = s[i]
  <2>1. \A i \in 1 .. n : i \in 1 .. m \/ i = m + 1
    BY <1>3
  <2> QED
    BY <1>3, <1>4, <1>8, <2>1
<1>10. z = s
  <2>1. Len(s) = n
    BY DEF n
  <2> QED
    BY <1>3, <1>6, <1>7, <1>9, <2>1, SeqEqual
<1> HIDE DEF last
<1> QED
  BY <1>4, <1>5, <1>10 DEF z

(* Rows with an end of line behind each are the joined rows with one behind them all. *)
LEMMA EndedIs ==
  ASSUME NEW D, NEW texts \in Seq(BareOf(D)), texts # <<>>
  PROVE  /\ Joined(texts, <<"nl">>) \in Seq(D \cup {"nl"}) /\ Bare(Joined(texts, <<"nl">>))
         /\ Ended(texts) = Joined(texts, <<"nl">>) \o <<"nl">>
<1> DEFINE E == D \cup {"nl"}
           nl == <<"nl">>
           u == Joined(texts, nl)
<1>1. D \subseteq E /\ nl \in Seq(E)
  OBVIOUS
<1> HIDE DEF E
<1>2. BareOf(D) \subseteq Firm(E) /\ BareOf(D) \subseteq Seq(E)
  BY <1>1, SeqMonotonic DEF BareOf, Firm, Bare
<1>3. PICK front \in Seq(BareOf(D)), last \in BareOf(D) : texts = Append(front, last)
  BY LastApart
<1>4. front \in Seq(Firm(E)) /\ texts \in Seq(Seq(E))
  BY <1>2, SeqMonotonic
<1>5. last \in Seq(E) /\ Bare(last)
  BY <1>2 DEF BareOf
<1> HIDE DEF nl
<1>6. u \in Seq(E) /\ Bare(u)
  BY <1>1, <1>3, <1>4, <1>5, JoinedBare
<1>7. Ended(texts) = u \o nl
  <2> DEFINE e == <<>>
  <2>1. e \in Seq(E)
    OBVIOUS
  <2> HIDE DEF e
  <2>2. /\ texts = <<>> => Joined(Append(texts, e), nl) = e
        /\ texts # <<>> => Joined(Append(texts, e), nl) = Beside(Joined(texts, nl), nl, e)
    BY <1>1, <1>4, <2>1, JoinedMore
  <2>3. Ended(texts) = Beside(u, nl, e)
    BY <2>2 DEF Ended, nl, e
  <2> HIDE DEF u
  <2>4. Beside(u, nl, <<>>) = u \o nl
    BY <1>1, <1>6, EndsBare
  <2> QED
    BY <2>3, <2>4 DEF e
<1> QED
  BY <1>6, <1>7 DEF E, nl

(* Nothing splits into one empty line without fields. *)
LEMMA NothingSplits ==
  /\ Split(<<>>, "nl") = << <<>> >> /\ Fields(<<>>) = <<>>
<1>1. ASSUME NEW sep PROVE SplitN(<<>>, sep, -1) = << <<>> >>
  <2> DEFINE k == -1
  <2>1. k \in Int
    OBVIOUS
  <2> HIDE DEF k
  <2>2. SplitN(<<>>, sep, k) = << <<>> >>
    BY <2>1, SplitNone
  <2> QED
    BY <2>2 DEF k
<1>2. Split(<<>>, "nl") = << <<>> >> /\ Split(<<>>, " ") = << <<>> >>
  BY <1>1 DEF Split
<1>3. Spaced(<<>>) = <<>>
  BY DEF Spaced
<1>4. << <<>> >> = Append(<<>>, <<>>) /\ <<>> \in Seq({<<>>})
  OBVIOUS
<1>5. NonEmpty(Append(<<>>, <<>>)) = NonEmpty(<<>>)
  BY <1>4, NonEmptyMore
<1> QED
  BY <1>2, <1>3, <1>4, <1>5, NonEmptyNone DEF Fields

(* The lines of a section, whatever blanks are around it. *)
LEMMA SectionRead ==
  ASSUME NEW D, "nl" \notin D, NEW texts \in Seq(BareOf(D)), NEW b \in BOOLEAN
  PROVE  LET s == IF b THEN <<"nl">> \o Ended(texts) ELSE Ended(texts)
         IN Split(Trim(s), "nl") = IF texts = <<>> THEN << <<>> >> ELSE texts
<1> DEFINE nl == <<"nl">>
           u == Joined(texts, nl)
           E == D \cup Blank
<1>1. nl \in Seq(Blank)
  BY Single DEF Blank
<1>2. CASE texts = <<>>
  <2>1. Ended(texts) = <<>>
    <3> DEFINE e == <<>>
    <3>1. Joined(Append(e, e), nl) = e
      <4>1. e \in Seq(Seq({"nl"})) /\ nl \in Seq({"nl"}) /\ e \in Seq({"nl"}) /\ e = <<>>
        OBVIOUS
      <4> HIDE DEF e, nl
      <4>2. /\ e = <<>> => Joined(Append(e, e), nl) = e
            /\ e # <<>> => Joined(Append(e, e), nl) = Beside(Joined(e, nl), nl, e)
        <5>1. e \in Seq(Seq({"nl"})) /\ nl \in Seq({"nl"}) /\ e \in Seq({"nl"})
          BY <4>1
        <5> QED
          BY <5>1, JoinedMore
      <4> QED
        BY <4>1, <4>2
    <3> QED
      BY <1>2, <3>1 DEF Ended
  <2>2. nl \o <<>> = nl
    BY <1>1, ConcatEmptySeq
  <2>3. \A i \in DOMAIN nl : nl[i] \in Blank
    BY <1>1
  <2>4. Trim(nl) = <<>> /\ Trim(<<>>) = <<>>
    BY <2>3, TrimBlank
  <2> QED
    BY <1>2, <2>1, <2>2, <2>4, NothingSplits
<1>3. CASE texts # <<>>
  <2>1. u \in Seq(D \cup {"nl"}) /\ Bare(u) /\ Ended(texts) = u \o nl
    BY <1>3, EndedIs
  <2>2. u \in Seq(E) /\ Blank \subseteq E
    <3>1. D \cup {"nl"} \subseteq E
      BY DEF Blank
    <3> HIDE DEF u
    <3> QED
      BY <2>1, <3>1, SeqMonotonic DEF E
  <2>3. Split(u, "nl") = texts
    <3>1. BareOf(D) \subseteq Filled(D)
      BY DEF BareOf, Filled, Bare
    <3>2. texts \in Seq(Filled(D))
      BY <3>1, SeqMonotonic
    <3> QED
      BY <1>3, <3>2, LinesRead
  <2> HIDE DEF E, u, nl
  <2>4. Trim(u \o nl) = u
    BY <1>1, <2>1, <2>2, TrimEnd
  <2>5. nl \o (u \o nl) = Beside(nl, u, nl)
    <3>1. nl \in Seq(E)
      BY <1>1, <2>2, SeqMonotonic
    <3>2. (nl \o u) \o nl = nl \o (u \o nl)
      BY <2>2, <3>1, ConcatAssociative
    <3> QED
      BY <3>2 DEF Beside
  <2>6. Trim(Beside(nl, u, nl)) = u
    BY <1>1, <2>1, <2>2, TrimText
  <2>7. Trim(nl \o Ended(texts)) = u /\ Trim(Ended(texts)) = u
    BY <2>1, <2>4, <2>5, <2>6
  <2> QED
    BY <1>3, <2>3, <2>7 DEF nl
<1> QED
  BY <1>2, <1>3

LongEnough(lines, n) == [i \in DOMAIN lines |-> Len(Fields(lines[i])) >= n]

(* With its only place unmarked nothing is picked. *)
LEMMA NonePicked ==
  ASSUME NEW marks, marks = [i \in 1 .. 1 |-> FALSE], NEW s
  PROVE  Picked(s, marks) = <<>>
<1>1. marks \in Seq({FALSE})
  BY SeqIs
<1>2. Places(marks) = <<>>
  BY <1>1, PlacesNever
<1> QED
  BY <1>2 DEF Picked

(* The rows of a section have enough fields; the one empty line of a section
   without rows has not. *)
LEMMA SectionRows ==
  ASSUME NEW C, C \cap Blank = {}, NEW T, Worded(T, C), NEW table \in Seq(T),
         NEW n \in Nat \ {0}, \A r \in T : Len(r) >= n, NEW lines,
         lines = IF table = <<>> THEN << <<>> >> ELSE WordRows(table)
  PROVE  /\ Picked(lines, LongEnough(lines, n)) = WordRows(table)
         /\ Picked(Mapped(Fields, lines), LongEnough(lines, n)) = table
<1> DEFINE m == Len(table)
           D == C \cup {" "}
           marks == LongEnough(lines, n)
           fields == Mapped(Fields, lines)
<1>1. m \in Nat /\ DOMAIN table = 1 .. m /\ table = [i \in 1 .. m |-> table[i]]
      /\ \A i \in 1 .. m : table[i] \in T
  OBVIOUS
<1>2. /\ WordRows(table) \in Seq(BareOf(D)) /\ Len(WordRows(table)) = m
      /\ DOMAIN WordRows(table) = 1 .. m
      /\ \A i \in 1 .. m : Fields(WordRows(table)[i]) = table[i]
  BY WordsRead
<1>3. CASE table = <<>>
  <2>1. lines = << <<>> >> /\ DOMAIN lines = 1 .. 1 /\ lines[1] = <<>>
    BY <1>3
  <2>2. ~(Len(<<>>) >= n)
    OBVIOUS
  <2>3. \A i \in DOMAIN lines : ~(Len(Fields(lines[i])) >= n)
    <3>1. SUFFICES ASSUME NEW i \in 1 .. 1 PROVE ~(Len(Fields(lines[i])) >= n)
      BY <2>1
    <3>2. Fields(lines[i]) = <<>>
      <4>1. i = 1
        OBVIOUS
      <4> QED
        BY <2>1, <4>1, NothingSplits
    <3> QED
      BY <2>2, <3>2
  <2>4. marks = [i \in 1 .. 1 |-> FALSE]
    <3>1. \A i \in 1 .. 1 : (Len(Fields(lines[i])) >= n) = FALSE
      BY <2>1, <2>3
    <3> QED
      BY <2>1, <3>1 DEF LongEnough
  <2>5. WordRows(table) = <<>>
    <3>1. m = 0
      BY <1>3
    <3> QED
      BY <1>2, <3>1, EmptySeq
  <2>6. Picked(lines, marks) = <<>>
    <3> HIDE DEF marks
    <3> QED
      BY <2>4, NonePicked
  <2>7. Picked(fields, marks) = <<>>
    <3> HIDE DEF marks, fields
    <3> QED
      BY <2>4, NonePicked
  <2> QED
    BY <1>3, <2>5, <2>6, <2>7
<1>4. CASE table # <<>>
  <2>1. lines = WordRows(table)
    BY <1>4
  <2>2. lines \in Seq(BareOf(D)) /\ Len(lines) = m /\ DOMAIN lines = 1 .. m
        /\ \A i \in 1 .. m : Fields(lines[i]) = table[i]
    BY <1>2, <2>1
  <2> HIDE DEF D, m
  <2>3. marks = [i \in 1 .. m |-> marks[i]] /\ \A i \in 1 .. m : marks[i] \in BOOLEAN /\ marks[i]
    <3>1. marks = [i \in 1 .. m |-> Len(Fields(lines[i])) >= n]
      BY <2>2 DEF LongEnough
    <3>2. \A i \in 1 .. m : Len(Fields(lines[i])) >= n
      BY <1>1, <2>2
    <3> HIDE DEF marks
    <3>3. \A i \in 1 .. m : marks[i] = (Len(Fields(lines[i])) >= n)
      BY <3>1
    <3>4. \A i \in 1 .. m : marks[i] \in BOOLEAN /\ marks[i]
      BY <3>2, <3>3
    <3>5. marks = [i \in 1 .. m |-> marks[i]]
      BY <3>1
    <3> QED
      BY <3>4, <3>5
  <2> HIDE DEF marks
  <2>4. marks \in Seq(BOOLEAN) /\ Len(marks) = m
    BY <1>1, <2>3, SeqIs
  <2>5. Picked(lines, marks) = lines
    BY <2>2, <2>3, <2>4, PickedAll
  <2>6. fields = table
    BY <1>1, <2>2 DEF Mapped
  <2>7. Picked(table, marks) = table
    <3>1. Len(table) = m
      BY DEF m
    <3> QED
      BY <2>3, <2>4, <3>1, PickedAll
  <2> QED
    BY <2>1, <2>5, <2>6, <2>7 DEF marks
<1> QED
  BY <1>3, <1>4 DEF marks, fields

(* The lines of a section are its printed rows, or one empty line. *)
LEMMA SectionLines ==
  ASSUME NEW C, C \cap Blank = {}, NEW T, Worded(T, C), NEW table \in Seq(T), NEW b \in BOOLEAN
  PROVE  LET s == IF b THEN <<"nl">> \o Printed(table, " ") ELSE Printed(table, " ")
         IN Split(Trim(s), "nl") = IF table = <<>> THEN << <<>> >> ELSE WordRows(table)
<1> DEFINE D == C \cup {" "}
           texts == WordRows(table)
<1>1. /\ Printed(table, " ") = Ended(texts) /\ texts \in Seq(BareOf(D)) /\ Len(texts) = Len(table)
  BY WordsRead
<1>2. "nl" \notin D
  BY DEF Blank
<1>3. table = <<>> <=> texts = <<>>
  BY <1>1, EmptySeq
<1> HIDE DEF texts, D
<1> DEFINE s == IF b THEN <<"nl">> \o Ended(texts) ELSE Ended(texts)
<1>4. Split(Trim(s), "nl") = IF texts = <<>> THEN << <<>> >> ELSE texts
  BY <1>1, <1>2, SectionRead
<1> HIDE DEF s
<1>5. Split(Trim(s), "nl") = IF table = <<>> THEN << <<>> >> ELSE texts
  BY <1>3, <1>4
<1> QED
  BY <1>1, <1>5 DEF s, texts

LinkChars == Glyphs \cup {"1:", "inet", "scope", ":", "<", ">", "UP", "@"}

(* What ip prints holds neither blanks inside of a field nor the mark between the
   sections. *)
LEMMA LinkCharsApart ==
  LinkChars \cap Blank = {} /\ "---" \notin LinkChars \cup {" ", "nl"}
<1>1. "---" \notin Glyphs
  BY ListingsAssumption DEF Marking
<1>2. LinkChars \cap Blank = {}
  BY GlyphsApart DEF LinkChars, Blank
<1>3. "---" \notin LinkChars \cup {" ", "nl"}
  BY <1>1 DEF LinkChars
<1> QED
  BY <1>1, <1>2, <1>3

(* A word is a field. *)
LEMMA LinkWord ==
  ASSUME NEW w \in Words
  PROVE  w \in Filled(LinkChars) /\ w \in Seq(Glyphs) /\ w # <<>>
<1>1. w \in Seq(Glyphs) /\ w # <<>>
  BY WordIs
<1>2. Glyphs \subseteq LinkChars
  BY DEF LinkChars
<1>3. w \in Seq(LinkChars)
  BY <1>1, <1>2, SeqMonotonic
<1> QED
  BY <1>1, <1>3 DEF Filled

AddressRows == {AddressRow(a) : a \in NetAddress}
LinkRows == {LinkRow(l) : l \in NetLink}

(* The row of an address has its name second and the address fourth. *)
LEMMA AddressRowIs ==
  ASSUME NEW a \in NetAddress
  PROVE  /\ AddressRow(a) \in Seq(Filled(LinkChars)) /\ AddressRow(a) # <<>> /\ Len(AddressRow(a)) = 5
         /\ AddressRow(a)[2] = a.name /\ AddressRow(a)[4] = a.addr
<1> DEFINE F == Filled(LinkChars)
           x == <<"1:">>
           y == <<"inet">>
           z == <<"scope">>
           p == a.name
           q == a.addr
<1>1. x \in F /\ y \in F /\ z \in F
  BY DEF LinkChars, Filled
<1>2. p \in F /\ q \in F
  BY LinkWord DEF NetAddress
<1>3. AddressRow(a) = <<x, p, y, q, z>>
  BY DEF AddressRow
<1> HIDE DEF F, x, y, z, p, q
<1>4. <<x, p, y, q, z>> \in Seq(F) /\ <<x, p, y, q, z>> # <<>> /\ Len(<<x, p, y, q, z>>) = 5
  BY <1>1, <1>2
<1>5. <<x, p, y, q, z>>[2] = p /\ <<x, p, y, q, z>>[4] = q
  OBVIOUS
<1> QED
  BY <1>3, <1>4, <1>5 DEF F, p, q

(* The parts of a link. *)
LEMMA OnIs ==
  ASSUME NEW l \in NetLink
  PROVE  l.name \in Words /\ l.up \in BOOLEAN /\ l.on \in Seq(Glyphs \cup {"@"})
<1> DEFINE S == Glyphs \cup {"@"}
           at == <<"@">>
<1>1. l.name \in Words /\ l.up \in BOOLEAN /\ (l.on = <<>> \/ \E w \in Words : l.on = at \o w)
  BY DEF NetLink
<1>2. at \in Seq(S)
  OBVIOUS
<1>3. CASE l.on = <<>>
  BY <1>1, <1>3
<1>4. CASE \E w \in Words : l.on = at \o w
  <2>1. PICK w \in Words : l.on = at \o w
    BY <1>4
  <2>2. w \in Seq(S)
    <3>1. w \in Seq(Glyphs) /\ Glyphs \subseteq S
      BY LinkWord
    <3> HIDE DEF S
    <3> QED
      BY <3>1, SeqMonotonic
  <2> HIDE DEF S, at
  <2>3. at \o w \in Seq(S)
    BY <1>2, <2>2, ConcatProperties
  <2> QED
    BY <1>1, <2>1, <2>3 DEF S
<1> QED
  BY <1>1, <1>3, <1>4

NameOf(l) == l.name \o l.on

(* The row of a link: its name is what stands before the colon, and it says UP
   when the link is up, and only then unless the name does. *)
LEMMA LinkRowIs ==
  ASSUME NEW l \in NetLink
  PROVE  /\ LinkRow(l) \in Seq(Filled(LinkChars)) /\ LinkRow(l) # <<>> /\ Len(LinkRow(l)) = 3
         /\ TrimSuffix(LinkRow(l)[2], ":") = NameOf(l)
         /\ l.up => "UP" \in ToSet(Joined(LinkRow(l), <<" ">>))
         /\ "UP" \in ToSet(Joined(LinkRow(l), <<" ">>)) /\ "UP" \notin ToSet(NameOf(l)) => l.up
<1> DEFINE S == Glyphs \cup {"@"}
           F == Filled(LinkChars)
           k == NameOf(l)
           x == <<"1:">>
           e == <<":">>
           q == k \o e
           z == IF l.up THEN <<"<", "UP", ">">> ELSE <<"<", ">">>
           sep == <<" ">>
<1>1. l.name \in Seq(S) /\ l.on \in Seq(S) /\ l.name # <<>> /\ l.up \in BOOLEAN
  <2>1. l.name \in Words
    BY OnIs
  <2>2. l.name \in Seq(Glyphs) /\ Glyphs \subseteq S
    BY <2>1, LinkWord
  <2>3. l.name # <<>>
    BY <2>1, LinkWord
  <2> HIDE DEF S
  <2>4. l.name \in Seq(S)
    BY <2>2, SeqMonotonic
  <2> QED
    BY <2>3, <2>4, OnIs DEF S
<1>2. k \in Seq(S)
  BY <1>1, ConcatProperties DEF NameOf
<1>3. LinkRow(l) = <<x, q, z>>
  BY DEF LinkRow, NameOf
<1> DEFINE B == Glyphs \cup {"1:", "@", ":", "<", ">", " ", "UP"}
<1>4. x \in Seq(B) /\ e \in Seq(B) /\ sep \in Seq(B) /\ S \subseteq B
  <2>1. "1:" \in B /\ ":" \in B /\ " " \in B /\ S \subseteq B
    OBVIOUS
  <2> HIDE DEF B
  <2> QED
    BY <2>1, Single
<1> HIDE DEF S, k
<1>5. q \in Seq(B) /\ q # <<>> /\ q \in Seq(LinkChars)
  <2>1. k \in Seq(B)
    <3> HIDE DEF B
    <3> QED
      BY <1>2, <1>4, SeqMonotonic
  <2>2. S \subseteq LinkChars /\ e \in Seq(LinkChars)
    BY DEF S, LinkChars
  <2>3. k \in Seq(LinkChars)
    BY <1>2, <2>2, SeqMonotonic
  <2>4. Len(e) = 1
    OBVIOUS
  <2> HIDE DEF e, B
  <2>5. q \in Seq(LinkChars) /\ Len(q) = Len(k) + Len(e) /\ Len(k) \in Nat
    BY <2>2, <2>3, ConcatProperties
  <2>6. q \in Seq(B)
    BY <1>4, <2>1, ConcatProperties
  <2> HIDE DEF q
  <2>7. Len(q) # 0
    BY <2>4, <2>5
  <2> QED
    BY <2>5, <2>6, <2>7, EmptySeq
<1>6. TrimSuffix(q, ":") = k
  <2>1. k \in Seq(S \cup {":"})
    <3>1. S \subseteq S \cup {":"}
      OBVIOUS
    <3> QED
      BY <1>2, <3>1, SeqMonotonic
  <2> DEFINE G == S \cup {":"}
  <2>2. ":" \in G /\ k \in Seq(G)
    BY <2>1
  <2> HIDE DEF G
  <2> QED
    BY <2>2, SuffixTrims
<1>7. x \in F /\ q \in F /\ z \in F
  <2>1. x \in F
    BY DEF Filled, LinkChars
  <2>2. q \in F
    <3> HIDE DEF q
    <3> QED
      BY <1>5 DEF Filled
  <2>3. z \in F
    BY <1>1 DEF Filled, LinkChars
  <2> QED
    BY <2>1, <2>2, <2>3
<1>8. <<x, q, z>> \in Seq(F) /\ <<x, q, z>> # <<>> /\ Len(<<x, q, z>>) = 3 /\ <<x, q, z>>[2] = q
  <2> HIDE DEF F, x, q, z
  <2> QED
    BY <1>7
<1>9. /\ l.up => "UP" \in ToSet(Joined(<<x, q, z>>, sep))
      /\ "UP" \in ToSet(Joined(<<x, q, z>>, sep)) /\ "UP" \notin ToSet(k) => l.up
  <2> DEFINE j2 == Joined(<<x, q>>, sep)
             j3 == Joined(<<x, q, z>>, sep)
             A == B \ {"UP"}
  <2>1. z \in Seq(B) /\ (l.up => Len(z) = 3 /\ z[2] = "UP") /\ (~l.up => z \in Seq(A))
    <3> DEFINE t == <<"<", "UP", ">">>
               f == <<"<", ">">>
    <3>a. z = IF l.up THEN t ELSE f
      OBVIOUS
    <3>b. "<" \in B /\ ">" \in B /\ "<" \in A /\ ">" \in A /\ "UP" \in B
      OBVIOUS
    <3> HIDE DEF A, B, z
    <3>1. t \in Seq(B) /\ Len(t) = 3 /\ t[2] = "UP"
      BY <3>b
    <3>2. f \in Seq(A) /\ f \in Seq(B)
      BY <3>b
    <3> HIDE DEF t, f
    <3> QED
      BY <3>a, <3>1, <3>2
  <2>2. A \subseteq B /\ "UP" \notin A /\ "1:" \in A /\ ":" \in A /\ " " \in A
    OBVIOUS
  <2>3. x \in Seq(A) /\ e \in Seq(A) /\ sep \in Seq(A)
    <3> HIDE DEF A
    <3> QED
      BY <2>2, Single
  <2>4. k \in Seq(B)
    <3> HIDE DEF B
    <3> QED
      BY <1>2, <1>4, SeqMonotonic
  <2>5. ASSUME "UP" \notin ToSet(k) PROVE q \in Seq(A)
    <3> HIDE DEF B, e, x, z, sep
    <3>1. Len(k) \in Nat /\ k \in [1 .. Len(k) -> B] /\ \A i \in 1 .. Len(k) : k[i] # "UP"
      BY <2>4, <2>5 DEF ToSet
    <3>2. k \in [1 .. Len(k) -> A]
      BY <3>1 DEF A
    <3> HIDE DEF A
    <3>3. k \in Seq(A)
      BY <3>1, <3>2
    <3> QED
      BY <2>3, <3>3, ConcatProperties
  <2>6. \A D : x \in Seq(D) /\ q \in Seq(D) /\ sep \in Seq(D) /\ z \in Seq(D) =>
            (j2 \o sep) \in Seq(D) /\ j3 = (j2 \o sep) \o z /\ j3 \in Seq(D)
    <3> HIDE DEF A, B, x, q, z, sep, S, e
    <3> SUFFICES ASSUME NEW D, x \in Seq(D), q \in Seq(D), sep \in Seq(D), z \in Seq(D)
                 PROVE  (j2 \o sep) \in Seq(D) /\ j3 = (j2 \o sep) \o z /\ j3 \in Seq(D)
      OBVIOUS
    <3>1. j2 = (x \o sep) \o q
      BY JoinedTwo DEF Beside
    <3>2. j3 = (j2 \o sep) \o z
      <4>1. j3 = Beside(j2, sep, z)
        BY JoinedThree
      <4> HIDE DEF j2, j3
      <4> QED
        BY <4>1 DEF Beside
    <3> HIDE DEF j2, j3
    <3>3. x \o sep \in Seq(D)
      BY ConcatProperties
    <3> DEFINE y == x \o sep
    <3>4. y \in Seq(D) /\ j2 = y \o q
      BY <3>1, <3>3
    <3> HIDE DEF y
    <3>5. j2 \in Seq(D)
      BY <3>4, ConcatProperties
    <3>6. j2 \o sep \in Seq(D)
      BY <3>5, ConcatProperties
    <3> DEFINE v == j2 \o sep
    <3>7. v \in Seq(D) /\ j3 = v \o z
      BY <3>2, <3>6
    <3> HIDE DEF v
    <3>8. j3 \in Seq(D)
      BY <3>7, ConcatProperties
    <3> QED
      BY <3>2, <3>6, <3>8
  <2> DEFINE y == j2 \o sep
  <2> HIDE DEF A, B, x, q, z, sep, S, e
  <2>7. y \in Seq(B) /\ j3 = y \o z
    <3>1. x \in Seq(B) /\ q \in Seq(B) /\ sep \in Seq(B) /\ z \in Seq(B)
      BY <1>4, <1>5, <2>1
    <3> QED
      BY <2>6, <3>1
  <2> HIDE DEF y, j2
  <2>9. ASSUME l.up PROVE "UP" \in ToSet(j3)
    <3> DEFINE v == y \o z
               i == Len(y) + 2
    <3>1. v \in Seq(B) /\ Len(v) = Len(y) + Len(z) /\ Len(y) \in Nat
      BY <2>1, <2>7, ConcatProperties
    <3>2. \A n \in 1 .. Len(y) + Len(z) : v[n] = IF n <= Len(y) THEN y[n] ELSE z[n - Len(y)]
      BY <2>1, <2>7, ConcatProperties
    <3>3. j3 = v
      BY <2>7
    <3> HIDE DEF v, j3
    <3>a. Len(z) = 3
      BY <2>1, <2>9
    <3>b. \A m \in Nat, n \in Nat : n = 3 => m + 2 \in 1 .. m + n /\ ~(m + 2 <= m) /\ (m + 2) - m = 2
      OBVIOUS
    <3>4. i \in 1 .. Len(y) + Len(z) /\ ~(i <= Len(y)) /\ i - Len(y) = 2
      BY <3>1, <3>a, <3>b
    <3>5. v[i] = "UP" /\ i \in DOMAIN v
      BY <2>1, <2>9, <3>1, <3>2, <3>4
    <3> QED
      BY <3>3, <3>5 DEF ToSet
  <2>10. ASSUME ~l.up, "UP" \notin ToSet(k) PROVE "UP" \notin ToSet(j3)
    <3>1. j3 \in Seq(A)
      BY <2>1, <2>3, <2>5, <2>6, <2>10
    <3> HIDE DEF j3
    <3>2. \A i \in DOMAIN j3 : j3[i] \in A
      BY <3>1, ElementOfSeq
    <3>3. ToSet(j3) \subseteq A
      BY <3>2 DEF ToSet
    <3> QED
      BY <2>2, <3>3
  <2> QED
    BY <1>1, <2>9, <2>10 DEF j3
<1> QED
  BY <1>3, <1>6, <1>8, <1>9 DEF F, k

(* The printed name of a link that hangs on no other is its own. *)
LEMMA NameIs ==
  ASSUME NEW l \in NetLink, l.on = <<>>
  PROVE  NameOf(l) = l.name
<1>1. l.name \in Seq(Glyphs)
  BY OnIs, LinkWord
<1> QED
  BY <1>1, ConcatEmptySeq DEF NameOf

Named(addrs, label) == [k \in DOMAIN addrs |-> addrs[k].name = label]

(* The addresses found under a name are those with that name, in order. *)
LEMMA AddressesRead ==
  ASSUME NEW addrs \in Seq(NetAddress), NEW label
  PROVE  AddressesOf(Mapped(AddressRow, addrs), label) =
            Mapped(LAMBDA a : a.addr, Picked(addrs, Named(addrs, label)))
<1> DEFINE n == Len(addrs)
           texts == Mapped(AddressRow, addrs)
           marks == Named(addrs, label)
           other == [i \in DOMAIN texts |-> texts[i][2] = label]
           p == Places(marks)
<1>1. n \in Nat /\ DOMAIN addrs = 1 .. n /\ \A i \in 1 .. n : addrs[i] \in NetAddress
  OBVIOUS
<1>2. DOMAIN texts = 1 .. n /\ \A i \in 1 .. n : texts[i] = AddressRow(addrs[i])
  BY <1>1 DEF Mapped
<1>3. \A i \in 1 .. n : texts[i][2] = addrs[i].name /\ texts[i][4] = addrs[i].addr
                        /\ addrs[i].name \in Words
  <2>1. SUFFICES ASSUME NEW i \in 1 .. n
                 PROVE  texts[i][2] = addrs[i].name /\ texts[i][4] = addrs[i].addr
                        /\ addrs[i].name \in Words
    OBVIOUS
  <2> DEFINE a == addrs[i]
  <2>2. a \in NetAddress /\ texts[i] = AddressRow(a)
    BY <1>1, <1>2
  <2> HIDE DEF a, texts
  <2>3. a.name \in Words
    BY <2>2 DEF NetAddress
  <2> QED
    BY <2>2, <2>3, AddressRowIs DEF a
<1> HIDE DEF texts, n
<1>4. other = marks
  BY <1>1, <1>2, <1>3 DEF Named
<1>5. marks = [i \in 1 .. n |-> marks[i]] /\ \A i \in 1 .. n : marks[i] = (addrs[i].name = label)
  BY <1>1 DEF Named
<1> HIDE DEF marks
<1>6. marks \in Seq(BOOLEAN) /\ Len(marks) = n
  <2>1. \A i \in 1 .. n : marks[i] \in BOOLEAN
    BY <1>5
  <2> QED
    BY <1>1, <1>5, <2>1, SeqIs
<1>7. p \in Seq(Nat) /\ \A k \in 1 .. Len(p) : p[k] \in 1 .. n
  BY <1>6, PlacesTyped
<1> HIDE DEF p
<1>8. Picked(texts, marks) = [k \in DOMAIN p |-> texts[p[k]]]
      /\ Picked(addrs, marks) = [k \in DOMAIN p |-> addrs[p[k]]]
  BY DEF Picked, p
<1>9. AddressesOf(texts, label) = [k \in DOMAIN p |-> texts[p[k]][4]]
  <2>1. AddressesOf(texts, label) = Mapped(LAMBDA f : f[4], Picked(texts, marks))
    BY <1>4 DEF AddressesOf
  <2>2. Mapped(LAMBDA f : f[4], Picked(texts, marks)) = [k \in DOMAIN p |-> texts[p[k]][4]]
    BY <1>8 DEF Mapped
  <2> QED
    BY <2>1, <2>2
<1>10. Mapped(LAMBDA a : a.addr, Picked(addrs, marks)) = [k \in DOMAIN p |-> addrs[p[k]].addr]
  BY <1>8 DEF Mapped
<1>11. \A k \in DOMAIN p : texts[p[k]][4] = addrs[p[k]].addr
  BY <1>3, <1>7
<1>12. AddressesOf(texts, label) = Mapped(LAMBDA a : a.addr, Picked(addrs, marks))
  BY <1>9, <1>10, <1>11
<1> QED
  BY <1>12 DEF texts, marks

(* Both sections are tables of rows with enough fields. *)
LEMMA TablesAre ==
  ASSUME NEW addrs \in Seq(NetAddress), NEW links \in Seq(NetLink)
  PROVE  /\ Worded(AddressRows, LinkChars) /\ Worded(LinkRows, LinkChars)
         /\ (\A r \in AddressRows : Len(r) >= 4) /\ (\A r \in LinkRows : Len(r) >= 3)
         /\ Mapped(AddressRow, addrs) \in Seq(AddressRows)
         /\ Mapped(LinkRow, links) \in Seq(LinkRows) /\ Len(Mapped(LinkRow, links)) = Len(links)
         /\ \A i \in 1 .. Len(links) : Mapped(LinkRow, links)[i] = LinkRow(links[i])
<1>1. Worded(AddressRows, LinkChars) /\ \A r \in AddressRows : Len(r) >= 4
  <2>1. SUFFICES ASSUME NEW r \in AddressRows
                 PROVE  r \in Seq(Filled(LinkChars)) /\ r # <<>> /\ Len(r) >= 4
    BY DEF Worded
  <2>2. PICK a \in NetAddress : r = AddressRow(a)
    BY DEF AddressRows
  <2>3. 5 >= 4
    OBVIOUS
  <2> QED
    BY <2>2, <2>3, AddressRowIs
<1>2. Worded(LinkRows, LinkChars) /\ \A r \in LinkRows : Len(r) >= 3
  <2>1. SUFFICES ASSUME NEW r \in LinkRows
                 PROVE  r \in Seq(Filled(LinkChars)) /\ r # <<>> /\ Len(r) >= 3
    BY DEF Worded
  <2>2. PICK l \in NetLink : r = LinkRow(l)
    BY DEF LinkRows
  <2>3. 3 >= 3
    OBVIOUS
  <2> QED
    BY <2>2, <2>3, LinkRowIs
<1>3. Mapped(AddressRow, addrs) \in Seq(AddressRows)
  <2> DEFINE n == Len(addrs)
             t == Mapped(AddressRow, addrs)
  <2>1. n \in Nat /\ DOMAIN addrs = 1 .. n /\ \A i \in 1 .. n : addrs[i] \in NetAddress
    OBVIOUS
  <2>2. t = [i \in 1 .. n |-> t[i]] /\ \A i \in 1 .. n : t[i] = AddressRow(addrs[i])
    BY <2>1 DEF Mapped
  <2>3. \A i \in 1 .. n : t[i] \in AddressRows
    BY <2>1, <2>2 DEF AddressRows
  <2> HIDE DEF t, n
  <2> QED
    BY <2>1, <2>2, <2>3, SeqIs DEF t
<1>4. /\ Mapped(LinkRow, links) \in Seq(LinkRows) /\ Len(Mapped(LinkRow, links)) = Len(links)
      /\ \A i \in 1 .. Len(links) : Mapped(LinkRow, links)[i] = LinkRow(links[i])
  <2> DEFINE n == Len(links)
             t == Mapped(LinkRow, links)
  <2>1. n \in Nat /\ DOMAIN links = 1 .. n /\ \A i \in 1 .. n : links[i] \in NetLink
    OBVIOUS
  <2>2. t = [i \in 1 .. n |-> t[i]] /\ \A i \in 1 .. n : t[i] = LinkRow(links[i])
    BY <2>1 DEF Mapped
  <2>3. \A i \in 1 .. n : t[i] \in LinkRows
    BY <2>1, <2>2 DEF LinkRows
  <2> HIDE DEF t, n
  <2>4. t \in Seq(LinkRows) /\ Len(t) = n
    BY <2>1, <2>2, <2>3, SeqIs
  <2> QED
    BY <2>2, <2>4 DEF t, n
<1> QED
  BY <1>1, <1>2, <1>3, <1>4

(* What a table is printed of. *)
LEMMA PrintedTyped ==
  ASSUME NEW C, C \cap Blank = {}, NEW T, Worded(T, C), NEW table \in Seq(T)
  PROVE  Printed(table, " ") \in Seq(C \cup {" ", "nl"})
<1> DEFINE D == C \cup {" "}
           E == C \cup {" ", "nl"}
           texts == WordRows(table)
           all == Append(texts, <<>>)
           nl == <<"nl">>
<1>1. Printed(table, " ") = Ended(texts) /\ texts \in Seq(BareOf(D))
  BY WordsRead
<1>2. D \subseteq E /\ "nl" \in E
  OBVIOUS
<1> HIDE DEF E, texts
<1>3. BareOf(D) \subseteq Seq(E)
  <2> HIDE DEF D
  <2> QED
    BY <1>2, SeqMonotonic DEF BareOf
<1>4. texts \in Seq(Seq(E)) /\ <<>> \in Seq(E) /\ nl \in Seq(E)
  <2>1. nl \in Seq(E)
    BY <1>2, Single
  <2> HIDE DEF D, nl
  <2>2. texts \in Seq(BareOf(D))
    BY <1>1
  <2>3. texts \in Seq(Seq(E))
    BY <1>3, <2>2, SeqMonotonic
  <2> QED
    BY <2>1, <2>3
<1>5. all \in Seq(Seq(E))
  BY <1>4, AppendProperties
<1> HIDE DEF all, nl
<1>6. Joined(all, nl) \in Seq(E)
  BY <1>4, <1>5, JoinedTyped
<1> QED
  BY <1>1, <1>6 DEF Ended, all, nl, E

(* The echoed mark parts what the two commands print. *)
LEMMA SectionsApart ==
  ASSUME NEW E, "---" \notin E, "nl" \in E, NEW a \in Seq(E), NEW b \in Seq(E)
  PROVE  SplitN(a \o <<"---", "nl">> \o b, "---", 2) = <<a, <<"nl">> \o b>>
<1> DEFINE sep == "---"
           d == <<sep>>
           nl == <<"nl">>
           c == nl \o b
           G == E \cup {sep}
           parts == <<a, c>>
<1>1. sep \notin E /\ E \subseteq G /\ sep \in G /\ "nl" \in G
  OBVIOUS
<1>2. <<sep, "nl">> = d \o nl
  <2>1. d \in Seq(G) /\ "nl" \in G /\ sep \in G
    BY <1>1, Single
  <2> DEFINE x == sep
             z == "nl"
  <2>2. x \in G /\ z \in G /\ d = <<x>>
    BY <2>1
  <2> HIDE DEF d, G, x, z
  <2>3. Append(<<x>>, z) = <<x, z>>
    BY <2>2, TwoIs
  <2>4. Append(d, z) = d \o <<z>>
    BY <2>1, <2>2, AppendIsConcat
  <2>5. <<x, z>> = d \o <<z>>
    BY <2>2, <2>3, <2>4
  <2> QED
    BY <2>5 DEF x, z
<1> HIDE DEF sep, G
<1>3. nl \in Seq(E) /\ nl \in Seq(G) /\ d \in Seq(G) /\ a \in Seq(G) /\ b \in Seq(G)
  BY <1>1, Single, SeqMonotonic
<1> HIDE DEF d, nl
<1>4. c \in Seq(E) /\ c \in Seq(G)
  BY <1>3, ConcatProperties
<1>5. (a \o (d \o nl)) \o b = Beside(a, d, c)
  <2> DEFINE y == a \o d
  <2>1. a \o (d \o nl) = y \o nl
    <3> HIDE DEF c, parts
    <3>1. a \in Seq(G) /\ d \in Seq(G) /\ nl \in Seq(G)
      BY <1>3
    <3> QED
      BY ONLY <3>1, ConcatAssociative
  <2>2. y \in Seq(G)
    BY <1>3, ConcatProperties
  <2>3. Beside(a, d, c) = y \o (nl \o b)
    BY DEF Beside
  <2> HIDE DEF y
  <2>4. (y \o nl) \o b = y \o (nl \o b)
    BY <1>3, <2>2, ConcatAssociative
  <2> QED
    BY <2>1, <2>3, <2>4
<1>6. Joined(parts, d) = Beside(a, d, c)
  <2> HIDE DEF c
  <2> QED
    BY <1>3, <1>4, JoinedTwo
<1>7. parts \in Seq(Seq(E)) /\ parts # <<>> /\ Len(parts) <= 2
  <2> HIDE DEF c
  <2> QED
    BY <1>4
<1> HIDE DEF parts
<1>8. SplitN(Joined(parts, <<sep>>), sep, 2) = parts
  <2> DEFINE n == 2
  <2>1. n \in Int /\ Len(parts) <= n
    BY <1>7
  <2> HIDE DEF n
  <2>2. SplitN(Joined(parts, <<sep>>), sep, n) = parts
    BY <1>1, <1>7, <2>1, SplitJoined
  <2> QED
    BY <2>2 DEF n
<1>9. (a \o <<"---", "nl">>) \o b = Joined(parts, <<sep>>)
  BY <1>2, <1>5, <1>6 DEF d, sep
<1> QED
  BY <1>8, <1>9 DEF parts, c, sep, nl

(* The rows of a section read back as fields. *)
LEMMA FieldRowsRead ==
  ASSUME NEW C, C \cap Blank = {}, NEW T, Worded(T, C), NEW table \in Seq(T),
         NEW n \in Nat \ {0}, \A r \in T : Len(r) >= n
  PROVE  FieldRows(Printed(table, " "), n) = table
<1> DEFINE s == Printed(table, " ")
           lines == Split(Trim(s), "nl")
           texts == Mapped(Fields, lines)
           long == [i \in DOMAIN texts |-> Len(texts[i]) >= n]
           marks == LongEnough(lines, n)
<1>1. lines = IF table = <<>> THEN << <<>> >> ELSE WordRows(table)
  <2> DEFINE b == FALSE
             z == IF b THEN <<"nl">> \o s ELSE s
  <2>1. b \in BOOLEAN /\ z = s
    OBVIOUS
  <2> HIDE DEF b
  <2>2. Split(Trim(z), "nl") = IF table = <<>> THEN << <<>> >> ELSE WordRows(table)
    BY <2>1, SectionLines
  <2> HIDE DEF z, s
  <2> QED
    BY <2>1, <2>2
<1>2. FieldRows(s, n) = Picked(texts, long)
  BY DEF FieldRows
<1> HIDE DEF s, lines
<1>3. DOMAIN texts = DOMAIN lines /\ \A i \in DOMAIN lines : texts[i] = Fields(lines[i])
  BY DEF Mapped
<1>4. long = marks
  <2> HIDE DEF texts
  <2> QED
    BY <1>3 DEF LongEnough
<1>5. Picked(texts, marks) = table
  <2> HIDE DEF long, marks
  <2> QED
    BY <1>1, SectionRows DEF marks
<1> HIDE DEF texts, long, marks
<1> QED
  BY <1>2, <1>4, <1>5 DEF s

(* One interface, of the line of its link and the rows of the addresses. *)
Linked(line, texts) ==
    [name |-> TrimSuffix(Fields(line)[2], ":"), up |-> "UP" \in ToSet(line),
     addrs |-> AddressesOf(texts, TrimSuffix(Fields(line)[2], ":"))]

LongLines(section, n) ==
    Picked(Split(Trim(section), "nl"), LongEnough(Split(Trim(section), "nl"), n))

(* The interfaces are read of the lines of one section and the rows of the other. *)
LEMMA InterfacesAre ==
  ASSUME NEW out, NEW a, NEW b, SplitN(out, "---", 2) = <<a, b>>
  PROVE  InterfacesOf(out) =
            [i \in DOMAIN LongLines(b, 3) |-> Linked(LongLines(b, 3)[i], FieldRows(a, 4))]
<1> DEFINE sections == <<a, b>>
<1>1. sections[1] = a /\ Column(sections, 2) = b
  <2>1. DOMAIN sections = 1 .. 2 /\ 2 \in 1 .. 2 /\ sections[2] = b /\ sections[1] = a
    OBVIOUS
  <2> HIDE DEF sections
  <2> QED
    BY <2>1 DEF Column
<1>2. SplitN(out, "---", 2) = sections
  OBVIOUS
<1> HIDE DEF sections
<1> QED
  BY <1>1, <1>2 DEF InterfacesOf, Mapped, LongLines, LongEnough, Linked

(* The lines of a section read back. *)
LEMMA LongLinesRead ==
  ASSUME NEW C, C \cap Blank = {}, NEW T, Worded(T, C), NEW table \in Seq(T),
         NEW n \in Nat \ {0}, \A r \in T : Len(r) >= n
  PROVE  LongLines(<<"nl">> \o Printed(table, " "), n) = WordRows(table)
<1> DEFINE s == <<"nl">> \o Printed(table, " ")
           lines == Split(Trim(s), "nl")
<1>1. lines = IF table = <<>> THEN << <<>> >> ELSE WordRows(table)
  <2> DEFINE b == TRUE
             z == IF b THEN s ELSE Printed(table, " ")
  <2>1. b \in BOOLEAN /\ z = s
    OBVIOUS
  <2> HIDE DEF b
  <2>2. Split(Trim(z), "nl") = IF table = <<>> THEN << <<>> >> ELSE WordRows(table)
    BY <2>1, SectionLines
  <2> HIDE DEF z, s
  <2> QED
    BY <2>1, <2>2
<1>2. LongLines(s, n) = Picked(lines, LongEnough(lines, n))
  BY DEF LongLines
<1> HIDE DEF s, lines
<1>3. Picked(lines, LongEnough(lines, n)) = WordRows(table)
  BY <1>1, SectionRows
<1> QED
  BY <1>2, <1>3 DEF s

(* What is said of one interface. *)
Met(read, l, addrs) ==
    /\ read.name = l.name \o l.on
    /\ l.up => read.up
    /\ read.up /\ "UP" \notin ToSet(l.name \o l.on) => l.up
    /\ l.on = <<>> => read.addrs = OwnAddresses(l, addrs)

(* What is read of one link is what was printed of it. *)
LEMMA LinkMet ==
  ASSUME NEW addrs \in Seq(NetAddress), NEW l \in NetLink, NEW line,
         line = Joined(LinkRow(l), <<" ">>), Fields(line) = LinkRow(l)
  PROVE  Met(Linked(line, Mapped(AddressRow, addrs)), l, addrs)
<1> DEFINE texts == Mapped(AddressRow, addrs)
           label == NameOf(l)
           up == "UP" \in ToSet(line)
           x == AddressesOf(texts, label)
           read == Linked(line, texts)
<1>1. TrimSuffix(Fields(line)[2], ":") = label
  BY LinkRowIs
<1>2. read = [name |-> label, up |-> up, addrs |-> x]
  BY <1>1 DEF Linked
<1>3. (l.up => up) /\ (up /\ "UP" \notin ToSet(label) => l.up)
  BY LinkRowIs
<1>4. x = Mapped(LAMBDA a : a.addr, Picked(addrs, Named(addrs, label)))
  BY AddressesRead
<1>5. ASSUME l.on = <<>> PROVE x = OwnAddresses(l, addrs)
  <2>1. label = l.name
    BY <1>5, NameIs
  <2> HIDE DEF x, label
  <2> QED
    BY <1>4, <2>1 DEF OwnAddresses, Named
<1> HIDE DEF x, up, read, label
<1>6. read.name = label /\ read.up = up /\ read.addrs = x
  BY <1>2
<1>7. label = l.name \o l.on
  BY DEF NameOf, label
<1> QED
  BY <1>3, <1>5, <1>6, <1>7 DEF Met, read

(* Any number of links and addresses read back (Interfaces). *)
LEMMA InterfacesReadBack ==
  ASSUME NEW addrs \in Seq(NetAddress), NEW links \in Seq(NetLink)
  PROVE  InterfacesRead(addrs, links)
<1> DEFINE tA == Mapped(AddressRow, addrs)
           tL == Mapped(LinkRow, links)
           out == PrintInterfaces(addrs, links)
           a == Printed(tA, " ")
           b == Printed(tL, " ")
           E == LinkChars \cup {" ", "nl"}
           n == Len(links)
           read == InterfacesOf(out)
<1>1. /\ Worded(AddressRows, LinkChars) /\ Worded(LinkRows, LinkChars)
      /\ (\A r \in AddressRows : Len(r) >= 4) /\ (\A r \in LinkRows : Len(r) >= 3)
      /\ tA \in Seq(AddressRows) /\ tL \in Seq(LinkRows) /\ Len(tL) = n
      /\ \A i \in 1 .. n : tL[i] = LinkRow(links[i])
  BY TablesAre
<1>2. n \in Nat /\ DOMAIN links = 1 .. n /\ \A i \in 1 .. n : links[i] \in NetLink
  OBVIOUS
<1>3. LinkChars \cap Blank = {} /\ "---" \notin E
  BY LinkCharsApart
<1>4. out = a \o <<"---", "nl">> \o b
  BY DEF PrintInterfaces
<1> HIDE DEF tA, tL, out, n
<1>5. a \in Seq(E) /\ b \in Seq(E) /\ "nl" \in E
  <2>1. a \in Seq(E)
    BY <1>1, <1>3, PrintedTyped
  <2>2. b \in Seq(E)
    BY <1>1, <1>3, PrintedTyped
  <2> QED
    BY <2>1, <2>2
<1>6. SplitN(out, "---", 2) = <<a, <<"nl">> \o b>>
  <2> HIDE DEF E, a, b
  <2> QED
    BY <1>3, <1>4, <1>5, SectionsApart
<1>7. FieldRows(a, 4) = tA
  <2> DEFINE m == 4
  <2>1. m \in Nat \ {0} /\ \A r \in AddressRows : Len(r) >= m
    BY <1>1
  <2>2. LinkChars \cap Blank = {} /\ Worded(AddressRows, LinkChars) /\ tA \in Seq(AddressRows)
    BY <1>1, <1>3
  <2> HIDE DEF m, E, a, b, read
  <2>3. FieldRows(Printed(tA, " "), m) = tA
    BY <2>1, <2>2, FieldRowsRead
  <2> QED
    BY <2>3 DEF m, a
<1>8. LongLines(<<"nl">> \o b, 3) = WordRows(tL)
  <2> DEFINE m == 3
  <2>1. m \in Nat \ {0} /\ \A r \in LinkRows : Len(r) >= m
    BY <1>1
  <2> HIDE DEF m
  <2>2. LongLines(<<"nl">> \o Printed(tL, " "), m) = WordRows(tL)
    BY <1>1, <1>3, <2>1, LongLinesRead
  <2> QED
    BY <2>2 DEF m
<1>9. DOMAIN WordRows(tL) = 1 .. n /\ \A i \in 1 .. n : Fields(WordRows(tL)[i]) = tL[i]
  BY <1>1, <1>3, WordsRead
<1>10. \A i \in 1 .. n : WordRows(tL)[i] = Joined(tL[i], <<" ">>)
  BY <1>9 DEF WordRows
<1>11. read = [i \in 1 .. n |-> Linked(WordRows(tL)[i], tA)]
  <2> DEFINE c == <<"nl">> \o b
  <2>1. SplitN(out, "---", 2) = <<a, c>> /\ LongLines(c, 3) = WordRows(tL)
    BY <1>6, <1>8
  <2> HIDE DEF a, b, c
  <2>2. InterfacesOf(out) = [i \in DOMAIN LongLines(c, 3) |-> Linked(LongLines(c, 3)[i], FieldRows(a, 4))]
    BY <2>1, InterfacesAre
  <2> QED
    BY <1>7, <1>9, <2>1, <2>2
<1>12. ASSUME NEW i \in 1 .. n PROVE Met(read[i], links[i], addrs)
  <2> DEFINE l == links[i]
             line == WordRows(tL)[i]
  <2>1. l \in NetLink /\ line = Joined(LinkRow(l), <<" ">>) /\ Fields(line) = LinkRow(l)
    BY <1>1, <1>2, <1>9, <1>10
  <2>2. read[i] = Linked(line, tA)
    BY <1>11
  <2> HIDE DEF l, line, read
  <2>3. Met(Linked(line, Mapped(AddressRow, addrs)), l, addrs)
    BY <2>1, LinkMet
  <2> QED
    BY <2>2, <2>3 DEF l, tA
<1>13. Len(read) = n
  BY <1>2, <1>11
<1> HIDE DEF read
<1>14. \A i \in 1 .. n : Met(read[i], links[i], addrs)
  BY <1>12
<1>15. Len(links) = n
  BY DEF n
<1> QED
  BY <1>2, <1>13, <1>14, <1>15 DEF InterfacesRead, Met, read, out

-----------------------------------------------------------------------------
(* The log. *)

(* A set of naturals that is not empty has a smallest member. *)
LEMMA SmallestOf ==
  ASSUME NEW T \in SUBSET Nat, T # {}
  PROVE  \E x \in T : \A y \in T : x <= y
<1> DEFINE R == OpToRel(<, Nat)
<1>1. R = {ss \in Nat \X Nat : ss[1] < ss[2]}
  BY Zenon DEF OpToRel
<1>2. IsWellFoundedOn(R, Nat)
  BY NatLessThanWellFounded
<1>3. \E x \in T : \A y \in T : <<y, x>> \notin R
  BY <1>2, WFMin
<1> HIDE DEF R
<1>4. PICK x \in T : \A y \in T : <<y, x>> \notin R
  BY <1>3
<1>5. ASSUME NEW y \in T PROVE x <= y
  <2>1. <<y, x>> \in Nat \X Nat /\ <<y, x>>[1] = y /\ <<y, x>>[2] = x
    OBVIOUS
  <2>2. ~ (y < x)
    BY <1>1, <1>4, <2>1
  <2> QED
    BY <2>2
<1> QED
  BY <1>4, <1>5

(* A text whose last character is not blank is not trimmed away. *)
LEMMA TrimSome ==
  ASSUME NEW C, NEW s \in Seq(C), s # <<>>, s[Len(s)] \notin Blank
  PROVE  Trim(s) # <<>>
<1> DEFINE j == Len(s)
           T == {k \in 1 .. j : s[k] \notin Blank}
<1>1. j \in Nat \ {0}
  <2>1. Len(s) \in Nat /\ Len(s) # 0
    BY EmptySeq
  <2> QED
    BY <2>1
<1>2. T \in SUBSET Nat /\ j \in T
  BY <1>1
<1>3. PICK i \in T : \A k \in T : i <= k
  <2> HIDE DEF T, j
  <2> QED
    BY <1>2, SmallestOf
<1>4. i \in 1 .. j /\ s[i] \notin Blank /\ j \in 1 .. j
  BY <1>2, <1>3
<1>5. \A k \in 1 .. j : k < i \/ k > j => s[k] \in Blank
  BY <1>3
<1> HIDE DEF T
<1>6. Trim(s) = SubSeq(s, i, j)
  BY <1>4, <1>5, TrimIs
<1>7. Len(SubSeq(s, i, j)) = j - i + 1
  BY <1>1, <1>4
<1>8. j - i + 1 # 0
  BY <1>1, <1>4
<1>9. Len(Trim(s)) # 0
  BY <1>6, <1>7, <1>8
<1> QED
  <2>1. Trim(s) = <<>> => Len(Trim(s)) = 0
    OBVIOUS
  <2> QED
    BY <1>9, <2>1

(* Dropping empty parts makes no more of them, and leaves nothing of empty parts
   only. *)
LEMMA NonEmptyShort ==
  ASSUME NEW S, NEW parts \in Seq(S)
  PROVE  /\ Len(NonEmpty(parts)) <= Len(parts)
         /\ NonEmpty(parts) = <<>> => parts \in Seq({<<>>})
<1> DEFINE P(c) == Len(NonEmpty(c)) <= Len(c) /\ (NonEmpty(c) = <<>> => c \in Seq({<<>>}))
           T == {c \in Seq(S) : P(c)}
<1>1. <<>> \in T
  BY NonEmptyNone
<1>2. ASSUME NEW c \in T, NEW p \in S PROVE Append(c, p) \in T
  <2> DEFINE z == Append(c, p)
             v == NonEmpty(c)
  <2>1. c \in Seq(S) /\ P(c)
    OBVIOUS
  <2>2. z \in Seq(S) /\ Len(z) = Len(c) + 1 /\ Len(c) \in Nat
    BY <2>1, AppendProperties
  <2>3. /\ p # <<>> => NonEmpty(z) = Append(v, p)
        /\ p = <<>> => NonEmpty(z) = v
    BY <2>1, NonEmptyMore
  <2>4. v \in Seq(S)
    BY <2>1, NonEmptyTyped
  <2> HIDE DEF z
  <2>5. CASE p # <<>>
    <3> DEFINE y == Append(v, p)
    <3>1. y \in Seq(S) /\ Len(y) = Len(v) + 1 /\ Len(v) \in Nat
      BY <2>4, AppendProperties
    <3>2. Len(v) <= Len(c)
      BY <2>1
    <3>3. NonEmpty(z) = y
      BY <2>3, <2>5
    <3> HIDE DEF y, v
    <3>4. Len(NonEmpty(z)) <= Len(z) /\ Len(y) # 0
      BY <2>2, <3>1, <3>2, <3>3
    <3>5. NonEmpty(z) # <<>>
      BY <3>3, <3>4
    <3> QED
      BY <2>2, <3>4, <3>5 DEF z
  <2>6. CASE p = <<>>
    <3>1. NonEmpty(z) = v
      BY <2>3, <2>6
    <3>2. Len(v) <= Len(c) /\ Len(v) \in Nat
      BY <2>1, <2>4
    <3>3. ASSUME v = <<>> PROVE z \in Seq({<<>>})
      <4>1. c \in Seq({<<>>}) /\ p \in {<<>>}
        BY <2>1, <2>6, <3>3
      <4> QED
        BY <4>1, AppendProperties DEF z
    <3> HIDE DEF v
    <3>4. Len(NonEmpty(z)) <= Len(z)
      BY <2>2, <3>1, <3>2
    <3> QED
      BY <2>2, <3>1, <3>3, <3>4 DEF z
  <2> QED
    BY <2>5, <2>6
<1>3. T = Seq(S)
  <2> HIDE DEF T
  <2>1. T \in SUBSET Seq(S)
    BY DEF T
  <2> QED
    BY <1>1, <1>2, <2>1, AllSequences
<1> QED
  BY <1>3

(* The last n of a sequence are its end, n of them at most. *)
LEMMA LastIs ==
  ASSUME NEW S, NEW s \in Seq(S), NEW n \in Nat
  PROVE  /\ LastOf(s, n) \in Seq(S) /\ Len(LastOf(s, n)) <= n
         /\ \E a \in Seq(S) : Follows(s, a, LastOf(s, n))
         /\ s # <<>> /\ n # 0 =>
              LastOf(s, n) # <<>> /\ LastOf(s, n)[Len(LastOf(s, n))] = s[Len(s)]
<1> DEFINE l == Len(s)
<1>1. l \in Nat /\ DOMAIN s = 1 .. l /\ \A i \in 1 .. l : s[i] \in S
  OBVIOUS
<1>2. CASE ~(l > n)
  <2>1. LastOf(s, n) = s
    BY <1>2 DEF LastOf
  <2>2. <<>> \in Seq(S) /\ <<>> \o s = s
    BY ConcatEmptySeq
  <2>3. Follows(s, <<>>, s)
    BY <2>2 DEF Follows
  <2>4. l <= n
    BY <1>1, <1>2
  <2> QED
    BY <2>1, <2>2, <2>3, <2>4
<1>3. CASE l > n
  <2> DEFINE m == l - n
             a == [i \in 1 .. m |-> s[i]]
             b == [i \in 1 .. n |-> s[i + m]]
  <2>1. m \in Nat \ {0} /\ l = m + n
    <3> HIDE DEF l, a, b
    <3> QED
      BY <1>1, <1>3
  <2>2. LastOf(s, n) = SubSeq(s, l - n + 1, l)
    BY <1>3 DEF LastOf
  <2> HIDE DEF l
  <2>3. a \in Seq(S) /\ Len(a) = m /\ \A i \in 1 .. m : a[i] = s[i]
    <3>1. \A i \in 1 .. m : s[i] \in S
      BY <1>1, <2>1
    <3>2. a = [i \in 1 .. m |-> a[i]] /\ \A i \in 1 .. m : a[i] \in S /\ a[i] = s[i]
      BY <3>1
    <3> HIDE DEF a, m
    <3> QED
      BY <2>1, <3>2, SeqIs
  <2>4. b \in Seq(S) /\ Len(b) = n /\ \A i \in 1 .. n : b[i] = s[i + m]
    <3>1. \A i \in 1 .. n : s[i + m] \in S
      BY <1>1, <2>1
    <3>2. b = [i \in 1 .. n |-> b[i]] /\ \A i \in 1 .. n : b[i] \in S /\ b[i] = s[i + m]
      BY <3>1
    <3> HIDE DEF b, m
    <3> QED
      BY <3>2, SeqIs
  <2>5. SubSeq(s, l - n + 1, l) = b
    <3> DEFINE z == SubSeq(s, m + 1, l)
    <3>1. m + 1 \in 1 .. l + 1 /\ l \in m .. l /\ l - n + 1 = m + 1
      BY <1>1, <2>1
    <3>2. z \in Seq(S) /\ Len(z) = n /\ \A i \in 1 .. n : z[i] = s[m + i]
      <4> HIDE DEF m, a, b
      <4>1. Len(s) = m + n /\ l = m + n
        BY <2>1 DEF l
      <4> QED
        BY <2>1, <4>1
    <3> HIDE DEF z, b, m
    <3>3. \A i \in 1 .. n : z[i] = b[i]
      <4>1. \A i \in 1 .. n : m + i = i + m
        BY <2>1
      <4> QED
        BY <2>4, <3>2, <4>1
    <3>4. z = b
      BY <2>4, <3>2, <3>3, SeqEqual
    <3> QED
      BY <3>1, <3>4 DEF z
  <2> HIDE DEF a, b, m
  <2>6. Follows(s, a, b)
    <3> DEFINE z == a \o b
    <3>1. z \in Seq(S) /\ Len(z) = m + n
      BY <2>3, <2>4, ConcatProperties
    <3>2. \A i \in 1 .. m + n : z[i] = IF i <= m THEN a[i] ELSE b[i - m]
      BY <2>3, <2>4, ConcatProperties
    <3> HIDE DEF z
    <3>3. ASSUME NEW i \in 1 .. l PROVE z[i] = s[i]
      <4>1. CASE i <= m
        BY <2>1, <2>3, <3>2, <4>1
      <4>2. CASE ~(i <= m)
        <5>1. i - m \in 1 .. n /\ (i - m) + m = i
          BY <1>1, <2>1, <4>2
        <5>2. z[i] = b[i - m]
          BY <2>1, <3>2, <4>2
        <5> QED
          BY <2>4, <5>1, <5>2
      <4> QED
        BY <4>1, <4>2
    <3>4. z = s
      <4>1. Len(s) = l
        BY DEF l
      <4> QED
        BY <1>1, <2>1, <3>1, <3>3, <4>1, SeqEqual
    <3> QED
      BY <3>4 DEF z, Follows
  <2>7. n # 0 => b # <<>> /\ b[n] = s[l]
    <3>1. n # 0 => n \in 1 .. n /\ n + m = l
      BY <2>1
    <3>2. n # 0 => b # <<>>
      BY <2>4
    <3> QED
      BY <2>4, <3>1, <3>2
  <2>8. LastOf(s, n) = b
    BY <2>2, <2>5
  <2>9. n <= n
    OBVIOUS
  <2> QED
    BY <2>3, <2>4, <2>6, <2>7, <2>8, <2>9 DEF l
<1> QED
  BY <1>2, <1>3

(* What was put behind a sequence is the last of the whole. *)
LEMMA LastBehind ==
  ASSUME NEW S, NEW a \in Seq(S), NEW b \in Seq(S)
  PROVE  LastOf(a \o b, Len(b)) = b
<1> DEFINE z == a \o b
           m == Len(a)
           n == Len(b)
           y == SubSeq(z, m + 1, m + n)
<1>1. m \in Nat /\ n \in Nat
  OBVIOUS
<1>2. z \in Seq(S) /\ Len(z) = m + n
  BY ConcatProperties
<1>3. \A i \in 1 .. m + n : z[i] = IF i <= m THEN a[i] ELSE b[i - m]
  BY ConcatProperties
<1>4. CASE m = 0
  <2>1. a = <<>>
    BY <1>4, EmptySeq
  <2>2. z = b
    BY <2>1, ConcatEmptySeq
  <2> HIDE DEF z
  <2> QED
    BY <1>1, <1>2, <1>4, <2>2 DEF LastOf, z
<1>5. CASE m # 0
  <2> HIDE DEF z, m, n
  <2>1. Len(z) > n /\ Len(z) - n + 1 = m + 1
    BY <1>1, <1>2, <1>5
  <2>2. LastOf(z, n) = y
    BY <1>2, <2>1 DEF LastOf
  <2>3. y \in Seq(S) /\ Len(y) = n /\ \A i \in 1 .. n : y[i] = z[m + i]
    BY <1>1, <1>2
  <2> HIDE DEF y
  <2>4. ASSUME NEW i \in 1 .. n PROVE y[i] = b[i]
    <3>1. m + i \in 1 .. m + n /\ ~(m + i <= m) /\ (m + i) - m = i
      BY <1>1
    <3>2. z[m + i] = b[(m + i) - m]
      BY <1>3, <3>1
    <3> QED
      BY <2>3, <3>1, <3>2
  <2>5. y = b
    <3>1. Len(b) = n
      BY DEF n
    <3> QED
      BY <2>3, <2>4, <3>1, SeqEqual
  <2> QED
    BY <2>2, <2>5 DEF z, n
<1> QED
  BY <1>4, <1>5

(* tail -n prints the last lines: those that are not empty are the latest of
   the log's, and a log that does not end in a blank leaves something. *)
LEMMA TailReads ==
  ASSUME NEW D, "nl" \notin D, NEW log \in Seq(D \cup {"nl"}), NEW n \in Nat \ {0}
  PROVE  LET out == TailN(log, n)
             shown == Lines(out)
         IN /\ Len(shown) <= n /\ shown = LastOf(Lines(log), Len(shown))
            /\ shown \in Seq(Seq(D))
            /\ Trim(out) # <<>> => shown # <<>>
            /\ log # <<>> /\ log[Len(log)] \notin Blank => Trim(out) # <<>>
<1> DEFINE E == D \cup {"nl"}
           nl == <<"nl">>
           whole == Split(log, "nl")
           lines == IF whole[Len(whole)] = <<>> THEN SubSeq(whole, 1, Len(whole) - 1) ELSE whole
           last == LastOf(lines, n)
           out == Joined(last, nl)
           shown == NonEmpty(last)
           k == -1
<1>1. k \in Int /\ k < 0
  OBVIOUS
<1>2. whole = SplitN(log, "nl", k) /\ TailN(log, n) = out
  BY DEF Split, TailN
<1>3. D \subseteq E /\ nl \in Seq(E) /\ log \in Seq(E) /\ \A c \in E : c \in D \/ c = "nl"
  OBVIOUS
<1> HIDE DEF E, nl, k
<1>4. whole \in Seq(Seq(D)) /\ whole # <<>>
  <2>1. \A c \in E : c \in D \/ (c = "nl" /\ k < 0)
    BY <1>1, <1>3
  <2>2. SplitN(log, "nl", k) \in PartsOf(D)
    BY <1>1, <1>3, <2>1, SplitTyped
  <2> QED
    BY <1>2, <2>2 DEF PartsOf
<1>5. PICK f \in Seq(Seq(D)), x \in Seq(D) : whole = Append(f, x)
  <2> HIDE DEF whole
  <2> QED
    BY <1>4, LastApart
<1>6. Lines(log) = NonEmpty(whole)
  BY DEF Lines
<1> HIDE DEF whole
<1>7. whole[Len(whole)] = x /\ SubSeq(whole, 1, Len(whole) - 1) = f
  <2>1. whole = Append(f, x) /\ f \in Seq(Seq(D)) /\ x \in Seq(D)
    BY <1>5
  <2> QED
    BY <2>1, AppendProperties
<1>8. lines = IF x = <<>> THEN f ELSE whole
  BY <1>7
<1>9. NonEmpty(lines) = Lines(log) /\ lines \in Seq(Seq(D))
  <2>1. x = <<>> => NonEmpty(Append(f, x)) = NonEmpty(f)
    BY NonEmptyMore
  <2> QED
    BY <1>4, <1>5, <1>6, <1>8, <2>1
<1> HIDE DEF lines
<1>10. /\ last \in Seq(Seq(D)) /\ Len(last) <= n
       /\ \E a \in Seq(Seq(D)) : Follows(lines, a, last)
       /\ lines # <<>> => last # <<>> /\ last[Len(last)] = lines[Len(lines)]
  BY <1>9, LastIs
<1> HIDE DEF last
<1>11. Lines(out) = shown
  <2>1. CASE last = <<>>
    BY <2>1, JoinedNone, NothingTrims, NonEmptyNone
  <2>2. CASE last # <<>>
    <3>1. SplitN(Joined(last, <<"nl">>), "nl", k) = last
      BY <1>1, <1>10, <2>2, SplitJoined
    <3> QED
      BY <3>1 DEF Lines, Split, k, nl
  <2> QED
    BY <2>1, <2>2
<1>12. /\ shown \in Seq(Seq(D)) /\ Len(shown) <= n
       /\ shown = <<>> => last \in Seq({<<>>})
  <2>1. shown \in Seq(Seq(D))
    BY <1>10, NonEmptyTyped
  <2>2. Len(shown) <= Len(last) /\ (shown = <<>> => last \in Seq({<<>>}))
    BY <1>10, NonEmptyShort
  <2>3. Len(shown) \in Nat /\ Len(last) \in Nat
    BY <1>10, <2>1
  <2> HIDE DEF shown
  <2> QED
    BY <1>10, <2>1, <2>2, <2>3
<1>13. shown = LastOf(Lines(log), Len(shown))
  <2>1. PICK a \in Seq(Seq(D)) : Follows(lines, a, last)
    BY <1>10
  <2>2. NonEmpty(lines) = NonEmpty(a) \o shown
    <3>1. NonEmpty(a \o last) = NonEmpty(a) \o NonEmpty(last)
      BY <1>10, NonEmptyConcat
    <3>2. lines = a \o last
      BY <2>1 DEF Follows
    <3> QED
      BY <3>1, <3>2
  <2>3. NonEmpty(a) \in Seq(Seq(D))
    BY NonEmptyTyped
  <2> DEFINE p == NonEmpty(a)
  <2> HIDE DEF p, shown
  <2>4. LastOf(p \o shown, Len(shown)) = shown
    BY <1>12, <2>3, LastBehind DEF p
  <2> QED
    BY <1>9, <2>2, <2>4 DEF p
<1>14. Trim(out) # <<>> => shown # <<>>
  <2>1. SUFFICES ASSUME shown = <<>> PROVE Trim(out) = <<>>
    OBVIOUS
  <2> DEFINE N == {"nl"}
  <2>2. last \in Seq(Seq(N)) /\ nl \in Seq(N)
    <3>1. {<<>>} \subseteq Seq(N)
      OBVIOUS
    <3>2. nl \in Seq(N)
      BY Single DEF nl
    <3> HIDE DEF N
    <3>3. last \in Seq({<<>>})
      BY <1>12, <2>1
    <3> QED
      BY <3>1, <3>2, <3>3, SeqMonotonic
  <2>3. out \in Seq(N)
    <3> HIDE DEF N
    <3> QED
      BY <2>2, JoinedTyped
  <2>4. N \subseteq Blank
    BY DEF Blank
  <2> HIDE DEF out, N
  <2>5. \A i \in DOMAIN out : out[i] \in Blank
    <3>1. \A i \in DOMAIN out : out[i] \in N
      BY <2>3
    <3> QED
      BY <2>4, <3>1
  <2> QED
    BY <2>5, TrimBlank
<1>15. ASSUME log # <<>>, log[Len(log)] \notin Blank PROVE Trim(out) # <<>>
  <2>1. PICK g \in Seq(E), c \in E : log = Append(g, c)
    BY <1>3, <1>15, LastApart
  <2>2. c = log[Len(log)]
    BY <2>1, AppendProperties
  <2>3. c \notin Blank /\ c # "nl" /\ c \in D
    <3>1. c \notin Blank
      BY <1>15, <2>2
    <3> QED
      BY <1>3, <3>1 DEF Blank
  <2> DEFINE parts == SplitN(g, "nl", k)
             m == Len(parts)
             y == parts[m]
             z == Append(y, c)
  <2>4. parts \in PartsOf(D)
    <3>1. \A d \in E : d \in D \/ (d = "nl" /\ k < 0)
      BY <1>1, <1>3
    <3> QED
      BY <1>1, <3>1, SplitTyped
  <2>5. whole = Grown(parts, c, "nl", k)
    <3>1. SplitN(Append(g, c), "nl", k) = Grown(SplitN(g, "nl", k), c, "nl", k)
      BY <1>1, SplitMore
    <3> QED
      BY <1>2, <2>1, <3>1
  <2> HIDE DEF parts
  <2>6. m \in Nat \ {0} /\ y \in Seq(D) /\ DOMAIN parts = 1 .. m
    <3>1. m \in Nat /\ m # 0 /\ DOMAIN parts = 1 .. m
      BY <2>4, EmptySeq DEF PartsOf
    <3> QED
      BY <2>4, <3>1 DEF PartsOf
  <2>7. whole = [parts EXCEPT ![m] = z]
    BY <2>3, <2>5 DEF Grown
  <2>8. x = z
    <3>1. whole[m] = z /\ Len(whole) = m
      <4> HIDE DEF z, m
      <4> QED
        BY <1>4, <2>6, <2>7
    <3> QED
      BY <1>7, <3>1
  <2>9. z = y \o <<c>> /\ <<c>> \in Seq(D) /\ z # <<>> /\ z \in Seq(D)
    <3> HIDE DEF y
    <3>1. <<c>> \in Seq(D)
      BY <2>3, Single
    <3>2. z = y \o <<c>>
      BY <2>3, <2>6, AppendIsConcat
    <3>3. z # <<>> /\ z \in Seq(D)
      BY <2>3, <2>6, AppendProperties
    <3> QED
      BY <3>1, <3>2, <3>3
  <2> HIDE DEF y, m, z
  <2>10. lines = whole /\ lines # <<>> /\ lines[Len(lines)] = z
    BY <1>4, <1>7, <1>8, <2>8, <2>9
  <2>11. last # <<>> /\ last[Len(last)] = z
    BY <1>10, <2>10
  <2>12. PICK h \in Seq(Seq(D)), q \in Seq(D) : last = Append(h, q)
    BY <1>10, <2>11, LastApart
  <2>13. q = z
    BY <2>11, <2>12, AppendProperties
  <2> DEFINE u == Joined(Append(h, y), nl)
             w == <<c>>
             v == u \o w
  <2>14. h \in Seq(Seq(E)) /\ y \in Seq(E) /\ w \in Seq(E) /\ Seq(D) \subseteq Seq(E)
    <3> HIDE DEF w
    <3>1. Seq(D) \subseteq Seq(E) /\ w \in Seq(D)
      BY <1>3, <2>9, SeqMonotonic DEF w
    <3>2. h \in Seq(Seq(E))
      BY <3>1, SeqMonotonic
    <3> QED
      BY <2>6, <3>1, <3>2
  <2>15. Follows(z, y, w)
    BY <2>9 DEF Follows
  <2> HIDE DEF w
  <2>16. out = v
    <3>1. Joined(Append(h, z), nl) = Joined(Append(h, y), nl) \o w
      BY <1>3, <2>14, <2>15, JoinedEnds
    <3> QED
      BY <2>12, <2>13, <3>1
  <2>17. u \in Seq(E)
    <3>1. Append(h, y) \in Seq(Seq(E))
      BY <2>14, AppendProperties
    <3> QED
      BY <1>3, <3>1, JoinedTyped
  <2> HIDE DEF u, out
  <2>18. v = Append(u, c) /\ c \in E
    <3>1. c \in E
      BY <1>3, <2>3
    <3> QED
      BY <2>17, <3>1, AppendIsConcat DEF w
  <2> HIDE DEF v
  <2>19. v \in Seq(E) /\ v # <<>> /\ v[Len(v)] = c
    <3> DEFINE l == Len(u)
    <3>1. l \in Nat /\ v \in Seq(E) /\ Len(v) = l + 1
      BY <2>17, <2>18, AppendProperties
    <3>2. v[l + 1] = c
      BY <2>17, <2>18, AppendProperties
    <3> HIDE DEF l
    <3>3. Len(v) # 0
      BY <3>1
    <3> QED
      BY <3>1, <3>2, <3>3, EmptySeq
  <2> QED
    BY <2>3, <2>16, <2>19, TrimSome
<1> HIDE DEF out, shown
<1> QED
  BY <1>2, <1>11, <1>12, <1>13, <1>14, <1>15

(* A text of one character that is not blank is one line. *)
LEMMA OneLineTail ==
  ASSUME NEW c, c \notin Blank, NEW n \in Nat \ {0}
  PROVE  Lines(<<c>>) = << <<c>> >> /\ TailN(<<c>>, n) = <<c>> /\ Trim(<<c>>) # <<>>
<1> DEFINE D == {c}
           s == <<c>>
           parts == <<s>>
           nl == <<"nl">>
           E == D \cup {"nl"}
           k == -1
<1>1. k \in Int /\ k < 0 /\ "nl" \notin D
  <2>1. k \in Int /\ k < 0
    OBVIOUS
  <2>2. "nl" \in Blank
    BY DEF Blank
  <2> HIDE DEF k
  <2>3. "nl" # c
    BY <2>2
  <2> QED
    BY <2>1, <2>3
<1> HIDE DEF k
<1>2. s \in Seq(D) /\ s # <<>> /\ s \in Seq(E) /\ nl \in Seq(E) /\ s[Len(s)] = c
  OBVIOUS
<1> HIDE DEF s, E, nl, D
<1>3. parts \in Seq(Seq(D)) /\ parts # <<>> /\ Len(parts) = 1 /\ parts[1] = s
  BY <1>2
<1>4. Joined(parts, nl) = s
  BY <1>2, JoinedOne
<1> HIDE DEF parts
<1>5. Split(s, "nl") = parts
  <2>1. SplitN(Joined(parts, <<"nl">>), "nl", k) = parts
    BY <1>1, <1>3, SplitJoined
  <2> QED
    BY <1>4, <2>1 DEF Split, k, nl
<1>6. LastOf(parts, n) = parts
  BY <1>3 DEF LastOf
<1>7. TailN(s, n) = s
  BY <1>2, <1>3, <1>4, <1>5, <1>6 DEF TailN, nl
<1>8. Lines(s) = parts
  <2>1. <<>> \notin {s} /\ parts \in Seq({s})
    BY <1>2 DEF parts
  <2>2. NonEmpty(parts) = parts
    BY <2>1, NonEmptyAll
  <2> QED
    BY <1>5, <2>2 DEF Lines
<1>9. Trim(s) # <<>>
  BY <1>2, TrimSome
<1> QED
  BY <1>7, <1>8, <1>9 DEF s, parts

(* The stand-ins for the journal, syslog and an unreadable log are in no log. *)
LEMMA LogsApart ==
  /\ "journal" \notin Inner /\ "journal" \notin Blank /\ "syslog" \notin Blank
  /\ Glyphs \cap Blank = {} /\ MaxLogLines \in Nat \ {0} /\ Unreadable # <<"syslog">>
  /\ Unreadable # <<"journal">>
<1>1. "journal" \notin Inner
  BY ListingsAssumption DEF Inner
<1>2. "journal" \notin Blank /\ "syslog" \notin Blank
  BY DEF Blank
<1>3. Unreadable # <<"syslog">> /\ Unreadable # <<"journal">>
  <2>1. Unreadable[1] = "unreadable" /\ <<"syslog">>[1] = "syslog" /\ <<"journal">>[1] = "journal"
    BY DEF Unreadable
  <2> QED
    BY <2>1
<1> QED
  BY <1>1, <1>2, <1>3, GlyphsApart, ListingsAssumption

(* The only element of a sequence. *)
LEMMA OnlyOne ==
  ASSUME NEW S, NEW y, <<y>> \in Seq(S)
  PROVE  y \in S
<1> DEFINE z == <<y>>
<1>1. z[1] = y /\ 1 \in 1 .. Len(z) /\ z \in Seq(S)
  OBVIOUS
<1> HIDE DEF z
<1>2. z[1] \in S
  BY <1>1, ElementOfSeq
<1> QED
  BY <1>1, <1>2

(* The lines of any log, of any length, or the journal (logs.Tail, handleLogs). *)
LEMMA LogReadsBack ==
  ASSUME NEW asked, NEW log \in Seq(Glyphs \cup {" ", "nl"}) \cup {Unreadable}
  PROVE  LogReads(asked, log)
<1> DEFINE syslog == <<"syslog">>
           journal == <<"journal">>
           shown == LogPage(asked, log, syslog, journal)
           out == TailN(log, MaxLogLines)
           n == MaxLogLines
<1>1. n \in Nat \ {0}
  BY LogsApart
<1>2. Lines(journal) = <<journal>> /\ journal # Unreadable
  BY <1>1, LogsApart, OneLineTail
<1>3. CASE asked # "listed"
  <2>1. syslog # Unreadable /\ TailN(syslog, n) = syslog /\ Trim(syslog) # <<>>
        /\ Lines(syslog) = <<syslog>>
    BY <1>1, LogsApart, OneLineTail
  <2> HIDE DEF syslog, journal
  <2>2. shown = <<syslog>>
    BY <1>3, <2>1 DEF LogPage, LogTail
  <2> HIDE DEF shown
  <2> QED
    BY <1>3, <2>2 DEF LogReads, shown, syslog, journal
<1>4. CASE asked = "listed"
  <2>1. shown = LogTail(log, journal)
    BY <1>4 DEF LogPage
  <2>2. SUFFICES /\ \/ shown = <<journal>>
                    \/ /\ shown # <<>> /\ Len(shown) <= n
                       /\ shown = LastOf(Lines(log), Len(shown))
                 /\ log # Unreadable /\ log # <<>> /\ log[Len(log)] \in Glyphs =>
                       shown # <<journal>>
    <3> HIDE DEF shown
    <3> QED
      BY <1>4 DEF LogReads, shown
  <2>3. CASE log = Unreadable
    <3> HIDE DEF journal
    <3>1. shown = <<journal>>
      BY <1>2, <2>1, <2>3 DEF LogTail
    <3> QED
      BY <2>3, <3>1
  <2>4. CASE log # Unreadable
    <3> DEFINE D == Inner
    <3>1. log \in Seq(D \cup {"nl"}) /\ "nl" \notin D
      <4>1. Glyphs \cup {" ", "nl"} = D \cup {"nl"}
        BY DEF Inner
      <4>2. log \in Seq(Glyphs \cup {" ", "nl"})
        BY <2>4
      <4> HIDE DEF D
      <4> QED
        BY <4>1, <4>2, GlyphsApart DEF D
    <3> HIDE DEF D, shown, journal
    <3> DEFINE x == Lines(out)
    <3>2. /\ Len(x) <= n /\ x = LastOf(Lines(log), Len(x)) /\ x \in Seq(Seq(D))
          /\ Trim(out) # <<>> => x # <<>>
          /\ log # <<>> /\ log[Len(log)] \notin Blank => Trim(out) # <<>>
      BY <1>1, <3>1, TailReads
    <3> HIDE DEF out
    <3>3. CASE Trim(out) # <<>>
      <4>1. shown = x
        BY <2>1, <2>4, <3>3 DEF LogTail, out
      <4>2. x # <<journal>>
        <5>1. SUFFICES ASSUME x = <<journal>> PROVE FALSE
          OBVIOUS
        <5> HIDE DEF x
        <5>2. journal \in Seq(D)
          <6> HIDE DEF journal
          <6>1. <<journal>> \in Seq(Seq(D))
            BY <3>2, <5>1
          <6> QED
            BY <6>1, OnlyOne
        <5>3. "journal" \in D
          BY <5>2, OnlyOne DEF journal
        <5> QED
          BY <5>3, LogsApart DEF D
      <4> HIDE DEF x
      <4> QED
        BY <3>2, <3>3, <4>1, <4>2
    <3>4. CASE Trim(out) = <<>>
      <4>1. shown = <<journal>>
        BY <1>2, <2>1, <3>4 DEF LogTail, out
      <4>2. ~(log # <<>> /\ log[Len(log)] \in Glyphs)
        BY <3>2, <3>4, LogsApart
      <4> QED
        BY <4>1, <4>2
    <3> QED
      BY <3>3, <3>4
  <2> QED
    BY <2>3, <2>4
<1> QED
  BY <1>3, <1>4

-----------------------------------------------------------------------------
(* What is read. *)

(* At first nothing is taken up. *)
LEMMA ReInitInv == ReInit => ReInv
BY DEF ReInit, ReInv, NoInput

(* Every input that is taken up is of its kind. *)
LEMMA ReNextInv == ReInv /\ [ReNext]_reVars => ReInv'
<1> SUFFICES ASSUME ReInv, [ReNext]_reVars PROVE ReInv'
  OBVIOUS
<1>1. ASSUME NEW kind, NEW of, TakeUp(kind, of),
             /\ kind = "list" => of \in Seq(Cells)
             /\ kind = "number" => of \in Signs \X (0..99)
             /\ kind = "containers" => of \in Seq(ContainerRow)
             /\ kind = "accounts" => of \in Seq(AccountRow)
             /\ kind = "sockets" => of \in Seq(SocketRow)
             /\ kind = "interfaces" => of \in Seq(NetAddress) \X Seq(NetLink)
             /\ kind = "log" =>
                   of \in {"listed", "other", ""} \X (Seq(LogChars) \cup {Unreadable})
             /\ kind = "search" => of \in Seq(Hits)
             /\ kind = "target" => of \in Seq(Letters)
      PROVE  ReInv'
  <2>1. input'.kind = kind /\ input'.of = of
    BY <1>1 DEF TakeUp
  <2> QED
    BY <1>1, <2>1 DEF ReInv
<1>2. ASSUME NEW cells \in Lists, TakeUp("list", cells) PROVE ReInv'
  <2>1. cells \in Seq(Cells)
    BY SeqOfSet DEF Lists
  <2> QED
    BY <1>1, <1>2, <2>1
<1>3. ASSUME NEW sign \in Signs, NEW n \in 0..99, TakeUp("number", <<sign, n>>) PROVE ReInv'
  BY <1>1, <1>3
<1>4. ASSUME NEW word, TakeUp("word", word) PROVE ReInv'
  BY <1>1, <1>4
<1>5. ASSUME NEW table \in Containers, TakeUp("containers", table) PROVE ReInv'
  <2>1. table \in Seq(ContainerRow)
    BY SeqOfSet DEF Containers
  <2> QED
    BY <1>1, <1>5, <2>1
<1>6. ASSUME NEW table \in Accounts, TakeUp("accounts", table) PROVE ReInv'
  <2>1. table \in Seq(AccountRow)
    BY SeqOfSet DEF Accounts
  <2> QED
    BY <1>1, <1>6, <2>1
<1>7. ASSUME NEW table \in Sockets, TakeUp("sockets", table) PROVE ReInv'
  <2>1. table \in Seq(SocketRow)
    BY SeqOfSet DEF Sockets
  <2> QED
    BY <1>1, <1>7, <2>1
<1>8. ASSUME NEW addrs \in Addresses, NEW links \in NetLinks, TakeUp("interfaces", <<addrs, links>>)
      PROVE  ReInv'
  <2>1. addrs \in Seq(NetAddress) /\ links \in Seq(NetLink)
    BY SeqOfSet DEF Addresses, NetLinks
  <2> QED
    BY <1>1, <1>8, <2>1
<1>9. CASE LogRequest
  <2>1. PICK asked \in {"listed", "other", ""}, log \in LogTexts \cup {Unreadable} :
           TakeUp("log", <<asked, log>>)
    BY <1>9 DEF LogRequest
  <2>2. log \in Seq(LogChars) \cup {Unreadable}
    BY SeqOfSet DEF LogTexts
  <2> QED
    BY <1>1, <2>1, <2>2
<1>10. ASSUME NEW page \in BoundedSeq(Hits, MaxHits), TakeUp("search", page) PROVE ReInv'
  <2>1. page \in Seq(Hits)
    BY SeqOfSet
  <2> QED
    BY <1>1, <1>10, <2>1
<1>11. ASSUME NEW url \in BoundedSeq(Letters, TargetLength), TakeUp("target", url) PROVE ReInv'
  <2>1. url \in Seq(Letters)
    BY SeqOfSet
  <2> QED
    BY <1>1, <1>11, <2>1
<1>12. CASE input' = NoInput
  BY <1>12 DEF ReInv, NoInput
<1>13. CASE UNCHANGED reVars
  BY <1>13 DEF reVars, ReInv
<1> QED
  BY <1>2, <1>3, <1>4, <1>5, <1>6, <1>7, <1>8, <1>9, <1>10, <1>11, <1>12, <1>13 DEF ReNext

(* Every page and every target is matched, so those taken up are. *)
LEMMA ReInvMatches == ReInv => SearchMatches
BY SearchAssumption, ResultsMatched, TargetsMatched DEF ReInv, SearchMatches

(* Every text reads back, so those taken up do. *)
LEMMA ReInvReads == ReInv => ReadsWhatWasWritten
<1> SUFFICES ASSUME ReInv PROVE ReadsWhatWasWritten
  OBVIOUS
<1> DEFINE k == input.kind
           of == input.of
<1>1. k = "list" => ListReads(of)
  <2>1. k = "list" => of \in Seq(Cells)
    BY DEF ReInv
  <2> QED
    BY <2>1, ListRead
<1>2. k = "number" => NumberReads(of[1], of[2])
  <2>1. k = "number" => of[1] \in Signs /\ of[2] \in 0..99
    BY DEF ReInv
  <2> QED
    BY <2>1, NumberRead
<1>3. WordReads(of)
  BY WordRead
<1>4. k = "containers" => ContainersRead(of)
  <2>1. k = "containers" => of \in Seq(Words \X Words \X Phrases \X Phrases)
    BY DEF ReInv, ContainerRow
  <2> QED
    BY <2>1, ContainersReadBack
<1>5. k = "accounts" => AccountsRead(of)
  <2>1. k = "accounts" => of \in Seq(Phrases \X Words \X Phrases)
    BY DEF ReInv, AccountRow
  <2> QED
    BY <2>1, AccountsReadBack
<1>6. k = "sockets" => SocketsRead(of) /\ FiguresRead(of)
  <2>1. k = "sockets" => of \in Seq(Words \X Words \X Words \X Words)
    BY DEF ReInv, SocketRow
  <2> QED
    BY <2>1, SocketsReadBack, FiguresReadBack
<1>7. k = "interfaces" => InterfacesRead(of[1], of[2])
  <2>1. k = "interfaces" => of[1] \in Seq(NetAddress) /\ of[2] \in Seq(NetLink)
    BY DEF ReInv
  <2> QED
    BY <2>1, InterfacesReadBack
<1>8. k = "log" => LogReads(of[1], of[2])
  <2>1. k = "log" => of[2] \in Seq(Glyphs \cup {" ", "nl"}) \cup {Unreadable}
    BY DEF ReInv, LogChars
  <2> QED
    BY <2>1, LogReadsBack
<1> HIDE DEF k, of
<1>9. ReadsWhatWasWritten =
        CASE k = "list" -> ListReads(of)
          [] k = "number" -> NumberReads(of[1], of[2])
          [] k = "word" -> WordReads(of)
          [] k = "containers" -> ContainersRead(of)
          [] k = "accounts" -> AccountsRead(of)
          [] k = "sockets" -> SocketsRead(of) /\ FiguresRead(of)
          [] k = "interfaces" -> InterfacesRead(of[1], of[2])
          [] k = "log" -> LogReads(of[1], of[2])
          [] OTHER -> TRUE
  BY DEF ReadsWhatWasWritten, k, of
<1> QED
  BY <1>1, <1>2, <1>3, <1>4, <1>5, <1>6, <1>7, <1>8, <1>9
=============================================================================
