----------------------------- MODULE ListsProofs -----------------------------
(***************************************************************************)
(* Induction over the natural numbers, from the well-foundedness of < and  *)
(* the theorem that a set has a minimal element, and with it what Filter   *)
(* computes.                                                               *)
(***************************************************************************)
EXTENDS Lists, SequenceTheorems, WellFoundedInduction, TLAPS

-----------------------------------------------------------------------------
(* Induction                                                                *)

Below == OpToRel(<, Nat)

\* A set of natural numbers has a least element.
LEMMA Smallest ==
  ASSUME NEW T, T \subseteq Nat, T # {}
  PROVE  \E n \in T : \A m \in T : n <= m
<1>1. IsWellFoundedOn(Below, Nat)
  BY NatLessThanWellFounded DEF Below
<1>2. PICK n \in T : \A m \in T : <<m, n>> \notin Below
  BY <1>1, WFMin, Zenon
<1>3. Below = {ss \in Nat \X Nat : ss[1] < ss[2]}
  BY DEF Below, OpToRel
<1>4. \A m \in T : ~ (m < n)
  BY <1>2, <1>3
<1>5. QED
  BY <1>4

\* A set with 0 and with the successor of each of its members holds every
\* natural number: induction, with the set for the predicate.
LEMMA Induction ==
  ASSUME NEW T, 0 \in T, \A n \in Nat : n \in T => n + 1 \in T
  PROVE  Nat \subseteq T
<1> SUFFICES ASSUME Nat \ T # {}
             PROVE  FALSE
  OBVIOUS
<1>1. PICK n \in Nat \ T : \A m \in Nat \ T : n <= m
  BY Smallest, Zenon
<1>2. n # 0 /\ n - 1 \in Nat /\ n - 1 \in T
  BY <1>1
<1>3. QED
  BY <1>1, <1>2

-----------------------------------------------------------------------------
(* Filter                                                                   *)

\* How FilterTo goes on.
Step(f, list, S, n) ==
  IF n = 0 THEN <<>>
  ELSE IF list[n] \in S THEN Append(f[n - 1], list[n]) ELSE f[n - 1]

Filters(f, list, S, n) == f = [k \in 0 .. n |-> Step(f, list, S, k)]

\* A function that goes on so exists for every length.
LEMMA FilterExists ==
  ASSUME NEW list, NEW S
  PROVE  \A n \in Nat : \E f : Filters(f, list, S, n)
<1> DEFINE T == {n \in Nat : \E f : Filters(f, list, S, n)}
<1>1. 0 \in T
  <2>1. Filters([k \in 0 .. 0 |-> <<>>], list, S, 0)
    BY DEF Filters, Step
  <2>2. QED
    BY <2>1
<1>2. ASSUME NEW n \in Nat, n \in T
      PROVE  n + 1 \in T
  <2>1. PICK f : Filters(f, list, S, n)
    BY <1>2
  <2> DEFINE next == IF list[n + 1] \in S THEN Append(f[n], list[n + 1]) ELSE f[n]
             g == [k \in 0 .. n + 1 |-> IF k = n + 1 THEN next ELSE f[k]]
  <2>2. \A k \in 0 .. n : f[k] = Step(f, list, S, k)
    BY <2>1 DEF Filters
  <2>3. ASSUME NEW k \in 0 .. n + 1
        PROVE  g[k] = Step(g, list, S, k)
    <3> HIDE DEF next
    <3>1. CASE k = n + 1
      BY <3>1 DEF Step, next
    <3>2. CASE k # n + 1
      BY <2>2, <3>2 DEF Step
    <3>3. QED
      BY <3>1, <3>2
  <2>4. Filters(g, list, S, n + 1)
    <3> HIDE DEF next
    <3>1. g = [k \in 0 .. n + 1 |-> g[k]]
      OBVIOUS
    <3> HIDE DEF g
    <3>2. QED
      BY <2>3, <3>1 DEF Filters
  <2>5. QED
    BY <2>4
<1>3. Nat \subseteq T
  <2> HIDE DEF T
  <2>1. QED
    BY <1>1, <1>2, Induction
<1>4. QED
  BY <1>3

\* FilterTo is such a function.
LEMMA FilterSteps ==
  ASSUME NEW list, NEW S, Len(list) \in Nat
  PROVE  \A n \in 0 .. Len(list) : FilterTo(list, S)[n] = Step(FilterTo(list, S), list, S, n)
<1>1. PICK f : Filters(f, list, S, Len(list))
  BY FilterExists
<1>2. Filters(FilterTo(list, S), list, S, Len(list))
  BY <1>1 DEF FilterTo, Filters, Step
<1>3. QED
  BY <1>2 DEF Filters

\* Of a list whose first k elements are outside the set and whose others are
\* in it, Filter leaves the others.
LEMMA FilterSuffix ==
  ASSUME NEW A, NEW list \in Seq(A), NEW S, NEW k \in 0 .. Len(list),
         \A i \in 1 .. k : list[i] \notin S,
         \A i \in k + 1 .. Len(list) : list[i] \in S
  PROVE  /\ Filter(list, S) \in Seq(A)
         /\ Len(Filter(list, S)) = Len(list) - k
         /\ \A i \in 1 .. Len(list) - k : Filter(list, S)[i] = list[k + i]
<1> DEFINE f == FilterTo(list, S)
           Left(n) == IF n <= k THEN 0 ELSE n - k
           Done(g, n) == /\ g \in Seq(A)
                         /\ Len(g) = Left(n)
                         /\ \A i \in 1 .. Left(n) : g[i] = list[k + i]
           T == {n \in Nat : n <= Len(list) => Done(f[n], n)}
<1>0. Len(list) \in Nat /\ \A n \in 0 .. Len(list) : f[n] = Step(f, list, S, n)
  BY FilterSteps
<1> HIDE DEF f
<1>1. 0 \in T
  <2>1. f[0] = <<>>
    BY <1>0 DEF Step
  <2>2. Done(<<>>, 0)
    OBVIOUS
  <2>3. QED
    BY <2>1, <2>2, Zenon
<1>2. ASSUME NEW n \in Nat, n \in T
      PROVE  n + 1 \in T
  <2> SUFFICES ASSUME n + 1 <= Len(list)
               PROVE  Done(f[n + 1], n + 1)
    OBVIOUS
  <2>0. Done(f[n], n)
    <3> HIDE DEF Done
    <3>1. QED
      BY <1>0, <1>2
  <2>1. /\ f[n] \in Seq(A)
        /\ Len(f[n]) = Left(n)
        /\ \A i \in 1 .. Left(n) : f[n][i] = list[k + i]
    BY <2>0
  <2>2. f[n + 1] = IF list[n + 1] \in S THEN Append(f[n], list[n + 1]) ELSE f[n]
    BY <1>0 DEF Step
  <2>3. CASE n + 1 <= k
    <3>1. f[n + 1] = f[n] /\ Left(n + 1) = 0 /\ Left(n) = 0
      BY <2>2, <2>3
    <3>2. QED
      BY <2>1, <3>1
  <2>4. CASE n + 1 > k
    <3>1. f[n + 1] = Append(f[n], list[n + 1]) /\ Left(n) = n - k /\ Left(n + 1) = n + 1 - k
      BY <2>2, <2>4
    <3>2. list[n + 1] \in A
      BY <1>0
    <3>3. /\ f[n + 1] \in Seq(A)
          /\ Len(f[n + 1]) = Len(f[n]) + 1
          /\ \A i \in 1 .. Len(f[n]) : f[n + 1][i] = f[n][i]
          /\ f[n + 1][Len(f[n]) + 1] = list[n + 1]
      BY <2>1, <3>1, <3>2, AppendProperties
    <3> HIDE DEF Left
    <3>4. ASSUME NEW i \in 1 .. Left(n + 1)
          PROVE  f[n + 1][i] = list[k + i]
      <4>1. CASE i <= n - k
        BY <2>1, <3>1, <3>3, <4>1
      <4>2. CASE i = n + 1 - k
        <5>1. i = Len(f[n]) + 1 /\ k + i = n + 1
          BY <2>1, <3>1, <4>2
        <5>2. QED
          BY <3>3, <5>1
      <4>3. i \in 1 .. n + 1 - k /\ k \in Nat
        BY <3>1, <1>0
      <4>4. i <= n - k \/ i = n + 1 - k
        BY <4>3
      <4>5. QED
        BY <4>1, <4>2, <4>4
    <3>5. Len(f[n + 1]) = Left(n + 1)
      BY <2>1, <3>1, <3>3
    <3>6. QED
      BY <3>3, <3>4, <3>5
  <2>5. QED
    BY <2>3, <2>4
<1>3. Nat \subseteq T
  <2> HIDE DEF T
  <2>1. QED
    BY <1>1, <1>2, Induction
<1>4. Filter(list, S) = f[Len(list)] /\ Left(Len(list)) = Len(list) - k
  BY <1>0 DEF Filter, f
<1>5. Done(f[Len(list)], Len(list))
  <2> HIDE DEF Done
  <2>1. QED
    BY <1>0, <1>3
<1>6. QED
  BY <1>4, <1>5

\* Filter leaves the elements of the list that are in the set, all of them and no
\* more than the list has; if as many, it leaves the list.
LEMMA FilterMembers ==
  ASSUME NEW A, NEW list \in Seq(A), NEW S
  PROVE  /\ Filter(list, S) \in Seq(A)
         /\ \A i \in 1 .. Len(Filter(list, S)) :
              Filter(list, S)[i] \in S /\ \E j \in 1 .. Len(list) : Filter(list, S)[i] = list[j]
         /\ \A j \in 1 .. Len(list) : list[j] \in S =>
              \E i \in 1 .. Len(Filter(list, S)) : Filter(list, S)[i] = list[j]
         /\ Len(Filter(list, S)) <= Len(list)
         /\ Len(Filter(list, S)) = Len(list) => Filter(list, S) = list
<1> DEFINE f == FilterTo(list, S)
           Sound(g, n) == \A i \in 1 .. Len(g) : g[i] \in S /\ \E j \in 1 .. n : g[i] = list[j]
           Full(g, n) == \A j \in 1 .. n : list[j] \in S => \E i \in 1 .. Len(g) : g[i] = list[j]
           Same(g, n) == Len(g) = n => \A i \in 1 .. n : g[i] = list[i]
           Done(g, n) == g \in Seq(A) /\ Sound(g, n) /\ Full(g, n) /\ Len(g) <= n /\ Same(g, n)
           T == {n \in Nat : n <= Len(list) => Done(f[n], n)}
<1>0. Len(list) \in Nat /\ \A n \in 0 .. Len(list) : f[n] = Step(f, list, S, n)
  BY FilterSteps
<1> HIDE DEF f
<1>1. 0 \in T
  <2>1. f[0] = <<>>
    BY <1>0 DEF Step
  <2>2. Done(<<>>, 0)
    OBVIOUS
  <2>3. QED
    BY <2>1, <2>2, Zenon
<1>2. ASSUME NEW n \in Nat, n \in T
      PROVE  n + 1 \in T
  <2> SUFFICES ASSUME n + 1 <= Len(list)
               PROVE  Done(f[n + 1], n + 1)
    OBVIOUS
  <2>0. Done(f[n], n)
    <3> HIDE DEF Done
    <3>1. QED
      BY <1>0, <1>2
  <2>1. f[n] \in Seq(A) /\ Len(f[n]) \in Nat /\ Len(f[n]) <= n
    BY <2>0
  <2>2. f[n + 1] = IF list[n + 1] \in S THEN Append(f[n], list[n + 1]) ELSE f[n]
    BY <1>0 DEF Step
  <2>3. CASE list[n + 1] \notin S
    <3>1. f[n + 1] = f[n]
      BY <2>2, <2>3
    <3>2. Sound(f[n], n + 1)
      BY <2>0
    <3>3. Full(f[n], n + 1)
      <4> SUFFICES ASSUME NEW j \in 1 .. n + 1, list[j] \in S
                   PROVE  \E i \in 1 .. Len(f[n]) : f[n][i] = list[j]
        OBVIOUS
      <4>1. j \in 1 .. n
        BY <2>3
      <4>2. QED
        BY <2>0, <4>1
    <3>4. Len(f[n]) <= n + 1 /\ Same(f[n], n + 1)
      BY <2>1
    <3>5. QED
      BY <2>1, <3>1, <3>2, <3>3, <3>4
  <2>4. CASE list[n + 1] \in S
    <3>1. f[n + 1] = Append(f[n], list[n + 1]) /\ list[n + 1] \in A
      BY <1>0, <2>2, <2>4
    <3>2. /\ f[n + 1] \in Seq(A)
          /\ Len(f[n + 1]) = Len(f[n]) + 1
          /\ \A i \in 1 .. Len(f[n]) : f[n + 1][i] = f[n][i]
          /\ f[n + 1][Len(f[n]) + 1] = list[n + 1]
      BY <2>1, <3>1, AppendProperties
    <3>3. Sound(f[n + 1], n + 1)
      <4> SUFFICES ASSUME NEW i \in 1 .. Len(f[n + 1])
                   PROVE  f[n + 1][i] \in S /\ \E j \in 1 .. n + 1 : f[n + 1][i] = list[j]
        OBVIOUS
      <4>1. CASE i = Len(f[n]) + 1
        BY <2>4, <3>2, <4>1
      <4>2. CASE i # Len(f[n]) + 1
        <5>1. i \in 1 .. Len(f[n])
          BY <2>1, <3>2, <4>2
        <5>2. f[n][i] \in S /\ \E j \in 1 .. n : f[n][i] = list[j]
          BY <2>0, <5>1
        <5>3. QED
          BY <3>2, <5>1, <5>2
      <4>3. QED
        BY <4>1, <4>2
    <3>4. Full(f[n + 1], n + 1)
      <4> SUFFICES ASSUME NEW j \in 1 .. n + 1, list[j] \in S
                   PROVE  \E i \in 1 .. Len(f[n + 1]) : f[n + 1][i] = list[j]
        OBVIOUS
      <4>1. CASE j = n + 1
        BY <2>1, <3>2, <4>1
      <4>2. CASE j # n + 1
        <5>1. PICK i \in 1 .. Len(f[n]) : f[n][i] = list[j]
          BY <2>0, <4>2
        <5>2. QED
          BY <2>1, <3>2, <5>1
      <4>3. QED
        BY <4>1, <4>2
    <3>5. Len(f[n + 1]) <= n + 1
      BY <2>1, <3>2
    <3>6. Same(f[n + 1], n + 1)
      <4> SUFFICES ASSUME Len(f[n + 1]) = n + 1, NEW i \in 1 .. n + 1
                   PROVE  f[n + 1][i] = list[i]
        OBVIOUS
      <4>1. Len(f[n]) = n
        BY <2>1, <3>2
      <4>2. \A k \in 1 .. n : f[n][k] = list[k]
        BY <2>0, <4>1
      <4>3. QED
        BY <3>2, <4>1, <4>2
    <3>7. QED
      BY <3>2, <3>3, <3>4, <3>5, <3>6
  <2>5. QED
    BY <2>3, <2>4
<1>3. Nat \subseteq T
  <2> HIDE DEF T
  <2>1. QED
    BY <1>1, <1>2, Induction
<1>4. Filter(list, S) = f[Len(list)]
  BY DEF Filter, f
<1>5. Done(f[Len(list)], Len(list))
  <2> HIDE DEF Done
  <2>1. QED
    BY <1>0, <1>3
<1>6. Len(f[Len(list)]) = Len(list) => f[Len(list)] = list
  BY <1>5, SeqEqual
<1>7. QED
  BY <1>4, <1>5, <1>6

\* What holds of any two elements of a list, the earlier and the later, holds of
\* those that Filter leaves.
LEMMA FilterOrder ==
  ASSUME NEW A, NEW list \in Seq(A), NEW S, NEW R,
         \A i, j \in 1 .. Len(list) : i < j => <<list[i], list[j]>> \in R
  PROVE  \A i, j \in 1 .. Len(Filter(list, S)) :
           i < j => <<Filter(list, S)[i], Filter(list, S)[j]>> \in R
<1> DEFINE f == FilterTo(list, S)
           From(g, n) == \A i \in 1 .. Len(g) : \E j \in 1 .. n : g[i] = list[j]
           Ordered(g) == \A i, j \in 1 .. Len(g) : i < j => <<g[i], g[j]>> \in R
           Done(g, n) == g \in Seq(A) /\ From(g, n) /\ Ordered(g)
           T == {n \in Nat : n <= Len(list) => Done(f[n], n)}
<1>0. Len(list) \in Nat /\ \A n \in 0 .. Len(list) : f[n] = Step(f, list, S, n)
  BY FilterSteps
<1> HIDE DEF f
<1>1. 0 \in T
  <2>1. f[0] = <<>>
    BY <1>0 DEF Step
  <2>2. Done(<<>>, 0)
    OBVIOUS
  <2>3. QED
    BY <2>1, <2>2, Zenon
<1>2. ASSUME NEW n \in Nat, n \in T
      PROVE  n + 1 \in T
  <2> SUFFICES ASSUME n + 1 <= Len(list)
               PROVE  Done(f[n + 1], n + 1)
    OBVIOUS
  <2>0. Done(f[n], n)
    <3> HIDE DEF Done
    <3>1. QED
      BY <1>0, <1>2
  <2>1. f[n] \in Seq(A) /\ Len(f[n]) \in Nat
    BY <2>0
  <2>2. f[n + 1] = IF list[n + 1] \in S THEN Append(f[n], list[n + 1]) ELSE f[n]
    BY <1>0 DEF Step
  <2>3. CASE list[n + 1] \notin S
    <3>1. f[n + 1] = f[n]
      BY <2>2, <2>3
    <3>2. From(f[n], n + 1)
      BY <2>0
    <3>3. QED
      BY <2>0, <3>1, <3>2
  <2>4. CASE list[n + 1] \in S
    <3>1. f[n + 1] = Append(f[n], list[n + 1]) /\ list[n + 1] \in A
      BY <1>0, <2>2, <2>4
    <3>2. /\ f[n + 1] \in Seq(A)
          /\ Len(f[n + 1]) = Len(f[n]) + 1
          /\ \A i \in 1 .. Len(f[n]) : f[n + 1][i] = f[n][i]
          /\ f[n + 1][Len(f[n]) + 1] = list[n + 1]
      BY <2>1, <3>1, AppendProperties
    <3>3. From(f[n + 1], n + 1)
      <4> SUFFICES ASSUME NEW i \in 1 .. Len(f[n + 1])
                   PROVE  \E j \in 1 .. n + 1 : f[n + 1][i] = list[j]
        OBVIOUS
      <4>1. CASE i = Len(f[n]) + 1
        BY <3>2, <4>1
      <4>2. CASE i # Len(f[n]) + 1
        <5>1. i \in 1 .. Len(f[n])
          BY <2>1, <3>2, <4>2
        <5>2. \E j \in 1 .. n : f[n][i] = list[j]
          BY <2>0, <5>1
        <5>3. QED
          BY <3>2, <5>1, <5>2
      <4>3. QED
        BY <4>1, <4>2
    <3>4. Ordered(f[n + 1])
      <4> SUFFICES ASSUME NEW i \in 1 .. Len(f[n + 1]), NEW j \in 1 .. Len(f[n + 1]), i < j
                   PROVE  <<f[n + 1][i], f[n + 1][j]>> \in R
        OBVIOUS
      <4>1. i \in 1 .. Len(f[n]) /\ f[n + 1][i] = f[n][i]
        BY <2>1, <3>2
      <4>2. CASE j = Len(f[n]) + 1
        <5>1. PICK k \in 1 .. n : f[n][i] = list[k]
          BY <2>0, <4>1
        <5>2. <<list[k], list[n + 1]>> \in R
          BY <1>0, <5>1
        <5>3. QED
          BY <3>2, <4>1, <4>2, <5>1, <5>2
      <4>3. CASE j # Len(f[n]) + 1
        <5>1. j \in 1 .. Len(f[n]) /\ f[n + 1][j] = f[n][j]
          BY <2>1, <3>2, <4>3
        <5>2. QED
          BY <2>0, <4>1, <5>1
      <4>4. QED
        BY <4>2, <4>3
    <3>5. QED
      BY <3>2, <3>3, <3>4
  <2>5. QED
    BY <2>3, <2>4
<1>3. Nat \subseteq T
  <2> HIDE DEF T
  <2>1. QED
    BY <1>1, <1>2, Induction
<1>4. Filter(list, S) = f[Len(list)]
  BY DEF Filter, f
<1>5. Done(f[Len(list)], Len(list))
  <2> HIDE DEF Done
  <2>1. QED
    BY <1>0, <1>3
<1>6. QED
  BY <1>4, <1>5

-----------------------------------------------------------------------------
(* Recursion                                                                *)

\* A function on 0 .. n that starts with a and goes on as step says.
Iterates(f, a, step, n) ==
  f = [k \in 0 .. n |-> IF k = 0 THEN a ELSE step[<<f[k - 1], k>>]]

\* There is one for every length, step being given as a function on a set.
LEMMA Recursion ==
  ASSUME NEW A, NEW a \in A, NEW step \in [A \X Nat -> A]
  PROVE  \A n \in Nat : \E f \in [0 .. n -> A] : Iterates(f, a, step, n)
<1> DEFINE T == {n \in Nat : \E f \in [0 .. n -> A] : Iterates(f, a, step, n)}
<1>1. 0 \in T
  <2>1. [k \in 0 .. 0 |-> a] \in [0 .. 0 -> A] /\ Iterates([k \in 0 .. 0 |-> a], a, step, 0)
    BY DEF Iterates
  <2>2. QED
    BY <2>1
<1>2. ASSUME NEW n \in Nat, n \in T
      PROVE  n + 1 \in T
  <2>1. PICK f \in [0 .. n -> A] : Iterates(f, a, step, n)
    BY <1>2
  <2> DEFINE next == step[<<f[n], n + 1>>]
             g == [k \in 0 .. n + 1 |-> IF k = n + 1 THEN next ELSE f[k]]
  <2>2. next \in A
    BY <2>1
  <2>3. \A k \in 0 .. n : f[k] = IF k = 0 THEN a ELSE step[<<f[k - 1], k>>]
    BY <2>1 DEF Iterates
  <2>4. ASSUME NEW k \in 0 .. n + 1
        PROVE  g[k] \in A /\ g[k] = IF k = 0 THEN a ELSE step[<<g[k - 1], k>>]
    <3>1. CASE k = n + 1
      <4>1. g[k] = next /\ g[k - 1] = f[n] /\ k # 0
        BY <3>1
      <4>2. QED
        BY <2>2, <3>1, <4>1
    <3>2. CASE k # n + 1
      <4>1. k \in 0 .. n /\ g[k] = f[k]
        BY <3>2
      <4>2. k # 0 => g[k - 1] = f[k - 1]
        BY <4>1
      <4> HIDE DEF g
      <4>3. QED
        BY <2>1, <2>3, <4>1, <4>2
    <3>3. QED
      BY <3>1, <3>2
  <2>5. g \in [0 .. n + 1 -> A] /\ Iterates(g, a, step, n + 1)
    <3> HIDE DEF next
    <3>1. g = [k \in 0 .. n + 1 |-> g[k]]
      OBVIOUS
    <3> HIDE DEF g
    <3>2. QED
      BY <2>4, <3>1 DEF Iterates
  <2>6. QED
    BY <2>5
<1>3. Nat \subseteq T
  <2> HIDE DEF T
  <2>1. QED
    BY <1>1, <1>2, Induction
<1>4. QED
  BY <1>3

\* A sum of natural numbers is one.
LEMMA SumNatural ==
  ASSUME NEW list \in Seq(Nat)
  PROVE  SumOf(list) \in Nat
<1> DEFINE N == Len(list)
           add == [x \in Nat \X Nat |-> IF x[2] \in 1 .. N THEN x[1] + list[x[2]] ELSE x[1]]
           Sums(f) == f = [n \in 0 .. N |-> IF n = 0 THEN 0 ELSE f[n - 1] + list[n]]
<1>1. N \in Nat /\ \A n \in 1 .. N : list[n] \in Nat
  OBVIOUS
<1>2. add \in [Nat \X Nat -> Nat] /\ \A m \in Nat, n \in 1 .. N : add[<<m, n>>] = m + list[n]
  BY <1>1, SMTT(30)
<1>3. SumTo(list) = CHOOSE f : Sums(f)
  BY DEF SumTo
<1> HIDE DEF N, add
<1>4. PICK f \in [0 .. N -> Nat] : Iterates(f, 0, add, N)
  BY <1>1, <1>2, Recursion
<1>5. ASSUME NEW n \in 0 .. N
      PROVE  f[n] = IF n = 0 THEN 0 ELSE f[n - 1] + list[n]
  <2>1. f[n] = IF n = 0 THEN 0 ELSE add[<<f[n - 1], n>>]
    BY <1>4 DEF Iterates
  <2>2. n # 0 => f[n - 1] \in Nat /\ n \in 1 .. N
    BY <1>1, <1>4
  <2>3. QED
    BY <1>2, <2>1, <2>2
<1>6. f = [n \in 0 .. N |-> f[n]]
  OBVIOUS
<1>7. Sums(f)
  BY <1>5, <1>6
<1>8. Sums(SumTo(list))
  BY <1>3, <1>7
<1>9. \A n \in 0 .. N : SumTo(list)[n] = IF n = 0 THEN 0 ELSE SumTo(list)[n - 1] + list[n]
  BY <1>8
<1> DEFINE T == {n \in Nat : n <= N => SumTo(list)[n] \in Nat}
<1>10. 0 \in T
  BY <1>1, <1>9
<1>11. ASSUME NEW n \in Nat, n \in T
       PROVE  n + 1 \in T
  <2> SUFFICES ASSUME n + 1 <= N
               PROVE  SumTo(list)[n + 1] \in Nat
    OBVIOUS
  <2>1. n + 1 \in 0 .. N /\ n + 1 \in 1 .. N /\ SumTo(list)[n] \in Nat
    BY <1>1, <1>11
  <2>2. SumTo(list)[n + 1] = SumTo(list)[n] + list[n + 1]
    BY <1>9, <2>1
  <2>3. QED
    BY <1>1, <2>1, <2>2
<1>12. Nat \subseteq T
  <2> HIDE DEF T
  <2>1. QED
    BY <1>10, <1>11, Induction
<1>13. QED
  BY <1>1, <1>12 DEF SumOf, N
=============================================================================
