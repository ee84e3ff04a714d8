------------------------------- MODULE Recursion -------------------------------
(***************************************************************************)
(* What the proofs about definitions by recursion rest on: induction over    *)
(* the natural numbers, for the set of the numbers a fact holds of, and      *)
(* functions that are defined by their value at 0 and the step from one      *)
(* value to the next.  A loop of the C code that computes something from the *)
(* elements one after the other is such a function; FlattenSeq is another.   *)
(***************************************************************************)
EXTENDS Integers, SequencesExt, WellFoundedInduction, TLAPS

\* A set of natural numbers that is not empty has a smallest one.
LEMMA LeastNatural ==
    ASSUME NEW T, T \subseteq Nat, T # {}
    PROVE  \E n \in T : \A m \in T : n <= m
<1>1. PICK n \in T : \A m \in T : <<m, n>> \notin OpToRel(<, Nat)
    BY NatLessThanWellFounded, WFMin, Zenon
<1>2. \A m \in T : ~(m < n)
    <2> SUFFICES ASSUME NEW m \in T, m < n PROVE FALSE
        OBVIOUS
    <2> DEFINE R == {ss \in Nat \X Nat : ss[1] < ss[2]}
    <2>1. <<m, n>> \in R
        OBVIOUS
    <2>2. OpToRel(<, Nat) = R
        BY Zenon DEF OpToRel
    <2> HIDE DEF R
    <2> QED
        BY <2>1, <2>2, <1>1, Zenon
<1> QED
    BY <1>2

\* What holds of 0 and of every successor holds of all: the set of the numbers it holds of.
LEMMA Induction ==
    ASSUME NEW T, 0 \in T, \A n \in Nat : n \in T => n + 1 \in T
    PROVE  Nat \subseteq T
<1> SUFFICES ASSUME Nat \ T # {} PROVE FALSE
    OBVIOUS
<1>1. PICK n \in Nat \ T : \A m \in Nat \ T : n <= m
    BY LeastNatural
<1>2. n # 0 /\ n - 1 \in Nat
    BY <1>1
<1>3. n - 1 \in T
    BY <1>1, <1>2
<1>4. (n - 1) + 1 \in T
    BY <1>2, <1>3
<1> QED
    BY <1>1, <1>2, <1>4

\* f starts at c and goes on by step, which is given the number of the value and the value.
IsIteration(f, S, c, step) ==
    f \in [Nat -> S] /\ f[0] = c /\ \A n \in Nat : f[n + 1] = step[n][f[n]]

\* A first value and a step from each value to the next define a function.
LEMMA RecursiveFunction ==
    ASSUME NEW S, NEW c \in S, NEW step \in [Nat -> [S -> S]]
    PROVE  \E f : IsIteration(f, S, c, step)
<1> DEFINE Up(f, n) == /\ f \in [0..n -> S] /\ f[0] = c
                       /\ \A k \in 0..(n - 1) : f[k + 1] = step[k][f[k]]
           T == {n \in Nat : \E f : Up(f, n)}
<1>1. 0 \in T
    <2>1. Up([k \in 0..0 |-> c], 0)
        OBVIOUS
    <2> QED
        BY <2>1
<1>2. \A n \in Nat : n \in T => n + 1 \in T
    <2> SUFFICES ASSUME NEW n \in Nat, n \in T PROVE n + 1 \in T
        OBVIOUS
    <2>1. PICK f : Up(f, n)
        OBVIOUS
    <2> DEFINE g == [k \in 0..(n + 1) |-> IF k = n + 1 THEN step[n][f[n]] ELSE f[k]]
    <2>2. f[n] \in S /\ step[n][f[n]] \in S
        BY <2>1
    <2>3. g \in [0..(n + 1) -> S] /\ g[0] = c
        BY <2>1, <2>2
    <2>4. \A k \in 0..n : g[k + 1] = step[k][g[k]]
        BY <2>1
    <2>5. Up(g, n + 1)
        <3> HIDE DEF g
        <3>1. (n + 1) - 1 = n
            OBVIOUS
        <3> QED
            BY <2>3, <2>4, <3>1
    <2> HIDE DEF g, Up
    <2>6. \E h : Up(h, n + 1)
        BY <2>5
    <2> QED
        BY <2>6
<1>3. \A n \in Nat : \E f : Up(f, n)
    <2> HIDE DEF T
    <2>1. Nat \subseteq T
        BY <1>1, <1>2, Induction, Zenon
    <2>2. \A n \in T : \E f : Up(f, n)
        <3> HIDE DEF Up
        <3> QED
            BY DEF T
    <2> QED
        BY <2>1, <2>2
<1> DEFINE At(n) == CHOOSE f : Up(f, n)
<1>4. \A n \in Nat : Up(At(n), n)
    <2> HIDE DEF Up
    <2> QED
        BY <1>3, Zenon
<1>5. ASSUME NEW n \in Nat, NEW f, NEW g, Up(f, n), Up(g, n + 1)
      PROVE  f[n] = g[n]
    <2> DEFINE D == {k \in Nat : k <= n => f[k] = g[k]}
    <2>1. 0 \in D
        BY <1>5
    <2>2. ASSUME NEW k \in Nat, k \in D PROVE k + 1 \in D
        <3>1. CASE k + 1 <= n
            <4>1. k \in 0..(n - 1) /\ k \in 0..((n + 1) - 1) /\ f[k] = g[k]
                BY <2>2, <3>1
            <4>2. f[k + 1] = step[k][f[k]] /\ g[k + 1] = step[k][g[k]]
                BY <4>1, <1>5
            <4> QED
                BY <4>1, <4>2
        <3> QED
            BY <3>1
    <2>3. n \in D
        <3> HIDE DEF D
        <3> QED
            BY <2>1, <2>2, Induction
    <2> QED
        BY <2>3
<1> DEFINE F == [n \in Nat |-> At(n)[n]]
<1> HIDE DEF At
<1>6. F \in [Nat -> S]
    <2>1. \A n \in Nat : At(n)[n] \in S
        BY <1>4
    <2> QED
        BY <2>1
<1>7. F[0] = c
    BY <1>4
<1>8. ASSUME NEW n \in Nat PROVE F[n + 1] = step[n][F[n]]
    <2>1. Up(At(n), n) /\ Up(At(n + 1), n + 1)
        BY <1>4
    <2>2. At(n)[n] = At(n + 1)[n]
        <3> HIDE DEF Up
        <3> QED
            BY <2>1, <1>5
    <2>3. n \in 0..((n + 1) - 1)
        OBVIOUS
    <2>4. At(n + 1)[n + 1] = step[n][At(n + 1)[n]]
        BY <2>1, <2>3
    <2> QED
        BY <2>2, <2>4
<1> QED
    <2> HIDE DEF F
    <2>1. IsIteration(F, S, c, step)
        BY <1>6, <1>7, <1>8 DEF IsIteration
    <2> QED
        BY <2>1

\* Induction from m up to k.
LEMMA IntervalInduction ==
    ASSUME NEW m \in Int, NEW k \in Int, NEW T,
           m \in T, \A n \in m..(k - 1) : n \in T => n + 1 \in T
    PROVE  m..k \subseteq T
<1> DEFINE D == {d \in Nat : m + d <= k => m + d \in T}
<1>1. 0 \in D
    OBVIOUS
<1>2. ASSUME NEW d \in Nat, d \in D PROVE d + 1 \in D
    <2>1. CASE m + (d + 1) <= k
        <3>1. m + d \in m..(k - 1) /\ m + d <= k /\ m + d \in T /\ (m + d) + 1 = m + (d + 1)
            BY <1>2, <2>1
        <3> QED
            BY <3>1
    <2> QED
        BY <2>1
<1>3. Nat \subseteq D
    <2> HIDE DEF D
    <2> QED
        BY <1>1, <1>2, Induction
<1>4. ASSUME NEW n \in m..k PROVE n \in T
    <2>1. n - m \in Nat /\ m + (n - m) = n
        OBVIOUS
    <2> QED
        BY <2>1, <1>3
<1> QED
    BY <1>4

--------------------------------------------------------------------------------
(* Concatenations of sequences.                                                *)

\* f[k] is the concatenation of the first k sequences of ss.
Concatenates(f, S, ss) ==
    /\ f \in [Nat -> Seq(S)] /\ f[0] = <<>>
    /\ \A k \in 0..(Len(ss) - 1) : f[k + 1] = f[k] \o ss[k + 1]

LEMMA ConcatenationExists ==
    ASSUME NEW S, NEW ss \in Seq(Seq(S))
    PROVE  \E f : Concatenates(f, S, ss)
<1> DEFINE step == [k \in Nat |-> [s \in Seq(S) |->
               IF k + 1 <= Len(ss) THEN s \o ss[k + 1] ELSE s]]
<1>1. PICK n \in Nat : n = Len(ss) /\ DOMAIN ss = 1..n
    OBVIOUS
<1>2. step \in [Nat -> [Seq(S) -> Seq(S)]]
    <2>1. ASSUME NEW k \in Nat, NEW s \in Seq(S), k + 1 <= Len(ss) PROVE s \o ss[k + 1] \in Seq(S)
        <3>1. ss[k + 1] \in Seq(S)
            BY <1>1, <2>1
        <3> QED
            BY <3>1
    <2> QED
        BY <2>1
<1>3. <<>> \in Seq(S)
    OBVIOUS
<1>4. PICK f : IsIteration(f, Seq(S), <<>>, step)
    <2> HIDE DEF step
    <2> QED
        BY <1>2, <1>3, RecursiveFunction, Zenon
<1>5. f \in [Nat -> Seq(S)] /\ f[0] = <<>> /\ \A k \in Nat : f[k + 1] = step[k][f[k]]
    <2> HIDE DEF step
    <2> QED
        BY <1>4 DEF IsIteration
<1>6. ASSUME NEW k \in 0..(Len(ss) - 1) PROVE f[k + 1] = f[k] \o ss[k + 1]
    <2>1. k \in Nat /\ k + 1 <= Len(ss) /\ f[k] \in Seq(S)
        BY <1>1, <1>5
    <2> QED
        BY <2>1, <1>5
<1> QED
    BY <1>5, <1>6 DEF Concatenates

\* FlattenSeq concatenates all sequences of ss.
LEMMA FlattenConcatenates ==
    ASSUME NEW S, NEW ss \in Seq(Seq(S)), NEW f, Concatenates(f, S, ss)
    PROVE  FlattenSeq(ss) = f[Len(ss)]
<1>1. PICK n \in Nat : n = Len(ss) /\ DOMAIN ss = 1..n
    OBVIOUS
<1>2. f \in [Nat -> Seq(S)] /\ f[0] = <<>> /\ \A k \in 0..(n - 1) : f[k + 1] = f[k] \o ss[k + 1]
    BY <1>1 DEF Concatenates
<1>3. CASE n = 0
    <2>1. ss = <<>>
        BY <1>1, <1>3
    <2> QED
        BY <2>1, <1>1, <1>2, <1>3 DEF FlattenSeq
<1>4. CASE n # 0
    <2> DEFINE Flatten(g) == [i \in 1..Len(ss) |-> IF i = 1 THEN ss[i] ELSE g[i - 1] \o ss[i]]
               h == [i \in 1..Len(ss) |-> f[i]]
    <2>1. ASSUME NEW i \in 1..Len(ss) PROVE h[i] = IF i = 1 THEN ss[i] ELSE h[i - 1] \o ss[i]
        <3>1. PICK k \in 0..(n - 1) : i = k + 1
            <4>1. i - 1 \in 0..(n - 1) /\ i = (i - 1) + 1
                BY <1>1
            <4> QED
                BY <4>1
        <3>2. h[i] = f[k] \o ss[i] /\ ss[i] \in Seq(S)
            <4>1. h[i] = f[i] /\ ss[i] \in Seq(S)
                BY <1>1
            <4>2. f[k + 1] = f[k] \o ss[k + 1]
                BY <1>2
            <4> HIDE DEF h
            <4> QED
                BY <3>1, <4>1, <4>2
        <3>3. CASE k = 0
            <4>1. f[k] = <<>> /\ i = 1
                BY <3>1, <3>3, <1>2
            <4>2. h[i] = ss[i]
                BY <4>1, <3>2
            <4> QED
                BY <4>1, <4>2
        <3>4. CASE k # 0
            <4>1. i - 1 = k /\ k \in 1..Len(ss) /\ i # 1
                BY <3>1, <3>4, <1>1
            <4>2. h[i - 1] = f[k]
                BY <4>1
            <4> QED
                BY <4>1, <4>2, <3>2
        <3> QED
            BY <3>3, <3>4
    <2>2. h = Flatten(h)
        <3>1. ASSUME NEW i \in 1..Len(ss) PROVE h[i] = Flatten(h)[i]
            <4>1. Flatten(h)[i] = IF i = 1 THEN ss[i] ELSE h[i - 1] \o ss[i]
                <5> HIDE DEF h
                <5> QED
                    BY Zenon
            <4> HIDE DEF Flatten, h
            <4> QED
                BY <4>1, <2>1, Zenon
        <3>2. Flatten(h) = [i \in 1..Len(ss) |-> Flatten(h)[i]]
            <4> HIDE DEF h
            <4> QED
                OBVIOUS
        <3>3. h = [i \in 1..Len(ss) |-> h[i]]
            OBVIOUS
        <3> HIDE DEF Flatten, h
        <3> QED
            BY <3>1, <3>2, <3>3
    <2>3. \E g : g = Flatten(g)
        <3> HIDE DEF Flatten, h
        <3> QED
            BY <2>2
    <2> DEFINE flatten == CHOOSE g : g = Flatten(g)
    <2>4. flatten = Flatten(flatten)
        <3> HIDE DEF Flatten
        <3> QED
            BY <2>3, Zenon
    <2>5. FlattenSeq(ss) = flatten[Len(ss)]
        <3>1. Len(ss) # 0
            BY <1>1, <1>4
        <3> QED
            BY <3>1, Zenon DEF FlattenSeq
    <2>6. \A i \in 1..Len(ss) : flatten[i] = IF i = 1 THEN ss[i] ELSE flatten[i - 1] \o ss[i]
        <3> HIDE DEF flatten
        <3> QED
            BY <2>4
    <2> HIDE DEF flatten
    <2> DEFINE T == {i \in 1..n : flatten[i] = f[i]}
    <2>7. 1 \in T
        <3>1. f[1] = f[0] \o ss[1] /\ ss[1] \in Seq(S) /\ 1 \in 1..n
            <4>1. 0 \in 0..(n - 1) /\ 1 \in 1..n
                BY <1>4
            <4>2. f[0 + 1] = f[0] \o ss[0 + 1]
                BY <4>1, <1>2, Zenon
            <4>3. 0 + 1 = 1 /\ ss[1] \in Seq(S)
                BY <4>1, <1>1
            <4> QED
                BY <4>1, <4>2, <4>3
        <3>2. f[1] = ss[1]
            BY <3>1, <1>2
        <3> QED
            BY <3>1, <3>2, <2>6, <1>1
    <2>8. ASSUME NEW i \in 1..(n - 1), i \in T PROVE i + 1 \in T
        <3>1. i + 1 \in 1..n /\ i + 1 # 1 /\ (i + 1) - 1 = i /\ i \in 0..(n - 1)
            OBVIOUS
        <3>2. flatten[i + 1] = flatten[i] \o ss[i + 1]
            BY <3>1, <2>6, <1>1
        <3> QED
            BY <3>1, <3>2, <2>8, <1>2
    <2>9. 1..n \subseteq T
        <3>1. 1 \in Int /\ n \in Int
            OBVIOUS
        <3> HIDE DEF T
        <3> QED
            BY <2>7, <2>8, <3>1, IntervalInduction, Zenon
    <2>10. flatten[n] = f[n]
        BY <2>9, <1>4
    <2> QED
        BY <2>5, <2>10, <1>1
<1> QED
    BY <1>3, <1>4

\* One more sequence comes at the end.
LEMMA FlattenAppend ==
    ASSUME NEW S, NEW ss \in Seq(Seq(S)), NEW t \in Seq(S)
    PROVE  /\ FlattenSeq(ss) \in Seq(S)
           /\ FlattenSeq(Append(ss, t)) = FlattenSeq(ss) \o t
<1>1. PICK n \in Nat : n = Len(ss) /\ DOMAIN ss = 1..n
    OBVIOUS
<1>0. Append(ss, t) \in Seq(Seq(S))
    OBVIOUS
<1>2. PICK u \in Seq(Seq(S)) : u = Append(ss, t)
    BY <1>0, Zenon
<1>3. /\ Len(u) = n + 1 /\ u[n + 1] = t
      /\ \A k \in 1..n : u[k] = ss[k]
    BY <1>1, <1>2
<1>4. PICK f : Concatenates(f, S, u)
    BY ConcatenationExists
<1>5. /\ f \in [Nat -> Seq(S)] /\ f[0] = <<>>
      /\ \A k \in 0..n : f[k + 1] = f[k] \o u[k + 1]
    <2>1. (n + 1) - 1 = n
        OBVIOUS
    <2> QED
        BY <2>1, <1>3, <1>4 DEF Concatenates
<1>6. Concatenates(f, S, ss)
    <2>1. ASSUME NEW k \in 0..(n - 1) PROVE f[k + 1] = f[k] \o ss[k + 1]
        <3>1. k \in 0..n /\ k + 1 \in 1..n
            OBVIOUS
        <3> QED
            BY <3>1, <1>3, <1>5
    <2> QED
        BY <2>1, <1>1, <1>5 DEF Concatenates
<1>7. FlattenSeq(ss) = f[n] /\ FlattenSeq(u) = f[n + 1]
    BY <1>1, <1>3, <1>4, <1>6, FlattenConcatenates
<1>8. f[n] \in Seq(S) /\ f[n + 1] = f[n] \o t
    <2>1. f[n + 1] = f[n] \o u[n + 1]
        <3>1. n \in 0..n
            OBVIOUS
        <3> QED
            BY <3>1, <1>5, Zenon
    <2>2. f[n] \in Seq(S) /\ u[n + 1] = t
        BY <1>3, <1>5
    <2> QED
        BY <2>1, <2>2, Zenon
<1> QED
    BY <1>2, <1>7, <1>8, Zenon
================================================================================
