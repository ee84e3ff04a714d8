----------------------------- MODULE ListSortProofs -----------------------------
(***************************************************************************)
(* list_sort rearranges the list whatever its comparator answers, whatever   *)
(* pivots are drawn and however long the list is, and sorts it where the      *)
(* comparator is of the kind the library asks for, or tells what is greater   *)
(* and the list is short.                                                   *)
(*                                                                          *)
(* The quicksort's invariant says of two elements that they are in order     *)
(* already or will be sorted by the same call (Apart); the sublists of the     *)
(* calls do not overlap (Disjoint), so what one call does to its own sublist    *)
(* leaves that so for the others.                                           *)
(***************************************************************************)
EXTENDS ListSort, Recursion

Positions == 1..Len(keys)
Orders == [Positions -> Positions]

\* The comparator tells what is greater, and also what is smaller.
Greater == \A i, j \in Positions : compare(keys[i], keys[j]) > 0 <=> keys[i] > keys[j]
Smaller == \A i, j \in Positions : compare(keys[i], keys[j]) < 0 <=> keys[i] < keys[j]

\* m has the elements of l in another order between i and k, and is l elsewhere.
Rearranges(l, m, i, k) ==
    /\ m \in Orders
    /\ \A j \in Positions \ (i..k) : m[j] = l[j]
    /\ \A j \in i..k : \E h \in i..k : m[j] = l[h]
    /\ \A h \in i..k : \E j \in i..k : m[j] = l[h]

Onto(l) == \A e \in Positions : \E j \in Positions : l[j] = e

\* Everything from position i to k is in order up to position u.
OrderedUpTo(l, i, u, k) ==
    \A a, b \in i..k : a <= u /\ a < b => keys[l[a]] <= keys[l[b]]

\* The call that is running is one of Calls.
Running == call \in Calls /\ keys = call.keys

LEMMA KeysAndAnswers ==
    ASSUME Running
    PROVE  /\ Len(keys) \in Nat /\ keys \in Seq(Int) /\ DOMAIN keys = Positions
           /\ \A i \in Positions : keys[i] \in Int
           /\ \A i, j \in Positions : compare(keys[i], keys[j]) \in Int
           /\ SIMCLIST_MINQUICKSORTELS \in Nat
<1>0. /\ keys \in Seq(Int) /\ SIMCLIST_MINQUICKSORTELS \in Nat
      /\ \A i, j \in DOMAIN keys : compare(keys[i], keys[j]) \in Int
    BY CallsAssumption, Zenon DEF Running, SIMCLIST_MINQUICKSORTELS, compare
<1>1. keys \in Seq(Int) /\ SIMCLIST_MINQUICKSORTELS \in Nat
    BY <1>0
<1>2. Len(keys) \in Nat /\ DOMAIN keys = Positions /\ \A i \in Positions : keys[i] \in Int
    BY <1>1 DEF Positions
<1>3. \A i, j \in Positions : compare(keys[i], keys[j]) \in Int
    BY <1>0, <1>2
<1> QED
    BY <1>1, <1>2, <1>3

LEMMA RearrangesNothing ==
    ASSUME NEW l \in Orders, NEW i \in Int, NEW k \in Int
    PROVE  Rearranges(l, l, i, k)
BY DEF Rearranges

LEMMA RearrangesAgain ==
    ASSUME NEW l \in Orders, NEW m, NEW o, NEW i \in Int, NEW k \in Int,
           Rearranges(l, m, i, k), Rearranges(m, o, i, k)
    PROVE  Rearranges(l, o, i, k)
BY DEF Rearranges

\* Nothing is lost by rearranging.
LEMMA RearrangesOnto ==
    ASSUME NEW l \in Orders, NEW m, NEW i \in Positions, NEW k \in Positions,
           Rearranges(l, m, i, k), Onto(l), Len(keys) \in Nat
    PROVE  Onto(m)
<1> SUFFICES ASSUME NEW e \in Positions PROVE \E j \in Positions : m[j] = e
    BY DEF Onto
<1>1. PICK h \in Positions : l[h] = e
    BY DEF Onto
<1>2. i..k \subseteq Positions
    BY DEF Positions
<1>3. CASE h \in i..k
    BY <1>1, <1>2, <1>3 DEF Rearranges
<1>4. CASE h \notin i..k
    BY <1>1, <1>4 DEF Rearranges
<1> QED
    BY <1>3, <1>4

\* Two entries between i and k exchange their elements.
LEMMA ExchangeRearranges ==
    ASSUME NEW l \in Orders, NEW i \in Positions, NEW k \in Positions, Len(keys) \in Nat,
           NEW a \in i..k, NEW b \in i..k
    PROVE  /\ Rearranges(l, Exchange(l, a, b), i, k)
           /\ \A j \in Positions :
                  Exchange(l, a, b)[j] = IF j = b THEN l[a] ELSE IF j = a THEN l[b] ELSE l[j]
<1>1. i..k \subseteq Positions
    BY DEF Positions
<1>2. PICK m : m = Exchange(l, a, b)
    OBVIOUS
<1>3. /\ m \in Orders
      /\ \A j \in Positions : m[j] = IF j = b THEN l[a] ELSE IF j = a THEN l[b] ELSE l[j]
    BY <1>1, <1>2 DEF Exchange, Orders
<1>4. \A j \in Positions \ (i..k) : m[j] = l[j]
    BY <1>3
<1>5. \A j \in i..k : \E h \in i..k : m[j] = l[h]
    BY <1>1, <1>3
<1>6. ASSUME NEW h \in i..k PROVE \E j \in i..k : m[j] = l[h]
    <2>1. CASE h = a
        BY <2>1, <1>1, <1>3
    <2>2. CASE h = b /\ h # a
        BY <2>2, <1>1, <1>3
    <2>3. CASE h # a /\ h # b
        BY <2>3, <1>1, <1>3
    <2> QED
        BY <2>1, <2>2, <2>3
<1> QED
    BY <1>2, <1>3, <1>4, <1>5, <1>6 DEF Rearranges

--------------------------------------------------------------------------------
(* The selection sort.                                                       *)

\* Where the scan for the smallest element is after position c.
LEMMA ToSwapScans ==
    ASSUME Running, NEW l \in Orders, NEW i \in Positions
    PROVE  \E f :
               /\ \A k : ToSwap(l, i, k) = f[k]
               /\ \A c \in Nat :
                      f[c] = IF c <= i THEN i
                             ELSE IF compare(keys[l[f[c - 1]]], keys[l[c]]) > 0 THEN c ELSE f[c - 1]
<1> DEFINE Scan(g) == [c \in Nat |->
               IF c <= i THEN i
               ELSE LET t == g[c - 1] IN
                    IF compare(keys[l[t]], keys[l[c]]) > 0 THEN c ELSE t]
           step == [c \in Nat |-> [t \in Nat |->
               IF c + 1 <= i THEN i
               ELSE IF compare(keys[l[t]], keys[l[c + 1]]) > 0 THEN c + 1 ELSE t]]
<1>1. i \in Nat
    BY KeysAndAnswers DEF Positions
<1>2. step \in [Nat -> [Nat -> Nat]]
    BY <1>1
<1>3. PICK f \in [Nat -> Nat] : f[0] = i /\ \A c \in Nat : f[c + 1] = step[c][f[c]]
    <2> HIDE DEF step
    <2>1. \E f : IsIteration(f, Nat, i, step)
        BY <1>1, <1>2, RecursiveFunction, Zenon
    <2> QED
        BY <2>1 DEF IsIteration
<1>4. ASSUME NEW c \in Nat
      PROVE  f[c] = IF c <= i THEN i
                    ELSE IF compare(keys[l[f[c - 1]]], keys[l[c]]) > 0 THEN c ELSE f[c - 1]
    <2>1. CASE c = 0
        BY <2>1, <1>1, <1>3
    <2>2. CASE c # 0
        <3>1. c - 1 \in Nat /\ (c - 1) + 1 = c /\ f[c - 1] \in Nat
            BY <2>2
        <3>2. f[c] = step[c - 1][f[c - 1]]
            BY <3>1, <1>3
        <3> QED
            BY <3>1, <3>2
    <2> QED
        BY <2>1, <2>2
<1>5. f = Scan(f)
    <2>1. ASSUME NEW c \in Nat PROVE f[c] = Scan(f)[c]
        <3>1. Scan(f)[c] = IF c <= i THEN i
                           ELSE IF compare(keys[l[f[c - 1]]], keys[l[c]]) > 0 THEN c
                           ELSE f[c - 1]
            BY Zenon
        <3> HIDE DEF Scan
        <3> QED
            BY <3>1, <1>4, Zenon
    <2>2. DOMAIN Scan(f) = Nat /\ Scan(f) = [c \in Nat |-> Scan(f)[c]]
        OBVIOUS
    <2>3. f = [c \in Nat |-> f[c]]
        BY <1>3
    <2> HIDE DEF Scan
    <2> QED
        BY <2>1, <2>2, <2>3
<1>6. \E g : g = Scan(g)
    BY <1>5
<1> DEFINE toswap == CHOOSE g : g = Scan(g)
<1>7. toswap = Scan(toswap)
    <2> HIDE DEF Scan
    <2> QED
        BY <1>6, Zenon
<1>8. \A k : ToSwap(l, i, k) = toswap[k]
    BY Zenon DEF ToSwap
<1>9. \A c \in Nat :
          toswap[c] = IF c <= i THEN i
                      ELSE IF compare(keys[l[toswap[c - 1]]], keys[l[c]]) > 0 THEN c
                      ELSE toswap[c - 1]
    <2> HIDE DEF toswap
    <2> QED
        BY <1>7
<1> HIDE DEF toswap
<1> QED
    BY <1>8, <1>9

\* The scan finds one of the smallest elements.
LEMMA ToSwapSmallest ==
    ASSUME Running, NEW l \in Orders, NEW i \in Positions, NEW k \in Positions, i <= k
    PROVE  /\ ToSwap(l, i, k) \in i..k
           /\ Greater => \A j \in i..k : keys[l[ToSwap(l, i, k)]] <= keys[l[j]]
<1>1. Len(keys) \in Nat /\ i \in Nat /\ k \in Nat /\ i..k \subseteq Positions
    BY KeysAndAnswers DEF Positions
<1>2. \A j \in Positions : l[j] \in Positions /\ keys[l[j]] \in Int
    BY KeysAndAnswers DEF Orders
<1>3. PICK f :
          /\ \A c : ToSwap(l, i, c) = f[c]
          /\ \A c \in Nat :
                 f[c] = IF c <= i THEN i
                        ELSE IF compare(keys[l[f[c - 1]]], keys[l[c]]) > 0 THEN c ELSE f[c - 1]
    BY ToSwapScans
<1> DEFINE T == {c \in i..k : /\ f[c] \in i..c
                              /\ Greater => \A j \in i..c : keys[l[f[c]]] <= keys[l[j]]}
<1>4. i \in T
    BY <1>1, <1>2, <1>3
<1>5. ASSUME NEW c \in i..(k - 1), c \in T PROVE c + 1 \in T
    <2>1. PICK t : t = f[c]
        OBVIOUS
    <2>2. t \in i..c /\ (Greater => \A j \in i..c : keys[l[t]] <= keys[l[j]])
        BY <1>5, <2>1
    <2>3. /\ c \in Nat /\ c + 1 \in Nat /\ (c + 1) - 1 = c /\ c + 1 \in i..k /\ t \in i..k
          /\ ~(c + 1 <= i) /\ i..(c + 1) = i..c \cup {c + 1} /\ i..c \subseteq i..k
        BY <1>1, <2>2
    <2>4. f[c + 1] = IF compare(keys[l[t]], keys[l[c + 1]]) > 0 THEN c + 1 ELSE t
        BY <1>3, <2>1, <2>3
    <2>5. f[c + 1] \in i..(c + 1)
        BY <2>2, <2>3, <2>4
    <2>6. ASSUME Greater PROVE \A j \in i..(c + 1) : keys[l[f[c + 1]]] <= keys[l[j]]
        <3>1. compare(keys[l[t]], keys[l[c + 1]]) > 0 <=> keys[l[t]] > keys[l[c + 1]]
            BY <2>6, <1>1, <1>2, <2>3 DEF Greater
        <3>2. keys[l[t]] \in Int /\ keys[l[c + 1]] \in Int /\ \A j \in i..c : keys[l[j]] \in Int
            BY <1>1, <1>2, <2>3
        <3>3. CASE keys[l[t]] > keys[l[c + 1]]
            BY <2>2, <2>3, <2>4, <2>6, <3>1, <3>2, <3>3
        <3>4. CASE ~(keys[l[t]] > keys[l[c + 1]])
            BY <2>2, <2>3, <2>4, <2>6, <3>1, <3>2, <3>4
        <3> QED
            BY <3>3, <3>4
    <2> QED
        BY <2>3, <2>5, <2>6
<1>6. k \in T
    <2> HIDE DEF T
    <2>1. i..k \subseteq T
        BY <1>1, <1>4, <1>5, IntervalInduction
    <2> QED
        BY <2>1, <1>1
<1> QED
    BY <1>3, <1>6

\* The lists the selection sort goes through.
LEMMA SelectionIterates ==
    ASSUME Running, NEW l \in Orders, NEW i \in Positions, NEW k \in Positions, i <= k
    PROVE  \E f :
               /\ list_sort_selectionsort(l, i, k) = f[k - 1]
               /\ \A u \in (i - 1)..(k - 1) :
                      f[u] = IF u < i THEN l ELSE Exchange(f[u - 1], u, ToSwap(f[u - 1], u, k))
<1> DEFINE Sort(g) == [u \in (i - 1)..(k - 1) |->
               IF u < i THEN l
               ELSE LET s == g[u - 1] IN Exchange(s, u, ToSwap(s, u, k))]
           step == [n \in Nat |-> [s \in Orders |->
               IF i + n <= k - 1 THEN Exchange(s, i + n, ToSwap(s, i + n, k)) ELSE s]]
<1>1. Len(keys) \in Nat /\ i \in Nat /\ k \in Nat /\ i..k \subseteq Positions
    BY KeysAndAnswers DEF Positions
<1>2. step \in [Nat -> [Orders -> Orders]]
    <2>1. ASSUME NEW n \in Nat, NEW s \in Orders, i + n <= k - 1
          PROVE  Exchange(s, i + n, ToSwap(s, i + n, k)) \in Orders
        <3>1. i + n \in i..k /\ i + n \in Positions /\ i + n <= k
            BY <1>1, <2>1
        <3>2. ToSwap(s, i + n, k) \in (i + n)..k
            BY <3>1, ToSwapSmallest
        <3>3. ToSwap(s, i + n, k) \in i..k
            BY <1>1, <3>2
        <3> QED
            BY <1>1, <3>1, <3>3, ExchangeRearranges DEF Rearranges
    <2> QED
        BY <2>1
<1>3. PICK f : IsIteration(f, Orders, l, step)
    <2> HIDE DEF step
    <2> QED
        BY <1>2, RecursiveFunction, Zenon
<1> DEFINE h == [u \in (i - 1)..(k - 1) |-> f[u - (i - 1)]]
<1>4. ASSUME NEW u \in (i - 1)..(k - 1)
      PROVE  h[u] = IF u < i THEN l ELSE Exchange(h[u - 1], u, ToSwap(h[u - 1], u, k))
    <2>1. CASE u < i
        <3>1. u - (i - 1) = 0
            BY <1>1, <2>1
        <3> QED
            BY <2>1, <3>1, <1>3 DEF IsIteration
    <2>2. CASE ~(u < i)
        <3>1. PICK n \in Nat : n = (u - 1) - (i - 1)
            BY <1>1, <2>2
        <3>2. u - (i - 1) = n + 1 /\ i + n = u /\ u <= k - 1 /\ u - 1 \in (i - 1)..(k - 1)
            BY <1>1, <2>2, <3>1
        <3>3. h[u] = f[n + 1] /\ h[u - 1] = f[n]
            BY <3>1, <3>2
        <3>4. f[n] \in Orders /\ f[n + 1] = step[n][f[n]]
            BY <1>3 DEF IsIteration
        <3>5. step[n][f[n]] = Exchange(f[n], u, ToSwap(f[n], u, k))
            BY <3>2, <3>4
        <3> HIDE DEF h, step
        <3> QED
            BY <2>2, <3>3, <3>4, <3>5
    <2> QED
        BY <2>1, <2>2
<1>5. h = Sort(h)
    <2>1. ASSUME NEW u \in (i - 1)..(k - 1) PROVE h[u] = Sort(h)[u]
        <3>1. Sort(h)[u] = IF u < i THEN l ELSE Exchange(h[u - 1], u, ToSwap(h[u - 1], u, k))
            <4> HIDE DEF h
            <4> QED
                BY Zenon
        <3> HIDE DEF Sort, h
        <3> QED
            BY <3>1, <1>4, Zenon
    <2>2. Sort(h) = [u \in (i - 1)..(k - 1) |-> Sort(h)[u]]
        <3> HIDE DEF h
        <3> QED
            OBVIOUS
    <2>3. h = [u \in (i - 1)..(k - 1) |-> h[u]]
        OBVIOUS
    <2> HIDE DEF Sort, h
    <2> QED
        BY <2>1, <2>2, <2>3
<1>6. \E g : g = Sort(g)
    <2> HIDE DEF h, Sort
    <2> QED
        BY <1>5
<1> DEFINE sorted == CHOOSE g : g = Sort(g)
<1>7. sorted = Sort(sorted)
    <2> HIDE DEF Sort
    <2> QED
        BY <1>6, Zenon
<1>8. list_sort_selectionsort(l, i, k) = sorted[k - 1]
    BY Zenon DEF list_sort_selectionsort
<1>9. \A u \in (i - 1)..(k - 1) :
          sorted[u] = IF u < i THEN l
                      ELSE Exchange(sorted[u - 1], u, ToSwap(sorted[u - 1], u, k))
    <2> HIDE DEF sorted
    <2> QED
        BY <1>7
<1> HIDE DEF sorted
<1> QED
    BY <1>8, <1>9

\* The selection sort rearranges the list between i and k, and puts it in order.
LEMMA SelectionSorts ==
    ASSUME Running, NEW l \in Orders, NEW i \in Positions, NEW k \in Positions, i <= k
    PROVE  LET m == list_sort_selectionsort(l, i, k) IN
           /\ Rearranges(l, m, i, k)
           /\ Greater => \A a, b \in i..k : a < b => keys[m[a]] <= keys[m[b]]
<1>1. Len(keys) \in Nat /\ i \in Nat /\ k \in Nat /\ i..k \subseteq Positions
    BY KeysAndAnswers DEF Positions
<1>2. PICK f :
          /\ list_sort_selectionsort(l, i, k) = f[k - 1]
          /\ \A u \in (i - 1)..(k - 1) :
                 f[u] = IF u < i THEN l ELSE Exchange(f[u - 1], u, ToSwap(f[u - 1], u, k))
    BY SelectionIterates
<1> DEFINE T == {u \in (i - 1)..(k - 1) :
                     Rearranges(l, f[u], i, k) /\ (Greater => OrderedUpTo(f[u], i, u, k))}
<1>3. i - 1 \in T
    <2>1. i - 1 \in (i - 1)..(k - 1) /\ i - 1 < i
        BY <1>1
    <2>2. f[i - 1] = l
        BY <1>2, <2>1
    <2>3. OrderedUpTo(l, i, i - 1, k)
        BY <1>1 DEF OrderedUpTo
    <2> QED
        BY <1>1, <2>1, <2>2, <2>3, RearrangesNothing
<1>4. ASSUME NEW u \in (i - 1)..((k - 1) - 1), u \in T PROVE u + 1 \in T
    <2>1. PICK s : s = f[u]
        OBVIOUS
    <2>14. Rearranges(l, f[u], i, k) /\ (Greater => OrderedUpTo(f[u], i, u, k))
        BY <1>4, Zenon
    <2>15. Rearranges(l, s, i, k) /\ (Greater => OrderedUpTo(s, i, u, k))
        BY <2>1, <2>14
    <2>2. s \in Orders /\ Rearranges(l, s, i, k) /\ (Greater => OrderedUpTo(s, i, u, k))
        BY <2>15 DEF Rearranges
    <2>3. PICK v \in Int : v = u + 1
        BY <1>1
    <2>4. /\ v \in i..k /\ v \in (i - 1)..(k - 1) /\ ~(v < i) /\ v - 1 = u /\ v <= k
          /\ v \in Positions
        BY <1>1, <2>3
    <2>5. PICK w : w = ToSwap(s, v, k)
        OBVIOUS
    <2>6. w \in v..k /\ (Greater => \A j \in v..k : keys[s[w]] <= keys[s[j]])
        BY <2>2, <2>4, <2>5, ToSwapSmallest
    <2>7. w \in i..k
        BY <1>1, <2>4, <2>6
    <2>8. PICK m : m = f[v]
        OBVIOUS
    <2>9. m = Exchange(s, v, w)
        BY <1>2, <2>1, <2>4, <2>5, <2>8
    <2>10. /\ Rearranges(s, m, i, k)
           /\ \A j \in Positions : m[j] = IF j = w THEN s[v] ELSE IF j = v THEN s[w] ELSE s[j]
        BY <1>1, <2>2, <2>4, <2>7, <2>9, ExchangeRearranges
    <2>11. Rearranges(l, m, i, k)
        BY <1>1, <2>2, <2>10, RearrangesAgain
    <2>12. ASSUME Greater PROVE OrderedUpTo(m, i, v, k)
        <3> SUFFICES ASSUME NEW a \in i..k, NEW b \in i..k, a <= v, a < b
                     PROVE  keys[m[a]] <= keys[m[b]]
            BY DEF OrderedUpTo
        <3>1. a \in Positions /\ b \in Positions /\ v..k \subseteq i..k /\ w \in Positions
            BY <1>1, <2>4, <2>7
        <3>2. ASSUME NEW c \in v..k PROVE \E d \in v..k : m[c] = s[d]
            <4>1. c \in Positions /\ v \in v..k
                BY <1>1, <2>4, <3>1
            <4> QED
                BY <4>1, <2>6, <2>10
        <3>3. CASE a = v
            <4>1. m[a] = s[w]
                BY <3>1, <3>3, <2>10
            <4>2. b \in v..k
                <5>1. a \in Int /\ b \in Int /\ b <= k /\ v \in Int
                    BY <1>1, <2>4
                <5> QED
                    BY <5>1, <3>3, <1>1
            <4>3. PICK d \in v..k : m[b] = s[d]
                BY <3>2, <4>2
            <4> QED
                BY <4>1, <4>3, <2>6, <2>12
        <3>4. CASE a < v
            <4>1. a <= u /\ a # v /\ a # w
                BY <1>1, <2>3, <2>4, <2>6, <3>4
            <4>2. m[a] = s[a]
                BY <4>1, <3>1, <2>10
            <4>3. \A c \in i..k : a < c => keys[s[a]] <= keys[s[c]]
                BY <4>1, <2>2, <2>12 DEF OrderedUpTo
            <4>4. CASE b < v
                <5>1. b # v /\ b # w
                    BY <1>1, <2>4, <2>6, <4>4
                <5>2. m[b] = s[b]
                    BY <5>1, <3>1, <2>10
                <5> QED
                    BY <4>2, <4>3, <5>2
            <4>5. CASE b >= v
                <5>1. b \in v..k
                    BY <1>1, <2>4, <4>5
                <5>2. PICK d \in v..k : m[b] = s[d]
                    BY <3>2, <5>1
                <5>3. d \in i..k /\ a < d
                    BY <1>1, <2>4, <3>1, <3>4
                <5> QED
                    BY <4>2, <4>3, <5>2, <5>3
            <4> QED
                BY <1>1, <2>4, <4>4, <4>5
        <3> QED
            BY <1>1, <2>4, <3>3, <3>4
    <2> HIDE DEF T
    <2>13. v \in T
        BY <2>4, <2>8, <2>11, <2>12 DEF T
    <2> QED
        BY <2>3, <2>13
<1>5. k - 1 \in T
    <2> HIDE DEF T
    <2>1. i - 1 \in Int /\ k - 1 \in Int /\ k - 1 \in (i - 1)..(k - 1)
        BY <1>1
    <2>2. (i - 1)..(k - 1) \subseteq T
        BY <1>3, <1>4, <2>1, IntervalInduction
    <2> QED
        BY <2>1, <2>2
<1>6. PICK m : m = list_sort_selectionsort(l, i, k)
    OBVIOUS
<1>7. Rearranges(l, m, i, k) /\ (Greater => OrderedUpTo(m, i, k - 1, k))
    <2>1. Rearranges(l, f[k - 1], i, k) /\ (Greater => OrderedUpTo(f[k - 1], i, k - 1, k))
        BY <1>5, Zenon
    <2> QED
        BY <2>1, <1>2, <1>6
<1>8. ASSUME Greater, NEW a \in i..k, NEW b \in i..k, a < b PROVE keys[m[a]] <= keys[m[b]]
    <2>1. a <= k - 1
        BY <1>1, <1>8
    <2> QED
        BY <2>1, <1>7, <1>8 DEF OrderedUpTo
<1> QED
    BY <1>6, <1>7, <1>8

--------------------------------------------------------------------------------
(* The quicksort.                                                            *)

Sublist == {c \in [first : Positions, last : Positions] : c.first <= c.last}

\* The calls sort sublists from left to right that do not overlap.
Disjoint(c) == \A k, m \in DOMAIN c : k < m => c[k].last < c[m].first

\* Two elements are in order, or the same call will sort them.
Apart(l, c) ==
    \A i, j \in Positions : i < j =>
        \/ keys[l[i]] <= keys[l[j]]
        \/ \E k \in DOMAIN c : c[k].first <= i /\ j <= c[k].last

\* The scan pointers are around the pivot, within the sublist that is partitioned.
Partitioning ==
    /\ calls # <<>> /\ to - from + 1 > SIMCLIST_MINQUICKSORTELS
    /\ {left, pivot, right} \subseteq Positions
    /\ from <= left /\ left <= pivot /\ pivot <= right /\ right <= to

\* What the scans have left behind is on the right side of the pivot.
Halves ==
    /\ \A i \in from..(left - 1) : keys[list[i]] <= keys[list[pivot]]
    /\ \A i \in (right + 1)..to : keys[list[i]] >= keys[list[pivot]]

RInv ==
    /\ Running
    /\ list \in Orders /\ Onto(list)
    /\ calls \in Seq(Sublist) /\ Disjoint(calls)
    /\ pc \in {"call", "partition"}
    /\ pc = "partition" => Partitioning

OInv == Apart(list, calls) /\ (pc = "partition" => Halves)

LEMMA CurrentCall ==
    ASSUME RInv, calls # <<>>
    PROVE  /\ from \in Positions /\ to \in Positions /\ from <= to
           /\ from = calls[1].first /\ to = calls[1].last /\ 1 \in DOMAIN calls
           /\ Tail(calls) \in Seq(Sublist) /\ Len(Tail(calls)) = Len(calls) - 1
           /\ \A k \in 1..(Len(calls) - 1) : Tail(calls)[k] = calls[k + 1]
<1>1. calls \in Seq(Sublist)
    BY DEF RInv
<1>2. PICK c \in Seq(Sublist) : c = calls
    BY <1>1
<1>3. /\ c # <<>> /\ 1 \in DOMAIN c /\ Head(c) = c[1] /\ c[1] \in Sublist
      /\ Tail(c) \in Seq(Sublist) /\ Len(Tail(c)) = Len(c) - 1
      /\ \A k \in 1..(Len(c) - 1) : Tail(c)[k] = c[k + 1]
    BY <1>2
<1>4. c[1].first \in Positions /\ c[1].last \in Positions /\ c[1].first <= c[1].last
    BY <1>3 DEF Sublist
<1> QED
    BY <1>2, <1>3, <1>4 DEF from, to

\* Rearranging the first sublist does not bring elements of others out of order.
LEMMA ApartRearranged ==
    ASSUME Running, NEW l \in Orders, NEW m, NEW c \in Seq(Sublist), c # <<>>,
           Disjoint(c), Apart(l, c), Rearranges(l, m, c[1].first, c[1].last)
    PROVE  Apart(m, c)
<1>1. /\ Len(keys) \in Nat /\ \A h \in Positions : l[h] \in Positions /\ keys[l[h]] \in Int
      /\ \A h \in Positions : h \in Int
    <2>1. Len(keys) \in Nat /\ \A h \in Positions : keys[h] \in Int
        BY KeysAndAnswers
    <2>2. \A h \in Positions : l[h] \in Positions
        BY DEF Orders
    <2>3. \A h \in Positions : h \in Int
        BY <2>1 DEF Positions
    <2> QED
        BY <2>1, <2>2, <2>3
<1>2. PICK a \in Positions, b \in Positions : a = c[1].first /\ b = c[1].last /\ a <= b
    <2>1. c[1] \in Sublist
        OBVIOUS
    <2> QED
        BY <2>1 DEF Sublist
<1>3. a..b \subseteq Positions /\ 1 \in DOMAIN c
    BY <1>1, <1>2 DEF Positions
<1>4. /\ \A h \in Positions \ (a..b) : m[h] = l[h]
      /\ \A h \in a..b : \E g \in a..b : m[h] = l[g]
    BY <1>2 DEF Rearranges
<1>5. ASSUME NEW k \in DOMAIN c, k # 1 PROVE b < c[k].first /\ c[k].first \in Positions
    <2>1. c[k] \in Sublist /\ 1 < k
        BY <1>5
    <2> QED
        BY <1>2, <1>3, <1>5, <2>1 DEF Disjoint, Sublist
<1> SUFFICES ASSUME NEW i \in Positions, NEW j \in Positions, i < j
             PROVE  \/ keys[m[i]] <= keys[m[j]]
                    \/ \E k \in DOMAIN c : c[k].first <= i /\ j <= c[k].last
    BY DEF Apart
<1>6. CASE i \in a..b /\ j \in a..b
    BY <1>1, <1>2, <1>3, <1>6
<1>7. CASE i \in a..b /\ j \notin a..b
    <2>1. j > b
        BY <1>1, <1>7
    <2>2. PICK g \in a..b : m[i] = l[g]
        BY <1>4, <1>7
    <2>3. m[j] = l[j] /\ g \in Positions /\ g < j /\ g <= b
        BY <1>1, <1>3, <1>4, <1>7, <2>1
    <2>4. CASE \E k \in DOMAIN c : c[k].first <= g /\ j <= c[k].last
        <3>1. PICK k \in DOMAIN c : c[k].first <= g /\ j <= c[k].last
            BY <2>4
        <3>2. k # 1
            BY <1>1, <1>2, <2>1, <3>1
        <3>3. b < c[k].first /\ c[k].first \in Positions
            BY <1>5, <3>2
        <3>4. c[k].first \in Int /\ b \in Int /\ g \in Int
            BY <1>1, <2>3, <3>3
        <3>5. g <= b /\ b < c[k].first /\ c[k].first <= g
            BY <2>3, <3>1, <3>3
        <3> QED
            BY <3>4, <3>5
    <2>5. CASE keys[l[g]] <= keys[l[j]]
        BY <2>2, <2>3, <2>5
    <2> QED
        BY <2>3, <2>4, <2>5 DEF Apart
<1>8. CASE i \notin a..b /\ j \in a..b
    <2>1. i < a
        BY <1>1, <1>8
    <2>2. PICK g \in a..b : m[j] = l[g]
        BY <1>4, <1>8
    <2>3. m[i] = l[i] /\ g \in Positions /\ i < g /\ g <= b
        BY <1>1, <1>3, <1>4, <1>8, <2>1
    <2>4. CASE \E k \in DOMAIN c : c[k].first <= i /\ g <= c[k].last
        <3>1. PICK k \in DOMAIN c : c[k].first <= i /\ g <= c[k].last
            BY <2>4
        <3>2. k # 1
            BY <1>1, <1>2, <2>1, <3>1
        <3> QED
            BY <1>1, <1>2, <1>5, <2>1, <3>1, <3>2
    <2>5. CASE keys[l[i]] <= keys[l[g]]
        BY <2>2, <2>3, <2>5
    <2> QED
        BY <2>3, <2>4, <2>5 DEF Apart
<1>9. CASE i \notin a..b /\ j \notin a..b
    <2>1. m[i] = l[i] /\ m[j] = l[j]
        BY <1>4, <1>9
    <2> QED
        BY <2>1 DEF Apart
<1> QED
    BY <1>6, <1>7, <1>8, <1>9

\* Three entries pass their elements on.
Rotate(l, a, b, c) == [l EXCEPT ![a] = l[b], ![b] = l[c], ![c] = l[a]]

\* m is l with the elements of those three entries passed on.
Rotated(l, m, a, b, c) ==
    \A j \in Positions : m[j] = IF j = c THEN l[a] ELSE IF j = b THEN l[c]
                                ELSE IF j = a THEN l[b] ELSE l[j]

LEMMA RotationRearranges ==
    ASSUME Running, NEW l \in Orders, NEW i \in Positions, NEW k \in Positions,
           NEW a \in i..k, NEW b \in i..k, NEW c \in i..k, a # c, b # c,
           NEW m, m = Rotate(l, a, b, c)
    PROVE  Rearranges(l, m, i, k) /\ Rotated(l, m, a, b, c)
<1>1. i..k \subseteq Positions
    BY KeysAndAnswers DEF Positions
<1>3. /\ m \in Orders
      /\ \A j \in Positions : m[j] = IF j = c THEN l[a] ELSE IF j = b THEN l[c]
                                     ELSE IF j = a THEN l[b] ELSE l[j]
    BY <1>1 DEF Orders, Rotate
<1>4. \A j \in Positions \ (i..k) : m[j] = l[j]
    BY <1>3
<1>5. \A j \in i..k : \E h \in i..k : m[j] = l[h]
    BY <1>1, <1>3
<1>6. ASSUME NEW h \in i..k PROVE \E j \in i..k : m[j] = l[h]
    <2>1. CASE h = a
        BY <2>1, <1>1, <1>3
    <2>2. CASE h = c
        BY <2>2, <1>1, <1>3
    <2>3. CASE h = b /\ a # b
        BY <2>3, <1>1, <1>3
    <2>4. CASE h # a /\ h # b /\ h # c
        BY <2>4, <1>1, <1>3
    <2> QED
        BY <2>1, <2>2, <2>3, <2>4
<1> QED
    BY <1>3, <1>4, <1>5, <1>6 DEF Rearranges, Rotated

\* The scans stop, at the pivot at the latest.
LEMMA LeftStops ==
    ASSUME RInv, pc = "partition"
    PROVE  /\ LeftStop \in left..pivot
           /\ LeftStop = pivot \/ OutOfOrder(LeftStop, pivot)
           /\ \A j \in left..(LeftStop - 1) : ~OutOfOrder(j, pivot)
<1> DEFINE T == {i \in left..pivot : i = pivot \/ OutOfOrder(i, pivot)}
<1>1. left \in Nat /\ pivot \in Nat /\ left <= pivot
    <2>1. Len(keys) \in Nat /\ left \in Positions /\ pivot \in Positions /\ left <= pivot
        BY KeysAndAnswers DEF RInv, Partitioning
    <2> QED
        BY <2>1 DEF Positions
<1>2. T \subseteq Nat /\ T # {}
    BY <1>1
<1>3. PICK i \in T : \A j \in T : i <= j
    <2> HIDE DEF T
    <2> QED
        BY <1>2, LeastNatural
<1>4. i \in left..pivot /\ (i = pivot \/ OutOfOrder(i, pivot))
    OBVIOUS
<1>5. ASSUME NEW j \in left..(i - 1) PROVE ~OutOfOrder(j, pivot)
    <2>1. j \in left..pivot /\ j < i
        BY <1>1, <1>4
    <2>2. j \notin T
        BY <1>1, <1>3, <2>1
    <2> QED
        BY <2>1, <2>2
<1> QED
    BY <1>4, <1>5, Zenon DEF LeftStop

LEMMA RightStops ==
    ASSUME RInv, pc = "partition"
    PROVE  /\ RightStop \in pivot..right
           /\ RightStop = pivot \/ cmp(RightStop, pivot) < 0
           /\ \A j \in (RightStop + 1)..right : cmp(j, pivot) >= 0
<1> DEFINE T == {d \in 0..(right - pivot) : d = right - pivot \/ cmp(right - d, pivot) < 0}
<1>1. /\ right \in Nat /\ pivot \in Nat /\ pivot <= right /\ Len(keys) \in Nat
      /\ \A j \in pivot..right : j \in Positions /\ cmp(j, pivot) \in Int
    <2>1. /\ Len(keys) \in Nat /\ list \in Orders /\ right \in Positions /\ pivot \in Positions
          /\ pivot <= right
          /\ \A h, g \in Positions : compare(keys[h], keys[g]) \in Int
        BY KeysAndAnswers DEF RInv, Partitioning
    <2>2. \A j \in pivot..right : j \in Positions
        BY <2>1 DEF Positions
    <2>3. \A j \in Positions : list[j] \in Positions
        BY <2>1 DEF Orders
    <2>4. \A j \in Positions : cmp(j, pivot) \in Int
        BY <2>1, <2>3 DEF cmp
    <2> QED
        BY <2>1, <2>2, <2>4 DEF Positions
<1>2. T \subseteq Nat /\ T # {}
    <2>1. right - pivot \in 0..(right - pivot)
        BY <1>1
    <2> QED
        BY <2>1
<1>3. PICK d \in T : \A e \in T : d <= e
    <2> HIDE DEF T
    <2> QED
        BY <1>2, LeastNatural
<1>4. PICK i \in pivot..right : i = right - d
    BY <1>1
<1>5. i = pivot \/ cmp(i, pivot) < 0
    BY <1>1, <1>4
<1>6. ASSUME NEW j \in (i + 1)..right PROVE cmp(j, pivot) >= 0
    <2>1. PICK e \in 0..(right - pivot) : e = right - j
        BY <1>1, <1>4
    <2>2. e < d /\ right - e = j /\ j \in pivot..right
        BY <1>1, <1>4, <2>1
    <2>3. ~(cmp(j, pivot) < 0)
        BY <1>3, <2>1, <2>2
    <2> QED
        BY <1>1, <2>2, <2>3
<1> QED
    BY <1>4, <1>5, <1>6, Zenon DEF RightStop

\* What the comparator tells of two entries.
LEMMA ComparesEntries ==
    ASSUME Running, list \in Orders
    PROVE  /\ \A h \in Positions : h \in Int /\ keys[list[h]] \in Int /\ list[h] \in Positions
           /\ \A h, g \in Positions : cmp(h, g) \in Int
           /\ Greater => \A h, g \in Positions :
                  OutOfOrder(h, g) <=> keys[list[h]] > keys[list[g]]
           /\ Smaller => \A h, g \in Positions :
                  cmp(h, g) < 0 <=> keys[list[h]] < keys[list[g]]
<1>1. /\ Len(keys) \in Nat /\ \A h \in Positions : keys[h] \in Int
      /\ \A h, g \in Positions : compare(keys[h], keys[g]) \in Int
    BY KeysAndAnswers
<1>2. \A h \in Positions : list[h] \in Positions
    BY DEF Orders
<1>3. \A h \in Positions : h \in Int
    BY <1>1 DEF Positions
<1>4. \A h, g \in Positions : cmp(h, g) \in Int
    BY <1>1, <1>2 DEF cmp
<1>5. Greater => \A h, g \in Positions : OutOfOrder(h, g) <=> keys[list[h]] > keys[list[g]]
    BY <1>2 DEF Greater, OutOfOrder, cmp
<1>6. Smaller => \A h, g \in Positions : cmp(h, g) < 0 <=> keys[list[h]] < keys[list[g]]
    BY <1>2 DEF Smaller, cmp
<1> QED
    BY <1>1, <1>2, <1>3, <1>4, <1>5, <1>6

\* A step that rearranges the sublist and leaves the scan pointers around the pivot.
LEMMA PartitionStep ==
    ASSUME RInv, pc = "partition", UNCHANGED <<keys, call, calls, pc>>,
           Rearranges(list, list', from, to),
           {left', pivot', right'} \subseteq Positions,
           from <= left', left' <= pivot', pivot' <= right', right' <= to
    PROVE  RInv' /\ (Apart(list, calls) => Apart(list, calls)')
<1>1. Len(keys) \in Nat /\ Running /\ list \in Orders /\ calls # <<>>
    BY KeysAndAnswers DEF RInv, Partitioning
<1>2. /\ from \in Positions /\ to \in Positions /\ from = calls[1].first /\ to = calls[1].last
      /\ calls \in Seq(Sublist) /\ Disjoint(calls) /\ Onto(list)
    BY <1>1, CurrentCall DEF RInv
<1>3. /\ Positions' = Positions /\ Orders' = Orders /\ Sublist' = Sublist /\ from' = from
      /\ to' = to /\ SIMCLIST_MINQUICKSORTELS' = SIMCLIST_MINQUICKSORTELS
    BY DEF Positions, Orders, Sublist, from, to, SIMCLIST_MINQUICKSORTELS
<1>4. PICK m : m = list'
    OBVIOUS
<1>5. m \in Orders /\ Onto(m)
    <2>1. Rearranges(list, m, from, to)
        BY <1>4
    <2>2. PICK l \in Orders, a \in Positions, b \in Positions : l = list /\ a = from /\ b = to
        BY <1>1, <1>2
    <2>3. Rearranges(l, m, a, b) /\ Onto(l)
        BY <1>2, <2>1, <2>2
    <2>4. m \in Orders
        BY <2>3 DEF Rearranges
    <2>5. Onto(m)
        BY <1>1, <2>3, RearrangesOnto
    <2> QED
        BY <2>4, <2>5
<1>6. Onto(list)'
    BY <1>3, <1>4, <1>5 DEF Onto
<1>7. Running' /\ Disjoint(calls)'
    BY <1>1, <1>2 DEF Running, Disjoint
<1>8. Partitioning'
    BY <1>3 DEF RInv, Partitioning
<1>9. RInv'
    BY <1>2, <1>3, <1>4, <1>5, <1>6, <1>7, <1>8 DEF RInv
<1>10. ASSUME Apart(list, calls) PROVE Apart(list, calls)'
    <2>1. PICK c \in Seq(Sublist) : c = calls
        BY <1>2
    <2>2. PICK l \in Orders : l = list
        BY <1>1
    <2>3. Apart(m, c)
        BY <1>1, <1>2, <1>4, <1>10, <2>1, <2>2, ApartRearranged
    <2> QED
        BY <1>3, <1>4, <2>1, <2>3 DEF Apart
<1> QED
    BY <1>9, <1>10

\* What is on the right side of the pivot p, in the sublist from a to b.
HalvesAt(l, a, b, x, y, p) ==
    /\ \A h \in a..(x - 1) : keys[l[h]] <= keys[l[p]]
    /\ \A h \in (y + 1)..b : keys[l[h]] >= keys[l[p]]

\* The pointers and the ends of the sublist.
LEMMA Pointers ==
    ASSUME RInv, pc = "partition"
    PROVE  /\ {from, left, pivot, right, to} \subseteq Positions
           /\ {from, left, pivot, right, to} \subseteq Nat
           /\ from <= left /\ left <= pivot /\ pivot <= right /\ right <= to
           /\ from..to \subseteq Positions /\ Running /\ list \in Orders
           /\ Len(keys) \in Nat
<1>1. /\ Len(keys) \in Nat /\ {left, pivot, right} \subseteq Positions
      /\ from <= left /\ left <= pivot /\ pivot <= right /\ right <= to
      /\ Running /\ list \in Orders /\ calls # <<>>
    BY KeysAndAnswers DEF RInv, Partitioning
<1>2. from \in Positions /\ to \in Positions
    BY <1>1, CurrentCall
<1>3. \A h \in Positions : h \in Nat
    BY <1>1 DEF Positions
<1>4. from..to \subseteq Positions
    BY <1>1, <1>2 DEF Positions
<1> QED
    BY <1>1, <1>2, <1>3, <1>4

LEMMA ExchangePairKeeps ==
    ASSUME RInv, ExchangePair
    PROVE  RInv' /\ (OInv /\ Greater /\ Smaller => OInv')
<1>1. pc = "partition" /\ left # pivot /\ right # pivot /\ UNCHANGED <<keys, call, calls, pc, pivot>>
    BY DEF ExchangePair
<1>2. PICK l \in Orders, a \in Nat, b \in Nat, x \in Nat, y \in Nat, p \in Nat :
          /\ l = list /\ a = from /\ b = to /\ x = left /\ y = right /\ p = pivot
    BY <1>1, Pointers
<1>3. /\ {a, b, x, y, p} \subseteq Positions /\ a..b \subseteq Positions /\ Running
      /\ a <= x /\ x < p /\ p < y /\ y <= b /\ Len(keys) \in Nat
    BY <1>1, <1>2, Pointers
<1>4. PICK i \in x..p : /\ i = LeftStop /\ (i = p \/ OutOfOrder(i, pivot))
                        /\ \A h \in x..(i - 1) : ~OutOfOrder(h, pivot)
    BY <1>1, <1>2, LeftStops
<1>5. PICK j \in p..y : /\ j = RightStop /\ (j = p \/ cmp(j, pivot) < 0)
                        /\ \A h \in (j + 1)..y : cmp(h, pivot) >= 0
    BY <1>1, <1>2, RightStops
<1>6. /\ \A h \in Positions : h \in Int /\ keys[l[h]] \in Int
      /\ \A h, g \in Positions : cmp(h, g) \in Int
      /\ Greater => \A h, g \in Positions : OutOfOrder(h, g) <=> keys[l[h]] > keys[l[g]]
      /\ Smaller => \A h, g \in Positions : cmp(h, g) < 0 <=> keys[l[h]] < keys[l[g]]
    BY <1>2, <1>3, ComparesEntries
<1>12. p \in Positions
    BY <1>3
<1>13. ASSUME Greater, Smaller, NEW h \in Positions
       PROVE  /\ OutOfOrder(h, p) <=> keys[l[h]] > keys[l[p]]
              /\ cmp(h, p) < 0 <=> keys[l[h]] < keys[l[p]]
              /\ keys[l[h]] \in Int /\ keys[l[p]] \in Int /\ cmp(h, p) \in Int
    BY <1>6, <1>12, <1>13
<1>7. i \in a..b /\ j \in a..b /\ i \in Positions /\ j \in Positions
    BY <1>3
<1>8. ASSUME Greater, Smaller, HalvesAt(l, a, b, x, y, p)
      PROVE  /\ \A h \in a..(i - 1) : keys[l[h]] <= keys[l[p]]
             /\ \A h \in (j + 1)..b : keys[l[h]] >= keys[l[p]]
    <2>1. ASSUME NEW h \in a..(i - 1) PROVE keys[l[h]] <= keys[l[p]]
        <3>1. h \in Positions
            BY <1>3
        <3>2. CASE h < x
            <4>1. h \in a..(x - 1)
                BY <1>3, <3>2
            <4> QED
                BY <4>1, <1>8 DEF HalvesAt
        <3>3. CASE h >= x
            <4>1. h \in x..(i - 1)
                BY <1>3, <3>3
            <4>2. ~OutOfOrder(h, p)
                BY <4>1, <1>2, <1>4
            <4> QED
                BY <4>2, <3>1, <1>8, <1>13
        <3> QED
            BY <1>3, <3>2, <3>3
    <2>2. ASSUME NEW h \in (j + 1)..b PROVE keys[l[h]] >= keys[l[p]]
        <3>1. h \in Positions
            BY <1>3
        <3>2. CASE h > y
            <4>1. h \in (y + 1)..b
                BY <1>3, <3>2
            <4> QED
                BY <4>1, <1>8 DEF HalvesAt
        <3>3. CASE h <= y
            <4>1. h \in (j + 1)..y
                BY <1>3, <3>3
            <4>2. cmp(h, p) >= 0
                BY <4>1, <1>2, <1>5
            <4>3. ~(cmp(h, p) < 0)
                BY <4>2, <3>1, <1>8, <1>13
            <4> QED
                BY <4>3, <3>1, <1>8, <1>13
        <3> QED
            BY <1>3, <3>2, <3>3
    <2> QED
        BY <2>1, <2>2
<1>9. ASSUME OInv PROVE Apart(list, calls) /\ HalvesAt(l, a, b, x, y, p)
    BY <1>1, <1>2, <1>9 DEF OInv, Halves, HalvesAt
<1>10. CASE i # p /\ j # p
    <2>1. PICK m : m = Exchange(l, i, j)
        OBVIOUS
    <2>2. list' = m /\ left' = i + 1 /\ right' = j - 1 /\ pivot' = p
        BY <1>1, <1>2, <1>4, <1>5, <1>10, <2>1 DEF ExchangePair
    <2>3. /\ Rearranges(l, m, a, b)
          /\ \A h \in Positions : m[h] = IF h = j THEN l[i] ELSE IF h = i THEN l[j] ELSE l[h]
        BY <1>3, <1>7, <2>1, ExchangeRearranges
    <2>4. /\ i + 1 \in Positions /\ j - 1 \in Positions /\ i < p /\ p < j
          /\ a <= i + 1 /\ i + 1 <= p /\ p <= j - 1 /\ j - 1 <= b
        BY <1>3, <1>10 DEF Positions
    <2>5. RInv' /\ (Apart(list, calls) => Apart(list, calls)')
        BY <1>1, <1>2, <1>3, <2>2, <2>3, <2>4, PartitionStep
    <2>6. ASSUME Greater, Smaller, HalvesAt(l, a, b, x, y, p)
          PROVE  HalvesAt(m, a, b, i + 1, j - 1, p)
        <3>1. m[p] = l[p] /\ m[i] = l[j] /\ m[j] = l[i]
            BY <1>3, <1>7, <2>3, <2>4
        <3>2. ASSUME NEW h \in a..((i + 1) - 1) PROVE keys[m[h]] <= keys[m[p]]
            <4>1. CASE h = i
                <5>1. keys[l[j]] < keys[l[p]]
                    <6>1. cmp(j, p) < 0
                        BY <1>2, <1>5, <1>10
                    <6> QED
                        BY <6>1, <1>7, <1>13, <2>6
                <5>2. keys[l[i]] \in Int /\ keys[l[j]] \in Int /\ keys[l[p]] \in Int
                    BY <1>6, <1>7, <1>12
                <5> QED
                    BY <5>1, <5>2, <4>1, <3>1
            <4>2. CASE h # i
                <5>1. h \in a..(i - 1) /\ h \in Positions /\ h # j
                    BY <1>3, <2>4, <4>2
                <5>2. m[h] = l[h]
                    BY <5>1, <4>2, <2>3
                <5> QED
                    BY <5>1, <5>2, <3>1, <1>8, <2>6
            <4> QED
                BY <4>1, <4>2
        <3>3. ASSUME NEW h \in ((j - 1) + 1)..b PROVE keys[m[h]] >= keys[m[p]]
            <4>1. CASE h = j
                <5>1. keys[l[i]] > keys[l[p]]
                    <6>1. OutOfOrder(i, p)
                        BY <1>2, <1>4, <1>10
                    <6> QED
                        BY <6>1, <1>7, <1>13, <2>6
                <5>2. keys[l[i]] \in Int /\ keys[l[j]] \in Int /\ keys[l[p]] \in Int
                    BY <1>6, <1>7, <1>12
                <5> QED
                    BY <5>1, <5>2, <4>1, <3>1
            <4>2. CASE h # j
                <5>1. h \in (j + 1)..b /\ h \in Positions /\ h # i
                    BY <1>3, <2>4, <4>2
                <5>2. m[h] = l[h]
                    BY <5>1, <4>2, <2>3
                <5> QED
                    BY <5>1, <5>2, <3>1, <1>8, <2>6
            <4> QED
                BY <4>1, <4>2
        <3> QED
            BY <3>2, <3>3 DEF HalvesAt
    <2>7. ASSUME OInv, Greater, Smaller PROVE OInv'
        <3>1. HalvesAt(m, a, b, i + 1, j - 1, p)
            BY <1>9, <2>6, <2>7
        <3>2. Halves'
            BY <3>1, <1>1, <1>2, <2>2 DEF Halves, HalvesAt, from, to
        <3> QED
            BY <3>2, <1>9, <2>5, <2>7 DEF OInv
    <2> QED
        BY <2>5, <2>7
<1>11. CASE ~(i # p /\ j # p)
    <2>2. list' = l /\ left' = i /\ right' = j /\ pivot' = p
        BY <1>1, <1>2, <1>4, <1>5, <1>11 DEF ExchangePair
    <2>4. a <= i /\ i <= p /\ p <= j /\ j <= b
        BY <1>3
    <2>5. RInv' /\ (Apart(list, calls) => Apart(list, calls)')
        BY <1>1, <1>2, <1>3, <1>7, <2>2, <2>4, RearrangesNothing, PartitionStep
    <2>6. ASSUME Greater, Smaller, HalvesAt(l, a, b, x, y, p)
          PROVE  HalvesAt(l, a, b, i, j, p)
        BY <1>8, <2>6 DEF HalvesAt
    <2>7. ASSUME OInv, Greater, Smaller PROVE OInv'
        <3>1. HalvesAt(l, a, b, i, j, p)
            BY <1>9, <2>6, <2>7
        <3>2. Halves'
            BY <3>1, <1>1, <1>2, <2>2 DEF Halves, HalvesAt, from, to
        <3> QED
            BY <3>2, <1>9, <2>5, <2>7 DEF OInv
    <2> QED
        BY <2>5, <2>7
<1> QED
    BY <1>10, <1>11

LEMMA MoveBehindPivotKeeps ==
    ASSUME RInv, MoveBehindPivot
    PROVE  RInv' /\ (OInv /\ Greater => OInv')
<1>1. pc = "partition" /\ right = pivot /\ left # pivot /\ UNCHANGED <<keys, call, calls, pc>>
    BY DEF MoveBehindPivot
<1>2. PICK l \in Orders, a \in Nat, b \in Nat, x \in Nat, p \in Nat :
          l = list /\ a = from /\ b = to /\ x = left /\ p = pivot
    BY <1>1, Pointers
<1>3. /\ {a, b, x, p} \subseteq Positions /\ a..b \subseteq Positions /\ Running
      /\ a <= x /\ x < p /\ p <= b /\ Len(keys) \in Nat
    BY <1>1, <1>2, Pointers
<1>4. a \in Positions /\ b \in Positions /\ x \in Positions /\ p \in Positions
    BY <1>3
<1>5. /\ \A h \in Positions : keys[l[h]] \in Int
      /\ Greater => (OutOfOrder(x, p) <=> keys[l[x]] > keys[l[p]])
    BY <1>2, <1>3, <1>4, ComparesEntries
<1>6. keys[l[x]] \in Int /\ keys[l[p]] \in Int
    BY <1>4, <1>5
<1>7. ASSUME OInv PROVE Apart(list, calls) /\ HalvesAt(l, a, b, x, p, p)
    BY <1>1, <1>2, <1>7 DEF OInv, Halves, HalvesAt
<1>8. CASE OutOfOrder(left, pivot)
    <2>1. PICK m : m = [l EXCEPT ![x] = l[p - 1], ![p - 1] = l[p], ![p] = l[x]]
        OBVIOUS
    <2>2. list' = m /\ left' = x /\ right' = p - 1 /\ pivot' = p - 1
        BY <1>2, <1>8, <2>1 DEF MoveBehindPivot
    <2>3. x \in a..b /\ p \in a..b /\ p - 1 \in a..b /\ x # p /\ p - 1 # p /\ p - 1 \in Positions
        BY <1>3
    <2>4. /\ Rearranges(l, m, a, b)
          /\ \A h \in Positions : m[h] = IF h = p THEN l[x] ELSE IF h = p - 1 THEN l[p]
                                         ELSE IF h = x THEN l[p - 1] ELSE l[h]
        <3>1. PICK q \in a..b : q = p - 1
            BY <2>3
        <3>2. m = Rotate(l, x, q, p) /\ q # p
            BY <2>1, <2>3, <3>1 DEF Rotate
        <3>3. Running /\ q \in a..b /\ x \in a..b /\ p \in a..b /\ x # p
            BY <1>3, <2>3
        <3>4. Rearranges(l, m, a, b) /\ Rotated(l, m, x, q, p)
            BY <1>4, <3>2, <3>3, RotationRearranges
        <3> QED
            BY <3>1, <3>4 DEF Rotated
    <2>5. a <= x /\ x <= p - 1 /\ p - 1 <= b
        BY <1>3
    <2>6. RInv' /\ (Apart(list, calls) => Apart(list, calls)')
        BY <1>1, <1>2, <1>4, <2>2, <2>3, <2>4, <2>5, PartitionStep
    <2>7. ASSUME Greater, HalvesAt(l, a, b, x, p, p)
          PROVE  HalvesAt(m, a, b, x, p - 1, p - 1)
        <3>1. m[p - 1] = l[p] /\ m[p] = l[x]
            BY <1>4, <2>3, <2>4
        <3>2. ASSUME NEW h \in a..(x - 1) PROVE keys[m[h]] <= keys[m[p - 1]]
            <4>1. h \in Positions /\ h # p /\ h # p - 1 /\ h # x
                BY <1>3
            <4>2. m[h] = l[h]
                BY <4>1, <2>4
            <4> QED
                BY <4>2, <3>1, <2>7 DEF HalvesAt
        <3>3. ASSUME NEW h \in ((p - 1) + 1)..b PROVE keys[m[h]] >= keys[m[p - 1]]
            <4>1. CASE h = p
                <5>1. keys[l[x]] > keys[l[p]]
                    BY <1>2, <1>5, <1>8, <2>7
                <5> QED
                    BY <5>1, <4>1, <3>1, <1>6
            <4>2. CASE h # p
                <5>1. h \in (p + 1)..b /\ h \in Positions /\ h # p - 1 /\ h # x
                    BY <1>3, <4>2
                <5>2. m[h] = l[h]
                    BY <5>1, <4>2, <2>4
                <5> QED
                    BY <5>1, <5>2, <3>1, <2>7 DEF HalvesAt
            <4> QED
                BY <4>1, <4>2
        <3> QED
            BY <3>2, <3>3 DEF HalvesAt
    <2>8. ASSUME OInv, Greater PROVE OInv'
        <3>1. HalvesAt(m, a, b, x, p - 1, p - 1)
            BY <1>7, <2>7, <2>8
        <3>2. Halves'
            BY <3>1, <1>1, <1>2, <2>2 DEF Halves, HalvesAt, from, to
        <3> QED
            BY <3>2, <1>7, <2>6, <2>8 DEF OInv
    <2> QED
        BY <2>6, <2>8
<1>9. CASE ~OutOfOrder(left, pivot)
    <2>1. list' = l /\ left' = x + 1 /\ right' = p /\ pivot' = p
        BY <1>1, <1>2, <1>9 DEF MoveBehindPivot
    <2>2. x + 1 \in Positions /\ a <= x + 1 /\ x + 1 <= p /\ p <= b
        BY <1>3 DEF Positions
    <2>3. RInv' /\ (Apart(list, calls) => Apart(list, calls)')
        <3>1. Rearranges(l, l, a, b)
            BY <1>2, RearrangesNothing
        <3> QED
            BY <1>1, <1>2, <1>4, <2>1, <2>2, <3>1, PartitionStep
    <2>4. ASSUME Greater, HalvesAt(l, a, b, x, p, p)
          PROVE  HalvesAt(l, a, b, x + 1, p, p)
        <3>1. keys[l[x]] <= keys[l[p]]
            BY <1>2, <1>5, <1>6, <1>9, <2>4
        <3>2. ASSUME NEW h \in a..((x + 1) - 1) PROVE keys[l[h]] <= keys[l[p]]
            <4>1. h = x \/ h \in a..(x - 1)
                BY <1>3
            <4> QED
                BY <4>1, <3>1, <2>4 DEF HalvesAt
        <3> QED
            BY <3>2, <2>4 DEF HalvesAt
    <2>5. ASSUME OInv, Greater PROVE OInv'
        <3>1. HalvesAt(l, a, b, x + 1, p, p)
            BY <1>7, <2>4, <2>5
        <3>2. Halves'
            BY <3>1, <1>1, <1>2, <2>1 DEF Halves, HalvesAt, from, to
        <3> QED
            BY <3>2, <1>7, <2>3, <2>5 DEF OInv
    <2> QED
        BY <2>3, <2>5
<1> QED
    BY <1>8, <1>9

LEMMA MoveBeforePivotKeeps ==
    ASSUME RInv, MoveBeforePivot
    PROVE  RInv' /\ (OInv /\ Smaller => OInv')
<1>1. pc = "partition" /\ left = pivot /\ right # pivot /\ UNCHANGED <<keys, call, calls, pc>>
    BY DEF MoveBeforePivot
<1>2. PICK l \in Orders, a \in Nat, b \in Nat, y \in Nat, p \in Nat :
          l = list /\ a = from /\ b = to /\ y = right /\ p = pivot
    BY <1>1, Pointers
<1>3. /\ {a, b, y, p} \subseteq Positions /\ a..b \subseteq Positions /\ Running
      /\ a <= p /\ p < y /\ y <= b /\ Len(keys) \in Nat
    BY <1>1, <1>2, Pointers
<1>4. a \in Positions /\ b \in Positions /\ y \in Positions /\ p \in Positions
    BY <1>3
<1>5. /\ \A h \in Positions : keys[l[h]] \in Int
      /\ Smaller => (cmp(y, p) < 0 <=> keys[l[y]] < keys[l[p]])
    BY <1>2, <1>3, <1>4, ComparesEntries
<1>6. keys[l[y]] \in Int /\ keys[l[p]] \in Int
    BY <1>4, <1>5
<1>7. ASSUME OInv PROVE Apart(list, calls) /\ HalvesAt(l, a, b, p, y, p)
    BY <1>1, <1>2, <1>7 DEF OInv, Halves, HalvesAt
<1>8. CASE cmp(right, pivot) < 0
    <2>1. PICK m : m = [l EXCEPT ![y] = l[p + 1], ![p + 1] = l[p], ![p] = l[y]]
        OBVIOUS
    <2>2. list' = m /\ left' = p + 1 /\ right' = y /\ pivot' = p + 1
        BY <1>2, <1>8, <2>1 DEF MoveBeforePivot
    <2>3. y \in a..b /\ p \in a..b /\ p + 1 \in a..b /\ y # p /\ p + 1 # p /\ p + 1 \in Positions
        BY <1>3
    <2>4. /\ Rearranges(l, m, a, b)
          /\ \A h \in Positions : m[h] = IF h = p THEN l[y] ELSE IF h = p + 1 THEN l[p]
                                         ELSE IF h = y THEN l[p + 1] ELSE l[h]
        <3>1. PICK q \in a..b : q = p + 1
            BY <2>3
        <3>2. m = Rotate(l, y, q, p) /\ q # p
            BY <2>1, <2>3, <3>1 DEF Rotate
        <3>3. Running /\ q \in a..b /\ y \in a..b /\ p \in a..b /\ y # p
            BY <1>3, <2>3
        <3>4. Rearranges(l, m, a, b) /\ Rotated(l, m, y, q, p)
            BY <1>4, <3>2, <3>3, RotationRearranges
        <3> QED
            BY <3>1, <3>4 DEF Rotated
    <2>5. a <= p + 1 /\ p + 1 <= y /\ y <= b
        BY <1>3
    <2>6. RInv' /\ (Apart(list, calls) => Apart(list, calls)')
        BY <1>1, <1>2, <1>4, <2>2, <2>3, <2>4, <2>5, PartitionStep
    <2>7. ASSUME Smaller, HalvesAt(l, a, b, p, y, p)
          PROVE  HalvesAt(m, a, b, p + 1, y, p + 1)
        <3>1. m[p + 1] = l[p] /\ m[p] = l[y]
            BY <1>4, <2>3, <2>4
        <3>2. ASSUME NEW h \in (y + 1)..b PROVE keys[m[h]] >= keys[m[p + 1]]
            <4>1. h \in Positions /\ h # p /\ h # p + 1 /\ h # y
                BY <1>3
            <4>2. m[h] = l[h]
                BY <4>1, <2>4
            <4> QED
                BY <4>2, <3>1, <2>7 DEF HalvesAt
        <3>3. ASSUME NEW h \in a..((p + 1) - 1) PROVE keys[m[h]] <= keys[m[p + 1]]
            <4>1. CASE h = p
                <5>1. keys[l[y]] < keys[l[p]]
                    BY <1>2, <1>5, <1>8, <2>7
                <5> QED
                    BY <5>1, <4>1, <3>1, <1>6
            <4>2. CASE h # p
                <5>1. h \in a..(p - 1) /\ h \in Positions /\ h # p + 1 /\ h # y
                    BY <1>3, <4>2
                <5>2. m[h] = l[h]
                    BY <5>1, <4>2, <2>4
                <5> QED
                    BY <5>1, <5>2, <3>1, <2>7 DEF HalvesAt
            <4> QED
                BY <4>1, <4>2
        <3> QED
            BY <3>2, <3>3 DEF HalvesAt
    <2>8. ASSUME OInv, Smaller PROVE OInv'
        <3>1. HalvesAt(m, a, b, p + 1, y, p + 1)
            BY <1>7, <2>7, <2>8
        <3>2. Halves'
            BY <3>1, <1>1, <1>2, <2>2 DEF Halves, HalvesAt, from, to
        <3> QED
            BY <3>2, <1>7, <2>6, <2>8 DEF OInv
    <2> QED
        BY <2>6, <2>8
<1>9. CASE ~(cmp(right, pivot) < 0)
    <2>1. list' = l /\ left' = p /\ right' = y - 1 /\ pivot' = p
        BY <1>1, <1>2, <1>9 DEF MoveBeforePivot
    <2>2. y - 1 \in Positions /\ a <= p /\ p <= y - 1 /\ y - 1 <= b
        BY <1>3 DEF Positions
    <2>3. RInv' /\ (Apart(list, calls) => Apart(list, calls)')
        <3>1. Rearranges(l, l, a, b)
            BY <1>2, RearrangesNothing
        <3> QED
            BY <1>1, <1>2, <1>4, <2>1, <2>2, <3>1, PartitionStep
    <2>4. ASSUME Smaller, HalvesAt(l, a, b, p, y, p)
          PROVE  HalvesAt(l, a, b, p, y - 1, p)
        <3>1. keys[l[y]] >= keys[l[p]]
            BY <1>2, <1>5, <1>6, <1>9, <2>4
        <3>2. ASSUME NEW h \in ((y - 1) + 1)..b PROVE keys[l[h]] >= keys[l[p]]
            <4>1. h = y \/ h \in (y + 1)..b
                BY <1>3
            <4> QED
                BY <4>1, <3>1, <2>4 DEF HalvesAt
        <3> QED
            BY <3>2, <2>4 DEF HalvesAt
    <2>5. ASSUME OInv, Smaller PROVE OInv'
        <3>1. HalvesAt(l, a, b, p, y - 1, p)
            BY <1>7, <2>4, <2>5
        <3>2. Halves'
            BY <3>1, <1>1, <1>2, <2>1 DEF Halves, HalvesAt, from, to
        <3> QED
            BY <3>2, <1>7, <2>3, <2>5 DEF OInv
    <2> QED
        BY <2>3, <2>5
<1> QED
    BY <1>8, <1>9

LEMMA ChoosePivotKeeps ==
    ASSUME RInv, ChoosePivot
    PROVE  RInv' /\ (OInv => OInv')
<1>1. /\ pc = "call" /\ calls # <<>> /\ to - from + 1 > SIMCLIST_MINQUICKSORTELS
      /\ pivot' \in from..to /\ left' = from /\ right' = to /\ pc' = "partition"
      /\ UNCHANGED <<keys, call, list, calls>>
    BY DEF ChoosePivot
<1>2. /\ Positions' = Positions /\ Orders' = Orders /\ Sublist' = Sublist /\ from' = from
      /\ to' = to /\ SIMCLIST_MINQUICKSORTELS' = SIMCLIST_MINQUICKSORTELS
    BY <1>1 DEF Positions, Orders, Sublist, from, to, SIMCLIST_MINQUICKSORTELS
<1>3. from \in Positions /\ to \in Positions /\ from <= to /\ Len(keys) \in Nat
    BY <1>1, CurrentCall, KeysAndAnswers DEF RInv
<1>4. pivot' \in Positions /\ from <= pivot' /\ pivot' <= to /\ from <= from /\ to <= to
    BY <1>1, <1>3 DEF Positions
<1>5. Partitioning'
    BY <1>1, <1>2, <1>3, <1>4 DEF Partitioning
<1>6. Running' /\ Onto(list)' /\ Disjoint(calls)'
    BY <1>1, <1>2 DEF RInv, Running, Onto, Disjoint
<1>7. RInv'
    BY <1>1, <1>2, <1>5, <1>6 DEF RInv
<1>8. Halves'
    <2>1. /\ \A i \in from..(from - 1) : FALSE
          /\ \A i \in (to + 1)..to : FALSE
        BY <1>3 DEF Positions
    <2> QED
        BY <2>1, <1>1, <1>2 DEF Halves
<1>9. Apart(list, calls) => Apart(list, calls)'
    BY <1>1, <1>2 DEF Apart
<1> QED
    BY <1>7, <1>8, <1>9 DEF OInv

LEMMA SelectionSortKeeps ==
    ASSUME RInv, SelectionSort
    PROVE  RInv' /\ (OInv /\ Greater => OInv')
<1>1. /\ pc = "call" /\ calls # <<>> /\ list' = list_sort_selectionsort(list, from, to)
      /\ calls' = Tail(calls) /\ UNCHANGED <<keys, call, pc>>
    BY DEF SelectionSort
<1>2. /\ from \in Positions /\ to \in Positions /\ from <= to /\ Len(keys) \in Nat /\ Running
      /\ list \in Orders /\ calls \in Seq(Sublist) /\ Disjoint(calls) /\ Onto(list)
      /\ from = calls[1].first /\ to = calls[1].last
    BY <1>1, CurrentCall, KeysAndAnswers DEF RInv
<1>3. PICK l \in Orders, a \in Positions, b \in Positions, c \in Seq(Sublist) :
          l = list /\ a = from /\ b = to /\ c = calls
    BY <1>2
<1>4. PICK m : m = list_sort_selectionsort(l, a, b)
    OBVIOUS
<1>5. /\ Rearranges(l, m, a, b)
      /\ Greater => \A i, j \in a..b : i < j => keys[m[i]] <= keys[m[j]]
    BY <1>2, <1>3, <1>4, SelectionSorts
<1>6. m \in Orders
    BY <1>5 DEF Rearranges
<1>7. Onto(m)
    BY <1>2, <1>3, <1>5, RearrangesOnto
<1>8. /\ Tail(c) \in Seq(Sublist) /\ Len(Tail(c)) = Len(c) - 1 /\ c # <<>>
      /\ \A k \in 1..(Len(c) - 1) : Tail(c)[k] = c[k + 1]
      /\ c[1].first = a /\ c[1].last = b
    BY <1>1, <1>2, <1>3, CurrentCall
<1>9. PICK n \in Nat : n = Len(c) /\ DOMAIN c = 1..n /\ DOMAIN Tail(c) = 1..(n - 1)
    <2>1. PICK d \in Seq(Sublist) : d = Tail(c)
        BY <1>8
    <2>2. Len(c) \in Nat /\ DOMAIN c = 1..Len(c)
        OBVIOUS
    <2>3. DOMAIN d = 1..Len(d)
        OBVIOUS
    <2>4. Len(d) = Len(c) - 1
        BY <1>8, <2>1
    <2>5. DOMAIN Tail(c) = 1..(Len(c) - 1)
        BY <2>1, <2>3, <2>4
    <2> QED
        BY <2>2, <2>5, Zenon
<1>10. Disjoint(Tail(c))
    <2> SUFFICES ASSUME NEW k \in 1..(n - 1), NEW h \in 1..(n - 1), k < h
                 PROVE  c[k + 1].last < c[h + 1].first
        BY <1>8, <1>9 DEF Disjoint
    <2>1. k + 1 \in 1..n /\ h + 1 \in 1..n /\ k + 1 < h + 1
        OBVIOUS
    <2> QED
        BY <2>1, <1>2, <1>3, <1>9 DEF Disjoint
<1>11. /\ Positions' = Positions /\ Orders' = Orders /\ Sublist' = Sublist
       /\ list' = m /\ calls' = Tail(c)
    BY <1>1, <1>3, <1>4 DEF Positions, Orders, Sublist
<1>12. RInv'
    <2>1. Running' /\ Onto(list)' /\ Disjoint(calls)'
        BY <1>1, <1>2, <1>7, <1>10, <1>11 DEF Running, Onto, Disjoint
    <2> QED
        BY <2>1, <1>1, <1>6, <1>8, <1>11 DEF RInv
<1>13. ASSUME OInv, Greater PROVE OInv'
    <2>1. Apart(l, c)
        BY <1>3, <1>13 DEF OInv
    <2>2. Apart(m, c)
        BY <1>2, <1>3, <1>5, <1>8, <2>1, ApartRearranged
    <2>3. Apart(m, Tail(c))
        <3> SUFFICES ASSUME NEW i \in Positions, NEW j \in Positions, i < j,
                            ~(keys[m[i]] <= keys[m[j]])
                     PROVE  \E k \in DOMAIN Tail(c) : Tail(c)[k].first <= i /\ j <= Tail(c)[k].last
            BY DEF Apart
        <3>1. PICK k \in 1..n : c[k].first <= i /\ j <= c[k].last
            BY <1>9, <2>2 DEF Apart
        <3>2. CASE k = 1
            <4>1. i \in a..b /\ j \in a..b
                BY <1>2, <1>8, <3>1, <3>2 DEF Positions
            <4> QED
                BY <4>1, <1>5, <1>13
        <3>3. CASE k # 1
            <4>1. k - 1 \in 1..(n - 1) /\ (k - 1) + 1 = k
                BY <3>3
            <4>2. Tail(c)[k - 1] = c[k]
                BY <4>1, <1>8, <1>9
            <4> QED
                BY <4>1, <4>2, <3>1, <1>9
        <3> QED
            BY <3>2, <3>3
    <2> QED
        BY <2>3, <1>1, <1>11 DEF OInv, Apart
<1> QED
    BY <1>12, <1>13

LEMMA TwoSublists ==
    ASSUME NEW x \in Sublist, NEW y \in Sublist, NEW t, t = <<x>> \o <<y>>
    PROVE  t \in Seq(Sublist) /\ DOMAIN t = {1, 2} /\ t[1] = x /\ t[2] = y
<1>0. <<x>> \in Seq(Sublist) /\ <<y>> \in Seq(Sublist)
    OBVIOUS
<1>1. PICK s \in Seq(Sublist), u \in Seq(Sublist) : s = <<x>> /\ u = <<y>>
    BY <1>0, Zenon
<1>2. Len(s) = 1 /\ Len(u) = 1 /\ s[1] = x /\ u[1] = y
    BY <1>1
<1>3. t = s \o u
    BY <1>1
<1>4. t \in Seq(Sublist) /\ Len(t) = 2 /\ t[1] = x /\ t[2] = y
    BY <1>2, <1>3
<1> QED
    BY <1>4

\* The calls for the parts of a sublist from a to b around p.
Parts(a, p, b) ==
    (IF p > a THEN <<[first |-> a, last |-> p - 1]>> ELSE <<>>)
    \o (IF p < b THEN <<[first |-> p + 1, last |-> b]>> ELSE <<>>)

LEMMA PartsAround ==
    ASSUME Running, NEW a \in Positions, NEW p \in Positions, NEW b \in Positions,
           a <= p, p <= b
    PROVE  /\ Parts(a, p, b) \in Seq(Sublist) /\ Disjoint(Parts(a, p, b))
           /\ \A k \in DOMAIN Parts(a, p, b) :
                  a <= Parts(a, p, b)[k].first /\ Parts(a, p, b)[k].last <= b
           /\ \A i, j \in a..b : i < j /\ (j < p \/ p < i) =>
                  \E k \in DOMAIN Parts(a, p, b) :
                      Parts(a, p, b)[k].first <= i /\ j <= Parts(a, p, b)[k].last
<1>1. Len(keys) \in Nat
    BY KeysAndAnswers
<1>2. PICK t : t = Parts(a, p, b)
    OBVIOUS
<1> DEFINE L == [first |-> a, last |-> p - 1]
           R == [first |-> p + 1, last |-> b]
<1>3. p > a => L \in Sublist
    BY <1>1 DEF Sublist, Positions
<1>4. p < b => R \in Sublist
    BY <1>1 DEF Sublist, Positions
<1>5. a \in Int /\ p \in Int /\ b \in Int
    BY <1>1 DEF Positions
<1>6. CASE p > a /\ p < b
    <2>1. L \in Sublist /\ R \in Sublist
        BY <1>3, <1>4, <1>6
    <2>2. DOMAIN t = {1, 2} /\ t[1] = L /\ t[2] = R /\ t \in Seq(Sublist)
        <3>1. t = <<L>> \o <<R>>
            BY <1>2, <1>6 DEF Parts
        <3> HIDE DEF L, R
        <3> QED
            BY <2>1, <3>1, TwoSublists
    <2>3. L.last < R.first /\ a <= L.first /\ L.last <= b /\ a <= R.first /\ R.last <= b
        BY <1>5, <1>6
    <2>4. Disjoint(t)
        BY <2>2, <2>3 DEF Disjoint
    <2>5. ASSUME NEW i \in a..b, NEW j \in a..b, i < j, j < p \/ p < i
          PROVE  (L.first <= i /\ j <= L.last) \/ (R.first <= i /\ j <= R.last)
        BY <1>5, <2>5
    <2> HIDE DEF L, R
    <2> QED
        BY <2>2, <2>3, <2>4, <2>5, <1>2
<1>7. CASE p > a /\ ~(p < b)
    <2>1. t = <<L>>
        BY <1>2, <1>7 DEF Parts
    <2>2. DOMAIN t = {1} /\ t[1] = L /\ t \in Seq(Sublist)
        BY <2>1, <1>3, <1>7
    <2>3. a <= L.first /\ L.last <= b
        BY <1>5, <1>7
    <2>4. Disjoint(t)
        BY <2>2 DEF Disjoint
    <2>5. ASSUME NEW i \in a..b, NEW j \in a..b, i < j, j < p \/ p < i
          PROVE  L.first <= i /\ j <= L.last
        BY <1>5, <1>7, <2>5
    <2> HIDE DEF L, R
    <2> QED
        BY <2>2, <2>3, <2>4, <2>5, <1>2
<1>8. CASE ~(p > a) /\ p < b
    <2>1. t = <<R>>
        BY <1>2, <1>8 DEF Parts
    <2>2. DOMAIN t = {1} /\ t[1] = R /\ t \in Seq(Sublist)
        BY <2>1, <1>4, <1>8
    <2>3. a <= R.first /\ R.last <= b
        BY <1>5, <1>8
    <2>4. Disjoint(t)
        BY <2>2 DEF Disjoint
    <2>5. ASSUME NEW i \in a..b, NEW j \in a..b, i < j, j < p \/ p < i
          PROVE  R.first <= i /\ j <= R.last
        BY <1>5, <1>8, <2>5
    <2> HIDE DEF L, R
    <2> QED
        BY <2>2, <2>3, <2>4, <2>5, <1>2
<1>9. CASE ~(p > a) /\ ~(p < b)
    <2>1. t = <<>>
        BY <1>2, <1>9 DEF Parts
    <2>2. DOMAIN t = {} /\ t \in Seq(Sublist)
        BY <2>1
    <2>3. Disjoint(t)
        BY <2>2 DEF Disjoint
    <2>4. ASSUME NEW i \in a..b, NEW j \in a..b, i < j, j < p \/ p < i PROVE FALSE
        BY <1>5, <1>9, <2>4
    <2> QED
        BY <2>2, <2>3, <2>4, <1>2
<1> QED
    BY <1>6, <1>7, <1>8, <1>9

\* The sublists of t are parts of x.
Within(t, x) == \A k \in DOMAIN t : x.first <= t[k].first /\ t[k].last <= x.last

\* The calls of d are those of t and those of c without its first one.
Replaced(c, t, d) ==
    /\ d \in Seq(Sublist) /\ Disjoint(d)
    /\ \A k \in DOMAIN t : \E h \in DOMAIN d : d[h] = t[k]
    /\ \A k \in DOMAIN c : k # 1 => \E h \in DOMAIN d : d[h] = c[k]

\* A sublist's call is replaced by the calls for its parts.
LEMMA PartsReplaceCall ==
    ASSUME Running, NEW c \in Seq(Sublist), c # <<>>, Disjoint(c),
           NEW t \in Seq(Sublist), Disjoint(t), NEW d, d = t \o Tail(c),
           Within(t, c[1])
    PROVE  Replaced(c, t, d)
<1>0. Tail(c) \in Seq(Sublist)
    OBVIOUS
<1>1. PICK s \in Seq(Sublist) : s = Tail(c)
    BY <1>0, Zenon
<1>2. PICK n \in Nat, m \in Nat : n = Len(c) - 1 /\ m = Len(t) /\ Len(s) = n
    <2>1. Len(c) - 1 \in Nat /\ Len(t) \in Nat
        OBVIOUS
    <2>2. Len(s) = Len(c) - 1
        BY <1>1
    <2> QED
        BY <2>1, <2>2, Zenon
<1>3. /\ DOMAIN c = 1..(n + 1) /\ DOMAIN t = 1..m /\ \A k \in 1..n : s[k] = c[k + 1]
    BY <1>1, <1>2
<1>4. /\ d \in Seq(Sublist) /\ DOMAIN d = 1..(m + n)
      /\ \A k \in 1..m : d[k] = t[k]
    BY <1>1, <1>2
<1>5. \A k \in 1..n : d[m + k] = s[k]
    BY <1>1, <1>2
<1>6. \A k \in 1..n : d[m + k] = c[k + 1]
    BY <1>3, <1>5
<1>7. /\ \A k \in DOMAIN c : c[k].first \in Int /\ c[k].last \in Int /\ c[k].first <= c[k].last
      /\ \A k \in DOMAIN t : t[k].first \in Int /\ t[k].last \in Int /\ t[k].first <= t[k].last
    <2>1. \A x \in Sublist : x.first \in Int /\ x.last \in Int /\ x.first <= x.last
        BY KeysAndAnswers DEF Sublist, Positions
    <2>2. \A k \in DOMAIN c : c[k] \in Sublist
        OBVIOUS
    <2>3. \A k \in DOMAIN t : t[k] \in Sublist
        OBVIOUS
    <2> QED
        BY <2>1, <2>2, <2>3
<1>8. ASSUME NEW k \in 1..(m + n), NEW h \in 1..(m + n), k < h
      PROVE  d[k].last < d[h].first
    <2>1. CASE h <= m
        <3>1. k \in 1..m /\ h \in 1..m
            BY <1>8, <2>1
        <3> QED
            BY <3>1, <1>3, <1>4, <1>8 DEF Disjoint
    <2>2. CASE k > m
        <3>1. PICK a \in 1..n, b \in 1..n : k = m + a /\ h = m + b /\ a < b
            <4>1. k - m \in 1..n /\ h - m \in 1..n /\ k = m + (k - m) /\ h = m + (h - m) /\ k - m < h - m
                BY <1>8, <2>2
            <4> QED
                BY <4>1
        <3>2. d[k] = c[a + 1] /\ d[h] = c[b + 1]
            BY <3>1, <1>6
        <3>3. a + 1 \in DOMAIN c /\ b + 1 \in DOMAIN c /\ a + 1 < b + 1
            BY <3>1, <1>3
        <3> QED
            BY <3>2, <3>3 DEF Disjoint
    <2>3. CASE k <= m /\ h > m
        <3>1. PICK b \in 1..n : h = m + b
            <4>1. PICK b : b = h - m
                OBVIOUS
            <4>2. b \in 1..n /\ h = m + b
                BY <4>1, <1>8, <2>3
            <4> QED
                BY <4>2
        <3>2. d[h] = c[b + 1]
            BY <3>1, <1>6
        <3>3. b + 1 \in DOMAIN c /\ 1 \in DOMAIN c /\ 1 < b + 1
            BY <1>3
        <3>4. c[1].last < c[b + 1].first
            BY <3>3 DEF Disjoint
        <3>5. k \in DOMAIN t /\ d[k] = t[k]
            BY <1>3, <1>4, <1>8, <2>3
        <3>6. t[k].last <= c[1].last /\ t[k].last \in Int /\ c[1].last \in Int /\ c[b + 1].first \in Int
            BY <3>3, <3>5, <1>7 DEF Within
        <3>7. t[k].last < c[b + 1].first
            <4>1. \A x, y, z \in Int : x <= y /\ y < z => x < z
                OBVIOUS
            <4> QED
                BY <4>1, <3>4, <3>6, Zenon
        <3> QED
            BY <3>2, <3>5, <3>7
    <2>4. h <= m \/ k > m \/ (k <= m /\ h > m)
        BY <1>8
    <2> QED
        BY <2>1, <2>2, <2>3, <2>4, Zenon
<1>9. Disjoint(d)
    BY <1>4, <1>8 DEF Disjoint
<1>10. ASSUME NEW k \in DOMAIN t PROVE \E h \in DOMAIN d : d[h] = t[k]
    <2>1. k \in DOMAIN d
        BY <1>3, <1>4
    <2> QED
        BY <2>1, <1>3, <1>4
<1>11. ASSUME NEW k \in DOMAIN c, k # 1 PROVE \E h \in DOMAIN d : d[h] = c[k]
    <2>1. PICK a \in 1..n : k = a + 1
        <3>1. PICK a : a = k - 1
            OBVIOUS
        <3>2. a \in 1..n /\ k = a + 1
            BY <3>1, <1>3, <1>11
        <3> QED
            BY <3>2
    <2>2. m + a \in DOMAIN d
        BY <1>4
    <2> QED
        BY <2>1, <2>2, <1>6
<1> QED
    BY <1>4, <1>9, <1>10, <1>11 DEF Replaced

LEMMA SortPartsKeeps ==
    ASSUME RInv, SortParts
    PROVE  RInv' /\ (OInv => OInv')
<1>1. /\ pc = "partition" /\ left = pivot /\ right = pivot /\ pc' = "call"
      /\ calls' = Parts(from, pivot, to) \o Tail(calls)
      /\ UNCHANGED <<keys, call, list>>
    <2>1. SortParts => calls' = Parts(from, pivot, to) \o Tail(calls)
        <3>1. \A s, t, u : s \o t \o u = (s \o t) \o u
            OBVIOUS
        <3> QED
            BY <3>1 DEF SortParts, Parts
    <2> QED
        BY <2>1 DEF SortParts
<1>2. /\ calls # <<>> /\ calls \in Seq(Sublist) /\ Disjoint(calls) /\ Running
      /\ list \in Orders /\ Onto(list)
    BY <1>1 DEF RInv, Partitioning
<1>3. /\ {from, pivot, to} \subseteq Positions /\ from <= pivot /\ pivot <= to
      /\ from = calls[1].first /\ to = calls[1].last
    BY <1>1, <1>2, Pointers, CurrentCall
<1>4. PICK l \in Orders, a \in Positions, p \in Positions, b \in Positions, c \in Seq(Sublist) :
          l = list /\ a = from /\ p = pivot /\ b = to /\ c = calls
    BY <1>2, <1>3
<1>5. PICK t : t = Parts(a, p, b)
    OBVIOUS
<1>6. PICK d : d = t \o Tail(c)
    OBVIOUS
<1>7. a <= p /\ p <= b /\ c # <<>> /\ c[1].first = a /\ c[1].last = b /\ Disjoint(c)
    BY <1>2, <1>3, <1>4
<1>8. /\ t \in Seq(Sublist) /\ Disjoint(t)
      /\ \A k \in DOMAIN t : a <= t[k].first /\ t[k].last <= b
      /\ \A i, j \in a..b : i < j /\ (j < p \/ p < i) =>
             \E k \in DOMAIN t : t[k].first <= i /\ j <= t[k].last
    BY <1>2, <1>5, <1>7, PartsAround
<1>9. /\ d \in Seq(Sublist) /\ Disjoint(d)
      /\ \A k \in DOMAIN t : \E h \in DOMAIN d : d[h] = t[k]
      /\ \A k \in DOMAIN c : k # 1 => \E h \in DOMAIN d : d[h] = c[k]
    <2>1. Within(t, c[1])
        BY <1>7, <1>8 DEF Within
    <2>2. c # <<>> /\ Disjoint(c)
        BY <1>7
    <2>3. t \in Seq(Sublist) /\ Disjoint(t)
        BY <1>8
    <2>4. Replaced(c, t, d)
        BY <2>1, <2>2, <2>3, <1>2, <1>6, PartsReplaceCall
    <2> QED
        BY <2>4 DEF Replaced
<1>10. /\ Positions' = Positions /\ Orders' = Orders /\ Sublist' = Sublist
       /\ calls' = d /\ list' = l
    BY <1>1, <1>4, <1>5, <1>6 DEF Positions, Orders, Sublist
<1>11. RInv'
    <2>1. Running' /\ Onto(list)' /\ Disjoint(calls)'
        BY <1>1, <1>2, <1>9, <1>10 DEF Running, Onto, Disjoint
    <2> QED
        BY <2>1, <1>1, <1>9, <1>10 DEF RInv
<1>12. ASSUME OInv PROVE OInv'
    <2>1. Apart(l, c) /\ HalvesAt(l, a, b, p, p, p)
        BY <1>1, <1>4, <1>12 DEF OInv, Halves, HalvesAt
    <2>2. /\ \A h \in Positions : h \in Int /\ keys[l[h]] \in Int
        BY <1>2, <1>4, ComparesEntries
    <2>3. Apart(l, d)
        <3> SUFFICES ASSUME NEW i \in Positions, NEW j \in Positions, i < j,
                            ~(keys[l[i]] <= keys[l[j]])
                     PROVE  \E k \in DOMAIN d : d[k].first <= i /\ j <= d[k].last
            BY DEF Apart
        <3>1. PICK k \in DOMAIN c : c[k].first <= i /\ j <= c[k].last
            BY <2>1 DEF Apart
        <3>2. CASE k # 1
            <4>1. PICK h \in DOMAIN d : d[h] = c[k]
                BY <3>2, <1>9
            <4> QED
                BY <4>1, <3>1
        <3>3. CASE k = 1
            <4>1. a <= i /\ j <= b /\ i \in Int /\ j \in Int /\ a \in Int /\ b \in Int /\ p \in Int
                BY <3>1, <3>3, <1>7, <2>2
            <4>2. i \in a..b /\ j \in a..b
                BY <4>1
            <4>3. CASE j < p \/ p < i
                <5>1. PICK k2 \in DOMAIN t : t[k2].first <= i /\ j <= t[k2].last
                    BY <4>2, <4>3, <1>8
                <5>2. PICK h \in DOMAIN d : d[h] = t[k2]
                    BY <1>9
                <5> QED
                    BY <5>1, <5>2
            <4>4. CASE i <= p /\ p <= j
                <5>1. keys[l[i]] <= keys[l[p]]
                    <6>1. CASE i = p
                        BY <6>1, <2>2
                    <6>2. CASE i < p
                        <7>1. i \in a..(p - 1)
                            BY <6>2, <4>1
                        <7> QED
                            BY <7>1, <2>1 DEF HalvesAt
                    <6> QED
                        BY <6>1, <6>2, <4>1, <4>4
                <5>2. keys[l[p]] <= keys[l[j]]
                    <6>1. CASE j = p
                        BY <6>1, <2>2
                    <6>2. CASE p < j
                        <7>1. j \in (p + 1)..b
                            BY <6>2, <4>1
                        <7>2. keys[l[j]] >= keys[l[p]]
                            BY <7>1, <2>1 DEF HalvesAt
                        <7> QED
                            BY <7>2, <2>2
                    <6> QED
                        BY <6>1, <6>2, <4>1, <4>4
                <5>3. keys[l[i]] \in Int /\ keys[l[p]] \in Int /\ keys[l[j]] \in Int
                    BY <2>2
                <5>4. keys[l[i]] <= keys[l[j]]
                    BY <5>1, <5>2, <5>3
                <5> QED
                    BY <5>4
            <4> QED
                BY <4>1, <4>3, <4>4
        <3> QED
            BY <3>2, <3>3
    <2> QED
        BY <2>3, <1>1, <1>10 DEF OInv, Apart
<1> QED
    BY <1>11, <1>12

--------------------------------------------------------------------------------
(* The theorems.                                                             *)

\* Calls for which the comparator does what list_sort needs of it: it tells what is
\* greater, and where the list is too long to be selection sorted, what is smaller.
SupportedCalls ==
    \A c \in Calls : \A i, j \in DOMAIN c.keys :
        LET answer == Comparator[c.comparator, c.keys[i], c.keys[j]] IN
        /\ answer > 0 <=> c.keys[i] > c.keys[j]
        /\ Len(c.keys) > c.SIMCLIST_MINQUICKSORTELS =>
               (answer < 0 <=> c.keys[i] < c.keys[j])

LEMMA Supported ==
    ASSUME Running, SupportedCalls
    PROVE  Greater /\ (Len(keys) > SIMCLIST_MINQUICKSORTELS => Smaller)
<1>1. DOMAIN keys = Positions
    BY KeysAndAnswers
<1>2. ASSUME NEW i \in Positions, NEW j \in Positions
      PROVE  /\ compare(keys[i], keys[j]) > 0 <=> keys[i] > keys[j]
             /\ Len(keys) > SIMCLIST_MINQUICKSORTELS =>
                    (compare(keys[i], keys[j]) < 0 <=> keys[i] < keys[j])
    BY <1>1, Zenon DEF Running, SupportedCalls, SIMCLIST_MINQUICKSORTELS, compare
<1> QED
    BY <1>2, Zenon DEF Greater, Smaller

\* Only a list that is too long to be selection sorted is partitioned.
LEMMA PartitionsLongLists ==
    ASSUME RInv, pc = "partition"
    PROVE  Len(keys) > SIMCLIST_MINQUICKSORTELS
<1>1. /\ from \in Positions /\ to \in Positions /\ Len(keys) \in Nat
      /\ SIMCLIST_MINQUICKSORTELS \in Nat /\ to - from + 1 > SIMCLIST_MINQUICKSORTELS
    BY Pointers, KeysAndAnswers DEF RInv, Partitioning
<1> QED
    BY <1>1 DEF Positions

LEMMA Initially ==
    ASSUME Init
    PROVE  RInv /\ OInv
<1>1. Running /\ pc = "call"
    BY DEF Init, Running
<1>2. PICK n \in Nat : n = Len(keys) /\ Positions = 1..n
    <2>1. Len(keys) \in Nat
        BY <1>1, KeysAndAnswers
    <2> QED
        BY <2>1, Zenon DEF Positions
<1>3. list \in Orders /\ Onto(list) /\ \A h \in Positions : list[h] = h
    BY DEF Init, Orders, Onto, Positions
<1>4. CASE n <= 1
    <2>1. calls = <<>> /\ calls \in Seq(Sublist)
        BY <1>2, <1>4 DEF Init
    <2>2. Disjoint(calls)
        BY <2>1 DEF Disjoint
    <2>3. Apart(list, calls)
        BY <1>2, <1>4 DEF Apart
    <2> QED
        BY <1>1, <1>3, <2>1, <2>2, <2>3 DEF RInv, OInv
<1>5. CASE n > 1
    <2>1. calls = <<[first |-> 1, last |-> n]>>
        BY <1>2, <1>5 DEF Init
    <2>2. [first |-> 1, last |-> n] \in Sublist
        BY <1>2, <1>5 DEF Sublist
    <2>3. calls \in Seq(Sublist) /\ DOMAIN calls = {1} /\ calls[1].first = 1 /\ calls[1].last = n
        BY <2>1, <2>2
    <2>4. Disjoint(calls)
        BY <2>3 DEF Disjoint
    <2>5. Apart(list, calls)
        BY <2>3, <1>2 DEF Apart
    <2> QED
        BY <1>1, <1>3, <2>3, <2>4, <2>5 DEF RInv, OInv
<1> QED
    BY <1>2, <1>4, <1>5

LEMMA Unchanged ==
    ASSUME RInv, UNCHANGED vars
    PROVE  RInv' /\ (OInv => OInv')
<1>1. UNCHANGED <<keys, call, list, calls, pc, left, right, pivot>>
    BY DEF vars
<1>2. /\ Positions' = Positions /\ Orders' = Orders /\ Sublist' = Sublist /\ from' = from
      /\ to' = to /\ SIMCLIST_MINQUICKSORTELS' = SIMCLIST_MINQUICKSORTELS
    BY <1>1 DEF Positions, Orders, Sublist, from, to, SIMCLIST_MINQUICKSORTELS
<1>3. Running' /\ Onto(list)' /\ Disjoint(calls)'
    BY <1>1, <1>2 DEF RInv, Running, Onto, Disjoint
<1>4. Partitioning => Partitioning'
    BY <1>1, <1>2 DEF Partitioning
<1>5. RInv'
    BY <1>1, <1>2, <1>3, <1>4 DEF RInv
<1>6. Apart(list, calls) => Apart(list, calls)'
    BY <1>1, <1>2 DEF Apart
<1>7. Halves => Halves'
    BY <1>1, <1>2 DEF Halves
<1> QED
    BY <1>1, <1>5, <1>6, <1>7 DEF OInv

LEMMA Step ==
    ASSUME RInv, [Next]_vars
    PROVE  RInv' /\ (OInv /\ SupportedCalls => OInv')
<1>1. Running
    BY DEF RInv
<1>2. SupportedCalls => Greater
    BY <1>1, Supported
<1>3. pc = "partition" /\ SupportedCalls => Smaller
    BY <1>1, Supported, PartitionsLongLists
<1>4. CASE SelectionSort
    BY <1>2, <1>4, SelectionSortKeeps
<1>5. CASE ChoosePivot
    BY <1>5, ChoosePivotKeeps
<1>6. CASE ExchangePair
    <2>1. pc = "partition"
        BY <1>6 DEF ExchangePair
    <2> QED
        BY <2>1, <1>2, <1>3, <1>6, ExchangePairKeeps
<1>7. CASE MoveBehindPivot
    BY <1>2, <1>7, MoveBehindPivotKeeps
<1>8. CASE MoveBeforePivot
    <2>1. pc = "partition"
        BY <1>8 DEF MoveBeforePivot
    <2> QED
        BY <2>1, <1>3, <1>8, MoveBeforePivotKeeps
<1>9. CASE SortParts
    BY <1>9, SortPartsKeeps
<1>10. CASE UNCHANGED vars
    BY <1>10, Unchanged
<1> QED
    BY <1>4, <1>5, <1>6, <1>7, <1>8, <1>9, <1>10 DEF Next

LEMMA Rearranging == Spec => []RInv
<1>1. Init => RInv
    BY Initially
<1>2. RInv /\ [Next]_vars => RInv'
    BY Step
<1> QED
    BY <1>1, <1>2, PTL DEF Spec

LEMMA Sorting == SupportedCalls => (Spec => [](RInv /\ OInv))
<1> SUFFICES ASSUME SupportedCalls PROVE Spec => [](RInv /\ OInv)
    OBVIOUS
<1>1. Init => RInv /\ OInv
    BY Initially
<1>2. RInv /\ OInv /\ [Next]_vars => (RInv /\ OInv)'
    BY Step
<1> QED
    BY <1>1, <1>2, PTL DEF Spec

\* While list_sort runs, the list keeps its length, the sublists of the recursive
\* calls lie within it, and the scan pointers stay around the pivot within the
\* sublist (simclist.c:571-692), whatever the comparator answers.
THEOREM TypeCorrect == Spec => []TypeOK
<1>1. RInv => TypeOK
    <2> SUFFICES ASSUME RInv PROVE TypeOK
        OBVIOUS
    <2>1. list \in [1..Len(keys) -> 1..Len(keys)] /\ pc \in {"call", "partition"}
        BY DEF RInv, Orders, Positions
    <2>2. PICK c \in Seq(Sublist) : c = calls
        BY DEF RInv
    <2>3. ASSUME NEW k \in DOMAIN c
          PROVE  1 <= c[k].first /\ c[k].first <= c[k].last /\ c[k].last <= Len(keys)
        <3>1. c[k] \in Sublist
            OBVIOUS
        <3>2. Len(keys) \in Nat
            BY KeysAndAnswers DEF RInv
        <3> QED
            BY <3>1, <3>2 DEF Sublist, Positions
    <2>4. pc = "partition" => from <= left /\ left <= pivot /\ pivot <= right /\ right <= to
        BY DEF RInv, Partitioning
    <2> QED
        BY <2>1, <2>2, <2>3, <2>4 DEF TypeOK
<1> QED
    BY <1>1, Rearranging, PTL

\* However the exchanges and the rotations around the pivot move the data of the
\* entries (simclist.c:615-656), every element stays in the list: for any comparator,
\* any pivots and lists of any length.
THEOREM NothingLost == Spec => []Permutation
<1>1. RInv => Permutation
    BY DEF RInv, Orders, Onto, Permutation
<1> QED
    BY <1>1, Rearranging, PTL

\* When a sublist is split at its pivot (simclist.c:658-690), what is before the pivot is
\* not greater and what is behind it is not smaller, if the comparator tells both.
THEOREM SplitAtPivot == SupportedCalls => (Spec => []PartitionedAroundPivot)
<1> SUFFICES ASSUME SupportedCalls PROVE Spec => []PartitionedAroundPivot
    OBVIOUS
<1>1. RInv /\ OInv => PartitionedAroundPivot
    BY DEF OInv, Halves, PartitionedAroundPivot
<1> QED
    BY <1>1, Sorting, PTL

\* list_sort returns a sorted list (simclist.c:521-692) for every comparator that tells
\* what is smaller and what is greater, and for one that tells only what is greater, as
\* the sort filter's (sort_filter.c:44), as long as the list is not longer than
\* SIMCLIST_MINQUICKSORTELS.
THEOREM Sorted == SupportedCalls => (Spec => []SortsByTimestamp)
<1> SUFFICES ASSUME SupportedCalls PROVE Spec => []SortsByTimestamp
    OBVIOUS
<1>1. RInv /\ OInv => SortsByTimestamp
    <2> SUFFICES ASSUME RInv, OInv, done, NEW i \in DOMAIN list, NEW j \in DOMAIN list, i < j
                 PROVE  keys[list[i]] <= keys[list[j]]
        BY DEF SortsByTimestamp
    <2>1. DOMAIN calls = {}
        BY DEF done
    <2>2. i \in Positions /\ j \in Positions
        BY DEF RInv, Orders
    <2> QED
        BY <2>1, <2>2 DEF OInv, Apart
<1> QED
    BY <1>1, Sorting, PTL
================================================================================
