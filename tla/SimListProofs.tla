------------------------------ MODULE SimListProofs ------------------------------
(***************************************************************************)
(* The list library implements a list, whatever is stored in it, however     *)
(* long it grows and whatever is called in whatever order.                   *)
(*                                                                          *)
(* The invariant names the entries by the places they are linked at: from    *)
(* the head sentinel, at place 0, to the tail sentinel, at the place behind  *)
(* the last element (Chained).  An operation changes the links of two        *)
(* entries; what it does to the places is an insertion or a removal, and     *)
(* what it does to the middle pointer is arithmetic on places.              *)
(***************************************************************************)
EXTENDS SimList, Recursion, FiniteSetTheorems, SequenceTheorems

\* The addresses malloc can return.
Addresses == Nat \ {0}

\* The links of n entries, at the places c.
Chained(next, prev, c, n) ==
    /\ c[0] = HEAD /\ c[n + 1] = TAIL
    /\ \A i \in 1..n : c[i] \in Addresses
    /\ \A i, j \in 1..n : c[i] = c[j] => i = j
    /\ DOMAIN next = {c[i] : i \in 0..(n + 1)} /\ DOMAIN prev = {c[i] : i \in 0..(n + 1)}
    /\ \A i \in 0..n : next[c[i]] = c[i + 1]
    /\ \A i \in 1..(n + 1) : prev[c[i]] = c[i - 1]
    /\ next[TAIL] = NULL /\ prev[HEAD] = NULL

\* The elements of n entries at the places c.
Holds(data, c, n) ==
    /\ DOMAIN data = {c[i] : i \in 0..(n + 1)}
    /\ data[HEAD] = NULL /\ data[TAIL] = NULL
    /\ \A i \in 1..n : data[c[i]] \in Data

\* The elements themselves.
At(data, c, n) == [i \in 1..n |-> data[c[i]]]

\* The entries at the places.
Entries(c, n) == {c[i] : i \in 1..n}

\* The middle of n entries; nothing reads that of an empty list.
IsMiddle(mid, c, n) ==
    IF n = 0 THEN mid \in {HEAD, NULL} ELSE mid = c[MidPosition(n) + 1]

\* What a list_t consists of.
IsList(x) ==
    DOMAIN x = {"next", "prev", "data", "mid", "numels", "spareels",
                "iter_active", "iter_pos", "iter_curentry", "comparator"}

\* The list x with its entries at the places c.
Sound(x, c) ==
    /\ IsList(x) /\ x.numels \in Nat
    /\ c = [i \in 0..(x.numels + 1) |-> c[i]]
    /\ Chained(x.next, x.prev, c, x.numels)
    /\ Holds(x.data, c, x.numels)
    /\ IsMiddle(x.mid, c, x.numels)

\* The spare entries are different from each other and from those at the places c.
Spares(s, c, n) ==
    /\ s \in Seq(Addresses) /\ Len(s) <= SIMCLIST_MAX_SPARE_ELEMS
    /\ \A i, j \in 1..Len(s) : s[i] = s[j] => i = j
    /\ Range(s) \cap Entries(c, n) = {}

\* The iterator has passed iter_pos places and points to the next one.
Iterator(x, c) ==
    x.iter_active =>
        /\ x.iter_pos \in 0..(x.numels + 1)
        /\ x.iter_curentry = IF x.iter_pos <= x.numels THEN c[x.iter_pos + 1] ELSE NULL

Consistent(x, h, c) ==
    /\ Sound(x, c) /\ x.numels <= MaxLength
    /\ Spares(x.spareels, c, x.numels)
    /\ h = Entries(c, x.numels) \cup Range(x.spareels)
    /\ x.iter_active \in BOOLEAN /\ x.comparator \in BOOLEAN
    /\ Iterator(x, c)

\* The entries and the sentinels, in the order of the links.
Places(x) == [i \in 0..(x.numels + 1) |-> Follow(x.next, HEAD, i)]

IInv == Consistent(l, heap, Places(l))

--------------------------------------------------------------------------------
(* Following links.                                                          *)

\* Walk(link, e, f) is f if f says where the links lead from e.
Walk(link, e, f) ==
    [i \in Nat |-> IF i = 0 THEN e
                   ELSE LET p == f[i - 1] IN IF p = NULL THEN NULL ELSE link[p]]

\* A function that follows the links says where they lead.
LEMMA FollowIs ==
    ASSUME NEW link, NEW e, NEW g, g = [i \in Nat |-> g[i]], g[0] = e,
           \A i \in Nat : g[i + 1] = IF g[i] = NULL THEN NULL ELSE link[g[i]],
           NEW k \in Nat
    PROVE  Follow(link, e, k) = g[k]
<1> DEFINE f == CHOOSE h : h = Walk(link, e, h)
<1>1. g = Walk(link, e, g)
    <2>1. PICK h : h = Walk(link, e, g)
        OBVIOUS
    <2>2. DOMAIN h = Nat /\ h = [i \in Nat |-> h[i]]
        BY <2>1 DEF Walk
    <2>3. ASSUME NEW i \in Nat PROVE g[i] = h[i]
        <3>1. CASE i = 0
            BY <2>1, <3>1 DEF Walk
        <3>2. CASE i # 0
            <4>1. i - 1 \in Nat /\ (i - 1) + 1 = i
                BY <3>2
            <4>2. g[i] = IF g[i - 1] = NULL THEN NULL ELSE link[g[i - 1]]
                BY <4>1
            <4> QED
                BY <2>1, <3>2, <4>2 DEF Walk
        <3> QED
            BY <3>1, <3>2
    <2> QED
        BY <2>1, <2>2, <2>3
<1>2. f = Walk(link, e, f)
    BY <1>1, Zenon
<1> HIDE DEF f
<1>3. /\ f[0] = e
      /\ \A i \in Nat : f[i + 1] = IF f[i] = NULL THEN NULL ELSE link[f[i]]
    <2>1. PICK h : h = Walk(link, e, f)
        OBVIOUS
    <2>2. h[0] = e
        BY <2>1 DEF Walk
    <2>3. ASSUME NEW i \in Nat PROVE h[i + 1] = IF f[i] = NULL THEN NULL ELSE link[f[i]]
        <3>1. i + 1 \in Nat /\ i + 1 # 0 /\ (i + 1) - 1 = i
            OBVIOUS
        <3> QED
            BY <2>1, <3>1 DEF Walk
    <2>4. f = h
        BY <1>2, <2>1, Zenon
    <2> QED
        BY <2>2, <2>3, <2>4, Zenon
<1>4. \A i \in Nat : f[i] = g[i]
    <2> DEFINE T == {i \in Nat : f[i] = g[i]}
    <2>1. 0 \in T
        BY <1>3
    <2>2. \A i \in Nat : i \in T => i + 1 \in T
        BY <1>3
    <2> HIDE DEF T
    <2>3. Nat \subseteq T
        BY <2>1, <2>2, Induction, Zenon
    <2> QED
        BY <2>3 DEF T
<1>5. Follow(link, e, k) = f[k]
    BY Zenon DEF Follow, Walk, f
<1> QED
    BY <1>4, <1>5

\* Links lead from place to place, and from a sentinel nowhere.
LEMMA FollowNext ==
    ASSUME NEW next, NEW prev, NEW c, NEW n \in Nat, Chained(next, prev, c, n),
           NEW i \in 0..(n + 1), NEW k \in Nat
    PROVE  Follow(next, c[i], k) = IF i + k <= n + 1 THEN c[i + k] ELSE NULL
<1> DEFINE g == [j \in Nat |-> IF i + j <= n + 1 THEN c[i + j] ELSE NULL]
<1>1. g = [j \in Nat |-> g[j]] /\ g[0] = c[i]
    OBVIOUS
<1>2. \A j \in 0..(n + 1) : c[j] # NULL
    BY DEF Chained, HEAD, TAIL, NULL, Addresses
<1>3. ASSUME NEW j \in Nat
      PROVE  g[j + 1] = IF g[j] = NULL THEN NULL ELSE next[g[j]]
    <2>1. CASE i + j <= n
        <3>1. i + j \in 0..n /\ i + j \in 0..(n + 1) /\ i + (j + 1) = (i + j) + 1
              /\ i + (j + 1) <= n + 1 /\ i + j <= n + 1
            BY <2>1
        <3>2. g[j] = c[i + j] /\ g[j + 1] = c[(i + j) + 1] /\ c[i + j] # NULL
            BY <1>2, <3>1
        <3> QED
            BY <3>1, <3>2 DEF Chained
    <2>2. CASE i + j = n + 1
        <3>1. g[j] = TAIL /\ g[j + 1] = NULL
            BY <2>2 DEF Chained
        <3> QED
            BY <3>1 DEF Chained, TAIL, NULL
    <2>3. CASE i + j > n + 1
        BY <2>3
    <2> QED
        BY <2>1, <2>2, <2>3
<1> QED
    <2> HIDE DEF g
    <2>1. Follow(next, c[i], k) = g[k]
        BY <1>1, <1>3, FollowIs
    <2> QED
        BY <2>1 DEF g

\* Links lead back from place to place, and from the head sentinel nowhere.
LEMMA FollowPrev ==
    ASSUME NEW next, NEW prev, NEW c, NEW n \in Nat, Chained(next, prev, c, n),
           NEW i \in 0..(n + 1), NEW k \in Nat
    PROVE  Follow(prev, c[i], k) = IF k <= i THEN c[i - k] ELSE NULL
<1> DEFINE g == [j \in Nat |-> IF j <= i THEN c[i - j] ELSE NULL]
<1>1. g = [j \in Nat |-> g[j]] /\ g[0] = c[i]
    OBVIOUS
<1>2. \A j \in 0..(n + 1) : c[j] # NULL
    BY DEF Chained, HEAD, TAIL, NULL, Addresses
<1>3. ASSUME NEW j \in Nat
      PROVE  g[j + 1] = IF g[j] = NULL THEN NULL ELSE prev[g[j]]
    <2>1. CASE j < i
        <3>1. i - j \in 1..(n + 1) /\ i - j \in 0..(n + 1) /\ i - (j + 1) = (i - j) - 1
              /\ j + 1 <= i /\ j <= i
            BY <2>1
        <3>2. g[j] = c[i - j] /\ g[j + 1] = c[(i - j) - 1] /\ c[i - j] # NULL
            BY <1>2, <3>1
        <3> QED
            BY <3>1, <3>2 DEF Chained
    <2>2. CASE j = i
        <3>1. g[j] = HEAD /\ g[j + 1] = NULL
            BY <2>2 DEF Chained
        <3> QED
            BY <3>1 DEF Chained, HEAD, NULL
    <2>3. CASE j > i
        BY <2>3
    <2> QED
        BY <2>1, <2>2, <2>3
<1> QED
    <2> HIDE DEF g
    <2>1. Follow(prev, c[i], k) = g[k]
        BY <1>1, <1>3, FollowIs
    <2> QED
        BY <2>1 DEF g

\* The place in the middle.
LEMMA MiddlePlace ==
    ASSUME NEW n \in Nat \ {0}
    PROVE  /\ MidPosition(n) \in 0..(n - 1)
           /\ 2 * MidPosition(n) <= n - 1 /\ n - 1 <= 2 * MidPosition(n) + 1
BY DEF MidPosition

\* Whichever way it is looked for, a position is at its place, behind the head sentinel.
LEMMA FindPos ==
    ASSUME NEW x, NEW c, x.numels \in Nat, Chained(x.next, x.prev, c, x.numels),
           IsMiddle(x.mid, c, x.numels), NEW pos \in -1..x.numels
    PROVE  list_findpos(x, pos) = c[pos + 1]
<1>1. PICK n \in Nat : n = x.numels
    OBVIOUS
<1>2. PICK q \in 0..(n + 1) : q = pos + 1
    BY <1>1
<1>3. c[0] = HEAD /\ c[n + 1] = TAIL
    BY <1>1 DEF Chained
<1>4. PICK m \in Int : m = MidPosition(n)
    BY DEF MidPosition
<1>5. n > 0 => m \in 0..(n - 1) /\ 2 * m <= n - 1 /\ n - 1 <= 2 * m + 1 /\ x.mid = c[m + 1]
    BY <1>1, <1>4, MiddlePlace DEF IsMiddle
<1>6. Follow(x.next, HEAD, q) = c[q]
    <2>1. 0 \in 0..(n + 1) /\ q \in Nat /\ 0 + q = q /\ q <= n + 1
        OBVIOUS
    <2>2. Follow(x.next, c[0], q) = c[q]
        BY <1>1, <2>1, FollowNext
    <2> QED
        BY <1>3, <2>2
<1>7. Follow(x.prev, TAIL, n - pos) = c[q]
    <2>1. /\ n + 1 \in 0..(n + 1) /\ n - pos \in Nat /\ n - pos <= n + 1
          /\ (n + 1) - (n - pos) = q
        BY <1>1, <1>2
    <2>2. Follow(x.prev, c[n + 1], n - pos) = c[q]
        BY <1>1, <2>1, FollowPrev
    <2> QED
        BY <1>3, <2>2
<1>8. n > 0 /\ 2 * q < n => Follow(x.prev, x.mid, m - pos) = c[q]
    <2> SUFFICES ASSUME n > 0, 2 * q < n PROVE Follow(x.prev, x.mid, m - pos) = c[q]
        OBVIOUS
    <2>1. /\ m + 1 \in 0..(n + 1) /\ m - pos \in Nat /\ m - pos <= m + 1
          /\ (m + 1) - (m - pos) = q
        BY <1>1, <1>2, <1>5
    <2>2. PICK k \in Nat : k = m - pos /\ k <= m + 1 /\ (m + 1) - k = q
        BY <2>1
    <2>3. PICK i \in 0..(n + 1) : i = m + 1 /\ k <= i /\ i - k = q
        BY <2>1, <2>2
    <2>4. Chained(x.next, x.prev, c, n)
        BY <1>1, Zenon
    <2>5. Follow(x.prev, c[i], k) = c[i - k]
        BY <2>3, <2>4, FollowPrev
    <2> QED
        BY <1>5, <2>2, <2>3, <2>5
<1>9. n > 0 /\ 2 * q >= n /\ 4 * q <= 3 * n => Follow(x.next, x.mid, pos - m) = c[q]
    <2> SUFFICES ASSUME n > 0, 2 * q >= n, 4 * q <= 3 * n
                 PROVE  Follow(x.next, x.mid, pos - m) = c[q]
        OBVIOUS
    <2>1. /\ m + 1 \in 0..(n + 1) /\ pos - m \in Nat
          /\ (m + 1) + (pos - m) = q /\ q <= n + 1
        BY <1>1, <1>2, <1>5
    <2>2. Follow(x.next, c[m + 1], pos - m) = c[q]
        BY <1>1, <2>1, FollowNext
    <2> QED
        BY <1>5, <2>2
<1>10. list_findpos(x, pos) = c[q]
    BY <1>1, <1>2, <1>4, <1>6, <1>7, <1>8, <1>9 DEF list_findpos
<1> QED
    BY <1>2, <1>10

--------------------------------------------------------------------------------
(* Insertion and removal.                                                    *)

\* The places when e is inserted before position pos, or the entries a..b are removed.
Inserted(c, n, e, pos) ==
    [i \in 0..(n + 2) |-> IF i <= pos THEN c[i] ELSE IF i = pos + 1 THEN e ELSE c[i - 1]]
Removed(c, n, a, b) ==
    [i \in 0..((n - (b - a + 1)) + 1) |-> IF i < a THEN c[i] ELSE c[i + (b - a + 1)]]

\* The entries that are removed.
Run(c, a, b) == [i \in 1..(b - a + 1) |-> c[a + i - 1]]

\* The sentinels are not among the entries, nor is an address that is not in the list.
LEMMA DistinctPlaces ==
    ASSUME NEW next, NEW prev, NEW c, NEW n \in Nat, Chained(next, prev, c, n)
    PROVE  /\ \A i, j \in 0..(n + 1) : c[i] = c[j] => i = j
           /\ \A e \in Addresses : (\A i \in 1..n : c[i] # e) => \A i \in 0..(n + 1) : c[i] # e
<1>1. /\ c[0] = 0 /\ c[n + 1] = -1
      /\ \A i \in 1..n : c[i] \in Nat \ {0}
      /\ \A i, j \in 1..n : c[i] = c[j] => i = j
    BY DEF Chained, Addresses, HEAD, TAIL
<1>2. \A i \in 0..(n + 1) : i = 0 \/ i = n + 1 \/ i \in 1..n
    OBVIOUS
<1>3. ASSUME NEW i \in 0..(n + 1), NEW j \in 0..(n + 1), c[i] = c[j] PROVE i = j
    BY <1>1, <1>2, <1>3
<1>4. ASSUME NEW e \in Addresses, \A i \in 1..n : c[i] # e, NEW i \in 0..(n + 1) PROVE c[i] # e
    BY <1>1, <1>2, <1>4 DEF Addresses
<1> QED
    BY <1>3, <1>4

\* The links of two neighbours changed, and those of e added, put e between them.
LEMMA InsertedPlaces ==
    ASSUME NEW next, NEW prev, NEW c, NEW n \in Nat, Chained(next, prev, c, n),
           NEW e \in Addresses, \A i \in 1..n : c[i] # e, NEW pos \in 0..n
    PROVE  Chained(With([next EXCEPT ![c[pos]] = e], e, c[pos + 1]),
                   With([prev EXCEPT ![c[pos + 1]] = e], e, c[pos]),
                   Inserted(c, n, e, pos), n + 1)
<1>1. PICK d : d = Inserted(c, n, e, pos)
    OBVIOUS
<1>2. d = [i \in 0..(n + 2) |-> d[i]]
    BY <1>1 DEF Inserted
<1>3. /\ \A i \in 0..pos : d[i] = c[i]
      /\ d[pos + 1] = e
      /\ \A i \in (pos + 2)..(n + 2) : d[i] = c[i - 1]
    BY <1>1 DEF Inserted
<1>4. /\ \A i \in 0..(n + 1) : c[i] # e
      /\ \A i, j \in 0..(n + 1) : c[i] = c[j] => i = j
    BY DistinctPlaces
<1> DEFINE Forward == \A i \in 0..n : c[i] \in DOMAIN next /\ next[c[i]] = c[i + 1]
           Backward == \A i \in 1..(n + 1) : c[i] \in DOMAIN prev /\ prev[c[i]] = c[i - 1]
<1>17. Forward /\ Backward
    <2>1. \A i \in 0..n : i \in 0..(n + 1)
        OBVIOUS
    <2>2. \A i \in 1..(n + 1) : i \in 0..(n + 1)
        OBVIOUS
    <2> QED
        BY <2>1, <2>2, Zenon DEF Chained
<1>5. PICK nx : nx = With([next EXCEPT ![c[pos]] = e], e, c[pos + 1])
    OBVIOUS
<1>6. PICK pv : pv = With([prev EXCEPT ![c[pos + 1]] = e], e, c[pos])
    OBVIOUS
<1>7. /\ DOMAIN nx = {e} \cup DOMAIN next /\ nx[e] = c[pos + 1] /\ nx[c[pos]] = e
      /\ \A y \in DOMAIN next : y # e /\ y # c[pos] => nx[y] = next[y]
    <2>1. c[pos] \in DOMAIN next /\ c[pos] # e
        BY <1>4 DEF Chained
    <2> QED
        BY <1>5, <2>1 DEF With
<1>8. /\ DOMAIN pv = {e} \cup DOMAIN prev /\ pv[e] = c[pos] /\ pv[c[pos + 1]] = e
      /\ \A y \in DOMAIN prev : y # e /\ y # c[pos + 1] => pv[y] = prev[y]
    <2>1. c[pos + 1] \in DOMAIN prev /\ c[pos + 1] # e
        BY <1>4 DEF Chained
    <2> QED
        BY <1>6, <2>1 DEF With
<1>9. {d[i] : i \in 0..(n + 2)} = {e} \cup {c[i] : i \in 0..(n + 1)}
    <2>1. ASSUME NEW i \in 0..(n + 2) PROVE d[i] \in {e} \cup {c[j] : j \in 0..(n + 1)}
        BY <1>3
    <2>2. ASSUME NEW j \in 0..(n + 1) PROVE c[j] \in {d[i] : i \in 0..(n + 2)}
        <3>1. CASE j <= pos
            BY <1>3, <3>1
        <3>2. CASE j > pos
            <4>1. j + 1 \in (pos + 2)..(n + 2) /\ (j + 1) - 1 = j /\ j + 1 \in 0..(n + 2)
                BY <3>2
            <4>2. d[j + 1] = c[j]
                BY <1>3, <4>1
            <4> QED
                BY <4>1, <4>2
        <3> QED
            BY <3>1, <3>2
    <2>3. e \in {d[i] : i \in 0..(n + 2)}
        BY <1>3
    <2> QED
        BY <2>1, <2>2, <2>3
<1>10. d[0] = HEAD /\ d[n + 2] = TAIL
    BY <1>3 DEF Chained
<1>11. \A i \in 1..(n + 1) : d[i] \in Addresses
    BY <1>3 DEF Chained
<1>12. \A i, j \in 1..(n + 1) : d[i] = d[j] => i = j
    BY <1>3, <1>4
<1>13. ASSUME NEW i \in 0..(n + 1) PROVE nx[d[i]] = d[i + 1]
    <2>1. CASE i < pos
        <3>1. i \in 0..n /\ d[i] = c[i] /\ d[i + 1] = c[i + 1] /\ c[i] # c[pos] /\ c[i] # e
            BY <2>1, <1>3, <1>4
        <3> QED
            BY <3>1, <1>7, <1>17
    <2>2. CASE i = pos
        BY <2>2, <1>3, <1>7
    <2>3. CASE i = pos + 1
        <3>1. d[i + 1] = c[(i + 1) - 1] /\ (i + 1) - 1 = pos + 1
            BY <2>3, <1>3
        <3> QED
            BY <2>3, <3>1, <1>3, <1>7
    <2>4. CASE i > pos + 1
        <3>1. /\ i - 1 \in 0..n /\ d[i] = c[i - 1] /\ d[i + 1] = c[(i - 1) + 1]
              /\ c[i - 1] # c[pos] /\ c[i - 1] # e
            BY <2>4, <1>3, <1>4
        <3> QED
            BY <3>1, <1>7, <1>17
    <2> QED
        BY <2>1, <2>2, <2>3, <2>4
<1>14. ASSUME NEW i \in 1..(n + 2) PROVE pv[d[i]] = d[i - 1]
    <2>1. CASE i <= pos
        <3>1. i \in 1..(n + 1) /\ d[i] = c[i] /\ d[i - 1] = c[i - 1] /\ c[i] # c[pos + 1] /\ c[i] # e
            BY <2>1, <1>3, <1>4
        <3> QED
            BY <3>1, <1>8, <1>17
    <2>2. CASE i = pos + 1
        BY <2>2, <1>3, <1>8
    <2>3. CASE i = pos + 2
        <3>1. d[i] = c[pos + 1] /\ d[i - 1] = e
            BY <2>3, <1>3
        <3> QED
            BY <3>1, <1>8
    <2>4. CASE i > pos + 2
        <3>1. /\ i - 1 \in 1..(n + 1) /\ d[i] = c[i - 1] /\ d[i - 1] = c[(i - 1) - 1]
              /\ c[i - 1] # c[pos + 1] /\ c[i - 1] # e
            BY <2>4, <1>3, <1>4
        <3> QED
            BY <3>1, <1>8, <1>17
    <2> QED
        BY <2>1, <2>2, <2>3, <2>4
<1>15. nx[TAIL] = NULL /\ pv[HEAD] = NULL
    <2>1. TAIL \in DOMAIN next /\ TAIL # e /\ TAIL # c[pos]
        <3>1. TAIL = c[n + 1] /\ n + 1 \in 0..(n + 1) /\ pos \in 0..(n + 1) /\ pos # n + 1
            BY DEF Chained
        <3> QED
            BY <3>1, <1>4 DEF Chained
    <2>2. HEAD \in DOMAIN prev /\ HEAD # e /\ HEAD # c[pos + 1]
        <3>1. HEAD = c[0] /\ 0 \in 0..(n + 1) /\ pos + 1 \in 0..(n + 1) /\ pos + 1 # 0
            BY DEF Chained
        <3> QED
            BY <3>1, <1>4 DEF Chained
    <2> QED
        BY <2>1, <2>2, <1>7, <1>8 DEF Chained
<1>16. Chained(nx, pv, d, n + 1)
    <2>1. (n + 1) + 1 = n + 2
        OBVIOUS
    <2>2. DOMAIN nx = {d[i] : i \in 0..(n + 2)} /\ DOMAIN pv = {d[i] : i \in 0..(n + 2)}
        BY <1>7, <1>8, <1>9 DEF Chained
    <2> QED
        BY <2>1, <2>2, <1>2, <1>10, <1>11, <1>12, <1>13, <1>14, <1>15 DEF Chained
<1> QED
    BY <1>1, <1>5, <1>6, <1>16

\* The entries from place a to place b.
LEMMA RunRange ==
    ASSUME NEW c, NEW a \in Nat, NEW b \in Nat
    PROVE  Range(Run(c, a, b)) = {c[i] : i \in a..b}
<1>1. Range(Run(c, a, b)) = {c[a + i - 1] : i \in 1..(b - a + 1)}
    BY DEF Range, Run
<1>2. \A i \in 1..(b - a + 1) : a + i - 1 \in a..b
    OBVIOUS
<1>3. \A j \in a..b : j - a + 1 \in 1..(b - a + 1) /\ a + (j - a + 1) - 1 = j
    OBVIOUS
<1> QED
    BY <1>1, <1>2, <1>3

\* The links of two entries changed and those between them dropped, the run is gone.
LEMMA RemovedPlaces ==
    ASSUME NEW next, NEW prev, NEW c, NEW n \in Nat, Chained(next, prev, c, n),
           NEW a \in 1..(n + 1), NEW b \in (a - 1)..n
    PROVE  Chained(Only([next EXCEPT ![c[a - 1]] = c[b + 1]], Run(c, a, b)),
                   Only([prev EXCEPT ![c[b + 1]] = c[a - 1]], Run(c, a, b)),
                   Removed(c, n, a, b), n - (b - a + 1))
<1>24. PICK es : es = Run(c, a, b)
    OBVIOUS
<1>25. Range(es) = {c[i] : i \in a..b}
    BY <1>24, RunRange
<1>1. PICK k \in 0..n : k = b - a + 1
    OBVIOUS
<1>2. PICK m \in 0..n : m = n - k
    OBVIOUS
<1>3. PICK d : d = Removed(c, n, a, b)
    OBVIOUS
<1>4. d = [i \in 0..(m + 1) |-> d[i]]
    BY <1>1, <1>2, <1>3 DEF Removed
<1>5. /\ \A i \in 0..(a - 1) : d[i] = c[i]
      /\ \A i \in a..(m + 1) : d[i] = c[i + k]
    BY <1>1, <1>2, <1>3 DEF Removed
<1>6. \A i, j \in 0..(n + 1) : c[i] = c[j] => i = j
    BY DistinctPlaces
<1>7. /\ \A i \in 0..n : c[i] \in DOMAIN next /\ next[c[i]] = c[i + 1]
      /\ \A i \in 1..(n + 1) : c[i] \in DOMAIN prev /\ prev[c[i]] = c[i - 1]
    <2>1. \A i \in 0..n : i \in 0..(n + 1)
        OBVIOUS
    <2>2. \A i \in 1..(n + 1) : i \in 0..(n + 1)
        OBVIOUS
    <2> QED
        BY <2>1, <2>2, Zenon DEF Chained
<1>8. PICK out : out = Range(es)
    OBVIOUS
<1>9. PICK nx : nx = Only([next EXCEPT ![c[a - 1]] = c[b + 1]], es)
    OBVIOUS
<1>10. PICK pv : pv = Only([prev EXCEPT ![c[b + 1]] = c[a - 1]], es)
    OBVIOUS
<1>11. out = {c[i] : i \in a..b}
    BY <1>8, <1>25
<1>12. \A i \in 0..(n + 1) : c[i] \in out <=> i \in a..b
    BY <1>6, <1>11
<1>13. /\ DOMAIN nx = DOMAIN next \ out
       /\ \A y \in DOMAIN nx : nx[y] = IF y = c[a - 1] THEN c[b + 1] ELSE next[y]
    BY <1>8, <1>9 DEF Only
<1>14. /\ DOMAIN pv = DOMAIN prev \ out
       /\ \A y \in DOMAIN pv : pv[y] = IF y = c[b + 1] THEN c[a - 1] ELSE prev[y]
    BY <1>8, <1>10 DEF Only
<1>15. {d[i] : i \in 0..(m + 1)} = {c[i] : i \in 0..(n + 1)} \ out
    <2>1. ASSUME NEW i \in 0..(m + 1) PROVE d[i] \in {c[j] : j \in 0..(n + 1)} \ out
        <3>1. CASE i <= a - 1
            <4>1. i \in 0..(n + 1) /\ i \notin a..b /\ d[i] = c[i]
                BY <3>1, <1>5
            <4> QED
                BY <4>1, <1>12
        <3>2. CASE i >= a
            <4>1. i + k \in 0..(n + 1) /\ i + k \notin a..b /\ d[i] = c[i + k]
                BY <3>2, <1>1, <1>2, <1>5
            <4> QED
                BY <4>1, <1>12
        <3> QED
            BY <3>1, <3>2
    <2>2. ASSUME NEW j \in 0..(n + 1), j \notin a..b PROVE c[j] \in {d[i] : i \in 0..(m + 1)}
        <3>1. CASE j <= a - 1
            <4>1. j \in 0..(m + 1) /\ d[j] = c[j]
                BY <3>1, <1>1, <1>2, <1>5
            <4> QED
                BY <4>1
        <3>2. CASE j > b
            <4>1. j - k \in a..(m + 1) /\ j - k \in 0..(m + 1) /\ (j - k) + k = j
                BY <3>2, <1>1, <1>2
            <4>2. d[j - k] = c[j]
                BY <1>5, <4>1
            <4> QED
                BY <4>1, <4>2
        <3> QED
            BY <2>2, <3>1, <3>2
    <2>3. ASSUME NEW j \in 0..(n + 1), c[j] \notin out PROVE c[j] \in {d[i] : i \in 0..(m + 1)}
        BY <2>2, <2>3, <1>12
    <2> QED
        BY <2>1, <2>3
<1>16. d[0] = HEAD /\ d[m + 1] = TAIL
    <2>1. d[0] = c[0]
        BY <1>5
    <2>2. m + 1 \in a..(m + 1) /\ (m + 1) + k = n + 1
        BY <1>1, <1>2
    <2>3. d[m + 1] = c[n + 1]
        BY <1>5, <2>2
    <2> QED
        BY <2>1, <2>3 DEF Chained
<1>17. \A i \in 1..m : \E j \in 1..n : d[i] = c[j] /\ j = IF i < a THEN i ELSE i + k
    <2> SUFFICES ASSUME NEW i \in 1..m
                 PROVE  \E j \in 1..n : d[i] = c[j] /\ j = IF i < a THEN i ELSE i + k
        OBVIOUS
    <2>1. PICK j \in 1..n : j = IF i < a THEN i ELSE i + k
        <3>1. (IF i < a THEN i ELSE i + k) \in 1..n
            BY <1>1, <1>2
        <3> QED
            BY <3>1
    <2>2. d[i] = c[j]
        BY <2>1, <1>5
    <2> QED
        BY <2>1, <2>2
<1>18. \A i \in 1..m : d[i] \in Addresses
    BY <1>17 DEF Chained
<1>19. \A i, j \in 1..m : d[i] = d[j] => i = j
    <2> SUFFICES ASSUME NEW i \in 1..m, NEW j \in 1..m, d[i] = d[j] PROVE i = j
        OBVIOUS
    <2>1. PICK u \in 1..n : d[i] = c[u] /\ u = IF i < a THEN i ELSE i + k
        BY <1>17
    <2>2. PICK v \in 1..n : d[j] = c[v] /\ v = IF j < a THEN j ELSE j + k
        BY <1>17
    <2>3. u = v
        <3>1. c[u] = c[v]
            BY <2>1, <2>2, Zenon
        <3> QED
            BY <3>1, <1>6
    <2> QED
        BY <2>1, <2>2, <2>3, <1>1
<1>20. ASSUME NEW i \in 0..m PROVE nx[d[i]] = d[i + 1]
    <2>1. CASE i < a - 1
        <3>1. /\ i \in 0..n /\ i \in 0..(n + 1) /\ d[i] = c[i] /\ d[i + 1] = c[i + 1]
              /\ i # a - 1 /\ i \notin a..b
            BY <2>1, <1>1, <1>2, <1>5
        <3>2. c[i] # c[a - 1] /\ c[i] \notin out
            BY <3>1, <1>6, <1>12
        <3> QED
            BY <3>1, <3>2, <1>7, <1>13
    <2>2. CASE i = a - 1
        <3>1. d[i] = c[a - 1] /\ a - 1 \in 0..n /\ a - 1 \in 0..(n + 1) /\ a - 1 \notin a..b
            BY <2>2, <1>5
        <3>2. d[i + 1] = c[b + 1]
            <4>1. a \in a..(m + 1) /\ a + k = b + 1 /\ i + 1 = a
                BY <2>2, <1>1, <1>2
            <4> QED
                BY <4>1, <1>5
        <3>3. c[a - 1] \notin out
            BY <3>1, <1>12
        <3> QED
            BY <3>1, <3>2, <3>3, <1>7, <1>13
    <2>3. CASE i >= a
        <3>1. /\ i + k \in 0..n /\ i + k \in 0..(n + 1) /\ d[i] = c[i + k] /\ d[i + 1] = c[(i + k) + 1]
              /\ i + k # a - 1 /\ i + k \notin a..b /\ a - 1 \in 0..(n + 1)
            <4>1. i \in a..(m + 1) /\ i + 1 \in a..(m + 1) /\ (i + 1) + k = (i + k) + 1
                BY <2>3, <1>1, <1>2
            <4> QED
                BY <4>1, <2>3, <1>1, <1>2, <1>5
        <3>2. c[i + k] # c[a - 1] /\ c[i + k] \notin out
            BY <3>1, <1>6, <1>12
        <3> QED
            BY <3>1, <3>2, <1>7, <1>13
    <2> QED
        BY <2>1, <2>2, <2>3
<1>21. ASSUME NEW i \in 1..(m + 1) PROVE pv[d[i]] = d[i - 1]
    <2>1. CASE i < a
        <3>1. /\ i \in 1..(n + 1) /\ i \in 0..(n + 1) /\ d[i] = c[i] /\ d[i - 1] = c[i - 1]
              /\ i # b + 1 /\ b + 1 \in 0..(n + 1) /\ i \notin a..b
            BY <2>1, <1>1, <1>2, <1>5
        <3>2. c[i] # c[b + 1] /\ c[i] \notin out
            BY <3>1, <1>6, <1>12
        <3> QED
            BY <3>1, <3>2, <1>7, <1>14
    <2>2. CASE i = a
        <3>1. d[i - 1] = c[a - 1] /\ b + 1 \in 1..(n + 1) /\ b + 1 \in 0..(n + 1) /\ b + 1 \notin a..b
            BY <2>2, <1>5
        <3>2. d[i] = c[b + 1]
            <4>1. a \in a..(m + 1) /\ a + k = b + 1
                BY <2>2, <1>1, <1>2
            <4> QED
                BY <2>2, <4>1, <1>5
        <3>3. c[b + 1] \notin out
            BY <3>1, <1>12
        <3> QED
            BY <3>1, <3>2, <3>3, <1>7, <1>14
    <2>3. CASE i > a
        <3>1. /\ i + k \in 1..(n + 1) /\ i + k \in 0..(n + 1)
              /\ d[i] = c[i + k] /\ d[i - 1] = c[(i + k) - 1]
              /\ i + k # b + 1 /\ i + k \notin a..b /\ b + 1 \in 0..(n + 1)
            <4>1. i \in a..(m + 1) /\ i - 1 \in a..(m + 1) /\ (i - 1) + k = (i + k) - 1
                BY <2>3, <1>1, <1>2
            <4> QED
                BY <4>1, <2>3, <1>1, <1>2, <1>5
        <3>2. c[i + k] # c[b + 1] /\ c[i + k] \notin out
            BY <3>1, <1>6, <1>12
        <3> QED
            BY <3>1, <3>2, <1>7, <1>14
    <2> QED
        BY <2>1, <2>2, <2>3
<1>22. nx[TAIL] = NULL /\ pv[HEAD] = NULL
    <2>1. /\ TAIL = c[n + 1] /\ n + 1 \in 0..(n + 1) /\ a - 1 \in 0..(n + 1) /\ a - 1 # n + 1
          /\ n + 1 \notin a..b
        BY DEF Chained
    <2>2. HEAD = c[0] /\ 0 \in 0..(n + 1) /\ b + 1 \in 0..(n + 1) /\ b + 1 # 0 /\ 0 \notin a..b
        BY DEF Chained
    <2>3. c[n + 1] # c[a - 1] /\ c[0] # c[b + 1]
        BY <2>1, <2>2, <1>6
    <2>4. c[n + 1] \notin out /\ c[0] \notin out
        BY <2>1, <2>2, <1>12
    <2>5. TAIL \in DOMAIN nx /\ HEAD \in DOMAIN pv
        BY <2>1, <2>2, <2>4, <1>13, <1>14 DEF Chained
    <2>6. next[TAIL] = NULL /\ prev[HEAD] = NULL
        BY DEF Chained
    <2> QED
        BY <2>1, <2>2, <2>3, <2>5, <2>6, <1>13, <1>14
<1>23. Chained(nx, pv, d, m)
    <2>1. DOMAIN nx = {d[i] : i \in 0..(m + 1)} /\ DOMAIN pv = {d[i] : i \in 0..(m + 1)}
        BY <1>13, <1>14, <1>15 DEF Chained
    <2> QED
        BY <2>1, <1>4, <1>16, <1>18, <1>19, <1>20, <1>21, <1>22 DEF Chained
<1> QED
    BY <1>1, <1>2, <1>3, <1>9, <1>10, <1>23, <1>24

--------------------------------------------------------------------------------
(* What the operations make of a list_t.                                     *)

\* y has x's iterator and comparator.
Kept(x, y) ==
    /\ y.iter_active = x.iter_active /\ y.iter_pos = x.iter_pos
    /\ y.iter_curentry = x.iter_curentry /\ y.comparator = x.comparator

\* y is x with other links, elements, middle and length.
Relinked(x, y, next, prev, data, mid, n) ==
    /\ IsList(y) /\ Kept(x, y)
    /\ y.next = next /\ y.prev = prev /\ y.data = data /\ y.mid = mid /\ y.numels = n

\* What list_concat does to its destination for one more element.
LEMMA ExtendIs ==
    ASSUME NEW x, IsList(x), NEW d, NEW e, e = Cardinality(DOMAIN x.next) - 1,
           NEW last, last = x.prev[TAIL]
    PROVE  /\ Relinked(x, Extend(x, d), With([x.next EXCEPT ![last] = e], e, TAIL),
                       With([x.prev EXCEPT ![TAIL] = e], e, last),
                       With(x.data, e, d), x.mid, x.numels)
           /\ Extend(x, d).spareels = x.spareels
BY DEF Extend, IsList, Relinked, Kept

\* t is s, of length n, with e inserted at k, or without the positions a..b.
IsInsertion(t, s, n, k, e) ==
    /\ DOMAIN t = 1..(n + 1)
    /\ \A i \in 1..(k - 1) : t[i] = s[i]
    /\ t[k] = e
    /\ \A i \in (k + 1)..(n + 1) : t[i] = s[i - 1]
IsRemoval(t, s, n, a, b) ==
    /\ DOMAIN t = 1..(n - (b - a + 1))
    /\ \A i \in 1..(a - 1) : t[i] = s[i]
    /\ \A i \in a..(n - (b - a + 1)) : t[i] = s[i + (b - a + 1)]

\* A sequence is known from where the element was inserted, and from what was removed.
LEMMA OneInsertion ==
    ASSUME NEW T, NEW t \in Seq(T), NEW w \in Seq(T), NEW s, NEW n \in Nat,
           NEW k \in 1..(n + 1), NEW e, IsInsertion(t, s, n, k, e), IsInsertion(w, s, n, k, e)
    PROVE  t = w
<1>1. \A i \in 1..(n + 1) : i \in 1..(k - 1) \/ i = k \/ i \in (k + 1)..(n + 1)
    OBVIOUS
<1>2. DOMAIN t = 1..(n + 1) /\ DOMAIN w = 1..(n + 1)
    BY Zenon DEF IsInsertion
<1>3. \A i \in 1..(n + 1) : t[i] = w[i]
    BY <1>1, Zenon DEF IsInsertion
<1>4. t = [i \in DOMAIN t |-> t[i]] /\ w = [i \in DOMAIN w |-> w[i]]
    OBVIOUS
<1> QED
    BY <1>2, <1>3, <1>4

LEMMA OneRemoval ==
    ASSUME NEW T, NEW t \in Seq(T), NEW w \in Seq(T), NEW s, NEW n \in Nat,
           NEW a \in 1..n, NEW b \in a..n, IsRemoval(t, s, n, a, b), IsRemoval(w, s, n, a, b)
    PROVE  t = w
<1>1. \A i \in 1..(n - (b - a + 1)) : i \in 1..(a - 1) \/ i \in a..(n - (b - a + 1))
    OBVIOUS
<1>2. DOMAIN t = 1..(n - (b - a + 1)) /\ DOMAIN w = 1..(n - (b - a + 1))
    BY Zenon DEF IsRemoval
<1>3. \A i \in 1..(n - (b - a + 1)) : t[i] = w[i]
    BY <1>1, Zenon DEF IsRemoval
<1>4. t = [i \in DOMAIN t |-> t[i]] /\ w = [i \in DOMAIN w |-> w[i]]
    OBVIOUS
<1> QED
    BY <1>2, <1>3, <1>4

\* The elements of a concatenation, position by position.
LEMMA ConcatAt ==
    ASSUME NEW T, NEW s \in Seq(T), NEW t \in Seq(T)
    PROVE  /\ \A i \in 1..Len(s) : (s \o t)[i] = s[i]
           /\ \A i \in (Len(s) + 1)..(Len(s) + Len(t)) : (s \o t)[i] = t[i - Len(s)]
OBVIOUS

\* Insertion into a sequence and removal from it, position by position.
LEMMA InsertAtIs ==
    ASSUME NEW T, NEW s \in Seq(T), NEW e \in T, NEW k \in 1..(Len(s) + 1)
    PROVE  /\ InsertAt(s, k, e) \in Seq(T)
           /\ IsInsertion(InsertAt(s, k, e), s, Len(s), k, e)
<1>1. PICK u : u = SubSeq(s, 1, k - 1)
    OBVIOUS
<1>2. PICK v : v = SubSeq(s, k, Len(s))
    OBVIOUS
<1>3. u \in Seq(T) /\ Len(u) = k - 1 /\ \A i \in 1..(k - 1) : u[i] = s[i]
    BY <1>1
<1>4. v \in Seq(T) /\ Len(v) = Len(s) - k + 1 /\ \A i \in 1..Len(v) : v[i] = s[k + i - 1]
    BY <1>2
<1>5. PICK w : w = u \o <<e>>
    OBVIOUS
<1>6. w \in Seq(T) /\ Len(w) = k /\ (\A i \in 1..(k - 1) : w[i] = s[i]) /\ w[k] = e
    BY <1>3, <1>5
<1>7. InsertAt(s, k, e) = w \o v
    BY <1>1, <1>2, <1>5 DEF InsertAt
<1>8. PICK z : z = w \o v
    OBVIOUS
<1>9. z \in Seq(T) /\ Len(z) = Len(s) + 1
    <2>1. Len(w) \in Nat /\ Len(v) \in Nat /\ Len(s) \in Nat
        BY <1>4, <1>6
    <2>2. w \in Seq(T) /\ v \in Seq(T)
        BY <1>4, <1>6
    <2>3. z \in Seq(T) /\ Len(z) = Len(w) + Len(v)
        BY <2>2, <1>8
    <2> QED
        BY <2>1, <2>3, <1>4, <1>6
<1>10. /\ \A i \in 1..k : z[i] = w[i]
       /\ \A i \in (k + 1)..(Len(s) + 1) : z[i] = v[i - k]
    <2>1. w \in Seq(T) /\ v \in Seq(T)
        BY <1>4, <1>6, Zenon
    <2>2. /\ \A i \in 1..Len(w) : (w \o v)[i] = w[i]
          /\ \A i \in (Len(w) + 1)..(Len(w) + Len(v)) : (w \o v)[i] = v[i - Len(w)]
        BY <2>1, ConcatAt, Zenon
    <2>3. PICK n \in Nat : n = Len(s)
        OBVIOUS
    <2>4. Len(w) = k /\ Len(v) = n - k + 1
        BY <1>4, <1>6, <2>3, Zenon
    <2>5. k + (n - k + 1) = n + 1
        BY <2>3, <2>4
    <2> QED
        BY <1>8, <2>2, <2>3, <2>4, <2>5, Zenon
<1>11. ASSUME NEW i \in (k + 1)..(Len(s) + 1) PROVE z[i] = s[i - 1]
    <2>1. i - k \in 1..Len(v) /\ k + (i - k) - 1 = i - 1
        BY <1>4
    <2>2. z[i] = v[i - k]
        BY <1>10
    <2>3. v[i - k] = s[k + (i - k) - 1]
        BY <2>1, <1>4
    <2> QED
        BY <2>1, <2>2, <2>3
<1>12. \A i \in 1..(k - 1) : z[i] = s[i]
    BY <1>6, <1>10
<1>13. z[k] = e
    BY <1>6, <1>10
<1>14. InsertAt(s, k, e) = z
    BY <1>7, <1>8, Zenon
<1> QED
    <2>1. DOMAIN z = 1..(Len(s) + 1)
        BY <1>9
    <2>2. IsInsertion(z, s, Len(s), k, e)
        BY <2>1, <1>11, <1>12, <1>13 DEF IsInsertion
    <2> QED
        BY <2>2, <1>9, <1>14, Zenon

LEMMA RemoveIs ==
    ASSUME NEW T, NEW s \in Seq(T), NEW a \in 1..Len(s), NEW b \in a..Len(s)
    PROVE  /\ SubSeq(s, 1, a - 1) \o SubSeq(s, b + 1, Len(s)) \in Seq(T)
           /\ IsRemoval(SubSeq(s, 1, a - 1) \o SubSeq(s, b + 1, Len(s)), s, Len(s), a, b)
<1>1. PICK u : u = SubSeq(s, 1, a - 1)
    OBVIOUS
<1>2. PICK v : v = SubSeq(s, b + 1, Len(s))
    OBVIOUS
<1>3. u \in Seq(T) /\ Len(u) = a - 1 /\ \A i \in 1..(a - 1) : u[i] = s[i]
    BY <1>1
<1>4. v \in Seq(T) /\ Len(v) = Len(s) - b /\ \A i \in 1..Len(v) : v[i] = s[b + i]
    BY <1>2
<1>5. PICK n \in Nat : n = Len(s) - (b - a + 1)
    <2>1. Len(s) \in Nat /\ a \in Nat /\ b \in Nat /\ a <= b /\ b <= Len(s) /\ 1 <= a
        OBVIOUS
    <2>2. Len(s) - (b - a + 1) \in Nat
        BY <2>1
    <2> QED
        BY <2>2
<1>8. PICK z : z = u \o v
    OBVIOUS
<1>9. z \in Seq(T) /\ Len(z) = n
    <2>1. Len(u) \in Nat /\ Len(v) \in Nat /\ Len(s) \in Nat
        BY <1>3, <1>4
    <2>2. u \in Seq(T) /\ v \in Seq(T)
        BY <1>3, <1>4
    <2>3. z \in Seq(T) /\ Len(z) = Len(u) + Len(v)
        BY <2>2, <1>8
    <2> QED
        BY <2>1, <2>3, <1>3, <1>4, <1>5
<1>10. /\ \A i \in 1..(a - 1) : z[i] = u[i]
       /\ \A i \in a..n : z[i] = v[i - (a - 1)]
    <2>1. u \in Seq(T) /\ v \in Seq(T)
        BY <1>3, <1>4, Zenon
    <2>2. /\ \A i \in 1..Len(u) : (u \o v)[i] = u[i]
          /\ \A i \in (Len(u) + 1)..(Len(u) + Len(v)) : (u \o v)[i] = v[i - Len(u)]
        BY <2>1, ConcatAt, Zenon
    <2>3. PICK k \in Nat : k = Len(s)
        OBVIOUS
    <2>4. Len(u) = a - 1 /\ Len(v) = k - b /\ n = k - (b - a + 1)
        BY <1>3, <1>4, <1>5, <2>3, Zenon
    <2>5. a \in Nat /\ b \in Nat /\ (a - 1) + 1 = a /\ (a - 1) + (k - b) = n
        BY <2>3, <2>4
    <2> QED
        BY <1>8, <2>2, <2>4, <2>5, Zenon
<1>11. ASSUME NEW i \in a..n PROVE z[i] = s[i + (b - a + 1)]
    <2>1. i - (a - 1) \in 1..Len(v) /\ b + (i - (a - 1)) = i + (b - a + 1)
        <3>1. PICK k \in Nat : k = Len(s)
            OBVIOUS
        <3>2. a \in Nat /\ b \in Nat /\ i \in Nat
            BY <3>1
        <3> DEFINE m == k - b
        <3>3. m = Len(v) /\ n = k - (b - a + 1)
            BY <1>4, <1>5, <3>1, Zenon
        <3>4. i - (a - 1) \in 1..m /\ b + (i - (a - 1)) = i + (b - a + 1)
            BY <3>2, <3>3
        <3> QED
            BY <3>3, <3>4, Zenon
    <2>2. z[i] = v[i - (a - 1)]
        BY <1>10
    <2>3. v[i - (a - 1)] = s[b + (i - (a - 1))]
        BY <2>1, <1>4
    <2> QED
        BY <2>1, <2>2, <2>3
<1>12. \A i \in 1..(a - 1) : z[i] = s[i]
    BY <1>3, <1>10
<1> QED
    <2>1. DOMAIN z = 1..(Len(s) - (b - a + 1))
        BY <1>5, <1>9
    <2>2. IsRemoval(z, s, Len(s), a, b)
        BY <2>1, <1>5, <1>11, <1>12 DEF IsRemoval
    <2> QED
        BY <2>2, <1>1, <1>2, <1>8, <1>9, Zenon

\* The chain of a list is at its places, and its elements are those at its places.
LEMMA ElementsAt ==
    ASSUME NEW x, NEW c, Sound(x, c)
    PROVE  /\ Chain(x) = [i \in 1..x.numels |-> c[i]]
           /\ \A i \in 0..(x.numels + 1) : Follow(x.next, HEAD, i) = c[i]
           /\ Elements(x) = At(x.data, c, x.numels)
           /\ Elements(x) \in Seq(Data) /\ Len(Elements(x)) = x.numels
           /\ Places(x) = c
<1>1. x.numels \in Nat
    BY Zenon DEF Sound
<1>2. ASSUME NEW i \in 0..(x.numels + 1) PROVE Follow(x.next, HEAD, i) = c[i]
    <2>1. PICK n \in Nat : n = x.numels
        BY <1>1
    <2>2. 0 \in 0..(n + 1) /\ i \in Nat /\ 0 + i <= n + 1 /\ 0 + i = i
        BY <2>1
    <2>3. Chained(x.next, x.prev, c, n)
        BY <2>1, Zenon DEF Sound
    <2>4. c[0] = HEAD
        BY <2>3, Zenon DEF Chained
    <2> QED
        BY <2>2, <2>3, <2>4, FollowNext
<1>3. Chain(x) = [i \in 1..x.numels |-> c[i]]
    BY <1>1, <1>2 DEF Chain
<1>4. Elements(x) = [i \in 1..x.numels |-> x.data[c[i]]]
    BY <1>3 DEF Elements
<1>5. \A i \in 1..x.numels : x.data[c[i]] \in Data
    BY Zenon DEF Sound, Holds
<1>6. Elements(x) \in Seq(Data) /\ Len(Elements(x)) = x.numels
    <2>1. PICK s : s = [i \in 1..x.numels |-> x.data[c[i]]]
        OBVIOUS
    <2>2. s \in Seq(Data) /\ Len(s) = x.numels
        BY <1>1, <1>5, <2>1
    <2> QED
        BY <1>4, <2>1, <2>2, Zenon
<1>7. Places(x) = c
    <2>1. c = [i \in 0..(x.numels + 1) |-> c[i]]
        BY Zenon DEF Sound
    <2>2. Places(x) = [i \in 0..(x.numels + 1) |-> c[i]]
        BY <1>2 DEF Places
    <2> QED
        BY <2>1, <2>2, Zenon
<1> QED
    BY <1>2, <1>3, <1>4, <1>6, <1>7 DEF At

\* The elements at the places when e with datum d is inserted.
LEMMA InsertedHolds ==
    ASSUME NEW next, NEW prev, NEW c, NEW n \in Nat, Chained(next, prev, c, n),
           NEW e \in Addresses, \A i \in 1..n : c[i] # e, NEW pos \in 0..n,
           NEW data, Holds(data, c, n), NEW d \in Data
    PROVE  /\ Holds(With(data, e, d), Inserted(c, n, e, pos), n + 1)
           /\ IsInsertion(At(With(data, e, d), Inserted(c, n, e, pos), n + 1),
                          At(data, c, n), n, pos + 1, d)
<1>12. PICK dt : dt = With(data, e, d)
    OBVIOUS
<1>13. PICK c2 : c2 = Inserted(c, n, e, pos)
    OBVIOUS
<1>1. /\ \A i \in 0..pos : c2[i] = c[i]
      /\ c2[pos + 1] = e
      /\ \A i \in (pos + 2)..(n + 2) : c2[i] = c[i - 1]
    BY <1>13 DEF Inserted
<1>2. \A i \in 0..(n + 1) : c[i] # e
    BY DistinctPlaces
<1>3. /\ DOMAIN dt = DOMAIN data \cup {e} /\ dt[e] = d
      /\ \A y \in DOMAIN data : y # e => dt[y] = data[y]
    BY <1>12 DEF With
<1>4. DOMAIN data = {c[i] : i \in 0..(n + 1)}
    BY Zenon DEF Holds
<1>5. \A i \in 0..(n + 1) : dt[c[i]] = data[c[i]]
    BY <1>2, <1>3, <1>4
<1>6. Chained(With([next EXCEPT ![c[pos]] = e], e, c[pos + 1]),
              With([prev EXCEPT ![c[pos + 1]] = e], e, c[pos]), c2, n + 1)
    BY <1>13, InsertedPlaces
<1>7. DOMAIN dt = {c2[i] : i \in 0..((n + 1) + 1)}
    <2>1. {c2[i] : i \in 0..((n + 1) + 1)} = {e} \cup {c[i] : i \in 0..(n + 1)}
        <3>1. PICK nx : nx = With([next EXCEPT ![c[pos]] = e], e, c[pos + 1])
            OBVIOUS
        <3>2. DOMAIN nx = DOMAIN next \cup {e}
            BY <3>1 DEF With
        <3>3. DOMAIN nx = {c2[i] : i \in 0..((n + 1) + 1)}
            BY <1>6, <3>1, Zenon DEF Chained
        <3>4. DOMAIN next = {c[i] : i \in 0..(n + 1)}
            BY Zenon DEF Chained
        <3> QED
            BY <3>2, <3>3, <3>4
    <2> QED
        BY <1>3, <1>4, <2>1
<1>8. dt[HEAD] = NULL /\ dt[TAIL] = NULL
    <2>1. c[0] = HEAD /\ c[n + 1] = TAIL
        BY Zenon DEF Chained
    <2>2. data[HEAD] = NULL /\ data[TAIL] = NULL
        BY Zenon DEF Holds
    <2>3. 0 \in 0..(n + 1) /\ n + 1 \in 0..(n + 1)
        OBVIOUS
    <2> QED
        BY <1>5, <2>1, <2>2, <2>3, Zenon
<1>9. /\ \A i \in 1..pos : dt[c2[i]] = data[c[i]]
      /\ dt[c2[pos + 1]] = d
      /\ \A i \in (pos + 2)..(n + 1) : dt[c2[i]] = data[c[i - 1]]
    <2>1. ASSUME NEW i \in 1..pos PROVE dt[c2[i]] = data[c[i]]
        BY <1>1, <1>5
    <2>2. dt[c2[pos + 1]] = d
        BY <1>1, <1>3
    <2>3. ASSUME NEW i \in (pos + 2)..(n + 1) PROVE dt[c2[i]] = data[c[i - 1]]
        <3>1. c2[i] = c[i - 1] /\ i - 1 \in 0..(n + 1)
            BY <1>1
        <3> QED
            BY <3>1, <1>5
    <2> QED
        BY <2>1, <2>2, <2>3
<1>10. \A i \in 1..n : data[c[i]] \in Data
    BY Zenon DEF Holds
<1>11. ASSUME NEW i \in 1..(n + 1) PROVE dt[c2[i]] \in Data
    <2>1. CASE i <= pos
        BY <2>1, <1>9, <1>10
    <2>2. CASE i = pos + 1
        BY <2>2, <1>9
    <2>3. CASE i > pos + 1
        BY <2>3, <1>9, <1>10
    <2> QED
        BY <2>1, <2>2, <2>3
<1> QED
    <2>1. Holds(dt, c2, n + 1)
        BY <1>7, <1>8, <1>11 DEF Holds
    <2>2. IsInsertion(At(dt, c2, n + 1), At(data, c, n), n, pos + 1, d)
        BY <1>9 DEF IsInsertion, At
    <2> QED
        BY <2>1, <2>2, <1>12, <1>13, Zenon

\* Where the middle is when e is inserted.
LEMMA InsertedMiddle ==
    ASSUME NEW next, NEW prev, NEW c, NEW n \in Nat, Chained(next, prev, c, n),
           NEW e \in Addresses, \A i \in 1..n : c[i] # e, NEW pos \in 0..n,
           NEW mid, IsMiddle(mid, c, n)
    PROVE  IsMiddle(IF n + 1 = 1 THEN e
                    ELSE IF (n + 1) % 2 = 1 /\ pos >= MidPosition(n + 1)
                    THEN With([next EXCEPT ![c[pos]] = e], e, c[pos + 1])[mid]
                    ELSE IF (n + 1) % 2 = 0 /\ pos <= MidPosition(n + 1)
                    THEN With([prev EXCEPT ![c[pos + 1]] = e], e, c[pos])[mid]
                    ELSE mid,
                    Inserted(c, n, e, pos), n + 1)
<1>8. PICK nx : nx = With([next EXCEPT ![c[pos]] = e], e, c[pos + 1])
    OBVIOUS
<1>9. PICK pv : pv = With([prev EXCEPT ![c[pos + 1]] = e], e, c[pos])
    OBVIOUS
<1>10. PICK c2 : c2 = Inserted(c, n, e, pos)
    OBVIOUS
<1>11. PICK n2 \in Nat : n2 = n + 1
    OBVIOUS
<1>1. /\ \A i \in 0..pos : c2[i] = c[i]
      /\ c2[pos + 1] = e
      /\ \A i \in (pos + 2)..(n + 2) : c2[i] = c[i - 1]
    BY <1>10 DEF Inserted
<1>2. /\ \A i \in 0..(n + 1) : nx[c2[i]] = c2[i + 1]
      /\ \A i \in 1..(n + 2) : pv[c2[i]] = c2[i - 1]
    <2>1. Chained(nx, pv, c2, n + 1)
        BY <1>8, <1>9, <1>10, InsertedPlaces, Zenon
    <2>2. (n + 1) + 1 = n + 2
        OBVIOUS
    <2> QED
        BY <2>1, <2>2, Zenon DEF Chained
<1>3. PICK m \in Int : m = MidPosition(n2)
    BY DEF MidPosition
<1>4. n2 # 0 /\ (n2 = 1 <=> n = 0)
    BY <1>11
<1>12. SUFFICES IsMiddle(IF n2 = 1 THEN e
                         ELSE IF n2 % 2 = 1 /\ pos >= MidPosition(n2) THEN nx[mid]
                         ELSE IF n2 % 2 = 0 /\ pos <= MidPosition(n2) THEN pv[mid]
                         ELSE mid, c2, n2)
    BY <1>8, <1>9, <1>10, <1>11
<1>5. CASE n = 0
    <2>1. n2 = 1 /\ MidPosition(n2) + 1 = pos + 1
        BY <1>5, <1>11 DEF MidPosition
    <2> QED
        BY <2>1, <1>1 DEF IsMiddle
<1>6. CASE n # 0 /\ n2 % 2 = 1
    <2>1. n \in Nat \ {0} /\ n = 2 * m /\ m \in 1..n /\ MidPosition(n) + 1 = m
        BY <1>3, <1>6, <1>11 DEF MidPosition
    <2>2. mid = c[m]
        BY <2>1 DEF IsMiddle
    <2>3. CASE pos >= m
        <3>1. m \in 0..pos /\ m \in 0..(n + 1)
            BY <2>1, <2>3
        <3>2. c[m] = c2[m] /\ nx[c2[m]] = c2[m + 1]
            BY <3>1, <1>1, <1>2
        <3> QED
            BY <3>2, <2>2, <2>3, <1>3, <1>4, <1>6 DEF IsMiddle
    <2>4. CASE pos < m
        <3>1. c2[m + 1] = c[m]
            <4>1. m + 1 \in (pos + 2)..(n + 2) /\ (m + 1) - 1 = m
                BY <2>1, <2>4
            <4> QED
                BY <4>1, <1>1
        <3> QED
            BY <3>1, <2>1, <2>2, <2>4, <1>3, <1>4, <1>6 DEF IsMiddle
    <2> QED
        BY <2>1, <2>3, <2>4
<1>7. CASE n # 0 /\ n2 % 2 = 0
    <2>1. n \in Nat \ {0} /\ n = 2 * m + 1 /\ m \in 0..n /\ MidPosition(n) + 1 = m + 1
        BY <1>3, <1>7, <1>11 DEF MidPosition
    <2>2. mid = c[m + 1]
        BY <2>1 DEF IsMiddle
    <2>3. CASE pos <= m
        <3>1. c2[m + 2] = c[m + 1]
            <4>1. m + 2 \in (pos + 2)..(n + 2) /\ (m + 2) - 1 = m + 1
                BY <2>1, <2>3
            <4> QED
                BY <4>1, <1>1
        <3>2. pv[c2[m + 2]] = c2[m + 1]
            <4>1. m + 2 \in 1..(n + 2) /\ (m + 2) - 1 = m + 1
                BY <2>1
            <4> QED
                BY <4>1, <1>2
        <3> QED
            BY <3>1, <3>2, <2>1, <2>2, <2>3, <1>3, <1>4, <1>7 DEF IsMiddle
    <2>4. CASE pos > m
        <3>1. c2[m + 1] = c[m + 1]
            BY <2>1, <2>4, <1>1
        <3> QED
            BY <3>1, <2>1, <2>2, <2>4, <1>3, <1>4, <1>7 DEF IsMiddle
    <2> QED
        BY <2>1, <2>3, <2>4
<1> QED
    BY <1>5, <1>6, <1>7, <1>11

\* Linking an entry inserts it at its place, and its datum into the elements.
LEMMA LinkSound ==
    ASSUME NEW x, NEW c, Sound(x, c), NEW n \in Nat, n = x.numels,
           NEW e \in Addresses, \A i \in 1..n : c[i] # e, NEW d \in Data, NEW pos \in 0..n,
           NEW y, y = Link(x, e, d, pos), NEW c2, c2 = Inserted(c, n, e, pos)
    PROVE  /\ Sound(y, c2) /\ Kept(x, y)
           /\ y.numels = n + 1 /\ y.spareels = x.spareels
           /\ Elements(y) = InsertAt(Elements(x), pos + 1, d)
<1>1. /\ IsList(x) /\ Chained(x.next, x.prev, c, n)
      /\ Holds(x.data, c, n) /\ IsMiddle(x.mid, c, n)
    BY Zenon DEF Sound
<1>2. list_findpos(x, pos - 1) = c[pos]
    <2>1. pos - 1 \in -1..x.numels /\ (pos - 1) + 1 = pos /\ x.numels \in Nat
        OBVIOUS
    <2>2. PICK p \in -1..x.numels : p = pos - 1 /\ p + 1 = pos
        BY <2>1
    <2>3. Chained(x.next, x.prev, c, x.numels) /\ IsMiddle(x.mid, c, x.numels)
        BY Zenon DEF Sound
    <2>4. list_findpos(x, p) = c[p + 1]
        BY <2>1, <2>3, FindPos
    <2> QED
        BY <2>2, <2>4, Zenon
<1>3. x.next[c[pos]] = c[pos + 1]
    BY <1>1, Zenon DEF Chained
<1>4. PICK nx : nx = With([x.next EXCEPT ![c[pos]] = e], e, c[pos + 1])
    OBVIOUS
<1>5. PICK pv : pv = With([x.prev EXCEPT ![c[pos + 1]] = e], e, c[pos])
    OBVIOUS
<1>6. PICK dt : dt = With(x.data, e, d)
    OBVIOUS
<1>7. PICK n2 \in Nat : n2 = n + 1
    OBVIOUS
<1>8. PICK mid : mid = IF n2 = 1 THEN e
                       ELSE IF n2 % 2 = 1 /\ pos >= MidPosition(n2) THEN nx[x.mid]
                       ELSE IF n2 % 2 = 0 /\ pos <= MidPosition(n2) THEN pv[x.mid]
                       ELSE x.mid
    OBVIOUS
<1>9. Relinked(x, y, nx, pv, dt, mid, n2) /\ y.spareels = x.spareels
    <2>1. n2 = x.numels + 1
        BY <1>7
    <2> QED
        BY <2>1, <1>1, <1>2, <1>3, <1>4, <1>5, <1>6, <1>8 DEF Link, IsList, Relinked, Kept
<1>10. Chained(nx, pv, c2, n2)
    BY <1>1, <1>4, <1>5, <1>7, InsertedPlaces, Zenon
<1>11. Holds(dt, c2, n2) /\ IsInsertion(At(dt, c2, n2), At(x.data, c, n), n, pos + 1, d)
    <2>1. PICK data : data = x.data
        OBVIOUS
    <2>2. Holds(data, c, n)
        BY <1>1, <2>1, Zenon
    <2>3. PICK next, prev : Chained(next, prev, c, n)
        BY <1>1, Zenon
    <2>4. /\ Holds(With(data, e, d), Inserted(c, n, e, pos), n + 1)
          /\ IsInsertion(At(With(data, e, d), Inserted(c, n, e, pos), n + 1),
                         At(data, c, n), n, pos + 1, d)
        BY <2>2, <2>3, InsertedHolds, Zenon
    <2>5. With(data, e, d) = dt
        BY <1>6, <2>1, Zenon
    <2> QED
        BY <1>7, <2>1, <2>4, <2>5, Zenon
<1>12. IsMiddle(mid, c2, n2)
    <2>1. PICK m : m = x.mid
        OBVIOUS
    <2>2. PICK next : next = x.next
        OBVIOUS
    <2>3. PICK prev : prev = x.prev
        OBVIOUS
    <2>4. IsMiddle(m, c, n) /\ Chained(next, prev, c, n)
        BY <1>1, <2>1, <2>2, <2>3, Zenon
    <2>5. IsMiddle(IF n + 1 = 1 THEN e
                   ELSE IF (n + 1) % 2 = 1 /\ pos >= MidPosition(n + 1)
                   THEN With([next EXCEPT ![c[pos]] = e], e, c[pos + 1])[m]
                   ELSE IF (n + 1) % 2 = 0 /\ pos <= MidPosition(n + 1)
                   THEN With([prev EXCEPT ![c[pos + 1]] = e], e, c[pos])[m]
                   ELSE m,
                   Inserted(c, n, e, pos), n + 1)
        BY <2>4, InsertedMiddle, Zenon
    <2> QED
        BY <1>4, <1>5, <1>7, <1>8, <2>1, <2>2, <2>3, <2>5
<1>13. c2 = [i \in 0..(n2 + 1) |-> c2[i]]
    <2>1. n2 + 1 = n + 2
        BY <1>7
    <2> QED
        BY <2>1 DEF Inserted
<1>14. y.numels = n2 /\ y.data = dt /\ Kept(x, y)
    BY <1>9, Zenon DEF Relinked
<1>15. Sound(y, c2)
    <2>1. IsList(y) /\ y.numels \in Nat
        BY <1>9, Zenon DEF Relinked
    <2>2. c2 = [i \in 0..(y.numels + 1) |-> c2[i]]
        BY <1>13, <1>14
    <2>3. Chained(y.next, y.prev, c2, y.numels) /\ IsMiddle(y.mid, c2, y.numels)
        BY <1>9, <1>10, <1>12, Zenon DEF Relinked
    <2>4. Holds(y.data, c2, y.numels)
        BY <1>11, <1>14, Zenon
    <2> QED
        BY <2>1, <2>2, <2>3, <2>4 DEF Sound
<1>16. Elements(y) = InsertAt(Elements(x), pos + 1, d)
    <2>1. PICK s : s = Elements(x)
        OBVIOUS
    <2>2. s \in Seq(Data) /\ Len(s) = n /\ s = At(x.data, c, n)
        BY <2>1, ElementsAt
    <2>3. PICK t : t = Elements(y)
        OBVIOUS
    <2>4. t \in Seq(Data) /\ t = At(dt, c2, n2)
        BY <2>3, <1>14, <1>15, ElementsAt
    <2>5. IsInsertion(t, s, n, pos + 1, d)
        BY <2>2, <2>4, <1>11, Zenon
    <2>6. PICK k \in 1..(n + 1) : k = pos + 1
        OBVIOUS
    <2>7. InsertAt(s, k, d) \in Seq(Data) /\ IsInsertion(InsertAt(s, k, d), s, n, k, d)
        <3>1. s \in Seq(Data) /\ k \in 1..(Len(s) + 1)
            BY <2>2
        <3>2. InsertAt(s, k, d) \in Seq(Data) /\ IsInsertion(InsertAt(s, k, d), s, Len(s), k, d)
            BY <3>1, InsertAtIs, Zenon
        <3> QED
            BY <2>2, <3>2, Zenon
    <2>8. t = InsertAt(s, k, d)
        BY <2>4, <2>5, <2>6, <2>7, OneInsertion, Zenon
    <2> QED
        BY <2>1, <2>3, <2>6, <2>8, Zenon
<1> QED
    BY <1>7, <1>9, <1>14, <1>15, <1>16

\* The elements that are left, and where the middle goes when one entry is removed.
LEMMA RemovedHolds ==
    ASSUME NEW next, NEW prev, NEW c, NEW n \in Nat, Chained(next, prev, c, n),
           NEW a \in 1..(n + 1), NEW b \in (a - 1)..n, NEW data, Holds(data, c, n)
    PROVE  /\ Holds(Only(data, Run(c, a, b)), Removed(c, n, a, b), n - (b - a + 1))
           /\ IsRemoval(At(Only(data, Run(c, a, b)), Removed(c, n, a, b), n - (b - a + 1)),
                        At(data, c, n), n, a, b)
<1>1. PICK dt : dt = Only(data, Run(c, a, b))
    OBVIOUS
<1>2. PICK c2 : c2 = Removed(c, n, a, b)
    OBVIOUS
<1>3. PICK k \in 0..n : k = b - a + 1
    OBVIOUS
<1>4. PICK m \in 0..n : m = n - k
    OBVIOUS
<1>5. /\ \A i \in 0..(a - 1) : c2[i] = c[i]
      /\ \A i \in a..(m + 1) : c2[i] = c[i + k]
    BY <1>2, <1>3, <1>4 DEF Removed
<1>6. Range(Run(c, a, b)) = {c[i] : i \in a..b}
    <2>1. a \in Nat /\ b \in Nat
        OBVIOUS
    <2> QED
        BY <2>1, RunRange
<1>7. /\ DOMAIN dt = DOMAIN data \ {c[i] : i \in a..b}
      /\ \A y \in DOMAIN dt : dt[y] = data[y]
    BY <1>1, <1>6 DEF Only
<1>8. DOMAIN data = DOMAIN next
    BY Zenon DEF Holds, Chained
<1>9. DOMAIN dt = {c2[i] : i \in 0..(m + 1)}
    <2>1. Chained(Only([next EXCEPT ![c[a - 1]] = c[b + 1]], Run(c, a, b)),
                  Only([prev EXCEPT ![c[b + 1]] = c[a - 1]], Run(c, a, b)),
                  c2, n - (b - a + 1))
        BY <1>2, RemovedPlaces, Zenon
    <2>2. PICK nx : nx = Only([next EXCEPT ![c[a - 1]] = c[b + 1]], Run(c, a, b))
        OBVIOUS
    <2>3. DOMAIN nx = DOMAIN next \ {c[i] : i \in a..b}
        BY <2>2, <1>6 DEF Only
    <2>4. n - (b - a + 1) = m
        BY <1>3, <1>4
    <2>5. DOMAIN nx = {c2[i] : i \in 0..(n - (b - a + 1) + 1)}
        BY <2>1, <2>2, Zenon DEF Chained
    <2> QED
        BY <2>3, <2>4, <2>5, <1>7, <1>8
<1>10. ASSUME NEW i \in 0..(m + 1) PROVE dt[c2[i]] = data[c2[i]]
    BY <1>7, <1>9
<1>11. c2[0] = HEAD /\ c2[m + 1] = TAIL
    <2>1. c[0] = HEAD /\ c[n + 1] = TAIL
        BY Zenon DEF Chained
    <2>2. 0 \in 0..(a - 1) /\ m + 1 \in a..(m + 1) /\ (m + 1) + k = n + 1
        BY <1>3, <1>4
    <2>3. c2[m + 1] = c[(m + 1) + k]
        BY <2>2, <1>5
    <2> QED
        BY <2>1, <2>2, <2>3, <1>5
<1>12. dt[HEAD] = NULL /\ dt[TAIL] = NULL
    <2>1. data[HEAD] = NULL /\ data[TAIL] = NULL
        BY Zenon DEF Holds
    <2>2. 0 \in 0..(m + 1) /\ m + 1 \in 0..(m + 1)
        OBVIOUS
    <2> QED
        BY <2>1, <2>2, <1>10, <1>11
<1>13. ASSUME NEW i \in 1..(a - 1), i \in 1..m PROVE dt[c2[i]] = data[c[i]]
    BY <1>5, <1>10, <1>13
<1>14. ASSUME NEW i \in a..m PROVE dt[c2[i]] = data[c[i + k]]
    <2>1. i \in a..(m + 1) /\ i \in 0..(m + 1)
        OBVIOUS
    <2> QED
        BY <2>1, <1>5, <1>10
<1>15. \A i \in 1..n : data[c[i]] \in Data
    BY Zenon DEF Holds
<1>16. ASSUME NEW i \in 1..m PROVE dt[c2[i]] \in Data
    <2>1. CASE i < a
        <3>1. i \in 1..(a - 1) /\ i \in 1..n
            BY <2>1, <1>4
        <3> QED
            BY <3>1, <1>13, <1>15
    <2>2. CASE i >= a
        <3>1. i \in a..m /\ i + k \in 1..n
            BY <2>2, <1>3, <1>4
        <3> QED
            BY <3>1, <1>14, <1>15
    <2> QED
        BY <2>1, <2>2
<1>17. Holds(dt, c2, m)
    BY <1>9, <1>12, <1>16 DEF Holds
<1>18. IsRemoval(At(dt, c2, m), At(data, c, n), n, a, b)
    <2>1. n - (b - a + 1) = m
        BY <1>3, <1>4
    <2>2. \A i \in 1..(a - 1) : i \in 1..m /\ i \in 1..n
        BY <1>3, <1>4
    <2>3. \A i \in a..m : i \in 1..m /\ i + k \in 1..n /\ i + (b - a + 1) = i + k
        BY <1>3, <1>4
    <2> QED
        BY <2>1, <2>2, <2>3, <1>13, <1>14 DEF IsRemoval, At
<1>19. n - (b - a + 1) = m
    BY <1>3, <1>4
<1> QED
    BY <1>1, <1>2, <1>17, <1>18, <1>19, Zenon

\* The middle pointer moves by one, or not at all, to the middle of what is left.
LEMMA DroppedMiddle ==
    ASSUME NEW next, NEW prev, NEW c, NEW n \in Nat \ {0}, Chained(next, prev, c, n),
           NEW pos \in 0..(n - 1), NEW mid, IsMiddle(mid, c, n)
    PROVE  IsMiddle(IF n % 2 = 1 THEN (IF pos >= n \div 2 THEN prev[mid] ELSE mid)
                    ELSE (IF pos < n \div 2 THEN next[mid] ELSE mid),
                    Removed(c, n, pos + 1, pos + 1), n - 1)
<1>1. PICK c2 : c2 = Removed(c, n, pos + 1, pos + 1)
    OBVIOUS
<1>2. /\ \A i \in 0..pos : c2[i] = c[i]
      /\ \A i \in (pos + 1)..n : c2[i] = c[i + 1]
    BY <1>1 DEF Removed
<1>3. /\ \A i \in 0..n : next[c[i]] = c[i + 1]
      /\ \A i \in 1..(n + 1) : prev[c[i]] = c[i - 1]
      /\ c[0] = HEAD
    BY Zenon DEF Chained
<1>4. PICK m \in Nat : m = n \div 2
    OBVIOUS
<1>5. CASE n % 2 = 1
    <2>1. n = 2 * m + 1 /\ MidPosition(n) + 1 = m + 1
        BY <1>4, <1>5 DEF MidPosition
    <2>2. mid = c[m + 1]
        BY <2>1 DEF IsMiddle
    <2>3. CASE pos >= m
        <3>1. m \in 0..pos /\ m + 1 \in 1..(n + 1) /\ (m + 1) - 1 = m
            BY <2>1, <2>3
        <3>2. prev[mid] = c2[m]
            BY <3>1, <2>2, <1>2, <1>3
        <3>3. CASE n = 1
            <4>1. m = 0 /\ c2[m] = HEAD
                BY <3>3, <2>1, <1>2, <1>3
            <4> QED
                BY <4>1, <3>2, <3>3, <2>3, <1>1, <1>4, <1>5 DEF IsMiddle
        <3>4. CASE n # 1
            <4>1. MidPosition(n - 1) + 1 = m /\ n - 1 # 0
                BY <3>4, <2>1 DEF MidPosition
            <4> QED
                BY <4>1, <3>2, <2>3, <1>1, <1>4, <1>5 DEF IsMiddle
        <3> QED
            BY <3>3, <3>4
    <2>4. CASE pos < m
        <3>1. m \in (pos + 1)..n /\ n - 1 # 0 /\ MidPosition(n - 1) + 1 = m
            BY <2>1, <2>4 DEF MidPosition
        <3>2. mid = c2[m]
            BY <3>1, <2>2, <1>2
        <3> QED
            BY <3>1, <3>2, <2>4, <1>1, <1>4, <1>5 DEF IsMiddle
    <2> QED
        BY <2>3, <2>4
<1>6. CASE n % 2 = 0
    <2>1. n = 2 * m /\ m > 0 /\ MidPosition(n) + 1 = m /\ MidPosition(n - 1) + 1 = m /\ n - 1 # 0
        BY <1>4, <1>6 DEF MidPosition
    <2>2. mid = c[m]
        BY <2>1 DEF IsMiddle
    <2>3. CASE pos < m
        <3>1. m \in (pos + 1)..n /\ m \in 0..n
            BY <2>1, <2>3
        <3>2. next[mid] = c2[m]
            BY <3>1, <2>2, <1>2, <1>3
        <3> QED
            BY <3>2, <2>1, <2>3, <1>1, <1>4, <1>6 DEF IsMiddle
    <2>4. CASE pos >= m
        <3>1. mid = c2[m]
            BY <2>1, <2>2, <2>4, <1>2
        <3> QED
            BY <3>1, <2>1, <2>4, <1>1, <1>4, <1>6 DEF IsMiddle
    <2> QED
        BY <2>3, <2>4
<1>7. n % 2 = 1 \/ n % 2 = 0
    OBVIOUS
<1> QED
    BY <1>5, <1>6, <1>7

\* y is x without the entries at the places a..b.
Unlinked(x, y, c, n, a, b) ==
    /\ Sound(y, Removed(c, n, a, b)) /\ Kept(x, y)
    /\ y.numels = n - (b - a + 1)
    /\ y.spareels = x.spareels \o Spare(x, Run(c, a, b))
    /\ IsRemoval(Elements(y), Elements(x), n, a, b)

\* Unlinking a run of entries removes their places, and their elements.
LEMMA UnlinkSound ==
    ASSUME NEW x, NEW c, Sound(x, c), NEW n \in Nat, n = x.numels,
           NEW a \in 1..(n + 1), NEW b \in (a - 1)..n,
           NEW mid, IsMiddle(mid, Removed(c, n, a, b), n - (b - a + 1))
    PROVE  Unlinked(x, Unlink(x, Run(c, a, b), c[a - 1], c[b + 1], mid), c, n, a, b)
<1>16. PICK y : y = Unlink(x, Run(c, a, b), c[a - 1], c[b + 1], mid)
    OBVIOUS
<1>1. /\ IsList(x) /\ Chained(x.next, x.prev, c, n) /\ Holds(x.data, c, n)
    BY Zenon DEF Sound
<1>2. PICK c2 : c2 = Removed(c, n, a, b)
    OBVIOUS
<1>3. PICK es : es = Run(c, a, b)
    OBVIOUS
<1>4. PICK m \in Nat : m = n - (b - a + 1)
    OBVIOUS
<1>5. PICK next : next = x.next
    OBVIOUS
<1>6. PICK prev : prev = x.prev
    OBVIOUS
<1>7. PICK data : data = x.data
    OBVIOUS
<1>8. Chained(next, prev, c, n) /\ Holds(data, c, n)
    BY <1>1, <1>5, <1>6, <1>7, Zenon
<1>9. Relinked(x, y, Only([next EXCEPT ![c[a - 1]] = c[b + 1]], es),
               Only([prev EXCEPT ![c[b + 1]] = c[a - 1]], es), Only(data, es), mid, m)
      /\ y.spareels = x.spareels \o Spare(x, es)
    <2>1. y = Unlink(x, es, c[a - 1], c[b + 1], mid)
        BY <1>3, <1>16, Zenon
    <2>2. Len(es) = b - a + 1
        <3>1. b - a + 1 \in Nat
            OBVIOUS
        <3> QED
            BY <3>1, <1>3 DEF Run
    <2> QED
        BY <2>1, <2>2, <1>1, <1>4, <1>5, <1>6, <1>7 DEF Unlink, IsList, Relinked, Kept
<1>10. Chained(Only([next EXCEPT ![c[a - 1]] = c[b + 1]], es),
               Only([prev EXCEPT ![c[b + 1]] = c[a - 1]], es), c2, m)
    <2>1. Chained(Only([next EXCEPT ![c[a - 1]] = c[b + 1]], Run(c, a, b)),
                  Only([prev EXCEPT ![c[b + 1]] = c[a - 1]], Run(c, a, b)),
                  Removed(c, n, a, b), n - (b - a + 1))
        BY <1>8, RemovedPlaces, Zenon
    <2> QED
        BY <2>1, <1>2, <1>3, <1>4, Zenon
<1>11. Holds(Only(data, es), c2, m) /\ IsRemoval(At(Only(data, es), c2, m), At(data, c, n), n, a, b)
    <2>1. /\ Holds(Only(data, Run(c, a, b)), Removed(c, n, a, b), n - (b - a + 1))
          /\ IsRemoval(At(Only(data, Run(c, a, b)), Removed(c, n, a, b), n - (b - a + 1)),
                       At(data, c, n), n, a, b)
        BY <1>8, RemovedHolds, Zenon
    <2> QED
        BY <2>1, <1>2, <1>3, <1>4, Zenon
<1>12. c2 = [i \in 0..(m + 1) |-> c2[i]]
    BY <1>2, <1>4 DEF Removed
<1>13. y.numels = m /\ Kept(x, y) /\ IsList(y)
    BY <1>9, Zenon DEF Relinked
<1>14. Sound(y, c2)
    <2>1. c2 = [i \in 0..(y.numels + 1) |-> c2[i]]
        BY <1>12, <1>13
    <2>2. Chained(y.next, y.prev, c2, y.numels) /\ Holds(y.data, c2, y.numels)
        BY <1>9, <1>10, <1>11, Zenon DEF Relinked
    <2>3. IsMiddle(y.mid, c2, y.numels)
        BY <1>2, <1>4, <1>9, Zenon DEF Relinked
    <2>4. y.numels \in Nat
        BY <1>13
    <2> QED
        BY <2>1, <2>2, <2>3, <2>4, <1>13, Zenon DEF Sound
<1>15. IsRemoval(Elements(y), Elements(x), n, a, b)
    <2>1. Elements(x) = At(x.data, c, n)
        BY ElementsAt
    <2>2. Elements(y) = At(y.data, c2, m)
        BY <1>13, <1>14, ElementsAt
    <2>3. y.data = Only(data, es)
        BY <1>9, Zenon DEF Relinked
    <2> QED
        BY <2>1, <2>2, <2>3, <1>7, <1>11, Zenon
<1>17. Unlinked(x, y, c, n, a, b)
    BY <1>2, <1>3, <1>4, <1>9, <1>13, <1>14, <1>15, Zenon DEF Unlinked
<1> QED
    BY <1>16, <1>17, Zenon

\* int arithmetic on unsigned results is exact when the numbers are small.
LEMMA SmallNumbers ==
    ASSUME NEW H \in Nat, UINT_RANGE = 2 * H, NEW i \in Int
    PROVE  /\ 0 <= i /\ i < 2 * H => Unsigned(i) = i
           /\ -H <= i /\ i < H => AsInt(Unsigned(i)) = i
           /\ H > 0 => Unsigned(-1) = 2 * H - 1
<1>1. ASSUME NEW j \in Int, NEW N \in Nat, 0 <= j, j < N PROVE j % N = j
    BY <1>1
<1>2. ASSUME NEW j \in Int, NEW N \in Nat \ {0}, -N <= j, j < 0 PROVE j % N = j + N
    <2>1. j + N \in Int /\ 0 <= j + N /\ j + N < N
        BY <1>2
    <2>2. (j + N) % N = j % N
        BY <1>2
    <2>3. (j + N) % N = j + N
        BY <2>1, <1>1
    <2> QED
        BY <2>2, <2>3
<1>3. 0 <= i /\ i < 2 * H => Unsigned(i) = i
    BY <1>1 DEF Unsigned
<1>4. i < 0 /\ -H <= i => Unsigned(i) = i + 2 * H
    BY <1>2 DEF Unsigned
<1>5. -H <= i /\ i < H => AsInt(Unsigned(i)) = i
    BY <1>3, <1>4 DEF AsInt
<1>6. H > 0 => Unsigned(-1) = 2 * H - 1
    <2> SUFFICES ASSUME H > 0 PROVE Unsigned(-1) = 2 * H - 1
        OBVIOUS
    <2>1. (-1) % (2 * H) = -1 + 2 * H
        BY <1>2
    <2> QED
        BY <2>1 DEF Unsigned
<1> QED
    BY <1>3, <1>5, <1>6

\* Where the middle goes when a range is deleted: to its place, and nowhere if all is deleted.
LEMMA RangeMiddle ==
    ASSUME NEW x, NEW c, Sound(x, c), NEW n \in Nat \ {0}, n = x.numels, n <= MaxLength,
           NEW p \in 0..(n - 1), NEW k \in 1..(n - p)
    PROVE  /\ k = n => MidAfterRange(x, p, k) = NULL
           /\ k < n => /\ MidAfterRange(x, p, k) # NULL
                       /\ IsMiddle(MidAfterRange(x, p, k), Removed(c, n, p + 1, p + k), n - k)
<1>1. PICK H \in Nat : UINT_RANGE = 2 * H /\ 2 * H > 4 * MaxLength
    <2>1. UINT_RANGE \in Nat /\ UINT_RANGE % 2 = 0 /\ UINT_RANGE > 4 * MaxLength
        BY SimListAssumption
    <2>2. UINT_RANGE = 2 * (UINT_RANGE \div 2) /\ UINT_RANGE \div 2 \in Nat
        BY <2>1
    <2> QED
        BY <2>1, <2>2
<1>2. MaxLength \in Nat /\ H > 2 * n
    BY <1>1, SimListAssumption
<1>3. PICK M \in 0..(n - 1) : M = MidPosition(n) /\ x.mid = c[M + 1]
    <2>1. MidPosition(n) \in 0..(n - 1)
        BY MiddlePlace
    <2>2. IsMiddle(x.mid, c, n)
        BY Zenon DEF Sound
    <2> QED
        BY <2>1, <2>2 DEF IsMiddle
<1>4. PICK next : next = x.next
    OBVIOUS
<1>5. PICK prev : prev = x.prev
    OBVIOUS
<1>6. Chained(next, prev, c, n)
    BY <1>4, <1>5, Zenon DEF Sound
<1>7. ASSUME NEW i \in 0..(n + 1), NEW j \in Nat
      PROVE  /\ i + j <= n + 1 => Follow(next, c[i], j) = c[i + j]
             /\ Follow(prev, c[i], j) = IF j <= i THEN c[i - j] ELSE NULL
    <2>1. Follow(next, c[i], j) = IF i + j <= n + 1 THEN c[i + j] ELSE NULL
        BY <1>6, FollowNext
    <2>2. Follow(prev, c[i], j) = IF j <= i THEN c[i - j] ELSE NULL
        BY <1>6, FollowPrev
    <2> QED
        BY <2>1, <2>2
<1>8. CASE k = n
    <2>1. p = 0 /\ n - 1 - k = -1
        BY <1>8
    <2>2. Unsigned(n - 1 - k) \div 2 = H - 1
        <3>1. Unsigned(n - 1 - k) = 2 * H - 1
            BY <2>1, <1>1, <1>2, SmallNumbers
        <3> QED
            BY <3>1
    <2>3. Unsigned((H - 1) + k) = H - 1 + n
        <3>1. H - 1 + n \in Int /\ 0 <= H - 1 + n /\ H - 1 + n < 2 * H
            BY <1>2
        <3> QED
            BY <3>1, <1>1, <1>8, SmallNumbers
    <2>4. PICK u \in Int : u = H - 1 + n - M /\ H <= u /\ u < 2 * H
        BY <1>2
    <2>5. Unsigned(H - 1 + n - M) = u
        <3>1. Unsigned(u) = u
            BY <2>4, <1>1, SmallNumbers
        <3> QED
            BY <3>1, <2>4
    <2>6. AsInt(u) = u - 2 * H
        BY <2>4, <1>1 DEF AsInt
    <2>7. PICK j \in Nat : j = -(u - 2 * H) /\ j > M + 1
        BY <2>4, <1>2
    <2>8. MidAfterRange(x, p, k) = Follow(prev, c[M + 1], j)
        <3>1. ~(H - 1 < p)
            BY <2>1, <1>2
        <3>2. ~(u - 2 * H > 0)
            BY <2>4
        <3> QED
            BY <3>1, <3>2, <2>2, <2>3, <2>5, <2>6, <2>7, <1>3, <1>5 DEF MidAfterRange
    <2>9. M + 1 \in 0..(n + 1)
        OBVIOUS
    <2>10. Follow(prev, c[M + 1], j) = NULL
        <3>1. PICK i \in 0..(n + 1) : i = M + 1
            BY <2>9
        <3>2. Follow(prev, c[i], j) = IF j <= i THEN c[i - j] ELSE NULL
            BY <1>7
        <3> QED
            BY <3>1, <3>2, <2>7
    <2> QED
        BY <2>8, <2>10, <1>8
<1>9. CASE k < n
    <2>1. PICK q \in Nat : q = (n - 1 - k) \div 2 /\ 2 * q <= n - 1 - k /\ q = MidPosition(n - k)
        BY <1>9 DEF MidPosition
    <2>2. Unsigned(n - 1 - k) = n - 1 - k
        <3>1. n - 1 - k \in Int /\ 0 <= n - 1 - k /\ n - 1 - k < 2 * H
            BY <1>2, <1>9
        <3> QED
            BY <3>1, <1>1, SmallNumbers
    <2>3. Unsigned(q + k) = q + k
        <3>1. q + k \in Int /\ 0 <= q + k /\ q + k < 2 * H
            BY <2>1, <1>2, <1>9
        <3> QED
            BY <3>1, <1>1, SmallNumbers
    <2>4. PICK r \in 0..(n - 1) : r = IF q < p THEN q ELSE q + k
        <3>1. (IF q < p THEN q ELSE q + k) \in 0..(n - 1)
            BY <2>1, <1>9
        <3> QED
            BY <3>1
    <2>5. PICK mv \in Int : mv = r - M
        OBVIOUS
    <2>6. AsInt(Unsigned(r - M)) = mv
        <3>1. -H <= mv /\ mv < H
            BY <2>5, <1>2
        <3>2. AsInt(Unsigned(mv)) = mv
            BY <3>1, <1>1, SmallNumbers
        <3> QED
            BY <3>2, <2>5
    <2>7. MidAfterRange(x, p, k) = IF mv > 0 THEN Follow(next, c[M + 1], mv)
                                   ELSE Follow(prev, c[M + 1], -mv)
        BY <2>1, <2>2, <2>3, <2>4, <2>6, <1>3, <1>4, <1>5 DEF MidAfterRange
    <2>8. M + 1 \in 0..(n + 1)
        OBVIOUS
    <2>9. MidAfterRange(x, p, k) = c[r + 1]
        <3>1. CASE mv > 0
            <4>1. PICK j \in Nat : j = mv
                BY <3>1
            <4>2. PICK i \in 0..(n + 1) : i = M + 1 /\ i + j <= n + 1 /\ i + j = r + 1
                BY <4>1, <2>5, <2>8
            <4>3. Follow(next, c[i], j) = c[i + j]
                BY <4>2, <1>7
            <4> QED
                BY <4>1, <4>2, <4>3, <3>1, <2>7
        <3>2. CASE mv <= 0
            <4>1. PICK j \in Nat : j = -mv
                BY <3>2
            <4>2. PICK i \in 0..(n + 1) : i = M + 1 /\ j <= i /\ i - j = r + 1
                BY <4>1, <2>5, <2>8
            <4>3. Follow(prev, c[i], j) = c[i - j]
                BY <4>2, <1>7
            <4> QED
                BY <4>1, <4>2, <4>3, <3>2, <2>7
        <3> QED
            BY <3>1, <3>2
    <2>10. Removed(c, n, p + 1, p + k)[q + 1] = c[r + 1]
        <3>1. q + 1 \in 0..(n - k + 1) /\ (p + k) - (p + 1) + 1 = k
            BY <2>1, <1>9
        <3>2. PICK g : g = Removed(c, n, p + 1, p + k)
            OBVIOUS
        <3>3. g[q + 1] = IF q + 1 < p + 1 THEN c[q + 1] ELSE c[q + 1 + k]
            BY <3>1, <3>2 DEF Removed
        <3>4. q + 1 + k = q + k + 1 /\ (q + 1 < p + 1 <=> q < p)
            BY <2>1
        <3> QED
            BY <3>2, <3>3, <3>4, <2>4
    <2>11. n - k # 0
        BY <1>9
    <2>12. c[r + 1] # NULL
        <3>1. r + 1 \in 1..n
            OBVIOUS
        <3>2. c[r + 1] \in Addresses
            BY <3>1, <1>6, Zenon DEF Chained
        <3> QED
            BY <3>2 DEF Addresses, NULL
    <2> QED
        BY <2>1, <2>9, <2>10, <2>11, <2>12, <1>9 DEF IsMiddle
<1> QED
    BY <1>8, <1>9

--------------------------------------------------------------------------------
(* The entries that are allocated.                                           *)

\* A set of numbers that is not empty has a least one.
LEMMA MinIs ==
    ASSUME NEW S, S \subseteq Nat, S # {}
    PROVE  Min(S) \in S /\ \A n \in S : Min(S) <= n
<1>1. \E m \in S : \A n \in S : m <= n
    BY LeastNatural
<1> QED
    BY <1>1, Zenon DEF Min

\* Some of the removed entries are kept, as many as there is room for.
LEMMA SpareIs ==
    ASSUME NEW x, x.spareels \in Seq(Addresses), Len(x.spareels) <= SIMCLIST_MAX_SPARE_ELEMS,
           NEW es \in Seq(Addresses)
    PROVE  \E q \in 0..Len(es) : /\ Spare(x, es) = SubSeq(es, 1, q)
                                 /\ q + Len(x.spareels) <= SIMCLIST_MAX_SPARE_ELEMS
<1>1. PICK S : S = {Len(es), SIMCLIST_MAX_SPARE_ELEMS - Len(x.spareels)}
    OBVIOUS
<1>2. /\ Len(es) \in Nat /\ Len(x.spareels) \in Nat /\ SIMCLIST_MAX_SPARE_ELEMS \in Nat
      /\ SIMCLIST_MAX_SPARE_ELEMS - Len(x.spareels) \in Nat
    BY SimListAssumption
<1>3. S \subseteq Nat /\ S # {}
    BY <1>1, <1>2
<1>4. PICK q : q = Min(S)
    OBVIOUS
<1>5. q \in S /\ \A n \in S : q <= n
    BY <1>3, <1>4, MinIs, Zenon
<1>6. q \in Nat /\ q <= Len(es) /\ q <= SIMCLIST_MAX_SPARE_ELEMS - Len(x.spareels)
    BY <1>1, <1>3, <1>5
<1>7. Spare(x, es) = SubSeq(es, 1, q)
    BY <1>1, <1>4, Zenon DEF Spare
<1>8. q \in 0..Len(es) /\ q + Len(x.spareels) <= SIMCLIST_MAX_SPARE_ELEMS
    BY <1>2, <1>6
<1> QED
    BY <1>7, <1>8, Zenon

\* What insertion and removal do to the set of entries.
LEMMA InsertedEntries ==
    ASSUME NEW c, NEW n \in Nat, NEW e, NEW pos \in 0..n
    PROVE  Entries(Inserted(c, n, e, pos), n + 1) = Entries(c, n) \cup {e}
<1>1. PICK d : d = Inserted(c, n, e, pos)
    OBVIOUS
<1>2. /\ \A i \in 1..pos : d[i] = c[i]
      /\ d[pos + 1] = e
      /\ \A i \in (pos + 2)..(n + 1) : d[i] = c[i - 1]
    BY <1>1 DEF Inserted
<1>3. ASSUME NEW i \in 1..(n + 1) PROVE d[i] \in Entries(c, n) \cup {e}
    <2>1. CASE i <= pos
        <3>1. i \in 1..n /\ d[i] = c[i]
            BY <2>1, <1>2
        <3> QED
            BY <3>1 DEF Entries
    <2>2. CASE i = pos + 1
        BY <2>2, <1>2
    <2>3. CASE i > pos + 1
        <3>1. i - 1 \in 1..n /\ d[i] = c[i - 1]
            BY <2>3, <1>2
        <3> QED
            BY <3>1 DEF Entries
    <2> QED
        BY <2>1, <2>2, <2>3
<1>4. ASSUME NEW j \in 1..n PROVE c[j] \in Entries(d, n + 1)
    <2>1. CASE j <= pos
        <3>1. j \in 1..(n + 1) /\ d[j] = c[j]
            BY <2>1, <1>2
        <3> QED
            BY <3>1 DEF Entries
    <2>2. CASE j > pos
        <3>1. j + 1 \in (pos + 2)..(n + 1) /\ (j + 1) - 1 = j /\ j + 1 \in 1..(n + 1)
            BY <2>2
        <3>2. d[j + 1] = c[j]
            BY <3>1, <1>2
        <3> QED
            BY <3>1, <3>2 DEF Entries
    <2> QED
        BY <2>1, <2>2
<1>5. e \in Entries(d, n + 1)
    BY <1>2 DEF Entries
<1>6. Entries(d, n + 1) = Entries(c, n) \cup {e}
    BY <1>3, <1>4, <1>5 DEF Entries
<1> QED
    BY <1>1, <1>6, Zenon

LEMMA RemovedEntries ==
    ASSUME NEW next, NEW prev, NEW c, NEW n \in Nat, Chained(next, prev, c, n),
           NEW a \in 1..(n + 1), NEW b \in (a - 1)..n
    PROVE  /\ Entries(Removed(c, n, a, b), n - (b - a + 1)) = Entries(c, n) \ Range(Run(c, a, b))
           /\ Range(Run(c, a, b)) \subseteq Entries(c, n)
<1>1. PICK k \in 0..n : k = b - a + 1
    OBVIOUS
<1>2. PICK m \in 0..n : m = n - k
    OBVIOUS
<1>3. PICK d : d = Removed(c, n, a, b)
    OBVIOUS
<1>4. /\ \A i \in 1..(a - 1) : d[i] = c[i]
      /\ \A i \in a..m : d[i] = c[i + k]
    BY <1>1, <1>2, <1>3 DEF Removed
<1>5. Range(Run(c, a, b)) = {c[i] : i \in a..b}
    <2>1. a \in Nat /\ b \in Nat
        OBVIOUS
    <2> QED
        BY <2>1, RunRange
<1>6. \A i, j \in 1..n : c[i] = c[j] => i = j
    BY Zenon DEF Chained
<1>7. Range(Run(c, a, b)) \subseteq Entries(c, n)
    BY <1>5 DEF Entries
<1>8. ASSUME NEW i \in 1..n PROVE c[i] \in Range(Run(c, a, b)) <=> i \in a..b
    <2>1. \A j \in a..b : j \in 1..n
        OBVIOUS
    <2> QED
        BY <2>1, <1>5, <1>6
<1>9. ASSUME NEW i \in 1..m PROVE d[i] \in Entries(c, n) \ Range(Run(c, a, b))
    <2>1. CASE i < a
        <3>1. i \in 1..n /\ i \notin a..b /\ d[i] = c[i]
            BY <2>1, <1>2, <1>4
        <3> QED
            BY <3>1, <1>8 DEF Entries
    <2>2. CASE i >= a
        <3>1. i + k \in 1..n /\ i + k \notin a..b /\ d[i] = c[i + k]
            BY <2>2, <1>1, <1>2, <1>4
        <3> QED
            BY <3>1, <1>8 DEF Entries
    <2> QED
        BY <2>1, <2>2
<1>10. ASSUME NEW j \in 1..n, c[j] \notin Range(Run(c, a, b)) PROVE c[j] \in Entries(d, m)
    <2>1. j \notin a..b
        BY <1>8, <1>10
    <2>2. CASE j < a
        <3>1. j \in 1..m /\ d[j] = c[j]
            BY <2>2, <1>1, <1>2, <1>4
        <3> QED
            BY <3>1 DEF Entries
    <2>3. CASE j > b
        <3>1. j - k \in a..m /\ j - k \in 1..m /\ (j - k) + k = j
            BY <2>3, <1>1, <1>2
        <3>2. d[j - k] = c[j]
            BY <3>1, <1>4
        <3> QED
            BY <3>1, <3>2 DEF Entries
    <2> QED
        BY <2>1, <2>2, <2>3
<1>11. Entries(d, m) = Entries(c, n) \ Range(Run(c, a, b))
    BY <1>9, <1>10 DEF Entries
<1>12. n - (b - a + 1) = m
    BY <1>1, <1>2
<1> QED
    BY <1>3, <1>7, <1>11, <1>12, Zenon

\* As many entries are allocated as are in the list or spare.
LEMMA HeapCount ==
    ASSUME NEW x, NEW h, NEW c, Consistent(x, h, c)
    PROVE  IsFiniteSet(h) /\ Cardinality(h) = x.numels + Len(x.spareels)
<1>1. PICK n \in Nat : n = x.numels
    BY Zenon DEF Consistent, Sound
<1>2. PICK s \in Seq(Addresses) : s = x.spareels
    BY Zenon DEF Consistent, Spares
<1>3. /\ \A i, j \in 1..n : c[i] = c[j] => i = j
      /\ h = Entries(c, n) \cup Range(s)
    BY <1>1, <1>2, Zenon DEF Consistent, Sound, Chained
<1>4. /\ \A i, j \in 1..Len(s) : s[i] = s[j] => i = j
      /\ Range(s) \cap Entries(c, n) = {}
    BY <1>1, <1>2, Zenon DEF Consistent, Spares
<1>5. PICK N \in Nat : N = n + Len(s)
    OBVIOUS
<1>6. PICK f : f = [i \in 1..N |-> IF i <= n THEN c[i] ELSE s[i - n]]
    OBVIOUS
<1>7. /\ \A i \in 1..n : i \in 1..N /\ f[i] = c[i] /\ c[i] \in Entries(c, n)
      /\ \A i \in (n + 1)..N : i - n \in 1..Len(s) /\ f[i] = s[i - n] /\ s[i - n] \in Range(s)
    BY <1>5, <1>6 DEF Entries, Range
<1>8. f \in [1..N -> h]
    <2>1. \A i \in 1..N : i \in 1..n \/ i \in (n + 1)..N
        OBVIOUS
    <2>2. \A i \in 1..N : f[i] \in h
        BY <2>1, <1>3, <1>7
    <2> QED
        BY <2>2, <1>6
<1>9. ASSUME NEW i \in 1..N, NEW j \in 1..N, f[i] = f[j] PROVE i = j
    <2>1. CASE i <= n /\ j <= n
        BY <2>1, <1>3, <1>7, <1>9
    <2>2. CASE i > n /\ j > n
        <3>1. i \in (n + 1)..N /\ j \in (n + 1)..N
            BY <2>2
        <3>2. s[i - n] = s[j - n] /\ i - n \in 1..Len(s) /\ j - n \in 1..Len(s)
            BY <3>1, <1>7, <1>9
        <3>3. i - n = j - n
            BY <3>2, <1>4
        <3> QED
            BY <3>3
    <2>3. CASE i <= n /\ j > n
        BY <2>3, <1>4, <1>7, <1>9
    <2>4. CASE i > n /\ j <= n
        BY <2>4, <1>4, <1>7, <1>9
    <2> QED
        BY <2>1, <2>2, <2>3, <2>4
<1>10. ASSUME NEW y \in h PROVE \E i \in 1..N : f[i] = y
    <2>1. CASE y \in Entries(c, n)
        <3>1. PICK i \in 1..n : y = c[i]
            BY <2>1 DEF Entries
        <3> QED
            BY <3>1, <1>7
    <2>2. CASE y \in Range(s)
        <3>1. PICK i \in 1..Len(s) : y = s[i]
            BY <2>2 DEF Range
        <3>2. i + n \in (n + 1)..N /\ (i + n) - n = i /\ i + n \in 1..N
            BY <1>5
        <3>3. f[i + n] = y
            BY <3>1, <3>2, <1>7
        <3> QED
            BY <3>2, <3>3
    <2> QED
        BY <2>1, <2>2, <1>3
<1>11. ExistsBijection(1..N, h)
    <2>1. f \in Bijection(1..N, h)
        BY <1>8, <1>9, <1>10 DEF Bijection, Injection, Surjection, IsInjective
    <2> QED
        BY <2>1, Zenon DEF ExistsBijection
<1>12. IsFiniteSet(h) /\ Cardinality(h) = N
    BY <1>11, FS_NatBijection, FS_CountingElements, Zenon
<1> QED
    BY <1>1, <1>2, <1>5, <1>12

\* malloc finds an address.
LEMMA MallocIs ==
    ASSUME NEW h, IsFiniteSet(h)
    PROVE  Min((1..Cardinality(h) + 1) \ h) \in Addresses \ h
<1>1. PICK k \in Nat : k = Cardinality(h)
    BY FS_CardinalityType
<1>2. IsFiniteSet(1..(k + 1)) /\ Cardinality(1..(k + 1)) = k + 1
    BY FS_Interval
<1>3. (1..(k + 1)) \ h # {}
    <2> SUFFICES ASSUME (1..(k + 1)) \subseteq h PROVE FALSE
        OBVIOUS
    <2>1. 1..(k + 1) \in SUBSET h
        OBVIOUS
    <2>2. Cardinality(1..(k + 1)) <= Cardinality(h)
        BY <2>1, FS_Subset, Zenon
    <2> QED
        BY <2>2, <1>1, <1>2
<1>4. PICK S : S = (1..(k + 1)) \ h
    OBVIOUS
<1>5. S \subseteq Nat /\ S # {}
    BY <1>3, <1>4
<1>6. Min(S) \in S
    BY <1>5, MinIs, Zenon
<1>7. Min(S) \in Addresses \ h
    BY <1>4, <1>6 DEF Addresses
<1> QED
    BY <1>1, <1>4, <1>7, Zenon

--------------------------------------------------------------------------------
(* What the calls that insert and remove make of a consistent list.          *)

\* The list x, apart from its entries at the places c, has the entry e for a new
\* element, and y is x with the datum d in it.
Accepts(x, c, e) ==
    /\ Sound(x, c) /\ x.numels < MaxLength /\ Spares(x.spareels, c, x.numels)
    /\ x.iter_active = FALSE /\ x.comparator \in BOOLEAN
    /\ e \in Addresses \ (Entries(c, x.numels) \cup Range(x.spareels))
Accepted(x, y, c, e, d, pos) ==
    /\ Consistent(y, Entries(c, x.numels) \cup Range(x.spareels) \cup {e},
                  Inserted(c, x.numels, e, pos))
    /\ Elements(y) = InsertAt(Elements(x), pos + 1, d)
    /\ Kept(x, y)

\* Linking an address that is not in use keeps the list consistent.
LEMMA InsertConsistent ==
    ASSUME NEW x, NEW c, NEW e, Accepts(x, c, e), NEW d \in Data, NEW pos \in 0..x.numels
    PROVE  Accepted(x, Link(x, e, d, pos), c, e, d, pos)
<1>14. /\ Sound(x, c) /\ x.numels < MaxLength /\ Spares(x.spareels, c, x.numels)
       /\ x.iter_active = FALSE /\ x.comparator \in BOOLEAN
       /\ e \in Addresses \ (Entries(c, x.numels) \cup Range(x.spareels))
    BY Zenon DEF Accepts
<1>15. PICK n \in Nat : n = x.numels /\ n < MaxLength /\ pos \in 0..n
    BY <1>14 DEF Sound
<1>0. PICK h : h = Entries(c, n) \cup Range(x.spareels) \cup {e}
    OBVIOUS
<1>1. PICK y : y = Link(x, e, d, pos)
    OBVIOUS
<1>2. PICK c2 : c2 = Inserted(c, n, e, pos)
    OBVIOUS
<1>3. \A i \in 1..n : c[i] # e
    BY <1>14, <1>15 DEF Entries
<1>4. /\ Sound(y, c2) /\ Kept(x, y)
      /\ y.numels = n + 1 /\ y.spareels = x.spareels
      /\ Elements(y) = InsertAt(Elements(x), pos + 1, d)
    BY <1>1, <1>2, <1>3, <1>14, <1>15, LinkSound
<1>5. Entries(c2, n + 1) = Entries(c, n) \cup {e}
    <2>1. pos \in 0..n
        BY <1>15
    <2>2. Entries(Inserted(c, n, e, pos), n + 1) = Entries(c, n) \cup {e}
        BY <2>1, InsertedEntries
    <2> QED
        BY <1>2, <2>2, Zenon
<1>6. y.numels <= MaxLength
    BY <1>4, <1>15, SimListAssumption
<1>7. Spares(y.spareels, c2, y.numels)
    BY <1>4, <1>5, <1>14, <1>15 DEF Spares
<1>8. h = Entries(c2, y.numels) \cup Range(y.spareels)
    BY <1>0, <1>4, <1>5
<1>9. y.iter_active = FALSE /\ y.comparator \in BOOLEAN
    BY <1>4, <1>14, Zenon DEF Kept
<1>10. Iterator(y, c2)
    BY <1>9 DEF Iterator
<1>11. Consistent(y, h, c2)
    BY <1>4, <1>6, <1>7, <1>8, <1>9, <1>10, Zenon DEF Consistent
<1> QED
    BY <1>0, <1>1, <1>2, <1>4, <1>11, <1>15, Zenon DEF Accepted

\* y is the list x without its last spare entry.
HasLent(x, y, h, c) ==
    /\ Sound(y, c) /\ Kept(x, y) /\ y.numels = x.numels
    /\ Spares(y.spareels, c, x.numels)
    /\ Last(x.spareels) \in Addresses \ (Entries(c, x.numels) \cup Range(y.spareels))
    /\ h = Entries(c, x.numels) \cup Range(y.spareels) \cup {Last(x.spareels)}
    /\ Elements(y) = Elements(x)

\* The spare entry on top of the stack is not in use.
LEMMA SpareTaken ==
    ASSUME NEW x, NEW h, NEW c, Consistent(x, h, c), x.spareels # <<>>
    PROVE  HasLent(x, [x EXCEPT !.spareels = Front(@)], h, c)
<1>17. PICK y : y = [x EXCEPT !.spareels = Front(@)]
    OBVIOUS
<1>1. IsList(x) /\ Sound(x, c) /\ x.numels \in Nat
    BY Zenon DEF Consistent, Sound
<1>2. PICK s : s = x.spareels
    OBVIOUS
<1>3. /\ s \in Seq(Addresses) /\ Len(s) <= SIMCLIST_MAX_SPARE_ELEMS
      /\ \A i, j \in 1..Len(s) : s[i] = s[j] => i = j
      /\ Range(s) \cap Entries(c, x.numels) = {}
    BY <1>2, Zenon DEF Consistent, Spares
<1>4. PICK m \in Nat : m = Len(s) - 1
    <2>1. s # <<>>
        BY <1>2
    <2> QED
        BY <2>1, <1>3
<1>5. PICK t : t = Front(s)
    OBVIOUS
<1>6. t \in Seq(Addresses) /\ Len(t) = m /\ \A i \in 1..m : t[i] = s[i]
    <2>1. t = SubSeq(s, 1, m) /\ s \in Seq(Addresses) /\ m <= Len(s) /\ Len(s) \in Nat
        BY <1>3, <1>4, <1>5 DEF Front
    <2> QED
        BY <2>1
<1>7. PICK e : e = Last(s)
    OBVIOUS
<1>8. e = s[m + 1] /\ e \in Addresses
    BY <1>3, <1>4, <1>7 DEF Last
<1>9. Range(s) = Range(t) \cup {e}
    <2>1. DOMAIN s = 1..(m + 1) /\ DOMAIN t = 1..m
        BY <1>3, <1>4, <1>6
    <2> QED
        BY <2>1, <1>6, <1>8 DEF Range
<1>10. e \notin Range(t)
    <2>1. DOMAIN t = 1..m
        BY <1>6
    <2>2. ASSUME NEW i \in 1..m, t[i] = e PROVE FALSE
        <3>1. i \in 1..Len(s) /\ m + 1 \in 1..Len(s) /\ s[i] = s[m + 1]
            BY <2>2, <1>3, <1>4, <1>6, <1>8
        <3>2. i = m + 1
            BY <3>1, <1>3
        <3> QED
            BY <3>2
    <2> QED
        BY <2>1, <2>2 DEF Range
<1>11. /\ IsList(y) /\ y.spareels = t /\ y.numels = x.numels /\ y.next = x.next
       /\ y.prev = x.prev /\ y.data = x.data /\ y.mid = x.mid /\ Kept(x, y)
    BY <1>1, <1>2, <1>5, <1>17 DEF IsList, Kept
<1>12. Sound(y, c)
    <2>1. /\ c = [i \in 0..(x.numels + 1) |-> c[i]]
          /\ Chained(x.next, x.prev, c, x.numels)
          /\ Holds(x.data, c, x.numels) /\ IsMiddle(x.mid, c, x.numels)
        BY <1>1, Zenon DEF Sound
    <2> QED
        BY <2>1, <1>1, <1>11 DEF Sound
<1>13. Spares(t, c, x.numels)
    <2>1. \A i, j \in 1..m : t[i] = t[j] => i = j
        BY <1>3, <1>4, <1>6
    <2>2. Range(t) \cap Entries(c, x.numels) = {}
        BY <1>3, <1>9
    <2>3. Len(t) <= SIMCLIST_MAX_SPARE_ELEMS
        BY <1>3, <1>4, <1>6, SimListAssumption
    <2> QED
        BY <2>1, <2>2, <2>3, <1>6 DEF Spares
<1>14. e \notin Entries(c, x.numels)
    BY <1>3, <1>9
<1>15. h = Entries(c, x.numels) \cup Range(t) \cup {e}
    <2>1. h = Entries(c, x.numels) \cup Range(s)
        BY <1>2, Zenon DEF Consistent
    <2> QED
        BY <2>1, <1>9
<1>16. Elements(y) = Elements(x)
    BY <1>11 DEF Elements, Chain
<1> QED
    <2>1. HasLent(x, y, h, c)
        BY <1>2, <1>7, <1>8, <1>10, <1>11, <1>12, <1>13, <1>14, <1>15, <1>16 DEF HasLent
    <2> QED
        BY <2>1, <1>17, Zenon

\* y, with the entries g, is the list x without the entries a..b at the places c.
HasRemoved(x, y, g, c, n, a, b) ==
    /\ Consistent(y, g, Removed(c, n, a, b))
    /\ IsRemoval(Elements(y), Elements(x), n, a, b)
    /\ Kept(x, y)

\* Unlinking a run of entries, some kept as spare, keeps the list consistent.
LEMMA RemoveConsistent ==
    ASSUME NEW x, NEW h, NEW c, Consistent(x, h, c), x.iter_active = FALSE,
           NEW n \in Nat, n = x.numels,
           NEW a \in 1..(n + 1), NEW b \in (a - 1)..n,
           NEW mid, IsMiddle(mid, Removed(c, n, a, b), n - (b - a + 1))
    PROVE  HasRemoved(x, Unlink(x, Run(c, a, b), c[a - 1], c[b + 1], mid),
                      h \ (Range(Run(c, a, b)) \ Range(Spare(x, Run(c, a, b)))), c, n, a, b)
<1>30. PICK y : y = Unlink(x, Run(c, a, b), c[a - 1], c[b + 1], mid)
    OBVIOUS
<1>31. PICK g : g = h \ (Range(Run(c, a, b)) \ Range(Spare(x, Run(c, a, b))))
    OBVIOUS
<1>1. Sound(x, c) /\ x.comparator \in BOOLEAN /\ n <= MaxLength
    BY Zenon DEF Consistent
<1>2. PICK es : es = Run(c, a, b)
    OBVIOUS
<1>3. PICK c2 : c2 = Removed(c, n, a, b)
    OBVIOUS
<1>4. PICK m \in Nat : m = n - (b - a + 1) /\ m <= n
    OBVIOUS
<1>5. /\ Sound(y, c2) /\ Kept(x, y)
      /\ y.numels = m
      /\ y.spareels = x.spareels \o Spare(x, es)
      /\ IsRemoval(Elements(y), Elements(x), n, a, b)
    <2>1. Unlinked(x, Unlink(x, Run(c, a, b), c[a - 1], c[b + 1], mid), c, n, a, b)
        BY <1>1, UnlinkSound, Zenon
    <2>2. Unlinked(x, y, c, n, a, b)
        BY <2>1, <1>30, Zenon
    <2> QED
        BY <2>2, <1>2, <1>3, <1>4, Zenon DEF Unlinked
<1>6. PICK s : s = x.spareels
    OBVIOUS
<1>7. /\ s \in Seq(Addresses) /\ Len(s) <= SIMCLIST_MAX_SPARE_ELEMS
      /\ \A i, j \in 1..Len(s) : s[i] = s[j] => i = j
      /\ Range(s) \cap Entries(c, n) = {}
    BY <1>6, Zenon DEF Consistent, Spares
<1>8. /\ Entries(c2, m) = Entries(c, n) \ Range(es)
      /\ Range(es) \subseteq Entries(c, n)
    <2>1. PICK next, prev : Chained(next, prev, c, n)
        BY <1>1, Zenon DEF Sound
    <2> QED
        BY <2>1, <1>2, <1>3, <1>4, RemovedEntries
<1>9. /\ \A i \in 1..n : c[i] \in Addresses
      /\ \A i, j \in 1..n : c[i] = c[j] => i = j
    BY <1>1, Zenon DEF Sound, Chained
<1>10. PICK k \in Nat : k = b - a + 1
    OBVIOUS
<1>11. es \in Seq(Addresses) /\ Len(es) = k /\ \A i \in 1..k : es[i] = c[a + i - 1]
    <2>1. \A i \in 1..k : a + i - 1 \in 1..n
        BY <1>10
    <2> QED
        BY <2>1, <1>2, <1>9, <1>10 DEF Run
<1>12. \A i, j \in 1..k : es[i] = es[j] => i = j
    <2> SUFFICES ASSUME NEW i \in 1..k, NEW j \in 1..k, es[i] = es[j] PROVE i = j
        OBVIOUS
    <2>1. PICK u \in 1..n : u = a + i - 1
        BY <1>10
    <2>2. PICK v \in 1..n : v = a + j - 1
        BY <1>10
    <2>3. c[u] = c[v]
        BY <2>1, <2>2, <1>11
    <2>4. u = v
        BY <2>3, <1>9
    <2> QED
        BY <2>1, <2>2, <2>4
<1>13. PICK q \in 0..k : /\ Spare(x, es) = SubSeq(es, 1, q)
                         /\ q + Len(s) <= SIMCLIST_MAX_SPARE_ELEMS
    <2>1. x.spareels \in Seq(Addresses) /\ Len(x.spareels) <= SIMCLIST_MAX_SPARE_ELEMS
        BY <1>6, <1>7, Zenon
    <2>2. \E r \in 0..Len(es) : /\ Spare(x, es) = SubSeq(es, 1, r)
                                /\ r + Len(x.spareels) <= SIMCLIST_MAX_SPARE_ELEMS
        BY <2>1, <1>11, SpareIs, Zenon
    <2> QED
        BY <2>2, <1>6, <1>11
<1>14. PICK t : t = Spare(x, es)
    OBVIOUS
<1>15. t \in Seq(Addresses) /\ Len(t) = q /\ \A i \in 1..q : t[i] = es[i]
    <2>1. t = SubSeq(es, 1, q)
        BY <1>13, <1>14, Zenon
    <2>2. es \in Seq(Addresses) /\ Len(es) = k
        BY <1>11
    <2>3. q \in 0..Len(es)
        BY <2>2
    <2>4. t \in Seq(Addresses) /\ Len(t) = q
        BY <2>1, <2>2, <2>3
    <2>5. \A i \in 1..q : t[i] = es[i]
        BY <2>1, <2>2, <2>3
    <2> QED
        BY <2>4, <2>5
<1>16. Range(t) \subseteq Range(es)
    <2>1. DOMAIN t = 1..q /\ DOMAIN es = 1..k
        BY <1>11, <1>15
    <2> QED
        BY <2>1, <1>15 DEF Range
<1>17. PICK w : w = s \o t
    OBVIOUS
<1>18. w \in Seq(Addresses) /\ Len(w) = Len(s) + q
    <2>1. s \in Seq(Addresses) /\ t \in Seq(Addresses)
        BY <1>7, <1>15
    <2>2. w \in Seq(Addresses) /\ Len(w) = Len(s) + Len(t)
        BY <2>1, <1>17
    <2> QED
        BY <2>2, <1>15
<1>19. PICK L \in Nat : L = Len(s)
    BY <1>7
<1>20. /\ \A i \in 1..L : w[i] = s[i] /\ s[i] \in Range(s)
       /\ \A i \in (L + 1)..(L + q) : w[i] = t[i - L] /\ i - L \in 1..q /\ t[i - L] \in Range(t)
    <2>1. s \in Seq(Addresses) /\ t \in Seq(Addresses) /\ Len(s) = L /\ Len(t) = q
        BY <1>7, <1>15, <1>19
    <2>3. DOMAIN s = 1..L /\ DOMAIN t = 1..q
        BY <2>1
    <2>4. /\ \A i \in 1..L : w[i] = s[i]
          /\ \A i \in (L + 1)..(L + q) : w[i] = t[i - L]
        <3>1. /\ \A i \in 1..Len(s) : (s \o t)[i] = s[i]
              /\ \A i \in (Len(s) + 1)..(Len(s) + Len(t)) : (s \o t)[i] = t[i - Len(s)]
            BY <2>1, ConcatAt, Zenon
        <3> QED
            BY <2>1, <3>1, <1>17, Zenon
    <2>5. \A i \in (L + 1)..(L + q) : i - L \in 1..q
        OBVIOUS
    <2>2. /\ \A i \in 1..L : w[i] = s[i]
          /\ \A i \in (L + 1)..(L + q) : w[i] = t[i - L] /\ i - L \in 1..q
        BY <2>4, <2>5, Zenon
    <2> QED
        BY <2>2, <2>3 DEF Range
<1>21. Range(w) = Range(s) \cup Range(t)
    <2>1. DOMAIN w = 1..(L + q) /\ DOMAIN s = 1..L /\ DOMAIN t = 1..q
        BY <1>7, <1>15, <1>18, <1>19
    <2>2. ASSUME NEW i \in 1..(L + q) PROVE w[i] \in Range(s) \cup Range(t)
        <3>1. i \in 1..L \/ i \in (L + 1)..(L + q)
            OBVIOUS
        <3> QED
            BY <3>1, <1>20
    <2>3. ASSUME NEW i \in 1..L PROVE s[i] \in Range(w)
        <3>1. i \in 1..(L + q)
            OBVIOUS
        <3> QED
            BY <3>1, <2>1, <1>20 DEF Range
    <2>4. ASSUME NEW i \in 1..q PROVE t[i] \in Range(w)
        <3>1. i + L \in (L + 1)..(L + q) /\ (i + L) - L = i /\ i + L \in 1..(L + q)
            OBVIOUS
        <3>2. w[i + L] = t[i]
            BY <3>1, <1>20
        <3> QED
            BY <3>1, <3>2, <2>1 DEF Range
    <2> QED
        BY <2>1, <2>2, <2>3, <2>4 DEF Range
<1>22. \A i, j \in 1..(L + q) : w[i] = w[j] => i = j
    <2> SUFFICES ASSUME NEW i \in 1..(L + q), NEW j \in 1..(L + q), w[i] = w[j] PROVE i = j
        OBVIOUS
    <2>1. Range(s) \cap Range(t) = {}
        BY <1>7, <1>8, <1>16
    <2>2. CASE i <= L /\ j <= L
        BY <2>2, <1>7, <1>19, <1>20
    <2>3. CASE i > L /\ j > L
        <3>1. i \in (L + 1)..(L + q) /\ j \in (L + 1)..(L + q)
            BY <2>3
        <3>2. /\ es[i - L] = es[j - L] /\ i - L \in 1..k /\ j - L \in 1..k
            BY <3>1, <1>15, <1>20
        <3>3. i - L = j - L
            BY <3>2, <1>12
        <3> QED
            BY <3>3
    <2>4. CASE i <= L /\ j > L
        BY <2>1, <2>4, <1>20
    <2>5. CASE i > L /\ j <= L
        BY <2>1, <2>5, <1>20
    <2> QED
        BY <2>2, <2>3, <2>4, <2>5
<1>23. Spares(w, c2, m)
    <2>1. Range(w) \cap Entries(c2, m) = {}
        BY <1>7, <1>8, <1>16, <1>21
    <2>2. Len(w) <= SIMCLIST_MAX_SPARE_ELEMS
        BY <1>13, <1>18, <1>19, SimListAssumption
    <2> QED
        BY <2>1, <2>2, <1>18, <1>19, <1>22 DEF Spares
<1>24. g = Entries(c2, m) \cup Range(w)
    <2>1. h = Entries(c, n) \cup Range(s)
        BY <1>6, Zenon DEF Consistent
    <2>2. g = h \ (Range(es) \ Range(t))
        BY <1>2, <1>14, <1>31, Zenon
    <2> QED
        BY <2>1, <2>2, <1>7, <1>8, <1>16, <1>21
<1>25. y.iter_active = FALSE /\ y.comparator \in BOOLEAN
    BY <1>1, <1>5, Zenon DEF Kept
<1>26. Iterator(y, c2)
    BY <1>25 DEF Iterator
<1>27. y.spareels = w
    BY <1>5, <1>6, <1>14, <1>17, Zenon
<1>28. y.numels <= MaxLength
    BY <1>1, <1>4, <1>5, SimListAssumption
<1>29. Consistent(y, g, c2)
    BY <1>5, <1>23, <1>24, <1>25, <1>26, <1>27, <1>28, Zenon DEF Consistent
<1> QED
    BY <1>3, <1>5, <1>29, <1>30, <1>31, Zenon DEF HasRemoved

\* y has x's links, elements and spare entries.
SameList(x, y) ==
    /\ IsList(y) /\ y.next = x.next /\ y.prev = x.prev /\ y.data = x.data /\ y.mid = x.mid
    /\ y.numels = x.numels /\ y.spareels = x.spareels

\* What does not touch the entries keeps the list consistent.
LEMMA SameConsistent ==
    ASSUME NEW x, NEW h, NEW c, Consistent(x, h, c), NEW y, SameList(x, y),
           y.iter_active \in BOOLEAN, y.comparator \in BOOLEAN, Iterator(y, c)
    PROVE  Consistent(y, h, c) /\ Elements(y) = Elements(x)
<1>1. /\ IsList(y) /\ y.next = x.next /\ y.prev = x.prev /\ y.data = x.data /\ y.mid = x.mid
      /\ y.numels = x.numels /\ y.spareels = x.spareels
    BY Zenon DEF SameList
<1>2. /\ x.numels \in Nat /\ c = [i \in 0..(x.numels + 1) |-> c[i]]
      /\ Chained(x.next, x.prev, c, x.numels)
      /\ Holds(x.data, c, x.numels) /\ IsMiddle(x.mid, c, x.numels)
    BY Zenon DEF Consistent, Sound
<1>3. Sound(y, c)
    BY <1>1, <1>2 DEF Sound
<1>4. /\ x.numels <= MaxLength /\ Spares(x.spareels, c, x.numels)
      /\ h = Entries(c, x.numels) \cup Range(x.spareels)
    BY Zenon DEF Consistent
<1>5. Consistent(y, h, c)
    BY <1>1, <1>3, <1>4 DEF Consistent
<1>6. Elements(y) = Elements(x)
    BY <1>1 DEF Elements, Chain
<1> QED
    BY <1>5, <1>6

\* An empty list.
LEMMA EmptyConsistent ==
    /\ Consistent(list_init, {}, Places(list_init))
    /\ Elements(list_init) = <<>> /\ list_init.iter_active = FALSE /\ list_init.numels = 0
    /\ IsList(list_init) /\ list_init.spareels = <<>> /\ list_init.comparator = FALSE
    /\ \E c : /\ c = [i \in 0..1 |-> c[i]] /\ c[0] = HEAD /\ c[1] = TAIL
              /\ Sound(list_init, c)
<1>1. PICK x : x = list_init
    OBVIOUS
<1>2. /\ IsList(x) /\ x.mid = NULL /\ x.numels = 0 /\ x.spareels = <<>>
      /\ x.iter_active = FALSE /\ x.comparator = FALSE
      /\ DOMAIN x.next = {HEAD, TAIL} /\ DOMAIN x.prev = {HEAD, TAIL}
      /\ DOMAIN x.data = {HEAD, TAIL}
      /\ x.next[HEAD] = TAIL /\ x.next[TAIL] = NULL /\ x.prev[TAIL] = HEAD /\ x.prev[HEAD] = NULL
      /\ x.data[HEAD] = NULL /\ x.data[TAIL] = NULL
    BY <1>1 DEF list_init, IsList, HEAD, TAIL
<1>3. PICK c : c = [i \in 0..1 |-> IF i = 0 THEN HEAD ELSE TAIL]
    OBVIOUS
<1>4. c = [i \in 0..(0 + 1) |-> c[i]] /\ c[0] = HEAD /\ c[0 + 1] = TAIL
    BY <1>3
<1>5. {c[i] : i \in 0..(0 + 1)} = {HEAD, TAIL}
    <2>1. \A i \in 0..(0 + 1) : i = 0 \/ i = 0 + 1
        OBVIOUS
    <2> QED
        BY <2>1, <1>4
<1>6. Chained(x.next, x.prev, c, 0)
    <2>1. \A i \in 0..0 : x.next[c[i]] = c[i + 1]
        BY <1>2, <1>4
    <2>2. \A i \in 1..(0 + 1) : x.prev[c[i]] = c[i - 1]
        BY <1>2, <1>4
    <2>3. \A i \in 1..0 : FALSE
        OBVIOUS
    <2> QED
        BY <2>1, <2>2, <2>3, <1>2, <1>4, <1>5 DEF Chained
<1>7. Holds(x.data, c, 0)
    <2>1. \A i \in 1..0 : FALSE
        OBVIOUS
    <2> QED
        BY <2>1, <1>2, <1>5 DEF Holds
<1>8. IsMiddle(x.mid, c, 0)
    BY <1>2 DEF IsMiddle
<1>9. Sound(x, c)
    BY <1>2, <1>4, <1>6, <1>7, <1>8 DEF Sound
<1>10. Entries(c, 0) = {} /\ Range(x.spareels) = {}
    BY <1>2 DEF Entries, Range
<1>11. Spares(x.spareels, c, 0)
    <2>1. SIMCLIST_MAX_SPARE_ELEMS \in Nat
        BY SimListAssumption
    <2>2. <<>> \in Seq(Addresses) /\ Len(<<>>) = 0
        OBVIOUS
    <2>3. \A i \in 1..0 : FALSE
        OBVIOUS
    <2> QED
        BY <2>1, <2>2, <2>3, <1>2, <1>10 DEF Spares
<1>12. Consistent(x, {}, c)
    <2>1. MaxLength \in Nat
        BY SimListAssumption
    <2> QED
        <3>1. x.numels <= MaxLength
            BY <2>1, <1>2
        <3>5. x.iter_active \in BOOLEAN /\ x.comparator \in BOOLEAN
            BY <1>2, Zenon
        <3>2. {} = Entries(c, x.numels) \cup Range(x.spareels)
            BY <1>2, <1>10
        <3>3. Iterator(x, c)
            BY <1>2 DEF Iterator
        <3>4. Spares(x.spareels, c, x.numels)
            BY <1>2, <1>11, Zenon
        <3> QED
            BY <3>1, <3>2, <3>3, <3>4, <3>5, <1>9, Zenon DEF Consistent
<1>13. Places(x) = c /\ Elements(x) = <<>>
    <2>1. Places(x) = c /\ Elements(x) \in Seq(Data) /\ Len(Elements(x)) = 0
        BY <1>2, <1>9, ElementsAt
    <2> QED
        BY <2>1
<1>14. c = [i \in 0..1 |-> c[i]] /\ c[0] = HEAD /\ c[1] = TAIL
    BY <1>3
<1> QED
    BY <1>1, <1>2, <1>9, <1>12, <1>13, <1>14, Zenon

\* However the places of a list were found, they are Places.
LEMMA PlacesFound ==
    ASSUME NEW x, NEW h, NEW c, Consistent(x, h, c)
    PROVE  Consistent(x, h, Places(x))
<1>1. Sound(x, c)
    BY Zenon DEF Consistent
<1>2. Places(x) = c
    BY <1>1, ElementsAt, Zenon
<1> QED
    BY <1>2, Zenon

--------------------------------------------------------------------------------
(* Concatenation.                                                            *)

\* The places of a new list: malloc's addresses in order.
Fresh(n) == [i \in 0..(n + 1) |-> IF i <= n THEN i ELSE TAIL]

\* x is a new list whose links are those of the first i elements of s.
CopiedSoFar(x, s, i) ==
    /\ IsList(x) /\ x.numels = 0 /\ x.spareels = <<>>
    /\ x.iter_active = FALSE /\ x.comparator = FALSE
    /\ Chained(x.next, x.prev, Fresh(i), i)
    /\ Holds(x.data, Fresh(i), i)
    /\ \A j \in 1..i : x.data[j] = s[j]

\* Entries allocated one after the other for a new list.
LEMMA FreshGrows ==
    ASSUME NEW n \in Nat
    PROVE  Inserted(Fresh(n), n, n + 1, n) = Fresh(n + 1)
<1>1. (n + 1) + 1 = n + 2
    OBVIOUS
<1>2. PICK c : c = Fresh(n)
    OBVIOUS
<1>3. \A i \in 0..(n + 1) : c[i] = IF i <= n THEN i ELSE TAIL
    BY <1>2 DEF Fresh
<1>4. \A i \in 0..(n + 2) :
          (IF i <= n THEN c[i] ELSE IF i = n + 1 THEN n + 1 ELSE c[i - 1])
              = IF i <= n + 1 THEN i ELSE TAIL
    <2> SUFFICES ASSUME NEW i \in 0..(n + 2)
                 PROVE  (IF i <= n THEN c[i] ELSE IF i = n + 1 THEN n + 1 ELSE c[i - 1])
                            = IF i <= n + 1 THEN i ELSE TAIL
        OBVIOUS
    <2>1. CASE i <= n
        BY <2>1, <1>3
    <2>2. CASE i = n + 1
        BY <2>2
    <2>3. CASE i = n + 2
        <3>1. i - 1 \in 0..(n + 1) /\ ~(i - 1 <= n)
            BY <2>3
        <3>2. c[i - 1] = TAIL
            BY <3>1, <1>3
        <3> QED
            BY <2>3, <3>2
    <2> QED
        BY <2>1, <2>2, <2>3
<1>5. Inserted(c, n, n + 1, n) = Fresh(n + 1)
    BY <1>1, <1>4 DEF Inserted, Fresh
<1> QED
    BY <1>2, <1>5, Zenon

\* One more element in list_concat's loop.
LEMMA ExtendCopies ==
    ASSUME NEW x, NEW s \in Seq(Data), NEW i \in 0..(Len(s) - 1), CopiedSoFar(x, s, i)
    PROVE  CopiedSoFar(Extend(x, s[i + 1]), s, i + 1)
<1>1. PICK n \in Nat : n = i
    OBVIOUS
<1>2. PICK c : c = Fresh(n)
    OBVIOUS
<1>3. /\ \A j \in 0..n : c[j] = j
      /\ c[n + 1] = TAIL
    BY <1>2 DEF Fresh
<1>4. PICK next : next = x.next
    OBVIOUS
<1>5. PICK prev : prev = x.prev
    OBVIOUS
<1>6. PICK data : data = x.data
    OBVIOUS
<1>7. /\ IsList(x) /\ x.numels = 0 /\ x.spareels = <<>>
      /\ x.iter_active = FALSE /\ x.comparator = FALSE
      /\ Chained(next, prev, c, n)
      /\ Holds(data, c, n)
    BY <1>1, <1>2, <1>4, <1>5, <1>6, Zenon DEF CopiedSoFar
<1>8. PICK d \in Data : d = s[i + 1]
    OBVIOUS
<1>9. PICK e : e = Cardinality(DOMAIN next) - 1
    OBVIOUS
<1>10. e = n + 1
    <2>1. DOMAIN next = {c[j] : j \in 0..(n + 1)}
        BY <1>7, Zenon DEF Chained
    <2>2. {c[j] : j \in 0..(n + 1)} = -1..n
        <3>1. \A j \in 0..(n + 1) : j \in 0..n \/ j = n + 1
            OBVIOUS
        <3>2. \A k \in -1..n : k \in 0..n \/ k = -1
            OBVIOUS
        <3>3. \A j \in 0..n : j \in 0..(n + 1)
            OBVIOUS
        <3>4. n + 1 \in 0..(n + 1)
            OBVIOUS
        <3> QED
            BY <3>1, <3>2, <3>3, <3>4, <1>3 DEF TAIL
    <2>3. Cardinality(-1..n) = n + 2
        <3>1. PICK a \in Int : a = -1
            OBVIOUS
        <3>2. Cardinality(a..n) = IF a > n THEN 0 ELSE n - a + 1
            BY FS_Interval
        <3> QED
            BY <3>1, <3>2
    <2>4. Cardinality(DOMAIN next) = n + 2
        BY <2>1, <2>2, <2>3, Zenon
    <2> QED
        BY <2>4, <1>9
<1>11. e \in Addresses /\ \A j \in 1..n : c[j] # e
    BY <1>3, <1>10 DEF Addresses
<1>12. prev[TAIL] = c[n]
    <2>1. n + 1 \in 1..(n + 1) /\ (n + 1) - 1 = n
        OBVIOUS
    <2>2. prev[c[n + 1]] = c[(n + 1) - 1]
        BY <2>1, <1>7, Zenon DEF Chained
    <2> QED
        BY <2>1, <2>2, <1>3
<1>13. PICK nx : nx = With([next EXCEPT ![c[n]] = e], e, c[n + 1])
    OBVIOUS
<1>14. PICK pv : pv = With([prev EXCEPT ![c[n + 1]] = e], e, c[n])
    OBVIOUS
<1>15. PICK dt : dt = With(data, e, d)
    OBVIOUS
<1>16. PICK y : y = Extend(x, d)
    OBVIOUS
<1>17. Relinked(x, y, nx, pv, dt, x.mid, 0) /\ y.spareels = <<>>
    <2>1. e = Cardinality(DOMAIN x.next) - 1 /\ c[n] = x.prev[TAIL]
        BY <1>4, <1>5, <1>9, <1>12
    <2>2. /\ Relinked(x, y, With([x.next EXCEPT ![c[n]] = e], e, TAIL),
                      With([x.prev EXCEPT ![TAIL] = e], e, c[n]),
                      With(x.data, e, d), x.mid, x.numels)
          /\ y.spareels = x.spareels
        BY <2>1, <1>7, <1>16, ExtendIs
    <2> QED
        BY <2>2, <1>3, <1>4, <1>5, <1>6, <1>7, <1>13, <1>14, <1>15, Zenon
<1>18. n \in 0..n
    OBVIOUS
<1>19. PICK c2 : c2 = Fresh(n + 1)
    OBVIOUS
<1>20. Inserted(c, n, e, n) = c2
    BY <1>2, <1>10, <1>19, FreshGrows, Zenon
<1>21. Chained(nx, pv, c2, n + 1)
    BY <1>7, <1>11, <1>13, <1>14, <1>18, <1>20, InsertedPlaces, Zenon
<1>22. Holds(dt, c2, n + 1)
    <2>1. Holds(With(data, e, d), Inserted(c, n, e, n), n + 1)
        BY <1>7, <1>11, <1>18, InsertedHolds, Zenon
    <2> QED
        BY <2>1, <1>15, <1>20, Zenon
<1>23. ASSUME NEW j \in 1..(n + 1) PROVE dt[j] = s[j]
    <2>1. CASE j = n + 1
        <3>1. dt[e] = d
            BY <1>15 DEF With
        <3> QED
            BY <2>1, <3>1, <1>1, <1>8, <1>10
    <2>2. CASE j # n + 1
        <3>1. j \in 1..n /\ j \in 0..n /\ j # e /\ j \in 0..(n + 1)
            BY <2>2, <1>10
        <3>2. data[j] = s[j]
            BY <3>1, <1>1, <1>6, Zenon DEF CopiedSoFar
        <3>3. j \in DOMAIN data
            <4>1. c[j] \in DOMAIN data
                BY <3>1, <1>7, Zenon DEF Holds
            <4> QED
                BY <3>1, <4>1, <1>3
        <3> QED
            BY <3>1, <3>2, <3>3, <1>15 DEF With
    <2> QED
        BY <2>1, <2>2
<1>24. CopiedSoFar(y, s, n + 1)
    <2>1. /\ IsList(y) /\ y.numels = 0 /\ Kept(x, y) /\ y.next = nx /\ y.prev = pv /\ y.data = dt
        BY <1>17, Zenon DEF Relinked
    <2>2. y.iter_active = FALSE /\ y.comparator = FALSE
        BY <2>1, <1>7, Zenon DEF Kept
    <2>3. \A j \in 1..(n + 1) : y.data[j] = s[j]
        BY <2>1, <1>23
    <2>4. Chained(y.next, y.prev, Fresh(n + 1), n + 1) /\ Holds(y.data, Fresh(n + 1), n + 1)
        BY <2>1, <1>19, <1>21, <1>22, Zenon
    <2> QED
        BY <2>1, <2>2, <2>3, <2>4, <1>17, Zenon DEF CopiedSoFar
<1> QED
    BY <1>1, <1>8, <1>16, <1>24, Zenon

\* f[i] is the list with the links of the first i elements of s, up to the n-th.
Copies(f, s, n) == f = [i \in 0..n |-> IF i = 0 THEN list_init ELSE Extend(f[i - 1], s[i])]

\* The destination of list_concat, after its loop.
LEMMA CopiedIs ==
    ASSUME NEW s \in Seq(Data)
    PROVE  CopiedSoFar(Copied(s), s, Len(s))
<1>1. PICK n \in Nat : n = Len(s)
    OBVIOUS
<1>2. \E f : Copies(f, s, n)
    <2> DEFINE T == {k \in Nat : \E f : Copies(f, s, k)}
    <2>1. 0 \in T
        <3>1. PICK f : f = [i \in 0..0 |-> list_init]
            OBVIOUS
        <3>2. Copies(f, s, 0)
            BY <3>1 DEF Copies
        <3> QED
            BY <3>2
    <2>2. ASSUME NEW k \in Nat, k \in T PROVE k + 1 \in T
        <3>1. PICK f : Copies(f, s, k)
            BY <2>2
        <3>2. PICK g : g = [i \in 0..(k + 1) |-> IF i <= k THEN f[i] ELSE Extend(f[k], s[k + 1])]
            OBVIOUS
        <3>3. ASSUME NEW i \in 0..(k + 1)
              PROVE  g[i] = IF i = 0 THEN list_init ELSE Extend(g[i - 1], s[i])
            <4>1. CASE i = 0
                BY <3>1, <3>2, <4>1 DEF Copies
            <4>2. CASE i \in 1..k
                <5>1. i - 1 \in 0..k /\ i \in 0..k /\ i - 1 \in 0..(k + 1) /\ i - 1 <= k
                    BY <4>2
                <5>2. g[i] = f[i] /\ g[i - 1] = f[i - 1]
                    BY <3>2, <5>1
                <5>3. f[i] = IF i = 0 THEN list_init ELSE Extend(f[i - 1], s[i])
                    BY <3>1, <5>1, Zenon DEF Copies
                <5> QED
                    BY <5>2, <5>3, Zenon
            <4>3. CASE i = k + 1
                <5>1. i - 1 = k /\ ~(i <= k) /\ k \in 0..(k + 1) /\ i # 0
                    BY <4>3
                <5>2. g[i] = Extend(f[k], s[i]) /\ g[i - 1] = f[k]
                    BY <3>2, <4>3, <5>1
                <5> QED
                    BY <5>1, <5>2, Zenon
            <4> QED
                BY <4>1, <4>2, <4>3
        <3>4. Copies(g, s, k + 1)
            <4>1. g = [i \in 0..(k + 1) |-> g[i]]
                BY <3>2
            <4>2. PICK h : h = [i \in 0..(k + 1) |-> IF i = 0 THEN list_init
                                                    ELSE Extend(g[i - 1], s[i])]
                OBVIOUS
            <4>3. \A i \in 0..(k + 1) : h[i] = g[i]
                BY <3>3, <4>2, Zenon
            <4>4. h = [i \in 0..(k + 1) |-> h[i]]
                BY <4>2
            <4>5. h = g
                BY <4>1, <4>3, <4>4
            <4> QED
                BY <4>2, <4>5, Zenon DEF Copies
        <3> QED
            BY <3>4
    <2> HIDE DEF T
    <2>3. Nat \subseteq T
        BY <2>1, <2>2, Induction, Zenon
    <2> QED
        BY <2>3 DEF T
<1>3. PICK f : f = CHOOSE h : Copies(h, s, n)
    OBVIOUS
<1>4. Copies(f, s, n)
    BY <1>2, <1>3, Zenon
<1>5. f[0] = list_init /\ \A i \in 1..n : f[i] = Extend(f[i - 1], s[i])
    <2>1. PICK g : g = [i \in 0..n |-> IF i = 0 THEN list_init ELSE Extend(f[i - 1], s[i])]
        OBVIOUS
    <2>2. g[0] = list_init /\ \A i \in 1..n : g[i] = Extend(f[i - 1], s[i])
        BY <2>1
    <2>3. f = g
        BY <1>4, <2>1, Zenon DEF Copies
    <2> QED
        BY <2>2, <2>3, Zenon
<1>6. CopiedSoFar(f[0], s, 0)
    <2>1. PICK c : /\ c = [i \in 0..1 |-> c[i]] /\ c[0] = HEAD /\ c[1] = TAIL
                   /\ Sound(list_init, c)
        BY EmptyConsistent
    <2>2. c = Fresh(0)
        <3>1. \A i \in 0..1 : c[i] = IF i <= 0 THEN i ELSE TAIL
            BY <2>1 DEF HEAD
        <3>2. Fresh(0) = [i \in 0..1 |-> IF i <= 0 THEN i ELSE TAIL]
            BY DEF Fresh
        <3>3. PICK g : g = [i \in 0..1 |-> IF i <= 0 THEN i ELSE TAIL]
            OBVIOUS
        <3>4. g = [i \in 0..1 |-> g[i]] /\ \A i \in 0..1 : g[i] = c[i]
            BY <3>1, <3>3
        <3>5. g = c
            BY <2>1, <3>4
        <3> QED
            BY <3>2, <3>3, <3>5, Zenon
    <2>3. list_init.numels = 0 /\ list_init.spareels = <<>> /\ IsList(list_init)
          /\ list_init.iter_active = FALSE /\ list_init.comparator = FALSE
        BY EmptyConsistent
    <2>4. Chained(list_init.next, list_init.prev, c, 0) /\ Holds(list_init.data, c, 0)
        BY <2>1, <2>3, Zenon DEF Sound
    <2>5. \A j \in 1..0 : list_init.data[j] = s[j]
        OBVIOUS
    <2> QED
        BY <1>5, <2>2, <2>3, <2>4, <2>5, Zenon DEF CopiedSoFar
<1>7. \A i \in Nat : i <= n => CopiedSoFar(f[i], s, i)
    <2> DEFINE T == {i \in Nat : i <= n => CopiedSoFar(f[i], s, i)}
    <2>1. 0 \in T
        BY <1>6, Zenon
    <2>2. ASSUME NEW i \in Nat, i \in T PROVE i + 1 \in T
        <3> SUFFICES ASSUME i + 1 <= n PROVE CopiedSoFar(f[i + 1], s, i + 1)
            OBVIOUS
        <3>1. i <= n /\ i \in 0..(Len(s) - 1) /\ i + 1 \in 1..n /\ (i + 1) - 1 = i
            BY <1>1
        <3>2. CopiedSoFar(f[i], s, i)
            BY <2>2, <3>1, Zenon
        <3>3. CopiedSoFar(Extend(f[i], s[i + 1]), s, i + 1)
            BY <3>1, <3>2, ExtendCopies, Zenon
        <3>4. f[i + 1] = Extend(f[i], s[i + 1])
            BY <1>5, <3>1
        <3> QED
            BY <3>3, <3>4, Zenon
    <2> HIDE DEF T
    <2>3. Nat \subseteq T
        BY <2>1, <2>2, Induction, Zenon
    <2> QED
        BY <2>3 DEF T
<1>8. n <= n
    OBVIOUS
<1>9. Copied(s) = f[Len(s)]
    BY <1>1, <1>3, Zenon DEF Copied, Copies
<1> QED
    BY <1>1, <1>7, <1>8, <1>9, Zenon

\* f[i] is the list that was filled with the first i elements of s, up to the n-th.
Fills(f, s, n) == f = [i \in 0..n |-> IF i = 0 THEN list_init ELSE Link(f[i - 1], i, s[i], i - 1)]

FilledSoFar(x, s, i) ==
    /\ Sound(x, Fresh(i)) /\ x.numels = i
    /\ \A j \in 1..i : Elements(x)[j] = s[j]

\* Where the entries of a new list are.
LEMMA FreshIs ==
    ASSUME NEW n \in Nat
    PROVE  /\ \A j \in 0..n : Fresh(n)[j] = j
           /\ Fresh(n)[n + 1] = TAIL
           /\ DOMAIN Fresh(n) = 0..(n + 1)
           /\ Fresh(n) = [i \in 0..(n + 1) |-> Fresh(n)[i]]
           /\ Entries(Fresh(n), n) = 1..n
<1>1. PICK c : c = Fresh(n)
    OBVIOUS
<1>2. /\ \A j \in 0..n : c[j] = j
      /\ c[n + 1] = TAIL /\ DOMAIN c = 0..(n + 1)
      /\ c = [i \in 0..(n + 1) |-> c[i]]
    BY <1>1 DEF Fresh
<1>3. Entries(c, n) = 1..n
    <2>1. \A j \in 1..n : j \in 0..n
        OBVIOUS
    <2>2. \A j \in 1..n : c[j] = j
        BY <2>1, <1>2
    <2> QED
        BY <2>2 DEF Entries
<1> QED
    BY <1>1, <1>2, <1>3, Zenon

\* One more element appended to a new list.
LEMMA LinkFills ==
    ASSUME NEW x, NEW s \in Seq(Data), NEW i \in 0..(Len(s) - 1), FilledSoFar(x, s, i)
    PROVE  FilledSoFar(Link(x, i + 1, s[i + 1], i), s, i + 1)
<1>1. PICK n \in Nat : n = i
    OBVIOUS
<1>2. PICK c : c = Fresh(n)
    OBVIOUS
<1>3. \A j \in 0..n : c[j] = j
    BY <1>2, FreshIs
<1>4. PICK d \in Data : d = s[i + 1]
    OBVIOUS
<1>5. PICK e : e = n + 1
    OBVIOUS
<1>6. e \in Addresses /\ n \in 0..n /\ \A j \in 1..n : c[j] # e
    <2>1. \A j \in 1..n : j \in 0..n /\ j # e
        BY <1>5
    <2> QED
        BY <2>1, <1>3, <1>5 DEF Addresses
<1>7. Sound(x, c) /\ n = x.numels /\ \A j \in 1..n : Elements(x)[j] = s[j]
    BY <1>1, <1>2, Zenon DEF FilledSoFar
<1>8. PICK y : y = Link(x, e, d, n)
    OBVIOUS
<1>9. PICK c2 : c2 = Inserted(c, n, e, n)
    OBVIOUS
<1>10. /\ Sound(y, c2) /\ y.numels = n + 1
       /\ Elements(y) = InsertAt(Elements(x), n + 1, d)
    BY <1>6, <1>7, <1>8, <1>9, LinkSound
<1>11. c2 = Fresh(n + 1)
    BY <1>2, <1>5, <1>9, FreshGrows, Zenon
<1>12. PICK t : t = Elements(x)
    OBVIOUS
<1>13. t \in Seq(Data) /\ Len(t) = n
    BY <1>7, <1>12, ElementsAt
<1>14. PICK k \in 1..(Len(t) + 1) : k = n + 1
    BY <1>13
<1>15. IsInsertion(InsertAt(t, k, d), t, Len(t), k, d)
    BY <1>13, InsertAtIs, Zenon
<1>16. PICK u : u = InsertAt(t, k, d)
    OBVIOUS
<1>17. (\A j \in 1..n : u[j] = t[j]) /\ u[n + 1] = d
    <2>1. k - 1 = n
        BY <1>14
    <2>2. (\A j \in 1..(k - 1) : u[j] = t[j]) /\ u[k] = d
        BY <1>15, <1>16, Zenon DEF IsInsertion
    <2> QED
        BY <2>1, <2>2, <1>14
<1>18. Elements(y) = u
    BY <1>10, <1>12, <1>14, <1>16, Zenon
<1>19. \A j \in 1..(n + 1) : u[j] = s[j]
    <2>1. \A j \in 1..(n + 1) : j \in 1..n \/ j = n + 1
        OBVIOUS
    <2>2. d = s[n + 1]
        BY <1>1, <1>4
    <2>3. \A j \in 1..n : t[j] = s[j]
        BY <1>7, <1>12, Zenon
    <2> QED
        BY <2>1, <2>2, <2>3, <1>17
<1>20. FilledSoFar(y, s, n + 1)
    BY <1>10, <1>11, <1>18, <1>19, Zenon DEF FilledSoFar
<1> QED
    BY <1>1, <1>4, <1>5, <1>8, <1>20, Zenon

\* A list to which elements were appended one after the other.
LEMMA FilledIs ==
    ASSUME NEW s \in Seq(Data)
    PROVE  FilledSoFar(Filled(s), s, Len(s))
<1>1. PICK n \in Nat : n = Len(s)
    OBVIOUS
<1>2. \E f : Fills(f, s, n)
    <2> DEFINE T == {k \in Nat : \E f : Fills(f, s, k)}
    <2>1. 0 \in T
        <3>1. PICK f : f = [i \in 0..0 |-> list_init]
            OBVIOUS
        <3>2. Fills(f, s, 0)
            BY <3>1 DEF Fills
        <3> QED
            BY <3>2
    <2>2. ASSUME NEW k \in Nat, k \in T PROVE k + 1 \in T
        <3>1. PICK f : Fills(f, s, k)
            BY <2>2
        <3>2. PICK g : g = [i \in 0..(k + 1) |-> IF i <= k THEN f[i] ELSE Link(f[k], k + 1, s[k + 1], k)]
            OBVIOUS
        <3>3. ASSUME NEW i \in 0..(k + 1)
              PROVE  g[i] = IF i = 0 THEN list_init ELSE Link(g[i - 1], i, s[i], i - 1)
            <4>1. CASE i = 0
                BY <3>1, <3>2, <4>1 DEF Fills
            <4>2. CASE i \in 1..k
                <5>1. i - 1 \in 0..k /\ i \in 0..k /\ i - 1 \in 0..(k + 1) /\ i - 1 <= k
                    BY <4>2
                <5>2. g[i] = f[i] /\ g[i - 1] = f[i - 1]
                    BY <3>2, <5>1
                <5>3. f[i] = IF i = 0 THEN list_init ELSE Link(f[i - 1], i, s[i], i - 1)
                    BY <3>1, <5>1, Zenon DEF Fills
                <5> QED
                    BY <5>2, <5>3, Zenon
            <4>3. CASE i = k + 1
                <5>1. i - 1 = k /\ ~(i <= k) /\ k \in 0..(k + 1) /\ i # 0
                    BY <4>3
                <5>2. g[i] = Link(f[k], i, s[i], k) /\ g[i - 1] = f[k]
                    BY <3>2, <4>3, <5>1
                <5> QED
                    BY <5>1, <5>2, Zenon
            <4> QED
                BY <4>1, <4>2, <4>3
        <3>4. Fills(g, s, k + 1)
            <4>1. g = [i \in 0..(k + 1) |-> g[i]]
                BY <3>2
            <4>2. PICK h : h = [i \in 0..(k + 1) |-> IF i = 0 THEN list_init
                                                    ELSE Link(g[i - 1], i, s[i], i - 1)]
                OBVIOUS
            <4>3. \A i \in 0..(k + 1) : h[i] = g[i]
                BY <3>3, <4>2, Zenon
            <4>4. h = [i \in 0..(k + 1) |-> h[i]]
                BY <4>2
            <4>5. h = g
                BY <4>1, <4>3, <4>4
            <4> QED
                BY <4>2, <4>5, Zenon DEF Fills
        <3> QED
            BY <3>4
    <2> HIDE DEF T
    <2>3. Nat \subseteq T
        BY <2>1, <2>2, Induction, Zenon
    <2> QED
        BY <2>3 DEF T
<1>3. PICK f : f = CHOOSE h : Fills(h, s, n)
    OBVIOUS
<1>4. Fills(f, s, n)
    BY <1>2, <1>3, Zenon
<1>5. f[0] = list_init /\ \A i \in 1..n : f[i] = Link(f[i - 1], i, s[i], i - 1)
    <2>1. PICK g : g = [i \in 0..n |-> IF i = 0 THEN list_init ELSE Link(f[i - 1], i, s[i], i - 1)]
        OBVIOUS
    <2>2. g[0] = list_init /\ \A i \in 1..n : g[i] = Link(f[i - 1], i, s[i], i - 1)
        BY <2>1
    <2>3. f = g
        BY <1>4, <2>1, Zenon DEF Fills
    <2> QED
        BY <2>2, <2>3, Zenon
<1>6. FilledSoFar(f[0], s, 0)
    <2>1. PICK c : /\ c = [i \in 0..1 |-> c[i]] /\ c[0] = HEAD /\ c[1] = TAIL
                   /\ Sound(list_init, c)
        BY EmptyConsistent
    <2>2. c = Fresh(0)
        <3>1. \A i \in 0..1 : c[i] = IF i <= 0 THEN i ELSE TAIL
            BY <2>1 DEF HEAD
        <3>2. Fresh(0) = [i \in 0..1 |-> IF i <= 0 THEN i ELSE TAIL]
            BY DEF Fresh
        <3>3. PICK g : g = [i \in 0..1 |-> IF i <= 0 THEN i ELSE TAIL]
            OBVIOUS
        <3>4. g = [i \in 0..1 |-> g[i]] /\ \A i \in 0..1 : g[i] = c[i]
            BY <3>1, <3>3
        <3>5. g = c
            BY <2>1, <3>4
        <3> QED
            BY <3>2, <3>3, <3>5, Zenon
    <2>3. list_init.numels = 0
        BY EmptyConsistent
    <2>4. \A j \in 1..0 : Elements(list_init)[j] = s[j]
        OBVIOUS
    <2> QED
        BY <1>5, <2>1, <2>2, <2>3, <2>4, Zenon DEF FilledSoFar
<1>7. \A i \in Nat : i <= n => FilledSoFar(f[i], s, i)
    <2> DEFINE T == {i \in Nat : i <= n => FilledSoFar(f[i], s, i)}
    <2>1. 0 \in T
        BY <1>6, Zenon
    <2>2. ASSUME NEW i \in Nat, i \in T PROVE i + 1 \in T
        <3> SUFFICES ASSUME i + 1 <= n PROVE FilledSoFar(f[i + 1], s, i + 1)
            OBVIOUS
        <3>1. i <= n /\ i \in 0..(Len(s) - 1) /\ i + 1 \in 1..n /\ (i + 1) - 1 = i
            BY <1>1
        <3>2. FilledSoFar(f[i], s, i)
            BY <2>2, <3>1, Zenon
        <3>3. FilledSoFar(Link(f[i], i + 1, s[i + 1], i), s, i + 1)
            BY <3>1, <3>2, LinkFills, Zenon
        <3>4. f[i + 1] = Link(f[i], i + 1, s[i + 1], i)
            BY <1>5, <3>1
        <3> QED
            BY <3>3, <3>4, Zenon
    <2> HIDE DEF T
    <2>3. Nat \subseteq T
        BY <2>1, <2>2, Induction, Zenon
    <2> QED
        BY <2>3 DEF T
<1>8. n <= n
    OBVIOUS
<1>9. Filled(s) = f[Len(s)]
    BY <1>1, <1>3, Zenon DEF Filled, Fills
<1> QED
    BY <1>1, <1>7, <1>8, <1>9, Zenon

\* The middle of the concatenation, counted from the end of the first list.
LEMMA ConcatMiddle ==
    ASSUME NEW next, NEW prev, NEW c, NEW n1 \in Nat, NEW n2 \in Nat, n1 + n2 # 0,
           Chained(next, prev, c, n1 + n2)
    PROVE  LET mid == Follow(next, HEAD, n1)
               err == n2 - n1
           IN (IF Half(err + 1) > 0 THEN Follow(next, mid, Half(err + 1))
               ELSE IF Half(err) < 0 THEN Follow(prev, mid, Half(-err))
               ELSE mid) = c[MidPosition(n1 + n2) + 1]
<1>1. PICK n \in Nat \ {0} : n = n1 + n2
    OBVIOUS
<1>2. PICK m \in Nat : m = MidPosition(n) /\ 2 * m <= n - 1 /\ n - 1 <= 2 * m + 1
    BY MiddlePlace
<1>3. Chained(next, prev, c, n)
    BY <1>1, Zenon
<1>4. Follow(next, HEAD, n1) = c[n1]
    <2>1. 0 \in 0..(n + 1) /\ 0 + n1 = n1 /\ n1 <= n + 1
        BY <1>1
    <2>2. Follow(next, c[0], n1) = c[n1]
        BY <1>3, <2>1, FollowNext
    <2>3. c[0] = HEAD
        BY <1>3, Zenon DEF Chained
    <2> QED
        BY <2>2, <2>3
<1>5. PICK err \in Int : err = n2 - n1
    OBVIOUS
<1>6. CASE err > 0
    <2>1. PICK k \in Nat : k = Half(err + 1)
        BY <1>6 DEF Half
    <2>2. k > 0 /\ n1 + k = m + 1
        <3>1. k = (err + 1) \div 2
            BY <1>6, <2>1 DEF Half
        <3> QED
            BY <3>1, <1>1, <1>2, <1>5, <1>6
    <2>3. n1 \in 0..(n + 1) /\ n1 + k <= n + 1
        BY <2>2, <1>1, <1>2
    <2>4. Follow(next, c[n1], k) = c[n1 + k]
        BY <1>3, <2>3, FollowNext
    <2> QED
        BY <1>1, <1>2, <1>4, <1>5, <2>1, <2>2, <2>4
<1>7. CASE err < -1
    <2>1. PICK k \in Nat : k = -err /\ k > 1
        BY <1>7
    <2>2. ~(Half(err + 1) > 0) /\ Half(err) < 0 /\ Half(-err) = k \div 2
        <3>1. err + 1 < 0 /\ ~(err >= 0) /\ -(err + 1) = k - 1
            BY <1>7, <2>1
        <3>2. Half(err + 1) = -((k - 1) \div 2)
            BY <3>1 DEF Half
        <3>3. Half(err) = -(k \div 2)
            BY <3>1, <2>1 DEF Half
        <3>4. Half(k) = k \div 2
            BY DEF Half
        <3> QED
            BY <3>2, <3>3, <3>4, <2>1
    <2>3. PICK j \in Nat : j = k \div 2
        OBVIOUS
    <2>4. n1 \in 0..(n + 1) /\ j <= n1 /\ n1 - j = m + 1
        <3>1. 2 * j <= k /\ k <= 2 * j + 1
            BY <2>3
        <3>2. k = n1 - n2 /\ n2 \in Nat /\ n = n1 + n2
            BY <2>1, <1>1, <1>5
        <3>3. k <= n1 /\ j <= k
            BY <3>1, <3>2
        <3>4. 2 * (n1 - j) <= 2 * m + 3 /\ 2 * m + 1 <= 2 * (n1 - j)
            BY <3>1, <3>2, <1>2
        <3> QED
            BY <3>3, <3>4, <1>1
    <2>5. Follow(prev, c[n1], j) = c[n1 - j]
        BY <1>3, <2>4, FollowPrev
    <2> QED
        BY <1>1, <1>2, <1>4, <1>5, <2>2, <2>3, <2>4, <2>5
<1>8. CASE err \in {-1, 0}
    <2>1. ~(Half(err + 1) > 0) /\ ~(Half(err) < 0)
        BY <1>8 DEF Half
    <2>2. n1 = m + 1
        BY <1>1, <1>2, <1>5, <1>8
    <2> QED
        BY <1>1, <1>2, <1>4, <1>5, <2>1, <2>2
<1> QED
    BY <1>5, <1>6, <1>7, <1>8

\* The concatenation is a consistent list of the elements of both.
LEMMA ConcatIs ==
    ASSUME NEW l1, NEW c1, Sound(l1, c1), NEW l2, NEW c2, Sound(l2, c2),
           l1.numels + l2.numels <= MaxLength,
           NEW y, y = list_concat(l1, l2)
    PROVE  /\ Consistent(y, DOMAIN y.next \ {HEAD, TAIL}, Places(y))
           /\ Elements(y) = Elements(l1) \o Elements(l2)
           /\ y.iter_active = FALSE
<1>1. PICK n1 \in Nat : n1 = l1.numels
    BY Zenon DEF Sound
<1>2. PICK n2 \in Nat : n2 = l2.numels
    BY Zenon DEF Sound
<1>3. PICK s1 : s1 = Elements(l1)
    OBVIOUS
<1>4. PICK s2 : s2 = Elements(l2)
    OBVIOUS
<1>5. s1 \in Seq(Data) /\ Len(s1) = n1 /\ s2 \in Seq(Data) /\ Len(s2) = n2
    BY <1>1, <1>2, <1>3, <1>4, ElementsAt
<1>6. PICK s : s = s1 \o s2
    OBVIOUS
<1>7. PICK n \in Nat : n = n1 + n2
    OBVIOUS
<1>8. s \in Seq(Data) /\ Len(s) = n
    <2>2. s1 \in Seq(Data) /\ s2 \in Seq(Data)
        BY <1>5
    <2>1. s \in Seq(Data) /\ Len(s) = Len(s1) + Len(s2)
        BY <2>2, <1>6
    <2> QED
        BY <2>1, <1>5, <1>7
<1>9. CASE n = 0
    <2>1. y = list_init
        BY <1>1, <1>2, <1>7, <1>9 DEF list_concat
    <2>2. /\ Consistent(list_init, {}, Places(list_init))
          /\ Elements(list_init) = <<>> /\ list_init.iter_active = FALSE
        BY EmptyConsistent
    <2>3. DOMAIN list_init.next \ {HEAD, TAIL} = {}
        BY DEF list_init
    <2>4. s = <<>>
        BY <1>8, <1>9
    <2> QED
        BY <1>3, <1>4, <1>6, <2>1, <2>2, <2>3, <2>4, Zenon
<1>10. CASE n # 0
    <2>1. PICK x : x = Copied(s)
        OBVIOUS
    <2>2. CopiedSoFar(x, s, n)
        BY <1>8, <2>1, CopiedIs, Zenon
    <2>3. PICK c : c = Fresh(n)
        OBVIOUS
    <2>4. /\ IsList(x) /\ x.numels = 0 /\ x.spareels = <<>>
          /\ x.iter_active = FALSE /\ x.comparator = FALSE
          /\ Chained(x.next, x.prev, c, n)
          /\ Holds(x.data, c, n)
          /\ \A j \in 1..n : x.data[j] = s[j]
        BY <2>2, <2>3, Zenon DEF CopiedSoFar
    <2>5. PICK mid : mid = c[MidPosition(n) + 1]
        OBVIOUS
    <2>6. y = [x EXCEPT !.numels = n, !.mid = mid]
        <3>1. PICK next : next = x.next
            OBVIOUS
        <3>2. PICK prev : prev = x.prev
            OBVIOUS
        <3>3. Chained(next, prev, c, n1 + n2) /\ n1 + n2 # 0
            BY <1>7, <1>10, <2>4, <3>1, <3>2, Zenon
        <3>4. LET m == Follow(next, HEAD, n1)
                  err == n2 - n1
              IN (IF Half(err + 1) > 0 THEN Follow(next, m, Half(err + 1))
                  ELSE IF Half(err) < 0 THEN Follow(prev, m, Half(-err))
                  ELSE m) = c[MidPosition(n1 + n2) + 1]
            BY <3>3, ConcatMiddle
        <3> QED
            BY <1>1, <1>2, <1>3, <1>4, <1>6, <1>7, <1>10, <2>1, <2>5, <3>1, <3>2, <3>4
                DEF list_concat
    <2>7. /\ IsList(y) /\ y.numels = n /\ y.mid = mid /\ y.next = x.next /\ y.prev = x.prev
          /\ y.data = x.data /\ y.spareels = <<>>
          /\ y.iter_active = FALSE /\ y.comparator = FALSE
        BY <2>4, <2>6 DEF IsList
    <2>8. /\ \A j \in 0..n : c[j] = j
          /\ c[n + 1] = TAIL /\ DOMAIN c = 0..(n + 1)
          /\ c = [i \in 0..(n + 1) |-> c[i]]
          /\ Entries(c, n) = 1..n
        BY <2>3, FreshIs
    <2>9. IsMiddle(mid, c, n)
        BY <1>10, <2>5 DEF IsMiddle
    <2>10. Sound(y, c)
        BY <2>4, <2>7, <2>8, <2>9 DEF Sound
    <2>11. DOMAIN y.next \ {HEAD, TAIL} = 1..n
        <3>1. DOMAIN y.next = {c[i] : i \in 0..(n + 1)}
            BY <2>4, <2>7, Zenon DEF Chained
        <3>2. ASSUME NEW i \in 0..(n + 1) PROVE c[i] \in {HEAD, TAIL} \/ c[i] \in 1..n
            <4>1. i = 0 \/ i = n + 1 \/ i \in 1..n
                OBVIOUS
            <4>2. c[0] = HEAD /\ c[n + 1] = TAIL
                BY <2>4, Zenon DEF Chained
            <4>3. CASE i \in 1..n
                <5>1. i \in 0..n
                    BY <4>3
                <5>2. c[i] = i
                    BY <5>1, <2>8
                <5> QED
                    BY <5>2, <4>3
            <4> QED
                BY <4>1, <4>2, <4>3
        <3>3. ASSUME NEW j \in 1..n PROVE j \in {c[i] : i \in 0..(n + 1)} /\ j \notin {HEAD, TAIL}
            <4>1. j \in 0..(n + 1) /\ j \in 0..n
                OBVIOUS
            <4>2. c[j] = j
                BY <4>1, <2>8
            <4>3. j \in {c[i] : i \in 0..(n + 1)}
                BY <4>1, <4>2, Zenon
            <4> QED
                BY <4>3 DEF HEAD, TAIL
        <3> QED
            BY <3>1, <3>2, <3>3
    <2>12. Spares(y.spareels, c, n)
        <3>1. SIMCLIST_MAX_SPARE_ELEMS \in Nat
            BY SimListAssumption
        <3>2. <<>> \in Seq(Addresses) /\ Len(<<>>) = 0 /\ Range(<<>>) = {}
            BY DEF Range
        <3>3. \A i \in 1..0 : FALSE
            OBVIOUS
        <3> QED
            BY <3>1, <3>2, <3>3, <2>7 DEF Spares
    <2>13. DOMAIN y.next \ {HEAD, TAIL} = Entries(c, n) \cup Range(y.spareels)
        <3>1. Range(<<>>) = {}
            BY DEF Range
        <3> QED
            BY <3>1, <2>7, <2>8, <2>11
    <2>14. y.iter_active \in BOOLEAN /\ y.comparator \in BOOLEAN
        BY <2>7, Zenon
    <2>15. Iterator(y, c)
        BY <2>7 DEF Iterator
    <2>16. y.numels <= MaxLength
        BY <1>1, <1>2, <1>7, <2>7
    <2>17. Consistent(y, DOMAIN y.next \ {HEAD, TAIL}, c)
        BY <2>7, <2>10, <2>12, <2>13, <2>14, <2>15, <2>16, Zenon DEF Consistent
    <2>18. Elements(y) = s
        <3>1. Elements(y) \in Seq(Data) /\ Len(Elements(y)) = n /\ Elements(y) = At(y.data, c, n)
            BY <2>7, <2>10, ElementsAt
        <3>2. PICK t : t = Elements(y)
            OBVIOUS
        <3>3. \A j \in 1..n : t[j] = s[j]
            <4>1. t = [j \in 1..n |-> x.data[c[j]]]
                BY <3>1, <3>2, <2>7, Zenon DEF At
            <4>2. \A j \in 1..n : c[j] = j
                <5>1. \A j \in 1..n : j \in 0..n
                    OBVIOUS
                <5> QED
                    BY <5>1, <2>8
            <4> QED
                BY <4>1, <4>2, <2>4
        <3>4. t \in Seq(Data) /\ Len(t) = n
            BY <3>1, <3>2, Zenon
        <3>5. t = s
            BY <3>3, <3>4, <1>8
        <3> QED
            BY <3>2, <3>5, Zenon
    <2>19. Consistent(y, DOMAIN y.next \ {HEAD, TAIL}, Places(y))
        BY <2>17, PlacesFound, Zenon
    <2> QED
        BY <1>3, <1>4, <1>6, <2>7, <2>18, <2>19, Zenon
<1> QED
    BY <1>9, <1>10

--------------------------------------------------------------------------------
(* Sorting.                                                                  *)

\* q puts the n elements of s in order, r puts them back.
Sorts(q, r, s, n) ==
    /\ q \in [1..n -> 1..n] /\ r \in [1..n -> 1..n]
    /\ \A i \in 1..n : r[q[i]] = i /\ q[r[i]] = i
    /\ \A i, j \in 1..n : i < j => s[q[i]] <= s[q[j]]

\* Finitely many numbers have a greatest one.
LEMMA Greatest ==
    ASSUME NEW n \in Nat, NEW s, \A i \in 1..(n + 1) : s[i] \in Nat
    PROVE  \E m \in 1..(n + 1) : \A i \in 1..(n + 1) : s[i] <= s[m]
<1> DEFINE T == {k \in Nat : k <= n => \E m \in 1..(k + 1) : \A i \in 1..(k + 1) : s[i] <= s[m]}
<1>1. 0 \in T
    OBVIOUS
<1>2. ASSUME NEW k \in Nat, k \in T PROVE k + 1 \in T
    <2> SUFFICES ASSUME k + 1 <= n
                 PROVE  \E m \in 1..((k + 1) + 1) : \A i \in 1..((k + 1) + 1) : s[i] <= s[m]
        OBVIOUS
    <2>1. PICK m \in 1..(k + 1) : \A i \in 1..(k + 1) : s[i] <= s[m]
        BY <1>2
    <2>2. /\ \A i \in 1..((k + 1) + 1) : i \in 1..(k + 1) \/ i = k + 2
          /\ m \in 1..((k + 1) + 1) /\ k + 2 \in 1..((k + 1) + 1)
          /\ \A i \in 1..(k + 2) : i \in 1..(n + 1)
        OBVIOUS
    <2>3. s[m] \in Nat /\ s[k + 2] \in Nat /\ \A i \in 1..(k + 1) : s[i] \in Nat
        BY <2>2
    <2>4. CASE s[k + 2] <= s[m]
        BY <2>1, <2>2, <2>4
    <2>5. CASE s[m] <= s[k + 2]
        <3>1. \A i \in 1..(k + 1) : s[i] <= s[k + 2]
            BY <2>1, <2>3, <2>5
        <3>2. s[k + 2] <= s[k + 2]
            BY <2>3
        <3> QED
            BY <2>2, <3>1, <3>2
    <2> QED
        BY <2>3, <2>4, <2>5
<1> HIDE DEF T
<1>3. Nat \subseteq T
    BY <1>1, <1>2, Induction, Zenon
<1>4. n \in T /\ n <= n
    BY <1>3
<1> QED
    BY <1>4 DEF T

\* The greatest element goes last, the last one where it was.
LEMMA SortsOneMore ==
    ASSUME NEW n \in Nat, NEW s \in [1..(n + 1) -> Nat],
           NEW m \in 1..(n + 1), \A i \in 1..(n + 1) : s[i] <= s[m],
           NEW u, u = [i \in 1..n |-> s[IF i = m THEN n + 1 ELSE i]],
           NEW q, NEW r, Sorts(q, r, u, n)
    PROVE  \E q2, r2 : Sorts(q2, r2, s, n + 1)
<1>1. /\ q \in [1..n -> 1..n] /\ r \in [1..n -> 1..n]
      /\ \A i \in 1..n : r[q[i]] = i /\ q[r[i]] = i
      /\ \A i, j \in 1..n : i < j => u[q[i]] <= u[q[j]]
    BY Zenon DEF Sorts
<1>2. PICK q2 : q2 = [i \in 1..(n + 1) |-> IF i = n + 1 THEN m
                                           ELSE IF q[i] = m THEN n + 1 ELSE q[i]]
    OBVIOUS
<1>3. PICK r2 : r2 = [i \in 1..(n + 1) |-> IF i = m THEN n + 1
                                           ELSE IF i = n + 1 THEN r[m] ELSE r[i]]
    OBVIOUS
<1>4. \A i \in 1..(n + 1) : i \in 1..n \/ i = n + 1
    OBVIOUS
<1>5. \A i \in 1..n : i \in 1..(n + 1) /\ i # n + 1
    OBVIOUS
<1>6. \A i \in 1..n : q[i] \in 1..n /\ r[i] \in 1..n
    BY <1>1
<1>7. n + 1 \in 1..(n + 1)
    OBVIOUS
<1>8. q2 \in [1..(n + 1) -> 1..(n + 1)]
    <2>1. \A i \in 1..(n + 1) :
              (IF i = n + 1 THEN m ELSE IF q[i] = m THEN n + 1 ELSE q[i]) \in 1..(n + 1)
        BY <1>4, <1>5, <1>6, <1>7
    <2> QED
        BY <2>1, <1>2
<1>9. r2 \in [1..(n + 1) -> 1..(n + 1)]
    <2>1. ASSUME NEW i \in 1..(n + 1)
          PROVE  (IF i = m THEN n + 1 ELSE IF i = n + 1 THEN r[m] ELSE r[i]) \in 1..(n + 1)
        <3>1. CASE i = m
            BY <3>1, <1>7
        <3>2. CASE i # m /\ i = n + 1
            <4>1. m \in 1..n
                BY <3>2
            <4> QED
                BY <3>2, <4>1, <1>5, <1>6
        <3>3. CASE i # m /\ i # n + 1
            BY <3>3, <1>4, <1>5, <1>6
        <3> QED
            BY <3>1, <3>2, <3>3
    <2> QED
        BY <2>1, <1>3
<1>10. ASSUME NEW i \in 1..(n + 1) PROVE r2[q2[i]] = i
    <2>1. CASE i = n + 1
        <3>1. q2[i] = m /\ r2[m] = n + 1
            BY <2>1, <1>2, <1>3
        <3> QED
            BY <2>1, <3>1
    <2>2. CASE i \in 1..n /\ q[i] = m
        <3>1. q2[i] = n + 1 /\ m \in 1..n /\ r[m] = i
            BY <2>2, <1>1, <1>2, <1>5, <1>6
        <3>2. r2[n + 1] = r[m]
            BY <3>1, <1>3, <1>5, <1>7
        <3> QED
            BY <3>1, <3>2
    <2>3. CASE i \in 1..n /\ q[i] # m
        <3>1. q2[i] = q[i] /\ q[i] \in 1..n /\ r[q[i]] = i
            BY <2>3, <1>1, <1>2, <1>5, <1>6
        <3>2. r2[q[i]] = r[q[i]]
            BY <2>3, <3>1, <1>3, <1>5
        <3> QED
            BY <3>1, <3>2
    <2> QED
        BY <1>4, <2>1, <2>2, <2>3
<1>11. ASSUME NEW i \in 1..(n + 1) PROVE q2[r2[i]] = i
    <2>1. CASE i = m
        <3>1. r2[i] = n + 1 /\ q2[n + 1] = m
            BY <2>1, <1>2, <1>3, <1>7
        <3> QED
            BY <2>1, <3>1
    <2>2. CASE i # m /\ i = n + 1
        <3>1. m \in 1..n
            BY <2>2
        <3>2. r2[i] = r[m] /\ r[m] \in 1..n /\ q[r[m]] = m
            BY <2>2, <3>1, <1>1, <1>3, <1>6
        <3>3. q2[r[m]] = n + 1
            BY <3>2, <1>2, <1>5
        <3> QED
            BY <2>2, <3>2, <3>3
    <2>3. CASE i # m /\ i # n + 1
        <3>1. i \in 1..n
            BY <2>3, <1>4
        <3>2. r2[i] = r[i] /\ r[i] \in 1..n /\ q[r[i]] = i
            BY <2>3, <3>1, <1>1, <1>3, <1>6
        <3>3. q2[r[i]] = i
            BY <2>3, <3>2, <1>2, <1>5
        <3> QED
            BY <3>2, <3>3
    <2> QED
        BY <2>1, <2>2, <2>3
<1>12. ASSUME NEW i \in 1..n PROVE s[q2[i]] = u[q[i]]
    <2>1. q[i] \in 1..n /\ q2[i] = IF q[i] = m THEN n + 1 ELSE q[i]
        BY <1>2, <1>5, <1>6
    <2>2. u[q[i]] = s[IF q[i] = m THEN n + 1 ELSE q[i]]
        BY <2>1
    <2> QED
        BY <2>1, <2>2
<1>13. ASSUME NEW i \in 1..(n + 1), NEW j \in 1..(n + 1), i < j PROVE s[q2[i]] <= s[q2[j]]
    <2>1. CASE j = n + 1
        <3>1. q2[j] = m /\ q2[i] \in 1..(n + 1)
            BY <2>1, <1>2, <1>8
        <3> QED
            BY <3>1
    <2>2. CASE j # n + 1
        <3>1. i \in 1..n /\ j \in 1..n
            BY <2>2, <1>13
        <3> QED
            BY <3>1, <1>1, <1>12, <1>13
    <2> QED
        BY <2>1, <2>2
<1>14. Sorts(q2, r2, s, n + 1)
    BY <1>8, <1>9, <1>10, <1>11, <1>13, Zenon DEF Sorts
<1> QED
    BY <1>14

\* Every sequence can be put in order.
LEMMA Sortable ==
    ASSUME NEW n \in Nat, NEW s \in [1..n -> Nat]
    PROVE  \E q, r : Sorts(q, r, s, n)
<1> DEFINE T == {k \in Nat : \A t \in [1..k -> Nat] : \E q, r : Sorts(q, r, t, k)}
<1>1. 0 \in T
    <2> SUFFICES ASSUME NEW t \in [1..0 -> Nat] PROVE \E q, r : Sorts(q, r, t, 0)
        OBVIOUS
    <2>1. PICK q : q = [i \in 1..0 |-> i]
        OBVIOUS
    <2>2. Sorts(q, q, t, 0)
        BY <2>1 DEF Sorts
    <2> QED
        BY <2>2
<1>2. ASSUME NEW k \in Nat, k \in T PROVE k + 1 \in T
    <2> SUFFICES ASSUME NEW t \in [1..(k + 1) -> Nat] PROVE \E q, r : Sorts(q, r, t, k + 1)
        OBVIOUS
    <2>1. \A i \in 1..(k + 1) : t[i] \in Nat
        OBVIOUS
    <2>2. PICK m \in 1..(k + 1) : \A i \in 1..(k + 1) : t[i] <= t[m]
        BY <2>1, Greatest
    <2>3. PICK u : u = [i \in 1..k |-> t[IF i = m THEN k + 1 ELSE i]]
        OBVIOUS
    <2>4. u \in [1..k -> Nat]
        <3>1. \A i \in 1..k : (IF i = m THEN k + 1 ELSE i) \in 1..(k + 1)
            OBVIOUS
        <3>2. \A i \in 1..k : t[IF i = m THEN k + 1 ELSE i] \in Nat
            BY <2>1, <3>1
        <3> QED
            BY <2>3, <3>2
    <2>5. PICK q, r : Sorts(q, r, u, k)
        BY <1>2, <2>4
    <2> QED
        BY <2>2, <2>3, <2>5, SortsOneMore
<1> HIDE DEF T
<1>3. Nat \subseteq T
    BY <1>1, <1>2, Induction, Zenon
<1> QED
    BY <1>3 DEF T

\* A sequence that was put in order has the same elements as often.
LEMMA SameBag ==
    ASSUME NEW n \in Nat, NEW s, DOMAIN s = 1..n, NEW q, NEW r, Sorts(q, r, s, n),
           NEW t, t = [i \in 1..n |-> s[q[i]]]
    PROVE  ToBag(t) = ToBag(s) /\ Range(t) = Range(s)
<1>1. /\ q \in [1..n -> 1..n] /\ r \in [1..n -> 1..n]
      /\ \A i \in 1..n : r[q[i]] = i /\ q[r[i]] = i
    BY Zenon DEF Sorts
<1>2. DOMAIN t = 1..n /\ \A i \in 1..n : t[i] = s[q[i]]
    OBVIOUS
<1>3. \A i \in 1..n : q[i] \in 1..n /\ r[i] \in 1..n
    BY <1>1
<1>4. \A i \in 1..n : s[i] = t[r[i]]
    BY <1>1, <1>2, <1>3
<1>5. Range(t) = Range(s)
    BY <1>2, <1>3, <1>4 DEF Range
<1>6. ASSUME NEW v
      PROVE  Cardinality({i \in DOMAIN t : t[i] = v}) = Cardinality({i \in DOMAIN s : s[i] = v})
    <2>1. PICK A : A = {i \in 1..n : t[i] = v}
        OBVIOUS
    <2>2. PICK B : B = {i \in 1..n : s[i] = v}
        OBVIOUS
    <2>3. PICK f : f = [i \in A |-> q[i]]
        OBVIOUS
    <2>4. f \in [A -> B] /\ \A i \in A : f[i] = q[i] /\ i \in 1..n
        BY <2>1, <2>2, <2>3, <1>2, <1>3
    <2>5. \A i, j \in A : f[i] = f[j] => i = j
        <3> SUFFICES ASSUME NEW i \in A, NEW j \in A, f[i] = f[j] PROVE i = j
            OBVIOUS
        <3>1. q[i] = q[j] /\ i \in 1..n /\ j \in 1..n
            BY <2>4
        <3>2. r[q[i]] = r[q[j]]
            BY <3>1
        <3> QED
            BY <3>1, <3>2, <1>1
    <2>6. ASSUME NEW j \in B PROVE \E i \in A : f[i] = j
        <3>1. j \in 1..n /\ s[j] = v /\ r[j] \in 1..n /\ t[r[j]] = v /\ q[r[j]] = j
            BY <2>2, <1>1, <1>3, <1>4
        <3>2. r[j] \in A
            BY <3>1, <2>1
        <3> QED
            BY <3>1, <3>2, <2>4
    <2>7. ExistsBijection(A, B)
        <3>1. f \in Bijection(A, B)
            <4>1. DOMAIN f = A
                BY <2>3
            <4> QED
                BY <4>1, <2>4, <2>5, <2>6 DEF Bijection, Injection, Surjection, IsInjective
        <3> QED
            BY <3>1, Zenon DEF ExistsBijection
    <2>8. IsFiniteSet(A)
        <3>1. IsFiniteSet(1..n)
            BY FS_Interval
        <3>2. A \in SUBSET (1..n)
            BY <2>1
        <3> QED
            BY <3>1, <3>2, FS_Subset, Zenon
    <2>9. Cardinality(B) = Cardinality(A)
        BY <2>7, <2>8, FS_Bijection, Zenon
    <2> QED
        BY <2>1, <2>2, <2>9, <1>2
<1>7. ToBag(t) = ToBag(s)
    BY <1>5, <1>6 DEF ToBag
<1> QED
    BY <1>5, <1>7

\* Ascending is what list_sort leaves.
LEMMA AscendingIs ==
    ASSUME NEW s \in Seq(Data)
    PROVE  /\ Ascending(s) \in [DOMAIN s -> Range(s)]
           /\ ToBag(Ascending(s)) = ToBag(s)
           /\ \A i, j \in DOMAIN s : i < j => Ascending(s)[i] <= Ascending(s)[j]
<1>1. PICK n \in Nat : n = Len(s) /\ DOMAIN s = 1..n
    OBVIOUS
<1>2. s \in [1..n -> Nat]
    <2>1. \A i \in 1..n : s[i] \in Data
        BY <1>1
    <2>2. Data \subseteq Nat
        BY SimListAssumption
    <2>3. s = [i \in 1..n |-> s[i]]
        BY <1>1
    <2> QED
        BY <2>1, <2>2, <2>3
<1>3. PICK q, r : Sorts(q, r, s, n)
    BY <1>2, Sortable
<1>4. PICK t : t = [i \in 1..n |-> s[q[i]]]
    OBVIOUS
<1>5. ToBag(t) = ToBag(s) /\ Range(t) = Range(s)
    BY <1>1, <1>3, <1>4, SameBag
<1>6. t \in [DOMAIN s -> Range(s)]
    <2>1. \A i \in 1..n : t[i] \in Range(t)
        BY <1>4 DEF Range
    <2> QED
        BY <2>1, <1>1, <1>4, <1>5
<1>7. \A i, j \in DOMAIN s : i < j => t[i] <= t[j]
    <2>1. \A i, j \in 1..n : i < j => s[q[i]] <= s[q[j]]
        BY <1>3, Zenon DEF Sorts
    <2> QED
        BY <2>1, <1>1, <1>4
<1>8. \E w \in [DOMAIN s -> Range(s)] :
          /\ ToBag(w) = ToBag(s)
          /\ \A i, j \in DOMAIN s : i < j => w[i] <= w[j]
    BY <1>5, <1>6, <1>7, Zenon
<1> QED
    BY <1>8, Zenon DEF Ascending

\* The list whose entries have exchanged their elements.
Arranged(x, chain, sorted) ==
    [x EXCEPT !.data = [e \in DOMAIN @ |->
        IF e \in Range(chain) THEN sorted[CHOOSE i \in DOMAIN chain : chain[i] = e] ELSE @[e]]]

\* Exchanging the data of entries keeps the list consistent.
LEMMA SortConsistent ==
    ASSUME NEW x, NEW h, NEW c, Consistent(x, h, c), x.iter_active = FALSE,
           NEW y, y = Arranged(x, Chain(x), Ascending(Elements(x)))
    PROVE  /\ Consistent(y, h, c) /\ Kept(x, y)
           /\ ToBag(Elements(y)) = ToBag(Elements(x))
           /\ \A i, j \in DOMAIN Elements(y) : i < j => Elements(y)[i] <= Elements(y)[j]
<1>1. /\ Sound(x, c) /\ IsList(x) /\ Chained(x.next, x.prev, c, x.numels)
      /\ Holds(x.data, c, x.numels) /\ IsMiddle(x.mid, c, x.numels)
      /\ c = [i \in 0..(x.numels + 1) |-> c[i]]
      /\ x.numels <= MaxLength
      /\ Spares(x.spareels, c, x.numels)
      /\ h = Entries(c, x.numels) \cup Range(x.spareels)
      /\ x.comparator \in BOOLEAN
    BY Zenon DEF Consistent, Sound
<1>2. PICK n \in Nat : n = x.numels
    BY <1>1, Zenon DEF Sound
<1>3. PICK chain : chain = [i \in 1..n |-> c[i]]
    OBVIOUS
<1>4. Chain(x) = chain
    BY <1>1, <1>2, <1>3, ElementsAt
<1>5. PICK s : s = Elements(x)
    OBVIOUS
<1>6. s \in Seq(Data) /\ Len(s) = n /\ DOMAIN s = 1..n
    <2>1. s \in Seq(Data) /\ Len(s) = n
        BY <1>1, <1>2, <1>5, ElementsAt
    <2> QED
        BY <2>1
<1>7. PICK t : t = Ascending(s)
    OBVIOUS
<1>8. /\ t \in [1..n -> Range(s)] /\ ToBag(t) = ToBag(s)
      /\ \A i, j \in 1..n : i < j => t[i] <= t[j]
    <2>1. /\ t \in [DOMAIN s -> Range(s)] /\ ToBag(t) = ToBag(s)
          /\ \A i, j \in DOMAIN s : i < j => t[i] <= t[j]
        BY <1>6, <1>7, AscendingIs, Zenon
    <2> QED
        BY <2>1, <1>6
<1>9. \A i \in 1..n : t[i] \in Data
    <2>1. Range(s) \subseteq Data
        BY <1>6 DEF Range
    <2> QED
        BY <2>1, <1>8
<1>10. PICK data : data = x.data
    OBVIOUS
<1>11. PICK dt : dt = [e \in DOMAIN data |->
           IF e \in Range(chain) THEN t[CHOOSE i \in DOMAIN chain : chain[i] = e] ELSE data[e]]
    OBVIOUS
<1>12. y = [x EXCEPT !.data = dt]
    <2>1. Ascending(Elements(x)) = t
        BY <1>5, <1>7, Zenon
    <2>2. y = Arranged(x, chain, t)
        BY <1>4, <2>1, Zenon
    <2>3. Arranged(x, chain, t) = [x EXCEPT !.data = dt]
        BY <1>10, <1>11 DEF Arranged
    <2> QED
        BY <2>2, <2>3, Zenon
<1>13. /\ IsList(y) /\ y.next = x.next /\ y.prev = x.prev /\ y.data = dt /\ y.mid = x.mid
       /\ y.numels = n /\ y.spareels = x.spareels /\ Kept(x, y)
    BY <1>1, <1>2, <1>12 DEF IsList, Kept
<1>14. /\ \A i \in 1..n : c[i] \in Addresses
       /\ \A i, j \in 1..n : c[i] = c[j] => i = j
    BY <1>1, <1>2, Zenon DEF Chained
<1>15. /\ DOMAIN data = {c[i] : i \in 0..(n + 1)}
       /\ data[HEAD] = NULL /\ data[TAIL] = NULL
    BY <1>1, <1>2, <1>10, Zenon DEF Holds
<1>16. ASSUME NEW i \in 1..n PROVE dt[c[i]] = t[i]
    <2>1. i \in 0..(n + 1)
        OBVIOUS
    <2>2. c[i] \in DOMAIN data
        BY <2>1, <1>15
    <2>3. DOMAIN chain = 1..n /\ \A j \in 1..n : chain[j] = c[j]
        BY <1>3
    <2>4. c[i] \in Range(chain)
        BY <2>3 DEF Range
    <2>5. (CHOOSE j \in DOMAIN chain : chain[j] = c[i]) = i
        <3>1. PICK k : k = CHOOSE j \in DOMAIN chain : chain[j] = c[i]
            OBVIOUS
        <3>2. \E j \in DOMAIN chain : chain[j] = c[i]
            BY <2>3
        <3>3. k \in DOMAIN chain /\ chain[k] = c[i]
            BY <3>1, <3>2, Zenon
        <3>4. k \in 1..n /\ c[k] = c[i]
            BY <3>3, <2>3
        <3>5. k = i
            BY <3>4, <1>14
        <3> QED
            BY <3>1, <3>5, Zenon
    <2>6. dt[c[i]] = t[CHOOSE j \in DOMAIN chain : chain[j] = c[i]]
        BY <2>2, <2>4, <1>11, Zenon
    <2> QED
        BY <2>5, <2>6, Zenon
<1>17. dt[HEAD] = NULL /\ dt[TAIL] = NULL
    <2>1. HEAD \in DOMAIN data /\ TAIL \in DOMAIN data
        <3>1. c[0] = HEAD /\ c[n + 1] = TAIL
            BY <1>1, <1>2, Zenon DEF Chained
        <3>2. 0 \in 0..(n + 1) /\ n + 1 \in 0..(n + 1)
            OBVIOUS
        <3> QED
            BY <3>1, <3>2, <1>15
    <2>2. HEAD \notin Range(chain) /\ TAIL \notin Range(chain)
        <3>1. Range(chain) \subseteq Addresses
            BY <1>3, <1>14 DEF Range
        <3> QED
            BY <3>1 DEF Addresses, HEAD, TAIL
    <2> QED
        BY <2>1, <2>2, <1>11, <1>15
<1>18. Holds(dt, c, n)
    <2>1. DOMAIN dt = {c[i] : i \in 0..(n + 1)}
        BY <1>11, <1>15
    <2>2. \A i \in 1..n : dt[c[i]] \in Data
        BY <1>9, <1>16
    <2> QED
        BY <2>1, <2>2, <1>17, Zenon DEF Holds
<1>19. Sound(y, c)
    <2>1. c = [i \in 0..(y.numels + 1) |-> c[i]]
        BY <1>1, <1>2, <1>13
    <2>2. Chained(y.next, y.prev, c, y.numels) /\ IsMiddle(y.mid, c, y.numels)
        BY <1>1, <1>2, <1>13, Zenon
    <2>3. Holds(y.data, c, y.numels)
        BY <1>13, <1>18, Zenon
    <2>4. y.numels \in Nat
        BY <1>13
    <2> QED
        BY <2>1, <2>2, <2>3, <2>4, <1>13 DEF Sound
<1>20. y.iter_active = FALSE /\ y.comparator \in BOOLEAN
    BY <1>1, <1>13, Zenon DEF Kept
<1>21. Iterator(y, c)
    BY <1>20 DEF Iterator
<1>22. Consistent(y, h, c)
    <2>1. Spares(y.spareels, c, y.numels) /\ y.numels <= MaxLength
          /\ h = Entries(c, y.numels) \cup Range(y.spareels)
        BY <1>1, <1>2, <1>13, Zenon
    <2>2. y.iter_active \in BOOLEAN
        BY <1>20, Zenon
    <2> QED
        BY <2>1, <2>2, <1>19, <1>20, <1>21, Zenon DEF Consistent
<1>23. Elements(y) = t
    <2>1. Elements(y) = [i \in 1..n |-> dt[c[i]]]
        BY <1>13, <1>19, ElementsAt DEF At
    <2>2. t = [i \in 1..n |-> t[i]]
        BY <1>8
    <2> QED
        BY <2>1, <2>2, <1>16
<1>24. DOMAIN t = 1..n
    BY <1>8
<1> QED
    BY <1>5, <1>8, <1>13, <1>22, <1>23, <1>24

--------------------------------------------------------------------------------
(* The calls: each keeps the invariant, and is one of AbstractList's or none. *)

\* x is the list and c its places.
LEMMA ListNow ==
    ASSUME IInv
    PROVE  \E x, h, c : x = l /\ h = heap /\ Consistent(x, h, c)
BY DEF IInv

\* The invariant holds of the next state if that state has places.
LEMMA Keeps ==
    ASSUME NEW y, y = l', NEW g, g = heap', NEW c, Consistent(y, g, c)
    PROVE  IInv'
<1>1. Consistent(y, g, Places(y))
    BY PlacesFound, Zenon
<1> QED
    BY <1>1 DEF IInv

\* What ImplementsList allows a step to do.
ListStep ==
    \/ (List!Next \/ ReturnsNoCount) /\ crashed' = crashed
    \/ FollowsNull

\* Removals that return 0: of one element as promised, of several without their number.
LEMMA RemovalStep ==
    ASSUME NEW a \in DOMAIN Elements(l), NEW b \in DOMAIN Elements(l), a <= b,
           List!Removal(a, b), ret' = 0
    PROVE  List!Next \/ ReturnsNoCount
<1>1. a < b \/ a = b
    <2>1. DOMAIN Elements(l) = 1..l.numels
        BY DEF Elements
    <2> QED
        BY <2>1
<1>2. CASE a < b
    BY <1>2, Zenon DEF ReturnsNoCount
<1>3. CASE a = b
    BY <1>3, Zenon DEF List!DeleteAt, List!Next
<1> QED
    BY <1>1, <1>2, <1>3

\* An iteration whose entry is none has gone behind the sentinel.
LEMMA AtTheEnd ==
    ASSUME IInv, l.iter_active, l.iter_curentry = NULL
    PROVE  l.numels \in Nat /\ l.iter_pos = l.numels + 1
<1>2. PICK x, h, c : x = l /\ h = heap /\ Consistent(x, h, c)
    BY ListNow
<1>3. PICK n \in Nat : n = x.numels
    BY <1>2, Zenon DEF Consistent, Sound
<1>4. Chained(x.next, x.prev, c, n) /\ Iterator(x, c)
    BY <1>2, <1>3, Zenon DEF Consistent, Sound
<1>5. PICK p \in 0..(n + 1) : p = x.iter_pos
    BY <1>2, <1>3, <1>4 DEF Iterator
<1>6. p <= n => x.iter_curentry = c[p + 1]
    BY <1>2, <1>3, <1>4, <1>5, Zenon DEF Iterator
<1>7. ~(p <= n)
    <2>1. ASSUME p <= n PROVE c[p + 1] # NULL
        <3>1. p + 1 \in 1..n \/ p + 1 = n + 1
            BY <2>1
        <3> QED
            BY <1>4, <3>1 DEF Chained, Addresses, TAIL, NULL
    <2> QED
        BY <1>2, <1>6, <2>1, Zenon
<1>8. p = n + 1
    BY <1>7
<1> QED
    BY <1>2, <1>3, <1>5, <1>8, Zenon

\* A call that is refused.
LEMMA RefuseStep ==
    ASSUME IInv, NEW v \in {0, -1, NULL}, Refuse(v)
    PROVE  IInv' /\ List!Next
<1>1. ret' = v /\ UNCHANGED <<l, heap, crashed>>
    BY Zenon DEF Refuse
<1>2. IInv'
    BY <1>1 DEF IInv
<1>3. List!Refuse
    BY <1>1 DEF List!Refuse
<1> QED
    BY <1>2, <1>3 DEF List!Next

\* Setting the comparator is not visible in the abstract list.
LEMMA SetComparatorStep ==
    ASSUME IInv, SetComparator
    PROVE  IInv' /\ List!Next
<1>1. PICK x, h, c : x = l /\ h = heap /\ Consistent(x, h, c)
    BY ListNow
<1>2. PICK y : y = l'
    OBVIOUS
<1>3. y = [x EXCEPT !.comparator = TRUE] /\ h = heap' /\ ret' = 0
    BY <1>1, <1>2, Zenon DEF SetComparator, Change
<1>4. IsList(x) /\ x.iter_active \in BOOLEAN /\ Iterator(x, c)
    BY <1>1, Zenon DEF Consistent, Sound
<1>5. /\ SameList(x, y) /\ y.comparator = TRUE /\ y.iter_active = x.iter_active
      /\ y.iter_pos = x.iter_pos /\ y.iter_curentry = x.iter_curentry
    BY <1>3, <1>4 DEF SameList, IsList
<1>6. y.iter_active \in BOOLEAN /\ y.comparator \in BOOLEAN
    BY <1>4, <1>5, Zenon
<1>7. Iterator(y, c)
    BY <1>4, <1>5 DEF Iterator, SameList
<1>8. Consistent(y, h, c) /\ Elements(y) = Elements(x)
    BY <1>1, <1>5, <1>6, <1>7, SameConsistent
<1>9. IInv'
    BY <1>2, <1>3, <1>8, Keeps
<1>10. List!Refuse
    BY <1>1, <1>2, <1>3, <1>5, <1>8 DEF List!Refuse
<1> QED
    BY <1>9, <1>10 DEF List!Next

\* Starting an iteration: the first element is next, if there is one.
LEMMA IteratorStartStep ==
    ASSUME IInv, IteratorStart
    PROVE  IInv' /\ List!Next
<1>1. CASE l.iter_active
    <2>1. Refuse(0)
        BY <1>1 DEF IteratorStart
    <2> QED
        BY <2>1, RefuseStep
<1>2. CASE ~l.iter_active
    <2>1. PICK x, h, c : x = l /\ h = heap /\ Consistent(x, h, c)
        BY ListNow
    <2>2. PICK y : y = l'
        OBVIOUS
    <2>3. /\ y = [x EXCEPT !.iter_active = TRUE, !.iter_pos = 0, !.iter_curentry = x.next[HEAD]]
          /\ h = heap' /\ ret' = 1
        BY <1>2, <2>1, <2>2, Zenon DEF IteratorStart, Change
    <2>4. IsList(x) /\ x.comparator \in BOOLEAN /\ x.numels \in Nat
          /\ Chained(x.next, x.prev, c, x.numels)
        BY <2>1, Zenon DEF Consistent, Sound
    <2>5. /\ SameList(x, y) /\ y.comparator = x.comparator /\ y.iter_active = TRUE
          /\ y.iter_pos = 0 /\ y.iter_curentry = x.next[HEAD]
        BY <2>3, <2>4 DEF SameList, IsList
    <2>6. y.iter_active \in BOOLEAN /\ y.comparator \in BOOLEAN
        BY <2>4, <2>5, Zenon
    <2>7. x.next[HEAD] = c[0 + 1]
        <3>1. 0 \in 0..x.numels
            BY <2>4
        <3>2. x.next[c[0]] = c[0 + 1] /\ c[0] = HEAD
            BY <2>4, <3>1, Zenon DEF Chained
        <3> QED
            BY <3>2, Zenon
    <2>8. Iterator(y, c)
        BY <2>4, <2>5, <2>7 DEF Iterator, SameList
    <2>9. Consistent(y, h, c) /\ Elements(y) = Elements(x)
        BY <2>1, <2>5, <2>6, <2>8, SameConsistent
    <2>10. IInv'
        BY <2>2, <2>3, <2>9, Keeps
    <2>11. List!StartIteration
        BY <1>2, <2>1, <2>2, <2>3, <2>5, <2>9 DEF List!StartIteration, List!Iterating
    <2> QED
        BY <2>10, <2>11 DEF List!Next
<1> QED
    BY <1>1, <1>2

\* Ending an iteration.
LEMMA IteratorStopStep ==
    ASSUME IInv, IteratorStop
    PROVE  IInv' /\ List!Next
<1>1. CASE ~l.iter_active
    <2>1. Refuse(0)
        BY <1>1 DEF IteratorStop
    <2> QED
        BY <2>1, RefuseStep
<1>2. CASE l.iter_active
    <2>1. PICK x, h, c : x = l /\ h = heap /\ Consistent(x, h, c)
        BY ListNow
    <2>2. PICK y : y = l'
        OBVIOUS
    <2>3. /\ y = [x EXCEPT !.iter_active = FALSE, !.iter_pos = 0]
          /\ h = heap' /\ ret' = 1
        BY <1>2, <2>1, <2>2, Zenon DEF IteratorStop, Change
    <2>4. IsList(x) /\ x.comparator \in BOOLEAN /\ Iterator(x, c)
        BY <2>1, Zenon DEF Consistent, Sound
    <2>5. SameList(x, y) /\ y.comparator = x.comparator /\ y.iter_active = FALSE
        BY <2>3, <2>4 DEF SameList, IsList
    <2>6. y.iter_active \in BOOLEAN /\ y.comparator \in BOOLEAN
        BY <2>4, <2>5, Zenon
    <2>7. Iterator(y, c)
        BY <2>5 DEF Iterator
    <2>8. Consistent(y, h, c) /\ Elements(y) = Elements(x)
        BY <2>1, <2>5, <2>6, <2>7, SameConsistent
    <2>9. IInv'
        BY <2>2, <2>3, <2>8, Keeps
    <2>10. List!StopIteration
        <3>1. x.iter_pos \in Nat
            BY <1>2, <2>1, <2>4 DEF Iterator
        <3> QED
            BY <1>2, <2>1, <2>2, <2>3, <2>5, <2>8, <3>1 DEF List!StopIteration, List!Iterating
    <2> QED
        BY <2>9, <2>10 DEF List!Next
<1> QED
    BY <1>1, <1>2

\* Destroying the list, and initialising the next one.
LEMMA DestroyStep ==
    ASSUME IInv, Destroy
    PROVE  IInv' /\ List!Next
<1>1. ~l.iter_active /\ l' = list_init /\ heap' = {} /\ ret' = 0
    BY Zenon DEF Destroy, Change
<1>2. PICK y : y = list_init
    OBVIOUS
<1>3. Consistent(y, {}, Places(y)) /\ Elements(y) = <<>> /\ y.iter_active = FALSE
    BY <1>2, EmptyConsistent
<1>4. IInv'
    BY <1>1, <1>2, <1>3 DEF IInv
<1>5. List!Destroy
    BY <1>1, <1>2, <1>3 DEF List!Destroy, List!Iterating
<1> QED
    BY <1>4, <1>5 DEF List!Next

\* The next element, and nothing behind the last; a null pointer is followed to no state
\* of the abstract list, which stutters.
LEMMA IteratorNextStep ==
    ASSUME IInv, IteratorNext
    PROVE  IInv' /\ ListStep
<1>1. CASE ~l.iter_active
    <2>1. Refuse(NULL)
        BY <1>1 DEF IteratorNext
    <2> QED
        BY <2>1, RefuseStep, Zenon DEF ListStep, Refuse
<1>2. CASE l.iter_active /\ l.iter_curentry = NULL
    <2>1. UNCHANGED <<l, heap, ret>> /\ crashed' = "list_iterator_next"
        BY <1>2, Zenon DEF IteratorNext, Crash
    <2>2. l.iter_pos > l.numels
        <3>1. PICK n \in Nat : n = l.numels /\ l.iter_pos = n + 1
            BY <1>2, AtTheEnd
        <3> QED
            BY <3>1
    <2>3. IInv' /\ UNCHANGED List!vars
        BY <2>1 DEF IInv, List!vars
    <2> QED
        BY <1>2, <2>1, <2>2, <2>3, Zenon DEF ListStep, FollowsNull
<1>3. CASE l.iter_active /\ l.iter_curentry # NULL
    <2>1. PICK x, h, c : x = l /\ h = heap /\ Consistent(x, h, c)
        BY ListNow
    <2>2. PICK y : y = l'
        OBVIOUS
    <2>3. /\ y = [x EXCEPT !.iter_curentry = x.next[@], !.iter_pos = @ + 1]
          /\ h = heap' /\ ret' = x.data[x.iter_curentry]
        BY <1>3, <2>1, <2>2, Zenon DEF IteratorNext, Change
    <2>4. /\ IsList(x) /\ x.comparator \in BOOLEAN /\ x.numels \in Nat /\ Iterator(x, c)
          /\ Chained(x.next, x.prev, c, x.numels) /\ Holds(x.data, c, x.numels)
        BY <2>1, Zenon DEF Consistent, Sound
    <2>5. PICK n \in Nat : n = x.numels
        BY <2>4
    <2>6. PICK p : p = x.iter_pos
        OBVIOUS
    <2>7. p \in 0..n /\ x.iter_curentry = c[p + 1] /\ x.iter_active
        BY <1>3, <2>1, <2>4, <2>5, <2>6 DEF Iterator
    <2>8. /\ SameList(x, y) /\ y.comparator = x.comparator /\ y.iter_active = x.iter_active
          /\ y.iter_pos = p + 1 /\ y.iter_curentry = x.next[x.iter_curentry]
        BY <2>3, <2>4, <2>6 DEF SameList, IsList
    <2>9. x.iter_active = TRUE
        BY <2>1, <2>7, Zenon DEF Consistent
    <2>10. y.iter_active \in BOOLEAN /\ y.comparator \in BOOLEAN
        BY <2>4, <2>8, <2>9, Zenon
    <2>11. y.iter_curentry = IF p + 1 <= n THEN c[(p + 1) + 1] ELSE NULL
        <3>1. CASE p + 1 <= n
            <4>1. p + 1 \in 0..n
                BY <2>7, <3>1
            <4>2. x.next[c[p + 1]] = c[(p + 1) + 1]
                BY <2>4, <2>5, <4>1, Zenon DEF Chained
            <4> QED
                BY <2>7, <2>8, <3>1, <4>2
        <3>2. CASE ~(p + 1 <= n)
            <4>1. p + 1 = n + 1
                BY <2>7, <3>2
            <4>2. c[n + 1] = TAIL /\ x.next[TAIL] = NULL
                BY <2>4, <2>5, Zenon DEF Chained
            <4> QED
                BY <2>7, <2>8, <3>2, <4>1, <4>2
        <3> QED
            BY <3>1, <3>2
    <2>12. Iterator(y, c)
        <3>1. p + 1 \in 0..(n + 1)
            BY <2>7
        <3> QED
            BY <2>5, <2>8, <2>11, <3>1 DEF Iterator, SameList
    <2>13. Consistent(y, h, c) /\ Elements(y) = Elements(x)
        BY <2>1, <2>8, <2>10, <2>12, SameConsistent
    <2>14. IInv'
        BY <2>2, <2>3, <2>13, Keeps
    <2>15. PICK s : s = Elements(x)
        OBVIOUS
    <2>16. Len(s) = n /\ s = [i \in 1..n |-> x.data[c[i]]]
        <3>1. Sound(x, c)
            BY <2>1, Zenon DEF Consistent
        <3> QED
            BY <2>5, <2>15, <3>1, ElementsAt DEF At
    <2>17. x.data[x.iter_curentry] = IF p < n THEN s[p + 1] ELSE NULL
        <3>1. CASE p < n
            <4>1. p + 1 \in 1..n
                BY <2>7, <3>1
            <4> QED
                BY <2>7, <2>16, <3>1, <4>1
        <3>2. CASE ~(p < n)
            <4>1. p = n
                BY <2>7, <3>2
            <4>2. c[n + 1] = TAIL /\ x.data[TAIL] = NULL
                BY <2>4, <2>5, Zenon DEF Chained, Holds
            <4> QED
                BY <2>7, <3>2, <4>1, <4>2
        <3> QED
            BY <3>1, <3>2
    <2>18. List!NextElement
        <3>1. Elements(l) = s /\ Elements(l)' = s
            BY <2>1, <2>2, <2>13, <2>15
        <3>2. /\ (IF l.iter_active THEN l.iter_pos ELSE -1) = p
              /\ (IF l.iter_active THEN l.iter_pos ELSE -1)' = p + 1
            BY <2>1, <2>2, <2>6, <2>7, <2>8
        <3>3. ret' = IF p < Len(s) THEN s[p + 1] ELSE NULL
            BY <2>3, <2>16, <2>17
        <3>4. p >= 0
            BY <2>7
        <3> QED
            BY <3>1, <3>2, <3>3, <3>4 DEF List!NextElement, List!Iterating
    <2>19. crashed' = crashed
        BY <1>3, Zenon DEF IteratorNext, Change
    <2> QED
        BY <2>14, <2>18, <2>19, Zenon DEF ListStep, List!Next
<1> QED
    BY <1>1, <1>2, <1>3

\* An insertion, with a spare entry, an allocated one, or none.
LEMMA InsertStep ==
    ASSUME IInv, NEW d \in Data, NEW pos \in 0..(l.numels + 1), l.numels < MaxLength,
           Insert(d, pos)
    PROVE  IInv' /\ List!Next
<1>1. CASE l.iter_active \/ pos > l.numels
    <2>1. Refuse(-1)
        BY <1>1 DEF Insert
    <2> QED
        BY <2>1, RefuseStep
<1>2. CASE ~l.iter_active /\ ~(pos > l.numels)
    <2>1. PICK x, h, c : x = l /\ h = heap /\ Consistent(x, h, c)
        BY ListNow
    <2>2. /\ Sound(x, c) /\ IsList(x) /\ x.numels \in Nat /\ Spares(x.spareels, c, x.numels)
          /\ h = Entries(c, x.numels) \cup Range(x.spareels)
          /\ x.iter_active \in BOOLEAN /\ x.comparator \in BOOLEAN
        BY <2>1, Zenon DEF Consistent, Sound
    <2>3. PICK n \in Nat : n = x.numels /\ n < MaxLength /\ pos \in 0..n
        BY <1>2, <2>1, <2>2
    <2>4. x.iter_active = FALSE
        BY <1>2, <2>1, <2>2, Zenon
    <2>5. ASSUME NEW y, y = l', NEW g, g = heap', NEW c2, Consistent(y, g, c2), ret' = 1,
                 Elements(y) = InsertAt(Elements(x), pos + 1, d), y.iter_active = FALSE
          PROVE  IInv' /\ List!Next
        <3>1. IInv'
            BY <2>5, Keeps
        <3>2. PICK k : k = pos + 1
            OBVIOUS
        <3>3. k \in 1..(Len(Elements(x)) + 1)
            <4>1. Len(Elements(x)) = n
                BY <2>2, <2>3, ElementsAt
            <4> QED
                BY <2>3, <3>2, <4>1
        <3>4. List!Insert
            <4>1. /\ Elements(l)' = List!InsertAt(Elements(l), k, d)
                  /\ k \in 1..(Len(Elements(l)) + 1)
                BY <2>1, <2>5, <3>2, <3>3 DEF InsertAt, List!InsertAt
            <4>2. /\ (IF l.iter_active THEN l.iter_pos ELSE -1) = -1
                  /\ (IF l.iter_active THEN l.iter_pos ELSE -1)' = -1
                BY <2>1, <2>4, <2>5
            <4> QED
                BY <2>5, <4>1, <4>2 DEF List!Insert, List!Iterating
        <3> QED
            BY <3>1, <3>4 DEF List!Next
    <2>6. CASE x.spareels # <<>>
        <3>1. PICK z : z = [x EXCEPT !.spareels = Front(@)]
            OBVIOUS
        <3>2. PICK e : e = Last(x.spareels)
            OBVIOUS
        <3>3. /\ Sound(z, c) /\ Kept(x, z) /\ z.numels = x.numels
              /\ Spares(z.spareels, c, x.numels)
              /\ e \in Addresses \ (Entries(c, x.numels) \cup Range(z.spareels))
              /\ h = Entries(c, x.numels) \cup Range(z.spareels) \cup {e}
              /\ Elements(z) = Elements(x)
            <4>1. HasLent(x, [x EXCEPT !.spareels = Front(@)], h, c)
                BY <2>1, <2>6, SpareTaken, Zenon
            <4>2. HasLent(x, z, h, c)
                BY <3>1, <4>1, Zenon
            <4> QED
                BY <3>2, <4>2, Zenon DEF HasLent
        <3>4. PICK y : y = Link(z, e, d, pos)
            OBVIOUS
        <3>5. y = l' /\ h = heap' /\ ret' = 1
            BY <1>2, <2>1, <2>6, <3>1, <3>2, <3>4, Zenon DEF Insert, Change
        <3>6. z.iter_active = FALSE /\ z.comparator \in BOOLEAN
            BY <2>2, <2>4, <3>3, Zenon DEF Kept
        <3>7. Accepts(z, c, e)
            BY <2>3, <3>3, <3>6, Zenon DEF Accepts
        <3>8. /\ Consistent(y, h, Inserted(c, n, e, pos))
              /\ Elements(y) = InsertAt(Elements(z), pos + 1, d)
              /\ Kept(z, y)
            <4>1. pos \in 0..z.numels
                BY <2>3, <3>3
            <4>2. Accepted(z, y, c, e, d, pos)
                BY <3>4, <3>7, <4>1, InsertConsistent, Zenon
            <4> QED
                BY <2>3, <3>3, <4>2, Zenon DEF Accepted
        <3>9. y.iter_active = FALSE
            BY <3>6, <3>8, Zenon DEF Kept
        <3>10. Elements(y) = InsertAt(Elements(x), pos + 1, d)
            BY <3>3, <3>8, Zenon
        <3> QED
            BY <2>5, <3>5, <3>8, <3>9, <3>10, Zenon
    <2>7. CASE x.spareels = <<>>
        <3>1. CASE Refuse(-1)
            BY <3>1, RefuseStep
        <3>2. CASE Change(Link(l, Malloc, d, pos), heap \cup {Malloc}, 1)
            <4>1. PICK e : e = Malloc
                OBVIOUS
            <4>2. e \in Addresses \ h
                <5>1. IsFiniteSet(h)
                    BY <2>1, HeapCount, Zenon
                <5>2. Min((1..Cardinality(h) + 1) \ h) \in Addresses \ h
                    BY <5>1, MallocIs, Zenon
                <5> QED
                    BY <2>1, <4>1, <5>2, Zenon DEF Malloc
            <4>3. PICK y : y = Link(x, e, d, pos)
                OBVIOUS
            <4>4. PICK g : g = h \cup {e}
                OBVIOUS
            <4>5. y = l' /\ g = heap' /\ ret' = 1
                BY <2>1, <3>2, <4>1, <4>3, <4>4, Zenon DEF Change
            <4>6. Accepts(x, c, e)
                BY <2>2, <2>3, <2>4, <4>2 DEF Accepts
            <4>7. /\ Consistent(y, g, Inserted(c, n, e, pos))
                  /\ Elements(y) = InsertAt(Elements(x), pos + 1, d)
                  /\ Kept(x, y)
                <5>1. pos \in 0..x.numels
                    BY <2>3
                <5>2. Accepted(x, y, c, e, d, pos)
                    BY <4>3, <4>6, <5>1, InsertConsistent, Zenon
                <5> QED
                    BY <2>2, <2>3, <4>4, <5>2, Zenon DEF Accepted
            <4>8. y.iter_active = FALSE
                BY <2>4, <4>7, Zenon DEF Kept
            <4> QED
                BY <2>5, <4>5, <4>7, <4>8, Zenon
        <3> QED
            BY <1>2, <2>1, <2>7, <3>1, <3>2 DEF Insert
    <2> QED
        BY <2>6, <2>7
<1> QED
    BY <1>1, <1>2

\* The steps that remove entries, as an abstract deletion.
LEMMA DeleteIs ==
    ASSUME NEW s \in Seq(Data), NEW a \in 1..Len(s), NEW b \in a..Len(s),
           NEW t \in Seq(Data), IsRemoval(t, s, Len(s), a, b)
    PROVE  t = SubSeq(s, 1, a - 1) \o SubSeq(s, b + 1, Len(s))
<1>1. PICK w : w = SubSeq(s, 1, a - 1) \o SubSeq(s, b + 1, Len(s))
    OBVIOUS
<1>2. w \in Seq(Data) /\ IsRemoval(w, s, Len(s), a, b)
    BY <1>1, RemoveIs, Zenon
<1>3. PICK n \in Nat : n = Len(s)
    OBVIOUS
<1>4. a \in 1..n /\ b \in a..n /\ IsRemoval(t, s, n, a, b) /\ IsRemoval(w, s, n, a, b)
    BY <1>2, <1>3, Zenon
<1>5. t = w
    BY <1>2, <1>4, OneRemoval, Zenon
<1> QED
    BY <1>1, <1>5, Zenon

\* The entry at a position is the one list_drop_elem unlinks.
LEMMA DropIs ==
    ASSUME NEW x, NEW h, NEW c, Consistent(x, h, c), x.iter_active = FALSE,
           NEW n \in Nat \ {0}, n = x.numels, NEW pos \in 0..(n - 1)
    PROVE  LET tmp == list_findpos(x, pos)
           IN /\ tmp = c[pos + 1]
              /\ HasRemoved(x, list_drop_elem(x, tmp, pos),
                            h \ (Range(<<tmp>>) \ Range(Spare(x, <<tmp>>))),
                            c, n, pos + 1, pos + 1)
<1>1. /\ Sound(x, c) /\ Chained(x.next, x.prev, c, x.numels) /\ IsMiddle(x.mid, c, x.numels)
      /\ x.numels \in Nat
    BY Zenon DEF Consistent, Sound
<1>2. PICK tmp : tmp = list_findpos(x, pos)
    OBVIOUS
<1>3. tmp = c[pos + 1]
    <2>1. pos \in -1..x.numels
        OBVIOUS
    <2> QED
        BY <1>1, <1>2, <2>1, FindPos
<1>4. Run(c, pos + 1, pos + 1) = <<tmp>>
    <2>1. (pos + 1) - (pos + 1) + 1 = 1 /\ \A i \in 1..1 : (pos + 1) + i - 1 = pos + 1
        OBVIOUS
    <2>2. Run(c, pos + 1, pos + 1) = [i \in 1..1 |-> tmp]
        BY <2>1, <1>3 DEF Run
    <2>3. <<tmp>> = [i \in 1..1 |-> tmp]
        OBVIOUS
    <2> QED
        BY <2>2, <2>3, Zenon
<1>5. PICK next : next = x.next
    OBVIOUS
<1>6. PICK prev : prev = x.prev
    OBVIOUS
<1>7. PICK m : m = x.mid
    OBVIOUS
<1>8. Chained(next, prev, c, n) /\ IsMiddle(m, c, n)
    BY <1>1, <1>5, <1>6, <1>7, Zenon
<1>9. PICK mid : mid = IF n % 2 = 1 THEN (IF pos >= n \div 2 THEN prev[m] ELSE m)
                       ELSE (IF pos < n \div 2 THEN next[m] ELSE m)
    OBVIOUS
<1>10. IsMiddle(mid, Removed(c, n, pos + 1, pos + 1), n - 1)
    BY <1>8, <1>9, DroppedMiddle
<1>11. PICK a \in 1..n : a = pos + 1
    OBVIOUS
<1>12. /\ a \in 1..(n + 1) /\ a \in (a - 1)..n /\ n - (a - a + 1) = n - 1 /\ a - 1 = pos
    BY <1>11
<1>13. IsMiddle(mid, Removed(c, n, a, a), n - (a - a + 1))
    BY <1>10, <1>11, <1>12, Zenon
<1>14. HasRemoved(x, Unlink(x, Run(c, a, a), c[a - 1], c[a + 1], mid),
                  h \ (Range(Run(c, a, a)) \ Range(Spare(x, Run(c, a, a)))), c, n, a, a)
    BY <1>12, <1>13, RemoveConsistent, Zenon
<1>15. prev[tmp] = c[a - 1] /\ next[tmp] = c[a + 1]
    <2>1. a \in 0..n /\ a \in 1..(n + 1) /\ tmp = c[a]
        BY <1>3, <1>11
    <2> QED
        BY <2>1, <1>8, Zenon DEF Chained
<1>16. list_drop_elem(x, tmp, pos) = Unlink(x, Run(c, a, a), c[a - 1], c[a + 1], mid)
    BY <1>4, <1>5, <1>6, <1>7, <1>9, <1>11, <1>15 DEF list_drop_elem
<1>17. Run(c, a, a) = <<tmp>>
    BY <1>4, <1>11, Zenon
<1>18. HasRemoved(x, list_drop_elem(x, tmp, pos),
                  h \ (Range(<<tmp>>) \ Range(Spare(x, <<tmp>>))), c, n, pos + 1, pos + 1)
    BY <1>11, <1>14, <1>16, <1>17, Zenon
<1> QED
    BY <1>2, <1>3, <1>18, Zenon

\* t is s, of length n, without the elements a..b.
IsWithout(t, s, n, a, b) ==
    /\ s \in Seq(Data) /\ Len(s) = n
    /\ t = SubSeq(s, 1, a - 1) \o SubSeq(s, b + 1, Len(s))

\* A removal at the places is one in the elements.
LEMMA RemovedIs ==
    ASSUME NEW x, NEW h, NEW c, Consistent(x, h, c), NEW n \in Nat, n = x.numels,
           NEW a \in 1..n, NEW b \in a..n, NEW y, NEW g, HasRemoved(x, y, g, c, n, a, b)
    PROVE  IsWithout(Elements(y), Elements(x), n, a, b)
<1>1. PICK s : s = Elements(x)
    OBVIOUS
<1>2. PICK t : t = Elements(y)
    OBVIOUS
<1>3. Sound(x, c)
    BY Zenon DEF Consistent
<1>4. s \in Seq(Data) /\ Len(s) = n
    BY <1>1, <1>3, ElementsAt
<1>5. Sound(y, Removed(c, n, a, b)) /\ IsRemoval(t, s, n, a, b)
    BY <1>1, <1>2, Zenon DEF HasRemoved, Consistent
<1>6. t \in Seq(Data)
    BY <1>2, <1>5, ElementsAt, Zenon
<1>7. a \in 1..Len(s) /\ b \in a..Len(s) /\ IsRemoval(t, s, Len(s), a, b)
    BY <1>4, <1>5
<1>8. t = SubSeq(s, 1, a - 1) \o SubSeq(s, b + 1, Len(s))
    BY <1>4, <1>6, <1>7, DeleteIs, Zenon
<1> QED
    BY <1>1, <1>2, <1>4, <1>8, Zenon DEF IsWithout

\* Removing the entry at a position, whatever is returned.
LEMMA DropStep ==
    ASSUME IInv, ~l.iter_active, NEW pos \in 0..l.numels, ~(pos >= l.numels),
           LET tmp == list_findpos(l, pos)
           IN l' = list_drop_elem(l, tmp, pos) /\ heap' = Remaining(<<tmp>>)
    PROVE  /\ IInv'
           /\ pos + 1 \in DOMAIN Elements(l)
           /\ Elements(l)' = SubSeq(Elements(l), 1, pos)
                                 \o SubSeq(Elements(l), pos + 2, Len(Elements(l)))
           /\ Elements(l)[pos + 1] = l.data[list_findpos(l, pos)]
           /\ l'.iter_active = FALSE
<1>1. PICK x, h, c : x = l /\ h = heap /\ Consistent(x, h, c)
    BY ListNow
<1>2. Sound(x, c) /\ x.numels \in Nat /\ x.iter_active \in BOOLEAN
    BY <1>1, Zenon DEF Consistent, Sound
<1>3. PICK n \in Nat \ {0} : n = x.numels /\ pos \in 0..(n - 1)
    BY <1>1, <1>2
<1>4. x.iter_active = FALSE
    BY <1>1, <1>2, Zenon
<1>5. PICK tmp : tmp = list_findpos(x, pos)
    OBVIOUS
<1>6. PICK y : y = list_drop_elem(x, tmp, pos)
    OBVIOUS
<1>7. PICK g : g = h \ (Range(<<tmp>>) \ Range(Spare(x, <<tmp>>)))
    OBVIOUS
<1>8. tmp = c[pos + 1] /\ HasRemoved(x, y, g, c, n, pos + 1, pos + 1)
    <2>1. LET w == list_findpos(x, pos)
          IN /\ w = c[pos + 1]
             /\ HasRemoved(x, list_drop_elem(x, w, pos),
                           h \ (Range(<<w>>) \ Range(Spare(x, <<w>>))),
                           c, n, pos + 1, pos + 1)
        BY <1>1, <1>3, <1>4, DropIs
    <2> QED
        BY <2>1, <1>5, <1>6, <1>7, Zenon
<1>9. y = l' /\ g = heap'
    <2>1. l' = list_drop_elem(x, tmp, pos)
        BY <1>1, <1>5, Zenon
    <2>2. heap' = Remaining(<<tmp>>)
        BY <1>1, <1>5, Zenon
    <2> QED
        BY <2>1, <2>2, <1>1, <1>6, <1>7, Zenon DEF Remaining
<1>10. IInv'
    BY <1>8, <1>9, Keeps DEF HasRemoved
<1>11. PICK a \in 1..n : a = pos + 1 /\ a \in a..n /\ a - 1 = pos /\ a + 1 = pos + 2
    BY <1>3
<1>12. PICK s : s = Elements(x)
    OBVIOUS
<1>13. /\ s \in Seq(Data) /\ Len(s) = n
       /\ Elements(y) = SubSeq(s, 1, a - 1) \o SubSeq(s, a + 1, Len(s))
    <2>1. HasRemoved(x, y, g, c, n, a, a)
        BY <1>8, <1>11, Zenon
    <2> QED
        <3>1. Consistent(x, h, c) /\ n = x.numels /\ a \in a..n
            BY <1>1, <1>3, <1>11, Zenon
        <3>2. IsWithout(Elements(y), Elements(x), n, a, a)
            BY <2>1, <3>1, RemovedIs, Zenon
        <3> QED
            BY <3>2, <1>12, Zenon DEF IsWithout
<1>14. a \in DOMAIN s /\ s[a] = x.data[tmp]
    <2>1. s = [i \in 1..n |-> x.data[c[i]]]
        BY <1>2, <1>3, <1>12, ElementsAt DEF At
    <2> QED
        BY <2>1, <1>8, <1>11
<1>15. y.iter_active = FALSE
    BY <1>4, <1>8, Zenon DEF HasRemoved, Kept
<1>16. Elements(l)' = SubSeq(s, 1, pos) \o SubSeq(s, pos + 2, Len(s))
    BY <1>9, <1>11, <1>13
<1>17. Elements(l) = s /\ pos + 1 \in DOMAIN s /\ s[pos + 1] = l.data[list_findpos(l, pos)]
    BY <1>1, <1>5, <1>11, <1>12, <1>14, Zenon
<1> QED
    BY <1>9, <1>10, <1>15, <1>16, <1>17, Zenon

\* Extraction and deletion of the element at a position.
LEMMA ExtractStep ==
    ASSUME IInv, NEW pos \in 0..l.numels, Extract(pos)
    PROVE  IInv' /\ List!Next
<1>1. CASE l.iter_active \/ pos >= l.numels
    <2>1. Refuse(NULL)
        BY <1>1 DEF Extract
    <2> QED
        BY <2>1, RefuseStep
<1>2. CASE ~l.iter_active /\ ~(pos >= l.numels)
    <2>1. /\ LET tmp == list_findpos(l, pos)
             IN l' = list_drop_elem(l, tmp, pos) /\ heap' = Remaining(<<tmp>>)
          /\ ret' = l.data[list_findpos(l, pos)]
        BY <1>2, Zenon DEF Extract, Change
    <2>2. /\ IInv'
          /\ pos + 1 \in DOMAIN Elements(l)
          /\ Elements(l)' = SubSeq(Elements(l), 1, pos)
                                \o SubSeq(Elements(l), pos + 2, Len(Elements(l)))
          /\ Elements(l)[pos + 1] = l.data[list_findpos(l, pos)]
          /\ l'.iter_active = FALSE
        BY <1>2, <2>1, DropStep
    <2>3. PICK k \in DOMAIN Elements(l) : k = pos + 1 /\ k - 1 = pos /\ k + 1 = pos + 2
        BY <2>2
    <2>4. Elements(l)' = List!RemoveAt(Elements(l), k) /\ ret' = Elements(l)[k]
        BY <2>1, <2>2, <2>3 DEF List!RemoveAt
    <2>5. /\ (IF l.iter_active THEN l.iter_pos ELSE -1) = -1
          /\ (IF l.iter_active THEN l.iter_pos ELSE -1)' = -1
        BY <1>2, <2>2
    <2>6. List!Extract
        BY <2>4, <2>5 DEF List!Extract, List!Iterating
    <2> QED
        BY <2>2, <2>6 DEF List!Next
<1> QED
    BY <1>1, <1>2

\* Deletion of the element at a position.
LEMMA DeleteAtStep ==
    ASSUME IInv, NEW pos \in 0..l.numels, DeleteAt(pos)
    PROVE  IInv' /\ List!Next
<1>1. CASE l.iter_active \/ pos >= l.numels
    <2>1. Refuse(-1)
        BY <1>1 DEF DeleteAt
    <2> QED
        BY <2>1, RefuseStep
<1>2. CASE ~l.iter_active /\ ~(pos >= l.numels)
    <2>1. /\ LET tmp == list_findpos(l, pos)
             IN l' = list_drop_elem(l, tmp, pos) /\ heap' = Remaining(<<tmp>>)
          /\ ret' = 0
        BY <1>2, Zenon DEF DeleteAt, Change
    <2>2. /\ IInv'
          /\ pos + 1 \in DOMAIN Elements(l)
          /\ Elements(l)' = SubSeq(Elements(l), 1, pos)
                                \o SubSeq(Elements(l), pos + 2, Len(Elements(l)))
          /\ l'.iter_active = FALSE
        BY <1>2, <2>1, DropStep
    <2>3. PICK k \in DOMAIN Elements(l) : k = pos + 1 /\ k - 1 = pos /\ k + 1 = pos + 2
        BY <2>2
    <2>4. Elements(l)' = SubSeq(Elements(l), 1, k - 1)
                             \o SubSeq(Elements(l), k + 1, Len(Elements(l)))
        BY <2>2, <2>3
    <2>5. /\ (IF l.iter_active THEN l.iter_pos ELSE -1) = -1
          /\ (IF l.iter_active THEN l.iter_pos ELSE -1)' = -1
        BY <1>2, <2>2
    <2>6. List!DeleteAt
        <3>1. /\ ~List!Iterating
              /\ UNCHANGED (IF l.iter_active THEN l.iter_pos ELSE -1)
            BY <2>5 DEF List!Iterating
        <3>2. List!Removal(k, k)
            BY <2>4, <3>1, Zenon DEF List!Removal
        <3> QED
            BY <2>1, <3>2, Zenon DEF List!DeleteAt
    <2> QED
        BY <2>2, <2>6 DEF List!Next
<1> QED
    BY <1>1, <1>2

\* Deletion of a range; where the middle pointer leads out of the list, nothing is deleted
\* and the abstract list stutters.
LEMMA DeleteRangeStep ==
    ASSUME IInv, NEW posstart \in 0..l.numels, NEW posend \in 0..l.numels,
           DeleteRange(posstart, posend)
    PROVE  IInv' /\ ListStep
<1>1. CASE l.iter_active \/ posend < posstart \/ posend >= l.numels
    <2>1. Refuse(-1)
        BY <1>1 DEF DeleteRange
    <2> QED
        BY <2>1, RefuseStep, Zenon DEF ListStep, Refuse
<1>2. CASE ~(l.iter_active \/ posend < posstart \/ posend >= l.numels)
    <2>1. PICK x, h, c : x = l /\ h = heap /\ Consistent(x, h, c)
        BY ListNow
    <2>2. /\ Sound(x, c) /\ x.numels \in Nat /\ x.iter_active \in BOOLEAN
          /\ Chained(x.next, x.prev, c, x.numels) /\ x.numels <= MaxLength
        BY <2>1, Zenon DEF Consistent, Sound
    <2>3. x.iter_active = FALSE
        BY <1>2, <2>1, <2>2, Zenon
    <2>4. PICK n \in Nat \ {0} : n = x.numels /\ n <= MaxLength
        BY <1>2, <2>1, <2>2
    <2>5. PICK a \in 1..n : a = posstart + 1
        BY <1>2, <2>1, <2>2, <2>4
    <2>6. PICK b \in a..n : b = posend + 1
        BY <1>2, <2>1, <2>2, <2>4, <2>5
    <2>7. PICK k \in 1..(n - posstart) : k = b - a + 1
        BY <2>5, <2>6
    <2>8. PICK es : es = SubSeq(Chain(x), posstart + 1, posend + 1)
        OBVIOUS
    <2>9. es = Run(c, a, b) /\ Len(es) = k /\ es[1] = c[a] /\ es[k] = c[b]
        <3>1. Chain(x) = [i \in 1..n |-> c[i]]
            BY <2>2, <2>4, ElementsAt
        <3>2. PICK w : w = [i \in 1..n |-> c[i]]
            OBVIOUS
        <3>3. es = SubSeq(w, a, b)
            BY <2>5, <2>6, <2>8, <3>1, <3>2, Zenon
        <3>4. SubSeq(w, a, b) = [i \in 1..k |-> w[i + a - 1]]
            BY <2>7, <3>2
        <3>5. \A i \in 1..k : i + a - 1 = a + i - 1 /\ a + i - 1 \in 1..n
            BY <2>7
        <3>6. Run(c, a, b) = [i \in 1..k |-> c[a + i - 1]]
            BY <2>7, Zenon DEF Run
        <3>7. SubSeq(w, a, b) = Run(c, a, b)
            BY <3>2, <3>4, <3>5, <3>6
        <3>8. es = [i \in 1..k |-> c[a + i - 1]]
            BY <3>3, <3>6, <3>7, Zenon
        <3>9. 1 \in 1..k /\ k \in 1..k /\ a + 1 - 1 = a /\ a + k - 1 = b
            BY <2>7
        <3>10. Len(es) = k
            BY <3>8
        <3> QED
            BY <3>3, <3>7, <3>8, <3>9, <3>10
    <2>10. PICK mid : mid = MidAfterRange(x, posstart, k)
        OBVIOUS
    <2>11. CASE mid = NULL
        <3>1. UNCHANGED <<l, heap, ret>> /\ crashed' = "list_delete_range"
            BY <1>2, <2>1, <2>8, <2>9, <2>10, <2>11, Zenon DEF DeleteRange, Crash
        <3>2. l.numels > 0 /\ ~l.iter_active
            BY <2>1, <2>3, <2>4
        <3>3. IInv' /\ UNCHANGED List!vars
            BY <3>1 DEF IInv, List!vars
        <3> QED
            BY <3>1, <3>2, <3>3, Zenon DEF ListStep, FollowsNull
    <2>12. CASE mid # NULL
        <3>1. posstart \in 0..(n - 1)
            BY <2>5
        <3>2. /\ k = n => MidAfterRange(x, posstart, k) = NULL
              /\ k < n => /\ MidAfterRange(x, posstart, k) # NULL
                          /\ IsMiddle(MidAfterRange(x, posstart, k),
                                      Removed(c, n, posstart + 1, posstart + k), n - k)
            BY <2>2, <2>4, <3>1, RangeMiddle, Zenon
        <3>3. k < n /\ posstart + 1 = a /\ posstart + k = b /\ n - k = n - (b - a + 1)
            <4>1. k # n
                BY <2>10, <2>12, <3>2, Zenon
            <4> QED
                BY <4>1, <2>5, <2>7
        <3>4. IsMiddle(mid, Removed(c, n, a, b), n - (b - a + 1))
            BY <2>10, <3>2, <3>3, Zenon
        <3>5. PICK y : y = Unlink(x, Run(c, a, b), c[a - 1], c[b + 1], mid)
            OBVIOUS
        <3>6. PICK g : g = h \ (Range(Run(c, a, b)) \ Range(Spare(x, Run(c, a, b))))
            OBVIOUS
        <3>7. HasRemoved(x, y, g, c, n, a, b)
            <4>1. a \in 1..(n + 1) /\ b \in (a - 1)..n
                OBVIOUS
            <4>2. Consistent(x, h, c) /\ n = x.numels
                BY <2>1, <2>4
            <4>3. HasRemoved(x, Unlink(x, Run(c, a, b), c[a - 1], c[b + 1], mid),
                             h \ (Range(Run(c, a, b)) \ Range(Spare(x, Run(c, a, b)))),
                             c, n, a, b)
                BY <2>3, <3>4, <4>1, <4>2, RemoveConsistent, Zenon
            <4> QED
                BY <3>5, <3>6, <4>3, Zenon
        <3>8. x.prev[Head(es)] = c[a - 1] /\ x.next[Last(es)] = c[b + 1]
            <4>1. Head(es) = c[a] /\ Last(es) = c[b]
                BY <2>9 DEF Last
            <4>2. a \in 1..(n + 1) /\ b \in 0..n
                OBVIOUS
            <4>3. Chained(x.next, x.prev, c, n)
                BY <2>2, <2>4, Zenon
            <4>4. x.prev[c[a]] = c[a - 1] /\ x.next[c[b]] = c[b + 1]
                BY <4>2, <4>3, Zenon DEF Chained
            <4> QED
                BY <4>1, <4>4, Zenon
        <3>9. y = l' /\ g = heap' /\ ret' = 0
            <4>1. /\ l' = Unlink(x, es, x.prev[Head(es)], x.next[Last(es)], mid)
                  /\ heap' = Remaining(es) /\ ret' = 0
                BY <1>2, <2>1, <2>8, <2>9, <2>10, <2>12, Zenon DEF DeleteRange, Change
            <4>2. y = l' /\ ret' = 0
                BY <4>1, <2>9, <3>5, <3>8, Zenon
            <4>3. g = heap'
                BY <4>1, <2>1, <2>9, <3>6, Zenon DEF Remaining
            <4> QED
                BY <4>2, <4>3
        <3>10. IInv'
            BY <3>7, <3>9, Keeps DEF HasRemoved
        <3>11. IsWithout(Elements(y), Elements(x), n, a, b)
            BY <2>1, <2>4, <3>7, RemovedIs, Zenon
        <3>12. List!Removal(a, b)
            <4>1. Elements(l)' = SubSeq(Elements(l), 1, a - 1)
                                     \o SubSeq(Elements(l), b + 1, Len(Elements(l)))
                BY <2>1, <3>9, <3>11, Zenon DEF IsWithout
            <4>2. y.iter_active = FALSE
                BY <2>3, <3>7, Zenon DEF HasRemoved, Kept
            <4>3. /\ ~List!Iterating
                  /\ UNCHANGED (IF l.iter_active THEN l.iter_pos ELSE -1)
                BY <2>1, <2>3, <3>9, <4>2 DEF List!Iterating
            <4> QED
                BY <4>1, <4>3, Zenon DEF List!Removal
        <3>13. a \in DOMAIN Elements(l) /\ b \in DOMAIN Elements(l)
            BY <2>1, <3>11 DEF IsWithout
        <3>14. ret' = 0 /\ crashed' = crashed
            BY <1>2, <2>1, <2>8, <2>9, <2>10, <2>12, <3>9, Zenon DEF DeleteRange, Change
        <3>15. a <= b
            BY <2>5, <2>6
        <3> QED
            BY <3>10, <3>12, <3>13, <3>14, <3>15, RemovalStep, Zenon DEF ListStep
    <2> QED
        BY <2>11, <2>12
<1> QED
    BY <1>1, <1>2

\* Removal of everything.
LEMMA ClearStep ==
    ASSUME IInv, Clear
    PROVE  IInv' /\ ListStep
<1>1. CASE l.iter_active
    <2>1. Refuse(-1)
        BY <1>1 DEF Clear
    <2> QED
        BY <2>1, RefuseStep, Zenon DEF ListStep, Refuse
<1>2. CASE ~l.iter_active
    <2>1. PICK x, h, c : x = l /\ h = heap /\ Consistent(x, h, c)
        BY ListNow
    <2>2. /\ Sound(x, c) /\ x.numels \in Nat /\ x.iter_active \in BOOLEAN
          /\ Chained(x.next, x.prev, c, x.numels)
        BY <2>1, Zenon DEF Consistent, Sound
    <2>3. x.iter_active = FALSE
        BY <1>2, <2>1, <2>2, Zenon
    <2>4. PICK n \in Nat : n = x.numels
        BY <2>2
    <2>5. c[1 - 1] = HEAD /\ c[n + 1] = TAIL
        <3>1. c[0] = HEAD /\ c[n + 1] = TAIL /\ 1 - 1 = 0
            BY <2>2, <2>4 DEF Chained
        <3> QED
            BY <3>1
    <2>6. Chain(x) = Run(c, 1, n)
        <3>1. Chain(x) = [i \in 1..n |-> c[i]]
            BY <2>2, <2>4, ElementsAt
        <3>2. n - 1 + 1 = n /\ \A i \in 1..n : 1 + i - 1 = i
            OBVIOUS
        <3> QED
            BY <3>1, <3>2 DEF Run
    <2>7. PICK y : y = Unlink(x, Run(c, 1, n), c[1 - 1], c[n + 1], NULL)
        OBVIOUS
    <2>8. PICK g : g = h \ (Range(Run(c, 1, n)) \ Range(Spare(x, Run(c, 1, n))))
        OBVIOUS
    <2>9. HasRemoved(x, y, g, c, n, 1, n)
        <3>1. 1 \in 1..(n + 1) /\ n \in (1 - 1)..n /\ n - (n - 1 + 1) = 0
            OBVIOUS
        <3>2. IsMiddle(NULL, Removed(c, n, 1, n), n - (n - 1 + 1))
            BY <3>1 DEF IsMiddle
        <3>3. HasRemoved(x, Unlink(x, Run(c, 1, n), c[1 - 1], c[n + 1], NULL),
                         h \ (Range(Run(c, 1, n)) \ Range(Spare(x, Run(c, 1, n)))), c, n, 1, n)
            BY <2>1, <2>3, <2>4, <3>1, <3>2, RemoveConsistent, Zenon
        <3> QED
            BY <2>7, <2>8, <3>3, Zenon
    <2>10. y = l' /\ g = heap' /\ ret' = 0
        <3>1. /\ l' = Unlink(x, Chain(x), HEAD, TAIL, NULL)
              /\ heap' = Remaining(Chain(x)) /\ ret' = 0
            BY <1>2, <2>1, Zenon DEF Clear, Change
        <3>2. y = l' /\ ret' = 0
            BY <3>1, <2>5, <2>6, <2>7, Zenon
        <3>3. g = heap'
            BY <3>1, <2>1, <2>6, <2>8, Zenon DEF Remaining
        <3> QED
            BY <3>2, <3>3
    <2>11. IInv'
        BY <2>9, <2>10, Keeps DEF HasRemoved
    <2>12. Elements(y) = <<>> /\ y.iter_active = FALSE
        <3>1. PICK t : t = Elements(y)
            OBVIOUS
        <3>2. Sound(y, Removed(c, n, 1, n)) /\ IsRemoval(t, Elements(x), n, 1, n)
            BY <2>9, <3>1, Zenon DEF HasRemoved, Consistent
        <3>3. t \in Seq(Data)
            BY <3>1, <3>2, ElementsAt, Zenon
        <3>4. DOMAIN t = 1..(n - (n - 1 + 1)) /\ n - (n - 1 + 1) = 0
            BY <3>2 DEF IsRemoval
        <3>5. t = <<>>
            BY <3>3, <3>4
        <3>6. y.iter_active = FALSE
            BY <2>3, <2>9, Zenon DEF HasRemoved, Kept
        <3> QED
            BY <3>1, <3>5, <3>6
    <2>13. ret' = 0 /\ crashed' = crashed
        BY <1>2, <2>10, Zenon DEF Clear, Change
    <2>14. ~List!Iterating /\ UNCHANGED (IF l.iter_active THEN l.iter_pos ELSE -1)
        BY <2>1, <2>3, <2>10, <2>12 DEF List!Iterating
    <2>15. Elements(l)' = <<>>
        BY <2>10, <2>12
    <2>16. PICK s : s = Elements(l) /\ s \in Seq(Data) /\ Len(s) = n
        <3>1. Elements(x) \in Seq(Data) /\ Len(Elements(x)) = x.numels
            BY <2>2, ElementsAt
        <3> QED
            BY <3>1, <2>1, <2>4, Zenon
    <2>17. CASE n = 0
        <3>1. List!Clear
            BY <2>13, <2>14, <2>15, <2>16, <2>17 DEF List!Clear
        <3> QED
            BY <2>11, <2>13, <3>1, Zenon DEF ListStep, List!Next
    <2>18. CASE n # 0
        <3>1. 1 \in DOMAIN s /\ n \in DOMAIN s /\ 1 <= n
            BY <2>16, <2>18
        <3>2. SubSeq(s, 1, 1 - 1) \o SubSeq(s, n + 1, Len(s)) = <<>>
            <4>1. SubSeq(s, 1, 0) = <<>> /\ SubSeq(s, n + 1, n) = <<>>
                BY <2>16
            <4> QED
                BY <2>16, <4>1
        <3>3. List!Removal(1, n)
            BY <2>14, <2>15, <2>16, <3>2, Zenon DEF List!Removal
        <3> QED
            BY <2>11, <2>13, <2>16, <3>1, <3>3, RemovalStep, Zenon DEF ListStep
    <2> QED
        BY <2>17, <2>18
<1> QED
    BY <1>1, <1>2

\* The first list is a prefix of the concatenation.
LEMMA PrefixIs ==
    ASSUME NEW s \in Seq(Data), NEW t \in Seq(Data), NEW w, w = s \o t
    PROVE  w \in Seq(Data) /\ List!IsPrefix(s, w)
<1>1. w \in Seq(Data) /\ Len(w) = Len(s) + Len(t)
    OBVIOUS
<1>2. \A i \in 1..Len(s) : w[i] = s[i]
    BY ConcatAt, Zenon
<1>3. PICK n \in Nat : n = Len(s)
    OBVIOUS
<1>4. n <= Len(w)
    BY <1>1, <1>3
<1>5. SubSeq(s, 1, n) = SubSeq(w, 1, n)
    <2>1. PICK u : u = SubSeq(s, 1, n)
        OBVIOUS
    <2>2. PICK v : v = SubSeq(w, 1, n)
        OBVIOUS
    <2>3. u \in Seq(Data) /\ Len(u) = n /\ \A i \in 1..n : u[i] = s[i]
        BY <1>3, <2>1
    <2>4. v \in Seq(Data) /\ Len(v) = n /\ \A i \in 1..n : v[i] = w[i]
        BY <1>1, <1>3, <1>4, <2>2
    <2>5. \A i \in 1..n : u[i] = v[i]
        BY <1>2, <1>3, <2>3, <2>4
    <2>6. u = v
        BY <2>3, <2>4, <2>5
    <2> QED
        BY <2>1, <2>2, <2>6, Zenon
<1> QED
    BY <1>1, <1>3, <1>4, <1>5 DEF List!IsPrefix

\* Concatenation, into a new list that is not being iterated.
LEMMA ConcatenateStep ==
    ASSUME IInv, NEW s \in SeqOf(Data, MaxLength - l.numels), Concatenate(s)
    PROVE  IInv' /\ List!Next
<1>1. PICK x, h, c : x = l /\ h = heap /\ Consistent(x, h, c)
    BY ListNow
<1>2. Sound(x, c) /\ x.numels \in Nat /\ x.numels <= MaxLength
    BY <1>1, Zenon DEF Consistent, Sound
<1>3. PICK M \in Int : M = MaxLength - x.numels
    BY <1>2, SimListAssumption
<1>4. PICK m \in 0..M : s \in [1..m -> Data]
    BY <1>1, <1>3 DEF SeqOf
<1>5. s \in Seq(Data) /\ Len(s) = m
    BY <1>4
<1>6. PICK z : z = Filled(s)
    OBVIOUS
<1>7. FilledSoFar(z, s, Len(s))
    BY <1>5, <1>6, FilledIs, Zenon
<1>8. Sound(z, Fresh(m)) /\ z.numels = m
    BY <1>5, <1>7, Zenon DEF FilledSoFar
<1>9. x.numels + z.numels <= MaxLength
    BY <1>2, <1>3, <1>4, <1>8, SimListAssumption
<1>10. PICK y : y = list_concat(x, z)
    OBVIOUS
<1>11. PICK g : g = DOMAIN y.next \ {HEAD, TAIL}
    OBVIOUS
<1>12. /\ Consistent(y, g, Places(y))
       /\ Elements(y) = Elements(x) \o Elements(z)
       /\ y.iter_active = FALSE
    BY <1>2, <1>8, <1>9, <1>10, <1>11, ConcatIs
<1>13. y = l' /\ g = heap' /\ ret' = 0
    BY <1>1, <1>6, <1>10, <1>11, Zenon DEF Concatenate, Change
<1>14. IInv'
    BY <1>12, <1>13, Keeps
<1>15. Elements(x) \in Seq(Data) /\ Elements(z) \in Seq(Data)
    BY <1>2, <1>8, ElementsAt, Zenon
<1>16. Elements(y) \in Seq(Data) /\ List!IsPrefix(Elements(x), Elements(y))
    BY <1>12, <1>15, PrefixIs, Zenon
<1>17. List!Concatenate
    BY <1>1, <1>12, <1>13, <1>16 DEF List!Concatenate
<1> QED
    BY <1>14, <1>17 DEF List!Next

\* Sorting: the same elements as often, in order.
LEMMA SortStep ==
    ASSUME IInv, Sort
    PROVE  IInv' /\ List!Next
<1>1. CASE l.iter_active \/ ~l.comparator
    <2>1. Refuse(-1)
        BY <1>1 DEF Sort
    <2> QED
        BY <2>1, RefuseStep
<1>2. CASE ~(l.iter_active \/ ~l.comparator)
    <2>1. PICK x, h, c : x = l /\ h = heap /\ Consistent(x, h, c)
        BY ListNow
    <2>2. x.iter_active = FALSE
        <3>1. x.iter_active \in BOOLEAN
            BY <2>1, Zenon DEF Consistent
        <3> QED
            BY <1>2, <2>1, <3>1, Zenon
    <2>3. PICK y : y = Arranged(x, Chain(x), Ascending(Elements(x)))
        OBVIOUS
    <2>4. y = l' /\ h = heap' /\ ret' = 0
        <3>1. /\ l' = Arranged(l, Chain(l), Ascending(Elements(l)))
              /\ heap' = heap /\ ret' = 0
            BY <1>2 DEF Sort, Change, Arranged
        <3> QED
            BY <2>1, <2>3, <3>1, Zenon
    <2>5. /\ Consistent(y, h, c) /\ Kept(x, y)
          /\ ToBag(Elements(y)) = ToBag(Elements(x))
          /\ \A i, j \in DOMAIN Elements(y) : i < j => Elements(y)[i] <= Elements(y)[j]
        <3>1. Consistent(x, h, c)
            BY <2>1
        <3> QED
            BY <2>2, <2>3, <3>1, SortConsistent
    <2>6. IInv'
        BY <2>4, <2>5, Keeps
    <2>7. y.iter_active = FALSE
        BY <2>2, <2>5, Zenon DEF Kept
    <2>8. List!ToBag(Elements(y)) = List!ToBag(Elements(x))
        <3>1. ASSUME NEW S PROVE List!Cardinality(S) = Cardinality(S)
            BY DEF Cardinality, List!Cardinality
        <3>2. ASSUME NEW w PROVE List!ToBag(w) = ToBag(w)
            BY <3>1 DEF ToBag, List!ToBag, Range, List!Range
        <3> QED
            BY <2>5, <3>2, Zenon
    <2>9. /\ ~List!Iterating
          /\ UNCHANGED (IF l.iter_active THEN l.iter_pos ELSE -1)
        BY <2>1, <2>2, <2>4, <2>7 DEF List!Iterating
    <2>10. List!Sort
        <3>1. List!ToBag(Elements(l)') = List!ToBag(Elements(l))
            BY <2>1, <2>4, <2>8
        <3>2. \A i, j \in DOMAIN Elements(l)' : i < j => Elements(l)'[i] <= Elements(l)'[j]
            BY <2>4, <2>5
        <3> QED
            BY <2>4, <2>9, <3>1, <3>2, Zenon DEF List!Sort
    <2> QED
        BY <2>6, <2>10 DEF List!Next
<1> QED
    BY <1>1, <1>2

--------------------------------------------------------------------------------
(* The extrema.                                                              *)

\* f[i] is the extremum of the first i elements of s, up to the n-th.
Scans(f, s, n, versus) ==
    f = [i \in 1..n |-> IF i = 1 THEN s[1]
                        ELSE IF list_comparator(f[i - 1], s[i]) * versus > 0 THEN s[i]
                        ELSE f[i - 1]]

\* The loop of list_get_minmax has a result.
LEMMA ScanExists ==
    ASSUME NEW n \in Nat, NEW s, NEW versus
    PROVE  \E f : Scans(f, s, n, versus)
<1> DEFINE T == {k \in Nat : \E f : Scans(f, s, k, versus)}
<1>1. 0 \in T
    <2>1. PICK f : f = [i \in 1..0 |-> 0]
        OBVIOUS
    <2>2. Scans(f, s, 0, versus)
        <3>1. PICK g : g = [i \in 1..0 |->
                  IF i = 1 THEN s[1]
                  ELSE IF list_comparator(f[i - 1], s[i]) * versus > 0 THEN s[i]
                  ELSE f[i - 1]]
            OBVIOUS
        <3>2. DOMAIN g = 1..0 /\ DOMAIN f = 1..0 /\ \A i \in 1..0 : f[i] = g[i]
            BY <2>1, <3>1
        <3>3. g = [i \in 1..0 |-> g[i]] /\ f = [i \in 1..0 |-> f[i]]
            BY <2>1, <3>1
        <3>4. f = g
            BY <3>2, <3>3
        <3> QED
            BY <3>1, <3>4, Zenon DEF Scans
    <2> QED
        BY <2>2
<1>2. ASSUME NEW k \in Nat, k \in T PROVE k + 1 \in T
    <2>1. PICK f : Scans(f, s, k, versus)
        BY <1>2
    <2>2. PICK v : v = IF k = 0 THEN s[1]
                       ELSE IF list_comparator(f[k], s[k + 1]) * versus > 0 THEN s[k + 1]
                       ELSE f[k]
        OBVIOUS
    <2>3. PICK g : g = [i \in 1..(k + 1) |-> IF i <= k THEN f[i] ELSE v]
        OBVIOUS
    <2>4. ASSUME NEW i \in 1..(k + 1)
          PROVE  g[i] = IF i = 1 THEN s[1]
                        ELSE IF list_comparator(g[i - 1], s[i]) * versus > 0 THEN s[i]
                        ELSE g[i - 1]
        <3>1. CASE i \in 1..k
            <4>1. i = 1 \/ (i - 1 \in 1..k /\ i - 1 \in 1..(k + 1))
                BY <3>1
            <4>2. g[i] = f[i] /\ (i # 1 => g[i - 1] = f[i - 1])
                BY <2>3, <3>1, <4>1
            <4>3. PICK h : h = [u \in 1..k |->
                      IF u = 1 THEN s[1]
                      ELSE IF list_comparator(f[u - 1], s[u]) * versus > 0 THEN s[u]
                      ELSE f[u - 1]]
                OBVIOUS
            <4>4. f = h
                BY <2>1, <4>3, Zenon DEF Scans
            <4>5. h[i] = IF i = 1 THEN s[1]
                         ELSE IF list_comparator(f[i - 1], s[i]) * versus > 0 THEN s[i]
                         ELSE f[i - 1]
                BY <3>1, <4>3
            <4> QED
                BY <4>2, <4>4, <4>5, Zenon
        <3>2. CASE i = k + 1 /\ k = 0
            BY <2>2, <2>3, <3>2
        <3>3. CASE i = k + 1 /\ k # 0
            <4>1. i - 1 = k /\ k \in 1..(k + 1) /\ ~(i <= k) /\ i # 1
                BY <3>3
            <4>2. g[i] = v /\ g[i - 1] = f[k]
                BY <2>3, <4>1
            <4> QED
                BY <2>2, <3>3, <4>1, <4>2, Zenon
        <3> QED
            BY <3>1, <3>2, <3>3
    <2>5. Scans(g, s, k + 1, versus)
        <3>1. PICK h : h = [i \in 1..(k + 1) |->
                  IF i = 1 THEN s[1]
                  ELSE IF list_comparator(g[i - 1], s[i]) * versus > 0 THEN s[i]
                  ELSE g[i - 1]]
            OBVIOUS
        <3>2. \A i \in 1..(k + 1) : h[i] = g[i]
            BY <2>4, <3>1, Zenon
        <3>3. h = [i \in 1..(k + 1) |-> h[i]] /\ g = [i \in 1..(k + 1) |-> g[i]]
            BY <2>3, <3>1
        <3>4. h = g
            BY <3>2, <3>3
        <3> QED
            BY <3>1, <3>4, Zenon DEF Scans
    <2> QED
        BY <2>5
<1> HIDE DEF T
<1>3. Nat \subseteq T
    BY <1>1, <1>2, Induction, Zenon
<1> QED
    BY <1>3 DEF T

\* What is found is an element that none is beyond.
LEMMA ExtremumIs ==
    ASSUME NEW x, NEW c, Sound(x, c), NEW n \in Nat \ {0}, n = x.numels, x.comparator,
           NEW versus \in {-1, 1}
    PROVE  \E k \in 1..n :
               /\ list_get_minmax(x, versus) = Elements(x)[k]
               /\ \A j \in 1..n : IF versus = 1 THEN Elements(x)[j] <= Elements(x)[k]
                                  ELSE Elements(x)[k] <= Elements(x)[j]
<1>1. PICK s : s = Elements(x)
    OBVIOUS
<1>2. s \in Seq(Data) /\ Len(s) = n
    BY <1>1, ElementsAt
<1>3. \A i \in 1..n : s[i] \in Nat
    <2>1. \A i \in 1..n : s[i] \in Data
        BY <1>2
    <2>2. Data \subseteq Nat
        BY SimListAssumption
    <2> QED
        BY <2>1, <2>2, Zenon
<1>4. PICK f : f = CHOOSE g : Scans(g, s, n, versus)
    OBVIOUS
<1>5. Scans(f, s, n, versus)
    BY <1>4, ScanExists, Zenon
<1>6. list_get_minmax(x, versus) = f[n]
    <2>1. f = CHOOSE g : g = [i \in 1..x.numels |->
              IF i = 1 THEN s[1]
              ELSE IF list_comparator(g[i - 1], s[i]) * versus > 0 THEN s[i]
              ELSE g[i - 1]]
        BY <1>4, Zenon DEF Scans
    <2>2. ~(~x.comparator \/ x.numels = 0)
        OBVIOUS
    <2> QED
        BY <1>1, <2>1, <2>2, Zenon DEF list_get_minmax
<1>7. /\ f[1] = s[1]
      /\ \A i \in 2..n : f[i] = IF list_comparator(f[i - 1], s[i]) * versus > 0 THEN s[i]
                                ELSE f[i - 1]
    <2>1. PICK g : g = [i \in 1..n |->
              IF i = 1 THEN s[1]
              ELSE IF list_comparator(f[i - 1], s[i]) * versus > 0 THEN s[i]
              ELSE f[i - 1]]
        OBVIOUS
    <2>2. f = g
        BY <1>5, <2>1, Zenon DEF Scans
    <2>3. /\ g[1] = s[1]
          /\ \A i \in 2..n : g[i] = IF list_comparator(f[i - 1], s[i]) * versus > 0 THEN s[i]
                                    ELSE f[i - 1]
        BY <2>1
    <2> QED
        BY <2>2, <2>3, Zenon
<1> DEFINE Extremum(k, i) ==
               /\ k \in 1..i /\ f[i] = s[k]
               /\ \A j \in 1..i : IF versus = 1 THEN s[j] <= s[k] ELSE s[k] <= s[j]
           T == {m \in Nat : m + 1 <= n => \E k \in 1..(m + 1) : Extremum(k, m + 1)}
<1>8. 0 \in T
    <2>1. \A j \in 1..1 : j = 1
        OBVIOUS
    <2>2. 1 \in 1..n /\ s[1] \in Nat
        BY <1>3
    <2>3. Extremum(1, 1)
        BY <1>7, <2>1, <2>2
    <2> QED
        BY <2>3
<1>9. ASSUME NEW m \in Nat, m \in T PROVE m + 1 \in T
    <2> SUFFICES ASSUME (m + 1) + 1 <= n
                 PROVE  \E k \in 1..((m + 1) + 1) : Extremum(k, (m + 1) + 1)
        OBVIOUS
    <2>1. PICK i \in 1..n : i = m + 1 /\ i + 1 \in 2..n /\ i + 1 = (m + 1) + 1 /\ (i + 1) - 1 = i
        OBVIOUS
    <2>2. PICK k \in 1..i : Extremum(k, i)
        BY <1>9, <2>1
    <2>3. \A j \in 1..(i + 1) : j \in 1..i \/ j = i + 1
        OBVIOUS
    <2>4. s[k] \in Nat /\ s[i + 1] \in Nat /\ \A j \in 1..i : s[j] \in Nat
        <3>1. k \in 1..n /\ i + 1 \in 1..n /\ \A j \in 1..i : j \in 1..n
            BY <2>1
        <3> QED
            BY <3>1, <1>3
    <2>5. f[i + 1] = IF list_comparator(s[k], s[i + 1]) * versus > 0 THEN s[i + 1] ELSE s[k]
        BY <1>7, <2>1, <2>2
    <2>6. CASE IF versus = 1 THEN s[k] < s[i + 1] ELSE s[i + 1] < s[k]
        <3>1. list_comparator(s[k], s[i + 1]) * versus > 0
            BY <2>4, <2>6 DEF list_comparator
        <3>2. f[i + 1] = s[i + 1]
            BY <2>5, <3>1
        <3>3. \A j \in 1..i : IF versus = 1 THEN s[j] <= s[i + 1] ELSE s[i + 1] <= s[j]
            BY <2>2, <2>4, <2>6
        <3>4. s[i + 1] <= s[i + 1]
            BY <2>4
        <3>5. i + 1 \in 1..(i + 1)
            OBVIOUS
        <3>6. Extremum(i + 1, i + 1)
            BY <2>3, <3>2, <3>3, <3>4, <3>5
        <3> QED
            BY <2>1, <3>5, <3>6
    <2>7. CASE ~(IF versus = 1 THEN s[k] < s[i + 1] ELSE s[i + 1] < s[k])
        <3>1. ~(list_comparator(s[k], s[i + 1]) * versus > 0)
            BY <2>4, <2>7 DEF list_comparator
        <3>2. f[i + 1] = s[k]
            BY <2>5, <3>1
        <3>3. IF versus = 1 THEN s[i + 1] <= s[k] ELSE s[k] <= s[i + 1]
            BY <2>4, <2>7
        <3>4. k \in 1..(i + 1)
            OBVIOUS
        <3>5. Extremum(k, i + 1)
            BY <2>2, <2>3, <3>2, <3>3, <3>4
        <3> QED
            BY <2>1, <3>4, <3>5
    <2> QED
        BY <2>6, <2>7
<1>10. Nat \subseteq T
    <2> HIDE DEF T
    <2> QED
        BY <1>8, <1>9, Induction, Zenon
<1>11. n - 1 \in T /\ (n - 1) + 1 = n
    BY <1>10
<1>12. \E k \in 1..n : Extremum(k, n)
    BY <1>11
<1> QED
    BY <1>1, <1>6, <1>12

\* The position of an element that is there is found.
LEMMA FindIs ==
    ASSUME NEW x, NEW c, Sound(x, c), NEW n \in Nat, n = x.numels, x.comparator,
           NEW k \in 1..n
    PROVE  Elements(x)[list_find(x, Elements(x)[k]) + 1] = Elements(x)[k]
<1>1. PICK s : s = Elements(x)
    OBVIOUS
<1>2. s \in Seq(Data) /\ Len(s) = n /\ DOMAIN s = 1..n
    <2>1. s \in Seq(Data) /\ Len(s) = n
        BY <1>1, ElementsAt
    <2> QED
        BY <2>1
<1>3. \A i \in 1..n : s[i] \in Nat
    <2>1. \A i \in 1..n : s[i] \in Data
        BY <1>2
    <2>2. Data \subseteq Nat
        BY SimListAssumption
    <2> QED
        BY <2>1, <2>2, Zenon
<1>4. PICK d \in Nat : d = s[k]
    BY <1>3
<1>5. PICK found : found = {i \in DOMAIN s : Matches(x, d, s[i])}
    OBVIOUS
<1>6. found = {i \in 1..n : s[i] = d}
    <2>1. ASSUME NEW i \in 1..n PROVE Matches(x, d, s[i]) <=> s[i] = d
        <3>1. s[i] \in Nat
            BY <1>3
        <3> QED
            BY <3>1 DEF Matches, list_comparator
    <2> QED
        BY <2>1, <1>2, <1>5
<1>7. found \subseteq Nat /\ found # {}
    BY <1>4, <1>6
<1>8. Min(found) \in found
    BY <1>7, MinIs, Zenon
<1>9. PICK m \in Nat : m = Min(found)
    BY <1>7, <1>8
<1>10. s[m] = d
    BY <1>6, <1>8, <1>9
<1>11. list_find(x, d) = m - 1
    BY <1>1, <1>5, <1>7, <1>9 DEF list_find
<1>12. list_find(x, d) + 1 = m
    BY <1>11
<1> QED
    BY <1>1, <1>4, <1>10, <1>12

--------------------------------------------------------------------------------
(* What every sequence of calls keeps.                                       *)

\* A new list is linked and empty.
LEMMA Initially ==
    ASSUME Init
    PROVE  IInv /\ List!Init
<1>1. l = list_init /\ heap = {} /\ ret = 0
    BY DEF Init
<1>2. IInv
    BY <1>1, EmptyConsistent, Zenon DEF IInv
<1>3. Elements(l) = <<>> /\ l.iter_active = FALSE
    BY <1>1, EmptyConsistent, Zenon
<1> QED
    BY <1>1, <1>2, <1>3 DEF List!Init

\* The calls that follow no pointer but those they were given.
LEMMA OthersFollowNone ==
    ASSUME \/ SetComparator \/ Clear \/ Sort \/ IteratorStart \/ IteratorStop \/ Destroy
           \/ \E d \in Data, pos \in 0..l.numels + 1 : Insert(d, pos)
           \/ \E pos \in 0..l.numels : Extract(pos) \/ DeleteAt(pos)
           \/ \E s \in SeqOf(Data, MaxLength - l.numels) : Concatenate(s)
    PROVE  crashed' = crashed
<1>1. ASSUME NEW x, NEW g, NEW v, Change(x, g, v) PROVE crashed' = crashed
    BY <1>1 DEF Change
<1>2. ASSUME NEW v, Refuse(v) PROVE crashed' = crashed
    BY <1>2 DEF Refuse
<1>3. SetComparator \/ Clear \/ Sort \/ IteratorStart \/ IteratorStop \/ Destroy
          => crashed' = crashed
    BY <1>1, <1>2, Zenon
       DEF SetComparator, Clear, Sort, IteratorStart, IteratorStop, Destroy
<1>4. ASSUME NEW d \in Data, NEW pos \in 0..l.numels + 1, Insert(d, pos)
      PROVE  crashed' = crashed
    BY <1>1, <1>2, <1>4, Zenon DEF Insert
<1>5. ASSUME NEW pos \in 0..l.numels, Extract(pos) PROVE crashed' = crashed
    BY <1>1, <1>2, <1>5, Zenon DEF Extract
<1>6. ASSUME NEW pos \in 0..l.numels, DeleteAt(pos) PROVE crashed' = crashed
    BY <1>1, <1>2, <1>6, Zenon DEF DeleteAt
<1>7. ASSUME NEW s \in SeqOf(Data, MaxLength - l.numels), Concatenate(s)
      PROVE  crashed' = crashed
    BY <1>1, <1>7, Zenon DEF Concatenate
<1> QED
    BY <1>3, <1>4, <1>5, <1>6, <1>7, Zenon

\* Every call keeps the invariant, and does what the abstract list may do or leaves
\* its promise in one of the two ways.
LEMMA EveryCall ==
    ASSUME IInv, [Next]_vars
    PROVE  IInv' /\ [ListStep]_<<List!vars, crashed>>
<1>1. CASE UNCHANGED vars
    BY <1>1 DEF vars, IInv, List!vars
<1>2. ASSUME List!Next, crashed' = crashed PROVE ListStep
    BY <1>2 DEF ListStep
<1>3. CASE SetComparator
    BY <1>2, <1>3, SetComparatorStep, OthersFollowNone, Zenon
<1>4. ASSUME NEW d \in Data, NEW pos \in 0..(l.numels + 1), l.numels < MaxLength, Insert(d, pos)
      PROVE  IInv' /\ ListStep
    BY <1>2, <1>4, InsertStep, OthersFollowNone, Zenon
<1>5. ASSUME NEW pos \in 0..l.numels, Extract(pos)
      PROVE  IInv' /\ ListStep
    BY <1>2, <1>5, ExtractStep, OthersFollowNone, Zenon
<1>6. ASSUME NEW pos \in 0..l.numels, DeleteAt(pos)
      PROVE  IInv' /\ ListStep
    BY <1>2, <1>6, DeleteAtStep, OthersFollowNone, Zenon
<1>7. ASSUME NEW posstart \in 0..l.numels, NEW posend \in 0..l.numels,
             DeleteRange(posstart, posend)
      PROVE  IInv' /\ ListStep
    BY <1>7, DeleteRangeStep
<1>8. CASE Clear
    BY <1>8, ClearStep
<1>9. ASSUME NEW s \in SeqOf(Data, MaxLength - l.numels), Concatenate(s)
      PROVE  IInv' /\ ListStep
    BY <1>2, <1>9, ConcatenateStep, OthersFollowNone, Zenon
<1>10. CASE Sort
    BY <1>2, <1>10, SortStep, OthersFollowNone, Zenon
<1>11. CASE IteratorStart
    BY <1>2, <1>11, IteratorStartStep, OthersFollowNone, Zenon
<1>12. CASE IteratorNext
    BY <1>12, IteratorNextStep
<1>13. CASE IteratorStop
    BY <1>2, <1>13, IteratorStopStep, OthersFollowNone, Zenon
<1>14. CASE Destroy
    BY <1>2, <1>14, DestroyStep, OthersFollowNone, Zenon
<1> QED
    BY <1>1, <1>3, <1>4, <1>5, <1>6, <1>7, <1>8, <1>9, <1>10, <1>11, <1>12, <1>13, <1>14,
       Zenon DEF Next

\* The list is consistent after any sequence of calls (simclist.c:248-836): its
\* entries are linked in both directions, from sentinel to sentinel, the middle
\* pointer stands at their middle, and every entry allocated is in the list or spare.
THEOREM AlwaysConsistent == Spec => []IInv
<1>1. Init => IInv
    BY Initially
<1>2. IInv /\ [Next]_vars => IInv'
    BY EveryCall
<1> QED
    BY <1>1, <1>2, PTL DEF Spec

\* What the calls do is what simclist.h:175-387 promises of a list, but for the numbers
\* that removals do not return and the two null pointers: the detailed specification, with
\* its links, spare entries and middle pointer, implements the abstract one, a sequence
\* with a cursor.
THEOREM Refinement == Spec => ImplementsList
<1>1. Init => List!Init
    BY Initially
<1>2. IInv /\ [Next]_vars
          => [\/ (List!Next \/ ReturnsNoCount) /\ UNCHANGED crashed
              \/ FollowsNull]_<<List!vars, crashed>>
    BY EveryCall DEF ListStep
<1> QED
    BY <1>1, <1>2, AlwaysConsistent, PTL DEF Spec, ImplementsList

--------------------------------------------------------------------------------
(* What the invariant says of a list.                                        *)

\* A consistent list is well typed.
LEMMA ConsistentTyped ==
    ASSUME IInv
    PROVE  TypeOK
<1>1. PICK x, h, c : x = l /\ h = heap /\ Consistent(x, h, c)
    BY ListNow
<1>2. PICK n \in Nat : n = x.numels
    BY <1>1, Zenon DEF Consistent, Sound
<1>3. Chained(x.next, x.prev, c, n) /\ Holds(x.data, c, n) /\ IsMiddle(x.mid, c, n)
    BY <1>1, <1>2, Zenon DEF Consistent, Sound
<1>4. PICK D : D = {c[i] : i \in 0..(n + 1)}
    OBVIOUS
<1>5. DOMAIN x.next = D /\ DOMAIN x.prev = D /\ DOMAIN x.data = D
    BY <1>3, <1>4, Zenon DEF Chained, Holds
<1>6. \A i \in 0..(n + 1) : c[i] \in D
    BY <1>4
<1>7. ASSUME NEW e \in D PROVE x.next[e] \in D \cup {NULL} /\ x.prev[e] \in D \cup {NULL}
    <2>1. PICK i \in 0..(n + 1) : e = c[i]
        BY <1>4
    <2>2. x.next[e] \in D \cup {NULL}
        <3>1. CASE i = n + 1
            BY <1>3, <2>1, <3>1 DEF Chained
        <3>2. CASE i # n + 1
            <4>1. i \in 0..n /\ i + 1 \in 0..(n + 1)
                BY <3>2
            <4>2. x.next[e] = c[i + 1]
                BY <1>3, <2>1, <4>1, Zenon DEF Chained
            <4> QED
                BY <1>6, <4>1, <4>2, Zenon
        <3> QED
            BY <3>1, <3>2
    <2>3. x.prev[e] \in D \cup {NULL}
        <3>1. CASE i = 0
            BY <1>3, <2>1, <3>1 DEF Chained
        <3>2. CASE i # 0
            <4>1. i \in 1..(n + 1) /\ i - 1 \in 0..(n + 1)
                BY <3>2
            <4>2. x.prev[e] = c[i - 1]
                BY <1>3, <2>1, <4>1, Zenon DEF Chained
            <4> QED
                BY <1>6, <4>1, <4>2, Zenon
        <3> QED
            BY <3>1, <3>2
    <2> QED
        BY <2>2, <2>3
<1>8. x.mid \in D \cup {NULL}
    <2>1. CASE n = 0
        <3>1. HEAD \in D
            BY <1>3, <1>6 DEF Chained
        <3> QED
            BY <1>3, <2>1, <3>1 DEF IsMiddle
    <2>2. CASE n # 0
        <3>1. MidPosition(n) + 1 \in 0..(n + 1)
            BY <2>2, MiddlePlace
        <3>2. x.mid = c[MidPosition(n) + 1]
            BY <1>3, <2>2, Zenon DEF IsMiddle
        <3> QED
            BY <1>6, <3>1, <3>2, Zenon
    <2> QED
        BY <2>1, <2>2
<1>9. n \in 0..MaxLength
    <2>1. n <= MaxLength
        BY <1>1, <1>2, Zenon DEF Consistent
    <2> QED
        BY <2>1, SimListAssumption
<1>10. x.iter_active => x.iter_pos \in 0..(n + 1)
    BY <1>1, <1>2, Zenon DEF Consistent, Iterator
<1>11. Len(x.spareels) <= SIMCLIST_MAX_SPARE_ELEMS
    BY <1>1, Zenon DEF Consistent, Spares
<1>12. \A e \in DOMAIN x.next : {x.next[e], x.prev[e]} \subseteq DOMAIN x.next \cup {NULL}
    BY <1>5, <1>7
<1>13. /\ DOMAIN l.next = DOMAIN l.prev /\ DOMAIN l.next = DOMAIN l.data
       /\ \A e \in DOMAIN l.next : {l.next[e], l.prev[e]} \subseteq DOMAIN l.next \cup {NULL}
       /\ l.numels \in 0..MaxLength
       /\ l.mid \in DOMAIN l.next \cup {NULL}
       /\ l.iter_active => l.iter_pos \in 0..l.numels + 1
       /\ Len(l.spareels) <= SIMCLIST_MAX_SPARE_ELEMS
    BY <1>1, <1>2, <1>5, <1>8, <1>9, <1>10, <1>11, <1>12, Zenon
<1> QED
    BY <1>13, Zenon DEF TypeOK

\* The library's own check, on a list that is not empty.
LEMMA Represented ==
    ASSUME NEW x, NEW h, NEW c, Consistent(x, h, c), NEW n \in Nat \ {0}, n = x.numels
    PROVE  list_repOk(x)
<1>1. Sound(x, c)
    BY Zenon DEF Consistent
<1>2. Chained(x.next, x.prev, c, n) /\ IsMiddle(x.mid, c, n)
    BY <1>1, Zenon DEF Sound
<1>3. \A i \in 0..(n + 1) : Follow(x.next, HEAD, i) = c[i]
    BY <1>1, ElementsAt, Zenon
<1>4. x.mid = Follow(x.next, HEAD, MidPosition(n) + 1)
    <2>1. MidPosition(n) + 1 \in 0..(n + 1)
        BY MiddlePlace
    <2>2. n # 0
        OBVIOUS
    <2> QED
        BY <1>2, <1>3, <2>1, <2>2, Zenon DEF IsMiddle
<1>5. Follow(x.next, HEAD, n + 1) = TAIL
    <2>1. n + 1 \in 0..(n + 1)
        OBVIOUS
    <2> QED
        BY <1>2, <1>3, <2>1, Zenon DEF Chained
<1>6. ASSUME NEW e \in DOMAIN x.next \ {TAIL} PROVE x.prev[x.next[e]] = e
    <2>1. PICK i \in 0..(n + 1) : e = c[i]
        BY <1>2 DEF Chained
    <2>2. i # n + 1
        BY <1>2, <2>1 DEF Chained
    <2>3. i \in 0..n /\ i + 1 \in 1..(n + 1) /\ (i + 1) - 1 = i
        BY <2>2
    <2>4. x.next[e] = c[i + 1]
        BY <1>2, <2>1, <2>3, Zenon DEF Chained
    <2>5. x.prev[c[i + 1]] = c[(i + 1) - 1]
        BY <1>2, <2>3, Zenon DEF Chained
    <2> QED
        BY <2>1, <2>3, <2>4, <2>5, Zenon
<1>7. x.prev[HEAD] = NULL /\ x.next[TAIL] = NULL
    BY <1>2, Zenon DEF Chained
<1>8. Len(x.spareels) <= SIMCLIST_MAX_SPARE_ELEMS
    BY Zenon DEF Consistent, Spares
<1>9. n > 0
    OBVIOUS
<1> QED
    BY <1>4, <1>5, <1>6, <1>7, <1>8, <1>9, Zenon DEF list_repOk

\* A consistent list is linked as simclist.c:843-873 requires, with its heap and iterator.
LEMMA ConsistentLinked ==
    ASSUME IInv
    PROVE  LinkedAround
<1>1. PICK x, h, c : x = l /\ h = heap /\ Consistent(x, h, c)
    BY ListNow
<1>2. PICK n \in Nat : n = x.numels
    BY <1>1, Zenon DEF Consistent, Sound
<1>3. Sound(x, c) /\ Chained(x.next, x.prev, c, n)
    BY <1>1, <1>2, Zenon DEF Consistent, Sound
<1>4. n > 0 => list_repOk(x)
    <2>1. ASSUME n > 0 PROVE list_repOk(x)
        <3>1. n \in Nat \ {0}
            BY <2>1
        <3> QED
            BY <1>1, <1>2, <3>1, Represented
    <2> QED
        BY <2>1
<1>5. h = Range(Chain(x)) \cup Range(x.spareels)
    <2>1. PICK s : s = Chain(x)
        OBVIOUS
    <2>2. s = [i \in 1..n |-> c[i]]
        <3>1. Chain(x) = [i \in 1..x.numels |-> c[i]]
            BY <1>3, ElementsAt
        <3> QED
            BY <1>2, <2>1, <3>1
    <2>3. Range(s) = Entries(c, n)
        BY <2>2 DEF Range, Entries
    <2>4. h = Entries(c, n) \cup Range(x.spareels)
        BY <1>1, <1>2, Zenon DEF Consistent
    <2> QED
        BY <2>1, <2>3, <2>4, Zenon
<1>6. Cardinality(h) = x.numels + Len(x.spareels)
    BY <1>1, HeapCount, Zenon
<1>7. x.iter_active => (list_iterator_hasnext(x) <=> x.iter_curentry \notin {TAIL, NULL})
    <2>1. ASSUME x.iter_active
          PROVE  x.iter_pos < n <=> x.iter_curentry \notin {TAIL, NULL}
        <3>1. PICK p \in 0..(n + 1) : p = x.iter_pos
            BY <1>1, <1>2, <2>1 DEF Consistent, Iterator
        <3>2. x.iter_curentry = IF p <= n THEN c[p + 1] ELSE NULL
            BY <1>1, <1>2, <2>1, <3>1, Zenon DEF Consistent, Iterator
        <3>3. CASE p < n
            <4>1. p + 1 \in 1..n /\ p <= n
                BY <3>3
            <4>2. c[p + 1] \in Addresses
                BY <1>3, <4>1, Zenon DEF Chained
            <4>3. x.iter_curentry = c[p + 1]
                BY <3>2, <4>1
            <4>4. \A a \in Addresses : a \notin {TAIL, NULL}
                BY DEF Addresses, TAIL, NULL
            <4> QED
                BY <3>1, <3>3, <4>2, <4>3, <4>4, Zenon
        <3>4. CASE p = n
            <4>1. x.iter_curentry = c[n + 1]
                BY <3>2, <3>4
            <4>2. c[n + 1] = TAIL
                BY <1>3, Zenon DEF Chained
            <4>3. ~(p < n)
                BY <3>4
            <4> QED
                BY <3>1, <4>1, <4>2, <4>3
        <3>5. CASE p = n + 1
            <4>1. ~(p <= n) /\ ~(p < n)
                BY <3>5
            <4> QED
                BY <3>1, <3>2, <4>1
        <3> QED
            BY <3>3, <3>4, <3>5
    <2> QED
        BY <1>2, <2>1, Zenon DEF list_iterator_hasnext
<1>8. l.numels > 0 => list_repOk(l)
    BY <1>1, <1>2, <1>4, Zenon
<1> QED
    BY <1>1, <1>5, <1>6, <1>7, <1>8, Zenon DEF LinkedAround

\* A consistent list is read, and searched, correctly.
LEMMA ConsistentAnswers ==
    ASSUME IInv
    PROVE  QueriesAgree
<1>1. PICK x, h, c : x = l /\ h = heap /\ Consistent(x, h, c)
    BY ListNow
<1>2. PICK n \in Nat : n = x.numels
    BY <1>1, Zenon DEF Consistent, Sound
<1>3. /\ Sound(x, c) /\ Chained(x.next, x.prev, c, n) /\ Holds(x.data, c, n)
      /\ IsMiddle(x.mid, c, n)
    BY <1>1, <1>2, Zenon DEF Consistent, Sound
<1>4. PICK s : s = Elements(x)
    OBVIOUS
<1>5. s \in Seq(Data) /\ Len(s) = n /\ s = [i \in 1..n |-> x.data[c[i]]]
    BY <1>2, <1>3, <1>4, ElementsAt, Zenon DEF At
<1>6. ASSUME NEW pos \in 0..n
      PROVE  list_get_at(x, pos) = IF pos < n THEN s[pos + 1] ELSE NULL
    <2>1. list_findpos(x, pos) = c[pos + 1]
        <3>1. pos \in -1..x.numels
            BY <1>2
        <3>2. x.numels \in Nat /\ Chained(x.next, x.prev, c, x.numels) /\ IsMiddle(x.mid, c, x.numels)
            BY <1>2, <1>3, Zenon
        <3> QED
            BY <3>1, <3>2, FindPos, Zenon
    <2>2. c[pos + 1] # NULL
        <3>1. pos + 1 \in 1..n \/ pos + 1 = n + 1
            OBVIOUS
        <3> QED
            BY <1>3, <3>1 DEF Chained, Addresses, TAIL, NULL
    <2>3. list_get_at(x, pos) = x.data[c[pos + 1]]
        BY <2>1, <2>2, Zenon DEF list_get_at
    <2>4. CASE pos < n
        <3>1. pos + 1 \in 1..n
            BY <2>4
        <3>2. s[pos + 1] = x.data[c[pos + 1]]
            BY <1>5, <3>1
        <3> QED
            BY <2>3, <2>4, <3>2, Zenon
    <2>5. CASE ~(pos < n)
        <3>1. pos + 1 = n + 1
            BY <2>5
        <3>2. x.data[c[pos + 1]] = NULL
            BY <1>3, <3>1 DEF Chained, Holds
        <3> QED
            BY <2>3, <2>5, <3>2, Zenon
    <2> QED
        BY <2>4, <2>5
<1>7. ASSUME x.comparator, NEW d \in Range(s)
      PROVE  /\ list_get_minmax(x, -1) <= d /\ d <= list_get_minmax(x, 1)
             /\ s[list_find(x, list_get_minmax(x, 1)) + 1] >= d
    <2>1. DOMAIN s = 1..n
        BY <1>5
    <2>2. PICK j \in 1..n : d = s[j]
        BY <1>7, <2>1 DEF Range
    <2>3. n \in Nat \ {0} /\ -1 \in {-1, 1} /\ 1 \in {-1, 1} /\ -1 # 1
        BY <2>2
    <2>4. PICK a \in 1..n : /\ list_get_minmax(x, -1) = s[a]
                            /\ \A i \in 1..n : IF -1 = 1 THEN s[i] <= s[a] ELSE s[a] <= s[i]
        BY <1>2, <1>3, <1>4, <1>7, <2>3, ExtremumIs, Zenon
    <2>5. PICK b \in 1..n : /\ list_get_minmax(x, 1) = s[b]
                            /\ \A i \in 1..n : IF 1 = 1 THEN s[i] <= s[b] ELSE s[b] <= s[i]
        BY <1>2, <1>3, <1>4, <1>7, <2>3, ExtremumIs, Zenon
    <2>6. s[a] <= d /\ d <= s[b]
        BY <2>2, <2>4, <2>5
    <2>7. s[list_find(x, s[b]) + 1] = s[b]
        BY <1>2, <1>3, <1>4, <1>7, FindIs, Zenon
    <2>8. s[b] \in Nat /\ d \in Nat
        <3>1. s[b] \in Data /\ s[j] \in Data
            BY <1>5, <2>1
        <3>2. Data \subseteq Nat
            BY SimListAssumption
        <3> QED
            BY <2>2, <3>1, <3>2, Zenon
    <2>9. s[b] >= d
        BY <2>6, <2>8
    <2> QED
        BY <2>4, <2>5, <2>6, <2>7, <2>9, Zenon
<1>8. \A pos \in 0..l.numels :
          list_get_at(l, pos) = IF pos < l.numels THEN Elements(l)[pos + 1] ELSE NULL
    BY <1>1, <1>2, <1>4, <1>6, Zenon
<1>9. l.comparator =>
          \A d \in Range(Elements(l)) :
              /\ list_get_minmax(l, -1) <= d /\ d <= list_get_minmax(l, 1)
              /\ Elements(l)[list_find(l, list_get_minmax(l, 1)) + 1] >= d
    BY <1>1, <1>4, <1>7, Zenon
<1> QED
    BY <1>8, <1>9, Zenon DEF QueriesAgree

\* Links lead to entries of the list, or nowhere, the list is no longer than its
\* clients make it, and no more entries are spare than there is room for
\* (simclist.c:49, 763-768).
THEOREM TypeCorrect == Spec => []TypeOK
<1>1. IInv => TypeOK
    BY ConsistentTyped
<1> QED
    BY <1>1, AlwaysConsistent, PTL

\* The check of simclist.c:843-873 holds of every list that is not empty, every entry
\* allocated is in the list or spare, once, and while the list is iterated over the
\* count and the pointer of the iterator say the same (simclist.c:702-717).
THEOREM Linked == Spec => []LinkedAround
<1>1. IInv => LinkedAround
    BY ConsistentLinked
<1> QED
    BY <1>1, AlwaysConsistent, PTL

\* Whatever end or middle a position is counted from (simclist.c:221-245), it is read
\* as that position; the extrema are extrema, and the search finds them
\* (simclist.c:194-218, 444-462).
THEOREM Queries == Spec => []QueriesAgree
<1>1. IInv => QueriesAgree
    BY ConsistentAnswers
<1> QED
    BY <1>1, AlwaysConsistent, PTL

--------------------------------------------------------------------------------
(* Where a null pointer is followed.                                         *)

\* A step that follows one asks for what is behind the sentinel behind the last
\* element, or deletes the whole list as a range; and the latter always does.
NullFollowed ==
    /\ crashed' # crashed => \/ IteratorNext /\ l.iter_pos = l.numels + 1
                             \/ DeleteRange(0, l.numels - 1)
    /\ l.numels > 0 /\ ~l.iter_active /\ DeleteRange(0, l.numels - 1) =>
           crashed' = "list_delete_range"

\* Where the middle pointer leads when a range of a list is deleted.
LEMMA RangeLeads ==
    ASSUME IInv, ~l.iter_active, NEW posstart \in 0..l.numels, NEW posend \in 0..l.numels,
           posstart <= posend, posend < l.numels,
           NEW k, k = Len(SubSeq(Chain(l), posstart + 1, posend + 1))
    PROVE  MidAfterRange(l, posstart, k) = NULL <=> posstart = 0 /\ posend = l.numels - 1
<1>1. PICK x, h, c : x = l /\ h = heap /\ Consistent(x, h, c)
    BY ListNow
<1>2. Sound(x, c) /\ x.numels \in Nat /\ x.numels <= MaxLength
    BY <1>1, Zenon DEF Consistent, Sound
<1>3. PICK n \in Nat \ {0} : n = x.numels /\ n = l.numels /\ n <= MaxLength
    BY <1>1, <1>2
<1>4. posstart \in 0..(n - 1) /\ posend \in 0..(n - 1)
    BY <1>3
<1>5. PICK m \in 1..(n - posstart) : m = posend - posstart + 1
    BY <1>4
<1>6. k = m
    <2>1. Chain(x) = [i \in 1..n |-> c[i]]
        BY <1>2, <1>3, ElementsAt
    <2>2. PICK w : w = Chain(x)
        OBVIOUS
    <2>3. Len(SubSeq(w, posstart + 1, posend + 1)) = m
        BY <1>4, <1>5, <2>1, <2>2
    <2> QED
        BY <1>1, <2>2, <2>3, Zenon
<1>7. /\ m = n => MidAfterRange(x, posstart, m) = NULL
      /\ m < n => MidAfterRange(x, posstart, m) # NULL
    BY <1>2, <1>3, <1>4, RangeMiddle
<1>8. m = n <=> posstart = 0 /\ posend = n - 1
    BY <1>4, <1>5
<1>9. m = n \/ m < n
    BY <1>5
<1>10. MidAfterRange(x, posstart, m) = NULL <=> posstart = 0 /\ posend = n - 1
    BY <1>7, <1>8, <1>9, Zenon
<1> QED
    BY <1>1, <1>3, <1>6, <1>10, Zenon

\* What is behind the sentinel is no entry.
LEMMA IteratorFollows ==
    ASSUME IInv, IteratorNext, crashed' # crashed
    PROVE  l.iter_pos = l.numels + 1
<1>1. l.iter_active /\ l.iter_curentry = NULL
    BY DEF IteratorNext, Change, Refuse
<1> QED
    BY <1>1, AtTheEnd

\* Only a deletion of everything leads the middle pointer out of the list.
LEMMA RangeFollows ==
    ASSUME IInv, NEW posstart \in 0..l.numels, NEW posend \in 0..l.numels,
           DeleteRange(posstart, posend), crashed' # crashed
    PROVE  posstart = 0 /\ posend = l.numels - 1
<1>1. ~l.iter_active /\ ~(posend < posstart) /\ ~(posend >= l.numels)
    BY Zenon DEF DeleteRange, Refuse
<1>2. l.numels \in Nat
    <2>1. PICK x, h, c : x = l /\ h = heap /\ Consistent(x, h, c)
        BY ListNow
    <2> QED
        BY <2>1, Zenon DEF Consistent, Sound
<1>3. posstart <= posend /\ posend < l.numels
    BY <1>1, <1>2
<1>4. PICK k : k = Len(SubSeq(Chain(l), posstart + 1, posend + 1))
    OBVIOUS
<1>5. MidAfterRange(l, posstart, k) = NULL
    BY <1>1, <1>4, Zenon DEF DeleteRange, Change
<1> QED
    BY <1>1, <1>3, <1>4, <1>5, RangeLeads, Zenon

\* And that always does.
LEMMA WholeFollows ==
    ASSUME IInv, l.numels > 0, ~l.iter_active, DeleteRange(0, l.numels - 1)
    PROVE  crashed' = "list_delete_range"
<1>1. l.numels \in Nat
    <2>1. PICK x, h, c : x = l /\ h = heap /\ Consistent(x, h, c)
        BY ListNow
    <2> QED
        BY <2>1, Zenon DEF Consistent, Sound
<1>2. PICK q \in 0..l.numels : q = l.numels - 1
    BY <1>1
<1>3. 0 \in 0..l.numels /\ 0 <= q /\ q < l.numels /\ ~(q < 0) /\ ~(q >= l.numels)
    BY <1>1, <1>2
<1>4. PICK k : k = Len(SubSeq(Chain(l), 0 + 1, q + 1))
    OBVIOUS
<1>5. MidAfterRange(l, 0, k) = NULL
    BY <1>2, <1>3, <1>4, RangeLeads, Zenon
<1>6. DeleteRange(0, q)
    BY <1>2, Zenon
<1> QED
    BY <1>3, <1>4, <1>5, <1>6, Zenon DEF DeleteRange, Crash

\* Outside of an iteration that went too far, deleting all elements as a range
\* (simclist.c:340-353) is the one call of the library that follows a null pointer, and
\* it always does: the middle after it is computed from numels - 1 - numdel, which wraps.
THEOREM NullPointers == Spec => [][NullFollowed]_vars
<1>1. ASSUME IInv, Next PROVE NullFollowed
    <2>1. crashed' # crashed => \/ IteratorNext /\ l.iter_pos = l.numels + 1
                                \/ DeleteRange(0, l.numels - 1)
        <3> SUFFICES ASSUME crashed' # crashed
                     PROVE  \/ IteratorNext /\ l.iter_pos = l.numels + 1
                            \/ DeleteRange(0, l.numels - 1)
            OBVIOUS
        <3>1. \/ IteratorNext
              \/ \E posstart, posend \in 0..l.numels : DeleteRange(posstart, posend)
            BY <1>1, OthersFollowNone, Zenon DEF Next
        <3>2. CASE IteratorNext
            BY <1>1, <3>2, IteratorFollows, Zenon
        <3>3. ASSUME NEW posstart \in 0..l.numels, NEW posend \in 0..l.numels,
                     DeleteRange(posstart, posend)
              PROVE  DeleteRange(0, l.numels - 1)
            <4>1. posstart = 0 /\ posend = l.numels - 1
                BY <1>1, <3>3, RangeFollows, Zenon
            <4> QED
                BY <3>3, <4>1, Zenon
        <3> QED
            BY <3>1, <3>2, <3>3
    <2>2. l.numels > 0 /\ ~l.iter_active /\ DeleteRange(0, l.numels - 1) =>
              crashed' = "list_delete_range"
        BY <1>1, WholeFollows
    <2> QED
        BY <2>1, <2>2, Zenon DEF NullFollowed
<1>2. IInv /\ [Next]_vars => [NullFollowed]_vars
    BY <1>1
<1> QED
    BY <1>2, AlwaysConsistent, PTL DEF Spec
================================================================================
