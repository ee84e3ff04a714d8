------------------------------ MODULE OptionsProofs ------------------------------
(***************************************************************************)
(* The dictionary of the configuration parser is a map, whatever the hash   *)
(* function, the keys, the files and the calls, and get_options makes of the *)
(* files and the command line what Options says of it, for any number of     *)
(* arguments and codecs.  What is saved of a dictionary is read back.        *)
(***************************************************************************)
EXTENDS Options, Recursion, FiniteSetTheorems

--------------------------------------------------------------------------------
(* The dictionary.                                                           *)

Keys == DOMAIN Hash
Texts == DOMAIN Crop \cup {NULL}

Full(key, val) == [key |-> key, val |-> val, hash |-> Hash[key]]

LEMMA NoKey == NULL \notin Keys
BY NullAssumption, TextAssumption DEF Keys

\* What is in lower case stays as it is.
LEMMA LowerCase ==
    ASSUME NEW key \in Seq(DOMAIN Lower)
    PROVE  /\ strlwc(key) \in Seq(DOMAIN Lower) /\ Len(strlwc(key)) = Len(key)
           /\ strlwc(strlwc(key)) = strlwc(key)
<1>1. PICK n \in Nat : n = Len(key) /\ DOMAIN key = 1..n
    OBVIOUS
<1>2. PICK k : k = strlwc(key)
    OBVIOUS
<1>3. k = [i \in 1..n |-> Lower[key[i]]] /\ \A i \in 1..n : key[i] \in DOMAIN Lower
    BY <1>1, <1>2 DEF strlwc
<1>4. \A i \in 1..n : k[i] = Lower[key[i]] /\ k[i] \in DOMAIN Lower /\ Lower[k[i]] = k[i]
    BY <1>3, TextAssumption
<1>5. k \in Seq(DOMAIN Lower) /\ Len(k) = n /\ DOMAIN k = 1..n
    BY <1>3, <1>4
<1>6. strlwc(k) = k
    BY <1>3, <1>4, <1>5 DEF strlwc
<1> QED
    BY <1>1, <1>2, <1>5, <1>6

\* The slots are empty or full, no key is there twice, and the full ones are counted.
Good(d) ==
    /\ d \in Dictionary
    /\ Len(d.slots) > 0
    /\ \A i \in DOMAIN d.slots :
           d.slots[i] = Empty \/ (d.slots[i].key \in Keys /\ d.slots[i].hash = Hash[d.slots[i].key])
    /\ \A i, j \in Occupied(d) : d.slots[i].key = d.slots[j].key => i = j
    /\ d.n = Cardinality(Occupied(d))

\* No slot is empty in front of a full one: nothing was removed yet.
Compact(d) == Occupied(d) = 1..d.n

\* First gives the smallest number of a set.
LEMMA FirstIs ==
    ASSUME NEW T, T \subseteq Nat, NEW j \in T
    PROVE  First(T) \in T /\ \A i \in T : First(T) <= i
<1>1. \E i \in T : \A k \in T : i <= k
    BY LeastNatural
<1> QED
    BY <1>1, Zenon DEF First

LEMMA GoodFacts ==
    ASSUME NEW d, Good(d)
    PROVE  /\ Len(d.slots) \in Nat /\ DOMAIN d.slots = 1..Len(d.slots)
           /\ d.slots \in Seq(Slot) /\ d.n \in Nat /\ d = [n |-> d.n, slots |-> d.slots]
           /\ Occupied(d) = {i \in 1..Len(d.slots) : d.slots[i].key # NULL}
           /\ IsFiniteSet(Occupied(d)) /\ d.n = Cardinality(Occupied(d))
           /\ d.n <= Len(d.slots)
           /\ d.n = Len(d.slots) => Occupied(d) = 1..Len(d.slots)
<1>1. /\ Len(d.slots) \in Nat /\ DOMAIN d.slots = 1..Len(d.slots)
      /\ d.slots \in Seq(Slot) /\ d.n \in Nat /\ d = [n |-> d.n, slots |-> d.slots]
    BY DEF Good, Dictionary
<1>2. Occupied(d) = {i \in 1..Len(d.slots) : d.slots[i].key # NULL}
    BY <1>1, Zenon DEF Occupied
<1>3. IsFiniteSet(1..Len(d.slots)) /\ Cardinality(1..Len(d.slots)) = Len(d.slots)
    <2>1. \A k \in Nat : IsFiniteSet(1..k) /\ Cardinality(1..k) = k
        BY FS_Interval
    <2> QED
        BY <1>1, <2>1
<1>4. Occupied(d) \subseteq 1..Len(d.slots)
    BY <1>2
<1>5. IsFiniteSet(Occupied(d)) /\ Cardinality(Occupied(d)) <= Len(d.slots)
      /\ (Cardinality(Occupied(d)) = Len(d.slots) => Occupied(d) = 1..Len(d.slots))
    BY <1>3, <1>4, FS_Subset
<1>6. d.n = Cardinality(Occupied(d))
    BY DEF Good
<1> QED
    BY <1>1, <1>2, <1>5, <1>6

\* A stored key is in one slot, which the search finds.
LEMMA HoldingIs ==
    ASSUME NEW d, Good(d), NEW i \in Occupied(d)
    PROVE  /\ d.slots[i].key \in Keys /\ d.slots[i].key # NULL
           /\ Holding(d, d.slots[i].key) = {i} /\ First(Holding(d, d.slots[i].key)) = i
           /\ Entry(d, d.slots[i].key) = d.slots[i].val /\ d.slots[i].val \in Texts
<1>1. i \in DOMAIN d.slots /\ d.slots[i].key # NULL /\ d.slots[i] # Empty
    BY DEF Occupied, Empty
<1>2. d.slots[i].key \in Keys /\ d.slots[i].hash = Hash[d.slots[i].key]
    BY <1>1 DEF Good
<1>3. Holding(d, d.slots[i].key) = {i}
    <2>1. \A j \in Occupied(d) : d.slots[j].key = d.slots[i].key => j = i
        BY DEF Good
    <2> QED
        BY <1>2, <2>1, Zenon DEF Holding
<1>4. First(Holding(d, d.slots[i].key)) = i
    <2>1. i \in Nat /\ i <= i
        BY <1>1, GoodFacts
    <2>2. {i} \subseteq Nat
        BY <2>1
    <2>3. First({i}) \in {i}
        BY <2>2, FirstIs
    <2> QED
        BY <2>3, <1>3
<1>5. d.slots[i].val \in Texts
    <2>1. d.slots[i] \in Slot
        BY <1>1, GoodFacts
    <2> QED
        BY <2>1 DEF Slot, Texts
<1> QED
    BY <1>1, <1>2, <1>3, <1>4, <1>5 DEF Entry

LEMMA HoldingNone ==
    ASSUME NEW d, NEW key, key \notin Stored(d)
    PROVE  Holding(d, key) = {}
BY DEF Holding, Stored

\* The new dictionary is empty.
LEMMA NewDictionary ==
    /\ Good(dictionary_new) /\ Compact(dictionary_new) /\ Stored(dictionary_new) = {}
<1>1. DICTMINSZ \in Nat \ {0}
    BY IniParserAssumption
<1>2. Empty \in Slot
    BY DEF Empty, Slot, Texts
<1> DEFINE s == Blackboard(DICTMINSZ)
<1>3. s \in Seq(Slot) /\ Len(s) = DICTMINSZ /\ DOMAIN s = 1..DICTMINSZ /\ \A i \in DOMAIN s : s[i] = Empty
    BY <1>1, <1>2 DEF Blackboard
<1>4. dictionary_new = [n |-> 0, slots |-> s]
    BY DEF dictionary_new
<1> HIDE DEF s
<1>5. Occupied(dictionary_new) = {}
    BY <1>3, <1>4 DEF Occupied, Empty
<1>6. Cardinality(Occupied(dictionary_new)) = 0
    BY <1>5, FS_EmptySet
<1>7. Good(dictionary_new)
    BY <1>1, <1>3, <1>4, <1>5, <1>6 DEF Good, Dictionary
<1> QED
    BY <1>4, <1>5, <1>7 DEF Compact, Stored

\* e is d but for another value in the slot i.
Replaces(d, e, i, val) ==
    /\ Good(e) /\ e.n = d.n /\ Occupied(e) = Occupied(d)
    /\ \A j \in Occupied(d) : /\ e.slots[j].key = d.slots[j].key
                              /\ e.slots[j].val = IF j = i THEN val ELSE d.slots[j].val

\* The value of a stored key is replaced in its slot.
LEMMA SetKnown ==
    ASSUME NEW d, Good(d), NEW i \in Occupied(d), NEW val \in Texts
    PROVE  Replaces(d, dictionary_set(d, d.slots[i].key, val), i, val)
<1> DEFINE key == d.slots[i].key
<1>1. /\ Len(d.slots) \in Nat /\ DOMAIN d.slots = 1..Len(d.slots)
      /\ d.slots \in Seq(Slot) /\ d.n \in Nat /\ d = [n |-> d.n, slots |-> d.slots]
      /\ Occupied(d) = {j \in 1..Len(d.slots) : d.slots[j].key # NULL}
      /\ IsFiniteSet(Occupied(d)) /\ d.n = Cardinality(Occupied(d))
    BY GoodFacts
<1>2. key \in Keys /\ key # NULL /\ Holding(d, key) = {i} /\ First({i}) = i
    BY HoldingIs
<1>3. d.n > 0
    <2>1. d.n # 0
        BY <1>1, FS_EmptySet
    <2> QED
        BY <2>1, <1>1
<1>4. dictionary_set(d, key, val) = [d EXCEPT !.slots[i].val = val]
    <2>1. Holding(d, key) # {}
        BY <1>2
    <2> HIDE DEF key
    <2> QED
        BY <1>2, <1>3, <2>1, Zenon DEF dictionary_set
<1>5. PICK t : t = [d.slots EXCEPT ![i].val = val]
    OBVIOUS
<1>6. dictionary_set(d, key, val) = [n |-> d.n, slots |-> t]
    BY <1>1, <1>4, <1>5
<1>7. d.slots[i] \in Slot /\ i \in 1..Len(d.slots) /\ d.slots[i].hash = Hash[key]
    BY <1>1, <1>2, HoldingIs DEF Good, Empty
<1>8. t[i] = [d.slots[i] EXCEPT !.val = val] /\ t[i] \in Slot
      /\ t[i].key = key /\ t[i].val = val /\ t[i].hash = d.slots[i].hash
    BY <1>1, <1>5, <1>7 DEF Slot, Texts
<1>9. /\ t \in Seq(Slot) /\ Len(t) = Len(d.slots) /\ DOMAIN t = 1..Len(d.slots)
      /\ \A j \in 1..Len(d.slots) : j # i => t[j] = d.slots[j]
    <2>1. \A j \in 1..Len(d.slots) : j # i => t[j] = d.slots[j]
        BY <1>1, <1>5
    <2>2. DOMAIN t = 1..Len(d.slots)
        BY <1>1, <1>5
    <2>3. \A j \in 1..Len(d.slots) : t[j] \in Slot
        BY <1>1, <1>8, <2>1
    <2>4. t = [j \in 1..Len(d.slots) |-> t[j]]
        BY <1>1, <1>5, <2>2
    <2>5. t \in [1..Len(d.slots) -> Slot]
        BY <2>2, <2>3, <2>4
    <2>6. t \in Seq(Slot) /\ Len(t) = Len(d.slots)
        BY <2>5, <1>1
    <2> QED
        BY <2>1, <2>2, <2>6
<1>10. PICK e : e = [n |-> d.n, slots |-> t]
    OBVIOUS
<1>11. e.n = d.n /\ e.slots = t
    BY <1>10
<1>12. Occupied(e) = Occupied(d)
    BY <1>1, <1>2, <1>8, <1>9, <1>11 DEF Occupied
<1>13. Good(e)
    <2>1. e \in Dictionary
        BY <1>1, <1>9, <1>10 DEF Dictionary
    <2>2. Len(e.slots) > 0
        BY <1>9, <1>11 DEF Good
    <2>3. ASSUME NEW j \in DOMAIN e.slots
          PROVE  e.slots[j] = Empty \/ (e.slots[j].key \in Keys /\ e.slots[j].hash = Hash[e.slots[j].key])
        <3>1. CASE j = i
            BY <3>1, <1>2, <1>7, <1>8, <1>11
        <3>2. CASE j # i
            BY <3>2, <1>1, <1>9, <1>11 DEF Good
        <3> QED
            BY <3>1, <3>2
    <2>4. ASSUME NEW j \in Occupied(e), NEW k \in Occupied(e), e.slots[j].key = e.slots[k].key PROVE j = k
        <3>1. j \in Occupied(d) /\ k \in Occupied(d) /\ d.slots[j].key = d.slots[k].key
            BY <2>4, <1>1, <1>8, <1>9, <1>11, <1>12
        <3> QED
            BY <3>1 DEF Good
    <2>5. e.n = Cardinality(Occupied(e))
        BY <1>1, <1>11, <1>12
    <2> QED
        BY <2>1, <2>2, <2>3, <2>4, <2>5, Zenon DEF Good
<1>14. \A j \in Occupied(d) : /\ e.slots[j].key = d.slots[j].key
                             /\ e.slots[j].val = IF j = i THEN val ELSE d.slots[j].val
    BY <1>1, <1>8, <1>9, <1>11
<1>15. e = dictionary_set(d, d.slots[i].key, val)
    BY <1>6, <1>10, Zenon
<1> QED
    BY <1>11, <1>12, <1>13, <1>14, <1>15, Zenon DEF Replaces

LEMMA ConcatIs ==
    ASSUME NEW S, NEW q \in Seq(S), NEW b \in Seq(S)
    PROVE  /\ q \o b \in Seq(S) /\ Len(q \o b) = Len(q) + Len(b)
           /\ \A j \in 1..Len(q) : (q \o b)[j] = q[j]
           /\ \A j \in 1..Len(q \o b) : j > Len(q) => (q \o b)[j] = b[j - Len(q)]
OBVIOUS

\* There is an empty slot, after the arrays have grown if it must be.
LEMMA RoomForOne ==
    ASSUME NEW d, Good(d)
    PROVE  LET s == IF d.n = Len(d.slots) THEN mem_double(d.slots) ELSE d.slots
               i == First({j \in DOMAIN s : s[j].key = NULL}) IN
           /\ s \in Seq(Slot) /\ Len(s) >= Len(d.slots)
           /\ \A j \in 1..Len(d.slots) : s[j] = d.slots[j]
           /\ \A j \in 1..Len(s) : j > Len(d.slots) => s[j] = Empty
           /\ i \in 1..Len(s) /\ s[i].key = NULL /\ i \notin Occupied(d)
           /\ \A j \in 1..Len(s) : s[j].key = NULL => i <= j
<1>1. /\ Len(d.slots) \in Nat /\ DOMAIN d.slots = 1..Len(d.slots)
      /\ d.slots \in Seq(Slot) /\ d.n \in Nat /\ d.n <= Len(d.slots)
      /\ Occupied(d) = {j \in 1..Len(d.slots) : d.slots[j].key # NULL}
      /\ IsFiniteSet(Occupied(d)) /\ d.n = Cardinality(Occupied(d))
    BY GoodFacts
<1>2. Len(d.slots) > 0
    BY DEF Good
<1>3. PICK s : s = IF d.n = Len(d.slots) THEN mem_double(d.slots) ELSE d.slots
    OBVIOUS
<1>4. /\ s \in Seq(Slot) /\ Len(s) >= Len(d.slots)
      /\ \A j \in 1..Len(d.slots) : s[j] = d.slots[j]
      /\ \A j \in 1..Len(s) : j > Len(d.slots) => s[j] = Empty
      /\ d.n = Len(d.slots) => Len(s) = 2 * Len(d.slots)
      /\ d.n # Len(d.slots) => s = d.slots
    <2>1. CASE d.n = Len(d.slots)
        <3> DEFINE b == Blackboard(Len(d.slots))
        <3>1. Empty \in Slot
            BY DEF Empty, Slot, Texts
        <3>2. b \in Seq(Slot) /\ Len(b) = Len(d.slots) /\ \A j \in 1..Len(d.slots) : b[j] = Empty
            BY <1>1, <3>1 DEF Blackboard
        <3>3. s = d.slots \o b
            BY <1>3, <2>1, Zenon DEF mem_double
        <3> HIDE DEF b
        <3>4. /\ s \in Seq(Slot) /\ Len(s) = Len(d.slots) + Len(b)
              /\ \A j \in 1..Len(d.slots) : s[j] = d.slots[j]
              /\ \A j \in 1..Len(s) : j > Len(d.slots) => s[j] = b[j - Len(d.slots)]
            <4>1. d.slots \in Seq(Slot) /\ b \in Seq(Slot)
                BY <1>1, <3>2
            <4>2. /\ d.slots \o b \in Seq(Slot) /\ Len(d.slots \o b) = Len(d.slots) + Len(b)
                  /\ \A j \in 1..Len(d.slots) : (d.slots \o b)[j] = d.slots[j]
                  /\ \A j \in 1..Len(d.slots \o b) :
                         j > Len(d.slots) => (d.slots \o b)[j] = b[j - Len(d.slots)]
                BY <4>1, ConcatIs, Zenon
            <4> QED
                BY <3>3, <4>2, Zenon
        <3>5. Len(s) = 2 * Len(d.slots)
            BY <1>1, <3>2, <3>4
        <3>6. ASSUME NEW j \in 1..Len(s), j > Len(d.slots) PROVE s[j] = Empty
            <4>1. j - Len(d.slots) \in 1..Len(d.slots)
                BY <1>1, <3>5, <3>6
            <4> QED
                BY <4>1, <3>2, <3>4, <3>6
        <3>7. Len(s) >= Len(d.slots)
            BY <1>1, <3>5
        <3> QED
            BY <2>1, <3>4, <3>5, <3>6, <3>7, Zenon
    <2>2. CASE d.n # Len(d.slots)
        <3>1. s = d.slots
            BY <1>3, <2>2, Zenon
        <3>2. Len(d.slots) >= Len(d.slots) /\ \A j \in 1..Len(d.slots) : ~(j > Len(d.slots))
            BY <1>1
        <3> QED
            BY <1>1, <2>2, <3>1, <3>2, Zenon
    <2> QED
        BY <2>1, <2>2, Zenon
<1>5. PICK T : T = {j \in DOMAIN s : s[j].key = NULL}
    OBVIOUS
<1>6. Len(s) \in Nat /\ DOMAIN s = 1..Len(s) /\ T = {j \in 1..Len(s) : s[j].key = NULL} /\ T \subseteq Nat
    BY <1>4, <1>5
<1>7. T # {}
    <2>1. CASE d.n = Len(d.slots)
        <3>0. Len(s) = 2 * Len(d.slots)
            BY <1>4, <2>1, Zenon
        <3>1. Len(d.slots) + 1 \in 1..Len(s) /\ Len(d.slots) + 1 > Len(d.slots)
            BY <3>0, <1>1, <1>2
        <3>2. s[Len(d.slots) + 1] = Empty
            BY <1>4, <3>1
        <3> QED
            BY <1>6, <3>1, <3>2 DEF Empty
    <2>2. CASE d.n # Len(d.slots)
        <3>1. Occupied(d) # 1..Len(d.slots)
            <4>1. Cardinality(1..Len(d.slots)) = Len(d.slots)
                <5>1. \A k \in Nat : Cardinality(1..k) = k
                    BY FS_Interval
                <5> QED
                    BY <1>1, <5>1
            <4> QED
                BY <4>1, <1>1, <2>2
        <3>2. PICK j \in 1..Len(d.slots) : d.slots[j].key = NULL
            BY <3>1, <1>1
        <3> QED
            BY <3>2, <1>4, <1>6, <2>2
    <2> QED
        BY <2>1, <2>2
<1>8. First(T) \in T /\ \A j \in T : First(T) <= j
    BY <1>6, <1>7, FirstIs
<1>9. PICK i : i = First(T)
    OBVIOUS
<1>10. i \in 1..Len(s) /\ s[i].key = NULL /\ (\A j \in 1..Len(s) : s[j].key = NULL => i <= j)
    BY <1>6, <1>8, <1>9
<1>11. i \notin Occupied(d)
    BY <1>1, <1>4, <1>10
<1> QED
    BY <1>3, <1>4, <1>5, <1>9, <1>10, <1>11, Zenon

\* e is d but for a new entry in the slot i.
Adds(d, e, i, key, val) ==
    /\ Good(e) /\ e.n = d.n + 1
    /\ i \notin Occupied(d) /\ Occupied(e) = Occupied(d) \cup {i}
    /\ e.slots[i].key = key /\ e.slots[i].val = val
    /\ \A j \in Occupied(d) : e.slots[j].key = d.slots[j].key /\ e.slots[j].val = d.slots[j].val
    /\ Compact(d) => i = d.n + 1

LEMMA SetNew ==
    ASSUME NEW d, Good(d), NEW key \in Keys, key \notin Stored(d), NEW val \in Texts
    PROVE  \E i \in Nat : Adds(d, dictionary_set(d, key, val), i, key, val)
<1>1. PICK s : s = IF d.n = Len(d.slots) THEN mem_double(d.slots) ELSE d.slots
    OBVIOUS
<1>2. PICK i : i = First({j \in DOMAIN s : s[j].key = NULL})
    OBVIOUS
<1>3. /\ s \in Seq(Slot) /\ Len(s) >= Len(d.slots)
      /\ \A j \in 1..Len(d.slots) : s[j] = d.slots[j]
      /\ \A j \in 1..Len(s) : j > Len(d.slots) => s[j] = Empty
      /\ i \in 1..Len(s) /\ s[i].key = NULL /\ i \notin Occupied(d)
      /\ \A j \in 1..Len(s) : s[j].key = NULL => i <= j
    BY <1>1, <1>2, RoomForOne, Zenon
<1>4. /\ Len(d.slots) \in Nat /\ DOMAIN d.slots = 1..Len(d.slots)
      /\ d.n \in Nat /\ d.n <= Len(d.slots)
      /\ Occupied(d) = {j \in 1..Len(d.slots) : d.slots[j].key # NULL}
      /\ IsFiniteSet(Occupied(d)) /\ d.n = Cardinality(Occupied(d))
    BY GoodFacts
<1>5. PICK t : t = [s EXCEPT ![i] = Full(key, val)]
    OBVIOUS
<1>6. PICK e : e = [n |-> d.n + 1, slots |-> t]
    OBVIOUS
<1>7. e = dictionary_set(d, key, val)
    <2>1. Holding(d, key) = {}
        BY HoldingNone
    <2>2. dictionary_set(d, key, val) = [n |-> d.n + 1, slots |-> [s EXCEPT ![i] = Full(key, val)]]
        BY <1>1, <1>2, <2>1, Zenon DEF dictionary_set, Full
    <2> QED
        BY <2>2, <1>5, <1>6, Zenon
<1>8. key # NULL
    BY NoKey DEF Keys
<1>9. Full(key, val) \in Slot /\ Full(key, val).key = key /\ Full(key, val).val = val
      /\ Full(key, val).hash = Hash[key]
    BY IniParserAssumption DEF Full, Slot, Keys, Texts
<1>10. /\ Len(s) \in Nat /\ t \in Seq(Slot) /\ Len(t) = Len(s) /\ DOMAIN t = 1..Len(s)
       /\ t[i] = Full(key, val) /\ \A j \in 1..Len(s) : j # i => t[j] = s[j]
    <2>1. Len(s) \in Nat /\ DOMAIN s = 1..Len(s) /\ s \in [1..Len(s) -> Slot] /\ i \in 1..Len(s)
        BY <1>3
    <2> HIDE DEF Full
    <2>2. t \in [1..Len(s) -> Slot] /\ t[i] = Full(key, val) /\ \A j \in 1..Len(s) : j # i => t[j] = s[j]
        BY <2>1, <1>5, <1>9
    <2>3. t \in Seq(Slot) /\ Len(t) = Len(s) /\ DOMAIN t = 1..Len(s)
        BY <2>1, <2>2
    <2> QED
        BY <2>1, <2>2, <2>3, Zenon
<1>11. e.n = d.n + 1 /\ e.slots = t
    BY <1>6
<1>12. i \in Nat /\ \A j \in 1..Len(s) : j \in Nat
    BY <1>3, <1>10
<1>13. \A j \in 1..Len(d.slots) : j \in 1..Len(s)
    BY <1>3, <1>4, <1>10
<1>14. \A j \in 1..Len(s) : j # i => (t[j].key # NULL <=> j \in Occupied(d))
    <2> SUFFICES ASSUME NEW j \in 1..Len(s), j # i PROVE t[j].key # NULL <=> j \in Occupied(d)
        OBVIOUS
    <2>1. CASE j > Len(d.slots)
        <3>1. t[j] = Empty
            BY <1>3, <1>10, <2>1
        <3>2. j \notin 1..Len(d.slots)
            BY <2>1, <1>4
        <3> QED
            BY <3>1, <3>2, <1>4 DEF Empty
    <2>2. CASE ~(j > Len(d.slots))
        <3>1. j \in 1..Len(d.slots)
            BY <2>2, <1>4, <1>10
        <3>2. t[j] = d.slots[j]
            BY <1>3, <1>10, <3>1
        <3> QED
            BY <3>1, <3>2, <1>4
    <2> QED
        BY <2>1, <2>2
<1>15. Occupied(e) = Occupied(d) \cup {i}
    <2>1. Occupied(e) = {j \in 1..Len(s) : t[j].key # NULL}
        BY <1>10, <1>11, Zenon DEF Occupied
    <2>2. t[i].key # NULL /\ i \in 1..Len(s)
        BY <1>3, <1>8, <1>9, <1>10
    <2>3. \A j \in Occupied(d) : j \in 1..Len(s) /\ j # i
        BY <1>3, <1>4, <1>13
    <2> QED
        BY <2>1, <2>2, <2>3, <1>14
<1>16. \A j \in Occupied(d) : j # i /\ j \in 1..Len(s) /\ t[j] = d.slots[j]
    BY <1>3, <1>4, <1>10, <1>13
<1>17. Good(e)
    <2>1. e \in Dictionary
        BY <1>4, <1>6, <1>10 DEF Dictionary
    <2>2. Len(e.slots) > 0
        BY <1>3, <1>4, <1>10, <1>11 DEF Good
    <2>3. ASSUME NEW j \in DOMAIN e.slots
          PROVE  e.slots[j] = Empty \/ (e.slots[j].key \in Keys /\ e.slots[j].hash = Hash[e.slots[j].key])
        <3>1. CASE j = i
            BY <3>1, <1>9, <1>10, <1>11
        <3>2. CASE j # i /\ j \in Occupied(d)
            <4>1. e.slots[j] = d.slots[j]
                BY <3>2, <1>11, <1>16
            <4>2. j \in DOMAIN d.slots
                BY <3>2 DEF Occupied
            <4> QED
                BY <4>1, <4>2 DEF Good
        <3>3. CASE j # i /\ j \notin Occupied(d)
            <4>1. j \in 1..Len(s) /\ e.slots[j] = s[j] /\ s[j].key = NULL
                BY <3>3, <1>10, <1>11, <1>14
            <4>2. CASE j > Len(d.slots)
                BY <4>1, <4>2, <1>3
            <4>3. CASE ~(j > Len(d.slots))
                <5>1. j \in DOMAIN d.slots /\ s[j] = d.slots[j]
                    BY <4>1, <4>3, <1>3, <1>4
                <5>2. d.slots[j].key \notin Keys
                    BY <5>1, <4>1, NoKey DEF Keys
                <5> QED
                    BY <4>1, <5>1, <5>2 DEF Good
            <4> QED
                BY <4>2, <4>3
        <3> QED
            BY <3>1, <3>2, <3>3
    <2>4. ASSUME NEW j \in Occupied(e), NEW k \in Occupied(e), e.slots[j].key = e.slots[k].key PROVE j = k
        <3>1. \A h \in Occupied(d) : e.slots[h].key = d.slots[h].key /\ d.slots[h].key # key
            BY <1>11, <1>16 DEF Stored
        <3>2. e.slots[i].key = key
            BY <1>9, <1>10, <1>11
        <3>3. CASE j \in Occupied(d) /\ k \in Occupied(d)
            BY <3>1, <3>3, <2>4 DEF Good
        <3> QED
            BY <3>1, <3>2, <3>3, <2>4, <1>15
    <2>5. e.n = Cardinality(Occupied(e))
        <3>1. IsFiniteSet(Occupied(d)) /\ i \notin Occupied(d)
            BY <1>3, <1>4
        <3>2. Cardinality(Occupied(d) \cup {i}) = Cardinality(Occupied(d)) + 1
            BY <3>1, FS_AddElement
        <3> QED
            BY <3>2, <1>4, <1>11, <1>15, Zenon
    <2> QED
        BY <2>1, <2>2, <2>3, <2>4, <2>5, Zenon DEF Good
<1>18. ASSUME Compact(d) PROVE i = d.n + 1
    <2>1. Occupied(d) = 1..d.n
        BY <1>18 DEF Compact
    <2>2. i > d.n
        BY <2>1, <1>3, <1>4, <1>12
    <2>3. d.n + 1 \in 1..Len(s)
        BY <2>2, <1>3, <1>4, <1>10
    <2>4. s[d.n + 1].key = NULL
        <3>1. d.n + 1 \notin Occupied(d)
            BY <2>1, <1>4
        <3>2. CASE d.n + 1 > Len(d.slots)
            BY <3>2, <2>3, <1>3 DEF Empty
        <3>3. CASE ~(d.n + 1 > Len(d.slots))
            <4>1. d.n + 1 \in 1..Len(d.slots)
                BY <3>3, <1>4
            <4> QED
                BY <4>1, <3>1, <1>3, <1>4
        <3> QED
            BY <3>2, <3>3
    <2>5. i <= d.n + 1
        BY <2>3, <2>4, <1>3
    <2> QED
        BY <2>2, <2>5, <1>4, <1>12
<1>19. Adds(d, e, i, key, val)
    <2>1. e.slots[i].key = key /\ e.slots[i].val = val
        BY <1>9, <1>10, <1>11
    <2>2. \A j \in Occupied(d) : e.slots[j].key = d.slots[j].key /\ e.slots[j].val = d.slots[j].val
        BY <1>11, <1>16, Zenon
    <2> QED
        BY <2>1, <2>2, <1>3, <1>11, <1>15, <1>17, <1>18, Zenon DEF Adds
<1> QED
    BY <1>7, <1>12, <1>19, Zenon

\* e is d but for the entry of the slot i.
Removes(d, e, i) ==
    /\ Good(e) /\ Occupied(e) = Occupied(d) \ {i}
    /\ \A j \in Occupied(d) \ {i} : e.slots[j].key = d.slots[j].key /\ e.slots[j].val = d.slots[j].val

\* An entry is removed from its slot.
LEMMA UnsetKnown ==
    ASSUME NEW d, Good(d), NEW i \in Occupied(d)
    PROVE  Removes(d, dictionary_unset(d, d.slots[i].key), i)
<1> DEFINE key == d.slots[i].key
<1>1. /\ Len(d.slots) \in Nat /\ DOMAIN d.slots = 1..Len(d.slots)
      /\ d.slots \in Seq(Slot) /\ d.n \in Nat
      /\ Occupied(d) = {j \in 1..Len(d.slots) : d.slots[j].key # NULL}
      /\ IsFiniteSet(Occupied(d)) /\ d.n = Cardinality(Occupied(d))
    BY GoodFacts
<1>2. key # NULL /\ Holding(d, key) = {i} /\ First({i}) = i
    BY HoldingIs
<1>3. PICK t : t = [d.slots EXCEPT ![i] = Empty]
    OBVIOUS
<1>4. PICK e : e = [n |-> d.n - 1, slots |-> t]
    OBVIOUS
<1>5. e = dictionary_unset(d, key)
    <2>1. Holding(d, key) # {}
        BY <1>2
    <2> HIDE DEF key
    <2> QED
        BY <1>2, <1>3, <1>4, <2>1, Zenon DEF dictionary_unset
<1>6. Empty \in Slot /\ Empty.key = NULL
    BY DEF Empty, Slot, Texts
<1>7. /\ t \in Seq(Slot) /\ Len(t) = Len(d.slots) /\ DOMAIN t = 1..Len(d.slots)
      /\ t[i] = Empty /\ \A j \in 1..Len(d.slots) : j # i => t[j] = d.slots[j]
    <2>1. d.slots \in [1..Len(d.slots) -> Slot] /\ i \in 1..Len(d.slots)
        BY <1>1
    <2>2. /\ t \in [1..Len(d.slots) -> Slot] /\ t[i] = Empty
          /\ \A j \in 1..Len(d.slots) : j # i => t[j] = d.slots[j]
        BY <2>1, <1>3, <1>6
    <2>3. t \in Seq(Slot) /\ Len(t) = Len(d.slots) /\ DOMAIN t = 1..Len(d.slots)
        BY <2>2, <1>1
    <2> QED
        BY <2>2, <2>3, Zenon
<1>8. e.n = d.n - 1 /\ e.slots = t
    BY <1>4
<1>9. Occupied(e) = Occupied(d) \ {i}
    BY <1>1, <1>6, <1>7, <1>8 DEF Occupied
<1>10. Cardinality(Occupied(e)) = d.n - 1 /\ Cardinality(Occupied(e)) \in Nat
    <2>1. Cardinality(Occupied(d) \ {i}) = Cardinality(Occupied(d)) - 1 /\ IsFiniteSet(Occupied(d) \ {i})
        BY <1>1, FS_RemoveElement
    <2>2. Cardinality(Occupied(d) \ {i}) \in Nat
        BY <2>1, FS_CardinalityType
    <2> QED
        BY <2>1, <2>2, <1>1, <1>9, Zenon
<1>11. Good(e)
    <2>1. e \in Dictionary
        BY <1>4, <1>7, <1>10 DEF Dictionary
    <2>2. Len(e.slots) > 0
        BY <1>7, <1>8 DEF Good
    <2>3. ASSUME NEW j \in DOMAIN e.slots
          PROVE  e.slots[j] = Empty \/ (e.slots[j].key \in Keys /\ e.slots[j].hash = Hash[e.slots[j].key])
        <3>1. CASE j = i
            BY <3>1, <1>7, <1>8
        <3>2. CASE j # i
            BY <3>2, <1>1, <1>7, <1>8 DEF Good
        <3> QED
            BY <3>1, <3>2
    <2>4. ASSUME NEW j \in Occupied(e), NEW k \in Occupied(e), e.slots[j].key = e.slots[k].key PROVE j = k
        <3>1. j \in Occupied(d) /\ k \in Occupied(d) /\ d.slots[j].key = d.slots[k].key
            BY <2>4, <1>1, <1>7, <1>8, <1>9
        <3> QED
            BY <3>1 DEF Good
    <2>5. e.n = Cardinality(Occupied(e))
        BY <1>8, <1>10
    <2> QED
        BY <2>1, <2>2, <2>3, <2>4, <2>5, Zenon DEF Good
<1>12. \A j \in Occupied(d) \ {i} : e.slots[j].key = d.slots[j].key /\ e.slots[j].val = d.slots[j].val
    BY <1>1, <1>7, <1>8
<1> QED
    BY <1>5, <1>9, <1>11, <1>12, Zenon DEF Removes

--------------------------------------------------------------------------------
(* The dictionary as a map.                                                  *)

LEMMA ContentsIs ==
    ASSUME NEW d, Good(d)
    PROVE  /\ DOMAIN Contents(d) = Stored(d) /\ Stored(d) \subseteq Keys
           /\ Contents(d) \in [Stored(d) -> Texts]
           /\ \A i \in Occupied(d) : Contents(d)[d.slots[i].key] = d.slots[i].val
<1>1. \A i \in Occupied(d) : /\ d.slots[i].key \in Keys /\ d.slots[i].key \in Stored(d)
                             /\ Entry(d, d.slots[i].key) = d.slots[i].val /\ d.slots[i].val \in Texts
    <2>1. \A i \in Occupied(d) : d.slots[i].key \in Stored(d)
        BY Zenon DEF Stored
    <2> QED
        BY <2>1, HoldingIs, Zenon
<1>2. \A key \in Stored(d) : \E i \in Occupied(d) : key = d.slots[i].key
    BY Zenon DEF Stored
<1>3. \A key \in Stored(d) : key \in Keys /\ Entry(d, key) \in Texts
    BY <1>1, <1>2, Zenon
<1>4. Contents(d) = [key \in Stored(d) |-> Entry(d, key)]
    BY Zenon DEF Contents
<1> QED
    BY <1>1, <1>3, <1>4

\* What follows when e has the entries of d but for one.
With(map, key, val) == [k \in DOMAIN map \cup {key} |-> IF k = key THEN val ELSE map[k]]

LEMMA SetIsUpdate ==
    ASSUME NEW d, Good(d), NEW key \in Keys, NEW val \in Texts
    PROVE  /\ Good(dictionary_set(d, key, val))
           /\ Contents(dictionary_set(d, key, val)) = With(Contents(d), key, val)
           /\ Compact(d) => Compact(dictionary_set(d, key, val))
<1>1. PICK e : e = dictionary_set(d, key, val)
    OBVIOUS
<1>2. /\ DOMAIN Contents(d) = Stored(d)
      /\ \A i \in Occupied(d) : Contents(d)[d.slots[i].key] = d.slots[i].val
    BY ContentsIs, Zenon
<1>3. ASSUME Good(e), Stored(e) = Stored(d) \cup {key},
             \A i \in Occupied(e) :
                 e.slots[i].val = IF e.slots[i].key = key THEN val ELSE Contents(d)[e.slots[i].key]
      PROVE  Contents(e) = With(Contents(d), key, val)
    <2>1. /\ DOMAIN Contents(e) = Stored(e) /\ Contents(e) \in [Stored(e) -> Texts]
          /\ \A i \in Occupied(e) : Contents(e)[e.slots[i].key] = e.slots[i].val
        BY <1>3, ContentsIs, Zenon
    <2>2. ASSUME NEW k \in Stored(d) \cup {key}
          PROVE  Contents(e)[k] = IF k = key THEN val ELSE Contents(d)[k]
        <3>1. PICK i \in Occupied(e) : k = e.slots[i].key
            BY <1>3, Zenon DEF Stored
        <3> QED
            BY <3>1, <2>1, <1>3, Zenon
    <2>3. PICK f : f = Contents(e)
        OBVIOUS
    <2>4. f \in [Stored(d) \cup {key} -> Texts]
        BY <2>1, <2>3, <1>3, Zenon
    <2>5. f = [k \in Stored(d) \cup {key} |-> IF k = key THEN val ELSE Contents(d)[k]]
        BY <2>2, <2>3, <2>4
    <2> QED
        BY <2>3, <2>5, <1>2, Zenon DEF With
<1>4. CASE key \in Stored(d)
    <2>1. PICK i \in Occupied(d) : key = d.slots[i].key
        BY <1>4, Zenon DEF Stored
    <2>2. /\ Good(e) /\ e.n = d.n /\ Occupied(e) = Occupied(d)
          /\ \A j \in Occupied(d) : /\ e.slots[j].key = d.slots[j].key
                                    /\ e.slots[j].val = IF j = i THEN val ELSE d.slots[j].val
        <3>1. Replaces(d, e, i, val)
            BY <1>1, <2>1, SetKnown, Zenon
        <3> QED
            BY <3>1, Zenon DEF Replaces
    <2>3. \A j \in Occupied(d) : d.slots[j].key = key => j = i
        BY <2>1, Zenon DEF Good
    <2>4. Stored(e) = Stored(d)
        BY <2>2 DEF Stored
    <2>5. Stored(d) \cup {key} = Stored(d)
        BY <1>4
    <2>6. \A j \in Occupied(e) :
              e.slots[j].val = IF e.slots[j].key = key THEN val ELSE Contents(d)[e.slots[j].key]
        BY <1>2, <2>1, <2>2, <2>3, Zenon
    <2>7. Contents(e) = With(Contents(d), key, val)
        BY <1>3, <2>2, <2>4, <2>5, <2>6, Zenon
    <2>8. Compact(d) => Compact(e)
        BY <2>2, Zenon DEF Compact
    <2> QED
        BY <1>1, <2>2, <2>7, <2>8, Zenon
<1>5. CASE key \notin Stored(d)
    <2>1. PICK i \in Nat : Adds(d, e, i, key, val)
        BY <1>1, <1>5, SetNew, Zenon
    <2>2. /\ Good(e) /\ e.n = d.n + 1
          /\ i \notin Occupied(d) /\ Occupied(e) = Occupied(d) \cup {i}
          /\ e.slots[i].key = key /\ e.slots[i].val = val
          /\ \A j \in Occupied(d) : e.slots[j].key = d.slots[j].key /\ e.slots[j].val = d.slots[j].val
          /\ Compact(d) => i = d.n + 1
        BY <2>1, Zenon DEF Adds
    <2>3. Stored(e) = Stored(d) \cup {key}
        BY <2>2 DEF Stored
    <2>4. ASSUME NEW j \in Occupied(e)
          PROVE  e.slots[j].val = IF e.slots[j].key = key THEN val ELSE Contents(d)[e.slots[j].key]
        <3>1. CASE j = i
            BY <3>1, <2>2, Zenon
        <3>2. CASE j \in Occupied(d)
            <4>1. e.slots[j].key # key
                BY <3>2, <2>2, <1>5, Zenon DEF Stored
            <4> QED
                BY <4>1, <3>2, <2>2, <1>2, Zenon
        <3> QED
            BY <3>1, <3>2, <2>2
    <2>5. Contents(e) = With(Contents(d), key, val)
        BY <1>3, <2>2, <2>3, <2>4, Zenon
    <2>6. Compact(d) => Compact(e)
        <3>1. d.n \in Nat
            BY GoodFacts
        <3>2. (1..d.n) \cup {d.n + 1} = 1..(d.n + 1)
            BY <3>1
        <3> QED
            BY <3>2, <2>2, Zenon DEF Compact
    <2> QED
        BY <1>1, <2>2, <2>5, <2>6, Zenon
<1> QED
    BY <1>4, <1>5

LEMMA UnsetIsRemoval ==
    ASSUME NEW d, Good(d), NEW key \in Keys
    PROVE  /\ Good(dictionary_unset(d, key))
           /\ Contents(dictionary_unset(d, key)) = Restrict(Contents(d), DOMAIN Contents(d) \ {key})
<1>1. PICK e : e = dictionary_unset(d, key)
    OBVIOUS
<1>2. /\ DOMAIN Contents(d) = Stored(d) /\ Contents(d) \in [Stored(d) -> Texts]
      /\ \A i \in Occupied(d) : Contents(d)[d.slots[i].key] = d.slots[i].val
    BY ContentsIs, Zenon
<1>3. PICK f : f = Contents(d)
    OBVIOUS
<1>4. CASE key \in Stored(d)
    <2>1. PICK i \in Occupied(d) : key = d.slots[i].key
        BY <1>4, Zenon DEF Stored
    <2>2. /\ Good(e) /\ Occupied(e) = Occupied(d) \ {i}
          /\ \A j \in Occupied(d) \ {i} : /\ e.slots[j].key = d.slots[j].key
                                          /\ e.slots[j].val = d.slots[j].val
        <3>1. Removes(d, e, i)
            BY <1>1, <2>1, UnsetKnown, Zenon
        <3> QED
            BY <3>1, Zenon DEF Removes
    <2>3. \A j \in Occupied(d) : d.slots[j].key = key <=> j = i
        BY <2>1, Zenon DEF Good
    <2>4. Stored(e) = Stored(d) \ {key}
        BY <2>2, <2>3 DEF Stored
    <2>5. /\ DOMAIN Contents(e) = Stored(e) /\ Contents(e) \in [Stored(e) -> Texts]
          /\ \A j \in Occupied(e) : Contents(e)[e.slots[j].key] = e.slots[j].val
        BY <2>2, ContentsIs, Zenon
    <2>6. ASSUME NEW k \in Stored(d) \ {key} PROVE Contents(e)[k] = f[k]
        <3>1. PICK j \in Occupied(e) : k = e.slots[j].key
            BY <2>4, Zenon DEF Stored
        <3>2. j \in Occupied(d) \ {i}
            BY <3>1, <2>2, Zenon
        <3>3. j \in Occupied(d)
            BY <3>2
        <3> QED
            BY <3>1, <3>2, <3>3, <2>2, <2>5, <1>2, <1>3, Zenon
    <2>7. PICK g : g = Contents(e)
        OBVIOUS
    <2>8. g = [k \in Stored(d) \ {key} |-> f[k]]
        <3>1. g \in [Stored(d) \ {key} -> Texts]
            BY <2>4, <2>5, <2>7, Zenon
        <3> QED
            BY <3>1, <2>6, <2>7
    <2> QED
        BY <1>1, <1>2, <1>3, <2>2, <2>7, <2>8, Zenon DEF Restrict
<1>5. CASE key \notin Stored(d)
    <2>1. e = d
        BY <1>1, <1>5, HoldingNone, Zenon DEF dictionary_unset
    <2>2. Stored(d) \ {key} = Stored(d)
        BY <1>5
    <2>3. f = [k \in Stored(d) |-> f[k]]
        BY <1>2, <1>3
    <2> QED
        BY <1>1, <1>2, <1>3, <2>1, <2>2, <2>3, Zenon DEF Restrict
<1> QED
    BY <1>4, <1>5

\* Before anything is removed, the search for a stored key ends in its slot.
LEMMA GetIs ==
    ASSUME NEW d, Good(d), Compact(d), NEW key \in Stored(d), NEW def
    PROVE  dictionary_get(d, key, def) = Contents(d)[key]
<1>1. PICK i \in Occupied(d) : key = d.slots[i].key
    BY Zenon DEF Stored
<1>2. /\ Len(d.slots) \in Nat /\ DOMAIN d.slots = 1..Len(d.slots)
      /\ d.n \in Nat /\ d.n <= Len(d.slots) /\ Occupied(d) = 1..d.n
    BY GoodFacts DEF Compact
<1>3. key \in Keys /\ key # NULL /\ d.slots[i].hash = Hash[key] /\ Contents(d)[key] = d.slots[i].val
    <2>1. i \in DOMAIN d.slots /\ d.slots[i].key # NULL
        BY Zenon DEF Occupied
    <2>2. d.slots[i] # Empty
        BY <2>1 DEF Empty
    <2> QED
        BY <1>1, <2>1, <2>2, ContentsIs DEF Good
<1>4. PICK T : T = {j \in DOMAIN d.slots : d.slots[j].hash = Hash[key] /\ d.slots[j].key \in {key, NULL}}
    OBVIOUS
<1>5. i \in T /\ T \subseteq Nat
    BY <1>1, <1>2, <1>3, <1>4
<1>6. First(T) \in T /\ First(T) <= i
    BY <1>5, FirstIs
<1>7. First(T) \in 1..d.n
    <2>1. i \in 1..d.n /\ First(T) \in 1..Len(d.slots)
        BY <1>2, <1>4, <1>6
    <2> QED
        BY <2>1, <1>2, <1>6
<1>8. d.slots[First(T)].key = key
    <2>1. First(T) \in Occupied(d)
        BY <1>2, <1>7
    <2>2. d.slots[First(T)].key # NULL
        BY <2>1, Zenon DEF Occupied
    <2> QED
        BY <1>4, <1>6, <2>2
<1>9. First(T) = i
    <2>1. First(T) \in Occupied(d)
        BY <1>2, <1>7
    <2> QED
        BY <2>1, <1>1, <1>8, Zenon DEF Good
<1>10. ~(\A j \in DOMAIN d.slots : d.slots[j].hash # Hash[key] \/ d.slots[j].key \notin {key, NULL})
    BY <1>4, <1>5
<1>11. dictionary_get(d, key, def) = d.slots[i].val
    BY <1>1, <1>3, <1>4, <1>9, <1>10, Zenon DEF dictionary_get
<1> QED
    BY <1>3, <1>11, Zenon

--------------------------------------------------------------------------------
(* The files.                                                                *)

\* The dictionaries from which nothing was removed yet.
Grown == {d \in Dictionary : Good(d) /\ Compact(d)}

LEMMA GrownSet ==
    ASSUME NEW d \in Grown, NEW key \in Keys, NEW val \in Texts
    PROVE  dictionary_set(d, key, val) \in Grown
<1>1. Good(d) /\ Compact(d)
    BY DEF Grown
<1>2. Good(dictionary_set(d, key, val)) /\ Compact(dictionary_set(d, key, val))
    BY <1>1, SetIsUpdate, Zenon
<1>3. dictionary_set(d, key, val) \in Dictionary
    BY <1>2, Zenon DEF Good
<1> QED
    BY <1>2, <1>3, Zenon DEF Grown

LEMMA GrownLine ==
    ASSUME NEW lines, IsFile(lines), NEW i \in DOMAIN lines, NEW d \in Grown
    PROVE  ReadLine(lines, i, d) \in Grown
<1>1. /\ AddsSection(lines[i]) => LongKey(SectionAt(lines, i), NULL) \in Keys
      /\ AddsKey(lines[i]) => /\ LongKey(SectionAt(lines, i), strlwc(lines[i].name)) \in Keys
                              /\ ReadValue(lines[i]) \in Texts
    BY DEF IsFile, Keys, Texts
<1>2. NULL \in Texts
    BY DEF Texts
<1>3. CASE AddsSection(lines[i])
    <2>1. ReadLine(lines, i, d) = dictionary_set(d, LongKey(SectionAt(lines, i), NULL), NULL)
        BY <1>3, Zenon DEF ReadLine, iniparser_add_entry
    <2> QED
        BY <2>1, <1>1, <1>2, <1>3, GrownSet
<1>4. CASE ~AddsSection(lines[i]) /\ AddsKey(lines[i])
    <2>1. ReadLine(lines, i, d) =
              dictionary_set(d, LongKey(SectionAt(lines, i), strlwc(lines[i].name)), ReadValue(lines[i]))
        BY <1>4, Zenon DEF ReadLine, iniparser_add_entry
    <2> QED
        BY <2>1, <1>1, <1>4, GrownSet
<1>5. CASE ~AddsSection(lines[i]) /\ ~AddsKey(lines[i])
    BY <1>5, Zenon DEF ReadLine
<1> QED
    BY <1>3, <1>4, <1>5

\* read[i] is the dictionary after the first i lines, from which nothing was removed.
Reads(read, lines) ==
    /\ read[0] = dictionary_new /\ \A i \in 0..Len(lines) : read[i] \in Grown
    /\ \A i \in 1..Len(lines) : read[i] = ReadLine(lines, i, read[i - 1])
    /\ iniparser_new(lines) = read[Len(lines)]

LEMMA FileReads ==
    ASSUME NEW lines, IsFile(lines)
    PROVE  \E read : Reads(read, lines)
<1>1. PICK n \in Nat : n = Len(lines) /\ DOMAIN lines = 1..n
    BY DEF IsFile
<1>2. dictionary_new \in Grown
    <2>1. dictionary_new \in Dictionary
        BY NewDictionary, Zenon DEF Good
    <2> QED
        BY <2>1, NewDictionary, Zenon DEF Grown
<1> DEFINE Reading(g) == [i \in 0..Len(lines) |->
               IF i = 0 THEN dictionary_new ELSE ReadLine(lines, i, g[i - 1])]
           step == [i \in Nat |-> [d \in Grown |->
               IF i + 1 <= n THEN ReadLine(lines, i + 1, d) ELSE d]]
<1>3. step \in [Nat -> [Grown -> Grown]]
    <2>1. ASSUME NEW i \in Nat, NEW d \in Grown, i + 1 <= n PROVE ReadLine(lines, i + 1, d) \in Grown
        <3>1. i + 1 \in DOMAIN lines
            BY <1>1, <2>1
        <3> QED
            BY <3>1, GrownLine
    <2> QED
        BY <2>1
<1>4. PICK f : IsIteration(f, Grown, dictionary_new, step)
    <2> HIDE DEF step
    <2> QED
        BY <1>2, <1>3, RecursiveFunction, Zenon
<1>5. f \in [Nat -> Grown] /\ f[0] = dictionary_new /\ \A i \in Nat : f[i + 1] = step[i][f[i]]
    <2> HIDE DEF step
    <2> QED
        BY <1>4 DEF IsIteration
<1>6. PICK h : h = [i \in 0..n |-> f[i]]
    OBVIOUS
<1>7. ASSUME NEW i \in 0..n
      PROVE  h[i] = IF i = 0 THEN dictionary_new ELSE ReadLine(lines, i, h[i - 1])
    <2>1. CASE i = 0
        BY <2>1, <1>5, <1>6
    <2>2. CASE i # 0
        <3>1. PICK k \in Nat : k = i - 1
            BY <2>2
        <3>2. k + 1 = i /\ k + 1 <= n /\ h[i] = f[k + 1] /\ h[k] = f[k] /\ f[k] \in Grown
            BY <3>1, <2>2, <1>5, <1>6
        <3>3. f[k + 1] = ReadLine(lines, k + 1, f[k])
            BY <3>2, <1>5
        <3>4. h[i] = ReadLine(lines, i, h[i - 1])
            BY <3>1, <3>2, <3>3, Zenon
        <3> QED
            BY <2>2, <3>4
    <2> QED
        BY <2>1, <2>2
<1>8. h = Reading(h)
    BY <1>1, <1>6, <1>7
<1> DEFINE read == CHOOSE g : g = Reading(g)
<1>9. read = Reading(read)
    <2> HIDE DEF Reading
    <2> QED
        BY <1>8, Zenon
<1>10. iniparser_new(lines) = read[n]
    BY <1>1, Zenon DEF iniparser_new
<1> HIDE DEF read
<1>11. \A i \in 0..n : read[i] = IF i = 0 THEN dictionary_new ELSE ReadLine(lines, i, read[i - 1])
    BY <1>1, <1>9
<1> DEFINE T == {i \in Nat : i <= n => read[i] \in Grown}
<1>12. 0 \in T
    BY <1>2, <1>11
<1>13. ASSUME NEW i \in Nat, i \in T PROVE i + 1 \in T
    <2>1. CASE i + 1 <= n
        <3>1. i + 1 \in 0..n /\ i + 1 # 0 /\ (i + 1) - 1 = i /\ i + 1 \in DOMAIN lines /\ read[i] \in Grown
            BY <1>1, <1>13, <2>1
        <3>2. read[i + 1] = ReadLine(lines, i + 1, read[i])
            BY <3>1, <1>11
        <3>3. read[i + 1] \in Grown
            BY <3>1, <3>2, GrownLine
        <3> QED
            BY <3>3
    <2> QED
        BY <2>1
<1>14. Nat \subseteq T
    <2> HIDE DEF T
    <2> QED
        BY <1>12, <1>13, Induction
<1>15. \A i \in 0..n : read[i] \in Grown
    BY <1>14
<1>16. read[0] = dictionary_new /\ \A i \in 1..n : read[i] = ReadLine(lines, i, read[i - 1])
    BY <1>11
<1>17. Reads(read, lines)
    BY <1>1, <1>10, <1>15, <1>16, Zenon DEF Reads
<1> QED
    BY <1>17

LEMMA FileIsGrown ==
    ASSUME NEW lines, IsFile(lines)
    PROVE  iniparser_new(lines) \in Grown
<1>1. PICK read : Reads(read, lines)
    BY FileReads
<1>2. Len(lines) \in 0..Len(lines)
    BY DEF IsFile
<1> QED
    BY <1>1, <1>2, Zenon DEF Reads

\* Only sections have no value.
Valued(map) == \A key \in DOMAIN map : map[key] = NULL => Len(key) = 1

LEMMA ValuedSet ==
    ASSUME NEW d \in Grown, Valued(Contents(d)), NEW key \in Keys, NEW val \in Texts,
           val = NULL => Len(key) = 1
    PROVE  Valued(Contents(dictionary_set(d, key, val)))
<1>1. Good(d)
    BY DEF Grown
<1>2. Contents(dictionary_set(d, key, val)) = With(Contents(d), key, val)
    BY <1>1, SetIsUpdate, Zenon
<1>3. PICK m : m = Contents(d)
    OBVIOUS
<1>4. Valued(With(m, key, val))
    BY <1>3 DEF Valued, With
<1> QED
    BY <1>2, <1>3, <1>4, Zenon

LEMMA ValuedLine ==
    ASSUME NEW lines, IsFile(lines), NEW i \in DOMAIN lines, NEW d \in Grown, Valued(Contents(d))
    PROVE  Valued(Contents(ReadLine(lines, i, d)))
<1>1. /\ AddsSection(lines[i]) => LongKey(SectionAt(lines, i), NULL) \in Keys
      /\ AddsKey(lines[i]) => /\ LongKey(SectionAt(lines, i), strlwc(lines[i].name)) \in Keys
                              /\ ReadValue(lines[i]) \in Texts /\ ReadValue(lines[i]) # NULL
    BY DEF IsFile, Keys, Texts, AddsKey
<1>2. NULL \in Texts /\ Len(LongKey(SectionAt(lines, i), NULL)) = 1
    BY DEF Texts, LongKey
<1>3. CASE AddsSection(lines[i])
    <2>1. ReadLine(lines, i, d) = dictionary_set(d, LongKey(SectionAt(lines, i), NULL), NULL)
        BY <1>3, Zenon DEF ReadLine, iniparser_add_entry
    <2> QED
        BY <2>1, <1>1, <1>2, <1>3, ValuedSet, Zenon
<1>4. CASE ~AddsSection(lines[i]) /\ AddsKey(lines[i])
    <2>1. ReadLine(lines, i, d) =
              dictionary_set(d, LongKey(SectionAt(lines, i), strlwc(lines[i].name)), ReadValue(lines[i]))
        BY <1>4, Zenon DEF ReadLine, iniparser_add_entry
    <2> QED
        BY <2>1, <1>1, <1>4, ValuedSet, Zenon
<1>5. CASE ~AddsSection(lines[i]) /\ ~AddsKey(lines[i])
    BY <1>5, Zenon DEF ReadLine
<1> QED
    BY <1>3, <1>4, <1>5

LEMMA FileIsValued ==
    ASSUME NEW lines, IsFile(lines)
    PROVE  Valued(Contents(iniparser_new(lines)))
<1>1. PICK n \in Nat : n = Len(lines) /\ DOMAIN lines = 1..n
    BY DEF IsFile
<1>2. PICK read : Reads(read, lines)
    BY FileReads
<1>3. /\ read[0] = dictionary_new /\ \A i \in 0..n : read[i] \in Grown
      /\ \A i \in 1..n : read[i] = ReadLine(lines, i, read[i - 1])
      /\ iniparser_new(lines) = read[n]
    BY <1>1, <1>2, Zenon DEF Reads
<1> DEFINE T == {i \in Nat : i <= n => Valued(Contents(read[i]))}
<1>4. 0 \in T
    <2>1. DOMAIN Contents(dictionary_new) = {}
        BY NewDictionary, ContentsIs
    <2>2. Valued(Contents(dictionary_new))
        BY <2>1 DEF Valued
    <2> QED
        BY <1>3, <2>2
<1>5. ASSUME NEW i \in Nat, i \in T PROVE i + 1 \in T
    <2>1. CASE i + 1 <= n
        <3>1. i + 1 \in 1..n /\ i \in 0..n /\ (i + 1) - 1 = i
            BY <2>1
        <3>2. Valued(Contents(read[i])) /\ read[i] \in Grown
            BY <1>3, <1>5, <3>1
        <3>3. read[i + 1] = ReadLine(lines, i + 1, read[i])
            BY <1>3, <3>1
        <3>4. i + 1 \in DOMAIN lines
            BY <1>1, <3>1
        <3>5. Valued(Contents(read[i + 1]))
            BY <3>2, <3>3, <3>4, ValuedLine
        <3> QED
            BY <3>5
    <2> QED
        BY <2>1
<1>6. Nat \subseteq T
    <2> HIDE DEF T
    <2> QED
        BY <1>4, <1>5, Induction
<1>7. Valued(Contents(read[n]))
    BY <1>6
<1> QED
    BY <1>3, <1>7

--------------------------------------------------------------------------------
(* The command line.                                                         *)

\* The largest number of a set.
Latest(T) == CHOOSE i \in T : \A j \in T : j <= i

LEMMA LatestIs ==
    ASSUME NEW n \in Nat, NEW T, T \subseteq 1..n, T # {}
    PROVE  Latest(T) \in T /\ \A j \in T : j <= Latest(T)
<1> DEFINE D == {d \in Nat : \E i \in T : d = n - i}
<1>1. D \subseteq Nat
    OBVIOUS
<1>2. D # {}
    <2>1. PICK i \in T : TRUE
        OBVIOUS
    <2>2. n - i \in Nat
        BY <2>1
    <2> QED
        BY <2>1, <2>2
<1>3. PICK d \in D : \A e \in D : d <= e
    <2> HIDE DEF D
    <2> QED
        BY <1>1, <1>2, LeastNatural
<1>4. PICK i \in T : d = n - i
    OBVIOUS
<1>5. ASSUME NEW j \in T PROVE j <= i
    <2>1. n - j \in D
        OBVIOUS
    <2>2. d <= n - j
        BY <1>3, <2>1
    <2> QED
        BY <2>2, <1>4
<1>6. \E k \in T : \A j \in T : j <= k
    BY <1>5
<1> QED
    BY <1>6, Zenon DEF Latest

\* The arguments that give an entry of the dictionary of this letter, one key's.
Gives(a, letter, key) == a[1] = letter /\ a[2] # NULL /\ strlwc(a[2][1]) = key
GivenBy(args, letter, key) == {i \in DOMAIN args : Gives(args[i], letter, key)}

\* d is what the file gave but for the entries that the arguments give, of which
\* the last counts.
Overrides(d, file, args, letter) ==
    \A key \in Keys :
        /\ GivenBy(args, letter, key) = {} =>
               /\ key \in Stored(d) <=> key \in Stored(file)
               /\ key \in Stored(d) => Contents(d)[key] = Contents(file)[key]
        /\ GivenBy(args, letter, key) # {} =>
               /\ key \in Stored(d)
               /\ Contents(d)[key] = args[Latest(GivenBy(args, letter, key))][2][2]

LEMMA OverridesNothing ==
    ASSUME NEW d, NEW letter
    PROVE  Overrides(d, d, <<>>, letter)
BY DEF Overrides, GivenBy

\* What counts for the key is the same argument in both lists, or it is a.
SameGiven(args, b, letter, key) ==
    /\ GivenBy(b, letter, key) = GivenBy(args, letter, key)
    /\ GivenBy(args, letter, key) # {} =>
           b[Latest(GivenBy(args, letter, key))] = args[Latest(GivenBy(args, letter, key))]

GivenLastBy(a, b, letter, key) ==
    GivenBy(b, letter, key) # {} /\ b[Latest(GivenBy(b, letter, key))] = a

\* Another argument that does not give the key.
LEMMA GivenOther ==
    ASSUME NEW S, NEW args \in Seq(S), NEW a \in S, NEW letter, NEW key, ~Gives(a, letter, key)
    PROVE  SameGiven(args, Append(args, a), letter, key)
<1>1. PICK n \in Nat : n = Len(args) /\ DOMAIN args = 1..n
    OBVIOUS
<1>2. PICK b : b = Append(args, a)
    OBVIOUS
<1>3. DOMAIN b = 1..(n + 1) /\ b[n + 1] = a /\ \A i \in 1..n : b[i] = args[i]
    BY <1>1, <1>2
<1>4. GivenBy(b, letter, key) = GivenBy(args, letter, key)
    BY <1>1, <1>3 DEF GivenBy
<1>5. PICK T : T = GivenBy(args, letter, key)
    OBVIOUS
<1>6. T \subseteq 1..n
    BY <1>1, <1>5 DEF GivenBy
<1>7. ASSUME T # {} PROVE b[Latest(T)] = args[Latest(T)]
    <2>1. Latest(T) \in 1..n
        BY <1>6, <1>7, LatestIs
    <2> QED
        BY <2>1, <1>3
<1> QED
    BY <1>2, <1>4, <1>5, <1>7, Zenon DEF SameGiven

\* Another argument that does.
LEMMA GivenHere ==
    ASSUME NEW S, NEW args \in Seq(S), NEW a \in S, NEW letter, NEW key, Gives(a, letter, key)
    PROVE  GivenLastBy(a, Append(args, a), letter, key)
<1>1. PICK n \in Nat : n = Len(args) /\ DOMAIN args = 1..n
    OBVIOUS
<1>2. PICK b : b = Append(args, a)
    OBVIOUS
<1>3. DOMAIN b = 1..(n + 1) /\ b[n + 1] = a
    BY <1>1, <1>2
<1>4. PICK T : T = GivenBy(b, letter, key)
    OBVIOUS
<1>5. T \subseteq 1..(n + 1) /\ n + 1 \in T /\ n + 1 \in Nat
    BY <1>3, <1>4 DEF GivenBy
<1>6. Latest(T) \in T /\ n + 1 <= Latest(T)
    BY <1>5, LatestIs
<1>7. Latest(T) = n + 1
    <2>1. PICK m : m = Latest(T)
        OBVIOUS
    <2>2. m \in T /\ n + 1 <= m /\ m \in 1..(n + 1)
        BY <1>5, <1>6, <2>1, Zenon DEF GivenBy
    <2> QED
        BY <2>1, <2>2
<1> QED
    BY <1>2, <1>3, <1>4, <1>5, <1>7 DEF GivenLastBy

LEMMA OverridesOther ==
    ASSUME NEW S, NEW args \in Seq(S), NEW a \in S, NEW d, NEW file, NEW letter,
           Overrides(d, file, args, letter), a[1] # letter \/ a[2] = NULL
    PROVE  Overrides(d, file, Append(args, a), letter)
<1> SUFFICES ASSUME NEW key \in Keys
             PROVE  LET T == GivenBy(Append(args, a), letter, key) IN
                    /\ T = {} => /\ key \in Stored(d) <=> key \in Stored(file)
                                 /\ key \in Stored(d) => Contents(d)[key] = Contents(file)[key]
                    /\ T # {} => /\ key \in Stored(d)
                                 /\ Contents(d)[key] = Append(args, a)[Latest(T)][2][2]
    BY Zenon DEF Overrides
<1>1. ~Gives(a, letter, key)
    BY DEF Gives
<1>2. SameGiven(args, Append(args, a), letter, key)
    BY <1>1, GivenOther, Zenon
<1> QED
    BY <1>2, Zenon DEF Overrides, SameGiven

LEMMA OverridesSet ==
    ASSUME NEW S, NEW args \in Seq(S), NEW a \in S, NEW d, NEW file, NEW letter,
           Overrides(d, file, args, letter), Good(d), a[1] = letter, a[2] # NULL,
           strlwc(a[2][1]) \in Keys, a[2][2] \in Texts
    PROVE  Overrides(dictionary_set(d, strlwc(a[2][1]), a[2][2]), file, Append(args, a), letter)
<1>1. PICK e : e = dictionary_set(d, strlwc(a[2][1]), a[2][2])
    OBVIOUS
<1>2. PICK set \in Keys : set = strlwc(a[2][1])
    OBVIOUS
<1>3. Good(e) /\ Contents(e) = With(Contents(d), set, a[2][2])
    BY <1>1, <1>2, SetIsUpdate, Zenon
<1>4. /\ Stored(e) = Stored(d) \cup {set}
      /\ \A key \in Stored(e) : Contents(e)[key] = IF key = set THEN a[2][2] ELSE Contents(d)[key]
    <2>1. DOMAIN Contents(e) = Stored(e) /\ DOMAIN Contents(d) = Stored(d)
        BY <1>3, ContentsIs, Zenon
    <2>2. PICK f : f = Contents(d)
        OBVIOUS
    <2>3. Contents(e) = [k \in DOMAIN f \cup {set} |-> IF k = set THEN a[2][2] ELSE f[k]]
        BY <1>3, <2>2, Zenon DEF With
    <2> QED
        BY <2>1, <2>2, <2>3
<1> SUFFICES ASSUME NEW key \in Keys
             PROVE  LET T == GivenBy(Append(args, a), letter, key) IN
                    /\ T = {} => /\ key \in Stored(e) <=> key \in Stored(file)
                                 /\ key \in Stored(e) => Contents(e)[key] = Contents(file)[key]
                    /\ T # {} => /\ key \in Stored(e)
                                 /\ Contents(e)[key] = Append(args, a)[Latest(T)][2][2]
    BY <1>1, Zenon DEF Overrides
<1>5. CASE key = set
    <2>1. Gives(a, letter, key)
        BY <1>2, <1>5, Zenon DEF Gives
    <2>2. GivenLastBy(a, Append(args, a), letter, key)
        BY <2>1, GivenHere, Zenon
    <2>3. key \in Stored(e)
        BY <1>4, <1>5
    <2> QED
        BY <2>2, <2>3, <1>4, <1>5, Zenon DEF GivenLastBy
<1>6. CASE key # set
    <2>1. ~Gives(a, letter, key)
        BY <1>2, <1>6, Zenon DEF Gives
    <2>2. SameGiven(args, Append(args, a), letter, key)
        BY <2>1, GivenOther, Zenon
    <2>3. /\ key \in Stored(e) <=> key \in Stored(d)
          /\ key \in Stored(e) => Contents(e)[key] = Contents(d)[key]
        BY <1>4, <1>6
    <2> QED
        BY <2>2, <2>3, Zenon DEF Overrides, SameGiven
<1> QED
    BY <1>5, <1>6

--------------------------------------------------------------------------------
(* get_options.                                                              *)

IsOptions(w) ==
    w = [filename |-> w.filename, codec_list |-> w.codec_list,
         output_filename |-> w.output_filename, output_format |-> w.output_format,
         codecs_options |-> w.codecs_options, output_options |-> w.output_options]
IsNeed(x) == x = [hlp |-> x.hlp, version |-> x.version, codec_list |-> x.codec_list]
IsList(l) == l \in Seq(Range(l))
Formats == {"pcap", "rtpdump", "unknown"}
CallsMade == [do : {"set"}, key : Keys, val : Texts] \cup [do : {"unset"}, key : Keys, val : Texts]

Shapes ==
    /\ files \in Files /\ argv \in Seq(Arguments) /\ calls \in Seq(CallsMade)
    /\ IsOptions(wr_options) /\ wr_options.output_format \in Formats
    /\ IsNeed(need) /\ IsList(need.codec_list)

\* What get_options has got to, and what must have happened.
Progress ==
    /\ \/ at = "load" /\ retval = "running" /\ argv = <<>> /\ wr_options.codec_list = NULL /\ ~Loaded
       \/ at = "arguments" /\ retval = "running" /\ wr_options.codec_list = NULL /\ Loaded
       \/ at = "codecs" /\ retval = "running" /\ Loaded
       \/ at = "done" /\ retval = "WR_OK" /\ Loaded
       \/ at = "done" /\ retval \in {"WR_FATAL", "WR_STOP"} /\ wr_options.codec_list = NULL
       \/ at = "done" /\ retval = "WR_FATAL" /\ wr_options.codec_list \in Seq(DOMAIN encoder_map)
    /\ retval # "WR_OK" => calls = <<>>

\* The dictionaries hold what was asked of them.
Asked ==
    Loaded =>
        /\ files.codecs # NULL /\ files.output # NULL
        /\ Good(wr_options.output_options)
        /\ wr_options.codecs_options \in Grown
        /\ Overrides(wr_options.codecs_options, iniparser_new(files.codecs), argv, "O")
        /\ at # "done" =>
               /\ Compact(wr_options.output_options)
               /\ Overrides(wr_options.output_options, iniparser_new(files.output), argv, "o")

IsRow(row, name) == row = [name |-> name, payload_type |-> row.payload_type, state |-> row.state]

\* The codecs in the list are those asked for, with the type they were configured for.
Listed(list, rows, names, options) ==
    /\ list \in Seq(DOMAIN encoder_map) /\ Len(list) <= Len(names)
    /\ \A i \in DOMAIN list :
        /\ encoder_map[list[i]].name = names[i]
        /\ rows[list[i]].payload_type = ConfiguredType(encoder_map[list[i]].name, options)

Initialised ==
    /\ DOMAIN encoders = DOMAIN encoder_map
    /\ \A c \in DOMAIN encoder_map : IsRow(encoders[c], encoder_map[c].name)
    /\ at = "codecs" \/ retval = "WR_OK" =>
           Listed(wr_options.codec_list, encoders, need.codec_list, wr_options.codecs_options)

Accepted ==
    retval = "WR_OK" => ~Refused /\ Len(wr_options.codec_list) = Len(need.codec_list)

IInv == Shapes /\ Progress /\ Asked /\ Initialised /\ Accepted

LEMMA FilesAreFiles ==
    ASSUME NEW f \in Files
    PROVE  /\ f.codecs # NULL => iniparser_new(f.codecs) \in Grown
           /\ f.output # NULL => iniparser_new(f.output) \in Grown
<1>1. \A lines \in {f.codecs, f.output} \ {NULL} : IsFile(lines)
    BY InputAssumption
<1>2. f.codecs # NULL => IsFile(f.codecs)
    BY <1>1
<1>3. f.output # NULL => IsFile(f.output)
    BY <1>1
<1> QED
    BY <1>2, <1>3, FileIsGrown

LEMMA GrownIs ==
    ASSUME NEW d \in Grown
    PROVE  Good(d) /\ Compact(d) /\ d # NULL
<1>1. Good(d) /\ Compact(d) /\ d \in Dictionary
    BY DEF Grown
<1> QED
    BY <1>1, NullAssumption

LEMMA GoodNotNull ==
    ASSUME NEW d, Good(d) PROVE d # NULL
BY NullAssumption DEF Good

LEMMA EncoderMap ==
    /\ encoder_map \in Seq([name : DOMAIN Section, payload_type : Nat, state : {{}}])
    /\ DOMAIN encoder_map = 1..5
    /\ \A c \in 1..5 : IsRow(encoder_map[c], encoder_map[c].name) /\ encoder_map[c].name \in DOMAIN Section
<1>1. DOMAIN Section = {"DUMMY", "GSM", "speex", "PCMU", "PCMA"}
    BY DEF Section
<1>2. /\ encoder_map[1] = Row("DUMMY", 111) /\ encoder_map[2] = Row("GSM", 3)
      /\ encoder_map[3] = Row("speex", 96) /\ encoder_map[4] = Row("PCMU", 0)
      /\ encoder_map[5] = Row("PCMA", 8)
      /\ DOMAIN encoder_map = 1..5 /\ Len(encoder_map) = 5
    BY DEF encoder_map
<1>3. encoder_map \in Seq([name : DOMAIN Section, payload_type : Nat, state : {{}}])
    BY <1>1 DEF encoder_map, Row
<1>4. \A c \in 1..5 : c = 1 \/ c = 2 \/ c = 3 \/ c = 4 \/ c = 5
    OBVIOUS
<1> QED
    BY <1>1, <1>2, <1>3, <1>4 DEF Row, IsRow

LEMMA InitIInv == Init => IInv
<1> SUFFICES ASSUME Init PROVE IInv
    OBVIOUS
<1>1. /\ wr_options.codec_list = NULL /\ wr_options.output_options = NULL
      /\ wr_options.output_format = "pcap" /\ IsOptions(wr_options)
    BY DEF Init, IsOptions
<1>2. need.codec_list = <<>> /\ IsNeed(need)
    BY DEF Init, IsNeed
<1>3. IsList(<<>>)
    BY DEF IsList
<1>4. Shapes
    BY <1>1, <1>2, <1>3 DEF Init, Shapes, Formats
<1>5. ~Loaded
    BY <1>1 DEF Loaded
<1>6. Progress
    BY <1>1, <1>5 DEF Init, Progress
<1>7. Asked
    BY <1>5 DEF Asked
<1>8. Initialised
    BY EncoderMap DEF Init, Initialised
<1>9. Accepted
    BY DEF Init, Accepted
<1> QED
    BY <1>4, <1>6, <1>7, <1>8, <1>9 DEF IInv

LEMMA LoadStep ==
    ASSUME IInv, LoadFiles
    PROVE  IInv'
<1>1. /\ files' = files /\ argv' = argv /\ need' = need /\ encoders' = encoders /\ calls' = calls
      /\ at = "load" /\ retval = "running"
    BY DEF LoadFiles, IInv, Progress
<1>2. /\ argv = <<>> /\ wr_options.codec_list = NULL /\ ~Loaded /\ calls = <<>>
      /\ IsOptions(wr_options) /\ files \in Files
    BY <1>1 DEF IInv, Progress, Shapes
<1>3. CASE NULL \in {files.codecs, files.output}
    <2>1. retval' = "WR_FATAL" /\ at' = "done" /\ wr_options' = wr_options
        BY <1>3 DEF LoadFiles, Return
    <2>2. Shapes'
        BY <1>1, <2>1 DEF IInv, Shapes
    <2>3. Loaded' = Loaded
        BY <2>1 DEF Loaded
    <2> QED
        BY <1>1, <1>2, <2>1, <2>2, <2>3 DEF IInv, Progress, Asked, Initialised, Accepted
<1>4. CASE NULL \notin {files.codecs, files.output}
    <2>1. /\ files.codecs # NULL /\ files.output # NULL
          /\ retval' = "running" /\ at' = "arguments"
          /\ wr_options' = [wr_options EXCEPT !.codecs_options = iniparser_new(files.codecs),
                                              !.output_options = iniparser_new(files.output)]
        BY <1>1, <1>4 DEF LoadFiles
    <2>2. /\ wr_options'.codecs_options = iniparser_new(files.codecs)
          /\ wr_options'.output_options = iniparser_new(files.output)
          /\ wr_options'.codec_list = NULL /\ wr_options'.output_format = wr_options.output_format
          /\ IsOptions(wr_options')
        BY <1>2, <2>1 DEF IsOptions
    <2>3. iniparser_new(files.codecs) \in Grown /\ iniparser_new(files.output) \in Grown
        BY <1>2, <2>1, FilesAreFiles
    <2>4. /\ Good(iniparser_new(files.output)) /\ Compact(iniparser_new(files.output))
          /\ iniparser_new(files.output) # NULL
        BY <2>3, GrownIs
    <2>5. Loaded'
        BY <2>2, <2>4 DEF Loaded
    <2>6. Shapes'
        BY <1>1, <2>2 DEF IInv, Shapes
    <2>7. Asked'
        <3>1. Overrides(iniparser_new(files.codecs), iniparser_new(files.codecs), argv, "O")
            BY <1>2, OverridesNothing
        <3>2. Overrides(iniparser_new(files.output), iniparser_new(files.output), argv, "o")
            BY <1>2, OverridesNothing
        <3> QED
            BY <1>1, <2>1, <2>2, <2>3, <2>4, <3>1, <3>2, Zenon DEF Asked
    <2> QED
        BY <1>1, <1>2, <2>1, <2>2, <2>5, <2>6, <2>7 DEF IInv, Progress, Initialised, Accepted
<1> QED
    BY <1>3, <1>4

\* An argument of this letter and no other changes the dictionary.
GivenTo(letter, a, d, e) ==
    IF a[1] = letter /\ a[2] # NULL THEN e = dictionary_set(d, strlwc(a[2][1]), a[2][2]) ELSE e = d

LEMMA ArgumentIs ==
    ASSUME IInv, Argument
    PROVE  \E a \in Arguments :
               /\ at = "arguments" /\ argv' = Append(argv, a)
               /\ UNCHANGED <<files, encoders, retval, at, calls>>
               /\ IsOptions(wr_options') /\ IsNeed(need')
               /\ wr_options'.codec_list = wr_options.codec_list
               /\ wr_options'.output_format \in Formats /\ IsList(need'.codec_list)
               /\ GivenTo("o", a, wr_options.output_options, wr_options'.output_options)
               /\ GivenTo("O", a, wr_options.codecs_options, wr_options'.codecs_options)
<1>1. IsOptions(wr_options) /\ wr_options.output_format \in Formats /\ IsNeed(need) /\ IsList(need.codec_list)
    BY DEF IInv, Shapes
<1>2. PICK a \in Arguments :
        \/ a[1] = "v" /\ Read(a, wr_options, [need EXCEPT !.version = TRUE])
        \/ a[1] = "f" /\ Read(a, [wr_options EXCEPT !.filename = a[2]], need)
        \/ a[1] = "c" /\ Read(a, wr_options, [need EXCEPT !.codec_list = a[2]])
        \/ a[1] = "t" /\ Read(a, [wr_options EXCEPT !.output_filename = a[2]], need)
        \/ a[1] = "m" /\ Read(a, [wr_options EXCEPT !.output_format = __output_format_arg(a[2])], need)
        \/ a[1] = "o" /\ a[2] # NULL
           /\ Read(a, [wr_options EXCEPT !.output_options = define_option(a[2], @)], need)
        \/ a[1] = "O" /\ a[2] # NULL
           /\ Read(a, [wr_options EXCEPT !.codecs_options = define_option(a[2], @)], need)
        \/ (a[1] \notin {"v", "f", "c", "t", "m", "o", "O"} \/ a[2] = NULL)
           /\ Read(a, wr_options, Help)
    BY Zenon DEF Argument
<1>3. \A options, local :
          Read(a, options, local) =>
              /\ at = "arguments" /\ argv' = Append(argv, a) /\ wr_options' = options /\ need' = local
              /\ UNCHANGED <<files, encoders, retval, at, calls>>
    BY DEF Read
<1> DEFINE Result(w, x) ==
               /\ IsOptions(w) /\ IsNeed(x) /\ w.codec_list = wr_options.codec_list
               /\ w.output_format \in Formats /\ IsList(x.codec_list)
               /\ GivenTo("o", a, wr_options.output_options, w.output_options)
               /\ GivenTo("O", a, wr_options.codecs_options, w.codecs_options)
<1>4. ASSUME NEW w, NEW x, Read(a, w, x), Result(w, x)
      PROVE  /\ at = "arguments" /\ argv' = Append(argv, a)
             /\ UNCHANGED <<files, encoders, retval, at, calls>>
             /\ Result(wr_options', need')
    <2>1. wr_options' = w /\ need' = x
        BY <1>3, <1>4, Zenon
    <2>2. Result(wr_options', need')
        BY <2>1, <1>4, Zenon
    <2> HIDE DEF Result
    <2> QED
        BY <2>2, <1>3, <1>4, Zenon
<1>5. \E w, x : Read(a, w, x) /\ Result(w, x)
    <2>1. CASE a[1] = "v" /\ Read(a, wr_options, [need EXCEPT !.version = TRUE])
        <3>1. \A b : LET x == [need EXCEPT !.version = b] IN
                      x = [hlp |-> need.hlp, version |-> b, codec_list |-> need.codec_list]
            BY <1>1 DEF IsNeed
        <3>2. PICK x : x = [need EXCEPT !.version = TRUE]
            OBVIOUS
        <3>3. IsNeed(x) /\ x.codec_list = need.codec_list
            <4>1. \A b, y : y = [hlp |-> need.hlp, version |-> b, codec_list |-> need.codec_list] =>
                               IsNeed(y) /\ y.codec_list = need.codec_list
                BY DEF IsNeed
            <4> QED
                BY <4>1, <3>1, <3>2, Zenon
        <3>4. Result(wr_options, x)
            BY <1>1, <2>1, <3>3 DEF GivenTo
        <3> HIDE DEF Result
        <3> QED
            BY <2>1, <3>2, <3>4, Zenon
    <2>2. CASE a[1] = "f" /\ Read(a, [wr_options EXCEPT !.filename = a[2]], need)
        <3>1. Result([wr_options EXCEPT !.filename = a[2]], need)
            BY <1>1, <2>2 DEF IsOptions, GivenTo
        <3> HIDE DEF Result
        <3> QED
            BY <2>2, <3>1, Zenon
    <2>3. CASE a[1] = "c" /\ Read(a, wr_options, [need EXCEPT !.codec_list = a[2]])
        <3>1. IsList(a[2])
            BY <2>3, InputAssumption DEF IsList
        <3>2. Result(wr_options, [need EXCEPT !.codec_list = a[2]])
            BY <1>1, <2>3, <3>1 DEF IsNeed, GivenTo
        <3> HIDE DEF Result
        <3> QED
            BY <2>3, <3>2, Zenon
    <2>4. CASE a[1] = "t" /\ Read(a, [wr_options EXCEPT !.output_filename = a[2]], need)
        <3>1. Result([wr_options EXCEPT !.output_filename = a[2]], need)
            BY <1>1, <2>4 DEF IsOptions, GivenTo
        <3> HIDE DEF Result
        <3> QED
            BY <2>4, <3>1, Zenon
    <2>5. CASE a[1] = "m"
               /\ Read(a, [wr_options EXCEPT !.output_format = __output_format_arg(a[2])], need)
        <3>1. __output_format_arg(a[2]) \in Formats
            BY DEF __output_format_arg, Formats
        <3>2. Result([wr_options EXCEPT !.output_format = __output_format_arg(a[2])], need)
            BY <1>1, <2>5, <3>1 DEF IsOptions, GivenTo
        <3> HIDE DEF Result
        <3> QED
            BY <2>5, <3>2, Zenon
    <2>6. CASE a[1] = "o" /\ a[2] # NULL
               /\ Read(a, [wr_options EXCEPT !.output_options = define_option(a[2], @)], need)
        <3>1. define_option(a[2], wr_options.output_options)
                  = dictionary_set(wr_options.output_options, strlwc(a[2][1]), a[2][2])
            BY Zenon DEF define_option, iniparser_setstr
        <3>2. PICK e : e = define_option(a[2], wr_options.output_options)
            OBVIOUS
        <3>3. Result([wr_options EXCEPT !.output_options = e], need)
            BY <1>1, <2>6, <3>1, <3>2 DEF IsOptions, GivenTo
        <3> HIDE DEF Result
        <3> QED
            BY <2>6, <3>2, <3>3, Zenon
    <2>7. CASE a[1] = "O" /\ a[2] # NULL
               /\ Read(a, [wr_options EXCEPT !.codecs_options = define_option(a[2], @)], need)
        <3>1. define_option(a[2], wr_options.codecs_options)
                  = dictionary_set(wr_options.codecs_options, strlwc(a[2][1]), a[2][2])
            BY Zenon DEF define_option, iniparser_setstr
        <3>2. PICK e : e = define_option(a[2], wr_options.codecs_options)
            OBVIOUS
        <3>3. Result([wr_options EXCEPT !.codecs_options = e], need)
            BY <1>1, <2>7, <3>1, <3>2 DEF IsOptions, GivenTo
        <3> HIDE DEF Result
        <3> QED
            BY <2>7, <3>2, <3>3, Zenon
    <2>8. CASE (a[1] \notin {"v", "f", "c", "t", "m", "o", "O"} \/ a[2] = NULL)
               /\ Read(a, wr_options, Help)
        <3>1. \A b : LET x == [need EXCEPT !.hlp = b] IN
                      x = [hlp |-> b, version |-> need.version, codec_list |-> need.codec_list]
            BY <1>1 DEF IsNeed
        <3>2. IsNeed(Help) /\ Help.codec_list = need.codec_list
            <4>1. \A b, y : y = [hlp |-> b, version |-> need.version, codec_list |-> need.codec_list] =>
                               IsNeed(y) /\ y.codec_list = need.codec_list
                BY DEF IsNeed
            <4> QED
                BY <4>1, <3>1, Zenon DEF Help
        <3>3. Result(wr_options, Help)
            BY <1>1, <2>8, <3>2 DEF GivenTo
        <3> HIDE DEF Result
        <3> QED
            BY <2>8, <3>3, Zenon
    <2> HIDE DEF Result
    <2> QED
        BY <1>2, <2>1, <2>2, <2>3, <2>4, <2>5, <2>6, <2>7, <2>8, Zenon
<1> QED
    BY <1>4, <1>5

\* What an argument does to one of the dictionaries.
LEMMA GivenToDictionary ==
    ASSUME NEW args \in Seq(Arguments), NEW a \in Arguments, NEW letter \in {"o", "O"},
           NEW d \in Grown, NEW e, NEW file, GivenTo(letter, a, d, e), Overrides(d, file, args, letter)
    PROVE  e \in Grown /\ Overrides(e, file, Append(args, a), letter)
<1>1. Good(d)
    BY GrownIs
<1>2. CASE a[1] = letter /\ a[2] # NULL
    <2>1. strlwc(a[2][1]) \in Keys /\ a[2][2] \in Texts
        BY <1>2, InputAssumption DEF Keys, Texts
    <2>2. e = dictionary_set(d, strlwc(a[2][1]), a[2][2])
        BY <1>2, Zenon DEF GivenTo
    <2> QED
        BY <1>1, <1>2, <2>1, <2>2, GrownSet, OverridesSet, Zenon
<1>3. CASE ~(a[1] = letter /\ a[2] # NULL)
    <2>1. e = d
        BY <1>3, Zenon DEF GivenTo
    <2> QED
        BY <1>3, <2>1, OverridesOther, Zenon
<1> QED
    BY <1>2, <1>3

LEMMA ArgumentStep ==
    ASSUME IInv, Argument
    PROVE  IInv'
<1>1. PICK a \in Arguments :
               /\ at = "arguments" /\ argv' = Append(argv, a)
               /\ UNCHANGED <<files, encoders, retval, at, calls>>
               /\ IsOptions(wr_options') /\ IsNeed(need')
               /\ wr_options'.codec_list = wr_options.codec_list
               /\ wr_options'.output_format \in Formats /\ IsList(need'.codec_list)
               /\ GivenTo("o", a, wr_options.output_options, wr_options'.output_options)
               /\ GivenTo("O", a, wr_options.codecs_options, wr_options'.codecs_options)
    BY ArgumentIs, Zenon
<1>2. /\ retval = "running" /\ wr_options.codec_list = NULL /\ Loaded /\ calls = <<>>
      /\ argv \in Seq(Arguments)
    BY <1>1 DEF IInv, Progress, Shapes
<1>3. /\ files.codecs # NULL /\ files.output # NULL
      /\ Good(wr_options.output_options) /\ Compact(wr_options.output_options)
      /\ wr_options.codecs_options \in Grown
      /\ Overrides(wr_options.codecs_options, iniparser_new(files.codecs), argv, "O")
      /\ Overrides(wr_options.output_options, iniparser_new(files.output), argv, "o")
    BY <1>1, <1>2 DEF IInv, Asked
<1>4. wr_options.output_options \in Grown
    BY <1>3 DEF Grown, Good
<1>5. /\ wr_options'.output_options \in Grown /\ wr_options'.codecs_options \in Grown
      /\ Overrides(wr_options'.codecs_options, iniparser_new(files.codecs), argv', "O")
      /\ Overrides(wr_options'.output_options, iniparser_new(files.output), argv', "o")
    <2>1. PICK w : w = wr_options'
        OBVIOUS
    <2>2. /\ w.output_options \in Grown
          /\ Overrides(w.output_options, iniparser_new(files.output), Append(argv, a), "o")
        BY <1>1, <1>2, <1>3, <1>4, <2>1, GivenToDictionary
    <2>3. /\ w.codecs_options \in Grown
          /\ Overrides(w.codecs_options, iniparser_new(files.codecs), Append(argv, a), "O")
        BY <1>1, <1>2, <1>3, <2>1, GivenToDictionary
    <2> QED
        BY <1>1, <2>1, <2>2, <2>3, Zenon
<1>6. Good(wr_options'.output_options) /\ Compact(wr_options'.output_options)
      /\ wr_options'.output_options # NULL
    BY <1>5, GrownIs
<1>7. Shapes'
    BY <1>1, <1>2 DEF IInv, Shapes
<1>8. Asked'
    BY <1>1, <1>3, <1>5, <1>6, Zenon DEF Asked
<1>9. Loaded'
    BY <1>6 DEF Loaded
<1> QED
    BY <1>1, <1>2, <1>7, <1>8, <1>9 DEF IInv, Progress, Initialised, Accepted

LEMMA EndStep ==
    ASSUME IInv, EndOfArguments
    PROVE  IInv'
<1>1. /\ at = "arguments" /\ UNCHANGED <<files, argv, need, encoders, calls>>
      /\ retval = "running" /\ wr_options.codec_list = NULL /\ Loaded /\ calls = <<>>
      /\ IsOptions(wr_options)
    BY DEF EndOfArguments, IInv, Progress, Shapes
<1>2. CASE need.version
    <2>1. retval' = "WR_STOP" /\ at' = "done" /\ wr_options' = wr_options
        BY <1>2 DEF EndOfArguments, Return
    <2>2. Loaded'
        BY <1>1, <2>1 DEF Loaded
    <2>3. Shapes'
        BY <1>1, <2>1 DEF IInv, Shapes
    <2>4. Asked'
        BY <1>1, <2>1 DEF IInv, Asked
    <2> QED
        BY <1>1, <2>1, <2>2, <2>3, <2>4 DEF IInv, Progress, Initialised, Accepted
<1>3. CASE ~need.version
    <2>1. retval' = retval /\ at' = "codecs" /\ wr_options' = [wr_options EXCEPT !.codec_list = <<>>]
        BY <1>3 DEF EndOfArguments
    <2>2. /\ wr_options'.codecs_options = wr_options.codecs_options
          /\ wr_options'.output_options = wr_options.output_options
          /\ wr_options'.output_format = wr_options.output_format
          /\ wr_options'.codec_list = <<>> /\ IsOptions(wr_options')
        BY <1>1, <2>1 DEF IsOptions
    <2>3. Loaded'
        BY <1>1, <2>2 DEF Loaded
    <2>4. Shapes'
        BY <1>1, <2>2 DEF IInv, Shapes
    <2>5. Asked'
        BY <1>1, <2>1, <2>2 DEF IInv, Asked
    <2>6. Listed(<<>>, encoders, need.codec_list, wr_options.codecs_options)
        BY <1>1 DEF Listed, IInv, Shapes, IsList
    <2>7. Initialised'
        BY <1>1, <2>1, <2>2, <2>6 DEF IInv, Initialised
    <2> QED
        BY <1>1, <2>1, <2>3, <2>4, <2>5, <2>7 DEF IInv, Progress, Accepted
<1> QED
    BY <1>2, <1>3

\* A search by name finds a row with that name.
LEMMA ByName ==
    ASSUME NEW map, DOMAIN map = 1..5, NEW name, NEW c, c = get_by_name(map, name), c # 0
    PROVE  c \in 1..5 /\ map[c].name = name
<1>1. PICK T : T = {i \in DOMAIN map : map[i].name = name}
    OBVIOUS
<1>2. c = FirstOf(T)
    BY <1>1, Zenon DEF get_by_name
<1>3. T # {}
    BY <1>2 DEF FirstOf
<1>4. T \subseteq Nat
    BY <1>1
<1>5. \E i \in T : \A j \in T : i <= j
    BY <1>3, <1>4, LeastNatural
<1>6. c \in T
    BY <1>2, <1>3, <1>5, Zenon DEF FirstOf
<1> QED
    BY <1>1, <1>6

\* One more codec in the list, initialised; an earlier one may be initialised again.
LEMMA ListedNext ==
    ASSUME NEW list, NEW rows, NEW names, NEW options, Listed(list, rows, names, options),
           DOMAIN rows = 1..5, \A k \in 1..5 : IsRow(rows[k], encoder_map[k].name),
           IsList(names), Len(list) < Len(names),
           NEW c \in 1..5, rows[c].name = names[Len(list) + 1]
    PROVE  LET next == [rows EXCEPT ![c] = init(@, options)] IN
           /\ Listed(Append(list, c), next, names, options)
           /\ DOMAIN next = 1..5 /\ \A k \in 1..5 : IsRow(next[k], encoder_map[k].name)
<1>1. PICK n \in Nat : n = Len(list) /\ DOMAIN list = 1..n
    BY DEF Listed
<1>2. /\ list \in Seq(1..5) /\ DOMAIN encoder_map = 1..5 /\ n + 1 <= Len(names)
    BY <1>1, EncoderMap DEF Listed, IsList
<1>3. PICK next : next = [rows EXCEPT ![c] = init(@, options)]
    OBVIOUS
<1>4. PICK row : row = init(rows[c], options)
    OBVIOUS
<1>5. rows[c].name = encoder_map[c].name /\ IsRow(rows[c], encoder_map[c].name)
    BY DEF IsRow
<1>6. row.payload_type = ConfiguredType(rows[c].name, options) /\ IsRow(row, encoder_map[c].name)
    <2>1. PICK type, state : type = ConfiguredType(rows[c].name, options)
                             /\ state = {Parameters(rows[c].name, options)}
        OBVIOUS
    <2>2. row = [rows[c] EXCEPT !.payload_type = type, !.state = state]
        BY <1>4, <2>1, Zenon DEF init
    <2>3. row = [name |-> rows[c].name, payload_type |-> type, state |-> state]
        BY <1>5, <2>2 DEF IsRow
    <2>4. row.payload_type = type /\ row.state = state
        BY <2>3
    <2>5. IsRow(row, encoder_map[c].name)
        BY <1>5, <2>3, <2>4, Zenon DEF IsRow
    <2> QED
        BY <2>1, <2>4, <2>5, Zenon
<1>7. DOMAIN next = 1..5 /\ next[c] = row /\ \A k \in 1..5 : k # c => next[k] = rows[k]
    BY <1>3, <1>4
<1>8. \A k \in 1..5 : IsRow(next[k], encoder_map[k].name)
    BY <1>6, <1>7
<1>9. PICK more : more = Append(list, c)
    OBVIOUS
<1>10. /\ more \in Seq(1..5) /\ Len(more) = n + 1 /\ DOMAIN more = 1..(n + 1)
       /\ more[n + 1] = c /\ \A i \in 1..n : more[i] = list[i]
    BY <1>1, <1>2, <1>9
<1>11. ASSUME NEW i \in 1..(n + 1)
       PROVE  /\ encoder_map[more[i]].name = names[i]
              /\ next[more[i]].payload_type = ConfiguredType(encoder_map[more[i]].name, options)
    <2>1. CASE i = n + 1
        <3>1. more[i] = c /\ names[i] = rows[c].name
            BY <1>1, <1>10, <2>1
        <3> QED
            BY <3>1, <1>5, <1>6, <1>7, Zenon
    <2>2. CASE i # n + 1
        <3>1. i \in DOMAIN list /\ more[i] = list[i] /\ list[i] \in 1..5
            BY <1>1, <1>2, <1>10, <2>2
        <3>2. /\ encoder_map[list[i]].name = names[i]
              /\ rows[list[i]].payload_type = ConfiguredType(encoder_map[list[i]].name, options)
            BY <3>1, Zenon DEF Listed
        <3>3. next[list[i]].payload_type = ConfiguredType(encoder_map[list[i]].name, options)
            <4>1. CASE list[i] = c
                BY <4>1, <1>5, <1>6, <1>7, Zenon
            <4>2. CASE list[i] # c
                BY <4>2, <3>1, <3>2, <1>7, Zenon
            <4> QED
                BY <4>1, <4>2
        <3> QED
            BY <3>1, <3>2, <3>3, Zenon
    <2> QED
        BY <2>1, <2>2
<1>12. Listed(more, next, names, options)
    BY <1>2, <1>10, <1>11, Zenon DEF Listed
<1> QED
    BY <1>3, <1>7, <1>8, <1>9, <1>12, Zenon

LEMMA CodecStep ==
    ASSUME IInv, NextCodec
    PROVE  IInv'
<1>1. /\ at = "codecs" /\ UNCHANGED <<files, argv, need, calls>>
      /\ retval = "running" /\ Loaded /\ calls = <<>> /\ IsOptions(wr_options)
      /\ Len(wr_options.codec_list) < Len(need.codec_list)
    BY DEF NextCodec, IInv, Progress, Shapes
<1>2. /\ DOMAIN encoders = 1..5 /\ \A k \in 1..5 : IsRow(encoders[k], encoder_map[k].name)
      /\ Listed(wr_options.codec_list, encoders, need.codec_list, wr_options.codecs_options)
      /\ IsList(need.codec_list)
    BY <1>1, EncoderMap DEF IInv, Initialised, Shapes
<1>3. PICK c : c = get_by_name(encoders, Token)
    OBVIOUS
<1>4. CASE /\ c # 0 /\ InitCodec(c)
           /\ wr_options' = [wr_options EXCEPT !.codec_list = Append(@, c)]
           /\ UNCHANGED <<retval, at>>
    <2>1. PICK list : list = wr_options.codec_list
        OBVIOUS
    <2>2. PICK more : more = Append(list, c)
        OBVIOUS
    <2>3. /\ wr_options'.codecs_options = wr_options.codecs_options
          /\ wr_options'.output_options = wr_options.output_options
          /\ wr_options'.output_format = wr_options.output_format
          /\ wr_options'.codec_list = more /\ IsOptions(wr_options')
        <3>1. wr_options' = [wr_options EXCEPT !.codec_list = more]
            BY <1>4, <2>1, <2>2, Zenon
        <3> QED
            BY <1>1, <3>1 DEF IsOptions
    <2>4. c \in 1..5 /\ encoders[c].name = need.codec_list[Len(list) + 1]
        <3>1. c \in 1..5 /\ encoders[c].name = Token
            BY <1>2, <1>3, <1>4, ByName
        <3> QED
            BY <2>1, <3>1 DEF Token
    <2>5. encoders' = [encoders EXCEPT ![c] = init(@, wr_options.codecs_options)]
        BY <1>4 DEF InitCodec
    <2>6. /\ Listed(more, encoders', need.codec_list, wr_options.codecs_options)
          /\ DOMAIN encoders' = 1..5 /\ \A k \in 1..5 : IsRow(encoders'[k], encoder_map[k].name)
        <3>1. PICK rows, names, options : rows = encoders /\ names = need.codec_list
                                          /\ options = wr_options.codecs_options
            OBVIOUS
        <3>2. /\ Listed(list, rows, names, options) /\ DOMAIN rows = 1..5 /\ IsList(names)
              /\ \A k \in 1..5 : IsRow(rows[k], encoder_map[k].name)
              /\ Len(list) < Len(names) /\ rows[c].name = names[Len(list) + 1] /\ c \in 1..5
            BY <1>1, <1>2, <2>1, <2>4, <3>1, Zenon
        <3>3. PICK other : other = [rows EXCEPT ![c] = init(@, options)]
            OBVIOUS
        <3>4. /\ Listed(more, other, names, options)
              /\ DOMAIN other = 1..5 /\ \A k \in 1..5 : IsRow(other[k], encoder_map[k].name)
            BY <2>2, <3>2, <3>3, ListedNext, Zenon
        <3>5. encoders' = other
            BY <2>5, <3>1, <3>3, Zenon
        <3> QED
            BY <3>1, <3>4, <3>5, Zenon
    <2>7. Loaded'
        BY <1>1, <2>3 DEF Loaded
    <2>8. Shapes'
        BY <1>1, <2>3 DEF IInv, Shapes
    <2>9. Asked'
        BY <1>1, <1>4, <2>3 DEF IInv, Asked
    <2>10. Initialised'
        BY <1>1, <2>3, <2>6, EncoderMap DEF Initialised
    <2> QED
        BY <1>1, <1>4, <2>7, <2>8, <2>9, <2>10 DEF IInv, Progress, Accepted
<1>5. CASE /\ Return("WR_FATAL")
           /\ wr_options' = [wr_options EXCEPT !.codec_list = NULL]
           /\ UNCHANGED encoders
    <2>1. /\ wr_options'.codecs_options = wr_options.codecs_options
          /\ wr_options'.output_options = wr_options.output_options
          /\ wr_options'.output_format = wr_options.output_format
          /\ wr_options'.codec_list = NULL /\ IsOptions(wr_options')
        BY <1>1, <1>5 DEF IsOptions
    <2>2. retval' = "WR_FATAL" /\ at' = "done" /\ encoders' = encoders
        BY <1>5 DEF Return
    <2>3. Loaded'
        BY <1>1, <2>1 DEF Loaded
    <2>4. Shapes'
        BY <1>1, <2>1 DEF IInv, Shapes
    <2>5. Asked'
        BY <1>1, <2>1, <2>2 DEF IInv, Asked
    <2> QED
        BY <1>1, <2>1, <2>2, <2>3, <2>4, <2>5 DEF IInv, Progress, Initialised, Accepted
<1> QED
    BY <1>3, <1>4, <1>5, Zenon DEF NextCodec

LEMMA ChecksStep ==
    ASSUME IInv, FinalChecks
    PROVE  IInv'
<1>1. /\ at = "codecs" /\ UNCHANGED <<files, argv, wr_options, need, encoders, calls>>
      /\ retval = "running" /\ Loaded /\ calls = <<>> /\ at' = "done"
      /\ Len(wr_options.codec_list) = Len(need.codec_list)
      /\ retval' = IF Refused THEN "WR_FATAL" ELSE "WR_OK"
    BY DEF FinalChecks, Return, IInv, Progress
<1>2. Listed(wr_options.codec_list, encoders, need.codec_list, wr_options.codecs_options)
    BY <1>1 DEF IInv, Initialised
<1>3. wr_options.codec_list \in Seq(DOMAIN encoder_map)
    BY <1>2 DEF Listed
<1>4. Loaded' /\ (Refused' <=> Refused)
    BY <1>1 DEF Loaded, Refused
<1>5. Shapes'
    BY <1>1 DEF IInv, Shapes
<1>6. Asked'
    BY <1>1 DEF IInv, Asked
<1>7. Initialised'
    BY <1>1, <1>2 DEF IInv, Initialised
<1>8. Progress'
    BY <1>1, <1>3, <1>4 DEF Progress
<1>9. Accepted'
    BY <1>1, <1>4 DEF Accepted
<1> QED
    BY <1>5, <1>6, <1>7, <1>8, <1>9 DEF IInv

\* What a call of a user is.
LEMMA ClientIs ==
    ASSUME IInv, Client
    PROVE  \E key \in Keys, val \in Texts, do \in {"set", "unset"} :
               /\ strlwc(key) = key
               /\ retval = "WR_OK" /\ UNCHANGED <<files, argv, need, encoders, retval, at>>
               /\ calls' = Append(calls, [do |-> do, key |-> key, val |-> val])
               /\ wr_options' = [wr_options EXCEPT !.output_options =
                      IF do = "set" THEN dictionary_set(wr_options.output_options, key, val)
                      ELSE dictionary_unset(wr_options.output_options, key)]
<1>1. retval = "WR_OK" /\ UNCHANGED <<files, argv, need, encoders, retval, at>>
    BY DEF Client
<1>2. PICK entry \in ClientEntries :
        \/ \E val \in ClientValues \cup {NULL} :
               Call("set", entry, val, iniparser_setstr(wr_options.output_options, entry, val))
        \/ Call("unset", entry, NULL, iniparser_unset(wr_options.output_options, entry))
    BY Zenon DEF Client
<1>3. strlwc(entry) \in Keys /\ strlwc(strlwc(entry)) = strlwc(entry)
    BY InputAssumption, LowerCase DEF Keys
<1>4. NULL \in Texts /\ \A val \in ClientValues : val \in Texts
    BY InputAssumption DEF Texts
<1>5. CASE \E val \in ClientValues \cup {NULL} :
               Call("set", entry, val, iniparser_setstr(wr_options.output_options, entry, val))
    <2>1. PICK val \in ClientValues \cup {NULL} :
               Call("set", entry, val, iniparser_setstr(wr_options.output_options, entry, val))
        BY <1>5
    <2>2. val \in Texts
        BY <1>4, <2>1
    <2>3. /\ calls' = Append(calls, [do |-> "set", key |-> strlwc(entry), val |-> val])
          /\ wr_options' = [wr_options EXCEPT !.output_options =
                 IF "set" = "set" THEN dictionary_set(wr_options.output_options, strlwc(entry), val)
                 ELSE dictionary_unset(wr_options.output_options, strlwc(entry))]
        BY <2>1, Zenon DEF Call, iniparser_setstr
    <2>4. "set" \in {"set", "unset"}
        OBVIOUS
    <2> QED
        BY <1>1, <1>3, <2>2, <2>3, <2>4, Zenon
<1>6. CASE Call("unset", entry, NULL, iniparser_unset(wr_options.output_options, entry))
    <2>1. "unset" # "set" /\ "unset" \in {"set", "unset"}
        OBVIOUS
    <2>2. /\ calls' = Append(calls, [do |-> "unset", key |-> strlwc(entry), val |-> NULL])
          /\ wr_options' = [wr_options EXCEPT !.output_options =
                 dictionary_unset(wr_options.output_options, strlwc(entry))]
        BY <1>6, Zenon DEF Call, iniparser_unset
    <2>3. wr_options' = [wr_options EXCEPT !.output_options =
                 IF "unset" = "set" THEN dictionary_set(wr_options.output_options, strlwc(entry), NULL)
                 ELSE dictionary_unset(wr_options.output_options, strlwc(entry))]
        BY <2>1, <2>2, Zenon
    <2> QED
        BY <1>1, <1>3, <1>4, <2>1, <2>2, <2>3, Zenon
<1> QED
    BY <1>2, <1>5, <1>6, Zenon

LEMMA ClientStep ==
    ASSUME IInv, Client
    PROVE  IInv'
<1>1. PICK key \in Keys, val \in Texts, do \in {"set", "unset"} :
               /\ strlwc(key) = key
               /\ retval = "WR_OK" /\ UNCHANGED <<files, argv, need, encoders, retval, at>>
               /\ calls' = Append(calls, [do |-> do, key |-> key, val |-> val])
               /\ wr_options' = [wr_options EXCEPT !.output_options =
                      IF do = "set" THEN dictionary_set(wr_options.output_options, key, val)
                      ELSE dictionary_unset(wr_options.output_options, key)]
    BY ClientIs, Zenon
<1>2. PICK e : e = IF do = "set" THEN dictionary_set(wr_options.output_options, key, val)
                   ELSE dictionary_unset(wr_options.output_options, key)
    OBVIOUS
<1>3. at = "done" /\ Loaded /\ IsOptions(wr_options) /\ Good(wr_options.output_options)
      /\ calls \in Seq(CallsMade)
    BY <1>1 DEF IInv, Progress, Shapes, Asked
<1>4. wr_options' = [wr_options EXCEPT !.output_options = e]
    BY <1>1, <1>2, Zenon
<1>5. /\ wr_options'.codecs_options = wr_options.codecs_options
      /\ wr_options'.output_options = e
      /\ wr_options'.output_format = wr_options.output_format
      /\ wr_options'.filename = wr_options.filename
      /\ wr_options'.output_filename = wr_options.output_filename
      /\ wr_options'.codec_list = wr_options.codec_list /\ IsOptions(wr_options')
    BY <1>3, <1>4 DEF IsOptions
<1>6. Good(e)
    BY <1>2, <1>3, SetIsUpdate, UnsetIsRemoval
<1>7. Loaded' /\ (Refused' <=> Refused)
    <2>1. Loaded'
        BY <1>5, <1>6, GoodNotNull DEF Loaded
    <2>2. Refused' <=> Refused
        BY <1>1, <1>5 DEF Refused
    <2> QED
        BY <2>1, <2>2
<1>8. Shapes'
    <2>1. [do |-> do, key |-> key, val |-> val] \in CallsMade
        BY DEF CallsMade
    <2>2. calls' \in Seq(CallsMade)
        BY <1>1, <1>3, <2>1
    <2> QED
        BY <1>1, <1>5, <2>2 DEF IInv, Shapes
<1>9. Asked'
    BY <1>1, <1>3, <1>5, <1>6 DEF IInv, Asked
<1>10. Initialised'
    BY <1>1, <1>5 DEF IInv, Initialised
<1>11. Progress'
    BY <1>1, <1>3, <1>7 DEF Progress
<1>12. Accepted'
    BY <1>1, <1>5, <1>7 DEF IInv, Accepted
<1> QED
    BY <1>8, <1>9, <1>10, <1>11, <1>12 DEF IInv

LEMMA StepIInv == IInv /\ [Next]_vars => IInv'
<1>1. IInv /\ UNCHANGED vars => IInv'
    BY DEF IInv, vars, Shapes, Progress, Asked, Initialised, Accepted, Loaded, Refused
<1> QED
    BY <1>1, LoadStep, ArgumentStep, EndStep, CodecStep, ChecksStep, ClientStep DEF Next

\* The inductive invariant of get_options: how far it is, that the dictionaries
\* hold the files' entries but for those the command line gave last, and that the
\* codecs listed are the rows of the names asked for, with their configured types.
THEOREM AlwaysAsAsked == Spec => []IInv
    BY InitIInv, StepIInv, PTL DEF Spec

--------------------------------------------------------------------------------
(* What the configuration promises.                                          *)

\* The count of both dictionaries agrees with their slots, in which no key is twice,
\* and the list of codecs points into the encoder map (iniparser.c:381-477).
THEOREM TypeCorrect == Spec => []TypeOK
<1>1. IInv => TypeOK
    <2> SUFFICES ASSUME IInv PROVE TypeOK
        OBVIOUS
    <2>1. ASSUME NEW d \in Dictionaries PROVE Good(d)
        <3>1. Loaded /\ d \in {wr_options.codecs_options, wr_options.output_options}
            BY DEF Dictionaries
        <3>2. wr_options.codecs_options \in Grown /\ Good(wr_options.output_options)
            BY <3>1 DEF IInv, Asked
        <3> QED
            BY <3>1, <3>2, GrownIs
    <2>2. \A d \in Dictionaries :
              /\ d.n = Cardinality(Occupied(d))
              /\ \A i, j \in Occupied(d) : d.slots[i].key = d.slots[j].key => i = j
        BY <2>1, Zenon DEF Good
    <2>3. retval \in {"running", "WR_OK", "WR_FATAL", "WR_STOP"}
        BY DEF IInv, Progress
    <2>4. wr_options.codec_list # NULL => wr_options.codec_list \in Seq(DOMAIN encoder_map)
        BY DEF IInv, Progress, Initialised, Listed
    <2> QED
        BY <2>2, <2>3, <2>4, Zenon DEF TypeOK
<1> QED
    BY <1>1, AlwaysAsAsked, PTL

\* The key of d is read as the command line gave it last, and else as the file has it.
AsGiven(d, file, letter, key, def) ==
    dictionary_get(d, key, def) = GivenLast(letter, key, dictionary_get(file, key, def))

\* An entry of a dictionary is read as the command line gave it last, and as the
\* file has it when it is not given.
LEMMA ReadAsGiven ==
    ASSUME NEW letter, NEW d \in Grown, NEW file \in Grown, Overrides(d, file, argv, letter),
           NEW key \in Keys, key \in Stored(d) \/ GivenBy(argv, letter, key) # {}, NEW def
    PROVE  AsGiven(d, file, letter, key, def)
<1>1. Good(d) /\ Compact(d) /\ Good(file) /\ Compact(file)
    BY GrownIs
<1>2. PICK T : T = GivenBy(argv, letter, key)
    OBVIOUS
<1>3. \A original : GivenLast(letter, key, original) = IF T = {} THEN original ELSE argv[Latest(T)][2][2]
    <2>1. \A original : GivenLast(letter, key, original) =
              IF GivenBy(argv, letter, key) = {} THEN original
              ELSE argv[Latest(GivenBy(argv, letter, key))][2][2]
        BY Zenon DEF GivenBy, Gives, Latest, GivenLast
    <2> QED
        BY <1>2, <2>1, Zenon
<1>4. CASE T = {}
    <2>1. key \in Stored(d) /\ key \in Stored(file) /\ Contents(d)[key] = Contents(file)[key]
        BY <1>2, <1>4, Zenon DEF Overrides
    <2>2. dictionary_get(d, key, def) = Contents(d)[key]
        BY <2>1, <1>1, GetIs, Zenon
    <2>3. dictionary_get(file, key, def) = Contents(file)[key]
        BY <2>1, <1>1, GetIs, Zenon
    <2> QED
        BY <1>3, <1>4, <2>1, <2>2, <2>3, Zenon DEF AsGiven
<1>5. CASE T # {}
    <2>1. key \in Stored(d) /\ Contents(d)[key] = argv[Latest(T)][2][2]
        BY <1>2, <1>5, Zenon DEF Overrides
    <2>2. dictionary_get(d, key, def) = Contents(d)[key]
        BY <2>1, <1>1, GetIs, Zenon
    <2> QED
        BY <1>3, <1>5, <2>1, <2>2, Zenon DEF AsGiven
<1> QED
    BY <1>4, <1>5

\* In any order of the arguments, for any hash function and for dictionaries of any
\* size, the last argument that gives an entry wins (options.c:196-203, 286-303).
THEOREM LastGiven == Spec => []LastOneWins
<1>1. IInv => LastOneWins
    <2> SUFFICES ASSUME IInv, at = "codecs",
                        NEW o \in {<<"O", wr_options.codecs_options, files.codecs>>,
                                   <<"o", wr_options.output_options, files.output>>},
                        NEW key \in Stored(o[2]) \cup {strlwc(argv[i][2][1]) :
                                i \in {j \in DOMAIN argv : argv[j][1] = o[1] /\ argv[j][2] # NULL}}
                 PROVE  dictionary_get(o[2], key, "absent")
                            = GivenLast(o[1], key, dictionary_get(iniparser_new(o[3]), key, "absent"))
        BY Zenon DEF LastOneWins
    <2>1. /\ Loaded /\ files \in Files /\ argv \in Seq(Arguments)
          /\ files.codecs # NULL /\ files.output # NULL
          /\ Good(wr_options.output_options) /\ Compact(wr_options.output_options)
          /\ wr_options.codecs_options \in Grown
          /\ Overrides(wr_options.codecs_options, iniparser_new(files.codecs), argv, "O")
          /\ Overrides(wr_options.output_options, iniparser_new(files.output), argv, "o")
        BY DEF IInv, Shapes, Progress, Asked
    <2>2. /\ wr_options.output_options \in Grown
          /\ iniparser_new(files.codecs) \in Grown /\ iniparser_new(files.output) \in Grown
        BY <2>1, FilesAreFiles DEF Grown, Good
    <2>3. PICK letter, d, lines : letter = o[1] /\ d = o[2] /\ lines = o[3]
        OBVIOUS
    <2>4. /\ letter \in {"o", "O"} /\ d \in Grown /\ iniparser_new(lines) \in Grown
          /\ Overrides(d, iniparser_new(lines), argv, letter)
        <3>1. CASE o = <<"O", wr_options.codecs_options, files.codecs>>
            <4>1. letter = "O" /\ d = wr_options.codecs_options /\ lines = files.codecs
                BY <2>3, <3>1
            <4> QED
                BY <4>1, <2>1, <2>2, Zenon
        <3>2. CASE o = <<"o", wr_options.output_options, files.output>>
            <4>1. letter = "o" /\ d = wr_options.output_options /\ lines = files.output
                BY <2>3, <3>2
            <4> QED
                BY <4>1, <2>1, <2>2, Zenon
        <3> QED
            BY <3>1, <3>2
    <2>5. key \in Keys /\ (key \in Stored(d) \/ GivenBy(argv, letter, key) # {})
        <3>1. CASE key \in Stored(d)
            BY <3>1, <2>4, GrownIs, ContentsIs
        <3>2. CASE key \notin Stored(d)
            <4>1. PICK i \in DOMAIN argv : /\ argv[i][1] = letter /\ argv[i][2] # NULL
                                           /\ key = strlwc(argv[i][2][1])
                BY <2>3, <3>2, Zenon
            <4>2. argv[i] \in Arguments
                BY <2>1, <4>1
            <4>3. strlwc(argv[i][2][1]) \in Keys
                BY <2>4, <4>1, <4>2, InputAssumption DEF Keys
            <4>4. i \in GivenBy(argv, letter, key)
                BY <4>1 DEF GivenBy, Gives
            <4> QED
                BY <4>1, <4>3, <4>4
        <3> QED
            BY <3>1, <3>2
    <2>6. AsGiven(d, iniparser_new(lines), letter, key, "absent")
        BY <2>4, <2>5, ReadAsGiven, Zenon
    <2> QED
        BY <2>3, <2>6, Zenon DEF AsGiven
<1> QED
    BY <1>1, AlwaysAsAsked, PTL

\* A key that is not stored is not found, unless its hash is that of an empty slot.
LEMMA GetNone ==
    ASSUME NEW d, Good(d), NEW key \in Keys, key \notin Stored(d), Hash[key] # 0, NEW def
    PROVE  dictionary_get(d, key, def) = def
<1>1. ASSUME NEW j \in DOMAIN d.slots
      PROVE  d.slots[j].hash # Hash[key] \/ d.slots[j].key \notin {key, NULL}
    <2>1. CASE d.slots[j] = Empty
        BY <2>1 DEF Empty
    <2>2. CASE d.slots[j] # Empty
        <3>1. d.slots[j].key \in Keys
            BY <2>2 DEF Good
        <3>2. d.slots[j].key # NULL
            BY <3>1, NoKey
        <3>3. d.slots[j].key \in Stored(d)
            BY <3>2, Zenon DEF Stored, Occupied
        <3> QED
            BY <3>2, <3>3
    <2> QED
        BY <2>1, <2>2
<1> QED
    BY <1>1, Zenon DEF dictionary_get

\* The type that the command line gave last for the section, or the file, or the program.
IsTypeGiven(type, name, file) ==
    LET key == <<Section[name], "payload_type">>
        val == GivenLast("O", key, dictionary_get(file, key, INI_INVALID_KEY))
    IN type = IF val = INI_INVALID_KEY THEN Fallback[name]
              ELSE IF atoi[val] < 0 THEN Fallback[name]
              ELSE atoi[val]

\* A codec takes it.
LEMMA TypeAsGiven ==
    ASSUME NEW name \in DOMAIN Section, NEW d \in Grown, NEW file \in Grown,
           Overrides(d, file, argv, "O")
    PROVE  IsTypeGiven(ConfiguredType(name, d), name, file)
<1>0. PICK key, val : /\ key = <<Section[name], "payload_type">>
                      /\ val = GivenLast("O", key, dictionary_get(file, key, INI_INVALID_KEY))
    OBVIOUS
<1>1. strlwc(key) = key /\ key \in Keys /\ Hash[key] # 0
    BY <1>0, CodecsAssumption DEF Keys
<1>2. Good(d) /\ Good(file)
    BY GrownIs
<1>3. dictionary_get(d, key, INI_INVALID_KEY) = val
    <2>1. CASE key \in Stored(d) \/ GivenBy(argv, "O", key) # {}
        <3>1. AsGiven(d, file, "O", key, INI_INVALID_KEY)
            BY <1>1, <2>1, ReadAsGiven, Zenon
        <3> QED
            BY <1>0, <3>1, Zenon DEF AsGiven
    <2>2. CASE key \notin Stored(d) /\ GivenBy(argv, "O", key) = {}
        <3>1. key \notin Stored(file)
            BY <1>1, <2>2, Zenon DEF Overrides
        <3>2. dictionary_get(d, key, INI_INVALID_KEY) = INI_INVALID_KEY
            BY <1>1, <1>2, <2>2, GetNone, Zenon
        <3>3. dictionary_get(file, key, INI_INVALID_KEY) = INI_INVALID_KEY
            BY <1>1, <1>2, <3>1, GetNone, Zenon
        <3>4. \A original : GivenLast("O", key, original) =
                  IF GivenBy(argv, "O", key) = {} THEN original
                  ELSE argv[Latest(GivenBy(argv, "O", key))][2][2]
            BY Zenon DEF GivenBy, Gives, Latest, GivenLast
        <3>5. val = INI_INVALID_KEY
            BY <1>0, <2>2, <3>3, <3>4, Zenon
        <3> QED
            BY <3>2, <3>5, Zenon
    <2> QED
        BY <2>1, <2>2, Zenon
<1>4. iniparser_getstring(d, key, INI_INVALID_KEY) = val
    BY <1>1, <1>3, Zenon DEF iniparser_getstring
<1>5. PICK f : f = Fallback[name]
    OBVIOUS
<1>6. iniparser_getint(d, key, f) = IF val = INI_INVALID_KEY THEN f ELSE atoi[val]
    BY <1>4, Zenon DEF iniparser_getint
<1>7. iniparser_getnonnegativeint(d, key, f)
          = IF iniparser_getint(d, key, f) < 0 THEN f ELSE iniparser_getint(d, key, f)
    BY Zenon DEF iniparser_getnonnegativeint
<1>8. iniparser_getnonnegativeint(d, key, f)
          = IF val = INI_INVALID_KEY THEN f ELSE IF atoi[val] < 0 THEN f ELSE atoi[val]
    BY <1>6, <1>7
<1>9. ConfiguredType(name, d) = iniparser_getnonnegativeint(d, key, f)
    BY <1>0, <1>5, Zenon DEF ConfiguredType
<1> QED
    BY <1>0, <1>5, <1>8, <1>9, Zenon DEF IsTypeGiven

\* The program goes on only with two different files, a format it can write, and the
\* codecs asked for, in their order, each with the payload type that the command line
\* gave last, or else the file, for any command line (options.c:185-189, 211-236).
THEOREM Ready == Spec => []ReadyToRun
<1>1. IInv => ReadyToRun
    <2> SUFFICES ASSUME IInv, retval = "WR_OK" PROVE ReadyToRun
        BY DEF ReadyToRun
    <2>1. ~Refused /\ wr_options.output_format \in Formats
        BY DEF IInv, Accepted, Shapes
    <2>2. /\ NULL \notin {wr_options.filename, wr_options.output_filename}
          /\ wr_options.filename # wr_options.output_filename
          /\ wr_options.output_format \in {"pcap", "rtpdump"}
        BY <2>1 DEF Refused, Formats
    <2>3. PICK list, rows, names, options :
              /\ list = wr_options.codec_list /\ rows = encoders /\ names = need.codec_list
              /\ options = wr_options.codecs_options
        OBVIOUS
    <2>4. /\ Len(list) = Len(names) /\ IsList(names) /\ Listed(list, rows, names, options)
          /\ \A c \in 1..5 : IsRow(rows[c], encoder_map[c].name)
        BY <2>3, EncoderMap DEF IInv, Accepted, Shapes, Initialised
    <2>5. PICK n \in Nat : /\ n = Len(list) /\ DOMAIN list = 1..n /\ list \in Seq(1..5)
                           /\ DOMAIN names = 1..n /\ names = [i \in 1..n |-> names[i]]
        BY <2>4, EncoderMap DEF Listed, IsList
    <2>6. ASSUME NEW i \in 1..n
          PROVE  /\ list[i] \in 1..5 /\ rows[list[i]].name = names[i]
                 /\ rows[list[i]].name \in DOMAIN Section
                 /\ rows[list[i]].payload_type = ConfiguredType(rows[list[i]].name, options)
        <3>1. list[i] \in 1..5
            BY <2>5
        <3>2. rows[list[i]].name = encoder_map[list[i]].name
            BY <3>1, <2>4 DEF IsRow
        <3> QED
            BY <3>1, <3>2, <2>4, <2>5, EncoderMap, Zenon DEF Listed
    <2>7. [i \in DOMAIN list |-> rows[list[i]].name] = names
        BY <2>5, <2>6
    <2>8. /\ Loaded /\ argv \in Seq(Arguments) /\ options \in Grown
          /\ Overrides(options, iniparser_new(files.codecs), argv, "O")
        BY <2>3 DEF IInv, Progress, Shapes, Asked
    <2>9. files.codecs # NULL /\ iniparser_new(files.codecs) \in Grown
        <3>1. files \in Files /\ files.codecs # NULL
            BY <2>8 DEF IInv, Shapes, Progress, Asked
        <3> QED
            BY <3>1, FilesAreFiles
    <2>10. PICK file \in Grown : file = iniparser_new(files.codecs)
        BY <2>9
    <2>11. ASSUME NEW c \in Range(list)
           PROVE  IsTypeGiven(rows[c].payload_type, rows[c].name, file)
        <3>1. PICK i \in 1..n : c = list[i]
            BY <2>5 DEF Range
        <3>2. /\ rows[c].name \in DOMAIN Section
              /\ rows[c].payload_type = ConfiguredType(rows[c].name, options)
            BY <3>1, <2>6, Zenon
        <3>3. PICK name \in DOMAIN Section : name = rows[c].name
            BY <3>2
        <3>4. Overrides(options, file, argv, "O")
            BY <2>8, <2>10, Zenon
        <3>5. IsTypeGiven(ConfiguredType(name, options), name, file)
            BY <2>8, <3>4, TypeAsGiven, Zenon
        <3> QED
            BY <3>2, <3>3, <3>5, Zenon
    <2>12. \A c \in Range(wr_options.codec_list) :
            LET name == encoders[c].name
                key == <<Section[name], "payload_type">>
                val == GivenLast("O", key, dictionary_get(iniparser_new(files.codecs), key, INI_INVALID_KEY))
            IN encoders[c].payload_type
                   = IF val = INI_INVALID_KEY THEN Fallback[name]
                     ELSE IF atoi[val] < 0 THEN Fallback[name]
                     ELSE atoi[val]
        BY <2>3, <2>10, <2>11, Zenon DEF IsTypeGiven
    <2> QED
        BY <2>2, <2>3, <2>7, <2>12, Zenon DEF ReadyToRun
<1> QED
    BY <1>1, AlwaysAsAsked, PTL

--------------------------------------------------------------------------------
(* The output options implement the abstract dictionary.                     *)

\* What one argument asks of the output options, and what all of them do.
RequestOf(a) ==
    IF a[1] = "o" /\ a[2] # NULL
    THEN [do |-> "set", key |-> strlwc(a[2][1]), val |-> a[2][2]]
    ELSE [do |-> "other"]
RequestsOf(args) == [i \in DOMAIN args |-> RequestOf(args[i])]

AllRequests == CallsMade \cup {[do |-> "other"]}

LEMMA RequestsAre == Requests = RequestsOf(argv) \o calls
BY Zenon DEF Requests, RequestsOf, RequestOf

LEMMA RequestIsOne ==
    ASSUME NEW a \in Arguments PROVE RequestOf(a) \in AllRequests
<1>1. CASE a[1] = "o" /\ a[2] # NULL
    <2>1. strlwc(a[2][1]) \in Keys /\ a[2][2] \in Texts
        BY <1>1, InputAssumption DEF Keys, Texts
    <2>2. RequestOf(a) = [do |-> "set", key |-> strlwc(a[2][1]), val |-> a[2][2]]
        BY <1>1, Zenon DEF RequestOf
    <2> QED
        BY <2>1, <2>2 DEF AllRequests, CallsMade
<1>2. CASE ~(a[1] = "o" /\ a[2] # NULL)
    BY <1>2 DEF RequestOf, AllRequests
<1> QED
    BY <1>1, <1>2

LEMMA RequestsShape ==
    ASSUME NEW args \in Seq(Arguments) PROVE RequestsOf(args) \in Seq(AllRequests)
<1>1. PICK n \in Nat : n = Len(args) /\ DOMAIN args = 1..n
    OBVIOUS
<1>2. \A i \in 1..n : RequestOf(args[i]) \in AllRequests
    BY <1>1, RequestIsOne
<1>3. RequestsOf(args) = [i \in 1..n |-> RequestOf(args[i])]
    BY <1>1, Zenon DEF RequestsOf
<1> QED
    BY <1>2, <1>3

\* One more argument, and one more call, is one more request.
LEMMA ArgumentAppends ==
    ASSUME NEW args \in Seq(Arguments), NEW a \in Arguments
    PROVE  RequestsOf(Append(args, a)) \o <<>> = Append(RequestsOf(args) \o <<>>, RequestOf(a))
<1>1. PICK n \in Nat : n = Len(args) /\ DOMAIN args = 1..n
    OBVIOUS
<1>2. PICK b : b = Append(args, a)
    OBVIOUS
<1>3. b \in Seq(Arguments) /\ DOMAIN b = 1..(n + 1) /\ b[n + 1] = a /\ \A i \in 1..n : b[i] = args[i]
    BY <1>1, <1>2
<1>4. PICK r, s : r = RequestsOf(args) /\ s = RequestsOf(b)
    OBVIOUS
<1>5. r \in Seq(AllRequests) /\ s \in Seq(AllRequests) /\ RequestOf(a) \in AllRequests
    BY <1>3, <1>4, RequestsShape, RequestIsOne
<1>6. /\ r = [i \in 1..n |-> RequestOf(args[i])]
      /\ s = [i \in 1..(n + 1) |-> RequestOf(b[i])]
    BY <1>1, <1>3, <1>4, Zenon DEF RequestsOf
<1>7. s = Append(r, RequestOf(a))
    <2>1. Len(r) = n /\ Len(s) = n + 1
        BY <1>5, <1>6
    <2>2. s[n + 1] = RequestOf(a) /\ \A i \in 1..n : s[i] = r[i]
        BY <1>3, <1>6
    <2> QED
        BY <1>5, <2>1, <2>2
<1>8. s \o <<>> = s /\ r \o <<>> = r
    BY <1>5
<1> QED
    BY <1>2, <1>4, <1>7, <1>8, Zenon

LEMMA CallAppends ==
    ASSUME NEW r \in Seq(AllRequests), NEW made \in Seq(AllRequests), NEW call \in AllRequests
    PROVE  r \o Append(made, call) = Append(r \o made, call)
OBVIOUS

\* The last request and those before it.
LEMMA LastRequest ==
    ASSUME NEW r \in Seq(AllRequests), NEW request \in AllRequests
    PROVE  /\ Append(r, request) # <<>>
           /\ Map!Front(Append(r, request)) = r
           /\ Map!Last(Append(r, request)) = request /\ Last(Append(r, request)) = request
<1>1. PICK s : s = Append(r, request)
    OBVIOUS
<1>2. s \in Seq(AllRequests) /\ Len(s) = Len(r) + 1 /\ s[Len(s)] = request /\ \A i \in 1..Len(r) : s[i] = r[i]
    BY <1>1
<1>3. SubSeq(s, 1, Len(s) - 1) = r
    BY <1>2
<1>4. s # <<>>
    BY <1>2
<1> QED
    BY <1>1, <1>2, <1>3, <1>4, Zenon DEF Map!Front, Map!Last, Last

\* What a request does to the map.
Answers(request, map, next) ==
    \/ request.do = "set" /\ request.val \in Texts /\ next = With(map, request.key, request.val)
    \/ request.do = "unset" /\ next = Restrict(map, DOMAIN map \ {request.key})
    \/ request.do = "other" /\ next = map

\* A step does what one more request asks for, with a key in lower case.
Asks(request) ==
    /\ request \in AllRequests /\ (request.do # "other" => strlwc(request.key) = request.key)
    /\ Requests \in Seq(AllRequests) /\ Requests' = Append(Requests, request)
    /\ Answers(request, Current, Current')

\* What ImplementsDictionary asks of a step.
Answered ==
    IF AddsOrKeeps THEN Map!Made /\ Map!SetKey(Last(Requests').key, Last(Requests').val)
    ELSE Map!Request

LEMMA AnswersRequest ==
    ASSUME NEW request, Asks(request)
    PROVE  Answered
<1>0. /\ request \in AllRequests /\ Requests \in Seq(AllRequests)
      /\ Requests' = Append(Requests, request) /\ Answers(request, Current, Current')
    BY Zenon DEF Asks
<1>1. /\ Requests' # <<>> /\ Map!Front(Requests') = Requests /\ Last(Requests') = request
      /\ Map!Last(Requests') = request
    <2>1. PICK r \in Seq(AllRequests) : r = Requests
        BY <1>0
    <2>2. /\ Append(r, request) # <<>> /\ Map!Front(Append(r, request)) = r
          /\ Map!Last(Append(r, request)) = request /\ Last(Append(r, request)) = request
        BY <1>0, LastRequest, Zenon
    <2> QED
        BY <1>0, <2>1, <2>2, Zenon
<1>2. Map!Made
    BY <1>1, Zenon DEF Map!Made
<1>3. AddsOrKeeps <=> request.do = "set" /\ (request.key \notin DOMAIN Current \/ request.val = NULL)
    BY <1>1, Zenon DEF AddsOrKeeps
<1>4. CASE request.do = "set" /\ request.val \in Texts
           /\ Current' = With(Current, request.key, request.val)
    <2>1. Map!SetKey(request.key, request.val)
        BY <1>4, Zenon DEF Map!SetKey, With
    <2>2. CASE AddsOrKeeps
        BY <1>1, <1>2, <2>1, <2>2, Zenon DEF Answered
    <2>3. CASE ~AddsOrKeeps
        <3>1. request.key \in DOMAIN Current /\ request.val # NULL
            BY <1>3, <1>4, <2>3
        <3>2. Map!SetEntry(request.key, request.val)
            BY <2>1, <3>1, Zenon DEF Map!SetEntry
        <3> QED
            BY <1>1, <1>2, <1>4, <2>3, <3>2, Zenon DEF Answered, Map!Request, Texts
    <2> QED
        BY <2>2, <2>3
<1>5. CASE request.do = "unset"
           /\ Current' = Restrict(Current, DOMAIN Current \ {request.key})
    <2>1. Map!UnsetKey(request.key)
        BY <1>5, Zenon DEF Map!UnsetKey, Map!Restrict, Restrict
    <2>2. ~AddsOrKeeps
        BY <1>3, <1>5
    <2> QED
        BY <1>1, <1>2, <1>5, <2>1, <2>2, Zenon DEF Answered, Map!Request
<1>6. CASE request.do = "other" /\ Current' = Current
    <2>1. ~AddsOrKeeps
        BY <1>3, <1>6
    <2> QED
        BY <1>1, <1>2, <1>6, <2>1, Zenon DEF Answered, Map!Request
<1> QED
    BY <1>0, <1>4, <1>5, <1>6, Zenon DEF Answers

LEMMA InitMap == Init => Map!Init
<1> SUFFICES ASSUME Init PROVE Map!Init
    OBVIOUS
<1>1. files \in Files /\ argv = <<>> /\ calls = <<>> /\ ~Loaded
    BY DEF Init, Loaded
<1>2. PICK d : d = IF files.output = NULL THEN dictionary_new ELSE iniparser_new(files.output)
    OBVIOUS
<1>3. Good(d)
    <2>1. Good(dictionary_new)
        BY NewDictionary
    <2>2. files.output # NULL => Good(iniparser_new(files.output))
        BY <1>1, FilesAreFiles, GrownIs
    <2> QED
        BY <1>2, <2>1, <2>2
<1>4. Current = Contents(d)
    BY <1>1, <1>2, Zenon DEF Current
<1>5. DOMAIN Current \subseteq Keys /\ Map!Range(Current) \subseteq Texts /\ Valued(Current)
    <2>1. PICK m : m = Contents(d)
        OBVIOUS
    <2>2. DOMAIN m \subseteq Keys /\ m \in [DOMAIN m -> Texts]
        <3>1. DOMAIN m = Stored(d) /\ Stored(d) \subseteq Keys /\ m \in [Stored(d) -> Texts]
            BY <1>3, <2>1, ContentsIs, Zenon
        <3> QED
            BY <3>1
    <2>3. Map!Range(m) \subseteq Texts
        BY <2>2 DEF Map!Range
    <2>4. Valued(m)
        <3>1. DOMAIN Contents(dictionary_new) = {}
            BY NewDictionary, ContentsIs
        <3>2. Valued(Contents(dictionary_new))
            BY <3>1 DEF Valued
        <3>3. files.output # NULL => Valued(Contents(iniparser_new(files.output)))
            BY <1>1, InputAssumption, FileIsValued
        <3> QED
            BY <1>2, <2>1, <3>2, <3>3
    <2> QED
        BY <1>4, <2>1, <2>2, <2>3, <2>4, Zenon
<1>6. \A key \in DOMAIN Current : Current[key] = NULL => key \in {k \in DOMAIN Hash : Len(k) = 1}
    BY <1>5 DEF Valued, Keys
<1>7. Requests = <<>>
    <2>1. RequestsOf(<<>>) = <<>>
        BY DEF RequestsOf
    <2>2. <<>> \o <<>> = <<>>
        OBVIOUS
    <2> QED
        BY <1>1, <2>1, <2>2, RequestsAre, Zenon
<1> QED
    BY <1>5, <1>6, <1>7, Zenon DEF Map!Init, Keys, Texts

LEMMA LoadMap ==
    ASSUME IInv, LoadFiles
    PROVE  Current' = Current /\ Requests' = Requests
<1>1. /\ files' = files /\ argv' = argv /\ calls' = calls /\ at = "load" /\ ~Loaded
      /\ files \in Files /\ IsOptions(wr_options)
    BY DEF LoadFiles, IInv, Progress, Shapes
<1>2. Requests' = Requests
    BY <1>1, Zenon DEF Requests
<1>3. CASE wr_options' = wr_options
    BY <1>1, <1>2, <1>3, Zenon DEF Current, Loaded
<1>4. CASE /\ files.output # NULL
           /\ wr_options' = [wr_options EXCEPT !.codecs_options = iniparser_new(files.codecs),
                                               !.output_options = iniparser_new(files.output)]
    <2>1. wr_options'.output_options = iniparser_new(files.output)
        BY <1>1, <1>4 DEF IsOptions
    <2>2. iniparser_new(files.output) # NULL
        BY <1>1, <1>4, FilesAreFiles, GrownIs
    <2>3. Loaded'
        BY <2>1, <2>2 DEF Loaded
    <2>4. Current' = Contents(wr_options'.output_options)
        BY <2>3, Zenon DEF Current
    <2>5. Current = Contents(iniparser_new(files.output))
        BY <1>1, <1>4, Zenon DEF Current
    <2> QED
        BY <1>2, <2>1, <2>4, <2>5, Zenon
<1>5. wr_options' = wr_options
      \/ /\ files.output # NULL
         /\ wr_options' = [wr_options EXCEPT !.codecs_options = iniparser_new(files.codecs),
                                             !.output_options = iniparser_new(files.output)]
    BY DEF LoadFiles
<1> QED
    BY <1>2, <1>3, <1>4, <1>5

LEMMA ArgumentMap ==
    ASSUME IInv, Argument
    PROVE  \E request : Asks(request)
<1>1. PICK a \in Arguments :
               /\ at = "arguments" /\ argv' = Append(argv, a) /\ calls' = calls
               /\ GivenTo("o", a, wr_options.output_options, wr_options'.output_options)
    BY ArgumentIs, Zenon
<1>2. /\ retval = "running" /\ Loaded /\ calls = <<>> /\ argv \in Seq(Arguments)
      /\ Good(wr_options.output_options)
    BY <1>1 DEF IInv, Progress, Shapes, Asked
<1>3. PICK d, e, args : d = wr_options.output_options /\ e = wr_options'.output_options /\ args = argv
    OBVIOUS
<1>4. RequestOf(a) \in AllRequests
    BY RequestIsOne
<1>5. /\ Requests \in Seq(AllRequests) /\ Requests' = Append(Requests, RequestOf(a))
    <2>1. Requests = RequestsOf(args) \o <<>>
        BY <1>2, <1>3, RequestsAre, Zenon
    <2>2. Requests' = RequestsOf(Append(args, a)) \o <<>>
        <3>1. Requests' = RequestsOf(argv') \o calls'
            BY Zenon DEF Requests, RequestsOf, RequestOf
        <3> QED
            BY <3>1, <1>1, <1>2, <1>3, Zenon
    <2>3. args \in Seq(Arguments)
        BY <1>2, <1>3
    <2>4. RequestsOf(Append(args, a)) \o <<>> = Append(RequestsOf(args) \o <<>>, RequestOf(a))
        BY <2>3, ArgumentAppends, Zenon
    <2>5. RequestsOf(args) \o <<>> \in Seq(AllRequests)
        <3>1. RequestsOf(args) \in Seq(AllRequests)
            BY <2>3, RequestsShape
        <3> QED
            BY <3>1
    <2> QED
        BY <2>1, <2>2, <2>4, <2>5, Zenon
<1>6. Good(e) /\ Answers(RequestOf(a), Contents(d), Contents(e))
    <2>1. CASE a[1] = "o" /\ a[2] # NULL
        <3>1. strlwc(a[2][1]) \in Keys /\ a[2][2] \in Texts
            BY <2>1, InputAssumption DEF Keys, Texts
        <3>2. e = dictionary_set(d, strlwc(a[2][1]), a[2][2])
            BY <1>1, <1>3, <2>1, Zenon DEF GivenTo
        <3>3. Good(e) /\ Contents(e) = With(Contents(d), strlwc(a[2][1]), a[2][2])
            BY <1>2, <1>3, <3>1, <3>2, SetIsUpdate, Zenon
        <3>4. PICK r : r = RequestOf(a)
            OBVIOUS
        <3>5. r.do = "set" /\ r.key = strlwc(a[2][1]) /\ r.val = a[2][2]
            BY <2>1, <3>4 DEF RequestOf
        <3> QED
            BY <3>1, <3>3, <3>4, <3>5, Zenon DEF Answers
    <2>2. CASE ~(a[1] = "o" /\ a[2] # NULL)
        <3>1. e = d
            BY <1>1, <1>3, <2>2, Zenon DEF GivenTo
        <3>2. RequestOf(a).do = "other"
            BY <2>2 DEF RequestOf
        <3> QED
            BY <1>2, <1>3, <3>1, <3>2, Zenon DEF Answers
    <2> QED
        BY <2>1, <2>2
<1>7. e # NULL
    BY <1>6, GoodNotNull
<1>8. Loaded'
    BY <1>3, <1>7 DEF Loaded
<1>9. Current = Contents(d) /\ Current' = Contents(e)
    BY <1>2, <1>3, <1>8, Zenon DEF Current
<1>10. Answers(RequestOf(a), Current, Current')
    BY <1>6, <1>9, Zenon
<1>11. RequestOf(a).do # "other" => strlwc(RequestOf(a).key) = RequestOf(a).key
    <2> SUFFICES ASSUME RequestOf(a).do # "other" PROVE strlwc(RequestOf(a).key) = RequestOf(a).key
        OBVIOUS
    <2>1. a[1] = "o" /\ a[2] # NULL
        BY DEF RequestOf
    <2>2. RequestOf(a).key = strlwc(a[2][1])
        BY <2>1 DEF RequestOf
    <2>3. a[2][1] \in Seq(DOMAIN Lower)
        BY <2>1, InputAssumption
    <2>4. strlwc(strlwc(a[2][1])) = strlwc(a[2][1])
        BY <2>3, LowerCase
    <2> QED
        BY <2>2, <2>4, Zenon
<1> QED
    BY <1>4, <1>5, <1>10, <1>11, Zenon DEF Asks

LEMMA ClientMap ==
    ASSUME IInv, Client
    PROVE  \E request : Asks(request)
<1>1. PICK key \in Keys, val \in Texts, do \in {"set", "unset"} :
               /\ strlwc(key) = key
               /\ retval = "WR_OK" /\ UNCHANGED <<files, argv, need, encoders, retval, at>>
               /\ calls' = Append(calls, [do |-> do, key |-> key, val |-> val])
               /\ wr_options' = [wr_options EXCEPT !.output_options =
                      IF do = "set" THEN dictionary_set(wr_options.output_options, key, val)
                      ELSE dictionary_unset(wr_options.output_options, key)]
    BY ClientIs, Zenon
<1>2. PICK d, e : /\ d = wr_options.output_options
                  /\ e = IF do = "set" THEN dictionary_set(d, key, val) ELSE dictionary_unset(d, key)
    OBVIOUS
<1>3. PICK call : call = [do |-> do, key |-> key, val |-> val]
    OBVIOUS
<1>4. /\ Loaded /\ IsOptions(wr_options) /\ Good(d) /\ calls \in Seq(CallsMade)
      /\ argv \in Seq(Arguments)
    BY <1>1, <1>2 DEF IInv, Progress, Shapes, Asked
<1>5. wr_options'.output_options = e
    <2>1. wr_options' = [wr_options EXCEPT !.output_options = e]
        BY <1>1, <1>2, Zenon
    <2> QED
        BY <2>1, <1>4 DEF IsOptions
<1>6. call \in AllRequests /\ call.do = do /\ call.key = key /\ call.val = val
    BY <1>3 DEF AllRequests, CallsMade
<1>7. Requests \in Seq(AllRequests) /\ Requests' = Append(Requests, call)
    <2>1. PICK r, made : r = RequestsOf(argv) /\ made = calls
        OBVIOUS
    <2>2. r \in Seq(AllRequests) /\ made \in Seq(AllRequests)
        <3>1. r \in Seq(AllRequests)
            BY <1>4, <2>1, RequestsShape
        <3> QED
            BY <3>1, <1>4, <2>1 DEF AllRequests
    <2>3. r \o Append(made, call) = Append(r \o made, call) /\ r \o made \in Seq(AllRequests)
        BY <1>6, <2>2, CallAppends
    <2>4. Requests = r \o made
        BY <2>1, RequestsAre, Zenon
    <2>5. Requests' = RequestsOf(argv') \o calls'
        BY Zenon DEF Requests, RequestsOf, RequestOf
    <2>6. argv' = argv /\ calls' = Append(made, call)
        BY <1>1, <1>3, <2>1
    <2> QED
        BY <2>1, <2>3, <2>4, <2>5, <2>6, Zenon
<1>8. Good(e) /\ Answers(call, Contents(d), Contents(e))
    <2>1. CASE do = "set"
        <3>1. e = dictionary_set(d, key, val)
            BY <1>2, <2>1, Zenon
        <3>2. Good(e) /\ Contents(e) = With(Contents(d), key, val)
            BY <1>4, <3>1, SetIsUpdate, Zenon
        <3> QED
            BY <1>6, <2>1, <3>2, Zenon DEF Answers
    <2>2. CASE do = "unset"
        <3>1. do # "set"
            BY <2>2
        <3>2. e = dictionary_unset(d, key)
            BY <1>2, <3>1, Zenon
        <3>3. Good(e) /\ Contents(e) = Restrict(Contents(d), DOMAIN Contents(d) \ {key})
            BY <1>4, <3>2, UnsetIsRemoval, Zenon
        <3> QED
            BY <1>6, <2>2, <3>3, Zenon DEF Answers
    <2> QED
        BY <2>1, <2>2
<1>9. Loaded'
    BY <1>5, <1>8, GoodNotNull DEF Loaded
<1>10. Current = Contents(d) /\ Current' = Contents(e)
    BY <1>2, <1>4, <1>5, <1>9, Zenon DEF Current
<1>11. Answers(call, Current, Current')
    BY <1>8, <1>10, Zenon
<1>12. strlwc(call.key) = call.key
    BY <1>1, <1>6, Zenon
<1> QED
    BY <1>6, <1>7, <1>11, <1>12, Zenon DEF Asks

\* What ends the command line and what follows leaves the output options alone.
LEMMA OtherMap ==
    ASSUME IInv, EndOfArguments \/ NextCodec \/ FinalChecks \/ UNCHANGED vars
    PROVE  Current' = Current /\ Requests' = Requests
<1>1. files' = files /\ argv' = argv /\ calls' = calls
    BY DEF EndOfArguments, NextCodec, FinalChecks, vars
<1>2. IsOptions(wr_options)
    BY DEF IInv, Shapes
<1>3. \A list : [wr_options EXCEPT !.codec_list = list].output_options = wr_options.output_options
    BY <1>2 DEF IsOptions
<1>4. wr_options'.output_options = wr_options.output_options
    <2>1. CASE wr_options' = wr_options
        BY <2>1
    <2>2. CASE \E list : wr_options' = [wr_options EXCEPT !.codec_list = list]
        BY <2>2, <1>3, Zenon
    <2>3. wr_options' = wr_options \/ \E list : wr_options' = [wr_options EXCEPT !.codec_list = list]
        BY Zenon DEF EndOfArguments, NextCodec, FinalChecks, vars
    <2> QED
        BY <2>1, <2>2, <2>3
<1>5. Requests' = Requests
    BY <1>1, Zenon DEF Requests
<1> QED
    BY <1>1, <1>4, <1>5 DEF Current, Loaded

\* The output options are a map, which the files fill and of which every argument and
\* every call of a user changes the entry it names and no other: whatever hashes
\* collide, slots are reused and arrays grow (iniparser.c:301-477).
THEOREM ImplementsMap == Spec => ImplementsDictionary
<1>1. IInv /\ [Next]_vars => [Answered]_<<Current, Requests>>
    BY LoadMap, ArgumentMap, ClientMap, OtherMap, AnswersRequest DEF Next
<1>2. IInv /\ [Next]_vars
          => [IF AddsOrKeeps
              THEN Map!Made /\ Map!SetKey(Last(Requests').key, Last(Requests').val)
              ELSE Map!Request]_<<Current, Requests>>
    BY <1>1 DEF Answered
<1> QED
    BY <1>2, InitMap, AlwaysAsAsked, PTL DEF Spec, ImplementsDictionary

--------------------------------------------------------------------------------
(* What is read back: the entries a file gives, line by line.                *)

Enters(line) == AddsSection(line) \/ AddsKey(line)
KeyOf(lines, i) ==
    LongKey(SectionAt(lines, i), IF AddsSection(lines[i]) THEN NULL ELSE strlwc(lines[i].name))
ValOf(line) == IF AddsSection(line) THEN NULL ELSE ReadValue(line)

\* The keys of the first n lines.
KeysOf(lines, n) == {KeyOf(lines, i) : i \in {j \in 1..n : Enters(lines[j])}}

LEMMA LineIs ==
    ASSUME NEW lines, IsFile(lines), NEW i \in DOMAIN lines, NEW d
    PROVE  /\ Enters(lines[i]) =>
                  /\ KeyOf(lines, i) \in Keys /\ ValOf(lines[i]) \in Texts
                  /\ ReadLine(lines, i, d) = dictionary_set(d, KeyOf(lines, i), ValOf(lines[i]))
           /\ ~Enters(lines[i]) => ReadLine(lines, i, d) = d
<1>1. /\ AddsSection(lines[i]) => LongKey(SectionAt(lines, i), NULL) \in Keys
      /\ AddsKey(lines[i]) => /\ LongKey(SectionAt(lines, i), strlwc(lines[i].name)) \in Keys
                              /\ ReadValue(lines[i]) \in Texts
    BY DEF IsFile, Keys, Texts
<1>2. NULL \in Texts
    BY DEF Texts
<1>3. CASE AddsSection(lines[i])
    <2>1. KeyOf(lines, i) = LongKey(SectionAt(lines, i), NULL) /\ ValOf(lines[i]) = NULL
        BY <1>3, Zenon DEF KeyOf, ValOf
    <2>2. ReadLine(lines, i, d) = dictionary_set(d, LongKey(SectionAt(lines, i), NULL), NULL)
        BY <1>3, Zenon DEF ReadLine, iniparser_add_entry
    <2> QED
        BY <1>1, <1>2, <1>3, <2>1, <2>2, Zenon DEF Enters
<1>4. CASE ~AddsSection(lines[i]) /\ AddsKey(lines[i])
    <2>1. /\ KeyOf(lines, i) = LongKey(SectionAt(lines, i), strlwc(lines[i].name))
          /\ ValOf(lines[i]) = ReadValue(lines[i])
        BY <1>4, Zenon DEF KeyOf, ValOf
    <2>2. ReadLine(lines, i, d) =
              dictionary_set(d, LongKey(SectionAt(lines, i), strlwc(lines[i].name)), ReadValue(lines[i]))
        BY <1>4, Zenon DEF ReadLine, iniparser_add_entry
    <2> QED
        BY <1>1, <1>4, <2>1, <2>2, Zenon DEF Enters
<1>5. CASE ~AddsSection(lines[i]) /\ ~AddsKey(lines[i])
    BY <1>5, Zenon DEF ReadLine, Enters
<1> QED
    BY <1>3, <1>4, <1>5

LEMMA KeysGrow ==
    ASSUME NEW lines, NEW n \in Nat
    PROVE  /\ Enters(lines[n + 1]) => KeysOf(lines, n + 1) = KeysOf(lines, n) \cup {KeyOf(lines, n + 1)}
           /\ ~Enters(lines[n + 1]) => KeysOf(lines, n + 1) = KeysOf(lines, n)
<1> DEFINE E(k) == {j \in 1..k : Enters(lines[j])}
<1>1. 1..(n + 1) = (1..n) \cup {n + 1}
    OBVIOUS
<1>2. Enters(lines[n + 1]) => E(n + 1) = E(n) \cup {n + 1}
    BY <1>1
<1>3. ~Enters(lines[n + 1]) => E(n + 1) = E(n)
    BY <1>1
<1>4. \A k : KeysOf(lines, k) = {KeyOf(lines, i) : i \in E(k)}
    BY Zenon DEF KeysOf
<1> HIDE DEF E
<1>5. CASE Enters(lines[n + 1])
    <2>1. {KeyOf(lines, i) : i \in E(n) \cup {n + 1}}
              = {KeyOf(lines, i) : i \in E(n)} \cup {KeyOf(lines, n + 1)}
        OBVIOUS
    <2> QED
        BY <1>2, <1>4, <1>5, <2>1, Zenon
<1>6. CASE ~Enters(lines[n + 1])
    BY <1>3, <1>4, <1>6, Zenon
<1> QED
    BY <1>5, <1>6

\* The entries of map at some keys.
Only(map, keys) == [key \in keys |-> map[key]]

\* Every line that adds an entry adds one of map.
Fits(lines, map) ==
    \A i \in DOMAIN lines :
        Enters(lines[i]) => KeyOf(lines, i) \in DOMAIN map /\ map[KeyOf(lines, i)] = ValOf(lines[i])

\* A file gives the keys of its lines, and entries of the map its lines fit.
LEMMA FileGives ==
    ASSUME NEW lines, IsFile(lines)
    PROVE  /\ Stored(iniparser_new(lines)) = KeysOf(lines, Len(lines))
           /\ \A map : Fits(lines, map) =>
                  Contents(iniparser_new(lines)) = Only(map, KeysOf(lines, Len(lines)))
<1>1. PICK n \in Nat : n = Len(lines) /\ DOMAIN lines = 1..n
    BY DEF IsFile
<1>2. PICK read : Reads(read, lines)
    BY FileReads
<1>3. /\ read[0] = dictionary_new /\ \A i \in 0..n : read[i] \in Grown
      /\ \A i \in 1..n : read[i] = ReadLine(lines, i, read[i - 1])
      /\ iniparser_new(lines) = read[n]
    BY <1>1, <1>2, Zenon DEF Reads
<1>4. \A i \in 0..n : Good(read[i])
    BY <1>3, GrownIs
<1>5. KeysOf(lines, 0) = {}
    <2>1. {j \in 1..0 : Enters(lines[j])} = {}
        OBVIOUS
    <2> QED
        BY <2>1 DEF KeysOf
<1> DEFINE T == {i \in Nat : i <= n => Stored(read[i]) = KeysOf(lines, i)}
<1>6. 0 \in T
    BY <1>3, <1>5, NewDictionary
<1>7. ASSUME NEW i \in Nat, i + 1 <= n
      PROVE  /\ i \in 0..n /\ i + 1 \in 0..n /\ i + 1 \in DOMAIN lines
             /\ Enters(lines[i + 1]) =>
                    /\ KeyOf(lines, i + 1) \in Keys
                    /\ Contents(read[i + 1]) = With(Contents(read[i]), KeyOf(lines, i + 1), ValOf(lines[i + 1]))
             /\ ~Enters(lines[i + 1]) => read[i + 1] = read[i]
    <2>1. i \in 0..n /\ i + 1 \in 0..n /\ i + 1 \in 1..n /\ (i + 1) - 1 = i
        BY <1>7
    <2>2. i + 1 \in DOMAIN lines
        BY <2>1, <1>1
    <2>3. read[i + 1] = ReadLine(lines, i + 1, read[i])
        BY <2>1, <1>3
    <2>4. /\ Enters(lines[i + 1]) =>
                  /\ KeyOf(lines, i + 1) \in Keys /\ ValOf(lines[i + 1]) \in Texts
                  /\ read[i + 1] = dictionary_set(read[i], KeyOf(lines, i + 1), ValOf(lines[i + 1]))
          /\ ~Enters(lines[i + 1]) => read[i + 1] = read[i]
        BY <2>2, <2>3, LineIs, Zenon
    <2>5. Good(read[i])
        BY <2>1, <1>4
    <2> QED
        BY <2>1, <2>2, <2>4, <2>5, SetIsUpdate, Zenon
<1>8. ASSUME NEW i \in Nat, i \in T PROVE i + 1 \in T
    <2> SUFFICES ASSUME i + 1 <= n PROVE Stored(read[i + 1]) = KeysOf(lines, i + 1)
        OBVIOUS
    <2>1. Stored(read[i]) = KeysOf(lines, i)
        BY <1>8
    <2>2. CASE Enters(lines[i + 1])
        <3>1. Contents(read[i + 1]) = With(Contents(read[i]), KeyOf(lines, i + 1), ValOf(lines[i + 1]))
            BY <1>7, <2>2
        <3>2. DOMAIN Contents(read[i + 1]) = DOMAIN Contents(read[i]) \cup {KeyOf(lines, i + 1)}
            <4>1. \A map, key, val : DOMAIN With(map, key, val) = DOMAIN map \cup {key}
                BY DEF With
            <4> QED
                BY <3>1, <4>1, Zenon
        <3>3. \A k : DOMAIN Contents(read[k]) = Stored(read[k])
            BY DEF Contents
        <3>4. KeysOf(lines, i + 1) = KeysOf(lines, i) \cup {KeyOf(lines, i + 1)}
            BY <2>2, KeysGrow
        <3> QED
            BY <2>1, <3>2, <3>3, <3>4, Zenon
    <2>3. CASE ~Enters(lines[i + 1])
        <3>1. read[i + 1] = read[i] /\ KeysOf(lines, i + 1) = KeysOf(lines, i)
            BY <1>7, <2>3, KeysGrow
        <3> QED
            BY <2>1, <3>1, Zenon
    <2> QED
        BY <2>2, <2>3
<1>9. Nat \subseteq T
    <2> HIDE DEF T
    <2> QED
        BY <1>6, <1>8, Induction
<1>10. \A i \in 0..n : Stored(read[i]) = KeysOf(lines, i)
    BY <1>9
<1> HIDE DEF T
<1>11. ASSUME NEW map, Fits(lines, map)
       PROVE  Contents(read[n]) = Only(map, KeysOf(lines, n))
    <2> DEFINE U == {i \in Nat : i <= n => \A k \in KeysOf(lines, i) : Contents(read[i])[k] = map[k]}
    <2>1. 0 \in U
        BY <1>5
    <2>2. ASSUME NEW i \in Nat, i \in U PROVE i + 1 \in U
        <3> SUFFICES ASSUME i + 1 <= n, NEW k \in KeysOf(lines, i + 1)
                     PROVE  Contents(read[i + 1])[k] = map[k]
            OBVIOUS
        <3>1. \A key \in KeysOf(lines, i) : Contents(read[i])[key] = map[key]
            BY <2>2
        <3>2. CASE Enters(lines[i + 1])
            <4>1. PICK c, key, val : c = Contents(read[i]) /\ key = KeyOf(lines, i + 1) /\ val = ValOf(lines[i + 1])
                OBVIOUS
            <4>2. Contents(read[i + 1]) = With(c, key, val)
                BY <1>7, <3>2, <4>1
            <4>3. DOMAIN c = KeysOf(lines, i) /\ KeysOf(lines, i + 1) = KeysOf(lines, i) \cup {key}
                <5>1. DOMAIN c = Stored(read[i])
                    BY <4>1 DEF Contents
                <5>2. i \in 0..n
                    BY <1>7
                <5> QED
                    BY <5>1, <5>2, <1>10, <3>2, <4>1, KeysGrow
            <4>4. val = map[key]
                BY <1>7, <1>11, <3>2, <4>1 DEF Fits
            <4>5. With(c, key, val)[k] = IF k = key THEN val ELSE c[k]
                BY <4>3 DEF With
            <4> QED
                BY <3>1, <4>1, <4>2, <4>3, <4>4, <4>5
        <3>3. CASE ~Enters(lines[i + 1])
            <4>1. read[i + 1] = read[i] /\ KeysOf(lines, i + 1) = KeysOf(lines, i)
                BY <1>7, <3>3, KeysGrow
            <4> QED
                BY <3>1, <4>1, Zenon
        <3> QED
            BY <3>2, <3>3
    <2>3. Nat \subseteq U
        <3> HIDE DEF U
        <3> QED
            BY <2>1, <2>2, Induction
    <2>4. \A k \in KeysOf(lines, n) : Contents(read[n])[k] = map[k]
        BY <2>3
    <2>5. PICK c : c = Contents(read[n])
        OBVIOUS
    <2>6. n \in 0..n
        OBVIOUS
    <2>7. c \in [KeysOf(lines, n) -> Texts]
        BY <1>4, <1>10, <2>5, <2>6, ContentsIs, Zenon
    <2>8. c = [k \in KeysOf(lines, n) |-> map[k]]
        BY <2>4, <2>5, <2>7
    <2> QED
        BY <2>5, <2>8, Zenon DEF Only
<1>12. n \in 0..n
    OBVIOUS
<1> QED
    BY <1>1, <1>3, <1>10, <1>11, <1>12, Zenon

--------------------------------------------------------------------------------
(* Every key is stored in lower case.                                        *)

\* The lines up to i that start a section.
Starts(lines, i) == {j \in 1..i : lines[j].kind = "section"}

LEMMA SectionAtIs ==
    ASSUME NEW lines, NEW i
    PROVE  SectionAt(lines, i) =
               IF Starts(lines, i) = {} THEN "" ELSE strlwc(lines[Latest(Starts(lines, i))].name)[1]
BY Zenon DEF SectionAt, Starts, Latest

\* A line is in a section whose name is in lower case.
LEMMA SectionIs ==
    ASSUME NEW lines, IsFile(lines), NEW i \in DOMAIN lines
    PROVE  SectionAt(lines, i) \in DOMAIN Lower /\ Lower[SectionAt(lines, i)] = SectionAt(lines, i)
<1>1. i \in Nat /\ \A j \in 1..i : j \in DOMAIN lines
    BY DEF IsFile
<1>2. PICK T : T = Starts(lines, i)
    OBVIOUS
<1>3. SectionAt(lines, i) = IF T = {} THEN "" ELSE strlwc(lines[Latest(T)].name)[1]
    BY <1>2, SectionAtIs, Zenon
<1>4. CASE T = {}
    BY <1>3, <1>4, TextAssumption
<1>5. CASE T # {}
    <2>1. PICK j : j = Latest(T)
        OBVIOUS
    <2>2. j \in T
        <3>1. T \subseteq 1..i
            BY <1>2 DEF Starts
        <3> QED
            BY <1>1, <1>5, <2>1, <3>1, LatestIs
    <2>3. AddsSection(lines[j]) /\ j \in DOMAIN lines
        BY <1>1, <1>2, <2>2 DEF AddsSection, Starts
    <2>4. lines[j].name \in Seq(DOMAIN Lower) \ {<<>>}
        BY <2>3 DEF IsFile
    <2>5. PICK name : name = lines[j].name
        OBVIOUS
    <2>6. 1 \in DOMAIN name /\ name[1] \in DOMAIN Lower
        BY <2>4, <2>5
    <2>7. strlwc(name)[1] = Lower[name[1]]
        BY <2>6 DEF strlwc
    <2>8. SectionAt(lines, i) = Lower[name[1]]
        BY <1>3, <1>5, <2>1, <2>5, <2>7, Zenon
    <2>9. Lower[name[1]] \in DOMAIN Lower /\ Lower[Lower[name[1]]] = Lower[name[1]]
        BY <2>6, TextAssumption
    <2> QED
        BY <2>8, <2>9, Zenon
<1> QED
    BY <1>4, <1>5

\* The key of a section, and of what is inside, from parts in lower case.
LEMMA LongKeyIs ==
    ASSUME NEW sec \in DOMAIN Lower, Lower[sec] = sec
    PROVE  /\ LongKey(sec, NULL) = <<sec>> /\ strlwc(<<sec>>) = <<sec>>
           /\ \A key \in Seq(DOMAIN Lower) :
                  /\ LongKey(sec, key) = <<sec>> \o key
                  /\ strlwc(key) = key => strlwc(<<sec>> \o key) = <<sec>> \o key
<1>1. LongKey(sec, NULL) = <<sec>>
    BY DEF LongKey
<1>2. strlwc(<<sec>>) = <<sec>>
    <2>1. PICK k : k = <<sec>>
        OBVIOUS
    <2>2. DOMAIN k = 1..1 /\ k[1] = sec /\ k = [i \in 1..1 |-> sec]
        BY <2>1
    <2>3. strlwc(k) = [i \in 1..1 |-> sec]
        BY <2>2 DEF strlwc
    <2> QED
        BY <2>1, <2>2, <2>3, Zenon
<1>3. ASSUME NEW key \in Seq(DOMAIN Lower)
      PROVE  /\ LongKey(sec, key) = <<sec>> \o key
             /\ strlwc(key) = key => strlwc(<<sec>> \o key) = <<sec>> \o key
    <2>1. key # NULL
        BY NullAssumption
    <2>2. LongKey(sec, key) = <<sec>> \o key
        BY <2>1, Zenon DEF LongKey
    <2>3. ASSUME strlwc(key) = key PROVE strlwc(<<sec>> \o key) = <<sec>> \o key
        <3>1. PICK n \in Nat : n = Len(key) /\ DOMAIN key = 1..n
            OBVIOUS
        <3>2. \A i \in 1..n : Lower[key[i]] = key[i]
            <4>1. strlwc(key) = [i \in 1..n |-> Lower[key[i]]]
                BY <3>1 DEF strlwc
            <4> QED
                BY <2>3, <4>1
        <3>3. PICK k : k = <<sec>> \o key
            OBVIOUS
        <3>4. k \in Seq(DOMAIN Lower) /\ DOMAIN k = 1..(n + 1) /\ k[1] = sec
              /\ \A i \in 2..(n + 1) : k[i] = key[i - 1]
            BY <3>1, <3>3
        <3>5. \A i \in 1..(n + 1) : Lower[k[i]] = k[i]
            <4>1. \A i \in 2..(n + 1) : i - 1 \in 1..n
                OBVIOUS
            <4>2. \A i \in 2..(n + 1) : Lower[k[i]] = k[i]
                BY <3>2, <3>4, <4>1
            <4>3. \A i \in 1..(n + 1) : i = 1 \/ i \in 2..(n + 1)
                OBVIOUS
            <4> QED
                BY <3>4, <4>2, <4>3
        <3>6. strlwc(k) = [i \in 1..(n + 1) |-> k[i]]
            BY <3>4, <3>5 DEF strlwc
        <3>7. k = [i \in 1..(n + 1) |-> k[i]]
            BY <3>4
        <3> QED
            BY <3>3, <3>6, <3>7, Zenon
    <2> QED
        BY <2>2, <2>3
<1> QED
    BY <1>1, <1>2, <1>3

Lowered(keys) == \A key \in keys : strlwc(key) = key

LEMMA KeyIsLowered ==
    ASSUME NEW lines, IsFile(lines), NEW i \in DOMAIN lines, Enters(lines[i])
    PROVE  strlwc(KeyOf(lines, i)) = KeyOf(lines, i)
<1>1. PICK sec : sec = SectionAt(lines, i)
    OBVIOUS
<1>2. sec \in DOMAIN Lower /\ Lower[sec] = sec
    BY <1>1, SectionIs
<1>3. CASE AddsSection(lines[i])
    <2>1. KeyOf(lines, i) = LongKey(sec, NULL)
        BY <1>1, <1>3, Zenon DEF KeyOf
    <2> QED
        BY <1>2, <2>1, LongKeyIs, Zenon
<1>4. CASE ~AddsSection(lines[i])
    <2>1. AddsKey(lines[i])
        BY <1>4 DEF Enters
    <2>2. lines[i].name \in Seq(DOMAIN Lower)
        BY <2>1 DEF IsFile
    <2>3. PICK key : key = strlwc(lines[i].name)
        OBVIOUS
    <2>4. key \in Seq(DOMAIN Lower) /\ strlwc(key) = key
        BY <2>2, <2>3, LowerCase, Zenon
    <2>5. KeyOf(lines, i) = LongKey(sec, key)
        BY <1>1, <1>4, <2>3, Zenon DEF KeyOf
    <2> QED
        BY <1>2, <2>4, <2>5, LongKeyIs, Zenon
<1> QED
    BY <1>3, <1>4

LEMMA FileIsLowered ==
    ASSUME NEW lines, IsFile(lines)
    PROVE  Lowered(Stored(iniparser_new(lines)))
<1>1. Len(lines) \in Nat /\ DOMAIN lines = 1..Len(lines)
    BY DEF IsFile
<1>2. ASSUME NEW key \in KeysOf(lines, Len(lines)) PROVE strlwc(key) = key
    <2>1. PICK i \in DOMAIN lines : Enters(lines[i]) /\ key = KeyOf(lines, i)
        BY <1>1 DEF KeysOf
    <2> QED
        BY <2>1, KeyIsLowered
<1> QED
    BY <1>2, FileGives, Zenon DEF Lowered

LEMMA InitLowered == Init => Lowered(DOMAIN Current)
<1> SUFFICES ASSUME Init PROVE Lowered(DOMAIN Current)
    OBVIOUS
<1>1. files \in Files /\ ~Loaded
    BY DEF Init, Loaded
<1>2. \A d : DOMAIN Contents(d) = Stored(d)
    BY DEF Contents
<1>3. CASE files.output = NULL
    <2>1. Current = Contents(dictionary_new)
        BY <1>1, <1>3, Zenon DEF Current
    <2>2. Stored(dictionary_new) = {}
        BY NewDictionary
    <2> QED
        BY <1>2, <2>1, <2>2 DEF Lowered
<1>4. CASE files.output # NULL
    <2>1. Current = Contents(iniparser_new(files.output))
        BY <1>1, <1>4, Zenon DEF Current
    <2>2. IsFile(files.output)
        BY <1>1, <1>4, InputAssumption
    <2> QED
        BY <1>2, <2>1, <2>2, FileIsLowered, Zenon
<1> QED
    BY <1>3, <1>4

LEMMA AsksLowered ==
    ASSUME NEW request, Asks(request), Lowered(DOMAIN Current)
    PROVE  Lowered(DOMAIN Current')
<1>1. PICK map, next : map = Current /\ next = Current'
    OBVIOUS
<1>2. Answers(request, map, next) /\ (request.do # "other" => strlwc(request.key) = request.key)
    BY <1>1, Zenon DEF Asks
<1>3. Lowered(DOMAIN map)
    BY <1>1
<1>4. CASE request.do = "set" /\ next = With(map, request.key, request.val)
    <2>1. DOMAIN next = DOMAIN map \cup {request.key}
        BY <1>4 DEF With
    <2>2. strlwc(request.key) = request.key
        BY <1>2, <1>4
    <2>3. Lowered(DOMAIN next)
        BY <1>3, <2>1, <2>2 DEF Lowered
    <2> QED
        BY <1>1, <2>3, Zenon
<1>5. CASE next = Restrict(map, DOMAIN map \ {request.key})
    <2>1. DOMAIN next \subseteq DOMAIN map
        BY <1>5 DEF Restrict
    <2>2. Lowered(DOMAIN next)
        BY <1>3, <2>1 DEF Lowered
    <2> QED
        BY <1>1, <2>2, Zenon
<1>6. CASE next = map
    BY <1>1, <1>3, <1>6, Zenon
<1> QED
    BY <1>2, <1>4, <1>5, <1>6, Zenon DEF Answers

LEMMA StepLowered ==
    ASSUME IInv, [Next]_vars, Lowered(DOMAIN Current)
    PROVE  Lowered(DOMAIN Current')
<1>1. (\E request : Asks(request)) \/ Current' = Current
    BY LoadMap, ArgumentMap, ClientMap, OtherMap DEF Next
<1>2. CASE Current' = Current
    BY <1>2, Zenon
<1>3. CASE \E request : Asks(request)
    BY <1>3, AsksLowered
<1> QED
    BY <1>1, <1>2, <1>3

\* The keys of the output options are in lower case, however they were given
\* (iniparser.c:893, 909, 958-963, options.c:196-203).
LEMMA KeysInLowerCase == Spec => []Lowered(DOMAIN Current)
<1>1. IInv /\ Lowered(DOMAIN Current) /\ [Next]_vars => Lowered(DOMAIN Current)'
    BY StepLowered
<1> QED
    BY <1>1, InitLowered, AlwaysAsAsked, PTL DEF Spec

--------------------------------------------------------------------------------
(* What is written: the sections of the dictionary, one after the other.     *)

LEMMA RangeAppended ==
    ASSUME NEW S, NEW s \in Seq(S), NEW x \in S
    PROVE  Append(s, x) \in Seq(S) /\ Range(Append(s, x)) = Range(s) \cup {x}
<1>1. PICK n \in Nat : n = Len(s) /\ DOMAIN s = 1..n
    OBVIOUS
<1>2. PICK t : t = Append(s, x)
    OBVIOUS
<1>3. t \in Seq(S) /\ DOMAIN t = 1..(n + 1) /\ t[n + 1] = x /\ \A i \in 1..n : t[i] = s[i]
    BY <1>1, <1>2
<1>4. \A i : i \in 1..(n + 1) <=> i \in 1..n \/ i = n + 1
    OBVIOUS
<1>5. Range(t) = Range(s) \cup {x}
    BY <1>1, <1>3, <1>4 DEF Range
<1> QED
    BY <1>2, <1>3, <1>5, Zenon

\* The elements that are in T, and no others.
LEMMA ThoseIs ==
    ASSUME NEW S, NEW slots \in Seq(S), NEW T
    PROVE  Those(slots, T) \in Seq(S) /\ Range(Those(slots, T)) = Range(slots) \cap T
<1>1. PICK n \in Nat : n = Len(slots) /\ DOMAIN slots = 1..n
    OBVIOUS
<1> DEFINE Taking(g) == [i \in 0..Len(slots) |->
               IF i = 0 THEN <<>> ELSE IF slots[i] \in T THEN Append(g[i - 1], slots[i]) ELSE g[i - 1]]
           step == [i \in Nat |-> [s \in Seq(S) |->
               IF i + 1 <= n /\ slots[i + 1] \in T THEN Append(s, slots[i + 1]) ELSE s]]
<1>2. step \in [Nat -> [Seq(S) -> Seq(S)]]
    <2>1. ASSUME NEW i \in Nat, NEW s \in Seq(S), i + 1 <= n PROVE Append(s, slots[i + 1]) \in Seq(S)
        <3>1. slots[i + 1] \in S
            BY <1>1, <2>1
        <3> QED
            BY <3>1
    <2> QED
        BY <2>1
<1>3. PICK f : IsIteration(f, Seq(S), <<>>, step)
    <2>1. <<>> \in Seq(S)
        OBVIOUS
    <2> HIDE DEF step
    <2> QED
        BY <2>1, <1>2, RecursiveFunction, Zenon
<1>4. f \in [Nat -> Seq(S)] /\ f[0] = <<>> /\ \A i \in Nat : f[i + 1] = step[i][f[i]]
    <2> HIDE DEF step
    <2> QED
        BY <1>3 DEF IsIteration
<1>5. \A i \in Nat : i + 1 <= n =>
          f[i + 1] = IF slots[i + 1] \in T THEN Append(f[i], slots[i + 1]) ELSE f[i]
    BY <1>4
<1>6. PICK h : h = [i \in 0..n |-> f[i]]
    OBVIOUS
<1>7. ASSUME NEW i \in 0..n
      PROVE  h[i] = IF i = 0 THEN <<>> ELSE IF slots[i] \in T THEN Append(h[i - 1], slots[i]) ELSE h[i - 1]
    <2>1. CASE i = 0
        BY <2>1, <1>4, <1>6
    <2>2. CASE i # 0
        <3>1. PICK k \in Nat : k = i - 1
            BY <2>2
        <3>2. k + 1 = i /\ k + 1 <= n /\ h[i] = f[k + 1] /\ h[k] = f[k]
            BY <3>1, <2>2, <1>6
        <3>3. f[k + 1] = IF slots[k + 1] \in T THEN Append(f[k], slots[k + 1]) ELSE f[k]
            BY <3>2, <1>5
        <3>4. h[i] = IF slots[i] \in T THEN Append(h[i - 1], slots[i]) ELSE h[i - 1]
            BY <3>1, <3>2, <3>3, Zenon
        <3> QED
            BY <2>2, <3>4, Zenon
    <2> QED
        BY <2>1, <2>2
<1>8. h = Taking(h)
    <2>1. Taking(h) = [i \in 0..n |-> h[i]]
        BY <1>1, <1>7, Zenon
    <2>2. h = [i \in 0..n |-> h[i]]
        BY <1>6
    <2> QED
        BY <2>1, <2>2, Zenon
<1> DEFINE some == CHOOSE g : g = Taking(g)
<1>9. some = Taking(some)
    <2> HIDE DEF Taking
    <2> QED
        BY <1>8, Zenon
<1>10. Those(slots, T) = some[n]
    BY <1>1, Zenon DEF Those
<1> HIDE DEF some
<1>11. \A i \in 0..n : some[i] =
           IF i = 0 THEN <<>> ELSE IF slots[i] \in T THEN Append(some[i - 1], slots[i]) ELSE some[i - 1]
    BY <1>1, <1>9
<1> DEFINE Part(i) == {slots[k] : k \in 1..i} \cap T
           U == {i \in Nat : i <= n => some[i] \in Seq(S) /\ Range(some[i]) = Part(i)}
<1>12. 0 \in U
    <2>1. some[0] = <<>>
        <3>1. 0 \in 0..n
            OBVIOUS
        <3> HIDE DEF Part, U
        <3> QED
            BY <3>1, <1>11, Zenon
    <2>2. Range(<<>>) = {} /\ Part(0) = {} /\ <<>> \in Seq(S)
        BY DEF Range
    <2> HIDE DEF Part
    <2> QED
        BY <2>1, <2>2
<1>13. ASSUME NEW i \in Nat, i \in U PROVE i + 1 \in U
    <2> SUFFICES ASSUME i + 1 <= n PROVE some[i + 1] \in Seq(S) /\ Range(some[i + 1]) = Part(i + 1)
        OBVIOUS
    <2>1. some[i] \in Seq(S) /\ Range(some[i]) = Part(i)
        BY <1>13
    <2>2. i + 1 \in 0..n /\ i + 1 # 0 /\ (i + 1) - 1 = i /\ slots[i + 1] \in S
        BY <1>1
    <2>3. some[i + 1] = IF slots[i + 1] \in T THEN Append(some[i], slots[i + 1]) ELSE some[i]
        BY <2>2, <1>11
    <2>4. {slots[k] : k \in 1..(i + 1)} = {slots[k] : k \in 1..i} \cup {slots[i + 1]}
        <3>1. 1..(i + 1) = (1..i) \cup {i + 1}
            OBVIOUS
        <3> QED
            BY <3>1
    <2>5. CASE slots[i + 1] \in T
        <3>1. PICK s, x : s = some[i] /\ x = slots[i + 1]
            OBVIOUS
        <3>2. Append(s, x) \in Seq(S) /\ Range(Append(s, x)) = Range(s) \cup {x}
            <4>1. s \in Seq(S) /\ x \in S
                BY <3>1, <2>1, <2>2
            <4> QED
                BY <4>1, RangeAppended
        <3>3. some[i + 1] = Append(s, x)
            BY <2>3, <2>5, <3>1, Zenon
        <3>4. Part(i + 1) = Part(i) \cup {x}
            BY <2>4, <2>5, <3>1
        <3> HIDE DEF Part
        <3> QED
            BY <2>1, <3>1, <3>2, <3>3, <3>4, Zenon
    <2>6. CASE slots[i + 1] \notin T
        <3>1. some[i + 1] = some[i] /\ Part(i + 1) = Part(i)
            BY <2>3, <2>4, <2>6
        <3> HIDE DEF Part
        <3> QED
            BY <2>1, <3>1, Zenon
    <2> QED
        BY <2>5, <2>6
<1>14. Nat \subseteq U
    <2> HIDE DEF U
    <2> QED
        BY <1>12, <1>13, Induction
<1>15. some[n] \in Seq(S) /\ Range(some[n]) = Part(n)
    <2>1. n \in U
        BY <1>14, Zenon
    <2> HIDE DEF Part
    <2> QED
        BY <2>1
<1>16. Part(n) = Range(slots) \cap T
    BY <1>1 DEF Range
<1> QED
    BY <1>10, <1>15, <1>16, Zenon

\* Every line with the section in which it is.
Places(lines) == {<<SectionAt(lines, i), lines[i]>> : i \in DOMAIN lines}

\* The lines of one section.
Block(lines, sec) ==
    /\ Len(lines) > 0 /\ lines[1].kind = "section" /\ strlwc(lines[1].name)[1] = sec
    /\ \A i \in 2..Len(lines) : lines[i].kind # "section"

\* Lines in front of others are in the section they were in, and those of a section
\* that comes behind are in that one.
LEMMA BlockAppended ==
    ASSUME NEW S, NEW q \in Seq(S), NEW b \in Seq(S), NEW sec, Block(b, sec)
    PROVE  Places(q \o b) = Places(q) \cup {<<sec, line>> : line \in Range(b)}
<1>1. PICK n \in Nat, m \in Nat : n = Len(q) /\ m = Len(b) /\ DOMAIN q = 1..n /\ DOMAIN b = 1..m
    OBVIOUS
<1>2. PICK r : r = q \o b
    OBVIOUS
<1>3. /\ DOMAIN r = 1..(n + m) /\ \A i \in 1..n : r[i] = q[i]
      /\ \A i \in 1..m : r[n + i] = b[i]
    BY <1>1, <1>2
<1>4. ASSUME NEW i \in 1..n PROVE SectionAt(r, i) = SectionAt(q, i)
    <2>1. \A j \in 1..i : r[j] = q[j]
        BY <1>3
    <2>2. Starts(r, i) = Starts(q, i)
        BY <2>1 DEF Starts
    <2>3. PICK T : T = Starts(q, i)
        OBVIOUS
    <2>4. /\ SectionAt(r, i) = IF T = {} THEN "" ELSE strlwc(r[Latest(T)].name)[1]
          /\ SectionAt(q, i) = IF T = {} THEN "" ELSE strlwc(q[Latest(T)].name)[1]
        BY <2>2, <2>3, SectionAtIs, Zenon
    <2>5. T # {} => Latest(T) \in 1..i
        <3>1. T \subseteq 1..i /\ i \in Nat
            BY <2>3 DEF Starts
        <3> QED
            BY <3>1, LatestIs
    <2>6. T # {} => r[Latest(T)] = q[Latest(T)]
        BY <2>1, <2>5
    <2>7. CASE T = {}
        BY <2>4, <2>7, Zenon
    <2>8. CASE T # {}
        BY <2>4, <2>6, <2>8, Zenon
    <2> QED
        BY <2>7, <2>8
<1>5. ASSUME NEW i \in 1..m PROVE SectionAt(r, n + i) = sec
    <2>1. b[1].kind = "section" /\ strlwc(b[1].name)[1] = sec /\ \A j \in 2..m : b[j].kind # "section"
        BY <1>1, Zenon DEF Block
    <2>2. PICK T : T = Starts(r, n + i)
        OBVIOUS
    <2>3. T = {j \in 1..(n + i) : r[j].kind = "section"}
        BY <2>2 DEF Starts
    <2>4. n + 1 \in T
        <3>1. n + 1 \in 1..(n + i) /\ 1 \in 1..m
            BY <1>5
        <3>2. r[n + 1] = b[1]
            BY <3>1, <1>3
        <3> QED
            BY <2>1, <2>3, <3>1, <3>2
    <2>5. ASSUME NEW j \in T PROVE j <= n + 1
        <3> SUFFICES ASSUME j > n + 1 PROVE FALSE
            BY <2>3
        <3>1. j \in 1..(n + i) /\ r[j].kind = "section"
            BY <2>3
        <3>2. j - n \in 2..m /\ j - n \in 1..m /\ n + (j - n) = j
            BY <3>1
        <3>3. r[j] = b[j - n]
            BY <3>2, <1>3
        <3> QED
            BY <2>1, <3>1, <3>2, <3>3
    <2>6. Latest(T) = n + 1
        <3>1. T \subseteq 1..(n + i) /\ n + i \in Nat /\ T # {}
            BY <2>3, <2>4
        <3>2. Latest(T) \in T /\ \A j \in T : j <= Latest(T)
            BY <3>1, LatestIs
        <3>3. Latest(T) \in Nat
            <4>1. \A j \in T : j \in Nat
                BY <3>1
            <4> QED
                BY <3>2, <4>1, Zenon
        <3> QED
            BY <3>2, <3>3, <2>4, <2>5
    <2>7. r[n + 1] = b[1]
        <3>1. 1 \in 1..m
            BY <1>5
        <3> QED
            BY <3>1, <1>3
    <2>8. SectionAt(r, n + i) = strlwc(r[Latest(T)].name)[1]
        BY <2>2, <2>4, SectionAtIs
    <2> QED
        BY <2>1, <2>6, <2>7, <2>8, Zenon
<1>6. ASSUME NEW x \in Places(r) PROVE x \in Places(q) \cup {<<sec, line>> : line \in Range(b)}
    <2>1. PICK i \in 1..(n + m) : x = <<SectionAt(r, i), r[i]>>
        BY <1>3, Zenon DEF Places
    <2>2. CASE i <= n
        <3>1. i \in 1..n
            BY <2>2
        <3>2. x = <<SectionAt(q, i), q[i]>>
            BY <2>1, <3>1, <1>3, <1>4, Zenon
        <3> QED
            BY <3>1, <3>2, <1>1 DEF Places
    <2>3. CASE i > n
        <3>1. PICK j \in 1..m : i = n + j
            <4>1. i - n \in 1..m /\ i = n + (i - n)
                BY <2>3
            <4> QED
                BY <4>1
        <3>2. x = <<sec, b[j]>>
            BY <2>1, <3>1, <1>3, <1>5, Zenon
        <3> QED
            BY <3>1, <3>2, <1>1 DEF Range
    <2> QED
        BY <2>2, <2>3
<1>7. ASSUME NEW x \in Places(q) PROVE x \in Places(r)
    <2>1. PICK i \in 1..n : x = <<SectionAt(q, i), q[i]>>
        BY <1>1, Zenon DEF Places
    <2>2. x = <<SectionAt(r, i), r[i]>>
        BY <2>1, <1>3, <1>4, Zenon
    <2>3. i \in DOMAIN r
        BY <1>3
    <2> QED
        BY <2>2, <2>3 DEF Places
<1>8. ASSUME NEW line \in Range(b) PROVE <<sec, line>> \in Places(r)
    <2>1. PICK i \in 1..m : line = b[i]
        BY <1>1 DEF Range
    <2>2. <<sec, line>> = <<SectionAt(r, n + i), r[n + i]>>
        BY <2>1, <1>3, <1>5, Zenon
    <2>3. n + i \in DOMAIN r
        BY <1>3
    <2> QED
        BY <2>2, <2>3 DEF Places
<1> QED
    BY <1>2, <1>6, <1>7, <1>8

Blocks(ss, secs) == \A k \in DOMAIN ss : Block(ss[k], secs[k])
LineOf(ss, secs, x) == \E k \in DOMAIN ss : \E line \in Range(ss[k]) : x = <<secs[k], line>>

\* The lines of several sections are in the sections they were written for.
LEMMA BlocksPlaced ==
    ASSUME NEW S, NEW ss \in Seq(Seq(S)), NEW secs, Blocks(ss, secs)
    PROVE  /\ FlattenSeq(ss) \in Seq(S)
           /\ \A x : x \in Places(FlattenSeq(ss)) <=> LineOf(ss, secs, x)
<1>1. PICK n \in Nat : n = Len(ss) /\ DOMAIN ss = 1..n
    OBVIOUS
<1> DEFINE P(k) == [i \in 1..k |-> ss[i]]
           Placed(k, x) == \E i \in 1..k : \E line \in Range(ss[i]) : x = <<secs[i], line>>
           T == {k \in Nat : k <= n => /\ FlattenSeq(P(k)) \in Seq(S)
                                       /\ \A x : x \in Places(FlattenSeq(P(k))) <=> Placed(k, x)}
<1>2. 0 \in T
    <2>1. P(0) = <<>>
        OBVIOUS
    <2>2. FlattenSeq(<<>>) = <<>>
        BY DEF FlattenSeq
    <2>3. Places(<<>>) = {}
        BY DEF Places
    <2>4. 1..0 = {}
        OBVIOUS
    <2>5. <<>> \in Seq(S)
        OBVIOUS
    <2> HIDE DEF P
    <2> QED
        BY <2>1, <2>2, <2>3, <2>4, <2>5
<1>3. ASSUME NEW k \in Nat, k \in T PROVE k + 1 \in T
    <2> SUFFICES ASSUME k + 1 <= n
                 PROVE  /\ FlattenSeq(P(k + 1)) \in Seq(S)
                        /\ \A x : x \in Places(FlattenSeq(P(k + 1))) <=> Placed(k + 1, x)
        OBVIOUS
    <2>1. FlattenSeq(P(k)) \in Seq(S) /\ \A x : x \in Places(FlattenSeq(P(k))) <=> Placed(k, x)
        <3> HIDE DEF P, Placed
        <3> QED
            BY <1>3
    <2>2. PICK b, sec : b = ss[k + 1] /\ sec = secs[k + 1]
        OBVIOUS
    <2>3. k + 1 \in DOMAIN ss /\ b \in Seq(S) /\ Block(b, sec)
        BY <1>1, <2>2 DEF Blocks
    <2>4. P(k) \in Seq(Seq(S)) /\ P(k + 1) = Append(P(k), b)
        <3>1. \A i \in 1..k : ss[i] \in Seq(S)
            BY <1>1
        <3>2. P(k) \in Seq(Seq(S)) /\ Len(P(k)) = k
            BY <3>1
        <3> QED
            BY <3>2, <2>2
    <2>5. FlattenSeq(P(k + 1)) = FlattenSeq(P(k)) \o b
        <3> HIDE DEF P
        <3> QED
            BY <2>3, <2>4, FlattenAppend
    <2>6. PICK q : q = FlattenSeq(P(k))
        OBVIOUS
    <2>7. q \in Seq(S) /\ q \o b \in Seq(S)
        BY <2>1, <2>3, <2>6
    <2>8. Places(q \o b) = Places(q) \cup {<<sec, line>> : line \in Range(b)}
        BY <2>3, <2>7, BlockAppended
    <2>9. ASSUME NEW x PROVE Placed(k + 1, x) <=> Placed(k, x) \/ \E line \in Range(b) : x = <<sec, line>>
        <3>1. \A i : i \in 1..(k + 1) <=> i \in 1..k \/ i = k + 1
            OBVIOUS
        <3> QED
            BY <3>1, <2>2, Zenon
    <2>10. \A x : x \in Places(q \o b) <=> x \in Places(q) \/ \E line \in Range(b) : x = <<sec, line>>
        BY <2>8
    <2> HIDE DEF P, Placed
    <2> QED
        BY <2>1, <2>5, <2>6, <2>7, <2>9, <2>10, Zenon
<1>4. Nat \subseteq T
    <2> HIDE DEF T
    <2> QED
        BY <1>2, <1>3, Induction
<1>5. FlattenSeq(P(n)) \in Seq(S) /\ \A x : x \in Places(FlattenSeq(P(n))) <=> Placed(n, x)
    <2> HIDE DEF P, Placed
    <2> QED
        BY <1>4
<1>6. P(n) = ss
    BY <1>1
<1>7. \A x : Placed(n, x) <=> LineOf(ss, secs, x)
    BY <1>1, Zenon DEF LineOf
<1> HIDE DEF P, Placed
<1> QED
    BY <1>5, <1>6, <1>7, Zenon

\* The entries of a dictionary.
LEMMA UsedIs ==
    ASSUME NEW d, Good(d), Lowered(Stored(d))
    PROVE  /\ d.slots \in Seq(Slot) /\ Used(d) \subseteq Range(d.slots)
           /\ \A key \in Stored(d) : \E slot \in Used(d) : slot.key = key
           /\ \A slot \in Used(d) :
                  /\ slot.key \in Stored(d) /\ slot.key \in Keys /\ strlwc(slot.key) = slot.key
                  /\ slot.val \in Texts /\ Contents(d)[slot.key] = slot.val
<1>1. d.slots \in Seq(Slot)
    BY GoodFacts
<1>2. Used(d) \subseteq Range(d.slots)
    BY DEF Used, Range, Occupied
<1>3. \A key \in Stored(d) : \E slot \in Used(d) : slot.key = key
    BY DEF Used, Stored
<1>4. ASSUME NEW slot \in Used(d)
      PROVE  /\ slot.key \in Stored(d) /\ slot.key \in Keys /\ strlwc(slot.key) = slot.key
             /\ slot.val \in Texts /\ Contents(d)[slot.key] = slot.val
    <2>1. PICK i \in Occupied(d) : slot = d.slots[i]
        BY Zenon DEF Used
    <2>2. slot.key \in Stored(d)
        BY <2>1, Zenon DEF Stored
    <2>3. slot.key \in Keys /\ slot.val \in Texts
        BY <2>1, HoldingIs, Zenon
    <2>4. Contents(d)[slot.key] = slot.val
        BY <2>1, ContentsIs, Zenon
    <2>5. strlwc(slot.key) = slot.key
        BY <2>2, Zenon DEF Lowered
    <2> QED
        BY <2>2, <2>3, <2>4, <2>5
<1> QED
    BY <1>1, <1>2, <1>3, <1>4

\* A key in lower case is the name of a section, or starts with one.
LEMMA KeyIs ==
    ASSUME NEW key \in Keys, strlwc(key) = key
    PROVE  /\ key[1] \in DOMAIN Lower /\ Lower[key[1]] = key[1]
           /\ Len(key) = 1 => key = <<key[1]>>
           /\ Tail(key) \in Seq(DOMAIN Lower) /\ strlwc(Tail(key)) = Tail(key)
           /\ <<key[1]>> \o Tail(key) = key
           /\ \A sec : Len(<<sec>>) = 1 /\ <<sec>>[1] = sec
<1>1. key \in Seq(DOMAIN Lower) \ {<<>>}
    BY TextAssumption DEF Keys
<1>2. PICK n \in Nat : n = Len(key) /\ DOMAIN key = 1..n /\ n # 0 /\ \A i \in 1..n : key[i] \in DOMAIN Lower
    BY <1>1
<1>3. \A i \in 1..n : Lower[key[i]] = key[i]
    <2>1. strlwc(key) = [i \in 1..n |-> Lower[key[i]]]
        BY <1>2 DEF strlwc
    <2>2. \A i \in 1..n : strlwc(key)[i] = Lower[key[i]]
        BY <2>1
    <2> QED
        BY <2>2
<1>4. key[1] \in DOMAIN Lower /\ Lower[key[1]] = key[1]
    BY <1>2, <1>3
<1>5. Len(key) = 1 => key = <<key[1]>>
    BY <1>1, <1>2
<1>6. PICK t : t = Tail(key)
    OBVIOUS
<1>7. t \in Seq(DOMAIN Lower) /\ DOMAIN t = 1..(n - 1) /\ \A i \in 1..(n - 1) : t[i] = key[i + 1]
    BY <1>1, <1>2, <1>6
<1>8. strlwc(t) = t
    <2>1. \A i \in 1..(n - 1) : Lower[t[i]] = t[i]
        <3>1. \A i \in 1..(n - 1) : i + 1 \in 1..n
            OBVIOUS
        <3> QED
            BY <3>1, <1>3, <1>7
    <2>2. strlwc(t) = [i \in 1..(n - 1) |-> t[i]]
        BY <1>7, <2>1 DEF strlwc
    <2>3. t = [i \in 1..(n - 1) |-> t[i]]
        BY <1>7
    <2> QED
        BY <2>2, <2>3, Zenon
<1>9. <<key[1]>> \o Tail(key) = key
    BY <1>1, <1>2
<1> QED
    BY <1>4, <1>5, <1>6, <1>7, <1>8, <1>9

LEMMA SectionNamesAre ==
    ASSUME NEW d, Good(d), Lowered(Stored(d))
    PROVE  /\ DOMAIN SectionNames(d) = 1..Len(SectionNames(d)) /\ Len(SectionNames(d)) \in Nat
           /\ Range(SectionNames(d)) = {sec \in DOMAIN Lower : <<sec>> \in Stored(d)}
<1> DEFINE T == {slot \in Used(d) : IsSection(slot)}
           found == Those(dictionary_dump(d), T)
<1>1. d.slots \in Seq(Slot) /\ Used(d) \subseteq Range(d.slots)
    BY UsedIs
<1>2. dictionary_dump(d) \in Seq(Slot) /\ Range(dictionary_dump(d)) = Used(d)
    <2>1. Those(d.slots, Used(d)) \in Seq(Slot) /\ Range(Those(d.slots, Used(d))) = Range(d.slots) \cap Used(d)
        BY <1>1, ThoseIs
    <2> QED
        BY <1>1, <2>1 DEF dictionary_dump
<1>3. found \in Seq(Slot) /\ Range(found) = T
    <2>1. Range(found) = Used(d) \cap T /\ found \in Seq(Slot)
        BY <1>2, ThoseIs
    <2> QED
        BY <2>1
<1>4. SectionNames(d) = [i \in DOMAIN found |-> found[i].key[1]]
    BY Zenon DEF SectionNames
<1> HIDE DEF found
<1>5. PICK n \in Nat : DOMAIN found = 1..n
    BY <1>3
<1>6. DOMAIN SectionNames(d) = 1..n /\ Len(SectionNames(d)) = n
    BY <1>4, <1>5
<1>7. Range(SectionNames(d)) = {slot.key[1] : slot \in T}
    BY <1>3, <1>4 DEF Range
<1>8. ASSUME NEW slot \in T PROVE slot.key[1] \in DOMAIN Lower /\ <<slot.key[1]>> \in Stored(d)
    <2>1. slot \in Used(d) /\ Len(slot.key) = 1
        BY DEF IsSection
    <2>2. slot.key \in Stored(d) /\ slot.key \in Keys /\ strlwc(slot.key) = slot.key
        BY <2>1, UsedIs
    <2> QED
        BY <2>1, <2>2, KeyIs
<1>9. ASSUME NEW sec \in DOMAIN Lower, <<sec>> \in Stored(d) PROVE \E slot \in T : slot.key[1] = sec
    <2>1. PICK slot \in Used(d) : slot.key = <<sec>>
        BY <1>9, UsedIs
    <2>2. Len(slot.key) = 1 /\ slot.key[1] = sec
        BY <2>1
    <2> QED
        BY <2>1, <2>2 DEF IsSection
<1> HIDE DEF T
<1> QED
    BY <1>6, <1>7, <1>8, <1>9

\* The lines of a dictionary's file.
SectionLine(sec) == [kind |-> "section", name |-> <<sec>>]
EntryLine(slot) == KeyLine(Tail(slot.key), Text(slot.val))
FileLines == {SectionLine(sec) : sec \in DOMAIN Lower}
             \cup {KeyLine(name, val) : name \in Seq(DOMAIN Lower), val \in DOMAIN Crop}

LEMMA TextIs ==
    ASSUME NEW val \in Texts
    PROVE  /\ Text(val) \in DOMAIN Crop /\ Uncomment[Text(val)] \in DOMAIN Crop
           /\ Crop[Uncomment[Text(val)]] \in DOMAIN Crop
           /\ Plain(val) <=> Uncomment[Text(val)] # ""
           /\ Plain(val) => Text(val) = val
<1>1. CASE val = NULL
    <2>1. Text(val) = ""
        BY <1>1 DEF Text
    <2> QED
        BY <1>1, <2>1, TextAssumption DEF Plain
<1>2. CASE val # NULL
    <2>1. Text(val) = val /\ val \in DOMAIN Crop
        BY <1>2 DEF Text, Texts
    <2> QED
        BY <1>2, <2>1, TextAssumption DEF Plain
<1> QED
    BY <1>1, <1>2

AddsAs(name, val, line) ==
    /\ ~AddsSection(line) /\ line.name = name /\ line.kind # "section"
    /\ AddsKey(line) <=> Plain(val)
    /\ Plain(val) => ReadValue(line) = Crop[Uncomment[val]] /\ ReadValue(line) \in DOMAIN Crop

\* What the lines of the file add when they are read.
LEMMA LinesAdd ==
    /\ \A sec : /\ AddsSection(SectionLine(sec)) /\ ~AddsKey(SectionLine(sec))
                /\ SectionLine(sec).name = <<sec>> /\ SectionLine(sec).kind = "section"
    /\ \A name : \A val \in Texts : AddsAs(name, val, KeyLine(name, Text(val)))
<1>1. \A sec : /\ AddsSection(SectionLine(sec)) /\ ~AddsKey(SectionLine(sec))
               /\ SectionLine(sec).name = <<sec>> /\ SectionLine(sec).kind = "section"
    BY DEF SectionLine, AddsSection, AddsKey
<1>2. ASSUME NEW name, NEW val \in Texts, NEW line, line = KeyLine(name, Text(val))
      PROVE  AddsAs(name, val, line)
    <2>1. PICK text : text = Text(val)
        OBVIOUS
    <2>2. /\ line.kind = "key" /\ line.name = name /\ line.value = text /\ line.quoted = FALSE
        BY <1>2, <2>1 DEF KeyLine
    <2>3. ReadValue(line) = IF Uncomment[text] = "" THEN NULL ELSE Crop[Uncomment[text]]
        BY <2>2 DEF ReadValue
    <2>4. /\ Crop[Uncomment[text]] \in DOMAIN Crop /\ (Plain(val) <=> Uncomment[text] # "")
          /\ (Plain(val) => text = val)
        BY <2>1, TextIs
    <2>5. NULL \notin DOMAIN Crop
        BY NullAssumption
    <2>6. ReadValue(line) # NULL <=> Plain(val)
        BY <2>3, <2>4, <2>5
    <2> QED
        BY <2>2, <2>3, <2>4, <2>6 DEF AddsSection, AddsKey, AddsAs
<1> QED
    BY <1>1, <1>2

\* The name of a section, or an entry inside.
InSection(d, sec, line) ==
    \/ line = SectionLine(sec)
    \/ \E slot \in Used(d) : ~IsSection(slot) /\ slot.key[1] = sec /\ line = EntryLine(slot)

SectionWritten(d, sec) ==
    /\ SectionLines(d, sec) \in Seq(FileLines) /\ Block(SectionLines(d, sec), sec)
    /\ \A line : line \in Range(SectionLines(d, sec)) <=> InSection(d, sec, line)

\* A section is written as its name and the entries inside.
LEMMA SectionLinesAre ==
    ASSUME NEW d, Good(d), Lowered(Stored(d)), NEW sec \in {x \in DOMAIN Lower : Lower[x] = x}
    PROVE  SectionWritten(d, sec)
<1>0. sec \in DOMAIN Lower /\ Lower[sec] = sec
    OBVIOUS
<1> DEFINE T == {slot \in Used(d) : ~IsSection(slot) /\ slot.key[1] = sec}
<1>1. d.slots \in Seq(Slot) /\ Used(d) \subseteq Range(d.slots)
    BY UsedIs
<1>2. dictionary_dump(d) \in Seq(Slot) /\ Range(dictionary_dump(d)) = Used(d)
    <2>1. Those(d.slots, Used(d)) \in Seq(Slot) /\ Range(Those(d.slots, Used(d))) = Range(d.slots) \cap Used(d)
        BY <1>1, ThoseIs
    <2> QED
        BY <1>1, <2>1 DEF dictionary_dump
<1>3. PICK inside : inside = Inside(d, sec)
    OBVIOUS
<1>4. inside \in Seq(Slot) /\ Range(inside) = T
    <2>1. inside = Those(dictionary_dump(d), T)
        BY <1>3, Zenon DEF Inside
    <2>2. Range(inside) = Used(d) \cap T /\ inside \in Seq(Slot)
        BY <1>2, <2>1, ThoseIs
    <2> QED
        BY <2>2
<1>5. PICK n \in Nat : n = Len(inside) /\ DOMAIN inside = 1..n
    BY <1>4
<1>6. PICK entries : entries = [i \in 1..n |-> EntryLine(inside[i])]
    OBVIOUS
<1>7. SectionLines(d, sec) = <<SectionLine(sec)>> \o entries
    BY <1>3, <1>5, <1>6, Zenon DEF SectionLines, SectionLine, EntryLine
<1>8. \A i \in 1..n : inside[i] \in T
    BY <1>4, <1>5 DEF Range
<1>9. ASSUME NEW i \in 1..n PROVE entries[i] \in FileLines /\ entries[i].kind # "section"
    <2>1. PICK slot \in T : slot = inside[i]
        BY <1>8
    <2>2. slot.key \in Keys /\ strlwc(slot.key) = slot.key /\ slot.val \in Texts
        BY UsedIs
    <2>3. Tail(slot.key) \in Seq(DOMAIN Lower) /\ Text(slot.val) \in DOMAIN Crop
        BY <2>2, KeyIs, TextIs
    <2>4. entries[i] = KeyLine(Tail(slot.key), Text(slot.val))
        BY <1>6, <2>1 DEF EntryLine
    <2>5. KeyLine(Tail(slot.key), Text(slot.val)) \in FileLines
        BY <2>3 DEF FileLines
    <2>6. KeyLine(Tail(slot.key), Text(slot.val)).kind # "section"
        BY DEF KeyLine
    <2> QED
        BY <2>4, <2>5, <2>6
<1>10. SectionLine(sec) \in FileLines
    BY <1>0 DEF FileLines
<1>11. entries \in Seq(FileLines) /\ Len(entries) = n
    BY <1>6, <1>9
<1>12. PICK lines, first : lines = <<first>> \o entries /\ first = SectionLine(sec)
    OBVIOUS
<1>13. /\ lines \in Seq(FileLines) /\ DOMAIN lines = 1..(n + 1) /\ Len(lines) = n + 1
       /\ lines[1] = first /\ \A i \in 1..n : lines[i + 1] = entries[i]
    BY <1>10, <1>11, <1>12
<1>14. \A i \in 2..(n + 1) : i - 1 \in 1..n /\ (i - 1) + 1 = i
    OBVIOUS
<1>15. \A i \in 2..(n + 1) : lines[i] = entries[i - 1]
    BY <1>13, <1>14
<1>16. Block(lines, sec)
    <2>1. lines[1].kind = "section" /\ lines[1].name = <<sec>>
        BY <1>12, <1>13, LinesAdd
    <2>2. strlwc(<<sec>>) = <<sec>>
        BY <1>0, LongKeyIs
    <2>3. <<sec>>[1] = sec
        OBVIOUS
    <2>4. \A i \in 2..(n + 1) : lines[i].kind # "section"
        BY <1>9, <1>14, <1>15
    <2>5. strlwc(lines[1].name)[1] = sec
        BY <2>1, <2>2, <2>3, Zenon
    <2> QED
        BY <1>13, <2>1, <2>4, <2>5 DEF Block
<1>17. \A i : i \in 1..(n + 1) <=> i = 1 \/ i \in 2..(n + 1)
    OBVIOUS
<1>18. ASSUME NEW line
       PROVE  line \in Range(lines) <=> line = first \/ \E slot \in T : line = EntryLine(slot)
    <2>1. line \in Range(lines) <=> line = first \/ \E i \in 2..(n + 1) : line = entries[i - 1]
        BY <1>13, <1>15, <1>17 DEF Range
    <2>2. (\E i \in 2..(n + 1) : line = entries[i - 1]) <=> \E i \in 1..n : line = entries[i]
        <3>1. ASSUME NEW i \in 1..n, line = entries[i] PROVE \E j \in 2..(n + 1) : line = entries[j - 1]
            <4>1. i + 1 \in 2..(n + 1) /\ (i + 1) - 1 = i
                OBVIOUS
            <4> QED
                BY <3>1, <4>1
        <3> QED
            BY <3>1, <1>14
    <2>3. (\E i \in 1..n : line = entries[i]) <=> \E slot \in T : line = EntryLine(slot)
        <3>1. \A i \in 1..n : entries[i] = EntryLine(inside[i])
            BY <1>6
        <3>2. \A slot : slot \in T <=> \E i \in 1..n : slot = inside[i]
            BY <1>4, <1>5 DEF Range
        <3> HIDE DEF T
        <3>3. ASSUME NEW i \in 1..n, line = entries[i] PROVE \E slot \in T : line = EntryLine(slot)
            <4>1. inside[i] \in T /\ line = EntryLine(inside[i])
                BY <3>1, <3>2, <3>3
            <4> QED
                BY <4>1
        <3>4. ASSUME NEW slot \in T, line = EntryLine(slot) PROVE \E i \in 1..n : line = entries[i]
            <4>1. PICK i \in 1..n : slot = inside[i]
                BY <3>2
            <4>2. line = entries[i]
                BY <3>1, <3>4, <4>1
            <4> QED
                BY <4>2
        <3> QED
            BY <3>3, <3>4
    <2> QED
        BY <2>1, <2>2, <2>3, Zenon
<1>19. SectionLines(d, sec) = lines
    BY <1>7, <1>12, Zenon
<1>20. \A line : (\E slot \in T : line = EntryLine(slot)) <=>
           \E slot \in Used(d) : ~IsSection(slot) /\ slot.key[1] = sec /\ line = EntryLine(slot)
    OBVIOUS
<1>21. \A line : line \in Range(lines) <=> InSection(d, sec, line)
    BY <1>12, <1>18, <1>20, Zenon DEF InSection
<1> QED
    BY <1>13, <1>16, <1>19, <1>21, Zenon DEF SectionWritten

\* The lines of the file, each with the section in which it is.
Dumped(d, x) ==
    \E sec \in DOMAIN Lower, line \in FileLines :
        <<sec>> \in Stored(d) /\ InSection(d, sec, line) /\ x = <<sec, line>>

LEMMA DumpedLines ==
    ASSUME NEW d, Good(d), Lowered(Stored(d)), SectionNames(d) # <<>>
    PROVE  /\ iniparser_dump_ini(d) \in Seq(FileLines)
           /\ \A x : x \in Places(iniparser_dump_ini(d)) <=> Dumped(d, x)
<1>1. PICK names : names = SectionNames(d)
    OBVIOUS
<1>2. PICK n \in Nat : DOMAIN names = 1..n
    BY <1>1, SectionNamesAre
<1>3. Range(names) = {sec \in DOMAIN Lower : <<sec>> \in Stored(d)}
    BY <1>1, SectionNamesAre
<1>4. PICK ss : ss = [k \in 1..n |-> SectionLines(d, names[k])]
    OBVIOUS
<1>5. iniparser_dump_ini(d) = FlattenSeq(ss)
    BY <1>1, <1>2, <1>4, Zenon DEF iniparser_dump_ini
<1>6. ASSUME NEW k \in 1..n
      PROVE  names[k] \in DOMAIN Lower /\ <<names[k]>> \in Stored(d) /\ Lower[names[k]] = names[k]
    <2>1. names[k] \in DOMAIN Lower /\ <<names[k]>> \in Stored(d)
        BY <1>2, <1>3 DEF Range
    <2>2. <<names[k]>> \in Keys /\ strlwc(<<names[k]>>) = <<names[k]>>
        BY <2>1, ContentsIs DEF Lowered
    <2>3. Lower[<<names[k]>>[1]] = <<names[k]>>[1]
        BY <2>2, KeyIs
    <2>4. <<names[k]>>[1] = names[k]
        OBVIOUS
    <2> QED
        BY <2>1, <2>3, <2>4, Zenon
<1>7. ASSUME NEW k \in 1..n
      PROVE  /\ ss[k] \in Seq(FileLines) /\ Block(ss[k], names[k])
             /\ \A line : line \in Range(ss[k]) <=> InSection(d, names[k], line)
    <2>1. ss[k] = SectionLines(d, names[k])
        BY <1>4
    <2>2. names[k] \in {x \in DOMAIN Lower : Lower[x] = x}
        BY <1>6
    <2>3. SectionWritten(d, names[k])
        BY <2>2, SectionLinesAre, Zenon
    <2> QED
        BY <2>1, <2>3, Zenon DEF SectionWritten
<1>8. ss \in Seq(Seq(FileLines)) /\ DOMAIN ss = 1..n
    BY <1>4, <1>7
<1>9. Blocks(ss, names)
    BY <1>7, <1>8 DEF Blocks
<1>10. /\ FlattenSeq(ss) \in Seq(FileLines)
       /\ \A x : x \in Places(FlattenSeq(ss)) <=> LineOf(ss, names, x)
    BY <1>8, <1>9, BlocksPlaced, Zenon
<1>11. ASSUME NEW x, LineOf(ss, names, x)
       PROVE  Dumped(d, x)
    <2>1. PICK k \in 1..n : \E line \in Range(ss[k]) : x = <<names[k], line>>
        BY <1>8, <1>11, Zenon DEF LineOf
    <2>2. PICK line \in Range(ss[k]) : x = <<names[k], line>>
        BY <2>1
    <2>3. InSection(d, names[k], line)
        BY <1>7
    <2>4. names[k] \in DOMAIN Lower /\ <<names[k]>> \in Stored(d)
        BY <1>6
    <2>5. line \in FileLines
        BY <1>7 DEF Range
    <2> QED
        BY <2>2, <2>3, <2>4, <2>5, Zenon DEF Dumped
<1>12. ASSUME NEW x, Dumped(d, x)
       PROVE  LineOf(ss, names, x)
    <2>1. PICK sec \in DOMAIN Lower, line \in FileLines :
              <<sec>> \in Stored(d) /\ InSection(d, sec, line) /\ x = <<sec, line>>
        BY <1>12, Zenon DEF Dumped
    <2>2. PICK k \in 1..n : sec = names[k]
        BY <1>2, <1>3, <2>1 DEF Range
    <2>3. line \in Range(ss[k])
        BY <1>7, <2>1, <2>2, Zenon
    <2> QED
        BY <1>8, <2>1, <2>2, <2>3, Zenon DEF LineOf
<1> QED
    BY <1>5, <1>10, <1>11, <1>12, Zenon

\* What is saved of a dictionary.
SavedKeys(d) ==
    {key \in Stored(d) : Len(key) = 1 \/ (<<key[1]>> \in Stored(d) /\ Plain(Contents(d)[key]))}
SavedValue(d, key) == IF Len(key) = 1 THEN NULL ELSE Crop[Uncomment[Contents(d)[key]]]

\* A line that a file may contain.
Sound(lines, i) ==
    /\ AddsSection(lines[i]) => /\ lines[i].name \in Seq(DOMAIN Lower) \ {<<>>}
                                /\ LongKey(SectionAt(lines, i), NULL) \in DOMAIN Hash
    /\ AddsKey(lines[i]) =>
        /\ lines[i].name \in Seq(DOMAIN Lower)
        /\ LongKey(SectionAt(lines, i), strlwc(lines[i].name)) \in DOMAIN Hash
        /\ ReadValue(lines[i]) \in DOMAIN Crop

IsAt(lines, i, sec, line) == SectionAt(lines, i) = sec /\ lines[i] = line

\* A line adds a key as it was saved.
Restores(d, lines, i, key) ==
    /\ Enters(lines[i]) /\ KeyOf(lines, i) = key /\ key \in SavedKeys(d)
    /\ ValOf(lines[i]) = SavedValue(d, key)

\* A section that is read back.
LEMMA SectionReadBack ==
    ASSUME NEW d, Good(d), Lowered(Stored(d)), NEW sec \in DOMAIN Lower, <<sec>> \in Stored(d),
           NEW lines, NEW i, IsAt(lines, i, sec, SectionLine(sec))
    PROVE  Sound(lines, i) /\ Restores(d, lines, i, <<sec>>)
<1>0. SectionAt(lines, i) = sec /\ lines[i] = SectionLine(sec)
    BY Zenon DEF IsAt
<1>1. <<sec>> \in Keys /\ strlwc(<<sec>>) = <<sec>>
    BY ContentsIs DEF Lowered
<1>2. Lower[sec] = sec
    <2>1. Lower[<<sec>>[1]] = <<sec>>[1] /\ <<sec>>[1] = sec
        BY <1>1, KeyIs
    <2> QED
        BY <2>1, Zenon
<1>3. AddsSection(lines[i]) /\ ~AddsKey(lines[i]) /\ lines[i].name = <<sec>>
    BY <1>0, LinesAdd, Zenon
<1>4. LongKey(SectionAt(lines, i), NULL) = <<sec>>
    BY <1>0, <1>2, LongKeyIs, Zenon
<1>5. KeyOf(lines, i) = <<sec>> /\ ValOf(lines[i]) = NULL
    BY <1>3, <1>4, Zenon DEF KeyOf, ValOf
<1>6. Len(<<sec>>) = 1 /\ <<sec>> \in Seq(DOMAIN Lower) \ {<<>>}
    OBVIOUS
<1>7. <<sec>> \in SavedKeys(d) /\ SavedValue(d, <<sec>>) = NULL
    BY <1>6, Zenon DEF SavedKeys, SavedValue
<1>8. Sound(lines, i)
    BY <1>1, <1>3, <1>4, <1>6, Zenon DEF Sound, Keys
<1> QED
    BY <1>3, <1>5, <1>7, <1>8, Zenon DEF Enters, Restores

\* An entry that is read back, if its value is plain.
LEMMA EntryReadBack ==
    ASSUME NEW d, Good(d), Lowered(Stored(d)), NEW slot \in Used(d), ~IsSection(slot),
           <<slot.key[1]>> \in Stored(d),
           NEW lines, NEW i, IsAt(lines, i, slot.key[1], EntryLine(slot))
    PROVE  /\ Sound(lines, i) /\ (Enters(lines[i]) => Plain(slot.val))
           /\ Plain(slot.val) => Restores(d, lines, i, slot.key)
<1>0. SectionAt(lines, i) = slot.key[1] /\ lines[i] = EntryLine(slot)
    BY Zenon DEF IsAt
<1>1. /\ slot.key \in Stored(d) /\ slot.key \in Keys /\ strlwc(slot.key) = slot.key
      /\ slot.val \in Texts /\ Contents(d)[slot.key] = slot.val
    BY UsedIs
<1>2. PICK key, val, sec, tail : key = slot.key /\ val = slot.val /\ sec = key[1] /\ tail = Tail(key)
    OBVIOUS
<1>3. /\ sec \in DOMAIN Lower /\ Lower[sec] = sec
      /\ tail \in Seq(DOMAIN Lower) /\ strlwc(tail) = tail /\ <<sec>> \o tail = key
    BY <1>1, <1>2, KeyIs, Zenon
<1>4. Len(key) # 1
    BY <1>2 DEF IsSection
<1>5. lines[i] = KeyLine(tail, Text(val))
    BY <1>0, <1>2, Zenon DEF EntryLine
<1>6. /\ ~AddsSection(lines[i]) /\ lines[i].name = tail
      /\ (AddsKey(lines[i]) <=> Plain(val))
      /\ (Plain(val) => ReadValue(lines[i]) = Crop[Uncomment[val]] /\ ReadValue(lines[i]) \in DOMAIN Crop)
    <2>1. AddsAs(tail, val, KeyLine(tail, Text(val)))
        BY <1>1, <1>2, LinesAdd, Zenon
    <2> QED
        BY <1>5, <2>1, Zenon DEF AddsAs
<1>7. LongKey(SectionAt(lines, i), strlwc(lines[i].name)) = key
    <2>1. LongKey(sec, tail) = <<sec>> \o tail
        BY <1>3, LongKeyIs, Zenon
    <2> QED
        BY <1>0, <1>2, <1>3, <1>6, <2>1, Zenon
<1>8. KeyOf(lines, i) = key /\ ValOf(lines[i]) = ReadValue(lines[i])
    BY <1>6, <1>7, Zenon DEF KeyOf, ValOf
<1>9. SavedValue(d, key) = Crop[Uncomment[val]]
    BY <1>1, <1>2, <1>4, Zenon DEF SavedValue
<1>10. Plain(val) => key \in SavedKeys(d)
    BY <1>1, <1>2, Zenon DEF SavedKeys
<1>11. Sound(lines, i)
    BY <1>1, <1>2, <1>3, <1>6, <1>7, Zenon DEF Sound, Keys
<1> QED
    BY <1>2, <1>6, <1>8, <1>9, <1>10, <1>11, Zenon DEF Enters, Restores

\* Reading the file back gives what was saved.
LEMMA ReadBack ==
    ASSUME NEW d, Good(d), Lowered(Stored(d)), SectionNames(d) # <<>>
    PROVE  Contents(iniparser_new(iniparser_dump_ini(d))) = [key \in SavedKeys(d) |-> SavedValue(d, key)]
<1>1. PICK lines : lines = iniparser_dump_ini(d)
    OBVIOUS
<1>2. lines \in Seq(FileLines) /\ \A x : x \in Places(lines) <=> Dumped(d, x)
    BY <1>1, DumpedLines, Zenon
<1>3. ASSUME NEW i \in DOMAIN lines
      PROVE  /\ Sound(lines, i)
             /\ Enters(lines[i]) => \E key : Restores(d, lines, i, key)
    <2>1. <<SectionAt(lines, i), lines[i]>> \in Places(lines)
        BY Zenon DEF Places
    <2>2. PICK sec \in DOMAIN Lower, line \in FileLines :
              /\ <<sec>> \in Stored(d) /\ InSection(d, sec, line)
              /\ <<SectionAt(lines, i), lines[i]>> = <<sec, line>>
        BY <1>2, <2>1, Zenon DEF Dumped
    <2>3. IsAt(lines, i, sec, line)
        BY <2>2 DEF IsAt
    <2>4. CASE line = SectionLine(sec)
        <3>1. IsAt(lines, i, sec, SectionLine(sec))
            BY <2>3, <2>4, Zenon
        <3>2. Sound(lines, i) /\ Restores(d, lines, i, <<sec>>)
            BY <2>2, <3>1, SectionReadBack, Zenon
        <3> QED
            BY <3>2, Zenon
    <2>5. CASE \E slot \in Used(d) : ~IsSection(slot) /\ slot.key[1] = sec /\ line = EntryLine(slot)
        <3>1. PICK slot \in Used(d) : ~IsSection(slot) /\ slot.key[1] = sec /\ line = EntryLine(slot)
            BY <2>5
        <3>2. IsAt(lines, i, slot.key[1], EntryLine(slot)) /\ <<slot.key[1]>> \in Stored(d)
            BY <2>2, <2>3, <3>1, Zenon
        <3>3. /\ Sound(lines, i) /\ (Enters(lines[i]) => Plain(slot.val))
              /\ Plain(slot.val) => Restores(d, lines, i, slot.key)
            BY <3>1, <3>2, EntryReadBack, Zenon
        <3> QED
            BY <3>3, Zenon
    <2> QED
        BY <2>2, <2>4, <2>5, Zenon DEF InSection
<1>4. IsFile(lines)
    <2>1. lines \in Seq(Range(lines))
        BY <1>2 DEF Range
    <2> QED
        BY <1>3, <2>1, Zenon DEF IsFile, Sound
<1>5. ASSUME NEW key \in SavedKeys(d)
      PROVE  \E i \in DOMAIN lines : Enters(lines[i]) /\ KeyOf(lines, i) = key
    <2>1. key \in Stored(d) /\ (Len(key) = 1 \/ (<<key[1]>> \in Stored(d) /\ Plain(Contents(d)[key])))
        BY DEF SavedKeys
    <2>2. PICK slot \in Used(d) : slot.key = key
        BY <2>1, UsedIs
    <2>3. /\ key \in Keys /\ strlwc(key) = key /\ Contents(d)[key] = slot.val
        BY <2>2, UsedIs, Zenon
    <2>4. key[1] \in DOMAIN Lower /\ (Len(key) = 1 => key = <<key[1]>>)
        BY <2>3, KeyIs
    <2>5. CASE Len(key) = 1
        <3>1. PICK sec : sec = key[1]
            OBVIOUS
        <3>2. key = <<sec>> /\ sec \in DOMAIN Lower /\ <<sec>> \in Stored(d)
            BY <2>1, <2>4, <2>5, <3>1, Zenon
        <3>3. <<sec, SectionLine(sec)>> \in Places(lines)
            <4>1. SectionLine(sec) \in FileLines /\ InSection(d, sec, SectionLine(sec))
                BY <3>2 DEF FileLines, InSection
            <4> QED
                BY <1>2, <3>2, <4>1, Zenon DEF Dumped
        <3>4. PICK i \in DOMAIN lines : <<sec, SectionLine(sec)>> = <<SectionAt(lines, i), lines[i]>>
            BY <3>3 DEF Places
        <3>5. IsAt(lines, i, sec, SectionLine(sec))
            BY <3>4 DEF IsAt
        <3>6. Restores(d, lines, i, <<sec>>)
            BY <3>2, <3>5, SectionReadBack, Zenon
        <3> QED
            BY <3>2, <3>6, Zenon DEF Restores
    <2>6. CASE Len(key) # 1
        <3>1. <<key[1]>> \in Stored(d) /\ Plain(slot.val) /\ ~IsSection(slot)
            BY <2>1, <2>2, <2>3, <2>6, Zenon DEF IsSection
        <3>2. <<key[1], EntryLine(slot)>> \in Places(lines)
            <4>1. Tail(key) \in Seq(DOMAIN Lower) /\ Text(slot.val) \in DOMAIN Crop
                BY <2>2, <2>3, KeyIs, UsedIs, TextIs
            <4>2. EntryLine(slot) = KeyLine(Tail(key), Text(slot.val))
                BY <2>2, Zenon DEF EntryLine
            <4>3. EntryLine(slot) \in FileLines
                <5>1. \A name \in Seq(DOMAIN Lower), val \in DOMAIN Crop : KeyLine(name, val) \in FileLines
                    BY DEF FileLines
                <5> QED
                    BY <4>1, <4>2, <5>1, Zenon
            <4>4. InSection(d, key[1], EntryLine(slot))
                BY <2>2, <3>1, Zenon DEF InSection
            <4> QED
                BY <1>2, <2>4, <3>1, <4>3, <4>4, Zenon DEF Dumped
        <3>3. PICK i \in DOMAIN lines : <<key[1], EntryLine(slot)>> = <<SectionAt(lines, i), lines[i]>>
            BY <3>2 DEF Places
        <3>4. IsAt(lines, i, slot.key[1], EntryLine(slot))
            BY <2>2, <3>3 DEF IsAt
        <3>5. <<slot.key[1]>> \in Stored(d)
            BY <2>2, <3>1, Zenon
        <3>6. Restores(d, lines, i, slot.key)
            BY <3>1, <3>4, <3>5, EntryReadBack, Zenon
        <3> QED
            BY <2>2, <3>6, Zenon DEF Restores
    <2> QED
        BY <2>5, <2>6
<1>6. KeysOf(lines, Len(lines)) = SavedKeys(d)
    <2>1. DOMAIN lines = 1..Len(lines)
        BY <1>2
    <2> QED
        BY <1>3, <1>5, <2>1 DEF KeysOf, Restores
<1>7. PICK map : map = [key \in SavedKeys(d) |-> SavedValue(d, key)]
    OBVIOUS
<1>8. Fits(lines, map)
    <2>1. DOMAIN map = SavedKeys(d) /\ \A key \in SavedKeys(d) : map[key] = SavedValue(d, key)
        BY <1>7
    <2> QED
        BY <1>3, <2>1, Zenon DEF Fits, Restores
<1>9. Contents(iniparser_new(lines)) = Only(map, SavedKeys(d))
    BY <1>4, <1>6, <1>8, FileGives, Zenon
<1>10. Only(map, SavedKeys(d)) = map
    BY <1>7 DEF Only
<1> QED
    BY <1>1, <1>7, <1>9, <1>10, Zenon

\* The output options that are written to a file are read back from it: every section
\* and, of the sections, every value up to a comment, whatever the order in which keys
\* were given, removed and given again (iniparser.c:645-683, 928-979).
THEOREM Saved == Spec => []SavedAndLoaded
<1>1. IInv /\ Lowered(DOMAIN Current) => SavedAndLoaded
    <2> SUFFICES ASSUME IInv, Lowered(DOMAIN Current), Loaded PROVE SavedAndLoaded
        BY Zenon DEF SavedAndLoaded
    <2>1. PICK d : d = wr_options.output_options
        OBVIOUS
    <2>2. Good(d)
        BY <2>1 DEF IInv, Asked
    <2>3. Lowered(Stored(d)) /\ DOMAIN Contents(d) = Stored(d)
        <3>1. Current = Contents(d)
            BY <2>1, Zenon DEF Current
        <3>2. DOMAIN Contents(d) = Stored(d)
            BY DEF Contents
        <3> QED
            BY <3>1, <3>2, Zenon
    <2>4. SectionNames(d) # <<>> =>
              Contents(iniparser_new(iniparser_dump_ini(d))) = [key \in SavedKeys(d) |-> SavedValue(d, key)]
        BY <2>2, <2>3, ReadBack
    <2>5. SavedAndLoaded <=>
              (SectionNames(d) # <<>> =>
                   Contents(iniparser_new(iniparser_dump_ini(d)))
                       = [key \in {k \in DOMAIN Contents(d) :
                                       Len(k) = 1 \/ (<<k[1]>> \in DOMAIN Contents(d) /\ Plain(Contents(d)[k]))}
                            |-> IF Len(key) = 1 THEN NULL ELSE Crop[Uncomment[Contents(d)[key]]]])
        BY <2>1, Zenon DEF SavedAndLoaded
    <2>6. [key \in {k \in DOMAIN Contents(d) :
                        Len(k) = 1 \/ (<<k[1]>> \in DOMAIN Contents(d) /\ Plain(Contents(d)[k]))}
             |-> IF Len(key) = 1 THEN NULL ELSE Crop[Uncomment[Contents(d)[key]]]]
              = [key \in SavedKeys(d) |-> SavedValue(d, key)]
        BY <2>3, Zenon DEF SavedKeys, SavedValue
    <2> QED
        BY <2>4, <2>5, <2>6, Zenon
<1> QED
    BY <1>1, AlwaysAsAsked, KeysInLowerCase, PTL
================================================================================
