---------------------------- MODULE SortFilterProofs ----------------------------
(***************************************************************************)
(* The sort filter implements ReorderBuffer, whatever the packets, their    *)
(* timestamps and the [sort] section, as long as buffer_size stays below    *)
(* the length from which list_sort no longer sorts (BufferSizeAssumption).  *)
(* What the abstract buffer promises, that packets are neither lost nor sent *)
(* twice, that the list stays bounded and that only late packets are          *)
(* misplaced, is proved of the code's filter as well.                         *)
(***************************************************************************)
EXTENDS SortFilter, FiniteSetTheorems, TLAPS

\* The state that START sets up stays what the configuration says, and the
\* list holds distinct packets that were received, few enough to be sorted.
SInv ==
    /\ TypeOK
    /\ transmission # "none" =>
           enabled = output_options.enabled /\ buffer_size = output_options.buffer_size
    /\ transmission # "started" => buffer = <<>>
    /\ ~output_options.enabled => buffer = <<>>
    /\ IsInjective(buffer)
    /\ Range(buffer) \subseteq Range(input)
    /\ Len(buffer) <= Capacity(output_options)

--------------------------------------------------------------------------------

\* A list of distinct elements has as many elements as it is long.
LEMMA DistinctLength ==
    ASSUME NEW S, NEW s \in Seq(S), IsInjective(s)
    PROVE  IsFiniteSet(Range(s)) /\ Cardinality(Range(s)) = Len(s)
<1>1. s \in Bijection(1..Len(s), Range(s))
    <2>1. s \in [1..Len(s) -> Range(s)] /\ DOMAIN s = 1..Len(s)
        BY DEF Range
    <2>2. \A t \in Range(s) : \E i \in 1..Len(s) : s[i] = t
        BY <2>1 DEF Range
    <2> QED
        BY <2>1, <2>2 DEF Bijection, Injection, Surjection, IsInjective
<1>2. ExistsBijection(1..Len(s), Range(s))
    BY <1>1 DEF ExistsBijection
<1>3. Len(s) \in Nat
    OBVIOUS
<1> QED
    BY <1>2, <1>3, FS_CountingElements, FS_NatBijection

\* What list_sort leaves behind: the same distinct elements, in order when the
\* list is short enough.
LEMMA SortResult ==
    ASSUME NEW l \in Seq(Packet), IsInjective(l), NEW s \in list_sort(l)
    PROVE  /\ s \in Seq(Packet) /\ Len(s) = Len(l) /\ DOMAIN s = 1..Len(l)
           /\ Range(s) = Range(l)
           /\ IsInjective(s)
           /\ Len(l) <= SIMCLIST_MINQUICKSORTELS =>
                  \A i, j \in 1..Len(l) : i < j => Time[s[i]] <= Time[s[j]]
<1> DEFINE n == Len(l)
<1>1. n \in Nat
    OBVIOUS
<1>2. PICK f \in Reorderings(n) : s = [i \in 1..n |-> l[f[i]]]
    BY DEF list_sort
<1>3. /\ f \in [1..n -> 1..n]
      /\ \A i, j \in 1..n : f[i] = f[j] => i = j
      /\ \A k \in 1..n : \E i \in 1..n : f[i] = k
    BY DEF Reorderings
<1>4. s \in [1..n -> Packet]
    BY <1>2, <1>3
<1>5. s \in Seq(Packet) /\ Len(s) = n /\ DOMAIN s = 1..n
    BY <1>1, <1>4
<1>6. Range(s) = Range(l)
    <2>1. ASSUME NEW i \in 1..n PROVE s[i] \in Range(l)
        BY <1>2, <1>3 DEF Range
    <2>2. ASSUME NEW k \in 1..n PROVE l[k] \in Range(s)
        <3>1. PICK i \in 1..n : f[i] = k
            BY <1>3
        <3> QED
            BY <3>1, <1>2, <1>5 DEF Range
    <2> QED
        BY <2>1, <2>2, <1>5 DEF Range
<1>7. IsInjective(s)
    <2> SUFFICES ASSUME NEW i \in 1..n, NEW j \in 1..n, s[i] = s[j] PROVE i = j
        BY <1>5 DEF IsInjective
    <2>0. f[i] \in 1..n /\ f[j] \in 1..n
        BY <1>3
    <2>1. l[f[i]] = l[f[j]] /\ f[i] \in DOMAIN l /\ f[j] \in DOMAIN l
        BY <1>2, <2>0
    <2>2. f[i] = f[j]
        BY <2>1 DEF IsInjective
    <2> QED
        BY <2>2, <1>3
<1>8. ASSUME n <= SIMCLIST_MINQUICKSORTELS, NEW i \in 1..n, NEW j \in 1..n, i < j
      PROVE  Time[s[i]] <= Time[s[j]]
    <2>1. wr_rtp_timestamp_comparator(s[i], s[j]) = 0
        BY <1>8 DEF list_sort
    <2>2. Time[s[i]] \in Nat /\ Time[s[j]] \in Nat
        BY <1>4, TimeAssumption
    <2> QED
        BY <2>1, <2>2 DEF wr_rtp_timestamp_comparator
<1> QED
    BY <1>5, <1>6, <1>7, <1>8

\* One more arrival makes at most that arrival late.
LEMMA LatePacketsAppend ==
    ASSUME NEW s \in Seq(Packet), NEW p \in Packet, NEW c \in Nat
    PROVE  LatePackets(Append(s, p), c) =
             IF Cardinality({q \in Range(s) : Time[q] > Time[p]}) > c
             THEN LatePackets(s, c) \cup {p} ELSE LatePackets(s, c)
<1> DEFINE n == Len(s)
           t == Append(s, p)
           Before(u, k) == {q \in {u[j] : j \in 1..(k - 1)} : Time[q] > Time[u[k]]}
           Late(u) == {k \in DOMAIN u : Cardinality(Before(u, k)) > c}
<1>1. /\ n \in Nat /\ DOMAIN s = 1..n /\ DOMAIN t = 1..(n + 1)
      /\ \A i \in 1..n : t[i] = s[i]
      /\ t[n + 1] = p
    OBVIOUS
<1>2. ASSUME NEW k \in 1..n PROVE Before(t, k) = Before(s, k)
    <2>1. \A j \in 1..(k - 1) : j \in 1..n
        BY <1>1
    <2>2. {t[j] : j \in 1..(k - 1)} = {s[j] : j \in 1..(k - 1)}
        BY <1>1, <2>1
    <2> QED
        BY <1>1, <2>2
<1>3. Before(t, n + 1) = {q \in Range(s) : Time[q] > Time[p]}
    <2>1. (n + 1) - 1 = n
        BY <1>1
    <2>2. {t[j] : j \in 1..((n + 1) - 1)} = Range(s)
        BY <1>1, <2>1 DEF Range
    <2> QED
        BY <1>1, <2>2
<1>4. ASSUME NEW k \in 1..n PROVE k \in Late(t) <=> k \in Late(s)
    <2>1. Cardinality(Before(t, k)) = Cardinality(Before(s, k))
        BY <1>2
    <2> HIDE DEF Before
    <2> QED
        BY <1>1, <2>1
<1>5. n + 1 \in Late(t) <=> Cardinality({q \in Range(s) : Time[q] > Time[p]}) > c
    <2>1. Cardinality(Before(t, n + 1)) = Cardinality({q \in Range(s) : Time[q] > Time[p]})
        BY <1>3
    <2>2. n + 1 \in DOMAIN t
        BY <1>1
    <2> HIDE DEF Before
    <2> QED
        BY <2>1, <2>2
<1>6. /\ Late(s) \subseteq 1..n /\ Late(t) \subseteq 1..(n + 1)
      /\ \A k \in 1..(n + 1) : k \in 1..n \/ k = n + 1
    BY <1>1
<1>7. CASE Cardinality({q \in Range(s) : Time[q] > Time[p]}) > c
    <2>1. Late(t) = Late(s) \cup {n + 1}
        BY <1>4, <1>5, <1>6, <1>7
    <2>2. {t[k] : k \in Late(t)} = {s[k] : k \in Late(s)} \cup {p}
        <3> HIDE DEF Late
        <3> QED
            BY <1>1, <1>6, <2>1
    <2> QED
        BY <1>7, <2>2 DEF LatePackets
<1>8. CASE ~(Cardinality({q \in Range(s) : Time[q] > Time[p]}) > c)
    <2>1. Late(t) = Late(s)
        BY <1>1, <1>4, <1>5, <1>6, <1>8
    <2>2. {t[k] : k \in Late(t)} = {s[k] : k \in Late(s)}
        <3> HIDE DEF Late
        <3> QED
            BY <1>1, <1>6, <2>1
    <2> QED
        BY <1>8, <2>2 DEF LatePackets
<1> QED
    BY <1>7, <1>8
--------------------------------------------------------------------------------

\* The instance has its own copy of the library's Cardinality.
LEMMA SameCardinality == \A S : Buffer!Cardinality(S) = Cardinality(S)
BY DEF Buffer!Cardinality, Cardinality

LEMMA SInit == Init => SInv
<1> SUFFICES ASSUME Init PROVE SInv
    OBVIOUS
<1>1. buffer \in Seq(Packet) /\ input \in Seq(Packet) /\ output \in Seq(Packet)
    BY DEF Init
<1>2. Capacity(output_options) \in Nat
    BY OptionsAssumption DEF Init, Capacity
<1>3. TypeOK
    BY <1>1 DEF Init, TypeOK
<1>4. buffer = <<>> /\ Len(buffer) = 0 /\ DOMAIN buffer = {}
    BY DEF Init
<1>5. IsInjective(buffer) /\ Range(buffer) = {}
    BY <1>4 DEF IsInjective, Range
<1> QED
    BY <1>2, <1>3, <1>4, <1>5 DEF Init, SInv

\* The capacity of the buffer is a number the filter can sort one more than.
LEMMA CapacityBound ==
    ASSUME TypeOK
    PROVE  /\ Capacity(output_options) \in Nat
           /\ output_options.enabled =>
                  /\ Capacity(output_options) = output_options.buffer_size
                  /\ output_options.buffer_size + 1 <= SIMCLIST_MINQUICKSORTELS
           /\ ~output_options.enabled => Capacity(output_options) = 0
           /\ output_options.enabled \in BOOLEAN
           /\ output_options.buffer_size \in Nat
BY OptionsAssumption, BufferSizeAssumption DEF TypeOK, Capacity

\* Appending to the received packets adds one to them.
LEMMA RangeAppend ==
    ASSUME NEW S, NEW s \in Seq(S), NEW e \in S
    PROVE  /\ Append(s, e) \in Seq(S)
           /\ Range(Append(s, e)) = Range(s) \cup {e}
           /\ Len(Append(s, e)) = Len(s) + 1
           /\ IsInjective(s) /\ e \notin Range(s) => IsInjective(Append(s, e))
<1>1. /\ Len(s) \in Nat /\ DOMAIN s = 1..Len(s)
      /\ DOMAIN Append(s, e) = 1..(Len(s) + 1)
      /\ \A i \in 1..Len(s) : Append(s, e)[i] = s[i]
      /\ Append(s, e)[Len(s) + 1] = e
      /\ \A k \in 1..(Len(s) + 1) : k \in 1..Len(s) \/ k = Len(s) + 1
    OBVIOUS
<1>2. Range(Append(s, e)) = Range(s) \cup {e}
    BY <1>1 DEF Range
<1>3. IsInjective(s) /\ e \notin Range(s) => IsInjective(Append(s, e))
    BY <1>1 DEF Range, IsInjective
<1> QED
    BY <1>2, <1>3

\* Without its head, a sorted list of distinct packets keeps the others.
LEMMA TailOfSorted ==
    ASSUME NEW s \in Seq(Packet), IsInjective(s), Len(s) > 0
    PROVE  /\ Head(s) \in Range(s) /\ Tail(s) \in Seq(Packet)
           /\ Len(Tail(s)) = Len(s) - 1
           /\ Range(Tail(s)) = Range(s) \ {Head(s)}
           /\ IsInjective(Tail(s))
<1> DEFINE t == Tail(s)
           n == Len(s)
<1>1. /\ n \in Nat /\ DOMAIN s = 1..n /\ Head(s) = s[1] /\ 1 \in 1..n
      /\ t \in Seq(Packet) /\ Len(t) = n - 1 /\ DOMAIN t = 1..(n - 1)
      /\ \A i \in 1..(n - 1) : i + 1 \in 1..n /\ t[i] = s[i + 1]
      /\ \A k \in 1..n : k = 1 \/ (k - 1 \in 1..(n - 1) /\ (k - 1) + 1 = k)
    OBVIOUS
<1>2. ASSUME NEW e \in Range(t) PROVE e \in Range(s) /\ e # Head(s)
    <2>1. PICK i \in 1..(n - 1) : e = t[i]
        BY <1>1 DEF Range
    <2>2. e = s[i + 1] /\ i + 1 \in 1..n /\ i + 1 # 1
        BY <1>1, <2>1
    <2> QED
        BY <1>1, <2>2 DEF Range, IsInjective
<1>3. ASSUME NEW e \in Range(s), e # Head(s) PROVE e \in Range(t)
    <2>1. PICK k \in 1..n : e = s[k]
        BY <1>1 DEF Range
    <2>2. k - 1 \in 1..(n - 1) /\ (k - 1) + 1 = k
        BY <1>1, <1>3, <2>1
    <2>3. e = t[k - 1]
        BY <1>1, <2>1, <2>2
    <2> QED
        BY <1>1, <2>2, <2>3 DEF Range
<1>4. ASSUME NEW i \in 1..(n - 1), NEW j \in 1..(n - 1), t[i] = t[j]
      PROVE  i = j
    <2>1. s[i + 1] = s[j + 1] /\ i + 1 \in 1..n /\ j + 1 \in 1..n
        BY <1>1, <1>4
    <2>2. i + 1 = j + 1
        BY <1>1, <2>1 DEF IsInjective
    <2> QED
        BY <2>2
<1> QED
    BY <1>1, <1>2, <1>3, <1>4 DEF Range, IsInjective

LEMMA StartStep ==
    ASSUME SInv, TransmissionStart
    PROVE  SInv' /\ UNCHANGED Buffer!vars
<1>1. buffer = <<>> /\ buffer' = <<>>
    BY DEF SInv, TransmissionStart
<1>2. SInv'
    BY <1>1, CapacityBound DEF SInv, TypeOK, TransmissionStart
<1>3. UNCHANGED Buffer!vars
    BY <1>1 DEF Buffer!vars, TransmissionStart
<1> QED
    BY <1>2, <1>3

\* The filter that does not sort is a buffer that holds nothing back.
LEMMA PassThroughStep ==
    ASSUME SInv, NEW p \in Packet, NewPacket(p), PassThrough(p)
    PROVE  SInv' /\ Buffer!HoldAndEmit(p, p)
<1>1. /\ ~output_options.enabled /\ Capacity(output_options) = 0
      /\ buffer = <<>> /\ buffer' = <<>>
    BY CapacityBound DEF SInv, NewPacket, PassThrough
<1>2. /\ input' = Append(input, p) /\ output' = Append(output, p)
      /\ Range(input') = Range(input) \cup {p}
      /\ input' \in Seq(Packet) /\ output' \in Seq(Packet)
    BY RangeAppend DEF SInv, TypeOK, NewPacket, PassThrough
<1>3. SInv'
    BY <1>1, <1>2 DEF SInv, TypeOK, NewPacket, PassThrough, Range
<1>4. Range(buffer) = {} /\ Range(buffer') = {}
    BY <1>1 DEF Range
<1>5. Cardinality({p}) = 1
    BY FS_Singleton
<1>6. Buffer!Earliest(p, {p})
    BY TimeAssumption DEF Buffer!Earliest
<1>12. Buffer!ComesLate(p) <=>
          Cardinality({q \in Range(input) : Time[q] > Time[p]}) > Capacity(output_options)
    BY SameCardinality DEF Buffer!ComesLate
<1>7. LatePackets(input', Capacity(output_options')) =
        IF Buffer!ComesLate(p) THEN LatePackets(input, Capacity(output_options)) \cup {p}
                               ELSE LatePackets(input, Capacity(output_options))
    BY <1>1, <1>2, <1>12, LatePacketsAppend DEF SInv, TypeOK, NewPacket
<1>8. Cardinality(Range(buffer) \cup {p}) > Capacity(output_options)
    BY <1>1, <1>4, <1>5
<1>9. Buffer!Earliest(p, Range(buffer) \cup {p})
    BY <1>4, <1>6
<1>10. Range(buffer') = (Range(buffer) \cup {p}) \ {p}
    BY <1>4
<1>11. Buffer!HoldAndEmit(p, p)
    BY <1>2, <1>7, <1>8, <1>9, <1>10, SameCardinality
       DEF Buffer!HoldAndEmit, NewPacket, PassThrough
<1> QED
    BY <1>3, <1>11

\* A packet that is stored is held back; when the list grows beyond buffer_size
\* the first of the sorted list, an earliest packet, leaves.
LEMMA StoreStep ==
    ASSUME SInv, NEW p \in Packet, NewPacket(p), Store(p)
    PROVE  /\ SInv'
           /\ \/ Buffer!Hold(p)
              \/ \E m \in Range(buffer) \cup {p} : Buffer!HoldAndEmit(p, m)
<1> DEFINE stored == Append(buffer, p)
           c == Capacity(output_options)
<1>1. /\ output_options.enabled /\ c = buffer_size /\ c \in Nat
      /\ c + 1 <= SIMCLIST_MINQUICKSORTELS
      /\ c' = c
    BY CapacityBound DEF SInv, NewPacket, Store
<1>2. /\ input' = Append(input, p) /\ input' \in Seq(Packet)
      /\ Range(input') = Range(input) \cup {p}
      /\ p \notin Range(input) /\ p \notin Range(buffer)
    BY RangeAppend DEF SInv, TypeOK, NewPacket
<1>3. /\ buffer \in Seq(Packet) /\ stored \in Seq(Packet)
      /\ Len(stored) = Len(buffer) + 1
      /\ Range(stored) = Range(buffer) \cup {p} /\ IsInjective(stored)
    BY <1>2, RangeAppend DEF SInv, TypeOK
<1>4. Cardinality(Range(buffer) \cup {p}) = Len(stored)
    BY <1>3, DistinctLength
<1>10. Buffer!ComesLate(p) <=>
          Cardinality({q \in Range(input) : Time[q] > Time[p]}) > Capacity(output_options)
    BY SameCardinality DEF Buffer!ComesLate
<1>5. LatePackets(input', c') =
        IF Buffer!ComesLate(p) THEN LatePackets(input, c) \cup {p}
                               ELSE LatePackets(input, c)
    BY <1>1, <1>2, <1>10, LatePacketsAppend DEF SInv, TypeOK
<1>6. /\ transmission = "started" /\ transmission' = "started"
      /\ UNCHANGED <<output_options, enabled, buffer_size>>
      /\ copies' = copies \cup {p}
    BY DEF NewPacket, Store
<1>7. Len(buffer) <= c /\ Len(buffer) \in Nat /\ Range(buffer) \subseteq Range(input)
    BY <1>3 DEF SInv
<1>8. CASE Len(stored) > buffer_size
    <2>1. PICK sorted \in list_sort(stored) :
              buffer' = Tail(sorted) /\ output' = Append(output, Head(sorted))
        BY <1>8 DEF Store
    <2>2. /\ sorted \in Seq(Packet) /\ Len(sorted) = Len(stored)
          /\ Range(sorted) = Range(stored) /\ IsInjective(sorted)
          /\ Len(stored) <= SIMCLIST_MINQUICKSORTELS =>
                 \A i, j \in 1..Len(stored) : i < j => Time[sorted[i]] <= Time[sorted[j]]
        BY <1>3, SortResult
    <2>3. Len(stored) = c + 1
        BY <1>1, <1>3, <1>7, <1>8
    <2>4. /\ Head(sorted) \in Range(stored) /\ Tail(sorted) \in Seq(Packet)
          /\ Len(Tail(sorted)) = c /\ IsInjective(Tail(sorted))
          /\ Range(Tail(sorted)) = Range(stored) \ {Head(sorted)}
        BY <1>1, <2>2, <2>3, TailOfSorted
    <2>5. output' \in Seq(Packet)
        BY <2>1, <2>4, <1>3, RangeAppend DEF SInv, TypeOK, Range
    <2>6. SInv'
        <3>1. TypeOK'
            BY <1>2, <1>6, <2>1, <2>4, <2>5 DEF SInv, TypeOK
        <3>2. Range(buffer') \subseteq Range(input')
            BY <1>2, <1>3, <1>7, <2>1, <2>4
        <3>3. IsInjective(buffer') /\ Len(buffer') <= c
            BY <1>1, <2>1, <2>4
        <3>4. output_options'.enabled
            BY <1>1, <1>6
        <3> HIDE DEF c
        <3> QED
            BY <3>1, <3>2, <3>3, <3>4, <1>1, <1>6 DEF SInv, c
    <2>7. Buffer!Earliest(Head(sorted), Range(stored))
        <3> SUFFICES ASSUME NEW q \in Range(stored) PROVE Time[Head(sorted)] <= Time[q]
            BY <2>4 DEF Buffer!Earliest
        <3>1. PICK k \in 1..Len(stored) : q = sorted[k]
            <4>1. DOMAIN sorted = 1..Len(stored)
                BY <2>2
            <4>2. q \in Range(sorted)
                BY <2>2
            <4> QED
                BY <4>1, <4>2 DEF Range
        <3>2. Head(sorted) = sorted[1] /\ sorted[1] \in Packet /\ 1 \in 1..Len(stored)
            BY <2>2, <2>3, <1>1
        <3>3. Time[sorted[1]] \in Nat
            BY <3>2, TimeAssumption
        <3>4. CASE k = 1
            BY <3>1, <3>2, <3>3, <3>4
        <3>5. CASE k > 1
            BY <3>1, <3>2, <3>5, <2>2, <2>3, <1>1
        <3> QED
            BY <3>1, <3>4, <3>5, <1>1, <2>3
    <2>8. Cardinality(Range(buffer) \cup {p}) > c
        BY <1>1, <1>4, <1>8
    <2>9. Range(buffer') = (Range(buffer) \cup {p}) \ {Head(sorted)}
        BY <1>3, <2>1, <2>4
    <2>10. Buffer!HoldAndEmit(p, Head(sorted))
        BY <1>2, <1>3, <1>5, <1>6, <2>1, <2>7, <2>8, <2>9, SameCardinality DEF Buffer!HoldAndEmit
    <2> QED
        BY <1>3, <2>4, <2>6, <2>10
<1>9. CASE ~(Len(stored) > buffer_size)
    <2>1. buffer' = stored /\ output' = output
        BY <1>9 DEF Store
    <2>2. Len(stored) <= c
        BY <1>1, <1>3, <1>7, <1>9
    <2>3. SInv'
        <3>1. TypeOK'
            BY <1>2, <1>3, <1>6, <2>1 DEF SInv, TypeOK
        <3>2. Range(buffer') \subseteq Range(input')
            BY <1>2, <1>3, <1>7, <2>1
        <3> QED
            BY <3>1, <3>2, <1>1, <1>3, <1>6, <2>1, <2>2 DEF SInv
    <2>4. Buffer!Hold(p)
        BY <1>2, <1>3, <1>4, <1>5, <1>6, <2>1, <2>2, SameCardinality DEF Buffer!Hold
    <2> QED
        BY <2>3, <2>4
<1> QED
    BY <1>8, <1>9

LEMMA EndStep ==
    ASSUME SInv, TransmissionEnd
    PROVE  SInv' /\ Buffer!End
<1> DEFINE n == Len(buffer)
<1>1. PICK sorted \in list_sort(buffer) : output' = output \o sorted
    BY DEF TransmissionEnd
<1>2. buffer \in Seq(Packet) /\ IsInjective(buffer) /\ n \in Nat
    BY DEF SInv, TypeOK
<1>3. /\ sorted \in Seq(Packet) /\ Len(sorted) = n /\ DOMAIN sorted = 1..n
      /\ Range(sorted) = Range(buffer) /\ IsInjective(sorted)
      /\ n <= SIMCLIST_MINQUICKSORTELS =>
             \A i, j \in 1..n : i < j => Time[sorted[i]] <= Time[sorted[j]]
    BY <1>2, SortResult
<1>4. n <= SIMCLIST_MINQUICKSORTELS
    BY <1>2, CapacityBound, BufferSizeAssumption DEF SInv
<1>5. buffer' = <<>> /\ Range(buffer') = {}
    BY DEF TransmissionEnd, Range
<1>6. SInv'
    <2>1. output' \in Seq(Packet)
        BY <1>1, <1>3 DEF SInv, TypeOK
    <2>2. TypeOK'
        BY <1>5, <2>1 DEF SInv, TypeOK, TransmissionEnd
    <2>3. Len(buffer') <= Capacity(output_options)
        BY <1>5, CapacityBound DEF SInv
    <2> QED
        BY <1>5, <2>2, <2>3 DEF SInv, TransmissionEnd, IsInjective
<1>7. Cardinality(Range(buffer)) = n
    BY <1>2, DistinctLength
<1>8. sorted \in Buffer!Drainings(Range(buffer))
    <2>1. sorted \in [1..n -> Range(buffer)]
        <3>1. \A i \in 1..n : sorted[i] \in Range(sorted)
            BY <1>3 DEF Range
        <3>2. sorted = [i \in 1..n |-> sorted[i]]
            BY <1>3
        <3> QED
            BY <3>1, <3>2, <1>3
    <2>2. \A i, j \in 1..n : i < j => sorted[i] # sorted[j] /\ Time[sorted[i]] <= Time[sorted[j]]
        BY <1>2, <1>3, <1>4 DEF IsInjective
    <2>3. \A q \in Range(buffer) : \E i \in 1..n : sorted[i] = q
        BY <1>3 DEF Range
    <2> QED
        BY <2>1, <2>2, <2>3, <1>7, SameCardinality DEF Buffer!Drainings
<1>9. Buffer!End
    BY <1>1, <1>5, <1>8 DEF Buffer!End, TransmissionEnd
<1> QED
    BY <1>6, <1>9

LEMMA StutterStep ==
    ASSUME SInv, UNCHANGED vars
    PROVE  SInv' /\ UNCHANGED Buffer!vars
<1>1. /\ output_options' = output_options /\ transmission' = transmission
      /\ enabled' = enabled /\ buffer_size' = buffer_size /\ buffer' = buffer
      /\ copies' = copies /\ input' = input /\ output' = output
    BY DEF vars
<1>2. SInv'
    BY <1>1 DEF SInv, TypeOK
<1>3. UNCHANGED Buffer!vars
    BY <1>1 DEF Buffer!vars
<1> QED
    BY <1>2, <1>3

LEMMA InitRefines == Init => Buffer!Init
<1> SUFFICES ASSUME Init PROVE Buffer!Init
    OBVIOUS
<1>1. Range(input) = {} /\ Range(buffer) = {}
    BY DEF Init, Range
<1>2. LatePackets(input, Capacity(output_options)) = {}
    BY DEF Init, LatePackets
<1> QED
    BY <1>1, <1>2, OptionsAssumption DEF Init, Capacity, Buffer!Init

LEMMA StepRefines ==
    ASSUME SInv, [Next]_vars
    PROVE  SInv' /\ [Buffer!Next]_(Buffer!vars)
<1>1. CASE TransmissionStart
    BY <1>1, StartStep
<1>2. ASSUME NEW p \in Packet, NewPacket(p)
      PROVE  SInv' /\ Buffer!Next
    <2>1. CASE PassThrough(p)
        BY <1>2, <2>1, PassThroughStep DEF Buffer!Next
    <2>2. CASE Store(p)
        BY <1>2, <2>2, StoreStep DEF Buffer!Next
    <2> QED
        BY <1>2, <2>1, <2>2 DEF NewPacket
<1>3. CASE TransmissionEnd
    BY <1>3, EndStep DEF Buffer!Next
<1>4. CASE UNCHANGED vars
    BY <1>4, StutterStep
<1> QED
    BY <1>1, <1>2, <1>3, <1>4 DEF Next

\* Types of the filter's variables, for every configuration (sort_filter.c:49-98).
THEOREM TypeCorrect == Spec => []TypeOK
<1>1. SInv => TypeOK
    BY DEF SInv
<1> QED
    BY <1>1, SInit, StepRefines, PTL DEF Spec

\* wr_sort_filter_notify keeps the promise of ReorderBuffer, for every stream of
\* packets and every buffer_size the list can sort (sort_filter.c:49-98).
THEOREM Refinement == Spec => ImplementsReorderBuffer
<1>1. Spec => Buffer!Init /\ [][Buffer!Next]_(Buffer!vars)
    BY InitRefines, SInit, StepRefines, PTL DEF Spec
<1> QED
    BY <1>1 DEF ImplementsReorderBuffer, Buffer!Spec

--------------------------------------------------------------------------------
(* The packets in the list are alive and have not left it.                   *)

Alive == StoredPacketsAlive /\ Range(output) \subseteq Range(input)

\* What is passed on at the end joins what was passed on before.
LEMMA RangeConcat ==
    ASSUME NEW s \in Seq(Packet), NEW t \in Seq(Packet)
    PROVE  Range(s \o t) = Range(s) \cup Range(t)
<1> DEFINE n == Len(s)
           m == Len(t)
           u == s \o t
<1>1. /\ n \in Nat /\ m \in Nat /\ DOMAIN s = 1..n /\ DOMAIN t = 1..m /\ DOMAIN u = 1..(n + m)
      /\ \A i \in 1..n : u[i] = s[i] /\ i \in 1..(n + m)
      /\ \A i \in 1..m : u[n + i] = t[i] /\ n + i \in 1..(n + m)
      /\ \A k \in 1..(n + m) : k \in 1..n \/ (k - n \in 1..m /\ n + (k - n) = k)
    OBVIOUS
<1> HIDE DEF u, n, m
<1>2. ASSUME NEW k \in 1..(n + m) PROVE u[k] \in Range(s) \cup Range(t)
    <2>1. CASE k \in 1..n
        BY <2>1, <1>1 DEF Range
    <2>2. CASE k - n \in 1..m /\ n + (k - n) = k
        <3>1. u[n + (k - n)] = t[k - n]
            BY <2>2, <1>1
        <3> QED
            BY <3>1, <2>2, <1>1 DEF Range
    <2> QED
        BY <2>1, <2>2, <1>1
<1>3. \A i \in 1..n : s[i] \in Range(u)
    BY <1>1 DEF Range
<1>4. \A i \in 1..m : t[i] \in Range(u)
    BY <1>1 DEF Range
<1>5. /\ Range(s) = {s[i] : i \in 1..n} /\ Range(t) = {t[i] : i \in 1..m}
      /\ Range(u) = {u[k] : k \in 1..(n + m)}
    BY <1>1 DEF Range
<1> QED
    BY <1>2, <1>3, <1>4, <1>5 DEF u

\* A new packet is in the list or is passed on, never both.
LEMMA AliveNew ==
    ASSUME SInv, Alive, NEW p \in Packet, NewPacket(p)
    PROVE  Alive'
<1>1. /\ Range(input') = Range(input) \cup {p}
      /\ p \notin Range(input) /\ p \notin Range(buffer) /\ p \notin Range(output)
    BY RangeAppend DEF SInv, TypeOK, NewPacket, Alive
<1>2. /\ output \in Seq(Packet) /\ buffer \in Seq(Packet) /\ IsInjective(buffer)
      /\ Range(buffer) \subseteq copies /\ Range(buffer) \cap Range(output) = {}
      /\ Range(output) \subseteq Range(input) /\ Range(buffer) \subseteq Range(input)
    BY DEF SInv, TypeOK, Alive, StoredPacketsAlive
<1>3. CASE PassThrough(p)
    <2>1. /\ buffer' = buffer /\ copies' = copies
          /\ Range(output') = Range(output) \cup {p}
        BY <1>2, <1>3, RangeAppend DEF PassThrough
    <2> QED
        BY <2>1, <1>1, <1>2 DEF Alive, StoredPacketsAlive
<1>4. CASE Store(p)
    <2> DEFINE stored == Append(buffer, p)
    <2>1. /\ stored \in Seq(Packet) /\ IsInjective(stored)
          /\ Range(stored) = Range(buffer) \cup {p} /\ Len(stored) > 0
        BY <1>1, <1>2, RangeAppend
    <2>2. copies' = copies \cup {p}
        BY <1>4 DEF Store
    <2>3. CASE Len(stored) > buffer_size
        <3>1. PICK sorted \in list_sort(stored) :
                  buffer' = Tail(sorted) /\ output' = Append(output, Head(sorted))
            BY <1>4, <2>3 DEF Store
        <3>2. /\ sorted \in Seq(Packet) /\ Len(sorted) > 0
              /\ Range(sorted) = Range(stored) /\ IsInjective(sorted)
            BY <2>1, SortResult
        <3>3. /\ Head(sorted) \in Range(stored) /\ Head(sorted) \in Packet
              /\ Range(buffer') = Range(stored) \ {Head(sorted)}
            <4>1. Head(sorted) \in Packet
                BY <3>2
            <4> QED
                BY <4>1, <3>1, <3>2, TailOfSorted
        <3>4. Range(output') = Range(output) \cup {Head(sorted)}
            BY <3>1, <3>3, <1>2, RangeAppend
        <3> HIDE DEF stored
        <3> QED
            BY <3>3, <3>4, <2>1, <2>2, <1>1, <1>2 DEF Alive, StoredPacketsAlive
    <2>4. CASE ~(Len(stored) > buffer_size)
        <3>1. buffer' = stored /\ output' = output
            BY <1>4, <2>4 DEF Store
        <3> HIDE DEF stored
        <3> QED
            BY <3>1, <2>1, <2>2, <1>1, <1>2 DEF Alive, StoredPacketsAlive
    <2> QED
        BY <2>3, <2>4
<1> QED
    BY <1>3, <1>4 DEF NewPacket

\* No stored packet has been destroyed or passed on already (sort_filter.c:69-91).
THEOREM StoredAlive == Spec => []StoredPacketsAlive
<1>1. Init => Alive
    <2> SUFFICES ASSUME Init PROVE Alive
        OBVIOUS
    <2>1. Range(buffer) = {} /\ Range(output) = {}
        BY DEF Init, Range
    <2> QED
        BY <2>1 DEF Alive, StoredPacketsAlive
<1>2. SInv /\ Alive /\ [Next]_vars => Alive'
    <2> SUFFICES ASSUME SInv, Alive, [Next]_vars PROVE Alive'
        OBVIOUS
    <2>1. Range(<<>>) = {}
        BY DEF Range
    <2>2. CASE TransmissionStart
        BY <2>1, <2>2 DEF TransmissionStart, Alive, StoredPacketsAlive
    <2>3. ASSUME NEW p \in Packet, NewPacket(p) PROVE Alive'
        BY <2>3, AliveNew
    <2>4. CASE TransmissionEnd
        <3>1. PICK sorted \in list_sort(buffer) : output' = output \o sorted
            BY <2>4 DEF TransmissionEnd
        <3>2. sorted \in Seq(Packet) /\ Range(sorted) = Range(buffer)
            BY SortResult DEF SInv, TypeOK
        <3>3. Range(output') = Range(output) \cup Range(buffer)
            BY <3>1, <3>2, RangeConcat DEF SInv, TypeOK
        <3>4. buffer' = <<>> /\ input' = input
            BY <2>4 DEF TransmissionEnd
        <3> QED
            BY <3>3, <3>4, <2>1 DEF SInv, Alive, StoredPacketsAlive
    <2>5. CASE UNCHANGED vars
        BY <2>5 DEF vars, Alive, StoredPacketsAlive
    <2> QED
        BY <2>2, <2>3, <2>4, <2>5 DEF Next
<1>3. Alive => StoredPacketsAlive
    BY DEF Alive
<1> QED
    BY <1>1, <1>2, <1>3, SInit, StepRefines, PTL DEF Spec

--------------------------------------------------------------------------------
(***************************************************************************)
(* What follows from the contract.  The filter loses nothing, holds back no *)
(* more than its capacity, and misplaces only packets that came in late, for *)
(* every stream and every configuration.                                    *)
(*                                                                          *)
(* The order property is not inductive: nothing in it says why a packet     *)
(* that arrives now cannot belong before one that left long ago.  The       *)
(* reason is EmittedWithCompany: a packet leaves a full buffer only as its   *)
(* earliest, so more than the capacity's arrivals are not before it, and     *)
(* whoever arrives now and belongs before it has those arrivals behind it,  *)
(* which makes it late.                                                     *)
(*                                                                          *)
(* The state of the contract has names here, so that the proofs need not see *)
(* what it is made of; SameContract says that nothing else is meant.         *)
(***************************************************************************)

Arrived == Range(input)
Held == Range(buffer)
Cap == Capacity(output_options)
Late == LatePackets(input, Cap)
Ended == transmission = "ended"
Emitted == Range(output)

NotBefore(t) == {q \in Arrived : Time[q] >= t}

Types ==
    /\ Cap \in Nat
    /\ Arrived \in SUBSET Packet /\ IsFiniteSet(Arrived)
    /\ Late \in SUBSET Arrived
    /\ Held \in SUBSET Packet
    /\ output \in Seq(Packet)
    /\ Ended \in BOOLEAN

Conservation ==
    /\ Arrived = Held \cup Emitted
    /\ Held \cap Emitted = {}
    /\ IsInjective(output)

BoundedBuffer ==
    /\ Cardinality(Held) <= Cap
    /\ Ended => Held = {}

EmittedWithCompany ==
    ~Ended => \A i \in DOMAIN output : Cardinality(NotBefore(Time[output[i]])) > Cap

\* Whoever is still held back and was not late belongs after all that left.
HeldBehindEmitted ==
    \A i \in DOMAIN output, b \in Held : b \notin Late => Time[output[i]] <= Time[b]

OnlyLatePacketsMisplaced ==
    \A i, j \in DOMAIN output :
        i < j /\ output[j] \notin Late => Time[output[i]] <= Time[output[j]]

IInv ==
    /\ Types
    /\ Conservation
    /\ BoundedBuffer
    /\ EmittedWithCompany
    /\ HeldBehindEmitted
    /\ OnlyLatePacketsMisplaced

\* The actions of the contract.

ComesLate(p) == Cardinality({q \in Arrived : Time[q] > Time[p]}) > Cap

Arrives(p) ==
    /\ ~Ended
    /\ p \notin Arrived
    /\ Arrived' = Arrived \cup {p}
    /\ Late' = IF ComesLate(p) THEN Late \cup {p} ELSE Late

Hold(p) ==
    /\ Arrives(p)
    /\ Cardinality(Held \cup {p}) <= Cap
    /\ Held' = Held \cup {p}
    /\ UNCHANGED <<Cap, output, Ended>>

Earliest(p, S) == p \in S /\ \A q \in S : Time[p] <= Time[q]

HoldAndEmit(p, m) ==
    /\ Arrives(p)
    /\ Cardinality(Held \cup {p}) > Cap
    /\ Earliest(m, Held \cup {p})
    /\ Held' = (Held \cup {p}) \ {m}
    /\ output' = Append(output, m)
    /\ UNCHANGED <<Cap, Ended>>

Drainings(S) ==
    {s \in [1..Cardinality(S) -> S] :
        /\ \A i, j \in 1..Cardinality(S) : i < j => /\ s[i] # s[j]
                                                    /\ Time[s[i]] <= Time[s[j]]
        /\ \A p \in S : \E i \in 1..Cardinality(S) : s[i] = p}

End ==
    /\ ~Ended
    /\ \E s \in Drainings(Held) : output' = output \o s
    /\ Held' = {}
    /\ Ended' = TRUE
    /\ UNCHANGED <<Cap, Arrived, Late>>

ContractVars == <<Cap, Arrived, Late, Held, output, Ended>>

\* The packets held back are finitely many: they arrived (one at a time).
LEMMA BufferFinite ==
    ASSUME Types, Conservation
    PROVE  IsFiniteSet(Held)
BY FS_Subset DEF Types, Conservation, IsInjective

\* A packet that arrives and is not late belongs after everything that left:
\* otherwise the company of the one that left would make it late.
LEMMA NewcomerBehindEmitted ==
    ASSUME IInv, ~Ended, NEW p \in Packet, ~ComesLate(p),
           NEW i \in DOMAIN output
    PROVE  Time[output[i]] <= Time[p]
<1> SUFFICES ASSUME ~(Time[output[i]] <= Time[p]) PROVE FALSE
    OBVIOUS
<1> DEFINE Company == NotBefore(Time[output[i]])
           Larger == {q \in Arrived : Time[q] > Time[p]}
<1>1. output[i] \in Packet
    BY DEF IInv, Types
<1>2. Time[output[i]] > Time[p]
    BY <1>1, TimeAssumption
<1>3. Company \subseteq Larger
    <2> SUFFICES ASSUME NEW q \in Company PROVE q \in Larger
        OBVIOUS
    <2>1. q \in Arrived /\ q \in Packet /\ Time[q] >= Time[output[i]]
        BY DEF NotBefore, IInv, Types
    <2>2. Time[q] > Time[p]
        BY <2>1, <1>1, <1>2, TimeAssumption
    <2> QED
        BY <2>1, <2>2
<1>4. IsFiniteSet(Larger) /\ IsFiniteSet(Arrived)
    BY FS_Subset DEF IInv, Types
<1>5. Cardinality(Company) <= Cardinality(Larger)
    BY <1>3, <1>4, FS_Subset
<1>6. Cardinality(Company) > Cap
    BY DEF IInv, EmittedWithCompany
<1>7. Cardinality(Company) \in Nat /\ Cardinality(Larger) \in Nat
    BY <1>3, <1>4, FS_Subset, FS_CardinalityType
<1>8. Cardinality(Larger) > Cap
    BY <1>5, <1>6, <1>7 DEF IInv, Types
<1> QED
    BY <1>8 DEF ComesLate

\* Cardinalities never shrink when a packet arrives.
LEMMA CompanyGrows ==
    ASSUME Types, NEW p \in Packet, NEW t \in Nat
    PROVE  Cardinality(NotBefore(t))
             <= Cardinality({q \in Arrived \cup {p} : Time[q] >= t})
<1> DEFINE A == {q \in Arrived \cup {p} : Time[q] >= t}
<1>1. IsFiniteSet(Arrived \cup {p})
    BY FS_AddElement DEF Types
<1>2. IsFiniteSet(A)
    BY <1>1, FS_Subset
<1>3. NotBefore(t) \subseteq A
    BY DEF NotBefore
<1> QED
    BY <1>2, <1>3, FS_Subset

--------------------------------------------------------------------------------

LEMMA InitEstablishes ==
    ASSUME Cap \in Nat, Arrived = {}, Late = {}, Held = {}, output = <<>>, ~Ended
    PROVE  IInv
<1>1. DOMAIN output = {}
    OBVIOUS
<1>2. Types
    <2>1. output \in Seq(Packet)
        OBVIOUS
    <2>2. IsFiniteSet(Arrived)
        BY FS_EmptySet
    <2>3. Ended \in BOOLEAN
        BY DEF Ended
    <2> QED
        BY <2>1, <2>2, <2>3 DEF Types
<1>3. Conservation
    BY <1>1 DEF Conservation, IsInjective, Emitted, Range
<1>4. BoundedBuffer
    BY FS_EmptySet DEF BoundedBuffer
<1> QED
    BY <1>1, <1>2, <1>3, <1>4
       DEF IInv, EmittedWithCompany, HeldBehindEmitted, OnlyLatePacketsMisplaced

LEMMA HoldPreserves ==
    ASSUME IInv, NEW p \in Packet, Hold(p)
    PROVE  IInv'
<1> USE DEF IInv
<1>1. Types'
    BY FS_AddElement DEF Types, Hold, Arrives
<1>2. Conservation'
    BY DEF Conservation, IsInjective, Emitted, Range, Hold, Arrives, Types
<1>3. BoundedBuffer'
    BY DEF BoundedBuffer, Hold, Arrives
<1>4. EmittedWithCompany'
    <2> SUFFICES ASSUME NEW i \in DOMAIN output
                 PROVE  Cardinality({q \in Arrived \cup {p} : Time[q] >= Time[output[i]]})
                          > Cap
        BY DEF Hold, Arrives, EmittedWithCompany, NotBefore
    <2> DEFINE t == Time[output[i]]
               A == {q \in Arrived \cup {p} : Time[q] >= t}
    <2>1. t \in Nat
        BY TimeAssumption DEF Types
    <2>2. Cardinality(NotBefore(t)) > Cap
        BY DEF EmittedWithCompany, Hold, Arrives
    <2>3. Cardinality(NotBefore(t)) <= Cardinality(A)
        BY <2>1, CompanyGrows
    <2>4. IsFiniteSet(Arrived) /\ IsFiniteSet(Arrived \cup {p})
        BY FS_AddElement DEF Types
    <2>5. Cardinality(A) \in Nat /\ Cardinality(NotBefore(t)) \in Nat
        BY <2>4, FS_Subset, FS_CardinalityType DEF NotBefore
    <2> QED
        BY <2>2, <2>3, <2>5 DEF Types
<1>5. HeldBehindEmitted'
    <2> SUFFICES ASSUME NEW i \in DOMAIN output, NEW b \in Held \cup {p},
                        b \notin Late'
                 PROVE  Time[output[i]] <= Time[b]
        BY DEF HeldBehindEmitted, Hold, Arrives
    <2>1. CASE b \in Held
        BY <2>1 DEF HeldBehindEmitted, Hold, Arrives
    <2>2. CASE b = p
        <3>1. ~ComesLate(p)
            BY <2>2 DEF Hold, Arrives
        <3> QED
            BY <3>1, <2>2, NewcomerBehindEmitted DEF Hold, Arrives
    <2> QED
        BY <2>1, <2>2
<1>6. OnlyLatePacketsMisplaced'
    BY DEF OnlyLatePacketsMisplaced, Hold, Arrives, Conservation, IsInjective, Emitted, Range
<1> QED
    BY <1>1, <1>2, <1>3, <1>4, <1>5, <1>6

\* An arrival that pushes an earliest packet out.
LEMMA HoldAndEmitPreserves ==
    ASSUME IInv, NEW p \in Packet, NEW m \in Held \cup {p}, HoldAndEmit(p, m)
    PROVE  IInv'
<1> USE DEF IInv
<1> DEFINE n == Len(output)
<1>1. /\ m \in Packet
      /\ output' = Append(output, m)
      /\ Held' = (Held \cup {p}) \ {m}
      /\ Arrived' = Arrived \cup {p}
    BY DEF HoldAndEmit, Arrives, Types
<1>2. /\ output \in Seq(Packet) /\ n \in Nat
      /\ DOMAIN output = 1..n /\ DOMAIN output' = 1..(n + 1)
      /\ \A i \in 1..n : output'[i] = output[i]
      /\ output'[n + 1] = m
    BY <1>1 DEF Types
<1>3. IsFiniteSet(Held) /\ IsFiniteSet(Held \cup {p})
    BY BufferFinite, FS_AddElement
<1>4. Types'
    BY <1>1, FS_AddElement DEF Types, HoldAndEmit, Arrives
<1>5. p \notin Held /\ \A i \in 1..n : output[i] # p
    BY <1>2 DEF HoldAndEmit, Arrives, Conservation, IsInjective, Emitted, Range
<1>6. \A i \in 1..n : output[i] # m
    BY <1>2, <1>5 DEF Conservation, IsInjective, Emitted, Range
<1>7. Conservation'
    <2>1. Emitted' = Emitted \cup {m}
        BY <1>2 DEF Emitted, Range
    <2>2. \A i, j \in DOMAIN output' : output'[i] = output'[j] => i = j
        BY <1>2, <1>6 DEF Conservation, IsInjective
    <2>3. m \notin Emitted
        BY <1>2, <1>6 DEF Emitted, Range
    <2>4. Arrived' = Held' \cup Emitted'
        BY <1>1, <2>1 DEF Conservation, IsInjective
    <2>5. Held' \cap Emitted' = {}
        BY <1>1, <2>1, <2>3, <1>5 DEF Conservation, IsInjective, Emitted, Range
    <2> QED
        BY <2>2, <2>4, <2>5 DEF Conservation, IsInjective
<1>8. BoundedBuffer'
    <2>1. Cardinality(Held \cup {p}) = Cardinality(Held) + 1
        BY <1>3, <1>5, FS_AddElement
    <2>2. Cardinality((Held \cup {p}) \ {m}) = Cardinality(Held \cup {p}) - 1
        BY <1>3, FS_RemoveElement
    <2>3. Cardinality(Held) \in Nat
        BY <1>3, FS_CardinalityType
    <2> QED
        BY <1>1, <2>1, <2>2, <2>3 DEF BoundedBuffer, HoldAndEmit, Arrives
<1>9. EmittedWithCompany'
    <2> SUFFICES ASSUME NEW i \in 1..(n + 1)
                 PROVE  Cardinality({q \in Arrived \cup {p} : Time[q] >= Time[output'[i]]})
                          > Cap
        BY <1>1, <1>2 DEF HoldAndEmit, Arrives, EmittedWithCompany, NotBefore
    <2> DEFINE t == Time[output'[i]]
               A == {q \in Arrived \cup {p} : Time[q] >= t}
    <2>1. t \in Nat
        BY <1>1, <1>2, <1>4, TimeAssumption DEF Types
    <2>2. IsFiniteSet(Arrived \cup {p}) /\ IsFiniteSet(A)
        BY FS_AddElement, FS_Subset DEF Types
    <2>3. Cardinality(A) \in Nat
        BY <2>2, FS_CardinalityType
    <2>4. CASE i \in 1..n
        <3>1. Cardinality(NotBefore(t)) > Cap
            BY <2>4, <1>2 DEF EmittedWithCompany, HoldAndEmit, Arrives
        <3>2. Cardinality(NotBefore(t)) <= Cardinality(A)
            BY <2>1, CompanyGrows
        <3>3. Cardinality(NotBefore(t)) \in Nat
            BY FS_Subset, FS_CardinalityType DEF NotBefore, Types
        <3> QED
            BY <3>1, <3>2, <3>3, <2>3 DEF Types
    <2>5. CASE i = n + 1
        <3>1. Held \cup {p} \subseteq A
            <4> SUFFICES ASSUME NEW q \in Held \cup {p} PROVE q \in A
                OBVIOUS
            <4>1. q \in Arrived \cup {p} /\ q \in Packet
                BY DEF Conservation, IsInjective, Types
            <4>2. Time[m] <= Time[q]
                BY DEF HoldAndEmit, Arrives, Earliest
            <4> QED
                BY <4>1, <4>2, <2>5, <1>1, <1>2, TimeAssumption
        <3>2. Cardinality(Held \cup {p}) <= Cardinality(A)
            BY <3>1, <2>2, FS_Subset
        <3>3. Cardinality(Held \cup {p}) \in Nat
            BY <1>3, FS_CardinalityType
        <3>4. Cardinality(Held \cup {p}) > Cap /\ Cap \in Nat
            BY DEF HoldAndEmit, Arrives, Types
        <3> QED
            BY <3>2, <3>3, <3>4, <2>3
    <2> QED
        BY <2>4, <2>5, <1>2
<1>10. \A i \in 1..n : \A b \in Held \cup {p} :
           b \notin Late' => Time[output[i]] <= Time[b]
    <2> SUFFICES ASSUME NEW i \in 1..n, NEW b \in Held \cup {p}, b \notin Late'
                 PROVE  Time[output[i]] <= Time[b]
        OBVIOUS
    <2>1. CASE b \in Held
        BY <2>1, <1>2 DEF HeldBehindEmitted, HoldAndEmit, Arrives
    <2>2. CASE b = p
        BY <2>2, <1>2, NewcomerBehindEmitted DEF HoldAndEmit, Arrives
    <2> QED
        BY <2>1, <2>2
<1>11. HeldBehindEmitted'
    <2> SUFFICES ASSUME NEW i \in 1..(n + 1), NEW b \in (Held \cup {p}) \ {m},
                        b \notin Late'
                 PROVE  Time[output'[i]] <= Time[b]
        BY <1>1, <1>2 DEF HeldBehindEmitted
    <2>1. CASE i \in 1..n
        BY <2>1, <1>2, <1>10
    <2>2. CASE i = n + 1
        BY <2>2, <1>2 DEF HoldAndEmit, Arrives, Earliest
    <2> QED
        BY <2>1, <2>2, <1>2
<1>12. OnlyLatePacketsMisplaced'
    <2> SUFFICES ASSUME NEW i \in 1..(n + 1), NEW j \in 1..(n + 1), i < j,
                        output'[j] \notin Late'
                 PROVE  Time[output'[i]] <= Time[output'[j]]
        BY <1>2 DEF OnlyLatePacketsMisplaced
    <2>1. i \in 1..n
        BY <1>2
    <2>2. CASE j \in 1..n
        BY <2>1, <2>2, <1>2 DEF OnlyLatePacketsMisplaced, HoldAndEmit, Arrives
    <2>3. CASE j = n + 1
        BY <2>1, <2>3, <1>2, <1>10
    <2> QED
        BY <2>2, <2>3, <1>2
<1> QED
    BY <1>4, <1>7, <1>8, <1>9, <1>11, <1>12

\* The end of the transmission empties the buffer, earliest first.
LEMMA EndPreserves ==
    ASSUME IInv, End
    PROVE  IInv'
<1> USE DEF IInv
<1> DEFINE n == Len(output)
           k == Cardinality(Held)
<1>1. PICK s \in Drainings(Held) : output' = output \o s
    BY DEF End
<1>2. IsFiniteSet(Held) /\ k \in Nat /\ n \in Nat
    BY BufferFinite, FS_CardinalityType DEF Types
<1>3. /\ s \in [1..k -> Held]
      /\ s \in Seq(Held) /\ Len(s) = k
      /\ \A i, j \in 1..k : i < j => s[i] # s[j] /\ Time[s[i]] <= Time[s[j]]
      /\ \A p \in Held : \E i \in 1..k : s[i] = p
    BY <1>2 DEF Drainings
<1>4. s \in Seq(Packet) /\ output \in Seq(Packet)
    BY <1>2, <1>3 DEF Types
<1>5. /\ output' \in Seq(Packet)
      /\ DOMAIN output = 1..n /\ DOMAIN output' = 1..(n + k)
      /\ \A i \in 1..n : output'[i] = output[i]
      /\ \A i \in (n + 1)..(n + k) : output'[i] = s[i - n]
    BY <1>1, <1>2, <1>3, <1>4
<1>6. Types'
    BY <1>5 DEF Types, End
<1>7. Conservation'
    <2>1. Emitted' = Emitted \cup Held
        <3>1. \A p \in Emitted : p \in Emitted'
            BY <1>2, <1>5 DEF Emitted, Range
        <3>2. ASSUME NEW p \in Held PROVE p \in Emitted'
            <4>1. PICK i \in 1..k : s[i] = p
                BY <1>3
            <4>2. n + i \in (n + 1)..(n + k) /\ (n + i) - n = i
                BY <1>2
            <4>3. output'[n + i] = p /\ n + i \in 1..(n + k)
                BY <4>1, <4>2, <1>2, <1>5
            <4> QED
                BY <4>3, <1>5 DEF Emitted, Range
        <3>3. ASSUME NEW i \in 1..(n + k) PROVE output'[i] \in Emitted \cup Held
            <4>1. CASE i \in 1..n
                BY <4>1, <1>5 DEF Emitted, Range
            <4>2. CASE i \in (n + 1)..(n + k)
                <5>1. i - n \in 1..k
                    BY <4>2, <1>2
                <5> QED
                    BY <5>1, <4>2, <1>3, <1>5
            <4> QED
                BY <4>1, <4>2, <1>2
        <3> QED
            BY <3>1, <3>2, <3>3, <1>5 DEF Emitted, Range
    <2>2. ASSUME NEW i \in 1..(n + k), NEW j \in 1..(n + k), i < j
          PROVE  output'[i] # output'[j]
        <3>1. CASE j \in 1..n
            BY <2>2, <3>1, <1>2, <1>5 DEF Conservation, IsInjective
        <3>2. CASE i \in 1..n /\ j \in (n + 1)..(n + k)
            <4>1. output'[j] \in Held
                <5>1. j - n \in 1..k
                    BY <3>2, <1>2
                <5> QED
                    BY <5>1, <3>2, <1>3, <1>5
            <4>2. output'[i] \in Emitted
                BY <3>2, <1>5 DEF Emitted, Range
            <4> QED
                BY <4>1, <4>2 DEF Conservation, IsInjective
        <3>3. CASE i \in (n + 1)..(n + k)
            <4>1. i - n \in 1..k /\ j - n \in 1..k /\ i - n < j - n
                  /\ j \in (n + 1)..(n + k)
                BY <2>2, <3>3, <1>2
            <4> QED
                BY <4>1, <3>3, <1>3, <1>5
        <3> QED
            BY <3>1, <3>2, <3>3, <1>2
    <2>3. ASSUME NEW i \in 1..(n + k), NEW j \in 1..(n + k), output'[i] = output'[j]
          PROVE  i = j
        <3>1. ~(i < j) /\ ~(j < i)
            BY <2>2, <2>3
        <3> QED
            BY <3>1, <1>2
    <2> QED
        BY <2>1, <2>3, <1>5 DEF Conservation, IsInjective, End
<1>8. BoundedBuffer'
    BY FS_EmptySet DEF BoundedBuffer, End, Types
<1>9. EmittedWithCompany'
    BY DEF EmittedWithCompany, End
<1>10. HeldBehindEmitted'
    BY DEF HeldBehindEmitted, End
<1>11. OnlyLatePacketsMisplaced'
    <2> SUFFICES ASSUME NEW i \in 1..(n + k), NEW j \in 1..(n + k), i < j,
                        output'[j] \notin Late
                 PROVE  Time[output'[i]] <= Time[output'[j]]
        BY <1>5 DEF OnlyLatePacketsMisplaced, End
    <2>1. CASE j \in 1..n
        BY <2>1, <1>2, <1>5 DEF OnlyLatePacketsMisplaced
    <2>2. CASE j \in (n + 1)..(n + k)
        <3>1. j - n \in 1..k /\ output'[j] = s[j - n] /\ s[j - n] \in Held
            BY <2>2, <1>2, <1>3, <1>5
        <3>2. CASE i \in 1..n
            BY <3>1, <3>2, <1>5 DEF HeldBehindEmitted
        <3>3. CASE i \in (n + 1)..(n + k)
            <4>1. i - n \in 1..k /\ i - n < j - n
                BY <3>1, <3>3, <1>2
            <4> QED
                BY <4>1, <3>1, <3>3, <1>3, <1>5
        <3> QED
            BY <3>2, <3>3, <1>2
    <2> QED
        BY <2>1, <2>2, <1>2
<1> QED
    BY <1>6, <1>7, <1>8, <1>9, <1>10, <1>11

LEMMA StutterPreserves ==
    ASSUME IInv, UNCHANGED ContractVars
    PROVE  IInv'
BY DEF IInv, ContractVars, Types, Conservation, IsInjective, Emitted, Range, BoundedBuffer,
       EmittedWithCompany, NotBefore, HeldBehindEmitted, OnlyLatePacketsMisplaced

\* The names mean what the contract says.
LEMMA SameContract ==
    /\ Buffer!Init => Cap \in Nat /\ Arrived = {} /\ Late = {} /\ Held = {} /\ output = <<>> /\ ~Ended
    /\ \A p : Buffer!Hold(p) => Hold(p)
    /\ \A p, m : Buffer!HoldAndEmit(p, m) => HoldAndEmit(p, m)
    /\ Buffer!End => End
    /\ (UNCHANGED Buffer!vars) => UNCHANGED ContractVars
<1>1. Buffer!Init => Cap \in Nat /\ Arrived = {} /\ Late = {} /\ Held = {} /\ output = <<>> /\ ~Ended
    BY DEF Buffer!Init, Cap, Arrived, Late, Held, Ended
<1>2. \A p : Buffer!ComesLate(p) <=> ComesLate(p)
    BY SameCardinality, Zenon DEF Buffer!ComesLate, ComesLate, Arrived, Cap
<1>3. ASSUME NEW p, Buffer!Hold(p) PROVE Hold(p)
    BY <1>2, <1>3, SameCardinality, Zenon DEF Buffer!Hold, Hold, Arrives, Arrived, Held, Cap, Late, Ended
<1>4. ASSUME NEW p, NEW m, Buffer!HoldAndEmit(p, m) PROVE HoldAndEmit(p, m)
    BY <1>2, <1>4, SameCardinality, Zenon
       DEF Buffer!HoldAndEmit, HoldAndEmit, Buffer!Earliest, Earliest, Arrives, Arrived, Held, Cap, Late,
           Ended
<1>5. ASSUME NEW S PROVE Buffer!Drainings(S) = Drainings(S)
    <2>1. Buffer!Cardinality(S) = Cardinality(S)
        BY SameCardinality
    <2> QED
        BY <2>1, Zenon DEF Buffer!Drainings, Drainings
<1>6. Buffer!End => End
    <2>1. Buffer!Drainings(Range(buffer)) = Drainings(Range(buffer))
        BY <1>5
    <2> QED
        BY <2>1, Zenon DEF Buffer!End, End, Held, Arrived, Cap, Late, Ended
<1>7. (UNCHANGED Buffer!vars) => UNCHANGED ContractVars
    BY DEF Buffer!vars, ContractVars, Cap, Arrived, Late, Held, Ended
<1> QED
    BY <1>1, <1>3, <1>4, <1>6, <1>7, Zenon

--------------------------------------------------------------------------------

\* IInv is inductive, hence an invariant.
LEMMA Inductive == Spec => []IInv
<1>1. Init => IInv
    BY InitRefines, SameContract, InitEstablishes
<1>2. SInv /\ IInv /\ [Next]_vars => IInv'
    <2> SUFFICES ASSUME IInv, [Buffer!Next]_(Buffer!vars) PROVE IInv'
        BY StepRefines
    <2>1. ASSUME NEW p \in Packet, Buffer!Hold(p) PROVE IInv'
        BY <2>1, SameContract, HoldPreserves
    <2>2. ASSUME NEW p \in Packet, NEW m \in Held \cup {p}, Buffer!HoldAndEmit(p, m) PROVE IInv'
        BY <2>2, SameContract, HoldAndEmitPreserves
    <2>3. CASE Buffer!End
        BY <2>3, SameContract, EndPreserves
    <2>4. CASE UNCHANGED Buffer!vars
        BY <2>4, SameContract, StutterPreserves
    <2> QED
        BY <2>1, <2>2, <2>3, <2>4 DEF Buffer!Next, Held
<1> QED
    BY <1>1, <1>2, SInit, StepRefines, PTL DEF Spec

\* Reordering neither loses nor duplicates a packet (sort_filter.c:69-81).
THEOREM NothingLostNothingTwice == Spec => []Buffer!Conservation
<1>1. IInv => Buffer!Conservation
    <2>1. Buffer!Range(output) = Range(output) /\ (Buffer!IsInjective(output) <=> IsInjective(output))
        BY DEF Range, Buffer!Range, IsInjective, Buffer!IsInjective
    <2> QED
        BY <2>1, Zenon DEF IInv, Conservation, Buffer!Conservation, Buffer!Emitted, Emitted, Arrived, Held
<1> QED
    BY <1>1, Inductive, PTL

\* The filter never holds back more than buffer_size packets between two calls
\* (sort_filter.c:72), and nothing after the transmission ended.
THEOREM BufferStaysBounded == Spec => []Buffer!BoundedBuffer
<1>1. IInv => Buffer!BoundedBuffer
    BY SameCardinality DEF IInv, BoundedBuffer, Buffer!BoundedBuffer, Cap, Held, Ended
<1> QED
    BY <1>1, Inductive, PTL

\* A packet leaves behind one with a larger timestamp only if, when it arrived,
\* more than buffer_size packets with larger timestamps had come before it
\* (what sort_filter.h:40 promises, for every buffer size).
THEOREM OnlyLateMisplaced == Spec => []Buffer!OnlyLatePacketsMisplaced
<1>1. IInv => Buffer!OnlyLatePacketsMisplaced
    BY DEF IInv, OnlyLatePacketsMisplaced, Buffer!OnlyLatePacketsMisplaced, Cap, Late
<1> QED
    BY <1>1, Inductive, PTL

\* Hence a stream whose reordering the buffer can absorb leaves sorted.
THEOREM SortedWithinWindow == Spec => []Buffer!SortedUnlessLate
<1>1. IInv => Buffer!SortedUnlessLate
    BY DEF IInv, Types, OnlyLatePacketsMisplaced, Buffer!SortedUnlessLate, Cap, Late
<1> QED
    BY <1>1, Inductive, PTL
================================================================================
