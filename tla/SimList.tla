-------------------------------- MODULE SimList ---------------------------------
(***************************************************************************)
(* The list library, src/contrib/simclist.c: doubly linked entries between  *)
(* two sentinels, a pointer to the entry in the middle, a stack of spare    *)
(* entries and one iterator.  One action per call, with any argument.       *)
(*                                                                          *)
(* An entry is its address, a number; malloc takes the smallest one that is *)
(* not allocated.  Elements are numbers.  What a spare entry contains is    *)
(* left out: it is written before it is read.  list_sort is used by what    *)
(* ListSort checks of it.  Elements that the list copies (copy_data), hashes *)
(* and the asserts, disabled by NDEBUG, are left out.                       *)
(***************************************************************************)
EXTENDS Integers, Sequences, FiniteSets, FiniteSetsExt, SequencesExt

CONSTANTS
    Data,                       \* the elements
    MaxLength,                  \* clients insert into lists shorter than this
    SIMCLIST_MAX_SPARE_ELEMS,   \* 5 in simclist.c:49
    UINT_RANGE                  \* an unsigned int is below this, a power of two

ASSUME SimListAssumption ==
    /\ Data \subseteq Nat \ {0}
    /\ {MaxLength, SIMCLIST_MAX_SPARE_ELEMS, UINT_RANGE} \subseteq Nat
    /\ UINT_RANGE % 2 = 0 /\ UINT_RANGE > 4 * MaxLength

VARIABLES
    l,          \* the list_t
    heap,       \* entries that are allocated
    ret,        \* what the last call returned
    crashed     \* the call that followed a null pointer, or "no"

vars == <<l, heap, ret, crashed>>

HEAD == 0
TAIL == -1
NULL == -2

--------------------------------------------------------------------------------
\* Entries and positions.

list_init == [
    next |-> [e \in {HEAD, TAIL} |-> IF e = HEAD THEN TAIL ELSE NULL],
    prev |-> [e \in {HEAD, TAIL} |-> IF e = TAIL THEN HEAD ELSE NULL],
    data |-> [e \in {HEAD, TAIL} |-> NULL], mid |-> NULL, numels |-> 0, spareels |-> <<>>,
    iter_active |-> FALSE, iter_pos |-> 0, iter_curentry |-> NULL,
    comparator |-> FALSE]

\* The entry k links behind e; NULL is not followed further.
Follow(link, e, k) ==
    LET entry[i \in Nat] ==
            IF i = 0 THEN e
            ELSE LET p == entry[i - 1] IN IF p = NULL THEN NULL ELSE link[p]
    IN entry[k]

MidPosition(n) == (n - 1) \div 2

\* The entry at a position, counted from the head, the middle or the tail,
\* whichever is nearer; -1 and numels are the sentinels.  (posstart + 1) / numels
\* is no number in an empty list, which leaves the last branch.
list_findpos(x, posstart) ==
    LET n == x.numels  q == posstart + 1 IN
    CASE posstart \notin -1..n               -> NULL
      [] n > 0 /\ 4 * q <= n                 -> Follow(x.next, HEAD, q)
      [] n > 0 /\ 4 * q > n /\ 2 * q < n     -> Follow(x.prev, x.mid, MidPosition(n) - posstart)
      [] n > 0 /\ 2 * q >= n /\ 4 * q <= 3*n -> Follow(x.next, x.mid, posstart - MidPosition(n))
      [] OTHER                               -> Follow(x.prev, TAIL, n - posstart)

\* The entries in the order of the list, and their elements.
Chain(x) == [i \in 1..x.numels |-> Follow(x.next, HEAD, i)]
Elements(x) == [i \in 1..x.numels |-> x.data[Chain(x)[i]]]

list_get_at(x, pos) ==
    LET tmp == list_findpos(x, pos) IN IF tmp # NULL THEN x.data[tmp] ELSE NULL

\* list_comparator_<type>: 1 when a is smaller than b
list_comparator(a, b) == IF a < b THEN 1 ELSE IF a > b THEN -1 ELSE 0

\* Mutant of list_get_minmax: the loop starts behind the second element.
list_get_minmaxSkip(x, versus) ==
    LET s == Elements(x)
        curminmax[i \in 1..x.numels] ==
            IF i <= 2 THEN s[1]
            ELSE IF list_comparator(curminmax[i - 1], s[i]) * versus > 0 THEN s[i]
            ELSE curminmax[i - 1]
    IN IF ~x.comparator \/ x.numels = 0 THEN NULL ELSE curminmax[x.numels]

list_get_minmax(x, versus) ==
    LET s == Elements(x)
        curminmax[i \in 1..x.numels] ==
            IF i = 1 THEN s[1]
            ELSE IF list_comparator(curminmax[i - 1], s[i]) * versus > 0 THEN s[i]
            ELSE curminmax[i - 1]
    IN IF ~x.comparator \/ x.numels = 0 THEN NULL ELSE curminmax[x.numels]

Matches(x, a, b) == IF x.comparator THEN list_comparator(a, b) = 0 ELSE a = b

list_find(x, d) ==
    LET found == {i \in DOMAIN Elements(x) : Matches(x, d, Elements(x)[i])} IN
    IF found = {} THEN -1 ELSE Min(found) - 1

\* The check the library runs on a list after every change, unless it is built
\* with NDEBUG.
list_repOk(x) ==
    /\ x.prev[HEAD] = NULL /\ x.next[TAIL] = NULL
    /\ x.numels > 0 \/ (x.mid = NULL /\ x.next[HEAD] = TAIL /\ x.prev[TAIL] = HEAD)
    /\ Len(x.spareels) <= SIMCLIST_MAX_SPARE_ELEMS
    /\ x.numels >= 1 =>
        /\ \A e \in DOMAIN x.next \ {TAIL} : x.prev[x.next[e]] = e
        /\ x.mid = Follow(x.next, HEAD, MidPosition(x.numels) + 1)
        /\ Follow(x.next, HEAD, x.numels + 1) = TAIL

--------------------------------------------------------------------------------
\* Changing the list.

\* Mutant of Spare: the stack holds one entry more than there is room for.
SpareOneMore(x, es) ==
    SubSeq(es, 1, Min({Len(es), SIMCLIST_MAX_SPARE_ELEMS + 1 - Len(x.spareels)}))

\* Those of the removed entries es that are kept for later insertions.
Spare(x, es) == SubSeq(es, 1, Min({Len(es), SIMCLIST_MAX_SPARE_ELEMS - Len(x.spareels)}))

Only(f, es) == [e \in DOMAIN f \ Range(es) |-> f[e]]

\* x without the entries es, which lie between lastvalid and tmp.
Unlink(x, es, lastvalid, tmp, mid) ==
    [x EXCEPT !.next = Only([@ EXCEPT ![lastvalid] = tmp], es),
              !.prev = Only([@ EXCEPT ![tmp] = lastvalid], es),
              !.data = Only(@, es),
              !.mid = mid,
              !.numels = @ - Len(es),
              !.spareels = @ \o Spare(x, es)]

\* The middle moves when the entry was on the longer side.
list_drop_elem(x, tmp, pos) ==
    Unlink(x, <<tmp>>, x.prev[tmp], x.next[tmp],
           IF x.numels % 2 = 1 THEN (IF pos >= x.numels \div 2 THEN x.prev[x.mid] ELSE x.mid)
           ELSE (IF pos < x.numels \div 2 THEN x.next[x.mid] ELSE x.mid))

\* f, and val for the entry that is added to it.
With(f, entry, val) == [e \in DOMAIN f \cup {entry} |-> IF e = entry THEN val ELSE f[e]]

\* Entry lent with datum d goes before position pos.
Link(x, lent, d, pos) ==
    LET prec == list_findpos(x, pos - 1)
        succ == x.next[prec]
        n == x.numels + 1
        next == With([x.next EXCEPT ![prec] = lent], lent, succ)
        prev == With([x.prev EXCEPT ![succ] = lent], lent, prec)
    IN [x EXCEPT !.next = next, !.prev = prev, !.data = With(@, lent, d), !.numels = n,
                 !.mid = IF n = 1 THEN lent
                         ELSE IF n % 2 = 1 /\ pos >= MidPosition(n) THEN next[@]
                         ELSE IF n % 2 = 0 /\ pos <= MidPosition(n) THEN prev[@]
                         ELSE @]

\* int arithmetic on an unsigned result
Unsigned(i) == i % UINT_RANGE
AsInt(u) == IF 2 * u >= UINT_RANGE THEN u - UINT_RANGE ELSE u

\* Where the middle goes when numdel elements from posstart on are deleted.
MidAfterRange(x, posstart, numdel) ==
    LET after == Unsigned(x.numels - 1 - numdel) \div 2
        midposafter == IF after < posstart THEN after ELSE Unsigned(after + numdel)
        movedx == AsInt(Unsigned(midposafter - MidPosition(x.numels)))
    IN IF movedx > 0 THEN Follow(x.next, x.mid, movedx)
       ELSE Follow(x.prev, x.mid, -movedx)

\* An entry between two links of a new list, as list_concat makes it.
Extend(x, d) ==
    LET e == Cardinality(DOMAIN x.next) - 1  last == x.prev[TAIL] IN
    [x EXCEPT !.next = With([@ EXCEPT ![last] = e], e, TAIL),
              !.prev = With([@ EXCEPT ![TAIL] = e], e, last),
              !.data = With(@, e, d)]

\* The links of a new list of the elements s, as list_concat makes them.
Copied(s) ==
    LET copy[i \in 0..Len(s)] == IF i = 0 THEN list_init ELSE Extend(copy[i - 1], s[i])
    IN copy[Len(s)]

\* C divides towards zero.
Half(i) == IF i >= 0 THEN i \div 2 ELSE -((-i) \div 2)

\* Mutant of list_concat: the second list comes first.
list_concatExchanged(l1, l2) ==
    LET x == Copied(Elements(l2) \o Elements(l1))
        mid == Follow(x.next, HEAD, l1.numels)
        err == l2.numels - l1.numels
    IN IF l1.numels + l2.numels = 0 THEN list_init
       ELSE [x EXCEPT !.numels = l1.numels + l2.numels,
                      !.mid = IF Half(err + 1) > 0 THEN Follow(x.next, mid, Half(err + 1))
                              ELSE IF Half(err) < 0 THEN Follow(x.prev, mid, Half(-err))
                              ELSE mid]

list_concat(l1, l2) ==
    LET x == Copied(Elements(l1) \o Elements(l2))
        mid == Follow(x.next, HEAD, l1.numels)
        err == l2.numels - l1.numels
    IN IF l1.numels + l2.numels = 0 THEN list_init
       ELSE [x EXCEPT !.numels = l1.numels + l2.numels,
                      !.mid = IF Half(err + 1) > 0 THEN Follow(x.next, mid, Half(err + 1))
                              ELSE IF Half(err) < 0 THEN Follow(x.prev, mid, Half(-err))
                              ELSE mid]

--------------------------------------------------------------------------------
\* The calls.

Init == l = list_init /\ heap = {} /\ ret = 0 /\ crashed = "no"

Refuse(value) == ret' = value /\ UNCHANGED <<l, heap, crashed>>

Change(list, allocated, value) ==
    l' = list /\ heap' = allocated /\ ret' = value /\ UNCHANGED crashed

Crash(call) == crashed' = call /\ UNCHANGED <<l, heap, ret>>

\* What is left allocated when the entries es are removed.
Remaining(es) == heap \ (Range(es) \ Range(Spare(l, es)))

SetComparator == Change([l EXCEPT !.comparator = TRUE], heap, 0)

Malloc == Min((1..Cardinality(heap) + 1) \ heap)

\* Mutant of Insert: a spare entry is used and stays on the stack.
InsertSpareTwice(d, pos) ==
    IF l.iter_active \/ pos > l.numels THEN Refuse(-1)
    ELSE LET lent == IF l.spareels # <<>> THEN Last(l.spareels) ELSE Malloc
         IN Change(Link(l, lent, d, pos), heap \cup {lent}, 1)

\* list_insert_at; list_append inserts at numels
Insert(d, pos) ==
    IF l.iter_active \/ pos > l.numels THEN Refuse(-1)
    ELSE IF l.spareels # <<>>
    THEN Change(Link([l EXCEPT !.spareels = Front(@)], Last(l.spareels), d, pos), heap, 1)
    ELSE \/ Change(Link(l, Malloc, d, pos), heap \cup {Malloc}, 1)
         \/ Refuse(-1)              \* malloc fails

\* list_extract_at; list_fetch extracts from position 0
Extract(pos) ==
    IF l.iter_active \/ pos >= l.numels THEN Refuse(NULL)
    ELSE LET tmp == list_findpos(l, pos) IN
         Change(list_drop_elem(l, tmp, pos), Remaining(<<tmp>>), l.data[tmp])

DeleteAt(pos) ==
    IF l.iter_active \/ pos >= l.numels THEN Refuse(-1)
    ELSE LET tmp == list_findpos(l, pos) IN
         Change(list_drop_elem(l, tmp, pos), Remaining(<<tmp>>), 0)

DeleteRange(posstart, posend) ==
    IF l.iter_active \/ posend < posstart \/ posend >= l.numels THEN Refuse(-1)
    ELSE LET es == SubSeq(Chain(l), posstart + 1, posend + 1)
             mid == MidAfterRange(l, posstart, Len(es))
         IN IF mid = NULL THEN Crash("list_delete_range")
            ELSE Change(Unlink(l, es, l.prev[Head(es)], l.next[Last(es)], mid), Remaining(es), 0)

Clear ==
    IF l.iter_active THEN Refuse(-1)
    ELSE Change(Unlink(l, Chain(l), HEAD, TAIL, NULL), Remaining(Chain(l)), 0)

\* A list that was filled with the elements s one after the other.
Filled(s) ==
    LET filled[i \in 0..Len(s)] ==
            IF i = 0 THEN list_init ELSE Link(filled[i - 1], i, s[i], i - 1)
    IN filled[Len(s)]

\* The client goes on with the concatenation of its list and a list of the
\* elements s.
Concatenate(s) ==
    LET dest == list_concat(l, Filled(s))
    IN Change(dest, DOMAIN dest.next \ {HEAD, TAIL}, 0)

\* What is left of list_sort's work: the elements of s in ascending order.
Ascending(s) ==
    CHOOSE t \in [DOMAIN s -> Range(s)] :
        /\ ToBag(t) = ToBag(s)
        /\ \A i, j \in DOMAIN s : i < j => t[i] <= t[j]

\* list_sort(l, 1): the entries stay where they are and exchange their elements.
Sort ==
    IF l.iter_active \/ ~l.comparator THEN Refuse(-1)
    ELSE LET chain == Chain(l)
             sorted == Ascending(Elements(l))
         IN Change([l EXCEPT !.data = [e \in DOMAIN @ |->
                IF e \in Range(chain) THEN sorted[CHOOSE i \in DOMAIN chain : chain[i] = e] ELSE @[e]]], heap, 0)

IteratorStart ==
    IF l.iter_active THEN Refuse(0)
    ELSE Change([l EXCEPT !.iter_active = TRUE, !.iter_pos = 0, !.iter_curentry = l.next[HEAD]],
                heap, 1)

\* Behind the last element stands the sentinel, behind the sentinel nothing.
IteratorNext ==
    IF ~l.iter_active THEN Refuse(NULL)
    ELSE IF l.iter_curentry = NULL THEN Crash("list_iterator_next")
    ELSE Change([l EXCEPT !.iter_curentry = l.next[@], !.iter_pos = @ + 1], heap,
                l.data[l.iter_curentry])

list_iterator_hasnext(x) == x.iter_active /\ x.iter_pos < x.numels

IteratorStop ==
    IF ~l.iter_active THEN Refuse(0)
    ELSE Change([l EXCEPT !.iter_active = FALSE, !.iter_pos = 0], heap, 1)

\* list_destroy, and list_init of the next list.  Clients stop an iteration first
\* (rtpapi.c:109-110), or list_clear would refuse and the entries be lost.
Destroy == ~l.iter_active /\ Change(list_init, {}, 0)

Next ==
    /\ crashed = "no"
    /\ \/ SetComparator
       \/ \E d \in Data, pos \in 0..l.numels + 1 : l.numels < MaxLength /\ Insert(d, pos)
       \/ \E pos \in 0..l.numels : Extract(pos) \/ DeleteAt(pos)
       \/ \E posstart, posend \in 0..l.numels : DeleteRange(posstart, posend)
       \/ Clear
       \/ \E s \in SeqOf(Data, MaxLength - l.numels) : Concatenate(s)
       \/ Sort
       \/ IteratorStart \/ IteratorNext \/ IteratorStop
       \/ Destroy

Spec == Init /\ [][Next]_vars

--------------------------------------------------------------------------------

\* An entry, its links and its datum; positions within the list.
TypeOK ==
    /\ DOMAIN l.next = DOMAIN l.prev /\ DOMAIN l.next = DOMAIN l.data
    /\ \A e \in DOMAIN l.next : {l.next[e], l.prev[e]} \subseteq DOMAIN l.next \cup {NULL}
    /\ l.numels \in 0..MaxLength
    /\ l.mid \in DOMAIN l.next \cup {NULL}
    /\ l.iter_active => l.iter_pos \in 0..l.numels + 1
    /\ Len(l.spareels) <= SIMCLIST_MAX_SPARE_ELEMS

\* The parts of the list that are kept by hand next to each other fit together after
\* any sequence of calls: the links of both directions and the middle pointer
\* (unless the list is empty: extracting the last element leaves it at the head
\* sentinel, which list_repOk, simclist.c:843-873, does not accept); allocated
\* entries, each in the list or spare, once (simclist.c:271-278, 763-768); the
\* iterator's count, which list_iterator_hasnext asks, and its pointer, which
\* list_iterator_next follows (simclist.c:702-717).
LinkedAround ==
    /\ l.numels > 0 => list_repOk(l)
    /\ heap = Range(Chain(l)) \cup Range(l.spareels)
    /\ Cardinality(heap) = l.numels + Len(l.spareels)
    /\ l.iter_active => (list_iterator_hasnext(l) <=> l.iter_curentry \notin {TAIL, NULL})

\* Every position is read as the position it is, from whichever end or middle it
\* is counted (simclist.c:221-245), the sentinels hold no datum, and the extrema
\* are elements that none is beyond, which the search finds (simclist.c:194-218,
\* 444-462).
QueriesAgree ==
    /\ \A pos \in 0..l.numels :
           list_get_at(l, pos) = IF pos < l.numels THEN Elements(l)[pos + 1] ELSE NULL
    /\ l.comparator =>
        \A d \in Range(Elements(l)) :
            /\ list_get_minmax(l, -1) <= d /\ d <= list_get_minmax(l, 1)
            /\ Elements(l)[list_find(l, list_get_minmax(l, 1)) + 1] >= d

List == INSTANCE AbstractList WITH
    seq <- Elements(l), cursor <- IF l.iter_active THEN l.iter_pos ELSE -1

\* Several elements are removed, and 0 is returned, not their number as simclist.h:259
\* and :269 promise (simclist.c:391, 433).
ReturnsNoCount == \E i, j \in DOMAIN Elements(l) : i < j /\ List!Removal(i, j) /\ ret' = 0

\* A null pointer is followed where simclist.h:254-259 allows the deletion of all
\* elements as a range (simclist.c:340-353), and where an iteration is continued beyond
\* its end, for which simclist.h:375 promises NULL again (simclist.c:707).
FollowsNull ==
    /\ \/ crashed' = "list_delete_range" /\ ~l.iter_active /\ l.numels > 0
       \/ crashed' = "list_iterator_next" /\ l.iter_active /\ l.iter_pos > l.numels
    /\ UNCHANGED List!vars

\* The calls do what simclist.h:175-387 says of a list, but in two ways: any sequence
\* of them is one of a sequence of elements, which does not change during an
\* iteration.  The ways are those of ReturnsNoCount (of one element that is removed as a
\* range, or by list_clear, 0 is returned as well, which is list_delete_at's promise)
\* and of FollowsNull; no other step may fail.
ImplementsList ==
    /\ List!Init
    /\ [][\/ (List!Next \/ ReturnsNoCount) /\ UNCHANGED crashed
          \/ FollowsNull]_<<List!vars, crashed>>

================================================================================
