------------------------------- MODULE ListSort --------------------------------
(***************************************************************************)
(* list_sort(l, -1) of the list library (src/contrib/simclist.c:521-692),   *)
(* which the sort filter calls for every packet: a quicksort with a random  *)
(* pivot that falls back to a selection sort on short (sub)lists.           *)
(*                                                                          *)
(* The elements of the list are numbered 1..n after their first position;   *)
(* `list' is their current order.  Pointers to list entries are positions:  *)
(* sorting exchanges the data of entries and never moves the entries.       *)
(* rand() is any pivot.  The comparator is a parameter of the call: the      *)
(* library asks for one that returns -1, 0 or 1 (simclist.h:121-123), the    *)
(* sort filter passes one that returns 0 or 1 (sort_filter.c:44).            *)
(***************************************************************************)
EXTENDS Integers, Sequences

CONSTANTS
    Calls,                  \* how list_sort may be called: the keys (timestamps) of a
                            \* list, the comparator it was given, and the length up
                            \* to which lists are selection sorted
    Comparator              \* the result of the named comparator for two keys

\* The comparator gives an int for the keys of the list.
ASSUME CallsAssumption ==
    \A c \in Calls :
        /\ c.keys \in Seq(Int)
        /\ c.SIMCLIST_MINQUICKSORTELS \in Nat
        /\ \A i, j \in DOMAIN c.keys : Comparator[c.comparator, c.keys[i], c.keys[j]] \in Int

VARIABLES
    keys,       \* key of each element
    call,       \* one of Calls
    list,       \* the elements in their current order
    calls,      \* sublists still to be sorted, as [first, last]; the head is current
    pc,         \* where list_sort_quicksort is
    left, right, pivot

vars == <<keys, call, list, calls, pc, left, right, pivot>>
scan == <<left, right, pivot>>

SIMCLIST_MINQUICKSORTELS == call.SIMCLIST_MINQUICKSORTELS

compare(x, y) == Comparator[call.comparator, x, y]
cmp(i, j) == compare(keys[list[i]], keys[list[j]])

\* list_sort is called with versus = -1: results are multiplied by -versus = 1
OutOfOrder(i, j) == cmp(i, j) > 0

from == Head(calls).first
to == Head(calls).last

\* Mutant of Exchange: the first entry is overwritten before it is saved.
Overwrite(l, i, j) == [l EXCEPT ![i] = l[j]]

\* Exchange the data of the entries at positions i and j.
Exchange(l, i, j) == [l EXCEPT ![i] = l[j], ![j] = l[i]]

--------------------------------------------------------------------------------

\* Mutant of ToSwap: the last entry is not looked at.
ToSwapButLast(l, i, k) ==
    LET toswap[c \in Nat] ==
            IF c <= i THEN i
            ELSE LET t == toswap[c - 1] IN
                 IF compare(keys[l[t]], keys[l[c]]) > 0 THEN c ELSE t
    IN toswap[k - 1]

\* The entry of l with the first of the smallest elements from position i to k.
ToSwap(l, i, k) ==
    LET toswap[c \in Nat] ==
            IF c <= i THEN i
            ELSE LET t == toswap[c - 1] IN
                 IF compare(keys[l[t]], keys[l[c]]) > 0 THEN c ELSE t
    IN toswap[k]

\* The entries before firstunsorted are in place.
list_sort_selectionsort(l, i, k) ==
    LET sorted[firstunsorted \in (i - 1)..(k - 1)] ==
            IF firstunsorted < i THEN l
            ELSE LET s == sorted[firstunsorted - 1] IN
                 Exchange(s, firstunsorted, ToSwap(s, firstunsorted, k))
    IN sorted[k - 1]

--------------------------------------------------------------------------------

Init ==
    /\ call \in Calls /\ keys = call.keys
    /\ list = [i \in 1..Len(keys) |-> i]
    /\ calls = IF Len(keys) <= 1 THEN <<>> ELSE <<[first |-> 1, last |-> Len(keys)]>>
    /\ pc = "call"
    /\ left = 0 /\ right = 0 /\ pivot = 0

\* A short sublist is selection sorted, and the call returns.
SelectionSort ==
    /\ pc = "call" /\ calls # <<>>
    /\ to - from + 1 <= SIMCLIST_MINQUICKSORTELS
    /\ list' = list_sort_selectionsort(list, from, to)
    /\ calls' = Tail(calls)
    /\ UNCHANGED <<keys, call, pc, scan>>

\* pivotid = rand() % (last - first + 1)
ChoosePivot ==
    /\ pc = "call" /\ calls # <<>>
    /\ to - from + 1 > SIMCLIST_MINQUICKSORTELS
    /\ pivot' \in from..to
    /\ left' = from /\ right' = to
    /\ pc' = "partition"
    /\ UNCHANGED <<keys, call, list, calls>>

\* Where the scan from the left stops: at an element that belongs behind the
\* pivot, or at the pivot.
LeftStop == CHOOSE i \in left..pivot :
    /\ i = pivot \/ OutOfOrder(i, pivot)
    /\ \A j \in left..(i - 1) : ~OutOfOrder(j, pivot)

\* Where the scan from the right stops: at an element for which the comparator
\* is negative, or at the pivot.
RightStop == CHOOSE i \in pivot..right :
    /\ i = pivot \/ cmp(i, pivot) < 0
    /\ \A j \in (i + 1)..right : cmp(j, pivot) >= 0

\* Mutant of ExchangePair: both pointers move on, also at the pivot.
ExchangePairPastPivot ==
    /\ pc = "partition" /\ left # pivot /\ right # pivot
    /\ list' = Exchange(list, LeftStop, RightStop)
    /\ left' = LeftStop + 1 /\ right' = RightStop - 1
    /\ UNCHANGED <<keys, call, calls, pc, pivot>>

\* One iteration of the loop that exchanges misplaced pairs around the pivot.
ExchangePair ==
    /\ pc = "partition" /\ left # pivot /\ right # pivot
    /\ IF LeftStop # pivot /\ RightStop # pivot
       THEN /\ list' = Exchange(list, LeftStop, RightStop)
            /\ left' = LeftStop + 1
            /\ right' = RightStop - 1
       ELSE /\ left' = LeftStop
            /\ right' = RightStop
            /\ UNCHANGED list
    /\ UNCHANGED <<keys, call, calls, pc, pivot>>

\* Mutant of MoveBehindPivot: an element that is in place is not stepped over.
MoveBehindPivotStuck ==
    /\ pc = "partition" /\ right = pivot /\ left # pivot
    /\ IF OutOfOrder(left, pivot)
       THEN /\ list' = [list EXCEPT ![left] = list[pivot - 1],
                                    ![pivot - 1] = list[pivot],
                                    ![pivot] = list[left]]
            /\ pivot' = pivot - 1 /\ right' = pivot'
       ELSE UNCHANGED <<list, pivot, right>>
    /\ UNCHANGED <<keys, call, calls, pc, left>>

\* The left part is longer: what belongs behind the pivot moves behind it.
MoveBehindPivot ==
    /\ pc = "partition" /\ right = pivot /\ left # pivot
    /\ IF OutOfOrder(left, pivot)
       THEN /\ list' = [list EXCEPT ![left] = list[pivot - 1],
                                    ![pivot - 1] = list[pivot],
                                    ![pivot] = list[left]]
            /\ pivot' = pivot - 1 /\ right' = pivot'
            /\ UNCHANGED left
       ELSE /\ left' = left + 1
            /\ UNCHANGED <<list, pivot, right>>
    /\ UNCHANGED <<keys, call, calls, pc>>

\* Mutant of MoveBeforePivot: the comparison of the left part is used.
MoveBeforePivotReversed ==
    /\ pc = "partition" /\ left = pivot /\ right # pivot
    /\ IF OutOfOrder(right, pivot)
       THEN /\ list' = [list EXCEPT ![right] = list[pivot + 1],
                                    ![pivot + 1] = list[pivot],
                                    ![pivot] = list[right]]
            /\ pivot' = pivot + 1 /\ left' = pivot'
            /\ UNCHANGED right
       ELSE /\ right' = right - 1
            /\ UNCHANGED <<list, pivot, left>>
    /\ UNCHANGED <<keys, call, calls, pc>>

\* The right part is longer: what belongs before the pivot moves before it.
MoveBeforePivot ==
    /\ pc = "partition" /\ left = pivot /\ right # pivot
    /\ IF cmp(right, pivot) < 0
       THEN /\ list' = [list EXCEPT ![right] = list[pivot + 1],
                                    ![pivot + 1] = list[pivot],
                                    ![pivot] = list[right]]
            /\ pivot' = pivot + 1 /\ left' = pivot'
            /\ UNCHANGED right
       ELSE /\ right' = right - 1
            /\ UNCHANGED <<list, pivot, left>>
    /\ UNCHANGED <<keys, call, calls, pc>>

\* Both parts are partitioned: the call becomes one call for each of them that
\* is not empty, the left one first.
SortParts ==
    /\ pc = "partition" /\ left = pivot /\ right = pivot
    /\ calls' = (IF pivot > from THEN <<[first |-> from, last |-> pivot - 1]>> ELSE <<>>)
                \o (IF pivot < to THEN <<[first |-> pivot + 1, last |-> to]>> ELSE <<>>)
                \o Tail(calls)
    /\ pc' = "call"
    /\ UNCHANGED <<keys, call, list, scan>>

Next ==
    \/ SelectionSort
    \/ ChoosePivot
    \/ ExchangePair
    \/ MoveBehindPivot
    \/ MoveBeforePivot
    \/ SortParts

\* The code runs to completion: nothing else runs in the process.
Spec == Init /\ [][Next]_vars /\ WF_vars(Next)

--------------------------------------------------------------------------------

done == pc = "call" /\ calls = <<>>

\* The scan pointers stay inside the current sublist, around the pivot.
TypeOK ==
    /\ list \in [1..Len(keys) -> 1..Len(keys)]
    /\ \A k \in DOMAIN calls : 1 <= calls[k].first /\ calls[k].first <= calls[k].last
                               /\ calls[k].last <= Len(keys)
    /\ pc \in {"call", "partition"}
    /\ pc = "partition" => from <= left /\ left <= pivot /\ pivot <= right /\ right <= to

\* No packet is lost or duplicated by moving data between entries, at any point
\* of the sort (simclist.c:615-623, 628-656).
Permutation == \A e \in DOMAIN list : \E i \in DOMAIN list : list[i] = e

\* When the sublists are handed to the recursive calls (simclist.c:658-690), every
\* element before the pivot may stay before it and every one behind it behind it.
PartitionedAroundPivot ==
    pc = "partition" /\ left = pivot /\ right = pivot =>
        /\ \A i \in from..(pivot - 1) : keys[list[i]] <= keys[list[pivot]]
        /\ \A i \in (pivot + 1)..to : keys[list[i]] >= keys[list[pivot]]

\* sort_filter.h:40: "This filter sort input data by its lowlevel timestamp".
\* When list_sort returns, the keys are in ascending order.
SortsByTimestamp ==
    done => \A i, j \in DOMAIN list : i < j => keys[list[i]] <= keys[list[j]]

\* Whatever pivots are drawn, list_sort returns (simclist.c:571-692).
Termination == <>done

================================================================================
