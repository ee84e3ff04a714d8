-------------------------------- MODULE MCSimList --------------------------------
(* Lists of up to five elements with two spare entries, and every call on them.  *)
EXTENDS SimList

\* Where an entry stands in the list: addresses mean nothing else.
Place(e) ==
    IF \E i \in 0..l.numels + 1 : Follow(l.next, HEAD, i) = e
    THEN CHOOSE i \in 0..l.numels + 1 : Follow(l.next, HEAD, i) = e
    ELSE NULL

\* States with the same view are equal up to the addresses of their entries.
UpToAddresses ==
    <<Elements(l), [i \in 1..l.numels + 1 |-> Place(Follow(l.prev, TAIL, i))],
      Place(l.mid), Len(l.spareels), Cardinality(heap \cup Range(l.spareels)),
      l.iter_active, l.iter_pos, Place(l.iter_curentry), l.comparator, ret, crashed>>
================================================================================
