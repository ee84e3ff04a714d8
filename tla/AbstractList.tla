------------------------------ MODULE AbstractList ------------------------------
(***************************************************************************)
(* What src/contrib/simclist.h promises of a list: a sequence that can be   *)
(* changed and read at every position, and that nobody changes while it is  *)
(* being iterated.  How the entries are linked, where the middle pointer    *)
(* stands and which entries are reused is not visible.                      *)
(***************************************************************************)
EXTENDS Integers, Sequences, SequencesExt

CONSTANTS Data, NULL

VARIABLES
    seq,        \* the elements
    cursor,     \* how many were iterated over, -1 outside of iterations
    ret         \* what the last call returned

vars == <<seq, cursor, ret>>

Iterating == cursor >= 0

\* Every initial value is that of an empty list.
Init == seq = <<>> /\ cursor = -1 /\ ret = 0

\* A call that is not possible now: nothing changes, and it says so.
Refuse == ret' \in {0, -1, NULL} /\ UNCHANGED <<seq, cursor>>

Insert == \E d \in Data, k \in 1..Len(seq) + 1 :
    ~Iterating /\ seq' = InsertAt(seq, k, d) /\ ret' = 1 /\ UNCHANGED cursor

Extract == \E k \in DOMAIN seq :
    ~Iterating /\ seq' = RemoveAt(seq, k) /\ ret' = seq[k] /\ UNCHANGED cursor

\* The elements from position i to position j are gone.
Removal(i, j) ==
    /\ ~Iterating
    /\ seq' = SubSeq(seq, 1, i - 1) \o SubSeq(seq, j + 1, Len(seq))
    /\ UNCHANGED cursor

\* "0 on success" (simclist.h:249)
DeleteAt == \E k \in DOMAIN seq : Removal(k, k) /\ ret' = 0

\* "the number of elements successfully removed" (simclist.h:259)
DeleteRange == \E i, j \in DOMAIN seq : i <= j /\ Removal(i, j) /\ ret' = j - i + 1

\* "the number of elements in the list before cleaning" (simclist.h:269)
Clear == ~Iterating /\ seq' = <<>> /\ ret' = Len(seq) /\ UNCHANGED cursor

Concatenate == seq' \in Seq(Data) /\ IsPrefix(seq, seq') /\ cursor' = -1 /\ ret' = 0

Sort ==
    /\ ~Iterating
    /\ ToBag(seq') = ToBag(seq)
    /\ \A i, j \in DOMAIN seq' : i < j => seq'[i] <= seq'[j]
    /\ ret' = 0
    /\ UNCHANGED cursor

StartIteration == ~Iterating /\ cursor' = 0 /\ ret' = 1 /\ UNCHANGED seq

\* Past the last element there is no datum to return.
NextElement ==
    /\ Iterating
    /\ ret' = IF cursor < Len(seq) THEN seq[cursor + 1] ELSE NULL
    /\ cursor' = cursor + 1
    /\ UNCHANGED seq

StopIteration == Iterating /\ cursor' = -1 /\ ret' = 1 /\ UNCHANGED seq

Destroy == ~Iterating /\ seq' = <<>> /\ ret' = 0 /\ UNCHANGED cursor

Next ==
    \/ Refuse
    \/ Insert \/ Extract \/ DeleteAt \/ DeleteRange \/ Clear
    \/ Concatenate \/ Sort
    \/ StartIteration \/ NextElement \/ StopIteration
    \/ Destroy

Spec == Init /\ [][Next]_vars

================================================================================
