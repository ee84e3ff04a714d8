----------------------------- MODULE ReorderBuffer -----------------------------
(***************************************************************************)
(* What the sort filter of wav2rtp promises, without how it does it.        *)
(*                                                                          *)
(* sort_filter.h:40 says that the filter "sort input data by its lowlevel   *)
(* timestamp".  A filter that holds a bounded number of packets cannot sort *)
(* an arbitrary stream; what it can do is keep `capacity' packets back and  *)
(* always let the earliest of them go first.  A packet is misplaced in the  *)
(* output only when it came in late: after more than `capacity' packets     *)
(* whose timestamp is larger than its own.                                  *)
(*                                                                          *)
(* SortFilter implements this module (see SortFilter!Buffer).               *)
(***************************************************************************)
EXTENDS PacketTimes, Sequences, FiniteSets, Functions

VARIABLES
    capacity,       \* packets held back (0: every packet passes through)
    arrived,        \* the packets received so far
    late,           \* those of them that came in after too many later ones
    buffer,         \* the packets held back now
    emitted,        \* the packets passed on, in order
    ended           \* TRANSMISSION_END was passed on

vars == <<capacity, arrived, late, buffer, emitted, ended>>

\* p is one of the earliest packets of S
Earliest(p, S) == p \in S /\ \A q \in S : Time[p] <= Time[q]

\* p comes in after more than `capacity' packets that belong behind it
ComesLate(p) == Cardinality({q \in arrived : Time[q] > Time[p]}) > capacity

Emitted == Range(emitted)

--------------------------------------------------------------------------------

Init ==
    /\ capacity \in Nat
    /\ arrived = {}
    /\ late = {}
    /\ buffer = {}
    /\ emitted = <<>>
    /\ ended = FALSE

\* A packet arrives and fits in the buffer.
Hold(p) ==
    /\ ~ended
    /\ p \notin arrived
    /\ Cardinality(buffer \cup {p}) <= capacity
    /\ arrived' = arrived \cup {p}
    /\ late' = IF ComesLate(p) THEN late \cup {p} ELSE late
    /\ buffer' = buffer \cup {p}
    /\ UNCHANGED <<capacity, emitted, ended>>

\* A packet arrives at a full buffer: an earliest packet leaves.
HoldAndEmit(p, m) ==
    /\ ~ended
    /\ p \notin arrived
    /\ Cardinality(buffer \cup {p}) > capacity
    /\ Earliest(m, buffer \cup {p})
    /\ arrived' = arrived \cup {p}
    /\ late' = IF ComesLate(p) THEN late \cup {p} ELSE late
    /\ buffer' = (buffer \cup {p}) \ {m}
    /\ emitted' = Append(emitted, m)
    /\ UNCHANGED <<capacity, ended>>

\* The orders in which a set of packets may be let go, earliest first.
Drainings(S) ==
    {s \in [1..Cardinality(S) -> S] :
        /\ \A i, j \in 1..Cardinality(S) : i < j => /\ s[i] # s[j]
                                                    /\ Time[s[i]] <= Time[s[j]]
        /\ \A p \in S : \E i \in 1..Cardinality(S) : s[i] = p}

\* The transmission ends: everything held back leaves, earliest first.
End ==
    /\ ~ended
    /\ \E s \in Drainings(buffer) : emitted' = emitted \o s
    /\ buffer' = {}
    /\ ended' = TRUE
    /\ UNCHANGED <<capacity, arrived, late>>

Next ==
    \/ \E p \in Packet : Hold(p)
    \/ \E p \in Packet : \E m \in buffer \cup {p} : HoldAndEmit(p, m)
    \/ End

Spec == Init /\ [][Next]_vars

--------------------------------------------------------------------------------

\* Every variable has its type: sets of packets and a sequence of packets.
TypeOK ==
    /\ capacity \in Nat
    /\ arrived \in SUBSET Packet /\ IsFiniteSet(arrived)
    /\ late \in SUBSET arrived
    /\ buffer \in SUBSET Packet
    /\ emitted \in Seq(Packet)
    /\ ended \in BOOLEAN

\* No packet is lost and none is sent twice by the reordering: what came in is
\* held back or passed on, never both, and nothing is passed on a second time
\* (sort_filter.c:69-81 moves packets between two lists).
Conservation ==
    /\ arrived = buffer \cup Emitted
    /\ buffer \cap Emitted = {}
    /\ IsInjective(emitted)

\* Between two calls no more than buffer_size packets are held back
\* (sort_filter.c:72), and none once the transmission ended.
BoundedBuffer ==
    /\ Cardinality(buffer) <= capacity
    /\ ended => buffer = {}

\* The promise of sort_filter.h:40, as far as a bounded buffer can keep it: a
\* packet leaves after one with a larger timestamp only if it came in late.
OnlyLatePacketsMisplaced ==
    \A i, j \in DOMAIN emitted :
        i < j /\ emitted[j] \notin late => Time[emitted[i]] <= Time[emitted[j]]

\* A stream in which no packet is late leaves sorted by lowlevel timestamp.
SortedUnlessLate ==
    late = {} => \A i, j \in DOMAIN emitted :
                     i < j => Time[emitted[i]] <= Time[emitted[j]]

================================================================================
