-------------------------------- MODULE Network --------------------------------
(***************************************************************************)
(* What the filters of wav2rtp emulate together: a network between the      *)
(* source of the packets and the sinks that record them.  It may delay,     *)
(* reorder and lose packets; it never invents or duplicates one, never      *)
(* delivers one before it was sent or later than the delay filters allow,   *)
(* and when the transmission ends nothing is still on its way.              *)
(***************************************************************************)
EXTENDS Naturals, Sequences

CONSTANTS
    Time,           \* when each packet of the source leaves: a sequence of microseconds
    MaxDelays       \* how long the network may be told to delay a packet: numbers of them

VARIABLES
    max_delay,      \* how long the network may delay a packet
    lossless,       \* no filter may lose packets
    sent,           \* how many packets the source sent
    delivered,      \* the packets recorded, in order, with their time
    ended           \* the sinks were told that the transmission ended

vars == <<max_delay, lossless, sent, delivered, ended>>

WasDelivered(n) == \E k \in DOMAIN delivered : delivered[k].packet = n

Init ==
    /\ max_delay \in MaxDelays
    /\ lossless \in BOOLEAN
    /\ sent = 0
    /\ delivered = <<>>
    /\ ended = FALSE

Send ==
    /\ ~ended /\ sent < Len(Time)
    /\ sent' = sent + 1
    /\ UNCHANGED <<max_delay, lossless, delivered, ended>>

Deliver(n, d) ==
    /\ ~ended
    /\ n \in 1..sent /\ ~WasDelivered(n)
    /\ d \in 0..max_delay
    /\ delivered' = Append(delivered, [packet |-> n, time |-> Time[n] + d])
    /\ UNCHANGED <<max_delay, lossless, sent, ended>>

End ==
    /\ ~ended
    /\ lossless => \A n \in 1..sent : WasDelivered(n)
    /\ ended' = TRUE
    /\ UNCHANGED <<max_delay, lossless, sent, delivered>>

Next ==
    \/ Send
    \/ \E n \in DOMAIN Time, d \in 0..max_delay : Deliver(n, d)
    \/ End

Spec == Init /\ [][Next]_vars

================================================================================
