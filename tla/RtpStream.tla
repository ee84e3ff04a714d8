------------------------------- MODULE RtpStream -------------------------------
(***************************************************************************)
(* What the observers of the WAV source may rely on (rtpapi.h:147-161,      *)
(* 166-170): one START, then packets, then one END; and the packets are one *)
(* continuous RTP stream.  Their sequence numbers count up by one, each RTP *)
(* timestamp is the previous one plus the samples sent with it, and packets *)
(* leave in real time, sample_time microseconds per sample.                  *)
(***************************************************************************)
EXTENDS Naturals, Sequences

VARIABLES
    sample_time,    \* microseconds per sample: 125 at 8 kHz
    origin,         \* when the transmission starts
    phase,          \* "none", "started" or "ended"
    sent            \* what the NEW_PACKET notifications said of each packet

vars == <<sample_time, origin, phase, sent>>

Header(sequence_number, rtp_timestamp, micros, markbit, samples) ==
    [sequence_number |-> sequence_number, rtp_timestamp |-> rtp_timestamp,
     micros |-> micros, markbit |-> markbit, samples |-> samples]

Headers == [sequence_number : Nat, rtp_timestamp : Nat, micros : Nat,
            markbit : {0, 1}, samples : Nat \ {0}]

\* What the next packet says, when it carries n samples.
NextHeader(n) ==
    IF sent = <<>>
    THEN Header(0, 0, origin, 1, n)
    ELSE LET last == sent[Len(sent)] IN
         Header(last.sequence_number + 1,
                last.rtp_timestamp + last.samples,
                last.micros + sample_time * last.samples, 0, n)

--------------------------------------------------------------------------------

Init ==
    /\ sample_time \in Nat
    /\ origin \in Nat
    /\ phase = "none"
    /\ sent = <<>>

Start ==
    /\ phase = "none"
    /\ phase' = "started"
    /\ UNCHANGED <<sample_time, origin, sent>>

\* A packet of any number of samples, but not of none.
Send ==
    /\ phase = "started"
    /\ Len(sent') = Len(sent) + 1
    /\ LET n == sent'[Len(sent')].samples IN
       n \in Nat \ {0} /\ sent' = Append(sent, NextHeader(n))
    /\ UNCHANGED <<sample_time, origin, phase>>

End ==
    /\ phase = "started"
    /\ phase' = "ended"
    /\ UNCHANGED <<sample_time, origin, sent>>

Next == Start \/ Send \/ End

Spec == Init /\ [][Next]_vars

--------------------------------------------------------------------------------

\* Types of the contract's variables: headers of natural numbers.
TypeOK ==
    /\ sample_time \in Nat
    /\ origin \in Nat
    /\ phase \in {"none", "started", "ended"}
    /\ sent \in Seq(Headers)

\* wavfile_filter.c:134-144 advances four counters by hand, in two places.
\* A receiver can rebuild time from the RTP timestamps: the k-th packet has
\* sequence number k - 1, only the first has the mark bit, and a packet left
\* exactly as long after the first as its RTP timestamp says.
Synchronised ==
    \A k \in DOMAIN sent :
        /\ sent[k].sequence_number = k - 1
        /\ sent[k].markbit = IF k = 1 THEN 1 ELSE 0
        /\ sent[k].micros = origin + sample_time * sent[k].rtp_timestamp

\* wavfile_filter.c:136: rtp_timestamp counts the samples sent.
\* Packets do not overlap: all samples of a packet come before the next one.
Disjoint ==
    \A j, k \in DOMAIN sent :
        j < k => sent[j].rtp_timestamp + sent[j].samples <= sent[k].rtp_timestamp

================================================================================
