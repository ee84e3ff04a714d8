---------------------------- MODULE WavSourceProofs ----------------------------
(***************************************************************************)
(* The WAV source implements the stream contract, whatever the codecs and   *)
(* their buffer sizes, the codec list, the length of the file, the frames   *)
(* per packet and the starting time.                                        *)
(*                                                                          *)
(* The loop keeps the stream's next header in the packet under              *)
(* construction: what it says is what RtpStream!NextHeader asks for         *)
(* (PacketContinues), and the counters run ahead of it by the samples of    *)
(* its frames (CountersAhead).  The times rest on the arithmetic of timeval *)
(* values, which comes first.                                               *)
(*                                                                          *)
(* The source then has what the contract promises, by an invariant of the   *)
(* contract (SInv): its stream never loses step.                            *)
(*                                                                          *)
(* What the packets carry needs two more invariants: every packet sent or   *)
(* under construction has the frames and the type it should (CInv), and     *)
(* the frames sent and under construction are those of the passes before    *)
(* and the first ones of the current pass, in order (FInv).                 *)
(***************************************************************************)
EXTENDS WavSource, Recursion, SequenceTheorems

--------------------------------------------------------------------------------
(* Arithmetic on struct timeval is arithmetic on microseconds, as long as     *)
(* tv_usec stays below a second, which timeval_increment preserves.           *)

LEMMA Fields ==
    ASSUME NEW tv \in Timeval
    PROVE  /\ tv.tv_sec \in Nat /\ tv.tv_usec \in Nat /\ tv.tv_usec < USEC
           /\ Micros(tv) \in Nat
<1>1. tv.tv_sec \in Nat /\ tv.tv_usec \in 0..(USEC - 1)
    BY DEF Timeval
<1>2. tv.tv_usec \in Nat /\ tv.tv_usec < USEC
    BY <1>1, SecondAssumption
<1>3. tv.tv_sec * USEC \in Nat
    BY <1>1, SecondAssumption
<1> QED
    BY <1>1, <1>2, <1>3 DEF Micros

\* More seconds are more microseconds, whatever the fractions.
LEMMA SecondsDominate ==
    ASSUME NEW s \in Nat, NEW u \in Nat, NEW t \in Nat, NEW v \in Nat,
           u < USEC, v < USEC, s > t
    PROVE  s * USEC + u > t * USEC + v
BY SecondAssumption

\* timeval_increment keeps the normal form and adds exactly the microseconds it
\* is given, however many carries that takes (misc.c:64-71).
THEOREM IncrementExact ==
    ASSUME NEW tv \in Timeval, NEW us \in Nat
    PROVE  /\ timeval_increment(tv, us) \in Timeval
           /\ Micros(timeval_increment(tv, us)) = Micros(tv) + us
<1> DEFINE usec == tv.tv_usec + (us % USEC)
           q == us \div USEC
           r == us % USEC
           carry == usec \div USEC
           rest == usec % USEC
<1>1. tv.tv_sec \in Nat /\ tv.tv_usec \in Nat
    BY Fields
<1>2. q \in Nat /\ r \in Nat /\ us = q * USEC + r
    BY SecondAssumption
<1>3. usec \in Nat
    BY <1>1, <1>2
<1>4. carry \in Nat /\ rest \in Nat /\ rest < USEC /\ usec = carry * USEC + rest
    <2> HIDE DEF usec
    <2> QED
        BY <1>3, SecondAssumption
<1>5. timeval_increment(tv, us) = [tv_sec |-> tv.tv_sec + q + carry, tv_usec |-> rest]
    BY DEF timeval_increment
<1>6. timeval_increment(tv, us) \in Timeval
    <2>1. tv.tv_sec + q + carry \in Nat
        BY <1>1, <1>2, <1>4
    <2>2. rest \in 0..(USEC - 1)
        BY <1>4, SecondAssumption
    <2> HIDE DEF q, carry, rest
    <2> QED
        BY <1>5, <2>1, <2>2 DEF Timeval
<1>7. Micros(timeval_increment(tv, us)) = (tv.tv_sec + q + carry) * USEC + rest
    BY <1>5 DEF Micros
<1>8. tv.tv_usec + r = carry * USEC + rest
    BY <1>4
<1>9. (tv.tv_sec + q + carry) * USEC + rest = Micros(tv) + us
    <2> HIDE DEF q, r, carry, rest
    <2>1. (tv.tv_sec + q + carry) * USEC = tv.tv_sec * USEC + q * USEC + carry * USEC
        BY <1>1, <1>2, <1>4, SecondAssumption
    <2>2. tv.tv_sec * USEC \in Nat /\ q * USEC \in Nat /\ carry * USEC \in Nat
        BY <1>1, <1>2, <1>4, SecondAssumption
    <2> QED
        BY <1>1, <1>2, <1>4, <1>8, <2>1, <2>2 DEF Micros
<1> QED
    BY <1>6, <1>7, <1>9

\* timercmp orders normalised timevals as the microseconds they stand for: this
\* is what lets the sort filter compare field by field (sort_filter.c:44).
THEOREM GreaterIsLater ==
    ASSUME NEW a \in Timeval, NEW b \in Timeval
    PROVE  TimerGreater(a, b) <=> Micros(a) > Micros(b)
<1>1. /\ a.tv_sec \in Nat /\ a.tv_usec \in Nat /\ a.tv_usec < USEC
      /\ b.tv_sec \in Nat /\ b.tv_usec \in Nat /\ b.tv_usec < USEC
      /\ Micros(a) \in Nat /\ Micros(b) \in Nat
    BY Fields
<1>2. CASE a.tv_sec = b.tv_sec
    <2>1. a.tv_sec * USEC = b.tv_sec * USEC /\ b.tv_sec * USEC \in Nat
        BY <1>1, <1>2, SecondAssumption
    <2> QED
        BY <1>1, <1>2, <2>1 DEF TimerGreater, Micros
<1>3. CASE a.tv_sec > b.tv_sec
    <2>1. Micros(a) > Micros(b)
        BY <1>1, <1>3, SecondsDominate DEF Micros
    <2> QED
        BY <1>1, <1>3, <2>1 DEF TimerGreater
<1>4. CASE a.tv_sec < b.tv_sec
    <2>1. Micros(b) > Micros(a)
        BY <1>1, <1>4, SecondsDominate DEF Micros
    <2> QED
        BY <1>1, <1>4, <2>1 DEF TimerGreater
<1> QED
    BY <1>1, <1>2, <1>3, <1>4

\* timersub of a later and an earlier timeval is in normal form and is their
\* distance (wavfile_output_filter.c:49, 61; rtpdump_filter.c:134).
THEOREM SubtractExact ==
    ASSUME NEW a \in Timeval, NEW b \in Timeval, ~TimerGreater(b, a)
    PROVE  /\ timersub(a, b) \in Timeval
           /\ Micros(timersub(a, b)) = Micros(a) - Micros(b)
<1>1. /\ a.tv_sec \in Nat /\ a.tv_usec \in Nat /\ a.tv_usec < USEC
      /\ b.tv_sec \in Nat /\ b.tv_usec \in Nat /\ b.tv_usec < USEC
    BY Fields
<1>2. a.tv_sec >= b.tv_sec /\ (a.tv_usec < b.tv_usec => a.tv_sec > b.tv_sec)
    BY <1>1 DEF TimerGreater
<1> DEFINE d == a.tv_sec - b.tv_sec
<1>3. d \in Nat /\ (d * USEC) = a.tv_sec * USEC - b.tv_sec * USEC
    BY <1>1, <1>2, SecondAssumption
<1>4. a.tv_sec * USEC \in Nat /\ b.tv_sec * USEC \in Nat /\ USEC \in Nat
    BY <1>1, SecondAssumption
<1>5. CASE a.tv_usec < b.tv_usec
    <2> DEFINE u == a.tv_usec - b.tv_usec + USEC
    <2>1. timersub(a, b) = [tv_sec |-> d - 1, tv_usec |-> u]
        BY <1>5 DEF timersub
    <2>2. d - 1 \in Nat /\ u \in 0..(USEC - 1)
        BY <1>1, <1>2, <1>4, <1>5
    <2>3. (d - 1) * USEC = d * USEC - USEC
        BY <1>3, <1>4
    <2>4. Micros(timersub(a, b)) = (d - 1) * USEC + u
        BY <2>1 DEF Micros
    <2>5. timersub(a, b) \in Timeval
        <3> HIDE DEF d, u
        <3> QED
            BY <2>1, <2>2 DEF Timeval
    <2>6. (d - 1) * USEC + u = Micros(a) - Micros(b)
        <3>1. (d - 1) * USEC + u = (d * USEC - USEC) + u
            BY <2>3
        <3>2. (d * USEC - USEC) + u = (a.tv_sec * USEC - b.tv_sec * USEC - USEC) + u
            BY <1>3
        <3>3. (a.tv_sec * USEC - b.tv_sec * USEC - USEC) + u
                = (a.tv_sec * USEC + a.tv_usec) - (b.tv_sec * USEC + b.tv_usec)
            BY <1>1, <1>4
        <3> QED
            BY <3>1, <3>2, <3>3 DEF Micros
    <2> QED
        BY <2>4, <2>5, <2>6
<1>6. CASE ~(a.tv_usec < b.tv_usec)
    <2> DEFINE u == a.tv_usec - b.tv_usec
    <2>1. timersub(a, b) = [tv_sec |-> d, tv_usec |-> u]
        BY <1>6 DEF timersub
    <2>2. u \in 0..(USEC - 1)
        BY <1>1, <1>4, <1>6
    <2>3. timersub(a, b) \in Timeval
        <3> HIDE DEF d, u
        <3> QED
            BY <1>3, <2>1, <2>2 DEF Timeval
    <2>4. d * USEC + u = Micros(a) - Micros(b)
        <3> HIDE DEF d
        <3> QED
            BY <1>1, <1>3, <1>4 DEF Micros
    <2> QED
        BY <2>1, <2>3, <2>4 DEF Micros
<1> QED
    BY <1>5, <1>6

--------------------------------------------------------------------------------
(* The stream of packets.                                                     *)

frames == rtp_packet.data_frames

\* Where the loop is and what the observers know of it.
ProtocolInv ==
    /\ pc \in {"start", "failed"} => transmission = "none" /\ sent = <<>>
    /\ pc = "loop" => transmission = "started"
    /\ pc = "done" => transmission = "ended"
    /\ pc = "start" => /\ sequence_number = 0 /\ rtp_timestamp = 0 /\ frames_count = 0
                       /\ packet_end_timestamp = start_time

\* The packet under construction continues the stream: its header starts where
\* the last packet that was sent ends.
PacketContinues ==
    pc = "loop" =>
        /\ rtp_packet.sequence_number = sequence_number
        /\ sent = <<>> =>
               /\ rtp_packet.sequence_number = 0 /\ rtp_packet.rtp_timestamp = 0
               /\ rtp_packet.lowlevel_timestamp = start_time /\ rtp_packet.markbit = 1
        /\ sent # <<>> =>
               LET last == sent[Len(sent)] IN
               /\ rtp_packet.sequence_number = last.sequence_number + 1
               /\ rtp_packet.rtp_timestamp = last.rtp_timestamp + Samples(last)
               /\ Micros(rtp_packet.lowlevel_timestamp)
                    = Micros(last.lowlevel_timestamp) + SampleTime * Samples(last)
               /\ rtp_packet.markbit = 0

\* The frames under construction are consecutive buffers of the current codec,
\* and the counters are ahead of the packet by as many samples.
CountersAhead ==
    pc = "loop" =>
        /\ Len(frames) = frames_count
        /\ frames_count = 0 => rtp_timestamp = rtp_packet.rtp_timestamp
        /\ frames_count > 0 =>
               /\ codec \in Codec
               /\ frames[1].first < position
               /\ position - frames[1].first <= frames_count * buffer_size[codec]
               /\ frames[frames_count].first + frames[frames_count].samples = position
               /\ rtp_timestamp = rtp_packet.rtp_timestamp + (position - frames[1].first)
        /\ Micros(packet_end_timestamp) =
               Micros(rtp_packet.lowlevel_timestamp)
                 + SampleTime * (rtp_timestamp - rtp_packet.rtp_timestamp)

IInv == TypeOK /\ ProtocolInv /\ PacketContinues /\ CountersAhead

--------------------------------------------------------------------------------

LEMMA SampleTimeNat == SampleTime \in Nat
BY SecondAssumption, RateAssumption DEF SampleTime

LEMMA MillisecondsNat == \A n \in Nat : Milliseconds(n) \in Nat
BY RateAssumption DEF Milliseconds

\* What sf_read_short can deliver.
LEMMA ReadBounds ==
    ASSUME TypeOK, codec # NoCodec
    PROVE  /\ codec \in Codec /\ buffer_size[codec] \in Nat \ {0}
           /\ SamplesRead \in Nat /\ SamplesRead <= buffer_size[codec]
           /\ position + SamplesRead \in 0..file.samples
           /\ position \in Nat
<1>1. codec \in Codec /\ buffer_size[codec] \in Nat \ {0}
    BY CodecAssumption DEF TypeOK
<1>2. file.samples \in Nat /\ position \in 0..file.samples
    BY InputAssumption DEF TypeOK
<1> QED
    BY <1>1, <1>2 DEF SamplesRead

\* What the header of a packet says when it carries n samples.
HeaderAt(packet, n) ==
    [sequence_number |-> packet.sequence_number, rtp_timestamp |-> packet.rtp_timestamp,
     micros |-> Micros(packet.lowlevel_timestamp), markbit |-> packet.markbit,
     samples |-> n]

SentHeaders == [k \in 1..Len(sent) |-> HeaderOf(sent[k])]

LEMMA SentHeadersSequence ==
    ASSUME sent \in Seq(RtpPacket)
    PROVE  /\ SentHeaders = <<>> <=> sent = <<>>
           /\ sent # <<>> => SentHeaders[Len(SentHeaders)] = HeaderOf(sent[Len(sent)])
<1>1. Len(sent) \in Nat /\ (sent # <<>> => Len(sent) \in 1..Len(sent))
    BY DEF SentHeaders
<1>2. Len(SentHeaders) = Len(sent)
    BY <1>1 DEF SentHeaders
<1>3. sent # <<>> => SentHeaders[Len(sent)] = HeaderOf(sent[Len(sent)])
    BY <1>1 DEF SentHeaders
<1>4. sent = <<>> => SentHeaders = <<>>
    BY DEF SentHeaders
<1>5. SentHeaders = <<>> => sent = <<>>
    BY <1>2
<1> QED
    BY <1>2, <1>3, <1>4, <1>5

\* The packet under construction is the one the contract asks for next.
LEMMA NextHeaderIs ==
    ASSUME TypeOK, PacketContinues, pc = "loop", NEW n
    PROVE  Stream!NextHeader(n) = HeaderAt(rtp_packet, n)
<1>1. Stream!NextHeader(n) =
        IF SentHeaders = <<>>
        THEN Stream!Header(0, 0, Micros(start_time), 1, n)
        ELSE LET last == SentHeaders[Len(SentHeaders)] IN
             Stream!Header(last.sequence_number + 1, last.rtp_timestamp + last.samples,
                           last.micros + SampleTime * last.samples, 0, n)
    BY DEF Stream!NextHeader, SentHeaders
<1>2. sent \in Seq(RtpPacket)
    BY DEF TypeOK
<1>3. CASE sent = <<>>
    <2>1. Stream!NextHeader(n) = Stream!Header(0, 0, Micros(start_time), 1, n)
        BY <1>1, <1>2, <1>3, SentHeadersSequence
    <2> QED
        BY <2>1, <1>3 DEF PacketContinues, Stream!Header, HeaderAt
<1>4. CASE sent # <<>>
    <2> DEFINE last == sent[Len(sent)]
    <2>1. Stream!NextHeader(n) =
            Stream!Header(HeaderOf(last).sequence_number + 1,
                          HeaderOf(last).rtp_timestamp + HeaderOf(last).samples,
                          HeaderOf(last).micros + SampleTime * HeaderOf(last).samples, 0, n)
        BY <1>1, <1>2, <1>4, SentHeadersSequence
    <2>2. /\ HeaderOf(last).sequence_number = last.sequence_number
          /\ HeaderOf(last).rtp_timestamp = last.rtp_timestamp
          /\ HeaderOf(last).micros = Micros(last.lowlevel_timestamp)
          /\ HeaderOf(last).samples = Samples(last)
        BY DEF HeaderOf
    <2>3. /\ rtp_packet.sequence_number = last.sequence_number + 1
          /\ rtp_packet.rtp_timestamp = last.rtp_timestamp + Samples(last)
          /\ Micros(rtp_packet.lowlevel_timestamp)
               = Micros(last.lowlevel_timestamp) + SampleTime * Samples(last)
          /\ rtp_packet.markbit = 0
        BY <1>4 DEF PacketContinues
    <2> HIDE DEF last
    <2>4. Stream!NextHeader(n) =
            Stream!Header(rtp_packet.sequence_number, rtp_packet.rtp_timestamp,
                          Micros(rtp_packet.lowlevel_timestamp), rtp_packet.markbit, n)
        BY <2>1, <2>2, <2>3
    <2> QED
        BY <2>4 DEF Stream!Header, HeaderAt
<1> QED
    BY <1>3, <1>4

\* Sending a packet appends its header to the stream.
LEMMA HeadersAppend ==
    ASSUME sent \in Seq(RtpPacket), NEW p \in RtpPacket, sent' = Append(sent, p)
    PROVE  SentHeaders' = Append(SentHeaders, HeaderOf(p))
<1> DEFINE k == Len(sent)
           H(t) == [i \in 1..Len(t) |-> HeaderOf(t[i])]
           G == Append(H(sent), HeaderOf(p))
<1>1. /\ k \in Nat /\ Len(sent') = k + 1 /\ sent'[k + 1] = p
      /\ \A i \in 1..k : sent'[i] = sent[i]
    OBVIOUS
<1>2. Len(H(sent)) = k /\ \A i \in 1..k : H(sent)[i] = HeaderOf(sent[i])
    BY <1>1
<1>3. H(sent) \in Seq({HeaderOf(sent[i]) : i \in 1..k})
    BY <1>1
<1>4. /\ DOMAIN G = 1..(k + 1)
      /\ \A i \in 1..k : G[i] = H(sent)[i]
      /\ G[k + 1] = HeaderOf(p)
      /\ G = [i \in 1..(k + 1) |-> G[i]]
    <2> DEFINE h == H(sent)
               S == {HeaderOf(sent[i]) : i \in 1..k} \cup {HeaderOf(p)}
    <2>1. h \in Seq(S) /\ HeaderOf(p) \in S /\ Len(h) = k
        BY <1>2, <1>3
    <2> HIDE DEF h, S
    <2> QED
        BY <2>1, <1>1 DEF h
<1>5. \A i \in 1..(k + 1) : G[i] = HeaderOf(sent'[i])
    <2> SUFFICES ASSUME NEW i \in 1..(k + 1) PROVE G[i] = HeaderOf(sent'[i])
        OBVIOUS
    <2>1. CASE i \in 1..k
        BY <2>1, <1>1, <1>2, <1>4
    <2>2. CASE i = k + 1
        BY <2>2, <1>1, <1>4
    <2> QED
        BY <1>1, <2>1, <2>2
<1>6. H(sent') = G
    BY <1>1, <1>4, <1>5
<1> QED
    BY <1>6 DEF SentHeaders

--------------------------------------------------------------------------------

LEMMA InitEstablishes == Init => IInv /\ Stream!Init
<1> SUFFICES ASSUME Init PROVE IInv /\ Stream!Init
    OBVIOUS
<1>1. /\ file \in Files /\ codec_list \in CodecLists /\ rtp_in_frame \in FrameCounts
      /\ start_time \in StartTimes /\ start_time \in Timeval
      /\ iter_active = FALSE /\ iter_pos = 0 /\ pc = "start" /\ codec = NoCodec
      /\ position = 0 /\ rtp_packet = wr_rtp_packet_init(0, 0, 0, 0, start_time)
      /\ frames_count = 0 /\ sequence_number = 0 /\ rtp_timestamp = 0
      /\ packet_end_timestamp = start_time /\ transmission = "none" /\ sent = <<>>
    BY InputAssumption DEF Init
<1>2. file.samples \in Nat /\ rtp_in_frame \in Nat \ {0} /\ codec_list \in Seq(Codec)
    BY <1>1, InputAssumption, CodecAssumption
<1>3. rtp_packet \in RtpPacket
    BY <1>1 DEF RtpPacket, wr_rtp_packet_init
<1>4. TypeOK
    <2>1. iter_pos \in 0..Len(codec_list) /\ position \in 0..file.samples
        BY <1>1, <1>2
    <2>2. frames_count < rtp_in_frame /\ sent \in Seq(RtpPacket)
        BY <1>1, <1>2
    <2> QED
        BY <1>1, <1>3, <2>1, <2>2 DEF TypeOK
<1>5. Stream!Init
    <2>1. Micros(start_time) \in Nat
        BY <1>1, SecondAssumption DEF Micros, Timeval
    <2> QED
        BY <1>1, <2>1, SampleTimeNat DEF Stream!Init
<1> QED
    BY <1>1, <1>4, <1>5 DEF IInv, ProtocolInv, PacketContinues, CountersAhead

\* Sending a packet that covers the time until the counters is a step of the
\* contract, and the next packet continues from there.
LEMMA PacketSent ==
    ASSUME IInv, pc = "loop", codec \in Codec, UNCHANGED <<options, transmission>>,
           NEW packet \in RtpPacket, NEW timestamp \in Nat, NEW end \in Timeval,
           packet.sequence_number = rtp_packet.sequence_number,
           packet.rtp_timestamp = rtp_packet.rtp_timestamp,
           packet.lowlevel_timestamp = rtp_packet.lowlevel_timestamp,
           packet.markbit = rtp_packet.markbit,
           Samples(packet) \in Nat \ {0},
           timestamp = packet.rtp_timestamp + Samples(packet),
           Micros(end) = Micros(packet.lowlevel_timestamp) + SampleTime * Samples(packet),
           SendPacket(packet, timestamp, end)
    PROVE  /\ Stream!Next
           /\ sent' \in Seq(RtpPacket) /\ rtp_packet' \in RtpPacket
           /\ sequence_number' \in Nat /\ frames_count' = 0
           /\ PacketContinues'
           /\ rtp_packet'.rtp_timestamp = timestamp /\ rtp_packet'.lowlevel_timestamp = end
           /\ frames' = <<>>
<1> DEFINE n == Samples(packet)
<1>1. /\ TypeOK /\ PacketContinues /\ transmission = "started"
      /\ sent \in Seq(RtpPacket) /\ sequence_number \in Nat
      /\ payload_type[codec] \in Nat
    BY CodecAssumption DEF IInv, TypeOK, ProtocolInv
<1>2. /\ sent' = Append(sent, packet) /\ frames_count' = 0
      /\ sequence_number' = sequence_number + 1
      /\ rtp_packet' = wr_rtp_packet_init(payload_type[codec], sequence_number + 1, 0,
                                          timestamp, end)
    BY DEF SendPacket
<1>3. HeaderOf(packet) = HeaderAt(rtp_packet, n)
    BY DEF HeaderOf, HeaderAt
<1>4. SentHeaders' = Append(SentHeaders, Stream!NextHeader(n))
    BY <1>1, <1>2, <1>3, HeadersAppend, NextHeaderIs
<1>5. Stream!Send
    <2>1. Micros(start_time)' = Micros(start_time) /\ transmission' = transmission
        BY DEF options
    <2>2. /\ SentHeaders \in Seq({HeaderOf(p) : p \in RtpPacket})
          /\ SentHeaders' \in Seq({HeaderOf(p) : p \in RtpPacket})
        BY <1>1, <1>2 DEF SentHeaders
    <2>3. /\ Len(SentHeaders') = Len(SentHeaders) + 1
          /\ SentHeaders'[Len(SentHeaders')] = Stream!NextHeader(n)
        BY <1>4, <2>2
    <2>4. Stream!NextHeader(n).samples = n
        BY <1>1, NextHeaderIs DEF HeaderAt
    <2> HIDE DEF n
    <2> QED
        BY <1>1, <1>4, <2>1, <2>3, <2>4 DEF Stream!Send, SentHeaders, n
<1>6. Stream!Next
    BY <1>5 DEF Stream!Next
<1>7. rtp_packet' \in RtpPacket
    BY <1>1, <1>2 DEF RtpPacket, wr_rtp_packet_init
<1>8. sent' \in Seq(RtpPacket) /\ sent' # <<>> /\ sent'[Len(sent')] = packet
    BY <1>1, <1>2
<1>9. PacketContinues'
    <2>1. packet.sequence_number = sequence_number
        BY <1>1 DEF PacketContinues
    <2>2. /\ rtp_packet'.sequence_number = sequence_number + 1
          /\ rtp_packet'.rtp_timestamp = packet.rtp_timestamp + n
          /\ Micros(rtp_packet'.lowlevel_timestamp)
               = Micros(packet.lowlevel_timestamp) + SampleTime * n
          /\ rtp_packet'.markbit = 0
        BY <1>2 DEF wr_rtp_packet_init
    <2> HIDE DEF n
    <2>3. Samples(packet) = n
        BY DEF n
    <2> QED
        BY <1>2, <1>8, <2>1, <2>2, <2>3 DEF PacketContinues
<1> QED
    BY <1>1, <1>2, <1>6, <1>7, <1>8, <1>9 DEF wr_rtp_packet_init, frames

\* The packet with the next buffer's frame covers the time until the counters.
LEMMA EncodedPacket ==
    ASSUME IInv, pc = "loop", codec # NoCodec, SamplesRead > 0
    PROVE  LET packet == wr_rtp_packet_add_frame(rtp_packet, NextFrame)
               f == packet.data_frames
           IN  /\ packet \in RtpPacket
               /\ packet.sequence_number = rtp_packet.sequence_number
               /\ packet.rtp_timestamp = rtp_packet.rtp_timestamp
               /\ packet.lowlevel_timestamp = rtp_packet.lowlevel_timestamp
               /\ packet.markbit = rtp_packet.markbit
               /\ Len(f) = frames_count + 1
               /\ f[1].first \in Nat /\ f[1].first < position + SamplesRead
               /\ f[Len(f)].first + f[Len(f)].samples = position + SamplesRead
               /\ (position + SamplesRead) - f[1].first
                    <= (frames_count + 1) * buffer_size[codec]
               /\ rtp_timestamp + SamplesRead
                    = rtp_packet.rtp_timestamp + ((position + SamplesRead) - f[1].first)
<1> DEFINE packet == wr_rtp_packet_add_frame(rtp_packet, NextFrame)
           f == packet.data_frames
           n == SamplesRead
           b == buffer_size[codec]
<1>1. /\ codec \in Codec /\ b \in Nat \ {0} /\ n \in Nat \ {0} /\ n <= b
      /\ position \in Nat
    BY ReadBounds DEF IInv
<1>2. /\ rtp_packet \in RtpPacket /\ frames \in Seq(Frame) /\ frames_count \in Nat
      /\ rtp_timestamp \in Nat /\ rtp_packet.rtp_timestamp \in Nat
    BY DEF IInv, TypeOK, RtpPacket, frames
<1>3. /\ Len(frames) = frames_count
      /\ frames_count = 0 => rtp_timestamp = rtp_packet.rtp_timestamp
      /\ frames_count > 0 =>
             /\ frames[1].first < position
             /\ position - frames[1].first <= frames_count * b
             /\ rtp_timestamp = rtp_packet.rtp_timestamp + (position - frames[1].first)
    BY DEF IInv, CountersAhead
<1>4. /\ NextFrame \in Frame /\ NextFrame.first = position /\ NextFrame.samples = n
    BY <1>1, MillisecondsNat DEF NextFrame, Frame
<1>5. /\ f = Append(frames, NextFrame)
      /\ packet = [rtp_packet EXCEPT !.data_frames = f]
    BY <1>2 DEF wr_rtp_packet_add_frame, frames, RtpPacket
<1>6. /\ f \in Seq(Frame) /\ Len(f) = frames_count + 1
      /\ f[frames_count + 1] = NextFrame
      /\ frames_count > 0 => f[1] = frames[1] /\ frames[1] \in Frame
      /\ frames_count = 0 => f[1] = NextFrame
    <2> HIDE DEF f
    <2> QED
        BY <1>2, <1>3, <1>4, <1>5
<1>7. /\ packet \in RtpPacket
      /\ packet.sequence_number = rtp_packet.sequence_number
      /\ packet.rtp_timestamp = rtp_packet.rtp_timestamp
      /\ packet.lowlevel_timestamp = rtp_packet.lowlevel_timestamp
      /\ packet.markbit = rtp_packet.markbit
    <2> HIDE DEF f
    <2>1. f \in Seq(Frame)
        BY <1>6
    <2>2. packet = [rtp_packet EXCEPT !.data_frames = f]
        BY <1>5
    <2> HIDE DEF packet
    <2> QED
        BY <1>2, <2>1, <2>2 DEF RtpPacket
<1> HIDE DEF packet, f
<1>8. f[Len(f)].first + f[Len(f)].samples = position + n
    BY <1>4, <1>6
<1>9. (frames_count + 1) * b = frames_count * b + b /\ frames_count * b \in Nat
    BY <1>1, <1>2
<1>10. /\ f[1].first \in Nat /\ f[1].first < position + n
       /\ (position + n) - f[1].first <= (frames_count + 1) * b
       /\ rtp_timestamp + n = rtp_packet.rtp_timestamp + ((position + n) - f[1].first)
    <2> DEFINE m == frames_count * b
    <2>1. (frames_count + 1) * b = m + b /\ m \in Nat
        BY <1>9
    <2>2. CASE frames_count = 0
        <3>1. f[1].first = position /\ rtp_timestamp = rtp_packet.rtp_timestamp
            BY <1>3, <1>4, <1>6, <2>2
        <3> HIDE DEF m
        <3> QED
            BY <1>1, <1>2, <2>1, <3>1
    <2>3. CASE frames_count > 0
        <3>1. f[1].first = frames[1].first /\ frames[1].first \in Nat
            BY <1>6, <2>3 DEF Frame
        <3>2. /\ frames[1].first < position
              /\ position - frames[1].first <= m
              /\ rtp_timestamp = rtp_packet.rtp_timestamp + (position - frames[1].first)
            BY <1>3, <2>3
        <3> DEFINE total == (frames_count + 1) * b
                   first == frames[1].first
        <3>3. total = m + b /\ m \in Nat
            BY <2>1
        <3> HIDE DEF m, n, b, total, first
        <3>4. first \in Nat /\ first < position /\ position - first <= m
              /\ rtp_timestamp = rtp_packet.rtp_timestamp + (position - first)
            BY <3>1, <3>2 DEF first
        <3>5. /\ first < position + n
              /\ (position + n) - first <= total
              /\ rtp_timestamp + n = rtp_packet.rtp_timestamp + ((position + n) - first)
            BY <1>1, <1>2, <3>3, <3>4
        <3> QED
            BY <3>1, <3>5 DEF first, total
    <2> QED
        BY <1>2, <2>2, <2>3
<1> QED
    BY <1>6, <1>7, <1>8, <1>10 DEF packet, f

LEMMA EncodeFrameStep ==
    ASSUME IInv, EncodeFrame
    PROVE  IInv' /\ (Stream!Next \/ UNCHANGED Stream!vars)
<1> DEFINE packet == wr_rtp_packet_add_frame(rtp_packet, NextFrame)
           f == packet.data_frames
           n == SamplesRead
           b == buffer_size[codec]
           elapsed == (position + n) - f[1].first
<1>1. /\ pc = "loop" /\ codec # NoCodec /\ n > 0
      /\ position' = position + n /\ rtp_timestamp' = rtp_timestamp + n
      /\ packet_end_timestamp' = timeval_increment(packet_end_timestamp, SampleTime * n)
      /\ UNCHANGED <<options, iterator, pc, codec, transmission>>
    BY DEF EncodeFrame
<1>2. /\ codec \in Codec /\ b \in Nat \ {0} /\ n \in Nat \ {0}
      /\ position + n \in 0..file.samples /\ position \in Nat
    BY <1>1, ReadBounds DEF IInv
<1>3. /\ rtp_packet \in RtpPacket /\ frames_count \in Nat /\ frames_count < rtp_in_frame
      /\ rtp_timestamp \in Nat /\ rtp_packet.rtp_timestamp \in Nat
      /\ packet_end_timestamp \in Timeval /\ rtp_in_frame \in Nat
      /\ rtp_packet.lowlevel_timestamp \in Timeval
    BY InputAssumption DEF IInv, TypeOK, RtpPacket
<1>4. /\ packet \in RtpPacket
      /\ packet.sequence_number = rtp_packet.sequence_number
      /\ packet.rtp_timestamp = rtp_packet.rtp_timestamp
      /\ packet.lowlevel_timestamp = rtp_packet.lowlevel_timestamp
      /\ packet.markbit = rtp_packet.markbit
      /\ Len(f) = frames_count + 1
      /\ f[1].first \in Nat /\ f[1].first < position + n
      /\ f[Len(f)].first + f[Len(f)].samples = position + n
      /\ elapsed <= (frames_count + 1) * b
      /\ rtp_timestamp + n = rtp_packet.rtp_timestamp + elapsed
    BY <1>1, EncodedPacket
<1>5. elapsed \in Nat \ {0} /\ Samples(packet) = elapsed
    <2>1. Samples(packet) = (f[Len(f)].first + f[Len(f)].samples) - f[1].first
        BY DEF Samples
    <2> HIDE DEF packet, n
    <2> DEFINE first == f[1].first
               end == f[Len(f)].first + f[Len(f)].samples
    <2>2. /\ end = position + n /\ first \in Nat /\ first < end
          /\ elapsed = end - first
        BY <1>4
    <2>3. Samples(packet) = end - first
        BY <2>1
    <2>4. end \in Nat
        BY <1>2, <2>2
    <2> HIDE DEF first, end, elapsed
    <2> QED
        BY <2>2, <2>3, <2>4
<1>6. /\ packet_end_timestamp' \in Timeval
      /\ Micros(packet_end_timestamp')
           = Micros(rtp_packet.lowlevel_timestamp) + SampleTime * elapsed
    <2> DEFINE before == rtp_timestamp - rtp_packet.rtp_timestamp
    <2>1. SampleTime * n \in Nat
        BY <1>2, SampleTimeNat
    <2>2. /\ packet_end_timestamp' \in Timeval
          /\ Micros(packet_end_timestamp') = Micros(packet_end_timestamp) + SampleTime * n
        BY <1>1, <1>3, <2>1, IncrementExact
    <2>3. Micros(packet_end_timestamp)
            = Micros(rtp_packet.lowlevel_timestamp) + SampleTime * before
        BY <1>1 DEF IInv, CountersAhead
    <2>4. before \in Int /\ elapsed = before + n
        <3>1. n \in Nat /\ elapsed \in Nat
              /\ rtp_timestamp + n = rtp_packet.rtp_timestamp + elapsed
            BY <1>2, <1>4, <1>5
        <3> HIDE DEF elapsed, n
        <3> QED
            BY <1>3, <3>1
    <2>5. SampleTime * elapsed = SampleTime * before + SampleTime * n
          /\ SampleTime * before \in Int
        <3> HIDE DEF elapsed, before
        <3> QED
            BY <1>2, <2>4, SampleTimeNat
    <2>6. Micros(rtp_packet.lowlevel_timestamp) \in Nat
        BY <1>3, Fields
    <2> DEFINE d == SampleTime * before
               e == SampleTime * n
               u == SampleTime * elapsed
    <2>7. u = d + e /\ d \in Int /\ e \in Nat
        BY <2>1, <2>5
    <2>8. /\ Micros(packet_end_timestamp') = Micros(packet_end_timestamp) + e
          /\ Micros(packet_end_timestamp) = Micros(rtp_packet.lowlevel_timestamp) + d
        BY <2>2, <2>3
    <2> HIDE DEF d, e, u
    <2>9. Micros(packet_end_timestamp') = Micros(rtp_packet.lowlevel_timestamp) + u
        BY <2>6, <2>7, <2>8
    <2> QED
        BY <2>2, <2>9 DEF u
<1>7. /\ TypeOK /\ ProtocolInv /\ PacketContinues /\ CountersAhead
    BY DEF IInv
<1> HIDE DEF packet, n, b, elapsed
<1>8. CASE frames_count + 1 = rtp_in_frame
    <2>1. SendPacket(packet, rtp_timestamp', packet_end_timestamp')
        BY <1>8 DEF EncodeFrame, packet
    <2>2. Samples(packet) \in Nat \ {0}
        BY <1>2, <1>4, <1>5, <1>7, <1>8 DEF b
    <2>3. /\ Stream!Next
          /\ sent' \in Seq(RtpPacket) /\ rtp_packet' \in RtpPacket
          /\ sequence_number' \in Nat /\ frames_count' = 0
          /\ PacketContinues'
          /\ rtp_packet'.rtp_timestamp = rtp_timestamp'
          /\ rtp_packet'.lowlevel_timestamp = packet_end_timestamp'
          /\ frames' = <<>>
        <3>1. rtp_timestamp' \in Nat /\ rtp_timestamp' = packet.rtp_timestamp + Samples(packet)
            BY <1>1, <1>2, <1>3, <1>4, <1>5
        <3>2. Micros(packet_end_timestamp')
                = Micros(packet.lowlevel_timestamp) + SampleTime * Samples(packet)
            BY <1>4, <1>5, <1>6
        <3> QED
            BY <1>1, <1>2, <1>4, <1>6, <2>1, <2>2, <3>1, <3>2, PacketSent
    <2>4. TypeOK'
        BY <1>1, <1>2, <1>3, <1>6, <1>7, <2>3 DEF TypeOK, options, iterator
    <2>5. ProtocolInv'
        BY <1>1, <1>7 DEF ProtocolInv
    <2>6. CountersAhead'
        <3>1. Len(frames') = frames_count' /\ frames_count' = 0
            BY <2>3
        <3>2. SampleTime * (rtp_timestamp' - rtp_packet'.rtp_timestamp) = 0
            BY <1>1, <1>2, <1>3, <2>3, SampleTimeNat
        <3>3. Micros(packet_end_timestamp') \in Nat
            BY <1>6, Fields
        <3> QED
            BY <2>3, <3>1, <3>2, <3>3 DEF CountersAhead
    <2> QED
        BY <2>3, <2>4, <2>5, <2>6 DEF IInv
<1>9. CASE frames_count + 1 # rtp_in_frame
    <2>1. /\ frames_count' = frames_count + 1 /\ rtp_packet' = packet
          /\ UNCHANGED <<sequence_number, sent>>
        BY <1>9 DEF EncodeFrame, packet
    <2>2. TypeOK'
        BY <1>1, <1>2, <1>3, <1>4, <1>6, <1>7, <1>9, <2>1 DEF TypeOK, options, iterator
    <2>3. ProtocolInv'
        BY <1>1, <1>7 DEF ProtocolInv
    <2>4. PacketContinues'
        BY <1>1, <1>4, <1>7, <2>1 DEF PacketContinues, options
    <2>5. CountersAhead'
        <3>1. /\ frames' = f /\ Len(f) = frames_count' /\ frames_count' > 0
              /\ codec' = codec
            BY <1>1, <1>3, <1>4, <2>1 DEF frames
        <3>2. /\ f[1].first < position'
              /\ position' - f[1].first <= frames_count' * buffer_size[codec]
              /\ f[frames_count'].first + f[frames_count'].samples = position'
              /\ rtp_timestamp' = rtp_packet'.rtp_timestamp + (position' - f[1].first)
            <4>1. position' - f[1].first = elapsed
                BY <1>1, <1>2, <1>4 DEF elapsed
            <4>2. elapsed <= frames_count' * buffer_size[codec]
                BY <1>4, <2>1 DEF b
            <4>3. f[1].first < position'
                BY <1>1, <1>4
            <4>4. f[frames_count'].first + f[frames_count'].samples = position'
                BY <1>1, <1>4, <2>1
            <4>5. rtp_timestamp' = rtp_packet'.rtp_timestamp + elapsed
                BY <1>1, <1>4, <2>1
            <4> QED
                BY <4>1, <4>2, <4>3, <4>4, <4>5
        <3>3. rtp_timestamp' - rtp_packet'.rtp_timestamp = elapsed
            BY <1>1, <1>3, <1>4, <1>5, <2>1
        <3>4. Micros(packet_end_timestamp')
                = Micros(rtp_packet'.lowlevel_timestamp)
                    + SampleTime * (rtp_timestamp' - rtp_packet'.rtp_timestamp)
            BY <1>4, <1>6, <2>1, <3>3
        <3> QED
            BY <1>2, <3>1, <3>2, <3>4 DEF CountersAhead
    <2>6. UNCHANGED Stream!vars
        BY <1>1, <2>1 DEF Stream!vars, options
    <2> QED
        BY <2>2, <2>3, <2>4, <2>5, <2>6 DEF IInv
<1> QED
    BY <1>8, <1>9

LEMMA StartStep ==
    ASSUME IInv, Start
    PROVE  IInv' /\ Stream!Next
<1>1. /\ pc = "start" /\ FirstCodec # NoCodec /\ codec' = FirstCodec
      /\ iter_active' = (codec_list # <<>>)
      /\ iter_pos' = IF codec_list = <<>> THEN 0 ELSE 1
      /\ rtp_packet' = wr_rtp_packet_init(payload_type[FirstCodec], sequence_number, 1,
                                          rtp_timestamp, start_time)
      /\ transmission' = "started" /\ pc' = "loop"
      /\ UNCHANGED <<options, position, counters, sent>>
    BY DEF Start
<1>2. TypeOK /\ ProtocolInv
    BY DEF IInv
<1>3. codec_list \in Seq(Codec) /\ file.format \in Codec \cup {NoCodec}
    BY <1>2, CodecAssumption, InputAssumption DEF TypeOK
<1>4. FirstCodec \in Codec /\ payload_type[FirstCodec] \in Nat
    BY <1>1, <1>3, CodecAssumption DEF FirstCodec
<1>5. /\ transmission = "none" /\ sent = <<>> /\ sequence_number = 0
      /\ rtp_timestamp = 0 /\ frames_count = 0 /\ packet_end_timestamp = start_time
    BY <1>1, <1>2 DEF ProtocolInv
<1>6. start_time \in Timeval
    BY <1>2, InputAssumption DEF TypeOK
<1>7. rtp_packet' \in RtpPacket
    BY <1>1, <1>4, <1>5, <1>6 DEF RtpPacket, wr_rtp_packet_init
<1>8. TypeOK'
    <2>1. iter_pos' \in 0..Len(codec_list)
        BY <1>1, <1>3
    <2> QED
        BY <1>1, <1>2, <1>4, <1>7, <2>1 DEF TypeOK, options, counters
<1>9. ProtocolInv'
    BY <1>1 DEF ProtocolInv
<1>10. PacketContinues'
    BY <1>1, <1>5 DEF PacketContinues, wr_rtp_packet_init, options, counters
<1>11. CountersAhead'
    <2>1. /\ frames' = <<>> /\ frames_count' = 0 /\ rtp_timestamp' = 0
          /\ rtp_packet'.rtp_timestamp = 0
          /\ packet_end_timestamp' = start_time
          /\ rtp_packet'.lowlevel_timestamp = start_time
        BY <1>1, <1>5 DEF wr_rtp_packet_init, frames, counters
    <2>2. SampleTime * (rtp_timestamp' - rtp_packet'.rtp_timestamp) = 0
        BY <2>1, SampleTimeNat
    <2>3. Micros(start_time) \in Nat
        BY <1>6, Fields
    <2> QED
        BY <2>1, <2>2, <2>3 DEF CountersAhead
<1>12. Stream!Next
    BY <1>1, <1>5 DEF Stream!Next, Stream!Start, options
<1> QED
    BY <1>8, <1>9, <1>10, <1>11, <1>12 DEF IInv

LEMMA EndOfFileStep ==
    ASSUME IInv, EndOfFile
    PROVE  IInv' /\ (Stream!Next \/ UNCHANGED Stream!vars)
<1>1. /\ pc = "loop" /\ codec # NoCodec /\ position' = 0
      /\ UNCHANGED <<options, pc, rtp_timestamp, packet_end_timestamp, transmission>>
    BY DEF EndOfFile
<1>2. TypeOK /\ ProtocolInv /\ PacketContinues /\ CountersAhead
    BY DEF IInv
<1>3. /\ codec_list \in Seq(Codec) /\ codec \in Codec
      /\ file.samples \in Nat /\ position \in Nat
      /\ rtp_in_frame \in Nat \ {0}
    BY <1>1, <1>2, CodecAssumption, InputAssumption DEF TypeOK
<1>4. /\ codec' \in Codec \cup {NoCodec}
      /\ iter_active' \in BOOLEAN /\ iter_pos' \in 0..Len(codec_list)
    <2>1. iter_active \in BOOLEAN /\ iter_pos \in 0..Len(codec_list)
        BY <1>2 DEF TypeOK
    <2>2. codec_list' = codec_list
        BY <1>1 DEF options
    <2>3. CASE iter_active /\ iter_pos < Len(codec_list)
        <3>1. /\ codec' = codec_list[iter_pos + 1] /\ iter_pos' = iter_pos + 1
              /\ iter_active' = iter_active
            BY <2>3 DEF EndOfFile, NextCodec
        <3>2. iter_pos + 1 \in 1..Len(codec_list)
            BY <1>3, <2>1, <2>3
        <3> QED
            BY <1>3, <2>1, <3>1, <3>2
    <2>4. CASE ~(iter_active /\ iter_pos < Len(codec_list))
        <3>1. codec' = NoCodec /\ iter_active' = FALSE /\ iter_pos' = 0
            BY <2>4 DEF EndOfFile, NextCodec
        <3>2. 0 \in 0..Len(codec_list)
            BY <1>3
        <3> QED
            BY <3>1, <3>2, Zenon
    <2> QED
        BY <2>3, <2>4
<1>5. /\ rtp_packet \in RtpPacket /\ frames \in Seq(Frame)
      /\ rtp_timestamp \in Nat /\ rtp_packet.rtp_timestamp \in Nat
      /\ packet_end_timestamp \in Timeval /\ frames_count \in Nat
      /\ frames_count < rtp_in_frame
    BY <1>2 DEF TypeOK, RtpPacket, frames
<1>6. ASSUME NEW P, P = rtp_packet', NEW s, s = sent', P \in RtpPacket,
             s \in Seq(RtpPacket), sequence_number' \in Nat, frames_count' = 0
      PROVE  TypeOK'
    BY <1>1, <1>2, <1>3, <1>4, <1>6 DEF TypeOK, options
<1>7. ProtocolInv'
    BY <1>1, <1>2 DEF ProtocolInv
<1>8. CASE frames_count > 0
    <2> DEFINE elapsed == position - frames[1].first
    <2>1. SendPacket(rtp_packet, rtp_timestamp, packet_end_timestamp)
        BY <1>8 DEF EndOfFile, FlushPacket
    <2>2. /\ Len(frames) = frames_count /\ frames[1] \in Frame
          /\ frames[1].first < position /\ elapsed <= frames_count * buffer_size[codec]
          /\ frames[frames_count].first + frames[frames_count].samples = position
          /\ rtp_timestamp = rtp_packet.rtp_timestamp + elapsed
        BY <1>1, <1>2, <1>5, <1>8 DEF CountersAhead
    <2>3. elapsed \in Nat \ {0} /\ Samples(rtp_packet) = elapsed
        BY <1>3, <2>2 DEF Samples, Frame, frames
    <2>5. Samples(rtp_packet) \in Nat \ {0}
        BY <2>3
    <2>6. rtp_timestamp - rtp_packet.rtp_timestamp = elapsed
        <3> HIDE DEF elapsed
        <3> QED
            BY <1>5, <2>2, <2>3
    <2>7. Micros(packet_end_timestamp)
            = Micros(rtp_packet.lowlevel_timestamp) + SampleTime * Samples(rtp_packet)
        BY <1>1, <1>2, <2>3, <2>6 DEF CountersAhead
    <2> HIDE DEF elapsed
    <2>8. /\ Stream!Next
          /\ sent' \in Seq(RtpPacket) /\ rtp_packet' \in RtpPacket
          /\ sequence_number' \in Nat /\ frames_count' = 0
          /\ PacketContinues'
          /\ rtp_packet'.rtp_timestamp = rtp_timestamp
          /\ rtp_packet'.lowlevel_timestamp = packet_end_timestamp
          /\ frames' = <<>>
        BY <1>1, <1>3, <1>5, <2>1, <2>2, <2>3, <2>5, <2>7, PacketSent
    <2>9. TypeOK'
        BY <1>6, <2>8
    <2>10. CountersAhead'
        <3>1. SampleTime * (rtp_timestamp' - rtp_packet'.rtp_timestamp) = 0
            BY <1>1, <1>5, <2>8, SampleTimeNat
        <3>2. Micros(packet_end_timestamp) \in Nat
            BY <1>5, Fields
        <3> QED
            BY <1>1, <2>8, <3>1, <3>2 DEF CountersAhead
    <2> QED
        BY <1>7, <2>8, <2>9, <2>10 DEF IInv
<1>9. CASE frames_count = 0
    <2>1. UNCHANGED <<sent, frames_count, sequence_number, rtp_packet>>
        BY <1>9 DEF EndOfFile, FlushPacket
    <2>2. TypeOK'
        BY <1>2, <1>6, <1>9, <2>1 DEF TypeOK
    <2>3. PacketContinues'
        BY <1>1, <1>2, <2>1 DEF PacketContinues, options
    <2>4. CountersAhead'
        BY <1>1, <1>2, <1>9, <2>1 DEF CountersAhead, frames
    <2>5. UNCHANGED Stream!vars
        BY <1>1, <2>1 DEF Stream!vars, options
    <2> QED
        BY <1>7, <2>2, <2>3, <2>4, <2>5 DEF IInv
<1> QED
    BY <1>5, <1>8, <1>9

LEMMA Step ==
    ASSUME IInv, [Next]_vars
    PROVE  IInv' /\ [Stream!Next]_(Stream!vars)
<1>1. CASE Start
    BY <1>1, StartStep
<1>2. CASE Fail
    <2>1. /\ pc = "start" /\ pc' = "failed"
          /\ UNCHANGED <<options, iterator, codec, position, rtp_packet, counters,
                         transmission, sent>>
        BY <1>2 DEF Fail
    <2>2. IInv'
        BY <2>1 DEF IInv, TypeOK, ProtocolInv, PacketContinues, CountersAhead,
                    options, iterator, counters
    <2>3. UNCHANGED Stream!vars
        BY <2>1 DEF Stream!vars, options
    <2> QED
        BY <2>2, <2>3
<1>3. CASE EncodeFrame
    BY <1>3, EncodeFrameStep
<1>4. CASE EndOfFile
    BY <1>4, EndOfFileStep
<1>5. CASE Finish
    <2>1. /\ pc = "loop" /\ pc' = "done" /\ transmission' = "ended"
          /\ UNCHANGED <<options, iterator, codec, position, rtp_packet, counters, sent>>
        BY <1>5 DEF Finish
    <2>2. IInv'
        BY <2>1 DEF IInv, TypeOK, ProtocolInv, PacketContinues, CountersAhead,
                    options, iterator, counters
    <2>3. Stream!End
        BY <2>1 DEF Stream!End, IInv, ProtocolInv, options
    <2> QED
        BY <2>2, <2>3 DEF Stream!Next
<1>6. CASE UNCHANGED vars
    <2>1. IInv'
        BY <1>6 DEF IInv, TypeOK, ProtocolInv, PacketContinues, CountersAhead, frames,
                    Samples, vars, options, iterator, counters
    <2>2. UNCHANGED Stream!vars
        BY <1>6 DEF Stream!vars, vars, options
    <2> QED
        BY <2>1, <2>2
<1> QED
    BY <1>1, <1>2, <1>3, <1>4, <1>5, <1>6 DEF Next

\* The source's variables keep their types whatever codecs, files and options
\* it runs with; the read position never leaves the file (wavfile_filter.c:53-150).
THEOREM TypeCorrect == Spec => []TypeOK
<1>1. Init => IInv
    BY InitEstablishes
<1>2. IInv /\ [Next]_vars => IInv'
    BY Step
<1>3. IInv => TypeOK
    BY DEF IInv
<1> QED
    BY <1>1, <1>2, <1>3, PTL DEF Spec

\* The packets the source sends are one continuous RTP stream, for any codecs
\* and buffer sizes, files, codec lists and frames per packet
\* (wavfile_filter.c:105-147).
THEOREM SendsOneStream == Spec => ImplementsRtpStream
<1>1. Init => IInv /\ Stream!Init
    BY InitEstablishes
<1>2. IInv /\ [Next]_vars => IInv' /\ [Stream!Next]_(Stream!vars)
    BY Step
<1> QED
    BY <1>1, <1>2, PTL DEF Spec, ImplementsRtpStream, Stream!Spec

--------------------------------------------------------------------------------
(* What follows from the contract: the source's stream never loses step.      *)

\* The headers the observers saw, t microseconds per sample from the time o on.
Sent == [k \in 1..Len(sent) |-> HeaderOf(sent[k])]

InStep(s, o, t) ==
    /\ o \in Nat /\ t \in Nat
    /\ s \in Seq(Stream!Headers)
    /\ \A k \in 1..Len(s) :
           /\ s[k].sequence_number = k - 1
           /\ s[k].markbit = IF k = 1 THEN 1 ELSE 0
           /\ s[k].micros = o + t * s[k].rtp_timestamp
    /\ \A j, k \in 1..Len(s) : j < k => s[j].rtp_timestamp + s[j].samples <= s[k].rtp_timestamp

\* h, of n samples, follows s.
Follows(h, s, t, o, n) ==
    h = IF s = <<>> THEN Stream!Header(0, 0, o, 1, n)
        ELSE LET last == s[Len(s)] IN
             Stream!Header(last.sequence_number + 1, last.rtp_timestamp + last.samples,
                           last.micros + t * last.samples, 0, n)

\* The next packet continues the stream.
LEMMA NextHeaderContinues ==
    ASSUME NEW s, NEW o, NEW t, InStep(s, o, t), NEW n \in Nat \ {0},
           NEW h, Follows(h, s, t, o, n)
    PROVE  /\ h \in Stream!Headers /\ h.samples = n
           /\ h.sequence_number = Len(s)
           /\ h.markbit = IF s = <<>> THEN 1 ELSE 0
           /\ h.micros = o + t * h.rtp_timestamp
           /\ \A j \in 1..Len(s) : s[j].rtp_timestamp + s[j].samples <= h.rtp_timestamp
<1>1. PICK k \in Nat : k = Len(s)
    BY DEF InStep
<1>2. /\ o \in Nat /\ t \in Nat /\ s \in Seq(Stream!Headers) /\ n \in Nat
      /\ (s = <<>> <=> k = 0)
    BY <1>1 DEF InStep
<1>3. CASE s = <<>>
    <2>1. h = [sequence_number |-> 0, rtp_timestamp |-> 0, micros |-> o, markbit |-> 1,
               samples |-> n]
        BY <1>3, Zenon DEF Follows, Stream!Header
    <2>2. k = 0 /\ t * 0 = 0
        BY <1>2, <1>3
    <2> QED
        BY <1>1, <1>2, <1>3, <2>1, <2>2 DEF Stream!Headers
<1>4. CASE s # <<>>
    <2>1. k \in 1..k
        BY <1>2, <1>4
    <2>2. PICK last : last = s[k]
        OBVIOUS
    <2>3. last \in Stream!Headers
        BY <1>1, <1>2, <2>1, <2>2
    <2>4. /\ last.sequence_number \in Nat /\ last.rtp_timestamp \in Nat
          /\ last.micros \in Nat /\ last.samples \in Nat
        BY <2>3 DEF Stream!Headers
    <2>5. /\ last.sequence_number = k - 1
          /\ last.micros = o + t * last.rtp_timestamp
        BY <1>1, <2>1, <2>2 DEF InStep
    <2>6. h = Stream!Header(last.sequence_number + 1, last.rtp_timestamp + last.samples,
                            last.micros + t * last.samples, 0, n)
        BY <1>1, <1>4, <2>2, Zenon DEF Follows
    <2>7. PICK q \in Nat : q = t * last.samples
        BY <1>2, <2>4
    <2>8. /\ h.sequence_number = last.sequence_number + 1
          /\ h.rtp_timestamp = last.rtp_timestamp + last.samples
          /\ h.micros = last.micros + q /\ h.markbit = 0 /\ h.samples = n
          /\ h = [sequence_number |-> last.sequence_number + 1,
                  rtp_timestamp |-> last.rtp_timestamp + last.samples,
                  micros |-> last.micros + q, markbit |-> 0, samples |-> n]
        BY <2>6, <2>7 DEF Stream!Header
    <2>9. h \in Stream!Headers
        <3>1. /\ last.sequence_number + 1 \in Nat /\ last.rtp_timestamp + last.samples \in Nat
              /\ last.micros + q \in Nat /\ 0 \in {0, 1}
            BY <2>4, <2>7
        <3> QED
            BY <2>8, <3>1 DEF Stream!Headers
    <2>10. h.micros = o + t * h.rtp_timestamp
        <3>1. t * (last.rtp_timestamp + last.samples) = t * last.rtp_timestamp + t * last.samples
            BY <1>2, <2>4
        <3>2. PICK u \in Nat : u = t * last.rtp_timestamp
            BY <1>2, <2>4
        <3>3. t * h.rtp_timestamp = u + q
            BY <2>7, <2>8, <3>1, <3>2
        <3>4. h.micros = (o + u) + q
            BY <2>5, <2>8, <3>2
        <3> QED
            BY <1>2, <2>7, <3>2, <3>3, <3>4
    <2>11. ASSUME NEW j \in 1..k
           PROVE  s[j].rtp_timestamp + s[j].samples <= h.rtp_timestamp
        <3>1. s[j] \in Stream!Headers
            BY <1>1, <1>2
        <3>2. s[j].rtp_timestamp \in Nat /\ s[j].samples \in Nat
            BY <3>1 DEF Stream!Headers
        <3>3. CASE j = k
            BY <2>2, <2>4, <2>8, <3>2, <3>3
        <3>4. CASE j < k
            <4>1. s[j].rtp_timestamp + s[j].samples <= last.rtp_timestamp
                BY <1>1, <2>1, <2>2, <3>4 DEF InStep
            <4> QED
                BY <2>4, <2>8, <3>2, <4>1
        <3> QED
            BY <3>3, <3>4
    <2>12. h.sequence_number = k
        BY <2>5, <2>8
    <2> QED
        BY <1>1, <1>4, <2>8, <2>9, <2>10, <2>11, <2>12
<1> QED
    BY <1>3, <1>4

\* A stream that is in step stays so with its next packet.
LEMMA SentInStep ==
    ASSUME NEW s, NEW o, NEW t, InStep(s, o, t), NEW n \in Nat \ {0},
           NEW h, Follows(h, s, t, o, n)
    PROVE  InStep(Append(s, h), o, t)
<1>1. PICK k \in Nat : k = Len(s)
    BY DEF InStep
<1>2. o \in Nat /\ t \in Nat /\ s \in Seq(Stream!Headers) /\ (s = <<>> <=> k = 0)
    BY <1>1 DEF InStep
<1>3. /\ h \in Stream!Headers /\ h.sequence_number = k
      /\ h.markbit = IF s = <<>> THEN 1 ELSE 0
      /\ h.micros = o + t * h.rtp_timestamp
      /\ \A j \in 1..k : s[j].rtp_timestamp + s[j].samples <= h.rtp_timestamp
    BY <1>1, NextHeaderContinues
<1>4. PICK w : w = Append(s, h)
    OBVIOUS
<1>5. /\ w \in Seq(Stream!Headers) /\ Len(w) = k + 1
      /\ \A j \in 1..k : w[j] = s[j]
      /\ w[k + 1] = h
    BY <1>1, <1>2, <1>3, <1>4
<1>6. \A j \in 1..k : /\ s[j].sequence_number = j - 1
                      /\ s[j].markbit = IF j = 1 THEN 1 ELSE 0
                      /\ s[j].micros = o + t * s[j].rtp_timestamp
    BY <1>1, Zenon DEF InStep
<1>7. \A i, j \in 1..k : i < j => s[i].rtp_timestamp + s[i].samples <= s[j].rtp_timestamp
    BY <1>1, Zenon DEF InStep
<1>8. \A j \in 1..(k + 1) : j \in 1..k \/ j = k + 1
    OBVIOUS
<1>9. \A j \in 1..(k + 1) : /\ w[j].sequence_number = j - 1
                            /\ w[j].markbit = IF j = 1 THEN 1 ELSE 0
                            /\ w[j].micros = o + t * w[j].rtp_timestamp
    <2>1. ASSUME NEW j \in 1..k
          PROVE  /\ w[j].sequence_number = j - 1
                 /\ w[j].markbit = IF j = 1 THEN 1 ELSE 0
                 /\ w[j].micros = o + t * w[j].rtp_timestamp
        BY <1>5, <1>6, Zenon
    <2>2. ASSUME NEW j \in 1..(k + 1), j = k + 1
          PROVE  /\ w[j].sequence_number = j - 1
                 /\ w[j].markbit = IF j = 1 THEN 1 ELSE 0
                 /\ w[j].micros = o + t * w[j].rtp_timestamp
        <3>1. w[j] = h /\ k = j - 1 /\ (s = <<>> <=> j = 1)
            BY <1>2, <1>5, <2>2
        <3> QED
            BY <1>3, <3>1, Zenon
    <2> QED
        BY <1>8, <2>1, <2>2
<1>10. ASSUME NEW i \in 1..(k + 1), NEW j \in 1..(k + 1), i < j
       PROVE  w[i].rtp_timestamp + w[i].samples <= w[j].rtp_timestamp
    <2>1. i \in 1..k
        BY <1>10
    <2>2. CASE j \in 1..k
        BY <1>5, <1>7, <1>10, <2>1, <2>2, Zenon
    <2>3. CASE j = k + 1
        BY <1>3, <1>5, <2>1, <2>3, Zenon
    <2> QED
        BY <1>8, <2>2, <2>3
<1> QED
    <2>1. InStep(w, o, t)
        BY <1>2, <1>5, <1>9, <1>10 DEF InStep
    <2> QED
        BY <1>4, <2>1, Zenon

\* What the contract makes of the headers.
SInv == InStep(Sent, Micros(start_time), SampleTime)

\* Before the first packet.
LEMMA SentInitially ==
    ASSUME Stream!Init
    PROVE  SInv
<1>1. PICK s, o, t : s = Sent /\ o = Micros(start_time) /\ t = SampleTime
    OBVIOUS
<1>2. s = <<>> /\ o \in Nat /\ t \in Nat
    BY <1>1, Zenon DEF Stream!Init, Sent
<1>3. InStep(s, o, t)
    BY <1>2 DEF InStep
<1> QED
    BY <1>1, <1>3, Zenon DEF SInv

\* Whatever the contract allows.
LEMMA SentStep ==
    ASSUME SInv, [Stream!Next]_(Stream!vars)
    PROVE  SInv'
<1>1. PICK s, o, t : /\ s = Sent /\ o = Micros(start_time) /\ t = SampleTime
                     /\ InStep(s, o, t)
    BY DEF SInv
<1>2. PICK w : w = Sent'
    OBVIOUS
<1>3. t = SampleTime'
    BY <1>1 DEF SampleTime
<1>4. ASSUME w = s, o = Micros(start_time)' PROVE SInv'
    <2>1. w = Sent' /\ InStep(w, o, t)
        BY <1>1, <1>2, <1>4, Zenon
    <2> QED
        BY <1>3, <1>4, <2>1 DEF SInv
<1>5. CASE Stream!Start
    BY <1>1, <1>2, <1>4, <1>5, Zenon DEF Stream!Start, Sent
<1>6. CASE Stream!End
    BY <1>1, <1>2, <1>4, <1>6, Zenon DEF Stream!End, Sent
<1>7. CASE UNCHANGED Stream!vars
    BY <1>1, <1>2, <1>4, <1>7, Zenon DEF Stream!vars, Sent
<1>8. CASE Stream!Send
    <2>1. o = Micros(start_time)'
        BY <1>1, <1>8, Zenon DEF Stream!Send
    <2>2. PICK n \in Nat \ {0} : w = Append(s, Stream!NextHeader(n))
        BY <1>1, <1>2, <1>8, Zenon DEF Stream!Send, Sent
    <2>3. PICK h : h = Stream!NextHeader(n)
        OBVIOUS
    <2>4. Follows(h, s, t, o, n)
        <3>1. Sent = <<>> => h = Stream!Header(0, 0, Micros(start_time), 1, n)
            BY <2>3, Zenon DEF Stream!NextHeader, Sent
        <3>2. Sent # <<>> =>
                  h = Stream!Header(Sent[Len(Sent)].sequence_number + 1,
                          Sent[Len(Sent)].rtp_timestamp + Sent[Len(Sent)].samples,
                          Sent[Len(Sent)].micros + SampleTime * Sent[Len(Sent)].samples, 0, n)
            BY <2>3, Zenon DEF Stream!NextHeader, Sent
        <3> QED
            BY <1>1, <3>1, <3>2, Zenon DEF Follows
    <2>5. InStep(Append(s, h), o, t)
        BY <1>1, <2>4, SentInStep
    <2>6. InStep(w, o, t)
        BY <2>2, <2>3, <2>5, Zenon
    <2>7. w = Sent'
        BY <1>2
    <2> QED
        BY <1>3, <2>1, <2>6, <2>7 DEF SInv
<1> QED
    BY <1>5, <1>6, <1>7, <1>8 DEF Stream!Next

\* In step is what the contract's properties say.
LEMMA InStepSays ==
    ASSUME SInv
    PROVE  Stream!Synchronised /\ Stream!Disjoint
<1>1. PICK s, o, t : /\ s = Sent /\ o = Micros(start_time) /\ t = SampleTime
                     /\ InStep(s, o, t)
    BY DEF SInv
<1>2. DOMAIN s = 1..Len(s)
    BY <1>1 DEF InStep
<1>3. \A k \in DOMAIN s :
          /\ s[k].sequence_number = k - 1
          /\ s[k].markbit = IF k = 1 THEN 1 ELSE 0
          /\ s[k].micros = o + t * s[k].rtp_timestamp
    BY <1>1, <1>2, Zenon DEF InStep
<1>4. \A j, k \in DOMAIN s : j < k => s[j].rtp_timestamp + s[j].samples <= s[k].rtp_timestamp
    BY <1>1, <1>2, Zenon DEF InStep
<1>5. Stream!Synchronised
    BY <1>1, <1>3, Zenon DEF Stream!Synchronised, Sent
<1>6. Stream!Disjoint
    BY <1>1, <1>4, Zenon DEF Stream!Disjoint, Sent
<1> QED
    BY <1>5, <1>6

\* The source keeps the contract, and the contract keeps the stream in step.
LEMMA AlwaysInStep == Spec => []SInv
<1>1. Init => Stream!Init
    BY InitEstablishes
<1>2. IInv /\ [Next]_vars => IInv' /\ [Stream!Next]_(Stream!vars)
    BY Step
<1>3. Init => IInv
    BY InitEstablishes
<1>4. Stream!Init => SInv
    BY SentInitially
<1>5. SInv /\ [Stream!Next]_(Stream!vars) => SInv'
    BY SentStep
<1> QED
    BY <1>1, <1>2, <1>3, <1>4, <1>5, PTL DEF Spec

\* Sequence numbers count the packets the source sends, and a packet leaves as long
\* after the first as its RTP timestamp says, in a stream of any length
\* (wavfile_filter.c:105-147).
THEOREM StreamSynchronised == Spec => []Stream!Synchronised
<1>1. SInv => Stream!Synchronised
    BY InStepSays
<1> QED
    BY <1>1, AlwaysInStep, PTL

\* No two packets the source sends cover the same RTP time (wavfile_filter.c:136).
THEOREM StreamDisjoint == Spec => []Stream!Disjoint
<1>1. SInv => Stream!Disjoint
    BY InStepSays
<1> QED
    BY <1>1, AlwaysInStep, PTL

--------------------------------------------------------------------------------
(* What the packets carry.                                                   *)

CodecOf(packet) == packet.data_frames[1].codec

\* A packet of n frames, or of fewer up to the last of m samples.
IsFilled(packet, n, m) ==
    LET f == packet.data_frames IN
    /\ 1 <= Len(f) /\ Len(f) <= n
    /\ \A i \in DOMAIN f : f[i].codec = f[1].codec
    /\ Len(f) < n => f[Len(f)].first + f[Len(f)].samples = m

\* The payload type of a packet that follows those of s is its codec's, or that of the packet
\* before and then its first frame is the first one of the file.
HasType(packet, s) ==
    \/ packet.payload_type = payload_type[CodecOf(packet)]
    \/ /\ s # <<>> /\ packet.data_frames[1].first = 0
       /\ packet.payload_type = payload_type[CodecOf(s[Len(s)])]

\* Where the first frame of the packet under construction begins, or will.
PacketStart == IF frames_count = 0 THEN position ELSE frames[1].first

\* The frames under construction are of the current codec, and so is the packet's type
\* unless it was begun in the pass before, which has sent a packet if the file has samples.
PacketBuilt ==
    pc = "loop" /\ codec # NoCodec =>
        /\ \A i \in DOMAIN frames : frames[i].codec = codec
        /\ file.samples > 0 =>
               /\ frames_count = 0 /\ position > 0 =>
                      sent # <<>> /\ CodecOf(sent[Len(sent)]) = codec
               /\ \/ rtp_packet.payload_type = payload_type[codec]
                  \/ /\ sent # <<>> /\ PacketStart = 0
                     /\ rtp_packet.payload_type = payload_type[CodecOf(sent[Len(sent)])]

\* The iterator is released with the last codec of the list.
IteratorStopped ==
    /\ pc = "loop" /\ codec = NoCodec => ~iter_active
    /\ pc = "done" => ~iter_active

AtBeginning == pc = "start" => position = 0

PacketsSent == PacketsAreFilled /\ StaleTypeOnlyAtSwitch

CInv == PacketsSent /\ PacketBuilt /\ IteratorStopped /\ AtBeginning

\* One more packet is sent that is filled and typed as it should be.
LEMMA OneMorePacket ==
    ASSUME PacketsSent, sent \in Seq(RtpPacket), NEW p \in RtpPacket, sent' = Append(sent, p),
           file' = file, rtp_in_frame' = rtp_in_frame,
           IsFilled(p, rtp_in_frame, file.samples), HasType(p, sent)
    PROVE  PacketsSent' /\ sent' # <<>> /\ sent'[Len(sent')] = p
<1>1. PICK n \in Nat : n = Len(sent)
    OBVIOUS
<1>2. PICK s \in Seq(RtpPacket) : s = sent
    OBVIOUS
<1>3. PICK t \in Seq(RtpPacket) : t = sent' /\ t = Append(s, p)
    <2>1. Append(s, p) \in Seq(RtpPacket)
        OBVIOUS
    <2> QED
        BY <2>1, <1>2
<1>4. /\ DOMAIN s = 1..n /\ DOMAIN t = 1..(n + 1) /\ Len(t) = n + 1 /\ t[n + 1] = p
      /\ \A k \in 1..n : t[k] = s[k] /\ (k > 1 => k - 1 \in 1..n)
      /\ \A k \in 1..(n + 1) : k \in 1..n \/ k = n + 1
    BY <1>1, <1>2, <1>3
<1>5. \A k \in 1..(n + 1) : IsFilled(t[k], rtp_in_frame, file.samples)
    <2>1. \A k \in 1..n : IsFilled(s[k], rtp_in_frame, file.samples)
        BY <1>2, <1>4 DEF PacketsSent, PacketsAreFilled, IsFilled
    <2> QED
        BY <2>1, <1>4
<1>6. PacketsAreFilled'
    BY <1>3, <1>4, <1>5 DEF PacketsAreFilled, IsFilled
<1>7. ASSUME NEW k \in 1..(n + 1)
      PROVE  \/ t[k].payload_type = payload_type[CodecOf(t[k])]
             \/ /\ k > 1 /\ t[k].data_frames[1].first = 0
                /\ t[k].payload_type = payload_type[CodecOf(t[k - 1])]
    <2>1. CASE k \in 1..n
        <3>1. \/ s[k].payload_type = payload_type[CodecOf(s[k])]
              \/ /\ k > 1 /\ s[k].data_frames[1].first = 0
                 /\ s[k].payload_type = payload_type[CodecOf(s[k - 1])]
            BY <2>1, <1>2, <1>4 DEF PacketsSent, StaleTypeOnlyAtSwitch, CodecOf
        <3> QED
            BY <2>1, <3>1, <1>4
    <2>2. CASE k = n + 1
        <3>1. HasType(p, s) /\ Len(s) = n /\ (n + 1) - 1 = n
            BY <1>1, <1>2
        <3>2. s # <<>> => n + 1 > 1 /\ n \in 1..n
            BY <1>1, <1>2
        <3> QED
            BY <2>2, <3>1, <3>2, <1>4 DEF HasType
    <2> QED
        BY <2>1, <2>2, <1>4
<1>8. StaleTypeOnlyAtSwitch'
    BY <1>3, <1>4, <1>7 DEF StaleTypeOnlyAtSwitch, CodecOf
<1>9. sent' # <<>> /\ sent'[Len(sent')] = p
    BY <1>3, <1>4
<1> QED
    BY <1>6, <1>8, <1>9 DEF PacketsSent

\* A frame is encoded: the packet is sent when it is full.
LEMMA CodecEncode ==
    ASSUME IInv, CInv, EncodeFrame
    PROVE  CInv'
<1>1. /\ pc = "loop" /\ codec # NoCodec /\ SamplesRead > 0
      /\ position' = position + SamplesRead
      /\ UNCHANGED <<options, iterator, pc, codec, transmission>>
    BY DEF EncodeFrame
<1>2. /\ codec \in Codec /\ SamplesRead \in Nat \ {0} /\ position \in Nat
      /\ position + SamplesRead \in 0..file.samples
    BY <1>1, ReadBounds DEF IInv
<1>3. PICK packet : packet = wr_rtp_packet_add_frame(rtp_packet, NextFrame)
    OBVIOUS
<1>4. PICK f : f = packet.data_frames
    OBVIOUS
<1>5. /\ frames \in Seq(Frame) /\ Len(frames) = frames_count /\ frames_count \in Nat
      /\ frames_count < rtp_in_frame /\ rtp_in_frame \in Nat /\ rtp_packet \in RtpPacket
      /\ sent \in Seq(RtpPacket) /\ file.samples \in Nat
    BY <1>1, InputAssumption DEF IInv, TypeOK, RtpPacket, frames, CountersAhead
<1>6. NextFrame \in Frame /\ NextFrame.first = position /\ NextFrame.codec = codec
    BY <1>2, MillisecondsNat DEF NextFrame, Frame
<1>7. /\ packet \in RtpPacket /\ f \in Seq(Frame) /\ Len(f) = frames_count + 1
      /\ packet.payload_type = rtp_packet.payload_type
    BY <1>1, <1>3, <1>4, <1>5, EncodedPacket DEF wr_rtp_packet_add_frame, RtpPacket
<1>8. f = Append(frames, NextFrame)
    BY <1>3, <1>4, <1>5 DEF wr_rtp_packet_add_frame, RtpPacket, frames
<1>9. \A i \in 1..(frames_count + 1) :
          f[i] = IF i = frames_count + 1 THEN NextFrame ELSE frames[i]
    BY <1>5, <1>6, <1>8
<1>10. \A i \in DOMAIN f : f[i].codec = codec
    <2>1. \A i \in DOMAIN frames : frames[i].codec = codec
        BY <1>1 DEF CInv, PacketBuilt
    <2>2. DOMAIN frames = 1..frames_count /\ DOMAIN f = 1..(frames_count + 1)
        BY <1>5, <1>7
    <2>3. \A i \in 1..(frames_count + 1) : i # frames_count + 1 => i \in 1..frames_count
        BY <1>5
    <2> QED
        BY <2>1, <2>2, <2>3, <1>6, <1>9
<1>11. 1 \in 1..(frames_count + 1) /\ f[1].codec = codec /\ f[1].first = PacketStart
    <2>1. 1 \in 1..(frames_count + 1) /\ DOMAIN f = 1..(frames_count + 1)
        BY <1>5, <1>7
    <2>2. 1 = frames_count + 1 <=> frames_count = 0
        BY <1>5
    <2> QED
        BY <2>1, <2>2, <1>6, <1>9, <1>10 DEF PacketStart
<1>12. file.samples > 0
    BY <1>2, <1>5
<1>13. HasType(packet, sent)
    <2>1. \/ rtp_packet.payload_type = payload_type[codec]
          \/ /\ sent # <<>> /\ PacketStart = 0
             /\ rtp_packet.payload_type = payload_type[CodecOf(sent[Len(sent)])]
        BY <1>1, <1>12 DEF CInv, PacketBuilt
    <2> QED
        BY <2>1, <1>4, <1>7, <1>11 DEF HasType, CodecOf
<1>14. file' = file /\ rtp_in_frame' = rtp_in_frame /\ codec' = codec /\ pc' = pc
       /\ iter_active' = iter_active
    BY <1>1 DEF options, iterator
<1>15. IteratorStopped'
    BY <1>1, <1>14 DEF IteratorStopped
<1>18. AtBeginning'
    BY <1>1, <1>14 DEF AtBeginning
<1>16. CASE frames_count + 1 = rtp_in_frame
    <2>1. SendPacket(packet, rtp_timestamp', packet_end_timestamp')
        BY <1>3, <1>16 DEF EncodeFrame
    <2>2. /\ sent' = Append(sent, packet) /\ frames_count' = 0
          /\ rtp_packet'.payload_type = payload_type[codec]
          /\ rtp_packet'.data_frames = <<>>
        BY <2>1 DEF SendPacket, wr_rtp_packet_init
    <2>3. IsFilled(packet, rtp_in_frame, file.samples)
        <3>1. Len(f) = rtp_in_frame /\ 1 <= Len(f)
            BY <1>5, <1>7, <1>16
        <3> QED
            BY <3>1, <1>4, <1>5, <1>10, <1>11 DEF IsFilled
    <2>4. PacketsSent' /\ sent' # <<>> /\ sent'[Len(sent')] = packet
        BY <2>2, <2>3, <1>5, <1>7, <1>13, <1>14, OneMorePacket DEF CInv
    <2>5. CodecOf(packet) = codec
        BY <1>4, <1>11 DEF CodecOf
    <2>6. PacketBuilt'
        BY <2>2, <2>4, <2>5, <1>14 DEF PacketBuilt, frames, CodecOf
    <2> QED
        BY <2>4, <2>6, <1>15, <1>18 DEF CInv
<1>17. CASE frames_count + 1 # rtp_in_frame
    <2>1. frames_count' = frames_count + 1 /\ rtp_packet' = packet /\ sent' = sent
        BY <1>3, <1>17 DEF EncodeFrame
    <2>2. frames_count' # 0
        BY <2>1, <1>5
    <2>3. PacketStart' = PacketStart /\ frames' = f
        BY <2>1, <2>2, <1>4, <1>11 DEF PacketStart, frames
    <2>4. PacketBuilt'
        BY <2>1, <2>2, <2>3, <1>1, <1>7, <1>10, <1>14 DEF CInv, PacketBuilt
    <2>5. PacketsSent'
        BY <2>1, <1>14 DEF CInv, PacketsSent, PacketsAreFilled, StaleTypeOnlyAtSwitch
    <2> QED
        BY <2>4, <2>5, <1>15, <1>18 DEF CInv
<1> QED
    BY <1>16, <1>17

\* The last packet of a pass is sent, and the codec changes.
LEMMA CodecEndOfFile ==
    ASSUME IInv, CInv, EndOfFile
    PROVE  CInv'
<1>1. /\ pc = "loop" /\ codec # NoCodec /\ SamplesRead = 0 /\ position' = 0
      /\ UNCHANGED <<options, pc, rtp_timestamp, packet_end_timestamp, transmission>>
      /\ FlushPacket /\ NextCodec
    BY DEF EndOfFile
<1>2. /\ codec \in Codec /\ buffer_size[codec] \in Nat \ {0} /\ position \in 0..file.samples
      /\ file.samples \in Nat
    BY <1>1, ReadBounds, InputAssumption DEF IInv, TypeOK
<1>3. position = file.samples
    BY <1>1, <1>2 DEF SamplesRead
<1>4. /\ frames \in Seq(Frame) /\ Len(frames) = frames_count /\ frames_count \in Nat
      /\ frames_count < rtp_in_frame /\ rtp_in_frame \in Nat /\ rtp_packet \in RtpPacket
      /\ sent \in Seq(RtpPacket)
      /\ frames_count > 0 =>
             frames[frames_count].first + frames[frames_count].samples = position
    BY <1>1, InputAssumption DEF IInv, TypeOK, RtpPacket, frames, CountersAhead
<1>5. file' = file /\ rtp_in_frame' = rtp_in_frame /\ pc' = pc /\ codec_list' = codec_list
    BY <1>1 DEF options
<1>6. IteratorStopped'
    <2>1. CASE iter_active /\ iter_pos < Len(codec_list)
        <3>1. codec' = codec_list[iter_pos + 1]
            BY <2>1, <1>1 DEF NextCodec
        <3>2. codec_list \in Seq(Codec) /\ iter_pos \in 0..Len(codec_list)
            BY CodecAssumption DEF IInv, TypeOK
        <3>3. iter_pos + 1 \in 1..Len(codec_list)
            BY <2>1, <3>2
        <3>4. codec' # NoCodec
            BY <3>1, <3>2, <3>3, CodecAssumption
        <3> QED
            BY <3>4, <1>1, <1>5 DEF IteratorStopped
    <2>2. CASE ~(iter_active /\ iter_pos < Len(codec_list))
        BY <2>2, <1>1, <1>5 DEF IteratorStopped, NextCodec
    <2> QED
        BY <2>1, <2>2
<1>11. AtBeginning'
    BY <1>1, <1>5 DEF AtBeginning
<1>7. \A i \in DOMAIN frames : frames[i].codec = codec
    BY <1>1 DEF CInv, PacketBuilt
<1>8. file.samples > 0 =>
          /\ frames_count = 0 => sent # <<>> /\ CodecOf(sent[Len(sent)]) = codec
          /\ \/ rtp_packet.payload_type = payload_type[codec]
             \/ /\ sent # <<>> /\ PacketStart = 0
                /\ rtp_packet.payload_type = payload_type[CodecOf(sent[Len(sent)])]
    BY <1>1, <1>3 DEF CInv, PacketBuilt
<1>9. CASE frames_count > 0
    <2>1. /\ sent' = Append(sent, rtp_packet) /\ frames_count' = 0
          /\ rtp_packet'.payload_type = payload_type[codec]
          /\ rtp_packet'.data_frames = <<>>
        BY <1>1, <1>9 DEF FlushPacket, SendPacket, wr_rtp_packet_init
    <2>2. 1 \in 1..frames_count /\ DOMAIN frames = 1..frames_count
        BY <1>4, <1>9
    <2>3. frames[1].codec = codec /\ PacketStart = frames[1].first
        BY <2>2, <1>7, <1>9 DEF PacketStart
    <2>4. IsFilled(rtp_packet, rtp_in_frame, file.samples)
        <3>1. 1 <= frames_count /\ frames_count <= rtp_in_frame
            BY <1>4, <1>9
        <3> QED
            BY <3>1, <2>2, <2>3, <1>3, <1>4, <1>7, <1>9 DEF IsFilled, frames
    <2>5. file.samples > 0
        <3>1. frames[1] \in Frame /\ frames[1].first < position
            BY <2>2, <1>1, <1>4, <1>9 DEF IInv, CountersAhead
        <3>2. frames[1].first \in Nat
            BY <3>1 DEF Frame
        <3> QED
            BY <3>1, <3>2, <1>2, <1>3
    <2>6. HasType(rtp_packet, sent)
        BY <2>3, <2>5, <1>8 DEF HasType, CodecOf, frames
    <2>7. PacketsSent' /\ sent' # <<>> /\ sent'[Len(sent')] = rtp_packet
        BY <2>1, <2>4, <2>6, <1>4, <1>5, OneMorePacket DEF CInv
    <2>8. CodecOf(rtp_packet) = codec
        BY <2>3 DEF CodecOf, frames
    <2>9. ~(position' > 0) /\ PacketStart' = 0 /\ frames' = <<>>
        BY <2>1, <1>1 DEF PacketStart, frames
    <2>10. PacketBuilt'
        BY <2>1, <2>7, <2>8, <2>9 DEF PacketBuilt, CodecOf
    <2> QED
        BY <2>7, <2>10, <1>6, <1>11 DEF CInv
<1>10. CASE frames_count = 0
    <2>1. UNCHANGED <<sent, frames_count, sequence_number, rtp_packet>>
        BY <1>1, <1>10 DEF FlushPacket
    <2>2. ~(position' > 0) /\ PacketStart' = 0 /\ frames' = frames /\ DOMAIN frames = {}
        BY <2>1, <1>1, <1>4, <1>10 DEF PacketStart, frames
    <2>3. file.samples > 0 => rtp_packet.payload_type = payload_type[codec]
        BY <1>3, <1>8, <1>10 DEF PacketStart
    <2>4. PacketBuilt'
        BY <2>1, <2>2, <2>3, <1>5, <1>8, <1>10 DEF PacketBuilt, CodecOf
    <2>5. PacketsSent'
        BY <2>1, <1>5 DEF CInv, PacketsSent, PacketsAreFilled, StaleTypeOnlyAtSwitch
    <2> QED
        BY <2>4, <2>5, <1>6, <1>11 DEF CInv
<1> QED
    BY <1>4, <1>9, <1>10

LEMMA CodecStep ==
    ASSUME IInv, CInv, [Next]_vars
    PROVE  CInv'
<1>1. CASE Start
    <2>1. /\ pc = "start" /\ pc' = "loop" /\ codec' = FirstCodec /\ FirstCodec # NoCodec
          /\ rtp_packet'.payload_type = payload_type[FirstCodec]
          /\ rtp_packet'.data_frames = <<>>
          /\ UNCHANGED <<options, position, counters, sent>>
        BY <1>1 DEF Start, wr_rtp_packet_init
    <2>2. sent = <<>> /\ frames_count = 0 /\ position = 0
        BY <2>1 DEF IInv, ProtocolInv, CInv, AtBeginning
    <2>3. PacketsSent'
        BY <2>1, <2>2 DEF PacketsSent, PacketsAreFilled, StaleTypeOnlyAtSwitch
    <2>4. PacketBuilt'
        <3>1. DOMAIN frames' = {} /\ ~(position' > 0)
            BY <2>1, <2>2 DEF frames
        <3> QED
            BY <3>1, <2>1 DEF PacketBuilt
    <2>5. IteratorStopped' /\ AtBeginning'
        BY <2>1 DEF IteratorStopped, AtBeginning
    <2> QED
        BY <2>3, <2>4, <2>5 DEF CInv
<1>2. CASE Fail
    <2>1. /\ pc' = "failed"
          /\ UNCHANGED <<options, iterator, codec, position, rtp_packet, counters, sent>>
        BY <1>2 DEF Fail
    <2> QED
        BY <2>1 DEF CInv, PacketsSent, PacketsAreFilled, StaleTypeOnlyAtSwitch, PacketBuilt,
                    IteratorStopped, AtBeginning, options
<1>3. CASE EncodeFrame
    BY <1>3, CodecEncode
<1>4. CASE EndOfFile
    BY <1>4, CodecEndOfFile
<1>5. CASE Finish
    <2>1. /\ pc' = "done" /\ pc = "loop" /\ codec = NoCodec
          /\ UNCHANGED <<options, iterator, codec, position, rtp_packet, counters, sent>>
        BY <1>5 DEF Finish
    <2>2. ~iter_active
        BY <2>1 DEF CInv, IteratorStopped
    <2> QED
        BY <2>1, <2>2 DEF CInv, PacketsSent, PacketsAreFilled, StaleTypeOnlyAtSwitch, PacketBuilt,
                          IteratorStopped, AtBeginning, options, iterator
<1>6. CASE UNCHANGED vars
    <2>1. UNCHANGED <<options, iterator, pc, codec, position, rtp_packet, counters, sent>>
        BY <1>6 DEF vars
    <2>2. PacketsSent'
        BY <2>1 DEF CInv, PacketsSent, PacketsAreFilled, StaleTypeOnlyAtSwitch, options
    <2>3. PacketStart' = PacketStart /\ frames' = frames
        BY <2>1 DEF PacketStart, frames, counters
    <2>4. PacketBuilt'
        BY <2>1, <2>3 DEF CInv, PacketBuilt, options, counters
    <2>5. IteratorStopped' /\ AtBeginning'
        BY <2>1 DEF CInv, IteratorStopped, AtBeginning, iterator
    <2> QED
        BY <2>2, <2>4, <2>5 DEF CInv
<1> QED
    BY <1>1, <1>2, <1>3, <1>4, <1>5, <1>6 DEF Next

LEMMA CodecInit == Init => CInv
BY DEF Init, CInv, PacketsSent, PacketsAreFilled, StaleTypeOnlyAtSwitch, PacketBuilt,
       IteratorStopped, AtBeginning

LEMMA CodecInvariance == Spec => [](IInv /\ CInv)
<1>1. Init => IInv /\ CInv
    BY InitEstablishes, CodecInit
<1>2. IInv /\ CInv /\ [Next]_vars => IInv' /\ CInv'
    BY Step, CodecStep
<1> QED
    BY <1>1, <1>2, PTL DEF Spec

\* Every packet that is sent carries frames of one codec, is full unless it is
\* the last of its pass, and is never empty, whatever the lengths of the file
\* and of the codecs' buffers (wavfile_filter.c:115-123, 138).
THEOREM FilledPackets == Spec => []PacketsAreFilled
<1>1. IInv /\ CInv => PacketsAreFilled
    BY DEF CInv, PacketsSent
<1> QED
    BY <1>1, CodecInvariance, PTL

\* A packet's payload type is the one of the codec its frames were encoded with,
\* or, in the first packet of a pass only, that of the pass before
\* (wavfile_filter.c:122, 144).
THEOREM StaleTypes == Spec => []StaleTypeOnlyAtSwitch
<1>1. IInv /\ CInv => StaleTypeOnlyAtSwitch
    BY DEF CInv, PacketsSent
<1> QED
    BY <1>1, CodecInvariance, PTL

\* When the transmission has ended the iterator inside the codec list is free,
\* so the filters that walk the list then can start theirs
\* (wavfile_filter.c:129, sipp_filter.c:60).
THEOREM IteratorFree == Spec => []IteratorReleased
<1>1. IInv /\ CInv => IteratorReleased
    BY DEF IInv, TypeOK, ProtocolInv, CInv, IteratorStopped, IteratorReleased
<1> QED
    BY <1>1, CodecInvariance, PTL

--------------------------------------------------------------------------------
(* The frames of the passes.                                                  *)

\* The k-th frame of a pass with codec c.
PassFrame(c, k) ==
    LET b == buffer_size[c]
        length == IF k * b <= file.samples THEN b ELSE file.samples - (k - 1) * b
    IN [codec |-> c, first |-> (k - 1) * b, samples |-> length,
        length_in_ms |-> Milliseconds(length)]

FirstFrames(c, m) == [k \in 1..m |-> PassFrame(c, k)]

\* The frames of the first j passes.
FramesUpTo(j) == FlattenSeq([i \in 1..j |-> PassFrames(Passes[i])])

AllFrames == FramesUpTo(Len(Passes))

\* The number of the current pass.
Pass == IF codec_list = <<>> THEN 1 ELSE iter_pos

\* What was sent or is about to be.
Carried == FramesSent \o frames

\* The codec is the one of the current pass.
CodecOfPass ==
    /\ pc \in {"loop", "done"} => FirstCodec # NoCodec
    /\ pc = "loop" /\ codec # NoCodec =>
           /\ Pass \in 1..Len(Passes) /\ codec = Passes[Pass]
           /\ iter_active = (codec_list # <<>>)

\* m frames of the j-th pass, with codec c, are read.
FramesRead(c, j, m) ==
    /\ position = IF m * buffer_size[c] <= file.samples THEN m * buffer_size[c] ELSE file.samples
    /\ m > 0 => (m - 1) * buffer_size[c] < file.samples
    /\ Carried = FramesUpTo(j - 1) \o FirstFrames(c, m)

FramesInOrder ==
    /\ pc = "loop" /\ codec # NoCodec =>
           \E c \in Codec, j \in 1..Len(Passes), m \in Nat :
               c = codec /\ j = Pass /\ FramesRead(c, j, m)
    /\ pc = "loop" /\ codec = NoCodec => Carried = AllFrames
    /\ pc = "done" => FramesSent = AllFrames /\ Carried = AllFrames

FInv == CodecOfPass /\ FramesInOrder

LEMMA Multiples ==
    ASSUME NEW b \in Nat \ {0}, NEW k \in Nat, NEW m \in Nat
    PROVE  /\ m * b \in Nat /\ k * b \in Nat
           /\ (m + 1) * b = m * b + b
           /\ m > 0 => (m - 1) * b = m * b - b
           /\ k <= m => k * b <= m * b
           /\ k * b < m * b => k < m
<1>1. m * b \in Nat /\ k * b \in Nat /\ (m + 1) * b = m * b + b /\ (m - 1) * b = m * b - b
    OBVIOUS
<1>2. \A i, j \in Nat : i <= j => i * b <= j * b
    <2> SUFFICES ASSUME NEW i \in Nat, NEW j \in Nat, i <= j PROVE i * b <= j * b
        OBVIOUS
    <2>1. PICK d \in Nat : j = i + d
        <3>1. j - i \in Nat /\ j = i + (j - i)
            OBVIOUS
        <3> QED
            BY <3>1
    <2>2. j * b = i * b + d * b /\ d * b \in Nat /\ i * b \in Nat
        BY <2>1
    <2> QED
        BY <2>2
<1>3. k < m \/ m <= k
    OBVIOUS
<1>4. ASSUME k * b < m * b PROVE k < m
    <2>1. m <= k => m * b <= k * b
        BY <1>2
    <2> QED
        BY <1>1, <1>3, <1>4, <2>1
<1> QED
    BY <1>1, <1>2, <1>4

\* m buffers of b samples are as many as it takes to read n samples.
Covers(m, b, n) == n <= m * b /\ (m > 0 => (m - 1) * b < n)

LEMMA BuffersOfFile ==
    ASSUME NEW b \in Nat \ {0}, NEW n \in Nat
    PROVE  /\ (n + b - 1) \div b \in Nat
           /\ Covers((n + b - 1) \div b, b, n)
           /\ \A m \in Nat : Covers(m, b, n) => m = (n + b - 1) \div b
           /\ \A m \in Nat : (m > 0 => (m - 1) * b < n) => m <= (n + b - 1) \div b
<1>1. PICK q \in Nat, r \in Nat : /\ q = (n + b - 1) \div b /\ r < b
                                  /\ n + b - 1 = q * b + r
    <2>1. PICK x \in Nat : x = n + b - 1
        OBVIOUS
    <2>2. x \div b \in Nat /\ x % b \in Nat /\ x % b < b /\ x = (x \div b) * b + (x % b)
        OBVIOUS
    <2> QED
        BY <2>1, <2>2
<1>2. q * b \in Nat /\ (q > 0 => (q - 1) * b = q * b - b)
    BY Multiples
<1>3. Covers(q, b, n)
    <2>1. PICK y \in Nat : y = q * b
        BY <1>2
    <2>2. n <= y /\ (q > 0 => y - b < n)
        BY <1>1, <2>1
    <2> QED
        BY <1>2, <2>1, <2>2 DEF Covers
<1>4. ASSUME NEW m \in Nat, m > 0 => (m - 1) * b < n PROVE m <= q
    <2>1. CASE m = 0
        BY <2>1
    <2>2. CASE m > 0
        <3>1. PICK l \in Nat : l = m - 1
            BY <2>2
        <3>2. l * b < q * b
            <4>1. l * b < n /\ l * b \in Nat
                BY <1>4, <2>2, <3>1, Multiples
            <4>2. n <= q * b
                BY <1>3 DEF Covers
            <4> QED
                BY <4>1, <4>2, <1>2
        <3>3. l < q
            BY <3>2, Multiples
        <3> QED
            BY <3>1, <3>3
    <2> QED
        BY <2>1, <2>2
<1>5. ASSUME NEW m \in Nat, Covers(m, b, n) PROVE m = q
    <2>1. m <= q
        BY <1>4, <1>5 DEF Covers
    <2>2. q <= m
        <3>1. CASE q > 0
            <4>1. PICK l \in Nat : l = q - 1
                BY <3>1
            <4>2. l * b < n /\ l * b \in Nat /\ m * b \in Nat
                BY <1>3, <3>1, <4>1, Multiples DEF Covers
            <4>3. n <= m * b
                BY <1>5 DEF Covers
            <4>4. l * b < m * b
                BY <4>2, <4>3
            <4>5. l < m
                BY <4>4, Multiples
            <4> QED
                BY <4>1, <4>5
        <3> QED
            BY <3>1
    <2> QED
        BY <2>1, <2>2
<1> QED
    BY <1>1, <1>3, <1>4, <1>5

\* What is used of the types.
LEMMA FileAndCodecs ==
    ASSUME TypeOK, NEW c \in Codec
    PROVE  file.samples \in Nat /\ buffer_size[c] \in Nat \ {0}
BY CodecAssumption, InputAssumption DEF TypeOK

LEMMA PassFrameTyped ==
    ASSUME TypeOK, NEW c \in Codec, NEW k \in Nat \ {0}, (k - 1) * buffer_size[c] < file.samples
    PROVE  PassFrame(c, k) \in Frame
<1>1. PICK n \in Nat, b \in Nat \ {0}, l \in Nat :
          n = file.samples /\ b = buffer_size[c] /\ l = k - 1
    BY FileAndCodecs
<1>2. l * b \in Nat /\ k * b = l * b + b /\ l * b < n
    <2>1. l * b \in Nat /\ (l + 1) * b = l * b + b
        BY Multiples
    <2>2. l + 1 = k
        BY <1>1
    <2> QED
        BY <1>1, <2>1, <2>2
<1>3. PICK s \in Nat \ {0} : s = IF k * b <= n THEN b ELSE n - l * b
    <2>1. PICK y \in Nat : y = l * b
        BY <1>2
    <2>2. y < n
        BY <1>2, <2>1
    <2>3. n - y \in Nat \ {0} /\ b \in Nat \ {0}
        BY <2>2
    <2> QED
        BY <2>1, <2>3
<1>4. PassFrame(c, k) = [codec |-> c, first |-> l * b, samples |-> s,
                         length_in_ms |-> Milliseconds(s)]
    BY <1>1, <1>3 DEF PassFrame
<1> QED
    BY <1>2, <1>3, <1>4, MillisecondsNat DEF Frame

LEMMA FirstFramesTyped ==
    ASSUME TypeOK, NEW c \in Codec, NEW m \in Nat,
           m > 0 => (m - 1) * buffer_size[c] < file.samples
    PROVE  /\ FirstFrames(c, m) \in Seq(Frame) /\ Len(FirstFrames(c, m)) = m
           /\ \A k \in 1..m : PassFrame(c, k) \in Frame
<1>1. PICK n \in Nat, b \in Nat \ {0} : n = file.samples /\ b = buffer_size[c]
    BY FileAndCodecs
<1>2. ASSUME NEW k \in 1..m PROVE PassFrame(c, k) \in Frame
    <2>1. PICK i \in Nat, j \in Nat : i = k - 1 /\ j = m - 1 /\ i <= j
        <3>1. k - 1 \in Nat /\ m - 1 \in Nat /\ k - 1 <= m - 1
            OBVIOUS
        <3> QED
            BY <3>1
    <2>2. i * b <= j * b /\ i * b \in Nat /\ j * b \in Nat
        BY <2>1, Multiples
    <2>3. j * b < n
        BY <1>1, <2>1
    <2>4. i * b < n
        BY <2>2, <2>3
    <2>5. k \in Nat \ {0}
        OBVIOUS
    <2> QED
        BY <1>1, <2>1, <2>4, <2>5, PassFrameTyped
<1>3. FirstFrames(c, m) \in Seq(Frame)
    BY <1>2 DEF FirstFrames
<1>4. Len(FirstFrames(c, m)) = m
    BY DEF FirstFrames
<1> QED
    BY <1>2, <1>3, <1>4

\* A pass reads the file in as many buffers as it takes.
LEMMA PassFramesAre ==
    ASSUME TypeOK, NEW c \in Codec
    PROVE  \E n \in Nat :
               /\ PassFrames(c) = FirstFrames(c, n)
               /\ Covers(n, buffer_size[c], file.samples)
               /\ \A m \in Nat : (m > 0 => (m - 1) * buffer_size[c] < file.samples) => m <= n
               /\ \A m \in Nat : Covers(m, buffer_size[c], file.samples) => m = n
<1>1. PICK n \in Nat, b \in Nat \ {0} : n = file.samples /\ b = buffer_size[c]
    BY FileAndCodecs
<1>2. PICK q \in Nat : q = (n + b - 1) \div b
    BY BuffersOfFile
<1>3. PassFrames(c) = FirstFrames(c, q)
    BY <1>1, <1>2 DEF PassFrames, FirstFrames, PassFrame
<1>4. /\ Covers(q, b, n) /\ \A m \in Nat : Covers(m, b, n) => m = q
      /\ \A m \in Nat : (m > 0 => (m - 1) * b < n) => m <= q
    BY <1>2, BuffersOfFile
<1> QED
    BY <1>1, <1>3, <1>4

\* t goes on where s ends.
Continues(s, t) == \E u \in Seq(Frame) : t = s \o u

LEMMA ContinuesItself ==
    ASSUME NEW s \in Seq(Frame)
    PROVE  Continues(s, s)
<1>1. <<>> \in Seq(Frame) /\ s = s \o <<>>
    BY ConcatEmptySeq
<1> QED
    BY <1>1 DEF Continues

LEMMA ContinuesFurther ==
    ASSUME NEW s \in Seq(Frame), NEW t \in Seq(Frame), NEW x \in Seq(Frame), Continues(s, t)
    PROVE  Continues(s, t \o x)
<1>1. PICK u \in Seq(Frame) : t = s \o u
    BY DEF Continues
<1>2. (s \o u) \o x = s \o (u \o x)
    BY ConcatAssociative
<1>3. u \o x \in Seq(Frame)
    BY ConcatProperties
<1> QED
    BY <1>1, <1>2, <1>3 DEF Continues

LEMMA ContinuesTransitive ==
    ASSUME NEW s \in Seq(Frame), NEW t \in Seq(Frame), NEW x, Continues(s, t), Continues(t, x)
    PROVE  Continues(s, x)
<1>1. PICK u \in Seq(Frame) : x = t \o u
    BY DEF Continues
<1> QED
    BY <1>1, ContinuesFurther

LEMMA ContinuesPrefix ==
    ASSUME NEW s \in Seq(Frame), NEW t, Continues(s, t)
    PROVE  IsPrefix(s, t)
<1>1. PICK u \in Seq(Frame) : t = s \o u
    BY DEF Continues
<1>2. PICK n \in Nat, k \in Nat : n = Len(s) /\ k = Len(u)
    OBVIOUS
<1>3. PICK v \in Seq(Frame) : v = t /\ Len(v) = n + k /\ \A i \in 1..n : v[i] = s[i]
    <2>1. PICK v \in Seq(Frame) : v = s \o u
        BY ConcatProperties
    <2>2. Len(v) = n + k
        BY <2>1, <1>2
    <2>3. \A i \in 1..n : v[i] = s[i]
        BY <2>1, <1>2
    <2> QED
        BY <1>1, <2>1, <2>2, <2>3
<1>4. SubSeq(s, 1, n) = s
    BY <1>2, SubSeqFull
<1>5. SubSeq(v, 1, n) = s
    <2>1. \A i \in 1..n : v[i] \in Frame
        BY <1>2, <1>3
    <2>2. /\ SubSeq(v, 1, n) \in Seq(Frame)
          /\ Len(SubSeq(v, 1, n)) = IF 1 <= n THEN n - 1 + 1 ELSE 0
          /\ \A i \in 1..(n - 1 + 1) : SubSeq(v, 1, n)[i] = v[1 + i - 1]
        BY <2>1, SubSeqProperties
    <2>3. PICK w \in Seq(Frame) : w = SubSeq(v, 1, n)
        BY <2>2
    <2>4. Len(w) = n
        BY <2>2, <2>3
    <2>5. \A i \in 1..n : w[i] = s[i]
        <3> SUFFICES ASSUME NEW i \in 1..n PROVE w[i] = s[i]
            OBVIOUS
        <3>1. i \in 1..(n - 1 + 1) /\ 1 + i - 1 = i
            OBVIOUS
        <3> QED
            BY <3>1, <2>2, <2>3, <1>3
    <2> QED
        BY <1>2, <2>3, <2>4, <2>5, SeqEqual
<1>6. n <= n + k
    OBVIOUS
<1> QED
    BY <1>2, <1>3, <1>4, <1>5, <1>6 DEF IsPrefix

\* A pass reads one more buffer.
LEMMA OneMoreFrame ==
    ASSUME TypeOK, NEW c \in Codec, NEW m \in Nat, m * buffer_size[c] < file.samples
    PROVE  /\ PassFrame(c, m + 1) \in Frame
           /\ FirstFrames(c, m + 1) = FirstFrames(c, m) \o <<PassFrame(c, m + 1)>>
<1>1. PICK n \in Nat, b \in Nat \ {0} : n = file.samples /\ b = buffer_size[c]
    BY FileAndCodecs
<1>2. m > 0 => (m - 1) * b < n
    <2>1. m * b \in Nat /\ (m > 0 => (m - 1) * b = m * b - b)
        BY Multiples
    <2>2. PICK y \in Nat : y = m * b
        BY <2>1
    <2> QED
        BY <1>1, <2>1, <2>2
<1>3. (m + 1 > 0 => ((m + 1) - 1) * b < n) /\ (m + 1) - 1 = m /\ m + 1 \in Nat \ {0}
    <2>1. (m + 1) - 1 = m
        OBVIOUS
    <2> QED
        BY <1>1, <2>1
<1>4. PICK s \in Seq(Frame), t \in Seq(Frame), x \in Frame :
          s = FirstFrames(c, m) /\ t = FirstFrames(c, m + 1) /\ x = PassFrame(c, m + 1)
    <2>1. FirstFrames(c, m) \in Seq(Frame)
        BY <1>1, <1>2, FirstFramesTyped
    <2>2. FirstFrames(c, m + 1) \in Seq(Frame)
        BY <1>1, <1>3, FirstFramesTyped
    <2>3. PassFrame(c, m + 1) \in Frame
        BY <1>1, <1>3, PassFrameTyped
    <2> QED
        BY <2>1, <2>2, <2>3, Zenon
<1>5. /\ DOMAIN s = 1..m /\ \A k \in 1..m : s[k] = PassFrame(c, k)
      /\ DOMAIN t = 1..(m + 1) /\ \A k \in 1..(m + 1) : t[k] = PassFrame(c, k)
    BY <1>4 DEF FirstFrames
<1>6. Len(s) = m /\ Len(t) = m + 1
    BY <1>5
<1>7. \A k \in 1..m : k \in 1..(m + 1) /\ t[k] = s[k]
    BY <1>5
<1>8. t[m + 1] = x
    BY <1>4, <1>5
<1>9. t = Append(s, x)
    <2>0. Append(s, x) \in Seq(Frame)
        OBVIOUS
    <2>1. PICK a \in Seq(Frame) : a = Append(s, x)
        BY <2>0, Zenon
    <2>2. /\ Len(a) = m + 1 /\ \A k \in 1..(m + 1) : a[k] = IF k = m + 1 THEN x ELSE s[k]
        BY <2>1, <1>6
    <2>3. \A k \in 1..(m + 1) : k # m + 1 => k \in 1..m
        OBVIOUS
    <2>4. \A k \in 1..Len(t) : t[k] = a[k]
        BY <2>2, <2>3, <1>6, <1>7, <1>8
    <2> QED
        BY <2>1, <2>2, <2>4, <1>6, SeqEqual
<1>10. t = s \o <<x>>
    BY <1>9, AppendIsConcat
<1> QED
    BY <1>4, <1>10

\* The frames of a pass so far are the first ones of the pass.
LEMMA PassContinues ==
    ASSUME TypeOK, NEW c \in Codec, NEW m \in Nat,
           m > 0 => (m - 1) * buffer_size[c] < file.samples
    PROVE  Continues(FirstFrames(c, m), PassFrames(c)) /\ PassFrames(c) \in Seq(Frame)
<1>1. PICK n \in Nat : /\ PassFrames(c) = FirstFrames(c, n) /\ m <= n
                       /\ Covers(n, buffer_size[c], file.samples)
    BY PassFramesAre
<1>2. PICK b \in Nat \ {0}, z \in Nat : b = buffer_size[c] /\ z = file.samples
    BY FileAndCodecs
<1> DEFINE T == {k \in Nat : k <= n => /\ FirstFrames(c, k) \in Seq(Frame)
                                        /\ Continues(FirstFrames(c, m), FirstFrames(c, k))}
<1>3. FirstFrames(c, m) \in Seq(Frame)
    BY FirstFramesTyped
<1>4. m \in T
    BY <1>3, ContinuesItself
<1>5. ASSUME NEW k \in m..(n - 1), k \in T PROVE k + 1 \in T
    <2>1. k \in Nat /\ k < n /\ k <= n
        OBVIOUS
    <2>2. FirstFrames(c, k) \in Seq(Frame) /\ Continues(FirstFrames(c, m), FirstFrames(c, k))
        BY <1>5, <2>1
    <2>3. k * b < z
        <3>1. PICK l \in Nat : l = n - 1 /\ k <= l /\ n > 0
            BY <2>1
        <3>2. k * b <= l * b /\ k * b \in Nat /\ l * b \in Nat
            BY <2>1, <3>1, Multiples
        <3>3. l * b < z
            BY <1>1, <1>2, <3>1 DEF Covers
        <3> QED
            BY <3>2, <3>3
    <2>4. PassFrame(c, k + 1) \in Frame
          /\ FirstFrames(c, k + 1) = FirstFrames(c, k) \o <<PassFrame(c, k + 1)>>
        BY <1>2, <2>1, <2>3, OneMoreFrame
    <2>5. PICK x \in Seq(Frame) : x = <<PassFrame(c, k + 1)>>
        <3>1. PICK y \in Frame : y = PassFrame(c, k + 1)
            BY <2>4, Zenon
        <3>2. <<y>> \in Seq(Frame)
            OBVIOUS
        <3> QED
            BY <3>1, <3>2, Zenon
    <2>6. FirstFrames(c, k + 1) = FirstFrames(c, k) \o x
        BY <2>4, <2>5
    <2>7. FirstFrames(c, k) \o x \in Seq(Frame)
        BY <2>2, ConcatProperties
    <2>8. Continues(FirstFrames(c, m), FirstFrames(c, k) \o x)
        BY <1>3, <2>2, ContinuesFurther
    <2>9. k + 1 \in Nat
        BY <2>1
    <2> QED
        BY <2>6, <2>7, <2>8, <2>9, Zenon
<1>6. n \in T
    <2>1. m \in Int /\ n \in Int
        OBVIOUS
    <2> HIDE DEF T
    <2>2. m..n \subseteq T
        BY <1>4, <1>5, <2>1, IntervalInduction, Zenon
    <2> QED
        BY <2>2, <1>1
<1> QED
    BY <1>1, <1>6

\* The first elements of a sequence, and one more.
LEMMA FirstElements ==
    ASSUME NEW S, NEW n \in Nat, NEW g \in [1..n -> S], NEW j \in 0..n
    PROVE  /\ [i \in 1..j |-> g[i]] \in Seq(S)
           /\ j < n => [i \in 1..(j + 1) |-> g[i]] = Append([i \in 1..j |-> g[i]], g[j + 1])
<1>1. \A k \in 0..n : [i \in 1..k |-> g[i]] \in Seq(S) /\ Len([i \in 1..k |-> g[i]]) = k
    <2> SUFFICES ASSUME NEW k \in 0..n
                 PROVE  [i \in 1..k |-> g[i]] \in Seq(S) /\ Len([i \in 1..k |-> g[i]]) = k
        OBVIOUS
    <2>1. \A i \in 1..k : g[i] \in S
        OBVIOUS
    <2>2. [i \in 1..k |-> g[i]] \in [1..k -> S]
        BY <2>1
    <2>3. PICK s \in [1..k -> S] : s = [i \in 1..k |-> g[i]]
        BY <2>2, Zenon
    <2>4. s \in Seq(S) /\ Len(s) = k
        OBVIOUS
    <2> QED
        BY <2>3, <2>4, Zenon
<1>2. ASSUME j < n
      PROVE  [i \in 1..(j + 1) |-> g[i]] = Append([i \in 1..j |-> g[i]], g[j + 1])
    <2>1. PICK s \in Seq(S) : s = [i \in 1..j |-> g[i]] /\ Len(s) = j
        BY <1>1, Zenon
    <2>2. j + 1 \in 0..n
        BY <1>2
    <2>3. PICK t \in Seq(S) : t = [i \in 1..(j + 1) |-> g[i]] /\ Len(t) = j + 1
        BY <1>1, <2>2, Zenon
    <2>4. PICK x \in S : x = g[j + 1]
        <3>1. j + 1 \in 1..n
            BY <1>2
        <3> QED
            BY <3>1
    <2>5. Append(s, x) \in Seq(S)
        OBVIOUS
    <2>6. PICK a \in Seq(S) : a = Append(s, x)
        BY <2>5, Zenon
    <2>7. Len(a) = j + 1 /\ \A i \in 1..(j + 1) : a[i] = IF i = j + 1 THEN x ELSE s[i]
        BY <2>1, <2>6
    <2>8. \A i \in 1..(j + 1) : t[i] = g[i] /\ (i # j + 1 => s[i] = g[i])
        <3>1. \A i \in 1..(j + 1) : i # j + 1 => i \in 1..j
            OBVIOUS
        <3> QED
            BY <2>1, <2>3, <3>1
    <2>9. \A i \in 1..Len(t) : t[i] = a[i]
        BY <2>3, <2>4, <2>7, <2>8
    <2>10. t = a
        BY <2>3, <2>7, <2>9, SeqEqual
    <2> QED
        BY <2>1, <2>3, <2>4, <2>6, <2>10, Zenon
<1> QED
    BY <1>1, <1>2

LEMMA PassesTyped ==
    ASSUME TypeOK, FirstCodec # NoCodec
    PROVE  Passes \in Seq(Codec) /\ Passes # <<>> /\ Passes[1] = FirstCodec
<1>1. codec_list \in Seq(Codec) /\ file.format \in Codec \cup {NoCodec}
    BY CodecAssumption, InputAssumption DEF TypeOK
<1> QED
    BY <1>1 DEF Passes, FirstCodec

\* The frames of one more pass.
LEMMA FramesUpToNext ==
    ASSUME TypeOK, FirstCodec # NoCodec, NEW j \in 0..Len(Passes)
    PROVE  /\ FramesUpTo(j) \in Seq(Frame)
           /\ j < Len(Passes) =>
                  FramesUpTo(j + 1) = FramesUpTo(j) \o PassFrames(Passes[j + 1])
<1>1. PICK p \in Seq(Codec), n \in Nat : p = Passes /\ n = Len(p) /\ DOMAIN p = 1..n
    BY PassesTyped
<1>2. \A c \in Codec : PassFrames(c) \in Seq(Frame)
    <2> SUFFICES ASSUME NEW c \in Codec PROVE PassFrames(c) \in Seq(Frame)
        OBVIOUS
    <2>1. 0 > 0 => (0 - 1) * buffer_size[c] < file.samples
        OBVIOUS
    <2> QED
        BY <2>1, PassContinues
<1>3. PICK g : g = [i \in 1..n |-> PassFrames(p[i])]
    OBVIOUS
<1>4. g \in [1..n -> Seq(Frame)] /\ \A i \in 1..n : g[i] = PassFrames(p[i])
    BY <1>1, <1>2, <1>3
<1>5. \A k \in 0..n : FramesUpTo(k) = FlattenSeq([i \in 1..k |-> g[i]])
    <2> SUFFICES ASSUME NEW k \in 0..n PROVE FramesUpTo(k) = FlattenSeq([i \in 1..k |-> g[i]])
        OBVIOUS
    <2>1. \A i \in 1..k : g[i] = PassFrames(Passes[i])
        BY <1>1, <1>4
    <2>2. [i \in 1..k |-> PassFrames(Passes[i])] = [i \in 1..k |-> g[i]]
        BY <2>1
    <2> QED
        BY <2>2, Zenon DEF FramesUpTo
<1>6. PICK ss \in Seq(Seq(Frame)) : ss = [i \in 1..j |-> g[i]]
    <2>1. j \in 0..n
        BY <1>1
    <2>2. [i \in 1..j |-> g[i]] \in Seq(Seq(Frame))
        BY <2>1, <1>4, FirstElements
    <2> QED
        BY <2>2, Zenon
<1>7. <<>> \in Seq(Frame)
    OBVIOUS
<1>8. FlattenSeq(ss) \in Seq(Frame)
    BY <1>7, FlattenAppend
<1>9. j \in 0..n /\ FramesUpTo(j) = FlattenSeq(ss)
    BY <1>1, <1>5, <1>6
<1>10. ASSUME j < n PROVE FramesUpTo(j + 1) = FramesUpTo(j) \o PassFrames(Passes[j + 1])
    <2>1. j + 1 \in 0..n /\ j + 1 \in 1..n
        BY <1>10
    <2>2. PICK t \in Seq(Frame) : t = g[j + 1] /\ t = PassFrames(Passes[j + 1])
        BY <2>1, <1>1, <1>4
    <2>3. [i \in 1..(j + 1) |-> g[i]] = Append(ss, t)
        <3>1. [i \in 1..(j + 1) |-> g[i]] = Append([i \in 1..j |-> g[i]], g[j + 1])
            BY <1>4, <1>9, <1>10, FirstElements
        <3> QED
            BY <3>1, <1>6, <2>2, Zenon
    <2>4. FlattenSeq(Append(ss, t)) = FlattenSeq(ss) \o t
        BY FlattenAppend
    <2> QED
        BY <1>5, <1>9, <2>1, <2>2, <2>3, <2>4, Zenon
<1> QED
    BY <1>1, <1>8, <1>9, <1>10

LEMMA PassesContinue ==
    ASSUME TypeOK, FirstCodec # NoCodec, NEW j \in 0..Len(Passes)
    PROVE  Continues(FramesUpTo(j), FramesUpTo(Len(Passes)))
<1>1. PICK p \in Seq(Codec), n \in Nat : p = Passes /\ n = Len(p) /\ DOMAIN p = 1..n
    BY PassesTyped
<1> DEFINE T == {k \in 0..n : Continues(FramesUpTo(j), FramesUpTo(k))}
<1>2. j \in 0..n /\ FramesUpTo(j) \in Seq(Frame)
    BY <1>1, FramesUpToNext
<1>3. j \in T
    BY <1>2, ContinuesItself
<1>4. ASSUME NEW k \in j..(n - 1), k \in T PROVE k + 1 \in T
    <2>1. k \in 0..n /\ k < n /\ k + 1 \in 0..n /\ k + 1 \in 1..n
        BY <1>2
    <2>2. FramesUpTo(k) \in Seq(Frame) /\ FramesUpTo(k + 1) = FramesUpTo(k) \o PassFrames(p[k + 1])
        BY <1>1, <2>1, FramesUpToNext
    <2>3. PassFrames(p[k + 1]) \in Seq(Frame)
        <3>1. p[k + 1] \in Codec
            BY <1>1, <2>1
        <3>2. 0 > 0 => (0 - 1) * buffer_size[p[k + 1]] < file.samples
            OBVIOUS
        <3> QED
            BY <3>1, <3>2, PassContinues
    <2>4. Continues(FramesUpTo(j), FramesUpTo(k) \o PassFrames(p[k + 1]))
        BY <1>2, <1>4, <2>2, <2>3, ContinuesFurther
    <2> QED
        BY <2>1, <2>2, <2>4, Zenon
<1>5. n \in T
    <2>1. j \in Int /\ n \in Int /\ n \in j..n
        BY <1>2
    <2> HIDE DEF T
    <2>2. j..n \subseteq T
        BY <1>3, <1>4, <2>1, IntervalInduction, Zenon
    <2> QED
        BY <2>1, <2>2
<1> QED
    BY <1>1, <1>5

\* The frames of one more packet.
LEMMA FramesSentNext ==
    ASSUME sent \in Seq(RtpPacket)
    PROVE  /\ FramesSent \in Seq(Frame)
           /\ \A p \in RtpPacket : sent' = Append(sent, p) =>
                  FramesSent' = FramesSent \o p.data_frames
<1>1. PICK s \in Seq(RtpPacket), n \in Nat : s = sent /\ n = Len(s) /\ DOMAIN s = 1..n
    OBVIOUS
<1>2. PICK g : g = [k \in 1..n |-> s[k].data_frames]
    OBVIOUS
<1>3. g \in [1..n -> Seq(Frame)]
    <2>1. \A k \in 1..n : s[k] \in RtpPacket
        BY <1>1
    <2>2. \A k \in 1..n : s[k].data_frames \in Seq(Frame)
        BY <2>1 DEF RtpPacket
    <2> QED
        BY <2>2, <1>2
<1>4. g \in Seq(Seq(Frame)) /\ FramesSent = FlattenSeq(g)
    BY <1>1, <1>2, <1>3 DEF FramesSent
<1>5. <<>> \in Seq(Frame)
    OBVIOUS
<1>6. ASSUME NEW p \in RtpPacket, sent' = Append(sent, p)
      PROVE  FramesSent' = FramesSent \o p.data_frames
    <2>1. p.data_frames \in Seq(Frame)
        BY DEF RtpPacket
    <2>2. Append(s, p) \in Seq(RtpPacket)
        OBVIOUS
    <2>3. PICK t \in Seq(RtpPacket) : t = sent' /\ t = Append(s, p)
        BY <1>1, <1>6, <2>2, Zenon
    <2>4. PICK h : h = [k \in 1..(n + 1) |-> t[k].data_frames]
        OBVIOUS
    <2>5. Len(t) = n + 1 /\ DOMAIN t = 1..(n + 1) /\ \A k \in 1..(n + 1) : t[k] = IF k = n + 1 THEN p ELSE s[k]
        BY <2>3, <1>1
    <2>6. FramesSent' = FlattenSeq(h)
        BY <2>3, <2>4, <2>5, Zenon DEF FramesSent
    <2>7. h \in [1..(n + 1) -> Seq(Frame)] /\ h[n + 1] = p.data_frames
          /\ \A k \in 1..n : h[k] = g[k]
        <3>1. \A k \in 1..(n + 1) : t[k] \in RtpPacket
            BY <2>5
        <3>2. \A k \in 1..n : k \in 1..(n + 1) /\ k # n + 1
            OBVIOUS
        <3>3. \A k \in 1..(n + 1) : t[k].data_frames \in Seq(Frame)
            BY <3>1 DEF RtpPacket
        <3>4. h \in [1..(n + 1) -> Seq(Frame)]
            BY <2>4, <3>3
        <3>5. \A k \in 1..n : h[k] = g[k]
            BY <2>4, <2>5, <3>2, <1>2
        <3>6. h[n + 1] = p.data_frames
            BY <2>4, <2>5
        <3> QED
            BY <3>4, <3>5, <3>6
    <2>8. n \in 0..(n + 1) /\ n + 1 \in Nat /\ n < n + 1
        OBVIOUS
    <2>9. [i \in 1..(n + 1) |-> h[i]] = Append([i \in 1..n |-> h[i]], h[n + 1])
        BY <2>7, <2>8, FirstElements
    <2>10. [i \in 1..(n + 1) |-> h[i]] = h /\ [i \in 1..n |-> h[i]] = g
        BY <2>7, <1>3
    <2>11. h = Append(g, p.data_frames)
        BY <2>7, <2>9, <2>10, Zenon
    <2>12. FlattenSeq(Append(g, p.data_frames)) = FlattenSeq(g) \o p.data_frames
        BY <1>4, <2>1, FlattenAppend
    <2> QED
        BY <1>4, <2>6, <2>11, <2>12, Zenon
<1>7. FlattenSeq(g) \in Seq(Frame)
    BY <1>4, <1>5, FlattenAppend
<1> QED
    BY <1>4, <1>6, <1>7, Zenon

LEMMA NoFrames ==
    /\ \A c : FirstFrames(c, 0) = <<>>
    /\ FramesUpTo(0) = <<>>
    /\ sent = <<>> => FramesSent = <<>>
<1>1. FlattenSeq(<<>>) = <<>>
    <2>1. Len(<<>>) = 0
        OBVIOUS
    <2> QED
        BY <2>1 DEF FlattenSeq
<1>2. \A c : FirstFrames(c, 0) = <<>>
    BY DEF FirstFrames
<1>3. FramesUpTo(0) = FlattenSeq(<<>>)
    <2>1. [i \in 1..0 |-> PassFrames(Passes[i])] = <<>>
        OBVIOUS
    <2> QED
        BY <2>1, Zenon DEF FramesUpTo
<1>4. sent = <<>> => FramesSent = FlattenSeq(<<>>)
    <2> SUFFICES ASSUME sent = <<>> PROVE FramesSent = FlattenSeq(<<>>)
        OBVIOUS
    <2>1. [k \in 1..Len(sent) |-> sent[k].data_frames] = <<>>
        <3>1. Len(sent) = 0
            OBVIOUS
        <3> QED
            BY <3>1
    <2> QED
        BY <2>1, Zenon DEF FramesSent
<1> QED
    BY <1>1, <1>2, <1>3, <1>4, Zenon

LEMMA PassesFixed ==
    ASSUME file' = file, codec_list' = codec_list
    PROVE  /\ Passes' = Passes /\ FirstCodec' = FirstCodec /\ AllFrames' = AllFrames
           /\ \A c, m : FirstFrames(c, m)' = FirstFrames(c, m)
           /\ \A j : FramesUpTo(j)' = FramesUpTo(j)
<1>1. Passes' = Passes /\ FirstCodec' = FirstCodec
    BY DEF Passes, FirstCodec
<1>2. ASSUME NEW c, NEW m PROVE FirstFrames(c, m)' = FirstFrames(c, m)
    <2>1. \A k : PassFrame(c, k)' = PassFrame(c, k)
        BY DEF PassFrame, Milliseconds
    <2> QED
        BY <2>1 DEF FirstFrames
<1>3. ASSUME NEW c PROVE PassFrames(c)' = PassFrames(c)
    BY DEF PassFrames, Milliseconds
<1>4. \A j : FramesUpTo(j)' = FramesUpTo(j)
    BY <1>1, <1>3, Zenon DEF FramesUpTo
<1>5. AllFrames' = AllFrames
    BY <1>1, <1>3, Zenon DEF AllFrames, FramesUpTo
<1> QED
    BY <1>1, <1>2, <1>4, <1>5

\* The types of what is carried.
LEMMA CarriedTyped ==
    ASSUME IInv
    PROVE  /\ frames \in Seq(Frame) /\ rtp_packet \in RtpPacket /\ sent \in Seq(RtpPacket)
           /\ FramesSent \in Seq(Frame)
           /\ pc = "loop" => Len(frames) = frames_count
           /\ pc = "loop" /\ (frames_count = 0 \/ codec = NoCodec) => frames = <<>>
<1>1. frames \in Seq(Frame) /\ rtp_packet \in RtpPacket /\ sent \in Seq(RtpPacket)
    BY DEF IInv, TypeOK, RtpPacket, frames
<1>2. FramesSent \in Seq(Frame)
    BY <1>1, FramesSentNext
<1>3. pc = "loop" => Len(frames) = frames_count
    BY DEF IInv, CountersAhead
<1>4. pc = "loop" /\ codec = NoCodec => frames_count = 0
    BY CodecAssumption DEF IInv, TypeOK, CountersAhead
<1>5. Len(frames) = 0 => frames = <<>>
    BY <1>1
<1> QED
    BY <1>1, <1>2, <1>3, <1>4, <1>5

\* A frame is carried after those before it, whether the packet is sent or not.
LEMMA EncodeCarries ==
    ASSUME IInv, EncodeFrame
    PROVE  NextFrame \in Frame /\ Carried \in Seq(Frame) /\ Carried' = Carried \o <<NextFrame>>
<1>1. /\ pc = "loop" /\ codec # NoCodec /\ SamplesRead > 0
    BY DEF EncodeFrame
<1>2. /\ codec \in Codec /\ SamplesRead \in Nat \ {0} /\ position \in Nat
    BY <1>1, ReadBounds DEF IInv
<1>3. NextFrame \in Frame
    BY <1>2, MillisecondsNat DEF NextFrame, Frame
<1>4. PICK x \in Frame, f \in Seq(Frame), s \in Seq(Frame) :
          x = NextFrame /\ f = frames /\ s = FramesSent
    BY <1>3, CarriedTyped
<1>5. PICK packet : packet = wr_rtp_packet_add_frame(rtp_packet, NextFrame)
    OBVIOUS
<1>6. packet \in RtpPacket
    BY <1>1, <1>5, EncodedPacket
<1>7. packet.data_frames = Append(f, x)
    <2>1. rtp_packet \in RtpPacket
        BY CarriedTyped
    <2> QED
        BY <2>1, <1>4, <1>5 DEF wr_rtp_packet_add_frame, RtpPacket, frames
<1>8. <<x>> \in Seq(Frame) /\ Append(f, x) = f \o <<x>>
    BY AppendIsConcat
<1>9. PICK y \in Seq(Frame) : y = <<x>>
    BY <1>8, Zenon
<1>10. s \o f \in Seq(Frame) /\ (s \o f) \o y = s \o (f \o y) /\ f \o y \in Seq(Frame)
    BY ConcatProperties, ConcatAssociative
<1>11. Carried' = s \o (f \o y)
    <2>1. CASE frames_count + 1 = rtp_in_frame
        <3>1. SendPacket(packet, rtp_timestamp', packet_end_timestamp')
            BY <1>5, <2>1 DEF EncodeFrame
        <3>2. sent' = Append(sent, packet) /\ frames' = <<>>
            BY <3>1 DEF SendPacket, wr_rtp_packet_init, frames
        <3>3. FramesSent' = FramesSent \o packet.data_frames
            BY <3>2, <1>6, CarriedTyped, FramesSentNext
        <3>4. FramesSent' = s \o (f \o y)
            BY <3>3, <1>4, <1>7, <1>8, <1>9, Zenon
        <3>5. PICK z \in Seq(Frame) : z = s \o (f \o y)
            BY <1>10, ConcatProperties
        <3>6. z \o <<>> = z
            BY ConcatEmptySeq
        <3> QED
            BY <3>2, <3>4, <3>5, <3>6, Zenon DEF Carried
    <2>2. CASE frames_count + 1 # rtp_in_frame
        <3>1. rtp_packet' = packet /\ sent' = sent
            BY <1>5, <2>2 DEF EncodeFrame
        <3>2. frames' = f \o y
            BY <3>1, <1>7, <1>8, <1>9, Zenon DEF frames
        <3>3. FramesSent' = s
            BY <3>1, <1>4, Zenon DEF FramesSent
        <3> QED
            BY <3>2, <3>3, Zenon DEF Carried
    <2> QED
        BY <2>1, <2>2
<1> QED
    BY <1>3, <1>4, <1>9, <1>10, <1>11, Zenon DEF Carried

\* What is flushed at the end of the file stays carried.
LEMMA FlushCarries ==
    ASSUME IInv, pc = "loop", FlushPacket
    PROVE  Carried \in Seq(Frame) /\ Carried' = Carried /\ frames' = <<>>
<1>1. PICK f \in Seq(Frame), s \in Seq(Frame) : f = frames /\ s = FramesSent
    BY CarriedTyped
<1>2. s \o f \in Seq(Frame) /\ (s \o f) \o <<>> = s \o f
    BY ConcatProperties, ConcatEmptySeq
<1>3. CASE frames_count > 0
    <2>1. sent' = Append(sent, rtp_packet) /\ frames' = <<>>
        BY <1>3 DEF FlushPacket, SendPacket, wr_rtp_packet_init, frames
    <2>2. FramesSent' = FramesSent \o frames
        BY <2>1, CarriedTyped, FramesSentNext DEF frames
    <2> QED
        BY <1>1, <1>2, <2>1, <2>2, Zenon DEF Carried
<1>4. CASE ~(frames_count > 0)
    <2>1. sent' = sent /\ rtp_packet' = rtp_packet
        BY <1>4 DEF FlushPacket
    <2>2. frames_count = 0
        BY <1>4 DEF IInv, TypeOK
    <2>3. frames' = frames /\ frames = <<>> /\ FramesSent' = FramesSent
        BY <2>1, <2>2, CarriedTyped DEF frames, FramesSent
    <2> QED
        BY <1>1, <1>2, <2>3, Zenon DEF Carried
<1> QED
    BY <1>3, <1>4

\* The first pass begins with nothing carried.
LEMMA FramesStart ==
    ASSUME IInv, CInv, Start
    PROVE  FInv'
<1>1. /\ pc = "start" /\ pc' = "loop" /\ codec' = FirstCodec /\ FirstCodec # NoCodec
      /\ iter_active' = (codec_list # <<>>)
      /\ iter_pos' = IF codec_list = <<>> THEN 0 ELSE 1
      /\ rtp_packet'.data_frames = <<>> /\ position' = position /\ sent' = sent
      /\ file' = file /\ codec_list' = codec_list
    BY DEF Start, wr_rtp_packet_init, options
<1>2. sent = <<>> /\ position = 0 /\ TypeOK
    BY <1>1 DEF IInv, ProtocolInv, CInv, AtBeginning
<1>3. Passes \in Seq(Codec) /\ Passes # <<>> /\ Passes[1] = FirstCodec
    BY <1>1, <1>2, PassesTyped
<1>4. PICK n \in Nat, c \in Codec, z \in Nat, b \in Nat \ {0} :
          n = Len(Passes) /\ c = FirstCodec /\ z = file.samples /\ b = buffer_size[c]
    <2>1. FirstCodec \in Codec
        BY <1>3
    <2> QED
        BY <1>2, <1>3, <2>1, FileAndCodecs
<1>5. 1 \in 1..n /\ 1 - 1 = 0
    BY <1>3, <1>4
<1>6. Pass' = 1
    BY <1>1 DEF Pass
<1>7. Passes' = Passes /\ FirstCodec' = FirstCodec /\ FirstFrames(c, 0)' = FirstFrames(c, 0)
      /\ FramesUpTo(0)' = FramesUpTo(0)
    BY <1>1, PassesFixed
<1>8. CodecOfPass'
    BY <1>1, <1>3, <1>4, <1>5, <1>6, <1>7 DEF CodecOfPass
<1>9. FramesRead(c, 1, 0)'
    <2>1. FramesSent' = <<>>
        <3>1. FramesSent' = FramesSent
            BY <1>1 DEF FramesSent
        <3> QED
            BY <1>2, <3>1, NoFrames
    <2>2. frames' = <<>>
        BY <1>1 DEF frames
    <2>3. Carried' = <<>>
        BY <2>1, <2>2 DEF Carried
    <2>4. FramesUpTo(0)' \o FirstFrames(c, 0)' = <<>>
        BY <1>7, NoFrames
    <2>5. 0 * b = 0 /\ 0 <= z
        OBVIOUS
    <2>6. position' = IF 0 * buffer_size[c] <= file.samples THEN 0 * buffer_size[c]
                                                            ELSE file.samples
        BY <1>1, <1>2, <1>4, <2>5
    <2> QED
        BY <1>1, <1>5, <2>3, <2>4, <2>6 DEF FramesRead
<1>10. FramesInOrder'
    BY <1>1, <1>4, <1>5, <1>6, <1>7, <1>9 DEF FramesInOrder
<1> QED
    BY <1>8, <1>10 DEF FInv

\* A buffer that is read is the next frame of the pass.
LEMMA FramesEncode ==
    ASSUME IInv, FInv, EncodeFrame
    PROVE  FInv'
<1>1. /\ pc = "loop" /\ pc' = pc /\ codec # NoCodec /\ codec' = codec /\ SamplesRead > 0
      /\ position' = position + SamplesRead
      /\ UNCHANGED <<iter_active, iter_pos, file, codec_list>>
    BY DEF EncodeFrame, options, iterator
<1>2. TypeOK
    BY DEF IInv
<1>3. PICK c \in Codec, j \in 1..Len(Passes), m \in Nat :
          c = codec /\ j = Pass /\ FramesRead(c, j, m)
    BY <1>1 DEF FInv, FramesInOrder
<1>4. PICK z \in Nat, b \in Nat \ {0}, r \in Nat \ {0}, n \in Nat :
          z = file.samples /\ b = buffer_size[c] /\ r = SamplesRead /\ n = position
    BY <1>1, <1>2, FileAndCodecs, ReadBounds
<1>5. PICK y \in Nat : y = m * b
    BY Multiples
<1>6. /\ r = IF z - n < b THEN z - n ELSE b
      /\ n = IF y <= z THEN y ELSE z
    BY <1>3, <1>4, <1>5 DEF SamplesRead, FramesRead
<1>7. n = y /\ y < z
    BY <1>6
<1>8. (m + 1) * b = y + b /\ (m + 1) - 1 = m /\ m + 1 \in Nat
    BY <1>5, Multiples
<1>9. NextFrame = PassFrame(c, m + 1)
    <2>1. r = IF (m + 1) * b <= z THEN b ELSE z - ((m + 1) - 1) * b
        BY <1>5, <1>6, <1>7, <1>8
    <2>2. n = ((m + 1) - 1) * b
        BY <1>5, <1>7, <1>8
    <2> QED
        BY <1>3, <1>4, <2>1, <2>2 DEF NextFrame, PassFrame
<1>10. /\ PassFrame(c, m + 1) \in Frame
       /\ FirstFrames(c, m + 1) = FirstFrames(c, m) \o <<PassFrame(c, m + 1)>>
    BY <1>2, <1>4, <1>5, <1>7, OneMoreFrame
<1>11. Carried' = Carried \o <<PassFrame(c, m + 1)>>
    BY <1>9, EncodeCarries
<1>12. PICK u \in Seq(Frame), f \in Seq(Frame), x \in Frame :
           u = FramesUpTo(j - 1) /\ f = FirstFrames(c, m) /\ x = PassFrame(c, m + 1)
    <2>1. j - 1 \in 0..Len(Passes) /\ FirstCodec # NoCodec
        BY <1>1 DEF FInv, CodecOfPass
    <2>2. FramesUpTo(j - 1) \in Seq(Frame)
        BY <1>2, <2>1, FramesUpToNext
    <2>3. m > 0 => (m - 1) * buffer_size[c] < file.samples
        BY <1>3 DEF FramesRead
    <2>4. FirstFrames(c, m) \in Seq(Frame)
        BY <1>2, <2>3, FirstFramesTyped
    <2> QED
        BY <2>2, <2>4, <1>10, Zenon
<1>13. Carried = u \o f
    BY <1>3, <1>12 DEF FramesRead
<1>14. Carried' = u \o (f \o <<x>>)
    <2>1. PICK t \in Seq(Frame) : t = <<x>>
        <3>1. <<x>> \in Seq(Frame)
            OBVIOUS
        <3> QED
            BY <3>1, Zenon
    <2>2. (u \o f) \o t = u \o (f \o t)
        BY ConcatAssociative
    <2> QED
        BY <1>11, <1>12, <1>13, <2>1, <2>2, Zenon
<1>15. /\ Passes' = Passes /\ FirstCodec' = FirstCodec
       /\ FirstFrames(c, m + 1)' = FirstFrames(c, m + 1)
       /\ FramesUpTo(j - 1)' = FramesUpTo(j - 1)
    BY <1>1, PassesFixed
<1>16. FramesRead(c, j, m + 1)'
    <2>1. Carried' = FramesUpTo(j - 1)' \o FirstFrames(c, m + 1)'
        BY <1>10, <1>12, <1>14, <1>15, Zenon
    <2>2. n + r = IF (m + 1) * b <= z THEN (m + 1) * b ELSE z
        BY <1>6, <1>7, <1>8
    <2>3. position' = IF (m + 1) * buffer_size[c] <= file.samples
                      THEN (m + 1) * buffer_size[c] ELSE file.samples
        BY <1>1, <1>4, <2>2
    <2>4. ((m + 1) - 1) * buffer_size[c] < file.samples
        BY <1>4, <1>5, <1>7, <1>8
    <2> QED
        BY <1>1, <2>1, <2>3, <2>4 DEF FramesRead
<1>17. Pass' = Pass
    BY <1>1 DEF Pass
<1>18. CodecOfPass'
    BY <1>1, <1>15, <1>17 DEF FInv, CodecOfPass
<1>19. FramesInOrder'
    BY <1>1, <1>3, <1>8, <1>15, <1>16, <1>17 DEF FramesInOrder
<1> QED
    BY <1>18, <1>19 DEF FInv

\* A pass that has read the whole file has all its frames, and the next one begins
\* with none, or there is none.
LEMMA FramesEnd ==
    ASSUME IInv, FInv, EndOfFile
    PROVE  FInv'
<1>1. /\ pc = "loop" /\ pc' = pc /\ codec # NoCodec /\ SamplesRead = 0 /\ position' = 0
      /\ FlushPacket /\ NextCodec /\ file' = file /\ codec_list' = codec_list
    BY DEF EndOfFile, options
<1>2. TypeOK /\ FirstCodec # NoCodec
    BY <1>1 DEF IInv, FInv, CodecOfPass
<1>3. PICK c \in Codec, j \in 1..Len(Passes), m \in Nat :
          c = codec /\ j = Pass /\ FramesRead(c, j, m)
    BY <1>1 DEF FInv, FramesInOrder
<1>4. PICK z \in Nat, b \in Nat \ {0}, n \in Nat :
          z = file.samples /\ b = buffer_size[c] /\ n = position
    BY <1>1, <1>2, FileAndCodecs, ReadBounds
<1>5. PICK y \in Nat : y = m * b
    BY Multiples
<1>6. /\ 0 = IF z - n < b THEN z - n ELSE b
      /\ n = IF y <= z THEN y ELSE z
    BY <1>1, <1>3, <1>4, <1>5 DEF SamplesRead, FramesRead
<1>7. Covers(m, b, z)
    <2>1. z <= y
        BY <1>6
    <2>2. m > 0 => (m - 1) * b < z
        BY <1>3, <1>4 DEF FramesRead
    <2> QED
        BY <1>5, <2>1, <2>2 DEF Covers
<1>8. PassFrames(c) = FirstFrames(c, m)
    BY <1>2, <1>4, <1>7, PassFramesAre
<1>9. PICK p \in Seq(Codec), l \in Nat, i \in Nat :
          p = Passes /\ l = Len(p) /\ i = j - 1 /\ i + 1 = j /\ i < l /\ j \in 1..l /\ i \in 0..l
    <2>1. Passes \in Seq(Codec)
        BY <1>2, PassesTyped
    <2>2. Len(Passes) \in Nat /\ j - 1 \in Nat /\ (j - 1) + 1 = j /\ j - 1 < Len(Passes)
        BY <2>1
    <2>3. j - 1 \in 0..Len(Passes)
        BY <2>2
    <2> QED
        BY <2>1, <2>2, <2>3, Zenon
<1>10. codec = p[j]
    BY <1>1, <1>3, <1>9 DEF FInv, CodecOfPass
<1>11. FramesUpTo(j) = FramesUpTo(i) \o PassFrames(p[i + 1])
    BY <1>2, <1>9, FramesUpToNext
<1>12. Carried = FramesUpTo(j)
    <2>1. Carried = FramesUpTo(i) \o FirstFrames(c, m)
        BY <1>3, <1>9 DEF FramesRead
    <2> QED
        BY <1>3, <1>8, <1>9, <1>10, <1>11, <2>1, Zenon
<1>13. Carried' = FramesUpTo(j)
    BY <1>1, <1>12, FlushCarries
<1>14. /\ Passes' = Passes /\ FirstCodec' = FirstCodec /\ AllFrames' = AllFrames
       /\ \A d, k : FirstFrames(d, k)' = FirstFrames(d, k)
       /\ \A k : FramesUpTo(k)' = FramesUpTo(k)
    BY <1>1, PassesFixed
<1>15. iter_active = (codec_list # <<>>)
    BY <1>1 DEF FInv, CodecOfPass
<1>16. CASE iter_active /\ iter_pos < Len(codec_list)
    <2>1. codec_list # <<>> /\ p = codec_list /\ j = iter_pos
        BY <1>3, <1>9, <1>15, <1>16 DEF Passes, Pass
    <2>2. j < l /\ codec' = p[j + 1] /\ iter_pos' = j + 1 /\ iter_active' = iter_active
        BY <1>1, <1>9, <1>16, <2>1 DEF NextCodec
    <2>3. PICK k \in 1..l, d \in Codec : k = j + 1 /\ d = p[j + 1]
        <3>1. j + 1 \in 1..l
            BY <1>9, <2>2
        <3>2. p[j + 1] \in Codec
            BY <1>9, <3>1
        <3> QED
            BY <3>1, <3>2, Zenon
    <2>4. Pass' = k /\ k - 1 = j
        BY <1>1, <1>9, <2>1, <2>2, <2>3 DEF Pass
    <2>5. Carried' = FramesUpTo(j)' \o FirstFrames(d, 0)'
        <3>1. PICK t \in Seq(Frame) : t = FramesUpTo(j)
            <4>1. j \in 0..Len(Passes)
                BY <1>9
            <4>2. FramesUpTo(j) \in Seq(Frame)
                BY <1>2, <4>1, FramesUpToNext
            <4> QED
                BY <4>2, Zenon
        <3>2. t \o <<>> = t
            BY ConcatEmptySeq
        <3>3. FirstFrames(d, 0) = <<>>
            BY NoFrames
        <3> QED
            BY <1>13, <1>14, <3>1, <3>2, <3>3, Zenon
    <2>6. 0 * buffer_size[d] = 0 /\ 0 <= z
        BY <1>2, FileAndCodecs
    <2>7. FramesRead(d, k, 0)'
        <3>1. position' = IF 0 * buffer_size[d] <= file.samples THEN 0 * buffer_size[d]
                                                                ELSE file.samples
            BY <1>1, <1>4, <2>6
        <3>2. k - 1 = j
            BY <2>4
        <3>3. FramesUpTo(k - 1) = FramesUpTo(j)
            BY <3>2, Zenon
        <3>4. FramesUpTo(k - 1)' = FramesUpTo(j)'
            BY <1>14, <3>3, Zenon
        <3> QED
            BY <1>1, <2>5, <3>1, <3>4 DEF FramesRead
    <2>8. d = codec' /\ k = Pass' /\ k \in 1..Len(Passes')
        BY <1>9, <1>14, <2>2, <2>3, <2>4
    <2>9. codec' # NoCodec
        BY <2>8, CodecAssumption
    <2>10. CodecOfPass'
        BY <1>1, <1>2, <1>9, <1>14, <1>15, <2>2, <2>3, <2>8 DEF CodecOfPass
    <2>11. FramesInOrder'
        BY <1>1, <2>7, <2>8, <2>9 DEF FramesInOrder
    <2> QED
        BY <2>10, <2>11 DEF FInv
<1>17. CASE ~(iter_active /\ iter_pos < Len(codec_list))
    <2>1. codec' = NoCodec
        BY <1>1, <1>17 DEF NextCodec
    <2>2. j = l
        <3>1. CASE codec_list = <<>>
            BY <1>9, <3>1 DEF Passes
        <3>2. CASE codec_list # <<>>
            <4>1. p = codec_list /\ j = iter_pos /\ iter_active
                BY <1>3, <1>9, <1>15, <3>2 DEF Passes, Pass
            <4> QED
                BY <1>9, <1>17, <4>1
        <3> QED
            BY <3>1, <3>2
    <2>3. AllFrames = FramesUpTo(j)
        BY <1>9, <2>2, Zenon DEF AllFrames
    <2>4. Carried' = AllFrames'
        BY <1>13, <1>14, <2>3, Zenon
    <2>5. CodecOfPass'
        BY <1>1, <1>2, <1>14, <2>1 DEF CodecOfPass
    <2>6. FramesInOrder'
        BY <1>1, <2>1, <2>4 DEF FramesInOrder
    <2> QED
        BY <2>5, <2>6 DEF FInv
<1> QED
    BY <1>16, <1>17

LEMMA FramesStep ==
    ASSUME IInv, CInv, FInv, [Next]_vars
    PROVE  FInv'
<1>1. CASE Start
    BY <1>1, FramesStart
<1>2. CASE Fail
    BY <1>2 DEF Fail, FInv, CodecOfPass, FramesInOrder
<1>3. CASE EncodeFrame
    BY <1>3, FramesEncode
<1>4. CASE EndOfFile
    BY <1>4, FramesEnd
<1>5. CASE Finish
    <2>1. /\ pc' = "done" /\ pc = "loop" /\ codec = NoCodec
          /\ UNCHANGED <<file, codec_list, rtp_packet, sent>>
        BY <1>5 DEF Finish, options
    <2>2. AllFrames' = AllFrames /\ FirstCodec' = FirstCodec
        BY <2>1, PassesFixed
    <2>3. frames = <<>> /\ FramesSent \in Seq(Frame)
        BY <2>1, CarriedTyped
    <2>4. FramesSent \o <<>> = FramesSent
        BY <2>3, ConcatEmptySeq
    <2>5. Carried = AllFrames /\ FramesSent = AllFrames
        BY <2>1, <2>3, <2>4 DEF FInv, FramesInOrder, Carried
    <2>6. FramesSent' = FramesSent /\ Carried' = Carried
        BY <2>1 DEF FramesSent, Carried, frames
    <2> QED
        BY <2>1, <2>2, <2>5, <2>6 DEF FInv, FramesInOrder, CodecOfPass
<1>6. CASE UNCHANGED vars
    <2>1. UNCHANGED <<file, codec_list, iter_active, iter_pos, pc, codec, position, rtp_packet,
                      sent>>
        BY <1>6 DEF vars, options, iterator
    <2>2. /\ Passes' = Passes /\ FirstCodec' = FirstCodec /\ AllFrames' = AllFrames
          /\ \A c, m : FirstFrames(c, m)' = FirstFrames(c, m)
          /\ \A j : FramesUpTo(j)' = FramesUpTo(j)
        BY <2>1, PassesFixed
    <2>3. Pass' = Pass /\ FramesSent' = FramesSent /\ Carried' = Carried
        BY <2>1 DEF Pass, FramesSent, Carried, frames
    <2>4. \A c, j, m : FramesRead(c, j, m) => FramesRead(c, j, m)'
        BY <2>1, <2>2, <2>3 DEF FramesRead
    <2>5. CodecOfPass'
        BY <2>1, <2>2, <2>3 DEF FInv, CodecOfPass
    <2>6. FramesInOrder'
        BY <2>1, <2>2, <2>3, <2>4 DEF FInv, FramesInOrder
    <2> QED
        BY <2>5, <2>6 DEF FInv
<1> QED
    BY <1>1, <1>2, <1>3, <1>4, <1>5, <1>6 DEF Next

\* What is carried is the beginning of all the frames, and all of it at the end.
LEMMA CarriedInOrder ==
    ASSUME IInv, FInv, transmission # "none"
    PROVE  IsPrefix(Carried, AllFrames) /\ (transmission = "ended" => FramesSent = AllFrames)
<1>1. TypeOK /\ pc \in {"loop", "done"} /\ (pc = "done" <=> transmission = "ended")
    BY DEF IInv, TypeOK, ProtocolInv
<1>2. FirstCodec # NoCodec
    BY <1>1 DEF FInv, CodecOfPass
<1>3. PICK n \in Nat : n = Len(Passes) /\ n \in 0..n
    <2>1. Len(Passes) \in Nat
        BY <1>1, <1>2, PassesTyped
    <2> QED
        BY <2>1
<1>4. AllFrames \in Seq(Frame)
    BY <1>1, <1>2, <1>3, FramesUpToNext DEF AllFrames
<1>5. CASE pc = "loop" /\ codec # NoCodec
    <2>1. PICK c \in Codec, j \in 1..Len(Passes), m \in Nat :
              c = codec /\ j = Pass /\ FramesRead(c, j, m)
        BY <1>5 DEF FInv, FramesInOrder
    <2>2. PICK i \in 0..n : i = j - 1 /\ i + 1 = j /\ i < n /\ j \in 0..n
        <3>1. j - 1 \in 0..n /\ (j - 1) + 1 = j /\ j - 1 < n /\ j \in 0..n
            BY <1>3, <2>1
        <3> QED
            BY <3>1, Zenon
    <2>3. PICK u \in Seq(Frame) : u = FramesUpTo(i)
        BY <1>1, <1>2, <1>3, FramesUpToNext
    <2>4. FramesUpTo(j) = u \o PassFrames(c)
        <3>1. FramesUpTo(i + 1) = FramesUpTo(i) \o PassFrames(Passes[i + 1])
            BY <1>1, <1>2, <1>3, <2>2, FramesUpToNext
        <3>2. Passes[j] = c
            BY <1>5, <2>1 DEF FInv, CodecOfPass
        <3> QED
            BY <2>2, <2>3, <3>1, <3>2, Zenon
    <2>5. m > 0 => (m - 1) * buffer_size[c] < file.samples
        BY <2>1 DEF FramesRead
    <2>6. PICK f \in Seq(Frame) : f = FirstFrames(c, m)
        BY <1>1, <2>5, FirstFramesTyped
    <2>7. PICK x \in Seq(Frame) : PassFrames(c) = f \o x
        BY <1>1, <2>5, <2>6, PassContinues DEF Continues
    <2>8. u \o (f \o x) = (u \o f) \o x /\ u \o f \in Seq(Frame)
        <3>1. u \o (f \o x) = (u \o f) \o x
            BY ConcatAssociative
        <3>2. u \o f \in Seq(Frame)
            BY ConcatProperties
        <3> QED
            BY <3>1, <3>2
    <2>9. Carried = u \o f
        BY <2>1, <2>2, <2>3, <2>6 DEF FramesRead
    <2>10. PICK v \in Seq(Frame) : v = u \o f
        BY <2>8, Zenon
    <2>11. PICK t \in Seq(Frame) : t = FramesUpTo(j)
        BY <1>1, <1>2, <1>3, <2>2, FramesUpToNext
    <2>12. t = v \o x
        BY <2>4, <2>7, <2>8, <2>10, <2>11, Zenon
    <2>13. Continues(v, t)
        BY <2>12 DEF Continues
    <2>14. Continues(t, AllFrames)
        BY <1>1, <1>2, <1>3, <2>2, <2>11, PassesContinue, Zenon DEF AllFrames
    <2>15. Continues(v, AllFrames)
        BY <2>13, <2>14, ContinuesTransitive
    <2>16. IsPrefix(v, AllFrames)
        BY <2>15, ContinuesPrefix
    <2> QED
        BY <1>1, <1>5, <2>9, <2>10, <2>16
<1>6. CASE ~(pc = "loop" /\ codec # NoCodec)
    <2>1. Carried = AllFrames /\ (pc = "done" => FramesSent = AllFrames)
        BY <1>1, <1>6 DEF FInv, FramesInOrder
    <2>2. IsPrefix(AllFrames, AllFrames)
        BY <1>4, ContinuesItself, ContinuesPrefix
    <2> QED
        BY <1>1, <2>1, <2>2
<1> QED
    BY <1>5, <1>6

LEMMA FramesInvariance == Spec => [](IInv /\ CInv /\ FInv)
<1>1. Init => FInv
    BY DEF Init, FInv, CodecOfPass, FramesInOrder
<1>2. Init => IInv /\ CInv /\ FInv
    BY <1>1, InitEstablishes, CodecInit
<1>3. IInv /\ CInv /\ FInv /\ [Next]_vars => IInv' /\ CInv' /\ FInv'
    BY Step, CodecStep, FramesStep
<1> QED
    BY <1>2, <1>3, PTL DEF Spec

\* What the observers receive is every sample of the file, once for every codec
\* of the list and in order, and all of it when the transmission has ended,
\* whatever the file's length, the buffers' sizes, the list of codecs and the
\* number of frames in a packet (wavfile_filter.c:114-145).
THEOREM EverySample == Spec => []EverySampleOncePerCodec
<1>1. IInv /\ CInv /\ FInv => EverySampleOncePerCodec
    <2> SUFFICES ASSUME IInv, FInv PROVE EverySampleOncePerCodec
        OBVIOUS
    <2>1. transmission # "none" =>
              IsPrefix(Carried, AllFrames) /\ (transmission = "ended" => FramesSent = AllFrames)
        BY CarriedInOrder
    <2> QED
        BY <2>1, Zenon DEF EverySampleOncePerCodec, Carried, frames, AllFrames, FramesUpTo
<1> QED
    BY <1>1, FramesInvariance, PTL
================================================================================
