------------------------------- MODULE WavSource -------------------------------
(***************************************************************************)
(* wr_wavfile_filter_start (src/wavfile_filter.c:53-150): the WAV file is   *)
(* read from its beginning once for every codec of the list, a buffer at a  *)
(* time; every buffer becomes a data frame, every rtp_in_frame frames a     *)
(* packet the observers are notified of.  One action is one iteration of    *)
(* the loop.                                                                *)
(*                                                                          *)
(* A data frame stands for the samples it was encoded from: the codec, the  *)
(* position of its first sample in the file and how many were read.         *)
(***************************************************************************)
EXTENDS Timeval, Sequences, SequencesExt

CONSTANTS
    Codec,          \* the encoders, wr_encoder_t
    NoCodec,        \* the NULL encoder
    buffer_size,    \* get_input_buffer_size of each codec, in samples
    payload_type,   \* payload_type of each codec
    samplerate,     \* file_info.samplerate of the files that are accepted, 8000
    CodecLists,     \* what wr_options.codec_list may be
    Files,          \* what wr_options.filename may name
    FrameCounts,    \* what global:rtp_in_frame may be
    StartTimes      \* what gettimeofday may return

ASSUME CodecAssumption ==
    /\ NoCodec \notin Codec
    /\ buffer_size \in [Codec -> Nat \ {0}]
    /\ payload_type \in [Codec -> Nat]
    /\ CodecLists \subseteq Seq(Codec)

\* At 8 kHz a sample takes a whole number of microseconds.
ASSUME RateAssumption ==
    /\ samplerate \in Nat \ {0}
    /\ USEC % samplerate = 0

\* A file can be opened or not, has the right rate or not, has samples, and its
\* format is that of a codec or of none (get_format_payload_type and
\* get_encoder_by_pt).
ASSUME InputAssumption ==
    /\ Files \subseteq [opens : BOOLEAN, rate_ok : BOOLEAN, samples : Nat,
                        format : Codec \cup {NoCodec}]
    /\ FrameCounts \subseteq Nat \ {0}
    /\ StartTimes \subseteq Timeval

VARIABLES
    file,           \* the file named by wr_options.filename
    codec_list,     \* wr_options.codec_list
    iter_active, iter_pos,      \* the iterator inside codec_list
    rtp_in_frame,
    start_time,     \* what gettimeofday returned
    pc,             \* "start", "loop", "done" or "failed"
    codec,          \* the current encoder
    position,       \* read position in the file
    rtp_packet,     \* the packet under construction
    frames_count, sequence_number, rtp_timestamp,
    packet_end_timestamp,
    transmission,   \* last of START and END the observers were notified of
    sent            \* history: the packets of the NEW_PACKET notifications

options == <<file, codec_list, rtp_in_frame, start_time>>
iterator == <<iter_active, iter_pos>>
counters == <<frames_count, sequence_number, rtp_timestamp, packet_end_timestamp>>
vars == <<options, iterator, pc, codec, position, rtp_packet, counters, transmission, sent>>

--------------------------------------------------------------------------------

\* wr_rtp_packet_init (rtpapi.c:64-74)
wr_rtp_packet_init(pt, seq, mark, timestamp, lowlevel) ==
    [payload_type |-> pt, sequence_number |-> seq, markbit |-> mark,
     rtp_timestamp |-> timestamp, lowlevel_timestamp |-> lowlevel,
     data_frames |-> <<>>]

\* wr_rtp_packet_add_frame (rtpapi.c:115-125)
wr_rtp_packet_add_frame(packet, frame) ==
    [packet EXCEPT !.data_frames = Append(@, frame)]

Init ==
    /\ file \in Files
    /\ codec_list \in CodecLists
    /\ rtp_in_frame \in FrameCounts
    /\ start_time \in StartTimes
    /\ iter_active = FALSE /\ iter_pos = 0
    /\ pc = "start"
    /\ codec = NoCodec
    /\ position = 0
    /\ rtp_packet = wr_rtp_packet_init(0, 0, 0, 0, start_time)
    /\ frames_count = 0 /\ sequence_number = 0 /\ rtp_timestamp = 0
    /\ packet_end_timestamp = start_time
    /\ transmission = "none"
    /\ sent = <<>>

\* The codec of the first pass: the one of the file's format when no codec was
\* asked for, else the first of the list (wavfile_filter.c:84-95).
FirstCodec == IF codec_list = <<>> THEN file.format ELSE codec_list[1]

Start ==
    /\ pc = "start"
    /\ file.opens /\ file.rate_ok /\ FirstCodec # NoCodec
    /\ codec' = FirstCodec
    /\ iter_active' = (codec_list # <<>>)
    /\ iter_pos' = IF codec_list = <<>> THEN 0 ELSE 1
    /\ rtp_packet' = wr_rtp_packet_init(payload_type[FirstCodec], sequence_number, 1,
                                        rtp_timestamp, start_time)
    /\ transmission' = "started"
    /\ pc' = "loop"
    /\ UNCHANGED <<options, position, counters, sent>>

\* The file cannot be read, has another rate, or no codec is found.
Fail ==
    /\ pc = "start"
    /\ ~(file.opens /\ file.rate_ok /\ FirstCodec # NoCodec)
    /\ pc' = "failed"
    /\ UNCHANGED <<options, iterator, codec, position, rtp_packet, counters,
                   transmission, sent>>

\* Mutant of SendPacket: the sequence number is not advanced.
SendPacketSameNumber(packet, timestamp, end) ==
    /\ sent' = Append(sent, packet)
    /\ frames_count' = 0
    /\ UNCHANGED sequence_number
    /\ rtp_packet' = wr_rtp_packet_init(payload_type[codec], sequence_number, 0,
                                        timestamp, end)

\* Mutant of SendPacket: the payload type of the first codec is kept.
SendPacketFirstType(packet, timestamp, end) ==
    /\ sent' = Append(sent, packet)
    /\ frames_count' = 0
    /\ sequence_number' = sequence_number + 1
    /\ rtp_packet' = wr_rtp_packet_init(payload_type[FirstCodec], sequence_number + 1, 0,
                                        timestamp, end)

\* Notify the observers of a packet and begin the next one, which starts when
\* this one ends (wavfile_filter.c:117-122 and 139-144).
SendPacket(packet, timestamp, end) ==
    /\ sent' = Append(sent, packet)
    /\ frames_count' = 0
    /\ sequence_number' = sequence_number + 1
    /\ rtp_packet' = wr_rtp_packet_init(payload_type[codec], sequence_number + 1, 0,
                                        timestamp, end)

\* Mutant of SamplesRead: a short read is taken for a full buffer.
SamplesReadFull == IF position >= file.samples THEN 0 ELSE buffer_size[codec]

\* sf_read_short delivers a buffer, or what is left of the file.
SamplesRead ==
    LET left == file.samples - position IN
    IF left < buffer_size[codec] THEN left ELSE buffer_size[codec]

\* Microseconds a sample takes.
SampleTime == USEC \div samplerate

Milliseconds(n) == (1000 * n) \div samplerate

NextFrame ==
    [codec |-> codec, first |-> position, samples |-> SamplesRead,
     length_in_ms |-> Milliseconds(SamplesRead)]

EncodeFrame ==
    /\ pc = "loop" /\ codec # NoCodec /\ SamplesRead > 0
    /\ position' = position + SamplesRead
    /\ rtp_timestamp' = rtp_timestamp + SamplesRead
    /\ packet_end_timestamp' = timeval_increment(packet_end_timestamp,
                                                 SampleTime * SamplesRead)
    /\ LET packet == wr_rtp_packet_add_frame(rtp_packet, NextFrame) IN
       IF frames_count + 1 = rtp_in_frame
       THEN SendPacket(packet, rtp_timestamp', packet_end_timestamp')
       ELSE /\ frames_count' = frames_count + 1
            /\ rtp_packet' = packet
            /\ UNCHANGED <<sequence_number, sent>>
    /\ UNCHANGED <<options, iterator, pc, codec, transmission>>

\* Mutant of FlushPacket: nothing is flushed.
FlushNothing == UNCHANGED <<sent, frames_count, sequence_number, rtp_packet>>

\* An unfinished packet is sent (and the next one begun, with the payload type
\* of the codec that just finished).
FlushPacket ==
    IF frames_count > 0
    THEN SendPacket(rtp_packet, rtp_timestamp, packet_end_timestamp)
    ELSE UNCHANGED <<sent, frames_count, sequence_number, rtp_packet>>

\* Mutant of NextCodec: off by one, the first codec comes twice.
NextCodecOffByOne ==
    IF iter_active /\ iter_pos < Len(codec_list)
    THEN /\ codec' = codec_list[iter_pos]
         /\ iter_pos' = iter_pos + 1
         /\ UNCHANGED iter_active
    ELSE codec' = NoCodec /\ iter_active' = FALSE /\ iter_pos' = 0

\* Mutant of NextCodec: list_iterator_stop is forgotten.
NextCodecUnstopped ==
    IF iter_active /\ iter_pos < Len(codec_list)
    THEN /\ codec' = codec_list[iter_pos + 1]
         /\ iter_pos' = iter_pos + 1
         /\ UNCHANGED iter_active
    ELSE codec' = NoCodec /\ UNCHANGED iterator

\* The next codec of the list, or none: then the iterator is stopped.
NextCodec ==
    IF iter_active /\ iter_pos < Len(codec_list)
    THEN /\ codec' = codec_list[iter_pos + 1]
         /\ iter_pos' = iter_pos + 1
         /\ UNCHANGED iter_active
    ELSE /\ codec' = NoCodec
         /\ iter_active' = FALSE
         /\ iter_pos' = 0

\* At the end of the file the packet is flushed, the file rewound and the next
\* codec taken.
EndOfFile ==
    /\ pc = "loop" /\ codec # NoCodec /\ SamplesRead = 0
    /\ FlushPacket
    /\ position' = 0
    /\ NextCodec
    /\ UNCHANGED <<options, pc, rtp_timestamp, packet_end_timestamp, transmission>>

\* Mutant of Finish: END is passed on only when a packet was.
FinishIfSent ==
    /\ pc = "loop" /\ codec = NoCodec /\ sent # <<>>
    /\ transmission' = "ended"
    /\ pc' = "done"
    /\ UNCHANGED <<options, iterator, codec, position, rtp_packet, counters, sent>>

Finish ==
    /\ pc = "loop" /\ codec = NoCodec
    /\ transmission' = "ended"
    /\ pc' = "done"
    /\ UNCHANGED <<options, iterator, codec, position, rtp_packet, counters, sent>>

Next == Start \/ Fail \/ EncodeFrame \/ EndOfFile \/ Finish

\* The code runs to completion: nothing else runs in the process.
Spec == Init /\ [][Next]_vars /\ WF_vars(Next)

--------------------------------------------------------------------------------

Frame == [codec : Codec, first : Nat, samples : Nat \ {0}, length_in_ms : Nat]

RtpPacket == [payload_type : Nat, sequence_number : Nat, markbit : {0, 1},
              rtp_timestamp : Nat, lowlevel_timestamp : Timeval,
              data_frames : Seq(Frame)]

\* Types of the source's variables; positions stay inside the file.
TypeOK ==
    /\ file \in Files /\ codec_list \in CodecLists
    /\ rtp_in_frame \in FrameCounts /\ start_time \in StartTimes
    /\ iter_active \in BOOLEAN /\ iter_pos \in 0..Len(codec_list)
    /\ pc \in {"start", "loop", "done", "failed"}
    /\ codec \in Codec \cup {NoCodec}
    /\ position \in 0..file.samples
    /\ rtp_packet \in RtpPacket
    /\ frames_count \in Nat /\ frames_count < rtp_in_frame
    /\ sequence_number \in Nat /\ rtp_timestamp \in Nat
    /\ packet_end_timestamp \in Timeval
    /\ transmission \in {"none", "started", "ended"}
    /\ sent \in Seq(RtpPacket)

\* The samples of a packet whose frames follow one another in the file.
Samples(packet) ==
    LET f == packet.data_frames IN
    (f[Len(f)].first + f[Len(f)].samples) - f[1].first

\* What a receiver sees of a packet, with its time in microseconds.
HeaderOf(packet) ==
    [sequence_number |-> packet.sequence_number, rtp_timestamp |-> packet.rtp_timestamp,
     micros |-> Micros(packet.lowlevel_timestamp), markbit |-> packet.markbit,
     samples |-> Samples(packet)]

Stream == INSTANCE RtpStream WITH
    sample_time <- SampleTime,
    origin <- Micros(start_time),
    phase <- transmission,
    sent <- [k \in 1..Len(sent) |-> HeaderOf(sent[k])]

\* The packets the observers are notified of are one continuous RTP stream
\* (RtpStream), across buffers, packets of several frames, the unfinished last
\* packet of a pass and the change from one codec to the next
\* (wavfile_filter.c:105-147).
ImplementsRtpStream == Stream!Spec

\* The codecs the file is encoded with, one pass for each.
Passes == IF codec_list = <<>> THEN <<file.format>> ELSE codec_list

\* The frames a pass over the whole file consists of.
PassFrames(c) ==
    LET b == buffer_size[c]
        count == (file.samples + b - 1) \div b
        length(k) == IF k * b <= file.samples THEN b ELSE file.samples - (k - 1) * b
    IN [k \in 1..count |->
           [codec |-> c, first |-> (k - 1) * b, samples |-> length(k),
            length_in_ms |-> Milliseconds(length(k))]]

\* The frames that were sent, in order.
FramesSent == FlattenSeq([k \in 1..Len(sent) |-> sent[k].data_frames])

\* What the observers receive is every sample of the file, once for every codec
\* of the list, in order, and nothing of it is left behind when the transmission
\* ends (wavfile_filter.c:114-145: frames are flushed when the packet is full
\* and again at the end of the file).
EverySampleOncePerCodec ==
    LET all == FlattenSeq([i \in 1..Len(Passes) |-> PassFrames(Passes[i])])
    IN transmission # "none" =>
           /\ IsPrefix(FramesSent \o rtp_packet.data_frames, all)
           /\ transmission = "ended" => FramesSent = all

\* A packet has one payload type, so it carries frames of one codec only; it is
\* full unless it is the last of its pass, and it is never empty
\* (wavfile_filter.c:115-123, 138).
PacketsAreFilled ==
    \A k \in DOMAIN sent :
        LET f == sent[k].data_frames IN
        /\ 1 <= Len(f) /\ Len(f) <= rtp_in_frame
        /\ \A i \in DOMAIN f : f[i].codec = f[1].codec
        /\ Len(f) < rtp_in_frame => f[Len(f)].first + f[Len(f)].samples = file.samples

\* rtpapi.h:86: payload_type is the "payload type of the packet": the one of the
\* codec its frames were encoded with.
PayloadTypeOfCodec ==
    \A k \in DOMAIN sent :
        sent[k].payload_type = payload_type[sent[k].data_frames[1].codec]

\* What the code does of it: only the first packet of a pass can carry another
\* codec's payload type, that of the pass before (wavfile_filter.c:122, 144: the
\* next packet is begun before the next codec is taken).
StaleTypeOnlyAtSwitch ==
    \A k \in DOMAIN sent :
        LET f == sent[k].data_frames IN
        \/ sent[k].payload_type = payload_type[f[1].codec]
        \/ /\ k > 1 /\ f[1].first = 0
           /\ sent[k].payload_type = payload_type[sent[k - 1].data_frames[1].codec]

\* codec_list has one iterator and others walk the list when the transmission
\* ends (sipp_filter.c:60, 69: list_iterator_start refuses while it is active),
\* so the source has released it by then (wavfile_filter.c:129).
IteratorReleased == transmission = "ended" => ~iter_active

\* The source stops, however many passes it makes.
Terminates == <>(pc \in {"done", "failed"})

================================================================================
