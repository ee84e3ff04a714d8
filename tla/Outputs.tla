--------------------------------- MODULE Outputs ---------------------------------
(***************************************************************************)
(* The four sinks of the chain (log, capture file, decoded WAV file, SIPp      *)
(* scenario), notified together of what the filters in front of them leave of  *)
(* a transmission: packets may be lost, delayed and out of order, as Network   *)
(* allows.  The packets are those of the encoding loop of wavfile_filter.c;     *)
(* the first ones may be lost together, so that streams are long.           *)
(*                                                                          *)
(* A setup gives the codec list, every codec's parameters, the samples of the  *)
(* file in tones of one frame each, what the stack holds behind the samples of *)
(* a short read, and what the configuration says of the filters.            *)
(***************************************************************************)
EXTENDS CaptureFiles, WavOutput, Reports, FiniteSetsExt, Functions

CONSTANT StartTime      \* what gettimeofday returns
ASSUME StartAssumption == StartTime \in Nat \ {0}

VARIABLES
    stream,         \* the packets of the source
    phase,          \* the last event that was not a packet
    received        \* history: the packets the sinks were notified of, and their decoders

vars == <<setup, ssrc, capture, decoders, wav, log, sipp, stream, phase, received>>

--------------------------------------------------------------------------------
\* The source.

Minimum(a, b) == IF a < b THEN a ELSE b
UpToWhole(n, d) == (n + d - 1) \div d

\* The codecs of the passes over the file.
Passes(s) == IF s.codecs = <<>> THEN <<s.file_codec>> ELSE s.codecs

\* Half of the buffer is cleared before the samples are read into it.
Buffer(s, tone, read, size) ==
    LET cleared == IF read > size \div 2 THEN read ELSE size \div 2 IN
    <<<<tone, read>>, <<0, cleared - read>>, <<s.stack, size - cleared>>>>

\* The frame that begins at this sample of the file.
SourceFrame(s, codec, first) ==
    LET parameters == s.config[codec]
        read == Minimum(parameters.buffer_size, s.samples - first)
        tone == s.tones[((first \div parameters.buffer_size) % Len(s.tones)) + 1]
        data == encode(codec, parameters, Buffer(s, tone, read, parameters.buffer_size))
    IN [size |-> RunsSize(data), length_in_ms |-> (1000 * read) \div 8000, data |-> data,
        samples |-> read, tone |-> tone]

\* A pass has a frame for every buffer, and a packet for every rtp_in_frame of them.
PassFrames(s, pass) == UpToWhole(s.samples, s.config[Passes(s)[pass]].buffer_size)
PassLength(s, pass) == UpToWhole(PassFrames(s, pass), s.rtp_in_frame)

\* The packets of the passes before, whose codecs may have other buffers.
PacketsBefore(s, pass) ==
    LET sum[p \in 1..pass] == IF p = 1 THEN 0 ELSE sum[p - 1] + PassLength(s, p - 1)
    IN sum[pass]

\* The packets of a pass from the n-th on; the first packet of a pass still has
\* the payload type of the pass before.
PassPackets(s, pass, n) ==
    LET codec == Passes(s)[pass]
        size == s.config[codec].buffer_size
        frames == PassFrames(s, pass)
        number(k) == PacketsBefore(s, pass) + k
        before(k) == (pass - 1) * s.samples + (k - 1) * s.rtp_in_frame * size
        type(k) == s.config[IF k = 1 /\ pass > 1 THEN Passes(s)[pass - 1] ELSE codec].payload_type
        packet(k) ==
            [number |-> number(k), codec |-> codec, before |-> before(k),
             payload_type |-> type(k), sequence_number |-> number(k) - 1,
             markbit |-> IF number(k) = 1 THEN 1 ELSE 0,
             rtp_timestamp |-> UInt32(Int32(before(k))), time |-> StartTime + SampleTime * before(k),
             frames |-> [j \in 1..Minimum(s.rtp_in_frame, frames - (k - 1) * s.rtp_in_frame) |->
                            SourceFrame(s, codec, ((k - 1) * s.rtp_in_frame + j - 1) * size)]]
    IN [i \in 1..PassLength(s, pass) - n + 1 |-> packet(n + i - 1)]

Stream(s) ==
    LET packets[pass \in 0..Len(Passes(s))] ==
            IF pass = 0 THEN <<>>
            ELSE packets[pass - 1] \o PassPackets(s, pass, IF pass = 1 THEN s.skipped + 1 ELSE 1)
    IN packets[Len(Passes(s))]

Init ==
    /\ setup \in Setups
    /\ stream = Stream(setup)
    /\ ssrc = 0
    /\ CaptureInit /\ WavInit /\ LogInit /\ SippInit
    /\ phase = "none" /\ received = <<>>

--------------------------------------------------------------------------------
\* The events, in the order of main: log, capture, WAV, SIPp.

TransmissionStart ==
    /\ phase = "none" /\ phase' = "started"
    /\ CaptureStart(StartTime)
    /\ UNCHANGED <<setup, ssrc, stream, decoders, wav, log, sipp, received>>

Received(n) == \E k \in DOMAIN received : received[k].number = n

NewPacket ==
    /\ phase = "started"
    /\ \E i \in DOMAIN stream, delay \in setup.delays :
        LET packet == [stream[i] EXCEPT !.time = @ + delay]
            found == get_by_pt(decoders, packet.payload_type)
        IN
        /\ ~Received(packet.number)
        /\ setup.in_order => \A k \in DOMAIN received : received[k].number < packet.number
        /\ LogNewPacket(packet) /\ CaptureNewPacket(packet)
        /\ WavNewPacket(packet) /\ SippNewPacket(packet)
        /\ received' = Append(received,
               [number |-> packet.number, codec |-> packet.codec, before |-> packet.before,
                time |-> packet.time, payload_type |-> packet.payload_type, frames |-> packet.frames,
                decoder |-> IF found = 0 THEN {} ELSE {decoders[found].name}])
    /\ UNCHANGED <<setup, stream, phase>>

\* The file is closed; decoders and state are kept.
TransmissionEnd ==
    /\ phase = "started" /\ ~wav.overrun /\ phase' = "ended"
    /\ CaptureEnd /\ SippEnd
    /\ UNCHANGED <<setup, ssrc, stream, decoders, wav, log, received>>

Next == TransmissionStart \/ NewPacket \/ TransmissionEnd

Spec == Init /\ [][Next]_vars

--------------------------------------------------------------------------------
\* The rendition of the packets by their time.

Decoded == SelectSeq(received, LAMBDA p : p.decoder # {})

DecoderOf(packet) == [name |-> CHOOSE name \in packet.decoder : TRUE]
OutputSize(packet) == get_output_buffer_size(DecoderOf(packet), setup.config[DecoderOf(packet).name])
Clock(frame) == SamplesPerMs * frame.length_in_ms
Offset(packet) == (packet.time - received[1].time) \div SampleTime
ClockEnd(packet) == Offset(packet) + SamplesPerMs * Duration(packet)
WrittenEnd(packet) == Offset(packet) + Len(packet.frames) * OutputSize(packet)

\* Every packet comes at or behind the end of the one before, at a whole sample;
\* if there is a gap between them, no buffer that was written is longer than
\* the time its frame stands for, and a packet's frames fill their buffers, the
\* last one excepted.
InTurn ==
    \A k \in DOMAIN Decoded :
        LET p == Decoded[k] IN
        /\ p.time >= received[1].time
        /\ (p.time - received[1].time) % SampleTime = 0
        /\ \A i \in DOMAIN p.frames : IF i < Len(p.frames) THEN Clock(p.frames[i]) = OutputSize(p)
                                                           ELSE Clock(p.frames[i]) <= OutputSize(p)
        /\ k > 1 => \/ Offset(p) = ClockEnd(Decoded[k - 1])
                    \/ /\ Offset(p) > ClockEnd(Decoded[k - 1])
                       /\ \A j \in 1..k - 1 : WrittenEnd(Decoded[j]) <= ClockEnd(Decoded[k - 1])

Silence(n) == [i \in 1..n |-> 0]

FrameSamples(packet, i) ==
    SubSeq(Output(DecoderOf(packet), packet.frames[i]), 1, Clock(packet.frames[i]))

PacketSamples(packet) ==
    LET samples[i \in 0..Len(packet.frames)] ==
            IF i = 0 THEN <<>> ELSE samples[i - 1] \o FrameSamples(packet, i)
    IN samples[Len(packet.frames)]

\* The sample that a packet leaves at a place of the file, where its buffers reach it.
SampleOf(packet, place) ==
    LET behind == place - Offset(packet) - 1
        size == OutputSize(packet)
    IN Output(DecoderOf(packet), packet.frames[(behind \div size) + 1])[(behind % size) + 1]

Rendition ==
    LET upto[k \in 0..Len(Decoded)] ==
            IF k = 0 THEN <<>>
            ELSE upto[k - 1] \o Silence(Offset(Decoded[k]) - Len(upto[k - 1])) \o PacketSamples(Decoded[k])
    IN upto[Len(Decoded)]

\* How far the buffers reach beyond the time of the last packet.
Overhang == Max({0} \cup {WrittenEnd(Decoded[k]) - Len(Rendition) : k \in DOMAIN Decoded})

\* Packets that come in turn are heard in the WAV file when their time says and
\* only then, with silence for what was lost: what a short frame or a larger
\* buffer wrote too much is overwritten by the packets behind it, whichever decoders
\* wrote it.  It is not cut off at the end: behind the time of the last packet the
\* file goes on for as far as the longest buffer reaches, with what the last packet
\* to reach each place decoded, the rest of the source's buffer included
\* (wavfile_output_filter.c:42-115, wavfile_filter.c:111).  Packets out of turn
\* make the file drift.
Rendered ==
    (~wav.overrun /\ InTurn) =>
        /\ Len(wav.file) = Len(Rendition) + Overhang
        /\ SubSeq(wav.file, 1, Len(Rendition)) = Rendition
        /\ \A place \in Len(Rendition) + 1..Len(wav.file) :
              wav.file[place] =
                  SampleOf(Decoded[Max({k \in DOMAIN Decoded : WrittenEnd(Decoded[k]) >= place})], place)

--------------------------------------------------------------------------------

Abs(n) == IF n < 0 THEN -n ELSE n

\* Half a step of the quantisation at a sample of this size, at most.
Close(sample, decoded) == Abs(decoded - sample) <= 8 + Abs(sample) \div 32

\* No value of the other law is nearer than this one by more than 8, the grid of the
\* finest steps.
Nearest(sample, value, values) == \A v \in values : Abs(value - sample) <= Abs(v - sample) + 8

alaw_values == {alaw2linear(code) : code \in 0..255}
ulaw_values == {ulaw2linear(code) : code \in 0..255}

\* Codes survive decoding and encoding, and the tables between the laws lead to the
\* nearest code, as they were corrected to do.  The two zeros of mu-law become one.
CodeStable(name, code) ==
    IF name = "PCMA"
    THEN /\ linear2alaw(alaw2linear(code)) = code
         /\ Nearest(alaw2linear(code), ulaw2linear(alaw2ulaw(code)), ulaw_values)
    ELSE /\ code = 127 \/ linear2ulaw(ulaw2linear(code)) = code
         /\ Nearest(ulaw2linear(code), alaw2linear(ulaw2alaw(code)), alaw_values)

\* The types of the map are configured, and no other codec has one of them.
StandardTypes ==
    \A name \in DOMAIN setup.config :
        LET known == get_by_name(decoder_map, name)
            found == get_by_pt(decoder_map, setup.config[name].payload_type)
        IN known = found

\* With standard payload types, a packet that carries the type of its codec is
\* decoded by it, every sample to within half a quantisation step, whatever the
\* frame's size and the packets before; a code is not changed by another round, and
\* the tables between the laws take it to the nearest one (rtpmap.c:115, g711.c:71, 91).
DecodedAsSent ==
    \A k \in DOMAIN received :
        LET p == received[k] IN
        (StandardTypes /\ p.payload_type = setup.config[p.codec].payload_type
         /\ p.codec \in {"PCMA", "PCMU"}) =>
            /\ p.decoder = {p.codec}
            /\ \A i \in DOMAIN p.frames :
                LET frame == p.frames[i]
                    samples == decode(p.codec, frame.data)
                IN /\ \A j \in 1..frame.samples : Close(frame.tone, samples[j])
                   /\ CodeStable(p.codec, frame.data[1][1])

--------------------------------------------------------------------------------
\* A reader of the capture file.

SizesUpTo(i, j) ==
    LET sum[n \in i..j] == IF n = i THEN 0 ELSE sum[n - 1] + capture.file[n].size IN sum[j]

\* How many bytes the record's header at block i says are behind it.
Announced(i) ==
    IF setup.format = "pcap" THEN capture.file[i].fields.caplen ELSE capture.file[i].fields.length - INFO_SIZE

Ends(i) == {j \in i + 1..Len(capture.file) : SizesUpTo(i, j) = Announced(i)}

\* The blocks of the records the reader finds, or FALSE at the end if it loses track.
RECURSIVE RecordsFrom(_)
RecordsFrom(i) ==
    IF i > Len(capture.file) THEN <<>>
    ELSE IF Ends(i) = {} THEN <<<<>>>>
    ELSE LET j == CHOOSE j \in Ends(i) : \A m \in Ends(i) : j <= m IN
         <<SubSeq(capture.file, i, j)>> \o RecordsFrom(j + 1)

Records == RecordsFrom(2)
HeaderBlocks == IF setup.format = "pcap" THEN 5 ELSE 2

FitsWord(packet) == HeaderSize + DataSize(packet) < 65536

\* The record is a packet with the header and the data of p.
Carries(record, p) ==
    LET rtp == record[HeaderBlocks].fields IN
    /\ rtp.seq_number = (p.number - 1) % 65536
    /\ rtp.timestamp = p.before % WORD
    /\ rtp.paytype = p.payload_type % 128
    /\ rtp.markbit = (IF p.number = 1 THEN 1 ELSE 0)
    /\ SubSeq(record, HeaderBlocks + 1, Len(record)) = FrameBlocks(p)

\* The header is its own checksum, however it is cut into pieces, and a wrong
\* checksum is corrected.
ChecksumHolds(header) ==
    LET sum == Short(header[11], header[12])
        len == header[3] * 256 + header[4]
    IN /\ \A cut \in 0..IP_SIZE, odd, odd2 \in BOOLEAN :
              in_cksum(<<[odd |-> odd, bytes |-> SubSeq(header, 1, cut)],
                         [odd |-> odd2, bytes |-> SubSeq(header, cut + 1, IP_SIZE)]>>) = 0
       /\ \A wrong \in {0, 1, 4660, 65535} :
              in_cksum_shouldbe(Swapped(wrong), in_cksum(<<[odd |-> FALSE, bytes |-> ip_header(len, wrong)]>>))
                  = Swapped(sum)

\* The lengths of the headers are those of the packet, and the time is its own.
PcapExact(record, p) ==
    LET length == HeaderSize + DataSize(p) IN
    /\ record[1].fields.ts = p.time
    /\ record[3].fields[3] * 256 + record[3].fields[4] = length
    /\ record[4].fields = length - IP_SIZE
    /\ Len(received) = 1 => ChecksumHolds(record[3].fields)

RtpdumpExact(record, p) ==
    /\ record[1].fields.plen = RTP_HEADER_SIZE + DataSize(p)
    /\ (p.time - StartTime) - 1000 * record[1].fields.rec_time \in 0..999

\* The bytes that a reader takes for the header of the file: 16 in an rtpdump file.
FormatHeader == IF setup.format = "pcap" THEN 24 ELSE 16

\* A reader of an rtpdump file begins 8 bytes too early where a struct timeval has 16
\* bytes, as it has on 64-bit systems: the header is written with it
\* (rtpdump_filter.c:62-87).
HeaderTooLong == setup.format = "rtpdump" /\ setup.timeval_size = 16

\* Whoever reads the capture file finds one record for every packet, in order, with
\* its header and its data; lengths and checksums are right as long as they fit
\* into 16 bits, counters count on when they wrap, and one source identifier is
\* used once a draw was not 0 (pcap_filter.c:157-226, rtpdump_filter.c:121-166,
\* rtpapi.c:46-61).  An rtpdump file of a 64-bit system is the exception: its records
\* are found only by a reader who skips the header that was written, not the format's.
CaptureReadable ==
    (setup.parses /\ capture.file # <<>>) =>
      /\ capture.file[1].size = FormatHeader \/ HeaderTooLong
      /\ \/ setup.format = "rtpdump" /\ \E k \in DOMAIN received : ~FitsWord(received[k])
         \/ LET records == Records IN
            /\ Len(records) = Len(received)
            /\ \A k \in DOMAIN received :
                /\ Carries(records[k], received[k])
                /\ FitsWord(received[k]) =>
                     IF setup.format = "pcap" THEN PcapExact(records[k], received[k])
                                              ELSE RtpdumpExact(records[k], received[k])
                /\ records[k][HeaderBlocks].fields.ssrc \in {0, ssrc}

--------------------------------------------------------------------------------

\* No two codecs of the list have a payload type in common.
DistinctTypes ==
    \A i, j \in DOMAIN setup.codecs :
        setup.config[setup.codecs[i]].payload_type = setup.config[setup.codecs[j]].payload_type => i = j

\* The reports tell of the transmission the files hold: the log has a line for
\* every packet, with the distance to the one before; the scenario offers every
\* payload type that is used, and pauses as long as the WAV file plays, to the
\* millisecond and but for the end of a buffer that is longer than its frame, if all
\* packets came in turn and were decoded.  No type is offered twice unless the codec
\* list has it twice, which line 59 of sipp_filter.c wants to be checked and is not
\* (log_filter.c:54-83, sipp_filter.c:43-149, wavfile_output_filter.c:113).
ReportsAgree ==
    phase = "ended" =>
        /\ setup.log_enabled =>
            /\ [k \in DOMAIN log.lines |-> log.lines[k].time] = [k \in DOMAIN received |-> received[k].time]
            /\ \A k \in DOMAIN received :
                /\ UInt32(log.lines[k].rtp_timestamp) = received[k].before % WORD
                /\ k > 1 => log.lines[k].diff = {received[k].time - received[k - 1].time}
        /\ \A offer \in sipp.scenario :
            /\ \A k \in DOMAIN received :
                \E i \in DOMAIN offer.types : offer.types[i] = received[k].payload_type
            /\ DistinctTypes => IsInjective(offer.types)
            /\ (received # <<>> /\ Decoded = received /\ InTurn) =>
                SampleTime * (Len(wav.file) - Overhang) - 1000 * offer.pause \in 0..999

================================================================================
