-------------------------------- MODULE WavOutput --------------------------------
(***************************************************************************)
(* src/wavfile_output_filter.c: the packets are decoded and written to a WAV   *)
(* file at the place where they belong by their time.  The file is a sequence *)
(* of samples with the position of libsndfile.                              *)
(***************************************************************************)
EXTENDS RtpPackets, VoiceData

VARIABLES
    decoders,       \* decoder_map
    wav             \* the filter's state, 0 being a timer that is not set, and what it
                    \* returned; overrun: a frame was longer than its buffer

SampleTime == 125           \* microseconds of a sample at 8000 Hz
SamplesPerMs == 8

sf_write_short(w, samples) ==
    LET end == w.pos + Len(samples)
        length == IF end > Len(w.file) THEN end ELSE Len(w.file)
    IN [w EXCEPT !.pos = end,
                 !.file = [i \in 1..length |->
                              IF i - w.pos \in DOMAIN samples THEN samples[i - w.pos]
                              ELSE IF i \in DOMAIN w.file THEN w.file[i] ELSE 0]]

\* A position in front of the file is refused; one behind its end is not.
sf_seek(w, pos) == IF pos < 0 THEN w ELSE [w EXCEPT !.pos = pos]

\* (int) of the number of samples, which may be negative
Samples(microseconds) ==
    IF microseconds < 0 THEN -(-microseconds \div SampleTime) ELSE microseconds \div SampleTime

\* Mutant of wr_wavfile_seek: the end is not moved by the silence.
wr_wavfile_seekEndKept(w, tv) ==
    IF tv > w.end_time
    THEN sf_write_short([w EXCEPT !.pos = Len(w.file)], [i \in 1..Samples(tv - w.end_time) |-> 0])
    ELSE sf_seek(w, Samples(tv - w.start_time))

\* A time behind the last sample is reached by appending silence to the file.
wr_wavfile_seek(w, tv) ==
    IF tv > w.end_time
    THEN [sf_write_short([w EXCEPT !.pos = Len(w.file)],
                         [i \in 1..Samples(tv - w.end_time) |-> 0]) EXCEPT !.end_time = tv]
    ELSE sf_seek(w, Samples(tv - w.start_time))

\* (*decoder->init)(decoder)
InitDecoder(row) ==
    IF row.state # {} THEN row
    ELSE [row EXCEPT !.payload_type = setup.config[row.name].payload_type,
                     !.state = {setup.config[row.name]}]

\* The buffer is cleared, decoded into, and written as a whole.
Output(row, frame) ==
    LET samples == decode(row.name, frame.data) IN
    [i \in 1..get_output_buffer_size(row, setup.config[row.name]) |->
        IF i \in DOMAIN samples THEN samples[i] ELSE 0]

Fits(row, frame) ==
    Len(decode(row.name, frame.data)) <= get_output_buffer_size(row, setup.config[row.name])

WriteFrame(w, row, frame) ==
    [sf_write_short(w, Output(row, frame)) EXCEPT !.end_time = w.end_time + 1000 * frame.length_in_ms]

WriteFrames(w, row, packet) ==
    LET written[i \in 0..Len(packet.frames)] ==
            IF i = 0 THEN w ELSE WriteFrame(written[i - 1], row, packet.frames[i])
    IN written[Len(packet.frames)]

--------------------------------------------------------------------------------

WavInit ==
    /\ decoders = decoder_map
    /\ wav = [file |-> <<>>, pos |-> 0, start_time |-> 0, end_time |-> 0, retval |-> "WR_OK",
              overrun |-> FALSE]

Timed(w, tv) == [w EXCEPT !.start_time = IF @ = 0 THEN tv ELSE @,
                          !.end_time = IF @ = 0 THEN tv ELSE @]

\* A frame longer than the buffer it is decoded into is written behind it.
WavNewPacket(packet) ==
    /\ ~wav.overrun
    /\ LET found == get_by_pt(decoders, packet.payload_type)
           timed == Timed(wav, packet.time)
       IN IF found = 0
          THEN wav' = [timed EXCEPT !.retval = "WR_FATAL"] /\ UNCHANGED decoders
          ELSE LET row == InitDecoder(decoders[found]) IN
               /\ decoders' = [decoders EXCEPT ![found] = row]
               /\ wav' = IF \A i \in DOMAIN packet.frames : Fits(row, packet.frames[i])
                         THEN [WriteFrames(wr_wavfile_seek(timed, packet.time), row, packet)
                               EXCEPT !.retval = "WR_OK"]
                         ELSE [timed EXCEPT !.overrun = TRUE]

================================================================================
