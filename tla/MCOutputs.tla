-------------------------------- MODULE MCOutputs --------------------------------
(* Transmissions of up to five packets of one millisecond and more, with losses, *)
(* delays and reordering; all codecs, payload types configured and not; short    *)
(* last frames; frames at the 16-bit limit; streams whose counters wrap.         *)
EXTENDS Outputs

Standard ==
    [PCMU |-> [payload_type |-> 0, buffer_size |-> 8], PCMA |-> [payload_type |-> 8, buffer_size |-> 8],
     GSM |-> [payload_type |-> 3, buffer_size |-> FRAME_SIZE],
     speex |-> [payload_type |-> 96, buffer_size |-> FRAME_SIZE],
     DUMMY |-> [payload_type |-> 111, buffer_size |-> 8, output_buffer_size |-> 64, retval |-> 3]]

Base ==
    [codecs |-> <<"PCMU">>, file_codec |-> "PCMA", config |-> Standard,
     samples |-> 32, tones |-> <<1000, -5, 20000, -32768>>, stack |-> 77, rtp_in_frame |-> 1,
     skipped |-> 0, delays |-> {0}, in_order |-> TRUE, format |-> "pcap", opens |-> TRUE,
     parses |-> TRUE, addresses |-> <<127, 0, 0, 1, 127, 0, 0, 2>>, draws |-> {7},
     timeval_size |-> 8, log_enabled |-> TRUE, sipp_enabled |-> TRUE]

\* Samples around the segments' ends, of both signs.
Tones == UNION {{m, m - 1, -m, -m - 1} : m \in {1, 4, 31, 100, 124, 380, 1000, 32635, 32767} \cup {2^i : i \in 3..14}}

EveryTone == {[Base EXCEPT !.samples = 8, !.codecs = <<codec>>, !.tones = <<tone>>] :
                 codec \in {"PCMU", "PCMA"}, tone \in Tones}

WithLosses == {[Base EXCEPT !.samples = n, !.rtp_in_frame = r, !.format = f] :
                  n \in {40, 36}, r \in {1, 2}, f \in {"pcap", "rtpdump"}}

WithDelays ==
    {[Base EXCEPT !.samples = n, !.delays = {0, 500, 1000}, !.in_order = FALSE, !.format = f] :
        n \in {24, 28}, f \in {"pcap", "rtpdump"}}

\* Two passes, over files that end with and inside a buffer.
TwoCodecs ==
    {[Base EXCEPT !.codecs = c, !.samples = n, !.delays = {0, 250}] :
        c \in {<<"PCMU", "PCMA">>, <<"PCMA", "PCMU">>, <<"PCMU", "PCMU">>, <<"DUMMY", "PCMU">>},
        n \in {16, 20}}
    \cup {[Base EXCEPT !.codecs = c, !.samples = 24, !.config.PCMU.buffer_size = 16,
                       !.config.PCMA.buffer_size = 16] : c \in {<<"PCMU", "PCMA">>, <<"PCMU", "GSM">>}}

WithSpeex == {[Base EXCEPT !.codecs = c, !.samples = 320] : c \in {<<"speex">>, <<"GSM">>}}

\* Types that are not configured, and one that is not the usual one; buffers of
\* different sizes; no codec list.
Unusual ==
    {[Base EXCEPT !.config.PCMA.payload_type = Fallback["PCMA"], !.codecs = <<"PCMA">>],
     [Base EXCEPT !.config.PCMU.payload_type = 97],
     [Base EXCEPT !.config.DUMMY.payload_type = Fallback["DUMMY"], !.config.DUMMY.output_buffer_size = 4,
                  !.codecs = <<"DUMMY", "PCMU">>, !.samples = 16],
     [Base EXCEPT !.config.PCMU.buffer_size = 16, !.codecs = <<"PCMA", "PCMU">>, !.samples = 16],
     [Base EXCEPT !.config.PCMU.buffer_size = 12],
     [Base EXCEPT !.codecs = <<>>, !.sipp_enabled = FALSE]}

\* Headers at the limits of their fields.
Limits ==
    {[Base EXCEPT !.codecs = <<"DUMMY">>, !.samples = 16, !.format = f,
                  !.config.DUMMY.output_buffer_size = n] :
        f \in {"pcap", "rtpdump"}, n \in {1, 65495, 65496}}
    \cup {[Base EXCEPT !.skipped = 65534, !.samples = 8 * 65538, !.format = f] : f \in {"pcap", "rtpdump"}}

Failures ==
    {[Base EXCEPT !.opens = FALSE, !.format = f] : f \in {"pcap", "rtpdump"}}
    \cup {[Base EXCEPT !.format = "rtpdump", !.timeval_size = 16]}
    \cup {[Base EXCEPT !.parses = FALSE], [Base EXCEPT !.draws = {0, 7}, !.log_enabled = FALSE]}

MCSetups == EveryTone \cup WithLosses \cup WithDelays \cup TwoCodecs \cup WithSpeex \cup Unusual
            \cup Limits \cup Failures

\* The packets of a stream are numbered without a gap, over all passes.
ASSUME NumberedThrough ==
    \A s \in MCSetups : \A i \in DOMAIN Stream(s) : Stream(s)[i].number = s.skipped + i

================================================================================
