-------------------------------- MODULE VoiceData --------------------------------
(***************************************************************************)
(* encode and decode of the codecs (src/g711a_codec.c, g711u_codec.c,         *)
(* gsm_codec.c, speex_codec.c, dummy_codec.c).                              *)
(*                                                                          *)
(* Samples and bytes are written as runs, sequences of <<value, count>>; a    *)
(* byte is a number from 0 to 255.  A byte of GSM or speex, whose libraries   *)
(* are external, stands for the sample it was encoded from.                 *)
(***************************************************************************)
EXTENDS G711, RtpMap

RECURSIVE Spread(_), RunsSize(_)
Spread(runs) ==
    IF runs = <<>> THEN <<>> ELSE [i \in 1..Head(runs)[2] |-> Head(runs)[1]] \o Spread(Tail(runs))
RunsSize(runs) == IF runs = <<>> THEN 0 ELSE Head(runs)[2] + RunsSize(Tail(runs))

Each(runs, F(_)) == [i \in DOMAIN runs |-> <<F(runs[i][1]), runs[i][2]>>]

wr_g711a_encode(input) == Each(input, linear2alaw)
wr_g711u_encode(input) == Each(input, linear2ulaw)
wr_gsm_encode(input) == <<<<input[1][1], 33>>>>
wr_speex_encode(input) == <<<<input[1][1], 38>>>>
wr_dummy_encode(parameters) == <<<<parameters.retval, parameters.output_buffer_size>>>>

\* (*codec->encode)(codec->state, input, output); how many bytes speex takes is up
\* to the library, 38 is what it takes at quality 8.
encode(name, parameters, input) ==
    CASE name = "PCMA" -> wr_g711a_encode(input)
      [] name = "PCMU" -> wr_g711u_encode(input)
      [] name = "GSM" -> wr_gsm_encode(input)
      [] name = "speex" -> wr_speex_encode(input)
      [] name = "DUMMY" -> wr_dummy_encode(parameters)

wr_g711a_decode(data) == Spread(Each(data, alaw2linear))
wr_g711u_decode(data) == Spread(Each(data, ulaw2linear))
wr_speex_decode(data) == [i \in 1..FRAME_SIZE |-> data[1][1]]

\* (*decoder->decode)(decoder->state, data, size, output)
decode(name, data) ==
    CASE name = "PCMA" -> wr_g711a_decode(data)
      [] name = "PCMU" -> wr_g711u_decode(data)
      [] name = "speex" -> wr_speex_decode(data)

\* (*decoder->get_output_buffer_size)(decoder->state), in samples; the row of speex
\* in decoder_map names the function of the encoder.
get_output_buffer_size(row, parameters) ==
    IF row.name = "speex" THEN SPEEX_OUTPUT ELSE parameters.buffer_size

================================================================================
