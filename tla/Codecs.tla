--------------------------------- MODULE Codecs ---------------------------------
(***************************************************************************)
(* What the codecs that rtpmap.c lists (src/g711a_codec.c, g711u_codec.c,      *)
(* gsm_codec.c, speex_codec.c, dummy_codec.c) take from the configuration when *)
(* they are initialised.  The names of options and codecs are the program's.   *)
(***************************************************************************)
EXTENDS IniParser, RtpMap, TLC

\* The section of a codec's options.
Section == [DUMMY |-> "dummy", GSM |-> "gsm", speex |-> "speex", PCMU |-> "g711u", PCMA |-> "g711a"]

InRange(value) == IF value \in 0..10 THEN value ELSE -1

\* The program's own keys are in lower case, and their hashes are not that of an
\* empty slot.
ASSUME CodecsAssumption ==
    \A name \in DOMAIN Section :
        LET key == <<Section[name], "payload_type">>
        IN strlwc(key) = key /\ key \in DOMAIN Hash /\ Hash[key] # 0

\* wr_speex_encoder_init: parameters out of range are not handed to the library.
speex_parameters(options) ==
    [quality    |-> InRange(iniparser_getint(options, <<"speex", "quality">>, -1)),
     complexity |-> InRange(iniparser_getint(options, <<"speex", "complexity">>, -1)),
     bitrate    |-> iniparser_getint(options, <<"speex", "bitrate">>, -1),
     switches   |-> [s \in {"abr_enabled", "vad_enabled", "dtx_enabled", "vbr_enabled"} |->
                        iniparser_getboolean(options, <<"speex", s>>, 0)],
     vbr_quality |-> InRange(iniparser_getint(options, <<"speex", "vbr_quality">>, -1))]

\* A char is a byte with a sign.
Char(n) == ((n + 128) % 256) - 128

\* The parameters of an initialised encoder: get_input_buffer_size in samples,
\* get_output_buffer_size in bytes, and what only this codec has.
Parameters(name, options) ==
    LET size(key, notfound) == iniparser_getpositiveint(options, <<Section[name], key>>, notfound) IN
    CASE name \in {"PCMU", "PCMA"} ->
             [input |-> size("buffer_size", 640), output |-> size("buffer_size", 640)]
      [] name = "GSM" -> [input |-> FRAME_SIZE, output |-> 33]
      [] name = "speex" -> [input |-> FRAME_SIZE, output |-> SPEEX_OUTPUT] @@ speex_parameters(options)
      [] name = "DUMMY" ->
             [input |-> size("input_buffer_size", 640), output |-> size("output_buffer_size", 64),
              retval |-> Char(iniparser_getnonnegativeint(options, <<"dummy", "retval">>, 0))]

ConfiguredType(name, options) ==
    iniparser_getnonnegativeint(options, <<Section[name], "payload_type">>, Fallback[name])

\* (*pcodec->init)(pcodec) when memory is there
init(row, options) ==
    [row EXCEPT !.payload_type = ConfiguredType(row.name, options),
                !.state = {Parameters(row.name, options)}]

================================================================================
