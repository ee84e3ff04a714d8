--------------------------------- MODULE RtpMap ---------------------------------
(***************************************************************************)
(* src/rtpmap.c: the encoders and decoders the program knows, and the         *)
(* searches in them.                                                        *)
(*                                                                          *)
(* A codec is its row in a map, [name, payload_type, state], where state has   *)
(* no element before the codec is initialised and then the parameters it was  *)
(* initialised with.                                                        *)
(***************************************************************************)
EXTENDS Naturals, Sequences

Row(name, payload_type) == [name |-> name, payload_type |-> payload_type, state |-> {}]

encoder_map == <<Row("DUMMY", 111), Row("GSM", 3), Row("speex", 96), Row("PCMU", 0), Row("PCMA", 8)>>
decoder_map == <<Row("speex", 96), Row("PCMU", 0), Row("PCMA", 8)>>

\* The first of the rows that match, or 0: get_encoder_by_name, get_decoder_by_name
\* and the two searches by payload type.
FirstOf(rows) == IF rows = {} THEN 0 ELSE CHOOSE i \in rows : \A j \in rows : i <= j

get_by_name(map, name) == FirstOf({i \in DOMAIN map : map[i].name = name})
get_by_pt(map, payload_type) == FirstOf({i \in DOMAIN map : map[i].payload_type = payload_type})

\* What init takes for a payload type that is not configured; it is not always the
\* one in the map.
Fallback == [DUMMY |-> 0, GSM |-> 3, speex |-> 96, PCMU |-> 0, PCMA |-> 0]

\* A frame of GSM and of speex, in samples; what speex asks for a frame it encodes.
FRAME_SIZE == 160
SPEEX_OUTPUT == 600

================================================================================
