------------------------------ MODULE MCWavSource ------------------------------
(* Two codecs of different buffer sizes alone, together in both orders, and one *)
(* of them twice; files that are empty, end inside a buffer, at its end and     *)
(* right after it; packets of one to three frames; a start just before the      *)
(* second turns.                                                                *)
EXTENDS WavSource, TLC

CONSTANTS A, B

MCCodec == {A, B}
MCBufferSize == A :> 8 @@ B :> 12
MCPayloadType == A :> 8 @@ B :> 0
MCCodecLists == {<<>>, <<A>>, <<B>>, <<A, B>>, <<B, A>>, <<A, A>>, <<A, B, A>>}
MCFiles ==
    [opens : {TRUE}, rate_ok : {TRUE}, samples : {0, 1, 7, 8, 9, 24, 25, 40},
     format : {A, NoCodec}]
    \cup [opens : BOOLEAN, rate_ok : BOOLEAN, samples : {16}, format : {B}]
MCStartTimes == {[tv_sec |-> 1, tv_usec |-> 999985]}
================================================================================
