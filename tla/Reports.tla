--------------------------------- MODULE Reports ---------------------------------
(***************************************************************************)
(* src/log_filter.c and src/sipp_filter.c: what the two filters print.  A      *)
(* timestamp that is not set is 0.                                          *)
(***************************************************************************)
EXTENDS RtpPackets

VARIABLES
    log,            \* [prev_timestamp, lines]
    sipp            \* [first_timestamp, last_timestamp, last_duration, scenario]

\* A line of the log; diff is a set that is empty in the first line.
LogLine(packet) ==
    [time |-> packet.time,
     diff |-> IF log.prev_timestamp = 0 THEN {} ELSE {packet.time - log.prev_timestamp},
     sequence_number |-> packet.sequence_number, rtp_timestamp |-> Int32(packet.rtp_timestamp),
     payload_type |-> packet.payload_type]

LogInit == log = [prev_timestamp |-> 0, lines |-> <<>>]

LogNewPacket(packet) ==
    IF setup.log_enabled
    THEN log' = [prev_timestamp |-> packet.time, lines |-> Append(log.lines, LogLine(packet))]
    ELSE UNCHANGED log

--------------------------------------------------------------------------------

SippInit == sipp = [first_timestamp |-> 0, last_timestamp |-> 0, last_duration |-> 0, scenario |-> {}]

\* Mutant of SippNewPacket: the duration is not reset.
SippNewPacketAdded(packet) ==
    IF setup.sipp_enabled
    THEN sipp' = [sipp EXCEPT !.first_timestamp = IF @ = 0 THEN packet.time ELSE @,
                              !.last_timestamp = packet.time,
                              !.last_duration = @ + Duration(packet)]
    ELSE UNCHANGED sipp

SippNewPacket(packet) ==
    IF setup.sipp_enabled
    THEN sipp' = [sipp EXCEPT !.first_timestamp = IF @ = 0 THEN packet.time ELSE @,
                              !.last_timestamp = packet.time,
                              !.last_duration = Duration(packet)]
    ELSE UNCHANGED sipp

\* Milliseconds from the first packet's start to the last one's end, as received.
SippDuration ==
    sipp.last_duration + (sipp.last_timestamp - sipp.first_timestamp) \div 1000

\* The payload types of the codec list, whatever is there twice, and the pause.
__print_sipp_scenario(duration) ==
    IF setup.codecs = <<>> THEN {}
    ELSE {[types |-> [i \in DOMAIN setup.codecs |-> setup.config[setup.codecs[i]].payload_type],
           names |-> setup.codecs, pause |-> duration]}

SippEnd ==
    IF setup.sipp_enabled
    THEN sipp' = [sipp EXCEPT !.scenario = __print_sipp_scenario(SippDuration)]
    ELSE UNCHANGED sipp

================================================================================
