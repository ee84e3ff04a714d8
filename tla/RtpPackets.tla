------------------------------- MODULE RtpPackets -------------------------------
(***************************************************************************)
(* The RTP packets that reach the sinks, and the header they are written     *)
(* with (src/rtpapi.c, src/rtpapi.h).  Times are in microseconds.            *)
(***************************************************************************)
EXTENDS Integers, Sequences

CONSTANTS
    WORD,           \* the values of a 32-bit word: 2^32
    Setups          \* the configurations, source files and command lines

VARIABLES
    setup,          \* the one this run has
    ssrc            \* the static variable of wr_rtp_header_init

\* The sum of F over the frames of a packet.
SumFrames(packet, F(_)) ==
    LET sum[i \in 0..Len(packet.frames)] ==
            IF i = 0 THEN 0 ELSE sum[i - 1] + F(packet.frames[i])
    IN sum[Len(packet.frames)]

DataSize(packet) == SumFrames(packet, LAMBDA frame : frame.size)
Duration(packet) == SumFrames(packet, LAMBDA frame : frame.length_in_ms)

\* htons and htonl of an integer, as the receiver reads them.
UInt16(n) == n % 65536
UInt32(n) == n % WORD

\* What an int holds after it grew to n (two's complement).
Int32(n) == ((n + WORD \div 2) % WORD) - WORD \div 2

\* A source identifier is drawn for the first packet, and again as long as the draw
\* is 0.  The fields of a header are 1, 7, 16 and 32 bits wide.
DrawSsrc == ssrc' \in IF ssrc = 0 THEN setup.draws ELSE {ssrc}

wr_rtp_header_init(packet) ==
    [markbit |-> packet.markbit % 2, paytype |-> packet.payload_type % 128,
     seq_number |-> UInt16(packet.sequence_number), timestamp |-> UInt32(packet.rtp_timestamp),
     ssrc |-> ssrc']

RTP_HEADER_SIZE == 12

================================================================================
