------------------------------ MODULE CaptureFiles -------------------------------
(***************************************************************************)
(* src/pcap_filter.c and src/rtpdump_filter.c: one of the two writes the        *)
(* packets to a file.  The file is the sequence of what fwrite wrote, [kind,    *)
(* size in bytes, fields].                                                  *)
(***************************************************************************)
EXTENDS RtpPackets, Checksum

VARIABLE capture        \* the writer's state: [open, file, start_timestamp], and what it returned

Block(kind, size, fields) == [kind |-> kind, size |-> size, fields |-> fields]

FrameBlocks(packet) ==
    [i \in DOMAIN packet.frames |-> Block("data", packet.frames[i].size, packet.frames[i].data)]

Written(blocks) == capture' = [capture EXCEPT !.file = @ \o blocks, !.retval = "WR_OK"]
Failed == capture' = [capture EXCEPT !.retval = "WR_FATAL"]

--------------------------------------------------------------------------------
\* pcap

ETHER_SIZE == 14
IP_SIZE == 20
UDP_SIZE == 8

HeaderSize == IP_SIZE + UDP_SIZE + RTP_HEADER_SIZE

pcap_file_header == Block("file header", 24, [snaplen |-> 65535])

\* The bytes of the IP header with this length and this checksum, in memory.
ip_header(len, sum) ==
    <<69, 0, len \div 256, len % 256, 0, 0, 0, 0, 64, 17, sum % 256, sum \div 256>>
    \o setup.addresses

__init_ip_header(len) ==
    ip_header(len, in_cksum(<<[odd |-> FALSE, bytes |-> ip_header(len, 0)]>>))

\* Mutant of UdpLength: the UDP header is not counted.
UdpLengthShort(packet) == RTP_HEADER_SIZE + DataSize(packet)

\* ip_len and uh_ulen are 16 bits wide, caplen is 32.
UdpLength(packet) == UDP_SIZE + RTP_HEADER_SIZE + DataSize(packet)
caplen(packet) == ETHER_SIZE + HeaderSize + DataSize(packet)

PcapRecord(packet) ==
    <<Block("pcap_pkthdr", 16, [ts |-> packet.time, caplen |-> caplen(packet)]),
      Block("ether", ETHER_SIZE, <<>>),
      Block("ip", IP_SIZE, __init_ip_header(UInt16(HeaderSize + DataSize(packet)))),
      Block("udp", UDP_SIZE, UInt16(UdpLength(packet))),
      Block("rtp", RTP_HEADER_SIZE, wr_rtp_header_init(packet))>> \o FrameBlocks(packet)

\* The addresses are read from the configuration for every packet, and the header
\* is made before the state is looked at.
PcapNewPacket(packet) ==
    IF ~setup.parses THEN Failed /\ UNCHANGED ssrc
    ELSE /\ DrawSsrc
         /\ IF capture.open THEN Written(PcapRecord(packet)) ELSE Failed

--------------------------------------------------------------------------------
\* rtpdump

INFO_SIZE == 8

\* A struct timeval, an address, a port and padding.
__write_rtpdump_header(start_timestamp) ==
    <<Block("file header", setup.timeval_size + 4 + 2 + 2, start_timestamp)>>

PacketLength(packet) == RTP_HEADER_SIZE + DataSize(packet)

RtpdumpRecord(packet) ==
    <<Block("rtpdump_info", INFO_SIZE,
            [length |-> UInt16(PacketLength(packet) + INFO_SIZE), plen |-> UInt16(PacketLength(packet)),
             rec_time |-> UInt32((packet.time - capture.start_timestamp) \div 1000)]),
      Block("rtp", RTP_HEADER_SIZE, wr_rtp_header_init(packet))>> \o FrameBlocks(packet)

\* Without a state there is no step: the filter crashes (see FilterChain).
RtpdumpNewPacket(packet) ==
    /\ capture.open
    /\ DrawSsrc
    /\ Written(RtpdumpRecord(packet))

--------------------------------------------------------------------------------

CaptureInit == capture = [open |-> FALSE, file |-> <<>>, start_timestamp |-> 0, retval |-> "WR_OK"]

\* The rtpdump filter remembers when the source started.
CaptureStart(start) ==
    IF ~setup.opens THEN Failed
    ELSE capture' = [open |-> TRUE, retval |-> "WR_OK",
                     file |-> IF setup.format = "pcap" THEN <<pcap_file_header>>
                                                      ELSE __write_rtpdump_header(start),
                     start_timestamp |-> IF setup.format = "pcap" THEN 0 ELSE start]

CaptureNewPacket(packet) ==
    IF setup.format = "pcap" THEN PcapNewPacket(packet) ELSE RtpdumpNewPacket(packet)

CaptureEnd ==
    IF capture.open THEN capture' = [capture EXCEPT !.open = FALSE, !.retval = "WR_OK"] ELSE Failed

================================================================================
