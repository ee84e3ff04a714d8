------------------------------ MODULE PacketTimes -------------------------------
(* The packets that reach the sort filter and the time each of them carries.     *)
EXTENDS Naturals

CONSTANTS
    Packet,         \* the packets the delay filters may hand over
    Time            \* lowlevel_timestamp of each packet, in microseconds

ASSUME TimeAssumption == Time \in [Packet -> Nat]
================================================================================
