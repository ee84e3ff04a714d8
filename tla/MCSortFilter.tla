------------------------------ MODULE MCSortFilter ------------------------------
(* Five packets, two of them with equal timestamps, in every order of arrival;  *)
(* the filter disabled, and enabled with buffers of one to three packets.       *)
EXTENDS SortFilter, TLC

CONSTANTS p1, p2, p3, p4, p5

MCPacket == {p1, p2, p3, p4, p5}
MCTime == p1 :> 1 @@ p2 :> 2 @@ p3 :> 2 @@ p4 :> 3 @@ p5 :> 4
MCOutputOptions ==
    {[enabled |-> TRUE, buffer_size |-> n] : n \in 1..3} \cup
    {[enabled |-> FALSE, buffer_size |-> 5]}
================================================================================
