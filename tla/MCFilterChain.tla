----------------------------- MODULE MCFilterChain -----------------------------
(* Three packets that small delays bring out of order; no, some and all losses, *)
(* no sorting and buffers of one and two packets, either file format, with and  *)
(* without a file to write to.                                                  *)
EXTENDS FilterChain, TLC

MCTime == <<0, 1, 3>>

Plain == [gamma_max |-> 0, min_delay |-> 0, max_delay |-> 0, buffer_size |-> 0,
          loss_0_1 |-> 0, loss_1_1 |-> 0, loss_rate |-> 0,
          format |-> "pcap", opens |-> TRUE]
Delayed == [Plain EXCEPT !.gamma_max = 2, !.min_delay = 1, !.max_delay = 2]
Lossy == [Plain EXCEPT !.loss_0_1 = 1, !.loss_rate = 1]

MCSettings ==
    {[Delayed EXCEPT !.buffer_size = n] : n \in 0..2} \cup
    {[Plain EXCEPT !.loss_0_1 = l, !.loss_1_1 = m] : l, m \in 0..2} \cup
    {[Lossy EXCEPT !.max_delay = 2, !.buffer_size = n, !.loss_1_1 = l] :
         n \in {0, 1, 3}, l \in {0, 2}} \cup
    {[Delayed EXCEPT !.buffer_size = 1, !.format = f, !.opens = b] :
         f \in {"pcap", "rtpdump"}, b \in BOOLEAN}
================================================================================
