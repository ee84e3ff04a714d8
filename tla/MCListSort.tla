------------------------------- MODULE MCListSort -------------------------------
EXTENDS ListSort

\* wr_rtp_timestamp_comparator (sort_filter.c:40-45): timercmp(a, b, >) is 1 or 0.
\* The other is one as simclist.h:121-123 asks for (its `greater' is the sort
\* filter's `earlier', the list being sorted with versus = -1).
MCComparator == [name \in {"three_way", "timestamp"}, a \in 1..26, b \in 1..26 |->
    IF a > b THEN 1 ELSE IF a < b /\ name = "three_way" THEN -1 ELSE 0]

MCCall(k, name, limit) == [keys |-> k, comparator |-> name, SIMCLIST_MINQUICKSORTELS |-> limit]

KeySequences(n) == UNION {[1..m -> 1..3] : m \in 0..n}

\* Every sequence of up to five packets with up to three timestamps, sorted with the
\* library's kind of comparator and the selection sort on sublists of two; and of
\* up to four packets, as the sort filter has them sorted.
ShortCalls ==
    {MCCall(k, "three_way", 2) : k \in KeySequences(5)} \cup
    {MCCall(k, "timestamp", 24) : k \in KeySequences(4)}

\* Twenty-five packets that arrive in order but for the last one: the list that
\* a buffer of 24 packets sorts when an overtaken packet comes in.
OneOvertakenPacket ==
    {MCCall([i \in 1..25 |-> IF i = 25 THEN 1 ELSE i + 1], "timestamp", 24)}
================================================================================
