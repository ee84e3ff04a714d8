------------------------------ MODULE FilterChain -------------------------------
(***************************************************************************)
(* The chain of filters that main links (src/wav2rtp.c:132-141) and the     *)
(* synchronous notifications that run through it                            *)
(* (wr_rtp_filter_notify_observers, src/rtpapi.c:160-179), with the call    *)
(* stack explicit: one entry for every loop over observers that is under    *)
(* way.  An action is one iteration of such a loop, with everything that    *)
(* the observer it calls does before it notifies its own observers or       *)
(* returns.                                                                 *)
(*                                                                          *)
(* A packet is its number in the source's stream, its lowlevel timestamp in *)
(* microseconds and the list of data frames it points to.  wr_rtp_packet_copy *)
(* copies the pointer, wr_rtp_packet_copy_with_data makes a list of its     *)
(* own; `heap' says of every list whether it is still there.                *)
(***************************************************************************)
EXTENDS Naturals, Sequences, Functions, SequencesExt

CONSTANTS
    Time,           \* when each packet leaves the source, in microseconds
    Settings,       \* what the configuration and the command line may say
    RAND_MAX        \* the largest value of rand()

\* min_delay and max_delay bound the draws of both delay filters; a delay filter
\* that is disabled has both 0.  Probabilities are in units of 1 / RAND_MAX, and
\* 0 when the filter is disabled.  buffer_size is 0 when sort is disabled.
\* The gamma variate has no bound of its own: gamma_max bounds the model.  The
\* buffer is one that list_sort orders with this comparator (see ListSort).
ASSUME ChainAssumption ==
    /\ Time \in Seq(Nat)
    /\ RAND_MAX \in Nat \ {0}
    /\ Settings \subseteq
           [gamma_max : Nat, min_delay : Nat, max_delay : Nat, buffer_size : Nat,
            loss_0_1 : 0..RAND_MAX, loss_1_1 : 0..RAND_MAX, loss_rate : 0..RAND_MAX,
            format : {"pcap", "rtpdump"}, opens : BOOLEAN]
    /\ \A s \in Settings : s.min_delay <= s.max_delay /\ s.buffer_size < 24

VARIABLES
    settings,
    stack,          \* loops of wr_rtp_filter_notify_observers, innermost last
    source,         \* packets sent by the source
    phase,          \* last event the source has notified of
    state,          \* filter->state of every filter: "null", "alive" or "freed"
    prev_lost,      \* of the Markov filter
    buffer,         \* of the sort filter
    heap,           \* lists of data frames: "live", "freed" or freed twice
    crashed,        \* the process dereferenced a null pointer
    received        \* history: the calls every filter got

vars == <<settings, stack, source, phase, state, prev_lost, buffer, heap, crashed, received>>

--------------------------------------------------------------------------------

Sinks == {"log", "output", "wavfile_output", "sipp"}
Filters == {"gamma_delay", "uniform_delay", "sort", "markov_losses",
            "independent_losses"} \cup Sinks

\* wr_rtp_filter_append_observer (rtpapi.c:146-156)
MAX_OBSERVERS == 256
wr_rtp_filter_append_observer(linked, filter, observer) ==
    IF Len(linked[filter]) < MAX_OBSERVERS - 1
    THEN [linked EXCEPT ![filter] = Append(@, observer)]
    ELSE linked

\* The links main makes: a chain from the source to the last filter, and its four
\* observers.  "output" is the pcap or the rtpdump filter.
chain ==
    LET none == [filter \in Filters \cup {"wavfile"} |-> <<>>]
        one == wr_rtp_filter_append_observer(none, "wavfile", "gamma_delay")
        two == wr_rtp_filter_append_observer(one, "gamma_delay", "uniform_delay")
        three == wr_rtp_filter_append_observer(two, "uniform_delay", "sort")
        four == wr_rtp_filter_append_observer(three, "sort", "markov_losses")
    IN wr_rtp_filter_append_observer(four, "markov_losses", "independent_losses")

observers ==
    LET one == wr_rtp_filter_append_observer(chain, "independent_losses", "log")
        two == wr_rtp_filter_append_observer(one, "independent_losses", "output")
        three == wr_rtp_filter_append_observer(two, "independent_losses", "wavfile_output")
    IN wr_rtp_filter_append_observer(three, "independent_losses", "sipp")

NoPacket == [number |-> 0, time |-> 0, frames |-> <<"none", 0>>]
SourceList(n) == <<"source", n>>
CopiedList(n) == <<"copy", n>>
Lists == {SourceList(n) : n \in DOMAIN Time} \cup {CopiedList(n) : n \in DOMAIN Time}

Packets == [number : DOMAIN Time, time : Nat, frames : Lists]

\* A loop over the observers of `subject'.  When it ends, the packet is destroyed
\* if `destroy' says so.  While `draining', the sort filter empties its buffer.
Loop(subject, event, packet) ==
    [subject |-> subject, event |-> event, packet |-> packet, next |-> 1,
     destroy |-> FALSE, draining |-> FALSE]

top == Last(stack)
callee == observers[top.subject][top.next]

\* The stack when the innermost loop goes on with its next observer.
advanced == [stack EXCEPT ![Len(stack)].next = @ + 1]

\* Mutant of AfterReturn: the loop gives up on a fatal error.
AfterReturnStop(retval) ==
    IF retval = "WR_FATAL"
    THEN [stack EXCEPT ![Len(stack)].next = MAX_OBSERVERS]
    ELSE advanced

\* The errors of an observer are printed, and the loop goes on.
AfterReturn(retval) == advanced

Init ==
    /\ settings \in Settings
    /\ stack = <<>>
    /\ source = 0
    /\ phase = "none"
    /\ state = [f \in Filters |-> "null"]
    /\ prev_lost = FALSE
    /\ buffer = <<>>
    /\ heap = [l \in Lists |-> "none"]
    /\ crashed = FALSE
    /\ received = [f \in Filters |-> <<>>]

--------------------------------------------------------------------------------
(* What the observers do when they are notified.                             *)

\* The innermost loop calls an observer that handles `event' in this way.
Calls(class, event) ==
    /\ ~crashed /\ stack # <<>> /\ ~top.draining
    /\ top.next \in DOMAIN observers[top.subject]
    /\ callee \in class /\ top.event = event
    /\ received' = [received EXCEPT ![callee] =
           Append(@, [event |-> event, number |-> top.packet.number, time |-> top.packet.time])]
    /\ UNCHANGED <<settings, source, phase>>

Forward(packet) == stack' = Append(advanced, Loop(callee, top.event, packet))
Return(retval) == stack' = AfterReturn(retval)

Unchanged == UNCHANGED <<prev_lost, buffer, heap, crashed>>

\* Every filter but the two file writers forwards all events.
Forwarders == Filters \ {"output", "wavfile_output"}

\* The handlers allocate their state when the transmission starts ...
Start ==
    /\ Calls(Forwarders, "TRANSMISSION_START")
    /\ state' = [state EXCEPT ![callee] = "alive"]
    /\ Forward(top.packet)
    /\ Unchanged

\* ... and free it before they tell their observers that it ended.
End ==
    /\ Calls(Forwarders \ {"sort"}, "TRANSMISSION_END")
    /\ state' = [state EXCEPT ![callee] = "freed"]
    /\ Forward(top.packet)
    /\ Unchanged

Delays(filter) ==
    IF filter = "gamma_delay" THEN 0..settings.gamma_max
                              ELSE settings.min_delay..settings.max_delay

\* Mutant of Delay: the filter destroys the copy that it made.
DelayAndDestroy ==
    /\ Calls({"gamma_delay", "uniform_delay"}, "NEW_PACKET")
    /\ \E delay \in Delays(callee) :
           stack' = Append(advanced,
               [Loop(callee, top.event, [top.packet EXCEPT !.time = @ + delay])
                EXCEPT !.destroy = TRUE])
    /\ UNCHANGED state /\ Unchanged

\* Mutant of Delay: the delay is subtracted.
DelaySubtracted ==
    /\ Calls({"gamma_delay", "uniform_delay"}, "NEW_PACKET")
    /\ \E delay \in Delays(callee) : Forward([top.packet EXCEPT !.time = @ - delay])
    /\ UNCHANGED state /\ Unchanged

\* Mutant of Delay: the delay is added twice.
DelayByTwo ==
    /\ Calls({"gamma_delay", "uniform_delay"}, "NEW_PACKET")
    /\ \E delay \in Delays(callee) : Forward([top.packet EXCEPT !.time = @ + 2 * delay])
    /\ UNCHANGED state /\ Unchanged

\* A copy that shares the data frames of the packet is delayed.
Delay ==
    /\ Calls({"gamma_delay", "uniform_delay"}, "NEW_PACKET")
    /\ \E delay \in Delays(callee) : Forward([top.packet EXCEPT !.time = @ + delay])
    /\ UNCHANGED state /\ Unchanged

\* rand() / RAND_MAX < threshold
Lost(draw, threshold) == draw < threshold

\* Mutant of MarkovThreshold: the two probabilities are exchanged.
MarkovThresholdExchanged == IF prev_lost THEN settings.loss_0_1 ELSE settings.loss_1_1
MarkovThreshold == IF prev_lost THEN settings.loss_1_1 ELSE settings.loss_0_1

LoseMarkov ==
    /\ Calls({"markov_losses"}, "NEW_PACKET")
    /\ \E draw \in 0..RAND_MAX :
           /\ prev_lost' = Lost(draw, MarkovThreshold)
           /\ IF prev_lost' THEN Return("WR_OK") ELSE Forward(top.packet)
    /\ UNCHANGED <<state, buffer, heap, crashed>>

LoseIndependently ==
    /\ Calls({"independent_losses"}, "NEW_PACKET")
    /\ \E draw \in 0..RAND_MAX :
           IF Lost(draw, settings.loss_rate) THEN Return("WR_OK") ELSE Forward(top.packet)
    /\ UNCHANGED state /\ Unchanged

\* The log and the SIPp filter look at the packet and forward it.
Watch ==
    /\ Calls({"log", "sipp"}, "NEW_PACKET")
    /\ Forward(top.packet)
    /\ UNCHANGED state /\ Unchanged

--------------------------------------------------------------------------------
(* The sort filter.                                                          *)

\* Mutant of list_sort: the list is left as it is.
list_sortNot(l) == {l}

\* What list_sort may leave behind: the packets in order of their timestamps,
\* equal ones in any order.
list_sort(l) ==
    {s \in SetToSeqs(Range(l)) : \A i, j \in DOMAIN s : i < j => s[i].time <= s[j].time}

\* Mutant of Copied: the copy shares the data frames.
CopiedShallow(packet) == packet
Copied(packet) == [packet EXCEPT !.frames = CopiedList(packet.number)]

\* The copy that leaves a full buffer is not destroyed.
SortNew ==
    /\ Calls({"sort"}, "NEW_PACKET")
    /\ IF settings.buffer_size = 0
       THEN Forward(top.packet) /\ UNCHANGED <<buffer, heap>>
       ELSE LET copy == Copied(top.packet)
                stored == Append(buffer, copy)
            IN /\ heap' = [heap EXCEPT ![copy.frames] = "live"]
               /\ IF Len(stored) > settings.buffer_size
                  THEN \E sorted \in list_sort(stored) :
                           Forward(Head(sorted)) /\ buffer' = Tail(sorted)
                  ELSE Return("WR_OK") /\ buffer' = stored
    /\ UNCHANGED <<state, prev_lost, crashed>>

\* Mutant of SortEnd: the end of the transmission is forwarded before the buffer
\* is empty.
SortEndEarly ==
    /\ Calls({"sort"}, "TRANSMISSION_END")
    /\ buffer' \in list_sort(buffer)
    /\ stack' = Append(Append(advanced,
           [Loop("sort", "TRANSMISSION_END", NoPacket) EXCEPT !.draining = TRUE]),
           Loop("sort", "TRANSMISSION_END", NoPacket))
    /\ UNCHANGED <<state, prev_lost, heap, crashed>>

\* Mutant of SortEnd: the state is freed before the buffer is empty.
SortEndFreeFirst ==
    /\ Calls({"sort"}, "TRANSMISSION_END")
    /\ buffer' \in list_sort(buffer)
    /\ state' = [state EXCEPT !["sort"] = "freed"]
    /\ stack' = Append(advanced,
           [Loop("sort", "TRANSMISSION_END", NoPacket) EXCEPT !.draining = TRUE])
    /\ UNCHANGED <<prev_lost, heap, crashed>>

SortEnd ==
    /\ Calls({"sort"}, "TRANSMISSION_END")
    /\ buffer' \in list_sort(buffer)
    /\ stack' = Append(advanced,
           [Loop("sort", "TRANSMISSION_END", NoPacket) EXCEPT !.draining = TRUE])
    /\ UNCHANGED <<state, prev_lost, heap, crashed>>

\* Before it forwards the end, the filter notifies its observers of every packet
\* left in the buffer and destroys it.
Drain ==
    /\ ~crashed /\ stack # <<>> /\ top.draining
    /\ IF buffer # <<>>
       THEN /\ stack' = Append(stack,
                   [Loop("sort", "NEW_PACKET", Head(buffer)) EXCEPT !.destroy = TRUE])
            /\ buffer' = Tail(buffer)
            /\ UNCHANGED state
       ELSE /\ state' = [state EXCEPT !["sort"] = "freed"]
            /\ stack' = [stack EXCEPT ![Len(stack)].draining = FALSE]
            /\ UNCHANGED buffer
    /\ UNCHANGED <<settings, source, phase, prev_lost, heap, crashed, received>>

--------------------------------------------------------------------------------
(* The file writers.                                                         *)

\* Without its file, the writer has no state and reports an error.
OpenOutput ==
    /\ Calls({"output"}, "TRANSMISSION_START")
    /\ IF settings.opens
       THEN state' = [state EXCEPT !["output"] = "alive"] /\ Return("WR_OK")
       ELSE UNCHANGED state /\ Return("WR_FATAL")
    /\ Unchanged

\* The pcap filter checks its state before it uses it, the rtpdump filter reads
\* the time of the start from it first.
WriteOutput ==
    /\ Calls({"output"}, "NEW_PACKET")
    /\ IF state["output"] = "null" /\ settings.format = "rtpdump"
       THEN crashed' = TRUE /\ UNCHANGED stack
       ELSE /\ Return(IF state["output"] = "null" THEN "WR_FATAL" ELSE "WR_OK")
            /\ UNCHANGED crashed
    /\ UNCHANGED <<state, prev_lost, buffer, heap>>

CloseOutput ==
    /\ Calls({"output"}, "TRANSMISSION_END")
    /\ IF state["output"] = "null"
       THEN UNCHANGED state /\ Return("WR_FATAL")
       ELSE state' = [state EXCEPT !["output"] = "freed"] /\ Return("WR_OK")
    /\ Unchanged

\* The decoder of wavfile_output keeps its state when the transmission ends.
WriteWav ==
    /\ \E event \in {"TRANSMISSION_START", "NEW_PACKET", "TRANSMISSION_END"} :
           /\ Calls({"wavfile_output"}, event)
           /\ state' = [state EXCEPT !["wavfile_output"] =
                            IF event = "TRANSMISSION_START" THEN "alive" ELSE @]
    /\ Return("WR_OK")
    /\ Unchanged

--------------------------------------------------------------------------------
(* The loops and the source that starts them.                                *)

wr_rtp_packet_destroy(list) ==
    heap' = [heap EXCEPT ![list] = IF @ = "live" THEN "freed" ELSE "freed twice"]

\* All observers have been notified; the caller may then destroy the packet.
EndLoop ==
    /\ ~crashed /\ stack # <<>> /\ ~top.draining
    /\ top.next \notin DOMAIN observers[top.subject]
    /\ stack' = Front(stack)
    /\ IF top.destroy THEN wr_rtp_packet_destroy(top.packet.frames) ELSE UNCHANGED heap
    /\ UNCHANGED <<settings, source, phase, state, prev_lost, buffer, crashed, received>>

SourceStart ==
    /\ phase = "none"
    /\ phase' = "started"
    /\ stack' = <<Loop("wavfile", "TRANSMISSION_START", NoPacket)>>
    /\ UNCHANGED <<settings, source, state, prev_lost, buffer, heap, crashed, received>>

SourceSend ==
    /\ ~crashed /\ phase = "started" /\ stack = <<>> /\ source < Len(Time)
    /\ source' = source + 1
    /\ LET n == source + 1
           packet == [number |-> n, time |-> Time[n], frames |-> SourceList(n)]
       IN /\ stack' = <<[Loop("wavfile", "NEW_PACKET", packet) EXCEPT !.destroy = TRUE]>>
          /\ heap' = [heap EXCEPT ![SourceList(n)] = "live"]
    /\ UNCHANGED <<settings, phase, state, prev_lost, buffer, crashed, received>>

\* Mutant of SourceEnd: off by one, the end is never reached.
SourceEndBeyond ==
    /\ ~crashed /\ phase = "started" /\ stack = <<>> /\ source > Len(Time)
    /\ phase' = "ended"
    /\ stack' = <<Loop("wavfile", "TRANSMISSION_END", NoPacket)>>
    /\ UNCHANGED <<settings, source, state, prev_lost, buffer, heap, crashed, received>>

SourceEnd ==
    /\ ~crashed /\ phase = "started" /\ stack = <<>> /\ source = Len(Time)
    /\ phase' = "ended"
    /\ stack' = <<Loop("wavfile", "TRANSMISSION_END", NoPacket)>>
    /\ UNCHANGED <<settings, source, state, prev_lost, buffer, heap, crashed, received>>

Next ==
    \/ SourceStart \/ SourceSend \/ SourceEnd
    \/ Start \/ End \/ EndLoop
    \/ Delay \/ LoseMarkov \/ LoseIndependently \/ Watch
    \/ SortNew \/ SortEnd \/ Drain
    \/ OpenOutput \/ WriteOutput \/ CloseOutput \/ WriteWav

Spec == Init /\ [][Next]_vars /\ WF_vars(Next)

--------------------------------------------------------------------------------

\* The packets a filter was notified of, in order: all it received between START
\* and END (EventsInOrder).
Arrivals(filter) ==
    LET r == received[filter]
        over == r # <<>> /\ Last(r).event = "TRANSMISSION_END"
    IN SubSeq(r, 2, IF over THEN Len(r) - 1 ELSE Len(r))

Done == crashed \/ (phase = "ended" /\ stack = <<>>)

\* Types of the variables; a delay never exceeds what the settings allow.
TypeOK ==
    /\ settings \in Settings
    /\ \A k \in DOMAIN stack :
           /\ stack[k].subject \in Filters \cup {"wavfile"}
           /\ stack[k].packet \in Packets \cup {NoPacket}
           /\ stack[k].next \in 1..MAX_OBSERVERS
    /\ source \in 0..Len(Time)
    /\ phase \in {"none", "started", "ended"}
    /\ state \in [Filters -> {"null", "alive", "freed"}]
    /\ prev_lost \in BOOLEAN /\ crashed \in BOOLEAN
    /\ buffer \in Seq(Packets)
    /\ heap \in [Lists -> {"none", "live", "freed", "freed twice"}]

\* No loop notifies of a packet, and the sort filter keeps none, whose frames
\* were freed, although the delay filters share them and the source destroys its
\* packet as soon as the chain returns (rtpapi.c:78-111, wavfile_filter.c:140).
NoDanglingPacket ==
    /\ \A k \in DOMAIN stack :
           stack[k].event = "NEW_PACKET" => heap[stack[k].packet.frames] = "live"
    /\ \A k \in DOMAIN buffer : heap[buffer[k].frames] = "live"

\* Of all the packets that share a list of frames only one is destroyed
\* (rtpapi.c:101-111, sort_filter.c:89).
DestroyedOnce == \A l \in Lists : heap[l] # "freed twice"

\* Every filter sees START, then packets, then END and nothing after it, also
\* when the sort filter lets packets go at the end (sort_filter.c:84-94).
EventsInOrder ==
    \A f \in Filters : \A k \in DOMAIN received[f] :
        /\ received[f][k].event = "TRANSMISSION_START" <=> k = 1
        /\ received[f][k].event = "TRANSMISSION_END" => k = Len(received[f])

\* A filter that is called with a packet or the end has a state to work with,
\* and the sort filter while it empties its buffer; only the file writer may
\* have none, when its file could not be opened (rtpapi.c:167, sort_filter.c:83-93).
StatesAlive ==
    /\ (stack # <<>> /\ ~top.draining /\ top.event # "TRANSMISSION_START"
        /\ top.next \in DOMAIN observers[top.subject]) =>
           \/ state[callee] = "alive"
           \/ callee = "output" /\ ~settings.opens
    /\ (stack # <<>> /\ \E k \in DOMAIN stack : stack[k].draining) => state["sort"] = "alive"

\* When the chain is at rest, all sinks were told the same, whether one of them
\* failed or not (rtpapi.c:167-177).
SinksAgree ==
    (stack = <<>> /\ ~crashed) => \A f, g \in Sinks : received[f] = received[g]

\* With delays that reorder the packets in front of it, the sort filter lets a
\* packet out behind a later one only if more than buffer_size later ones came
\* in before it (sort_filter.c:72-91).
OnlyLatePacketsOvertaken ==
    LET in == Arrivals("sort")
        out == Arrivals("markov_losses")
    IN \A i, j \in DOMAIN out :
           (i < j /\ out[i].time > out[j].time) =>
               \E k \in DOMAIN in :
                   /\ in[k].number = out[j].number
                   /\ Cardinality({m \in 1..(k - 1) : in[m].time > in[k].time})
                          > settings.buffer_size

WasLost(n) == \A k \in DOMAIN Arrivals("independent_losses") :
                  Arrivals("independent_losses")[k].number # n

\* Losses of the Markov filter come in bursts only if loss_1_1 allows it, and
\* begin only if loss_0_1 does (markov_losses_filter.c:66-72).
LossesFollowChain ==
    stack = <<>> /\ ~crashed =>
    LET in == Arrivals("markov_losses") IN
        \A k \in DOMAIN in : WasLost(in[k].number) =>
            IF k > 1 /\ WasLost(in[k - 1].number) THEN settings.loss_1_1 > 0
                                                  ELSE settings.loss_0_1 > 0

NetworkBetween == INSTANCE Network WITH
    MaxDelays <- {s.gamma_max + s.max_delay : s \in Settings},
    max_delay <- settings.gamma_max + settings.max_delay,
    lossless <- settings.loss_0_1 = 0 /\ settings.loss_rate = 0,
    sent <- source,
    delivered <- [k \in DOMAIN Arrivals("log") |->
                     [packet |-> Arrivals("log")[k].number, time |-> Arrivals("log")[k].time]],
    ended <- \E k \in DOMAIN received["log"] : received["log"][k].event = "TRANSMISSION_END"

\* Together the filters are a network that delays, reorders and loses packets but
\* never invents, duplicates or keeps one (wav2rtp.c:132-141 and the handlers).
ImplementsNetwork == NetworkBetween!Spec

\* The transmission comes to its end (wavfile_filter.c:105-149).
Terminates == <>Done

\* rtpdump_filter.c:138-141 answers a packet that arrives without a state with
\* "internal state of the output filter was not initialized".
MissingStateReported == ~crashed

================================================================================
