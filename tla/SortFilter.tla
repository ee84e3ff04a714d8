------------------------------- MODULE SortFilter -------------------------------
(***************************************************************************)
(* wr_sort_filter_notify (src/sort_filter.c): one action per event that the *)
(* previous filter of the chain delivers.                                   *)
(*                                                                          *)
(* A packet is an identifier with a lowlevel timestamp.  Every packet that  *)
(* the filter stores is a deep copy made by wr_rtp_packet_copy_with_data;   *)
(* `copies' is the set of copies on the heap, named after the packets they  *)
(* copy.                                                                    *)
(*                                                                          *)
(* list_sort is used through what ListSort checks of it: the elements stay, *)
(* and as long as there are no more than SIMCLIST_MINQUICKSORTELS of them   *)
(* they end up in order, equal timestamps in any order.  Longer lists go    *)
(* through the quicksort, which ListSort shows to fail with the comparator  *)
(* of this filter: nothing is assumed of their order here.                  *)
(***************************************************************************)
EXTENDS PacketTimes, Sequences, FiniteSets, Functions

CONSTANTS
    OutputOptions,              \* what the [sort] section may say
    SIMCLIST_MINQUICKSORTELS    \* 24 in simclist.c:59

ASSUME OptionsAssumption ==
    OutputOptions \subseteq [enabled : BOOLEAN, buffer_size : Nat \ {0}]

\* The buffer size is one the filter can sort (the default is 1 and
\* output.conf sets 5).
ASSUME BufferSizeAssumption ==
    /\ SIMCLIST_MINQUICKSORTELS \in Nat
    /\ \A o \in OutputOptions : o.buffer_size < SIMCLIST_MINQUICKSORTELS

VARIABLES
    output_options,     \* wr_options.output_options, section [sort]
    transmission,       \* last of START and END that was passed on ("none" before)
    enabled,            \* wr_sort_filter_state_t, set up by START
    buffer_size,
    buffer,
    copies,             \* deep copies alive on the heap
    input,              \* history: the packets received, in order
    output              \* history: the packets the observers were notified of

vars == <<output_options, transmission, enabled, buffer_size, buffer, copies, input, output>>

--------------------------------------------------------------------------------

\* timercmp(a, b, >): an int that is 1 or 0, never negative
wr_rtp_timestamp_comparator(a, b) == IF Time[a] > Time[b] THEN 1 ELSE 0

\* The ways to reorder a list of n elements.
Reorderings(n) ==
    {f \in [1..n -> 1..n] :
        /\ \A i, j \in 1..n : f[i] = f[j] => i = j
        /\ \A k \in 1..n : \E i \in 1..n : f[i] = k}

\* The lists list_sort(l, -1) may leave behind.
list_sort(l) ==
    {s \in {[i \in 1..Len(l) |-> l[f[i]]] : f \in Reorderings(Len(l))} :
        Len(l) <= SIMCLIST_MINQUICKSORTELS =>
            \A i, j \in 1..Len(l) :
                i < j => wr_rtp_timestamp_comparator(s[i], s[j]) = 0}

--------------------------------------------------------------------------------

Init ==
    /\ output_options \in OutputOptions
    /\ transmission = "none"
    /\ enabled = FALSE
    /\ buffer_size = 0
    /\ buffer = <<>>
    /\ copies = {}
    /\ input = <<>>
    /\ output = <<>>

\* Mutant of TransmissionStart: a disabled filter marks its size with -1.
TransmissionStartUnsized ==
    /\ transmission = "none"
    /\ enabled' = output_options.enabled
    /\ buffer_size' = IF output_options.enabled THEN output_options.buffer_size ELSE 0 - 1
    /\ buffer' = <<>>
    /\ transmission' = "started"
    /\ UNCHANGED <<output_options, copies, input, output>>

TransmissionStart ==
    /\ transmission = "none"
    /\ enabled' = output_options.enabled
    /\ buffer_size' = output_options.buffer_size
    /\ buffer' = <<>>
    /\ transmission' = "started"
    /\ UNCHANGED <<output_options, copies, input, output>>

\* Disabled: the packet is passed on as it is.
PassThrough(p) ==
    /\ ~enabled
    /\ output' = Append(output, p)
    /\ UNCHANGED <<buffer, copies>>

\* Mutant of Store: the packet itself is stored, not a copy.
StoreWithoutCopy(p) ==
    /\ enabled
    /\ UNCHANGED copies
    /\ LET stored == Append(buffer, p) IN
       IF Len(stored) > buffer_size
       THEN \E sorted \in list_sort(stored) :
                /\ buffer' = Tail(sorted)
                /\ output' = Append(output, Head(sorted))
       ELSE buffer' = stored /\ UNCHANGED output

\* Mutant of Store: the buffer is not sorted before a packet leaves.
StoreUnsorted(p) ==
    /\ enabled
    /\ copies' = copies \cup {p}
    /\ LET stored == Append(buffer, p) IN
       IF Len(stored) > buffer_size
       THEN /\ buffer' = Tail(stored)
            /\ output' = Append(output, Head(stored))
       ELSE buffer' = stored /\ UNCHANGED output

\* A copy is appended; one packet more than buffer_size pushes the first of the
\* sorted list out.  Its destruction is commented out (sort_filter.c:77-78).
Store(p) ==
    /\ enabled
    /\ copies' = copies \cup {p}
    /\ LET stored == Append(buffer, p) IN
       IF Len(stored) > buffer_size
       THEN \E sorted \in list_sort(stored) :
                /\ buffer' = Tail(sorted)
                /\ output' = Append(output, Head(sorted))
       ELSE buffer' = stored /\ UNCHANGED output

NewPacket(p) ==
    /\ transmission = "started"
    /\ p \notin Range(input)         \* the source sends no packet twice
    /\ input' = Append(input, p)
    /\ PassThrough(p) \/ Store(p)
    /\ UNCHANGED <<output_options, transmission, enabled, buffer_size>>

\* What is left is sorted, passed on and destroyed, packet by packet.
TransmissionEnd ==
    /\ transmission = "started"
    /\ \E sorted \in list_sort(buffer) : output' = output \o sorted
    /\ copies' = copies \ Range(buffer)
    /\ buffer' = <<>>
    /\ transmission' = "ended"
    /\ UNCHANGED <<output_options, enabled, buffer_size, input>>

Next ==
    \/ TransmissionStart
    \/ \E p \in Packet : NewPacket(p)
    \/ TransmissionEnd

Spec == Init /\ [][Next]_vars

--------------------------------------------------------------------------------

\* Types of the variables: packets and sequences of them, sizes never negative.
TypeOK ==
    /\ output_options \in OutputOptions
    /\ transmission \in {"none", "started", "ended"}
    /\ enabled \in BOOLEAN
    /\ buffer_size \in Nat
    /\ buffer \in Seq(Packet)
    /\ copies \subseteq Packet
    /\ input \in Seq(Packet)
    /\ output \in Seq(Packet)

\* How many packets this configuration holds back.
Capacity(o) == IF o.enabled THEN o.buffer_size ELSE 0

\* The packets before which more than c packets with larger timestamps arrived.
LatePackets(s, c) ==
    {s[i] : i \in {k \in DOMAIN s :
        Cardinality({q \in {s[j] : j \in 1..(k - 1)} : Time[q] > Time[s[k]]}) > c}}

Buffer == INSTANCE ReorderBuffer WITH
    capacity <- Capacity(output_options),
    arrived <- Range(input),
    late <- LatePackets(input, Capacity(output_options)),
    buffer <- Range(buffer),
    emitted <- output,
    ended <- transmission = "ended"

\* The filter does what ReorderBuffer promises: every packet received leaves
\* exactly once, no more than buffer_size are held back, and only a packet that
\* came in too late leaves behind one with a larger timestamp
\* (sort_filter.h:40, sort_filter.c:63-95).
ImplementsReorderBuffer == Buffer!Spec

\* A stored packet is alive as long as it is in the list, and the list holds no
\* packet that an observer was already notified of (sort_filter.c:69-91).
StoredPacketsAlive ==
    /\ Range(buffer) \subseteq copies
    /\ Range(buffer) \cap Range(output) = {}

\* rtpapi.h:126-128 on wr_rtp_packet_copy_with_data: "This packet should be
\* destroyed via #wr_rtp_packet_destroy".  After the transmission no copy
\* should be left on the heap.
CopiesDestroyed == transmission = "ended" => copies = {}

================================================================================
