--------------------------- MODULE FilterChainProofs ----------------------------
(***************************************************************************)
(* The chain of filters keeps its safety properties whatever the packets,   *)
(* their times and the settings.  The inductive invariant says which stacks *)
(* of notifications there can be (Shape), how far the transmission has come *)
(* for every filter (Phases), what that means for its state (States), which *)
(* packets each filter has seen, the loops carry and the sort filter keeps, *)
(* with their delays and their lists of data frames (Flow, Flushed), where  *)
(* every packet is when none may be lost (Complete), and what the sinks     *)
(* have been told (Told).  Two more invariants follow the losses of the     *)
(* Markov filter (Losses) and the packets that were overtaken (Overtaking). *)
(***************************************************************************)
EXTENDS FilterChain, FiniteSetTheorems, SequenceTheorems, TLAPS

\* Who notifies, of what, and what the filters and the loops are made of.
Subjects == Filters \cup {"wavfile"}
Events == {"TRANSMISSION_START", "NEW_PACKET", "TRANSMISSION_END"}
Entries == [event : Events, number : Nat, time : Nat]
Loops == [subject : Subjects, event : Events, packet : Packets \cup {NoPacket},
          next : 1..5, destroy : BOOLEAN, draining : BOOLEAN]

\* Who notifies a filter, as which of its observers, and how far it is from the source.
Parent == [f \in Filters |->
    CASE f = "gamma_delay" -> "wavfile"
      [] f = "uniform_delay" -> "gamma_delay"
      [] f = "sort" -> "uniform_delay"
      [] f = "markov_losses" -> "sort"
      [] f = "independent_losses" -> "markov_losses"
      [] OTHER -> "independent_losses"]
Index == [f \in Filters |->
    CASE f = "output" -> 2 [] f = "wavfile_output" -> 3 [] f = "sipp" -> 4 [] OTHER -> 1]
Level == [s \in Subjects |->
    CASE s = "wavfile" -> 0 [] s = "gamma_delay" -> 1 [] s = "uniform_delay" -> 2
      [] s = "sort" -> 3 [] s = "markov_losses" -> 4 [] s = "independent_losses" -> 5
      [] OTHER -> 6]

--------------------------------------------------------------------------------
(* The inductive invariant.                                                  *)

\* The sort filter is emptying its buffer: the fourth loop.  Only what lies on top
\* of that loop is about the packets of the buffer.
Drained(s, k) == k > 4 /\ s[4].draining

\* What the k-th loop of a stack looks like: one level further from the source than the loop
\* below it; the loops on top of a sort filter that drains its buffer begin at its level again.
Placed(s, k) ==
    /\ Drained(s, k) => Level[s[k].subject] = k - 2 /\ s[k].event = "NEW_PACKET"
    /\ ~Drained(s, k) => Level[s[k].subject] = k - 1 /\ s[k].event = s[1].event
    /\ s[k].next <= Len(observers[s[k].subject]) + 1
    /\ s[k].draining => k = 4 /\ s[k].event = "TRANSMISSION_END" /\ s[k].next = 1
    /\ k < Len(s) /\ ~s[k].draining => s[k].next > 1
    /\ s[k].event = "NEW_PACKET" => s[k].packet \in Packets
    /\ s[k].destroy <=> s[k].event = "NEW_PACKET" /\ (k = 1 \/ (k = 5 /\ Drained(s, 5)))

IsShape(s) == s \in Seq(Loops) /\ \A k \in 1..Len(s) : Placed(s, k)

Shape == IsShape(stack)

\* Types of the variables.
Types ==
    /\ settings \in Settings
    /\ source \in 0..Len(Time)
    /\ phase \in {"none", "started", "ended"}
    /\ state \in [Filters -> {"null", "alive", "freed"}]
    /\ prev_lost \in BOOLEAN /\ crashed \in BOOLEAN
    /\ buffer \in Seq(Packets)
    /\ heap \in [Lists -> {"none", "live", "freed"}]
    /\ received \in [Filters -> Seq(Entries)]

\* How far the transmission has come for a filter that received these calls.
StatusOf(calls) ==
    IF calls = <<>> THEN "none"
    ELSE IF calls[Len(calls)].event = "TRANSMISSION_END" THEN "ended" ELSE "started"

Status == [s \in Subjects |-> IF s = "wavfile" THEN phase ELSE StatusOf(received[s])]

\* The status a filter comes to with an event, and the one it comes from.
After(event) == IF event = "TRANSMISSION_START" THEN "started" ELSE "ended"
Previous(status) == IF status = "ended" THEN "started" ELSE "none"

\* The filter in front is telling of the start or the end, and not yet this filter.
Waits(loop, f) ==
    /\ loop.subject = Parent[f] /\ loop.event # "NEW_PACKET"
    /\ loop.draining \/ loop.next <= Index[f]
Pending(s, f) == \E k \in 1..Len(s) : Waits(s[k], f)

\* What a loop says about the filter that runs it.
Reached(s, k) ==
    IF s[k].event # "NEW_PACKET" THEN After(s[k].event)
    ELSE IF k = 5 /\ Drained(s, k) THEN "ended" ELSE "started"

\* A filter is where the filter in front of it is, or one event behind while it waits.
IsPhases(s, status) ==
    /\ \A k \in 1..Len(s) : status[s[k].subject] = Reached(s, k)
    /\ \A f \in Filters : Pending(s, f) => status[f] = Previous(status[Parent[f]])
    /\ \A f \in Filters : ~Pending(s, f) => status[f] = status[Parent[f]]

\* START first, END last, packets between them.
InOrder(calls) ==
    \A k \in 1..Len(calls) :
        /\ calls[k].event = "TRANSMISSION_START" <=> k = 1
        /\ calls[k].event = "TRANSMISSION_END" => k = Len(calls)

Phases == IsPhases(stack, Status) /\ \A f \in Filters : InOrder(received[f])

\* A filter that has been started and not ended has its state.
States ==
    /\ \A f \in Filters : Status[f] = "started" =>
           state[f] = "alive" \/ (f = "output" /\ ~settings.opens)
    /\ \A k \in 1..Len(stack) : stack[k].draining => state["sort"] = "alive"

\* The packets that a filter was told of, by their numbers.
SeenIn(calls) ==
    {calls[k].number : k \in {i \in 1..Len(calls) : calls[i].event = "NEW_PACKET"}}
Seen(f) == SeenIn(received[f])

\* The packets in the buffer of the sort filter.
Kept == Range(buffer)
Distinct(b) == \A i, j \in 1..Len(b) : b[i].number = b[j].number => i = j

Innermost(s) == s[Len(s)]

\* The packet of the innermost loop has yet to reach the filters behind it.
OnWay(s) ==
    /\ s # <<>> /\ Innermost(s).event = "NEW_PACKET" /\ Innermost(s).next = 1
    /\ Innermost(s).subject \notin Sinks

\* No filter further away than `level' has seen the packet.
Fresh(packet, level) == \A f \in Filters : Level[f] > level => packet.number \notin Seen(f)

\* How long the packet of the k-th loop may have been delayed.
Bound(k) ==
    IF k = 1 THEN 0 ELSE IF k = 2 THEN settings.gamma_max
    ELSE settings.gamma_max + settings.max_delay
InTime(packet, k) ==
    Time[packet.number] <= packet.time /\ packet.time <= Time[packet.number] + Bound(k)

\* A packet in the buffer: a live copy that no filter behind sort has seen.
KeptPacket(p) ==
    /\ p.frames = CopiedList(p.number) /\ heap[p.frames] = "live"
    /\ p.number <= source /\ Fresh(p, 3) /\ InTime(p, 4)

\* The packet of the k-th loop: alive, and up to the sort filter the one just sent.
LoopPacket(k) ==
    /\ heap[stack[k].packet.frames] = "live"
    /\ stack[k].packet.number <= source /\ InTime(stack[k].packet, k)
    /\ k <= 3 => stack[k].packet.number = source /\ stack[k].packet.frames = SourceList(source)
    /\ k >= 4 => \A p \in Kept : p.number # stack[k].packet.number
    /\ k = 5 /\ Drained(stack, 5) => stack[5].packet.frames = CopiedList(stack[5].packet.number)

\* No packet is there twice, none is dangling and none is later than it may be.
Flow ==
    /\ Distinct(buffer) /\ \A p \in Kept : KeptPacket(p)
    /\ \A k \in 1..Len(stack) : stack[k].event = "NEW_PACKET" => LoopPacket(k)
    /\ OnWay(stack) =>
           /\ \A p \in Kept : p.number # Innermost(stack).packet.number
           /\ Fresh(Innermost(stack).packet, Level[Innermost(stack).subject])
    /\ \A f \in Filters : Seen(f) \subseteq 1..source

\* Once the end is on its way behind the sort filter, its buffer is empty.
Flushed ==
    \A k \in 1..Len(stack) :
        k >= 4 /\ stack[k].event = "TRANSMISSION_END" /\ ~stack[k].draining => buffer = <<>>

\* When no filter loses packets, every packet that was sent reached the sinks, is in the
\* buffer or is on its way.
Lossless == settings.loss_0_1 = 0 /\ settings.loss_rate = 0
Complete ==
    Lossless =>
        /\ ~prev_lost
        /\ \A n \in 1..source :
               \/ n \in Seen("log") \/ \E p \in Kept : p.number = n
               \/ OnWay(stack) /\ Innermost(stack).packet.number = n

\* What a loop's observers are told.
Entry(loop) ==
    [event |-> loop.event, number |-> loop.packet.number, time |-> loop.packet.time]

\* While `loop' runs, the sinks in front were told this too, and all of them what came before.
ToldBy(loop, calls) ==
    \E before \in Seq(Entries) : \A f \in Sinks :
        calls[f] = IF Index[f] < loop.next THEN Append(before, Entry(loop)) ELSE before
AreTold(s, calls) ==
    /\ (\A k \in 1..Len(s) : s[k].subject # "independent_losses") =>
           \A f, g \in Sinks : calls[f] = calls[g]
    /\ \A k \in 1..Len(s) : s[k].subject = "independent_losses" => ToldBy(s[k], calls)

\* The sinks are told the same.
Told == ~crashed => AreTold(stack, received)

Inv == Shape /\ Types /\ Phases /\ States /\ Flow /\ Flushed /\ Complete /\ Told

--------------------------------------------------------------------------------
(* The links of main.                                                        *)

\* The names of the filters.
LEMMA Names ==
    /\ "wavfile" \in Subjects /\ "gamma_delay" \in Subjects /\ "uniform_delay" \in Subjects
    /\ "sort" \in Subjects /\ "markov_losses" \in Subjects /\ "independent_losses" \in Subjects
    /\ "gamma_delay" \in Filters /\ "uniform_delay" \in Filters /\ "sort" \in Filters
    /\ "markov_losses" \in Filters /\ "independent_losses" \in Filters
    /\ "log" \in Filters /\ "output" \in Filters /\ "wavfile_output" \in Filters
    /\ "sipp" \in Filters
    BY DEF Subjects, Filters, Sinks

\* Only the links of `filter' change: `observer' comes behind its observers.
IsLinked(result, linked, filter, observer) ==
    /\ result \in [Subjects -> Seq(Filters)]
    /\ Len(result[filter]) = Len(linked[filter]) + 1
    /\ result[filter][Len(linked[filter]) + 1] = observer
    /\ \A i \in 1..Len(linked[filter]) : result[filter][i] = linked[filter][i]
    /\ \A s \in Subjects : s # filter => result[s] = linked[s]

\* What wr_rtp_filter_append_observer does while there is room for another observer.
LEMMA Link ==
    ASSUME NEW linked \in [Subjects -> Seq(Filters)], NEW s \in Subjects,
           NEW f \in Filters, Len(linked[s]) < 255
    PROVE  IsLinked(wr_rtp_filter_append_observer(linked, s, f), linked, s, f)
<1> DEFINE result == [linked EXCEPT ![s] = Append(linked[s], f)]
<1>1. Append(linked[s], f) \in Seq(Filters)
    OBVIOUS
<1>2. result \in [Subjects -> Seq(Filters)]
    BY <1>1
<1>3. wr_rtp_filter_append_observer(linked, s, f) = result
    BY DEF wr_rtp_filter_append_observer, MAX_OBSERVERS
<1>4. result[s] = Append(linked[s], f) /\ \A r \in Subjects : r # s => result[r] = linked[r]
    OBVIOUS
<1> HIDE DEF result
<1> QED
    BY <1>1, <1>2, <1>3, <1>4 DEF IsLinked

\* The first six links: every filter of the chain has one observer, the next filter.
LEMMA Chain ==
    /\ chain \in [Subjects -> Seq(Filters)]
    /\ Len(chain["wavfile"]) = 1 /\ chain["wavfile"][1] = "gamma_delay"
    /\ Len(chain["gamma_delay"]) = 1 /\ chain["gamma_delay"][1] = "uniform_delay"
    /\ Len(chain["uniform_delay"]) = 1 /\ chain["uniform_delay"][1] = "sort"
    /\ Len(chain["sort"]) = 1 /\ chain["sort"][1] = "markov_losses"
    /\ Len(chain["markov_losses"]) = 1 /\ chain["markov_losses"][1] = "independent_losses"
    /\ Len(chain["independent_losses"]) = 0
    /\ \A s \in Sinks : Len(chain[s]) = 0
<1> DEFINE none == [filter \in Filters \cup {"wavfile"} |-> <<>>]
           one == wr_rtp_filter_append_observer(none, "wavfile", "gamma_delay")
           two == wr_rtp_filter_append_observer(one, "gamma_delay", "uniform_delay")
           three == wr_rtp_filter_append_observer(two, "uniform_delay", "sort")
           four == wr_rtp_filter_append_observer(three, "sort", "markov_losses")
<1>1. none \in [Subjects -> Seq(Filters)] /\ \A s \in Subjects : Len(none[s]) = 0
    BY DEF Subjects
<1>2. chain = wr_rtp_filter_append_observer(four, "markov_losses", "independent_losses")
    BY DEF chain
<1> HIDE DEF none, one, two, three, four
<1>3. /\ one \in [Subjects -> Seq(Filters)]
      /\ Len(one["wavfile"]) = 1 /\ one["wavfile"][1] = "gamma_delay"
      /\ \A s \in Subjects : s \notin {"wavfile"} => Len(one[s]) = 0
    <2>1. "wavfile" \in Subjects /\ "gamma_delay" \in Filters
        BY Names
    <2>2. Len(none["wavfile"]) = 0 /\ none \in [Subjects -> Seq(Filters)]
        BY <2>1, <1>1
    <2>3. IsLinked(wr_rtp_filter_append_observer(none, "wavfile", "gamma_delay"), none, "wavfile", "gamma_delay")
        BY <2>1, <2>2, Link
    <2>4. IsLinked(one, none, "wavfile", "gamma_delay")
        BY <2>3 DEF one
    <2>5. /\ one \in [Subjects -> Seq(Filters)]
          /\ Len(one["wavfile"]) = 1 /\ one["wavfile"][1] = "gamma_delay"
          /\ \A s \in Subjects : s # "wavfile" => one[s] = none[s]
        BY <2>2, <2>4 DEF IsLinked
    <2> QED
        BY <2>5, <1>1, Names
<1>4. /\ two \in [Subjects -> Seq(Filters)]
      /\ Len(two["wavfile"]) = 1 /\ two["wavfile"][1] = "gamma_delay"
      /\ Len(two["gamma_delay"]) = 1 /\ two["gamma_delay"][1] = "uniform_delay"
      /\ \A s \in Subjects : s \notin {"wavfile", "gamma_delay"} => Len(two[s]) = 0
    <2>1. "gamma_delay" \in Subjects /\ "uniform_delay" \in Filters
        BY Names
    <2>2. Len(one["gamma_delay"]) = 0 /\ one \in [Subjects -> Seq(Filters)]
        BY <2>1, <1>3
    <2>3. IsLinked(wr_rtp_filter_append_observer(one, "gamma_delay", "uniform_delay"), one, "gamma_delay", "uniform_delay")
        BY <2>1, <2>2, Link
    <2>4. IsLinked(two, one, "gamma_delay", "uniform_delay")
        BY <2>3 DEF two
    <2>5. /\ two \in [Subjects -> Seq(Filters)]
          /\ Len(two["gamma_delay"]) = 1 /\ two["gamma_delay"][1] = "uniform_delay"
          /\ \A s \in Subjects : s # "gamma_delay" => two[s] = one[s]
        BY <2>2, <2>4 DEF IsLinked
    <2> QED
        BY <2>5, <1>3, Names
<1>5. /\ three \in [Subjects -> Seq(Filters)]
      /\ Len(three["wavfile"]) = 1 /\ three["wavfile"][1] = "gamma_delay"
      /\ Len(three["gamma_delay"]) = 1 /\ three["gamma_delay"][1] = "uniform_delay"
      /\ Len(three["uniform_delay"]) = 1 /\ three["uniform_delay"][1] = "sort"
      /\ \A s \in Subjects : s \notin {"wavfile", "gamma_delay", "uniform_delay"} => Len(three[s]) = 0
    <2>1. "uniform_delay" \in Subjects /\ "sort" \in Filters
        BY Names
    <2>2. Len(two["uniform_delay"]) = 0 /\ two \in [Subjects -> Seq(Filters)]
        BY <2>1, <1>4
    <2>3. IsLinked(wr_rtp_filter_append_observer(two, "uniform_delay", "sort"), two, "uniform_delay", "sort")
        BY <2>1, <2>2, Link
    <2>4. IsLinked(three, two, "uniform_delay", "sort")
        BY <2>3 DEF three
    <2>5. /\ three \in [Subjects -> Seq(Filters)]
          /\ Len(three["uniform_delay"]) = 1 /\ three["uniform_delay"][1] = "sort"
          /\ \A s \in Subjects : s # "uniform_delay" => three[s] = two[s]
        BY <2>2, <2>4 DEF IsLinked
    <2> QED
        BY <2>5, <1>4, Names
<1>6. /\ four \in [Subjects -> Seq(Filters)]
      /\ Len(four["wavfile"]) = 1 /\ four["wavfile"][1] = "gamma_delay"
      /\ Len(four["gamma_delay"]) = 1 /\ four["gamma_delay"][1] = "uniform_delay"
      /\ Len(four["uniform_delay"]) = 1 /\ four["uniform_delay"][1] = "sort"
      /\ Len(four["sort"]) = 1 /\ four["sort"][1] = "markov_losses"
      /\ \A s \in Subjects : s \notin {"wavfile", "gamma_delay", "uniform_delay", "sort"} => Len(four[s]) = 0
    <2>1. "sort" \in Subjects /\ "markov_losses" \in Filters
        BY Names
    <2>2. Len(three["sort"]) = 0 /\ three \in [Subjects -> Seq(Filters)]
        BY <2>1, <1>5
    <2>3. IsLinked(wr_rtp_filter_append_observer(three, "sort", "markov_losses"), three, "sort", "markov_losses")
        BY <2>1, <2>2, Link
    <2>4. IsLinked(four, three, "sort", "markov_losses")
        BY <2>3 DEF four
    <2>5. /\ four \in [Subjects -> Seq(Filters)]
          /\ Len(four["sort"]) = 1 /\ four["sort"][1] = "markov_losses"
          /\ \A s \in Subjects : s # "sort" => four[s] = three[s]
        BY <2>2, <2>4 DEF IsLinked
    <2> QED
        BY <2>5, <1>5, Names
<1>7. /\ chain \in [Subjects -> Seq(Filters)]
      /\ Len(chain["wavfile"]) = 1 /\ chain["wavfile"][1] = "gamma_delay"
      /\ Len(chain["gamma_delay"]) = 1 /\ chain["gamma_delay"][1] = "uniform_delay"
      /\ Len(chain["uniform_delay"]) = 1 /\ chain["uniform_delay"][1] = "sort"
      /\ Len(chain["sort"]) = 1 /\ chain["sort"][1] = "markov_losses"
      /\ Len(chain["markov_losses"]) = 1 /\ chain["markov_losses"][1] = "independent_losses"
      /\ \A s \in Subjects : s \notin {"wavfile", "gamma_delay", "uniform_delay", "sort", "markov_losses"} => Len(chain[s]) = 0
    <2>1. "markov_losses" \in Subjects /\ "independent_losses" \in Filters
        BY Names
    <2>2. Len(four["markov_losses"]) = 0 /\ four \in [Subjects -> Seq(Filters)]
        BY <2>1, <1>6
    <2>3. IsLinked(wr_rtp_filter_append_observer(four, "markov_losses", "independent_losses"), four, "markov_losses", "independent_losses")
        BY <2>1, <2>2, Link
    <2>4. IsLinked(chain, four, "markov_losses", "independent_losses")
        BY <1>2, <2>3
    <2>5. /\ chain \in [Subjects -> Seq(Filters)]
          /\ Len(chain["markov_losses"]) = 1 /\ chain["markov_losses"][1] = "independent_losses"
          /\ \A s \in Subjects : s # "markov_losses" => chain[s] = four[s]
        BY <2>2, <2>4 DEF IsLinked
    <2> QED
        BY <2>5, <1>6, Names
<1>8. ASSUME NEW s \in Sinks PROVE Len(chain[s]) = 0
    <2>1. s \in Subjects /\ s \notin {"wavfile", "gamma_delay", "uniform_delay", "sort", "markov_losses"}
        BY DEF Sinks, Filters, Subjects
    <2> QED
        BY <2>1, <1>7
<1>9. Len(chain["independent_losses"]) = 0
    BY <1>7, Names
<1> QED
    BY <1>7, <1>8, <1>9

\* Who observes whom once main has made its links.
LEMMA Observers ==
    /\ observers \in [Subjects -> Seq(Filters)]
    /\ Len(observers["independent_losses"]) = 4
    /\ observers["independent_losses"][1] = "log" /\ observers["independent_losses"][2] = "output"
    /\ observers["independent_losses"][3] = "wavfile_output"
    /\ observers["independent_losses"][4] = "sipp"
    /\ \A s \in Subjects : s # "independent_losses" => observers[s] = chain[s]
<1> DEFINE one == wr_rtp_filter_append_observer(chain, "independent_losses", "log")
           two == wr_rtp_filter_append_observer(one, "independent_losses", "output")
           three == wr_rtp_filter_append_observer(two, "independent_losses", "wavfile_output")
<1>1. observers = wr_rtp_filter_append_observer(three, "independent_losses", "sipp")
    BY DEF observers
<1>2. chain \in [Subjects -> Seq(Filters)] /\ Len(chain["independent_losses"]) = 0
    BY Chain
<1> HIDE DEF one, two, three
<1>3. /\ one \in [Subjects -> Seq(Filters)]
      /\ Len(one["independent_losses"]) = 1
      /\ one["independent_losses"][1] = "log"
      /\ \A s \in Subjects : s # "independent_losses" => one[s] = chain[s]
    <2>1. "independent_losses" \in Subjects /\ "log" \in Filters
        BY Names
    <2>2. Len(chain["independent_losses"]) = 0 /\ chain \in [Subjects -> Seq(Filters)]
        BY <1>2
    <2>3. IsLinked(wr_rtp_filter_append_observer(chain, "independent_losses", "log"),
                   chain, "independent_losses", "log")
        BY <2>1, <2>2, Link
    <2>4. IsLinked(one, chain, "independent_losses", "log")
        BY <2>3 DEF one
    <2>5. /\ one \in [Subjects -> Seq(Filters)]
          /\ Len(one["independent_losses"]) = 1
          /\ one["independent_losses"][1] = "log"
          /\ \A s \in Subjects : s # "independent_losses" => one[s] = chain[s]
        BY <2>2, <2>4 DEF IsLinked
    <2> QED
        BY <2>5, <1>2
<1>4. /\ two \in [Subjects -> Seq(Filters)]
      /\ Len(two["independent_losses"]) = 2
      /\ two["independent_losses"][1] = "log"
      /\ two["independent_losses"][2] = "output"
      /\ \A s \in Subjects : s # "independent_losses" => two[s] = chain[s]
    <2>1. "independent_losses" \in Subjects /\ "output" \in Filters
        BY Names
    <2>2. Len(one["independent_losses"]) = 1 /\ one \in [Subjects -> Seq(Filters)]
        BY <1>3
    <2> Len(one["independent_losses"]) < 255
        BY <2>2
    <2>3. IsLinked(wr_rtp_filter_append_observer(one, "independent_losses", "output"),
                   one, "independent_losses", "output")
        BY <2>1, <2>2, Link
    <2>4. IsLinked(two, one, "independent_losses", "output")
        BY <2>3 DEF two
    <2>5. /\ two \in [Subjects -> Seq(Filters)]
          /\ Len(two["independent_losses"]) = Len(one["independent_losses"]) + 1
          /\ two["independent_losses"][Len(one["independent_losses"]) + 1] = "output"
          /\ \A s \in Subjects : s # "independent_losses" => two[s] = one[s]
        BY <2>4 DEF IsLinked
    <2>6. \A j \in 1..Len(one["independent_losses"]) : two["independent_losses"][j] = one["independent_losses"][j]
        BY <2>4 DEF IsLinked
    <2>7. 1 \in 1..Len(one["independent_losses"])
        BY <2>2
    <2> QED
        BY <2>2, <2>5, <2>6, <2>7, <1>3
<1>5. /\ three \in [Subjects -> Seq(Filters)]
      /\ Len(three["independent_losses"]) = 3
      /\ three["independent_losses"][1] = "log"
      /\ three["independent_losses"][2] = "output"
      /\ three["independent_losses"][3] = "wavfile_output"
      /\ \A s \in Subjects : s # "independent_losses" => three[s] = chain[s]
    <2>1. "independent_losses" \in Subjects /\ "wavfile_output" \in Filters
        BY Names
    <2>2. Len(two["independent_losses"]) = 2 /\ two \in [Subjects -> Seq(Filters)]
        BY <1>4
    <2> Len(two["independent_losses"]) < 255
        BY <2>2
    <2>3. IsLinked(wr_rtp_filter_append_observer(two, "independent_losses", "wavfile_output"),
                   two, "independent_losses", "wavfile_output")
        BY <2>1, <2>2, Link
    <2>4. IsLinked(three, two, "independent_losses", "wavfile_output")
        BY <2>3 DEF three
    <2>5. /\ three \in [Subjects -> Seq(Filters)]
          /\ Len(three["independent_losses"]) = Len(two["independent_losses"]) + 1
          /\ three["independent_losses"][Len(two["independent_losses"]) + 1] = "wavfile_output"
          /\ \A s \in Subjects : s # "independent_losses" => three[s] = two[s]
        BY <2>4 DEF IsLinked
    <2>6. \A j \in 1..Len(two["independent_losses"]) : three["independent_losses"][j] = two["independent_losses"][j]
        BY <2>4 DEF IsLinked
    <2>7. 1 \in 1..Len(two["independent_losses"]) /\ 2 \in 1..Len(two["independent_losses"])
        BY <2>2
    <2> QED
        BY <2>2, <2>5, <2>6, <2>7, <1>4
<1>6. /\ observers \in [Subjects -> Seq(Filters)]
      /\ Len(observers["independent_losses"]) = 4
      /\ observers["independent_losses"][1] = "log"
      /\ observers["independent_losses"][2] = "output"
      /\ observers["independent_losses"][3] = "wavfile_output"
      /\ observers["independent_losses"][4] = "sipp"
      /\ \A s \in Subjects : s # "independent_losses" => observers[s] = chain[s]
    <2>1. "independent_losses" \in Subjects /\ "sipp" \in Filters
        BY Names
    <2>2. Len(three["independent_losses"]) = 3 /\ three \in [Subjects -> Seq(Filters)]
        BY <1>5
    <2> Len(three["independent_losses"]) < 255
        BY <2>2
    <2>3. IsLinked(wr_rtp_filter_append_observer(three, "independent_losses", "sipp"),
                   three, "independent_losses", "sipp")
        BY <2>1, <2>2, Link
    <2>4. IsLinked(observers, three, "independent_losses", "sipp")
        BY <1>1, <2>3
    <2>5. /\ observers \in [Subjects -> Seq(Filters)]
          /\ Len(observers["independent_losses"]) = Len(three["independent_losses"]) + 1
          /\ observers["independent_losses"][Len(three["independent_losses"]) + 1] = "sipp"
          /\ \A s \in Subjects : s # "independent_losses" => observers[s] = three[s]
        BY <2>4 DEF IsLinked
    <2>6. \A j \in 1..Len(three["independent_losses"]) : observers["independent_losses"][j] = three["independent_losses"][j]
        BY <2>4 DEF IsLinked
    <2>7. 1 \in 1..Len(three["independent_losses"]) /\ 2 \in 1..Len(three["independent_losses"]) /\ 3 \in 1..Len(three["independent_losses"])
        BY <2>2
    <2> QED
        BY <2>2, <2>5, <2>6, <2>7, <1>5
<1> QED
    BY <1>6

\* How the observers of a subject are numbered, and how far they are from the source.
IsSubject(s) ==
    /\ observers[s] \in Seq(Filters)
    /\ Len(observers[s]) \in 0..4 /\ DOMAIN observers[s] = 1..Len(observers[s])
    /\ Level[s] \in 0..6
    /\ Level[s] = 3 <=> s = "sort"
    /\ Level[s] = 5 <=> s = "independent_losses"
    /\ Level[s] = 0 <=> s = "wavfile"
    /\ \A i \in 1..Len(observers[s]) :
           /\ observers[s][i] \in Filters /\ observers[s][i] \in Subjects
           /\ Parent[observers[s][i]] = s /\ Index[observers[s][i]] = i
           /\ Level[observers[s][i]] = Level[s] + 1
           /\ observers[s][i] \in Sinks <=> s = "independent_losses"

\* Every filter that notifies does it as far from the source as its level says.
LEMMA SubjectFacts == \A s \in Subjects : IsSubject(s)
<1> SUFFICES ASSUME NEW s \in Subjects PROVE IsSubject(s)
    OBVIOUS
<1>1. observers[s] \in Seq(Filters)
    BY Observers
<1> DEFINE One(g) == /\ s # "independent_losses" /\ Len(observers[s]) = 1
                     /\ observers[s][1] = g
<1>2. ASSUME NEW g \in Filters, One(g), Level[s] \in 0..6,
             Level[s] = 3 <=> s = "sort", Level[s] # 5, Level[s] = 0 <=> s = "wavfile",
             Parent[g] = s, Index[g] = 1, Level[g] = Level[s] + 1, g \notin Sinks
      PROVE  IsSubject(s)
    <2>1. \A i \in 1..Len(observers[s]) : observers[s][i] = g
        BY <1>2
    <2>2. g \in Subjects
        BY DEF Subjects
    <2>3. DOMAIN observers[s] = 1..Len(observers[s]) /\ Len(observers[s]) \in 0..4
        BY <1>1, <1>2
    <2> HIDE DEF Sinks
    <2> QED
        BY <1>1, <1>2, <2>1, <2>2, <2>3 DEF IsSubject
<1>3. CASE s = "wavfile"
    <2>1. One("gamma_delay") /\ "gamma_delay" \in Filters
        BY <1>3, Chain, Observers, Names
    <2>2. Level[s] = 0 /\ Level["gamma_delay"] = 1
        BY <1>3, Names DEF Level
    <2>3. Parent["gamma_delay"] = s /\ Index["gamma_delay"] = 1 /\ "gamma_delay" \notin Sinks
        BY <1>3, Names DEF Parent, Index, Sinks
    <2> QED
        BY <1>2, <1>3, <2>1, <2>2, <2>3
<1>4. CASE s = "gamma_delay"
    <2>1. One("uniform_delay") /\ "uniform_delay" \in Filters
        BY <1>4, Chain, Observers, Names
    <2>2. Level[s] = 1 /\ Level["uniform_delay"] = 2
        BY <1>4, Names DEF Level
    <2>3. Parent["uniform_delay"] = s /\ Index["uniform_delay"] = 1 /\ "uniform_delay" \notin Sinks
        BY <1>4, Names DEF Parent, Index, Sinks
    <2> QED
        BY <1>2, <1>4, <2>1, <2>2, <2>3
<1>5. CASE s = "uniform_delay"
    <2>1. One("sort") /\ "sort" \in Filters
        BY <1>5, Chain, Observers, Names
    <2>2. Level[s] = 2 /\ Level["sort"] = 3
        BY <1>5, Names DEF Level
    <2>3. Parent["sort"] = s /\ Index["sort"] = 1 /\ "sort" \notin Sinks
        BY <1>5, Names DEF Parent, Index, Sinks
    <2> QED
        BY <1>2, <1>5, <2>1, <2>2, <2>3
<1>6. CASE s = "sort"
    <2>1. One("markov_losses") /\ "markov_losses" \in Filters
        BY <1>6, Chain, Observers, Names
    <2>2. Level[s] = 3 /\ Level["markov_losses"] = 4
        BY <1>6, Names DEF Level
    <2>3. Parent["markov_losses"] = s /\ Index["markov_losses"] = 1 /\ "markov_losses" \notin Sinks
        BY <1>6, Names DEF Parent, Index, Sinks
    <2> QED
        BY <1>2, <1>6, <2>1, <2>2, <2>3
<1>7. CASE s = "markov_losses"
    <2>1. One("independent_losses") /\ "independent_losses" \in Filters
        BY <1>7, Chain, Observers, Names
    <2>2. Level[s] = 4 /\ Level["independent_losses"] = 5
        BY <1>7, Names DEF Level
    <2>3. Parent["independent_losses"] = s /\ Index["independent_losses"] = 1 /\ "independent_losses" \notin Sinks
        BY <1>7, Names DEF Parent, Index, Sinks
    <2> QED
        BY <1>2, <1>7, <2>1, <2>2, <2>3
<1>8. CASE s \in Sinks
    <2>1. Len(observers[s]) = 0 /\ s # "independent_losses"
        BY <1>8, Chain, Observers DEF Sinks
    <2>2. Level[s] = 6 /\ s # "sort" /\ s # "wavfile"
        BY <1>8 DEF Level, Sinks
    <2> QED
        BY <1>1, <2>1, <2>2 DEF IsSubject
<1>9. CASE s = "independent_losses"
    <2> DEFINE o == observers[s]
    <2>1. Len(o) = 4 /\ o[1] = "log" /\ o[2] = "output" /\ o[3] = "wavfile_output" /\ o[4] = "sipp"
        BY <1>9, Observers
    <2>2. Level[s] = 5
        BY <1>9 DEF Level
    <2>3. \A f \in Sinks : Parent[f] = s /\ Level[f] = 6 /\ f \in Filters /\ f \in Subjects
        BY <1>9 DEF Level, Parent, Subjects, Filters, Sinks
    <2>4. /\ Index["log"] = 1 /\ Index["output"] = 2 /\ Index["wavfile_output"] = 3
          /\ Index["sipp"] = 4
        BY Names DEF Index
    <2>5. \A i \in 1..4 : o[i] \in Sinks /\ Index[o[i]] = i
        BY <2>1, <2>4 DEF Sinks
    <2> HIDE DEF o
    <2>6. \A i \in 1..4 : /\ Parent[o[i]] = s /\ Level[o[i]] = 6 /\ o[i] \in Filters
                          /\ o[i] \in Subjects /\ o[i] \in Sinks /\ Index[o[i]] = i
        BY <2>3, <2>5
    <2> HIDE DEF Sinks
    <2>7. DOMAIN o = 1..4 /\ 4 \in 0..4
        BY <1>1, <2>1 DEF o
    <2> QED
        BY <1>1, <1>9, <2>1, <2>2, <2>6, <2>7 DEF IsSubject, o
<1> QED
    BY <1>3, <1>4, <1>5, <1>6, <1>7, <1>8, <1>9 DEF Subjects, Filters, Sinks

\* Every filter is an observer of the one in front of it.
IsObserver(f) ==
    /\ f \in Subjects /\ f # "wavfile"
    /\ Parent[f] \in Subjects
    /\ Index[f] \in 1..Len(observers[Parent[f]])
    /\ f = observers[Parent[f]][Index[f]]
    /\ f \in Sinks <=> Parent[f] = "independent_losses"

\* Every filter is an observer of the filter in front of it.
LEMMA ObserverFacts == \A f \in Filters : IsObserver(f)
<1> SUFFICES ASSUME NEW f \in Filters PROVE IsObserver(f)
    OBVIOUS
<1>1. f \in Subjects /\ f # "wavfile"
    BY DEF Subjects, Filters, Sinks
<1>2. CASE f \notin Sinks
    <2>1. Index[f] = 1 /\ Parent[f] # "independent_losses" /\ Parent[f] \in Subjects
        BY <1>2, Names DEF Index, Parent, Filters, Sinks
    <2>2. Len(observers[Parent[f]]) = 1 /\ observers[Parent[f]][1] = f
        <3>1. Len(chain[Parent[f]]) = 1 /\ chain[Parent[f]][1] = f
            BY <1>2, Chain DEF Parent, Filters
        <3> QED
            BY <3>1, <2>1, Observers
    <2> QED
        BY <1>1, <1>2, <2>1, <2>2 DEF IsObserver
<1>3. CASE f \in Sinks
    <2>1. Parent[f] = "independent_losses"
        BY <1>3 DEF Parent, Sinks
    <2>2. Index[f] \in 1..4 /\ observers["independent_losses"][Index[f]] = f
        BY <1>3, Observers DEF Index, Sinks
    <2> QED
        BY <1>1, <1>3, <2>1, <2>2, Observers, Names DEF IsObserver
<1> QED
    BY <1>2, <1>3

--------------------------------------------------------------------------------
(* The moves.  Whatever a handler does, the stack changes in one of six ways, *)
(* or not at all.                                                             *)

Observer(s) == observers[Innermost(s).subject][Innermost(s).next]

\* The innermost loop has an observer to tell.
Notifying(s) ==
    /\ s # <<>> /\ ~Innermost(s).draining
    /\ Innermost(s).next <= Len(observers[Innermost(s).subject])

\* Loops that differ at most in how far they have come, and stacks at most in the last one.
SameLoop(loop, old) ==
    /\ loop.subject = old.subject /\ loop.event = old.event /\ loop.packet = old.packet
    /\ loop.destroy = old.destroy
SameBelow(s, t) == \A k \in 1..(Len(s) - 1) : t[k] = s[k]
Advanced(s, t) ==
    /\ SameBelow(s, t)
    /\ SameLoop(t[Len(s)], Innermost(s)) /\ ~t[Len(s)].draining
    /\ t[Len(s)].next = Innermost(s).next + 1

\* The observer it tells notifies its own observers ...
Passed(s, t) ==
    /\ Notifying(s) /\ Advanced(s, t)
    /\ t \in Seq(Loops) /\ Len(t) = Len(s) + 1
    /\ Innermost(t).subject = Observer(s) /\ Innermost(t).event = Innermost(s).event
    /\ Innermost(t).next = 1 /\ ~Innermost(t).destroy
    /\ Innermost(t).draining => Observer(s) = "sort" /\ Innermost(t).event = "TRANSMISSION_END"
    /\ Innermost(t).event = "NEW_PACKET" => Innermost(t).packet \in Packets

\* ... or returns.
Returned(s, t) ==
    /\ Notifying(s) /\ Advanced(s, t)
    /\ t \in Seq(Loops) /\ Len(t) = Len(s)
    /\ Innermost(s).event # "NEW_PACKET" => Observer(s) \in Sinks

\* The sort filter lets a packet of its buffer go, or finds it empty.
Released(s, t) ==
    /\ s # <<>> /\ Innermost(s).draining
    /\ t \in Seq(Loops) /\ Len(t) = Len(s) + 1
    /\ \A k \in 1..Len(s) : t[k] = s[k]
    /\ Innermost(t).subject = "sort" /\ Innermost(t).event = "NEW_PACKET"
    /\ Innermost(t).next = 1 /\ Innermost(t).destroy /\ ~Innermost(t).draining
    /\ Innermost(t).packet \in Packets

Emptied(s, t) ==
    /\ s # <<>> /\ Innermost(s).draining
    /\ t \in Seq(Loops) /\ Len(t) = Len(s)
    /\ SameBelow(s, t)
    /\ SameLoop(Innermost(t), Innermost(s)) /\ ~Innermost(t).draining
    /\ Innermost(t).next = Innermost(s).next

\* The innermost loop ends.
Ended(s, t) ==
    /\ s # <<>> /\ ~Innermost(s).draining
    /\ Innermost(s).next > Len(observers[Innermost(s).subject])
    /\ t \in Seq(Loops) /\ Len(t) = Len(s) - 1
    /\ SameBelow(s, t)

\* The source notifies.
Begun(s, t) ==
    /\ s = <<>>
    /\ t \in Seq(Loops) /\ Len(t) = 1
    /\ t[1].subject = "wavfile" /\ t[1].next = 1 /\ ~t[1].draining
    /\ t[1].destroy <=> t[1].event = "NEW_PACKET"
    /\ t[1].event = "NEW_PACKET" => t[1].packet \in Packets

\* Every loop of the stack is one.
LEMMA LoopTypes ==
    ASSUME NEW s, IsShape(s), NEW k \in 1..Len(s)
    PROVE  s[k] \in Loops /\ s[k].subject \in Subjects
<1>1. s[k] \in Loops
    BY DEF IsShape
<1> QED
    BY <1>1 DEF Loops

\* What the shape of a stack says of its innermost loop.
LEMMA TopFacts ==
    ASSUME NEW s, IsShape(s), s # <<>>
    PROVE  /\ Len(s) \in Nat /\ Len(s) > 0
           /\ Innermost(s) \in Loops /\ Innermost(s) = s[Len(s)]
           /\ Innermost(s).subject \in Subjects /\ IsSubject(Innermost(s).subject)
           /\ Placed(s, Len(s))
<1>1. Len(s) \in Nat /\ Len(s) > 0
    BY DEF IsShape
<1>2. s[Len(s)] \in Loops /\ Placed(s, Len(s))
    BY <1>1 DEF IsShape
<1>3. s[Len(s)].subject \in Subjects
    BY <1>2 DEF Loops
<1>4. IsSubject(s[Len(s)].subject)
    BY <1>3, SubjectFacts
<1> QED
    BY <1>1, <1>2, <1>3, <1>4 DEF Innermost

\* The observer it has to tell.
LEMMA ObserverFound ==
    ASSUME NEW s, IsShape(s), Notifying(s)
    PROVE  /\ Observer(s) \in Filters /\ Observer(s) \in Subjects
           /\ Parent[Observer(s)] = Innermost(s).subject
           /\ Index[Observer(s)] = Innermost(s).next
           /\ Level[Observer(s)] = Level[Innermost(s).subject] + 1
           /\ Observer(s) \in Sinks <=> Innermost(s).subject = "independent_losses"
<1>1. /\ Innermost(s) \in Loops /\ IsSubject(Innermost(s).subject)
      /\ Innermost(s).next <= Len(observers[Innermost(s).subject])
    BY TopFacts DEF Notifying
<1>2. Innermost(s).next \in 1..5
    BY <1>1 DEF Loops
<1>3. Innermost(s).next \in 1..Len(observers[Innermost(s).subject])
    BY <1>1, <1>2 DEF IsSubject
<1> QED
    BY <1>1, <1>3 DEF IsSubject, Observer

--------------------------------------------------------------------------------
(* Every move preserves the shape of the stack.                              *)

\* The observer notifies in turn.
LEMMA ShapePassed ==
    ASSUME NEW s, NEW t, IsShape(s), Passed(s, t)
    PROVE  IsShape(t)
<1> DEFINE n == Len(s)
<1>1. /\ n \in Nat /\ n > 0 /\ Placed(s, n) /\ ~s[n].draining /\ Notifying(s)
      /\ t \in Seq(Loops) /\ Len(t) = n + 1
    BY TopFacts DEF Passed, Notifying
<1>2. /\ \A k \in 1..(n - 1) : t[k] = s[k]
      /\ SameLoop(t[n], s[n]) /\ ~t[n].draining
      /\ t[n].next = s[n].next + 1
    BY <1>1 DEF Passed, Advanced, SameBelow, Innermost
<1>3. t[1].event = s[1].event
    BY <1>1, <1>2 DEF SameLoop
<1>4. /\ \A k \in 1..n : Drained(t, k) <=> Drained(s, k)
      /\ Drained(t, n + 1) <=> Drained(s, n)
    BY <1>1, <1>2 DEF Drained
<1>5. ASSUME NEW k \in 1..(n - 1) PROVE Placed(t, k)
    <2>1. k \in 1..n /\ Placed(s, k) /\ k < n /\ k < n + 1
        BY <1>1 DEF IsShape
    <2>2. t[k] = s[k] /\ (Drained(t, k) <=> Drained(s, k)) /\ (k = 5 => (Drained(t, 5) <=> Drained(s, 5)))
        BY <2>1, <1>2, <1>4
    <2> QED
        BY <2>1, <2>2, <1>1, <1>3 DEF Placed
<1>6. Placed(t, n)
    <2>1. /\ s[n].next <= Len(observers[s[n].subject]) /\ s[n].next \in 1..5
          /\ Len(observers[s[n].subject]) \in 0..4
        BY <1>1, TopFacts DEF Notifying, Loops, IsSubject, Innermost
    <2>2. n \in 1..n
        BY <1>1
    <2>3. Drained(t, n) <=> Drained(s, n)
        BY <2>2, <1>4
    <2>4. n = 5 => (Drained(t, 5) <=> Drained(s, 5))
        BY <2>3
    <2> QED
        BY <2>1, <2>3, <2>4, <1>1, <1>2, <1>3 DEF Placed, SameLoop
<1>7. Placed(t, n + 1)
    <2>1. /\ t[n + 1].subject = Observer(s) /\ t[n + 1].event = s[n].event
          /\ t[n + 1].next = 1 /\ ~t[n + 1].destroy
          /\ t[n + 1].draining => Observer(s) = "sort" /\ t[n + 1].event = "TRANSMISSION_END"
          /\ t[n + 1].event = "NEW_PACKET" => t[n + 1].packet \in Packets
        BY <1>1 DEF Passed, Innermost
    <2>2. Level[Observer(s)] = Level[s[n].subject] + 1 /\ Observer(s) \in Subjects
        BY <1>1, ObserverFound DEF Innermost
    <2>3. /\ Len(observers[Observer(s)]) \in 0..4
          /\ Level[Observer(s)] = 3 <=> Observer(s) = "sort"
        BY <2>2, SubjectFacts DEF IsSubject
    <2>4. n + 1 = 5 => ~Drained(t, 5)
        BY <1>1, <1>2 DEF Drained
    <2> QED
        BY <1>1, <1>3, <1>4, <2>1, <2>2, <2>3, <2>4 DEF Placed
<1> QED
    <2>1. \A k \in 1..(n + 1) : k \in 1..(n - 1) \/ k = n \/ k = n + 1
        BY <1>1
    <2> QED
        BY <2>1, <1>1, <1>5, <1>6, <1>7 DEF IsShape

\* The observer returns.
LEMMA ShapeReturned ==
    ASSUME NEW s, NEW t, IsShape(s), Returned(s, t)
    PROVE  IsShape(t)
<1> DEFINE n == Len(s)
<1>1. /\ n \in Nat /\ n > 0 /\ Placed(s, n) /\ ~s[n].draining /\ Notifying(s)
      /\ t \in Seq(Loops) /\ Len(t) = n
    BY TopFacts DEF Returned, Notifying
<1>2. /\ \A k \in 1..(n - 1) : t[k] = s[k]
      /\ SameLoop(t[n], s[n]) /\ ~t[n].draining
      /\ t[n].next = s[n].next + 1
    BY <1>1 DEF Returned, Advanced, SameBelow, Innermost
<1>3. t[1].event = s[1].event
    BY <1>1, <1>2 DEF SameLoop
<1>4. \A k \in 1..n : Drained(t, k) <=> Drained(s, k)
    BY <1>1, <1>2 DEF Drained
<1>5. ASSUME NEW k \in 1..(n - 1) PROVE Placed(t, k)
    <2>1. k \in 1..n /\ Placed(s, k) /\ k < n
        BY <1>1 DEF IsShape
    <2>2. t[k] = s[k] /\ (Drained(t, k) <=> Drained(s, k)) /\ (k = 5 => (Drained(t, 5) <=> Drained(s, 5)))
        BY <2>1, <1>2, <1>4
    <2> QED
        BY <2>1, <2>2, <1>1, <1>3 DEF Placed
<1>6. Placed(t, n)
    <2>1. /\ s[n].next <= Len(observers[s[n].subject]) /\ s[n].next \in 1..5
          /\ Len(observers[s[n].subject]) \in 0..4
        BY <1>1, TopFacts DEF Notifying, Loops, IsSubject, Innermost
    <2>2. n \in 1..n
        BY <1>1
    <2>3. Drained(t, n) <=> Drained(s, n)
        BY <2>2, <1>4
    <2>4. n = 5 => (Drained(t, 5) <=> Drained(s, 5))
        BY <2>3
    <2> QED
        BY <2>1, <2>3, <2>4, <1>1, <1>2, <1>3 DEF Placed, SameLoop
<1> QED
    <2>1. \A k \in 1..n : k \in 1..(n - 1) \/ k = n
        BY <1>1
    <2> QED
        BY <2>1, <1>1, <1>5, <1>6 DEF IsShape

\* The sort filter lets a packet go at the end.
LEMMA ShapeReleased ==
    ASSUME NEW s, NEW t, IsShape(s), Released(s, t)
    PROVE  IsShape(t) /\ Len(s) = 4
<1>1. Len(s) = 4 /\ s[4].draining /\ s[4] \in Loops /\ \A k \in 1..4 : Placed(s, k)
    BY TopFacts DEF Released, Placed, Innermost, IsShape
<1>2. t \in Seq(Loops) /\ Len(t) = 5 /\ \A k \in 1..4 : t[k] = s[k]
    BY <1>1 DEF Released
<1>3. ASSUME NEW k \in 1..4 PROVE Placed(t, k)
    <2>1. Placed(s, k) /\ t[k] = s[k] /\ t[1] = s[1] /\ k < 5 /\ ~Drained(t, k) /\ ~Drained(s, k)
        BY <1>1, <1>2 DEF Drained
    <2>2. k = 4 => s[k].draining
        BY <1>1
    <2> QED
        BY <2>1, <2>2, <1>1, <1>2 DEF Placed
<1>4. Placed(t, 5)
    <2>1. /\ t[5].subject = "sort" /\ t[5].event = "NEW_PACKET" /\ t[5].next = 1
          /\ t[5].destroy /\ ~t[5].draining /\ t[5].packet \in Packets
        BY <1>1, <1>2 DEF Released, Innermost
    <2>2. Level["sort"] = 3 /\ Len(observers["sort"]) \in 0..4
        BY Names, SubjectFacts DEF IsSubject
    <2>3. Drained(t, 5)
        BY <1>1, <1>2 DEF Drained
    <2> QED
        BY <2>1, <2>2, <2>3, <1>2 DEF Placed
<1> QED
    <2>1. \A k \in 1..5 : k \in 1..4 \/ k = 5
        OBVIOUS
    <2> QED
        BY <2>1, <1>1, <1>2, <1>3, <1>4 DEF IsShape

\* The sort filter finds its buffer empty.
LEMMA ShapeEmptied ==
    ASSUME NEW s, NEW t, IsShape(s), Emptied(s, t)
    PROVE  IsShape(t) /\ Len(s) = 4
<1>1. Len(s) = 4 /\ s[4].draining /\ s[4] \in Loops /\ \A k \in 1..4 : Placed(s, k)
    BY TopFacts DEF Emptied, Placed, Innermost, IsShape
<1>2. /\ t \in Seq(Loops) /\ Len(t) = 4 /\ \A k \in 1..3 : t[k] = s[k]
      /\ SameLoop(t[4], s[4]) /\ ~t[4].draining /\ t[4].next = s[4].next
    BY <1>1 DEF Emptied, SameBelow, Innermost
<1>3. \A k \in 1..4 : ~Drained(t, k) /\ ~Drained(s, k)
    BY DEF Drained
<1>4. ASSUME NEW k \in 1..3 PROVE Placed(t, k)
    <2>1. Placed(s, k) /\ t[k] = s[k] /\ t[1] = s[1] /\ k < 4 /\ k \in 1..4
        BY <1>1, <1>2
    <2> QED
        BY <2>1, <1>1, <1>2, <1>3 DEF Placed
<1>5. Placed(t, 4)
    <2>1. Placed(s, 4) /\ t[1] = s[1] /\ ~Drained(t, 4) /\ ~Drained(s, 4)
        BY <1>1, <1>2, <1>3
    <2> QED
        BY <2>1, <1>1, <1>2 DEF Placed, SameLoop
<1> QED
    <2>1. \A k \in 1..4 : k \in 1..3 \/ k = 4
        OBVIOUS
    <2> QED
        BY <2>1, <1>1, <1>2, <1>4, <1>5 DEF IsShape

\* The innermost loop ends.
LEMMA ShapeEnded ==
    ASSUME NEW s, NEW t, IsShape(s), Ended(s, t)
    PROVE  IsShape(t)
<1> DEFINE n == Len(s)
<1>1. /\ n \in Nat /\ n > 0 /\ t \in Seq(Loops) /\ Len(t) = n - 1
      /\ \A k \in 1..(n - 1) : t[k] = s[k]
    BY TopFacts DEF Ended, SameBelow
<1>2. \A k \in 1..(n - 1) : Drained(t, k) <=> Drained(s, k)
    BY <1>1 DEF Drained
<1>3. ASSUME NEW k \in 1..(n - 1) PROVE Placed(t, k)
    <2>1. k \in 1..n /\ Placed(s, k) /\ k < n
        BY <1>1 DEF IsShape
    <2>2. t[k] = s[k] /\ t[1] = s[1] /\ (Drained(t, k) <=> Drained(s, k)) /\ (k = 5 => (Drained(t, 5) <=> Drained(s, 5)))
        BY <2>1, <1>1, <1>2
    <2> QED
        BY <2>1, <2>2, <1>1 DEF Placed
<1> QED
    BY <1>1, <1>3 DEF IsShape

\* The source notifies.
LEMMA ShapeBegun ==
    ASSUME NEW s, NEW t, Begun(s, t)
    PROVE  IsShape(t)
<1> ~Drained(t, 1)
    BY DEF Drained
<1>1. /\ t \in Seq(Loops) /\ Len(t) = 1
      /\ t[1].subject = "wavfile" /\ t[1].next = 1 /\ ~t[1].draining
      /\ t[1].destroy <=> t[1].event = "NEW_PACKET"
      /\ t[1].event = "NEW_PACKET" => t[1].packet \in Packets
    BY DEF Begun
<1>2. Level["wavfile"] = 0 /\ Len(observers["wavfile"]) \in 0..4
    BY Names, SubjectFacts DEF IsSubject
<1>3. Placed(t, 1)
    BY <1>1, <1>2 DEF Placed
<1> QED
    BY <1>1, <1>3 DEF IsShape

--------------------------------------------------------------------------------
(* How far the transmission has come, move by move.                          *)

\* Where a filter's loop over its observers is, for the start and the end.
LEMMA LoopDepth ==
    ASSUME NEW s, IsShape(s), NEW k \in 1..Len(s), s[k].event # "NEW_PACKET"
    PROVE  Level[s[k].subject] = k - 1 /\ s[k].event = s[1].event /\ ~Drained(s, k)
    BY DEF IsShape, Placed

\* A filter that is about to be called has no such loop.
LEMMA ObserverIdle ==
    ASSUME NEW s, IsShape(s), Notifying(s), NEW k \in 1..Len(s), s[k].event # "NEW_PACKET"
    PROVE  s[k].subject # Observer(s)
<1> DEFINE n == Len(s)
<1>1. n \in Nat /\ n > 0 /\ Placed(s, n) /\ Innermost(s) = s[n]
    BY TopFacts DEF Notifying
<1>2. Level[Observer(s)] = Level[s[n].subject] + 1
    BY <1>1, ObserverFound
<1>3. Level[s[k].subject] = k - 1
    BY LoopDepth
<1>4. CASE Drained(s, n)
    <2>1. Level[Observer(s)] = n - 1 /\ s[n].event = "NEW_PACKET"
        BY <1>1, <1>2, <1>4 DEF Placed
    <2> QED
        BY <2>1, <1>1, <1>3
<1>5. CASE ~Drained(s, n)
    <2>1. Level[Observer(s)] = n
        BY <1>1, <1>2, <1>5 DEF Placed
    <2> QED
        BY <2>1, <1>1, <1>3
<1> QED
    BY <1>4, <1>5

\* How far the transmission has come for a filter that is about to be called.
LEMMA ObserverStatus ==
    ASSUME NEW s, NEW status, IsShape(s), IsPhases(s, status), Notifying(s)
    PROVE  status[Observer(s)] =
               IF Innermost(s).event = "TRANSMISSION_START" THEN "none" ELSE "started"
<1> DEFINE n == Len(s)
           f == Observer(s)
<1>1. n \in Nat /\ n \in 1..n /\ Placed(s, n) /\ Innermost(s) = s[n] /\ Innermost(s) \in Loops
    BY TopFacts DEF Notifying
<1>2. f \in Filters /\ Parent[f] = s[n].subject /\ Index[f] = s[n].next /\ s[n].event \in Events
    BY <1>1, ObserverFound DEF Loops
<1>3. status[Parent[f]] = Reached(s, n)
    BY <1>1, <1>2 DEF IsPhases
<1>4. CASE s[n].event # "NEW_PACKET"
    <2>1. Waits(s[n], f)
        BY <1>1, <1>2, <1>4 DEF Waits, Loops
    <2>2. Pending(s, f)
        BY <1>1, <2>1 DEF Pending
    <2>3. status[f] = Previous(After(s[n].event))
        BY <1>2, <1>3, <1>4, <2>2 DEF IsPhases, Reached
    <2> QED
        BY <2>3, <1>1, <1>2, <1>4 DEF Previous, After, Events
<1>5. CASE n = 5 /\ Drained(s, n)
    <2>1. s[4].draining /\ Placed(s, 4) /\ s[4] \in Loops /\ ~Drained(s, 4)
        BY <1>5 DEF Drained, IsShape
    <2>2. Level[s[4].subject] = 3 /\ Level[s[5].subject] = 3 /\ s[4].event = "TRANSMISSION_END"
          /\ s[5].event = "NEW_PACKET"
        BY <1>1, <1>5, <2>1 DEF Placed
    <2>3. s[4].subject = "sort" /\ s[5].subject = "sort"
        BY <2>1, <2>2, <1>1, <1>5, SubjectFacts DEF IsSubject, Loops
    <2>4. Waits(s[4], f)
        BY <2>1, <2>2, <2>3, <1>2, <1>5 DEF Waits
    <2>5. Pending(s, f)
        BY <1>5, <2>4 DEF Pending
    <2>6. status[f] = Previous("ended")
        BY <1>2, <1>3, <1>5, <2>2, <2>5 DEF IsPhases, Reached
    <2> QED
        BY <2>6, <2>2, <1>1, <1>5 DEF Previous
<1>6. CASE s[n].event = "NEW_PACKET" /\ ~(n = 5 /\ Drained(s, n))
    <2>1. status[Parent[f]] = "started"
        BY <1>3, <1>6 DEF Reached
    <2>2. ASSUME NEW k \in 1..n, Waits(s[k], f) PROVE FALSE
        <3>1. s[k].subject = s[n].subject /\ s[k].event # "NEW_PACKET"
            BY <2>2, <1>2 DEF Waits
        <3>2. Level[s[k].subject] = k - 1 /\ s[k].event = s[1].event /\ ~Drained(s, k)
            BY <3>1, LoopDepth
        <3>3. Drained(s, n)
            BY <3>1, <3>2, <1>1, <1>6 DEF Placed
        <3>4. n > 4 /\ n # 5
            <4>1. n # 5
                BY <3>3, <1>6
            <4> QED
                BY <4>1, <3>3 DEF Drained
        <3>5. k - 1 = n - 2
            BY <3>1, <3>2, <3>3, <1>1 DEF Placed
        <3>6. k > 4
            BY <3>4, <3>5, <1>1
        <3> QED
            BY <3>2, <3>3, <3>6 DEF Drained
    <2>3. ~Pending(s, f)
        BY <2>2 DEF Pending
    <2>4. status[f] = "started"
        BY <2>1, <2>3, <1>2 DEF IsPhases
    <2> QED
        BY <2>4, <1>1, <1>6
<1> QED
    BY <1>4, <1>5, <1>6

\* The observer is called; it may notify its own observers.
Called(s, t) ==
    /\ Notifying(s) /\ Advanced(s, t)
    /\ t \in Seq(Loops) /\ Len(t) \in {Len(s), Len(s) + 1}
    /\ Len(t) = Len(s) /\ Innermost(s).event # "NEW_PACKET" => Observer(s) \in Sinks
    /\ Len(t) = Len(s) + 1 =>
           /\ Innermost(t).subject = Observer(s) /\ Innermost(t).event = Innermost(s).event
           /\ Innermost(t).next = 1

\* The transmission has begun or ended for the filter `f' as well.
Tells(status, later, f, event) ==
    /\ later[f] = IF event = "TRANSMISSION_END" THEN "ended" ELSE "started"
    /\ \A x \in Subjects : x # f => later[x] = status[x]

\* An observer that notifies in turn was called ...
LEMMA PassedIsCalled ==
    ASSUME NEW s, NEW t, IsShape(s), Passed(s, t) PROVE Called(s, t)
<1>1. Len(s) \in Nat
    BY DEF IsShape
<1> QED
    BY <1>1 DEF Passed, Called

\* ... and so was one that returns.
LEMMA ReturnedIsCalled ==
    ASSUME NEW s, NEW t, IsShape(s), Returned(s, t) PROVE Called(s, t)
<1>1. Len(s) \in Nat
    BY DEF IsShape
<1> QED
    BY <1>1 DEF Returned, Called

\* What a call leaves of the loops below.
LEMMA CalledBelow ==
    ASSUME NEW s, NEW t, IsShape(s), Called(s, t)
    PROVE  /\ Len(s) \in Nat /\ Len(s) > 0
           /\ \A k \in 1..Len(s) :
                  /\ t[k].subject = s[k].subject /\ t[k].event = s[k].event
                  /\ k # Len(s) => t[k] = s[k]
                  /\ Drained(t, k) <=> Drained(s, k)
                  /\ Reached(t, k) = Reached(s, k)
           /\ ~t[Len(s)].draining /\ t[Len(s)].next = s[Len(s)].next + 1
           /\ \A k \in 1..Len(t) : k \in 1..Len(s) \/ (k = Len(s) + 1 /\ Len(t) = k)
<1> DEFINE n == Len(s)
<1>1. n \in Nat /\ n > 0 /\ Innermost(s) = s[n] /\ ~s[n].draining
    BY TopFacts DEF Called, Notifying
<1>2. \A k \in 1..(n - 1) : t[k] = s[k]
    BY DEF Called, Advanced, SameBelow
<1>3. /\ t[n].subject = s[n].subject /\ t[n].event = s[n].event
      /\ ~t[n].draining /\ t[n].next = s[n].next + 1
    BY <1>1 DEF Called, Advanced, SameLoop
<1>4. \A k \in 1..n : k \in 1..(n - 1) \/ k = n
    BY <1>1
<1>5. \A k \in 1..n : Drained(t, k) <=> Drained(s, k)
    BY <1>1, <1>2 DEF Drained
<1>6. \A k \in 1..n : t[k].event = s[k].event
    BY <1>2, <1>3, <1>4
<1>7. \A k \in 1..n : Reached(t, k) = Reached(s, k)
    BY <1>5, <1>6 DEF Reached
<1>8. \A k \in 1..Len(t) : k \in 1..n \/ (k = n + 1 /\ Len(t) = k)
    BY <1>1 DEF Called
<1> QED
    BY <1>1, <1>2, <1>3, <1>4, <1>5, <1>6, <1>7, <1>8

\* A call takes the observer where its caller is.
LEMMA PhasesCalled ==
    ASSUME NEW s, NEW t, NEW status, NEW later, IsShape(s), IsPhases(s, status), Called(s, t),
           Tells(status, later, Observer(s), Innermost(s).event)
    PROVE  IsPhases(t, later)
<1> DEFINE n == Len(s)
           f == Observer(s)
<1>1. /\ n \in Nat /\ n \in 1..n /\ Notifying(s) /\ Innermost(s) = s[n] /\ s[n] \in Loops
    BY TopFacts DEF Called, Notifying
<1>2. /\ f \in Filters /\ f \in Subjects /\ Parent[f] = s[n].subject /\ Index[f] = s[n].next
      /\ Level[f] = Level[Parent[f]] + 1 /\ s[n].event \in Events
    BY <1>1, ObserverFound DEF Loops
<1>3. status[f] = IF s[n].event = "TRANSMISSION_START" THEN "none" ELSE "started"
    BY <1>1, ObserverStatus
<1>4. CASE s[n].event = "NEW_PACKET"
    <2>1. \A x \in Subjects : later[x] = status[x]
        BY <1>1, <1>2, <1>3, <1>4 DEF Tells
    <2>2. ASSUME NEW k \in 1..Len(t) PROVE later[t[k].subject] = Reached(t, k)
        <3>1. CASE k \in 1..n
            <4>1. t[k].subject = s[k].subject /\ Reached(t, k) = Reached(s, k)
                BY <3>1, CalledBelow
            <4>2. s[k].subject \in Subjects
                BY <3>1, LoopTypes
            <4>3. status[s[k].subject] = Reached(s, k)
                BY <3>1 DEF IsPhases
            <4> QED
                BY <4>1, <4>2, <4>3, <2>1
        <3>2. CASE k = n + 1 /\ Len(t) = k
            <4>1. t[k].subject = f /\ t[k].event = "NEW_PACKET"
                BY <3>2, <1>1, <1>4 DEF Called, Innermost
            <4>2. ~(k = 5 /\ Drained(t, k))
                BY <3>2, <1>1, CalledBelow DEF Drained
            <4> QED
                BY <4>1, <4>2, <1>2, <1>3, <1>4, <2>1 DEF Reached
        <3> QED
            BY <3>1, <3>2, CalledBelow
    <2>3. ASSUME NEW g \in Filters PROVE Pending(t, g) <=> Pending(s, g)
        <3>1. ASSUME NEW k \in 1..Len(t), Waits(t[k], g)
              PROVE  k \in 1..n /\ Waits(s[k], g)
            <4>1. t[k].event # "NEW_PACKET"
                BY <3>1 DEF Waits
            <4>2. k \in 1..n
                <5>1. CASE k = n + 1 /\ Len(t) = k
                    BY <5>1, <4>1, <1>1, <1>4 DEF Called, Innermost
                <5> QED
                    BY <5>1, CalledBelow
            <4>3. t[k] = s[k]
                BY <4>1, <4>2, <1>4, CalledBelow
            <4> QED
                BY <4>2, <4>3, <3>1
        <3>2. ASSUME NEW k \in 1..n, Waits(s[k], g)
              PROVE  k \in 1..Len(t) /\ Waits(t[k], g)
            <4>1. s[k].event # "NEW_PACKET"
                BY <3>2 DEF Waits
            <4>2. t[k] = s[k]
                BY <4>1, <1>4, CalledBelow
            <4>3. k \in 1..Len(t)
                BY <1>1 DEF Called
            <4> QED
                BY <4>2, <4>3, <3>2
        <3> QED
            BY <3>1, <3>2 DEF Pending
    <2>4. \A g \in Filters : g \in Subjects /\ Parent[g] \in Subjects
        BY ObserverFacts DEF IsObserver
    <2> QED
        BY <2>1, <2>2, <2>3, <2>4 DEF IsPhases
<1>5. CASE s[n].event # "NEW_PACKET"
    <2>1. \A k \in 1..n : s[k].event # "NEW_PACKET"
        <3>1. ~Drained(s, n) /\ s[n].event = s[1].event
            BY <1>1, <1>5, LoopDepth
        <3>2. \A k \in 1..n : ~Drained(s, k)
            BY <3>1, <1>1 DEF Drained
        <3> QED
            BY <3>1, <3>2, <1>1, <1>5 DEF IsShape, Placed
    <2>2. \A k \in 1..n : s[k].subject # f
        BY <2>1, <1>1, ObserverIdle
    <2>3. later[f] = After(s[n].event) /\ status[f] = Previous(After(s[n].event))
        BY <1>1, <1>2, <1>3, <1>5 DEF Tells, After, Previous, Events
    <2>4. \A x \in Subjects : x # f => later[x] = status[x]
        BY DEF Tells
    <2>5. ASSUME NEW k \in 1..Len(t) PROVE later[t[k].subject] = Reached(t, k)
        <3>1. CASE k \in 1..n
            <4>1. t[k].subject = s[k].subject /\ Reached(t, k) = Reached(s, k)
                BY <3>1, CalledBelow
            <4>2. s[k].subject \in Subjects /\ s[k].subject # f
                BY <3>1, <2>2, LoopTypes
            <4>3. status[s[k].subject] = Reached(s, k)
                BY <3>1 DEF IsPhases
            <4> QED
                BY <4>1, <4>2, <4>3, <2>4
        <3>2. CASE k = n + 1 /\ Len(t) = k
            <4>1. t[k].subject = f /\ t[k].event = s[n].event
                BY <3>2, <1>1 DEF Called, Innermost
            <4> QED
                BY <4>1, <1>5, <2>3 DEF Reached
        <3> QED
            BY <3>1, <3>2, CalledBelow
    <2>6. \A g \in Filters : /\ g \in Subjects /\ Parent[g] \in Subjects
                             /\ Index[g] \in 1..Len(observers[Parent[g]])
                             /\ g = observers[Parent[g]][Index[g]]
                             /\ Level[g] = Level[Parent[g]] + 1
                             /\ Index[g] \in 1..4
        BY ObserverFacts, SubjectFacts DEF IsObserver, IsSubject
    <2>7. ~Pending(t, f) /\ later[f] = later[Parent[f]]
        <3>1. ASSUME NEW k \in 1..Len(t), Waits(t[k], f) PROVE FALSE
            <4>1. t[k].subject = Parent[f] /\ (t[k].draining \/ t[k].next <= Index[f])
                BY <3>1 DEF Waits
            <4>2. CASE k \in 1..n
                <5>1. s[k].subject = s[n].subject
                    BY <4>1, <4>2, <1>2, CalledBelow
                <5>2. Level[s[k].subject] = k - 1 /\ Level[s[n].subject] = n - 1
                    BY <4>2, <2>1, <1>1, LoopDepth
                <5>3. k = n
                    BY <5>1, <5>2, <1>1, <4>2
                <5> QED
                    BY <5>3, <4>1, <1>1, <1>2, CalledBelow DEF Loops
            <4>3. CASE k = n + 1 /\ Len(t) = k
                <5>1. t[k].subject = f
                    BY <4>3, <1>1 DEF Called, Innermost
                <5> QED
                    BY <5>1, <4>1, <1>1, <2>2, <1>2
            <4> QED
                BY <4>2, <4>3, CalledBelow
        <3>2. ~Pending(t, f)
            BY <3>1 DEF Pending
        <3>3. Parent[f] # f
            BY <2>2, <1>1, <1>2
        <3>4. status[Parent[f]] = After(s[n].event)
            BY <1>1, <1>2, <1>5 DEF IsPhases, Reached
        <3> QED
            BY <3>2, <3>3, <3>4, <2>3, <2>4, <2>6, <1>2
    <2>8. ASSUME NEW g \in Filters, Parent[g] = f
          PROVE  Pending(t, g) /\ later[g] = Previous(later[f])
        <3>1. Level[g] = Level[f] + 1 /\ Level[g] \in 0..6
            BY <2>6, <2>8, SubjectFacts DEF IsSubject
        <3>2. Level[f] \in 0..6 /\ g # f
            BY <3>1, <1>2, SubjectFacts DEF IsSubject
        <3>3. Len(t) = n + 1
            <4>1. ASSUME Len(t) = n PROVE FALSE
                <5>1. f \in Sinks
                    BY <4>1, <1>1, <1>5 DEF Called
                <5>2. s[n].subject = "independent_losses"
                    BY <5>1, <1>1, ObserverFound
                <5>3. Level[f] = 6
                    BY <5>2, <1>2, Names, SubjectFacts DEF IsSubject
                <5> QED
                    BY <5>3, <3>1
            <4> QED
                BY <4>1 DEF Called
        <3>4. t[n + 1].subject = f /\ t[n + 1].event = s[n].event /\ t[n + 1].next = 1
            BY <3>3, <1>1 DEF Called, Innermost
        <3>5. Waits(t[n + 1], g)
            BY <3>4, <1>5, <2>6, <2>8 DEF Waits
        <3>6. Pending(t, g)
            BY <3>3, <3>5, <1>1 DEF Pending
        <3>7. ~Pending(s, g)
            BY <2>2, <2>8 DEF Pending, Waits
        <3>8. status[g] = status[f]
            BY <3>7, <2>8 DEF IsPhases
        <3>9. later[g] = status[g]
            BY <3>2, <2>4, <2>6
        <3> QED
            BY <3>6, <3>8, <3>9, <2>3
    <2>9. ASSUME NEW g \in Filters, g # f, Parent[g] # f
          PROVE  /\ Pending(t, g) <=> Pending(s, g)
                 /\ later[g] = status[g] /\ later[Parent[g]] = status[Parent[g]]
        <3>1. ASSUME NEW k \in 1..n PROVE Waits(t[k], g) <=> Waits(s[k], g)
            <4>1. CASE k # n
                BY <4>1, CalledBelow
            <4>2. CASE k = n
                <5>1. /\ t[n].subject = s[n].subject /\ t[n].event = s[n].event
                      /\ ~t[n].draining /\ t[n].next = s[n].next + 1 /\ ~s[n].draining
                      /\ s[n].next \in 1..5
                    BY <1>1, CalledBelow DEF Called, Notifying, Loops
                <5>2. Parent[g] = s[n].subject => Index[g] # s[n].next
                    BY <2>6, <2>9, <1>2
                <5>3. Index[g] \in 1..4
                    BY <2>6
                <5>4. Parent[g] = s[n].subject => (t[n].next <= Index[g] <=> s[n].next <= Index[g])
                    BY <5>1, <5>2, <5>3
                <5> QED
                    BY <4>2, <5>1, <5>4 DEF Waits
            <4> QED
                BY <4>1, <4>2
        <3>2. ASSUME NEW k \in 1..Len(t), Waits(t[k], g) PROVE k \in 1..n
            <4>1. CASE k = n + 1 /\ Len(t) = k
                BY <4>1, <3>2, <2>9, <1>1 DEF Called, Innermost, Waits
            <4> QED
                BY <4>1, CalledBelow
        <3>3. \A k \in 1..n : k \in 1..Len(t)
            BY <1>1 DEF Called
        <3>4. Pending(t, g) <=> Pending(s, g)
            BY <3>1, <3>2, <3>3 DEF Pending
        <3> QED
            BY <3>4, <2>4, <2>6, <2>9
    <2>10. ASSUME NEW g \in Filters
           PROVE  /\ Pending(t, g) => later[g] = Previous(later[Parent[g]])
                  /\ ~Pending(t, g) => later[g] = later[Parent[g]]
        <3>1. CASE g # f /\ Parent[g] # f
            <4>1. /\ Pending(s, g) => status[g] = Previous(status[Parent[g]])
                  /\ ~Pending(s, g) => status[g] = status[Parent[g]]
                BY DEF IsPhases
            <4> QED
                BY <3>1, <4>1, <2>9
        <3> QED
            BY <3>1, <2>7, <2>8
    <2> QED
        BY <2>5, <2>10 DEF IsPhases
<1> QED
    BY <1>4, <1>5

\* The sort filter has been told of the end when it empties its buffer.
LEMMA DrainingStatus ==
    ASSUME NEW s, NEW status, IsShape(s), IsPhases(s, status), s # <<>>, Innermost(s).draining
    PROVE  /\ Len(s) = 4 /\ s[4].draining /\ s[4].event = "TRANSMISSION_END"
           /\ s[4].next = 1 /\ s[4].subject = "sort" /\ status["sort"] = "ended"
<1>1. /\ Len(s) = 4 /\ s[4].draining /\ Placed(s, 4) /\ s[4].subject \in Subjects
      /\ s[4].event = "TRANSMISSION_END" /\ s[4].next = 1
    <2>1. Placed(s, Len(s)) /\ Innermost(s) = s[Len(s)] /\ s[Len(s)].subject \in Subjects
        BY TopFacts
    <2> QED
        BY <2>1 DEF Placed
<1>2. ~Drained(s, 4)
    BY DEF Drained
<1>3. Level[s[4].subject] = 3
    BY <1>1, <1>2 DEF Placed
<1>4. s[4].subject = "sort"
    BY <1>1, <1>3, SubjectFacts DEF IsSubject
<1>5. status["sort"] = Reached(s, 4)
    BY <1>1, <1>4 DEF IsPhases
<1> QED
    BY <1>1, <1>4, <1>5 DEF Reached, After

\* A packet that leaves the buffer at the end is no news of the transmission.
LEMMA PhasesReleased ==
    ASSUME NEW s, NEW t, NEW status, IsShape(s), IsPhases(s, status), Released(s, t)
    PROVE  IsPhases(t, status)
<1>1. Len(s) = 4 /\ s[4].draining /\ status["sort"] = "ended"
    BY DrainingStatus DEF Released
<1>2. Len(t) = 5 /\ \A k \in 1..4 : t[k] = s[k]
    BY <1>1 DEF Released
<1>3. t[5].subject = "sort" /\ t[5].event = "NEW_PACKET"
    BY <1>2 DEF Released, Innermost
<1>5. ASSUME NEW k \in 1..5 PROVE status[t[k].subject] = Reached(t, k)
    <2>1. CASE k = 5
        <3>1. Drained(t, 5)
            BY <1>1, <1>2 DEF Drained
        <3> QED
            BY <2>1, <3>1, <1>1, <1>3 DEF Reached
    <2>2. CASE k \in 1..4
        <3>1. t[k] = s[k] /\ k # 5 /\ status[s[k].subject] = Reached(s, k)
            BY <2>2, <1>1, <1>2 DEF IsPhases
        <3> QED
            BY <3>1 DEF Reached
    <2> QED
        BY <2>1, <2>2
<1>6. ASSUME NEW g \in Filters PROVE Pending(t, g) <=> Pending(s, g)
    <2>1. ~Waits(t[5], g)
        BY <1>3 DEF Waits
    <2>2. \A k \in 1..4 : k \in 1..5 /\ (Waits(t[k], g) <=> Waits(s[k], g))
        BY <1>2
    <2>3. \A k \in 1..5 : k = 5 \/ k \in 1..4
        OBVIOUS
    <2> QED
        BY <1>1, <1>2, <2>1, <2>2, <2>3 DEF Pending
<1> QED
    BY <1>2, <1>5, <1>6 DEF IsPhases

\* Nor is an empty buffer.
LEMMA PhasesEmptied ==
    ASSUME NEW s, NEW t, NEW status, IsShape(s), IsPhases(s, status), Emptied(s, t)
    PROVE  IsPhases(t, status)
<1>1. Len(s) = 4 /\ s[4].draining /\ Placed(s, 4)
    <2>1. Len(s) = 4 /\ s # <<>> /\ Innermost(s).draining
        BY ShapeEmptied DEF Emptied
    <2> QED
        BY <2>1, TopFacts DEF Innermost
<1>2. /\ Len(t) = 4 /\ \A k \in 1..3 : t[k] = s[k]
      /\ SameLoop(t[4], s[4]) /\ ~t[4].draining /\ t[4].next = 1
    BY <1>1 DEF Emptied, SameBelow, Innermost, Placed
<1>3. \A k \in 1..4 : k \in 1..3 \/ k = 4
    OBVIOUS
<1>4. ASSUME NEW k \in 1..4 PROVE status[t[k].subject] = Reached(t, k)
    <2>1. t[k].subject = s[k].subject /\ t[k].event = s[k].event /\ k # 5
        BY <1>2, <1>3 DEF SameLoop
    <2>2. status[s[k].subject] = Reached(s, k)
        BY <1>1 DEF IsPhases
    <2> QED
        BY <2>1, <2>2 DEF Reached
<1>5. ASSUME NEW g \in Filters PROVE Pending(t, g) <=> Pending(s, g)
    <2>1. Index[g] >= 1
        BY ObserverFacts, SubjectFacts DEF IsObserver, IsSubject
    <2>2. Waits(t[4], g) <=> Waits(s[4], g)
        BY <2>1, <1>1, <1>2 DEF Waits, SameLoop
    <2>3. \A k \in 1..4 : Waits(t[k], g) <=> Waits(s[k], g)
        BY <2>2, <1>2, <1>3
    <2> QED
        BY <2>3, <1>1, <1>2 DEF Pending
<1> QED
    BY <1>2, <1>4, <1>5 DEF IsPhases

\* When a loop ends it has told all its observers.
LEMMA PhasesEnded ==
    ASSUME NEW s, NEW t, NEW status, IsShape(s), IsPhases(s, status), Ended(s, t)
    PROVE  IsPhases(t, status)
<1> DEFINE n == Len(s)
<1>1. /\ n \in Nat /\ n > 0 /\ Len(t) = n - 1
      /\ \A k \in 1..(n - 1) : t[k] = s[k] /\ k \in 1..n
      /\ Innermost(s) = s[n] /\ s[n] \in Loops /\ s[n].subject \in Subjects
    BY TopFacts DEF Ended, SameBelow
<1>2. ASSUME NEW k \in 1..(n - 1) PROVE status[t[k].subject] = Reached(t, k)
    <2>1. Drained(t, k) <=> Drained(s, k)
        BY <1>1 DEF Drained
    <2>2. t[k] = s[k] /\ status[s[k].subject] = Reached(s, k)
        BY <1>1 DEF IsPhases
    <2> QED
        BY <2>1, <2>2 DEF Reached
<1>3. ASSUME NEW g \in Filters PROVE Pending(t, g) <=> Pending(s, g)
    <2>1. ~Waits(s[n], g)
        <3>1. ~s[n].draining /\ s[n].next > Len(observers[s[n].subject]) /\ s[n].next \in 1..5
            BY <1>1 DEF Ended, Loops
        <3>2. Index[g] \in 1..Len(observers[Parent[g]]) /\ Parent[g] \in Subjects
            BY ObserverFacts DEF IsObserver
        <3>3. Len(observers[Parent[g]]) \in 0..4
            BY <3>2, SubjectFacts DEF IsSubject
        <3>4. s[n].subject = Parent[g] => ~(s[n].next <= Index[g])
            BY <3>1, <3>2, <3>3
        <3> QED
            BY <3>1, <3>4 DEF Waits
    <2>2. \A k \in 1..n : k \in 1..(n - 1) \/ k = n
        BY <1>1
    <2> QED
        BY <1>1, <2>1, <2>2 DEF Pending
<1> QED
    BY <1>1, <1>2, <1>3 DEF IsPhases

\* The source starts, goes on or ends when all the filters have done what it did before.
LEMMA PhasesBegun ==
    ASSUME NEW s, NEW t, NEW status, NEW later, IsPhases(s, status), Begun(s, t),
           \A f \in Filters : later[f] = status[f],
           \/ t[1].event = "TRANSMISSION_START" /\ status["wavfile"] = "none"
              /\ later["wavfile"] = "started"
           \/ t[1].event = "NEW_PACKET" /\ status["wavfile"] = "started"
              /\ later["wavfile"] = "started"
           \/ t[1].event = "TRANSMISSION_END" /\ status["wavfile"] = "started"
              /\ later["wavfile"] = "ended"
    PROVE  IsPhases(t, later)
<1>1. t[1].subject = "wavfile" /\ t[1].next = 1 /\ ~t[1].draining /\ Len(t) = 1
    BY DEF Begun
<1>2. later["wavfile"] = Reached(t, 1)
    BY DEF Reached, After
<1>3. \A g \in Filters : ~Pending(s, g)
    BY DEF Begun, Pending
<1>4. \A g \in Filters : status[g] = status[Parent[g]]
    BY <1>3 DEF IsPhases
<1>5. ASSUME NEW g \in Filters
      PROVE  Index[g] >= 1 /\ (Parent[g] \in Filters \/ Parent[g] = "wavfile")
    BY ObserverFacts, SubjectFacts DEF IsObserver, IsSubject, Subjects
<1>6. ASSUME NEW g \in Filters
      PROVE  /\ Pending(t, g) => later[g] = Previous(later[Parent[g]])
             /\ ~Pending(t, g) => later[g] = later[Parent[g]]
    <2>1. Pending(t, g) <=> Waits(t[1], g)
        BY <1>1 DEF Pending
    <2>2. CASE Parent[g] = "wavfile"
        <3>1. Waits(t[1], g) <=> t[1].event # "NEW_PACKET"
            BY <2>2, <1>1, <1>5 DEF Waits
        <3>2. later[g] = status["wavfile"]
            BY <2>2, <1>4
        <3> QED
            BY <2>1, <2>2, <3>1, <3>2 DEF Previous
    <2>3. CASE Parent[g] # "wavfile"
        <3>1. ~Waits(t[1], g)
            BY <2>3, <1>1 DEF Waits
        <3>2. later[g] = status[g] /\ later[Parent[g]] = status[Parent[g]]
            BY <2>3, <1>5
        <3> QED
            BY <2>1, <3>1, <3>2, <1>4
    <2> QED
        BY <2>2, <2>3
<1> QED
    BY <1>1, <1>2, <1>6 DEF IsPhases

--------------------------------------------------------------------------------
(* What the filters receive.                                                 *)

\* What a filter receives stays in order with one more call.
LEMMA ReceivesOne ==
    ASSUME NEW calls \in Seq(Entries), NEW entry \in Entries, InOrder(calls),
           StatusOf(calls) = IF entry.event = "TRANSMISSION_START" THEN "none" ELSE "started"
    PROVE  /\ Append(calls, entry) \in Seq(Entries) /\ InOrder(Append(calls, entry))
           /\ StatusOf(Append(calls, entry)) =
                  IF entry.event = "TRANSMISSION_END" THEN "ended" ELSE "started"
<1> DEFINE n == Len(calls)
           later == Append(calls, entry)
<1>1. /\ n \in Nat /\ later \in Seq(Entries) /\ Len(later) = n + 1 /\ later[n + 1] = entry
      /\ \A k \in 1..n : later[k] = calls[k]
      /\ calls = <<>> <=> n = 0
    OBVIOUS
<1> HIDE DEF later
<1>2. later # <<>>
    BY <1>1
<1>3. StatusOf(later) = IF entry.event = "TRANSMISSION_END" THEN "ended" ELSE "started"
    BY <1>1, <1>2 DEF StatusOf
<1>4. entry.event = "TRANSMISSION_START" <=> n = 0
    BY <1>1 DEF StatusOf
<1>5. ASSUME NEW k \in 1..n PROVE calls[k].event # "TRANSMISSION_END"
    <2>1. n > 0 /\ calls # <<>> /\ n \in 1..n
        BY <1>1
    <2>2. calls[n].event # "TRANSMISSION_END"
        BY <2>1, <1>1, <1>4 DEF StatusOf
    <2> QED
        BY <2>2 DEF InOrder
<1>6. InOrder(later)
    <2>1. ASSUME NEW k \in 1..n
          PROVE  (later[k].event = "TRANSMISSION_START" <=> k = 1) /\ later[k].event # "TRANSMISSION_END"
        BY <1>1, <1>5 DEF InOrder
    <2>2. later[n + 1].event = "TRANSMISSION_START" <=> n + 1 = 1
        BY <1>1, <1>4
    <2>3. \A k \in 1..(n + 1) : k \in 1..n \/ k = n + 1
        BY <1>1
    <2> QED
        BY <1>1, <2>1, <2>2, <2>3 DEF InOrder
<1> QED
    BY <1>1, <1>3, <1>6 DEF later

--------------------------------------------------------------------------------
(* The actions are moves.                                                    *)

\* The stack of which the innermost loop has gone on.
WithNext(s) == [s EXCEPT ![Len(s)].next = s[Len(s)].next + 1]

\* A stack of which the innermost loop goes on.
LEMMA AdvancedStack ==
    ASSUME NEW s, IsShape(s), Notifying(s)
    PROVE  WithNext(s) \in Seq(Loops) /\ Len(WithNext(s)) = Len(s) /\ Advanced(s, WithNext(s))
<1> DEFINE n == Len(s)
           loop == [s[n] EXCEPT !.next = s[n].next + 1]
<1>1. /\ n \in Nat /\ n > 0 /\ s[n] \in Loops /\ Innermost(s) = s[n] /\ ~s[n].draining
      /\ IsSubject(s[n].subject) /\ s[n].next <= Len(observers[s[n].subject])
    BY TopFacts DEF Notifying
<1>2. s[n].next + 1 \in 1..5
    BY <1>1 DEF Loops, IsSubject
<1>3. /\ loop \in Loops /\ SameLoop(loop, s[n]) /\ ~loop.draining /\ loop.next = s[n].next + 1
    BY <1>1, <1>2 DEF Loops, SameLoop
<1>4. WithNext(s) = [s EXCEPT ![n] = loop]
    BY DEF WithNext
<1> HIDE DEF loop
<1>5. s \in Seq(Loops) /\ n \in 1..n
    BY <1>1 DEF IsShape
<1>6. /\ WithNext(s) \in Seq(Loops) /\ Len(WithNext(s)) = n /\ WithNext(s)[n] = loop
      /\ \A k \in 1..n : k # n => WithNext(s)[k] = s[k]
    BY <1>3, <1>4, <1>5, ExceptSeq
<1>7. \A k \in 1..(n - 1) : k \in 1..n /\ k # n
    BY <1>1
<1> QED
    BY <1>1, <1>3, <1>6, <1>7 DEF Advanced, SameBelow

\* A stack with one more loop.
LEMMA PushedStack ==
    ASSUME NEW s, IsShape(s), Notifying(s), NEW loop \in Loops,
           loop.subject = Observer(s), loop.event = Innermost(s).event,
           loop.next = 1, ~loop.destroy,
           loop.draining => Observer(s) = "sort" /\ loop.event = "TRANSMISSION_END",
           loop.event = "NEW_PACKET" => loop.packet \in Packets
    PROVE  Passed(s, Append(WithNext(s), loop))
<1> DEFINE adv == WithNext(s)
           t == Append(adv, loop)
           n == Len(s)
<1>1. adv \in Seq(Loops) /\ Len(adv) = n /\ Advanced(s, adv) /\ n \in Nat /\ n \in 1..n
      /\ \A k \in 1..(n - 1) : k \in 1..n
    BY AdvancedStack, TopFacts DEF Notifying
<1> HIDE DEF adv
<1>2. /\ t \in Seq(Loops) /\ Len(t) = n + 1 /\ t[n + 1] = loop
      /\ \A k \in 1..n : t[k] = adv[k]
    BY <1>1
<1> HIDE DEF t
<1>3. Advanced(s, t)
    BY <1>1, <1>2 DEF Advanced, SameBelow
<1>4. Innermost(t) = loop
    BY <1>2 DEF Innermost
<1>5. Passed(s, t)
    BY <1>2, <1>3, <1>4 DEF Passed
<1> QED
    BY <1>5 DEF t, adv

--------------------------------------------------------------------------------
(* What list_sort returns.                                                   *)

\* It returns a list of the same packets.
LEMMA SortedList ==
    ASSUME NEW l \in Seq(Packets), NEW sorted \in list_sort(l)
    PROVE  /\ sorted \in Seq(Packets)
           /\ \A i \in 1..Len(sorted) : \E j \in 1..Len(l) : sorted[i] = l[j]
           /\ \A j \in 1..Len(l) : \E i \in 1..Len(sorted) : sorted[i] = l[j]
           /\ \A i, j \in 1..Len(sorted) : sorted[i] = sorted[j] => i = j
           /\ l # <<>> => sorted # <<>>
<1> DEFINE S == Range(l)
           D == 1..Cardinality(S)
<1>1. l \in [1..Len(l) -> Packets] /\ DOMAIN l = 1..Len(l) /\ Len(l) \in Nat
    OBVIOUS
<1>2. S \subseteq Packets /\ S = {l[j] : j \in 1..Len(l)}
    BY <1>1 DEF Range
<1>3. l \in Surjection(1..Len(l), S)
    BY <1>1, <1>2 DEF Surjection
<1>4. IsFiniteSet(S) /\ Cardinality(S) \in Nat
    BY <1>1, <1>3, FS_Surjection, FS_Interval, FS_CardinalityType
<1> HIDE DEF S
<1>5. sorted \in [D -> S] /\ \A i, j \in D : i # j => sorted[i] # sorted[j]
    BY DEF list_sort, SetToSeqs, S
<1>6. sorted \in Seq(Packets) /\ Len(sorted) = Cardinality(S)
    <2>1. ASSUME NEW c \in Nat, sorted \in [1..c -> S]
          PROVE  sorted \in Seq(S) /\ Len(sorted) = c
        BY <2>1
    <2>2. sorted \in Seq(S) /\ Len(sorted) = Cardinality(S)
        BY <2>1, <1>4, <1>5
    <2> QED
        BY <2>2, <1>2
<1>7. IsFiniteSet(D) /\ Cardinality(D) = Cardinality(S)
    BY <1>4, FS_Interval
<1>8. sorted \in Surjection(D, S)
    <2>1. sorted \in Injection(D, S)
        BY <1>5 DEF Injection, IsInjective
    <2> QED
        BY <2>1, <1>4, <1>7, FS_Injection
<1>9. \A j \in 1..Len(l) : \E i \in 1..Len(sorted) : sorted[i] = l[j]
    BY <1>2, <1>6, <1>8 DEF Surjection
<1>10. ASSUME NEW i \in 1..Len(sorted) PROVE \E j \in 1..Len(l) : sorted[i] = l[j]
    BY <1>2, <1>5, <1>6
<1>11. l # <<>> => sorted # <<>>
    <2>1. l # <<>> => 1 \in 1..Len(l)
        BY <1>1
    <2> QED
        BY <2>1, <1>9
<1> QED
    BY <1>5, <1>6, <1>9, <1>10, <1>11

--------------------------------------------------------------------------------
(* The actions are moves.                                                    *)

\* An observer is told, and only its own history and the stack change here.
CallStep ==
    /\ Notifying(stack) /\ ~crashed
    /\ received' = [received EXCEPT ![Observer(stack)] =
                        Append(received[Observer(stack)], Entry(Innermost(stack)))]
    /\ phase' = phase /\ source' = source /\ settings' = settings

\* It notifies in turn, returns, or crashes the process ...
CallMove ==
    /\ CallStep
    /\ \/ Passed(stack, stack')
       \/ Returned(stack, stack')
       \/ /\ stack' = stack /\ Innermost(stack).event = "NEW_PACKET"
          /\ Observer(stack) = "output" /\ crashed'

\* ... a loop ends or the buffer is drained ...
RestMove ==
    /\ ~crashed /\ received' = received
    /\ phase' = phase /\ source' = source /\ settings' = settings
    /\ Released(stack, stack') \/ Emptied(stack, stack') \/ Ended(stack, stack')

\* ... or the source notifies.
BeginMove ==
    /\ received' = received /\ settings' = settings
    /\ Begun(stack, stack')
    /\ \/ stack'[1].event = "TRANSMISSION_START" /\ phase = "none" /\ phase' = "started"
          /\ source' = source
       \/ stack'[1].event = "NEW_PACKET" /\ phase = "started" /\ phase' = "started"
          /\ source' = source + 1 /\ source < Len(Time)
       \/ stack'[1].event = "TRANSMISSION_END" /\ phase = "started" /\ phase' = "ended"
          /\ source' = source

\* The names that the handlers use for them.
LEMMA TopIs == top = Innermost(stack) /\ callee = Observer(stack)
    BY DEF top, callee, Last, Innermost, Observer

\* What every handler starts from.
LEMMA CallFacts ==
    ASSUME Shape, NEW class, NEW event, Calls(class, event)
    PROVE  /\ CallStep /\ Notifying(stack) /\ callee \in class /\ top.event = event
           /\ top = Innermost(stack) /\ callee = Observer(stack)
           /\ callee \in Filters /\ top \in Loops
<1>1. stack # <<>> /\ top = Innermost(stack) /\ callee = Observer(stack)
    BY TopIs DEF Calls
<1>2. Innermost(stack) \in Loops /\ IsSubject(Innermost(stack).subject)
    BY <1>1, TopFacts DEF Shape
<1>3. Notifying(stack)
    BY <1>1, <1>2 DEF Calls, Notifying, IsSubject
<1>4. received' = [received EXCEPT ![Observer(stack)] =
                        Append(received[Observer(stack)], Entry(Innermost(stack)))]
    BY <1>1 DEF Calls, Entry
<1>5. CallStep
    BY <1>3, <1>4 DEF CallStep, Calls
<1>6. callee \in Filters
    BY <1>1, <1>3, ObserverFound DEF Shape
<1> QED
    BY <1>1, <1>2, <1>3, <1>5, <1>6 DEF Calls

\* The innermost loop goes on.
LEMMA AdvancedIs == advanced = WithNext(stack)
    BY DEF advanced, WithNext

\* A handler that forwards an event passes it on.
LEMMA ForwardPasses ==
    ASSUME Shape, NEW class, NEW event, Calls(class, event),
           NEW packet \in Packets \cup {NoPacket}, event = "NEW_PACKET" => packet \in Packets,
           Forward(packet)
    PROVE  CallMove
<1> DEFINE loop == Loop(callee, top.event, packet)
<1>1. /\ CallStep /\ Notifying(stack) /\ top.event = event
      /\ top = Innermost(stack) /\ callee = Observer(stack)
      /\ callee \in Filters /\ top \in Loops
    BY CallFacts
<1>2. top.event \in Events /\ callee \in Subjects
    BY <1>1 DEF Loops, Subjects
<1>3. loop \in Loops
    BY <1>2 DEF Loop, Loops
<1>4. /\ loop.subject = Observer(stack) /\ loop.event = Innermost(stack).event
      /\ loop.next = 1 /\ ~loop.destroy /\ ~loop.draining
      /\ loop.event = "NEW_PACKET" => loop.packet \in Packets
    BY <1>1 DEF Loop
<1>5. stack' = Append(WithNext(stack), loop)
    BY AdvancedIs DEF Forward
<1> HIDE DEF loop
<1>6. Passed(stack, Append(WithNext(stack), loop))
    BY <1>1, <1>3, <1>4, PushedStack DEF Shape
<1> QED
    BY <1>1, <1>5, <1>6 DEF CallMove

\* A handler that returns, whatever its value, lets the loop go on.
LEMMA ReturnReturns ==
    ASSUME Shape, NEW class, NEW event, Calls(class, event), NEW retval,
           event # "NEW_PACKET" => class \subseteq Sinks, Return(retval)
    PROVE  CallMove
<1>1. /\ CallStep /\ Notifying(stack) /\ callee \in class /\ top.event = event
      /\ top = Innermost(stack) /\ callee = Observer(stack)
    BY CallFacts
<1>2. stack' = WithNext(stack)
    BY AdvancedIs DEF Return, AfterReturn
<1>3. /\ WithNext(stack) \in Seq(Loops) /\ Len(WithNext(stack)) = Len(stack)
      /\ Advanced(stack, WithNext(stack))
    BY <1>1, AdvancedStack DEF Shape
<1>4. Innermost(stack).event # "NEW_PACKET" => Observer(stack) \in Sinks
    BY <1>1
<1>5. Returned(stack, stack')
    BY <1>1, <1>2, <1>3, <1>4 DEF Returned
<1> QED
    BY <1>1, <1>5 DEF CallMove

\* The packets that are told of.
LEMMA TopPacket ==
    ASSUME Shape, NEW class, NEW event, Calls(class, event)
    PROVE  /\ top.packet \in Packets \cup {NoPacket}
           /\ event = "NEW_PACKET" => top.packet \in Packets
<1>1. /\ Notifying(stack) /\ top.event = event /\ top = Innermost(stack) /\ top \in Loops
    BY CallFacts
<1>2. Placed(stack, Len(stack)) /\ top = stack[Len(stack)]
    BY <1>1, TopFacts DEF Shape, Notifying
<1> QED
    BY <1>1, <1>2 DEF Loops, Placed

\* The innermost loop of a new packet has a packet.
LEMMA TopPacketNew ==
    ASSUME Shape, stack # <<>>, top.event = "NEW_PACKET"
    PROVE  top.packet \in Packets
<1>1. Placed(stack, Len(stack)) /\ top = stack[Len(stack)]
    BY TopIs, TopFacts DEF Shape
<1> QED
    BY <1>1 DEF Placed

\* The parts of a packet, and the changes that the filters make to it.
LEMMA PacketTypes ==
    /\ \A p \in Packets \cup {NoPacket} : p.number \in Nat /\ p.time \in Nat
    /\ \A p \in Packets : p.number \in 1..Len(Time) /\ p.frames \in Lists
    /\ \A p \in Packets : \A t \in Nat : [p EXCEPT !.time = t] \in Packets
    /\ \A p \in Packets : Copied(p) \in Packets
<1>1. DOMAIN Time = 1..Len(Time) /\ Len(Time) \in Nat
    BY ChainAssumption
<1>2. \A p \in Packets : p.number \in DOMAIN Time /\ p.time \in Nat /\ p.frames \in Lists
    BY DEF Packets
<1>3. NoPacket.number \in Nat /\ NoPacket.time \in Nat
    BY DEF NoPacket
<1>4. \A p \in Packets : \A t \in Nat : [p EXCEPT !.time = t] \in Packets
    BY DEF Packets
<1>5. ASSUME NEW p \in Packets PROVE Copied(p) \in Packets
    <2>1. CopiedList(p.number) \in Lists
        BY <1>2 DEF Lists
    <2> QED
        BY <2>1 DEF Copied, Packets
<1> QED
    BY <1>1, <1>2, <1>3, <1>4, <1>5

\* A new loop.
LEMMA LoopMade ==
    ASSUME NEW subject \in Subjects, NEW event \in Events,
           NEW packet \in Packets \cup {NoPacket}
    PROVE  /\ Loop(subject, event, packet) \in Loops
           /\ Loop(subject, event, packet).subject = subject
           /\ Loop(subject, event, packet).event = event
           /\ Loop(subject, event, packet).packet = packet
           /\ Loop(subject, event, packet).next = 1
           /\ ~Loop(subject, event, packet).destroy
           /\ ~Loop(subject, event, packet).draining
    BY DEF Loop, Loops

\* The flags of a loop.
LEMMA LoopChanged ==
    ASSUME NEW loop \in Loops
    PROVE  /\ [loop EXCEPT !.draining = TRUE] \in Loops
           /\ SameLoop([loop EXCEPT !.draining = TRUE], loop)
           /\ [loop EXCEPT !.draining = TRUE].next = loop.next
           /\ [loop EXCEPT !.draining = TRUE].draining
           /\ [loop EXCEPT !.destroy = TRUE] \in Loops
           /\ [loop EXCEPT !.destroy = TRUE].subject = loop.subject
           /\ [loop EXCEPT !.destroy = TRUE].event = loop.event
           /\ [loop EXCEPT !.destroy = TRUE].packet = loop.packet
           /\ [loop EXCEPT !.destroy = TRUE].next = loop.next
           /\ [loop EXCEPT !.destroy = TRUE].draining = loop.draining
           /\ [loop EXCEPT !.destroy = TRUE].destroy
    BY DEF Loops, SameLoop

\* Delays and the size of the buffer are numbers.
LEMMA SettingTypes ==
    ASSUME settings \in Settings
    PROVE  /\ settings.gamma_max \in Nat /\ settings.min_delay \in Nat
           /\ settings.max_delay \in Nat /\ settings.buffer_size \in Nat
    BY ChainAssumption

\* So is a delay that is drawn.
LEMMA DelayTypes ==
    ASSUME settings \in Settings, NEW f, NEW delay \in Delays(f)
    PROVE  delay \in Nat
    BY SettingTypes DEF Delays

\* The packet that the sort filter lets go, and what is left in its buffer.
LEMMA HeadTypes ==
    ASSUME NEW l \in Seq(Packets), l # <<>>
    PROVE  /\ Head(l) \in Packets /\ Tail(l) \in Seq(Packets)
           /\ Head(l) = l[1] /\ Len(Tail(l)) = Len(l) - 1
           /\ \A i \in 1..Len(Tail(l)) : Tail(l)[i] = l[i + 1]
    OBVIOUS

\* The sort filter stores a copy, or notifies of the packet in front.
LEMMA StoredTypes ==
    ASSUME Types, NEW packet \in Packets
    PROVE  /\ Append(buffer, Copied(packet)) \in Seq(Packets)
           /\ \A sorted \in list_sort(Append(buffer, Copied(packet))) :
                  /\ sorted \in Seq(Packets) /\ sorted # <<>>
                  /\ Head(sorted) \in Packets /\ Tail(sorted) \in Seq(Packets)
<1>1. /\ Append(buffer, Copied(packet)) \in Seq(Packets)
      /\ Append(buffer, Copied(packet)) # <<>>
    <2>1. \A p \in Packets : Append(buffer, p) \in Seq(Packets) /\ Append(buffer, p) # <<>>
        BY DEF Types
    <2> QED
        BY <2>1, PacketTypes
<1>2. ASSUME NEW sorted \in list_sort(Append(buffer, Copied(packet)))
      PROVE  sorted \in Seq(Packets) /\ sorted # <<>>
    BY <1>1, SortedList
<1> QED
    BY <1>1, <1>2, HeadTypes

\* The sort filter passes a packet on or keeps one and returns.
LEMMA SortNewMoves ==
    ASSUME Shape, Types, SortNew
    PROVE  CallMove
<1>1. Calls({"sort"}, "NEW_PACKET")
    BY DEF SortNew
<1>2. top.packet \in Packets
    BY <1>1, TopPacket
<1>3. CASE Forward(top.packet)
    BY <1>1, <1>2, <1>3, ForwardPasses
<1>4. ASSUME NEW sorted \in list_sort(Append(buffer, Copied(top.packet))), Forward(Head(sorted))
      PROVE  CallMove
    <2>1. Head(sorted) \in Packets
        BY <1>2, StoredTypes
    <2> QED
        BY <1>1, <1>4, <2>1, ForwardPasses
<1>5. CASE Return("WR_OK")
    <2>1. /\ CallStep /\ Notifying(stack) /\ callee = "sort" /\ top.event = "NEW_PACKET"
          /\ top = Innermost(stack) /\ callee = Observer(stack)
        BY <1>1, CallFacts
    <2> QED
        BY <1>1, <1>5, <2>1, ReturnReturns
<1> QED
    BY <1>3, <1>4, <1>5 DEF SortNew

\* At the end it begins to drain its buffer.
LEMMA SortEndMoves ==
    ASSUME Shape, SortEnd
    PROVE  CallMove
<1> DEFINE loop == [Loop("sort", "TRANSMISSION_END", NoPacket) EXCEPT !.draining = TRUE]
<1>1. /\ CallStep /\ Notifying(stack) /\ callee = "sort" /\ top.event = "TRANSMISSION_END"
      /\ top = Innermost(stack) /\ callee = Observer(stack)
    BY CallFacts DEF SortEnd
<1>2. /\ loop \in Loops /\ loop.subject = "sort" /\ loop.event = "TRANSMISSION_END"
      /\ loop.next = 1 /\ ~loop.destroy
    <2> DEFINE made == Loop("sort", "TRANSMISSION_END", NoPacket)
    <2>1. /\ "sort" \in Subjects /\ "TRANSMISSION_END" \in Events
          /\ NoPacket \in Packets \cup {NoPacket}
        BY Names DEF Events
    <2>2. /\ made \in Loops /\ made.subject = "sort" /\ made.event = "TRANSMISSION_END"
          /\ made.next = 1 /\ ~made.destroy
        BY <2>1, LoopMade
    <2> HIDE DEF made
    <2>3. /\ [made EXCEPT !.draining = TRUE] \in Loops
          /\ SameLoop([made EXCEPT !.draining = TRUE], made)
          /\ [made EXCEPT !.draining = TRUE].next = made.next
        BY <2>2, LoopChanged
    <2> QED
        BY <2>2, <2>3 DEF SameLoop, made
<1>3. stack' = Append(WithNext(stack), loop)
    BY AdvancedIs DEF SortEnd
<1> HIDE DEF loop
<1>4. Passed(stack, Append(WithNext(stack), loop))
    BY <1>1, <1>2, PushedStack DEF Shape
<1> QED
    BY <1>1, <1>3, <1>4 DEF CallMove

\* Draining releases a packet or ends.
LEMMA DrainMoves ==
    ASSUME Shape, Types, Drain
    PROVE  RestMove
<1> DEFINE n == Len(stack)
<1>1. /\ stack # <<>> /\ top = Innermost(stack) /\ Innermost(stack).draining
      /\ n \in Nat /\ n > 0 /\ n \in 1..n /\ top = stack[n] /\ top \in Loops
      /\ stack \in Seq(Loops)
    BY TopIs, TopFacts DEF Drain, Shape, IsShape
<1>2. /\ ~crashed /\ received' = received /\ phase' = phase /\ source' = source
      /\ settings' = settings
    BY DEF Drain
<1>3. CASE buffer # <<>>
    <2> DEFINE loop == [Loop("sort", "NEW_PACKET", Head(buffer)) EXCEPT !.destroy = TRUE]
    <2>1. Head(buffer) \in Packets
        BY <1>3, HeadTypes DEF Types
    <2>2. /\ loop \in Loops /\ loop.subject = "sort" /\ loop.event = "NEW_PACKET"
          /\ loop.next = 1 /\ loop.destroy /\ ~loop.draining /\ loop.packet \in Packets
        <3> DEFINE made == Loop("sort", "NEW_PACKET", Head(buffer))
        <3>1. /\ "sort" \in Subjects /\ "NEW_PACKET" \in Events
              /\ Head(buffer) \in Packets \cup {NoPacket}
            BY <2>1, Names DEF Events
        <3>2. /\ made \in Loops /\ made.subject = "sort" /\ made.event = "NEW_PACKET"
              /\ made.next = 1 /\ ~made.draining /\ made.packet = Head(buffer)
            BY <3>1, LoopMade
        <3> HIDE DEF made
        <3>3. LET l == [made EXCEPT !.destroy = TRUE] IN
              /\ l \in Loops /\ l.subject = "sort" /\ l.event = "NEW_PACKET"
              /\ l.next = 1 /\ l.destroy /\ ~l.draining /\ l.packet = Head(buffer)
            BY <3>2, LoopChanged
        <3> QED
            BY <2>1, <3>3 DEF made
    <2>3. stack' = Append(stack, loop)
        BY <1>3 DEF Drain
    <2> HIDE DEF loop
    <2>4. /\ stack' \in Seq(Loops) /\ Len(stack') = n + 1 /\ stack'[n + 1] = loop
          /\ \A k \in 1..n : stack'[k] = stack[k]
        BY <2>2, <2>3, <1>1
    <2>5. Innermost(stack') = loop
        BY <2>4 DEF Innermost
    <2>6. Released(stack, stack')
        BY <2>2, <2>4, <2>5, <1>1 DEF Released
    <2> QED
        BY <1>2, <2>6 DEF RestMove
<1>4. CASE buffer = <<>>
    <2> DEFINE loop == [stack[n] EXCEPT !.draining = FALSE]
    <2>1. /\ loop \in Loops /\ SameLoop(loop, stack[n]) /\ ~loop.draining
          /\ loop.next = stack[n].next
        BY <1>1 DEF Loops, SameLoop
    <2>2. stack' = [stack EXCEPT ![n] = loop]
        BY <1>4 DEF Drain
    <2> HIDE DEF loop
    <2>3. /\ stack' \in Seq(Loops) /\ Len(stack') = n /\ stack'[n] = loop
          /\ \A k \in 1..n : k # n => stack'[k] = stack[k]
        BY <1>1, <2>1, <2>2, ExceptSeq
    <2>4. \A k \in 1..(n - 1) : k \in 1..n /\ k # n
        BY <1>1
    <2>5. Innermost(stack') = loop /\ Innermost(stack) = stack[n]
        BY <2>3 DEF Innermost
    <2>6. Emptied(stack, stack')
        BY <1>1, <2>1, <2>3, <2>4, <2>5 DEF Emptied, SameBelow
    <2> QED
        BY <1>2, <2>6 DEF RestMove
<1> QED
    BY <1>3, <1>4

\* A loop that has no more observers to tell ends.
LEMMA EndLoopMoves ==
    ASSUME Shape, EndLoop
    PROVE  RestMove
<1> DEFINE n == Len(stack)
<1>1. /\ stack # <<>> /\ top = Innermost(stack) /\ ~Innermost(stack).draining
      /\ n \in Nat /\ n > 0 /\ top \in Loops /\ stack \in Seq(Loops)
      /\ IsSubject(top.subject)
    BY TopIs, TopFacts DEF EndLoop, Shape, IsShape
<1>2. /\ ~crashed /\ received' = received /\ phase' = phase /\ source' = source
      /\ settings' = settings /\ stack' = Front(stack)
      /\ top.next \notin DOMAIN observers[top.subject]
    BY DEF EndLoop
<1>3. top.next > Len(observers[top.subject])
    BY <1>1, <1>2 DEF IsSubject, Loops
<1>4. /\ Front(stack) \in Seq(Loops) /\ Len(Front(stack)) = n - 1
      /\ \A k \in 1..(n - 1) : Front(stack)[k] = stack[k]
    <2>1. \A k \in 1..(n - 1) : stack[k] \in Loops
        BY <1>1
    <2>2. n - 1 \in Int /\ 1 \in Int
        BY <1>1
    <2>3. /\ SubSeq(stack, 1, n - 1) \in Seq(Loops)
          /\ Len(SubSeq(stack, 1, n - 1)) = IF 1 <= n - 1 THEN n - 1 - 1 + 1 ELSE 0
          /\ \A k \in 1..(n - 1 - 1 + 1) : SubSeq(stack, 1, n - 1)[k] = stack[1 + k - 1]
        BY <2>1, <2>2, SubSeqProperties
    <2>4. \A k \in 1..(n - 1) : k \in 1..(n - 1 - 1 + 1) /\ 1 + k - 1 = k
        BY <1>1
    <2>5. (IF 1 <= n - 1 THEN n - 1 - 1 + 1 ELSE 0) = n - 1
        BY <1>1
    <2>6. Front(stack) = SubSeq(stack, 1, n - 1)
        BY DEF Front
    <2> QED
        BY <2>3, <2>4, <2>5, <2>6
<1>5. Ended(stack, stack')
    BY <1>1, <1>2, <1>3, <1>4 DEF Ended, SameBelow
<1> QED
    BY <1>2, <1>5 DEF RestMove

\* Before the source starts there is nothing to do.
LEMMA AtRest ==
    ASSUME Shape, Phases, phase = "none"
    PROVE  stack = <<>>
<1> SUFFICES ASSUME stack # <<>> PROVE FALSE
    OBVIOUS
<1>1. /\ 1 \in 1..Len(stack) /\ Placed(stack, 1) /\ ~Drained(stack, 1)
      /\ stack[1].subject \in Subjects
    BY LoopTypes DEF Shape, IsShape, Drained
<1>2. stack[1].subject = "wavfile"
    <2>1. Level[stack[1].subject] = 0
        BY <1>1 DEF Placed
    <2> QED
        BY <1>1, <2>1, SubjectFacts DEF IsSubject
<1>3. Status["wavfile"] = Reached(stack, 1)
    BY <1>1, <1>2 DEF Phases, IsPhases
<1>4. Status["wavfile"] = "none"
    BY Names DEF Status
<1> QED
    BY <1>3, <1>4 DEF Reached, After

\* The source begins the transmission ...
LEMMA SourceStartMoves ==
    ASSUME Shape, Phases, SourceStart
    PROVE  BeginMove
<1> DEFINE loop == Loop("wavfile", "TRANSMISSION_START", NoPacket)
<1>1. stack = <<>> /\ stack' = <<loop>> /\ phase = "none" /\ phase' = "started"
      /\ source' = source /\ received' = received /\ settings' = settings
    BY AtRest DEF SourceStart
<1>2. /\ loop \in Loops /\ loop.subject = "wavfile" /\ loop.event = "TRANSMISSION_START"
      /\ loop.next = 1 /\ ~loop.destroy /\ ~loop.draining
    <2>1. /\ "wavfile" \in Subjects /\ "TRANSMISSION_START" \in Events
          /\ NoPacket \in Packets \cup {NoPacket}
        BY Names DEF Events
    <2> QED
        BY <2>1, LoopMade
<1> HIDE DEF loop
<1>3. stack' \in Seq(Loops) /\ Len(stack') = 1 /\ stack'[1] = loop
    BY <1>1, <1>2
<1>4. Begun(stack, stack')
    BY <1>1, <1>2, <1>3 DEF Begun
<1> QED
    BY <1>1, <1>2, <1>3, <1>4 DEF BeginMove

\* ... and ends it.
LEMMA SourceEndMoves ==
    ASSUME SourceEnd
    PROVE  BeginMove
<1> DEFINE loop == Loop("wavfile", "TRANSMISSION_END", NoPacket)
<1>1. stack = <<>> /\ stack' = <<loop>> /\ phase = "started" /\ phase' = "ended"
      /\ source' = source /\ received' = received /\ settings' = settings
    BY DEF SourceEnd
<1>2. /\ loop \in Loops /\ loop.subject = "wavfile" /\ loop.event = "TRANSMISSION_END"
      /\ loop.next = 1 /\ ~loop.destroy /\ ~loop.draining
    <2>1. /\ "wavfile" \in Subjects /\ "TRANSMISSION_END" \in Events
          /\ NoPacket \in Packets \cup {NoPacket}
        BY Names DEF Events
    <2> QED
        BY <2>1, LoopMade
<1> HIDE DEF loop
<1>3. stack' \in Seq(Loops) /\ Len(stack') = 1 /\ stack'[1] = loop
    BY <1>1, <1>2
<1>4. Begun(stack, stack')
    BY <1>1, <1>2, <1>3 DEF Begun
<1> QED
    BY <1>1, <1>2, <1>3, <1>4 DEF BeginMove

\* The packet that the source sends.
NewPacket == [number |-> source + 1, time |-> Time[source + 1], frames |-> SourceList(source + 1)]

\* The source sends a packet.
LEMMA SourceSendMoves ==
    ASSUME Types, SourceSend
    PROVE  /\ BeginMove /\ stack'[1].event = "NEW_PACKET" /\ stack'[1].packet = NewPacket
           /\ NewPacket \in Packets
<1> DEFINE made == Loop("wavfile", "NEW_PACKET", NewPacket)
           loop == [made EXCEPT !.destroy = TRUE]
<1>1. stack = <<>> /\ stack' = <<loop>> /\ phase = "started" /\ phase' = "started"
      /\ source' = source + 1 /\ source < Len(Time)
      /\ received' = received /\ settings' = settings
    BY DEF SourceSend, NewPacket, Types
<1>2. NewPacket \in Packets
    <2>1. source + 1 \in DOMAIN Time /\ Time[source + 1] \in Nat
        BY <1>1, ChainAssumption DEF Types
    <2>2. SourceList(source + 1) \in Lists
        BY <2>1 DEF Lists
    <2> QED
        BY <2>1, <2>2 DEF NewPacket, Packets
<1>3. /\ made \in Loops /\ made.subject = "wavfile" /\ made.event = "NEW_PACKET"
      /\ made.next = 1 /\ ~made.draining /\ made.packet = NewPacket
    <2>1. /\ "wavfile" \in Subjects /\ "NEW_PACKET" \in Events
          /\ NewPacket \in Packets \cup {NoPacket}
        BY <1>2, Names DEF Events
    <2> QED
        BY <2>1, LoopMade
<1> HIDE DEF made
<1>4. /\ loop \in Loops /\ loop.subject = "wavfile" /\ loop.event = "NEW_PACKET"
      /\ loop.next = 1 /\ loop.destroy /\ ~loop.draining /\ loop.packet = NewPacket
    BY <1>3, LoopChanged
<1> HIDE DEF loop
<1>5. stack' \in Seq(Loops) /\ Len(stack') = 1 /\ stack'[1] = loop
    BY <1>1, <1>4
<1>6. Begun(stack, stack')
    BY <1>1, <1>2, <1>4, <1>5 DEF Begun
<1> QED
    BY <1>1, <1>2, <1>4, <1>5, <1>6 DEF BeginMove

\* What an observer does that is told of something.
CallAction ==
    \/ Start \/ End \/ Delay \/ LoseMarkov \/ LoseIndependently \/ Watch
    \/ SortNew \/ SortEnd \/ OpenOutput \/ WriteOutput \/ CloseOutput \/ WriteWav

\* The steps, grouped.
LEMMA NextActions == Next <=> SourceStart \/ SourceSend \/ SourceEnd \/ EndLoop \/ Drain \/ CallAction
    BY DEF Next, CallAction

\* Every handler makes a move.
LEMMA CallMoves ==
    ASSUME Shape, Types, CallAction
    PROVE  CallMove
<1>1. CASE Start
    <2>1. Calls(Forwarders, "TRANSMISSION_START") /\ Forward(top.packet)
        BY <1>1 DEF Start
    <2> QED
        BY <2>1, TopPacket, ForwardPasses
<1>2. CASE End
    <2>1. Calls(Forwarders \ {"sort"}, "TRANSMISSION_END") /\ Forward(top.packet)
        BY <1>2 DEF End
    <2> QED
        BY <2>1, TopPacket, ForwardPasses
<1>3. CASE Delay
    <2>1. Calls({"gamma_delay", "uniform_delay"}, "NEW_PACKET")
        BY <1>3 DEF Delay
    <2>2. top.packet \in Packets
        BY <2>1, TopPacket
    <2>3. PICK delay \in Delays(callee) : Forward([top.packet EXCEPT !.time = @ + delay])
        BY <1>3 DEF Delay
    <2>4. delay \in Nat
        BY DelayTypes DEF Types
    <2>5. [top.packet EXCEPT !.time = @ + delay] \in Packets
        <3>1. top.packet.time + delay \in Nat
            BY <2>2, <2>4 DEF Packets
        <3> QED
            BY <2>2, <3>1, PacketTypes
    <2> QED
        BY <2>1, <2>3, <2>5, ForwardPasses
<1>4. CASE LoseMarkov
    <2>1. Calls({"markov_losses"}, "NEW_PACKET") /\ (Return("WR_OK") \/ Forward(top.packet))
        BY <1>4 DEF LoseMarkov
    <2> QED
        BY <2>1, TopPacket, ForwardPasses, ReturnReturns
<1>5. CASE LoseIndependently
    <2>1. Calls({"independent_losses"}, "NEW_PACKET") /\ (Return("WR_OK") \/ Forward(top.packet))
        BY <1>5 DEF LoseIndependently
    <2> QED
        BY <2>1, TopPacket, ForwardPasses, ReturnReturns
<1>6. CASE Watch
    <2>1. Calls({"log", "sipp"}, "NEW_PACKET") /\ Forward(top.packet)
        BY <1>6 DEF Watch
    <2> QED
        BY <2>1, TopPacket, ForwardPasses
<1>7. CASE SortNew
    BY <1>7, SortNewMoves
<1>8. CASE SortEnd
    BY <1>8, SortEndMoves
<1>9. CASE OpenOutput
    <2>1. Calls({"output"}, "TRANSMISSION_START")
        BY <1>9 DEF OpenOutput
    <2>2. Return("WR_OK") \/ Return("WR_FATAL")
        BY <1>9 DEF OpenOutput
    <2>3. {"output"} \subseteq Sinks
        BY DEF Sinks
    <2> QED
        BY <2>1, <2>2, <2>3, ReturnReturns
<1>10. CASE WriteOutput
    <2>1. Calls({"output"}, "NEW_PACKET")
        BY <1>10 DEF WriteOutput
    <2>2. \/ crashed' /\ UNCHANGED stack
          \/ Return(IF state["output"] = "null" THEN "WR_FATAL" ELSE "WR_OK")
        BY <1>10 DEF WriteOutput
    <2>3. CASE crashed' /\ UNCHANGED stack
        BY <2>1, <2>3, CallFacts DEF CallMove
    <2>4. CASE Return(IF state["output"] = "null" THEN "WR_FATAL" ELSE "WR_OK")
        BY <2>1, <2>4, ReturnReturns
    <2> QED
        BY <2>2, <2>3, <2>4
<1>11. CASE CloseOutput
    <2>1. Calls({"output"}, "TRANSMISSION_END")
        BY <1>11 DEF CloseOutput
    <2>2. Return("WR_OK") \/ Return("WR_FATAL")
        BY <1>11 DEF CloseOutput
    <2>3. {"output"} \subseteq Sinks
        BY DEF Sinks
    <2> QED
        BY <2>1, <2>2, <2>3, ReturnReturns
<1>12. CASE WriteWav
    <2>1. PICK event : Calls({"wavfile_output"}, event)
        BY <1>12 DEF WriteWav
    <2>2. Return("WR_OK")
        BY <1>12 DEF WriteWav
    <2>3. {"wavfile_output"} \subseteq Sinks
        BY DEF Sinks
    <2> QED
        BY <2>1, <2>2, <2>3, ReturnReturns
<1> QED
    BY <1>1, <1>2, <1>3, <1>4, <1>5, <1>6, <1>7, <1>8, <1>9, <1>10, <1>11, <1>12 DEF CallAction

\* Every step is a move.
LEMMA StepMoves ==
    ASSUME Shape, Types, Phases, Next
    PROVE  CallMove \/ RestMove \/ BeginMove
    BY NextActions, CallMoves, SourceStartMoves, SourceSendMoves, SourceEndMoves, DrainMoves,
       EndLoopMoves

--------------------------------------------------------------------------------
(* Every step preserves the shape of the stack and the phases.               *)

\* The shape is preserved.
LEMMA ShapeStep ==
    ASSUME Shape, CallMove \/ RestMove \/ BeginMove
    PROVE  Shape'
<1>1. CASE CallMove
    BY <1>1, ShapePassed, ShapeReturned DEF CallMove, Shape
<1>2. CASE RestMove
    BY <1>2, ShapeReleased, ShapeEmptied, ShapeEnded DEF RestMove, Shape
<1>3. CASE BeginMove
    BY <1>3, ShapeBegun DEF BeginMove, Shape
<1> QED
    BY <1>1, <1>2, <1>3

\* What an observer is told.
LEMMA EntryTypes ==
    ASSUME NEW loop \in Loops
    PROVE  Entry(loop) \in Entries /\ Entry(loop).event = loop.event
<1>1. loop.event \in Events /\ loop.packet \in Packets \cup {NoPacket}
    BY DEF Loops
<1>2. loop.packet.number \in Nat /\ loop.packet.time \in Nat
    BY <1>1, PacketTypes
<1> QED
    BY <1>1, <1>2 DEF Entry, Entries

\* What a call does to the history of the observer, and to no other.
LEMMA CallReceived ==
    ASSUME Shape, Types, Phases, CallStep
    PROVE  /\ received' \in [Filters -> Seq(Entries)]
           /\ \A f \in Filters : InOrder(received'[f])
           /\ Observer(stack) \in Filters
           /\ received'[Observer(stack)] =
                  Append(received[Observer(stack)], Entry(Innermost(stack)))
           /\ \A f \in Filters : f # Observer(stack) => received'[f] = received[f]
           /\ Tells(Status, Status', Observer(stack), Innermost(stack).event)
           /\ Status[Observer(stack)] =
                  IF Innermost(stack).event = "TRANSMISSION_START" THEN "none" ELSE "started"
<1> DEFINE g == Observer(stack)
           entry == Entry(Innermost(stack))
           later == Append(received[g], entry)
<1>1. /\ Notifying(stack) /\ received' = [received EXCEPT ![g] = later] /\ phase' = phase
    BY DEF CallStep
<1>2. g \in Filters /\ g \in Subjects /\ g # "wavfile"
    BY <1>1, ObserverFound, ObserverFacts DEF Shape, IsObserver
<1>3. Innermost(stack) \in Loops
    BY <1>1, TopFacts DEF Shape, Notifying
<1>4. entry \in Entries /\ entry.event = Innermost(stack).event
    BY <1>3, EntryTypes
<1>5. Status[g] = IF Innermost(stack).event = "TRANSMISSION_START" THEN "none" ELSE "started"
    BY <1>1, ObserverStatus DEF Shape, Phases
<1>6. Status[g] = StatusOf(received[g])
    BY <1>2 DEF Status
<1>7. received \in [Filters -> Seq(Entries)] /\ \A f \in Filters : InOrder(received[f])
    BY DEF Types, Phases
<1> HIDE DEF g, entry
<1>8. received[g] \in Seq(Entries) /\ InOrder(received[g])
    BY <1>2, <1>7
<1>9. /\ later \in Seq(Entries) /\ InOrder(later)
      /\ StatusOf(later) = IF entry.event = "TRANSMISSION_END" THEN "ended" ELSE "started"
    BY <1>4, <1>5, <1>6, <1>8, ReceivesOne
<1> HIDE DEF later
<1>10. /\ received' \in [Filters -> Seq(Entries)] /\ received'[g] = later
       /\ \A f \in Filters : f # g => received'[f] = received[f]
    BY <1>1, <1>2, <1>7, <1>9
<1>11. \A f \in Filters : InOrder(received'[f])
    BY <1>7, <1>9, <1>10
<1>12. Tells(Status, Status', g, Innermost(stack).event)
    <2>1. Status'[g] = StatusOf(received'[g])
        BY <1>2 DEF Status
    <2>2. ASSUME NEW x \in Subjects, x # g PROVE Status'[x] = Status[x]
        <3>1. x = "wavfile" \/ x \in Filters
            BY DEF Subjects
        <3> QED
            BY <2>2, <3>1, <1>1, <1>10 DEF Status
    <2> QED
        BY <2>1, <2>2, <1>4, <1>9, <1>10 DEF Tells
<1> QED
    BY <1>2, <1>5, <1>10, <1>11, <1>12 DEF g, entry, later

\* The phases are preserved.
LEMMA PhasesStep ==
    ASSUME Shape, Types, Phases, CallMove \/ RestMove \/ BeginMove
    PROVE  Phases'
<1>1. CASE CallMove
    <2>1. /\ \A f \in Filters : InOrder(received'[f])
          /\ Observer(stack) \in Filters
          /\ Tells(Status, Status', Observer(stack), Innermost(stack).event)
          /\ Status[Observer(stack)] =
                 IF Innermost(stack).event = "TRANSMISSION_START" THEN "none" ELSE "started"
        BY <1>1, CallReceived DEF CallMove
    <2>2. IsPhases(stack, Status)
        BY DEF Phases
    <2>3. CASE Passed(stack, stack') \/ Returned(stack, stack')
        <3>1. Called(stack, stack')
            BY <2>3, PassedIsCalled, ReturnedIsCalled DEF Shape
        <3>2. IsPhases(stack', Status')
            BY <2>1, <2>2, <3>1, PhasesCalled DEF Shape
        <3> QED
            BY <2>1, <3>2 DEF Phases
    <2>4. CASE stack' = stack /\ Innermost(stack).event = "NEW_PACKET"
        <3>1. \A x \in Subjects : Status'[x] = Status[x]
            <4>1. Observer(stack) \in Subjects
                BY <2>1 DEF Subjects
            <4> QED
                BY <2>1, <2>4, <4>1 DEF Tells
        <3>2. \A k \in 1..Len(stack) : stack[k].subject \in Subjects
            BY LoopTypes DEF Shape
        <3>3. \A f \in Filters : f \in Subjects /\ Parent[f] \in Subjects
            BY ObserverFacts DEF IsObserver
        <3>4. IsPhases(stack, Status')
            BY <2>2, <3>1, <3>2, <3>3 DEF IsPhases
        <3> QED
            BY <2>1, <2>4, <3>4 DEF Phases
    <2> QED
        BY <1>1, <2>3, <2>4 DEF CallMove
<1>2. CASE RestMove
    <2>1. Status' = Status /\ received' = received
        BY <1>2 DEF RestMove, Status
    <2>2. IsPhases(stack', Status)
        BY <1>2, PhasesReleased, PhasesEmptied, PhasesEnded DEF RestMove, Shape, Phases
    <2> QED
        BY <2>1, <2>2 DEF Phases
<1>3. CASE BeginMove
    <2>1. received' = received /\ Status["wavfile"] = phase /\ Status'["wavfile"] = phase'
        BY <1>3, Names DEF BeginMove, Status
    <2>2. ASSUME NEW f \in Filters PROVE Status'[f] = Status[f]
        BY <2>1, ObserverFacts DEF Status, IsObserver
    <2>3. IsPhases(stack', Status')
        BY <1>3, <2>1, <2>2, PhasesBegun DEF BeginMove, Phases
    <2> QED
        BY <2>1, <2>3 DEF Phases
<1> QED
    BY <1>1, <1>2, <1>3

--------------------------------------------------------------------------------
(* Every step preserves the types.                                           *)

\* The types of the variables that the handlers change.
DataTypes ==
    /\ state \in [Filters -> {"null", "alive", "freed"}]
    /\ prev_lost \in BOOLEAN /\ crashed \in BOOLEAN
    /\ buffer \in Seq(Packets)
    /\ heap \in [Lists -> {"none", "live", "freed"}]

\* The loop that ends destroys a packet whose frames are there.
LEMMA DestroysLive ==
    ASSUME Shape, NoDanglingPacket, stack # <<>>, top.destroy
    PROVE  /\ heap[top.packet.frames] = "live" /\ top.packet.frames \in Lists
           /\ top.event = "NEW_PACKET" /\ top = stack[Len(stack)] /\ top.packet \in Packets
<1> DEFINE n == Len(stack)
<1>1. Placed(stack, n) /\ top = stack[n] /\ n \in 1..n
    BY TopIs, TopFacts DEF Shape
<1>2. top.event = "NEW_PACKET" /\ top.packet \in Packets
    BY <1>1 DEF Placed
<1>3. n \in DOMAIN stack
    BY <1>1 DEF Shape, IsShape
<1> QED
    BY <1>1, <1>2, <1>3, PacketTypes DEF NoDanglingPacket

\* The variables that hold data keep their types.
LEMMA DataStep ==
    ASSUME Shape, Types, NoDanglingPacket, Next
    PROVE  DataTypes'
<1>0. DataTypes
    BY DEF Types, DataTypes
<1>1. CASE SourceStart
    BY <1>0, <1>1 DEF SourceStart, DataTypes
<1>2. CASE SourceSend
    <2>1. heap' = [heap EXCEPT ![SourceList(source + 1)] = "live"]
        BY <1>2 DEF SourceSend
    <2>2. heap' \in [Lists -> {"none", "live", "freed"}]
        BY <1>0, <2>1 DEF DataTypes
    <2> QED
        BY <1>0, <1>2, <2>2 DEF SourceSend, DataTypes
<1>3. CASE SourceEnd
    BY <1>0, <1>3 DEF SourceEnd, DataTypes
<1>4. CASE Start
    BY <1>0, <1>4 DEF Start, Unchanged, DataTypes
<1>5. CASE End
    BY <1>0, <1>5 DEF End, Unchanged, DataTypes
<1>6. CASE EndLoop
    <2>1. heap' \in [Lists -> {"none", "live", "freed"}]
        <3>1. CASE top.destroy
            <4>1. heap[top.packet.frames] = "live"
                BY <1>6, <3>1, DestroysLive DEF EndLoop
            <4>2. heap' = [heap EXCEPT ![top.packet.frames] = "freed"]
                BY <1>6, <3>1, <4>1 DEF EndLoop, wr_rtp_packet_destroy
            <4> QED
                BY <1>0, <4>2 DEF DataTypes
        <3>2. CASE ~top.destroy
            BY <1>0, <1>6, <3>2 DEF EndLoop, DataTypes
        <3> QED
            BY <3>1, <3>2
    <2> QED
        BY <1>0, <1>6, <2>1 DEF EndLoop, DataTypes
<1>7. CASE Delay
    BY <1>0, <1>7 DEF Delay, Unchanged, DataTypes
<1>8. CASE LoseMarkov
    <2>1. prev_lost' \in BOOLEAN
        BY <1>8 DEF LoseMarkov, Lost
    <2> QED
        BY <1>0, <1>8, <2>1 DEF LoseMarkov, DataTypes
<1>9. CASE LoseIndependently
    BY <1>0, <1>9 DEF LoseIndependently, Unchanged, DataTypes
<1>10. CASE Watch
    BY <1>0, <1>10 DEF Watch, Unchanged, DataTypes
<1>11. CASE SortNew
    <2>1. top.packet \in Packets
        BY <1>11, TopPacket DEF SortNew
    <2>2. /\ Append(buffer, Copied(top.packet)) \in Seq(Packets)
          /\ \A sorted \in list_sort(Append(buffer, Copied(top.packet))) :
                 Tail(sorted) \in Seq(Packets)
        BY <2>1, StoredTypes
    <2>3. \/ buffer' = buffer /\ heap' = heap
          \/ /\ heap' = [heap EXCEPT ![Copied(top.packet).frames] = "live"]
             /\ \/ buffer' = Append(buffer, Copied(top.packet))
                \/ \E sorted \in list_sort(Append(buffer, Copied(top.packet))) :
                       buffer' = Tail(sorted)
        BY <1>11 DEF SortNew
    <2>4. buffer' \in Seq(Packets)
        BY <1>0, <2>2, <2>3 DEF DataTypes
    <2>5. heap' \in [Lists -> {"none", "live", "freed"}]
        BY <1>0, <2>3 DEF DataTypes
    <2> QED
        BY <1>0, <1>11, <2>4, <2>5 DEF SortNew, DataTypes
<1>12. CASE SortEnd
    <2>1. buffer' \in Seq(Packets)
        BY <1>0, <1>12, SortedList DEF SortEnd, DataTypes
    <2> QED
        BY <1>0, <1>12, <2>1 DEF SortEnd, DataTypes
<1>13. CASE Drain
    <2>1. buffer' \in Seq(Packets)
        BY <1>0, <1>13, HeadTypes DEF Drain, DataTypes
    <2>2. state' \in [Filters -> {"null", "alive", "freed"}]
        BY <1>0, <1>13 DEF Drain, DataTypes
    <2> QED
        BY <1>0, <1>13, <2>1, <2>2 DEF Drain, DataTypes
<1>14. CASE OpenOutput
    <2>1. state' \in [Filters -> {"null", "alive", "freed"}]
        BY <1>0, <1>14 DEF OpenOutput, DataTypes
    <2> QED
        BY <1>0, <1>14, <2>1 DEF OpenOutput, Unchanged, DataTypes
<1>15. CASE WriteOutput
    <2>1. crashed' \in BOOLEAN
        BY <1>0, <1>15 DEF WriteOutput, DataTypes
    <2> QED
        BY <1>0, <1>15, <2>1 DEF WriteOutput, DataTypes
<1>16. CASE CloseOutput
    <2>1. state' \in [Filters -> {"null", "alive", "freed"}]
        BY <1>0, <1>16 DEF CloseOutput, DataTypes
    <2> QED
        BY <1>0, <1>16, <2>1 DEF CloseOutput, Unchanged, DataTypes
<1>17. CASE WriteWav
    <2>1. state' \in [Filters -> {"null", "alive", "freed"}]
        <3>1. \/ state' = [state EXCEPT !["wavfile_output"] = "alive"]
              \/ state' = [state EXCEPT !["wavfile_output"] = @]
            BY <1>17 DEF WriteWav
        <3> QED
            BY <1>0, <3>1 DEF DataTypes
    <2> QED
        BY <1>0, <1>17, <2>1 DEF WriteWav, Unchanged, DataTypes
<1> QED
    BY <1>1, <1>2, <1>3, <1>4, <1>5, <1>6, <1>7, <1>8, <1>9, <1>10, <1>11, <1>12, <1>13,
       <1>14, <1>15, <1>16, <1>17 DEF Next

\* All variables keep their types.
LEMMA TypesStep ==
    ASSUME Shape, Types, Phases, NoDanglingPacket, Next
    PROVE  Types'
<1>1. DataTypes'
    BY DataStep
<1>2. CallMove \/ RestMove \/ BeginMove
    BY StepMoves
<1>3. settings' = settings
    BY <1>2 DEF CallMove, CallStep, RestMove, BeginMove
<1>4. received' \in [Filters -> Seq(Entries)]
    BY <1>2, CallReceived DEF CallMove, RestMove, BeginMove, Types
<1>5. phase' \in {"none", "started", "ended"}
    BY <1>2 DEF CallMove, CallStep, RestMove, BeginMove, Types
<1>6. source' \in 0..Len(Time)
    <2>1. Len(Time) \in Nat
        BY ChainAssumption
    <2>2. source' = source \/ (source' = source + 1 /\ source < Len(Time))
        BY <1>2 DEF CallMove, CallStep, RestMove, BeginMove
    <2> QED
        BY <2>1, <2>2 DEF Types
<1> QED
    BY <1>1, <1>3, <1>4, <1>5, <1>6 DEF Types, DataTypes

--------------------------------------------------------------------------------
(* Every step preserves the states of the filters.                           *)

\* What a call does to the states: the observer's alone may change, and as the event says.
CallState(event, g) ==
    /\ \A f \in Filters : f # g => state'[f] = state[f]
    /\ event = "TRANSMISSION_START" => state'[g] = "alive" \/ (g = "output" /\ ~settings.opens)
    /\ event = "NEW_PACKET" => state'[g] = state[g]
    /\ g = "sort" /\ event # "TRANSMISSION_START" => state'[g] = state[g]

\* What a handler does to the state of its filter.
LEMMA CallStates ==
    ASSUME Shape, Types, CallAction
    PROVE  CallState(top.event, callee)
<1>0. state \in [Filters -> {"null", "alive", "freed"}]
    BY DEF Types
<1>1. CASE Start
    <2>1. callee \in Filters /\ top.event = "TRANSMISSION_START"
        BY <1>1, CallFacts DEF Start
    <2> QED
        BY <1>0, <1>1, <2>1 DEF Start, CallState
<1>2. CASE End
    <2>1. /\ callee \in Filters /\ callee \in Forwarders \ {"sort"}
          /\ top.event = "TRANSMISSION_END"
        BY <1>2, CallFacts DEF End
    <2>2. callee # "sort"
        BY <2>1
    <2> QED
        BY <1>0, <1>2, <2>1, <2>2 DEF End, CallState
<1>3. CASE Delay \/ LoseIndependently \/ Watch \/ LoseMarkov \/ SortNew \/ WriteOutput
    <2>1. state' = state
        BY <1>3 DEF Delay, LoseIndependently, Watch, LoseMarkov, SortNew, WriteOutput
    <2>2. top.event = "NEW_PACKET"
        BY <1>3, CallFacts DEF Delay, LoseIndependently, Watch, LoseMarkov, SortNew, WriteOutput
    <2> QED
        BY <2>1, <2>2 DEF CallState
<1>4. CASE SortEnd
    <2>1. state' = state
        BY <1>4 DEF SortEnd
    <2>2. top.event = "TRANSMISSION_END"
        BY <1>4, CallFacts DEF SortEnd
    <2> QED
        BY <2>1, <2>2 DEF CallState
<1>5. CASE OpenOutput
    <2>1. callee = "output" /\ top.event = "TRANSMISSION_START" /\ callee \in Filters
        BY <1>5, CallFacts DEF OpenOutput
    <2>2. \/ state' = [state EXCEPT !["output"] = "alive"]
          \/ state' = state /\ ~settings.opens
        BY <1>5 DEF OpenOutput
    <2> QED
        BY <1>0, <2>1, <2>2 DEF CallState
<1>6. CASE CloseOutput
    <2>1. callee = "output" /\ top.event = "TRANSMISSION_END" /\ callee \in Filters
        BY <1>6, CallFacts DEF CloseOutput
    <2>2. state' = [state EXCEPT !["output"] = "freed"] \/ state' = state
        BY <1>6 DEF CloseOutput
    <2> QED
        BY <1>0, <2>1, <2>2 DEF CallState
<1>7. CASE WriteWav
    <2>1. PICK event : /\ Calls({"wavfile_output"}, event)
                       /\ state' = [state EXCEPT !["wavfile_output"] =
                                        IF event = "TRANSMISSION_START" THEN "alive" ELSE @]
        BY <1>7 DEF WriteWav
    <2>2. callee = "wavfile_output" /\ top.event = event /\ callee \in Filters
        BY <2>1, CallFacts
    <2>3. \/ event = "TRANSMISSION_START" /\ state' = [state EXCEPT ![callee] = "alive"]
          \/ event # "TRANSMISSION_START" /\ state' = [state EXCEPT ![callee] = state[callee]]
        BY <2>1, <2>2
    <2>4. CASE event = "TRANSMISSION_START"
        BY <1>0, <2>2, <2>3, <2>4 DEF CallState
    <2>5. CASE event # "TRANSMISSION_START"
        <3>1. state' = state
            BY <1>0, <2>2, <2>3, <2>5
        <3> QED
            BY <2>2, <2>5, <3>1 DEF CallState
    <2> QED
        BY <2>4, <2>5
<1> QED
    BY <1>1, <1>2, <1>3, <1>4, <1>5, <1>6, <1>7 DEF CallAction

\* Filters that are started keep a state when one of them is called.
LEMMA StatesCall ==
    ASSUME Shape, Types, Phases, States, CallAction
    PROVE  States'
<1> DEFINE g == Observer(stack)
           n == Len(stack)
           e == Innermost(stack).event
<1>1. /\ CallMove /\ CallStep /\ Notifying(stack) /\ settings' = settings
    BY CallMoves DEF CallMove, CallStep
<1>2. CallState(e, g)
    BY CallStates, TopIs
<1>3. g \in Filters /\ g # "wavfile"
    BY <1>1, ObserverFound, ObserverFacts DEF Shape, IsObserver
<1>4. Tells(Status, Status', g, e)
      /\ Status[g] = IF e = "TRANSMISSION_START" THEN "none" ELSE "started"
    BY <1>1, CallReceived
<1>5. /\ Innermost(stack) = stack[n] /\ Innermost(stack) \in Loops /\ n \in Nat /\ n \in 1..n
      /\ e \in Events /\ ~stack[n].draining
    BY <1>1, TopFacts DEF Shape, Notifying, Loops
<1> HIDE DEF g
<1>6. ASSUME NEW f \in Filters, Status'[f] = "started"
      PROVE  state'[f] = "alive" \/ (f = "output" /\ ~settings'.opens)
    <2>1. CASE f # g
        <3>1. Status[f] = "started" /\ state'[f] = state[f]
            BY <1>2, <1>4, <1>6, <2>1, ObserverFacts DEF Tells, CallState, IsObserver
        <3> QED
            BY <3>1, <1>1 DEF States
    <2>2. CASE f = g /\ e = "TRANSMISSION_START"
        BY <1>1, <1>2, <2>2 DEF CallState
    <2>3. CASE f = g /\ e = "NEW_PACKET"
        BY <1>1, <1>2, <1>3, <1>4, <2>3 DEF CallState, States
    <2>4. CASE f = g /\ e = "TRANSMISSION_END"
        BY <1>4, <1>6, <2>4 DEF Tells
    <2> QED
        BY <2>1, <2>2, <2>3, <2>4, <1>5 DEF Events
<1>7. ASSUME NEW k \in 1..Len(stack'), stack'[k].draining
      PROVE  state'["sort"] = "alive"
    <2>1. CASE k \in 1..n /\ stack'[k] = stack[k]
        <3>1. stack[k].draining /\ state["sort"] = "alive" /\ Placed(stack, k) /\ stack[4].draining
            BY <1>7, <2>1 DEF States, Shape, IsShape, Placed
        <3>2. k = 4 /\ n > 4
            BY <3>1, <1>5, <2>1 DEF Placed
        <3>3. Placed(stack, n) /\ Drained(stack, n)
            BY <3>1, <3>2, <1>5 DEF Shape, IsShape, Drained
        <3>4. e = "NEW_PACKET"
            BY <3>3, <1>5 DEF Placed
        <3>5. state'["sort"] = state["sort"]
            BY <3>4, <1>2, Names DEF CallState
        <3> QED
            BY <3>1, <3>5
    <2>2. CASE k = n /\ ~stack'[n].draining
        BY <1>7, <2>2
    <2>3. CASE k = n + 1 /\ g = "sort" /\ e = "TRANSMISSION_END"
        <3>1. state["sort"] = "alive"
            BY <1>3, <1>4, <2>3 DEF States
        <3> QED
            BY <3>1, <1>2, <2>3 DEF CallState
    <2>4. CASE Passed(stack, stack')
        <3>1. /\ \A i \in 1..(n - 1) : stack'[i] = stack[i]
              /\ ~stack'[n].draining /\ Len(stack') = n + 1
              /\ stack'[n + 1].draining => g = "sort" /\ e = "TRANSMISSION_END"
            BY <2>4 DEF Passed, Advanced, SameBelow, Innermost, g
        <3>2. (k \in 1..(n - 1) /\ k \in 1..n) \/ k = n \/ k = n + 1
            BY <3>1, <1>5
        <3> QED
            BY <3>1, <3>2, <1>7, <2>1, <2>2, <2>3
    <2>5. CASE Returned(stack, stack')
        <3>1. /\ \A i \in 1..(n - 1) : stack'[i] = stack[i]
              /\ ~stack'[n].draining /\ Len(stack') = n
            BY <2>5 DEF Returned, Advanced, SameBelow
        <3>2. (k \in 1..(n - 1) /\ k \in 1..n) \/ k = n
            BY <3>1, <1>5
        <3> QED
            BY <3>1, <3>2, <2>1, <2>2
    <2>6. CASE stack' = stack
        BY <2>1, <2>6
    <2> QED
        BY <1>1, <2>4, <2>5, <2>6 DEF CallMove
<1> QED
    BY <1>6, <1>7 DEF States

\* The states are preserved.
LEMMA StatesStep ==
    ASSUME Shape, Types, Phases, States, Next
    PROVE  States'
<1>1. CASE CallAction
    BY <1>1, StatesCall
<1>2. CASE Drain
    <2>1. RestMove /\ Status' = Status /\ settings' = settings
        BY <1>2, DrainMoves DEF RestMove, Status
    <2>2. /\ stack # <<>> /\ Innermost(stack).draining /\ Len(stack) = 4 /\ stack[4].draining
          /\ Status["sort"] = "ended"
        BY <1>2, TopIs, DrainingStatus DEF Drain, Shape, Phases
    <2>3. state \in [Filters -> {"null", "alive", "freed"}]
        BY DEF Types
    <2>4. CASE buffer # <<>>
        <3>1. state' = state /\ state["sort"] = "alive"
            BY <1>2, <2>2, <2>4 DEF Drain, States
        <3> QED
            BY <2>1, <3>1 DEF States
    <2>5. CASE buffer = <<>>
        <3>1. /\ state' = [state EXCEPT !["sort"] = "freed"]
              /\ stack' = [stack EXCEPT ![Len(stack)].draining = FALSE]
            BY <1>2, <2>5 DEF Drain
        <3>2. \A f \in Filters : f # "sort" => state'[f] = state[f]
            BY <2>3, <3>1
        <3>3. \A k \in 1..Len(stack') : ~stack'[k].draining
            <4>1. ~Innermost(stack').draining /\ Len(stack') = 4
                BY <2>2, <3>1 DEF Innermost, Shape, IsShape
            <4>2. \A k \in 1..Len(stack') : stack'[k].draining => k = 4
                BY <2>1, ShapeStep DEF Shape, IsShape, Placed
            <4> QED
                BY <4>1, <4>2 DEF Innermost
        <3> QED
            BY <2>1, <2>2, <3>2, <3>3 DEF States
    <2> QED
        BY <2>4, <2>5
<1>3. CASE EndLoop
    <2>1. RestMove /\ Status' = Status /\ settings' = settings /\ state' = state
        BY <1>3, EndLoopMoves DEF RestMove, Status, EndLoop
    <2>2. /\ stack # <<>> /\ stack' = Front(stack)
        BY <1>3 DEF EndLoop
    <2>3. \A k \in 1..Len(stack') : k \in 1..Len(stack) /\ stack'[k] = stack[k]
        <3>1. Len(stack) \in Nat /\ stack' = SubSeq(stack, 1, Len(stack) - 1)
            BY <2>2, TopFacts DEF Front, Shape
        <3> QED
            BY <3>1 DEF Shape, IsShape
    <2> QED
        BY <2>1, <2>3 DEF States
<1>4. CASE SourceStart \/ SourceSend \/ SourceEnd
    <2>1. BeginMove
        BY <1>4, SourceStartMoves, SourceSendMoves, SourceEndMoves
    <2>2. state' = state
        BY <1>4 DEF SourceStart, SourceSend, SourceEnd
    <2>3. \A f \in Filters : Status'[f] = Status[f]
        BY <2>1, ObserverFacts DEF BeginMove, Status, IsObserver
    <2>4. settings' = settings /\ Len(stack') = 1 /\ ~stack'[1].draining
        BY <2>1 DEF BeginMove, Begun
    <2> QED
        BY <2>2, <2>3, <2>4 DEF States
<1> QED
    BY <1>1, <1>2, <1>3, <1>4, NextActions

--------------------------------------------------------------------------------
(* The packets in the buffer.                                                *)

\* The packets that are kept are those of the buffer.
LEMMA KeptElements ==
    ASSUME NEW b \in Seq(Packets)
    PROVE  /\ \A i \in 1..Len(b) : b[i] \in Range(b) /\ b[i] \in Packets
           /\ \A p \in Range(b) : p \in Packets /\ \E i \in 1..Len(b) : p = b[i]
    BY DEF Range

\* Sorting keeps the packets, and keeps them distinct.
LEMMA BufferSorted ==
    ASSUME NEW b \in Seq(Packets), Distinct(b), NEW c \in list_sort(b)
    PROVE  /\ c \in Seq(Packets) /\ Distinct(c) /\ Range(c) = Range(b)
           /\ b # <<>> => c # <<>>
<1>1. /\ c \in Seq(Packets)
      /\ \A i \in 1..Len(c) : \E j \in 1..Len(b) : c[i] = b[j]
      /\ \A j \in 1..Len(b) : \E i \in 1..Len(c) : c[i] = b[j]
      /\ \A i, j \in 1..Len(c) : c[i] = c[j] => i = j
      /\ b # <<>> => c # <<>>
    BY SortedList
<1>2. Range(c) = Range(b)
    <2>1. ASSUME NEW p \in Range(c) PROVE p \in Range(b)
        <3>1. PICK i \in 1..Len(c) : p = c[i]
            BY <1>1, KeptElements
        <3>2. PICK j \in 1..Len(b) : c[i] = b[j]
            BY <1>1
        <3> QED
            BY <3>1, <3>2, KeptElements
    <2>2. ASSUME NEW p \in Range(b) PROVE p \in Range(c)
        <3>1. PICK j \in 1..Len(b) : p = b[j]
            BY KeptElements
        <3>2. PICK i \in 1..Len(c) : c[i] = b[j]
            BY <1>1
        <3> QED
            BY <1>1, <3>1, <3>2, KeptElements
    <2> QED
        BY <2>1, <2>2
<1>3. Distinct(c)
    <2> SUFFICES ASSUME NEW i \in 1..Len(c), NEW j \in 1..Len(c), c[i].number = c[j].number
                 PROVE  i = j
        BY DEF Distinct
    <2>1. PICK k \in 1..Len(b) : c[i] = b[k]
        BY <1>1
    <2>2. PICK l \in 1..Len(b) : c[j] = b[l]
        BY <1>1
    <2>3. k = l
        BY <2>1, <2>2 DEF Distinct
    <2> QED
        BY <2>1, <2>2, <2>3, <1>1
<1> QED
    BY <1>1, <1>2, <1>3

\* The first packet leaves the buffer.
LEMMA BufferTail ==
    ASSUME NEW b \in Seq(Packets), Distinct(b), b # <<>>
    PROVE  /\ Tail(b) \in Seq(Packets) /\ Distinct(Tail(b)) /\ Head(b) \in Range(b)
           /\ Head(b) \in Packets
           /\ \A p \in Range(Tail(b)) : p \in Range(b) /\ p.number # Head(b).number
           /\ \A p \in Range(b) : p \in Range(Tail(b)) \/ p = Head(b)
<1> DEFINE t == Tail(b)
<1>1. /\ Head(b) \in Packets /\ t \in Seq(Packets) /\ Head(b) = b[1]
      /\ Len(t) = Len(b) - 1 /\ \A i \in 1..Len(t) : t[i] = b[i + 1]
      /\ Len(b) \in Nat /\ Len(b) > 0
    BY HeadTypes
<1> HIDE DEF t
<1>2. Head(b) \in Range(b)
    BY <1>1, KeptElements
<1>3. ASSUME NEW i \in 1..Len(t)
      PROVE  i + 1 \in 1..Len(b) /\ t[i] = b[i + 1] /\ i + 1 # 1
    BY <1>1
<1>4. Distinct(t)
    <2> SUFFICES ASSUME NEW i \in 1..Len(t), NEW j \in 1..Len(t), t[i].number = t[j].number
                 PROVE  i = j
        BY DEF Distinct
    <2>1. i + 1 = j + 1
        BY <1>3 DEF Distinct
    <2> QED
        BY <2>1
<1>5. ASSUME NEW p \in Range(t) PROVE p \in Range(b) /\ p.number # Head(b).number
    <2>1. PICK i \in 1..Len(t) : p = t[i]
        BY <1>1, KeptElements
    <2>2. i + 1 \in 1..Len(b) /\ p = b[i + 1] /\ i + 1 # 1 /\ 1 \in 1..Len(b)
        BY <2>1, <1>1, <1>3
    <2>3. b[i + 1].number # b[1].number
        BY <2>2 DEF Distinct
    <2> QED
        BY <2>2, <2>3, <1>1, KeptElements
<1>6. ASSUME NEW p \in Range(b) PROVE p \in Range(t) \/ p = Head(b)
    <2>1. PICK i \in 1..Len(b) : p = b[i]
        BY KeptElements
    <2>2. CASE i # 1
        <3>1. i - 1 \in 1..Len(t) /\ (i - 1) + 1 = i
            BY <1>1, <2>2
        <3>2. t[i - 1] = b[i]
            BY <3>1, <1>1
        <3> QED
            BY <2>1, <3>1, <3>2, <1>1, KeptElements
    <2> QED
        BY <2>1, <2>2, <1>1
<1> QED
    BY <1>1, <1>2, <1>4, <1>5, <1>6 DEF t

\* A packet comes into the buffer.
LEMMA BufferAppend ==
    ASSUME NEW b \in Seq(Packets), Distinct(b), NEW p \in Packets,
           \A q \in Range(b) : q.number # p.number
    PROVE  /\ Append(b, p) \in Seq(Packets) /\ Distinct(Append(b, p))
           /\ Range(Append(b, p)) = Range(b) \cup {p} /\ Append(b, p) # <<>>
<1> DEFINE c == Append(b, p)
           n == Len(b)
<1>1. /\ c \in Seq(Packets) /\ Len(c) = n + 1 /\ c[n + 1] = p
      /\ \A i \in 1..n : c[i] = b[i] /\ i \in 1..(n + 1)
      /\ n \in Nat
    OBVIOUS
<1> HIDE DEF c
<1>2. \A i \in 1..(n + 1) : i \in 1..n \/ i = n + 1
    BY <1>1
<1>3. \A i \in 1..n : b[i].number # p.number
    BY KeptElements
<1>4. Distinct(c)
    <2> SUFFICES ASSUME NEW i \in 1..Len(c), NEW j \in 1..Len(c), c[i].number = c[j].number
                 PROVE  i = j
        BY DEF Distinct
    <2>1. (i \in 1..n \/ i = n + 1) /\ (j \in 1..n \/ j = n + 1)
        BY <1>1, <1>2
    <2>2. CASE i \in 1..n /\ j \in 1..n
        BY <2>2, <1>1 DEF Distinct
    <2> QED
        BY <2>1, <2>2, <1>1, <1>3
<1>5. Range(c) = Range(b) \cup {p}
    <2>1. ASSUME NEW q \in Range(c) PROVE q \in Range(b) \cup {p}
        <3>1. PICK i \in 1..(n + 1) : q = c[i]
            BY <1>1, KeptElements
        <3>2. CASE i \in 1..n
            BY <3>1, <3>2, <1>1, KeptElements
        <3> QED
            BY <3>1, <3>2, <1>1, <1>2
    <2>2. ASSUME NEW q \in Range(b) PROVE q \in Range(c)
        <3>1. PICK i \in 1..n : q = b[i]
            BY KeptElements
        <3>2. c[i] = q /\ i \in 1..Len(c)
            BY <3>1, <1>1
        <3> QED
            BY <3>2, <1>1, KeptElements
    <2>3. p \in Range(c)
        <3>1. n + 1 \in 1..Len(c)
            BY <1>1
        <3> QED
            BY <3>1, <1>1, KeptElements
    <2> QED
        BY <2>1, <2>2, <2>3
<1>6. c # <<>>
    BY <1>1
<1> QED
    BY <1>1, <1>4, <1>5, <1>6 DEF c

\* A call adds at most its packet.
LEMMA SeenOne ==
    ASSUME NEW calls \in Seq(Entries), NEW entry \in Entries
    PROVE  SeenIn(Append(calls, entry)) =
               IF entry.event = "NEW_PACKET" THEN SeenIn(calls) \cup {entry.number}
                                             ELSE SeenIn(calls)
<1> DEFINE later == Append(calls, entry)
           n == Len(calls)
<1>1. /\ n \in Nat /\ Len(later) = n + 1 /\ later[n + 1] = entry
      /\ \A k \in 1..n : later[k] = calls[k]
    OBVIOUS
<1> HIDE DEF later
<1>2. \A k \in 1..(n + 1) : k \in 1..n \/ k = n + 1
    BY <1>1
<1>3. ASSUME NEW m
      PROVE  m \in SeenIn(later) <=>
                 m \in SeenIn(calls) \/ (entry.event = "NEW_PACKET" /\ m = entry.number)
    <2>1. m \in SeenIn(later) <=>
              \E k \in 1..(n + 1) : later[k].event = "NEW_PACKET" /\ m = later[k].number
        BY <1>1 DEF SeenIn
    <2>2. m \in SeenIn(calls) <=>
              \E k \in 1..n : calls[k].event = "NEW_PACKET" /\ m = calls[k].number
        BY DEF SeenIn
    <2>3. n + 1 \in 1..(n + 1) /\ \A k \in 1..n : k \in 1..(n + 1)
        BY <1>1
    <2> QED
        BY <2>1, <2>2, <2>3, <1>1, <1>2
<1> QED
    BY <1>3 DEF later

--------------------------------------------------------------------------------
(* What a call does to the packets.                                          *)

\* The packet that is passed on.
LEMMA ForwardPacket ==
    ASSUME Shape, Notifying(stack), NEW packet, Forward(packet)
    PROVE  Innermost(stack').packet = packet /\ Len(stack') = Len(stack) + 1
<1>1. WithNext(stack) \in Seq(Loops) /\ Len(WithNext(stack)) = Len(stack) /\ Len(stack) \in Nat
    BY AdvancedStack, TopFacts DEF Shape, Notifying
<1>2. stack' = Append(WithNext(stack), Loop(callee, top.event, packet))
    BY AdvancedIs DEF Forward
<1>3. \A s \in Seq(Loops) : \A l : /\ Len(Append(s, l)) = Len(s) + 1
                                    /\ Append(s, l)[Len(s) + 1] = l
    OBVIOUS
<1>4. Len(stack') = Len(stack) + 1 /\ stack'[Len(stack) + 1] = Loop(callee, top.event, packet)
    BY <1>1, <1>2, <1>3
<1>5. Loop(callee, top.event, packet).packet = packet
    BY DEF Loop
<1> QED
    BY <1>4, <1>5 DEF Innermost

\* A handler that returns passes nothing on.
LEMMA ReturnDepth ==
    ASSUME Shape, Notifying(stack), NEW retval, Return(retval)
    PROVE  Len(stack') = Len(stack) /\ ~Passed(stack, stack') /\ stack'[Len(stack)].next > 1
<1>1. Len(WithNext(stack)) = Len(stack) /\ Len(stack) \in Nat /\ Advanced(stack, WithNext(stack))
      /\ Innermost(stack) \in Loops
    BY AdvancedStack, TopFacts DEF Shape, Notifying
<1>2. stack' = WithNext(stack)
    BY AdvancedIs DEF Return, AfterReturn
<1>3. Innermost(stack).next \in Nat /\ Innermost(stack).next > 0
    BY <1>1 DEF Loops
<1>4. stack'[Len(stack)].next > 1
    BY <1>1, <1>2, <1>3 DEF Advanced
<1> QED
    BY <1>1, <1>2, <1>4 DEF Passed

\* How deep the stack is when a filter is called.
LEMMA CallDepth ==
    ASSUME Shape, Notifying(stack)
    PROVE  /\ Level[Observer(stack)] \in 1..6
           /\ Level[Observer(stack)] <= 3 => Len(stack) = Level[Observer(stack)]
           /\ Level[Observer(stack)] > 3 => Len(stack) >= 4
<1>1. /\ Len(stack) \in Nat /\ Len(stack) > 0 /\ Placed(stack, Len(stack))
      /\ Innermost(stack) = stack[Len(stack)] /\ Level[Innermost(stack).subject] \in 0..6
    BY TopFacts DEF Shape, Notifying, IsSubject
<1>2. /\ Level[Observer(stack)] = Level[Innermost(stack).subject] + 1
      /\ Level[Observer(stack)] \in 0..6
    BY ObserverFound, SubjectFacts DEF Shape, IsSubject
<1>3. CASE Drained(stack, Len(stack))
    <2>1. Len(stack) > 4 /\ Level[Innermost(stack).subject] = Len(stack) - 2
        BY <1>1, <1>3 DEF Placed, Drained
    <2> QED
        BY <2>1, <1>1, <1>2
<1>4. CASE ~Drained(stack, Len(stack))
    <2>1. Level[Innermost(stack).subject] = Len(stack) - 1
        BY <1>1, <1>4 DEF Placed
    <2> QED
        BY <2>1, <1>1, <1>2
<1> QED
    BY <1>3, <1>4

\* How far each filter is from the source.
LEMMA Levels ==
    /\ Level["gamma_delay"] = 1 /\ Level["uniform_delay"] = 2 /\ Level["sort"] = 3
    /\ Level["markov_losses"] = 4 /\ Level["independent_losses"] = 5
    /\ \A f \in Sinks : Level[f] = 6
    /\ \A f \in Filters : Level[f] \in 1..6
    /\ \A f \in Filters : f \notin Sinks => Index[f] = 1
    /\ Index["log"] = 1
<1>1. \A f \in Sinks : f \in Subjects /\ Level[f] = 6
    BY DEF Level, Sinks, Subjects, Filters
<1>2. /\ Level["gamma_delay"] = 1 /\ Level["uniform_delay"] = 2 /\ Level["sort"] = 3
      /\ Level["markov_losses"] = 4 /\ Level["independent_losses"] = 5
    BY Names DEF Level
<1>3. \A f \in Filters : \/ f \in Sinks \/ f = "gamma_delay" \/ f = "uniform_delay"
                         \/ f = "sort" \/ f = "markov_losses" \/ f = "independent_losses"
    BY DEF Filters
<1>4. \A f \in Filters : f \notin Sinks => Index[f] = 1
    BY DEF Index, Sinks, Filters
<1>5. Index["log"] = 1
    BY Names DEF Index
<1> QED
    BY <1>1, <1>2, <1>3, <1>4, <1>5

\* A packet is on its way when its loop is about to call a filter of the chain, or the first sink.
LEMMA CallerOnWay ==
    ASSUME Shape, Notifying(stack), Innermost(stack).event = "NEW_PACKET",
           Observer(stack) \notin Sinks \/ Observer(stack) = "log"
    PROVE  OnWay(stack)
<1>1. Index[Observer(stack)] = Innermost(stack).next /\ Observer(stack) \in Filters
    BY ObserverFound DEF Shape
<1>2. Innermost(stack).next = 1
    BY <1>1, Levels
<1>3. Level[Observer(stack)] = Level[Innermost(stack).subject] + 1 /\ Level[Observer(stack)] \in 1..6
    BY ObserverFound, CallDepth DEF Shape
<1>4. Innermost(stack).subject \notin Sinks
    BY <1>3, Levels
<1> QED
    BY <1>2, <1>4 DEF OnWay, Notifying

\* How much later a filter lets a packet go.
Delayed(g) ==
    IF g = "gamma_delay" THEN settings.gamma_max
    ELSE IF g = "uniform_delay" THEN settings.max_delay ELSE 0

\* Every filter but sort forwards the packet it was told of, delayed or not.
Carries(p, q, g) ==
    /\ p \in Packets /\ p.number = q.number /\ p.frames = q.frames
    /\ q.time <= p.time /\ p.time <= q.time + Delayed(g)

\* No filter but sort touches the buffer or the lists when it is told of a packet.
LEMMA NewPacketCalls ==
    ASSUME Shape, Types, CallAction, top.event = "NEW_PACKET", callee # "sort"
    PROVE  /\ buffer' = buffer /\ heap' = heap /\ top.packet \in Packets
           /\ Passed(stack, stack') => Carries(Innermost(stack').packet, top.packet, callee)
<1>1. /\ CallStep /\ Notifying(stack) /\ top.packet \in Packets
    BY CallMoves, TopPacketNew DEF CallMove, CallStep, Notifying
<1>2. Carries(top.packet, top.packet, callee)
    <2>1. settings.gamma_max \in Nat /\ settings.max_delay \in Nat /\ top.packet.time \in Nat
        BY <1>1, SettingTypes, PacketTypes DEF Types
    <2>2. Delayed(callee) \in Nat
        BY <2>1 DEF Delayed
    <2> QED
        BY <1>1, <2>1, <2>2 DEF Carries
<1>3. CASE Delay
    <2>1. callee \in {"gamma_delay", "uniform_delay"} /\ buffer' = buffer /\ heap' = heap
        BY <1>3, CallFacts DEF Delay, Unchanged
    <2>2. PICK delay \in Delays(callee) : Forward([top.packet EXCEPT !.time = @ + delay])
        BY <1>3 DEF Delay
    <2> DEFINE p == [top.packet EXCEPT !.time = @ + delay]
    <2>3. delay \in Nat /\ delay <= Delayed(callee)
        BY <2>1, DelayTypes, SettingTypes DEF Types, Delays, Delayed
    <2>4. top.packet.time \in Nat /\ top.packet.time + delay \in Nat
        BY <1>1, <2>3, PacketTypes
    <2>5. p \in Packets
        BY <1>1, <2>4, PacketTypes
    <2>6. p.number = top.packet.number /\ p.frames = top.packet.frames
          /\ p.time = top.packet.time + delay
        BY <1>1 DEF Packets
    <2>7. Innermost(stack').packet = p
        BY <1>1, <2>2, ForwardPacket
    <2> HIDE DEF p
    <2>8. settings.gamma_max \in Nat /\ settings.max_delay \in Nat
        BY SettingTypes DEF Types
    <2>9. top.packet.time <= p.time /\ p.time <= top.packet.time + Delayed(callee)
        BY <2>3, <2>4, <2>6, <2>8 DEF Delayed
    <2>10. Carries(p, top.packet, callee)
        BY <2>5, <2>6, <2>9 DEF Carries
    <2> QED
        BY <1>1, <2>1, <2>7, <2>10
<1>4. CASE LoseMarkov \/ LoseIndependently \/ Watch
    <2>1. buffer' = buffer /\ heap' = heap
        BY <1>4 DEF LoseMarkov, LoseIndependently, Watch, Unchanged
    <2>2. Return("WR_OK") \/ Forward(top.packet)
        BY <1>4 DEF LoseMarkov, LoseIndependently, Watch
    <2> QED
        BY <1>1, <1>2, <2>1, <2>2, ForwardPacket, ReturnDepth
<1>5. CASE WriteOutput
    <2>1. buffer' = buffer /\ heap' = heap
        BY <1>5 DEF WriteOutput
    <2>2. stack' = stack \/ Return(IF state["output"] = "null" THEN "WR_FATAL" ELSE "WR_OK")
        BY <1>5 DEF WriteOutput
    <2>3. stack' = stack => ~Passed(stack, stack')
        BY TopFacts, <1>1 DEF Passed, Notifying, Shape
    <2> QED
        BY <1>1, <2>1, <2>2, <2>3, ReturnDepth
<1>6. CASE WriteWav
    <2>1. buffer' = buffer /\ heap' = heap /\ Return("WR_OK")
        BY <1>6 DEF WriteWav, Unchanged
    <2> QED
        BY <1>1, <2>1, ReturnDepth
<1>7. CASE Start \/ End \/ OpenOutput \/ CloseOutput
    <2>1. \/ Calls(Forwarders, "TRANSMISSION_START")
          \/ Calls(Forwarders \ {"sort"}, "TRANSMISSION_END")
          \/ Calls({"output"}, "TRANSMISSION_START") \/ Calls({"output"}, "TRANSMISSION_END")
        BY <1>7 DEF Start, End, OpenOutput, CloseOutput
    <2> QED
        BY <2>1, CallFacts
<1>8. CASE SortNew \/ SortEnd
    <2>1. Calls({"sort"}, "NEW_PACKET") \/ Calls({"sort"}, "TRANSMISSION_END")
        BY <1>8 DEF SortNew, SortEnd
    <2> QED
        BY <2>1, CallFacts
<1> QED
    BY <1>3, <1>4, <1>5, <1>6, <1>7, <1>8 DEF CallAction

\* Only the observer has seen something new.
LEMMA SeenCall ==
    ASSUME Shape, Types, Phases, CallStep
    PROVE  \A f \in Filters :
               Seen(f)' = IF f = Observer(stack) /\ Innermost(stack).event = "NEW_PACKET"
                          THEN Seen(f) \cup {Innermost(stack).packet.number} ELSE Seen(f)
<1> SUFFICES ASSUME NEW f \in Filters
             PROVE  Seen(f)' = IF f = Observer(stack) /\ Innermost(stack).event = "NEW_PACKET"
                               THEN Seen(f) \cup {Innermost(stack).packet.number} ELSE Seen(f)
    OBVIOUS
<1>1. /\ Observer(stack) \in Filters
      /\ received'[Observer(stack)] =
             Append(received[Observer(stack)], Entry(Innermost(stack)))
      /\ \A h \in Filters : h # Observer(stack) => received'[h] = received[h]
    BY CallReceived
<1>2. Innermost(stack) \in Loops
    BY TopFacts DEF Shape, Notifying, CallStep
<1>3. /\ Entry(Innermost(stack)) \in Entries
      /\ Entry(Innermost(stack)).event = Innermost(stack).event
      /\ Entry(Innermost(stack)).number = Innermost(stack).packet.number
    BY <1>2, EntryTypes DEF Entry
<1>4. CASE f = Observer(stack)
    <2>1. received[f] \in Seq(Entries)
        BY DEF Types
    <2>2. received'[f] = Append(received[f], Entry(Innermost(stack)))
        BY <1>1, <1>4
    <2>3. SeenIn(Append(received[f], Entry(Innermost(stack)))) =
              IF Entry(Innermost(stack)).event = "NEW_PACKET"
              THEN SeenIn(received[f]) \cup {Entry(Innermost(stack)).number}
              ELSE SeenIn(received[f])
        BY <2>1, <1>3, SeenOne
    <2> QED
        BY <2>2, <2>3, <1>3, <1>4 DEF Seen
<1>5. CASE f # Observer(stack)
    BY <1>1, <1>5 DEF Seen
<1> QED
    BY <1>4, <1>5

\* The loops below a call keep their packets.
LEMMA PacketsBelow ==
    ASSUME Shape, CallMove
    PROVE  /\ \A k \in 1..Len(stack) :
                  /\ stack'[k].packet = stack[k].packet /\ stack'[k].event = stack[k].event
                  /\ Drained(stack', k) <=> Drained(stack, k)
           /\ \A k \in 1..Len(stack') :
                  \/ k \in 1..Len(stack)
                  \/ k = Len(stack) + 1 /\ Len(stack') = k /\ Passed(stack, stack')
<1>1. CASE Passed(stack, stack') \/ Returned(stack, stack')
    <2>1. Called(stack, stack')
        BY <1>1, PassedIsCalled, ReturnedIsCalled DEF Shape
    <2>2. Len(stack) \in Nat /\ stack'[Len(stack)].packet = stack[Len(stack)].packet
        BY <2>1, TopFacts DEF Called, Advanced, SameLoop, Innermost, Shape, Notifying
    <2>3. /\ \A k \in 1..Len(stack) :
                 /\ k # Len(stack) => stack'[k] = stack[k]
                 /\ stack'[k].event = stack[k].event
                 /\ Drained(stack', k) <=> Drained(stack, k)
          /\ \A k \in 1..Len(stack') :
                 k \in 1..Len(stack) \/ (k = Len(stack) + 1 /\ Len(stack') = k)
        BY <2>1, CalledBelow DEF Shape
    <2>4. Len(stack') = Len(stack) + 1 => Passed(stack, stack')
        BY <1>1, <2>2 DEF Returned
    <2> QED
        BY <2>2, <2>3, <2>4
<1>2. CASE stack' = stack
    BY <1>2
<1> QED
    BY <1>1, <1>2 DEF CallMove

\* Only a call that goes on behind its observer leaves a packet on its way.
LEMMA OnWayPassed ==
    ASSUME Shape, CallMove, OnWay(stack')
    PROVE  Passed(stack, stack')
<1>1. /\ Innermost(stack) \in Loops /\ Len(stack) \in Nat /\ Len(stack) > 0 /\ Notifying(stack)
      /\ Innermost(stack) = stack[Len(stack)]
    BY TopFacts DEF Shape, CallMove, CallStep, Notifying
<1>2. ~Returned(stack, stack')
    BY <1>1 DEF Returned, Advanced, OnWay, Innermost, Loops
<1>3. ~(stack' = stack /\ Observer(stack) = "output")
    <2>1. Index[Observer(stack)] = Innermost(stack).next
        BY <1>1, ObserverFound DEF Shape
    <2>2. Index["output"] = 2
        BY Names DEF Index
    <2> QED
        BY <2>1, <2>2 DEF OnWay
<1> QED
    BY <1>2, <1>3 DEF CallMove

\* Bounds on the delays do not change ...
LEMMA InTimeSame ==
    ASSUME settings' = settings, NEW p, NEW k
    PROVE  InTime(p, k)' <=> InTime(p, k)
    BY DEF InTime, Bound

\* ... and grow along the chain by what the filters may add.
LEMMA InTimeLater ==
    ASSUME Types, NEW p \in Packets, NEW k \in Nat \ {0}, NEW j \in Nat, j >= k, InTime(p, k)
    PROVE  InTime(p, j)
<1>1. settings.gamma_max \in Nat /\ settings.max_delay \in Nat
    BY SettingTypes DEF Types
<1>2. Time[p.number] \in Nat /\ p.time \in Nat
    BY ChainAssumption, PacketTypes
<1>3. Bound(k) \in Nat /\ Bound(j) \in Nat /\ Bound(k) <= Bound(j)
    BY <1>1 DEF Bound
<1> QED
    BY <1>2, <1>3 DEF InTime

--------------------------------------------------------------------------------
(* Every step preserves what is known of the packets on their way.           *)

\* A filter other than sort is told of a packet.
LEMMA FlowRelay ==
    ASSUME Shape, Types, Phases, Flow, CallAction, top.event = "NEW_PACKET", callee # "sort"
    PROVE  Flow'
<1> DEFINE n == Len(stack)
           g == Observer(stack)
           q == Innermost(stack).packet
<1>1. /\ CallMove /\ CallStep /\ Notifying(stack) /\ settings' = settings /\ source' = source
      /\ top = Innermost(stack) /\ callee = g /\ Innermost(stack).event = "NEW_PACKET"
    BY CallMoves, TopIs DEF CallMove, CallStep
<1>2. /\ buffer' = buffer /\ heap' = heap /\ q \in Packets
      /\ Passed(stack, stack') => Carries(Innermost(stack').packet, q, g)
    BY <1>1, NewPacketCalls
<1>3. n \in Nat /\ n > 0 /\ n \in 1..n /\ Innermost(stack) = stack[n]
    BY <1>1, TopFacts DEF Shape, Notifying
<1>4. \A f \in Filters : Seen(f)' = IF f = g THEN Seen(f) \cup {q.number} ELSE Seen(f)
    BY <1>1, SeenCall
<1>5. /\ g \in Filters /\ Level[g] = Level[Innermost(stack).subject] + 1 /\ Level[g] \in 1..6
      /\ Level[g] <= 3 => n = Level[g]
      /\ Level[g] > 3 => n >= 4
    BY <1>1, ObserverFound, CallDepth DEF Shape
<1>6. LoopPacket(n)
    BY <1>1, <1>3 DEF Flow
<1>7. \A p \in Kept : KeptPacket(p) /\ p \in Packets
    BY KeptElements DEF Flow, Kept, Types
<1>8. Level[g] # 3
    <2>1. \A f \in Filters : Level[f] = 3 <=> f = "sort"
        BY SubjectFacts DEF Subjects, IsSubject
    <2> QED
        BY <2>1, <1>1, <1>5
<1> HIDE DEF g, q
<1>9. Kept' = Kept /\ Distinct(buffer') /\ Distinct(buffer)
    BY <1>2 DEF Flow, Kept
<1>10. ASSUME NEW p \in Kept PROVE KeptPacket(p)'
    <2>1. KeptPacket(p)
        BY <1>7
    <2>2. ASSUME NEW f \in Filters, Level[f] > 3 PROVE p.number \notin Seen(f)'
        <3>1. p.number \notin Seen(f)
            BY <2>1, <2>2 DEF KeptPacket, Fresh
        <3>2. f = g => p.number # q.number
            <4>1. f = g => n >= 4
                BY <1>5, <2>2
            <4> QED
                BY <4>1, <1>3, <1>6 DEF LoopPacket, q
        <3> QED
            BY <3>1, <3>2, <1>4
    <2>3. Fresh(p, 3)'
        BY <2>2 DEF Fresh
    <2>4. InTime(p, 4)'
        BY <2>1, <1>1, InTimeSame DEF KeptPacket
    <2> QED
        BY <2>1, <2>3, <2>4, <1>1, <1>2 DEF KeptPacket
<1>11. ASSUME NEW k \in 1..n, stack[k].event = "NEW_PACKET" PROVE LoopPacket(k)'
    <2>1. LoopPacket(k)
        BY <1>11 DEF Flow
    <2>2. stack'[k].packet = stack[k].packet /\ (Drained(stack', k) <=> Drained(stack, k))
        BY <1>1, PacketsBelow
    <2>3. InTime(stack[k].packet, k)'  <=> InTime(stack[k].packet, k)
        BY <1>1, <2>2 DEF InTime, Bound
    <2>4. k = 5 => (Drained(stack', 5) <=> Drained(stack, 5))
        BY <2>2
    <2> QED
        BY <2>1, <2>2, <2>3, <2>4, <1>1, <1>2, <1>9 DEF LoopPacket
<1>12. ASSUME Passed(stack, stack') PROVE \A k : k = n + 1 => LoopPacket(k)'
    <2> DEFINE p == stack'[n + 1].packet
    <2>1. Carries(p, q, g) /\ Len(stack') = n + 1
        BY <1>2, <1>12 DEF Passed, Innermost
    <2> HIDE DEF p
    <2>2. /\ p \in Packets /\ p.number = q.number /\ p.frames = q.frames
          /\ q.time <= p.time /\ p.time <= q.time + Delayed(g)
        BY <2>1 DEF Carries
    <2>3. heap'[p.frames] = "live" /\ p.number <= source'
        BY <2>2, <1>1, <1>2, <1>3, <1>6 DEF LoopPacket, q
    <2>4. n + 1 <= 3 => p.number = source' /\ p.frames = SourceList(source')
        BY <2>2, <1>1, <1>3, <1>6 DEF LoopPacket, q
    <2>5. n + 1 >= 4 => \A r \in Kept' : r.number # p.number
        <3>1. n + 1 >= 4 => n >= 4
            BY <1>3, <1>5, <1>8
        <3> QED
            BY <3>1, <2>2, <1>3, <1>6, <1>9 DEF LoopPacket, q
    <2>6. ~Drained(stack', 5) \/ n + 1 # 5
        BY <1>3, <1>12 DEF Drained, Passed, Advanced, Innermost
    <2>7. InTime(p, n + 1)
        <3>1. InTime(q, n)
            BY <1>3, <1>6 DEF LoopPacket, q
        <3>2. /\ settings.gamma_max \in Nat /\ settings.max_delay \in Nat /\ p.time \in Nat
              /\ q.time \in Nat /\ Time[q.number] \in Nat
            <4>1. q.number \in 1..Len(Time) /\ Time \in Seq(Nat)
                BY <1>2, PacketTypes, ChainAssumption
            <4>2. Time[q.number] \in Nat
                BY <4>1
            <4> QED
                BY <4>2, <2>2, <1>2, SettingTypes, PacketTypes DEF Types
        <3>3. Bound(n) + Delayed(g) <= Bound(n + 1) /\ Bound(n) \in Nat /\ Delayed(g) \in Nat
            <4>1. CASE n >= 3
                <5>1. Level[g] > 3
                    BY <4>1, <1>5, <1>8
                <5>2. g # "gamma_delay" /\ g # "uniform_delay"
                    BY <5>1, Levels
                <5> QED
                    BY <4>1, <5>2, <3>2, <1>3 DEF Bound, Delayed
            <4>2. CASE n = 1
                <5>1. g # "uniform_delay"
                    BY <4>2, <1>5, Levels
                <5> QED
                    BY <4>2, <5>1, <3>2 DEF Bound, Delayed
            <4>3. CASE n = 2
                <5>1. g # "gamma_delay"
                    BY <4>3, <1>5, Levels
                <5> QED
                    BY <4>3, <5>1, <3>2 DEF Bound, Delayed
            <4>4. \A m \in Nat : m > 0 => m >= 3 \/ m = 1 \/ m = 2
                OBVIOUS
            <4>5. n \in Nat /\ n > 0
                BY <1>3
            <4> QED
                BY <4>1, <4>2, <4>3, <4>4, <4>5
        <3>4. Bound(n + 1) \in Nat
            BY <3>2 DEF Bound
        <3>5. Time[q.number] <= q.time /\ q.time <= Time[q.number] + Bound(n)
            BY <3>1 DEF InTime
        <3>6. Time[q.number] <= p.time /\ p.time <= Time[q.number] + Bound(n + 1)
            BY <3>2, <3>3, <3>4, <3>5, <2>2
        <3> QED
            BY <3>6, <2>2 DEF InTime
    <2>8. Time[p.number] <= p.time /\ p.time <= Time[p.number] + (Bound(n + 1))
        BY <2>7 DEF InTime
    <2>9. \A k : k = n + 1 => Bound(k)' = Bound(k)
        BY <1>1 DEF Bound
    <2>10. \A k : k = n + 1 => LoopPacket(k)'
        <3> SUFFICES ASSUME NEW k, k = n + 1 PROVE LoopPacket(k)'
            OBVIOUS
        <3>1. InTime(stack[k].packet, k)'
            BY <2>8, <2>9 DEF InTime, p
        <3>2. heap'[stack'[k].packet.frames] = "live" /\ stack'[k].packet.number <= source'
            BY <2>3 DEF p
        <3>3. k <= 3 => stack'[k].packet.number = source' /\ stack'[k].packet.frames = SourceList(source')
            BY <2>4 DEF p
        <3>4. k >= 4 => \A r \in Kept' : r.number # stack'[k].packet.number
            BY <2>5 DEF p
        <3>5. ~(k = 5 /\ Drained(stack', 5))
            BY <2>6
        <3> QED
            BY <3>1, <3>2, <3>3, <3>4, <3>5 DEF LoopPacket
    <2> QED
        BY <2>10
<1>13. (\A k \in 1..Len(stack) : stack[k].event = "NEW_PACKET" => LoopPacket(k))'
    BY <1>1, <1>11, <1>12, PacketsBelow
<1>14. ASSUME OnWay(stack)'
       PROVE  (/\ \A p \in Kept : p.number # Innermost(stack).packet.number
               /\ Fresh(Innermost(stack).packet, Level[Innermost(stack).subject]))'
    <2>1. /\ Passed(stack, stack') /\ Innermost(stack').subject = g
          /\ Innermost(stack').packet.number = q.number /\ g \notin Sinks
        BY <1>1, <1>2, <1>14, OnWayPassed DEF Passed, Carries, OnWay, g
    <2>2. OnWay(stack)
        BY <1>1, <2>1, CallerOnWay DEF g
    <2>3. /\ \A p \in Kept : p.number # q.number
          /\ Fresh(q, Level[Innermost(stack).subject])
        BY <2>2 DEF Flow, q
    <2>4. Level[Innermost(stack).subject] \in 0..6
        BY <1>1, TopFacts DEF Shape, Notifying, IsSubject
    <2>5. ASSUME NEW f \in Filters, Level[f] > Level[g] PROVE q.number \notin Seen(f)'
        <3>1. Level[f] > Level[Innermost(stack).subject] /\ f # g
            BY <1>5, <2>4, <2>5, Levels
        <3> QED
            BY <3>1, <2>3, <1>4 DEF Fresh
    <2>6. Fresh(Innermost(stack).packet, Level[Innermost(stack).subject])'
        BY <2>1, <2>5 DEF Fresh
    <2> QED
        BY <2>1, <2>3, <2>6, <1>9
<1>15. \A f \in Filters : Seen(f)' \subseteq 1..source'
    <2>1. q.number \in 1..source
        BY <1>2, <1>3, <1>6, PacketTypes DEF LoopPacket, q, Types
    <2> QED
        BY <2>1, <1>1, <1>4 DEF Flow
<1> QED
    BY <1>9, <1>10, <1>13, <1>14, <1>15 DEF Flow

\* When the innermost loop tells of the start or the end, so do all of them.
LEMMA NoPacketLoops ==
    ASSUME NEW s, IsShape(s), s # <<>> => Innermost(s).event # "NEW_PACKET"
    PROVE  \A k \in 1..Len(s) : s[k].event = Innermost(s).event
<1>1. CASE s = <<>>
    BY <1>1 DEF IsShape
<1>2. CASE s # <<>>
    <2>1. /\ Len(s) \in Nat /\ Len(s) > 0 /\ Innermost(s) = s[Len(s)] /\ Placed(s, Len(s))
        BY <1>2, TopFacts
    <2>2. ~Drained(s, Len(s))
        BY <1>2, <2>1 DEF Placed
    <2>3. s[Len(s)].event = s[1].event
        BY <2>1, <2>2 DEF Placed
    <2>4. ASSUME NEW k \in 1..Len(s) PROVE s[k].event = Innermost(s).event
        <3>1. Placed(s, k)
            BY DEF IsShape
        <3>2. ~Drained(s, k)
            <4>1. k <= Len(s) /\ k \in Nat
                BY <2>1
            <4> QED
                BY <2>1, <2>2, <4>1 DEF Drained
        <3> QED
            BY <3>1, <3>2, <2>1, <2>3, <1>2 DEF Placed
    <2> QED
        BY <2>4
<1> QED
    BY <1>1, <1>2

\* A step that leaves no loop with a packet, and the buffer and the lists as they were.
LEMMA FlowQuiet ==
    ASSUME Flow, Kept' = Kept, Distinct(buffer'), heap' = heap, settings' = settings,
           source' = source, \A f \in Filters : Seen(f)' = Seen(f), Shape',
           (stack # <<>> => Innermost(stack).event # "NEW_PACKET")'
    PROVE  Flow'
<1>1. (\A k \in 1..Len(stack) : stack[k].event # "NEW_PACKET")'
    BY NoPacketLoops DEF Shape
<1>2. ~OnWay(stack)'
    BY DEF OnWay
<1>3. ASSUME NEW p \in Kept PROVE KeptPacket(p)'
    <2>1. KeptPacket(p) /\ (InTime(p, 4)' <=> InTime(p, 4))
        BY InTimeSame DEF Flow
    <2> QED
        BY <2>1 DEF KeptPacket, Fresh
<1>4. \A f \in Filters : Seen(f)' \subseteq 1..source'
    BY DEF Flow
<1> QED
    BY <1>1, <1>2, <1>3, <1>4 DEF Flow

\* Nothing but the order of the buffer changes when a filter is told of the start or the end.
LEMMA EventCalls ==
    ASSUME Shape, Types, Distinct(buffer), CallAction, top.event # "NEW_PACKET"
    PROVE  heap' = heap /\ Kept' = Kept /\ Distinct(buffer')
<1>1. CASE SortEnd
    <2>1. buffer' \in list_sort(buffer) /\ heap' = heap
        BY <1>1 DEF SortEnd
    <2> QED
        BY <2>1, BufferSorted DEF Kept, Types
<1>2. CASE Start \/ End \/ OpenOutput \/ CloseOutput \/ WriteWav
    <2>1. buffer' = buffer /\ heap' = heap
        BY <1>2 DEF Start, End, OpenOutput, CloseOutput, WriteWav, Unchanged
    <2> QED
        BY <2>1 DEF Kept
<1>3. CASE Delay \/ LoseMarkov \/ LoseIndependently \/ Watch \/ SortNew \/ WriteOutput
    <2>1. \/ Calls({"gamma_delay", "uniform_delay"}, "NEW_PACKET")
          \/ Calls({"markov_losses"}, "NEW_PACKET") \/ Calls({"independent_losses"}, "NEW_PACKET")
          \/ Calls({"log", "sipp"}, "NEW_PACKET") \/ Calls({"sort"}, "NEW_PACKET")
          \/ Calls({"output"}, "NEW_PACKET")
        BY <1>3 DEF Delay, LoseMarkov, LoseIndependently, Watch, SortNew, WriteOutput
    <2> QED
        BY <2>1, CallFacts
<1> QED
    BY <1>1, <1>2, <1>3 DEF CallAction

\* A filter is told of the start or the end.
LEMMA FlowEvent ==
    ASSUME Shape, Types, Phases, Flow, CallAction, top.event # "NEW_PACKET"
    PROVE  Flow'
<1>1. /\ CallMove /\ CallStep /\ Notifying(stack) /\ settings' = settings /\ source' = source
      /\ Innermost(stack).event # "NEW_PACKET"
    BY CallMoves, TopIs DEF CallMove, CallStep
<1>2. Shape'
    BY <1>1, ShapeStep
<1>3. Passed(stack, stack') \/ Returned(stack, stack')
    BY <1>1 DEF CallMove
<1>4. Innermost(stack').event # "NEW_PACKET"
    BY <1>1, <1>3 DEF Passed, Returned, Advanced, SameLoop, Innermost
<1>5. \A f \in Filters : Seen(f)' = Seen(f)
    BY <1>1, SeenCall
<1>6. heap' = heap /\ Kept' = Kept /\ Distinct(buffer')
    BY EventCalls DEF Flow
<1>7. (stack # <<>> => Innermost(stack).event # "NEW_PACKET")'
    BY <1>4
<1> QED
    BY <1>1, <1>2, <1>5, <1>6, <1>7, FlowQuiet

\* What the sort filter keeps and what it lets go when it is told of a packet q: the packets
\* of its buffer and a copy of q, or q itself if it has no buffer.  None gets lost.
LetGo(p) == Passed(stack, stack') /\ Innermost(stack').packet.number = p.number
Sorts(q) ==
    /\ \A p \in Kept \cup {Copied(q)} : p \in Kept' \/ LetGo(p)
    /\ buffer' \in Seq(Packets) /\ Distinct(buffer')
    /\ \A l \in Lists : heap[l] = "live" => heap'[l] = "live"
    /\ \A p \in Kept' : p \in Kept \/ (p = Copied(q) /\ heap'[p.frames] = "live")
    /\ Passed(stack, stack') =>
           /\ \/ Innermost(stack').packet = q \/ Innermost(stack').packet \in Kept
              \/ /\ Innermost(stack').packet = Copied(q)
                 /\ heap'[Innermost(stack').packet.frames] = "live"
           /\ \A r \in Kept' : r.number # Innermost(stack').packet.number

\* The sort filter is told of a packet.
LEMMA SortNewSorts ==
    ASSUME Shape, Types, Distinct(buffer), SortNew, \A p \in Kept : p.number # top.packet.number
    PROVE  Sorts(top.packet)
<1> DEFINE q == top.packet
           c == Copied(q)
           stored == Append(buffer, c)
<1>1. /\ Notifying(stack) /\ q \in Packets /\ buffer \in Seq(Packets)
      /\ heap \in [Lists -> {"none", "live", "freed"}] /\ CallMove /\ Len(stack) \in Nat
    BY CallFacts, TopPacket, SortNewMoves, TopFacts DEF SortNew, Types, Notifying, Shape
<1>0. Len(stack') = Len(stack) + 1 => Passed(stack, stack')
    BY <1>1 DEF CallMove, Returned
<1>2. /\ c \in Packets /\ c.number = q.number /\ c.frames = CopiedList(q.number)
      /\ c.frames \in Lists
    BY <1>1, PacketTypes DEF Copied, Packets
<1>3. \A p \in Range(buffer) : p.number # c.number
    BY <1>2 DEF Kept
<1>4. /\ stored \in Seq(Packets) /\ Distinct(stored) /\ stored # <<>>
      /\ Range(stored) = Range(buffer) \cup {c}
    BY <1>1, <1>2, <1>3, BufferAppend
<1>5. CASE settings.buffer_size = 0
    <2>1. Forward(q) /\ buffer' = buffer /\ heap' = heap
        BY <1>5 DEF SortNew
    <2>2. Innermost(stack').packet = q /\ Passed(stack, stack')
        BY <1>0, <1>1, <2>1, ForwardPacket
    <2>3. LetGo(c) /\ Kept' = Kept
        BY <1>2, <2>1, <2>2 DEF LetGo, Kept
    <2> QED
        BY <2>1, <2>2, <2>3, <1>1, <1>3 DEF Sorts, Kept
<1> HIDE DEF stored
<1>6. CASE settings.buffer_size # 0
    <2>1. heap' = [heap EXCEPT ![c.frames] = "live"]
        BY <1>6 DEF SortNew
    <2>2. \A l \in Lists : heap[l] = "live" => heap'[l] = "live"
        BY <2>1, <1>1
    <2>3. heap'[c.frames] = "live"
        BY <2>1, <1>1, <1>2
    <2>4. CASE Return("WR_OK") /\ buffer' = stored
        <3>1. ~Passed(stack, stack')
            BY <1>1, <2>4, ReturnDepth
        <3> QED
            BY <3>1, <2>2, <2>3, <2>4, <1>4 DEF Sorts, Kept
    <2>5. CASE \E sorted \in list_sort(stored) : Forward(Head(sorted)) /\ buffer' = Tail(sorted)
        <3>1. PICK sorted \in list_sort(stored) : Forward(Head(sorted)) /\ buffer' = Tail(sorted)
            BY <2>5
        <3>2. /\ sorted \in Seq(Packets) /\ Distinct(sorted) /\ Range(sorted) = Range(stored)
              /\ sorted # <<>>
            BY <1>4, BufferSorted
        <3>3. /\ Tail(sorted) \in Seq(Packets) /\ Distinct(Tail(sorted))
              /\ Head(sorted) \in Range(sorted)
              /\ \A p \in Range(Tail(sorted)) : p \in Range(sorted) /\ p.number # Head(sorted).number
            BY <3>2, BufferTail
        <3>4. Innermost(stack').packet = Head(sorted) /\ Passed(stack, stack')
            BY <1>0, <1>1, <3>1, ForwardPacket
        <3>9. ASSUME NEW p \in Kept \cup {c} PROVE p \in Kept' \/ LetGo(p)
            <4>1. p \in Range(Tail(sorted)) \/ p = Head(sorted)
                BY <3>2, <1>4, BufferTail DEF Kept
            <4> QED
                BY <4>1, <3>1, <3>4 DEF Kept, LetGo
        <3>5. \A p \in Range(sorted) : p \in Kept \/ (p = c /\ heap'[p.frames] = "live")
            BY <3>2, <2>3, <1>4 DEF Kept
        <3>6. \A r \in Kept' : r \in Range(sorted) /\ r.number # Innermost(stack').packet.number
            BY <3>1, <3>3, <3>4 DEF Kept
        <3>7. buffer' \in Seq(Packets) /\ Distinct(buffer')
            BY <3>1, <3>3
        <3>8. \/ Innermost(stack').packet \in Kept
              \/ /\ Innermost(stack').packet = c
                 /\ heap'[Innermost(stack').packet.frames] = "live"
            BY <3>3, <3>4, <3>5
        <3> QED
            BY <2>2, <3>5, <3>6, <3>7, <3>8, <3>9 DEF Sorts
    <2> QED
        BY <2>4, <2>5, <1>6 DEF SortNew, stored
<1> QED
    BY <1>5, <1>6

\* The sort filter is told of a packet.
LEMMA FlowSort ==
    ASSUME Shape, Types, Phases, Flow, SortNew
    PROVE  Flow'
<1> DEFINE q == top.packet
<1>1. /\ CallMove /\ CallStep /\ Notifying(stack) /\ settings' = settings /\ source' = source
      /\ top = Innermost(stack) /\ Innermost(stack).event = "NEW_PACKET"
      /\ Observer(stack) = "sort" /\ q \in Packets
    BY SortNewMoves, CallFacts, TopPacket DEF CallMove, CallStep, SortNew
<1>2. Len(stack) = 3 /\ Innermost(stack) = stack[3] /\ Level[Innermost(stack).subject] = 2
    <2>1. Len(stack) = 3 /\ Level[Innermost(stack).subject] \in 0..6
        BY <1>1, CallDepth, Levels, TopFacts DEF Shape, Notifying, IsSubject
    <2>2. 3 = Level[Innermost(stack).subject] + 1
        BY <1>1, ObserverFound, Levels DEF Shape
    <2> QED
        BY <2>1, <2>2 DEF Innermost
<1>3. OnWay(stack)
    BY <1>1, Names, CallerOnWay DEF Sinks
<1>4. Fresh(q, 2) /\ \A p \in Kept : p.number # q.number
    BY <1>1, <1>2, <1>3 DEF Flow
<1>5. Sorts(q)
    BY <1>4, SortNewSorts DEF Flow
<1>6. LoopPacket(3)
    BY <1>1, <1>2 DEF Flow
<1>7. heap[q.frames] = "live" /\ q.number = source /\ InTime(q, 3)
    BY <1>1, <1>2, <1>6 DEF LoopPacket
<1>8. \A f \in Filters : Seen(f)' = IF f = "sort" THEN Seen(f) \cup {q.number} ELSE Seen(f)
    BY <1>1, SeenCall
<1>9. \A p \in Kept : KeptPacket(p) /\ p \in Packets
    BY KeptElements DEF Flow, Kept, Types
<1>10. /\ Copied(q).frames = CopiedList(q.number) /\ Copied(q).number = q.number
       /\ Copied(q).time = q.time /\ Copied(q) \in Packets
    BY <1>1, PacketTypes DEF Copied, Packets
<1>11. settings.gamma_max \in Nat /\ settings.max_delay \in Nat /\ source \in Nat
    BY SettingTypes DEF Types
<1>12. InTime(q, 4) /\ InTime(Copied(q), 4)
    <2>1. Bound(3) = Bound(4)
        BY DEF Bound
    <2> QED
        BY <2>1, <1>7, <1>10 DEF InTime
<1> HIDE DEF q
<1>13. ASSUME NEW p \in Packets, Fresh(p, 3)
       PROVE  Fresh(p, 3)'
    <2>1. ASSUME NEW f \in Filters, Level[f] > 3 PROVE p.number \notin Seen(f)'
        <3>1. f # "sort"
            BY <2>1, Levels
        <3> QED
            BY <3>1, <2>1, <1>8, <1>13 DEF Fresh
    <2> QED
        BY <2>1 DEF Fresh
<1>14. Fresh(q, 3) /\ Fresh(Copied(q), 3)
    <2>1. \A f \in Filters : Level[f] > 3 => Level[f] > 2
        BY Levels
    <2> QED
        BY <2>1, <1>4, <1>10 DEF Fresh
<1>15. \A p \in Kept : heap'[p.frames] = "live"
    BY <1>5, <1>9, PacketTypes DEF Sorts, KeptPacket
<1>16. ASSUME NEW p, p \in Kept \/ (p = Copied(q) /\ heap'[p.frames] = "live")
       PROVE  KeptPacket(p)' /\ p \in Packets
    <2>1. CASE p \in Kept
        <3>1. KeptPacket(p) /\ p \in Packets
            BY <2>1, <1>9
        <3>2. Fresh(p, 3)' /\ InTime(p, 4)'
            BY <3>1, <1>1, <1>13, InTimeSame DEF KeptPacket
        <3> QED
            BY <3>1, <3>2, <2>1, <1>1, <1>15 DEF KeptPacket
    <2>2. CASE p = Copied(q) /\ heap'[p.frames] = "live"
        <3>1. p \in Packets /\ p.frames = CopiedList(p.number) /\ p.number <= source
            BY <2>2, <1>7, <1>10, <1>11
        <3>2. Fresh(p, 3)' /\ InTime(p, 4)'
            BY <3>1, <2>2, <1>1, <1>12, <1>13, <1>14, InTimeSame
        <3> QED
            BY <3>1, <3>2, <2>2, <1>1 DEF KeptPacket
    <2> QED
        BY <2>1, <2>2, <1>16
<1>17. ASSUME NEW k \in 1..3, stack[k].event = "NEW_PACKET" PROVE LoopPacket(k)'
    <2>1. LoopPacket(k)
        BY <1>17, <1>2 DEF Flow
    <2>2. stack'[k].packet = stack[k].packet /\ stack[k].packet \in Packets
        BY <1>1, <1>2, <1>17, PacketsBelow DEF Shape, IsShape, Placed
    <2>3. InTime(stack[k].packet, k)' <=> InTime(stack[k].packet, k)
        BY <1>1, <2>2 DEF InTime, Bound
    <2>4. heap'[stack[k].packet.frames] = "live"
        BY <2>1, <2>2, <1>5, PacketTypes DEF Sorts, LoopPacket
    <2>5. k <= 3 /\ ~(k >= 4) /\ k # 5
        OBVIOUS
    <2> QED
        BY <2>1, <2>2, <2>3, <2>4, <2>5, <1>1 DEF LoopPacket
\* The packet that the filter lets go.
<1>18. ASSUME NEW p, Passed(stack, stack'), p = Innermost(stack').packet
       PROVE  /\ heap'[p.frames] = "live" /\ p.number <= source' /\ InTime(p, 4)' /\ Fresh(p, 3)'
              /\ \A r \in Kept' : r.number # p.number
    <2>1. \A r \in Kept' : r.number # p.number
        BY <1>5, <1>18 DEF Sorts
    <2>2. CASE p = q
        <3>1. heap'[p.frames] = "live" /\ p.number <= source' /\ p \in Packets
            BY <2>2, <1>1, <1>5, <1>7, <1>11, PacketTypes DEF Sorts, q
        <3>2. InTime(p, 4)' /\ Fresh(p, 3)'
            BY <2>2, <3>1, <1>1, <1>12, <1>13, <1>14, InTimeSame
        <3> QED
            BY <3>1, <3>2, <2>1
    <2>3. CASE p \in Kept \/ (p = Copied(q) /\ heap'[p.frames] = "live")
        <3>1. KeptPacket(p)'
            BY <2>3, <1>16
        <3> QED
            BY <3>1, <2>1 DEF KeptPacket
    <2> QED
        BY <2>2, <2>3, <1>5, <1>18 DEF Sorts
<1>19. (\A k \in 1..Len(stack) : stack[k].event = "NEW_PACKET" => LoopPacket(k))'
    <2>1. ASSUME Passed(stack, stack') PROVE LoopPacket(4)'
        <3>1. stack'[4] = Innermost(stack')
            BY <2>1, <1>2 DEF Passed, Innermost
        <3>2. /\ heap'[stack'[4].packet.frames] = "live" /\ stack'[4].packet.number <= source'
              /\ \A r \in Kept' : r.number # stack'[4].packet.number
            BY <3>1, <2>1, <1>18
        <3>3. InTime(stack[4].packet, 4)'
            BY <3>1, <2>1, <1>18 DEF InTime, Bound
        <3> QED
            BY <3>2, <3>3 DEF LoopPacket
    <2>2. \A k \in 1..3 : stack'[k].event = stack[k].event
        BY <1>1, <1>2, PacketsBelow
    <2>3. \A k \in 1..Len(stack') : k \in 1..3 \/ (k = 4 /\ Passed(stack, stack'))
        BY <1>1, <1>2, PacketsBelow
    <2> QED
        BY <2>1, <2>2, <2>3, <1>17
<1>20. ASSUME OnWay(stack)'
       PROVE  (/\ \A p \in Kept : p.number # Innermost(stack).packet.number
               /\ Fresh(Innermost(stack).packet, Level[Innermost(stack).subject]))'
    <2>1. Passed(stack, stack') /\ Innermost(stack').subject = "sort"
        BY <1>1, <1>20, OnWayPassed DEF Passed
    <2>2. Level[Innermost(stack').subject] = 3
        BY <2>1, Levels
    <2>3. \A p \in Kept' : p.number # Innermost(stack').packet.number
        BY <2>1, <1>18
    <2>4. ASSUME NEW f \in Filters, Level[f] > 3 PROVE Innermost(stack').packet.number \notin Seen(f)'
        BY <2>1, <2>4, <1>18 DEF Fresh
    <2>5. Fresh(Innermost(stack).packet, Level[Innermost(stack).subject])'
        BY <2>2, <2>4 DEF Fresh
    <2> QED
        BY <2>3, <2>5
<1>21. \A f \in Filters : Seen(f)' \subseteq 1..source'
    <2>1. q.number \in 1..source
        BY <1>1, <1>7, <1>11, PacketTypes DEF q
    <2> QED
        BY <2>1, <1>1, <1>8 DEF Flow
<1>22. \A p \in Kept' : KeptPacket(p)'
    BY <1>5, <1>16 DEF Sorts
<1> QED
    BY <1>5, <1>19, <1>20, <1>21, <1>22 DEF Flow, Sorts

\* What the sort filter does when it is told of a packet or the end.
LEMMA SortActions ==
    ASSUME Shape, CallAction, callee = "sort"
    PROVE  /\ top.event = "NEW_PACKET" => SortNew
           /\ top.event = "TRANSMISSION_END" => SortEnd
<1>1. Start \/ OpenOutput => top.event = "TRANSMISSION_START"
    BY CallFacts DEF Start, OpenOutput
<1>2. SortNew => top.event = "NEW_PACKET"
    BY CallFacts DEF SortNew
<1>3. SortEnd => top.event = "TRANSMISSION_END"
    BY CallFacts DEF SortEnd
<1>4. ~(End \/ CloseOutput)
    BY CallFacts DEF End, CloseOutput
<1>5. ~(Delay \/ LoseMarkov \/ LoseIndependently \/ Watch \/ WriteOutput \/ WriteWav)
    BY CallFacts DEF Delay, LoseMarkov, LoseIndependently, Watch, WriteOutput, WriteWav
<1> QED
    BY <1>1, <1>2, <1>3, <1>4, <1>5 DEF CallAction

\* Any filter is told of anything.
LEMMA FlowCall ==
    ASSUME Shape, Types, Phases, Flow, CallAction
    PROVE  Flow'
<1>1. CASE top.event # "NEW_PACKET"
    BY <1>1, FlowEvent
<1>2. CASE top.event = "NEW_PACKET" /\ callee # "sort"
    BY <1>2, FlowRelay
<1>3. CASE top.event = "NEW_PACKET" /\ callee = "sort"
    BY <1>3, SortActions, FlowSort
<1> QED
    BY <1>1, <1>2, <1>3

\* The sort filter lets go of the first packet of its buffer, or has none left.
LEMMA DrainCases ==
    ASSUME Shape, Types, Drain
    PROVE  /\ buffer # <<>> => Released(stack, stack') /\ Innermost(stack').packet = Head(buffer)
                               /\ buffer' = Tail(buffer)
           /\ buffer = <<>> => Emptied(stack, stack') /\ buffer' = buffer
           /\ heap' = heap /\ RestMove
<1>1. RestMove /\ heap' = heap /\ stack # <<>>
    BY DrainMoves DEF Drain
<1>2. Len(stack) \in Nat /\ Len(stack) > 0 /\ Innermost(stack).draining
    BY <1>1, TopIs, TopFacts DEF Shape, Drain
<1>3. ASSUME buffer # <<>>
      PROVE  Released(stack, stack') /\ Innermost(stack').packet = Head(buffer)
             /\ buffer' = Tail(buffer)
    <2> DEFINE loop == [Loop("sort", "NEW_PACKET", Head(buffer)) EXCEPT !.destroy = TRUE]
    <2>1. stack' = Append(stack, loop) /\ buffer' = Tail(buffer)
        BY <1>3 DEF Drain
    <2>2. loop.packet = Head(buffer)
        BY DEF Loop
    <2> HIDE DEF loop
    <2>3. Len(stack') = Len(stack) + 1 /\ stack'[Len(stack) + 1] = loop
        BY <2>1, <1>2 DEF Shape, IsShape
    <2>4. Innermost(stack') = loop
        BY <2>3 DEF Innermost
    <2>5. ~Emptied(stack, stack') /\ ~Ended(stack, stack')
        BY <2>3, <1>2 DEF Emptied, Ended
    <2> QED
        BY <2>1, <2>2, <2>4, <2>5, <1>1 DEF RestMove
<1>4. ASSUME buffer = <<>> PROVE Emptied(stack, stack') /\ buffer' = buffer
    <2>1. stack' = [stack EXCEPT ![Len(stack)].draining = FALSE] /\ buffer' = buffer
        BY <1>4 DEF Drain
    <2>2. Len(stack') = Len(stack)
        BY <2>1 DEF Shape, IsShape
    <2>3. ~Released(stack, stack') /\ ~Ended(stack, stack')
        BY <2>2, <1>2 DEF Released, Ended
    <2> QED
        BY <2>1, <2>3, <1>1 DEF RestMove
<1> QED
    BY <1>1, <1>3, <1>4

\* The sort filter drains its buffer.
LEMMA FlowDrain ==
    ASSUME Shape, Types, Phases, Flow, Drain
    PROVE  Flow'
<1>1. /\ RestMove /\ heap' = heap /\ source' = source /\ settings' = settings
      /\ Shape' /\ buffer \in Seq(Packets) /\ \A f \in Filters : Seen(f)' = Seen(f)
    BY DrainCases, ShapeStep DEF RestMove, Types, Seen
<1>2. stack # <<>> /\ Innermost(stack).draining
    BY TopIs DEF Drain
<1>3. /\ Len(stack) = 4 /\ stack[4].draining /\ stack[4].event = "TRANSMISSION_END"
      /\ Innermost(stack) = stack[4]
    BY <1>2, DrainingStatus DEF Shape, Phases, Innermost
<1>4. \A k \in 1..4 : stack[k].event # "NEW_PACKET"
    BY <1>3, NoPacketLoops DEF Shape
<1>5. CASE buffer = <<>>
    <2>1. Emptied(stack, stack') /\ buffer' = buffer
        BY <1>5, DrainCases
    <2>2. (stack # <<>> => Innermost(stack).event # "NEW_PACKET")'
        BY <2>1, <1>3 DEF Emptied, SameLoop, Innermost
    <2>3. Kept' = Kept /\ Distinct(buffer')
        BY <2>1 DEF Kept, Flow
    <2> QED
        BY <1>1, <2>2, <2>3, FlowQuiet
<1>6. CASE buffer # <<>>
    <2>1. PICK h : /\ Released(stack, stack') /\ Innermost(stack').packet = h
                   /\ h = Head(buffer) /\ buffer' = Tail(buffer)
        BY <1>6, DrainCases
    <2>2. /\ Distinct(buffer') /\ h \in Kept
          /\ \A p \in Kept' : p \in Kept /\ p.number # h.number
        BY <2>1, <1>1, <1>6, BufferTail DEF Flow, Kept
    <2>3. ASSUME NEW p \in Kept PROVE KeptPacket(p)'
        <3>1. KeptPacket(p) /\ (InTime(p, 4)' <=> InTime(p, 4))
            BY <1>1, InTimeSame DEF Flow
        <3> QED
            BY <3>1, <1>1 DEF KeptPacket, Fresh
    <2>4. /\ Len(stack') = 5 /\ stack'[5] = Innermost(stack') /\ stack'[4] = stack[4]
          /\ \A k \in 1..4 : stack'[k] = stack[k]
          /\ Innermost(stack').subject = "sort" /\ stack'[5].packet = h
        BY <2>1, <1>3 DEF Released, Innermost
    <2>5. LoopPacket(5)'
        <3>1. KeptPacket(h)'
            BY <2>2, <2>3
        <3>2. InTime(stack[5].packet, 5)'
            BY <3>1, <2>4 DEF KeptPacket, InTime, Bound
        <3> QED
            BY <3>1, <3>2, <2>2, <2>4 DEF KeptPacket, LoopPacket
    <2>6. (\A k \in 1..Len(stack) : stack[k].event = "NEW_PACKET" => LoopPacket(k))'
        <3>1. \A k \in 1..Len(stack') : k \in 1..4 \/ k = 5
            BY <2>4
        <3> QED
            BY <3>1, <2>4, <2>5, <1>4
    <2>7. (/\ \A p \in Kept : p.number # Innermost(stack).packet.number
           /\ Fresh(Innermost(stack).packet, Level[Innermost(stack).subject]))'
        <3>1. KeptPacket(h)' /\ Level[Innermost(stack').subject] = 3
            BY <2>2, <2>3, <2>4, Levels
        <3>2. Fresh(Innermost(stack).packet, Level[Innermost(stack).subject])'
            BY <3>1, <2>4 DEF KeptPacket, Fresh
        <3> QED
            BY <3>2, <2>1, <2>2
    <2>8. \A p \in Kept' : KeptPacket(p)'
        BY <2>2, <2>3
    <2>9. \A f \in Filters : Seen(f)' \subseteq 1..source'
        BY <1>1 DEF Flow
    <2> QED
        BY <2>2, <2>6, <2>7, <2>8, <2>9 DEF Flow
<1> QED
    BY <1>5, <1>6

\* A loop ends; the source and the sort filter destroy the packet that they notified of.
LEMMA EndLoopCases ==
    ASSUME Shape, Types, EndLoop
    PROVE  /\ RestMove /\ Ended(stack, stack') /\ buffer' = buffer
           /\ ~Innermost(stack).destroy => heap' = heap
           /\ Innermost(stack).destroy =>
                  \A l \in Lists : l # Innermost(stack).packet.frames => heap'[l] = heap[l]
<1>1. RestMove /\ buffer' = buffer
    BY EndLoopMoves DEF EndLoop
<1>2. top = Innermost(stack) /\ stack # <<>> /\ ~Innermost(stack).draining
    BY TopIs DEF EndLoop
<1>3. Ended(stack, stack')
    BY <1>1, <1>2 DEF RestMove, Released, Emptied
<1>4. ~top.destroy => heap' = heap
    BY DEF EndLoop
<1>5. ASSUME top.destroy, NEW l \in Lists, l # top.packet.frames PROVE heap'[l] = heap[l]
    <2>1. heap' = [heap EXCEPT ![top.packet.frames] =
                       IF heap[top.packet.frames] = "live" THEN "freed" ELSE "freed twice"]
        BY <1>5, Zenon DEF EndLoop, wr_rtp_packet_destroy
    <2>2. DOMAIN heap = Lists
        BY DEF Types
    <2> QED
        BY <2>1, <2>2, <1>5, Zenon
<1> QED
    BY <1>1, <1>2, <1>3, <1>4, <1>5

\* The loop below it has told an observer before.
LEMMA EndLoopQuiet ==
    ASSUME Shape, Types, EndLoop
    PROVE  ~OnWay(stack)'
<1>1. Ended(stack, stack') /\ Shape'
    BY EndLoopCases, ShapeStep
<1>2. PICK n \in Nat : n = Len(stack) /\ n > 0
    BY <1>1, TopFacts DEF Ended, Shape
<1>3. Len(stack') = n - 1 /\ \A k \in 1..(n - 1) : stack'[k] = stack[k]
    BY <1>1, <1>2 DEF Ended, SameBelow
<1>4. CASE stack' = <<>>
    BY <1>4 DEF OnWay
<1>5. CASE stack' # <<>>
    <2>1. Len(stack') \in Nat /\ Len(stack') > 0 /\ Innermost(stack') = stack'[Len(stack')]
        BY <1>1, <1>5, TopFacts DEF Shape
    <2>2. n - 1 \in 1..(n - 1) /\ n - 1 \in 1..n /\ n - 1 < n /\ Innermost(stack') = stack[n - 1]
        BY <2>1, <1>2, <1>3
    <2>3. Placed(stack, n - 1)
        BY <2>2, <1>2 DEF Shape, IsShape
    <2>4. stack[n - 1].next > 1 \/ stack[n - 1].event = "TRANSMISSION_END"
        BY <2>2, <2>3, <1>2 DEF Placed
    <2> QED
        BY <2>2, <2>4 DEF OnWay
<1> QED
    BY <1>4, <1>5

\* A loop ends, and perhaps destroys its packet.
LEMMA FlowEndLoop ==
    ASSUME Shape, Types, Phases, Flow, EndLoop
    PROVE  Flow'
<1> DEFINE n == Len(stack)
<1>1. /\ RestMove /\ Ended(stack, stack') /\ buffer' = buffer /\ source' = source
      /\ settings' = settings /\ Shape' /\ \A f \in Filters : Seen(f)' = Seen(f)
    BY EndLoopCases, ShapeStep DEF RestMove, Seen
<1>2. /\ stack # <<>> /\ ~Innermost(stack).draining /\ Innermost(stack) = stack[n]
      /\ Placed(stack, n) /\ n \in Nat /\ n > 0 /\ n \in 1..n
    BY <1>1, TopFacts DEF Ended, Shape
<1>3. Len(stack') = n - 1 /\ \A k \in 1..(n - 1) : stack'[k] = stack[k] /\ k \in 1..n
    BY <1>1, <1>2 DEF Ended, SameBelow
\* No list is freed that the sort filter or a loop below needs.
<1>4. ASSUME NEW p \in Kept PROVE p \in Packets /\ KeptPacket(p)
    BY KeptElements DEF Flow, Kept, Types
<1>5. ASSUME NEW k \in 1..(n - 1), stack[k].event = "NEW_PACKET"
      PROVE  LoopPacket(k) /\ stack[k].packet \in Packets /\ ~Innermost(stack).destroy
    <2>1. Placed(stack, k) /\ LoopPacket(k)
        BY <1>3, <1>5 DEF Flow, Shape, IsShape
    <2>2. CASE Innermost(stack).destroy
        <3>1. n = 5 /\ Drained(stack, 5)
            BY <2>2, <1>2 DEF Placed
        <3>2. stack[4].draining /\ 4 \in 1..n /\ Placed(stack, 4) /\ ~Drained(stack, 4)
            BY <3>1 DEF Drained, Shape, IsShape
        <3>3. stack[4].event = "TRANSMISSION_END" /\ stack[4].event = stack[1].event
            BY <3>2 DEF Placed
        <3>4. ~Drained(stack, k)
            BY <3>1 DEF Drained
        <3> QED
            BY <3>3, <3>4, <2>1, <1>5 DEF Placed
    <2> QED
        BY <2>1, <2>2, <1>5 DEF Placed
<1>6. \A p \in Kept : heap'[p.frames] = "live"
    <2>1. CASE ~Innermost(stack).destroy
        BY <2>1, <1>4, EndLoopCases DEF KeptPacket
    <2>2. CASE Innermost(stack).destroy
        <3>1. /\ Innermost(stack).event = "NEW_PACKET"
              /\ n = 1 \/ (n = 5 /\ Drained(stack, 5))
              /\ LoopPacket(n)
            BY <2>2, <1>2 DEF Placed, Flow
        <3>2. ASSUME NEW p \in Kept PROVE p.frames # Innermost(stack).packet.frames
            <4>1. p.frames = CopiedList(p.number)
                BY <1>4 DEF KeptPacket
            <4>2. CASE n = 1
                <5>1. Innermost(stack).packet.frames = SourceList(source)
                    BY <4>2, <3>1, <1>2 DEF LoopPacket
                <5> QED
                    BY <4>1, <5>1 DEF CopiedList, SourceList
            <4>3. CASE n = 5 /\ Drained(stack, 5)
                <5>1. /\ Innermost(stack).packet.frames = CopiedList(Innermost(stack).packet.number)
                      /\ p.number # Innermost(stack).packet.number
                    BY <4>3, <3>1, <1>2 DEF LoopPacket
                <5> QED
                    BY <4>1, <5>1 DEF CopiedList
            <4> QED
                BY <4>2, <4>3, <3>1
        <3>3. ASSUME NEW p \in Kept PROVE heap'[p.frames] = "live"
            <4>1. heap[p.frames] = "live" /\ p.frames \in Lists
                BY <1>4, PacketTypes DEF KeptPacket
            <4> QED
                BY <4>1, <3>2, <2>2, EndLoopCases DEF Types
        <3> QED
            BY <3>3
    <2> QED
        BY <2>1, <2>2
<1> HIDE DEF n
<1>7. ASSUME NEW p \in Kept PROVE KeptPacket(p)'
    <2>1. KeptPacket(p) /\ (InTime(p, 4)' <=> InTime(p, 4))
        BY <1>1, <1>4, InTimeSame
    <2> QED
        BY <2>1, <1>1, <1>6 DEF KeptPacket, Fresh
<1>8. Kept' = Kept /\ Distinct(buffer')
    BY <1>1 DEF Kept, Flow
<1>9. ASSUME NEW k \in 1..(n - 1), stack[k].event = "NEW_PACKET" PROVE LoopPacket(k)'
    <2>1. LoopPacket(k) /\ heap' = heap /\ stack'[k] = stack[k]
        BY <1>3, <1>5, <1>9, EndLoopCases
    <2>2. InTime(stack[k].packet, k)' <=> InTime(stack[k].packet, k)
        BY <2>1, <1>1 DEF InTime, Bound
    <2>3. k = 5 => (Drained(stack', 5) <=> Drained(stack, 5))
        <3>1. n \in Nat /\ k <= n - 1
            BY <1>2 DEF n
        <3>2. k = 5 => 4 \in 1..(n - 1)
            BY <3>1
        <3> QED
            BY <3>2, <1>3 DEF Drained
    <2> QED
        BY <2>1, <2>2, <2>3, <1>1, <1>8 DEF LoopPacket
<1>10. (\A k \in 1..Len(stack) : stack[k].event = "NEW_PACKET" => LoopPacket(k))'
    BY <1>3, <1>9
<1>11. ~OnWay(stack)'
    BY EndLoopQuiet
<1>12. \A f \in Filters : Seen(f)' \subseteq 1..source'
    BY <1>1 DEF Flow
<1> QED
    BY <1>7, <1>8, <1>10, <1>11, <1>12 DEF Flow

\* The source sends its next packet.
LEMMA FlowSend ==
    ASSUME Shape, Types, Phases, Flow, SourceSend
    PROVE  Flow'
<1>1. PICK p : p = NewPacket
    OBVIOUS
<1>2. /\ BeginMove /\ stack'[1].event = "NEW_PACKET" /\ stack'[1].packet = p /\ p \in Packets
      /\ p.number = source + 1 /\ p.time = Time[source + 1] /\ p.frames = SourceList(source + 1)
      /\ source' = source + 1 /\ settings' = settings /\ buffer' = buffer
      /\ heap' = [heap EXCEPT ![SourceList(source + 1)] = "live"]
    BY <1>1, SourceSendMoves DEF SourceSend, BeginMove, NewPacket
<1>3. /\ Len(stack') = 1 /\ stack' # <<>> /\ Innermost(stack') = stack'[1]
      /\ stack'[1].subject = "wavfile" /\ \A f \in Filters : Seen(f)' = Seen(f)
    <2>1. stack' \in Seq(Loops) /\ Len(stack') = 1 /\ stack'[1].subject = "wavfile"
        BY <1>2 DEF BeginMove, Begun
    <2>2. received' = received
        BY <1>2 DEF BeginMove
    <2>3. stack' # <<>>
        BY <2>1
    <2> QED
        BY <2>1, <2>2, <2>3 DEF Innermost, Seen
<1>4. source \in Nat /\ heap \in [Lists -> {"none", "live", "freed"}]
    BY DEF Types
<1>5. p.frames \in Lists /\ p.time \in Nat
    BY <1>2, PacketTypes
<1>6. \A l \in Lists : heap[l] = "live" => heap'[l] = "live"
    BY <1>2, <1>4
<1>7. heap'[p.frames] = "live"
    BY <1>2, <1>4, <1>5
<1>8. ASSUME NEW r \in Kept PROVE KeptPacket(r)' /\ r.number # p.number
    <2>1. KeptPacket(r) /\ r \in Packets /\ (InTime(r, 4)' <=> InTime(r, 4))
        BY <1>2, InTimeSame, KeptElements DEF Flow, Kept, Types
    <2>2. r.number <= source /\ r.number \in Nat /\ r.frames \in Lists
        BY <2>1, PacketTypes DEF KeptPacket
    <2>3. r.number <= source' /\ r.number # p.number
        BY <2>2, <1>2, <1>4
    <2> QED
        BY <2>1, <2>2, <2>3, <1>3, <1>6 DEF KeptPacket, Fresh
<1>9. Kept' = Kept /\ Distinct(buffer')
    BY <1>2 DEF Kept, Flow
<1>10. LoopPacket(1)'
    <2>1. InTime(stack[1].packet, 1)'
        BY <1>2, <1>5 DEF InTime, Bound
    <2>2. stack'[1].packet.number <= source'
        BY <1>2, <1>4
    <2>3. ~(1 >= 4) /\ 1 # 5
        OBVIOUS
    <2> QED
        BY <2>1, <2>2, <2>3, <1>2, <1>7 DEF LoopPacket
<1>11. (\A k \in 1..Len(stack) : stack[k].event = "NEW_PACKET" => LoopPacket(k))'
    <2>1. \A k \in 1..Len(stack') : k = 1
        BY <1>3
    <2> QED
        BY <2>1, <1>10
<1>12. \A f \in Filters : p.number \notin Seen(f)' /\ Seen(f)' \subseteq 1..source'
    <2>1. source + 1 \notin 1..source /\ 1..source \subseteq 1..(source + 1)
        BY <1>4
    <2> QED
        BY <2>1, <1>2, <1>3 DEF Flow
<1>13. (/\ \A r \in Kept : r.number # Innermost(stack).packet.number
        /\ Fresh(Innermost(stack).packet, Level[Innermost(stack).subject]))'
    <2>1. Fresh(Innermost(stack).packet, Level[Innermost(stack).subject])'
        BY <1>2, <1>3, <1>12 DEF Fresh
    <2> QED
        BY <2>1, <1>2, <1>3, <1>8, <1>9
<1>14. \A r \in Kept' : KeptPacket(r)'
    BY <1>8, <1>9
<1> QED
    BY <1>9, <1>11, <1>12, <1>13, <1>14 DEF Flow

\* Every step preserves what holds of the packets.
LEMMA FlowStep ==
    ASSUME Shape, Types, Phases, Flow, Next
    PROVE  Flow'
<1>1. CASE SourceStart \/ SourceEnd
    <2>1. BeginMove /\ Shape'
        BY <1>1, SourceStartMoves, SourceEndMoves, ShapeStep
    <2>2. /\ source' = source /\ buffer' = buffer /\ heap' = heap /\ settings' = settings
          /\ \A f \in Filters : Seen(f)' = Seen(f)
        BY <1>1 DEF SourceStart, SourceEnd, Seen
    <2>3. stack' = <<Loop("wavfile", "TRANSMISSION_START", NoPacket)>>
          \/ stack' = <<Loop("wavfile", "TRANSMISSION_END", NoPacket)>>
        BY <1>1 DEF SourceStart, SourceEnd
    <2>4. (stack # <<>> => Innermost(stack).event # "NEW_PACKET")'
        BY <2>3 DEF Innermost, Loop
    <2>5. Kept' = Kept /\ Distinct(buffer')
        BY <2>2 DEF Kept, Flow
    <2> QED
        BY <2>1, <2>2, <2>4, <2>5, FlowQuiet
<1> QED
    BY <1>1, FlowSend, FlowEndLoop, FlowDrain, FlowCall, NextActions

--------------------------------------------------------------------------------
(* The sort filter has emptied its buffer before the end goes on.            *)

\* Otherwise only the sort filter can be in the middle of the end.
LEMMA NoEndLoops ==
    ASSUME NEW s, IsShape(s), s # <<>> => Innermost(s).event # "TRANSMISSION_END",
           NEW k \in 1..Len(s), s[k].event = "TRANSMISSION_END", k >= 4
    PROVE  s[k].draining
<1>1. /\ s # <<>> /\ Len(s) \in Nat /\ Innermost(s) = s[Len(s)] /\ Placed(s, Len(s))
      /\ k \in Nat /\ k <= Len(s)
    <2>1. s # <<>>
        BY DEF IsShape
    <2> QED
        BY <2>1, TopFacts
<1>2. Placed(s, k)
    BY DEF IsShape
<1>3. CASE Drained(s, Len(s))
    <2>1. s[4].draining /\ ~Drained(s, k)
        BY <1>2, <1>3 DEF Placed, Drained
    <2>2. ~(k > 4)
        BY <2>1 DEF Drained
    <2> QED
        BY <2>1, <2>2, <1>1
<1>4. CASE ~Drained(s, Len(s))
    <2>1. Innermost(s).event = s[1].event
        BY <1>1, <1>4 DEF Placed
    <2>2. ~Drained(s, k)
        BY <1>1, <1>4 DEF Drained
    <2>3. s[k].event = s[1].event
        BY <1>2, <2>2 DEF Placed
    <2> QED
        BY <2>1, <2>3, <1>1
<1> QED
    BY <1>3, <1>4

\* Every step preserves it.
LEMMA FlushedStep ==
    ASSUME Shape, Types, Phases, Flushed, Next
    PROVE  Flushed'
<1>1. CallMove \/ RestMove \/ BeginMove
    BY StepMoves
<1>2. Shape'
    BY <1>1, ShapeStep
<1>3. CASE stack' # <<>> => Innermost(stack').event # "TRANSMISSION_END"
    <2>1. (stack # <<>> => Innermost(stack).event # "TRANSMISSION_END")'
        BY <1>3
    <2> QED
        BY <1>2, <2>1, NoEndLoops DEF Shape, Flushed
<1>4. CASE CallAction /\ Innermost(stack').event = "TRANSMISSION_END"
    <2>1. CallMove /\ Notifying(stack) /\ top = Innermost(stack) /\ callee = Observer(stack)
        BY <1>4, CallMoves, TopIs DEF CallMove, CallStep
    <2>2. /\ Len(stack) \in Nat /\ Innermost(stack) = stack[Len(stack)] /\ Len(stack) > 0
          /\ Len(stack) \in 1..Len(stack)
        BY <2>1, TopFacts DEF Shape, Notifying
    <2>3. top.event = "TRANSMISSION_END"
        BY <2>1, <1>4 DEF CallMove, Passed, Returned, Advanced, SameLoop, Innermost
    <2>4. CASE callee = "sort"
        <3>1. Len(stack) = 3
            BY <2>1, <2>4, CallDepth, Levels
        <3>2. SortEnd
            BY <1>4, <2>3, <2>4, SortActions
        <3>3. stack'[4].draining
            <4> DEFINE loop == [Loop("sort", "TRANSMISSION_END", NoPacket) EXCEPT !.draining = TRUE]
            <4>1. loop.draining
                BY DEF Loop
            <4>2. stack' = Append(WithNext(stack), loop)
                BY <3>2, AdvancedIs DEF SortEnd
            <4> HIDE DEF loop
            <4>3. WithNext(stack) \in Seq(Loops) /\ Len(WithNext(stack)) = 3
                BY <2>1, <3>1, AdvancedStack DEF Shape
            <4>4. \A s \in Seq(Loops) : \A l : Append(s, l)[Len(s) + 1] = l
                OBVIOUS
            <4>5. Append(WithNext(stack), loop)[Len(WithNext(stack)) + 1] = loop
                BY <4>3, <4>4, Zenon
            <4>6. Len(WithNext(stack)) + 1 = 4
                BY <4>3
            <4> QED
                BY <4>1, <4>2, <4>5, <4>6, Zenon
        <3>4. \A k \in 1..Len(stack') : k \in 1..3 \/ k = 4
            BY <2>1, <3>1, PacketsBelow
        <3>5. \A k \in 1..3 : ~(k >= 4)
            OBVIOUS
        <3> QED
            BY <3>3, <3>4, <3>5 DEF Flushed
    <2>5. CASE callee # "sort"
        <3>1. buffer' = buffer
            <4>1. CASE top.event # "NEW_PACKET" /\ SortEnd
                BY <4>1, <2>5, CallFacts DEF SortEnd
            <4>2. CASE SortNew
                BY <4>2, <2>5, CallFacts DEF SortNew
            <4>3. CASE Start \/ End \/ OpenOutput \/ CloseOutput \/ WriteWav
                BY <4>3 DEF Start, End, OpenOutput, CloseOutput, WriteWav, Unchanged
            <4>4. CASE Delay \/ LoseMarkov \/ LoseIndependently \/ Watch \/ WriteOutput
                BY <4>4 DEF Delay, LoseMarkov, LoseIndependently, Watch, WriteOutput, Unchanged
            <4> QED
                BY <4>1, <4>2, <4>3, <4>4, <1>4, <2>3 DEF CallAction
        <3>2. Level[Observer(stack)] # 3 /\ Observer(stack) \in Subjects
            <4>1. Observer(stack) \in Subjects
                BY <2>1, ObserverFound DEF Shape
            <4> QED
                BY <4>1, <2>1, <2>5, SubjectFacts DEF IsSubject
        <3>3. CASE Len(stack) >= 4
            <4>1. buffer = <<>>
                BY <3>3, <2>1, <2>2, <2>3 DEF Flushed, Notifying
            <4> QED
                BY <4>1, <3>1 DEF Flushed
        <3>4. CASE Len(stack) < 4
            <4>1. Len(stack) < 3
                BY <3>2, <3>4, <2>1, <2>2, CallDepth
            <4>2. \A k \in 1..Len(stack') : k \in 1..Len(stack) \/ k = Len(stack) + 1
                BY <2>1, PacketsBelow
            <4>3. \A k \in 1..Len(stack') : ~(k >= 4)
                BY <4>1, <4>2, <2>2
            <4> QED
                BY <4>3 DEF Flushed
        <3> QED
            BY <3>3, <3>4, <2>2
    <2> QED
        BY <2>4, <2>5
<1>5. CASE Drain
    <2>1. CASE buffer = <<>>
        BY <2>1, <1>5, DrainCases DEF Flushed
    <2>2. CASE buffer # <<>>
        <3>1. Released(stack, stack')
            BY <1>5, <2>2, DrainCases
        <3> QED
            BY <3>1, <1>3 DEF Released
    <2> QED
        BY <2>1, <2>2
<1>6. CASE EndLoop
    <2>1. Ended(stack, stack') /\ buffer' = buffer /\ Len(stack) \in Nat
        BY <1>6, EndLoopCases, TopFacts DEF Ended, Shape
    <2>2. \A k \in 1..Len(stack') : k \in 1..Len(stack) /\ stack'[k] = stack[k]
        BY <2>1 DEF Ended, SameBelow
    <2> QED
        BY <2>1, <2>2 DEF Flushed
<1>7. CASE SourceStart \/ SourceSend \/ SourceEnd
    <2>1. Len(stack') = 1
        BY <1>7, SourceStartMoves, SourceEndMoves, SourceSendMoves DEF BeginMove, Begun
    <2>2. \A k \in 1..Len(stack') : ~(k >= 4)
        BY <2>1
    <2> QED
        BY <2>2 DEF Flushed
<1>8. CASE CallAction /\ Innermost(stack').event # "TRANSMISSION_END"
    BY <1>3, <1>8
<1> QED
    BY <1>4, <1>5, <1>6, <1>7, <1>8, NextActions

--------------------------------------------------------------------------------
(* Without losses every packet arrives.                                      *)

\* With probability 0 no draw loses a packet.
LEMMA DrawsNothing ==
    ASSUME Lossless, ~prev_lost, NEW draw \in 0..RAND_MAX
    PROVE  ~Lost(draw, MarkovThreshold) /\ ~Lost(draw, settings.loss_rate)
<1>1. draw >= 0 /\ draw \in Int
    BY ChainAssumption
<1> QED
    BY <1>1 DEF Lossless, Lost, MarkovThreshold

\* The Markov filter never comes to its lossy state.
LEMMA NeverLosing ==
    ASSUME Lossless, ~prev_lost, Next
    PROVE  Lossless' /\ ~prev_lost'
<1>1. settings' = settings /\ (prev_lost' = prev_lost \/ LoseMarkov)
    BY DEF Next, SourceStart, SourceSend, SourceEnd, Start, End, EndLoop, Delay, LoseMarkov,
           LoseIndependently, Watch, SortNew, SortEnd, Drain, OpenOutput, WriteOutput,
           CloseOutput, WriteWav, Unchanged, Calls
<1>2. CASE LoseMarkov
    <2>1. PICK draw \in 0..RAND_MAX : prev_lost' = Lost(draw, MarkovThreshold)
        BY <1>2 DEF LoseMarkov
    <2>2. ~Lost(draw, MarkovThreshold)
        BY DrawsNothing
    <2> QED
        BY <2>1, <2>2, <1>1 DEF Lossless
<1>3. CASE prev_lost' = prev_lost
    BY <1>1, <1>3 DEF Lossless
<1> QED
    BY <1>1, <1>2, <1>3

\* The filters of the chain, other than sort, then pass every packet on.
LEMMA PassesAll ==
    ASSUME Shape, Types, Lossless, ~prev_lost, CallAction, top.event = "NEW_PACKET",
           callee \notin Sinks, callee # "sort"
    PROVE  Passed(stack, stack')
<1>1. /\ CallMove /\ Notifying(stack) /\ Len(stack) \in Nat
    BY CallMoves, TopFacts DEF CallMove, CallStep, Notifying, Shape
<1>2. \E packet : Forward(packet)
    <2>1. CASE Delay
        BY <2>1 DEF Delay
    <2>2. CASE LoseMarkov
        <3>1. PICK draw \in 0..RAND_MAX :
                  /\ prev_lost' = Lost(draw, MarkovThreshold)
                  /\ IF prev_lost' THEN Return("WR_OK") ELSE Forward(top.packet)
            BY <2>2 DEF LoseMarkov
        <3> QED
            BY <3>1, DrawsNothing
    <2>3. CASE LoseIndependently
        <3>1. PICK draw \in 0..RAND_MAX :
                  IF Lost(draw, settings.loss_rate) THEN Return("WR_OK") ELSE Forward(top.packet)
            BY <2>3 DEF LoseIndependently
        <3> QED
            BY <3>1, DrawsNothing
    <2>4. CASE Start \/ End \/ SortEnd \/ OpenOutput \/ CloseOutput
        <3>1. \/ Calls(Forwarders, "TRANSMISSION_START")
              \/ Calls(Forwarders \ {"sort"}, "TRANSMISSION_END")
              \/ Calls({"sort"}, "TRANSMISSION_END")
              \/ Calls({"output"}, "TRANSMISSION_START") \/ Calls({"output"}, "TRANSMISSION_END")
            BY <2>4 DEF Start, End, SortEnd, OpenOutput, CloseOutput
        <3> QED
            BY <3>1, CallFacts
    <2>5. CASE Watch \/ SortNew \/ WriteOutput \/ WriteWav
        <3>1. callee \in {"log", "sipp", "sort", "output", "wavfile_output"}
            BY <2>5, CallFacts DEF Watch, SortNew, WriteOutput, WriteWav
        <3> QED
            BY <3>1 DEF Sinks
    <2> QED
        BY <2>1, <2>2, <2>3, <2>4, <2>5 DEF CallAction
<1>3. Len(stack') = Len(stack) + 1
    BY <1>1, <1>2, ForwardPacket
<1> QED
    BY <1>1, <1>3 DEF CallMove, Returned

\* A packet that a filter of the chain passes on is on its way.
LEMMA PassedOnWay ==
    ASSUME Shape, Passed(stack, stack'), Innermost(stack).event = "NEW_PACKET",
           Observer(stack) \notin Sinks
    PROVE  OnWay(stack')
<1>1. stack' # <<>>
    BY TopFacts DEF Passed, Notifying, Shape
<1> QED
    BY <1>1 DEF Passed, OnWay

\* What Complete says of a packet.
Found(n) ==
    \/ n \in Seen("log") \/ \E p \in Kept : p.number = n
    \/ OnWay(stack) /\ Innermost(stack).packet.number = n

\* A packet is still there after a filter was told of one.
LEMMA FoundCall ==
    ASSUME Shape, Types, Phases, Flow, Lossless, ~prev_lost, CallAction, NEW n, Found(n)
    PROVE  Found(n)'
<1>1. /\ CallMove /\ CallStep /\ Notifying(stack) /\ top = Innermost(stack)
      /\ callee = Observer(stack) /\ callee \in Filters
    BY CallMoves, TopIs, ObserverFound DEF CallMove, CallStep, Shape
<1>2. \A f \in Filters : Seen(f)' = IF f = callee /\ top.event = "NEW_PACKET"
                                    THEN Seen(f) \cup {top.packet.number} ELSE Seen(f)
    BY <1>1, SeenCall
<1>3. CASE n \in Seen("log")
    BY <1>2, <1>3, Names DEF Found
<1>4. CASE top.event # "NEW_PACKET"
    <2>1. Kept' = Kept /\ ~OnWay(stack)
        BY <1>1, <1>4, EventCalls DEF Flow, OnWay
    <2> QED
        BY <2>1, <1>3 DEF Found
<1>5. CASE top.event = "NEW_PACKET" /\ callee = "sort"
    <2>1. SortNew
        BY <1>5, SortActions
    <2>2. OnWay(stack)
        BY <1>1, <1>5, Names, CallerOnWay DEF Sinks
    <2>3. Sorts(top.packet)
        BY <2>1, <2>2, <1>1, SortNewSorts DEF Flow
    <2>4. Copied(top.packet).number = top.packet.number
        <3>1. top.packet \in Packets
            BY <2>1, TopPacket DEF SortNew
        <3> QED
            BY <3>1 DEF Copied, Packets
    <2>5. ASSUME NEW p \in Kept \cup {Copied(top.packet)}, p.number = n PROVE Found(n)'
        <3>1. p \in Kept' \/ LetGo(p)
            BY <2>3, <2>5 DEF Sorts
        <3>2. ASSUME LetGo(p) PROVE OnWay(stack') /\ Innermost(stack').packet.number = n
            BY <2>5, <3>2, <1>1, <1>5, PassedOnWay DEF LetGo, Sinks
        <3> QED
            BY <2>5, <3>1, <3>2 DEF Found
    <2> QED
        BY <2>2, <2>4, <2>5, <1>1, <1>3 DEF Found
<1>6. CASE top.event = "NEW_PACKET" /\ callee # "sort"
    <2>1. Kept' = Kept /\ (Passed(stack, stack') => Carries(Innermost(stack').packet, top.packet, callee))
        BY <1>6, NewPacketCalls DEF Kept
    <2>2. CASE OnWay(stack) /\ top.packet.number = n
        <3>1. callee = "log" \/ callee \notin Sinks
            <4>1. Index[callee] = 1
                BY <2>2, <1>1, ObserverFound DEF OnWay, Shape
            <4>2. Index["output"] = 2 /\ Index["wavfile_output"] = 3 /\ Index["sipp"] = 4
                BY Names DEF Index
            <4> QED
                BY <4>1, <4>2 DEF Sinks
        <3>2. CASE callee = "log"
            BY <2>2, <3>2, <1>1, <1>2, <1>6 DEF Found
        <3>3. CASE callee \notin Sinks
            <4>1. Passed(stack, stack')
                BY <3>3, <1>6, PassesAll
            <4>2. OnWay(stack') /\ Innermost(stack').packet.number = n
                BY <4>1, <2>1, <2>2, <3>3, <1>1, <1>6, PassedOnWay DEF Carries
            <4> QED
                BY <4>2 DEF Found
        <3> QED
            BY <3>1, <3>2, <3>3
    <2>3. CASE \E p \in Kept : p.number = n
        BY <2>1, <2>3 DEF Found
    <2> QED
        BY <2>2, <2>3, <1>1, <1>3 DEF Found
<1> QED
    BY <1>4, <1>5, <1>6

\* Every step keeps every packet where it can be found.
LEMMA CompleteStep ==
    ASSUME Shape, Types, Phases, Flow, Complete, Next
    PROVE  Complete'
<1> SUFFICES ASSUME Lossless' PROVE ~prev_lost' /\ \A n \in 1..source' : Found(n)'
    BY DEF Complete, Found
<1>1. Lossless
    <2>1. settings' = settings
        BY StepMoves DEF CallMove, CallStep, RestMove, BeginMove
    <2> QED
        BY <2>1 DEF Lossless
<1>2. ~prev_lost /\ \A n \in 1..source : Found(n)
    BY <1>1 DEF Complete, Found
<1>3. ~prev_lost'
    BY <1>1, <1>2, NeverLosing
<1>4. CASE CallAction
    <2>1. source' = source
        BY <1>4, CallMoves DEF CallMove, CallStep
    <2> QED
        BY <2>1, <1>1, <1>2, <1>3, <1>4, FoundCall
<1>5. CASE Drain
    <2>1. RestMove /\ source' = source /\ Seen("log")' = Seen("log")
        BY <1>5, DrainCases DEF RestMove, Seen
    <2>2. ~OnWay(stack)
        <3>1. stack # <<>> /\ Innermost(stack).draining
            BY <1>5, TopIs DEF Drain
        <3>2. Len(stack) = 4 /\ stack[4].event = "TRANSMISSION_END"
            BY <3>1, DrainingStatus DEF Shape, Phases
        <3> QED
            BY <3>2 DEF OnWay, Innermost
    <2>3. ASSUME NEW p \in Kept PROVE Found(p.number)'
        <3>1. CASE buffer = <<>>
            BY <3>1, <1>5, <2>3, DrainCases DEF Found, Kept
        <3>2. CASE buffer # <<>>
            <4>1. /\ Released(stack, stack') /\ Innermost(stack').packet = Head(buffer)
                  /\ buffer' = Tail(buffer) /\ buffer \in Seq(Packets) /\ Distinct(buffer)
                BY <3>2, <1>5, DrainCases DEF Types, Flow
            <4>2. p \in Kept' \/ p = Innermost(stack').packet
                BY <4>1, <3>2, BufferTail DEF Kept
            <4>3. OnWay(stack')
                <5>1. "sort" \notin Sinks /\ Len(stack) \in Nat /\ Len(stack) + 1 # 0
                    BY <4>1, TopFacts DEF Sinks, Shape, Released
                <5>2. stack' # <<>>
                    BY <4>1, <5>1 DEF Released
                <5> QED
                    BY <4>1, <5>1, <5>2 DEF Released, OnWay
            <4> QED
                BY <4>2, <4>3 DEF Found
        <3> QED
            BY <3>1, <3>2
    <2>4. ASSUME NEW n \in 1..source PROVE Found(n)'
        <3>1. CASE n \in Seen("log")
            BY <3>1, <2>1 DEF Found
        <3>2. CASE \E p \in Kept : p.number = n
            BY <3>2, <2>3
        <3> QED
            BY <3>1, <3>2, <2>2, <1>2 DEF Found
    <2> QED
        BY <2>1, <2>4, <1>3
<1>6. CASE EndLoop
    <2>1. /\ source' = source /\ Seen("log")' = Seen("log") /\ buffer' = buffer
          /\ Ended(stack, stack')
        BY <1>6, EndLoopCases DEF RestMove, Seen
    <2>2. ~OnWay(stack)
        <3>1. /\ Innermost(stack).subject \in Subjects /\ Innermost(stack) \in Loops
              /\ IsSubject(Innermost(stack).subject)
            BY <2>1, TopFacts DEF Shape, Ended
        <3>2. Innermost(stack).subject \in Sinks \/ Len(observers[Innermost(stack).subject]) >= 1
            BY <3>1, Observers, Chain DEF Subjects, Filters
        <3> QED
            BY <2>1, <3>1, <3>2 DEF OnWay, Ended, Loops, IsSubject
    <2>3. Kept' = Kept
        BY <2>1 DEF Kept
    <2> QED
        BY <2>1, <2>2, <2>3, <1>2, <1>3 DEF Found
<1>7. CASE SourceStart \/ SourceSend \/ SourceEnd
    <2>1. stack = <<>> /\ received' = received /\ buffer' = buffer
        BY <1>7, SourceStartMoves DEF BeginMove, Begun, SourceStart, SourceSend, SourceEnd
    <2>2. Kept' = Kept /\ Seen("log")' = Seen("log")
        BY <2>1 DEF Kept, Seen
    <2>3. \A n \in 1..source : Found(n)'
        BY <2>1, <2>2, <1>2 DEF Found, OnWay
    <2>4. CASE SourceSend
        <3>1. source' = source + 1 /\ source \in Nat
            BY <2>4 DEF SourceSend, Types
        <3>2. /\ stack' # <<>> /\ Innermost(stack') = stack'[1] /\ stack'[1].event = "NEW_PACKET"
              /\ stack'[1].next = 1 /\ stack'[1].subject = "wavfile"
              /\ stack'[1].packet.number = source + 1
            <4>1. Begun(stack, stack') /\ stack'[1].packet = NewPacket /\ stack'[1].event = "NEW_PACKET"
                BY <2>4, SourceSendMoves DEF BeginMove
            <4>2. Len(stack') = 1 /\ stack' \in Seq(Loops)
                BY <4>1 DEF Begun
            <4>3. stack' # <<>>
                BY <4>2
            <4> QED
                BY <4>1, <4>2, <4>3 DEF Begun, NewPacket, Innermost
        <3>3. \A n : n = source + 1 => Found(n)'
            <4>1. OnWay(stack')
                BY <3>2 DEF OnWay, Sinks
            <4> QED
                BY <4>1, <3>2 DEF Found
        <3>4. \A n \in 1..(source + 1) : n \in 1..source \/ n = source + 1
            BY <3>1
        <3> QED
            BY <3>1, <3>3, <3>4, <2>3, <1>3
    <2>5. CASE SourceStart \/ SourceEnd
        BY <2>3, <2>5, <1>3 DEF SourceStart, SourceEnd
    <2> QED
        BY <2>4, <2>5, <1>7
<1> QED
    BY <1>4, <1>5, <1>6, <1>7, NextActions

--------------------------------------------------------------------------------
(* The sinks are told the same.                                              *)

\* Only one loop tells the sinks.
LEMMA OneTeller ==
    ASSUME NEW s, IsShape(s), NEW i \in 1..Len(s), NEW j \in 1..Len(s),
           s[i].subject = "independent_losses", s[j].subject = "independent_losses"
    PROVE  i = j
<1>1. Level["independent_losses"] = 5
    BY Levels
<1>2. Placed(s, i) /\ Placed(s, j) /\ i \in Nat /\ j \in Nat
    BY DEF IsShape
<1>3. i = IF Drained(s, i) THEN 7 ELSE 6
    BY <1>1, <1>2 DEF Placed
<1>4. j = IF Drained(s, j) THEN 7 ELSE 6
    BY <1>1, <1>2 DEF Placed
<1>5. Drained(s, i) <=> Drained(s, j)
    BY <1>3, <1>4 DEF Drained
<1> QED
    BY <1>3, <1>4, <1>5

\* A sink is told, after those in front of it.
LEMMA SinkTold ==
    ASSUME NEW s, NEW t, NEW calls, NEW later, IsShape(s), Called(s, t), AreTold(s, calls),
           Observer(s) \in Sinks,
           later[Observer(s)] = Append(calls[Observer(s)], Entry(Innermost(s))),
           \A f \in Filters : f # Observer(s) => later[f] = calls[f]
    PROVE  AreTold(t, later)
<1>1. /\ Notifying(s) /\ Len(s) \in Nat /\ Len(s) > 0 /\ Len(s) \in 1..Len(s)
      /\ Innermost(s) = s[Len(s)] /\ Innermost(s) \in Loops
    BY TopFacts DEF Called, Notifying
<1>2. /\ Parent[Observer(s)] = "independent_losses" /\ Innermost(s).subject = "independent_losses"
      /\ Index[Observer(s)] = Innermost(s).next /\ Observer(s) \in Filters
    BY <1>1, ObserverFound
<1>3. ToldBy(Innermost(s), calls)
    BY <1>1, <1>2 DEF AreTold
<1>4. PICK before \in Seq(Entries) : \A f \in Sinks :
          calls[f] = IF Index[f] < Innermost(s).next THEN Append(before, Entry(Innermost(s)))
                                                     ELSE before
    BY <1>3 DEF ToldBy
<1>5. /\ t[Len(s)].subject = "independent_losses" /\ t[Len(s)].next = Innermost(s).next + 1
      /\ Entry(t[Len(s)]) = Entry(Innermost(s))
    BY <1>2 DEF Called, Advanced, SameLoop, Entry
<1>6. ASSUME NEW f \in Sinks
      PROVE  later[f] = IF Index[f] < t[Len(s)].next THEN Append(before, Entry(t[Len(s)]))
                                                     ELSE before
    <2>1. f \in Filters /\ IsObserver(f) /\ IsObserver(Observer(s))
        BY <1>2, ObserverFacts DEF Filters
    <2>2. Index[f] \in Nat /\ Innermost(s).next \in Nat
        BY <2>1, <1>1 DEF IsObserver, Loops
    <2>3. CASE f = Observer(s)
        <3>1. ~(Index[f] < Innermost(s).next) /\ Index[f] < Innermost(s).next + 1
            BY <2>2, <2>3, <1>2
        <3>2. calls[f] = before
            BY <3>1, <1>4
        <3> QED
            BY <3>1, <3>2, <2>3, <1>5
    <2>4. CASE f # Observer(s)
        <3>1. Index[f] # Innermost(s).next
            BY <2>1, <2>4, <1>2 DEF IsObserver
        <3>2. Index[f] < Innermost(s).next <=> Index[f] < Innermost(s).next + 1
            BY <3>1, <2>2
        <3> QED
            BY <3>2, <2>1, <2>4, <1>4, <1>5
    <2> QED
        BY <2>3, <2>4
<1>7. ToldBy(t[Len(s)], later)
    BY <1>6 DEF ToldBy
<1>8. \A k \in 1..Len(t) : t[k].subject = "independent_losses" => k = Len(s)
    <2>1. \A k \in 1..Len(s) : t[k].subject = s[k].subject
        BY CalledBelow
    <2>2. \A k \in 1..Len(t) : k \in 1..Len(s) \/ (k = Len(s) + 1 /\ t[k].subject = Observer(s))
        BY CalledBelow DEF Called, Innermost
    <2>3. Observer(s) # "independent_losses"
        BY DEF Sinks
    <2> QED
        BY <2>1, <2>2, <2>3, <1>1, <1>2, OneTeller
<1>9. Len(s) \in 1..Len(t)
    BY <1>1 DEF Called
<1> QED
    BY <1>5, <1>7, <1>8, <1>9 DEF AreTold

\* Another filter is told, and may begin to tell the sinks.
LEMMA OtherTold ==
    ASSUME NEW s, NEW t, NEW calls, NEW later, IsShape(s), Called(s, t), AreTold(s, calls),
           Observer(s) \notin Sinks, calls \in [Filters -> Seq(Entries)],
           \A f \in Filters : f # Observer(s) => later[f] = calls[f]
    PROVE  AreTold(t, later)
<1>1. /\ Notifying(s) /\ Len(s) \in Nat /\ Len(s) > 0 /\ Innermost(s) = s[Len(s)]
      /\ Innermost(s).subject # "independent_losses"
    BY TopFacts, ObserverFound DEF Called, Notifying
<1>2. \A f \in Sinks : later[f] = calls[f] /\ f \in Filters
    BY DEF Filters
<1>3. \A k \in 1..Len(s) : t[k].subject = s[k].subject /\ (k # Len(s) => t[k] = s[k])
    BY CalledBelow
<1>4. \A k \in 1..Len(t) : k \in 1..Len(s) \/ (k = Len(s) + 1 /\ t[k] = Innermost(t))
    BY CalledBelow DEF Innermost
<1>5. ASSUME NEW k \in 1..Len(s), t[k].subject = "independent_losses" PROVE ToldBy(t[k], later)
    <2>1. t[k] = s[k]
        BY <1>1, <1>3, <1>5
    <2>2. ToldBy(s[k], calls)
        BY <2>1, <1>5 DEF AreTold
    <2> QED
        BY <2>1, <2>2, <1>2 DEF ToldBy
<1>6. ASSUME \A k \in 1..Len(s) : s[k].subject # "independent_losses"
      PROVE  \A f, g \in Sinks : later[f] = later[g]
    BY <1>2, <1>6 DEF AreTold
<1>7. CASE Len(t) = Len(s)
    <2>1. \A k \in 1..Len(t) : k \in 1..Len(s)
        BY <1>7
    <2> QED
        BY <2>1, <1>3, <1>5, <1>6, <1>7 DEF AreTold
<1>8. CASE Len(t) = Len(s) + 1
    <2>1. /\ Innermost(t).subject = Observer(s) /\ Innermost(t).next = 1
          /\ \A k \in 1..Len(s) : k \in 1..Len(t)
        BY <1>1, <1>8 DEF Called
    <2>2. CASE Observer(s) # "independent_losses"
        BY <2>1, <2>2, <1>3, <1>4, <1>5, <1>6 DEF AreTold
    <2>3. CASE Observer(s) = "independent_losses"
        <3>1. \A k \in 1..Len(s) : s[k].subject # "independent_losses"
            <4> SUFFICES ASSUME NEW k \in 1..Len(s), s[k].subject = "independent_losses"
                         PROVE  FALSE
                OBVIOUS
            <4>1. Level[Innermost(s).subject] = 4
                <5>1. /\ Level[Observer(s)] = Level[Innermost(s).subject] + 1
                      /\ Level[Innermost(s).subject] \in 0..6
                    BY <1>1, ObserverFound, TopFacts DEF IsSubject, Notifying
                <5> QED
                    BY <5>1, <2>3, Levels
            <4>2. Placed(s, Len(s)) /\ Placed(s, k) /\ k \in Nat /\ k <= Len(s)
                BY <1>1 DEF IsShape
            <4>3. Len(s) = 5 \/ (Len(s) = 6 /\ Drained(s, Len(s)))
                BY <1>1, <4>1, <4>2 DEF Placed
            <4>4. k = 7 \/ (k = 6 /\ ~Drained(s, k))
                BY <4>2, Levels DEF Placed
            <4>5. ~(6 <= 5) /\ ~(7 <= 5) /\ ~(7 <= 6)
                OBVIOUS
            <4> QED
                BY <4>2, <4>3, <4>4, <4>5, Zenon
        <3>2. \A f \in Sinks : later[f] = later["log"] /\ Index[f] \in Nat /\ Index[f] >= 1
            <4>1. \A f \in Sinks : IsObserver(f) /\ f \in Filters
                BY ObserverFacts DEF Filters
            <4>2. \A f \in Sinks : Index[f] \in Nat /\ Index[f] >= 1
                BY <4>1 DEF IsObserver
            <4> QED
                BY <4>2, <3>1, <1>6 DEF Sinks
        <3>3. later["log"] \in Seq(Entries)
            BY <1>2, Names DEF Sinks
        <3>4. ToldBy(Innermost(t), later)
            <4>1. \A f \in Sinks : later[f] = IF Index[f] < Innermost(t).next
                                              THEN Append(later["log"], Entry(Innermost(t)))
                                              ELSE later["log"]
                BY <3>2, <2>1
            <4> QED
                BY <4>1, <3>3 DEF ToldBy
        <3>5. Len(t) \in 1..Len(t) /\ Innermost(t) = t[Len(t)]
            BY <1>1, <1>8 DEF Innermost
        <3> QED
            BY <3>4, <3>5, <2>1, <2>3, <1>4, <1>5 DEF AreTold
    <2> QED
        BY <2>2, <2>3
<1> QED
    BY <1>7, <1>8 DEF Called

\* A loop ends; when it told the sinks, all of them have been told.
LEMMA EndedTold ==
    ASSUME NEW s, NEW t, NEW calls, IsShape(s), Ended(s, t), AreTold(s, calls)
    PROVE  AreTold(t, calls)
<1>1. /\ Len(s) \in Nat /\ Len(s) > 0 /\ Len(s) \in 1..Len(s) /\ Innermost(s) = s[Len(s)]
      /\ Innermost(s) \in Loops /\ Len(t) = Len(s) - 1
    BY TopFacts DEF Ended
<1>2. \A k \in 1..Len(t) : t[k] = s[k] /\ k \in 1..Len(s) /\ k # Len(s)
    BY <1>1 DEF Ended, SameBelow
<1>3. ASSUME NEW k \in 1..Len(t), t[k].subject = "independent_losses" PROVE ToldBy(t[k], calls)
    BY <1>2, <1>3 DEF AreTold
<1>4. ASSUME Innermost(s).subject = "independent_losses"
      PROVE  \A f, g \in Sinks : calls[f] = calls[g]
    <2>1. PICK before \in Seq(Entries) : \A f \in Sinks :
              calls[f] = IF Index[f] < Innermost(s).next THEN Append(before, Entry(Innermost(s)))
                                                         ELSE before
        BY <1>1, <1>4 DEF AreTold, ToldBy
    <2>2. \A f \in Sinks : Index[f] < Innermost(s).next
        <3>1. \A f \in Sinks : f \in Filters /\ IsObserver(f)
            BY ObserverFacts DEF Filters
        <3>2. \A f \in Sinks : Index[f] \in 1..4
            BY <3>1, Observers DEF IsObserver
        <3>3. Innermost(s).next > 4 /\ Innermost(s).next \in Nat
            BY <1>1, <1>4, Observers DEF Ended, Loops
        <3> QED
            BY <3>2, <3>3
    <2> QED
        BY <2>1, <2>2
<1>5. ASSUME \A k \in 1..Len(t) : t[k].subject # "independent_losses"
      PROVE  \A f, g \in Sinks : calls[f] = calls[g]
    <2>1. CASE Innermost(s).subject # "independent_losses"
        <3>1. \A k \in 1..Len(s) : k \in 1..Len(t) \/ k = Len(s)
            BY <1>1
        <3>2. \A k \in 1..Len(s) : s[k].subject # "independent_losses"
            BY <3>1, <2>1, <1>1, <1>2, <1>5
        <3> QED
            BY <3>2 DEF AreTold
    <2> QED
        BY <2>1, <1>4
<1> QED
    BY <1>3, <1>5 DEF AreTold

\* A step that leaves the loop over the sinks as it is.
LEMMA SameTold ==
    ASSUME NEW s, NEW t, NEW calls, AreTold(s, calls), Len(s) \in Nat, Len(t) \in Nat,
           \A k \in 1..Len(t) : t[k].subject = "independent_losses" => k <= Len(s) /\ t[k] = s[k],
           \A k \in 1..Len(s) : s[k].subject = "independent_losses" => k <= Len(t) /\ t[k] = s[k]
    PROVE  AreTold(t, calls)
<1>1. ASSUME NEW k \in 1..Len(t), t[k].subject = "independent_losses" PROVE ToldBy(t[k], calls)
    <2>1. k \in 1..Len(s) /\ t[k] = s[k]
        BY <1>1
    <2> QED
        BY <2>1, <1>1 DEF AreTold
<1>2. ASSUME \A k \in 1..Len(t) : t[k].subject # "independent_losses"
      PROVE  \A f, g \in Sinks : calls[f] = calls[g]
    <2>1. ASSUME NEW k \in 1..Len(s), s[k].subject = "independent_losses" PROVE FALSE
        <3>1. k \in 1..Len(t) /\ t[k] = s[k]
            BY <2>1
        <3> QED
            BY <3>1, <2>1, <1>2
    <2> QED
        BY <2>1 DEF AreTold
<1> QED
    BY <1>1, <1>2 DEF AreTold

\* Every step keeps the sinks in agreement.
LEMMA ToldStep ==
    ASSUME Shape, Types, Phases, Told, Next
    PROVE  Told'
<1> SUFFICES ASSUME ~crashed' PROVE AreTold(stack', received')
    BY DEF Told
<1>1. CallMove \/ RestMove \/ (BeginMove /\ crashed' = crashed)
    <2>1. SourceStart \/ SourceSend \/ SourceEnd => BeginMove /\ crashed' = crashed
        BY SourceStartMoves, SourceSendMoves, SourceEndMoves DEF SourceStart, SourceSend, SourceEnd
    <2> QED
        BY <2>1, NextActions, CallMoves, DrainMoves, EndLoopMoves
<1>2. CASE CallMove
    <2>1. /\ CallStep /\ AreTold(stack, received) /\ Called(stack, stack')
          /\ received \in [Filters -> Seq(Entries)]
        BY <1>2, PassedIsCalled, ReturnedIsCalled DEF CallMove, CallStep, Told, Shape, Types
    <2>2. /\ Observer(stack) \in Filters
          /\ received'[Observer(stack)] =
                 Append(received[Observer(stack)], Entry(Innermost(stack)))
          /\ \A f \in Filters : f # Observer(stack) => received'[f] = received[f]
        BY <2>1, CallReceived
    <2> QED
        BY <2>1, <2>2, SinkTold, OtherTold DEF Shape
<1>3. CASE RestMove
    <2>1. AreTold(stack, received) /\ received' = received
        BY <1>3 DEF RestMove, Told
    <2>2. CASE Ended(stack, stack')
        BY <2>1, <2>2, EndedTold DEF Shape
    <2>3. CASE Released(stack, stack')
        <3>1. Len(stack) \in Nat /\ Len(stack') = Len(stack) + 1
            BY <2>3, TopFacts DEF Released, Shape
        <3>2. \A k \in 1..Len(stack') : k \in 1..Len(stack) \/ k = Len(stack')
            BY <3>1
        <3>3. stack'[Len(stack')].subject # "independent_losses"
            BY <2>3 DEF Released, Innermost
        <3> QED
            BY <3>1, <3>2, <3>3, <2>1, <2>3, SameTold DEF Released
    <2>4. CASE Emptied(stack, stack')
        <3>1. Len(stack) \in Nat /\ Len(stack') = Len(stack)
            BY <2>4, TopFacts DEF Emptied, Shape
        <3>2. stack[Len(stack)].subject # "independent_losses"
            BY <2>4, DrainingStatus DEF Emptied, Shape, Phases
        <3>3. stack'[Len(stack)].subject = stack[Len(stack)].subject
            BY <2>4, <3>1 DEF Emptied, SameLoop, Innermost
        <3>4. \A k \in 1..Len(stack) : k = Len(stack) \/ stack'[k] = stack[k]
            BY <2>4, <3>1 DEF Emptied, SameBelow
        <3> QED
            BY <3>1, <3>2, <3>3, <3>4, <2>1, SameTold
    <2> QED
        BY <2>2, <2>3, <2>4, <1>3 DEF RestMove
<1>4. CASE BeginMove /\ crashed' = crashed
    <2>1. /\ stack = <<>> /\ Len(stack') = 1 /\ stack'[1].subject = "wavfile"
          /\ received' = received
        BY <1>4 DEF BeginMove, Begun
    <2>2. ~crashed
        BY <1>4
    <2>3. AreTold(stack, received)
        BY <2>2 DEF Told
    <2>4. Len(stack) = 0 /\ \A k \in 1..Len(stack') : k = 1
        BY <2>1
    <2> QED
        BY <2>1, <2>3, <2>4, SameTold
<1> QED
    BY <1>1, <1>2, <1>3, <1>4

--------------------------------------------------------------------------------
(* The invariant holds, and what follows from it.                            *)

\* Flow says more than NoDanglingPacket.
LEMMA DanglingFlow ==
    ASSUME Shape, Types, Flow
    PROVE  NoDanglingPacket
<1>1. DOMAIN stack = 1..Len(stack) /\ DOMAIN buffer = 1..Len(buffer)
    BY DEF Shape, IsShape, Types
<1>2. \A k \in 1..Len(stack) : stack[k].event = "NEW_PACKET" => heap[stack[k].packet.frames] = "live"
    BY DEF Flow, LoopPacket
<1>3. \A k \in 1..Len(buffer) : heap[buffer[k].frames] = "live"
    <2>1. \A k \in 1..Len(buffer) : buffer[k] \in Kept
        BY KeptElements DEF Types, Kept
    <2> QED
        BY <2>1 DEF Flow, KeptPacket
<1> QED
    BY <1>1, <1>2, <1>3 DEF NoDanglingPacket

\* The invariant holds at the start ...
LEMMA InvInit ==
    ASSUME Init
    PROVE  Inv
<1>1. stack = <<>> /\ buffer = <<>> /\ source = 0 /\ crashed = FALSE /\ prev_lost = FALSE
    BY DEF Init
<1>2. \A k \in 1..Len(stack) : FALSE
    BY <1>1
<1>3. \A f \in Filters : received[f] = <<>> /\ state[f] = "null"
    BY DEF Init
<1>4. Shape
    BY <1>1, <1>2 DEF Shape, IsShape
<1>5. Types
    <2>1. received \in [Filters -> Seq(Entries)]
        BY DEF Init
    <2>2. heap \in [Lists -> {"none", "live", "freed"}]
        BY DEF Init
    <2>3. state \in [Filters -> {"null", "alive", "freed"}]
        BY DEF Init
    <2>4. 0 \in 0..Len(Time)
        BY ChainAssumption
    <2>5. settings \in Settings /\ phase \in {"none", "started", "ended"}
        BY DEF Init
    <2>6. buffer \in Seq(Packets)
        BY <1>1
    <2> QED
        BY <1>1, <2>1, <2>2, <2>3, <2>4, <2>5, <2>6 DEF Types
<1>6. \A s \in Subjects : Status[s] = "none"
    BY <1>3 DEF Status, StatusOf, Subjects, Init
<1>7. Phases
    <2>1. \A f \in Filters : f \in Subjects /\ Parent[f] \in Subjects
        BY ObserverFacts DEF IsObserver
    <2>2. \A f \in Filters : ~Pending(stack, f)
        BY <1>2 DEF Pending
    <2>3. IsPhases(stack, Status)
        BY <1>2, <1>6, <2>1, <2>2 DEF IsPhases
    <2>4. \A f \in Filters : InOrder(received[f])
        BY <1>3 DEF InOrder
    <2> QED
        BY <2>3, <2>4 DEF Phases
<1>8. States
    BY <1>2, <1>6 DEF States, Subjects
<1>9. Flow
    <2>1. \A p \in Kept : FALSE
        BY <1>1 DEF Kept, Range
    <2>2. \A f \in Filters : Seen(f) = {}
        BY <1>3 DEF Seen, SeenIn
    <2>3. Distinct(buffer)
        BY <1>1 DEF Distinct
    <2>4. ~OnWay(stack)
        BY <1>1 DEF OnWay
    <2> QED
        BY <1>2, <2>1, <2>2, <2>3, <2>4 DEF Flow
<1>10. Flushed
    BY <1>2 DEF Flushed
<1>11. Complete
    BY <1>1 DEF Complete
<1>12. Told
    <2>1. \A f \in Sinks : received[f] = <<>>
        BY <1>3 DEF Filters
    <2> QED
        BY <2>1, <1>2 DEF Told, AreTold
<1> QED
    BY <1>4, <1>5, <1>7, <1>8, <1>9, <1>10, <1>11, <1>12 DEF Inv

\* ... and every step preserves it.
LEMMA InvNext ==
    ASSUME Inv, [Next]_vars
    PROVE  Inv'
<1>1. CASE Next
    <2>1. /\ Shape /\ Types /\ Phases /\ States /\ Flow /\ Flushed /\ Complete /\ Told
          /\ NoDanglingPacket
        BY DanglingFlow DEF Inv
    <2>2. CallMove \/ RestMove \/ BeginMove
        BY <1>1, <2>1, StepMoves
    <2>3. Shape' /\ Types' /\ Phases' /\ States'
        BY <1>1, <2>1, <2>2, ShapeStep, TypesStep, PhasesStep, StatesStep
    <2>4. Flow' /\ Flushed' /\ Complete' /\ Told'
        BY <1>1, <2>1, FlowStep, FlushedStep, CompleteStep, ToldStep
    <2> QED
        BY <2>3, <2>4 DEF Inv
<1>2. CASE UNCHANGED vars
    <2>1. /\ settings' = settings /\ stack' = stack /\ source' = source /\ phase' = phase
          /\ state' = state /\ prev_lost' = prev_lost /\ buffer' = buffer /\ heap' = heap
          /\ crashed' = crashed /\ received' = received
        BY <1>2 DEF vars
    <2>2. Shape' /\ Types'
        BY <2>1 DEF Inv, Shape, Types
    <2>3. Status' = Status
        BY <2>1 DEF Status
    <2>4. Phases' /\ States'
        BY <2>1, <2>3 DEF Inv, Phases, States
    <2>5. Flushed' /\ Told'
        BY <2>1 DEF Inv, Flushed, Told
    <2>6. Kept' = Kept /\ \A f \in Filters : Seen(f)' = Seen(f)
        BY <2>1 DEF Kept, Seen
    <2>7. ASSUME NEW p PROVE (KeptPacket(p)' <=> KeptPacket(p))
        BY <2>1, <2>6 DEF KeptPacket, Fresh, InTime, Bound
    <2>8. ASSUME NEW k PROVE (LoopPacket(k)' <=> LoopPacket(k))
        BY <2>1, <2>6 DEF LoopPacket, InTime, Bound
    <2>9. Fresh(Innermost(stack).packet, Level[Innermost(stack).subject])'
          <=> Fresh(Innermost(stack).packet, Level[Innermost(stack).subject])
        BY <2>1, <2>6 DEF Fresh
    <2>10. Flow'
        BY <2>1, <2>6, <2>7, <2>8, <2>9 DEF Inv, Flow
    <2>11. Complete'
        <3>1. Seen("log")' = Seen("log")
            BY <2>1 DEF Seen
        <3> QED
            BY <3>1, <2>1, <2>6 DEF Inv, Complete, Lossless
    <2> QED
        BY <2>2, <2>4, <2>5, <2>10, <2>11 DEF Inv
<1> QED
    BY <1>1, <1>2

\* The invariant of the chain.
THEOREM Invariance == Spec => []Inv
<1>1. Init => Inv
    BY InvInit
<1>2. Inv /\ [Next]_vars => Inv'
    BY InvNext
<1> QED
    BY <1>1, <1>2, PTL DEF Spec

\* The variables have their types, whatever the settings and the packets.
THEOREM TypeCorrect == Spec => []TypeOK
<1>1. Inv => TypeOK
    <2> SUFFICES ASSUME Inv PROVE TypeOK
        OBVIOUS
    <2>1. Shape /\ Types
        BY DEF Inv
    <2>2. ASSUME NEW k \in DOMAIN stack
          PROVE  /\ stack[k].subject \in Filters \cup {"wavfile"}
                 /\ stack[k].packet \in Packets \cup {NoPacket}
                 /\ stack[k].next \in 1..MAX_OBSERVERS
        <3>1. stack[k] \in Loops
            BY <2>1 DEF Shape, IsShape
        <3> QED
            BY <3>1 DEF Loops, Subjects, MAX_OBSERVERS
    <2>3. heap \in [Lists -> {"none", "live", "freed"}]
        BY <2>1 DEF Types
    <2>4. heap \in [Lists -> {"none", "live", "freed", "freed twice"}]
        BY <2>3
    <2>5. /\ settings \in Settings /\ source \in 0..Len(Time)
          /\ phase \in {"none", "started", "ended"}
          /\ state \in [Filters -> {"null", "alive", "freed"}]
          /\ prev_lost \in BOOLEAN /\ crashed \in BOOLEAN /\ buffer \in Seq(Packets)
        BY <2>1 DEF Types
    <2> QED
        BY <2>2, <2>4, <2>5 DEF TypeOK
<1> QED
    BY <1>1, Invariance, PTL

\* No packet is used, and the sort filter keeps none, whose frames were freed.
THEOREM PacketsLive == Spec => []NoDanglingPacket
<1>1. Inv => NoDanglingPacket
    BY DanglingFlow DEF Inv
<1> QED
    BY <1>1, Invariance, PTL

\* No list of frames is destroyed by two of the packets that share it.
THEOREM ListsFreedOnce == Spec => []DestroyedOnce
<1>1. Inv => DestroyedOnce
    <2> SUFFICES ASSUME Inv PROVE DestroyedOnce
        OBVIOUS
    <2>1. heap \in [Lists -> {"none", "live", "freed"}]
        BY DEF Inv, Types
    <2> QED
        BY <2>1 DEF DestroyedOnce
<1> QED
    BY <1>1, Invariance, PTL

\* Every filter sees the start, packets and then the end.
THEOREM EventOrder == Spec => []EventsInOrder
<1>1. Inv => EventsInOrder
    <2> SUFFICES ASSUME Inv PROVE EventsInOrder
        OBVIOUS
    <2>1. \A f \in Filters : InOrder(received[f]) /\ DOMAIN received[f] = 1..Len(received[f])
        BY DEF Inv, Phases, Types
    <2> QED
        BY <2>1 DEF InOrder, EventsInOrder
<1> QED
    BY <1>1, Invariance, PTL

\* Every filter has a state when it is called, except a writer without its file.
THEOREM AlwaysAlive == Spec => []StatesAlive
<1>1. Inv => StatesAlive
    <2> SUFFICES ASSUME Inv PROVE StatesAlive
        OBVIOUS
    <2>1. ASSUME stack # <<>>, ~top.draining, top.event # "TRANSMISSION_START",
                 top.next \in DOMAIN observers[top.subject]
          PROVE  state[callee] = "alive" \/ (callee = "output" /\ ~settings.opens)
        <3>1. /\ top = Innermost(stack) /\ callee = Observer(stack)
              /\ IsSubject(Innermost(stack).subject) /\ IsShape(stack)
            BY <2>1, TopIs, TopFacts DEF Inv, Shape
        <3>2. Notifying(stack)
            BY <2>1, <3>1 DEF Notifying, IsSubject
        <3>3. Status[callee] = "started" /\ callee \in Filters
            BY <2>1, <3>1, <3>2, ObserverStatus, ObserverFound DEF Inv, Phases
        <3> QED
            BY <3>3 DEF Inv, States
    <2>2. ASSUME NEW k \in DOMAIN stack, stack[k].draining PROVE state["sort"] = "alive"
        <3>1. k \in 1..Len(stack)
            BY DEF Inv, Shape, IsShape
        <3> QED
            BY <3>1, <2>2 DEF Inv, States
    <2> QED
        BY <2>1, <2>2 DEF StatesAlive
<1> QED
    BY <1>1, Invariance, PTL

\* When the chain is at rest, all sinks were told the same.
THEOREM Agreement == Spec => []SinksAgree
<1>1. Inv => SinksAgree
    BY DEF Inv, Told, AreTold, SinksAgree
<1> QED
    BY <1>1, Invariance, PTL

--------------------------------------------------------------------------------
(* What a filter was told between the start and the end.                     *)

Between(calls) ==
    SubSeq(calls, 2, IF StatusOf(calls) = "ended" THEN Len(calls) - 1 ELSE Len(calls))
EndedOf(calls) == \E k \in DOMAIN calls : calls[k].event = "TRANSMISSION_END"

\* They are the packets, one by one, from the second call on.
LEMMA BetweenFacts ==
    ASSUME NEW calls \in Seq(Entries), InOrder(calls)
    PROVE  /\ Between(calls) \in Seq(Entries)
           /\ StatusOf(calls) = "none" => Between(calls) = <<>> /\ calls = <<>>
           /\ StatusOf(calls) = "started" => Len(Between(calls)) = Len(calls) - 1
           /\ \A k \in 1..Len(Between(calls)) :
                  /\ k + 1 \in 1..Len(calls) /\ Between(calls)[k] = calls[k + 1]
                  /\ calls[k + 1].event = "NEW_PACKET"
           /\ \A i \in 1..Len(calls) : calls[i].event = "NEW_PACKET" =>
                  i - 1 \in 1..Len(Between(calls))
           /\ EndedOf(calls) <=> StatusOf(calls) = "ended"
<1> DEFINE n == Len(calls)
           m == IF StatusOf(calls) = "ended" THEN n - 1 ELSE n
           a == Between(calls)
<1>1. n \in Nat /\ m \in Int /\ 2 \in Int /\ m <= n /\ (calls = <<>> <=> n = 0)
    OBVIOUS
<1>2. \A i \in 2..m : calls[i] \in Entries /\ i \in 1..n
    BY <1>1
<1>3. /\ SubSeq(calls, 2, m) \in Seq(Entries)
      /\ Len(SubSeq(calls, 2, m)) = IF 2 <= m THEN m - 2 + 1 ELSE 0
      /\ \A k \in 1..(m - 2 + 1) : SubSeq(calls, 2, m)[k] = calls[2 + k - 1]
    BY <1>1, <1>2, SubSeqProperties
<1>4. a = SubSeq(calls, 2, m)
    BY DEF Between
<1>5. StatusOf(calls) \in {"none", "started", "ended"} /\ (StatusOf(calls) = "none" <=> calls = <<>>)
    BY DEF StatusOf
<1>6. StatusOf(calls) = "ended" <=> n > 0 /\ calls[n].event = "TRANSMISSION_END"
    BY <1>1 DEF StatusOf
<1> HIDE DEF a, m
<1>7. Len(a) = IF 2 <= m THEN m - 1 ELSE 0
    BY <1>1, <1>3, <1>4
<1>8. ASSUME NEW k \in 1..Len(a)
      PROVE  /\ k + 1 \in 1..n /\ k + 1 \in 2..m /\ a[k] = calls[k + 1]
    <2>1. 2 <= m /\ k \in 1..(m - 2 + 1) /\ 2 + k - 1 = k + 1
        BY <1>1, <1>7
    <2> QED
        BY <2>1, <1>1, <1>3, <1>4
<1>9. ASSUME NEW i \in 2..m PROVE calls[i].event = "NEW_PACKET"
    <2>1. calls[i].event \in Events /\ i \in 1..n /\ i # 1
        BY <1>2 DEF Entries
    <2>2. calls[i].event # "TRANSMISSION_START"
        BY <2>1 DEF InOrder
    <2>3. ASSUME calls[i].event = "TRANSMISSION_END" PROVE FALSE
        <3>1. i = n
            BY <2>1, <2>3 DEF InOrder
        <3>2. StatusOf(calls) = "ended"
            BY <3>1, <2>1, <2>3, <1>1, <1>6
        <3> QED
            BY <3>1, <3>2, <1>1 DEF m
    <2> QED
        BY <2>1, <2>2, <2>3 DEF Events
<1>10. ASSUME NEW i \in 1..n, calls[i].event = "NEW_PACKET" PROVE i - 1 \in 1..Len(a)
    <2>1. i # 1
        BY <1>1, <1>10 DEF InOrder
    <2>2. StatusOf(calls) = "ended" => i # n
        BY <1>6, <1>10
    <2>3. i <= m /\ 2 <= i
        BY <2>1, <2>2, <1>1 DEF m
    <2> QED
        BY <2>3, <1>1, <1>7
<1>11. StatusOf(calls) = "none" => a = <<>>
    <2>1. StatusOf(calls) = "none" => Len(a) = 0
        BY <1>1, <1>5, <1>7 DEF m
    <2> QED
        BY <2>1, <1>3, <1>4
<1>12. ASSUME StatusOf(calls) = "started" PROVE Len(a) = n - 1
    <2>1. n # 0
        BY <1>1, <1>5, <1>12
    <2>2. m = n
        BY <1>12 DEF m
    <2>3. n \in Nat
        BY <1>1
    <2> HIDE DEF n
    <2> QED
        BY <2>1, <2>2, <2>3, <1>7
<1>13. EndedOf(calls) <=> StatusOf(calls) = "ended"
    <2>1. DOMAIN calls = 1..n
        OBVIOUS
    <2>2. \A k \in 1..n : calls[k].event = "TRANSMISSION_END" => k = n
        BY DEF InOrder
    <2>3. n > 0 => n \in 1..n
        BY <1>1
    <2>4. \A k \in 1..n : n > 0
        BY <1>1
    <2> QED
        BY <2>1, <2>2, <2>3, <2>4, <1>6 DEF EndedOf
<1> QED
    BY <1>3, <1>4, <1>5, <1>8, <1>9, <1>10, <1>11, <1>12, <1>13 DEF a

\* Their numbers are those that the filter has seen.
LEMMA BetweenSeen ==
    ASSUME NEW calls \in Seq(Entries), InOrder(calls), NEW n
    PROVE  (\E k \in 1..Len(Between(calls)) : Between(calls)[k].number = n) <=> n \in SeenIn(calls)
<1> DEFINE a == Between(calls)
<1>1. /\ \A k \in 1..Len(a) : /\ k + 1 \in 1..Len(calls) /\ a[k] = calls[k + 1]
                              /\ calls[k + 1].event = "NEW_PACKET"
      /\ \A i \in 1..Len(calls) : calls[i].event = "NEW_PACKET" => i - 1 \in 1..Len(a)
      /\ Len(calls) \in Nat
    BY BetweenFacts
<1> HIDE DEF a
<1>2. ASSUME NEW k \in 1..Len(a), a[k].number = n PROVE n \in SeenIn(calls)
    BY <1>1, <1>2 DEF SeenIn
<1>3. ASSUME n \in SeenIn(calls) PROVE \E k \in 1..Len(a) : a[k].number = n
    <2>1. PICK i \in 1..Len(calls) : calls[i].event = "NEW_PACKET" /\ calls[i].number = n
        BY <1>3 DEF SeenIn
    <2>2. i - 1 \in 1..Len(a) /\ (i - 1) + 1 = i
        BY <2>1, <1>1
    <2>3. a[i - 1] = calls[i]
        BY <2>2, <1>1
    <2> QED
        BY <2>1, <2>2, <2>3
<1> QED
    BY <1>2, <1>3 DEF a

\* One more call is one more packet, or the start or the end.
LEMMA BetweenAppend ==
    ASSUME NEW calls \in Seq(Entries), NEW entry \in Entries, InOrder(calls),
           StatusOf(calls) = IF entry.event = "TRANSMISSION_START" THEN "none" ELSE "started"
    PROVE  /\ entry.event = "NEW_PACKET" =>
                  Between(Append(calls, entry)) = Append(Between(calls), entry)
           /\ entry.event # "NEW_PACKET" => Between(Append(calls, entry)) = Between(calls)
           /\ EndedOf(Append(calls, entry)) <=> entry.event = "TRANSMISSION_END"
           /\ ~EndedOf(calls)
<1>1. PICK later : later = Append(calls, entry)
    OBVIOUS
<1>2. /\ later \in Seq(Entries) /\ InOrder(later)
      /\ StatusOf(later) = IF entry.event = "TRANSMISSION_END" THEN "ended" ELSE "started"
    BY <1>1, ReceivesOne
<1>3. PICK n \in Nat : n = Len(calls)
    OBVIOUS
<1>4. Len(later) = n + 1 /\ later[n + 1] = entry /\ \A k \in 1..n : later[k] = calls[k]
    BY <1>1, <1>3
<1>5. PICK a \in Seq(Entries) : a = Between(calls)
    BY BetweenFacts
<1>6. PICK b \in Seq(Entries) : b = Between(later)
    BY <1>2, BetweenFacts
<1>7. /\ StatusOf(calls) = "none" => a = <<>> /\ n = 0
      /\ StatusOf(calls) = "started" => Len(a) = n - 1 /\ n > 0
      /\ \A k \in 1..Len(a) : k + 1 \in 1..n /\ a[k] = calls[k + 1]
      /\ EndedOf(calls) <=> StatusOf(calls) = "ended"
    <2>1. StatusOf(calls) = "started" => n > 0
        BY <1>3 DEF StatusOf
    <2>2. StatusOf(calls) = "none" => n = 0
        BY <1>3 DEF StatusOf
    <2> QED
        BY <2>1, <2>2, <1>3, <1>5, BetweenFacts
<1>8. /\ StatusOf(later) = "started" => Len(b) = n
      /\ \A k \in 1..Len(b) : /\ k + 1 \in 1..(n + 1) /\ b[k] = later[k + 1]
                              /\ later[k + 1].event = "NEW_PACKET"
      /\ \A i \in 1..(n + 1) : later[i].event = "NEW_PACKET" => i - 1 \in 1..Len(b)
      /\ EndedOf(later) <=> StatusOf(later) = "ended"
    <2>1. later \in Seq(Entries) /\ InOrder(later) /\ Len(later) = n + 1
        BY <1>2, <1>4
    <2>2. (n + 1) - 1 = n
        BY <1>3
    <2>3. StatusOf(later) = "started" => Len(b) = Len(later) - 1
        BY <2>1, <1>6, BetweenFacts
    <2>4. /\ \A k \in 1..Len(b) : /\ k + 1 \in 1..Len(later) /\ b[k] = later[k + 1]
                                 /\ later[k + 1].event = "NEW_PACKET"
          /\ \A i \in 1..Len(later) : later[i].event = "NEW_PACKET" => i - 1 \in 1..Len(b)
          /\ EndedOf(later) <=> StatusOf(later) = "ended"
        BY <2>1, <1>6, BetweenFacts
    <2> QED
        BY <2>1, <2>2, <2>3, <2>4, Zenon
<1>9. EndedOf(later) <=> entry.event = "TRANSMISSION_END"
    BY <1>2, <1>8
<1>10. ~EndedOf(calls)
    BY <1>7
<1>11. CASE entry.event = "TRANSMISSION_START"
    <2>1. n = 0 /\ a = <<>> /\ Len(b) = 0
        BY <1>2, <1>7, <1>8, <1>11
    <2>2. b = a
        BY <2>1
    <2> QED
        BY <2>2, <1>1, <1>5, <1>6, <1>9, <1>10, <1>11
<1>12. CASE entry.event = "NEW_PACKET"
    <2>1. Len(b) = n /\ Len(a) = n - 1 /\ n > 0 /\ n \in 1..n
        BY <1>2, <1>7, <1>8, <1>12
    <2>2. b[n] = entry
        BY <2>1, <1>4, <1>8
    <2>3. \A k \in 1..(n - 1) : b[k] = a[k]
        <3> SUFFICES ASSUME NEW k \in 1..(n - 1) PROVE b[k] = a[k]
            OBVIOUS
        <3>1. k \in 1..Len(b) /\ k \in 1..Len(a)
            BY <2>1
        <3>2. k + 1 \in 1..n
            BY <3>1, <1>7
        <3> QED
            BY <3>1, <3>2, <1>4, <1>7, <1>8
    <2>4. /\ Append(a, entry) \in Seq(Entries) /\ Len(Append(a, entry)) = n
          /\ \A k \in 1..(n - 1) : Append(a, entry)[k] = a[k]
          /\ Append(a, entry)[n] = entry
        BY <2>1, AppendProperties
    <2>5. \A k \in 1..n : k \in 1..(n - 1) \/ k = n
        OBVIOUS
    <2>6. \A k \in 1..Len(b) : b[k] = Append(a, entry)[k]
        BY <2>1, <2>2, <2>3, <2>4, <2>5
    <2>7. b = Append(a, entry)
        BY <2>1, <2>4, <2>6, SeqEqual
    <2> QED
        BY <2>7, <1>1, <1>5, <1>6, <1>9, <1>10, <1>12
<1>13. CASE entry.event = "TRANSMISSION_END"
    <2>1. Len(a) = n - 1 /\ n > 0
        BY <1>7, <1>13
    <2>2. Len(b) = n - 1
        <3>1. ~(n \in 1..Len(b))
            <4>1. later[n + 1].event # "NEW_PACKET"
                BY <1>4, <1>13
            <4> QED
                BY <4>1, <1>8
        <3>2. CASE n = 1
            BY <3>1, <3>2
        <3>3. CASE n > 1
            <4>1. n \in 1..n /\ n \in 1..(n + 1) /\ n # 1
                BY <3>3
            <4>2. later[n].event = "NEW_PACKET"
                <5>1. /\ n - 1 \in 1..Len(a)
                    BY <2>1, <3>3
                <5>2. calls[n].event = "NEW_PACKET"
                    BY <5>1, <1>3, <1>5, BetweenFacts
                <5> QED
                    BY <4>1, <5>2, <1>4
            <4>3. n - 1 \in 1..Len(b)
                BY <4>1, <4>2, <1>8
            <4> QED
                BY <4>3, <3>1
        <3> QED
            BY <3>2, <3>3, <2>1
    <2>3. \A k \in 1..Len(b) : b[k] = a[k]
        <3> SUFFICES ASSUME NEW k \in 1..Len(b) PROVE b[k] = a[k]
            OBVIOUS
        <3>1. k + 1 \in 1..n /\ a[k] = calls[k + 1] /\ b[k] = later[k + 1]
            BY <2>1, <2>2, <1>7, <1>8
        <3> QED
            BY <3>1, <1>4
    <2>4. b = a
        BY <2>1, <2>2, <2>3, SeqEqual
    <2> QED
        BY <2>4, <1>1, <1>5, <1>6, <1>9, <1>10, <1>13
<1> QED
    BY <1>11, <1>12, <1>13 DEF Entries, Events

--------------------------------------------------------------------------------
(* Together the filters implement the network.                               *)

\* How the network sees a sequence of packets that the log filter was told of.
DeliveredOf(a) == [k \in DOMAIN a |-> [packet |-> a[k].number, time |-> a[k].time]]
Deliveries == [packet : Nat, time : Nat]
LEMMA DeliveredSeq ==
    ASSUME NEW a \in Seq(Entries)
    PROVE  /\ DeliveredOf(a) \in Seq(Deliveries) /\ Len(DeliveredOf(a)) = Len(a)
           /\ \A k \in 1..Len(a) :
                  DeliveredOf(a)[k] = [packet |-> a[k].number, time |-> a[k].time]
<1>1. PICK n \in Nat : n = Len(a)
    OBVIOUS
<1>2. DOMAIN a = 1..n /\ \A k \in 1..n : a[k] \in Entries
    BY <1>1
<1>3. \A e \in Entries : [packet |-> e.number, time |-> e.time] \in Deliveries
    BY DEF Entries, Deliveries
<1>4. DeliveredOf(a) = [k \in 1..n |-> [packet |-> a[k].number, time |-> a[k].time]]
    BY <1>2 DEF DeliveredOf
<1>5. DeliveredOf(a) \in [1..n -> Deliveries]
    BY <1>2, <1>3, <1>4
<1>6. DeliveredOf(a) \in Seq(Deliveries) /\ Len(DeliveredOf(a)) = n
    BY <1>5
<1> QED
    BY <1>1, <1>4, <1>6

\* One more packet.
LEMMA DeliveredAppend ==
    ASSUME NEW a \in Seq(Entries), NEW entry \in Entries
    PROVE  DeliveredOf(Append(a, entry)) =
               Append(DeliveredOf(a), [packet |-> entry.number, time |-> entry.time])
<1> DEFINE r == [packet |-> entry.number, time |-> entry.time]
<1>1. PICK n \in Nat : n = Len(a)
    OBVIOUS
<1>2. PICK b \in Seq(Entries) : b = Append(a, entry)
    BY AppendProperties
<1>3. Len(b) = n + 1 /\ b[n + 1] = entry /\ \A k \in 1..n : b[k] = a[k]
    BY <1>1, <1>2, AppendProperties
<1>4. r \in Deliveries
    BY DEF Entries, Deliveries
<1>5. /\ DeliveredOf(a) \in Seq(Deliveries) /\ Len(DeliveredOf(a)) = n
      /\ DeliveredOf(b) \in Seq(Deliveries) /\ Len(DeliveredOf(b)) = n + 1
    BY <1>1, <1>3, DeliveredSeq
<1>6. \A k \in 1..n : DeliveredOf(b)[k] = DeliveredOf(a)[k]
    <2> SUFFICES ASSUME NEW k \in 1..n PROVE DeliveredOf(b)[k] = DeliveredOf(a)[k]
        OBVIOUS
    <2>1. k \in 1..Len(a) /\ k \in 1..Len(b)
        BY <1>1, <1>3
    <2>2. DeliveredOf(a)[k] = [packet |-> a[k].number, time |-> a[k].time]
        BY <2>1, DeliveredSeq
    <2>3. DeliveredOf(b)[k] = [packet |-> b[k].number, time |-> b[k].time]
        BY <2>1, DeliveredSeq
    <2> QED
        BY <2>2, <2>3, <1>3
<1>7. DeliveredOf(b)[n + 1] = r
    <2>1. n + 1 \in 1..Len(b)
        BY <1>3
    <2> QED
        BY <2>1, <1>3, DeliveredSeq
<1> HIDE DEF r
<1>8. /\ Append(DeliveredOf(a), r) \in Seq(Deliveries) /\ Len(Append(DeliveredOf(a), r)) = n + 1
      /\ \A k \in 1..n : Append(DeliveredOf(a), r)[k] = DeliveredOf(a)[k]
      /\ Append(DeliveredOf(a), r)[n + 1] = r
    BY <1>4, <1>5, AppendProperties
<1>9. \A k \in 1..(n + 1) : k \in 1..n \/ k = n + 1
    OBVIOUS
<1>10. \A k \in 1..Len(DeliveredOf(b)) : DeliveredOf(b)[k] = Append(DeliveredOf(a), r)[k]
    BY <1>5, <1>6, <1>7, <1>8, <1>9
<1>11. DeliveredOf(b) = Append(DeliveredOf(a), r)
    BY <1>5, <1>8, <1>10, SeqEqual
<1> QED
    BY <1>2, <1>11 DEF r

\* The deliveries and the end, as the network sees them.
NetworkDelivered == [k \in DOMAIN Arrivals("log") |->
                        [packet |-> Arrivals("log")[k].number, time |-> Arrivals("log")[k].time]]
NetworkEnded ==
    \E k \in DOMAIN received["log"] : received["log"][k].event = "TRANSMISSION_END"

\* The refinement mapping in those terms.
LEMMA NetworkView ==
    /\ NetworkDelivered = DeliveredOf(Between(received["log"]))
    /\ NetworkEnded <=> EndedOf(received["log"])
    /\ NetworkDelivered' = DeliveredOf(Between(received'["log"]))
    /\ NetworkEnded' <=> EndedOf(received'["log"])
    /\ NetworkEnded \in BOOLEAN /\ NetworkEnded' \in BOOLEAN
<1>1. Arrivals("log") = Between(received["log"])
    BY DEF Arrivals, Between, StatusOf, Last
<1>2. Arrivals("log")' = Between(received'["log"])
    BY DEF Arrivals, Between, StatusOf, Last
<1>3. NetworkDelivered = DeliveredOf(Between(received["log"]))
    BY <1>1 DEF NetworkDelivered, DeliveredOf
<1>4. NetworkDelivered' = DeliveredOf(Between(received'["log"]))
    BY <1>2 DEF NetworkDelivered, DeliveredOf
<1> QED
    BY <1>3, <1>4 DEF NetworkEnded, EndedOf

\* A step that tells the log filter nothing that the network sees.
LEMMA NetworkQuiet ==
    ASSUME settings' = settings, source' = source, NetworkDelivered' = NetworkDelivered,
           NetworkEnded' <=> NetworkEnded
    PROVE  UNCHANGED NetworkBetween!vars
<1>1. UNCHANGED <<settings.gamma_max + settings.max_delay,
                  settings.loss_0_1 = 0 /\ settings.loss_rate = 0, source>>
    OBVIOUS
<1>2. UNCHANGED NetworkEnded
    BY NetworkView
<1> QED
    BY <1>1, <1>2 DEF NetworkBetween!vars, NetworkDelivered, NetworkEnded

\* When the source is about to send, every filter is where the source is.
LEMMA RestStatus ==
    ASSUME Phases, stack = <<>>, phase = "started"
    PROVE  ~EndedOf(received["log"])
<1>1. \A f \in Filters : Status[f] = Status[Parent[f]]
    <2>1. \A f \in Filters : ~Pending(stack, f)
        BY DEF Pending
    <2> QED
        BY <2>1 DEF Phases, IsPhases
<1>2. Status["wavfile"] = "started"
    BY Names DEF Status
<1>3. /\ Parent["gamma_delay"] = "wavfile" /\ Parent["uniform_delay"] = "gamma_delay"
      /\ Parent["sort"] = "uniform_delay" /\ Parent["markov_losses"] = "sort"
      /\ Parent["independent_losses"] = "markov_losses" /\ Parent["log"] = "independent_losses"
    BY Names DEF Parent
<1>4. Status["log"] = "started"
    BY <1>1, <1>2, <1>3, Names
<1>5. StatusOf(received["log"]) = "started"
    <2>1. "log" \in Subjects /\ "log" # "wavfile"
        BY Names DEF Subjects
    <2> QED
        BY <2>1, <1>4 DEF Status
<1>6. InOrder(received["log"])
    BY Names DEF Phases
<1> QED
    BY <1>5, <1>6 DEF EndedOf, InOrder, StatusOf

\* The source sends a packet.
LEMMA SendRefines ==
    ASSUME Inv, SourceSend
    PROVE  NetworkBetween!Send
<1>1. /\ source' = source + 1 /\ source < Len(Time) /\ settings' = settings
      /\ received' = received /\ stack = <<>> /\ phase = "started"
    BY DEF SourceSend
<1>2. ~NetworkEnded
    BY <1>1, RestStatus, NetworkView DEF Inv
<1>3. NetworkDelivered' = NetworkDelivered
    BY <1>1, NetworkView
<1>4. UNCHANGED <<settings.gamma_max + settings.max_delay,
                  settings.loss_0_1 = 0 /\ settings.loss_rate = 0, NetworkEnded>>
    BY <1>1 DEF NetworkEnded
<1> QED
    BY <1>1, <1>2, <1>3, <1>4 DEF NetworkBetween!Send, NetworkDelivered, NetworkEnded

\* What the log filter is told, as the network sees it.
LEMMA LogCall ==
    ASSUME Inv, CallMove, Observer(stack) = "log"
    PROVE  /\ Innermost(stack).event = "NEW_PACKET" =>
                  NetworkDelivered' = Append(NetworkDelivered,
                      [packet |-> Innermost(stack).packet.number,
                       time |-> Innermost(stack).packet.time])
           /\ Innermost(stack).event # "NEW_PACKET" => NetworkDelivered' = NetworkDelivered
           /\ NetworkEnded' <=> Innermost(stack).event = "TRANSMISSION_END"
           /\ ~NetworkEnded
<1> DEFINE entry == Entry(Innermost(stack))
           calls == received["log"]
<1>1. Notifying(stack) /\ CallStep
    BY DEF CallMove, CallStep
<1>2. Innermost(stack) \in Loops
    BY <1>1, TopFacts DEF Inv, Shape, Notifying
<1>3. /\ entry \in Entries /\ entry.event = Innermost(stack).event
      /\ entry.number = Innermost(stack).packet.number
      /\ entry.time = Innermost(stack).packet.time
    BY <1>2, EntryTypes DEF Entry
<1>4. calls \in Seq(Entries) /\ InOrder(calls)
    BY Names DEF Inv, Types, Phases
<1>5. /\ received'["log"] = Append(calls, entry)
      /\ Status["log"] = IF entry.event = "TRANSMISSION_START" THEN "none" ELSE "started"
    BY <1>1, <1>3, CallReceived DEF Inv
<1>6. Status["log"] = StatusOf(calls)
    <2>1. "log" \in Subjects /\ "log" # "wavfile"
        BY Names DEF Subjects
    <2> QED
        BY <2>1 DEF Status
<1> HIDE DEF entry, calls
<1>7. /\ entry.event = "NEW_PACKET" =>
             DeliveredOf(Between(Append(calls, entry))) =
                 Append(DeliveredOf(Between(calls)), [packet |-> entry.number, time |-> entry.time])
      /\ entry.event # "NEW_PACKET" =>
             DeliveredOf(Between(Append(calls, entry))) = DeliveredOf(Between(calls))
      /\ EndedOf(Append(calls, entry)) <=> entry.event = "TRANSMISSION_END"
      /\ ~EndedOf(calls)
    <2>1. /\ entry.event = "NEW_PACKET" =>
                 Between(Append(calls, entry)) = Append(Between(calls), entry)
          /\ entry.event # "NEW_PACKET" => Between(Append(calls, entry)) = Between(calls)
          /\ EndedOf(Append(calls, entry)) <=> entry.event = "TRANSMISSION_END"
          /\ ~EndedOf(calls)
        BY <1>3, <1>4, <1>5, <1>6, BetweenAppend
    <2>2. Between(calls) \in Seq(Entries)
        BY <1>4, BetweenFacts
    <2> QED
        BY <2>1, <2>2, <1>3, DeliveredAppend
<1>8. /\ NetworkDelivered = DeliveredOf(Between(calls)) /\ (NetworkEnded <=> EndedOf(calls))
      /\ NetworkDelivered' = DeliveredOf(Between(received'["log"]))
      /\ (NetworkEnded' <=> EndedOf(received'["log"]))
    BY NetworkView DEF calls
<1> QED
    BY <1>3, <1>5, <1>7, <1>8

\* The packets that the network has delivered are those that the log filter was told of.
LEMMA DeliveredSeen ==
    ASSUME Inv, NEW n
    PROVE  NetworkBetween!WasDelivered(n) <=> n \in Seen("log")
<1>1. received["log"] \in Seq(Entries) /\ InOrder(received["log"])
    BY Names DEF Inv, Types, Phases
<1>2. (\E k \in DOMAIN NetworkDelivered : NetworkDelivered[k].packet = n) <=> n \in Seen("log")
    <2>1. PICK a \in Seq(Entries) : a = Between(received["log"])
        BY <1>1, BetweenFacts
    <2>2. NetworkDelivered = DeliveredOf(a)
        BY <2>1, NetworkView
    <2> DEFINE d == DeliveredOf(a)
    <2>3. DOMAIN d = 1..Len(a)
        <3>1. d \in Seq(Deliveries) /\ Len(d) = Len(a)
            BY DeliveredSeq
        <3> HIDE DEF d
        <3> QED
            BY <3>1
    <2>4. ASSUME NEW k \in 1..Len(a) PROVE DeliveredOf(a)[k].packet = a[k].number
        <3>1. DeliveredOf(a)[k] = [packet |-> a[k].number, time |-> a[k].time]
            BY DeliveredSeq
        <3> QED
            BY <3>1
    <2>5. (\E k \in 1..Len(a) : a[k].number = n) <=> n \in Seen("log")
        BY <1>1, <2>1, BetweenSeen DEF Seen
    <2> QED
        BY <2>2, <2>3, <2>4, <2>5
<1> QED
    BY <1>2 DEF NetworkBetween!WasDelivered, NetworkDelivered

\* The log filter is told of a packet: the network delivers it.
LEMMA DeliverRefines ==
    ASSUME Inv, CallMove, Observer(stack) = "log", Innermost(stack).event = "NEW_PACKET"
    PROVE  \E n \in DOMAIN Time, d \in 0..(settings.gamma_max + settings.max_delay) :
               NetworkBetween!Deliver(n, d)
<1> DEFINE n == Innermost(stack).packet.number
           t == Innermost(stack).packet.time
           most == settings.gamma_max + settings.max_delay
<1>1. /\ Notifying(stack) /\ settings' = settings /\ source' = source /\ stack # <<>>
    BY DEF CallMove, CallStep, Notifying
<1>2. /\ Len(stack) \in Nat /\ Len(stack) \in 1..Len(stack) /\ Innermost(stack) = stack[Len(stack)]
      /\ Innermost(stack).packet \in Packets
    BY <1>1, TopIs, TopFacts, TopPacketNew DEF Inv, Shape
<1>3. LoopPacket(Len(stack))
    BY <1>2 DEF Inv, Flow
<1>4. Len(stack) >= 4
    BY <1>1, CallDepth, Levels DEF Inv, Sinks
<1>5. InTime(Innermost(stack).packet, Len(stack)) /\ n <= source
    BY <1>2, <1>3 DEF LoopPacket
<1>6. Bound(Len(stack)) = most
    BY <1>2, <1>4 DEF Bound
<1>7. n \in DOMAIN Time /\ n \in Nat /\ n >= 1 /\ t \in Nat /\ Time[n] \in Nat
    <2>1. n \in 1..Len(Time) /\ t \in Nat
        BY <1>2, PacketTypes
    <2>2. DOMAIN Time = 1..Len(Time) /\ Len(Time) \in Nat /\ \A i \in 1..Len(Time) : Time[i] \in Nat
        BY ChainAssumption
    <2> HIDE DEF n, t
    <2> QED
        BY <2>1, <2>2
<1>8. most \in Nat
    BY SettingTypes DEF Inv, Types
<1>9. Time[n] <= t /\ t <= Time[n] + most
    BY <1>5, <1>6 DEF InTime
<1>10. n \notin Seen("log")
    <2>1. OnWay(stack)
        BY <1>1, CallerOnWay DEF Inv
    <2>2. Fresh(Innermost(stack).packet, Level[Innermost(stack).subject])
        BY <2>1 DEF Inv, Flow
    <2>3. /\ Level["log"] = Level[Innermost(stack).subject] + 1
          /\ Level[Innermost(stack).subject] \in 0..6
        BY <1>1, TopFacts, ObserverFound DEF Inv, Shape, IsSubject
    <2>4. Level["log"] > Level[Innermost(stack).subject]
        BY <2>3
    <2> QED
        BY <2>2, <2>4, Names DEF Fresh
<1>11. /\ NetworkDelivered' = Append(NetworkDelivered, [packet |-> n, time |-> t])
       /\ ~NetworkEnded /\ ~NetworkEnded'
    BY LogCall
<1>12. UNCHANGED <<settings.gamma_max + settings.max_delay,
                   settings.loss_0_1 = 0 /\ settings.loss_rate = 0, source, NetworkEnded>>
    BY <1>1, <1>11, NetworkView
<1>13. n \in 1..source /\ ~NetworkBetween!WasDelivered(n)
    <2>1. source \in Nat
        BY DEF Inv, Types
    <2>2. n \in 1..source
        BY <2>1, <1>5, <1>7
    <2> QED
        BY <2>2, <1>10, DeliveredSeen
<1> HIDE DEF n, t, most
<1>14. PICK d \in 0..most : Time[n] + d = t
    BY <1>7, <1>8, <1>9
<1>15. NetworkBetween!Deliver(n, d)
    BY <1>11, <1>12, <1>13, <1>14 DEF NetworkBetween!Deliver, NetworkDelivered, NetworkEnded, most
<1> QED
    BY <1>7, <1>14, <1>15 DEF most

\* The log filter is told of the end: the network is done, and owes nothing.
LEMMA EndRefines ==
    ASSUME Inv, CallMove, Observer(stack) = "log", Innermost(stack).event = "TRANSMISSION_END"
    PROVE  NetworkBetween!End
<1>1. /\ Notifying(stack) /\ settings' = settings /\ source' = source /\ stack # <<>>
    BY DEF CallMove, CallStep, Notifying
<1>2. /\ Len(stack) \in 1..Len(stack) /\ Innermost(stack) = stack[Len(stack)]
      /\ ~Innermost(stack).draining
    BY <1>1, TopFacts DEF Inv, Shape, Notifying
<1>3. Len(stack) >= 4
    BY <1>1, CallDepth, Levels DEF Inv, Sinks
<1>4. Kept = {}
    <2>1. buffer = <<>>
        BY <1>2, <1>3 DEF Inv, Flushed
    <2> QED
        BY <2>1 DEF Kept, Range
<1>5. ~OnWay(stack)
    BY DEF OnWay
<1>6. Lossless => \A n \in 1..source : NetworkBetween!WasDelivered(n)
    <2>1. Lossless => \A n \in 1..source : n \in Seen("log")
        BY <1>4, <1>5 DEF Inv, Complete
    <2> QED
        BY <2>1, DeliveredSeen
<1>7. NetworkDelivered' = NetworkDelivered /\ ~NetworkEnded /\ NetworkEnded' = TRUE
    <2>1. NetworkDelivered' = NetworkDelivered /\ ~NetworkEnded /\ NetworkEnded'
        BY LogCall
    <2> QED
        BY <2>1, NetworkView
<1>8. UNCHANGED <<settings.gamma_max + settings.max_delay,
                  settings.loss_0_1 = 0 /\ settings.loss_rate = 0, source>>
    BY <1>1
<1> QED
    BY <1>6, <1>7, <1>8 DEF NetworkBetween!End, NetworkDelivered, NetworkEnded, Lossless

\* Every step of the chain is a step of the network, or none.
LEMMA StepRefines ==
    ASSUME Inv, [Next]_vars
    PROVE  [NetworkBetween!Next]_NetworkBetween!vars
<1>1. CASE SourceSend
    BY <1>1, SendRefines DEF NetworkBetween!Next
<1>2. CASE SourceStart \/ SourceEnd \/ EndLoop \/ Drain \/ UNCHANGED vars
    <2>1. settings' = settings /\ source' = source /\ received' = received
        BY <1>2 DEF SourceStart, SourceEnd, EndLoop, Drain, vars
    <2>2. NetworkDelivered' = NetworkDelivered /\ (NetworkEnded' <=> NetworkEnded)
        BY <2>1, NetworkView
    <2>3. UNCHANGED NetworkBetween!vars
        BY <2>1, <2>2, NetworkQuiet
    <2> QED
        BY <2>3
<1>3. CASE CallAction
    <2>1. /\ CallMove /\ CallStep /\ settings' = settings /\ source' = source
        BY <1>3, CallMoves DEF Inv, CallMove, CallStep
    <2>2. CASE Observer(stack) # "log"
        <3>1. received'["log"] = received["log"]
            BY <2>1, <2>2, CallReceived, Names DEF Inv
        <3>2. NetworkDelivered' = NetworkDelivered /\ (NetworkEnded' <=> NetworkEnded)
            BY <3>1, NetworkView
        <3>3. UNCHANGED NetworkBetween!vars
            BY <2>1, <3>2, NetworkQuiet
        <3> QED
            BY <3>3
    <2>3. CASE Observer(stack) = "log" /\ Innermost(stack).event = "NEW_PACKET"
        <3>1. \E n \in DOMAIN Time, d \in 0..(settings.gamma_max + settings.max_delay) :
                  NetworkBetween!Deliver(n, d)
            BY <2>1, <2>3, DeliverRefines
        <3>2. NetworkBetween!Next
            BY <3>1 DEF NetworkBetween!Next
        <3> QED
            BY <3>2
    <2>4. CASE Observer(stack) = "log" /\ Innermost(stack).event = "TRANSMISSION_END"
        BY <2>1, <2>4, EndRefines DEF NetworkBetween!Next
    <2>5. CASE Observer(stack) = "log" /\ Innermost(stack).event = "TRANSMISSION_START"
        <3>1. NetworkDelivered' = NetworkDelivered /\ ~NetworkEnded' /\ ~NetworkEnded
            BY <2>1, <2>5, LogCall
        <3>2. UNCHANGED NetworkBetween!vars
            BY <2>1, <3>1, NetworkQuiet
        <3> QED
            BY <3>2
    <2>6. Innermost(stack).event \in Events
        <3>1. Innermost(stack) \in Loops
            BY <2>1, TopFacts DEF Inv, Shape, Notifying, CallStep
        <3> QED
            BY <3>1 DEF Loops
    <2> QED
        BY <2>2, <2>3, <2>4, <2>5, <2>6 DEF Events
<1> QED
    BY <1>1, <1>2, <1>3, NextActions

\* The network begins with nothing sent.
LEMMA InitRefines ==
    ASSUME Init
    PROVE  NetworkBetween!Init
<1>1. settings \in Settings /\ source = 0 /\ received["log"] = <<>>
    BY Names DEF Init
<1>2. settings.gamma_max + settings.max_delay \in {s.gamma_max + s.max_delay : s \in Settings}
    BY <1>1
<1>3. (settings.loss_0_1 = 0 /\ settings.loss_rate = 0) \in BOOLEAN
    OBVIOUS
<1>4. Arrivals("log") = <<>> /\ DOMAIN received["log"] = {}
    BY <1>1 DEF Arrivals
<1>5. NetworkDelivered = <<>> /\ NetworkEnded = FALSE
    BY <1>4 DEF NetworkDelivered, NetworkEnded
<1> QED
    BY <1>1, <1>2, <1>3, <1>5 DEF NetworkBetween!Init, NetworkDelivered, NetworkEnded

\* The filters together are a network that delays every packet by at most what the delay
\* filters may add, delivers none twice or before it was sent, and keeps none when the
\* transmission ends, unless a filter may lose packets.
THEOREM Emulation == Spec => ImplementsNetwork
<1>1. Inv /\ [Next]_vars => [NetworkBetween!Next]_NetworkBetween!vars
    BY StepRefines
<1> QED
    BY <1>1, InitRefines, Invariance, PTL DEF Spec, ImplementsNetwork, NetworkBetween!Spec

--------------------------------------------------------------------------------
(* Losses come where the Markov chain says.                                  *)

\* A packet is on its way behind the filter f.
At(f) == OnWay(stack) /\ Innermost(stack).subject = f

\* `in' is what the Markov filter was told of, `seen' what it let through; if `pending', the
\* last packet is still on its way to the next filter.  The filter remembers what it did last.
LossesOf(set, in, seen, pending, lost) ==
    /\ pending => in # <<>> /\ ~lost
    /\ ~pending => (lost <=> in # <<>> /\ in[Len(in)].number \notin seen)
    /\ \A i, j \in 1..Len(in) : in[i].number = in[j].number => i = j
    /\ \A k \in 1..Len(in) :
           in[k].number \notin seen /\ (k < Len(in) \/ ~pending) =>
               IF k > 1 /\ in[k - 1].number \notin seen THEN set.loss_1_1 > 0
                                                        ELSE set.loss_0_1 > 0

Losses ==
    /\ LossesOf(settings, Between(received["markov_losses"]), Seen("independent_losses"),
                At("markov_losses"), prev_lost)
    /\ At("markov_losses") =>
           Last(Between(received["markov_losses"])).number = Innermost(stack).packet.number

\* The Markov filter is told of a packet, and loses it or not.
LEMMA LossesMore ==
    ASSUME NEW set, NEW in \in Seq(Entries), NEW q \in Entries, NEW seen, NEW lost \in BOOLEAN,
           NEW later \in BOOLEAN, LossesOf(set, in, seen, FALSE, lost),
           q.number \notin seen, \A k \in 1..Len(in) : in[k].number # q.number,
           later => IF lost THEN set.loss_1_1 > 0 ELSE set.loss_0_1 > 0
    PROVE  LossesOf(set, Append(in, q), seen, ~later, later)
<1>1. PICK n \in Nat : n = Len(in)
    OBVIOUS
<1>2. PICK all \in Seq(Entries) : all = Append(in, q)
    BY AppendProperties
<1>3. Len(all) = n + 1 /\ all[n + 1] = q /\ all # <<>> /\ \A k \in 1..n : all[k] = in[k]
    BY <1>1, <1>2, AppendProperties
<1>4. /\ lost <=> n > 0 /\ in[n].number \notin seen
      /\ \A i, j \in 1..n : in[i].number = in[j].number => i = j
      /\ \A k \in 1..n : in[k].number \notin seen =>
             IF k > 1 /\ in[k - 1].number \notin seen THEN set.loss_1_1 > 0
                                                      ELSE set.loss_0_1 > 0
    BY <1>1 DEF LossesOf
<1>5. \A k \in 1..(n + 1) : k \in 1..n \/ k = n + 1
    OBVIOUS
<1>6. \A i, j \in 1..(n + 1) : all[i].number = all[j].number => i = j
    BY <1>1, <1>3, <1>4, <1>5
<1>7. ASSUME NEW k \in 1..n, in[k].number \notin seen
      PROVE  IF k > 1 /\ all[k - 1].number \notin seen THEN set.loss_1_1 > 0
                                                       ELSE set.loss_0_1 > 0
    <2>1. k > 1 => k - 1 \in 1..n
        OBVIOUS
    <2> QED
        BY <2>1, <1>3, <1>4, <1>7
<1>8. ASSUME later
      PROVE  IF n + 1 > 1 /\ all[n].number \notin seen THEN set.loss_1_1 > 0
                                                       ELSE set.loss_0_1 > 0
    <2>1. n > 0 => all[n] = in[n]
        BY <1>3
    <2>2. n + 1 > 1 <=> n > 0
        OBVIOUS
    <2> QED
        BY <2>1, <2>2, <1>4, <1>8
<1>9. (n + 1) - 1 = n /\ ~(n + 1 < n + 1)
    OBVIOUS
<1>10. ASSUME NEW k \in 1..(n + 1), all[k].number \notin seen, k < n + 1 \/ later
       PROVE  IF k > 1 /\ all[k - 1].number \notin seen THEN set.loss_1_1 > 0
                                                        ELSE set.loss_0_1 > 0
    <2>1. CASE k \in 1..n
        BY <2>1, <1>3, <1>7, <1>10
    <2>2. CASE k = n + 1
        BY <2>2, <1>8, <1>9, <1>10
    <2> QED
        BY <2>1, <2>2, <1>5
<1>11. LossesOf(set, all, seen, ~later, later)
    BY <1>3, <1>6, <1>10 DEF LossesOf
<1> QED
    BY <1>2, <1>11

\* The packet that was on its way reaches the next filter.
LEMMA LossesFound ==
    ASSUME NEW set, NEW in \in Seq(Entries), NEW seen, NEW lost \in BOOLEAN,
           LossesOf(set, in, seen, TRUE, lost)
    PROVE  LossesOf(set, in, seen \cup {in[Len(in)].number}, FALSE, lost)
<1>1. PICK n \in Nat : n = Len(in)
    OBVIOUS
<1>2. /\ n > 0 /\ ~lost
      /\ \A i, j \in 1..n : in[i].number = in[j].number => i = j
      /\ \A k \in 1..n : in[k].number \notin seen /\ k < n =>
             IF k > 1 /\ in[k - 1].number \notin seen THEN set.loss_1_1 > 0
                                                      ELSE set.loss_0_1 > 0
    BY <1>1 DEF LossesOf
<1>3. PICK now : now = seen \cup {in[n].number}
    OBVIOUS
<1>4. ASSUME NEW k \in 1..n, in[k].number \notin now
      PROVE  IF k > 1 /\ in[k - 1].number \notin now THEN set.loss_1_1 > 0
                                                     ELSE set.loss_0_1 > 0
    <2>1. in[k].number \notin seen /\ k # n /\ k < n
        BY <1>3, <1>4
    <2>2. ASSUME k > 1 PROVE in[k - 1].number \notin now <=> in[k - 1].number \notin seen
        <3>1. k - 1 \in 1..n /\ n \in 1..n /\ k - 1 # n
            BY <1>2, <2>2
        <3>2. in[k - 1].number # in[n].number
            BY <3>1, <1>2
        <3> QED
            BY <3>2, <1>3
    <2> QED
        BY <2>1, <2>2, <1>2
<1>5. LossesOf(set, in, now, FALSE, lost)
    BY <1>1, <1>2, <1>3, <1>4 DEF LossesOf
<1> QED
    BY <1>1, <1>3, <1>5

\* A packet is on its way because a filter has just passed it on, or the source has.
LEMMA OnWayCases ==
    ASSUME Shape, Types, Phases, Next, OnWay(stack)'
    PROVE  \/ CallAction /\ Passed(stack, stack') /\ Innermost(stack').subject = callee
              /\ top.event = "NEW_PACKET"
           \/ Drain /\ buffer # <<>> /\ Innermost(stack').subject = "sort"
              /\ Innermost(stack').packet = Head(buffer)
           \/ SourceSend /\ Innermost(stack').subject = "wavfile"
<1>1. OnWay(stack')
    BY DEF OnWay, Innermost
<1>2. CASE CallAction
    <2>1. CallMove /\ top = Innermost(stack) /\ callee = Observer(stack)
        BY <1>2, CallMoves, TopIs
    <2>2. Passed(stack, stack')
        BY <2>1, <1>1, OnWayPassed
    <2>3. Innermost(stack').event = "NEW_PACKET"
        BY <1>1 DEF OnWay
    <2> QED
        BY <1>2, <2>1, <2>2, <2>3 DEF Passed
<1>3. CASE Drain
    <2>1. Innermost(stack).draining /\ stack # <<>>
        BY <1>3, TopIs DEF Drain
    <2>2. Innermost(stack).event = "TRANSMISSION_END"
        BY <2>1, TopFacts DEF Shape, Placed
    <2>3. ASSUME buffer = <<>> PROVE FALSE
        <3>1. Emptied(stack, stack')
            BY <1>3, <2>3, DrainCases
        <3>2. Innermost(stack').event = "TRANSMISSION_END"
            BY <3>1, <2>2 DEF Emptied, SameLoop
        <3> QED
            BY <3>2, <1>1 DEF OnWay
    <2> QED
        BY <1>3, <2>3, DrainCases DEF Released
<1>4. CASE SourceStart \/ SourceEnd
    <2>1. \/ stack' = <<Loop("wavfile", "TRANSMISSION_START", NoPacket)>>
          \/ stack' = <<Loop("wavfile", "TRANSMISSION_END", NoPacket)>>
        BY <1>4 DEF SourceStart, SourceEnd
    <2> QED
        BY <2>1, <1>1 DEF OnWay, Innermost, Loop
<1>5. CASE SourceSend
    <2>1. BeginMove
        BY <1>5, SourceSendMoves
    <2>2. Len(stack') = 1 /\ stack'[1].subject = "wavfile"
        BY <2>1 DEF BeginMove, Begun
    <2> QED
        BY <1>5, <2>2 DEF Innermost
<1> QED
    BY <1>2, <1>3, <1>4, <1>5, EndLoopQuiet, NextActions

\* It goes on to the next filter of the chain at once.
LEMMA AtCases ==
    ASSUME Shape, Types, Phases, Next, NEW f \in Filters, f \notin Sinks, At(f)
    PROVE  CallAction /\ Parent[callee] = f /\ top.event = "NEW_PACKET"
<1>1. stack # <<>> /\ Innermost(stack).subject = f /\ Innermost(stack).event = "NEW_PACKET"
      /\ Innermost(stack).next = 1 /\ top = Innermost(stack) /\ callee = Observer(stack)
    BY TopIs DEF At, OnWay
<1>2. Placed(stack, Len(stack)) /\ Innermost(stack) = stack[Len(stack)] /\ IsSubject(f)
    BY <1>1, TopFacts DEF Shape
<1>3. ~Innermost(stack).draining
    BY <1>1, <1>2 DEF Placed
<1>4. 1 \in DOMAIN observers[f]
    <2>1. CASE f = "independent_losses"
        BY <2>1, <1>2, Observers DEF IsSubject
    <2>2. CASE f # "independent_losses"
        <3>1. \/ f = "gamma_delay" \/ f = "uniform_delay" \/ f = "sort" \/ f = "markov_losses"
            BY <2>2 DEF Filters
        <3>2. Len(chain[f]) = 1
            BY <3>1, Chain
        <3>3. observers[f] = chain[f]
            BY <2>2, Observers DEF Subjects
        <3> QED
            BY <3>2, <3>3, <1>2 DEF IsSubject
    <2> QED
        BY <2>1, <2>2
<1>5. ~EndLoop /\ ~Drain
    BY <1>1, <1>3, <1>4 DEF EndLoop, Drain
<1>6. ~SourceSend /\ ~SourceEnd
    BY <1>1 DEF SourceSend, SourceEnd
<1>7. ~SourceStart
    BY <1>1, AtRest DEF SourceStart
<1>8. CallAction
    BY <1>5, <1>6, <1>7, NextActions
<1>9. Parent[Observer(stack)] = f
    BY <1>8, <1>1, CallMoves, ObserverFound DEF CallMove, CallStep, Shape
<1> QED
    BY <1>1, <1>8, <1>9

\* What a call adds to the packets that the filters have been told of.
LEMMA BetweenCall ==
    ASSUME Shape, Types, Phases, CallStep, NEW f \in Filters
    PROVE  Between(received'[f]) =
               IF f = Observer(stack) /\ Innermost(stack).event = "NEW_PACKET"
               THEN Append(Between(received[f]), Entry(Innermost(stack)))
               ELSE Between(received[f])
<1>1. Innermost(stack) \in Loops
    BY TopFacts DEF Shape, Notifying, CallStep
<1>2. /\ Entry(Innermost(stack)) \in Entries
      /\ Entry(Innermost(stack)).event = Innermost(stack).event
    BY <1>1, EntryTypes
<1>3. received[f] \in Seq(Entries) /\ InOrder(received[f]) /\ f # "wavfile" /\ f \in Subjects
    BY ObserverFacts DEF Types, Phases, IsObserver
<1>4. CASE f = Observer(stack)
    <2>1. /\ received'[f] = Append(received[f], Entry(Innermost(stack)))
          /\ Status[f] = IF Innermost(stack).event = "TRANSMISSION_START" THEN "none"
                                                                          ELSE "started"
        BY <1>4, CallReceived
    <2>2. StatusOf(received[f]) = Status[f]
        BY <1>3 DEF Status
    <2> DEFINE entry == Entry(Innermost(stack))
               calls == received[f]
    <2>3. /\ calls \in Seq(Entries) /\ entry \in Entries /\ InOrder(calls)
          /\ StatusOf(calls) = IF entry.event = "TRANSMISSION_START" THEN "none" ELSE "started"
        BY <2>1, <2>2, <1>2, <1>3
    <2> HIDE DEF entry, calls
    <2>4. /\ entry.event = "NEW_PACKET" =>
                 Between(Append(calls, entry)) = Append(Between(calls), entry)
          /\ entry.event # "NEW_PACKET" => Between(Append(calls, entry)) = Between(calls)
        BY <2>3, BetweenAppend
    <2> QED
        BY <2>1, <2>4, <1>2, <1>4 DEF entry, calls
<1>5. CASE f # Observer(stack)
    BY <1>5, CallReceived
<1> QED
    BY <1>4, <1>5

\* The state of the Markov filter changes only when it is told of a packet.
LEMMA PrevLost ==
    ASSUME Next
    PROVE  prev_lost' = prev_lost \/ LoseMarkov
    BY DEF Next, SourceStart, SourceSend, SourceEnd, Start, End, EndLoop, Delay, LoseMarkov,
           LoseIndependently, Watch, SortNew, SortEnd, Drain, OpenOutput, WriteOutput,
           CloseOutput, WriteWav, Unchanged, Calls

\* The Markov filter is told of a packet.
LEMMA LossesMarkov ==
    ASSUME Inv, Losses, Next, CallAction, callee = "markov_losses", top.event = "NEW_PACKET"
    PROVE  Losses'
<1> DEFINE in == Between(received["markov_losses"])
           seen == Seen("independent_losses")
           q == Entry(Innermost(stack))
<1>1. /\ CallMove /\ CallStep /\ Notifying(stack) /\ top = Innermost(stack)
      /\ callee = Observer(stack) /\ settings' = settings
      /\ Shape /\ Types /\ Phases /\ Flow
    BY CallMoves, TopIs DEF CallMove, CallStep, Inv
<1>2. LoseMarkov
    <2>1. ~(Start \/ End \/ SortEnd \/ OpenOutput \/ CloseOutput)
        BY <1>1, CallFacts DEF Start, End, SortEnd, OpenOutput, CloseOutput
    <2>2. ~(Delay \/ LoseIndependently \/ Watch \/ SortNew \/ WriteOutput \/ WriteWav)
        BY <1>1, CallFacts DEF Delay, LoseIndependently, Watch, SortNew, WriteOutput, WriteWav
    <2> QED
        BY <2>1, <2>2 DEF CallAction
<1>3. PICK draw \in 0..RAND_MAX :
          /\ prev_lost' = Lost(draw, MarkovThreshold)
          /\ IF prev_lost' THEN Return("WR_OK") ELSE Forward(top.packet)
    BY <1>2 DEF LoseMarkov
<1>4. ~At("markov_losses")
    <2>1. Parent["markov_losses"] = "sort"
        BY Names DEF Parent
    <2> QED
        BY <2>1, <1>1, AtCases, Names DEF Sinks
<1>5. At("markov_losses")' <=> ~prev_lost'
    <2>1. CASE prev_lost'
        <3>1. ~Passed(stack, stack')
            BY <2>1, <1>1, <1>3, ReturnDepth
        <3>2. ~OnWay(stack')
            BY <3>1, <1>1, OnWayPassed
        <3> QED
            BY <2>1, <3>2 DEF At, OnWay, Innermost
    <2>2. CASE ~prev_lost'
        <3>1. Len(stack') = Len(stack) + 1
            BY <2>2, <1>1, <1>3, ForwardPacket
        <3>2. Len(stack) \in Nat
            BY DEF Inv, Shape, IsShape
        <3>3. Passed(stack, stack')
            BY <3>1, <3>2, <1>1 DEF CallMove, Returned
        <3>4. OnWay(stack') /\ Innermost(stack').subject = "markov_losses"
            BY <3>3, <1>1, PassedOnWay DEF Sinks, Passed
        <3> QED
            BY <2>2, <3>4 DEF At, OnWay, Innermost
    <2> QED
        BY <2>1, <2>2
<1>6. q \in Entries /\ q.number = top.packet.number
    <2>1. Innermost(stack) \in Loops
        BY <1>1, TopFacts DEF Shape, Notifying
    <2> QED
        BY <2>1, <1>1, EntryTypes DEF Entry
<1>7. in \in Seq(Entries) /\ received["markov_losses"] \in Seq(Entries)
      /\ InOrder(received["markov_losses"])
    <2>1. received["markov_losses"] \in Seq(Entries) /\ InOrder(received["markov_losses"])
        BY <1>1, Names DEF Types, Phases
    <2> QED
        BY <2>1, BetweenFacts
<1>8. q.number \notin seen /\ \A k \in 1..Len(in) : in[k].number # q.number
    <2>1. Fresh(top.packet, Level[top.subject])
        <3>1. OnWay(stack)
            BY <1>1, CallerOnWay DEF Sinks
        <3> QED
            BY <3>1, <1>1 DEF Flow
    <2>2. Level["markov_losses"] = 4 /\ Level["independent_losses"] = 5
          /\ Level[Observer(stack)] = Level[top.subject] + 1 /\ Level[top.subject] \in Int
        BY <1>1, Levels, ObserverFound, TopFacts DEF Shape, Notifying, IsSubject
    <2>3. Level["markov_losses"] > Level[top.subject] /\ Level["independent_losses"] > Level[top.subject]
        BY <2>2, <1>1
    <2>4. q.number \notin Seen("markov_losses") /\ q.number \notin seen
        BY <2>1, <2>3, <1>6, Names DEF Fresh
    <2> QED
        BY <2>4, <1>7, BetweenSeen DEF Seen
<1>9. LossesOf(settings, in, seen, FALSE, prev_lost) /\ prev_lost \in BOOLEAN
    <2>1. At("markov_losses") = FALSE
        BY <1>4 DEF At, OnWay
    <2>2. LossesOf(settings, in, seen, At("markov_losses"), prev_lost)
        BY DEF Losses
    <2>3. prev_lost \in BOOLEAN
        BY <1>1 DEF Types
    <2> QED
        BY <2>1, <2>2, <2>3
<1>10. /\ prev_lost' \in BOOLEAN
       /\ prev_lost' => IF prev_lost THEN settings.loss_1_1 > 0 ELSE settings.loss_0_1 > 0
    <2>1. settings.loss_1_1 \in 0..RAND_MAX /\ settings.loss_0_1 \in 0..RAND_MAX
        BY <1>1, ChainAssumption DEF Types
    <2>2. RAND_MAX \in Nat
        BY ChainAssumption
    <2>3. PICK threshold \in 0..RAND_MAX : threshold = MarkovThreshold
        BY <2>1, <1>9 DEF MarkovThreshold
    <2>4. prev_lost' = (draw < threshold)
        BY <2>3, <1>3 DEF Lost
    <2>5. draw < threshold => threshold > 0
        BY <2>2
    <2>6. prev_lost' \in BOOLEAN
        BY <2>4
    <2>7. prev_lost' => MarkovThreshold > 0
        BY <2>3, <2>4, <2>5
    <2> QED
        BY <2>6, <2>7, <1>9 DEF MarkovThreshold
<1>11. /\ Between(received'["markov_losses"]) = Append(in, q)
       /\ Seen("independent_losses")' = seen
    <2>1. Between(received'["markov_losses"]) = Append(in, q)
        BY <1>1, BetweenCall, Names
    <2>2. Seen("independent_losses")' = seen
        BY <1>1, SeenCall, Names
    <2> QED
        BY <2>1, <2>2
<1> HIDE DEF in, seen, q
<1>12. LossesOf(settings, Append(in, q), seen, ~prev_lost', prev_lost')
    <2>1. PICK later \in BOOLEAN : later <=> prev_lost'
        BY <1>10
    <2>2. later = prev_lost'
        BY <2>1, <1>10
    <2>3. PICK lost \in BOOLEAN : lost = prev_lost
        BY <1>9
    <2>4. PICK set : set = settings
        OBVIOUS
    <2>5. later => IF lost THEN set.loss_1_1 > 0 ELSE set.loss_0_1 > 0
        BY <2>1, <2>3, <2>4, <1>10
    <2>6. LossesOf(set, in, seen, FALSE, lost)
        BY <2>3, <2>4, <1>9
    <2>7. in \in Seq(Entries) /\ q \in Entries
        BY <1>6, <1>7
    <2>8. LossesOf(set, Append(in, q), seen, ~later, later)
        <3>1. q.number \notin seen /\ \A k \in 1..Len(in) : in[k].number # q.number
            BY <1>8
        <3> QED
            BY <2>5, <2>6, <2>7, <3>1, LossesMore, Zenon
    <2> QED
        BY <2>2, <2>4, <2>8, Zenon
<1>13. ASSUME ~prev_lost'
       PROVE  Last(Append(in, q)).number = Innermost(stack').packet.number
    <2>1. Innermost(stack').packet = top.packet
        BY <1>1, <1>3, <1>13, ForwardPacket
    <2>2. Last(Append(in, q)) = q
        BY <1>6, <1>7, AppendProperties DEF Last
    <2> QED
        BY <2>1, <2>2, <1>6
<1>14. LossesOf(settings, Between(received["markov_losses"]), Seen("independent_losses"),
                At("markov_losses"), prev_lost)'
    <2>1. At("markov_losses")' = ~prev_lost'
        <3>1. At("markov_losses")' \in BOOLEAN
            BY DEF At, OnWay
        <3> QED
            BY <3>1, <1>5, <1>10
    <2> QED
        BY <2>1, <1>1, <1>11, <1>12 DEF LossesOf
<1>15. (At("markov_losses") =>
            Last(Between(received["markov_losses"])).number = Innermost(stack).packet.number)'
    BY <1>5, <1>11, <1>13 DEF Innermost
<1> QED
    BY <1>14, <1>15 DEF Losses

\* The packet that the Markov filter let through reaches the next filter.
LEMMA LossesIndependent ==
    ASSUME Inv, Losses, Next, CallAction, callee = "independent_losses", top.event = "NEW_PACKET"
    PROVE  Losses'
<1> DEFINE in == Between(received["markov_losses"])
           seen == Seen("independent_losses")
<1>1. /\ CallMove /\ CallStep /\ Notifying(stack) /\ top = Innermost(stack)
      /\ callee = Observer(stack) /\ settings' = settings
      /\ Shape /\ Types /\ Phases /\ Flow
    BY CallMoves, TopIs DEF CallMove, CallStep, Inv
<1>2. At("markov_losses")
    <2>1. Innermost(stack).subject = "markov_losses"
        <3>1. Parent["independent_losses"] = "markov_losses"
            BY Names DEF Parent
        <3> QED
            BY <3>1, <1>1, ObserverFound DEF Shape
    <2>2. OnWay(stack)
        BY <1>1, CallerOnWay DEF Sinks
    <2> QED
        BY <2>1, <2>2 DEF At
<1>3. ~At("markov_losses")'
    <2>1. OnWay(stack)' => Innermost(stack').subject = callee
        BY <1>1, OnWayPassed DEF OnWay, Innermost, Passed
    <2> QED
        BY <2>1, <1>1 DEF At, OnWay, Innermost
<1>4. prev_lost' = prev_lost
    <2>1. ~LoseMarkov
        BY <1>1, CallFacts DEF LoseMarkov
    <2> QED
        BY <2>1, PrevLost
<1>5. /\ in \in Seq(Entries) /\ prev_lost \in BOOLEAN
    <2>1. received["markov_losses"] \in Seq(Entries) /\ InOrder(received["markov_losses"])
        BY <1>1, Names DEF Types, Phases
    <2> QED
        BY <2>1, <1>1, BetweenFacts DEF Types
<1>6. /\ Between(received'["markov_losses"]) = in
      /\ Seen("independent_losses")' = seen \cup {top.packet.number}
    <2>1. Between(received'["markov_losses"]) = in
        BY <1>1, BetweenCall, Names
    <2>2. Seen("independent_losses")' = seen \cup {top.packet.number}
        BY <1>1, SeenCall, Names
    <2> QED
        BY <2>1, <2>2
<1>7. in[Len(in)].number = top.packet.number
    BY <1>1, <1>2 DEF Losses, Last
<1>8. LossesOf(settings, in, seen, TRUE, prev_lost)
    <2>1. At("markov_losses") = TRUE
        BY <1>2 DEF At, OnWay
    <2> QED
        BY <2>1 DEF Losses
<1> HIDE DEF in, seen
<1>9. LossesOf(settings, in, seen \cup {in[Len(in)].number}, FALSE, prev_lost)
    BY <1>5, <1>8, LossesFound
<1>10. LossesOf(settings, Between(received["markov_losses"]), Seen("independent_losses"),
                At("markov_losses"), prev_lost)'
    <2>1. At("markov_losses")' = FALSE
        BY <1>3 DEF At, OnWay
    <2> QED
        BY <2>1, <1>1, <1>4, <1>6, <1>7, <1>9 DEF LossesOf
<1> QED
    BY <1>3, <1>10 DEF Losses

\* The two filters are told of nothing, and nothing is on its way between them.
LEMMA LossesQuiet ==
    ASSUME Inv, Losses, [Next]_vars,
           ~(CallAction /\ top.event = "NEW_PACKET"
             /\ (callee = "markov_losses" \/ callee = "independent_losses"))
    PROVE  Losses'
<1>1. Shape /\ Types /\ Phases /\ Flow
    BY DEF Inv
<1>2. CASE UNCHANGED vars
    BY <1>2 DEF vars, Losses, At, OnWay, Innermost, Seen, LossesOf
<1>3. CASE Next
    <2>1. ~At("markov_losses")
        <3>1. ASSUME At("markov_losses") PROVE FALSE
            <4>1. CallAction /\ Parent[callee] = "markov_losses" /\ top.event = "NEW_PACKET"
                BY <3>1, <1>1, <1>3, AtCases, Names DEF Sinks
            <4>2. callee \in Filters
                BY <4>1, <1>1, CallMoves, ObserverFound, TopIs DEF CallMove, CallStep, Shape
            <4>3. callee = "independent_losses"
                BY <4>1, <4>2 DEF Parent
            <4> QED
                BY <4>1, <4>3
        <3> QED
            BY <3>1
    <2>2. ~At("markov_losses")'
        <3>1. \/ ~At("markov_losses")'
              \/ OnWay(stack)' /\ Innermost(stack').subject = "markov_losses"
            BY DEF At, OnWay, Innermost
        <3> QED
            BY <3>1, <1>1, <1>3, OnWayCases
    <2>3. prev_lost' = prev_lost
        <3>1. ASSUME LoseMarkov PROVE FALSE
            <4>1. CallAction /\ callee \in {"markov_losses"} /\ top.event = "NEW_PACKET"
                BY <3>1, <1>1, CallFacts DEF CallAction, LoseMarkov
            <4> QED
                BY <4>1
        <3> QED
            BY <3>1, <1>3, PrevLost
    <2>4. /\ settings' = settings
          /\ Between(received'["markov_losses"]) = Between(received["markov_losses"])
          /\ Seen("independent_losses")' = Seen("independent_losses")
        <3>1. CASE CallAction
            <4>1. CallStep /\ top = Innermost(stack) /\ callee = Observer(stack)
                BY <3>1, <1>1, CallMoves, TopIs DEF CallMove
            <4>2. Between(received'["markov_losses"]) = Between(received["markov_losses"])
                BY <4>1, <3>1, <1>1, BetweenCall, Names
            <4>3. Seen("independent_losses")' = Seen("independent_losses")
                BY <4>1, <3>1, <1>1, SeenCall, Names
            <4> QED
                BY <4>1, <4>2, <4>3 DEF CallStep
        <3>2. CASE ~CallAction
            <4>1. RestMove \/ BeginMove
                BY <3>2, <1>1, <1>3, NextActions, DrainMoves, EndLoopMoves, SourceStartMoves,
                   SourceSendMoves, SourceEndMoves
            <4> QED
                BY <4>1 DEF RestMove, BeginMove, Seen
        <3> QED
            BY <3>1, <3>2
    <2>5. LossesOf(settings, Between(received["markov_losses"]), Seen("independent_losses"),
                   At("markov_losses"), prev_lost)'
        <3>1. At("markov_losses") = FALSE /\ At("markov_losses")' = FALSE
            BY <2>1, <2>2 DEF At, OnWay
        <3> QED
            BY <3>1, <2>3, <2>4 DEF LossesOf, Losses
    <2> QED
        BY <2>2, <2>5 DEF Losses
<1> QED
    BY <1>2, <1>3

\* In the beginning nothing has been lost.
LEMMA LossesInit ==
    ASSUME Init
    PROVE  Losses
<1>1. /\ stack = <<>> /\ ~prev_lost /\ settings \in Settings
      /\ received["markov_losses"] = <<>> /\ received["independent_losses"] = <<>>
    BY Names DEF Init
<1>2. At("markov_losses") = FALSE
    BY <1>1 DEF At, OnWay
<1>3. Between(<<>>) = <<>>
    BY DEF Between, StatusOf
<1>4. LossesOf(settings, <<>>, Seen("independent_losses"), FALSE, prev_lost)
    BY <1>1 DEF LossesOf
<1> QED
    BY <1>1, <1>2, <1>3, <1>4 DEF Losses

\* While nothing is on its way, what the Markov filter did not let through it lost.
LEMMA LossesHold ==
    ASSUME Inv, Losses
    PROVE  LossesFollowChain
<1> SUFFICES ASSUME stack = <<>>,
                    NEW k \in DOMAIN Arrivals("markov_losses"),
                    WasLost(Arrivals("markov_losses")[k].number)
             PROVE  IF k > 1 /\ WasLost(Arrivals("markov_losses")[k - 1].number)
                    THEN settings.loss_1_1 > 0 ELSE settings.loss_0_1 > 0
    BY DEF LossesFollowChain
<1>1. \A f \in Filters : /\ Arrivals(f) = Between(received[f])
                         /\ received[f] \in Seq(Entries) /\ InOrder(received[f])
                         /\ Between(received[f]) \in Seq(Entries)
    <2> SUFFICES ASSUME NEW f \in Filters
                 PROVE  /\ Arrivals(f) = Between(received[f])
                        /\ received[f] \in Seq(Entries) /\ InOrder(received[f])
                        /\ Between(received[f]) \in Seq(Entries)
        OBVIOUS
    <2>1. received[f] \in Seq(Entries) /\ InOrder(received[f])
        BY DEF Inv, Types, Phases
    <2>2. Arrivals(f) = Between(received[f])
        BY DEF Arrivals, Between, StatusOf, Last
    <2> QED
        BY <2>1, <2>2, BetweenFacts
<1>2. PICK in \in Seq(Entries) : in = Between(received["markov_losses"])
    BY <1>1, Names
<1>3. Arrivals("markov_losses") = in /\ k \in 1..Len(in)
    BY <1>1, <1>2, Names
<1>4. \A n : WasLost(n) <=> n \notin Seen("independent_losses")
    <2> SUFFICES ASSUME NEW n
                 PROVE  WasLost(n) <=> n \notin Seen("independent_losses")
        OBVIOUS
    <2>1. /\ Arrivals("independent_losses") = Between(received["independent_losses"])
          /\ received["independent_losses"] \in Seq(Entries)
          /\ InOrder(received["independent_losses"])
          /\ DOMAIN Between(received["independent_losses"])
                 = 1..Len(Between(received["independent_losses"]))
        BY <1>1, Names
    <2>2. (\E i \in 1..Len(Between(received["independent_losses"])) :
               Between(received["independent_losses"])[i].number = n)
              <=> n \in Seen("independent_losses")
        BY <2>1, BetweenSeen DEF Seen
    <2> QED
        BY <2>1, <2>2 DEF WasLost
<1>5. LossesOf(settings, in, Seen("independent_losses"), FALSE, prev_lost)
    <2>1. At("markov_losses") = FALSE
        BY DEF At, OnWay
    <2> QED
        BY <2>1, <1>2 DEF Losses
<1> QED
    BY <1>3, <1>4, <1>5 DEF LossesOf

\* Losses of the Markov filter come in bursts only if the configuration allows it.
THEOREM Bursts == Spec => []LossesFollowChain
<1>1. Init => Losses
    BY LossesInit
<1>2. Inv /\ Losses /\ [Next]_vars => Losses'
    <2> SUFFICES ASSUME Inv, Losses, [Next]_vars PROVE Losses'
        OBVIOUS
    <2>1. CASE CallAction /\ callee = "markov_losses" /\ top.event = "NEW_PACKET"
        BY <2>1, LossesMarkov, NextActions
    <2>2. CASE CallAction /\ callee = "independent_losses" /\ top.event = "NEW_PACKET"
        BY <2>2, LossesIndependent, NextActions
    <2> QED
        BY <2>1, <2>2, LossesQuiet
<1>3. Inv /\ Losses => LossesFollowChain
    BY LossesHold
<1> QED
    BY <1>1, <1>2, <1>3, Invariance, PTL DEF Spec


--------------------------------------------------------------------------------
(* Only late packets are overtaken in the sort filter.                       *)

\* Packets that came in before the k-th and are later, and those not before the time t.
Ahead(in, k) == {m \in 1..(k - 1) : in[m].time > in[k].time}
NotBefore(in, t) == {m \in 1..Len(in) : in[m].time >= t}

\* The packet e came in, and came in after more than `size' later ones.
CameIn(in, e) == \E k \in 1..Len(in) : in[k].number = e.number /\ in[k].time = e.time
IsLate(size, in, e) ==
    \E k \in 1..Len(in) : /\ in[k].number = e.number /\ in[k].time = e.time
                          /\ Cardinality(Ahead(in, k)) > size

\* A filter with a buffer of `size' packets was told of `in', let `gone' go, in this order,
\* and keeps `kept'; `open' until the transmission ends.
Orderly(size, in, gone, kept, open) ==
    /\ \A p \in kept : CameIn(in, p)
    /\ open => \A i \in 1..Len(gone) : Cardinality(NotBefore(in, gone[i].time)) > size
    /\ \A i, j \in 1..Len(gone) :
           i < j /\ gone[i].time > gone[j].time => IsLate(size, in, gone[j])
    /\ \A p \in kept : \A i \in 1..Len(gone) : gone[i].time > p.time => IsLate(size, in, p)

InOrderOfTime(b) == \A i, j \in 1..Len(b) : i < j => b[i].time <= b[j].time

\* What left the sort filter, the packet included that it has just let go.
Gone ==
    IF At("sort") THEN Append(Between(received["markov_losses"]), Entry(Innermost(stack)))
                  ELSE Between(received["markov_losses"])

Overtaking ==
    /\ Orderly(settings.buffer_size, Between(received["sort"]), Gone, Kept,
               Status["sort"] # "ended")
    /\ Status["sort"] = "ended" => InOrderOfTime(buffer)
    /\ settings.buffer_size = 0 => Kept = {}

\* Sets of positions are finite.
LEMMA Positions ==
    ASSUME NEW in \in Seq(Entries), NEW t, NEW k \in 1..Len(in)
    PROVE  /\ IsFiniteSet(NotBefore(in, t)) /\ Cardinality(NotBefore(in, t)) \in Nat
           /\ IsFiniteSet(Ahead(in, k)) /\ Cardinality(Ahead(in, k)) \in Nat
<1>1. PICK n \in Nat : n = Len(in)
    OBVIOUS
<1>2. IsFiniteSet(1..n) /\ IsFiniteSet(1..(k - 1))
    BY <1>1, FS_Interval
<1>3. NotBefore(in, t) \in SUBSET (1..n) /\ Ahead(in, k) \in SUBSET (1..(k - 1))
    BY <1>1 DEF NotBefore, Ahead
<1> QED
    BY <1>2, <1>3, FS_Subset, FS_CardinalityType

\* One more packet comes in: those that were late are late.
LEMMA LateLater ==
    ASSUME NEW in \in Seq(Entries), NEW q \in Entries, NEW size \in Nat, NEW e, IsLate(size, in, e)
    PROVE  IsLate(size, Append(in, q), e)
<1>1. PICK n \in Nat : n = Len(in)
    OBVIOUS
<1>2. PICK all \in Seq(Entries) : all = Append(in, q)
    BY AppendProperties
<1>3. Len(all) = n + 1 /\ \A m \in 1..n : all[m] = in[m]
    BY <1>1, <1>2, AppendProperties
<1>4. PICK k \in 1..n : /\ in[k].number = e.number /\ in[k].time = e.time
                        /\ Cardinality(Ahead(in, k)) > size
    BY <1>1 DEF IsLate
<1>5. Ahead(all, k) = Ahead(in, k)
    <2>1. \A m \in 1..(k - 1) : m \in 1..n
        BY <1>4
    <2> QED
        BY <2>1, <1>3 DEF Ahead
<1>6. k \in 1..(n + 1)
    OBVIOUS
<1> QED
    BY <1>2, <1>3, <1>4, <1>5, <1>6 DEF IsLate

\* The company of a packet only grows.
LEMMA CompanyGrows ==
    ASSUME NEW in \in Seq(Entries), NEW q \in Entries, NEW size \in Nat, NEW t,
           Cardinality(NotBefore(in, t)) > size
    PROVE  Cardinality(NotBefore(Append(in, q), t)) > size
<1>1. PICK n \in Nat : n = Len(in)
    OBVIOUS
<1>2. PICK all \in Seq(Entries) : all = Append(in, q)
    BY AppendProperties
<1>3. Len(all) = n + 1 /\ \A m \in 1..n : all[m] = in[m]
    BY <1>1, <1>2, AppendProperties
<1>4. NotBefore(in, t) \in SUBSET NotBefore(all, t)
    BY <1>1, <1>3 DEF NotBefore
<1>5. IsFiniteSet(NotBefore(all, t)) /\ Cardinality(NotBefore(all, t)) \in Nat
    BY <1>3, Positions
<1>6. Cardinality(NotBefore(in, t)) <= Cardinality(NotBefore(all, t))
    BY <1>4, <1>5, FS_Subset
<1>7. Cardinality(NotBefore(in, t)) \in Nat
    BY <1>4, <1>5, FS_Subset, FS_CardinalityType
<1>8. Cardinality(NotBefore(all, t)) > size
    BY <1>5, <1>6, <1>7
<1> QED
    BY <1>2, <1>8

\* A packet is late that comes in behind one that has gone because the buffer was full.
LEMMA LateNow ==
    ASSUME NEW in \in Seq(Entries), NEW q \in Entries, NEW size \in Nat, NEW t \in Nat,
           Cardinality(NotBefore(in, t)) > size, t > q.time
    PROVE  IsLate(size, Append(in, q), q)
<1>1. PICK n \in Nat : n = Len(in)
    OBVIOUS
<1>2. PICK all \in Seq(Entries) : all = Append(in, q)
    BY AppendProperties
<1>3. Len(all) = n + 1 /\ all[n + 1] = q /\ \A m \in 1..n : all[m] = in[m]
    BY <1>1, <1>2, AppendProperties
<1>4. NotBefore(in, t) \in SUBSET Ahead(all, n + 1)
    <2>1. ASSUME NEW m \in 1..n, in[m].time >= t PROVE all[m].time > all[n + 1].time
        <3>1. in[m] \in Entries
            BY <1>1
        <3>2. in[m].time \in Nat /\ q.time \in Nat
            BY <3>1 DEF Entries
        <3> QED
            BY <3>2, <2>1, <1>3
    <2>2. (n + 1) - 1 = n
        OBVIOUS
    <2> QED
        BY <2>1, <2>2, <1>1 DEF NotBefore, Ahead
<1>5. n + 1 \in 1..Len(all)
    BY <1>3
<1>6. IsFiniteSet(Ahead(all, n + 1)) /\ Cardinality(Ahead(all, n + 1)) \in Nat
    BY <1>5, Positions
<1>7. /\ Cardinality(NotBefore(in, t)) <= Cardinality(Ahead(all, n + 1))
      /\ Cardinality(NotBefore(in, t)) \in Nat
    BY <1>4, <1>6, FS_Subset, FS_CardinalityType
<1>8. Cardinality(Ahead(all, n + 1)) > size
    BY <1>6, <1>7
<1> QED
    BY <1>2, <1>3, <1>5, <1>8 DEF IsLate


\* A packet comes in and is kept.
LEMMA OrderlyIn ==
    ASSUME NEW size \in Nat, NEW in \in Seq(Entries), NEW q \in Entries, NEW gone \in Seq(Entries),
           NEW kept, NEW p, p.number = q.number, p.time = q.time,
           Orderly(size, in, gone, kept, TRUE)
    PROVE  Orderly(size, Append(in, q), gone, kept \cup {p}, TRUE)
<1>1. PICK all \in Seq(Entries) : all = Append(in, q)
    BY AppendProperties
<1>2. PICK c \in Nat : c = Len(gone)
    OBVIOUS
<1>3. \A i \in 1..c : gone[i] \in Entries /\ gone[i].time \in Nat
    <2>1. \A i \in 1..c : gone[i] \in Entries
        BY <1>2
    <2> QED
        BY <2>1 DEF Entries
<1>4. \A i \in 1..c : Cardinality(NotBefore(in, gone[i].time)) > size
    BY <1>2 DEF Orderly
<1>5. \A i \in 1..c : Cardinality(NotBefore(all, gone[i].time)) > size
    BY <1>1, <1>4, CompanyGrows
<1>6. \A e : IsLate(size, in, e) => IsLate(size, all, e)
    BY <1>1, LateLater
<1>7. ASSUME NEW r \in kept \cup {p} PROVE CameIn(all, r)
    <2>1. PICK n \in Nat : n = Len(in)
        OBVIOUS
    <2>2. Len(all) = n + 1 /\ all[n + 1] = q /\ \A m \in 1..n : all[m] = in[m]
        BY <1>1, <2>1, AppendProperties
    <2>3. CASE r \in kept
        <3>1. PICK k \in 1..n : in[k].number = r.number /\ in[k].time = r.time
            BY <2>1, <2>3 DEF Orderly, CameIn
        <3>2. k \in 1..(n + 1)
            OBVIOUS
        <3> QED
            BY <3>1, <3>2, <2>2 DEF CameIn
    <2>4. CASE r = p
        <3>1. n + 1 \in 1..(n + 1)
            OBVIOUS
        <3> QED
            BY <3>1, <2>2, <2>4 DEF CameIn
    <2> QED
        BY <2>3, <2>4
<1>8. ASSUME NEW i \in 1..c, NEW j \in 1..c, i < j, gone[i].time > gone[j].time
      PROVE  IsLate(size, all, gone[j])
    BY <1>2, <1>6, <1>8 DEF Orderly
<1>9. ASSUME NEW r \in kept \cup {p}, NEW i \in 1..c, gone[i].time > r.time
      PROVE  IsLate(size, all, r)
    <2>1. CASE r \in kept
        BY <2>1, <1>2, <1>6, <1>9 DEF Orderly
    <2>2. CASE r = p
        <3>1. IsLate(size, all, q)
            BY <2>2, <1>1, <1>3, <1>4, <1>9, LateNow
        <3> QED
            BY <3>1, <2>2 DEF IsLate
    <2> QED
        BY <2>1, <2>2
<1>10. Orderly(size, all, gone, kept \cup {p}, TRUE)
    BY <1>2, <1>5, <1>7, <1>8, <1>9 DEF Orderly
<1> QED
    BY <1>1, <1>10

\* The first packet that is kept goes.
LEMMA OrderlyOut ==
    ASSUME NEW size \in Nat, NEW in \in Seq(Entries), NEW gone \in Seq(Entries), NEW kept,
           NEW open \in BOOLEAN, NEW p \in kept, NEW e \in Entries,
           e.number = p.number, e.time = p.time, NEW left, left \subseteq kept,
           \A r \in kept : r.time \in Nat /\ p.time <= r.time,
           open => Cardinality(NotBefore(in, p.time)) > size,
           Orderly(size, in, gone, kept, open)
    PROVE  Orderly(size, in, Append(gone, e), left, open)
<1>1. PICK c \in Nat : c = Len(gone)
    OBVIOUS
<1>2. PICK all \in Seq(Entries) : all = Append(gone, e)
    BY AppendProperties
<1>3. Len(all) = c + 1 /\ all[c + 1] = e /\ \A m \in 1..c : all[m] = gone[m]
    BY <1>1, <1>2, AppendProperties
<1>4. \A i \in 1..(c + 1) : i \in 1..c \/ i = c + 1
    OBVIOUS
<1>5. /\ \A r \in kept : CameIn(in, r)
      /\ open => \A i \in 1..c : Cardinality(NotBefore(in, gone[i].time)) > size
      /\ \A i, j \in 1..c : i < j /\ gone[i].time > gone[j].time => IsLate(size, in, gone[j])
      /\ \A r \in kept : \A i \in 1..c : gone[i].time > r.time => IsLate(size, in, r)
    BY <1>1 DEF Orderly
<1>6. ASSUME open, NEW i \in 1..(c + 1)
      PROVE  Cardinality(NotBefore(in, all[i].time)) > size
    BY <1>3, <1>4, <1>5, <1>6
<1>7. ASSUME NEW i \in 1..(c + 1), NEW j \in 1..(c + 1), i < j, all[i].time > all[j].time
      PROVE  IsLate(size, in, all[j])
    <2>1. i \in 1..c
        BY <1>7
    <2>2. CASE j \in 1..c
        BY <2>1, <2>2, <1>3, <1>5, <1>7
    <2>3. CASE j = c + 1
        <3>1. IsLate(size, in, p)
            BY <2>1, <2>3, <1>3, <1>5, <1>7
        <3> QED
            BY <3>1, <2>3, <1>3 DEF IsLate
    <2> QED
        BY <2>2, <2>3, <1>4
<1>8. ASSUME NEW r \in left, NEW i \in 1..(c + 1), all[i].time > r.time
      PROVE  IsLate(size, in, r)
    <2>1. r \in kept /\ r.time \in Nat /\ p.time \in Nat /\ p.time <= r.time
        OBVIOUS
    <2>2. i # c + 1
        BY <2>1, <1>3, <1>8
    <2> QED
        BY <2>1, <2>2, <1>3, <1>4, <1>5, <1>8
<1>9. Orderly(size, in, all, left, open)
    BY <1>3, <1>5, <1>6, <1>7, <1>8 DEF Orderly
<1> QED
    BY <1>2, <1>9

\* A full buffer of packets none of which is before the time t.
LEMMA Crowd ==
    ASSUME NEW in \in Seq(Entries), NEW b \in Seq(Packets), Distinct(b), NEW t,
           \A i \in 1..Len(b) : CameIn(in, b[i]) /\ b[i].time >= t
    PROVE  Cardinality(NotBefore(in, t)) >= Len(b)
<1>1. PICK n \in Nat, c \in Nat : n = Len(in) /\ c = Len(b)
    OBVIOUS
<1>2. IsFiniteSet(1..n) /\ Cardinality(1..c) = c
    BY FS_Interval
<1> DEFINE place == [i \in 1..c |-> CHOOSE k \in 1..n : /\ in[k].number = b[i].number
                                                        /\ in[k].time = b[i].time]
<1>3. \A i \in 1..c : /\ place[i] \in 1..n /\ in[place[i]].number = b[i].number
                      /\ in[place[i]].time = b[i].time
    BY <1>1 DEF CameIn
<1>4. place \in [1..c -> NotBefore(in, t)]
    <2>1. \A i \in 1..c : place[i] \in NotBefore(in, t)
        BY <1>1, <1>3 DEF NotBefore
    <2> QED
        BY <2>1
<1>5. \A i, j \in 1..c : place[i] = place[j] => i = j
    BY <1>1, <1>3 DEF Distinct
<1> HIDE DEF place
<1>6. place \in Injection(1..c, NotBefore(in, t))
    BY <1>4, <1>5 DEF Injection, IsInjective
<1>7. IsFiniteSet(NotBefore(in, t)) /\ Cardinality(NotBefore(in, t)) \in Nat
    <2>1. NotBefore(in, t) \in SUBSET (1..n)
        BY <1>1 DEF NotBefore
    <2>2. IsFiniteSet(NotBefore(in, t))
        BY <2>1, <1>2, FS_Subset
    <2> QED
        BY <2>2, FS_CardinalityType
<1>8. Cardinality(1..c) <= Cardinality(NotBefore(in, t))
    BY <1>6, <1>7, FS_Injection
<1> QED
    BY <1>1, <1>2, <1>7, <1>8

\* The first packet of a sorted buffer is the earliest one.
LEMMA FirstGoes ==
    ASSUME NEW b \in Seq(Packets), b # <<>>, InOrderOfTime(b)
    PROVE  /\ \A p \in Range(b) : p.time \in Nat /\ Head(b).time <= p.time
           /\ InOrderOfTime(Tail(b))
<1>1. PICK n \in Nat : n = Len(b) /\ n > 0
    OBVIOUS
<1>2. Head(b) = b[1] /\ \A i \in 1..n : b[i] \in Packets /\ b[i].time \in Nat
    <2>1. \A i \in 1..n : b[i] \in Packets
        BY <1>1
    <2> QED
        BY <2>1, PacketTypes
<1>3. ASSUME NEW i \in 1..n PROVE b[1].time <= b[i].time
    <2>1. 1 \in 1..n
        BY <1>1
    <2>2. i = 1 \/ 1 < i
        OBVIOUS
    <2> QED
        BY <2>1, <2>2, <1>1, <1>2 DEF InOrderOfTime
<1>4. \A p \in Range(b) : \E i \in 1..n : p = b[i]
    BY <1>1, KeptElements
<1>5. Len(Tail(b)) = n - 1 /\ \A i \in 1..(n - 1) : Tail(b)[i] = b[i + 1] /\ i + 1 \in 1..n
    BY <1>1, HeadTypes
<1>6. ASSUME NEW i \in 1..(n - 1), NEW j \in 1..(n - 1), i < j
      PROVE  Tail(b)[i].time <= Tail(b)[j].time
    <2>1. i + 1 < j + 1
        BY <1>6
    <2> QED
        BY <2>1, <1>1, <1>5 DEF InOrderOfTime
<1> QED
    BY <1>2, <1>3, <1>4, <1>5, <1>6 DEF InOrderOfTime

\* The sort filter keeps the packet, or lets the earliest one go if there are too many.
LEMMA SortNewOrder ==
    ASSUME Shape, Types, Distinct(buffer), SortNew, NEW q, q = top.packet,
           \A p \in Kept : p.number # q.number, settings.buffer_size = 0 => Kept = {}
    PROVE  /\ ~Passed(stack, stack') => Kept' = Kept \cup {Copied(q)}
           /\ Passed(stack, stack') =>
                  /\ Kept' \subseteq Kept \cup {Copied(q)}
                  /\ \E p \in Kept \cup {Copied(q)} :
                         /\ Innermost(stack').packet.number = p.number
                         /\ Innermost(stack').packet.time = p.time
                         /\ \A r \in Kept \cup {Copied(q)} : r.time \in Nat /\ p.time <= r.time
                  /\ \E b \in Seq(Packets) :
                         /\ Distinct(b) /\ Range(b) = Kept \cup {Copied(q)}
                         /\ Len(b) > settings.buffer_size
           /\ settings.buffer_size = 0 => Kept' = {}
<1> DEFINE c == Copied(q)
           stored == Append(buffer, c)
<1>1. /\ Notifying(stack) /\ q \in Packets /\ buffer \in Seq(Packets)
      /\ CallMove /\ Len(stack) \in Nat /\ settings.buffer_size \in Nat
    BY CallFacts, TopPacket, SortNewMoves, TopFacts, SettingTypes
       DEF SortNew, Types, Notifying, Shape
<1>2. Len(stack') = Len(stack) + 1 => Passed(stack, stack')
    BY <1>1 DEF CallMove, Returned
<1>3. c \in Packets /\ c.number = q.number /\ c.time = q.time /\ c.time \in Nat
    BY <1>1, PacketTypes DEF Copied, Packets
<1>4. /\ stored \in Seq(Packets) /\ Distinct(stored) /\ stored # <<>>
      /\ Range(stored) = Kept \cup {c}
    BY <1>1, <1>3, BufferAppend DEF Kept
<1>5. CASE settings.buffer_size = 0
    <2>1. Forward(q) /\ buffer' = buffer /\ Kept = {}
        BY <1>5 DEF SortNew
    <2>2. Innermost(stack').packet = q /\ Passed(stack, stack')
        BY <1>1, <1>2, <2>1, ForwardPacket
    <2>3. Len(stored) > 0
        BY <1>4
    <2>4. Kept' = {}
        BY <2>1 DEF Kept
    <2> HIDE DEF stored, c
    <2> QED
        BY <2>1, <2>2, <2>3, <2>4, <1>3, <1>4, <1>5 DEF c
<1> HIDE DEF stored
<1>6. CASE settings.buffer_size # 0
    <2>1. CASE Return("WR_OK") /\ buffer' = stored
        <3>1. ~Passed(stack, stack')
            BY <1>1, <2>1, ReturnDepth
        <3>2. Kept' = Kept \cup {c}
            BY <2>1, <1>4 DEF Kept
        <3> QED
            BY <3>1, <3>2, <1>6
    <2>2. CASE /\ Len(stored) > settings.buffer_size
               /\ \E sorted \in list_sort(stored) : Forward(Head(sorted)) /\ buffer' = Tail(sorted)
        <3>1. PICK sorted \in list_sort(stored) : Forward(Head(sorted)) /\ buffer' = Tail(sorted)
            BY <2>2
        <3>2. /\ sorted \in Seq(Packets) /\ Distinct(sorted) /\ Range(sorted) = Kept \cup {c}
              /\ sorted # <<>>
            BY <1>4, BufferSorted
        <3>3. InOrderOfTime(sorted)
            <4>1. DOMAIN sorted = 1..Len(sorted)
                BY <3>2
            <4> QED
                BY <4>1, <3>1 DEF list_sort, InOrderOfTime
        <3>4. \A r \in Kept \cup {c} : r.time \in Nat /\ Head(sorted).time <= r.time
            BY <3>2, <3>3, FirstGoes
        <3>5. Innermost(stack').packet = Head(sorted) /\ Passed(stack, stack')
            BY <1>1, <1>2, <3>1, ForwardPacket
        <3>6. Head(sorted) \in Kept \cup {c} /\ Kept' \subseteq Kept \cup {c}
            BY <3>1, <3>2, BufferTail DEF Kept
        <3> HIDE DEF c
        <3> QED
            BY <2>2, <3>4, <3>5, <3>6, <1>4, <1>6 DEF c
    <2> QED
        BY <2>1, <2>2, <1>6 DEF SortNew, stored
<1> QED
    BY <1>5, <1>6

\* Only the sort filter changes its buffer.
LEMMA BufferSame ==
    ASSUME Next
    PROVE  buffer' = buffer \/ SortNew \/ SortEnd \/ Drain
    BY DEF Next, SourceStart, SourceSend, SourceEnd, Start, End, EndLoop, Delay, LoseMarkov,
           LoseIndependently, Watch, SortNew, SortEnd, Drain, OpenOutput, WriteOutput,
           CloseOutput, WriteWav, Unchanged, Calls

\* It sorts the buffer when the transmission ends.
LEMMA SortEndOrder ==
    ASSUME Types, SortEnd, Distinct(buffer)
    PROVE  InOrderOfTime(buffer')
<1>1. buffer' \in list_sort(buffer) /\ buffer \in Seq(Packets)
    BY DEF SortEnd, Types
<1>2. DOMAIN buffer' = 1..Len(buffer')
    <2>1. buffer' \in Seq(Packets)
        BY <1>1, SortedList
    <2> QED
        BY <2>1
<1> QED
    BY <1>1, <1>2 DEF list_sort, InOrderOfTime

\* What left the sort filter leaves its way only to reach the next one.
LEMMA GoneSame ==
    ASSUME Inv, Next, ~(CallAction /\ callee = "sort" /\ top.event = "NEW_PACKET"),
           ~(Drain /\ buffer # <<>>)
    PROVE  Gone' = Gone
<1>1. Shape /\ Types /\ Phases /\ Flow
    BY DEF Inv
<1>2. ~At("sort")'
    <2>1. At("sort")' => OnWay(stack)' /\ Innermost(stack').subject = "sort"
        BY DEF At, OnWay, Innermost
    <2> QED
        BY <2>1, <1>1, OnWayCases
<1>3. Gone' = Between(received'["markov_losses"])
    BY <1>2 DEF Gone
<1>4. CASE CallAction
    <2>1. CallStep /\ top = Innermost(stack) /\ callee = Observer(stack) /\ Notifying(stack)
        BY <1>1, <1>4, CallMoves, TopIs DEF CallMove, CallStep
    <2>2. CASE callee = "markov_losses" /\ top.event = "NEW_PACKET"
        <3>1. Innermost(stack).subject = "sort"
            <4>1. Parent["markov_losses"] = "sort"
                BY Names DEF Parent
            <4> QED
                BY <4>1, <2>1, <2>2, <1>1, ObserverFound DEF Shape
        <3>2. At("sort")
            BY <3>1, <2>1, <2>2, <1>1, CallerOnWay DEF At, Sinks
        <3> QED
            BY <3>2, <2>1, <2>2, <1>1, <1>3, BetweenCall, Names DEF Gone
    <2>3. CASE ~(callee = "markov_losses" /\ top.event = "NEW_PACKET")
        <3>1. ~At("sort")
            <4>1. ASSUME At("sort") PROVE FALSE
                <5>1. Parent[callee] = "sort" /\ top.event = "NEW_PACKET"
                    BY <4>1, <1>1, AtCases, Names DEF Sinks
                <5>2. callee \in Filters
                    BY <2>1, <1>1, ObserverFound DEF Shape
                <5> QED
                    BY <5>1, <5>2, <2>3 DEF Parent
            <4> QED
                BY <4>1
        <3>2. Between(received'["markov_losses"]) = Between(received["markov_losses"])
            BY <2>1, <2>3, <1>1, BetweenCall, Names
        <3> QED
            BY <3>1, <3>2, <1>3 DEF Gone
    <2> QED
        BY <2>2, <2>3
<1>5. CASE ~CallAction
    <2>1. RestMove \/ BeginMove
        BY <1>1, <1>5, NextActions, DrainMoves, EndLoopMoves, SourceStartMoves,
           SourceSendMoves, SourceEndMoves
    <2>2. received' = received
        BY <2>1 DEF RestMove, BeginMove
    <2>3. ~At("sort")
        BY <1>1, <1>5, AtCases, Names DEF Sinks
    <2> QED
        BY <2>2, <2>3, <1>3 DEF Gone
<1> QED
    BY <1>4, <1>5


\* The sort filter is told of a packet.
LEMMA OvertakingSort ==
    ASSUME Inv, Overtaking, SortNew
    PROVE  Overtaking'
<1>1. /\ CallMove /\ CallStep /\ Notifying(stack) /\ settings' = settings
      /\ top = Innermost(stack) /\ callee = Observer(stack) /\ callee = "sort"
      /\ top.event = "NEW_PACKET" /\ Shape /\ Types /\ Phases /\ Flow /\ SortNew
      /\ Next /\ CallAction
    BY SortNewMoves, CallFacts, NextActions
       DEF CallMove, CallStep, SortNew, Inv, CallAction
<1>2. PICK size \in Nat : size = settings.buffer_size
    BY <1>1, SettingTypes DEF Types
<1>3. PICK q \in Packets : q = top.packet
    BY <1>1, TopPacketNew DEF Notifying
<1>4. PICK c \in Packets : c = Copied(q) /\ c.number = q.number /\ c.time = q.time
    BY PacketTypes DEF Copied, Packets
<1>5. PICK e \in Entries : e = Entry(Innermost(stack))
    BY <1>1, TopFacts, EntryTypes DEF Shape, Notifying
<1>6. e.number = c.number /\ e.time = c.time
    BY <1>1, <1>3, <1>4, <1>5 DEF Entry
<1>7. \A f \in Filters : Between(received[f]) \in Seq(Entries)
    BY <1>1, BetweenFacts DEF Types, Phases
<1>8. PICK in \in Seq(Entries) : in = Between(received["sort"])
    BY <1>7, Names
<1>9. PICK gone \in Seq(Entries) : gone = Between(received["markov_losses"])
    BY <1>7, Names
<1>10. PICK kept : kept = Kept
    OBVIOUS
<1>11. Gone = gone
    <2>1. Parent["sort"] = "uniform_delay"
        BY Names DEF Parent
    <2>2. ~At("sort")
        BY <2>1, <1>1, AtCases, Names DEF Sinks
    <2> QED
        BY <2>2, <1>9 DEF Gone
<1>12. Status["sort"] = "started" /\ Status'["sort"] = "started"
    BY <1>1, CallReceived, Names DEF Tells
<1>13. Orderly(size, in, gone, kept, TRUE)
    <2>1. (Status["sort"] # "ended") = TRUE
        BY <1>12
    <2> QED
        BY <2>1, <1>2, <1>8, <1>10, <1>11 DEF Overtaking
<1>14. PICK all \in Seq(Entries) : all = Append(in, e)
    BY AppendProperties
<1>15. Orderly(size, all, gone, kept \cup {c}, TRUE)
    BY <1>6, <1>13, <1>14, OrderlyIn
<1>16. Between(received'["sort"]) = all /\ Between(received'["markov_losses"]) = gone
    BY <1>1, <1>5, <1>8, <1>9, <1>14, BetweenCall, Names
<1>17. \A p \in Kept : p.number # q.number
    <2>1. OnWay(stack)
        BY <1>1, CallerOnWay, Names DEF Sinks
    <2> QED
        BY <2>1, <1>1, <1>3 DEF Flow
<1>18. /\ ~Passed(stack, stack') => Kept' = kept \cup {c}
       /\ Passed(stack, stack') =>
              /\ Kept' \subseteq kept \cup {c}
              /\ \E p \in kept \cup {c} :
                     /\ Innermost(stack').packet.number = p.number
                     /\ Innermost(stack').packet.time = p.time
                     /\ \A r \in kept \cup {c} : r.time \in Nat /\ p.time <= r.time
              /\ \E b \in Seq(Packets) :
                     /\ Distinct(b) /\ Range(b) = kept \cup {c} /\ Len(b) > size
       /\ size = 0 => Kept' = {}
    BY <1>1, <1>2, <1>3, <1>4, <1>10, <1>17, SortNewOrder DEF Flow, Overtaking
<1>19. Orderly(size, all, Gone', Kept', TRUE)
    <2>1. CASE ~Passed(stack, stack')
        <3>1. ~OnWay(stack')
            BY <2>1, <1>1, OnWayPassed
        <3>2. Gone' = gone
            BY <3>1, <1>16 DEF Gone, At, OnWay, Innermost
        <3> QED
            BY <3>2, <2>1, <1>15, <1>18
    <2>2. CASE Passed(stack, stack')
        <3>1. PICK p \in kept \cup {c} :
                  /\ Innermost(stack').packet.number = p.number
                  /\ Innermost(stack').packet.time = p.time
                  /\ \A r \in kept \cup {c} : r.time \in Nat /\ p.time <= r.time
            BY <2>2, <1>18
        <3>2. PICK b \in Seq(Packets) :
                  Distinct(b) /\ Range(b) = kept \cup {c} /\ Len(b) > size
            BY <2>2, <1>18
        <3>3. OnWay(stack') /\ Innermost(stack').subject = "sort"
            BY <2>2, <1>1, PassedOnWay DEF Sinks, Passed
        <3>4. Innermost(stack') \in Loops
            BY <3>3, <2>2 DEF Passed, Innermost, OnWay
        <3>5. PICK out \in Entries : out = Entry(Innermost(stack'))
            BY <3>4, EntryTypes
        <3>6. out.number = p.number /\ out.time = p.time
            BY <3>1, <3>5 DEF Entry
        <3>7. Gone' = Append(gone, out)
            BY <3>3, <3>5, <1>16 DEF Gone, At, OnWay, Innermost, Entry
        <3>8. Cardinality(NotBefore(all, p.time)) > size
            <4>1. \A i \in 1..Len(b) : CameIn(all, b[i]) /\ b[i].time >= p.time
                <5>1. \A i \in 1..Len(b) : b[i] \in kept \cup {c}
                    BY <3>2, KeptElements
                <5> QED
                    BY <5>1, <3>1, <1>15 DEF Orderly
            <4>2. Cardinality(NotBefore(all, p.time)) >= Len(b)
                BY <4>1, <3>2, Crowd
            <4>3. Len(b) \in Nat
                BY <3>2
            <4>4. Len(b) > size
                BY <3>2
            <4>5. Len(b) > 0
                BY <4>3, <4>4
            <4>6. 1 \in 1..Len(all)
                <5>1. 1 \in 1..Len(b)
                    BY <4>3, <4>5
                <5>2. CameIn(all, b[1])
                    BY <5>1, <4>1
                <5>3. PICK n \in Nat : n = Len(all)
                    OBVIOUS
                <5>4. \E k \in 1..n : TRUE
                    BY <5>2, <5>3 DEF CameIn
                <5> QED
                    BY <5>3, <5>4
            <4>7. Cardinality(NotBefore(all, p.time)) \in Nat
                BY <4>6, Positions
            <4> QED
                BY <4>2, <4>3, <4>4, <4>7
        <3>9. Kept' \subseteq kept \cup {c}
            BY <2>2, <1>18
        <3>10. PICK left : left = Kept'
            OBVIOUS
        <3>11. PICK now : now = kept \cup {c}
            OBVIOUS
        <3>12. Orderly(size, all, Append(gone, out), left, TRUE)
            <4>1. left \subseteq now /\ p \in now
                BY <3>1, <3>9, <3>10, <3>11
            <4>2. \A r \in now : r.time \in Nat /\ p.time <= r.time
                BY <3>1, <3>11
            <4>3. Orderly(size, all, gone, now, TRUE)
                BY <3>11, <1>15
            <4> QED
                BY <4>1, <4>2, <4>3, <3>6, <3>8, OrderlyOut
        <3> QED
            BY <3>7, <3>10, <3>12
    <2> QED
        BY <2>1, <2>2
<1>20. Orderly(settings.buffer_size, Between(received["sort"]), Gone, Kept,
               Status["sort"] # "ended")'
    <2>1. (Status'["sort"] # "ended") = TRUE
        BY <1>12
    <2> QED
        BY <2>1, <1>1, <1>2, <1>16, <1>19
<1> QED
    BY <1>1, <1>2, <1>12, <1>18, <1>20 DEF Overtaking

\* The sort filter lets the next packet go at the end.
LEMMA OvertakingDrain ==
    ASSUME Inv, Overtaking, Drain, buffer # <<>>
    PROVE  Overtaking'
<1>1. Shape /\ Types /\ Phases
    BY DEF Inv
<1>2. /\ Released(stack, stack') /\ Innermost(stack').packet = Head(buffer)
      /\ buffer' = Tail(buffer) /\ RestMove
    BY <1>1, DrainCases
<1>3. settings' = settings /\ received' = received
    BY <1>2 DEF RestMove
<1>4. Innermost(stack).draining /\ Status["sort"] = "ended"
      /\ Innermost(stack).event = "TRANSMISSION_END"
    BY <1>1, <1>2, DrainingStatus DEF Released, Innermost, Shape, Phases
<1>5. Status'["sort"] = "ended"
    BY <1>3, <1>4, Names DEF Status
<1>6. ~At("sort")
    BY <1>4 DEF At, OnWay
<1>7. OnWay(stack') /\ Innermost(stack').subject = "sort" /\ Innermost(stack') \in Loops
    <2>1. Len(stack) \in Nat /\ Len(stack') = Len(stack) + 1 /\ stack' \in Seq(Loops)
        BY <1>1, <1>2 DEF Released, Shape, IsShape
    <2>2. stack' # <<>> /\ Innermost(stack') \in Loops
        BY <2>1 DEF Innermost
    <2> QED
        BY <2>2, <1>2 DEF Released, OnWay, Sinks
<1>8. PICK out \in Entries : out = Entry(Innermost(stack'))
    BY <1>7, EntryTypes
<1>9. PICK b \in Seq(Packets) : b = buffer /\ b # <<>>
    BY <1>1 DEF Types
<1>10. out.number = Head(b).number /\ out.time = Head(b).time
    BY <1>2, <1>8, <1>9 DEF Entry
<1>11. Distinct(b) /\ InOrderOfTime(b) /\ Kept = Range(b)
    BY <1>4, <1>9 DEF Inv, Flow, Overtaking, Kept
<1>12. /\ \A p \in Range(b) : p.time \in Nat /\ Head(b).time <= p.time
       /\ InOrderOfTime(Tail(b))
    BY <1>9, <1>11, FirstGoes
<1>13. Head(b) \in Range(b) /\ Range(Tail(b)) \subseteq Range(b)
    BY <1>9, <1>11, BufferTail
<1>14. \A f \in Filters : Between(received[f]) \in Seq(Entries)
    BY <1>1, BetweenFacts DEF Types, Phases
<1>15. PICK in \in Seq(Entries) : in = Between(received["sort"])
    BY <1>14, Names
<1>16. PICK gone \in Seq(Entries) : gone = Between(received["markov_losses"])
    BY <1>14, Names
<1>17. PICK size \in Nat : size = settings.buffer_size
    BY <1>1, SettingTypes DEF Types
<1>18. (Status["sort"] # "ended") = FALSE /\ (Status'["sort"] # "ended") = FALSE
    BY <1>4, <1>5
<1>19. Orderly(size, in, gone, Range(b), FALSE)
    BY <1>6, <1>11, <1>15, <1>16, <1>17, <1>18 DEF Overtaking, Gone
<1>20. Orderly(size, in, Append(gone, out), Range(Tail(b)), FALSE)
    <2>1. PICK p, kept, left : p = Head(b) /\ kept = Range(b) /\ left = Range(Tail(b))
        OBVIOUS
    <2>2. Orderly(size, in, Append(gone, out), left, FALSE)
        BY <2>1, <1>10, <1>12, <1>13, <1>19, OrderlyOut
    <2> QED
        BY <2>1, <2>2
<1>21. Gone' = Append(gone, out) /\ Kept' = Range(Tail(b))
    BY <1>2, <1>3, <1>7, <1>8, <1>9, <1>16 DEF Gone, Kept, At, OnWay, Innermost, Entry
<1>22. Orderly(settings.buffer_size, Between(received["sort"]), Gone, Kept,
               Status["sort"] # "ended")'
    BY <1>3, <1>15, <1>17, <1>18, <1>20, <1>21
<1>23. settings.buffer_size # 0
    BY <1>11, <1>13 DEF Overtaking
<1> QED
    BY <1>2, <1>3, <1>9, <1>12, <1>22, <1>23 DEF Overtaking


\* The sort filter is told of no packet and lets none go.
LEMMA OvertakingQuiet ==
    ASSUME Inv, Overtaking, Next, ~(CallAction /\ callee = "sort" /\ top.event = "NEW_PACKET"),
           ~(Drain /\ buffer # <<>>)
    PROVE  Overtaking'
<1>1. Shape /\ Types /\ Phases /\ Flow
    BY DEF Inv
<1>2. ~SortNew
    <2>1. SortNew => CallAction /\ callee \in {"sort"} /\ top.event = "NEW_PACKET"
        BY <1>1, CallFacts DEF CallAction, SortNew
    <2> QED
        BY <2>1
<1>3. Gone' = Gone
    BY GoneSame
<1>4. settings' = settings /\ Between(received'["sort"]) = Between(received["sort"])
    <2>1. CASE CallAction
        <3>1. CallStep /\ top = Innermost(stack) /\ callee = Observer(stack)
            BY <2>1, <1>1, CallMoves, TopIs DEF CallMove
        <3> QED
            BY <3>1, <2>1, <1>1, BetweenCall, Names DEF CallStep
    <2>2. CASE ~CallAction
        <3>1. RestMove \/ BeginMove
            BY <2>2, <1>1, NextActions, DrainMoves, EndLoopMoves, SourceStartMoves,
               SourceSendMoves, SourceEndMoves
        <3> QED
            BY <3>1 DEF RestMove, BeginMove
    <2> QED
        BY <2>1, <2>2
<1>5. Status["sort"] = "ended" => Status'["sort"] = "ended" /\ ~SortEnd
    <2>1. CASE CallAction
        <3>1. CallStep /\ callee = Observer(stack)
            BY <2>1, <1>1, CallMoves, TopIs DEF CallMove
        <3>2. Status[callee] # "ended"
            BY <3>1, <1>1, CallReceived
        <3>3. \A f \in Filters : f # callee => Status'[f] = Status[f]
            BY <3>1, <1>1, CallReceived, ObserverFacts DEF Tells, IsObserver
        <3>4. SortEnd => callee \in {"sort"}
            BY <1>1, CallFacts DEF SortEnd
        <3> QED
            BY <3>2, <3>3, <3>4, Names
    <2>2. CASE ~CallAction
        <3>1. RestMove \/ BeginMove
            BY <2>2, <1>1, NextActions, DrainMoves, EndLoopMoves, SourceStartMoves,
               SourceSendMoves, SourceEndMoves
        <3>2. received' = received
            BY <3>1 DEF RestMove, BeginMove
        <3> QED
            BY <3>2, <2>2, Names DEF Status, CallAction
    <2> QED
        BY <2>1, <2>2
<1>6. CASE SortEnd
    <2>1. Kept' = Kept
        <3>1. top.event # "NEW_PACKET"
            BY <1>1, <1>6, CallFacts DEF SortEnd
        <3> QED
            BY <3>1, <1>1, <1>6, EventCalls DEF CallAction, Flow
    <2>2. InOrderOfTime(buffer')
        BY <1>1, <1>6, SortEndOrder DEF Flow
    <2>3. (Status["sort"] # "ended") = TRUE
        BY <1>5, <1>6
    <2>4. PICK size, in, gone, kept :
              /\ size = settings.buffer_size /\ in = Between(received["sort"])
              /\ gone = Gone /\ kept = Kept
        OBVIOUS
    <2>5. Orderly(size, in, gone, kept, TRUE)
        BY <2>3, <2>4 DEF Overtaking
    <2>6. Orderly(size, in, gone, kept, Status'["sort"] # "ended")
        BY <2>5 DEF Orderly
    <2>7. Orderly(settings.buffer_size, Between(received["sort"]), Gone, Kept,
                  Status["sort"] # "ended")'
        BY <2>1, <2>4, <2>6, <1>3, <1>4
    <2> QED
        BY <2>1, <2>2, <2>7, <1>4 DEF Overtaking
<1>7. CASE ~SortEnd
    <2>1. buffer' = buffer
        BY <1>1, <1>2, <1>7, BufferSame, DrainCases
    <2>2. Kept' = Kept
        BY <2>1 DEF Kept
    <2>3. Status'["sort"] = "ended" => Status["sort"] = "ended"
        <3>1. CASE CallAction
            <4>1. CallStep /\ callee = Observer(stack) /\ top = Innermost(stack)
                BY <3>1, <1>1, CallMoves, TopIs DEF CallMove
            <4>2. \A f \in Filters : f # callee => Status'[f] = Status[f]
                BY <4>1, <1>1, CallReceived, ObserverFacts DEF Tells, IsObserver
            <4>3. callee = "sort" => top.event # "TRANSMISSION_END"
                BY <3>1, <1>1, <1>7, SortActions
            <4>4. callee = "sort" => Status'["sort"] = "started"
                BY <4>1, <4>3, <1>1, CallReceived DEF Tells
            <4> QED
                BY <4>2, <4>4, Names
        <3>2. CASE ~CallAction
            <4>1. RestMove \/ BeginMove
                BY <3>2, <1>1, NextActions, DrainMoves, EndLoopMoves, SourceStartMoves,
                   SourceSendMoves, SourceEndMoves
            <4>2. received' = received
                BY <4>1 DEF RestMove, BeginMove
            <4> QED
                BY <4>2, Names DEF Status
        <3> QED
            BY <3>1, <3>2
    <2>4. (Status'["sort"] # "ended") = (Status["sort"] # "ended")
        BY <2>3, <1>5
    <2>5. Orderly(settings.buffer_size, Between(received["sort"]), Gone, Kept,
                  Status["sort"] # "ended")'
        BY <2>2, <2>4, <1>3, <1>4 DEF Overtaking
    <2> QED
        BY <2>1, <2>2, <2>3, <2>5, <1>4 DEF Overtaking
<1> QED
    BY <1>6, <1>7

\* In the beginning nothing has come in.
LEMMA OvertakingInit ==
    ASSUME Init
    PROVE  Overtaking
<1>1. /\ stack = <<>> /\ buffer = <<>>
      /\ received["markov_losses"] = <<>> /\ received["sort"] = <<>>
    BY Names DEF Init
<1>2. Between(<<>>) = <<>>
    BY DEF Between, StatusOf
<1>3. Gone = <<>>
    BY <1>1, <1>2 DEF Gone, At, OnWay
<1>4. Kept = {}
    BY <1>1 DEF Kept, Range
<1>5. Status["sort"] = "none"
    BY <1>1, Names DEF Status, StatusOf
<1>6. Orderly(settings.buffer_size, <<>>, <<>>, {}, TRUE)
    BY DEF Orderly
<1> QED
    BY <1>1, <1>2, <1>3, <1>4, <1>5, <1>6 DEF Overtaking

\* What came in and out of the sort filter, as the property has it.
OvertakesLate(size, in, out) ==
    \A i, j \in DOMAIN out : i < j /\ out[i].time > out[j].time =>
        \E k \in DOMAIN in :
            /\ in[k].number = out[j].number
            /\ Cardinality({m \in 1..(k - 1) : in[m].time > in[k].time}) > size

\* What left the sort filter includes what the next one was told of.
LEMMA OvertakingHolds ==
    ASSUME Inv, Overtaking
    PROVE  OnlyLatePacketsOvertaken
<1>1. \A f \in Filters : /\ Arrivals(f) = Between(received[f])
                         /\ Between(received[f]) \in Seq(Entries)
    <2> SUFFICES ASSUME NEW f \in Filters
                 PROVE  /\ Arrivals(f) = Between(received[f])
                        /\ Between(received[f]) \in Seq(Entries)
        OBVIOUS
    <2>1. received[f] \in Seq(Entries) /\ InOrder(received[f])
        BY DEF Inv, Types, Phases
    <2>2. Arrivals(f) = Between(received[f])
        BY DEF Arrivals, Between, StatusOf, Last
    <2> QED
        BY <2>1, <2>2, BetweenFacts
<1>2. PICK in \in Seq(Entries) : in = Between(received["sort"])
    BY <1>1, Names
<1>3. PICK out \in Seq(Entries) : out = Between(received["markov_losses"])
    BY <1>1, Names
<1>4. Arrivals("sort") = in /\ Arrivals("markov_losses") = out
    BY <1>1, <1>2, <1>3, Names
<1>5. ASSUME NEW i \in DOMAIN out, NEW j \in DOMAIN out, i < j, out[i].time > out[j].time
      PROVE  IsLate(settings.buffer_size, in, out[j])
    <2>1. PICK gone : gone = Gone
        OBVIOUS
    <2>2. PICK n \in Nat : n = Len(out)
        OBVIOUS
    <2>3. i \in 1..n /\ j \in 1..n
        BY <2>2
    <2>4. \A k \in 1..n : k \in 1..Len(gone) /\ gone[k] = out[k]
        <3>1. CASE At("sort")
            <4>1. Innermost(stack) \in Loops
                BY <3>1, TopFacts DEF At, OnWay, Inv, Shape
            <4>2. Entry(Innermost(stack)) \in Entries
                BY <4>1, EntryTypes
            <4> QED
                BY <4>2, <3>1, <2>1, <2>2, <1>3, AppendProperties DEF Gone
        <3>2. CASE ~At("sort")
            BY <3>2, <2>1, <2>2, <1>3 DEF Gone
        <3> QED
            BY <3>1, <3>2
    <2>5. \A k, m \in 1..Len(gone) : k < m /\ gone[k].time > gone[m].time
              => IsLate(settings.buffer_size, in, gone[m])
        BY <2>1, <1>2 DEF Overtaking, Orderly
    <2> QED
        BY <2>3, <2>4, <2>5, <1>5
<1>6. ASSUME NEW j \in DOMAIN out, IsLate(settings.buffer_size, in, out[j])
      PROVE  \E k \in DOMAIN in :
                 /\ in[k].number = out[j].number
                 /\ Cardinality({m \in 1..(k - 1) : in[m].time > in[k].time})
                        > settings.buffer_size
    <2>1. DOMAIN in = 1..Len(in)
        OBVIOUS
    <2> QED
        BY <2>1, <1>6 DEF IsLate, Ahead
<1>7. OvertakesLate(settings.buffer_size, in, out)
    BY <1>5, <1>6 DEF OvertakesLate
<1>8. OvertakesLate(settings.buffer_size, Arrivals("sort"), Arrivals("markov_losses"))
    BY <1>4, <1>7
<1> QED
    BY <1>8 DEF OnlyLatePacketsOvertaken, OvertakesLate

\* The sort filter lets a packet out behind a later one only if it came in too late.
THEOREM OnlyLateOvertaken == Spec => []OnlyLatePacketsOvertaken
<1>1. Init => Overtaking
    BY OvertakingInit
<1>2. Inv /\ Overtaking /\ [Next]_vars => Overtaking'
    <2> SUFFICES ASSUME Inv, Overtaking, [Next]_vars PROVE Overtaking'
        OBVIOUS
    <2>1. CASE UNCHANGED vars
        <3>1. /\ settings' = settings /\ received' = received /\ buffer' = buffer
              /\ stack' = stack /\ phase' = phase
            BY <2>1 DEF vars
        <3>2. Gone' = Gone /\ Kept' = Kept
            BY <3>1 DEF Gone, Kept, At, OnWay, Innermost, Entry
        <3>3. Status' = Status
            BY <3>1 DEF Status
        <3> QED
            BY <3>1, <3>2, <3>3 DEF Overtaking
    <2>2. CASE Next /\ CallAction /\ callee = "sort" /\ top.event = "NEW_PACKET"
        BY <2>2, SortActions, OvertakingSort DEF Inv
    <2>3. CASE Drain /\ buffer # <<>>
        BY <2>3, OvertakingDrain
    <2> QED
        BY <2>1, <2>2, <2>3, OvertakingQuiet
<1>3. Inv /\ Overtaking => OnlyLatePacketsOvertaken
    BY OvertakingHolds
<1> QED
    BY <1>1, <1>2, <1>3, Invariance, PTL DEF Spec


================================================================================
