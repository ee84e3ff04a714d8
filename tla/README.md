# wav2rtp in TLA+

wav2rtp encodes a WAV file with one or several codecs, sends the resulting RTP
packets through a chain of filters that emulate a network (delays, reordering,
losses) and writes what is left to a capture file, a decoded WAV file, a SIPp
scenario and a log.  This directory holds TLA+ models of its parts, the TLC
configurations that check them on small instances, and TLAPS proofs of the
properties that matter most for every value of the constants.

Paths below are relative to the repository: `src/sort_filter.c:40-45` is lines
40 to 45 of `src/sort_filter.c`.

## 1. Inventory

The program is one thread.  `main` (`src/wav2rtp.c:76-148`) reads the options,
seeds two random generators, links the filters and calls
`wr_wavfile_filter_start`, which returns when the whole file was sent.  Filters
talk through one function, `wr_rtp_filter_notify_observers`
(`src/rtpapi.c:160-179`): a synchronous call of every observer's `notify` with
an event (`TRANSMISSION_START`, `NEW_PACKET`, `TRANSMISSION_END`) and a pointer
to a packet.  Errors of an observer are printed and otherwise ignored.

    wavfile -> gamma_delay -> uniform_delay -> sort -> markov_losses
            -> independent_losses -> { log, pcap | rtpdump, wavfile_output, sipp }

| component | state | operations | what is hard | what makes it correct |
|---|---|---|---|---|
| WAV source `src/wavfile_filter.c` | read position, current codec, packet under construction, sequence number, RTP timestamp, start and end time, frames in the packet, iterator inside the codec list | start: read a buffer, encode, add a frame, send; flush, rewind and next codec at the end of the file | two places that send and advance four counters; last short buffer; codec switch; list iterator shared with the SIPp filter | one START, packets, one END; every sample once per codec; numbers, RTP time and departure time in step; termination |
| packets and filters `src/rtpapi.c` | packet fields and the list of data frames; observers of a filter | init, copy (shares frames), copy with data, destroy, add frame; append and notify observers | frames shared between copies, destroyed by whom and when; observers that fail | no frame used after it is freed, none freed twice, none leaked |
| sort filter `src/sort_filter.c` | list of deep copies, buffer size, enabled | START, NEW_PACKET, TRANSMISSION_END | bounded buffer, equal timestamps, order of departure; ownership of copies | nothing lost or sent twice; at most `buffer_size` held back; only late packets misplaced |
| list `src/contrib/simclist.c` | doubly linked entries, middle pointer, spare entries, one iterator, comparator | insert, extract, delete, concatenate, search, sort, iterate, destroy | middle pointer, quicksort around a moving pivot, iterator that refuses | it is a sequence; links and middle fit together; permutation, order, termination |
| delay filters `src/uniform_delay_filter.c`, `src/gamma_delay_filter.c` | distribution parameters | add a random delay to the packet's time | draws shared with the loss filters through `rand()` | a packet is never moved back in time |
| loss filters `src/markov_losses_filter.c`, `src/independent_losses_filter.c` | loss state, rates | pass a packet on or not | `list_sort` reseeds `rand()`, `src/contrib/simclist.c:527` | losses follow the configured chain; nothing else is changed |
| pcap writer `src/pcap_filter.c` | open dump, headers | write Ethernet, IP, UDP, RTP and the frames | failed start, 16-bit lengths, checksum | what is written has the lengths it says |
| rtpdump writer `src/rtpdump_filter.c` | open file, start time | write header and packets | failed start | no use of a state that is not there |
| decoded output `src/wavfile_output_filter.c` | output file, decoder, time written so far | seek to the packet's time, decode, write | drift, lost and reordered packets | samples land where the packet's time says |
| SIPp output `src/sipp_filter.c` | names of the files | write the offer from the codec list, replay duration | walks the codec list again | every codec once |
| log `src/log_filter.c` | last packet's time | print | - | - |
| options `src/options.c` | `wr_options`, the codec list as text | read two files, one argument at a time, one codec at a time, final checks | order of evaluation, overriding, late initialisation of codecs | the last value given counts; only a complete command line is accepted |
| configuration parser `src/contrib/iniparser.c` | slots of keys, values and hashes | parse, set, unset, find, dump, typed getters | growing, holes, hash collisions | it is a map, and can be saved and read again |
| codec registry and codecs `src/rtpmap.c`, `src/*_codec.c`, `src/contrib/g711.c` | rows with a payload type and a codec state | search by name and type, init, encode, decode | tables changed by init, sizes that differ, hand-corrected conversions | a packet is decoded by its codec, close to what was encoded |
| checksum `src/contrib/in_cksum.c` | - | sum a vector of pieces | pieces of odd length at odd addresses | independent of the pieces |
| random variates `src/contrib/ranlib` | seeds of 32 generators, what `sgamma` keeps between calls | seed, jump, draw a number, an integer, a gamma deviate | products of 31-bit numbers in 32 bits; a generator in use that initialisation changes; remembered set-ups | generators keep their streams; deviates use the set-up of their shape |

The hazards this code is exposed to, each at its line and with the property
that covers it, are listed in `PROJECT.json`.  Two have none: that losses within
a second are drawn from a reseeded generator (a statement about probabilities)
and a frame longer than the buffer it is decoded into, which the model lets
happen and stops at (section 5).

## 2. Modules

| module | models | kind |
|---|---|---|
| `ReorderBuffer` | what the sort filter promises | abstract specification |
| `SortFilter` | `src/sort_filter.c`, all three events | implements `ReorderBuffer` |
| `ListSort` | `list_sort`, `src/contrib/simclist.c:521-692` | algorithm as a state machine |
| `Timeval` | `src/misc.c:64-71`, `timercmp`, `timersub` | operators |
| `RtpStream` | what observers may rely on | abstract specification |
| `WavSource` | `src/wavfile_filter.c:53-150`, packets of `src/rtpapi.c` | implements `RtpStream`, uses `Timeval` |
| `Network` | what all filters emulate together | abstract specification |
| `FilterChain` | the links of `main`, `wr_rtp_filter_notify_observers`, every filter's handler | implements `Network` |
| `PacketTimes` | the packets that reach the sort filter, and their times | constants |
| `AbstractList` | what `src/contrib/simclist.h` promises | abstract specification |
| `SimList` | `src/contrib/simclist.c` but for the sort and the hashes | implements `AbstractList` with two named departures |
| `AbstractDictionary` | what the comments of `src/contrib/iniparser.c` promise of the dictionary | abstract specification |
| `IniParser` | `src/contrib/iniparser.c` | operators |
| `RtpMap` | `src/rtpmap.c` | operators |
| `Codecs` | what `init` of the codecs reads from the configuration | operators, over `IniParser` and `RtpMap` |
| `Options` | `get_options`, `src/options.c` | over `Codecs`, implements `AbstractDictionary` with one named departure |
| `G711` | `src/contrib/g711.c` | operators |
| `VoiceData` | `encode` and `decode` of the codecs | operators, over `G711` and `RtpMap` |
| `RtpPackets` | the packets that reach the sinks and `wr_rtp_header_init` | operators |
| `Checksum` | `src/contrib/in_cksum.c` | operators |
| `CaptureFiles` | `src/pcap_filter.c`, `src/rtpdump_filter.c`, the files | over `RtpPackets` and `Checksum` |
| `WavOutput` | `src/wavfile_output_filter.c`, the samples | over `RtpPackets` and `VoiceData` |
| `Reports` | `src/log_filter.c`, `src/sipp_filter.c`, what they say | over `RtpPackets` |
| `Outputs` | one stream of the source and all four sinks | composes the three above |
| `RandomStreams` | what ranlib's comments promise of the generators | abstract specification |
| `RandomGenerators` | `src/contrib/ranlib/com.c`, `mltmod`, `ignuin`, the getters | state machine |
| `RandomDeviates` | `gengam`: `sgamma`, `snorm`, `sexpo` | over `RandomGenerators`, implements `RandomStreams` with one named departure |
| `SortFilterProofs`, `WavSourceProofs`, `FilterChainProofs`, `ListSortProofs`, `SimListProofs`, `OptionsProofs`, `RandomDeviatesProofs` | - | theorems about the module in the name |
| `Recursion` | - | induction over numbers, functions defined by recursion: lemmas |
| `MC...` | - | instances for TLC |

**SortFilter.** One action per event: `TransmissionStart`, `NewPacket` (which is
`PassThrough` when the filter is disabled and `Store` when it is enabled) and
`TransmissionEnd`.  A packet is a model value with a timestamp.  A deep copy is
named after the packet it copies, and `copies` is the set of copies alive on
the heap.  `list_sort` is used by what `ListSort` checks of it: the result is a
reordering, and an ordered one when the list is no longer than
`SIMCLIST_MINQUICKSORTELS`; equal timestamps may come in any order.  A new
packet is one that was not received before, as the source sends no packet
twice.  The last packet is passed on and the state freed within one action, as
nothing can run in between.

**ListSort.** Entries are positions, their data the numbers of the elements;
`calls` is the stack of sublists still to be sorted.  An action is one
iteration of one of the three partition loops, the choice of a pivot (any
position: `rand()`), a selection sort, or the two recursive calls.  The
selection sort is one action, since its loops have no choices: a recursive function over
the positions it fills.  The thread variant
(`SIMCLIST_WITH_THREADS`) is not defined by the build and not modelled.

**WavSource.** One action per iteration of the loop: `EncodeFrame` (a buffer was
read; the packet is sent when it is full) and `EndOfFile` (the packet is
flushed, the file rewound, the next codec taken), and `Start`, `Fail` and
`Finish` around it.  A data frame stands for the samples it was encoded from.
Files, codec lists and frame counts are chosen in `Init` and never change.
What `sf_open`, `sf_read_short` and the codecs do is abstracted to: a file
opens or not, has the right rate or not, and delivers a buffer or what is left.
A codec whose `init` fails counts as no codec.  Integers are unbounded here; `Outputs`
has the counters with their widths.

**FilterChain.** The filters call each other synchronously, so the state between
two steps is a call stack: `stack` has one entry per loop of
`wr_rtp_filter_notify_observers` under way, with the event, the packet and the
index of the next observer.  An action is one call out of the innermost loop,
with all that the observer does before it notifies its own observers
(`Forward`) or returns (`Return`): `Start` and `End` for the filters that
allocate and free a state and forward, `Delay`, `LoseMarkov`,
`LoseIndependently`, `Watch`, `SortNew` and `SortEnd` for their packets, and
`OpenOutput`, `WriteOutput`, `CloseOutput` and `WriteWav` for the two filters
that forward nothing.  `EndLoop` leaves a loop; then the caller may destroy the
packet (the source always does, the sort filter at the end).  `Drain` is an
iteration of the loop that empties the sort buffer.  A packet is its number,
its time in microseconds and the list of frames it points to; `heap` is the
life of every such list, `state` that of `filter->state`.  The packet that
`TRANSMISSION_START` carries is left out, its list is empty and nobody keeps
it.  Delays are any number in the range of the settings (`gamma_max` bounds the
gamma variate, which has no bound), draws any value of `rand()`.  A
configured but disabled filter behaves as one with delay 0, loss 0 or no
buffer.  A null pointer that is followed ends the program (`crashed`).  The
histories `received` are what every filter was called with.

**SimList.** An entry is its address; `l` is the `list_t` with its links, data,
middle pointer, stack of spare entries, iterator and comparator, `heap` the
entries allocated, `ret` what the last call returned.  One action per call,
with every argument, the refused ones included; `malloc` may fail.
`list_findpos` walks from the end or the middle the code chooses.  Unsigned
results are taken modulo `UINT_RANGE`.  A null pointer that is followed ends the run
(`crashed`).  `SimList!List` maps the state to a sequence and a cursor.
Addresses mean nothing, so the run compares states up to them (`VIEW`).

**Options.** `LoadFiles`, then `Argument` once for every argument that
`getopt_long` returns, `EndOfArguments`, `NextCodec` once for every token of the
codec list, `FinalChecks`; after a success `Client` makes calls that users of the
parser may make.  A dictionary is the array of its slots, so that growth, holes
and collisions happen as in the code; a key is the sequence of its parts, a
line of a file a record of what `sscanf` can see in it.  What the string
functions do to a text (lower case, hash, crop, comment, `atoi`) is given by
constants.  `Options!Map` maps the output options to a function on keys.

**Outputs.** `setup` is a configuration with a source file; `Stream` computes
the packets of `wavfile_filter.c` for it, with their frames, payload types,
numbers and times, the undefined samples at the end of a short frame being the
setup's choice.  A packet's number counts those of the passes before, whose codecs
may have had other buffers.  `NewPacket` gives one of them, delayed or not, in or out of
order, lost ones left out, to all four sinks, in the order of `main`: one
action, as each of them returns before the next is called and forwards
nothing (`FilterChain` has the calls one by one).  The capture file is the
sequence of blocks that `fwrite` wrote, with their sizes and fields; the header of an
rtpdump file has a `struct timeval`, of 8 or 16 bytes (`timeval_size`); the WAV
file is its samples, with the position of libsndfile.  G.711 is computed
exactly, bits and tables; a frame of GSM or speex stands for its first sample,
their libraries being external.  A frame that does not fit into its decoder's
buffer sets `overrun`, after which nothing is said of the WAV file.  `WORD` is the
number of values of a 32-bit field.

**RandomGenerators** and **RandomDeviates.** `common` holds the static tables and
flags of `com.c`; an action is a call of one of its functions, any sequence of them
being possible.  The numbers that `ignuin` and `gengam` draw are steps of their
own, and `at` is the label where the call goes on.  The arithmetic is the
code's with the code's constants: TLC's integers have 32 bits, as `long` may
have, and an overflow ends the run.  A comparison of computed deviates may go either way, so
every path of the rejection loops is taken; of the numbers that are kept
between calls the model has the shape they were computed for, and of the table look-ups
the index.  Gamma shapes are in tenths.  `RandomDeviates!Streams` maps the
tables to streams that `RandomStreams` defines by repeated multiplication.

**ReorderBuffer**, **RtpStream** and **Network** say what the components promise
without how: `SortFilter!Buffer`, `WavSource!Stream` and
`FilterChain!NetworkBetween` are the refinement mappings.

**AbstractList**, **AbstractDictionary** and **RandomStreams** say what the headers and
comments of the contributed libraries promise, also where the code does something else.
There the property names the step, with the promise it breaks, and no other
step may differ: `SimList!ReturnsNoCount` and `FollowsNull`, `Options!AddsOrKeeps`,
`RandomDeviates!LeavesFirst` (section 5).

Operators marked `Mutant of ...` are deliberate errors.  They are not used by
any specification; the properties are tested against them: with the mutant in
place of the original, TLC finds the property violated.

## 3. Runs

| run | shows | instance |
|---|---|---|
| `sort_filter` | the sort filter implements `ReorderBuffer`; stored packets are alive | 5 packets, two with equal times, every order of arrival, buffer of 1 to 3 packets, and disabled |
| `list_sort` | permutation, partition, order, termination | every list of up to 5 keys out of 3, every pivot, threshold 2 so that both algorithms run; and of up to 4 keys with the sort filter's comparator, threshold 24 |
| `wav_source` | every sample once per codec, packets filled, `RtpStream`, termination | 2 codecs, 7 codec lists, files of 0 to 40 samples around the buffer sizes 8 and 12, 1 to 3 frames per packet, start 15 microseconds before a second's end |
| `filter_chain` | no frame or state used after it is gone or freed twice, START, packets and END in order at every filter, sinks agree although one fails, only late packets overtaken, Markov losses in step with the memory, `Network`, termination | 3 packets that delays of 0 to 4 bring out of order, buffers of 0 to 3, loss thresholds 0 to 2 of 2, both writers, with and without a file: 21 settings |
| `sim_list` | links, middle, spares and iterator fit together; every position is read right; the list is the sequence its header promises, but for missing counts and two null pointers | lists of up to 5 elements, 2 spare entries, every call with every argument, those that follow a null pointer too |
| `options` | last value counts, codecs set up with it or with the file's; the dictionary is the map its comments promise, but for absent keys and NULL; saved and read again | 12 arguments, up to 4 given, 3 pairs of files, dictionaries that start with 2 slots and whose keys share few hashes, 2 calls afterwards |
| `outputs` | the WAV file renders the packets by their time, and behind the last one what the buffers leave there; decoded as sent; the capture file can be read, one of rtpdump with 64-bit times only behind its own header; log and scenario agree with the files | 1 to 5 packets, some lost, delayed or out of order, all codecs, types configured or not, frames at the 16-bit limit, counters that wrap (`WORD` is 2^19); G.711 at the ends of all segments |
| `random` | the generators keep the streams promised, without overflow, but for generator 1 when `setall` finds another in use; set-ups are those of the shape, but for the shape 0 and `b` after a shape below 1; table indices are right | 3 generators, 4 calls; delay filter: 6 calls and draws; gamma deviates: up to 12 |
| `filter_chain_rtpdump` | **violated**: missing state of the rtpdump writer | as `filter_chain` |
| `sort_filter_leak` | **violated**: copies that leave early are not destroyed | as `sort_filter` |
| `list_sort_long` | **violated**: a list of 25 packets is left unsorted | one list of 25, threshold 24 |
| `wav_source_type` | **violated**: stale payload type after a codec switch | as `wav_source` |

The bounds are enough for what they show.  Reordering by a buffer of c packets
can go wrong with c + 2 packets; the instances have capacities up to 3 and five
packets, of which two tie.  Sublists of five are partitioned, then partitioned
or selection sorted again.  The files end inside a buffer, at its end, at the
end of a packet and one sample later, and the codec lists switch between
codecs of different buffer sizes in both directions.  Three packets are enough for a
chain with a buffer of one: one that is overtaken by two leaves late, one that
is overtaken by one does not; a burst and its end are three packets too.

Five elements give the list odd and even lengths on either side of every rule
of the middle pointer, and two spare entries run full and empty.  Four
arguments are enough to override a value twice and to grow a dictionary of two
slots twice.  The calls of the generators include those that change the one in use,
after which two more calls show what was changed.

`ReorderBuffer` and `RtpStream` have no runs of their own: the runs of what
implements them check every step against them, and what follows from them is proved
of it (section 4).

Fairness is assumed where the code runs to completion in one thread:
`WF_vars(Next)` in `ListSort`, `WavSource` and `FilterChain`, for termination.  The handlers of
`SortFilter` and the sinks and the calls of the libraries are made by others, so they have none.
Deadlock is not checked
because every modelled part really stops: after the last call, or at the end of
the transmission.

## 4. What is proved

All proofs are checked by TLAPS for every value of the constants, under the
named assumptions in the modules.

- **SortFilter.** `Refinement`: every step is a step of `ReorderBuffer` or
  stutters.  The invariant `SInv`: the state agrees with the options, the list
  has no duplicates, is a part of the input, is no longer than the capacity and
  is empty when the filter is disabled or not started.  `StoredAlive`: a packet in
  the list is a copy that was not destroyed.  What follows from the contract is
  proved of the filter: conservation, boundedness, that only a packet that came in
  late leaves behind a later one, and that a stream without late packets leaves
  sorted.  The order of the output is not inductive by itself.  The
  inductive invariant adds `EmittedWithCompany` (before the end, more than
  `capacity` of the packets that arrived do not belong before an emitted one, so
  that a packet that arrives later and belongs before it is late) and
  `HeldBehindEmitted` (a packet held back that was not late belongs behind
  everything emitted).  Assumptions: times are natural numbers
  (`PacketTimes!TimeAssumption`), and `buffer_size` is below
  `SIMCLIST_MINQUICKSORTELS` (`BufferSizeAssumption`), which is where the comparator
  is enough.
- **ListSort.** `RInv` needs no assumption about the comparator: the sublists to be
  sorted lie within the list and do not overlap (`Disjoint`), the three scan positions
  stay around the pivot (`Partitioning`), and the entries hold every element once
  (`Onto`).  From it: types, so no position outside of the list is read, and
  `NothingLost`.  `OInv` is about order: of two elements out of order, both lie in one
  sublist that is still to be sorted (`Apart`), and what the scans have passed is on its
  side of the pivot (`Halves`).  It holds for `SupportedCalls`: the comparator is
  positive exactly for the greater, and negative exactly for the smaller where the
  list is longer than the threshold.  The sort filter's comparator meets this up to the
  threshold; that it does not above is finding 2.  From it: `SplitAtPivot` and
  `Sorted`.
- **SimList.** The inductive invariant `Consistent` names the entries by their places,
  from the head sentinel at place 0 to the tail sentinel behind the last element:
  each entry links to those at the places next to its own (`Chained`) and has a datum
  (`Holds`), the middle pointer is the entry at the middle place (`IsMiddle`), the spare
  entries are different from each other and from those in the list (`Spares`),
  what is allocated is in the list or spare, and the iterator points to the place its
  count says (`Iterator`).  Following n links is a function by recursion over n; from
  place i it leads to place i + n (`FollowNext`, by induction), so that `list_findpos` finds
  the place whichever of its four ways it takes (`FindPos`).  What a call does to
  the links is then an insertion or a removal of places (`InsertedPlaces`,
  `RemovedPlaces`), and what it does to the middle pointer is arithmetic on
  places, with parities and unsigned differences (`InsertedMiddle`, `DroppedMiddle`,
  `RangeMiddle`, `ConcatMiddle`).  That `Sort` has a result at all is an
  induction too (`Sortable`).  From the invariant: `TypeCorrect`, `Linked`, `Queries`;
  every call is a step of `AbstractList`, stutters or is one of the two departures that
  `ImplementsList` names: `Refinement`; and where null pointers are followed:
  `NullPointers`.  Assumption: `SimListAssumption`, that elements
  are positive numbers, and that an unsigned number holds four times the
  longest list (`UINT_RANGE`).
- **WavSource.** First the arithmetic of `Timeval`: `timeval_increment` is exact and
  keeps the normal form, comparison is comparison of microseconds, subtraction is
  exact.  `SendsOneStream`: the loop implements `RtpStream` for all
  codecs, buffer sizes, files, lists and frames per packet.  The invariant says
  that the packet under construction continues where the last sent packet ends
  (`PacketContinues`) and that the counters are ahead of it by the samples of
  its frames (`CountersAhead`); timestamps rest on `IncrementExact`.
  What follows from the contract is proved of the source: its packets are
  synchronised and do not overlap, in a stream of any length (`SInv`).
  What the packets carry takes two more invariants.  `CInv` says of every packet
  sent, and of the one under construction, how many frames it has and of which codec,
  and which type: `FilledPackets`, `StaleTypes`, and with the iterator's state
  `IteratorFree`.  `FInv` says that the frames sent and under construction are all
  those of the passes before and the first m of the current one, m times the
  buffer's size being the position in the file: `EverySample`.
  Assumption: a sample takes a whole number of microseconds
  (`RateAssumption`), true at 8 kHz, the only rate the code accepts.
- **FilterChain.** The invariant `Inv` has eight parts.  `Shape` and `Types`: which
  stacks of notifications there can be, one loop per filter on the way from the source
  to where the call is, and what they hold.  `Phases` and `States`: every filter was
  told of a prefix of START, packets, END, further along the chain no more than before,
  and has its state between START and END.  `Flow` and `Flushed`: a packet is at one
  place, its list of frames is alive while a loop or the sort buffer has it, and it was
  delayed by no more than the filters passed allow; after END nothing is held back.
  `Complete`: without losses every packet sent is held back, on its way or at the log.
  `Told`: the sinks in front of the loop's index were told one event more than those
  behind it, and otherwise the same.  From it follow `PacketsLive`,
  `ListsFreedOnce`, `EventOrder`, `AlwaysAlive`, `Agreement`, and `Emulation`: every
  step is one of `Network` or stutters.  `Bursts` needs `Losses` (what the Markov
  filter was called with and what it let pass, read side by side, explain its memory),
  `OnlyLateOvertaken` needs `Overtaking` (of what left the sort filter or is held
  back, only a packet that came in after more later ones than the buffer has places
  is behind a later one; until the end, more packets came in than the buffer has places
  that do not belong before one that left).  Assumption: `ChainAssumption`, the types of the settings, with
  `min_delay <= max_delay` (or ranlib ends the program) and a buffer below
  `SIMCLIST_MINQUICKSORTELS`.
- **Options.** First the dictionary.  `Good` says of one that a slot is empty or has
  a key with its hash, that no key is there twice and that the full ones are
  counted; it holds of an empty one, and `dictionary_set` and `dictionary_unset`
  keep it (`SetKnown`, `SetNew`, `UnsetKnown`), growing included (`RoomForOne`).  On
  its contents they are the update and the removal of one entry (`SetIsUpdate`,
  `UnsetIsRemoval`).  `dictionary_get` needs more, since it takes an empty slot
  for the key when their hashes agree: that no slot is empty in front of a full
  one (`Compact`).  Nothing is removed while options are read, so this holds of
  every dictionary that a file gives (`FileIsGrown`, by recursion over its lines) and
  after every argument; then the value found is the one stored (`GetIs`).  The
  inductive invariant `IInv` of `get_options` has five parts: `Shapes` and `Progress`
  (the types, and what each place it can be at implies), `Asked` (the dictionaries
  have the files' entries but for those the arguments gave, of which the last
  counts: `Overrides`), `Initialised` (the codecs listed so far are the rows of the
  names asked for, with the configured types; a codec listed twice is initialised
  twice and gets the same) and `Accepted`.  From it: `TypeCorrect`, `LastGiven`, `Ready`;
  and every argument and every call of a user is a request of `AbstractDictionary`, or
  stores an absent key or NULL (`AddsOrKeeps`): `ImplementsMap`.

  `Saved` follows a dictionary to its file and back.  A file gives the keys of its
  lines, and entries of any map that all its lines fit (`FileGives`, by recursion over
  the lines).  What is written is found by induction over the sections: a line is in
  the section that was written last before it (`BlockAppended`, `BlocksPlaced`), so the
  file has the name of every section, and inside of it the entries whose keys start
  with that name (`DumpedLines`).  A line gives back its key only if the key is in lower
  case, which is invariant (`KeysInLowerCase`), and its value up to a comment
  (`EntryReadBack`, `SectionReadBack`).

  Assumptions: the functions that stand for the string functions
  are defined for what is read and given (`IniParserAssumption`, `InputAssumption`);
  a key has parts, lower case stays lower case, and cutting a text gives a text, of
  which there is one without characters (`TextAssumption`);
  `strlwc` leaves the program's own keys alone, and their hashes are not 0
  (`CodecsAssumption`; a key of hash 0 would be found in an empty slot,
  `src/contrib/iniparser.c:342`); the pointer that
  stands for a missing entry is no text (`InvalidKeyAssumption`); and `NULL` is neither
  a key nor a text nor a dictionary (`NullAssumption`).
- **RandomDeviates.** `SetupOfShape`: called with a shape that is not 0, `sgamma` uses
  the `s` and `q0` of that shape at every label that uses what it keeps, and the `b` of
  that shape or of a shape below 1 that the same program calls it with; a program
  with one shape, as this one, gets all three of its own.  Nothing is said of
  the shape 0.  The invariant (`Kept`, `AtLabels`) says which shape the two stages were
  computed for, and that the two methods do not return from `sexpo` to each other's
  labels (`method`).  `DeviatesAreDefined` adds that `snorm` and `sexpo` stay inside
  of their tables, whatever the shape: both double the number drawn until it passes an end, and by
  induction from that end downwards (`DoublingValues`) the count of the doublings, or what
  is left of the number, is bounded (`TailInside`, `BeyondInside`).  Assumptions: shapes are
  not negative (`ShapesAssumption`), as the configuration's getter ensures, and
  numbers drawn are places of the generator (`UniformsAssumption`).
- **Recursion.** Provers here cannot instantiate an induction theorem that takes a
  predicate; these take the set of numbers the predicate holds of, and follow
  from the least element of its complement.  A function
  defined by recursion is shown to exist the same way, so that loops that compute a
  value can be reasoned about (the frames of a pass, the doublings, the selection
  sort, the lines of a file), and `FlattenSeq` is shown to concatenate.

Only model-checked: liveness (`Terminates`, `Termination`, beyond this prover);
`Outputs` and the codecs (tables and bits, some in RECURSIVE operators); that
`RandomGenerators` implements `RandomStreams` (products modulo a prime in 32 bits, by
a loop over the digits, are nonlinear arithmetic).

## 5. Findings

1. The sort filter leaks the copy of every packet that leaves a full buffer
   (`src/sort_filter.c:77-78`, against `src/rtpapi.h:126-128`).
2. The sort filter's comparator never returns a negative value
   (`src/sort_filter.c:44`, against `src/contrib/simclist.h:22`), so lists of 25
   packets and more are not sorted.
3. With several codecs, the first packet of every pass but the first carries
   the payload type of the codec before (`src/wavfile_filter.c:122`, `144`).
4. When the output file cannot be opened, the rtpdump writer follows its missing
   state before it checks it (`src/rtpdump_filter.c:134`, against `138-141`).

Observations made while modelling, without a run of their own.  Where a model
has the place, it does what the code does.

Filters and outputs:

- The decoded WAV output keeps its state at the end of the transmission
  (`src/wavfile_output_filter.c:123-128`, against `src/rtpapi.h:182-183`).
- The first packet of a pass has the type of the codec before.  With buffers of
  different sizes, as the supplied configuration gives them to `PCMA` and `PCMU`,
  its frame is decoded into a buffer that is too short
  (`src/wavfile_output_filter.c:114`); `WavOutput` calls that `overrun`.
- The decoded WAV file drifts when packets come out of turn, when frames are
  no whole number of milliseconds, and at a gap behind a short frame
  (`src/wavfile_output_filter.h:53`); `InTurn` says when it does not.
- `list_sort` seeds `rand()` with the time in seconds
  (`src/contrib/simclist.c:527`), and the loss filters draw from it: with the sort
  filter on, packets of one second see the same draws.
- `min_delay` above `max_delay`, and 0 or too large a number drawn for
  `setall(rand(), rand())` (`src/wav2rtp.c:113`), end the program with `exit` from
  inside ranlib.
- The comment at `src/sipp_filter.c:59` wants no codec twice; duplicates are
  printed.  `ReportsAgree` wants the types different where the codec list has no type twice.
- The header of an rtpdump file has a `struct timeval` (`src/rtpdump_filter.c:62-87`),
  of 16 bytes on 64-bit systems, where the format has two words.  Readers begin 8 bytes
  too early and find no record.  `CaptureReadable` wants the format's header where
  the times have 32 bits, and otherwise the records behind the header as written
  (`HeaderTooLong`).
- At the end of the decoded file, a decoder's whole buffer is written for the last short
  frame: samples that were not in the source (`src/wavfile_filter.c:111`).
  `Rendered` says how far (`Overhang`) and which.
- `src/pcap_test.c` expects a `wr_rtp_header_t` of 76 bytes; it has 12.
- `in_cksum_shouldbe` and the conversions between the G.711 laws are never
  called by the program.

Options, configuration and codecs:

- `--version` is mapped to `h` (`src/options.c:115`) and prints the usage, whose
  line 59 promises the version.
- A codec list of 1023 characters loses the last one (`src/options.c:253-258`);
  a codec listed twice is initialised twice.
- `PCMA` and `DUMMY` fall back to other payload types than the map gives them
  (`src/g711a_codec.c:50`, `94`); a decoder whose type is configured is found by it only
  after it was used (`src/rtpmap.c:115`).
- The decoder row of speex names the encoder's `get_output_buffer_size`: 600
  samples instead of 160 are written per frame.
- `""` at the end of a line is read as two quotes (`src/contrib/iniparser.c:960-972`).
  `iniparser_setstr` adds a key whose absence lines 885-886 call an error, and keeps a
  key set to NULL, which lines 374-377 call deleting it: both are `AddsOrKeeps`.
  `dictionary_get` looks at `d->key` where it means `d->key[i]` (342).
  `iniparser_dump_ini` loses keys without a section, and empty values.

List library:

- Extracting the last element leaves the middle pointer at the head sentinel,
  which `list_repOk` does not accept (`src/contrib/simclist.c:756-768`, `843-873`);
  nothing reads it in an empty list.
- `list_delete_range` of a whole list wraps an unsigned number and follows a
  null pointer (`src/contrib/simclist.c:342`, against `src/contrib/simclist.h:257-259`);
  so does `list_iterator_next` two steps past the end (`src/contrib/simclist.h:375`).
  The program calls neither so.  Both are `FollowsNull`.
- `list_clear` and `list_delete_range` return 0 where the header promises the number of
  elements (`src/contrib/simclist.h:259`, `269`): `ReturnsNoCount`.

Random numbers:

- `setall` while another generator than the first is in use leaves the first
  one's block and current seeds as they were (`src/contrib/ranlib/com.c:282`, against
  the comment at 246-248): `LeavesFirst`.  The program only uses the first.
- `gscgn` accepts generator 0 (`src/contrib/ranlib/ranlib.c:588`).
- `ignuin` accepts one number too many, against the comment at 1211-1212; the bias
  is one in 2^31.
- `ranf` may round to 1, which the comment at 1400 excludes; `snorm` handles it.
- `sgamma` uses a number computed for a shape below 1 for the next one above
  it, if that shape was the last one above it (1646, 1744); the program uses one shape,
  so it does not happen.  `UsesItsSetup` allows it to `b` alone.
- The supplied configuration has the gamma shape 0 (`conf/wav2rtp/output.conf:49`),
  which is also what a missing key gives.  Lines 284 and 290 promise the algorithm for shapes up to 1
  for it, but 0 is the first value of `aa`, so that line 1619 takes it for the last
  shape, and deviates are drawn with a set-up that was never made: a quarter
  of the square of a normal deviate, or 0.  `UsesItsSetup` excepts this shape.

## 6. Plan

What is left, in this order:

1. Theorems: the lengths in the capture file below the 16-bit limit.
2. `FilterChain` and `WavSource` in one model, with the list's iterator
   shared by source, sinks and SIPp filter.
3. A client of `SimList` that is the sort filter, to replace the sequence in
   `SortFilter` by the list.

## 7. Not modelled

Sound file reading and the GSM and speex libraries, which are external; floating
point values of the deviates, and ranlib's other distributions and the linpack
routines, which the program never calls; the list library's hashes, its
copying of user data and its thread variant; the getters of doubles and
characters in the parser; text formats, logging and the command line's wording;
the fallbacks for Windows; the dummy filter, a template, and `src/pcap_test.c`;
running out of memory, except where a model says so.
