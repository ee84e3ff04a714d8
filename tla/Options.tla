-------------------------------- MODULE Options ---------------------------------
(***************************************************************************)
(* get_options, src/options.c: the two configuration files, the command line, *)
(* one argument at a time, the codec list, one codec at a time, and the final *)
(* checks; and what users of the parser may do with the options afterwards.   *)
(*                                                                          *)
(* An argument is a pair of its option letter and what getopt_long gives for  *)
(* it: a name, a format, a list of codec names, or a key and its value (NULL   *)
(* for an argument without "=").  The length of the codec list, duplicated    *)
(* memory that is not freed, and the Windows paths are left out.            *)
(***************************************************************************)
EXTENDS Codecs

CONSTANTS
    Files,                      \* [codecs, output], what the files contain; NULL: no file
    Arguments,                  \* the arguments that may be given
    MaxArguments,
    ClientEntries, ClientValues,    \* what users set afterwards
    MaxCalls
ASSUME OptionsAssumption == {MaxArguments, MaxCalls} \subseteq Nat

\* What is read and given: keys that have a hash, texts, and lists of codecs.
ASSUME InputAssumption ==
    /\ \A f \in Files : \A lines \in {f.codecs, f.output} \ {NULL} : IsFile(lines)
    /\ \A a \in Arguments :
        /\ a[1] \in {"o", "O"} /\ a[2] # NULL =>
               /\ a[2][1] \in Seq(DOMAIN Lower) /\ strlwc(a[2][1]) \in DOMAIN Hash
               /\ a[2][2] \in DOMAIN Crop
        /\ a[1] = "c" => a[2] \in Seq(Range(a[2]))
    /\ ClientEntries \subseteq Seq(DOMAIN Lower)
    /\ {strlwc(entry) : entry \in ClientEntries} \subseteq DOMAIN Hash
    /\ ClientValues \subseteq DOMAIN Crop

VARIABLES
    files,          \* the contents of the two files
    argv,           \* the arguments read so far
    wr_options,
    need,           \* counters and texts that are local: hlp, version, codec_list
    encoders,       \* encoder_map
    retval,         \* "running", or what get_options returned
    at,             \* where get_options is
    calls           \* the calls users have made afterwards

vars == <<files, argv, wr_options, need, encoders, retval, at, calls>>

Init ==
    /\ files \in Files
    /\ argv = <<>>
    /\ wr_options = [filename |-> NULL, codec_list |-> NULL, output_filename |-> NULL,
                     output_format |-> "pcap", codecs_options |-> NULL, output_options |-> NULL]
    /\ need = [hlp |-> FALSE, version |-> FALSE, codec_list |-> <<>>]
    /\ encoders = encoder_map
    /\ retval = "running" /\ at = "load" /\ calls = <<>>

Return(value) == retval' = value /\ at' = "done"

\* The two files; without one of them nothing else is read.
LoadFiles ==
    /\ at = "load"
    /\ IF NULL \in {files.codecs, files.output}
       THEN Return("WR_FATAL") /\ UNCHANGED wr_options
       ELSE /\ wr_options' = [wr_options EXCEPT !.codecs_options = iniparser_new(files.codecs),
                                                !.output_options = iniparser_new(files.output)]
            /\ at' = "arguments" /\ UNCHANGED retval
    /\ UNCHANGED <<files, argv, need, encoders, calls>>

--------------------------------------------------------------------------------
\* One argument.

Read(argument, options, local) ==
    /\ at = "arguments" /\ Len(argv) < MaxArguments
    /\ argv' = Append(argv, argument)
    /\ wr_options' = options /\ need' = local
    /\ UNCHANGED <<files, encoders, retval, at, calls>>

Help == [need EXCEPT !.hlp = TRUE]

__output_format_arg(format) == IF format \in {"pcap", "rtpdump"} THEN format ELSE "unknown"

\* Mutant of define_option: a key that is there keeps its value.
define_optionOnce(entry, d) ==
    IF iniparser_find_entry(d, entry[1]) THEN d ELSE iniparser_setstr(d, entry[1], entry[2])

define_option(entry, d) == iniparser_setstr(d, entry[1], entry[2])

\* The loop of getopt_long; "--version" is given as 'h' (options.c:115).
Argument ==
    \E a \in Arguments :
        \/ a[1] = "v" /\ Read(a, wr_options, [need EXCEPT !.version = TRUE])
        \/ a[1] = "f" /\ Read(a, [wr_options EXCEPT !.filename = a[2]], need)
        \/ a[1] = "c" /\ Read(a, wr_options, [need EXCEPT !.codec_list = a[2]])
        \/ a[1] = "t" /\ Read(a, [wr_options EXCEPT !.output_filename = a[2]], need)
        \/ a[1] = "m" /\ Read(a, [wr_options EXCEPT !.output_format = __output_format_arg(a[2])], need)
        \/ a[1] = "o" /\ a[2] # NULL
           /\ Read(a, [wr_options EXCEPT !.output_options = define_option(a[2], @)], need)
        \/ a[1] = "O" /\ a[2] # NULL
           /\ Read(a, [wr_options EXCEPT !.codecs_options = define_option(a[2], @)], need)
        \/ (a[1] \notin {"v", "f", "c", "t", "m", "o", "O"} \/ a[2] = NULL)
           /\ Read(a, wr_options, Help)

\* The command line ends; the version was asked for, or the codecs are next.
EndOfArguments ==
    /\ at = "arguments"
    /\ IF need.version THEN Return("WR_STOP") /\ UNCHANGED wr_options
       ELSE /\ wr_options' = [wr_options EXCEPT !.codec_list = <<>>]
            /\ at' = "codecs" /\ UNCHANGED retval
    /\ UNCHANGED <<files, argv, need, encoders, calls>>

--------------------------------------------------------------------------------
\* get_codec_list: wr_options.codec_list holds rows of the encoder map, as pointers.

Token == need.codec_list[Len(wr_options.codec_list) + 1]

\* Mutant of InitCodec: the codecs are initialised without the command line.
InitCodecByFile(c) == encoders' = [encoders EXCEPT ![c] = init(@, iniparser_new(files.codecs))]

\* Every codec listed is initialised, once for each time it is listed.
InitCodec(c) == encoders' = [encoders EXCEPT ![c] = init(@, wr_options.codecs_options)]

NextCodec ==
    /\ at = "codecs"
    /\ Len(wr_options.codec_list) < Len(need.codec_list)
    /\ LET c == get_by_name(encoders, Token) IN
       \/ /\ c # 0 /\ InitCodec(c)
          /\ wr_options' = [wr_options EXCEPT !.codec_list = Append(@, c)]
          /\ UNCHANGED <<retval, at>>
       \/ \* no such codec, or its init has no memory
          /\ Return("WR_FATAL")
          /\ wr_options' = [wr_options EXCEPT !.codec_list = NULL]
          /\ UNCHANGED encoders
    /\ UNCHANGED <<files, argv, need, calls>>

Refused ==
    need.hlp \/ wr_options.filename = NULL \/ wr_options.output_filename = NULL
    \/ wr_options.output_filename = wr_options.filename
    \/ wr_options.output_format = "unknown"

FinalChecks ==
    /\ at = "codecs" /\ Len(wr_options.codec_list) = Len(need.codec_list)
    /\ Return(IF Refused THEN "WR_FATAL" ELSE "WR_OK")
    /\ UNCHANGED <<files, argv, wr_options, need, encoders, calls>>

--------------------------------------------------------------------------------
\* Calls of the parser that the program leaves to other users.

Call(do, entry, val, options) ==
    /\ calls' = Append(calls, [do |-> do, key |-> strlwc(entry), val |-> val])
    /\ wr_options' = [wr_options EXCEPT !.output_options = options]

Client ==
    /\ retval = "WR_OK" /\ Len(calls) < MaxCalls
    /\ \E entry \in ClientEntries :
        \/ \E val \in ClientValues \cup {NULL} :
               Call("set", entry, val, iniparser_setstr(wr_options.output_options, entry, val))
        \/ Call("unset", entry, NULL, iniparser_unset(wr_options.output_options, entry))
    /\ UNCHANGED <<files, argv, need, encoders, retval, at>>

Next == LoadFiles \/ Argument \/ EndOfArguments \/ NextCodec \/ FinalChecks \/ Client

Spec == Init /\ [][Next]_vars

--------------------------------------------------------------------------------

Loaded == wr_options.output_options # NULL
Dictionaries == IF Loaded THEN {wr_options.codecs_options, wr_options.output_options} ELSE {}

Entry(d, key) == d.slots[First(Holding(d, key))].val
Stored(d) == {d.slots[i].key : i \in Occupied(d)}
Contents(d) == [key \in Stored(d) |-> Entry(d, key)]

\* The count agrees with the slots that are used, and no key is there twice,
\* after growing and after removals (iniparser.c:381-477): dictionary_set writes
\* behind the arrays when it counts wrong.
TypeOK ==
    /\ \A d \in Dictionaries :
        /\ d.n = Cardinality(Occupied(d))
        /\ \A i, j \in Occupied(d) : d.slots[i].key = d.slots[j].key => i = j
    /\ retval \in {"running", "WR_OK", "WR_FATAL", "WR_STOP"}
    /\ wr_options.codec_list # NULL => wr_options.codec_list \in Seq(DOMAIN encoder_map)

\* After the command line every entry has the value that was given for it last, in
\* any order of the arguments, or else the one of its file, whatever hashes
\* collide and however often the dictionary grew (options.c:196-203, 286-303).
GivenLast(letter, key, original) ==
    LET given == {i \in DOMAIN argv : argv[i][1] = letter /\ argv[i][2] # NULL
                                      /\ strlwc(argv[i][2][1]) = key}
    IN IF given = {} THEN original
       ELSE argv[CHOOSE i \in given : \A j \in given : j <= i][2][2]

LastOneWins ==
    at = "codecs" =>
        \A o \in {<<"O", wr_options.codecs_options, files.codecs>>,
                  <<"o", wr_options.output_options, files.output>>} :
            \A key \in Stored(o[2]) \cup {strlwc(argv[i][2][1]) : i \in {j \in DOMAIN argv : argv[j][1] = o[1] /\ argv[j][2] # NULL}} :
                dictionary_get(o[2], key, "absent")
                    = GivenLast(o[1], key, dictionary_get(iniparser_new(o[3]), key, "absent"))

\* The program goes on only with two different files, a format it can write, and
\* the codecs of the last list, each with the payload type that the command line gave
\* last for its section, or else the file, or else the program, wherever the list stood
\* among the arguments; a negative one counts as none (options.c:185-189, 211-236).
ReadyToRun ==
    retval = "WR_OK" =>
        /\ NULL \notin {wr_options.filename, wr_options.output_filename}
        /\ wr_options.filename # wr_options.output_filename
        /\ wr_options.output_format \in {"pcap", "rtpdump"}
        /\ [i \in DOMAIN wr_options.codec_list |-> encoders[wr_options.codec_list[i]].name]
               = need.codec_list
        /\ \A c \in Range(wr_options.codec_list) :
            LET name == encoders[c].name
                key == <<Section[name], "payload_type">>
                val == GivenLast("O", key, dictionary_get(iniparser_new(files.codecs), key, INI_INVALID_KEY))
            IN encoders[c].payload_type
                   = IF val = INI_INVALID_KEY THEN Fallback[name]
                     ELSE IF atoi[val] < 0 THEN Fallback[name]
                     ELSE atoi[val]

Plain(val) == val # NULL /\ Uncomment[val] # ""

\* iniparser_dump_ini writes what iniparser_new reads back: every section and, of
\* the sections, every value up to what looks like a comment or a blank at its
\* end.  Lost are empty values and the keys of no section (iniparser.c:645-683,
\* 928-979).
SavedAndLoaded ==
    Loaded =>
        LET map == Contents(wr_options.output_options)
            again == Contents(iniparser_new(iniparser_dump_ini(wr_options.output_options)))
            saved == {key \in DOMAIN map :
                         Len(key) = 1 \/ (<<key[1]>> \in DOMAIN map /\ Plain(map[key]))}
        IN SectionNames(wr_options.output_options) # <<>> =>
            again = [key \in saved |-> IF Len(key) = 1 THEN NULL ELSE Crop[Uncomment[map[key]]]]

\* What has been asked of the output options, by every argument and by users.
Requests ==
    [i \in DOMAIN argv |->
        IF argv[i][1] = "o" /\ argv[i][2] # NULL
        THEN [do |-> "set", key |-> strlwc(argv[i][2][1]), val |-> argv[i][2][2]]
        ELSE [do |-> "other"]]
    \o calls

\* The map that the output options are, before they are loaded as the file has it.
Current ==
    IF Loaded THEN Contents(wr_options.output_options)
    ELSE Contents(IF files.output = NULL THEN dictionary_new ELSE iniparser_new(files.output))

Map == INSTANCE AbstractDictionary WITH
    Keys <- DOMAIN Hash, Sections <- {key \in DOMAIN Hash : Len(key) = 1},
    Values <- DOMAIN Crop, requests <- Requests, map <- Current

\* iniparser_setstr is asked for what it does otherwise than its comments say: it adds an
\* entry it does not find, where iniparser.c:885-886 has it refused, and keeps a key whose
\* value is set to NULL, where iniparser.c:374-377 has it deleted.
AddsOrKeeps ==
    Requests' # <<>> /\ Last(Requests').do = "set"
    /\ (Last(Requests').key \notin DOMAIN Current \/ Last(Requests').val = NULL)

\* The output options are a map, and every request changes the entry it names and
\* no other, as the comments of iniparser.c promise it, whatever hashes collide,
\* slots are reused and arrays grow; but for the requests of AddsOrKeeps, all of which
\* store the value, NULL included, under their key (iniparser.c:381-430, 891-895).
ImplementsDictionary ==
    /\ Map!Init
    /\ [][IF AddsOrKeeps
          THEN Map!Made /\ Map!SetKey(Last(Requests').key, Last(Requests').val)
          ELSE Map!Request]_<<Current, Requests>>

================================================================================
