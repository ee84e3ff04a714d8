------------------------------- MODULE IniParser --------------------------------
(***************************************************************************)
(* src/contrib/iniparser.c: a dictionary of text in slots found by hash, the *)
(* parser that fills it from a configuration file, the writer that saves it, *)
(* and the typed getters.                                                   *)
(*                                                                          *)
(* A key "section:key" is the sequence <<section, key>> of its parts, the    *)
(* entry of a section <<section>>, and a key in front of all sections        *)
(* <<"", key>>.  A value is a string or NULL; what the string functions do to *)
(* it is given by functions: Lower for strlwc, Crop for strcrop, Uncomment    *)
(* for the text in front of a ; or #, and atoi.  A line of a file is a        *)
(* record; lines longer than the buffer are left out.                       *)
(***************************************************************************)
EXTENDS Integers, Sequences, SequencesExt

CONSTANTS
    NULL,
    Lower,          \* [part -> part], tolower of every letter
    Hash,           \* [key -> Nat], dictionary_hash
    Crop,           \* [value -> value], without trailing blanks
    Uncomment,      \* [value -> value], what is in front of a comment
    atoi,           \* [value -> Int]
    Truth,          \* [value -> {1, 0, NULL}], by the first letter
    DICTMINSZ

ASSUME IniParserAssumption ==
    /\ DICTMINSZ \in Nat \ {0} /\ Hash \in [DOMAIN Hash -> Nat]
    /\ \A val \in DOMAIN Crop : atoi[val] \in Int

\* Keys have parts; what is in lower case stays as it is; what is cut off a text
\* leaves a text, and nothing can be cut off the empty one.
ASSUME TextAssumption ==
    /\ DOMAIN Hash \subseteq Seq(DOMAIN Lower) \ {<<>>}
    /\ Lower \in [DOMAIN Lower -> DOMAIN Lower] /\ "" \in DOMAIN Lower /\ Lower[""] = ""
    /\ \A part \in DOMAIN Lower : Lower[Lower[part]] = Lower[part]
    /\ Crop \in [DOMAIN Crop -> DOMAIN Crop] /\ Uncomment \in [DOMAIN Crop -> DOMAIN Crop]
    /\ "" \in DOMAIN Crop /\ Uncomment[""] = ""

--------------------------------------------------------------------------------
\* The dictionary.

Slot == [key : DOMAIN Hash \cup {NULL}, val : DOMAIN Crop \cup {NULL}, hash : Nat]
Dictionary == [n : Nat, slots : Seq(Slot)]

\* NULL is no key, no text and no dictionary.
ASSUME NullAssumption == NULL \notin Seq(DOMAIN Lower) \cup DOMAIN Crop \cup Dictionary

Empty == [key |-> NULL, val |-> NULL, hash |-> 0]

\* calloc of size slots
Blackboard(size) == [i \in 1..size |-> Empty]

dictionary_new == [n |-> 0, slots |-> Blackboard(DICTMINSZ)]

Occupied(d) == {i \in DOMAIN d.slots : d.slots[i].key # NULL}

Holding(d, key) == {i \in Occupied(d) : d.slots[i].hash = Hash[key] /\ d.slots[i].key = key}

First(positions) == CHOOSE i \in positions : \A j \in positions : i <= j

\* The value of a key.  A hash is compared with every slot, and an empty slot's
\* hash is 0, so a key with that hash (the empty text) is compared with no text.
dictionary_get(d, key, def) ==
    LET i == First({j \in DOMAIN d.slots : d.slots[j].hash = Hash[key] /\ d.slots[j].key \in {key, NULL}})
    IN IF \A j \in DOMAIN d.slots : d.slots[j].hash # Hash[key] \/ d.slots[j].key \notin {key, NULL}
       THEN def
       ELSE IF d.slots[i].key = NULL THEN "crash" ELSE d.slots[i].val

\* All three arrays are copied into arrays of twice the size.
mem_double(slots) == slots \o Blackboard(Len(slots))

\* Mutant of dictionary_set: the keys are taken as equal when their hashes are.
dictionary_setByHash(d, key, val) ==
    LET found == {i \in Occupied(d) : d.slots[i].hash = Hash[key]}
        slots == IF d.n = Len(d.slots) THEN mem_double(d.slots) ELSE d.slots
        i == First({j \in DOMAIN slots : slots[j].key = NULL})
    IN IF d.n > 0 /\ found # {} THEN [d EXCEPT !.slots[First(found)].val = val]
       ELSE [n |-> d.n + 1,
             slots |-> [slots EXCEPT ![i] = [key |-> key, val |-> val, hash |-> Hash[key]]]]

\* The value of the key is replaced, or the first empty slot filled.
dictionary_set(d, key, val) ==
    LET found == Holding(d, key)
        slots == IF d.n = Len(d.slots) THEN mem_double(d.slots) ELSE d.slots
        i == First({j \in DOMAIN slots : slots[j].key = NULL})
    IN IF d.n > 0 /\ found # {} THEN [d EXCEPT !.slots[First(found)].val = val]
       ELSE [n |-> d.n + 1,
             slots |-> [slots EXCEPT ![i] = [key |-> key, val |-> val, hash |-> Hash[key]]]]

\* Mutant of dictionary_unset: the number of entries stays.
dictionary_unsetUncounted(d, key) ==
    IF Holding(d, key) = {} THEN d ELSE [d EXCEPT !.slots[First(Holding(d, key))] = Empty]

dictionary_unset(d, key) ==
    IF Holding(d, key) = {} THEN d
    ELSE [n |-> d.n - 1, slots |-> [d.slots EXCEPT ![First(Holding(d, key))] = Empty]]

Used(d) == {d.slots[i] : i \in Occupied(d)}

\* What a loop over the slots writes that skips those not in T.
Those(slots, T) ==
    LET some[i \in 0..Len(slots)] ==
            IF i = 0 THEN <<>>
            ELSE IF slots[i] \in T THEN Append(some[i - 1], slots[i])
            ELSE some[i - 1]
    IN some[Len(slots)]

\* Mutant of dictionary_dump: as many slots as there are entries are looked at.
dictionary_dumpCounted(d) == Those(SubSeq(d.slots, 1, d.n), Used(d))

\* The entries in the order of their slots.
dictionary_dump(d) == Those(d.slots, Used(d))

--------------------------------------------------------------------------------
\* The parser and the writer.

strlwc(key) == [i \in DOMAIN key |-> Lower[key[i]]]

iniparser_setstr(d, entry, val) == dictionary_set(d, strlwc(entry), val)
iniparser_unset(d, entry) == dictionary_unset(d, strlwc(entry))

\* "section:key", or the section itself
LongKey(sec, key) == IF key = NULL THEN <<sec>> ELSE <<sec>> \o key

iniparser_add_entry(d, sec, key, val) == dictionary_set(d, LongKey(sec, key), val)

\* Two quotes, as the value "" or '' is read when the line goes on behind it.
TwoQuotes == "''"

\* What sscanf and the handling of empty values make of a line's value, or NULL
\* when no format matches: text in quotes keeps its comment characters; nothing in
\* quotes is empty if a comment or the end of the file follows at once; and a line
\* with nothing behind the = is skipped.
ReadValue(line) ==
    IF line.quoted /\ line.value # "" THEN Crop[line.value]
    ELSE IF line.quoted THEN (IF line.last THEN "" ELSE TwoQuotes)
    ELSE IF Uncomment[line.value] = "" THEN NULL
    ELSE Crop[Uncomment[line.value]]

\* sec, the section in which line i is
SectionAt(lines, i) ==
    LET sections == {j \in 1..i : lines[j].kind = "section"}
    IN IF sections = {} THEN ""
       ELSE strlwc(lines[CHOOSE j \in sections : \A k \in sections : k <= j].name)[1]

\* What line i adds to the dictionary: sec and key, and the value, if anything.
AddsSection(line) == line.kind = "section"
AddsKey(line) == line.kind = "key" /\ ReadValue(line) # NULL

ReadLine(lines, i, d) ==
    IF AddsSection(lines[i]) THEN iniparser_add_entry(d, SectionAt(lines, i), NULL, NULL)
    ELSE IF AddsKey(lines[i])
    THEN iniparser_add_entry(d, SectionAt(lines, i), strlwc(lines[i].name), ReadValue(lines[i]))
    ELSE d

\* The hash is defined for the keys of a file, and the values are texts.
IsFile(lines) ==
    /\ lines \in Seq(Range(lines))
    /\ \A i \in DOMAIN lines :
        /\ AddsSection(lines[i]) => lines[i].name \in Seq(DOMAIN Lower) \ {<<>>}
        /\ AddsKey(lines[i]) => lines[i].name \in Seq(DOMAIN Lower)
        /\ AddsSection(lines[i]) => LongKey(SectionAt(lines, i), NULL) \in DOMAIN Hash
        /\ AddsKey(lines[i]) =>
            /\ LongKey(SectionAt(lines, i), strlwc(lines[i].name)) \in DOMAIN Hash
            /\ ReadValue(lines[i]) \in DOMAIN Crop

\* iniparser_new: the dictionary a file gives, line by line.
iniparser_new(lines) ==
    LET read[i \in 0..Len(lines)] ==
            IF i = 0 THEN dictionary_new ELSE ReadLine(lines, i, read[i - 1])
    IN read[Len(lines)]

IsSection(slot) == Len(slot.key) = 1

\* The names of the sections, by iniparser_getnsec and iniparser_getsecname.
SectionNames(d) ==
    LET found == Those(dictionary_dump(d), {slot \in Used(d) : IsSection(slot)})
    IN [i \in DOMAIN found |-> found[i].key[1]]

KeyLine(name, value) ==
    [kind |-> "key", name |-> name, value |-> value, quoted |-> FALSE, last |-> FALSE]

\* The entries whose key starts with "secname:".
Inside(d, secname) ==
    Those(dictionary_dump(d), {slot \in Used(d) : ~IsSection(slot) /\ slot.key[1] = secname})

Text(val) == IF val = NULL THEN "" ELSE val

\* A section and what is inside, as lines of the file.
SectionLines(d, secname) ==
    LET inside == Inside(d, secname)
    IN <<[kind |-> "section", name |-> <<secname>>]>>
       \o [i \in DOMAIN inside |-> KeyLine(Tail(inside[i].key), Text(inside[i].val))]

\* iniparser_dump_ini: the lines of the file.  Without any section the whole keys
\* are written; else the keys of every section, and no others.
iniparser_dump_ini(d) ==
    LET names == SectionNames(d)
        entries == dictionary_dump(d)
    IN IF names = <<>>
       THEN [i \in DOMAIN entries |-> KeyLine(entries[i].key, entries[i].val)]
       ELSE FlattenSeq([i \in DOMAIN names |-> SectionLines(d, names[i])])

--------------------------------------------------------------------------------
\* The getters.

iniparser_getstring(d, key, def) == dictionary_get(d, strlwc(key), def)

INI_INVALID_KEY == "invalid key"

iniparser_getint(d, key, notfound) ==
    LET str == iniparser_getstring(d, key, INI_INVALID_KEY)
    IN IF str = INI_INVALID_KEY THEN notfound ELSE atoi[str]

iniparser_getpositiveint(d, key, notfound) ==
    IF iniparser_getint(d, key, notfound) <= 0 THEN notfound
    ELSE iniparser_getint(d, key, notfound)

iniparser_getnonnegativeint(d, key, notfound) ==
    IF iniparser_getint(d, key, notfound) < 0 THEN notfound
    ELSE iniparser_getint(d, key, notfound)

\* A value that starts with none of y, t, 1, n, f and 0 is no answer.
iniparser_getboolean(d, key, notfound) ==
    LET c == iniparser_getstring(d, key, INI_INVALID_KEY)
    IN IF c = INI_INVALID_KEY \/ Truth[c] = NULL THEN notfound ELSE Truth[c]

\* No text is the pointer that stands for a missing entry.
ASSUME InvalidKeyAssumption == INI_INVALID_KEY \notin DOMAIN Crop

iniparser_find_entry(d, entry) ==
    iniparser_getstring(d, entry, INI_INVALID_KEY) # INI_INVALID_KEY

================================================================================
