---------------------------- MODULE AbstractDictionary --------------------------
(***************************************************************************)
(* What a configuration is to its users, as the comments of                  *)
(* src/contrib/iniparser.c on dictionary_set, dictionary_unset,              *)
(* iniparser_find_entry and iniparser_setstr promise it: a map from keys to   *)
(* values, in which each request gives one entry a value or removes it, and    *)
(* what is asked of others changes nothing.                                 *)
(***************************************************************************)
EXTENDS Functions, Sequences, SequencesExt

CONSTANTS
    Keys,
    Sections,   \* the keys that stand for sections
    Values,
    NULL        \* no value
VARIABLES map, requests

\* Only sections "are stored as keys with NULL associated values" (iniparser.c:857-858).
Init ==
    /\ DOMAIN map \subseteq Keys /\ Range(map) \subseteq Values \cup {NULL}
    /\ \A key \in DOMAIN map : map[key] = NULL => key \in Sections
    /\ requests = <<>>

\* "replaced by the provided one", or "added" (iniparser.c:364-366)
SetKey(key, val) == map' = [k \in DOMAIN map \cup {key} |-> IF k = key THEN val ELSE map[k]]

UnsetKey(key) == map' = Restrict(map, DOMAIN map \ {key})

\* "If the given entry can be found in the dictionary, it is modified ...  If it
\* cannot be found, -1 is returned" (iniparser.c:885-886); "setting the variable content
\* to NULL is equivalent to deleting the variable" (iniparser.c:374-375).
SetEntry(entry, val) ==
    IF entry \notin DOMAIN map THEN UNCHANGED map
    ELSE IF val = NULL THEN UnsetKey(entry)
    ELSE SetKey(entry, val)

\* One more request, [do, key, val], is made.
Made == requests' # <<>> /\ requests = Front(requests')

Request ==
    /\ Made
    /\ LET request == Last(requests') IN
       \/ request.do = "set" /\ request.val \in Values \cup {NULL}
          /\ SetEntry(request.key, request.val)
       \/ request.do = "unset" /\ UnsetKey(request.key)
       \/ request.do = "other" /\ UNCHANGED map

Spec == Init /\ [][Request]_<<map, requests>>

================================================================================
