-------------------------------- MODULE MCOptions -------------------------------
(* Two small configuration files, command lines of up to four arguments, and *)
(* a dictionary that starts with two slots and whose keys share two hashes.  *)
EXTENDS Options

MCParts == {"", "gsm", "GSM", "g711a", "g711u", "speex", "dummy", "sort", "Sort", "payload_type",
            "quality", "enabled", "buffer_size"}
MCLower == [p \in MCParts |-> CASE p = "GSM" -> "gsm" [] p = "Sort" -> "sort" [] OTHER -> p]
MCKeys == {<<"">>, <<"enabled">>, <<"", "enabled">>, <<"gsm">>, <<"g711a">>, <<"speex">>, <<"sort">>}
          \cup ({"gsm", "g711a", "speex", "sort"} \X {"payload_type", "quality", "enabled", "buffer_size"})
          \cup ({"dummy", "g711u"} \X {"payload_type"})
MCHash == [k \in MCKeys |-> IF k = <<"">> THEN 0 ELSE Len(k)]

MCValues == {"", "-1", "1", "97 ", "97", "yes;", "yes", "''", "(null)"}
MCCrop == [v \in MCValues |-> IF v = "97 " THEN "97" ELSE v]
MCUncomment == [v \in MCValues |-> IF v = "yes;" THEN "yes" ELSE v]
MCatoi == [v \in MCValues |-> CASE v \in {"97 ", "97"} -> 97 [] v = "1" -> 1 [] v = "-1" -> -1 [] OTHER -> 0]
MCTruth == [v \in MCValues |-> CASE v \in {"yes;", "yes", "1"} -> 1 [] OTHER -> NULL]

Sect(name) == [kind |-> "section", name |-> name]
Key(name, value, quoted) ==
    [kind |-> "key", name |-> <<name>>, value |-> value, quoted |-> quoted, last |-> FALSE]

MCOutputFile == <<Key("enabled", "1", FALSE), Sect(<<"sort">>), Key("enabled", "yes;", TRUE)>>
MCFiles == {
    [codecs |-> NULL, output |-> MCOutputFile],
    [codecs |-> <<>>, output |-> NULL],
    [codecs |-> <<[kind |-> "comment"], Sect(<<"GSM">>), Key("payload_type", "1", FALSE)>>,
     output |-> MCOutputFile],
    [codecs |-> <<Sect(<<"g711a">>), Key("payload_type", "", FALSE), Key("payload_type", "-1", FALSE),
                  Key("quality", "", TRUE),
                  [Key("quality", "", TRUE) EXCEPT !.last = TRUE]>>,
     output |-> <<Key("enabled", "97 ", FALSE)>>]}

MCArguments == {
    <<"h", "">>, <<"v", "">>, <<"f", "a.wav">>, <<"t", "a.wav">>, <<"t", "a.pcap">>, <<"m", "wav">>,
    <<"c", <<"GSM", "PCMA", "GSM">>>>, <<"c", <<"PCMA", "G729">>>>,
    <<"o", <<<<"Sort", "enabled">>, "97">>>>, <<"o", <<<<"enabled">>, "">>>>,
    <<"O", <<<<"gsm", "payload_type">>, "97">>>>, <<"O", <<<<"GSM", "payload_type">>, "1">>>>}

MCClientEntries == {<<"Sort">>, <<"sort", "enabled">>, <<"speex", "quality">>}
MCClientValues == {"yes;"}

================================================================================
