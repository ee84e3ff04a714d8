--------------------------------- MODULE MCRandom ---------------------------------
(* Clients of the generators, and the delay filters' calls after main's setall. *)
EXTENDS RandomDeviates

MCUniforms == BOOLEAN \X {1, 2^25 - 1, 2^25, 2^29, 2^29 + 2^28, 2^30 - 1, 2^30}

Last == <<2147483562, 2147483398>>

StreamCalls ==
    {<<"setall", s>> : s \in {<<1, 1>>, Last, <<0, 5>>}}
    \cup {<<"setsd", <<1082741824, 32768>>>>, <<"setsd", <<0, 0>>>>}
    \cup {<<"gscgn", g>> : g \in {1, 2, numg + 1}}
    \cup {<<"initgn", t>> : t \in -1..2}
    \cup {<<"ignlgi">>, <<"advnst", 3>>, <<"setant", TRUE>>, <<"getsd">>}

\* Delays: usual, half of all numbers rejected, all numbers, more than all.
DelayCalls ==
    {<<"setall", <<1804289383, 846930886>>>>, <<"ignuin", 0, 9>>, <<"ignuin", 5, 5>>,
     <<"ignuin", 7, 3>>, <<"ignuin", 0, 2^30>>, <<"ignuin", 0, maxnum>>, <<"ignuin", 0, maxnum + 1>>,
     <<"setant", TRUE>>}

\* Shapes of every size, also 0 and after one below 1; and one sample of each kind in full.
GammaCalls(shapes) == {<<"setall", <<1804289383, 846930886>>>>} \cup {<<"gengam", a>> : a \in shapes}

MCClients ==
    {[calls |-> StreamCalls, limit |-> 4], [calls |-> DelayCalls, limit |-> 6],
     [calls |-> GammaCalls({0, 5, 10, 40, 140}), limit |-> 9]}
    \cup {[calls |-> {<<"gengam", a>>}, limit |-> 12] : a \in {0, 5, 40}}

================================================================================
