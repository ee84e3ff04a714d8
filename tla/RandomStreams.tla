------------------------------ MODULE RandomStreams ------------------------------
(***************************************************************************)
(* What the random number package promises, after the comments of           *)
(* src/contrib/ranlib/com.c: generators whose streams are parts of one long  *)
(* sequence, 2^50 numbers apart and divided into blocks of 2^30 numbers.     *)
(* Every state is two seeds; the following state is their product with the   *)
(* multipliers, modulo the moduli, and a jump is that step repeated.          *)
(***************************************************************************)
EXTENDS Integers, Sequences

CONSTANTS Generators, Calls
VARIABLES
    called,         \* the last call, a tuple of its name and arguments
    seeded,         \* the seeds have been set
    chosen,         \* the generator in use
    antithetic,     \* [Generators -> BOOLEAN]
    streams,        \* for every generator: its initial seeds, those of its block, the current
    drawn,          \* the last number drawn
    answer,         \* what the last call returned: a tuple
    stopped         \* the program was ended

vars == <<called, seeded, chosen, antithetic, streams, drawn, answer, stopped>>

M == <<2147483563, 2147483399>>
A == <<40014, 40692>>
Default == <<1234567890, 123456789>>

\* x + y and x * y modulo m, for x and y below m, without a number above m.
Plus(x, y, m) == IF x >= m - y THEN x - (m - y) ELSE x + y

Times(x, y, m) ==
    LET times[n \in Nat, s \in Nat] ==
            IF n = 0 THEN 0
            ELSE LET even == times[n \div 2, Plus(s, s, m)]
                 IN IF n % 2 = 0 THEN even ELSE Plus(even, s, m)
    IN times[x, y]

TimesBoth(factors, seeds) == <<Times(factors[1], seeds[1], M[1]), Times(factors[2], seeds[2], M[2])>>

\* What 2^k steps multiply the seeds by.
Repeated(k) ==
    LET repeated[n \in 0..k, factors \in Nat \X Nat] ==
            IF n = 0 THEN factors ELSE repeated[n - 1, TimesBoth(factors, factors)]
    IN repeated[k, A]

Block == Repeated(30)
Stream == Repeated(50)

Number(seeds, inverted) ==
    LET difference == seeds[1] - seeds[2]
        number == IF difference > 0 THEN difference ELSE difference + (M[1] - 1)
    IN IF inverted THEN M[1] - number ELSE number

At(seeds) == [initial |-> seeds, block |-> seeds, current |-> seeds]

\* All streams begin anew, the first from these seeds and every one far behind the
\* one before; whichever is in use, every state is that of its initial seeds.
Restarted(seeds) ==
    LET first[g \in Generators] == IF g = 1 THEN seeds ELSE LET s == first[g - 1] IN TimesBoth(Stream, s)
    IN [g \in Generators |-> At(first[g])]

Allowed(seeds) == \A i \in 1..2 : seeds[i] \in 1..(M[i] - 1)

\* The calls that end the program.
Misused(call) ==
    \/ call[1] \in {"initgn", "setsd", "setant", "advnst", "getsd"} /\ ~seeded
    \/ call[1] = "gscgn" /\ call[2] \notin Generators
    \/ call[1] = "setall" /\ ~Allowed(call[2])
    \/ call[1] = "initgn" /\ call[2] \notin -1..1
    \/ call[1] = "initgn" /\ call[2] = 1 /\ ~Allowed(streams[chosen].block)
    \/ call[1] = "advnst" /\ ~Allowed(streams[chosen].current)
    \/ call[1] = "ignuin" /\ call[3] - call[2] \notin 0..(M[1] - 2)

--------------------------------------------------------------------------------
Init ==
    /\ called = <<"none">> /\ chosen = 1 /\ drawn = 0 /\ answer = <<>>
    /\ seeded = FALSE /\ stopped = FALSE
    /\ antithetic = [g \in Generators |-> FALSE]
    /\ streams = [g \in Generators |-> At(<<0, 0>>)]

Stop ==
    /\ Misused(called') /\ stopped' = TRUE
    /\ UNCHANGED <<seeded, chosen, antithetic, streams, drawn, answer>>

\* A call that only begins, or only answers.
Ask ==
    /\ ~Misused(called')
    /\ \/ called'[1] = "gengam" /\ UNCHANGED answer
       \/ called'[1] = "ignuin" /\ IF called'[2] = called'[3] THEN answer' = <<called'[2]>> ELSE UNCHANGED answer
       \/ called'[1] = "getsd" /\ answer' = streams[chosen].current
    /\ UNCHANGED <<seeded, chosen, antithetic, streams, drawn, stopped>>

\* The next number of the generator in use, for a call that draws numbers, when the
\* streams stand there.
DrawFrom(from) ==
    /\ LET now == TimesBoth(A, from[chosen].current)
       IN /\ streams' = [from EXCEPT ![chosen].current = now]
          /\ drawn' = Number(now, antithetic[chosen])
    /\ seeded' = TRUE
    /\ \/ called'[1] = "ignlgi" /\ answer' = <<drawn'>>
       \/ called'[1] = "ignuin" /\ (answer' = answer \/ answer'[1] \in called[2]..called[3])
       \/ called'[1] = "gengam" /\ answer' = answer
    /\ called'[1] # "ignlgi" => UNCHANGED called
    /\ UNCHANGED <<chosen, antithetic, stopped>>

Draw == DrawFrom(IF seeded THEN streams ELSE Restarted(Default))

Choose ==
    /\ called'[1] = "gscgn" /\ ~Misused(called') /\ chosen' = called'[2]
    /\ UNCHANGED <<seeded, antithetic, streams, drawn, answer, stopped>>

Invert ==
    /\ called'[1] = "setant" /\ ~Misused(called')
    /\ antithetic' = [antithetic EXCEPT ![chosen] = called'[2]]
    /\ UNCHANGED <<seeded, chosen, streams, drawn, answer, stopped>>

RestartAt(new) ==
    /\ called'[1] = "setall" /\ ~Misused(called')
    /\ streams' = new
    /\ seeded' = TRUE
    /\ UNCHANGED <<chosen, antithetic, drawn, answer, stopped>>

Restart == RestartAt(Restarted(called'[2]))

\* The generator in use goes to the start of its stream, its block or the next block,
\* to other seeds, or ahead.
Move ==
    /\ called'[1] \in {"initgn", "setsd", "advnst"} /\ ~Misused(called')
    /\ LET s == streams[chosen]
           block == IF called'[2] = -1 THEN s.initial
                    ELSE IF called'[2] = 0 THEN s.block ELSE TimesBoth(Block, s.block)
       IN streams' = [streams EXCEPT ![chosen] =
              CASE called'[1] = "initgn" -> [s EXCEPT !.block = block, !.current = block]
                [] called'[1] = "setsd" -> At(called'[2])
                [] called'[1] = "advnst" -> At(TimesBoth(Repeated(called'[2]), s.current))]
    /\ UNCHANGED <<seeded, chosen, antithetic, drawn, answer, stopped>>

Called == ~stopped /\ called' \in Calls

Next == Called /\ (Stop \/ Ask \/ Draw \/ Choose \/ Invert \/ Restart \/ Move)

Spec == Init /\ [][Next]_vars

================================================================================
