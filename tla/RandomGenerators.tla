---------------------------- MODULE RandomGenerators -----------------------------
(***************************************************************************)
(* The random number generators of src/contrib/ranlib: com.c, and ignuin,    *)
(* mltmod and the getters of ranlib.c.  The arithmetic is the code's, with   *)
(* its constants, so that a number beyond 32 bits would be noticed: the      *)
(* checker has no larger ones.  A client makes calls of its choice; the      *)
(* numbers that ignuin draws are steps of their own.                        *)
(***************************************************************************)
EXTENDS Integers, Sequences

CONSTANTS
    numg,           \* how many generators there are: 32 in the code
    Clients         \* what is called: records of the calls and of how many of them
                    \* and of their draws are made
ASSUME GeneratorsAssumption == numg \in Nat \ {0, 1}

VARIABLES
    client,
    made,           \* how many calls and draws were made
    called,         \* the last call
    at,             \* "idle", or where the last call is
    common,         \* the tables and flags that the calls share
    drawn,          \* what ignlgi returned last
    answer,         \* what the last call returned that returns anything
    exited          \* exit was called

generators == <<client, made, called, at, common, drawn, answer, exited>>

h == 32768
maxnum == 2147483561
Xm == <<2147483563, 2147483399>>
Xa == <<40014, 40692>>
Xaw == <<1033780774, 1494757890>>
Xavw == <<2082007225, 784306273>>

Every(value) == [g \in 1..numg |-> value]

Init ==
    /\ client \in Clients
    /\ made = 0 /\ called = <<"none">> /\ at = "idle" /\ drawn = 0 /\ answer = <<>> /\ exited = FALSE
    /\ common = [qinit |-> FALSE, qstate |-> FALSE, curntg |-> 1, Xqanti |-> Every(FALSE),
                 Xig |-> Every(<<0, 0>>), Xlg |-> Every(<<0, 0>>), Xcg |-> Every(<<0, 0>>)]

--------------------------------------------------------------------------------
\* a * s modulo m, of the parts of a = (a2 * h + a1) * h + a0.

NotNegative(p, m) == IF p < 0 THEN p % m ELSE p

\* h * s modulo m.
TimesH(s, m) ==
    LET qh == m \div h
        k == s \div qh
    IN NotNegative(h * (s - k * qh) - k * (m - h * qh), m)

\* p + a * s modulo m, for a < h.
PlusTimes(p, a, s, m) ==
    LET q == m \div a
        k == s \div q
        less == p - k * (m - a * q)
    IN IF a = 0 THEN p
       ELSE NotNegative((IF less > 0 THEN less - m ELSE less) + a * (s - k * q), m)

\* Mutant of mltmod: the highest part, which few multipliers have, is left out.
mltmodOfTwoParts(a, s, m) ==
    LET a1s == PlusTimes(0, (a \div h) % h, s, m)
    IN PlusTimes(TimesH(a1s, m), a % h, s, m)

mltmod(a, s, m) ==
    LET a1 == a \div h
        a2s == IF a1 >= h THEN TimesH(s, m) ELSE 0
        a1s == PlusTimes(a2s, a1 % h, s, m)
    IN PlusTimes(TimesH(a1s, m), a % h, s, m)

mltmods(a, s) == <<mltmod(a[1], s[1], Xm[1]), mltmod(a[2], s[2], Xm[2])>>

\* mltmod ends the program unless both factors are proper.
InOrder(s) == \A i \in 1..2 : 0 < s[i] /\ s[i] < Xm[i]

--------------------------------------------------------------------------------
\* What the calls do with the tables c.

inrgcm(c) == [c EXCEPT !.qinit = TRUE, !.Xqanti = Every(FALSE)]

Initialised(c) == IF c.qinit THEN c ELSE inrgcm(c)

initgn(c, isdtyp) ==
    LET g == c.curntg
        first == IF isdtyp = -1 THEN c.Xig[g]
                 ELSE IF isdtyp = 0 THEN c.Xlg[g] ELSE mltmods(Xaw, c.Xlg[g])
    IN [c EXCEPT !.Xlg[g] = first, !.Xcg[g] = first]

setsd(c, seeds) == initgn([c EXCEPT !.Xig[c.curntg] = seeds], -1)

\* The generator in use is initialised with the first one's seeds in place, then
\* every other generator while it is in use.
setall(c, seeds) ==
    LET begun == [Initialised(c) EXCEPT !.qstate = TRUE, !.Xig[1] = seeds]
        upto[g \in 1..numg] ==
            IF g = 1 THEN initgn(begun, -1)
            ELSE LET p == upto[g - 1]
                     seeded == [p EXCEPT !.Xig[g] = mltmods(Xavw, p.Xig[g - 1]), !.curntg = g]
                 IN initgn(seeded, -1)
        all == upto[numg]
    IN [all EXCEPT !.curntg = c.curntg]

advnst(c, k) ==
    LET times[i \in 0..k, ib \in Nat \X Nat] ==
            IF i = 0 THEN ib ELSE times[i - 1, mltmods(ib, ib)]
    IN setsd(c, mltmods(times[k, Xa], c.Xcg[c.curntg]))

\* The seeds after these, without a number above the modulus.
Following(s) ==
    LET k1 == s[1] \div 53668
        k2 == s[2] \div 52774
        s1 == Xa[1] * (s[1] - k1 * 53668) - k1 * 12211
        s2 == Xa[2] * (s[2] - k2 * 52774) - k2 * 3791
    IN <<IF s1 < 0 THEN s1 + Xm[1] ELSE s1, IF s2 < 0 THEN s2 + Xm[2] ELSE s2>>

\* The first number drawn seeds the generators unless setall did.
ignlgi(c) ==
    LET ready == Initialised(c)
        seeded == IF ready.qstate THEN ready ELSE setall(ready, <<1234567890, 123456789>>)
        g == seeded.curntg
    IN [seeded EXCEPT !.Xcg[g] = Following(seeded.Xcg[g])]

\* The number that it returns.
Number(c) ==
    LET s == c.Xcg[c.curntg]
        z == s[1] - s[2]
        positive == IF z < 1 THEN z + (Xm[1] - 1) ELSE z
    IN IF c.Xqanti[c.curntg] THEN Xm[1] - positive ELSE positive

--------------------------------------------------------------------------------
\* The calls.

Idle == at = "idle" /\ ~exited

Call(call) ==
    /\ Idle /\ made < client.limit /\ call \in client.calls
    /\ made' = made + 1 /\ called' = call
    /\ UNCHANGED client

Sets(c) == common' = c /\ UNCHANGED <<at, drawn, answer, exited>>
Answers(value) == answer' = value /\ UNCHANGED <<at, common, drawn, exited>>
Exits == exited' = TRUE /\ UNCHANGED <<at, common, drawn, answer>>

\* The next number of the generator in use, while a call goes on.
Draw ==
    /\ common' = ignlgi(common)
    /\ drawn' = Number(common')

DrawInCall ==
    /\ made < client.limit /\ made' = made + 1
    /\ Draw
    /\ UNCHANGED <<client, called, exited>>

CallSetall ==
    \E call \in client.calls :
        /\ call[1] = "setall" /\ Call(call)
        /\ IF InOrder(call[2]) THEN Sets(setall(common, call[2])) ELSE Exits

CallGscgn ==
    \E call \in client.calls :
        /\ call[1] = "gscgn" /\ Call(call)
        /\ IF call[2] > numg THEN Exits ELSE Sets([common EXCEPT !.curntg = call[2]])

CallIgnlgi ==
    /\ Call(<<"ignlgi">>) /\ Draw
    /\ answer' = <<drawn'>>
    /\ UNCHANGED <<at, exited>>

CallInitgn ==
    \E call \in client.calls :
        /\ call[1] = "initgn" /\ Call(call)
        /\ IF ~common.qinit \/ call[2] \notin {-1, 0, 1}
              \/ (call[2] = 1 /\ ~InOrder(common.Xlg[common.curntg]))
           THEN Exits
           ELSE Sets(initgn(common, call[2]))

CallSetsd ==
    \E call \in client.calls :
        /\ call[1] = "setsd" /\ Call(call)
        /\ IF common.qinit THEN Sets(setsd(common, call[2])) ELSE Exits

CallAdvnst ==
    \E call \in client.calls :
        /\ call[1] = "advnst" /\ Call(call)
        /\ IF common.qinit /\ InOrder(common.Xcg[common.curntg])
           THEN Sets(advnst(common, call[2]))
           ELSE Exits

CallSetant ==
    \E call \in client.calls :
        /\ call[1] = "setant" /\ Call(call)
        /\ IF common.qinit THEN Sets([common EXCEPT !.Xqanti[common.curntg] = call[2]]) ELSE Exits

CallGetsd ==
    /\ Call(<<"getsd">>)
    /\ IF common.qinit THEN Answers(common.Xcg[common.curntg]) ELSE Exits

CallIgnuin ==
    \E call \in client.calls :
        /\ call[1] = "ignuin" /\ Call(call)
        /\ LET low == call[2]
               high == call[3]
           IN IF low > high \/ high - low > maxnum THEN Exits
              ELSE IF low = high THEN Answers(<<low>>)
              ELSE at' = "ignuin" /\ UNCHANGED <<common, drawn, answer, exited>>

\* One number is drawn until one is not among the last ones, too few for every answer.
DrawIgnuin ==
    /\ at = "ignuin" /\ DrawInCall
    /\ LET ranp1 == called[3] - called[2] + 1
           ign == drawn' - 1
       IN IF ign <= (maxnum \div ranp1) * ranp1
          THEN answer' = <<called[2] + (ign % ranp1)>> /\ at' = "idle"
          ELSE UNCHANGED <<answer, at>>

GeneratorsNext ==
    \/ CallSetall \/ CallGscgn \/ CallIgnlgi \/ CallInitgn \/ CallSetsd \/ CallAdvnst
    \/ CallSetant \/ CallGetsd \/ CallIgnuin \/ DrawIgnuin

================================================================================
