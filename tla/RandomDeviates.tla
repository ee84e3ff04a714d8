------------------------------ MODULE RandomDeviates ------------------------------
(***************************************************************************)
(* The gamma deviates of src/contrib/ranlib/ranlib.c: sgamma, and snorm and  *)
(* sexpo that it calls, over the generators.  Every rejection loop is kept,   *)
(* one draw a step; a comparison of computed deviates may go either way.      *)
(* Of the numbers that sgamma keeps from call to call the shape matters that  *)
(* they were computed for; of those in snorm and sexpo, the place in their     *)
(* tables.  Shapes are in tenths.                                          *)
(*                                                                          *)
(* A number of ranf is a half of the interval from 0 to 1 and a place in it, *)
(* from 1 to 2^30; the last place is 1/2 and, as ranf rounds, 1.             *)
(***************************************************************************)
EXTENDS RandomGenerators

CONSTANT Uniforms               \* pairs of a half, FALSE or TRUE, and a place

\* The places in a half, 2^30, and those in one of the 32 cells of snorm's table, 2^25.
Places == 1073741824
Cell == 33554432

ASSUME UniformsAssumption == Uniforms \subseteq BOOLEAN \X (1..Places)

\* gamma_delay_filter.c:48 reads a shape that is not negative.
ASSUME ShapesAssumption ==
    \A c \in Clients : \A call \in c.calls : call[1] = "gengam" => call[2] \in Nat

VARIABLES
    statics,        \* aa and aaa of sgamma, and the shapes that its s, s2, d; b; q0, si, c are for
    method,         \* where sgamma goes on after an exponential deviate
    local           \* i of snorm and sexpo, the sign of snorm's deviate, the rest of sexpo's u

deviates == <<statics, method, local>>
vars == <<generators, deviates>>

InitDeviates ==
    /\ Init
    /\ statics = [aa |-> 0, aaa |-> 0, s |-> 0, b |-> 0, q0 |-> 0]
    /\ method = "laplace" /\ local = [i |-> 0, negative |-> FALSE, u |-> 0]

One == 10
Shape == called[2]

--------------------------------------------------------------------------------
\* sgamma up to its normal deviate.  Its aa, 0 at first and for shapes below 1, is
\* also the shape 0.

Recalculated(a) == [statics EXCEPT !.aa = a, !.s = a]
Small(a) == [statics EXCEPT !.aa = 0, !.b = a]

CallGengam ==
    /\ \E call \in client.calls :
        /\ call[1] = "gengam" /\ Call(call)
        /\ LET a == call[2] IN
           \/ a = statics.aa /\ UNCHANGED statics /\ at' = "snorm" /\ method' = "laplace"
           \/ a # statics.aa /\ a >= One
              /\ statics' = Recalculated(a) /\ at' = "snorm" /\ method' = "laplace"
           \/ a # statics.aa /\ a < One
              /\ statics' = Small(a) /\ at' = "small" /\ method' = "power"
    /\ UNCHANGED <<common, drawn, answer, exited, local>>

--------------------------------------------------------------------------------
\* snorm.

\* Where doubling u reaches 1; the places below the first cell are in the tail.
TailIndex(place) ==
    LET index[u \in 1..Cell] == IF 2 * u < Cell THEN 1 + index[2 * u] ELSE 0
    IN 6 + index[place]

Snorm ==
    /\ at = "snorm" /\ DrawInCall
    /\ \E u \in Uniforms :
        LET cell == u[2] \div Cell
            tail == cell = 0
        IN /\ local' = [local EXCEPT !.negative = u[1],
                            !.i = IF tail THEN TailIndex(u[2]) ELSE IF cell = 32 THEN 31 ELSE cell]
           /\ at' = IF tail THEN "tail" ELSE "center"
    /\ UNCHANGED <<answer, statics, method>>

\* What follows a number drawn in the center and in the tail: the labels S40, S80 and
\* the draw after it; S160, its test and S140.
SnormDraws ==
    [center |-> {"inner"}, inner |-> {"redrawn"}, redrawn |-> {"inner", "center"},
     tail |-> {"tested"}, tested |-> {"tail", "narrowed"}, narrowed |-> {"tail"}]

SnormRedraw ==
    /\ at \in DOMAIN SnormDraws /\ DrawInCall
    /\ at' \in SnormDraws[at]
    /\ UNCHANGED <<answer, deviates>>

\* S50.  sgamma accepts every deviate that is not negative.
SnormExit ==
    /\ at \in {"center", "inner", "tested"}
    /\ at' = IF local.negative THEN "squeeze" ELSE "idle"
    /\ UNCHANGED <<client, made, called, common, drawn, answer, exited, deviates>>

--------------------------------------------------------------------------------
\* sexpo.

\* The table q, in parts of 2^30.
Q == <<744261138, 1002202379, 1061799452, 1072126808, 1073558536, 1073723892, 1073740320, 1073741824>>

\* What is left of u doubled beyond 1.
Beyond(u) ==
    LET rest[place \in 1..Places] ==
            IF place > Places \div 2 THEN place - (Places - place) ELSE rest[2 * place]
    IN IF u[1] THEN u[2] ELSE rest[u[2]]

Sexpo ==
    /\ at = "sexpo" /\ DrawInCall
    /\ \E u \in Uniforms :
        IF Beyond(u) <= Q[1] THEN at' = method /\ UNCHANGED local
        ELSE at' = "minimum" /\ local' = [local EXCEPT !.i = 1, !.u = Beyond(u)]
    /\ UNCHANGED <<answer, statics, method>>

SexpoFirst ==
    /\ at = "minimum" /\ DrawInCall
    /\ at' = "minima"
    /\ UNCHANGED <<answer, deviates>>

\* S70.
SexpoNext ==
    /\ at = "minima" /\ DrawInCall
    /\ local' = [local EXCEPT !.i = @ + 1]
    /\ at' = IF local.u > Q[local.i + 1] THEN "minima" ELSE method
    /\ UNCHANGED <<answer, statics, method>>

--------------------------------------------------------------------------------
\* sgamma from its normal deviate on.

\* Mutant of Quotients: computed unless the shape is the last one's.
QuotientsOfLast(a) == IF a = statics.aa THEN statics ELSE [statics EXCEPT !.aaa = a, !.q0 = a, !.b = a]

Quotients(a) == IF a = statics.aaa THEN statics ELSE [statics EXCEPT !.aaa = a, !.q0 = a, !.b = a]

\* Steps 3 and 4.
Squeeze ==
    /\ at = "squeeze" /\ DrawInCall
    /\ \/ at' = "idle" /\ UNCHANGED statics
       \/ at' = "quotient" /\ statics' = Quotients(Shape)
    /\ UNCHANGED <<answer, method, local>>

\* Steps 5 to 7.
Quotient ==
    /\ at = "quotient"
    /\ at' \in {"idle", "sexpo"}
    /\ UNCHANGED <<client, made, called, common, drawn, answer, exited, deviates>>

\* Steps 8 to 12, until a sample is accepted.
Laplace ==
    /\ at = "laplace" /\ DrawInCall
    /\ at' \in {"idle", "sexpo"}
    /\ UNCHANGED <<answer, deviates>>

\* S130, for shapes below 1.
SmallShape ==
    /\ at = "small" /\ DrawInCall
    /\ at' = "sexpo"
    /\ UNCHANGED <<answer, deviates>>

SmallShapeTest ==
    /\ at = "power"
    /\ at' \in {"idle", "small"}
    /\ UNCHANGED <<client, made, called, common, drawn, answer, exited, deviates>>

DeviatesNext ==
    \/ CallGengam \/ Snorm \/ SnormRedraw \/ SnormExit \/ Sexpo \/ SexpoFirst \/ SexpoNext
    \/ Squeeze \/ Quotient \/ Laplace \/ SmallShape \/ SmallShapeTest

Next == (GeneratorsNext /\ UNCHANGED deviates) \/ DeviatesNext

Spec == InitDeviates /\ [][Next]_vars

--------------------------------------------------------------------------------
\* The generators keep what the package promises of their streams: Schrage's steps and
\* the products in parts are the multiplications they stand for, the jumps are as long
\* as the comments say, only the generator in use moves, and the program is ended only
\* for a call that is not allowed; what ignuin answers is in its range, which is what
\* the delay filter's packets rely on.  com.c:4-372, ranlib.c:1172-1332,
\* uniform_delay_filter.c:64.  One step is not promised: where com.c:246-248 sets the
\* states of all generators, setall leaves that of generator 1 when another one is in
\* use, as its first initgn acts on that one (com.c:282).
States ==
    [g \in 1..numg |->
        [initial |-> common.Xig[g], block |-> common.Xlg[g], current |-> common.Xcg[g]]]

Streams == INSTANCE RandomStreams WITH
    Generators <- 1..numg,
    Calls <- UNION {c.calls : c \in Clients},
    seeded <- common.qstate,
    chosen <- common.curntg,
    antithetic <- common.Xqanti,
    streams <- States,
    stopped <- exited

FirstLeft(seeds) == [Streams!Restarted(seeds) EXCEPT ![1] = [States[1] EXCEPT !.initial = seeds]]

LeavesFirst ==
    /\ Streams!Called /\ common.curntg # 1
    /\ \/ Streams!RestartAt(FirstLeft(called'[2]))
       \/ ~common.qstate /\ Streams!DrawFrom(FirstLeft(Streams!Default))

ImplementsStreams == Streams!Init /\ [][Streams!Next \/ LeavesFirst]_(Streams!vars)

\* The numbers that sgamma keeps between calls are those of the shape it uses them for,
\* for every shape but 0, after calls for other shapes that left at different points.
\* Two old values are used, and they are all: for the shape 0, which the supplied
\* configuration has, the aa of before any shape passes for the last one and everything
\* may be another shape's; and b may be what a call for a shape below 1 left there,
\* while aaa still has the shape at hand, but only where the program has such a shape
\* (ranlib.c:1619, 1646, 1744; conf/wav2rtp/output.conf:49).
SmallShapesCalled == {call[2] : call \in {c \in client.calls : c[1] = "gengam" /\ c[2] < One}}

UsesItsSetup ==
    Shape # 0 =>
        /\ at \in DOMAIN SnormDraws \cup {"snorm", "squeeze", "quotient", "laplace"} => statics.s = Shape
        /\ at \in {"quotient", "laplace"} =>
               statics.q0 = Shape /\ statics.b \in {Shape} \cup SmallShapesCalled

\* However small or large the numbers drawn are, snorm and sexpo read inside their
\* tables (ranlib.c:1785-1881, 1512-1538).
ReadsInsideTables ==
    /\ at \in DOMAIN SnormDraws => local.i \in 1..31
    /\ at \in {"minimum", "minima"} => local.i \in 1..(Len(Q) - 1)

DeviatesDefined == at \notin {"idle", "ignuin"} => UsesItsSetup /\ ReadsInsideTables

================================================================================
