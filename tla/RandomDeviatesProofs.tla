--------------------------- MODULE RandomDeviatesProofs ---------------------------
(***************************************************************************)
(* Whatever is called in whatever order, and however often a number is        *)
(* rejected: which shape the numbers are for that sgamma kept and uses, and   *)
(* that snorm and sexpo read inside their tables.                             *)
(***************************************************************************)
EXTENDS RandomDeviates, Recursion

Normal == {"snorm", "center", "inner", "redrawn", "tail", "tested", "narrowed", "squeeze"}
Exponential == {"quotient", "sexpo", "minimum", "minima", "laplace"}
SmallShapes == {"small", "power"}

Labels == Normal \cup Exponential \cup SmallShapes

\* What is kept between calls: aa is the shape of s or none, aaa that of q0.
Kept ==
    /\ statics \in [aa : Nat, aaa : Nat, s : Nat, b : Nat, q0 : Nat]
    /\ statics.aa = 0 \/ statics.aa = statics.s
    /\ statics.q0 = statics.aaa
    /\ statics.b \in {statics.aaa} \cup SmallShapesCalled

\* What is known at the labels of a call; a shape below 1 comes to sexpo on a way of
\* its own, and leaves it to another label.
AtLabels ==
    /\ at \in Labels => Shape \in Nat
    /\ at \in Labels => method \in {"laplace", "power"}
    /\ at \in Normal \cup {"quotient", "laplace"} => method = "laplace"
    /\ at \in SmallShapes => method = "power"
    /\ at \in Normal \cup Exponential /\ method = "laplace" /\ Shape # 0 => statics.s = Shape
    /\ at \in Exponential /\ method = "laplace" /\ Shape # 0 => statics.aaa = Shape

IInv == client \in Clients /\ Kept /\ AtLabels

\* The labels of snorm's loops, and where they lead.
LEMMA SnormLabels ==
    /\ DOMAIN SnormDraws = {"center", "inner", "redrawn", "tail", "tested", "narrowed"}
    /\ \A label \in DOMAIN SnormDraws : SnormDraws[label] \subseteq DOMAIN SnormDraws
    BY DEF SnormDraws

\* The calls of the generators begin and end outside of sgamma.
LEMMA GeneratorsElsewhere ==
    ASSUME GeneratorsNext
    PROVE  at' \in {"idle", "ignuin"} /\ client' = client
<1>1. CASE CallSetall  BY <1>1 DEF CallSetall, Call, Idle, Sets, Exits
<1>2. CASE CallGscgn  BY <1>2 DEF CallGscgn, Call, Idle, Sets, Exits
<1>3. CASE CallIgnlgi  BY <1>3 DEF CallIgnlgi, Call, Idle
<1>4. CASE CallInitgn  BY <1>4 DEF CallInitgn, Call, Idle, Sets, Exits
<1>5. CASE CallSetsd  BY <1>5 DEF CallSetsd, Call, Idle, Sets, Exits
<1>6. CASE CallAdvnst  BY <1>6 DEF CallAdvnst, Call, Idle, Sets, Exits
<1>7. CASE CallSetant  BY <1>7 DEF CallSetant, Call, Idle, Sets, Exits
<1>8. CASE CallGetsd  BY <1>8 DEF CallGetsd, Call, Idle, Answers, Exits
<1>9. CASE CallIgnuin  BY <1>9 DEF CallIgnuin, Call, Idle, Answers, Exits
<1>10. CASE DrawIgnuin  BY <1>10 DEF DrawIgnuin, DrawInCall
<1> QED  BY <1>1, <1>2, <1>3, <1>4, <1>5, <1>6, <1>7, <1>8, <1>9, <1>10 DEF GeneratorsNext

\* sgamma begins with a set-up for the shape it is called with, unless that is 0.
LEMMA GengamBegins ==
    ASSUME IInv, CallGengam
    PROVE  IInv'
<1> PICK call \in client.calls :
        /\ call[1] = "gengam" /\ Call(call)
        /\ LET a == call[2] IN
           \/ a = statics.aa /\ UNCHANGED statics /\ at' = "snorm" /\ method' = "laplace"
           \/ a # statics.aa /\ a >= One
              /\ statics' = Recalculated(a) /\ at' = "snorm" /\ method' = "laplace"
           \/ a # statics.aa /\ a < One
              /\ statics' = Small(a) /\ at' = "small" /\ method' = "power"
    BY DEF CallGengam
<1>1. client' = client /\ Shape' = call[2]
    BY DEF Call, Shape
<1>2. client' \in Clients /\ call[2] \in Nat
    BY <1>1, ShapesAssumption DEF IInv
<1>3. Kept /\ SmallShapesCalled' = SmallShapesCalled
    BY <1>1 DEF IInv, SmallShapesCalled
<1>4. CASE call[2] = statics.aa /\ UNCHANGED statics /\ at' = "snorm" /\ method' = "laplace"
    <2>1. Kept' /\ (call[2] # 0 => statics'.s = call[2])
        BY <1>3, <1>4 DEF Kept
    <2> QED
        BY <1>1, <1>2, <1>4, <2>1 DEF IInv, AtLabels, Labels, Normal, Exponential, SmallShapes
<1>5. CASE call[2] >= One /\ statics' = Recalculated(call[2]) /\ at' = "snorm" /\ method' = "laplace"
    <2>1. Kept' /\ statics'.s = call[2]
        BY <1>2, <1>3, <1>5 DEF Kept, Recalculated
    <2> QED
        BY <1>1, <1>2, <1>5, <2>1 DEF IInv, AtLabels, Labels, Normal, Exponential, SmallShapes
<1>6. CASE call[2] < One /\ statics' = Small(call[2]) /\ at' = "small" /\ method' = "power"
    <2>1. call[2] \in SmallShapesCalled
        BY <1>6 DEF SmallShapesCalled
    <2>2. Kept'
        BY <1>2, <1>3, <1>6, <2>1 DEF Kept, Small
    <2> QED
        BY <1>1, <1>2, <1>6, <2>2 DEF IInv, AtLabels, Labels, Normal, Exponential, SmallShapes
<1> QED
    BY <1>4, <1>5, <1>6

\* The second stage is computed for the shape, unless it was.
LEMMA SqueezeKeeps ==
    ASSUME IInv, Squeeze
    PROVE  IInv'
<1>1. client' = client /\ Shape' = Shape /\ method' = method /\ at = "squeeze"
    BY DEF Squeeze, DrawInCall, Shape
<1>2. client' \in Clients /\ Kept /\ SmallShapesCalled' = SmallShapesCalled
    BY <1>1 DEF IInv, SmallShapesCalled
<1>3. Shape \in Nat /\ method = "laplace" /\ (Shape # 0 => statics.s = Shape)
    BY <1>1 DEF IInv, AtLabels, Labels, Normal
<1>4. CASE at' = "idle" /\ UNCHANGED statics
    BY <1>2, <1>4 DEF IInv, Kept, AtLabels, Labels, Normal, Exponential, SmallShapes
<1>5. CASE at' = "quotient" /\ statics' = Quotients(Shape)
    <2>1. Kept' /\ statics'.s = statics.s /\ statics'.aaa = Shape
        BY <1>2, <1>3, <1>5 DEF Kept, Quotients
    <2> QED
        BY <1>1, <1>2, <1>3, <1>5, <2>1 DEF IInv, AtLabels, Labels, Normal, Exponential, SmallShapes
<1> QED
    BY <1>4, <1>5 DEF Squeeze

\* Steps that only draw keep what is kept; and where they lead, no more must be known
\* than where they come from.
LEMMA OnlyDraws ==
    ASSUME IInv,
           Snorm \/ SnormRedraw \/ SnormExit \/ Sexpo \/ SexpoFirst \/ SexpoNext
               \/ Quotient \/ Laplace \/ SmallShape \/ SmallShapeTest
    PROVE  IInv'
<1>1. client' = client /\ Shape' = Shape /\ statics' = statics /\ method' = method
    <2>1. Snorm => client' = client /\ called' = called /\ statics' = statics /\ method' = method
        BY Zenon DEF Snorm, DrawInCall
    <2>2. Sexpo => client' = client /\ called' = called /\ statics' = statics /\ method' = method
        BY Zenon DEF Sexpo, DrawInCall
    <2>3. SnormRedraw \/ SnormExit \/ SexpoFirst \/ SexpoNext \/ Quotient \/ Laplace
              \/ SmallShape \/ SmallShapeTest
          => client' = client /\ called' = called /\ statics' = statics /\ method' = method
        BY DEF SnormRedraw, SnormExit, SexpoFirst, SexpoNext, Quotient, Laplace,
               SmallShape, SmallShapeTest, DrawInCall, deviates
    <2> QED
        BY <2>1, <2>2, <2>3 DEF Shape
<1>2. client' \in Clients /\ Kept'
    BY <1>1 DEF IInv, Kept, SmallShapesCalled
<1>3. CASE at \in Normal /\ at' \in Normal \cup {"idle"}
    BY <1>1, <1>2, <1>3 DEF IInv, AtLabels, Labels, Normal, Exponential, SmallShapes
<1>4. CASE at \in Exponential /\ at' \in {"idle", "sexpo", "minimum", "minima", method}
    BY <1>1, <1>2, <1>4 DEF IInv, AtLabels, Labels, Normal, Exponential, SmallShapes
<1>5. CASE at \in SmallShapes /\ at' \in {"idle", "sexpo", "small"}
    BY <1>1, <1>2, <1>5 DEF IInv, AtLabels, Labels, Normal, Exponential, SmallShapes
<1>6. CASE Snorm
    <2>1. at = "snorm" /\ (at' = "tail" \/ at' = "center")
        BY <1>6, Zenon DEF Snorm
    <2> QED
        BY <2>1, <1>3 DEF Normal
<1>7. CASE SnormRedraw
    BY <1>7, <1>3, SnormLabels DEF SnormRedraw, Normal
<1>8. CASE SnormExit
    BY <1>8, <1>3 DEF SnormExit, Normal
<1>9. CASE Sexpo \/ SexpoFirst \/ SexpoNext
    <2>1. Sexpo => at = "sexpo" /\ (at' = method \/ at' = "minimum")
        BY Zenon DEF Sexpo
    <2>2. SexpoFirst \/ SexpoNext
              => at \in {"minimum", "minima"} /\ at' \in {"minima", method}
        BY DEF SexpoFirst, SexpoNext
    <2> QED
        BY <1>9, <1>4, <2>1, <2>2 DEF Exponential
<1>10. CASE Quotient \/ Laplace
    BY <1>10, <1>4 DEF Quotient, Laplace, Exponential
<1>11. CASE SmallShape \/ SmallShapeTest
    BY <1>11, <1>5 DEF SmallShape, SmallShapeTest, SmallShapes
<1> QED
    BY <1>6, <1>7, <1>8, <1>9, <1>10, <1>11

LEMMA SetupInvariance == Spec => [](IInv /\ UsesItsSetup)
<1>1. InitDeviates => IInv
    BY DEF InitDeviates, Init, IInv, Kept, AtLabels, Labels, Normal, Exponential, SmallShapes, One
<1>2. IInv /\ [Next]_vars => IInv'
    <2> SUFFICES ASSUME IInv, [Next]_vars PROVE IInv'
        OBVIOUS
    <2>1. CASE GeneratorsNext /\ UNCHANGED deviates
        BY <2>1, GeneratorsElsewhere
           DEF IInv, Kept, SmallShapesCalled, AtLabels, deviates, Labels, Normal, Exponential, SmallShapes
    <2>2. CASE DeviatesNext
        BY <2>2, GengamBegins, SqueezeKeeps, OnlyDraws DEF DeviatesNext
    <2>3. CASE UNCHANGED vars
        BY <2>3 DEF IInv, Kept, SmallShapesCalled, AtLabels, Shape, vars, generators, deviates
    <2> QED
        BY <2>1, <2>2, <2>3 DEF Next
<1>3. IInv => UsesItsSetup
    BY SnormLabels DEF IInv, Kept, AtLabels, UsesItsSetup, Labels, Normal, Exponential, SmallShapes
<1> QED
    BY <1>1, <1>2, <1>3, PTL DEF Spec

\* For every client and every sequence of draws: called with a shape that is not 0,
\* sgamma uses s, q0, b of that shape, or the b of a shape below 1 that the program
\* calls it with too; so where it is called with none, all are its own
\* (ranlib.c:1619, 1646, 1744).
THEOREM SetupOfShape == Spec => []UsesItsSetup
BY SetupInvariance, PTL

--------------------------------------------------------------------------------
(* The doublings of u.                                                        *)

\* f doubles u until u is one of those where the doubling ends, at most at N.
Doubles(f, N, Ends, last, step) ==
    \A u \in 1..N : f[u] = IF u \in Ends THEN last[u] ELSE step[f[2 * u]]

\* There is such a function: its values are found from N down.
LEMMA DoublingFunction ==
    ASSUME NEW N \in Nat, NEW Ends, NEW last, NEW step,
           \A u \in 1..N : u \notin Ends => 2 * u \in 1..N
    PROVE  \E f : DOMAIN f = 1..N /\ Doubles(f, N, Ends, last, step)
<1> DEFINE From(f, k) == \A u \in (N - k + 1)..N :
               f[u] = IF u \in Ends THEN last[u] ELSE step[f[2 * u]]
           T == {k \in 0..N : \E f : DOMAIN f = 1..N /\ From(f, k)}
<1>1. 0 \in T
    <2>1. \A u \in (N - 0 + 1)..N : FALSE
        OBVIOUS
    <2>2. PICK f : f = [u \in 1..N |-> 0]
        OBVIOUS
    <2>3. DOMAIN f = 1..N /\ From(f, 0)
        BY <2>1, <2>2
    <2>4. 0 \in 0..N
        OBVIOUS
    <2> QED
        BY <2>3, <2>4, Zenon
<1>2. ASSUME NEW k \in 0..(N - 1), k \in T PROVE k + 1 \in T
    <2>1. PICK f : DOMAIN f = 1..N /\ From(f, k)
        BY <1>2
    <2>2. PICK m \in 1..N : m = N - k /\ N - k + 1 = m + 1 /\ N - (k + 1) + 1 = m
        <3>1. N - k \in 1..N /\ N - k + 1 = (N - k) + 1 /\ N - (k + 1) + 1 = N - k
            OBVIOUS
        <3> QED
            BY <3>1
    <2>3. PICK x : x = IF m \in Ends THEN last[m] ELSE step[f[2 * m]]
        OBVIOUS
    <2>4. PICK g : g = [u \in 1..N |-> IF u = m THEN x ELSE f[u]]
        OBVIOUS
    <2>5. ASSUME NEW u \in m..N PROVE g[u] = IF u \in Ends THEN last[u] ELSE step[g[2 * u]]
        <3>1. u \in 1..N /\ 2 * u # m
            OBVIOUS
        <3>2. u \notin Ends => 2 * u \in 1..N /\ g[2 * u] = f[2 * u]
            BY <3>1, <2>4
        <3>3. CASE u = m
            BY <3>1, <3>2, <3>3, <2>3, <2>4
        <3>4. CASE u # m
            <4>1. u \in (N - k + 1)..N
                BY <3>4, <2>2
            <4>2. f[u] = IF u \in Ends THEN last[u] ELSE step[f[2 * u]]
                BY <4>1, <2>1
            <4> QED
                BY <3>1, <3>2, <3>4, <4>2, <2>4
        <3> QED
            BY <3>3, <3>4
    <2>6. DOMAIN g = 1..N /\ From(g, k + 1)
        BY <2>2, <2>4, <2>5
    <2> QED
        BY <2>6
<1>3. N \in T
    <2>1. 0 \in Int /\ N \in Int /\ N \in 0..N
        OBVIOUS
    <2> HIDE DEF T
    <2>2. 0..N \subseteq T
        BY <1>1, <1>2, <2>1, IntervalInduction, Zenon
    <2> QED
        BY <2>1, <2>2
<1>4. PICK f : DOMAIN f = 1..N /\ From(f, N)
    BY <1>3
<1>5. N - N + 1 = 1
    OBVIOUS
<1> QED
    BY <1>4, <1>5 DEF Doubles

\* A set that holds f's value at u, if not the one at 2u alone, holds all of f's values.
LEMMA DoublingValues ==
    ASSUME NEW N \in Nat, NEW f, NEW S,
           \A u \in 1..N : f[u] \in S \/ (2 * u \in 1..N /\ (f[2 * u] \in S => f[u] \in S))
    PROVE  \A u \in 1..N : f[u] \in S
<1> DEFINE T == {k \in 0..N : \A u \in (N - k + 1)..N : f[u] \in S}
<1>1. 0 \in T
    OBVIOUS
<1>2. ASSUME NEW k \in 0..(N - 1), k \in T PROVE k + 1 \in T
    <2>1. ASSUME NEW u \in (N - (k + 1) + 1)..N PROVE f[u] \in S
        <3>1. u \in 1..N /\ (2 * u \in 1..N => 2 * u \in (N - k + 1)..N)
            OBVIOUS
        <3> QED
            BY <3>1, <1>2
    <2> QED
        BY <2>1
<1>3. N \in T
    <2>1. 0 \in Int /\ N \in Int /\ N \in 0..N
        OBVIOUS
    <2> HIDE DEF T
    <2>2. 0..N \subseteq T
        BY <1>1, <1>2, <2>1, IntervalInduction, Zenon
    <2> QED
        BY <2>1, <2>2
<1>4. N - N + 1 = 1
    OBVIOUS
<1> QED
    BY <1>3, <1>4

\* The index that snorm counts while it doubles is inside of its tables.
Index(g) == [u \in 1..Cell |-> IF 2 * u < Cell THEN 1 + g[2 * u] ELSE 0]

Counted(g, N, n, k) == \A u \in n..(N - 1) : g[u] \in 0..k

LEMMA IndexExists == \E g : g = Index(g)
<1>1. PICK N \in Nat : N = Cell
    BY DEF Cell
<1>2. PICK Ends : Ends = {u \in 1..N : ~(2 * u < N)}
    OBVIOUS
<1>3. PICK last : last = [u \in 1..N |-> 0]
    OBVIOUS
<1>4. PICK step : step = [x \in Nat |-> 1 + x]
    OBVIOUS
<1>5. \A u \in 1..N : u \notin Ends => 2 * u \in 1..N
    BY <1>2
<1>6. PICK f : DOMAIN f = 1..N /\ Doubles(f, N, Ends, last, step)
    BY <1>5, DoublingFunction
<1>7. ASSUME NEW u \in 1..N
      PROVE  f[u] \in Nat \/ (2 * u \in 1..N /\ (f[2 * u] \in Nat => f[u] \in Nat))
    <2>1. f[u] = IF u \in Ends THEN last[u] ELSE step[f[2 * u]]
        BY <1>6 DEF Doubles
    <2>2. u \in Ends => last[u] \in Nat
        BY <1>2, <1>3
    <2>3. \A x \in Nat : step[x] \in Nat
        BY <1>4
    <2> QED
        BY <1>5, <2>1, <2>2, <2>3
<1>8. \A u \in 1..N : f[u] \in Nat
    BY <1>7, DoublingValues
<1>9. PICK v : v = [u \in 1..N |-> f[u]]
    OBVIOUS
<1>10. ASSUME NEW u \in 1..N PROVE v[u] = IF 2 * u < N THEN 1 + v[2 * u] ELSE 0
    <2>1. f[u] = IF u \in Ends THEN last[u] ELSE step[f[2 * u]]
        BY <1>6 DEF Doubles
    <2>2. CASE 2 * u < N
        <3>1. u \notin Ends /\ 2 * u \in 1..N
            BY <2>2, <1>2
        <3>2. f[2 * u] \in Nat /\ f[u] = step[f[2 * u]]
            BY <3>1, <2>1, <1>8
        <3> QED
            BY <3>1, <3>2, <2>2, <1>4, <1>9
    <2>3. CASE ~(2 * u < N)
        BY <2>1, <2>3, <1>2, <1>3, <1>9
    <2> QED
        BY <2>2, <2>3
<1>11. v = [u \in 1..N |-> IF 2 * u < N THEN 1 + v[2 * u] ELSE 0]
    BY <1>9, <1>10
<1>12. v = Index(v)
    BY <1>1, <1>11, SMT DEF Index
<1> QED
    BY <1>12

LEMMA TailInside ==
    ASSUME NEW place \in Nat \ {0}, place < Cell
    PROVE  TailIndex(place) \in 6..30
<1> DEFINE index == CHOOSE g : g = Index(g)
<1>1. index = Index(index)
    BY IndexExists, Zenon
<1> HIDE DEF index
<1>2. PICK g : g = index
    OBVIOUS
<1>3. g = Index(g)
    BY <1>1, <1>2, Zenon
<1>4. PICK N \in Nat : N = Cell
    BY DEF Cell
<1>5. PICK half \in Nat : half = 16777216
    OBVIOUS
<1>6. N = 2 * half
    BY <1>4, <1>5 DEF Cell
<1>7. \A u \in 1..N : g[u] = IF 2 * u < N THEN 1 + g[2 * u] ELSE 0
    <2>1. PICK i : i = Index(g)
        OBVIOUS
    <2>2. \A u \in 1..N : i[u] = IF 2 * u < N THEN 1 + g[2 * u] ELSE 0
        BY <1>4, <2>1 DEF Index
    <2>3. g = i
        BY <1>3, <2>1, Zenon
    <2> QED
        BY <2>2, <2>3, Zenon
<1>8. ASSUME NEW n \in Nat \ {0}, NEW k \in Nat, Counted(g, N, 2 * n, k)
      PROVE  Counted(g, N, n, k + 1)
    <2> SUFFICES ASSUME NEW u \in n..(N - 1) PROVE g[u] \in 0..(k + 1)
        BY DEF Counted
    <2>1. g[u] = IF 2 * u < N THEN 1 + g[2 * u] ELSE 0
        BY <1>7
    <2>2. 2 * u < N => g[2 * u] \in 0..k
        BY <1>8 DEF Counted
    <2> QED
        BY <2>1, <2>2
<1>9. ASSUME NEW n \in Nat \ {0}, NEW k \in Nat, Counted(g, N, 16 * n, k)
      PROVE  Counted(g, N, n, k + 4)
    <2>1. PICK n2 \in Nat \ {0}, n4 \in Nat \ {0}, n8 \in Nat \ {0} :
              n2 = 2 * n /\ n4 = 2 * n2 /\ n8 = 2 * n4 /\ 2 * n8 = 16 * n
        OBVIOUS
    <2>2. Counted(g, N, n8, k + 1)
        BY <1>8, <1>9, <2>1
    <2>3. Counted(g, N, n4, (k + 1) + 1)
        BY <1>8, <2>1, <2>2
    <2>4. Counted(g, N, n2, ((k + 1) + 1) + 1)
        BY <1>8, <2>1, <2>3
    <2>5. Counted(g, N, n, (((k + 1) + 1) + 1) + 1)
        BY <1>8, <2>1, <2>4
    <2> QED
        BY <2>5
<1>10. Counted(g, N, half, 0)
    <2>1. half \in Nat \ {0}
        BY <1>5
    <2>2. ASSUME NEW u \in half..(N - 1) PROVE g[u] = 0
        BY <1>6, <1>7, <2>1
    <2> QED
        BY <2>2 DEF Counted
<1>11. Counted(g, N, 1, 24)
    <2>1. PICK n1 \in Nat \ {0}, n2 \in Nat \ {0}, n3 \in Nat \ {0}, n4 \in Nat \ {0},
               n5 \in Nat \ {0} :
              /\ half = 16 * n1 /\ n1 = 16 * n2 /\ n2 = 16 * n3 /\ n3 = 16 * n4 /\ n4 = 16 * n5
              /\ n5 = 16
        BY <1>5
    <2>2. Counted(g, N, n1, 4)
        BY <1>9, <1>10, <2>1
    <2>3. Counted(g, N, n2, 8)
        BY <1>9, <2>1, <2>2
    <2>4. Counted(g, N, n3, 12)
        BY <1>9, <2>1, <2>3
    <2>5. Counted(g, N, n4, 16)
        BY <1>9, <2>1, <2>4
    <2>6. Counted(g, N, n5, 20)
        BY <1>9, <2>1, <2>5
    <2>7. n5 = 16 * 1
        BY <2>1
    <2> QED
        BY <1>9, <2>6, <2>7
<1>12. g[place] \in 0..24
    <2>1. place \in 1..(N - 1)
        BY <1>4
    <2> QED
        BY <1>11, <2>1 DEF Counted
<1>13. TailIndex(place) = 6 + g[place]
    BY <1>2, Zenon DEF TailIndex, Index, index
<1> QED
    BY <1>12, <1>13

\* What is left of u once doubling has brought it beyond 1 is below 1.
Rest(g) ==
    [place \in 1..Places |->
        IF place > Places \div 2 THEN place - (Places - place) ELSE g[2 * place]]

LEMMA RestExists == \E g : g = Rest(g)
<1>1. PICK N \in Nat : N = Places /\ N = 2 * (N \div 2)
    BY DEF Places
<1>2. PICK Ends : Ends = {u \in 1..N : u > N \div 2}
    OBVIOUS
<1>3. PICK last : last = [u \in 1..N |-> u - (N - u)]
    OBVIOUS
<1>4. PICK step : step = [x \in Int |-> x]
    OBVIOUS
<1>5. \A u \in 1..N : u \notin Ends => 2 * u \in 1..N
    BY <1>1, <1>2
<1>6. PICK f : DOMAIN f = 1..N /\ Doubles(f, N, Ends, last, step)
    BY <1>5, DoublingFunction
<1>7. ASSUME NEW u \in 1..N
      PROVE  f[u] \in Int \/ (2 * u \in 1..N /\ (f[2 * u] \in Int => f[u] \in Int))
    <2>1. f[u] = IF u \in Ends THEN last[u] ELSE step[f[2 * u]]
        BY <1>6 DEF Doubles
    <2>2. u \in Ends => last[u] \in Int
        BY <1>2, <1>3
    <2>3. \A x \in Int : step[x] \in Int
        BY <1>4
    <2> QED
        BY <1>5, <2>1, <2>2, <2>3
<1>8. \A u \in 1..N : f[u] \in Int
    BY <1>7, DoublingValues
<1>9. PICK v : v = [u \in 1..N |-> f[u]]
    OBVIOUS
<1>10. ASSUME NEW u \in 1..N PROVE v[u] = IF u > N \div 2 THEN u - (N - u) ELSE v[2 * u]
    <2>1. f[u] = IF u \in Ends THEN last[u] ELSE step[f[2 * u]]
        BY <1>6 DEF Doubles
    <2>2. CASE u > N \div 2
        BY <2>1, <2>2, <1>2, <1>3, <1>9
    <2>3. CASE ~(u > N \div 2)
        <3>1. u \notin Ends /\ 2 * u \in 1..N
            BY <2>3, <1>2, <1>5
        <3>2. f[2 * u] \in Int /\ f[u] = step[f[2 * u]]
            BY <3>1, <2>1, <1>8
        <3> QED
            BY <3>1, <3>2, <2>3, <1>4, <1>9
    <2> QED
        BY <2>2, <2>3
<1>11. v = [u \in 1..N |-> IF u > N \div 2 THEN u - (N - u) ELSE v[2 * u]]
    BY <1>9, <1>10
<1>12. v = Rest(v)
    BY <1>1, <1>11, SMT DEF Rest
<1> QED
    BY <1>12

LEMMA BeyondInside ==
    ASSUME NEW u, u[2] \in Nat \ {0}, u[2] <= Places
    PROVE  Beyond(u) \in Int /\ Beyond(u) <= Places
<1> DEFINE rest == CHOOSE g : g = Rest(g)
<1>1. rest = Rest(rest)
    BY RestExists, Zenon
<1> HIDE DEF rest
<1>2. PICK g : g = rest
    OBVIOUS
<1>3. g = Rest(g)
    BY <1>1, <1>2, Zenon
<1>4. PICK N \in Nat : N = Places /\ N = 2 * (N \div 2)
    BY DEF Places
<1>5. \A k \in 1..N : g[k] = IF k > N \div 2 THEN k - (N - k) ELSE g[2 * k]
    <2>1. PICK i : i = Rest(g)
        OBVIOUS
    <2>2. \A k \in 1..N : i[k] = IF k > N \div 2 THEN k - (N - k) ELSE g[2 * k]
        BY <1>4, <2>1 DEF Rest
    <2>3. g = i
        BY <1>3, <2>1, Zenon
    <2> QED
        BY <2>2, <2>3, Zenon
<1>6. PICK S : S = {x \in Int : x <= N}
    OBVIOUS
<1>7. \A k \in 1..N : g[k] \in S \/ (2 * k \in 1..N /\ (g[2 * k] \in S => g[k] \in S))
    BY <1>4, <1>5, <1>6
<1>8. \A k \in 1..N : g[k] \in S
    BY <1>7, DoublingValues
<1>9. Beyond(u) = u[2] \/ Beyond(u) = g[u[2]]
    BY <1>2, Zenon DEF Beyond, Rest, rest
<1>10. u[2] \in 1..N
    BY <1>4
<1> QED
    BY <1>4, <1>6, <1>8, <1>9, <1>10

--------------------------------------------------------------------------------
(* The tables.                                                                *)

LEMMA UniformPlaces ==
    ASSUME NEW u \in Uniforms
    PROVE  u[1] \in BOOLEAN /\ u[2] \in Nat \ {0} /\ u[2] <= Places
<1>1. PICK N \in Nat : N = Places
    BY DEF Places
<1>2. u \in BOOLEAN \X (1..N)
    BY <1>1, UniformsAssumption
<1>3. u[1] \in BOOLEAN /\ u[2] \in 1..N
    BY <1>2
<1> QED
    BY <1>1, <1>3

\* The cells of snorm's table.
LEMMA CellInside ==
    ASSUME NEW place \in Nat \ {0}, place <= Places
    PROVE  /\ place \div Cell \in 0..32
           /\ place \div Cell = 0 => place < Cell
<1>1. PICK n \in Nat \ {0} : n = Cell
    BY DEF Cell
<1>2. Places = 32 * n
    BY <1>1 DEF Places, Cell
<1>3. PICK q \in Int, r \in 0..(n - 1) : q = place \div n /\ place = q * n + r
    <2>1. place \div n \in Int /\ place % n \in 0..(n - 1)
          /\ place = n * (place \div n) + (place % n)
        OBVIOUS
    <2>2. n * (place \div n) = (place \div n) * n
        BY <2>1
    <2> QED
        BY <2>1, <2>2
<1>4. q >= 0
    <2>1. q < 0 => q * n <= -n
        OBVIOUS
    <2> QED
        BY <1>3, <2>1
<1>5. q <= 32
    <2>1. q >= 33 => q * n >= 33 * n
        OBVIOUS
    <2> QED
        BY <1>2, <1>3, <2>1
<1>6. q = 0 => place < n
    BY <1>3
<1> QED
    BY <1>1, <1>3, <1>4, <1>5, <1>6

\* The indices stay inside of the tables; the last number in sexpo's is not exceeded.
Inside ==
    /\ local \in [i : Int, negative : BOOLEAN, u : Int]
    /\ at \in DOMAIN SnormDraws => local.i \in 1..31
    /\ at \in {"minimum", "minima"} => local.i \in 1..7 /\ local.u <= Places

LEMMA InsideStep ==
    ASSUME IInv, Inside, [Next]_vars
    PROVE  Inside'
<1>1. local \in [i : Int, negative : BOOLEAN, u : Int]
    BY DEF Inside
<1>2. CASE GeneratorsNext /\ UNCHANGED deviates
    BY <1>2, GeneratorsElsewhere, SnormLabels DEF Inside, deviates
<1>3. CASE UNCHANGED vars
    BY <1>3 DEF Inside, vars, generators, deviates
<1>4. CASE CallGengam
    <2>1. at' \in {"snorm", "small"} /\ local' = local
        BY <1>4 DEF CallGengam
    <2> QED
        BY <2>1, SnormLabels DEF Inside
<1>5. CASE Snorm
    <2>1. PICK u \in Uniforms :
              /\ local' = [local EXCEPT !.negative = u[1],
                               !.i = IF u[2] \div Cell = 0 THEN TailIndex(u[2])
                                     ELSE IF u[2] \div Cell = 32 THEN 31 ELSE u[2] \div Cell]
              /\ at' = "tail" \/ at' = "center"
        BY <1>5, Zenon DEF Snorm
    <2>2. PICK i :
              /\ i = IF u[2] \div Cell = 0 THEN TailIndex(u[2])
                     ELSE IF u[2] \div Cell = 32 THEN 31 ELSE u[2] \div Cell
              /\ local' = [local EXCEPT !.negative = u[1], !.i = i]
        BY <2>1, Zenon
    <2>3. PICK p \in Nat \ {0}, c \in 0..32 :
              p = u[2] /\ c = u[2] \div Cell /\ p <= Places /\ (c = 0 => p < Cell)
        BY UniformPlaces, CellInside
    <2>4. c = 0 => TailIndex(p) \in 6..30
        BY <2>3, TailInside
    <2>5. i = IF c = 0 THEN TailIndex(p) ELSE IF c = 32 THEN 31 ELSE c
        BY <2>2, <2>3, Zenon
    <2>6. i \in 1..31
        BY <2>4, <2>5
    <2>7. u[1] \in BOOLEAN
        BY UniformPlaces
    <2>8. local'.i = i
        BY <1>1, <2>2, <2>6, <2>7
    <2>9. local' \in [i : Int, negative : BOOLEAN, u : Int]
        <3>1. i \in Int
            BY <2>6
        <3>2. local' = [local EXCEPT !.negative = u[1], !.i = i]
            BY <2>2
        <3> QED
            BY <1>1, <2>7, <3>1, <3>2, Zenon
    <2>10. at' \notin {"minimum", "minima"}
        BY <2>1
    <2> QED
        BY <2>6, <2>8, <2>9, <2>10 DEF Inside
<1>6. CASE SnormRedraw
    BY <1>6, SnormLabels DEF Inside, SnormRedraw, deviates
<1>7. CASE SnormExit
    BY <1>7, SnormLabels DEF Inside, SnormExit, deviates
<1>8. CASE Sexpo
    <2>1. PICK u \in Uniforms :
              \/ at' = method /\ UNCHANGED local
              \/ at' = "minimum" /\ local' = [local EXCEPT !.i = 1, !.u = Beyond(u)]
        BY <1>8, Zenon DEF Sexpo
    <2>2. Beyond(u) \in Int /\ Beyond(u) <= Places
        BY UniformPlaces, BeyondInside
    <2>3. method \in {"laplace", "power"}
        <3>1. at = "sexpo"
            BY <1>8, Zenon DEF Sexpo
        <3> QED
            BY <3>1 DEF IInv, AtLabels, Labels, Exponential
    <2>4. CASE at' = method /\ UNCHANGED local
        BY <2>3, <2>4, SnormLabels DEF Inside
    <2>5. CASE at' = "minimum" /\ local' = [local EXCEPT !.i = 1, !.u = Beyond(u)]
        <3>1. PICK x \in Int : x = Beyond(u) /\ x <= Places
            BY <2>2
        <3>2. local' = [local EXCEPT !.i = 1, !.u = x]
            BY <2>5, <3>1, Zenon
        <3>3. local'.i = 1 /\ local'.u = x
            BY <1>1, <3>2
        <3>4. 1 \in Int
            OBVIOUS
        <3>5. local' \in [i : Int, negative : BOOLEAN, u : Int]
            BY <1>1, <3>1, <3>2, <3>4, Zenon
        <3> QED
            BY <2>5, <3>1, <3>3, <3>5, SnormLabels DEF Inside
    <2> QED
        BY <2>1, <2>4, <2>5
<1>9. CASE SexpoFirst
    BY <1>9, SnormLabels DEF Inside, SexpoFirst, deviates
<1>10. CASE SexpoNext
    <2>1. /\ at = "minima" /\ local' = [local EXCEPT !.i = @ + 1]
          /\ at' = IF local.u > Q[local.i + 1] THEN "minima" ELSE method
        BY <1>10 DEF SexpoNext
    <2>2. method \in {"laplace", "power"}
        BY <2>1 DEF IInv, AtLabels, Labels, Exponential
    <2>3. local.i \in 1..7 /\ local.u <= Places /\ local.u \in Int
        BY <2>1 DEF Inside
    <2>4. Q[8] = Places
        BY DEF Q, Places
    <2>5. local.u > Q[local.i + 1] => local.i # 7
        BY <2>3, <2>4 DEF Places
    <2>6. /\ local'.i = local.i + 1 /\ local'.u = local.u
          /\ local' \in [i : Int, negative : BOOLEAN, u : Int]
        BY <2>1 DEF Inside
    <2> QED
        BY <2>1, <2>2, <2>3, <2>5, <2>6, SnormLabels DEF Inside
<1>11. CASE Squeeze
    BY <1>11, SnormLabels DEF Inside, Squeeze
<1>12. CASE Quotient \/ Laplace \/ SmallShape \/ SmallShapeTest
    BY <1>12, SnormLabels DEF Inside, Quotient, Laplace, SmallShape, SmallShapeTest, deviates
<1> QED
    BY <1>2, <1>3, <1>4, <1>5, <1>6, <1>7, <1>8, <1>9, <1>10, <1>11, <1>12
       DEF Next, DeviatesNext

\* The tables of snorm and sexpo are read inside of their bounds for every client, every
\* sequence of calls, every shape and every number drawn (ranlib.c:1785-1881,
\* 1512-1538); and the set-up is used as SetupOfShape says, but for the shape 0 and the
\* b of shapes below 1.
THEOREM DeviatesAreDefined == Spec => []DeviatesDefined
<1>1. InitDeviates => Inside
    BY SnormLabels DEF InitDeviates, Init, Inside
<1>2. IInv /\ Inside /\ [Next]_vars => Inside'
    BY InsideStep
<1>3. Inside => ReadsInsideTables
    <2>1. Len(Q) = 8
        BY DEF Q
    <2> QED
        BY <2>1 DEF Inside, ReadsInsideTables
<1>4. UsesItsSetup /\ ReadsInsideTables => DeviatesDefined
    BY DEF DeviatesDefined
<1> QED
    BY <1>1, <1>2, <1>3, <1>4, SetupInvariance, PTL DEF Spec
================================================================================
