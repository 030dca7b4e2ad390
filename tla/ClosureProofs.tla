---------------------------- MODULE ClosureProofs ----------------------------
(***************************************************************************)
(* For every pack, every load and every way the frames may come: a gauge   *)
(* that tells the level gives the closure fit the zero error of the sensor *)
(* as its slope, and one that tells anything moves the slope by no more    *)
(* than its capacity over the hours the fit remembers.                     *)
(***************************************************************************)
EXTENDS Closure, TLAPS

-----------------------------------------------------------------------------
(* Sums in which every sample lies on the line a + z * x.                  *)

OnLine(f, a, z) == f.sy = a * f.n + z * f.sx /\ f.sxy = a * f.sx + z * f.sxx

Fits == [unit : Nat \ {0}, n : Nat, sx : Int, sy : Int, sxx : Int, sxy : Int]

\* A line has its slope.
LEMMA SlopeOfLine ==
  ASSUME NEW f \in Fits, NEW a \in Int, NEW z \in Int, OnLine(f, a, z)
  PROVE  Rise(f) = z * Run(f)
<1> DEFINE n == f.n
           x == f.sx
           xx == f.sxx
<1>1. n \in Int /\ x \in Int /\ xx \in Int
  BY DEF Fits
<1>2. n * (a * x + z * xx) - x * (a * n + z * x) = z * (n * xx - x * x)
  <2> HIDE DEF n, x, xx
  <2> QED BY <1>1
<1> QED BY <1>2 DEF OnLine, Rise, Run

LEMMA DecayTypes ==
  ASSUME NEW f \in Fits, NEW factor \in (Nat \ {0}) \X (Nat \ {0})
  PROVE  decay(f, factor) \in Fits
<1> DEFINE num == factor[1]
           den == factor[2]
<1>1. num \in Nat \ {0} /\ den \in Nat \ {0}
  OBVIOUS
<1>2. \A k \in Nat \ {0}, p \in Nat, r \in Nat \ {0}, u \in Int :
        p * k \in Nat /\ r * k \in Nat \ {0} /\ u * k \in Int
  OBVIOUS
<1>3. decay(f, factor) = [unit |-> f.unit * den, n |-> f.n * num, sx |-> f.sx * num,
                          sy |-> f.sy * num, sxx |-> f.sxx * num, sxy |-> f.sxy * num]
  BY DEF decay
<1> HIDE DEF num, den
<1> QED BY <1>1, <1>2, <1>3 DEF Fits

LEMMA PushTypes ==
  ASSUME NEW f \in Fits, NEW x \in Int, NEW v \in Int
  PROVE  push(f, x, v) \in Fits /\ push(f, x, v).n # 0
<1>1. \A u \in Int, r \in Int : u * r \in Int
  OBVIOUS
<1>2. x * x \in Int /\ x * v \in Int
  OBVIOUS
<1>3. f.unit \in Nat \ {0} /\ f.n \in Nat /\ f.n + f.unit \in Nat \ {0}
  BY DEF Fits
<1> QED BY <1>1, <1>2, <1>3 DEF push, Fits

LEMMA ShiftTypes ==
  ASSUME NEW f \in Fits, NEW d \in Int
  PROVE  shift_x(f, d) \in Fits /\ shift_x(f, d).n = f.n
<1>1. ASSUME NEW n \in Int, NEW p \in Int, NEW q \in Int
      PROVE  p - d * n \in Int /\ q - 2 * (d * p) + (d * d) * n \in Int
  BY <1>1
<1>2. /\ f.sx - d * f.n \in Int /\ f.sxy - d * f.sy \in Int
      /\ f.sxx - 2 * (d * f.sx) + (d * d) * f.n \in Int
  BY <1>1 DEF Fits
<1> QED BY <1>2 DEF shift_x, Fits

\* Forgetting keeps the samples on their line.
LEMMA DecayKeepsLine ==
  ASSUME NEW f \in Fits, NEW a \in Int, NEW z \in Int, OnLine(f, a, z),
         NEW factor \in (Nat \ {0}) \X (Nat \ {0})
  PROVE  OnLine(decay(f, factor), a, z)
<1> DEFINE num == factor[1]
           den == factor[2]
<1>1. num \in Nat \ {0} /\ den \in Nat \ {0}
  OBVIOUS
<1>2. ASSUME NEW k \in Int, NEW p \in Int, NEW q \in Int
      PROVE  (a * p + z * q) * k = a * (p * k) + z * (q * k)
  BY <1>2
<1>4. decay(f, factor) = [unit |-> f.unit * den, n |-> f.n * num, sx |-> f.sx * num,
                          sy |-> f.sy * num, sxx |-> f.sxx * num, sxy |-> f.sxy * num]
  BY DEF decay
<1> HIDE DEF num, den
<1>6. (a * f.n + z * f.sx) * num = a * (f.n * num) + z * (f.sx * num)
      /\ (a * f.sx + z * f.sxx) * num = a * (f.sx * num) + z * (f.sxx * num)
  BY <1>1, <1>2 DEF Fits
<1> QED BY <1>4, <1>6 DEF OnLine

\* Another sample on the line.
LEMMA PushKeepsLine ==
  ASSUME NEW f \in Fits, NEW a \in Int, NEW z \in Int, OnLine(f, a, z),
         NEW x \in Int, NEW v \in Int, v = a + z * x
  PROVE  OnLine(push(f, x, v), a, z)
<1>1. ASSUME NEW u \in Int, NEW n \in Int, NEW p \in Int, NEW q \in Int
      PROVE  /\ a * n + z * p + u * (a + z * x) = a * (n + u) + z * (p + u * x)
             /\ a * p + z * q + u * (x * (a + z * x))
                  = a * (p + u * x) + z * (q + u * (x * x))
  BY <1>1
<1>4. push(f, x, v) = [unit |-> f.unit, n |-> f.n + f.unit,
                       sx |-> f.sx + f.unit * x, sy |-> f.sy + f.unit * v,
                       sxx |-> f.sxx + f.unit * (x * x), sxy |-> f.sxy + f.unit * (x * v)]
  BY DEF push
<1>6. /\ f.sy + f.unit * v = a * (f.n + f.unit) + z * (f.sx + f.unit * x)
      /\ f.sxy + f.unit * (x * v)
           = a * (f.sx + f.unit * x) + z * (f.sxx + f.unit * (x * x))
  BY <1>1 DEF Fits, OnLine
<1> QED BY <1>4, <1>6 DEF OnLine

\* Samples counted from another origin are on a line that starts higher.
LEMMA ShiftKeepsLine ==
  ASSUME NEW f \in Fits, NEW a \in Int, NEW z \in Int, OnLine(f, a, z), NEW d \in Int
  PROVE  OnLine(shift_x(f, d), a + z * d, z)
<1>1. ASSUME NEW n \in Int, NEW p \in Int, NEW q \in Int
      PROVE  /\ a * n + z * p = (a + z * d) * n + z * (p - d * n)
             /\ a * p + z * q - d * (a * n + z * p)
                  = (a + z * d) * (p - d * n) + z * (q - 2 * (d * p) + (d * d) * n)
  BY <1>1
<1> DEFINE g == shift_x(f, d)
<1>3. /\ g.n = f.n /\ g.sy = f.sy
      /\ g.sx = f.sx - d * f.n
      /\ g.sxx = f.sxx - 2 * (d * f.sx) + (d * d) * f.n
      /\ g.sxy = f.sxy - d * f.sy
  BY DEF shift_x, Fits
<1>5. /\ f.sy = (a + z * d) * f.n + z * (f.sx - d * f.n)
      /\ f.sxy - d * f.sy = (a + z * d) * (f.sx - d * f.n)
                            + z * (f.sxx - 2 * (d * f.sx) + (d * d) * f.n)
  BY <1>1 DEF Fits, OnLine
<1> QED BY <1>3, <1>5 DEF OnLine, g

-----------------------------------------------------------------------------
(***************************************************************************)
(* The invariant: as long as the gauge was honest and all charge was       *)
(* accounted for, the samples lie on one line, which rises with the zero   *)
(* error and starts at what net charge, bleed, level and zero error leave  *)
(* over.                                                                   *)
(***************************************************************************)

Types ==
  /\ pack \in [level : Int, current : Int, bleed : Nat]
  /\ live # None => live \in [current : Int, balance_a : Int \cup {None}]
  /\ dev \in [x : Int, span : Int, net : Int, bal : Int]
  /\ fit \in Fits
  /\ seen \in [frames : Nat, complete : BOOLEAN, honest : BOOLEAN, regular : BOOLEAN]

\* The last frame is the pack's current state as its sensor tells it.
Sensor ==
  live # None => /\ live.current = pack.current + Zero
                 /\ live.balance_a \in BleedReadings(pack.bleed)

Fresh == fit.n = 0 => fit.sx = 0 /\ fit.sy = 0 /\ fit.sxx = 0 /\ fit.sxy = 0

Start(e, level) == e.net - e.bal - level - (2 * Zero) * e.x

Line == seen.complete /\ seen.honest => OnLine(fit, Start(dev, pack.level), 2 * Zero)

ClosureInv == Types /\ Sensor /\ Fresh /\ Line

LEMMA EmptyOnLine ==
  ASSUME Types, Fresh, fit.n = 0, NEW a \in Int, NEW z \in Int
  PROVE  OnLine(fit, a, z)
  BY DEF Types, Fits, Fresh, OnLine

\* What the integrals make of an interval and of the frame that ends it.
Read(i, bleed, q) == [current_a |-> i + Zero, balance_a |-> bleed, remaining_ah |-> q]

LEMMA AdvanceTypes ==
  ASSUME Types, live # None, NEW i \in Int, NEW bleed \in Int \cup {None}, NEW q,
         NEW dt \in Int
  PROVE  Advance(Read(i, bleed, q), dt) \in [x : Int, span : Int, net : Int, bal : Int]
<1>1. \A u \in Int, v \in Int : u * v \in Int
  OBVIOUS
<1>2. (live.current + (i + Zero)) * dt \in Int
  BY <1>1, PackAssumption DEF Types
<1>3. live.balance_a # None /\ bleed # None =>
        (AtLeastZero(live.balance_a) + AtLeastZero(bleed)) * dt \in Int
  BY <1>1 DEF Types, AtLeastZero
<1> QED BY <1>2, <1>3 DEF Types, Advance, Read

\* An accounted interval leaves the start of the line where it is.
LEMMA StartStands ==
  ASSUME Types, Sensor, NEW h \in Nat, NEW i \in Int, NEW b \in Nat,
         NEW bleed \in BleedReadings(b), NEW q, Accounted(i, b, bleed, h)
  PROVE  /\ live = None \/ Integrated(h) <= 0 => Moved(i, b, h) = 0
         /\ live # None =>
              Start(Advance(Read(i, bleed, q), Integrated(h)), pack.level + Moved(i, b, h))
                = Start(dev, pack.level)
<1> DEFINE dt == Integrated(h)
           e == Advance(Read(i, bleed, q), dt)
<1>1. dt \in Int /\ (h <= MaxGap => dt = h)
  BY TimeAssumption DEF Integrated, Least
<1>2. ASSUME Idle(i, b) PROVE Moved(i, b, h) = 0
  <2>1. pack.current + i = 0 /\ pack.bleed + b = 0
    BY <1>2 DEF Idle
  <2> QED BY <2>1 DEF Moved
<1>3. ASSUME dt <= 0, h <= MaxGap PROVE Moved(i, b, h) = 0
  <2>1. h = 0
    BY <1>1, <1>3
  <2> QED BY <2>1 DEF Moved, Types
<1>4. live = None \/ dt <= 0 => Moved(i, b, h) = 0
  BY <1>2, <1>3 DEF Accounted
<1>5. ASSUME live # None
      PROVE  Start(e, pack.level + Moved(i, b, h)) = Start(dev, pack.level)
  <2>1. live.current = pack.current + Zero /\ live.balance_a \in BleedReadings(pack.bleed)
    BY <1>5 DEF Sensor
  <2>2. /\ e.net = dev.net + (pack.current + Zero + (i + Zero)) * dt
        /\ e.x = dev.x + dt
        /\ e.bal = IF live.balance_a # None /\ bleed # None
                   THEN dev.bal + (AtLeastZero(live.balance_a) + AtLeastZero(bleed)) * dt
                   ELSE dev.bal
    BY <2>1 DEF Advance, Read
  <2> DEFINE flow == pack.current + i
             drain == pack.bleed + b
  <2>3. flow \in Int /\ drain \in Int /\ Zero \in Int /\ dev.x \in Int /\ dev.net \in Int
        /\ dev.bal \in Int /\ pack.level \in Int /\ e.x \in Int
    BY <1>1, <2>2, PackAssumption DEF Types
  <2>4. \A n \in Nat : \A r \in BleedReadings(n) : r # None => AtLeastZero(r) = n
    BY ReadingAssumption DEF BleedReadings, AtLeastZero
  <2>5. live.balance_a # None => AtLeastZero(live.balance_a) = pack.bleed
    BY <2>1, <2>4 DEF Types
  <2>6. e.bal = dev.bal + (IF live.balance_a # None /\ bleed # None THEN drain * dt ELSE 0)
    <3>1. bleed # None => AtLeastZero(bleed) = b
      BY <2>4
    <3> QED BY <2>2, <2>3, <2>5, <3>1
  <2>7. e.net = dev.net + flow * dt + (2 * Zero) * dt
    <3>1. pack.current + Zero + (i + Zero) = flow + 2 * Zero
      BY <2>3, PackAssumption DEF Types
    <3> HIDE DEF flow
    <3>2. (flow + 2 * Zero) * dt = flow * dt + (2 * Zero) * dt
      BY <1>1, <2>3
    <3> QED BY <1>1, <2>2, <2>3, <3>1, <3>2
  <2>8. (2 * Zero) * e.x = (2 * Zero) * dev.x + (2 * Zero) * dt
    BY <1>1, <2>2, <2>3
  <2>9. e.net - e.bal - (pack.level + Moved(i, b, h))
          = dev.net - dev.bal - pack.level + (2 * Zero) * dt
    <3>1. CASE Idle(i, b)
      <4>1. flow = 0 /\ drain = 0 /\ flow * dt = 0 /\ drain * dt = 0
        BY <1>1, <3>1 DEF Idle
      <4>2. Moved(i, b, h) = 0
        BY <3>1, <1>2
      <4>3. (2 * Zero) * dt \in Int
        BY <1>1, <2>3
      <4> HIDE DEF flow, drain
      <4> QED BY <2>3, <2>6, <2>7, <4>1, <4>2, <4>3
    <3>2. CASE /\ h <= MaxGap
               /\ \/ live.balance_a # None /\ bleed # None
                  \/ pack.bleed = 0 /\ b = 0
      <4>1. dt = h
        BY <3>2, <1>1
      <4>2. Moved(i, b, h) = flow * dt - drain * dt
        BY <4>1 DEF Moved
      <4>3. e.bal = dev.bal + drain * dt
        <5>1. pack.bleed = 0 /\ b = 0 => drain * dt = 0
          BY <1>1
        <5> QED BY <2>6, <3>2, <5>1
      <4>4. (2 * Zero) * dt \in Int /\ flow * dt \in Int /\ drain * dt \in Int
        BY <1>1, <2>3
      <4> HIDE DEF flow, drain
      <4> QED BY <2>3, <2>7, <4>2, <4>3, <4>4
    <3> QED BY <3>1, <3>2 DEF Accounted
  <2>10. (2 * Zero) * dt \in Int /\ (2 * Zero) * dev.x \in Int
    BY <1>1, <2>3
  <2>11. e.net \in Int /\ e.bal \in Int /\ Moved(i, b, h) \in Int
    <3>1. flow * dt \in Int /\ drain * dt \in Int /\ flow * h \in Int /\ drain * h \in Int
      BY <1>1, <2>3
    <3>2. Moved(i, b, h) \in Int
      BY <3>1 DEF Moved
    <3> HIDE DEF flow, drain
    <3> QED BY <2>3, <2>6, <2>7, <2>10, <3>1, <3>2
  <2> QED BY <2>3, <2>8, <2>9, <2>10, <2>11 DEF Start
<1> QED BY <1>4, <1>5

-----------------------------------------------------------------------------
(* The steps.                                                              *)

LEMMA InitialLine == Init => ClosureInv
<1> SUFFICES ASSUME Init PROVE ClosureInv
  OBVIOUS
<1> USE DEF Init
<1>1. Types
  BY PackAssumption DEF Types, Fits, NoSamples, Levels
<1>2. Sensor /\ Fresh
  BY DEF Sensor, Fresh, NoSamples
<1>3. Start(dev, pack.level) \in Int
  BY PackAssumption DEF Start, Levels
<1>4. Line
  BY <1>1, <1>2, <1>3, EmptyOnLine, PackAssumption DEF Line, NoSamples
<1> QED BY <1>1, <1>2, <1>4 DEF ClosureInv

\* A sample that ends an interval of dt > 0: the fit after it, and the line
\* when the gauge told the level.
LEMMA SampleStep ==
  ASSUME NEW f \in Fits, NEW e \in [x : Int, span : Int, net : Int, bal : Int],
         NEW q \in Int, NEW dt \in 1..MaxGap
  PROVE  LET g == push(decay(f, Forget[dt]), e.x, y(e, q))
         IN  /\ g \in Fits /\ g.n # 0
             /\ OnLine(f, Start(e, q), 2 * Zero) => OnLine(g, Start(e, q), 2 * Zero)
<1> DEFINE z == 2 * Zero
           a == Start(e, q)
           w == decay(f, Forget[dt])
<1>1. Forget[dt] \in (Nat \ {0}) \X (Nat \ {0})
  BY ForgetAssumption
<1>2. z \in Int /\ e.x \in Int /\ z * e.x \in Int /\ y(e, q) \in Int
  BY PackAssumption DEF y
<1>3. a \in Int /\ y(e, q) = a + z * e.x
  BY <1>2 DEF Start, y
<1>4. decay(f, Forget[dt]) \in Fits
  BY <1>1, DecayTypes
<1>5. push(w, e.x, y(e, q)) \in Fits /\ push(w, e.x, y(e, q)).n # 0
  BY <1>2, <1>4, PushTypes
<1>6. ASSUME OnLine(f, a, z) PROVE OnLine(push(w, e.x, y(e, q)), a, z)
  <2>1. OnLine(w, a, z)
    BY <1>1, <1>2, <1>3, <1>6, DecayKeepsLine
  <2> HIDE DEF a, z, w
  <2> QED BY <1>2, <1>3, <1>4, <2>1, PushKeepsLine DEF w
<1> QED BY <1>5, <1>6

\* integrate of one frame: types, and the line.
LEMMA IntegrateStep ==
  ASSUME Types, NEW i \in Int, NEW bleed \in Int \cup {None}, NEW q \in Int \cup {None},
         NEW dt \in Int, dt <= MaxGap, NEW level \in Int,
         NEW honest \in BOOLEAN, honest => q \in {level, None}
  PROVE  LET d == Read(i, bleed, q)
             r == integrate(d, dt)
             e == IF live = None \/ dt <= 0 THEN dev ELSE Advance(d, dt)
         IN  /\ r.dev \in [x : Int, span : Int, net : Int, bal : Int]
             /\ r.fit \in Fits
             /\ r.fit.n = 0 => r.fit = fit
             /\ honest /\ OnLine(fit, Start(e, level), 2 * Zero) =>
                  OnLine(r.fit, Start(r.dev, level), 2 * Zero)
<1> DEFINE d == Read(i, bleed, q)
           r == integrate(d, dt)
           e == Advance(d, dt)
           z == 2 * Zero
<1>1. CASE live = None \/ dt <= 0
  BY <1>1 DEF integrate, Types
<1>2. CASE ~(live = None \/ dt <= 0) /\ q = None
  <2>1. e \in [x : Int, span : Int, net : Int, bal : Int]
    BY <1>2, AdvanceTypes
  <2>2. r = [dev |-> e, fit |-> fit]
    BY <1>2 DEF integrate, Read
  <2> QED BY <1>2, <2>1, <2>2 DEF Types
<1>3. CASE ~(live = None \/ dt <= 0) /\ q # None
  <2>1. e \in [x : Int, span : Int, net : Int, bal : Int] /\ q \in Int /\ dt \in 1..MaxGap
    BY <1>3, AdvanceTypes, TimeAssumption
  <2> DEFINE f == push(decay(fit, Forget[dt]), e.x, y(e, q))
             by == e.x - Tau
             moved == [e EXCEPT !.x = e.x - by]
  <2>2. f \in Fits /\ f.n # 0
    BY <2>1, SampleStep DEF Types
  <2>3. r = IF TooFar(e.x) THEN [dev |-> moved, fit |-> shift_x(f, by)]
            ELSE [dev |-> e, fit |-> f]
    BY <1>3 DEF integrate, Read, Sampled
  <2>4. honest => q = level
    BY <1>3
  <2>5. ASSUME honest, OnLine(fit, Start(e, level), z) PROVE OnLine(f, Start(e, level), z)
    BY <2>1, <2>4, <2>5, SampleStep DEF Types
  <2>6. z \in Int /\ Start(e, level) \in Int /\ by \in Int
    <3>1. z \in Int /\ z * e.x \in Int
      BY <2>1, PackAssumption
    <3> QED BY <2>1, <3>1, OptionsAssumption DEF Start
  <2>7. CASE TooFar(e.x)
    <3>1. r.dev = moved /\ r.fit = shift_x(f, by)
      BY <2>3, <2>7
    <3>2. moved \in [x : Int, span : Int, net : Int, bal : Int]
      BY <2>1, <2>6
    <3>3. Start(moved, level) = Start(e, level) + z * by
      <4>1. moved.x = e.x - by /\ moved.net = e.net /\ moved.bal = e.bal
        BY <2>1
      <4>2. z * (e.x - by) = z * e.x - z * by /\ z * e.x \in Int /\ z * by \in Int
        <5> HIDE DEF by, e, z
        <5> QED BY <2>1, <2>6
      <4> HIDE DEF by, e, moved
      <4> QED BY <2>1, <2>6, <4>1, <4>2 DEF Start
    <3>4. shift_x(f, by) \in Fits /\ shift_x(f, by).n = f.n
      BY <2>2, <2>6, ShiftTypes
    <3>5. ASSUME honest, OnLine(fit, Start(e, level), z)
          PROVE  OnLine(shift_x(f, by), Start(e, level) + z * by, z)
      <4>1. OnLine(f, Start(e, level), z)
        BY <2>5, <3>5
      <4> HIDE DEF f, by, e, z
      <4> QED BY <2>2, <2>6, <4>1, ShiftKeepsLine
    <3>6. r.dev \in [x : Int, span : Int, net : Int, bal : Int] /\ r.fit \in Fits /\ r.fit.n # 0
      BY <2>2, <3>1, <3>2, <3>4
    <3>7. ASSUME honest, OnLine(fit, Start(e, level), z)
          PROVE  OnLine(r.fit, Start(r.dev, level), z)
      <4> HIDE DEF f, by, e, z, moved, r
      <4> QED BY <3>1, <3>3, <3>5, <3>7
    <3> HIDE DEF r
    <3> QED BY <1>3, <3>6, <3>7 DEF r
  <2>8. CASE ~TooFar(e.x)
    <3>1. r.dev = e /\ r.fit = f
      BY <2>3, <2>8
    <3> QED BY <1>3, <2>1, <2>2, <2>5, <3>1
  <2> QED BY <2>7, <2>8
<1> QED BY <1>1, <1>2, <1>3

LEMMA FrameKeepsLine ==
  ASSUME ClosureInv, NEW h \in Hours, NEW i \in Currents, NEW b \in Bleeds,
         NEW bleed \in Bleeds \cup Artifacts \cup {None}, NEW q \in Gauge,
         Frame(h, i, b, bleed, q)
  PROVE  ClosureInv'
<1> DEFINE level == pack.level + Moved(i, b, h)
           dt == Integrated(h)
           d == Read(i, bleed, q)
           r == integrate(d, dt)
           e == IF live = None \/ dt <= 0 THEN dev ELSE Advance(d, dt)
           z == 2 * Zero
           honest == seen.honest /\ q \in {level, None}
           complete == fit.n = 0 \/ (seen.complete /\ Accounted(i, b, bleed, h))
<1>1. /\ level \in Levels /\ bleed \in BleedReadings(b)
      /\ pack' = [level |-> level, current |-> i, bleed |-> b]
      /\ dev' = r.dev /\ fit' = r.fit
      /\ live' = [current |-> i + Zero, balance_a |-> bleed]
      /\ seen' = [frames |-> seen.frames + 1, complete |-> complete, honest |-> honest,
                  regular |-> seen.regular /\ h = 1 /\ q # None]
  BY DEF Frame, Read
<1>2. /\ h \in Nat /\ i \in Int /\ b \in Nat /\ bleed \in Int \cup {None}
      /\ q \in Int \cup {None} /\ dt \in Int /\ dt <= MaxGap /\ level \in Int
  BY <1>1, PackAssumption, TimeAssumption, ReadingAssumption
     DEF Gauge, Levels, Integrated, Least
<1>3. honest \in BOOLEAN /\ complete \in BOOLEAN
  BY DEF ClosureInv, Types
<1>4. Types /\ Sensor /\ Fresh /\ Line
  BY DEF ClosureInv
<1>5. /\ r.dev \in [x : Int, span : Int, net : Int, bal : Int]
      /\ r.fit \in Fits
      /\ r.fit.n = 0 => r.fit = fit
      /\ honest /\ OnLine(fit, Start(e, level), z) => OnLine(r.fit, Start(r.dev, level), z)
  <2> HIDE DEF level, dt, honest
  <2>1. honest => q \in {level, None}
    BY DEF honest
  <2> QED BY <1>2, <1>3, <1>4, <2>1, IntegrateStep
<1>6. Types'
  BY <1>1, <1>2, <1>3, <1>4, <1>5, PackAssumption DEF Types
<1>7. Sensor'
  BY <1>1 DEF Sensor, BleedReadings
<1>8. Fresh'
  BY <1>1, <1>4, <1>5 DEF Fresh
<1>9. ASSUME complete, honest PROVE OnLine(fit, Start(e, level), z)
  <2>1. e \in [x : Int, span : Int, net : Int, bal : Int]
    BY <1>2, <1>4, AdvanceTypes DEF Types
  <2>2. z \in Int /\ Start(e, level) \in Int
    <3>1. z \in Int /\ z * e.x \in Int
      BY <2>1, PackAssumption
    <3> QED BY <1>2, <2>1, <3>1 DEF Start
  <2>3. CASE fit.n = 0
    <3> HIDE DEF e, level, z
    <3> QED BY <1>4, <2>2, <2>3, EmptyOnLine
  <2>4. CASE seen.complete /\ Accounted(i, b, bleed, h)
    <3>1. Start(e, level) = Start(dev, pack.level)
      <4>1. CASE live = None \/ dt <= 0
        <5>1. Moved(i, b, h) = 0
          BY <1>1, <1>2, <1>4, <2>4, <4>1, StartStands
        <5> QED BY <1>4, <4>1, <5>1 DEF Types
      <4>2. CASE ~(live = None \/ dt <= 0)
        BY <1>1, <1>2, <1>4, <2>4, <4>2, StartStands
      <4> QED BY <4>1, <4>2
    <3>2. OnLine(fit, Start(dev, pack.level), z)
      BY <1>4, <1>9, <2>4 DEF Line
    <3> QED BY <3>1, <3>2
  <2> QED BY <1>9, <2>3, <2>4
<1>10. Line'
  <2>1. pack'.level = level /\ seen'.complete = complete /\ seen'.honest = honest
    BY <1>1
  <2>2. dev' = r.dev /\ fit' = r.fit
    BY <1>1
  <2> HIDE DEF level, honest, complete, r, e
  <2> QED BY <1>5, <1>9, <2>1, <2>2 DEF Line
<1> QED BY <1>6, <1>7, <1>8, <1>10 DEF ClosureInv

LEMMA LineStep == ClosureInv /\ [Next]_vars => ClosureInv'
<1> SUFFICES ASSUME ClosureInv, [Next]_vars PROVE ClosureInv'
  OBVIOUS
<1>1. ASSUME NEW h \in Hours, NEW i \in Currents, NEW b \in Bleeds,
             NEW bleed \in Bleeds \cup Artifacts \cup {None}, NEW q \in Gauge,
             Frame(h, i, b, bleed, q)
      PROVE  ClosureInv'
  BY <1>1, FrameKeepsLine
<1>2. CASE restart
  BY <1>2 DEF restart, ClosureInv, Types, Sensor, Fresh, Line
<1>3. CASE UNCHANGED vars
  BY <1>3 DEF vars, ClosureInv, Types, Sensor, Fresh, Line
<1> QED BY <1>1, <1>2, <1>3 DEF Next

\* An honest gauge gives the zero error of the sensor as the slope, whatever
\* flows and however the frames come (EwFit, integrate of calibration.rs).
THEOREM ExactClosure == Spec => []HonestGaugeClosesExactly
<1>1. ClosureInv => HonestGaugeClosesExactly
  <2> SUFFICES ASSUME ClosureInv, HasFit(fit), seen.complete, seen.honest
               PROVE  Rise(fit) = 2 * Zero * Run(fit)
    BY DEF HonestGaugeClosesExactly
  <2>1. OnLine(fit, Start(dev, pack.level), 2 * Zero) /\ fit \in Fits
    BY DEF ClosureInv, Line, Types
  <2>2. 2 * Zero \in Int /\ Start(dev, pack.level) \in Int
    <3>1. (2 * Zero) * dev.x \in Int
      BY PackAssumption DEF ClosureInv, Types
    <3> QED BY <3>1, PackAssumption DEF ClosureInv, Types, Start
  <2> QED BY <2>1, <2>2, SlopeOfLine
<1> QED BY <1>1, InitialLine, LineStep, PTL DEF Spec

-----------------------------------------------------------------------------
(* Arithmetic.                                                             *)

LEMMA ProductSign == \A p, q \in Int : p >= 0 /\ q >= 0 => p * q >= 0
OBVIOUS

LEMMA SquareSign == \A p \in Int : p * p >= 0
OBVIOUS

Form(n, p, q, s, t, g, i, j, k) ==
  i * (i * n + j * p + k * s) + j * (i * p + j * q + k * t) + k * (i * s + j * t + k * g)

\* Cauchy's inequality.
LEMMA FormBound ==
  ASSUME NEW n \in Int, NEW p \in Int, NEW q \in Int, NEW s \in Int, NEW t \in Int, NEW g \in Int,
         n > 0, n * q - p * p > 0,
         \A i, j, k \in Int : Form(n, p, q, s, t, g, i, j, k) >= 0
  PROVE  (n * t - p * s) * (n * t - p * s) <= (n * q - p * p) * (n * g)
<1> DEFINE r == n * q - p * p
           e == n * t - p * s
           v == n * g - s * s
<1>1. r \in Int /\ e \in Int /\ v \in Int /\ r > 0
  OBVIOUS
<1>2. Form(n, p, q, s, t, g, -((-e) * p + r * s), (-e) * n, r * n)
        = n * (((-e) * (-e)) * r + 2 * (((-e) * r) * e) + (r * r) * v)
  <2>1. \A j, k \in Int : Form(n, p, q, s, t, g, -(j * p + k * s), j * n, k * n)
                            = n * ((j * j) * r + 2 * ((j * k) * e) + (k * k) * v)
    BY DEF Form
  <2>2. -e \in Int
    BY <1>1
  <2> HIDE DEF r, e, v
  <2> QED BY <1>1, <2>1, <2>2
<1>3. Form(n, p, q, s, t, g, -((-e) * p + r * s), (-e) * n, r * n) >= 0
  <2>1. \A i, j, k \in Int : Form(n, p, q, s, t, g, i, j, k) >= 0
    OBVIOUS
  <2> HIDE DEF e, r
  <2>2. -((-e) * p + r * s) \in Int /\ (-e) * n \in Int /\ r * n \in Int
    BY <1>1
  <2> QED BY <2>1, <2>2
<1> HIDE DEF r, e, v
<1>4. n * (((-e) * (-e)) * r + 2 * (((-e) * r) * e) + (r * r) * v) = (n * r) * (r * v - e * e)
  BY <1>1
<1>5. (n * r) * (r * v - e * e) >= 0 /\ n * r > 0
  BY <1>1, <1>2, <1>3, <1>4
<1>6. r * v - e * e >= 0
  <2>1. \A a, b \in Int : a > 0 /\ a * b >= 0 => b >= 0
    OBVIOUS
  <2>2. n * r \in Int /\ r * v - e * e \in Int
    BY <1>1
  <2> QED BY <1>5, <2>1, <2>2
<1>7. r * v <= r * (n * g)
  <2>1. v <= n * g /\ n * g \in Int
    BY SquareSign DEF v
  <2>2. \A a, b, c \in Int : a > 0 /\ b <= c => a * b <= a * c
    OBVIOUS
  <2> QED BY <1>1, <2>1, <2>2
<1>8. r * v \in Int /\ e * e \in Int /\ r * (n * g) \in Int
  BY <1>1
<1>9. e * e <= r * (n * g)
  <2> DEFINE a == r * v
             b == e * e
             c == r * (n * g)
  <2> HIDE DEF a, b, c
  <2>1. a \in Int /\ b \in Int /\ c \in Int /\ a - b >= 0 /\ a <= c
    BY <1>6, <1>7, <1>8 DEF a, b, c
  <2> QED BY <2>1 DEF b, c
<1> QED BY <1>9 DEF e, r

\* From the two bounds, on the error and on the spread.
LEMMA RootsBound ==
  ASSUME NEW n \in Int, NEW u \in Int, NEW r \in Int, NEW e \in Int, NEW c \in Int,
         u > 0, n >= u, r > 0, e >= 0, c >= 0,
         e * e <= r * (n * (n * (c * c))),
         n * n * (n * n - u * u) <= 12 * ((u * u) * r)
  PROVE  2 * e * (n - u) <= 7 * u * c * r
<1> DEFINE d == n - u
           w == u * c * r
<1>1. SUFFICES ASSUME 2 * (e * d) > 7 * w PROVE FALSE
  <2>1. 2 * e * d = 2 * (e * d) /\ 7 * u * c * r = 7 * w
    OBVIOUS
  <2>2. e * d \in Int /\ w \in Int
    OBVIOUS
  <2> HIDE DEF w
  <2> QED BY <2>1, <2>2
<1>2. d \in Int /\ d >= 0 /\ w \in Int /\ w >= 0 /\ e * d \in Int
  BY ProductSign
<1>3. 49 * (w * w) < 4 * ((e * d) * (e * d))
  <2> DEFINE h == e * d
  <2> HIDE DEF w, h
  <2>1. h \in Int
    BY <1>2 DEF h
  <2> QED BY <1>1, <1>2, <2>1 DEF h
<1>4. (e * d) * (e * d) <= (r * (c * c)) * ((n * n) * (d * d))
  <2>1. (e * d) * (e * d) = (e * e) * (d * d)
        /\ (r * (n * (n * (c * c)))) * (d * d) = (r * (c * c)) * ((n * n) * (d * d))
    BY <1>2
  <2>2. \A x, z, k \in Int : k >= 0 /\ x <= z => x * k <= z * k
    OBVIOUS
  <2>3. d * d >= 0 /\ d * d \in Int /\ e * e \in Int /\ r * (n * (n * (c * c))) \in Int
    BY <1>2
  <2>4. (e * e) * (d * d) <= (r * (n * (n * (c * c)))) * (d * d)
    BY <2>2, <2>3
  <2> QED BY <2>1, <2>4
<1>5. (n * n) * (d * d) <= 12 * ((u * u) * r)
  <2>1. d * d <= n * n - u * u
    <3>1. n * n - u * u - d * d = 2 * (u * d)
      OBVIOUS
    <3>2. u * d >= 0 /\ u * d \in Int /\ d * d \in Int /\ n * n - u * u \in Int
      BY <1>2, ProductSign
    <3> HIDE DEF d
    <3> QED BY <3>1, <3>2
  <2>2. n * n \in Int /\ n * n >= 0 /\ d * d \in Int /\ n * n - u * u \in Int
    BY <1>2
  <2>3. \A x, z, k \in Int : k >= 0 /\ x <= z => k * x <= k * z
    OBVIOUS
  <2>4. (n * n) * (d * d) <= (n * n) * (n * n - u * u)
    BY <2>1, <2>2, <2>3
  <2>5. (n * n) * (d * d) \in Int /\ (n * n) * (n * n - u * u) \in Int /\ 12 * ((u * u) * r) \in Int
    BY <2>2
  <2> QED BY <2>4, <2>5
<1>6. (r * (c * c)) * ((n * n) * (d * d)) <= (r * (c * c)) * (12 * ((u * u) * r))
  <2>1. r * (c * c) \in Int /\ r * (c * c) >= 0
    BY ProductSign
  <2>2. (n * n) * (d * d) \in Int /\ 12 * ((u * u) * r) \in Int
    BY <1>2
  <2>3. \A x, z, k \in Int : k >= 0 /\ x <= z => k * x <= k * z
    OBVIOUS
  <2> QED BY <1>5, <2>1, <2>2, <2>3
<1>7. (r * (c * c)) * (12 * ((u * u) * r)) = 12 * (w * w)
  OBVIOUS
<1>8. w * w \in Int /\ w * w >= 0 /\ (e * d) * (e * d) \in Int
      /\ (r * (c * c)) * ((n * n) * (d * d)) \in Int
  BY <1>2
<1> HIDE DEF w, d
<1> QED BY <1>3, <1>4, <1>6, <1>7, <1>8

-----------------------------------------------------------------------------
(***************************************************************************)
(* The spread of the samples.  They lie at least one hour apart and their  *)
(* weights do not grow backwards, so that the last one is as far from      *)
(* their middle, and they are as wide, as if the weight were spread evenly *)
(* over as many hours as it has units.                                     *)
(***************************************************************************)

Lag(f, x) == x * f.n - f.sx

Spread(f, x) ==
  /\ f.n * (f.n - f.unit) <= 2 * (f.unit * Lag(f, x))
  /\ (f.n * f.n) * (f.n * f.n - f.unit * f.unit) <= 12 * ((f.unit * f.unit) * Run(f))

EmptySums(f) == f.n = 0 => f.sx = 0 /\ f.sy = 0 /\ f.sxx = 0 /\ f.sxy = 0

LEMMA ScaleUp == \A a, b, k \in Int : k >= 0 /\ a <= b => k * a <= k * b
OBVIOUS

LEMMA DecaySpread ==
  ASSUME NEW f \in Fits, NEW x \in Int, Spread(f, x),
         NEW factor \in (Nat \ {0}) \X (Nat \ {0}), factor[1] <= factor[2]
  PROVE  Spread(decay(f, factor), x)
<1> DEFINE p == factor[1]
           r == factor[2]
           n == f.n
           u == f.unit
           l == Lag(f, x)
           w == Run(f)
           g == decay(f, factor)
<1>1. p \in Nat /\ r \in Nat /\ p > 0 /\ p <= r
  OBVIOUS
<1>2. n \in Nat /\ u \in Nat /\ u > 0 /\ l \in Int /\ w \in Int
  BY DEF Fits, Lag, Run
<1>3. g.n = n * p /\ g.unit = u * r /\ g.sx = f.sx * p /\ g.sxx = f.sxx * p
  BY DEF decay
<1>4. Lag(g, x) = l * p
  <2>1. f.sx \in Int
    BY DEF Fits
  <2> HIDE DEF p, r, g
  <2> QED BY <1>1, <1>2, <1>3, <2>1 DEF Lag
<1>5. Run(g) = (p * p) * w
  <2>1. f.sx \in Int /\ f.sxx \in Int
    BY DEF Fits
  <2> HIDE DEF p, r, g
  <2> QED BY <1>1, <1>2, <1>3, <2>1 DEF Run
<1>6. n * (n - u) <= 2 * (u * l) /\ (n * n) * (n * n - u * u) <= 12 * ((u * u) * w)
  BY DEF Spread
<1> HIDE DEF p, r, n, u, l, w, g
<1>7. (n * p) * (n * p - u * r) <= 2 * ((u * r) * (l * p))
  <2>1. (p * r) * (n * (n - u)) <= (p * r) * (2 * (u * l))
    <3>1. p * r \in Int /\ p * r >= 0 /\ n * (n - u) \in Int /\ 2 * (u * l) \in Int
      BY <1>1, <1>2, ProductSign
    <3> QED BY <1>6, <3>1, ScaleUp
  <2>2. (p * r) * (2 * (u * l)) = 2 * ((u * r) * (l * p))
    BY <1>1, <1>2
  <2>3. (p * r) * (n * (n - u)) - (n * p) * (n * p - u * r) = (p * (n * n)) * (r - p)
    BY <1>1, <1>2
  <2>4. (p * (n * n)) * (r - p) >= 0
    <3>1. p * (n * n) \in Int /\ p * (n * n) >= 0 /\ r - p \in Int /\ r - p >= 0
      BY <1>1, <1>2, ProductSign
    <3> QED BY <3>1, ProductSign
  <2>5. (p * r) * (n * (n - u)) \in Int /\ (n * p) * (n * p - u * r) \in Int
        /\ (p * r) * (2 * (u * l)) \in Int
    BY <1>1, <1>2
  <2> QED BY <2>1, <2>2, <2>3, <2>4, <2>5
<1>8. ((n * p) * (n * p)) * ((n * p) * (n * p) - (u * r) * (u * r))
        <= 12 * (((u * r) * (u * r)) * ((p * p) * w))
  <2> DEFINE k == (p * p) * (r * r)
             a == (n * n) * (n * n - u * u)
             b == 12 * ((u * u) * w)
             c == ((n * p) * (n * p)) * ((n * p) * (n * p) - (u * r) * (u * r))
  <2>1. k \in Int /\ k >= 0 /\ a \in Int /\ b \in Int /\ c \in Int
    <3>1. p * p \in Int /\ p * p >= 0 /\ r * r \in Int /\ r * r >= 0
      BY <1>1, SquareSign
    <3>2. (p * p) * (r * r) \in Int /\ (p * p) * (r * r) >= 0
      BY <3>1, ProductSign
    <3> QED BY <1>1, <1>2, <3>2
  <2>2. k * a <= k * b
    BY <1>6, <2>1, ScaleUp
  <2>3. k * b = 12 * (((u * r) * (u * r)) * ((p * p) * w))
    BY <1>1, <1>2
  <2>4. k * a - c = ((p * p) * ((n * n) * (n * n))) * (r * r - p * p)
    BY <1>1, <1>2
  <2>5. ((p * p) * ((n * n) * (n * n))) * (r * r - p * p) >= 0
    <3>1. r * r - p * p = (r - p) * (r + p) /\ (r - p) * (r + p) >= 0
      BY <1>1, ProductSign
    <3>2. p * p \in Int /\ p * p >= 0 /\ n * n \in Int /\ n * n >= 0
      BY <1>1, <1>2, SquareSign
    <3>3. (n * n) * (n * n) \in Int /\ (n * n) * (n * n) >= 0
      BY <3>2, ProductSign
    <3>4. (p * p) * ((n * n) * (n * n)) \in Int /\ (p * p) * ((n * n) * (n * n)) >= 0
      BY <3>2, <3>3, ProductSign
    <3>5. r * r - p * p \in Int
      BY <1>1
    <3> QED BY <3>1, <3>4, <3>5, ProductSign
  <2>6. k * a \in Int /\ k * b \in Int
    BY <2>1
  <2> HIDE DEF k, a, b
  <2>7. c <= k * b
    <3> HIDE DEF c
    <3> QED BY <2>1, <2>2, <2>4, <2>5, <2>6
  <2> QED BY <2>3, <2>7
<1> QED BY <1>3, <1>4, <1>5, <1>7, <1>8 DEF Spread, g

\* Hours that pass without a sample.
LEMMA WaitSpread ==
  ASSUME NEW f \in Fits, NEW x \in Int, Spread(f, x), NEW h \in Nat
  PROVE  Spread(f, x + h)
<1> DEFINE n == f.n
           u == f.unit
           l == Lag(f, x)
<1>1. n \in Nat /\ u \in Nat /\ u > 0 /\ l \in Int /\ f.sx \in Int
  BY DEF Fits, Lag
<1>2. Lag(f, x + h) = l + h * n
  BY <1>1 DEF Lag
<1>3. n * (n - u) <= 2 * (u * l)
  BY DEF Spread
<1> HIDE DEF n, u, l
<1>4. n * (n - u) <= 2 * (u * (l + h * n))
  <2>1. u * (l + h * n) = u * l + u * (h * n)
    BY <1>1
  <2>2. h * n \in Int /\ h * n >= 0
    BY <1>1, ProductSign
  <2>3. u * (h * n) \in Int /\ u * (h * n) >= 0
    BY <1>1, <2>2, ProductSign
  <2>4. u * l \in Int /\ n * (n - u) \in Int
    BY <1>1
  <2> QED BY <1>3, <2>1, <2>3, <2>4
<1> QED BY <1>2, <1>4 DEF Spread, n, u, l

\* A sample an hour or more after the last one.
LEMMA PushSpread ==
  ASSUME NEW f \in Fits, EmptySums(f), NEW x \in Int, Spread(f, x),
         NEW h \in Nat, h >= 1, NEW v \in Int
  PROVE  Spread(push(f, x + h, v), x + h)
<1> DEFINE n == f.n
           u == f.unit
           z == x + h
           l == Lag(f, z)
           w == Run(f)
           g == push(f, z, v)
<1>1. n \in Nat /\ u \in Nat /\ u > 0 /\ l \in Int /\ w \in Int /\ z \in Int
      /\ f.sx \in Int /\ f.sxx \in Int
  BY DEF Fits, Lag, Run
<1>2. /\ g.n = n + u /\ g.unit = u
      /\ g.sx = f.sx + u * z /\ g.sxx = f.sxx + u * (z * z)
  BY DEF push
<1>3. Lag(g, z) = l
  <2> HIDE DEF z, g
  <2> QED BY <1>1, <1>2 DEF Lag
<1>4. n * Run(g) = (n + u) * w + u * (l * l)
  <2> HIDE DEF z, g
  <2> QED BY <1>1, <1>2 DEF Run, Lag
<1>5. n * (n + u) <= 2 * (u * l)
  <2> DEFINE k == Lag(f, x)
  <2>1. n * (n - u) <= 2 * (u * k) /\ l = k + h * n /\ k \in Int
    BY <1>1 DEF Spread, Lag
  <2> HIDE DEF n, u, l, k
  <2>2. u * l = u * k + u * (h * n)
    BY <1>1, <2>1
  <2>3. h * n >= n /\ h * n \in Int
    <3>1. h * n = n + (h - 1) * n /\ (h - 1) * n >= 0 /\ (h - 1) * n \in Int
      BY <1>1, ProductSign
    <3> QED BY <1>1, <3>1
  <2>4. u * (h * n) >= u * n
    BY <1>1, <2>3, ScaleUp
  <2>5. n * (n + u) = n * (n - u) + 2 * (u * n)
    BY <1>1
  <2>6. u * k \in Int /\ u * (h * n) \in Int /\ u * n \in Int /\ n * (n - u) \in Int
    BY <1>1, <2>1, <2>3
  <2> QED BY <2>1, <2>2, <2>4, <2>5, <2>6
<1>6. (n * n) * (n * n - u * u) <= 12 * ((u * u) * w)
  BY DEF Spread
<1>7. Run(g) \in Int
  <2> HIDE DEF z, g
  <2> QED BY <1>1, <1>2 DEF Run
<1>8. CASE n = 0
  <2>1. l = 0 /\ w = 0
    BY <1>1, <1>8 DEF EmptySums, Lag, Run
  <2>2. Run(g) = 0
    <3>1. f.sx = 0 /\ f.sxx = 0
      BY <1>8 DEF EmptySums
    <3> HIDE DEF z, g
    <3> QED BY <1>1, <1>2, <1>8, <3>1 DEF Run
  <2>3. g.n = u /\ g.unit = u /\ Lag(g, z) = 0
    BY <1>1, <1>2, <1>3, <1>8, <2>1
  <2>4. u * (u - u) = 0 /\ (u * u) * (u * u - u * u) = 0 /\ u * 0 = 0 /\ (u * u) * 0 = 0
    <3> HIDE DEF u
    <3> QED BY <1>1
  <2> HIDE DEF g, z, u
  <2>5. Spread(g, z)
    BY <2>2, <2>3, <2>4 DEF Spread
  <2> QED BY <2>5 DEF g, z
<1>9. CASE n > 0
  <2> HIDE DEF n, u, l, w, g, z
  <2>1. (n + u) * (n + u - u) <= 2 * (u * l)
    BY <1>1, <1>5
  <2> DEFINE m == n + u
             a == 12 * ((u * u) * Run(g))
             b == (m * m) * (m * m - u * u)
  <2>2. n * a = m * (12 * ((u * u) * w)) + (3 * u) * ((2 * (u * l)) * (2 * (u * l)))
    <3>1. n * a = 12 * ((u * u) * (n * Run(g)))
      BY <1>1, <1>7
    <3> HIDE DEF a
    <3> QED BY <1>1, <1>4, <1>7, <3>1
  <2>3. n * b = m * ((n * n) * (n * n - u * u)) + (3 * u) * ((n * m) * (n * m))
    BY <1>1
  <2>4. m * ((n * n) * (n * n - u * u)) <= m * (12 * ((u * u) * w))
    <3>1. m \in Int /\ m >= 0 /\ (n * n) * (n * n - u * u) \in Int /\ 12 * ((u * u) * w) \in Int
      BY <1>1
    <3> HIDE DEF m
    <3> QED BY <1>6, <3>1, ScaleUp
  <2>5. (n * m) * (n * m) <= (2 * (u * l)) * (2 * (u * l))
    <3> DEFINE c == n * m
               d == 2 * (u * l)
    <3>1. c \in Int /\ c >= 0 /\ d \in Int /\ c <= d
      BY <1>1, <1>5, ProductSign
    <3> HIDE DEF c, d
    <3>2. c * c <= d * d
      BY <3>1
    <3> QED BY <3>2 DEF c, d
  <2>6. (3 * u) * ((n * m) * (n * m)) <= (3 * u) * ((2 * (u * l)) * (2 * (u * l)))
    <3>1. 3 * u \in Int /\ 3 * u >= 0 /\ (n * m) * (n * m) \in Int
          /\ (2 * (u * l)) * (2 * (u * l)) \in Int
      BY <1>1
    <3> QED BY <2>5, <3>1, ScaleUp
  <2>7. n * b <= n * a
    <3>1. /\ m * ((n * n) * (n * n - u * u)) \in Int /\ m * (12 * ((u * u) * w)) \in Int
          /\ (3 * u) * ((n * m) * (n * m)) \in Int
          /\ (3 * u) * ((2 * (u * l)) * (2 * (u * l))) \in Int
      BY <1>1
    <3> HIDE DEF a, b
    <3> QED BY <2>2, <2>3, <2>4, <2>6, <3>1
  <2>8. a \in Int /\ b \in Int
    BY <1>1, <1>7
  <2>9. b <= a
    <3> HIDE DEF a, b
    <3>1. \A i, j, k \in Int : k > 0 /\ k * i <= k * j => i <= j
      OBVIOUS
    <3> QED BY <1>1, <1>9, <2>7, <2>8, <3>1
  <2>10. Spread(g, z)
    <3>1. /\ m * (n + u - u) <= 2 * (u * l)
          /\ (m * m) * (m * m - u * u) <= 12 * ((u * u) * Run(g))
      BY <2>1, <2>9
    <3>2. g.n = m /\ g.unit = u /\ Lag(g, z) = l
      BY <1>2, <1>3 DEF n, u
    <3> HIDE DEF m
    <3>3. m * (m - u) <= 2 * (u * l)
      BY <1>1, <2>1 DEF m
    <3> QED BY <3>1, <3>2, <3>3 DEF Spread
  <2> QED BY <2>10 DEF g, z
<1> QED BY <1>1, <1>8, <1>9

\* Another origin is another way to count the same hours.
LEMMA ShiftSpread ==
  ASSUME NEW f \in Fits, NEW x \in Int, Spread(f, x), NEW d \in Int
  PROVE  Spread(shift_x(f, d), x - d)
<1> DEFINE g == shift_x(f, d)
<1>1. /\ g.n = f.n /\ g.unit = f.unit
      /\ g.sx = f.sx - d * f.n
      /\ g.sxx = f.sxx - 2 * (d * f.sx) + (d * d) * f.n
  BY DEF shift_x, Fits
<1>2. f.n \in Int /\ f.sx \in Int /\ f.sxx \in Int
  BY DEF Fits
<1> HIDE DEF g
<1>3. Lag(g, x - d) = Lag(f, x)
  BY <1>1, <1>2 DEF Lag
<1>4. Run(g) = Run(f)
  BY <1>1, <1>2 DEF Run
<1> QED BY <1>1, <1>3, <1>4 DEF Spread, g

-----------------------------------------------------------------------------
(***************************************************************************)
(* Samples no further than c from the line a + z * x: their moments, with  *)
(* c * c for the square of each distance, have no negative form.           *)
(***************************************************************************)

Off(f, a, z) == f.sy - a * f.n - z * f.sx
OffX(f, a, z) == f.sxy - a * f.sx - z * f.sxx

Near(f, a, z, c) ==
  \A i, j, k \in Int :
    Form(f.n, f.sx, f.sxx, Off(f, a, z), OffX(f, a, z), f.n * (c * c), i, j, k) >= 0

LEMMA OffTypes ==
  ASSUME NEW f \in Fits, NEW a \in Int, NEW z \in Int
  PROVE  Off(f, a, z) \in Int /\ OffX(f, a, z) \in Int
<1> DEFINE n == f.n
           x == f.sx
           xx == f.sxx
<1>1. n \in Int /\ x \in Int /\ xx \in Int /\ f.sy \in Int /\ f.sxy \in Int
  BY DEF Fits
<1>2. a * n \in Int /\ z * x \in Int /\ a * x \in Int /\ z * xx \in Int
  <2> HIDE DEF n, x, xx
  <2> QED BY <1>1
<1> QED BY <1>1, <1>2 DEF Off, OffX

LEMMA EmptyNear ==
  ASSUME NEW f \in Fits, EmptySums(f), f.n = 0, NEW a \in Int, NEW z \in Int, NEW c \in Int
  PROVE  Near(f, a, z, c)
<1>1. Off(f, a, z) = 0 /\ OffX(f, a, z) = 0
  BY DEF EmptySums, Off, OffX
<1>2. f.sx = 0 /\ f.sxx = 0
  BY DEF EmptySums
<1>3. 0 * (c * c) = 0
  OBVIOUS
<1>4. \A i, j, k \in Int : Form(0, 0, 0, 0, 0, 0, i, j, k) = 0
  BY DEF Form
<1> QED BY <1>1, <1>2, <1>3, <1>4 DEF Near

LEMMA DecayNear ==
  ASSUME NEW f \in Fits, NEW a \in Int, NEW z \in Int, NEW c \in Int, Near(f, a, z, c),
         NEW factor \in (Nat \ {0}) \X (Nat \ {0})
  PROVE  Near(decay(f, factor), a, z, c)
<1> DEFINE m == factor[1]
           g == decay(f, factor)
           s == Off(f, a, z)
           t == OffX(f, a, z)
           n == f.n
           x == f.sx
           xx == f.sxx
           sq == n * (c * c)
<1>1. m \in Int /\ m >= 0
  OBVIOUS
<1>2. g.n = n * m /\ g.sx = x * m /\ g.sxx = xx * m /\ g.sy = f.sy * m /\ g.sxy = f.sxy * m
  BY DEF decay
<1>3. n \in Int /\ x \in Int /\ xx \in Int /\ f.sy \in Int /\ f.sxy \in Int
      /\ s \in Int /\ t \in Int /\ sq \in Int
  BY OffTypes DEF Fits
<1>4. s = f.sy - a * n - z * x /\ t = f.sxy - a * x - z * xx
  BY DEF Off, OffX
<1>5. \A i, j, k \in Int : Form(n, x, xx, s, t, sq, i, j, k) >= 0
  BY DEF Near
<1> HIDE DEF g, m, n, x, xx, s, t
<1>6. Off(g, a, z) = s * m /\ OffX(g, a, z) = t * m
  BY <1>1, <1>2, <1>3, <1>4 DEF Off, OffX
<1>7. g.n * (c * c) = sq * m
  BY <1>1, <1>2, <1>3
<1> HIDE DEF sq
<1>8. ASSUME NEW i \in Int, NEW j \in Int, NEW k \in Int
      PROVE  Form(n * m, x * m, xx * m, s * m, t * m, sq * m, i, j, k) >= 0
  <2> DEFINE v == Form(n, x, xx, s, t, sq, i, j, k)
  <2>1. v \in Int /\ v >= 0
    <3>1. v \in Int
      BY <1>3, <1>8 DEF Form
    <3> QED BY <1>5, <1>8, <3>1
  <2>2. Form(n * m, x * m, xx * m, s * m, t * m, sq * m, i, j, k) = m * v
    BY <1>1, <1>3, <1>8 DEF Form
  <2> HIDE DEF v
  <2> QED BY <1>1, <2>1, <2>2, ProductSign
<1>9. Near(g, a, z, c)
  BY <1>2, <1>6, <1>7, <1>8 DEF Near
<1> QED BY <1>9 DEF g

\* Another sample no further off.
LEMMA PushNear ==
  ASSUME NEW f \in Fits, NEW a \in Int, NEW z \in Int, NEW c \in Int, Near(f, a, z, c),
         NEW x \in Int, NEW e \in Int, -c <= e, e <= c
  PROVE  Near(push(f, x, a + z * x + e), a, z, c)
<1> DEFINE v == a + z * x + e
           g == push(f, x, v)
           u == f.unit
           n == f.n
           p == f.sx
           q == f.sxx
           s == Off(f, a, z)
           t == OffX(f, a, z)
           sq == n * (c * c)
<1>1. /\ g.n = n + u /\ g.sx = p + u * x /\ g.sxx = q + u * (x * x)
      /\ g.sy = f.sy + u * v /\ g.sxy = f.sxy + u * (x * v)
  BY DEF push
<1>2. n \in Int /\ p \in Int /\ q \in Int /\ f.sy \in Int /\ f.sxy \in Int
      /\ s \in Int /\ t \in Int /\ sq \in Int /\ u \in Int /\ u >= 0
  BY OffTypes DEF Fits
<1>3. s = f.sy - a * n - z * p /\ t = f.sxy - a * p - z * q
  BY DEF Off, OffX
<1>4. \A i, j, k \in Int : Form(n, p, q, s, t, sq, i, j, k) >= 0
  BY DEF Near
<1> HIDE DEF g, n, p, q, s, t, u
<1>5. Off(g, a, z) = s + u * e /\ OffX(g, a, z) = t + u * (x * e)
  BY <1>1, <1>2, <1>3 DEF Off, OffX
<1>6. g.n * (c * c) = sq + u * (c * c)
  BY <1>1, <1>2
<1> HIDE DEF sq
<1>7. ASSUME NEW i \in Int, NEW j \in Int, NEW k \in Int
      PROVE  Form(n + u, p + u * x, q + u * (x * x), s + u * e, t + u * (x * e),
                  sq + u * (c * c), i, j, k) >= 0
  <2> DEFINE w == Form(n, p, q, s, t, sq, i, j, k)
             l == i + j * x + k * e
             b == l * l + (k * k) * ((c - e) * (c + e))
  <2>1. w \in Int /\ w >= 0
    <3>1. w \in Int
      BY <1>2, <1>7 DEF Form
    <3> QED BY <1>4, <1>7, <3>1
  <2>2. b \in Int /\ b >= 0
    <3>1. (c - e) * (c + e) \in Int /\ (c - e) * (c + e) >= 0
      BY ProductSign
    <3>2. k * k \in Int /\ k * k >= 0
      BY <1>7, SquareSign
    <3>3. l \in Int
      BY <1>7
    <3>4. l * l \in Int /\ l * l >= 0
      <4> HIDE DEF l
      <4> QED BY <3>3, SquareSign
    <3>5. (k * k) * ((c - e) * (c + e)) \in Int /\ (k * k) * ((c - e) * (c + e)) >= 0
      BY <3>1, <3>2, ProductSign
    <3> HIDE DEF l
    <3> QED BY <3>4, <3>5
  <2>3. Form(n + u, p + u * x, q + u * (x * x), s + u * e, t + u * (x * e),
             sq + u * (c * c), i, j, k) = w + u * b
    BY <1>2, <1>7 DEF Form
  <2>4. u * b \in Int /\ u * b >= 0
    <3> HIDE DEF b
    <3> QED BY <1>2, <2>2, ProductSign
  <2> HIDE DEF w, b
  <2> QED BY <2>1, <2>3, <2>4
<1>8. Near(g, a, z, c)
  BY <1>1, <1>5, <1>6, <1>7 DEF Near
<1> QED BY <1>8 DEF g, v

LEMMA ShiftNear ==
  ASSUME NEW f \in Fits, NEW a \in Int, NEW z \in Int, NEW c \in Int, Near(f, a, z, c),
         NEW d \in Int
  PROVE  Near(shift_x(f, d), a + z * d, z, c)
<1> DEFINE g == shift_x(f, d)
           h == a + z * d
           n == f.n
           p == f.sx
           q == f.sxx
           s == Off(f, a, z)
           t == OffX(f, a, z)
           sq == n * (c * c)
<1>1. /\ g.n = n /\ g.sx = p - d * n /\ g.sxx = q - 2 * (d * p) + (d * d) * n
      /\ g.sy = f.sy /\ g.sxy = f.sxy - d * f.sy
  BY DEF shift_x, Fits
<1>2. n \in Int /\ p \in Int /\ q \in Int /\ f.sy \in Int /\ f.sxy \in Int
      /\ s \in Int /\ t \in Int /\ sq \in Int
  BY OffTypes DEF Fits
<1>3. s = f.sy - a * n - z * p /\ t = f.sxy - a * p - z * q
  BY DEF Off, OffX
<1>4. \A i, j, k \in Int : Form(n, p, q, s, t, sq, i, j, k) >= 0
  BY DEF Near
<1> HIDE DEF g, n, p, q, s, t
<1>5. Off(g, h, z) = s /\ OffX(g, h, z) = t - d * s
  BY <1>1, <1>2, <1>3 DEF Off, OffX
<1>6. g.n * (c * c) = sq
  BY <1>1
<1> HIDE DEF sq, h
<1>7. ASSUME NEW i \in Int, NEW j \in Int, NEW k \in Int
      PROVE  Form(n, p - d * n, q - 2 * (d * p) + (d * d) * n, s, t - d * s, sq, i, j, k) >= 0
  <2>1. i - j * d \in Int
    BY <1>7
  <2>2. Form(n, p, q, s, t, sq, i - j * d, j, k) >= 0
    <3> DEFINE o == i - j * d
    <3> HIDE DEF o
    <3>1. Form(n, p, q, s, t, sq, o, j, k) >= 0
      BY <1>4, <1>7, <2>1 DEF o
    <3> QED BY <3>1 DEF o
  <2>3. Form(n, p - d * n, q - 2 * (d * p) + (d * d) * n, s, t - d * s, sq, i, j, k)
          = Form(n, p, q, s, t, sq, i - j * d, j, k)
    BY <1>2, <1>7 DEF Form
  <2> QED BY <2>2, <2>3
<1>8. Near(g, h, z, c)
  BY <1>1, <1>5, <1>6, <1>7 DEF Near
<1> QED BY <1>8 DEF g, h

\* The two together: how far a slope can be from z.
LEMMA SlopeBound ==
  ASSUME NEW f \in Fits, NEW x \in Int, Spread(f, x), NEW a \in Int, NEW z \in Int,
         NEW c \in Nat, Near(f, a, z, c), f.n >= f.unit, Run(f) > 0
  PROVE  2 * Abs(Rise(f) - z * Run(f)) * (f.n - f.unit) <= 7 * f.unit * c * Run(f)
<1> DEFINE n == f.n
           u == f.unit
           p == f.sx
           q == f.sxx
           s == Off(f, a, z)
           t == OffX(f, a, z)
           r == Run(f)
           g == n * (c * c)
           v == n * t - p * s
           e == Abs(v)
<1>1. n \in Int /\ u \in Int /\ p \in Int /\ q \in Int /\ s \in Int /\ t \in Int /\ g \in Int
      /\ u > 0 /\ n >= u /\ n > 0 /\ f.sy \in Int /\ f.sxy \in Int /\ c \in Int /\ c >= 0
  BY OffTypes DEF Fits
<1>2. r = n * q - p * p /\ Rise(f) = n * f.sxy - p * f.sy
      /\ s = f.sy - a * n - z * p /\ t = f.sxy - a * p - z * q
  BY DEF Run, Rise, Off, OffX
<1>3. \A i, j, k \in Int : Form(n, p, q, s, t, g, i, j, k) >= 0
  BY DEF Near
<1>4. (n * n) * (n * n - u * u) <= 12 * ((u * u) * r) /\ r > 0
  BY DEF Spread
<1> HIDE DEF n, u, p, q, s, t, r
<1>5. Rise(f) - z * r = v
  BY <1>1, <1>2
<1>6. v * v <= r * (n * g)
  <2> HIDE DEF g
  <2> QED BY <1>1, <1>2, <1>3, <1>4, FormBound
<1>7. e \in Int /\ e >= 0 /\ e * e = v * v /\ r \in Int
  <2>1. v \in Int /\ r \in Int
    BY <1>1, <1>2
  <2> HIDE DEF v
  <2>2. \A k \in Int : (-k) * (-k) = k * k
    OBVIOUS
  <2>3. CASE v >= 0
    BY <2>1, <2>3 DEF Abs
  <2>4. CASE v < 0
    BY <2>1, <2>2, <2>4 DEF Abs
  <2> QED BY <2>1, <2>3, <2>4
<1> HIDE DEF e
<1>8. 2 * e * (n - u) <= 7 * u * c * r
  BY <1>1, <1>4, <1>6, <1>7, RootsBound
<1> QED BY <1>5, <1>8 DEF e, n, u, r

-----------------------------------------------------------------------------
(***************************************************************************)
(* The invariant when the gauge may say anything: the samples are no       *)
(* further off the line than the pack is deep, and no denser than hours.   *)
(***************************************************************************)

GaugeInv ==
  /\ ClosureInv
  /\ pack.level \in Levels
  /\ Spread(fit, dev.x)
  /\ seen.complete => Near(fit, Start(dev, pack.level), 2 * Zero, 2 * Cap)

LEMMA StartTypes ==
  ASSUME NEW e \in [x : Int, span : Int, net : Int, bal : Int], NEW level \in Int
  PROVE  2 * Zero \in Int /\ Start(e, level) \in Int
<1>1. 2 * Zero \in Int /\ (2 * Zero) * e.x \in Int
  BY PackAssumption
<1> QED BY <1>1 DEF Start

\* One more sample, dt hours after the last frame.
LEMMA GaugeSample ==
  ASSUME NEW f \in Fits, EmptySums(f), NEW e \in [x : Int, span : Int, net : Int, bal : Int],
         NEW level \in Levels, NEW q \in Levels, NEW dt \in 1..MaxGap
  PROVE  LET g == push(decay(f, Forget[dt]), e.x, y(e, q))
         IN  /\ Spread(f, e.x - dt) => Spread(g, e.x)
             /\ Near(f, Start(e, level), 2 * Zero, 2 * Cap) =>
                  Near(g, Start(e, level), 2 * Zero, 2 * Cap)
<1> DEFINE w == decay(f, Forget[dt])
           v == y(e, q)
           x == e.x
           k == x - dt
           a == Start(e, level)
           z == 2 * Zero
           c == 2 * Cap
           off == level - q
<1>1. Forget[dt] \in (Nat \ {0}) \X (Nat \ {0}) /\ Forget[dt][1] <= Forget[dt][2]
  BY ForgetAssumption
<1>2. dt \in Nat /\ dt >= 1 /\ x \in Int /\ k \in Int /\ x = k + dt
  BY TimeAssumption
<1>3. w \in Fits
  BY <1>1, DecayTypes
<1>4. EmptySums(w)
  <2>1. w.n = f.n * Forget[dt][1] /\ w.sx = f.sx * Forget[dt][1] /\ w.sy = f.sy * Forget[dt][1]
        /\ w.sxx = f.sxx * Forget[dt][1] /\ w.sxy = f.sxy * Forget[dt][1]
    BY DEF decay
  <2>2. \A m \in Nat, p \in Nat \ {0} : m * p = 0 => m = 0
    OBVIOUS
  <2>3. \A p \in Nat \ {0} : 0 * p = 0
    OBVIOUS
  <2>4. f.n \in Nat /\ Forget[dt][1] \in Nat \ {0}
    BY <1>1 DEF Fits
  <2>5. w.n = 0 => f.n = 0
    BY <2>1, <2>2, <2>4
  <2> HIDE DEF w
  <2> QED BY <2>1, <2>3, <2>4, <2>5 DEF EmptySums
<1>5. a \in Int /\ z \in Int /\ c \in Int /\ v \in Int /\ level \in Int /\ off \in Int
      /\ -c <= off /\ off <= c
  <2>1. level \in Int /\ q \in Int /\ -c <= off /\ off <= c /\ c \in Int
    BY PackAssumption DEF Levels
  <2>2. a \in Int /\ z \in Int
    BY <2>1, StartTypes
  <2> QED BY <2>1, <2>2 DEF y
<1>6. v = a + z * x + off
  <2>1. z * x \in Int /\ q \in Int /\ level \in Int
    BY <1>5, PackAssumption DEF Levels
  <2> QED BY <2>1 DEF Start, y
<1>7. ASSUME Spread(f, k) PROVE Spread(push(w, x, v), x)
  <2>1. Spread(w, k)
    BY <1>1, <1>2, <1>7, DecaySpread
  <2> HIDE DEF w, v, k, x
  <2>2. Spread(push(w, k + dt, v), k + dt)
    BY <1>2, <1>3, <1>4, <1>5, <2>1, PushSpread
  <2> QED BY <1>2, <2>2
<1>8. ASSUME Near(f, a, z, c) PROVE Near(push(w, x, v), a, z, c)
  <2> HIDE DEF a, z, c, x, v, off
  <2>1. Near(w, a, z, c)
    BY <1>1, <1>5, <1>8, DecayNear
  <2> HIDE DEF w
  <2> QED BY <1>2, <1>3, <1>5, <1>6, <2>1, PushNear
<1> QED BY <1>7, <1>8

\* integrate of one frame: the spread, and the distance from the line.
LEMMA GaugeIntegrate ==
  ASSUME Types, Fresh, Spread(fit, dev.x),
         NEW i \in Int, NEW bleed \in Int \cup {None}, NEW q \in Gauge,
         NEW dt \in Int, dt <= MaxGap, NEW level \in Levels
  PROVE  LET r == integrate(Read(i, bleed, q), dt)
             e == IF live = None \/ dt <= 0 THEN dev ELSE Advance(Read(i, bleed, q), dt)
         IN  /\ Spread(r.fit, r.dev.x)
             /\ Near(fit, Start(e, level), 2 * Zero, 2 * Cap) =>
                  Near(r.fit, Start(r.dev, level), 2 * Zero, 2 * Cap)
<1> DEFINE r == integrate(Read(i, bleed, q), dt)
           e == Advance(Read(i, bleed, q), dt)
           z == 2 * Zero
           c == 2 * Cap
<1>1. CASE live = None \/ dt <= 0
  BY <1>1 DEF integrate
<1>2. ASSUME ~(live = None \/ dt <= 0)
      PROVE  /\ e \in [x : Int, span : Int, net : Int, bal : Int]
             /\ e.x = dev.x + dt /\ dt \in 1..MaxGap /\ dev.x \in Int
  BY <1>2, AdvanceTypes, TimeAssumption DEF Types, Advance
<1>3. CASE ~(live = None \/ dt <= 0) /\ q = None
  <2>1. r = [dev |-> e, fit |-> fit]
    BY <1>3 DEF integrate, Read
  <2>2. Spread(fit, dev.x + dt)
    <3>1. dt \in Nat /\ dev.x \in Int /\ fit \in Fits
      BY <1>2, <1>3 DEF Types
    <3> QED BY <3>1, WaitSpread
  <2> QED BY <1>2, <1>3, <2>1, <2>2
<1>4. CASE ~(live = None \/ dt <= 0) /\ q # None
  <2>1. q \in Levels
    BY <1>4 DEF Gauge
  <2> DEFINE f == push(decay(fit, Forget[dt]), e.x, y(e, q))
             by == e.x - Tau
             moved == [e EXCEPT !.x = e.x - by]
             a == Start(e, level)
  <2>2. fit \in Fits /\ EmptySums(fit) /\ e.x - dt = dev.x
    BY <1>2, <1>4 DEF Types, Fresh, EmptySums
  <2>3. Spread(f, e.x) /\ (Near(fit, a, z, c) => Near(f, a, z, c))
    <3>1. Spread(fit, e.x - dt)
      BY <2>2
    <3> HIDE DEF e
    <3> QED BY <1>2, <1>4, <2>1, <2>2, <3>1, GaugeSample
  <2>4. level \in Int /\ q \in Int /\ by \in Int /\ e.x \in Int /\ c \in Int
    BY <1>2, <1>4, <2>1, PackAssumption, OptionsAssumption DEF Levels
  <2>5. a \in Int /\ z \in Int
    BY <1>2, <1>4, <2>4, StartTypes
  <2>6. f \in Fits
    BY <1>2, <1>4, <2>2, <2>4, SampleStep
  <2>7. r = IF TooFar(e.x) THEN [dev |-> moved, fit |-> shift_x(f, by)]
            ELSE [dev |-> e, fit |-> f]
    BY <1>4 DEF integrate, Read, Sampled
  <2>8. CASE TooFar(e.x)
    <3>1. r.dev = moved /\ r.fit = shift_x(f, by) /\ moved.x = e.x - by
      BY <1>2, <1>4, <2>7, <2>8
    <3>2. Start(moved, level) = a + z * by
      <4>1. moved.x = e.x - by /\ moved.net = e.net /\ moved.bal = e.bal
        BY <1>2, <1>4
      <4>2. e.net \in Int /\ e.bal \in Int
        BY <1>2, <1>4
      <4>3. z * (e.x - by) = z * e.x - z * by /\ z * e.x \in Int /\ z * by \in Int
        <5> HIDE DEF by, e, z
        <5> QED BY <2>4, <2>5
      <4> HIDE DEF by, e, moved
      <4> QED BY <2>4, <2>5, <4>1, <4>2, <4>3 DEF Start
    <3> HIDE DEF f, by, a, z, c, moved
    <3>3. Spread(shift_x(f, by), e.x - by)
      <4> DEFINE x == e.x
      <4> HIDE DEF x
      <4>1. x \in Int /\ Spread(f, x)
        BY <2>3, <2>4 DEF x
      <4>2. Spread(shift_x(f, by), x - by)
        BY <2>4, <2>6, <4>1, ShiftSpread
      <4> QED BY <4>2 DEF x
    <3>4. Near(f, a, z, c) => Near(shift_x(f, by), a + z * by, z, c)
      BY <2>4, <2>5, <2>6, ShiftNear
    <3> QED BY <1>4, <2>3, <3>1, <3>2, <3>3, <3>4 DEF a, z, c
  <2>9. CASE ~TooFar(e.x)
    BY <1>4, <2>3, <2>7, <2>9
  <2> QED BY <2>8, <2>9
<1> QED BY <1>1, <1>3, <1>4

LEMMA FrameKeepsGauge ==
  ASSUME GaugeInv, NEW h \in Hours, NEW i \in Currents, NEW b \in Bleeds,
         NEW bleed \in Bleeds \cup Artifacts \cup {None}, NEW q \in Gauge,
         Frame(h, i, b, bleed, q)
  PROVE  GaugeInv'
<1> DEFINE level == pack.level + Moved(i, b, h)
           dt == Integrated(h)
           r == integrate(Read(i, bleed, q), dt)
           e == IF live = None \/ dt <= 0 THEN dev ELSE Advance(Read(i, bleed, q), dt)
           z == 2 * Zero
           c == 2 * Cap
           complete == fit.n = 0 \/ (seen.complete /\ Accounted(i, b, bleed, h))
<1>1. /\ level \in Levels /\ bleed \in BleedReadings(b)
      /\ pack'.level = level /\ dev' = r.dev /\ fit' = r.fit /\ seen'.complete = complete
  BY DEF Frame, Read
<1>2. /\ h \in Nat /\ i \in Int /\ b \in Nat /\ bleed \in Int \cup {None}
      /\ dt \in Int /\ dt <= MaxGap /\ level \in Int
  BY <1>1, PackAssumption, TimeAssumption, ReadingAssumption DEF Levels, Integrated, Least
<1>3. Types /\ Sensor /\ Fresh /\ Spread(fit, dev.x) /\ pack.level \in Int
  BY DEF GaugeInv, ClosureInv, Types
<1>4. ClosureInv'
  BY FrameKeepsLine DEF GaugeInv
<1>5. /\ Spread(r.fit, r.dev.x)
      /\ Near(fit, Start(e, level), z, c) => Near(r.fit, Start(r.dev, level), z, c)
  <2> HIDE DEF level, dt
  <2> QED BY <1>1, <1>2, <1>3, GaugeIntegrate
<1>6. ASSUME complete PROVE Near(fit, Start(e, level), z, c)
  <2>1. e \in [x : Int, span : Int, net : Int, bal : Int]
    BY <1>2, <1>3, AdvanceTypes DEF Types
  <2>2. z \in Int /\ Start(e, level) \in Int /\ c \in Int /\ fit \in Fits /\ EmptySums(fit)
    BY <1>2, <1>3, <2>1, StartTypes, PackAssumption DEF Types, Fresh, EmptySums
  <2>3. CASE fit.n = 0
    <3> DEFINE a == Start(e, level)
    <3> HIDE DEF a, z, c
    <3>1. Near(fit, a, z, c)
      BY <2>2, <2>3, EmptyNear DEF a
    <3> QED BY <3>1 DEF a
  <2>4. CASE seen.complete /\ Accounted(i, b, bleed, h)
    <3>1. Start(e, level) = Start(dev, pack.level)
      <4>1. CASE live = None \/ dt <= 0
        <5>1. Moved(i, b, h) = 0
          BY <1>1, <1>2, <1>3, <2>4, <4>1, StartStands
        <5> QED BY <1>3, <4>1, <5>1
      <4>2. CASE ~(live = None \/ dt <= 0)
        BY <1>1, <1>2, <1>3, <2>4, <4>2, StartStands
      <4> QED BY <4>1, <4>2
    <3>2. Near(fit, Start(dev, pack.level), z, c)
      BY <2>4 DEF GaugeInv
    <3> QED BY <3>1, <3>2
  <2> QED BY <1>6, <2>3, <2>4
<1> HIDE DEF level, r, e, complete
<1> QED BY <1>1, <1>4, <1>5, <1>6 DEF GaugeInv

LEMMA GaugeStart == Init => GaugeInv
<1> SUFFICES ASSUME Init PROVE GaugeInv
  OBVIOUS
<1>1. ClosureInv /\ pack.level \in Levels
  BY InitialLine DEF Init
<1>2. dev.x = 0 /\ fit = NoSamples
  BY DEF Init
<1>3. Spread(fit, dev.x)
  BY <1>2 DEF Spread, Lag, Run, NoSamples
<1>4. Near(fit, Start(dev, pack.level), 2 * Zero, 2 * Cap)
  <2> DEFINE a == Start(dev, pack.level)
             z == 2 * Zero
             c == 2 * Cap
  <2>1. a \in Int /\ z \in Int /\ c \in Int /\ fit \in Fits /\ EmptySums(fit)
    BY <1>1, StartTypes, PackAssumption DEF ClosureInv, Types, Fresh, EmptySums
  <2> HIDE DEF a, z, c
  <2>2. Near(fit, a, z, c)
    BY <1>2, <2>1, EmptyNear DEF NoSamples
  <2> QED BY <2>2 DEF a, z, c
<1> QED BY <1>1, <1>3, <1>4 DEF GaugeInv

LEMMA GaugeStep == GaugeInv /\ [Next]_vars => GaugeInv'
<1> SUFFICES ASSUME GaugeInv, [Next]_vars PROVE GaugeInv'
  OBVIOUS
<1>1. ASSUME NEW h \in Hours, NEW i \in Currents, NEW b \in Bleeds,
             NEW bleed \in Bleeds \cup Artifacts \cup {None}, NEW q \in Gauge,
             Frame(h, i, b, bleed, q)
      PROVE  GaugeInv'
  BY <1>1, FrameKeepsGauge
<1>2. CASE restart \/ UNCHANGED vars
  <2>1. ClosureInv'
    BY LineStep DEF GaugeInv
  <2>2. pack' = pack /\ dev' = dev /\ fit' = fit /\ seen'.complete = seen.complete
    BY <1>2 DEF restart, vars, GaugeInv, ClosureInv, Types
  <2> QED BY <2>1, <2>2 DEF GaugeInv
<1> QED BY <1>1, <1>2 DEF Next

\* Whatever the gauge said, the slope is wrong by no more than three and a
\* half times the capacity over the hours the fit has weight for: forgetting,
\* missing frames, outages and moves of the origin included (EwFit, integrate
\* of calibration.rs).
THEOREM GaugeTheorem == Spec => []GaugeErrorBound
<1>1. GaugeInv => GaugeErrorBound
  <2> SUFFICES ASSUME GaugeInv, HasFit(fit), seen.complete
               PROVE  2 * Error * (fit.n - fit.unit) <= 7 * fit.unit * (2 * Cap) * Run(fit)
    BY DEF GaugeErrorBound
  <2> DEFINE a == Start(dev, pack.level)
             z == 2 * Zero
             c == 2 * Cap
             x == dev.x
  <2>1. fit \in Fits /\ x \in Int /\ Spread(fit, x) /\ Near(fit, a, z, c) /\ Run(fit) > 0
    BY DEF GaugeInv, ClosureInv, Types, HasFit
  <2>2. a \in Int /\ z \in Int /\ c \in Nat
    BY StartTypes, PackAssumption DEF GaugeInv, ClosureInv, Types
  <2>3. fit.n >= fit.unit
    <3>1. fit.n >= Enough * fit.unit /\ fit.n \in Nat /\ fit.unit \in Nat /\ Enough \in Nat \ {0}
      BY <2>1, OptionsAssumption DEF HasFit, Fits
    <3>2. \A m \in Nat \ {0}, u \in Nat : m * u >= u
      OBVIOUS
    <3>3. Enough * fit.unit >= fit.unit /\ Enough * fit.unit \in Int
      BY <3>1, <3>2
    <3> QED BY <3>1, <3>3
  <2> HIDE DEF a, z, c, x
  <2>4. 2 * Abs(Rise(fit) - z * Run(fit)) * (fit.n - fit.unit) <= 7 * fit.unit * c * Run(fit)
    BY <2>1, <2>2, <2>3, SlopeBound
  <2> QED BY <2>4 DEF Error, z, c
<1> QED BY <1>1, GaugeStart, GaugeStep, PTL DEF Spec

-----------------------------------------------------------------------------
(***************************************************************************)
(* Even frames.  What is forgotten of them is never more than half of the  *)
(* window: a fit of one sample an hour weighs half an hour over the half   *)
(* of it.                                                                  *)
(***************************************************************************)

Even ==
  seen.regular =>
    /\ dev.span \in Nat
    /\ fit.n = 0 => dev.span = 0
    /\ fit.n # 0 => 2 * fit.n >= fit.unit * (Window + 1)

\* The weight of one more sample, of t for the time constant and s for the
\* span before it.
LEMMA WindowGrows ==
  ASSUME NEW t \in Nat, NEW s \in Nat, NEW p \in Nat \ {0}, NEW r \in Nat \ {0},
         t * p >= (t - 1) * r, NEW n \in Nat, NEW u \in Nat,
         2 * n >= u * (Least(s, t) + 1)
  PROVE  2 * (n * p + u * r) >= (u * r) * (Least(s + 1, t) + 1)
<1> DEFINE m == Least(s, t)
           k == Least(s + 1, t)
<1>1. m \in Nat /\ k \in Nat
  BY DEF Least
<1>2. (m + 1) * p >= (k - 1) * r
  <2>1. CASE s >= t
    <3>1. m = t /\ k = t
      BY <2>1 DEF Least
    <3>2. (t + 1) * p = t * p + p /\ t * p \in Int /\ (t - 1) * r \in Int
      OBVIOUS
    <3> QED BY <3>1, <3>2
  <2>2. CASE s < t
    <3>1. m = s /\ k = s + 1
      BY <2>2 DEF Least
    <3>2. t * ((s + 1) * p) = (s + 1) * (t * p)
      OBVIOUS
    <3>3. (s + 1) * (t * p) >= (s + 1) * ((t - 1) * r)
      <4>1. s + 1 \in Int /\ s + 1 >= 0 /\ t * p \in Int /\ (t - 1) * r \in Int
        OBVIOUS
      <4> QED BY <4>1, ScaleUp
    <3>4. (s + 1) * ((t - 1) * r) = t * (s * r) + (t - 1 - s) * r
      OBVIOUS
    <3>5. (t - 1 - s) * r >= 0 /\ (t - 1 - s) * r \in Int
      BY <2>2, ProductSign
    <3>6. \A i, j \in Int : t > 0 /\ t * i >= t * j => i >= j
      OBVIOUS
    <3>7. (s + 1) * p \in Int /\ s * r \in Int
      OBVIOUS
    <3>8. t * ((s + 1) * p) >= t * (s * r)
      <4>1. t * (s * r) \in Int /\ t * ((s + 1) * p) \in Int /\ (s + 1) * ((t - 1) * r) \in Int
        OBVIOUS
      <4> QED BY <3>2, <3>3, <3>4, <3>5, <4>1
    <3>9. t > 0
      BY <2>2
    <3>10. (s + 1) * p >= s * r
      <4> DEFINE i == (s + 1) * p
                 j == s * r
      <4> HIDE DEF i, j
      <4>1. i \in Int /\ j \in Int /\ t * i >= t * j
        BY <3>7, <3>8 DEF i, j
      <4>2. i >= j
        BY <3>6, <3>9, <4>1
      <4> QED BY <4>2 DEF i, j
    <3> QED BY <3>1, <3>10
  <2> QED BY <2>1, <2>2
<1> HIDE DEF m, k
<1>3. p * (2 * n) >= p * (u * (m + 1))
  <2>1. p \in Int /\ p >= 0 /\ 2 * n \in Int /\ u * (m + 1) \in Int
    BY <1>1
  <2>2. 2 * n >= u * (m + 1)
    BY DEF m
  <2> QED BY <2>1, <2>2, ScaleUp
<1>4. u * ((m + 1) * p) >= u * ((k - 1) * r)
  <2>1. u \in Int /\ u >= 0 /\ (m + 1) * p \in Int /\ (k - 1) * r \in Int
    BY <1>1
  <2> QED BY <1>2, <2>1, ScaleUp
<1>5. p * (u * (m + 1)) = u * ((m + 1) * p)
      /\ 2 * (n * p + u * r) = p * (2 * n) + 2 * (u * r)
      /\ (u * r) * (k + 1) = u * ((k - 1) * r) + 2 * (u * r)
  BY <1>1
<1>6. p * (2 * n) \in Int /\ u * ((m + 1) * p) \in Int /\ u * ((k - 1) * r) \in Int
      /\ u * r \in Int
  BY <1>1
<1> QED BY <1>3, <1>4, <1>5, <1>6 DEF k

LEMMA FrameKeepsEven ==
  ASSUME ClosureInv, Even, NEW h \in Hours, NEW i \in Currents, NEW b \in Bleeds,
         NEW bleed \in Bleeds \cup Artifacts \cup {None}, NEW q \in Gauge,
         Frame(h, i, b, bleed, q)
  PROVE  Even'
<1> SUFFICES ASSUME seen'.regular
             PROVE  /\ dev'.span \in Nat
                    /\ fit'.n = 0 => dev'.span = 0
                    /\ fit'.n # 0 => 2 * fit'.n >= fit'.unit * (Least(dev'.span, Tau) + 1)
  BY DEF Even, Window
<1> DEFINE dt == Integrated(h)
           r == integrate(Read(i, bleed, q), dt)
           e == Advance(Read(i, bleed, q), dt)
<1>1. /\ dev' = r.dev /\ fit' = r.fit /\ seen.regular /\ h = 1 /\ q # None
      /\ i \in Int /\ bleed \in Int \cup {None} /\ q \in Int
  <2>1. dev' = r.dev /\ fit' = r.fit /\ seen'.regular = (seen.regular /\ h = 1 /\ q # None)
    BY DEF Frame, Read
  <2>2. i \in Int /\ bleed \in Int \cup {None} /\ (q # None => q \in Int)
    BY PackAssumption, ReadingAssumption DEF Gauge, Levels
  <2> HIDE DEF r
  <2> QED BY <2>1, <2>2
<1>2. Types /\ fit \in Fits /\ dev.span \in Nat
  BY <1>1 DEF ClosureInv, Types, Even
<1>3. CASE live = None \/ dt <= 0
  <2>1. r.dev = dev /\ r.fit = fit
    BY <1>3 DEF integrate
  <2> QED BY <1>1, <2>1 DEF Even, Window
<1>4. CASE ~(live = None \/ dt <= 0)
  <2>1. dt = 1 /\ 1 \in 1..MaxGap
    BY <1>1, <1>4, TimeAssumption DEF Integrated, Least
  <2>2. e \in [x : Int, span : Int, net : Int, bal : Int] /\ e.span = dev.span + 1
    <3>1. e \in [x : Int, span : Int, net : Int, bal : Int]
      BY <1>1, <1>2, <1>4, <2>1, AdvanceTypes
    <3> QED BY <2>1, <3>1 DEF Advance
  <2> DEFINE w == decay(fit, Forget[1])
             v == y(e, q)
             f == push(w, e.x, v)
             by == e.x - Tau
             p == Forget[1][1]
             d == Forget[1][2]
  <2>3. p \in Nat \ {0} /\ d \in Nat \ {0} /\ Tau * p >= (Tau - 1) * d /\ Tau \in Nat
    BY <2>1, ForgetAssumption, OptionsAssumption
  <2>4. f.n = fit.n * p + fit.unit * d /\ f.unit = fit.unit * d
    BY DEF push, decay
  <2>5. f \in Fits /\ f.n # 0
    BY <1>1, <1>2, <2>1, <2>2, SampleStep
  <2>6. r.dev.span = dev.span + 1 /\ r.fit.n = f.n /\ r.fit.unit = f.unit
    <3>1. r = IF TooFar(e.x) THEN [dev |-> [e EXCEPT !.x = e.x - by], fit |-> shift_x(f, by)]
              ELSE [dev |-> e, fit |-> f]
      BY <1>1, <1>4, <2>1 DEF integrate, Read, Sampled
    <3>2. shift_x(f, by).n = f.n /\ shift_x(f, by).unit = f.unit
      BY <2>5 DEF shift_x, Fits
    <3>3. [e EXCEPT !.x = e.x - by].span = e.span
      BY <2>2
    <3> HIDE DEF e, f, by
    <3> QED BY <2>2, <3>1, <3>2, <3>3
  <2>7. 2 * fit.n >= fit.unit * (Least(dev.span, Tau) + 1) \/ (fit.n = 0 /\ dev.span = 0)
    BY <1>1 DEF Even, Window
  <2>8. 2 * f.n >= f.unit * (Least(dev.span + 1, Tau) + 1)
    <3> DEFINE n == fit.n
               u == fit.unit
               s == dev.span
    <3>1. n \in Nat /\ u \in Nat /\ s \in Nat
      BY <1>2 DEF Fits
    <3> HIDE DEF n, u, s, p, d
    <3>2. CASE 2 * n >= u * (Least(s, Tau) + 1)
      <4>1. 2 * (n * p + u * d) >= (u * d) * (Least(s + 1, Tau) + 1)
        BY <2>3, <3>1, <3>2, WindowGrows
      <4> QED BY <2>4, <4>1 DEF n, u, s
    <3>3. CASE n = 0 /\ s = 0
      <4>1. Least(s + 1, Tau) \in Nat /\ Least(s + 1, Tau) <= 1
        BY <2>3, <3>3 DEF Least
      <4>2. n * p + u * d = u * d /\ u * d \in Nat
        BY <2>3, <3>1, <3>3
      <4>3. \A k \in Nat, m \in Nat : m <= 1 => 2 * k >= k * (m + 1)
        OBVIOUS
      <4>4. 2 * (u * d) >= (u * d) * (Least(s + 1, Tau) + 1)
        <5> DEFINE k == u * d
                   m == Least(s + 1, Tau)
        <5> HIDE DEF k, m
        <5>1. 2 * k >= k * (m + 1)
          BY <4>1, <4>2, <4>3 DEF k, m
        <5> QED BY <5>1 DEF k, m
      <4> QED BY <2>4, <4>2, <4>4 DEF n, u, s
    <3> QED BY <2>7, <3>2, <3>3 DEF n, u, s
  <2> HIDE DEF r, f
  <2> QED BY <1>1, <1>2, <2>5, <2>6, <2>8
<1> QED BY <1>3, <1>4

LEMMA EvenStep == ClosureInv /\ Even /\ [Next]_vars => Even'
<1> SUFFICES ASSUME ClosureInv, Even, [Next]_vars PROVE Even'
  OBVIOUS
<1>1. ASSUME NEW h \in Hours, NEW i \in Currents, NEW b \in Bleeds,
             NEW bleed \in Bleeds \cup Artifacts \cup {None}, NEW q \in Gauge,
             Frame(h, i, b, bleed, q)
      PROVE  Even'
  BY <1>1, FrameKeepsEven
<1>2. CASE restart
  BY <1>2 DEF restart, Even, ClosureInv, Types
<1>3. CASE UNCHANGED vars
  BY <1>3 DEF vars, Even, Window
<1> QED BY <1>1, <1>2, <1>3 DEF Next

\* By how much the slope may miss the zero error when frames come evenly, every
\* one with the gauge, and none is lost: seven times the capacity over the
\* window less one frame.
RegularErrorBound ==
  HasFit(fit) /\ seen.complete /\ seen.regular =>
    Error * (Window - 1) <= 7 * (2 * Cap) * Run(fit)

\* That bounds what a gauge can do that is read every hour, whatever it says
\* and however long the window (the code takes capacity over window for it,
\* in anchor_error).
THEOREM WindowTheorem == Spec => []RegularErrorBound
<1>1. Init => Even
  BY DEF Init, Even, NoSamples
<1>2. ClosureInv /\ Even /\ GaugeErrorBound => RegularErrorBound
  <2> SUFFICES ASSUME ClosureInv, Even, GaugeErrorBound, HasFit(fit), seen.complete, seen.regular
               PROVE  Error * (Window - 1) <= 7 * (2 * Cap) * Run(fit)
    BY DEF RegularErrorBound
  <2> DEFINE n == fit.n
             u == fit.unit
             r == Run(fit)
             e == Error
             w == Window
             c == 2 * Cap
  <2>1. n \in Nat /\ u \in Nat \ {0} /\ n # 0
    <3>1. fit.unit \in Nat \ {0} /\ fit.n \in Nat /\ fit.n >= Enough * fit.unit
      BY DEF ClosureInv, Types, Fits, HasFit
    <3>2. Enough * fit.unit \in Nat \ {0}
      BY <3>1, OptionsAssumption
    <3> QED BY <3>1, <3>2
  <2>2. r \in Int /\ w \in Int /\ c \in Int /\ e \in Int /\ e >= 0
    <3>1. Rise(fit) \in Int /\ Run(fit) \in Int
      BY DEF ClosureInv, Types, Fits, Rise, Run
    <3>2. Rise(fit) - (2 * Zero) * Run(fit) \in Int
      <4>1. (2 * Zero) * Run(fit) \in Int
        BY <3>1, PackAssumption
      <4> QED BY <3>1, <4>1
    <3>3. w \in Int
      BY OptionsAssumption DEF Even, Window, Least
    <3> QED BY <3>1, <3>2, <3>3, PackAssumption DEF Error, Abs
  <2>3. 2 * e * (n - u) <= 7 * u * c * r /\ 2 * n >= u * (w + 1)
    BY <2>1 DEF GaugeErrorBound, Even
  <2> HIDE DEF n, u, r, e, w, c
  <2>4. e * (u * (w - 1)) <= e * (2 * (n - u))
    <3>1. u * (w - 1) = u * (w + 1) - 2 * u /\ u * (w + 1) \in Int /\ u * (w - 1) \in Int
      BY <2>1, <2>2
    <3>2. u * (w - 1) <= 2 * (n - u) /\ 2 * (n - u) \in Int
      BY <2>1, <2>3, <3>1
    <3> QED BY <2>2, <3>1, <3>2, ScaleUp
  <2>5. e * (u * (w - 1)) = u * (e * (w - 1)) /\ e * (2 * (n - u)) = 2 * e * (n - u)
        /\ 7 * u * c * r = u * (7 * c * r)
    BY <2>1, <2>2
  <2>6. e * (w - 1) \in Int /\ 7 * c * r \in Int
    BY <2>2
  <2> DEFINE a == e * (w - 1)
             b == 7 * c * r
  <2>7. u * a <= u * b
    <3>1. e * (2 * (n - u)) \in Int /\ u * a \in Int /\ u * b \in Int
      BY <2>1, <2>2
    <3> QED BY <2>3, <2>4, <2>5, <3>1
  <2> HIDE DEF a, b
  <2>8. a <= b
    <3>1. \A i, j, k \in Int : k > 0 /\ k * i <= k * j => i <= j
      OBVIOUS
    <3> QED BY <2>1, <2>6, <2>7, <3>1 DEF a, b
  <2> QED BY <2>8 DEF a, b, c, e, w, r
<1> QED BY <1>1, <1>2, InitialLine, LineStep, EvenStep, GaugeTheorem, PTL DEF Spec
=============================================================================
