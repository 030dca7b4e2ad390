-------------------------- MODULE CalibratorProofs --------------------------
(***************************************************************************)
(* The gates of the calibration, for any bank, any zero errors, whatever   *)
(* the fits return, any thresholds and any configurations: what is applied *)
(* has its evidence, what is reported of it is true, and the peers are     *)
(* asked in the right sense.                                               *)
(***************************************************************************)
EXTENDS Calibrator, FiniteSetTheorems, TLAPS

-----------------------------------------------------------------------------
(* Maxima and minima.                                                      *)

\* A finite set of integers has a largest one.
LEMMA FiniteHasMax ==
  ASSUME NEW S, S \subseteq Int, IsFiniteSet(S), S # {}
  PROVE  \E x \in S : \A y \in S : x >= y
<1> DEFINE Topped(U) == \E x \in U : \A y \in U : x >= y
           Bad == {U \in SUBSET S : U # {} /\ ~Topped(U)}
           R == StrictSubsetOrdering(S)
<1>1. IsWellFoundedOn(R, FiniteSubsetsOf(S))
  BY FS_StrictSubsetOrderingWellFounded
<1>2. Bad \subseteq FiniteSubsetsOf(S)
  BY FS_FiniteSubsetsOfFinite
<1>3. ASSUME Bad # {} PROVE FALSE
  <2> HIDE DEF Bad, R
  <2>1. PICK U \in Bad : \A V \in Bad : ~(<<V, U>> \in R)
    BY <1>1, <1>2, <1>3, WFMin
  <2>2. U \subseteq S /\ U # {} /\ ~Topped(U)
    BY <2>1 DEF Bad
  <2>3. PICK x \in U : TRUE
    BY <2>2
  <2> DEFINE V == U \ {x}
  <2>4. <<V, U>> \in R
    BY <2>2, <2>3 DEF R, StrictSubsetOrdering
  <2>5. V \notin Bad
    BY <2>1, <2>4
  <2>6. V = {} \/ Topped(V)
    BY <2>2, <2>5 DEF Bad
  <2>7. Topped(U)
    <3>1. CASE V = {}
      <4>1. U = {x} /\ x \in Int
        BY <2>2, <2>3, <3>1
      <4> QED BY <4>1
    <3>2. CASE Topped(V)
      <4>1. PICK m \in V : \A y \in V : m >= y
        BY <3>2
      <4>2. m \in Int /\ x \in Int /\ \A y \in U : y \in Int /\ (y = x \/ y \in V)
        BY <2>2, <2>3
      <4>3. CASE m >= x
        BY <4>1, <4>2, <4>3
      <4>4. CASE ~(m >= x)
        <5>1. \A y \in U : x >= y
          BY <4>1, <4>2, <4>4
        <5> QED BY <2>3, <5>1
      <4> QED BY <4>3, <4>4
    <3> QED BY <2>6, <3>1, <3>2
  <2> QED BY <2>2, <2>7
<1> QED BY <1>3

LEMMA MaxOfFinite ==
  ASSUME NEW S, S \subseteq Int, IsFiniteSet(S), S # {}
  PROVE  Max(S) \in S /\ \A y \in S : Max(S) >= y
BY FiniteHasMax DEF Max

LEMMA TwoBounds ==
  ASSUME NEW a \in Int, NEW b \in Int
  PROVE  /\ Max({a, b}) = IF a >= b THEN a ELSE b
         /\ Min({a, b}) = IF a <= b THEN a ELSE b
<1>1. Max({a, b}) = IF a >= b THEN a ELSE b
  <2> DEFINE top == IF a >= b THEN a ELSE b
  <2>1. top \in {a, b} /\ \A y \in {a, b} : top >= y
    OBVIOUS
  <2>2. \A x \in {a, b} : (\A y \in {a, b} : x >= y) => x = top
    OBVIOUS
  <2> HIDE DEF top
  <2>3. Max({a, b}) = top
    BY <2>1, <2>2 DEF Max
  <2> QED BY <2>3 DEF top
<1>2. Min({a, b}) = IF a <= b THEN a ELSE b
  <2> DEFINE bottom == IF a <= b THEN a ELSE b
  <2>1. bottom \in {a, b} /\ \A y \in {a, b} : bottom <= y
    OBVIOUS
  <2>2. \A x \in {a, b} : (\A y \in {a, b} : x <= y) => x = bottom
    OBVIOUS
  <2> HIDE DEF bottom
  <2>3. Min({a, b}) = bottom
    BY <2>1, <2>2 DEF Min
  <2> QED BY <2>3 DEF bottom
<1> QED BY <1>1, <1>2

LEMMA ThreeBounds ==
  ASSUME NEW a \in Nat, NEW b \in Nat, NEW c \in Nat
  PROVE  Max({a, b, c}) \in Nat /\ Max({a, b, c}) >= a
<1>1. \E x \in {a, b, c} : \A y \in {a, b, c} : x >= y
  <2>1. CASE a >= b /\ a >= c
    BY <2>1
  <2>2. CASE b >= a /\ b >= c
    BY <2>2
  <2>3. CASE c >= a /\ c >= b
    BY <2>3
  <2> QED BY <2>1, <2>2, <2>3
<1>2. Max({a, b, c}) \in {a, b, c} /\ \A y \in {a, b, c} : Max({a, b, c}) >= y
  BY <1>1 DEF Max
<1> QED BY <1>2

LEMMA ClampBounds ==
  ASSUME NEW x \in Int, NEW bound \in Nat
  PROVE  /\ clamp(x, bound) \in -bound..bound
         /\ x \in -bound..bound => clamp(x, bound) = x
<1>1. Min({x, bound}) = IF x <= bound THEN x ELSE bound
  BY TwoBounds
<1>2. Min({x, bound}) \in Int /\ -bound \in Int
  BY <1>1
<1>3. clamp(x, bound) = IF -bound >= Min({x, bound}) THEN -bound ELSE Min({x, bound})
  BY <1>2, TwoBounds DEF clamp
<1> QED BY <1>1, <1>3

-----------------------------------------------------------------------------
(***************************************************************************)
(* The invariant.                                                          *)
(***************************************************************************)

\* Whoever reported since the start is tracked.
LiveTracked == DOMAIN live \subseteq DOMAIN devices

\* What is applied to d is nothing, or was applied under some configuration.
Earned(d) == d.applied # 0 => \E o \in Configs : EarnedUnder(d, o)

\* Devices and pairs as memory and file may hold them.  The intercept of a pair
\* is the zero error of the larger serial less that of the smaller.
Bank(ds, ps) ==
  /\ DOMAIN ds \subseteq Serials
  /\ \A s \in DOMAIN ds : ds[s] \in Device /\ Earned(ds[s])
  /\ \A p \in DOMAIN ps :
       /\ p \in Serials \X Serials /\ p[1] < p[2] /\ {p[1], p[2]} \subseteq DOMAIN ds
       /\ ps[p] \in [intercept : Int, qualifies : BOOLEAN]
       /\ ps[p].intercept = Zero[p[2]] - Zero[p[1]]

CalibratorInv ==
  /\ opts \in Configs
  /\ live \in [DOMAIN live -> Holds]
  /\ Bank(devices, pairs)
  /\ Bank(file.devices, file.pairs)
  /\ HoldTells
  /\ LiveTracked

\* A configuration in force has a clamp, and every clamp lets nothing through.
LEMMA ClampsHold ==
  ASSUME NEW o \in Configs
  PROVE  /\ o.max_offset \in Nat /\ o.max_anchor \in Nat
         /\ -o.max_offset..o.max_offset \subseteq Clamps
         /\ 0 \in Clamps /\ Clamps \subseteq Int
<1>1. o.max_offset \in Nat /\ o.max_anchor \in Nat
  BY OptionsAssumption
<1>2. -o.max_offset..o.max_offset \subseteq Clamps
  BY DEF Clamps
<1>3. 0 \in -o.max_offset..o.max_offset
  BY <1>1
<1>4. Clamps \subseteq Int
  BY DEF Clamps
<1> QED BY <1>1, <1>2, <1>3, <1>4

LEMMA EntryIsDevice ==
  ASSUME CalibratorInv, NEW s \in Serials
  PROVE  /\ Entry(s) \in Device
         /\ Earned(Entry(s))
         /\ s \in DOMAIN devices => Entry(s) = devices[s]
<1>1. CASE s \in DOMAIN devices
  BY <1>1 DEF CalibratorInv, Bank, Entry
<1>2. CASE s \notin DOMAIN devices
  <2>1. 0 \in Clamps
    BY ClampsHold DEF CalibratorInv
  <2>2. Entry(s) = NewDevice
    BY <1>2 DEF Entry
  <2>3. NewDevice \in Device
    BY <2>1, OptionsAssumption, SpanAssumption DEF NewDevice, Device
  <2> QED BY <1>2, <2>2, <2>3 DEF NewDevice, Earned
<1> QED BY <1>1, <1>2

\* Nothing of d but its line.
Lined(d, n, slope, noisy) == [d EXCEPT !.n = n, !.slope = slope, !.noisy = noisy]

LEMMA LinedIsDevice ==
  ASSUME NEW d \in Device, NEW n \in 0..Enough, NEW slope \in Int, NEW noisy \in BOOLEAN
  PROVE  LET e == Lined(d, n, slope, noisy)
         IN  /\ e \in Device
             /\ e.applied = d.applied /\ e.capacity = d.capacity /\ e.span = d.span
BY DEF Lined, Device

\* One more point leaves a device, with nothing but its line changed.
LEMMA PushedIsFit ==
  ASSUME NEW d \in Device, NEW e \in Pushed(d)
  PROVE  /\ e \in Device
         /\ e.applied = d.applied /\ e.capacity = d.capacity /\ e.span = d.span
<1>1. d.n \in Nat /\ Enough \in Nat \ {0}
  BY OptionsAssumption DEF Device
<1>2. Min({d.n + 1, Enough - 1}) <= Enough - 1
  <2>1. d.n + 1 \in Int /\ Enough - 1 \in Int
    BY <1>1
  <2>2. Min({d.n + 1, Enough - 1}) = IF d.n + 1 <= Enough - 1 THEN d.n + 1 ELSE Enough - 1
    BY <2>1, TwoBounds
  <2> QED BY <2>1, <2>2
<1>3. CASE \E n \in 1..Min({d.n + 1, Enough - 1}) :
             e = [d EXCEPT !.n = n, !.slope = 0, !.noisy = FALSE]
  <2>1. PICK n \in 1..Min({d.n + 1, Enough - 1}) :
          e = [d EXCEPT !.n = n, !.slope = 0, !.noisy = FALSE]
    BY <1>3
  <2>2. Min({d.n + 1, Enough - 1}) \in Int
    <3>1. d.n + 1 \in Int /\ Enough - 1 \in Int
      BY <1>1
    <3> QED BY <3>1, TwoBounds
  <2>3. n \in 0..Enough
    BY <1>1, <1>2, <2>2
  <2>4. e = Lined(d, n, 0, FALSE)
    BY <2>1 DEF Lined
  <2>5. 0 \in Int /\ FALSE \in BOOLEAN
    OBVIOUS
  <2> DEFINE slope == 0
             noisy == FALSE
  <2>6. slope \in Int /\ noisy \in BOOLEAN /\ e = Lined(d, n, slope, noisy)
    BY <2>4, <2>5
  <2> HIDE DEF slope, noisy
  <2> QED BY <2>3, <2>6, LinedIsDevice
<1>4. CASE \E f \in Fits : e = [d EXCEPT !.n = Enough, !.slope = f.slope, !.noisy = f.noisy]
  <2>1. PICK f \in Fits : e = [d EXCEPT !.n = Enough, !.slope = f.slope, !.noisy = f.noisy]
    BY <1>4
  <2>2. f.slope \in Int /\ f.noisy \in BOOLEAN /\ Enough \in 0..Enough
    BY <1>1, ZeroAssumption
  <2> QED BY <2>1, <2>2 DEF Device
<1>5. \/ \E n \in 1..Min({d.n + 1, Enough - 1}) :
          e = [d EXCEPT !.n = n, !.slope = 0, !.noisy = FALSE]
      \/ \E f \in Fits : e = [d EXCEPT !.n = Enough, !.slope = f.slope, !.noisy = f.noisy]
  BY DEF Pushed
<1> QED BY <1>3, <1>4, <1>5

\* Whatever a frame holds, what integrate makes of a device is one, with what
\* was applied as it was, and of no shorter span and no smaller capacity.
LEMMA IntegrateKeeps ==
  ASSUME CalibratorInv, NEW s \in Serials, NEW d \in integrate(s)
  PROVE  /\ d \in Device
         /\ d.applied = Entry(s).applied
         /\ d.span >= Entry(s).span
         /\ d.capacity >= Entry(s).capacity
<1> DEFINE e == Entry(s)
<1>1. e \in Device
  BY EntryIsDevice
<1>2. CASE d = e
  BY <1>1, <1>2, SpanAssumption DEF Device
<1>3. ASSUME NEW q \in Remaining \cup {Absent}, NEW hint \in Hints, d \in Integrated(e, q, hint)
      PROVE  /\ d \in Device
             /\ d.applied = e.applied
             /\ d.span >= e.span
             /\ d.capacity >= e.capacity
  <2> HIDE DEF e
  <2> DEFINE span == Min({e.span + 1, SpanCap})
             aged == [e EXCEPT !.span = span]
  <2>1. span \in 0..SpanCap /\ span >= e.span
    <3>1. e.span \in Nat /\ e.span <= SpanCap /\ SpanCap \in Nat
      BY <1>1, SpanAssumption DEF Device
    <3>2. e.span + 1 \in Int /\ SpanCap \in Int
      BY <3>1
    <3>3. span = IF e.span + 1 <= SpanCap THEN e.span + 1 ELSE SpanCap
      BY <3>2, TwoBounds
    <3> QED BY <3>1, <3>3
  <2> HIDE DEF span
  <2>2. /\ aged \in Device /\ aged.applied = e.applied /\ aged.n = e.n
        /\ aged.capacity = e.capacity /\ aged.span = span
    BY <1>1, <2>1 DEF Device
  <2>3. CASE q = Absent
    <3>1. d = aged
      BY <1>3, <2>3 DEF Integrated, span
    <3>2. e.capacity \in Nat
      BY <1>1 DEF Device
    <3> QED BY <2>1, <2>2, <3>1, <3>2
  <2>4. CASE q # Absent
    <3> DEFINE capacity == Max({aged.capacity, hint, q})
               known == [aged EXCEPT !.capacity = capacity]
    <3>1. q \in Nat /\ hint \in Nat /\ aged.capacity \in Nat
      BY <2>2, <2>4, CapacityAssumption DEF Device
    <3>2. capacity \in Nat /\ capacity >= aged.capacity
      BY <3>1, ThreeBounds
    <3>3. d \in Pushed(known)
      BY <1>3, <2>4 DEF Integrated, span
    <3> HIDE DEF capacity, aged
    <3>4. /\ known \in Device /\ known.applied = e.applied
          /\ known.capacity = capacity /\ known.span = span
      BY <2>2, <3>2 DEF Device
    <3> HIDE DEF known
    <3>5. /\ d \in Device /\ d.applied = known.applied
          /\ d.capacity = known.capacity /\ d.span = known.span
      BY <3>3, <3>4, PushedIsFit
    <3> QED BY <2>1, <2>2, <3>2, <3>4, <3>5
  <2> QED BY <2>3, <2>4
<1>4. d = e \/ \E q \in Remaining \cup {Absent}, hint \in Hints : d \in Integrated(e, q, hint)
  BY DEF integrate
<1> QED BY <1>2, <1>3, <1>4

-----------------------------------------------------------------------------
(***************************************************************************)
(* One frame.                                                              *)
(***************************************************************************)

\* The devices as recompute finds them, d being what integrate left of s.
After(s, d) == [u \in DOMAIN devices \cup {s} |-> IF u = s THEN d ELSE devices[u]]

\* The hold and the correction that frame ends with.
HoldAfter(s, d, ps) == HoldOf(s, After(s, d), ps, opts)

AppliedAfter(s, d, ps) == AppliedBy(d, HoldAfter(s, d, ps), opts)

\* dev.applied = value
Corrected(d, value) == [d EXCEPT !.applied = value]

\* The devices and the holds that frame leaves.
DevicesAfter(s, d, ps) ==
  [After(s, d) EXCEPT ![s] = Corrected(d, AppliedAfter(s, d, ps))]

LiveAfter(s, d, ps) ==
  [u \in DOMAIN live \cup {s} |-> IF u = s THEN HoldAfter(s, d, ps) ELSE live[u]]

\* A frame of s, by what the three steps of observe chose.
Observed(s, d, peers, ps) ==
  /\ d \in integrate(s) /\ peers \in SUBSET (DOMAIN live \ {s}) /\ ps \in update_peers(s, peers)
  /\ devices' = DevicesAfter(s, d, ps)
  /\ pairs' = ps
  /\ live' = LiveAfter(s, d, ps)
  /\ opts' = opts /\ file' = file

LEMMA ObserveIsObserved ==
  ASSUME NEW s \in Serials, observe(s)
  PROVE  \E d, peers, ps : Observed(s, d, peers, ps)
<1>1. PICK d, peers, ps :
        /\ d \in integrate(s) /\ peers \in SUBSET (DOMAIN live \ {s}) /\ ps \in update_peers(s, peers)
        /\ devices' = [After(s, d) EXCEPT ![s].applied = AppliedAfter(s, d, ps)]
        /\ pairs' = ps /\ live' = LiveAfter(s, d, ps) /\ opts' = opts /\ file' = file
  BY DEF observe, After, HoldAfter, AppliedAfter, LiveAfter
<1>2. After(s, d)[s] = d
  BY DEF After
<1>3. devices' = DevicesAfter(s, d, ps)
  BY <1>1, <1>2 DEF DevicesAfter, Corrected
<1> QED BY <1>1, <1>3 DEF Observed

\* What the gates let through.
LEMMA Gates ==
  ASSUME NEW s, NEW ds, NEW ps, NEW o
  PROVE  /\ HoldOf(s, ds, ps, o) \in Holds
         /\ HoldOf(s, ds, ps, o) = "None" =>
              /\ HasFit(ds[s]) /\ Eligible(ds[s], o) /\ ~ds[s].noisy
              /\ ~(WorstDisagreement(s, ds, ps) > o.max_disagreement)
         /\ HoldOf(s, ds, ps, o) = "PeerDisagreement" =>
              WorstDisagreement(s, ds, ps) > o.max_disagreement
BY DEF HoldOf, Holds

\* What a frame leaves of the state: the device of s and its hold are new,
\* the others are as they were.
LEMMA FrameFacts ==
  ASSUME CalibratorInv, NEW s \in Serials, NEW d \in integrate(s), NEW ps
  PROVE  /\ After(s, d)[s] = d
         /\ \A u \in DOMAIN devices \ {s} : After(s, d)[u] = devices[u]
         /\ DOMAIN After(s, d) = DOMAIN devices \cup {s}
         /\ DOMAIN DevicesAfter(s, d, ps) = DOMAIN devices \cup {s}
         /\ DevicesAfter(s, d, ps)[s] = Corrected(d, AppliedAfter(s, d, ps))
         /\ \A u \in DOMAIN devices \ {s} : DevicesAfter(s, d, ps)[u] = devices[u]
         /\ DOMAIN LiveAfter(s, d, ps) = DOMAIN live \cup {s}
         /\ LiveAfter(s, d, ps)[s] = HoldAfter(s, d, ps)
         /\ \A u \in DOMAIN live \ {s} : LiveAfter(s, d, ps)[u] = live[u]
         /\ HoldAfter(s, d, ps) \in Holds
<1>1. /\ After(s, d)[s] = d
      /\ \A u \in DOMAIN devices \ {s} : After(s, d)[u] = devices[u]
      /\ DOMAIN After(s, d) = DOMAIN devices \cup {s}
  BY DEF After
<1>2. HoldAfter(s, d, ps) \in Holds
  BY Gates DEF HoldAfter
<1>3. /\ DOMAIN DevicesAfter(s, d, ps) = DOMAIN devices \cup {s}
      /\ DevicesAfter(s, d, ps)[s] = Corrected(d, AppliedAfter(s, d, ps))
      /\ \A u \in DOMAIN devices \ {s} : DevicesAfter(s, d, ps)[u] = devices[u]
  <2>1. After(s, d) = [u \in DOMAIN After(s, d) |-> After(s, d)[u]]
    BY DEF After
  <2> QED BY <1>1, <2>1 DEF DevicesAfter
<1>4. /\ DOMAIN LiveAfter(s, d, ps) = DOMAIN live \cup {s}
      /\ LiveAfter(s, d, ps)[s] = HoldAfter(s, d, ps)
      /\ \A u \in DOMAIN live \ {s} : LiveAfter(s, d, ps)[u] = live[u]
  BY DEF LiveAfter
<1> QED BY <1>1, <1>2, <1>3, <1>4

\* A frame leaves what it is about with the evidence of what is applied to it.
LEMMA FrameDevice ==
  ASSUME CalibratorInv, NEW s \in Serials, NEW d \in integrate(s), NEW ps
  PROVE  LET new == DevicesAfter(s, d, ps)[s]
         IN  /\ new \in Device
             /\ new.applied = AppliedAfter(s, d, ps)
             /\ new.n = d.n /\ new.slope = d.slope /\ new.noisy = d.noisy
             /\ new.span = d.span /\ new.capacity = d.capacity
             /\ HoldAfter(s, d, ps) # "None" => new.applied = Entry(s).applied
             /\ HoldAfter(s, d, ps) = "None" =>
                  /\ HasFit(d) /\ Eligible(d, opts) /\ ~d.noisy
                  /\ ~(WorstDisagreement(s, After(s, d), ps) > opts.max_disagreement)
                  /\ new.applied = clamp(d.slope, opts.max_offset)
<1>1. d \in Device /\ After(s, d)[s] = d /\ d.applied = Entry(s).applied
  BY FrameFacts, IntegrateKeeps
<1>2. HoldAfter(s, d, ps) = "None" =>
        /\ HasFit(d) /\ Eligible(d, opts) /\ ~d.noisy
        /\ ~(WorstDisagreement(s, After(s, d), ps) > opts.max_disagreement)
  BY <1>1, Gates DEF HoldAfter
<1>3. opts \in Configs
  BY DEF CalibratorInv
<1>4. d.slope \in Int /\ d.applied \in Clamps
  BY <1>1 DEF Device
<1>5. clamp(d.slope, opts.max_offset) \in Clamps
  BY <1>3, <1>4, ClampsHold, ClampBounds
<1>6. /\ AppliedAfter(s, d, ps) \in Clamps
      /\ HoldAfter(s, d, ps) # "None" => AppliedAfter(s, d, ps) = Entry(s).applied
  BY <1>1, <1>4, <1>5 DEF AppliedAfter, AppliedBy
<1>7. HoldAfter(s, d, ps) = "None" => AppliedAfter(s, d, ps) = clamp(d.slope, opts.max_offset)
  BY DEF AppliedAfter, AppliedBy
<1> DEFINE value == AppliedAfter(s, d, ps)
           new == DevicesAfter(s, d, ps)[s]
<1>8. new = Corrected(d, value)
  <2>1. s \in DOMAIN After(s, d)
    BY DEF After
  <2> QED BY <2>1 DEF DevicesAfter, After
<1> HIDE DEF new, value
<1>9. value \in Clamps
  BY <1>6 DEF value
<1>10. /\ new \in Device /\ new.applied = value
       /\ new.n = d.n /\ new.slope = d.slope /\ new.noisy = d.noisy
       /\ new.span = d.span /\ new.capacity = d.capacity
  BY <1>1, <1>8, <1>9 DEF Device, Corrected
<1> QED BY <1>2, <1>6, <1>7, <1>10 DEF new, value

\* The key of a pair holds its two serials in their order, and the intercept
\* is measured in the sense of the key, whichever of the two is asked first.
LEMMA PairMeasured ==
  ASSUME NEW s \in Serials, NEW o \in Serials, s # o
  PROVE  LET p == pair_key(s, o)
         IN  /\ p \in Serials \X Serials /\ p[1] < p[2] /\ {p[1], p[2]} = {s, o}
             /\ Intercept(s, o) = Zero[p[2]] - Zero[p[1]]
             /\ Intercept(s, o) \in Int
             /\ flipped(s, o) => p[1] = o /\ p[2] = s
             /\ ~flipped(s, o) => p[1] = s /\ p[2] = o
<1>1. s \in Nat /\ o \in Nat /\ Zero[s] \in Int /\ Zero[o] \in Int
  BY SerialsAssumption, ZeroAssumption
<1>2. CASE s < o
  BY <1>1, <1>2 DEF pair_key, Intercept, flipped
<1>3. CASE ~(s < o)
  <2>1. o < s
    BY <1>1, <1>3
  <2> QED BY <1>1, <1>3, <2>1 DEF pair_key, Intercept, flipped
<1> QED BY <1>2, <1>3

\* A frame touches only pairs of its own device with one that reported, and
\* every pair it leaves measures the difference of its two zero errors.
LEMMA FramePairs ==
  ASSUME CalibratorInv, NEW s \in Serials,
         NEW peers \in SUBSET (DOMAIN live \ {s}), NEW ps \in update_peers(s, peers)
  PROVE  \A p \in DOMAIN ps :
           /\ p \in Serials \X Serials /\ p[1] < p[2]
           /\ {p[1], p[2]} \subseteq DOMAIN devices \cup {s}
           /\ ps[p] \in [intercept : Int, qualifies : BOOLEAN]
           /\ ps[p].intercept = Zero[p[2]] - Zero[p[1]]
<1> DEFINE touched == {pair_key(s, o) : o \in peers}
           With(p) == CHOOSE o \in peers : pair_key(s, o) = p
<1>1. PICK ok \in SUBSET (touched \cap DOMAIN pairs) :
        ps = [p \in DOMAIN pairs \cup touched |->
                IF p \in touched
                THEN [intercept |-> Intercept(s, With(p)), qualifies |-> p \in ok]
                ELSE pairs[p]]
  BY DEF update_peers
<1>2. peers \subseteq DOMAIN devices \ {s} /\ DOMAIN devices \subseteq Serials
  BY DEF CalibratorInv, LiveTracked, Bank
<1>3. TAKE p \in DOMAIN ps
<1>4. CASE p \in touched
  <2>1. With(p) \in peers /\ pair_key(s, With(p)) = p
    BY <1>4
  <2>2. ps[p] = [intercept |-> Intercept(s, With(p)), qualifies |-> p \in ok]
    BY <1>1, <1>4
  <2> DEFINE o == With(p)
  <2>3. o \in Serials /\ s # o /\ o \in DOMAIN devices /\ pair_key(s, o) = p
    BY <1>2, <2>1
  <2>4. ps[p] = [intercept |-> Intercept(s, o), qualifies |-> p \in ok]
    BY <2>2
  <2> HIDE DEF o, touched
  <2>5. /\ p \in Serials \X Serials /\ p[1] < p[2] /\ {p[1], p[2]} = {s, o}
        /\ Intercept(s, o) = Zero[p[2]] - Zero[p[1]] /\ Intercept(s, o) \in Int
    BY <2>3, PairMeasured
  <2> QED BY <2>3, <2>4, <2>5
<1>5. CASE p \notin touched
  <2>1. p \in DOMAIN pairs /\ ps[p] = pairs[p]
    BY <1>1, <1>5
  <2> QED BY <2>1 DEF CalibratorInv, Bank
<1> QED BY <1>4, <1>5

-----------------------------------------------------------------------------
(***************************************************************************)
(* The veto.                                                               *)
(***************************************************************************)

\* In a bank whose pairs measure, the disagreement with a peer is how far the
\* difference of the two estimates is from that of the two zero errors.
LEMMA DisagreementMeasures ==
  ASSUME NEW s \in Serials, NEW ds, NEW ps, NEW o \in PeersOf(s, ds, ps),
         DOMAIN ds \subseteq Serials, s \in DOMAIN ds,
         \A u \in DOMAIN ds : ds[u].slope \in Int,
         \A p \in DOMAIN ps : ps[p].intercept = Zero[p[2]] - Zero[p[1]]
  PROVE  /\ o \in DOMAIN ds \ {s}
         /\ Disagreement(s, o, ds, ps) \in Nat
         /\ Disagreement(s, o, ds, ps) =
              Abs((Zero[s] - Zero[o]) - (ds[s].slope - ds[o].slope))
<1> DEFINE p == pair_key(s, o)
<1>1. o \in Serials /\ o # s /\ o \in DOMAIN ds /\ p \in DOMAIN ps
  BY DEF PeersOf
<1>2. Zero[s] \in Int /\ Zero[o] \in Int /\ ds[s].slope \in Int /\ ds[o].slope \in Int
  BY <1>1, ZeroAssumption
<1>3. ps[p].intercept = Zero[p[2]] - Zero[p[1]]
  BY <1>1
<1>4. /\ flipped(s, o) => p[1] = o /\ p[2] = s
      /\ ~flipped(s, o) => p[1] = s /\ p[2] = o
  BY <1>1, PairMeasured
<1>5. Relative(s, o, ps) = Zero[s] - Zero[o]
  BY <1>2, <1>3, <1>4 DEF Relative
<1> HIDE DEF p
<1>6. Disagreement(s, o, ds, ps) =
        Abs((Zero[s] - Zero[o]) - (ds[s].slope - ds[o].slope))
  BY <1>5 DEF Disagreement
<1>7. (Zero[s] - Zero[o]) - (ds[s].slope - ds[o].slope) \in Int
  BY <1>2
<1>8. \A x \in Int : Abs(x) \in Nat
  BY DEF Abs
<1> QED BY <1>1, <1>6, <1>7, <1>8

\* The worst disagreement bounds them all and, unless there is none, is that
\* of a peer.
LEMMA WorstIsWorst ==
  ASSUME NEW s \in Serials, NEW ds, NEW ps,
         DOMAIN ds \subseteq Serials, s \in DOMAIN ds,
         \A u \in DOMAIN ds : ds[u].slope \in Int,
         \A p \in DOMAIN ps : ps[p].intercept = Zero[p[2]] - Zero[p[1]]
  PROVE  /\ WorstDisagreement(s, ds, ps) \in Nat
         /\ \A o \in PeersOf(s, ds, ps) :
              WorstDisagreement(s, ds, ps) >= Disagreement(s, o, ds, ps)
         /\ WorstDisagreement(s, ds, ps) > 0 =>
              \E o \in PeersOf(s, ds, ps) :
                WorstDisagreement(s, ds, ps) = Disagreement(s, o, ds, ps)
<1> DEFINE peers == PeersOf(s, ds, ps)
           values == {Disagreement(s, o, ds, ps) : o \in peers}
           f == [o \in peers |-> Disagreement(s, o, ds, ps)]
<1>1. \A o \in peers : Disagreement(s, o, ds, ps) \in Nat
  BY DisagreementMeasures
<1>2. IsFiniteSet(peers)
  <2>1. peers \in SUBSET Serials
    BY DEF PeersOf
  <2> QED BY <2>1, SerialsAssumption, FS_Subset
<1>3. f \in Surjection(peers, values)
  BY DEF Surjection
<1>4. IsFiniteSet(values)
  <2> HIDE DEF f, peers, values
  <2> QED BY <1>2, <1>3, FS_Surjection
<1>5. IsFiniteSet({0} \cup values)
  <2>1. IsFiniteSet(values \cup {0})
    BY <1>4, FS_AddElement
  <2>2. values \cup {0} = {0} \cup values
    OBVIOUS
  <2> QED BY <2>1, <2>2
<1>6. values \subseteq Nat
  BY <1>1
<1> DEFINE all == {0} \cup values
<1>7. all \subseteq Int /\ all # {} /\ IsFiniteSet(all) /\ all \subseteq Nat
  BY <1>5, <1>6
<1>8. Max(all) \in all /\ \A y \in all : Max(all) >= y
  <2> HIDE DEF all
  <2> QED BY <1>7, MaxOfFinite
<1>9. WorstDisagreement(s, ds, ps) = Max(all)
  BY DEF WorstDisagreement
<1> DEFINE worst == Max(all)
<1>10. worst \in Nat /\ (worst = 0 \/ worst \in values) /\ \A y \in values : worst >= y
  BY <1>7, <1>8
<1> HIDE DEF worst
<1>11. \A o \in peers : Disagreement(s, o, ds, ps) \in values
  OBVIOUS
<1>12. worst > 0 => \E o \in peers : worst = Disagreement(s, o, ds, ps)
  BY <1>10
<1>13. WorstDisagreement(s, ds, ps) = worst
  BY <1>9 DEF worst
<1> HIDE DEF values
<1> QED BY <1>10, <1>11, <1>12, <1>13

-----------------------------------------------------------------------------
(***************************************************************************)
(* The steps keep the invariant.                                           *)
(***************************************************************************)

LEMMA InitInv == Init => CalibratorInv
<1> SUFFICES ASSUME Init PROVE CalibratorInv
  OBVIOUS
<1>1. /\ DOMAIN devices = {} /\ DOMAIN pairs = {} /\ DOMAIN live = {} /\ opts \in Configs
      /\ DOMAIN file.devices = {} /\ DOMAIN file.pairs = {}
  BY DEF Init, Fresh
<1>2. live \in [DOMAIN live -> Holds]
  BY DEF Init
<1> QED BY <1>1, <1>2 DEF CalibratorInv, Bank, HoldTells, LiveTracked

\* What an eligible device has clamped is earned.
LEMMA EligibleEarns ==
  ASSUME NEW d \in Device, NEW o \in Configs, Eligible(d, o), d.applied \in -o.max_offset..o.max_offset
  PROVE  EarnedUnder(d, o)
<1>1. d.span \in Nat /\ d.capacity \in Nat /\ o.tau \in Nat /\ o.max_anchor \in Nat
  BY OptionsAssumption, SpanAssumption DEF Device
<1>2. /\ d.span >= o.min_span /\ d.capacity > 0
      /\ Window(d, o) > 0 /\ d.capacity <= o.max_anchor * Window(d, o)
  BY DEF Eligible, AnchorTight
<1>3. Window(d, o) = IF d.span <= o.tau THEN d.span ELSE o.tau
  <2>1. d.span \in Int /\ o.tau \in Int
    BY <1>1
  <2> DEFINE span == d.span
             tau == o.tau
  <2> HIDE DEF span, tau
  <2>2. Min({span, tau}) = IF span <= tau THEN span ELSE tau
    BY <2>1, TwoBounds DEF span, tau
  <2> QED BY <2>2 DEF Window, span, tau
<1>4. d.span > 0
  BY <1>1, <1>2, <1>3
<1>5. o.max_anchor > 0
  <2>1. Window(d, o) \in Nat
    BY <1>1, <1>3
  <2>2. o.max_anchor = 0 => o.max_anchor * Window(d, o) = 0
    BY <2>1
  <2> QED BY <1>1, <1>2, <2>2
<1> QED BY <1>2, <1>4, <1>5 DEF EarnedUnder

\* Eligibility reads nothing of what is applied.
LEMMA EligibleReads ==
  ASSUME NEW d, NEW e, NEW o,
         d.n = e.n, d.span = e.span, d.capacity = e.capacity
  PROVE  (HasFit(d) <=> HasFit(e)) /\ (Eligible(d, o) <=> Eligible(e, o))
BY DEF Eligible, HasFit, AnchorTight, Window

LEMMA ObserveKeeps ==
  ASSUME CalibratorInv, NEW s \in Serials, NEW d, NEW peers, NEW ps, Observed(s, d, peers, ps)
  PROVE  CalibratorInv'
<1> DEFINE hold == HoldAfter(s, d, ps)
<1>a. /\ d \in integrate(s) /\ peers \in SUBSET (DOMAIN live \ {s}) /\ ps \in update_peers(s, peers)
      /\ devices' = DevicesAfter(s, d, ps) /\ live' = LiveAfter(s, d, ps)
      /\ pairs' = ps /\ opts' = opts /\ file' = file
  BY DEF Observed
<1>0. /\ DOMAIN devices' = DOMAIN devices \cup {s}
      /\ \A u \in DOMAIN devices \ {s} : devices'[u] = devices[u]
      /\ DOMAIN live' = DOMAIN live \cup {s}
      /\ live'[s] = hold
      /\ \A u \in DOMAIN live \ {s} : live'[u] = live[u]
      /\ hold \in Holds
      /\ live' = [u \in DOMAIN live \cup {s} |-> IF u = s THEN hold ELSE live[u]]
  <2>1. live' = [u \in DOMAIN live \cup {s} |-> IF u = s THEN hold ELSE live[u]]
    BY <1>a DEF LiveAfter
  <2> HIDE DEF hold
  <2>2. /\ DOMAIN live' = DOMAIN live \cup {s} /\ live'[s] = hold
        /\ \A u \in DOMAIN live \ {s} : live'[u] = live[u]
    BY <2>1
  <2>3. hold \in Holds
    BY <1>a, FrameFacts DEF hold
  <2>4. /\ DOMAIN devices' = DOMAIN devices \cup {s}
        /\ \A u \in DOMAIN devices \ {s} : devices'[u] = devices[u]
    BY <1>a DEF DevicesAfter, After
  <2> QED BY <2>1, <2>2, <2>3, <2>4
<1>1. /\ devices'[s] \in Device
      /\ devices'[s].n = d.n /\ devices'[s].slope = d.slope
      /\ devices'[s].noisy = d.noisy /\ devices'[s].span = d.span
      /\ devices'[s].capacity = d.capacity
      /\ hold # "None" => devices'[s].applied = Entry(s).applied
      /\ hold = "None" => /\ HasFit(d) /\ Eligible(d, opts) /\ ~d.noisy
                          /\ devices'[s].applied = clamp(d.slope, opts.max_offset)
  <2>1. devices'[s] = DevicesAfter(s, d, ps)[s]
    BY <1>a
  <2> DEFINE new == DevicesAfter(s, d, ps)[s]
  <2>2. /\ new \in Device
        /\ new.n = d.n /\ new.slope = d.slope /\ new.noisy = d.noisy
        /\ new.span = d.span /\ new.capacity = d.capacity
        /\ hold # "None" => new.applied = Entry(s).applied
        /\ hold = "None" => /\ HasFit(d) /\ Eligible(d, opts) /\ ~d.noisy
                            /\ new.applied = clamp(d.slope, opts.max_offset)
    BY <1>a, FrameDevice
  <2> QED BY <2>1, <2>2
<1>2. /\ d \in Device
      /\ d.applied = Entry(s).applied
      /\ d.span >= Entry(s).span
      /\ d.capacity >= Entry(s).capacity
  BY <1>a, IntegrateKeeps
<1>3. \A p \in DOMAIN ps :
           /\ p \in Serials \X Serials /\ p[1] < p[2]
           /\ {p[1], p[2]} \subseteq DOMAIN devices \cup {s}
           /\ ps[p] \in [intercept : Int, qualifies : BOOLEAN]
           /\ ps[p].intercept = Zero[p[2]] - Zero[p[1]]
  BY <1>a, FramePairs
<1> HIDE DEF hold
<1>4. opts' \in Configs /\ live' \in [DOMAIN live' -> Holds]
  <2>1. live \in [DOMAIN live -> Holds] /\ opts \in Configs
    BY DEF CalibratorInv
  <2> QED BY <1>a, <1>0, <2>1
<1>5. Earned(devices'[s])
  <2>1. CASE hold = "None"
    <3>1. Eligible(devices'[s], opts)
      BY <1>1, <2>1, EligibleReads
    <3>2. opts \in Configs /\ opts.max_offset \in Nat /\ d.slope \in Int
      BY <1>2, ClampsHold DEF CalibratorInv, Device
    <3>3. devices'[s].applied \in -opts.max_offset..opts.max_offset
      BY <1>1, <2>1, <3>2, ClampBounds
    <3> DEFINE e == devices'[s]
    <3>4. e \in Device /\ Eligible(e, opts) /\ e.applied \in -opts.max_offset..opts.max_offset
      BY <1>1, <3>1, <3>3
    <3> HIDE DEF e
    <3>5. EarnedUnder(e, opts)
      BY <3>2, <3>4, EligibleEarns
    <3>6. Earned(e)
      BY <3>2, <3>5 DEF Earned
    <3> QED BY <3>6 DEF e
  <2>2. CASE hold # "None" /\ devices'[s].applied # 0
    <3> DEFINE e == Entry(s)
    <3>1. e.applied # 0 /\ devices'[s].applied = e.applied
      BY <1>1, <2>2
    <3>2. PICK o \in Configs : EarnedUnder(e, o)
      BY <3>1, EntryIsDevice DEF Earned
    <3>3. /\ e.capacity \in Nat /\ d.capacity \in Nat /\ e.span \in Nat /\ d.span \in Nat
          /\ o.min_span \in Nat
      BY <1>2, EntryIsDevice, OptionsAssumption, SpanAssumption DEF Device
    <3>4. d.capacity >= e.capacity /\ d.span >= e.span
      BY <1>2
    <3> HIDE DEF e
    <3>5. EarnedUnder(devices'[s], o)
      BY <1>1, <3>1, <3>2, <3>3, <3>4 DEF EarnedUnder
    <3> QED BY <3>5 DEF Earned
  <2> QED BY <2>1, <2>2 DEF Earned
<1>6. HoldTells'
  <2> SUFFICES ASSUME NEW u \in DOMAIN live', live'[u] = "None"
               PROVE  /\ Eligible(devices'[u], opts) /\ ~devices'[u].noisy
                      /\ devices'[u].applied \in -opts.max_offset..opts.max_offset
                      /\ devices'[u].slope \in -opts.max_offset..opts.max_offset =>
                           devices'[u].applied = devices'[u].slope
    BY <1>a DEF HoldTells, Eligible, HasFit, AnchorTight, Window
  <2>1. CASE u # s
    <3>1. u \in DOMAIN live /\ live[u] = "None"
      BY <1>0, <2>1
    <3>2. u \in DOMAIN devices /\ devices'[u] = devices[u]
      BY <1>0, <2>1, <3>1 DEF CalibratorInv, LiveTracked
    <3> QED BY <3>1, <3>2 DEF CalibratorInv, HoldTells
  <2>2. CASE u = s
    <3>1. hold = "None"
      BY <1>0, <2>2
    <3>2. Eligible(devices'[s], opts)
      BY <1>1, <3>1, EligibleReads
    <3>3. opts.max_offset \in Nat /\ d.slope \in Int
      BY <1>2, ClampsHold DEF CalibratorInv, Device
    <3>4. devices'[s].applied = clamp(d.slope, opts.max_offset)
      BY <1>1, <3>1
    <3>5. /\ clamp(d.slope, opts.max_offset) \in -opts.max_offset..opts.max_offset
          /\ d.slope \in -opts.max_offset..opts.max_offset =>
               clamp(d.slope, opts.max_offset) = d.slope
      BY <3>3, ClampBounds
    <3> QED BY <1>1, <2>2, <3>1, <3>2, <3>4, <3>5
  <2> QED BY <2>1, <2>2
<1>7. Bank(devices', pairs')
  <2>1. DOMAIN devices' \subseteq Serials
    BY <1>0 DEF CalibratorInv, Bank
  <2>2. \A u \in DOMAIN devices' : devices'[u] \in Device /\ Earned(devices'[u])
    <3>1. TAKE u \in DOMAIN devices'
    <3>2. CASE u = s
      BY <1>1, <1>5, <3>2
    <3>3. CASE u # s
      <4>1. u \in DOMAIN devices /\ devices'[u] = devices[u]
        BY <1>0, <3>3
      <4> QED BY <4>1 DEF CalibratorInv, Bank
    <3> QED BY <3>2, <3>3
  <2> QED BY <1>a, <1>0, <1>3, <2>1, <2>2 DEF Bank
<1>8. LiveTracked'
  BY <1>0 DEF LiveTracked, CalibratorInv
<1>9. Bank(file'.devices, file'.pairs)
  BY <1>a DEF CalibratorInv
<1> QED BY <1>4, <1>6, <1>7, <1>8, <1>9 DEF CalibratorInv

LEMMA FlushKeeps ==
  ASSUME CalibratorInv, flush
  PROVE  CalibratorInv'
<1>1. /\ file'.devices = devices /\ file'.pairs = pairs
      /\ opts' = opts /\ devices' = devices /\ pairs' = pairs /\ live' = live
  BY DEF flush
<1>2. Bank(devices', pairs') /\ Bank(file'.devices, file'.pairs)
  BY <1>1 DEF CalibratorInv
<1>3. HoldTells' /\ LiveTracked'
  BY <1>1 DEF CalibratorInv, HoldTells, LiveTracked, Eligible, HasFit, AnchorTight, Window
<1> QED BY <1>1, <1>2, <1>3 DEF CalibratorInv

LEMMA RestoreKeeps ==
  ASSUME CalibratorInv, NEW admitted \in SUBSET Serials, restore(admitted)
  PROVE  CalibratorInv'
<1> DEFINE ds == file.devices
           ps == file.pairs
<1>1. /\ DOMAIN devices' = DOMAIN ds \cap admitted
      /\ \A u \in DOMAIN devices' : devices'[u] = ds[u]
  BY DEF restore, Restrict
<1>2. /\ DOMAIN pairs' = {p \in DOMAIN ps : {p[1], p[2]} \subseteq admitted}
      /\ \A p \in DOMAIN pairs' : pairs'[p] = ps[p]
  BY DEF restore, Restrict
<1>3. /\ opts' \in Configs /\ DOMAIN live' = {} /\ live' \in [DOMAIN live' -> Holds]
      /\ file' = file
  BY DEF restore
<1>4. Bank(devices', pairs')
  <2>1. Bank(ds, ps)
    BY DEF CalibratorInv
  <2> HIDE DEF ds, ps
  <2>2. DOMAIN devices' \subseteq Serials
        /\ \A u \in DOMAIN devices' : devices'[u] \in Device /\ Earned(devices'[u])
    BY <1>1, <2>1 DEF Bank
  <2>3. \A p \in DOMAIN pairs' :
          /\ p \in Serials \X Serials /\ p[1] < p[2] /\ {p[1], p[2]} \subseteq DOMAIN devices'
          /\ pairs'[p] \in [intercept : Int, qualifies : BOOLEAN]
          /\ pairs'[p].intercept = Zero[p[2]] - Zero[p[1]]
    BY <1>1, <1>2, <2>1 DEF Bank
  <2> QED BY <2>2, <2>3 DEF Bank
<1>5. Bank(file'.devices, file'.pairs)
  BY <1>3 DEF CalibratorInv
<1>6. HoldTells' /\ LiveTracked'
  BY <1>3 DEF HoldTells, LiveTracked
<1> QED BY <1>3, <1>4, <1>5, <1>6 DEF CalibratorInv

LEMMA InvariantHolds == Spec => []CalibratorInv
<1>1. ASSUME CalibratorInv, [Next]_vars
      PROVE  CalibratorInv'
  <2>1. ASSUME NEW s \in Serials, observe(s)
        PROVE  CalibratorInv'
    <3>1. PICK d, peers, ps : Observed(s, d, peers, ps)
      BY <2>1, ObserveIsObserved
    <3> QED BY <1>1, <3>1, ObserveKeeps DEF Observed
  <2>2. ASSUME NEW admitted \in SUBSET Serials, restore(admitted)
        PROVE  CalibratorInv'
    BY <1>1, <2>2, RestoreKeeps
  <2>3. CASE UNCHANGED vars
    <3>1. Bank(devices', pairs') /\ Bank(file'.devices, file'.pairs)
      BY <1>1, <2>3 DEF vars, CalibratorInv
    <3>2. HoldTells' /\ LiveTracked'
      BY <1>1, <2>3 DEF vars, CalibratorInv, HoldTells, LiveTracked, Eligible, HasFit,
         AnchorTight, Window
    <3> QED BY <1>1, <2>3, <3>1, <3>2 DEF vars, CalibratorInv
  <2>4. CASE flush
    BY <1>1, <2>4, FlushKeeps
  <2> QED BY <1>1, <2>1, <2>2, <2>3, <2>4 DEF Next
<1> QED BY <1>1, InitInv, PTL DEF Spec

-----------------------------------------------------------------------------
(***************************************************************************)
(* The theorems.                                                           *)
(***************************************************************************)

\* The state keeps its shape and a correction is never beyond the clamp of
\* some configuration (the clamp of recompute).
THEOREM TypeTheorem == Spec => []TypeOK
<1>1. CalibratorInv => TypeOK
  <2> SUFFICES ASSUME CalibratorInv PROVE TypeOK
    OBVIOUS
  <2> DEFINE memory == [devices |-> devices, pairs |-> pairs]
  <2>1. ASSUME NEW saved, Bank(saved.devices, saved.pairs)
        PROVE  /\ DOMAIN saved.devices \subseteq Serials
               /\ \A s \in DOMAIN saved.devices : saved.devices[s] \in Device
               /\ \A p \in DOMAIN saved.pairs :
                    saved.pairs[p] \in [intercept : Int, qualifies : BOOLEAN]
    BY <2>1 DEF Bank
  <2>2. memory.devices = devices /\ memory.pairs = pairs
    OBVIOUS
  <2> HIDE DEF memory
  <2>3. \A saved \in {memory, file} : Bank(saved.devices, saved.pairs)
    BY <2>2 DEF CalibratorInv
  <2>4. \A saved \in {memory, file} :
          /\ DOMAIN saved.devices \subseteq Serials
          /\ \A s \in DOMAIN saved.devices : saved.devices[s] \in Device
          /\ \A p \in DOMAIN saved.pairs :
               saved.pairs[p] \in [intercept : Int, qualifies : BOOLEAN]
    BY <2>1, <2>3
  <2> QED BY <2>4 DEF TypeOK, CalibratorInv, memory
<1> QED BY <1>1, InvariantHolds, PTL

\* A corrected device has a known capacity and has finished its warm-up by one
\* of the configurations there were, within whose clamp it is, whatever restarts
\* and reconfigurations lie in between (the gates of recompute).
THEOREM EarnedTheorem == Spec => []CorrectionsEarned
<1>1. CalibratorInv => CorrectionsEarned
  BY DEF CalibratorInv, Bank, CorrectionsEarned, Earned
<1> QED BY <1>1, InvariantHolds, PTL

\* A device reported as trusted is eligible under the configuration in force
\* and corrected by its own estimate, as far as the clamp lets it (the hold
\* gauge of recompute).
THEOREM HoldTheorem == Spec => []HoldTells
<1>1. CalibratorInv => HoldTells
  BY DEF CalibratorInv
<1> QED BY <1>1, InvariantHolds, PTL

\* No pair fit outlives either of its members (restore and update_peers).
THEOREM PairsTheorem == Spec => []PairsTracked
<1>1. CalibratorInv => PairsTracked
  BY DEF CalibratorInv, Bank, PairsTracked
<1> QED BY <1>1, InvariantHolds, PTL

\* Who the peers are and how far they disagree reads only the fits.
LEMMA PeersRead ==
  ASSUME NEW s, NEW ds, NEW es, NEW ps, DOMAIN ds = DOMAIN es, s \in DOMAIN ds,
         \A u \in DOMAIN ds : ds[u].n = es[u].n /\ ds[u].slope = es[u].slope
  PROVE  /\ PeersOf(s, ds, ps) = PeersOf(s, es, ps)
         /\ \A o \in PeersOf(s, ds, ps) :
              Disagreement(s, o, ds, ps) = Disagreement(s, o, es, ps)
<1>1. PeersOf(s, ds, ps) = PeersOf(s, es, ps)
  BY DEF PeersOf, HasFit
<1>2. \A o \in PeersOf(s, ds, ps) : ds[s].slope - ds[o].slope = es[s].slope - es[o].slope
  BY DEF PeersOf
<1> QED BY <1>1, <1>2 DEF Disagreement

\* The banks before and after recompute are ones WorstIsWorst speaks of, and
\* their fits are the same.
LEMMA FrameBanks ==
  ASSUME CalibratorInv, NEW s \in Serials, NEW d \in integrate(s),
         NEW peers \in SUBSET (DOMAIN live \ {s}), NEW ps \in update_peers(s, peers)
  PROVE  LET ds == After(s, d)
             es == DevicesAfter(s, d, ps)
         IN  /\ DOMAIN ds \subseteq Serials /\ s \in DOMAIN ds /\ DOMAIN es = DOMAIN ds
             /\ \A u \in DOMAIN ds : /\ ds[u].slope \in Int
                                     /\ ds[u].n = es[u].n /\ ds[u].slope = es[u].slope
             /\ \A p \in DOMAIN ps : ps[p].intercept = Zero[p[2]] - Zero[p[1]]
<1> DEFINE ds == After(s, d)
           es == DevicesAfter(s, d, ps)
<1>1. /\ DOMAIN ds = DOMAIN devices \cup {s} /\ ds[s] = d
      /\ \A u \in DOMAIN devices \ {s} : ds[u] = devices[u]
  BY DEF After
<1>2. /\ DOMAIN es = DOMAIN devices \cup {s}
      /\ \A u \in DOMAIN devices \ {s} : es[u] = devices[u]
  BY DEF DevicesAfter, After
<1>3. es[s].n = d.n /\ es[s].slope = d.slope
  BY FrameDevice
<1>4. d.slope \in Int
  BY IntegrateKeeps DEF Device
<1>5. DOMAIN devices \subseteq Serials /\ \A u \in DOMAIN devices : devices[u].slope \in Int
  BY DEF CalibratorInv, Bank, Device
<1>6. \A p \in DOMAIN ps : ps[p].intercept = Zero[p[2]] - Zero[p[1]]
  BY FramePairs
<1> HIDE DEF ds, es
<1>7. \A u \in DOMAIN ds : /\ ds[u].slope \in Int
                           /\ ds[u].n = es[u].n /\ ds[u].slope = es[u].slope
  BY <1>1, <1>2, <1>3, <1>4, <1>5
<1>8. DOMAIN ds \subseteq Serials /\ s \in DOMAIN ds /\ DOMAIN es = DOMAIN ds
  BY <1>1, <1>2, <1>5
<1> QED BY <1>6, <1>7, <1>8 DEF ds, es

\* What a frame of s does to the others: nothing that is applied or held.
LEMMA OthersStay ==
  ASSUME CalibratorInv, NEW s \in Serials, NEW d, NEW peers, NEW ps,
         Observed(s, d, peers, ps), NEW u \in Serials \ {s}
  PROVE  /\ u \in DOMAIN devices => devices'[u] = devices[u]
         /\ u \in DOMAIN live' => u \in DOMAIN live /\ live'[u] = live[u]
<1>1. u \in DOMAIN devices => devices'[u] = devices[u]
  BY DEF Observed, DevicesAfter, After
<1>2. u \in DOMAIN live' => u \in DOMAIN live /\ live'[u] = live[u]
  BY DEF Observed, LiveAfter
<1> QED BY <1>1, <1>2

\* A step that takes the correction of u to a value the gates let through: no
\* peer, by the state it leaves, is beyond the threshold.
MoveIsTrusted(u) ==
  /\ u \in DOMAIN live' /\ live'[u] = "None"
  /\ \A o \in PeersOf(u, devices', pairs') :
       Disagreement(u, o, devices', pairs') <= opts.max_disagreement

\* One that takes it to what is on file.
MoveIsRestored(u) ==
  /\ live' = << >> /\ u \in DOMAIN file.devices
  /\ devices'[u].applied = file.devices[u].applied

\* The correction of u moves only in a frame of u that passes the gates, and at
\* a start.
LEMMA MovesAreTrusted ==
  ASSUME CalibratorInv, [Next]_vars, NEW u \in Serials,
         u \in DOMAIN devices, u \in DOMAIN devices', devices'[u].applied # devices[u].applied
  PROVE  MoveIsTrusted(u) \/ MoveIsRestored(u)
<1>1. ASSUME NEW s \in Serials, NEW d, NEW peers, NEW ps, Observed(s, d, peers, ps)
      PROVE  MoveIsTrusted(u)
  <2>1. u = s
    <3>1. ASSUME u # s PROVE devices'[u] = devices[u]
      BY <1>1, <3>1, OthersStay DEF Observed
    <3> QED BY <3>1
  <2>2. /\ d \in integrate(u) /\ devices' = DevicesAfter(u, d, ps) /\ pairs' = ps
        /\ peers \in SUBSET (DOMAIN live \ {u}) /\ ps \in update_peers(u, peers)
        /\ live' = [v \in DOMAIN live \cup {u} |-> IF v = u THEN HoldAfter(u, d, ps) ELSE live[v]]
    BY <1>1, <2>1 DEF Observed, LiveAfter
  <2> DEFINE ds == After(u, d)
             es == DevicesAfter(u, d, ps)
             hold == HoldAfter(u, d, ps)
  <2>3. hold = "None"
    <3>1. hold # "None" => es[u].applied = Entry(u).applied
      BY <2>2, FrameDevice
    <3>2. Entry(u) = devices[u]
      BY DEF Entry
    <3> QED BY <2>2, <3>1, <3>2
  <2>4. ~(WorstDisagreement(u, ds, ps) > opts.max_disagreement)
    BY <2>2, <2>3, FrameDevice
  <2>5. u \in DOMAIN live' /\ live'[u] = "None"
    BY <2>2, <2>3
  <2>6. /\ DOMAIN ds \subseteq Serials /\ u \in DOMAIN ds /\ DOMAIN es = DOMAIN ds
        /\ \A v \in DOMAIN ds : /\ ds[v].slope \in Int
                                /\ ds[v].n = es[v].n /\ ds[v].slope = es[v].slope
        /\ \A p \in DOMAIN ps : ps[p].intercept = Zero[p[2]] - Zero[p[1]]
    BY <2>2, FrameBanks
  <2> HIDE DEF ds, es
  <2>7. /\ PeersOf(u, ds, ps) = PeersOf(u, es, ps)
        /\ \A o \in PeersOf(u, ds, ps) :
             Disagreement(u, o, ds, ps) = Disagreement(u, o, es, ps)
    BY <2>6, PeersRead
  <2>8. /\ WorstDisagreement(u, ds, ps) \in Nat
        /\ \A o \in PeersOf(u, ds, ps) :
             WorstDisagreement(u, ds, ps) >= Disagreement(u, o, ds, ps)
    BY <2>6, WorstIsWorst
  <2>9. \A o \in PeersOf(u, ds, ps) : Disagreement(u, o, ds, ps) \in Nat
    BY <2>6, DisagreementMeasures
  <2>10. opts.max_disagreement \in Nat
    BY OptionsAssumption DEF CalibratorInv
  <2>11. \A o \in PeersOf(u, es, ps) : Disagreement(u, o, es, ps) <= opts.max_disagreement
    BY <2>4, <2>7, <2>8, <2>9, <2>10
  <2>12. devices' = es /\ pairs' = ps
    BY <2>2 DEF es
  <2> QED BY <2>5, <2>11, <2>12 DEF MoveIsTrusted
<1>2. ASSUME NEW admitted \in SUBSET Serials, restore(admitted)
      PROVE  MoveIsRestored(u)
  BY <1>2 DEF restore, Restrict, MoveIsRestored
<1>3. CASE UNCHANGED vars \/ flush
  BY <1>3 DEF vars, flush
<1>4. ASSUME NEW s \in Serials, observe(s)
      PROVE  \E d, peers, ps : Observed(s, d, peers, ps)
  BY <1>4, ObserveIsObserved
<1> QED BY <1>1, <1>2, <1>3, <1>4 DEF Next

\* While the process runs, a gate that closes leaves the correction in force
\* where it was (the early returns of recompute); a start, under whatever
\* configuration, takes it to what was applied at the last flush (restore).
THEOREM HeldTheorem == Spec => HeldKeepsLastGood
<1>1. ASSUME CalibratorInv, [Next]_vars
      PROVE  \A s \in Serials :
               CorrectionMoves(s) =>
                 \/ s \in DOMAIN live' /\ live'[s] = "None"
                 \/ live' = << >> /\ s \in DOMAIN file.devices
                    /\ devices'[s].applied = file.devices[s].applied
  BY <1>1, MovesAreTrusted DEF CorrectionMoves, MoveIsTrusted, MoveIsRestored
<1> QED BY <1>1, InvariantHolds, PTL DEF Spec, HeldKeepsLastGood

\* No frame moves a correction against a qualifying peer, whichever of them it
\* is (peer_disagreement).
THEOREM VetoTheorem == Spec => EveryPeerCanVeto
<1>1. ASSUME CalibratorInv, [Next]_vars
      PROVE  \A s \in DOMAIN live' :
               CorrectionMoves(s) =>
                 \A o \in PeersOf(s, devices', pairs') :
                   Disagreement(s, o, devices', pairs') <= opts.max_disagreement
  <2> SUFFICES ASSUME NEW s \in DOMAIN live', CorrectionMoves(s)
               PROVE  \A o \in PeersOf(s, devices', pairs') :
                        Disagreement(s, o, devices', pairs') <= opts.max_disagreement
    OBVIOUS
  <2>1. s \in Serials
    BY <1>1 DEF CorrectionMoves, CalibratorInv, Bank
  <2>2. ~MoveIsRestored(s)
    BY DEF MoveIsRestored
  <2>3. MoveIsTrusted(s)
    BY <1>1, <2>1, <2>2, MovesAreTrusted DEF CorrectionMoves
  <2> QED BY <2>3 DEF MoveIsTrusted
<1> QED BY <1>1, InvariantHolds, PTL DEF Spec, EveryPeerCanVeto

\* A veto is raised only against two estimates whose difference is not that of
\* the two zero errors, whichever of the two sent the frame and whichever has
\* the larger serial (pair_key, update_peers and relative_offset agree on the
\* sign).
THEOREM FoundedTheorem == Spec => VetoesAreFounded
<1>1. ASSUME CalibratorInv, [Next]_vars, NEW u \in Serials,
             u \in DOMAIN live', live'[u] = "PeerDisagreement",
             u \in DOMAIN live => live[u] # "PeerDisagreement"
      PROVE  \E o \in DOMAIN devices' \ {u} :
               devices'[u].slope - devices'[o].slope # Zero[u] - Zero[o]
  <2>1. ASSUME NEW s \in Serials, NEW d, NEW peers, NEW ps, Observed(s, d, peers, ps)
        PROVE  \E o \in DOMAIN devices' \ {u} :
                 devices'[u].slope - devices'[o].slope # Zero[u] - Zero[o]
    <3>1. u = s
      <4>1. ASSUME u # s PROVE u \in DOMAIN live /\ live'[u] = live[u]
        BY <1>1, <2>1, <4>1, OthersStay DEF Observed
      <4> QED BY <1>1, <4>1
    <3>2. /\ d \in integrate(u) /\ devices' = DevicesAfter(u, d, ps) /\ pairs' = ps
          /\ peers \in SUBSET (DOMAIN live \ {u}) /\ ps \in update_peers(u, peers)
          /\ live' = [v \in DOMAIN live \cup {u} |-> IF v = u THEN HoldAfter(u, d, ps) ELSE live[v]]
      BY <2>1, <3>1 DEF Observed, LiveAfter
    <3> DEFINE ds == After(u, d)
               es == DevicesAfter(u, d, ps)
    <3>3. HoldAfter(u, d, ps) = "PeerDisagreement"
      BY <1>1, <3>2
    <3>4. WorstDisagreement(u, ds, ps) > opts.max_disagreement
      BY <3>3, Gates DEF HoldAfter
    <3>5. /\ DOMAIN ds \subseteq Serials /\ u \in DOMAIN ds /\ DOMAIN es = DOMAIN ds
          /\ \A v \in DOMAIN ds : /\ ds[v].slope \in Int
                                  /\ ds[v].n = es[v].n /\ ds[v].slope = es[v].slope
          /\ \A p \in DOMAIN ps : ps[p].intercept = Zero[p[2]] - Zero[p[1]]
      BY <1>1, <3>2, FrameBanks
    <3> HIDE DEF ds, es
    <3>6. /\ WorstDisagreement(u, ds, ps) \in Nat
          /\ WorstDisagreement(u, ds, ps) > 0 =>
              \E o \in PeersOf(u, ds, ps) :
                WorstDisagreement(u, ds, ps) = Disagreement(u, o, ds, ps)
      BY <3>5, WorstIsWorst
    <3>7. PICK o \in PeersOf(u, ds, ps) : Disagreement(u, o, ds, ps) > 0
      BY <1>1, <3>4, <3>6, OptionsAssumption DEF CalibratorInv
    <3>8. /\ o \in DOMAIN ds \ {u}
          /\ Disagreement(u, o, ds, ps) =
               Abs((Zero[u] - Zero[o]) - (ds[u].slope - ds[o].slope))
      BY <3>5, <3>7, DisagreementMeasures
    <3>9. /\ Zero[u] - Zero[o] \in Int /\ ds[u].slope - ds[o].slope \in Int
      BY <3>5, <3>8, ZeroAssumption
    <3>10. ds[u].slope - ds[o].slope # Zero[u] - Zero[o]
      BY <3>7, <3>8, <3>9 DEF Abs
    <3>11. devices' = es
      BY <3>2 DEF es
    <3> QED BY <3>5, <3>8, <3>10, <3>11
  <2>2. ASSUME NEW admitted \in SUBSET Serials, restore(admitted)
        PROVE  FALSE
    BY <1>1, <2>2 DEF restore
  <2>3. CASE UNCHANGED vars \/ flush
    BY <1>1, <2>3 DEF vars, flush
  <2>4. ASSUME NEW s \in Serials, observe(s)
        PROVE  \E d, peers, ps : Observed(s, d, peers, ps)
    BY <2>4, ObserveIsObserved
  <2> QED BY <1>1, <2>1, <2>2, <2>3, <2>4 DEF Next
<1>2. ASSUME CalibratorInv, [Next]_vars
      PROVE  \A s \in Serials :
               VetoRaised(s) =>
                 \E o \in DOMAIN devices' \ {s} :
                   devices'[s].slope - devices'[o].slope # Zero[s] - Zero[o]
  BY <1>1, <1>2 DEF VetoRaised
<1> QED BY <1>2, InvariantHolds, PTL DEF Spec, VetoesAreFounded

=============================================================================
