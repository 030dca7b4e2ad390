------------------------------- MODULE Closure -------------------------------
(***************************************************************************)
(* The closure estimator of calibration.rs as arithmetic: the regression   *)
(* EwFit of y = net charge - remaining capacity - bleed over the           *)
(* integrated hours x, beside the pack it is a regression of.  Its slope   *)
(* is to be the zero error of the current sensor.  Calibrator takes the    *)
(* line of a fit as given and models what is done with it; this module is  *)
(* what that line is worth.                                                *)
(*                                                                         *)
(* The pack has a true level, current and bleed, the current and the bleed *)
(* running straight between frames; its sensor adds Zero to the current.   *)
(* A frame may lack the bleed or the remaining capacity, and its remaining *)
(* capacity may be anything between empty and full.  Charges are twice the *)
(* ampere-hours.  The weights of a fit are integers: all sums are in units *)
(* of one sample's weight, fit.unit, which nothing that is read off a fit  *)
(* depends on.                                                             *)
(***************************************************************************)
EXTENDS Integers

CONSTANTS
  Zero,       \* zero error of the sensor, in amperes
  Cap,        \* capacity of the pack, in Ah; config frames report it
  Currents,   \* true currents of the pack at a frame
  Bleeds,     \* true bleeds of its balancer at a frame
  Artifacts,  \* negative readings of a balancer at rest
  Hours,      \* hours that may lie between two frames
  MaxGap,     \* max_gap_secs, in hours
  Forget,     \* [1..MaxGap -> <<num, den>>]: exp(-hours / tau_hours)
  Tau,        \* tau_hours
  Widths,     \* window widths x may grow to, 50 in the code
  Enough,     \* samples a fit needs, 3 in the code
  MinSpan,    \* min_span_hours
  None,       \* a register the frame does not hold; no frame yet
  MaxFrames   \* bound: frames

ASSUME PackAssumption ==
  Zero \in Int /\ Cap \in Nat /\ Currents \subseteq Int /\ Bleeds \subseteq Nat
ASSUME ReadingAssumption ==
  None \notin Int /\ Artifacts \subseteq {r \in Int : r < 0}
ASSUME TimeAssumption == Hours \subseteq Nat /\ MaxGap \in Nat /\ MaxFrames \in Nat
ASSUME OptionsAssumption ==
  /\ Tau \in Nat /\ Widths \in Nat /\ Enough \in Nat \ {0}
  /\ MinSpan \in Nat
\* Something is kept, no more than there was, and exp lies above its tangent.
ASSUME ForgetAssumption ==
  /\ Forget \in [1..MaxGap -> (Nat \ {0}) \X (Nat \ {0})]
  /\ \A h \in 1..MaxGap : Forget[h][1] <= Forget[h][2]
  /\ \A h \in 1..MaxGap : Tau * Forget[h][1] >= (Tau - h) * Forget[h][2]

VARIABLES
  pack,   \* level, current and bleed of the pack
  live,   \* Live: the last frame since the start, or None
  dev,    \* DeviceState: x, span, cum_net_ah and cum_bal_ah
  fit,    \* DeviceState.fit
  seen    \* history: what the properties depend on

vars == <<pack, live, dev, fit, seen>>

Least(a, b) == IF a <= b THEN a ELSE b
AtLeastZero(a) == IF a >= 0 THEN a ELSE 0
Abs(a) == IF a >= 0 THEN a ELSE -a

-----------------------------------------------------------------------------
(***************************************************************************)
(* EwFit.                                                                  *)
(***************************************************************************)

NoSamples == [unit |-> 1, n |-> 0, sx |-> 0, sy |-> 0, sxx |-> 0, sxy |-> 0]

\* Seeded fault: the sample count does not age.
decay_sums(f, factor) ==
  LET num == factor[1]
      den == factor[2]
  IN  [unit |-> f.unit * den, n |-> f.n * den, sx |-> f.sx * num, sy |-> f.sy * num,
       sxx |-> f.sxx * num, sxy |-> f.sxy * num]

\* Every sum times num / den.
decay(f, factor) ==
  LET num == factor[1]
      den == factor[2]
  IN  [unit |-> f.unit * den, n |-> f.n * num, sx |-> f.sx * num, sy |-> f.sy * num,
       sxx |-> f.sxx * num, sxy |-> f.sxy * num]

push(f, x, y) ==
  [unit |-> f.unit, n |-> f.n + f.unit,
   sx |-> f.sx + f.unit * x, sy |-> f.sy + f.unit * y,
   sxx |-> f.sxx + f.unit * (x * x), sxy |-> f.sxy + f.unit * (x * y)]

\* Seeded fault: the product sum is left in the old origin.
shift_x_products(f, d) ==
  [f EXCEPT !.sxx = f.sxx - 2 * (d * f.sx) + (d * d) * f.n,
            !.sx = f.sx - d * f.n]

\* The sums of the same samples, their x counted from d.
shift_x(f, d) ==
  [f EXCEPT !.sxx = f.sxx - 2 * (d * f.sx) + (d * d) * f.n,
            !.sxy = f.sxy - d * f.sy,
            !.sx = f.sx - d * f.n]

\* The slope is Rise / Run, where Run > 0 is the spread along x, both times
\* the weight.
Rise(f) == f.n * f.sxy - f.sx * f.sy
Run(f) == f.n * f.sxx - f.sx * f.sx

HasFit(f) == f.n >= Enough * f.unit /\ Run(f) > 0

-----------------------------------------------------------------------------
(***************************************************************************)
(* integrate, for a frame that comes h hours after the one before it.      *)
(***************************************************************************)

\* The interval is capped like the counter's.
Integrated(h) == Least(h, MaxGap)

\* The running integrals; d is the current and bleed read, dt > 0.
Advance(d, dt) ==
  [x |-> dev.x + dt,
   span |-> dev.span + dt,
   net |-> dev.net + (live.current + d.current_a) * dt,
   bal |-> IF live.balance_a # None /\ d.balance_a # None
           THEN dev.bal + (AtLeastZero(live.balance_a) + AtLeastZero(d.balance_a)) * dt
           ELSE dev.bal]

\* The quantity whose slope is the zero error.
y(e, q) == e.net - q - e.bal

\* One more point, after the older ones have aged.
Sampled(e, q, dt) == push(decay(fit, Forget[dt]), e.x, y(e, q))

TooFar(x) == x > Widths * Tau

\* What a frame makes of the device and its fit: time advances on every
\* frame, the fit only on one that holds the remaining capacity.
integrate(d, dt) ==
  LET e == Advance(d, dt)
  IN  IF live = None \/ dt <= 0 THEN [dev |-> dev, fit |-> fit]
      ELSE IF d.remaining_ah = None THEN [dev |-> e, fit |-> fit]
      ELSE LET f == Sampled(e, d.remaining_ah, dt)
               by == e.x - Tau
           IN  IF TooFar(e.x)
               THEN [dev |-> [e EXCEPT !.x = e.x - by], fit |-> shift_x(f, by)]
               ELSE [dev |-> e, fit |-> f]

-----------------------------------------------------------------------------
(***************************************************************************)
(* The pack.                                                               *)
(***************************************************************************)

Levels == 0..(2 * Cap)

\* What the level moves over h hours that end at current i and bleed b.
Moved(i, b, h) == (pack.current + i) * h - (pack.bleed + b) * h

Idle(i, b) == pack.current = 0 /\ i = 0 /\ pack.bleed = 0 /\ b = 0

\* What the registers of a frame may say.
BleedReadings(b) == {b, None} \cup {r \in Artifacts : b = 0}
Gauge == Levels \cup {None}

\* The interval is one whose charge the integrals hold: all of it was
\* integrated and no bleed went unread, or nothing flowed.
Accounted(i, b, bleed, h) ==
  \/ Idle(i, b)
  \/ /\ live # None /\ h <= MaxGap
     /\ \/ live.balance_a # None /\ bleed # None
        \/ pack.bleed = 0 /\ b = 0

Init ==
  /\ pack \in [level : Levels, current : {0}, bleed : {0}]
  /\ live = None
  /\ dev = [x |-> 0, span |-> 0, net |-> 0, bal |-> 0]
  /\ fit = NoSamples
  /\ seen = [frames |-> 0, complete |-> TRUE, honest |-> TRUE, regular |-> TRUE]

\* A frame h hours after the one before it.
Frame(h, i, b, bleed, q) ==
  LET level == pack.level + Moved(i, b, h)
      d == [current_a |-> i + Zero, balance_a |-> bleed, remaining_ah |-> q]
      now == integrate(d, Integrated(h))
  IN  /\ seen.frames < MaxFrames
      /\ level \in Levels
      /\ bleed \in BleedReadings(b)
      /\ pack' = [level |-> level, current |-> i, bleed |-> b]
      /\ dev' = now.dev
      /\ fit' = now.fit
      /\ live' = [current |-> d.current_a, balance_a |-> bleed]
      /\ seen' = [frames |-> seen.frames + 1,
                  complete |-> fit.n = 0 \/ (seen.complete /\ Accounted(i, b, bleed, h)),
                  honest |-> seen.honest /\ q \in {level, None},
                  regular |-> seen.regular /\ h = 1 /\ q # None]

\* A restart brings the device's state back and not the last frame.
restart ==
  /\ live' = None
  /\ seen' = [seen EXCEPT !.regular = FALSE]
  /\ UNCHANGED <<pack, dev, fit>>

Next ==
  \/ \E h \in Hours, i \in Currents, b \in Bleeds,
        bleed \in Bleeds \cup Artifacts \cup {None}, q \in Gauge :
       Frame(h, i, b, bleed, q)
  \/ restart

Spec == Init /\ [][Next]_vars

-----------------------------------------------------------------------------
(***************************************************************************)
(* Properties.                                                             *)
(***************************************************************************)

\* The slope is the zero error exactly, whatever the load, the bleed, the
\* outages, the restarts and the forgetting, and across every move of the
\* origin, as long as the gauge told the level and no charge moved while
\* nothing was integrated.
HonestGaugeClosesExactly ==
  HasFit(fit) /\ seen.complete /\ seen.honest => Rise(fit) = 2 * Zero * Run(fit)

\* min(span, tau)
Window == Least(dev.span, Tau)

\* By how much the slope misses the zero error, times the spread, in halves.
Error == Abs(Rise(fit) - 2 * Zero * Run(fit))

\* What a lying gauge can do to the slope at all, however the frames come, at
\* least an hour apart, and whatever was forgotten: three and a half times the
\* capacity over n - 1 hours, n being the weight of the fit in samples.
GaugeErrorBound ==
  HasFit(fit) /\ seen.complete =>
    2 * Error * (fit.n - fit.unit) <= 7 * fit.unit * (2 * Cap) * Run(fit)

\* anchor_error, what its comment calls the worst-case error the state of
\* charge can still induce in the slope, past min_span_hours and of a gauge
\* that is evenly sampled over the whole span: capacity over window.
AnchorBound ==
  HasFit(fit) /\ seen.complete /\ seen.regular /\ dev.span >= MinSpan =>
    Error * Window <= (2 * Cap) * Run(fit)

=============================================================================
