----------------------------- MODULE Integrator -----------------------------
(***************************************************************************)
(* accumulate_coulombs of metrics.rs for one device: how the current and   *)
(* voltage readings of successive frames become amp-hours and watt-hours,  *)
(* raw and calibrated, and the integrals the calibrator keeps of the same  *)
(* frames (integrate of calibration.rs).  Around it, the plausibility gate *)
(* in front, the wall clock that dates the frames, and restarts with       *)
(* another configuration.  Devices do not interact here.  Which offset the *)
(* calibrator returns is the matter of Calibrator; what becomes of the     *)
(* staged totals that of CoulombStore, where they are `ledger`.            *)
(*                                                                         *)
(* Currents are amperes, voltages volts, time seconds.  Amounts are twice  *)
(* the ampere- or watt-seconds, so that a trapezoid is an integer: the     *)
(* code divides each by 7200.                                              *)
(***************************************************************************)
EXTENDS Config

CONSTANTS
  Readings,   \* what the current, voltage and bleed registers of a frame say
  Offsets,    \* offsets the calibrator may apply, in amperes
  TimeSteps,  \* seconds that may pass between two frames
  Jumps,      \* what an adjustment may add to the wall clock
  Files,      \* the configurations a start may find
  None,       \* a register the frame does not hold; no frame yet
  MaxFrames,  \* bound: integrated frames
  MaxJumps,   \* bound: adjustments of the clock
  MaxStarts   \* bound: starts of the process

LastSeries ==
  [ts : Int, current : Int, pack_v : Nat \cup {None}, balance_a : Int \cup {None},
   offset : Int]

Live == [ts : Int, current : Int, balance_a : Int \cup {None}]

ASSUME NoneAssumption == None \notin Int \cup LastSeries \cup Live
ASSUME ReadingsAssumption ==
  Readings \subseteq [current_a : Int \cup {None}, pack_v : Nat \cup {None},
                      balance_current_a : Int \cup {None}]
ASSUME ClockAssumption == TimeSteps \subseteq Nat /\ Jumps \subseteq Int
ASSUME OffsetsAssumption == 0 \in Offsets /\ Offsets \subseteq Int
ASSUME FilesAssumption == Files \subseteq Configs
ASSUME BoundAssumption == MaxFrames \in Nat /\ MaxJumps \in Nat /\ MaxStarts \in Nat

VARIABLES
  config,   \* the YAML file of this start
  last,     \* LastSeries: the last integrated frame, or None
  staged,   \* everything ever added to LastSeries.pending
  live,     \* Live of the calibrator: its last sample, or None
  dev,      \* DeviceState of the calibrator: x, cum_net_ah, cum_bal_ah
  now,      \* the wall clock
  elapsed,  \* history: seconds really passed since the last integrated frame
  seen      \* history: what the properties compare the totals with

vars == <<config, last, staged, live, dev, now, elapsed, seen>>

\* What a start makes of the file it finds, once and for all.
Started == [c \in Files |-> reset_out_of_range_to_defaults(c)]
opts == MetricsOptions(Started[config])
limits == PlausibilityLimits(Started[config])

Least(a, b) == IF a <= b THEN a ELSE b
AtLeastZero(a) == IF a >= 0 THEN a ELSE 0
Abs(a) == IF a >= 0 THEN a ELSE -a

-----------------------------------------------------------------------------
(* Splits.                                                                 *)

Nothing == [charge |-> 0, discharge |-> 0]

Net(split) == split.charge - split.discharge

Plus(a, b) == [charge |-> a.charge + b.charge, discharge |-> a.discharge + b.discharge]

\* Split::clamped: each side at most max, given in units of 3600 ampere- or
\* watt-seconds.  An infinite ceiling is none.
clamped(split, max) ==
  IF max = PosInf THEN split
  ELSE [charge |-> Least(split.charge, 2 * Hour * max),
        discharge |-> Least(split.discharge, 2 * Hour * max)]

\* Seeded fault: the distance of the clock readings, whichever is the later.
trapezoid_hours_abs(prev, cur, dt, max_gap) ==
  LET value == (prev + cur) * Least(Abs(dt), max_gap)
  IN  IF value >= 0 THEN [charge |-> value, discharge |-> 0]
                    ELSE [charge |-> 0, discharge |-> -value]

\* One side of the result is zero.
trapezoid_hours(prev, cur, dt, max_gap) ==
  IF dt <= 0 THEN Nothing
  ELSE LET value == (prev + cur) * Least(dt, max_gap)
       IN  IF value >= 0 THEN [charge |-> value, discharge |-> 0]
                         ELSE [charge |-> 0, discharge |-> -value]

-----------------------------------------------------------------------------
(***************************************************************************)
(* One frame d, with the offset the calibrator returned for it.            *)
(***************************************************************************)

\* Seeded fault: the magnitude of a discharge is not looked at.
implausible_charge(d) ==
  \/ d.current_a # None /\ lt(limits.max_current_a, d.current_a)
  \/ d.pack_v # None /\ (lt(d.pack_v, limits.pack_volts[1]) \/ lt(limits.pack_volts[2], d.pack_v))

\* RealtimeData::implausibility: values that are there must be within limits.
implausible(d) ==
  \/ d.current_a # None /\ lt(limits.max_current_a, Abs(d.current_a))
  \/ d.pack_v # None /\ (lt(d.pack_v, limits.pack_volts[1]) \/ lt(limits.pack_volts[2], d.pack_v))

\* The trapezoid from the last frame to this one, before the clamp.
Over(prev, cur) == trapezoid_hours(prev, cur, now - last.ts, opts.coulomb_max_gap_secs)

\* Seeded fault: only the new endpoint is corrected.
cal_prev_raw == last.current

\* The last current, less the offset in force when it was read.
cal_prev == last.current - last.offset

BothVolts(d) == last.pack_v # None /\ d.pack_v # None
BothBleeds(d) == last.balance_a # None /\ d.balance_current_a # None

\* The four directed quantities and the bleed over the interval, unclamped.
Integrals(d, offset) ==
  IF last = None
  THEN [ah |-> Nothing, cal_ah |-> Nothing, wh |-> Nothing, cal_wh |-> Nothing,
        balance_ah |-> Nothing]
  ELSE [ah |-> Over(last.current, d.current_a),
        cal_ah |-> Over(cal_prev, d.current_a - offset),
        wh |-> IF BothVolts(d)
               THEN Over(last.current * last.pack_v, d.current_a * d.pack_v)
               ELSE Nothing,
        cal_wh |-> IF BothVolts(d)
                   THEN Over(cal_prev * last.pack_v,
                             (d.current_a - offset) * d.pack_v)
                   ELSE Nothing,
        balance_ah |-> IF BothBleeds(d)
                       THEN Over(AtLeastZero(last.balance_a), AtLeastZero(d.balance_current_a))
                       ELSE Nothing]

\* The ceiling of each.
Ceiling(q) ==
  IF q \in {"wh", "cal_wh"} THEN opts.max_frame_watt_hours ELSE opts.max_frame_amp_hours

Quantities == {"ah", "cal_ah", "wh", "cal_wh", "balance_ah"}

\* Seeded fault: the voltage is remembered only where energy was integrated.
Remember_if_integrated(d, offset) ==
  [ts |-> now, current |-> d.current_a,
   pack_v |-> IF last = None \/ BothVolts(d) THEN d.pack_v ELSE None,
   balance_a |-> d.balance_current_a, offset |-> offset]

\* Seeded fault: the latest time ever read is remembered, not the last.
Remember_latest(d, offset) ==
  [ts |-> IF last # None /\ last.ts > now THEN last.ts ELSE now, current |-> d.current_a,
   pack_v |-> d.pack_v, balance_a |-> d.balance_current_a, offset |-> offset]

\* What the next interval starts from: absent readings included.
Remember(d, offset) ==
  [ts |-> now, current |-> d.current_a, pack_v |-> d.pack_v,
   balance_a |-> d.balance_current_a, offset |-> offset]

\* Calibrator::integrate, without the fit and the re-origin of x that goes with
\* it (Closure has both): the interval is clamped from both sides, and the
\* bleed is a magnitude here too.
integrate(d) ==
  LET dt == AtLeastZero(Least(now - live.ts, opts.calibration.max_gap_secs))
  IN  IF live = None THEN dev
      ELSE [x |-> dev.x + dt,
            net |-> dev.net + (live.current + d.current_a) * dt,
            bal |-> IF live.balance_a # None /\ d.balance_current_a # None
                    THEN dev.bal + (AtLeastZero(live.balance_a)
                                    + AtLeastZero(d.balance_current_a)) * dt
                    ELSE dev.bal]

\* The offset of this frame: whatever the calibrator returns, which may be more
\* than a bound lowered at this start, and none while the calibration is off.
MayApply(offset) == opts.calibration_enabled \/ offset = 0

-----------------------------------------------------------------------------
(***************************************************************************)
(* History.  It is kept beside the totals and read by no action.           *)
(***************************************************************************)

Unseen ==
  [frames |-> 0, jumps |-> 0, starts |-> 1,
   integrated |-> 0,    \* seconds of the wall clock that entered the totals
   covered |-> 0,       \* seconds that really passed between frames, cut at the gap
   allowance |-> 0,     \* one gap for every adjustment of the clock
   lit |-> 0,           \* integrated seconds that entered the energy totals
   dark |-> 0,          \* integrated seconds beside a frame without voltage
   volts |-> FALSE,     \* the last integrated frame held a voltage
   offset_area |-> 0,   \* trapezoids of the published offset
   cut |-> FALSE,       \* a ceiling has cut something
   clamps |-> {}]       \* quantities a ceiling has cut since the start

\* The seconds trapezoid_hours multiplies with.
Seconds == AtLeastZero(Least(now - last.ts, opts.coulomb_max_gap_secs))

Cut(d, offset) ==
  LET delta == Integrals(d, offset)
  IN  {q \in Quantities : clamped(delta[q], Ceiling(q)) # delta[q]}

Noted(d, offset) ==
  LET later == last # None
      gap == opts.coulomb_max_gap_secs
      cut == Cut(d, offset)
  IN  [seen EXCEPT
         !.frames = @ + 1,
         !.integrated = IF later THEN @ + Seconds ELSE @,
         !.covered = IF later THEN @ + Least(elapsed, gap) ELSE @,
         !.lit = IF later /\ BothVolts(d) THEN @ + Seconds ELSE @,
         !.dark = IF later /\ ~(seen.volts /\ d.pack_v # None) THEN @ + Seconds ELSE @,
         !.volts = d.pack_v # None,
         !.offset_area = IF later THEN @ + (last.offset + offset) * Seconds ELSE @,
         !.cut = @ \/ cut # {},
         !.clamps = @ \cup cut]

-----------------------------------------------------------------------------
Init ==
  /\ config \in Files
  /\ last = None
  /\ staged = [ah |-> Nothing, cal_ah |-> Nothing, wh |-> Nothing, cal_wh |-> Nothing,
               balance_ah |-> 0]
  /\ live = None
  /\ dev = [x |-> 0, net |-> 0, bal |-> 0]
  /\ now = 0
  /\ elapsed = 0
  /\ seen = Unseen

\* One realtime frame that passes the gate and holds a current.  The
\* calibrator comes first, on the raw reading.
accumulate_coulombs(d, offset) ==
  LET delta == Integrals(d, offset)
  IN  /\ seen.frames < MaxFrames
      /\ d.current_a # None /\ ~implausible(d)
      /\ MayApply(offset)
      /\ IF opts.calibration_enabled
         THEN /\ dev' = integrate(d)
              /\ live' = [ts |-> now, current |-> d.current_a,
                          balance_a |-> d.balance_current_a]
         ELSE UNCHANGED <<dev, live>>
      /\ staged' =
           [ah |-> Plus(staged.ah, clamped(delta.ah, Ceiling("ah"))),
            cal_ah |-> Plus(staged.cal_ah, clamped(delta.cal_ah, Ceiling("cal_ah"))),
            wh |-> Plus(staged.wh, clamped(delta.wh, Ceiling("wh"))),
            cal_wh |-> Plus(staged.cal_wh, clamped(delta.cal_wh, Ceiling("cal_wh"))),
            balance_ah |-> staged.balance_ah
                           + clamped(delta.balance_ah, Ceiling("balance_ah")).charge]
      /\ last' = Remember(d, offset)
      /\ elapsed' = 0
      /\ seen' = Noted(d, offset)
      /\ UNCHANGED <<config, now>>

\* A frame the gate drops, or one without a current, leaves no trace: the
\* next one integrates from the frame before it.
Drop(d) ==
  /\ d.current_a = None \/ implausible(d)
  /\ UNCHANGED vars

\* Time passes until the next frame.
Wait(t) ==
  /\ seen.frames < MaxFrames
  /\ elapsed = 0
  /\ elapsed' = t
  /\ now' = now + t
  /\ UNCHANGED <<config, last, staged, live, dev, seen>>

\* The wall clock is set, forwards or backwards.
ClockJump(j) ==
  /\ seen.frames < MaxFrames
  /\ seen.jumps < MaxJumps
  /\ now' = now + j
  /\ seen' = [seen EXCEPT !.jumps = @ + 1,
                          !.allowance = @ + opts.coulomb_max_gap_secs]
  /\ UNCHANGED <<config, last, staged, live, dev, elapsed>>

\* A restart, perhaps with another configuration: the totals and the
\* calibrator's integrals come back from the state file, the last frame does not.
restart(c) ==
  /\ seen.starts < MaxStarts
  /\ config' = c
  /\ last' = None
  /\ live' = None
  /\ elapsed' = 0
  /\ seen' = [seen EXCEPT !.starts = @ + 1, !.clamps = {}]
  /\ UNCHANGED <<staged, dev, now>>

Next ==
  \/ \E d \in Readings : Drop(d) \/ \E offset \in Offsets : accumulate_coulombs(d, offset)
  \/ \E t \in TimeSteps : Wait(t)
  \/ \E j \in Jumps : ClockJump(j)
  \/ \E c \in Files : restart(c)

Spec == Init /\ [][Next]_vars

-----------------------------------------------------------------------------
(***************************************************************************)
(* Properties.                                                             *)
(***************************************************************************)

\* A wall clock that is set costs at most one gap of accounting each time, in
\* either direction: whatever the jumps, the seconds that entered the counters
\* are those that really passed between frames, up to one gap per jump.
ClockJumpsCostOneGapEach == Abs(seen.integrated - seen.covered) <= seen.allowance

\* A missing pack voltage costs the energy of the two intervals beside it and
\* no more, while the amp-hours never stop: with the next two voltages the
\* energy counters run again, and never on a voltage that is older than the
\* current it is multiplied with.
EnergyMissesOnlyNeighbours == seen.lit + seen.dark = seen.integrated

\* The calibrated counters are the raw ones less the integral of the published
\* offset gauge, frame by frame: an offset that moves never rewrites the
\* interval before it moved, nor does switching the calibration on and off
\* between starts.
CalibratedIsRawLessOffset ==
  ~seen.cut =>
    Net(staged.cal_ah) = Net(staged.ah) - seen.offset_area

\* The estimator measures exactly what the counters measure (the comment
\* "the interval cap must match the counter's"): over every frame it sees, its
\* hours, net charge and bleed advance as the counters' do, but for what a
\* ceiling cuts off the counters.
EstimatorIntegratesTheSame ==
  [][opts.calibration_enabled /\ seen'.frames > seen.frames =>
       /\ dev'.x - dev.x = seen'.integrated - seen.integrated
       /\ "ah" \notin seen'.clamps =>
            dev'.net - dev.net = Net(staged'.ah) - Net(staged.ah)
       /\ "balance_ah" \notin seen'.clamps =>
            dev'.bal - dev.bal = staged'.balance_ah - staged.balance_ah]_vars

\* A configuration that start-up does not warn about never cuts a reading the
\* gate lets through: no comms gap is under-counted silently, nor where the
\* gate or a ceiling is infinite.  A ceiling in watt-hours that is not
\* positive is replaced after it was judged, and is left out.
UnwarnedNeverClamps ==
  LET warned == CeilingWarnings(config)
  IN  /\ "ah" \notin warned => "ah" \notin seen.clamps
      /\ "wh" \notin warned /\ Positive(config.max_frame_watt_hours) =>
           "wh" \notin seen.clamps

\* Whatever the file of this start spells, infinities and NaN included, the
\* process runs on a sane configuration (ResetIsSound).
RunsOnSaneConfig == ResetIsSound(config)

=============================================================================
