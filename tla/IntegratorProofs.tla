-------------------------- MODULE IntegratorProofs --------------------------
(***************************************************************************)
(* What holds of the integration of a device for all readings, offsets,    *)
(* clocks and configuration files.                                         *)
(***************************************************************************)
EXTENDS Integrator, TLAPS

-----------------------------------------------------------------------------
(* The configuration.                                                      *)

Knob(ok, value, default) == IF ok THEN value ELSE default

Knobs ==
  {"coulomb_state_min_interval_secs",
   "max_plausible_current_amperes",
   "min_plausible_pack_volts",
   "max_plausible_pack_volts",
   "max_frame_amp_hours",
   "max_frame_watt_hours",
   "coulomb_max_gap_secs",
   "calibration_enabled",
   "calibration_tau_hours",
   "calibration_min_span_hours",
   "calibration_max_offset_amperes",
   "calibration_max_anchor_error_amperes",
   "calibration_peer_max_disagreement_amperes"}

IsRecord(c) == c = [k \in Knobs |-> c[k]]

\* Whatever the first half writes, its result is a record of the same fields.
LEMMA FirstHalfIsRecord ==
  ASSUME NEW c, NEW S, c = [k \in S |-> c[k]],
         NEW v1, NEW v2, NEW v3, NEW v4, NEW v5, NEW v6,
         NEW r, r = [c EXCEPT !.coulomb_state_min_interval_secs = v1,
                              !.max_plausible_current_amperes = v2,
                              !.min_plausible_pack_volts = v3,
                              !.max_plausible_pack_volts = v4,
                              !.max_frame_amp_hours = v5,
                              !.max_frame_watt_hours = v6]
  PROVE  r = [k \in S |-> r[k]]
  OBVIOUS

\* What the two halves of the reset do, knob by knob.
LEMMA SecondHalf ==
  ASSUME NEW c, IsRecord(c)
  PROVE  LET r == reset_calibration_out_of_range(c)
         IN  /\ IsRecord(r)
             /\ r.coulomb_state_min_interval_secs = c.coulomb_state_min_interval_secs
             /\ r.max_plausible_current_amperes = c.max_plausible_current_amperes
             /\ r.min_plausible_pack_volts = c.min_plausible_pack_volts
             /\ r.max_plausible_pack_volts = c.max_plausible_pack_volts
             /\ r.max_frame_amp_hours = c.max_frame_amp_hours
             /\ r.max_frame_watt_hours = c.max_frame_watt_hours
             /\ r.coulomb_max_gap_secs = c.coulomb_max_gap_secs
             /\ r.calibration_enabled = c.calibration_enabled
             /\ r.calibration_tau_hours =
                  Knob(Positive(c.calibration_tau_hours),
                       c.calibration_tau_hours, Default.calibration_tau_hours)
             /\ r.calibration_min_span_hours =
                  Knob(NotNegative(c.calibration_min_span_hours),
                       c.calibration_min_span_hours, Default.calibration_min_span_hours)
             /\ r.calibration_max_offset_amperes =
                  Knob(NotNegative(c.calibration_max_offset_amperes),
                       c.calibration_max_offset_amperes, Default.calibration_max_offset_amperes)
             /\ r.calibration_max_anchor_error_amperes =
                  Knob(NotNegative(c.calibration_max_anchor_error_amperes),
                       c.calibration_max_anchor_error_amperes, Default.calibration_max_anchor_error_amperes)
             /\ r.calibration_peer_max_disagreement_amperes =
                  Knob(Positive(c.calibration_peer_max_disagreement_amperes),
                       c.calibration_peer_max_disagreement_amperes, Default.calibration_peer_max_disagreement_amperes)
  BY DEF reset_calibration_out_of_range, Knob, Knobs, IsRecord

LEMMA ResetFields ==
  ASSUME NEW c, IsRecord(c)
  PROVE  LET r == reset_out_of_range_to_defaults(c)
         IN  /\ IsRecord(r)
             /\ r.coulomb_max_gap_secs = c.coulomb_max_gap_secs
             /\ r.calibration_enabled = c.calibration_enabled
             /\ r.coulomb_state_min_interval_secs =
                  Knob(c.coulomb_state_min_interval_secs \in 1..3600,
                       c.coulomb_state_min_interval_secs, Default.coulomb_state_min_interval_secs)
             /\ r.max_plausible_current_amperes =
                  Knob(Positive(c.max_plausible_current_amperes),
                       c.max_plausible_current_amperes, Default.max_plausible_current_amperes)
             /\ r.min_plausible_pack_volts =
                  Knob(IsWindow(c.min_plausible_pack_volts, c.max_plausible_pack_volts),
                       c.min_plausible_pack_volts, Default.min_plausible_pack_volts)
             /\ r.max_plausible_pack_volts =
                  Knob(IsWindow(c.min_plausible_pack_volts, c.max_plausible_pack_volts),
                       c.max_plausible_pack_volts, Default.max_plausible_pack_volts)
             /\ r.max_frame_amp_hours =
                  Knob(Positive(c.max_frame_amp_hours),
                       c.max_frame_amp_hours, Default.max_frame_amp_hours)
             /\ r.max_frame_watt_hours =
                  Knob(Positive(c.max_frame_watt_hours),
                       c.max_frame_watt_hours, Default.max_frame_watt_hours)
             /\ r.calibration_tau_hours =
                  Knob(Positive(c.calibration_tau_hours),
                       c.calibration_tau_hours, Default.calibration_tau_hours)
             /\ r.calibration_min_span_hours =
                  Knob(NotNegative(c.calibration_min_span_hours),
                       c.calibration_min_span_hours, Default.calibration_min_span_hours)
             /\ r.calibration_max_offset_amperes =
                  Knob(NotNegative(c.calibration_max_offset_amperes),
                       c.calibration_max_offset_amperes, Default.calibration_max_offset_amperes)
             /\ r.calibration_max_anchor_error_amperes =
                  Knob(NotNegative(c.calibration_max_anchor_error_amperes),
                       c.calibration_max_anchor_error_amperes, Default.calibration_max_anchor_error_amperes)
             /\ r.calibration_peer_max_disagreement_amperes =
                  Knob(Positive(c.calibration_peer_max_disagreement_amperes),
                       c.calibration_peer_max_disagreement_amperes, Default.calibration_peer_max_disagreement_amperes)
<1> DEFINE window == IsWindow(c.min_plausible_pack_volts, c.max_plausible_pack_volts)
           first ==
             [c EXCEPT
                !.coulomb_state_min_interval_secs =
                   IF @ \in 1..3600 THEN @ ELSE Default.coulomb_state_min_interval_secs,
                !.max_plausible_current_amperes =
                   IF Positive(@) THEN @ ELSE Default.max_plausible_current_amperes,
                !.min_plausible_pack_volts =
                   IF window THEN @ ELSE Default.min_plausible_pack_volts,
                !.max_plausible_pack_volts =
                   IF window THEN @ ELSE Default.max_plausible_pack_volts,
                !.max_frame_amp_hours =
                   IF Positive(@) THEN @ ELSE Default.max_frame_amp_hours,
                !.max_frame_watt_hours =
                   IF Positive(@) THEN @ ELSE Default.max_frame_watt_hours]
<1> HIDE DEF window
<1>1. IsRecord(first)
  <2> DEFINE v1 == IF c.coulomb_state_min_interval_secs \in 1..3600
                   THEN c.coulomb_state_min_interval_secs
                   ELSE Default.coulomb_state_min_interval_secs
             v2 == IF Positive(c.max_plausible_current_amperes)
                   THEN c.max_plausible_current_amperes
                   ELSE Default.max_plausible_current_amperes
             v3 == IF window THEN c.min_plausible_pack_volts
                             ELSE Default.min_plausible_pack_volts
             v4 == IF window THEN c.max_plausible_pack_volts
                             ELSE Default.max_plausible_pack_volts
             v5 == IF Positive(c.max_frame_amp_hours) THEN c.max_frame_amp_hours
                   ELSE Default.max_frame_amp_hours
             v6 == IF Positive(c.max_frame_watt_hours) THEN c.max_frame_watt_hours
                   ELSE Default.max_frame_watt_hours
  <2>1. first = [c EXCEPT !.coulomb_state_min_interval_secs = v1,
                          !.max_plausible_current_amperes = v2,
                          !.min_plausible_pack_volts = v3,
                          !.max_plausible_pack_volts = v4,
                          !.max_frame_amp_hours = v5,
                          !.max_frame_watt_hours = v6]
    OBVIOUS
  <2> HIDE DEF v1, v2, v3, v4, v5, v6, first
  <2>2. c = [k \in Knobs |-> c[k]]
    BY DEF IsRecord
  <2> HIDE DEF Knobs
  <2>3. first = [k \in Knobs |-> first[k]]
    BY <2>1, <2>2, FirstHalfIsRecord, Zenon
  <2> QED BY <2>3 DEF IsRecord
<1>2. /\ first.coulomb_max_gap_secs = c.coulomb_max_gap_secs
     /\ first.calibration_enabled = c.calibration_enabled
     /\ first.calibration_tau_hours = c.calibration_tau_hours
     /\ first.calibration_min_span_hours = c.calibration_min_span_hours
     /\ first.calibration_max_offset_amperes = c.calibration_max_offset_amperes
     /\ first.calibration_max_anchor_error_amperes = c.calibration_max_anchor_error_amperes
     /\ first.calibration_peer_max_disagreement_amperes = c.calibration_peer_max_disagreement_amperes
  BY DEF Knob, Knobs, IsRecord
<1>3. /\ first.coulomb_state_min_interval_secs =
          Knob(c.coulomb_state_min_interval_secs \in 1..3600,
               c.coulomb_state_min_interval_secs, Default.coulomb_state_min_interval_secs)
     /\ first.max_plausible_current_amperes =
          Knob(Positive(c.max_plausible_current_amperes),
               c.max_plausible_current_amperes, Default.max_plausible_current_amperes)
  BY DEF Knob, Knobs, IsRecord
<1>4. /\ first.min_plausible_pack_volts =
          Knob(window,
               c.min_plausible_pack_volts, Default.min_plausible_pack_volts)
     /\ first.max_plausible_pack_volts =
          Knob(window,
               c.max_plausible_pack_volts, Default.max_plausible_pack_volts)
  BY DEF Knob, Knobs, IsRecord
<1>5. /\ first.max_frame_amp_hours =
          Knob(Positive(c.max_frame_amp_hours),
               c.max_frame_amp_hours, Default.max_frame_amp_hours)
     /\ first.max_frame_watt_hours =
          Knob(Positive(c.max_frame_watt_hours),
               c.max_frame_watt_hours, Default.max_frame_watt_hours)
  BY DEF Knob, Knobs, IsRecord
<1>6. reset_out_of_range_to_defaults(c) = reset_calibration_out_of_range(first)
  BY DEF reset_out_of_range_to_defaults, window
<1> USE DEF window
<1> HIDE DEF first
<1> QED BY <1>1, <1>2, <1>3, <1>4, <1>5, <1>6, SecondHalf

LEMMA DefaultValues ==
  /\ IsRecord(Default)
  /\ Default.coulomb_state_min_interval_secs = 5
  /\ Default.max_plausible_current_amperes = 100
  /\ Default.min_plausible_pack_volts = 18 /\ Default.max_plausible_pack_volts = 34
  /\ Default.max_frame_amp_hours = 25 /\ Default.max_frame_watt_hours = 900
  /\ Default.calibration_tau_hours = 1440 /\ Default.calibration_min_span_hours = 168
  /\ Default.calibration_max_offset_amperes = 500
  /\ Default.calibration_max_anchor_error_amperes = 50
  /\ Default.calibration_peer_max_disagreement_amperes = 250
  BY DEF Default, IsRecord, Knobs

LEMMA ConfigFields ==
  ASSUME NEW c \in Configs
  PROVE  /\ IsRecord(c)
         /\ c.coulomb_state_min_interval_secs \in Nat /\ c.coulomb_max_gap_secs \in Nat
         /\ c.max_plausible_current_amperes \in Float
         /\ c.min_plausible_pack_volts \in Float
         /\ c.max_plausible_pack_volts \in Float
         /\ c.max_frame_amp_hours \in Float
         /\ c.max_frame_watt_hours \in Float
         /\ c.calibration_tau_hours \in Float
         /\ c.calibration_min_span_hours \in Float
         /\ c.calibration_max_offset_amperes \in Float
         /\ c.calibration_max_anchor_error_amperes \in Float
         /\ c.calibration_peer_max_disagreement_amperes \in Float
  BY DEF Configs, IsRecord, Knobs

\* A float that compares above zero passes the test of the reset, and so on.
LEMMA InRangePasses ==
  ASSUME NEW v, NEW w
  PROVE  /\ lt(0, v) => Positive(v)
         /\ le(0, v) => NotNegative(v)
         /\ lt(v, w) => IsWindow(v, w)
  BY FloatAssumption DEF Positive, NotNegative, IsWindow, lt, le

\* A float that passes the test is above zero, and so on.
LEMMA PassingIsInRange ==
  ASSUME NEW v \in Float, NEW w \in Float
  PROVE  /\ Positive(v) => lt(0, v)
         /\ NotNegative(v) => le(0, v)
         /\ IsWindow(v, w) => lt(v, w)
  BY FloatAssumption DEF Positive, NotNegative, IsWindow, lt, le, Float

\* The infinities among the others: what is above zero is one or a number.
LEMMA AboveZero ==
  ASSUME NEW v, lt(0, v)
  PROVE  v = PosInf \/ v \in Nat \ {0}
  BY FloatAssumption DEF lt, le

\* A file in range is left alone.
LEMMA SaneIsKept ==
  ASSUME NEW c, IsRecord(c), Sane(c)
  PROVE  reset_out_of_range_to_defaults(c) = c
<1> DEFINE r == reset_out_of_range_to_defaults(c)
<1>1. /\ IsRecord(r)
      /\ r.coulomb_max_gap_secs = c.coulomb_max_gap_secs
      /\ r.calibration_enabled = c.calibration_enabled
      /\ r.coulomb_state_min_interval_secs = c.coulomb_state_min_interval_secs
      /\ r.max_plausible_current_amperes = c.max_plausible_current_amperes
      /\ r.min_plausible_pack_volts = c.min_plausible_pack_volts
      /\ r.max_plausible_pack_volts = c.max_plausible_pack_volts
      /\ r.max_frame_amp_hours = c.max_frame_amp_hours
      /\ r.max_frame_watt_hours = c.max_frame_watt_hours
      /\ r.calibration_tau_hours = c.calibration_tau_hours
      /\ r.calibration_min_span_hours = c.calibration_min_span_hours
      /\ r.calibration_max_offset_amperes = c.calibration_max_offset_amperes
      /\ r.calibration_max_anchor_error_amperes = c.calibration_max_anchor_error_amperes
      /\ r.calibration_peer_max_disagreement_amperes = c.calibration_peer_max_disagreement_amperes
  <2> HIDE DEF r
  <2>1. r = reset_out_of_range_to_defaults(c)
    BY DEF r
  <2>2. /\ c.coulomb_state_min_interval_secs \in 1..3600
        /\ Positive(c.max_plausible_current_amperes)
        /\ IsWindow(c.min_plausible_pack_volts, c.max_plausible_pack_volts)
        /\ Positive(c.max_frame_amp_hours) /\ Positive(c.max_frame_watt_hours)
        /\ Positive(c.calibration_tau_hours) /\ NotNegative(c.calibration_min_span_hours)
        /\ NotNegative(c.calibration_max_offset_amperes)
        /\ NotNegative(c.calibration_max_anchor_error_amperes)
        /\ Positive(c.calibration_peer_max_disagreement_amperes)
    BY InRangePasses DEF Sane
  <2> QED BY <2>1, <2>2, ResetFields DEF Knob
<1> HIDE DEF r
<1>2. \A k \in Knobs : r[k] = c[k]
  BY <1>1 DEF Knobs
<1>3. r = c
  BY <1>1, <1>2 DEF IsRecord
<1> QED BY <1>3 DEF r

\* What a file spells is either in range already or replaced by a default that is.
LEMMA ResetIsSane ==
  ASSUME NEW c \in Configs
  PROVE  /\ Sane(reset_out_of_range_to_defaults(c))
         /\ IsRecord(reset_out_of_range_to_defaults(c))
         /\ reset_out_of_range_to_defaults(c).coulomb_max_gap_secs \in Nat
         /\ reset_out_of_range_to_defaults(c).max_plausible_pack_volts \in Float
<1> DEFINE r == reset_out_of_range_to_defaults(c)
<1> HIDE DEF r
<1>1. r = reset_out_of_range_to_defaults(c)
  BY DEF r
<1>2. IsRecord(c)
  BY ConfigFields
<1>2a. /\ lt(0, 100) /\ lt(0, 25) /\ lt(0, 900) /\ lt(0, 1440) /\ lt(0, 250)
       /\ le(0, 168) /\ le(0, 500) /\ le(0, 50) /\ lt(18, 34)
  BY FloatAssumption DEF lt, le
<1>3. /\ r.coulomb_state_min_interval_secs \in 1..3600
      /\ lt(r.min_plausible_pack_volts, r.max_plausible_pack_volts)
  BY <1>1, <1>2, <1>2a, ResetFields, ConfigFields, DefaultValues, PassingIsInRange DEF Knob
<1>4. /\ lt(0, r.max_plausible_current_amperes)
      /\ lt(0, r.max_frame_amp_hours)
      /\ lt(0, r.max_frame_watt_hours)
  BY <1>1, <1>2, <1>2a, ResetFields, ConfigFields, DefaultValues, PassingIsInRange DEF Knob
<1>5. /\ lt(0, r.calibration_tau_hours)
      /\ lt(0, r.calibration_peer_max_disagreement_amperes)
  BY <1>1, <1>2, <1>2a, ResetFields, ConfigFields, DefaultValues, PassingIsInRange DEF Knob
<1>6. /\ le(0, r.calibration_min_span_hours)
      /\ le(0, r.calibration_max_offset_amperes)
      /\ le(0, r.calibration_max_anchor_error_amperes)
  BY <1>1, <1>2, <1>2a, ResetFields, ConfigFields, DefaultValues, PassingIsInRange DEF Knob
<1>7. IsRecord(r) /\ r.coulomb_max_gap_secs \in Nat /\ r.max_plausible_pack_volts \in Float
  BY <1>1, <1>2, ResetFields, ConfigFields, DefaultValues DEF Knob, Float
<1>8. Sane(r)
  BY <1>3, <1>4, <1>5, <1>6 DEF Sane
<1> QED BY <1>1, <1>7, <1>8

\* Whatever floats a file spells, infinities and NaN included, start-up leaves a
\* configuration in range, takes one that is in range as it stands, and would
\* find nothing to do a second time.
THEOREM ResetSound == \A c \in Configs : ResetIsSound(c)
<1> SUFFICES ASSUME NEW c \in Configs PROVE ResetIsSound(c)
  OBVIOUS
<1>1. IsRecord(c)
  BY ConfigFields
<1>2. Sane(c) => reset_out_of_range_to_defaults(c) = c
  BY <1>1, SaneIsKept
<1>3. reset_out_of_range_to_defaults(reset_out_of_range_to_defaults(c))
        = reset_out_of_range_to_defaults(c)
  BY ResetIsSane, SaneIsKept
<1> QED BY <1>2, <1>3, ResetIsSane, Zenon DEF ResetIsSound

-----------------------------------------------------------------------------
(* The options and the limits of a start.                                  *)

\* What bounds a current or a frame: a number, or nothing.
Limit == (Nat \ {0}) \cup {PosInf}

LEMMA Options ==
  ASSUME config \in Files
  PROVE  /\ opts.coulomb_max_gap_secs \in Nat
         /\ opts.calibration.max_gap_secs = opts.coulomb_max_gap_secs
         /\ opts.max_frame_amp_hours \in Limit /\ opts.max_frame_watt_hours \in Limit
         /\ limits.max_current_a \in Limit
<1> DEFINE r == reset_out_of_range_to_defaults(config)
<1>1. Sane(r) /\ r.coulomb_max_gap_secs \in Nat
  BY ResetIsSane, FilesAssumption
<1> HIDE DEF r
<1>2. /\ r.max_frame_amp_hours \in Limit /\ r.max_frame_watt_hours \in Limit
      /\ r.max_plausible_current_amperes \in Limit
  BY <1>1, AboveZero DEF Sane, Limit
<1>3. opts = MetricsOptions(r) /\ limits = PlausibilityLimits(r)
  BY DEF r, opts, limits, Started
<1> QED BY <1>1, <1>2, <1>3 DEF MetricsOptions, PlausibilityLimits

-----------------------------------------------------------------------------
(* Trapezoids.                                                             *)

\* One side is zero, and the difference of the sides is the signed trapezoid.
LEMMA Trapezoid ==
  ASSUME NEW a \in Int, NEW b \in Int, NEW dt \in Int, NEW gap \in Nat
  PROVE  LET t == trapezoid_hours(a, b, dt, gap)
             s == AtLeastZero(Least(dt, gap))
         IN  /\ s \in Nat /\ s <= gap
             /\ t.charge \in Nat /\ t.discharge \in Nat
             /\ Net(t) = (a + b) * s
             /\ a + b >= 0 => t.charge = (a + b) * s
             /\ t.charge = 0 \/ t.discharge = 0
<1>1. CASE dt <= 0
  <2>1. AtLeastZero(Least(dt, gap)) = 0
    BY <1>1 DEF AtLeastZero, Least
  <2>2. trapezoid_hours(a, b, dt, gap) = [charge |-> 0, discharge |-> 0]
    BY <1>1 DEF trapezoid_hours, Nothing
  <2> QED BY <2>1, <2>2 DEF Net
<1>2. CASE dt > 0
  <2> DEFINE s == Least(dt, gap)
             value == (a + b) * s
  <2>1. s \in Nat /\ s <= gap /\ AtLeastZero(Least(dt, gap)) = s
    BY <1>2 DEF AtLeastZero, Least
  <2>2. trapezoid_hours(a, b, dt, gap)
          = IF value >= 0 THEN [charge |-> value, discharge |-> 0]
                          ELSE [charge |-> 0, discharge |-> -value]
    BY <1>2 DEF trapezoid_hours
  <2> HIDE DEF s
  <2>3. value \in Int /\ (a + b >= 0 => value >= 0)
    BY <2>1
  <2> HIDE DEF value
  <2>4. value = (a + b) * s
    BY DEF value
  <2> QED BY <2>1, <2>2, <2>3, <2>4 DEF Net
<1> QED BY <1>1, <1>2

-----------------------------------------------------------------------------
(***************************************************************************)
(* The invariant.                                                          *)
(***************************************************************************)

IsSplit(split) == split.charge \in Int /\ split.discharge \in Int

SeenFields ==
  {"frames", "jumps", "starts", "integrated", "covered", "allowance", "lit", "dark",
   "volts", "offset_area", "cut", "clamps"}

SeenTypes ==
  /\ seen = [k \in SeenFields |-> seen[k]]
  /\ seen.frames \in Nat /\ seen.jumps \in Nat /\ seen.starts \in Nat
  /\ seen.integrated \in Int /\ seen.covered \in Int /\ seen.allowance \in Int
  /\ seen.lit \in Int /\ seen.dark \in Int /\ seen.offset_area \in Int

TotalTypes ==
  /\ IsSplit(staged.ah) /\ IsSplit(staged.cal_ah)
  /\ staged.balance_ah \in Int
  /\ dev.x \in Int /\ dev.net \in Int /\ dev.bal \in Int

FrameTypes ==
  /\ config \in Files
  /\ last \in LastSeries \cup {None}
  /\ live \in Live \cup {None}
  /\ now \in Int /\ elapsed \in Nat

\* A clock that does not agree with the time since the last frame has been set
\* since, and the gap that costs is in the allowance already.
ClockDebt ==
  Abs(seen.integrated - seen.covered)
    + (IF last # None /\ now - last.ts # elapsed THEN opts.coulomb_max_gap_secs ELSE 0)
  <= seen.allowance

\* The last frame held a voltage exactly if one is remembered.
VoltsRemembered == last # None => (seen.volts <=> last.pack_v # None)

\* With the calibration on, both samplers stand at the same frame.
SameSample ==
  opts.calibration_enabled =>
    /\ last = None <=> live = None
    /\ last # None =>
         /\ live.ts = last.ts /\ live.current = last.current
         /\ live.balance_a = last.balance_a

\* What is remembered has passed the gate of this start.
LastPassed ==
  last # None =>
    /\ le(Abs(last.current), limits.max_current_a)
    /\ last.pack_v # None => le(last.pack_v, limits.pack_volts[2])

IntegratorInv ==
  /\ FrameTypes /\ SeenTypes /\ TotalTypes
  /\ ClockDebt
  /\ EnergyMissesOnlyNeighbours /\ VoltsRemembered
  /\ CalibratedIsRawLessOffset
  /\ SameSample
  /\ LastPassed /\ UnwarnedNeverClamps

-----------------------------------------------------------------------------
(* One frame.                                                              *)

LEMMA LastFields ==
  ASSUME FrameTypes, last # None
  PROVE  /\ last.ts \in Int /\ last.current \in Int /\ last.offset \in Int
         /\ last.pack_v \in Nat \cup {None} /\ last.balance_a \in Int \cup {None}
         /\ now \in Int /\ opts.coulomb_max_gap_secs \in Nat
  BY Options DEF FrameTypes, LastSeries

LEMMA ReadingFields ==
  ASSUME NEW d \in Readings, d.current_a # None
  PROVE  /\ d.current_a \in Int /\ d.pack_v \in Nat \cup {None}
         /\ d.balance_current_a \in Int \cup {None}
  BY ReadingsAssumption

LEMMA SecondsInGap ==
  ASSUME FrameTypes, last # None
  PROVE  Seconds \in Nat /\ Seconds <= opts.coulomb_max_gap_secs
<1>1. now - last.ts \in Int /\ opts.coulomb_max_gap_secs \in Nat
  BY LastFields
<1> QED BY <1>1 DEF Seconds, AtLeastZero, Least

LEMMA OverIs ==
  ASSUME FrameTypes, last # None, NEW a \in Int, NEW b \in Int
  PROVE  /\ Over(a, b).charge \in Nat /\ Over(a, b).discharge \in Nat
         /\ Net(Over(a, b)) = (a + b) * Seconds
         /\ a + b >= 0 => Over(a, b).charge = (a + b) * Seconds
         /\ Over(a, b).charge = 0 \/ Over(a, b).discharge = 0
<1>1. now - last.ts \in Int /\ opts.coulomb_max_gap_secs \in Nat
  BY LastFields
<1> DEFINE dt == now - last.ts
           gap == opts.coulomb_max_gap_secs
<1>2. Over(a, b) = trapezoid_hours(a, b, dt, gap) /\ Seconds = AtLeastZero(Least(dt, gap))
  BY DEF Over, Seconds
<1>3. dt \in Int /\ gap \in Nat
  BY <1>1
<1> HIDE DEF dt, gap
<1>4. LET t == trapezoid_hours(a, b, dt, gap)
          s == AtLeastZero(Least(dt, gap))
      IN  /\ t.charge \in Nat /\ t.discharge \in Nat
          /\ Net(t) = (a + b) * s
          /\ a + b >= 0 => t.charge = (a + b) * s
          /\ t.charge = 0 \/ t.discharge = 0
  BY <1>3, Trapezoid
<1> QED BY <1>2, <1>4, Zenon

LEMMA NothingIs ==
  /\ Nothing.charge = 0 /\ Nothing.discharge = 0 /\ Net(Nothing) = 0
  BY DEF Nothing, Net

\* The charge of a frame, raw and calibrated.
LEMMA FrameCharge ==
  ASSUME FrameTypes, NEW d \in Readings, d.current_a # None, NEW offset \in Offsets
  PROVE  LET delta == Integrals(d, offset)
         IN  /\ IsSplit(delta.ah) /\ IsSplit(delta.cal_ah)
             /\ delta.ah.charge >= 0 /\ delta.ah.discharge >= 0
             /\ delta.cal_ah.charge >= 0 /\ delta.cal_ah.discharge >= 0
             /\ last = None => Net(delta.ah) = 0 /\ Net(delta.cal_ah) = 0
             /\ last # None =>
                  /\ Net(delta.ah) = (last.current + d.current_a) * Seconds
                  /\ Net(delta.cal_ah)
                       = (last.current + d.current_a) * Seconds
                         - (last.offset + offset) * Seconds
<1>1. d.current_a \in Int /\ offset \in Int
  BY ReadingFields, OffsetsAssumption
<1>2. CASE last = None
  <2>1. Integrals(d, offset).ah = Nothing /\ Integrals(d, offset).cal_ah = Nothing
    BY <1>2 DEF Integrals
  <2> QED BY <1>2, <2>1, NothingIs DEF IsSplit
<1>3. CASE last # None
  <2>1. /\ Integrals(d, offset).ah = Over(last.current, d.current_a)
        /\ Integrals(d, offset).cal_ah = Over(last.current - last.offset, d.current_a - offset)
    BY <1>3 DEF Integrals, cal_prev
  <2>2. last.current \in Int /\ last.offset \in Int /\ Seconds \in Nat
    BY <1>3, LastFields, SecondsInGap
  <2>3. ((last.current - last.offset) + (d.current_a - offset)) * Seconds
          = (last.current + d.current_a) * Seconds - (last.offset + offset) * Seconds
    <3> \A a, b, e, f, t \in Int :
           ((a - e) + (b - f)) * t = (a + b) * t - (e + f) * t
      OBVIOUS
    <3> QED BY <1>1, <2>2
  <2>4. last.current - last.offset \in Int /\ d.current_a - offset \in Int
    BY <1>1, <2>2
  <2>5. /\ Over(last.current, d.current_a).charge \in Nat
        /\ Over(last.current, d.current_a).discharge \in Nat
        /\ Net(Over(last.current, d.current_a)) = (last.current + d.current_a) * Seconds
    BY <1>1, <1>3, <2>2, OverIs
  <2>6. /\ Over(last.current - last.offset, d.current_a - offset).charge \in Nat
        /\ Over(last.current - last.offset, d.current_a - offset).discharge \in Nat
        /\ Net(Over(last.current - last.offset, d.current_a - offset))
             = ((last.current - last.offset) + (d.current_a - offset)) * Seconds
    BY <1>3, <2>4, OverIs
  <2> QED BY <1>3, <2>1, <2>3, <2>5, <2>6 DEF IsSplit
<1> QED BY <1>2, <1>3

\* A ceiling only ever takes away.
LEMMA ClampedTypes ==
  ASSUME NEW split, IsSplit(split), NEW max \in Limit
  PROVE  IsSplit(clamped(split, max))
<1>1. CASE max = PosInf
  BY <1>1 DEF clamped
<1>2. CASE max # PosInf
  <2>1. 2 * Hour * max \in Nat
    BY <1>2 DEF Hour, Limit
  <2> QED BY <1>2, <2>1 DEF IsSplit, clamped, Least
<1> QED BY <1>1, <1>2

LEMMA PlusTypes ==
  ASSUME NEW a, NEW b, IsSplit(a), IsSplit(b)
  PROVE  IsSplit(Plus(a, b)) /\ Net(Plus(a, b)) = Net(a) + Net(b)
  BY DEF IsSplit, Plus, Net

\* The bleed of a frame.
LEMMA FrameBleed ==
  ASSUME FrameTypes, NEW d \in Readings, d.current_a # None, NEW offset \in Offsets
  PROVE  LET delta == Integrals(d, offset)
         IN  /\ IsSplit(delta.balance_ah)
             /\ delta.balance_ah.charge =
                  IF last # None /\ BothBleeds(d)
                  THEN (AtLeastZero(last.balance_a) + AtLeastZero(d.balance_current_a)) * Seconds
                  ELSE 0
<1>1. CASE last = None
  <2>1. Integrals(d, offset).balance_ah = Nothing
    BY <1>1 DEF Integrals
  <2> QED BY <1>1, <2>1, NothingIs DEF IsSplit
<1>2. CASE last # None /\ ~BothBleeds(d)
  <2>1. Integrals(d, offset).balance_ah = Nothing
    BY <1>2 DEF Integrals
  <2> QED BY <1>2, <2>1, NothingIs DEF IsSplit
<1>3. CASE last # None /\ BothBleeds(d)
  <2> DEFINE a == AtLeastZero(last.balance_a)
             b == AtLeastZero(d.balance_current_a)
  <2>1. Integrals(d, offset).balance_ah = Over(a, b)
    BY <1>3 DEF Integrals
  <2>2. last.balance_a \in Int /\ d.balance_current_a \in Int
    BY <1>3, LastFields, ReadingFields DEF BothBleeds
  <2>3. a \in Nat /\ b \in Nat
    BY <2>2 DEF AtLeastZero
  <2> HIDE DEF a, b
  <2>4. a \in Int /\ b \in Int /\ a + b >= 0
    BY <2>3
  <2>5. Over(a, b).charge = (a + b) * Seconds /\ IsSplit(Over(a, b))
    <3>1. last # None
      BY <1>3
    <3>2. Over(a, b).charge \in Nat /\ Over(a, b).discharge \in Nat
      BY <2>4, <3>1, OverIs
    <3>3. Over(a, b).charge = (a + b) * Seconds
      BY <2>4, <3>1, OverIs
    <3> QED BY <3>2, <3>3 DEF IsSplit
  <2> QED BY <1>3, <2>1, <2>5 DEF a, b
<1> QED BY <1>1, <1>2, <1>3

\* What a frame writes into the history is a record of the same fields.
LEMMA NotedIsRecord ==
  ASSUME NEW s, NEW S, s = [k \in S |-> s[k]],
         NEW v1, NEW v2, NEW v3, NEW v4, NEW v5, NEW v6, NEW v7, NEW v8, NEW v9,
         NEW r, r = [s EXCEPT !.frames = v1, !.integrated = v2, !.covered = v3,
                              !.lit = v4, !.dark = v5, !.volts = v6,
                              !.offset_area = v7, !.cut = v8, !.clamps = v9]
  PROVE  r = [k \in S |-> r[k]]
  OBVIOUS

LEMMA NotedFields ==
  ASSUME SeenTypes, NEW d, NEW offset
  PROVE  LET r == Noted(d, offset)
         IN  /\ r = [k \in SeenFields |-> r[k]]
             /\ r.frames = seen.frames + 1
             /\ r.jumps = seen.jumps /\ r.starts = seen.starts
             /\ r.allowance = seen.allowance
             /\ r.integrated = seen.integrated + (IF last # None THEN Seconds ELSE 0)
             /\ r.covered = seen.covered
                  + (IF last # None THEN Least(elapsed, opts.coulomb_max_gap_secs) ELSE 0)
             /\ r.lit = seen.lit + (IF last # None /\ BothVolts(d) THEN Seconds ELSE 0)
             /\ r.dark = seen.dark
                  + (IF last # None /\ ~(seen.volts /\ d.pack_v # None) THEN Seconds ELSE 0)
             /\ r.volts = (d.pack_v # None)
             /\ r.offset_area = seen.offset_area
                  + (IF last # None THEN (last.offset + offset) * Seconds ELSE 0)
             /\ r.cut = (seen.cut \/ Cut(d, offset) # {})
             /\ r.clamps = seen.clamps \cup Cut(d, offset)
<1> DEFINE later == last # None
           gap == opts.coulomb_max_gap_secs
           r == Noted(d, offset)
           v1 == seen.frames + 1
           v2 == IF later THEN seen.integrated + Seconds ELSE seen.integrated
           v3 == IF later THEN seen.covered + Least(elapsed, gap) ELSE seen.covered
           v4 == IF later /\ BothVolts(d) THEN seen.lit + Seconds ELSE seen.lit
           v5 == IF later /\ ~(seen.volts /\ d.pack_v # None) THEN seen.dark + Seconds
                                                             ELSE seen.dark
           v6 == d.pack_v # None
           v7 == IF later THEN seen.offset_area + (last.offset + offset) * Seconds
                          ELSE seen.offset_area
           v8 == seen.cut \/ Cut(d, offset) # {}
           v9 == seen.clamps \cup Cut(d, offset)
<1>1. r = [seen EXCEPT !.frames = v1, !.integrated = v2, !.covered = v3,
                       !.lit = v4, !.dark = v5, !.volts = v6,
                       !.offset_area = v7, !.cut = v8, !.clamps = v9]
  BY DEF Noted
<1>2. seen = [k \in SeenFields |-> seen[k]]
  BY DEF SeenTypes
<1> HIDE DEF r, v1, v2, v3, v4, v5, v6, v7, v8, v9
<1>3. r = [k \in SeenFields |-> r[k]]
  <2> HIDE DEF SeenFields
  <2> QED BY <1>1, <1>2, NotedIsRecord, Zenon
<1>4. /\ r.frames = v1 /\ r.jumps = seen.jumps /\ r.starts = seen.starts
      /\ r.allowance = seen.allowance /\ r.integrated = v2 /\ r.covered = v3
      /\ r.lit = v4 /\ r.dark = v5 /\ r.volts = v6
      /\ r.offset_area = v7 /\ r.cut = v8 /\ r.clamps = v9
  BY <1>1, <1>2 DEF SeenFields
<1>5. /\ v1 = seen.frames + 1
      /\ v2 = seen.integrated + (IF later THEN Seconds ELSE 0)
      /\ v3 = seen.covered + (IF later THEN Least(elapsed, gap) ELSE 0)
      /\ v4 = seen.lit + (IF later /\ BothVolts(d) THEN Seconds ELSE 0)
      /\ v5 = seen.dark + (IF later /\ ~(seen.volts /\ d.pack_v # None) THEN Seconds ELSE 0)
      /\ v7 = seen.offset_area + (IF later THEN (last.offset + offset) * Seconds ELSE 0)
  BY DEF v1, v2, v3, v4, v5, v7, SeenTypes
<1>6. /\ v6 = (d.pack_v # None) /\ v8 = (seen.cut \/ Cut(d, offset) # {})
      /\ v9 = seen.clamps \cup Cut(d, offset)
  BY DEF v6, v8, v9
<1>7. r = Noted(d, offset)
  BY DEF r
<1> QED BY <1>3, <1>4, <1>5, <1>6, <1>7, Zenon

-----------------------------------------------------------------------------
(* The steps.                                                              *)

LEMMA StableOptions ==
  ASSUME config' = config
  PROVE  opts' = opts /\ limits' = limits
  BY DEF opts, limits

\* What a frame leaves behind.
LEMMA Accumulated ==
  ASSUME NEW d \in Readings, NEW offset \in Offsets, accumulate_coulombs(d, offset)
  PROVE  /\ d.current_a # None /\ ~implausible(d) /\ MayApply(offset)
         /\ last' = Remember(d, offset)
         /\ config' = config /\ now' = now /\ elapsed' = 0
         /\ seen' = Noted(d, offset)
         /\ opts.calibration_enabled =>
              /\ dev' = integrate(d)
              /\ live' = [ts |-> now, current |-> d.current_a,
                          balance_a |-> d.balance_current_a]
         /\ ~opts.calibration_enabled => dev' = dev /\ live' = live
         /\ LET delta == Integrals(d, offset)
            IN  /\ staged'.ah = Plus(staged.ah, clamped(delta.ah, opts.max_frame_amp_hours))
                /\ staged'.cal_ah = Plus(staged.cal_ah, clamped(delta.cal_ah, opts.max_frame_amp_hours))
                /\ staged'.balance_ah = staged.balance_ah
                     + clamped(delta.balance_ah, opts.max_frame_amp_hours).charge
  BY DEF accumulate_coulombs, Ceiling

LEMMA RememberIs ==
  ASSUME FrameTypes, NEW d \in Readings, d.current_a # None, NEW offset \in Offsets
  PROVE  LET l == Remember(d, offset)
         IN  /\ l \in LastSeries /\ l # None
             /\ l.ts = now /\ l.current = d.current_a /\ l.pack_v = d.pack_v
             /\ l.balance_a = d.balance_current_a /\ l.offset = offset
<1>1. /\ d.current_a \in Int /\ d.pack_v \in Nat \cup {None}
      /\ d.balance_current_a \in Int \cup {None} /\ offset \in Int /\ now \in Int
  BY ReadingFields, OffsetsAssumption DEF FrameTypes
<1>2. Remember(d, offset) \in LastSeries
  BY <1>1 DEF Remember, LastSeries
<1>3. Remember(d, offset) # None
  BY <1>2, NoneAssumption
<1> QED BY <1>2, <1>3 DEF Remember

\* The calibrator's own integrals.
LEMMA IntegrateIs ==
  ASSUME FrameTypes, TotalTypes, NEW d \in Readings, d.current_a # None
  PROVE  LET after == integrate(d)
         IN  /\ after.x \in Int /\ after.net \in Int /\ after.bal \in Int
             /\ live = None => after = dev
             /\ live # None =>
                  LET dt == AtLeastZero(Least(now - live.ts, opts.coulomb_max_gap_secs))
                  IN  /\ after.x = dev.x + dt
                      /\ after.net = dev.net + (live.current + d.current_a) * dt
                      /\ after.bal = dev.bal
                           + (IF live.balance_a # None /\ d.balance_current_a # None
                              THEN (AtLeastZero(live.balance_a)
                                    + AtLeastZero(d.balance_current_a)) * dt
                              ELSE 0)
<1>1. CASE live = None
  <2>1. integrate(d) = dev
    BY <1>1 DEF integrate
  <2> QED BY <1>1, <2>1 DEF TotalTypes
<1>2. CASE live # None
  <2> DEFINE dt == AtLeastZero(Least(now - live.ts, opts.coulomb_max_gap_secs))
             bleeds == live.balance_a # None /\ d.balance_current_a # None
             bleed == AtLeastZero(live.balance_a) + AtLeastZero(d.balance_current_a)
             after == integrate(d)
  <2>1. /\ live.ts \in Int /\ live.current \in Int /\ live.balance_a \in Int \cup {None}
        /\ now \in Int /\ opts.coulomb_max_gap_secs \in Nat
        /\ d.current_a \in Int /\ d.balance_current_a \in Int \cup {None}
    BY <1>2, Options, ReadingFields DEF FrameTypes, Live
  <2>2. dt \in Int
    BY <2>1 DEF AtLeastZero, Least
  <2>3. bleeds => bleed \in Int
    BY <2>1 DEF AtLeastZero
  <2>4. after = [x |-> dev.x + dt,
                 net |-> dev.net + (live.current + d.current_a) * dt,
                 bal |-> IF bleeds THEN dev.bal + bleed * dt ELSE dev.bal]
    BY <1>2, Options DEF integrate, FrameTypes
  <2>5. dev.x \in Int /\ dev.net \in Int /\ dev.bal \in Int
    BY DEF TotalTypes
  <2>6. after = integrate(d)
    OBVIOUS
  <2> HIDE DEF bleeds, bleed, dt, after
  <2>7. /\ after.x = dev.x + dt
        /\ after.net = dev.net + (live.current + d.current_a) * dt
        /\ after.bal = dev.bal + (IF bleeds THEN bleed * dt ELSE 0)
        /\ after.x \in Int /\ after.net \in Int /\ after.bal \in Int
    BY <2>1, <2>2, <2>3, <2>4, <2>5
  <2> USE DEF bleeds, bleed, dt
  <2> QED BY <1>2, <2>6, <2>7
<1> QED BY <1>1, <1>2

LEMMA FrameKeepsTypes ==
  ASSUME FrameTypes, SeenTypes, TotalTypes,
         NEW d \in Readings, NEW offset \in Offsets, accumulate_coulombs(d, offset)
  PROVE  FrameTypes' /\ SeenTypes' /\ TotalTypes'
<1> USE Accumulated
<1>1. FrameTypes'
  <2>1. last' \in LastSeries
    BY RememberIs
  <2>2. live' \in Live \cup {None}
    <3>1. /\ d.current_a \in Int /\ d.balance_current_a \in Int \cup {None} /\ now \in Int
      BY ReadingFields DEF FrameTypes
    <3>2. [ts |-> now, current |-> d.current_a, balance_a |-> d.balance_current_a] \in Live
      BY <3>1 DEF Live
    <3> QED BY <3>2 DEF FrameTypes
  <2> QED BY <2>1, <2>2 DEF FrameTypes
<1>2. SeenTypes'
  <2>1. last # None =>
          /\ Seconds \in Int /\ (last.offset + offset) * Seconds \in Int
          /\ Least(elapsed, opts.coulomb_max_gap_secs) \in Int
    BY LastFields, SecondsInGap, OffsetsAssumption DEF FrameTypes, Least
  <2> HIDE DEF SeenFields
  <2>2. seen'.frames \in Nat /\ seen'.jumps \in Nat /\ seen'.starts \in Nat
    BY NotedFields DEF SeenTypes
  <2>3. /\ seen'.integrated \in Int /\ seen'.covered \in Int /\ seen'.allowance \in Int
        /\ seen'.lit \in Int /\ seen'.dark \in Int /\ seen'.offset_area \in Int
    BY <2>1, NotedFields DEF SeenTypes
  <2>4. seen' = [k \in SeenFields |-> seen'[k]]
    BY NotedFields
  <2> QED BY <2>2, <2>3, <2>4 DEF SeenTypes
<1>3. TotalTypes'
  <2>1. opts.max_frame_amp_hours \in Limit
    BY Options DEF FrameTypes
  <2>2. IsSplit(staged'.ah) /\ IsSplit(staged'.cal_ah)
    BY <2>1, FrameCharge, ClampedTypes, PlusTypes DEF TotalTypes
  <2>3. staged'.balance_ah \in Int
    <3>1. IsSplit(clamped(Integrals(d, offset).balance_ah, opts.max_frame_amp_hours))
      BY <2>1, FrameBleed, ClampedTypes
    <3> QED BY <3>1 DEF TotalTypes, IsSplit
  <2>4. dev'.x \in Int /\ dev'.net \in Int /\ dev'.bal \in Int
    BY IntegrateIs DEF TotalTypes
  <2> QED BY <2>2, <2>3, <2>4 DEF TotalTypes
<1> QED BY <1>1, <1>2, <1>3

LEMMA FrameKeepsClock ==
  ASSUME FrameTypes, SeenTypes, ClockDebt,
         NEW d \in Readings, NEW offset \in Offsets, accumulate_coulombs(d, offset)
  PROVE  ClockDebt'
<1> USE Accumulated
<1> DEFINE gap == opts.coulomb_max_gap_secs
<1>1. /\ last'.ts = now /\ now' = now /\ elapsed' = 0 /\ now \in Int
  BY RememberIs DEF FrameTypes
<1>2. /\ seen'.allowance = seen.allowance
      /\ seen'.integrated = seen.integrated + (IF last # None THEN Seconds ELSE 0)
      /\ seen'.covered = seen.covered + (IF last # None THEN Least(elapsed, gap) ELSE 0)
  BY NotedFields
<1>3. /\ seen.integrated \in Int /\ seen.covered \in Int /\ seen.allowance \in Int
      /\ elapsed \in Nat /\ gap \in Nat
  BY Options DEF SeenTypes, FrameTypes
<1>4. Abs(seen'.integrated - seen'.covered) <= seen'.allowance
  <2>1. CASE last = None
    BY <1>2, <1>3, <2>1 DEF ClockDebt, Abs
  <2>2. CASE last # None
    <3>1. last.ts \in Int
      BY <2>2, LastFields
    <3> HIDE DEF gap
    <3>2. Seconds = AtLeastZero(Least(now - last.ts, gap))
      BY DEF Seconds, gap
    <3>3. Abs(seen.integrated - seen.covered)
            + (IF now - last.ts # elapsed THEN gap ELSE 0) <= seen.allowance
      BY <2>2 DEF ClockDebt, gap
    <3> QED BY <1>1, <1>2, <1>3, <2>2, <3>1, <3>2, <3>3 DEF AtLeastZero, Least, Abs
  <2> QED BY <2>1, <2>2
<1>5. (now - last.ts = elapsed)'
  BY <1>1
<1>6. /\ seen'.integrated \in Int /\ seen'.covered \in Int
      /\ last # None => Seconds \in Int /\ Least(elapsed, gap) \in Int
  <2>1. last # None => Seconds \in Int /\ Least(elapsed, gap) \in Int
    BY <1>3, SecondsInGap DEF Least
  <2> QED BY <1>2, <1>3, <2>1
<1>7. Abs(seen'.integrated - seen'.covered) \in Int
  BY <1>6 DEF Abs
<1> QED BY <1>4, <1>5, <1>7 DEF ClockDebt, Abs

LEMMA FrameKeepsEnergy ==
  ASSUME FrameTypes, SeenTypes, EnergyMissesOnlyNeighbours, VoltsRemembered,
         NEW d \in Readings, NEW offset \in Offsets, accumulate_coulombs(d, offset)
  PROVE  EnergyMissesOnlyNeighbours' /\ VoltsRemembered'
<1> USE Accumulated
<1>1. last'.pack_v = d.pack_v /\ seen'.volts = (d.pack_v # None)
  BY RememberIs, NotedFields
<1>2. VoltsRemembered'
  BY <1>1 DEF VoltsRemembered
<1>3. /\ seen'.integrated = seen.integrated + (IF last # None THEN Seconds ELSE 0)
      /\ seen'.lit = seen.lit + (IF last # None /\ BothVolts(d) THEN Seconds ELSE 0)
      /\ seen'.dark = seen.dark
           + (IF last # None /\ ~(seen.volts /\ d.pack_v # None) THEN Seconds ELSE 0)
  BY NotedFields
<1>4. last # None => Seconds \in Int /\ (BothVolts(d) <=> seen.volts /\ d.pack_v # None)
  BY SecondsInGap DEF BothVolts, VoltsRemembered
<1>5. seen.integrated \in Int /\ seen.lit \in Int /\ seen.dark \in Int
  BY DEF SeenTypes
<1>6. seen'.lit + seen'.dark = seen'.integrated
  <2>1. CASE last = None
    BY <1>3, <1>5, <2>1 DEF EnergyMissesOnlyNeighbours
  <2>2. CASE last # None /\ BothVolts(d)
    BY <1>3, <1>4, <1>5, <2>2 DEF EnergyMissesOnlyNeighbours
  <2>3. CASE last # None /\ ~BothVolts(d)
    BY <1>3, <1>4, <1>5, <2>3 DEF EnergyMissesOnlyNeighbours
  <2> QED BY <2>1, <2>2, <2>3
<1> QED BY <1>2, <1>6 DEF EnergyMissesOnlyNeighbours

LEMMA CeilingIs ==
  /\ Ceiling("ah") = opts.max_frame_amp_hours /\ Ceiling("cal_ah") = opts.max_frame_amp_hours
  /\ Ceiling("balance_ah") = opts.max_frame_amp_hours
  /\ Ceiling("wh") = opts.max_frame_watt_hours
  BY DEF Ceiling

LEMMA FrameKeepsCalibrated ==
  ASSUME FrameTypes, SeenTypes, TotalTypes, CalibratedIsRawLessOffset,
         NEW d \in Readings, NEW offset \in Offsets, accumulate_coulombs(d, offset)
  PROVE  CalibratedIsRawLessOffset'
<1> USE Accumulated
<1> SUFFICES ASSUME ~seen'.cut
             PROVE  Net(staged'.cal_ah) = Net(staged'.ah) - seen'.offset_area
  BY DEF CalibratedIsRawLessOffset
<1> DEFINE delta == Integrals(d, offset)
           product == (last.current + d.current_a) * Seconds
           moved == (last.offset + offset) * Seconds
<1>1. ~seen.cut /\ Cut(d, offset) = {}
  <2>1. seen'.cut = (seen.cut \/ Cut(d, offset) # {})
    BY NotedFields
  <2> QED BY <2>1, Zenon
<1>2. clamped(delta.ah, opts.max_frame_amp_hours) = delta.ah
  BY <1>1, CeilingIs DEF Cut, Quantities
<1>3. clamped(delta.cal_ah, opts.max_frame_amp_hours) = delta.cal_ah
  BY <1>1, CeilingIs DEF Cut, Quantities
<1>4. staged'.ah = Plus(staged.ah, delta.ah) /\ staged'.cal_ah = Plus(staged.cal_ah, delta.cal_ah)
  BY <1>2, <1>3
<1>5. /\ IsSplit(delta.ah) /\ IsSplit(delta.cal_ah)
      /\ last = None => Net(delta.ah) = 0 /\ Net(delta.cal_ah) = 0
      /\ last # None => Net(delta.ah) = product /\ Net(delta.cal_ah) = product - moved
  BY FrameCharge
<1>6. /\ Net(staged'.ah) = Net(staged.ah) + Net(delta.ah)
      /\ Net(staged'.cal_ah) = Net(staged.cal_ah) + Net(delta.cal_ah)
  BY <1>4, <1>5, PlusTypes DEF TotalTypes
<1>7. seen'.offset_area = seen.offset_area + (IF last # None THEN moved ELSE 0)
  BY NotedFields
<1>8. last # None => product \in Int /\ moved \in Int
  BY LastFields, SecondsInGap, ReadingFields, OffsetsAssumption
<1>9. /\ Net(staged.ah) \in Int /\ Net(staged.cal_ah) \in Int /\ seen.offset_area \in Int
      /\ Net(staged.cal_ah) = Net(staged.ah) - seen.offset_area
  <2>1. Net(staged.cal_ah) = Net(staged.ah) - seen.offset_area
    BY <1>1, Zenon DEF CalibratedIsRawLessOffset
  <2>2. Net(staged.ah) \in Int /\ Net(staged.cal_ah) \in Int /\ seen.offset_area \in Int
    BY DEF TotalTypes, SeenTypes, IsSplit, Net
  <2> QED BY <2>1, <2>2
<1> HIDE DEF delta, product, moved
<1> QED BY <1>5, <1>6, <1>7, <1>8, <1>9

LEMMA FrameKeepsSample ==
  ASSUME FrameTypes, NEW d \in Readings, NEW offset \in Offsets, accumulate_coulombs(d, offset)
  PROVE  SameSample'
<1> USE Accumulated
<1> SUFFICES ASSUME opts.calibration_enabled
             PROVE  /\ last' # None /\ live' # None
                    /\ live'.ts = last'.ts /\ live'.current = last'.current
                    /\ live'.balance_a = last'.balance_a
  BY StableOptions DEF SameSample
<1>1. /\ last' # None /\ last'.ts = now /\ last'.current = d.current_a
      /\ last'.balance_a = d.balance_current_a
  BY RememberIs
<1>2. live' = [ts |-> now, current |-> d.current_a, balance_a |-> d.balance_current_a]
  OBVIOUS
<1>3. live' \in Live
  BY <1>2, ReadingFields DEF Live, FrameTypes
<1> QED BY <1>1, <1>2, <1>3, NoneAssumption

\* Products of floats, as far as the warnings form them.
LEMMA TimesIs ==
  ASSUME NEW a \in Nat \cup {PosInf}, NEW b \in Float
  PROVE  /\ a \in Nat /\ b \in Int => Times(a, b) = a * b
         /\ a = PosInf /\ b \in Nat \ {0} => Times(a, b) = PosInf
         /\ a # 0 /\ b = PosInf => Times(a, b) = PosInf
<1>1. a \in Nat /\ b \in Int => Times(a, b) = a * b
  BY DEF Times
<1>2. ~lt(PosInf, 0) /\ (a # 0 => ~lt(a, 0))
  BY FloatAssumption DEF lt, le
<1>3. b \in Nat \ {0} => ~lt(b, 0)
  BY FloatAssumption DEF lt, le
<1>4. PosInf \notin Int /\ PosInf # NaN /\ NaN \notin Int
  BY FloatAssumption
<1> QED BY <1>1, <1>2, <1>3, <1>4 DEF Times

\* What start-up does not warn about, with a gap in which anything can be
\* integrated: a ceiling is infinite or holds what the gate and the gap allow.
LEMMA Warnings ==
  ASSUME config \in Files, opts.coulomb_max_gap_secs > 0
  PROVE  LET m == limits.max_current_a
             v == limits.pack_volts[2]
             gap == opts.coulomb_max_gap_secs
             ah == opts.max_frame_amp_hours
             wh == opts.max_frame_watt_hours
         IN  /\ "ah" \notin CeilingWarnings(config) =>
                  ah = PosInf \/ (m \in Nat /\ ah * Hour >= m * gap)
             /\ "wh" \notin CeilingWarnings(config) /\ Positive(config.max_frame_watt_hours) =>
                  /\ wh = PosInf \/ v # PosInf
                  /\ \A n \in Nat : v = n =>
                       wh = PosInf \/ n = 0 \/ (m \in Nat /\ wh * Hour >= (m * n) * gap)
<1> DEFINE r == reset_out_of_range_to_defaults(config)
           m == limits.max_current_a
           v == limits.pack_volts[2]
           gap == opts.coulomb_max_gap_secs
           ah == opts.max_frame_amp_hours
           wh == opts.max_frame_watt_hours
           reach == Times(m, gap)
<1>1. IsRecord(config)
  BY ConfigFields, FilesAssumption
<1>2. Positive(config.max_frame_watt_hours) => config.max_frame_watt_hours = r.max_frame_watt_hours
  BY <1>1, ResetFields DEF Knob
<1>3. m = r.max_plausible_current_amperes /\ v = r.max_plausible_pack_volts
  BY DEF limits, PlausibilityLimits, Started
<1>4. /\ gap = r.coulomb_max_gap_secs
      /\ ah = r.max_frame_amp_hours /\ wh = r.max_frame_watt_hours
  BY DEF opts, MetricsOptions, Started
<1> HIDE DEF r
<1>5. /\ "ah" \notin CeilingWarnings(config) => ~lt(Times(ah, Hour), reach)
      /\ "wh" \notin CeilingWarnings(config) /\ Positive(config.max_frame_watt_hours) =>
           ~lt(Times(wh, Hour), Times(reach, v))
  BY <1>2, <1>3, <1>4 DEF CeilingWarnings, r
<1>6. m \in Limit /\ ah \in Limit /\ wh \in Limit /\ gap \in Nat \ {0} /\ Hour \in Nat \ {0}
  BY Options DEF Hour
<1> HIDE DEF m, v, gap, ah, wh
<1>7. /\ m = PosInf => reach = PosInf
      /\ m # PosInf => m \in Nat /\ reach = m * gap /\ m * gap \in Nat \ {0}
      /\ ah # PosInf => ah \in Nat /\ Times(ah, Hour) = ah * Hour /\ ah * Hour \in Nat
      /\ wh # PosInf => wh \in Nat /\ Times(wh, Hour) = wh * Hour /\ wh * Hour \in Nat
  BY <1>6, TimesIs DEF Limit, Float
<1> HIDE DEF reach
<1>8. \A n \in Nat : lt(n, PosInf)
  BY FloatAssumption DEF lt, le
<1>9. \A n, k \in Nat : ~lt(n, k) => n >= k
  BY FloatAssumption DEF lt, le
<1>10. "ah" \notin CeilingWarnings(config) => ah = PosInf \/ (m \in Nat /\ ah * Hour >= m * gap)
  BY <1>5, <1>7, <1>8, <1>9
<1>11. reach \in (Nat \ {0}) \cup {PosInf}
  BY <1>7
<1>12. ASSUME v = PosInf, wh # PosInf
       PROVE  lt(Times(wh, Hour), Times(reach, v))
  <2>1. Times(reach, v) = PosInf
    <3>1. reach \in Nat \cup {PosInf} /\ reach # 0 /\ PosInf \in Float
      BY <1>11, FloatAssumption DEF Float
    <3> QED BY <1>12, <3>1, TimesIs
  <2> QED BY <1>7, <1>8, <1>12, <2>1
<1>13. ASSUME NEW n \in Nat, v = n, wh # PosInf, ~lt(Times(wh, Hour), Times(reach, v))
       PROVE  (m \in Nat /\ wh * Hour >= (m * n) * gap) \/ n = 0
  <2>1. CASE m = PosInf /\ n # 0
    <3>1. Times(reach, v) = PosInf
      <4>1. n \in Nat \ {0} /\ n \in Float /\ PosInf \in Nat \cup {PosInf}
        BY <2>1 DEF Float
      <4>2. Times(PosInf, n) = PosInf
        BY <4>1, TimesIs
      <4> QED BY <1>7, <1>13, <2>1, <4>2
    <3> QED BY <1>7, <1>8, <1>13, <3>1
  <2>2. CASE m # PosInf
    <3>1. m \in Nat /\ reach = m * gap /\ m * gap \in Nat
      BY <1>7, <2>2
    <3>2. Times(reach, v) = (m * gap) * n
      BY <1>13, <3>1, TimesIs DEF Float
    <3>3. (m * gap) * n \in Nat /\ (m * gap) * n = (m * n) * gap
      BY <1>6, <3>1
    <3>4. wh * Hour >= (m * gap) * n
      BY <1>7, <1>9, <1>13, <3>2, <3>3
    <3> QED BY <3>1, <3>3, <3>4
  <2> QED BY <2>1, <2>2
<1>14. ASSUME "wh" \notin CeilingWarnings(config), Positive(config.max_frame_watt_hours)
       PROVE  /\ wh = PosInf \/ v # PosInf
              /\ \A n \in Nat : v = n =>
                   wh = PosInf \/ n = 0 \/ (m \in Nat /\ wh * Hour >= (m * n) * gap)
  BY <1>5, <1>12, <1>13, <1>14
<1> QED BY <1>10, <1>14 DEF m, v, gap, ah, wh

\* What is left of a reading when the gate lets it through.
LEMMA Passed ==
  ASSUME config \in Files, NEW d \in Readings, d.current_a # None, ~implausible(d)
  PROVE  /\ le(Abs(d.current_a), limits.max_current_a)
         /\ d.pack_v # None => le(d.pack_v, limits.pack_volts[2])
<1>1. /\ d.current_a \in Int /\ d.pack_v \in Nat \cup {None}
      /\ limits.max_current_a \in Limit
      /\ limits.pack_volts[2] \in Float /\ limits.pack_volts[2] \notin {NaN, NegInf}
  <2>1. /\ lt(limits.pack_volts[1], limits.pack_volts[2])
        /\ limits.pack_volts[2] \in Float
    BY ResetIsSane, FilesAssumption DEF Sane, limits, PlausibilityLimits, Started
  <2>2. limits.pack_volts[2] \notin {NaN, NegInf}
    BY <2>1, FloatAssumption DEF lt, le
  <2> QED BY <2>1, <2>2, ReadingFields, Options
<1>2. Abs(d.current_a) \in Nat
  BY <1>1 DEF Abs
<1>3. \A a \in Nat, b \in Float \ {NaN, NegInf} : ~lt(b, a) => le(a, b)
  BY FloatAssumption DEF lt, le, Float
<1>4. ~lt(limits.max_current_a, Abs(d.current_a)) => le(Abs(d.current_a), limits.max_current_a)
  <2>1. \A x \in Limit : x \in Float \ {NaN, NegInf}
    BY FloatAssumption DEF Limit, Float
  <2>2. limits.max_current_a \in Float \ {NaN, NegInf}
    BY <1>1, <2>1
  <2> QED BY <1>2, <1>3, <2>2
<1>5. d.pack_v # None =>
        (~lt(limits.pack_volts[2], d.pack_v) => le(d.pack_v, limits.pack_volts[2]))
  BY <1>1, <1>3
<1> QED BY <1>4, <1>5 DEF implausible

LEMMA ProductBound ==
  ASSUME NEW bound \in Nat, NEW u \in Int, Abs(u) <= bound,
         NEW t \in Nat, NEW gap \in Nat, t <= gap
  PROVE  u * t <= bound * gap /\ -(u * t) <= bound * gap
<1>1. -bound <= u /\ u <= bound
  BY DEF Abs
<1>2. u * t <= bound * t /\ -(u * t) <= bound * t
  BY <1>1
<1>3. bound * t <= bound * gap
  OBVIOUS
<1>4. u * t \in Int /\ bound * t \in Int /\ bound * gap \in Int
  OBVIOUS
<1> QED BY <1>2, <1>3, <1>4

\* A trapezoid within a ceiling passes it whole.
LEMMA WholeOver ==
  ASSUME FrameTypes, last # None, NEW a \in Int, NEW b \in Int, NEW bound \in Nat,
         Abs(a + b) <= 2 * bound, NEW max \in Nat,
         max * Hour >= bound * opts.coulomb_max_gap_secs
  PROVE  clamped(Over(a, b), max) = Over(a, b)
<1> DEFINE t == Over(a, b)
           gap == opts.coulomb_max_gap_secs
<1>1. /\ t.charge \in Nat /\ t.discharge \in Nat
      /\ Net(t) = (a + b) * Seconds
      /\ t.charge = 0 \/ t.discharge = 0
  BY OverIs
<1>2. Seconds \in Nat /\ Seconds <= gap /\ gap \in Nat
  BY SecondsInGap, Options DEF FrameTypes
<1>3. (a + b) * Seconds <= 2 * bound * gap /\ -((a + b) * Seconds) <= 2 * bound * gap
  <2>1. a + b \in Int /\ 2 * bound \in Nat
    OBVIOUS
  <2> HIDE DEF gap
  <2> QED BY <1>2, <2>1, ProductBound
<1>4. t.charge - t.discharge <= 2 * bound * gap /\ t.discharge - t.charge <= 2 * bound * gap
  <2> HIDE DEF t, gap
  <2>1. (a + b) * Seconds \in Int /\ 2 * bound * gap \in Int
    BY <1>2
  <2> QED BY <1>1, <1>3, <2>1 DEF Net
<1>5. 2 * bound * gap <= 2 * Hour * max
  <2>1. bound * gap \in Int /\ 2 * bound * gap = 2 * (bound * gap)
    BY <1>2
  <2>2. max * Hour >= bound * gap
    OBVIOUS
  <2> HIDE DEF gap
  <2> QED BY <2>1, <2>2 DEF Hour
<1>6. t.charge <= 2 * Hour * max /\ t.discharge <= 2 * Hour * max
  <2>1. 2 * bound * gap \in Int /\ 2 * Hour * max \in Nat
    BY <1>2 DEF Hour
  <2> HIDE DEF t, gap
  <2> QED BY <1>1, <1>4, <1>5, <2>1
<1>7. t = [charge |-> t.charge, discharge |-> t.discharge]
  BY DEF Over, trapezoid_hours, Nothing
<1> HIDE DEF t
<1>8. clamped(t, max) = t
  BY <1>6, <1>7, FloatAssumption DEF clamped, Least
<1> QED BY <1>8 DEF t

\* So does one that is zero, for want of a gap or of anything to integrate.
LEMMA WholeZero ==
  ASSUME FrameTypes, last # None, NEW a \in Int, NEW b \in Int, NEW max \in Nat,
         opts.coulomb_max_gap_secs = 0 \/ a + b = 0
  PROVE  clamped(Over(a, b), max) = Over(a, b)
<1> DEFINE bound == Abs(a + b)
<1>1. bound \in Nat /\ bound <= 2 * bound /\ (a + b = 0 => bound = 0)
  BY DEF Abs
<1>2. opts.coulomb_max_gap_secs \in Nat
  BY Options DEF FrameTypes
<1>3. bound * opts.coulomb_max_gap_secs = 0
  BY <1>1, <1>2
<1>4. max * Hour >= bound * opts.coulomb_max_gap_secs
  BY <1>3 DEF Hour
<1>5. Abs(a + b) <= 2 * bound
  BY <1>1
<1> HIDE DEF bound
<1> QED BY <1>1, <1>4, <1>5, WholeOver

LEMMA WholeNothing ==
  ASSUME NEW max \in Limit
  PROVE  clamped(Nothing, max) = Nothing
<1>1. CASE max = PosInf
  BY <1>1 DEF clamped
<1>2. CASE max # PosInf
  <2>1. max \in Nat /\ 2 * Hour * max >= 0
    BY <1>2 DEF Hour, Limit
  <2> QED BY <1>2, <2>1 DEF clamped, Nothing, Least
<1> QED BY <1>1, <1>2

LEMMA FrameKeepsLimits ==
  ASSUME FrameTypes, LastPassed, UnwarnedNeverClamps, SeenTypes,
         NEW d \in Readings, NEW offset \in Offsets, accumulate_coulombs(d, offset)
  PROVE  LastPassed' /\ UnwarnedNeverClamps'
<1> USE Accumulated
<1> DEFINE delta == Integrals(d, offset)
           m == limits.max_current_a
           v == limits.pack_volts[2]
           gap == opts.coulomb_max_gap_secs
           ah == opts.max_frame_amp_hours
           wh == opts.max_frame_watt_hours
<1>1. config \in Files
  BY DEF FrameTypes
<1>2. le(Abs(d.current_a), m) /\ (d.pack_v # None => le(d.pack_v, v))
  BY <1>1, Passed
<1>3. LastPassed'
  <2>1. last'.current = d.current_a /\ last'.pack_v = d.pack_v
    BY RememberIs
  <2>2. Abs(last'.current) = Abs(last.current)'
    BY DEF Abs
  <2>3. limits' = limits
    BY StableOptions
  <2> QED BY <1>2, <2>1, <2>2, <2>3 DEF LastPassed
<1>4. /\ d.current_a \in Int /\ d.pack_v \in Nat \cup {None}
      /\ m \in Limit /\ gap \in Nat /\ ah \in Limit /\ wh \in Limit
  BY <1>1, ReadingFields, Options
<1>4a. PosInf \notin Int /\ \A x, y \in Nat : le(x, y) => x <= y
  BY FloatAssumption DEF le
<1>4b. \A x \in Int : Abs(x) \in Nat
  BY DEF Abs
<1>5. ASSUME "ah" \notin CeilingWarnings(config)
      PROVE  "ah" \notin Cut(d, offset)
  <2>1. clamped(delta.ah, ah) = delta.ah
    <3>1. CASE last = None
      BY <1>4, <3>1, WholeNothing DEF Integrals
    <3>2. CASE last # None
      <4> DEFINE a == last.current
                 b == d.current_a
      <4>1. a \in Int /\ b \in Int /\ le(Abs(a), m) /\ delta.ah = Over(a, b)
        BY <1>4, <3>2, LastFields DEF LastPassed, Integrals
      <4> HIDE DEF a, delta
      <4>2. CASE ah = PosInf
        BY <4>1, <4>2 DEF clamped
      <4>3. CASE ah # PosInf /\ gap = 0
        BY <1>4, <3>2, <4>1, <4>3, WholeZero DEF Limit
      <4>4. CASE ah # PosInf /\ gap # 0
        <5>1. m \in Nat /\ ah * Hour >= m * gap /\ ah \in Nat
          BY <1>1, <1>4, <1>5, <4>4, Warnings DEF Limit
        <5>2. Abs(a) <= m /\ Abs(b) <= m
          BY <1>2, <1>4a, <1>4b, <4>1, <5>1
        <5>3. Abs(a + b) <= 2 * m
          BY <4>1, <5>1, <5>2 DEF Abs
        <5> HIDE DEF m, ah, b
        <5> QED BY <3>2, <4>1, <5>1, <5>3, WholeOver
      <4> QED BY <4>2, <4>3, <4>4
    <3> QED BY <3>1, <3>2
  <2> QED BY <2>1, CeilingIs DEF Cut, Quantities
<1>6. ASSUME "wh" \notin CeilingWarnings(config), Positive(config.max_frame_watt_hours)
      PROVE  "wh" \notin Cut(d, offset)
  <2>1. clamped(delta.wh, wh) = delta.wh
    <3>1. CASE last = None \/ ~BothVolts(d)
      <4>1. delta.wh = Nothing
        BY <3>1 DEF Integrals
      <4> QED BY <1>4, <4>1, WholeNothing
    <3>2. CASE last # None /\ BothVolts(d)
      <4> DEFINE i == last.current
                 u == last.pack_v
                 j == d.current_a
                 w == d.pack_v
                 a == i * u
                 b == j * w
      <4>1. /\ i \in Int /\ le(Abs(i), m) /\ u \in Nat /\ le(u, v)
            /\ j \in Int /\ le(Abs(j), m) /\ w \in Nat /\ le(w, v)
            /\ delta.wh = Over(a, b)
        BY <1>2, <1>4, <3>2, LastFields DEF LastPassed, BothVolts, Integrals
      <4>2. a \in Int /\ b \in Int
        BY <4>1
      <4> HIDE DEF i, u, j, w, delta
      <4>3. CASE wh = PosInf
        BY <4>1, <4>3 DEF clamped
      <4>4. CASE wh # PosInf /\ gap = 0
        <5> HIDE DEF a, b
        <5> QED BY <1>4, <3>2, <4>1, <4>2, <4>4, WholeZero DEF Limit
      <4>5. CASE wh # PosInf /\ gap # 0
        <5>1. /\ v # PosInf
              /\ \A n \in Nat : v = n => n = 0 \/ (m \in Nat /\ wh * Hour >= (m * n) * gap)
          BY <1>1, <1>4, <1>6, <4>5, Warnings
        <5>2. wh \in Nat
          BY <1>4, <4>5 DEF Limit
        <5> HIDE DEF v, m, wh
        <5>3. v \in Nat /\ u <= v /\ w <= v
          BY <4>1, <5>1, FloatAssumption DEF le
        <5>4. CASE v = 0
          <6>1. a + b = 0
            BY <4>1, <5>3, <5>4
          <6> HIDE DEF a, b
          <6> QED BY <3>2, <4>1, <4>2, <5>2, <6>1, WholeZero
        <5>5. CASE v # 0
          <6>1. m \in Nat /\ wh * Hour >= (m * v) * gap
            BY <5>1, <5>3, <5>5
          <6>2. Abs(i) <= m /\ Abs(j) <= m
            BY <1>4a, <1>4b, <4>1, <6>1
          <6>3. /\ a <= m * v /\ -a <= m * v /\ b <= m * v /\ -b <= m * v
            BY <4>1, <5>3, <6>1, <6>2, ProductBound
          <6>4. m * v \in Nat
            BY <5>3, <6>1
          <6>5. Abs(a + b) <= 2 * (m * v)
            <7> HIDE DEF a, b
            <7> QED BY <4>2, <6>3, <6>4 DEF Abs
          <6> HIDE DEF a, b, gap
          <6> QED BY <3>2, <4>1, <4>2, <5>2, <6>1, <6>4, <6>5, WholeOver DEF gap
        <5> QED BY <5>4, <5>5
      <4> QED BY <4>3, <4>4, <4>5
    <3> QED BY <3>1, <3>2
  <2> QED BY <2>1, CeilingIs DEF Cut, Quantities
<1>7. seen'.clamps = seen.clamps \cup Cut(d, offset)
  BY NotedFields
<1>8. CeilingWarnings(config)' = CeilingWarnings(config) /\ config' = config
  OBVIOUS
<1> HIDE DEF delta
<1>9. UnwarnedNeverClamps'
  BY <1>5, <1>6, <1>7, <1>8 DEF UnwarnedNeverClamps
<1> QED BY <1>3, <1>9

LEMMA FrameKeepsInv ==
  ASSUME IntegratorInv,
         NEW d \in Readings, NEW offset \in Offsets, accumulate_coulombs(d, offset)
  PROVE  IntegratorInv'
<1>1. FrameTypes' /\ SeenTypes' /\ TotalTypes'
  BY FrameKeepsTypes DEF IntegratorInv
<1>2. ClockDebt'
  BY FrameKeepsClock DEF IntegratorInv
<1>3. EnergyMissesOnlyNeighbours' /\ VoltsRemembered'
  BY FrameKeepsEnergy DEF IntegratorInv
<1>4. CalibratedIsRawLessOffset'
  BY FrameKeepsCalibrated DEF IntegratorInv
<1>5. SameSample'
  BY FrameKeepsSample DEF IntegratorInv
<1>6. LastPassed' /\ UnwarnedNeverClamps'
  BY FrameKeepsLimits DEF IntegratorInv
<1> QED BY <1>1, <1>2, <1>3, <1>4, <1>5, <1>6 DEF IntegratorInv

\* Time that passes moves the clock and the time since the last frame together.
LEMMA WaitKeepsInv ==
  ASSUME IntegratorInv, NEW t \in TimeSteps, Wait(t)
  PROVE  IntegratorInv'
<1>1. /\ elapsed = 0 /\ elapsed' = t /\ now' = now + t /\ t \in Nat
      /\ config' = config /\ last' = last /\ staged' = staged /\ live' = live
      /\ dev' = dev /\ seen' = seen
  BY ClockAssumption DEF Wait
<1>2. opts' = opts /\ limits' = limits
  BY <1>1, StableOptions
<1>3. FrameTypes' /\ SeenTypes' /\ TotalTypes'
  BY <1>1 DEF IntegratorInv, FrameTypes, SeenTypes, TotalTypes
<1>4. ClockDebt'
  <2>1. last # None => (now' - last.ts # elapsed' <=> now - last.ts # elapsed)
    BY <1>1, LastFields DEF IntegratorInv, FrameTypes
  <2>2. Abs(seen.integrated - seen.covered)' = Abs(seen.integrated - seen.covered)
    BY <1>1
  <2>3. ClockDebt
    BY DEF IntegratorInv
  <2> QED BY <1>1, <1>2, <2>1, <2>2, <2>3 DEF ClockDebt
<1>5. /\ EnergyMissesOnlyNeighbours' /\ VoltsRemembered' /\ CalibratedIsRawLessOffset'
      /\ SameSample' /\ LastPassed'
  BY <1>1, <1>2 DEF IntegratorInv, EnergyMissesOnlyNeighbours, VoltsRemembered,
                    CalibratedIsRawLessOffset, SameSample, LastPassed
<1>6. UnwarnedNeverClamps'
  BY <1>1 DEF IntegratorInv, UnwarnedNeverClamps
<1> QED BY <1>3, <1>4, <1>5, <1>6 DEF IntegratorInv

\* Setting the clock pays one gap into the allowance.
LEMMA JumpKeepsInv ==
  ASSUME IntegratorInv, NEW j \in Jumps, ClockJump(j)
  PROVE  IntegratorInv'
<1> DEFINE gap == opts.coulomb_max_gap_secs
           paid == seen.allowance + gap
           jumps == seen.jumps + 1
<1>1. /\ now' = now + j /\ j \in Int
      /\ seen' = [seen EXCEPT !.jumps = jumps, !.allowance = paid]
      /\ config' = config /\ last' = last /\ staged' = staged /\ live' = live
      /\ dev' = dev /\ elapsed' = elapsed
  BY ClockAssumption DEF ClockJump
<1>2. opts' = opts /\ limits' = limits
  BY <1>1, StableOptions
<1>3. gap \in Nat
  BY Options DEF IntegratorInv, FrameTypes
<1>4. seen = [k \in SeenFields |-> seen[k]]
  BY DEF IntegratorInv, SeenTypes
<1>5. seen' = [k \in SeenFields |-> seen'[k]]
  <2> HIDE DEF SeenFields, jumps, paid
  <2> QED BY <1>1, <1>4
<1>6. /\ seen'.jumps = jumps /\ seen'.allowance = paid
      /\ seen'.frames = seen.frames /\ seen'.starts = seen.starts
      /\ seen'.integrated = seen.integrated /\ seen'.covered = seen.covered
      /\ seen'.lit = seen.lit /\ seen'.dark = seen.dark /\ seen'.volts = seen.volts
      /\ seen'.offset_area = seen.offset_area /\ seen'.cut = seen.cut
      /\ seen'.clamps = seen.clamps
  <2> HIDE DEF jumps, paid
  <2> QED BY <1>1, <1>4 DEF SeenFields
<1>7. SeenTypes'
  BY <1>3, <1>5, <1>6 DEF IntegratorInv, SeenTypes
<1>8. FrameTypes' /\ TotalTypes'
  BY <1>1 DEF IntegratorInv, FrameTypes, TotalTypes
<1>9. ClockDebt'
  <2>1. /\ seen.integrated \in Int /\ seen.covered \in Int /\ seen.allowance \in Int
        /\ ClockDebt
    BY DEF IntegratorInv, SeenTypes
  <2> DEFINE off == Abs(seen.integrated - seen.covered)
  <2>2. off \in Int
    BY <2>1 DEF Abs
  <2>3. off <= seen.allowance
    <3> HIDE DEF off
    <3>1. off + (IF last # None /\ now - last.ts # elapsed THEN gap ELSE 0) <= seen.allowance
      BY <2>1 DEF ClockDebt, off
    <3> HIDE DEF gap
    <3> QED BY <1>3, <2>1, <2>2, <3>1
  <2>4. off' = off /\ gap' = gap
    BY <1>2, <1>6 DEF Abs
  <2> HIDE DEF off, gap
  <2>5. off' + (IF last' # None /\ now' - last'.ts # elapsed' THEN gap' ELSE 0)
          <= seen'.allowance
    BY <1>3, <1>6, <2>1, <2>2, <2>3, <2>4
  <2> QED BY <2>5 DEF ClockDebt, off, gap
<1>10. /\ EnergyMissesOnlyNeighbours' /\ VoltsRemembered' /\ SameSample' /\ LastPassed'
  BY <1>1, <1>2, <1>6 DEF IntegratorInv, EnergyMissesOnlyNeighbours, VoltsRemembered,
                          SameSample, LastPassed
<1>11. CalibratedIsRawLessOffset'
  BY <1>1, <1>6 DEF IntegratorInv, CalibratedIsRawLessOffset
<1>12. UnwarnedNeverClamps'
  BY <1>1, <1>6 DEF IntegratorInv, UnwarnedNeverClamps
<1> QED BY <1>7, <1>8, <1>9, <1>10, <1>11, <1>12 DEF IntegratorInv

\* A restart forgets the last frame on both sides, and what was cut.
LEMMA RestartKeepsInv ==
  ASSUME IntegratorInv, NEW c \in Files, restart(c)
  PROVE  IntegratorInv'
<1> DEFINE starts == seen.starts + 1
<1>1. /\ config' = c /\ c \in Configs /\ last' = None /\ live' = None /\ elapsed' = 0
      /\ seen' = [seen EXCEPT !.starts = starts, !.clamps = {}]
      /\ staged' = staged /\ dev' = dev /\ now' = now
  BY FilesAssumption DEF restart
<1>2. seen = [k \in SeenFields |-> seen[k]]
  BY DEF IntegratorInv, SeenTypes
<1>3. seen' = [k \in SeenFields |-> seen'[k]]
  <2> HIDE DEF SeenFields, starts
  <2> QED BY <1>1, <1>2
<1>4. /\ seen'.starts = starts /\ seen'.clamps = {}
      /\ seen'.jumps = seen.jumps /\ seen'.allowance = seen.allowance
      /\ seen'.frames = seen.frames
      /\ seen'.integrated = seen.integrated /\ seen'.covered = seen.covered
      /\ seen'.lit = seen.lit /\ seen'.dark = seen.dark /\ seen'.volts = seen.volts
      /\ seen'.offset_area = seen.offset_area /\ seen'.cut = seen.cut
  <2> HIDE DEF starts
  <2> QED BY <1>1, <1>2 DEF SeenFields
<1>5. SeenTypes'
  BY <1>3, <1>4 DEF IntegratorInv, SeenTypes
<1>6. FrameTypes' /\ TotalTypes'
  BY <1>1 DEF IntegratorInv, FrameTypes, TotalTypes
<1>7. ClockDebt'
  <2>1. /\ seen.integrated \in Int /\ seen.covered \in Int /\ seen.allowance \in Int
        /\ ClockDebt /\ opts.coulomb_max_gap_secs \in Nat
    BY Options DEF IntegratorInv, SeenTypes, FrameTypes
  <2> DEFINE off == Abs(seen.integrated - seen.covered)
  <2>2. off \in Int
    BY <2>1 DEF Abs
  <2>3. off <= seen.allowance
    <3> DEFINE gap == opts.coulomb_max_gap_secs
    <3> HIDE DEF off
    <3>1. off + (IF last # None /\ now - last.ts # elapsed THEN gap ELSE 0) <= seen.allowance
      BY <2>1 DEF ClockDebt, off
    <3>2. gap \in Nat
      BY <2>1
    <3> HIDE DEF gap
    <3> QED BY <2>1, <2>2, <3>1, <3>2
  <2>4. off' = off
    BY <1>4 DEF Abs
  <2> HIDE DEF off
  <2>5. off' + (IF last' # None /\ now' - last'.ts # elapsed' THEN opts'.coulomb_max_gap_secs ELSE 0)
          <= seen'.allowance
    BY <1>1, <1>4, <2>2, <2>3, <2>4
  <2> QED BY <2>5 DEF ClockDebt, off
<1>8. /\ EnergyMissesOnlyNeighbours' /\ VoltsRemembered' /\ SameSample' /\ LastPassed'
  BY <1>1, <1>4 DEF IntegratorInv, EnergyMissesOnlyNeighbours, VoltsRemembered,
                    SameSample, LastPassed
<1>9. CalibratedIsRawLessOffset'
  BY <1>1, <1>4 DEF IntegratorInv, CalibratedIsRawLessOffset
<1>10. UnwarnedNeverClamps'
  BY <1>4 DEF UnwarnedNeverClamps
<1> QED BY <1>5, <1>6, <1>7, <1>8, <1>9, <1>10 DEF IntegratorInv

LEMMA StutterKeepsInv ==
  ASSUME IntegratorInv, UNCHANGED vars
  PROVE  IntegratorInv'
<1>1. /\ config' = config /\ last' = last /\ staged' = staged /\ live' = live /\ dev' = dev
      /\ now' = now /\ elapsed' = elapsed /\ seen' = seen
  BY DEF vars
<1>2. opts' = opts /\ limits' = limits
  BY <1>1, StableOptions
<1> QED BY <1>1, <1>2
  DEF IntegratorInv, FrameTypes, SeenTypes, TotalTypes, ClockDebt, VoltsRemembered, SameSample,
      LastPassed, EnergyMissesOnlyNeighbours, CalibratedIsRawLessOffset, UnwarnedNeverClamps

LEMMA InitHasInv ==
  ASSUME Init
  PROVE  IntegratorInv
<1>1. /\ config \in Files /\ last = None /\ live = None /\ now = 0 /\ elapsed = 0
      /\ staged.ah = Nothing /\ staged.cal_ah = Nothing /\ staged.balance_ah = 0
      /\ dev.x = 0 /\ dev.net = 0 /\ dev.bal = 0
      /\ seen = Unseen
  BY FilesAssumption DEF Init
<1>2. FrameTypes
  BY <1>1 DEF FrameTypes
<1>3. SeenTypes
  <2>1. Unseen = [k \in SeenFields |-> Unseen[k]]
    BY DEF Unseen, SeenFields
  <2>2. /\ Unseen.frames = 0 /\ Unseen.jumps = 0 /\ Unseen.starts = 1
        /\ Unseen.integrated = 0 /\ Unseen.covered = 0 /\ Unseen.allowance = 0
        /\ Unseen.lit = 0 /\ Unseen.dark = 0 /\ Unseen.offset_area = 0
    BY DEF Unseen
  <2> QED BY <1>1, <2>1, <2>2 DEF SeenTypes
<1>4. TotalTypes
  BY <1>1, NothingIs DEF TotalTypes, IsSplit
<1>5. /\ seen.integrated = 0 /\ seen.covered = 0 /\ seen.allowance = 0
      /\ seen.lit = 0 /\ seen.dark = 0 /\ seen.offset_area = 0 /\ seen.clamps = {}
  BY <1>1 DEF Unseen
<1>6. ClockDebt /\ EnergyMissesOnlyNeighbours /\ VoltsRemembered /\ SameSample /\ LastPassed
  BY <1>1, <1>5 DEF ClockDebt, EnergyMissesOnlyNeighbours, VoltsRemembered, SameSample,
                    LastPassed, Abs
<1>7. CalibratedIsRawLessOffset
  BY <1>1, <1>5, NothingIs DEF CalibratedIsRawLessOffset
<1>8. UnwarnedNeverClamps
  BY <1>5 DEF UnwarnedNeverClamps
<1> QED BY <1>2, <1>3, <1>4, <1>6, <1>7, <1>8 DEF IntegratorInv

THEOREM IntegratorInvariant == Spec => []IntegratorInv
<1>1. Init => IntegratorInv
  BY InitHasInv
<1>2. IntegratorInv /\ [Next]_vars => IntegratorInv'
  <2> SUFFICES ASSUME IntegratorInv, [Next]_vars PROVE IntegratorInv'
    OBVIOUS
  <2>1. ASSUME NEW d \in Readings, Drop(d) PROVE IntegratorInv'
    BY <2>1, StutterKeepsInv DEF Drop
  <2>2. ASSUME NEW d \in Readings, NEW offset \in Offsets, accumulate_coulombs(d, offset)
        PROVE  IntegratorInv'
    BY <2>2, FrameKeepsInv
  <2>3. ASSUME NEW t \in TimeSteps, Wait(t) PROVE IntegratorInv'
    BY <2>3, WaitKeepsInv
  <2>4. ASSUME NEW j \in Jumps, ClockJump(j) PROVE IntegratorInv'
    BY <2>4, JumpKeepsInv
  <2>5. ASSUME NEW c \in Files, restart(c) PROVE IntegratorInv'
    BY <2>5, RestartKeepsInv
  <2>6. CASE UNCHANGED vars
    BY <2>6, StutterKeepsInv
  <2> QED BY <2>1, <2>2, <2>3, <2>4, <2>5, <2>6 DEF Next
<1> QED BY <1>1, <1>2, PTL DEF Spec

-----------------------------------------------------------------------------
(* The properties.                                                         *)

\* However often and however far the wall clock is set, the seconds in the
\* counters are the seconds that passed, up to one gap for each time.
THEOREM ClockJumps == Spec => []ClockJumpsCostOneGapEach
<1>1. IntegratorInv => ClockJumpsCostOneGapEach
  <2> SUFFICES ASSUME IntegratorInv PROVE ClockJumpsCostOneGapEach
    OBVIOUS
  <2> DEFINE off == Abs(seen.integrated - seen.covered)
             debt == last # None /\ now - last.ts # elapsed
             gap == opts.coulomb_max_gap_secs
  <2>1. seen.integrated \in Int /\ seen.covered \in Int /\ seen.allowance \in Int
    BY DEF IntegratorInv, SeenTypes
  <2>2. off \in Int
    BY <2>1 DEF Abs
  <2>3. gap \in Nat
    BY Options DEF IntegratorInv, FrameTypes
  <2>4. off + (IF debt THEN gap ELSE 0) <= seen.allowance
    BY DEF IntegratorInv, ClockDebt
  <2> HIDE DEF off, gap, debt
  <2>5. off <= seen.allowance
    BY <2>1, <2>2, <2>3, <2>4
  <2> QED BY <2>5 DEF off, ClockJumpsCostOneGapEach
<1> QED BY <1>1, IntegratorInvariant, PTL

\* Every integrated second is in the energy totals or beside a frame that told
\* no voltage.
THEOREM EnergyGaps == Spec => []EnergyMissesOnlyNeighbours
<1>1. IntegratorInv => EnergyMissesOnlyNeighbours
  BY DEF IntegratorInv
<1> QED BY <1>1, IntegratorInvariant, PTL

\* Without a cut, the calibrated charge is the raw charge less the integral of
\* the published offsets.
THEOREM CalibratedCharge == Spec => []CalibratedIsRawLessOffset
<1>1. IntegratorInv => CalibratedIsRawLessOffset
  BY DEF IntegratorInv
<1> QED BY <1>1, IntegratorInvariant, PTL

\* No file that passes start-up without a warning has its readings cut.
THEOREM UnwarnedIsUncut == Spec => []UnwarnedNeverClamps
<1>1. IntegratorInv => UnwarnedNeverClamps
  BY DEF IntegratorInv
<1> QED BY <1>1, IntegratorInvariant, PTL

\* The process runs on numbers in range, whatever its file holds.
THEOREM SaneRuns == Spec => []RunsOnSaneConfig
<1>1. IntegratorInv => RunsOnSaneConfig
  BY ResetSound, FilesAssumption DEF IntegratorInv, FrameTypes, RunsOnSaneConfig
<1> QED BY <1>1, IntegratorInvariant, PTL

\* With the calibration on, a frame adds the same to the estimator's integrals
\* as to the raw counters, unless a ceiling cuts the latter.
LEMMA FrameMeasuresTheSame ==
  ASSUME IntegratorInv, opts.calibration_enabled,
         NEW d \in Readings, NEW offset \in Offsets, accumulate_coulombs(d, offset)
  PROVE  /\ dev'.x - dev.x = seen'.integrated - seen.integrated
         /\ "ah" \notin seen'.clamps =>
              dev'.net - dev.net = Net(staged'.ah) - Net(staged.ah)
         /\ "balance_ah" \notin seen'.clamps =>
              dev'.bal - dev.bal = staged'.balance_ah - staged.balance_ah
<1> USE Accumulated
<1> DEFINE delta == Integrals(d, offset)
           product == (last.current + d.current_a) * Seconds
           bleed == (AtLeastZero(last.balance_a) + AtLeastZero(d.balance_current_a)) * Seconds
<1>1. FrameTypes /\ SeenTypes /\ TotalTypes /\ SameSample
  BY DEF IntegratorInv
<1>2. dev' = integrate(d)
  OBVIOUS
<1>3. last = None => dev' = dev
  BY <1>1, <1>2, IntegrateIs DEF SameSample
<1>4. last # None =>
        /\ dev'.x = dev.x + Seconds
        /\ dev'.net = dev.net + product
        /\ dev'.bal = dev.bal + (IF BothBleeds(d) THEN bleed ELSE 0)
  <2> SUFFICES ASSUME last # None
               PROVE  /\ dev'.x = dev.x + Seconds
                      /\ dev'.net = dev.net + product
                      /\ dev'.bal = dev.bal + (IF BothBleeds(d) THEN bleed ELSE 0)
    OBVIOUS
  <2>1. /\ live # None /\ live.ts = last.ts /\ live.current = last.current
        /\ live.balance_a = last.balance_a
    BY <1>1 DEF SameSample
  <2>2. LET dt == AtLeastZero(Least(now - live.ts, opts.coulomb_max_gap_secs))
        IN  /\ dev'.x = dev.x + dt
            /\ dev'.net = dev.net + (live.current + d.current_a) * dt
            /\ dev'.bal = dev.bal
                 + (IF live.balance_a # None /\ d.balance_current_a # None
                    THEN (AtLeastZero(live.balance_a)
                          + AtLeastZero(d.balance_current_a)) * dt
                    ELSE 0)
    BY <1>1, <1>2, <2>1, IntegrateIs
  <2> QED BY <2>1, <2>2 DEF Seconds, BothBleeds
<1>5. /\ IsSplit(delta.ah)
      /\ last = None => Net(delta.ah) = 0
      /\ last # None => Net(delta.ah) = product
  BY <1>1, FrameCharge
<1>6. /\ IsSplit(delta.balance_ah)
      /\ delta.balance_ah.charge = IF last # None /\ BothBleeds(d) THEN bleed ELSE 0
  BY <1>1, FrameBleed
<1>7. seen'.clamps = seen.clamps \cup Cut(d, offset)
  BY <1>1, NotedFields
<1>8. ASSUME "ah" \notin seen'.clamps
      PROVE  Net(staged'.ah) = Net(staged.ah) + Net(delta.ah)
  <2>1. clamped(delta.ah, opts.max_frame_amp_hours) = delta.ah
    BY <1>7, <1>8, CeilingIs DEF Cut, Quantities
  <2>2. staged'.ah = Plus(staged.ah, delta.ah)
    BY <2>1
  <2> QED BY <1>1, <1>5, <2>2, PlusTypes DEF TotalTypes
<1>9. ASSUME "balance_ah" \notin seen'.clamps
      PROVE  staged'.balance_ah = staged.balance_ah + delta.balance_ah.charge
  <2>1. clamped(delta.balance_ah, opts.max_frame_amp_hours) = delta.balance_ah
    BY <1>7, <1>9, CeilingIs DEF Cut, Quantities
  <2> QED BY <2>1
<1>10. seen'.integrated = seen.integrated + (IF last # None THEN Seconds ELSE 0)
  BY <1>1, NotedFields
<1>11. /\ dev.x \in Int /\ dev.net \in Int /\ dev.bal \in Int
       /\ seen.integrated \in Int /\ staged.balance_ah \in Int /\ Net(staged.ah) \in Int
  BY <1>1 DEF TotalTypes, SeenTypes, IsSplit, Net
<1>12. last # None =>
         /\ Seconds \in Int /\ product \in Int
         /\ BothBleeds(d) => bleed \in Int
  <2> SUFFICES ASSUME last # None
               PROVE  Seconds \in Int /\ product \in Int /\ (BothBleeds(d) => bleed \in Int)
    OBVIOUS
  <2>1. Seconds \in Int /\ last.current \in Int /\ d.current_a \in Int
    BY <1>1, LastFields, SecondsInGap, ReadingFields
  <2>2. BothBleeds(d) => AtLeastZero(last.balance_a) \in Int /\ AtLeastZero(d.balance_current_a) \in Int
    BY <1>1, LastFields, ReadingFields DEF BothBleeds, AtLeastZero
  <2> QED BY <2>1, <2>2
<1> HIDE DEF delta, product, bleed
<1>13. dev'.x - dev.x = seen'.integrated - seen.integrated
  BY <1>3, <1>4, <1>10, <1>11, <1>12
<1>14. ASSUME "ah" \notin seen'.clamps
       PROVE  dev'.net - dev.net = Net(staged'.ah) - Net(staged.ah)
  BY <1>3, <1>4, <1>5, <1>8, <1>11, <1>12, <1>14
<1>15. ASSUME "balance_ah" \notin seen'.clamps
       PROVE  dev'.bal - dev.bal = staged'.balance_ah - staged.balance_ah
  BY <1>3, <1>4, <1>6, <1>9, <1>11, <1>12, <1>15
<1> QED BY <1>13, <1>14, <1>15

\* The interval cap, the clock and the bleed of the estimator are those of the
\* counters, on every frame of every run.
THEOREM SameMeasure == Spec => EstimatorIntegratesTheSame
<1> DEFINE Same ==
      opts.calibration_enabled /\ seen'.frames > seen.frames =>
        /\ dev'.x - dev.x = seen'.integrated - seen.integrated
        /\ "ah" \notin seen'.clamps =>
             dev'.net - dev.net = Net(staged'.ah) - Net(staged.ah)
        /\ "balance_ah" \notin seen'.clamps =>
             dev'.bal - dev.bal = staged'.balance_ah - staged.balance_ah
<1>1. IntegratorInv /\ [Next]_vars => [Same]_vars
  <2> SUFFICES ASSUME IntegratorInv, Next PROVE Same \/ UNCHANGED vars
    OBVIOUS
  <2>1. seen.frames \in Nat /\ seen = [k \in SeenFields |-> seen[k]]
    BY DEF IntegratorInv, SeenTypes
  <2>2. ASSUME NEW d \in Readings, Drop(d) PROVE UNCHANGED vars
    BY <2>2 DEF Drop
  <2>3. ASSUME NEW d \in Readings, NEW offset \in Offsets, accumulate_coulombs(d, offset)
        PROVE  Same
    BY <2>3, FrameMeasuresTheSame
  <2>4. ASSUME NEW t \in TimeSteps, Wait(t) PROVE Same
    BY <2>1, <2>4 DEF Wait
  <2>5. ASSUME NEW j \in Jumps, ClockJump(j) PROVE Same
    <3>1. seen'.frames = seen.frames
      BY <2>1, <2>5 DEF ClockJump, SeenFields
    <3> QED BY <2>1, <3>1
  <2>6. ASSUME NEW c \in Files, restart(c) PROVE Same
    <3>1. seen'.frames = seen.frames
      BY <2>1, <2>6 DEF restart, SeenFields
    <3> QED BY <2>1, <3>1
  <2> QED BY <2>2, <2>3, <2>4, <2>5, <2>6 DEF Next
<1> QED BY <1>1, IntegratorInvariant, PTL DEF Spec, EstimatorIntegratesTheSame

=============================================================================
