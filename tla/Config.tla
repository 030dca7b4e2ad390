------------------------------- MODULE Config -------------------------------
(***************************************************************************)
(* What config.rs makes of the numbers of a YAML file: out-of-range knobs  *)
(* are replaced by their defaults, the ceilings that would eat legitimate  *)
(* readings are warned about, and the rest of the program sees the result  *)
(* only through MetricsOptions and PlausibilityLimits.  A float is an      *)
(* integer in a unit of its own, one of the two infinities, or NaN, which  *)
(* compares false with everything: a YAML file can spell each of them.     *)
(* (The strings and sizes of the file that nothing validates are left      *)
(* out.)                                                                   *)
(***************************************************************************)
EXTENDS Integers

CONSTANTS
  NaN,              \* the float that is not a number
  PosInf, NegInf    \* .inf and -.inf

ASSUME FloatAssumption ==
  /\ {NaN, PosInf, NegInf} \cap Int = {}
  /\ NaN # PosInf /\ NaN # NegInf /\ PosInf # NegInf

Hour == 3600

Float == Int \cup {PosInf, NegInf, NaN}

\* Volts, amperes, Ah, Wh, hours, seconds; the thresholds of the calibration
\* in milliamperes.
Default ==
  [coulomb_state_min_interval_secs |-> 5, coulomb_max_gap_secs |-> 900,
   max_plausible_current_amperes |-> 100,
   min_plausible_pack_volts |-> 18, max_plausible_pack_volts |-> 34,
   max_frame_amp_hours |-> 25, max_frame_watt_hours |-> 900,
   calibration_enabled |-> TRUE,
   calibration_tau_hours |-> 1440, calibration_min_span_hours |-> 168,
   calibration_max_offset_amperes |-> 500,
   calibration_max_anchor_error_amperes |-> 50,
   calibration_peer_max_disagreement_amperes |-> 250]

Configs ==
  [coulomb_state_min_interval_secs : Nat, coulomb_max_gap_secs : Nat,
   max_plausible_current_amperes : Float,
   min_plausible_pack_volts : Float, max_plausible_pack_volts : Float,
   max_frame_amp_hours : Float, max_frame_watt_hours : Float,
   calibration_enabled : BOOLEAN,
   calibration_tau_hours : Float, calibration_min_span_hours : Float,
   calibration_max_offset_amperes : Float,
   calibration_max_anchor_error_amperes : Float,
   calibration_peer_max_disagreement_amperes : Float]

-----------------------------------------------------------------------------
(* Floats.  Every comparison with NaN is false, and zero times infinity is *)
(* NaN.                                                                    *)

le(a, b) ==
  /\ a # NaN /\ b # NaN
  /\ \/ a = NegInf \/ b = PosInf
     \/ a \in Int /\ b \in Int /\ a <= b

lt(a, b) == le(a, b) /\ a # b

Times(a, b) ==
  IF a \in Int /\ b \in Int THEN a * b
  ELSE IF a = NaN \/ b = NaN \/ a = 0 \/ b = 0 THEN NaN
  ELSE IF lt(a, 0) <=> lt(b, 0) THEN PosInf ELSE NegInf

\* Seeded fault: `value <= 0` alone decides, and NaN gets through.
Positive_unless_le(v) == ~le(v, 0)

\* Not (is_nan || <= 0), and not (is_nan || < 0).
Positive(v) == v # NaN /\ ~le(v, 0)

NotNegative(v) == v # NaN /\ ~lt(v, 0)

\* An ordered pair of numbers.
IsWindow(min, max) == min # NaN /\ max # NaN /\ ~le(max, min)

-----------------------------------------------------------------------------
\* The second half of the reset.
reset_calibration_out_of_range(c) ==
  [c EXCEPT
     !.calibration_tau_hours =
        IF Positive(@) THEN @ ELSE Default.calibration_tau_hours,
     !.calibration_min_span_hours =
        IF NotNegative(@) THEN @ ELSE Default.calibration_min_span_hours,
     !.calibration_max_offset_amperes =
        IF NotNegative(@) THEN @ ELSE Default.calibration_max_offset_amperes,
     !.calibration_max_anchor_error_amperes =
        IF NotNegative(@) THEN @ ELSE Default.calibration_max_anchor_error_amperes,
     !.calibration_peer_max_disagreement_amperes =
        IF Positive(@) THEN @ ELSE Default.calibration_peer_max_disagreement_amperes]

\* Each knob by itself, but for the two volts, which stand or fall together.
reset_out_of_range_to_defaults(c) ==
  LET window == IsWindow(c.min_plausible_pack_volts, c.max_plausible_pack_volts)
      first ==
        [c EXCEPT
           !.coulomb_state_min_interval_secs =
              IF @ \in 1..3600 THEN @ ELSE Default.coulomb_state_min_interval_secs,
           !.max_plausible_current_amperes =
              IF Positive(@) THEN @ ELSE Default.max_plausible_current_amperes,
           !.min_plausible_pack_volts =
              IF window THEN @ ELSE Default.min_plausible_pack_volts,
           !.max_plausible_pack_volts =
              IF window THEN @ ELSE Default.max_plausible_pack_volts,
           !.max_frame_amp_hours =
              IF Positive(@) THEN @ ELSE Default.max_frame_amp_hours,
           !.max_frame_watt_hours =
              IF Positive(@) THEN @ ELSE Default.max_frame_watt_hours]
  IN  reset_calibration_out_of_range(first)

\* The ceilings start-up warns are below what the gate and the gap allow
\* together, multiplied out to be exact: a ceiling is below only what it
\* compares less than.  The watt-hours are judged before a number is put in
\* place of one that is none.
CeilingWarnings(c) ==
  LET r == reset_out_of_range_to_defaults(c)
      reachable_ah == Times(r.max_plausible_current_amperes, r.coulomb_max_gap_secs)
      reachable_wh == Times(reachable_ah, r.max_plausible_pack_volts)
  IN  {w \in {"ah", "wh"} :
         \/ w = "ah" /\ lt(Times(r.max_frame_amp_hours, Hour), reachable_ah)
         \/ w = "wh" /\ lt(Times(c.max_frame_watt_hours, Hour), reachable_wh)}

\* From<&Config> for MetricsOptions, as far as the integration goes.  The
\* estimator gets the interval cap of the counters.
MetricsOptions(c) ==
  [coulomb_max_gap_secs |-> c.coulomb_max_gap_secs,
   max_frame_amp_hours |-> c.max_frame_amp_hours,
   max_frame_watt_hours |-> c.max_frame_watt_hours,
   calibration_enabled |-> c.calibration_enabled,
   calibration |-> [max_gap_secs |-> c.coulomb_max_gap_secs]]

\* From<&Config> for PlausibilityLimits.
PlausibilityLimits(c) ==
  [max_current_a |-> c.max_plausible_current_amperes,
   pack_volts |-> <<c.min_plausible_pack_volts, c.max_plausible_pack_volts>>]

-----------------------------------------------------------------------------
(* Properties.                                                             *)

\* What the rest of the program takes for granted of its configuration: every
\* number compares, and on the right side of zero.  None need be finite.
Sane(c) ==
  /\ c.coulomb_state_min_interval_secs \in 1..3600
  /\ \A v \in {c.max_plausible_current_amperes, c.max_frame_amp_hours,
               c.max_frame_watt_hours, c.calibration_tau_hours,
               c.calibration_peer_max_disagreement_amperes} : lt(0, v)
  /\ \A v \in {c.calibration_min_span_hours, c.calibration_max_offset_amperes,
               c.calibration_max_anchor_error_amperes} : le(0, v)
  /\ lt(c.min_plausible_pack_volts, c.max_plausible_pack_volts)

\* Whatever float a file spells, what start-up leaves of it is in range, a
\* second pass would change nothing, and a file that is in range already is
\* taken as it stands: no NaN, no negative and no inverted pair switches the
\* gate or a ceiling off.  An infinity on the right side of zero does, and
\* counts as in range.
ResetIsSound(c) ==
  LET r == reset_out_of_range_to_defaults(c)
  IN  Sane(r) /\ reset_out_of_range_to_defaults(r) = r /\ (r = c <=> Sane(c))

=============================================================================
