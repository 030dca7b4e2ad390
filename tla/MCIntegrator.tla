---------------------------- MODULE MCIntegrator ----------------------------
(* Readings at the edges of the default gate, with registers missing, and   *)
(* three configurations: the default one with a wider clamp on the offset,  *)
(* one whose gate is misspelt and whose calibration is off, and one that    *)
(* spells infinities on either side.                                        *)
EXTENDS Integrator

Reading(i, v, b) == [current_a |-> i, pack_v |-> v, balance_current_a |-> b]

EdgeReadings ==
  {Reading(100, 34, 1), Reading(-100, None, 1), Reading(40, 18, None),
   Reading(-300, 24, 0), Reading(None, 24, 0)}

Generous == [Default EXCEPT !.calibration_max_offset_amperes = 2000]
Misspelt == [Default EXCEPT !.coulomb_state_min_interval_secs = 0,
                            !.max_plausible_current_amperes = NaN,
                            !.calibration_tau_hours = 0,
                            !.calibration_min_span_hours = -1,
                            !.max_plausible_pack_volts = 10,
                            !.calibration_enabled = FALSE]
Infinite == [Default EXCEPT !.max_plausible_current_amperes = PosInf,
                            !.max_frame_amp_hours = PosInf,
                            !.max_plausible_pack_volts = PosInf,
                            !.max_frame_watt_hours = NegInf,
                            !.calibration_tau_hours = PosInf,
                            !.calibration_max_offset_amperes = NegInf]
StartFiles == {Generous, Misspelt, Infinite}

SmallOffsets == {0, 2}
Adjustments == {-10000, 700}
=============================================================================
