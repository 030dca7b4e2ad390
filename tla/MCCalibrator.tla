---------------------------- MODULE MCCalibrator ----------------------------
(* Small banks: one pack whose configuration changes, two packs with        *)
(* opposite zero errors, or three of which two agree; the estimates are     *)
(* right or wrong by the distance of the errors.                            *)
EXTENDS Calibrator, TLC

OneZero == 1 :> -3
TwoZeros == 1 :> -3 @@ 2 :> 3
ThreeZeros == 1 :> -3 @@ 2 :> 3 @@ 3 :> 3

AnyFit == [slope : {-3, 3}, noisy : BOOLEAN]
CleanFit == [slope : {-3, 3}, noisy : {FALSE}]

Options(max_anchor, max_offset, tau, min_span) ==
  [max_anchor |-> max_anchor, max_offset |-> max_offset, max_disagreement |-> 1,
   tau |-> tau, min_span |-> min_span]

\* A start may find a later warm-up and a tighter clamp than the one before it,
\* or a shorter window.
Patient == Options(1, 1, 4, 4)
Eager == Options(1, 2, 4, 3)
Forgetful == Options(2, 2, 1, 3)
Reconfigured == {Patient, Eager, Forgetful}

Fixed == {Options(1, 1, 1, 1)}
Slow == {Options(1, 1, 5, 5)}
PutOnWatch == {Options(1, 2, 5, 5), Options(0, 2, 5, 5)}

\* Without a flush, or with one of which two packs without a fit are on file.
NothingSaved == file = Fresh
YoungFile ==
  DOMAIN file.devices \in {{}, {1, 2}} /\ \A s \in DOMAIN file.devices : file.devices[s].span = 0
=============================================================================
