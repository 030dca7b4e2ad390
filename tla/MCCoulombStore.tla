--------------------------- MODULE MCCoulombStore ---------------------------
(* Model-checking instances of CoulombStore: the sets the .cfg files name. *)
EXTENDS CoulombStore

OneWorker  == {1}
TwoWorkers == {1, 2}

OneSerial    == {1}
TwoSerials   == {1, 2}
ThreeSerials == {1, 2, 3}

\* Two ULPs, so that a delta is never mistaken for the one ULP of bump_ulp.
SmallDeltas == {0, 2}

NoCarriedFile == {}
CarriedTotals == {0, 3}
=============================================================================
