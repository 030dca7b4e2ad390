----------------------------- MODULE Calibrator -----------------------------
(***************************************************************************)
(* The current-sensor self-calibration of calibration.rs: what decides     *)
(* whether a device's estimated zero error is subtracted from its current. *)
(*                                                                         *)
(* Every realtime frame runs observe, which does three things in order:    *)
(* integrate pushes a point into the device's closure fit, update_peers    *)
(* pushes a point into the fit of every pair the frame can be matched      *)
(* with, and recompute passes the closure slope through its gates (a fit,  *)
(* the warm-up, the noise, the veto of the peers) and either applies it or *)
(* keeps what was applied before.  A flush of metrics.rs puts the fits and *)
(* what is applied on file; a restart reads what the last one left there,  *)
(* which may be older than what was in memory, and with it a configuration *)
(* that may be another one.  The previous frames are forgotten.            *)
(*                                                                         *)
(* The regressions are abstracted to what their readers tell apart.  A     *)
(* closure fit is its weight in whole points up to Enough, and then any    *)
(* line of Fits: no bound is put on what the state of charge may do to it, *)
(* nor on how much is forgotten from one point to the next.  A pair        *)
(* fit is its intercept and whether it qualifies; pair_live only ages it.  *)
(* A frame of s reads Zero[s], the current of the bank being the same for  *)
(* all and cancelling in the intercept.  A time stamp is kept only as what *)
(* it decides: whether a frame follows another at a later instant, and     *)
(* which peers reported within peer_max_skew_secs of it.  A flush is one   *)
(* step, nothing of the calibrator being read between its parts; what a    *)
(* power loss may do to a rename is in CoulombStore.                       *)
(***************************************************************************)
EXTENDS Integers, FiniteSetsExt, Functions

CONSTANTS
  Serials,          \* the serials, ordered like the keys of the BTreeMap
  Zero,             \* [Serials -> Int], the zero error in each raw reading
  Fits,             \* the [slope, noisy] a closure fit may return
  Remaining,        \* remaining capacities a frame may carry
  Hints,            \* rated capacities known from config frames, 0 for none
  Enough,           \* the samples EwFit::fit needs, 3 in the code
  Configs,          \* the options a start may find
  SpanCap           \* where the span saturates

ASSUME SerialsAssumption == Serials \subseteq Nat /\ IsFiniteSet(Serials)
ASSUME ZeroAssumption == Zero \in [Serials -> Int] /\ Fits \subseteq [slope : Int, noisy : BOOLEAN]
ASSUME CapacityAssumption == Remaining \subseteq Nat /\ Hints \subseteq Nat

\* max_anchor_error_amperes, max_offset_amperes, peer_max_disagreement_amperes;
\* tau_hours and min_span_hours in units of one frame.
ASSUME OptionsAssumption ==
  /\ Enough \in Nat \ {0}
  /\ Configs \subseteq [max_anchor : Nat, max_offset : Nat, max_disagreement : Nat \ {0},
                       tau : Nat \ {0}, min_span : Nat]

\* The span saturates where no gate can tell its values apart any more.
ASSUME SpanAssumption ==
  SpanCap \in Nat /\ \A o \in Configs : o.tau <= SpanCap /\ o.min_span <= SpanCap

VARIABLES
  opts,     \* Calibrator.opts: the part of it the configuration sets
  devices,  \* State.devices: [tracked serial -> fit, span, capacity, applied]
  pairs,    \* State.pairs: [<<a, b>> with a < b -> intercept, qualifies]
  live,     \* Live: [serial seen since the start -> hold]
  file      \* CoulombState.calibration in the state file

vars == <<opts, devices, pairs, live, file>>

Absent == -1    \* remaining_ah not in the frame
Holds == {"None", "Warmup", "NoFit", "Noisy", "PeerDisagreement"}

NewDevice == [n |-> 0, slope |-> 0, noisy |-> FALSE,
              span |-> 0, capacity |-> 0, applied |-> 0]

\* entry(sn).or_default()
Entry(s) == IF s \in DOMAIN devices THEN devices[s] ELSE NewDevice

-----------------------------------------------------------------------------
(***************************************************************************)
(* integrate.                                                              *)
(***************************************************************************)

HasFit(d) == d.n = Enough

\* What one more point can make of a closure fit, after the older ones have
\* been discounted by as much as tau_hours makes of the gap: its weight may
\* even fall, and with Enough of it there is a line, any of Fits.
Pushed(d) ==
  {[d EXCEPT !.n = n, !.slope = 0, !.noisy = FALSE] : n \in 1..Min({d.n + 1, Enough - 1})}
  \cup
    IF d.n + 1 < Enough THEN {}
    ELSE {[d EXCEPT !.n = Enough, !.slope = f.slope, !.noisy = f.noisy] : f \in Fits}

\* A frame that follows another one at a later instant: time always passes,
\* the fit gets its point only if the frame carries the remaining capacity,
\* and the capacity is the high-water mark of all that was ever reported.
Integrated(d, q, hint) ==
  LET aged == [d EXCEPT !.span = Min({@ + 1, SpanCap})]
  IN  IF q = Absent THEN {aged}
      ELSE Pushed([aged EXCEPT !.capacity = Max({@, hint, q})])

\* The first frame since the start, or one the clock says is not later,
\* integrates nothing.
integrate(s) ==
  {Entry(s)} \cup
    IF s \notin DOMAIN live THEN {}
    ELSE UNION {Integrated(Entry(s), q, hint) :
                  q \in Remaining \cup {Absent}, hint \in Hints}

-----------------------------------------------------------------------------
(***************************************************************************)
(* update_peers.                                                           *)
(***************************************************************************)

pair_key(a, b) == IF a < b THEN <<a, b>> ELSE <<b, a>>

\* The second component of the code's pair_key.
flipped(a, b) == ~(a < b)

\* Seeded fault: the sender's reading is x, whichever serial is the larger.
Intercept_unordered(s, o) == Zero[o] - Zero[s]

\* The intercept of the line through a frame of s and one of o: the reading
\* of the larger serial less that of the smaller, whoever sent the frame.
Intercept(s, o) ==
  LET x == IF flipped(s, o) THEN Zero[o] ELSE Zero[s]
      y == IF flipped(s, o) THEN Zero[s] ELSE Zero[o]
  IN  y - x

\* The pair fits after a frame of s matched with each of the peers: the first
\* point of a pair does not make it qualify (peer_min_weight), a later one
\* leaves it qualifying or not, whatever it was before.
update_peers(s, peers) ==
  LET touched == {pair_key(s, o) : o \in peers}
      Refit(ok) ==
        [p \in DOMAIN pairs \cup touched |->
           IF p \in touched
           THEN [intercept |-> Intercept(s, CHOOSE o \in peers : pair_key(s, o) = p),
                 qualifies |-> p \in ok]
           ELSE pairs[p]]
  IN  {Refit(ok) : ok \in SUBSET (touched \cap DOMAIN pairs)}

-----------------------------------------------------------------------------
(***************************************************************************)
(* recompute.  ds and ps are the devices and the pairs after the two steps *)
(* above.                                                                  *)
(***************************************************************************)

\* min(span, tau), the window of the anchor bound.
Window(d, o) == Min({d.span, o.tau})

\* Seeded fault: without the early return for an unknown capacity.
AnchorTight_unknown(d, o) ==
  /\ Window(d, o) > 0
  /\ d.capacity <= o.max_anchor * Window(d, o)

\* anchor_error(...) <= max_anchor_error_amperes, with the quotient
\* multiplied out: the bound is infinite while either term is not positive.
AnchorTight(d, o) ==
  /\ d.capacity > 0
  /\ Window(d, o) > 0
  /\ d.capacity <= o.max_anchor * Window(d, o)

\* Past the warm-up: what recompute asks of the device it is about.
Eligible(d, o) == HasFit(d) /\ d.span >= o.min_span /\ AnchorTight(d, o)

\* Seeded fault: the clamp of one side only.
clamp_above(x, bound) == Min({x, bound})

clamp(x, bound) == Max({-bound, Min({x, bound})})

Abs(x) == IF x < 0 THEN -x ELSE x

\* relative_offset: the zero error of s less that of o, read off their pair.
Relative(s, o, ps) ==
  IF flipped(s, o) THEN ps[pair_key(s, o)].intercept
  ELSE -ps[pair_key(s, o)].intercept

\* The peers of peer_reports: every tracked device with a qualifying pair
\* with s and a closure fit of its own.
PeersOf(s, ds, ps) ==
  {o \in DOMAIN ds \ {s} :
     /\ HasFit(ds[s]) /\ HasFit(ds[o])
     /\ pair_key(s, o) \in DOMAIN ps
     /\ ps[pair_key(s, o)].qualifies}

\* PeerReport.disagreement
Disagreement(s, o, ds, ps) ==
  Abs(Relative(s, o, ps) - (ds[s].slope - ds[o].slope))

\* Seeded fault: the veto is asked of the one peer that is published.
WorstDisagreement_published(s, ds, ps) ==
  IF PeersOf(s, ds, ps) = {} THEN 0
  ELSE Disagreement(s, Min(PeersOf(s, ds, ps)), ds, ps)

\* peer_disagreement: the largest over the peers, 0 when there is none.
WorstDisagreement(s, ds, ps) ==
  Max({0} \cup {Disagreement(s, o, ds, ps) : o \in PeersOf(s, ds, ps)})

\* The gates in the order of the code; the veto is asked last.
HoldOf(s, ds, ps, o) ==
  LET d == ds[s]
  IN  IF ~HasFit(d) THEN "NoFit"
      ELSE IF ~Eligible(d, o) THEN "Warmup"
      ELSE IF d.noisy THEN "Noisy"
      ELSE IF WorstDisagreement(s, ds, ps) > o.max_disagreement THEN "PeerDisagreement"
      ELSE "None"

\* Seeded fault: a held device falls back to its raw readings.
AppliedBy_reverting(d, hold, o) ==
  IF hold = "None" THEN clamp(d.slope, o.max_offset) ELSE 0

\* dev.applied after the gates.
AppliedBy(d, hold, o) ==
  IF hold = "None" THEN clamp(d.slope, o.max_offset) ELSE d.applied

-----------------------------------------------------------------------------
(***************************************************************************)
(* The life of the calibrator.                                             *)
(***************************************************************************)

\* What a start goes on without a file it can read.
Fresh == [devices |-> << >>, pairs |-> << >>]

Init ==
  /\ opts \in Configs
  /\ devices = << >>
  /\ pairs = << >>
  /\ live = << >>
  /\ file = Fresh

\* One realtime frame of s, with the calibration enabled.  The peers it is
\* matched with are those whose last frame is recent enough.
observe(s) ==
  \E d \in integrate(s), peers \in SUBSET (DOMAIN live \ {s}) :
    \E ps \in update_peers(s, peers) :
      LET ds == [u \in DOMAIN devices \cup {s} |-> IF u = s THEN d ELSE devices[u]]
          hold == HoldOf(s, ds, ps, opts)
      IN  /\ devices' = [ds EXCEPT ![s].applied = AppliedBy(d, hold, opts)]
          /\ pairs' = ps
          /\ live' = [u \in DOMAIN live \cup {s} |-> IF u = s THEN hold ELSE live[u]]
          /\ UNCHANGED <<opts, file>>

\* state(): a flush that succeeds puts the calibrator's state on file.  Between
\* two of them lie any number of frames, those the throttle holds back and
\* those whose write fails; the last one may be forced.
flush ==
  /\ file' = [devices |-> devices, pairs |-> pairs]
  /\ UNCHANGED <<opts, devices, pairs, live>>

\* Seeded fault: a pair is kept when any of its members is admitted.
restore_any(admitted) ==
  /\ opts' \in Configs
  /\ devices' = Restrict(file.devices, DOMAIN file.devices \cap admitted)
  /\ pairs' = Restrict(file.pairs,
                       {p \in DOMAIN file.pairs : {p[1], p[2]} \cap admitted # {}})
  /\ live' = << >>
  /\ UNCHANGED file

\* Seeded fault: the hold of the last frame outlives the restart.
restore_live(admitted) ==
  /\ opts' \in Configs
  /\ devices' = Restrict(file.devices, DOMAIN file.devices \cap admitted)
  /\ pairs' = Restrict(file.pairs,
                       {p \in DOMAIN file.pairs : {p[1], p[2]} \subseteq admitted})
  /\ live' = Restrict(live, DOMAIN live \cap DOMAIN file.devices \cap admitted)
  /\ UNCHANGED file

\* A kill or a shutdown at any time and the start after it, perhaps with
\* another configuration: restore keeps of what is on file the admitted
\* devices (none if it cannot be read) and the pairs both of whose members
\* are admitted; nothing of the live scratch survives.
restore(admitted) ==
  /\ opts' \in Configs
  /\ devices' = Restrict(file.devices, DOMAIN file.devices \cap admitted)
  /\ pairs' = Restrict(file.pairs,
                       {p \in DOMAIN file.pairs : {p[1], p[2]} \subseteq admitted})
  /\ live' = << >>
  /\ UNCHANGED file

Next ==
  \/ \E s \in Serials : observe(s)
  \/ flush
  \/ \E admitted \in SUBSET Serials : restore(admitted)

Spec == Init /\ [][Next]_vars

-----------------------------------------------------------------------------
(***************************************************************************)
(* Properties.                                                             *)
(***************************************************************************)

\* What some configuration allows to apply.
Clamps == UNION {-o.max_offset..o.max_offset : o \in Configs}

Device ==
  [n : 0..Enough, slope : Int, noisy : BOOLEAN, span : 0..SpanCap, capacity : Nat,
   applied : Clamps]

\* The shape of the state, in memory and on file; a correction is never beyond
\* the clamp of some configuration (calibration_max_offset_amperes).
TypeOK ==
  /\ opts \in Configs
  /\ \A saved \in {[devices |-> devices, pairs |-> pairs], file} :
       /\ DOMAIN saved.devices \subseteq Serials
       /\ \A s \in DOMAIN saved.devices : saved.devices[s] \in Device
       /\ \A p \in DOMAIN saved.pairs :
            saved.pairs[p] \in [intercept : Int, qualifies : BOOLEAN]
  /\ live \in [DOMAIN live -> Holds]

\* A configuration under which what is applied to d can have been applied.
EarnedUnder(d, o) ==
  /\ d.capacity > 0 /\ o.max_anchor > 0
  /\ d.span > 0 /\ d.span >= o.min_span
  /\ d.applied \in -o.max_offset..o.max_offset

\* No correction without the evidence for it: whatever restarts, from files
\* however old, and whatever reconfigurations lie in between, a device that is
\* corrected has a known capacity and, by one of the configurations there
\* were, has finished its warm-up and is within the clamp.  (By the one in
\* force it need not: calibration_min_span_hours may have been raised since, and
\* its fit may have lost its weight to a shorter tau or a gap.)
CorrectionsEarned ==
  \A s \in DOMAIN devices :
    devices[s].applied # 0 => \E o \in Configs : EarnedUnder(devices[s], o)

\* The hold gauge tells the truth: a device reported as applied and trusted is
\* corrected by its own estimate, as far as the clamp in force lets it.
HoldTells ==
  \A s \in DOMAIN live :
    live[s] = "None" =>
      LET d == devices[s]
          bound == opts.max_offset
      IN  /\ Eligible(d, opts) /\ ~d.noisy
          /\ d.applied \in -bound..bound
          /\ d.slope \in -bound..bound => d.applied = d.slope

\* A restart drops the pairs of a device it does not admit, and frames create
\* none but for tracked devices: no pair fit outlives either of its members
\* and waits for a serial of the same name.
PairsTracked ==
  \A p \in DOMAIN pairs : p[1] < p[2] /\ {p[1], p[2]} \subseteq DOMAIN devices

\* What is applied to s changes in this step, s being tracked throughout.
CorrectionMoves(s) ==
  /\ s \in DOMAIN devices /\ s \in DOMAIN devices'
  /\ devices'[s].applied # devices[s].applied

\* A device that is held keeps its last good correction: while the process runs
\* no gate that closes steps it back to zero, it moves only when they all let
\* its own frame through.  A start, under whatever configuration, takes it
\* back to what was applied at the last flush, and no further.
HeldKeepsLastGood ==
  [][\A s \in Serials :
       CorrectionMoves(s) =>
         \/ s \in DOMAIN live' /\ live'[s] = "None"
         \/ live' = << >> /\ s \in DOMAIN file.devices
            /\ devices'[s].applied = file.devices[s].applied]_vars

\* Every qualifying peer can veto: no frame moves a correction while one of
\* them, the first or the last by serial, contradicts the estimate.
EveryPeerCanVeto ==
  [][\A s \in DOMAIN live' :
       CorrectionMoves(s) =>
         \A o \in PeersOf(s, devices', pairs') :
           Disagreement(s, o, devices', pairs') <= opts.max_disagreement]_vars

\* s becomes held by its peers in this step.
VetoRaised(s) ==
  /\ s \in DOMAIN live' /\ live'[s] = "PeerDisagreement"
  /\ s \in DOMAIN live => live[s] # "PeerDisagreement"

\* Whichever of the two sends the frame and whichever has the larger serial,
\* the pair measures the zero error of the one less that of the other: a veto
\* is raised only against estimates whose difference is not the true one.
VetoesAreFounded ==
  [][\A s \in Serials :
       VetoRaised(s) =>
         \E o \in DOMAIN devices' \ {s} :
           devices'[s].slope - devices'[o].slope # Zero[s] - Zero[o]]_vars

\* What the comment in recompute says of a comparison made before the closure
\* estimate is eligible, that it is meaningless: a veto is raised only by a
\* peer whose own estimate is past its warm-up.
VetoBetweenEligible ==
  [][\A s \in Serials :
       VetoRaised(s) =>
         \E o \in PeersOf(s, devices', pairs') :
           /\ Disagreement(s, o, devices', pairs') > opts.max_disagreement
           /\ Eligible(devices'[o], opts)]_vars

\* What config.example.yaml says of an anchor bound of zero: the estimator
\* runs, and no frame is ever corrected.
ObserveOnly ==
  \A s \in DOMAIN live : opts.max_anchor = 0 => devices[s].applied = 0

=============================================================================
