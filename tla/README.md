# daly-bms-exporter: a TLA+ verification of the exporter

`daly-bms-exporter` is an HTTP server that Daly BMS units post telemetry to and
Prometheus scrapes.  It decodes Modbus frames, integrates the pack current into
monotonic counters, persists them, calibrates the current sensors against their
own history and against each other, and renders everything as metrics.  The
modules here model its code under `src/src/`; TLC checks them on small
instances and TLAPS proves the central invariants for every instance.

## The system

| Component | State it keeps | Operations | Hard behaviours |
|---|---|---|---|
| HTTP ingest (`server.rs`, `payload.rs`) | none of its own | `telemetry`, `handle_entry`, `plausibility_check`, `record_metrics` | partial failure inside a body, acceptance and cap before any series is made |
| Modbus, decoding, plausibility (`modbus.rs`, `decode.rs`, `error.rs`) | none, pure | `parse_response`, `crc16`, `from_registers`, `implausibility` | boundaries of lengths and registers |
| Metrics registry (`metrics.rs`) | gauges by label; per device the cells, sensors, info tuple and peers it last published | `update_realtime`, `update_config`, `publish_calibration`, `mark_seen` | stale series, cardinality bounds, several mutations under one lock |
| Integrator (`metrics.rs`, `accumulate_coulombs`) | last timestamp, current, voltage, bleed and offset of each device | one interval per frame, gap cap, per-frame clamps | clock steps, missing readings, moving offset |
| Coulomb store (`metrics.rs`, `flush_coulomb_state` and around it) | pending deltas, counters, `writing`, `last_persist_at`, the state file | `admit`, `accumulate_coulombs`, `flush_coulomb_state`, `persist_coulombs`, `restore_coulombs` | crashes between steps, failing writes, concurrent flushes, throttling |
| Calibrator (`calibration.rs`) | persisted fits per device and pair; last reading and hold reason | `observe`, `report`, `state`, `restore` | stale pairs, holds across restarts, clamping |
| Configuration (`config.rs`) | immutable after start | `load`, `reset_out_of_range_to_defaults`, `accept_serial` | boundaries |
| Process (`main.rs`) | mode | restore, serve, drain, final flush | shutdown against the throttle |

A frame goes `telemetry -> accept_serial -> admit -> handle_entry ->
update_realtime -> accumulate_coulombs -> Calibrator::observe -> pending ->
flush_coulomb_state -> state file -> counters`.  Everything per device is
behind one mutex; the file write releases it.  The process is single-threaded
(`current_thread`), but `Metrics` is shared by `Arc` and its comments argue
about concurrent writers, so the models keep several workers where the lock is
released.

What makes each part correct:

* store: the file never falls behind `/metrics`; deltas are neither lost nor
  counted twice; a failing disk is not hammered and delays but does not freeze
  the counters; the freshness gauge is honest; the cap holds;
* calibrator: the applied offset is bounded, moves only when every gate agrees,
  is after a restart what it was at the last flush, and is frozen by any
  disagreeing peer;
* registry: the series of a device are those of its last frames, and their
  number is bounded whatever devices send;
* ingest: every frame of a body is accounted exactly once, and nothing of a
  rejected body reaches a metric;
* integrator: every interval counts once, on one side, within its bounds, and
  alike in the raw counters, the calibrated ones and the estimator;
* closure estimator: on an honest gauge its slope is the zero error, on a lying
  one it misses by a bounded amount;
* frames and registers: only intact frames are decoded, and a damaged or short
  one never makes up a cell;
* configuration: whatever a file spells, the program runs on numbers in range;
  an infinite limit is one, and switches off what it limits.

## Modules

| Module | What it is |
|---|---|
| `CounterPromise` | the abstract specification: counters that rise by what was measured and never come back lower |
| `CoulombStore` | the store, the process around it and the file system under it |
| `MCCoulombStore` | sets for the `.cfg` files |
| `WriteAheadProof` | type correctness, the cap and the write-ahead invariant |
| `PromiseProof` | conservation of deltas, counters never go back, nothing is invented, `CoulombStore` implements `CounterPromise` |
| `FlushProofs` | the throttle, the cut of integral and counters, the freshness stamp, the window a kill loses, the flush at shutdown |
| `Calibrator` | the decision whether an estimated zero error is applied: fits, pairs, gates, veto, flush, restore |
| `MCCalibrator` | configurations of one pack, zero errors of two packs and of three |
| `CalibratorProofs` | the gates: warm-up, holds, pairs, vetoes |
| `Ingest` | a telemetry body from acceptance to the series it leaves |
| `IngestedFrames` | extends `Ingest` and `Frames`: cell sets are what is decoded of answers, and where their series then are |
| `MCIngest` | sample answers, what `Frames` decodes of them, symmetry |
| `IngestProofs` | the cap on label values, that no series is stale, that every entry is counted once |
| `Frames` | Modbus answers and register blocks: framing, CRC, decoding, plausibility, and what `handle_entry` makes of them |
| `FramesProofs` | what decoding does with any answer: slots, short answers, lengths, the checksum, outcomes, and the cell series that follow |
| `Config` | what is left of a file's numbers after start-up, and who gets them |
| `Integrator` | `accumulate_coulombs` of one device under a clock that is set, a moving offset, missing registers and restarts |
| `MCIntegrator` | readings at the edges of the gate, a right and a misspelt file |
| `IntegratorProofs` | all of the integrator's properties, and that the reset of a configuration is sound |
| `Closure` | the closure regression as arithmetic, beside the pack it measures |
| `MCClosure` | currents, bleeds and forgetting factors of a small pack |
| `ClosureProofs` | an honest gauge closes exactly, a lying one within a bound |

`CoulombStore` corresponds to the code as follows.

* `mode` is the life of the process: `down`, `up` (serving), `stopping`
  (`axum::serve` returned, the last flush running).
* `tracked`, `primed`, `pending` are `CoulombShared.devices`, whether a device
  has a `last_coulomb_ts`, and `LastSeries.pending`; `throttled` says that
  `last_persist_at` is younger than `state_min_interval`; `writing` is the flag.
* `exported` holds the counters.  One number per serial stands for the nine
  totals of a device, which the code treats alike, in units of an ULP, so that
  `bump_ulp` is `+ 1` on a positive total.
* `calib` is the part of the calibrator's state that integrates the same
  intervals; it is there because the file holds it too.
* `file` is what a read of the state file returns; `survivors` are the contents
  a power loss may leave, more than one between a rename and the directory
  fsync.  The temp file is not modelled: it is synced before the rename and
  read by nobody.
* `pc`, `snap`, `bytes` are the locals of each thread inside
  `flush_coulomb_state`.
* `ledger`, `overdue`, `attempts` are history variables, used by properties and
  by the bound `MaxTotal` only.

One action per critical section or system call: phase 1 under the lock
(`FlushBusy`, `FlushNothing`, `FlushThrottled`, `SerializeFails`,
`TakePending`), phase 2 without it (`WriteFails`, `Rename`, `DirSyncOk`,
`DirSyncSkipped`, `DirSyncFails`), phase 3 under it (`Commit`, `Requeue`).
`Kill` and `PowerLoss` may come between any two of them.  Definitions commented
*seeded fault* are variants that the properties must tell apart from the code.

`Calibrator` corresponds to the code as follows.

* `devices`, `pairs` are `State`; `live` is the scratch a restart forgets, of
  which only the hold reason and the fact that a frame came before matter;
  `opts` is what the configuration sets of `Options`, all of it re-read by every
  start: clamp, anchor bound, peer threshold, window and warm-up.
* `file` is `State` as the last `flush` that succeeded wrote it.  `restore` reads
  that, not what was in memory: `metrics.rs` writes at most once per throttle
  window, so any number of frames may lie in between, and a kill takes a
  correction back to an earlier one.
* `observe(s)` is one action, as the code runs under the mutex: a device after
  `integrate`, pair fits after `update_peers`, then the gates of `recompute`
  (`HoldOf`) and what is applied (`AppliedBy`).
* A regression is what its readers see of it.  The closure fit of a device
  yields any slope, noisy or not, while it has the weight of `Enough` points;
  nothing is assumed of how close it is to the truth, nor of how much is
  forgotten from one point to the next, so a fit may be lost again (a short
  `calibration_tau_hours`, a long gap) and the correction kept without it.  The
  fit of a pair has the intercept its points have, computed in the orientation
  of the code, and qualifies or not.  The window and the anchor bound are exact, in units of one frame.

`Ingest` corresponds to the code as follows.

* `devices` is `CoulombShared.devices` again, here with the part of
  `LastSeries` that remembers which series exist; `registry` is what exists.
* `job` is where a request is inside `telemetry`; one action per section of the
  lock (`admit`, `update_realtime`, `accumulate_coulombs`, `update_config`) and
  per unlocked update in between (`ConfigGauges`, `mark_seen`).
* `frames_decoded` and `frames_dropped` grow without bound; `balance` keeps the
  difference to what was posted.  A body that is not JSON posts one and drops
  one and is not an action.

`Frames` has no state: its operators are `parse_response`, `crc16`, both
register layouts with their text fields and counts, `implausibility` and
`handle_entry`.  A frame is a sequence of bytes, hexadecimal text is taken as
those bytes.  `MCIngest` evaluates it on an intact answer, the same answer with
a bit of its header, its first cells, its count or its checksum turned over, cut
after each byte, and with fewer registers, and on one whose counts are those of
no pack; the cell sets that come out are what `Ingest` runs on; two assumptions there state
what framing and decoding promise (`OnlyIntactFramesParse`,
`ShortFramesOnlyLoseFields`) and are evaluated with the run.

`Config` has the defaults, the substitution of every number out of range
(`reset_out_of_range_to_defaults`), the two ceiling warnings and the two
conversions through which the rest of the program sees a configuration.  A
float is an integer in a unit of its own, one of the two infinities, or `NaN`,
which compares false with everything.

`Integrator` corresponds to the code as follows.

* `last` is `LastSeries`, `live` and `dev` are the calibrator's `Live` and
  `DeviceState` as far as `integrate` uses them, `staged` is the sum of what
  was ever added to `pending`; `config` is the file of this start.
* Amounts are twice the ampere- or watt-seconds, so a trapezoid is an integer.
* `accumulate_coulombs(d, offset)` is the whole handler: the calibrator first,
  on the raw current, then the four directed quantities and the bleed, each
  with its clamp, then the endpoints for the next frame.  `Drop` is a frame the
  gate refuses or one without a current.
* `now` is the wall clock, which `ClockJump` sets and `Wait` advances; the time
  that really passed is `elapsed`, known to the properties only.
* The offset is any member of `Offsets`: which one is `Calibrator`'s matter.

`Closure` corresponds to the code as follows.

* `dev` and `fit` are `DeviceState` and its `EwFit`; `pack` is the battery,
  with a level between empty and full and a current and a bleed that run
  straight between frames.
* Forgetting is a fraction per capped gap instead of an exponential; all sums
  of a fit are kept in units of one sample's weight (`fit.unit`), so they stay
  integers.  Charges are twice the ampere-hours.  A slope is compared by
  multiplying out (`Rise`, `Run`).  Two frames are a whole number of hours
  apart; the hour is the model's unit of time and may stand for any other.

How they fit together: `Frames` and `Config` are used by `MCIngest` and
`Integrator`; what `Integrator` stages is `ledger` in `CoulombStore`; the fit
`Calibrator` takes as given is the one `Closure` computes; the devices of
`Ingest`, `CoulombStore` and `Calibrator` are the same map under the same
mutex.  They are not multiplied into one state machine: under that mutex a
frame runs from `update_realtime` to the staged deltas without interruption, so
the only step of one component that can fall between two of another is the
unlocked write, which `CoulombStore` interleaves with everything that stages.

## Runs

| Run | What it checks |
|---|---|
| `kill` | three serials under `max_devices = 2`, carried-over files of up to three rows, kills, failing writes, refused serialization, all outcomes of the directory fsync |
| `power_loss` | power loss at any point, three starts, a disk that works: the refinement of `CounterPromise`, the bound on what is lost, the clean stop |
| `live` | two threads inside `flush_coulomb_state` at once, kills, failing writes and fsyncs, an unreadable file: nothing lost or applied twice, and under fairness every staged delta reaches `/metrics` |
| `kill_then_power_loss` | violated: a kill before the directory fsync and a later power loss roll a served total back |
| `calibration` | one pack, right, wrong and noisy estimates, fits that are lost again, unknown and growing capacities, restarts from any earlier flush under three configurations that differ in clamp, anchor bound, window and warm-up: corrections need evidence, holds are honest and keep the last good value |
| `three_packs` | three packs, restarts admitting some of two: every one of several peers can veto, vetoes have the right sign, no pair outlives a member |
| `warming_peer` | violated: a pack still in its warm-up vetoes one that is past it |
| `observe_only` | violated: an anchor bound of zero does not stop a correction already applied |
| `ingest` | two requests at once, two packs, no cap, a cap of one and of two, restarts that change it, cell sets decoded from intact, damaged and short answers: bounded label values, each entry counted once, no stale series, none beyond the slots of a frame |
| `integrator` | three frames at the edges of the gate, registers missing, gaps beyond the cap, one setting of the clock in either direction, a moving offset, restarts onto a misspelt file and one with infinite limits |
| `closure` | every course of a small pack over four frames, with outages, unread and negative bleeds, restarts, forgetting and moves of the origin, an honest and a lying gauge |
| `anchor_bound` | violated: a gauge that stays within the capacity moves the slope by more than capacity over window |

Every property of a passing run was also seen to fail on a seeded fault: a
variant of one definition that a plausible slip would have produced.  Those
variants stand beside the definitions they vary.

Bounds.  `MaxTotal` stops new deltas (it is 5 with deltas of 2, so two deltas
per serial over a carried-over 3; in `live` one delta, where two serials with
one delta each already make two threads meet); `MaxRestarts` bounds the starts, and so
the kills and power losses.  Two starts are a crash and what the next life
makes of it; the third, in `power_loss`, lets the ULP of a restart meet another
restart.  A delta of 2 is distinguishable from the single ULP of `bump_ulp`.
Three serials and a cap of two are the least for which a file has a row too
many and the order of rows matters.  Two workers suffice for `writing`: a third
only repeats `FlushBusy`.  Deadlock is checked in every run.

In the calibrator the zero errors are -3 and 3 and so are the estimates, so an
estimate is right or wrong by the whole difference, and both clamps (1 and 2)
cut it.  In `calibration` `Enough` is 2, one point that is no line and one that
makes it; a warm-up of 3 or 4 frames exceeds it, so a fit exists before the
warm-up ends; the window of `Patient` and `Eager` is as long as the longest
warm-up, so the anchor bound still falls until then, and that of `Forgetful` is a
single frame.  Going from `Eager` to `Patient` leaves a corrected device below its
minimal span and beyond its clamp.  The capacities (0, 2, and 4 from a config
frame) are unknown, tight enough, and not tight enough until the window is
full.  One pack suffices, no peer being asked about any of it.  `three_packs`
gives up noise, unknown capacities, reconfiguration and the warm-up for the other
two packs, and `YoungFile` looks only at files with two packs in their first
frame: the pairs and the vetoes are then those of this run, or of a pair that
was restored half.  The two violated runs are short: `warming_peer` needs no
flush, and `observe_only` has one pack.  In `ingest` two entries per
body are one that is done and one that is not; a pack has one or two cells and
one identity besides its own serial; two requests are enough to be inside and
outside the lock on the same device.

In `integrator` three frames are two intervals, which is what an endpoint that
is wrongly remembered takes to show; the readings are the largest current and
voltage the default gate lets through in both directions, one that it does not,
and frames without voltage, bleed or current.  A step of 60 s is below the gap
of 900 s and one of 4000 s above it, as is the clock setting of 700 s, alone
and added to 60 s, and that of -10000 s turns the clock behind the last frame.
At 100 A, 900 s and 34 V the default ceilings are reached exactly (25 Ah) or
nearly (850 of 900 Wh).

In `closure` a pack of 1 Ah with currents of at most 1 A goes from empty to
full within two frames; `Tau` 2 with `Widths` 1 moves the origin after three
hours instead of after 50 windows; `Enough` is 2 instead of 3, which allows
more fits and not fewer.  `MaxGap` 2 is exceeded by a gap of 3 hours.
`StillTelling` leaves out what follows a state no property speaks of any more;
what is lost there never comes back.  `anchor_bound` takes six even frames without forgetting, and a `Tau` beyond the
span, as in the first weeks of a device.

Fairness (`live`).  Weak fairness of frames and of time is the device posting
periodically, which the property is conditional on in the code too: nothing
flushes on a timer.  Weak fairness of `flush_coulomb_state` is a started
handler running to its end.  Strong fairness of `Rename` and `DirSyncOk` is a
disk that, tried again and again, does not refuse every time.

## Findings

1. `restore_coulombs` serves a renamed file whose directory entry may not be
   durable (`KillThenPowerLoss.cfg`).
2. The peer check compares with the estimate of a peer that has not finished its
   warm-up, which the comment in `recompute` calls meaningless
   (`WarmingPeer.cfg`).
3. The documented observe-only mode does not withdraw a correction that was
   applied before (`ObserveOnly.cfg`).
4. `anchor_error` is called the worst case of what the state of charge can do to
   the slope; least squares lets it do more.  Capacity over window is right for
   a line through the first and the last sample (`AnchorBound.cfg`).  What is
   proved is three and a half times as much, over the hours the fit has weight
   for instead of the window, of any frames (`GaugeTheorem`), and seven times,
   over the window, of even ones (`WindowTheorem`).

## Observations

Met while modelling; each is what the models do too, and no run is spent on it:
the code's intent is clear, or the documentation is only loosely worded.

* A transient read error of the state file at start is handled like a missing
  file, and the next write replaces the good one (`metrics.rs:1193`).
* A directory fsync that fails with anything but "unsupported" withholds the
  increment, and a directory that always refuses freezes the counters.  The
  comments at `metrics.rs:1572` and `1595` read as if it never did; the one in
  `flush_coulomb_state` (1356) says why it must.
* A watt-hour ceiling is judged against what is reachable before a NaN in it is
  replaced by the default, so the default is never judged then
  (`config.rs:220`; `UnwarnedNeverClamps` leaves it out).
* With the default file the largest interval the gate allows is exactly the
  25 Ah ceiling, so a calibrated interval, one offset more, can be cut by it,
  without a warning; `UnwarnedNeverClamps` is about the raw counters.
* `coulomb_max_gap_secs` is not validated: 0 stops the counters.  An infinite
  limit passes the reset and switches the gate or the ceiling off (`Sane` allows
  it, and the third file of the `integrator` run spells two).  `config.rs:105` says that a value is clamped; it is
  replaced by the default.
* The gate judges the current and the pack voltage; the bleed and the remaining
  capacity pass unjudged into the balance counter and the closure fit.
* An answer is decoded by the register its request names, and the CRC of the
  request is not checked.
* `calibration_enabled: false` is documented to stop the calibrated series
  (`config.rs:70`, `metrics.rs:327`); they go on at the raw rate, with an offset
  of zero, as the test `calibration_can_be_switched_off` expects.
  `CalibratedIsRawLessOffset` holds across the switch.
* A fit ages by the gap before a frame that feeds it; the hours of frames
  without remaining capacity do not age it.

## Proofs

Every theorem holds for any value of the constants that the named assumptions
admit: any finite set of serials, any workers, cap, deltas, cells, identities,
readings, offsets, clock steps, files, forgetting factors and bounds.

* `TypeCorrectness`: `Spec => []TypeOK`.
* `CapTheorem`: `Spec => []CapHolds`.  Restoring is the interesting case: the
  rows that `restore_coulombs` admits are injected into `0 .. MaxDevices - 1` by
  the number of rows before them.
* `WriteAheadHolds`: `WriteAhead` is not inductive.  `WAInv` adds where each
  thread is and what it holds: one writer at a time and only a writer has a
  snapshot (`Exclusive`); what a writer is about to rename covers what it will
  then apply (`BytesCover`); past the rename the file is what it wrote, past
  the fsync so is everything a power loss may leave (`DiskFollowsWriter`);
  outside that gap a power loss changes nothing (`Settled`).  A snapshot covers
  the counters because its rows are the tracked serials, which fit the cap, so
  that a restart restores all of them.
* `ConservationHolds`, with `UntrackedLedger` as the strengthening.
* `CountersNeverGoBackHolds`, `NoPhantomHolds` and `PromiseKept` follow from
  these two invariants and from `BytesHonest`: what a writer is about to put in
  place exceeds the measured total by one ULP at most.

* `AttemptTheorem`: an attempt that is counted has left the throttle shut or is
  still being written (`AttemptInv`), and the flag keeps a second thread out.
* `InStepTheorem`: `CutInv` says it of memory, of every file a power loss may
  leave and of the bytes a writer holds, which a rename makes the next file.
  It needs that a serial without a row has no integral, and that the memory of
  a process that is down is empty.
* `FreshnessTheorem`: what a writer holds is what it will have applied
  (`BytesMatch`), and the file always lies between what is served and what was
  measured (`FileBetween`); a frame that finds nothing to write then finds the
  two ends together.  A start is the hard step: that a row which
  `restore_coulombs` skips was skipped for want of a slot (`SkippedMeansFull`)
  is an argument by the smallest skipped row.
* `LossTheorem`: a delta staged while the throttle is open belongs to the frame
  being handled, which is about to write it (`WindowInv`).
* `ShutdownTheorem`: once stopping, the worker left is on its way from the
  forced flush to a file that holds everything (`StopInv`).  Both rest on
  `FlagInv`: the flag is up only while somebody writes.

`WriteAheadHolds` assumes `NoRollback`: power losses are not combined with
kills, nor with a directory fsync that fails or is skipped.  `CountersNeverGoBackHolds`,
`NoPhantomHolds` and `PromiseKept` also assume that the state file is readable.  Both are necessary: `kill_then_power_loss` is
what happens without the first, and a start on an unreadable file (see
*Observations*) without the second.  `FreshnessTheorem` assumes the second
only: a start on an unreadable file leaves rows in it that the new life does
not track, and a serial tracked later finds no truth in its row.  `LossTheorem`
and `ShutdownTheorem` assume a disk that works (`DiskWorks`: no write,
serialization or fsync fails; power may), as the documented window does, and
the first also one thread (`OneThread`), which is what the shipped binary runs:
with two, the second stages a delta while the first is still writing, finds the
flag up, and the throttle that is then stamped holds the delta back.  `AttemptTheorem`, `InStepTheorem`, `ConservationHolds`
and `CapTheorem` assume nothing of faults.

* `CalibratorProofs`: `CalibratorInv` says the same of memory and of the file
  (`Bank`): devices of the right shape whose corrections are earned (`Earned`),
  and pairs of tracked devices whose intercept is the difference of the two true
  errors, in the orientation of the sorted key.  That makes a flush and a
  restart from any earlier one trivial steps, whatever configuration comes with
  it; `HoldTells` and `LiveTracked` (what is live is tracked) are about this
  run only.  A frame keeps it because a held correction was earned before and
  span and capacity never come down (`IntegrateKeeps`), while the fit may.
  From it follow the action properties: `HeldTheorem` (a correction moves on a
  frame that is not held, or back to what the file says), `VetoTheorem` (on a
  frame, every pair of the device that qualifies then agrees with it) and
  `FoundedTheorem` (a veto is raised only against estimates whose difference is
  not the true one), the last with the sign of the pair settled by `Bank`.
  `SpanAssumption` only says that the cap on the span is out of the way of the
  gates.

* `CellSeriesTheorem`, `OneInfoTheorem`, `PeerSeriesTheorem`: `SeriesInv` says
  of each family separately that a series exists just when `LastSeries`
  remembers it.  For the info tuples it needs that those of two devices differ,
  which they do by the first label (`InfosApart`): otherwise removing the tuple
  of one device could remove that of another.
* `CardinalityTheorem`: `CapInv` adds that a request keeps, from its admission
  to `mark_seen`, a serial that is tracked, and that reported peers are tracked.
  A request that is admitted therefore never adds a device under a cap
  (`WorkCap`), so only `admit` has to count.
* `CountTheorem`: `CountInv` adds to the balance that a handler between the two
  halves of an entry still has that entry to count, and that an idle one holds
  nothing (`WorkInv`).  The sum over the handlers is a fold; that it has a
  value, that the order of the handlers does not matter (`SumsRemove`) and that
  it depends on nothing else (`SumsAgree`) are lemmas, each by a smallest
  counterexample in the well-founded order of the subsets.
* `TypeTheorem` (`IngestProofs`): `DevInv` with the three invariants above; that
  no device is its own peer comes from `Reportable`.

* `FramesProofs` is about the operators of `Frames`, for any sequence of numbers
  as an answer.  `SlotsAreReal`: whatever the count registers say, a cell or a
  sensor that is reported has one of the 32 or 8 slots, a register of the
  answer that is not zero, and its own reading.  `ShortFramesTheorem`: an answer
  with fewer registers yields the same fields, slots and texts or nothing, a
  text perhaps only its beginning.  The fields and slots follow from where their
  registers are (`CutReg`).  For a text, the registers that came are an interval
  (`HeldIs`), cleaning is a recursion whose results grow (`CleansGrow`, by a
  smallest counterexample), and trimming keeps the beginning
  (`TrimmedBegins`).  `OutcomeTheorem`: `handle_entry` drops an entry
  with a reason that has a counter, or decodes it as the block its request
  names.  `LengthTheorem`: no accepted answer begins with another one, so what is
  cut or too long is dropped whatever its checksum.  They assume that `None` is
  neither a number, nor a text, nor a reason.
* Three more theorems there are about `crc16` and answers made of bytes.
  `BurstTheorem`: of two answers that differ in no more than two adjacent bytes
  at most one is accepted, so damage in one place, up to nine bits in a row or
  two bytes exchanged, is dropped.  A round puts the bit it shifts out on top, so
  the high byte after eight rounds tells the low byte before them
  (`RoundsBack`), and nothing is lost on the way (`RoundsInjective`); a byte that
  comes in leaves the high byte alone.  Two runs are together up to the damage
  (`RunsForward`) and, if they end together, from its end on (`RunsBackward`);
  the two bytes between are then the same (`TwoBytesTold`).  The checksum of the
  answer itself may be what is damaged.
  `OddTheorem`: of two answers of a length that differ in an odd number of bits,
  wherever they lie, at most one is accepted.  The polynomial, with the bit
  that is shifted out, has an even number of terms, so a round keeps the parity
  of the checksum (`RoundParity`), a byte adds its own (`FeedParity`), and the
  bits that are turned over so far have the parity in which the two runs differ
  (`RunsParity`).
  `IntactTheorem`: an answer with the length and the checksum `Sent` gives it
  parses to the registers it was built from, and `handle_entry` decodes the block
  of the request, the realtime one unless the gate drops it.  The two bytes of
  the checksum are read as the set of bits they were made of (`ReadBack`, from
  the sum `Number` is).  So the other two speak of answers that exist.  It
  assumes that what is not hexadecimal is no sequence of bytes.
* `SlotSeriesTheorem` puts the two modules together: `CellSets`, which `Ingest`
  leaves open, are those `handle_entry` finds in answers a device may make up
  (`CellsOfAnswers`).  Then every cell series is in a slot of a tracked device,
  and under a cap there are at most 32 per device allowed (`SeriesInSlots`, which the
  `ingest` run checks too; it comes
  from `SeriesInv`, `CapInv` and `SlotsAreReal`).

* `ExactClosure`: `ClosureInv` says that the sums of the fit are those of points
  on one line of slope `2 * Zero` through the pack's present state (`Line`): the
  relation between `sx`, `sy` and `n`, and that between `sxx`, `sxy` and `sx`.
  Ageing scales both sides, a new point lies on the line because the integrals
  advance with the pack, and moving the origin moves the line.  Beside the
  line it takes that the last frame is the pack's state as its sensor tells it
  (`Sensor`) and that a fit without weight has no sums (`Fresh`), so that the
  first sample may choose the line.
* `GaugeTheorem`: `GaugeInv` keeps two facts about the sums, neither of which
  mentions the samples any more.  `Near`: the moments of the distances from
  that line, with the square of the capacity for the square of each distance,
  form no negative quadratic form; ageing scales it, a sample adds a square and
  what its distance leaves of the capacity, a move of the origin substitutes in
  it.  `Spread`: the samples are at least an hour apart and their weights grow
  with time, so that they are as wide, and their last as far from their middle,
  as if their weight were spread evenly.  The second half is what makes the first inductive:
  the farther the last sample is from the middle, the more the next one
  widens.  Cauchy's inequality (`FormBound`) turns the form into a bound on
  the slope, which the spread makes one over the weight (`SlopeBound`).
* `WindowTheorem`: a fit of hourly samples weighs at least half its window
  (`Even`, by `WindowGrows` from `exp` lying above its tangent, which
  `ForgetAssumption` says of the factors), so the bound holds over the window
  with a constant of seven.
* `ResetSound`: knob by knob (`ResetFields`) the result of the reset is in
  range, which a reset leaves alone (`SaneIsKept`).
* `IntegratorInvariant`: `IntegratorInv` strengthens the properties with
  `ClockDebt` (a clock that disagrees with the time since the last frame has
  been set since, and one gap for it is in the allowance), `VoltsRemembered`,
  `SameSample` (with the calibration on, both samplers stand at the same frame,
  in spite of drops and restarts) and `LastPassed` (what is remembered passed
  the gate of this start, not of an earlier one).  An infinite ceiling is the
  identity (`Limit`), which only `UnwarnedIsUncut` has to tell apart.
  `ClockJumps`, `EnergyGaps`,
  `CalibratedCharge`, `UnwarnedIsUncut` and `SaneRuns` follow at once;
  `SameMeasure`, an action property, from `SameSample`.  The assumption that
  `None` is no record is what the code's `Option` gives.

Only model-checked:

* `DeltaReachesMetrics`, liveness under fairness, which is out of the prover's
  reach;
* of `OnlyIntactFramesParse`, that two bits turned over far from each other are
  noticed, for which the order of the polynomial would have to be computed (one
  bit and three are in `OddTheorem`, two next to each other in `BurstTheorem`,
  the cuts in `LengthTheorem`, the intact frame in `IntactTheorem`), and the
  documented checksum of one request, which is a single value.

## What is left

Theorems: the best constant of `WindowTheorem`, which is above three and at most
seven: of the weight of a fit the proof uses no more than half a window, and of
the distances from the line their squares.  Models: the branch of
`flush_coulomb_state` without a state path, which applies the deltas at once and
has nothing to keep in step; the ageing of the pair fits, the standard error and
R², which `Calibrator` takes as any value.

## Not modelled

`render` and the text format; gauge values, alarm flags and limits, which are
copies of registers; logging; TLS and sockets, body limits and timeouts (axum);
YAML itself; bind failure and signal installation in `main`; text that is not
ASCII in the string registers; the Grafana dashboards, packaging and scripts;
`examples/replay_history.rs`, an offline driver of the calibrator.
