---------------------------- MODULE CoulombStore ----------------------------
(***************************************************************************)
(* The write-ahead persistence of the coulomb and energy counters          *)
(* (src/src/metrics.rs): frames stage deltas in memory, a throttled flush  *)
(* writes the state file, and only a durable write raises the counters     *)
(* that /metrics serves.  Around it: the admission of devices under        *)
(* max_devices, restore at start-up, the forced flush at shutdown, kills   *)
(* and power losses at any point, and the file system's two commit points  *)
(* (rename, directory fsync).  A state path is configured throughout.      *)
(*                                                                         *)
(* Every quantity is a number of ULPs.  One number per serial stands for   *)
(* each of the nine totals of a device, which the code handles alike.      *)
(***************************************************************************)
EXTENDS Integers, FiniteSets

CONSTANTS
  Serials,          \* BMS serials, each named by its rank in BTreeMap order
  Workers,          \* threads that call Metrics: one in the shipped binary
  MaxDevices,       \* max_devices; 0 is "unlimited"
  Deltas,           \* what one frame may add to a total
  CarriedOver,      \* totals a state file found at the first start may hold
  Faults,           \* the failures of the environment
  DirSyncOutcomes,  \* what syncing the parent directory may give
  MaxTotal,         \* bound: no delta is staged above this total
  MaxRestarts       \* bound: number of starts of the process

FaultKinds ==
  { "kill",         \* the process dies between two steps (SIGKILL, panic)
    "power",        \* the machine loses power
    "write",        \* some step of the write before the rename fails
    "serialize",    \* serde_json refuses the state
    "unreadable" }  \* at start-up the file exists but cannot be read or parsed

\* "skipped": the path has no parent component, or the file system answers
\* InvalidInput or Unsupported; write_file_durable returns Ok in both cases.
DirSyncKinds == {"ok", "failed", "skipped"}

ASSUME SerialsAssumption == Serials \subseteq Nat /\ IsFiniteSet(Serials)
ASSUME BoundsAssumption  ==
  MaxDevices \in Nat /\ MaxTotal \in Nat /\ MaxRestarts \in Nat
ASSUME DeltasAssumption == Deltas \subseteq Nat /\ 0 \in Deltas /\ CarriedOver \subseteq Nat
ASSUME EnvironmentAssumption ==
  /\ Faults \subseteq FaultKinds
  /\ DirSyncOutcomes \subseteq DirSyncKinds

VARIABLES
  mode,       \* "down", "up", or "stopping": served until, then the last flush
  tracked,    \* keys of CoulombShared.devices
  primed,     \* serials with a last_coulomb_ts: the next frame integrates
  pending,    \* LastSeries.pending: staged, not yet exported
  exported,   \* the counters; while down, what they last were
  calib,      \* the calibrator's own integral, persisted in the same file
  throttled,  \* last_persist_at is less than state_min_interval ago
  writing,    \* CoulombShared.writing
  pc,         \* where each worker is
  snap,       \* each worker's snapshot, taken from pending
  bytes,      \* each worker's serialized state
  file,       \* what reading the state file gives now
  survivors,  \* what it may give after a power loss
  restarts,   \* starts so far
  ledger,     \* history: every total restored or delta staged, none forgotten
  overdue,    \* history: serials with a delta staged while no throttle held it
  attempts    \* history: unforced writes begun since the throttle last opened

memory  == <<tracked, primed, pending, calib, throttled, writing, pc, snap, bytes>>
disk    == <<file, survivors>>
history == <<ledger, overdue, attempts>>
vars    == <<mode, exported, restarts, memory, disk, history>>

-----------------------------------------------------------------------------
(* Operators.                                                              *)

Zero == [s \in Serials |-> 0]

\* A positive total goes to the file one ULP up.
bump_down(v) == v - 1  \* seeded fault: next_down for next_up, and no v > 0
bump_ulp(v) == IF v > 0 THEN v + 1 ELSE v

StateFiles == [rows : SUBSET Serials, total : [Serials -> Nat], calib : [Serials -> Nat]]

\* No file: restores exactly what an empty one would.
Absent == [rows |-> {}, total |-> Zero, calib |-> Zero]

\* restore_coulombs walks the rows in serial order and skips a row once the
\* cap is reached (the device map is empty when it starts).
RestoredOverCap(f) ==  \* seeded fault: off by one
  {s \in f.rows : MaxDevices = 0 \/ Cardinality({t \in f.rows : t < s}) <= MaxDevices}
Restored(f) ==
  {s \in f.rows : MaxDevices = 0 \/ Cardinality({t \in f.rows : t < s}) < MaxDevices}

RestoredTotals(f) == [s \in Serials |-> IF s \in Restored(f) THEN f.total[s] ELSE 0]

\* Calibrator::restore keeps the estimates of the serials the cap let in.
restore_nothing(f) == Zero  \* seeded fault: only the counters are restored
restore(f) == [s \in Serials |-> IF s \in Restored(f) THEN f.calib[s] ELSE 0]

\* The cap check that admit, update_realtime, update_config and
\* accumulate_coulombs share.
HasRoom(s) ==
  s \in tracked \/ MaxDevices = 0 \/ Cardinality(tracked) < MaxDevices

has_pending_all == \A s \in tracked : pending[s] > 0  \* seeded fault: all for any
has_pending == \E s \in tracked : pending[s] > 0

\* The state phase 1 serializes: one row per tracked serial.
SnapshotUnapplied ==  \* seeded fault: the file is built from the counters alone
  [rows  |-> tracked,
   total |-> [s \in Serials |-> IF s \in tracked THEN bump_ulp(exported[s]) ELSE 0],
   calib |-> calib]
Snapshot ==
  [rows  |-> tracked,
   total |-> [s \in Serials |->
               IF s \in tracked THEN bump_ulp(exported[s] + pending[s]) ELSE 0],
   calib |-> calib]

AllIdle == \A w \in Workers : pc[w] = "idle"

\* The file write between setting and clearing the `writing` flag.
WriterPcs == {"write", "renamed", "written", "failed"}

At(w, from, to) == pc[w] = from /\ pc' = [pc EXCEPT ![w] = to]

-----------------------------------------------------------------------------
(* The process starts, restores and stops.                                 *)

FirstFiles ==
  {[rows |-> R, total |-> [s \in Serials |-> IF s \in R THEN c ELSE 0],
                calib |-> [s \in Serials |-> IF s \in R THEN c ELSE 0]] :
     R \in SUBSET Serials, c \in CarriedOver}

MemoryLost ==
  /\ tracked' = {}
  /\ primed' = {}
  /\ pending' = Zero
  /\ calib' = Zero
  /\ throttled' = FALSE
  /\ writing' = FALSE
  /\ pc' = [w \in Workers |-> "idle"]
  /\ snap' = [w \in Workers |-> Zero]
  /\ bytes' = [w \in Workers |-> Absent]
  /\ overdue' = {}
  /\ attempts' = 0

Init ==
  /\ mode = "down"
  /\ tracked = {}
  /\ primed = {}
  /\ pending = Zero
  /\ exported = Zero
  /\ calib = Zero
  /\ throttled = FALSE
  /\ writing = FALSE
  /\ pc = [w \in Workers |-> "idle"]
  /\ snap = [w \in Workers |-> Zero]
  /\ bytes = [w \in Workers |-> Absent]
  /\ file \in {Absent} \cup FirstFiles
  /\ survivors = {file}
  /\ restarts = 0
  /\ ledger = file.total
  /\ overdue = {}
  /\ attempts = 0

\* Metrics::new and restore_coulombs.  Without a file, or with a readable one.
restore_coulombs ==
  /\ mode = "down"
  /\ restarts < MaxRestarts
  /\ mode' = "up"
  /\ restarts' = restarts + 1
  /\ tracked' = Restored(file)
  /\ exported' = RestoredTotals(file)
  /\ calib' = restore(file)
  /\ ledger' = exported'
  /\ UNCHANGED <<primed, pending, throttled, writing, pc, snap, bytes, disk,
                 overdue, attempts>>

\* The same call when the file is there but cannot be read, or does not parse:
\* it warns and returns, and the process serves from zero.
RestoreUnreadable ==
  /\ "unreadable" \in Faults
  /\ mode = "down"
  /\ restarts < MaxRestarts
  /\ file.rows # {}
  /\ mode' = "up"
  /\ restarts' = restarts + 1
  /\ exported' = Zero
  /\ ledger' = Zero
  /\ UNCHANGED <<memory, disk, overdue, attempts>>

\* Every bound on faults is a bound on starts: the last life is never ended.
MayEnd == mode # "down" /\ restarts < MaxRestarts

Kill ==
  /\ "kill" \in Faults
  /\ MayEnd
  /\ mode' = "down"
  /\ MemoryLost
  /\ UNCHANGED <<exported, restarts, disk, ledger>>

\* The file rolls back to a rename the directory fsync had not yet made safe.
PowerLoss ==
  /\ "power" \in Faults
  /\ MayEnd
  /\ mode' = "down"
  /\ MemoryLost
  /\ file' \in survivors
  /\ survivors' = {file'}
  /\ UNCHANGED <<exported, restarts, ledger>>

\* axum::serve returned: the handlers are drained and one forced flush starts.
Shutdown(w) ==
  /\ mode = "up"
  /\ restarts < MaxRestarts
  /\ AllIdle
  /\ mode' = "stopping"
  /\ At(w, "idle", "persist")
  /\ UNCHANGED <<exported, restarts, tracked, primed, pending, calib, throttled,
                 writing, snap, bytes, disk, history>>

\* persist_coulombs has returned, whatever became of the write.
Exit ==
  /\ mode = "stopping"
  /\ AllIdle
  /\ mode' = "down"
  /\ MemoryLost
  /\ UNCHANGED <<exported, restarts, disk, ledger>>

-----------------------------------------------------------------------------
(* Frames.                                                                 *)

\* A new serial takes a slot before any of its deltas is staged: admit reserves
\* one under a cap, update_realtime and update_config insert it otherwise.
Track(w, s) ==
  /\ mode = "up"
  /\ pc[w] = "idle"
  /\ s \notin tracked
  /\ HasRoom(s)
  /\ tracked' = tracked \cup {s}
  /\ UNCHANGED <<mode, exported, restarts, primed, pending, calib, throttled,
                 writing, pc, snap, bytes, disk, history>>

\* A frame with a current reading.  The first frame of a life integrates
\* nothing: there is no earlier sample to integrate from.  The calibrator sees
\* the same interval under the same lock.
accumulate_coulombs(w, s, q) ==
  /\ mode = "up"
  /\ HasRoom(s)
  /\ q > 0 => s \in primed /\ ledger[s] + q <= MaxTotal
  /\ At(w, "idle", "flush")
  /\ tracked' = tracked \cup {s}
  /\ primed' = primed \cup {s}
  /\ pending' = [pending EXCEPT ![s] = @ + q]
  /\ calib' = [calib EXCEPT ![s] = @ + q]
  /\ ledger' = [ledger EXCEPT ![s] = @ + q]
  /\ overdue' = IF q > 0 /\ ~throttled THEN overdue \cup {s} ELSE overdue
  /\ UNCHANGED <<mode, exported, restarts, throttled, writing, snap, bytes, disk,
                 attempts>>

\* state_min_interval has elapsed since last_persist_at.
WindowPasses ==
  /\ mode = "up"
  /\ throttled
  /\ throttled' = FALSE
  /\ attempts' = 0
  /\ UNCHANGED <<mode, exported, restarts, tracked, primed, pending, calib, writing,
                 pc, snap, bytes, disk, ledger, overdue>>

-----------------------------------------------------------------------------
(* flush_coulomb_state, phase 1: whether to write, under the lock.  The pc *)
(* says `force`: "persist" is a forced flush, "flush" one that is not.     *)

InPhase1(w) == pc[w] \in {"flush", "persist"}

LeaveFlush(w) ==
  /\ pc' = [pc EXCEPT ![w] = "idle"]
  /\ UNCHANGED <<mode, exported, restarts, tracked, primed, pending, calib,
                 throttled, writing, snap, bytes, disk, history>>

\* Another worker is writing.
FlushBusy(w) == InPhase1(w) /\ writing /\ LeaveFlush(w)

\* Nothing to write: the freshness gauge is stamped all the same.
FlushNothing(w) ==
  /\ InPhase1(w)
  /\ ~writing
  /\ pc[w] = "flush"
  /\ ~has_pending
  /\ LeaveFlush(w)

FlushThrottledAlways(w) ==  \* seeded fault: `force` does not lift the throttle
  /\ InPhase1(w)
  /\ ~writing
  /\ has_pending
  /\ throttled
  /\ LeaveFlush(w)

\* The minimum interval has not elapsed: the delta stays pending.
FlushThrottled(w) ==
  /\ InPhase1(w)
  /\ ~writing
  /\ pc[w] = "flush"
  /\ has_pending
  /\ throttled
  /\ LeaveFlush(w)

MayWriteConcurrently(w) ==  \* seeded fault: the `writing` check is missing
  /\ InPhase1(w)
  /\ pc[w] = "flush" => has_pending /\ ~throttled

\* A forced flush writes whatever the throttle says, even with nothing pending.
MayWrite(w) ==
  /\ InPhase1(w)
  /\ ~writing
  /\ pc[w] = "flush" => has_pending /\ ~throttled

\* serde_json::to_vec failed: the deltas go back, nothing is stamped.
SerializeFails(w) ==
  /\ "serialize" \in Faults
  /\ MayWrite(w)
  /\ LeaveFlush(w)

read_pending(w) ==  \* seeded fault: the deltas are read in place, not taken
  /\ snap' = [snap EXCEPT ![w] = pending]
  /\ overdue' = {}
  /\ UNCHANGED pending
take_pending(w) ==
  /\ snap' = [snap EXCEPT ![w] = pending]
  /\ overdue' = {}
  /\ pending' = Zero

\* The deltas and the state to be written, under one lock.
TakePending(w) ==
  /\ MayWrite(w)
  /\ writing' = TRUE
  /\ pc' = [pc EXCEPT ![w] = "write"]
  /\ take_pending(w)
  /\ bytes' = [bytes EXCEPT ![w] = Snapshot]
  /\ attempts' = IF pc[w] = "flush" THEN attempts + 1 ELSE attempts
  /\ UNCHANGED <<mode, exported, restarts, tracked, primed, calib, throttled,
                 disk, ledger>>

-----------------------------------------------------------------------------
(* Phase 2, write_file_durable, with the lock released.                    *)

\* create_dir_all, File::create, write_all, sync_all or rename failed; the
\* temp file is removed and the state file is untouched.
WriteFails(w) ==
  /\ "write" \in Faults
  /\ At(w, "write", "failed")
  /\ UNCHANGED <<mode, exported, restarts, tracked, primed, pending, calib,
                 throttled, writing, snap, bytes, disk, history>>

\* The synced temp file replaces the state file; until the directory is synced
\* a power loss may still bring back an older one.
Rename(w) ==
  /\ At(w, "write", "renamed")
  /\ file' = bytes[w]
  /\ survivors' = survivors \cup {bytes[w]}
  /\ UNCHANGED <<mode, exported, restarts, tracked, primed, pending, calib,
                 throttled, writing, snap, bytes, history>>

DirSyncForgotten(w) ==  \* seeded fault: Ok without syncing the directory
  /\ "ok" \in DirSyncOutcomes
  /\ At(w, "renamed", "written")
  /\ UNCHANGED <<mode, exported, restarts, tracked, primed, pending, calib,
                 throttled, writing, snap, bytes, disk, history>>

DirSyncOk(w) ==
  /\ "ok" \in DirSyncOutcomes
  /\ At(w, "renamed", "written")
  /\ survivors' = {file}
  /\ UNCHANGED <<mode, exported, restarts, tracked, primed, pending, calib,
                 throttled, writing, snap, bytes, file, history>>

DirSyncSkipped(w) ==
  /\ "skipped" \in DirSyncOutcomes
  /\ At(w, "renamed", "written")
  /\ UNCHANGED <<mode, exported, restarts, tracked, primed, pending, calib,
                 throttled, writing, snap, bytes, disk, history>>

\* Any other error of the directory fsync is returned as DirSync.
DirSyncFails(w) ==
  /\ "failed" \in DirSyncOutcomes
  /\ At(w, "renamed", "failed")
  /\ UNCHANGED <<mode, exported, restarts, tracked, primed, pending, calib,
                 throttled, writing, snap, bytes, disk, history>>

-----------------------------------------------------------------------------
(* Phase 3, under the lock again.                                          *)

EndWriteUnstamped(w, from) ==  \* seeded fault: only success stamps the attempt
  /\ At(w, from, "idle")
  /\ throttled' = IF from = "written" THEN TRUE ELSE throttled
  /\ writing' = FALSE
  /\ snap' = [snap EXCEPT ![w] = Zero]
  /\ bytes' = [bytes EXCEPT ![w] = Absent]
EndWriteStillWriting(w, from) ==  \* seeded fault: only success clears `writing`
  /\ At(w, from, "idle")
  /\ throttled' = TRUE
  /\ writing' = IF from = "written" THEN FALSE ELSE writing
  /\ snap' = [snap EXCEPT ![w] = Zero]
  /\ bytes' = [bytes EXCEPT ![w] = Absent]

\* Either way the attempt is stamped and the flag cleared.
EndWrite(w, from) ==
  /\ At(w, from, "idle")
  /\ throttled' = TRUE
  /\ writing' = FALSE
  /\ snap' = [snap EXCEPT ![w] = Zero]
  /\ bytes' = [bytes EXCEPT ![w] = Absent]

apply_pending(w) == exported' = [s \in Serials |-> exported[s] + snap[w][s]]

requeue_overwrites(w) == pending' = snap[w]  \* seeded fault: = for +=
requeue_pending(w) == pending' = [s \in Serials |-> pending[s] + snap[w][s]]

\* The file holds the value: now the counters may.
Commit(w) ==
  /\ EndWrite(w, "written")
  /\ apply_pending(w)
  /\ UNCHANGED <<mode, restarts, tracked, primed, pending, calib, disk, history>>

\* The deltas wait for the next attempt.
Requeue(w) ==
  /\ EndWrite(w, "failed")
  /\ requeue_pending(w)
  /\ overdue' = overdue \cup {s \in Serials : snap[w][s] > 0}
  /\ UNCHANGED <<mode, exported, restarts, tracked, primed, calib, disk,
                 ledger, attempts>>

-----------------------------------------------------------------------------
Phase1(w) ==
  FlushBusy(w) \/ FlushNothing(w) \/ FlushThrottled(w) \/ SerializeFails(w) \/ TakePending(w)

Phase2(w) ==
  WriteFails(w) \/ Rename(w) \/ DirSyncOk(w) \/ DirSyncSkipped(w) \/ DirSyncFails(w)

Phase3(w) == Commit(w) \/ Requeue(w)

flush_coulomb_state(w) == Phase1(w) \/ Phase2(w) \/ Phase3(w)

Frame(w) == \E s \in Serials, q \in Deltas : accumulate_coulombs(w, s, q)

Next ==
  \/ restore_coulombs
  \/ RestoreUnreadable
  \/ Kill
  \/ PowerLoss
  \/ Exit
  \/ WindowPasses
  \/ \E w \in Workers :
       \/ Shutdown(w)
       \/ \E s \in Serials : Track(w, s)
       \/ Frame(w)
       \/ flush_coulomb_state(w)

Spec == Init /\ [][Next]_vars

(* Frames keep coming, time passes, a started handler runs to its end, and *)
(* a disk that is tried again and again does not refuse every time: a      *)
(* write, and a directory fsync that can succeed, succeed now and then.    *)
Fairness ==
  /\ WF_vars(WindowPasses)
  /\ \A w \in Workers :
       /\ WF_vars(Frame(w))
       /\ WF_vars(flush_coulomb_state(w))
       /\ SF_vars(Rename(w))
       /\ SF_vars(DirSyncOk(w))

FairSpec == Spec /\ Fairness

-----------------------------------------------------------------------------
(* Properties.                                                             *)

\* Types, and the bookkeeping that needs no argument.
TypeOK ==
  /\ mode \in {"down", "up", "stopping"}
  /\ tracked \subseteq Serials
  /\ primed \subseteq Serials
  /\ pending \in [Serials -> Nat]
  /\ exported \in [Serials -> Nat]
  /\ calib \in [Serials -> Nat]
  /\ throttled \in BOOLEAN
  /\ writing \in BOOLEAN
  /\ pc \in [Workers -> {"idle", "flush", "persist"} \cup WriterPcs]
  /\ snap \in [Workers -> [Serials -> Nat]]
  /\ bytes \in [Workers -> StateFiles]
  /\ file \in StateFiles
  /\ survivors \subseteq StateFiles
  /\ file \in survivors
  /\ restarts \in Nat
  /\ ledger \in [Serials -> Nat]
  /\ overdue \subseteq Serials
  /\ attempts \in Nat

\* The contents the next restore_coulombs may find.
Recoverable == IF "power" \in Faults THEN survivors ELSE {file}

\* A restart from f serves every serial at no less than v.
Covers(f, v) == \A s \in Serials : v[s] > 0 => s \in Restored(f) /\ v[s] <= f.total[s]

\* The invariant flush_coulomb_state exists for (its doc comment, and README
\* "the file can never fall behind /metrics"): whatever content a crash or a
\* power loss leaves in the state file, restarting from it restores every
\* counter to at least what /metrics has served - the max_devices cap at
\* restore included.
WriteAhead == \A f \in Recoverable : Covers(f, exported)

\* A counter never comes back lower, in any step, across any restart: the
\* decrease Prometheus would read as a reset.
NoCounterGoesBack == \A s \in Serials : exported'[s] >= exported[s]
CountersNeverGoBack == [][NoCounterGoesBack]_vars

\* Every delta is in exactly one place: exported, pending, or in the snapshot
\* of the one worker that is between take_pending and apply or requeue.
\* Nothing is dropped by a failed write, nothing counted twice by a retry.
Conservation ==
  mode # "down" =>
    \A s \in tracked :
      /\ (\A w \in Workers : snap[w] = Zero) => exported[s] + pending[s] = ledger[s]
      /\ \A w \in Workers :
           snap[w] # Zero => exported[s] + pending[s] + snap[w][s] = ledger[s]

\* A restart invents nothing: a restored total exceeds the one the life before
\* it began with and what it has measured by at most bump_ulp's one ULP, however
\* many writes, failed ones and retries lie in between.
NoPhantom ==
  \A f \in Recoverable : \A s \in Restored(f) : f.total[s] <= ledger[s] + 1

\* The calibrator's integral and the counters are one cut of the same history,
\* in memory and in every file a restart may find: only bump_ulp, once a
\* restart, separates them.
InStep ==
  /\ mode # "down" => \A s \in tracked : ledger[s] - calib[s] \in 0 .. restarts
  /\ \A f \in Recoverable : \A s \in f.rows : f.total[s] - f.calib[s] \in 0 .. restarts + 1

\* max_devices bounds the tracked serials, whatever the file restored brought.
CapHolds == MaxDevices # 0 => Cardinality(tracked) <= MaxDevices

\* The freshness gauge says the file is current.  It is stamped after a write
\* and on frames that had nothing to write ("the file still matches the
\* counters"): the file then holds every tracked total, to one ULP.
FileMatches ==
  \A s \in tracked : exported[s] <= file.total[s] /\ file.total[s] <= exported[s] + 1
FreshnessStampIsHonest ==
  [][(\E w \in Workers : FlushNothing(w) \/ Commit(w)) => FileMatches']_vars

\* The throttle limits write attempts, not successes: a failing disk costs one
\* attempt per interval however many frames arrive.
OneAttemptPerInterval == attempts <= 1

\* "A SIGKILL loses at most one window's worth": between frames, everything
\* still pending was staged inside the interval a write attempt opened.  It is
\* claimed for a disk that works.
LossIsOneWindow == AllIdle => overdue = {}

\* The flush at shutdown leaves nothing in memory when the disk works: the
\* throttle and an idle last frame do not keep it from writing.
ShutdownWritesEverything ==
  mode = "stopping" /\ AllIdle =>
    \A s \in tracked : exported[s] = ledger[s] /\ file.total[s] = bump_ulp(ledger[s])

\* As long as frames keep coming, every staged delta reaches /metrics unless
\* the process ends first: neither throttling nor failed writes freeze it.
DeltaReachesMetrics ==
  \A s \in Serials, n \in 1 .. MaxTotal :
    (mode = "up" /\ ledger[s] >= n) ~> (mode # "up" \/ exported[s] >= n)

\* The counters of /metrics, whatever the disk does, are the counters of
\* CounterPromise: this module implements it.
Promise == INSTANCE CounterPromise
             WITH live <- mode # "down", measured <- ledger, total <- exported, Ulp <- 1
PromiseSpec == Promise!Spec
=============================================================================
