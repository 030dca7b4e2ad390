---------------------------- MODULE FlushProofs ----------------------------
(***************************************************************************)
(* What the flush owes to a reader of the state file and of the freshness  *)
(* gauge, for any serials, any workers and any bounds: one attempt per     *)
(* interval, one cut of the calibrator and the counters, an honest stamp,  *)
(* and, on a disk that works, a loss of one window and a shutdown that     *)
(* loses nothing.                                                          *)
(***************************************************************************)
EXTENDS PromiseProof, WellFoundedInduction

-----------------------------------------------------------------------------
(* The throttle.                                                           *)

\* An attempt in the open interval is still being written or has closed it.
AttemptInv == attempts <= 1 /\ (attempts = 1 => throttled \/ writing)

LEMMA AttemptStep == TypeOK /\ AttemptInv /\ [Next]_vars => AttemptInv'
<1> SUFFICES ASSUME TypeOK, AttemptInv, [Next]_vars PROVE AttemptInv'
  OBVIOUS
<1> USE DEF vars, memory, disk, history
<1>1. CASE UNCHANGED <<attempts, throttled, writing>>
  BY <1>1 DEF AttemptInv
<1>2. CASE Kill \/ PowerLoss \/ Exit
  BY <1>2 DEF Kill, PowerLoss, Exit, MemoryLost, AttemptInv
<1>3. CASE WindowPasses
  BY <1>3 DEF WindowPasses, AttemptInv
<1>4. CASE restore_coulombs \/ RestoreUnreadable
  BY <1>1, <1>4 DEF restore_coulombs, RestoreUnreadable
<1>5. ASSUME NEW w \in Workers, Shutdown(w) PROVE AttemptInv'
  BY <1>1, <1>5 DEF Shutdown
<1>6. ASSUME NEW w \in Workers, NEW s \in Serials, Track(w, s) PROVE AttemptInv'
  BY <1>1, <1>6 DEF Track
<1>7. ASSUME NEW w \in Workers, NEW s \in Serials, NEW q \in Deltas,
             accumulate_coulombs(w, s, q)
      PROVE  AttemptInv'
  BY <1>1, <1>7 DEF accumulate_coulombs
<1>8. ASSUME NEW w \in Workers, LeaveFlush(w) PROVE AttemptInv'
  BY <1>1, <1>8 DEF LeaveFlush
<1>9. ASSUME NEW w \in Workers, TakePending(w) PROVE AttemptInv'
  <2>1. attempts \in Nat
    BY DEF TypeOK
  <2>2. writing' = TRUE /\ ~writing
    BY <1>9 DEF TakePending, MayWrite
  <2>3. CASE pc[w] = "flush"
    <3>1. attempts = 0 /\ attempts' = attempts + 1
      BY <1>9, <2>1, <2>2, <2>3 DEF TakePending, MayWrite, AttemptInv
    <3> QED BY <2>2, <3>1 DEF AttemptInv
  <2>4. CASE pc[w] # "flush"
    BY <1>9, <2>2, <2>4 DEF TakePending, AttemptInv
  <2> QED BY <2>3, <2>4
<1>10. ASSUME NEW w \in Workers, Phase2(w) PROVE AttemptInv'
  BY <1>1, <1>10
  DEF Phase2, WriteFails, Rename, DirSyncOk, DirSyncSkipped, DirSyncFails
<1>11. ASSUME NEW w \in Workers, Phase3(w) PROVE AttemptInv'
  BY <1>11 DEF Phase3, Commit, Requeue, EndWrite, AttemptInv
<1> QED
  BY <1>1, <1>2, <1>3, <1>4, <1>5, <1>6, <1>7, <1>8, <1>9, <1>10, <1>11
  DEF Next, Frame, flush_coulomb_state, Phase1, FlushBusy, FlushNothing,
      FlushThrottled, SerializeFails

\* However many frames, workers and failing writes there are, an interval sees
\* one unforced write at most (last_persist_at is stamped on failure too).
THEOREM AttemptTheorem == Spec => []OneAttemptPerInterval
<1>1. Init => TypeOK /\ AttemptInv
  BY InitialTypes DEF Init, AttemptInv
<1>2. TypeOK /\ AttemptInv /\ [Next]_vars => (TypeOK /\ AttemptInv)'
  BY TypeStep, AttemptStep
<1>3. AttemptInv => OneAttemptPerInterval
  BY DEF AttemptInv, OneAttemptPerInterval
<1> QED
  BY <1>1, <1>2, <1>3, PTL DEF Spec

-----------------------------------------------------------------------------
(* One cut: the calibrator's integral and the counters.                    *)

\* A process that is down knows no serial.
DownForgets == mode = "down" => tracked = {} /\ calib = Zero

\* The calibrator integrates for tracked serials only.
UntrackedNotIntegrated == \A s \in Serials : s \notin tracked => calib[s] = 0

CutInMemory == mode # "down" => \A s \in tracked : ledger[s] - calib[s] \in 0 .. restarts

\* A file the current start, or one before it, may have written.
FileInStep(f, starts) == \A s \in f.rows : f.total[s] - f.calib[s] \in 0 .. starts + 1

CutInFiles ==
  /\ \A f \in survivors : FileInStep(f, restarts)
  /\ \A w \in Workers : FileInStep(bytes[w], restarts)

CutInv == DownForgets /\ UntrackedNotIntegrated /\ CutInMemory /\ CutInFiles

LEMMA InitialCut == Init => CutInv
<1> SUFFICES ASSUME Init PROVE CutInv
  OBVIOUS
<1>1. DownForgets /\ UntrackedNotIntegrated /\ CutInMemory
  BY DEF Init, DownForgets, UntrackedNotIntegrated, CutInMemory, Zero
<1>2. FileInStep(Absent, 0)
  BY DEF FileInStep, Absent
<1>3. FileInStep(file, 0)
  <2>1. CASE file \in FirstFiles
    <3>1. PICK R \in SUBSET Serials, c \in CarriedOver :
            file = [rows |-> R, total |-> [s \in Serials |-> IF s \in R THEN c ELSE 0],
                    calib |-> [s \in Serials |-> IF s \in R THEN c ELSE 0]]
      BY <2>1 DEF FirstFiles
    <3>2. c \in Nat
      BY DeltasAssumption
    <3>3. \A s \in R : file.total[s] = c /\ file.calib[s] = c
      BY <3>1
    <3> QED BY <3>1, <3>2, <3>3 DEF FileInStep
  <2> QED BY <1>2, <2>1 DEF Init
<1>4. CutInFiles
  BY <1>2, <1>3 DEF Init, CutInFiles
<1> QED BY <1>1, <1>4 DEF CutInv

LEMMA LaterStart ==
  ASSUME NEW f, NEW n \in Nat, FileInStep(f, n)
  PROVE  FileInStep(f, n + 1)
<1> SUFFICES ASSUME NEW s \in f.rows PROVE f.total[s] - f.calib[s] \in 0 .. (n + 1) + 1
  BY DEF FileInStep
<1>1. f.total[s] - f.calib[s] \in 0 .. n + 1
  BY DEF FileInStep
<1> QED BY <1>1

\* Steps that put nothing on the disk but what a worker has in hand.
LEMMA FilesCarry ==
  ASSUME CutInFiles, restarts' = restarts,
         \A f \in survivors' : f \in survivors \/ \E w \in Workers : f = bytes[w],
         \A w \in Workers : bytes'[w] = bytes[w] \/ bytes'[w] = Absent
  PROVE  CutInFiles'
<1>1. FileInStep(Absent, restarts)
  BY DEF FileInStep, Absent
<1>2. \A f \in survivors' : FileInStep(f, restarts)
  BY DEF CutInFiles
<1>3. \A w \in Workers : FileInStep(bytes'[w], restarts)
  BY <1>1 DEF CutInFiles
<1> QED BY <1>2, <1>3 DEF CutInFiles

\* Phase 1 writes the totals and the integral of one moment.
LEMMA SnapshotInStep ==
  ASSUME TypeOK, Account, CutInv, mode # "down", \A w \in Workers : snap[w] = Zero
  PROVE  FileInStep(Snapshot, restarts)
<1> SUFFICES ASSUME NEW s \in tracked
             PROVE  Snapshot.total[s] - Snapshot.calib[s] \in 0 .. restarts + 1
  BY DEF FileInStep, Snapshot
<1>1. /\ s \in Serials /\ exported[s] \in Nat /\ pending[s] \in Nat /\ ledger[s] \in Nat
      /\ calib[s] \in Nat /\ restarts \in Nat
  BY DEF TypeOK
<1>2. exported[s] + pending[s] = ledger[s]
  BY DEF Account, Conservation
<1>3. ledger[s] - calib[s] \in 0 .. restarts
  BY DEF CutInv, CutInMemory
<1>4. Snapshot.total[s] = bump_ulp(ledger[s]) /\ Snapshot.calib[s] = calib[s]
  BY <1>1, <1>2 DEF Snapshot
<1>5. bump_ulp(ledger[s]) \in {ledger[s], ledger[s] + 1}
  BY DEF bump_ulp
<1> QED BY <1>1, <1>3, <1>4, <1>5

LEMMA MemoryLostCut ==
  ASSUME CutInv, MemoryLost, mode' = "down", restarts' = restarts, survivors' \subseteq survivors
  PROVE  CutInv'
<1>1. DownForgets' /\ UntrackedNotIntegrated' /\ CutInMemory'
  BY DEF MemoryLost, DownForgets, UntrackedNotIntegrated, CutInMemory, Zero
<1>2. \A w \in Workers : bytes'[w] = Absent
  BY DEF MemoryLost
<1>3. CutInFiles'
  BY <1>2, FilesCarry DEF CutInv
<1> QED BY <1>1, <1>3 DEF CutInv

\* Steps that leave the totals and the calibrator alone.
LEMMA NothingIntegrated ==
  ASSUME CutInv, mode # "down", mode' # "down", UNCHANGED <<tracked, ledger, calib, restarts>>,
         CutInFiles'
  PROVE  CutInv'
  BY DEF CutInv, DownForgets, UntrackedNotIntegrated, CutInMemory

LEMMA CutStep == TypeOK /\ Control /\ Account /\ CutInv /\ [Next]_vars => CutInv'
<1> SUFFICES ASSUME TypeOK, Control, Account, CutInv, [Next]_vars PROVE CutInv'
  OBVIOUS
<1> USE DEF vars, memory, disk, history
<1>0. \A w \in Workers : mode = "down" => pc[w] = "idle"
  BY DEF Control, DownIsEmpty
<1>a. /\ restarts \in Nat /\ calib \in [Serials -> Nat] /\ ledger \in [Serials -> Nat]
      /\ tracked \subseteq Serials /\ file \in survivors
      /\ CutInFiles
  BY DEF TypeOK, CutInv
<1>1. CASE UNCHANGED vars
  BY <1>1 DEF CutInv, DownForgets, UntrackedNotIntegrated, CutInMemory, CutInFiles
<1>2. CASE restore_coulombs \/ RestoreUnreadable
  <2>1. restarts' = restarts + 1 /\ mode' # "down" /\ mode = "down" /\ UNCHANGED <<survivors, bytes>>
    BY <1>2 DEF restore_coulombs, RestoreUnreadable
  <2>2. CutInFiles'
    BY <1>a, <2>1, LaterStart DEF CutInFiles
  <2>3. CASE restore_coulombs
    <3>1. /\ tracked' = Restored(file) /\ calib' = restore(file) /\ ledger' = RestoredTotals(file)
          /\ file \in StateFiles
      BY <2>3 DEF restore_coulombs, TypeOK
    <3>2. Restored(file) \subseteq file.rows /\ file.rows \subseteq Serials
      BY <3>1 DEF Restored, StateFiles
    <3>3. UntrackedNotIntegrated'
      BY <3>1 DEF UntrackedNotIntegrated, restore
    <3>4. \A s \in Restored(file) : file.total[s] - file.calib[s] \in 0 .. restarts + 1
      BY <1>a, <3>2 DEF CutInFiles, FileInStep
    <3>5. CutInMemory'
      BY <2>1, <3>1, <3>2, <3>4 DEF CutInMemory, restore, RestoredTotals
    <3> QED BY <2>1, <2>2, <3>3, <3>5 DEF CutInv, DownForgets
  <2>4. CASE RestoreUnreadable
    <3>1. tracked' = {} /\ calib' = Zero
      BY <2>1, <2>4 DEF RestoreUnreadable, CutInv, DownForgets
    <3> QED
      BY <2>1, <2>2, <3>1 DEF CutInv, DownForgets, UntrackedNotIntegrated, CutInMemory, Zero
  <2> QED BY <1>2, <2>3, <2>4
<1>3. CASE Kill \/ Exit
  BY <1>3, MemoryLostCut DEF Kill, Exit
<1>4. CASE PowerLoss
  BY <1>4, MemoryLostCut DEF PowerLoss
<1>5. CASE WindowPasses
  BY <1>a, <1>5, FilesCarry, NothingIntegrated DEF WindowPasses
<1>6. ASSUME NEW w \in Workers, Shutdown(w) PROVE CutInv'
  BY <1>a, <1>6, FilesCarry, NothingIntegrated DEF Shutdown
<1>7. ASSUME NEW w \in Workers, NEW s \in Serials, Track(w, s) PROVE CutInv'
  <2>1. /\ mode = "up" /\ mode' = "up" /\ tracked' = tracked \cup {s}
        /\ s \notin tracked
        /\ UNCHANGED <<ledger, calib, restarts, survivors, bytes>>
    BY <1>7 DEF Track
  <2>2. ledger[s] = 0 /\ calib[s] = 0
    BY <2>1 DEF Account, UntrackedLedger, CutInv, UntrackedNotIntegrated
  <2>3. CutInFiles'
    BY <1>a, <2>1, FilesCarry
  <2> QED
    BY <1>a, <2>1, <2>2, <2>3 DEF CutInv, DownForgets, UntrackedNotIntegrated, CutInMemory
<1>8. ASSUME NEW w \in Workers, NEW s \in Serials, NEW q \in Deltas,
             accumulate_coulombs(w, s, q)
      PROVE  CutInv'
  <2>1. /\ mode = "up" /\ mode' = "up" /\ tracked' = tracked \cup {s}
        /\ calib' = [calib EXCEPT ![s] = @ + q] /\ ledger' = [ledger EXCEPT ![s] = @ + q]
        /\ UNCHANGED <<restarts, survivors, bytes>>
        /\ q \in Nat
    BY <1>8, DeltasAssumption DEF accumulate_coulombs
  <2>2. s \notin tracked => ledger[s] = 0 /\ calib[s] = 0
    BY <2>1 DEF Account, UntrackedLedger, CutInv, UntrackedNotIntegrated
  <2>3. CutInFiles'
    BY <1>a, <2>1, FilesCarry
  <2>4. ASSUME NEW t \in tracked' PROVE ledger'[t] - calib'[t] \in 0 .. restarts
    <3>1. t \in Serials /\ ledger[t] - calib[t] \in 0 .. restarts
      BY <1>a, <2>1, <2>2 DEF CutInv, CutInMemory
    <3>2. ledger[t] \in Nat /\ calib[t] \in Nat
      BY <1>a, <3>1
    <3>3. \/ t = s /\ ledger'[t] = ledger[t] + q /\ calib'[t] = calib[t] + q
          \/ t # s /\ ledger'[t] = ledger[t] /\ calib'[t] = calib[t]
      BY <1>a, <2>1, <3>1
    <3> QED BY <2>1, <3>1, <3>2, <3>3
  <2>5. UntrackedNotIntegrated'
    BY <1>a, <2>1 DEF CutInv, UntrackedNotIntegrated
  <2> QED
    BY <2>1, <2>3, <2>4, <2>5 DEF CutInv, DownForgets, CutInMemory
<1>9. ASSUME NEW w \in Workers, InPhase1(w), LeaveFlush(w) PROVE CutInv'
  <2>1. mode # "down"
    BY <1>0, <1>9 DEF InPhase1
  <2> QED BY <1>a, <1>9, <2>1, FilesCarry, NothingIntegrated DEF LeaveFlush
<1>10. ASSUME NEW w \in Workers, TakePending(w) PROVE CutInv'
  <2>1. mode # "down" /\ ~writing
    BY <1>0, <1>10 DEF TakePending, MayWrite, InPhase1
  <2>2. \A u \in Workers : snap[u] = Zero
    BY <2>1 DEF Control, Exclusive
  <2>3. FileInStep(Snapshot, restarts)
    BY <2>1, <2>2, SnapshotInStep
  <2>4. /\ bytes' = [bytes EXCEPT ![w] = Snapshot]
        /\ UNCHANGED <<mode, tracked, ledger, calib, restarts, survivors>>
    BY <1>10 DEF TakePending
  <2>5. \A u \in Workers : bytes'[u] = Snapshot \/ bytes'[u] = bytes[u]
    BY <2>4 DEF TypeOK
  <2>6. CutInFiles'
    BY <1>a, <2>3, <2>4, <2>5 DEF CutInFiles
  <2> QED BY <2>1, <2>4, <2>6, NothingIntegrated
<1>11. ASSUME NEW w \in Workers, Phase2(w) PROVE CutInv'
  <2>1. /\ UNCHANGED <<mode, tracked, ledger, calib, restarts, bytes>>
        /\ pc[w] # "idle"
        /\ survivors' \subseteq survivors \cup {bytes[w]}
    BY <1>a, <1>11
    DEF Phase2, WriteFails, Rename, DirSyncOk, DirSyncSkipped, DirSyncFails, At
  <2>2. mode # "down"
    BY <1>0, <2>1
  <2> QED BY <1>a, <2>1, <2>2, FilesCarry, NothingIntegrated
<1>12. ASSUME NEW w \in Workers, Phase3(w) PROVE CutInv'
  <2>1. /\ UNCHANGED <<mode, tracked, ledger, calib, restarts, survivors>>
        /\ pc[w] # "idle" /\ bytes' = [bytes EXCEPT ![w] = Absent]
    BY <1>12 DEF Phase3, Commit, Requeue, EndWrite, At
  <2>2. mode # "down"
    BY <1>0, <2>1
  <2>3. \A u \in Workers : bytes'[u] = bytes[u] \/ bytes'[u] = Absent
    BY <2>1 DEF TypeOK
  <2> QED BY <1>a, <2>1, <2>2, <2>3, FilesCarry, NothingIntegrated
<1> QED
  BY <1>1, <1>2, <1>3, <1>4, <1>5, <1>6, <1>7, <1>8, <1>9, <1>10, <1>11, <1>12
  DEF Next, Frame, flush_coulomb_state, Phase1, FlushBusy, FlushNothing,
      FlushThrottled, SerializeFails, MayWrite

\* In memory and in every file a start may find, the calibrator's integral and
\* the counters are one cut of one history: only bump_ulp, once a start, comes
\* between them, whatever the disk does.
THEOREM InStepTheorem == Spec => []InStep
<1>1. Init => TypeOK /\ Control /\ Account /\ CutInv
  BY InitialTypes, InitialControl, InitialAccount, InitialCut
<1>2. TypeOK /\ Control /\ Account /\ CutInv /\ [Next]_vars
        => (TypeOK /\ Control /\ Account /\ CutInv)'
  BY TypeStep, ControlStep, AccountStep, CutStep
<1>3. TypeOK /\ CutInv => InStep
  BY DEF TypeOK, CutInv, CutInMemory, CutInFiles, FileInStep, InStep, Recoverable
<1> QED
  BY <1>1, <1>2, <1>3, PTL DEF Spec

-----------------------------------------------------------------------------
(* What is in the files and in the writers' hands.                         *)

\* A total in a file belongs to a row of it.
RowsOnly(f) == \A s \in Serials : s \notin f.rows => f.total[s] = 0

FilesInv ==
  /\ \A f \in survivors : RowsOnly(f)
  /\ \A w \in Workers : RowsOnly(bytes[w]) /\ bytes[w].rows \subseteq tracked
  /\ \A w \in Workers : pc[w] \notin WriterPcs => bytes[w] = Absent
  /\ \A w \in Workers : pc[w] \in {"renamed", "written"} => file = bytes[w]

LEMMA AbsentIsEmpty == RowsOnly(Absent) /\ Absent.rows = {}
  BY DEF RowsOnly, Absent, Zero

LEMMA InitialFiles == Init => FilesInv
<1> SUFFICES ASSUME Init PROVE FilesInv
  OBVIOUS
<1>1. RowsOnly(file)
  <2>1. CASE file \in FirstFiles
    BY <2>1 DEF FirstFiles, RowsOnly
  <2> QED BY <2>1, AbsentIsEmpty DEF Init
<1> QED BY <1>1, AbsentIsEmpty DEF Init, FilesInv, WriterPcs

\* A worker that moves outside the write; the serials only grow.
LEMMA OutsideWriteFiles ==
  ASSUME TypeOK, FilesInv, NEW w \in Workers, pc[w] \notin WriterPcs,
         NEW to, to \notin WriterPcs, pc' = [pc EXCEPT ![w] = to],
         tracked \subseteq tracked', UNCHANGED <<bytes, file, survivors>>
  PROVE  FilesInv'
<1>1. \A u \in Workers : pc'[u] = pc[u] \/ (u = w /\ pc'[u] = to)
  BY DEF TypeOK
<1> QED BY <1>1 DEF FilesInv, RowsOnly, WriterPcs

LEMMA AllIdleFiles ==
  ASSUME \A f \in survivors' : RowsOnly(f),
         \A w \in Workers : pc'[w] = "idle" /\ bytes'[w] = Absent
  PROVE  FilesInv'
<1>1. \A w \in Workers : RowsOnly(bytes'[w]) /\ bytes'[w].rows = {}
  BY AbsentIsEmpty
<1> QED BY <1>1 DEF FilesInv, RowsOnly, WriterPcs

LEMMA FilesStep == TypeOK /\ Control /\ FilesInv /\ [Next]_vars => FilesInv'
<1> SUFFICES ASSUME TypeOK, Control, FilesInv, [Next]_vars PROVE FilesInv'
  OBVIOUS
<1> USE DEF vars, memory, disk, history
<1>0. \A w \in Workers : mode = "down" => pc[w] = "idle"
  BY DEF Control, DownIsEmpty
<1>a. /\ \A f \in survivors : RowsOnly(f)
      /\ \A w \in Workers : RowsOnly(bytes[w]) /\ bytes[w].rows \subseteq tracked
      /\ \A w \in Workers : pc[w] \notin WriterPcs => bytes[w] = Absent
  BY DEF FilesInv
<1>b. \A u, w \in Workers : pc[u] \in WriterPcs /\ pc[w] \in WriterPcs => u = w
  BY DEF Control, Exclusive
<1>1. CASE UNCHANGED <<tracked, pc, bytes, file, survivors>>
  BY <1>1 DEF FilesInv, RowsOnly
<1>2. CASE restore_coulombs \/ RestoreUnreadable
  BY <1>0, <1>a, <1>2, AllIdleFiles DEF restore_coulombs, RestoreUnreadable, WriterPcs
<1>3. CASE Kill \/ PowerLoss \/ Exit
  BY <1>a, <1>3, AllIdleFiles DEF Kill, PowerLoss, Exit, MemoryLost
<1>4. CASE WindowPasses
  BY <1>1, <1>4 DEF WindowPasses
<1>5. ASSUME NEW w \in Workers, Shutdown(w) PROVE FilesInv'
  BY <1>5, OutsideWriteFiles DEF Shutdown, At, WriterPcs
<1>6. ASSUME NEW w \in Workers, NEW s \in Serials, Track(w, s) PROVE FilesInv'
  BY <1>6 DEF Track, FilesInv, RowsOnly
<1>7. ASSUME NEW w \in Workers, NEW s \in Serials, NEW q \in Deltas,
             accumulate_coulombs(w, s, q)
      PROVE  FilesInv'
  BY <1>7, OutsideWriteFiles DEF accumulate_coulombs, At, WriterPcs
<1>8. ASSUME NEW w \in Workers, InPhase1(w), LeaveFlush(w) PROVE FilesInv'
  BY <1>8, OutsideWriteFiles DEF InPhase1, LeaveFlush, WriterPcs
<1>9. ASSUME NEW w \in Workers, TakePending(w) PROVE FilesInv'
  <2>1. \A u \in Workers : pc[u] \notin WriterPcs
    BY <1>9 DEF TakePending, MayWrite, Control, Exclusive
  <2>2. /\ pc' = [pc EXCEPT ![w] = "write"] /\ bytes' = [bytes EXCEPT ![w] = Snapshot]
        /\ UNCHANGED <<tracked, file, survivors>>
    BY <1>9 DEF TakePending
  <2>3. RowsOnly(Snapshot) /\ Snapshot.rows = tracked
    BY DEF RowsOnly, Snapshot
  <2>4. \A u \in Workers : \/ u = w /\ pc'[u] = "write" /\ bytes'[u] = Snapshot
                           \/ u # w /\ pc'[u] = pc[u] /\ bytes'[u] = bytes[u]
    BY <2>2 DEF TypeOK
  <2> QED BY <1>a, <2>1, <2>2, <2>3, <2>4 DEF FilesInv, RowsOnly, WriterPcs
<1>10. ASSUME NEW w \in Workers, Phase2(w) PROVE FilesInv'
  <2>1. /\ pc[w] \in WriterPcs
        /\ UNCHANGED <<tracked, bytes>>
        /\ survivors' \subseteq survivors \cup {bytes[w]}
    BY <1>10
    DEF Phase2, WriteFails, Rename, DirSyncOk, DirSyncSkipped, DirSyncFails, At,
        WriterPcs, TypeOK
  <2>2. PICK to \in WriterPcs : pc' = [pc EXCEPT ![w] = to]
    BY <1>10
    DEF Phase2, WriteFails, Rename, DirSyncOk, DirSyncSkipped, DirSyncFails, At, WriterPcs
  <2>3. \A u \in Workers : u # w => pc'[u] = pc[u] /\ pc[u] \notin WriterPcs
    BY <1>b, <2>1, <2>2 DEF TypeOK
  <2>4. pc'[w] \in {"renamed", "written"} => file' = bytes[w]
    BY <1>10
    DEF Phase2, WriteFails, Rename, DirSyncOk, DirSyncSkipped, DirSyncFails, At,
        FilesInv, TypeOK
  <2>5. pc'[w] \in WriterPcs
    BY <2>2 DEF TypeOK
  <2> QED BY <1>a, <2>1, <2>3, <2>4, <2>5 DEF FilesInv, RowsOnly, WriterPcs
<1>11. ASSUME NEW w \in Workers, Phase3(w) PROVE FilesInv'
  <2>1. /\ pc[w] \in WriterPcs
        /\ pc' = [pc EXCEPT ![w] = "idle"] /\ bytes' = [bytes EXCEPT ![w] = Absent]
        /\ UNCHANGED <<tracked, file, survivors>>
    BY <1>11 DEF Phase3, Commit, Requeue, EndWrite, At, WriterPcs
  <2>2. \A u \in Workers : u # w => pc'[u] = pc[u] /\ bytes'[u] = bytes[u] /\ pc[u] \notin WriterPcs
    BY <1>b, <2>1 DEF TypeOK
  <2>3. \A u \in Workers : pc'[u] \notin WriterPcs /\ bytes'[u] = Absent
    BY <1>a, <2>1, <2>2 DEF TypeOK, WriterPcs
  <2>4. \A u \in Workers : RowsOnly(bytes'[u]) /\ bytes'[u].rows = {}
    BY <2>3, AbsentIsEmpty
  <2> QED BY <1>a, <2>1, <2>3, <2>4 DEF FilesInv, RowsOnly, WriterPcs
<1> QED
  BY <1>1, <1>2, <1>3, <1>4, <1>5, <1>6, <1>7, <1>8, <1>9, <1>10, <1>11
  DEF Next, Frame, flush_coulomb_state, Phase1, FlushBusy, FlushNothing,
      FlushThrottled, SerializeFails, MayWrite

-----------------------------------------------------------------------------
(* The freshness gauge.                                                    *)

Full == MaxDevices # 0 /\ Cardinality(tracked) >= MaxDevices

\* A row of the file is tracked, unless the cap keeps it out for good.
RowsTracked == mode # "down" => file.rows \subseteq tracked \/ Full

\* What a writer puts in place is what the counters will be, to one ULP.
BytesMatch ==
  \A w \in Workers : pc[w] \in {"write", "renamed", "written"} =>
    \A s \in tracked : bytes[w].total[s] - After(w)[s] \in 0 .. 1

\* The file is between what is served and what was measured.
FileBetween ==
  mode # "down" =>
    \A s \in tracked : exported[s] <= file.total[s] /\ file.total[s] <= ledger[s] + 1

FreshInv == RowsTracked /\ BytesMatch /\ FileBetween

\* A row that restore_coulombs skipped was skipped because the cap was reached
\* before it: the lowest such row comes after max_devices restored ones.
LEMMA SkippedMeansFull ==
  ASSUME NEW f \in StateFiles
  PROVE  f.rows \subseteq Restored(f) \/ (MaxDevices # 0 /\ Cardinality(Restored(f)) >= MaxDevices)
<1> DEFINE Skipped == f.rows \ Restored(f)
<1> SUFFICES ASSUME Skipped # {}
             PROVE  MaxDevices # 0 /\ Cardinality(Restored(f)) >= MaxDevices
  OBVIOUS
<1>1. Skipped \subseteq Nat
  BY RowsFinite
<1>2. IsWellFoundedOn(OpToRel(<, Nat), Nat)
  BY NatLessThanWellFounded
<1>3. PICK s \in Skipped : \A t \in Skipped : ~(<<t, s>> \in OpToRel(<, Nat))
  <2> HIDE DEF Skipped
  <2> QED BY <1>1, <1>2, WFMin
<1>4. \A t \in Skipped : ~(t < s)
  BY <1>1, <1>3 DEF OpToRel
<1>5. Before(f, s) \subseteq Restored(f)
  BY <1>4 DEF Before
<1>6. MaxDevices # 0 /\ ~(Cardinality(Before(f, s)) < MaxDevices)
  BY <1>3 DEF Restored, Before
<1>7. IsFiniteSet(Restored(f))
  BY RowsFinite, FS_Subset DEF Restored
<1>8. Cardinality(Before(f, s)) <= Cardinality(Restored(f))
  BY <1>5, <1>7, FS_Subset
<1>9. /\ Cardinality(Before(f, s)) \in Nat /\ Cardinality(Restored(f)) \in Nat
      /\ MaxDevices \in Nat
  BY <1>7, RowsFinite, FS_CardinalityType, BoundsAssumption
<1> QED BY <1>6, <1>8, <1>9

\* A serial there is room for has nothing in the file: every row of the file
\* had its chance before it.
LEMMA NewcomerHasNoRow ==
  ASSUME TypeOK, Control, FilesInv, FreshInv, mode # "down",
         NEW s \in Serials, s \notin tracked, HasRoom(s)
  PROVE  /\ exported[s] = 0 /\ file.total[s] = 0
         /\ \A w \in Workers : bytes[w].total[s] = 0 /\ After(w)[s] = 0
<1>1. Cardinality(tracked) \in Nat /\ MaxDevices \in Nat
  <2>1. IsFiniteSet(tracked)
    BY SerialsAssumption, FS_Subset DEF TypeOK
  <2> QED BY <2>1, FS_CardinalityType, BoundsAssumption
<1>2. s \notin file.rows
  BY <1>1 DEF FreshInv, RowsTracked, Full, HasRoom
<1>3. file.total[s] = 0
  BY <1>2 DEF FilesInv, RowsOnly, TypeOK
<1>4. \A w \in Workers : bytes[w].total[s] = 0
  BY DEF FilesInv, RowsOnly
<1>5. exported[s] = 0 /\ \A w \in Workers : snap[w][s] = 0
  BY DEF Control, UntrackedHasNothing
<1>6. \A w \in Workers : After(w)[s] = 0
  BY <1>5 DEF After
<1> QED BY <1>3, <1>4, <1>5, <1>6

\* What a writer will have applied was measured.
LEMMA AfterMeasured ==
  ASSUME TypeOK, Control, Account, mode # "down", NEW w \in Workers, pc[w] \in WriterPcs,
         NEW s \in tracked
  PROVE  /\ After(w)[s] \in Nat /\ exported[s] \in Nat /\ ledger[s] \in Nat /\ pending[s] \in Nat
         /\ exported[s] <= After(w)[s]
         /\ After(w)[s] + pending[s] = ledger[s]
<1>1. /\ s \in Serials /\ exported[s] \in Nat /\ pending[s] \in Nat
      /\ ledger[s] \in Nat /\ snap[w][s] \in Nat /\ After(w)[s] = exported[s] + snap[w][s]
  BY DEF TypeOK, After
<1>2. CASE snap[w] # Zero
  <2>1. exported[s] + pending[s] + snap[w][s] = ledger[s]
    BY <1>2 DEF Account, Conservation
  <2> QED BY <1>1, <2>1
<1>3. CASE snap[w] = Zero
  <2>1. \A u \in Workers : snap[u] = Zero
    BY <1>3 DEF Control, Exclusive
  <2>2. exported[s] + pending[s] = ledger[s] /\ snap[w][s] = 0
    BY <1>1, <1>3, <2>1 DEF Account, Conservation, Zero
  <2> QED BY <1>1, <2>2
<1> QED BY <1>2, <1>3

\* What restore_coulombs leaves is between the file it read and what it serves.
LEMMA RestoredFresh ==
  ASSUME TypeOK, mode' # "down", \A w \in Workers : pc'[w] = "idle",
         tracked' = Restored(file), exported' = RestoredTotals(file), ledger' = exported',
         file' = file
  PROVE  FreshInv'
<1>1. file \in StateFiles
  BY DEF TypeOK
<1>2. RowsTracked'
  BY <1>1, SkippedMeansFull DEF RowsTracked, Full
<1>3. ASSUME NEW s \in Restored(file)
      PROVE  exported'[s] <= file.total[s] /\ file.total[s] <= ledger'[s] + 1
  <2>1. s \in Serials /\ file.total[s] \in Nat
    BY <1>1, RestoredTypes DEF StateFiles
  <2>2. exported'[s] = file.total[s]
    BY <1>3, <2>1 DEF RestoredTotals
  <2> QED BY <2>1, <2>2
<1> QED BY <1>2, <1>3 DEF FreshInv, BytesMatch, FileBetween

\* Steps that move no quantity and no file; what a writer holds stays.
LEMMA StillFresh ==
  ASSUME FreshInv, mode # "down", UNCHANGED <<tracked, exported, snap, file>>,
         \A s \in tracked : ledger[s] = ledger'[s],
         \A w \in Workers : pc'[w] \in {"write", "renamed", "written"} =>
           pc[w] \in {"write", "renamed", "written"} /\ bytes'[w] = bytes[w]
  PROVE  FreshInv'
<1>1. \A w \in Workers, s \in Serials : After(w)'[s] = After(w)[s]
  BY DEF After
<1>2. \A w \in Workers : After(w)' = After(w)
  BY DEF After
<1>3. RowsTracked' /\ FileBetween'
  BY DEF FreshInv, RowsTracked, Full, FileBetween
<1>4. BytesMatch'
  BY <1>2 DEF FreshInv, BytesMatch
<1> QED BY <1>3, <1>4 DEF FreshInv

\* A serial takes a slot, and then a delta may be staged for it.
LEMMA NewcomerStaysFresh ==
  ASSUME TypeOK, Control, FilesInv, FreshInv, mode # "down",
         NEW s \in Serials, HasRoom(s), tracked' = tracked \cup {s},
         NEW q \in Nat, ledger' = [ledger EXCEPT ![s] = @ + q],
         \A w \in Workers : pc'[w] \in {"write", "renamed", "written"} => pc[w] = pc'[w],
         UNCHANGED <<exported, snap, bytes, file>>
  PROVE  FreshInv'
<1>1. \A t \in tracked' : t \in Serials /\ (t \in tracked \/ (t = s /\ s \notin tracked))
  BY DEF TypeOK
<1>2. \A w \in Workers : After(w)' = After(w)
  BY DEF After
<1>3. RowsTracked'
  <2>1. CASE s \in tracked
    BY <2>1 DEF FreshInv, RowsTracked, Full
  <2>2. CASE s \notin tracked
    <3>1. IsFiniteSet(tracked)
      BY SerialsAssumption, FS_Subset DEF TypeOK
    <3>2. Cardinality(tracked) \in Nat /\ MaxDevices \in Nat
      BY <3>1, FS_CardinalityType, BoundsAssumption
    <3>3. ~Full
      BY <2>2, <3>2 DEF Full, HasRoom
    <3> QED BY <3>3 DEF FreshInv, RowsTracked
  <2> QED BY <2>1, <2>2
<1>4. BytesMatch'
  <2> SUFFICES ASSUME NEW w \in Workers, pc[w] \in {"write", "renamed", "written"},
                      NEW t \in tracked'
               PROVE  bytes[w].total[t] - After(w)[t] \in 0 .. 1
    BY <1>2 DEF BytesMatch
  <2>1. CASE t \in tracked
    BY <2>1 DEF FreshInv, BytesMatch
  <2>2. CASE t = s /\ s \notin tracked
    <3>1. bytes[w].total[s] = 0 /\ After(w)[s] = 0
      BY <2>2, NewcomerHasNoRow
    <3> QED BY <2>2, <3>1
  <2> QED BY <1>1, <2>1, <2>2
<1>5. FileBetween'
  <2> SUFFICES ASSUME NEW t \in tracked'
               PROVE  exported[t] <= file.total[t] /\ file.total[t] <= ledger'[t] + 1
    BY DEF FileBetween
  <2>1. ledger[t] \in Nat /\ ledger'[t] \in Nat /\ ledger[t] <= ledger'[t]
        /\ exported[t] \in Nat /\ file.total[t] \in Nat
    BY <1>1 DEF TypeOK, StateFiles
  <2>2. CASE t \in tracked
    BY <2>1, <2>2 DEF FreshInv, FileBetween
  <2>3. CASE t = s /\ s \notin tracked
    <3>1. exported[s] = 0 /\ file.total[s] = 0
      BY <2>3, NewcomerHasNoRow
    <3> QED BY <2>1, <2>3, <3>1
  <2> QED BY <1>1, <2>2, <2>3
<1> QED BY <1>3, <1>4, <1>5 DEF FreshInv

LEMMA FreshStep ==
  ASSUME "unreadable" \notin Faults
  PROVE  TypeOK /\ Control /\ Account /\ FilesInv /\ FreshInv /\ [Next]_vars => FreshInv'
<1> SUFFICES ASSUME TypeOK, Control, Account, FilesInv, FreshInv, [Next]_vars PROVE FreshInv'
  OBVIOUS
<1> USE DEF vars, memory, disk, history
<1>0. \A w \in Workers : mode = "down" => pc[w] = "idle"
  BY DEF Control, DownIsEmpty
<1>b. \A u, w \in Workers : pc[u] \in WriterPcs /\ pc[w] \in WriterPcs => u = w
  BY DEF Control, Exclusive
<1>1. CASE UNCHANGED vars
  <2>1. \A w \in Workers : After(w)' = After(w)
    BY <1>1 DEF After
  <2> QED BY <1>1, <2>1 DEF FreshInv, RowsTracked, Full, BytesMatch, FileBetween
<1>2. CASE restore_coulombs
  <2>1. \A w \in Workers : pc'[w] = "idle"
    BY <1>0, <1>2 DEF restore_coulombs
  <2> QED BY <1>2, <2>1, RestoredFresh DEF restore_coulombs
<1>3. ~RestoreUnreadable
  BY DEF RestoreUnreadable
<1>4. CASE Kill \/ PowerLoss \/ Exit
  <2>1. mode' = "down" /\ \A w \in Workers : pc'[w] = "idle"
    BY <1>4 DEF Kill, PowerLoss, Exit, MemoryLost
  <2> QED BY <2>1 DEF FreshInv, RowsTracked, BytesMatch, FileBetween
<1>5. CASE WindowPasses
  BY <1>5, StillFresh DEF WindowPasses
<1>6. ASSUME NEW w \in Workers, Shutdown(w) PROVE FreshInv'
  <2>1. \A u \in Workers : pc'[u] = pc[u] \/ pc'[u] = "persist"
    BY <1>6 DEF Shutdown, At, TypeOK
  <2> QED BY <1>6, <2>1, StillFresh DEF Shutdown
<1>7. ASSUME NEW w \in Workers, NEW s \in Serials, Track(w, s) PROVE FreshInv'
  <2>1. ledger' = [ledger EXCEPT ![s] = @ + 0]
    BY <1>7 DEF Track, TypeOK
  <2> QED BY <1>7, <2>1, NewcomerStaysFresh DEF Track
<1>8. ASSUME NEW w \in Workers, NEW s \in Serials, NEW q \in Deltas,
             accumulate_coulombs(w, s, q)
      PROVE  FreshInv'
  <2>1. \A u \in Workers : pc'[u] = pc[u] \/ pc'[u] = "flush"
    BY <1>8 DEF accumulate_coulombs, At, TypeOK
  <2>2. q \in Nat
    BY DeltasAssumption
  <2> QED BY <1>8, <2>1, <2>2, NewcomerStaysFresh DEF accumulate_coulombs
<1>9. ASSUME NEW w \in Workers, InPhase1(w), LeaveFlush(w) PROVE FreshInv'
  <2>1. mode # "down"
    BY <1>0, <1>9 DEF InPhase1
  <2>2. \A u \in Workers : pc'[u] = pc[u] \/ pc'[u] = "idle"
    BY <1>9 DEF LeaveFlush, TypeOK
  <2> QED BY <1>9, <2>1, <2>2, StillFresh DEF LeaveFlush
<1>10. ASSUME NEW w \in Workers, TakePending(w) PROVE FreshInv'
  <2>1. mode # "down" /\ ~writing
    BY <1>0, <1>10 DEF TakePending, MayWrite, InPhase1
  <2>2. \A u \in Workers : pc[u] \notin WriterPcs /\ snap[u] = Zero
    BY <2>1 DEF Control, Exclusive
  <2>3. /\ pc' = [pc EXCEPT ![w] = "write"] /\ bytes'[w] = Snapshot /\ snap'[w] = pending
        /\ UNCHANGED <<mode, tracked, exported, file, ledger>>
    BY <1>10 DEF TakePending, take_pending, TypeOK
  <2>4. \A u \in Workers : pc'[u] \in WriterPcs => u = w
    BY <2>2, <2>3 DEF TypeOK
  <2>5. \A s \in tracked : After(w)'[s] = exported[s] + pending[s]
                           /\ exported[s] + pending[s] \in Nat
    BY <2>3 DEF After, TypeOK
  <2>6. \A s \in tracked : Snapshot.total[s] - After(w)'[s] \in 0 .. 1
    BY <2>5 DEF Snapshot, bump_ulp, TypeOK
  <2>7. BytesMatch'
    BY <2>3, <2>4, <2>6 DEF BytesMatch, WriterPcs
  <2>8. RowsTracked' /\ FileBetween'
    BY <2>3 DEF FreshInv, RowsTracked, Full, FileBetween
  <2> QED BY <2>7, <2>8 DEF FreshInv
<1>11. ASSUME NEW w \in Workers,
              WriteFails(w) \/ DirSyncOk(w) \/ DirSyncSkipped(w) \/ DirSyncFails(w)
       PROVE  FreshInv'
  <2>1. /\ pc[w] \in {"write", "renamed"}
        /\ pc' = [pc EXCEPT ![w] = "failed"]
           \/ (pc[w] = "renamed" /\ pc' = [pc EXCEPT ![w] = "written"])
        /\ UNCHANGED <<mode, tracked, exported, snap, bytes, file, ledger>>
    BY <1>11 DEF WriteFails, DirSyncOk, DirSyncSkipped, DirSyncFails, At
  <2>2. mode # "down"
    BY <1>0, <2>1
  <2>3. \A u \in Workers : pc'[u] \in {"write", "renamed", "written"} =>
          pc[u] \in {"write", "renamed", "written"}
    BY <2>1 DEF TypeOK
  <2> QED BY <2>1, <2>2, <2>3, StillFresh
<1>12. ASSUME NEW w \in Workers, Rename(w) PROVE FreshInv'
  <2>1. /\ pc[w] = "write" /\ pc[w] \in WriterPcs /\ pc' = [pc EXCEPT ![w] = "renamed"]
        /\ file' = bytes[w]
        /\ UNCHANGED <<mode, tracked, exported, snap, bytes, ledger>>
    BY <1>12 DEF Rename, At, WriterPcs
  <2>2. mode # "down"
    BY <1>0, <2>1
  <2>3. \A u \in Workers : pc'[u] \in WriterPcs => pc[u] \in WriterPcs /\ u = w
    BY <1>b, <2>1 DEF TypeOK, WriterPcs
  <2>4. \A u \in Workers : After(u)' = After(u)
    BY <2>1 DEF After
  <2>5. BytesMatch'
    BY <2>1, <2>3, <2>4 DEF FreshInv, BytesMatch, WriterPcs
  <2>6. RowsTracked'
    BY <2>1 DEF FilesInv, RowsTracked
  <2>7. FileBetween'
    <3> SUFFICES ASSUME NEW s \in tracked
                 PROVE  exported[s] <= bytes[w].total[s] /\ bytes[w].total[s] <= ledger[s] + 1
      BY <2>1 DEF FileBetween
    <3>1. /\ After(w)[s] \in Nat /\ exported[s] \in Nat /\ ledger[s] \in Nat /\ pending[s] \in Nat
          /\ exported[s] <= After(w)[s]
          /\ After(w)[s] + pending[s] = ledger[s]
      BY <2>1, <2>2, AfterMeasured
    <3>2. bytes[w].total[s] - After(w)[s] \in 0 .. 1 /\ bytes[w].total[s] \in Nat
      BY <2>1 DEF FreshInv, BytesMatch, TypeOK, StateFiles
    <3> QED BY <3>1, <3>2
  <2> QED BY <2>5, <2>6, <2>7 DEF FreshInv
<1>13. ASSUME NEW w \in Workers, Commit(w) PROVE FreshInv'
  <2>1. /\ pc[w] = "written" /\ pc[w] \in WriterPcs /\ pc' = [pc EXCEPT ![w] = "idle"]
        /\ exported' = After(w)
        /\ UNCHANGED <<mode, tracked, file, ledger>>
    BY <1>13 DEF Commit, EndWrite, apply_pending, At, After, WriterPcs
  <2>2. mode # "down"
    BY <1>0, <2>1
  <2>3. \A u \in Workers : pc'[u] \notin WriterPcs
    BY <1>b, <2>1 DEF TypeOK, WriterPcs
  <2>4. BytesMatch'
    BY <2>3 DEF BytesMatch, WriterPcs
  <2>5. RowsTracked'
    BY <2>1 DEF FreshInv, RowsTracked, Full
  <2>6. file = bytes[w]
    BY <2>1 DEF FilesInv
  <2>7. FileBetween'
    <3> SUFFICES ASSUME NEW s \in tracked
                 PROVE  After(w)[s] <= file.total[s] /\ file.total[s] <= ledger[s] + 1
      BY <2>1 DEF FileBetween
    <3>1. After(w)[s] \in Nat /\ file.total[s] \in Nat
      BY <2>1, <2>2, AfterMeasured DEF TypeOK, StateFiles
    <3>2. file.total[s] - After(w)[s] \in 0 .. 1
      BY <2>1, <2>6 DEF FreshInv, BytesMatch
    <3>3. file.total[s] <= ledger[s] + 1
      BY <2>2 DEF FreshInv, FileBetween
    <3> QED BY <3>1, <3>2, <3>3
  <2> QED BY <2>4, <2>5, <2>7 DEF FreshInv
<1>14. ASSUME NEW w \in Workers, Requeue(w) PROVE FreshInv'
  <2>1. /\ pc[w] = "failed" /\ pc[w] \in WriterPcs /\ pc' = [pc EXCEPT ![w] = "idle"]
        /\ UNCHANGED <<mode, tracked, exported, file, ledger>>
    BY <1>14 DEF Requeue, EndWrite, At, WriterPcs
  <2>2. \A u \in Workers : pc'[u] \notin WriterPcs
    BY <1>b, <2>1 DEF TypeOK, WriterPcs
  <2>3. BytesMatch'
    BY <2>2 DEF BytesMatch, WriterPcs
  <2>4. RowsTracked' /\ FileBetween'
    BY <2>1 DEF FreshInv, RowsTracked, Full, FileBetween
  <2> QED BY <2>3, <2>4 DEF FreshInv
<1> QED
  BY <1>1, <1>2, <1>3, <1>4, <1>5, <1>6, <1>7, <1>8, <1>9, <1>10, <1>11, <1>12,
     <1>13, <1>14
  DEF Next, Frame, flush_coulomb_state, Phase1, Phase2, Phase3, FlushBusy,
      FlushNothing, FlushThrottled, SerializeFails, MayWrite

\* The two steps that stamp the gauge.
LEMMA StampIsHonest ==
  ASSUME TypeOK, Control, Account, FilesInv, FreshInv, NEW w \in Workers,
         FlushNothing(w) \/ Commit(w)
  PROVE  FileMatches'
<1>0. mode # "down"
  BY DEF Control, DownIsEmpty, FlushNothing, InPhase1, Commit, EndWrite, At
<1>1. CASE FlushNothing(w)
  <2>1. /\ ~writing /\ \A s \in tracked : ~(pending[s] > 0)
        /\ UNCHANGED <<tracked, exported, file>>
    BY <1>1 DEF FlushNothing, has_pending, LeaveFlush, disk
  <2>2. \A u \in Workers : snap[u] = Zero
    BY <2>1 DEF Control, Exclusive
  <2>3. ASSUME NEW s \in tracked
        PROVE  exported[s] <= file.total[s] /\ file.total[s] <= exported[s] + 1
    <3>1. exported[s] \in Nat /\ pending[s] \in Nat /\ pending[s] = 0
      BY <2>1 DEF TypeOK
    <3>2. exported[s] + pending[s] = ledger[s]
      BY <1>0, <2>2 DEF Account, Conservation
    <3>3. exported[s] <= file.total[s] /\ file.total[s] <= ledger[s] + 1
      BY <1>0 DEF FreshInv, FileBetween
    <3> QED BY <3>1, <3>2, <3>3
  <2> QED BY <2>1, <2>3 DEF FileMatches
<1>2. CASE Commit(w)
  <2>1. /\ pc[w] = "written" /\ exported' = After(w)
        /\ UNCHANGED <<tracked, file>>
    BY <1>2 DEF Commit, EndWrite, apply_pending, At, After, disk
  <2>2. file = bytes[w] /\ pc[w] \in WriterPcs
    BY <2>1 DEF FilesInv, WriterPcs
  <2>3. ASSUME NEW s \in tracked
        PROVE  After(w)[s] <= file.total[s] /\ file.total[s] <= After(w)[s] + 1
    <3>1. After(w)[s] \in Nat /\ file.total[s] \in Nat
      BY <1>0, <2>2, AfterMeasured DEF TypeOK, StateFiles
    <3>2. file.total[s] - After(w)[s] \in 0 .. 1
      BY <2>1, <2>2 DEF FreshInv, BytesMatch
    <3> QED BY <3>1, <3>2
  <2> QED BY <2>1, <2>3 DEF FileMatches
<1> QED BY <1>1, <1>2

\* Whenever the gauge is stamped, after a write and on a frame with nothing to
\* write alike, the file holds every tracked total to one ULP.
THEOREM FreshnessTheorem ==
  ASSUME "unreadable" \notin Faults
  PROVE  Spec => FreshnessStampIsHonest
<1>1. Init => TypeOK /\ Control /\ Account /\ FilesInv /\ FreshInv
  <2>1. Init => FreshInv
    BY DEF Init, FreshInv, RowsTracked, BytesMatch, FileBetween
  <2> QED BY <2>1, InitialTypes, InitialControl, InitialAccount, InitialFiles
<1>2. TypeOK /\ Control /\ Account /\ FilesInv /\ FreshInv /\ [Next]_vars
        => (TypeOK /\ Control /\ Account /\ FilesInv /\ FreshInv)'
  BY TypeStep, ControlStep, AccountStep, FilesStep, FreshStep
<1>3. TypeOK /\ Control /\ Account /\ FilesInv /\ FreshInv /\ [Next]_vars
        => [(\E w \in Workers : FlushNothing(w) \/ Commit(w)) => FileMatches']_vars
  BY StampIsHonest
<1> QED BY <1>1, <1>2, <1>3, PTL DEF Spec, FreshnessStampIsHonest

-----------------------------------------------------------------------------
(* On a disk that works.                                                   *)

DiskWorks == {"write", "serialize"} \cap Faults = {} /\ "failed" \notin DirSyncOutcomes

\* The `writing` flag is up only while somebody writes, and no write fails.
FlagInv ==
  /\ writing => \E w \in Workers : pc[w] \in WriterPcs
  /\ \A w \in Workers : pc[w] # "failed"

LEMMA FlagStep ==
  ASSUME DiskWorks
  PROVE  TypeOK /\ Control /\ FlagInv /\ [Next]_vars => FlagInv'
<1> SUFFICES ASSUME TypeOK, Control, FlagInv, [Next]_vars PROVE FlagInv'
  OBVIOUS
<1> USE DEF vars, memory, disk, history
<1>1. CASE UNCHANGED <<pc, writing>>
  BY <1>1 DEF FlagInv
<1>2. CASE restore_coulombs \/ RestoreUnreadable \/ WindowPasses
  BY <1>1, <1>2 DEF restore_coulombs, RestoreUnreadable, WindowPasses
<1>3. CASE Kill \/ PowerLoss \/ Exit
  BY <1>3 DEF Kill, PowerLoss, Exit, MemoryLost, FlagInv
<1>4. ASSUME NEW w \in Workers, pc[w] \notin WriterPcs,
             NEW to, to # "failed", pc' = [pc EXCEPT ![w] = to], writing' = writing
      PROVE  FlagInv'
  BY <1>4 DEF FlagInv, TypeOK
<1>5. ASSUME NEW w \in Workers, Shutdown(w) PROVE FlagInv'
  BY <1>4, <1>5 DEF Shutdown, At, WriterPcs
<1>6. ASSUME NEW w \in Workers, NEW s \in Serials, Track(w, s) PROVE FlagInv'
  BY <1>1, <1>6 DEF Track
<1>7. ASSUME NEW w \in Workers, NEW s \in Serials, NEW q \in Deltas,
             accumulate_coulombs(w, s, q)
      PROVE  FlagInv'
  BY <1>4, <1>7 DEF accumulate_coulombs, At, WriterPcs
<1>8. ASSUME NEW w \in Workers, InPhase1(w), LeaveFlush(w) PROVE FlagInv'
  BY <1>4, <1>8 DEF InPhase1, LeaveFlush, WriterPcs
<1>9. ASSUME NEW w \in Workers, TakePending(w) PROVE FlagInv'
  BY <1>9 DEF TakePending, FlagInv, WriterPcs, TypeOK
<1>10. ASSUME NEW w \in Workers, Phase2(w) PROVE FlagInv'
  <2>1. PICK to \in {"renamed", "written"} : pc' = [pc EXCEPT ![w] = to]
    BY <1>10 DEF DiskWorks, Phase2, WriteFails, Rename, DirSyncOk, DirSyncSkipped,
                 DirSyncFails, At
  <2>2. pc'[w] = to /\ \A u \in Workers : u # w => pc'[u] = pc[u]
    BY <2>1 DEF TypeOK
  <2> QED BY <2>1, <2>2 DEF FlagInv, WriterPcs
<1>11. ASSUME NEW w \in Workers, Phase3(w) PROVE FlagInv'
  BY <1>11 DEF Phase3, Commit, Requeue, EndWrite, At, FlagInv, TypeOK
<1> QED
  BY <1>1, <1>2, <1>3, <1>5, <1>6, <1>7, <1>8, <1>9, <1>10, <1>11
  DEF Next, Frame, flush_coulomb_state, Phase1, FlushBusy, FlushNothing,
      FlushThrottled, SerializeFails, MayWrite

LEMMA FlagInvHolds ==
  ASSUME DiskWorks
  PROVE  Spec => [](TypeOK /\ Control /\ Account /\ FilesInv /\ FlagInv)
<1>1. Init => TypeOK /\ Control /\ Account /\ FilesInv /\ FlagInv
  BY InitialTypes, InitialControl, InitialAccount, InitialFiles DEF Init, FlagInv
<1>2. TypeOK /\ Control /\ Account /\ FilesInv /\ FlagInv /\ [Next]_vars
        => (TypeOK /\ Control /\ Account /\ FilesInv /\ FlagInv)'
  BY TypeStep, ControlStep, AccountStep, FilesStep, FlagStep
<1> QED BY <1>1, <1>2, PTL DEF Spec

-----------------------------------------------------------------------------
(* A kill between frames loses one window.                                 *)

\* A delta staged with the throttle open belongs to the frame being handled,
\* which is about to write it.
WindowInv ==
  overdue # {} =>
    /\ ~throttled
    /\ \E w \in Workers : pc[w] = "flush"
    /\ \A s \in overdue : s \in tracked /\ pending[s] > 0

OneThread == \A u, w \in Workers : u = w

LEMMA WindowStep ==
  ASSUME DiskWorks, OneThread
  PROVE  TypeOK /\ Control /\ FlagInv /\ WindowInv /\ [Next]_vars => WindowInv'
<1> SUFFICES ASSUME TypeOK, Control, FlagInv, WindowInv, [Next]_vars PROVE WindowInv'
  OBVIOUS
<1> USE DEF vars, memory, disk, history
<1>1. CASE overdue' = {}
  BY <1>1 DEF WindowInv
<1>2. CASE overdue = {} /\ overdue' = overdue
  BY <1>1, <1>2
<1>3. ASSUME NEW w \in Workers, pc[w] # "flush" PROVE overdue = {}
  BY <1>3 DEF WindowInv, OneThread
<1>4. CASE UNCHANGED vars
  BY <1>4 DEF WindowInv
<1>5. CASE restore_coulombs \/ RestoreUnreadable
  <2>1. \A w \in Workers : pc[w] = "idle"
    BY <1>5 DEF Control, DownIsEmpty, restore_coulombs, RestoreUnreadable
  <2>2. overdue = {}
    BY <2>1 DEF WindowInv
  <2> QED BY <1>2, <1>5, <2>2 DEF restore_coulombs, RestoreUnreadable
<1>6. CASE Kill \/ PowerLoss \/ Exit
  BY <1>1, <1>6 DEF Kill, PowerLoss, Exit, MemoryLost
<1>7. CASE WindowPasses
  BY <1>2, <1>7 DEF WindowPasses, WindowInv
<1>8. ASSUME NEW w \in Workers, Shutdown(w) PROVE WindowInv'
  BY <1>2, <1>3, <1>8 DEF Shutdown, At
<1>9. ASSUME NEW w \in Workers, NEW s \in Serials, Track(w, s) PROVE WindowInv'
  BY <1>2, <1>3, <1>9 DEF Track
<1>10. ASSUME NEW w \in Workers, NEW s \in Serials, NEW q \in Deltas,
              accumulate_coulombs(w, s, q)
       PROVE  WindowInv'
  <2>1. overdue = {} /\ q \in Nat
    BY <1>3, <1>10, DeltasAssumption DEF accumulate_coulombs, At
  <2>2. CASE q > 0 /\ ~throttled
    <3>1. /\ overdue' = {s} /\ tracked' = tracked \cup {s} /\ throttled' = throttled
          /\ pc' = [pc EXCEPT ![w] = "flush"]
          /\ pending' = [pending EXCEPT ![s] = @ + q]
      BY <1>10, <2>1, <2>2 DEF accumulate_coulombs, At
    <3>2. pending'[s] > 0 /\ pc'[w] = "flush"
      BY <2>1, <2>2, <3>1 DEF TypeOK
    <3> QED BY <2>2, <3>1, <3>2 DEF WindowInv
  <2>3. CASE ~(q > 0 /\ ~throttled)
    BY <1>1, <1>10, <2>1, <2>3 DEF accumulate_coulombs
  <2> QED BY <2>2, <2>3
<1>11. ASSUME NEW w \in Workers, FlushBusy(w) PROVE WindowInv'
  <2>1. overdue = {}
    BY <1>11 DEF FlushBusy, InPhase1, FlagInv, OneThread, WriterPcs
  <2> QED BY <1>2, <1>11, <2>1 DEF FlushBusy, LeaveFlush
<1>12. ASSUME NEW w \in Workers, FlushNothing(w) PROVE WindowInv'
  <2>1. overdue = {}
    BY <1>12 DEF FlushNothing, has_pending, WindowInv
  <2> QED BY <1>2, <1>12, <2>1 DEF FlushNothing, LeaveFlush
<1>13. ASSUME NEW w \in Workers, FlushThrottled(w) PROVE WindowInv'
  <2>1. overdue = {}
    BY <1>13 DEF FlushThrottled, WindowInv
  <2> QED BY <1>2, <1>13, <2>1 DEF FlushThrottled, LeaveFlush
<1>14. ASSUME NEW w \in Workers, SerializeFails(w) PROVE FALSE
  BY <1>14 DEF SerializeFails, DiskWorks
<1>15. ASSUME NEW w \in Workers, TakePending(w) PROVE WindowInv'
  BY <1>1, <1>15 DEF TakePending, take_pending
<1>16. ASSUME NEW w \in Workers, Phase2(w) \/ Commit(w) PROVE WindowInv'
  <2>1. pc[w] # "flush" /\ overdue' = overdue
    BY <1>16 DEF Phase2, WriteFails, Rename, DirSyncOk, DirSyncSkipped, DirSyncFails,
                 Commit, EndWrite, At
  <2> QED BY <1>2, <1>3, <2>1
<1>17. ASSUME NEW w \in Workers, Requeue(w) PROVE FALSE
  BY <1>17 DEF Requeue, EndWrite, At, FlagInv
<1> QED
  BY <1>4, <1>5, <1>6, <1>7, <1>8, <1>9, <1>10, <1>11, <1>12, <1>13, <1>14, <1>15,
     <1>16, <1>17
  DEF Next, Frame, flush_coulomb_state, Phase1, Phase3

\* With the one thread of the shipped binary and a disk that works, what a kill
\* between two frames loses was staged after the last write attempt: the
\* documented window.
THEOREM LossTheorem ==
  ASSUME DiskWorks, OneThread
  PROVE  Spec => []LossIsOneWindow
<1>1. Spec => [](TypeOK /\ Control /\ Account /\ FilesInv /\ FlagInv)
  BY FlagInvHolds
<1>2. Init => WindowInv
  BY DEF Init, WindowInv
<1>3. (TypeOK /\ Control /\ Account /\ FilesInv /\ FlagInv) /\ WindowInv /\ [Next]_vars
        => WindowInv'
  BY WindowStep
<1>4. WindowInv => LossIsOneWindow
  BY DEF WindowInv, LossIsOneWindow, AllIdle
<1> QED BY <1>1, <1>2, <1>3, <1>4, PTL DEF Spec

-----------------------------------------------------------------------------
(* The flush at shutdown.                                                  *)

Saved == \A s \in tracked : exported[s] = ledger[s] /\ file.total[s] = bump_ulp(ledger[s])

\* Once stopping, the one worker left is on its way from the forced flush to a
\* file that holds everything.
StopInv ==
  mode = "stopping" =>
    /\ \A w \in Workers : pc[w] # "flush"
    /\ \A u, w \in Workers : pc[u] # "idle" /\ pc[w] # "idle" => u = w
    /\ \A w \in Workers : pc[w] \in WriterPcs =>
         /\ pending = Zero
         /\ \A s \in tracked : bytes[w].total[s] = bump_ulp(ledger[s])
    /\ AllIdle => Saved

LEMMA SnapshotSaves ==
  ASSUME TypeOK, Account, mode # "down", \A w \in Workers : snap[w] = Zero, NEW s \in tracked
  PROVE  Snapshot.total[s] = bump_ulp(ledger[s])
<1>1. s \in Serials
  BY DEF TypeOK
<1>2. exported[s] + pending[s] = ledger[s]
  BY DEF Account, Conservation
<1> QED BY <1>1, <1>2 DEF Snapshot

LEMMA StopStep ==
  ASSUME DiskWorks
  PROVE  TypeOK /\ Control /\ Account /\ FilesInv /\ FlagInv /\ StopInv /\ [Next]_vars => StopInv'
<1> SUFFICES ASSUME TypeOK, Control, Account, FilesInv, FlagInv, StopInv, [Next]_vars
             PROVE  StopInv'
  OBVIOUS
<1> USE DEF vars, memory, disk, history
<1>1. CASE UNCHANGED vars
  BY <1>1 DEF StopInv, AllIdle, Saved
<1>2. CASE mode' # "stopping"
  BY <1>2 DEF StopInv
<1>3. CASE restore_coulombs \/ RestoreUnreadable \/ Kill \/ PowerLoss \/ Exit \/ WindowPasses
  BY <1>2, <1>3
  DEF restore_coulombs, RestoreUnreadable, Kill, PowerLoss, Exit, WindowPasses
<1>4. ASSUME NEW w \in Workers, Shutdown(w) PROVE StopInv'
  <2>1. \A u \in Workers : pc'[u] = IF u = w THEN "persist" ELSE "idle"
    BY <1>4 DEF Shutdown, At, AllIdle, TypeOK
  <2> QED BY <2>1 DEF StopInv, AllIdle, WriterPcs
<1>5. ASSUME NEW w \in Workers, NEW s \in Serials, Track(w, s) PROVE StopInv'
  BY <1>2, <1>5 DEF Track
<1>6. ASSUME NEW w \in Workers, NEW s \in Serials, NEW q \in Deltas,
             accumulate_coulombs(w, s, q)
      PROVE  StopInv'
  BY <1>2, <1>6 DEF accumulate_coulombs
<1>7. ASSUME NEW w \in Workers, flush_coulomb_state(w), mode = "stopping" PROVE StopInv'
  <2>1. /\ pc[w] # "idle" /\ pc[w] # "flush" /\ pc[w] # "failed"
        /\ \A u \in Workers : u # w => pc[u] = "idle"
    <3>1. pc[w] # "idle"
      BY <1>7
      DEF flush_coulomb_state, Phase1, FlushBusy, FlushNothing, FlushThrottled,
          SerializeFails, TakePending, MayWrite, InPhase1, Phase2, WriteFails, Rename,
          DirSyncOk, DirSyncSkipped, DirSyncFails, Phase3, Commit, Requeue, EndWrite, At
    <3> QED BY <1>7, <3>1 DEF StopInv, FlagInv
  <2>2. CASE Phase1(w)
    <3>1. pc[w] = "persist"
      BY <2>1, <2>2
      DEF Phase1, FlushBusy, FlushNothing, FlushThrottled, SerializeFails, TakePending,
          MayWrite, InPhase1
    <3>2. ~writing
      BY <2>1, <3>1 DEF FlagInv, WriterPcs
    <3>3. TakePending(w)
      BY <2>2, <3>1, <3>2
      DEF Phase1, FlushBusy, FlushNothing, FlushThrottled, SerializeFails, DiskWorks
    <3>4. \A u \in Workers : snap[u] = Zero
      BY <3>2 DEF Control, Exclusive
    <3>5. /\ pc' = [pc EXCEPT ![w] = "write"] /\ bytes' = [bytes EXCEPT ![w] = Snapshot]
          /\ pending' = Zero /\ UNCHANGED <<tracked, ledger>>
      BY <3>3 DEF TakePending, take_pending
    <3>6. \A u \in Workers : \/ u = w /\ pc'[u] = "write" /\ bytes'[u] = Snapshot
                             \/ u # w /\ pc'[u] = "idle"
      BY <2>1, <3>5 DEF TypeOK
    <3>7. \A s \in tracked : Snapshot.total[s] = bump_ulp(ledger[s])
      BY <1>7, <3>4, SnapshotSaves
    <3> QED BY <3>5, <3>6, <3>7 DEF StopInv, AllIdle, WriterPcs
  <2>3. CASE Phase2(w)
    <3>1. PICK to \in WriterPcs : pc' = [pc EXCEPT ![w] = to]
      BY <2>3
      DEF Phase2, WriteFails, Rename, DirSyncOk, DirSyncSkipped, DirSyncFails, At, WriterPcs
    <3>2. pc[w] \in WriterPcs /\ UNCHANGED <<tracked, pending, bytes, ledger>>
      BY <2>3
      DEF Phase2, WriteFails, Rename, DirSyncOk, DirSyncSkipped, DirSyncFails, At, WriterPcs
    <3>3. \A u \in Workers : u # w => pc'[u] = "idle"
      BY <2>1, <3>1 DEF TypeOK
    <3>4. pc'[w] \in WriterPcs
      BY <3>1 DEF TypeOK
    <3> QED BY <1>7, <3>2, <3>3, <3>4 DEF StopInv, AllIdle, WriterPcs
  <2>4. CASE Phase3(w)
    <3>1. Commit(w) /\ pc[w] = "written"
      BY <2>1, <2>4 DEF Phase3, Commit, Requeue, EndWrite, At
    <3>2. /\ pc' = [pc EXCEPT ![w] = "idle"] /\ exported' = After(w)
          /\ UNCHANGED <<tracked, file, ledger>>
      BY <3>1 DEF Commit, EndWrite, apply_pending, At, After
    <3>3. \A u \in Workers : pc'[u] = "idle"
      BY <2>1, <3>2 DEF TypeOK
    <3>4. file = bytes[w] /\ pc[w] \in WriterPcs
      BY <3>1 DEF FilesInv, WriterPcs
    <3>5. ASSUME NEW s \in tracked
          PROVE  After(w)[s] = ledger[s] /\ file.total[s] = bump_ulp(ledger[s])
      <4>1. /\ After(w)[s] \in Nat /\ ledger[s] \in Nat /\ pending[s] \in Nat
            /\ After(w)[s] + pending[s] = ledger[s]
        BY <1>7, <3>4, AfterMeasured
      <4>2. pending[s] = 0 /\ bytes[w].total[s] = bump_ulp(ledger[s])
        BY <1>7, <3>4 DEF StopInv, Zero, TypeOK
      <4> QED BY <3>4, <4>1, <4>2
    <3>6. Saved'
      BY <3>2, <3>5 DEF Saved
    <3> QED BY <3>3, <3>6 DEF StopInv, WriterPcs
  <2> QED BY <1>7, <2>2, <2>3, <2>4 DEF flush_coulomb_state
<1>8. ASSUME NEW w \in Workers, flush_coulomb_state(w), mode # "stopping" PROVE StopInv'
  BY <1>2, <1>8
  DEF flush_coulomb_state, Phase1, FlushBusy, FlushNothing, FlushThrottled,
      SerializeFails, LeaveFlush, TakePending, Phase2, WriteFails, Rename, DirSyncOk,
      DirSyncSkipped, DirSyncFails, Phase3, Commit, Requeue
<1> QED
  BY <1>1, <1>3, <1>4, <1>5, <1>6, <1>7, <1>8 DEF Next, Frame

\* On a disk that works the flush at shutdown leaves nothing in memory, however
\* many threads served: neither the throttle nor an idle last frame stops it.
THEOREM ShutdownTheorem ==
  ASSUME DiskWorks
  PROVE  Spec => []ShutdownWritesEverything
<1>1. Spec => [](TypeOK /\ Control /\ Account /\ FilesInv /\ FlagInv)
  BY FlagInvHolds
<1>2. Init => StopInv
  BY DEF Init, StopInv
<1>3. (TypeOK /\ Control /\ Account /\ FilesInv /\ FlagInv) /\ StopInv /\ [Next]_vars
        => StopInv'
  BY StopStep
<1>4. StopInv => ShutdownWritesEverything
  BY DEF StopInv, Saved, ShutdownWritesEverything
<1> QED BY <1>1, <1>2, <1>3, <1>4, PTL DEF Spec
=============================================================================
