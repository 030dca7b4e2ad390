-------------------------- MODULE WriteAheadProof --------------------------
(***************************************************************************)
(* The write-ahead argument of flush_coulomb_state, for any serials, any   *)
(* number of workers and any bounds: types, the cap, the exclusion of      *)
(* writers, and that no crash and no power loss leaves a state file from   *)
(* which a counter would come back lower.                                  *)
(***************************************************************************)
EXTENDS CoulombStore, FiniteSetTheorems, TLAPS

-----------------------------------------------------------------------------
(* Type correctness.                                                       *)

LEMMA SnapshotType == TypeOK => Snapshot \in StateFiles
  BY DEF TypeOK, Snapshot, StateFiles, bump_ulp

LEMMA ZeroType == Zero \in [Serials -> Nat]
  BY DEF Zero

LEMMA AbsentType == Absent \in StateFiles
  BY ZeroType DEF Absent, StateFiles

LEMMA FirstFilesType == FirstFiles \subseteq StateFiles
  BY DeltasAssumption DEF FirstFiles, StateFiles

LEMMA RestoredTypes ==
  ASSUME NEW f \in StateFiles
  PROVE  /\ Restored(f) \subseteq Serials
         /\ RestoredTotals(f) \in [Serials -> Nat]
         /\ restore(f) \in [Serials -> Nat]
<1>1. f.rows \subseteq Serials /\ f.total \in [Serials -> Nat] /\ f.calib \in [Serials -> Nat]
  BY DEF StateFiles
<1>2. Restored(f) \subseteq Serials
  BY <1>1 DEF Restored
<1> QED
  BY <1>1, <1>2 DEF RestoredTotals, restore

LEMMA InitialTypes == Init => TypeOK
<1> SUFFICES ASSUME Init PROVE TypeOK
  OBVIOUS
<1>1. file \in StateFiles
  BY AbsentType, FirstFilesType DEF Init
<1>2. ledger \in [Serials -> Nat]
  BY <1>1 DEF Init, StateFiles
<1>3. snap \in [Workers -> [Serials -> Nat]] /\ bytes \in [Workers -> StateFiles]
  BY ZeroType, AbsentType DEF Init
<1> QED
  BY <1>1, <1>2, <1>3, ZeroType DEF Init, TypeOK

\* What every loss of the process's memory leaves behind is well typed.
LEMMA MemoryLostTypes ==
  ASSUME TypeOK, MemoryLost, mode' = "down",
         file' \in StateFiles, survivors' \subseteq StateFiles, file' \in survivors',
         UNCHANGED <<exported, restarts, ledger>>
  PROVE  TypeOK'
<1>1. snap' \in [Workers -> [Serials -> Nat]] /\ bytes' \in [Workers -> StateFiles]
  BY ZeroType, AbsentType DEF MemoryLost
<1>2. pending' \in [Serials -> Nat] /\ calib' \in [Serials -> Nat]
  BY ZeroType DEF MemoryLost
<1>3. pc' \in [Workers -> {"idle", "flush", "persist"} \cup WriterPcs]
  BY DEF MemoryLost
<1>4. /\ tracked' \subseteq Serials /\ primed' \subseteq Serials
      /\ throttled' \in BOOLEAN /\ writing' \in BOOLEAN
      /\ overdue' \subseteq Serials /\ attempts' \in Nat
  BY DEF MemoryLost
<1>5. exported' \in [Serials -> Nat] /\ restarts' \in Nat /\ ledger' \in [Serials -> Nat]
  BY DEF TypeOK
<1> QED
  BY <1>1, <1>2, <1>3, <1>4, <1>5 DEF TypeOK

LEMMA TypeStep == TypeOK /\ [Next]_vars => TypeOK'
<1> SUFFICES ASSUME TypeOK, [Next]_vars PROVE TypeOK'
  OBVIOUS
<1> USE DEF vars, memory, disk, history
<1>1. CASE UNCHANGED vars
  BY <1>1 DEF TypeOK
<1>2. CASE restore_coulombs
  <2>1. file \in StateFiles
    BY DEF TypeOK
  <2>2. /\ Restored(file) \subseteq Serials
        /\ RestoredTotals(file) \in [Serials -> Nat]
        /\ restore(file) \in [Serials -> Nat]
    BY <2>1, RestoredTypes
  <2> QED
    BY <1>2, <2>2 DEF restore_coulombs, TypeOK
<1>3. CASE RestoreUnreadable
  BY <1>3 DEF RestoreUnreadable, TypeOK, Zero
<1>4. CASE Kill
  BY <1>4, MemoryLostTypes DEF Kill, TypeOK
<1>5. CASE PowerLoss
  BY <1>5, MemoryLostTypes DEF PowerLoss, TypeOK
<1>6. CASE Exit
  BY <1>6, MemoryLostTypes DEF Exit, TypeOK
<1>7. CASE WindowPasses
  BY <1>7 DEF WindowPasses, TypeOK
<1>8. ASSUME NEW w \in Workers, Shutdown(w) PROVE TypeOK'
  BY <1>8 DEF Shutdown, At, TypeOK
<1>9. ASSUME NEW w \in Workers, NEW s \in Serials, Track(w, s) PROVE TypeOK'
  BY <1>9 DEF Track, TypeOK
<1>10. ASSUME NEW w \in Workers, NEW s \in Serials, NEW q \in Deltas,
              accumulate_coulombs(w, s, q)
       PROVE  TypeOK'
  <2>1. q \in Nat
    BY DeltasAssumption
  <2>2. /\ pending' \in [Serials -> Nat]
        /\ calib' \in [Serials -> Nat]
        /\ ledger' \in [Serials -> Nat]
    BY <1>10, <2>1 DEF accumulate_coulombs, TypeOK
  <2>3. pc' \in [Workers -> {"idle", "flush", "persist"} \cup WriterPcs]
    BY <1>10 DEF accumulate_coulombs, At, TypeOK
  <2> QED
    BY <1>10, <2>2, <2>3 DEF accumulate_coulombs, TypeOK
<1>11. ASSUME NEW w \in Workers, LeaveFlush(w) PROVE TypeOK'
  BY <1>11 DEF LeaveFlush, TypeOK
<1>12. ASSUME NEW w \in Workers, TakePending(w) PROVE TypeOK'
  <2>1. bytes' \in [Workers -> StateFiles]
    BY <1>12, SnapshotType DEF TakePending, TypeOK
  <2>2. snap' \in [Workers -> [Serials -> Nat]] /\ pending' \in [Serials -> Nat]
    BY <1>12 DEF TakePending, take_pending, Zero, TypeOK
  <2>3. pc' \in [Workers -> {"idle", "flush", "persist"} \cup WriterPcs]
    BY <1>12 DEF TakePending, WriterPcs, TypeOK
  <2> QED
    BY <1>12, <2>1, <2>2, <2>3 DEF TakePending, take_pending, TypeOK
<1>13. ASSUME NEW w \in Workers, Phase2(w) PROVE TypeOK'
  <2>1. pc' \in [Workers -> {"idle", "flush", "persist"} \cup WriterPcs]
    BY <1>13
    DEF Phase2, WriteFails, Rename, DirSyncOk, DirSyncSkipped, DirSyncFails, At,
        WriterPcs, TypeOK
  <2>2. file' \in StateFiles /\ survivors' \subseteq StateFiles /\ file' \in survivors'
    BY <1>13
    DEF Phase2, WriteFails, Rename, DirSyncOk, DirSyncSkipped, DirSyncFails, TypeOK
  <2> QED
    BY <1>13, <2>1, <2>2
    DEF Phase2, WriteFails, Rename, DirSyncOk, DirSyncSkipped, DirSyncFails, TypeOK
<1>14. ASSUME NEW w \in Workers, Phase3(w) PROVE TypeOK'
  <2>1. /\ pc' \in [Workers -> {"idle", "flush", "persist"} \cup WriterPcs]
        /\ snap' \in [Workers -> [Serials -> Nat]]
        /\ bytes' \in [Workers -> StateFiles]
    BY <1>14, ZeroType, AbsentType
    DEF Phase3, Commit, Requeue, EndWrite, At, TypeOK
  <2>2. exported' \in [Serials -> Nat] /\ pending' \in [Serials -> Nat]
    BY <1>14 DEF Phase3, Commit, Requeue, apply_pending, requeue_pending, TypeOK
  <2> QED
    BY <1>14, <2>1, <2>2 DEF Phase3, Commit, Requeue, EndWrite, TypeOK
<1> QED
  BY <1>1, <1>2, <1>3, <1>4, <1>5, <1>6, <1>7, <1>8, <1>9, <1>10, <1>11, <1>12,
     <1>13, <1>14
  DEF Next, Frame, flush_coulomb_state, Phase1, FlushBusy, FlushNothing,
      FlushThrottled, SerializeFails

\* Every reachable state is well typed, whatever fails in the environment.
THEOREM TypeCorrectness == Spec => []TypeOK
<1>1. Init => TypeOK
  BY InitialTypes
<1>2. TypeOK /\ [Next]_vars => TypeOK'
  BY TypeStep
<1> QED
  BY <1>1, <1>2, PTL DEF Spec

-----------------------------------------------------------------------------
(* The cap at restore.                                                     *)

Before(f, s) == {t \in f.rows : t < s}

LEMMA RowsFinite ==
  ASSUME NEW f \in StateFiles
  PROVE  /\ f.rows \subseteq Serials /\ f.rows \subseteq Nat /\ IsFiniteSet(f.rows)
         /\ \A s : IsFiniteSet(Before(f, s)) /\ Cardinality(Before(f, s)) \in Nat
<1>1. f.rows \subseteq Serials
  BY DEF StateFiles
<1>2. IsFiniteSet(f.rows)
  BY <1>1, FS_Subset, SerialsAssumption
<1>3. ASSUME NEW s PROVE IsFiniteSet(Before(f, s)) /\ Cardinality(Before(f, s)) \in Nat
  <2>1. Before(f, s) \subseteq f.rows
    BY DEF Before
  <2> QED
    BY <2>1, <1>2, FS_Subset, FS_CardinalityType
<1> QED
  BY <1>1, <1>2, <1>3, SerialsAssumption

LEMMA BeforeGrows ==
  ASSUME NEW f \in StateFiles, NEW s \in f.rows, NEW u \in f.rows, s < u
  PROVE  Cardinality(Before(f, s)) < Cardinality(Before(f, u))
<1>1. s \in Nat /\ u \in Nat /\ f.rows \subseteq Nat
  BY RowsFinite
<1>2. Before(f, s) \subseteq Before(f, u)
  BY <1>1 DEF Before
<1>3. s \in Before(f, u) /\ s \notin Before(f, s)
  BY <1>1 DEF Before
<1>4. /\ IsFiniteSet(Before(f, u)) /\ IsFiniteSet(Before(f, s))
      /\ Cardinality(Before(f, u)) \in Nat /\ Cardinality(Before(f, s)) \in Nat
  BY RowsFinite
<1>5. /\ Cardinality(Before(f, s)) <= Cardinality(Before(f, u))
      /\ Cardinality(Before(f, u)) = Cardinality(Before(f, s)) => Before(f, u) = Before(f, s)
  BY <1>2, <1>4, FS_Subset
<1> QED
  BY <1>3, <1>4, <1>5

\* restore_coulombs never brings back more serials than max_devices, however
\* many rows the state file holds.
LEMMA RestoreHonoursCap ==
  ASSUME NEW f \in StateFiles, MaxDevices # 0
  PROVE  Cardinality(Restored(f)) <= MaxDevices
<1> DEFINE rank == [s \in Restored(f) |-> Cardinality(Before(f, s))]
<1>1. MaxDevices \in Nat
  BY BoundsAssumption
<1>2. Restored(f) \subseteq f.rows /\ f.rows \subseteq Nat
  BY RowsFinite DEF Restored
<1>3. \A s \in Restored(f) : Cardinality(Before(f, s)) \in 0 .. (MaxDevices - 1)
  BY <1>1, RowsFinite DEF Restored, Before
<1>4. rank \in [Restored(f) -> 0 .. (MaxDevices - 1)]
  BY <1>3
<1>5. ASSUME NEW s \in Restored(f), NEW u \in Restored(f), s # u
      PROVE  rank[s] # rank[u]
  <2>1. s \in f.rows /\ u \in f.rows /\ (s < u \/ u < s)
    BY <1>2, <1>5
  <2>2. CASE s < u
    BY <2>1, <2>2, BeforeGrows, RowsFinite
  <2>3. CASE u < s
    BY <2>1, <2>3, BeforeGrows, RowsFinite
  <2> QED
    BY <2>1, <2>2, <2>3
<1>6. rank \in Injection(Restored(f), 0 .. (MaxDevices - 1))
  BY <1>4, <1>5 DEF Injection, IsInjective
<1>7. /\ IsFiniteSet(0 .. (MaxDevices - 1))
      /\ Cardinality(0 .. (MaxDevices - 1)) = MaxDevices
  BY <1>1, FS_Interval
<1>8. Cardinality(Restored(f)) <= Cardinality(0 .. (MaxDevices - 1))
  BY <1>6, <1>7, FS_Injection
<1> QED
  BY <1>7, <1>8

\* A file with no more rows than the cap is restored whole.
LEMMA RestoresAllRows ==
  ASSUME NEW f \in StateFiles, MaxDevices # 0 => Cardinality(f.rows) <= MaxDevices
  PROVE  Restored(f) = f.rows
<1> SUFFICES ASSUME MaxDevices # 0, NEW s \in f.rows
             PROVE  Cardinality(Before(f, s)) < MaxDevices
  BY DEF Restored, Before
<1>1. /\ s \in Nat /\ IsFiniteSet(f.rows)
      /\ IsFiniteSet(Before(f, s)) /\ Cardinality(Before(f, s)) \in Nat
  BY RowsFinite
<1>2. Before(f, s) \subseteq f.rows /\ s \notin Before(f, s)
  BY <1>1 DEF Before
<1>3. /\ Cardinality(Before(f, s)) <= Cardinality(f.rows)
      /\ Cardinality(f.rows) = Cardinality(Before(f, s)) => f.rows = Before(f, s)
  BY <1>1, <1>2, FS_Subset
<1>4. Cardinality(f.rows) \in Nat /\ MaxDevices \in Nat
  BY <1>1, FS_CardinalityType, BoundsAssumption
<1> QED
  BY <1>1, <1>2, <1>3, <1>4

-----------------------------------------------------------------------------
(* The inductive invariant.                                                *)

\* What the counters will be once w's snapshot is applied.
After(w) == [s \in Serials |-> exported[s] + snap[w][s]]

\* The `writing` flag: one writer at a time, and only a writer has a snapshot.
Exclusive ==
  /\ \A w \in Workers : pc[w] \in WriterPcs => writing
  /\ \A u, w \in Workers : pc[u] \in WriterPcs /\ pc[w] \in WriterPcs => u = w
  /\ \A w \in Workers : pc[w] \notin WriterPcs => snap[w] = Zero

\* A process that is down holds nothing in memory.
DownIsEmpty ==
  mode = "down" => pending = Zero /\ \A w \in Workers : pc[w] = "idle"

\* An untracked serial has no counter and nothing staged.
UntrackedHasNothing ==
  mode # "down" =>
    \A s \in Serials : s \notin tracked =>
      /\ exported[s] = 0
      /\ pending[s] = 0
      /\ \A w \in Workers : snap[w][s] = 0

\* What a writer is about to put in place covers what it will then apply.
BytesCover ==
  \A w \in Workers : pc[w] \in {"write", "renamed", "written"} => Covers(bytes[w], After(w))

\* Where a writer is tells what the disk holds.
DiskFollowsWriter ==
  \A w \in Workers :
    /\ pc[w] = "renamed" => file = bytes[w]
    /\ pc[w] = "written" => \A f \in Recoverable : Covers(f, After(w))

\* Unless a rename is waiting for its directory fsync, a power loss changes
\* nothing: the step that a kill would skip.
Settled ==
  "power" \in Faults /\ (\A w \in Workers : pc[w] # "renamed") => survivors = {file}

WAInv ==
  /\ TypeOK
  /\ CapHolds
  /\ Exclusive
  /\ DownIsEmpty
  /\ UntrackedHasNothing
  /\ BytesCover
  /\ DiskFollowsWriter
  /\ Settled
  /\ WriteAhead

\* Where the guarantee ends: a rename whose directory was not synced outlives
\* the process (a kill, or a directory fsync that fails or is skipped), is
\* restored and served, and is then rolled back by a power loss.
NoRollback == "power" \in Faults => "kill" \notin Faults /\ DirSyncOutcomes \subseteq {"ok"}

-----------------------------------------------------------------------------
(* The control part, which no failure of the environment disturbs.         *)

Control == CapHolds /\ Exclusive /\ DownIsEmpty /\ UntrackedHasNothing

LEMMA InitialControl == Init => Control
  BY FS_EmptySet, BoundsAssumption
  DEF Init, Control, CapHolds, Exclusive, DownIsEmpty, UntrackedHasNothing, WriterPcs

LEMMA TrackOneMore ==
  ASSUME TypeOK, CapHolds, NEW s \in Serials, HasRoom(s), tracked' = tracked \cup {s}
  PROVE  CapHolds'
<1>1. IsFiniteSet(tracked)
  BY SerialsAssumption, FS_Subset DEF TypeOK
<1>2. Cardinality(tracked) \in Nat /\ MaxDevices \in Nat
  BY <1>1, FS_CardinalityType, BoundsAssumption
<1>3. Cardinality(tracked \cup {s}) = IF s \in tracked THEN Cardinality(tracked)
                                     ELSE Cardinality(tracked) + 1
  BY <1>1, FS_AddElement
<1> QED
  BY <1>2, <1>3 DEF CapHolds, HasRoom

LEMMA MemoryLostControl ==
  ASSUME MemoryLost, mode' = "down" PROVE Control'
<1>1. CapHolds'
  BY FS_EmptySet, BoundsAssumption DEF MemoryLost, CapHolds
<1>2. Exclusive'
  BY DEF MemoryLost, Exclusive, WriterPcs
<1>3. DownIsEmpty' /\ UntrackedHasNothing'
  BY DEF MemoryLost, DownIsEmpty, UntrackedHasNothing
<1> QED
  BY <1>1, <1>2, <1>3 DEF Control

\* A worker that only moves between places outside the write.
LEMMA OutsideWriteControl ==
  ASSUME TypeOK, Control, NEW w \in Workers, pc[w] \notin WriterPcs,
         mode # "down", mode' # "down",
         NEW to \in {"idle", "flush", "persist"}, pc' = [pc EXCEPT ![w] = to],
         UNCHANGED <<writing, snap>>
  PROVE  Exclusive' /\ DownIsEmpty'
  BY DEF TypeOK, Control, Exclusive, DownIsEmpty, WriterPcs

LEMMA ControlStep == TypeOK /\ Control /\ [Next]_vars => Control'
<1> SUFFICES ASSUME TypeOK, Control, [Next]_vars PROVE Control'
  OBVIOUS
<1> USE DEF vars, memory, disk, history
<1>0. \A w \in Workers : mode = "down" => pc[w] = "idle"
  BY DEF Control, DownIsEmpty
<1>1. CASE UNCHANGED vars
  BY <1>1 DEF Control, CapHolds, Exclusive, DownIsEmpty, UntrackedHasNothing
<1>2. CASE restore_coulombs
  <2>1. file \in StateFiles
    BY DEF TypeOK
  <2>2. CapHolds'
    BY <1>2, <2>1, RestoreHonoursCap DEF restore_coulombs, CapHolds
  <2>3. Exclusive' /\ DownIsEmpty'
    BY <1>2 DEF restore_coulombs, Control, Exclusive, DownIsEmpty
  <2>4. \A w \in Workers : snap[w] = Zero
    BY <1>0, <1>2 DEF restore_coulombs, Control, Exclusive, WriterPcs
  <2>5. UntrackedHasNothing'
    <3> SUFFICES ASSUME NEW s \in Serials, s \notin Restored(file)
                 PROVE  /\ exported'[s] = 0
                        /\ pending'[s] = 0
                        /\ \A w \in Workers : snap'[w][s] = 0
      BY <1>2 DEF restore_coulombs, UntrackedHasNothing
    <3>1. exported'[s] = 0
      BY <1>2 DEF restore_coulombs, RestoredTotals
    <3>2. pending'[s] = 0
      BY <1>2 DEF restore_coulombs, Control, DownIsEmpty, Zero
    <3>3. \A w \in Workers : snap'[w][s] = 0
      BY <1>2, <2>4 DEF restore_coulombs, Zero
    <3> QED
      BY <3>1, <3>2, <3>3
  <2> QED
    BY <2>2, <2>3, <2>5 DEF Control
<1>3. CASE RestoreUnreadable
  <2>1. \A w \in Workers : snap[w] = Zero
    BY <1>0, <1>3 DEF RestoreUnreadable, Control, Exclusive, WriterPcs
  <2>2. UntrackedHasNothing'
    BY <1>3, <2>1 DEF RestoreUnreadable, Control, DownIsEmpty, UntrackedHasNothing, Zero
  <2>3. CapHolds' /\ Exclusive' /\ DownIsEmpty'
    BY <1>3 DEF RestoreUnreadable, Control, CapHolds, Exclusive, DownIsEmpty
  <2> QED
    BY <2>2, <2>3 DEF Control
<1>4. CASE Kill
  BY <1>4, MemoryLostControl DEF Kill
<1>5. CASE PowerLoss
  BY <1>5, MemoryLostControl DEF PowerLoss
<1>6. CASE Exit
  BY <1>6, MemoryLostControl DEF Exit
<1>7. CASE WindowPasses
  BY <1>7
  DEF WindowPasses, Control, CapHolds, Exclusive, DownIsEmpty, UntrackedHasNothing
<1>8. ASSUME NEW w \in Workers, Shutdown(w) PROVE Control'
  <2>1. Exclusive' /\ DownIsEmpty'
    BY <1>8, OutsideWriteControl DEF Shutdown, At, WriterPcs
  <2>2. CapHolds' /\ UntrackedHasNothing'
    BY <1>8 DEF Shutdown, Control, CapHolds, UntrackedHasNothing
  <2> QED
    BY <2>1, <2>2 DEF Control
<1>9. ASSUME NEW w \in Workers, NEW s \in Serials, Track(w, s) PROVE Control'
  <2>1. CapHolds'
    BY <1>9, TrackOneMore DEF Track, Control
  <2>2. Exclusive' /\ DownIsEmpty'
    BY <1>9 DEF Track, Control, Exclusive, DownIsEmpty
  <2>3. UntrackedHasNothing'
    BY <1>9 DEF Track, Control, UntrackedHasNothing
  <2> QED
    BY <2>1, <2>2, <2>3 DEF Control
<1>10. ASSUME NEW w \in Workers, NEW s \in Serials, NEW q \in Deltas,
              accumulate_coulombs(w, s, q)
       PROVE  Control'
  <2>1. CapHolds'
    BY <1>10, TrackOneMore DEF accumulate_coulombs, Control
  <2>2. Exclusive' /\ DownIsEmpty'
    BY <1>10, OutsideWriteControl DEF accumulate_coulombs, At, WriterPcs
  <2>3. UntrackedHasNothing'
    BY <1>10 DEF accumulate_coulombs, Control, UntrackedHasNothing, TypeOK
  <2> QED
    BY <2>1, <2>2, <2>3 DEF Control
<1>11. ASSUME NEW w \in Workers, InPhase1(w), LeaveFlush(w) PROVE Control'
  <2>1. mode # "down" /\ pc[w] \notin WriterPcs
    BY <1>0, <1>11 DEF InPhase1, WriterPcs
  <2>2. Exclusive' /\ DownIsEmpty'
    BY <1>11, <2>1, OutsideWriteControl DEF LeaveFlush
  <2>3. CapHolds' /\ UntrackedHasNothing'
    BY <1>11 DEF LeaveFlush, Control, CapHolds, UntrackedHasNothing
  <2> QED
    BY <2>2, <2>3 DEF Control
<1>12. ASSUME NEW w \in Workers, TakePending(w) PROVE Control'
  <2>1. mode # "down" /\ ~writing
    BY <1>0, <1>12 DEF TakePending, MayWrite, InPhase1
  <2>2. \A u \in Workers : pc[u] \notin WriterPcs
    BY <2>1 DEF Control, Exclusive
  <2>3. Exclusive'
    BY <1>12, <2>2 DEF TakePending, take_pending, Control, Exclusive, WriterPcs, TypeOK
  <2>4. DownIsEmpty' /\ CapHolds'
    BY <1>12, <2>1 DEF TakePending, DownIsEmpty, Control, CapHolds
  <2>5. UntrackedHasNothing'
    BY <1>12, <2>1
    DEF TakePending, take_pending, Control, UntrackedHasNothing, Zero, TypeOK
  <2> QED
    BY <2>3, <2>4, <2>5 DEF Control
<1>13. ASSUME NEW w \in Workers, Phase2(w) PROVE Control'
  <2>1. pc[w] \in WriterPcs
    BY <1>13
    DEF Phase2, WriteFails, Rename, DirSyncOk, DirSyncSkipped, DirSyncFails, At, WriterPcs
  <2>2. PICK to \in WriterPcs : pc' = [pc EXCEPT ![w] = to]
    BY <1>13
    DEF Phase2, WriteFails, Rename, DirSyncOk, DirSyncSkipped, DirSyncFails, At, WriterPcs
  <2>3. UNCHANGED <<mode, tracked, pending, exported, writing, snap>>
    BY <1>13 DEF Phase2, WriteFails, Rename, DirSyncOk, DirSyncSkipped, DirSyncFails
  <2>4. mode # "down"
    BY <1>0, <2>1 DEF WriterPcs
  <2>5. Exclusive'
    BY <2>1, <2>2, <2>3 DEF Control, Exclusive, TypeOK
  <2>6. DownIsEmpty' /\ CapHolds' /\ UntrackedHasNothing'
    BY <2>3, <2>4 DEF Control, DownIsEmpty, CapHolds, UntrackedHasNothing
  <2> QED
    BY <2>5, <2>6 DEF Control
<1>14. ASSUME NEW w \in Workers, Phase3(w) PROVE Control'
  <2>1. /\ pc[w] \in WriterPcs
        /\ pc' = [pc EXCEPT ![w] = "idle"]
        /\ snap' = [snap EXCEPT ![w] = Zero]
        /\ UNCHANGED <<mode, tracked>>
    BY <1>14 DEF Phase3, Commit, Requeue, EndWrite, At, WriterPcs
  <2>2. mode # "down"
    BY <1>0, <2>1 DEF WriterPcs
  <2>3. Exclusive'
    BY <2>1 DEF Control, Exclusive, WriterPcs, TypeOK
  <2>4. DownIsEmpty' /\ CapHolds'
    BY <2>1, <2>2 DEF Control, DownIsEmpty, CapHolds
  <2>5. UntrackedHasNothing'
    <3> SUFFICES ASSUME NEW s \in Serials, s \notin tracked
                 PROVE  /\ exported'[s] = 0
                        /\ pending'[s] = 0
                        /\ \A u \in Workers : snap'[u][s] = 0
      BY <2>1 DEF UntrackedHasNothing
    <3>1. exported[s] = 0 /\ pending[s] = 0 /\ \A u \in Workers : snap[u][s] = 0
      BY <2>2 DEF Control, UntrackedHasNothing
    <3>2. exported'[s] = 0 /\ pending'[s] = 0
      BY <1>14, <3>1 DEF Phase3, Commit, Requeue, apply_pending, requeue_pending
    <3> QED
      BY <2>1, <3>1, <3>2 DEF Zero, TypeOK
  <2> QED
    BY <2>3, <2>4, <2>5 DEF Control
<1> QED
  BY <1>1, <1>2, <1>3, <1>4, <1>5, <1>6, <1>7, <1>8, <1>9, <1>10, <1>11, <1>12,
     <1>13, <1>14
  DEF Next, Frame, flush_coulomb_state, Phase1, FlushBusy, FlushNothing,
      FlushThrottled, SerializeFails, MayWrite

\* max_devices bounds the tracked serials at every moment, whatever state file
\* the process was started on.
THEOREM CapTheorem == Spec => []CapHolds
<1>1. Init => TypeOK /\ Control
  BY InitialTypes, InitialControl
<1>2. TypeOK /\ Control /\ [Next]_vars => (TypeOK /\ Control)'
  BY TypeStep, ControlStep
<1>3. TypeOK /\ Control => CapHolds
  BY DEF Control
<1> QED
  BY <1>1, <1>2, <1>3, PTL DEF Spec

-----------------------------------------------------------------------------
(* The durable part.                                                       *)

Durable == BytesCover /\ DiskFollowsWriter /\ Settled /\ WriteAhead

LEMMA CoversLess ==
  ASSUME NEW f \in StateFiles, NEW u \in [Serials -> Nat], NEW v \in [Serials -> Nat],
         \A s \in Serials : u[s] <= v[s], Covers(f, v)
  PROVE  Covers(f, u)
<1> SUFFICES ASSUME NEW s \in Serials, u[s] > 0
             PROVE  s \in Restored(f) /\ u[s] <= f.total[s]
  BY DEF Covers
<1>1. u[s] \in Nat /\ v[s] \in Nat /\ f.total[s] \in Nat /\ u[s] <= v[s]
  BY DEF StateFiles
<1>2. s \in Restored(f) /\ v[s] <= f.total[s]
  BY <1>1 DEF Covers
<1> QED
  BY <1>1, <1>2

LEMMA CoversZero == \A f : Covers(f, Zero)
  BY DEF Covers, Zero

LEMMA AfterType ==
  ASSUME TypeOK, NEW w \in Workers
  PROVE  After(w) \in [Serials -> Nat] /\ \A s \in Serials : exported[s] <= After(w)[s]
  BY DEF TypeOK, After

\* The state phase 1 serializes covers the counters with every pending delta
\* applied: it has a row, below the cap, for whatever has a total.
LEMMA SnapshotCovers ==
  ASSUME TypeOK, Control, mode # "down"
  PROVE  Covers(Snapshot, [s \in Serials |-> exported[s] + pending[s]])
<1> SUFFICES ASSUME NEW s \in Serials, exported[s] + pending[s] > 0
             PROVE  s \in Restored(Snapshot) /\ exported[s] + pending[s] <= Snapshot.total[s]
  BY DEF Covers
<1>1. exported[s] \in Nat /\ pending[s] \in Nat
  BY DEF TypeOK
<1>2. s \in tracked
  BY DEF Control, UntrackedHasNothing
<1>3. Snapshot \in StateFiles /\ Snapshot.rows = tracked
  BY SnapshotType DEF Snapshot
<1>4. MaxDevices # 0 => Cardinality(Snapshot.rows) <= MaxDevices
  BY <1>3 DEF Control, CapHolds
<1>5. Restored(Snapshot) = Snapshot.rows
  BY <1>3, <1>4, RestoresAllRows
<1>6. exported[s] + pending[s] <= Snapshot.total[s]
  BY <1>1, <1>2 DEF Snapshot, bump_ulp
<1> QED
  BY <1>2, <1>3, <1>5, <1>6

\* Steps that leave the counters, the disk and every write in progress alone.
LEMMA OutsideWriteDurable ==
  ASSUME TypeOK, Durable, NEW w \in Workers, pc[w] \notin WriterPcs,
         NEW to, to \notin WriterPcs, pc' = [pc EXCEPT ![w] = to],
         UNCHANGED <<exported, snap, bytes, file, survivors>>
  PROVE  Durable'
<1>1. \A u \in Workers : pc'[u] \in WriterPcs => pc'[u] = pc[u]
  BY DEF TypeOK, WriterPcs
<1>2. \A u \in Workers : pc[u] \in WriterPcs => pc'[u] = pc[u]
  BY DEF TypeOK, WriterPcs
<1>3. Recoverable' = Recoverable /\ \A u \in Workers : After(u)' = After(u)
  BY DEF Recoverable, After
<1>4. BytesCover'
  BY <1>1, <1>3 DEF Durable, BytesCover, Covers, WriterPcs
<1>5. DiskFollowsWriter'
  BY <1>1, <1>3 DEF Durable, DiskFollowsWriter, Covers, WriterPcs
<1>6. Settled'
  BY <1>2 DEF Durable, Settled, WriterPcs
<1>7. WriteAhead'
  BY <1>3 DEF Durable, WriteAhead, Covers
<1> QED
  BY <1>4, <1>5, <1>6, <1>7 DEF Durable

\* With no worker in a write, only the disk and the counters matter.
LEMMA AllIdleDurable ==
  ASSUME \A w \in Workers : pc'[w] = "idle",
         "power" \in Faults => survivors' = {file'},
         Covers(file', exported')
  PROVE  Durable'
  BY DEF Durable, BytesCover, DiskFollowsWriter, Settled, WriteAhead, Recoverable,
         Covers

LEMMA InitialDurable == Init => Durable
  BY CoversZero
  DEF Init, Durable, BytesCover, DiskFollowsWriter, Settled, WriteAhead, Recoverable

LEMMA DurableStep ==
  ASSUME NoRollback
  PROVE  TypeOK /\ Control /\ Durable /\ [Next]_vars => Durable'
<1> SUFFICES ASSUME TypeOK, Control, Durable, [Next]_vars PROVE Durable'
  OBVIOUS
<1> USE DEF vars, memory, disk, history
<1>0. \A w \in Workers : mode = "down" => pc[w] = "idle"
  BY DEF Control, DownIsEmpty
<1>a. /\ TypeOK'
      /\ file \in StateFiles /\ survivors \subseteq StateFiles
      /\ file \in Recoverable /\ Recoverable \subseteq StateFiles
  BY TypeStep DEF TypeOK, Recoverable
<1>b. \A w \in Workers : pc[w] \in WriterPcs =>
        \A u \in Workers : u # w => pc[u] \notin WriterPcs
  BY DEF Control, Exclusive
<1>1. CASE UNCHANGED vars
  BY <1>1
  DEF Durable, BytesCover, DiskFollowsWriter, Settled, WriteAhead, Recoverable, After,
      Covers
<1>2. CASE restore_coulombs
  <2>1. Covers(file, RestoredTotals(file))
    BY <1>a DEF Covers, RestoredTotals, StateFiles
  <2>2. \A w \in Workers : pc[w] = "idle"
    BY <1>0, <1>2 DEF restore_coulombs
  <2> QED
    BY <1>2, <2>1, <2>2, AllIdleDurable DEF restore_coulombs, Durable, Settled, Covers
<1>3. CASE RestoreUnreadable
  <2>1. \A w \in Workers : pc[w] = "idle"
    BY <1>0, <1>3 DEF RestoreUnreadable
  <2> QED
    BY <1>3, <2>1, CoversZero, AllIdleDurable
    DEF RestoreUnreadable, Durable, Settled, Covers
<1>4. CASE Kill
  <2>1. "power" \notin Faults
    BY <1>4 DEF Kill, NoRollback
  <2>2. Covers(file, exported)
    BY <1>a DEF Durable, WriteAhead
  <2> QED
    BY <1>4, <2>1, <2>2, AllIdleDurable DEF Kill, MemoryLost, Covers
<1>5. CASE PowerLoss
  <2>1. Covers(file', exported)
    BY <1>5 DEF PowerLoss, Durable, WriteAhead, Recoverable
  <2> QED
    BY <1>5, <2>1, AllIdleDurable DEF PowerLoss, MemoryLost, Covers
<1>6. CASE Exit
  <2>1. Covers(file, exported)
    BY <1>a DEF Durable, WriteAhead
  <2> QED
    BY <1>6, <2>1, AllIdleDurable DEF Exit, AllIdle, MemoryLost, Durable, Settled, Covers
<1>7. CASE WindowPasses
  BY <1>7
  DEF WindowPasses, Durable, BytesCover, DiskFollowsWriter, Settled, WriteAhead,
      Recoverable, After, Covers
<1>8. ASSUME NEW w \in Workers, Shutdown(w) PROVE Durable'
  BY <1>8, OutsideWriteDurable DEF Shutdown, At, WriterPcs
<1>9. ASSUME NEW w \in Workers, NEW s \in Serials, Track(w, s) PROVE Durable'
  BY <1>9
  DEF Track, Durable, BytesCover, DiskFollowsWriter, Settled, WriteAhead,
      Recoverable, After, Covers
<1>10. ASSUME NEW w \in Workers, NEW s \in Serials, NEW q \in Deltas,
              accumulate_coulombs(w, s, q)
       PROVE  Durable'
  BY <1>10, OutsideWriteDurable DEF accumulate_coulombs, At, WriterPcs
<1>11. ASSUME NEW w \in Workers, InPhase1(w), LeaveFlush(w) PROVE Durable'
  BY <1>11, OutsideWriteDurable DEF InPhase1, LeaveFlush, WriterPcs
<1>12. ASSUME NEW w \in Workers, TakePending(w) PROVE Durable'
  <2>1. mode # "down" /\ ~writing
    BY <1>0, <1>12 DEF TakePending, MayWrite, InPhase1
  <2>2. \A u \in Workers : pc[u] \notin WriterPcs
    BY <2>1 DEF Control, Exclusive
  <2>3. /\ pc' = [pc EXCEPT ![w] = "write"]
        /\ bytes'[w] = Snapshot
        /\ snap'[w] = pending
        /\ UNCHANGED <<exported, file, survivors>>
    BY <1>12 DEF TakePending, take_pending, TypeOK
  <2>4. \A u \in Workers : pc'[u] \in WriterPcs => u = w
    BY <2>2, <2>3 DEF TypeOK
  <2>5. Covers(bytes'[w], After(w)')
    BY <2>1, <2>3, SnapshotCovers DEF After
  <2>6. BytesCover'
    BY <2>4, <2>5 DEF BytesCover, WriterPcs, Covers
  <2>7. DiskFollowsWriter'
    BY <2>3, <2>4 DEF DiskFollowsWriter, WriterPcs, TypeOK
  <2>8. Settled' /\ WriteAhead'
    BY <2>2, <2>3 DEF Durable, Settled, WriteAhead, Recoverable, Covers, WriterPcs
  <2> QED
    BY <2>6, <2>7, <2>8 DEF Durable
<1>13. ASSUME NEW w \in Workers, WriteFails(w) PROVE Durable'
  <2>1. \A u \in Workers : pc[u] # "renamed"
    BY <1>13, <1>b DEF WriteFails, At, WriterPcs
  <2>2. \A u \in Workers : pc'[u] \notin {"write", "renamed", "written"}
    BY <1>13, <1>b DEF WriteFails, At, WriterPcs, TypeOK
  <2> QED
    BY <1>13, <2>1, <2>2
    DEF WriteFails, Durable, BytesCover, DiskFollowsWriter, Settled, WriteAhead,
        Recoverable, Covers
<1>14. ASSUME NEW w \in Workers, Rename(w) PROVE Durable'
  <2>1. /\ pc[w] = "write" /\ pc' = [pc EXCEPT ![w] = "renamed"]
        /\ file' = bytes[w] /\ survivors' = survivors \cup {bytes[w]}
        /\ UNCHANGED <<exported, snap, bytes>>
    BY <1>14 DEF Rename, At
  <2>2. \A u \in Workers : pc'[u] \in WriterPcs => u = w
    BY <2>1, <1>b DEF WriterPcs, TypeOK
  <2>3. Covers(bytes[w], After(w))
    BY <2>1 DEF Durable, BytesCover
  <2>4. Covers(bytes[w], exported)
    <3>1. bytes[w] \in StateFiles /\ exported \in [Serials -> Nat]
      BY DEF TypeOK
    <3> QED
      BY <2>3, <3>1, AfterType, CoversLess
  <2>5. BytesCover' /\ DiskFollowsWriter'
    BY <2>1, <2>2, <2>3
    DEF BytesCover, DiskFollowsWriter, WriterPcs, After, Covers, TypeOK
  <2>6. Settled'
    BY <2>1 DEF Settled, TypeOK
  <2>7. WriteAhead'
    BY <2>1, <2>4 DEF Durable, WriteAhead, Recoverable, Covers
  <2> QED
    BY <2>5, <2>6, <2>7 DEF Durable
<1>15. ASSUME NEW w \in Workers, DirSyncOk(w) \/ DirSyncSkipped(w) PROVE Durable'
  <2>1. /\ pc[w] = "renamed" /\ pc' = [pc EXCEPT ![w] = "written"]
        /\ survivors' \subseteq survivors
        /\ "power" \in Faults => survivors' = {file}
        /\ UNCHANGED <<exported, snap, bytes, file>>
    BY <1>15, <1>a DEF DirSyncOk, DirSyncSkipped, At, NoRollback, TypeOK
  <2>2. \A u \in Workers : pc'[u] \in WriterPcs => u = w
    BY <2>1, <1>b DEF WriterPcs, TypeOK
  <2>3. file = bytes[w] /\ Covers(bytes[w], After(w))
    BY <2>1 DEF Durable, DiskFollowsWriter, BytesCover
  <2>4. Recoverable' = {file}
    BY <2>1 DEF Recoverable
  <2>5. BytesCover' /\ DiskFollowsWriter'
    BY <2>1, <2>2, <2>3, <2>4
    DEF BytesCover, DiskFollowsWriter, WriterPcs, After, Covers, TypeOK
  <2>6. Settled'
    BY <2>1 DEF Settled
  <2>7. WriteAhead'
    BY <1>a, <2>1, <2>4 DEF Durable, WriteAhead, Covers
  <2> QED
    BY <2>5, <2>6, <2>7 DEF Durable
<1>16. ASSUME NEW w \in Workers, DirSyncFails(w) PROVE Durable'
  <2>1. "power" \notin Faults
    BY <1>16 DEF DirSyncFails, NoRollback
  <2>2. \A u \in Workers : pc'[u] \notin {"write", "renamed", "written"}
    BY <1>16, <1>b DEF DirSyncFails, At, WriterPcs, TypeOK
  <2> QED
    BY <1>16, <2>1, <2>2
    DEF DirSyncFails, Durable, BytesCover, DiskFollowsWriter, Settled, WriteAhead,
        Recoverable, Covers
<1>17. ASSUME NEW w \in Workers, Commit(w) PROVE Durable'
  <2>1. /\ pc[w] = "written" /\ pc' = [pc EXCEPT ![w] = "idle"]
        /\ exported' = After(w)
        /\ UNCHANGED <<file, survivors>>
    BY <1>17 DEF Commit, EndWrite, apply_pending, At, After
  <2>2. \A u \in Workers : pc'[u] \notin WriterPcs
    BY <2>1, <1>b DEF WriterPcs, TypeOK
  <2>3. \A f \in Recoverable : Covers(f, After(w))
    BY <2>1 DEF Durable, DiskFollowsWriter
  <2>4. \A u \in Workers : pc[u] # "renamed"
    BY <2>1, <1>b DEF WriterPcs
  <2> QED
    BY <2>1, <2>2, <2>3, <2>4
    DEF Durable, BytesCover, DiskFollowsWriter, Settled, WriteAhead, Recoverable,
        Covers, WriterPcs
<1>18. ASSUME NEW w \in Workers, Requeue(w) PROVE Durable'
  <2>1. /\ pc[w] = "failed" /\ pc' = [pc EXCEPT ![w] = "idle"]
        /\ UNCHANGED <<exported, file, survivors>>
    BY <1>18 DEF Requeue, EndWrite, At
  <2>2. \A u \in Workers : pc'[u] \notin WriterPcs
    BY <2>1, <1>b DEF WriterPcs, TypeOK
  <2>3. \A u \in Workers : pc[u] # "renamed"
    BY <2>1, <1>b DEF WriterPcs
  <2> QED
    BY <2>1, <2>2, <2>3
    DEF Durable, BytesCover, DiskFollowsWriter, Settled, WriteAhead, Recoverable,
        Covers, WriterPcs
<1> QED
  BY <1>1, <1>2, <1>3, <1>4, <1>5, <1>6, <1>7, <1>8, <1>9, <1>10, <1>11, <1>12,
     <1>13, <1>14, <1>15, <1>16, <1>17, <1>18
  DEF Next, Frame, flush_coulomb_state, Phase1, Phase2, Phase3, FlushBusy,
      FlushNothing, FlushThrottled, SerializeFails, MayWrite

\* The write-ahead invariant, for every file system on which a served total
\* cannot be rolled back (NoRollback): no crash and no power loss leaves a
\* state file a counter could come back lower from.
THEOREM WriteAheadHolds ==
  ASSUME NoRollback
  PROVE  Spec => []WriteAhead
<1>1. Init => WAInv
  BY InitialTypes, InitialControl, InitialDurable DEF WAInv, Control, Durable
<1>2. WAInv /\ [Next]_vars => WAInv'
  BY TypeStep, ControlStep, DurableStep DEF WAInv, Control, Durable
<1>3. WAInv => WriteAhead
  BY DEF WAInv
<1> QED
  BY <1>1, <1>2, <1>3, PTL DEF Spec
=============================================================================
