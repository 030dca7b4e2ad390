---------------------------- MODULE PromiseProof ----------------------------
(***************************************************************************)
(* The conservation of deltas, and what it gives Prometheus together with  *)
(* the write-ahead invariant: no delta is lost or counted twice, a counter *)
(* never comes back lower, a restart invents nothing, and so CoulombStore  *)
(* implements CounterPromise.                                              *)
(***************************************************************************)
EXTENDS WriteAheadProof

-----------------------------------------------------------------------------
(* Conservation, which needs nothing of the disk.                          *)

\* A serial that is not tracked has nothing on its account.
UntrackedLedger ==
  mode # "down" => \A s \in Serials : s \notin tracked => ledger[s] = 0

Account == Conservation /\ UntrackedLedger

LEMMA InitialAccount == Init => Account
  BY DEF Init, Account, Conservation, UntrackedLedger

\* Steps that move no quantity.
LEMMA NothingMoves ==
  ASSUME Account, mode # "down", UNCHANGED <<tracked, exported, pending, snap, ledger>>
  PROVE  Account'
  BY DEF Account, Conservation, UntrackedLedger

LEMMA AccountStep == TypeOK /\ Control /\ Account /\ [Next]_vars => Account'
<1> SUFFICES ASSUME TypeOK, Control, Account, [Next]_vars PROVE Account'
  OBVIOUS
<1> USE DEF vars, memory, disk, history
<1>0. \A w \in Workers : mode = "down" => pc[w] = "idle"
  BY DEF Control, DownIsEmpty
<1>1. CASE UNCHANGED vars
  BY <1>1 DEF Account, Conservation, UntrackedLedger
<1>2. CASE restore_coulombs
  <2>1. ledger' = RestoredTotals(file) /\ exported' = RestoredTotals(file)
        /\ pending' = Zero /\ tracked' = Restored(file) /\ snap' = snap
    BY <1>2 DEF restore_coulombs, Control, DownIsEmpty
  <2>2. \A w \in Workers : snap'[w] = Zero
    BY <1>0, <1>2 DEF restore_coulombs, Control, Exclusive, WriterPcs
  <2>3. RestoredTotals(file) \in [Serials -> Nat]
    BY RestoredTypes DEF TypeOK
  <2>4. Restored(file) \subseteq Serials
    BY RestoredTypes DEF TypeOK
  <2>5. Conservation'
    BY <2>1, <2>2, <2>3, <2>4 DEF Conservation, Zero
  <2>6. UntrackedLedger'
    BY <2>1 DEF UntrackedLedger, RestoredTotals
  <2> QED
    BY <2>5, <2>6 DEF Account
<1>3. CASE RestoreUnreadable
  <2>1. \A w \in Workers : snap'[w] = Zero
    BY <1>0, <1>3 DEF RestoreUnreadable, Control, Exclusive, WriterPcs
  <2>2. pending' = Zero /\ ledger' = Zero /\ exported' = Zero /\ tracked' \subseteq Serials
    BY <1>3 DEF RestoreUnreadable, Control, DownIsEmpty, TypeOK
  <2> QED
    BY <2>1, <2>2 DEF Account, Conservation, UntrackedLedger, Zero
<1>4. CASE mode' = "down"
  BY <1>4 DEF Account, Conservation, UntrackedLedger
<1>5. CASE WindowPasses
  BY <1>5, NothingMoves DEF WindowPasses
<1>6. ASSUME NEW w \in Workers, Shutdown(w) PROVE Account'
  BY <1>6, NothingMoves DEF Shutdown
<1>7. ASSUME NEW w \in Workers, NEW s \in Serials, Track(w, s) PROVE Account'
  <2>1. exported[s] = 0 /\ pending[s] = 0 /\ ledger[s] = 0
        /\ \A u \in Workers : snap[u][s] = 0
    BY <1>7 DEF Track, Control, UntrackedHasNothing, Account, UntrackedLedger
  <2> QED
    BY <1>7, <2>1 DEF Track, Account, Conservation, UntrackedLedger
<1>8. ASSUME NEW w \in Workers, NEW s \in Serials, NEW q \in Deltas,
             accumulate_coulombs(w, s, q)
      PROVE  Account'
  <2>1. /\ mode = "up" /\ tracked' = tracked \cup {s}
        /\ pending' = [pending EXCEPT ![s] = @ + q]
        /\ ledger' = [ledger EXCEPT ![s] = @ + q]
        /\ UNCHANGED <<mode, exported, snap>>
        /\ q \in Nat
    BY <1>8, DeltasAssumption DEF accumulate_coulombs
  <2>2. ASSUME s \notin tracked
        PROVE  exported[s] = 0 /\ pending[s] = 0 /\ ledger[s] = 0
               /\ \A u \in Workers : snap[u][s] = 0
    BY <2>1, <2>2 DEF Control, UntrackedHasNothing, Account, UntrackedLedger
  <2>3. ASSUME NEW t \in tracked'
        PROVE  /\ (\A u \in Workers : snap[u] = Zero) => exported[t] + pending'[t] = ledger'[t]
               /\ \A u \in Workers :
                    snap[u] # Zero => exported[t] + pending'[t] + snap[u][t] = ledger'[t]
    <3>1. t \in Serials /\ exported[t] \in Nat /\ pending[t] \in Nat /\ ledger[t] \in Nat
          /\ \A u \in Workers : snap[u][t] \in Nat
      BY <2>1, <2>3 DEF TypeOK
    <3>2. /\ (\A u \in Workers : snap[u] = Zero) => exported[t] + pending[t] = ledger[t]
          /\ \A u \in Workers :
               snap[u] # Zero => exported[t] + pending[t] + snap[u][t] = ledger[t]
      BY <2>1, <2>2, <2>3, <3>1 DEF Account, Conservation
    <3>3. \/ t = s /\ pending'[t] = pending[t] + q /\ ledger'[t] = ledger[t] + q
          \/ t # s /\ pending'[t] = pending[t] /\ ledger'[t] = ledger[t]
      BY <2>1, <3>1 DEF TypeOK
    <3> QED
      BY <2>1, <3>1, <3>2, <3>3
  <2>4. UntrackedLedger'
    BY <2>1 DEF Account, UntrackedLedger, TypeOK
  <2> QED
    BY <2>1, <2>3, <2>4 DEF Account, Conservation
<1>9. ASSUME NEW w \in Workers, InPhase1(w), LeaveFlush(w) PROVE Account'
  BY <1>0, <1>9, NothingMoves DEF InPhase1, LeaveFlush
<1>10. ASSUME NEW w \in Workers, TakePending(w) PROVE Account'
  <2>1. mode # "down" /\ ~writing
    BY <1>0, <1>10 DEF TakePending, MayWrite, InPhase1
  <2>2. \A u \in Workers : snap[u] = Zero
    BY <2>1 DEF Control, Exclusive
  <2>3. /\ snap' = [snap EXCEPT ![w] = pending] /\ pending' = Zero
        /\ UNCHANGED <<mode, tracked, exported, ledger>>
    BY <1>10 DEF TakePending, take_pending
  <2>4. \A s \in tracked : exported[s] + pending[s] = ledger[s]
    BY <2>1, <2>2 DEF Account, Conservation
  <2>5. \A u \in Workers : u # w => snap'[u] = Zero
    BY <2>2, <2>3 DEF TypeOK
  <2>6. snap'[w] = pending
    BY <2>3 DEF TypeOK
  <2>7. \A s \in tracked : exported[s] \in Nat /\ pending[s] \in Nat /\ pending'[s] = 0
    BY <2>3 DEF TypeOK, Zero
  <2>8. Conservation'
    BY <2>3, <2>4, <2>5, <2>6, <2>7 DEF Conservation, Zero
  <2>9. UntrackedLedger'
    BY <2>1, <2>3 DEF Account, UntrackedLedger
  <2> QED
    BY <2>8, <2>9 DEF Account
<1>11. ASSUME NEW w \in Workers, Phase2(w) PROVE Account'
  <2>1. pc[w] # "idle"
    BY <1>11
    DEF Phase2, WriteFails, Rename, DirSyncOk, DirSyncSkipped, DirSyncFails, At
  <2>2. UNCHANGED <<tracked, exported, pending, snap, ledger>>
    BY <1>11 DEF Phase2, WriteFails, Rename, DirSyncOk, DirSyncSkipped, DirSyncFails
  <2> QED
    BY <1>0, <2>1, <2>2, NothingMoves
<1>12. ASSUME NEW w \in Workers, Phase3(w) PROVE Account'
  <2>1. /\ pc[w] \in WriterPcs /\ pc[w] # "idle"
        /\ snap' = [snap EXCEPT ![w] = Zero]
        /\ UNCHANGED <<mode, tracked, ledger>>
        /\ \/ exported' = [s \in Serials |-> exported[s] + snap[w][s]]
              /\ pending' = pending
           \/ pending' = [s \in Serials |-> pending[s] + snap[w][s]]
              /\ exported' = exported
    BY <1>12
    DEF Phase3, Commit, Requeue, EndWrite, At, WriterPcs, apply_pending, requeue_pending
  <2>2. mode # "down"
    BY <1>0, <2>1
  <2>3. \A u \in Workers : u # w => snap[u] = Zero
    BY <2>1 DEF Control, Exclusive
  <2>4. \A u \in Workers : snap'[u] = Zero
    BY <2>1, <2>3 DEF TypeOK
  <2>5. ASSUME NEW s \in tracked PROVE exported'[s] + pending'[s] = ledger[s]
    <3>1. /\ s \in Serials /\ exported[s] \in Nat /\ pending[s] \in Nat
          /\ snap[w][s] \in Nat
      BY DEF TypeOK
    <3>2. exported[s] + pending[s] + snap[w][s] = ledger[s]
      <4>1. CASE snap[w] # Zero
        BY <2>2, <4>1 DEF Account, Conservation
      <4>2. CASE snap[w] = Zero
        <5>1. exported[s] + pending[s] = ledger[s]
          BY <2>2, <2>3, <4>2 DEF Account, Conservation
        <5> QED
          BY <3>1, <4>2, <5>1 DEF Zero
      <4> QED
        BY <4>1, <4>2
    <3> QED
      BY <2>1, <3>1, <3>2
  <2>6. Conservation'
    BY <2>1, <2>4, <2>5 DEF Conservation
  <2>7. UntrackedLedger'
    BY <2>1, <2>2 DEF Account, UntrackedLedger
  <2> QED
    BY <2>6, <2>7 DEF Account
<1> QED
  BY <1>1, <1>2, <1>3, <1>4, <1>5, <1>6, <1>7, <1>8, <1>9, <1>10, <1>11, <1>12
  DEF Next, Frame, flush_coulomb_state, Phase1, FlushBusy, FlushNothing,
      FlushThrottled, SerializeFails, MayWrite, Kill, PowerLoss, Exit

\* Every delta is in exactly one place, whatever fails: no error path of the
\* flush loses one, no retry counts one twice.
THEOREM ConservationHolds == Spec => []Conservation
<1>1. Init => TypeOK /\ Control /\ Account
  BY InitialTypes, InitialControl, InitialAccount
<1>2. TypeOK /\ Control /\ Account /\ [Next]_vars => (TypeOK /\ Control /\ Account)'
  BY TypeStep, ControlStep, AccountStep
<1>3. Account => Conservation
  BY DEF Account
<1> QED
  BY <1>1, <1>2, <1>3, PTL DEF Spec

-----------------------------------------------------------------------------
(* What is promised, and where the promise ends.                           *)

\* Where the promise ends: a state file that is there but cannot be read is
\* taken for no file.
Promising == NoRollback /\ "unreadable" \notin Faults

-----------------------------------------------------------------------------
(* A counter never comes back lower.                                       *)

LEMMA RestartKeepsCounters ==
  ASSUME WAInv, restore_coulombs
  PROVE  \A s \in Serials : exported'[s] >= exported[s]
<1> SUFFICES ASSUME NEW s \in Serials PROVE exported'[s] >= exported[s]
  OBVIOUS
<1>1. file \in StateFiles /\ file \in Recoverable /\ exported \in [Serials -> Nat]
  BY DEF WAInv, TypeOK, Recoverable
<1>2. RestoredTotals(file) \in [Serials -> Nat] /\ exported' = RestoredTotals(file)
  BY <1>1, RestoredTypes DEF restore_coulombs
<1>3. exported[s] > 0 => s \in Restored(file) /\ exported[s] <= file.total[s]
  BY <1>1 DEF WAInv, WriteAhead, Covers
<1> QED
  BY <1>1, <1>2, <1>3 DEF RestoredTotals

LEMMA CounterStep ==
  ASSUME Promising, WAInv, [Next]_vars
  PROVE  NoCounterGoesBack
<1> USE DEF vars, memory, disk, history
<1>0. exported \in [Serials -> Nat] /\ snap \in [Workers -> [Serials -> Nat]]
  BY DEF WAInv, TypeOK
<1>1. CASE exported' = exported
  BY <1>0, <1>1 DEF NoCounterGoesBack
<1>2. CASE restore_coulombs
  BY <1>2, RestartKeepsCounters DEF NoCounterGoesBack
<1>3. ASSUME NEW w \in Workers, Commit(w) PROVE NoCounterGoesBack
  BY <1>0, <1>3 DEF Commit, apply_pending, NoCounterGoesBack
<1>4. ~RestoreUnreadable
  BY DEF RestoreUnreadable, Promising
<1>5. Kill \/ PowerLoss \/ Exit \/ WindowPasses => exported' = exported
  BY DEF Kill, PowerLoss, Exit, WindowPasses
<1>6. \A w \in Workers : Shutdown(w) \/ Phase1(w) \/ Phase2(w) \/ Requeue(w)
        => exported' = exported
  BY DEF Shutdown, Phase1, FlushBusy, FlushNothing, FlushThrottled, SerializeFails,
         LeaveFlush, TakePending, Phase2, WriteFails, Rename, DirSyncOk,
         DirSyncSkipped, DirSyncFails, Requeue
<1>7. \A w \in Workers, s \in Serials : Track(w, s) => exported' = exported
  BY DEF Track
<1>8. \A w \in Workers : Frame(w) => exported' = exported
  BY DEF Frame, accumulate_coulombs
<1> QED
  BY <1>1, <1>2, <1>3, <1>4, <1>5, <1>6, <1>7, <1>8
  DEF Next, flush_coulomb_state, Phase3

\* The write-ahead invariant holds throughout, with what it rests on.
LEMMA WAInvHolds ==
  ASSUME NoRollback
  PROVE  Spec => []WAInv
<1>1. Init => WAInv
  BY InitialTypes, InitialControl, InitialDurable DEF WAInv, Control, Durable
<1>2. WAInv /\ [Next]_vars => WAInv'
  BY TypeStep, ControlStep, DurableStep DEF WAInv, Control, Durable
<1> QED
  BY <1>1, <1>2, PTL DEF Spec

\* No step and no restart takes a served counter back, for every sequence of
\* frames, flushes, failed writes, kills or power losses: what Prometheus
\* would read as a reset never happens.
THEOREM CountersNeverGoBackHolds ==
  ASSUME Promising
  PROVE  Spec => CountersNeverGoBack
<1>1. Spec => []WAInv
  BY WAInvHolds DEF Promising
<1>2. WAInv /\ [Next]_vars => [NoCounterGoesBack]_vars
  BY CounterStep
<1> QED
  BY <1>1, <1>2, PTL DEF Spec, CountersNeverGoBack

-----------------------------------------------------------------------------
(* A restart invents nothing.                                              *)

\* A restart from f exceeds what was measured by one ULP at most.
Honest(f) == \A s \in Restored(f) : f.total[s] <= ledger[s] + 1

BytesHonest == \A w \in Workers : pc[w] \in {"write", "renamed"} => Honest(bytes[w])

Phantom == NoPhantom /\ BytesHonest

PInv == WAInv /\ Account /\ Phantom

LEMMA InitialPhantom == Init => Phantom
<1> SUFFICES ASSUME Init PROVE Phantom
  OBVIOUS
<1>1. file \in StateFiles /\ ledger = file.total /\ Recoverable = {file}
  BY InitialTypes DEF Init, TypeOK, Recoverable
<1>2. Restored(file) \subseteq Serials /\ file.total \in [Serials -> Nat]
  BY <1>1, RestoredTypes DEF StateFiles
<1>3. NoPhantom
  BY <1>1, <1>2 DEF NoPhantom
<1> QED
  BY <1>3 DEF Init, Phantom, BytesHonest

\* Steps that put nothing new on the disk or in a worker's hands, and forget
\* nothing that was measured.
LEMMA NothingNew ==
  ASSUME TypeOK, Phantom, survivors' \subseteq survivors,
         file' = file \/ ("power" \in Faults /\ file' \in survivors'),
         \A w \in Workers : pc'[w] \in {"write", "renamed"} =>
           pc[w] \in {"write", "renamed"} /\ bytes'[w] = bytes[w],
         ledger' \in [Serials -> Nat],
         \A s \in Serials : ledger[s] <= ledger'[s]
  PROVE  Phantom'
<1>1. ASSUME NEW f \in StateFiles, Honest(f)
      PROVE  \A s \in Restored(f) : f.total[s] <= ledger'[s] + 1
  <2> SUFFICES ASSUME NEW s \in Restored(f) PROVE f.total[s] <= ledger'[s] + 1
    OBVIOUS
  <2>1. s \in Serials /\ f.total[s] \in Nat /\ ledger[s] \in Nat /\ ledger'[s] \in Nat
    BY RestoredTypes DEF StateFiles, TypeOK
  <2> QED
    BY <1>1, <2>1 DEF Honest
<1>2. \A f \in Recoverable : f \in StateFiles /\ Honest(f)
  BY DEF Phantom, NoPhantom, Honest, Recoverable, TypeOK
<1>3. Recoverable' \subseteq Recoverable
  BY DEF Recoverable
<1>4. NoPhantom'
  BY <1>1, <1>2, <1>3 DEF NoPhantom
<1>5. \A w \in Workers : pc[w] \in {"write", "renamed"} =>
        bytes[w] \in StateFiles /\ Honest(bytes[w])
  BY DEF Phantom, BytesHonest, TypeOK
<1>6. BytesHonest'
  BY <1>1, <1>5 DEF BytesHonest, Honest
<1> QED
  BY <1>4, <1>6 DEF Phantom

LEMMA SnapshotHonest ==
  ASSUME TypeOK, Account, mode # "down", \A w \in Workers : snap[w] = Zero
  PROVE  Honest(Snapshot)
<1> SUFFICES ASSUME NEW s \in Restored(Snapshot)
             PROVE  Snapshot.total[s] <= ledger[s] + 1
  BY DEF Honest
<1>1. s \in tracked /\ s \in Serials
  BY DEF Restored, Snapshot, TypeOK
<1>2. exported[s] \in Nat /\ pending[s] \in Nat /\ ledger[s] \in Nat
  BY <1>1 DEF TypeOK
<1>3. exported[s] + pending[s] = ledger[s]
  BY <1>1 DEF Account, Conservation
<1> QED
  BY <1>1, <1>2, <1>3 DEF Snapshot, bump_ulp

LEMMA PhantomStep ==
  ASSUME Promising
  PROVE  TypeOK /\ WAInv /\ Account /\ Phantom /\ [Next]_vars => Phantom'
<1> SUFFICES ASSUME TypeOK, WAInv, Account, Phantom, [Next]_vars PROVE Phantom'
  OBVIOUS
<1> USE DEF vars, memory, disk, history
<1>0. /\ ledger \in [Serials -> Nat] /\ pc \in [Workers -> {"idle", "flush", "persist"} \cup WriterPcs]
      /\ bytes \in [Workers -> StateFiles]
      /\ TypeOK'
  BY TypeStep DEF TypeOK
<1>a. \A w \in Workers : mode = "down" => pc[w] = "idle"
  BY DEF WAInv, DownIsEmpty
<1>1. CASE UNCHANGED vars
  BY <1>0, <1>1, NothingNew
<1>2. CASE restore_coulombs
  <2>1. Recoverable' = {file} /\ ledger' = RestoredTotals(file)
    BY <1>a, <1>2 DEF restore_coulombs, WAInv, Settled, Recoverable
  <2>2. file \in StateFiles
    BY DEF TypeOK
  <2>3. \A s \in Restored(file) : s \in Serials /\ file.total[s] \in Nat
    BY <2>2, RestoredTypes DEF StateFiles
  <2>4. NoPhantom'
    BY <2>1, <2>3 DEF NoPhantom, RestoredTotals
  <2>5. BytesHonest'
    BY <1>a, <1>2 DEF restore_coulombs, BytesHonest
  <2> QED
    BY <2>4, <2>5 DEF Phantom
<1>3. ~RestoreUnreadable
  BY DEF RestoreUnreadable, Promising
<1>4. CASE Kill \/ Exit
  BY <1>0, <1>4, NothingNew DEF Kill, Exit, MemoryLost
<1>5. CASE PowerLoss
  BY <1>0, <1>5, NothingNew DEF PowerLoss, MemoryLost
<1>6. CASE WindowPasses
  BY <1>0, <1>6, NothingNew DEF WindowPasses
<1>7. ASSUME NEW w \in Workers, Shutdown(w) PROVE Phantom'
  BY <1>0, <1>7, NothingNew DEF Shutdown, At
<1>8. ASSUME NEW w \in Workers, NEW s \in Serials, Track(w, s) PROVE Phantom'
  BY <1>0, <1>8, NothingNew DEF Track
<1>9. ASSUME NEW w \in Workers, NEW s \in Serials, NEW q \in Deltas,
             accumulate_coulombs(w, s, q)
      PROVE  Phantom'
  <2>1. q \in Nat /\ ledger' = [ledger EXCEPT ![s] = @ + q]
    BY <1>9, DeltasAssumption DEF accumulate_coulombs
  <2>2. ledger' \in [Serials -> Nat] /\ \A t \in Serials : ledger[t] <= ledger'[t]
    BY <1>0, <2>1
  <2> QED
    BY <1>0, <1>9, <2>2, NothingNew DEF accumulate_coulombs, At
<1>10. ASSUME NEW w \in Workers, InPhase1(w), LeaveFlush(w) PROVE Phantom'
  BY <1>0, <1>10, NothingNew DEF LeaveFlush
<1>11. ASSUME NEW w \in Workers, TakePending(w) PROVE Phantom'
  <2>1. mode # "down" /\ ~writing
    BY <1>a, <1>11 DEF TakePending, MayWrite, InPhase1
  <2>2. \A u \in Workers : pc[u] \notin WriterPcs /\ snap[u] = Zero
    BY <2>1 DEF WAInv, Exclusive
  <2>3. Honest(Snapshot)
    BY <2>1, <2>2, SnapshotHonest
  <2>4. /\ pc' = [pc EXCEPT ![w] = "write"] /\ bytes' = [bytes EXCEPT ![w] = Snapshot]
        /\ UNCHANGED <<file, survivors, ledger>>
    BY <1>11 DEF TakePending
  <2>5. \A u \in Workers : pc'[u] \in {"write", "renamed"} => bytes'[u] = Snapshot
    BY <1>0, <2>2, <2>4 DEF WriterPcs
  <2>6. BytesHonest'
    BY <2>3, <2>4, <2>5 DEF BytesHonest, Honest
  <2>7. NoPhantom'
    BY <2>4 DEF Phantom, NoPhantom, Recoverable
  <2> QED
    BY <2>6, <2>7 DEF Phantom
<1>12. ASSUME NEW w \in Workers, Rename(w) PROVE Phantom'
  <2>1. /\ pc[w] = "write" /\ pc' = [pc EXCEPT ![w] = "renamed"]
        /\ file' = bytes[w] /\ survivors' = survivors \cup {bytes[w]}
        /\ UNCHANGED <<bytes, ledger>>
    BY <1>12 DEF Rename, At
  <2>2. Honest(bytes[w])
    BY <2>1 DEF Phantom, BytesHonest
  <2>3. NoPhantom'
    BY <2>1, <2>2 DEF Phantom, NoPhantom, Honest, Recoverable
  <2>4. BytesHonest'
    BY <1>0, <2>1, <2>2 DEF Phantom, BytesHonest, Honest
  <2> QED
    BY <2>3, <2>4 DEF Phantom
<1>13. ASSUME NEW w \in Workers,
              WriteFails(w) \/ DirSyncOk(w) \/ DirSyncSkipped(w) \/ DirSyncFails(w)
       PROVE  Phantom'
  <2>1. /\ pc' = [pc EXCEPT ![w] = "failed"] \/ pc' = [pc EXCEPT ![w] = "written"]
        /\ survivors' \subseteq survivors
        /\ UNCHANGED <<file, bytes, ledger>>
    BY <1>13 DEF WriteFails, DirSyncOk, DirSyncSkipped, DirSyncFails, At, TypeOK
  <2> QED
    BY <1>0, <2>1, NothingNew
<1>14. ASSUME NEW w \in Workers, Phase3(w) PROVE Phantom'
  <2>1. /\ pc' = [pc EXCEPT ![w] = "idle"]
        /\ bytes' = [bytes EXCEPT ![w] = Absent]
        /\ UNCHANGED <<file, survivors, ledger>>
    BY <1>14 DEF Phase3, Commit, Requeue, EndWrite, At
  <2> QED
    BY <1>0, <2>1, NothingNew
<1> QED
  BY <1>1, <1>2, <1>3, <1>4, <1>5, <1>6, <1>7, <1>8, <1>9, <1>10, <1>11, <1>12,
     <1>13, <1>14
  DEF Next, Frame, flush_coulomb_state, Phase1, Phase2, FlushBusy, FlushNothing,
      FlushThrottled, SerializeFails, MayWrite

LEMMA PInvHolds ==
  ASSUME Promising
  PROVE  Spec => []PInv
<1>1. Spec => []WAInv
  BY WAInvHolds DEF Promising
<1>2. Init => Account /\ Phantom
  BY InitialAccount, InitialPhantom
<1>3. WAInv /\ Account /\ Phantom /\ [Next]_vars => (Account /\ Phantom)'
  BY AccountStep, PhantomStep DEF WAInv, Control
<1>4. WAInv /\ Account /\ Phantom => PInv
  BY DEF PInv
<1> QED
  BY <1>1, <1>2, <1>3, <1>4, PTL DEF Spec

\* Restoring any content a crash may leave adds one ULP at most to what the
\* life before it began with and measured: one per start, not one per write.
THEOREM NoPhantomHolds ==
  ASSUME Promising
  PROVE  Spec => []NoPhantom
<1>1. Spec => []PInv
  BY PInvHolds
<1>2. PInv => NoPhantom
  BY DEF PInv, Phantom
<1> QED
  BY <1>1, <1>2, PTL

-----------------------------------------------------------------------------
(* The refinement.                                                         *)

\* A step that leaves the counters, the measurements and `live` alone.
LEMMA Stutter ==
  ASSUME UNCHANGED <<exported, ledger>>, (mode # "down") = (mode' # "down")
  PROVE  UNCHANGED Promise!vars
  BY DEF Promise!vars

LEMMA PromiseStep ==
  ASSUME Promising, PInv, [Next]_vars
  PROVE  [Promise!Next]_(Promise!vars)
<1> USE DEF vars, memory, disk, history
<1>0. /\ TypeOK /\ WAInv /\ Account /\ Phantom
      /\ ledger \in [Serials -> Nat] /\ exported \in [Serials -> Nat]
      /\ snap \in [Workers -> [Serials -> Nat]]
      /\ TypeOK'
  BY TypeStep DEF PInv, WAInv, TypeOK
<1>a. \A w \in Workers : mode = "down" => pc[w] = "idle"
  BY DEF PInv, WAInv, DownIsEmpty
<1>1. CASE UNCHANGED vars
  BY <1>1, Stutter
<1>2. CASE restore_coulombs
  <2>1. exported' \in [Serials -> Nat] /\ ledger' = exported' /\ exported' = RestoredTotals(file)
    BY <1>0, <1>2 DEF restore_coulombs, TypeOK
  <2>2. Promise!Below(exported, exported')
    BY <1>0, <1>2, <2>1, RestartKeepsCounters DEF Promise!Below
  <2>3. \A s \in Serials : exported'[s] <= ledger[s] + 1
    <3>1. file \in Recoverable /\ \A s \in Serials : ledger[s] \in Nat
      BY <1>0 DEF TypeOK, Recoverable
    <3>2. \A s \in Restored(file) : file.total[s] <= ledger[s] + 1
      BY <1>0, <3>1 DEF Phantom, NoPhantom
    <3> QED
      BY <2>1, <3>1, <3>2 DEF RestoredTotals
  <2>4. mode = "down" /\ mode' # "down"
    BY <1>2 DEF restore_coulombs
  <2>5. Promise!Start
    BY <2>1, <2>2, <2>3, <2>4 DEF Promise!Start
  <2> QED
    BY <2>5 DEF Promise!Next
<1>3. ~RestoreUnreadable
  BY DEF RestoreUnreadable, Promising
<1>4. CASE Kill \/ PowerLoss \/ Exit
  <2>1. mode # "down" /\ mode' = "down" /\ UNCHANGED <<exported, ledger>>
    BY <1>4 DEF Kill, PowerLoss, Exit, MayEnd
  <2>2. Promise!Stop
    BY <2>1 DEF Promise!Stop
  <2> QED
    BY <2>2 DEF Promise!Next
<1>5. CASE WindowPasses
  BY <1>5, Stutter DEF WindowPasses
<1>6. ASSUME NEW w \in Workers, Shutdown(w) PROVE UNCHANGED Promise!vars
  BY <1>6, Stutter DEF Shutdown
<1>7. ASSUME NEW w \in Workers, NEW s \in Serials, Track(w, s)
      PROVE  UNCHANGED Promise!vars
  BY <1>7, Stutter DEF Track
<1>8. ASSUME NEW w \in Workers, NEW s \in Serials, NEW q \in Deltas,
             accumulate_coulombs(w, s, q)
      PROVE  Promise!Measure
  <2>1. q \in Nat /\ mode = "up" /\ ledger' = [ledger EXCEPT ![s] = @ + q]
        /\ UNCHANGED <<mode, exported>>
    BY <1>8, DeltasAssumption DEF accumulate_coulombs
  <2>2. ledger' \in [Serials -> Nat] /\ Promise!Below(ledger, ledger')
    BY <1>0, <2>1 DEF Promise!Below
  <2> QED
    BY <2>1, <2>2 DEF Promise!Measure
<1>9. ASSUME NEW w \in Workers, Phase1(w) \/ Phase2(w) \/ Requeue(w)
      PROVE  UNCHANGED Promise!vars
  BY <1>9, Stutter
  DEF Phase1, FlushBusy, FlushNothing, FlushThrottled, SerializeFails, LeaveFlush,
      TakePending, Phase2, WriteFails, Rename, DirSyncOk, DirSyncSkipped, DirSyncFails,
      Requeue
<1>10. ASSUME NEW w \in Workers, Commit(w) PROVE Promise!Publish
  <2>1. pc[w] = "written" /\ exported' = [s \in Serials |-> exported[s] + snap[w][s]]
        /\ UNCHANGED <<mode, ledger>>
    BY <1>10 DEF Commit, EndWrite, At, apply_pending
  <2>2. mode # "down"
    BY <1>a, <2>1
  <2>3. ASSUME NEW s \in Serials PROVE exported'[s] <= ledger[s]
    <3>1. /\ exported[s] \in Nat /\ snap[w][s] \in Nat /\ pending[s] \in Nat
          /\ ledger[s] \in Nat
      BY <1>0 DEF TypeOK
    <3>2. CASE s \notin tracked
      BY <1>0, <2>1, <2>2, <3>1, <3>2 DEF WAInv, UntrackedHasNothing
    <3>3. CASE s \in tracked /\ snap[w] # Zero
      <4>1. exported[s] + pending[s] + snap[w][s] = ledger[s]
        BY <1>0, <2>2, <3>3 DEF Account, Conservation
      <4> QED
        BY <2>1, <3>1, <4>1
    <3>4. CASE s \in tracked /\ snap[w] = Zero
      <4>1. \A u \in Workers : snap[u] = Zero
        BY <1>0, <2>1, <3>4 DEF WAInv, Exclusive, WriterPcs
      <4>2. exported[s] + pending[s] = ledger[s]
        BY <1>0, <2>2, <3>4, <4>1 DEF Account, Conservation
      <4>3. snap[w][s] = 0
        BY <3>4 DEF Zero
      <4> QED
        BY <2>1, <3>1, <4>2, <4>3
    <3> QED
      BY <3>2, <3>3, <3>4
  <2>4. exported' \in [Serials -> Nat] /\ Promise!Below(exported, exported')
    BY <1>0, <2>1 DEF Promise!Below
  <2>5. Promise!Below(exported', ledger)
    BY <2>3 DEF Promise!Below
  <2> QED
    BY <2>1, <2>2, <2>4, <2>5 DEF Promise!Publish
<1> QED
  BY <1>1, <1>2, <1>3, <1>4, <1>5, <1>6, <1>7, <1>8, <1>9, <1>10
  DEF Next, Frame, flush_coulomb_state, Phase3, Promise!Next

\* CoulombStore implements CounterPromise: seen from /metrics, every behaviour
\* of the store is one of a counter that rises by what was measured and keeps
\* its value over restarts.
THEOREM PromiseKept ==
  ASSUME Promising
  PROVE  Spec => PromiseSpec
<1>1. Spec => []PInv
  BY PInvHolds
<1>2. Init => Promise!Init
  BY InitialTypes DEF Init, Promise!Init, TypeOK, Zero
<1>3. PInv /\ [Next]_vars => [Promise!Next]_(Promise!vars)
  BY PromiseStep
<1> QED
  BY <1>1, <1>2, <1>3, PTL DEF Spec, PromiseSpec, Promise!Spec
=============================================================================
