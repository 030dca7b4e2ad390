------------------------------- MODULE Ingest -------------------------------
(***************************************************************************)
(* The ingest path of server.rs and the series it leaves in the registry   *)
(* of metrics.rs.                                                          *)
(*                                                                         *)
(* A telemetry body names one serial and carries any number of entries.    *)
(* The serial is accepted or not, admitted under the cap or not, and then  *)
(* every entry is dropped with a reason or reaches the metrics: a realtime *)
(* frame replaces the cell series and, if it carries a current, the peer   *)
(* series; a config frame replaces the device_info series.  Bookkeeping in *)
(* LastSeries says which series exist, so that those which went away are   *)
(* removed: the label values come from untrusted frames, and a series that *)
(* is not removed stays until the restart.                                 *)
(*                                                                         *)
(* A handler takes the lock of the metrics for one step at a time; several *)
(* handlers interleave between those steps.  (The shipped binary runs them *)
(* on one thread, the type is shared and locked for any number.)  What an  *)
(* entry holds is chosen when it is processed.  The values of the gauges   *)
(* are left out, and the sensor series, which are kept like the cells.     *)
(***************************************************************************)
EXTENDS Integers, FiniteSets, FiniteSetsExt

CONSTANTS
  Handlers,      \* requests in flight
  Serials,       \* serials accept_serial lets through
  CellSets,      \* the sets of cell indices a realtime frame may carry
  Identities,    \* pack serials a realtime frame may carry
  NoIdentity,    \* a realtime frame without one
  Machines,      \* what a config frame says of the device
  Caps,          \* max_devices as a start may find it, 0 for no cap
  MaxPublished,  \* peer_max_published
  MaxEntries     \* bound: entries of one body

ASSUME IngestAssumption ==
  /\ IsFiniteSet(Handlers) /\ IsFiniteSet(Serials) /\ NoIdentity \notin Identities
  /\ Caps \subseteq Nat /\ MaxPublished \in Nat /\ MaxEntries \in Nat

VARIABLES
  cap,       \* max_devices
  devices,   \* CoulombShared.devices: [tracked serial -> LastSeries]
  registry,  \* the series that exist, by family
  job,       \* [handler -> the body it is working on]
  balance    \* entries posted less entries counted as decoded or dropped

vars == <<cap, devices, registry, job, balance>>

NoInfo == << >>

\* LastSeries::default()
NewSeries == [cells |-> {}, identity |-> NoIdentity, info |-> NoInfo, peers |-> {}]

\* A fresh registry, but for the counters of the restored serials in sns.
NewRegistry(sns) == [sn |-> sns, cells |-> {}, info |-> {}, peers |-> {}]

Idle == [pc |-> "idle", sn |-> NoIdentity, left |-> 0]

Unlimited == cap = 0

HasRoom == Unlimited \/ Cardinality(DOMAIN devices) < cap

\* The entry of s, inserted if it is new.
Tracking(s) ==
  [u \in DOMAIN devices \cup {s} |->
     IF u \in DOMAIN devices THEN devices[u] ELSE NewSeries]

-----------------------------------------------------------------------------
(***************************************************************************)
(* Acceptance and admission.  A refused body is counted entry by entry,    *)
(* and as one if it has none.                                              *)
(***************************************************************************)

Posted(n) == Max({n, 1})

\* Seeded fault: a refused body counts once, whatever it holds.
DroppedOnce(n) == 1

\* What a refused body of n entries adds to frames_dropped.
Dropped(n) == Max({n, 1})

\* accept_serial: a serial that is implausible or not allowed.
RejectSerial(h) ==
  /\ job[h].pc = "idle"
  /\ \E n \in 0..MaxEntries : balance' = balance + Posted(n) - Dropped(n)
  /\ UNCHANGED <<cap, devices, registry, job>>

\* admit: an unknown serial while all slots are taken.
RefuseDevice(h) ==
  /\ job[h].pc = "idle"
  /\ \E s \in Serials \ DOMAIN devices : ~HasRoom
  /\ \E n \in 0..MaxEntries : balance' = balance + Posted(n) - Dropped(n)
  /\ UNCHANGED <<cap, devices, registry, job>>

\* Seeded fault: the slot is left to the first frame that decodes, cap or not.
Unreserved(s) == devices

\* admit: a new serial takes its slot at once, but without a cap it waits for
\* a frame that decodes.
Reserved(s) == IF Unlimited THEN devices ELSE Tracking(s)

admit(h) ==
  /\ job[h].pc = "idle"
  /\ \E s \in Serials, n \in 0..MaxEntries :
       /\ s \in DOMAIN devices \/ HasRoom
       /\ devices' = Reserved(s)
       /\ job' = [job EXCEPT ![h] = [pc |-> "entries", sn |-> s, left |-> n]]
       /\ balance' = balance + n
  /\ UNCHANGED <<cap, registry>>

-----------------------------------------------------------------------------
(***************************************************************************)
(* handle_entry.  After admission a cap is no obstacle any more: the body  *)
(* holds its slot (CardinalityBound), and the checks repeated in           *)
(* update_realtime, accumulate_coulombs and update_config pass.            *)
(***************************************************************************)

AtEntry(h) == job[h].pc = "entries" /\ job[h].left > 0

\* record_decoded or record_dropped, and on to the next entry.
EntryDone(h) ==
  /\ job' = [job EXCEPT ![h].pc = "entries", ![h].left = @ - 1]
  /\ balance' = balance - 1

Continue(h, pc) ==
  /\ job' = [job EXCEPT ![h].pc = pc]
  /\ UNCHANGED balance

\* A bad command, an unknown block, a frame that does not parse, or readings
\* that are not plausible: nothing reaches the metrics but the drop counter.
DropEntry(h) ==
  /\ AtEntry(h)
  /\ EntryDone(h)
  /\ UNCHANGED <<cap, devices, registry>>

\* Seeded fault: the series that went away are not removed.
sync_unpruned(s, old, cur) == registry.cells \cup {<<s, i>> : i \in cur}

\* sync_indexed: the series of s are those of the frame.
sync_indexed(s, old, cur) ==
  (registry.cells \ {<<s, i>> : i \in old \ cur}) \cup {<<s, i>> : i \in cur}

\* update_realtime under the lock, and the gauges it sets after it.  Without
\* a current accumulate_coulombs returns at once.
update_realtime(h) ==
  /\ AtEntry(h)
  /\ \E cells \in CellSets, identity \in Identities \cup {NoIdentity}, current \in BOOLEAN :
       LET s == job[h].sn
           known == Tracking(s)
       IN  /\ devices' = [known EXCEPT ![s].cells = cells, ![s].identity = identity]
           /\ registry' = [registry EXCEPT
                             !.sn = @ \cup {s},
                             !.cells = sync_indexed(s, known[s].cells, cells)]
           /\ IF current THEN Continue(h, "accumulate") ELSE EntryDone(h)
  /\ UNCHANGED cap

\* Seeded fault: without the exclusion of the device itself.
ReportableSelf(s) == {p \in SUBSET (DOMAIN devices) : Cardinality(p) <= MaxPublished}

\* The peers of a report: serials the calibrator tracks, never s itself.
Reportable(s) == {p \in SUBSET (DOMAIN devices \ {s}) : Cardinality(p) <= MaxPublished}

\* Seeded fault: a peer that no longer qualifies keeps its series.
publish_unpruned(s, old, cur) == registry.peers \cup {<<s, p>> : p \in cur}

\* publish_calibration: the series of peers no longer reported are removed.
publish_calibration(s, old, cur) ==
  (registry.peers \ {<<s, p>> : p \in old \ cur}) \cup {<<s, p>> : p \in cur}

\* accumulate_coulombs, the part that touches series, with the calibration
\* enabled.
accumulate_coulombs(h) ==
  /\ job[h].pc = "accumulate"
  /\ \E peers \in Reportable(job[h].sn) :
       LET s == job[h].sn
       IN  /\ devices' = [devices EXCEPT ![s].peers = peers]
           /\ registry' = [registry EXCEPT
                             !.peers = publish_calibration(s, devices[s].peers, peers)]
  /\ EntryDone(h)
  /\ UNCHANGED cap

\* update_config sets its gauges before it takes the lock.
ConfigGauges(h) ==
  /\ AtEntry(h)
  /\ registry' = [registry EXCEPT !.sn = @ \cup {job[h].sn}]
  /\ Continue(h, "config")
  /\ UNCHANGED <<cap, devices>>

\* Seeded fault: the previous tuple stays.
set_info_unpruned(old, labels) == registry.info \cup {labels}

\* set_device_info: the previous tuple goes if it differs.
set_device_info(old, labels) ==
  (registry.info \ (IF old \in {NoInfo, labels} THEN {} ELSE {old})) \cup {labels}

\* update_config under the lock: the serial of the last realtime frame, or
\* the one of the body, in the label.
update_config(h) ==
  /\ job[h].pc = "config"
  /\ \E machine \in Machines :
       LET s == job[h].sn
           known == Tracking(s)
           serial == IF known[s].identity = NoIdentity THEN s ELSE known[s].identity
           labels == <<s, serial, machine>>
       IN  /\ devices' = [known EXCEPT ![s].info = labels]
           /\ registry' = [registry EXCEPT !.info = set_device_info(known[s].info, labels)]
  /\ EntryDone(h)
  /\ UNCHANGED cap

\* All entries done, dropped or not: the time stamp of the serial is set.
mark_seen(h) ==
  /\ job[h].pc = "entries" /\ job[h].left = 0
  /\ registry' = [registry EXCEPT !.sn = @ \cup {job[h].sn}]
  /\ job' = [job EXCEPT ![h] = Idle]
  /\ UNCHANGED <<cap, devices, balance>>

-----------------------------------------------------------------------------
\* The rows of a state file that restore_coulombs takes over, whoever wrote
\* it and under whatever cap.
Rows(max) == {rows \in SUBSET Serials : max = 0 \/ Cardinality(rows) <= max}

Started ==
  \E max \in Caps : \E rows \in Rows(max) : \E counted \in SUBSET rows :
    /\ cap' = max
    /\ devices' = [s \in rows |-> NewSeries]
    /\ registry' = NewRegistry(counted)

Restart ==
  /\ Started
  /\ job' = [h \in Handlers |-> Idle]
  /\ balance' = 0

Init ==
  /\ cap \in Caps
  /\ devices = << >>
  /\ registry = NewRegistry({})
  /\ job = [h \in Handlers |-> Idle]
  /\ balance = 0

Step(h) ==
  \/ RejectSerial(h)
  \/ RefuseDevice(h)
  \/ admit(h)
  \/ DropEntry(h)
  \/ update_realtime(h)
  \/ accumulate_coulombs(h)
  \/ ConfigGauges(h)
  \/ update_config(h)
  \/ mark_seen(h)

Next == Restart \/ \E h \in Handlers : Step(h)

Spec == Init /\ [][Next]_vars

-----------------------------------------------------------------------------
(***************************************************************************)
(* Properties.                                                             *)
(***************************************************************************)

\* The shape of the state; no device is its own peer.
TypeOK ==
  /\ cap \in Caps
  /\ DOMAIN devices \subseteq Serials
  /\ \A s \in DOMAIN devices :
       /\ devices[s].cells \in CellSets \cup {{}}
       /\ devices[s].identity \in Identities \cup {NoIdentity}
       /\ devices[s].peers \subseteq Serials \ {s}
  /\ registry.sn \subseteq Serials
  /\ job \in [Handlers -> [pc : {"idle", "entries", "accumulate", "config"},
                           sn : Serials \cup {NoIdentity}, left : 0..MaxEntries]]

\* The cap bounds the label values: never more than max_devices serials are
\* tracked, a body at work belongs to one of them even if none of its frames
\* decodes, and no series of any family carries another serial.
CardinalityBound ==
  ~Unlimited =>
    /\ Cardinality(DOMAIN devices) <= cap
    /\ \A h \in Handlers : job[h].pc # "idle" => job[h].sn \in DOMAIN devices
    /\ registry.sn \subseteq DOMAIN devices
    /\ \A x \in registry.cells : x[1] \in DOMAIN devices
    /\ \A x \in registry.info : x[1] \in DOMAIN devices
    /\ \A x \in registry.peers : {x[1], x[2]} \subseteq DOMAIN devices

\* Every entry of every body is counted exactly once, as decoded or as dropped
\* with a reason, those of refused bodies included: what is posted and not yet
\* counted is what the handlers still hold.
EveryEntryCounted ==
  balance = MapThenSumSet(LAMBDA h : job[h].left, Handlers)

\* A pack whose cell count shrinks leaves no stale cell behind: the cell series
\* are those of the last realtime frame of each device, however the frames of
\* several requests interleave.
CellSeriesFollowFrames ==
  registry.cells = UNION {{<<s, i>> : i \in devices[s].cells} : s \in DOMAIN devices}

\* A device that varies its identity holds one device_info series at a time.
OneInfoSeries ==
  registry.info = {devices[s].info : s \in DOMAIN devices} \ {NoInfo}

\* The peer series are those of the last report of each device, never more
\* than may be published.
PeerSeriesFollowReports ==
  /\ registry.peers = UNION {{<<s, p>> : p \in devices[s].peers} : s \in DOMAIN devices}
  /\ \A s \in DOMAIN devices : Cardinality(devices[s].peers) <= MaxPublished

=============================================================================
