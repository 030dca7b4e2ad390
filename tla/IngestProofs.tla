---------------------------- MODULE IngestProofs ----------------------------
(***************************************************************************)
(* The series of the registry are those LastSeries remembers, and every    *)
(* entry is counted once, for any serials, cells, identities, caps and     *)
(* number of requests in flight.                                           *)
(***************************************************************************)
EXTENDS Ingest, FiniteSetTheorems, WellFoundedInduction, TLAPS

AllCells == UNION CellSets

\* The device_info label tuples a device s can have.
Infos(s) == {s} \X (Serials \cup Identities) \X Machines

Device(s) ==
  [cells : SUBSET AllCells, identity : Identities \cup {NoIdentity},
   info : Infos(s) \cup {NoInfo}, peers : SUBSET Serials]

\* The shape of everything, and that a request past update_realtime has its
\* device tracked.
Shape ==
  /\ DOMAIN devices \subseteq Serials
  /\ devices = [s \in DOMAIN devices |-> devices[s]]
  /\ \A s \in DOMAIN devices : devices[s] \in Device(s)
  /\ registry \in [sn : SUBSET Serials, cells : SUBSET (Serials \X AllCells),
                   info : SUBSET UNION {Infos(s) : s \in Serials},
                   peers : SUBSET (Serials \X Serials)]
  /\ job \in [Handlers -> [pc : {"idle", "entries", "accumulate", "config"},
                           sn : Serials \cup {NoIdentity}, left : Int]]
  /\ \A h \in Handlers :
       /\ job[h].pc # "idle" => job[h].sn \in Serials
       /\ job[h].pc = "accumulate" => job[h].sn \in DOMAIN devices

\* Cell series and bookkeeping agree, one pair at a time.
CellsAgree ==
  \A s \in Serials, i \in AllCells :
    <<s, i>> \in registry.cells <=> s \in DOMAIN devices /\ i \in devices[s].cells

InfoAgrees ==
  \A x : x \in registry.info <=>
           \E s \in DOMAIN devices : x = devices[s].info /\ x # NoInfo

PeersAgree ==
  \A s \in Serials, p \in Serials :
    <<s, p>> \in registry.peers <=> s \in DOMAIN devices /\ p \in devices[s].peers

SeriesInv == Shape /\ CellsAgree /\ InfoAgrees /\ PeersAgree

\* Inserting an entry leaves the others alone and keeps the shape.
LEMMA TrackingShape ==
  ASSUME Shape, NEW s \in Serials
  PROVE  /\ DOMAIN Tracking(s) = DOMAIN devices \cup {s}
         /\ \A u \in DOMAIN Tracking(s) : Tracking(s)[u] \in Device(u)
         /\ \A u \in DOMAIN devices : Tracking(s)[u] = devices[u]
         /\ s \notin DOMAIN devices => Tracking(s)[s] = NewSeries
<1>1. NewSeries \in Device(s)
  BY DEF NewSeries, Device
<1> QED
  BY <1>1 DEF Shape, Tracking

LEMMA InitSeries == Init => SeriesInv
<1> SUFFICES ASSUME Init PROVE SeriesInv
  OBVIOUS
<1>1. DOMAIN devices = {}
  BY DEF Init
<1> QED
  BY <1>1 DEF Init, SeriesInv, Shape, CellsAgree, InfoAgrees, PeersAgree, NewRegistry, Idle

\* A step that leaves the bookkeeping and the three families alone.
LEMMA SameSeries ==
  ASSUME SeriesInv, Shape', UNCHANGED devices,
         registry'.cells = registry.cells, registry'.info = registry.info,
         registry'.peers = registry.peers
  PROVE  SeriesInv'
BY DEF SeriesInv, CellsAgree, InfoAgrees, PeersAgree

\* An entry is done, or left for its next step.
LEMMA JobShape ==
  ASSUME Shape, NEW h \in Handlers, job[h].pc # "idle", DOMAIN devices \subseteq DOMAIN devices',
         EntryDone(h) \/ (\E pc \in {"accumulate", "config"} : Continue(h, pc)),
         job'[h].pc = "accumulate" => job[h].sn \in DOMAIN devices'
  PROVE  /\ job' \in [Handlers -> [pc : {"idle", "entries", "accumulate", "config"},
                                   sn : Serials \cup {NoIdentity}, left : Int]]
         /\ \A g \in Handlers :
              /\ job'[g].pc # "idle" => job'[g].sn \in Serials
              /\ job'[g].pc = "accumulate" => job'[g].sn \in DOMAIN devices'
<1>1. CASE EntryDone(h)
  BY <1>1 DEF Shape, EntryDone
<1>2. ASSUME NEW pc \in {"accumulate", "config"}, Continue(h, pc)
      PROVE  /\ job' \in [Handlers -> [pc : {"idle", "entries", "accumulate", "config"},
                                       sn : Serials \cup {NoIdentity}, left : Int]]
             /\ \A g \in Handlers :
                  /\ job'[g].pc # "idle" => job'[g].sn \in Serials
                  /\ job'[g].pc = "accumulate" => job'[g].sn \in DOMAIN devices'
  BY <1>2 DEF Shape, Continue
<1> QED
  BY <1>1, <1>2

LEMMA RealtimeSeries ==
  ASSUME SeriesInv, NEW h \in Handlers, update_realtime(h)
  PROVE  SeriesInv'
<1> DEFINE s == job[h].sn
           known == Tracking(s)
<1>1. s \in Serials /\ job[h].pc # "idle"
  BY DEF SeriesInv, Shape, update_realtime, AtEntry
<1>2. PICK cells \in CellSets, identity \in Identities \cup {NoIdentity}, current \in BOOLEAN :
        /\ devices' = [known EXCEPT ![s].cells = cells, ![s].identity = identity]
        /\ registry' = [registry EXCEPT
                          !.sn = @ \cup {s},
                          !.cells = sync_indexed(s, known[s].cells, cells)]
        /\ IF current THEN Continue(h, "accumulate") ELSE EntryDone(h)
  BY DEF update_realtime
<1>3. /\ DOMAIN known = DOMAIN devices \cup {s}
      /\ \A u \in DOMAIN known : known[u] \in Device(u)
      /\ \A u \in DOMAIN devices : known[u] = devices[u]
      /\ s \notin DOMAIN devices => known[s] = NewSeries
  BY <1>1, TrackingShape DEF SeriesInv
<1>4. cells \subseteq AllCells
  BY DEF AllCells
<1>5. /\ devices'[s] = [known[s] EXCEPT !.cells = cells, !.identity = identity]
      /\ DOMAIN devices' = DOMAIN devices \cup {s}
      /\ \A u \in DOMAIN devices : u # s => devices'[u] = devices[u]
      /\ devices' = [u \in DOMAIN devices' |-> devices'[u]]
  BY <1>2, <1>3 DEF Tracking
<1>6. devices'[s] \in Device(s)
  <2>1. known[s] \in Device(s)
    BY <1>3
  <2>2. devices'[s] = [cells |-> cells, identity |-> identity,
                       info |-> known[s].info, peers |-> known[s].peers]
    BY <1>5, <2>1 DEF Device
  <2>3. known[s].info \in Infos(s) \cup {NoInfo} /\ known[s].peers \in SUBSET Serials
    BY <2>1 DEF Device
  <2> QED
    BY <1>4, <2>2, <2>3 DEF Device
<1>7. /\ registry'.cells = sync_indexed(s, known[s].cells, cells)
      /\ registry'.info = registry.info
      /\ registry'.peers = registry.peers
      /\ registry' \in [sn : SUBSET Serials, cells : SUBSET (Serials \X AllCells),
                        info : SUBSET UNION {Infos(u) : u \in Serials},
                        peers : SUBSET (Serials \X Serials)]
  <2>1. registry \in [sn : SUBSET Serials, cells : SUBSET (Serials \X AllCells),
                      info : SUBSET UNION {Infos(u) : u \in Serials},
                      peers : SUBSET (Serials \X Serials)]
    BY DEF SeriesInv, Shape
  <2>2. registry' = [sn |-> registry.sn \cup {s},
                     cells |-> sync_indexed(s, known[s].cells, cells),
                     info |-> registry.info, peers |-> registry.peers]
    BY <1>2, <2>1
  <2>3. {<<s, i>> : i \in cells} \subseteq Serials \X AllCells
    BY <1>1, <1>4
  <2>4. sync_indexed(s, known[s].cells, cells) \subseteq Serials \X AllCells
    BY <2>1, <2>3 DEF sync_indexed
  <2> QED
    BY <1>1, <2>1, <2>2, <2>4
<1>8. Shape'
  <2>1. \A u \in DOMAIN devices' : devices'[u] \in Device(u)
    BY <1>5, <1>6 DEF SeriesInv, Shape
  <2>2. /\ job' \in [Handlers -> [pc : {"idle", "entries", "accumulate", "config"},
                                   sn : Serials \cup {NoIdentity}, left : Int]]
        /\ \A g \in Handlers :
             /\ job'[g].pc # "idle" => job'[g].sn \in Serials
             /\ job'[g].pc = "accumulate" => job'[g].sn \in DOMAIN devices'
    BY <1>1, <1>2, <1>5, JobShape DEF SeriesInv
  <2> QED
    BY <1>1, <1>5, <1>7, <2>1, <2>2 DEF SeriesInv, Shape
<1>9. CellsAgree'
  <2> SUFFICES ASSUME NEW u \in Serials, NEW i \in AllCells
               PROVE <<u, i>> \in registry'.cells <=> u \in DOMAIN devices' /\ i \in devices'[u].cells
    BY DEF CellsAgree
  <2>1. CASE u # s
    BY <2>1, <1>5, <1>7 DEF SeriesInv, CellsAgree, sync_indexed
  <2>2. CASE u = s
    <3>1. devices'[s].cells = cells
      BY <1>3, <1>5 DEF Device
    <3>2. <<s, i>> \in registry.cells => i \in known[s].cells
      BY <1>1, <1>3 DEF SeriesInv, CellsAgree
    <3> QED
      BY <2>2, <3>1, <3>2, <1>5, <1>7 DEF sync_indexed
  <2> QED
    BY <2>1, <2>2
<1>10. InfoAgrees' /\ PeersAgree'
  <2>1. /\ devices'[s].info = known[s].info
        /\ devices'[s].peers = known[s].peers
    BY <1>3, <1>5 DEF Device
  <2>2. s \notin DOMAIN devices => devices'[s].info = NoInfo /\ devices'[s].peers = {}
    BY <2>1, <1>3 DEF NewSeries
  <2>3. s \in DOMAIN devices =>
          devices'[s].info = devices[s].info /\ devices'[s].peers = devices[s].peers
    BY <2>1, <1>3
  <2>4. InfoAgrees'
    <3> SUFFICES ASSUME NEW x
                 PROVE  x \in registry.info <=>
                          \E u \in DOMAIN devices' : x = devices'[u].info /\ x # NoInfo
      BY <1>7 DEF InfoAgrees
    <3>1. x \in registry.info <=> \E u \in DOMAIN devices : x = devices[u].info /\ x # NoInfo
      BY DEF SeriesInv, InfoAgrees
    <3> QED
      BY <3>1, <2>2, <2>3, <1>5
  <2>5. PeersAgree'
    BY <2>2, <2>3, <1>5, <1>7 DEF SeriesInv, PeersAgree
  <2> QED
    BY <2>4, <2>5
<1> QED
  BY <1>8, <1>9, <1>10 DEF SeriesInv

LEMMA ReportSeries ==
  ASSUME SeriesInv, NEW h \in Handlers, accumulate_coulombs(h)
  PROVE  SeriesInv'
<1> DEFINE s == job[h].sn
<1>1. s \in DOMAIN devices /\ s \in Serials /\ job[h].pc # "idle"
  BY DEF SeriesInv, Shape, accumulate_coulombs
<1>2. PICK peers \in Reportable(s) :
        /\ devices' = [devices EXCEPT ![s].peers = peers]
        /\ registry' = [registry EXCEPT
                          !.peers = publish_calibration(s, devices[s].peers, peers)]
  BY DEF accumulate_coulombs
<1>3. EntryDone(h)
  BY DEF accumulate_coulombs
<1>4. peers \subseteq Serials /\ devices[s] \in Device(s)
  BY <1>1 DEF Reportable, SeriesInv, Shape
<1>5. /\ devices'[s] = [cells |-> devices[s].cells, identity |-> devices[s].identity,
                        info |-> devices[s].info, peers |-> peers]
      /\ DOMAIN devices' = DOMAIN devices
      /\ \A u \in DOMAIN devices : u # s => devices'[u] = devices[u]
      /\ devices' = [u \in DOMAIN devices' |-> devices'[u]]
  BY <1>1, <1>2, <1>4 DEF Device
<1>6. /\ registry' = [sn |-> registry.sn, cells |-> registry.cells, info |-> registry.info,
                      peers |-> publish_calibration(s, devices[s].peers, peers)]
      /\ registry'.peers \subseteq Serials \X Serials
  <2>1. registry \in [sn : SUBSET Serials, cells : SUBSET (Serials \X AllCells),
                      info : SUBSET UNION {Infos(u) : u \in Serials},
                      peers : SUBSET (Serials \X Serials)]
    BY DEF SeriesInv, Shape
  <2>2. {<<s, p>> : p \in peers} \subseteq Serials \X Serials
    BY <1>1, <1>4
  <2>3. publish_calibration(s, devices[s].peers, peers) \subseteq Serials \X Serials
    BY <2>1, <2>2 DEF publish_calibration
  <2> QED
    BY <1>2, <2>1, <2>3
<1>7. Shape'
  <2>1. devices'[s] \in Device(s)
    BY <1>4, <1>5 DEF Device
  <2>2. \A u \in DOMAIN devices' : devices'[u] \in Device(u)
    BY <2>1, <1>5 DEF SeriesInv, Shape
  <2>3. registry' \in [sn : SUBSET Serials, cells : SUBSET (Serials \X AllCells),
                       info : SUBSET UNION {Infos(u) : u \in Serials},
                       peers : SUBSET (Serials \X Serials)]
    BY <1>6 DEF SeriesInv, Shape
  <2>4. /\ job' \in [Handlers -> [pc : {"idle", "entries", "accumulate", "config"},
                                   sn : Serials \cup {NoIdentity}, left : Int]]
        /\ \A g \in Handlers :
             /\ job'[g].pc # "idle" => job'[g].sn \in Serials
             /\ job'[g].pc = "accumulate" => job'[g].sn \in DOMAIN devices'
    BY <1>1, <1>3, <1>5 DEF SeriesInv, Shape, EntryDone
  <2> QED
    BY <1>5, <2>2, <2>3, <2>4 DEF SeriesInv, Shape
<1>8. CellsAgree'
  <2>1. \A u \in DOMAIN devices : devices'[u].cells = devices[u].cells
    BY <1>5
  <2>2. registry'.cells = registry.cells
    BY <1>6
  <2> QED
    BY <1>5, <2>1, <2>2 DEF SeriesInv, CellsAgree
<1>9. InfoAgrees'
  <2> SUFFICES ASSUME NEW x
               PROVE  x \in registry.info <=>
                        \E u \in DOMAIN devices : x = devices'[u].info /\ x # NoInfo
    BY <1>5, <1>6 DEF InfoAgrees
  <2>1. \A u \in DOMAIN devices : devices'[u].info = devices[u].info
    BY <1>5
  <2> QED
    BY <2>1 DEF SeriesInv, InfoAgrees
<1>10. PeersAgree'
  <2> SUFFICES ASSUME NEW u \in Serials, NEW p \in Serials
               PROVE <<u, p>> \in registry'.peers <=> u \in DOMAIN devices' /\ p \in devices'[u].peers
    BY DEF PeersAgree
  <2>1. CASE u # s
    BY <2>1, <1>5, <1>6 DEF SeriesInv, PeersAgree, publish_calibration
  <2>2. CASE u = s
    <3>1. devices'[s].peers = peers
      BY <1>5
    <3>2. <<s, p>> \in registry.peers => p \in devices[s].peers
      BY <1>1 DEF SeriesInv, PeersAgree
    <3> QED
      BY <2>2, <3>1, <3>2, <1>1, <1>5, <1>6 DEF publish_calibration
  <2> QED
    BY <2>1, <2>2
<1> QED
  BY <1>7, <1>8, <1>9, <1>10 DEF SeriesInv

\* A tuple names its device first: removing the one of s touches no other.
LEMMA InfosApart ==
  ASSUME NEW s, NEW u, u # s, NEW x \in Infos(s), NEW y \in Infos(u)
  PROVE  x # y
BY DEF Infos

LEMMA ConfigSeries ==
  ASSUME SeriesInv, NEW h \in Handlers, update_config(h)
  PROVE  SeriesInv'
<1> DEFINE s == job[h].sn
           known == Tracking(s)
           serial == IF known[s].identity = NoIdentity THEN s ELSE known[s].identity
<1>1. s \in Serials /\ job[h].pc # "idle" /\ EntryDone(h)
  BY DEF SeriesInv, Shape, update_config
<1>2. PICK machine \in Machines :
        /\ devices' = [known EXCEPT ![s].info = <<s, serial, machine>>]
        /\ registry' = [registry EXCEPT
                          !.info = set_device_info(known[s].info, <<s, serial, machine>>)]
  BY DEF update_config
<1> DEFINE labels == <<s, serial, machine>>
<1>3. /\ DOMAIN known = DOMAIN devices \cup {s}
      /\ \A u \in DOMAIN known : known[u] \in Device(u)
      /\ \A u \in DOMAIN devices : known[u] = devices[u]
      /\ s \notin DOMAIN devices => known[s] = NewSeries
  BY <1>1, TrackingShape DEF SeriesInv
<1>4. labels \in Infos(s) /\ labels # NoInfo
  BY <1>1, <1>3 DEF Infos, Device, NoInfo
<1>5. /\ devices'[s] = [cells |-> known[s].cells, identity |-> known[s].identity,
                        info |-> labels, peers |-> known[s].peers]
      /\ DOMAIN devices' = DOMAIN devices \cup {s}
      /\ \A u \in DOMAIN devices : u # s => devices'[u] = devices[u]
      /\ devices' = [u \in DOMAIN devices' |-> devices'[u]]
  <2>1. known[s] \in Device(s)
    BY <1>3
  <2>2. devices'[s] = [known[s] EXCEPT !.info = labels]
    BY <1>2, <1>3
  <2>3. devices'[s] = [cells |-> known[s].cells, identity |-> known[s].identity,
                       info |-> labels, peers |-> known[s].peers]
    BY <2>1, <2>2 DEF Device
  <2>4. /\ DOMAIN devices' = DOMAIN devices \cup {s}
        /\ \A u \in DOMAIN devices : u # s => devices'[u] = devices[u]
        /\ devices' = [u \in DOMAIN devices' |-> devices'[u]]
    BY <1>2, <1>3 DEF Tracking
  <2> QED
    BY <2>3, <2>4
<1>6. /\ registry' = [sn |-> registry.sn, cells |-> registry.cells,
                      info |-> set_device_info(known[s].info, labels), peers |-> registry.peers]
      /\ registry'.info \subseteq UNION {Infos(u) : u \in Serials}
  <2>1. registry \in [sn : SUBSET Serials, cells : SUBSET (Serials \X AllCells),
                      info : SUBSET UNION {Infos(u) : u \in Serials},
                      peers : SUBSET (Serials \X Serials)]
    BY DEF SeriesInv, Shape
  <2>2. set_device_info(known[s].info, labels) \subseteq UNION {Infos(u) : u \in Serials}
    BY <1>1, <1>4, <2>1 DEF set_device_info
  <2> QED
    BY <1>2, <2>1, <2>2
<1>7. Shape'
  <2>1. devices'[s] \in Device(s)
    BY <1>3, <1>4, <1>5 DEF Device
  <2>2. \A u \in DOMAIN devices' : devices'[u] \in Device(u)
    BY <2>1, <1>5 DEF SeriesInv, Shape
  <2>3. registry' \in [sn : SUBSET Serials, cells : SUBSET (Serials \X AllCells),
                       info : SUBSET UNION {Infos(u) : u \in Serials},
                       peers : SUBSET (Serials \X Serials)]
    BY <1>6 DEF SeriesInv, Shape
  <2>4. /\ job' \in [Handlers -> [pc : {"idle", "entries", "accumulate", "config"},
                                   sn : Serials \cup {NoIdentity}, left : Int]]
        /\ \A g \in Handlers :
             /\ job'[g].pc # "idle" => job'[g].sn \in Serials
             /\ job'[g].pc = "accumulate" => job'[g].sn \in DOMAIN devices'
    BY <1>1, <1>5 DEF SeriesInv, Shape, EntryDone
  <2> QED
    BY <1>1, <1>5, <2>2, <2>3, <2>4 DEF SeriesInv, Shape
<1>8. \A u \in DOMAIN devices' :
        IF u \in DOMAIN devices
        THEN devices'[u].cells = devices[u].cells /\ devices'[u].peers = devices[u].peers
        ELSE devices'[u].cells = {} /\ devices'[u].peers = {}
  BY <1>3, <1>5 DEF NewSeries
<1>9. CellsAgree' /\ PeersAgree'
  BY <1>5, <1>6, <1>8 DEF SeriesInv, CellsAgree, PeersAgree
<1>10. InfoAgrees'
  <2> SUFFICES ASSUME NEW x
               PROVE  x \in registry'.info <=>
                        \E u \in DOMAIN devices' : x = devices'[u].info /\ x # NoInfo
    BY DEF InfoAgrees
  <2>1. x \in registry.info <=> \E u \in DOMAIN devices : x = devices[u].info /\ x # NoInfo
    BY DEF SeriesInv, InfoAgrees
  <2>2. x \in registry'.info <=> x = labels \/ (x \in registry.info /\ x # known[s].info)
    <3>1. NoInfo \notin registry.info
      BY DEF SeriesInv, InfoAgrees
    <3> QED
      BY <1>6, <3>1 DEF set_device_info
  <2>3. x \in registry'.info <=>
          x = labels \/ \E u \in DOMAIN devices : u # s /\ x = devices[u].info /\ x # NoInfo
    <3>1. s \in DOMAIN devices => known[s].info = devices[s].info
      BY <1>3
    <3>2. s \notin DOMAIN devices => known[s].info = NoInfo
      BY <1>3 DEF NewSeries
    <3>3. ASSUME NEW u \in DOMAIN devices, u # s, x = devices[u].info, x # NoInfo
          PROVE  x # known[s].info
      <4>1. x \in Infos(u)
        BY <3>3 DEF SeriesInv, Shape, Device
      <4>2. known[s].info \in Infos(s) \cup {NoInfo}
        BY <1>3 DEF Device
      <4> QED
        BY <3>3, <4>1, <4>2, InfosApart
    <3> QED
      BY <2>1, <2>2, <3>1, <3>2, <3>3
  <2>4. devices'[s].info = labels
    BY <1>5
  <2> QED
    BY <2>3, <2>4, <1>4, <1>5
<1> QED
  BY <1>7, <1>9, <1>10 DEF SeriesInv

LEMMA AdmitSeries ==
  ASSUME SeriesInv, NEW h \in Handlers, admit(h)
  PROVE  SeriesInv'
<1>1. PICK s \in Serials, n \in 0..MaxEntries :
        /\ devices' = Reserved(s)
        /\ job' = [job EXCEPT ![h] = [pc |-> "entries", sn |-> s, left |-> n]]
  BY DEF admit
<1>2. UNCHANGED registry
  BY DEF admit
<1>3. \A u \in DOMAIN devices' :
        /\ devices'[u] \in Device(u)
        /\ u \in DOMAIN devices => devices'[u] = devices[u]
        /\ u \notin DOMAIN devices => devices'[u] = NewSeries
  <2>1. /\ DOMAIN Tracking(s) = DOMAIN devices \cup {s}
        /\ \A u \in DOMAIN Tracking(s) : Tracking(s)[u] \in Device(u)
        /\ \A u \in DOMAIN devices : Tracking(s)[u] = devices[u]
        /\ s \notin DOMAIN devices => Tracking(s)[s] = NewSeries
    BY TrackingShape DEF SeriesInv
  <2>2. CASE Unlimited
    BY <1>1, <2>2 DEF SeriesInv, Shape, Reserved
  <2>3. CASE ~Unlimited
    BY <1>1, <2>1, <2>3 DEF Reserved
  <2> QED
    BY <2>2, <2>3
<1>4. /\ DOMAIN devices \subseteq DOMAIN devices' /\ DOMAIN devices' \subseteq Serials
      /\ devices' = [u \in DOMAIN devices' |-> devices'[u]]
  BY <1>1 DEF SeriesInv, Shape, Reserved, Tracking
<1>5. Shape'
  <2>1. \A g \in Handlers :
          /\ job'[g] \in [pc : {"idle", "entries", "accumulate", "config"},
                          sn : Serials \cup {NoIdentity}, left : Int]
          /\ job'[g].pc # "idle" => job'[g].sn \in Serials
          /\ job'[g].pc = "accumulate" => job'[g].sn \in DOMAIN devices'
    <3> TAKE g \in Handlers
    <3>1. CASE g = h
      <4>1. job'[g] = [pc |-> "entries", sn |-> s, left |-> n]
        BY <1>1, <3>1 DEF SeriesInv, Shape
      <4>2. n \in Int
        BY IngestAssumption
      <4> QED
        BY <4>1, <4>2
    <3>2. CASE g # h
      BY <1>1, <1>4, <3>2 DEF SeriesInv, Shape
    <3> QED
      BY <3>1, <3>2
  <2>2. job' = [g \in Handlers |-> job'[g]]
    BY <1>1 DEF SeriesInv, Shape
  <2> QED
    BY <1>2, <1>3, <1>4, <2>1, <2>2 DEF SeriesInv, Shape
<1>6. \A u \in DOMAIN devices' \ DOMAIN devices :
        devices'[u].cells = {} /\ devices'[u].peers = {} /\ devices'[u].info = NoInfo
  BY <1>3 DEF NewSeries
<1>7. CellsAgree' /\ PeersAgree'
  BY <1>2, <1>3, <1>4, <1>6 DEF SeriesInv, CellsAgree, PeersAgree
<1>8. InfoAgrees'
  <2> SUFFICES ASSUME NEW x
               PROVE  x \in registry.info <=>
                        \E u \in DOMAIN devices' : x = devices'[u].info /\ x # NoInfo
    BY <1>2 DEF InfoAgrees
  <2>1. x \in registry.info <=> \E u \in DOMAIN devices : x = devices[u].info /\ x # NoInfo
    BY DEF SeriesInv, InfoAgrees
  <2> QED
    BY <2>1, <1>3, <1>4, <1>6
<1> QED
  BY <1>5, <1>7, <1>8 DEF SeriesInv

LEMMA RestartSeries == ASSUME Restart PROVE SeriesInv'
<1>1. PICK rows \in SUBSET Serials, counted \in SUBSET Serials :
        devices' = [s \in rows |-> NewSeries] /\ registry' = NewRegistry(counted)
  BY DEF Restart, Started, Rows
<1>2. job' = [h \in Handlers |-> Idle]
  BY DEF Restart
<1>3. \A s \in rows : NewSeries \in Device(s)
  BY DEF NewSeries, Device
<1>4. Shape'
  BY <1>1, <1>2, <1>3 DEF Shape, NewRegistry, Idle
<1>5. CellsAgree' /\ InfoAgrees' /\ PeersAgree'
  BY <1>1 DEF CellsAgree, InfoAgrees, PeersAgree, NewRegistry, NewSeries
<1> QED
  BY <1>4, <1>5 DEF SeriesInv

\* A request that only moves on, or stamps its serial.
LEMMA QuietSeries ==
  ASSUME SeriesInv, NEW h \in Handlers,
         DropEntry(h) \/ ConfigGauges(h) \/ mark_seen(h)
  PROVE  SeriesInv'
<1>1. UNCHANGED devices /\ job[h].pc = "entries" /\ job[h].sn \in Serials
  BY DEF DropEntry, ConfigGauges, mark_seen, AtEntry, SeriesInv, Shape
<1>2. \/ registry' = registry
      \/ registry' = [registry EXCEPT !.sn = @ \cup {job[h].sn}]
  BY DEF DropEntry, ConfigGauges, mark_seen
<1>3. /\ registry'.cells = registry.cells /\ registry'.info = registry.info
      /\ registry'.peers = registry.peers
      /\ registry' \in [sn : SUBSET Serials, cells : SUBSET (Serials \X AllCells),
                        info : SUBSET UNION {Infos(u) : u \in Serials},
                        peers : SUBSET (Serials \X Serials)]
  BY <1>1, <1>2 DEF SeriesInv, Shape
<1>4. EntryDone(h) \/ Continue(h, "config") \/ job' = [job EXCEPT ![h] = Idle]
  BY DEF DropEntry, ConfigGauges, mark_seen
<1>5. /\ job' \in [Handlers -> [pc : {"idle", "entries", "accumulate", "config"},
                                 sn : Serials \cup {NoIdentity}, left : Int]]
      /\ \A g \in Handlers :
           /\ job'[g].pc # "idle" => job'[g].sn \in Serials
           /\ job'[g].pc = "accumulate" => job'[g].sn \in DOMAIN devices'
  <2>1. CASE EntryDone(h)
    BY <1>1, <2>1 DEF SeriesInv, Shape, EntryDone
  <2>2. CASE Continue(h, "config")
    BY <1>1, <2>2 DEF SeriesInv, Shape, Continue
  <2>3. CASE job' = [job EXCEPT ![h] = Idle]
    BY <1>1, <2>3 DEF SeriesInv, Shape, Idle
  <2> QED
    BY <1>4, <2>1, <2>2, <2>3
<1>6. Shape'
  BY <1>1, <1>3, <1>5 DEF SeriesInv, Shape
<1> QED
  BY <1>1, <1>3, <1>6, SameSeries

LEMMA NextSeries == SeriesInv /\ [Next]_vars => SeriesInv'
<1> SUFFICES ASSUME SeriesInv, [Next]_vars PROVE SeriesInv'
  OBVIOUS
<1>1. CASE Restart
  BY <1>1, RestartSeries
<1>2. ASSUME NEW h \in Handlers, Step(h) PROVE SeriesInv'
  <2>1. CASE RejectSerial(h) \/ RefuseDevice(h)
    BY <2>1 DEF RejectSerial, RefuseDevice, SeriesInv, Shape, CellsAgree, InfoAgrees, PeersAgree
  <2>2. CASE admit(h)
    BY <2>2, AdmitSeries
  <2>3. CASE DropEntry(h) \/ ConfigGauges(h) \/ mark_seen(h)
    BY <2>3, QuietSeries
  <2>4. CASE update_realtime(h)
    BY <2>4, RealtimeSeries
  <2>5. CASE accumulate_coulombs(h)
    BY <2>5, ReportSeries
  <2>6. CASE update_config(h)
    BY <2>6, ConfigSeries
  <2> QED
    BY <1>2, <2>1, <2>2, <2>3, <2>4, <2>5, <2>6 DEF Step
<1>3. CASE UNCHANGED vars
  BY <1>3 DEF vars, SeriesInv, Shape, CellsAgree, InfoAgrees, PeersAgree
<1> QED
  BY <1>1, <1>2, <1>3 DEF Next

LEMMA SeriesAlways == Spec => []SeriesInv
BY InitSeries, NextSeries, PTL DEF Spec

\* sync_indexed and the lock keep the cell series at the last realtime frame of
\* each device, however requests interleave.
THEOREM CellSeriesTheorem == Spec => []CellSeriesFollowFrames
<1>1. SeriesInv => CellSeriesFollowFrames
  <2> SUFFICES ASSUME SeriesInv, NEW x
               PROVE  x \in registry.cells <=>
                        \E s \in DOMAIN devices : \E i \in devices[s].cells : x = <<s, i>>
    BY DEF CellSeriesFollowFrames
  <2>1. \A s \in DOMAIN devices : s \in Serials /\ devices[s].cells \subseteq AllCells
    BY DEF SeriesInv, Shape, Device
  <2>2. x \in registry.cells => x \in Serials \X AllCells
    BY DEF SeriesInv, Shape
  <2> QED
    BY <2>1, <2>2 DEF SeriesInv, CellsAgree
<1> QED
  BY <1>1, SeriesAlways, PTL

\* set_device_info leaves one info series per device that has sent a config
\* frame, and no other.
THEOREM OneInfoTheorem == Spec => []OneInfoSeries
<1>1. SeriesInv => OneInfoSeries
  BY DEF SeriesInv, InfoAgrees, OneInfoSeries
<1> QED
  BY <1>1, SeriesAlways, PTL

-----------------------------------------------------------------------------
(***************************************************************************)
(* The cap.  A request holds a slot from its admission on, and under a cap *)
(* every series belongs to a slot.                                         *)
(***************************************************************************)

\* No device has more peer series than a report may hold.
Published ==
  \A s \in DOMAIN devices : Cardinality(devices[s].peers) <= MaxPublished

\* Every serial that is worked on, stamped or reported as a peer has a slot.
SlotsHeld ==
  /\ \A h \in Handlers : job[h].pc # "idle" => job[h].sn \in DOMAIN devices
  /\ registry.sn \subseteq DOMAIN devices
  /\ \A s \in DOMAIN devices : devices[s].peers \subseteq DOMAIN devices

CapInv ==
  /\ cap \in Caps
  /\ Published
  /\ ~Unlimited => Cardinality(DOMAIN devices) <= cap /\ SlotsHeld

LEMMA NoPeers == Cardinality({}) <= MaxPublished
<1>1. Cardinality({}) = 0
  BY FS_EmptySet
<1> QED
  BY <1>1, IngestAssumption

LEMMA InitCap == Init => CapInv
<1> SUFFICES ASSUME Init PROVE CapInv
  OBVIOUS
<1>1. DOMAIN devices = {}
  BY DEF Init
<1>2. cap \in Nat /\ Cardinality(DOMAIN devices) = 0
  BY <1>1, FS_EmptySet, IngestAssumption DEF Init
<1> QED
  BY <1>1, <1>2 DEF Init, CapInv, Published, SlotsHeld, Idle, NewRegistry

LEMMA RestartCap == ASSUME Restart PROVE CapInv'
<1>1. PICK max \in Caps : \E rows \in Rows(max) : \E counted \in SUBSET rows :
        /\ cap' = max
        /\ devices' = [s \in rows |-> NewSeries]
        /\ registry' = NewRegistry(counted)
  BY DEF Restart, Started
<1>2. PICK rows \in Rows(max) : \E counted \in SUBSET rows :
        /\ cap' = max
        /\ devices' = [s \in rows |-> NewSeries]
        /\ registry' = NewRegistry(counted)
  BY <1>1
<1>3. job' = [h \in Handlers |-> Idle]
  BY DEF Restart
<1>4. Published'
  <2>1. Cardinality({}) <= MaxPublished
    BY NoPeers
  <2>2. \A u \in DOMAIN devices' : devices'[u].peers = {}
    BY <1>2 DEF NewSeries
  <2> QED
    BY <2>1, <2>2 DEF Published
<1>5. SlotsHeld'
  BY <1>2, <1>3 DEF SlotsHeld, Idle, NewRegistry, NewSeries
<1>6. ~Unlimited' => Cardinality(DOMAIN devices') <= cap'
  BY <1>2 DEF Unlimited, Rows
<1> QED
  BY <1>2, <1>4, <1>5, <1>6 DEF CapInv

LEMMA AdmitCap ==
  ASSUME SeriesInv, CapInv, NEW h \in Handlers, admit(h)
  PROVE  CapInv'
<1>1. PICK s \in Serials, n \in 0..MaxEntries :
        /\ s \in DOMAIN devices \/ HasRoom
        /\ devices' = Reserved(s)
        /\ job' = [job EXCEPT ![h] = [pc |-> "entries", sn |-> s, left |-> n]]
  BY DEF admit
<1>2. UNCHANGED <<cap, registry>>
  BY DEF admit
<1>3. CASE Unlimited
  <2>1. devices' = devices
    BY <1>1, <1>3 DEF Reserved
  <2> QED
    BY <1>2, <1>3, <2>1 DEF CapInv, Published, Unlimited
<1>4. CASE ~Unlimited
  <2>1. devices' = Tracking(s)
    BY <1>1, <1>4 DEF Reserved
  <2>2. /\ DOMAIN devices' = DOMAIN devices \cup {s}
        /\ \A u \in DOMAIN devices : devices'[u] = devices[u]
        /\ s \notin DOMAIN devices => devices'[s] = NewSeries
    BY <2>1, TrackingShape DEF SeriesInv
  <2>3. Cardinality({}) <= MaxPublished
    BY NoPeers
  <2>4. Published'
    <3> SUFFICES ASSUME NEW u \in DOMAIN devices'
                 PROVE  Cardinality(devices'[u].peers) <= MaxPublished
      BY DEF Published
    <3>1. CASE u \in DOMAIN devices
      BY <2>2, <3>1 DEF CapInv, Published
    <3>2. CASE u \notin DOMAIN devices
      <4>1. devices'[u].peers = {}
        BY <2>2, <3>2 DEF NewSeries
      <4> QED
        BY <4>1, <2>3
    <3> QED
      BY <3>1, <3>2
  <2>5. Cardinality(DOMAIN devices') <= cap'
    <3>1. IsFiniteSet(DOMAIN devices) /\ cap \in Nat
      BY FS_Subset, IngestAssumption DEF SeriesInv, Shape, CapInv
    <3>2. CASE s \in DOMAIN devices
      <4>1. DOMAIN devices' = DOMAIN devices
        BY <2>2, <3>2
      <4> QED
        BY <4>1, <1>2, <1>4 DEF CapInv
    <3>3. CASE s \notin DOMAIN devices
      <4>1. Cardinality(DOMAIN devices \cup {s}) = Cardinality(DOMAIN devices) + 1
        BY <3>1, <3>3, FS_AddElement
      <4>2. Cardinality(DOMAIN devices) \in Nat
        BY <3>1, FS_CardinalityType
      <4>3. Cardinality(DOMAIN devices) < cap
        BY <1>1, <1>4, <3>3 DEF HasRoom
      <4> QED
        BY <1>2, <2>2, <3>1, <4>1, <4>2, <4>3
    <3> QED
      BY <3>2, <3>3
  <2>6. SlotsHeld'
    <3>1. \A g \in Handlers : job'[g].pc # "idle" => job'[g].sn \in DOMAIN devices'
      <4> TAKE g \in Handlers
      <4>1. CASE g = h
        BY <1>1, <2>2, <4>1 DEF SeriesInv, Shape
      <4>2. CASE g # h
        BY <1>1, <1>4, <2>2, <4>2 DEF SeriesInv, Shape, CapInv, SlotsHeld
      <4> QED
        BY <4>1, <4>2
    <3>2. \A u \in DOMAIN devices' : devices'[u].peers \subseteq DOMAIN devices'
      BY <1>4, <2>2 DEF CapInv, SlotsHeld, NewSeries
    <3> QED
      BY <1>2, <1>4, <2>2, <3>1, <3>2 DEF CapInv, SlotsHeld
  <2> QED
    BY <1>2, <2>4, <2>5, <2>6 DEF CapInv
<1> QED
  BY <1>3, <1>4

\* A step of an admitted request: under a cap its device is tracked already, so
\* the step tracks no other.
LEMMA WorkCap ==
  ASSUME SeriesInv, CapInv, NEW h \in Handlers, job[h].pc # "idle",
         UNCHANGED cap,
         DOMAIN devices' \in {DOMAIN devices, DOMAIN devices \cup {job[h].sn}},
         \A g \in Handlers : job'[g].pc # "idle" =>
           job[g].pc # "idle" /\ job'[g].sn = job[g].sn,
         registry'.sn \subseteq registry.sn \cup {job[h].sn},
         \A u \in DOMAIN devices' :
           \/ devices'[u].peers = {}
           \/ u \in DOMAIN devices /\ devices'[u].peers = devices[u].peers
           \/ devices'[u].peers \in Reportable(u)
  PROVE  CapInv'
<1>1. Published'
  <2> SUFFICES ASSUME NEW u \in DOMAIN devices'
               PROVE  Cardinality(devices'[u].peers) <= MaxPublished
    BY DEF Published
  <2>1. CASE devices'[u].peers = {}
    BY <2>1, NoPeers
  <2>2. CASE u \in DOMAIN devices /\ devices'[u].peers = devices[u].peers
    BY <2>2 DEF CapInv, Published
  <2>3. CASE devices'[u].peers \in Reportable(u)
    BY <2>3 DEF Reportable
  <2> QED
    BY <2>1, <2>2, <2>3
<1>2. ASSUME ~Unlimited PROVE DOMAIN devices' = DOMAIN devices
  BY <1>2 DEF CapInv, SlotsHeld
<1>3. ASSUME ~Unlimited PROVE SlotsHeld'
  <2>1. \A u : \A P \in Reportable(u) : P \subseteq DOMAIN devices
    BY DEF Reportable
  <2>2. SlotsHeld
    BY <1>3 DEF CapInv
  <2>3. \A u \in DOMAIN devices' : devices'[u].peers \subseteq DOMAIN devices'
    BY <1>2, <1>3, <2>1, <2>2 DEF SlotsHeld
  <2> QED
    BY <1>2, <1>3, <2>2, <2>3 DEF SlotsHeld
<1> QED
  BY <1>1, <1>2, <1>3 DEF CapInv, Unlimited

LEMMA RealtimeCap ==
  ASSUME SeriesInv, CapInv, NEW h \in Handlers, update_realtime(h)
  PROVE  CapInv'
<1> DEFINE s == job[h].sn
<1>1. s \in Serials /\ job[h].pc # "idle" /\ UNCHANGED cap
  BY DEF SeriesInv, Shape, update_realtime, AtEntry
<1>2. PICK cells \in CellSets, identity \in Identities \cup {NoIdentity}, current \in BOOLEAN :
        /\ devices' = [Tracking(s) EXCEPT ![s].cells = cells, ![s].identity = identity]
        /\ registry' = [registry EXCEPT
                          !.sn = @ \cup {s},
                          !.cells = sync_indexed(s, Tracking(s)[s].cells, cells)]
        /\ IF current THEN Continue(h, "accumulate") ELSE EntryDone(h)
  BY DEF update_realtime
<1>3. /\ DOMAIN devices' = DOMAIN devices \cup {s}
      /\ \A u \in DOMAIN devices' : devices'[u].peers = Tracking(s)[u].peers
  BY <1>1, <1>2, TrackingShape DEF SeriesInv, Device
<1>4. \A u \in DOMAIN devices' :
        \/ devices'[u].peers = {}
        \/ u \in DOMAIN devices /\ devices'[u].peers = devices[u].peers
  <2>1. /\ \A u \in DOMAIN devices : Tracking(s)[u] = devices[u]
        /\ s \notin DOMAIN devices => Tracking(s)[s] = NewSeries
    BY <1>1, TrackingShape DEF SeriesInv
  <2> QED
    BY <1>3, <2>1 DEF NewSeries
<1>5. \A g \in Handlers : job'[g].pc # "idle" => job[g].pc # "idle" /\ job'[g].sn = job[g].sn
  BY <1>1, <1>2 DEF EntryDone, Continue, SeriesInv, Shape
<1>6. registry'.sn \subseteq registry.sn \cup {s}
  BY <1>2 DEF SeriesInv, Shape
<1> QED
  BY <1>1, <1>3, <1>4, <1>5, <1>6, WorkCap

LEMMA ReportCap ==
  ASSUME SeriesInv, CapInv, NEW h \in Handlers, accumulate_coulombs(h)
  PROVE  CapInv'
<1> DEFINE s == job[h].sn
<1>1. s \in DOMAIN devices /\ job[h].pc # "idle" /\ UNCHANGED cap
  BY DEF SeriesInv, Shape, accumulate_coulombs
<1>2. PICK peers \in Reportable(s) :
        /\ devices' = [devices EXCEPT ![s].peers = peers]
        /\ registry' = [registry EXCEPT
                          !.peers = publish_calibration(s, devices[s].peers, peers)]
  BY DEF accumulate_coulombs
<1>3. DOMAIN devices' = DOMAIN devices
  BY <1>2
<1>4. \A u \in DOMAIN devices' :
        \/ u \in DOMAIN devices /\ devices'[u].peers = devices[u].peers
        \/ devices'[u].peers \in Reportable(u)
  BY <1>1, <1>2 DEF SeriesInv, Shape, Device
<1>5. \A g \in Handlers : job'[g].pc # "idle" => job[g].pc # "idle" /\ job'[g].sn = job[g].sn
  BY <1>1 DEF accumulate_coulombs, EntryDone, SeriesInv, Shape
<1>6. registry'.sn \subseteq registry.sn \cup {s}
  BY <1>2 DEF SeriesInv, Shape
<1> QED
  BY <1>1, <1>3, <1>4, <1>5, <1>6, WorkCap

LEMMA ConfigCap ==
  ASSUME SeriesInv, CapInv, NEW h \in Handlers, update_config(h)
  PROVE  CapInv'
<1> DEFINE s == job[h].sn
<1>1. s \in Serials /\ job[h].pc # "idle" /\ UNCHANGED cap
  BY DEF SeriesInv, Shape, update_config
<1>2. PICK labels, old :
        /\ devices' = [Tracking(s) EXCEPT ![s].info = labels]
        /\ registry' = [registry EXCEPT !.info = set_device_info(old, labels)]
  BY DEF update_config
<1>3. /\ DOMAIN devices' = DOMAIN devices \cup {s}
      /\ \A u \in DOMAIN devices' : devices'[u].peers = Tracking(s)[u].peers
  BY <1>1, <1>2, TrackingShape DEF SeriesInv, Device
<1>4. \A u \in DOMAIN devices' :
        \/ devices'[u].peers = {}
        \/ u \in DOMAIN devices /\ devices'[u].peers = devices[u].peers
  <2>1. /\ \A u \in DOMAIN devices : Tracking(s)[u] = devices[u]
        /\ s \notin DOMAIN devices => Tracking(s)[s] = NewSeries
    BY <1>1, TrackingShape DEF SeriesInv
  <2> QED
    BY <1>3, <2>1 DEF NewSeries
<1>5. \A g \in Handlers : job'[g].pc # "idle" => job[g].pc # "idle" /\ job'[g].sn = job[g].sn
  BY <1>1 DEF update_config, EntryDone, SeriesInv, Shape
<1>6. registry'.sn \subseteq registry.sn \cup {s}
  BY <1>2 DEF SeriesInv, Shape
<1> QED
  BY <1>1, <1>3, <1>4, <1>5, <1>6, WorkCap

LEMMA QuietCap ==
  ASSUME SeriesInv, CapInv, NEW h \in Handlers,
         DropEntry(h) \/ ConfigGauges(h) \/ mark_seen(h)
  PROVE  CapInv'
<1>1. UNCHANGED <<cap, devices>> /\ job[h].pc # "idle"
  BY DEF DropEntry, ConfigGauges, mark_seen, AtEntry
<1>2. registry'.sn \subseteq registry.sn \cup {job[h].sn}
  BY DEF DropEntry, ConfigGauges, mark_seen, SeriesInv, Shape
<1>3. \A g \in Handlers : job'[g].pc # "idle" => job[g].pc # "idle" /\ job'[g].sn = job[g].sn
  BY <1>1 DEF DropEntry, ConfigGauges, mark_seen, EntryDone, Continue, Idle, SeriesInv, Shape
<1> QED
  BY <1>1, <1>2, <1>3, WorkCap

LEMMA NextCap == SeriesInv /\ CapInv /\ [Next]_vars => CapInv'
<1> SUFFICES ASSUME SeriesInv, CapInv, [Next]_vars PROVE CapInv'
  OBVIOUS
<1>1. CASE Restart
  BY <1>1, RestartCap
<1>2. ASSUME NEW h \in Handlers, Step(h) PROVE CapInv'
  <2>1. CASE RejectSerial(h) \/ RefuseDevice(h)
    BY <2>1 DEF RejectSerial, RefuseDevice, CapInv, Published, SlotsHeld, Unlimited
  <2>2. CASE admit(h)
    BY <2>2, AdmitCap
  <2>3. CASE DropEntry(h) \/ ConfigGauges(h) \/ mark_seen(h)
    BY <2>3, QuietCap
  <2>4. CASE update_realtime(h)
    BY <2>4, RealtimeCap
  <2>5. CASE accumulate_coulombs(h)
    BY <2>5, ReportCap
  <2>6. CASE update_config(h)
    BY <2>6, ConfigCap
  <2> QED
    BY <1>2, <2>1, <2>2, <2>3, <2>4, <2>5, <2>6 DEF Step
<1>3. CASE UNCHANGED vars
  BY <1>3 DEF vars, CapInv, Published, SlotsHeld, Unlimited
<1> QED
  BY <1>1, <1>2, <1>3 DEF Next

LEMMA CapAlways == Spec => [](SeriesInv /\ CapInv)
BY InitSeries, InitCap, NextSeries, NextCap, PTL DEF Spec

\* The peer series are those of the last report of each device, within the
\* limit of a report: publish_calibration and peer_max_published.
THEOREM PeerSeriesTheorem == Spec => []PeerSeriesFollowReports
<1>1. SeriesInv /\ CapInv => PeerSeriesFollowReports
  <2> SUFFICES ASSUME SeriesInv, CapInv PROVE PeerSeriesFollowReports
    OBVIOUS
  <2>1. ASSUME NEW x
        PROVE  x \in registry.peers <=>
                 \E s \in DOMAIN devices : \E p \in devices[s].peers : x = <<s, p>>
    <3>1. \A s \in DOMAIN devices : s \in Serials /\ devices[s].peers \subseteq Serials
      BY DEF SeriesInv, Shape, Device
    <3>2. x \in registry.peers => x \in Serials \X Serials
      BY DEF SeriesInv, Shape
    <3> QED
      BY <3>1, <3>2 DEF SeriesInv, PeersAgree
  <2>2. registry.peers = UNION {{<<s, p>> : p \in devices[s].peers} : s \in DOMAIN devices}
    BY <2>1
  <2> QED
    BY <2>2 DEF PeerSeriesFollowReports, CapInv, Published
<1> QED
  BY <1>1, CapAlways, PTL

\* admit bounds the label values: under a cap every series of every family
\* carries one of at most max_devices serials.
THEOREM CardinalityTheorem == Spec => []CardinalityBound
<1>1. SeriesInv /\ CapInv => CardinalityBound
  <2> SUFFICES ASSUME SeriesInv, CapInv, ~Unlimited PROVE CardinalityBound
    BY DEF CardinalityBound
  <2>1. Cardinality(DOMAIN devices) <= cap /\ SlotsHeld
    BY DEF CapInv
  <2>2. \A x \in registry.cells : x[1] \in DOMAIN devices
    BY DEF SeriesInv, Shape, CellsAgree
  <2>3. \A x \in registry.info : x[1] \in DOMAIN devices
    <3> TAKE x \in registry.info
    <3>1. PICK s \in DOMAIN devices : x = devices[s].info /\ x # NoInfo
      BY DEF SeriesInv, InfoAgrees
    <3>2. x \in Infos(s)
      BY <3>1 DEF SeriesInv, Shape, Device
    <3> QED
      BY <3>2 DEF Infos
  <2>4. \A x \in registry.peers : {x[1], x[2]} \subseteq DOMAIN devices
    BY <2>1 DEF SeriesInv, Shape, PeersAgree, SlotsHeld
  <2> QED
    BY <2>1, <2>2, <2>3, <2>4 DEF CardinalityBound, SlotsHeld
<1> QED
  BY <1>1, CapAlways, PTL

-----------------------------------------------------------------------------
(***************************************************************************)
(* Sums over a finite set.  EveryEntryCounted sums over the handlers with  *)
(* a fold that recurses on subsets; that such a function exists, and that  *)
(* it does not matter which element it takes first, is shown by looking at *)
(* a smallest subset for which it would fail.                              *)
(***************************************************************************)

\* The element the fold takes next, and its recursion.
Picked(s) == CHOOSE x \in s : TRUE
Sums(f, g, S) ==
  f = [s \in SUBSET S |-> IF s = {} THEN 0 ELSE g[Picked(s)] + f[s \ {Picked(s)}]]

LEMMA PickedIn == ASSUME NEW s, s # {} PROVE Picked(s) \in s
  BY DEF Picked

\* Of the subsets of a finite set that have some property, one is smallest.
LEMMA SmallestSubset ==
  ASSUME NEW S, IsFiniteSet(S), NEW Bad, Bad \subseteq SUBSET S, Bad # {}
  PROVE  \E T \in Bad : \A U \in Bad : ~(U \subseteq T /\ U # T)
<1>1. IsWellFoundedOn(StrictSubsetOrdering(S), FiniteSubsetsOf(S))
  BY FS_StrictSubsetOrderingWellFounded
<1>2. Bad \subseteq FiniteSubsetsOf(S)
  BY FS_FiniteSubsetsOfFinite
<1>3. PICK T \in Bad : \A U \in Bad : ~(<<U, T>> \in StrictSubsetOrdering(S))
  BY <1>1, <1>2, WFMin
<1> QED BY <1>3 DEF StrictSubsetOrdering

LEMMA SumsAt ==
  ASSUME NEW S, NEW f, NEW g, Sums(f, g, S)
  PROVE  \A s \in SUBSET S : f[s] = IF s = {} THEN 0 ELSE g[Picked(s)] + f[s \ {Picked(s)}]
<1> DEFINE E(u) == IF u = {} THEN 0 ELSE g[Picked(u)] + f[u \ {Picked(u)}]
<1>1. f = [u \in SUBSET S |-> E(u)]
  BY DEF Sums
<1> HIDE DEF E
<1>2. \A s \in SUBSET S : f[s] = E(s)
  BY <1>1
<1> QED BY <1>2 DEF E

LEMMA SumsAgree ==
  ASSUME NEW S, NEW R, IsFiniteSet(S), NEW f, NEW g, NEW e, NEW k,
         Sums(f, g, S), Sums(e, k, R)
  PROVE  \A T \in SUBSET (S \cap R) : (\A x \in T : g[x] = k[x]) => f[T] = e[T]
<1> SUFFICES ASSUME NEW T, T \subseteq S, T \subseteq R, \A x \in T : g[x] = k[x]
             PROVE  f[T] = e[T]
  OBVIOUS
<1> DEFINE Bad == {U \in SUBSET T : f[U] # e[U]}
<1>1. ASSUME Bad # {} PROVE FALSE
  <2>1. Bad \subseteq SUBSET S
    OBVIOUS
  <2>2. PICK U \in Bad : \A V \in Bad : ~(V \subseteq U /\ V # U)
    <3> HIDE DEF Bad
    <3> QED BY <1>1, <2>1, SmallestSubset
  <2>3. U \in SUBSET S /\ U \in SUBSET R /\ U \subseteq T /\ f[U] # e[U]
    BY <2>2
  <2>6. /\ f[U] = IF U = {} THEN 0 ELSE g[Picked(U)] + f[U \ {Picked(U)}]
        /\ e[U] = IF U = {} THEN 0 ELSE k[Picked(U)] + e[U \ {Picked(U)}]
    <3>1. \A V \in SUBSET S : f[V] = IF V = {} THEN 0 ELSE g[Picked(V)] + f[V \ {Picked(V)}]
      BY SumsAt
    <3>2. \A V \in SUBSET R : e[V] = IF V = {} THEN 0 ELSE k[Picked(V)] + e[V \ {Picked(V)}]
      BY SumsAt
    <3>3. U \in SUBSET S /\ U \in SUBSET R
      BY <2>3
    <3> HIDE DEF Bad
    <3> QED BY <3>1, <3>2, <3>3
  <2>4. CASE U = {}
    BY <2>3, <2>4, <2>6
  <2>5. CASE U # {}
    <3> DEFINE x == Picked(U)
               V == U \ {x}
    <3>1. x \in U
      BY <2>5, PickedIn
    <3>2. f[U] = g[x] + f[V] /\ e[U] = k[x] + e[V]
      BY <2>5, <2>6
    <3>3. f[V] = e[V]
      BY <2>2, <2>3, <3>1
    <3>4. g[x] = k[x]
      BY <2>3, <3>1
    <3> QED BY <2>3, <3>2, <3>3, <3>4
  <2> QED BY <2>4, <2>5
<1> QED BY <1>1

LEMMA SumsExist ==
  ASSUME NEW S, IsFiniteSet(S), NEW g
  PROVE  \E f : Sums(f, g, S)
<1> DEFINE Bad == {U \in SUBSET S : ~\E f : Sums(f, g, U)}
<1>1. ASSUME Bad # {} PROVE FALSE
  <2>1. PICK T \in Bad : \A V \in Bad : ~(V \subseteq T /\ V # T)
    <3>1. Bad \subseteq SUBSET S
      OBVIOUS
    <3> HIDE DEF Bad
    <3> QED BY <1>1, <3>1, SmallestSubset
  <2>2. T \subseteq S /\ ~\E f : Sums(f, g, T)
    BY <2>1
  <2>3. ASSUME NEW U, U \subseteq T, U # T PROVE \E f : Sums(f, g, U)
    BY <2>1, <2>2, <2>3
  <2> DEFINE H(u) == (CHOOSE f : Sums(f, g, u))[u]
             E(u) == IF u = {} THEN 0 ELSE g[Picked(u)] + H(u \ {Picked(u)})
             F == [u \in SUBSET T |-> E(u)]
  <2>4. ASSUME NEW u, u \subseteq T, u # T PROVE H(u) = E(u)
    <3>1. PICK f : f = (CHOOSE h : Sums(h, g, u)) /\ Sums(f, g, u)
      BY <2>3, <2>4
    <3>2. CASE u = {}
      BY <3>1, <3>2, SumsAt
    <3>3. CASE u # {}
      <4> DEFINE v == u \ {Picked(u)}
      <4>1. Picked(u) \in u
        BY <3>3, PickedIn
      <4>2. f[u] = g[Picked(u)] + f[v]
        BY <3>1, <3>3, SumsAt
      <4>3. v \subseteq T /\ v # T /\ v \subseteq u
        BY <2>4, <4>1
      <4>4. PICK e : e = (CHOOSE h : Sums(h, g, v)) /\ Sums(e, g, v)
        BY <2>3, <4>3
      <4>5. IsFiniteSet(u)
        BY <2>2, <2>4, FS_Subset
      <4>6. f[v] = e[v]
        <5> HIDE DEF v
        <5>1. \A w \in SUBSET (u \cap v) : (\A x \in w : g[x] = g[x]) => f[w] = e[w]
          BY <3>1, <4>4, <4>5, SumsAgree
        <5> QED BY <4>3, <5>1
      <4> QED BY <3>1, <3>3, <4>2, <4>4, <4>6
    <3> QED BY <3>2, <3>3
  <2>5. ASSUME NEW u \in SUBSET T
        PROVE  E(u) = IF u = {} THEN 0 ELSE g[Picked(u)] + F[u \ {Picked(u)}]
    <3>1. CASE u = {}
      BY <3>1
    <3>2. CASE u # {}
      <4> DEFINE v == u \ {Picked(u)}
      <4>1. Picked(u) \in u
        BY <3>2, PickedIn
      <4>2. v \in SUBSET T /\ v # T
        BY <4>1
      <4>3. H(v) = E(v)
        <5> HIDE DEF v, H, E
        <5> QED BY <2>4, <4>2
      <4>4. F[v] = E(v)
        <5> HIDE DEF v, E
        <5> QED BY <4>2
      <4>5. E(u) = g[Picked(u)] + H(v)
        BY <3>2
      <4> HIDE DEF E, F, H
      <4> QED BY <3>2, <4>3, <4>4, <4>5
    <3> QED BY <3>1, <3>2
  <2>6. F = [u \in SUBSET T |-> IF u = {} THEN 0 ELSE g[Picked(u)] + F[u \ {Picked(u)}]]
    <3> DEFINE D(u) == IF u = {} THEN 0 ELSE g[Picked(u)] + F[u \ {Picked(u)}]
    <3>1. \A u \in SUBSET T : E(u) = D(u)
      BY <2>5
    <3>2. F = [u \in SUBSET T |-> E(u)]
      OBVIOUS
    <3>3. F = [u \in SUBSET T |-> D(u)]
      <4> HIDE DEF E, F, D
      <4> QED BY <3>1, <3>2
    <3> QED BY <3>3
  <2>7. Sums(F, g, T)
    <3> HIDE DEF F
    <3> QED BY <2>6 DEF Sums
  <2> QED BY <2>2, <2>7
<1>2. S \notin Bad
  BY <1>1
<1> QED BY <1>2

LEMMA SumsInt ==
  ASSUME NEW S, IsFiniteSet(S), NEW f, NEW g, Sums(f, g, S), \A x \in S : g[x] \in Int
  PROVE  \A s \in SUBSET S : f[s] \in Int
<1> DEFINE Bad == {U \in SUBSET S : f[U] \notin Int}
<1>1. ASSUME Bad # {} PROVE FALSE
  <2>1. PICK U \in Bad : \A V \in Bad : ~(V \subseteq U /\ V # U)
    <3>1. Bad \subseteq SUBSET S
      OBVIOUS
    <3> HIDE DEF Bad
    <3> QED BY <1>1, <3>1, SmallestSubset
  <2>2. f[U] = IF U = {} THEN 0 ELSE g[Picked(U)] + f[U \ {Picked(U)}]
    <3>1. U \in SUBSET S
      BY <2>1
    <3> HIDE DEF Bad
    <3> QED BY <3>1, SumsAt
  <2>3. CASE U # {}
    <3>1. Picked(U) \in U
      BY <2>3, PickedIn
    <3>2. f[U \ {Picked(U)}] \in Int
      BY <2>1, <3>1
    <3> QED BY <2>2, <2>3, <3>1, <3>2
  <2> QED BY <2>2, <2>3
<1> QED BY <1>1

\* Any element may be taken out first.
LEMMA SumsRemove ==
  ASSUME NEW S, IsFiniteSet(S), NEW f, NEW g, Sums(f, g, S), \A x \in S : g[x] \in Int
  PROVE  \A s \in SUBSET S, x \in S : x \in s => f[s] = g[x] + f[s \ {x}]
<1> DEFINE Bad == {U \in SUBSET S : ~\A x \in U : f[U] = g[x] + f[U \ {x}]}
<1>1. ASSUME Bad # {} PROVE FALSE
  <2>1. PICK U \in Bad : \A V \in Bad : ~(V \subseteq U /\ V # U)
    <3>1. Bad \subseteq SUBSET S
      OBVIOUS
    <3> HIDE DEF Bad
    <3> QED BY <1>1, <3>1, SmallestSubset
  <2>2. PICK x \in U : f[U] # g[x] + f[U \ {x}]
    BY <2>1
  <2> DEFINE p == Picked(U)
             W == (U \ {x}) \ {p}
  <2>3. p \in U
    BY <2>2, PickedIn
  <2>4. f[U] = g[p] + f[U \ {p}]
    <3>1. U \in SUBSET S /\ U # {}
      BY <2>1, <2>2
    <3>2. \A V \in SUBSET S : f[V] = IF V = {} THEN 0 ELSE g[Picked(V)] + f[V \ {Picked(V)}]
      BY SumsAt
    <3> HIDE DEF Bad
    <3> QED BY <3>1, <3>2
  <2>5. p # x
    BY <2>2, <2>4
  <2>6. ASSUME NEW V \in SUBSET U, V # U, NEW z \in V PROVE f[V] = g[z] + f[V \ {z}]
    BY <2>1, <2>6
  <2>7. f[U \ {p}] = g[x] + f[(U \ {p}) \ {x}]
    BY <2>2, <2>3, <2>5, <2>6
  <2>8. f[U \ {x}] = g[p] + f[W]
    BY <2>2, <2>3, <2>5, <2>6
  <2>9. (U \ {p}) \ {x} = W
    OBVIOUS
  <2>10. g[p] \in Int /\ g[x] \in Int /\ f[W] \in Int
    <3>1. W \in SUBSET S /\ p \in S /\ x \in S
      BY <2>1, <2>2, <2>3
    <3> QED BY <3>1, SumsInt
  <2> HIDE DEF p, W
  <2>11. f[U] = g[p] + (g[x] + f[W])
    BY <2>4, <2>7, <2>9
  <2>12. g[x] + f[U \ {x}] = g[x] + (g[p] + f[W])
    BY <2>8
  <2> QED BY <2>2, <2>10, <2>11, <2>12
<1> QED BY <1>1

-----------------------------------------------------------------------------
(***************************************************************************)
(* What the handlers still hold.                                           *)
(***************************************************************************)

HeldBy(j) == MapThenSumSet(LAMBDA h : j[h].left, Handlers)

Lefts(j) == [h \in Handlers |-> j[h].left]

LEMMA HeldSum ==
  ASSUME NEW j
  PROVE  \E f : Sums(f, Lefts(j), Handlers) /\ HeldBy(j) = f[Handlers]
<1> DEFINE Rule(f) ==
      f = [s \in SUBSET Handlers |->
             IF s = {} THEN 0
             ELSE j[CHOOSE x \in s : TRUE].left + f[s \ {CHOOSE x \in s : TRUE}]]
<1>1. ASSUME NEW f
      PROVE  Rule(f) <=> Sums(f, Lefts(j), Handlers)
  <2>1. \A s \in SUBSET Handlers :
          (IF s = {} THEN 0
           ELSE j[CHOOSE x \in s : TRUE].left + f[s \ {CHOOSE x \in s : TRUE}])
          = (IF s = {} THEN 0 ELSE Lefts(j)[Picked(s)] + f[s \ {Picked(s)}])
    <3> TAKE s \in SUBSET Handlers
    <3>1. CASE s = {}
      BY <3>1
    <3>2. CASE s # {}
      <4>1. Picked(s) \in Handlers
        BY <3>2, PickedIn
      <4>2. Lefts(j)[Picked(s)] = j[Picked(s)].left
        BY <4>1 DEF Lefts
      <4> QED BY <3>2, <4>2 DEF Picked
    <3> QED BY <3>1, <3>2
  <2> QED BY <2>1 DEF Sums
<1>2. \E f : Rule(f)
  <2>1. PICK f : Sums(f, Lefts(j), Handlers)
    BY SumsExist, IngestAssumption
  <2>2. Rule(f)
    BY <1>1, <2>1
  <2> QED BY <2>2
<1>3. Rule(CHOOSE f : Rule(f)) BY <1>2
<1>4. HeldBy(j) = (CHOOSE f : Rule(f))[Handlers]
  BY DEF HeldBy, MapThenSumSet, MapThenFoldSet
<1> HIDE DEF Rule
<1> QED BY <1>1, <1>3, <1>4

\* One handler at work changes the sum by what its own share changes.
LEMMA HeldChange ==
  ASSUME NEW j, NEW k, NEW h \in Handlers,
         \A g \in Handlers : j[g].left \in Int /\ k[g].left \in Int,
         \A g \in Handlers : g # h => k[g].left = j[g].left
  PROVE  HeldBy(j) \in Int /\ HeldBy(k) = HeldBy(j) + (k[h].left - j[h].left)
<1>1. PICK f : Sums(f, Lefts(j), Handlers) /\ HeldBy(j) = f[Handlers]
  BY HeldSum
<1>2. PICK e : Sums(e, Lefts(k), Handlers) /\ HeldBy(k) = e[Handlers]
  BY HeldSum
<1>3. \A g \in Handlers : /\ Lefts(j)[g] = j[g].left /\ Lefts(j)[g] \in Int
                          /\ Lefts(k)[g] = k[g].left /\ Lefts(k)[g] \in Int
  BY DEF Lefts
<1> DEFINE rest == Handlers \ {h}
<1>4. f[Handlers] = j[h].left + f[rest] /\ f[rest] \in Int
  <2>1. \A s \in SUBSET Handlers, x \in Handlers :
          x \in s => f[s] = Lefts(j)[x] + f[s \ {x}]
    <3>1. IsFiniteSet(Handlers) /\ Sums(f, Lefts(j), Handlers)
      BY <1>1, IngestAssumption
    <3>2. \A x \in Handlers : Lefts(j)[x] \in Int
      BY <1>3
    <3> DEFINE a == Lefts(j)
    <3> HIDE DEF a
    <3>3. Sums(f, a, Handlers) /\ \A x \in Handlers : a[x] \in Int
      BY <3>1, <3>2 DEF a
    <3>4. \A s \in SUBSET Handlers, x \in Handlers : x \in s => f[s] = a[x] + f[s \ {x}]
      BY <3>1, <3>3, SumsRemove
    <3> QED BY <3>4 DEF a
  <2>2. \A s \in SUBSET Handlers : f[s] \in Int
    BY <1>1, <1>3, SumsInt, IngestAssumption
  <2>3. f[Handlers] = Lefts(j)[h] + f[Handlers \ {h}] /\ f[Handlers \ {h}] \in Int
    BY <2>1, <2>2
  <2>4. Lefts(j)[h] = j[h].left
    BY <1>3
  <2> QED BY <2>3, <2>4
<1>5. e[Handlers] = k[h].left + e[rest]
  <2>1. \A s \in SUBSET Handlers, x \in Handlers :
          x \in s => e[s] = Lefts(k)[x] + e[s \ {x}]
    <3>1. IsFiniteSet(Handlers) /\ Sums(e, Lefts(k), Handlers)
      BY <1>2, IngestAssumption
    <3>2. \A x \in Handlers : Lefts(k)[x] \in Int
      BY <1>3
    <3> DEFINE a == Lefts(k)
    <3> HIDE DEF a
    <3>3. Sums(e, a, Handlers) /\ \A x \in Handlers : a[x] \in Int
      BY <3>1, <3>2 DEF a
    <3>4. \A s \in SUBSET Handlers, x \in Handlers : x \in s => e[s] = a[x] + e[s \ {x}]
      BY <3>1, <3>3, SumsRemove
    <3> QED BY <3>4 DEF a
  <2>2. e[Handlers] = Lefts(k)[h] + e[Handlers \ {h}]
    BY <2>1
  <2>3. Lefts(k)[h] = k[h].left
    BY <1>3
  <2> QED BY <2>2, <2>3
<1>6. f[rest] = e[rest]
  <2> DEFINE a == Lefts(j)
             b == Lefts(k)
  <2>1. rest \subseteq Handlers /\ \A x \in rest : a[x] = b[x]
    BY <1>3
  <2>2. Sums(f, a, Handlers) /\ Sums(e, b, Handlers) /\ IsFiniteSet(Handlers)
    BY <1>1, <1>2, IngestAssumption
  <2> HIDE DEF rest, a, b
  <2>3. \A T \in SUBSET (Handlers \cap Handlers) : (\A x \in T : a[x] = b[x]) => f[T] = e[T]
    BY <2>2, SumsAgree
  <2> QED BY <2>1, <2>3
<1> HIDE DEF rest
<1>7. k[h].left \in Int /\ j[h].left \in Int
  OBVIOUS
<1> QED BY <1>1, <1>2, <1>4, <1>5, <1>6, <1>7

\* Idle handlers hold nothing.
LEMMA HeldNone ==
  ASSUME NEW j, \A g \in Handlers : j[g].left = 0
  PROVE  HeldBy(j) = 0
<1>1. PICK f : Sums(f, Lefts(j), Handlers) /\ HeldBy(j) = f[Handlers]
  BY HeldSum
<1> DEFINE e == [s \in SUBSET Handlers |-> 0]
<1>2. \A g \in Handlers : Lefts(j)[g] = 0
  BY DEF Lefts
<1>3. Sums(e, Lefts(j), Handlers)
  <2>1. \A s \in SUBSET Handlers :
          0 = IF s = {} THEN 0 ELSE Lefts(j)[Picked(s)] + e[s \ {Picked(s)}]
    <3> TAKE s \in SUBSET Handlers
    <3>1. CASE s = {}
      BY <3>1
    <3>2. CASE s # {}
      <4>1. Picked(s) \in s
        BY <3>2, PickedIn
      <4> QED BY <1>2, <3>2, <4>1
    <3> QED BY <3>1, <3>2
  <2> QED BY <2>1 DEF Sums
<1>4. e[Handlers] = 0
  OBVIOUS
<1> DEFINE a == Lefts(j)
<1>5. /\ Sums(f, a, Handlers) /\ Sums(e, a, Handlers) /\ IsFiniteSet(Handlers)
  BY <1>1, <1>3, IngestAssumption
<1> HIDE DEF e, a
<1>6. \A T \in SUBSET (Handlers \cap Handlers) : (\A x \in T : a[x] = a[x]) => f[T] = e[T]
  BY <1>5, SumsAgree
<1>7. f[Handlers] = e[Handlers]
  BY <1>5, <1>6
<1> QED BY <1>1, <1>4, <1>7

Atoms == {"idle", "entries", "accumulate", "config"}

\* A handler past an entry's first step still has that entry to count, and an
\* idle one holds nothing.
WorkInv ==
  /\ job \in [Handlers -> [pc : Atoms, sn : Serials \cup {NoIdentity}, left : 0..MaxEntries]]
  /\ \A h \in Handlers :
       /\ job[h].pc = "idle" => job[h].left = 0
       /\ job[h].pc \in {"accumulate", "config"} => job[h].left > 0

CountInv == WorkInv /\ balance = HeldBy(job)

LEMMA InitCount == Init => CountInv
<1> SUFFICES ASSUME Init PROVE CountInv
  OBVIOUS
<1>1. WorkInv /\ \A h \in Handlers : job[h].left = 0
  BY IngestAssumption DEF Init, Idle, WorkInv, Atoms
<1>2. HeldBy(job) = 0
  BY <1>1, HeldNone
<1> QED BY <1>1, <1>2 DEF Init, CountInv

\* What is posted for a refused body is dropped with it.
LEMMA RefusedCancels ==
  ASSUME NEW n \in 0..MaxEntries, NEW b \in Int
  PROVE  b + Posted(n) - Dropped(n) = b
<1>1. Posted(n) \in Int /\ Dropped(n) = Posted(n)
  <2>1. \E x \in {n, 1} : \A y \in {n, 1} : x >= y
    BY IngestAssumption
  <2>2. Max({n, 1}) \in {n, 1}
    BY <2>1 DEF Max
  <2> QED BY <2>2, IngestAssumption DEF Posted, Dropped
<1> QED BY <1>1

\* The sum is an integer, and one handler's step changes it by its own share.
LEMMA OneWorker ==
  ASSUME WorkInv, WorkInv', NEW h \in Handlers,
         \A g \in Handlers : g # h => job'[g] = job[g]
  PROVE  HeldBy(job) \in Int /\ HeldBy(job)' = HeldBy(job) + (job'[h].left - job[h].left)
<1>1. \A g \in Handlers : job[g].left \in Int /\ job'[g].left \in Int
  BY IngestAssumption DEF WorkInv
<1>2. \A g \in Handlers : g # h => job'[g].left = job[g].left
  OBVIOUS
<1>3. HeldBy(job') = HeldBy(job) + (job'[h].left - job[h].left) /\ HeldBy(job) \in Int
  <2>1. \A j, k : (/\ \A g \in Handlers : j[g].left \in Int /\ k[g].left \in Int
                   /\ \A g \in Handlers : g # h => k[g].left = j[g].left)
                  => HeldBy(j) \in Int /\ HeldBy(k) = HeldBy(j) + (k[h].left - j[h].left)
    BY HeldChange
  <2> QED BY <1>1, <1>2, <2>1
<1> QED BY <1>3

LEMMA DoneCount ==
  ASSUME CountInv, NEW h \in Handlers, job[h].left > 0, EntryDone(h)
  PROVE  CountInv'
<1>1. WorkInv'
  BY IngestAssumption DEF CountInv, WorkInv, EntryDone, Atoms
<1>2. /\ \A g \in Handlers : g # h => job'[g] = job[g]
      /\ job'[h].left = job[h].left - 1 /\ job[h].left \in Int
  BY IngestAssumption DEF CountInv, WorkInv, EntryDone
<1>3. HeldBy(job) \in Int /\ HeldBy(job)' = HeldBy(job) + (job'[h].left - job[h].left)
  BY <1>1, <1>2, OneWorker DEF CountInv
<1> QED BY <1>1, <1>2, <1>3 DEF CountInv, EntryDone

LEMMA ContinueCount ==
  ASSUME CountInv, NEW h \in Handlers, job[h].left > 0,
         NEW pc \in {"accumulate", "config"}, Continue(h, pc)
  PROVE  CountInv'
<1>1. WorkInv'
  BY DEF CountInv, WorkInv, Continue, Atoms
<1>2. /\ \A g \in Handlers : g # h => job'[g] = job[g]
      /\ job'[h].left = job[h].left /\ job[h].left \in Int
  BY IngestAssumption DEF CountInv, WorkInv, Continue
<1>3. HeldBy(job) \in Int /\ HeldBy(job)' = HeldBy(job) + (job'[h].left - job[h].left)
  BY <1>1, <1>2, OneWorker DEF CountInv
<1> QED BY <1>1, <1>2, <1>3 DEF CountInv, Continue

LEMMA AdmitCount ==
  ASSUME CountInv, NEW h \in Handlers, admit(h)
  PROVE  CountInv'
<1>1. PICK s \in Serials, n \in 0..MaxEntries :
        /\ job' = [job EXCEPT ![h] = [pc |-> "entries", sn |-> s, left |-> n]]
        /\ balance' = balance + n
  BY DEF admit
<1>2. job[h].left = 0
  BY DEF admit, CountInv, WorkInv
<1>3. WorkInv'
  BY <1>1 DEF CountInv, WorkInv, Atoms
<1>4. /\ \A g \in Handlers : g # h => job'[g] = job[g]
      /\ job'[h].left = n
  BY <1>1 DEF CountInv, WorkInv
<1>5. HeldBy(job) \in Int /\ HeldBy(job)' = HeldBy(job) + (job'[h].left - job[h].left)
  BY <1>3, <1>4, OneWorker DEF CountInv
<1> QED BY <1>1, <1>2, <1>3, <1>4, <1>5 DEF CountInv

LEMMA SeenCount ==
  ASSUME CountInv, NEW h \in Handlers, mark_seen(h)
  PROVE  CountInv'
<1>1. WorkInv'
  BY IngestAssumption DEF CountInv, WorkInv, mark_seen, Idle, Atoms
<1>2. /\ \A g \in Handlers : g # h => job'[g] = job[g]
      /\ job'[h].left = 0 /\ job[h].left = 0
  BY DEF CountInv, WorkInv, mark_seen, Idle
<1>3. HeldBy(job) \in Int /\ HeldBy(job)' = HeldBy(job) + (job'[h].left - job[h].left)
  BY <1>1, <1>2, OneWorker DEF CountInv
<1> QED BY <1>1, <1>2, <1>3 DEF CountInv, mark_seen

\* A step that leaves the handlers and the count alone.
LEMMA QuietCount ==
  ASSUME CountInv, UNCHANGED <<job, balance>>
  PROVE  CountInv'
BY DEF CountInv, WorkInv

LEMMA RefuseCount ==
  ASSUME CountInv, NEW h \in Handlers, RejectSerial(h) \/ RefuseDevice(h)
  PROVE  CountInv'
<1>1. PICK n \in 0..MaxEntries : balance' = balance + Posted(n) - Dropped(n)
  BY DEF RejectSerial, RefuseDevice
<1>2. UNCHANGED job
  BY DEF RejectSerial, RefuseDevice
<1>3. balance \in Int
  BY <1>2, OneWorker DEF CountInv, WorkInv
<1>4. balance' = balance
  BY <1>1, <1>3, RefusedCancels
<1> QED BY <1>2, <1>4, QuietCount

LEMMA RestartCount == ASSUME Restart PROVE CountInv'
<1>1. WorkInv' /\ \A h \in Handlers : job'[h].left = 0
  BY IngestAssumption DEF Restart, Idle, WorkInv, Atoms
<1>2. HeldBy(job') = 0
  <2>1. \A j : (\A h \in Handlers : j[h].left = 0) => HeldBy(j) = 0
    BY HeldNone
  <2> QED BY <1>1, <2>1
<1> QED BY <1>1, <1>2 DEF Restart, CountInv

LEMMA NextCount == CountInv /\ [Next]_vars => CountInv'
<1> SUFFICES ASSUME CountInv, [Next]_vars PROVE CountInv'
  OBVIOUS
<1>1. CASE Restart
  BY <1>1, RestartCount
<1>2. ASSUME NEW h \in Handlers, Step(h) PROVE CountInv'
  <2>1. CASE RejectSerial(h) \/ RefuseDevice(h)
    BY <2>1, RefuseCount
  <2>2. CASE admit(h)
    BY <2>2, AdmitCount
  <2>3. CASE DropEntry(h)
    BY <2>3, DoneCount DEF DropEntry, AtEntry
  <2>4. CASE update_realtime(h)
    <3>1. job[h].left > 0 /\ (Continue(h, "accumulate") \/ EntryDone(h))
      BY <2>4 DEF update_realtime, AtEntry
    <3> QED BY <3>1, DoneCount, ContinueCount
  <2>5. CASE accumulate_coulombs(h) \/ update_config(h)
    <3>1. job[h].left > 0 /\ EntryDone(h)
      BY <2>5 DEF accumulate_coulombs, update_config, CountInv, WorkInv
    <3> QED BY <3>1, DoneCount
  <2>6. CASE ConfigGauges(h)
    <3>1. job[h].left > 0 /\ Continue(h, "config")
      BY <2>6 DEF ConfigGauges, AtEntry
    <3> QED BY <3>1, ContinueCount
  <2>7. CASE mark_seen(h)
    BY <2>7, SeenCount
  <2> QED
    BY <1>2, <2>1, <2>2, <2>3, <2>4, <2>5, <2>6, <2>7 DEF Step
<1>3. CASE UNCHANGED vars
  BY <1>3, QuietCount DEF vars
<1> QED
  BY <1>1, <1>2, <1>3 DEF Next

LEMMA CountAlways == Spec => []CountInv
BY InitCount, NextCount, PTL DEF Spec

\* Every entry of every body is counted once, as decoded or dropped with its
\* reason, however the handlers interleave: what is posted and not yet counted
\* is what they still hold, and refused bodies leave no trace in the sum.
THEOREM CountTheorem == Spec => []EveryEntryCounted
<1>1. CountInv => EveryEntryCounted
  BY DEF CountInv, HeldBy, EveryEntryCounted
<1> QED
  BY <1>1, CountAlways, PTL

-----------------------------------------------------------------------------
(***************************************************************************)
(* The type invariant: a device holds the cells of one frame, and is never *)
(* its own peer.                                                           *)
(***************************************************************************)

DevInv ==
  \A s \in DOMAIN devices :
    /\ devices[s].cells \in CellSets \cup {{}}
    /\ devices[s].peers \subseteq Serials \ {s}

\* Whatever a step puts in place comes from a frame, a report or the default.
LEMMA DevStep ==
  ASSUME SeriesInv, DevInv,
         \A u \in DOMAIN devices' :
           /\ \/ devices'[u].cells \in CellSets \cup {{}}
              \/ u \in DOMAIN devices /\ devices'[u].cells = devices[u].cells
           /\ \/ devices'[u].peers = {}
              \/ u \in DOMAIN devices /\ devices'[u].peers = devices[u].peers
              \/ devices'[u].peers \in Reportable(u)
  PROVE  DevInv'
<1>1. \A u : Reportable(u) \subseteq SUBSET (Serials \ {u})
  BY DEF Reportable, SeriesInv, Shape
<1> QED
  BY <1>1 DEF DevInv

\* The entry a step starts from.
LEMMA TrackedDevice ==
  ASSUME SeriesInv, NEW s \in Serials
  PROVE  /\ DOMAIN Tracking(s) = DOMAIN devices \cup {s}
         /\ \A u \in DOMAIN Tracking(s) :
              /\ Tracking(s)[u] \in Device(u)
              /\ \/ Tracking(s)[u].cells = {} /\ Tracking(s)[u].peers = {}
                 \/ u \in DOMAIN devices /\ Tracking(s)[u] = devices[u]
BY TrackingShape DEF SeriesInv, NewSeries

LEMMA AdmitDev ==
  ASSUME SeriesInv, DevInv, NEW h \in Handlers, admit(h)
  PROVE  DevInv'
<1>1. PICK s \in Serials : devices' = Reserved(s)
  BY DEF admit
<1>2. CASE Unlimited
  BY <1>1, <1>2 DEF Reserved, DevInv
<1>3. CASE ~Unlimited
  BY <1>1, <1>3, TrackedDevice, DevStep DEF Reserved
<1> QED
  BY <1>2, <1>3

LEMMA RealtimeDev ==
  ASSUME SeriesInv, DevInv, NEW h \in Handlers, update_realtime(h)
  PROVE  DevInv'
<1> DEFINE s == job[h].sn
           known == Tracking(s)
<1>1. s \in Serials
  BY DEF SeriesInv, Shape, update_realtime, AtEntry
<1>2. PICK cells \in CellSets, identity \in Identities \cup {NoIdentity} :
        devices' = [known EXCEPT ![s].cells = cells, ![s].identity = identity]
  BY DEF update_realtime
<1>3. /\ DOMAIN known = DOMAIN devices \cup {s}
      /\ \A u \in DOMAIN known :
           /\ known[u] \in Device(u)
           /\ \/ known[u].cells = {} /\ known[u].peers = {}
              \/ u \in DOMAIN devices /\ known[u] = devices[u]
  BY <1>1, TrackedDevice
<1>4. /\ DOMAIN devices' = DOMAIN known
      /\ \A u \in DOMAIN devices' : devices'[u].peers = known[u].peers
      /\ \A u \in DOMAIN devices' : u # s => devices'[u].cells = known[u].cells
      /\ devices'[s].cells = cells
  BY <1>2, <1>3 DEF Device
<1> QED
  BY <1>3, <1>4, DevStep

LEMMA ReportDev ==
  ASSUME SeriesInv, DevInv, NEW h \in Handlers, accumulate_coulombs(h)
  PROVE  DevInv'
<1> DEFINE s == job[h].sn
<1>1. s \in DOMAIN devices
  BY DEF SeriesInv, Shape, accumulate_coulombs
<1>2. PICK peers \in Reportable(s) : devices' = [devices EXCEPT ![s].peers = peers]
  BY DEF accumulate_coulombs
<1>3. /\ DOMAIN devices' = DOMAIN devices
      /\ \A u \in DOMAIN devices : devices'[u].cells = devices[u].cells
      /\ \A u \in DOMAIN devices : u # s => devices'[u].peers = devices[u].peers
      /\ devices'[s].peers = peers
  BY <1>1, <1>2 DEF SeriesInv, Shape, Device
<1> QED
  BY <1>3, DevStep

LEMMA ConfigDev ==
  ASSUME SeriesInv, DevInv, NEW h \in Handlers, update_config(h)
  PROVE  DevInv'
<1> DEFINE s == job[h].sn
           known == Tracking(s)
<1>1. s \in Serials
  BY DEF SeriesInv, Shape, update_config
<1>2. PICK labels : devices' = [known EXCEPT ![s].info = labels]
  BY DEF update_config
<1>3. /\ DOMAIN known = DOMAIN devices \cup {s}
      /\ \A u \in DOMAIN known :
           /\ known[u] \in Device(u)
           /\ \/ known[u].cells = {} /\ known[u].peers = {}
              \/ u \in DOMAIN devices /\ known[u] = devices[u]
  BY <1>1, TrackedDevice
<1>4. /\ DOMAIN devices' = DOMAIN known
      /\ \A u \in DOMAIN devices' : /\ devices'[u].peers = known[u].peers
                                    /\ devices'[u].cells = known[u].cells
  BY <1>2, <1>3 DEF Device
<1> QED
  BY <1>3, <1>4, DevStep

LEMMA NextDev == SeriesInv /\ DevInv /\ [Next]_vars => DevInv'
<1> SUFFICES ASSUME SeriesInv, DevInv, [Next]_vars PROVE DevInv'
  OBVIOUS
<1>1. CASE Restart
  BY <1>1 DEF Restart, Started, DevInv, NewSeries
<1>2. ASSUME NEW h \in Handlers, Step(h) PROVE DevInv'
  <2>1. CASE RejectSerial(h) \/ RefuseDevice(h) \/ DropEntry(h) \/ ConfigGauges(h)
             \/ mark_seen(h)
    BY <2>1 DEF RejectSerial, RefuseDevice, DropEntry, ConfigGauges, mark_seen, DevInv
  <2>2. CASE admit(h)
    BY <2>2, AdmitDev
  <2>3. CASE update_realtime(h)
    BY <2>3, RealtimeDev
  <2>4. CASE accumulate_coulombs(h)
    BY <2>4, ReportDev
  <2>5. CASE update_config(h)
    BY <2>5, ConfigDev
  <2> QED
    BY <1>2, <2>1, <2>2, <2>3, <2>4, <2>5 DEF Step
<1>3. CASE UNCHANGED vars
  BY <1>3 DEF vars, DevInv
<1> QED
  BY <1>1, <1>2, <1>3 DEF Next

\* Every device keeps the cells of one frame and a report that leaves the device
\* itself out, and every handler at work has a serial it was let in with and no
\* more entries than its body had.
THEOREM TypeTheorem == Spec => []TypeOK
<1>1. Init => DevInv
  BY DEF Init, DevInv
<1>2. SeriesInv /\ CapInv /\ CountInv /\ DevInv => TypeOK
  BY DEF SeriesInv, Shape, Device, CapInv, CountInv, WorkInv, Atoms, DevInv, TypeOK
<1> QED
  BY <1>1, <1>2, CapAlways, CountAlways, NextDev, PTL DEF Spec
=============================================================================
