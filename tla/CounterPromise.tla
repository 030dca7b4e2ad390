--------------------------- MODULE CounterPromise ---------------------------
(***************************************************************************)
(* What /metrics promises Prometheus about a cumulative counter, with no   *)
(* word about files, locks or throttling.  metrics.rs states the promise   *)
(* in the comment of flush_coulomb_state: a counter that comes back lower  *)
(* after a restart is read as a reset, and the whole accumulated total is  *)
(* then added to increase().                                               *)
(*                                                                         *)
(*   - a served total never decreases, a restart of the exporter included; *)
(*   - a served total never exceeds what has been measured, but for the    *)
(*     one ULP by which bump_ulp raises a total at each restart.           *)
(***************************************************************************)
EXTENDS Naturals

CONSTANTS Serials,      \* BMS serial numbers
          Ulp           \* the rounding one restart may add to a total

VARIABLES live,         \* the exporter is serving
          measured,     \* [Serials -> Nat]: everything integrated so far
          total         \* [Serials -> Nat]: the exported counters

vars == <<live, measured, total>>

\* Pointwise order on the totals of all the serials.
Below(f, g) == \A s \in Serials : f[s] <= g[s]

Init ==
  /\ live = FALSE
  /\ measured \in [Serials -> Nat]
  /\ total = [s \in Serials |-> 0]

\* A frame is integrated; nothing is served yet.
Measure ==
  /\ live
  /\ measured' \in [Serials -> Nat]
  /\ Below(measured, measured')
  /\ UNCHANGED <<live, total>>

\* Counters rise, by no more than has been measured.
Publish ==
  /\ live
  /\ total' \in [Serials -> Nat]
  /\ Below(total, total')
  /\ Below(total', measured)
  /\ UNCHANGED <<live, measured>>

\* The exporter stops, in whatever way; what was measured but not published
\* may be forgotten at the next Start.
Stop ==
  /\ live
  /\ live' = FALSE
  /\ UNCHANGED <<measured, total>>

\* The exporter comes back with totals no lower than the ones it last served.
Start ==
  /\ ~live
  /\ live' = TRUE
  /\ total' \in [Serials -> Nat]
  /\ Below(total, total')
  /\ \A s \in Serials : total'[s] <= measured[s] + Ulp
  /\ measured' = total'

Next == Measure \/ Publish \/ Stop \/ Start

Spec == Init /\ [][Next]_vars
=============================================================================
