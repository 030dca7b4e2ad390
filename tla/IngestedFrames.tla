--------------------------- MODULE IngestedFrames ---------------------------
(***************************************************************************)
(* Ingest over the frames that really come: what a realtime frame carries  *)
(* is what handle_entry decodes from the answer of a device, whatever the  *)
(* device put into it.                                                     *)
(***************************************************************************)
EXTENDS Ingest, Frames

\* Every set of cells is what handle_entry finds in some answer.
CellsOfAnswers(sets) ==
  \A cells \in sets :
    \E command, raw \in Seq(Nat) :
      LET entry == handle_entry(command, raw)
      IN  /\ entry.outcome = "realtime"
          /\ cells = DOMAIN entry.data.cells_v

\* The count register is the device's own word, and one that is out of range
\* may come with stale readings or other registers behind the real cells: a
\* cell series is still always that of one of the slots a frame has, of a
\* device that is tracked; under a cap of max_devices there are at most that
\* many times MaxCells of them.
SeriesInSlots ==
  /\ registry.cells \subseteq (DOMAIN devices) \X (1..MaxCells)
  /\ ~Unlimited => Cardinality(registry.cells) <= cap * MaxCells

=============================================================================
