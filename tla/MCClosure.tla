------------------------------ MODULE MCClosure ------------------------------
(* A small pack whose window is a few frames wide. *)
EXTENDS Closure

SmallCurrents == {-1, 0, 1}
SmallArtifacts == {-1}

\* A quarter is forgotten per frame, a half over a full gap.
Fast == <<<<3, 4>>, <<1, 2>>>>

\* Forgetting that is slow against the frames there are.
Slow == <<<<1, 1>>, <<1, 1>>>>

\* Some property still speaks of the state.  What is lost here is never won
\* back, so that nothing a property speaks of lies behind a state left out.
StillTelling == seen.complete \/ fit.n = 0
=============================================================================
