---------------------------- MODULE MCFeatureScan ----------------------------
(***************************************************************************)
(* FeatureScan with the chunks that start at First and go from lane to     *)
(* lane by one of the steps: every chunk of that form is scanned.          *)
(***************************************************************************)
EXTENDS FeatureScan

CONSTANTS First, Steps

\* Equal, neighbours, skipping one, and back by three: up to four blocks.
EightSteps == {-3, 0, 1, 2}

StepChunks ==
  {[l \in Lane |-> First + MapThenSumSet(LAMBDA m : s[m], 1 .. l)] :
     s \in [1 .. Vector - 1 -> Steps]}
=============================================================================
