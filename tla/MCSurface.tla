------------------------------ MODULE MCSurface ------------------------------
(* Instances of Surface for TLC: durations of a few frames.                *)
EXTENDS Surface, TLC

MCTiming ==
  [t \in 0 .. 1 |->
     IF t = 0 THEN [fade_in |-> 1, show |-> 3, fade_out |-> 1, transition |-> 1]
              ELSE [fade_in |-> 2, show |-> 1, fade_out |-> 1, transition |-> 2]]

MCOverrides == {None, 4}
NoOverrides == {None}

(* Nothing tells one pair from another, and the safety run has no liveness.*)
PairSymmetry == Permutations(Pairs)

=============================================================================
