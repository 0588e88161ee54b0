------------------------------ MODULE MCHistory ------------------------------
(* Instances of History for TLC: two sources, two events, two listeners of *)
(* different lengths, limits that both bind.                               *)
EXTENDS History

MCSourceLen   == [s \in Sources |-> s]
MCEventLen    == [e \in Events |-> 1]
MCListenerLen == [l \in Listeners |-> IF l = CHOOSE x \in Listeners : TRUE
                                      THEN 1 ELSE 8]

=============================================================================
