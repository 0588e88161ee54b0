------------------------------ MODULE MCRequests ------------------------------
(* Instances of Requests for TLC.  Clients are alike and so are pairs,     *)
(* which the safety run takes as symmetric.                               *)
EXTENDS Requests, TLC

MCStartsBroken == {{}, Palettes}
Symmetry       == Permutations(Clients) \cup Permutations(Pairs)

=============================================================================
