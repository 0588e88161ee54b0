---------------------------- MODULE MCInstances ----------------------------
(* Two daemons that start twice each, two saves of the user.             *)
EXTENDS Instances

=============================================================================
