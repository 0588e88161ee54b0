---------------------------- MODULE MCSupervisor ----------------------------
(* Instances of Supervisor for TLC: every policy, alone and beside another *)
(* listener, and one name repeated.                                        *)
EXTENDS Supervisor

Entry(n, policy) == [name |-> n, restart |-> policy]

MCExplicit ==
  LET first == CHOOSE n \in Names : TRUE
      other == CHOOSE n \in Names : n # first
  IN {<<>>, <<Entry(first, "always"), Entry(first, "never")>>}
       \cup {<<Entry(first, p)>> : p \in Policies}
       \cup {<<Entry(first, p), Entry(other, "on-failure")>> : p \in Policies}

MCBackoff == <<1, 2, 2>>

=============================================================================
