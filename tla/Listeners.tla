----------------------------- MODULE Listeners -----------------------------
(***************************************************************************)
(* The listeners that watch the machine.  They are processes of their own  *)
(* and share nothing; a behaviour is that of one of them, with all that it *)
(* watches.                                                                *)
(***************************************************************************)
EXTENDS Sysfs, Wob, Battery, PipeWire

VARIABLE running     \* which of them

vars == <<running, sysfsVars, wobVars, batteryVars, pipeVars>>

\* The others do nothing and start from one state each.
One(S) == CHOOSE x \in S : TRUE
Init ==
  /\ running \in {"sysfs", "wob", "battery", "pipewire"}
  /\ SysfsInit
  /\ running = "sysfs" \/ (kind = One(Kinds) /\ present = {} /\ attribute = [d \in Devices |-> One(Levels)])
  /\ WobInit
  /\ running = "wob" \/ fifo.is = "other"
  /\ BatteryInit
  /\ running = "battery" \/ supply = [b \in Batteries |-> Missing]
  /\ PipeInit
  /\ running = "pipewire" \/ options = One(Options)

Next ==
  \/ running = "sysfs" /\ SysfsNext /\ UNCHANGED <<running, wobVars, batteryVars, pipeVars>>
  \/ running = "wob" /\ WobNext /\ UNCHANGED <<running, sysfsVars, batteryVars, pipeVars>>
  \/ running = "battery" /\ BatteryNext /\ UNCHANGED <<running, sysfsVars, wobVars, pipeVars>>
  \/ running = "pipewire" /\ PipeNext /\ UNCHANGED <<running, sysfsVars, wobVars, batteryVars>>

Spec == Init /\ [][Next]_vars
=============================================================================
