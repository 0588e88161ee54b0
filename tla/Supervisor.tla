----------------------------- MODULE Supervisor -----------------------------
(***************************************************************************)
(* The supervisor of listener processes and the two threads that share it: *)
(* the tick thread, which reaps and respawns, and the signal thread, which *)
(* shuts down (awob-daemon/src/supervisor.rs and main.rs).                 *)
(*                                                                         *)
(* A tick holds the supervisor's lock throughout and is one action; the    *)
(* shutdown holds it over several, because time passes in it.  Times are   *)
(* relative: wait is what is left until next_attempt_at.                   *)
(***************************************************************************)
EXTENDS Naturals, Sequences, FiniteSets, SequencesExt

CONSTANTS
  Names,      \* names of listeners
  Known,      \* KNOWN_LISTENERS
  Explicit,   \* the [[listeners]] an awob.toml may have
  Backoff,    \* BACKOFF_MS, in ticks of the clock
  GRACE,      \* SHUTDOWN_GRACE, likewise
  None,
  MaxSpawns   \* bound of the model: processes of one name

Policies == {"always", "on-failure", "never"}
Config   == [name : Names, restart : Policies]

ASSUME SupervisorAssumption ==
  /\ Known \subseteq Names /\ IsFiniteSet(Known)
  /\ Explicit \subseteq Seq(Config)
  /\ Backoff \in Seq(Nat \ {0}) /\ Len(Backoff) > 0
  /\ \A i \in 1 .. Len(Backoff) : Backoff[i] >= Backoff[1]
  /\ GRACE \in Nat \ {0}
  /\ MaxSpawns \in Nat
  /\ None \notin Nat

VARIABLES
  configs,   \* the effective listeners
  started,   \* how many of them spawn_all has spawned
  children,  \* Supervisor.children
  procs,     \* the processes of each name in the order of their spawns
  ticker,    \* whether the tick thread runs
  stage,     \* "start", "run", "caught", "grace", "returned",
             \* "dead" (ended by itself or by a signal it waits for), "killed"
  left       \* what is left of the grace period

vars == <<configs, started, children, procs, ticker, stage, left>>

-----------------------------------------------------------------------------
(* build_effective_listeners: what is auto-discovered comes after what is  *)
(* explicit, and not under the same name; available are the known          *)
(* listeners that are neither disabled nor missing on disk.                *)
EffectiveListeners(explicit, auto, available) ==
  IF ~auto THEN explicit
  ELSE LET taken == {explicit[i].name : i \in DOMAIN explicit}
       IN explicit \o [i \in 1 .. Cardinality(available \ taken) |->
                         [name |-> SetToSeq(available \ taken)[i],
                          restart |-> "always"]]

-----------------------------------------------------------------------------
(* ChildState.                                                             *)

NewChild(policy) ==
  [policy |-> policy, process |-> None, backoff |-> 1, wait |-> 0,
   stopped |-> FALSE]

(* A restart is scheduled.                                                 *)
Delayed(c) ==
  [c EXCEPT !.wait = Backoff[c.backoff],
            !.backoff = IF @ < Len(Backoff) THEN @ + 1 ELSE @]

Restarts(policy, status) ==
  policy = "always" \/ (policy = "on-failure" /\ status = "failed")

Running(n, k) == procs[n][k].status = "running"

(* spawn_child, the process being the next of its name.                    *)
SpawnChild(c, n, spawned) ==
  IF spawned THEN [c EXCEPT !.process = Len(procs[n]) + 1, !.backoff = 1]
  ELSE Delayed(c)

(* Plausible bugs: every policy is "always"; the delay is forgotten.       *)
Reap_Always(n) ==
  LET c == children[n]
  IN IF c.process = None \/ Running(n, c.process) THEN c
     ELSE Delayed([c EXCEPT !.process = None])

Reap_NoDelay(n) ==
  LET c == children[n]
  IN IF c.process = None \/ Running(n, c.process) THEN c
     ELSE IF Restarts(c.policy, procs[n][c.process].status)
          THEN [c EXCEPT !.process = None]
          ELSE [c EXCEPT !.process = None, !.stopped = TRUE]

(* The first half of tick: try_wait, and what becomes of a child that has  *)
(* exited.                                                                 *)
Reap(n) ==
  LET c == children[n]
  IN IF c.process = None \/ Running(n, c.process) THEN c
     ELSE IF Restarts(c.policy, procs[n][c.process].status)
          THEN Delayed([c EXCEPT !.process = None])
          ELSE [c EXCEPT !.process = None, !.stopped = TRUE]

Due(c) == c.process = None /\ ~c.stopped /\ c.wait = 0

(* A plausible bug: only running children need the tick thread.            *)
NeedsPolling_Running(cs) == \E n \in DOMAIN cs : cs[n].process # None

NeedsPolling(cs) == \E n \in DOMAIN cs : ~cs[n].stopped

(* gone counts the ticks since the process exited, up to the least delay.  *)
Born == [status |-> "running", gone |-> 0]

Started(spawned) ==
  procs' = [n \in Names |-> IF n \in spawned THEN Append(procs[n], Born)
                            ELSE procs[n]]

(* Bound of the model: a spawn beyond the last fails.                      *)
CanSpawn == {n \in Names : Len(procs[n]) < MaxSpawns}

-----------------------------------------------------------------------------
Init ==
  /\ \E explicit \in Explicit, auto \in BOOLEAN, available \in SUBSET Known :
       configs = EffectiveListeners(explicit, auto, available)
  /\ started = 0
  /\ children = [n \in {} |-> None]
  /\ procs = [n \in Names |-> <<>>]
  /\ ticker = FALSE
  /\ stage = "start"
  /\ left = 0

(* spawn_all.  insert replaces a child of the same name, whose process     *)
(* goes on.                                                                *)
SpawnNext ==
  /\ stage = "start" /\ started < Len(configs)
  /\ LET cfg == configs[started + 1]
     IN \E spawned \in SUBSET ({cfg.name} \cap CanSpawn) :
          /\ children' =
               [n \in DOMAIN children \cup {cfg.name} |->
                  IF n = cfg.name
                  THEN SpawnChild(NewChild(cfg.restart), n, spawned # {})
                  ELSE children[n]]
          /\ Started(spawned)
  /\ started' = started + 1
  /\ UNCHANGED <<configs, ticker, stage, left>>

(* main starts the tick thread, if there is a use for it, and the signal   *)
(* thread.                                                                 *)
StartThreads ==
  /\ stage = "start" /\ started = Len(configs)
  /\ stage' = "run"
  /\ ticker' = NeedsPolling(children)
  /\ UNCHANGED <<configs, started, children, procs, left>>

LockFree == stage \in {"run", "caught", "returned"}

(* tick; spawned are the listeners whose spawn succeeds.                   *)
Tick(spawned) ==
  /\ ticker /\ LockFree
  /\ LET reaped == [n \in DOMAIN children |-> Reap(n)]
         due    == {n \in DOMAIN children : Due(reaped[n])}
     IN /\ spawned \subseteq due \cap CanSpawn
        /\ children' = [n \in DOMAIN children |->
                          IF n \in due
                          THEN SpawnChild(reaped[n], n, n \in spawned)
                          ELSE reaped[n]]
  /\ Started(spawned)
  /\ ticker' = NeedsPolling(children')
  /\ UNCHANGED <<configs, started, stage, left>>

(* The signal thread gets SIGINT or SIGTERM.                               *)
SignalCaught ==
  /\ stage = "run"
  /\ stage' = "caught"
  /\ UNCHANGED <<configs, started, children, procs, ticker, left>>

(* Only the signal thread blocks those signals: the kernel may give them   *)
(* to any other thread, and then the daemon dies of them.                  *)
SignalKills ==
  /\ stage \notin {"dead", "killed"}
  /\ stage' = "dead"
  /\ UNCHANGED <<configs, started, children, procs, ticker, left>>

(* SIGKILL, or a crash.                                                    *)
DaemonKilled ==
  /\ stage \notin {"dead", "killed"}
  /\ stage' = "killed"
  /\ UNCHANGED <<configs, started, children, procs, ticker, left>>

(* shutdown, up to the SIGTERM, which obliges a process to nothing.        *)
BeginShutdown ==
  /\ stage = "caught"
  /\ stage' = "grace"
  /\ left' = GRACE
  /\ UNCHANGED <<configs, started, children, procs, ticker>>

Alive(n) == children[n].process # None /\ Running(n, children[n].process)

AllExited ==
  /\ stage = "grace" /\ left > 0
  /\ \A n \in DOMAIN children : ~Alive(n)
  /\ stage' = "returned"
  /\ UNCHANGED <<configs, started, children, procs, ticker, left>>

(* A plausible bug: a child that is taken is not killed.                   *)
KillRest_Forgets ==
  /\ stage = "grace" /\ left = 0
  /\ children' = [n \in DOMAIN children |->
                    [children[n] EXCEPT !.process = None]]
  /\ stage' = "returned"
  /\ UNCHANGED <<configs, started, procs, ticker, left>>

(* The deadline has passed: take, try_wait, kill and wait.                 *)
KillRest ==
  /\ stage = "grace" /\ left = 0
  /\ children' = [n \in DOMAIN children |->
                    [children[n] EXCEPT !.process = None]]
  /\ procs' = [n \in Names |->
                 [k \in DOMAIN procs[n] |->
                    IF n \in DOMAIN children /\ k = children[n].process
                         /\ Running(n, k)
                    THEN [status |-> "failed", gone |-> 0]
                    ELSE procs[n][k]]]
  /\ stage' = "returned"
  /\ UNCHANGED <<configs, started, ticker, left>>

(* process::exit, some time after the lock is released.                    *)
Exit ==
  /\ stage = "returned"
  /\ stage' = "dead"
  /\ UNCHANGED <<configs, started, children, procs, ticker, left>>

(* A listener ends, by itself or because of a signal.                      *)
ListenerExits(n, k) ==
  /\ Running(n, k)
  /\ \E status \in {"ok", "failed"} :
       procs' = [procs EXCEPT ![n][k].status = status]
  /\ UNCHANGED <<configs, started, children, ticker, stage, left>>

Less1(i) == IF i > 0 THEN i - 1 ELSE 0

Elapse ==
  /\ stage \notin {"dead", "killed"}
  /\ children' = [n \in DOMAIN children |->
                    [children[n] EXCEPT !.wait = Less1(@)]]
  /\ procs' = [n \in Names |->
                 [k \in DOMAIN procs[n] |->
                    IF ~Running(n, k) /\ procs[n][k].gone < Backoff[1]
                    THEN [procs[n][k] EXCEPT !.gone = @ + 1]
                    ELSE procs[n][k]]]
  /\ left' = Less1(left)
  /\ UNCHANGED <<configs, started, ticker, stage>>

Next ==
  \/ SpawnNext
  \/ StartThreads
  \/ \E spawned \in SUBSET Names : Tick(spawned)
  \/ SignalCaught
  \/ SignalKills
  \/ DaemonKilled
  \/ BeginShutdown
  \/ AllExited
  \/ KillRest
  \/ Exit
  \/ \E n \in Names : \E k \in DOMAIN procs[n] : ListenerExits(n, k)
  \/ Elapse

Spec == Init /\ [][Next]_vars

(* The threads of the daemon run and time passes.  A spawn that is         *)
(* attempted again and again succeeds some time.                           *)
FairSpec ==
  /\ Spec
  /\ WF_vars(SpawnNext) /\ WF_vars(StartThreads)
  /\ WF_vars(\E spawned \in SUBSET Names : Tick(spawned))
  /\ \A n \in Names :
       SF_vars(\E spawned \in SUBSET Names : n \in spawned /\ Tick(spawned))
  /\ WF_vars(BeginShutdown \/ AllExited \/ KillRest)
  /\ WF_vars(Exit)
  /\ WF_vars(Elapse)

-----------------------------------------------------------------------------
(* Properties.                                                             *)

Child ==
  [policy : Policies, process : Nat \cup {None}, backoff : 1 .. Len(Backoff),
   wait : Nat, stopped : BOOLEAN]

TypeOK ==
  /\ configs \in Seq(Config)
  /\ started \in 0 .. Len(configs)
  /\ DOMAIN children \subseteq Names
  /\ \A n \in DOMAIN children :
       /\ children[n] \in Child
       /\ children[n].process # None => children[n].process \in DOMAIN procs[n]
       /\ children[n].stopped => children[n].process = None
  /\ procs \in [Names -> Seq([status : {"running", "ok", "failed"},
                              gone : 0 .. Backoff[1]])]
  /\ ticker \in BOOLEAN
  /\ stage \in {"start", "run", "caught", "grace", "returned", "dead",
               "killed"}
  /\ left \in 0 .. GRACE

(* The processes of a name that run and that no child stands for.          *)
Strays(n) ==
  {k \in DOMAIN procs[n] :
     Running(n, k) /\ ~(n \in DOMAIN children /\ children[n].process = k)}

(* Where the explicit entries repeat a name, spawn_all lets processes go.  *)
(* It is the only step that does: neither a restart nor the shutdown, nor  *)
(* a tick between the end of the shutdown and the end of the process,      *)
(* leaves a process running that the supervisor does not know.             *)
OnlySpawnAllLosesProcesses ==
  [][stage # "start" =>
       \A n \in Names : Strays(n)' \subseteq Strays(n)]_vars

(* A name that is configured once; of the others only the last entry is    *)
(* supervised.                                                             *)
Once(n) == Cardinality({i \in DOMAIN configs : configs[i].name = n}) = 1

(* The restart policies of docs/docs/listeners.md, until shutdown returns: *)
(* every process of a name but the last has exited, in a way after which   *)
(* the policy restarts.                                                    *)
PolicyObeyed ==
  stage \in {"run", "caught", "grace"} =>
    \A n \in DOMAIN children : Once(n) =>
      \A k \in 1 .. Len(procs[n]) - 1 :
        \/ children[n].policy = "always" /\ ~Running(n, k)
        \/ children[n].policy = "on-failure" /\ procs[n][k].status = "failed"

Respawned(n) == procs[n] # <<>> /\ Len(procs'[n]) > Len(procs[n])

(* "The supervisor never enters a tight respawn loop" (listeners.md): a    *)
(* process follows another only when that has been gone for the least      *)
(* delay.                                                                  *)
NoTightLoop ==
  [][\A n \in DOMAIN children :
       stage \in {"run", "caught"} /\ Once(n) /\ Respawned(n) =>
         Last(procs[n]).gone = Backoff[1]]_vars

ToRun(n) ==
  /\ stage = "run" /\ n \in DOMAIN children /\ Once(n)
  /\ \/ procs[n] = <<>>
     \/ Restarts(children[n].policy, Last(procs[n]).status)
          /\ Last(procs[n]).status # "running"

(* A listener that has exited and whose policy restarts it, or that could  *)
(* not be spawned, runs again while the daemon does: the tick thread does  *)
(* not end too early.                                                      *)
RunsAgain ==
  \A n \in Names :
    ToRun(n) ~> \/ stage # "run"
                \/ procs[n] # <<>> /\ Last(procs[n]).status = "running"
                \/ Len(procs[n]) = MaxSpawns

(* "On daemon shutdown, sends SIGTERM to all children, waits a grace       *)
(* period, then SIGKILL anything that didn't exit" (the head of            *)
(* supervisor.rs): once a running daemon has been told to end and has      *)
(* ended, its listeners end too.                                           *)
TerminationStopsListeners ==
  (stage = "dead" /\ ticker)
    ~> \A n \in Names : \A k \in DOMAIN procs[n] : ~Running(n, k)

=============================================================================
