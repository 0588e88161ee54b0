-------------------------- MODULE Supervisor_proofs --------------------------
(***************************************************************************)
(* Type correctness of Supervisor, that only spawn_all loses processes,    *)
(* and that restarts follow their policy and wait out the shortest delay.  *)
(***************************************************************************)
EXTENDS Supervisor, FiniteSetTheorems, SequenceTheorems, TLAPS

Process == [status : {"running", "ok", "failed"}, gone : 0 .. Backoff[1]]

(* The parts of TypeOK, stated of any values.                              *)
ChildrenOK(cs, ps) ==
  /\ DOMAIN cs \subseteq Names
  /\ \A n \in DOMAIN cs :
       /\ cs[n] \in Child
       /\ cs[n].process # None => cs[n].process \in DOMAIN ps[n]
       /\ cs[n].stopped => cs[n].process = None

ProcsOK(ps) == ps \in [Names -> Seq(Process)]

LEMMA BackoffFacts ==
  /\ Len(Backoff) \in Nat \ {0}
  /\ \A i \in 1 .. Len(Backoff) : Backoff[i] \in Nat \ {0}
  /\ 1 \in 1 .. Len(Backoff)
BY SupervisorAssumption

(* A restart delayed keeps everything but the delay and the index.         *)
LEMMA DelayedChild ==
  ASSUME NEW c \in Child
  PROVE  /\ Delayed(c) \in Child
         /\ Delayed(c).process = c.process
         /\ Delayed(c).stopped = c.stopped
<1>1. /\ c.backoff \in 1 .. Len(Backoff)
      /\ Backoff[c.backoff] \in Nat
      /\ c.backoff < Len(Backoff) => c.backoff + 1 \in 1 .. Len(Backoff)
  BY BackoffFacts DEF Child
<1>2. Delayed(c) \in Child
  BY <1>1 DEF Child, Delayed
<1> QED
  BY <1>2 DEF Child, Delayed

LEMMA NewChildType ==
  ASSUME NEW policy \in Policies
  PROVE  /\ NewChild(policy) \in Child
         /\ NewChild(policy).process = None /\ ~NewChild(policy).stopped
BY BackoffFacts DEF NewChild, Child

(* What spawn_child makes of a child, by the outcome of the spawn.         *)
LEMMA SpawnChildType ==
  ASSUME ProcsOK(procs), NEW n \in Names, NEW c \in Child, NEW b \in BOOLEAN
  PROVE  /\ SpawnChild(c, n, b) \in Child
         /\ SpawnChild(c, n, b).process = IF b THEN Len(procs[n]) + 1
                                          ELSE c.process
         /\ SpawnChild(c, n, b).stopped = c.stopped
<1>1. Len(procs[n]) + 1 \in Nat
  BY DEF ProcsOK
<1>2. CASE b
  <2> DEFINE k == Len(procs[n]) + 1
             d == [c EXCEPT !.process = k, !.backoff = 1]
  <2>1. d \in Child
    BY <1>1, BackoffFacts DEF Child
  <2>2. d.process = k
    BY DEF Child
  <2>3. d.stopped = c.stopped
    BY DEF Child
  <2> QED
    BY <1>2, <2>1, <2>2, <2>3 DEF SpawnChild
<1>3. CASE ~b
  BY <1>3, DelayedChild DEF SpawnChild
<1> QED
  BY <1>2, <1>3

(* try_wait leaves a running child alone and takes the process of another. *)
LEMMA ReapType ==
  ASSUME ChildrenOK(children, procs), NEW n \in DOMAIN children
  PROVE  /\ Reap(n) \in Child
         /\ Reap(n).stopped => Reap(n).process = None
         /\ \/ Reap(n) = children[n]
            \/ /\ children[n].process # None
               /\ ~Running(n, children[n].process)
               /\ Reap(n).process = None
<1> DEFINE c == children[n]
           taken == [c EXCEPT !.process = None]
           over  == [c EXCEPT !.process = None, !.stopped = TRUE]
<1>1. c \in Child /\ (c.stopped => c.process = None)
  BY DEF ChildrenOK
<1>4. taken \in Child /\ taken.process = None
  BY <1>1 DEF Child
<1>5. over \in Child /\ over.process = None
  BY <1>1 DEF Child
<1>6. /\ Delayed(taken) \in Child
      /\ Delayed(taken).process = None
  BY <1>4, DelayedChild
<1>7. \/ Reap(n) = c
      \/ c.process # None /\ ~Running(n, c.process) /\ Reap(n) = Delayed(taken)
      \/ c.process # None /\ ~Running(n, c.process) /\ Reap(n) = over
  BY DEF Reap
<1> HIDE DEF taken, over
<1> QED
  BY <1>1, <1>5, <1>6, <1>7

(* A function from the places of a sequence is a sequence of its length.   *)
LEMMA SameLength ==
  ASSUME NEW S, NEW s \in Seq(S), NEW T, NEW f \in [DOMAIN s -> T]
  PROVE  f \in Seq(T) /\ DOMAIN f = DOMAIN s
OBVIOUS

LEMMA SequenceOfLength ==
  ASSUME NEW m \in Nat, NEW T, NEW f \in [1 .. m -> T]
  PROVE  f \in Seq(T)
OBVIOUS

(* Processes that start come after those there are.                        *)
LEMMA StartedProcs ==
  ASSUME ProcsOK(procs), NEW S, Started(S)
  PROVE  /\ ProcsOK(procs')
         /\ \A n \in Names :
              /\ DOMAIN procs[n] \subseteq DOMAIN procs'[n]
              /\ \A k \in DOMAIN procs[n] : procs'[n][k] = procs[n][k]
              /\ n \in S => Len(procs[n]) + 1 \in DOMAIN procs'[n]
              /\ DOMAIN procs'[n] \subseteq
                   DOMAIN procs[n] \cup (IF n \in S THEN {Len(procs[n]) + 1}
                                         ELSE {})
<1>1. Born \in Process
  BY BackoffFacts DEF Born, Process
<1>2. ASSUME NEW n \in Names
      PROVE  /\ procs'[n] \in Seq(Process)
             /\ DOMAIN procs[n] \subseteq DOMAIN procs'[n]
             /\ \A k \in DOMAIN procs[n] : procs'[n][k] = procs[n][k]
             /\ n \in S => Len(procs[n]) + 1 \in DOMAIN procs'[n]
             /\ DOMAIN procs'[n] \subseteq
                   DOMAIN procs[n] \cup (IF n \in S THEN {Len(procs[n]) + 1}
                                         ELSE {})
  <2>1. procs[n] \in Seq(Process)
    BY DEF ProcsOK
  <2>2. procs'[n] = IF n \in S THEN Append(procs[n], Born) ELSE procs[n]
    BY DEF Started
  <2> QED
    BY <1>1, <2>1, <2>2
<1>3. procs' \in [Names -> Seq(Process)]
  <2>1. procs' = [n \in Names |-> procs'[n]]
    BY DEF Started
  <2> QED
    BY <1>2, <2>1
<1> QED
  BY <1>2, <1>3 DEF ProcsOK

(* The effective listeners are a sequence of entries.                      *)
LEMMA EffectiveType ==
  ASSUME NEW explicit \in Explicit, NEW auto \in BOOLEAN,
         NEW available \in SUBSET Known
  PROVE  EffectiveListeners(explicit, auto, available) \in Seq(Config)
<1> DEFINE taken == {explicit[i].name : i \in DOMAIN explicit}
           D == available \ taken
           found == [i \in 1 .. Cardinality(D) |->
                       [name |-> SetToSeq(D)[i], restart |-> "always"]]
<1>1. explicit \in Seq(Config)
  BY SupervisorAssumption
<1>2. IsFiniteSet(D) /\ D \subseteq Names
  <2>1. D \subseteq Known
    OBVIOUS
  <2> QED
    BY <2>1, FS_Subset, SupervisorAssumption
<1>3. Cardinality(D) \in Nat
  BY <1>2, FS_CardinalityType
<1>4. SetToSeq(D) \in [1 .. Cardinality(D) -> D]
  <2>1. PICK f : f \in Bijection(1 .. Cardinality(D), D)
    BY <1>2, FS_CardinalityType DEF ExistsBijection
  <2>2. f \in [1 .. Cardinality(D) -> D] /\ IsInjective(f)
    BY <2>1 DEF Bijection, Injection, IsInjective
  <2> QED
    BY <2>2 DEF SetToSeq
<1>5. found \in Seq(Config)
  <2>1. \A i \in 1 .. Cardinality(D) :
           [name |-> SetToSeq(D)[i], restart |-> "always"] \in Config
    BY <1>2, <1>4 DEF Config, Policies
  <2>2. found \in [1 .. Cardinality(D) -> Config]
    BY <2>1
  <2> HIDE DEF found
  <2> QED
    BY <1>3, <2>2, SequenceOfLength
<1>6. EffectiveListeners(explicit, auto, available) =
        IF ~auto THEN explicit ELSE explicit \o found
  BY DEF EffectiveListeners
<1> HIDE DEF found
<1> QED
  BY <1>1, <1>5, <1>6

-----------------------------------------------------------------------------
(* Type correctness.                                                       *)

Rest ==
  /\ configs \in Seq(Config)
  /\ started \in 0 .. Len(configs)
  /\ ticker \in BOOLEAN
  /\ stage \in {"start", "run", "caught", "grace", "returned", "dead",
               "killed"}
  /\ left \in 0 .. GRACE

(* TypeOK in the parts that the actions disturb one by one.                *)
LEMMA TypeParts == TypeOK <=> ChildrenOK(children, procs) /\ ProcsOK(procs) /\ Rest
BY DEF TypeOK, ChildrenOK, ProcsOK, Rest, Process

LEMMA TypePartsNext ==
  TypeOK' <=> ChildrenOK(children', procs') /\ ProcsOK(procs') /\ Rest'
BY DEF TypeOK, ChildrenOK, ProcsOK, Rest, Process

LEMMA InitType == Init => TypeOK
<1> SUFFICES ASSUME Init PROVE TypeOK
  OBVIOUS
<1>1. configs \in Seq(Config)
  BY EffectiveType DEF Init
<1>2. ChildrenOK(children, procs)
  BY DEF Init, ChildrenOK
<1>3. ProcsOK(procs)
  BY DEF Init, ProcsOK
<1>4. Rest
  <2>1. Len(configs) \in Nat /\ GRACE \in Nat
    BY <1>1, SupervisorAssumption
  <2>2. started = 0 /\ left = 0 /\ ticker = FALSE /\ stage = "start"
    BY DEF Init
  <2>3. started \in 0 .. Len(configs) /\ left \in 0 .. GRACE
    BY <2>1, <2>2
  <2> QED
    BY <1>1, <2>2, <2>3 DEF Rest
<1> QED
  BY <1>2, <1>3, <1>4, TypeParts

(* Processes that are added or change their status take no child away.     *)
LEMMA ChildrenKept ==
  ASSUME ChildrenOK(children, procs), children' = children,
         \A n \in Names : DOMAIN procs[n] \subseteq DOMAIN procs'[n]
  PROVE  ChildrenOK(children', procs')
BY DEF ChildrenOK

LEMMA SpawnNextType == TypeOK /\ SpawnNext => TypeOK'
<1> SUFFICES ASSUME TypeOK, SpawnNext PROVE TypeOK'
  OBVIOUS
<1>1. ChildrenOK(children, procs) /\ ProcsOK(procs) /\ Rest
  BY TypeParts
<1> DEFINE cfg == configs[started + 1]
<1>2. cfg \in Config /\ started + 1 \in 0 .. Len(configs)
  BY <1>1 DEF Rest, SpawnNext
<1>3. cfg.name \in Names /\ cfg.restart \in Policies
  BY <1>2 DEF Config
<1> HIDE DEF cfg
<1>4. PICK spawned \in SUBSET ({cfg.name} \cap CanSpawn) :
        /\ children' =
             [n \in DOMAIN children \cup {cfg.name} |->
                IF n = cfg.name
                THEN SpawnChild(NewChild(cfg.restart), n, spawned # {})
                ELSE children[n]]
        /\ Started(spawned)
  BY DEF SpawnNext, cfg
<1>5. spawned # {} <=> cfg.name \in spawned
  OBVIOUS
<1> DEFINE child == SpawnChild(NewChild(cfg.restart), cfg.name, spawned # {})
<1>6. NewChild(cfg.restart) \in Child
      /\ NewChild(cfg.restart).process = None /\ ~NewChild(cfg.restart).stopped
  BY <1>3, NewChildType
<1>7. /\ child \in Child
      /\ child.process = IF spawned # {} THEN Len(procs[cfg.name]) + 1 ELSE None
      /\ ~child.stopped
  BY ZenonT(40), <1>1, <1>3, <1>6, SpawnChildType
<1> HIDE DEF child
<1>8. children' = [n \in DOMAIN children \cup {cfg.name} |->
                     IF n = cfg.name THEN child ELSE children[n]]
  BY <1>4 DEF child
<1>9. ProcsOK(procs')
      /\ \A n \in Names : DOMAIN procs[n] \subseteq DOMAIN procs'[n]
  BY <1>1, <1>4, StartedProcs
<1>10. spawned # {} => Len(procs[cfg.name]) + 1 \in DOMAIN procs'[cfg.name]
  BY <1>1, <1>3, <1>4, <1>5, StartedProcs
<1>11. ChildrenOK(children', procs')
  <2>1. DOMAIN children' = DOMAIN children \cup {cfg.name}
    BY <1>8
  <2>2. children'[cfg.name] = child
    BY <1>8
  <2>3. \A n \in DOMAIN children : n # cfg.name => children'[n] = children[n]
    BY <1>8
  <2> QED
    BY <2>1, <2>2, <2>3, <1>1, <1>3, <1>7, <1>9, <1>10 DEF ChildrenOK
<1>12. Rest'
  BY <1>1, <1>2 DEF Rest, SpawnNext
<1> QED
  BY <1>9, <1>11, <1>12, TypePartsNext

(* What a tick makes of a child: it is left as it is, or it had no running *)
(* process and gets the one that starts, or none.                          *)
LEMMA TickChild ==
  ASSUME TypeOK, NEW spawned \in SUBSET Names, Tick(spawned),
         NEW n \in DOMAIN children
  PROVE  /\ n \in DOMAIN children' /\ children'[n] \in Child
         /\ children'[n].stopped => children'[n].process = None
         /\ \/ n \notin spawned /\ children'[n] = children[n]
            \/ /\ children[n].process # None
                    => ~Running(n, children[n].process)
               /\ children'[n].process =
                    IF n \in spawned THEN Len(procs[n]) + 1 ELSE None
<1>1. ChildrenOK(children, procs) /\ ProcsOK(procs) /\ n \in Names
  BY TypeParts DEF ChildrenOK
<1> DEFINE reaped == [m \in DOMAIN children |-> Reap(m)]
           due == {m \in DOMAIN children : Due(reaped[m])}
<1>2. /\ spawned \subseteq due
      /\ children' = [m \in DOMAIN children |->
                        IF m \in due THEN SpawnChild(reaped[m], m, m \in spawned)
                        ELSE reaped[m]]
  BY DEF Tick
<1>3. /\ Reap(n) \in Child
      /\ Reap(n).stopped => Reap(n).process = None
      /\ \/ Reap(n) = children[n]
         \/ /\ children[n].process # None
            /\ ~Running(n, children[n].process)
            /\ Reap(n).process = None
  BY <1>1, ReapType
<1>4. CASE Due(Reap(n))
  <2>1. children'[n] = SpawnChild(Reap(n), n, n \in spawned)
    BY <1>2, <1>4
  <2>2. Reap(n).process = None /\ ~Reap(n).stopped
    BY <1>4 DEF Due
  <2>3. \A b \in BOOLEAN :
          /\ SpawnChild(Reap(n), n, b) \in Child
          /\ SpawnChild(Reap(n), n, b).process =
               IF b THEN Len(procs[n]) + 1 ELSE None
          /\ ~SpawnChild(Reap(n), n, b).stopped
    BY <1>1, <1>3, <2>2, SpawnChildType
  <2>4. /\ children'[n] \in Child
        /\ children'[n].process = IF n \in spawned THEN Len(procs[n]) + 1
                                  ELSE None
        /\ ~children'[n].stopped
    <3>1. CASE n \in spawned
      <4>1. children'[n] = SpawnChild(Reap(n), n, TRUE)
        BY <2>1, <3>1 DEF SpawnChild
      <4> QED
        BY <2>3, <3>1, <4>1
    <3>2. CASE n \notin spawned
      <4>1. children'[n] = SpawnChild(Reap(n), n, FALSE)
        BY <2>1, <3>2 DEF SpawnChild
      <4> QED
        BY <2>3, <3>2, <4>1
    <3> QED
      BY <3>1, <3>2
  <2>5. n \in DOMAIN children'
    BY <1>2
  <2>6. children[n].process # None => ~Running(n, children[n].process)
    BY <1>3, <2>2
  <2> QED
    BY <2>4, <2>5, <2>6
<1>5. CASE ~Due(Reap(n))
  <2>1. n \notin spawned /\ children'[n] = Reap(n)
    BY <1>2, <1>5
  <2> QED
    BY <1>2, <1>3, <2>1
<1> QED
  BY <1>4, <1>5

LEMMA TickType ==
  ASSUME TypeOK, NEW spawned \in SUBSET Names, Tick(spawned)
  PROVE  TypeOK'
<1>1. ChildrenOK(children, procs) /\ ProcsOK(procs) /\ Rest
  BY TypeParts
<1>2. Started(spawned)
  BY DEF Tick
<1>3. /\ ProcsOK(procs')
      /\ \A n \in Names :
           /\ DOMAIN procs[n] \subseteq DOMAIN procs'[n]
           /\ n \in spawned => Len(procs[n]) + 1 \in DOMAIN procs'[n]
  BY <1>1, <1>2, StartedProcs
<1>4. DOMAIN children' = DOMAIN children
  BY DEF Tick
<1>5. ChildrenOK(children', procs')
  <2> SUFFICES ASSUME NEW n \in DOMAIN children
               PROVE  /\ children'[n] \in Child
                      /\ children'[n].process # None
                           => children'[n].process \in DOMAIN procs'[n]
                      /\ children'[n].stopped => children'[n].process = None
    BY <1>1, <1>4 DEF ChildrenOK
  <2>1. n \in Names /\ (children[n].process # None
                          => children[n].process \in DOMAIN procs[n])
    BY <1>1 DEF ChildrenOK
  <2> QED
    BY <1>3, <2>1, TickChild
<1>6. Rest'
  BY <1>1 DEF Rest, Tick, NeedsPolling
<1> QED
  BY <1>3, <1>5, <1>6, TypePartsNext

(* What KillRest, ListenerExits and Elapse do to the processes: none is    *)
(* added or starts to run.                                                 *)
Wane(ps, qs) ==
  \A n \in Names :
    /\ DOMAIN qs[n] = DOMAIN ps[n]
    /\ \A k \in DOMAIN ps[n] :
         qs[n][k].status = "running" => ps[n][k].status = "running"

LEMMA KillRestProcs ==
  ASSUME ProcsOK(procs), KillRest
  PROVE  ProcsOK(procs') /\ Wane(procs, procs')
<1> SUFFICES ASSUME NEW n \in Names
             PROVE  /\ procs'[n] \in Seq(Process)
                    /\ DOMAIN procs'[n] = DOMAIN procs[n]
                    /\ \A k \in DOMAIN procs[n] :
                         procs'[n][k].status = "running"
                           => procs[n][k].status = "running"
  BY DEF KillRest, ProcsOK, Wane
<1> DEFINE killed == [status |-> "failed", gone |-> 0]
           hit(k) == n \in DOMAIN children /\ k = children[n].process
                       /\ Running(n, k)
<1>1. procs[n] \in Seq(Process)
  BY DEF ProcsOK
<1>2. killed \in Process
  BY BackoffFacts DEF Process
<1>3. procs'[n] = [k \in DOMAIN procs[n] |->
                     IF hit(k) THEN killed ELSE procs[n][k]]
  BY DEF KillRest
<1> HIDE DEF hit
<1>4. procs'[n] \in [DOMAIN procs[n] -> Process]
  BY <1>1, <1>2, <1>3
<1> QED
  BY <1>1, <1>3, <1>4, SameLength

LEMMA ElapseProcs ==
  ASSUME ProcsOK(procs), Elapse
  PROVE  ProcsOK(procs') /\ Wane(procs, procs')
<1> SUFFICES ASSUME NEW n \in Names
             PROVE  /\ procs'[n] \in Seq(Process)
                    /\ DOMAIN procs'[n] = DOMAIN procs[n]
                    /\ \A k \in DOMAIN procs[n] :
                         procs'[n][k].status = "running"
                           => procs[n][k].status = "running"
  BY DEF Elapse, ProcsOK, Wane
<1> DEFINE waits(k) == ~Running(n, k) /\ procs[n][k].gone < Backoff[1]
           older(k) == [procs[n][k] EXCEPT !.gone = @ + 1]
<1>1. procs[n] \in Seq(Process)
  BY DEF ProcsOK
<1>2. procs'[n] = [k \in DOMAIN procs[n] |->
                     IF waits(k) THEN older(k) ELSE procs[n][k]]
  BY DEF Elapse
<1>3. ASSUME NEW k \in DOMAIN procs[n], waits(k)
      PROVE  older(k) \in Process /\ older(k).status = procs[n][k].status
  <2>1. procs[n][k] \in Process
    BY <1>1
  <2>2. procs[n][k].gone + 1 \in 0 .. Backoff[1]
    BY <1>3, <2>1, BackoffFacts DEF Process
  <2> QED
    BY <2>1, <2>2 DEF Process
<1> HIDE DEF waits, older
<1>4. procs'[n] \in [DOMAIN procs[n] -> Process]
  BY <1>1, <1>2, <1>3
<1> QED
  BY <1>1, <1>2, <1>3, <1>4, SameLength

LEMMA ListenerExitsProcs ==
  ASSUME ProcsOK(procs), NEW n \in Names, NEW k \in DOMAIN procs[n],
         ListenerExits(n, k)
  PROVE  ProcsOK(procs') /\ Wane(procs, procs')
<1>1. PICK status \in {"ok", "failed"} :
        procs' = [procs EXCEPT ![n][k].status = status]
  BY DEF ListenerExits
<1> DEFINE after == [procs[n][k] EXCEPT !.status = status]
           s == [procs[n] EXCEPT ![k] = after]
<1>2. procs[n] \in Seq(Process) /\ procs[n][k] \in Process
  BY DEF ProcsOK
<1>3. after \in Process /\ after.status # "running"
  BY <1>2 DEF Process
<1>4. procs' = [procs EXCEPT ![n] = s]
  BY <1>1
<1> HIDE DEF after
<1>5. /\ s \in Seq(Process) /\ DOMAIN s = DOMAIN procs[n]
      /\ s[k] = after
      /\ \A j \in DOMAIN procs[n] : j # k => s[j] = procs[n][j]
  BY <1>2, <1>3
<1> HIDE DEF s
<1>6. procs' \in [Names -> Seq(Process)]
  BY <1>4, <1>5 DEF ProcsOK
<1>7. /\ procs'[n] = s
      /\ \A m \in Names : m # n => procs'[m] = procs[m]
  BY <1>4 DEF ProcsOK
<1> QED
  BY <1>3, <1>5, <1>6, <1>7 DEF ProcsOK, Wane

LEMMA KillRestType == TypeOK /\ KillRest => TypeOK'
<1> SUFFICES ASSUME TypeOK, KillRest PROVE TypeOK'
  OBVIOUS
<1>1. ChildrenOK(children, procs) /\ ProcsOK(procs) /\ Rest
  BY TypeParts
<1>2. ProcsOK(procs') /\ Wane(procs, procs')
  BY <1>1, KillRestProcs
<1>3. ChildrenOK(children', procs')
  <2>1. /\ DOMAIN children' = DOMAIN children
        /\ \A n \in DOMAIN children :
             children'[n] = [children[n] EXCEPT !.process = None]
    BY DEF KillRest
  <2>2. ASSUME NEW n \in DOMAIN children
        PROVE  children'[n] \in Child /\ children'[n].process = None
    <3>1. children[n] \in Child
      BY <1>1 DEF ChildrenOK
    <3> QED
      BY <2>1, <3>1 DEF Child
  <2> QED
    BY <1>1, <2>1, <2>2 DEF ChildrenOK
<1>4. Rest'
  BY <1>1 DEF Rest, KillRest
<1> QED
  BY <1>2, <1>3, <1>4, TypePartsNext

LEMMA ElapseType == TypeOK /\ Elapse => TypeOK'
<1> SUFFICES ASSUME TypeOK, Elapse PROVE TypeOK'
  OBVIOUS
<1>1. ChildrenOK(children, procs) /\ ProcsOK(procs) /\ Rest
  BY TypeParts
<1>2. ProcsOK(procs') /\ Wane(procs, procs')
  BY <1>1, ElapseProcs
<1>3. \A i \in Nat : Less1(i) \in Nat /\ Less1(i) <= i
  BY DEF Less1
<1>4. ChildrenOK(children', procs')
  <2>1. /\ DOMAIN children' = DOMAIN children
        /\ \A n \in DOMAIN children :
             children'[n] = [children[n] EXCEPT !.wait = Less1(@)]
    BY DEF Elapse
  <2>2. ASSUME NEW n \in DOMAIN children
        PROVE  /\ children'[n] \in Child
               /\ children'[n].process = children[n].process
               /\ children'[n].stopped = children[n].stopped
    <3>1. children[n] \in Child
      BY <1>1 DEF ChildrenOK
    <3>2. Less1(children[n].wait) \in Nat
      BY <1>3, <3>1 DEF Child
    <3>3. children'[n] = [children[n] EXCEPT !.wait = Less1(children[n].wait)]
      BY <2>1
    <3> QED
      BY <3>1, <3>2, <3>3 DEF Child
  <2> QED
    BY <1>1, <1>2, <2>1, <2>2 DEF ChildrenOK, Wane
<1>5. Rest'
  <2>1. left' \in 0 .. GRACE
    BY <1>1, <1>3, SupervisorAssumption DEF Rest, Elapse
  <2> QED
    BY <1>1, <2>1 DEF Rest, Elapse
<1> QED
  BY <1>2, <1>4, <1>5, TypePartsNext

LEMMA ListenerExitsType ==
  ASSUME TypeOK, NEW n \in Names, NEW k \in DOMAIN procs[n],
         ListenerExits(n, k)
  PROVE  TypeOK'
<1>1. ChildrenOK(children, procs) /\ ProcsOK(procs) /\ Rest
  BY TypeParts
<1>2. ProcsOK(procs') /\ Wane(procs, procs')
  BY <1>1, ListenerExitsProcs
<1>3. ChildrenOK(children', procs')
  BY <1>1, <1>2, ChildrenKept DEF ListenerExits, Wane
<1>4. Rest'
  BY <1>1 DEF Rest, ListenerExits
<1> QED
  BY <1>2, <1>3, <1>4, TypePartsNext

(* The steps that change neither children nor processes.                   *)
LEMMA StageType ==
  ASSUME TypeOK,
         \/ StartThreads \/ SignalCaught \/ SignalKills \/ DaemonKilled
         \/ BeginShutdown \/ AllExited \/ Exit \/ UNCHANGED vars
  PROVE  TypeOK'
<1>1. ChildrenOK(children, procs) /\ ProcsOK(procs) /\ Rest
  BY TypeParts
<1>2. children' = children /\ procs' = procs
  BY DEF StartThreads, SignalCaught, SignalKills, DaemonKilled, BeginShutdown,
         AllExited, Exit, vars
<1>3. GRACE \in 0 .. GRACE
  BY SupervisorAssumption
<1>4. Rest'
  BY <1>1, <1>3 DEF StartThreads, SignalCaught, SignalKills, DaemonKilled,
         BeginShutdown, AllExited, Exit, vars, Rest, NeedsPolling
<1> QED
  BY <1>1, <1>2, <1>4, TypePartsNext

LEMMA NextType == TypeOK /\ [Next]_vars => TypeOK'
BY SpawnNextType, TickType, KillRestType, ElapseType, ListenerExitsType,
   StageType DEF Next

(* Every variable keeps its type; a child's process is one of its name,    *)
(* and a listener that is given up has none.                               *)
THEOREM TypeCorrect == Spec => []TypeOK
<1>1. Init => TypeOK
  BY InitType
<1>2. TypeOK /\ [Next]_vars => TypeOK'
  BY NextType
<1> QED
  BY <1>1, <1>2, PTL DEF Spec

-----------------------------------------------------------------------------
(* Lost processes.                                                         *)

(* Process k of n runs, and no child of cs stands for it.                  *)
Stray(cs, ps, n, k) ==
  /\ n \in Names /\ k \in DOMAIN ps[n] /\ ps[n][k].status = "running"
  /\ ~(n \in DOMAIN cs /\ cs[n].process = k)

(* No step from cs, ps to ds, qs makes a stray of what was none.           *)
Loses(cs, ps, ds, qs) ==
  \E n \in Names : \E k \in DOMAIN qs[n] :
    Stray(ds, qs, n, k) /\ ~Stray(cs, ps, n, k)

LEMMA StraysGrow ==
  ~Loses(children, procs, children', procs')
    => \A n \in Names : Strays(n)' \subseteq Strays(n)
<1>1. \A n \in Names : \A k :
        k \in Strays(n) <=> Stray(children, procs, n, k)
  BY DEF Strays, Stray, Running
<1>2. \A n \in Names : \A k :
        k \in Strays(n)' <=> Stray(children', procs', n, k)
  BY DEF Strays, Stray, Running
<1>3. \A n \in Names : \A k :
        Stray(children', procs', n, k) => k \in DOMAIN procs'[n]
  BY DEF Stray
<1> QED
  BY <1>1, <1>2, <1>3 DEF Loses

(* Children that keep their processes, while none starts, lose none.       *)
LEMMA WaneLosesNothing ==
  ASSUME Wane(procs, procs'),
         DOMAIN children' = DOMAIN children,
         \A n \in DOMAIN children :
           children'[n].process = children[n].process
  PROVE  ~Loses(children, procs, children', procs')
BY DEF Wane, Loses, Stray

LEMMA TickLosesNothing ==
  ASSUME TypeOK, NEW spawned \in SUBSET Names, Tick(spawned)
  PROVE  ~Loses(children, procs, children', procs')
<1>1. ChildrenOK(children, procs) /\ ProcsOK(procs)
  BY TypeParts
<1>2. DOMAIN children' = DOMAIN children /\ spawned \subseteq DOMAIN children
  BY DEF Tick
<1> SUFFICES ASSUME NEW n \in Names, NEW k \in DOMAIN procs'[n],
                    Stray(children', procs', n, k)
             PROVE  Stray(children, procs, n, k)
  BY DEF Loses
<1>3. /\ DOMAIN procs'[n] \subseteq
           DOMAIN procs[n] \cup (IF n \in spawned THEN {Len(procs[n]) + 1}
                                 ELSE {})
      /\ \A j \in DOMAIN procs[n] : procs'[n][j] = procs[n][j]
  BY <1>1, StartedProcs DEF Tick
<1>4. k \in DOMAIN procs[n]
  <2> SUFFICES ASSUME n \in spawned, k = Len(procs[n]) + 1 PROVE FALSE
    BY <1>3
  <2>1. Len(procs[n]) + 1 \notin DOMAIN procs[n]
    BY <1>1 DEF ProcsOK
  <2>2. n \in DOMAIN children
    BY <1>2
  <2>3. children[n].process # None => children[n].process \in DOMAIN procs[n]
    BY <1>1, <2>2 DEF ChildrenOK
  <2>4. children'[n].process = k
    BY <2>2, TickChild
  <2> QED
    BY <1>2, <2>2, <2>4 DEF Stray
<1>5. procs[n][k].status = "running"
  BY <1>3, <1>4 DEF Stray
<1>6. ASSUME n \in DOMAIN children, children[n].process = k
      PROVE  FALSE
  <2>1. k # None
    BY <1>1, <1>4, SupervisorAssumption DEF ProcsOK
  <2>2. Running(n, children[n].process)
    BY <1>5, <1>6 DEF Running
  <2>3. children'[n] = children[n]
    BY <1>6, <2>1, <2>2, TickChild
  <2> QED
    BY <1>2, <1>6, <2>3 DEF Stray
<1> QED
  BY <1>4, <1>5, <1>6 DEF Stray

(* What shutdown takes out of a child it kills first.                      *)
LEMMA KillRestLosesNothing ==
  ASSUME TypeOK, KillRest
  PROVE  ~Loses(children, procs, children', procs')
<1>1. ProcsOK(procs)
  BY TypeParts
<1>2. Wane(procs, procs')
  BY <1>1, KillRestProcs
<1> SUFFICES ASSUME NEW n \in Names, NEW k \in DOMAIN procs'[n],
                    Stray(children', procs', n, k)
             PROVE  Stray(children, procs, n, k)
  BY DEF Loses
<1>3. k \in DOMAIN procs[n] /\ procs[n][k].status = "running"
  BY <1>2 DEF Wane, Stray
<1>4. ASSUME n \in DOMAIN children, children[n].process = k
      PROVE  FALSE
  <2>1. procs'[n][k] = [status |-> "failed", gone |-> 0]
    BY <1>3, <1>4 DEF KillRest, Running
  <2> QED
    BY <2>1 DEF Stray
<1> QED
  BY <1>3, <1>4 DEF Stray

LEMMA NextLosesNothing ==
  TypeOK /\ [Next]_vars
    => (stage # "start" => \A n \in Names : Strays(n)' \subseteq Strays(n))
<1> SUFFICES ASSUME TypeOK, [Next]_vars, stage # "start"
             PROVE  ~Loses(children, procs, children', procs')
  BY StraysGrow
<1>1. ProcsOK(procs)
  BY TypeParts
<1>2. ASSUME NEW spawned \in SUBSET Names, Tick(spawned)
      PROVE  ~Loses(children, procs, children', procs')
  BY <1>2, TickLosesNothing
<1>3. CASE KillRest
  BY <1>3, KillRestLosesNothing
<1>4. CASE Elapse
  <2>1. /\ DOMAIN children' = DOMAIN children
        /\ \A n \in DOMAIN children :
             children'[n] = [children[n] EXCEPT !.wait = Less1(@)]
    BY <1>4 DEF Elapse
  <2>2. \A n \in DOMAIN children : children[n] \in Child
    BY TypeParts DEF ChildrenOK
  <2>3. \A n \in DOMAIN children :
          children'[n].process = children[n].process
    BY <2>1, <2>2 DEF Child
  <2> QED
    BY <1>1, <1>4, <2>1, <2>3, ElapseProcs, WaneLosesNothing
<1>5. ASSUME NEW n \in Names, NEW k \in DOMAIN procs[n], ListenerExits(n, k)
      PROVE  ~Loses(children, procs, children', procs')
  <2>1. children' = children
    BY <1>5 DEF ListenerExits
  <2> QED
    BY <1>1, <1>5, <2>1, ListenerExitsProcs, WaneLosesNothing
<1>6. CASE \/ SignalCaught \/ SignalKills \/ DaemonKilled \/ BeginShutdown
           \/ AllExited \/ Exit \/ UNCHANGED vars
  <2>1. children' = children /\ procs' = procs
    BY <1>6 DEF SignalCaught, SignalKills, DaemonKilled, BeginShutdown,
                AllExited, Exit, vars
  <2> QED
    BY <2>1 DEF Loses
<1>7. ~SpawnNext /\ ~StartThreads
  BY DEF SpawnNext, StartThreads
<1> QED
  BY <1>2, <1>3, <1>4, <1>5, <1>6, <1>7 DEF Next

(* After spawn_all, neither a tick nor the shutdown leaves a process       *)
(* running that the supervisor does not know, for any configuration.       *)
THEOREM NothingLost == Spec => OnlySpawnAllLosesProcesses
<1>1. Init => TypeOK
  BY InitType
<1>2. TypeOK /\ [Next]_vars => TypeOK'
  BY NextType
<1>3. TypeOK /\ [Next]_vars
        => [stage # "start" =>
              \A n \in Names : Strays(n)' \subseteq Strays(n)]_vars
  BY NextLosesNothing
<1> QED
  BY <1>1, <1>2, <1>3, PTL DEF Spec, OnlySpawnAllLosesProcesses

-----------------------------------------------------------------------------
(* Restart policies and delays.                                            *)

(* The process p of a listener has exited, in a way after which its policy *)
(* restarts it.                                                            *)
Ended(policy, p) == p.status # "running" /\ Restarts(policy, p.status)

(* A child, and all processes of its name: it stands for the last; if it   *)
(* waits for a restart the last has ended, and not for longer than it has  *)
(* waited; every process before the last has ended.                        *)
Good(c, ps) ==
  /\ c.process # None => c.process = Len(ps)
  /\ c.process = None /\ ~c.stopped /\ Len(ps) > 0 =>
       /\ Ended(c.policy, ps[Len(ps)])
       /\ ps[Len(ps)].gone + c.wait >= Backoff[1]
  /\ \A k \in 1 .. Len(ps) - 1 : Ended(c.policy, ps[k])

LEMMA DelayedWaits ==
  ASSUME NEW c \in Child
  PROVE  Delayed(c).wait >= Backoff[1] /\ Delayed(c).policy = c.policy
         /\ Delayed(c).wait \in Nat
<1>1. /\ c.backoff \in 1 .. Len(Backoff)
      /\ Backoff[c.backoff] \in Nat /\ Backoff[c.backoff] >= Backoff[1]
  BY BackoffFacts, SupervisorAssumption DEF Child
<1>2. Delayed(c).wait = Backoff[c.backoff] /\ Delayed(c).policy = c.policy
  BY DEF Child, Delayed
<1> QED
  BY <1>1, <1>2

(* A delayed child waits for the restart of a process that has ended.      *)
LEMMA DelayedGood ==
  ASSUME NEW ps \in Seq(Process), NEW c \in Child, c.process = None,
         Len(ps) > 0 => Ended(c.policy, ps[Len(ps)]),
         \A k \in 1 .. Len(ps) - 1 : Ended(c.policy, ps[k])
  PROVE  Good(Delayed(c), ps)
<1>1. /\ Delayed(c).process = None /\ Delayed(c).policy = c.policy
      /\ Delayed(c).wait >= Backoff[1] /\ Delayed(c).wait \in Nat
  BY DelayedChild, DelayedWaits
<1>2. Len(ps) > 0 => ps[Len(ps)].gone \in Nat
  <2>1. Len(ps) > 0 => ps[Len(ps)] \in Process
    OBVIOUS
  <2> QED
    BY <2>1, BackoffFacts DEF Process
<1>3. Len(ps) > 0 => ps[Len(ps)].gone + Delayed(c).wait >= Backoff[1]
  BY <1>1, <1>2, BackoffFacts
<1> QED
  BY <1>1, <1>3 DEF Good

(* try_wait keeps a child good; one that is due was so before it.          *)
LEMMA ReapGood ==
  ASSUME ChildrenOK(children, procs), ProcsOK(procs), NEW n \in DOMAIN children
  PROVE  /\ Good(children[n], procs[n]) => Good(Reap(n), procs[n])
         /\ Due(Reap(n)) => Reap(n) = children[n]
<1> DEFINE c == children[n]
           taken == [c EXCEPT !.process = None]
           over  == [c EXCEPT !.process = None, !.stopped = TRUE]
<1>1. c \in Child /\ n \in Names
  BY DEF ChildrenOK
<1>2. procs[n] \in Seq(Process)
  BY <1>1 DEF ProcsOK
<1>3. taken \in Child /\ taken.process = None /\ taken.policy = c.policy
  BY <1>1 DEF Child
<1>4. over.process = None /\ over.stopped = TRUE /\ over.policy = c.policy
  BY <1>1 DEF Child
<1>5. \/ Reap(n) = c
      \/ /\ c.process # None /\ ~Running(n, c.process)
         /\ Restarts(c.policy, procs[n][c.process].status)
         /\ Reap(n) = Delayed(taken)
      \/ Reap(n) = over
  BY DEF Reap
<1> HIDE DEF taken, over, c
<1>6. CASE Reap(n) = c
  BY <1>6 DEF c
<1>7. CASE /\ c.process # None /\ ~Running(n, c.process)
           /\ Restarts(c.policy, procs[n][c.process].status)
           /\ Reap(n) = Delayed(taken)
  <2>1. ~Due(Reap(n))
    <3>1. Delayed(taken).wait >= Backoff[1] /\ Delayed(taken).wait \in Nat
      BY <1>3, DelayedWaits
    <3>2. Backoff[1] \in Nat \ {0}
      BY BackoffFacts
    <3> QED
      BY <1>7, <3>1, <3>2 DEF Due
  <2>2. ASSUME Good(c, procs[n]) PROVE Good(Reap(n), procs[n])
    <3>1. c.process = Len(procs[n])
      BY <1>7, <2>2 DEF Good
    <3>2. Ended(taken.policy, procs[n][Len(procs[n])])
      BY <1>3, <1>7, <3>1 DEF Ended, Running
    <3>3. \A k \in 1 .. Len(procs[n]) - 1 : Ended(taken.policy, procs[n][k])
      BY <1>3, <2>2 DEF Good
    <3> QED
      BY <1>2, <1>3, <1>7, <3>2, <3>3, DelayedGood
  <2> QED
    BY <2>1, <2>2 DEF c
<1>8. CASE Reap(n) = over
  BY <1>4, <1>8 DEF Good, Due, c
<1> QED
  BY <1>5, <1>6, <1>7, <1>8

(* spawn_child makes a good child of one that waits.                       *)
LEMMA SpawnGood ==
  ASSUME ProcsOK(procs), NEW n \in Names, NEW c \in Child, NEW b \in BOOLEAN,
         c.process = None, ~c.stopped, Good(c, procs[n])
  PROVE  Good(SpawnChild(c, n, b), IF b THEN Append(procs[n], Born) ELSE procs[n])
<1>1. PICK ps \in Seq(Process) : ps = procs[n]
  BY DEF ProcsOK
<1>2. PICK L \in Nat : L = Len(ps)
  OBVIOUS
<1>3. /\ L > 0 => Ended(c.policy, ps[L])
      /\ \A k \in 1 .. L - 1 : Ended(c.policy, ps[k])
  BY <1>1, <1>2 DEF Good
<1>4. CASE b
  <2>1. PICK d : d = SpawnChild(c, n, b)
    OBVIOUS
  <2>2. d = [c EXCEPT !.process = L + 1, !.backoff = 1]
    BY <1>1, <1>2, <1>4, <2>1 DEF SpawnChild
  <2>3. d.process = L + 1 /\ d.policy = c.policy
    BY <2>2 DEF Child
  <2>4. L + 1 # None
    BY SupervisorAssumption
  <2>5. PICK qs : qs = Append(ps, Born)
    OBVIOUS
  <2>6. Len(qs) = L + 1 /\ \A k \in 1 .. L : qs[k] = ps[k]
    BY <1>1, <1>2, <2>5
  <2>7. \A k \in 1 .. Len(qs) - 1 : Ended(d.policy, qs[k])
    BY <1>3, <2>3, <2>6
  <2>8. Good(d, qs)
    BY <2>3, <2>4, <2>6, <2>7 DEF Good
  <2> QED
    BY <1>1, <1>4, <2>1, <2>5, <2>8
<1>5. CASE ~b
  <2>1. SpawnChild(c, n, b) = Delayed(c)
    BY <1>5 DEF SpawnChild
  <2> QED
    BY <1>1, <1>2, <1>3, <1>5, <2>1, DelayedGood
<1> QED
  BY <1>4, <1>5

(* The children of names that are configured once are good; the children   *)
(* are those of the entries that were started, and others have no process. *)
Supervised(cs, ps) == \A n \in DOMAIN cs : Once(n) => Good(cs[n], ps[n])

Listed == DOMAIN children = {configs[i].name : i \in 1 .. started}

Fresh == \A n \in Names : n \notin DOMAIN children => procs[n] = <<>>

Watched ==
  stage \in {"start", "run", "caught", "grace"} => Supervised(children, procs)

SInv == TypeOK /\ Listed /\ Fresh /\ Watched

LEMMA InitSInv == Init => SInv
<1> SUFFICES ASSUME Init PROVE SInv
  OBVIOUS
<1>1. DOMAIN children = {} /\ started = 0 /\ \A n \in Names : procs[n] = <<>>
  BY DEF Init
<1>2. Listed /\ Fresh /\ Watched
  BY <1>1 DEF Listed, Fresh, Watched, Supervised
<1> QED
  BY <1>2, InitType DEF SInv

(* An entry of a name configured once is the first of its name.            *)
LEMMA OnceIsFirst ==
  ASSUME configs \in Seq(Config), NEW i \in DOMAIN configs, Once(configs[i].name),
         NEW j \in DOMAIN configs, configs[j].name = configs[i].name
  PROVE  j = i
<1> DEFINE D == {m \in DOMAIN configs : configs[m].name = configs[i].name}
<1>1. IsFiniteSet(1 .. Len(configs)) /\ DOMAIN configs = 1 .. Len(configs)
  BY FS_Interval
<1>2. IsFiniteSet(D)
  BY <1>1, FS_Subset
<1>3. Cardinality(D) = 1
  BY DEF Once
<1>4. PICK x : D = {x}
  BY <1>2, <1>3, FS_Singleton
<1>5. i \in D /\ j \in D
  OBVIOUS
<1> QED
  BY <1>4, <1>5

LEMMA SpawnNextKeeps ==
  ASSUME SInv, SpawnNext
  PROVE  Listed' /\ Fresh' /\ Watched'
<1>1. TypeOK /\ Listed /\ Fresh /\ Supervised(children, procs)
      /\ ChildrenOK(children, procs) /\ ProcsOK(procs) /\ Rest
  BY TypeParts DEF SInv, Watched, SpawnNext
<1>2. PICK i : i = started + 1
  OBVIOUS
<1>3. /\ configs \in Seq(Config) /\ i \in DOMAIN configs /\ i = started + 1
      /\ started \in Nat /\ started' = i /\ configs' = configs
  BY <1>1, <1>2 DEF Rest, SpawnNext
<1>a. configs[i] \in Config
  BY <1>3
<1>b. configs[i].name \in Names /\ configs[i].restart \in Policies
  BY <1>a DEF Config
<1>4. PICK m \in Names, policy \in Policies :
        m = configs[i].name /\ policy = configs[i].restart
  BY <1>b
<1>5. PICK spawned \in SUBSET ({m} \cap CanSpawn) :
        /\ children' = [n \in DOMAIN children \cup {m} |->
              IF n = m THEN SpawnChild(NewChild(policy), n, spawned # {})
              ELSE children[n]]
        /\ Started(spawned)
  BY <1>2, <1>4 DEF SpawnNext
<1>6. DOMAIN children' = DOMAIN children \cup {m}
  BY <1>5
<1>7. Listed'
  <2>1. {configs[j].name : j \in 1 .. i} = {configs[j].name : j \in 1 .. started} \cup {m}
    <3>1. 1 .. i = (1 .. started) \cup {i}
      BY <1>3
    <3> QED
      BY <1>4, <3>1
  <2>2. DOMAIN children' = {configs[j].name : j \in 1 .. i}
    BY <1>1, <1>6, <2>1 DEF Listed
  <2> QED
    BY <1>3, <2>2 DEF Listed
<1>8. \A n \in Names : n # m => procs'[n] = procs[n]
  BY <1>5 DEF Started
<1>9. Fresh'
  BY <1>1, <1>6, <1>8 DEF Fresh
<1>10. ASSUME NEW n \in DOMAIN children', Once(n)
       PROVE  Good(children'[n], procs'[n])
  <2>1. CASE n # m
    <3>1. n \in DOMAIN children /\ children'[n] = children[n] /\ n \in Names
      BY <1>1, <1>5, <1>6, <2>1 DEF ChildrenOK
    <3> QED
      BY <1>1, <1>8, <1>10, <2>1, <3>1 DEF Supervised
  <2>2. CASE n = m
    <3>1. m \notin DOMAIN children
      <4> SUFFICES ASSUME m \in DOMAIN children PROVE FALSE
        OBVIOUS
      <4>1. PICK j \in 1 .. started : configs[j].name = m
        BY <1>1 DEF Listed
      <4>2. j \in DOMAIN configs /\ j # i
        BY <1>3
      <4> QED
        BY <1>3, <1>4, <1>10, <2>2, <4>1, <4>2, OnceIsFirst
    <3>2. procs[m] = <<>>
      BY <1>1, <3>1 DEF Fresh
    <3>3. PICK c \in Child : c = NewChild(policy)
      BY NewChildType
    <3>4. c.process = None /\ ~c.stopped
      BY <3>3, NewChildType
    <3>5. Len(procs[m]) = 0
      BY <3>2
    <3>6. Good(c, procs[m])
      BY <3>4, <3>5 DEF Good
    <3>7. PICK b \in BOOLEAN : b <=> spawned # {}
      OBVIOUS
    <3>8. children'[m] = SpawnChild(c, m, b)
      BY <1>5, <3>3, <3>7 DEF SpawnChild
    <3>9. procs'[m] = IF b THEN Append(procs[m], Born) ELSE procs[m]
      BY <1>5, <3>7 DEF Started
    <3> QED
      BY <1>1, <2>2, <3>4, <3>6, <3>8, <3>9, SpawnGood
  <2> QED
    BY <2>1, <2>2
<1>11. Watched'
  BY <1>3, <1>10 DEF Watched, Supervised, Once
<1> QED
  BY <1>7, <1>9, <1>11

(* What a tick does to the processes of a name.                            *)
LEMMA TickSpawns ==
  ASSUME TypeOK, NEW spawned \in SUBSET Names, Tick(spawned),
         NEW n \in DOMAIN children
  PROVE  /\ n \notin spawned => procs'[n] = procs[n]
         /\ n \in spawned => /\ procs'[n] = Append(procs[n], Born)
                             /\ Due(Reap(n)) /\ Reap(n) = children[n]
         /\ Good(children[n], procs[n]) => Good(children'[n], procs'[n])
<1>1. ChildrenOK(children, procs) /\ ProcsOK(procs) /\ n \in Names
  BY TypeParts DEF ChildrenOK
<1> DEFINE reaped == [m \in DOMAIN children |-> Reap(m)]
           due == {m \in DOMAIN children : Due(reaped[m])}
<1>2. /\ spawned \subseteq due
      /\ children' = [m \in DOMAIN children |->
                        IF m \in due THEN SpawnChild(reaped[m], m, m \in spawned)
                        ELSE reaped[m]]
  BY DEF Tick
<1>3. procs'[n] = IF n \in spawned THEN Append(procs[n], Born) ELSE procs[n]
  BY <1>1 DEF Tick, Started
<1>4. n \in spawned => Due(Reap(n)) /\ Reap(n) = children[n]
  BY <1>1, <1>2, ReapGood
<1>5. PICK c \in Child : c = Reap(n)
  BY <1>1, ReapType
<1>6. ASSUME Good(children[n], procs[n]) PROVE Good(children'[n], procs'[n])
  <2>1. Good(c, procs[n])
    BY <1>1, <1>5, <1>6, ReapGood
  <2>2. CASE Due(c)
    <3>1. PICK b \in BOOLEAN : b <=> n \in spawned
      OBVIOUS
    <3>2. children'[n] = SpawnChild(c, n, b)
      BY <1>2, <1>5, <2>2, <3>1 DEF SpawnChild
    <3>3. procs'[n] = IF b THEN Append(procs[n], Born) ELSE procs[n]
      BY <1>3, <3>1
    <3> QED
      BY <1>1, <2>1, <2>2, <3>2, <3>3, SpawnGood DEF Due
  <2>3. CASE ~Due(c)
    <3>1. n \notin spawned /\ children'[n] = c
      BY <1>2, <1>5, <2>3
    <3> QED
      BY <1>3, <2>1, <3>1
  <2> QED
    BY <2>2, <2>3
<1> QED
  BY <1>3, <1>4, <1>6

LEMMA TickSInv ==
  ASSUME SInv, NEW spawned \in SUBSET Names, Tick(spawned)
  PROVE  Listed' /\ Fresh' /\ Watched'
<1>1. /\ DOMAIN children' = DOMAIN children /\ spawned \subseteq DOMAIN children
      /\ configs' = configs /\ started' = started /\ stage' = stage
  BY DEF Tick
<1>2. \A n \in Names : n \notin spawned => procs'[n] = procs[n]
  BY DEF Tick, Started
<1>3. Listed' /\ Fresh'
  BY <1>1, <1>2 DEF SInv, Listed, Fresh
<1>4. \A n \in DOMAIN children : Good(children[n], procs[n]) => Good(children'[n], procs'[n])
  BY TickSpawns DEF SInv
<1>5. Watched'
  BY <1>1, <1>4 DEF SInv, Watched, Supervised, Once
<1> QED
  BY <1>3, <1>5

(* A listener that exits was not one that waits.                           *)
LEMMA ExitGood ==
  ASSUME NEW c, NEW ps \in Seq(Process), NEW k \in DOMAIN ps, ps[k].status = "running",
         NEW p \in Process, NEW qs, qs = [ps EXCEPT ![k] = p], Good(c, ps)
  PROVE  Good(c, qs)
<1>1. PICK L \in Nat : L = Len(ps)
  OBVIOUS
<1>2. /\ Len(qs) = L /\ \A j \in 1 .. L : j # k => qs[j] = ps[j]
  BY <1>1
<1>3. \A j \in 1 .. L - 1 : Ended(c.policy, qs[j])
  BY <1>1, <1>2 DEF Good, Ended
<1>4. c.process = None /\ ~c.stopped /\ L > 0 => qs[L] = ps[L]
  BY <1>1, <1>2 DEF Good, Ended
<1> QED
  BY <1>1, <1>2, <1>3, <1>4 DEF Good

LEMMA ExitsSInv ==
  ASSUME SInv, NEW n \in Names, NEW k \in DOMAIN procs[n], ListenerExits(n, k)
  PROVE  Listed' /\ Fresh' /\ Watched'
<1>1. ProcsOK(procs) /\ DOMAIN children \subseteq Names
  BY TypeParts DEF SInv, ChildrenOK
<1>2. PICK status \in {"ok", "failed"} :
        procs' = [procs EXCEPT ![n][k].status = status]
  BY DEF ListenerExits
<1>3. procs[n] \in Seq(Process) /\ procs[n][k] \in Process
  BY <1>1 DEF ProcsOK
<1>4. PICK p \in Process : p = [procs[n][k] EXCEPT !.status = status]
  BY <1>3 DEF Process
<1>5. PICK qs : qs = [procs[n] EXCEPT ![k] = p]
  OBVIOUS
<1>6. procs'[n] = qs /\ \A m \in Names : m # n => procs'[m] = procs[m]
  BY <1>1, <1>2, <1>4, <1>5 DEF ProcsOK
<1>7. UNCHANGED <<configs, started, children, stage>> /\ procs[n][k].status = "running"
  BY DEF ListenerExits, Running
<1>8. procs[n] # <<>>
  BY <1>3
<1>9. Listed' /\ Fresh'
  BY <1>6, <1>7, <1>8 DEF SInv, Listed, Fresh
<1>10. \A c : Good(c, procs[n]) => Good(c, procs'[n])
  BY <1>3, <1>5, <1>6, <1>7, ExitGood
<1>11. Watched'
  BY <1>1, <1>6, <1>7, <1>10 DEF SInv, Watched, Supervised, Once
<1> QED
  BY <1>9, <1>11

LEMMA NoPlaces ==
  ASSUME NEW S, NEW s \in Seq(S), DOMAIN s = DOMAIN <<>>
  PROVE  s = <<>>
<1>1. Len(s) = 0
  <2>1. DOMAIN s = 1 .. Len(s) /\ Len(s) \in Nat
    OBVIOUS
  <2>2. 1 \notin DOMAIN s
    OBVIOUS
  <2> QED
    BY <2>1, <2>2
<1> QED
  BY <1>1, EmptySeq

(* As time passes, what is left to wait and the time since the exit add up *)
(* to no less than before.                                                 *)
LEMMA ElapseGood ==
  ASSUME TypeOK, Elapse, NEW n \in DOMAIN children, Good(children[n], procs[n])
  PROVE  Good(children'[n], procs'[n])
<1>1. ChildrenOK(children, procs) /\ ProcsOK(procs) /\ n \in Names
  BY TypeParts DEF ChildrenOK
<1>2. PICK ps \in Seq(Process) : ps = procs[n]
  BY <1>1 DEF ProcsOK
<1>3. PICK L \in Nat : L = Len(ps)
  OBVIOUS
<1>4. PICK qs : qs = procs'[n]
  OBVIOUS
<1>5. qs = [k \in 1 .. L |->
              IF ps[k].status # "running" /\ ps[k].gone < Backoff[1]
              THEN [ps[k] EXCEPT !.gone = @ + 1] ELSE ps[k]]
  BY <1>1, <1>2, <1>3, <1>4 DEF Elapse, Running
<1>6. qs \in Seq(Process) /\ DOMAIN qs = DOMAIN ps
  BY <1>1, <1>2, <1>4, ElapseProcs DEF ProcsOK, Wane
<1>7. Len(qs) = L
  BY <1>2, <1>3, <1>6
<1>8. ASSUME NEW k \in 1 .. L
      PROVE  /\ qs[k].status = ps[k].status
             /\ ps[k].gone \in 0 .. Backoff[1]
             /\ qs[k].gone = IF ps[k].status # "running" /\ ps[k].gone < Backoff[1]
                             THEN ps[k].gone + 1 ELSE ps[k].gone
  <2>1. ps[k] \in Process
    BY <1>3
  <2> QED
    BY <1>5, <2>1 DEF Process
<1>9. PICK c \in Child : c = children[n]
  BY <1>1 DEF ChildrenOK
<1>10. children'[n] = [c EXCEPT !.wait = Less1(c.wait)]
  BY <1>9 DEF Elapse
<1>11. PICK d : d = children'[n]
  OBVIOUS
<1>12. /\ d.process = c.process /\ d.stopped = c.stopped /\ d.policy = c.policy
       /\ d.wait = Less1(c.wait) /\ c.wait \in Nat
  BY <1>9, <1>10, <1>11 DEF Child
<1>13. ASSUME NEW k \in 1 .. L - 1 PROVE Ended(d.policy, qs[k])
  <2>1. k \in 1 .. L
    OBVIOUS
  <2>2. Ended(c.policy, ps[k])
    BY <1>2, <1>3, <1>9 DEF Good
  <2> QED
    BY <1>8, <1>12, <2>1, <2>2 DEF Ended
<1>14. ASSUME c.process = None, ~c.stopped, L > 0
       PROVE  Ended(d.policy, qs[L]) /\ qs[L].gone + d.wait >= Backoff[1]
  <2>1. Ended(c.policy, ps[L]) /\ ps[L].gone + c.wait >= Backoff[1]
    BY <1>2, <1>3, <1>9, <1>14 DEF Good
  <2>2. L \in 1 .. L /\ Backoff[1] \in Nat
    BY <1>14, BackoffFacts
  <2>3. Ended(d.policy, qs[L])
    BY <1>8, <1>12, <2>1, <2>2 DEF Ended
  <2>4. ps[L].status # "running"
    BY <2>1 DEF Ended
  <2> QED
    BY <1>8, <1>12, <2>1, <2>2, <2>3, <2>4 DEF Less1
<1>15. c.process # None => c.process = L
  BY <1>2, <1>3, <1>9 DEF Good
<1>16. Good(d, qs)
  BY <1>7, <1>12, <1>13, <1>14, <1>15 DEF Good
<1> QED
  BY <1>4, <1>11, <1>16

LEMMA ElapseSInv ==
  ASSUME SInv, Elapse
  PROVE  Listed' /\ Fresh' /\ Watched'
<1>1. ProcsOK(procs)
  BY TypeParts DEF SInv
<1>2. DOMAIN children' = DOMAIN children /\ UNCHANGED <<configs, started, stage>>
  BY DEF Elapse
<1>3. \A n \in Names : procs[n] = <<>> => procs'[n] = <<>>
  <2> SUFFICES ASSUME NEW n \in Names, procs[n] = <<>> PROVE procs'[n] = <<>>
    OBVIOUS
  <2>1. procs'[n] \in Seq(Process) /\ DOMAIN procs'[n] = DOMAIN procs[n]
    BY <1>1, ElapseProcs DEF ProcsOK, Wane
  <2> QED
    BY <2>1, NoPlaces
<1>4. Listed' /\ Fresh'
  BY <1>2, <1>3 DEF SInv, Listed, Fresh
<1>5. Watched'
  BY <1>2, ElapseGood DEF SInv, Watched, Supervised, Once
<1> QED
  BY <1>4, <1>5

(* Shutdown takes every child, and is then no longer watched.              *)
LEMMA KillRestSInv ==
  ASSUME SInv, KillRest
  PROVE  Listed' /\ Fresh' /\ Watched'
<1>1. ProcsOK(procs)
  BY TypeParts DEF SInv
<1>2. DOMAIN children' = DOMAIN children /\ UNCHANGED <<configs, started>>
      /\ stage' = "returned"
  BY DEF KillRest
<1>3. \A n \in Names : procs[n] = <<>> => procs'[n] = <<>>
  <2> SUFFICES ASSUME NEW n \in Names, procs[n] = <<>> PROVE procs'[n] = <<>>
    OBVIOUS
  <2>1. procs'[n] \in Seq(Process) /\ DOMAIN procs'[n] = DOMAIN procs[n]
    BY <1>1, KillRestProcs DEF ProcsOK, Wane
  <2> QED
    BY <2>1, NoPlaces
<1>4. Listed' /\ Fresh'
  BY <1>2, <1>3 DEF SInv, Listed, Fresh
<1> QED
  BY <1>2, <1>4 DEF Watched

LEMMA StageSInv ==
  ASSUME SInv,
         \/ StartThreads \/ SignalCaught \/ SignalKills \/ DaemonKilled
         \/ BeginShutdown \/ AllExited \/ Exit \/ UNCHANGED vars
  PROVE  Listed' /\ Fresh' /\ Watched'
<1>1. UNCHANGED <<configs, started, children, procs>>
  BY DEF StartThreads, SignalCaught, SignalKills, DaemonKilled, BeginShutdown,
         AllExited, Exit, vars
<1>2. stage' \in {"start", "run", "caught", "grace"}
        => stage \in {"start", "run", "caught", "grace"}
  BY DEF StartThreads, SignalCaught, SignalKills, DaemonKilled, BeginShutdown,
         AllExited, Exit, vars
<1> QED
  BY <1>1, <1>2 DEF SInv, Listed, Fresh, Watched, Supervised, Once

LEMMA NextSInv == SInv /\ [Next]_vars => SInv'
BY NextType, SpawnNextKeeps, TickSInv, ExitsSInv, ElapseSInv, KillRestSInv, StageSInv
   DEF Next, SInv

(* Until shutdown returns, every process of a listener but the last has    *)
(* exited in a way after which its policy restarts it: no process runs     *)
(* beside another of its name, none follows one that a policy leaves alone *)
(* (spawn_all, tick), for every configuration and every order of exits,    *)
(* failed spawns and ticks.                                                *)
THEOREM PolicyKept == Spec => []PolicyObeyed
<1>1. SInv => PolicyObeyed
  <2> SUFFICES ASSUME SInv, stage \in {"run", "caught", "grace"},
                      NEW n \in DOMAIN children, Once(n), NEW k \in 1 .. Len(procs[n]) - 1
               PROVE  \/ children[n].policy = "always" /\ ~Running(n, k)
                      \/ children[n].policy = "on-failure" /\ procs[n][k].status = "failed"
    BY DEF PolicyObeyed
  <2>1. Good(children[n], procs[n])
    BY DEF SInv, Watched, Supervised
  <2> QED
    BY <2>1 DEF Good, Ended, Restarts, Running
<1>2. Init => SInv
  BY InitSInv
<1>3. SInv /\ [Next]_vars => SInv'
  BY NextSInv
<1> QED
  BY <1>1, <1>2, <1>3, PTL DEF Spec

(* Only a tick starts a process after another.                             *)
LEMMA OnlyTickRespawns ==
  ASSUME SInv, [Next]_vars, NEW n \in DOMAIN children, Respawned(n),
         stage \in {"run", "caught"}
  PROVE  \E spawned \in SUBSET Names : Tick(spawned) /\ n \in spawned
<1>1. ProcsOK(procs) /\ n \in Names
  BY TypeParts DEF SInv, ChildrenOK
<1>2. ASSUME Wane(procs, procs'), ProcsOK(procs') PROVE FALSE
  <2>1. procs[n] \in Seq(Process) /\ procs'[n] \in Seq(Process)
        /\ DOMAIN procs'[n] = DOMAIN procs[n]
    BY <1>1, <1>2 DEF ProcsOK, Wane
  <2>2. Len(procs'[n]) = Len(procs[n])
    BY <2>1
  <2>3. Len(procs[n]) \in Nat
    BY <2>1
  <2> QED
    BY <2>2, <2>3 DEF Respawned
<1>3. procs' # procs
  <2>1. Len(procs[n]) \in Nat
    BY <1>1 DEF ProcsOK
  <2> QED
    BY <2>1 DEF Respawned
<1>4. ~SpawnNext
  BY DEF SpawnNext
<1>5. PICK spawned \in SUBSET Names : Tick(spawned)
  BY <1>1, <1>2, <1>3, <1>4, KillRestProcs, ElapseProcs, ListenerExitsProcs
     DEF Next, StartThreads, SignalCaught, SignalKills, DaemonKilled, BeginShutdown,
         AllExited, Exit, vars
<1>6. n \in spawned
  <2>1. n \notin spawned => procs'[n] = procs[n]
    BY <1>5, TickSpawns DEF SInv
  <2>2. Len(procs[n]) \in Nat
    BY <1>1 DEF ProcsOK
  <2> QED
    BY <2>1, <2>2 DEF Respawned
<1> QED
  BY <1>5, <1>6

(* A process follows another of its name only when that has been gone for  *)
(* the least delay of BACKOFF_MS: tick schedules the restart of what it    *)
(* reaps and waits for it to be due, however often it runs.                *)
THEOREM NoHurry == Spec => NoTightLoop
<1>1. ASSUME SInv, [Next]_vars, NEW n \in DOMAIN children,
             stage \in {"run", "caught"}, Once(n), Respawned(n)
      PROVE  Last(procs[n]).gone = Backoff[1]
  <2>1. PICK spawned \in SUBSET Names : Tick(spawned) /\ n \in spawned
    BY <1>1, OnlyTickRespawns
  <2>2. Due(children[n])
    BY <1>1, <2>1, TickSpawns DEF SInv
  <2>3. Good(children[n], procs[n])
    BY <1>1 DEF SInv, Watched, Supervised
  <2>4. procs[n] \in Seq(Process) /\ procs[n] # <<>>
    BY <1>1, TypeParts DEF SInv, ChildrenOK, ProcsOK, Respawned
  <2>5. PICK ps \in Seq(Process) : ps = procs[n] /\ ps # <<>>
    BY <2>4
  <2>6. Len(ps) \in Nat /\ Len(ps) > 0 /\ ps[Len(ps)] \in Process
    BY <2>5
  <2>7. ps[Len(ps)].gone \in 0 .. Backoff[1] /\ Backoff[1] \in Nat
    BY <2>6, BackoffFacts DEF Process
  <2>8. children[n].wait = 0 /\ ps[Len(ps)].gone + children[n].wait >= Backoff[1]
    BY <2>2, <2>3, <2>5, <2>6 DEF Due, Good
  <2>9. ps[Len(ps)].gone = Backoff[1]
    BY <2>7, <2>8
  <2> QED
    BY <2>5, <2>9 DEF Last
<1>2. SInv /\ [Next]_vars
        => [\A n \in DOMAIN children :
              stage \in {"run", "caught"} /\ Once(n) /\ Respawned(n) =>
                Last(procs[n]).gone = Backoff[1]]_vars
  BY <1>1
<1>3. Init => SInv
  BY InitSInv
<1>4. SInv /\ [Next]_vars => SInv'
  BY NextSInv
<1> QED
  BY <1>2, <1>3, <1>4, PTL DEF Spec, NoTightLoop
=============================================================================
