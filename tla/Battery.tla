------------------------------ MODULE Battery ------------------------------
(***************************************************************************)
(* The battery listener.  It keeps a reading of every battery, from the    *)
(* kernel's events and from sysfs, which may lag behind each other, adds   *)
(* them up to one percentage and one state, and alerts when the state      *)
(* changes or a discharge enters a band the user asked for.                *)
(*                                                                         *)
(* Time is in units of BURST_POLL_INTERVAL.                                *)
(***************************************************************************)
EXTENDS Integers, Sequences, FiniteSetsExt, SequencesExt

CONSTANTS Batteries,       \* numbers, in the order of their paths
          Weight,          \* per battery: energy_full
          Capacities,      \* percentages a battery may have
          Statuses,        \* and its states
          States,          \* --states
          AlertBands,      \* --alert-bands
          BurstDuration, RescanInterval,
          MaxReports       \* changes and events (a bound)

\* "none" is what a battery that has not been read reads as.
ASSUME BatteryAssumption ==
  RescanInterval \in Nat \ {0} /\ BurstDuration \in Nat /\ "none" \notin Statuses \cup States

VARIABLES
  supply,   \* sysfs: the batteries there are, what can be read of each
  uevents,  \* events of the kernel that have not been read
  reports,  \* changes and events so far
  calm,     \* how long ago the last of them was
  battery,  \* the listener's thread: its batteries, cache and timers
  told      \* news: the last alert it has sent, or else what it found at first;
            \* silent: what it has found since and taken for its first observation

batteryVars == <<supply, uevents, reports, calm, battery, told>>

Untold == [state |-> "none", band |-> "none"]
NoReading == [capacity |-> 0, state |-> "none", weight |-> 0]

\* The attributes of a battery; energy_full and charge_full count as one.
Attributes == {"capacity", "status", "energy_full"}

\* read_battery, where the capacity can be read.
Reading(b) == LET file == supply[b]
              IN [capacity |-> file.capacity,
                  state |-> IF "status" \in file.reads THEN file.state ELSE "unknown",
                  weight |-> IF "energy_full" \in file.reads THEN Weight[b] ELSE 1]

Idling == [known |-> {}, cache |-> [b \in Batteries |-> NoReading], last |-> Untold,
           burst |-> 0, since |-> 0, wait |-> 0]

\* A battery that is plugged in, and one that is not yet.
Plugged == [there : {TRUE}, reads : {Attributes}, capacity : Capacities, state : Statuses]
Missing == [there |-> FALSE, reads |-> Attributes, capacity |-> 0, state |-> "none"]

BatteryInit ==
  /\ supply \in [Batteries -> Plugged \cup {Missing}]
  /\ uevents = <<>> /\ reports = 0 /\ calm = 0
  /\ battery = Idling /\ told = [news |-> Untold, silent |-> Untold]

-----------------------------------------------------------------------------
(* What the readings come to.                                              *)

Rank(state) == CASE state = "charging" -> 0 [] state = "discharging" -> 1 [] state = "full" -> 2
                 [] state = "pending" -> 3 [] state = "empty" -> 4 [] OTHER -> 5

Held(cache) == {b \in Batteries : cache[b] # NoReading}

\* The mean of the capacities by the weights w, rounded.
Mean(cache, w) ==
  LET total == MapThenSumSet(LAMBDA b : w[b], Held(cache))
      parts == MapThenSumSet(LAMBDA b : cache[b].capacity * w[b], Held(cache))
  IN (2 * parts + total) \div (2 * total)

\* aggregate: the mean by weight, the plain one where nothing weighs anything,
\* and the state that counts most.
Aggregate(cache) ==
  LET weighs == \E b \in Held(cache) : cache[b].weight > 0
      first == CHOOSE b \in Held(cache) : \A c \in Held(cache) : Rank(cache[b].state) <= Rank(cache[c].state)
  IN [percent |-> Mean(cache, [b \in Held(cache) |-> IF weighs THEN cache[b].weight ELSE 1]),
      state |-> cache[first].state]

\* band_for, over BANDS.
Band(percent) == CASE percent <= 5 -> "empty" [] percent \in 6..20 -> "caution"
                   [] percent \in 21..50 -> "low" [] percent \in 51..80 -> "good"
                   [] OTHER -> "full"

Outlook(cache) == LET all == Aggregate(cache) IN [state |-> all.state, band |-> Band(all.percent)]

\* should_fire: the first observation is silent, a new state is not, and in a
\* discharge neither is a new band of those asked for.
ShouldFire(last, now) ==
  /\ last # Untold
  /\ \/ last.state # now.state
     \/ now.state = "discharging" /\ now.band # last.band /\ now.band \in AlertBands

\* What an observation leaves: an alert, or a silent one.  Nobody is told of
\* the first of all either, but the user finds it so.
Tell(last, now) ==
  IF now.state \in States /\ ShouldFire(last, now) THEN [news |-> now, silent |-> Untold]
  ELSE IF told.news = Untold THEN [told EXCEPT !.news = now]
  ELSE IF now.state \in States /\ last = Untold THEN [told EXCEPT !.silent = now]
  ELSE told

\* evaluate_and_emit, the alert included; one that cannot be sent is lost.
Evaluate_Filtered(cache, last) ==          \* mutant: what is filtered out is remembered too
  IF Held(cache) = {} THEN [last |-> last, told |-> told]
  ELSE [last |-> Outlook(cache), told |-> Tell(last, Outlook(cache))]
Evaluate(cache, last) ==
  IF Held(cache) = {} THEN [last |-> last, told |-> told]
  ELSE LET now == Outlook(cache)
       IN [last |-> IF now.state \in States THEN now ELSE last, told |-> Tell(last, now)]

\* refresh_cache_from_sysfs: a battery that cannot be read keeps its reading.
Refresh(cache, known) ==
  [b \in Batteries |-> IF b \in known /\ supply[b].there /\ "capacity" \in supply[b].reads
                       THEN Reading(b) ELSE cache[b]]

\* update_cache_from_event, for each event in turn, so that the last of a
\* battery counts.  An event without a capacity takes one of the cache, of any
\* battery, as the events before it have left it.
Apply(cache, guess) ==
  [b \in Batteries |->
     LET own == {i \in DOMAIN uevents : uevents[i].battery = b}
         e   == uevents[Max(own)]
     IN IF own = {} THEN cache[b]
        ELSE [capacity |-> IF e.capacity >= 0 THEN e.capacity ELSE guess, state |-> e.state,
              weight |-> IF cache[b] = NoReading THEN 1 ELSE cache[b].weight]]
Guesses(cache) ==
  IF \A i \in DOMAIN uevents : uevents[i].capacity >= 0 THEN {0}
  ELSE (IF Held(cache) = {} THEN {0} ELSE {cache[b].capacity : b \in Held(cache)})
    \cup {uevents[i].capacity : i \in {j \in DOMAIN uevents : /\ uevents[j].battery \in Batteries
                                                              /\ uevents[j].capacity >= 0}}

-----------------------------------------------------------------------------
(* The kernel.                                                             *)

\* An event: of a battery, with or without its capacity and its state, or of
\* an adapter.
Events(b) == [battery : {b}, capacity : {supply'[b].capacity, -1}, state : {supply'[b].state, "unknown"}]
Adapter == [battery |-> 0, capacity |-> 0, state |-> "none"]

\* A battery is plugged in, its charge or state changes, or one of its
\* attributes cannot be read for a while; an event of its own tells of it, one
\* of the adapter, or none.
Report(b) ==
  /\ reports < MaxReports
  /\ \/ ~supply[b].there /\ \E file \in Plugged : supply' = [supply EXCEPT ![b] = file]
     \/ \E c \in Capacities : supply' = [supply EXCEPT ![b].capacity = c]
     \/ \E s \in Statuses : supply' = [supply EXCEPT ![b].state = s]
     \/ \E a \in Attributes : supply' = [supply EXCEPT ![b].reads = IF a \in @ THEN @ \ {a} ELSE @ \cup {a}]
  /\ supply' # supply /\ supply'[b].there
  /\ reports' = reports + 1 /\ calm' = 0
  /\ uevents' \in {uevents} \cup {Append(uevents, e) : e \in IF battery.known = {} THEN {}
                                                          ELSE Events(b) \cup {Adapter}}
  /\ UNCHANGED <<battery, told>>

-----------------------------------------------------------------------------
(* The listener.                                                           *)

\* wait_for_batteries finds some; they are read and evaluated once.
FindBatteries ==
  /\ battery.known = {}
  /\ LET known == {b \in Batteries : supply[b].there}
         cache == Refresh(battery.cache, known)
         result == Evaluate(cache, Untold)
     IN /\ known # {}
        /\ battery' = [Idling EXCEPT !.known = known, !.cache = cache, !.last = result.last,
                                     !.wait = RescanInterval]
        /\ told' = result.told
  /\ UNCHANGED <<supply, uevents, reports, calm>>

\* Whether to read all batteries again.
NeedsRefresh(event, own, inBurst, due) == ~own /\ (event \/ inBurst \/ due)

\* One pass of the loop: the events are drained, sysfs is read unless they told
\* of a battery, and the result is evaluated.
WakeBattery(guess) ==
  LET event == uevents # <<>>
      own == \E i \in DOMAIN uevents : uevents[i].battery \in Batteries
      burst == IF event THEN BurstDuration ELSE battery.burst
      due == battery.since >= RescanInterval
      updated == Apply(battery.cache, guess)
      cache == IF NeedsRefresh(event, own, burst > 0, due) THEN Refresh(updated, battery.known) ELSE updated
      evaluates == event \/ burst > 0 \/ due
      result == IF evaluates THEN Evaluate(cache, battery.last)
                ELSE [last |-> battery.last, told |-> told]
      since == IF evaluates THEN 0 ELSE battery.since
  IN /\ battery.known # {} /\ (event \/ battery.wait = 0)
     /\ battery' = [battery EXCEPT !.cache = cache, !.last = result.last, !.burst = burst,
                                   !.since = since,
                                   !.wait = IF burst > 0 THEN 1 ELSE RescanInterval - since]
     /\ told' = result.told
     /\ uevents' = <<>>
     /\ UNCHANGED <<supply, reports, calm>>

Less(n) == IF n = 0 THEN 0 ELSE n - 1
BatteryElapse ==
  /\ battery.known # {} /\ uevents = <<>> /\ battery.wait > 0
  /\ battery' = [battery EXCEPT !.burst = Less(@), !.wait = Less(@), !.since = @ + 1]
  /\ calm' = IF calm > RescanInterval THEN calm ELSE calm + 1
  /\ UNCHANGED <<supply, uevents, reports, told>>

BatteryNext == \/ \E b \in Batteries : Report(b)
               \/ FindBatteries
               \/ \E guess \in Guesses(battery.cache) : WakeBattery(guess)
               \/ BatteryElapse

-----------------------------------------------------------------------------
\* What the user has last been told, or found the listener started with, is
\* the state the listener knows of, and in a discharge the band if it is one
\* to alert for: what moves on moves on together, in spite of filter and bands.
\* With one exception, which the code makes where it returns before it seeds
\* last: if what it found at first is not in --states, then the first state
\* that is gets no alert, it alone and until the next alert.
\* And once the kernel has been calm for a rescan interval that state and band
\* are those of the batteries, whatever events were incomplete or missing and
\* whatever could not be read meanwhile.
LastHeard == IF told.silent # Untold THEN told.silent ELSE told.news

BatteryAgrees ==
  LET real == Refresh(battery.cache, Batteries)
  IN /\ battery.last # Untold =>
          /\ LastHeard.state = battery.last.state
          /\ LastHeard.state = "discharging" /\ battery.last.band \in AlertBands => LastHeard.band = battery.last.band
     /\ told.silent # Untold => told.news.state \notin States
     /\ (/\ battery.known # {} /\ calm > RescanInterval
         /\ \A b \in Batteries : supply[b].there => supply[b].reads = Attributes /\ b \in battery.known)
        => /\ battery.cache = real
           /\ Outlook(real).state \in States => battery.last = Outlook(real)
=============================================================================
