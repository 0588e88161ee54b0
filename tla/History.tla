------------------------------- MODULE History -------------------------------
(***************************************************************************)
(* The daemon's memory of the last value of each (source, event), as in    *)
(* awob-daemon/src/state.rs: entries, the reference counts that tell which *)
(* sources a listener feeds, the expiry order and the byte account, kept   *)
(* in step by record and by every eviction.                                *)
(*                                                                         *)
(* Names are numbers in the order of the strings they stand for, with a    *)
(* length each.  last_value and last_max are one value.                    *)
(***************************************************************************)
EXTENDS Integers, FiniteSets

CONSTANTS
  Sources, Events, Listeners,         \* names
  SourceLen, EventLen, ListenerLen,   \* their lengths in bytes
  NoListener,                         \* listener_id: None
  Values,
  TTL,                                \* HISTORY_TTL, in ticks
  MaxEntries, MaxBytes,               \* MAX_ENTRIES, MAX_IDENTIFIER_BYTES
  MaxTime                             \* bound of the model

ASSUME HistoryAssumption ==
  /\ Sources \subseteq Nat /\ Events \subseteq Nat
  /\ SourceLen \in [Sources -> Nat]
  /\ EventLen \in [Events -> Nat]
  /\ ListenerLen \in [Listeners -> Nat]
  /\ NoListener \notin Listeners
  /\ TTL \in Nat \ {0} /\ MaxEntries \in Nat \ {0} /\ MaxBytes \in Nat
  /\ MaxTime \in Nat

VARIABLES
  h,     \* the History
  now,   \* Instant::now()
  last   \* the last record: its pair and the sources it warned about

vars == <<h, now, last>>

Pairs == Sources \X Events
Ids   == Listeners \cup {NoListener}

-----------------------------------------------------------------------------
(* A History is a record of its four fields.  entries maps a live          *)
(* (source, event) to its Entry; refs counts the entries of a listener and *)
(* a source, a pair the code does not store having count 0.                *)

Cost(pair, lid) ==
  SourceLen[pair[1]] + EventLen[pair[2]]
    + (IF lid = NoListener THEN 0 ELSE ListenerLen[lid])

(* One element for each byte charged for the entries f[pair], pair in K.   *)
Charge(f, K) == UNION {{pair} \X (1 .. Cost(pair, f[pair].lid)) : pair \in K}

(* The entries of f in K that listener and source ls = <<lid, source>> own. *)
Owned(f, K, ls) == {pair \in K : f[pair].lid = ls[1] /\ pair[1] = ls[2]}

ExpiryKey(f, pair) == <<f[pair].seen, pair[1], pair[2]>>

(* A plausible bug: the name comes before the time.                        *)
Before_ByName(j, k) ==
  \/ j[2] < k[2]
  \/ j[2] = k[2] /\ j[3] < k[3]
  \/ j[2] = k[2] /\ j[3] = k[3] /\ j[1] < k[1]

(* The order of BTreeSet<(Instant, Arc<str>, Arc<str>)>.                   *)
Before(j, k) ==
  \/ j[1] < k[1]
  \/ j[1] = k[1] /\ j[2] < k[2]
  \/ j[1] = k[1] /\ j[2] = k[2] /\ j[3] < k[3]

EmptyHistory ==
  [entries |-> [pair \in {} |-> 0],
   refs    |-> [ls \in Listeners \X Sources |-> 0],
   expiry  |-> {},
   bytes   |-> 0]

(* remove, for every expiry key of R.                                      *)
RemoveAll(g, R) ==
  LET gone == {<<k[2], k[3]>> : k \in R}
  IN [entries |-> [pair \in DOMAIN g.entries \ gone |-> g.entries[pair]],
      refs    |-> [ls \in Listeners \X Sources |->
                     g.refs[ls] - Cardinality(Owned(g.entries, gone, ls))],
      expiry  |-> g.expiry \ R,
      bytes   |-> g.bytes - Cardinality(Charge(g.entries, gone))]

(* A plausible bug: an entry of age TTL is kept.                           *)
Expired_Later(t) == {k \in h.expiry : t - k[1] > TTL}

Expired(t) == {k \in h.expiry : t - k[1] >= TTL}

(* evict_expired_at: what has expired comes first in the expiry order.     *)
Swept == RemoveAll(h, Expired(now))

(* A plausible bug: one entry too many.                                    *)
Fits_OneMore(g, cost) ==
  Cardinality(g.expiry) <= MaxEntries /\ g.bytes + cost <= MaxBytes

Fits(g, cost) ==
  Cardinality(g.expiry) < MaxEntries /\ g.bytes + cost <= MaxBytes

(* The loop around remove_oldest removes a key if and only if removing     *)
(* those before it does not make enough room.                              *)
MakeRoom(g, cost) ==
  RemoveAll(g, {k \in g.expiry :
                  ~Fits(RemoveAll(g, {j \in g.expiry : Before(j, k)}), cost)})

(* A plausible bug: the old place in the expiry order stays.               *)
Refresh_KeepsKey(g, pair, value) ==
  [g EXCEPT
     !.entries[pair].value = value,
     !.entries[pair].seen  = now,
     !.expiry = @ \cup {<<now, pair[1], pair[2]>>}]

(* A live entry of the same listener: new value, new place in the order.   *)
Refresh(g, pair, value) ==
  [g EXCEPT
     !.entries[pair].value = value,
     !.entries[pair].seen  = now,
     !.expiry = (@ \ {ExpiryKey(g.entries, pair)})
                  \cup {<<now, pair[1], pair[2]>>}]

Insert(g, pair, lid, value) ==
  [entries |-> [q \in DOMAIN g.entries \cup {pair} |->
                  IF q = pair THEN [value |-> value, seen |-> now, lid |-> lid]
                  ELSE g.entries[q]],
   refs    |-> [ls \in Listeners \X Sources |->
                  g.refs[ls] + (IF ls = <<lid, pair[1]>> THEN 1 ELSE 0)],
   expiry  |-> g.expiry \cup {<<now, pair[1], pair[2]>>},
   bytes   |-> g.bytes + Cost(pair, lid)]

(* The sources the reference counts of g name for a listener.              *)
SourcesOf(g, lid) == {s \in Sources : g.refs[<<lid, s>>] > 0}

(* A plausible bug: warn on every new event of a source.                   *)
Warning_Repeats(g, pair, lid) ==
  IF lid # NoListener /\ Cardinality(SourcesOf(g, lid)) > 1
  THEN SourcesOf(g, lid) ELSE {}

(* RecordOutcome: the sources of the duplicate_listener warning of an      *)
(* insertion that made g, or none.                                         *)
Warning(g, pair, lid) ==
  IF /\ lid # NoListener
     /\ g.refs[<<lid, pair[1]>>] = 1
     /\ Cardinality(SourcesOf(g, lid)) > 1
  THEN SourcesOf(g, lid) ELSE {}

(* get_at: what a reader sees, expired entries being still there or not.   *)
Sees(pair) ==
  pair \in DOMAIN h.entries /\ now - h.entries[pair].seen < TTL

-----------------------------------------------------------------------------
Init ==
  /\ h = EmptyHistory
  /\ now = 0
  /\ last = [pair |-> <<>>, lid |-> NoListener, warned |-> {}]

RecordKnown(pair, lid, value) ==
  /\ pair \in DOMAIN Swept.entries
  /\ Swept.entries[pair].lid = lid
  /\ h' = Refresh(Swept, pair, value)
  /\ last' = [pair |-> pair, lid |-> lid, warned |-> {}]
  /\ UNCHANGED now

(* The pair is new, or came from another listener and loses that entry.    *)
Vacated(pair) ==
  RemoveAll(Swept, {ExpiryKey(Swept.entries, p) :
                      p \in {pair} \cap DOMAIN Swept.entries})

IsNew(pair, lid) ==
  pair \in DOMAIN Swept.entries => Swept.entries[pair].lid # lid

RecordOversized(pair, lid) ==
  /\ IsNew(pair, lid)
  /\ Cost(pair, lid) > MaxBytes
  /\ h' = Vacated(pair)
  /\ last' = [pair |-> pair, lid |-> lid, warned |-> {}]
  /\ UNCHANGED now

RecordNew(pair, lid, value) ==
  /\ IsNew(pair, lid)
  /\ Cost(pair, lid) <= MaxBytes
  /\ h' = Insert(MakeRoom(Vacated(pair), Cost(pair, lid)), pair, lid, value)
  /\ last' = [pair |-> pair, lid |-> lid, warned |-> Warning(h', pair, lid)]
  /\ UNCHANGED now

Record(pair, lid, value) ==
  \/ RecordKnown(pair, lid, value)
  \/ RecordOversized(pair, lid)
  \/ RecordNew(pair, lid, value)

(* entries(): a query evicts before it iterates.                           *)
Query ==
  /\ h' = Swept
  /\ UNCHANGED <<now, last>>

Elapse ==
  /\ now < MaxTime
  /\ now' = now + 1
  /\ UNCHANGED <<h, last>>

Next ==
  \/ \E pair \in Pairs, lid \in Ids, value \in Values : Record(pair, lid, value)
  \/ Query
  \/ Elapse

Spec == Init /\ [][Next]_vars

-----------------------------------------------------------------------------
(* Properties.                                                             *)

Entry == [value : Values, seen : Nat, lid : Ids]

TypeOK ==
  /\ now \in Nat
  /\ DOMAIN h.entries \subseteq Pairs
  /\ \A pair \in DOMAIN h.entries : h.entries[pair] \in Entry
  /\ h.refs \in [Listeners \X Sources -> Nat]
  /\ h.expiry \subseteq Nat \X Sources \X Events
  /\ h.bytes \in Nat
  /\ last.warned \subseteq Sources

(* assert_indexes of the tests: after any calls the expiry order, the      *)
(* reference counts and the byte account say of the entries what they are. *)
(* remove panics, and the eviction loop never ends, if they do not.        *)
Consistent(g) ==
  /\ g.expiry = {ExpiryKey(g.entries, pair) : pair \in DOMAIN g.entries}
  /\ \A ls \in Listeners \X Sources :
        g.refs[ls] = Cardinality(Owned(g.entries, DOMAIN g.entries, ls))
  /\ g.bytes = Cardinality(Charge(g.entries, DOMAIN g.entries))

IndexesAgree == Consistent(h)

(* MAX_ENTRIES and MAX_IDENTIFIER_BYTES are never exceeded.                *)
WithinLimits == Cardinality(h.expiry) <= MaxEntries /\ h.bytes <= MaxBytes

(* A record evicts in the order of age and no more than it must: another   *)
(* entry that is lost had expired, or no entry that stays is older and     *)
(* putting the newest lost one back would exceed a limit.                  *)
EvictsOldestForRoom ==
  [][LET lost == {pair \in DOMAIN h.entries \ DOMAIN h'.entries :
                    /\ pair # last'.pair
                    /\ ExpiryKey(h.entries, pair) \notin Expired(now)}
         stays == (DOMAIN h.entries \cap DOMAIN h'.entries) \ {last'.pair}
     IN /\ \A pair \in lost, q \in stays : h.entries[pair].seen <= h.entries[q].seen
        /\ lost # {} =>
             \/ Cardinality(h'.expiry) + 1 > MaxEntries
             \/ \E q \in lost :
                  /\ \A r \in lost : h.entries[r].seen <= h.entries[q].seen
                  /\ h'.bytes + Cost(q, h.entries[q].lid) > MaxBytes]_vars

(* The duplicate warning is given when a source joins a listener that      *)
(* other sources feed, names the sources whose entries are there after the *)
(* evictions, and is not repeated while the source stays.                  *)
WarnsWhenASourceJoins ==
  [][\A pair \in Pairs, lid \in Ids, value \in Values :
       RecordNew(pair, lid, value) =>
         LET mine == {p \in DOMAIN h'.entries : h'.entries[p].lid = lid}
             fed  == {p[1] : p \in mine}
         IN last'.warned =
              IF /\ lid # NoListener /\ Cardinality(fed) > 1
                 /\ \A p \in mine \ {pair} : p[1] # pair[1]
              THEN fed ELSE {}]_vars

(* get, which filters by age, and query, which evicts, agree on what is    *)
(* there, at the very end of the TTL too.                                  *)
ReadersAgree ==
  [][Query => DOMAIN h'.entries = {pair \in Pairs : Sees(pair)}]_vars

=============================================================================
