-------------------------- MODULE Instances_proofs --------------------------
(***************************************************************************)
(* What the daemons of one user may rely on, for any number of daemons,    *)
(* starts and saves: a lone start succeeds, a live socket stays, and no    *)
(* daemon's save is lost to another.                                       *)
(***************************************************************************)
EXTENDS Instances, TLAPS

Serving == {"serving", "read", "write", "rename", "drop", "dropped"}
Starting == {"load", "probe", "connect", "recheck", "unlink", "stage", "publish"}
Steps == Serving \cup Starting \cup {"down"}

Entry == {NoEntry, <<"file">>} \cup (Daemons \X Nat)

Process == [at : Steps, starts : Nat, previous : Entry, listens : BOOLEAN,
            doc : Nat, persists : Nat, alone : BOOLEAN, failed : BOOLEAN]

Config == [text : {"toml", "other", "unreadable"}, edits : Nat, by : {"user", "daemon"}]

Types == /\ entry \in Entry /\ proc \in [Daemons -> Process]
         /\ config \in Config /\ lock \subseteq Daemons /\ temp \in [Daemons -> Nat]

(* A socket that has been published: never the one a start is still making.*)
Past(s) == /\ s \in Daemons \X Nat
           /\ s[2] <= proc[s[1]].starts
           /\ s[2] = proc[s[1]].starts => proc[s[1]].at \in Serving \cup {"down"}

(* What is found at the path, and what a start has seen there, is the      *)
(* user's file or the socket of a start that got as far as publishing it.  *)
EntriesPast ==
  /\ entry \in {NoEntry, <<"file">>} \/ Past(entry)
  /\ \A d \in Daemons : proc[d].at \in {"connect", "recheck", "unlink"} => Past(proc[d].previous)

(* A daemon listens only from the staging of its socket to its end.        *)
ListenersUp == \A d \in Daemons : proc[d].listens => proc[d].at \in Serving \cup {"publish"}

(* A start that has asked a socket and been refused is right about it.     *)
RefusedIsDead ==
  \A d \in Daemons : proc[d].at \in {"recheck", "unlink"} /\ entry = proc[d].previous
                       => ~Listens(entry)

(* Nobody but the daemon itself changes what a lone start has seen.        *)
AloneSees ==
  \A d \in Daemons : proc[d].alone /\ Up(d) =>
    /\ \A e \in Daemons \ {d} : ~Up(e)
    /\ proc[d].at \in {"connect", "recheck", "unlink"} => entry = proc[d].previous
    /\ proc[d].at \in {"stage", "publish"} => entry = NoEntry

(* No daemon leaves a text behind that is not TOML.                        *)
TextIsWhole == config.text # "toml" => config.by = "user"

(* A save under way holds the flock, and has every one of the user's saves *)
(* that the text of a daemon has.                                          *)
SavesLocked ==
  \A d \in Daemons :
    /\ proc[d].at \in {"read", "write", "rename"} => lock = {d}
    /\ proc[d].at = "write" /\ config.by = "daemon" => proc[d].doc = config.edits
    /\ proc[d].at = "rename" /\ config.by = "daemon" => temp[d] = config.edits

IInv == /\ Types /\ EntriesPast /\ ListenersUp /\ RefusedIsDead
        /\ AloneSees /\ TextIsWhole /\ SavesLocked

-----------------------------------------------------------------------------
(* What the steps of one daemon do to the records of all of them.          *)

Others(d) == \A e \in Daemons \ {d} : proc'[e] = proc[e]

(* Only the step of d changes, from a to b.                                *)
Moves(d, a, b) ==
  /\ proc[d].at = a /\ proc'[d].at = b /\ Others(d)
  /\ proc'[d].starts = proc[d].starts /\ proc'[d].previous = proc[d].previous
  /\ proc'[d].doc = proc[d].doc
  /\ proc'[d].listens <=> proc[d].listens
  /\ proc'[d].alone <=> proc[d].alone
  /\ proc'[d].failed <=> proc[d].failed

Ended(d, failed) ==
  /\ proc'[d].at = "down" /\ Others(d)
  /\ proc'[d].starts = proc[d].starts
  /\ ~proc'[d].listens
  /\ proc'[d].alone <=> proc[d].alone
  /\ proc'[d].failed <=> failed

LEMMA ProcessRecord ==
  ASSUME NEW at \in Steps, NEW starts \in Nat, NEW previous \in Entry, NEW listens \in BOOLEAN,
         NEW doc \in Nat, NEW persists \in Nat, NEW alone \in BOOLEAN, NEW failed \in BOOLEAN
  PROVE  [at |-> at, starts |-> starts, previous |-> previous, listens |-> listens, doc |-> doc,
          persists |-> persists, alone |-> alone, failed |-> failed] \in Process
BY Zenon DEF Process

LEMMA DownProcess == Down \in Process
<1> /\ "down" \in Steps /\ NoEntry \in Entry /\ 0 \in Nat /\ FALSE \in BOOLEAN
  BY DEF Steps, Entry
<1> QED
  BY ProcessRecord, Zenon DEF Down

LEMMA AtMoves ==
  ASSUME Types, NEW d \in Daemons, NEW a \in Steps, NEW b \in Steps, At(d, a, b)
  PROVE  proc' \in [Daemons -> Process] /\ Moves(d, a, b)
<1> DEFINE r == [proc[d] EXCEPT !.at = b]
<1>1. proc[d] \in Process /\ proc[d].at = a
  BY DEF Types, At
<1>2. proc' = [proc EXCEPT ![d] = r]
  BY DEF At
<1>3. r \in Process /\ r.at = b
  BY <1>1 DEF Process
<1>4. /\ r.starts = proc[d].starts /\ r.previous = proc[d].previous
      /\ r.doc = proc[d].doc
  BY <1>1 DEF Process
<1>5. /\ r.listens = proc[d].listens /\ r.alone = proc[d].alone /\ r.failed = proc[d].failed
  BY <1>1 DEF Process
<1> HIDE DEF r
<1>6. proc' \in [Daemons -> Process]
  BY <1>2, <1>3 DEF Types
<1>7. proc'[d] = r
  BY <1>2 DEF Types
<1>8. Others(d)
  BY <1>2 DEF Types, Others
<1> QED
  BY <1>1, <1>3, <1>4, <1>5, <1>6, <1>7, <1>8, Zenon DEF Moves

LEMMA GoneEnds ==
  ASSUME Types, NEW d \in Daemons, NEW failed \in BOOLEAN, Gone(d, failed)
  PROVE  proc' \in [Daemons -> Process] /\ Ended(d, failed) /\ lock' = lock \ {d}
<1> DEFINE r == [Down EXCEPT !.starts = proc[d].starts, !.alone = proc[d].alone,
                             !.failed = failed]
<1>1. proc[d] \in Process
  BY DEF Types
<1>2. proc' = [proc EXCEPT ![d] = r] /\ lock' = lock \ {d}
  BY DEF Gone
<1>3. proc[d].starts \in Nat /\ proc[d].alone \in BOOLEAN /\ Down.at = "down" /\ ~Down.listens
  BY <1>1 DEF Process, Down
<1>4. r \in Process
  BY <1>3, DownProcess DEF Process
<1>5. r.at = "down" /\ r.starts = proc[d].starts /\ r.listens = Down.listens
      /\ r.alone = proc[d].alone /\ r.failed = failed
  BY <1>3, DownProcess DEF Process
<1> HIDE DEF r
<1>6. proc' \in [Daemons -> Process]
  BY <1>2, <1>4 DEF Types
<1>7. proc'[d] = r
  BY <1>2 DEF Types
<1>8. Others(d)
  BY <1>2 DEF Types, Others
<1> QED
  BY <1>2, <1>3, <1>5, <1>6, <1>7, <1>8, Zenon DEF Ended

LEMMA EntryFacts ==
  ASSUME NEW d, NEW n
  PROVE  <<d, n>> # NoEntry /\ <<d, n>> # <<"file">> /\ <<"file">> # NoEntry
BY DEF NoEntry

LEMMA StartEffect ==
  ASSUME Types, NEW d \in Daemons, Start(d)
  PROVE  /\ proc' \in [Daemons -> Process]
         /\ proc'[d].at = "load" /\ proc'[d].starts = proc[d].starts + 1
         /\ ~proc'[d].listens /\ ~proc'[d].failed
         /\ proc'[d].alone => \A e \in Daemons \ {d} : ~Up(e)
         /\ \A e \in Daemons \ {d} :
              /\ proc'[e].at = proc[e].at /\ proc'[e].starts = proc[e].starts
              /\ proc'[e].previous = proc[e].previous /\ proc'[e].doc = proc[e].doc
              /\ proc'[e].listens <=> proc[e].listens
              /\ proc'[e].failed <=> proc[e].failed
              /\ ~proc'[e].alone
<1> DEFINE others == \E e \in Daemons \ {d} : Up(e)
           r == [Down EXCEPT !.at = "load", !.starts = proc[d].starts + 1, !.alone = ~others]
           q(e) == [proc[e] EXCEPT !.alone = FALSE]
<1>1. \A e \in Daemons : proc[e] \in Process
  BY DEF Types
<1>2. proc' = [e \in Daemons |-> IF e = d THEN r ELSE q(e)]
  BY DEF Start
<1>3. /\ proc[d].starts + 1 \in Nat /\ (~others) \in BOOLEAN /\ "load" \in Steps
      /\ ~Down.listens /\ ~Down.failed
  BY <1>1 DEF Process, Steps, Starting, Down
<1> HIDE DEF others
<1>4. r \in Process
  BY <1>3, DownProcess DEF Process
<1>5. /\ r.at = "load" /\ r.starts = proc[d].starts + 1 /\ r.listens = Down.listens
      /\ r.alone = ~others /\ r.failed = Down.failed
  BY <1>3, DownProcess DEF Process
<1>6. \A e \in Daemons : q(e) \in Process
  BY <1>1 DEF Process
<1>7. \A e \in Daemons :
        /\ q(e).at = proc[e].at /\ q(e).starts = proc[e].starts
        /\ q(e).previous = proc[e].previous /\ q(e).doc = proc[e].doc
        /\ q(e).listens = proc[e].listens /\ q(e).failed = proc[e].failed
        /\ q(e).alone = FALSE
  BY <1>1 DEF Process
<1> HIDE DEF r, q
<1>8. proc' \in [Daemons -> Process]
  BY <1>2, <1>4, <1>6
<1>9. proc'[d] = r /\ \A e \in Daemons \ {d} : proc'[e] = q(e)
  BY <1>2
<1>10. proc'[d].alone => \A e \in Daemons \ {d} : ~Up(e)
  BY <1>5, <1>9, Zenon DEF others
<1>11. \A e \in Daemons \ {d} :
              /\ proc'[e].at = proc[e].at /\ proc'[e].starts = proc[e].starts
              /\ proc'[e].previous = proc[e].previous /\ proc'[e].doc = proc[e].doc
              /\ proc'[e].listens <=> proc[e].listens
              /\ proc'[e].failed <=> proc[e].failed
              /\ ~proc'[e].alone
  BY ZenonT(40), <1>7, <1>9
<1> QED
  BY <1>3, <1>5, <1>8, <1>9, <1>10, <1>11, Zenon

(* Starts are numbered upwards, and only a new start takes a daemon back   *)
(* to the steps before its socket is published: what is past stays past.   *)
Forward ==
  \A e \in Daemons :
    \/ proc'[e].starts > proc[e].starts
    \/ /\ proc'[e].starts = proc[e].starts
       /\ proc[e].at \in Serving \cup {"down"} => proc'[e].at \in Serving \cup {"down"}

LEMMA PastStays ==
  ASSUME Types, proc' \in [Daemons -> Process], Forward, NEW s, Past(s)
  PROVE  Past(s)'
<1>1. s[1] \in Daemons /\ s[2] \in Nat
  BY DEF Past
<1>2. proc[s[1]].starts \in Nat /\ proc'[s[1]].starts \in Nat
  BY <1>1 DEF Types, Process
<1> QED
  BY <1>1, <1>2 DEF Past, Forward

-----------------------------------------------------------------------------
(* The invariant is preserved: by a move that changes no file, ...         *)
QuietMoves ==
  {<<"load", "probe">>, <<"probe", "stage">>, <<"connect", "recheck">>, <<"recheck", "stage">>,
   <<"recheck", "unlink">>, <<"serving", "drop">>, <<"serving", "dropped">>}

LEMMA QuietMoveKeeps ==
  ASSUME IInv, NEW d \in Daemons, NEW a \in Steps, NEW b \in Steps, <<a, b>> \in QuietMoves,
         At(d, a, b), UNCHANGED <<entry, config, lock, temp>>,
         b = "stage" => entry = NoEntry,
         b = "recheck" => ~Listens(entry),
         b = "unlink" => entry = proc[d].previous
  PROVE  IInv'
<1>1. Types' /\ Moves(d, a, b)
  BY AtMoves DEF IInv, Types
<1>2. Forward
  BY <1>1 DEF QuietMoves, Forward, Moves, Others, Serving, IInv, Types, Process
<1>3. EntriesPast'
  <2>1. entry' \in {NoEntry, <<"file">>} \/ Past(entry)'
    BY <1>1, <1>2, PastStays DEF IInv, EntriesPast, Types
  <2>2. \A e \in Daemons : proc'[e].at \in {"connect", "recheck", "unlink"} =>
          proc'[e].previous = proc[e].previous /\ proc[e].at \in {"connect", "recheck", "unlink"}
    BY <1>1 DEF QuietMoves, Moves, Others
  <2>3. \A e \in Daemons : proc'[e].at \in {"connect", "recheck", "unlink"} => Past(proc[e].previous)'
    BY <1>1, <1>2, <2>2, PastStays DEF IInv, EntriesPast, Types
  <2> QED
    BY <2>1, <2>2, <2>3 DEF EntriesPast
<1>4. ListenersUp'
  BY <1>1 DEF QuietMoves, Moves, Others, Serving, IInv, ListenersUp
<1>5. \A s : Listens(s)' <=> Listens(s)
  BY <1>1 DEF Moves, Others, Listens, Socket
<1>6. RefusedIsDead'
  BY <1>1, <1>5 DEF QuietMoves, Moves, Others, IInv, RefusedIsDead
<1>7. AloneSees'
  BY <1>1 DEF QuietMoves, Moves, Others, IInv, AloneSees, Up
<1>8. TextIsWhole' /\ SavesLocked'
  BY <1>1 DEF QuietMoves, Moves, Others, IInv, TextIsWhole, SavesLocked
<1> QED
  BY <1>1, <1>3, <1>4, <1>6, <1>7, <1>8 DEF IInv

(* ... by the end of a process, which may take its own entry with it, ...  *)
LEMMA EndKeeps ==
  ASSUME IInv, NEW d \in Daemons, NEW failed \in BOOLEAN, Up(d), Gone(d, failed),
         entry' \in {entry, NoEntry}, UNCHANGED <<config, temp>>
  PROVE  IInv'
<1>1. Types' /\ Ended(d, failed) /\ lock' = lock \ {d}
  BY GoneEnds DEF IInv, Types, Entry
<1>2. Forward
  BY <1>1 DEF Forward, Ended, Others, IInv, Types, Process
<1>3. EntriesPast'
  <2>1. entry' \in {NoEntry, <<"file">>} \/ Past(entry)'
    BY <1>1, <1>2, PastStays DEF IInv, EntriesPast, Types
  <2>2. \A e \in Daemons : proc'[e].at \in {"connect", "recheck", "unlink"} =>
          proc'[e].previous = proc[e].previous /\ proc[e].at \in {"connect", "recheck", "unlink"}
    BY <1>1 DEF Ended, Others
  <2>3. \A e \in Daemons : proc'[e].at \in {"connect", "recheck", "unlink"} => Past(proc[e].previous)'
    BY <1>1, <1>2, <2>2, PastStays DEF IInv, EntriesPast, Types
  <2> QED
    BY <2>1, <2>2, <2>3 DEF EntriesPast
<1>4. ListenersUp'
  BY <1>1 DEF Ended, Others, IInv, ListenersUp
<1>5. \A s : Listens(s)' => Listens(s)
  BY <1>1 DEF Ended, Others, Listens, Socket
<1>6. RefusedIsDead'
  <2>1. \A e \in Daemons : proc'[e].at \in {"recheck", "unlink"} => proc'[e] = proc[e]
    BY <1>1 DEF Ended, Others
  <2>2. CASE entry' = entry
    BY <1>1, <1>5, <2>1, <2>2 DEF IInv, RefusedIsDead, Listens, Ended, Others, Socket
  <2>3. CASE entry' = NoEntry
    <3>1. \A e \in Daemons : Socket(e)' # NoEntry
      BY EntryFacts DEF Socket
    <3> QED
      BY <2>3, <3>1 DEF RefusedIsDead, Listens
  <2> QED
    BY <2>2, <2>3
<1>7. AloneSees'
  BY <1>1 DEF Ended, Others, IInv, AloneSees, Up
<1>8. TextIsWhole' /\ SavesLocked'
  BY <1>1 DEF Ended, Others, IInv, TextIsWhole, SavesLocked
<1> QED
  BY <1>1, <1>3, <1>4, <1>6, <1>7, <1>8 DEF IInv

(* ... by a start, ...                                                     *)
LEMMA StartKeeps ==
  ASSUME IInv, NEW d \in Daemons, Start(d)
  PROVE  IInv'
<1> DEFINE Same(e) ==
      /\ proc'[e].at = proc[e].at /\ proc'[e].starts = proc[e].starts
      /\ proc'[e].previous = proc[e].previous /\ proc'[e].doc = proc[e].doc
      /\ proc'[e].listens <=> proc[e].listens
<1>1. /\ proc' \in [Daemons -> Process]
      /\ proc'[d].at = "load" /\ proc'[d].starts = proc[d].starts + 1 /\ ~proc'[d].listens
      /\ proc'[d].alone => \A e \in Daemons \ {d} : ~Up(e)
      /\ \A e \in Daemons \ {d} : Same(e) /\ ~proc'[e].alone
  BY StartEffect DEF IInv
<1>2. UNCHANGED <<entry, config, lock, temp>> /\ ~Up(d)
  BY DEF Start, files
<1>3. Types'
  BY <1>1, <1>2 DEF IInv, Types
<1>4. Forward
  BY <1>1 DEF Forward, IInv, Types, Process
<1>5. EntriesPast'
  <2>1. entry' \in {NoEntry, <<"file">>} \/ Past(entry)'
    BY <1>1, <1>2, <1>4, PastStays DEF IInv, EntriesPast
  <2>2. \A e \in Daemons : proc'[e].at \in {"connect", "recheck", "unlink"} =>
          proc'[e].previous = proc[e].previous /\ proc[e].at \in {"connect", "recheck", "unlink"}
    BY <1>1
  <2>3. \A e \in Daemons : proc'[e].at \in {"connect", "recheck", "unlink"} => Past(proc[e].previous)'
    BY <1>1, <1>4, <2>2, PastStays DEF IInv, EntriesPast
  <2> QED
    BY <2>1, <2>2, <2>3 DEF EntriesPast
<1>6. ListenersUp'
  BY <1>1 DEF IInv, ListenersUp
<1>7. RefusedIsDead'
  BY <1>1, <1>2 DEF IInv, RefusedIsDead, Listens, Socket
<1>8. AloneSees'
  BY <1>1, <1>2 DEF IInv, AloneSees, Up
<1>9. TextIsWhole' /\ SavesLocked'
  BY <1>1, <1>2 DEF IInv, TextIsWhole, SavesLocked
<1> QED
  BY <1>3, <1>5, <1>6, <1>7, <1>8, <1>9 DEF IInv

(* ... by what a start does to the socket's path, ...                      *)
LEMMA ProbeKeeps ==
  ASSUME IInv, NEW d \in Daemons, Probe(d)
  PROVE  IInv'
<1>1. CASE entry = NoEntry /\ At(d, "probe", "stage") /\ UNCHANGED lock
  BY <1>1, QuietMoveKeeps DEF Probe, QuietMoves, Steps, Starting
<1>2. CASE entry = <<"file">> /\ Gone(d, TRUE)
  BY <1>2, EndKeeps DEF Probe, Up
<1>3. CASE /\ entry \notin {NoEntry, <<"file">>}
           /\ proc' = [proc EXCEPT ![d].at = "connect", ![d].previous = entry]
           /\ UNCHANGED lock
  <2>0. /\ UNCHANGED <<entry, config, lock, temp>> /\ proc[d] \in Process /\ Past(entry)
        /\ proc[d].at = "probe"
    BY <1>3 DEF Probe, IInv, Types, EntriesPast
  <2>1. [proc[d] EXCEPT !.at = "connect", !.previous = entry] \in Process
    BY <2>0 DEF Process, Steps, Starting, IInv, Types
  <2>2. /\ proc' \in [Daemons -> Process] /\ Others(d)
        /\ proc'[d].at = "connect" /\ proc'[d].previous = entry
        /\ proc'[d].starts = proc[d].starts /\ proc'[d].doc = proc[d].doc
        /\ proc'[d].listens = proc[d].listens /\ proc'[d].alone = proc[d].alone
    BY <1>3, <2>0, <2>1 DEF IInv, Types, Process, Others
  <2>3. Types'
    BY <2>0, <2>2 DEF IInv, Types
  <2>4. Forward
    BY <2>0, <2>2 DEF Forward, Others, Serving
  <2>5. Past(entry)'
    BY <2>0, <2>2, <2>4, PastStays DEF IInv
  <2>6. EntriesPast'
    <3>1. \A e \in Daemons \ {d} : proc'[e].at \in {"connect", "recheck", "unlink"} => Past(proc[e].previous)'
      BY <2>2, <2>4, PastStays DEF IInv, EntriesPast, Others
    <3> QED
      BY <2>0, <2>2, <2>5, <3>1 DEF EntriesPast, Others
  <2>7. ListenersUp'
    BY <2>0, <2>2 DEF IInv, ListenersUp, Others, Serving
  <2>8. RefusedIsDead'
    BY <2>0, <2>2 DEF IInv, RefusedIsDead, Listens, Socket, Others
  <2>9. AloneSees'
    BY <2>0, <2>2 DEF IInv, AloneSees, Up, Others
  <2>10. TextIsWhole' /\ SavesLocked'
    BY <2>0, <2>2 DEF IInv, TextIsWhole, SavesLocked, Others
  <2> QED
    BY <2>3, <2>6, <2>7, <2>8, <2>9, <2>10 DEF IInv
<1> QED
  BY <1>1, <1>2, <1>3 DEF Probe

LEMMA UnlinkKeeps ==
  ASSUME IInv, NEW d \in Daemons, Unlink(d)
  PROVE  IInv'
<1>1. CASE entry = NoEntry /\ Gone(d, TRUE) /\ UNCHANGED entry
  BY <1>1, EndKeeps DEF Unlink, Up
<1>2. CASE entry # NoEntry /\ entry' = NoEntry /\ At(d, "unlink", "stage") /\ UNCHANGED lock
  <2>1. Moves(d, "unlink", "stage") /\ proc' \in [Daemons -> Process]
    BY <1>2, AtMoves DEF IInv, Steps, Starting
  <2>2. UNCHANGED <<config, lock, temp>>
    BY <1>2 DEF Unlink
  <2>3. Types'
    BY <1>2, <2>1, <2>2 DEF IInv, Types, Entry
  <2>4. Forward
    BY <2>1 DEF Forward, Others, Moves, Serving
  <2>5. EntriesPast'
    <3>1. \A e \in Daemons : proc'[e].at \in {"connect", "recheck", "unlink"} =>
            proc'[e] = proc[e] /\ Past(proc[e].previous)'
      BY <2>1, <2>4, PastStays DEF IInv, EntriesPast, Others, Moves
    <3> QED
      BY <1>2, <3>1 DEF EntriesPast
  <2>6. ListenersUp'
    BY <2>1 DEF IInv, ListenersUp, Others, Moves, Serving
  <2>7. RefusedIsDead'
    <3>1. \A e \in Daemons : Socket(e)' # NoEntry
      BY EntryFacts DEF Socket
    <3> QED
      BY <1>2, <3>1 DEF RefusedIsDead, Listens
  <2>8. AloneSees'
    BY <1>2, <2>1 DEF IInv, AloneSees, Up, Others, Moves
  <2>9. TextIsWhole' /\ SavesLocked'
    BY <2>1, <2>2 DEF IInv, TextIsWhole, SavesLocked, Others, Moves
  <2> QED
    BY <2>3, <2>5, <2>6, <2>7, <2>8, <2>9 DEF IInv
<1> QED
  BY <1>1, <1>2 DEF Unlink

LEMMA StageKeeps ==
  ASSUME IInv, NEW d \in Daemons, Stage(d)
  PROVE  IInv'
<1>1. /\ UNCHANGED <<entry, config, lock, temp>> /\ proc[d] \in Process /\ proc[d].at = "stage"
      /\ proc' = [proc EXCEPT ![d] = [proc[d] EXCEPT !.at = "publish", !.listens = TRUE]]
  BY DEF Stage, files, IInv, Types
<1>2. [proc[d] EXCEPT !.at = "publish", !.listens = TRUE] \in Process
  BY <1>1 DEF Process, Steps, Starting
<1>3. /\ proc' \in [Daemons -> Process] /\ Others(d)
      /\ proc'[d].at = "publish" /\ proc'[d].starts = proc[d].starts
      /\ proc'[d].alone = proc[d].alone
  BY <1>1, <1>2 DEF IInv, Types, Process, Others
<1>4. Types'
  BY <1>1, <1>3 DEF IInv, Types
<1>5. Forward
  BY <1>1, <1>3 DEF Forward, Others, Serving
<1>6. EntriesPast'
  <2>1. entry' \in {NoEntry, <<"file">>} \/ Past(entry)'
    BY <1>1, <1>3, <1>5, PastStays DEF IInv, EntriesPast
  <2>2. \A e \in Daemons : proc'[e].at \in {"connect", "recheck", "unlink"} =>
          proc'[e] = proc[e] /\ Past(proc[e].previous)'
    BY <1>3, <1>5, PastStays DEF IInv, EntriesPast, Others
  <2> QED
    BY <2>1, <2>2 DEF EntriesPast
<1>7. ListenersUp'
  BY <1>3 DEF IInv, ListenersUp, Others
<1>8. RefusedIsDead'
  \* The new listener is at a socket that is not published, so not one seen.
  <2>1. \A e \in Daemons : proc'[e].at \in {"recheck", "unlink"} =>
          /\ proc'[e] = proc[e] /\ Past(proc[e].previous) /\ proc[e].previous # Socket(d)
    BY <1>1, <1>3 DEF IInv, EntriesPast, Others, Past, Socket, Serving
  <2> QED
    BY <1>1, <1>3, <2>1 DEF IInv, RefusedIsDead, Listens, Socket, Others
<1>9. AloneSees'
  BY <1>1, <1>3 DEF IInv, AloneSees, Up, Others
<1>10. TextIsWhole' /\ SavesLocked'
  BY <1>1, <1>3 DEF IInv, TextIsWhole, SavesLocked, Others
<1> QED
  BY <1>4, <1>6, <1>7, <1>8, <1>9, <1>10 DEF IInv

LEMMA PublishKeeps ==
  ASSUME IInv, NEW d \in Daemons, Publish(d)
  PROVE  IInv'
<1>1. CASE entry # NoEntry /\ Gone(d, TRUE) /\ UNCHANGED entry
  BY <1>1, EndKeeps DEF Publish, Up
<1>2. CASE entry = NoEntry /\ entry' = Socket(d) /\ At(d, "publish", "serving") /\ UNCHANGED lock
  <2>1. Moves(d, "publish", "serving") /\ proc' \in [Daemons -> Process]
    BY <1>2, AtMoves DEF IInv, Steps, Starting, Serving
  <2>2. UNCHANGED <<config, lock, temp>>
    BY <1>2 DEF Publish
  <2>3. Socket(d) \in Daemons \X Nat /\ Socket(d)[1] = d /\ Socket(d)[2] = proc[d].starts
    BY DEF Socket, IInv, Types, Process
  <2>4. Types'
    BY <1>2, <2>1, <2>2, <2>3 DEF IInv, Types, Entry
  <2>5. Forward
    BY <2>1 DEF Forward, Others, Moves, Serving
  <2>6. EntriesPast'
    <3>1. \A e \in Daemons : proc'[e].at \in {"connect", "recheck", "unlink"} =>
            proc'[e] = proc[e] /\ Past(proc[e].previous)'
      BY <2>1, <2>5, PastStays DEF IInv, EntriesPast, Others, Moves
    <3>2. Past(entry)'
      BY <1>2, <2>1, <2>3 DEF Past, Moves, Serving, IInv, Types, Process
    <3> QED
      BY <3>1, <3>2 DEF EntriesPast
  <2>7. ListenersUp'
    BY <2>1 DEF IInv, ListenersUp, Others, Moves, Serving
  <2>8. RefusedIsDead'
    <3>1. \A e \in Daemons : proc'[e].at \in {"recheck", "unlink"} => proc'[e].previous # Socket(d)
      BY <2>1, <2>3 DEF IInv, EntriesPast, Others, Moves, Past, Serving
    <3> QED
      BY <1>2, <3>1 DEF RefusedIsDead
  <2>9. AloneSees'
    BY <1>2, <2>1 DEF IInv, AloneSees, Up, Others, Moves
  <2>10. TextIsWhole' /\ SavesLocked'
    BY <2>1, <2>2 DEF IInv, TextIsWhole, SavesLocked, Others, Moves
  <2> QED
    BY <2>4, <2>6, <2>7, <2>8, <2>9, <2>10 DEF IInv
<1> QED
  BY <1>1, <1>2 DEF Publish

LEMMA OtherStartStepsKeep ==
  ASSUME IInv, NEW d \in Daemons,
         Load(d) \/ ConnectTo(d) \/ Recheck(d) \/ DropCheck(d) \/ DropUnlink(d) \/ Ends(d)
  PROVE  IInv'
<1> USE DEF Up
<1>1. CASE Load(d)
  BY <1>1, QuietMoveKeeps, EndKeeps DEF Load, QuietMoves, Steps, Starting
<1>2. CASE ConnectTo(d)
  BY <1>2, QuietMoveKeeps, EndKeeps DEF ConnectTo, QuietMoves, Steps, Starting
<1>3. CASE Recheck(d)
  BY <1>3, QuietMoveKeeps, EndKeeps DEF Recheck, QuietMoves, Steps, Starting
<1>4. CASE DropCheck(d)
  BY <1>4, QuietMoveKeeps DEF DropCheck, files, QuietMoves, Steps, Serving
<1>5. CASE DropUnlink(d)
  BY <1>5, EndKeeps DEF DropUnlink
<1>6. CASE Ends(d)
  BY <1>6, EndKeeps DEF Ends
<1> QED
  BY <1>1, <1>2, <1>3, <1>4, <1>5, <1>6

(* ... and by the steps of a save, and the user's own.                     *)
InService(a, b) == a \in {"serving", "read", "write", "rename"}
                   /\ b \in {"serving", "read", "write", "rename"}

(* A step between serving and saving leaves the parts about sockets alone. *)
LEMMA SaveStepKeepsSockets ==
  ASSUME IInv, NEW d \in Daemons, proc' \in [Daemons -> Process], Others(d),
         InService(proc[d].at, proc'[d].at), entry' = entry,
         proc'[d].starts = proc[d].starts, proc'[d].listens <=> proc[d].listens,
         proc'[d].alone <=> proc[d].alone
  PROVE  EntriesPast' /\ ListenersUp' /\ RefusedIsDead' /\ AloneSees'
<1>1. Forward
  BY DEF Forward, Others, Serving, InService
<1>2. EntriesPast'
  <2>1. entry' \in {NoEntry, <<"file">>} \/ Past(entry)'
    BY <1>1, PastStays DEF IInv, EntriesPast
  <2>2. \A e \in Daemons : proc'[e].at \in {"connect", "recheck", "unlink"} =>
          proc'[e] = proc[e] /\ Past(proc[e].previous)'
    BY <1>1, PastStays DEF IInv, EntriesPast, Others, InService
  <2> QED
    BY <2>1, <2>2 DEF EntriesPast
<1>3. ListenersUp'
  BY DEF IInv, ListenersUp, Others, InService, Serving
<1>4. RefusedIsDead'
  BY DEF IInv, RefusedIsDead, Listens, Socket, Others, InService
<1>5. AloneSees'
  BY DEF IInv, AloneSees, Up, Others, InService
<1> QED
  BY <1>2, <1>3, <1>4, <1>5

LEMMA LockKeeps ==
  ASSUME IInv, NEW d \in Daemons, Lock(d)
  PROVE  IInv'
<1>1. /\ UNCHANGED <<entry, config, temp>> /\ lock = {} /\ lock' = {d}
      /\ proc[d] \in Process /\ proc[d].at = "serving"
      /\ proc' = [proc EXCEPT ![d] = [proc[d] EXCEPT !.at = "read", !.persists = proc[d].persists + 1]]
  BY DEF Lock, IInv, Types
<1>2. [proc[d] EXCEPT !.at = "read", !.persists = proc[d].persists + 1] \in Process
  <2>1. proc[d].persists + 1 \in Nat /\ "read" \in Steps
    BY <1>1 DEF Process, Steps, Serving
  <2> QED
    BY <1>1, <2>1 DEF Process
<1>3. /\ proc' \in [Daemons -> Process] /\ Others(d)
      /\ proc'[d].at = "read" /\ proc'[d].starts = proc[d].starts
      /\ proc'[d].alone = proc[d].alone /\ proc'[d].listens = proc[d].listens
  BY <1>1, <1>2 DEF IInv, Types, Process, Others
<1>4. Types'
  BY <1>1, <1>3 DEF IInv, Types
<1>5. EntriesPast' /\ ListenersUp' /\ RefusedIsDead' /\ AloneSees'
  BY <1>1, <1>3, SaveStepKeepsSockets DEF InService
<1>6. TextIsWhole' /\ SavesLocked'
  BY <1>1, <1>3 DEF IInv, TextIsWhole, SavesLocked, Others
<1> QED
  BY <1>4, <1>5, <1>6 DEF IInv

LEMMA ReadKeeps ==
  ASSUME IInv, NEW d \in Daemons, Read(d)
  PROVE  IInv'
<1>0. /\ UNCHANGED <<entry, config, temp>> /\ proc[d] \in Process /\ proc[d].at = "read"
      /\ lock = {d}
  BY DEF Read, IInv, Types, SavesLocked
<1>1. CASE At(d, "read", "serving") /\ lock' = {}
  <2>1. Moves(d, "read", "serving") /\ proc' \in [Daemons -> Process]
    BY <1>1, AtMoves DEF IInv, Steps, Serving
  <2>2. EntriesPast' /\ ListenersUp' /\ RefusedIsDead' /\ AloneSees'
    BY <1>0, <2>1, SaveStepKeepsSockets DEF InService, Moves
  <2>3. Types' /\ TextIsWhole' /\ SavesLocked'
    BY <1>0, <1>1, <2>1 DEF IInv, Types, TextIsWhole, SavesLocked, Others, Moves
  <2> QED
    BY <2>2, <2>3 DEF IInv
<1>2. CASE /\ config.text # "other" /\ UNCHANGED lock
           /\ proc' = [proc EXCEPT ![d].at = "write",
                         ![d].doc = IF config.text = "toml" THEN config.edits ELSE 0]
  <2> DEFINE doc == IF config.text = "toml" THEN config.edits ELSE 0
  <2>1. doc \in Nat
    BY DEF IInv, Types, Config
  <2>2. config.by = "daemon" => doc = config.edits
    BY DEF IInv, TextIsWhole
  <2> HIDE DEF doc
  <2>3. [proc[d] EXCEPT !.at = "write", !.doc = doc] \in Process
    BY <1>0, <2>1 DEF Process, Steps, Serving
  <2>4. proc' = [proc EXCEPT ![d] = [proc[d] EXCEPT !.at = "write", !.doc = doc]]
    BY <1>2 DEF doc
  <2>5. /\ proc' \in [Daemons -> Process] /\ Others(d)
        /\ proc'[d].at = "write" /\ proc'[d].starts = proc[d].starts /\ proc'[d].doc = doc
        /\ proc'[d].alone = proc[d].alone /\ proc'[d].listens = proc[d].listens
    BY <1>0, <2>3, <2>4 DEF IInv, Types, Process, Others
  <2>6. EntriesPast' /\ ListenersUp' /\ RefusedIsDead' /\ AloneSees'
    BY <1>0, <2>5, SaveStepKeepsSockets DEF InService
  <2>7. Types' /\ TextIsWhole' /\ SavesLocked'
    BY <1>0, <1>2, <2>2, <2>5 DEF IInv, Types, TextIsWhole, SavesLocked, Others
  <2> QED
    BY <2>6, <2>7 DEF IInv
<1> QED
  BY <1>1, <1>2 DEF Read

LEMMA WriteKeeps ==
  ASSUME IInv, NEW d \in Daemons, Write(d)
  PROVE  IInv'
<1>1. /\ UNCHANGED <<entry, config, lock>> /\ proc[d] \in Process
      /\ temp' = [temp EXCEPT ![d] = proc[d].doc] /\ At(d, "write", "rename")
  BY DEF Write, IInv, Types
<1>2. Moves(d, "write", "rename") /\ proc' \in [Daemons -> Process]
  BY <1>1, AtMoves DEF IInv, Steps, Serving
<1>3. EntriesPast' /\ ListenersUp' /\ RefusedIsDead' /\ AloneSees'
  BY <1>1, <1>2, SaveStepKeepsSockets DEF InService, Moves
<1>4. Types'
  BY <1>1, <1>2 DEF IInv, Types, Process
<1>5. TextIsWhole' /\ SavesLocked'
  BY <1>1, <1>2 DEF IInv, Types, TextIsWhole, SavesLocked, Others, Moves
<1> QED
  BY <1>3, <1>4, <1>5 DEF IInv

LEMMA RenameKeeps ==
  ASSUME IInv, NEW d \in Daemons, Rename(d)
  PROVE  IInv'
<1>1. /\ entry' = entry /\ lock' = {} /\ temp' = [temp EXCEPT ![d] = 0]
      /\ lock = {d}
      /\ \/ config' = [text |-> "toml", edits |-> temp[d], by |-> "daemon"]
         \/ config' = config
  BY DEF Rename, At, IInv, SavesLocked
<1>2. Moves(d, "rename", "serving") /\ proc' \in [Daemons -> Process]
  BY AtMoves DEF Rename, IInv, Steps, Serving
<1>3. EntriesPast' /\ ListenersUp' /\ RefusedIsDead' /\ AloneSees'
  BY <1>1, <1>2, SaveStepKeepsSockets DEF InService, Moves
<1>4. config' \in Config /\ TextIsWhole'
  BY <1>1 DEF IInv, Types, Config, TextIsWhole
<1>5. Types'
  BY <1>1, <1>2, <1>4 DEF IInv, Types
<1>6. SavesLocked'
  BY <1>1, <1>2 DEF IInv, SavesLocked, Others, Moves
<1> QED
  BY <1>3, <1>4, <1>5, <1>6 DEF IInv

LEMMA EditorKeeps ==
  ASSUME IInv, EditorSaves
  PROVE  IInv'
<1>1. PICK text \in {"toml", "other", "unreadable"} :
        config' = [text |-> text, edits |-> config.edits + 1, by |-> "user"]
  BY DEF EditorSaves
<1>2. config' \in Config /\ config'.by = "user"
  BY <1>1 DEF Config, IInv, Types
<1>3. UNCHANGED <<entry, proc, lock, temp>>
  BY DEF EditorSaves
<1>4. EntriesPast' /\ ListenersUp' /\ RefusedIsDead' /\ AloneSees'
  BY <1>3 DEF IInv, EntriesPast, Past, ListenersUp, RefusedIsDead, Listens, Socket, AloneSees, Up
<1>5. Types' /\ TextIsWhole' /\ SavesLocked'
  BY <1>2, <1>3 DEF IInv, Types, TextIsWhole, SavesLocked
<1> QED
  BY <1>4, <1>5 DEF IInv

-----------------------------------------------------------------------------
LEMMA InitKeeps == Init => IInv
<1> SUFFICES ASSUME Init PROVE IInv
  OBVIOUS
<1>1. \A d \in Daemons : proc[d] = Down
  BY DEF Init
<1>2. Down.at = "down" /\ ~Down.listens /\ ~Down.alone
  BY DEF Down
<1>3. Types
  BY DownProcess DEF Init, Types, Entry, NoFile, Config
<1>4. EntriesPast /\ RefusedIsDead /\ SavesLocked
  BY <1>1, <1>2 DEF Init, EntriesPast, RefusedIsDead, SavesLocked
<1>5. ListenersUp /\ AloneSees
  BY <1>1, <1>2, Zenon DEF ListenersUp, AloneSees
<1>6. TextIsWhole
  BY DEF Init, NoFile, TextIsWhole
<1> QED
  BY <1>3, <1>4, <1>5, <1>6 DEF IInv

LEMMA NextKeeps == IInv /\ [Next]_vars => IInv'
<1> SUFFICES ASSUME IInv, [Next]_vars PROVE IInv'
  OBVIOUS
<1>1. CASE EditorSaves
  BY <1>1, EditorKeeps
<1>2. CASE UNCHANGED vars
  BY <1>2 DEF vars, IInv, Types, EntriesPast, Past, ListenersUp, RefusedIsDead, Listens, Socket,
              AloneSees, Up, TextIsWhole, SavesLocked
<1>3. ASSUME NEW d \in Daemons,
             \/ Start(d) \/ Load(d) \/ Bind(d) \/ Persist(d)
             \/ DropCheck(d) \/ DropUnlink(d) \/ Ends(d)
      PROVE  IInv'
  BY <1>3, StartKeeps, OtherStartStepsKeep, ProbeKeeps, UnlinkKeeps, StageKeeps, PublishKeeps,
     LockKeeps, ReadKeeps, WriteKeeps, RenameKeeps DEF Bind, Persist
<1> QED
  BY <1>1, <1>2, <1>3 DEF Next

LEMMA Invariant == Spec => []IInv
BY InitKeeps, NextKeeps, PTL DEF Spec

-----------------------------------------------------------------------------
(* A step of d that ends no start is no failure of d, nor of another.      *)
LEMMA FailureIsAnEnd ==
  ASSUME IInv, NEW d \in Daemons, NEW e \in Daemons, ~proc[e].failed, proc'[e].failed,
         \/ Start(d) \/ Load(d) \/ Bind(d) \/ Persist(d)
         \/ DropCheck(d) \/ DropUnlink(d) \/ Ends(d)
  PROVE  e = d /\ Gone(d, TRUE) /\ (Load(d) \/ Bind(d))
<1>1. ASSUME NEW a \in Steps, NEW b \in Steps, At(d, a, b) PROVE FALSE
  BY <1>1, AtMoves DEF IInv, Moves, Others
<1>2. ASSUME Gone(d, FALSE) PROVE FALSE
  BY <1>2, GoneEnds DEF IInv, Ended, Others
<1>3. ASSUME Gone(d, TRUE) PROVE e = d
  BY <1>3, GoneEnds DEF IInv, Ended, Others
<1>4. ~Start(d)
  BY StartEffect DEF IInv
<1>5. CASE Load(d) \/ ConnectTo(d) \/ Recheck(d) \/ Unlink(d) \/ Publish(d)
  BY <1>1, <1>3, <1>5 DEF Load, ConnectTo, Recheck, Unlink, Publish, Bind, Steps, Starting, Serving
<1>6. CASE DropCheck(d) \/ DropUnlink(d) \/ Ends(d)
  BY <1>1, <1>2, <1>6 DEF DropCheck, DropUnlink, Ends, Steps, Serving
<1>7. ASSUME NEW r, proc' = [proc EXCEPT ![d] = r], r.failed = proc[d].failed PROVE FALSE
  BY <1>7 DEF IInv, Types
<1>8. CASE Probe(d)
  <2>1. CASE proc' = [proc EXCEPT ![d].at = "connect", ![d].previous = entry]
    <3>1. [proc[d] EXCEPT !.at = "connect", !.previous = entry].failed = proc[d].failed
      BY DEF IInv, Types, Process
    <3> QED
      BY <1>7, <2>1, <3>1
  <2> QED
    BY <1>1, <1>3, <1>8, <2>1 DEF Probe, Bind, Steps, Starting
<1>9. CASE Stage(d)
  <2>1. [proc[d] EXCEPT !.at = "publish", !.listens = TRUE].failed = proc[d].failed
    BY DEF IInv, Types, Process
  <2> QED
    BY <1>7, <1>9, <2>1 DEF Stage
<1>10. CASE Lock(d)
  <2>1. [proc[d] EXCEPT !.at = "read", !.persists = proc[d].persists + 1].failed = proc[d].failed
    BY DEF IInv, Types, Process
  <2>2. proc' = [proc EXCEPT ![d] = [proc[d] EXCEPT !.at = "read", !.persists = proc[d].persists + 1]]
    BY <1>10 DEF Lock, IInv, Types
  <2> QED
    BY <1>7, <2>1, <2>2
<1>11. CASE Read(d) \/ Write(d) \/ Rename(d)
  <2> DEFINE doc == IF config.text = "toml" THEN config.edits ELSE 0
  <2>1. CASE proc' = [proc EXCEPT ![d].at = "write", ![d].doc = doc]
    <3> HIDE DEF doc
    <3>1. [proc[d] EXCEPT !.at = "write", !.doc = doc].failed = proc[d].failed
      BY DEF IInv, Types, Process
    <3> QED
      BY <1>7, <2>1, <3>1
  <2> QED
    BY <1>1, <1>11, <2>1 DEF Read, Write, Rename, Steps, Serving
<1> QED
  BY <1>4, <1>5, <1>6, <1>8, <1>9, <1>10, <1>11 DEF Bind, Persist

(* A daemon that starts alone comes up, wherever the ones before it were   *)
(* killed: the socket it finds refuses it and is removed, the staging      *)
(* directory and the temporary file are its own, and the configuration it  *)
(* reads is whole, for every save is renamed into place (bind,             *)
(* prepare_existing, persist_theme_to_config).                             *)
THEOREM LoneStarts == Spec => LoneStartsSucceed
<1>1. ASSUME IInv, [Next]_vars, NEW e \in Daemons, ~proc[e].failed, proc'[e].failed, proc[e].alone
      PROVE  entry = <<"file">> \/ (config.text # "toml" /\ config.by = "user")
  <2>1. PICK d \in Daemons :
             \/ Start(d) \/ Load(d) \/ Bind(d) \/ Persist(d)
             \/ DropCheck(d) \/ DropUnlink(d) \/ Ends(d)
    BY <1>1 DEF Next, EditorSaves, vars
  <2>2. e = d /\ Gone(d, TRUE) /\ (Load(d) \/ Bind(d))
    BY <1>1, <2>1, FailureIsAnEnd
  <2>3. proc'[d].at = "down" /\ proc[d] \in Process
    BY <1>1, <2>2, GoneEnds DEF IInv, Ended, Types
  <2>4. ASSUME NEW a \in Steps, NEW b \in Steps \ {"down"}, At(d, a, b) PROVE FALSE
    BY <1>1, <2>3, <2>4, AtMoves DEF IInv, Moves
  <2>5. CASE Load(d)
    BY <1>1, <2>4, <2>5 DEF Load, IInv, TextIsWhole, Steps, Starting
  <2>6. CASE Probe(d)
    <3>1. ~(proc' = [proc EXCEPT ![d].at = "connect", ![d].previous = entry])
      BY <1>1, <2>3 DEF IInv, Types, Process
    <3> QED
      BY <2>4, <2>6, <3>1 DEF Probe, Steps, Starting
  <2>7. CASE ConnectTo(d)
    <3>1. Listens(entry) /\ proc[d].at = "connect"
      BY <2>4, <2>7 DEF ConnectTo, Steps, Starting
    <3>2. PICK f \in Daemons : proc[f].listens
      BY <3>1 DEF Listens
    <3> QED
      BY <1>1, <2>2, <3>1, <3>2 DEF IInv, ListenersUp, AloneSees, Up, Serving
  <2>8. CASE Recheck(d)
    BY <1>1, <2>2, <2>4, <2>8 DEF Recheck, IInv, AloneSees, Up, Steps, Starting
  <2>9. CASE Unlink(d)
    <3>1. entry = NoEntry /\ proc[d].at = "unlink"
      BY <2>4, <2>9 DEF Unlink, Steps, Starting
    <3>2. Past(proc[d].previous) /\ entry = proc[d].previous
      BY <1>1, <2>2, <3>1 DEF IInv, AloneSees, Up, EntriesPast
    <3> QED
      BY <3>1, <3>2, EntryFacts DEF Past
  <2>10. CASE Stage(d)
    BY <1>1, <2>3, <2>10 DEF Stage, IInv, Types, Process
  <2>11. CASE Publish(d)
    <3>1. entry # NoEntry /\ proc[d].at = "publish"
      BY <2>4, <2>11 DEF Publish, Steps, Serving, Starting
    <3> QED
      BY <1>1, <2>2, <3>1 DEF IInv, AloneSees, Up
  <2> QED
    BY <2>2, <2>5, <2>6, <2>7, <2>8, <2>9, <2>10, <2>11 DEF Bind
<1>2. IInv /\ [Next]_vars =>
        [\A d \in Daemons : ~proc[d].failed /\ proc'[d].failed /\ proc[d].alone
           => entry = <<"file">> \/ (config.text # "toml" /\ config.by = "user")]_vars
  BY <1>1
<1> QED
  BY <1>2, Invariant, PTL DEF Spec, LoneStartsSucceed

(* The entry of a daemon that listens is removed only by its own end or in *)
(* the windows between a last look at an entry and its removal: otherwise  *)
(* a start unlinks the dead entry it has probed and publishes with         *)
(* NOREPLACE (prepare_existing, bind, Drop).                               *)
THEOREM LiveSocketsStay == Spec => LiveSocketsSurvive
<1>1. ASSUME IInv, [Next]_vars, Listens(entry), entry' # entry
      PROVE  \E d \in Daemons : \/ Unlink(d) /\ proc[d].previous # entry
                                \/ DropUnlink(d)
  <2>1. PICK d \in Daemons : Unlink(d) \/ Publish(d) \/ DropUnlink(d)
    BY <1>1 DEF Next, EditorSaves, vars, Start, Load, Bind, Probe, ConnectTo, Recheck, Stage,
                Persist, Lock, Read, Write, Rename, DropCheck, Ends
  <2>2. CASE Unlink(d)
    BY <1>1, <2>2 DEF Unlink, IInv, RefusedIsDead
  <2>3. ~Publish(d)
    BY <1>1, EntryFacts DEF Publish, Listens, Socket
  <2> QED
    BY <2>1, <2>2, <2>3
<1>2. IInv /\ [Next]_vars =>
        [Listens(entry) /\ entry' # entry
           => \E d \in Daemons : \/ Unlink(d) /\ proc[d].previous # entry
                                 \/ DropUnlink(d)]_vars
  BY <1>1
<1> QED
  BY <1>2, Invariant, PTL DEF Spec, LiveSocketsSurvive

(* What a daemon has saved into awob.toml, no other loses: whoever renames *)
(* has held the lock since it read, so the text it replaces is the one it  *)
(* edited, unless the editor has saved in between                          *)
(* (persist_theme_to_config).                                              *)
THEOREM EditsKept == Spec => DaemonsKeepEdits
<1>1. ASSUME IInv, [Next]_vars, config'.edits < config.edits
      PROVE  config.by = "user"
  <2>1. config.edits \in Nat /\ config.by \in {"user", "daemon"} /\ config' # config
    BY <1>1 DEF IInv, Types, Config
  <2>2. CASE EditorSaves
    <3>1. config'.edits = config.edits + 1
      BY <2>2 DEF EditorSaves
    <3> QED
      BY <1>1, <2>1, <3>1
  <2>3. ASSUME NEW d \in Daemons, Rename(d) PROVE config.by = "user"
    <3>1. proc[d].at = "rename" /\ config'.edits = temp[d]
      BY <2>1, <2>3 DEF Rename, At
    <3> QED
      BY <1>1, <2>1, <3>1 DEF IInv, SavesLocked
  <2> QED
    BY <1>1, <2>1, <2>2, <2>3 DEF Next, vars, Start, Load, Bind, Probe, ConnectTo, Recheck, Stage,
                Unlink, Publish, Persist, Lock, Read, Write, DropCheck, DropUnlink, Ends, files
<1>2. IInv /\ [Next]_vars => [config'.edits < config.edits => config.by = "user"]_vars
  BY <1>1
<1> QED
  BY <1>2, Invariant, PTL DEF Spec, DaemonsKeepEdits
=============================================================================
