----------------------------- MODULE Instances -----------------------------
(***************************************************************************)
(* The daemons of one user, started, ended and killed at any time, and the *)
(* two files they share: the socket (socket_path.rs) and the configuration *)
(* (persist_theme_to_config in main.rs, config.rs).  Every system call     *)
(* that looks at a file or changes one is a step of its own.               *)
(*                                                                         *)
(* A socket is named by the start that made it: <<daemon, start>>.         *)
(***************************************************************************)
EXTENDS Integers, FiniteSets

CONSTANTS Daemons,
          MaxStarts,      \* starts of each daemon (a bound)
          MaxEdits,       \* saves by the user's editor (a bound)
          MaxPersists,    \* themes saved by each start (a bound)
          BadEdits        \* whether the user may save a text that is not TOML

ASSUME InstancesAssumption == /\ MaxStarts \in Nat /\ MaxEdits \in Nat
                              /\ MaxPersists \in Nat /\ BadEdits \in BOOLEAN

NoEntry == <<>>

VARIABLES
  entry,    \* what is at the socket's path
  proc,     \* per daemon: where it is, and what it has found out
  config,   \* awob.toml: its text, the user's saves it has, who wrote it
  lock,     \* the daemons that hold the flock of awob.toml.lock
  temp      \* per daemon: the temporary file of a save

vars == <<entry, proc, config, lock, temp>>

\* A process: its step, the number of its start, the entry it saw first,
\* whether it listens, the document it is saving, and two notes: whether no
\* other process ran since its start, and whether the start failed.
Down == [at |-> "down", starts |-> 0, previous |-> NoEntry, listens |-> FALSE,
         doc |-> 0, persists |-> 0, alone |-> FALSE, failed |-> FALSE]

Socket(d) == <<d, proc[d].starts>>
Listens(s) == \E d \in Daemons : proc[d].listens /\ Socket(d) = s
Up(d) == proc[d].at # "down"

NoFile == [text |-> "toml", edits |-> 0, by |-> "user"]

Init == /\ entry \in {NoEntry, <<"file">>}
        /\ proc = [d \in Daemons |-> Down]
        /\ config = NoFile
        /\ lock = {}
        /\ temp = [d \in Daemons |-> 0]

At(d, a, b) == proc[d].at = a /\ proc' = [proc EXCEPT ![d].at = b]

\* The process ends.  Its descriptors are closed and its flock with them; the
\* entry stays where it is (the loop of run never ends, so Server is not
\* dropped), and so does a temporary file.
Gone(d, failed) ==
  /\ proc' = [proc EXCEPT ![d] = [Down EXCEPT !.starts = proc[d].starts,
                                              !.alone = proc[d].alone, !.failed = failed]]
  /\ lock' = lock \ {d}

files == <<config, lock, temp>>

-----------------------------------------------------------------------------
(* Start-up: the configuration, then Server::bind.                         *)

Start(d) ==
  /\ ~Up(d) /\ proc[d].starts < MaxStarts
  /\ LET others == \E e \in Daemons \ {d} : Up(e)
     IN proc' = [e \in Daemons |->
          IF e = d THEN [Down EXCEPT !.at = "load", !.starts = proc[d].starts + 1, !.alone = ~others]
          ELSE [proc[e] EXCEPT !.alone = FALSE]]
  /\ UNCHANGED <<entry, files>>

\* AwobConfig::load: a text that cannot be read or parsed ends the start.
Load(d) ==
  /\ proc[d].at = "load"
  /\ \/ /\ config.text = "toml" /\ At(d, "load", "probe") /\ UNCHANGED lock
     \/ /\ config.text # "toml" /\ Gone(d, TRUE)
  /\ UNCHANGED <<entry, config, temp>>

\* prepare_existing: what is there?
Probe(d) ==
  /\ proc[d].at = "probe"
  /\ \/ entry = NoEntry /\ At(d, "probe", "stage") /\ UNCHANGED lock
     \/ entry = <<"file">> /\ Gone(d, TRUE)
     \/ /\ entry \notin {NoEntry, <<"file">>}
        /\ proc' = [proc EXCEPT ![d].at = "connect", ![d].previous = entry]
        /\ UNCHANGED lock
  /\ UNCHANGED <<entry, config, temp>>

\* Does anybody listen?  A refusal, or nothing there by now, goes on.
ConnectTo(d) ==
  /\ proc[d].at = "connect"
  /\ IF Listens(entry) THEN Gone(d, TRUE) ELSE At(d, "connect", "recheck") /\ UNCHANGED lock
  /\ UNCHANGED <<entry, config, temp>>

Recheck(d) ==
  /\ proc[d].at = "recheck"
  /\ \/ entry = NoEntry /\ At(d, "recheck", "stage") /\ UNCHANGED lock
     \/ entry # NoEntry /\ entry # proc[d].previous /\ Gone(d, TRUE)
     \/ entry = proc[d].previous /\ At(d, "recheck", "unlink") /\ UNCHANGED lock
  /\ UNCHANGED <<entry, config, temp>>

\* The entry is removed by name: whatever is there by now.
Unlink(d) ==
  /\ proc[d].at = "unlink"
  /\ \/ entry = NoEntry /\ Gone(d, TRUE) /\ UNCHANGED entry
     \/ entry # NoEntry /\ entry' = NoEntry /\ At(d, "unlink", "stage") /\ UNCHANGED lock
  /\ UNCHANGED <<config, temp>>

\* StagingDirectory::create, bind and the mode: all of it out of sight.
Stage(d) ==
  /\ proc[d].at = "stage"
  /\ proc' = [proc EXCEPT ![d].at = "publish", ![d].listens = TRUE]
  /\ UNCHANGED <<entry, files>>

Publish_Replaces(d) ==                     \* mutant: a plain rename
  /\ entry' = Socket(d) /\ At(d, "publish", "serving") /\ UNCHANGED files
\* rename without replacement: the first of two starts wins.
Publish(d) ==
  /\ proc[d].at = "publish"
  /\ \/ entry = NoEntry /\ entry' = Socket(d) /\ At(d, "publish", "serving") /\ UNCHANGED lock
     \/ entry # NoEntry /\ Gone(d, TRUE) /\ UNCHANGED entry
  /\ UNCHANGED <<config, temp>>

\* A later step of run fails: Server::drop removes the entry if it is its own.
DropCheck(d) ==
  /\ At(d, "serving", IF entry = Socket(d) THEN "drop" ELSE "dropped")
  /\ UNCHANGED <<entry, files>>

DropUnlink(d) ==
  /\ proc[d].at \in {"drop", "dropped"}
  /\ entry' = IF proc[d].at = "drop" THEN NoEntry ELSE entry
  /\ Gone(d, FALSE)
  /\ UNCHANGED <<config, temp>>

Bind(d) == \/ Probe(d) \/ ConnectTo(d) \/ Recheck(d) \/ Unlink(d) \/ Stage(d) \/ Publish(d)

\* The process ends or is killed, at any step.
Ends(d) ==
  /\ Up(d) /\ Gone(d, FALSE)
  /\ UNCHANGED <<entry, config, temp>>

-----------------------------------------------------------------------------
(* persist_theme_to_config.  What counts of a document is how many of the  *)
(* user's saves it has; the theme is not part of the model.                *)

Lock_Free(d) ==                            \* mutant: no flock
  /\ proc[d].at = "serving" /\ proc[d].persists < MaxPersists
  /\ lock' = {d}
  /\ proc' = [proc EXCEPT ![d].at = "read", ![d].persists = @ + 1]
  /\ UNCHANGED <<entry, config, temp>>
\* One save at a time in a process (Requests.theme_operations), and one in
\* all of them while the others wait for the flock.
Lock(d) ==
  /\ proc[d].at = "serving" /\ proc[d].persists < MaxPersists /\ lock = {}
  /\ lock' = {d}
  /\ proc' = [proc EXCEPT ![d].at = "read", ![d].persists = @ + 1]
  /\ UNCHANGED <<entry, config, temp>>

\* The file is read.  A text that is not UTF-8 counts as an empty one, a text
\* that is not TOML ends the save.
Read(d) ==
  /\ proc[d].at = "read"
  /\ \/ /\ config.text = "other"
        /\ At(d, "read", "serving") /\ lock' = {}
     \/ /\ config.text # "other"
        /\ proc' = [proc EXCEPT ![d].at = "write",
                      ![d].doc = IF config.text = "toml" THEN config.edits ELSE 0]
        /\ UNCHANGED lock
  /\ UNCHANGED <<entry, config, temp>>

Write_InPlace(d) ==                        \* mutant: the file itself is truncated and written
  /\ At(d, "write", "rename")
  /\ temp' = [temp EXCEPT ![d] = proc[d].doc]
  /\ config' = [config EXCEPT !.text = "other", !.by = "daemon"]
  /\ UNCHANGED <<entry, lock>>
\* A temporary file beside it.
Write(d) ==
  /\ At(d, "write", "rename")
  /\ temp' = [temp EXCEPT ![d] = proc[d].doc]
  /\ UNCHANGED <<entry, config, lock>>

\* The rename, or its failure; both end the save and give back the flock.
Rename(d) ==
  /\ At(d, "rename", "serving")
  /\ lock' = {}
  /\ temp' = [temp EXCEPT ![d] = 0]
  /\ \/ config' = [text |-> "toml", edits |-> temp[d], by |-> "daemon"]
     \/ UNCHANGED config
  /\ UNCHANGED entry

Persist(d) == Lock(d) \/ Read(d) \/ Write(d) \/ Rename(d)

\* The user saves the configuration, from an editor that knows of no lock.
EditorSaves ==
  /\ config.edits < MaxEdits
  /\ \E text \in IF BadEdits THEN {"toml", "other", "unreadable"} ELSE {"toml"} :
       config' = [text |-> text, edits |-> config.edits + 1, by |-> "user"]
  /\ UNCHANGED <<entry, proc, lock, temp>>

-----------------------------------------------------------------------------
Next == \/ \E d \in Daemons : \/ Start(d) \/ Load(d) \/ Bind(d) \/ Persist(d)
                              \/ DropCheck(d) \/ DropUnlink(d) \/ Ends(d)
        \/ EditorSaves

Spec == Init /\ [][Next]_vars

-----------------------------------------------------------------------------
\* A daemon that starts alone comes up, whatever the ones before it were
\* doing when they ended or were killed: no stale socket and no half-written
\* configuration is in its way, only what the user has put there.
LoneStartsSucceed ==
  [][\A d \in Daemons : ~proc[d].failed /\ proc'[d].failed /\ proc[d].alone
       => entry = <<"file">> \/ (config.text # "toml" /\ config.by = "user")]_vars

\* The socket of a daemon that listens goes away only with that daemon, or in
\* the window of a start that had found an older, dead socket in its place or
\* of a failed start that had found its own: a start never removes or
\* replaces what it has found alive (prepare_existing, NOREPLACE).
LiveSocketsSurvive ==
  [][Listens(entry) /\ entry' # entry
       => \E d \in Daemons : \/ Unlink(d) /\ proc[d].previous # entry
                             \/ DropUnlink(d)]_vars

\* What a daemon has saved, no other loses: the user's changes are lost only
\* from a text that came straight from the editor and was saved after the
\* daemon had read its own, or could not be read (the comment on
\* persist_theme_to_config speaks of two daemons and of the editor).
DaemonsKeepEdits == [][config'.edits < config.edits => config.by = "user"]_vars
=============================================================================
