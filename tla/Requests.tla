------------------------------ MODULE Requests ------------------------------
(***************************************************************************)
(* The requests that change the daemon's shared state, and the threads     *)
(* that race with them: IPC clients that send and that change the theme,   *)
(* the reload thread behind the file watcher, an editor that saves theme   *)
(* files and the Wayland thread that takes commands (awob-daemon/src/      *)
(* requests.rs, main.rs, watcher.rs, theme_loader.rs).                     *)
(*                                                                         *)
(* A theme change holds the theme_operations lock from its snapshot to the *)
(* end of its save, and the shared lock only for the snapshot and for the  *)
(* publication.  Each action below is one such critical section, or what   *)
(* happens between two; only publication is cut in two, because the editor *)
(* takes no lock and can save in the gap where nothing is watched.         *)
(***************************************************************************)
EXTENDS Integers, Sequences

CONSTANTS
  Clients,       \* IPC connections; each has one request in progress
  Reloader,      \* the thread that reads the reload channel
  Names,         \* themes on disk
  Embedded,      \* the theme built into the daemon
  Palettes,      \* files that can be the forced palette
  None,          \* Rust's None
  Broken,        \* content of a file that is missing or does not parse
  Start,         \* the theme the daemon is started with
  StartsBroken,  \* the sets of files that may be broken at start
  Headless,      \* whether there may be no Wayland thread (--no-surface)
  Pairs,         \* (source, event) of sends
  Anonymous,     \* the same for sends that name no source
  ChanCap,       \* capacity of the surface channel (64 in the code)
  MaxSends, MaxChanges, MaxEdits  \* bounds of the model

Files == Names \cup Palettes

ASSUME RequestsAssumption ==
  /\ Reloader \notin Clients
  /\ Embedded \notin Files /\ None \notin Files \cup {Embedded}
  /\ Names \cap Palettes = {}
  /\ Broken \notin Nat
  /\ Start \in Names \cup {Embedded}
  /\ StartsBroken \subseteq SUBSET Files
  /\ Headless \subseteq BOOLEAN
  /\ Pairs \cap Anonymous = {}
  /\ None \notin Nat
  /\ ChanCap \in Nat \ {0}
  /\ MaxSends \in Nat /\ MaxChanges \in Nat /\ MaxEdits \in Nat

VARIABLES
  disk,      \* what the theme files hold, a new number for every save
  edits,     \* saves so far
  shared,    \* theme, force_palette, history: the fields of Shared
  watching,  \* the files whose directory is watched
  signals,   \* messages in the reload channel
  surface,   \* the Wayland thread: "none", "running" or "gone"
  chan,      \* commands it has not handled
  applied,   \* the theme and the values of the commands it has handled
  config,    \* the theme awob.toml names
  pc, job,   \* of each thread: the step it is at, what it works on
  asked,     \* theme changes requested so far
  sent,      \* sends accepted so far
  forgotten  \* per pair: the values the history no longer had when asked for
             \* them (what has happened, no part of the program)

vars == <<disk, edits, shared, watching, signals, surface, chan, applied,
          config, pc, job, asked, sent, forgotten>>

Procs == Clients \cup {Reloader}

-----------------------------------------------------------------------------
(* theme_loader.  A loaded theme remembers what it read; it is watched for *)
(* exactly the files it read, and the embedded theme reads none itself.    *)

Reads(name, palette) == {name, palette} \cap Files

Load(name, palette) ==
  [name |-> name, palette |-> palette,
   content |-> [f \in Reads(name, palette) |-> disk[f]]]

Loads(name, palette) == \A f \in Reads(name, palette) : disk[f] # Broken

WatchPaths(theme) == DOMAIN theme.content

-----------------------------------------------------------------------------
(* The surface handle.  Without a Wayland thread every command succeeds.   *)

Admits == surface = "none" \/ (surface = "running" /\ Len(chan) < ChanCap)

Enqueue(command) ==
  chan' = IF surface = "running" THEN Append(chan, command) ELSE chan

-----------------------------------------------------------------------------
(* The two locks, as the steps during which a thread holds them.           *)

HoldsOperations == {"load", "publish", "rewatch", "save"}

(* A plausible bug: nobody takes the lock.                                 *)
OperationsFree_Always == TRUE

OperationsFree == \A p \in Procs : pc[p] \notin HoldsOperations
SharedFree     == \A p \in Procs : pc[p] # "rewatch"

(* Where a thread waits when it has no request.                            *)
Rest(p) == IF p = Reloader THEN "recv" ELSE "idle"

Goes(p, step) == pc' = [pc EXCEPT ![p] = step]
Finishes(p)   == Goes(p, Rest(p)) /\ job' = [job EXCEPT ![p] = None]

Reload == [kind |-> "reload"]

(* SetTheme with and without persist, Reload, SetForcePalette.             *)
Changes ==
  [kind : {"set"}, name : Names \cup {Embedded}, save : BOOLEAN]
    \cup {Reload} \cup [kind : {"palette"}, palette : Palettes \cup {None}]

Init ==
  \E broken \in StartsBroken, palette \in Palettes \cup {None},
     headless \in Headless :
    /\ disk = [f \in Files |-> IF f \in broken THEN Broken ELSE 0]
    /\ edits = 0
    /\ shared = [theme |-> IF Loads(Start, palette) THEN Load(Start, palette)
                                                    ELSE Load(Embedded, None),
                 force_palette |-> palette,
                 history |-> [q \in Pairs |-> None]]
    /\ watching = WatchPaths(shared.theme)
    /\ signals = 0
    /\ surface = IF headless THEN "none" ELSE "running"
    /\ chan = <<>>
    /\ applied = [theme |-> shared.theme, values |-> [q \in Pairs |-> None]]
    /\ config = Start
    /\ pc = [p \in Procs |-> Rest(p)]
    /\ job = [p \in Procs |-> None]
    /\ asked = 0
    /\ sent = 0
    /\ forgotten = [q \in Pairs |-> {}]

(* The history after a send of the pair has been recorded, and without the *)
(* pairs it has dropped.                                                   *)
Recorded(pair) ==
  [q \in Pairs |-> IF q = pair THEN sent + 1 ELSE shared.history[q]]

Drop(history, dropped) ==
  /\ shared' = [shared EXCEPT !.history =
                  [q \in Pairs |-> IF q \in dropped THEN None ELSE history[q]]]
  /\ forgotten' = [q \in Pairs |-> IF q \in dropped
                                   THEN forgotten[q] \cup ({history[q]} \ {None})
                                   ELSE forgotten[q]]

(* What a send enqueues: its last_value is what the history has of its     *)
(* pair, or else the value itself.                                         *)
SendCommand(pair) ==
  LET known == pair \in Pairs /\ shared.history[pair] # None
  IN [kind |-> "render", theme |-> shared.theme, pair |-> pair,
      value |-> sent + 1,
      last_value |-> IF known THEN shared.history[pair] ELSE sent + 1]

(* A plausible bug: a rejected send is recorded.                           *)
Send_RecordsRejected(c, pair, dropped) ==
  /\ pc[c] = "idle" /\ SharedFree
  /\ sent < MaxSends
  /\ pair \in Anonymous => dropped = {}
  /\ IF Admits THEN Enqueue(SendCommand(pair)) ELSE UNCHANGED chan
  /\ Drop(Recorded(pair), dropped)
  /\ sent' = sent + 1
  /\ UNCHANGED <<disk, edits, watching, signals, surface, applied, config,
                 pc, job, asked>>

(* Shared::send, of a value never sent before.  Recording it drops pairs:  *)
(* others that have to make room, or its own if its identifiers are too    *)
(* long; History says which.  A rejected command leaves no trace, and is   *)
(* not a step.                                                             *)
Send(c, pair, dropped) ==
  /\ pc[c] = "idle" /\ SharedFree
  /\ sent < MaxSends
  /\ pair \in Anonymous => dropped = {}
  /\ Admits
  /\ Enqueue(SendCommand(pair))
  /\ Drop(Recorded(pair), dropped)
  /\ sent' = sent + 1
  /\ UNCHANGED <<disk, edits, watching, signals, surface, applied, config,
                 pc, job, asked>>

(* The entry of a pair reaches its TTL: history.get no longer returns it.  *)
Expire(pair) ==
  /\ shared.history[pair] # None
  /\ Drop(shared.history, {pair})
  /\ UNCHANGED <<disk, edits, watching, signals, surface, chan, applied,
                 config, pc, job, asked, sent>>

(* A client's theme request reaches the daemon.                            *)
Ask(c, change) ==
  /\ pc[c] = "idle"
  /\ asked < MaxChanges
  /\ asked' = asked + 1
  /\ Goes(c, "change")
  /\ job' = [job EXCEPT ![c] = change]
  /\ UNCHANGED <<disk, edits, shared, watching, signals, surface, chan,
                 applied, config, sent, forgotten>>

(* The reload thread: recv, drain for 80 ms, reload.                       *)
Receive ==
  /\ pc[Reloader] = "recv"
  /\ signals > 0
  /\ signals' = signals - 1
  /\ Goes(Reloader, "debounce")
  /\ UNCHANGED <<disk, edits, shared, watching, surface, chan, applied,
                 config, job, asked, sent, forgotten>>

Coalesce ==
  /\ pc[Reloader] = "debounce"
  /\ signals > 0
  /\ signals' = signals - 1
  /\ UNCHANGED <<disk, edits, shared, watching, surface, chan, applied,
                 config, pc, job, asked, sent, forgotten>>

DebounceOver ==
  /\ pc[Reloader] = "debounce"
  /\ Goes(Reloader, "change")
  /\ job' = [job EXCEPT ![Reloader] = Reload]
  /\ UNCHANGED <<disk, edits, shared, watching, signals, surface, chan,
                 applied, config, asked, sent, forgotten>>

-----------------------------------------------------------------------------
(* change_theme_with.                                                      *)

(* A plausible bug: the palette is in force before it is loaded.           *)
Snapshot_SetsPalette(p) ==
  /\ pc[p] = "change"
  /\ OperationsFree /\ SharedFree
  /\ LET change  == job[p]
         palette == IF change.kind = "palette" THEN change.palette
                    ELSE shared.force_palette
     IN /\ job' = [job EXCEPT ![p] =
             [name |-> IF change.kind = "set" THEN change.name
                       ELSE shared.theme.name,
              palette |-> palette,
              save |-> change.kind = "set" /\ change.save]]
        /\ shared' = [shared EXCEPT !.force_palette = palette]
  /\ Goes(p, "load")
  /\ UNCHANGED <<disk, edits, watching, signals, surface, chan, applied,
                 config, asked, sent, forgotten>>

Snapshot(p) ==
  /\ pc[p] = "change"
  /\ OperationsFree /\ SharedFree
  /\ LET change == job[p]
     IN job' = [job EXCEPT ![p] =
          [name |-> IF change.kind = "set" THEN change.name
                    ELSE shared.theme.name,
           palette |-> IF change.kind = "palette" THEN change.palette
                       ELSE shared.force_palette,
           save |-> change.kind = "set" /\ change.save]]
  /\ Goes(p, "load")
  /\ UNCHANGED <<disk, edits, shared, watching, signals, surface, chan,
                 applied, config, asked, sent, forgotten>>

LoadTheme(p) ==
  /\ pc[p] = "load"
  /\ IF Loads(job[p].name, job[p].palette)
     THEN /\ job' = [job EXCEPT ![p] =
                       [theme |-> Load(job[p].name, job[p].palette),
                        palette |-> job[p].palette, save |-> job[p].save]]
          /\ Goes(p, "publish")
     ELSE Finishes(p)
  /\ UNCHANGED <<disk, edits, shared, watching, signals, surface, chan,
                 applied, config, asked, sent, forgotten>>

(* publish_theme up to the first half of set_paths, which stops watching.  *)
Publish(p) ==
  /\ pc[p] = "publish" /\ SharedFree
  /\ Admits
  /\ Enqueue([kind |-> "retheme", theme |-> job[p].theme])
  /\ shared' = [shared EXCEPT !.theme = job[p].theme]
  /\ watching' = {}
  /\ Goes(p, "rewatch")
  /\ UNCHANGED <<disk, edits, signals, surface, applied, config, job, asked,
                 sent, forgotten>>

(* Plausible bugs: the theme is replaced before the queue admits the       *)
(* command; the reload thread gives up; a full queue is retried for ever.  *)
PublishRejected_Replaces(p) ==
  /\ pc[p] = "publish" /\ SharedFree
  /\ ~Admits
  /\ Finishes(p)
  /\ shared' = [shared EXCEPT !.theme = job[p].theme]
  /\ UNCHANGED <<disk, edits, signals, watching, surface, chan, applied,
                 config, asked, sent, forgotten>>

PublishRejected_GivesUp(p) ==
  /\ pc[p] = "publish" /\ SharedFree
  /\ ~Admits
  /\ Finishes(p)
  /\ UNCHANGED <<disk, edits, shared, watching, signals, surface, chan,
                 applied, config, asked, sent, forgotten>>

PublishRejected_Retries(p) ==
  /\ pc[p] = "publish" /\ SharedFree
  /\ ~Admits
  /\ UNCHANGED vars

(* A command that is not admitted; the reload thread tries again later if  *)
(* the queue was full.                                                     *)
PublishRejected(p) ==
  /\ pc[p] = "publish" /\ SharedFree
  /\ ~Admits
  /\ Finishes(p)
  /\ signals' = IF p = Reloader /\ surface = "running"
                THEN signals + 1 ELSE signals
  /\ UNCHANGED <<disk, edits, shared, watching, surface, chan, applied,
                 config, asked, sent, forgotten>>

(* The second half of set_paths, then force_palette.                       *)
Rewatch(p) ==
  /\ pc[p] = "rewatch"
  /\ watching' = WatchPaths(shared.theme)
  /\ shared' = [shared EXCEPT !.force_palette = job[p].palette]
  /\ IF job[p].save THEN Goes(p, "save") /\ UNCHANGED job ELSE Finishes(p)
  /\ UNCHANGED <<disk, edits, signals, surface, chan, applied, config, asked,
                 sent, forgotten>>

(* persist_theme_to_config.  A save fails for want of a config path or for *)
(* an error of the file system; the theme stays changed in memory.         *)
Save(p) ==
  /\ pc[p] = "save"
  /\ config' = job[p].theme.name
  /\ Finishes(p)
  /\ UNCHANGED <<disk, edits, shared, watching, signals, surface, chan,
                 applied, asked, sent, forgotten>>

SaveFails(p) ==
  /\ pc[p] = "save"
  /\ Finishes(p)
  /\ UNCHANGED <<disk, edits, shared, watching, signals, surface, chan,
                 applied, config, asked, sent, forgotten>>

ChangeTheme(p) ==
  \/ Snapshot(p)
  \/ LoadTheme(p)
  \/ Publish(p)
  \/ PublishRejected(p)
  \/ Rewatch(p)
  \/ Save(p)
  \/ SaveFails(p)

-----------------------------------------------------------------------------
(* The rest of the world.                                                  *)

(* Somebody saves a file, well or badly; a watch turns that into a signal. *)
Edit(f) ==
  /\ edits < MaxEdits
  /\ edits' = edits + 1
  /\ \E content \in {edits + 1, Broken} : disk' = [disk EXCEPT ![f] = content]
  /\ signals' = IF f \in watching THEN signals + 1 ELSE signals
  /\ UNCHANGED <<shared, watching, surface, chan, applied, config, pc, job,
                 asked, sent, forgotten>>

(* The Wayland thread takes a command.                                     *)
HandleCommand ==
  /\ surface = "running" /\ chan # <<>>
  /\ LET m == Head(chan)
     IN applied' =
          [theme |-> m.theme,
           values |-> [q \in Pairs |->
                         IF m.kind = "render" /\ m.pair = q THEN m.value
                         ELSE applied.values[q]]]
  /\ chan' = Tail(chan)
  /\ UNCHANGED <<disk, edits, shared, watching, signals, surface, config, pc,
                 job, asked, sent, forgotten>>

(* It ends, for instance because the compositor has gone away.             *)
SurfaceStops ==
  /\ surface = "running"
  /\ surface' = "gone"
  /\ chan' = <<>>
  /\ UNCHANGED <<disk, edits, shared, watching, signals, applied, config, pc,
                 job, asked, sent, forgotten>>

Next ==
  \/ \E c \in Clients, pair \in Pairs \cup Anonymous,
        dropped \in SUBSET Pairs : Send(c, pair, dropped)
  \/ \E pair \in Pairs : Expire(pair)
  \/ \E c \in Clients, change \in Changes : Ask(c, change)
  \/ Receive \/ Coalesce \/ DebounceOver
  \/ \E p \in Procs : ChangeTheme(p)
  \/ \E f \in Files : Edit(f)
  \/ HandleCommand
  \/ SurfaceStops

Spec == Init /\ [][Next]_vars

(* Threads that can run do run, and the Wayland thread keeps taking        *)
(* commands.  Clients and the editor owe nothing, nor need a save succeed. *)
FairSpec ==
  /\ Spec
  /\ WF_vars(Receive \/ DebounceOver)
  /\ \A p \in Procs : WF_vars(ChangeTheme(p))
  /\ WF_vars(HandleCommand)

-----------------------------------------------------------------------------
(* Properties.                                                             *)

Contents == UNION {[F -> 0 .. MaxEdits] : F \in SUBSET Files}
Theme    == [name : Names \cup {Embedded}, palette : Palettes \cup {None},
             content : Contents]

Command ==
  [kind : {"render"}, theme : Theme, pair : Pairs \cup Anonymous,
   value : 1 .. MaxSends, last_value : 1 .. MaxSends]
    \cup [kind : {"retheme"}, theme : Theme]

TypeOK ==
  /\ disk \in [Files -> (0 .. MaxEdits) \cup {Broken}]
  /\ edits \in 0 .. MaxEdits
  /\ shared \in [theme : Theme, force_palette : Palettes \cup {None},
                 history : [Pairs -> (1 .. MaxSends) \cup {None}]]
  /\ watching \subseteq Files
  /\ signals \in Nat
  /\ surface \in {"none", "running", "gone"}
  /\ chan \in Seq(Command) /\ Len(chan) <= ChanCap
  /\ applied \in [theme : Theme, values : [Pairs -> (1 .. MaxSends) \cup {None}]]
  /\ config \in Names \cup {Embedded}
  /\ pc \in [Procs -> {"idle", "recv", "debounce", "change"} \cup HoldsOperations]
  /\ asked \in 0 .. MaxChanges /\ sent \in 0 .. MaxSends
  /\ forgotten \in [Pairs -> SUBSET (1 .. MaxSends)]

(* requests.rs: admission and publication share one critical section with  *)
(* Send.  So the thread meets a theme change before any send prepared      *)
(* under the new theme and after every send prepared under the old one,    *)
(* and once it has handled everything it shows the published theme.        *)
ThemeOf(i) == IF i = 0 THEN applied.theme ELSE chan[i].theme

PublishedAsQueued ==
  surface = "running" =>
    /\ shared.theme = ThemeOf(Len(chan))
    /\ \A i \in 1 .. Len(chan) :
         chan[i].kind = "render" => chan[i].theme = ThemeOf(i - 1)

(* The last_value of a command is the value of the accepted send of its    *)
(* pair before it, unless the history had lost that by then: a rejected    *)
(* send is no part of it, nor is one of another pair, nor an older one     *)
(* that comes back when a newer one is forgotten.  (The Wayland thread     *)
(* starts the bar there, or where the bar on display has come to if the    *)
(* send continues it.)                                                     *)
LatestBefore(i, pair) ==
  LET J == {j \in 1 .. i - 1 : chan[j].kind = "render" /\ chan[j].pair = pair}
  IN IF J = {} THEN applied.values[pair]
     ELSE chan[CHOOSE j \in J : \A k \in J : k <= j].value

Remembered(value, lost) == IF value \in lost THEN None ELSE value

StartsFromPrevious ==
  surface = "running" =>
    \A pair \in Pairs :
      LET previous(i) == Remembered(LatestBefore(i, pair), forgotten[pair])
      IN /\ shared.history[pair] = previous(Len(chan) + 1)
         /\ \A i \in 1 .. Len(chan) :
              chan[i].kind = "render" /\ chan[i].pair = pair =>
                chan[i].last_value = IF previous(i) = None THEN chan[i].value
                                     ELSE previous(i)

(* Outside a publication, what is in force belongs together: the published *)
(* theme was loaded with the palette that is set, unless it is the         *)
(* embedded theme of a failed start, and what is watched is what the theme *)
(* was read from.                                                          *)
ThemeInForce ==
  SharedFree =>
    /\ \/ shared.theme.palette = shared.force_palette
       \/ shared.theme = Load(Embedded, None)
    /\ watching = DOMAIN shared.theme.content

(* Two changes never undo each other: a reload or a palette change keeps   *)
(* the name that was last set, a reload or a SetTheme the palette; and an  *)
(* older save does not overtake a newer theme.                             *)
ChangesCompose ==
  [][/\ \A p \in Procs :
          /\ Publish(p) /\ shared'.theme.name # shared.theme.name =>
               shared'.theme.palette = shared.force_palette
          /\ Publish(p) /\ p = Reloader =>
               /\ shared'.theme.name = shared.theme.name
               /\ shared'.theme.palette = shared.force_palette
     /\ config' # config => config' = shared.theme.name]_vars

(* Liveness, FairSpec.                                                     *)

UpToDate == shared.theme.content = Load(shared.theme.name,
                                        shared.theme.palette).content

CannotLoad == ~Loads(shared.theme.name, shared.force_palette)

(* Every change of a watched file that reaches the reload channel ends     *)
(* with the theme in step with its files, unless they do not load.  A full *)
(* command queue only delays that.                                         *)
SignalsAreHonoured ==
  (signals > 0) ~> (UpToDate \/ CannotLoad \/ surface = "gone")

(* No theme request waits for ever for the locks.                          *)
ChangesComplete == \A c \in Clients : (pc[c] = "change") ~> (pc[c] = "idle")

=============================================================================
