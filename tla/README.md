# awob: a formal model

awob is an on-screen display for Wayland. Small listener processes (volume,
brightness, battery ...) and a command line send events over a Unix socket to
a daemon, which remembers the last value of every source, prepares a picture
under the active theme and shows it for a moment on a layer surface. Themes
are files that are reloaded when they change.

This directory holds TLA+ models of the daemon, of the client library, of the
listeners and of the renderer and expression language, the TLC runs that check
them, and TLAPS proofs of every safety property of those runs but the two
about expressions and theme files. Paths below are relative to
`crates/`.

## Inventory

| Component | Source | State | Operations | Hard behaviours | Correct means |
|---|---|---|---|---|---|
| Wayland thread | `awob-daemon/src/wayland.rs`, `pacing.rs` | layer, configured, pacing, cycle (start, theme, durations, pair), pending send | handle_send, retheme, configure, frame, closed, tick | timers against events, events of dropped layers, failed draws, silent compositor | every send gets its time on screen; finished pictures; no freeze, no spin; the pending send is drained |
| History | `awob-daemon/src/state.rs` | entries, listener references, expiry order, byte account | record, get, entries, evictions | four indexes kept in step by hand, limits | indexes agree, limits hold, oldest evicted first and no more than needed |
| Requests and shared state | `awob-daemon/src/requests.rs`, `main.rs` | theme, forced palette, history, two locks, the queue to the Wayland thread | Send, Query, SetTheme, Reload, SetForcePalette, hot reload, save | load outside the shared lock, full queue, concurrent changes | publication atomic with sends; changes compose; saves do not overtake |
| Theme loader, watcher | `theme_loader.rs`, `watcher.rs` | files read and watched, reload channel | load, set_paths, event callback | edits between load and watch, bursts of events | what is shown follows the files |
| Supervisor | `supervisor.rs`, `known_listeners.rs` | child, restart time and backoff of each listener | spawn_all, tick, shutdown | exit against tick against signal, backoff | restart policy kept, nothing left running |
| IPC server | `ipc.rs` | connection permits, per connection buffer and deadline | accept, read_request, write_with_deadline | limits, slow peers, failed thread spawns | permits never leak, one answer per request |
| Socket path | `socket_path.rs` | socket, staging directory | bind, prepare_existing, Drop | two daemons starting, crash leftovers | a live socket survives, a dead one is no obstacle |
| Configuration | `config.rs`, part of `main.rs` | `awob.toml` | load, persist_theme_to_config | read-modify-write against an editor, crash in the middle | nothing lost, never truncated |
| Client library | `awob-client/src/lib.rs`, `transport.rs` | connection, deadline | connect, hello, send, reconnect | lost answers, one deadline for two attempts | no request sent twice, Ok means it ran |
| Listener helpers | `awob-client/src/listener.rs` | last values | ChangeFilter, wait_for_resource | first value, forgotten values | one event per change |
| sysfs listeners | `awob-listener-{backlight,keyboard-backlight,power-profile}` | device, last value | scan, watch, debounce, poll | silent watchers, failed reads | what was last announced is what holds |
| Battery listener | `awob-listener-battery` | reading of each battery, last alert, burst and rescan timers | uevents, rescan, aggregate, alert | events without values, stale sysfs | one alert per crossing, nothing stale for longer than a rescan |
| PipeWire listener | `awob-listener-pipewire` | bound nodes, last states, defaults | node added, removed, changed; default changed | identifiers used again, events in flight | new nodes start silent, what is known follows the server |
| wob listener | `awob-listener-wob` | FIFO, partial line | open, read, parse, send | partial reads, writers that leave, long lines | one event per line, no line cut or joined |
| Renderer | `awob-core/src/render.rs`, `icon.rs`, `text.rs`, `limits.rs` | caches of icons, masks, labels, glyphs, background; buffer | draw, theme change | cache keys, accounts of bytes, failures half-way | a cached frame is the frame |
| Expressions | `awob-core/src/expr.rs`, `bindings.rs` | none | parse, eval | precedence, depth, NaN | the grammar, no panic |
| Theme language | `awob-core/src/theme.rs`, `theme/input.rs`, `scene.rs` ... | accumulator and budget of a load | imports, blocks, forced palette | imports in place, cycles, a rule of precedence for each kind of block, limits shared by all files | the theme is what its text says with every import put in place |
| Command line, protocol | `awob-cli`, `awob-protocol` | none | one request per run | none | |

Interactions. IPC threads (one per connection, 64 at most), the reload thread
and start-up share `Shared` behind one mutex. Theme changes take
`theme_operations` first and hold it through the save. The daemon hands
commands to the Wayland thread through a bounded channel of 64 with
`try_send`; the thread never answers. The `notify` callback sends `()` on an
unbounded channel to the reload thread, which sends itself the same message
when the command channel was full. The supervisor runs in the tick thread and,
at shutdown, in the signal thread, behind a mutex of its own. Listeners and
the command line are processes of their own and reach the daemon through the
client library and one stream socket each. Daemons share two files with each
other, the socket and `awob.toml`, and the second with the user's editor. The
Wayland thread owns the renderer, which evaluates the expressions of a theme
once for a send and keeps caches from frame to frame.

## Modules

| Module | What it is |
|---|---|
| `Surface` | the command channel and the Wayland thread |
| `Display` | abstract specification of what `Surface` shows |
| `Surface_proofs` | its invariants, pace and screen time, and that its steps are those of `Display`, proved |
| `History` | the history store |
| `History_proofs` | its indexes, limits, evictions, warning and readers, proved |
| `Requests` | shared state, theme changes, reload thread, watcher, editor |
| `Requests_proofs` | its locking and its queue, proved |
| `Supervisor` | listener processes, tick thread, signal thread |
| `Supervisor_proofs` | that no process is lost, and when one is restarted, proved |
| `Ipc` | client library, accept loop, connection threads and the sockets between them |
| `Ipc_proofs` | permits, and what becomes of a request, proved |
| `Instances` | several daemons and an editor around the socket's path and `awob.toml` |
| `Instances_proofs` | what starts and saves of several daemons leave alone, proved |
| `Sysfs`, `Wob`, `Battery`, `PipeWire` | one listener each (`Sysfs`: three of a kind) with what it watches |
| `Listeners` | the four above: a behaviour is of one of them |
| `Listeners_proofs` | what each of them shows, sends or knows, proved |
| `Renderer` | frames and what is kept between them |
| `Renderer_proofs` | the accounts of its queues, and that frames do not depend on what was kept, proved |
| `Expr` | the parser and evaluator of expressions |
| `Theme` | how a theme is put together from its files |
| `Core` | the three above: a behaviour is of one of them |
| `MC...` | values of the constants for TLC |

`Listeners` and `Core` put components that share nothing under one
specification, each with variables of its own: their `Init` picks the one that
runs. They exist so that one configuration checks them together.

### Surface

`st` is the thread's `State`, reduced to its control: `layer`, `configured`,
`pacing`, `pending`, and in `cycle` the fields that `queue_render` sets and the
end of a cycle clears together. `HandleSend`, `QueueRender`, `Retheme`,
`NextFrame`, `TickTimeout`, `Phase` ... are the functions of the same name in
`wayland.rs`, written as operators from state to state; `Request`, `Ready`,
`Submitted`, `FrameDone`, `Retry` are those of `pacing.rs`. Actions are the
event loop's: a command is handled, the compositor configures, answers or
closes a layer, `tick` runs. `Woken` is the loop's rule for `tick`: after an
event, or when the timeout that `next_tick_timeout` gave to `dispatch` is over.

`comp` is the compositor: the layers it knows, has configured and owes a frame
callback, and what is on the screen. It may configure or close any layer it
was told of at any time, and late: an event for a layer the thread has
destroyed still arrives. Two layer numbers used in turn are enough for that.
The model is stricter than Wayland in one point: a layer that gets a number
again starts with nothing configured or owed under that number.

Time is relative: a deadline is the time left, a start the age, each saturated
where the code cannot tell the difference. This keeps the state space finite
without a bound on time. Each handler reads the clock once in the model; the
code reads it several times within a handler, microseconds apart.

What is drawn is reduced to which send, under which theme, and whether the
picture is final (full alpha, final value). Layout, buffers and colours are
not modelled. `TickRetry` stands for every failure of `draw`.

### Display

What the thread promises: commands are taken in order, one send on display, a
slot of one for the send that waits. `Surface` implements it under
`queue <- chan, display <- OnDisplay, slot <- st.pending, over <- ...`, with
fairness.

### History

`h` is the `History` record of the code. The expiry order is a set of keys
with the order of the `BTreeSet`. `RemoveAll` is a batch of `remove`;
`MakeRoom` is the loop around `remove_oldest`, said as the set of keys it
removes. Reference counts and bytes are counters, as in the code, updated by
every insertion and removal; `Charge` and `Owned`, sets, say what they should
be. Names are numbers in string order, with a length each.

### Requests

Each action is one critical section or the step between two: `Snapshot` and
`Publish`/`Rewatch` hold the shared lock, `LoadTheme` and `Save` only
`theme_operations`. `Publish` and `Rewatch` are separate because the editor
and the watcher take no lock: between them nothing is watched. `pc[p]` is the
step thread p is at, `job[p]` what it has read so far. `Send` is
`Shared::send`, whole. A rejected `Send` changes nothing in the code and is no
step. A theme's content is the version number of every file it read. The
history is a value per pair: `Expire` is the TTL, after which `get` no longer
returns it, and a `Send` may drop any pairs in recording its own. Which ones is
left to `History`; here every choice is allowed. `forgotten` notes the values
dropped, so that the property can tell a value lost from one that never was.

The Wayland thread is its queue and what it has handled; it may be absent
(`--no-surface`) or die.

### Supervisor

`children` is the map of the code, `procs[n]` every process spawned under a
name, so that a process the supervisor has lost is still there. A tick holds
the lock and is one action: `Reap` is its first half, `SpawnChild` its second.
Shutdown is cut at the instants where time passes and processes exit:
`BeginShutdown`, then `AllExited` or `KillRest`; after it has returned and
before `Exit` the tick thread may run, and spawns again what `KillRest` has
killed, whatever its policy: `PolicyObeyed` is stated until shutdown returns.
`SignalKills` is a SIGTERM or SIGINT delivered to a thread that does not block
it. A listener may exit at any time with any status; a SIGTERM obliges it to
nothing. `EffectiveListeners` is what is spawned at start. `wait` and `gone`
are relative times. The order in which a tick visits the children has no
effect and is left out, as is the window between fork and `prctl`.

### Ipc

`call[c]` is the call a program is in, `link[c]` its connection, `conn[k]`
both ends of a connection with the bytes between them. Each system call that
can fail or take part of a line is an action: `Connect`, `Write`, `ReadAnswer`
for a client; `Accept`, `Acquire` (the load and compare-exchange of
`ConnectionLimiter::try_acquire`), `SpawnThread`, `Reject` for the main thread;
`ReadSome`, `ReadEnd`, `ReadTimeout`, `HandleLine`, `Answer`, `AnswerFails` for
a connection's thread. A line has two parts, its text and its newline: enough
to have a line cut and to have a line that ends with the stream. Deadlines are
not timed: `Expire` and the timeouts may come at any moment. `Begin`, `Attempt`
and `RetrySafe` are `ReconnectingClient::send`; programs with a plain `Client`
or none at all (`Tools`) may send anything. `HandleLine` runs the handler as one
step, which `Requests` takes apart. The daemon ends at any point and is
started again, with new permits.

### Instances

Each system call on the two files is an action, so that another daemon, the
editor or a crash can come between any two: `Probe`, `ConnectTo`, `Recheck`,
`Unlink`, `Stage`, `Publish` are `prepare_existing` and `bind`; `Lock`, `Read`,
`Write`, `Rename` are `persist_theme_to_config`. A socket is named by the start
that made it. Of the configuration only its being readable, the number of the
user's saves it contains and its author are kept. `Gone` is every end of a
process: descriptors and locks go, files stay.

### Sysfs, Wob, Battery, PipeWire

Each module is one listener's thread and the machine around it: the attribute,
pipe, kernel or audio server that changes, and its notices, which may be late,
incomplete or (but for PipeWire) missing. Time is relative and counted in the shortest
interval of the listener. `Sysfs` has one loop for three programs, whose scan
(`Found`), start and OSD differ; `Observe` is a pass of the loop with
`ChangeFilter::changed`. `Wob` cuts a stream of three bytes as the kernel may;
`FillBuf`, `ReadPart`, `ReadLine`, `ReadEnd` are `read_bounded_line`, and
`ReadFails` is a read that ends in an error. Bytes in a FIFO that nobody has
open are gone.
`Battery` keeps its cache per battery; `WakeBattery` is a pass of the main loop
with draining, refresh, aggregate and alert. Each attribute of a battery may be
unreadable for a while: without a capacity there is no reading, without a state
it is unknown, without a full charge it weighs 1, and if nothing weighs
anything all count alike. `told` is what the user knows: the last alert, or
what the listener started with, and beside it an observation the listener took
for its first although it was not (see Findings). `PipeWire` sends the server's
changes over an ordered wire; `Removes` and `Adds` reuse an identifier. A node without a name is left alone,
and so is a stream of an application outside `--per-app-binary`. Sending an event is a step that may fail in `Wob`, where it costs the
connection; the other listeners drop what cannot be sent, and the model shows
what they ask for.

### Renderer, Expr, Theme, Core

`renderer` is `Renderer` with its caches; `Show`, `Retheme`, `Hide`, `Draw` are
the calls the Wayland thread makes. A picture is the sequence of what was
drawn into it, so that two frames are equal exactly if the same was drawn in
the same order from the same data. An element is a record of its kind, order,
size and of what decides its cache key; `fails` says whether drawing it fails
before or after its caches have been touched. `Pushed` and `Promoted` are the
queues' loops as operators. Theme files' icons change on disk while the
renderer holds them.

`Expr` parses sequences of tokens: the characters of names, numbers and
strings are not modelled, and a text grows one token at a time for as long as
the parser has no complaint before its end. `Parser` is the recursive descent,
a function of rule and position; `Trees` is the grammar in the comment at the
head of `expr.rs`, as a set of trees. The code takes several signs in a row where
that grammar has one (`unary = ('-' | '!')? primary`): `Trees` follows the code
there.

In `Theme` an author adds one node after another to any of the files, and each
time the theme is loaded (`LoadTheme`): a load changes nothing but its result.
`ParseInto` is the function of the code, with its accumulator and budget in
one record; `Document`, `LoadFile`, `ApplyForcePalette` likewise. A file is a
sequence of top-level nodes and comments, each with one child and one byte, so
that the limits (in the model's constants) can be met exactly. What KDL makes
of the text is left out, but for what `preflight` counts and the parser does
not see: a node behind a slashdash. `ThemesAgree` says what the theme should be
without an accumulator: it looks at places in the tree of files, a place being
the positions of the imports on the way, and takes the last declaration, the
first style, the elements in order of `z` and then of place. `offset` is
measured from the anchor declared before it, and a `margin` after it undoes it.

## Runs

| Run | What it asks |
|---|---|
| `surface_safety` | pacing, idle state and screen time, with every interleaving of three sends, one theme change, compositor events and draws that fail |
| `surface_live` | under fairness every OSD ends, the newest send is displayed, and `Surface` implements `Display` |
| `history` | indexes, limits, eviction order and minimality, duplicate warning, agreement of readers |
| `requests_safety` | publication atomic with sends, composition of changes, saves, watches |
| `requests_live` | that signals of the watcher and theme requests are answered |
| `supervisor` | policies and delays of restarts, no process lost, what should run runs again |
| `supervisor_stop` | violated: see Findings |
| `ipc` | no event runs twice, an Ok is the answer to its own request, nothing is sent after its deadline, permits agree with connections and come back |
| `instances` | what earlier daemons left never stops a start, a start does not take a living socket, daemons do not lose each other's changes |
| `listeners` | for each listener, what it has announced or knows catches up with what it watches |
| `core` | frames from caches equal frames drawn anew, the caches keep their accounts, the parser keeps to its grammar, no evaluation panics, a theme is what the tree of its files says |
| `theme_styles` | violated: see Findings |

Bounds. `Surface`: a frame is two ticks and durations are of one to three,
so that every phase starts and ends between frames as well as on them; elements
that animate have a frame every four ticks, and the two themes differ in every
duration; pairs are interchangeable, which the safety run uses; three sends are the fewest that have one on display, one
pending and one that replaces either; the channel holds two, so that it fills.
The second theme animates elements, and a send may bring a duration of its
own. The liveness run has two sends, some of them anonymous, and frames of
one tick.
`History`: two sources with two events and two listeners give all the ways in
which counts are shared. The four entries of no listener cost 10 bytes, which
is the byte limit, so that with them the limit of three entries binds; those
of the long listener cost 10 or more, so that one drives out all others or is
refused. The TTL of two ticks within four lets entries expire in every order.
`Requests`: two sends, of one pair or of two, against a queue of two (one for
liveness), so that every kind of command can find it full and a send can meet
what an earlier one left, or what the history lost of it; two clients and the
reload thread, two theme requests, one edit for safety and two for liveness, so
that signals coalesce; starts with broken files too.
`Supervisor`: two listeners, or one name twice; three processes of a name, so
that a restart follows a restart; delays of one and two ticks, a grace period
of one. `Ipc`: two connections against one permit, so that every connection
may be the one too many; a listener with two calls, so that an answer may come
after its call is over; one other program with every kind of line. `Instances`: two daemons
with two starts each and two saves of the user: a start meets what a killed
start has left and what a living one has; with one daemon alone nothing can
be lost to another. `Listeners`: two devices or batteries, lines of at most
two bytes in a stream of five, a failed read counting as one of them; battery
levels on both sides of both bands, a battery that weighs nothing beside one
that does, three states of which one is outside `--states`, two changes of the
batteries within bursts of one and rescans of two intervals; four changes of
the audio server, the fewest that use an identifier again and change it, change
the default and bring a second name, with and without an allowlist of
applications. `Core`: queues of two
entries, so that a third drives one out, sizes just within and beyond what is
kept and beyond `MAX_AXIS`, one edit of an icon; expressions of five to eight
tokens over four alphabets, the longest that finish in time: with eight, two
binary operators meet parentheses and signs, or a call has three arguments;
six authors of themes, each with the nodes of one part and with one forced
palette or none, up to four nodes in two to four files, against limits of
three bytes in a file, five in all, seven nodes with their children, three
imports and a depth of two: each of them is met and exceeded, by one file and
by scene and palette together, and files import each other and themselves.

Fairness. `Surface` and `Requests` assume that a thread that can run does: the
event loop handles what is in the channel, runs `tick` once woken, and time
passes; theme changes and the reload thread proceed. The mutexes of the code
are not fair; with a bounded number of requests, as in the runs, weak fairness
of each thread is all that is needed. The tick thread of `Supervisor` ticks,
and a spawn tried again and again succeeds some time (strong fairness);
processes need not end. Nothing is assumed of the compositor, the editor and
clients, nor that a save succeeds. In `Ipc` the thread of each connection runs
and its timeouts end, as `read_request` and `write_with_deadline` see to;
programs and the accept loop may stop for ever. The other modules have safety
properties only; those of the listeners bound the time to catch up instead.
All runs but those of `Surface` and `History` say `CHECK_DEADLOCK FALSE`: a
daemon or listener with nothing to do waits, one that has ended does nothing
more, and the bounded environments come to their end.

## Proofs

Every invariant and action property of the runs is proved, for every value of
the constants that the assumptions allow, but for `ExpressionsAgree` and
`ThemesAgree` of `core`. The type
invariants are proved and no longer part of a run. Each module states its
assumptions under one name (`SurfaceAssumption`, `HistoryAssumption` ...), and
TLC evaluates them in the runs. Most are types. Those that say more, and why
the code justifies them:

* `ELEMENT_INTERVAL >= FRAME` (`pacing.rs:8-9`: 33 ms and 16 ms).
* No delay of a restart is shorter than the first (`BACKOFF`,
  `supervisor.rs:20`).
* `PollInterval >= Debounce`: `--poll-interval` is 100 to 2000 ms
  (`awob-listener-backlight/src/main.rs:45` and likewise in the other two) and
  the debounce 40 ms.
* The queues of the renderer have room for an entry (`CACHE_CAP` in
  `icon.rs:27`, `CACHE_ENTRIES` in `shadow.rs:62`, `MAX_ENTRIES` in
  `layout_cache.rs:11`); a limit of bytes may be 0.
* `RescanInterval` is not 0, and `none` is neither a state that a battery
  reports nor one of `--states` (`awob-listener-battery/src/main.rs:35,97`).
* `None`, `NoListener`, `Reloader` and the like are none of the values they
  stand beside.

### The daemon

`Surface_proofs` has two layers. The first invariant (`IInv`) holds the type
invariant, `IdleIsQuiet`, `DrawsOnlyOnConfiguredLayer` and
`FrameOwedWhenWithheld`. They are inductive together and not alone: `tick` at
the end of a cycle leaves the layer alone when there is no cycle, which is
right only because an idle thread has no layer; a theme change may be ignored
without a cycle only because nothing is then scheduled; and what the compositor
owes concerns the layer in use only because a new layer starts unconfigured.
The argument goes handler by handler: a handler either keeps the layer with its
flags (`KeepsLayer`) or leaves one that is neither configured nor withheld
(`LosesLayer`). On top of it, each step is described by what it does to the
send on display and its pacing, and from these descriptions follow

* `NeverCutShort`, with the invariant `Leased`: what is left of the time a send
  is owed is never more than what is left of its cycle;
* `SleepsOnFinishedPicture`: whatever could make the picture stale asks for a
  frame (`RequestSleeps`), and `next_frame` looks past the next one only when
  alpha and value have settled;
* `FramesKeepTime`: requests and retries leave the frame interval after the
  last frame. Only a frame that was drawn may schedule one sooner, for the end
  of a phase, and a tick leaves a timeout of 0 only for a send whose durations
  are all 0. Both exceptions are the code's, and part of the property;
* `StepsAreDisplays`: every step is a step of `Display` under the refinement
  mapping, or a stutter. This is the safety part of `ImplementsDisplay`.

`History_proofs`: `IndexesAgree` and `WithinLimits` are inductive together
(`HInv`): limits hold after a record only if the counters they are compared with
are true, and removing an entry keeps the counters true only if they were.
Because the counters are numbers and what they count are sets, the argument is
about cardinalities: `RemoveAll` takes away what the removed entries own,
`Insert` adds one reference and the cost of one entry, `Refresh` changes
neither. That `MakeRoom` makes room needs one more step: if any key survives,
the first that does (the expiry order is well-founded on a finite set) does so
because removing everything before it left room, and room does not go away when
more is removed; if none survives, the history is empty and the cost was
compared with the limit before. `EvictsOldestForRoom` follows from the same
order: what is removed is a prefix of the keys, and without the last of them,
found by counting, there was no room. `ReadersAgree` and
`WarnsWhenASourceJoins` follow from the agreement of the indexes.

`Requests_proofs` has two invariants. `Locking` says that one thread at a time
is between its snapshot and the end of its save, and that what it has read of
the shared state is still so when it publishes, for the reload thread theme and
palette, for another change the one it does not set; `ThemeInForce` is part of
it and `ChangesCompose` follows. `Queued` is `PublishedAsQueued` with
`StartsFromPrevious`; both are facts about two queues, and the lemmas say that
they survive a command at one end and a handled one at the other. The second
needs that values are numbered: a value that the history loses is older than
the next one sent, so that what is forgotten cannot come back.

`Supervisor_proofs`: the type invariant says that the process a child stands
for is one that was spawned under its name; with it, the new process of a tick
cannot be mistaken for an old one. A tick either leaves a child as it is or has
seen that it has no running process (`TickChild`); `KillRest` kills what it
takes; every other step keeps each child's process and starts none (`Wane`);
`OnlySpawnAllLosesProcesses` follows. `PolicyObeyed` needs more (`SInv`): until
shutdown, of a listener configured once all processes but the last have ended
in a way its policy restarts (`Good`), and a name that is no child has none.
`NoTightLoop` rests on the first delay being the least.

`Ipc_proofs`: one invariant for `AtMostOnce`, `OkMeansRun`, `PermitsAgree` and
`NothingSentLate`. `LimiterOK`: the permits counted are the connections served,
and the connection that the main thread is about to admit has a permit left.
`LinksOK`, `CallsOK`: a connection is a program's or left behind (`Loose`), and
a program's carries, between its calls, nothing, and in a call the line of that
call as far as written (`Carries`) or the one answer to it (`Owned`). Answers do
not name their requests, so that is what makes an Ok the right one. `BytesOK`,
`RunsOK`: bytes of an event are in one connection only and the event has not
been run, and what is left in a connection without its program is of a call
that is over, so no second attempt can meet it.

`Instances_proofs`: one invariant of seven parts. What is at the socket's path
and what a start has seen there was published (`EntriesPast`); a start that was
refused is right that nobody listens (`RefusedIsDead`), because only the staging
of a socket begins to listen and no daemon uses a socket twice; nobody changes
what a lone start has seen (`AloneSees`); a save under way holds the lock and
has every edit that a daemon's text has (`SavesLocked`).

### The listeners

`Listeners_proofs` has an invariant for each; a step of `Listeners` is one of
the listener that runs, or leaves it alone.

* `SysfsInv`, for `SettledIsShown`: a change of the attribute is read within
  what is left of the poll interval, whether or not a notice of it arrives
  (`InTime`), and what is shown is what was read last (`LastShown`).
* `WobInv`, for `EventsAreLines`: the listener holds the text since the last end
  of line, or knows that it is too long (`SoFar`), and its events are the lines
  that have ended (`Tally`). What was read does not change (`TextsStay`), so a
  part without an end of line adds none (`PartRead`), an end adds its line or
  none (`EndRead`), and a read that fails ends a line that counts for none
  (`ReadFailsKeeps`). The property numbers the lines by how many ends lie before
  them, without recursion over the stream.
* `BatteryInv`, for `BatteryAgrees`: the time since the last evaluation and the
  wait for the next never exceed the rescan interval, and until a rescan the
  last change is not longer ago than that evaluation (`Rescans`); an evaluation
  tells what is to be told (`Heeds`), or is silent about the first listed state
  after a start in another, which stays the one exception until the next alert.
* `PipeInv`, for `VolumesAgree`: each identifier is followed through the events
  about it on the wire (`Agrees`). They announce and remove in turn; either
  there is no node and the last of them removes it, or its announcement is the
  last and under way, or the listener knows it and the last description on the
  wire, if there is one, is of its present state. Nodes are told apart by their
  birth, so that an event under way cannot be taken for one of a later node.

### The renderer

`Renderer_proofs` proves `QueuesAccounted` and `FramesAgree` of
`RendererSpec`, the renderer on its own: `Core` reaches RECURSIVE operators, so
no theorem can be about its `Spec`; but a step of `Core` is one of
`RendererNext` or leaves the renderer's variables alone. Themes may have any
number of elements of any kind, in any order and failing wherever they may, the
frames any size, the icons any files, and the limits any value.

The account (`SoundQueue`) rests on four facts about `BytesOf`: what it comes to
for nothing, with an entry more, for the two parts of a sequence, and with an
entry out of the middle. They are proved by induction on the sums of the first
n entries (`UpTo`). `PushedSound` then says that making room ends: dropping
everything leaves 0 bytes, so a least number of entries to drop exists.

`Kept` is what holds between two drawings: the queues are sound, a mask that is
kept is one that could be computed (a shadow that fails must fail on a hit as
well), no mask is held, the glyphs are within their limit, and the background
that is kept is its rectangle drawn over nothing. That last part is what makes it
reusable, and why it must be forgotten when something else is drawn first. Each
of `DrawRect`, `DrawBar`, `DrawText`, `DrawImage` and `DrawBackground` is
shown to keep it and to add to the picture a layer that does not depend on the
queues (`OverElement`), or to fail exactly if `CanDraw` says so. A label that
fails half-way has left its queue, and its bytes with it.

Icons are the exception, because their files change under the renderer.
`Fresh` says that each icon in the queue is as its file is; an image is drawn
from the file if the queue is fresh, and otherwise from some icon or none, which
`Alike` pictures do not tell apart. `IInv` adds to `Kept` that the queue is fresh
unless a file has changed since it was last emptied: an edit sets the note, and
only a theme change that empties the queue clears it.

`FramesAgree` is about two renderers at once. `Follows` relates the one that
draws to a new one at every element of a frame: they have failed alike, or their
pictures are alike, and equal if both are fresh. It holds of two cleared frames
(`FrameFollows`) and is kept by every element (`NthFollows`). That the order of
drawing names an element at every place (`OrderIs`) is a counting argument: of
n elements, no two have as many below them.

### What is only model-checked

Liveness (`EveryCycleEnds`, `NewestIsDisplayed`, the fairness of
`ImplementsDisplay`, `SignalsAreHonoured`, `ChangesComplete`, `RunsAgain`,
`PermitsReturn`): liveness under fairness and `ENABLED` are out of this prover's
reach. `ExpressionsAgree` and `ThemesAgree`: `Expr` and `Theme` are recursive
throughout, over data that no bound orders beforehand. Induction over the
natural numbers as a set is available where a proof needs it (`NatSetInduction`,
`LeastNatural`, `LeastOf`, `UpTo`).

## Findings

Two disagreements between the code and its comments or documentation have a
run that shows them.

* `TerminationStopsListeners` (`supervisor_stop`). Only the signal thread
  blocks SIGTERM; given to any other thread it ends the daemon without
  `shutdown`, and a listener that does not end on SIGTERM stays.
* `LaterStylesWin` (`theme_styles`). Of two styles of one name the first is
  applied (`theme.rs:674`), against `docs/docs/themes.md:344`: a theme cannot
  redefine a style that it has imported before. The forced palette can.

Other divergences the models contain. The properties are stated so that they
hold in spite of them:

* A send handled when the phase is already over and before `tick` has drained
  the slot is displayed at once, and the older pending send of the same pair
  after it (`wayland.rs:358`, against the comment at 309-310).
* During the fade-in a send of the pair on display restarts the fade
  (`wayland.rs:445`, against `docs/docs/usage.md:182-183`).
* A pending send keeps the theme it was queued with (`wayland.rs:741`, against
  `docs/docs/usage.md:263`).
* A save between load and watch, or between unwatch and watch, raises no event
  (`watcher.rs:34`): the theme shown stays behind until the next save.
* A successful spawn resets the backoff (`supervisor.rs:223`), so the delay
  between the crashes of a listener never grows, against `supervisor.rs:3-5`.
* `prepare_existing` removes the socket by name (`socket_path.rs:181`): a
  daemon that came up after the last look loses its entry. `LiveSocketsSurvive`
  allows for this window by name.
* The lock of `awob.toml` is taken by daemons only (`main.rs:333`, against the
  comment at 304-306): a save of the editor between the daemon's read and its
  rename is lost, and a text that is not UTF-8 counts as empty.
  `DaemonsKeepEdits` allows for both.
* Sends that continue or preempt the one on display keep a cycle alive and
  the pending send waiting, by documented policy; the runs bound the sends.
* The battery listener looks only for the batteries it found at its start when
  it reads sysfs; one plugged in later is known from its events alone, one
  that is removed stays in the cache (in the model they only come). It decides bands by the rounded
  percentage, icons and style by the truncated one.
* A battery listener that starts in a state outside `--states` remembers
  nothing of it (`awob-listener-battery/src/main.rs:682-684` returns before
  `last` is set). The first transition into a listed state is then taken for the
  first observation and is silent, against the help text
  (`awob-listener-battery/src/main.rs:89-91`: state transitions always fire) and
  `docs/docs/listeners.md:22-24,127-135` (the baseline is whatever the state is
  at the start). `BatteryAgrees` names this exception, and that it is the only
  one.
* A preempting send of another pair starts its bar from what the history has of
  its own pair (`wayland.rs:433-438`, as the comment there says), not from the
  position of the bar on display, against `docs/docs/usage.md:184-186` and
  `docs/docs/protocol.md:146-149`. `StartsFromPrevious` is about the value that
  is queued; a continuation of the same pair replaces it by the bar's position
  (`wayland.rs:426-432`).
* A forced palette whose `surface` is invalid refuses the whole load, because it
  is parsed as a theme first; `theme_loader.rs:61-63` says that its surface is
  ignored.
* With `--default-only`, the first change of a node after it has become the
  default is taken for its first value and not announced.
* Several signs in a row are accepted, against the grammar in `expr.rs:13`; and
  `$max-5` is one identifier, because names may contain `-`.

## Not modelled

Pixels, shaping and the decoding of images and `data:` URIs; the reading of
KDL, TOML, JSON, SVG and uevent text; logging and the wording of errors; file
modes, owners and socket options. They carry no state from one operation to
the next.

Of themes, the attributes of elements and templates (`scene.rs`, `Template` in
`expr.rs`), animations, durations and the vertical axis of the surface, which
is treated as the horizontal one; the limits on nesting in `theme/input.rs`, which
are about KDL's text; names of themes and the search for them; and the
functions of expressions other than `clamp` and `lerp`: parsing into data.

The window between `fork` and `prctl` in `supervisor.rs:211`, in which the
daemon's death leaves a child without its signal: the model has the two as one
step. A `notify` watcher or PipeWire connection that breaks. Listeners that are disabled at build time. The surface's `Stop` command
is never sent.

## Plan

1. The remaining functions of expressions, and templates.
2. The position from which a bar starts, in `Surface`.
