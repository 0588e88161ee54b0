--------------------------- MODULE Requests_proofs ---------------------------
(***************************************************************************)
(* What the threads that change the daemon's shared state may rely on, for *)
(* any number of clients, themes, palettes and sends.                      *)
(***************************************************************************)
EXTENDS Requests, SequenceTheorems, WellFoundedInduction, TLAPS

ThemeNames   == Names \cup {Embedded}
PaletteNames == Palettes \cup {None}

(* What a thread works on: a change asked for, the theme it has decided to *)
(* load, the theme it has loaded.                                          *)
Wanted == [name : ThemeNames, palette : PaletteNames, save : BOOLEAN]
Loaded == [theme : Theme, palette : PaletteNames, save : BOOLEAN]

JobOK ==
  /\ job = [p \in Procs |-> job[p]]
  /\ \A p \in Procs :
       /\ pc[p] = "change" => job[p] \in Changes
       /\ pc[p] = "load" => job[p] \in Wanted
       /\ pc[p] \in {"publish", "rewatch", "save"} =>
            job[p] \in Loaded /\ job[p].theme.palette = job[p].palette

(* One change at a time holds theme_operations.                            *)
OneChanges ==
  \A p, q \in Procs : pc[p] \in HoldsOperations /\ pc[q] \in HoldsOperations => p = q

(* What a change has read of the shared state is still so when it          *)
(* publishes; what it has published is in force until it has saved it.     *)
Keeps(p, name, palette) ==
  /\ name = shared.theme.name \/ palette = shared.force_palette
  /\ p = Reloader => name = shared.theme.name /\ palette = shared.force_palette

SnapshotHolds ==
  /\ pc[Reloader] = "change" => job[Reloader] = Reload
  /\ \A p \in Procs :
       /\ pc[p] = "load" => Keeps(p, job[p].name, job[p].palette)
       /\ pc[p] = "publish" => Keeps(p, job[p].theme.name, job[p].palette)
       /\ pc[p] \in {"rewatch", "save"} => shared.theme = job[p].theme

Locking == TypeOK /\ JobOK /\ OneChanges /\ SnapshotHolds /\ ThemeInForce

-----------------------------------------------------------------------------
(* theme_loader: what a load returns.                                      *)
LEMMA LoadType ==
  ASSUME disk \in [Files -> (0 .. MaxEdits) \cup {Broken}],
         NEW name \in ThemeNames, NEW palette \in PaletteNames, Loads(name, palette)
  PROVE  /\ Load(name, palette) \in Theme
         /\ Load(name, palette).name = name /\ Load(name, palette).palette = palette
<1>1. Reads(name, palette) \in SUBSET Files
  BY DEF Reads
<1>2. \A f \in Reads(name, palette) : disk[f] \in 0 .. MaxEdits
  BY <1>1 DEF Loads
<1>3. [f \in Reads(name, palette) |-> disk[f]] \in [Reads(name, palette) -> 0 .. MaxEdits]
  BY <1>2
<1>4. [f \in Reads(name, palette) |-> disk[f]] \in Contents
  BY <1>1, <1>3 DEF Contents
<1> QED
  BY <1>4 DEF Load, Theme, ThemeNames, PaletteNames

(* The embedded theme reads no file.                                       *)
LEMMA EmbeddedLoads ==
  /\ Reads(Embedded, None) = {}
  /\ Loads(Embedded, None)
  /\ Load(Embedded, None)' = Load(Embedded, None)
<1>1. Reads(Embedded, None) = {}
  BY RequestsAssumption DEF Reads
<1>2. [f \in {} |-> disk[f]] = [f \in {} |-> disk'[f]]
  OBVIOUS
<1> QED
  BY <1>1, <1>2 DEF Loads, Load, Reads

LEMMA WatchedAreFiles ==
  ASSUME NEW theme \in Theme
  PROVE  WatchPaths(theme) \subseteq Files
BY DEF Theme, Contents, WatchPaths

(* A command that is admitted keeps the channel's type and bound.          *)
LEMMA EnqueueType ==
  ASSUME TypeOK, Admits, NEW command \in Command, Enqueue(command)
  PROVE  /\ chan' \in Seq(Command) /\ Len(chan') <= ChanCap
         /\ surface # "running" => chan' = chan
         /\ surface = "running" =>
              /\ Len(chan') = Len(chan) + 1 /\ chan'[Len(chan')] = command
              /\ \A i \in 1 .. Len(chan) : chan'[i] = chan[i]
BY AppendProperties, RequestsAssumption DEF TypeOK, Admits, Enqueue

-----------------------------------------------------------------------------
(* Type correctness, one lemma for each action that does more than set a   *)
(* step, and the locks.                                                    *)
LEMMA StartTypes == Init => Locking
<1> SUFFICES ASSUME Init PROVE Locking
  OBVIOUS
<1>1. PICK broken \in StartsBroken, palette \in PaletteNames, headless \in Headless :
    /\ disk = [f \in Files |-> IF f \in broken THEN Broken ELSE 0]
    /\ shared = [theme |-> IF Loads(Start, palette) THEN Load(Start, palette)
                                                    ELSE Load(Embedded, None),
                 force_palette |-> palette,
                 history |-> [q \in Pairs |-> None]]
    /\ surface = IF headless THEN "none" ELSE "running"
  BY DEF Init, PaletteNames
<1>2. /\ edits = 0 /\ watching = WatchPaths(shared.theme) /\ signals = 0 /\ chan = <<>>
      /\ applied = [theme |-> shared.theme, values |-> [q \in Pairs |-> None]]
      /\ config = Start /\ pc = [p \in Procs |-> Rest(p)] /\ job = [p \in Procs |-> None]
      /\ asked = 0 /\ sent = 0 /\ forgotten = [q \in Pairs |-> {}]
  BY DEF Init
<1>3. /\ 0 \in 0 .. MaxEdits /\ 0 \in 0 .. MaxChanges /\ 0 \in 0 .. MaxSends
      /\ Start \in ThemeNames /\ Embedded \in ThemeNames /\ None \in PaletteNames
  BY RequestsAssumption DEF ThemeNames, PaletteNames
<1>4. disk \in [Files -> (0 .. MaxEdits) \cup {Broken}]
  BY <1>1, <1>3
<1>5. \A name \in ThemeNames, p \in PaletteNames : Loads(name, p) =>
         /\ Load(name, p) \in Theme /\ Load(name, p).name = name /\ Load(name, p).palette = p
  BY <1>4, LoadType
<1>6. /\ shared.theme \in Theme
      /\ shared.theme.palette = shared.force_palette \/ shared.theme = Load(Embedded, None)
  BY <1>1, <1>3, <1>5, EmbeddedLoads
<1>7. TypeOK
  <2>1. shared \in [theme : Theme, force_palette : Palettes \cup {None},
                    history : [Pairs -> (1 .. MaxSends) \cup {None}]]
    BY <1>1, <1>6 DEF PaletteNames
  <2>2. applied \in [theme : Theme, values : [Pairs -> (1 .. MaxSends) \cup {None}]]
    BY <1>2, <1>6
  <2>3. watching \subseteq Files
    BY <1>2, <1>6, WatchedAreFiles
  <2>4. pc \in [Procs -> {"idle", "recv", "debounce", "change"} \cup HoldsOperations]
    BY <1>2 DEF Rest
  <2>5. chan \in Seq(Command) /\ Len(chan) <= ChanCap
    BY <1>2, RequestsAssumption
  <2>6. surface \in {"none", "running", "gone"} /\ config \in Names \cup {Embedded}
    BY <1>1, <1>2, RequestsAssumption
  <2>7. forgotten \in [Pairs -> SUBSET (1 .. MaxSends)]
    BY <1>2
  <2> QED
    BY <1>2, <1>3, <1>4, <2>1, <2>2, <2>3, <2>4, <2>5, <2>6, <2>7 DEF TypeOK
<1>8. \A p \in Procs : pc[p] \in {"idle", "recv"}
  BY <1>2 DEF Rest
<1>9. JobOK /\ OneChanges /\ SnapshotHolds
  BY <1>2, <1>8 DEF JobOK, OneChanges, SnapshotHolds, HoldsOperations, Procs
<1>10. ThemeInForce
  BY <1>2, <1>6 DEF ThemeInForce, WatchPaths
<1> QED
  BY <1>7, <1>9, <1>10 DEF Locking

(* Actions that leave the threads, the theme and what is watched alone.    *)
LEMMA QuietKeepsLocking ==
  ASSUME Locking, TypeOK', UNCHANGED <<pc, job, watching>>,
         shared'.theme = shared.theme, shared'.force_palette = shared.force_palette
  PROVE  Locking'
<1>1. JobOK' /\ OneChanges' /\ SnapshotHolds'
  BY DEF Locking, JobOK, OneChanges, SnapshotHolds, Keeps
<1>2. ThemeInForce'
  BY EmbeddedLoads DEF Locking, ThemeInForce, SharedFree
<1> QED
  BY <1>1, <1>2 DEF Locking

HistoryType == [Pairs -> (1 .. MaxSends) \cup {None}]

(* What is left of a history, and what has been forgotten of each pair.    *)
Dropped(history, lost, dropped, left, gone) ==
  \A q \in Pairs :
    IF q \in dropped
    THEN left[q] = None /\ gone[q] = lost[q] \cup ({history[q]} \ {None})
    ELSE left[q] = history[q] /\ gone[q] = lost[q]

LEMMA DropFacts ==
  ASSUME TypeOK, NEW history \in HistoryType, NEW dropped, Drop(history, dropped)
  PROVE  /\ shared' \in [theme : Theme, force_palette : Palettes \cup {None},
                         history : HistoryType]
         /\ shared'.theme = shared.theme /\ shared'.force_palette = shared.force_palette
         /\ forgotten' \in [Pairs -> SUBSET (1 .. MaxSends)]
         /\ Dropped(history, forgotten, dropped, shared'.history, forgotten')
<1>1. shared \in [theme : Theme, force_palette : Palettes \cup {None}, history : HistoryType]
  BY DEF TypeOK, HistoryType
<1>2. [q \in Pairs |-> IF q \in dropped THEN None ELSE history[q]] \in HistoryType
  BY DEF HistoryType
<1>3. PICK left : left = [q \in Pairs |-> IF q \in dropped THEN None ELSE history[q]]
  OBVIOUS
<1>4. shared' = [shared EXCEPT !.history = left] /\ left \in HistoryType
  BY <1>2, <1>3 DEF Drop
<1>5. /\ shared' \in [theme : Theme, force_palette : Palettes \cup {None},
                      history : HistoryType]
      /\ shared'.theme = shared.theme /\ shared'.force_palette = shared.force_palette
      /\ shared'.history = left
  BY <1>1, <1>4
<1>6. forgotten' = [q \in Pairs |-> IF q \in dropped
                                    THEN forgotten[q] \cup ({history[q]} \ {None})
                                    ELSE forgotten[q]]
  BY DEF Drop
<1>7. forgotten' \in [Pairs -> SUBSET (1 .. MaxSends)]
  BY <1>6 DEF TypeOK, HistoryType
<1>8. Dropped(history, forgotten, dropped, left, forgotten')
  BY <1>3, <1>6 DEF Dropped
<1> QED
  BY <1>5, <1>7, <1>8

LEMMA SendFacts ==
  ASSUME Locking, NEW c \in Clients, NEW pair \in Pairs \cup Anonymous, NEW dropped,
         Send(c, pair, dropped)
  PROVE  /\ SendCommand(pair) \in Command /\ Admits /\ Enqueue(SendCommand(pair))
         /\ sent' = sent + 1 /\ sent' \in 1 .. MaxSends
         /\ UNCHANGED <<disk, edits, watching, signals, surface, applied, config, pc, job, asked>>
         /\ Recorded(pair) \in HistoryType /\ Drop(Recorded(pair), dropped)
<1> DEFINE value == sent + 1
           known == pair \in Pairs /\ shared.history[pair] # None
<1>1. /\ Admits /\ Enqueue(SendCommand(pair)) /\ sent' = value /\ sent < MaxSends
      /\ Drop(Recorded(pair), dropped)
      /\ UNCHANGED <<disk, edits, watching, signals, surface, applied, config, pc, job, asked>>
  BY DEF Send
<1>2. TypeOK
  BY DEF Locking
<1>3. value \in 1 .. MaxSends
  BY <1>1, <1>2, RequestsAssumption DEF TypeOK
<1>4. SendCommand(pair) \in Command
  <2>1. known => shared.history[pair] \in 1 .. MaxSends
    BY <1>2 DEF TypeOK
  <2>2. (IF known THEN shared.history[pair] ELSE value) \in 1 .. MaxSends
    BY <1>3, <2>1
  <2>3. SendCommand(pair) = [kind |-> "render", theme |-> shared.theme, pair |-> pair,
                             value |-> value,
                             last_value |-> IF known THEN shared.history[pair] ELSE value]
    BY DEF SendCommand
  <2> HIDE DEF value, known
  <2> QED
    BY <1>2, <1>3, <2>2, <2>3 DEF Command, TypeOK
<1>5. Recorded(pair) \in HistoryType
  BY <1>2, <1>3 DEF TypeOK, Recorded, HistoryType
<1> QED
  BY <1>1, <1>3, <1>4, <1>5

LEMMA SendTypes ==
  ASSUME Locking, NEW c \in Clients, NEW pair \in Pairs \cup Anonymous, NEW dropped,
         Send(c, pair, dropped)
  PROVE  Locking'
<1>1. chan' \in Seq(Command) /\ Len(chan') <= ChanCap
  BY SendFacts, EnqueueType DEF Locking
<1>2. /\ UNCHANGED <<disk, edits, watching, signals, surface, applied, config, pc, job, asked>>
      /\ sent' \in 0 .. MaxSends
  <2>1. sent' \in 1 .. MaxSends /\ MaxSends \in Nat
    BY SendFacts, RequestsAssumption
  <2>2. sent' \in 0 .. MaxSends
    BY <2>1
  <2>3. QED
    BY <2>2, SendFacts
<1>3. TypeOK
  BY DEF Locking
<1>4. /\ shared' \in [theme : Theme, force_palette : Palettes \cup {None},
                      history : HistoryType]
      /\ shared'.theme = shared.theme /\ shared'.force_palette = shared.force_palette
      /\ forgotten' \in [Pairs -> SUBSET (1 .. MaxSends)]
  <2>1. Recorded(pair) \in HistoryType /\ Drop(Recorded(pair), dropped)
    BY SendFacts
  <2> QED
    BY <1>3, <2>1, DropFacts
<1>5. TypeOK'
  BY <1>1, <1>2, <1>3, <1>4 DEF TypeOK, HistoryType
<1> QED
  BY <1>2, <1>4, <1>5, QuietKeepsLocking

LEMMA ExpireFacts ==
  ASSUME TypeOK, NEW pair \in Pairs, Expire(pair)
  PROVE  /\ shared.history \in HistoryType /\ Drop(shared.history, {pair})
         /\ UNCHANGED <<disk, edits, watching, signals, surface, chan, applied, config, pc, job,
                        asked, sent>>
BY DEF TypeOK, HistoryType, Expire

LEMMA ExpireTypes ==
  ASSUME Locking, NEW pair \in Pairs, Expire(pair)
  PROVE  Locking'
<1>1. TypeOK
  BY DEF Locking
<1>2. /\ shared' \in [theme : Theme, force_palette : Palettes \cup {None},
                      history : HistoryType]
      /\ shared'.theme = shared.theme /\ shared'.force_palette = shared.force_palette
      /\ forgotten' \in [Pairs -> SUBSET (1 .. MaxSends)]
  <2>1. shared.history \in HistoryType /\ Drop(shared.history, {pair})
    BY <1>1, ExpireFacts
  <2> QED
    BY <1>1, <2>1, DropFacts
<1>3. TypeOK'
  BY <1>1, <1>2, ExpireFacts DEF TypeOK, HistoryType
<1> QED
  BY <1>1, <1>2, <1>3, ExpireFacts, QuietKeepsLocking

LEMMA EditTypes ==
  ASSUME Locking, NEW f \in Files, Edit(f)
  PROVE  Locking'
<1>1. PICK content \in {edits + 1, Broken} : disk' = [disk EXCEPT ![f] = content]
  BY DEF Edit
<1>2. /\ edits < MaxEdits /\ edits' = edits + 1
      /\ signals' = IF f \in watching THEN signals + 1 ELSE signals
      /\ UNCHANGED <<shared, watching, surface, chan, applied, config, pc, job, asked, sent, forgotten>>
  BY DEF Edit
<1>3. TypeOK
  BY DEF Locking
<1>4. edits' \in 0 .. MaxEdits /\ signals' \in Nat
  BY <1>2, <1>3, RequestsAssumption DEF TypeOK
<1>5. disk' \in [Files -> (0 .. MaxEdits) \cup {Broken}]
  BY <1>1, <1>2, <1>3, <1>4 DEF TypeOK
<1>6. TypeOK'
  BY <1>2, <1>3, <1>4, <1>5 DEF TypeOK
<1> QED
  BY <1>2, <1>6, QuietKeepsLocking

LEMMA HandleTypes ==
  ASSUME Locking, HandleCommand
  PROVE  Locking'
<1>1. TypeOK /\ chan # <<>>
  BY DEF Locking, HandleCommand
<1>2. /\ Head(chan) \in Command /\ Tail(chan) \in Seq(Command) /\ Len(Tail(chan)) <= ChanCap
  <2>1. chan \in Seq(Command) /\ Len(chan) <= ChanCap /\ Len(chan) \in Nat
    BY <1>1 DEF TypeOK
  <2>2. /\ Head(chan) \in Command /\ Tail(chan) \in Seq(Command)
        /\ Len(Tail(chan)) = Len(chan) - 1
    BY <1>1, <2>1, HeadTailProperties
  <2> QED
    BY <2>1, <2>2, RequestsAssumption
<1>3. /\ Head(chan).theme \in Theme
      /\ Head(chan).kind = "render" => Head(chan).value \in 1 .. MaxSends
  BY <1>2 DEF Command
<1>4. applied' \in [theme : Theme, values : [Pairs -> (1 .. MaxSends) \cup {None}]]
  <2> DEFINE value(q) == IF Head(chan).kind = "render" /\ Head(chan).pair = q
                         THEN Head(chan).value ELSE applied.values[q]
  <2>1. \A q \in Pairs : value(q) \in (1 .. MaxSends) \cup {None}
    BY <1>1, <1>3 DEF TypeOK
  <2>2. applied' = [theme |-> Head(chan).theme, values |-> [q \in Pairs |-> value(q)]]
    BY DEF HandleCommand
  <2> HIDE DEF value
  <2>3. [q \in Pairs |-> value(q)] \in [Pairs -> (1 .. MaxSends) \cup {None}]
    BY <2>1
  <2> QED
    BY <1>3, <2>2, <2>3
<1>5. TypeOK'
  BY <1>1, <1>2, <1>4 DEF HandleCommand, TypeOK
<1> QED
  BY <1>5, QuietKeepsLocking DEF HandleCommand

LEMMA SurfaceStopsTypes ==
  ASSUME Locking, SurfaceStops
  PROVE  Locking'
<1>1. TypeOK'
  BY RequestsAssumption DEF Locking, SurfaceStops, TypeOK
<1> QED
  BY <1>1, QuietKeepsLocking DEF SurfaceStops

-----------------------------------------------------------------------------
(* Steps of a thread: a step of p from one that does not hold the lock to  *)
(* one that does not publish.                                              *)
PcSteps == {"idle", "recv", "debounce", "change"} \cup HoldsOperations

LEMMA AskTypes ==
  ASSUME Locking, NEW c \in Clients, NEW change \in Changes, Ask(c, change)
  PROVE  Locking'
<1>1. /\ asked < MaxChanges /\ asked' = asked + 1 /\ pc[c] = "idle"
      /\ pc' = [pc EXCEPT ![c] = "change"] /\ job' = [job EXCEPT ![c] = change]
      /\ UNCHANGED <<disk, edits, shared, watching, signals, surface, chan, applied, config, sent, forgotten>>
  BY DEF Ask, Goes
<1>2. TypeOK /\ JobOK /\ OneChanges /\ SnapshotHolds /\ ThemeInForce /\ c \in Procs /\ c # Reloader
  BY RequestsAssumption DEF Locking, Procs
<1>3. TypeOK'
  <2>1. asked' \in 0 .. MaxChanges
    BY <1>1, <1>2, RequestsAssumption DEF TypeOK
  <2>2. pc' \in [Procs -> PcSteps]
    BY <1>1, <1>2 DEF TypeOK, PcSteps
  <2> QED
    BY <1>1, <1>2, <2>1, <2>2 DEF TypeOK, PcSteps
<1>4. \A p \in Procs : /\ pc'[p] = IF p = c THEN "change" ELSE pc[p]
                       /\ job'[p] = IF p = c THEN change ELSE job[p]
  BY <1>1, <1>2 DEF TypeOK, JobOK
<1>5. JobOK'
  <2>1. job' = [p \in Procs |-> job'[p]]
    BY <1>1, <1>2 DEF JobOK
  <2> QED
    BY <1>2, <1>4, <2>1 DEF JobOK
<1>6. OneChanges' /\ SnapshotHolds'
  BY <1>1, <1>2, <1>4 DEF OneChanges, SnapshotHolds, Keeps, HoldsOperations
<1>7. ThemeInForce'
  BY <1>1, <1>2, <1>4, EmbeddedLoads DEF ThemeInForce, SharedFree
<1> QED
  BY <1>3, <1>5, <1>6, <1>7 DEF Locking

LEMMA ThreadStep ==
  ASSUME Locking, NEW p \in Procs, NEW step \in PcSteps, NEW j,
         pc' = [pc EXCEPT ![p] = step], job' = [job EXCEPT ![p] = j]
  PROVE  /\ pc' \in [Procs -> PcSteps]
         /\ job' = [q \in Procs |-> job'[q]]
         /\ pc'[p] = step /\ job'[p] = j
         /\ \A q \in Procs \ {p} : pc'[q] = pc[q] /\ job'[q] = job[q]
<1>1. pc \in [Procs -> PcSteps] /\ job = [q \in Procs |-> job[q]]
  BY DEF Locking, TypeOK, JobOK, PcSteps
<1> QED
  BY <1>1

(* A thread that finishes, having published nothing that is still to be    *)
(* watched.                                                                *)
LEMMA FinishKeepsLocking ==
  ASSUME Locking, TypeOK', NEW p \in Procs, Finishes(p), pc[p] # "rewatch",
         UNCHANGED <<shared, watching>>
  PROVE  Locking'
<1>1. Rest(p) \in PcSteps /\ Rest(p) \in {"idle", "recv"}
  BY DEF Rest, PcSteps
<1>2. /\ job' = [q \in Procs |-> job'[q]] /\ pc'[p] = Rest(p)
      /\ \A q \in Procs \ {p} : pc'[q] = pc[q] /\ job'[q] = job[q]
  <2>1. pc' = [pc EXCEPT ![p] = Rest(p)] /\ job' = [job EXCEPT ![p] = None]
    BY DEF Finishes, Goes
  <2> QED
    BY <1>1, <2>1, ThreadStep
<1>3. JobOK'
  BY <1>1, <1>2 DEF Locking, JobOK
<1>4. OneChanges'
  BY <1>1, <1>2 DEF Locking, OneChanges, HoldsOperations
<1>5. SnapshotHolds'
  BY <1>1, <1>2 DEF Locking, SnapshotHolds, Keeps, Procs
<1>6. ThemeInForce'
  BY <1>1, <1>2, EmbeddedLoads DEF Locking, ThemeInForce, SharedFree
<1> QED
  BY <1>3, <1>4, <1>5, <1>6 DEF Locking

LEMMA FinishPc ==
  ASSUME Locking, NEW p \in Procs, Finishes(p)
  PROVE  pc' \in [Procs -> PcSteps]
<1>1. Rest(p) \in PcSteps /\ pc' = [pc EXCEPT ![p] = Rest(p)] /\ job' = [job EXCEPT ![p] = None]
  BY DEF Rest, PcSteps, Finishes, Goes
<1> QED
  BY <1>1, ThreadStep

LEMMA ReloaderTypes ==
  ASSUME Locking, Receive \/ Coalesce \/ DebounceOver
  PROVE  Locking'
<1>1. /\ TypeOK /\ JobOK /\ OneChanges /\ SnapshotHolds /\ ThemeInForce
      /\ pc \in [Procs -> PcSteps] /\ Reloader \in Procs
  BY DEF Locking, TypeOK, PcSteps, Procs
<1>2. CASE Coalesce
  <2>1. TypeOK'
    BY <1>1, <1>2 DEF Coalesce, TypeOK
  <2> QED
    BY <1>2, <2>1, QuietKeepsLocking DEF Coalesce
<1>3. CASE Receive
  <2>1. pc' \in [Procs -> PcSteps] /\ pc[Reloader] = "recv"
        /\ \A q \in Procs : pc'[q] = IF q = Reloader THEN "debounce" ELSE pc[q]
    BY <1>1, <1>3 DEF Receive, Goes, PcSteps
  <2>2. TypeOK'
    BY <1>1, <1>3, <2>1 DEF Receive, TypeOK, PcSteps
  <2>3. JobOK' /\ OneChanges' /\ SnapshotHolds'
    BY <1>1, <1>3, <2>1 DEF Receive, JobOK, OneChanges, SnapshotHolds, Keeps, HoldsOperations
  <2>4. ThemeInForce'
    BY <1>1, <1>3, <2>1, EmbeddedLoads DEF Receive, ThemeInForce, SharedFree
  <2> QED
    BY <2>2, <2>3, <2>4 DEF Locking
<1>4. CASE DebounceOver
  <2>1. /\ pc' = [pc EXCEPT ![Reloader] = "change"] /\ job' = [job EXCEPT ![Reloader] = Reload]
        /\ pc[Reloader] = "debounce"
        /\ UNCHANGED <<disk, edits, shared, watching, signals, surface, chan, applied, config,
                       asked, sent, forgotten>>
    BY <1>4 DEF DebounceOver, Goes
  <2>2. /\ pc' \in [Procs -> PcSteps] /\ job' = [q \in Procs |-> job'[q]]
        /\ pc'[Reloader] = "change" /\ job'[Reloader] = Reload
        /\ \A q \in Procs \ {Reloader} : pc'[q] = pc[q] /\ job'[q] = job[q]
    BY <1>1, <2>1, ThreadStep DEF PcSteps
  <2>3. TypeOK'
    BY <1>1, <2>1, <2>2 DEF TypeOK, PcSteps
  <2>4. JobOK' /\ OneChanges' /\ SnapshotHolds'
    BY <1>1, <2>1, <2>2 DEF JobOK, OneChanges, SnapshotHolds, Keeps, HoldsOperations, Changes
  <2>5. ThemeInForce'
    BY <1>1, <2>1, <2>2, EmbeddedLoads DEF ThemeInForce, SharedFree
  <2> QED
    BY <2>3, <2>4, <2>5 DEF Locking
<1> QED
  BY <1>2, <1>3, <1>4

(* The snapshot: the change goes on with what it has read, and nobody else *)
(* holds the lock.                                                         *)
LEMMA SnapshotTypes ==
  ASSUME Locking, NEW p \in Procs, Snapshot(p)
  PROVE  Locking'
<1> DEFINE change == job[p]
           j == [name |-> IF change.kind = "set" THEN change.name ELSE shared.theme.name,
                 palette |-> IF change.kind = "palette" THEN change.palette
                             ELSE shared.force_palette,
                 save |-> change.kind = "set" /\ change.save]
<1>1. /\ TypeOK /\ JobOK /\ OneChanges /\ SnapshotHolds /\ ThemeInForce
  BY DEF Locking
<1>2. /\ pc[p] = "change" /\ OperationsFree
      /\ pc' = [pc EXCEPT ![p] = "load"] /\ job' = [job EXCEPT ![p] = j]
      /\ UNCHANGED <<disk, edits, shared, watching, signals, surface, chan, applied, config,
                     asked, sent, forgotten>>
  BY DEF Snapshot, Goes
<1>3. /\ pc' \in [Procs -> PcSteps] /\ job' = [q \in Procs |-> job'[q]]
      /\ pc'[p] = "load" /\ job'[p] = j
      /\ \A q \in Procs \ {p} : pc'[q] = pc[q] /\ job'[q] = job[q]
  <2> HIDE DEF j
  <2> QED
    BY <1>2, ThreadStep DEF PcSteps, HoldsOperations
<1>4. change \in Changes /\ shared.theme.name \in ThemeNames /\ shared.force_palette \in PaletteNames
      /\ (p = Reloader => change = Reload)
  BY <1>1, <1>2 DEF JobOK, SnapshotHolds, TypeOK, Theme, ThemeNames, PaletteNames
<1>5. /\ j.name \in ThemeNames /\ j.palette \in PaletteNames
      /\ j.name = shared.theme.name \/ j.palette = shared.force_palette
      /\ p = Reloader => j.name = shared.theme.name /\ j.palette = shared.force_palette
  <2>1. CASE change \in [kind : {"set"}, name : ThemeNames, save : BOOLEAN]
    BY <1>4, <2>1 DEF Reload
  <2>2. CASE change = Reload
    BY <1>4, <2>2 DEF Reload
  <2>3. CASE change \in [kind : {"palette"}, palette : PaletteNames]
    BY <1>4, <2>3 DEF Reload
  <2> QED
    BY <1>4, <2>1, <2>2, <2>3 DEF Changes, ThemeNames, PaletteNames
<1>6. j \in Wanted
  <2>1. (change.kind = "set" /\ change.save) \in BOOLEAN
    BY Zenon
  <2>2. j.save \in BOOLEAN /\ j = [name |-> j.name, palette |-> j.palette, save |-> j.save]
    BY <2>1, Zenon
  <2> HIDE DEF j
  <2> QED
    BY <1>5, <2>2 DEF Wanted
<1>7. TypeOK'
  BY <1>1, <1>2, <1>3 DEF TypeOK, PcSteps
<1> HIDE DEF j
<1>8. JobOK'
  BY <1>1, <1>3, <1>6 DEF JobOK
<1>9. OneChanges'
  BY <1>2, <1>3 DEF OneChanges, OperationsFree
<1>10. SnapshotHolds'
  BY <1>1, <1>2, <1>3, <1>5 DEF SnapshotHolds, Keeps
<1>11. ThemeInForce'
  BY <1>1, <1>2, <1>3, EmbeddedLoads DEF ThemeInForce, SharedFree
<1> QED
  BY <1>7, <1>8, <1>9, <1>10, <1>11 DEF Locking

LEMMA LoadThemeTypes ==
  ASSUME Locking, NEW p \in Procs, LoadTheme(p)
  PROVE  Locking'
<1> DEFINE theme == Load(job[p].name, job[p].palette)
           j == [theme |-> theme, palette |-> job[p].palette, save |-> job[p].save]
<1>1. /\ TypeOK /\ JobOK /\ OneChanges /\ SnapshotHolds /\ ThemeInForce
      /\ pc[p] = "load"
      /\ UNCHANGED <<disk, edits, shared, watching, signals, surface, chan, applied, config,
                     asked, sent, forgotten>>
  BY DEF Locking, LoadTheme
<1>2. CASE Finishes(p)
  <2>1. TypeOK'
    BY <1>1, <1>2, FinishPc DEF TypeOK, PcSteps
  <2> QED
    BY <1>1, <1>2, <2>1, FinishKeepsLocking
<1>3. CASE /\ Loads(job[p].name, job[p].palette)
           /\ job' = [job EXCEPT ![p] = j] /\ Goes(p, "publish")
  <2>1. job[p] \in Wanted
    BY <1>1 DEF JobOK
  <2>2. theme \in Theme /\ theme.name = job[p].name /\ theme.palette = job[p].palette
    BY <1>1, <1>3, <2>1, LoadType DEF TypeOK, Wanted
  <2> HIDE DEF theme
  <2>3. j \in Loaded /\ j.theme = theme /\ j.palette = job[p].palette
    BY <2>1, <2>2 DEF Loaded, Wanted
  <2> HIDE DEF j
  <2>4. /\ pc' \in [Procs -> PcSteps] /\ job' = [q \in Procs |-> job'[q]]
        /\ pc'[p] = "publish" /\ job'[p] = j
        /\ \A q \in Procs \ {p} : pc'[q] = pc[q] /\ job'[q] = job[q]
    BY <1>3, ThreadStep DEF PcSteps, HoldsOperations, Goes
  <2>5. TypeOK'
    BY <1>1, <2>4 DEF TypeOK, PcSteps
  <2>6. JobOK'
    BY <1>1, <2>2, <2>3, <2>4 DEF JobOK
  <2>7. OneChanges'
    BY <1>1, <2>4 DEF OneChanges, HoldsOperations
  <2>8. SnapshotHolds'
    BY <1>1, <2>2, <2>3, <2>4 DEF SnapshotHolds, Keeps, Procs
  <2>9. ThemeInForce'
    BY <1>1, <2>4, EmbeddedLoads DEF ThemeInForce, SharedFree
  <2> QED
    BY <2>5, <2>6, <2>7, <2>8, <2>9 DEF Locking
<1> QED
  BY <1>2, <1>3 DEF LoadTheme

(* The publication: nobody else has read what it changes.                  *)
LEMMA PublishTypes ==
  ASSUME Locking, NEW p \in Procs, Publish(p)
  PROVE  Locking'
<1> DEFINE command == [kind |-> "retheme", theme |-> job[p].theme]
<1>1. /\ TypeOK /\ JobOK /\ OneChanges /\ SnapshotHolds
  BY DEF Locking
<1>2. /\ pc[p] = "publish" /\ SharedFree /\ Admits /\ Enqueue(command)
      /\ shared' = [shared EXCEPT !.theme = job[p].theme]
      /\ watching' = {} /\ pc' = [pc EXCEPT ![p] = "rewatch"]
      /\ UNCHANGED <<disk, edits, signals, surface, applied, config, job, asked, sent, forgotten>>
  BY DEF Publish, Goes
<1>3. job[p] \in Loaded /\ job[p].theme \in Theme
  BY <1>1, <1>2 DEF JobOK, Loaded
<1>4. /\ pc' \in [Procs -> PcSteps] /\ pc'[p] = "rewatch"
      /\ \A q \in Procs \ {p} : pc'[q] = pc[q]
  BY <1>1, <1>2 DEF TypeOK, PcSteps, HoldsOperations
<1>5. /\ shared' \in [theme : Theme, force_palette : Palettes \cup {None},
                      history : [Pairs -> (1 .. MaxSends) \cup {None}]]
      /\ shared'.theme = job[p].theme
  BY <1>1, <1>2, <1>3 DEF TypeOK
<1>6. chan' \in Seq(Command) /\ Len(chan') <= ChanCap
  <2>1. command \in Command
    BY <1>3 DEF Command
  <2> HIDE DEF command
  <2> QED
    BY <1>1, <1>2, <2>1, EnqueueType
<1>7. TypeOK'
  BY <1>1, <1>2, <1>4, <1>5, <1>6 DEF TypeOK, PcSteps
<1>8. \A q \in Procs \ {p} : pc[q] \notin HoldsOperations
  BY <1>1, <1>2 DEF OneChanges, HoldsOperations
<1>9. JobOK'
  BY <1>1, <1>2, <1>4 DEF JobOK
<1>10. OneChanges'
  BY <1>4, <1>8 DEF OneChanges
<1>11. SnapshotHolds'
  <2>1. \A q \in Procs \ {p} : pc'[q] \notin {"load", "publish", "rewatch", "save"}
    BY <1>4, <1>8 DEF HoldsOperations
  <2>2. job' = job /\ pc'[p] = "rewatch" /\ shared'.theme = job[p].theme
    BY <1>2, <1>4, <1>5
  <2>3. pc'[Reloader] = "change" => job'[Reloader] = Reload
    BY <1>1, <1>4, <2>2 DEF SnapshotHolds, Procs
  <2> QED
    BY <2>1, <2>2, <2>3 DEF SnapshotHolds
<1>12. ~SharedFree'
  BY <1>4 DEF SharedFree
<1> QED
  BY <1>7, <1>9, <1>10, <1>11, <1>12 DEF Locking, ThemeInForce

LEMMA PublishRejectedTypes ==
  ASSUME Locking, NEW p \in Procs, PublishRejected(p)
  PROVE  Locking'
<1>1. TypeOK'
  <2>1. signals' \in Nat
    BY DEF Locking, TypeOK, PublishRejected
  <2> QED
    BY <2>1, FinishPc DEF Locking, TypeOK, PublishRejected, PcSteps
<1> QED
  BY <1>1, FinishKeepsLocking DEF PublishRejected

(* The end of a publication puts in force what belongs together.           *)
LEMMA RewatchTypes ==
  ASSUME Locking, NEW p \in Procs, Rewatch(p)
  PROVE  Locking'
<1>1. /\ TypeOK /\ JobOK /\ OneChanges /\ SnapshotHolds
  BY DEF Locking
<1>2. /\ pc[p] = "rewatch" /\ watching' = WatchPaths(shared.theme)
      /\ shared' = [shared EXCEPT !.force_palette = job[p].palette]
      /\ UNCHANGED <<disk, edits, signals, surface, chan, applied, config, asked, sent, forgotten>>
  BY DEF Rewatch
<1>3. /\ job[p] \in Loaded /\ job[p].theme.palette = job[p].palette /\ shared.theme = job[p].theme
  BY <1>1, <1>2 DEF JobOK, SnapshotHolds
<1>4. /\ shared' \in [theme : Theme, force_palette : Palettes \cup {None},
                      history : [Pairs -> (1 .. MaxSends) \cup {None}]]
      /\ shared'.theme = shared.theme /\ shared'.force_palette = job[p].palette
  BY <1>1, <1>2, <1>3 DEF TypeOK, Loaded, PaletteNames
<1>5. PICK step \in {"save", Rest(p)} :
        /\ pc' \in [Procs -> PcSteps] /\ job' = [q \in Procs |-> job'[q]] /\ pc'[p] = step
        /\ step = "save" => job'[p] = job[p]
        /\ \A q \in Procs \ {p} : pc'[q] = pc[q] /\ job'[q] = job[q]
  <2>1. CASE Goes(p, "save") /\ UNCHANGED job
    BY <1>1, <2>1 DEF Goes, TypeOK, JobOK, PcSteps, HoldsOperations
  <2>2. CASE Finishes(p)
    <3>1. Rest(p) \in PcSteps /\ Rest(p) # "save"
      BY DEF Rest, PcSteps
    <3>2. pc' = [pc EXCEPT ![p] = Rest(p)] /\ job' = [job EXCEPT ![p] = None]
      BY <2>2 DEF Finishes, Goes
    <3> QED
      BY <3>1, <3>2, ThreadStep
  <2> QED
    BY <2>1, <2>2 DEF Rewatch
<1>6. step \in {"save", "idle", "recv"}
  BY <1>5 DEF Rest
<1>7. TypeOK'
  BY <1>1, <1>2, <1>4, <1>5, WatchedAreFiles DEF TypeOK, PcSteps
<1>8. \A q \in Procs \ {p} : pc[q] \notin HoldsOperations
  BY <1>1, <1>2 DEF OneChanges, HoldsOperations
<1>9. JobOK'
  BY <1>1, <1>3, <1>5, <1>6 DEF JobOK
<1>10. OneChanges'
  BY <1>5, <1>8 DEF OneChanges
<1>11. SnapshotHolds'
  <2>1. \A q \in Procs \ {p} : pc'[q] \notin {"load", "publish", "rewatch", "save"}
    BY <1>5, <1>8 DEF HoldsOperations
  <2> QED
    BY <1>1, <1>3, <1>4, <1>5, <1>6, <2>1 DEF SnapshotHolds, Procs
<1>12. ThemeInForce'
  BY <1>2, <1>3, <1>4 DEF ThemeInForce, WatchPaths
<1> QED
  BY <1>7, <1>9, <1>10, <1>11, <1>12 DEF Locking

LEMMA SaveTypes ==
  ASSUME Locking, NEW p \in Procs, Save(p) \/ SaveFails(p)
  PROVE  Locking'
<1>1. pc[p] = "save" /\ Finishes(p) /\ config' \in {config, job[p].theme.name}
      /\ UNCHANGED <<disk, edits, shared, watching, signals, surface, chan, applied, asked, sent, forgotten>>
  BY DEF Save, SaveFails
<1>2. job[p].theme.name \in Names \cup {Embedded}
  BY <1>1 DEF Locking, JobOK, Loaded, Theme
<1>3. TypeOK'
  BY <1>1, <1>2, FinishPc DEF Locking, TypeOK, PcSteps
<1> QED
  BY <1>1, <1>3, FinishKeepsLocking

LEMMA LockingKept == Locking /\ [Next]_vars => Locking'
<1> SUFFICES ASSUME Locking, [Next]_vars PROVE Locking'
  OBVIOUS
<1>1. CASE UNCHANGED vars
  <2>1. TypeOK'
    BY <1>1 DEF vars, Locking, TypeOK
  <2> QED
    BY <1>1, <2>1, QuietKeepsLocking DEF vars
<1>2. ASSUME NEW p \in Procs, ChangeTheme(p) PROVE Locking'
  BY <1>2, SnapshotTypes, LoadThemeTypes, PublishTypes, PublishRejectedTypes, RewatchTypes,
     SaveTypes DEF ChangeTheme
<1> QED
  BY <1>1, <1>2, SendTypes, ExpireTypes, AskTypes, ReloaderTypes, EditTypes, HandleTypes,
     SurfaceStopsTypes DEF Next

LEMMA LockingHolds == Spec => []Locking
BY StartTypes, LockingKept, PTL DEF Spec

(* Every variable stays within its type: nothing is published that no      *)
(* theme file can hold, no command waits beyond the channel's capacity.    *)
THEOREM TypeCorrect == Spec => []TypeOK
BY LockingHolds, PTL DEF Locking

(* The lock over a change, from its snapshot to its save, is enough:       *)
(* outside a publication what is in force belongs together.                *)
THEOREM InForce == Spec => []ThemeInForce
BY LockingHolds, PTL DEF Locking

(* No reload, palette change or SetTheme undoes another, and no older save *)
(* overtakes a newer theme.                                                *)
THEOREM Compose == Spec => ChangesCompose
<1>1. ASSUME Locking, NEW p \in Procs, Publish(p)
      PROVE  /\ shared'.theme.name # shared.theme.name =>
                  shared'.theme.palette = shared.force_palette
             /\ p = Reloader => /\ shared'.theme.name = shared.theme.name
                                /\ shared'.theme.palette = shared.force_palette
  <2>1. pc[p] = "publish" /\ shared'.theme = job[p].theme
    BY <1>1 DEF Publish, Locking, TypeOK
  <2>2. /\ job[p].theme.palette = job[p].palette
        /\ Keeps(p, job[p].theme.name, job[p].palette)
    BY <1>1, <2>1 DEF Locking, JobOK, SnapshotHolds
  <2> QED
    BY <2>1, <2>2 DEF Keeps
<1>2. ASSUME Locking, [Next]_vars, config' # config
      PROVE  config' = shared.theme.name
  <2>1. PICK p \in Procs : Save(p)
    BY <1>2 DEF Next, vars, Send, Expire, Ask, Receive, Coalesce, DebounceOver, ChangeTheme, Snapshot,
                LoadTheme, Publish, PublishRejected, Rewatch, SaveFails, Edit, HandleCommand,
                SurfaceStops
  <2> QED
    BY <1>2, <2>1 DEF Save, Locking, SnapshotHolds
<1>3. Locking /\ [Next]_vars =>
        [/\ \A p \in Procs :
          /\ Publish(p) /\ shared'.theme.name # shared.theme.name =>
               shared'.theme.palette = shared.force_palette
          /\ Publish(p) /\ p = Reloader =>
               /\ shared'.theme.name = shared.theme.name
               /\ shared'.theme.palette = shared.force_palette
         /\ config' # config => config' = shared.theme.name]_vars
  BY <1>1, <1>2
<1> QED
  BY <1>3, LockingHolds, PTL DEF Spec, ChangesCompose

-----------------------------------------------------------------------------
(* The queue of commands.  First the least-number principle and, from it,  *)
(* induction: the theorems of NaturalsInduction are about operators, these *)
(* about sets.                                                             *)
LEMMA Least ==
  ASSUME NEW T, T \subseteq Nat, T # {}
  PROVE  \E m \in T : \A n \in T : m <= n
<1>1. PICK m \in T : \A n \in T : ~ (<<n, m>> \in OpToRel(<, Nat))
  BY NatLessThanWellFounded, WFMin
<1>2. \A n \in T : ~(n < m)
  BY <1>1 DEF OpToRel
<1> QED
  BY <1>2

LEMMA NatSetInduction ==
  ASSUME NEW S, S \subseteq Nat, 0 \in S, \A n \in S : n + 1 \in S
  PROVE  S = Nat
<1> SUFFICES ASSUME S # Nat PROVE FALSE
  OBVIOUS
<1>1. PICK m \in Nat \ S : \A n \in Nat \ S : m <= n
  BY Least
<1>2. m # 0 /\ m - 1 \in S
  BY <1>1
<1> QED
  BY <1>2

(* LatestBefore, of any queue c and any values v; it can be worked out     *)
(* command by command.                                                     *)
Renders(command, pair) == command.kind = "render" /\ command.pair = pair

Before(c, i, pair) == {j \in 1 .. i - 1 : c[j].kind = "render" /\ c[j].pair = pair}

LastOf(J) == CHOOSE j \in J : \A k \in J : k <= j

Latest(c, v, i, pair) ==
  IF Before(c, i, pair) = {} THEN v[pair] ELSE c[LastOf(Before(c, i, pair))].value

LEMMA LatestBeforeIs ==
  ASSUME NEW i, NEW pair
  PROVE  LatestBefore(i, pair) = Latest(chan, applied.values, i, pair)
BY DEF LatestBefore, Latest, Before, LastOf

LEMMA LastOfIs ==
  ASSUME NEW J \in SUBSET Int, NEW i \in J, \A k \in J : k <= i
  PROVE  LastOf(J) = i
<1>1. LastOf(J) \in J /\ \A k \in J : k <= LastOf(J)
  BY DEF LastOf
<1>2. LastOf(J) \in Int /\ LastOf(J) <= i /\ i <= LastOf(J)
  BY <1>1
<1> QED
  BY <1>2

LEMMA LatestFirst ==
  ASSUME NEW c, NEW v, NEW pair
  PROVE  Latest(c, v, 1, pair) = v[pair]
BY DEF Latest, Before

LEMMA LatestNext ==
  ASSUME NEW c, NEW v, NEW pair, NEW i \in Nat \ {0}
  PROVE  Latest(c, v, i + 1, pair) =
           IF Renders(c[i], pair) THEN c[i].value ELSE Latest(c, v, i, pair)
<1>1. CASE Renders(c[i], pair)
  <2>1. /\ Before(c, i + 1, pair) \in SUBSET Int
        /\ i \in Before(c, i + 1, pair) /\ \A k \in Before(c, i + 1, pair) : k <= i
    BY <1>1 DEF Renders, Before
  <2>2. LastOf(Before(c, i + 1, pair)) = i
    BY <2>1, LastOfIs
  <2> QED
    BY <1>1, <2>1, <2>2 DEF Latest
<1>2. CASE ~Renders(c[i], pair)
  <2>1. Before(c, i + 1, pair) = Before(c, i, pair)
    BY <1>2 DEF Renders, Before
  <2> QED
    BY <1>2, <2>1, Zenon DEF Latest
<1> QED
  BY <1>1, <1>2

(* The queue d continues c, or is what is left of it after its first.      *)
Continues(c, d, n) == n \in Nat /\ \A i \in 1 .. n : d[i] = c[i]
Shifted(c, d, n)   == n \in Nat \ {0} /\ \A i \in 1 .. n - 1 : d[i] = c[i + 1]

Handled(command, v, w, pair) ==
  w[pair] = IF Renders(command, pair) THEN command.value ELSE v[pair]

(* A command at the end of the queue changes nothing before it.            *)
LEMMA LatestAppend ==
  ASSUME NEW c, NEW d, NEW v, NEW pair, NEW n, Continues(c, d, n)
  PROVE  \A i \in 1 .. n + 1 : Latest(d, v, i, pair) = Latest(c, v, i, pair)
<1> USE DEF Continues
<1> DEFINE S == {m \in Nat : m <= n => Latest(d, v, m + 1, pair) = Latest(c, v, m + 1, pair)}
<1>1. 0 \in S
  BY LatestFirst
<1>2. ASSUME NEW m \in S PROVE m + 1 \in S
  <2> SUFFICES ASSUME m + 1 <= n
               PROVE  Latest(d, v, m + 2, pair) = Latest(c, v, m + 2, pair)
    OBVIOUS
  <2>1. Latest(d, v, m + 1, pair) = Latest(c, v, m + 1, pair) /\ d[m + 1] = c[m + 1]
    BY <1>2
  <2>2. m + 1 \in Nat \ {0} /\ (m + 1) + 1 = m + 2
    OBVIOUS
  <2> QED
    BY <2>1, <2>2, LatestNext
<1> HIDE DEF S
<1>3. S = Nat
  BY <1>1, <1>2, NatSetInduction DEF S
<1>4. \A i \in 1 .. n + 1 : i - 1 \in S
  BY <1>3
<1> QED
  BY <1>4 DEF S

(* Handling the first command moves its value into what is applied.        *)
LEMMA LatestTail ==
  ASSUME NEW c, NEW d, NEW v, NEW w, NEW pair, NEW n, Shifted(c, d, n),
         Handled(c[1], v, w, pair)
  PROVE  \A i \in 1 .. n : Latest(d, w, i, pair) = Latest(c, v, i + 1, pair)
<1> USE DEF Shifted, Handled
<1> DEFINE S == {m \in Nat : m < n => Latest(d, w, m + 1, pair) = Latest(c, v, m + 2, pair)}
<1>1. 0 \in S
  <2>1. 1 \in Nat \ {0} /\ 1 + 1 = 2 /\ 0 + 1 = 1 /\ 0 + 2 = 2
    OBVIOUS
  <2>2. Latest(c, v, 1 + 1, pair) = IF Renders(c[1], pair) THEN c[1].value ELSE Latest(c, v, 1, pair)
    BY <2>1, LatestNext
  <2>3. Latest(c, v, 1 + 1, pair) = w[pair]
    BY <2>2, LatestFirst
  <2> QED
    BY <2>1, <2>3, LatestFirst
<1>2. ASSUME NEW m \in S PROVE m + 1 \in S
  <2> SUFFICES ASSUME m + 1 < n
               PROVE  Latest(d, w, m + 2, pair) = Latest(c, v, m + 3, pair)
    OBVIOUS
  <2>1. Latest(d, w, m + 1, pair) = Latest(c, v, m + 2, pair) /\ d[m + 1] = c[m + 2]
    BY <1>2
  <2>2. /\ m + 1 \in Nat \ {0} /\ (m + 1) + 1 = m + 2
        /\ m + 2 \in Nat \ {0} /\ (m + 2) + 1 = m + 3
    OBVIOUS
  <2> QED
    BY <2>1, <2>2, LatestNext
<1> HIDE DEF S
<1>3. S = Nat
  BY <1>1, <1>2, NatSetInduction DEF S
<1>4. \A i \in 1 .. n : i - 1 \in S
  BY <1>3
<1> QED
  BY <1>4 DEF S

-----------------------------------------------------------------------------
(* The two invariants of the queue, of any queue, applied state and shared *)
(* state: with them a step is a fact about two queues.                     *)
ThemeAt(c, a, i) == IF i = 0 THEN a.theme ELSE c[i].theme

QueuedThemes(c, a, theme) ==
  /\ theme = ThemeAt(c, a, Len(c))
  /\ \A i \in 1 .. Len(c) : c[i].kind = "render" => c[i].theme = ThemeAt(c, a, i - 1)

(* A command starts where the previous one of its pair was, if known.      *)
Starts(command, previous) ==
  command.last_value = IF previous = None THEN command.value ELSE previous

(* Of one pair: the history is what the queue says, less what is lost; and *)
(* values are numbers up to n, a send's is new, and only such can be lost, *)
(* so what is lost later is not what a queued command started from.        *)
PairQueued(c, v, known, lost, n, pair) ==
  /\ known = Remembered(Latest(c, v, Len(c) + 1, pair), lost)
  /\ \A i \in 1 .. Len(c) :
       Renders(c[i], pair) => /\ Starts(c[i], Remembered(Latest(c, v, i, pair), lost))
                              /\ Latest(c, v, i, pair) # Latest(c, v, Len(c) + 1, pair)
  /\ \A i \in 1 .. Len(c) + 1 : Latest(c, v, i, pair) \in (1 .. n) \cup {None}
  /\ lost \subseteq 1 .. n

ValuesQueued ==
  surface = "running" =>
    \A pair \in Pairs :
      PairQueued(chan, applied.values, shared.history[pair], forgotten[pair], sent, pair)

LEMMA QueuedThemesIs ==
  PublishedAsQueued <=> (surface = "running" => QueuedThemes(chan, applied, shared.theme))
BY DEF PublishedAsQueued, QueuedThemes, ThemeOf, ThemeAt

LEMMA ValuesQueuedEnough == ValuesQueued => StartsFromPrevious
BY LatestBeforeIs DEF ValuesQueued, PairQueued, Starts, Renders, StartsFromPrevious

LEMMA QueuedNext ==
  /\ PublishedAsQueued' <=> (surface' = "running" => QueuedThemes(chan', applied', shared'.theme))
  /\ ValuesQueued' <=>
       (surface' = "running" =>
          \A pair \in Pairs :
            PairQueued(chan', applied'.values, shared'.history[pair], forgotten'[pair], sent', pair))
BY DEF PublishedAsQueued, QueuedThemes, ThemeOf, ThemeAt, ValuesQueued, PairQueued, Starts,
       Renders, Remembered, Latest, Before, LastOf

LEMMA AppendKeepsThemes ==
  ASSUME NEW c, NEW d, NEW a, NEW theme, NEW new, Len(c) \in Nat,
         Len(d) = Len(c) + 1, \A i \in 1 .. Len(c) : d[i] = c[i],
         QueuedThemes(c, a, theme), d[Len(d)].theme = new,
         d[Len(d)].kind = "render" => new = theme
  PROVE  QueuedThemes(d, a, new)
<1>1. \A i \in 0 .. Len(c) : ThemeAt(d, a, i) = ThemeAt(c, a, i)
  BY DEF ThemeAt
<1>2. ThemeAt(d, a, Len(d)) = new
  BY DEF ThemeAt
<1>3. ASSUME NEW i \in 1 .. Len(d), d[i].kind = "render"
      PROVE  d[i].theme = ThemeAt(d, a, i - 1)
  <2>1. CASE i \in 1 .. Len(c)
    BY <1>1, <1>3, <2>1 DEF QueuedThemes
  <2>2. CASE i = Len(d)
    <3>1. i - 1 = Len(c)
      BY <2>2
    <3> QED
      BY <1>1, <1>3, <2>2, <3>1 DEF QueuedThemes
  <2> QED
    BY <2>1, <2>2
<1> QED
  BY <1>2, <1>3 DEF QueuedThemes

(* A command at the end of the queue, new being what the history then has. *)
Appended(command, known, new, n, m, pair) ==
  /\ n \in Nat /\ m \in {n, n + 1}
  /\ IF Renders(command, pair)
     THEN new = n + 1 /\ m = n + 1 /\ command.value = n + 1 /\ Starts(command, known)
     ELSE new = known

LEMMA AppendKeepsPair ==
  ASSUME NEW c, NEW d, NEW v, NEW known, NEW new, NEW lost, NEW n, NEW m, NEW pair,
         Len(c) \in Nat, Len(d) = Len(c) + 1, \A i \in 1 .. Len(c) : d[i] = c[i],
         PairQueued(c, v, known, lost, n, pair),
         Appended(d[Len(d)], known, new, n, m, pair)
  PROVE  PairQueued(d, v, new, lost, m, pair)
<1> DEFINE latest == Latest(c, v, Len(c) + 1, pair)
           after  == Latest(d, v, Len(d) + 1, pair)
<1>1. /\ n \in Nat /\ m \in {n, n + 1} /\ lost \subseteq 1 .. n /\ None \notin Nat
      /\ latest \in (1 .. n) \cup {None} /\ known = Remembered(latest, lost)
  BY RequestsAssumption DEF Appended, PairQueued
<1>2. \A i \in 1 .. Len(c) + 1 : Latest(d, v, i, pair) = Latest(c, v, i, pair)
  <2>1. Continues(c, d, Len(c))
    BY DEF Continues
  <2> QED
    BY <2>1, LatestAppend
<1>3. Latest(d, v, Len(d), pair) = latest
  BY <1>2
<1>4. after = IF Renders(d[Len(d)], pair) THEN d[Len(d)].value ELSE latest
  <2>1. Len(d) \in Nat \ {0}
    OBVIOUS
  <2> QED
    BY <1>3, <2>1, LatestNext
<1>5. after = IF Renders(d[Len(d)], pair) THEN n + 1 ELSE latest
  BY <1>4 DEF Appended
<1> HIDE DEF latest, after
<1>6. new = Remembered(after, lost)
  <2>1. n + 1 \notin lost
    BY <1>1
  <2> QED
    BY <1>1, <1>5, <2>1 DEF Appended, Remembered
<1>7. ASSUME NEW i \in 1 .. Len(d), Renders(d[i], pair)
      PROVE  /\ Starts(d[i], Remembered(Latest(d, v, i, pair), lost))
             /\ Latest(d, v, i, pair) # after
  <2>1. CASE i \in 1 .. Len(c)
    <3>1. /\ d[i] = c[i] /\ Latest(d, v, i, pair) = Latest(c, v, i, pair)
          /\ Latest(c, v, i, pair) \in (1 .. n) \cup {None}
          /\ Starts(c[i], Remembered(Latest(c, v, i, pair), lost))
          /\ Latest(c, v, i, pair) # latest
      BY <1>2, <1>7, <2>1 DEF PairQueued, latest
    <3>2. Latest(c, v, i, pair) # n + 1
      BY <1>1, <3>1
    <3> QED
      BY <1>5, <3>1, <3>2
  <2>2. CASE i = Len(d)
    <3>1. Starts(d[i], known) /\ after = n + 1
      BY <1>5, <1>7, <2>2 DEF Appended
    <3>2. latest # n + 1
      BY <1>1
    <3> QED
      BY <1>1, <1>3, <2>2, <3>1, <3>2
  <2> QED
    BY <2>1, <2>2
<1>8. after \in (1 .. m) \cup {None}
  <2>1. CASE Renders(d[Len(d)], pair)
    BY <1>1, <1>5, <2>1 DEF Appended
  <2>2. CASE ~Renders(d[Len(d)], pair)
    BY <1>1, <1>5, <2>2
  <2> QED
    BY <2>1, <2>2
<1>9. ASSUME NEW i \in 1 .. Len(d) + 1
      PROVE  Latest(d, v, i, pair) \in (1 .. m) \cup {None}
  <2>1. CASE i \in 1 .. Len(c) + 1
    <3>1. Latest(d, v, i, pair) \in (1 .. n) \cup {None}
      BY <1>2, <2>1 DEF PairQueued
    <3> QED
      BY <1>1, <3>1
  <2>2. CASE i = Len(d) + 1
    BY <1>8, <2>2 DEF after
  <2> QED
    BY <2>1, <2>2
<1>10. lost \subseteq 1 .. m
  BY <1>1
<1> QED
  BY <1>6, <1>7, <1>9, <1>10 DEF PairQueued, after

(* Losing what the history has of a pair disturbs nothing that is queued.  *)
LEMMA DropKeepsPair ==
  ASSUME NEW c, NEW v, NEW known, NEW lost, NEW n \in Nat, NEW pair, Len(c) \in Nat,
         PairQueued(c, v, known, lost, n, pair)
  PROVE  PairQueued(c, v, None, lost \cup ({known} \ {None}), n, pair)
<1> DEFINE latest == Latest(c, v, Len(c) + 1, pair)
<1>1. /\ known = Remembered(latest, lost) /\ lost \subseteq 1 .. n
      /\ latest \in (1 .. n) \cup {None}
  BY DEF PairQueued
<1> HIDE DEF latest
<1>2. CASE known = None
  BY <1>2 DEF PairQueued
<1>3. CASE known # None
  <2>1. known = latest /\ latest \notin lost /\ latest \in 1 .. n
    BY <1>1, <1>3 DEF Remembered
  <2>2. PICK gone : gone = lost \cup ({known} \ {None})
    OBVIOUS
  <2>3. latest \in gone /\ gone \subseteq 1 .. n
    <3>1. gone = lost \cup {latest}
      BY <1>3, <2>1, <2>2
    <3> QED
      BY <1>1, <2>1, <3>1
  <2>4. None = Remembered(latest, gone)
    BY <2>3 DEF Remembered
  <2>5. \A x : x # latest => Remembered(x, gone) = Remembered(x, lost)
    <3>1. \A x : x # latest => (x \in gone <=> x \in lost)
      BY <1>3, <2>1, <2>2, Zenon
    <3> QED
      BY <3>1, Zenon DEF Remembered
  <2>6. PairQueued(c, v, None, gone, n, pair)
    BY <2>3, <2>4, <2>5 DEF PairQueued, latest
  <2> QED
    BY <2>2, <2>6
<1> QED
  BY <1>2, <1>3

LEMMA TailKeepsThemes ==
  ASSUME NEW c, NEW d, NEW a, NEW b, NEW theme, Len(c) \in Nat \ {0},
         Len(d) = Len(c) - 1, \A i \in 1 .. Len(d) : d[i] = c[i + 1],
         QueuedThemes(c, a, theme), b.theme = c[1].theme
  PROVE  QueuedThemes(d, b, theme)
<1>1. \A i \in 0 .. Len(d) : ThemeAt(d, b, i) = ThemeAt(c, a, i + 1)
  BY DEF ThemeAt
<1>2. theme = ThemeAt(d, b, Len(d))
  BY <1>1 DEF QueuedThemes
<1>3. ASSUME NEW i \in 1 .. Len(d), d[i].kind = "render"
      PROVE  d[i].theme = ThemeAt(d, b, i - 1)
  <2>1. /\ i + 1 \in 1 .. Len(c) /\ d[i] = c[i + 1] /\ (i + 1) - 1 = i
        /\ i - 1 \in 0 .. Len(d) /\ (i - 1) + 1 = i
    OBVIOUS
  <2> QED
    BY <1>1, <1>3, <2>1 DEF QueuedThemes
<1> QED
  BY <1>2, <1>3 DEF QueuedThemes

LEMMA TailKeepsPair ==
  ASSUME NEW c, NEW d, NEW v, NEW w, NEW known, NEW lost, NEW n, NEW pair,
         Len(c) \in Nat \ {0}, Len(d) = Len(c) - 1, \A i \in 1 .. Len(d) : d[i] = c[i + 1],
         PairQueued(c, v, known, lost, n, pair), Handled(c[1], v, w, pair)
  PROVE  PairQueued(d, w, known, lost, n, pair)
<1>1. \A i \in 1 .. Len(c) : Latest(d, w, i, pair) = Latest(c, v, i + 1, pair)
  <2>1. Shifted(c, d, Len(c))
    BY DEF Shifted
  <2> QED
    BY <2>1, LatestTail
<1>2. Latest(d, w, Len(d) + 1, pair) = Latest(c, v, Len(c) + 1, pair)
  BY <1>1
<1>3. \A i \in 1 .. Len(d) : i \in 1 .. Len(c) /\ i + 1 \in 1 .. Len(c) /\ d[i] = c[i + 1]
  OBVIOUS
<1>4. ASSUME NEW i \in 1 .. Len(d), Renders(d[i], pair)
      PROVE  /\ Starts(d[i], Remembered(Latest(d, w, i, pair), lost))
             /\ Latest(d, w, i, pair) # Latest(d, w, Len(d) + 1, pair)
  <2>1. /\ i + 1 \in 1 .. Len(c) /\ Renders(c[i + 1], pair) /\ d[i] = c[i + 1]
        /\ Latest(d, w, i, pair) = Latest(c, v, i + 1, pair)
    BY <1>1, <1>3, <1>4
  <2> QED
    BY <1>2, <2>1 DEF PairQueued
<1>5. ASSUME NEW i \in 1 .. Len(d) + 1
      PROVE  Latest(d, w, i, pair) \in (1 .. n) \cup {None}
  <2>1. i \in 1 .. Len(c) /\ i + 1 \in 1 .. Len(c) + 1
    OBVIOUS
  <2> QED
    BY <1>1, <2>1 DEF PairQueued
<1> QED
  BY <1>2, <1>4, <1>5 DEF PairQueued

-----------------------------------------------------------------------------
Queued == PublishedAsQueued /\ ValuesQueued

(* Steps that leave the queue and what it is about alone.                  *)
LEMMA QueueUntouched ==
  ASSUME Queued, chan' = chan, applied' = applied, surface' = surface, sent' = sent,
         forgotten' = forgotten,
         shared'.theme = shared.theme, shared'.history = shared.history
  PROVE  Queued'
<1>1. PublishedAsQueued'
  BY QueuedThemesIs, QueuedNext DEF Queued, QueuedThemes, ThemeAt
<1>2. ValuesQueued'
  BY QueuedNext DEF Queued, ValuesQueued
<1> QED
  BY <1>1, <1>2 DEF Queued

(* A drop, from a history that agrees with the queue.                      *)
LEMMA DropKeepsPairs ==
  ASSUME NEW c, NEW v, NEW history, NEW lost, NEW n \in Nat, NEW dropped, NEW left, NEW gone,
         Len(c) \in Nat,
         \A pair \in Pairs : PairQueued(c, v, history[pair], lost[pair], n, pair),
         Dropped(history, lost, dropped, left, gone)
  PROVE  \A pair \in Pairs : PairQueued(c, v, left[pair], gone[pair], n, pair)
<1> SUFFICES ASSUME NEW pair \in Pairs
             PROVE  PairQueued(c, v, left[pair], gone[pair], n, pair)
  OBVIOUS
<1>1. PairQueued(c, v, history[pair], lost[pair], n, pair)
  OBVIOUS
<1>2. PairQueued(c, v, None, lost[pair] \cup ({history[pair]} \ {None}), n, pair)
  BY <1>1, DropKeepsPair
<1> QED
  BY <1>1, <1>2 DEF Dropped

LEMMA SendQueues ==
  ASSUME Locking, Queued, NEW c \in Clients, NEW pair \in Pairs \cup Anonymous, NEW dropped,
         Send(c, pair, dropped)
  PROVE  Queued'
<1> DEFINE command == SendCommand(pair)
<1>1. /\ command.kind = "render" /\ command.theme = shared.theme /\ command.pair = pair
      /\ command.value = sent + 1
      /\ command.last_value = IF pair \in Pairs /\ shared.history[pair] # None
                              THEN shared.history[pair] ELSE sent + 1
  BY DEF SendCommand
<1>2. TypeOK /\ sent \in Nat /\ Len(chan) \in Nat
  BY RequestsAssumption DEF Locking, TypeOK
<1>3. /\ surface' = surface /\ applied' = applied /\ sent' = sent + 1
      /\ Recorded(pair) \in HistoryType /\ Drop(Recorded(pair), dropped)
  BY SendFacts
<1>4. /\ shared'.theme = shared.theme
      /\ Dropped(Recorded(pair), forgotten, dropped, shared'.history, forgotten')
  BY <1>2, <1>3, DropFacts
<1>5. CASE surface # "running"
  BY <1>3, <1>5 DEF Queued, PublishedAsQueued, ValuesQueued
<1>6. CASE surface = "running"
  <2>1. /\ Len(chan') = Len(chan) + 1 /\ chan'[Len(chan')] = command
        /\ \A i \in 1 .. Len(chan) : chan'[i] = chan[i]
    BY <1>2, <1>6, SendFacts, EnqueueType
  <2> HIDE DEF command
  <2>2. QueuedThemes(chan', applied, shared'.theme)
    BY <1>1, <1>2, <1>4, <1>6, <2>1, AppendKeepsThemes, QueuedThemesIs DEF Queued
  <2>3. ASSUME NEW q \in Pairs
        PROVE  PairQueued(chan', applied.values, Recorded(pair)[q], forgotten[q], sent + 1, q)
    <3>1. Appended(command, shared.history[q], Recorded(pair)[q], sent, sent + 1, q)
      BY <1>1, <1>2 DEF Appended, Renders, Recorded, Starts
    <3>2. PairQueued(chan, applied.values, shared.history[q], forgotten[q], sent, q)
      BY <1>6 DEF Queued, ValuesQueued
    <3> QED
      BY <1>2, <2>1, <3>1, <3>2, AppendKeepsPair
  <2>4. \A q \in Pairs :
          PairQueued(chan', applied.values, shared'.history[q], forgotten'[q], sent + 1, q)
    <3>1. sent + 1 \in Nat /\ Len(chan') \in Nat
      BY <1>2, <2>1
    <3> QED
      BY <1>4, <2>3, <3>1, DropKeepsPairs
  <2> QED
    BY <1>3, <2>2, <2>4, QueuedNext DEF Queued
<1> QED
  BY <1>5, <1>6

LEMMA ExpireQueues ==
  ASSUME Locking, Queued, NEW pair \in Pairs, Expire(pair)
  PROVE  Queued'
<1>1. TypeOK /\ sent \in Nat /\ Len(chan) \in Nat
  BY RequestsAssumption DEF Locking, TypeOK
<1>2. /\ surface' = surface /\ chan' = chan /\ applied' = applied /\ sent' = sent
      /\ shared.history \in HistoryType /\ Drop(shared.history, {pair})
  BY <1>1, ExpireFacts
<1>3. /\ shared'.theme = shared.theme
      /\ Dropped(shared.history, forgotten, {pair}, shared'.history, forgotten')
  BY <1>1, <1>2, DropFacts
<1>4. PublishedAsQueued'
  BY <1>2, <1>3, QueuedThemesIs, QueuedNext DEF Queued, QueuedThemes, ThemeAt
<1>5. ASSUME surface = "running"
      PROVE  \A q \in Pairs :
               PairQueued(chan, applied.values, shared'.history[q], forgotten'[q], sent, q)
  <2>1. \A q \in Pairs :
          PairQueued(chan, applied.values, shared.history[q], forgotten[q], sent, q)
    BY <1>5 DEF Queued, ValuesQueued
  <2> QED
    BY <1>1, <1>3, <2>1, DropKeepsPairs
<1> QED
  BY <1>2, <1>4, <1>5, QueuedNext DEF Queued

LEMMA PublishQueues ==
  ASSUME Locking, Queued, NEW p \in Procs, Publish(p)
  PROVE  Queued'
<1> DEFINE command == [kind |-> "retheme", theme |-> job[p].theme]
<1>1. /\ Admits /\ Enqueue(command) /\ surface' = surface /\ applied' = applied
      /\ sent' = sent /\ forgotten' = forgotten
      /\ shared'.theme = job[p].theme /\ shared'.history = shared.history
      /\ TypeOK /\ job[p] \in Loaded
  BY DEF Publish, Locking, TypeOK, JobOK
<1>2. command \in Command /\ command.kind = "retheme" /\ command.theme = job[p].theme
  BY <1>1 DEF Command, Loaded
<1> HIDE DEF command
<1>3. CASE surface # "running"
  BY <1>1, <1>3 DEF Queued, PublishedAsQueued, ValuesQueued
<1>4. CASE surface = "running"
  <2>1. /\ Len(chan') = Len(chan) + 1 /\ chan'[Len(chan')] = command /\ Len(chan) \in Nat
        /\ \A i \in 1 .. Len(chan) : chan'[i] = chan[i]
    BY <1>1, <1>2, <1>4, EnqueueType DEF TypeOK
  <2>2. QueuedThemes(chan', applied, shared'.theme)
    BY <1>1, <1>2, <1>4, <2>1, AppendKeepsThemes, QueuedThemesIs DEF Queued
  <2>3. ASSUME NEW q \in Pairs
        PROVE  PairQueued(chan', applied.values, shared'.history[q], forgotten'[q], sent', q)
    <3>1. sent \in Nat
      BY <1>1, RequestsAssumption DEF TypeOK
    <3>2. Appended(command, shared.history[q], shared.history[q], sent, sent, q)
      BY <1>2, <3>1 DEF Appended, Renders
    <3>3. PairQueued(chan, applied.values, shared.history[q], forgotten[q], sent, q)
      BY <1>4 DEF Queued, ValuesQueued
    <3>4. PairQueued(chan', applied.values, shared.history[q], forgotten[q], sent, q)
      BY <2>1, <3>2, <3>3, AppendKeepsPair
    <3> QED
      BY <1>1, <3>4
  <2> QED
    BY <1>1, <2>2, <2>3, QueuedNext DEF Queued
<1> QED
  BY <1>3, <1>4

LEMMA HandleQueues ==
  ASSUME Locking, Queued, HandleCommand
  PROVE  Queued'
<1>1. /\ TypeOK /\ surface = "running" /\ surface' = surface /\ shared' = shared
      /\ sent' = sent /\ forgotten' = forgotten
      /\ chan # <<>> /\ chan' = Tail(chan) /\ chan \in Seq(Command)
  BY DEF HandleCommand, Locking, TypeOK
<1>2. /\ Len(chan) \in Nat \ {0} /\ Len(chan') = Len(chan) - 1
      /\ \A i \in 1 .. Len(chan') : chan'[i] = chan[i + 1]
      /\ Head(chan) = chan[1]
  BY <1>1, HeadTailProperties, EmptySeq
<1>3. /\ applied'.theme = chan[1].theme
      /\ \A q \in Pairs : applied'.values[q] =
           IF Renders(chan[1], q) THEN chan[1].value ELSE applied.values[q]
  BY <1>2, Zenon DEF HandleCommand, Renders
<1>4. QueuedThemes(chan', applied', shared.theme)
  BY <1>1, <1>2, <1>3, TailKeepsThemes, QueuedThemesIs DEF Queued
<1>5. ASSUME NEW q \in Pairs
      PROVE  PairQueued(chan', applied'.values, shared.history[q], forgotten[q], sent, q)
  <2>1. Handled(chan[1], applied.values, applied'.values, q)
    BY <1>3 DEF Handled
  <2>2. PairQueued(chan, applied.values, shared.history[q], forgotten[q], sent, q)
    BY <1>1 DEF Queued, ValuesQueued
  <2> QED
    BY <1>2, <2>1, <2>2, TailKeepsPair
<1> QED
  BY <1>1, <1>4, <1>5, QueuedNext DEF Queued

LEMMA StartQueues == Init => Queued
<1> SUFFICES ASSUME Init PROVE Queued
  OBVIOUS
<1>1. /\ chan = <<>> /\ Len(chan) = 0 /\ applied.theme = shared.theme /\ sent = 0
      /\ \A q \in Pairs : applied.values[q] = None /\ shared.history[q] = None /\ forgotten[q] = {}
  BY DEF Init
<1>2. PublishedAsQueued
  BY <1>1 DEF PublishedAsQueued, ThemeOf
<1>3. ASSUME NEW q \in Pairs
      PROVE  PairQueued(chan, applied.values, shared.history[q], forgotten[q], sent, q)
  BY <1>1, LatestFirst DEF PairQueued, Remembered
<1> QED
  BY <1>2, <1>3 DEF Queued, ValuesQueued

LEMMA QueuedKept == Locking /\ Queued /\ [Next]_vars => Queued'
<1> SUFFICES ASSUME Locking, Queued, [Next]_vars PROVE Queued'
  OBVIOUS
<1>1. CASE SurfaceStops
  BY <1>1 DEF SurfaceStops, Queued, PublishedAsQueued, ValuesQueued
<1>2. ASSUME NEW p \in Procs, Rewatch(p) PROVE Queued'
  <2>1. shared'.theme = shared.theme /\ shared'.history = shared.history
    BY <1>2 DEF Rewatch, Locking, TypeOK
  <2> QED
    BY <1>2, <2>1, QueueUntouched DEF Rewatch
<1>3. ASSUME NEW p \in Procs, Snapshot(p) \/ LoadTheme(p) \/ PublishRejected(p) \/ Save(p) \/ SaveFails(p)
      PROVE  Queued'
  BY <1>3, QueueUntouched DEF Snapshot, LoadTheme, PublishRejected, Save, SaveFails
<1>4. ASSUME NEW c \in Clients, NEW change \in Changes, Ask(c, change) PROVE Queued'
  BY <1>4, QueueUntouched DEF Ask
<1>5. ASSUME NEW f \in Files, Edit(f) PROVE Queued'
  BY <1>5, QueueUntouched DEF Edit
<1>6. CASE Receive \/ Coalesce \/ DebounceOver \/ UNCHANGED vars
  BY <1>6, QueueUntouched DEF Receive, Coalesce, DebounceOver, vars
<1> QED
  BY <1>1, <1>2, <1>3, <1>4, <1>5, <1>6, SendQueues, ExpireQueues, PublishQueues,
     HandleQueues
     DEF Next, ChangeTheme

LEMMA QueuedHolds == Spec => []Queued
BY StartTypes, LockingKept, StartQueues, QueuedKept, PTL DEF Spec

(* The Wayland thread meets a theme change exactly between the sends that  *)
(* were prepared before it and those prepared after it, and shows the      *)
(* published theme once the queue is empty.                                *)
THEOREM Published == Spec => []PublishedAsQueued
BY QueuedHolds, PTL DEF Queued

(* The last_value of every queued send is the value of the accepted send   *)
(* of its pair before it, unless the history had lost that value before    *)
(* this send was made: by expiry, to make room or for its long name.       *)
THEOREM LastValues == Spec => []StartsFromPrevious
BY QueuedHolds, ValuesQueuedEnough, PTL DEF Queued
=============================================================================
