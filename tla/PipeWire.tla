----------------------------- MODULE PipeWire ------------------------------
(***************************************************************************)
(* The PipeWire listener: nodes come and go, identifiers are used again,   *)
(* the default sink and source move between nodes, and all of it reaches   *)
(* the listener later, in order, as events of one connection.              *)
(***************************************************************************)
EXTENDS Integers, Sequences, FiniteSets, SequencesExt

CONSTANTS Ids,           \* identifiers of registry objects
          Classes,       \* media classes of nodes
          Names,         \* node names
          Volumes,       \* states: volume and mute
          Options,       \* options: apps (--per-app), binaries
                         \* (those it follows, all if none), channels, defaultOnly
          MaxEvents      \* changes of the audio server (a bound)

None == "none"
Gone == [class |-> None, name |-> None, state |-> None, born |-> 0]

VARIABLES
  options,   \* those of the listener
  node,      \* per identifier: the node it stands for
  chosen,    \* the names of the default sink and source
  wire,      \* events on their way to the listener
  events,    \* changes so far
  audio,     \* the listener: nodes it is bound to, filter, defaults, and which
             \* nodes it has heard of (a note for the property)
  worker     \* OSDs on their way to the thread that sends them

pipeVars == <<options, node, chosen, wire, events, audio, worker>>

Channels == {"speaker", "mic"}

PipeInit == /\ options \in Options
            /\ node = [i \in Ids |-> Gone]
            /\ chosen = [c \in Channels |-> None]
            /\ wire = <<>> /\ events = 0
            /\ audio = [bound |-> [i \in Ids |-> Gone], last |-> [i \in Ids |-> None],
                        defaults |-> [c \in Channels |-> None], heard |-> {}]
            /\ worker = <<>>

-----------------------------------------------------------------------------
(* The audio server.                                                       *)

Event(is, i, what) == [is |-> is, id |-> i, what |-> what]
Sends(e) == wire' = Append(wire, e) /\ events < MaxEvents /\ events' = events + 1

Adds(i, class, name, state) ==
  LET new == [class |-> class, name |-> name, state |-> state, born |-> events + 1]
  IN /\ node[i] = Gone /\ node' = [node EXCEPT ![i] = new]
     /\ Sends(Event("global", i, new))
     /\ UNCHANGED <<options, chosen, audio, worker>>

Removes(i) == /\ node[i] # Gone /\ node' = [node EXCEPT ![i] = Gone]
              /\ Sends(Event("remove", i, Gone))
              /\ UNCHANGED <<options, chosen, audio, worker>>

\* A node's volume changes; who is subscribed to it hears of it.
Turns(i, state) ==
  /\ node[i] # Gone /\ node[i].state # state
  /\ node' = [node EXCEPT ![i].state = state]
  /\ events < MaxEvents /\ events' = events + 1
  /\ wire' = IF audio.bound[i].born = node[i].born THEN Append(wire, Event("props", i, node'[i])) ELSE wire
  /\ UNCHANGED <<options, chosen, audio, worker>>

Chooses(c, name) ==
  /\ chosen[c] # name /\ chosen' = [chosen EXCEPT ![c] = name]
  /\ Sends(Event("default", 0, [channel |-> c, name |-> name]))
  /\ UNCHANGED <<options, node, audio, worker>>

-----------------------------------------------------------------------------
(* The listener's callbacks, in one thread.                                *)

Channel(class) == IF class \in {"Audio/Sink", "Stream/Output/Audio"} THEN "speaker" ELSE "mic"
IsApp(class) == class \in {"Stream/Output/Audio", "Stream/Input/Audio"}

\* Which nodes to bind to.  A node has the name it is known by: that of the
\* device, which --default-only compares, or of the application's binary; one
\* without a name is left alone.
Wanted(n) == /\ Channel(n.class) \in options.channels /\ n.name # None
             /\ \/ n.class \in {"Audio/Sink", "Audio/Source"}
                \/ /\ IsApp(n.class) /\ options.apps
                   /\ options.binaries = {} \/ n.name \in options.binaries

NextIs(is) == wire # <<>> /\ wire[1].is = is
Consumes == wire' = Tail(wire)

\* A node: it is bound and subscribed to, and answers with its state, if it is
\* still there.
Global ==
  /\ NextIs("global")
  /\ LET i == wire[1].id
         n == wire[1].what
         answers == node[i].born = n.born
     IN IF Wanted(n)
        THEN /\ audio' = [audio EXCEPT !.bound[i] = n]
             /\ wire' = IF answers THEN Append(Tail(wire), Event("props", i, node[i])) ELSE Tail(wire)
        ELSE Consumes /\ UNCHANGED audio
  /\ UNCHANGED <<options, node, chosen, events, worker>>

\* The default metadata.
Property ==
  /\ NextIs("default")
  /\ audio' = [audio EXCEPT !.defaults[wire[1].what.channel] = wire[1].what.name]
  /\ Consumes /\ UNCHANGED <<options, node, chosen, events, worker>>

\* --default-only drops what other devices say.
Listens(n) == \/ ~options.defaultOnly \/ IsApp(n.class)
              \/ audio.defaults[Channel(n.class)] \notin {None} /\ audio.defaults[Channel(n.class)] = n.name

\* The state of a node: the filter, which is silent at first, and the OSD.
Param ==
  /\ NextIs("props")
  /\ LET i == wire[1].id
         n == wire[1].what
         heard == audio.bound[i].born = n.born /\ Listens(n)
     IN /\ audio' = IF heard THEN [audio EXCEPT !.last[i] = n.state, !.heard = @ \cup {n.born}]
                   ELSE audio
        /\ worker' = IF heard /\ audio.last[i] \notin {None, n.state} THEN Append(worker, [of |-> n, known |-> n.born \in audio.heard])
                    ELSE worker
  /\ Consumes /\ UNCHANGED <<options, node, chosen, events>>

GlobalRemove_Remembers ==                  \* mutant: the filter does not forget
  /\ NextIs("remove")
  /\ audio' = [audio EXCEPT !.bound[wire[1].id] = Gone]
  /\ Consumes /\ UNCHANGED <<options, node, chosen, events, worker>>
GlobalRemove ==
  /\ NextIs("remove")
  /\ audio' = [audio EXCEPT !.bound[wire[1].id] = Gone, !.last[wire[1].id] = None]
  /\ Consumes /\ UNCHANGED <<options, node, chosen, events, worker>>

\* The thread that sends takes the OSDs in order; one that fails is lost.
WorkerSends == /\ worker # <<>> /\ worker' = Tail(worker)
               /\ UNCHANGED <<options, node, chosen, wire, events, audio>>

PipeNext ==
  \/ \E i \in Ids : \/ Removes(i)
                    \/ \E s \in Volumes : \/ Turns(i, s)
                                          \/ \E c \in Classes, n \in Names \cup {None} : Adds(i, c, n, s)
  \/ \E c \in Channels, n \in Names \cup {None} : Chooses(c, n)
  \/ Global \/ Property \/ Param \/ GlobalRemove \/ WorkerSends

-----------------------------------------------------------------------------
Follows(n) == Wanted(n) /\ (~options.defaultOnly \/ IsApp(n.class))

\* Once everything is read the listener knows the nodes there are, those it
\* follows at their present state, and has forgotten the others; and an OSD is
\* about a node that had another state before: one that has just come is
\* silent, also under an identifier that an earlier node had.
VolumesAgree ==
  /\ wire = <<>> => \A i \in Ids :
       /\ node[i] = Gone => audio.bound[i] = Gone /\ audio.last[i] = None
       /\ node[i] # Gone /\ Wanted(node[i]) => audio.bound[i].born = node[i].born
       /\ node[i] # Gone /\ Follows(node[i]) => audio.last[i] = node[i].state
  /\ \A k \in DOMAIN worker : worker[k].known
=============================================================================
