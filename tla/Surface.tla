------------------------------- MODULE Surface -------------------------------
(***************************************************************************)
(* The on-screen display of the daemon: the bounded command channel, the   *)
(* event loop of the Wayland thread and the life of one OSD cycle (fade    *)
(* in, show, fade out), as in awob-daemon/src/wayland.rs and pacing.rs.    *)
(*                                                                         *)
(* Time is relative.  The code stores Instants; here an instant of the     *)
(* past is its age and an instant of the future the time left until it,    *)
(* both in ticks and both saturated where the code can no longer tell the  *)
(* difference.  Elapse moves the present one tick forward, at any moment:  *)
(* a late wake-up of the thread is an Elapse before its Tick.              *)
(*                                                                         *)
(* Drawing, layout and the values on the bar are data; what is kept of     *)
(* them is which send, under which theme, was drawn to the end.            *)
(***************************************************************************)
EXTENDS Integers, Sequences

CONSTANTS
  Pairs,             \* (source, event) of the sends that name a source
  Anonymous,         \* the event of the sends that name none
  MaxTheme,          \* themes are published in generations 0 .. MaxTheme
  Timing,            \* the durations each generation declares, in ticks
  Animated,          \* the generations whose scene animates elements
  Overrides,         \* timeout_ms of a send, None or a show duration
  Preempts,          \* the preempt flags senders use
  None,              \* Rust's None
  FRAME,             \* FRAME_INTERVAL, in ticks
  ELEMENT_INTERVAL,  \* the slower pace of element animations, in ticks
  ChanCap,           \* capacity of the channel (64 in the code)
  MaxSends           \* bound of the model: sends accepted in one behaviour

Themes == 0 .. MaxTheme
Ticks  == Nat

ASSUME SurfaceAssumption ==
  /\ MaxTheme \in Nat
  /\ DOMAIN Timing = Themes
  /\ \A t \in Themes : Timing[t] \in
       [fade_in : Ticks, show : Ticks, fade_out : Ticks, transition : Ticks]
  /\ Animated \subseteq Themes
  /\ Overrides \subseteq Ticks \cup {None}
  /\ Preempts \subseteq BOOLEAN
  /\ FRAME \in Nat \ {0} /\ ELEMENT_INTERVAL \in Nat /\ ELEMENT_INTERVAL >= FRAME
  /\ ChanCap \in Nat \ {0} /\ MaxSends \in Nat
  /\ Pairs \cap Anonymous = {}

VARIABLES
  chan,       \* accepted commands the thread has not handled yet
  published,  \* generation of the theme in the daemon's shared state
  sent,       \* sends accepted so far; the n-th accepted carries stamp n
  st,         \* the thread's State
  ticking,    \* dispatch has returned and tick() has not run yet
  comp        \* the compositor's side: what it owes, what it displays

vars == <<chan, published, sent, st, ticking, comp>>

Lesser(a, b)  == IF a <= b THEN a ELSE b
Greater(a, b) == IF a >= b THEN a ELSE b

-----------------------------------------------------------------------------
(* The values the variables take.  layer and newest: the layer in use and  *)
(* the one created last; layers are numbered 1, 2, 1, ..., and 0 is none.  *)

NoLayer == 0
Layers  == {1, 2}
Blank   == None

Render == [kind : {"render"}, pair : Pairs \cup Anonymous, theme : Themes,
           preempt : Preempts, show : Overrides, stamp : Nat \ {0}]
Retheming == [kind : {"retheme"}, theme : Themes]

Pacing == [next : Ticks \cup {None}, last : 0 .. FRAME, pending : BOOLEAN]

Cycle == [pair : Pairs \cup Anonymous, stamp : Nat \ {0}, theme : Themes,
          surface : [fade_in : Ticks, show : Ticks, fade_out : Ticks],
          transition : Ticks, age : Ticks, sent : Ticks, lease : Ticks]

State == [layer : {NoLayer} \cup Layers, newest : {NoLayer} \cup Layers,
          configured : BOOLEAN, pacing : Pacing,
          cycle : Cycle \cup {None}, pending : Render \cup {None}]

(* What the last frame committed on a layer showed, and what the           *)
(* compositor owes and displays.                                           *)
Frame == [stamp : Nat \ {0}, theme : Themes, complete : BOOLEAN]

Compositor == [known : SUBSET Layers, acked : SUBSET Layers,
               frames : SUBSET Layers, screen : Frame \cup {Blank}]

ASSUME NoneAssumption ==
  /\ None \notin Cycle \cup Render \cup Frame
  /\ None \notin [pair : Pairs \cup Anonymous, stamp : Nat \ {0}, theme : Themes]
  /\ None \notin Ticks

-----------------------------------------------------------------------------
(* pacing.rs.  next: time left until the scheduled frame; last: time since *)
(* the last submitted frame, FRAME standing for longer ago and for never.  *)

DefaultPacing == [next |-> None, last |-> FRAME, pending |-> FALSE]

(* A plausible bug: ask for a frame now, whenever the last one was.        *)
Request_Now(p) == [p EXCEPT !.next = 0]

Request(p) ==
  LET earliest == Greater(0, FRAME - p.last)
  IN [p EXCEPT !.next = IF @ = None THEN earliest ELSE Lesser(@, earliest)]

Deadline(p) == IF p.pending THEN None ELSE p.next

Ready(p) == Deadline(p) # None /\ Deadline(p) = 0

Submitted(p, next) == [next |-> next, last |-> 0, pending |-> TRUE]

FrameDone(p) == [p EXCEPT !.pending = FALSE]

Retry(p) == [p EXCEPT !.next = FRAME]

-----------------------------------------------------------------------------
(* The State of the thread.  cycle gathers the fields that queue_render    *)
(* sets and the end of a cycle clears together: cycle_start (as age),      *)
(* sent_at (as sent), theme, bindings (as stamp), surface_def, the pair.   *)
(* lease is no field of the code: it counts down the time the send was     *)
(* promised on screen.                                                     *)

Idle == [layer |-> NoLayer, newest |-> NoLayer, configured |-> FALSE,
         pacing |-> DefaultPacing, cycle |-> None, pending |-> None]

Total(surface) == surface.fade_in + surface.show + surface.fade_out

Phase(s) ==
  IF s.cycle = None THEN "Done"
  ELSE LET age == s.cycle.age
           def == s.cycle.surface
       IN CASE age < def.fade_in -> "FadeIn"
            [] age >= def.fade_in /\ age < def.fade_in + def.show -> "Show"
            [] age >= def.fade_in + def.show /\ age < Total(def) -> "FadeOut"
            [] OTHER -> "Done"

SurfaceForSend(m) ==
  [fade_in  |-> Timing[m.theme].fade_in,
   show     |-> IF m.show = None THEN Timing[m.theme].show ELSE m.show,
   fade_out |-> Timing[m.theme].fade_out]

(* A plausible bug: a new layer waits for the frame of the old one.        *)
CreateLayer_KeepsPacing(s) ==
  LET id == IF s.newest = 1 THEN 2 ELSE 1
  IN [s EXCEPT !.layer = id, !.newest = id, !.configured = FALSE]

CreateLayer(s) ==
  LET id == IF s.newest = 1 THEN 2 ELSE 1
  IN [s EXCEPT !.layer = id, !.newest = id,
               !.configured = FALSE, !.pacing = DefaultPacing]

(* update_layer only restates size and position, which are not modelled.   *)
QueueRender(s, m, is_continuity) ==
  LET surface    == SurfaceForSend(m)
      l          == IF s.layer = NoLayer THEN CreateLayer(s) ELSE s
      was_active == Phase(s) # "Done"
      past_fade  == Phase(s) \in {"Show", "FadeOut"}
      cycle == [pair |-> m.pair, stamp |-> m.stamp, theme |-> m.theme,
                surface |-> surface,
                transition |-> Timing[m.theme].transition,
                age  |-> IF past_fade /\ is_continuity
                         THEN surface.fade_in ELSE 0,
                sent |-> IF was_active /\ is_continuity
                         THEN surface.fade_in ELSE 0,
                lease |-> surface.show + surface.fade_out]
  IN [l EXCEPT !.cycle = cycle, !.pacing = Request(@)]

(* A plausible bug: a send that cannot be displayed at once is dropped.    *)
HandleSend_Drops(s, m) ==
  LET active    == Phase(s) # "Done"
      same_pair == /\ active
                   /\ m.pair \notin Anonymous
                   /\ m.pair = s.cycle.pair
  IN IF ~active \/ same_pair \/ m.preempt
     THEN QueueRender(s, m, same_pair)
     ELSE s

HandleSend(s, m) ==
  LET active    == Phase(s) # "Done"
      same_pair == /\ active
                   /\ m.pair \notin Anonymous
                   /\ m.pair = s.cycle.pair
  IN IF ~active \/ same_pair \/ m.preempt
     THEN QueueRender(s, m, same_pair)
     ELSE [s EXCEPT !.pending = m]

(* Plausible bugs: no frame is asked for; the new durations are taken.     *)
Retheme_NoFrame(s, t) ==
  IF s.cycle = None THEN s ELSE [s EXCEPT !.cycle.theme = t]

Retheme_TakesTiming(s, t) ==
  IF s.cycle = None THEN s
  ELSE [s EXCEPT !.cycle.theme = t, !.pacing = Request(@),
                 !.cycle.surface =
                   SurfaceForSend([theme |-> t, show |-> None])]

(* The merged surface takes its layout from the new theme and keeps every  *)
(* duration of the cycle in flight.                                        *)
Retheme(s, t) ==
  IF s.cycle = None THEN s
  ELSE [s EXCEPT !.cycle.theme = t, !.pacing = Request(@)]

NextFrame(s) ==
  LET c == s.cycle
      fade_in_end    == c.surface.fade_in - c.age
      show_end       == fade_in_end + c.surface.show
      end            == show_end + c.surface.fade_out
      transition_end == c.surface.fade_in + c.transition - c.sent
  IN CASE fade_in_end > 0 -> Lesser(FRAME, fade_in_end)
       [] fade_in_end <= 0 /\ show_end > 0 ->
            (CASE transition_end > 0 ->
                    Lesser(FRAME, Lesser(transition_end, show_end))
               [] transition_end <= 0 /\ c.theme \in Animated ->
                    Lesser(ELEMENT_INTERVAL, show_end)
               [] OTHER -> show_end)
       [] OTHER -> Lesser(FRAME, end)

(* What a frame drawn now shows; complete: full alpha, final value.        *)
Picture(s) ==
  [stamp |-> s.cycle.stamp, theme |-> s.cycle.theme,
   complete |-> /\ Phase(s) = "Show"
                /\ s.cycle.sent >= s.cycle.surface.fade_in + s.cycle.transition]

(* A plausible bug: no timeout until the compositor configures the layer.  *)
TickTimeout_OnceConfigured(s) ==
  IF s.cycle = None \/ ~s.configured THEN None
  ELSE LET end   == Greater(0, Total(s.cycle.surface) - s.cycle.age)
           frame == Deadline(s.pacing)
       IN IF frame # None THEN Lesser(frame, end) ELSE end

(* next_tick_timeout: how long dispatch may sleep; None is for ever.       *)
TickTimeout(s) ==
  IF s.cycle = None THEN None
  ELSE LET end   == Greater(0, Total(s.cycle.surface) - s.cycle.age)
           frame == Deadline(s.pacing)
       IN IF s.configured /\ frame # None THEN Lesser(frame, end) ELSE end

(* A plausible bug: pacing is not reset.                                   *)
Clear_KeepsPacing(s) ==
  IF s.cycle = None THEN s
  ELSE [s EXCEPT !.layer = NoLayer, !.configured = FALSE, !.cycle = None]

Clear(s) ==
  IF s.cycle = None THEN s
  ELSE [s EXCEPT !.layer = NoLayer, !.configured = FALSE, !.cycle = None,
                 !.pacing = DefaultPacing]

(* A plausible bug: the pending send is displayed and kept.                *)
Drain_Keeps(s) ==
  IF s.pending = None THEN s ELSE QueueRender(s, s.pending, FALSE)

Drain(s) ==
  IF s.pending = None THEN s
  ELSE QueueRender([s EXCEPT !.pending = None], s.pending, FALSE)

-----------------------------------------------------------------------------
(* The compositor.  known: layers it was ever asked for; acked: those it   *)
(* has configured; frames: those it owes a frame callback; screen: the     *)
(* last picture committed to the current layer.                            *)

EmptyCompositor ==
  [known |-> {}, acked |-> {}, frames |-> {}, screen |-> Blank]

(* The thread went from state s to state t: a layer it dropped disappears, *)
(* a layer it created is new to the compositor.                            *)
Renew(c, s, t) ==
  IF t.layer = s.layer THEN c
  ELSE [known  |-> c.known \cup ({t.layer} \ {NoLayer}),
        acked  |-> c.acked \ {t.layer},
        frames |-> c.frames \ {t.layer},
        screen |-> Blank]

-----------------------------------------------------------------------------
Init ==
  /\ chan = <<>>
  /\ published = 0
  /\ sent = 0
  /\ st = Idle
  /\ ticking = FALSE
  /\ comp = EmptyCompositor

(* Shared::send with room in the channel: the command carries the theme    *)
(* that is published while the shared lock is held.                        *)
EnqueueRender(pair, preempt, show) ==
  /\ sent < MaxSends
  /\ Len(chan) < ChanCap
  /\ sent' = sent + 1
  /\ chan' = Append(chan, [kind |-> "render", pair |-> pair,
                           theme |-> published, preempt |-> preempt,
                           show |-> show, stamp |-> sent + 1])
  /\ UNCHANGED <<published, st, ticking, comp>>

(* Shared::publish_theme with room in the channel.                         *)
EnqueueRetheme ==
  /\ published + 1 \in Themes
  /\ Len(chan) < ChanCap
  /\ published' = published + 1
  /\ chan' = Append(chan, [kind |-> "retheme", theme |-> published + 1])
  /\ UNCHANGED <<sent, st, ticking, comp>>

(* One message of the channel source.                                      *)
HandleCommand ==
  /\ chan # <<>>
  /\ LET m == Head(chan)
     IN st' = IF m.kind = "render" THEN HandleSend(st, m)
                                   ELSE Retheme(st, m.theme)
  /\ chan' = Tail(chan)
  /\ ticking' = TRUE
  /\ comp' = Renew(comp, st, st')
  /\ UNCHANGED <<published, sent>>

(* A plausible bug: the event is not matched with the layer.               *)
Configure_AnyLayer(l) ==
  /\ l \in comp.known
  /\ st' = [st EXCEPT !.configured = TRUE, !.pacing = Request(@)]
  /\ comp' = [comp EXCEPT !.acked = @ \cup {l}]
  /\ ticking' = TRUE
  /\ UNCHANGED <<chan, published, sent>>

(* LayerShellHandler::configure for layer l, which may be one the thread   *)
(* has dropped since the compositor sent the event.                        *)
Configure(l) ==
  /\ l \in comp.known
  /\ st' = IF st.layer = l
           THEN [st EXCEPT !.configured = TRUE, !.pacing = Request(@)]
           ELSE st
  /\ comp' = [comp EXCEPT !.acked = @ \cup {l}]
  /\ ticking' = TRUE
  /\ UNCHANGED <<chan, published, sent>>

(* CompositorHandler::frame: the callback the last commit on l asked for.  *)
FrameCallback(l) ==
  /\ l \in comp.frames
  /\ st' = IF st.layer = l THEN [st EXCEPT !.pacing = FrameDone(@)] ELSE st
  /\ comp' = [comp EXCEPT !.frames = @ \ {l}]
  /\ ticking' = TRUE
  /\ UNCHANGED <<chan, published, sent>>

(* LayerShellHandler::closed, for instance because the output is gone.     *)
Closed(l) ==
  /\ l \in comp.known
  /\ st' = IF st.layer = l
           THEN [st EXCEPT !.layer = NoLayer, !.configured = FALSE]
           ELSE st
  /\ comp' = Renew(comp, st, st')
  /\ ticking' = TRUE
  /\ UNCHANGED <<chan, published, sent>>

(* The thread leaves dispatch after an event or when its timeout is over.  *)
Woken == ticking \/ TickTimeout(st) = 0

(* tick() at Phase::Done: drop the surface, then drain the pending send.   *)
TickDone ==
  /\ Woken
  /\ Phase(st) = "Done"
  /\ st' = Drain(Clear(st))
  /\ ticking' = FALSE
  /\ comp' = Renew(comp, st, st')
  /\ UNCHANGED <<chan, published, sent>>

(* tick() during a cycle, with nothing to draw yet.                        *)
TickWait ==
  /\ Woken
  /\ Phase(st) # "Done"
  /\ ~(st.configured /\ Ready(st.pacing))
  /\ ticking' = FALSE
  /\ UNCHANGED <<chan, published, sent, st, comp>>

(* tick() when a frame is due and draw() commits it.                       *)
TickDraw ==
  /\ Woken
  /\ Phase(st) # "Done"
  /\ st.configured /\ Ready(st.pacing)
  /\ st' = [st EXCEPT !.pacing = Submitted(@, NextFrame(st))]
  /\ comp' = [comp EXCEPT !.frames = @ \cup {st.layer},
                          !.screen = Picture(st)]
  /\ ticking' = FALSE
  /\ UNCHANGED <<chan, published, sent>>

(* tick() when draw() fails: no free buffer, or the renderer's error.      *)
TickRetry ==
  /\ Woken
  /\ Phase(st) # "Done"
  /\ st.configured /\ Ready(st.pacing)
  /\ st' = [st EXCEPT !.pacing = Retry(@)]
  /\ ticking' = FALSE
  /\ UNCHANGED <<chan, published, sent, comp>>

Tick == TickDone \/ TickWait \/ TickDraw \/ TickRetry

(* One tick of time.                                                       *)
Aged(s) ==
  LET older(c) == [c EXCEPT
                     !.age   = Lesser(@ + 1, Total(c.surface)),
                     !.sent  = Lesser(@ + 1, c.surface.fade_in + c.transition),
                     !.lease = Greater(0, @ - 1)]
  IN [s EXCEPT !.cycle = IF @ = None THEN None ELSE older(@),
               !.pacing.next = IF @ = None THEN None ELSE Greater(0, @ - 1),
               !.pacing.last = Lesser(@ + 1, FRAME)]

Elapse ==
  /\ st' = Aged(st)
  /\ UNCHANGED <<chan, published, sent, ticking, comp>>

Next ==
  \/ \E pair \in Pairs \cup Anonymous, p \in Preempts, o \in Overrides :
        EnqueueRender(pair, p, o)
  \/ EnqueueRetheme
  \/ HandleCommand
  \/ \E l \in Layers : Configure(l) \/ FrameCallback(l) \/ Closed(l)
  \/ Tick
  \/ Elapse

Spec == Init /\ [][Next]_vars

(* The loop keeps dispatching: it takes what is in the channel and, once   *)
(* woken, runs tick.  Time passes.  Nothing is assumed of the compositor,  *)
(* which may never configure a layer or answer a frame, nor of clients.    *)
FairSpec ==
  /\ Spec
  /\ WF_vars(HandleCommand)
  /\ WF_vars(Tick)
  /\ WF_vars(Elapse)

-----------------------------------------------------------------------------
(* Properties.                                                             *)

TypeOK ==
  /\ chan \in Seq(Render \cup Retheming) /\ Len(chan) <= ChanCap
  /\ published \in Themes
  /\ sent \in 0 .. MaxSends
  /\ st \in State
  /\ ticking \in BOOLEAN
  /\ comp \in Compositor

(* While no cycle runs, dispatch sleeps without a timeout, so nothing may  *)
(* be left to do: no pending send (it would never drain), no layer, no     *)
(* scheduled frame.                                                        *)
IdleIsQuiet ==
  st.cycle = None =>
    /\ st.pending = None
    /\ st.layer = NoLayer
    /\ st.pacing = DefaultPacing

(* The thread believes its layer is configured only if the compositor has  *)
(* configured that very layer: a buffer attached earlier is a protocol     *)
(* error.  Events of dropped layers still arrive.                          *)
DrawsOnlyOnConfiguredLayer ==
  st.configured => st.layer # NoLayer /\ st.layer \in comp.acked

(* While pacing withholds frames, a callback that will release it is owed  *)
(* for the current layer: otherwise the OSD would stay frozen.             *)
FrameOwedWhenWithheld ==
  st.layer # NoLayer /\ st.pacing.pending => st.layer \in comp.frames

(* The thread sleeps past the next frame only on a finished picture: the   *)
(* current send, under the current theme, fully opaque, at its final       *)
(* value.  So no late value and no theme change is ever left undrawn.      *)
SleepsOnFinishedPicture ==
  st.layer # NoLayer /\ st.pacing.next # None /\ st.pacing.next > FRAME =>
    comp.screen = [stamp |-> st.cycle.stamp, theme |-> st.cycle.theme,
                   complete |-> TRUE]

(* The next frame comes FRAME after the last, or later.                    *)
Spaced(p) == p.next # None => p.next + p.last >= FRAME

(* The fade-in, the value transition, the show or the fade-out of the send *)
(* on display ends within FRAME.                                           *)
TurnsSoon(c) ==
  \E end \in {c.surface.fade_in - c.age, c.surface.fade_in + c.transition - c.sent,
             c.surface.fade_in + c.surface.show - c.age, Total(c.surface) - c.age} :
    end \in 1 .. FRAME - 1

(* Between a frame too soon and a loop that spins: nothing that asks for a *)
(* frame of a layer, be it sends, theme changes, configure events or       *)
(* drawing that failed, brings it closer to the last than FRAME; only a    *)
(* frame that was drawn may schedule one sooner, for the end of a phase.   *)
(* And no tick leaves the loop with a timeout that is already over, unless *)
(* the send it took asks for no time on screen at all.                     *)
FramesKeepTime ==
  [][/\ st.layer # NoLayer /\ st'.layer = st.layer /\ Spaced(st.pacing) =>
          Spaced(st'.pacing) \/ (TickDraw /\ TurnsSoon(st.cycle))
     /\ Tick /\ TickTimeout(st') = 0 => Total(st'.cycle.surface) = 0]_vars

(* An OSD leaves the screen at the end of its cycle, never before the      *)
(* show (or its override) and fade-out of the send it displays are over,   *)
(* whatever themes were published in between.                              *)
NeverCutShort ==
  [][TickDone /\ st.cycle # None => st.cycle.lease = 0]_vars

(* Refinement: whatever the compositor and the clock do, the send on       *)
(* display and the one that waits change only as Display allows.           *)
OnDisplay ==
  IF st.cycle = None THEN None
  ELSE [pair |-> st.cycle.pair, stamp |-> st.cycle.stamp,
        theme |-> st.cycle.theme]

Abstract == INSTANCE Display WITH
  queue <- chan, display <- OnDisplay, slot <- st.pending,
  over <- st.cycle # None /\ Phase(st) = "Done"

ImplementsDisplay == Abstract!FairSpec

(* Liveness, FairSpec.                                                     *)

(* Every OSD ends, and every pending send is taken, even if the compositor *)
(* withholds configure events and frame callbacks for ever.                *)
EveryCycleEnds == (st.cycle # None) ~> (st.cycle = None)

(* A send that waits, in the channel or as the pending one, is displayed   *)
(* unless a newer one is accepted.                                         *)
Waits(n) ==
  \/ \E i \in 1 .. Len(chan) : chan[i].kind = "render" /\ chan[i].stamp = n
  \/ st.pending # None /\ st.pending.stamp = n

NewestIsDisplayed ==
  \A n \in 1 .. MaxSends :
    Waits(n) ~> (sent > n \/ (st.cycle # None /\ st.cycle.stamp = n))

=============================================================================
