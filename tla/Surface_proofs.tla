---------------------------- MODULE Surface_proofs ----------------------------
(***************************************************************************)
(* Proofs about Surface, for every instance of its constants.              *)
(***************************************************************************)
EXTENDS Surface, TLAPS

Durations == [fade_in : Ticks, show : Ticks, fade_out : Ticks]

-----------------------------------------------------------------------------
(* What the helpers return.                                                *)

(* The lesser of two numbers is one, and below both.                       *)
LEMMA LesserType ==
  ASSUME NEW a \in Nat, NEW b \in Nat
  PROVE  Lesser(a, b) \in Nat /\ Lesser(a, b) <= a /\ Lesser(a, b) <= b
BY DEF Lesser

(* What SurfaceAssumption says of the constants, with Ticks spelt out.     *)
LEMMA ConstantTypes ==
  /\ FRAME \in Nat \ {0}
  /\ ELEMENT_INTERVAL \in Nat \ {0} /\ ELEMENT_INTERVAL >= FRAME
  /\ ChanCap \in Nat \ {0}
  /\ MaxSends \in Nat
  /\ \A t \in Themes : Timing[t] \in
       [fade_in : Nat, show : Nat, fade_out : Nat, transition : Nat]
  /\ Overrides \subseteq Nat \cup {None}
  /\ 0 \in Themes
BY SurfaceAssumption DEF SurfaceAssumption, Themes, Ticks

(* pacing.rs maps pacings to pacings; only submit and done touch pending.  *)
LEMMA PacingTypes ==
  ASSUME NEW p \in Pacing
  PROVE  /\ Request(p) \in Pacing
         /\ Request(p).pending = p.pending
         /\ Submitted(p, None) \in Pacing
         /\ \A n \in Nat : Submitted(p, n) \in Pacing
         /\ FrameDone(p) \in Pacing
         /\ Retry(p) \in Pacing
         /\ DefaultPacing \in Pacing
<1> USE ConstantTypes
<1>1. p = [next |-> p.next, last |-> p.last, pending |-> p.pending]
      /\ p.next \in Nat \cup {None} /\ p.last \in 0 .. FRAME
      /\ p.pending \in BOOLEAN
  BY DEF Pacing, Ticks
<1>2. DefaultPacing \in Pacing
  BY DEF DefaultPacing, Pacing, Ticks
<1>3. Request(p) \in Pacing /\ Request(p).pending = p.pending
  <2>1. Greater(0, FRAME - p.last) \in Nat
    BY <1>1 DEF Greater
  <2>2. p.next # None => Lesser(p.next, Greater(0, FRAME - p.last)) \in Nat
    BY <1>1, <2>1, LesserType
  <2>3. QED
    BY <1>1, <2>1, <2>2 DEF Request, Pacing, Ticks
<1>4. FrameDone(p) \in Pacing /\ Retry(p) \in Pacing
  BY <1>1 DEF FrameDone, Retry, Pacing, Ticks
<1>5. Submitted(p, None) \in Pacing /\ \A n \in Nat : Submitted(p, n) \in Pacing
  BY DEF Submitted, Pacing, Ticks
<1>6. QED
  BY <1>2, <1>3, <1>4, <1>5

(* A pacing is known by its fields.                                        *)
LEMMA IsDefaultPacing ==
  ASSUME NEW p \in Pacing, p.next = None, p.last = FRAME, p.pending = FALSE
  PROVE  p = DefaultPacing
<1>1. p = [next |-> p.next, last |-> p.last, pending |-> p.pending]
  BY DEF Pacing
<1>2. QED
  BY <1>1 DEF DefaultPacing

(* A send keeps the durations of its theme, or its own show.               *)
LEMMA SurfaceForSendType ==
  ASSUME NEW m \in Render
  PROVE  SurfaceForSend(m) \in Durations
BY ConstantTypes DEF SurfaceForSend, Render, Durations, Ticks

(* A new layer is neither configured nor withheld, and keeps the rest.     *)
LEMMA CreateLayerType ==
  ASSUME NEW s \in State
  PROVE  /\ CreateLayer(s) \in State
         /\ CreateLayer(s).layer # NoLayer
         /\ CreateLayer(s).configured = FALSE
         /\ CreateLayer(s).pacing = DefaultPacing
         /\ CreateLayer(s).pending = s.pending
         /\ CreateLayer(s).cycle = s.cycle
<1> DEFINE id == IF s.newest = 1 THEN 2 ELSE 1
<1>1. DefaultPacing \in Pacing
  BY ConstantTypes DEF DefaultPacing, Pacing, Ticks
<1>2. id \in Layers /\ id # NoLayer
  BY DEF Layers, NoLayer
<1>3. CreateLayer(s) = [s EXCEPT !.layer = id, !.newest = id,
                                 !.configured = FALSE, !.pacing = DefaultPacing]
  BY DEF CreateLayer
<1> HIDE DEF id
<1>4. QED
  BY <1>1, <1>2, <1>3 DEF State

(* How a step of the thread may change the layer it draws on: not at all,  *)
(* or leaving it neither configured nor with frames withheld.              *)
KeepsLayer(s, t) ==
  /\ t.layer = s.layer
  /\ t.configured = s.configured
  /\ t.pacing.pending = s.pacing.pending

LosesLayer(s, t) ==
  /\ t.configured = FALSE
  /\ t.layer # NoLayer => t.pacing.pending = FALSE

(* queue_render keeps the layer in use with its flags, or makes one.       *)
LEMMA QueueRenderType ==
  ASSUME NEW s \in State, NEW m \in Render, NEW c \in BOOLEAN
  PROVE  /\ QueueRender(s, m, c) \in State
         /\ QueueRender(s, m, c).cycle \in Cycle
         /\ QueueRender(s, m, c).pending = s.pending
         /\ QueueRender(s, m, c).layer # NoLayer
         /\ s.layer # NoLayer => KeepsLayer(s, QueueRender(s, m, c))
         /\ s.layer = NoLayer => LosesLayer(s, QueueRender(s, m, c))
<1> DEFINE surface == SurfaceForSend(m)
           l == IF s.layer = NoLayer THEN CreateLayer(s) ELSE s
           r == QueueRender(s, m, c)
<1>1. surface \in Durations
  BY SurfaceForSendType
<1>2. l \in State /\ l.pacing \in Pacing /\ l.pending = s.pending /\ l.layer # NoLayer
  BY CreateLayerType DEF State
<1>3. Request(l.pacing) \in Pacing /\ Request(l.pacing).pending = l.pacing.pending
  BY <1>2, PacingTypes
<1>4. Timing[m.theme].transition \in Nat /\ m.pair \in Pairs \cup Anonymous
      /\ m.stamp \in Nat \ {0} /\ m.theme \in Themes
  BY ConstantTypes DEF Render
<1>5. r.cycle \in Cycle /\ r = [l EXCEPT !.cycle = r.cycle, !.pacing = Request(@)]
  <2>1. surface.fade_in \in Nat /\ surface.show + surface.fade_out \in Nat
    BY <1>1 DEF Durations, Ticks
  <2>2. QED
    BY <1>1, <1>2, <1>4, <2>1 DEF QueueRender, Cycle, Durations, Ticks, State
<1>6. r \in State /\ r.pending = s.pending /\ r.layer = l.layer
      /\ r.configured = l.configured /\ r.pacing = Request(l.pacing)
  BY <1>2, <1>3, <1>5 DEF State
<1>7. CASE s.layer # NoLayer
  BY <1>2, <1>3, <1>5, <1>6, <1>7 DEF KeepsLayer
<1>8. CASE s.layer = NoLayer
  <2>0. DefaultPacing.pending = FALSE
    BY DEF DefaultPacing
  <2>1. l.configured = FALSE /\ l.pacing.pending = FALSE
    BY <1>8, <2>0, CreateLayerType
  <2>2. QED
    BY <1>2, <1>3, <1>5, <1>6, <1>8, <2>1 DEF LosesLayer
<1>9. QED
  BY <1>7, <1>8

(* IdleIsQuiet, DrawsOnlyOnConfiguredLayer and FrameOwedWhenWithheld of a  *)
(* state of the thread and one of the compositor.                          *)
Quiet(s) ==
  s.cycle = None =>
    s.pending = None /\ s.layer = NoLayer /\ s.pacing = DefaultPacing

MayDraw(s, c) == s.configured => s.layer # NoLayer /\ s.layer \in c.acked

Owed(s, c) == s.layer # NoLayer /\ s.pacing.pending => s.layer \in c.frames

(* The compositor is told of a step that keeps or loses the layer.         *)
LEMMA RenewKeeps ==
  ASSUME NEW s \in State, NEW t \in State, NEW c \in Compositor,
         MayDraw(s, c), Owed(s, c),
         KeepsLayer(s, t) \/ LosesLayer(s, t)
  PROVE  Renew(c, s, t) \in Compositor
         /\ MayDraw(t, Renew(c, s, t)) /\ Owed(t, Renew(c, s, t))
<1>1. Renew(c, s, t) \in Compositor
  BY DEF Renew, Compositor, State, NoLayer, Layers
<1>2. CASE KeepsLayer(s, t)
  <2>1. Renew(c, s, t) = c
    BY <1>2 DEF Renew, KeepsLayer
  <2>2. QED
    BY <1>1, <1>2, <2>1 DEF KeepsLayer, MayDraw, Owed
<1>3. CASE LosesLayer(s, t)
  BY <1>1, <1>3 DEF LosesLayer, MayDraw, Owed
<1>4. QED
  BY <1>2, <1>3

(* handle_send leaves a typed state that is not idle or was quiet.         *)
LEMMA HandleSendType ==
  ASSUME NEW s \in State, NEW m \in Render
  PROVE  /\ HandleSend(s, m) \in State
         /\ Quiet(HandleSend(s, m))
         /\ KeepsLayer(s, HandleSend(s, m)) \/ LosesLayer(s, HandleSend(s, m))
<1> DEFINE active == Phase(s) # "Done"
           same_pair == active /\ m.pair \notin Anonymous /\ m.pair = s.cycle.pair
<1>1. CASE ~active \/ same_pair \/ m.preempt
  <2>1. HandleSend(s, m) = QueueRender(s, m, same_pair)
    BY <1>1 DEF HandleSend
  <2>2. PICK c \in BOOLEAN : c = same_pair
    OBVIOUS
  <2>3. HandleSend(s, m) = QueueRender(s, m, c)
    BY <2>1, <2>2
  <2> HIDE DEF same_pair, active
  <2>4. QueueRender(s, m, c).cycle # None
    BY QueueRenderType, NoneAssumption
  <2>5. QED
    BY <2>3, <2>4, QueueRenderType DEF Quiet
<1>2. CASE ~(~active \/ same_pair \/ m.preempt)
  <2>1. HandleSend(s, m) = [s EXCEPT !.pending = m]
    BY <1>2 DEF HandleSend
  <2>2. s.cycle # None
    BY <1>2 DEF Phase
  <2>3. QED
    BY <2>1, <2>2 DEF State, KeepsLayer, Quiet
<1>3. QED
  BY <1>1, <1>2

(* retheme keeps the layer, and leaves an idle thread alone.               *)
LEMMA RethemeType ==
  ASSUME NEW s \in State, NEW t \in Themes, Quiet(s)
  PROVE  /\ Retheme(s, t) \in State
         /\ Quiet(Retheme(s, t))
         /\ KeepsLayer(s, Retheme(s, t))
<1>1. CASE s.cycle = None
  BY <1>1 DEF Retheme, KeepsLayer
<1>2. CASE s.cycle # None
  <2>1. Request(s.pacing) \in Pacing /\ Request(s.pacing).pending = s.pacing.pending
    BY PacingTypes DEF State
  <2>2. s.cycle \in Cycle
    BY <1>2 DEF State
  <2>3. [s.cycle EXCEPT !.theme = t] \in Cycle
    BY <2>2 DEF Cycle
  <2>4. Retheme(s, t) = [s EXCEPT !.cycle = [s.cycle EXCEPT !.theme = t],
                                  !.pacing = Request(s.pacing)]
    BY <1>2 DEF Retheme, State
  <2>5. QED
    BY <2>1, <2>3, <2>4, NoneAssumption DEF State, KeepsLayer, Quiet
<1>3. QED
  BY <1>1, <1>2

(* The end of a cycle leaves a quiet thread or a fresh cycle.              *)
LEMMA TickDoneType ==
  ASSUME NEW s \in State, NEW c \in Compositor, Quiet(s), MayDraw(s, c)
  PROVE  /\ Drain(Clear(s)) \in State
         /\ Quiet(Drain(Clear(s)))
         /\ LosesLayer(s, Drain(Clear(s)))
<1> DEFINE r == Clear(s)
<1>1. /\ r \in State /\ r.cycle = None /\ r.layer = NoLayer
      /\ r.pacing = DefaultPacing /\ r.configured = FALSE
      /\ r.pending = s.pending
  <2>1. CASE s.cycle = None
    BY <2>1 DEF Clear, Quiet, MayDraw, State
  <2>2. CASE s.cycle # None
    <3>1. DefaultPacing \in Pacing
      BY ConstantTypes DEF DefaultPacing, Pacing, Ticks
    <3>2. QED
      BY <2>2, <3>1 DEF Clear, State
  <2>3. QED
    BY <2>1, <2>2
<1> HIDE DEF r
<1>2. CASE r.pending = None
  <2>1. Drain(r) = r
    BY <1>2 DEF Drain
  <2>2. QED
    BY <1>1, <1>2, <2>1 DEF Quiet, LosesLayer, r
<1>3. CASE r.pending # None
  <2> DEFINE q == [r EXCEPT !.pending = None]
  <2>1. q \in State /\ q.layer = NoLayer
    BY <1>1 DEF State
  <2>2. r.pending \in Render
    BY <1>1, <1>3 DEF State
  <2>3. Drain(r) = QueueRender(q, r.pending, FALSE)
    BY <1>3 DEF Drain
  <2> HIDE DEF q
  <2>4. Drain(r) \in State /\ Drain(r).cycle \in Cycle
        /\ LosesLayer(q, Drain(r))
    BY <2>1, <2>2, <2>3, QueueRenderType
  <2>5. QED
    BY <2>4, NoneAssumption DEF Quiet, LosesLayer, r
<1>4. QED
  BY <1>2, <1>3

(* A frame drawn during a cycle has a type, and so has the next delay.     *)
LEMMA DrawTypes ==
  ASSUME NEW s \in State, Phase(s) # "Done"
  PROVE  NextFrame(s) \in Nat /\ Picture(s) \in Frame /\ s.cycle # None
<1> DEFINE c == s.cycle
<1>1. c \in Cycle /\ c.age < Total(c.surface)
  BY DEF Phase, State, Total, Cycle, Ticks
<1>2. /\ c.age \in Nat /\ c.sent \in Nat /\ c.transition \in Nat
      /\ c.surface.fade_in \in Nat /\ c.surface.show \in Nat
      /\ c.surface.fade_out \in Nat /\ c.theme \in Themes /\ c.stamp \in Nat \ {0}
  BY <1>1 DEF Cycle, Ticks
<1>3. s.cycle # None
  BY DEF Phase
<1>4. Picture(s) \in Frame
  BY <1>2 DEF Picture, Frame
<1>5. NextFrame(s) \in Nat
  BY <1>1, <1>2, ConstantTypes DEF NextFrame, Lesser, Total
<1>6. QED
  BY <1>3, <1>4, <1>5

(* Time changes no flag, and nothing at all of an idle thread.             *)
LEMMA AgedType ==
  ASSUME NEW s \in State, Quiet(s)
  PROVE  Aged(s) \in State /\ Quiet(Aged(s)) /\ KeepsLayer(s, Aged(s))
<1> DEFINE older(c) == [c EXCEPT
                          !.age   = Lesser(@ + 1, Total(c.surface)),
                          !.sent  = Lesser(@ + 1, c.surface.fade_in + c.transition),
                          !.lease = Greater(0, @ - 1)]
           cycle  == IF s.cycle = None THEN None ELSE older(s.cycle)
           next   == IF s.pacing.next = None THEN None
                     ELSE Greater(0, s.pacing.next - 1)
           last   == Lesser(s.pacing.last + 1, FRAME)
           pacing == [s.pacing EXCEPT !.next = next, !.last = last]
<1>1. cycle \in Cycle \cup {None} /\ (cycle = None <=> s.cycle = None)
  <2>1. CASE s.cycle = None
    BY <2>1
  <2>2. CASE s.cycle # None
    <3>1. s.cycle \in Cycle
      BY <2>2 DEF State
    <3>2. Lesser(s.cycle.age + 1, Total(s.cycle.surface)) \in Nat
      BY <3>1 DEF Lesser, Total, Cycle, Ticks
    <3>3. Lesser(s.cycle.sent + 1, s.cycle.surface.fade_in + s.cycle.transition) \in Nat
      BY <3>1 DEF Lesser, Cycle, Ticks
    <3>4. Greater(0, s.cycle.lease - 1) \in Nat
      BY <3>1 DEF Greater, Cycle, Ticks
    <3>5. older(s.cycle) \in Cycle
      BY <3>1, <3>2, <3>3, <3>4 DEF Cycle, Ticks
    <3>6. QED
      BY <2>2, <3>5, NoneAssumption
  <2>3. QED
    BY <2>1, <2>2
<1>2. s.pacing \in Pacing /\ s.pacing.next \in Nat \cup {None}
      /\ s.pacing.last \in 0 .. FRAME /\ s.pacing.pending \in BOOLEAN
  BY DEF State, Pacing, Ticks
<1>3. pacing \in Pacing /\ pacing.pending = s.pacing.pending
  <2>1. next \in Nat \cup {None} /\ last \in 0 .. FRAME
    BY <1>2, ConstantTypes DEF Lesser, Greater
  <2> HIDE DEF next, last
  <2>2. QED
    BY <1>2, <2>1 DEF Pacing, Ticks
<1>4. s.pacing = DefaultPacing => pacing = DefaultPacing
  <2> SUFFICES ASSUME s.pacing = DefaultPacing PROVE pacing = DefaultPacing
    OBVIOUS
  <2>1. s.pacing.next = None /\ s.pacing.last = FRAME /\ s.pacing.pending = FALSE
    BY DEF DefaultPacing
  <2>2. Lesser(FRAME + 1, FRAME) = FRAME
    BY ConstantTypes DEF Lesser
  <2>3. next = None /\ last = FRAME
    BY <2>1, <2>2
  <2> HIDE DEF next, last
  <2>4. pacing.next = None /\ pacing.last = FRAME /\ pacing.pending = FALSE
    BY <1>2, <2>1, <2>3 DEF Pacing
  <2> HIDE DEF pacing
  <2>5. QED
    BY <1>3, <2>4, IsDefaultPacing
<1>5. Aged(s) = [s EXCEPT !.cycle = cycle, !.pacing = pacing]
  BY DEF Aged, State
<1> HIDE DEF cycle, pacing, older, next, last
<1>6. QED
  BY <1>1, <1>3, <1>4, <1>5 DEF State, Quiet, KeepsLayer

(* What each action preserves, and the theorems.                           *)

IInv == /\ TypeOK
        /\ IdleIsQuiet
        /\ DrawsOnlyOnConfiguredLayer
        /\ FrameOwedWhenWithheld

(* IInv, in terms of the state of the thread and of the compositor.        *)
LEMMA IInvParts ==
  IInv <=> TypeOK /\ Quiet(st) /\ MayDraw(st, comp) /\ Owed(st, comp)
BY DEF IInv, IdleIsQuiet, DrawsOnlyOnConfiguredLayer, FrameOwedWhenWithheld,
       Quiet, MayDraw, Owed

(* The initial state.                                                      *)
LEMMA InitIInv == Init => IInv
<1> SUFFICES ASSUME Init PROVE IInv
  OBVIOUS
<1>1. DefaultPacing \in Pacing
  BY ConstantTypes DEF DefaultPacing, Pacing, Ticks
<1>2. st \in State
  BY <1>1 DEF Init, Idle, State
<1>3. comp \in Compositor
  BY DEF Init, EmptyCompositor, Compositor, Blank
<1>4. chan \in Seq(Render \cup Retheming) /\ Len(chan) <= ChanCap
  BY ConstantTypes DEF Init
<1>5. TypeOK
  <2>1. published \in Themes /\ sent \in 0 .. MaxSends
    BY ConstantTypes DEF Init
  <2>2. ticking \in BOOLEAN
    BY DEF Init
  <2>3. QED
    BY <1>2, <1>3, <1>4, <2>1, <2>2 DEF TypeOK
<1>6. Quiet(st) /\ MayDraw(st, comp) /\ Owed(st, comp)
  BY DEF Init, Idle, Quiet, MayDraw, Owed, NoLayer
<1>7. QED
  BY <1>5, <1>6, IInvParts

(* The channel: an accepted command has its type, a taken one leaves a     *)
(* channel of its type.                                                    *)
LEMMA ChannelTypes ==
  ASSUME TypeOK
  PROVE  /\ \A m \in Render \cup Retheming :
              Len(chan) < ChanCap =>
                /\ Append(chan, m) \in Seq(Render \cup Retheming)
                /\ Len(Append(chan, m)) <= ChanCap
         /\ chan # <<>> =>
              /\ Head(chan) \in Render \cup Retheming
              /\ Tail(chan) \in Seq(Render \cup Retheming)
              /\ Len(Tail(chan)) <= ChanCap
BY ConstantTypes DEF TypeOK

(* Producers only touch the channel.                                       *)
LEMMA EnqueueKeeps ==
  ASSUME IInv,
         \/ \E pair \in Pairs \cup Anonymous, p \in Preempts, o \in Overrides :
               EnqueueRender(pair, p, o)
         \/ EnqueueRetheme
  PROVE  IInv'
<1>1. TypeOK /\ Quiet(st) /\ MayDraw(st, comp) /\ Owed(st, comp)
  BY IInvParts
<1>2. ASSUME NEW pair \in Pairs \cup Anonymous, NEW p \in Preempts,
             NEW o \in Overrides, EnqueueRender(pair, p, o)
      PROVE  TypeOK'
  <2>1. [kind |-> "render", pair |-> pair, theme |-> published,
         preempt |-> p, show |-> o, stamp |-> sent + 1] \in Render
    BY <1>1, <1>2, ConstantTypes DEF TypeOK, Render
  <2>2. QED
    BY <1>1, <1>2, <2>1, ChannelTypes, ConstantTypes DEF EnqueueRender, TypeOK
<1>3. ASSUME EnqueueRetheme
      PROVE  TypeOK'
  <2>1. [kind |-> "retheme", theme |-> published + 1] \in Retheming
    BY <1>3 DEF EnqueueRetheme, Retheming
  <2>2. QED
    BY <1>1, <1>3, <2>1, ChannelTypes DEF EnqueueRetheme, TypeOK
<1>4. st' = st /\ comp' = comp
  BY DEF EnqueueRender, EnqueueRetheme
<1>5. TypeOK'
  BY <1>2, <1>3
<1>6. QED
  BY <1>1, <1>4, <1>5 DEF IInv, IdleIsQuiet, DrawsOnlyOnConfiguredLayer,
     FrameOwedWhenWithheld, Quiet, MayDraw, Owed

(* A step of the thread from st to st', told to the compositor, which then *)
(* runs tick or has just run it.                                           *)
LEMMA ThreadKeeps ==
  ASSUME IInv,
         st' \in State, Quiet(st'), KeepsLayer(st, st') \/ LosesLayer(st, st'),
         comp' = Renew(comp, st, st'),
         chan' \in Seq(Render \cup Retheming), Len(chan') <= ChanCap,
         ticking' \in BOOLEAN, UNCHANGED <<published, sent>>
  PROVE  IInv'
<1>1. TypeOK /\ MayDraw(st, comp) /\ Owed(st, comp)
  BY IInvParts
<1>2. st \in State /\ comp \in Compositor
  BY <1>1 DEF TypeOK
<1>3. comp' \in Compositor /\ MayDraw(st', comp') /\ Owed(st', comp')
  BY <1>1, <1>2, RenewKeeps
<1>4. TypeOK'
  BY <1>1, <1>3 DEF TypeOK
<1>5. QED
  BY <1>3, <1>4 DEF IInv, IdleIsQuiet, DrawsOnlyOnConfiguredLayer,
     FrameOwedWhenWithheld, Quiet, MayDraw, Owed

(* The channel source: handle_send or retheme.                             *)
LEMMA HandleCommandKeeps ==
  ASSUME IInv, HandleCommand
  PROVE  IInv'
<1>1. TypeOK /\ Quiet(st) /\ st \in State
  BY IInvParts DEF TypeOK
<1>2. Head(chan) \in Render \cup Retheming
      /\ Tail(chan) \in Seq(Render \cup Retheming) /\ Len(Tail(chan)) <= ChanCap
  BY <1>1, ChannelTypes DEF HandleCommand
<1>3. st' \in State /\ Quiet(st') /\ (KeepsLayer(st, st') \/ LosesLayer(st, st'))
  <2>1. CASE Head(chan).kind = "render"
    <3>1. Head(chan) \in Render /\ st' = HandleSend(st, Head(chan))
      BY <1>2, <2>1 DEF HandleCommand, Retheming
    <3>2. QED
      BY <1>1, <3>1, HandleSendType
  <2>2. CASE Head(chan).kind # "render"
    <3>1. Head(chan).theme \in Themes /\ st' = Retheme(st, Head(chan).theme)
      BY <1>2, <2>2 DEF HandleCommand, Render, Retheming
    <3>2. QED
      BY <1>1, <3>1, RethemeType
  <2>3. QED
    BY <2>1, <2>2
<1>4. chan' = Tail(chan) /\ comp' = Renew(comp, st, st')
      /\ UNCHANGED <<published, sent>>
  BY DEF HandleCommand
<1>5. ticking' \in BOOLEAN
  BY DEF HandleCommand
<1>6. QED
  BY <1>2, <1>3, <1>4, <1>5, ThreadKeeps

(* A step that keeps the layer, or brings an event of the compositor.      *)
LEMMA EventKeeps ==
  ASSUME IInv,
         st' \in State, Quiet(st'), MayDraw(st', comp'), Owed(st', comp'),
         comp' \in Compositor, ticking' \in BOOLEAN,
         UNCHANGED <<chan, published, sent>>
  PROVE  IInv'
<1>1. TypeOK
  BY DEF IInv
<1>2. TypeOK'
  BY <1>1 DEF TypeOK
<1>3. QED
  BY <1>2 DEF IInv, IdleIsQuiet, DrawsOnlyOnConfiguredLayer,
     FrameOwedWhenWithheld, Quiet, MayDraw, Owed

(* configure, for the layer in use or for an old one.                      *)
LEMMA ConfigureKeeps ==
  ASSUME IInv, NEW l \in Layers, Configure(l)
  PROVE  IInv'
<1>1. TypeOK /\ Quiet(st) /\ MayDraw(st, comp) /\ Owed(st, comp)
      /\ st \in State /\ comp \in Compositor
  BY IInvParts DEF TypeOK
<1>2. comp' = [comp EXCEPT !.acked = @ \cup {l}] /\ comp' \in Compositor
  BY <1>1 DEF Configure, Compositor
<1>3. l # NoLayer
  BY DEF Layers, NoLayer
<1>4. CASE st.layer = l
  <2>1. Request(st.pacing) \in Pacing
        /\ Request(st.pacing).pending = st.pacing.pending
    BY <1>1, PacingTypes DEF State
  <2>2. st' = [st EXCEPT !.configured = TRUE, !.pacing = Request(st.pacing)]
    BY <1>1, <1>4 DEF Configure, State
  <2>3. st' \in State /\ st'.layer = l /\ st'.cycle = st.cycle
        /\ st'.pacing.pending = st.pacing.pending
    BY <1>1, <1>4, <2>1, <2>2 DEF State
  <2>4. Quiet(st')
    BY <1>1, <1>3, <1>4, <2>3 DEF Quiet
  <2>5. MayDraw(st', comp') /\ Owed(st', comp')
    BY <1>1, <1>2, <1>3, <1>4, <2>3 DEF MayDraw, Owed, Compositor
  <2>6. QED
    BY <1>2, <2>3, <2>4, <2>5, EventKeeps DEF Configure
<1>5. CASE st.layer # l
  <2>1. st' = st
    BY <1>5 DEF Configure
  <2>2. MayDraw(st', comp') /\ Owed(st', comp')
    BY <1>1, <1>2, <2>1 DEF MayDraw, Owed, Compositor
  <2>3. QED
    BY <1>1, <1>2, <2>1, <2>2, EventKeeps DEF Configure
<1>6. QED
  BY <1>4, <1>5

(* frame, for the layer in use or for an old one.                          *)
LEMMA FrameCallbackKeeps ==
  ASSUME IInv, NEW l \in Layers, FrameCallback(l)
  PROVE  IInv'
<1>1. TypeOK /\ Quiet(st) /\ MayDraw(st, comp) /\ Owed(st, comp)
      /\ st \in State /\ comp \in Compositor
  BY IInvParts DEF TypeOK
<1>2. comp' = [comp EXCEPT !.frames = @ \ {l}] /\ comp' \in Compositor
  BY <1>1 DEF FrameCallback, Compositor
<1>3. l # NoLayer
  BY DEF Layers, NoLayer
<1>4. CASE st.layer = l
  <2>1. FrameDone(st.pacing) \in Pacing /\ FrameDone(st.pacing).pending = FALSE
    BY <1>1, PacingTypes DEF State, Pacing, FrameDone
  <2>2. st' = [st EXCEPT !.pacing = FrameDone(st.pacing)]
    BY <1>1, <1>4 DEF FrameCallback, State
  <2>3. st' \in State /\ st'.layer = l /\ st'.cycle = st.cycle
        /\ st'.configured = st.configured /\ st'.pacing.pending = FALSE
    BY <1>1, <1>4, <2>1, <2>2 DEF State
  <2>4. Quiet(st')
    BY <1>1, <1>3, <1>4, <2>3 DEF Quiet
  <2>5. MayDraw(st', comp') /\ Owed(st', comp')
    BY <1>1, <1>2, <1>4, <2>3 DEF MayDraw, Owed, Compositor
  <2>6. QED
    BY <1>2, <2>3, <2>4, <2>5, EventKeeps DEF FrameCallback
<1>5. CASE st.layer # l
  <2>1. st' = st
    BY <1>5 DEF FrameCallback
  <2>2. MayDraw(st', comp') /\ Owed(st', comp')
    BY <1>1, <1>2, <1>5, <2>1 DEF MayDraw, Owed, Compositor
  <2>3. QED
    BY <1>1, <1>2, <2>1, <2>2, EventKeeps DEF FrameCallback
<1>6. QED
  BY <1>4, <1>5

(* closed, for the layer in use or for an old one.                         *)
LEMMA ClosedKeeps ==
  ASSUME IInv, NEW l \in Layers, Closed(l)
  PROVE  IInv'
<1>1. TypeOK /\ Quiet(st) /\ st \in State
  BY IInvParts DEF TypeOK
<1>2. st' \in State /\ Quiet(st') /\ (KeepsLayer(st, st') \/ LosesLayer(st, st'))
  <2>1. CASE st.layer = l
    <3>1. st' = [st EXCEPT !.layer = NoLayer, !.configured = FALSE]
      BY <2>1 DEF Closed
    <3>2. st' \in State /\ st'.layer = NoLayer /\ st'.configured = FALSE
          /\ st'.cycle = st.cycle /\ st'.pending = st.pending
          /\ st'.pacing = st.pacing
      BY <1>1, <3>1 DEF State
    <3>3. QED
      BY <1>1, <3>2 DEF Quiet, LosesLayer
  <2>2. CASE st.layer # l
    <3>1. st' = st
      BY <2>2 DEF Closed
    <3>2. QED
      BY <1>1, <3>1 DEF KeepsLayer
  <2>3. QED
    BY <2>1, <2>2
<1>3. /\ chan' \in Seq(Render \cup Retheming) /\ Len(chan') <= ChanCap
      /\ comp' = Renew(comp, st, st') /\ UNCHANGED <<published, sent>>
  BY <1>1 DEF Closed, TypeOK
<1>4. ticking' \in BOOLEAN
  BY DEF Closed
<1>5. QED
  BY <1>2, <1>3, <1>4, ThreadKeeps

(* tick, in its four outcomes.                                             *)
LEMMA TickKeeps ==
  ASSUME IInv, Tick
  PROVE  IInv'
<1>1. TypeOK /\ Quiet(st) /\ MayDraw(st, comp) /\ Owed(st, comp)
      /\ st \in State /\ comp \in Compositor
  BY IInvParts DEF TypeOK
<1>2. ticking' \in BOOLEAN
  BY DEF Tick, TickDone, TickWait, TickDraw, TickRetry
<1>3. CASE TickDone
  <2>1. /\ chan' \in Seq(Render \cup Retheming) /\ Len(chan') <= ChanCap
        /\ comp' = Renew(comp, st, st') /\ UNCHANGED <<published, sent>>
        /\ st' = Drain(Clear(st))
    BY <1>1, <1>3 DEF TickDone, TypeOK
  <2>2. st' \in State /\ Quiet(st') /\ LosesLayer(st, st')
    BY <1>1, <2>1, TickDoneType
  <2>3. QED
    BY <1>2, <2>1, <2>2, ThreadKeeps
<1>4. CASE TickWait
  <2>1. st' = st /\ comp' = comp /\ UNCHANGED <<chan, published, sent>>
    BY <1>4 DEF TickWait
  <2>2. QED
    BY <1>1, <1>2, <2>1, EventKeeps
<1>5. CASE TickDraw
  <2>1. NextFrame(st) \in Nat /\ Picture(st) \in Frame /\ st.cycle # None
    BY <1>1, <1>5, DrawTypes DEF TickDraw
  <2> DEFINE p == Submitted(st.pacing, NextFrame(st))
  <2>2. p \in Pacing
    BY <1>1, <2>1, PacingTypes DEF State
  <2>3. st' = [st EXCEPT !.pacing = p] /\ UNCHANGED <<chan, published, sent>>
        /\ comp' = [comp EXCEPT !.frames = @ \cup {st.layer}, !.screen = Picture(st)]
    BY <1>5 DEF TickDraw
  <2>4. st.configured
    BY <1>5 DEF TickDraw
  <2>5. st.layer \in Layers
    BY <1>1, <2>4 DEF MayDraw, State
  <2> HIDE DEF p
  <2>6. st' \in State /\ st'.layer = st.layer /\ st'.cycle = st.cycle
        /\ st'.configured = st.configured
    BY <1>1, <2>2, <2>3 DEF State
  <2>7. comp' \in Compositor /\ comp'.acked = comp.acked
        /\ st.layer \in comp'.frames
    BY <1>1, <2>1, <2>3, <2>5 DEF Compositor
  <2>8. Quiet(st') /\ MayDraw(st', comp') /\ Owed(st', comp')
    BY <1>1, <2>1, <2>6, <2>7 DEF Quiet, MayDraw, Owed
  <2>9. QED
    BY <1>2, <2>3, <2>6, <2>7, <2>8, EventKeeps
<1>6. CASE TickRetry
  <2> DEFINE p == Retry(st.pacing)
  <2>1. st.cycle # None
    BY <1>6 DEF TickRetry, Phase
  <2>2. p \in Pacing /\ p.pending = st.pacing.pending
    BY <1>1, PacingTypes DEF State, Pacing, Retry
  <2>3. st' = [st EXCEPT !.pacing = p] /\ comp' = comp
        /\ UNCHANGED <<chan, published, sent>>
    BY <1>6 DEF TickRetry, State
  <2> HIDE DEF p
  <2>4. st' \in State /\ st'.layer = st.layer /\ st'.cycle = st.cycle
        /\ st'.configured = st.configured
        /\ st'.pacing.pending = st.pacing.pending
    BY <1>1, <2>2, <2>3 DEF State
  <2>5. Quiet(st') /\ MayDraw(st', comp') /\ Owed(st', comp')
    BY <1>1, <2>1, <2>3, <2>4 DEF Quiet, MayDraw, Owed
  <2>6. QED
    BY <1>1, <1>2, <2>3, <2>4, <2>5, EventKeeps
<1>7. QED
  BY <1>3, <1>4, <1>5, <1>6 DEF Tick

(* The passing of time.                                                    *)
LEMMA ElapseKeeps ==
  ASSUME IInv, Elapse
  PROVE  IInv'
<1>1. TypeOK /\ Quiet(st) /\ MayDraw(st, comp) /\ Owed(st, comp)
      /\ st \in State /\ comp \in Compositor /\ ticking \in BOOLEAN
  BY IInvParts DEF TypeOK
<1>2. st' = Aged(st) /\ UNCHANGED <<chan, published, sent, ticking, comp>>
  BY DEF Elapse
<1>3. st' \in State /\ Quiet(st') /\ KeepsLayer(st, st')
  BY <1>1, <1>2, AgedType
<1>4. MayDraw(st', comp') /\ Owed(st', comp')
  BY <1>1, <1>2, <1>3 DEF KeepsLayer, MayDraw, Owed
<1>5. QED
  BY <1>1, <1>2, <1>3, <1>4, EventKeeps

(* Every step preserves IInv.                                              *)
LEMMA NextIInv == IInv /\ [Next]_vars => IInv'
<1> SUFFICES ASSUME IInv, [Next]_vars PROVE IInv'
  OBVIOUS
<1>1. CASE Next
  <2>1. ASSUME NEW l \in Layers, Configure(l) \/ FrameCallback(l) \/ Closed(l)
        PROVE  IInv'
    BY <2>1, ConfigureKeeps, FrameCallbackKeeps, ClosedKeeps
  <2>2. QED
    BY <1>1, <2>1, EnqueueKeeps, HandleCommandKeeps, TickKeeps, ElapseKeeps
       DEF Next
<1>2. CASE UNCHANGED vars
  BY <1>2 DEF vars, IInv, TypeOK, IdleIsQuiet, DrawsOnlyOnConfiguredLayer,
     FrameOwedWhenWithheld
<1>3. QED
  BY <1>1, <1>2

(* IInv is an invariant.                                                   *)
LEMMA Invariance == Spec => []IInv
BY InitIInv, NextIInv, PTL DEF Spec

(* Every variable keeps its type, whatever the durations, the capacity of  *)
(* the channel and the order of commands, events and ticks.                *)
THEOREM TypeCorrect == Spec => []TypeOK
<1>1. IInv => TypeOK
  BY DEF IInv
<1>2. QED
  BY <1>1, Invariance, PTL

(* An idle thread, which sleeps without a timeout, has left nothing undone.*)
THEOREM IdleCorrect == Spec => []IdleIsQuiet
<1>1. IInv => IdleIsQuiet
  BY DEF IInv
<1>2. QED
  BY <1>1, Invariance, PTL

(* The thread draws only on a layer the compositor has configured.         *)
THEOREM DrawCorrect == Spec => []DrawsOnlyOnConfiguredLayer
<1>1. IInv => DrawsOnlyOnConfiguredLayer
  BY DEF IInv
<1>2. QED
  BY <1>1, Invariance, PTL

(* Frames are withheld only while a callback that releases them is owed.   *)
THEOREM FrameCorrect == Spec => []FrameOwedWhenWithheld
<1>1. IInv => FrameOwedWhenWithheld
  BY DEF IInv
<1>2. QED
  BY <1>1, Invariance, PTL

-----------------------------------------------------------------------------
(* What each step does to the send on display and to the one that waits.   *)

(* queue_render displays the send, and asks for a frame.                   *)
LEMMA QueueRenderShows ==
  ASSUME NEW s \in State, NEW m \in Render, NEW c \in BOOLEAN
  PROVE  LET r == QueueRender(s, m, c)
             d == SurfaceForSend(m)
         IN /\ r.cycle.pair = m.pair /\ r.cycle.stamp = m.stamp /\ r.cycle.theme = m.theme
            /\ r.cycle.surface = d /\ r.cycle.age \in {0, d.fade_in}
            /\ (~c => r.cycle.age = 0)
            /\ r.cycle.lease = d.show + d.fade_out
            /\ r.pending = s.pending
            /\ r.pacing = Request(IF s.layer = NoLayer THEN DefaultPacing ELSE s.pacing)
            /\ r.layer # NoLayer /\ (s.layer # NoLayer => r.layer = s.layer)
<1> DEFINE surface == SurfaceForSend(m)
           l == IF s.layer = NoLayer THEN CreateLayer(s) ELSE s
           r == QueueRender(s, m, c)
<1>1. l \in State /\ l.pending = s.pending /\ l.layer # NoLayer
      /\ l.pacing = (IF s.layer = NoLayer THEN DefaultPacing ELSE s.pacing)
      /\ (s.layer # NoLayer => l.layer = s.layer)
  BY CreateLayerType DEF State
<1> DEFINE was_active == Phase(s) # "Done"
           past_fade  == Phase(s) \in {"Show", "FadeOut"}
           age  == IF past_fade /\ c THEN surface.fade_in ELSE 0
           sent_at == IF was_active /\ c THEN surface.fade_in ELSE 0
           q == [pair |-> m.pair, stamp |-> m.stamp, theme |-> m.theme,
                 surface |-> surface, transition |-> Timing[m.theme].transition,
                 age |-> age, sent |-> sent_at, lease |-> surface.show + surface.fade_out]
<1>2. r = [l EXCEPT !.cycle = q, !.pacing = Request(@)]
  BY DEF QueueRender
<1> HIDE DEF l, r, surface
<1>5. /\ q.pair = m.pair /\ q.stamp = m.stamp /\ q.theme = m.theme
      /\ q.surface = surface /\ q.age \in {0, surface.fade_in} /\ (~c => q.age = 0)
      /\ q.lease = surface.show + surface.fade_out
  OBVIOUS
<1> HIDE DEF q
<1>3. r.cycle = q /\ r.pacing = Request(l.pacing) /\ r.pending = l.pending /\ r.layer = l.layer
  BY <1>1, <1>2 DEF State
<1>4. QED
  BY <1>1, <1>2, <1>3, <1>5 DEF r, surface

(* A cycle is over when its age reaches its total.                         *)
LEMMA OverIs ==
  ASSUME NEW s \in State, s.cycle # None
  PROVE  /\ s.cycle \in Cycle /\ Total(s.cycle.surface) \in Nat /\ s.cycle.age \in Nat
         /\ Phase(s) = "Done" <=> s.cycle.age >= Total(s.cycle.surface)
<1>1. s.cycle \in Cycle
  BY DEF State
<1>2. /\ s.cycle.age \in Nat /\ s.cycle.surface.fade_in \in Nat
      /\ s.cycle.surface.show \in Nat /\ s.cycle.surface.fade_out \in Nat
  BY <1>1 DEF Cycle, Ticks
<1>3. QED
  BY <1>1, <1>2 DEF Phase, Total

(* What the thread displays, and what waits, does not change.              *)
Shows(s, t) == t.cycle = s.cycle /\ t.pending = s.pending

LEMMA OtherSteps ==
  ASSUME IInv, [Next]_vars, ~HandleCommand, ~TickDone, ~Elapse
  PROVE  Shows(st, st')
<1>1. st \in State
  BY DEF IInv, TypeOK
<1>2. CASE UNCHANGED st
  BY <1>2 DEF Shows
<1>3. CASE \E l \in Layers : Configure(l) \/ FrameCallback(l) \/ Closed(l)
  BY <1>1, <1>3 DEF Configure, FrameCallback, Closed, Shows, State
<1>4. CASE TickWait \/ TickDraw \/ TickRetry
  BY <1>1, <1>4 DEF TickWait, TickDraw, TickRetry, Shows, State
<1>5. CASE (\E pair \in Pairs \cup Anonymous, p \in Preempts, o \in Overrides :
              EnqueueRender(pair, p, o)) \/ EnqueueRetheme
  BY <1>2, <1>5 DEF EnqueueRender, EnqueueRetheme
<1>6. QED
  BY <1>2, <1>3, <1>4, <1>5 DEF Next, Tick, vars

(* retheme changes the theme, and asks for a frame.                        *)
LEMMA RethemeShows ==
  ASSUME NEW s \in State, NEW t \in Themes
  PROVE  /\ s.cycle = None => Retheme(s, t) = s
         /\ s.cycle # None =>
              LET r == Retheme(s, t) IN
              /\ r.cycle = [s.cycle EXCEPT !.theme = t] /\ r.cycle \in Cycle
              /\ r.cycle.age = s.cycle.age /\ r.cycle.surface = s.cycle.surface
              /\ r.cycle.lease = s.cycle.lease
              /\ r.pacing = Request(s.pacing) /\ r.pending = s.pending /\ r.layer = s.layer
<1>1. CASE s.cycle = None
  BY <1>1 DEF Retheme
<1>2. CASE s.cycle # None
  <2>1. s.cycle \in Cycle
    BY <1>2 DEF State
  <2>2. PICK q : q = [s.cycle EXCEPT !.theme = t]
    OBVIOUS
  <2>3. q \in Cycle /\ q.age = s.cycle.age /\ q.surface = s.cycle.surface
        /\ q.lease = s.cycle.lease
    BY <2>1, <2>2 DEF Cycle
  <2>4. Retheme(s, t) = [s EXCEPT !.cycle = q, !.pacing = Request(s.pacing)]
    BY <1>2, <2>2 DEF Retheme, State
  <2>5. QED
    BY <1>2, <2>2, <2>3, <2>4 DEF State
<1>3. QED
  BY <1>1, <1>2

(* Time makes a cycle older, never younger, and its lease shorter.         *)
LEMMA AgedShows ==
  ASSUME NEW s \in State
  PROVE  /\ s.cycle = None => Aged(s).cycle = None
         /\ s.cycle # None =>
              LET c == Aged(s).cycle IN
              /\ c # None /\ c.pair = s.cycle.pair /\ c.stamp = s.cycle.stamp
              /\ c.theme = s.cycle.theme /\ c.surface = s.cycle.surface
              /\ c.age = Lesser(s.cycle.age + 1, Total(s.cycle.surface))
              /\ c.lease = Greater(0, s.cycle.lease - 1)
         /\ Aged(s).pending = s.pending /\ Aged(s).layer = s.layer
         /\ Aged(s).pacing.next = (IF s.pacing.next = None THEN None
                                   ELSE Greater(0, s.pacing.next - 1))
         /\ Aged(s).pacing.last = Lesser(s.pacing.last + 1, FRAME)
<1> DEFINE older(c) == [c EXCEPT
                          !.age   = Lesser(@ + 1, Total(c.surface)),
                          !.sent  = Lesser(@ + 1, c.surface.fade_in + c.transition),
                          !.lease = Greater(0, @ - 1)]
           cycle  == IF s.cycle = None THEN None ELSE older(s.cycle)
           next   == IF s.pacing.next = None THEN None
                     ELSE Greater(0, s.pacing.next - 1)
           last   == Lesser(s.pacing.last + 1, FRAME)
           pacing == [s.pacing EXCEPT !.next = next, !.last = last]
<1>1. s.cycle # None =>
        /\ cycle \in Cycle /\ cycle.pair = s.cycle.pair /\ cycle.stamp = s.cycle.stamp
        /\ cycle.theme = s.cycle.theme /\ cycle.surface = s.cycle.surface
        /\ cycle.age = Lesser(s.cycle.age + 1, Total(s.cycle.surface))
        /\ cycle.lease = Greater(0, s.cycle.lease - 1)
  <2> SUFFICES ASSUME s.cycle # None
               PROVE  /\ older(s.cycle) \in Cycle /\ older(s.cycle).pair = s.cycle.pair
                      /\ older(s.cycle).stamp = s.cycle.stamp
                      /\ older(s.cycle).theme = s.cycle.theme
                      /\ older(s.cycle).surface = s.cycle.surface
                      /\ older(s.cycle).age = Lesser(s.cycle.age + 1, Total(s.cycle.surface))
                      /\ older(s.cycle).lease = Greater(0, s.cycle.lease - 1)
    OBVIOUS
  <2>1. s.cycle \in Cycle
    BY DEF State
  <2>2. PICK a \in Nat : a = Lesser(s.cycle.age + 1, Total(s.cycle.surface))
    BY <2>1 DEF Lesser, Total, Cycle, Ticks
  <2>3. PICK t \in Nat : t = Lesser(s.cycle.sent + 1, s.cycle.surface.fade_in + s.cycle.transition)
    BY <2>1 DEF Lesser, Cycle, Ticks
  <2>4. PICK l \in Nat : l = Greater(0, s.cycle.lease - 1)
    BY <2>1 DEF Greater, Cycle, Ticks
  <2>5. older(s.cycle) = [s.cycle EXCEPT !.age = a, !.sent = t, !.lease = l]
    BY <2>1, <2>2, <2>3, <2>4 DEF Cycle
  <2> HIDE DEF older
  <2>6. QED
    BY <2>1, <2>2, <2>4, <2>5 DEF Cycle, Ticks
<1>2. pacing.next = next /\ pacing.last = last
  BY DEF State, Pacing
<1>3. Aged(s) = [s EXCEPT !.cycle = cycle, !.pacing = pacing]
  BY DEF Aged, State
<1> HIDE DEF cycle, pacing, older, next, last
<1>4. /\ Aged(s).cycle = cycle /\ Aged(s).pacing = pacing
      /\ Aged(s).pending = s.pending /\ Aged(s).layer = s.layer
  BY <1>3 DEF State
<1>5. QED
  BY <1>1, <1>2, <1>4, NoneAssumption DEF cycle, next, last

-----------------------------------------------------------------------------
(* The time of a send on display.                                          *)

(* Its lease is over when its cycle is: age and lease never exceed the     *)
(* durations it was taken with.                                            *)
Leased(s) ==
  s.cycle # None =>
    /\ s.cycle.age <= Total(s.cycle.surface)
    /\ s.cycle.age + s.cycle.lease <= Total(s.cycle.surface)

LEMMA QueueRenderLeased ==
  ASSUME NEW s \in State, NEW m \in Render, NEW c \in BOOLEAN
  PROVE  Leased(QueueRender(s, m, c))
<1> DEFINE r == QueueRender(s, m, c)
           d == SurfaceForSend(m)
<1>1. /\ r.cycle.surface = d /\ r.cycle.age \in {0, d.fade_in}
      /\ r.cycle.lease = d.show + d.fade_out
  BY QueueRenderShows
<1>2. d.fade_in \in Nat /\ d.show \in Nat /\ d.fade_out \in Nat
  BY SurfaceForSendType DEF Durations, Ticks
<1> HIDE DEF d
<1>3. QED
  BY <1>1, <1>2 DEF Leased, Total

LEMMA LeasedStays ==
  ASSUME IInv, Leased(st), [Next]_vars
  PROVE  Leased(st')
<1>1. st \in State /\ TypeOK
  BY DEF IInv, TypeOK
<1>2. CASE HandleCommand
  <2>1. Head(chan) \in Render \cup Retheming
    BY <1>1, <1>2, ChannelTypes DEF HandleCommand
  <2>2. CASE Head(chan).kind = "render"
    <3>1. Head(chan) \in Render /\ st' = HandleSend(st, Head(chan))
      BY <1>2, <2>1, <2>2 DEF HandleCommand, Retheming
    <3>2. \/ \E c \in BOOLEAN : st' = QueueRender(st, Head(chan), c)
          \/ st' = [st EXCEPT !.pending = Head(chan)]
      BY <3>1 DEF HandleSend
    <3>3. CASE st' = [st EXCEPT !.pending = Head(chan)]
      BY <1>1, <3>3 DEF State, Leased
    <3>4. QED
      BY <1>1, <3>1, <3>2, <3>3, QueueRenderLeased
  <2>3. CASE Head(chan).kind # "render"
    <3>1. Head(chan).theme \in Themes /\ st' = Retheme(st, Head(chan).theme)
      BY <1>2, <2>1, <2>3 DEF HandleCommand, Render, Retheming
    <3>2. QED
      BY <1>1, <3>1, RethemeShows DEF Leased
  <2>4. QED
    BY <2>2, <2>3
<1>3. CASE TickDone
  <2>1. st' = Drain(Clear(st)) /\ Quiet(st) /\ MayDraw(st, comp)
    BY <1>3, IInvParts DEF TickDone
  <2>2. CASE Clear(st).pending = None
    <3>1. st' = Clear(st)
      BY <2>1, <2>2 DEF Drain
    <3>2. st'.cycle = None
      BY <1>1, <3>1 DEF Clear, State
    <3>3. QED
      BY <3>2 DEF Leased
  <2>3. CASE Clear(st).pending # None
    <3>1. Clear(st) \in State
      <4>1. DefaultPacing \in Pacing
        BY ConstantTypes DEF DefaultPacing, Pacing, Ticks
      <4>2. QED
        BY <1>1, <4>1 DEF Clear, State
    <3>2. PICK q \in State : q = [Clear(st) EXCEPT !.pending = None]
      BY <3>1 DEF State
    <3>3. PICK m \in Render : m = Clear(st).pending
      BY <2>3, <3>1 DEF State
    <3>4. st' = QueueRender(q, m, FALSE)
      BY <2>1, <2>3, <3>2, <3>3 DEF Drain
    <3>5. QED
      BY <3>4, QueueRenderLeased
  <2>4. QED
    BY <2>2, <2>3
<1>4. CASE Elapse
  <2>1. CASE st.cycle = None
    BY <1>1, <1>4, <2>1, AgedShows DEF Elapse, Leased
  <2>2. CASE st.cycle # None
    <3>1. /\ st'.cycle.surface = st.cycle.surface
          /\ st'.cycle.age = Lesser(st.cycle.age + 1, Total(st.cycle.surface))
          /\ st'.cycle.lease = Greater(0, st.cycle.lease - 1)
      BY <1>1, <1>4, <2>2, AgedShows DEF Elapse
    <3>2. st.cycle.age \in Nat /\ Total(st.cycle.surface) \in Nat /\ st.cycle.lease \in Nat
      BY <1>1, <2>2, OverIs DEF Cycle, Ticks
    <3>3. QED
      BY <2>2, <3>1, <3>2 DEF Leased, Lesser, Greater
  <2>3. QED
    BY <2>1, <2>2
<1>5. CASE ~HandleCommand /\ ~TickDone /\ ~Elapse
  BY <1>5, OtherSteps DEF Shows, Leased
<1>6. QED
  BY <1>2, <1>3, <1>4, <1>5

(* An OSD leaves the screen when its cycle is over and never before the    *)
(* show and the fade-out of the send it displays: a theme published in the *)
(* meantime, a late tick, a layer the compositor closed or the next send   *)
(* of its pair do not shorten them (retheme, queue_render, tick).          *)
THEOREM FullTime == Spec => NeverCutShort
<1>1. Init => IInv /\ Leased(st)
  BY InitIInv DEF Init, Idle, Leased
<1>2. IInv /\ Leased(st) /\ [Next]_vars => (IInv /\ Leased(st))'
  BY NextIInv, LeasedStays
<1>3. IInv /\ Leased(st) /\ [Next]_vars
        => [TickDone /\ st.cycle # None => st.cycle.lease = 0]_vars
  <2> SUFFICES ASSUME IInv, Leased(st), TickDone, st.cycle # None
               PROVE  st.cycle.lease = 0
    OBVIOUS
  <2>1. st \in State /\ Phase(st) = "Done"
    BY DEF IInv, TypeOK, TickDone
  <2>2. st.cycle.age >= Total(st.cycle.surface) /\ st.cycle.age \in Nat
        /\ Total(st.cycle.surface) \in Nat /\ st.cycle.lease \in Nat
    BY <2>1, OverIs DEF Cycle, Ticks
  <2>3. QED
    BY <2>2 DEF Leased
<1>4. QED
  BY <1>1, <1>2, <1>3, PTL DEF Spec, NeverCutShort

-----------------------------------------------------------------------------
(* The pace of the frames.                                                 *)

LEMMA RequestSpaces ==
  ASSUME NEW p \in Pacing
  PROVE  /\ Request(p).next \in 0 .. FRAME /\ Request(p).last = p.last
         /\ Spaced(p) => Spaced(Request(p))
<1>1. p.next \in Nat \cup {None} /\ p.last \in 0 .. FRAME /\ FRAME \in Nat
  BY ConstantTypes DEF Pacing, Ticks
<1>2. Request(p).next = (LET earliest == Greater(0, FRAME - p.last)
                         IN IF p.next = None THEN earliest ELSE Lesser(p.next, earliest))
  BY DEF Request, Pacing
<1>3. Request(p).last = p.last
  BY DEF Request, Pacing
<1>4. Greater(0, FRAME - p.last) = FRAME - p.last
  BY <1>1 DEF Greater
<1>5. QED
  BY <1>1, <1>2, <1>3, <1>4 DEF Spaced, Lesser

(* Of the phases that are still to end, the first one or a frame is next.  *)
LEMMA NextFrameTurns ==
  ASSUME NEW s \in State, Phase(s) # "Done"
  PROVE  /\ NextFrame(s) \in Nat \ {0}
         /\ NextFrame(s) >= FRAME \/ TurnsSoon(s.cycle)
         /\ NextFrame(s) > FRAME => Picture(s).complete
<1> DEFINE c == s.cycle
           fade_in_end    == c.surface.fade_in - c.age
           show_end       == fade_in_end + c.surface.show
           end            == show_end + c.surface.fade_out
           transition_end == c.surface.fade_in + c.transition - c.sent
<1>1. c # None /\ c \in Cycle /\ c.age < Total(c.surface)
  BY OverIs DEF Phase
<1>2. /\ c.age \in Nat /\ c.sent \in Nat /\ c.transition \in Nat
      /\ c.surface.fade_in \in Nat /\ c.surface.show \in Nat /\ c.surface.fade_out \in Nat
  BY <1>1 DEF Cycle, Ticks
<1>3. FRAME \in Nat \ {0} /\ ELEMENT_INTERVAL \in Nat \ {0} /\ ELEMENT_INTERVAL >= FRAME
  BY ConstantTypes
<1>4. end > 0 /\ end = Total(c.surface) - c.age
      /\ show_end = c.surface.fade_in + c.surface.show - c.age
  BY <1>1, <1>2 DEF Total
<1>5. NextFrame(s) = (CASE fade_in_end > 0 -> Lesser(FRAME, fade_in_end)
       [] fade_in_end <= 0 /\ show_end > 0 ->
            (CASE transition_end > 0 ->
                    Lesser(FRAME, Lesser(transition_end, show_end))
               [] transition_end <= 0 /\ c.theme \in Animated ->
                    Lesser(ELEMENT_INTERVAL, show_end)
               [] OTHER -> show_end)
       [] OTHER -> Lesser(FRAME, end))
  BY DEF NextFrame
<1>6. \/ fade_in_end > 0 /\ NextFrame(s) = Lesser(FRAME, fade_in_end)
      \/ /\ fade_in_end <= 0 /\ show_end > 0 /\ transition_end > 0
         /\ NextFrame(s) = Lesser(FRAME, Lesser(transition_end, show_end))
      \/ /\ fade_in_end <= 0 /\ show_end > 0 /\ transition_end <= 0
         /\ NextFrame(s) \in {Lesser(ELEMENT_INTERVAL, show_end), show_end}
      \/ NextFrame(s) = Lesser(FRAME, end)
  BY <1>2, <1>5
<1>7. TurnsSoon(c) <=> \/ fade_in_end \in 1 .. FRAME - 1
                       \/ transition_end \in 1 .. FRAME - 1
                       \/ show_end \in 1 .. FRAME - 1
                       \/ end \in 1 .. FRAME - 1
  BY <1>4 DEF TurnsSoon
<1>8. NextFrame(s) \in Nat \ {0}
  BY <1>2, <1>3, <1>4, <1>6 DEF Lesser
<1>9. ASSUME fade_in_end <= 0, show_end > 0, transition_end <= 0
      PROVE  Picture(s).complete
  <2>1. Phase(s) = "Show"
    BY <1>1, <1>2, <1>9 DEF Phase
  <2>2. QED
    BY <1>2, <1>9, <2>1 DEF Picture
<1> HIDE DEF fade_in_end, show_end, end, transition_end, c
<1>10. fade_in_end \in Int /\ show_end \in Int /\ end \in Int /\ transition_end \in Int
  BY <1>2 DEF fade_in_end, show_end, end, transition_end
<1>11. CASE fade_in_end > 0 /\ NextFrame(s) = Lesser(FRAME, fade_in_end)
  BY <1>3, <1>7, <1>8, <1>10, <1>11 DEF Lesser, c
<1>12. CASE /\ fade_in_end <= 0 /\ show_end > 0 /\ transition_end > 0
            /\ NextFrame(s) = Lesser(FRAME, Lesser(transition_end, show_end))
  BY <1>3, <1>7, <1>8, <1>10, <1>12 DEF Lesser, c
<1>13. CASE /\ fade_in_end <= 0 /\ show_end > 0 /\ transition_end <= 0
            /\ NextFrame(s) \in {Lesser(ELEMENT_INTERVAL, show_end), show_end}
  BY <1>3, <1>7, <1>8, <1>9, <1>10, <1>13 DEF Lesser, c
<1>14. CASE NextFrame(s) = Lesser(FRAME, end)
  BY <1>3, <1>4, <1>7, <1>8, <1>10, <1>14 DEF Lesser, c
<1>15. QED
  BY <1>6, <1>11, <1>12, <1>13, <1>14

-----------------------------------------------------------------------------
(* The two steps that take a send, in terms of queue_render.               *)

Parks(m) == st' = [st EXCEPT !.pending = m]

LEMMA HandleCommandIs ==
  ASSUME IInv, HandleCommand
  PROVE  \/ /\ Head(chan).kind = "render" /\ Head(chan) \in Render
            /\ st' = HandleSend(st, Head(chan))
            /\ \/ \E c \in BOOLEAN : st' = QueueRender(st, Head(chan), c)
               \/ Parks(Head(chan))
         \/ /\ Head(chan).kind = "retheme" /\ Head(chan).theme \in Themes
            /\ st' = Retheme(st, Head(chan).theme)
<1>1. TypeOK
  BY DEF IInv
<1>2. Head(chan) \in Render \cup Retheming
  BY <1>1, ChannelTypes DEF HandleCommand
<1>3. CASE Head(chan) \in Render
  <2>1. Head(chan).kind = "render" /\ st' = HandleSend(st, Head(chan))
    BY <1>3 DEF HandleCommand, Render
  <2>2. \/ \E c \in BOOLEAN : st' = QueueRender(st, Head(chan), c)
        \/ Parks(Head(chan))
    BY <2>1 DEF HandleSend, Parks
  <2>3. QED
    BY <1>3, <2>1, <2>2
<1>4. CASE Head(chan) \in Retheming
  BY <1>4 DEF HandleCommand, Retheming
<1>5. QED
  BY <1>2, <1>3, <1>4

(* The thread once its surface is dropped and its pending send is taken.   *)
Bare(q) == q \in State /\ q.layer = NoLayer /\ q.pending = None

LEMMA TickDoneIs ==
  ASSUME IInv, TickDone
  PROVE  \/ /\ st.cycle # None /\ st.pending = None
            /\ st'.cycle = None /\ st'.pending = None /\ st'.layer = NoLayer
            /\ st'.pacing = DefaultPacing
         \/ /\ st.cycle = None /\ st' = st
         \/ /\ st.cycle # None /\ st.pending \in Render
            /\ \E q \in State : Bare(q) /\ st' = QueueRender(q, st.pending, FALSE)
<1>1. st \in State /\ TypeOK /\ Quiet(st)
  BY IInvParts DEF TypeOK
<1>2. DefaultPacing \in Pacing
  BY ConstantTypes DEF DefaultPacing, Pacing, Ticks
<1>3. st' = Drain(Clear(st))
  BY DEF TickDone
<1>4. CASE st.cycle = None
  BY <1>1, <1>3, <1>4 DEF Quiet, Clear, Drain
<1>5. CASE st.cycle # None
  <2>1. PICK r \in State : r = [st EXCEPT !.layer = NoLayer, !.configured = FALSE,
                                          !.cycle = None, !.pacing = DefaultPacing]
    BY <1>1, <1>2 DEF State
  <2>2. Clear(st) = r
    BY <1>5, <2>1 DEF Clear
  <2>3. /\ r.layer = NoLayer /\ r.cycle = None /\ r.pacing = DefaultPacing
        /\ r.pending = st.pending
    BY <1>1, <2>1 DEF State
  <2>4. CASE st.pending = None
    BY <1>3, <1>5, <2>2, <2>3, <2>4 DEF Drain
  <2>5. CASE st.pending # None
    <3>1. PICK q : q = [r EXCEPT !.pending = None]
      OBVIOUS
    <3>2. q \in State /\ q.layer = NoLayer /\ q.pending = None
      BY <2>3, <3>1 DEF State
    <3>3. st' = QueueRender(q, st.pending, FALSE)
      BY <1>3, <2>2, <2>3, <2>5, <3>1 DEF Drain
    <3>4. st.pending \in Render
      BY <1>1, <2>5 DEF State
    <3>5. QED
      BY <1>5, <3>2, <3>3, <3>4 DEF Bare
  <2>6. QED
    BY <2>4, <2>5
<1>6. QED
  BY <1>4, <1>5

-----------------------------------------------------------------------------
(* The thread sleeps on a finished picture.                                *)

Sleeps(s, screen) ==
  s.layer # NoLayer /\ s.pacing.next # None /\ s.pacing.next > FRAME =>
    screen = [stamp |-> s.cycle.stamp, theme |-> s.cycle.theme, complete |-> TRUE]

(* A send or a theme asks for a frame, so it is not slept on.              *)
LEMMA RequestSleeps ==
  ASSUME NEW s, NEW p \in Pacing, s.pacing = Request(p), NEW x
  PROVE  Sleeps(s, x)
<1>1. Request(p).next \in 0 .. FRAME /\ FRAME \in Nat
  BY RequestSpaces, ConstantTypes
<1>2. QED
  BY <1>1 DEF Sleeps

LEMMA QueueRenderSleeps ==
  ASSUME NEW s \in State, NEW m \in Render, NEW c \in BOOLEAN, NEW x
  PROVE  Sleeps(QueueRender(s, m, c), x)
<1>0. DefaultPacing \in Pacing /\ s.pacing \in Pacing
  BY ConstantTypes DEF DefaultPacing, Pacing, Ticks, State
<1>1. PICK p \in Pacing : p = (IF s.layer = NoLayer THEN DefaultPacing ELSE s.pacing)
  BY <1>0
<1>2. QueueRender(s, m, c).pacing = Request(p)
  BY <1>1, QueueRenderShows
<1>3. QED
  BY <1>2, RequestSleeps

(* What a sleep depends on.                                                *)
LEMMA SleepsSame ==
  ASSUME NEW s, NEW t, NEW x, Sleeps(s, x),
         t.layer = NoLayer \/ t.layer = s.layer, t.pacing.next = s.pacing.next,
         t.cycle = s.cycle
  PROVE  Sleeps(t, x)
BY DEF Sleeps

LEMMA SleepsStays ==
  ASSUME IInv, Sleeps(st, comp.screen), [Next]_vars
  PROVE  Sleeps(st', comp'.screen)
<1>1. st \in State /\ TypeOK /\ comp \in Compositor /\ st.pacing \in Pacing
  BY DEF IInv, TypeOK, State
<1>2. CASE HandleCommand
  <2>1. CASE /\ Head(chan) \in Render
             /\ \E c \in BOOLEAN : st' = QueueRender(st, Head(chan), c)
    BY <1>1, <2>1, QueueRenderSleeps
  <2>2. CASE Parks(Head(chan))
    <3>1. st'.layer = st.layer /\ st'.pacing = st.pacing /\ st'.cycle = st.cycle
      BY <1>1, <2>2 DEF Parks, State
    <3>2. comp' = comp
      BY <1>2, <3>1 DEF HandleCommand, Renew
    <3>3. QED
      BY <3>1, <3>2 DEF Sleeps
  <2>3. CASE Head(chan).theme \in Themes /\ st' = Retheme(st, Head(chan).theme)
    <3>1. CASE st.cycle = None
      <4>1. st' = st
        BY <1>1, <2>3, <3>1, RethemeShows
      <4>2. comp' = comp
        BY <1>2, <4>1 DEF HandleCommand, Renew
      <4>3. QED
        BY <4>1, <4>2
    <3>2. CASE st.cycle # None
      <4>1. st'.pacing = Request(st.pacing)
        BY <1>1, <2>3, <3>2, RethemeShows
      <4>2. QED
        BY <1>1, <4>1, RequestSleeps
    <3>3. QED
      BY <3>1, <3>2
  <2>4. QED
    BY <1>2, <2>1, <2>2, <2>3, HandleCommandIs
<1>3. ASSUME NEW l \in Layers, Configure(l)
      PROVE  Sleeps(st', comp'.screen)
  <2>1. comp'.screen = comp.screen
    BY <1>1, <1>3 DEF Configure, Compositor
  <2>2. CASE st.layer = l
    <3>1. st'.pacing = Request(st.pacing)
      BY <1>1, <1>3, <2>2 DEF Configure, State
    <3>2. QED
      BY <1>1, <3>1, RequestSleeps
  <2>3. CASE st.layer # l
    BY <1>3, <2>1, <2>3 DEF Configure
  <2>4. QED
    BY <2>2, <2>3
<1>4. ASSUME NEW l \in Layers, FrameCallback(l)
      PROVE  Sleeps(st', comp'.screen)
  <2>1. comp'.screen = comp.screen
    BY <1>1, <1>4 DEF FrameCallback, Compositor
  <2>2. CASE st.layer = l
    <3>1. st' = [st EXCEPT !.pacing = FrameDone(st.pacing)]
      BY <1>1, <1>4, <2>2 DEF FrameCallback, State
    <3>2. FrameDone(st.pacing).next = st.pacing.next
      BY <1>1 DEF FrameDone, Pacing
    <3>3. st'.layer = st.layer /\ st'.pacing.next = st.pacing.next /\ st'.cycle = st.cycle
      BY <1>1, <3>1, <3>2 DEF State
    <3>4. QED
      BY <2>1, <3>3, SleepsSame
  <2>3. CASE st.layer # l
    BY <1>4, <2>1, <2>3 DEF FrameCallback
  <2>4. QED
    BY <2>2, <2>3
<1>5. ASSUME NEW l \in Layers, Closed(l)
      PROVE  Sleeps(st', comp'.screen)
  <2>1. CASE st.layer = l
    <3>1. st'.layer = NoLayer
      BY <1>1, <1>5, <2>1 DEF Closed, State
    <3>2. QED
      BY <3>1 DEF Sleeps
  <2>2. CASE st.layer # l
    <3>1. st' = st
      BY <1>5, <2>2 DEF Closed
    <3>2. comp' = comp
      BY <1>5, <3>1 DEF Closed, Renew
    <3>3. QED
      BY <3>1, <3>2
  <2>3. QED
    BY <2>1, <2>2
<1>6. CASE TickDone
  <2>1. CASE st' = st
    <3>1. comp' = comp
      BY <1>6, <2>1 DEF TickDone, Renew
    <3>2. QED
      BY <2>1, <3>1
  <2>2. CASE st'.layer = NoLayer
    BY <2>2 DEF Sleeps
  <2>3. CASE /\ st.pending \in Render
             /\ \E q \in State : Bare(q) /\ st' = QueueRender(q, st.pending, FALSE)
    BY <2>3, QueueRenderSleeps
  <2>4. QED
    BY <1>6, <2>1, <2>2, <2>3, TickDoneIs
<1>7. CASE TickDraw
  <2>1. PICK n \in Nat : n = NextFrame(st)
    BY <1>1, <1>7, NextFrameTurns DEF TickDraw
  <2>2. Phase(st) # "Done" /\ st' = [st EXCEPT !.pacing = Submitted(st.pacing, n)]
    BY <1>1, <1>7, <2>1 DEF TickDraw, State
  <2>3. st'.pacing.next = n /\ st'.cycle = st.cycle
    BY <1>1, <2>2 DEF State, Submitted
  <2>4. comp'.screen = Picture(st)
    BY <1>1, <1>7 DEF TickDraw, Compositor
  <2>5. n > FRAME => Picture(st).complete
    BY <1>1, <2>1, <2>2, NextFrameTurns
  <2>6. Picture(st).complete =>
          Picture(st) = [stamp |-> st.cycle.stamp, theme |-> st.cycle.theme, complete |-> TRUE]
    BY DEF Picture
  <2>7. QED
    BY <2>3, <2>4, <2>5, <2>6 DEF Sleeps
<1>8. CASE TickRetry
  <2>1. st'.pacing.next = FRAME
    BY <1>1, <1>8 DEF TickRetry, Retry, State, Pacing
  <2>2. QED
    BY <2>1, ConstantTypes DEF Sleeps
<1>9. CASE Elapse
  <2>1. st'.layer = st.layer /\ comp' = comp
        /\ st'.pacing.next = (IF st.pacing.next = None THEN None
                              ELSE Greater(0, st.pacing.next - 1))
    BY <1>1, <1>9, AgedShows DEF Elapse
  <2>2. CASE st.cycle = None
    <3>1. st.layer = NoLayer
      BY <2>2, IInvParts DEF Quiet
    <3>2. QED
      BY <2>1, <3>1 DEF Sleeps
  <2>3. CASE st.cycle # None
    <3>1. st'.cycle.stamp = st.cycle.stamp /\ st'.cycle.theme = st.cycle.theme
      BY <1>1, <1>9, <2>3, AgedShows DEF Elapse
    <3>2. st.pacing.next \in Nat \cup {None} /\ FRAME \in Nat
      BY <1>1, ConstantTypes DEF Pacing, Ticks
    <3>3. st'.pacing.next # None /\ st'.pacing.next > FRAME =>
            st.pacing.next # None /\ st.pacing.next > FRAME
      BY <2>1, <3>2 DEF Greater
    <3>4. QED
      BY <2>1, <3>1, <3>3 DEF Sleeps
  <2>4. QED
    BY <2>2, <2>3
<1>10. CASE UNCHANGED <<st, comp>>
  BY <1>10
<1>11. CASE (\E pair \in Pairs \cup Anonymous, p \in Preempts, o \in Overrides :
               EnqueueRender(pair, p, o)) \/ EnqueueRetheme
  BY <1>10, <1>11 DEF EnqueueRender, EnqueueRetheme
<1>12. QED
  BY <1>2, <1>3, <1>4, <1>5, <1>6, <1>7, <1>8, <1>9, <1>10, <1>11
     DEF Next, Tick, TickWait, vars

(* The thread sleeps past the next frame only on a finished picture of the *)
(* send and the theme it holds: whatever handle_send, retheme or a         *)
(* configure event changes asks for a frame, a failed draw is tried again, *)
(* and next_frame looks further than FRAME only once the alpha and the     *)
(* value have settled.                                                     *)
THEOREM NothingUndrawn == Spec => []SleepsOnFinishedPicture
<1>1. Sleeps(st, comp.screen) => SleepsOnFinishedPicture
  BY DEF Sleeps, SleepsOnFinishedPicture
<1>2. Init => IInv /\ Sleeps(st, comp.screen)
  BY InitIInv DEF Init, Idle, Sleeps
<1>3. IInv /\ Sleeps(st, comp.screen) /\ [Next]_vars
        => (IInv /\ Sleeps(st, comp.screen))'
  BY NextIInv, SleepsStays
<1>4. QED
  BY <1>1, <1>2, <1>3, PTL DEF Spec

-----------------------------------------------------------------------------
(* The pace of the frames: a layer that is kept, and the timeout.          *)

KeepsPace(s, t) == s.layer # NoLayer /\ t.layer = s.layer /\ Spaced(s.pacing)
                     => Spaced(t.pacing)

LEMMA QueueRenderSpaces ==
  ASSUME NEW s \in State, NEW m \in Render, NEW c \in BOOLEAN
  PROVE  Spaced(s.pacing) \/ s.layer = NoLayer => Spaced(QueueRender(s, m, c).pacing)
<1>0. DefaultPacing \in Pacing /\ s.pacing \in Pacing
  BY ConstantTypes DEF DefaultPacing, Pacing, Ticks, State
<1>1. PICK p \in Pacing : p = (IF s.layer = NoLayer THEN DefaultPacing ELSE s.pacing)
  BY <1>0
<1>2. QueueRender(s, m, c).pacing = Request(p)
  BY <1>1, QueueRenderShows
<1>3. Spaced(DefaultPacing)
  BY DEF Spaced, DefaultPacing
<1>4. QED
  BY <1>1, <1>2, <1>3, RequestSpaces

LEMMA AgedSpaces ==
  ASSUME NEW s \in State, Spaced(s.pacing)
  PROVE  Spaced(Aged(s).pacing)
<1>1. s.pacing.next \in Nat \cup {None} /\ s.pacing.last \in 0 .. FRAME /\ FRAME \in Nat
  BY ConstantTypes DEF State, Pacing, Ticks
<1>2. /\ Aged(s).pacing.next = (IF s.pacing.next = None THEN None
                                ELSE Greater(0, s.pacing.next - 1))
      /\ Aged(s).pacing.last = Lesser(s.pacing.last + 1, FRAME)
  BY AgedShows
<1>3. QED
  BY <1>1, <1>2 DEF Spaced, Lesser, Greater

LEMMA PaceStays ==
  ASSUME IInv, [Next]_vars
  PROVE  KeepsPace(st, st') \/ (TickDraw /\ TurnsSoon(st.cycle))
<1>1. st \in State /\ TypeOK /\ comp \in Compositor /\ st.pacing \in Pacing
  BY DEF IInv, TypeOK, State
<1>2. CASE HandleCommand
  <2>1. CASE /\ Head(chan) \in Render
             /\ \E c \in BOOLEAN : st' = QueueRender(st, Head(chan), c)
    BY <1>1, <2>1, QueueRenderSpaces DEF KeepsPace
  <2>2. CASE Parks(Head(chan))
    <3>1. st'.pacing = st.pacing
      BY <1>1, <2>2 DEF Parks, State
    <3>2. QED
      BY <3>1 DEF KeepsPace
  <2>3. CASE Head(chan).theme \in Themes /\ st' = Retheme(st, Head(chan).theme)
    <3>1. st'.pacing \in {st.pacing, Request(st.pacing)}
      BY <1>1, <2>3, RethemeShows
    <3>2. QED
      BY <1>1, <3>1, RequestSpaces DEF KeepsPace
  <2>4. QED
    BY <1>2, <2>1, <2>2, <2>3, HandleCommandIs
<1>3. ASSUME NEW l \in Layers, Configure(l)
      PROVE  KeepsPace(st, st')
  <2>1. st'.pacing \in {st.pacing, Request(st.pacing)}
    BY <1>1, <1>3 DEF Configure, State
  <2>2. QED
    BY <1>1, <2>1, RequestSpaces DEF KeepsPace
<1>4. ASSUME NEW l \in Layers, FrameCallback(l)
      PROVE  KeepsPace(st, st')
  <2>1. st'.pacing \in {st.pacing, FrameDone(st.pacing)}
    BY <1>1, <1>4 DEF FrameCallback, State
  <2>2. FrameDone(st.pacing).next = st.pacing.next
        /\ FrameDone(st.pacing).last = st.pacing.last
    BY <1>1 DEF FrameDone, Pacing
  <2>3. QED
    BY <2>1, <2>2 DEF KeepsPace, Spaced
<1>5. ASSUME NEW l \in Layers, Closed(l)
      PROVE  KeepsPace(st, st')
  <2>1. st'.pacing = st.pacing
    BY <1>1, <1>5 DEF Closed, State
  <2>2. QED
    BY <2>1 DEF KeepsPace
<1>6. CASE TickDone
  <2>1. CASE st' = st \/ st'.pacing = DefaultPacing
    BY <2>1 DEF KeepsPace, Spaced, DefaultPacing
  <2>2. CASE /\ st.pending \in Render
             /\ \E q \in State : Bare(q) /\ st' = QueueRender(q, st.pending, FALSE)
    BY <2>2, QueueRenderSpaces DEF KeepsPace, Bare
  <2>3. QED
    BY <1>6, <2>1, <2>2, TickDoneIs
<1>7. CASE TickDraw
  <2>1. PICK n \in Nat : n = NextFrame(st)
    BY <1>1, <1>7, NextFrameTurns DEF TickDraw
  <2>2. Phase(st) # "Done" /\ st' = [st EXCEPT !.pacing = Submitted(st.pacing, n)]
    BY <1>1, <1>7, <2>1 DEF TickDraw, State
  <2>3. st'.pacing = [next |-> n, last |-> 0, pending |-> TRUE]
    BY <1>1, <2>2 DEF State, Submitted
  <2>4. n >= FRAME \/ TurnsSoon(st.cycle)
    BY <1>1, <2>1, <2>2, NextFrameTurns
  <2>5. QED
    BY <1>7, <2>3, <2>4, ConstantTypes DEF KeepsPace, Spaced
<1>8. CASE TickRetry
  <2>1. PICK p \in Pacing : p = Retry(st.pacing)
    BY <1>1, PacingTypes
  <2>2. p.next = FRAME /\ p.last \in 0 .. FRAME
    BY <1>1, <2>1 DEF Retry, Pacing
  <2>3. st'.pacing = p
    BY <1>1, <1>8, <2>1 DEF TickRetry, State
  <2>4. QED
    BY <2>2, <2>3, ConstantTypes DEF KeepsPace, Spaced
<1>9. CASE Elapse
  BY <1>1, <1>9, AgedSpaces DEF Elapse, KeepsPace
<1>10. CASE UNCHANGED st
  BY <1>10 DEF KeepsPace
<1>11. CASE (\E pair \in Pairs \cup Anonymous, p \in Preempts, o \in Overrides :
               EnqueueRender(pair, p, o)) \/ EnqueueRetheme
  BY <1>10, <1>11 DEF EnqueueRender, EnqueueRetheme
<1>12. QED
  BY <1>2, <1>3, <1>4, <1>5, <1>6, <1>7, <1>8, <1>9, <1>10, <1>11
     DEF Next, Tick, TickWait, vars

(* The timeout of a cycle that is not over is over itself only when a      *)
(* frame can be drawn.                                                     *)
LEMMA TimeoutIs ==
  ASSUME NEW s \in State
  PROVE  /\ s.cycle = None => TickTimeout(s) # 0
         /\ s.cycle # None /\ TickTimeout(s) = 0 =>
              Phase(s) = "Done" \/ (s.configured /\ Ready(s.pacing))
<1>1. CASE s.cycle = None
  BY <1>1, NoneAssumption DEF TickTimeout, Ticks
<1>2. CASE s.cycle # None
  <2>1. PICK total \in Nat, age \in Nat :
          total = Total(s.cycle.surface) /\ age = s.cycle.age
    BY <1>2, OverIs
  <2>2. PICK end : end = Greater(0, total - age)
    OBVIOUS
  <2>3. end \in Nat /\ (end = 0 => age >= total)
    BY <2>2 DEF Greater
  <2>4. Deadline(s.pacing) \in Nat \cup {None}
    BY DEF Deadline, State, Pacing, Ticks
  <2>5. TickTimeout(s) = (IF s.configured /\ Deadline(s.pacing) # None
                          THEN Lesser(Deadline(s.pacing), end) ELSE end)
    BY <1>2, <2>1, <2>2 DEF TickTimeout
  <2>6. age >= total => Phase(s) = "Done"
    BY <1>2, <2>1, OverIs
  <2>7. QED
    BY <1>2, <2>3, <2>4, <2>5, <2>6 DEF Lesser, Ready
<1>3. QED
  BY <1>1, <1>2

LEMMA TickSleeps ==
  ASSUME IInv, Tick, TickTimeout(st') = 0
  PROVE  Total(st'.cycle.surface) = 0
<1>1. st \in State /\ st' \in State /\ st.pacing \in Pacing /\ Quiet(st)
      /\ MayDraw(st, comp) /\ comp \in Compositor
  BY TickKeeps, IInvParts DEF IInv, TypeOK, State
<1>2. CASE TickDone
  <2>1. CASE st'.cycle = None
    BY <1>1, <2>1, TimeoutIs
  <2>2. CASE /\ st.pending \in Render
             /\ \E q \in State : Bare(q) /\ st' = QueueRender(q, st.pending, FALSE)
    <3>0. PICK q \in State, m \in Render : st' = QueueRender(q, m, FALSE)
      BY <2>2
    <3>1. st'.cycle \in Cycle /\ st'.cycle.age = 0
      <4>1. QueueRender(q, m, FALSE).cycle \in Cycle
        BY QueueRenderType
      <4>2. ~FALSE => QueueRender(q, m, FALSE).cycle.age = 0
        BY QueueRenderShows
      <4>3. QED
        BY <3>0, <4>1, <4>2
    <3>2. st'.configured = FALSE
      BY <1>1, <1>2, TickDoneType DEF TickDone, LosesLayer
    <3>3. st'.cycle # None
      BY <3>1, NoneAssumption
    <3>4. Phase(st') = "Done"
      BY <1>1, <3>2, <3>3, TimeoutIs
    <3>5. Total(st'.cycle.surface) \in Nat /\ st'.cycle.age >= Total(st'.cycle.surface)
      BY <1>1, <3>3, <3>4, OverIs
    <3>6. QED
      BY <3>1, <3>5
  <2>3. QED
    BY <1>2, <2>1, <2>2, TickDoneIs
<1>3. CASE ~TickDone
  <2>1. Phase(st) # "Done" /\ st.cycle # None
    BY <1>3 DEF Tick, TickWait, TickDraw, TickRetry, Phase
  <2>2. st'.cycle = st.cycle
    BY <1>1, <1>3 DEF Tick, TickWait, TickDraw, TickRetry, State
  <2>3. Phase(st') # "Done"
    BY <2>1, <2>2 DEF Phase
  <2>4. st'.configured /\ Ready(st'.pacing)
    BY <1>1, <2>1, <2>2, <2>3, TimeoutIs
  <2>5. CASE TickWait
    BY <2>4, <2>5 DEF TickWait
  <2>6. CASE TickDraw
    <3>1. st'.pacing = Submitted(st.pacing, NextFrame(st))
      BY <1>1, <2>6 DEF TickDraw, State
    <3>2. QED
      BY <2>4, <3>1 DEF Submitted, Ready, Deadline
  <2>7. CASE TickRetry
    <3>1. st'.pacing = Retry(st.pacing)
      BY <1>1, <2>7 DEF TickRetry, State
    <3>2. Retry(st.pacing).next = FRAME
      BY <1>1 DEF Retry, Pacing
    <3>3. FRAME # None /\ FRAME # 0
      BY ConstantTypes, NoneAssumption DEF Ticks
    <3>4. QED
      BY <2>4, <3>1, <3>2, <3>3 DEF Ready, Deadline
  <2>8. QED
    BY <1>3, <2>5, <2>6, <2>7 DEF Tick
<1>4. QED
  BY <1>2, <1>3

(* Whatever asks for a frame of the layer in use leaves it FRAME after the *)
(* last (Pacing::request, retry), only a frame that was drawn schedules    *)
(* one sooner, where a phase ends (next_frame), and tick leaves no timeout *)
(* that is over already (next_tick_timeout): the loop cannot spin.         *)
THEOREM Paced == Spec => FramesKeepTime
<1>1. IInv /\ [Next]_vars =>
        [/\ st.layer # NoLayer /\ st'.layer = st.layer /\ Spaced(st.pacing) =>
              Spaced(st'.pacing) \/ (TickDraw /\ TurnsSoon(st.cycle))
         /\ Tick /\ TickTimeout(st') = 0 => Total(st'.cycle.surface) = 0]_vars
  BY PaceStays, TickSleeps DEF KeepsPace
<1>2. QED
  BY <1>1, Invariance, PTL DEF Spec, FramesKeepTime

-----------------------------------------------------------------------------
(* Surface implements Display, step by step.                               *)

(* What Display sees of a state of the thread.                             *)
Seen(s) == IF s.cycle = None THEN None
           ELSE [pair |-> s.cycle.pair, stamp |-> s.cycle.stamp, theme |-> s.cycle.theme]

Over(s) == s.cycle # None /\ Phase(s) = "Done"

LEMMA SeenIs ==
  /\ OnDisplay = Seen(st) /\ OnDisplay' = Seen(st')
  /\ (st.cycle # None /\ Phase(st) = "Done") <=> Over(st)
  /\ (st.cycle # None /\ Phase(st) = "Done")' <=> Over(st')
BY DEF OnDisplay, Seen, Over

LEMMA SeenSame ==
  ASSUME NEW s, NEW t, t.cycle = s.cycle
  PROVE  Seen(t) = Seen(s) /\ (Over(t) <=> Over(s))
BY DEF Seen, Over, Phase

LEMMA SeenIsNone ==
  ASSUME NEW s \in State
  PROVE  Seen(s) = None <=> s.cycle = None
<1>1. s.cycle # None => s.cycle \in Cycle
  BY DEF State
<1>2. s.cycle # None =>
        /\ s.cycle.pair \in Pairs \cup Anonymous
        /\ s.cycle.stamp \in Nat \ {0} /\ s.cycle.theme \in Themes
  BY <1>1 DEF Cycle
<1>3. QED
  BY <1>2, NoneAssumption DEF Seen

(* An accepted command is the last of the channel.                         *)
LEMMA AppendIs ==
  ASSUME NEW S, NEW q \in Seq(S), NEW e \in S
  PROVE  Len(Append(q, e)) = Len(q) + 1 /\ SubSeq(Append(q, e), 1, Len(q)) = q
OBVIOUS

LEMMA EnqueueAccepts ==
  ASSUME IInv,
         \/ \E pair \in Pairs \cup Anonymous, p \in Preempts, o \in Overrides :
               EnqueueRender(pair, p, o)
         \/ EnqueueRetheme
  PROVE  /\ st' = st /\ Len(chan') = Len(chan) + 1
         /\ SubSeq(chan', 1, Len(chan)) = chan
<1>1. chan \in Seq(Render \cup Retheming)
  BY DEF IInv, TypeOK
<1>2. PICK e : chan' = Append(chan, e) /\ st' = st
  BY DEF EnqueueRender, EnqueueRetheme
<1>3. chan \in Seq(Render \cup Retheming \cup {e})
  BY <1>1
<1>4. QED
  BY <1>2, <1>3, AppendIs

LEMMA AcceptSteps ==
  ASSUME IInv,
         \/ \E pair \in Pairs \cup Anonymous, p \in Preempts, o \in Overrides :
               EnqueueRender(pair, p, o)
         \/ EnqueueRetheme
  PROVE  Abstract!Accept
<1>1. st' = st /\ Len(chan') = Len(chan) + 1 /\ SubSeq(chan', 1, Len(chan)) = chan
  BY EnqueueAccepts
<1>2. OnDisplay' = OnDisplay
      /\ ((st.cycle # None /\ Phase(st) = "Done")' <=> (st.cycle # None /\ Phase(st) = "Done"))
  BY <1>1, SeenIs
<1>3. QED
  BY <1>1, <1>2 DEF Abstract!Accept

(* A send of the channel is presented or parked.                           *)
LEMMA TakeRenderSteps ==
  ASSUME IInv, HandleCommand, Head(chan) \in Render
  PROVE  Abstract!Present \/ Abstract!Park
<1>1. st \in State /\ chan # <<>> /\ chan' = Tail(chan)
  BY DEF IInv, TypeOK, HandleCommand
<1>2. PICK m \in Render : m = Head(chan) /\ m.kind = "render"
  BY DEF Render
<1>3. st' = HandleSend(st, m)
  BY <1>2 DEF HandleCommand
<1>4. PICK same_pair \in BOOLEAN :
        same_pair <=> Phase(st) # "Done" /\ m.pair \notin Anonymous /\ m.pair = st.cycle.pair
  OBVIOUS
<1>5. PICK direct \in BOOLEAN :
        direct <=> Phase(st) = "Done" \/ same_pair \/ m.preempt
  OBVIOUS
<1>6. st' = (IF direct THEN QueueRender(st, m, same_pair) ELSE [st EXCEPT !.pending = m])
  <2>1. same_pair = (Phase(st) # "Done" /\ m.pair \notin Anonymous /\ m.pair = st.cycle.pair)
    BY <1>4
  <2>2. QED
    BY <1>3, <1>5, <2>1 DEF HandleSend
<1>7. st.cycle # None => Seen(st).pair = st.cycle.pair
  BY DEF Seen
<1>8. direct <=> Abstract!MayPresent(m)
  <2>1. OnDisplay = None <=> st.cycle = None
    BY <1>1, SeenIs, SeenIsNone
  <2>2. st.cycle = None => Phase(st) = "Done"
    BY DEF Phase
  <2>3. QED
    BY <1>4, <1>5, <1>7, <2>1, <2>2, SeenIs DEF Abstract!MayPresent, Abstract!Continues, Over
<1>9. CASE direct
  <2>1. PICK c : c = st'.cycle
    OBVIOUS
  <2>2. /\ c # None /\ c.pair = m.pair /\ c.stamp = m.stamp /\ c.theme = m.theme
        /\ st'.pending = st.pending
    BY <1>1, <1>6, <1>9, <2>1, QueueRenderShows, QueueRenderType, NoneAssumption
  <2>3. Seen(st') = Abstract!Shown(m)
    BY <2>1, <2>2 DEF Seen, Abstract!Shown
  <2>4. (st.cycle # None /\ Phase(st) = "Done")' \in BOOLEAN
    OBVIOUS
  <2>5. Abstract!Present
    BY <1>1, <1>2, <1>8, <1>9, <2>2, <2>3, <2>4, SeenIs DEF Abstract!Present
  <2>6. QED
    BY <2>5
<1>10. CASE ~direct
  <2>1. st' = [st EXCEPT !.pending = m]
    BY <1>6, <1>10
  <2>2. st'.cycle = st.cycle /\ st'.pending = m
    BY <1>1, <2>1 DEF State
  <2>3. Seen(st') = Seen(st) /\ (Over(st') <=> Over(st))
    BY <2>2, SeenSame
  <2>4. OnDisplay' = OnDisplay
        /\ ((st.cycle # None /\ Phase(st) = "Done")' <=> (st.cycle # None /\ Phase(st) = "Done"))
    BY <2>3, SeenIs
  <2>5. Abstract!Park
    BY <1>1, <1>2, <1>8, <1>10, <2>2, <2>4 DEF Abstract!Park
  <2>6. QED
    BY <2>5
<1>11. QED
  BY <1>9, <1>10

(* A theme of the channel changes that of the send on display.             *)
LEMMA TakeThemeSteps ==
  ASSUME IInv, HandleCommand, Head(chan).kind = "retheme", Head(chan).theme \in Themes,
         st' = Retheme(st, Head(chan).theme)
  PROVE  Abstract!ChangeTheme
<1>1. st \in State /\ chan # <<>> /\ chan' = Tail(chan)
  BY DEF IInv, TypeOK, HandleCommand
<1>2. PICK t \in Themes : t = Head(chan).theme /\ st' = Retheme(st, t)
  OBVIOUS
<1>3. CASE st.cycle = None
  <2>1. st' = st
    BY <1>1, <1>2, <1>3, RethemeShows
  <2>2. OnDisplay' = OnDisplay /\ OnDisplay = None
        /\ ((st.cycle # None /\ Phase(st) = "Done")' <=> (st.cycle # None /\ Phase(st) = "Done"))
    BY <1>3, <2>1, SeenIs DEF Seen
  <2>3. QED
    BY <1>1, <2>1, <2>2 DEF Abstract!ChangeTheme
<1>4. CASE st.cycle # None
  <2>1. /\ st'.cycle = [st.cycle EXCEPT !.theme = t] /\ st'.cycle \in Cycle
        /\ st'.cycle.age = st.cycle.age /\ st'.cycle.surface = st.cycle.surface
        /\ st'.pending = st.pending
    BY <1>1, <1>2, <1>4, RethemeShows
  <2>2. st.cycle \in Cycle /\ st'.cycle # None
    BY <1>1, <1>4, <2>1, NoneAssumption DEF State
  <2>3. /\ st'.cycle.pair = st.cycle.pair /\ st'.cycle.stamp = st.cycle.stamp
        /\ st'.cycle.theme = t
    BY <2>1, <2>2 DEF Cycle
  <2>4. Over(st') <=> Over(st)
    BY <1>4, <2>1, <2>2 DEF Over, Phase
  <2>5. Seen(st) # None /\ Seen(st') = [Seen(st) EXCEPT !.theme = t]
    <3>1. Seen(st') = [pair |-> st.cycle.pair, stamp |-> st.cycle.stamp, theme |-> t]
      BY <2>2, <2>3 DEF Seen
    <3>2. Seen(st) = [pair |-> st.cycle.pair, stamp |-> st.cycle.stamp, theme |-> st.cycle.theme]
      BY <1>4 DEF Seen
    <3>3. QED
      BY <1>1, <1>4, <3>1, <3>2, SeenIsNone
  <2>6. OnDisplay' = [OnDisplay EXCEPT !.theme = t] /\ OnDisplay # None
        /\ ((st.cycle # None /\ Phase(st) = "Done")' <=> (st.cycle # None /\ Phase(st) = "Done"))
    BY <2>4, <2>5, SeenIs
  <2>7. QED
    BY <1>1, <1>2, <2>1, <2>6 DEF Abstract!ChangeTheme
<1>5. QED
  BY <1>3, <1>4

(* The end of a cycle presents the send that waits; without a cycle it is  *)
(* no step at all.                                                         *)
LEMMA TickDoneSteps ==
  ASSUME IInv, TickDone
  PROVE  Abstract!Finish \/ (UNCHANGED <<chan, st>>)
<1>1. st \in State /\ Phase(st) = "Done" /\ chan' = chan
  BY DEF IInv, TypeOK, TickDone
<1>2. CASE st.cycle = None /\ st' = st
  BY <1>1, <1>2
<1>3. CASE /\ st.cycle # None /\ st.pending = None
           /\ st'.cycle = None /\ st'.pending = None
  <2>1. Over(st) /\ ~Over(st') /\ Seen(st') = None
    BY <1>1, <1>3 DEF Over, Seen
  <2>2. /\ OnDisplay' = None /\ (st.cycle # None /\ Phase(st) = "Done")
        /\ ~(st.cycle # None /\ Phase(st) = "Done")'
    BY <2>1, SeenIs
  <2>3. QED
    BY <1>1, <1>3, <2>2 DEF Abstract!Finish
<1>4. CASE /\ st.cycle # None /\ st.pending \in Render
           /\ \E q \in State : Bare(q) /\ st' = QueueRender(q, st.pending, FALSE)
  <2>1. PICK q \in State, m \in Render :
          Bare(q) /\ m = st.pending /\ st' = QueueRender(q, m, FALSE)
    BY <1>4
  <2>2. PICK c : c = st'.cycle
    OBVIOUS
  <2>3. /\ c # None /\ c.pair = m.pair /\ c.stamp = m.stamp /\ c.theme = m.theme
        /\ st'.pending = q.pending
    BY ZenonT(30), <2>1, <2>2, QueueRenderShows, QueueRenderType, NoneAssumption
  <2>4. Seen(st') = Abstract!Shown(m)
    BY <2>2, <2>3 DEF Seen, Abstract!Shown
  <2>5. m # None /\ st'.pending = None
    BY <2>1, <2>3, NoneAssumption DEF Bare
  <2>6. /\ OnDisplay' = Abstract!Shown(m) /\ (st.cycle # None /\ Phase(st) = "Done")
        /\ (st.cycle # None /\ Phase(st) = "Done")' \in BOOLEAN
    BY <1>1, <1>4, <2>4, SeenIs
  <2>7. QED
    BY <1>1, <2>1, <2>5, <2>6 DEF Abstract!Finish
<1>5. QED
  BY <1>2, <1>3, <1>4, TickDoneIs

(* Time ends the send on display, or does nothing that Display sees.       *)
LEMMA ElapseSteps ==
  ASSUME IInv, Elapse
  PROVE  /\ chan' = chan /\ st'.pending = st.pending /\ Seen(st') = Seen(st)
         /\ Over(st) => Over(st')
<1>1. st \in State /\ st' \in State /\ st' = Aged(st) /\ chan' = chan
  BY ElapseKeeps DEF IInv, TypeOK, Elapse
<1>2. st'.pending = st.pending
  BY <1>1, AgedShows
<1>3. CASE st.cycle = None
  <2>1. st'.cycle = None
    BY <1>1, <1>3, AgedShows
  <2>2. QED
    BY <1>1, <1>2, <1>3, <2>1 DEF Seen, Over
<1>4. CASE st.cycle # None
  <2>1. /\ st'.cycle # None /\ st'.cycle.pair = st.cycle.pair
        /\ st'.cycle.stamp = st.cycle.stamp /\ st'.cycle.theme = st.cycle.theme
        /\ st'.cycle.surface = st.cycle.surface
        /\ st'.cycle.age = Lesser(st.cycle.age + 1, Total(st.cycle.surface))
    BY <1>1, <1>4, AgedShows
  <2>2. Seen(st') = Seen(st)
    BY <1>4, <2>1 DEF Seen
  <2>3. ASSUME Over(st) PROVE Over(st')
    <3>1. PICK total \in Nat, age \in Nat :
            total = Total(st.cycle.surface) /\ age = st.cycle.age
      BY <1>1, <1>4, OverIs
    <3>2. age >= total
      BY <1>1, <1>4, <2>3, <3>1, OverIs DEF Over
    <3>3. st'.cycle.age = total
      BY <2>1, <3>1, <3>2 DEF Lesser
    <3>4. Phase(st') = "Done"
      BY <1>1, <2>1, <3>1, <3>3, OverIs
    <3>5. QED
      BY <2>1, <3>4 DEF Over
  <2>4. QED
    BY <1>1, <1>2, <2>2, <2>3
<1>5. QED
  BY <1>3, <1>4

(* What Display sees is unchanged.                                         *)
LEMMA Stutters ==
  ASSUME chan' = chan, st'.pending = st.pending, Seen(st') = Seen(st), Over(st') <=> Over(st)
  PROVE  UNCHANGED Abstract!vars
<1>1. OnDisplay' = OnDisplay
      /\ ((st.cycle # None /\ Phase(st) = "Done")' <=> (st.cycle # None /\ Phase(st) = "Done"))
  BY SeenIs
<1>2. QED
  BY <1>1 DEF Abstract!vars

LEMMA StepSteps ==
  ASSUME IInv, [Next]_vars
  PROVE  [Abstract!Next]_Abstract!vars
<1>1. CASE HandleCommand
  <2>1. CASE Head(chan) \in Render
    BY <1>1, <2>1, TakeRenderSteps DEF Abstract!Next, Abstract!Take
  <2>2. CASE /\ Head(chan).kind = "retheme" /\ Head(chan).theme \in Themes
             /\ st' = Retheme(st, Head(chan).theme)
    BY <1>1, <2>2, TakeThemeSteps DEF Abstract!Next, Abstract!Take
  <2>3. QED
    BY <1>1, <2>1, <2>2, HandleCommandIs
<1>2. CASE TickDone
  <2>1. CASE Abstract!Finish
    BY <2>1 DEF Abstract!Next
  <2>2. CASE UNCHANGED <<chan, st>>
    BY <2>2, Stutters
  <2>3. QED
    BY <1>2, <2>1, <2>2, TickDoneSteps
<1>3. CASE Elapse
  <2>1. /\ chan' = chan /\ st'.pending = st.pending /\ Seen(st') = Seen(st)
        /\ (Over(st) => Over(st'))
    BY <1>3, ElapseSteps
  <2>2. CASE Over(st') <=> Over(st)
    BY <2>1, <2>2, Stutters
  <2>3. CASE ~(Over(st') <=> Over(st))
    <3>1. Over(st') /\ st \in State /\ st' \in State
      BY <1>3, <2>1, <2>3, ElapseKeeps DEF IInv, TypeOK
    <3>2. Seen(st') # None
      BY <3>1, SeenIsNone DEF Over
    <3>3. OnDisplay # None /\ OnDisplay' = OnDisplay
          /\ (st.cycle # None /\ Phase(st) = "Done")'
      BY <2>1, <3>1, <3>2, SeenIs
    <3>4. Abstract!Expire
      BY <2>1, <3>3 DEF Abstract!Expire
    <3>5. QED
      BY <3>4 DEF Abstract!Next
  <2>4. QED
    BY <2>2, <2>3
<1>4. CASE (\E pair \in Pairs \cup Anonymous, p \in Preempts, o \in Overrides :
              EnqueueRender(pair, p, o)) \/ EnqueueRetheme
  BY <1>4, AcceptSteps DEF Abstract!Next
<1>5. CASE /\ ~HandleCommand /\ ~TickDone /\ ~Elapse
           /\ ~((\E pair \in Pairs \cup Anonymous, p \in Preempts, o \in Overrides :
                   EnqueueRender(pair, p, o)) \/ EnqueueRetheme)
  <2>1. Shows(st, st')
    BY <1>5, OtherSteps
  <2>2. chan' = chan
    BY <1>5 DEF Next, Tick, TickWait, TickDraw, TickRetry, Configure, FrameCallback,
       Closed, vars
  <2>3. QED
    BY <2>1, <2>2, SeenSame, Stutters DEF Shows
<1>6. QED
  BY <1>1, <1>2, <1>3, <1>4, <1>5

(* Whatever the compositor and the clock do, the send on display and the   *)
(* one that waits change only as Display allows: a send is presented, is   *)
(* parked in the slot or overwrites it, a theme is restyled in place, the  *)
(* end of a cycle presents what waits (handle_send, retheme, tick).        *)
THEOREM StepsAreDisplays == Spec => Abstract!Spec
<1>1. Init => Abstract!Init
  <2> SUFFICES ASSUME Init PROVE Abstract!Init
    OBVIOUS
  <2>1. st.cycle = None /\ st.pending = None /\ chan = <<>>
    BY DEF Init, Idle
  <2>2. OnDisplay = None /\ ~(st.cycle # None /\ Phase(st) = "Done")
    BY <2>1 DEF OnDisplay
  <2>3. QED
    BY <2>1, <2>2 DEF Abstract!Init
<1>2. IInv /\ [Next]_vars => [Abstract!Next]_Abstract!vars
  BY StepSteps
<1>3. QED
  BY <1>1, <1>2, Invariance, PTL DEF Spec, Abstract!Spec
=============================================================================
