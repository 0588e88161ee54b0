------------------------------- MODULE Display -------------------------------
(***************************************************************************)
(* What the on-screen display promises, without layers, frames or clocks.  *)
(* Commands are taken in the order they were accepted.  One send is on     *)
(* display at a time; it stays until its time is over, unless a newer send *)
(* of its pair continues it or a preempting send replaces it.  Any other   *)
(* send waits in a slot that holds one, where a later one overwrites it.   *)
(* Surface implements this specification.                                  *)
(***************************************************************************)
EXTENDS Integers, Sequences

CONSTANTS Anonymous, None

VARIABLES
  queue,    \* accepted commands
  display,  \* the send on display, or None
  over,     \* its time is over
  slot      \* the send that waits, or None

vars == <<queue, display, over, slot>>

Shown(m) == [pair |-> m.pair, stamp |-> m.stamp, theme |-> m.theme]

Init ==
  /\ queue = <<>>
  /\ display = None
  /\ over = FALSE
  /\ slot = None

(* The channel admits one more command.                                    *)
Accept ==
  /\ Len(queue') = Len(queue) + 1
  /\ SubSeq(queue', 1, Len(queue)) = queue
  /\ UNCHANGED <<display, over, slot>>

Continues(m) == m.pair \notin Anonymous /\ m.pair = display.pair

MayPresent(m) == display = None \/ over \/ Continues(m) \/ m.preempt

(* A send may ask for no time at all: then it is over as soon as it shows. *)
Present ==
  /\ queue # <<>> /\ Head(queue).kind = "render"
  /\ MayPresent(Head(queue))
  /\ display' = Shown(Head(queue))
  /\ over' \in BOOLEAN
  /\ queue' = Tail(queue)
  /\ UNCHANGED slot

Park ==
  /\ queue # <<>> /\ Head(queue).kind = "render"
  /\ ~MayPresent(Head(queue))
  /\ slot' = Head(queue)
  /\ queue' = Tail(queue)
  /\ UNCHANGED <<display, over>>

ChangeTheme ==
  /\ queue # <<>> /\ Head(queue).kind = "retheme"
  /\ display' = IF display = None THEN None
                ELSE [display EXCEPT !.theme = Head(queue).theme]
  /\ queue' = Tail(queue)
  /\ UNCHANGED <<over, slot>>

Take == Present \/ Park \/ ChangeTheme

Expire ==
  /\ display # None
  /\ over' = TRUE
  /\ UNCHANGED <<queue, display, slot>>

Finish ==
  /\ over
  /\ display' = IF slot = None THEN None ELSE Shown(slot)
  /\ slot' = None
  /\ over' \in BOOLEAN /\ (slot = None => ~over')
  /\ UNCHANGED queue

Next == Accept \/ Take \/ Expire \/ Finish

Spec == Init /\ [][Next]_vars

FairSpec == Spec /\ WF_vars(Take) /\ WF_vars(Finish)

=============================================================================
