------------------------------- MODULE Sysfs -------------------------------
(***************************************************************************)
(* A listener of one sysfs attribute: the backlight, the keyboard's        *)
(* backlight or the power profile.  Each waits for its device, watches the *)
(* attribute with inotify and udev, which may say nothing, and reads it    *)
(* again at every poll interval whatever they say.  What it sends is       *)
(* decided by a ChangeFilter, whose first value is never announced.        *)
(*                                                                         *)
(* Time is in units of the debounce interval.                              *)
(***************************************************************************)
EXTENDS Integers, FiniteSets

CONSTANTS Kinds,         \* of {"backlight", "keyboard", "profile"}
          Devices,       \* numbers in the order of their paths
          Levels,        \* what the attribute can hold
          MaxLevel,      \* max_brightness
          PollInterval,  \* --poll-interval
          MaxChanges     \* changes of the attribute (a bound)

Debounce == 1
Rescan == PollInterval     \* 60 s in the code: only that it comes
ASSUME SysfsAssumption ==
  /\ Devices \subseteq Nat \ {0} /\ Levels \subseteq Nat
  /\ MaxLevel \in Nat /\ PollInterval \in Nat /\ PollInterval >= Debounce

Error == -1                \* an attribute that cannot be read
Unread == -2
Nothing == [of |-> "nothing", value |-> 0, max |-> 0]

VARIABLES
  kind,       \* which listener this is
  present,    \* the devices there are
  attribute,  \* per device: its level, or Error
  quiet,      \* for how long the attribute has been as it is
  changes,    \* how often it has changed
  wakes,      \* whether the channel of the watchers has a message
  listener,   \* the listener's thread
  shown       \* the last OSD it has asked for

sysfsVars == <<kind, present, attribute, quiet, changes, wakes, listener, shown>>

\* ChangeFilter::changed: whether to announce, and what to remember.
Changed(last, value) == last # Unread /\ last # value

\* The listener waits for a device ("scan"), for a message ("wait", at most
\* `left`), or lets a burst go by ("debounce").
Scanning == [at |-> "scan", left |-> 0, device |-> 0, max |-> 0, last |-> Unread,
             first |-> Unread]

SysfsInit == /\ kind \in Kinds
             /\ present \in SUBSET Devices
             /\ attribute \in [Devices -> Levels]
             /\ quiet = 0 /\ changes = 0
             /\ wakes = FALSE
             /\ listener = Scanning
             /\ shown = Nothing

-----------------------------------------------------------------------------
(* The hardware.                                                           *)

Plug(d) == /\ d \notin present
           /\ present' = present \cup {d}
           /\ UNCHANGED <<kind, attribute, quiet, changes, wakes, listener, shown>>

\* The attribute changes, or cannot be read for a while.  inotify and udev
\* tell the listener of its own device, or nobody does.
Turn(d, level) ==
  /\ changes < MaxChanges /\ attribute[d] # level
  /\ attribute' = [attribute EXCEPT ![d] = level]
  /\ changes' = changes + 1
  /\ quiet' = IF d = listener.device THEN 0 ELSE quiet
  /\ wakes' \in {wakes, wakes \/ (listener.at # "scan" /\ d = listener.device)}
  /\ UNCHANGED <<kind, present, listener, shown>>

-----------------------------------------------------------------------------
(* The listener.                                                           *)

\* discover_device of the backlight takes the first directory entry, in no order.
AnyDevice == present
\* all_keyboard_devices are sorted, and the first is taken.
FirstKeyboard == {d \in present : \A e \in present : d <= e}
\* The attribute of the platform, of which there is one.
Platform == {d \in present : \A e \in Devices : d <= e}

Found == CASE kind = "backlight" -> AnyDevice
           [] kind = "keyboard"  -> FirstKeyboard
           [] kind = "profile"   -> Platform

Began(d, max) == [Scanning EXCEPT !.at = "wait", !.left = PollInterval, !.device = d, !.max = max]
StartBacklight(d) == \E max \in {MaxLevel, 100} : listener' = Began(d, max)
StartKeyboard(d) == \E max \in {MaxLevel, 100} : listener' = Began(d, max)
StartProfile(d) == listener' = Began(d, 1)

\* wait_for_resource finds a device; its maximum is read, or 100 assumed; the
\* attribute is watched.
Find(d) ==
  /\ listener.at = "scan" /\ listener.left = 0 /\ d \in Found
  /\ \/ kind = "backlight" /\ StartBacklight(d)
     \/ kind = "keyboard" /\ StartKeyboard(d)
     \/ kind = "profile" /\ StartProfile(d)
  /\ quiet' = 0
  /\ UNCHANGED <<kind, present, attribute, changes, wakes, shown>>

FindNothing ==
  /\ listener.at = "scan" /\ listener.left = 0 /\ Found = {}
  /\ listener' = [listener EXCEPT !.left = Rescan]
  /\ UNCHANGED <<kind, present, attribute, quiet, changes, wakes, shown>>

BacklightOSD(level) == [of |-> "brightness", value |-> level, max |-> listener.max]
KeyboardOSD(level) == [of |-> "keyboard-backlight", value |-> level, max |-> listener.max]
\* The levels of a profile in hundredths: 25 is low-power, 40 quiet or cool,
\* 50 balanced or a name the listener does not know, 100 performance.
ProfileOSD(level) == [of |-> "power-profile", max |-> 100,
                      value |-> CASE level = 0 -> 25 [] level = 1 -> 40 [] level = 2 -> 50
                                  [] OTHER -> 100]

OSD(level) == CASE kind = "backlight" -> BacklightOSD(level)
                [] kind = "keyboard"  -> KeyboardOSD(level)
                [] kind = "profile"   -> ProfileOSD(level)

\* One pass after the wait: a value that cannot be read is skipped, one that
\* the filter lets through is sent; the filter keeps it even if that fails.
Announces(level) == Changed(listener.last, level)
Observe ==
  LET level == attribute[listener.device]
      again == [listener EXCEPT !.at = "wait", !.left = PollInterval]
  IN \/ level = Error /\ listener' = again /\ UNCHANGED shown
     \/ /\ level # Error
        /\ listener' = [again EXCEPT !.last = level,
                                      !.first = IF listener.last = Unread THEN level ELSE @]
        /\ shown' = IF Announces(level) THEN OSD(level) ELSE shown

\* recv gives a message: 40 ms for the rest of the burst, which is then drained.
Wake == /\ listener.at = "wait" /\ wakes
        /\ listener' = [listener EXCEPT !.at = "debounce", !.left = Debounce]
        /\ wakes' = FALSE
        /\ UNCHANGED <<kind, present, attribute, quiet, changes, shown>>

Burst == /\ listener.at = "debounce" /\ listener.left = 0
         /\ Observe
         /\ wakes' = FALSE
         /\ UNCHANGED <<kind, present, attribute, quiet, changes>>

Poll_Once ==                  \* mutant: the attribute is read for its first value only
  /\ listener.at = "wait" /\ listener.left = 0 /\ ~wakes
  /\ IF listener.last = Unread THEN Observe
     ELSE listener' = [listener EXCEPT !.left = PollInterval] /\ UNCHANGED shown
  /\ UNCHANGED <<kind, present, attribute, quiet, changes, wakes>>
\* recv times out.
Poll == /\ listener.at = "wait" /\ listener.left = 0 /\ ~wakes
        /\ Observe
        /\ UNCHANGED <<kind, present, attribute, quiet, changes, wakes>>

\* Time passes while the thread sleeps.
SysfsBusy == listener.left = 0 \/ (listener.at = "wait" /\ wakes)
SysfsElapse ==
  /\ ~SysfsBusy
  /\ listener' = [listener EXCEPT !.left = @ - 1]
  /\ quiet' = IF quiet > PollInterval + Debounce THEN quiet ELSE quiet + 1
  /\ UNCHANGED <<kind, present, attribute, changes, wakes, shown>>

SysfsNext ==
  \/ \E d \in Devices : Plug(d) \/ Find(d) \/ (\E level \in Levels \cup {Error} : Turn(d, level))
  \/ FindNothing \/ Wake \/ Burst \/ Poll \/ SysfsElapse

-----------------------------------------------------------------------------
\* Whatever inotify and udev have kept to themselves and however changes fell
\* between reads and failed reads: once the attribute has been quiet for more
\* than a poll interval, the last OSD asked for shows its value, and none has
\* been asked for only if the value is the first one read.
SettledIsShown ==
  LET now == attribute[listener.device]
  IN listener.at # "scan" /\ quiet > PollInterval /\ now # Error
       => /\ listener.last = now
          /\ shown = OSD(now) \/ (shown = Nothing /\ now = listener.first)
=============================================================================
