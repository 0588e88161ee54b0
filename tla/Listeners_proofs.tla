-------------------------- MODULE Listeners_proofs --------------------------
(***************************************************************************)
(* Proofs about the listeners: what a sysfs attribute is shown as once it  *)
(* has settled, which lines of a FIFO become events, what the user has     *)
(* been told of the batteries, and what the PipeWire listener knows of the *)
(* audio server once it has read its events.                               *)
(***************************************************************************)
EXTENDS Listeners, FiniteSetTheorems, SequenceTheorems, WellFoundedInduction, TLAPS

\* A truth value as a term, for lemmas about what a flag is.
Mark(b) == IF b THEN "yes" ELSE "no"

-----------------------------------------------------------------------------
(* The listeners of one sysfs attribute.                                   *)

Listener == [at : {"scan", "wait", "debounce"}, left : Nat, device : Nat, max : Int,
             last : Int, first : Int]

SysfsOK ==
  /\ attribute \in [Devices -> Nat \cup {Error}]
  /\ quiet \in Nat
  /\ wakes \in BOOLEAN
  /\ listener \in Listener
  /\ listener.at # "scan" => listener.device \in Devices

(* A change of the attribute is read within a poll interval, or within a   *)
(* debounce interval of the message that tells of it.                      *)
InTime ==
  /\ listener.at = "wait" /\ wakes => quiet = 0
  /\ listener.at = "wait" => listener.left <= PollInterval
  /\ listener.at = "debounce" => quiet + listener.left <= Debounce
  /\ listener.at = "wait" =>
       \/ attribute[listener.device] = Error
       \/ listener.last = attribute[listener.device]
       \/ quiet + listener.left <= PollInterval

(* What is shown is what was read last, unless only one value was read.    *)
LastShown ==
  /\ listener.at = "scan" => listener.last = Unread
  /\ listener.last = Unread => shown = Nothing
  /\ listener.last # Unread =>
       shown = OSD(listener.last) \/ (shown = Nothing /\ listener.last = listener.first)

SysfsInv == SysfsOK /\ InTime /\ LastShown

LEMMA NewListener ==
  ASSUME NEW a \in {"scan", "wait", "debounce"}, NEW l \in Nat, NEW d \in Nat,
         NEW m \in Int, NEW v \in Int, NEW f \in Int
  PROVE  [at |-> a, left |-> l, device |-> d, max |-> m, last |-> v, first |-> f] \in Listener
BY DEF Listener

LEMMA SysfsInitial == SysfsInit => SysfsInv
<1> SUFFICES ASSUME SysfsInit PROVE SysfsInv
  OBVIOUS
<1>1. attribute \in [Devices -> Nat \cup {Error}]
  <2>1. attribute \in [Devices -> Levels] /\ Levels \subseteq Nat
    BY SysfsAssumption DEF SysfsInit, SysfsAssumption
  <2>2. QED
    BY <2>1
<1>2. listener = Scanning /\ quiet = 0 /\ wakes = FALSE /\ shown = Nothing
  BY DEF SysfsInit
<1>3. /\ Scanning \in Listener
      /\ Scanning.at = "scan" /\ Scanning.last = Unread
  BY DEF Scanning, Listener, Unread
<1>4. SysfsOK
  BY <1>1, <1>2, <1>3 DEF SysfsOK
<1>5. QED
  BY <1>2, <1>3, <1>4 DEF SysfsInv, InTime, LastShown

(* Reading the attribute catches up with it.                               *)
LEMMA Observes ==
  ASSUME SysfsInv, listener.at \in {"wait", "debounce"}, Observe,
         UNCHANGED <<kind, attribute, quiet>>, wakes' = FALSE
  PROVE  SysfsInv'
<1> DEFINE level == attribute[listener.device]
<1>1. /\ listener.device \in Devices /\ level \in Int /\ level # Unread /\ quiet \in Nat
      /\ PollInterval \in Nat
  <2>1. /\ listener.device \in Devices /\ attribute \in [Devices -> Nat \cup {Error}]
        /\ quiet \in Nat
    BY DEF SysfsInv, SysfsOK
  <2>2. level \in Nat \cup {Error}
    BY <2>1
  <2>3. QED
    BY <2>1, <2>2, SysfsAssumption DEF SysfsAssumption, Error, Unread
<1>2. PICK again : again = [listener EXCEPT !.at = "wait", !.left = PollInterval]
  OBVIOUS
<1>3. /\ again \in Listener /\ again.at = "wait" /\ again.left = PollInterval
      /\ again.device = listener.device /\ again.max = listener.max
      /\ again.last = listener.last /\ again.first = listener.first
  BY <1>1, <1>2 DEF Listener, SysfsInv, SysfsOK
<1>4. CASE level = Error /\ listener' = again /\ UNCHANGED shown
  <2>1. SysfsOK'
    BY <1>1, <1>3, <1>4 DEF SysfsInv, SysfsOK
  <2>2. InTime'
    BY <1>1, <1>3, <1>4 DEF InTime
  <2>3. \A v : OSD(v)' = OSD(v)
    BY <1>3, <1>4 DEF OSD, BacklightOSD, KeyboardOSD, ProfileOSD
  <2>4. LastShown'
    BY <1>3, <1>4, <2>3 DEF SysfsInv, LastShown
  <2>5. QED
    BY <2>1, <2>2, <2>4 DEF SysfsInv
<1>5. CASE /\ level # Error
           /\ listener' = [again EXCEPT !.last = level,
                             !.first = IF listener.last = Unread THEN level ELSE @]
           /\ shown' = IF Announces(level) THEN OSD(level) ELSE shown
  <2>1. PICK f : f = IF listener.last = Unread THEN level ELSE listener.first
    OBVIOUS
  <2>2. f \in Int
    BY <1>1, <2>1 DEF SysfsInv, SysfsOK, Listener
  <2>3. listener' = [again EXCEPT !.last = level, !.first = f]
    BY <1>3, <1>5, <2>1
  <2>4. /\ listener' \in Listener /\ listener'.at = "wait" /\ listener'.left = PollInterval
        /\ listener'.device = listener.device /\ listener'.max = listener.max
        /\ listener'.last = level /\ listener'.first = f
    BY <1>1, <1>3, <2>2, <2>3 DEF Listener
  <2>5. SysfsOK'
    BY <1>1, <2>4 DEF SysfsInv, SysfsOK
  <2>6. InTime'
    BY <1>1, <1>3, <2>3, <2>4 DEF InTime
  <2>7. \A v : OSD(v)' = OSD(v)
    BY <2>4 DEF OSD, BacklightOSD, KeyboardOSD, ProfileOSD
  <2>8. LastShown'
    BY <1>1, <1>5, <2>1, <2>4, <2>7 DEF SysfsInv, LastShown, Announces, Changed
  <2>9. QED
    BY <2>5, <2>6, <2>8 DEF SysfsInv
<1>6. QED
  BY <1>2, <1>4, <1>5 DEF Observe

(* What the hardware does.                                                 *)
LEMMA TurnKeeps ==
  ASSUME SysfsInv, NEW d \in Devices, NEW level \in Levels \cup {Error}, Turn(d, level)
  PROVE  SysfsInv'
<1>1. /\ attribute' = [attribute EXCEPT ![d] = level]
      /\ quiet' = IF d = listener.device THEN 0 ELSE quiet
      /\ wakes' \in {wakes, wakes \/ (listener.at # "scan" /\ d = listener.device)}
      /\ UNCHANGED <<kind, listener, shown>>
  BY DEF Turn
<1>2. /\ attribute \in [Devices -> Nat \cup {Error}] /\ quiet \in Nat
      /\ wakes \in BOOLEAN /\ listener \in Listener
      /\ listener.at # "scan" => listener.device \in Devices
  BY DEF SysfsInv, SysfsOK
<1>3. level \in Nat \cup {Error}
  BY SysfsAssumption DEF SysfsAssumption
<1>4. /\ attribute' \in [Devices -> Nat \cup {Error}] /\ quiet' \in Nat
      /\ wakes' \in BOOLEAN
  BY <1>1, <1>2, <1>3
<1>5. SysfsOK'
  BY <1>1, <1>2, <1>4 DEF SysfsOK
<1>6. listener.left \in Nat /\ PollInterval \in Nat
  BY <1>2, SysfsAssumption DEF SysfsAssumption, Listener
<1>7. InTime'
  <2>1. CASE d = listener.device
    <3>1. quiet' = 0
      BY <1>1, <2>1
    <3>2. listener.at = "wait" => listener.left <= PollInterval
      BY DEF SysfsInv, InTime
    <3>3. listener.at = "debounce" => listener.left <= Debounce
      BY <1>2, <1>6 DEF SysfsInv, InTime, Debounce
    <3>4. QED
      BY <1>1, <1>2, <1>6, <3>1, <3>2, <3>3 DEF InTime, Debounce
  <2>2. CASE d # listener.device
    <3>1. quiet' = quiet /\ wakes' = wakes
      BY <1>1, <1>2, <2>2
    <3>2. listener.at # "scan" => attribute'[listener.device] = attribute[listener.device]
      BY <1>1, <1>2, <2>2
    <3>3. QED
      BY <1>1, <3>1, <3>2 DEF SysfsInv, InTime
  <2>3. QED
    BY <2>1, <2>2
<1>8. \A v : OSD(v)' = OSD(v)
  BY <1>1 DEF OSD, BacklightOSD, KeyboardOSD, ProfileOSD
<1>9. LastShown'
  BY <1>1, <1>8 DEF SysfsInv, LastShown
<1>10. QED
  BY <1>5, <1>7, <1>9 DEF SysfsInv

(* The listener finds its device.                                          *)
LEMMA FindKeeps ==
  ASSUME SysfsInv, NEW d \in Devices, Find(d)
  PROVE  SysfsInv'
<1>1. PICK max \in {MaxLevel, 100, 1} : listener' = Began(d, max)
  BY DEF Find, StartBacklight, StartKeyboard, StartProfile
<1>2. listener.at = "scan" /\ quiet' = 0 /\ UNCHANGED <<attribute, wakes, shown>>
  BY DEF Find
<1>3. /\ listener'.at = "wait" /\ listener'.left = PollInterval /\ listener'.device = d
      /\ listener'.last = Unread /\ listener' \in Listener
  <2>1. /\ listener' = [Scanning EXCEPT !.at = "wait", !.left = PollInterval, !.device = d,
                                        !.max = max]
        /\ max \in Int /\ PollInterval \in Nat /\ d \in Nat
    BY <1>1, SysfsAssumption DEF Began, SysfsAssumption
  <2>2. listener' = [at |-> "wait", left |-> PollInterval, device |-> d, max |-> max,
                     last |-> Unread, first |-> Unread]
    BY <2>1 DEF Scanning
  <2>3. Unread \in Int
    BY DEF Unread
  <2>4. /\ listener'.at = "wait" /\ listener'.left = PollInterval /\ listener'.device = d
        /\ listener'.last = Unread
    BY <2>2
  <2>5. listener' \in Listener
    <3>1. "wait" \in {"scan", "wait", "debounce"}
      OBVIOUS
    <3>2. PollInterval \in Nat /\ d \in Nat /\ max \in Int
      BY <2>1
    <3>3. [at |-> "wait", left |-> PollInterval, device |-> d, max |-> max,
           last |-> Unread, first |-> Unread] \in Listener
      BY <2>3, <3>1, <3>2, NewListener, Zenon
    <3>4. QED
      BY <2>2, <3>3, Zenon
  <2>6. QED
    BY <2>4, <2>5
<1>4. SysfsOK'
  BY <1>2, <1>3 DEF SysfsInv, SysfsOK
<1>5. InTime'
  BY <1>2, <1>3, SysfsAssumption DEF SysfsInv, InTime, SysfsAssumption
<1>6. LastShown'
  BY <1>2, <1>3 DEF SysfsInv, LastShown
<1>7. QED
  BY <1>4, <1>5, <1>6 DEF SysfsInv

(* Time passes.                                                            *)
LEMMA TimeKeeps ==
  ASSUME SysfsInv, SysfsElapse
  PROVE  SysfsInv'
<1>1. /\ listener' = [listener EXCEPT !.left = @ - 1]
      /\ listener.left # 0 /\ ~(listener.at = "wait" /\ wakes)
      /\ quiet' = IF quiet > PollInterval + Debounce THEN quiet ELSE quiet + 1
      /\ UNCHANGED <<kind, attribute, wakes, shown>>
  BY DEF SysfsElapse, SysfsBusy
<1>2. listener \in Listener /\ quiet \in Nat /\ listener.left \in Nat
  BY DEF SysfsInv, SysfsOK, Listener
<1>3. /\ listener' \in Listener /\ listener'.left = listener.left - 1
      /\ listener'.at = listener.at /\ listener'.device = listener.device
      /\ listener'.max = listener.max /\ listener'.last = listener.last
      /\ listener'.first = listener.first
  BY <1>1, <1>2 DEF Listener
<1>4. quiet' \in Nat /\ quiet' <= quiet + 1 /\ PollInterval \in Nat
  BY <1>1, <1>2, SysfsAssumption DEF SysfsAssumption, Debounce
<1>5. SysfsOK'
  BY <1>1, <1>3, <1>4 DEF SysfsInv, SysfsOK
<1>6. InTime'
  <2>1. PICK l \in Nat : l = listener.left
    BY <1>2
  <2>2. PICK q \in Nat : q = quiet
    BY <1>2
  <2>3. listener'.left = l - 1 /\ l - 1 <= l /\ \A m \in Nat : q + l <= m => quiet' + (l - 1) <= m
    BY <1>2, <1>3, <1>4, <2>1, <2>2
  <2>4. listener.at = "wait" => listener'.left <= PollInterval
    BY <1>2, <1>3, <1>4 DEF SysfsInv, InTime
  <2>5. listener.at = "debounce" => quiet' + listener'.left <= Debounce
    BY <2>1, <2>2, <2>3 DEF SysfsInv, InTime, Debounce
  <2>6. listener.at = "wait" =>
          \/ attribute[listener.device] = Error
          \/ listener.last = attribute[listener.device]
          \/ quiet' + listener'.left <= PollInterval
    BY <1>4, <2>1, <2>2, <2>3 DEF SysfsInv, InTime
  <2>7. QED
    BY <1>1, <1>3, <2>4, <2>5, <2>6 DEF InTime
<1>7. \A v : OSD(v)' = OSD(v)
  BY <1>1, <1>3 DEF OSD, BacklightOSD, KeyboardOSD, ProfileOSD
<1>8. LastShown'
  BY <1>1, <1>3, <1>7 DEF SysfsInv, LastShown
<1>9. QED
  BY <1>5, <1>6, <1>8 DEF SysfsInv

(* A message of the watchers.                                              *)
LEMMA WakeKeeps ==
  ASSUME SysfsInv, Wake
  PROVE  SysfsInv'
<1>1. /\ listener.at = "wait" /\ wakes /\ wakes' = FALSE
      /\ listener' = [listener EXCEPT !.at = "debounce", !.left = Debounce]
      /\ UNCHANGED <<kind, attribute, quiet, shown>>
  BY DEF Wake
<1>2. /\ listener' \in Listener /\ listener'.left = Debounce
      /\ listener'.at = "debounce" /\ listener'.device = listener.device
      /\ listener'.max = listener.max /\ listener'.last = listener.last
      /\ listener'.first = listener.first
  BY <1>1 DEF SysfsInv, SysfsOK, Listener, Debounce
<1>3. SysfsOK'
  BY <1>1, <1>2 DEF SysfsInv, SysfsOK
<1>4. InTime'
  BY <1>1, <1>2 DEF SysfsInv, InTime, Debounce
<1>5. \A v : OSD(v)' = OSD(v)
  BY <1>1, <1>2 DEF OSD, BacklightOSD, KeyboardOSD, ProfileOSD
<1>6. LastShown'
  BY <1>1, <1>2, <1>5 DEF SysfsInv, LastShown
<1>7. QED
  BY <1>3, <1>4, <1>6 DEF SysfsInv

(* What changes nothing the invariant is about.                            *)
LEMMA SysfsStutter ==
  ASSUME SysfsInv, UNCHANGED <<kind, attribute, quiet, wakes, listener, shown>>
  PROVE  SysfsInv'
<1>1. \A v : OSD(v)' = OSD(v)
  BY DEF OSD, BacklightOSD, KeyboardOSD, ProfileOSD
<1>2. QED
  BY <1>1 DEF SysfsInv, SysfsOK, InTime, LastShown

LEMMA FindNothingKeeps ==
  ASSUME SysfsInv, FindNothing
  PROVE  SysfsInv'
<1>1. /\ listener.at = "scan" /\ listener' = [listener EXCEPT !.left = Rescan]
      /\ UNCHANGED <<kind, attribute, quiet, wakes, shown>>
  BY DEF FindNothing
<1>2. /\ listener' \in Listener /\ listener'.at = "scan"
      /\ listener'.max = listener.max /\ listener'.last = listener.last
      /\ listener'.first = listener.first
  BY <1>1, SysfsAssumption DEF SysfsInv, SysfsOK, Listener, Rescan, SysfsAssumption
<1>3. \A v : OSD(v)' = OSD(v)
  BY <1>1, <1>2 DEF OSD, BacklightOSD, KeyboardOSD, ProfileOSD
<1>4. QED
  BY <1>1, <1>2, <1>3 DEF SysfsInv, SysfsOK, InTime, LastShown

(* Every step of the listener and of what it watches.                      *)
LEMMA SysfsKeeps == SysfsInv /\ [SysfsNext]_sysfsVars => SysfsInv'
<1> SUFFICES ASSUME SysfsInv, [SysfsNext]_sysfsVars PROVE SysfsInv'
  OBVIOUS
<1>1. CASE \E d \in Devices : Plug(d)
  BY <1>1, SysfsStutter DEF Plug
<1>2. CASE \E d \in Devices : Find(d)
  BY <1>2, FindKeeps
<1>3. CASE \E d \in Devices, level \in Levels \cup {Error} : Turn(d, level)
  BY <1>3, TurnKeeps
<1>4. CASE FindNothing
  BY <1>4, FindNothingKeeps
<1>5. CASE Wake
  BY <1>5, WakeKeeps
<1>6. CASE Burst
  BY <1>6, Observes DEF Burst
<1>7. CASE Poll
  <2>1. wakes' = FALSE
    BY <1>7 DEF Poll, SysfsInv, SysfsOK
  <2>2. QED
    BY <1>7, <2>1, Observes DEF Poll
<1>8. CASE SysfsElapse
  BY <1>8, TimeKeeps
<1>9. CASE UNCHANGED sysfsVars
  BY <1>9, SysfsStutter DEF sysfsVars
<1>10. QED
  BY <1>1, <1>2, <1>3, <1>4, <1>5, <1>6, <1>7, <1>8, <1>9 DEF SysfsNext

(* Whatever inotify and udev have kept to themselves and however changes   *)
(* fell between reads and failed reads: once the attribute has been quiet  *)
(* for more than a poll interval, the last OSD asked for shows its value,  *)
(* and none has been asked for only if the value is the first one read.    *)
THEOREM SettledShown == Spec => []SettledIsShown
<1>1. Init => SysfsInv
  BY SysfsInitial DEF Init
<1>2. SysfsInv /\ [Next]_vars => SysfsInv'
  <2>1. [Next]_vars => [SysfsNext]_sysfsVars
    BY DEF Next, vars
  <2>2. QED
    BY <2>1, SysfsKeeps
<1>3. SysfsInv => SettledIsShown
  <2> SUFFICES ASSUME SysfsInv, listener.at # "scan", quiet > PollInterval,
                      attribute[listener.device] # Error
               PROVE  /\ listener.last = attribute[listener.device]
                      /\ \/ shown = OSD(attribute[listener.device])
                         \/ shown = Nothing /\ attribute[listener.device] = listener.first
    BY DEF SettledIsShown
  <2>1. /\ listener.at \in {"wait", "debounce"} /\ listener.left \in Nat
        /\ quiet \in Nat /\ PollInterval \in Nat /\ PollInterval >= 1
    BY SysfsAssumption DEF SysfsInv, SysfsOK, Listener, SysfsAssumption, Debounce
  <2>2. listener.at = "debounce" => FALSE
    BY <2>1 DEF SysfsInv, InTime, Debounce
  <2>3. listener.last = attribute[listener.device]
    BY <2>1, <2>2 DEF SysfsInv, InTime
  <2>4. attribute[listener.device] # Unread
    BY DEF SysfsInv, SysfsOK, Unread, Error
  <2>5. QED
    BY <2>3, <2>4 DEF SysfsInv, LastShown
<1>4. QED
  BY <1>1, <1>2, <1>3, PTL DEF Spec

-----------------------------------------------------------------------------
(* The listener in wob's place: ends of lines and the text between them.   *)

Byte == {Digit, Blank, Newline}
Got == Byte \cup {EOF, Fault}

\* s goes on from r.
Extends(r, s) == Len(r) <= Len(s) /\ \A i \in 1..Len(r) : s[i] = r[i]

(* A line begins in one place.                                             *)
LEMMA OneBeginning ==
  ASSUME NEW s \in Seq(Got), NEW i \in Nat, NEW k \in 1..i, NEW j \in 1..i,
         Begins(s, k, i), Begins(s, j, i)
  PROVE  j = k
<1>1. \A a, b \in 1..i : Begins(s, a, i) /\ Begins(s, b, i) => ~(a < b)
  <2> SUFFICES ASSUME NEW a \in 1..i, NEW b \in 1..i, Begins(s, a, i), Begins(s, b, i), a < b
               PROVE  FALSE
    OBVIOUS
  <2>1. b - 1 \in Ends(s)
    BY DEF Begins
  <2>2. b - 1 \in a..(i - 1)
    OBVIOUS
  <2>3. QED
    BY <2>1, <2>2 DEF Begins
<1>2. QED
  BY <1>1

(* The text of a line is what there is from its beginning.                 *)
LEMMA TextIs ==
  ASSUME NEW s \in Seq(Got), NEW i \in Nat, NEW k \in 1..i, Begins(s, k, i)
  PROVE  Text(s, i) = SubSeq(s, k, i - 1)
<1>1. PICK c : c = CHOOSE j \in 1..i : Begins(s, j, i)
  OBVIOUS
<1>2. c \in 1..i /\ Begins(s, c, i)
  BY <1>1
<1>3. c = k
  BY <1>2, OneBeginning
<1>4. QED
  BY <1>1, <1>3 DEF Text

(* What was read does not change: ends, beginnings and texts stay.         *)
LEMMA EndsStay ==
  ASSUME NEW r \in Seq(Got), NEW s \in Seq(Got), Extends(r, s), NEW i \in 1..Len(r)
  PROVE  i \in Ends(s) <=> i \in Ends(r)
  BY LenProperties DEF Extends, Ends

LEMMA BeginningsStay ==
  ASSUME NEW r \in Seq(Got), NEW s \in Seq(Got), Extends(r, s),
         NEW i \in 1..Len(r) + 1, NEW k \in 1..i
  PROVE  Begins(s, k, i) <=> Begins(r, k, i)
<1>1. PICK n : n = Len(r)
  OBVIOUS
<1>2. n \in Nat
  BY <1>1, LenProperties
<1>3. \A j \in 1..n : j \in Ends(s) <=> j \in Ends(r)
  BY <1>1, EndsStay
<1>4. \A j \in k..(i - 1) : j \in 1..n
  BY <1>1, <1>2
<1>5. k # 1 => k - 1 \in 1..n
  BY <1>1, <1>2
<1>6. QED
  BY <1>3, <1>4, <1>5 DEF Begins

LEMMA CutsStay ==
  ASSUME NEW r \in Seq(Got), NEW s \in Seq(Got), Extends(r, s),
         NEW k \in 1..Len(r) + 1, NEW m \in 0..Len(r)
  PROVE  SubSeq(s, k, m) = SubSeq(r, k, m)
<1>1. PICK n : n = Len(r)
  OBVIOUS
<1>2. n \in Nat /\ Len(s) \in Nat /\ n <= Len(s)
  BY <1>1, LenProperties DEF Extends
<1>3. \A i \in k..m : r[i] \in Got /\ s[i] = r[i]
  <2> SUFFICES ASSUME NEW i \in k..m PROVE r[i] \in Got /\ s[i] = r[i]
    OBVIOUS
  <2>1. i \in 1..Len(r)
    BY <1>1, <1>2
  <2>2. QED
    BY <2>1, ElementOfSeq DEF Extends
<1>4. k \in Int /\ m \in Int
  BY <1>1, <1>2
<1>5. PICK a, b : a = SubSeq(r, k, m) /\ b = SubSeq(s, k, m)
  OBVIOUS
<1>6. /\ a \in Seq(Got) /\ Len(a) = IF k <= m THEN m - k + 1 ELSE 0
      /\ \A i \in 1..(m - k + 1) : a[i] = r[k + i - 1]
  BY <1>3, <1>4, <1>5, SubSeqProperties
<1>7. /\ b \in Seq(Got) /\ Len(b) = IF k <= m THEN m - k + 1 ELSE 0
      /\ \A i \in 1..(m - k + 1) : b[i] = s[k + i - 1]
  BY <1>3, <1>4, <1>5, SubSeqProperties
<1>8. \A i \in 1..Len(a) : a[i] = b[i]
  <2> SUFFICES ASSUME NEW i \in 1..Len(a) PROVE a[i] = b[i]
    OBVIOUS
  <2>1. i \in 1..(m - k + 1) /\ k + i - 1 \in k..m
    BY <1>4, <1>6
  <2>2. QED
    BY <1>3, <1>6, <1>7, <2>1
<1>9. QED
  BY <1>5, <1>6, <1>7, <1>8, SeqEqual

\* Every line of s has a beginning.
Cut(s) == \A i \in Ends(s) : \E k \in 1..i : Begins(s, k, i)

LEMMA TextsStay ==
  ASSUME NEW r \in Seq(Got), NEW s \in Seq(Got), Extends(r, s), Cut(r), NEW i \in Ends(r)
  PROVE  Text(s, i) = Text(r, i)
<1>1. i \in 1..Len(r) /\ Len(r) \in Nat
  BY LenProperties DEF Ends
<1>2. PICK k \in 1..i : Begins(r, k, i)
  BY DEF Cut
<1>3. /\ i \in Nat /\ i \in 1..Len(r) + 1 /\ k \in 1..Len(r) + 1
      /\ i - 1 \in 0..Len(r)
  BY <1>1
<1>4. Begins(s, k, i)
  BY <1>2, <1>3, BeginningsStay
<1>5. SubSeq(s, k, i - 1) = SubSeq(r, k, i - 1)
  BY <1>3, CutsStay
<1>6. QED
  BY <1>2, <1>3, <1>4, <1>5, TextIs

(* Nothing but another end of line makes another line.                     *)
LEMMA LinesStay ==
  ASSUME NEW r \in Seq(Got), NEW s \in Seq(Got), Extends(r, s), Cut(r)
  PROVE  \A i \in Ends(r) : i \in LinesOf(s) <=> i \in LinesOf(r)
<1> SUFFICES ASSUME NEW i \in Ends(r) PROVE i \in LinesOf(s) <=> i \in LinesOf(r)
  OBVIOUS
<1>1. i \in Ends(s)
  <2>1. i \in 1..Len(r)
    BY LenProperties DEF Ends
  <2>2. QED
    BY <2>1, EndsStay
<1>2. Text(s, i) = Text(r, i)
  BY TextsStay
<1>3. s[i] = r[i]
  BY LenProperties DEF Extends, Ends
<1>4. QED
  BY <1>1, <1>2, <1>3 DEF LinesOf

LEMMA LinesAreFinite ==
  ASSUME NEW s \in Seq(Got)
  PROVE  IsFiniteSet(LinesOf(s)) /\ LinesOf(s) \subseteq Ends(s) /\ LinesOf(s) \subseteq Nat
<1>1. LinesOf(s) \subseteq Ends(s)
  BY DEF LinesOf
<1>2. Ends(s) \subseteq 1..Len(s) /\ Len(s) \in Nat
  BY LenProperties DEF Ends
<1>3. 1 \in Int /\ Len(s) \in Int
  BY <1>2
<1>4. IsFiniteSet(1..Len(s))
  BY <1>3, FS_Interval
<1>5. LinesOf(s) \in SUBSET (1..Len(s))
  BY <1>1, <1>2
<1>6. QED
  BY <1>1, <1>2, <1>4, <1>5, FS_Subset

\* The events are the lines.
Tally(s, made) ==
  /\ Len(made) = Cardinality(LinesOf(s))
  /\ \A i \in LinesOf(s) :
       made[Cardinality({j \in LinesOf(s) : j <= i})] = Text(s, i)

LEMMA TallyStays ==
  ASSUME NEW r \in Seq(Got), NEW s \in Seq(Got), Extends(r, s), Cut(r), Ends(s) = Ends(r),
         NEW made, Tally(r, made)
  PROVE  Cut(s) /\ Tally(s, made)
<1>1. LinesOf(s) = LinesOf(r)
  BY LinesStay, LinesAreFinite
<1>2. \A i \in LinesOf(r) : Text(s, i) = Text(r, i)
  BY TextsStay, LinesAreFinite
<1>3. Tally(s, made)
  BY <1>1, <1>2 DEF Tally
<1>4. Cut(s)
  <2> SUFFICES ASSUME NEW i \in Ends(r) PROVE \E k \in 1..i : Begins(s, k, i)
    BY DEF Cut
  <2>1. i \in 1..Len(r) + 1
    BY LenProperties DEF Ends
  <2>2. QED
    BY <2>1, BeginningsStay DEF Cut
<1>5. QED
  BY <1>3, <1>4

\* What the listener holds of the text from k up to e, which is not in it.
Keeping(line, oversized, s, k, e) ==
  IF oversized THEN line = <<>> /\ e - k > MaxLineBytes
  ELSE line = SubSeq(s, k, e - 1) /\ e - k <= MaxLineBytes

Says(b, line, oversized) == b # Fault /\ ~oversized /\ Contains(line, Digit)

\* then is what the line that b ends, if it is one, makes of the events made.
Tries(made, b, line, oversized, then) ==
  then = IF Says(b, line, oversized) THEN Append(made, line) ELSE made

\* p follows the first n of s.
Continues(p, s, n) == n + Len(p) <= Len(s) /\ \A i \in 1..Len(p) : s[n + i] = p[i]

(* An end of line makes the line it ends, or none.                         *)
LEMMA EndMakesLine ==
  ASSUME NEW s \in Seq(Got), NEW e \in Ends(s), NEW k \in 1..e, Begins(s, k, e),
         NEW line, NEW oversized \in BOOLEAN, Keeping(line, oversized, s, k, e)
  PROVE  /\ e \in LinesOf(s) <=> Says(s[e], line, oversized)
         /\ Says(s[e], line, oversized) => Text(s, e) = line
<1>1. e \in Nat /\ e \in 1..Len(s) /\ Len(s) \in Nat
  BY LenProperties DEF Ends
<1>2. Text(s, e) = SubSeq(s, k, e - 1)
  BY <1>1, TextIs
<1>3. k \in Int /\ e - 1 \in Int
  BY <1>1
<1>4. \A i \in k..(e - 1) : s[i] \in Got
  BY <1>1, ElementOfSeq
<1>5. Len(SubSeq(s, k, e - 1)) = IF k <= e - 1 THEN (e - 1) - k + 1 ELSE 0
  BY <1>3, <1>4, SubSeqProperties
<1>6. Len(Text(s, e)) = e - k
  BY <1>1, <1>2, <1>5
<1>7. CASE oversized
  <2>1. e - k > MaxLineBytes
    BY <1>7 DEF Keeping
  <2>2. ~(e - k <= MaxLineBytes)
    BY <2>1, <1>1, WobAssumption DEF WobAssumption
  <2>3. QED
    BY <1>6, <1>7, <2>2 DEF LinesOf, Says
<1>8. CASE ~oversized
  BY <1>2, <1>6, <1>8 DEF LinesOf, Says, Keeping
<1>9. QED
  BY <1>7, <1>8

\* s has one end of line more than r, and it is e.
NewEnd(r, s, e) == e > Len(r) /\ Ends(s) = Ends(r) \cup {e}

LEMMA TallyGrows ==
  ASSUME NEW r \in Seq(Got), NEW s \in Seq(Got), Extends(r, s), Cut(r),
         NEW e \in Nat, NewEnd(r, s, e),
         NEW k \in 1..e, Begins(s, k, e),
         NEW line \in Seq(Byte), NEW oversized \in BOOLEAN, Keeping(line, oversized, s, k, e),
         NEW made \in Seq(Seq(Byte)), NEW then,
         Tries(made, s[e], line, oversized, then), Tally(r, made)
  PROVE  Cut(s) /\ Tally(s, then)
<1>a. e > Len(r) /\ Ends(s) = Ends(r) \cup {e}
  BY DEF NewEnd
<1>1. \A i \in Ends(r) : i \in Nat /\ i < e /\ i \in 1..Len(r) + 1
  BY <1>a, LenProperties DEF Ends
<1>2. Cut(s)
  <2>1. ASSUME NEW i \in Ends(r) PROVE \E j \in 1..i : Begins(s, j, i)
    BY <1>1, BeginningsStay DEF Cut
  <2>2. QED
    BY <1>a, <2>1 DEF Cut
<1>3. \A i \in Ends(r) : i \in LinesOf(s) <=> i \in LinesOf(r)
  BY LinesStay
<1>4. \A i \in LinesOf(r) : Text(s, i) = Text(r, i)
  BY TextsStay, LinesAreFinite
<1>5. PICK old, all : old = LinesOf(r) /\ all = LinesOf(s)
  OBVIOUS
<1>6. /\ IsFiniteSet(old) /\ old \subseteq Ends(r) /\ old \subseteq Nat
      /\ IsFiniteSet(all) /\ all \subseteq Ends(r) \cup {e}
  BY <1>5, <1>a, LinesAreFinite
<1>7. /\ Len(made) = Cardinality(old)
      /\ \A i \in old : made[Cardinality({j \in old : j <= i})] = Text(s, i)
  BY <1>4, <1>5 DEF Tally
<1>8. e \in all <=> Says(s[e], line, oversized)
  BY <1>5, <1>a, EndMakesLine
<1>0. e \notin Ends(r) /\ \A i \in Ends(r) : i \in all <=> i \in old
  BY <1>1, <1>3, <1>5
<1>9. CASE ~Says(s[e], line, oversized)
  <2>1. \A i : i \in all <=> i \in old
    BY <1>0, <1>6, <1>8, <1>9, Zenon
  <2>3. all = old
    BY <2>1, Zenon
  <2>2. QED
    BY <1>2, <1>5, <1>7, <1>9, <2>3 DEF Tally, Tries
<1>10. CASE Says(s[e], line, oversized)
  <2>1. all = old \cup {e} /\ e \notin old
    <3>1. e \notin old /\ \A i : i \in all <=> i \in old \/ i = e
      BY <1>0, <1>6, <1>8, <1>10, Zenon
    <3>2. QED
      BY <3>1
  <2>2. PICK n : n = Cardinality(old)
    OBVIOUS
  <2>3. n \in Nat /\ Cardinality(all) = n + 1
    BY <1>6, <2>1, <2>2, FS_AddElement, FS_CardinalityType
  <2>4. /\ Len(then) = n + 1
        /\ \A i \in 1..n : then[i] = made[i]
        /\ then[n + 1] = line
    BY <1>7, <1>10, <2>2, <2>3, AppendProperties DEF Tries
  <2>5. ASSUME NEW i \in old
        PROVE  then[Cardinality({j \in all : j <= i})] = Text(s, i)
    <3>1. PICK c : c = {j \in old : j <= i}
      OBVIOUS
    <3>2. {j \in all : j <= i} = c
      BY <1>1, <1>6, <2>1, <3>1
    <3>3. c \in SUBSET old /\ i \in c
      BY <1>6, <3>1
    <3>4. IsFiniteSet(c) /\ Cardinality(c) <= n
      BY <1>6, <2>2, <3>3, FS_Subset
    <3>5. Cardinality(c) \in Nat /\ Cardinality(c) # 0
      BY <3>3, <3>4, FS_CardinalityType, FS_EmptySet
    <3>6. Cardinality(c) \in 1..n
      BY <2>3, <3>4, <3>5
    <3>7. QED
      BY <1>7, <2>4, <3>1, <3>2, <3>6
  <2>6. then[Cardinality({j \in all : j <= e})] = Text(s, e)
    <3>0. \A j \in all : j <= e
      BY <1>1, <1>6
    <3>1. {j \in all : j <= e} = all
      BY <3>0, Zenon
    <3>2. Text(s, e) = line
      BY <1>10, <1>a, EndMakesLine
    <3>3. QED
      BY <2>3, <2>4, <3>1, <3>2
  <2>7. QED
    BY <1>2, <1>5, <2>1, <2>3, <2>4, <2>5, <2>6 DEF Tally
<1>11. QED
  BY <1>9, <1>10

(* What SubSeq cuts out.                                                   *)
LEMMA Piece ==
  ASSUME NEW s \in Seq(Got), NEW p \in Nat, NEW k \in 1..p + 1, p <= Len(s),
         NEW b, b = SubSeq(s, k, p)
  PROVE  b \in Seq(Got) /\ Len(b) = p + 1 - k /\ \A i \in 1..Len(b) : b[i] = s[k + i - 1]
<1>1. Len(s) \in Nat /\ k \in Int /\ p \in Int
  BY LenProperties
<1>2. \A i \in k..p : s[i] \in Got
  BY <1>1, ElementOfSeq
<1>3. /\ b \in Seq(Got) /\ Len(b) = IF k <= p THEN p - k + 1 ELSE 0
      /\ \A i \in 1..(p - k + 1) : b[i] = s[k + i - 1]
  BY <1>1, <1>2, SubSeqProperties
<1>4. QED
  BY <1>1, <1>3

(* A part without an end of line is taken or makes the line too long.      *)
LEMMA TakesHolds ==
  ASSUME NEW s \in Seq(Got), NEW n \in Nat, NEW e, NEW k \in 1..e, e = n + 1,
         NEW line \in Seq(Byte), NEW oversized \in BOOLEAN,
         Keeping(line, oversized, s, k, e),
         NEW part \in Seq(Byte), Continues(part, s, n), NEW f, f = n + Len(part) + 1,
         NEW took, took = Takes(line, oversized, part)
  PROVE  /\ took.line \in Seq(Byte) /\ took.oversized \in BOOLEAN
         /\ Keeping(took.line, took.oversized, s, k, f)
<1>0. PICK m : m = Len(part)
  OBVIOUS
<1>10. m \in Nat /\ k \in 1..n + 1 /\ f = n + m + 1 /\ Keeping(line, oversized, s, k, n + 1)
  BY <1>0, LenProperties
<1>11. n + m <= Len(s) /\ \A i \in 1..m : s[n + i] = part[i]
  BY <1>0 DEF Continues
<1>1. PICK a : a = Len(line)
  OBVIOUS
<1>2. a \in Nat /\ Len(s) \in Nat /\ MaxLineBytes \in Nat
  BY <1>1, LenProperties, WobAssumption DEF WobAssumption
<1>4. ~oversized => /\ line = SubSeq(s, k, n) /\ a = (n + 1) - k
                    /\ (n + 1) - k <= MaxLineBytes
                    /\ \A i \in 1..a : line[i] = s[k + i - 1]
  <2> SUFFICES ASSUME ~oversized
               PROVE  /\ line = SubSeq(s, k, n) /\ a = (n + 1) - k
                      /\ (n + 1) - k <= MaxLineBytes
                      /\ \A i \in 1..a : line[i] = s[k + i - 1]
    OBVIOUS
  <2>1. line = SubSeq(s, k, n) /\ (n + 1) - k <= MaxLineBytes
    BY DEF Keeping
  <2>2. k \in 1..n + 1 /\ n <= Len(s)
    BY <1>2, <1>10, <1>11
  <2>3. Len(line) = (n + 1) - k /\ \A i \in 1..Len(line) : line[i] = s[k + i - 1]
    BY <2>1, <2>2, Piece
  <2>4. a = (n + 1) - k
    BY <1>1, <1>10, <2>3
  <2>5. QED
    BY <2>1, <2>3, <2>4
<1>5. CASE oversized \/ m > MaxLineBytes - a
  <2>1. took.line = <<>> /\ took.oversized = TRUE
    BY <1>0, <1>1, <1>5 DEF Takes
  <2>2. oversized => (n + 1) - k > MaxLineBytes
    BY DEF Keeping
  <2>3. (n + m + 1) - k > MaxLineBytes
    <3>1. CASE oversized
      BY <1>2, <1>10, <2>2, <3>1
    <3>2. CASE ~oversized
      <4>1. a = (n + 1) - k /\ m > MaxLineBytes - a
        BY <1>4, <1>5, <3>2
      <4>2. QED
        BY <1>2, <1>10, <4>1
    <3>3. QED
      BY <3>1, <3>2
  <2>4. Keeping(<<>>, TRUE, s, k, n + m + 1)
    BY <2>3 DEF Keeping
  <2>5. QED
    BY <1>10, <2>1, <2>4, EmptySeq
<1>6. CASE ~(oversized \/ m > MaxLineBytes - a)
  <2>1. took.line = line \o part /\ took.oversized = FALSE
    BY <1>0, <1>1, <1>6 DEF Takes
  <2>2. PICK b : b = SubSeq(s, k, n + m)
    OBVIOUS
  <2>3. PICK t : t = line \o part
    OBVIOUS
  <2>4. /\ t \in Seq(Byte) /\ Len(t) = a + m
        /\ \A i \in 1..a + m : t[i] = IF i <= a THEN line[i] ELSE part[i - a]
    BY <1>0, <1>1, <2>3, ConcatProperties
  <2>5. /\ b \in Seq(Got) /\ Len(b) = (n + m + 1) - k
        /\ \A i \in 1..Len(b) : b[i] = s[k + i - 1]
    <3>1. PICK p : p = n + m
      OBVIOUS
    <3>2. p \in Nat /\ k \in 1..p + 1 /\ p <= Len(s)
      BY <1>10, <1>11, <3>1
    <3>3. QED
      BY <2>2, <3>1, <3>2, Piece, SMTT(20)
  <2>6. a = (n + 1) - k /\ \A i \in 1..a : line[i] = s[k + i - 1]
    <3>1. ~oversized
      BY <1>6
    <3>2. QED
      BY <1>4, <3>1, Zenon
  <2>7. Len(b) = a + m
    BY <1>10, <2>5, <2>6
  <2>8. \A i \in 1..a + m : t[i] = b[i]
    <3> SUFFICES ASSUME NEW i \in 1..a + m PROVE t[i] = b[i]
      OBVIOUS
    <3>1. b[i] = s[k + i - 1]
      BY <1>2, <1>10, <2>5, <2>6
    <3>2. CASE i <= a
      <4>1. i \in 1..a
        BY <1>2, <3>2
      <4>2. t[i] = line[i] /\ line[i] = s[k + i - 1]
        BY <2>4, <2>6, <3>2, <4>1
      <4>3. QED
        BY <3>1, <4>2
    <3>3. CASE i > a
      <4>1. i - a \in 1..m /\ n + (i - a) = k + i - 1
        BY <1>2, <1>10, <2>6, <3>3
      <4>2. s[n + (i - a)] = part[i - a]
        BY <1>11, <4>1
      <4>3. t[i] = part[i - a]
        BY <1>2, <1>10, <2>4, <3>3
      <4>4. QED
        BY <3>1, <4>1, <4>2, <4>3
    <3>4. QED
      BY <1>2, <1>10, <3>2, <3>3
  <2>9. t \in Seq(Got)
    BY <2>4, SeqMonotonic DEF Got
  <2>10. t = b
    BY <2>4, <2>5, <2>7, <2>8, <2>9, SeqEqual
  <2>11. (n + m + 1) - k <= MaxLineBytes /\ (n + m + 1) - 1 = n + m
    BY <1>2, <1>6, <1>10, <2>6
  <2>12. Keeping(t, FALSE, s, k, n + m + 1)
    <3>1. PICK p : p = n + m
      OBVIOUS
    <3>2. p + 1 - 1 = p /\ p + 1 - k <= MaxLineBytes /\ t = SubSeq(s, k, p)
      BY <2>2, <2>10, <2>11, <3>1
    <3>3. QED
      BY <3>1, <3>2 DEF Keeping
  <2>13. QED
    BY <1>10, <2>1, <2>3, <2>4, <2>12
<1>7. QED
  BY <1>5, <1>6

(* The invariant: between two reads of a file nothing is held; otherwise   *)
(* the listener holds the text since the last end of line, or knows it to  *)
(* be too long, and its events are the lines that have ended.              *)
WobOK ==
  /\ fifo \in [is : {"absent", "fifo", "other"}, bytes : Seq(Byte), open : BOOLEAN]
  /\ reader \in [at : {"ensure", "open", "read"}, available : Seq(Byte),
                 line : Seq(Byte), oversized : BOOLEAN]
  /\ lines \in Seq(Seq(Byte))
  /\ stream \in Seq(Got)

Between == reader.at # "read" =>
             reader.available = <<>> /\ reader.line = <<>> /\ ~reader.oversized

\* The line so far of s.
SoFar(s, line, oversized) ==
  \E k \in 1..Len(s) + 1 : Begins(s, k, Len(s) + 1) /\ Keeping(line, oversized, s, k, Len(s) + 1)

WobInv ==
  /\ WobOK /\ Between
  /\ Cut(stream) /\ Tally(stream, lines)
  /\ SoFar(stream, reader.line, reader.oversized)

\* r with p after it.
Then(r, p, s) == /\ s \in Seq(Got) /\ Extends(r, s) /\ Len(s) = Len(r) + Len(p)
                 /\ \A i \in 1..Len(p) : s[Len(r) + i] = p[i]

LEMMA ThenIs ==
  ASSUME NEW r \in Seq(Got), NEW p \in Seq(Got)
  PROVE  Then(r, p, r \o p)
<1>1. PICK n, m, s : n = Len(r) /\ m = Len(p) /\ s = r \o p
  OBVIOUS
<1>2. n \in Nat /\ m \in Nat
  BY <1>1, LenProperties
<1>3. /\ s \in Seq(Got) /\ Len(s) = n + m
      /\ \A i \in 1..n + m : s[i] = IF i <= n THEN r[i] ELSE p[i - n]
  BY <1>1, ConcatProperties
<1>4. \A i \in 1..n : s[i] = r[i]
  BY <1>2, <1>3
<1>5. \A i \in 1..m : s[n + i] = p[i]
  BY <1>2, <1>3
<1>6. QED
  BY <1>1, <1>2, <1>3, <1>4, <1>5 DEF Then, Extends

(* An end of line begins a line.                                           *)
LEMMA BeginsAfter ==
  ASSUME NEW s \in Seq(Got), Len(s) \in Ends(s)
  PROVE  SoFar(s, <<>>, FALSE)
<1>1. PICK n, k : n = Len(s) /\ k = n + 1
  OBVIOUS
<1>2. n \in Nat
  BY <1>1, LenProperties
<1>3. Begins(s, k, k)
  BY <1>1, <1>2 DEF Begins
<1>4. SubSeq(s, k, k - 1) = <<>>
  BY <1>1, <1>2, SubSeqEmpty
<1>5. Keeping(<<>>, FALSE, s, k, k)
  BY <1>1, <1>2, <1>4, WobAssumption DEF Keeping, WobAssumption
<1>6. k \in 1..k
  BY <1>1, <1>2
<1>7. QED
  BY <1>1, <1>3, <1>5, <1>6 DEF SoFar

(* A part of a line is read.                                               *)
LEMMA PartRead ==
  ASSUME NEW r \in Seq(Got), NEW p \in Seq(Byte), NEW s, Then(r, p, s),
         \A i \in 1..Len(p) : p[i] # Newline,
         NEW line \in Seq(Byte), NEW oversized \in BOOLEAN, SoFar(r, line, oversized),
         NEW made, Cut(r), Tally(r, made), NEW took, took = Takes(line, oversized, p)
  PROVE  /\ took.line \in Seq(Byte) /\ took.oversized \in BOOLEAN
         /\ Cut(s) /\ Tally(s, made) /\ SoFar(s, took.line, took.oversized)
<1>1. PICK n, m : n = Len(r) /\ m = Len(p)
  OBVIOUS
<1>2. n \in Nat /\ m \in Nat
  BY <1>1, LenProperties
<1>3. /\ s \in Seq(Got) /\ Extends(r, s) /\ Len(s) = n + m
      /\ \A i \in 1..m : s[n + i] = p[i]
  BY <1>1 DEF Then
<1>4. \A i \in 1..n : i \in Ends(s) <=> i \in Ends(r)
  BY <1>1, <1>3, EndsStay
<1>5. \A i \in (n + 1)..(n + m) : i \notin Ends(s)
  <2> SUFFICES ASSUME NEW i \in (n + 1)..(n + m) PROVE i \notin Ends(s)
    OBVIOUS
  <2>1. PICK j \in 1..m : i = n + j
    <3>1. i - n \in 1..m /\ i = n + (i - n)
      BY <1>2
    <3>2. QED
      BY <3>1
  <2>2. p[j] \in Byte /\ p[j] # Newline
    BY <1>1, ElementOfSeq
  <2>3. s[i] \notin {Newline, EOF, Fault}
    BY <1>3, <2>1, <2>2 DEF Byte, EOF, Fault, Newline, Digit, Blank
  <2>4. QED
    BY <2>3 DEF Ends
<1>6. Ends(s) = Ends(r)
  <2>1. Ends(s) \subseteq 1..n + m /\ Ends(r) \subseteq 1..n
    BY <1>1, <1>3, LenProperties DEF Ends
  <2>2. \A i \in 1..n + m : i \in 1..n \/ i \in (n + 1)..(n + m)
    BY <1>2
  <2>3. \A i \in 1..n : i \in 1..n + m
    BY <1>2
  <2>4. \A i : i \in Ends(s) <=> i \in Ends(r)
    BY <1>4, <1>5, <2>1, <2>2, Zenon
  <2>5. QED
    BY <2>4
<1>7. Cut(s) /\ Tally(s, made)
  BY <1>3, <1>6, TallyStays
<1>8. PICK k \in 1..n + 1 : Begins(r, k, n + 1) /\ Keeping(line, oversized, r, k, n + 1)
  BY <1>1 DEF SoFar
<1>9. Keeping(line, oversized, s, k, n + 1)
  <2>1. k \in 1..Len(r) + 1 /\ n \in 0..Len(r) /\ (n + 1) - 1 = n
    BY <1>1, <1>2
  <2>2. SubSeq(s, k, n) = SubSeq(r, k, n)
    BY <1>3, <2>1, CutsStay
  <2>3. QED
    BY <1>8, <2>1, <2>2 DEF Keeping
<1>10. /\ took.line \in Seq(Byte) /\ took.oversized \in BOOLEAN
       /\ Keeping(took.line, took.oversized, s, k, n + m + 1)
  <2>1. PICK e, f : e = n + 1 /\ f = n + m + 1
    OBVIOUS
  <2>2. Continues(p, s, n)
    BY <1>1, <1>2, <1>3 DEF Continues
  <2>3. f = n + Len(p) + 1 /\ k \in 1..e /\ Keeping(line, oversized, s, k, e)
    BY <1>1, <1>9, <2>1
  <2>4. Keeping(took.line, took.oversized, s, k, f) /\ took.line \in Seq(Byte) /\ took.oversized \in BOOLEAN
    BY <1>2, <1>3, <2>1, <2>2, <2>3, TakesHolds
  <2>5. QED
    BY <2>1, <2>4
<1>11. Begins(s, k, n + m + 1)
  <2>1. n + 1 \in 1..Len(r) + 1 /\ k \in 1..n + 1
    BY <1>1, <1>2
  <2>2. Begins(s, k, n + 1)
    BY <1>3, <1>8, <2>1, BeginningsStay
  <2>3. PICK q : q = n + m
    OBVIOUS
  <2>4. (n + m + 1) - 1 = q /\ \A j \in k..q : j \in k..n \/ j \in (n + 1)..q
    BY <1>2, <2>1, <2>3
  <2>5. (k = 1 \/ k - 1 \in Ends(s)) /\ \A j \in k..n : j \notin Ends(s)
    <3>1. (k = 1 \/ k - 1 \in Ends(s)) /\ \A j \in k..((n + 1) - 1) : j \notin Ends(s)
      BY <2>2, Zenon DEF Begins
    <3>2. (n + 1) - 1 = n
      BY <1>2
    <3>3. QED
      BY <3>1, <3>2, Zenon
  <2>6. \A j \in (n + 1)..q : j \notin Ends(s)
    BY <1>5, <2>3
  <2>7. \A j \in k..q : j \notin Ends(s)
    BY <2>4, <2>5, <2>6, Zenon
  <2>8. \A j \in k..((n + m + 1) - 1) : j \notin Ends(s)
    BY <2>4, <2>7, Zenon
  <2>9. QED
    BY <2>5, <2>8, Zenon DEF Begins
<1>12. k \in 1..n + m + 1
  BY <1>2
<1>13. SoFar(s, took.line, took.oversized)
  BY <1>3, <1>10, <1>11, <1>12 DEF SoFar
<1>14. QED
  BY <1>7, <1>10, <1>13

IsEnd(b) == b \in {Newline, EOF, Fault}

(* The end of a line is read: newline, end of file or failure.             *)
LEMMA EndRead ==
  ASSUME NEW r \in Seq(Got), NEW b, IsEnd(b), NEW s, Then(r, <<b>>, s),
         NEW line \in Seq(Byte), NEW oversized \in BOOLEAN, SoFar(r, line, oversized),
         NEW made \in Seq(Seq(Byte)), Cut(r), Tally(r, made),
         NEW then, Tries(made, b, line, oversized, then)
  PROVE  Cut(s) /\ Tally(s, then) /\ SoFar(s, <<>>, FALSE) /\ then \in Seq(Seq(Byte))
<1>1. PICK n, e : n = Len(r) /\ e = n + 1
  OBVIOUS
<1>2. n \in Nat /\ e \in Nat /\ e > n
  BY <1>1, LenProperties
<1>3. s \in Seq(Got) /\ Extends(r, s) /\ Len(s) = e /\ s[e] = b
  <2>1. Len(<<b>>) = 1 /\ <<b>>[1] = b
    OBVIOUS
  <2>2. 1 \in 1..1
    OBVIOUS
  <2>3. QED
    BY <1>1, <2>1, <2>2 DEF Then
<1>4. e \in Ends(s)
  BY <1>2, <1>3, LenProperties DEF Ends, IsEnd
<1>5. Ends(s) = Ends(r) \cup {e}
  <2>1. \A i \in 1..n : i \in Ends(s) <=> i \in Ends(r)
    BY <1>1, <1>3, EndsStay
  <2>2. Ends(s) \subseteq 1..e /\ Ends(r) \subseteq 1..n
    BY <1>1, <1>3, LenProperties DEF Ends
  <2>3. \A i \in 1..e : i \in 1..n \/ i = e
    BY <1>1, <1>2
  <2>4. \A i : i \in Ends(s) <=> i \in Ends(r) \/ i = e
    BY <1>4, <2>1, <2>2, <2>3, Zenon
  <2>5. QED
    BY <2>4
<1>6. PICK k \in 1..e : Begins(r, k, e) /\ Keeping(line, oversized, r, k, e)
  BY <1>1 DEF SoFar
<1>7. Begins(s, k, e)
  <2>1. e \in 1..Len(r) + 1 /\ k \in 1..e
    BY <1>1, <1>2
  <2>2. QED
    BY <1>3, <1>6, <2>1, BeginningsStay
<1>8. Keeping(line, oversized, s, k, e)
  <2>1. k \in 1..Len(r) + 1 /\ n \in 0..Len(r) /\ e - 1 = n
    BY <1>1, <1>2
  <2>2. SubSeq(s, k, n) = SubSeq(r, k, n)
    BY <1>3, <2>1, CutsStay
  <2>3. QED
    BY <1>6, <2>1, <2>2 DEF Keeping
<1>9. Cut(s) /\ Tally(s, then)
  <2>1. e > Len(r)
    BY <1>1, <1>2
  <2>2. e \in Nat /\ s \in Seq(Got) /\ Extends(r, s)
    BY <1>2, <1>3
  <2>3. NewEnd(r, s, e)
    BY <1>5, <2>1 DEF NewEnd
  <2>4. Tries(made, s[e], line, oversized, then)
    BY <1>3
  <2>5. QED
    BY <1>7, <1>8, <2>2, <2>3, <2>4, TallyGrows
<1>10. SoFar(s, <<>>, FALSE)
  BY <1>3, <1>4, BeginsAfter
<1>11. then \in Seq(Seq(Byte))
  BY AppendProperties DEF Tries
<1>12. QED
  BY <1>9, <1>10, <1>11

LEMMA ReaderOf ==
  ASSUME NEW at \in {"ensure", "open", "read"}, NEW available \in Seq(Byte),
         NEW line \in Seq(Byte), NEW oversized \in BOOLEAN
  PROVE  [at |-> at, available |-> available, line |-> line, oversized |-> oversized]
           \in [at : {"ensure", "open", "read"}, available : Seq(Byte),
                line : Seq(Byte), oversized : BOOLEAN]
  OBVIOUS

(* A closed file, and a fresh one.                                         *)
LEMMA ClosedIs ==
  /\ Closed = [at |-> "open", available |-> <<>>, line |-> <<>>, oversized |-> FALSE]
  /\ Fresh = [at |-> "read", available |-> <<>>, line |-> <<>>, oversized |-> FALSE]
<1>1. Closed = [at |-> "open", available |-> <<>>, line |-> <<>>, oversized |-> FALSE]
  BY DEF Closed
<1>2. PICK r, o : r = "read" /\ o = FALSE
  OBVIOUS
<1>3. Fresh = [Closed EXCEPT !.at = r]
  BY <1>2 DEF Fresh
<1>4. Closed = [at |-> "open", available |-> <<>>, line |-> <<>>, oversized |-> o]
  BY <1>1, <1>2
<1>5. Fresh = [at |-> r, available |-> <<>>, line |-> <<>>, oversized |-> o]
  BY <1>3, <1>4
<1>6. QED
  BY <1>1, <1>2, <1>5

LEMMA WritesKeeps ==
  ASSUME WobInv, NEW byte \in Byte, Writes(byte)
  PROVE  WobInv'
<1>1. WobOK /\ UNCHANGED <<reader, lines, stream>>
  BY DEF WobInv, Writes
<1>2. fifo' = [fifo EXCEPT !.bytes = Append(fifo.bytes, byte)]
  BY DEF Writes
<1>3. Append(fifo.bytes, byte) \in Seq(Byte)
  BY <1>1, AppendProperties DEF WobOK
<1>4. fifo' \in [is : {"absent", "fifo", "other"}, bytes : Seq(Byte), open : BOOLEAN]
  <2>1. PICK q : q = Append(fifo.bytes, byte)
    OBVIOUS
  <2>2. QED
    BY <1>1, <1>2, <1>3, <2>1 DEF WobOK
<1>5. QED
  BY <1>1, <1>4 DEF WobInv, WobOK, Between

LEMMA WriterKeeps ==
  ASSUME WobInv, WriterComesOrGoes
  PROVE  WobInv'
<1>1. WobOK /\ UNCHANGED <<reader, lines, stream>>
  BY DEF WobInv, WriterComesOrGoes
<1>2. PICK left \in Seq(Byte) : fifo' = [fifo EXCEPT !.open = ~fifo.open, !.bytes = left]
  BY <1>1, EmptySeq DEF WobOK, WriterComesOrGoes
<1>3. fifo' \in [is : {"absent", "fifo", "other"}, bytes : Seq(Byte), open : BOOLEAN]
  BY <1>1, <1>2 DEF WobOK
<1>4. QED
  BY <1>1, <1>3 DEF WobInv, WobOK, Between

LEMMA OpensKeeps ==
  ASSUME WobInv, EnsureFifo \/ OpenFifo
  PROVE  WobInv'
<1>1. /\ WobOK /\ Between /\ UNCHANGED <<lines, stream>>
      /\ reader.at # "read"
      /\ reader' = Closed \/ reader' = Fresh
  BY DEF WobInv, EnsureFifo, OpenFifo
<1>2. reader.line = <<>> /\ ~reader.oversized
  BY <1>1 DEF Between
<1>3. /\ reader'.available = <<>> /\ reader'.line = <<>> /\ reader'.oversized = FALSE
      /\ reader' \in [at : {"ensure", "open", "read"}, available : Seq(Byte),
                      line : Seq(Byte), oversized : BOOLEAN]
  <2>1. PICK at \in {"open", "read"} :
          reader' = [at |-> at, available |-> <<>>, line |-> <<>>, oversized |-> FALSE]
    BY <1>1, ClosedIs
  <2>2. QED
    BY <2>1, ReaderOf, EmptySeq
<1>4. fifo' \in [is : {"absent", "fifo", "other"}, bytes : Seq(Byte), open : BOOLEAN]
  <2>1. fifo' = fifo \/ fifo' = [fifo EXCEPT !.is = "fifo"]
    BY DEF EnsureFifo, OpenFifo
  <2>2. QED
    BY <1>1, <2>1 DEF WobOK
<1>5. SoFar(stream, reader.line, reader.oversized)'
  <2>1. reader.oversized = FALSE
    BY <1>1, <1>2 DEF WobOK
  <2>2. SoFar(stream, <<>>, FALSE)
    BY <1>2, <2>1 DEF WobInv
  <2>3. QED
    BY <1>1, <1>3, <2>2
<1>6. WobOK'
  BY <1>1, <1>3, <1>4 DEF WobOK
<1>7. QED
  BY <1>1, <1>3, <1>5, <1>6 DEF WobInv, Between

LEMMA FillBufKeeps ==
  ASSUME WobInv, FillBuf
  PROVE  WobInv'
<1>1. /\ WobOK /\ UNCHANGED <<lines, stream>> /\ reader.at = "read"
  BY DEF WobInv, FillBuf
<1>2. PICK n \in 1..Len(fifo.bytes) :
        /\ reader' = [reader EXCEPT !.available = SubSeq(fifo.bytes, 1, n)]
        /\ fifo' = [fifo EXCEPT !.bytes = SubSeq(fifo.bytes, n + 1, Len(fifo.bytes))]
  BY DEF FillBuf
<1>3. PICK bytes, a, b : /\ bytes = fifo.bytes /\ a = SubSeq(fifo.bytes, 1, n)
                         /\ b = SubSeq(fifo.bytes, n + 1, Len(fifo.bytes))
  OBVIOUS
<1>4. bytes \in Seq(Byte) /\ Len(bytes) \in Nat /\ n \in 1..Len(bytes)
  BY <1>1, <1>2, <1>3, LenProperties DEF WobOK
<1>5. a \in Seq(Byte) /\ b \in Seq(Byte)
  <2>1. \A i \in 1..Len(bytes) : bytes[i] \in Byte
    BY <1>4, ElementOfSeq
  <2>2. /\ n + 1 \in Int /\ Len(bytes) \in Int /\ 1 \in Int /\ n \in Int
        /\ \A i \in 1..n : bytes[i] \in Byte
        /\ \A i \in (n + 1)..Len(bytes) : bytes[i] \in Byte
    BY <1>4, <2>1
  <2>3. QED
    BY <1>3, <2>2, SubSeqProperties
<1>6. reader' = [reader EXCEPT !.available = a] /\ fifo' = [fifo EXCEPT !.bytes = b]
  BY <1>2, <1>3
<1>7. WobOK'
  BY <1>1, <1>5, <1>6 DEF WobOK
<1>8. reader'.at = "read" /\ reader'.line = reader.line /\ reader'.oversized = reader.oversized
  BY <1>1, <1>6 DEF WobOK
<1>9. QED
  BY <1>1, <1>7, <1>8 DEF WobInv, Between

(* What is read is in the buffer, and there are ends of line only where    *)
(* there are newlines.                                                     *)
LEMMA ReadPartKeeps ==
  ASSUME WobInv, ReadPart
  PROVE  WobInv'
<1>1. /\ WobOK /\ UNCHANGED <<fifo, lines>>
      /\ ~Contains(reader.available, Newline)
      /\ stream' = stream \o reader.available
  BY DEF WobInv, ReadPart
<1>2. PICK p, took : p = reader.available /\ took = Takes(reader.line, reader.oversized, p)
  OBVIOUS
<1>3. reader' = [Fresh EXCEPT !.line = took.line, !.oversized = took.oversized]
  BY <1>2 DEF ReadPart
<1>4. PICK l, o : l = took.line /\ o = took.oversized
  OBVIOUS
<1>5. reader' = [at |-> "read", available |-> <<>>, line |-> l, oversized |-> o]
  BY <1>3, <1>4, ClosedIs
<1>6. p \in Seq(Byte) /\ p \in Seq(Got) /\ \A i \in 1..Len(p) : p[i] # Newline
  BY <1>1, <1>2, SeqMonotonic DEF WobOK, Contains, Got
<1>7. Then(stream, p, stream')
  BY <1>1, <1>2, <1>6, ThenIs DEF WobOK
<1>8. /\ l \in Seq(Byte) /\ o \in BOOLEAN
      /\ Cut(stream') /\ Tally(stream', lines) /\ SoFar(stream', l, o)
  <2>1. /\ stream \in Seq(Got) /\ reader.line \in Seq(Byte) /\ reader.oversized \in BOOLEAN
        /\ SoFar(stream, reader.line, reader.oversized)
        /\ Cut(stream) /\ Tally(stream, lines)
    BY <1>1 DEF WobInv, WobOK
  <2>2. QED
    BY <1>2, <1>4, <1>6, <1>7, <2>1, PartRead
<1>9. WobOK'
  <2>1. reader' \in [at : {"ensure", "open", "read"}, available : Seq(Byte),
                     line : Seq(Byte), oversized : BOOLEAN]
    BY <1>5, <1>8, ReaderOf, EmptySeq
  <2>2. stream' \in Seq(Got)
    BY <1>7 DEF Then
  <2>3. QED
    BY <1>1, <2>1, <2>2 DEF WobOK
<1>10. reader'.at = "read" /\ reader'.line = l /\ reader'.oversized = o
  BY <1>5
<1>11. QED
  BY <1>1, <1>8, <1>9, <1>10 DEF WobInv, Between

(* A set of numbers has a least one.                                       *)
LEMMA LeastOf ==
  ASSUME NEW T \in SUBSET Nat, T # {}
  PROVE  \E x \in T : \A y \in T : x <= y
<1> DEFINE R == {ss \in Nat \X Nat : ss[1] < ss[2]}
<1>1. IsWellFoundedOn(R, Nat)
  BY NatLessThanWellFounded DEF OpToRel
<1>2. \A x, y \in Nat : <<y, x>> \in R <=> y < x
  OBVIOUS
<1> HIDE DEF R
<1>3. PICK x \in T : \A y \in T : <<y, x>> \notin R
  BY <1>1, WFMin
<1>4. ASSUME NEW y \in T
      PROVE  x <= y
  <2>1. x \in Nat /\ y \in Nat
    OBVIOUS
  <2>2. ~(y < x)
    BY <1>2, <1>3, <2>1
  <2>3. QED
    BY <2>1, <2>2
<1>5. QED
  BY <1>4

(* The first newline of what is in the buffer.                             *)
LEMMA FirstNewline ==
  ASSUME NEW all \in Seq(Byte), Contains(all, Newline),
         NEW end, end = SelectInSeq(all, LAMBDA b : b = Newline)
  PROVE  /\ end \in 1..Len(all) /\ all[end] = Newline
         /\ \A i \in 1..(end - 1) : all[i] # Newline
<1>1. PICK T : T = {i \in 1..Len(all) : all[i] = Newline}
  OBVIOUS
<1>2. Len(all) \in Nat
  BY LenProperties
<1>3. T \in SUBSET Nat /\ T # {}
  BY <1>1, <1>2 DEF Contains
<1>4. end = Min(T)
  BY <1>1, <1>3 DEF SelectInSeq
<1>5. end \in T /\ \A y \in T : end <= y
  BY <1>3, <1>4, LeastOf DEF Min
<1>6. \A i \in 1..(end - 1) : all[i] # Newline
  <2> SUFFICES ASSUME NEW i \in 1..(end - 1), all[i] = Newline PROVE FALSE
    OBVIOUS
  <2>1. end \in 1..Len(all)
    BY <1>1, <1>5
  <2>2. i \in 1..Len(all) /\ ~(end <= i)
    BY <1>2, <2>1
  <2>3. QED
    BY <1>1, <1>5, <2>2
<1>7. QED
  BY <1>1, <1>5, <1>6

LEMMA TriedIs ==
  ASSUME NEW b \in {Newline, EOF}, NEW line, NEW oversized, Tried(line, oversized)
  PROVE  Tries(lines, b, line, oversized, lines')
  BY DEF Tried, Tries, Says, Newline, EOF, Fault

LEMMA ReadLineKeeps ==
  ASSUME WobInv, ReadLine
  PROVE  WobInv'
<1>1. WobOK /\ UNCHANGED fifo /\ Contains(reader.available, Newline)
  BY DEF WobInv, ReadLine
<1>2. PICK all : all = reader.available
  OBVIOUS
<1>3. PICK end : end = SelectInSeq(all, LAMBDA b : b = Newline)
  OBVIOUS
<1>4. PICK p : p = SubSeq(all, 1, end - 1)
  OBVIOUS
<1>5. PICK took : took = Takes(reader.line, reader.oversized, p)
  OBVIOUS
<1>6. /\ reader' = [Fresh EXCEPT !.available = SubSeq(all, end + 1, Len(all))]
      /\ stream' = stream \o SubSeq(all, 1, end)
      /\ Tried(took.line, took.oversized)
  BY <1>2, <1>3, <1>4, <1>5 DEF ReadLine
<1>7. /\ stream \in Seq(Got) /\ reader.line \in Seq(Byte) /\ reader.oversized \in BOOLEAN
      /\ SoFar(stream, reader.line, reader.oversized)
      /\ Cut(stream) /\ Tally(stream, lines) /\ lines \in Seq(Seq(Byte))
      /\ all \in Seq(Byte)
  BY <1>1, <1>2 DEF WobInv, WobOK
<1>8. /\ end \in 1..Len(all) /\ all[end] = Newline
      /\ \A i \in 1..(end - 1) : all[i] # Newline
  BY <1>1, <1>2, <1>3, <1>7, FirstNewline
<1>9. Len(all) \in Nat /\ \A i \in 1..Len(all) : all[i] \in Byte
  BY <1>7, LenProperties, ElementOfSeq
<1>10. /\ 1 \in Int /\ end - 1 \in Int /\ end + 1 \in Int /\ Len(all) \in Int /\ end - 1 \in Nat
       /\ \A i \in 1..(end - 1) : all[i] \in Byte
       /\ \A i \in (end + 1)..Len(all) : all[i] \in Byte
  BY <1>8, <1>9
<1>11. p \in Seq(Byte) /\ \A i \in 1..Len(p) : p[i] # Newline
  <2>1. /\ p \in Seq(Byte) /\ Len(p) = IF 1 <= end - 1 THEN (end - 1) - 1 + 1 ELSE 0
        /\ \A i \in 1..((end - 1) - 1 + 1) : p[i] = all[1 + i - 1]
    BY <1>4, <1>10, SubSeqProperties
  <2>2. Len(p) = end - 1
    BY <1>10, <2>1
  <2>3. \A i \in 1..Len(p) : p[i] = all[i]
    BY <1>10, <2>1, <2>2
  <2>4. QED
    BY <1>8, <2>1, <2>2, <2>3
<1>12. p \in Seq(Got) /\ Newline \in Got
  BY <1>11, SeqMonotonic DEF Got, Byte
<1>13. PICK s : s = stream \o p
  OBVIOUS
<1>14. Then(stream, p, s)
  BY <1>7, <1>12, <1>13, ThenIs
<1>15. /\ took.line \in Seq(Byte) /\ took.oversized \in BOOLEAN
       /\ Cut(s) /\ Tally(s, lines) /\ SoFar(s, took.line, took.oversized)
  <2>1. PICK l, o : l = reader.line /\ o = reader.oversized
    OBVIOUS
  <2>2. l \in Seq(Byte) /\ o \in BOOLEAN /\ SoFar(stream, l, o) /\ took = Takes(l, o, p)
    BY <1>5, <1>7, <2>1
  <2>3. stream \in Seq(Got) /\ Cut(stream) /\ Tally(stream, lines)
    BY <1>7
  <2>4. QED
    BY <1>11, <1>14, <2>2, <2>3, PartRead
<1>16. s \in Seq(Got)
  BY <1>14 DEF Then
<1>17. Then(s, <<Newline>>, stream')
  <2>1. SubSeq(all, 1, end) = p \o <<Newline>>
    <3>1. 1 \in 1..Len(all) /\ end \in 1..Len(all)
      BY <1>8, <1>9
    <3>2. SubSeq(all, 1, end) = SubSeq(all, 1, end - 1) \o <<all[end]>>
      BY <1>7, <3>1, SubSeqRecursiveSecond
    <3>3. QED
      BY <1>4, <1>8, <3>2
  <2>2. <<Newline>> \in Seq(Got)
    BY <1>12
  <2>3. stream \o (p \o <<Newline>>) = (stream \o p) \o <<Newline>>
    BY <1>7, <1>12, <2>2, ConcatAssociative
  <2>4. stream' = s \o <<Newline>>
    BY <1>6, <1>13, <2>1, <2>3
  <2>5. QED
    BY <1>16, <2>2, <2>4, ThenIs
<1>18. /\ Cut(stream') /\ Tally(stream', lines') /\ SoFar(stream', <<>>, FALSE)
       /\ lines' \in Seq(Seq(Byte))
  <2>1. PICK b : b = Newline
    OBVIOUS
  <2>2. b \in {Newline, EOF} /\ IsEnd(b) /\ Then(s, <<b>>, stream')
    BY <1>17, <2>1 DEF IsEnd
  <2>3. Tries(lines, b, took.line, took.oversized, lines')
    BY <1>6, <2>2, TriedIs
  <2>4. PICK l, o : l = took.line /\ o = took.oversized
    OBVIOUS
  <2>5. l \in Seq(Byte) /\ o \in BOOLEAN /\ SoFar(s, l, o) /\ Tries(lines, b, l, o, lines')
    BY <1>15, <2>3, <2>4
  <2>6. lines \in Seq(Seq(Byte)) /\ Cut(s) /\ Tally(s, lines)
    BY <1>7, <1>15
  <2>7. QED
    BY <1>16, <2>2, <2>5, <2>6, EndRead, ZenonT(100)
<1>19. PICK rest : rest = SubSeq(all, end + 1, Len(all))
  OBVIOUS
<1>20. rest \in Seq(Byte)
  BY <1>10, <1>19, SubSeqProperties
<1>21. reader' = [at |-> "read", available |-> rest, line |-> <<>>, oversized |-> FALSE]
  BY <1>6, <1>19, ClosedIs
<1>22. /\ reader'.at = "read" /\ reader'.line = <<>> /\ reader'.oversized = FALSE
       /\ reader' \in [at : {"ensure", "open", "read"}, available : Seq(Byte),
                       line : Seq(Byte), oversized : BOOLEAN]
  BY <1>20, <1>21, ReaderOf, EmptySeq
<1>23. stream' \in Seq(Got)
  BY <1>17 DEF Then
<1>24. QED
  BY <1>1, <1>18, <1>22, <1>23 DEF WobInv, WobOK, Between

LEMMA ReadEndKeeps ==
  ASSUME WobInv, ReadEnd
  PROVE  WobInv'
<1>1. /\ WobOK /\ UNCHANGED fifo /\ reader.at = "read" /\ reader.available = <<>>
  BY DEF WobInv, ReadEnd
<1>2. /\ stream \in Seq(Got) /\ reader.line \in Seq(Byte) /\ reader.oversized \in BOOLEAN
      /\ SoFar(stream, reader.line, reader.oversized)
      /\ Cut(stream) /\ Tally(stream, lines) /\ lines \in Seq(Seq(Byte))
  BY <1>1 DEF WobInv, WobOK
<1>3. CASE reader.oversized \/ reader.line # <<>>
  <2>1. /\ Tried(reader.line, reader.oversized) /\ reader' = Fresh
        /\ stream' = Append(stream, EOF)
    BY <1>3 DEF ReadEnd
  <2>2. PICK b : b = EOF
    OBVIOUS
  <2>3. /\ <<b>> \in Seq(Got) /\ b \in Got
        /\ b \in {Newline, EOF} /\ IsEnd(b)
    BY <2>2 DEF Got, IsEnd
  <2>4. Then(stream, <<b>>, stream')
    <3>1. Append(stream, b) = stream \o <<b>>
      BY <1>2, <2>3
    <3>2. QED
      BY <1>2, <2>1, <2>2, <2>3, <3>1, ThenIs
  <2>5. Tries(lines, b, reader.line, reader.oversized, lines')
    BY <2>1, <2>3, TriedIs
  <2>6. /\ Cut(stream') /\ Tally(stream', lines') /\ SoFar(stream', <<>>, FALSE)
        /\ lines' \in Seq(Seq(Byte))
    BY <1>2, <2>3, <2>4, <2>5, EndRead, ZenonT(100)
  <2>7. reader' = [at |-> "read", available |-> <<>>, line |-> <<>>, oversized |-> FALSE]
    BY <2>1, ClosedIs
  <2>8. /\ reader'.at = "read" /\ reader'.line = <<>> /\ reader'.oversized = FALSE
        /\ reader' \in [at : {"ensure", "open", "read"}, available : Seq(Byte),
                        line : Seq(Byte), oversized : BOOLEAN]
    BY <2>7, ReaderOf, EmptySeq
  <2>9. stream' \in Seq(Got)
    BY <2>4 DEF Then
  <2>10. QED
    BY <1>1, <2>6, <2>8, <2>9 DEF WobInv, WobOK, Between
<1>4. CASE ~(reader.oversized \/ reader.line # <<>>)
  <2>1. reader' = Closed /\ UNCHANGED <<lines, stream>>
    BY <1>4 DEF ReadEnd
  <2>2. reader.line = <<>> /\ reader.oversized = FALSE
    BY <1>2, <1>4
  <2>3. reader' = [at |-> "open", available |-> <<>>, line |-> <<>>, oversized |-> FALSE]
    BY <2>1, ClosedIs
  <2>4. /\ reader'.available = <<>> /\ reader'.line = <<>> /\ reader'.oversized = FALSE
        /\ reader' \in [at : {"ensure", "open", "read"}, available : Seq(Byte),
                        line : Seq(Byte), oversized : BOOLEAN]
    BY <2>3, ReaderOf, EmptySeq
  <2>5. SoFar(stream', reader'.line, reader'.oversized)
    BY <1>2, <2>1, <2>2, <2>4
  <2>6. QED
    BY <1>1, <1>2, <2>1, <2>4, <2>5 DEF WobInv, WobOK, Between
<1>5. QED
  BY <1>3, <1>4

LEMMA ReadFailsKeeps ==
  ASSUME WobInv, ReadFails
  PROVE  WobInv'
<1>1. /\ WobOK /\ reader' = Closed /\ stream' = Append(stream, Fault) /\ lines' = lines
  BY DEF WobInv, ReadFails
<1>2. /\ stream \in Seq(Got) /\ reader.line \in Seq(Byte) /\ reader.oversized \in BOOLEAN
      /\ SoFar(stream, reader.line, reader.oversized)
      /\ Cut(stream) /\ Tally(stream, lines) /\ lines \in Seq(Seq(Byte))
  BY <1>1 DEF WobInv, WobOK
<1>3. PICK b : b = Fault
  OBVIOUS
<1>4. <<b>> \in Seq(Got) /\ IsEnd(b) /\ b \in Got
  BY <1>3 DEF Got, IsEnd
<1>5. Then(stream, <<b>>, stream')
  <2>1. Append(stream, b) = stream \o <<b>>
    BY <1>2, <1>4
  <2>2. QED
    BY <1>1, <1>2, <1>3, <1>4, <2>1, ThenIs
<1>6. Tries(lines, b, reader.line, reader.oversized, lines')
  BY <1>1, <1>3 DEF Tries, Says
<1>7. /\ Cut(stream') /\ Tally(stream', lines') /\ SoFar(stream', <<>>, FALSE)
      /\ lines' \in Seq(Seq(Byte))
  BY <1>2, <1>4, <1>5, <1>6, EndRead, ZenonT(100)
<1>8. reader' = [at |-> "open", available |-> <<>>, line |-> <<>>, oversized |-> FALSE]
  BY <1>1, ClosedIs
<1>9. /\ reader'.available = <<>> /\ reader'.line = <<>> /\ reader'.oversized = FALSE
      /\ reader' \in [at : {"ensure", "open", "read"}, available : Seq(Byte),
                      line : Seq(Byte), oversized : BOOLEAN]
  BY <1>8, ReaderOf, EmptySeq
<1>10. fifo' \in [is : {"absent", "fifo", "other"}, bytes : Seq(Byte), open : BOOLEAN]
  <2>1. PICK left \in Seq(Byte) : fifo' = [fifo EXCEPT !.bytes = left]
    BY <1>1, EmptySeq DEF WobOK, ReadFails
  <2>2. QED
    BY <1>1, <2>1 DEF WobOK
<1>11. stream' \in Seq(Got)
  BY <1>5 DEF Then
<1>12. QED
  BY <1>7, <1>9, <1>10, <1>11 DEF WobInv, WobOK, Between

LEMMA WobKeeps == WobInv /\ [WobNext]_wobVars => WobInv'
<1> SUFFICES ASSUME WobInv, [WobNext]_wobVars PROVE WobInv'
  OBVIOUS
<1>1. CASE \E byte \in {Digit, Blank, Newline} : Writes(byte)
  BY <1>1, WritesKeeps DEF Byte
<1>2. CASE WriterComesOrGoes
  BY <1>2, WriterKeeps
<1>3. CASE EnsureFifo \/ OpenFifo
  BY <1>3, OpensKeeps
<1>4. CASE FillBuf
  BY <1>4, FillBufKeeps
<1>5. CASE ReadPart
  BY <1>5, ReadPartKeeps
<1>6. CASE ReadLine
  BY <1>6, ReadLineKeeps
<1>7. CASE ReadEnd
  BY <1>7, ReadEndKeeps
<1>8. CASE ReadFails
  BY <1>8, ReadFailsKeeps
<1>9. CASE UNCHANGED wobVars
  <2>1. UNCHANGED <<fifo, reader, lines, stream>>
    BY <1>9 DEF wobVars
  <2>2. QED
    BY <2>1 DEF WobInv, WobOK, Between
<1>10. QED
  BY <1>1, <1>2, <1>3, <1>4, <1>5, <1>6, <1>7, <1>8, <1>9 DEF WobNext

LEMMA WobInitial == WobInit => WobInv
<1> SUFFICES ASSUME WobInit PROVE WobInv
  OBVIOUS
<1>1. /\ fifo \in [is : {"absent", "fifo", "other"}, bytes : {<<>>}, open : {FALSE}]
      /\ reader = [Closed EXCEPT !.at = "ensure"] /\ lines = <<>> /\ stream = <<>>
  BY DEF WobInit
<1>2. reader = [at |-> "ensure", available |-> <<>>, line |-> <<>>, oversized |-> FALSE]
  BY <1>1, ClosedIs
<1>3. /\ reader.available = <<>> /\ reader.line = <<>> /\ reader.oversized = FALSE
      /\ reader \in [at : {"ensure", "open", "read"}, available : Seq(Byte),
                     line : Seq(Byte), oversized : BOOLEAN]
  BY <1>2, ReaderOf, EmptySeq
<1>4. WobOK
  BY <1>1, <1>3, EmptySeq DEF WobOK
<1>5. Ends(stream) = {}
  BY <1>1 DEF Ends
<1>6. Cut(stream)
  BY <1>5 DEF Cut
<1>7. Tally(stream, lines)
  <2>1. LinesOf(stream) = {}
    BY <1>5 DEF LinesOf
  <2>2. QED
    BY <1>1, <2>1, FS_EmptySet DEF Tally
<1>8. SoFar(stream, reader.line, reader.oversized)
  <2>1. PICK k : k = 1
    OBVIOUS
  <2>2. Len(stream) + 1 = k /\ k \in 1..k /\ Begins(stream, k, k)
    BY <1>1, <1>5, <2>1 DEF Begins
  <2>3. SubSeq(stream, k, k - 1) = <<>>
    BY <2>1, SubSeqEmpty
  <2>4. Keeping(<<>>, FALSE, stream, k, k)
    BY <2>1, <2>3, WobAssumption DEF Keeping, WobAssumption
  <2>5. QED
    BY <1>3, <2>2, <2>4 DEF SoFar
<1>9. QED
  BY <1>3, <1>4, <1>6, <1>7, <1>8 DEF WobInv, Between

(* However the kernel cuts the stream and whenever writers come and go,    *)
(* the listener's events are the lines of what it read.                    *)
THEOREM LinesRead == Spec => []EventsAreLines
<1>1. Init => WobInv
  BY WobInitial DEF Init
<1>2. WobInv /\ [Next]_vars => WobInv'
  <2>1. [Next]_vars => [WobNext]_wobVars
    BY DEF Next, vars
  <2>2. QED
    BY <2>1, WobKeeps
<1>3. WobInv => EventsAreLines
  BY DEF WobInv, Tally, EventsAreLines
<1>4. QED
  BY <1>1, <1>2, <1>3, PTL DEF Spec
-----------------------------------------------------------------------------
(* The battery listener.                                                   *)

(* What has been told, or was silent, is the state the listener knows of,  *)
(* and the band if it is one to alert for.                                 *)
Matches(last, heard) ==
  /\ heard.state = last.state
  /\ heard.state = "discharging" /\ last.band \in AlertBands => heard.band = last.band

(* The silent observation if there is one, or else the news.               *)
Hears(news, silent) == IF silent # Untold THEN silent ELSE news

(* What is told, was silent and is remembered go together; until something *)
(* is remembered nothing found is in --states.                             *)
Heeds(last, news, silent) ==
  /\ last # Untold => news # Untold /\ Matches(last, Hears(news, silent))
  /\ silent # Untold => news.state \notin States
  /\ last = Untold => silent = Untold /\ (news = Untold \/ news.state \notin States)

ToldOK == told = [news |-> told.news, silent |-> told.silent]
TellsAll == ToldOK /\ Heeds(battery.last, told.news, told.silent)

(* Every battery that is there can be read and has been found.             *)
AllFound == /\ battery.known # {}
            /\ \A b \in Batteries : supply[b].there => supply[b].reads = Attributes /\ b \in battery.known

(* The readings are those of the batteries, and what is remembered is what *)
(* they come to.                                                           *)
Current(cache, last) ==
  /\ \A b \in Batteries : supply[b].there => cache[b] = Reading(b)
  /\ Outlook(cache).state \in States => last = Outlook(cache)

(* What there can be of a battery that is plugged in.                      *)
Files == [there : {TRUE}, reads : SUBSET Attributes, capacity : Capacities, state : Statuses]

BatteryOK ==
  /\ supply \in [Batteries -> Files \cup {Missing}]
  /\ battery = [known |-> battery.known, cache |-> battery.cache, last |-> battery.last,
                burst |-> battery.burst, since |-> battery.since, wait |-> battery.wait]
  /\ battery.known \in SUBSET Batteries
  /\ \A b \in battery.known : supply[b].there
  /\ battery.known = {} => battery.last = Untold /\ told.news = Untold /\ told.silent = Untold
  /\ battery.cache = [b \in Batteries |-> battery.cache[b]]
  /\ battery.burst \in Nat /\ battery.since \in Nat /\ battery.wait \in Nat /\ calm \in Nat

(* A rescan is never further off than it was set, and until there has been *)
(* one the last change is not longer ago than the last evaluation.         *)
Rescans ==
  /\ battery.since + battery.wait <= RescanInterval
  /\ uevents # <<>> => calm = 0
  /\ AllFound => Current(battery.cache, battery.last) \/ calm <= battery.since

BatteryInv == BatteryOK /\ Rescans /\ TellsAll

(* An observation tells what has to be told.                               *)
LEMMA TellHeeds ==
  ASSUME ToldOK, NEW last, NEW now, Heeds(last, told.news, told.silent), now.state \in States
  PROVE  /\ Tell(last, now) = [news |-> Tell(last, now).news, silent |-> Tell(last, now).silent]
         /\ Heeds(now, Tell(last, now).news, Tell(last, now).silent)
<1>1. PICK news, silent : news = told.news /\ silent = told.silent
  OBVIOUS
<1>2. told = [news |-> news, silent |-> silent]
  BY <1>1 DEF ToldOK
<1>3. now # Untold
  BY BatteryAssumption DEF BatteryAssumption, Untold
<1>4. CASE ShouldFire(last, now)
  <2>1. Tell(last, now) = [news |-> now, silent |-> Untold]
    BY <1>4 DEF Tell
  <2>2. Heeds(now, now, Untold)
    BY <1>3 DEF Heeds, Hears, Matches
  <2>3. QED
    BY <2>1, <2>2
<1>5. CASE ~ShouldFire(last, now) /\ news = Untold
  <2>1. last = Untold /\ silent = Untold
    BY <1>1, <1>5 DEF Heeds
  <2>2. Tell(last, now) = [news |-> now, silent |-> silent]
    BY <1>1, <1>2, <1>5 DEF Tell
  <2>3. Heeds(now, now, Untold)
    BY <1>3 DEF Heeds, Hears, Matches
  <2>4. QED
    BY <2>1, <2>2, <2>3
<1>6. CASE ~ShouldFire(last, now) /\ news # Untold /\ last = Untold
  <2>1. news.state \notin States
    BY <1>1, <1>6 DEF Heeds
  <2>2. Tell(last, now) = [news |-> news, silent |-> now]
    BY <1>1, <1>2, <1>6 DEF Tell
  <2>3. Heeds(now, news, now)
    BY <1>3, <1>6, <2>1 DEF Heeds, Hears, Matches
  <2>4. QED
    BY <2>2, <2>3
<1>7. CASE ~ShouldFire(last, now) /\ news # Untold /\ last # Untold
  <2>1. Tell(last, now) = [news |-> news, silent |-> silent]
    BY <1>1, <1>2, <1>7 DEF Tell
  <2>2. /\ last.state = now.state
        /\ now.state = "discharging" /\ now.band \in AlertBands => now.band = last.band
    BY <1>7 DEF ShouldFire
  <2>3. /\ Matches(last, Hears(news, silent))
        /\ silent # Untold => news.state \notin States
    BY <1>1, <1>7 DEF Heeds
  <2>4. Matches(now, Hears(news, silent))
    BY <2>2, <2>3 DEF Matches
  <2>5. Heeds(now, news, silent)
    BY <1>3, <1>7, <2>3, <2>4 DEF Heeds
  <2>6. QED
    BY <2>1, <2>5
<1>8. QED
  BY <1>4, <1>5, <1>6, <1>7

(* One that is not in --states changes what was found at first, if         *)
(* anything.                                                               *)
LEMMA TellFiltered ==
  ASSUME ToldOK, NEW last, NEW now, Heeds(last, told.news, told.silent), now.state \notin States
  PROVE  /\ Tell(last, now) = [news |-> Tell(last, now).news, silent |-> Tell(last, now).silent]
         /\ Heeds(last, Tell(last, now).news, Tell(last, now).silent)
<1>1. PICK news, silent : news = told.news /\ silent = told.silent
  OBVIOUS
<1>2. told = [news |-> news, silent |-> silent]
  BY <1>1 DEF ToldOK
<1>3. CASE news = Untold
  <2>1. last = Untold /\ silent = Untold
    BY <1>1, <1>3 DEF Heeds
  <2>2. Tell(last, now) = [news |-> now, silent |-> silent]
    BY <1>1, <1>2, <1>3 DEF Tell
  <2>3. Heeds(last, now, silent)
    BY <2>1 DEF Heeds
  <2>4. QED
    BY <2>2, <2>3
<1>4. CASE news # Untold
  <2>1. Tell(last, now) = [news |-> news, silent |-> silent]
    BY <1>1, <1>2, <1>4 DEF Tell
  <2>2. QED
    BY <1>1, <2>1
<1>5. QED
  BY <1>3, <1>4

(* An evaluation tells what has to be told.                                *)
LEMMA EvaluationHeeds ==
  ASSUME ToldOK, NEW cache, NEW last, Heeds(last, told.news, told.silent),
         NEW after, after = Evaluate(cache, last)
  PROVE  /\ after.told = [news |-> after.told.news, silent |-> after.told.silent]
         /\ Heeds(after.last, after.told.news, after.told.silent)
<1>1. PICK now, said : now = Outlook(cache) /\ said = Tell(last, now)
  OBVIOUS
<1>2. CASE Held(cache) = {}
  <2>1. after = [last |-> last, told |-> told]
    BY <1>2 DEF Evaluate
  <2>2. QED
    BY <2>1 DEF ToldOK
<1>3. CASE Held(cache) # {} /\ now.state \in States
  <2>1. after = [last |-> now, told |-> said]
    BY <1>1, <1>3 DEF Evaluate
  <2>2. said = [news |-> said.news, silent |-> said.silent] /\ Heeds(now, said.news, said.silent)
    BY <1>1, <1>3, TellHeeds
  <2>3. QED
    BY <2>1, <2>2
<1>4. CASE Held(cache) # {} /\ now.state \notin States
  <2>1. after = [last |-> last, told |-> said]
    BY <1>1, <1>4 DEF Evaluate
  <2>2. said = [news |-> said.news, silent |-> said.silent] /\ Heeds(last, said.news, said.silent)
    BY <1>1, <1>4, TellFiltered
  <2>3. QED
    BY <2>1, <2>2
<1>5. QED
  BY <1>2, <1>3, <1>4

(* An evaluation of what has just been read remembers what it comes to.    *)
LEMMA EvaluationIsCurrent ==
  ASSUME NEW cache, NEW last, NEW b \in Batteries, cache[b] # NoReading,
         Outlook(cache).state \in States
  PROVE  Evaluate(cache, last).last = Outlook(cache)
<1>1. Held(cache) # {}
  BY DEF Held
<1>2. PICK now : now = Outlook(cache)
  OBVIOUS
<1>3. PICK said : said = Tell(last, now)
  OBVIOUS
<1>4. Evaluate(cache, last) = [last |-> now, told |-> said]
  BY <1>1, <1>2, <1>3 DEF Evaluate
<1>5. QED
  BY <1>2, <1>4

LEMMA RefreshIsCurrent ==
  ASSUME BatteryOK, NEW cache, NEW known \in SUBSET Batteries, known # {},
         \A b \in known : supply[b].there,
         \A b \in Batteries : supply[b].there => supply[b].reads = Attributes /\ b \in known,
         NEW last
  PROVE  Current(Refresh(cache, known), Evaluate(Refresh(cache, known), last).last)
<1>1. PICK fresh : fresh = Refresh(cache, known)
  OBVIOUS
<1>2. \A b \in Batteries : supply[b].there => fresh[b] = Reading(b)
  BY <1>1 DEF Refresh, Attributes
<1>3. PICK b \in known : b \in Batteries /\ supply[b].there
  OBVIOUS
<1>4. fresh[b] # NoReading
  <2>1. supply[b].state \in Statuses /\ supply[b].reads = Attributes
    <3>1. PICK s : s \in Files \cup {Missing} /\ s = supply[b]
      BY <1>3 DEF BatteryOK
    <3>2. s \in Files
      BY <1>3, <3>1 DEF Missing
    <3>3. QED
      BY <1>3, <3>1, <3>2 DEF Files
  <2>2. Reading(b).state = supply[b].state /\ NoReading.state = "none"
    BY <2>1 DEF Reading, NoReading, Attributes
  <2>3. QED
    BY <1>2, <1>3, <2>1, <2>2, BatteryAssumption DEF BatteryAssumption
<1>5. Outlook(fresh).state \in States => Evaluate(fresh, last).last = Outlook(fresh)
  BY <1>3, <1>4, EvaluationIsCurrent
<1>6. QED
  BY <1>1, <1>2, <1>5 DEF Current

(* A battery is reported or changes.                                       *)
LEMMA ReportKeeps ==
  ASSUME BatteryInv, NEW b \in Batteries, Report(b)
  PROVE  BatteryInv'
<1>1. /\ calm' = 0 /\ UNCHANGED <<battery, told>> /\ supply' # supply /\ supply'[b].there
  BY DEF Report
<1>2. BatteryOK
  BY DEF BatteryInv
<1>3. /\ supply' \in [Batteries -> Files \cup {Missing}]
      /\ \A c \in Batteries : supply[c].there => supply'[c].there
  <2>0. supply \in [Batteries -> Files \cup {Missing}]
    BY <1>2 DEF BatteryOK
  <2>1. PICK s : s \in Files \cup {Missing} /\ s = supply[b]
    BY <2>0
  <2>2. PICK t : t = supply'[b] /\ t.there
    BY <1>1
  <2>3. \A c \in Batteries : c # b => supply'[c] = supply[c]
    BY <2>0 DEF Report
  <2>4. t \in Files /\ supply' = [supply EXCEPT ![b] = t]
    <3>1. CASE \E file \in Plugged : supply' = [supply EXCEPT ![b] = file]
      <4>1. PICK file \in Plugged : supply' = [supply EXCEPT ![b] = file]
        BY <3>1
      <4>2. t = file
        BY <2>0, <2>2, <4>1
      <4>3. QED
        BY <4>1, <4>2 DEF Plugged, Files
    <3>2. CASE \E c \in Capacities : supply' = [supply EXCEPT ![b].capacity = c]
      <4>1. PICK c \in Capacities : supply' = [supply EXCEPT ![b].capacity = c]
        BY <3>2
      <4>2. t = [s EXCEPT !.capacity = c]
        BY <2>0, <2>1, <2>2, <4>1
      <4>3. s.there
        BY <2>1, <2>2, <4>2 DEF Files, Missing
      <4>4. s \in Files
        BY <2>1, <4>3 DEF Missing
      <4>5. t \in Files
        BY <4>2, <4>4 DEF Files
      <4>6. QED
        BY <2>0, <2>1, <4>1, <4>2, <4>5
    <3>3. CASE \E c \in Statuses : supply' = [supply EXCEPT ![b].state = c]
      <4>1. PICK c \in Statuses : supply' = [supply EXCEPT ![b].state = c]
        BY <3>3
      <4>2. t = [s EXCEPT !.state = c]
        BY <2>0, <2>1, <2>2, <4>1
      <4>3. s.there
        BY <2>1, <2>2, <4>2 DEF Files, Missing
      <4>4. s \in Files
        BY <2>1, <4>3 DEF Missing
      <4>5. t \in Files
        BY <4>2, <4>4 DEF Files
      <4>6. QED
        BY <2>0, <2>1, <4>1, <4>2, <4>5
    <3>4. CASE \E a \in Attributes :
                 supply' = [supply EXCEPT ![b].reads = IF a \in @ THEN @ \ {a} ELSE @ \cup {a}]
      <4>1. PICK a \in Attributes :
                   supply' = [supply EXCEPT ![b].reads = IF a \in @ THEN @ \ {a} ELSE @ \cup {a}]
        BY <3>4
      <4>2. PICK reads : reads = IF a \in s.reads THEN s.reads \ {a} ELSE s.reads \cup {a}
        OBVIOUS
      <4>3. t = [s EXCEPT !.reads = reads]
        BY <2>0, <2>1, <2>2, <4>1, <4>2
      <4>4. s.there
        BY <2>1, <2>2, <4>3 DEF Files, Missing
      <4>5. s \in Files
        BY <2>1, <4>4 DEF Missing
      <4>6. reads \in SUBSET Attributes
        BY <4>1, <4>2, <4>5 DEF Files
      <4>7. t \in Files
        BY <4>3, <4>5, <4>6 DEF Files
      <4>8. QED
        BY <2>0, <2>1, <4>1, <4>2, <4>3, <4>7
    <3>5. QED
      BY <3>1, <3>2, <3>3, <3>4 DEF Report
  <2>5. QED
    BY <2>0, <2>2, <2>3, <2>4
<1>4. BatteryOK'
  BY <1>1, <1>2, <1>3 DEF BatteryOK
<1>5. Rescans'
  BY <1>1, <1>2 DEF BatteryInv, Rescans, BatteryOK
<1>6. QED
  BY <1>1, <1>4, <1>5 DEF BatteryInv, TellsAll, ToldOK

(* The batteries are found, read and evaluated.                            *)
LEMMA FindBatteriesKeeps ==
  ASSUME BatteryInv, FindBatteries
  PROVE  BatteryInv'
<1>1. PICK known : known = {b \in Batteries : supply[b].there}
  OBVIOUS
<1>2. PICK cache : cache = Refresh(battery.cache, known)
  OBVIOUS
<1>a. PICK after : after = Evaluate(cache, Untold)
  OBVIOUS
<1>3. PICK last, said : last = after.last /\ said = after.told
  OBVIOUS
<1>4. /\ known # {} /\ told' = said /\ UNCHANGED <<supply, uevents, reports, calm>>
      /\ battery' = [Idling EXCEPT !.known = known, !.cache = cache, !.last = last,
                                   !.wait = RescanInterval]
  BY <1>1, <1>2, <1>a, <1>3 DEF FindBatteries
<1>5. /\ battery'.known = known /\ battery'.cache = cache /\ battery'.last = last
      /\ battery'.wait = RescanInterval /\ battery'.burst = 0 /\ battery'.since = 0
      /\ battery' = [known |-> battery'.known, cache |-> battery'.cache, last |-> battery'.last,
                     burst |-> battery'.burst, since |-> battery'.since, wait |-> battery'.wait]
  <2>1. battery' = [known |-> known, cache |-> cache, last |-> last,
                    burst |-> 0, since |-> 0, wait |-> RescanInterval]
    BY <1>4 DEF Idling
  <2>2. QED
    BY <2>1
<1>6. BatteryOK
  BY DEF BatteryInv
<1>7. cache = [b \in Batteries |-> cache[b]]
  BY <1>2 DEF Refresh
<1>8. BatteryOK'
  BY <1>1, <1>4, <1>5, <1>6, <1>7, BatteryAssumption DEF BatteryOK, BatteryAssumption
<1>9. said = [news |-> said.news, silent |-> said.silent] /\ Heeds(last, said.news, said.silent)
  <2>1. ToldOK /\ told.news = Untold /\ told.silent = Untold
    BY <1>6 DEF BatteryInv, TellsAll, BatteryOK, FindBatteries
  <2>2. Heeds(Untold, told.news, told.silent)
    BY <2>1 DEF Heeds
  <2>3. QED
    BY <1>a, <1>3, <2>1, <2>2, EvaluationHeeds
<1>10. AllFound' => Current(cache, last)
  BY <1>1, <1>2, <1>a, <1>3, <1>4, <1>5, <1>6, RefreshIsCurrent DEF AllFound
<1>11. Current(cache, last) => Current(battery.cache, battery.last)'
  BY <1>4, <1>5 DEF Current, Reading
<1>12. Rescans'
  <2>1. (uevents # <<>> => calm = 0)'
    BY <1>4 DEF BatteryInv, Rescans
  <2>2. (battery.since + battery.wait <= RescanInterval)'
    BY <1>5, BatteryAssumption DEF BatteryAssumption
  <2>3. QED
    BY <1>10, <1>11, <2>1, <2>2 DEF Rescans
<1>13. QED
  BY <1>4, <1>5, <1>8, <1>9, <1>12 DEF BatteryInv, TellsAll, ToldOK

(* One pass of the loop.                                                   *)
LEMMA WakeBatteryKeeps ==
  ASSUME BatteryInv, NEW guess, WakeBattery(guess)
  PROVE  BatteryInv'
<1>a. PICK event, own, due :
        /\ event = Mark(uevents # <<>>)
        /\ own = Mark(\E i \in DOMAIN uevents : uevents[i].battery \in Batteries)
        /\ due = Mark(battery.since >= RescanInterval)
  OBVIOUS
<1>b. PICK burst, updated : /\ burst = IF event = "yes" THEN BurstDuration ELSE battery.burst
                            /\ updated = Apply(battery.cache, guess)
  OBVIOUS
<1>c. PICK cache : cache = IF own # "yes" /\ (event = "yes" \/ burst > 0 \/ due = "yes")
                           THEN Refresh(updated, battery.known) ELSE updated
  OBVIOUS
<1>d. PICK evaluates : evaluates = Mark(event = "yes" \/ burst > 0 \/ due = "yes")
  OBVIOUS
<1>e. PICK last, said, since :
        /\ last = IF evaluates = "yes" THEN Evaluate(cache, battery.last).last ELSE battery.last
        /\ said = IF evaluates = "yes" THEN Evaluate(cache, battery.last).told ELSE told
        /\ since = IF evaluates = "yes" THEN 0 ELSE battery.since
  OBVIOUS
<1>1. /\ event = "yes" <=> uevents # <<>>
      /\ own = "yes" <=> \E i \in DOMAIN uevents : uevents[i].battery \in Batteries
      /\ due = "yes" <=> battery.since >= RescanInterval
      /\ evaluates = "yes" <=> event = "yes" \/ burst > 0 \/ due = "yes"
  BY <1>a, <1>d DEF Mark
<1>2. PICK wait : wait = IF burst > 0 THEN 1 ELSE RescanInterval - since
  OBVIOUS
<1>3. /\ battery.known # {} /\ (event = "yes" \/ battery.wait = 0)
      /\ battery' = [battery EXCEPT !.cache = cache, !.last = last, !.burst = burst,
                                    !.since = since, !.wait = wait]
      /\ told' = said /\ uevents' = <<>>
      /\ UNCHANGED <<supply, reports, calm>>
  BY <1>b, <1>c, <1>e, <1>1, <1>2 DEF WakeBattery, NeedsRefresh
<1>4. BatteryOK /\ Rescans /\ ToldOK /\ Heeds(battery.last, told.news, told.silent)
  BY DEF BatteryInv, TellsAll
<1>5. battery' = [known |-> battery.known, cache |-> cache, last |-> last, burst |-> burst,
                  since |-> since, wait |-> wait]
  <2>1. battery = [known |-> battery.known, cache |-> battery.cache, last |-> battery.last,
                   burst |-> battery.burst, since |-> battery.since, wait |-> battery.wait]
    BY <1>4 DEF BatteryOK
  <2>2. QED
    BY <1>3, <2>1
<1>6. /\ battery'.known = battery.known /\ battery'.cache = cache /\ battery'.last = last
      /\ battery'.burst = burst /\ battery'.since = since /\ battery'.wait = wait
  BY <1>5
<1>7. /\ updated = [b \in Batteries |-> updated[b]]
      /\ cache = [b \in Batteries |-> cache[b]]
  <2>1. updated = [b \in Batteries |-> updated[b]]
    BY <1>b DEF Apply
  <2>2. QED
    BY <1>c, <2>1 DEF Refresh
<1>8. /\ burst \in Nat /\ since \in Nat /\ wait \in Nat
      /\ since + wait <= RescanInterval
  <2>1. /\ RescanInterval \in Nat /\ RescanInterval >= 1 /\ BurstDuration \in Nat
        /\ battery.burst \in Nat /\ battery.since \in Nat /\ battery.wait \in Nat
        /\ battery.since + battery.wait <= RescanInterval
    BY <1>4, BatteryAssumption DEF BatteryOK, Rescans, BatteryAssumption
  <2>2. burst \in Nat /\ since \in Nat /\ since <= RescanInterval
    BY <1>b, <1>e, <2>1
  <2>3. burst > 0 => since = 0
    BY <1>1, <1>e
  <2>4. QED
    BY <1>2, <2>1, <2>2, <2>3
<1>9. BatteryOK'
  BY <1>3, <1>4, <1>5, <1>6, <1>7, <1>8 DEF BatteryOK
<1>10. said = [news |-> said.news, silent |-> said.silent] /\ Heeds(last, said.news, said.silent)
  <2>1. CASE evaluates = "yes"
    <3>1. PICK after : after = Evaluate(cache, battery.last)
      OBVIOUS
    <3>2. last = after.last /\ said = after.told
      BY <1>e, <2>1, <3>1
    <3>3. QED
      BY <1>4, <3>1, <3>2, EvaluationHeeds
  <2>2. CASE evaluates # "yes"
    BY <1>4, <1>e, <2>2 DEF ToldOK
  <2>3. QED
    BY <2>1, <2>2
<1>11. ASSUME AllFound
       PROVE  Current(cache, last) \/ calm <= since
  <2>1. CASE event = "yes"
    <3>1. calm = 0 /\ 0 <= since
      BY <1>1, <1>4, <1>8, <2>1 DEF Rescans
    <3>2. QED
      BY <3>1
  <2>2. CASE event # "yes" /\ evaluates = "yes"
    <3>1. own # "yes"
      BY <1>1, <2>2
    <3>2. cache = Refresh(updated, battery.known) /\ last = Evaluate(cache, battery.last).last
      BY <1>1, <1>c, <1>e, <2>2, <3>1
    <3>3. Current(Refresh(updated, battery.known),
                  Evaluate(Refresh(updated, battery.known), battery.last).last)
      BY <1>4, <1>11, RefreshIsCurrent DEF AllFound, BatteryOK
    <3>4. QED
      BY <3>2, <3>3
  <2>3. CASE event # "yes" /\ evaluates # "yes"
    <3>1. updated = [b \in Batteries |-> battery.cache[b]]
      <4>1. \A b : {i \in DOMAIN uevents : uevents[i].battery = b} = {}
        BY <1>1, <2>3
      <4>2. QED
        BY <1>b, <4>1 DEF Apply
    <3>2. cache = battery.cache
      <4>1. cache = updated
        BY <1>1, <1>c, <2>3
      <4>2. QED
        BY <1>4, <3>1, <4>1 DEF BatteryOK
    <3>3. last = battery.last /\ since = battery.since
      BY <1>e, <2>3
    <3>4. QED
      BY <1>4, <1>11, <3>2, <3>3 DEF Rescans
  <2>4. QED
    BY <2>1, <2>2, <2>3
<1>12. Rescans'
  <2>1. AllFound' => AllFound
    BY <1>3, <1>6 DEF AllFound
  <2>2. Current(cache, last) => Current(battery.cache, battery.last)'
    BY <1>3, <1>6 DEF Current, Reading
  <2>3. AllFound' => (Current(battery.cache, battery.last) \/ calm <= battery.since)'
    BY <1>3, <1>6, <1>11, <2>1, <2>2
  <2>4. QED
    BY <1>3, <1>6, <1>8, <2>3 DEF Rescans
<1>13. QED
  BY <1>3, <1>6, <1>9, <1>10, <1>12 DEF BatteryInv, TellsAll, ToldOK

(* Time passes.                                                            *)
LEMMA BatteryElapseKeeps ==
  ASSUME BatteryInv, BatteryElapse
  PROVE  BatteryInv'
<1>1. PICK burst, wait, since : /\ burst = Less(battery.burst) /\ wait = Less(battery.wait)
                                /\ since = battery.since + 1
  OBVIOUS
<1>2. /\ battery.wait > 0 /\ uevents = <<>>
      /\ battery' = [battery EXCEPT !.burst = burst, !.wait = wait, !.since = since]
      /\ calm' = IF calm > RescanInterval THEN calm ELSE calm + 1
      /\ UNCHANGED <<supply, uevents, reports, told>>
  BY <1>1 DEF BatteryElapse
<1>3. BatteryOK /\ Rescans /\ TellsAll
  BY DEF BatteryInv
<1>4. battery' = [known |-> battery.known, cache |-> battery.cache, last |-> battery.last,
                  burst |-> burst, since |-> since, wait |-> wait]
  <2>1. battery = [known |-> battery.known, cache |-> battery.cache, last |-> battery.last,
                   burst |-> battery.burst, since |-> battery.since, wait |-> battery.wait]
    BY <1>3 DEF BatteryOK
  <2>2. QED
    BY <1>2, <2>1
<1>5. /\ battery'.known = battery.known /\ battery'.cache = battery.cache
      /\ battery'.last = battery.last
      /\ battery'.burst = burst /\ battery'.since = since /\ battery'.wait = wait
  BY <1>4
<1>6. /\ burst \in Nat /\ wait \in Nat /\ since \in Nat /\ calm' \in Nat
      /\ since + wait <= RescanInterval
      /\ calm <= battery.since => calm' <= since
  BY <1>1, <1>2, <1>3, BatteryAssumption DEF BatteryOK, Rescans, Less, BatteryAssumption
<1>7. BatteryOK'
  BY <1>2, <1>3, <1>4, <1>5, <1>6 DEF BatteryOK
<1>8. Rescans'
  <2>1. AllFound' => AllFound
    BY <1>2, <1>5 DEF AllFound
  <2>2. Current(battery.cache, battery.last) => Current(battery.cache, battery.last)'
    BY <1>2, <1>5 DEF Current, Reading
  <2>3. QED
    BY <1>2, <1>3, <1>5, <1>6, <2>1, <2>2 DEF Rescans
<1>9. QED
  BY <1>2, <1>3, <1>5, <1>7, <1>8 DEF BatteryInv, TellsAll, ToldOK

LEMMA BatteryStutter ==
  ASSUME BatteryInv, UNCHANGED batteryVars
  PROVE  BatteryInv'
<1>1. UNCHANGED <<supply, uevents, reports, calm, battery, told>>
  BY DEF batteryVars
<1>2. BatteryOK' /\ TellsAll'
  BY <1>1 DEF BatteryInv, BatteryOK, TellsAll, ToldOK
<1>3. Rescans'
  BY <1>1 DEF BatteryInv, Rescans, AllFound, Current, Reading
<1>4. QED
  BY <1>2, <1>3 DEF BatteryInv

LEMMA BatteryInitial == BatteryInit => BatteryInv
<1> SUFFICES ASSUME BatteryInit PROVE BatteryInv
  OBVIOUS
<1>1. /\ battery = Idling /\ told = [news |-> Untold, silent |-> Untold]
      /\ uevents = <<>> /\ calm = 0
      /\ supply \in [Batteries -> Plugged \cup {Missing}]
  BY DEF BatteryInit
<1>2. /\ battery.known = {} /\ battery.last = Untold /\ battery.burst = 0
      /\ battery.since = 0 /\ battery.wait = 0
      /\ battery.cache = [b \in Batteries |-> NoReading]
      /\ battery = [known |-> battery.known, cache |-> battery.cache, last |-> battery.last,
                    burst |-> battery.burst, since |-> battery.since, wait |-> battery.wait]
  BY <1>1 DEF Idling
<1>3. supply \in [Batteries -> Files \cup {Missing}]
  <2>1. \A s : s \in Plugged => s \in Files
    BY DEF Plugged, Files
  <2>2. QED
    BY <1>1, <2>1
<1>4. BatteryOK
  BY <1>1, <1>2, <1>3 DEF BatteryOK
<1>5. Rescans /\ TellsAll
  BY <1>1, <1>2, BatteryAssumption DEF Rescans, AllFound, TellsAll, ToldOK, Heeds, BatteryAssumption
<1>6. QED
  BY <1>4, <1>5 DEF BatteryInv

LEMMA BatteryKeeps == BatteryInv /\ [BatteryNext]_batteryVars => BatteryInv'
<1> SUFFICES ASSUME BatteryInv, [BatteryNext]_batteryVars PROVE BatteryInv'
  OBVIOUS
<1>1. CASE \E b \in Batteries : Report(b)
  BY <1>1, ReportKeeps
<1>2. CASE FindBatteries
  BY <1>2, FindBatteriesKeeps
<1>3. CASE \E guess \in Guesses(battery.cache) : WakeBattery(guess)
  BY <1>3, WakeBatteryKeeps
<1>4. CASE BatteryElapse
  BY <1>4, BatteryElapseKeeps
<1>5. CASE UNCHANGED batteryVars
  BY <1>5, BatteryStutter
<1>6. QED
  BY <1>1, <1>2, <1>3, <1>4, <1>5 DEF BatteryNext

(* Whatever the kernel has told, left out or told late, and whatever could *)
(* not be read meanwhile: what the user has been told, or found at first,  *)
(* is what the listener knows, band included if it is one to alert for,    *)
(* but for the one silent observation after a first one that is not in     *)
(* --states; and once the kernel has been calm for a rescan interval that  *)
(* is what the batteries come to.                                          *)
THEOREM AlertsAgree == Spec => []BatteryAgrees
<1>1. Init => BatteryInv
  BY BatteryInitial DEF Init
<1>2. BatteryInv /\ [Next]_vars => BatteryInv'
  <2>1. [Next]_vars => [BatteryNext]_batteryVars
    BY DEF Next, vars
  <2>2. QED
    BY <2>1, BatteryKeeps
<1>3. BatteryInv => BatteryAgrees
  <2> SUFFICES ASSUME BatteryInv PROVE BatteryAgrees
    OBVIOUS
  <2>0. BatteryOK /\ Rescans /\ Heeds(battery.last, told.news, told.silent)
    BY DEF BatteryInv, TellsAll
  <2>1. PICK real : real = Refresh(battery.cache, Batteries)
    OBVIOUS
  <2>2. ASSUME battery.known # {}, calm > RescanInterval,
               \A b \in Batteries : supply[b].there => supply[b].reads = Attributes /\ b \in battery.known
        PROVE  /\ battery.cache = real
               /\ Outlook(real).state \in States => battery.last = Outlook(real)
    <3>1. Current(battery.cache, battery.last)
      BY <2>0, <2>2, BatteryAssumption DEF Rescans, AllFound, BatteryOK, BatteryAssumption
    <3>2. \A b \in Batteries : real[b] = battery.cache[b]
      BY <2>1, <2>2, <3>1 DEF Refresh, Current, Attributes
    <3>3. real = [b \in Batteries |-> real[b]]
      BY <2>1 DEF Refresh
    <3>4. battery.cache = real
      BY <2>0, <3>2, <3>3 DEF BatteryOK
    <3>5. QED
      BY <3>1, <3>4 DEF Current
  <2>3. QED
    BY <2>0, <2>1, <2>2 DEF Heeds, Hears, Matches, LastHeard, BatteryAgrees
<1>4. QED
  BY <1>1, <1>2, <1>3, PTL DEF Spec

-----------------------------------------------------------------------------
(* The PipeWire listener.  Each identifier is followed through the events  *)
(* about it that are under way: G, R and P are the places in the wire of   *)
(* those that announce, remove and describe a node under it, f what they   *)
(* say; nd is the node there is, bd the one the listener is bound to, ls   *)
(* the state it remembers; wt and fl are "yes" if nd is wanted, and        *)
(* followed.                                                               *)

(* What is wanted of one is wanted of the other.                           *)
Alike(m, n) == m.class = n.class /\ m.name = n.name

(* A node is announced after the one before it is removed.                 *)
InTurn(G, R, bd, ls) ==
  \A k \in G :
    \/ \E j \in R : j < k /\ \A m \in G : ~(j < m /\ m < k)
    \/ (\A m \in G : m >= k) /\ bd = Gone /\ ls = None

(* There is no node, and the listener knows or will hear of it last.       *)
Absent(G, R, bd, ls) ==
  \/ \E k \in R : \A m \in G : m < k
  \/ G = {} /\ bd = Gone /\ ls = None

(* There is a node, and its announcement comes last.                       *)
Announced(G, R, P, f, nd, bd) ==
  \E k \in G : /\ f[k].born = nd.born /\ Alike(f[k], nd)
               /\ \A m \in G \cup R : m <= k
               /\ \A m \in (G \ {k}) \cup P : f[m].born # nd.born
               /\ bd.born # nd.born

(* The last description of the node is its present state.                  *)
UpToDate(P, f, nd, ls) ==
  \/ ls = nd.state /\ \A m \in P : f[m].born # nd.born
  \/ \E k \in P : f[k] = nd /\ \A m \in P : m > k => f[m].born # nd.born

(* There is a node, and the listener has heard of it.                      *)
Known(G, R, P, f, nd, bd, ls, wt, fl) ==
  /\ G = {} /\ R = {}
  /\ wt = "yes" => bd.born = nd.born
  /\ fl = "yes" => UpToDate(P, f, nd, ls)

Agrees(G, R, P, f, nd, bd, ls, wt, fl) ==
  /\ InTurn(G, R, bd, ls)
  /\ nd = Gone => Absent(G, R, bd, ls)
  /\ nd # Gone => Announced(G, R, P, f, nd, bd) \/ Known(G, R, P, f, nd, bd, ls, wt, fl)

Places == Nat \ {0}

(* Events that are not about the identifier come and go.                   *)
Moved(G, G2, s) == /\ G \in SUBSET Places /\ G2 \in SUBSET Places
                   /\ s = 1 => 1 \notin G
                   /\ \A k \in Places : k \in G2 <=> k + s \in G
Saying(G2, f, f2, s) == \A k \in G2 : f2[k] = f[k + s]

LEMMA OthersPass ==
  ASSUME NEW s \in {0, 1}, NEW G, NEW R, NEW P, NEW G2, NEW R2, NEW P2,
         NEW f, NEW f2, NEW nd, NEW bd, NEW ls, NEW wt, NEW fl,
         Agrees(G, R, P, f, nd, bd, ls, wt, fl),
         Moved(G, G2, s), Moved(R, R2, s), Moved(P, P2, s),
         Saying(G2, f, f2, s), Saying(P2, f, f2, s)
  PROVE  Agrees(G2, R2, P2, f2, nd, bd, ls, wt, fl)
<1>a. /\ G \in SUBSET Places /\ R \in SUBSET Places /\ P \in SUBSET Places
      /\ G2 \in SUBSET Places /\ R2 \in SUBSET Places /\ P2 \in SUBSET Places
      /\ s = 1 => 1 \notin G /\ 1 \notin R /\ 1 \notin P
  BY DEF Moved
<1>b. \A k \in Places : /\ k \in G2 <=> k + s \in G
                        /\ k \in R2 <=> k + s \in R
                        /\ k \in P2 <=> k + s \in P
  BY DEF Moved
<1>c. \A k \in G2 \cup P2 : f2[k] = f[k + s]
  BY DEF Saying
<1> USE <1>a, <1>b, <1>c
<1>1. /\ \A m \in G : m - s \in G2 /\ m - s \in Nat /\ m \in Nat
      /\ \A m \in R : m - s \in R2 /\ m - s \in Nat /\ m \in Nat
      /\ \A m \in P : m - s \in P2 /\ m - s \in Nat /\ m \in Nat
  <2> SUFFICES ASSUME NEW m \in Places, m \in G \/ m \in R \/ m \in P
               PROVE  m - s \in Places /\ (m - s) + s = m
    BY DEF Places
  <2>1. CASE s = 0
    BY <2>1 DEF Places
  <2>2. CASE s = 1
    <3>1. m # 1
      BY <2>2
    <3>2. QED
      BY <2>2, <3>1 DEF Places
  <2>3. QED
    BY <2>1, <2>2
<1>2. /\ \A k \in G2 : k + s \in G /\ k \in Nat
      /\ \A k \in R2 : k + s \in R /\ k \in Nat
      /\ \A k \in P2 : k + s \in P /\ k \in Nat
  BY DEF Places
<1>3. /\ G = {} <=> G2 = {}
      /\ R = {} <=> R2 = {}
  BY <1>1, <1>2
<1>4. InTurn(G2, R2, bd, ls)
  <2> SUFFICES ASSUME NEW k \in G2
               PROVE  \/ \E j \in R2 : j < k /\ \A m \in G2 : ~(j < m /\ m < k)
                      \/ (\A m \in G2 : m >= k) /\ bd = Gone /\ ls = None
    BY DEF InTurn
  <2>1. CASE \E j \in R : j < k + s /\ \A m \in G : ~(j < m /\ m < k + s)
    <3>1. PICK j \in R : j < k + s /\ \A m \in G : ~(j < m /\ m < k + s)
      BY <2>1
    <3>2. j - s \in R2 /\ j - s < k
      BY <1>1, <1>2, <3>1
    <3>3. \A m \in G2 : ~(j - s < m /\ m < k)
      BY <1>1, <1>2, <3>1
    <3>4. QED
      BY <3>2, <3>3
  <2>2. CASE (\A m \in G : m >= k + s) /\ bd = Gone /\ ls = None
    BY <1>1, <1>2, <2>2
  <2>3. QED
    BY <1>2, <2>1, <2>2 DEF Agrees, InTurn
<1>5. nd = Gone => Absent(G2, R2, bd, ls)
  <2> SUFFICES ASSUME Absent(G, R, bd, ls) PROVE Absent(G2, R2, bd, ls)
    BY DEF Agrees
  <2>1. CASE \E k \in R : \A m \in G : m < k
    <3>1. PICK k \in R : \A m \in G : m < k
      BY <2>1
    <3>2. k - s \in R2 /\ \A m \in G2 : m < k - s
      BY <1>1, <1>2, <3>1
    <3>3. QED
      BY <3>2 DEF Absent
  <2>2. QED
    BY <1>3, <2>1 DEF Absent
<1>6. Announced(G, R, P, f, nd, bd) => Announced(G2, R2, P2, f2, nd, bd)
  <2> SUFFICES ASSUME NEW k \in G,
                      f[k].born = nd.born, Alike(f[k], nd),
                      \A m \in G \cup R : m <= k,
                      \A m \in (G \ {k}) \cup P : f[m].born # nd.born,
                      bd.born # nd.born
               PROVE  Announced(G2, R2, P2, f2, nd, bd)
    BY DEF Announced
  <2>1. k - s \in G2 /\ f2[k - s] = f[k]
    BY <1>1
  <2>2. \A m \in G2 \cup R2 : m <= k - s
    BY <1>1, <1>2
  <2>3. \A m \in (G2 \ {k - s}) \cup P2 : f2[m].born # nd.born
    BY <1>1, <1>2
  <2>4. QED
    BY <2>1, <2>2, <2>3 DEF Announced
<1>7. UpToDate(P, f, nd, ls) => UpToDate(P2, f2, nd, ls)
  <2>1. CASE ls = nd.state /\ \A m \in P : f[m].born # nd.born
    BY <1>2, <2>1 DEF UpToDate
  <2>2. CASE \E k \in P : f[k] = nd /\ \A m \in P : m > k => f[m].born # nd.born
    <3>1. PICK k \in P : f[k] = nd /\ \A m \in P : m > k => f[m].born # nd.born
      BY <2>2
    <3>2. k - s \in P2 /\ f2[k - s] = nd
      BY <1>1, <3>1
    <3>3. \A m \in P2 : m > k - s => f2[m].born # nd.born
      BY <1>1, <1>2, <3>1
    <3>4. QED
      BY <3>2, <3>3 DEF UpToDate
  <2>3. QED
    BY <2>1, <2>2 DEF UpToDate
<1>8. Known(G, R, P, f, nd, bd, ls, wt, fl) => Known(G2, R2, P2, f2, nd, bd, ls, wt, fl)
  BY <1>3, <1>7 DEF Known
<1>9. QED
  BY <1>4, <1>5, <1>6, <1>8 DEF Agrees

LEMMA PlacesBelow ==
  ASSUME NEW S \in SUBSET Places, NEW n \in Nat, \A k \in S : k <= n
  PROVE  n + 1 \in Nat /\ \A k \in S : k \in Nat /\ k < n + 1
BY DEF Places

(* A node is announced.                                                    *)
LEMMA NodeComes ==
  ASSUME NEW G \in SUBSET Places, NEW R \in SUBSET Places, NEW P \in SUBSET Places,
         NEW f, NEW f2, NEW bd, NEW ls, NEW n \in Nat, NEW new, NEW fl, NEW wt, NEW fl2, NEW wt2,
         Agrees(G, R, P, f, Gone, bd, ls, wt, fl),
         \A k \in G \cup R \cup P : k <= n,
         \A k \in G \cup P : f2[k] = f[k] /\ f[k].born # new.born,
         f2[n + 1] = new, bd.born # new.born, new # Gone
  PROVE  Agrees(G \cup {n + 1}, R, P, f2, new, bd, ls, wt2, fl2)
<1> DEFINE G2 == G \cup {n + 1}
<1>0. n + 1 \in Nat /\ \A k \in G \cup R \cup P : k \in Nat /\ k < n + 1
  <2>1. G \cup R \cup P \in SUBSET Places
    OBVIOUS
  <2>2. QED
    BY <2>1, PlacesBelow
<1>1. Absent(G, R, bd, ls) /\ InTurn(G, R, bd, ls)
  BY DEF Agrees
<1>2. InTurn(G2, R, bd, ls)
  <2> SUFFICES ASSUME NEW k \in G2
               PROVE  \/ \E j \in R : j < k /\ \A m \in G2 : ~(j < m /\ m < k)
                      \/ (\A m \in G2 : m >= k) /\ bd = Gone /\ ls = None
    BY DEF InTurn
  <2>1. CASE k \in G
    BY <1>0, <1>1, <2>1 DEF InTurn
  <2>2. CASE k = n + 1
    BY <1>0, <1>1, <2>2 DEF Absent
  <2>3. QED
    BY <2>1, <2>2
<1>3. Announced(G2, R, P, f2, new, bd)
  BY <1>0 DEF Announced, Alike
<1>4. QED
  BY <1>2, <1>3 DEF Agrees

(* A node is removed.                                                      *)
LEMMA NodeGoes ==
  ASSUME NEW G \in SUBSET Places, NEW R \in SUBSET Places, NEW P \in SUBSET Places,
         NEW f, NEW f2, NEW nd, NEW bd, NEW ls, NEW n \in Nat, NEW fl, NEW wt, NEW fl2, NEW wt2,
         Agrees(G, R, P, f, nd, bd, ls, wt, fl),
         \A k \in G \cup R \cup P : k <= n
  PROVE  Agrees(G, R \cup {n + 1}, P, f2, Gone, bd, ls, wt2, fl2)
<1>1. n + 1 \in Nat /\ \A k \in G \cup R \cup P : k \in Nat /\ k < n + 1
  <2>1. G \cup R \cup P \in SUBSET Places
    OBVIOUS
  <2>2. QED
    BY <2>1, PlacesBelow
<1>2. InTurn(G, R \cup {n + 1}, bd, ls)
  BY <1>1 DEF Agrees, InTurn
<1>3. Absent(G, R \cup {n + 1}, bd, ls)
  BY <1>1 DEF Absent
<1>4. QED
  BY <1>2, <1>3 DEF Agrees

(* A node changes, and a listener that is bound to it hears of it.         *)
Turned(P, P2, f, f2, n, nd, new, bd) ==
  /\ nd # Gone /\ new # Gone /\ new.born = nd.born /\ Alike(new, nd)
  /\ P2 = IF bd.born = nd.born THEN P \cup {n + 1} ELSE P
  /\ bd.born = nd.born => f2[n + 1] = new

LEMMA NodeTurns ==
  ASSUME NEW G \in SUBSET Places, NEW R \in SUBSET Places, NEW P \in SUBSET Places,
         NEW f, NEW f2, NEW nd, NEW bd, NEW ls, NEW n \in Nat, NEW new, NEW fl, NEW wt, NEW P2,
         Agrees(G, R, P, f, nd, bd, ls, wt, fl), Turned(P, P2, f, f2, n, nd, new, bd),
         \A k \in G \cup R \cup P : k <= n,
         \A k \in G \cup P : f2[k] = f[k], fl = "yes" => wt = "yes"
  PROVE  Agrees(G, R, P2, f2, new, bd, ls, wt, fl)
<1> USE DEF Turned
<1>1. n + 1 \in Nat /\ \A k \in G \cup R \cup P : k \in Nat /\ k < n + 1
  <2>1. G \cup R \cup P \in SUBSET Places
    OBVIOUS
  <2>2. QED
    BY <2>1, PlacesBelow
<1>2. InTurn(G, R, bd, ls)
  BY DEF Agrees
<1>3. ASSUME Announced(G, R, P, f, nd, bd)
      PROVE  Announced(G, R, P2, f2, new, bd)
  <2>1. P2 = P
    BY <1>3 DEF Announced
  <2>2. QED
    BY <1>3, <2>1 DEF Announced, Alike
<1>4. ASSUME Known(G, R, P, f, nd, bd, ls, wt, fl)
      PROVE  Known(G, R, P2, f2, new, bd, ls, wt, fl)
  <2>1. ASSUME fl = "yes"
        PROVE  UpToDate(P2, f2, new, ls)
    <3>1. bd.born = nd.born
      BY <1>4, <2>1 DEF Known
    <3>2. P2 = P \cup {n + 1} /\ f2[n + 1] = new
      BY <3>1
    <3>3. \A m \in P2 : ~(m > n + 1)
      BY <1>1, <3>2
    <3>4. QED
      BY <3>2, <3>3 DEF UpToDate
  <2>2. QED
    BY <1>4, <2>1 DEF Known
<1>5. QED
  BY <1>2, <1>3, <1>4 DEF Agrees

(* An announcement that is read and is of the node there is, is of its     *)
(* class.                                                                  *)
LEMMA FirstIsNode ==
  ASSUME NEW G \in SUBSET Places, NEW R \in SUBSET Places, NEW P \in SUBSET Places,
         NEW f, NEW nd, NEW bd, NEW ls, NEW wt, NEW fl,
         Agrees(G, R, P, f, nd, bd, ls, wt, fl),
         1 \in G, f[1].born = nd.born, f[1].born # Gone.born
  PROVE  Alike(f[1], nd) /\ nd # Gone
<1>1. nd # Gone
  OBVIOUS
<1>2. Announced(G, R, P, f, nd, bd)
  BY <1>1 DEF Agrees, Known
<1>3. QED
  BY <1>1, <1>2 DEF Announced

(* The listener is told of a node: it binds to a wanted one, which answers *)
(* with its state if it is the one there is.                               *)
Told(G, R, P, G2, R2, P2, f, f2, w, n, nd, wt, bd, bd2, answers) ==
  /\ 1 \in G /\ f[1] = w /\ 1 \notin R /\ 1 \notin P
  /\ answers = "yes" <=> (w.born = nd.born /\ wt = "yes")
  /\ \A k \in Places : k \in G2 <=> k + 1 \in G
  /\ \A k \in Places : k \in R2 <=> k + 1 \in R
  /\ \A k \in Places : k \in P2 <=> k + 1 \in P \/ (answers = "yes" /\ k = n)
  /\ \A k \in Places : k + 1 \in G \cup P => f2[k] = f[k + 1]
  /\ answers = "yes" => f2[n] = nd
  /\ IF answers = "yes" THEN bd2 = w ELSE bd2 \in {bd, w}

LEMMA NodeIsTold ==
  ASSUME NEW G \in SUBSET Places, NEW R \in SUBSET Places, NEW P \in SUBSET Places,
         NEW G2 \in SUBSET Places, NEW R2 \in SUBSET Places, NEW P2 \in SUBSET Places,
         NEW f, NEW f2, NEW nd, NEW bd, NEW ls, NEW wt, NEW fl, NEW w, NEW n \in Places,
         NEW bd2, NEW answers,
         Agrees(G, R, P, f, nd, bd, ls, wt, fl),
         Told(G, R, P, G2, R2, P2, f, f2, w, n, nd, wt, bd, bd2, answers),
         \A k \in G \cup R \cup P : k <= n,
         nd # Gone => nd.born # Gone.born, fl = "yes" => wt = "yes"
  PROVE  /\ ls = None /\ bd = Gone
         /\ Agrees(G2, R2, P2, f2, nd, bd2, ls, wt, fl)
<1>t. /\ 1 \in G /\ f[1] = w /\ 1 \notin R /\ 1 \notin P
      /\ answers = "yes" <=> (w.born = nd.born /\ wt = "yes")
      /\ \A k \in Places : k \in G2 <=> k + 1 \in G
      /\ \A k \in Places : k \in R2 <=> k + 1 \in R
      /\ \A k \in Places : k \in P2 <=> k + 1 \in P \/ (answers = "yes" /\ k = n)
      /\ \A k \in Places : k + 1 \in G \cup P => f2[k] = f[k + 1]
      /\ answers = "yes" => f2[n] = nd
      /\ IF answers = "yes" THEN bd2 = w ELSE bd2 \in {bd, w}
  BY DEF Told
<1>p. 1 \in G /\ f[1] = w /\ 1 \notin R /\ 1 \notin P
  BY <1>t
<1>0. /\ \A m \in G \cup R \cup P : m \in Nat /\ m >= 1
      /\ \A m \in G2 \cup R2 \cup P2 : m \in Nat /\ m >= 1
      /\ n \in Nat /\ n >= 1
  BY DEF Places
<1>a. /\ \A k \in G2 : k + 1 \in G
      /\ \A k \in R2 : k + 1 \in R
      /\ \A k \in P2 : k + 1 \in P \/ (answers = "yes" /\ k = n)
  BY <1>t
<1>b. /\ \A m \in G : m # 1 => m - 1 \in G2 /\ (m - 1) + 1 = m
      /\ \A m \in R : m # 1 => m - 1 \in R2 /\ (m - 1) + 1 = m
      /\ \A m \in P : m # 1 => m - 1 \in P2 /\ (m - 1) + 1 = m
  <2> SUFFICES ASSUME NEW m \in Places, m # 1
               PROVE  m - 1 \in Places /\ (m - 1) + 1 = m
    BY <1>t DEF Places
  <2>1. QED
    BY DEF Places
<1>1. ls = None /\ bd = Gone
  <2>1. ~\E j \in R : j < 1
    BY <1>0
  <2>2. QED
    BY <1>p, <2>1 DEF Agrees, InTurn
<1>2. InTurn(G2, R2, bd2, ls)
  <2> SUFFICES ASSUME NEW k \in G2
               PROVE  \E j \in R2 : j < k /\ \A m \in G2 : ~(j < m /\ m < k)
    BY DEF InTurn
  <2>1. k + 1 \in G /\ ~(1 >= k + 1)
    BY <1>0, <1>a, <1>p
  <2>2. PICK q \in G : q = k + 1 /\ ~(1 >= q)
    BY <2>1
  <2>3. PICK j \in R : j < q /\ \A m \in G : ~(j < m /\ m < q)
    <3>1. InTurn(G, R, bd, ls) /\ 1 \in G
      BY <1>p DEF Agrees
    <3>2. QED
      BY <2>2, <3>1 DEF InTurn
  <2>4. j \in Nat /\ q \in Nat /\ j < k + 1 /\ j # 1
    BY <1>0, <1>p, <2>2, <2>3
  <2>5. j - 1 \in R2 /\ j - 1 < k
    BY <1>0, <1>b, <2>4
  <2>6. \A m \in G2 : ~(j - 1 < m /\ m < k)
    BY <1>0, <1>a, <2>2, <2>3, <2>4
  <2>7. QED
    BY <2>5, <2>6
<1>3. ASSUME nd = Gone
      PROVE  Absent(G2, R2, bd2, ls)
  <2>1. PICK k \in R : \A m \in G : m < k
    BY <1>3, <1>p DEF Agrees, Absent
  <2>2. k - 1 \in R2 /\ \A m \in G2 : m < k - 1
    BY <1>0, <1>a, <1>b, <1>p, <2>1
  <2>3. QED
    BY <2>2 DEF Absent
<1>4. ASSUME nd # Gone
      PROVE  \/ Announced(G2, R2, P2, f2, nd, bd2)
             \/ Known(G2, R2, P2, f2, nd, bd2, ls, wt, fl)
  <2>1. PICK k \in G : /\ f[k].born = nd.born /\ Alike(f[k], nd)
                       /\ \A m \in G \cup R : m <= k
                       /\ \A m \in (G \ {k}) \cup P : f[m].born # nd.born
                       /\ bd.born # nd.born
    BY <1>4, <1>p DEF Agrees, Known, Announced
  <2>2. CASE k = 1
    <3>1. G2 = {} /\ R2 = {}
      <4>1. \A m \in G \cup R : m <= 1
        BY <2>1, <2>2
      <4>2. \A m \in G2 \cup R2 : FALSE
        BY <1>0, <1>a, <4>1
      <4>3. QED
        BY <4>2
    <3>2. w.born = nd.born
      BY <1>p, <2>1, <2>2
    <3>3. wt = "yes" => answers = "yes" /\ bd2 = w /\ f2[n] = nd
      BY <1>t, <3>2
    <3>4. wt = "yes" => UpToDate(P2, f2, nd, ls)
      <4> SUFFICES ASSUME wt = "yes" PROVE UpToDate(P2, f2, nd, ls)
        OBVIOUS
      <4>1. n \in P2 /\ f2[n] = nd
        BY <1>t, <3>3
      <4>2. \A m \in P2 : ~(m > n)
        BY <1>0, <1>a, <1>p
      <4>3. QED
        BY <4>1, <4>2 DEF UpToDate
    <3>5. QED
      BY <3>1, <3>2, <3>3, <3>4 DEF Known
  <2>3. CASE k # 1
    <3>1. f[1].born # nd.born
      BY <1>p, <2>1, <2>3
    <3>2. answers # "yes" /\ bd2.born # nd.born
      BY <1>t, <2>1, <3>1
    <3>3. k - 1 \in G2 /\ f2[k - 1] = f[k]
      BY <1>b, <1>t, <2>3
    <3>4. \A m \in G2 \cup R2 : m <= k - 1
      <4>1. \A m \in G \cup R : m <= k
        BY <2>1
      <4>2. QED
        BY <1>0, <1>a, <4>1, SMTT(20)
    <3>5. \A m \in (G2 \ {k - 1}) \cup P2 : f2[m].born # nd.born
      BY <1>0, <1>a, <1>t, <2>1, <3>2, SMTT(20)
    <3>6. QED
      BY <2>1, <3>2, <3>3, <3>4, <3>5 DEF Announced
  <2>4. QED
    BY <2>2, <2>3
<1>5. QED
  BY <1>1, <1>2, <1>3, <1>4 DEF Agrees

(* The listener is told that a node has gone.                              *)
LEMMA NodeIsForgotten ==
  ASSUME NEW G \in SUBSET Places, NEW R \in SUBSET Places, NEW P \in SUBSET Places,
         NEW G2 \in SUBSET Places, NEW R2 \in SUBSET Places, NEW P2 \in SUBSET Places,
         NEW f, NEW f2, NEW nd, NEW bd, NEW ls, NEW wt, NEW fl,
         Agrees(G, R, P, f, nd, bd, ls, wt, fl),
         1 \in R, 1 \notin G, 1 \notin P,
         \A k \in Places : k \in G2 <=> k + 1 \in G,
         \A k \in Places : k \in R2 <=> k + 1 \in R,
         \A k \in Places : k \in P2 <=> k + 1 \in P,
         \A k \in G2 \cup P2 : f2[k] = f[k + 1],
         nd # Gone => nd.born # Gone.born
  PROVE  Agrees(G2, R2, P2, f2, nd, Gone, None, wt, fl)
<1>0. /\ \A m \in G \cup R \cup P : m \in Nat /\ m >= 1
      /\ \A m \in G2 \cup R2 \cup P2 : m \in Nat /\ m >= 1
  BY DEF Places
<1>a. /\ \A k \in G2 : k + 1 \in G
      /\ \A k \in R2 : k + 1 \in R
      /\ \A k \in P2 : k + 1 \in P
  OBVIOUS
<1>b. /\ \A m \in G : m # 1 => m - 1 \in G2 /\ (m - 1) + 1 = m
      /\ \A m \in R : m # 1 => m - 1 \in R2 /\ (m - 1) + 1 = m
      /\ \A m \in P : m # 1 => m - 1 \in P2 /\ (m - 1) + 1 = m
  <2> SUFFICES ASSUME NEW m \in Places, m # 1
               PROVE  m - 1 \in Places /\ (m - 1) + 1 = m
    BY DEF Places
  <2>1. QED
    BY DEF Places
<1>2. InTurn(G2, R2, Gone, None)
  <2> SUFFICES ASSUME NEW k \in G2
               PROVE  \/ \E j \in R2 : j < k /\ \A m \in G2 : ~(j < m /\ m < k)
                      \/ \A m \in G2 : m >= k
    BY DEF InTurn
  <2>1. CASE \A m \in G : m >= k + 1
    BY <1>0, <1>a, <2>1
  <2>2. CASE \E j \in R : j < k + 1 /\ \A m \in G : ~(j < m /\ m < k + 1)
    <3>1. PICK j \in R : j < k + 1 /\ \A m \in G : ~(j < m /\ m < k + 1)
      BY <2>2
    <3>2. CASE j = 1
      <4>1. \A m \in G2 : m >= k
        BY <1>0, <1>a, <3>1, <3>2
      <4>2. QED
        BY <4>1
    <3>3. CASE j # 1
      <4>1. j - 1 \in R2 /\ j \in Nat /\ j - 1 < k
        BY <1>0, <1>b, <3>1, <3>3
      <4>2. \A m \in G2 : ~(j - 1 < m /\ m < k)
        BY <1>0, <1>a, <3>1, <4>1
      <4>3. QED
        BY <4>1, <4>2
    <3>4. QED
      BY <3>2, <3>3
  <2>3. QED
    BY <1>a, <2>1, <2>2 DEF Agrees, InTurn
<1>3. ASSUME nd = Gone
      PROVE  Absent(G2, R2, Gone, None)
  <2>1. CASE G2 = {}
    BY <2>1 DEF Absent
  <2>2. CASE G2 # {}
    <3>1. PICK k \in R : \A m \in G : m < k
      BY <1>3, <1>a, <2>2 DEF Agrees, Absent
    <3>2. k # 1
      BY <1>0, <1>a, <2>2, <3>1
    <3>3. k - 1 \in R2 /\ \A m \in G2 : m < k - 1
      BY <1>0, <1>a, <1>b, <3>1, <3>2
    <3>4. QED
      BY <3>3 DEF Absent
  <2>3. QED
    BY <2>1, <2>2
<1>4. ASSUME nd # Gone
      PROVE  Announced(G2, R2, P2, f2, nd, Gone)
  <2>1. PICK k \in G : /\ f[k].born = nd.born /\ Alike(f[k], nd)
                       /\ \A m \in G \cup R : m <= k
                       /\ \A m \in (G \ {k}) \cup P : f[m].born # nd.born
    BY <1>4 DEF Agrees, Known, Announced
  <2>2. k # 1
    OBVIOUS
  <2>3. k - 1 \in G2 /\ f2[k - 1] = f[k]
    BY <1>b, <2>2
  <2>4. \A m \in G2 \cup R2 : m <= k - 1
    BY <1>0, <1>a, <2>1
  <2>5. \A m \in (G2 \ {k - 1}) \cup P2 : f2[m].born # nd.born
    BY <1>0, <1>a, <2>1
  <2>6. QED
    BY <1>4, <2>1, <2>3, <2>4, <2>5 DEF Announced
<1>5. QED
  BY <1>2, <1>3, <1>4 DEF Agrees

(* The listener is told the state of a node, and hears it if bound to it.  *)
Heard(G, R, P, f, w, nd, bd, ls, ls2, wt, fl, heard) ==
  /\ 1 \in P /\ f[1] = w /\ 1 \notin G /\ 1 \notin R
  /\ w.born # Gone.born /\ (fl = "yes" => wt = "yes")
  /\ heard = "yes" => bd.born = w.born
  /\ fl = "yes" /\ w = nd /\ bd.born = w.born => heard = "yes"
  /\ ls2 = IF heard = "yes" THEN w.state ELSE ls

LEMMA NodeIsHeard ==
  ASSUME NEW G \in SUBSET Places, NEW R \in SUBSET Places, NEW P \in SUBSET Places,
         NEW G2 \in SUBSET Places, NEW R2 \in SUBSET Places, NEW P2 \in SUBSET Places,
         NEW f, NEW f2, NEW nd, NEW bd, NEW ls, NEW wt, NEW fl, NEW w, NEW heard, NEW ls2,
         Agrees(G, R, P, f, nd, bd, ls, wt, fl),
         Heard(G, R, P, f, w, nd, bd, ls, ls2, wt, fl, heard),
         \A k \in Places : k \in G2 <=> k + 1 \in G,
         \A k \in Places : k \in R2 <=> k + 1 \in R,
         \A k \in Places : k \in P2 <=> k + 1 \in P,
         \A k \in G2 \cup P2 : f2[k] = f[k + 1]
  PROVE  Agrees(G2, R2, P2, f2, nd, bd, ls2, wt, fl)
<1>t. /\ 1 \in P /\ f[1] = w /\ 1 \notin G /\ 1 \notin R
      /\ w.born # Gone.born /\ (fl = "yes" => wt = "yes")
      /\ heard = "yes" => bd.born = w.born
      /\ fl = "yes" /\ w = nd /\ bd.born = w.born => heard = "yes"
      /\ ls2 = IF heard = "yes" THEN w.state ELSE ls
  BY DEF Heard
<1> USE <1>t
<1>0. /\ \A m \in G \cup R \cup P : m \in Nat /\ m >= 1
      /\ \A m \in G2 \cup R2 \cup P2 : m \in Nat /\ m >= 1
  BY DEF Places
<1>a. /\ \A k \in G2 : k + 1 \in G
      /\ \A k \in R2 : k + 1 \in R
      /\ \A k \in P2 : k + 1 \in P
  OBVIOUS
<1>b. /\ \A m \in G : m # 1 => m - 1 \in G2 /\ (m - 1) + 1 = m
      /\ \A m \in R : m # 1 => m - 1 \in R2 /\ (m - 1) + 1 = m
      /\ \A m \in P : m # 1 => m - 1 \in P2 /\ (m - 1) + 1 = m
  <2> SUFFICES ASSUME NEW m \in Places, m # 1
               PROVE  m - 1 \in Places /\ (m - 1) + 1 = m
    BY DEF Places
  <2>1. QED
    BY DEF Places
<1>1. bd = Gone => ls2 = ls
  OBVIOUS
<1>2. InTurn(G2, R2, bd, ls2)
  <2> SUFFICES ASSUME NEW k \in G2
               PROVE  \/ \E j \in R2 : j < k /\ \A m \in G2 : ~(j < m /\ m < k)
                      \/ (\A m \in G2 : m >= k) /\ bd = Gone /\ ls2 = None
    BY DEF InTurn
  <2>1. CASE (\A m \in G : m >= k + 1) /\ bd = Gone /\ ls = None
    BY <1>0, <1>1, <1>a, <2>1
  <2>2. CASE \E j \in R : j < k + 1 /\ \A m \in G : ~(j < m /\ m < k + 1)
    <3>1. PICK j \in R : j < k + 1 /\ \A m \in G : ~(j < m /\ m < k + 1)
      BY <2>2
    <3>2. j - 1 \in R2 /\ j \in Nat /\ j - 1 < k
      BY <1>0, <1>b, <3>1
    <3>3. \A m \in G2 : ~(j - 1 < m /\ m < k)
      BY <1>0, <1>a, <3>1, <3>2
    <3>4. QED
      BY <3>2, <3>3
  <2>3. QED
    BY <1>a, <2>1, <2>2 DEF Agrees, InTurn
<1>3. ASSUME nd = Gone
      PROVE  Absent(G2, R2, bd, ls2)
  <2>1. CASE G = {} /\ bd = Gone /\ ls = None
    BY <1>1, <1>a, <2>1 DEF Absent
  <2>2. CASE \E k \in R : \A m \in G : m < k
    <3>1. PICK k \in R : \A m \in G : m < k
      BY <2>2
    <3>2. k - 1 \in R2 /\ \A m \in G2 : m < k - 1
      BY <1>0, <1>a, <1>b, <3>1
    <3>3. QED
      BY <3>2 DEF Absent
  <2>3. QED
    BY <1>3, <2>1, <2>2 DEF Agrees, Absent
<1>4. ASSUME Announced(G, R, P, f, nd, bd)
      PROVE  Announced(G2, R2, P2, f2, nd, bd)
  <2>1. PICK k \in G : /\ f[k].born = nd.born /\ Alike(f[k], nd)
                       /\ \A m \in G \cup R : m <= k
                       /\ \A m \in (G \ {k}) \cup P : f[m].born # nd.born
                       /\ bd.born # nd.born
    BY <1>4 DEF Announced
  <2>2. k - 1 \in G2 /\ f2[k - 1] = f[k]
    BY <1>b
  <2>3. \A m \in G2 \cup R2 : m <= k - 1
    BY <1>0, <1>a, <2>1
  <2>4. \A m \in (G2 \ {k - 1}) \cup P2 : f2[m].born # nd.born
    BY <1>0, <1>a, <2>1
  <2>5. QED
    BY <2>1, <2>2, <2>3, <2>4 DEF Announced
<1>5. ASSUME Known(G, R, P, f, nd, bd, ls, wt, fl)
      PROVE  Known(G2, R2, P2, f2, nd, bd, ls2, wt, fl)
  <2>1. G2 = {} /\ R2 = {}
    BY <1>5, <1>a DEF Known
  <2>2. ASSUME fl = "yes"
        PROVE  UpToDate(P2, f2, nd, ls2)
    <3>1. bd.born = nd.born /\ UpToDate(P, f, nd, ls)
      BY <1>5, <2>2 DEF Known
    <3>2. CASE ls = nd.state /\ \A m \in P : f[m].born # nd.born
      <4>1. ls2 = nd.state
        BY <3>1, <3>2
      <4>2. \A m \in P2 : f2[m].born # nd.born
        BY <1>a, <3>2
      <4>3. QED
        BY <4>1, <4>2 DEF UpToDate
    <3>3. CASE \E k \in P : f[k] = nd /\ \A m \in P : m > k => f[m].born # nd.born
      <4>1. PICK k \in P : f[k] = nd /\ \A m \in P : m > k => f[m].born # nd.born
        BY <3>3
      <4>2. CASE k = 1
        <5>1. ls2 = nd.state
          BY <2>2, <3>1, <4>1, <4>2
        <5>2. \A m \in P2 : f2[m].born # nd.born
          BY <1>0, <1>a, <4>1, <4>2
        <5>3. QED
          BY <5>1, <5>2 DEF UpToDate
      <4>3. CASE k # 1
        <5>1. k - 1 \in P2 /\ f2[k - 1] = nd
          BY <1>b, <4>1, <4>3
        <5>2. \A m \in P2 : m > k - 1 => f2[m].born # nd.born
          BY <1>0, <1>a, <4>1
        <5>3. QED
          BY <5>1, <5>2 DEF UpToDate
      <4>4. QED
        BY <4>2, <4>3
    <3>4. QED
      BY <3>1, <3>2, <3>3 DEF UpToDate
  <2>3. QED
    BY <1>5, <2>1, <2>2 DEF Known
<1>6. QED
  BY <1>2, <1>3, <1>4, <1>5 DEF Agrees

-----------------------------------------------------------------------------
(* The invariant of the listener, its wire and its worker.                 *)

NodeRec == [class : Classes \cup {None}, name : Names \cup {None},
            state : Volumes \cup {None}, born : Nat]
NodeMessage == [is : {"global", "props"}, id : Ids, what : NodeRec]
RemoveMessage == [is : {"remove"}, id : Ids, what : {Gone}]
DefaultMessage == [is : {"default"}, id : {0},
                   what : [channel : Channels, name : Names \cup {None}]]
Message == NodeMessage \cup RemoveMessage \cup DefaultMessage

AudioRec == [bound : [Ids -> NodeRec], last : [Ids -> Volumes \cup {None}],
             defaults : [Channels -> Names \cup {None}], heard : SUBSET Nat]
Job == [of : NodeRec, known : BOOLEAN]

PipeTypes ==
  /\ events \in Nat
  /\ node \in [Ids -> NodeRec]
  /\ audio \in AudioRec
  /\ wire \in Seq(Message)
  /\ worker \in Seq(Job)

(* Every node is born at an event of its own.                              *)
Born(w, k, e) == w[k].what.born \in 1 .. e
WireBirths(w, e) == \A k \in 1 .. Len(w) : w[k].is \in {"global", "props"} => Born(w, k, e)
Births ==
  /\ \A i \in Ids : /\ node[i] # Gone => node[i].born >= 1
                    /\ node[i].born <= events /\ audio.bound[i].born <= events
  /\ WireBirths(wire, events)

Glob(w, i) == {k \in 1 .. Len(w) : w[k].is = "global" /\ w[k].id = i}
Rem(w, i)  == {k \in 1 .. Len(w) : w[k].is = "remove" /\ w[k].id = i}
Props(w, i) == {k \in 1 .. Len(w) : w[k].is = "props" /\ w[k].id = i}
What(w) == [k \in 1 .. Len(w) |-> w[k].what]

AgreesAt(i) ==
  Agrees(Glob(wire, i), Rem(wire, i), Props(wire, i), What(wire), node[i],
         audio.bound[i], audio.last[i], Mark(Wanted(node[i])), Mark(Follows(node[i])))

(* The listener has heard of the node whose state it remembers.            *)
Remembers == \A i \in Ids : audio.last[i] # None => audio.bound[i].born \in audio.heard
AllKnown == \A k \in 1 .. Len(worker) : worker[k].known

PipeInv == /\ PipeTypes /\ Births /\ Remembers /\ AllKnown
           /\ \A i \in Ids : AgreesAt(i)

-----------------------------------------------------------------------------
(* Places in the wire.                                                     *)

LEMMA PlacesOfWire ==
  ASSUME NEW w \in Seq(Message), NEW i
  PROVE  /\ Glob(w, i) \in SUBSET Places /\ Rem(w, i) \in SUBSET Places
         /\ Props(w, i) \in SUBSET Places
         /\ Len(w) \in Nat
         /\ \A k \in Glob(w, i) \cup Rem(w, i) \cup Props(w, i) : k <= Len(w)
         /\ \A k \in Glob(w, i) : k \notin Rem(w, i) /\ k \notin Props(w, i)
         /\ \A k \in Rem(w, i) : k \notin Props(w, i)
         /\ \A k \in Glob(w, i) \cup Props(w, i) : What(w)[k] = w[k].what
<1>1. Len(w) \in Nat
  OBVIOUS
<1>2. PICK n \in Nat : n = Len(w)
  BY <1>1
<1>3. \A k \in 1 .. n : k \in Places /\ k <= n
  BY DEF Places
<1>4. QED
  BY <1>2, <1>3 DEF Glob, Rem, Props, What

Grown(w, e, v, n) ==
  /\ n \in Nat /\ v \in Seq(Message) /\ Len(v) = n + 1 /\ v[n + 1] = e
  /\ \A k \in 1 .. n : v[k] = w[k]
  /\ What(v)[n + 1] = e.what
  /\ \A k \in 1 .. n : What(v)[k] = What(w)[k]
  /\ \A i : /\ Glob(v, i) = IF e.is = "global" /\ e.id = i
                            THEN Glob(w, i) \cup {n + 1} ELSE Glob(w, i)
            /\ Rem(v, i) = IF e.is = "remove" /\ e.id = i
                           THEN Rem(w, i) \cup {n + 1} ELSE Rem(w, i)
            /\ Props(v, i) = IF e.is = "props" /\ e.id = i
                             THEN Props(w, i) \cup {n + 1} ELSE Props(w, i)

LEMMA WireGrows ==
  ASSUME NEW w \in Seq(Message), NEW e \in Message
  PROVE  Grown(w, e, Append(w, e), Len(w))
<1> SUFFICES ASSUME NEW v, NEW n, v = Append(w, e), n = Len(w)
             PROVE  Grown(w, e, v, n)
  OBVIOUS
<1>1. /\ n \in Nat /\ v \in Seq(Message) /\ Len(v) = n + 1 /\ v[n + 1] = e
      /\ \A k \in 1 .. n : v[k] = w[k]
  BY AppendProperties
<1>2. /\ \A k : k \in 1 .. (n + 1) <=> k \in 1 .. n \/ k = n + 1
      /\ n + 1 \notin 1 .. n
  BY <1>1
<1>3. What(v)[n + 1] = e.what /\ \A k \in 1 .. n : What(v)[k] = What(w)[k]
  BY <1>1, <1>2 DEF What
<1>4. ASSUME NEW i
      PROVE  /\ Glob(v, i) = IF e.is = "global" /\ e.id = i
                             THEN Glob(w, i) \cup {n + 1} ELSE Glob(w, i)
             /\ Rem(v, i) = IF e.is = "remove" /\ e.id = i
                            THEN Rem(w, i) \cup {n + 1} ELSE Rem(w, i)
             /\ Props(v, i) = IF e.is = "props" /\ e.id = i
                              THEN Props(w, i) \cup {n + 1} ELSE Props(w, i)
  <2>1. \A k \in 1 .. (n + 1) : v[k] = IF k = n + 1 THEN e ELSE w[k]
    BY <1>1, <1>2
  <2>2. Glob(v, i) = IF e.is = "global" /\ e.id = i
                     THEN Glob(w, i) \cup {n + 1} ELSE Glob(w, i)
    BY <1>1, <1>2, <2>1 DEF Glob
  <2>3. Rem(v, i) = IF e.is = "remove" /\ e.id = i
                    THEN Rem(w, i) \cup {n + 1} ELSE Rem(w, i)
    BY <1>1, <1>2, <2>1 DEF Rem
  <2>4. Props(v, i) = IF e.is = "props" /\ e.id = i
                      THEN Props(w, i) \cup {n + 1} ELSE Props(w, i)
    BY <1>1, <1>2, <2>1 DEF Props
  <2>5. QED
    BY <2>2, <2>3, <2>4
<1>5. QED
  BY <1>1, <1>3, <1>4 DEF Grown

Shrunk(w, v, n) ==
  /\ n \in Places /\ v \in Seq(Message) /\ Len(v) = n - 1 /\ w[1] \in Message
  /\ \A k \in 1 .. (n - 1) : v[k] = w[k + 1] /\ k + 1 \in 1 .. n
  /\ \A k \in 1 .. (n - 1) : What(v)[k] = What(w)[k + 1]
  /\ What(w)[1] = w[1].what
  /\ \A i : /\ 1 \in Glob(w, i) <=> w[1].is = "global" /\ w[1].id = i
            /\ 1 \in Rem(w, i) <=> w[1].is = "remove" /\ w[1].id = i
            /\ 1 \in Props(w, i) <=> w[1].is = "props" /\ w[1].id = i
  /\ \A i : \A k \in Places : /\ k \in Glob(v, i) <=> k + 1 \in Glob(w, i)
                              /\ k \in Rem(v, i) <=> k + 1 \in Rem(w, i)
                              /\ k \in Props(v, i) <=> k + 1 \in Props(w, i)

LEMMA WireIsRead ==
  ASSUME NEW w \in Seq(Message), w # <<>>
  PROVE  Shrunk(w, Tail(w), Len(w))
<1> SUFFICES ASSUME NEW v, NEW n, v = Tail(w), n = Len(w)
             PROVE  Shrunk(w, v, n)
  OBVIOUS
<1>1. /\ n \in Nat /\ n # 0 /\ v \in Seq(Message) /\ Len(v) = n - 1
      /\ \A k \in 1 .. (n - 1) : v[k] = w[k + 1]
  BY HeadTailProperties, EmptySeq
<1>2. /\ n \in Places /\ 1 \in 1 .. n
      /\ \A k \in Places : k \in 1 .. (n - 1) <=> k + 1 \in 1 .. n
      /\ \A k \in 1 .. (n - 1) : k \in Places
  BY <1>1 DEF Places
<1>3. w[1] \in Message
  BY <1>1, <1>2, ElementOfSeq
<1>4. \A k \in 1 .. (n - 1) : What(v)[k] = What(w)[k + 1]
  BY <1>1, <1>2 DEF What
<1>5. \A i : /\ 1 \in Glob(w, i) <=> w[1].is = "global" /\ w[1].id = i
             /\ 1 \in Rem(w, i) <=> w[1].is = "remove" /\ w[1].id = i
             /\ 1 \in Props(w, i) <=> w[1].is = "props" /\ w[1].id = i
  BY <1>2 DEF Glob, Rem, Props
<1>6. ASSUME NEW i, NEW k \in Places
      PROVE  /\ k \in Glob(v, i) <=> k + 1 \in Glob(w, i)
             /\ k \in Rem(v, i) <=> k + 1 \in Rem(w, i)
             /\ k \in Props(v, i) <=> k + 1 \in Props(w, i)
  <2>1. CASE k \in 1 .. (n - 1)
    <3>1. k + 1 \in 1 .. n /\ v[k] = w[k + 1]
      BY <1>1, <1>2, <2>1
    <3>2. QED
      BY <1>1, <2>1, <3>1 DEF Glob, Rem, Props
  <2>2. CASE k \notin 1 .. (n - 1)
    <3>1. k + 1 \notin 1 .. n
      BY <1>2, <2>2
    <3>2. QED
      BY <1>1, <2>2, <3>1 DEF Glob, Rem, Props
  <2>3. QED
    BY <2>1, <2>2
<1>7. What(w)[1] = w[1].what
  BY <1>2 DEF What
<1>8. \A k \in 1 .. (n - 1) : v[k] = w[k + 1] /\ k + 1 \in 1 .. n
  BY <1>1, <1>2
<1>9. \A i : \A k \in Places : /\ k \in Glob(v, i) <=> k + 1 \in Glob(w, i)
                               /\ k \in Rem(v, i) <=> k + 1 \in Rem(w, i)
                               /\ k \in Props(v, i) <=> k + 1 \in Props(w, i)
  BY <1>6
<1>10. QED
  BY <1>1, <1>2, <1>3, <1>4, <1>5, <1>7, <1>8, <1>9, Zenon DEF Shrunk

(* A wire of events that are not of the future stays one.                  *)
LEMMA BirthsGrow ==
  ASSUME NEW w \in Seq(Message), NEW e \in Message, NEW m \in Nat, NEW m2 \in {m, m + 1},
         WireBirths(w, m), e.is \in {"global", "props"} => e.what.born \in 1 .. m2
  PROVE  WireBirths(Append(w, e), m2)
<1>1. PICK v, n : v = Append(w, e) /\ n = Len(w) /\ Grown(w, e, v, n)
  BY WireGrows
<1>2. /\ n \in Nat /\ Len(v) = n + 1 /\ v[n + 1] = e
      /\ \A k \in 1 .. n : v[k] = w[k]
  BY <1>1 DEF Grown
<1>3. \A k \in 1 .. n : w[k].is \in {"global", "props"} => w[k].what.born \in 1 .. m
  BY <1>1 DEF WireBirths, Born
<1>4. ASSUME NEW k \in 1 .. (n + 1), v[k].is \in {"global", "props"}
      PROVE  v[k].what.born \in 1 .. m2
  <2>1. CASE k = n + 1
    BY <1>2, <1>4, <2>1
  <2>2. CASE k # n + 1
    <3>1. k \in 1 .. n
      BY <1>2, <2>2
    <3>2. v[k] = w[k] /\ w[k].what.born \in 1 .. m
      BY <1>2, <1>3, <1>4, <3>1
    <3>3. w[k].what.born \in 1 .. m2
      BY <3>2
    <3>4. QED
      BY <3>2, <3>3
  <2>3. QED
    BY <2>1, <2>2
<1>5. WireBirths(v, m2)
  BY <1>2, <1>4 DEF WireBirths, Born
<1>6. QED
  BY <1>1, <1>5

LEMMA BirthsShrink ==
  ASSUME NEW w \in Seq(Message), w # <<>>, NEW m \in Nat, WireBirths(w, m)
  PROVE  /\ WireBirths(Tail(w), m)
         /\ w[1].is \in {"global", "props"} => w[1].what.born \in 1 .. m
<1>1. PICK v, n : v = Tail(w) /\ n = Len(w) /\ Shrunk(w, v, n)
  BY WireIsRead
<1>2. /\ n \in Places /\ Len(v) = n - 1
      /\ \A k \in 1 .. (n - 1) : v[k] = w[k + 1] /\ k + 1 \in 1 .. n
  BY <1>1 DEF Shrunk
<1>3. \A k \in 1 .. n : w[k].is \in {"global", "props"} => w[k].what.born \in 1 .. m
  BY <1>1 DEF WireBirths, Born
<1>4. \A k \in 1 .. (n - 1) : v[k].is \in {"global", "props"} => v[k].what.born \in 1 .. m
  BY <1>2, <1>3
<1>5. WireBirths(v, m)
  BY <1>2, <1>4 DEF WireBirths, Born
<1>6. 1 \in 1 .. n
  BY <1>2 DEF Places
<1>7. QED
  BY <1>1, <1>3, <1>5, <1>6

(* What is in the messages.                                                *)
LEMMA MessageParts ==
  ASSUME NEW e \in Message
  PROVE  /\ e.is \in {"global", "props", "remove", "default"}
         /\ e.is \in {"global", "props"} => e.id \in Ids /\ e.what \in NodeRec
         /\ e.is = "remove" => e.id \in Ids /\ e.what = Gone
         /\ e.is = "default" => /\ e.what.channel \in Channels
                                /\ e.what.name \in Names \cup {None}
BY DEF Message, NodeMessage, RemoveMessage, DefaultMessage

(* A message about a node, and one that it has gone.                       *)
LEMMA NewMessages ==
  ASSUME NEW i \in Ids, NEW n \in NodeRec
  PROVE  /\ Event("global", i, n) \in Message
         /\ Event("global", i, n).is = "global" /\ Event("global", i, n).id = i
         /\ Event("global", i, n).what = n
         /\ Event("props", i, n) \in Message
         /\ Event("props", i, n).is = "props" /\ Event("props", i, n).id = i
         /\ Event("props", i, n).what = n
         /\ Event("remove", i, Gone) \in Message
         /\ Event("remove", i, Gone).is = "remove" /\ Event("remove", i, Gone).id = i
BY DEF Event, Message, NodeMessage, RemoveMessage

LEMMA NodeFacts ==
  /\ Gone \in NodeRec /\ Gone.born = 0
  /\ \A n \in NodeRec : n.born \in Nat
BY DEF Gone, NodeRec

LEMMA AudioFacts ==
  ASSUME PipeTypes
  PROVE  /\ audio.bound \in [Ids -> NodeRec] /\ audio.last \in [Ids -> Volumes \cup {None}]
         /\ audio.defaults \in [Channels -> Names \cup {None}] /\ audio.heard \in SUBSET Nat
         /\ \A i \in Ids : /\ audio.bound[i] \in NodeRec /\ node[i] \in NodeRec
                           /\ audio.bound[i].born \in Nat /\ node[i].born \in Nat
<1>1. audio \in AudioRec /\ node \in [Ids -> NodeRec]
  BY DEF PipeTypes
<1>2. /\ audio.bound \in [Ids -> NodeRec] /\ audio.last \in [Ids -> Volumes \cup {None}]
      /\ audio.defaults \in [Channels -> Names \cup {None}] /\ audio.heard \in SUBSET Nat
  BY <1>1 DEF AudioRec
<1>3. QED
  BY <1>1, <1>2, NodeFacts

(* What an identifier stands for is followed only if it is wanted.         *)
LEMMA MarkFacts ==
  /\ \A n : Mark(Follows(n)) = "yes" => Mark(Wanted(n)) = "yes"
  /\ \A n : Mark(Wanted(n)) = "yes" <=> Wanted(n)
  /\ \A n : Mark(Follows(n)) = "yes" <=> Follows(n)
BY DEF Mark, Follows

(* Whether a node is wanted or followed is a matter of its class and name. *)
LEMMA MarksStay ==
  ASSUME UNCHANGED options, NEW n, NEW m, Alike(m, n)
  PROVE  /\ Mark(Wanted(m))' = Mark(Wanted(n))
         /\ Mark(Follows(m))' = Mark(Follows(n))
         /\ Mark(Wanted(m)) = Mark(Wanted(n))
BY DEF Mark, Wanted, Follows, Alike

-----------------------------------------------------------------------------
(* What each step preserves.                                               *)

(* An event that is appended is nothing to another identifier.             *)
LEMMA PassAppend ==
  ASSUME NEW w \in Seq(Message), NEW e \in Message, NEW v, v = Append(w, e), NEW i,
         ~(e.is = "global" /\ e.id = i), ~(e.is = "remove" /\ e.id = i),
         ~(e.is = "props" /\ e.id = i),
         NEW nd, NEW bd, NEW ls, NEW wt, NEW fl,
         Agrees(Glob(w, i), Rem(w, i), Props(w, i), What(w), nd, bd, ls, wt, fl)
  PROVE  Agrees(Glob(v, i), Rem(v, i), Props(v, i), What(v), nd, bd, ls, wt, fl)
<1>1. PICK n : n = Len(w) /\ Grown(w, e, v, n)
  BY WireGrows
<1>2. PICK G, R, P : G = Glob(w, i) /\ R = Rem(w, i) /\ P = Props(w, i)
  OBVIOUS
<1>3. Glob(v, i) = G /\ Rem(v, i) = R /\ Props(v, i) = P
  <2>1. /\ Glob(v, i) = IF e.is = "global" /\ e.id = i
                        THEN Glob(w, i) \cup {n + 1} ELSE Glob(w, i)
        /\ Rem(v, i) = IF e.is = "remove" /\ e.id = i
                       THEN Rem(w, i) \cup {n + 1} ELSE Rem(w, i)
        /\ Props(v, i) = IF e.is = "props" /\ e.id = i
                         THEN Props(w, i) \cup {n + 1} ELSE Props(w, i)
    BY <1>1 DEF Grown
  <2>2. QED
    BY <1>2, <2>1
<1>4. PICK f, f2 : f = What(w) /\ f2 = What(v)
  OBVIOUS
<1>5. \A k \in 1 .. n : f2[k] = f[k]
  BY <1>1, <1>4 DEF Grown
<1>6. /\ G \in SUBSET Places /\ R \in SUBSET Places /\ P \in SUBSET Places
      /\ \A k \in G \cup P : k <= n
      /\ n \in Nat
  BY <1>1, <1>2, PlacesOfWire
<1>7. \A k \in G \cup P : k \in 1 .. n
  BY <1>6 DEF Places
<1>8. Agrees(G, R, P, f, nd, bd, ls, wt, fl)
  BY <1>2, <1>4
<1>9. Agrees(G, R, P, f2, nd, bd, ls, wt, fl)
  <2>1. PICK s \in {0, 1} : s = 0
    OBVIOUS
  <2>2. \A k \in Places : k + s = k
    BY <2>1 DEF Places
  <2>3. Moved(G, G, s) /\ Moved(R, R, s) /\ Moved(P, P, s)
    BY <1>6, <2>1, <2>2 DEF Moved
  <2>4. Saying(G, f, f2, s) /\ Saying(P, f, f2, s)
    BY <1>5, <1>6, <1>7, <2>2 DEF Saying
  <2>5. QED
    BY <1>8, <2>3, <2>4, OthersPass
<1>10. QED
  BY <1>3, <1>4, <1>9

(* So is one that is read.                                                 *)
LEMMA PassTail ==
  ASSUME NEW w \in Seq(Message), w # <<>>, NEW v, v = Tail(w), NEW i,
         ~(w[1].is = "global" /\ w[1].id = i), ~(w[1].is = "remove" /\ w[1].id = i),
         ~(w[1].is = "props" /\ w[1].id = i),
         NEW nd, NEW bd, NEW ls, NEW wt, NEW fl,
         Agrees(Glob(w, i), Rem(w, i), Props(w, i), What(w), nd, bd, ls, wt, fl)
  PROVE  Agrees(Glob(v, i), Rem(v, i), Props(v, i), What(v), nd, bd, ls, wt, fl)
<1>1. PICK n : n = Len(w) /\ Shrunk(w, v, n)
  BY WireIsRead
<1>2. PICK G, R, P, G2, R2, P2 :
        /\ G = Glob(w, i) /\ R = Rem(w, i) /\ P = Props(w, i)
        /\ G2 = Glob(v, i) /\ R2 = Rem(v, i) /\ P2 = Props(v, i)
  OBVIOUS
<1>3. PICK f, f2 : f = What(w) /\ f2 = What(v)
  OBVIOUS
<1>4. /\ n \in Places /\ v \in Seq(Message) /\ Len(v) = n - 1
      /\ \A k \in 1 .. (n - 1) : f2[k] = f[k + 1]
  BY <1>1, <1>3 DEF Shrunk
<1>5. /\ 1 \notin G /\ 1 \notin R /\ 1 \notin P
      /\ \A k \in Places : /\ k \in G2 <=> k + 1 \in G
                           /\ k \in R2 <=> k + 1 \in R
                           /\ k \in P2 <=> k + 1 \in P
  <2>1. /\ 1 \in Glob(w, i) <=> w[1].is = "global" /\ w[1].id = i
        /\ 1 \in Rem(w, i) <=> w[1].is = "remove" /\ w[1].id = i
        /\ 1 \in Props(w, i) <=> w[1].is = "props" /\ w[1].id = i
        /\ \A k \in Places : /\ k \in Glob(v, i) <=> k + 1 \in Glob(w, i)
                             /\ k \in Rem(v, i) <=> k + 1 \in Rem(w, i)
                             /\ k \in Props(v, i) <=> k + 1 \in Props(w, i)
    BY <1>1, Zenon DEF Shrunk
  <2>2. QED
    BY <1>2, <2>1
<1>6. /\ G \in SUBSET Places /\ R \in SUBSET Places /\ P \in SUBSET Places
      /\ G2 \in SUBSET Places /\ R2 \in SUBSET Places /\ P2 \in SUBSET Places
      /\ \A k \in G2 \cup P2 : k <= Len(v)
  BY <1>2, <1>4, PlacesOfWire
<1>7. \A k \in G2 \cup P2 : k \in 1 .. (n - 1)
  BY <1>4, <1>6 DEF Places
<1>8. Agrees(G, R, P, f, nd, bd, ls, wt, fl)
  BY <1>2, <1>3
<1>9. Agrees(G2, R2, P2, f2, nd, bd, ls, wt, fl)
  <2>1. PICK s \in {0, 1} : s = 1
    OBVIOUS
  <2>2. Moved(G, G2, s) /\ Moved(R, R2, s) /\ Moved(P, P2, s)
    BY <1>5, <1>6, <2>1 DEF Moved
  <2>3. Saying(G2, f, f2, s) /\ Saying(P2, f, f2, s)
    BY <1>4, <1>7, <2>1 DEF Saying
  <2>4. QED
    BY <1>8, <2>2, <2>3, OthersPass
<1>10. QED
  BY <1>2, <1>3, <1>9

(* A step that leaves an identifier alone.                                 *)
LEMMA OtherStays ==
  ASSUME NEW i, UNCHANGED options, node'[i] = node[i],
         audio'.bound[i] = audio.bound[i], audio'.last[i] = audio.last[i],
         \A nd, bd, ls, wt, fl :
           Agrees(Glob(wire, i), Rem(wire, i), Props(wire, i), What(wire), nd, bd, ls, wt, fl)
             => Agrees(Glob(wire', i), Rem(wire', i), Props(wire', i), What(wire'),
                       nd, bd, ls, wt, fl),
         AgreesAt(i)
  PROVE  AgreesAt(i)'
<1>1. PICK wt, fl : wt = Mark(Wanted(node[i])) /\ fl = Mark(Follows(node[i]))
  OBVIOUS
<1>2. Mark(Wanted(node[i]))' = wt /\ Mark(Follows(node[i]))' = fl
  BY <1>1 DEF Mark, Wanted, Follows
<1>3. Agrees(Glob(wire, i), Rem(wire, i), Props(wire, i), What(wire), node[i],
             audio.bound[i], audio.last[i], wt, fl)
  BY <1>1 DEF AgreesAt
<1>4. Agrees(Glob(wire', i), Rem(wire', i), Props(wire', i), What(wire'), node[i],
             audio.bound[i], audio.last[i], wt, fl)
  BY <1>3
<1>5. QED
  BY <1>2, <1>4 DEF AgreesAt

(* A step that appends an event, or reads one, that is not about j.        *)
LEMMA OtherAfterAppend ==
  ASSUME NEW j, wire \in Seq(Message), UNCHANGED options, node'[j] = node[j],
         audio'.bound[j] = audio.bound[j], audio'.last[j] = audio.last[j],
         NEW e \in Message, wire' = Append(wire, e), e.is = "default" \/ e.id # j,
         AgreesAt(j)
  PROVE  AgreesAt(j)'
<1>1. /\ ~(e.is = "global" /\ e.id = j) /\ ~(e.is = "remove" /\ e.id = j)
      /\ ~(e.is = "props" /\ e.id = j)
  OBVIOUS
<1>2. \A nd, bd, ls, wt, fl :
        Agrees(Glob(wire, j), Rem(wire, j), Props(wire, j), What(wire), nd, bd, ls, wt, fl)
          => Agrees(Glob(wire', j), Rem(wire', j), Props(wire', j), What(wire'),
                    nd, bd, ls, wt, fl)
  BY <1>1, PassAppend
<1>3. QED
  BY <1>2, OtherStays

LEMMA OtherAfterTail ==
  ASSUME NEW j, wire \in Seq(Message), wire # <<>>, UNCHANGED options, node'[j] = node[j],
         audio'.bound[j] = audio.bound[j], audio'.last[j] = audio.last[j],
         wire' = Tail(wire), wire[1].is = "default" \/ wire[1].id # j,
         AgreesAt(j)
  PROVE  AgreesAt(j)'
<1>1. /\ ~(wire[1].is = "global" /\ wire[1].id = j) /\ ~(wire[1].is = "remove" /\ wire[1].id = j)
      /\ ~(wire[1].is = "props" /\ wire[1].id = j)
  OBVIOUS
<1>2. \A nd, bd, ls, wt, fl :
        Agrees(Glob(wire, j), Rem(wire, j), Props(wire, j), What(wire), nd, bd, ls, wt, fl)
          => Agrees(Glob(wire', j), Rem(wire', j), Props(wire', j), What(wire'),
                    nd, bd, ls, wt, fl)
  BY <1>1, PassTail
<1>3. QED
  BY <1>2, OtherStays

LEMMA OtherAfterBoth ==
  ASSUME NEW j, wire \in Seq(Message), wire # <<>>, UNCHANGED options, node'[j] = node[j],
         audio'.bound[j] = audio.bound[j], audio'.last[j] = audio.last[j],
         NEW e \in Message, wire' = Append(Tail(wire), e),
         wire[1].is = "default" \/ wire[1].id # j, e.is = "default" \/ e.id # j,
         AgreesAt(j)
  PROVE  AgreesAt(j)'
<1>1. /\ ~(wire[1].is = "global" /\ wire[1].id = j) /\ ~(wire[1].is = "remove" /\ wire[1].id = j)
      /\ ~(wire[1].is = "props" /\ wire[1].id = j)
      /\ ~(e.is = "global" /\ e.id = j) /\ ~(e.is = "remove" /\ e.id = j)
      /\ ~(e.is = "props" /\ e.id = j)
  OBVIOUS
<1>2. PICK v : v = Tail(wire)
  OBVIOUS
<1>3. v \in Seq(Message)
  BY <1>2, WireIsRead DEF Shrunk
<1>4. \A nd, bd, ls, wt, fl :
        Agrees(Glob(wire, j), Rem(wire, j), Props(wire, j), What(wire), nd, bd, ls, wt, fl)
          => Agrees(Glob(v, j), Rem(v, j), Props(v, j), What(v), nd, bd, ls, wt, fl)
  BY <1>1, <1>2, PassTail
<1>5. wire' = Append(v, e)
  BY <1>2
<1>6. \A nd, bd, ls, wt, fl :
        Agrees(Glob(v, j), Rem(v, j), Props(v, j), What(v), nd, bd, ls, wt, fl)
          => Agrees(Glob(wire', j), Rem(wire', j), Props(wire', j), What(wire'),
                    nd, bd, ls, wt, fl)
  BY <1>1, <1>3, <1>5, PassAppend
<1>7. QED
  BY <1>4, <1>6, OtherStays

(* What a step preserves that appends an event and leaves the listener be. *)
LEMMA ServerKeeps ==
  ASSUME PipeInv, UNCHANGED <<options, audio, worker>>, NEW e \in Message,
         wire' = Append(wire, e), events' = events + 1,
         node' \in [Ids -> NodeRec],
         \A j \in Ids : (node'[j] # Gone => node'[j].born >= 1) /\ node'[j].born <= events',
         e.is \in {"global", "props"} => e.what.born \in 1 .. events',
         \A j \in Ids : (e.is # "default" /\ e.id = j) \/ node'[j] = node[j],
         \A j \in Ids : e.is # "default" /\ e.id = j => AgreesAt(j)'
  PROVE  PipeInv'
<1>1. PipeTypes
  BY DEF PipeInv
<1>2. wire \in Seq(Message) /\ events \in Nat
  BY <1>1 DEF PipeTypes
<1>3. wire' \in Seq(Message)
  BY <1>2, WireGrows DEF Grown
<1>4. PipeTypes'
  BY <1>1, <1>2, <1>3 DEF PipeTypes
<1>5. Births'
  <2>1. \A j \in Ids : audio'.bound[j].born <= events'
    <3> TAKE j \in Ids
    <3>1. audio.bound[j].born <= events /\ audio.bound[j].born \in Nat
      BY <1>1, AudioFacts DEF PipeInv, Births
    <3>2. QED
      BY <1>2, <3>1
  <2>2. WireBirths(wire, events) /\ events' \in {events, events + 1}
    BY DEF PipeInv, Births
  <2>3. WireBirths(wire', events')
    BY <1>2, <2>2, BirthsGrow
  <2>4. QED
    BY <2>1, <2>3 DEF Births
<1>6. ASSUME NEW j \in Ids
      PROVE  AgreesAt(j)'
  <2>1. CASE e.is # "default" /\ e.id = j
    BY <2>1
  <2>2. CASE ~(e.is # "default" /\ e.id = j)
    <3>1. AgreesAt(j) /\ node'[j] = node[j]
      BY <2>2 DEF PipeInv
    <3>2. QED
      BY <1>2, <2>2, <3>1, OtherAfterAppend
  <2>3. QED
    BY <2>1, <2>2
<1>7. Remembers' /\ AllKnown'
  BY DEF PipeInv, Remembers, AllKnown
<1>8. QED
  BY <1>4, <1>5, <1>6, <1>7 DEF PipeInv

(* The audio server adds a node.                                           *)
LEMMA AddsKeeps ==
  ASSUME PipeInv, NEW i \in Ids, NEW c \in Classes, NEW name \in Names \cup {None}, NEW s \in Volumes,
         Adds(i, c, name, s)
  PROVE  PipeInv'
<1> DEFINE new == [class |-> c, name |-> name, state |-> s, born |-> events + 1]
           e == Event("global", i, new)
<1>1. /\ node[i] = Gone /\ node' = [node EXCEPT ![i] = new]
      /\ wire' = Append(wire, e) /\ events' = events + 1
      /\ UNCHANGED <<options, audio, worker>>
  BY DEF Adds, Sends
<1>2. PipeTypes
  BY DEF PipeInv
<1>3. new \in NodeRec /\ new.born = events + 1 /\ new # Gone /\ events \in Nat
  BY <1>2 DEF PipeTypes, NodeRec, Gone
<1> HIDE DEF new
<1>4. e \in Message /\ e.is = "global" /\ e.id = i /\ e.what = new
  BY <1>3, NewMessages
<1> HIDE DEF e
<1>6. wire \in Seq(Message)
  BY <1>2 DEF PipeTypes
<1>5. PICK n : n = Len(wire) /\ Grown(wire, e, wire', n)
  BY <1>1, <1>4, <1>6, WireGrows
<1>7. /\ n \in Nat /\ wire' \in Seq(Message) /\ Len(wire') = n + 1 /\ wire'[n + 1] = e
      /\ \A k \in 1 .. n : wire'[k] = wire[k]
      /\ What(wire')[n + 1] = new
      /\ \A k \in 1 .. n : What(wire')[k] = What(wire)[k]
      /\ Glob(wire', i) = Glob(wire, i) \cup {n + 1}
      /\ Rem(wire', i) = Rem(wire, i) /\ Props(wire', i) = Props(wire, i)
  BY <1>4, <1>5 DEF Grown
<1>8. node' \in [Ids -> NodeRec] /\ events' \in Nat
      /\ \A j \in Ids : node'[j] = IF j = i THEN new ELSE node[j]
  <2>1. node \in [Ids -> NodeRec]
    BY <1>2 DEF PipeTypes
  <2>2. QED
    BY <1>1, <1>3, <2>1
<1>9. AgreesAt(i)'
  <2> DEFINE G == Glob(wire, i)
             R == Rem(wire, i)
             P == Props(wire, i)
  <2>1. /\ G \in SUBSET Places /\ R \in SUBSET Places /\ P \in SUBSET Places
        /\ \A k \in G \cup R \cup P : k <= n
        /\ \A k \in G \cup P : What(wire)[k] = wire[k].what
    BY <1>5, <1>6, PlacesOfWire
  <2>2. \A k \in G \cup P : k \in 1 .. n /\ wire[k].is \in {"global", "props"}
    BY <1>5 DEF Glob, Props
  <2>3. \A k \in G \cup P :
          What(wire')[k] = What(wire)[k] /\ What(wire)[k].born # new.born
    <3> TAKE k \in G \cup P
    <3>1. wire[k].what.born \in 1 .. events
      BY <1>5, <2>2 DEF PipeInv, Births, WireBirths, Born
    <3>2. QED
      BY <1>3, <1>7, <2>1, <2>2, <3>1
  <2>4. audio.bound[i].born # new.born
    <3>1. audio.bound[i].born <= events /\ audio.bound[i].born \in Nat
      BY <1>2, AudioFacts DEF PipeInv, Births
    <3>2. QED
      BY <1>3, <3>1
  <2>5. PICK wt, fl : Agrees(G, R, P, What(wire), Gone, audio.bound[i], audio.last[i], wt, fl)
    BY <1>1 DEF PipeInv, AgreesAt
  <2>6. PICK wt2, fl2 : wt2 = Mark(Wanted(node[i]))' /\ fl2 = Mark(Follows(node[i]))'
    OBVIOUS
  <2> HIDE DEF G, R, P
  <2>7. Agrees(G \cup {n + 1}, R, P, What(wire'), new, audio.bound[i], audio.last[i], wt2, fl2)
    <3>1. PICK f, f2 : f = What(wire) /\ f2 = What(wire')
      OBVIOUS
    <3>2. PICK bd, ls : bd = audio.bound[i] /\ ls = audio.last[i]
      OBVIOUS
    <3>3. /\ n \in Nat /\ Agrees(G, R, P, f, Gone, bd, ls, wt, fl)
          /\ \A k \in G \cup R \cup P : k <= n
          /\ \A k \in G \cup P : f2[k] = f[k] /\ f[k].born # new.born
          /\ f2[n + 1] = new /\ bd.born # new.born /\ new # Gone
      BY <1>3, <1>7, <2>1, <2>3, <2>4, <2>5, <3>1, <3>2
    <3>4. Agrees(G \cup {n + 1}, R, P, f2, new, bd, ls, wt2, fl2)
      BY <2>1, <3>3, NodeComes
    <3>5. QED
      BY <3>1, <3>2, <3>4
  <2>8. node'[i] = new
    BY <1>8
  <2>9. QED
    BY <1>1, <1>7, <2>6, <2>7, <2>8 DEF AgreesAt, G, R, P
<1>10. \A j \in Ids : (node'[j] # Gone => node'[j].born >= 1) /\ node'[j].born <= events'
  <2> TAKE j \in Ids
  <2>1. /\ node[j] # Gone => node[j].born >= 1
        /\ node[j].born <= events /\ node[j].born \in Nat
    BY <1>2, AudioFacts DEF PipeInv, Births
  <2>2. node'[j] = IF j = i THEN new ELSE node[j]
    BY <1>8
  <2>3. QED
    BY <1>1, <1>3, <2>1, <2>2
<1>11. e.what.born \in 1 .. events'
  BY <1>1, <1>3, <1>4
<1>12. \A j \in Ids : (e.is # "default" /\ e.id = j) \/ node'[j] = node[j]
  BY <1>4, <1>8
<1>13. \A j \in Ids : e.is # "default" /\ e.id = j => AgreesAt(j)'
  BY <1>4, <1>9
<1>14. QED
  BY <1>1, <1>4, <1>8, <1>10, <1>11, <1>12, <1>13, ServerKeeps

(* It removes one.                                                         *)
LEMMA RemovesKeeps ==
  ASSUME PipeInv, NEW i \in Ids, Removes(i)
  PROVE  PipeInv'
<1> DEFINE e == Event("remove", i, Gone)
<1>1. /\ node' = [node EXCEPT ![i] = Gone]
      /\ wire' = Append(wire, e) /\ events' = events + 1
      /\ UNCHANGED <<options, audio, worker>>
  BY DEF Removes, Sends
<1>2. PipeTypes
  BY DEF PipeInv
<1>3. Gone \in NodeRec /\ Gone.born = 0 /\ events \in Nat
  BY <1>2, NodeFacts DEF PipeTypes
<1>4. e \in Message /\ e.is = "remove" /\ e.id = i
  BY <1>3, NewMessages
<1> HIDE DEF e
<1>5. wire \in Seq(Message)
  BY <1>2 DEF PipeTypes
<1>6. PICK n : n = Len(wire) /\ Grown(wire, e, wire', n)
  BY <1>1, <1>4, <1>5, WireGrows
<1>7. /\ n \in Nat
      /\ Rem(wire', i) = Rem(wire, i) \cup {n + 1}
      /\ Glob(wire', i) = Glob(wire, i) /\ Props(wire', i) = Props(wire, i)
  BY <1>4, <1>6 DEF Grown
<1>8. /\ node' \in [Ids -> NodeRec]
      /\ \A j \in Ids : node'[j] = IF j = i THEN Gone ELSE node[j]
  <2>1. node \in [Ids -> NodeRec]
    BY <1>2 DEF PipeTypes
  <2>2. QED
    BY <1>1, <1>3, <2>1
<1>9. AgreesAt(i)'
  <2> DEFINE G == Glob(wire, i)
             R == Rem(wire, i)
             P == Props(wire, i)
  <2>1. /\ G \in SUBSET Places /\ R \in SUBSET Places /\ P \in SUBSET Places
        /\ \A k \in G \cup R \cup P : k <= n
    BY <1>5, <1>6, PlacesOfWire
  <2>2. PICK f, f2 : f = What(wire) /\ f2 = What(wire')
    OBVIOUS
  <2>3. PICK bd, ls : bd = audio.bound[i] /\ ls = audio.last[i]
    OBVIOUS
  <2>4. PICK wt, fl : Agrees(G, R, P, f, node[i], bd, ls, wt, fl)
    BY <2>2, <2>3 DEF PipeInv, AgreesAt
  <2>5. PICK wt2, fl2 : wt2 = Mark(Wanted(node[i]))' /\ fl2 = Mark(Follows(node[i]))'
    OBVIOUS
  <2> HIDE DEF G, R, P
  <2>6. Agrees(G, R \cup {n + 1}, P, f2, Gone, bd, ls, wt2, fl2)
    BY <1>7, <2>1, <2>4, NodeGoes
  <2>7. node'[i] = Gone
    BY <1>8
  <2>8. QED
    BY <1>1, <1>7, <2>2, <2>3, <2>5, <2>6, <2>7 DEF AgreesAt, G, R, P
<1>10. \A j \in Ids : (node'[j] # Gone => node'[j].born >= 1) /\ node'[j].born <= events'
  <2> TAKE j \in Ids
  <2>1. /\ node[j] # Gone => node[j].born >= 1
        /\ node[j].born <= events /\ node[j].born \in Nat
    BY <1>2, AudioFacts DEF PipeInv, Births
  <2>2. node'[j] = IF j = i THEN Gone ELSE node[j]
    BY <1>8
  <2>3. QED
    BY <1>1, <1>3, <2>1, <2>2
<1>11. \A j \in Ids : (e.is # "default" /\ e.id = j) \/ node'[j] = node[j]
  BY <1>4, <1>8
<1>12. \A j \in Ids : e.is # "default" /\ e.id = j => AgreesAt(j)'
  BY <1>4, <1>9
<1>13. QED
  BY <1>1, <1>4, <1>8, <1>10, <1>11, <1>12, ServerKeeps

(* The defaults change.                                                    *)
LEMMA ChoosesKeeps ==
  ASSUME PipeInv, NEW c \in Channels, NEW name \in Names \cup {None}, Chooses(c, name)
  PROVE  PipeInv'
<1> DEFINE e == Event("default", 0, [channel |-> c, name |-> name])
<1>1. /\ wire' = Append(wire, e) /\ events' = events + 1
      /\ UNCHANGED <<options, node, audio, worker>>
  BY DEF Chooses, Sends
<1>2. e \in Message /\ e.is = "default"
  BY DEF Event, Message, DefaultMessage
<1> HIDE DEF e
<1>3. PipeTypes
  BY DEF PipeInv
<1>4. node' \in [Ids -> NodeRec] /\ events \in Nat
  BY <1>1, <1>3 DEF PipeTypes
<1>5. \A j \in Ids : (node'[j] # Gone => node'[j].born >= 1) /\ node'[j].born <= events'
  <2> TAKE j \in Ids
  <2>1. /\ node[j] # Gone => node[j].born >= 1
        /\ node[j].born <= events /\ node[j].born \in Nat
    BY <1>3, AudioFacts DEF PipeInv, Births
  <2>2. QED
    BY <1>1, <1>4, <2>1
<1>6. QED
  BY <1>1, <1>2, <1>4, <1>5, ServerKeeps

(* A node changes, and the listener will hear of it if it is bound to it.  *)
LEMMA TurnsKeeps ==
  ASSUME PipeInv, NEW i \in Ids, NEW s \in Volumes, Turns(i, s)
  PROVE  PipeInv'
<1>1. PICK new : new = [node[i] EXCEPT !.state = s]
  OBVIOUS
<1>2. PipeTypes
  BY DEF PipeInv
<1>3. /\ node \in [Ids -> NodeRec] /\ node[i] \in NodeRec /\ events \in Nat
      /\ wire \in Seq(Message)
  BY <1>2 DEF PipeTypes
<1>4. node[i] # Gone /\ node[i].born >= 1 /\ node[i].born <= events /\ node[i].born \in Nat
  BY <1>2, AudioFacts DEF Turns, PipeInv, Births
<1>5. /\ new \in NodeRec /\ new.born = node[i].born /\ Alike(new, node[i])
      /\ new # Gone
  <2>1. new \in NodeRec /\ new.born = node[i].born /\ Alike(new, node[i])
    BY <1>1, <1>3 DEF NodeRec, Alike
  <2>2. QED
    BY <1>4, <2>1, NodeFacts
<1>6. /\ node' \in [Ids -> NodeRec]
      /\ \A j \in Ids : node'[j] = IF j = i THEN new ELSE node[j]
      /\ UNCHANGED <<options, audio, worker>> /\ events' = events + 1
  BY <1>1, <1>3, <1>5 DEF Turns
<1>7. PICK e : e = Event("props", i, new)
  OBVIOUS
<1>8. e \in Message /\ e.is = "props" /\ e.id = i /\ e.what = new
  BY <1>5, <1>7, NewMessages
<1>9. wire' = IF audio.bound[i].born = node[i].born THEN Append(wire, e) ELSE wire
  BY <1>6, <1>7 DEF Turns
<1>10. \A j \in Ids : (node'[j] # Gone => node'[j].born >= 1) /\ node'[j].born <= events'
  <2> TAKE j \in Ids
  <2>1. /\ node[j] # Gone => node[j].born >= 1
        /\ node[j].born <= events /\ node[j].born \in Nat
    BY <1>2, AudioFacts DEF PipeInv, Births
  <2>2. node'[j] = IF j = i THEN new ELSE node[j]
    BY <1>6
  <2>3. QED
    BY <1>3, <1>4, <1>5, <1>6, <2>1, <2>2
<1>11. PICK n : n = Len(wire)
  OBVIOUS
<1>12. ASSUME NEW P2, NEW f2, NEW G2, NEW R2,
              G2 = Glob(wire, i), R2 = Rem(wire, i),
              P2 = IF audio.bound[i].born = node[i].born
                   THEN Props(wire, i) \cup {n + 1} ELSE Props(wire, i),
              \A k \in Glob(wire, i) \cup Props(wire, i) : f2[k] = What(wire)[k],
              audio.bound[i].born = node[i].born => f2[n + 1] = new
       PROVE  Agrees(G2, R2, P2, f2, node'[i], audio'.bound[i], audio'.last[i],
                     Mark(Wanted(node[i]))', Mark(Follows(node[i]))')
  <2>1. PICK G, R, P : G = Glob(wire, i) /\ R = Rem(wire, i) /\ P = Props(wire, i)
    OBVIOUS
  <2>2. /\ G \in SUBSET Places /\ R \in SUBSET Places /\ P \in SUBSET Places /\ n \in Nat
        /\ \A k \in G \cup R \cup P : k <= n
    BY <1>3, <1>11, <2>1, PlacesOfWire
  <2>3. PICK f, bd, ls, nd : /\ f = What(wire) /\ bd = audio.bound[i] /\ ls = audio.last[i]
                             /\ nd = node[i]
    OBVIOUS
  <2>4. PICK wt, fl : wt = Mark(Wanted(nd)) /\ fl = Mark(Follows(nd))
    OBVIOUS
  <2>5. Agrees(G, R, P, f, nd, bd, ls, wt, fl) /\ (fl = "yes" => wt = "yes")
    BY <2>1, <2>3, <2>4, MarkFacts DEF PipeInv, AgreesAt
  <2>6. Mark(Wanted(node[i]))' = wt /\ Mark(Follows(node[i]))' = fl
    <3>1. node'[i] = new /\ Alike(new, nd) /\ UNCHANGED options
      BY <1>5, <1>6, <2>3
    <3>2. QED
      BY <2>4, <3>1 DEF Mark, Wanted, Follows, Alike
  <2>7. /\ \A k \in G \cup P : f2[k] = f[k]
        /\ nd # Gone /\ new # Gone /\ new.born = nd.born /\ Alike(new, nd)
        /\ P2 = IF bd.born = nd.born THEN P \cup {n + 1} ELSE P
        /\ bd.born = nd.born => f2[n + 1] = new
    BY <1>4, <1>5, <1>12, <2>1, <2>3
  <2>8. Agrees(G, R, P2, f2, new, bd, ls, wt, fl)
    <3>1. Turned(P, P2, f, f2, n, nd, new, bd)
      BY <2>7, Zenon DEF Turned
    <3>2. \A k \in G \cup P : f2[k] = f[k]
      BY <2>7
    <3>3. QED
      BY <2>2, <2>5, <3>1, <3>2, NodeTurns
  <2>9. node'[i] = new /\ audio' = audio
    BY <1>6
  <2>10. QED
    BY <1>12, <2>1, <2>3, <2>6, <2>8, <2>9
<1>13. CASE audio.bound[i].born = node[i].born
  <2>1. wire' = Append(wire, e)
    BY <1>9, <1>13
  <2>2. Grown(wire, e, wire', n)
    BY <1>3, <1>8, <1>11, <2>1, WireGrows
  <2>3. /\ Glob(wire', i) = Glob(wire, i) /\ Rem(wire', i) = Rem(wire, i)
        /\ Props(wire', i) = Props(wire, i) \cup {n + 1}
        /\ What(wire')[n + 1] = new
        /\ \A k \in 1 .. n : What(wire')[k] = What(wire)[k]
    BY <1>8, <2>2 DEF Grown
  <2>4. \A k \in Glob(wire, i) \cup Props(wire, i) : k \in 1 .. n
    BY <1>11 DEF Glob, Props
  <2>5. AgreesAt(i)'
    <3>1. PICK P2, f2, G2, R2 : /\ P2 = Props(wire', i) /\ f2 = What(wire')
                                /\ G2 = Glob(wire', i) /\ R2 = Rem(wire', i)
      OBVIOUS
    <3>2. Agrees(G2, R2, P2, f2, node'[i], audio'.bound[i], audio'.last[i],
                 Mark(Wanted(node[i]))', Mark(Follows(node[i]))')
      BY <1>12, <1>13, <2>3, <2>4, <3>1
    <3>3. QED
      BY <3>1, <3>2 DEF AgreesAt
  <2>6. e.what.born \in 1 .. events'
    BY <1>3, <1>4, <1>5, <1>6, <1>8
  <2>7. \A j \in Ids : (e.is # "default" /\ e.id = j) \/ node'[j] = node[j]
    BY <1>6, <1>8
  <2>8. \A j \in Ids : e.is # "default" /\ e.id = j => AgreesAt(j)'
    BY <1>8, <2>5
  <2>9. QED
    BY <1>6, <1>8, <1>10, <2>1, <2>6, <2>7, <2>8, ServerKeeps
<1>14. CASE audio.bound[i].born # node[i].born
  <2>1. wire' = wire
    BY <1>9, <1>14
  <2>2. AgreesAt(i)'
    <3>1. PICK P2, f2, G2, R2 : /\ P2 = Props(wire, i) /\ f2 = What(wire)
                                /\ G2 = Glob(wire, i) /\ R2 = Rem(wire, i)
      OBVIOUS
    <3>2. Agrees(G2, R2, P2, f2, node'[i], audio'.bound[i], audio'.last[i],
                 Mark(Wanted(node[i]))', Mark(Follows(node[i]))')
      BY <1>12, <1>14, <3>1
    <3>3. QED
      BY <2>1, <3>1, <3>2 DEF AgreesAt
  <2>3. ASSUME NEW j \in Ids
        PROVE  AgreesAt(j)'
    <3>1. CASE j = i
      BY <2>2, <3>1
    <3>2. CASE j # i
      <4>1. node'[j] = node[j] /\ AgreesAt(j)
        BY <1>6, <3>2 DEF PipeInv
      <4>2. QED
        BY <1>6, <2>1, <4>1, OtherStays
    <3>3. QED
      BY <3>1, <3>2
  <2>4. PipeTypes'
    BY <1>2, <1>3, <1>6, <2>1 DEF PipeTypes
  <2>5. Births'
    <3>1. \A j \in Ids : audio'.bound[j].born <= events'
      <4> TAKE j \in Ids
      <4>1. audio.bound[j].born <= events /\ audio.bound[j].born \in Nat
        BY <1>2, AudioFacts DEF PipeInv, Births
      <4>2. QED
        BY <1>3, <1>6, <4>1
    <3>2. WireBirths(wire, events) /\ events \in Nat
      BY <1>3 DEF PipeInv, Births
    <3>3. WireBirths(wire', events')
      <4>1. \A k : k \in 1 .. events => k \in 1 .. events'
        BY <1>3, <1>6
      <4>2. QED
        BY <2>1, <3>2, <4>1 DEF WireBirths, Born
    <3>4. QED
      BY <1>10, <3>1, <3>3 DEF Births
  <2>6. Remembers' /\ AllKnown'
    BY <1>6 DEF PipeInv, Remembers, AllKnown
  <2>7. QED
    BY <2>3, <2>4, <2>5, <2>6 DEF PipeInv
<1>15. QED
  BY <1>13, <1>14

(* The listener reads that a default has changed.                          *)
LEMMA PropertyKeeps ==
  ASSUME PipeInv, Property
  PROVE  PipeInv'
<1>1. PipeTypes
  BY DEF PipeInv
<1>2. /\ wire \in Seq(Message) /\ wire # <<>> /\ wire' = Tail(wire) /\ wire[1].is = "default"
      /\ UNCHANGED <<options, node, events, worker>>
  BY <1>1 DEF Property, NextIs, Consumes, PipeTypes
<1>3. PICK c, d : c = wire[1].what.channel /\ d = wire[1].what.name
  OBVIOUS
<1>4. c \in Channels /\ d \in Names \cup {None} /\ wire' \in Seq(Message)
  BY <1>2, <1>3, WireIsRead, MessageParts DEF Shrunk
<1>5. audio' = [audio EXCEPT !.defaults[c] = d]
  BY <1>3 DEF Property
<1>6. /\ audio' \in AudioRec /\ audio'.bound = audio.bound /\ audio'.last = audio.last
      /\ audio'.heard = audio.heard
  BY <1>1, <1>4, <1>5 DEF PipeTypes, AudioRec
<1>7. PipeTypes'
  BY <1>1, <1>2, <1>4, <1>6 DEF PipeTypes
<1>8. Births'
  <2>1. WireBirths(wire, events) /\ events \in Nat
    BY <1>1 DEF PipeInv, Births, PipeTypes
  <2>2. WireBirths(wire', events')
    BY <1>2, <2>1, BirthsShrink
  <2>3. QED
    BY <1>2, <1>6, <2>2 DEF PipeInv, Births
<1>9. ASSUME NEW j \in Ids
      PROVE  AgreesAt(j)'
  <2>1. AgreesAt(j)
    BY DEF PipeInv
  <2>2. QED
    BY <1>2, <1>6, <2>1, OtherAfterTail
<1>10. Remembers' /\ AllKnown'
  BY <1>2, <1>6 DEF PipeInv, Remembers, AllKnown
<1>11. QED
  BY <1>7, <1>8, <1>9, <1>10 DEF PipeInv

(* The listener reads that a node has gone.                                *)
LEMMA GlobalRemoveKeeps ==
  ASSUME PipeInv, GlobalRemove
  PROVE  PipeInv'
<1>1. PipeTypes
  BY DEF PipeInv
<1>2. /\ wire \in Seq(Message) /\ wire # <<>> /\ wire' = Tail(wire) /\ wire[1].is = "remove"
      /\ UNCHANGED <<options, node, events, worker>>
  BY <1>1 DEF GlobalRemove, NextIs, Consumes, PipeTypes
<1>3. PICK i : i = wire[1].id
  OBVIOUS
<1>4. PICK n : n = Len(wire) /\ Shrunk(wire, wire', n)
  BY <1>2, WireIsRead
<1>5. i \in Ids /\ wire' \in Seq(Message)
  BY <1>2, <1>3, <1>4, MessageParts DEF Shrunk
<1>6. audio' = [audio EXCEPT !.bound[i] = Gone, !.last[i] = None]
  BY <1>3 DEF GlobalRemove
<1>7. /\ audio' \in AudioRec
      /\ \A j \in Ids : /\ audio'.bound[j] = IF j = i THEN Gone ELSE audio.bound[j]
                        /\ audio'.last[j] = IF j = i THEN None ELSE audio.last[j]
      /\ audio'.heard = audio.heard
  BY <1>1, <1>5, <1>6, NodeFacts DEF PipeTypes, AudioRec
<1>8. PipeTypes'
  BY <1>1, <1>2, <1>5, <1>7 DEF PipeTypes
<1>9. Births'
  <2>1. WireBirths(wire, events) /\ events \in Nat
    BY <1>1 DEF PipeInv, Births, PipeTypes
  <2>2. WireBirths(wire', events')
    BY <1>2, <2>1, BirthsShrink
  <2>3. Gone.born <= events
    BY <2>1, NodeFacts
  <2>4. QED
    BY <1>2, <1>7, <2>2, <2>3 DEF PipeInv, Births
<1>10. AgreesAt(i)'
  <2>1. PICK G, R, P, G2, R2, P2 :
          /\ G = Glob(wire, i) /\ R = Rem(wire, i) /\ P = Props(wire, i)
          /\ G2 = Glob(wire', i) /\ R2 = Rem(wire', i) /\ P2 = Props(wire', i)
    OBVIOUS
  <2>2. PICK f, f2, bd, ls, nd :
          /\ f = What(wire) /\ f2 = What(wire')
          /\ bd = audio.bound[i] /\ ls = audio.last[i] /\ nd = node[i]
    OBVIOUS
  <2>3. /\ G \in SUBSET Places /\ R \in SUBSET Places /\ P \in SUBSET Places
        /\ G2 \in SUBSET Places /\ R2 \in SUBSET Places /\ P2 \in SUBSET Places
    BY <1>2, <1>5, <2>1, PlacesOfWire
  <2>4. /\ 1 \in R /\ 1 \notin G /\ 1 \notin P
        /\ \A k \in Places : k \in G2 <=> k + 1 \in G
        /\ \A k \in Places : k \in R2 <=> k + 1 \in R
        /\ \A k \in Places : k \in P2 <=> k + 1 \in P
    BY <1>2, <1>3, <1>4, <2>1 DEF Shrunk
  <2>5. \A k \in G2 \cup P2 : f2[k] = f[k + 1]
    <3>1. \A k \in 1 .. (n - 1) : f2[k] = f[k + 1]
      BY <1>4, <2>2 DEF Shrunk
    <3>2. Len(wire') = n - 1
      BY <1>4 DEF Shrunk
    <3>3. \A k \in G2 \cup P2 : k \in 1 .. (n - 1)
      BY <2>1, <3>2 DEF Glob, Props
    <3>4. QED
      BY <3>1, <3>3
  <2>6. nd # Gone => nd.born # Gone.born
    <3>1. nd # Gone => nd.born >= 1
      BY <1>5, <2>2 DEF PipeInv, Births
    <3>2. QED
      BY <3>1, NodeFacts
  <2>7. PICK wt, fl : wt = Mark(Wanted(node[i])) /\ fl = Mark(Follows(node[i]))
    OBVIOUS
  <2>8. Agrees(G, R, P, f, nd, bd, ls, wt, fl)
    BY <1>5, <2>1, <2>2, <2>7 DEF PipeInv, AgreesAt
  <2>9. Agrees(G2, R2, P2, f2, nd, Gone, None, wt, fl)
    BY <2>3, <2>4, <2>5, <2>6, <2>8, NodeIsForgotten
  <2>10. Mark(Wanted(node[i]))' = wt /\ Mark(Follows(node[i]))' = fl
    BY <1>2, <2>7 DEF Mark, Wanted, Follows
  <2>11. node'[i] = nd /\ audio'.bound[i] = Gone /\ audio'.last[i] = None
    BY <1>2, <1>5, <1>7, <2>2
  <2>12. QED
    BY <2>1, <2>2, <2>9, <2>10, <2>11 DEF AgreesAt
<1>11. ASSUME NEW j \in Ids
       PROVE  AgreesAt(j)'
  <2>1. CASE j = i
    BY <1>10, <2>1
  <2>2. CASE j # i
    <3>1. AgreesAt(j) /\ audio'.bound[j] = audio.bound[j] /\ audio'.last[j] = audio.last[j]
      BY <1>7, <2>2 DEF PipeInv
    <3>2. QED
      BY <1>2, <1>3, <2>2, <3>1, OtherAfterTail
  <2>3. QED
    BY <2>1, <2>2
<1>12. Remembers' /\ AllKnown'
  BY <1>2, <1>7 DEF PipeInv, Remembers, AllKnown
<1>13. QED
  BY <1>8, <1>9, <1>11, <1>12 DEF PipeInv

(* The listener reads of a node.                                           *)
LEMMA GlobalKeeps ==
  ASSUME PipeInv, Global
  PROVE  PipeInv'
<1>1. PipeTypes
  BY DEF PipeInv
<1>2. /\ wire \in Seq(Message) /\ wire # <<>> /\ wire[1].is = "global" /\ events \in Nat
      /\ UNCHANGED <<options, node, events, worker>>
  BY <1>1 DEF Global, NextIs, PipeTypes
<1>3. PICK i, w : i = wire[1].id /\ w = wire[1].what
  OBVIOUS
<1>4. PICK n, v : n = Len(wire) /\ v = Tail(wire) /\ Shrunk(wire, v, n)
  BY <1>2, WireIsRead
<1>5. i \in Ids /\ w \in NodeRec /\ v \in Seq(Message) /\ n \in Places /\ node[i] \in NodeRec
  BY <1>1, <1>2, <1>3, <1>4, MessageParts, AudioFacts DEF Shrunk
<1>6. w.born \in 1 .. events
  BY <1>2, <1>3, BirthsShrink DEF PipeInv, Births
<1>7. PICK answers : answers = Mark(Wanted(w) /\ node[i].born = w.born)
  OBVIOUS
<1>8. answers = "yes" <=> Wanted(w) /\ node[i].born = w.born
  BY <1>7 DEF Mark
<1>9. PICK e : e = Event("props", i, node[i])
  OBVIOUS
<1>10. e \in Message /\ e.is = "props" /\ e.id = i /\ e.what = node[i]
  BY <1>5, <1>9, NewMessages
<1>11. /\ wire' = IF answers = "yes" THEN Append(v, e) ELSE v
       /\ audio' = IF Wanted(w) THEN [audio EXCEPT !.bound[i] = w] ELSE audio
  <2>1. CASE Wanted(w)
    BY <1>3, <1>4, <1>8, <1>9, <2>1 DEF Global, Consumes
  <2>2. CASE ~Wanted(w)
    BY <1>3, <1>4, <1>8, <2>2 DEF Global, Consumes
  <2>3. QED
    BY <2>1, <2>2
<1>12. /\ audio' \in AudioRec
       /\ \A j \in Ids : /\ audio'.bound[j] = IF j = i /\ Wanted(w) THEN w ELSE audio.bound[j]
                         /\ audio'.last[j] = audio.last[j]
       /\ audio'.heard = audio.heard
  BY <1>1, <1>5, <1>11 DEF PipeTypes, AudioRec
<1>13. PICK G, R, P, G2, R2, P2 :
         /\ G = Glob(wire, i) /\ R = Rem(wire, i) /\ P = Props(wire, i)
         /\ G2 = Glob(wire', i) /\ R2 = Rem(wire', i) /\ P2 = Props(wire', i)
  OBVIOUS
<1>14. PICK f, f2, bd, bd2, ls, nd :
         /\ f = What(wire) /\ f2 = What(wire') /\ bd = audio.bound[i]
         /\ bd2 = audio'.bound[i] /\ ls = audio.last[i] /\ nd = node[i]
  OBVIOUS
<1>15. wire' \in Seq(Message)
  BY <1>5, <1>10, <1>11, WireGrows DEF Grown
<1>16. /\ G \in SUBSET Places /\ R \in SUBSET Places /\ P \in SUBSET Places
       /\ G2 \in SUBSET Places /\ R2 \in SUBSET Places /\ P2 \in SUBSET Places
       /\ \A k \in G \cup R \cup P : k <= n
  BY <1>2, <1>4, <1>13, <1>15, PlacesOfWire
<1>17. /\ 1 \in G /\ 1 \notin R /\ 1 \notin P /\ f[1] = w
       /\ n \in Places /\ Len(v) = n - 1
       /\ \A k \in 1 .. (n - 1) : What(v)[k] = f[k + 1]
  BY <1>2, <1>3, <1>4, <1>13, <1>14 DEF Shrunk
<1>18. \A k \in Places : /\ k \in Glob(v, i) <=> k + 1 \in G
                         /\ k \in Rem(v, i) <=> k + 1 \in R
                         /\ k \in Props(v, i) <=> k + 1 \in P
  BY <1>4, <1>13 DEF Shrunk
<1>19. n \in Nat /\ (n - 1) + 1 = n
  BY <1>17 DEF Places
<1>20. /\ G2 = Glob(v, i) /\ R2 = Rem(v, i)
       /\ P2 = IF answers = "yes" THEN Props(v, i) \cup {n} ELSE Props(v, i)
       /\ \A k \in 1 .. (n - 1) : f2[k] = f[k + 1]
       /\ answers = "yes" => f2[n] = nd
  <2>1. CASE answers = "yes"
    <3>1. PICK m : m = Len(v) /\ Grown(v, e, wire', m)
      BY <1>5, <1>10, <1>11, <2>1, WireGrows
    <3>2. m = n - 1 /\ m + 1 = n
      BY <1>17, <1>19, <3>1
    <3>3. /\ G2 = Glob(v, i) /\ R2 = Rem(v, i) /\ P2 = Props(v, i) \cup {m + 1}
          /\ What(wire')[m + 1] = node[i]
          /\ \A k \in 1 .. m : What(wire')[k] = What(v)[k]
      BY <1>10, <1>13, <3>1 DEF Grown
    <3>4. QED
      BY <1>14, <1>17, <2>1, <3>2, <3>3
  <2>2. CASE answers # "yes"
    BY <1>11, <1>13, <1>14, <1>17, <2>2
  <2>3. QED
    BY <2>1, <2>2
<1>21. \A k \in Places : k + 1 \in G \cup P => f2[k] = f[k + 1]
  <2> SUFFICES ASSUME NEW k \in Places, k + 1 \in G \cup P
               PROVE  f2[k] = f[k + 1]
    OBVIOUS
  <2>1. k + 1 <= n
    BY <1>16
  <2>2. k \in 1 .. (n - 1)
    BY <1>19, <2>1 DEF Places
  <2>3. QED
    BY <1>20, <2>2
<1>22. PICK wt, fl : wt = Mark(Wanted(node[i])) /\ fl = Mark(Follows(node[i]))
  OBVIOUS
<1>23. /\ Agrees(G, R, P, f, nd, bd, ls, wt, fl)
       /\ fl = "yes" => wt = "yes"
  BY <1>5, <1>13, <1>14, <1>22, MarkFacts DEF PipeInv, AgreesAt
<1>24. answers = "yes" <=> (w.born = nd.born /\ wt = "yes")
  <2>1. CASE w.born = nd.born
    <3>1. w.born # Gone.born
      BY <1>6, NodeFacts
    <3>2. f[1] = w /\ f[1].born = nd.born /\ f[1].born # Gone.born
      BY <1>17, <2>1, <3>1
    <3>3. Alike(f[1], nd)
      BY <1>16, <1>17, <1>23, <3>2, FirstIsNode
    <3>4. Wanted(w) <=> Wanted(node[i])
      BY <1>14, <3>2, <3>3 DEF Wanted, Alike
    <3>5. wt = "yes" <=> Wanted(node[i])
      BY <1>22 DEF Mark
    <3>6. QED
      BY <1>8, <1>14, <2>1, <3>4, <3>5
  <2>2. CASE w.born # nd.born
    BY <1>8, <1>14, <2>2
  <2>3. QED
    BY <2>1, <2>2
<1>25. IF answers = "yes" THEN bd2 = w ELSE bd2 \in {bd, w}
  BY <1>5, <1>8, <1>12, <1>14
<1>26. \A k \in Places : k \in P2 <=> k + 1 \in P \/ (answers = "yes" /\ k = n)
  BY <1>18, <1>20
<1>27. /\ \A k \in Places : k \in G2 <=> k + 1 \in G
       /\ \A k \in Places : k \in R2 <=> k + 1 \in R
  BY <1>18, <1>20
<1>28. Told(G, R, P, G2, R2, P2, f, f2, w, n, nd, wt, bd, bd2, answers)
  BY <1>17, <1>20, <1>21, <1>24, <1>25, <1>26, <1>27 DEF Told
<1>29. nd # Gone => nd.born # Gone.born
  <2>1. nd # Gone => nd.born >= 1
    BY <1>5, <1>14 DEF PipeInv, Births
  <2>2. QED
    BY <2>1, NodeFacts
<1>30. /\ ls = None /\ bd = Gone
       /\ Agrees(G2, R2, P2, f2, nd, bd2, ls, wt, fl)
  <2>1. n \in Places
    BY <1>17
  <2>2. QED
    BY <1>16, <1>23, <1>28, <1>29, <2>1, NodeIsTold
<1>31. AgreesAt(i)'
  <2>1. Mark(Wanted(node[i]))' = wt /\ Mark(Follows(node[i]))' = fl
    BY <1>2, <1>22 DEF Mark, Wanted, Follows
  <2>2. node'[i] = nd /\ audio'.bound[i] = bd2 /\ audio'.last[i] = ls
    BY <1>2, <1>5, <1>12, <1>14
  <2>3. QED
    BY <1>13, <1>14, <1>30, <2>1, <2>2 DEF AgreesAt
<1>32. ASSUME NEW j \in Ids
       PROVE  AgreesAt(j)'
  <2>1. CASE j = i
    BY <1>31, <2>1
  <2>2. CASE j # i
    <3>1. /\ AgreesAt(j) /\ audio'.bound[j] = audio.bound[j] /\ audio'.last[j] = audio.last[j]
          /\ node'[j] = node[j]
      BY <1>2, <1>12, <2>2 DEF PipeInv
    <3>2. CASE answers = "yes"
      <4>1. wire' = Append(Tail(wire), e)
        BY <1>4, <1>11, <3>2
      <4>2. QED
        BY <1>2, <1>3, <1>10, <2>2, <3>1, <4>1, OtherAfterBoth
    <3>3. CASE answers # "yes"
      <4>1. wire' = Tail(wire)
        BY <1>4, <1>11, <3>3
      <4>2. QED
        BY <1>2, <1>3, <2>2, <3>1, <4>1, OtherAfterTail
    <3>4. QED
      BY <3>2, <3>3
  <2>3. QED
    BY <2>1, <2>2
<1>33. PipeTypes'
  BY <1>1, <1>2, <1>12, <1>15 DEF PipeTypes
<1>34. Births'
  <2>1. WireBirths(v, events)
    BY <1>2, <1>4, BirthsShrink DEF PipeInv, Births
  <2>2. WireBirths(wire', events)
    <3>1. CASE answers = "yes"
      <4>1. e.what.born \in 1 .. events /\ wire' = Append(v, e)
        BY <1>6, <1>8, <1>10, <1>11, <3>1
      <4>2. events \in {events, events + 1}
        OBVIOUS
      <4>3. QED
        BY <1>2, <1>5, <1>10, <2>1, <4>1, <4>2, BirthsGrow
    <3>2. CASE answers # "yes"
      BY <1>11, <2>1, <3>2
    <3>3. QED
      BY <3>1, <3>2
  <2>3. w.born <= events
    BY <1>6
  <2>4. QED
    BY <1>2, <1>12, <2>2, <2>3 DEF PipeInv, Births
<1>35. Remembers'
  <2> SUFFICES ASSUME NEW j \in Ids, audio'.last[j] # None
               PROVE  audio'.bound[j].born \in audio'.heard
    BY DEF Remembers
  <2>1. j # i /\ audio.last[j] # None
    BY <1>12, <1>14, <1>30
  <2>2. QED
    BY <1>12, <2>1 DEF PipeInv, Remembers
<1>36. AllKnown'
  BY <1>2 DEF PipeInv, AllKnown
<1>37. QED
  BY <1>32, <1>33, <1>34, <1>35, <1>36 DEF PipeInv

(* The listener reads the state of a node.                                 *)
LEMMA ParamKeeps ==
  ASSUME PipeInv, Param
  PROVE  PipeInv'
<1>1. PipeTypes
  BY DEF PipeInv
<1>2. /\ wire \in Seq(Message) /\ wire # <<>> /\ wire[1].is = "props" /\ events \in Nat
      /\ wire' = Tail(wire) /\ UNCHANGED <<options, node, events>>
  BY <1>1 DEF Param, NextIs, Consumes, PipeTypes
<1>3. PICK i, w : i = wire[1].id /\ w = wire[1].what
  OBVIOUS
<1>4. PICK n : n = Len(wire) /\ Shrunk(wire, wire', n)
  BY <1>2, WireIsRead
<1>5. i \in Ids /\ w \in NodeRec /\ wire' \in Seq(Message) /\ node[i] \in NodeRec
  BY <1>1, <1>2, <1>3, <1>4, MessageParts, AudioFacts DEF Shrunk
<1>6. w.born \in 1 .. events /\ w.born # Gone.born
  <2>1. w.born \in 1 .. events
    BY <1>2, <1>3, BirthsShrink DEF PipeInv, Births
  <2>2. QED
    BY <2>1, NodeFacts
<1>7. PICK heard : heard = Mark(audio.bound[i].born = w.born /\ Listens(w))
  OBVIOUS
<1>8. heard = "yes" <=> audio.bound[i].born = w.born /\ Listens(w)
  BY <1>7 DEF Mark
<1>9. PICK job : job = [of |-> w, known |-> w.born \in audio.heard]
  OBVIOUS
<1>10. /\ audio' = IF heard = "yes"
                   THEN [audio EXCEPT !.last[i] = w.state, !.heard = audio.heard \cup {w.born}]
                   ELSE audio
       /\ worker' = IF heard = "yes" /\ audio.last[i] \notin {None, w.state}
                    THEN Append(worker, job) ELSE worker
  <2>1. CASE audio.bound[i].born = w.born /\ Listens(w)
    BY <1>3, <1>8, <1>9, <2>1 DEF Param
  <2>2. CASE ~(audio.bound[i].born = w.born /\ Listens(w))
    BY <1>3, <1>8, <2>2 DEF Param
  <2>3. QED
    BY <2>1, <2>2
<1>11. w.state \in Volumes \cup {None} /\ w.born \in Nat
  BY <1>5 DEF NodeRec
<1>12. /\ audio' \in AudioRec
       /\ audio'.bound = audio.bound
       /\ \A j \in Ids : audio'.last[j] = IF j = i /\ heard = "yes" THEN w.state
                                          ELSE audio.last[j]
       /\ audio'.heard = IF heard = "yes" THEN audio.heard \cup {w.born} ELSE audio.heard
  BY <1>1, <1>5, <1>10, <1>11 DEF PipeTypes, AudioRec
<1>13. PICK G, R, P, G2, R2, P2 :
         /\ G = Glob(wire, i) /\ R = Rem(wire, i) /\ P = Props(wire, i)
         /\ G2 = Glob(wire', i) /\ R2 = Rem(wire', i) /\ P2 = Props(wire', i)
  OBVIOUS
<1>14. PICK f, f2, bd, ls, ls2, nd :
         /\ f = What(wire) /\ f2 = What(wire') /\ bd = audio.bound[i]
         /\ ls = audio.last[i] /\ ls2 = audio'.last[i] /\ nd = node[i]
  OBVIOUS
<1>15. /\ G \in SUBSET Places /\ R \in SUBSET Places /\ P \in SUBSET Places
       /\ G2 \in SUBSET Places /\ R2 \in SUBSET Places /\ P2 \in SUBSET Places
  BY <1>2, <1>5, <1>13, PlacesOfWire
<1>16. /\ 1 \in P /\ 1 \notin G /\ 1 \notin R /\ f[1] = w
       /\ \A k \in Places : k \in G2 <=> k + 1 \in G
       /\ \A k \in Places : k \in R2 <=> k + 1 \in R
       /\ \A k \in Places : k \in P2 <=> k + 1 \in P
  BY <1>2, <1>3, <1>4, <1>13, <1>14 DEF Shrunk
<1>17. \A k \in G2 \cup P2 : f2[k] = f[k + 1]
  <2>1. /\ \A k \in 1 .. (n - 1) : f2[k] = f[k + 1]
        /\ Len(wire') = n - 1
    BY <1>4, <1>14 DEF Shrunk
  <2>2. \A k \in G2 \cup P2 : k \in 1 .. (n - 1)
    BY <1>13, <2>1 DEF Glob, Props
  <2>3. QED
    BY <2>1, <2>2
<1>18. PICK wt, fl : wt = Mark(Wanted(node[i])) /\ fl = Mark(Follows(node[i]))
  OBVIOUS
<1>19. /\ Agrees(G, R, P, f, nd, bd, ls, wt, fl)
       /\ fl = "yes" => wt = "yes"
  BY <1>5, <1>13, <1>14, <1>18, MarkFacts DEF PipeInv, AgreesAt
<1>20. fl = "yes" /\ w = nd /\ bd.born = w.born => heard = "yes"
  <2> SUFFICES ASSUME fl = "yes", w = nd, bd.born = w.born
               PROVE  heard = "yes"
    OBVIOUS
  <2>1. Follows(w)
    BY <1>14, <1>18, MarkFacts
  <2>2. Listens(w)
    BY <2>1 DEF Follows, Listens
  <2>3. QED
    BY <1>8, <1>14, <2>2
<1>21. ls2 = IF heard = "yes" THEN w.state ELSE ls
  BY <1>5, <1>12, <1>14
<1>22. Heard(G, R, P, f, w, nd, bd, ls, ls2, wt, fl, heard)
  BY <1>6, <1>8, <1>14, <1>16, <1>19, <1>20, <1>21 DEF Heard
<1>23. Agrees(G2, R2, P2, f2, nd, bd, ls2, wt, fl)
  <2>1. /\ \A k \in Places : k \in G2 <=> k + 1 \in G
        /\ \A k \in Places : k \in R2 <=> k + 1 \in R
        /\ \A k \in Places : k \in P2 <=> k + 1 \in P
    BY <1>16
  <2>2. QED
    BY <1>15, <1>17, <1>19, <1>22, <2>1, NodeIsHeard
<1>24. AgreesAt(i)'
  <2>1. Mark(Wanted(node[i]))' = wt /\ Mark(Follows(node[i]))' = fl
    BY <1>2, <1>18 DEF Mark, Wanted, Follows
  <2>2. node'[i] = nd /\ audio'.bound[i] = bd /\ audio'.last[i] = ls2
    BY <1>2, <1>12, <1>14
  <2>3. QED
    BY <1>13, <1>14, <1>23, <2>1, <2>2 DEF AgreesAt
<1>25. ASSUME NEW j \in Ids
       PROVE  AgreesAt(j)'
  <2>1. CASE j = i
    BY <1>24, <2>1
  <2>2. CASE j # i
    <3>1. /\ AgreesAt(j) /\ audio'.bound[j] = audio.bound[j] /\ audio'.last[j] = audio.last[j]
          /\ node'[j] = node[j]
      BY <1>2, <1>12, <2>2 DEF PipeInv
    <3>2. QED
      BY <1>2, <1>3, <2>2, <3>1, OtherAfterTail
  <2>3. QED
    BY <2>1, <2>2
<1>26. worker \in Seq(Job) /\ job \in Job
  BY <1>1, <1>5, <1>9 DEF PipeTypes, Job
<1>27. worker' \in Seq(Job) /\ AllKnown'
  <2>1. CASE heard = "yes" /\ audio.last[i] \notin {None, w.state}
    <3>1. job.known
      <4>1. audio.bound[i].born \in audio.heard
        BY <1>5, <2>1 DEF PipeInv, Remembers
      <4>2. w.born \in audio.heard
        BY <1>8, <2>1, <4>1
      <4>3. QED
        BY <1>9, <4>2
    <3>2. PICK m : m = Len(worker)
      OBVIOUS
    <3>3. /\ m \in Nat /\ worker' \in Seq(Job) /\ Len(worker') = m + 1 /\ worker'[m + 1] = job
          /\ \A k \in 1 .. m : worker'[k] = worker[k]
      BY <1>10, <1>26, <2>1, <3>2, AppendProperties
    <3>4. \A k \in 1 .. m : worker[k].known
      BY <3>2 DEF PipeInv, AllKnown
    <3>5. \A k \in 1 .. (m + 1) : k \in 1 .. m \/ k = m + 1
      BY <3>3
    <3>6. \A k \in 1 .. (m + 1) : worker'[k].known
      BY <3>1, <3>3, <3>4, <3>5
    <3>7. QED
      BY <3>3, <3>6 DEF AllKnown
  <2>2. CASE ~(heard = "yes" /\ audio.last[i] \notin {None, w.state})
    BY <1>10, <1>26, <2>2 DEF PipeInv, AllKnown
  <2>3. QED
    BY <2>1, <2>2
<1>28. PipeTypes'
  BY <1>1, <1>2, <1>5, <1>12, <1>27 DEF PipeTypes
<1>29. Births'
  <2>1. WireBirths(wire', events)
    BY <1>2, BirthsShrink DEF PipeInv, Births
  <2>2. QED
    BY <1>2, <1>12, <2>1 DEF PipeInv, Births
<1>30. Remembers'
  <2> SUFFICES ASSUME NEW j \in Ids, audio'.last[j] # None
               PROVE  audio'.bound[j].born \in audio'.heard
    BY DEF Remembers
  <2>1. CASE j = i /\ heard = "yes"
    <3>1. audio'.bound[j].born = w.born /\ audio'.heard = audio.heard \cup {w.born}
      BY <1>8, <1>12, <2>1
    <3>2. QED
      BY <3>1
  <2>2. CASE ~(j = i /\ heard = "yes")
    <3>1. audio.last[j] # None
      BY <1>12, <2>2
    <3>2. audio.bound[j].born \in audio.heard
      BY <3>1 DEF PipeInv, Remembers
    <3>3. QED
      BY <1>12, <3>2
  <2>3. QED
    BY <2>1, <2>2
<1>31. QED
  BY <1>25, <1>27, <1>28, <1>29, <1>30 DEF PipeInv

(* An OSD is sent, or nothing happens that the listener takes part in.     *)
LEMMA SendsKeeps ==
  ASSUME PipeInv, UNCHANGED <<options, node, wire, events, audio>>,
         worker' = worker \/ (worker # <<>> /\ worker' = Tail(worker))
  PROVE  PipeInv'
<1>1. worker \in Seq(Job) /\ PipeTypes
  BY DEF PipeInv, PipeTypes
<1>2. worker' \in Seq(Job) /\ AllKnown'
  <2>1. CASE worker' = worker
    BY <1>1, <2>1 DEF PipeInv, AllKnown
  <2>2. CASE worker # <<>> /\ worker' = Tail(worker)
    <3>1. PICK m : m = Len(worker)
      OBVIOUS
    <3>2. /\ m \in Nat /\ m # 0 /\ worker' \in Seq(Job) /\ Len(worker') = m - 1
          /\ \A k \in 1 .. (m - 1) : worker'[k] = worker[k + 1]
      BY <1>1, <2>2, <3>1, HeadTailProperties, EmptySeq
    <3>3. \A k \in 1 .. m : worker[k].known
      BY <3>1 DEF PipeInv, AllKnown
    <3>4. \A k \in 1 .. (m - 1) : k + 1 \in 1 .. m
      BY <3>2
    <3>5. \A k \in 1 .. (m - 1) : worker'[k].known
      BY <3>2, <3>3, <3>4
    <3>6. QED
      BY <3>2, <3>5 DEF AllKnown
  <2>3. QED
    BY <2>1, <2>2
<1>3. PipeTypes' /\ Births' /\ Remembers'
  BY <1>1, <1>2 DEF PipeInv, PipeTypes, Births, Remembers
<1>4. ASSUME NEW j \in Ids
      PROVE  AgreesAt(j)'
  <2>1. AgreesAt(j)
    BY DEF PipeInv
  <2>2. QED
    BY <2>1, OtherStays
<1>5. QED
  BY <1>2, <1>3, <1>4 DEF PipeInv

(* Every step of the audio server and of the listener.                     *)
LEMMA PipeKeeps == PipeInv /\ [PipeNext]_pipeVars => PipeInv'
<1> SUFFICES ASSUME PipeInv, [PipeNext]_pipeVars PROVE PipeInv'
  OBVIOUS
<1>1. CASE \E i \in Ids : Removes(i)
  BY <1>1, RemovesKeeps
<1>2. CASE \E i \in Ids, s \in Volumes : Turns(i, s)
  BY <1>2, TurnsKeeps
<1>3. CASE \E i \in Ids, s \in Volumes, c \in Classes, n \in Names \cup {None} : Adds(i, c, n, s)
  BY <1>3, AddsKeeps
<1>4. CASE \E c \in Channels, n \in Names \cup {None} : Chooses(c, n)
  BY <1>4, ChoosesKeeps
<1>5. CASE Global
  BY <1>5, GlobalKeeps
<1>6. CASE Property
  BY <1>6, PropertyKeeps
<1>7. CASE Param
  BY <1>7, ParamKeeps
<1>8. CASE GlobalRemove
  BY <1>8, GlobalRemoveKeeps
<1>9. CASE WorkerSends
  BY <1>9, SendsKeeps DEF WorkerSends
<1>10. CASE UNCHANGED pipeVars
  BY <1>10, SendsKeeps DEF pipeVars
<1>11. QED
  BY <1>1, <1>2, <1>3, <1>4, <1>5, <1>6, <1>7, <1>8, <1>9, <1>10 DEF PipeNext

LEMMA PipeInitial == PipeInit => PipeInv
<1> SUFFICES ASSUME PipeInit PROVE PipeInv
  OBVIOUS
<1>1. /\ node = [i \in Ids |-> Gone] /\ wire = <<>> /\ events = 0 /\ worker = <<>>
      /\ audio = [bound |-> [i \in Ids |-> Gone], last |-> [i \in Ids |-> None],
                  defaults |-> [c \in Channels |-> None], heard |-> {}]
  BY DEF PipeInit
<1>2. PICK bound, last, defaults :
        /\ bound = [i \in Ids |-> Gone] /\ last = [i \in Ids |-> None]
        /\ defaults = [c \in Channels |-> None]
  OBVIOUS
<1>3. /\ bound \in [Ids -> NodeRec] /\ last \in [Ids -> Volumes \cup {None}]
      /\ defaults \in [Channels -> Names \cup {None}] /\ node \in [Ids -> NodeRec]
  BY <1>1, <1>2, NodeFacts
<1>4. /\ audio = [bound |-> bound, last |-> last, defaults |-> defaults, heard |-> {}]
  BY <1>1, <1>2
<1>5. audio \in AudioRec
  BY <1>3, <1>4 DEF AudioRec
<1>6. /\ wire \in Seq(Message) /\ Len(wire) = 0 /\ worker \in Seq(Job) /\ Len(worker) = 0
  BY <1>1
<1>7. PipeTypes
  BY <1>1, <1>3, <1>5, <1>6 DEF PipeTypes
<1>8. \A i \in Ids : node[i] = Gone /\ audio.bound[i] = Gone /\ audio.last[i] = None
  BY <1>1, <1>2, <1>4
<1>9. Births
  BY <1>1, <1>6, <1>8, NodeFacts DEF Births, WireBirths
<1>10. Remembers /\ AllKnown
  BY <1>6, <1>8 DEF Remembers, AllKnown
<1>11. ASSUME NEW i \in Ids
       PROVE  AgreesAt(i)
  <2>1. Glob(wire, i) = {} /\ Rem(wire, i) = {}
    BY <1>6 DEF Glob, Rem
  <2>2. QED
    BY <1>8, <2>1 DEF AgreesAt, Agrees, InTurn, Absent
<1>12. QED
  BY <1>7, <1>9, <1>10, <1>11 DEF PipeInv

(* However nodes, identifiers and defaults have come and gone and whatever *)
(* the audio server told and answered in between: once everything is read  *)
(* the listener is bound to the nodes it wants, remembers the present      *)
(* state of those it follows and nothing of the others; and an OSD it asks *)
(* for is about a node that it has heard of before.                        *)
THEOREM NodesKnown == Spec => []VolumesAgree
<1>1. Init => PipeInv
  BY PipeInitial DEF Init
<1>2. PipeInv /\ [Next]_vars => PipeInv'
  <2>1. [Next]_vars => [PipeNext]_pipeVars
    BY DEF Next, vars
  <2>2. QED
    BY <2>1, PipeKeeps
<1>3. PipeInv => VolumesAgree
  <2> SUFFICES ASSUME PipeInv PROVE VolumesAgree
    OBVIOUS
  <2>1. ASSUME wire = <<>>, NEW i \in Ids
        PROVE  /\ node[i] = Gone => audio.bound[i] = Gone /\ audio.last[i] = None
               /\ node[i] # Gone /\ Wanted(node[i]) => audio.bound[i].born = node[i].born
               /\ node[i] # Gone /\ Follows(node[i]) => audio.last[i] = node[i].state
    <3>1. /\ Glob(wire, i) = {} /\ Rem(wire, i) = {} /\ Props(wire, i) = {}
      <4>1. Len(wire) = 0
        BY <2>1
      <4>2. QED
        BY <4>1 DEF Glob, Rem, Props
    <3>2. PICK wt, fl : wt = Mark(Wanted(node[i])) /\ fl = Mark(Follows(node[i]))
      OBVIOUS
    <3>3. Agrees({}, {}, {}, What(wire), node[i], audio.bound[i], audio.last[i], wt, fl)
      BY <3>1, <3>2 DEF PipeInv, AgreesAt
    <3>4. node[i] = Gone => audio.bound[i] = Gone /\ audio.last[i] = None
      BY <3>3 DEF Agrees, Absent
    <3>5. node[i] # Gone =>
            Known({}, {}, {}, What(wire), node[i], audio.bound[i], audio.last[i], wt, fl)
      BY <3>3 DEF Agrees, Announced
    <3>6. (wt = "yes" <=> Wanted(node[i])) /\ (fl = "yes" <=> Follows(node[i]))
      BY <3>2, MarkFacts
    <3>7. QED
      BY <3>4, <3>5, <3>6 DEF Known, UpToDate
  <2>2. \A k \in DOMAIN worker : worker[k].known
    <3>1. worker \in Seq(Job)
      BY DEF PipeInv, PipeTypes
    <3>2. DOMAIN worker = 1 .. Len(worker)
      BY <3>1
    <3>3. QED
      BY <3>2 DEF PipeInv, AllKnown
  <2>3. QED
    BY <2>1, <2>2 DEF VolumesAgree
<1>4. QED
  BY <1>1, <1>2, <1>3, PTL DEF Spec

=============================================================================
