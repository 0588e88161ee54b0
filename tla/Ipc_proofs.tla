----------------------------- MODULE Ipc_proofs -----------------------------
(***************************************************************************)
(* What the programs and the daemon may rely on in the request path, for   *)
(* any number of programs, connections, permits, events and restarts.      *)
(***************************************************************************)
EXTENDS Ipc, FiniteSetTheorems, SequenceTheorems, TLAPS

Kinds   == DOMAIN Response \cup {"bad", "blank", "binary", "huge"}
Answers == {Response[x] : x \in DOMAIN Response} \cup {"error"}

Byte(e, x, i) == [event |-> e, kind |-> x, part |-> i]
Bytes == [event : Events, kind : Kinds, part : 1 .. NewLine]

Call == [stage : {"idle", "connect", "write", "read"}, n : Nat, ok : BOOLEAN, kind : Kinds,
         written : 0 .. NewLine, late : BOOLEAN, retried : BOOLEAN]

Ats == {"unused", "backlog", "admitted", "reading", "handling", "answering", "closed"}

Connection == [at : Ats, open : BOOLEAN, up : Seq(Bytes), line : Seq(Bytes),
               reply : {<<>>} \cup (Answers \X Kinds), down : Seq(Answers)]

Types ==
  /\ call \in [Clients -> Call]
  /\ link \in [Clients -> Conns \cup {NoConn}]
  /\ conn \in [Conns -> Connection]
  /\ backlog \in Seq(Conns)
  /\ accept \in [stage : {"accept", "acquire", "reject", "spawn"}, conn : Conns \cup {NoConn},
                 count : Nat]
  /\ active \in Nat
  /\ daemon \in [up : BOOLEAN, starts : Nat]
  /\ runs \in [Events -> Nat]

-----------------------------------------------------------------------------
(* The limiter.                                                            *)

(* A connection waits in the backlog, or the main thread is about to admit *)
(* or to reject it; the permit it takes is still to be had if nobody else  *)
(* took one; only the connection in hand is admitted and not yet served.   *)
LimiterOK ==
  /\ active = Cardinality({k \in Conns : Served(k)})
  /\ active <= MaxConnections
  /\ \A i \in 1 .. Len(backlog) : conn[backlog[i]].at = "backlog"
  /\ \A i, j \in 1 .. Len(backlog) : backlog[i] = backlog[j] => i = j
  /\ accept.stage \in {"acquire", "reject"} =>
       /\ accept.conn \in Conns /\ conn[accept.conn].at = "backlog"
       /\ \A i \in 1 .. Len(backlog) : backlog[i] # accept.conn
  /\ accept.stage = "acquire" => accept.count < MaxConnections
  /\ accept.stage = "spawn" => accept.conn \in Conns /\ conn[accept.conn].at = "admitted"
  /\ ~daemon.up => \A k \in Conns : conn[k].at \in {"unused", "closed"}

-----------------------------------------------------------------------------
(* The bytes of a connection.                                              *)

(* What is between the ends of r is the line of the event e, of which o    *)
(* bytes have been taken.                                                  *)
Stream(r, e, x, o) ==
  /\ \A i \in 1 .. Len(r.line) : r.line[i] = Byte(e, x, o + i)
  /\ \A i \in 1 .. Len(r.up) : r.up[i] = Byte(e, x, o + Len(r.line) + i)

(* Where the daemon's end is tells how much it has taken.                  *)
Progress(r, x, o) ==
  /\ r.at \in {"backlog", "admitted"} => o = 0 /\ r.line = <<>>
  /\ r.at = "reading" => o = 0 \/ (r.line = <<>> /\ r.up = <<>> /\ (o = NewLine \/ ~r.open))
  /\ r.at = "handling" =>
       /\ o = 0 /\ r.line # <<>>
       /\ Len(r.line) = NewLine \/ x = "huge" \/ (~r.open /\ r.up = <<>>)
  /\ r.at = "answering" =>
       /\ r.line = <<>>
       /\ r.reply # <<>>
       /\ r.reply[2] = "huge" \/ (r.up = <<>> /\ (o = NewLine \/ ~r.open))
       /\ r.reply[2] = "huge" => x = "huge"

(* The line of e is on its way, as far as its first w bytes.               *)
Carries(r, e, x, w) ==
  \E o \in 0 .. NewLine :
    /\ Stream(r, e, x, o) /\ Progress(r, x, o)
    /\ w = o + Len(r.line) + Len(r.up) /\ w <= NewLine

(* A connection without a program at its other end.                        *)
Loose(r) ==
  /\ ~r.open /\ r.down = <<>> /\ r.at # "closed"
  /\ r.at = "unused" => r = Unused
  /\ r.at # "unused" =>
       \E e \in Events, x \in Kinds, w \in 0 .. NewLine : Carries(r, e, x, w)

(* The connection r of the program c in a call m whose event was run g     *)
(* times: between calls nothing is on its way; in a call it is the line of *)
(* the event, as far as it is written, and the answer on its way, if there *)
(* is one, is the answer to it.                                            *)
Owned(c, m, r, g) ==
  /\ r.open /\ r.at # "unused" /\ <<c, m.n>> \in Events
  /\ m.stage # "connect" /\ (m.stage = "write" => m.written < NewLine)
  /\ r.at = "closed" => r.line = <<>> /\ r.up = <<>>
  /\ m.stage = "idle" =>
       r.at \in {"reading", "closed"} /\ r.line = <<>> /\ r.up = <<>> /\ r.down = <<>>
  /\ m.stage # "idle" /\ r.at # "closed" =>
       Carries(r, <<c, m.n>>, m.kind, m.written)
  /\ r.down # <<>> =>
       /\ Len(r.down) = 1 /\ r.at \in {"reading", "closed"} /\ r.line = <<>> /\ r.up = <<>>
       /\ r.at = "reading" => m.stage = "read"
       /\ r.down[1] = "error" \/ g = 1
  /\ r.at = "answering" => r.reply[1] = "error" \/ g = 1

(* A call and the connection it has, or has not.                           *)
InCall(c, m, l) ==
  /\ m.stage = "idle" => ~m.late
  /\ m.stage = "connect" => l = NoConn /\ m.written = 0
  /\ m.stage = "write" => l # NoConn /\ m.written < NewLine
  /\ m.stage = "read" => l # NoConn /\ m.written = NewLine
  /\ m.stage # "idle" => <<c, m.n>> \in Events
  /\ m.ok => m.stage = "idle" /\ <<c, m.n>> \in Events /\ runs[<<c, m.n>>] = 1

LinksOK ==
  /\ \A k \in Conns : Loose(conn[k]) \/ \E c \in Clients : link[c] = k
  /\ \A c, d \in Clients : link[c] # NoConn /\ link[c] = link[d] => c = d

CallsOK ==
  \A c \in Clients :
    /\ InCall(c, call[c], link[c])
    /\ link[c] # NoConn => Owned(c, call[c], conn[link[c]], runs[<<c, call[c].n>>])

-----------------------------------------------------------------------------
(* The events.                                                             *)

Has(r, e) == \/ \E i \in 1 .. Len(r.line) : r.line[i].event = e
             \/ \E i \in 1 .. Len(r.up) : r.up[i].event = e

(* A call that is over.                                                    *)
Past(e) == \/ e[2] < call[e[1]].n
           \/ e[2] = call[e[1]].n /\ call[e[1]].stage = "idle"

(* A byte of an event that is on its way is on its way in one connection   *)
(* only, and the event has not been run; in a connection that was left it  *)
(* is of a call that is over.                                              *)
BytesOK ==
  \A k \in Conns, e \in Events :
    Has(conn[k], e) =>
      /\ runs[e] = 0
      /\ \A j \in Conns : Has(conn[j], e) => j = k
      /\ ~conn[k].open => Past(e)

(* An event that is still to be sent was not run.                          *)
RunsOK ==
  \A e \in Events :
    /\ runs[e] <= 1
    /\ e[2] > call[e[1]].n => runs[e] = 0
    /\ e[2] = call[e[1]].n /\ call[e[1]].stage \in {"connect", "write"} => runs[e] = 0

IInv == Types /\ LimiterOK /\ LinksOK /\ CallsOK /\ BytesOK /\ RunsOK

-----------------------------------------------------------------------------
(* Records and their fields.                                               *)

LEMMA Sizes ==
  /\ Conns \subseteq Nat /\ NoConn \notin Conns
  /\ IsFiniteSet(Conns) /\ NewLine = 2 /\ 1 \in 1 .. NewLine
<1>1. Conns \subseteq Nat /\ NoConn \notin Conns /\ NewLine = 2 /\ 1 \in 1 .. NewLine
  BY IpcAssumption DEF Conns, NoConn, NewLine
<1>2. IsFiniteSet(Conns)
  BY FS_Interval, IpcAssumption DEF Conns
<1> QED BY <1>1, <1>2

LEMMA ConnectionIntro ==
  ASSUME NEW a \in Ats, NEW o \in BOOLEAN, NEW u \in Seq(Bytes), NEW l \in Seq(Bytes),
         NEW r \in {<<>>} \cup (Answers \X Kinds), NEW d \in Seq(Answers)
  PROVE  [at |-> a, open |-> o, up |-> u, line |-> l, reply |-> r, down |-> d] \in Connection
<1> QED BY Zenon DEF Connection

LEMMA ConnectionFields ==
  ASSUME NEW r \in Connection
  PROVE  /\ r.at \in Ats /\ r.open \in BOOLEAN /\ r.up \in Seq(Bytes) /\ r.line \in Seq(Bytes)
         /\ r.reply \in {<<>>} \cup (Answers \X Kinds) /\ r.down \in Seq(Answers)
         /\ r = [at |-> r.at, open |-> r.open, up |-> r.up, line |-> r.line,
                 reply |-> r.reply, down |-> r.down]
<1> QED BY Zenon DEF Connection

(* An end that is not used has no bytes and no program.                    *)
LEMMA UnusedIsOne ==
  /\ Unused \in Connection
  /\ Unused.at = "unused" /\ ~Unused.open
  /\ Unused.up = <<>> /\ Unused.line = <<>> /\ Unused.reply = <<>> /\ Unused.down = <<>>
<1>1. Unused.at = "unused" /\ ~Unused.open
      /\ Unused.up = <<>> /\ Unused.line = <<>> /\ Unused.reply = <<>> /\ Unused.down = <<>>
  BY Zenon DEF Unused
<1>2. "unused" \in Ats /\ FALSE \in BOOLEAN /\ <<>> \in {<<>>} \cup (Answers \X Kinds)
  BY DEF Ats
<1>3. Unused \in Connection
  BY <1>2, ConnectionIntro, EmptySeq, Zenon DEF Unused
<1> QED BY <1>1, <1>3

(* The parts a step of a connection may change.                            *)
LEMMA PartsUp ==
  ASSUME NEW A, NEW O, NEW U, NEW L, NEW R, NEW D,
         NEW r \in [at : A, open : O, up : U, line : L, reply : R, down : D],
         NEW u \in U, NEW q,
         q = [r EXCEPT !.up = u]
  PROVE  /\ q \in [at : A, open : O, up : U, line : L, reply : R, down : D]
         /\ q.at = r.at /\ q.open = r.open /\ q.up = u
         /\ q.line = r.line /\ q.reply = r.reply /\ q.down = r.down
<1> QED OBVIOUS

LEMMA PartsAt ==
  ASSUME NEW A, NEW O, NEW U, NEW L, NEW R, NEW D,
         NEW r \in [at : A, open : O, up : U, line : L, reply : R, down : D],
         NEW a \in A, NEW q,
         q = [r EXCEPT !.at = a]
  PROVE  /\ q \in [at : A, open : O, up : U, line : L, reply : R, down : D]
         /\ q.at = a /\ q.open = r.open /\ q.up = r.up
         /\ q.line = r.line /\ q.reply = r.reply /\ q.down = r.down
<1> QED OBVIOUS

LEMMA PartsDown ==
  ASSUME NEW A, NEW O, NEW U, NEW L, NEW R, NEW D,
         NEW r \in [at : A, open : O, up : U, line : L, reply : R, down : D],
         NEW d \in D, NEW q,
         q = [r EXCEPT !.down = d]
  PROVE  /\ q \in [at : A, open : O, up : U, line : L, reply : R, down : D]
         /\ q.at = r.at /\ q.open = r.open /\ q.up = r.up
         /\ q.line = r.line /\ q.reply = r.reply /\ q.down = d
<1> QED OBVIOUS

LEMMA PartsRead ==
  ASSUME NEW A, NEW O, NEW U, NEW L, NEW R, NEW D,
         NEW r \in [at : A, open : O, up : U, line : L, reply : R, down : D],
         NEW u \in U, NEW l \in L, NEW a \in A, NEW q,
         q = [r EXCEPT !.up = u, !.line = l, !.at = a]
  PROVE  /\ q \in [at : A, open : O, up : U, line : L, reply : R, down : D]
         /\ q.at = a /\ q.open = r.open /\ q.up = u
         /\ q.line = l /\ q.reply = r.reply /\ q.down = r.down
<1> QED OBVIOUS

LEMMA PartsBlank ==
  ASSUME NEW A, NEW O, NEW U, NEW L, NEW R, NEW D,
         NEW r \in [at : A, open : O, up : U, line : L, reply : R, down : D],
         NEW a \in A, NEW l \in L, NEW q,
         q = [r EXCEPT !.at = a, !.line = l]
  PROVE  /\ q \in [at : A, open : O, up : U, line : L, reply : R, down : D]
         /\ q.at = a /\ q.open = r.open /\ q.up = r.up
         /\ q.line = l /\ q.reply = r.reply /\ q.down = r.down
<1> QED OBVIOUS

LEMMA PartsReplying ==
  ASSUME NEW A, NEW O, NEW U, NEW L, NEW R, NEW D,
         NEW r \in [at : A, open : O, up : U, line : L, reply : R, down : D],
         NEW a \in A, NEW l \in L, NEW p \in R, NEW q,
         q = [r EXCEPT !.at = a, !.line = l, !.reply = p]
  PROVE  /\ q \in [at : A, open : O, up : U, line : L, reply : R, down : D]
         /\ q.at = a /\ q.open = r.open /\ q.up = r.up
         /\ q.line = l /\ q.reply = p /\ q.down = r.down
<1> QED OBVIOUS

LEMMA PartsAnswer ==
  ASSUME NEW A, NEW O, NEW U, NEW L, NEW R, NEW D,
         NEW r \in [at : A, open : O, up : U, line : L, reply : R, down : D],
         NEW a \in A, NEW p \in R, NEW d \in D, NEW q,
         q = [r EXCEPT !.at = a, !.reply = p, !.down = d]
  PROVE  /\ q \in [at : A, open : O, up : U, line : L, reply : R, down : D]
         /\ q.at = a /\ q.open = r.open /\ q.up = r.up
         /\ q.line = r.line /\ q.reply = p /\ q.down = d
<1> QED OBVIOUS

(* The end of the program is closed; or the end of the daemon.             *)
LEMMA PartsHang ==
  ASSUME NEW A, NEW O, NEW U, NEW L, NEW R, NEW D,
         NEW r \in [at : A, open : O, up : U, line : L, reply : R, down : D],
         FALSE \in O, <<>> \in D, NEW q, q = [r EXCEPT !.open = FALSE, !.down = <<>>]
  PROVE  /\ q \in [at : A, open : O, up : U, line : L, reply : R, down : D]
         /\ ~q.open /\ q.down = <<>>
         /\ q.at = r.at /\ q.up = r.up /\ q.line = r.line /\ q.reply = r.reply
<1> QED OBVIOUS

LEMMA PartsClose ==
  ASSUME NEW A, NEW O, NEW U, NEW L, NEW R, NEW D,
         NEW r \in [at : A, open : O, up : U, line : L, reply : R, down : D],
         "closed" \in A, <<>> \in U, <<>> \in L, <<>> \in R, NEW q,
         q = [r EXCEPT !.at = "closed", !.up = <<>>, !.line = <<>>, !.reply = <<>>]
  PROVE  /\ q \in [at : A, open : O, up : U, line : L, reply : R, down : D]
         /\ q.at = "closed" /\ q.open = r.open /\ q.down = r.down
         /\ q.up = <<>> /\ q.line = <<>> /\ q.reply = <<>>
<1> QED OBVIOUS

LEMMA Hangs ==
  ASSUME NEW r \in Connection, NEW q, q = Ended([r EXCEPT !.open = FALSE, !.down = <<>>])
  PROVE  /\ q \in Connection
         /\ r.at = "closed" => q = Unused
         /\ r.at # "closed" => /\ q.at = r.at /\ ~q.open /\ q.up = r.up /\ q.line = r.line
                               /\ q.reply = r.reply /\ q.down = <<>>
<1>1. PICK s : s = [r EXCEPT !.open = FALSE, !.down = <<>>]
  OBVIOUS
<1>2. FALSE \in BOOLEAN /\ <<>> \in Seq(Answers)
  OBVIOUS
<1>3. s \in Connection /\ ~s.open /\ s.down = <<>> /\ s.at = r.at /\ s.up = r.up
      /\ s.line = r.line /\ s.reply = r.reply
  BY <1>1, <1>2, PartsHang DEF Connection
<1>4. q = Ended(s)
  BY <1>1
<1> QED BY <1>3, <1>4, UnusedIsOne, Zenon DEF Ended

LEMMA Closes ==
  ASSUME NEW r \in Connection, NEW q, q = Closed(r)
  PROVE  /\ q \in Connection
         /\ ~r.open => q = Unused
         /\ r.open => /\ q.at = "closed" /\ q.open /\ q.down = r.down
                      /\ q.up = <<>> /\ q.line = <<>> /\ q.reply = <<>>
<1>1. PICK s : s = [r EXCEPT !.at = "closed", !.up = <<>>, !.line = <<>>, !.reply = <<>>]
  OBVIOUS
<1>2. "closed" \in Ats /\ <<>> \in Seq(Bytes) /\ <<>> \in {<<>>} \cup (Answers \X Kinds)
  BY DEF Ats
<1>3. s \in Connection /\ s.at = "closed" /\ (s.open <=> r.open) /\ s.down = r.down
      /\ s.up = <<>> /\ s.line = <<>> /\ s.reply = <<>>
  BY <1>1, <1>2, PartsClose DEF Connection
<1>4. q = Ended(s)
  BY <1>1 DEF Closed
<1> QED BY <1>3, <1>4, UnusedIsOne, Zenon DEF Ended

LEMMA Responses ==
  /\ DOMAIN Response = {"hello", "send", "query", "set_theme", "theme_list",
                        "set_force_palette", "reload", "version"}
  /\ \A x \in DOMAIN Response : Response[x] # "error" /\ Response[x] \in Answers
  /\ "error" \in Answers /\ "send" \in Kinds
  /\ \A x \in Kinds : x \in {"bad", "blank", "binary", "huge"} \/ x \in DOMAIN Response
<1>1. DOMAIN Response = {"hello", "send", "query", "set_theme", "theme_list",
                         "set_force_palette", "reload", "version"}
  BY DEF Response
<1>2. \A x \in {"hello", "send", "query", "set_theme", "theme_list", "set_force_palette",
                "reload", "version"} : Response[x] # "error"
  BY DEF Response
<1>3. \A x \in DOMAIN Response : Response[x] # "error"
  BY <1>1, <1>2
<1>4. (\A x \in DOMAIN Response : Response[x] \in Answers) /\ "error" \in Answers
  BY DEF Answers
<1>5. /\ "send" \in Kinds
      /\ \A x \in Kinds : x \in {"bad", "blank", "binary", "huge"} \/ x \in DOMAIN Response
  BY <1>1 DEF Kinds
<1> QED BY <1>1, <1>3, <1>4, <1>5

LEMMA CallFields ==
  ASSUME NEW m \in Call
  PROVE  /\ m.stage \in {"idle", "connect", "write", "read"} /\ m.n \in Nat /\ m.ok \in BOOLEAN
         /\ m.kind \in Kinds /\ m.written \in 0 .. NewLine /\ m.late \in BOOLEAN
         /\ m.retried \in BOOLEAN
<1> QED BY Zenon DEF Call

LEMMA CallIntro ==
  ASSUME NEW s \in {"idle", "connect", "write", "read"}, NEW n \in Nat, NEW o \in BOOLEAN,
         NEW x \in Kinds, NEW w \in 0 .. NewLine, NEW t \in BOOLEAN, NEW r \in BOOLEAN
  PROVE  [stage |-> s, n |-> n, ok |-> o, kind |-> x, written |-> w, late |-> t,
          retried |-> r] \in Call
<1> QED BY Zenon DEF Call

LEMMA EventsAre ==
  /\ \A c \in Clients, n \in Nat : <<c, n>> \in Events <=> n \in 1 .. MaxEvents[c]
  /\ \A e \in Events : e[1] \in Clients /\ e[2] \in Nat /\ e = <<e[1], e[2]>>
<1> QED BY IpcAssumption DEF Events

-----------------------------------------------------------------------------
(* What each step changes.                                                 *)

LEMMA IdleIsOne ==
  /\ Idle \in Call
  /\ Idle.stage = "idle" /\ Idle.n = 0 /\ ~Idle.ok /\ Idle.kind = "send" /\ Idle.written = 0
  /\ ~Idle.late /\ ~Idle.retried
<1>1. /\ Idle.stage = "idle" /\ Idle.n = 0 /\ ~Idle.ok /\ Idle.kind = "send" /\ Idle.written = 0
      /\ ~Idle.late /\ ~Idle.retried
  BY Zenon DEF Idle
<1>2. FALSE \in BOOLEAN /\ "idle" \in {"idle", "connect", "write", "read"} /\ 0 \in Nat
      /\ 0 \in 0 .. NewLine
  BY DEF NewLine
<1>3. Idle \in Call
  BY <1>2, CallIntro, Responses, Zenon DEF Idle
<1> QED BY <1>1, <1>3

LEMMA PartsBegin ==
  ASSUME NEW S, NEW N, NEW O, NEW X, NEW W, NEW T, NEW R,
         NEW r \in [stage : S, n : N, ok : O, kind : X, written : W, late : T, retried : R],
         NEW s \in S, NEW n \in N, NEW x \in X, NEW q,
         q = [r EXCEPT !.n = n, !.kind = x, !.stage = s]
  PROVE  /\ q \in [stage : S, n : N, ok : O, kind : X, written : W, late : T, retried : R]
         /\ q.stage = s /\ q.n = n /\ q.ok = r.ok /\ q.kind = x /\ q.written = r.written
         /\ q.late = r.late /\ q.retried = r.retried
<1> QED OBVIOUS

LEMMA PartsReturn ==
  ASSUME NEW S, NEW N, NEW O, NEW X, NEW W, NEW T, NEW R,
         NEW r \in [stage : S, n : N, ok : O, kind : X, written : W, late : T, retried : R],
         NEW n \in N, NEW o \in O, NEW q, q = [r EXCEPT !.n = n, !.ok = o]
  PROVE  /\ q \in [stage : S, n : N, ok : O, kind : X, written : W, late : T, retried : R]
         /\ q.stage = r.stage /\ q.n = n /\ q.ok = o /\ q.kind = r.kind
         /\ q.written = r.written /\ q.late = r.late /\ q.retried = r.retried
<1> QED OBVIOUS

LEMMA PartsStage ==
  ASSUME NEW S, NEW N, NEW O, NEW X, NEW W, NEW T, NEW R,
         NEW r \in [stage : S, n : N, ok : O, kind : X, written : W, late : T, retried : R],
         NEW s \in S, NEW w \in W, NEW q, q = [r EXCEPT !.written = w, !.stage = s]
  PROVE  /\ q \in [stage : S, n : N, ok : O, kind : X, written : W, late : T, retried : R]
         /\ q.stage = s /\ q.n = r.n /\ q.ok = r.ok /\ q.kind = r.kind
         /\ q.written = w /\ q.late = r.late /\ q.retried = r.retried
<1> QED OBVIOUS

LEMMA PartsConnected ==
  ASSUME NEW S, NEW N, NEW O, NEW X, NEW W, NEW T, NEW R,
         NEW r \in [stage : S, n : N, ok : O, kind : X, written : W, late : T, retried : R],
         NEW s \in S, NEW q, q = [r EXCEPT !.stage = s]
  PROVE  /\ q \in [stage : S, n : N, ok : O, kind : X, written : W, late : T, retried : R]
         /\ q.stage = s /\ q.n = r.n /\ q.ok = r.ok /\ q.kind = r.kind
         /\ q.written = r.written /\ q.late = r.late /\ q.retried = r.retried
<1> QED OBVIOUS

LEMMA PartsAttempt ==
  ASSUME NEW S, NEW N, NEW O, NEW X, NEW W, NEW T, NEW R,
         NEW r \in [stage : S, n : N, ok : O, kind : X, written : W, late : T, retried : R],
         "connect" \in S, 0 \in W, TRUE \in R, NEW q,
         q = [r EXCEPT !.stage = "connect", !.written = 0, !.retried = TRUE]
  PROVE  /\ q \in [stage : S, n : N, ok : O, kind : X, written : W, late : T, retried : R]
         /\ q.stage = "connect" /\ q.n = r.n /\ q.ok = r.ok /\ q.kind = r.kind
         /\ q.written = 0 /\ q.late = r.late
<1> QED OBVIOUS

LEMMA PartsLate ==
  ASSUME NEW S, NEW N, NEW O, NEW X, NEW W, NEW T, NEW R,
         NEW r \in [stage : S, n : N, ok : O, kind : X, written : W, late : T, retried : R],
         TRUE \in T, NEW q, q = [r EXCEPT !.late = TRUE]
  PROVE  /\ q \in [stage : S, n : N, ok : O, kind : X, written : W, late : T, retried : R]
         /\ q.stage = r.stage /\ q.n = r.n /\ q.ok = r.ok /\ q.kind = r.kind
         /\ q.written = r.written /\ q.late
<1> QED OBVIOUS

LEMMA SendBegins ==
  ASSUME Types, NEW c \in Clients, Send(c) \/ Command(c)
  PROVE  \E m \in Call :
           /\ call' = [call EXCEPT ![c] = m]
           /\ call[c].stage = "idle" /\ m.n = call[c].n + 1 /\ <<c, m.n>> \in Events
           /\ m.stage = IF link[c] = NoConn THEN "connect" ELSE "write"
           /\ m.written = 0 /\ ~m.ok /\ ~m.late
           /\ UNCHANGED <<link, conn, backlog, accept, active, daemon, runs>>
<1>1. PICK x \in Kinds : Begin(c, x, IF link[c] = NoConn THEN "connect" ELSE "write")
  <2>1. LineKinds(c) \subseteq Kinds
    BY IpcAssumption, Responses DEF LineKinds, Kinds
  <2> QED BY <2>1, Responses DEF Send, Command
<1>2. PICK s : s = IF link[c] = NoConn THEN "connect" ELSE "write"
  OBVIOUS
<1>3. s \in {"idle", "connect", "write", "read"}
  BY <1>2
<1>4. call[c] \in Call /\ call[c].n \in Nat /\ call[c].n + 1 \in Nat
  BY CallFields DEF Types
<1>5. PICK m : m = [Idle EXCEPT !.n = call[c].n + 1, !.kind = x, !.stage = s]
  OBVIOUS
<1>6. m \in Call /\ m.n = call[c].n + 1 /\ m.stage = s /\ m.written = 0 /\ ~m.ok /\ ~m.late
  BY <1>3, <1>4, <1>5, IdleIsOne, PartsBegin DEF Call
<1>7. /\ call[c].stage = "idle" /\ call[c].n < MaxEvents[c]
      /\ call' = [call EXCEPT ![c] = m]
      /\ UNCHANGED <<link, conn, backlog, accept, active, daemon, runs>>
  BY <1>1, <1>2, <1>5 DEF Begin, daemonVars
<1>8. <<c, m.n>> \in Events
  BY <1>4, <1>6, <1>7, EventsAre, IpcAssumption
<1> QED BY <1>2, <1>6, <1>7, <1>8

LEMMA Returns ==
  ASSUME Types, NEW c \in Clients, NEW ok \in BOOLEAN, Return(c, ok)
  PROVE  \E m \in Call :
           /\ call' = [call EXCEPT ![c] = m]
           /\ m.stage = "idle" /\ m.n = call[c].n /\ (m.ok <=> ok) /\ ~m.late
<1>1. PICK m : m = [Idle EXCEPT !.n = call[c].n, !.ok = ok]
  OBVIOUS
<1>2. call[c] \in Call /\ call[c].n \in Nat
  BY CallFields DEF Types
<1>3. m \in Call /\ m.stage = "idle" /\ m.n = call[c].n /\ (m.ok <=> ok) /\ ~m.late
  BY <1>1, <1>2, IdleIsOne, PartsReturn DEF Call
<1> QED BY <1>1, <1>3 DEF Return

(* The end of a program is closed, the daemon's may still be open; and the *)
(* other way round.                                                        *)
Left(r, q) ==
  /\ q \in Connection
  /\ r.at = "closed" => q = Unused
  /\ r.at # "closed" => /\ q.at = r.at /\ ~q.open /\ q.up = r.up /\ q.line = r.line
                        /\ q.reply = r.reply /\ q.down = <<>>

Shut(r, q) ==
  /\ q \in Connection
  /\ ~r.open => q = Unused
  /\ r.open => /\ q.at = "closed" /\ q.open /\ q.down = r.down
               /\ q.up = <<>> /\ q.line = <<>> /\ q.reply = <<>>

LEMMA HangUpIs ==
  ASSUME Types, NEW k \in Conns, conn' = HangUp(k)
  PROVE  \E q : Left(conn[k], q) /\ conn' = [conn EXCEPT ![k] = q]
<1>1. PICK q : q = Ended([conn[k] EXCEPT !.open = FALSE, !.down = <<>>])
  OBVIOUS
<1>2. conn[k] \in Connection
  BY DEF Types
<1>3. Left(conn[k], q)
  BY <1>1, <1>2, Hangs DEF Left
<1> QED BY <1>1, <1>3 DEF HangUp

LEMMA ClosedIs ==
  ASSUME NEW r \in Connection
  PROVE  Shut(r, Closed(r))
<1> QED BY Closes DEF Shut

LEMMA Fails ==
  ASSUME Types, NEW c \in Clients, Fail(c)
  PROVE  \E m \in Call :
           /\ call' = [call EXCEPT ![c] = m]
           /\ m.stage = "idle" /\ m.n = call[c].n /\ ~m.ok /\ ~m.late
           /\ link' = [link EXCEPT ![c] = NoConn]
           /\ link[c] = NoConn => conn' = conn
           /\ link[c] # NoConn =>
                \E q : Left(conn[link[c]], q) /\ conn' = [conn EXCEPT ![link[c]] = q]
           /\ UNCHANGED <<backlog, accept, active, daemon, runs>>
<1>1. PICK m \in Call : /\ call' = [call EXCEPT ![c] = m]
                        /\ m.stage = "idle" /\ m.n = call[c].n /\ (m.ok <=> FALSE) /\ ~m.late
  <2>1. Return(c, FALSE) /\ FALSE \in BOOLEAN
    BY DEF Fail
  <2> QED BY <2>1, Returns, Zenon
<1>2. /\ link' = [link EXCEPT ![c] = NoConn]
      /\ conn' = IF link[c] = NoConn THEN conn ELSE HangUp(link[c])
      /\ UNCHANGED <<backlog, accept, active, daemon, runs>>
  BY DEF Fail, daemonVars
<1>3. link[c] # NoConn => link[c] \in Conns
  BY DEF Types
<1>4. link[c] # NoConn =>
        \E q : Left(conn[link[c]], q) /\ conn' = [conn EXCEPT ![link[c]] = q]
  BY <1>2, <1>3, HangUpIs
<1> QED BY <1>1, <1>2, <1>4

LEMMA Retries ==
  ASSUME Types, NEW c \in Clients, RequestFails(c), ~Fail(c)
  PROVE  /\ call[c].stage = "write" /\ call[c].written = 0
         /\ \E m \in Call :
              /\ call' = [call EXCEPT ![c] = m]
              /\ m.stage = "connect" /\ m.written = 0 /\ m.n = call[c].n
              /\ (m.ok <=> call[c].ok) /\ (m.late <=> call[c].late)
         /\ link' = [link EXCEPT ![c] = NoConn]
         /\ link[c] \in Conns =>
              \E q : Left(conn[link[c]], q) /\ conn' = [conn EXCEPT ![link[c]] = q]
         /\ UNCHANGED <<backlog, accept, active, daemon, runs>>
<1>1. PICK m : m = [call[c] EXCEPT !.stage = "connect", !.written = 0, !.retried = TRUE]
  OBVIOUS
<1>2. /\ call[c].stage = "write" /\ call[c].written = 0
      /\ call' = [call EXCEPT ![c] = m]
      /\ conn' = HangUp(link[c]) /\ link' = [link EXCEPT ![c] = NoConn]
      /\ UNCHANGED <<backlog, accept, active, daemon, runs>>
  BY <1>1 DEF RequestFails, RetrySafe, Attempt, daemonVars
<1>3. "connect" \in {"idle", "connect", "write", "read"} /\ 0 \in 0 .. NewLine /\ TRUE \in BOOLEAN
  BY DEF NewLine
<1>4. call[c] \in Call
  BY DEF Types
<1>5. m \in Call /\ m.stage = "connect" /\ m.written = 0 /\ m.n = call[c].n
      /\ (m.ok <=> call[c].ok) /\ (m.late <=> call[c].late)
  BY <1>1, <1>3, <1>4, PartsAttempt DEF Call
<1> QED BY <1>2, <1>5, HangUpIs

LEMMA PartsTaken ==
  ASSUME NEW A, NEW O, NEW U, NEW L, NEW R, NEW D,
         NEW r \in [at : A, open : O, up : U, line : L, reply : R, down : D],
         "backlog" \in A, TRUE \in O, NEW q, q = [r EXCEPT !.at = "backlog", !.open = TRUE]
  PROVE  /\ q \in [at : A, open : O, up : U, line : L, reply : R, down : D]
         /\ q.at = "backlog" /\ q.open /\ q.down = r.down
         /\ q.up = r.up /\ q.line = r.line /\ q.reply = r.reply
<1> QED OBVIOUS

(* The program c connects: k is its connection, q; m is its call.          *)
Connected(c, k, q, m) ==
  /\ call[c].stage = "connect" /\ daemon.up /\ conn[k].at = "unused"
  /\ conn' = [conn EXCEPT ![k] = q]
  /\ q.at = "backlog" /\ q.open
  /\ q.up = <<>> /\ q.line = <<>> /\ q.reply = <<>> /\ q.down = <<>>
  /\ call' = [call EXCEPT ![c] = m]
  /\ m.stage = "write" /\ m.n = call[c].n /\ m.written = call[c].written
  /\ (m.ok <=> call[c].ok) /\ (m.late <=> call[c].late) /\ m.kind = call[c].kind
  /\ link' = [link EXCEPT ![c] = k]
  /\ backlog' = Append(backlog, k)
  /\ UNCHANGED <<accept, active, daemon, runs>>

LEMMA Connects ==
  ASSUME Types, NEW c \in Clients, Connect(c)
  PROVE  \E k \in Conns, q \in Connection, m \in Call : Connected(c, k, q, m)
<1>1. PICK q : q = [Unused EXCEPT !.at = "backlog", !.open = TRUE]
  OBVIOUS
<1>2. PICK k \in Conns :
        /\ conn[k].at = "unused" /\ call[c].stage = "connect" /\ daemon.up
        /\ conn' = [conn EXCEPT ![k] = q]
        /\ link' = [link EXCEPT ![c] = k]
        /\ backlog' = Append(backlog, k)
        /\ call' = [call EXCEPT ![c].stage = "write"]
        /\ UNCHANGED <<accept, active, daemon, runs>>
  BY <1>1 DEF Connect, Free
<1>3. PICK m : m = [call[c] EXCEPT !.stage = "write"]
  OBVIOUS
<1>4. "write" \in {"idle", "connect", "write", "read"} /\ call[c] \in Call
  BY DEF Types
<1>5. m \in Call /\ m.stage = "write" /\ m.n = call[c].n /\ m.written = call[c].written
      /\ (m.ok <=> call[c].ok) /\ (m.late <=> call[c].late) /\ m.kind = call[c].kind
  BY <1>3, <1>4, PartsConnected DEF Call
<1>6. call' = [call EXCEPT ![c] = m]
  BY <1>2, <1>3
<1>7. q \in Connection /\ q.at = "backlog" /\ q.open
      /\ q.up = <<>> /\ q.line = <<>> /\ q.reply = <<>> /\ q.down = <<>>
  <2>1. "backlog" \in Ats /\ TRUE \in BOOLEAN
    BY DEF Ats
  <2> QED BY <1>1, <2>1, PartsTaken, UnusedIsOne DEF Connection
<1>8. Connected(c, k, q, m)
  BY <1>2, <1>5, <1>6, <1>7 DEF Connected
<1> QED BY <1>5, <1>7, <1>8

(* The part of a line that one write sends.                                *)
LEMMA LinePart ==
  ASSUME NEW e \in Events, NEW x \in Kinds, NEW s \in Nat, NEW n \in Nat, s + n <= NewLine
  PROVE  LET p == SubSeq(LineOf(e, x), s + 1, s + n)
         IN p \in Seq(Bytes) /\ Len(p) = n /\ \A i \in 1 .. n : p[i] = Byte(e, x, s + i)
<1>1. LineOf(e, x) \in Seq(Bytes) /\ Len(LineOf(e, x)) = NewLine
  BY DEF LineOf, Bytes, NewLine
<1>2. \A i \in 1 .. NewLine : LineOf(e, x)[i] = Byte(e, x, i)
  BY DEF LineOf, Byte, NewLine
<1>3. s + 1 \in 1 .. Len(LineOf(e, x)) + 1 /\ s + n \in (s + 1) - 1 .. Len(LineOf(e, x))
  BY <1>1 DEF NewLine
<1> HIDE DEF NewLine
<1> DEFINE p == SubSeq(LineOf(e, x), s + 1, s + n)
<1>4. /\ p \in Seq(Bytes)
      /\ Len(p) = (s + n) - (s + 1) + 1
      /\ \A i \in 1 .. (s + n) - (s + 1) + 1 : p[i] = LineOf(e, x)[s + 1 + i - 1]
  BY <1>1, <1>3, SubSeqProperties
<1> HIDE DEF p
<1>5. (s + n) - (s + 1) + 1 = n /\ \A i \in 1 .. n : s + 1 + i - 1 = s + i /\ s + i \in 1 .. NewLine
  BY Sizes
<1>6. Len(p) = n /\ \A i \in 1 .. n : p[i] = LineOf(e, x)[s + i]
  BY <1>4, <1>5
<1>7. \A i \in 1 .. n : p[i] = Byte(e, x, s + i)
  BY <1>2, <1>5, <1>6
<1> QED BY <1>4, <1>6, <1>7 DEF p

(* It writes n more bytes of its line.                                     *)
Wrote(c, q, m, n) ==
  LET r == conn[link[c]] IN
  /\ call[c].stage = "write" /\ ~call[c].late /\ r.at # "closed" /\ r.open
  /\ conn' = [conn EXCEPT ![link[c]] = q]
  /\ q.up = r.up \o SubSeq(LineOf(<<c, call[c].n>>, call[c].kind), call[c].written + 1,
                           call[c].written + n)
  /\ q.at = r.at /\ (q.open <=> r.open) /\ q.line = r.line /\ q.reply = r.reply
  /\ q.down = r.down
  /\ call' = [call EXCEPT ![c] = m]
  /\ m.stage = (IF call[c].written + n = NewLine THEN "read" ELSE "write")
  /\ m.n = call[c].n /\ m.written = call[c].written + n
  /\ (m.ok <=> call[c].ok) /\ ~m.late /\ m.kind = call[c].kind
  /\ UNCHANGED <<link, backlog, accept, active, daemon, runs>>

LEMMA Writes ==
  ASSUME Types, NEW c \in Clients, Write(c), link[c] \in Conns,
         <<c, call[c].n>> \in Events
  PROVE  \E q \in Connection, m \in Call, n \in 1 .. (NewLine - call[c].written) :
           Wrote(c, q, m, n)
<1> DEFINE sent == call[c].written
           e == <<c, call[c].n>>
           x == call[c].kind
           r == conn[link[c]]
<1>1. PICK n \in 1 .. (NewLine - sent) :
        /\ call[c].stage = "write" /\ ~call[c].late /\ r.at # "closed" /\ r.open
        /\ conn' = [conn EXCEPT ![link[c]].up = @ \o SubSeq(LineOf(e, x), sent + 1, sent + n)]
        /\ call' = [call EXCEPT ![c].written = @ + n,
                                ![c].stage = IF sent + n = NewLine THEN "read" ELSE "write"]
        /\ UNCHANGED <<link, backlog, accept, active, daemon, runs>>
  BY DEF Write, daemonVars
<1>2. PICK s : s = IF sent + n = NewLine THEN "read" ELSE "write"
  OBVIOUS
<1>3. s \in {"idle", "connect", "write", "read"}
  BY <1>2
<1>4. call[c] \in Call /\ sent \in 0 .. NewLine /\ x \in Kinds /\ r \in Connection
  BY CallFields DEF Types
<1>5. sent + n \in 0 .. NewLine /\ sent \in Nat /\ n \in Nat
  BY SMTT(20), <1>4 DEF NewLine
<1>6. PICK m : m = [call[c] EXCEPT !.written = sent + n, !.stage = s]
  OBVIOUS
<1>7. m \in Call /\ m.stage = s /\ m.n = call[c].n /\ m.written = sent + n
      /\ (m.ok <=> call[c].ok) /\ (m.late <=> call[c].late) /\ m.kind = call[c].kind
  BY <1>3, <1>4, <1>5, <1>6, PartsStage DEF Call
<1>8. call' = [call EXCEPT ![c] = m]
  BY <1>1, <1>2, <1>6
<1>9. PICK u : u = r.up \o SubSeq(LineOf(e, x), sent + 1, sent + n)
  OBVIOUS
<1>10. u \in Seq(Bytes)
  <2>1. SubSeq(LineOf(e, x), sent + 1, sent + n) \in Seq(Bytes)
    <3>1. sent + n <= NewLine
      BY <1>5
    <3> HIDE DEF e, x, sent
    <3>2. e \in Events /\ x \in Kinds /\ sent \in Nat /\ n \in Nat
      BY <1>4, <1>5 DEF e
    <3> QED BY <3>1, <3>2, LinePart
  <2>2. r.up \in Seq(Bytes)
    BY <1>4, ConnectionFields
  <2> QED BY <2>1, <2>2, <1>9, ConcatProperties
<1>11. PICK q : q = [r EXCEPT !.up = u]
  OBVIOUS
<1>12. /\ q \in Connection
       /\ q.at = r.at /\ (q.open <=> r.open) /\ q.up = u
       /\ q.line = r.line /\ q.reply = r.reply /\ q.down = r.down
  BY <1>4, <1>10, <1>11, PartsUp DEF Connection
<1>13. conn' = [conn EXCEPT ![link[c]] = q]
  BY <1>1, <1>9, <1>11
<1>14. m.stage = (IF sent + n = NewLine THEN "read" ELSE "write") /\ ~m.late
  BY <1>1, <1>2, <1>7
<1>15. m.kind = x
  BY <1>7
<1>16. /\ call[c].stage = "write" /\ ~call[c].late /\ r.at # "closed" /\ r.open
       /\ UNCHANGED <<link, backlog, accept, active, daemon, runs>>
  BY <1>1
<1>17. q.up = r.up \o SubSeq(LineOf(e, x), sent + 1, sent + n)
  BY <1>9, <1>12
<1>18. Wrote(c, q, m, n)
  BY <1>7, <1>8, <1>12, <1>13, <1>14, <1>15, <1>16, <1>17, Zenon DEF Wrote
<1> HIDE DEF sent
<1> QED BY <1>7, <1>12, <1>18 DEF sent

(* It has read an answer.                                                  *)
GotAnswer(c, q, m) ==
  LET r == conn[link[c]] IN
  /\ call[c].stage = "read" /\ ~call[c].late /\ r.down # <<>>
  /\ conn' = [conn EXCEPT ![link[c]] = q]
  /\ q.at = r.at /\ (q.open <=> r.open) /\ q.up = r.up /\ q.line = r.line
  /\ q.reply = r.reply /\ q.down = Tail(r.down)
  /\ call' = [call EXCEPT ![c] = m]
  /\ m.stage = "idle" /\ m.n = call[c].n /\ ~m.late
  /\ m.ok => Head(r.down) # "error"
  /\ UNCHANGED <<link, backlog, accept, active, daemon, runs>>

LEMMA Reads ==
  ASSUME Types, NEW c \in Clients, ReadAnswer(c), ~Fail(c), link[c] \in Conns
  PROVE  \E q \in Connection, m \in Call : GotAnswer(c, q, m)
<1> DEFINE r == conn[link[c]]
<1>1. PICK ok \in BOOLEAN : ok <=> Expected(call[c].kind, Head(r.down))
  BY DEF Expected
<1>2. /\ call[c].stage = "read" /\ ~call[c].late /\ r.down # <<>>
      /\ Return(c, ok)
      /\ conn' = [conn EXCEPT ![link[c]].down = Tail(@)]
      /\ UNCHANGED <<link, backlog, accept, active, daemon, runs>>
  <2>1. Return(c, Expected(call[c].kind, Head(r.down)))
    BY DEF ReadAnswer
  <2>2. Return(c, ok)
    <3>1. Expected(call[c].kind, Head(r.down)) \in BOOLEAN
      BY DEF Expected
    <3>2. ok = Expected(call[c].kind, Head(r.down))
      BY <1>1, <3>1
    <3> QED BY <2>1, <3>2, Zenon
  <2> QED BY <2>2 DEF ReadAnswer, daemonVars
<1>3. r \in Connection /\ r.down \in Seq(Answers)
  BY ConnectionFields DEF Types
<1>4. PICK m \in Call : /\ call' = [call EXCEPT ![c] = m]
                        /\ m.stage = "idle" /\ m.n = call[c].n /\ (m.ok <=> ok) /\ ~m.late
  BY <1>2, Returns
<1>5. PICK d : d = Tail(r.down)
  OBVIOUS
<1>6. d \in Seq(Answers)
  BY <1>2, <1>3, <1>5, HeadTailProperties
<1>11. PICK q : q = [r EXCEPT !.down = d]
  OBVIOUS
<1>7. /\ q \in Connection
      /\ q.at = r.at /\ (q.open <=> r.open) /\ q.up = r.up /\ q.line = r.line
      /\ q.reply = r.reply /\ q.down = d
  BY <1>3, <1>6, <1>11, PartsDown DEF Connection
<1>8. conn' = [conn EXCEPT ![link[c]] = q]
  BY <1>2, <1>5, <1>11
<1>9. m.ok => Head(r.down) # "error"
  <2> SUFFICES ASSUME m.ok PROVE Head(r.down) # "error"
    OBVIOUS
  <2>1. Expected(call[c].kind, Head(r.down))
    BY <1>1, <1>4
  <2> QED BY <2>1, Responses DEF Expected
<1>10. /\ call[c].stage = "read" /\ ~call[c].late /\ r.down # <<>>
       /\ UNCHANGED <<link, backlog, accept, active, daemon, runs>>
  BY <1>2
<1>12. GotAnswer(c, q, m)
  BY <1>4, <1>5, <1>7, <1>8, <1>9, <1>10, Zenon DEF GotAnswer
<1> QED BY <1>7, <1>12

LEMMA Expires ==
  ASSUME Types, NEW c \in Clients, Expire(c)
  PROVE  \E m \in Call :
           /\ call[c].stage # "idle" /\ call' = [call EXCEPT ![c] = m]
           /\ m.stage = call[c].stage /\ m.n = call[c].n /\ (m.ok <=> call[c].ok)
           /\ m.kind = call[c].kind /\ m.written = call[c].written /\ m.late
           /\ UNCHANGED <<link, conn, backlog, accept, active, daemon, runs>>
<1>1. PICK m : m = [call[c] EXCEPT !.late = TRUE]
  OBVIOUS
<1>2. call[c] \in Call /\ TRUE \in BOOLEAN
  BY DEF Types
<1>3. m \in Call /\ m.stage = call[c].stage /\ m.n = call[c].n /\ (m.ok <=> call[c].ok)
      /\ m.kind = call[c].kind /\ m.written = call[c].written /\ m.late
  BY <1>1, <1>2, PartsLate DEF Call
<1>4. /\ call[c].stage # "idle" /\ call' = [call EXCEPT ![c] = m]
      /\ UNCHANGED <<link, conn, backlog, accept, active, daemon, runs>>
  BY <1>1 DEF Expire, daemonVars
<1> QED BY <1>3, <1>4

LEMMA Exits ==
  ASSUME Types, NEW c \in Clients, Exit(c)
  PROVE  /\ call[c].stage = "idle" /\ link[c] \in Conns /\ link[c] # NoConn
         /\ link' = [link EXCEPT ![c] = NoConn]
         /\ \E q : Left(conn[link[c]], q) /\ conn' = [conn EXCEPT ![link[c]] = q]
         /\ UNCHANGED <<call, backlog, accept, active, daemon, runs>>
<1>1. /\ call[c].stage = "idle" /\ link[c] # NoConn /\ conn' = HangUp(link[c])
      /\ link' = [link EXCEPT ![c] = NoConn]
      /\ UNCHANGED <<call, backlog, accept, active, daemon, runs>>
  BY DEF Exit, daemonVars
<1>2. link[c] \in Conns
  BY <1>1 DEF Types
<1> QED BY <1>1, <1>2, HangUpIs

(* A step that only moves the daemon's end on.                             *)
LEMMA Moves ==
  ASSUME Types, NEW k \in Conns, NEW a \in Ats, conn' = [conn EXCEPT ![k].at = a]
  PROVE  \E q \in Connection :
           /\ conn' = [conn EXCEPT ![k] = q]
           /\ q.at = a /\ (q.open <=> conn[k].open) /\ q.up = conn[k].up
           /\ q.line = conn[k].line /\ q.reply = conn[k].reply /\ q.down = conn[k].down
<1>1. PICK q : q = [conn[k] EXCEPT !.at = a]
  OBVIOUS
<1>2. conn[k] \in Connection
  BY DEF Types
<1>3. /\ q \in Connection
      /\ q.at = a /\ (q.open <=> conn[k].open) /\ q.up = conn[k].up
      /\ q.line = conn[k].line /\ q.reply = conn[k].reply /\ q.down = conn[k].down
  BY <1>1, <1>2, PartsAt DEF Connection
<1>4. conn' = [conn EXCEPT ![k] = q]
  BY <1>1
<1> QED BY <1>3, <1>4

LEMMA AcceptFields ==
  ASSUME Types
  PROVE  /\ accept.stage \in {"accept", "acquire", "reject", "spawn"}
         /\ accept.conn \in Conns \cup {NoConn} /\ accept.count \in Nat
         /\ daemon.up \in BOOLEAN /\ daemon.starts \in Nat
<1> QED BY DEF Types

LEMMA Leaves ==
  ASSUME Types, NEW k \in Conns, NEW r \in Connection, Leave(k, r)
  PROVE  \E q : /\ Shut(r, q) /\ conn' = [conn EXCEPT ![k] = q]
                /\ active' = active - 1
<1> QED BY ClosedIs DEF Leave

(* The answer a connection over the limit gets is the error.               *)
LEMMA Rejects ==
  ASSUME Types, Reject, accept.conn \in Conns
  PROVE  \E r \in Connection, q \in Connection :
           /\ daemon.up /\ accept.stage = "reject"
           /\ Shut(r, q) /\ conn' = [conn EXCEPT ![accept.conn] = q]
           /\ (r.open <=> conn[accept.conn].open)
           /\ r.down = (IF conn[accept.conn].open THEN <<"error">> ELSE <<>>)
           /\ accept' = Listening
           /\ UNCHANGED <<call, link, backlog, active, daemon, runs>>
<1> DEFINE p == conn[accept.conn]
<1>1. PICK d : d = IF p.open THEN <<"error">> ELSE <<>>
  OBVIOUS
<1>2. d \in Seq(Answers)
  BY <1>1, Responses
<1>3. PICK r : r = [p EXCEPT !.down = d]
  OBVIOUS
<1>4. p \in Connection
  BY DEF Types
<1>5. r \in Connection /\ (r.open <=> p.open) /\ r.down = d
  BY <1>2, <1>3, <1>4, PartsDown DEF Connection
<1>6. conn' = [conn EXCEPT ![accept.conn] = Closed(r)]
  BY <1>1, <1>3 DEF Reject
<1>7. /\ daemon.up /\ accept.stage = "reject" /\ accept' = Listening
      /\ UNCHANGED <<call, link, backlog, active, daemon, runs>>
  BY DEF Reject, clientVars
<1>8. Shut(r, Closed(r)) /\ Closed(r) \in Connection
  BY <1>5, ClosedIs DEF Shut
<1> QED BY <1>1, <1>5, <1>6, <1>7, <1>8

(* The thread of the connection k reads n bytes.                           *)
TookSome(k, q, n) ==
  LET r == conn[k] IN
  /\ r.at = "reading" /\ r.up # <<>>
  /\ conn' = [conn EXCEPT ![k] = q]
  /\ q.at = (IF Last(SubSeq(r.up, 1, n)).part = NewLine \/ q.line[1].kind = "huge"
             THEN "handling" ELSE "reading")
  /\ q.up = SubSeq(r.up, n + 1, Len(r.up)) /\ q.line = r.line \o SubSeq(r.up, 1, n)
  /\ (q.open <=> r.open) /\ q.reply = r.reply /\ q.down = r.down
  /\ UNCHANGED <<call, link, backlog, accept, active, daemon, runs>>

LEMMA ReadsSome ==
  ASSUME Types, NEW k \in Conns, ReadSome(k)
  PROVE  \E q \in Connection, n \in 1 .. Len(conn[k].up) : TookSome(k, q, n)
<1> DEFINE r == conn[k]
<1>1. r \in Connection /\ r.up \in Seq(Bytes) /\ r.line \in Seq(Bytes) /\ Len(r.up) \in Nat
  BY SMTT(20), ConnectionFields, LenProperties DEF Types
<1>2. PICK n \in 1 .. Len(r.up) :
        conn' = [conn EXCEPT ![k].up = SubSeq(@, n + 1, Len(@)),
                             ![k].line = r.line \o SubSeq(r.up, 1, n),
                             ![k].at = IF Last(SubSeq(r.up, 1, n)).part = NewLine
                                          \/ (r.line \o SubSeq(r.up, 1, n))[1].kind = "huge"
                                       THEN "handling" ELSE "reading"]
  BY DEF ReadSome
<1>3. PICK u : u = SubSeq(r.up, n + 1, Len(r.up))
  OBVIOUS
<1>4. PICK l : l = r.line \o SubSeq(r.up, 1, n)
  OBVIOUS
<1>5. PICK a : a = IF Last(SubSeq(r.up, 1, n)).part = NewLine \/ l[1].kind = "huge"
                   THEN "handling" ELSE "reading"
  OBVIOUS
<1>6. a \in Ats
  BY <1>5 DEF Ats
<1>7. u \in Seq(Bytes)
  BY <1>1, <1>3, SubSeqProperties, LenProperties
<1>8. l \in Seq(Bytes)
  <2>1. SubSeq(r.up, 1, n) \in Seq(Bytes)
    BY <1>1, SubSeqProperties, LenProperties
  <2> QED BY <1>1, <1>4, <2>1, ConcatProperties
<1>9. PICK q : q = [r EXCEPT !.up = u, !.line = l, !.at = a]
  OBVIOUS
<1>10. /\ q \in Connection
       /\ q.at = a /\ (q.open <=> r.open) /\ q.up = u
       /\ q.line = l /\ q.reply = r.reply /\ q.down = r.down
  BY ZenonT(40), <1>1, <1>6, <1>7, <1>8, <1>9, PartsRead DEF Connection
<1>11. conn' = [conn EXCEPT ![k] = q]
  BY <1>2, <1>3, <1>4, <1>5, <1>9
<1>12. /\ r.at = "reading" /\ r.up # <<>>
       /\ UNCHANGED <<call, link, backlog, accept, active, daemon, runs>>
  BY DEF ReadSome, threadVars, clientVars
<1>13. q.at = (IF Last(SubSeq(r.up, 1, n)).part = NewLine \/ q.line[1].kind = "huge"
              THEN "handling" ELSE "reading")
  BY <1>5, <1>10
<1>14. TookSome(k, q, n)
  BY <1>3, <1>4, <1>10, <1>11, <1>12, <1>13, Zenon DEF TookSome
<1> QED BY <1>10, <1>14

(* A line of the connection k is blank; or it gets the answer a, after     *)
(* which the line is gone.                                                 *)
LEMMA BlankIs ==
  ASSUME Types, NEW k \in Conns,
         conn' = [conn EXCEPT ![k].at = "reading", ![k].line = <<>>]
  PROVE  \E q \in Connection :
           /\ conn' = [conn EXCEPT ![k] = q]
           /\ q.at = "reading" /\ q.line = <<>> /\ (q.open <=> conn[k].open)
           /\ q.up = conn[k].up /\ q.reply = conn[k].reply /\ q.down = conn[k].down
<1>1. PICK a \in Ats, l \in Seq(Bytes) : a = "reading" /\ l = <<>>
  BY EmptySeq DEF Ats
<1>2. PICK q : q = [conn[k] EXCEPT !.at = a, !.line = l]
  OBVIOUS
<1>3. conn[k] \in Connection
  BY DEF Types
<1>4. /\ q \in Connection
      /\ q.at = a /\ q.line = l /\ (q.open <=> conn[k].open)
      /\ q.up = conn[k].up /\ q.reply = conn[k].reply /\ q.down = conn[k].down
  BY <1>2, <1>3, PartsBlank DEF Connection
<1>5. conn' = [conn EXCEPT ![k] = q]
  BY <1>1, <1>2
<1> QED BY <1>1, <1>4, <1>5

LEMMA ReplyingIs ==
  ASSUME Types, NEW k \in Conns, NEW a \in Answers, NEW v \in Kinds, conn' = Replying(k, a, v)
  PROVE  \E q \in Connection :
           /\ conn' = [conn EXCEPT ![k] = q]
           /\ q.at = "answering" /\ q.line = <<>> /\ q.reply = <<a, v>>
           /\ (q.open <=> conn[k].open) /\ q.up = conn[k].up /\ q.down = conn[k].down
<1>1. PICK s \in Ats, l \in Seq(Bytes) : s = "answering" /\ l = <<>>
  BY EmptySeq DEF Ats
<1>2. PICK p : p = <<a, v>>
  OBVIOUS
<1>3. p \in {<<>>} \cup (Answers \X Kinds) /\ conn[k] \in Connection
  BY <1>2 DEF Types
<1>4. PICK q : q = [conn[k] EXCEPT !.at = s, !.line = l, !.reply = p]
  OBVIOUS
<1>5. /\ q \in Connection
      /\ q.at = s /\ q.line = l /\ q.reply = p
      /\ (q.open <=> conn[k].open) /\ q.up = conn[k].up /\ q.down = conn[k].down
  BY <1>3, <1>4, PartsReplying DEF Connection
<1>6. conn' = [conn EXCEPT ![k] = q]
  BY <1>1, <1>2, <1>4 DEF Replying
<1> QED BY <1>1, <1>2, <1>5, <1>6

(* The answer has left; after a line that was too long so has the          *)
(* connection.                                                             *)
LEMMA AnswerLeaves ==
  ASSUME Types, NEW k \in Conns, Answer(k), conn[k].reply # <<>>
  PROVE  LET r == conn[k] IN
         /\ r.at = "answering" /\ r.open
         /\ \E p \in Connection :
              /\ p.at = "reading" /\ p.reply = <<>> /\ p.down = Append(r.down, r.reply[1])
              /\ p.open /\ p.up = r.up /\ p.line = r.line
              /\ \/ r.reply[2] = "huge" /\ Leave(k, p)
                 \/ /\ r.reply[2] # "huge"
                    /\ conn' = [conn EXCEPT ![k] = p] /\ UNCHANGED active
         /\ UNCHANGED <<call, link, backlog, accept, daemon, runs>>
<1> DEFINE r == conn[k]
<1>1. r \in Connection /\ r.reply \in Answers \X Kinds /\ r.down \in Seq(Answers)
  BY ConnectionFields DEF Types
<1>2. PICK d : d = Append(r.down, r.reply[1])
  OBVIOUS
<1>3. d \in Seq(Answers)
  BY <1>1, <1>2, AppendProperties
<1>4. PICK a \in Ats, e \in {<<>>} \cup (Answers \X Kinds) : a = "reading" /\ e = <<>>
  BY DEF Ats
<1>5. PICK p : p = [r EXCEPT !.at = a, !.reply = e, !.down = d]
  OBVIOUS
<1>6. /\ p \in Connection
      /\ p.at = a /\ p.reply = e /\ p.down = d /\ (p.open <=> r.open) /\ p.up = r.up
      /\ p.line = r.line
  BY <1>1, <1>3, <1>4, <1>5, PartsAnswer DEF Connection
<1>7. \/ r.reply[2] = "huge" /\ Leave(k, p)
      \/ r.reply[2] # "huge" /\ conn' = [conn EXCEPT ![k] = p] /\ UNCHANGED active
  BY <1>2, <1>4, <1>5 DEF Answer
<1>8. /\ r.at = "answering" /\ r.open
      /\ UNCHANGED <<call, link, backlog, accept, daemon, runs>>
  BY DEF Answer, threadVars, clientVars
<1> QED BY <1>2, <1>4, <1>6, <1>7, <1>8, Zenon

-----------------------------------------------------------------------------
(* The limiter counts.                                                     *)

ServedAt(a) == a \in {"admitted", "reading", "handling", "answering"}

LEMMA ServedIsFinite ==
  ASSUME Types
  PROVE  /\ IsFiniteSet({j \in Conns : Served(j)})
         /\ Cardinality({j \in Conns : Served(j)}) \in Nat
<1>1. {j \in Conns : Served(j)} \subseteq Conns
  OBVIOUS
<1> QED BY <1>1, Sizes, FS_Subset, FS_CardinalityType

LEMMA CountKept ==
  ASSUME Types, NEW k \in Conns, NEW q \in Connection, conn' = [conn EXCEPT ![k] = q],
         ServedAt(q.at) <=> ServedAt(conn[k].at)
  PROVE  {j \in Conns : Served(j)}' = {j \in Conns : Served(j)}
<1>1. \A j \in Conns : Served(j)' <=> Served(j)
  BY DEF Types, Served, ServedAt
<1> QED BY <1>1

LEMMA CountJoins ==
  ASSUME Types, NEW k \in Conns, NEW q \in Connection, conn' = [conn EXCEPT ![k] = q],
         ~ServedAt(conn[k].at), ServedAt(q.at)
  PROVE  Cardinality({j \in Conns : Served(j)}') = Cardinality({j \in Conns : Served(j)}) + 1
<1>1. {j \in Conns : Served(j)}' = {j \in Conns : Served(j)} \cup {k}
  BY DEF Types, Served, ServedAt
<1>2. k \notin {j \in Conns : Served(j)}
  BY DEF Served, ServedAt
<1> QED BY <1>1, <1>2, ServedIsFinite, FS_AddElement

LEMMA CountLeaves ==
  ASSUME Types, NEW k \in Conns, NEW q \in Connection, conn' = [conn EXCEPT ![k] = q],
         ServedAt(conn[k].at), ~ServedAt(q.at)
  PROVE  Cardinality({j \in Conns : Served(j)}') = Cardinality({j \in Conns : Served(j)}) - 1
<1>1. {j \in Conns : Served(j)}' = {j \in Conns : Served(j)} \ {k}
  BY DEF Types, Served, ServedAt
<1>2. k \in {j \in Conns : Served(j)}
  BY DEF Served, ServedAt
<1> QED BY ZenonT(30), <1>1, <1>2, ServedIsFinite, FS_RemoveElement

(* A connection ends or moves on, and nobody is admitted.                  *)
LEMMA LimiterMoves ==
  ASSUME Types, LimiterOK, NEW k \in Conns, NEW q \in Connection,
         conn' = [conn EXCEPT ![k] = q],
         UNCHANGED <<backlog, accept, daemon>>,
         conn[k].at \in {"backlog", "admitted"} => q.at = conn[k].at,
         ~daemon.up => q.at \in {"unused", "closed"},
         \/ (ServedAt(q.at) <=> ServedAt(conn[k].at)) /\ active' = active
         \/ ServedAt(conn[k].at) /\ ~ServedAt(q.at) /\ active' = active - 1
  PROVE  LimiterOK'
<1>1. \A j \in Conns : conn[j].at \in {"backlog", "admitted"} => conn'[j].at = conn[j].at
  BY DEF Types
<1>2. active' = Cardinality({j \in Conns : Served(j)}') /\ active' <= MaxConnections
  <2>1. active = Cardinality({j \in Conns : Served(j)}) /\ active <= MaxConnections
        /\ active \in Nat
    BY DEF LimiterOK, Types
  <2>2. CASE (ServedAt(q.at) <=> ServedAt(conn[k].at)) /\ active' = active
    <3>1. {j \in Conns : Served(j)}' = {j \in Conns : Served(j)}
      BY <2>2, CountKept
    <3>2. Cardinality({j \in Conns : Served(j)}') = Cardinality({j \in Conns : Served(j)})
      BY <3>1, Zenon
    <3>3. active' = active
      BY <2>2
    <3> QED BY <2>1, <3>2, <3>3, Zenon
  <2>3. CASE ServedAt(conn[k].at) /\ ~ServedAt(q.at) /\ active' = active - 1
    <3>1. Cardinality({j \in Conns : Served(j)}') = Cardinality({j \in Conns : Served(j)}) - 1
      BY <2>3, CountLeaves
    <3>2. active' = active - 1 /\ MaxConnections \in Nat
      BY <2>3, IpcAssumption
    <3>3. active' = Cardinality({j \in Conns : Served(j)}')
      BY <2>1, <3>1, <3>2, Zenon
    <3> QED BY <2>1, <3>2, <3>3
  <2> QED BY <2>2, <2>3
<1>3. \A i \in 1 .. Len(backlog) : backlog[i] \in Conns
  BY DEF Types
<1>4. (~daemon.up => \A j \in Conns : conn[j].at \in {"unused", "closed"})'
  BY DEF LimiterOK, Types
<1> QED BY <1>1, <1>2, <1>3, <1>4 DEF LimiterOK

LEMMA LimiterStill ==
  ASSUME LimiterOK, UNCHANGED <<conn, backlog, accept, active, daemon>>
  PROVE  LimiterOK'
<1> QED BY DEF LimiterOK, Served

LEMMA LeftGoes ==
  ASSUME NEW r, NEW q, Left(r, q)
  PROVE  q \in Connection /\ (q.at = r.at \/ (r.at = "closed" /\ q.at = "unused"))
<1> QED BY UnusedIsOne DEF Left

LEMMA ShutGoes ==
  ASSUME NEW r \in Connection, NEW q, Shut(r, q)
  PROVE  q \in Connection /\ q.at \in {"unused", "closed"}
<1>1. q.at = "unused" \/ q.at = "closed"
  BY UnusedIsOne, Zenon DEF Shut
<1> QED BY <1>1 DEF Shut

(* A program loses its connection.                                         *)
LEMMA LimiterLeft ==
  ASSUME Types, LimiterOK, NEW c \in Clients, NEW m \in Call, NEW q,
         link[c] \in Conns, Left(conn[link[c]], q), conn' = [conn EXCEPT ![link[c]] = q],
         call' = [call EXCEPT ![c] = m] \/ call' = call, link' = [link EXCEPT ![c] = NoConn],
         UNCHANGED <<backlog, accept, active, daemon, runs>>
  PROVE  Types' /\ LimiterOK'
<1>1. q \in Connection
      /\ (q.at = conn[link[c]].at \/ (conn[link[c]].at = "closed" /\ q.at = "unused"))
  BY LeftGoes
<1>2. Types'
  BY <1>1 DEF Types
<1>3. ~daemon.up => q.at \in {"unused", "closed"}
  BY <1>1 DEF LimiterOK
<1>4. LimiterOK'
  BY <1>1, <1>3, LimiterMoves DEF ServedAt
<1> QED BY <1>2, <1>4

LEMMA ClientTypes ==
  ASSUME Types, LimiterOK, CallsOK, NEW c \in Clients,
         Send(c) \/ Command(c) \/ ClientStep(c) \/ Expire(c) \/ Exit(c)
  PROVE  Types' /\ LimiterOK'
<1>0. /\ call[c].stage = "write" => link[c] \in Conns /\ <<c, call[c].n>> \in Events
      /\ call[c].stage = "read" => link[c] \in Conns /\ <<c, call[c].n>> \in Events
  BY DEF CallsOK, InCall, Types
<1>1. CASE Send(c) \/ Command(c)
  <2>1. PICK m \in Call :
          /\ call' = [call EXCEPT ![c] = m]
          /\ UNCHANGED <<link, conn, backlog, accept, active, daemon, runs>>
    BY <1>1, SendBegins
  <2> QED BY <2>1, LimiterStill DEF Types
<1>2. CASE Fail(c)
  <2>1. PICK m \in Call :
          /\ call' = [call EXCEPT ![c] = m]
          /\ link' = [link EXCEPT ![c] = NoConn]
          /\ link[c] = NoConn => conn' = conn
          /\ link[c] # NoConn =>
               \E q : Left(conn[link[c]], q) /\ conn' = [conn EXCEPT ![link[c]] = q]
          /\ UNCHANGED <<backlog, accept, active, daemon, runs>>
    BY <1>2, Fails
  <2>2. CASE link[c] = NoConn
    BY <2>1, <2>2, LimiterStill DEF Types
  <2>3. CASE link[c] # NoConn
    <3>1. link[c] \in Conns
      BY <2>3 DEF Types
    <3> QED BY <2>1, <2>3, <3>1, LimiterLeft
  <2> QED BY <2>2, <2>3
<1>3. CASE Connect(c)
  <2>0. PICK k \in Conns, q \in Connection, m \in Call : Connected(c, k, q, m)
    BY <1>3, Connects
  <2>1. /\ daemon.up /\ conn[k].at = "unused"
        /\ conn' = [conn EXCEPT ![k] = q] /\ q.at = "backlog"
        /\ call' = [call EXCEPT ![c] = m]
        /\ link' = [link EXCEPT ![c] = k]
        /\ backlog' = Append(backlog, k)
        /\ UNCHANGED <<accept, active, daemon, runs>>
    BY <2>0 DEF Connected
  <2>2. /\ backlog' \in Seq(Conns) /\ Len(backlog') = Len(backlog) + 1 /\ Len(backlog) \in Nat
        /\ \A i \in 1 .. Len(backlog) : backlog'[i] = backlog[i] /\ backlog[i] \in Conns
        /\ backlog'[Len(backlog) + 1] = k
    BY <2>1, AppendProperties, LenProperties DEF Types
  <2>3. Types'
    BY <2>1, <2>2 DEF Types
  <2>4. {j \in Conns : Served(j)}' = {j \in Conns : Served(j)}
    BY <2>1, CountKept DEF ServedAt
  <2>5. \A j \in Conns : conn'[j] = IF j = k THEN q ELSE conn[j]
    BY <2>1 DEF Types
  <2>6. \A i \in 1 .. Len(backlog) : backlog[i] # k
    BY <2>1 DEF LimiterOK
  <2>7. (\A i \in 1 .. Len(backlog) : conn[backlog[i]].at = "backlog")'
    BY <2>1, <2>2, <2>5, <2>6 DEF LimiterOK
  <2>8. (\A i, j \in 1 .. Len(backlog) : backlog[i] = backlog[j] => i = j)'
    BY <2>2, <2>6 DEF LimiterOK
  <2>9. (accept.stage \in {"acquire", "reject"} =>
           /\ accept.conn \in Conns /\ conn[accept.conn].at = "backlog"
           /\ \A i \in 1 .. Len(backlog) : backlog[i] # accept.conn)'
    BY <2>1, <2>2, <2>5 DEF LimiterOK
  <2>10. (accept.stage = "spawn" => accept.conn \in Conns /\ conn[accept.conn].at = "admitted")'
    BY <2>1, <2>5 DEF LimiterOK
  <2>11. (/\ active = Cardinality({j \in Conns : Served(j)})
          /\ active <= MaxConnections
          /\ accept.stage = "acquire" => accept.count < MaxConnections
          /\ ~daemon.up => \A j \in Conns : conn[j].at \in {"unused", "closed"})'
    BY <2>1, <2>4 DEF LimiterOK
  <2> QED BY <2>3, <2>7, <2>8, <2>9, <2>10, <2>11 DEF LimiterOK
<1>4. CASE Write(c)
  <2>1. link[c] \in Conns /\ <<c, call[c].n>> \in Events
    BY <1>0, <1>4 DEF Write
  <2>4. PICK q \in Connection, m \in Call, n \in 1 .. (NewLine - call[c].written) :
          Wrote(c, q, m, n)
    BY <1>4, <2>1, Writes
  <2>2. /\ conn' = [conn EXCEPT ![link[c]] = q] /\ q.at = conn[link[c]].at
        /\ call' = [call EXCEPT ![c] = m]
        /\ UNCHANGED <<link, backlog, accept, active, daemon, runs>>
    BY <2>4 DEF Wrote
  <2>3. ~daemon.up => q.at \in {"unused", "closed"}
    BY <2>1, <2>2 DEF LimiterOK
  <2> QED BY <2>1, <2>2, <2>3, LimiterMoves DEF Types
<1>5. CASE RequestFails(c) /\ ~Fail(c)
  <2>1. link[c] \in Conns
    BY <1>0, <1>5 DEF RequestFails
  <2>2. PICK m \in Call, q \in Connection :
          /\ call' = [call EXCEPT ![c] = m]
          /\ link' = [link EXCEPT ![c] = NoConn]
          /\ Left(conn[link[c]], q) /\ conn' = [conn EXCEPT ![link[c]] = q]
          /\ UNCHANGED <<backlog, accept, active, daemon, runs>>
    BY <1>5, <2>1, Retries DEF Left
  <2> QED BY <2>1, <2>2, LimiterLeft
<1>6. CASE ReadAnswer(c) /\ ~Fail(c)
  <2>1. link[c] \in Conns
    BY <1>0, <1>6 DEF ReadAnswer
  <2>4. PICK q \in Connection, m \in Call : GotAnswer(c, q, m)
    BY <1>6, <2>1, Reads
  <2>2. /\ conn' = [conn EXCEPT ![link[c]] = q] /\ q.at = conn[link[c]].at
        /\ call' = [call EXCEPT ![c] = m]
        /\ UNCHANGED <<link, backlog, accept, active, daemon, runs>>
    BY <2>4 DEF GotAnswer
  <2>3. ~daemon.up => q.at \in {"unused", "closed"}
    BY <2>1, <2>2 DEF LimiterOK
  <2> QED BY <2>1, <2>2, <2>3, LimiterMoves DEF Types
<1>7. CASE Expire(c)
  <2>1. PICK m \in Call :
          /\ call' = [call EXCEPT ![c] = m]
          /\ UNCHANGED <<link, conn, backlog, accept, active, daemon, runs>>
    BY <1>7, Expires
  <2> QED BY <2>1, LimiterStill DEF Types
<1>8. CASE Exit(c)
  <2>1. PICK q : /\ link[c] \in Conns /\ link' = [link EXCEPT ![c] = NoConn]
                 /\ Left(conn[link[c]], q) /\ conn' = [conn EXCEPT ![link[c]] = q]
                 /\ UNCHANGED <<call, backlog, accept, active, daemon, runs>>
    BY <1>8, Exits
  <2>2. call[c] \in Call
    BY DEF Types
  <2> QED BY <2>1, <2>2, LimiterLeft
<1>9. ConnectFails(c) => Fail(c)
  BY DEF ConnectFails
<1> QED BY <1>1, <1>2, <1>3, <1>4, <1>5, <1>6, <1>7, <1>8, <1>9 DEF ClientStep

(* While a line is handled or answered there is one.                       *)
LEMMA Inside ==
  ASSUME Types, LinksOK, CallsOK, NEW k \in Conns, conn[k].at \in {"handling", "answering"}
  PROVE  \E e \in Events, x \in Kinds, w \in 0 .. NewLine : Carries(conn[k], e, x, w)
<1>1. CASE Loose(conn[k])
  BY <1>1 DEF Loose
<1>2. CASE \E c \in Clients : link[c] = k
  <2>1. PICK c \in Clients : link[c] = k
    BY <1>2
  <2>2. Owned(c, call[c], conn[k], runs[<<c, call[c].n>>])
    BY <2>1, Sizes DEF CallsOK
  <2>3. <<c, call[c].n>> \in Events
        /\ Carries(conn[k], <<c, call[c].n>>, call[c].kind, call[c].written)
    BY <2>2 DEF Owned
  <2>4. call[c].kind \in Kinds /\ call[c].written \in 0 .. NewLine
    BY CallFields DEF Types
  <2> QED BY <2>3, <2>4
<1> QED BY <1>1, <1>2 DEF LinksOK

(* The line that is handled: its first byte tells the event and the kind.  *)
LEMMA FirstByte ==
  ASSUME NEW r \in Connection, NEW e, NEW x, NEW w, Carries(r, e, x, w), r.at = "handling"
  PROVE  r.line # <<>> /\ r.line[1].event = e /\ r.line[1].kind = x
<1>1. PICK o \in 0 .. NewLine : Stream(r, e, x, o) /\ Progress(r, x, o)
  BY DEF Carries
<1>2. r.line # <<>>
  BY <1>1 DEF Progress
<1>3. 1 \in 1 .. Len(r.line)
  BY <1>2, ConnectionFields, EmptySeq, LenProperties
<1>4. r.line[1] = Byte(e, x, o + 1)
  BY <1>1, <1>3 DEF Stream
<1> QED BY <1>2, <1>4 DEF Byte

LEMMA Handled ==
  ASSUME Types, LinksOK, CallsOK, NEW k \in Conns, conn[k].at = "handling"
  PROVE  /\ conn[k].line # <<>> /\ Verdict(conn[k].line) \in Kinds
         /\ conn[k].line[1].event \in Events
<1>1. PICK e \in Events, x \in Kinds, w \in 0 .. NewLine : Carries(conn[k], e, x, w)
  BY Inside
<1> QED BY <1>1, FirstByte DEF Verdict, Types

(* What the thread of the connection k does with the line it has read: it  *)
(* skips it, closes the connection, refuses the line or runs it.           *)
Skips(k)   == conn' = [conn EXCEPT ![k].at = "reading", ![k].line = <<>>]
Refuses(k) == conn' = Replying(k, "error", Verdict(conn[k].line))
RunsIt(k)  == LET v == Verdict(conn[k].line) IN
              /\ conn' = Replying(k, Response[v], v)
              /\ runs' = [runs EXCEPT ![conn[k].line[1].event] = @ + 1]

LEMMA Handles ==
  ASSUME Types, LinksOK, CallsOK, NEW k \in Conns, HandleLine(k)
  PROVE  LET v == Verdict(conn[k].line) IN
         /\ conn[k].at = "handling"
         /\ \/ v = "blank" /\ Skips(k) /\ UNCHANGED <<active, runs>>
            \/ Leave(k, conn[k]) /\ UNCHANGED runs
            \/ Refuses(k) /\ UNCHANGED <<active, runs>>
            \/ v \in DOMAIN Response /\ v # "huge" /\ RunsIt(k) /\ UNCHANGED active
         /\ UNCHANGED <<call, link, backlog, accept, daemon>>
<1> DEFINE v == Verdict(conn[k].line)
<1>1. conn[k].at = "handling"
  BY DEF HandleLine
<1>2. v \in Kinds
  BY <1>1, Handled
<1>3. UNCHANGED <<call, link, backlog, accept, daemon>>
  BY DEF HandleLine, threadVars, clientVars
<1>4. /\ v = "blank" => Skips(k) /\ UNCHANGED <<active, runs>>
      /\ v = "binary" => Leave(k, conn[k]) /\ UNCHANGED runs
      /\ v \in {"bad", "huge"} => Refuses(k) /\ UNCHANGED <<active, runs>>
      /\ v \notin {"blank", "binary", "bad", "huge"} => RunsIt(k) /\ UNCHANGED active
  BY DEF HandleLine, Skips, Refuses, RunsIt
<1>5. v \in {"blank", "binary", "bad", "huge"} \/ v \in DOMAIN Response
  BY <1>2, Responses
<1> QED BY <1>1, <1>3, <1>4, <1>5

(* The thread of a connection ends, and its permit is dropped.             *)
LEMMA LimiterLeaves ==
  ASSUME Types, LimiterOK, NEW k \in Conns, NEW r \in Connection, Leave(k, r), daemon.up,
         conn[k].at \in {"reading", "handling", "answering"},
         UNCHANGED <<call, link, backlog, accept, daemon, runs>>
  PROVE  Types' /\ LimiterOK'
<1>1. PICK q : /\ Shut(r, q) /\ conn' = [conn EXCEPT ![k] = q]
               /\ active' = active - 1
  BY Leaves
<1>2. q \in Connection /\ q.at \in {"unused", "closed"}
  BY <1>1, ShutGoes
<1>3. active > 0
  <2>1. k \in {j \in Conns : Served(j)}
    BY DEF Served
  <2>2. Cardinality({j \in Conns : Served(j)}) # 0
    BY <2>1, ServedIsFinite, FS_EmptySet
  <2> QED BY <2>2, ServedIsFinite DEF LimiterOK
<1>4. Types'
  BY <1>1, <1>2, <1>3 DEF Types
<1>5. ServedAt(conn[k].at) /\ ~ServedAt(q.at)
  BY <1>2 DEF ServedAt
<1>6. LimiterOK'
  BY <1>1, <1>2, <1>5, LimiterMoves
<1> QED BY <1>4, <1>6

(* It goes on.                                                             *)
LEMMA LimiterGoesOn ==
  ASSUME Types, LimiterOK, NEW k \in Conns, NEW q \in Connection, daemon.up,
         conn' = [conn EXCEPT ![k] = q],
         conn[k].at \in {"reading", "handling", "answering"},
         q.at \in {"reading", "handling", "answering"},
         runs' \in [Events -> Nat], UNCHANGED <<call, link, backlog, accept, active, daemon>>
  PROVE  Types' /\ LimiterOK'
<1>1. Types'
  BY DEF Types
<1>2. LimiterOK'
  BY LimiterMoves DEF ServedAt
<1> QED BY <1>1, <1>2

LEMMA ThreadTypes ==
  ASSUME Types, LimiterOK, LinksOK, CallsOK, NEW k \in Conns, Thread(k)
  PROVE  Types' /\ LimiterOK'
<1>0. daemon.up /\ conn[k] \in Connection /\ runs \in [Events -> Nat]
  BY DEF Thread, Types
<1>1. CASE ReadSome(k)
  <2>1. PICK q \in Connection, n \in 1 .. Len(conn[k].up) : TookSome(k, q, n)
    BY <1>1, ReadsSome
  <2>2. /\ conn[k].at = "reading" /\ conn' = [conn EXCEPT ![k] = q]
        /\ q.at \in {"reading", "handling"}
        /\ UNCHANGED <<call, link, backlog, accept, active, daemon, runs>>
    BY <2>1 DEF TookSome
  <2> QED BY <1>0, <2>2, LimiterGoesOn
<1>2. CASE ReadEnd(k)
  <2>1. /\ conn[k].at = "reading"
        /\ UNCHANGED <<call, link, backlog, accept, daemon, runs>>
        /\ \/ Leave(k, conn[k])
           \/ conn' = [conn EXCEPT ![k].at = "handling"] /\ UNCHANGED active
    BY <1>2 DEF ReadEnd, threadVars, clientVars
  <2>2. CASE Leave(k, conn[k])
    BY <1>0, <2>1, <2>2, LimiterLeaves
  <2>3. CASE conn' = [conn EXCEPT ![k].at = "handling"] /\ UNCHANGED active
    <3>1. "handling" \in Ats
      BY DEF Ats
    <3>2. PICK q \in Connection : conn' = [conn EXCEPT ![k] = q] /\ q.at = "handling"
      BY ZenonT(40), <2>3, <3>1, Moves
    <3> QED BY <1>0, <2>1, <2>3, <3>2, LimiterGoesOn
  <2> QED BY <2>1, <2>2, <2>3
<1>3. CASE ReadTimeout(k) \/ AnswerFails(k)
  <2>1. /\ conn[k].at \in {"reading", "answering"} /\ Leave(k, conn[k])
        /\ UNCHANGED <<call, link, backlog, accept, daemon, runs>>
    BY <1>3 DEF ReadTimeout, AnswerFails, threadVars, clientVars
  <2> QED BY <1>0, <2>1, LimiterLeaves
<1>4. CASE HandleLine(k)
  <2> DEFINE v == Verdict(conn[k].line)
  <2>1. /\ conn[k].at = "handling"
        /\ \/ v = "blank" /\ Skips(k) /\ UNCHANGED <<active, runs>>
           \/ Leave(k, conn[k]) /\ UNCHANGED runs
           \/ Refuses(k) /\ UNCHANGED <<active, runs>>
           \/ v \in DOMAIN Response /\ v # "huge" /\ RunsIt(k) /\ UNCHANGED active
        /\ UNCHANGED <<call, link, backlog, accept, daemon>>
    BY <1>4, Handles
  <2>2. v \in Kinds /\ conn[k].line[1].event \in Events
    BY <2>1, Handled
  <2>3. CASE Skips(k) /\ UNCHANGED <<active, runs>>
    <3>1. PICK q \in Connection : conn' = [conn EXCEPT ![k] = q] /\ q.at = "reading"
      BY <2>3, BlankIs DEF Skips
    <3> QED BY <1>0, <2>1, <2>3, <3>1, LimiterGoesOn
  <2>4. CASE Leave(k, conn[k]) /\ UNCHANGED runs
    BY <1>0, <2>1, <2>4, LimiterLeaves
  <2>5. CASE Refuses(k) /\ UNCHANGED <<active, runs>>
    <3>1. PICK q \in Connection : conn' = [conn EXCEPT ![k] = q] /\ q.at = "answering"
      BY <2>2, <2>5, ReplyingIs, Responses DEF Refuses
    <3> QED BY <1>0, <2>1, <2>5, <3>1, LimiterGoesOn
  <2>6. CASE v \in DOMAIN Response /\ RunsIt(k) /\ UNCHANGED active
    <3>1. PICK q \in Connection : conn' = [conn EXCEPT ![k] = q] /\ q.at = "answering"
      BY <2>2, <2>6, ReplyingIs, Responses DEF RunsIt
    <3>2. runs' \in [Events -> Nat]
      BY <1>0, <2>2, <2>6 DEF RunsIt
    <3> QED BY <1>0, <2>1, <2>6, <3>1, <3>2, LimiterGoesOn
  <2> QED BY <2>1, <2>3, <2>4, <2>5, <2>6
<1>5. CASE Answer(k)
  <2>1. conn[k].reply # <<>>
    <3>1. conn[k].at = "answering"
      BY <1>5 DEF Answer
    <3>2. PICK e \in Events, x \in Kinds, w \in 0 .. NewLine : Carries(conn[k], e, x, w)
      BY <3>1, Inside
    <3> QED BY <3>1, <3>2 DEF Carries, Progress
  <2>2. PICK p \in Connection :
          /\ conn[k].at = "answering" /\ p.at = "reading"
          /\ \/ Leave(k, p)
             \/ conn' = [conn EXCEPT ![k] = p] /\ UNCHANGED active
          /\ UNCHANGED <<call, link, backlog, accept, daemon, runs>>
    BY <1>5, <2>1, AnswerLeaves
  <2> QED BY <1>0, <2>2, LimiterLeaves, LimiterGoesOn
<1> QED BY <1>1, <1>2, <1>3, <1>4, <1>5 DEF Thread

LEMMA AcceptTypes ==
  ASSUME Types, LimiterOK, Accept
  PROVE  Types' /\ LimiterOK'
<1> DEFINE h == Head(backlog)
<1>1. /\ backlog # <<>> /\ accept.stage = "accept" /\ daemon.up
      /\ accept' = Tried(h) /\ backlog' = Tail(backlog)
      /\ UNCHANGED <<call, link, conn, active, daemon, runs>>
  BY DEF Accept, clientVars
<1>2. /\ backlog \in Seq(Conns) /\ h \in Conns /\ h = backlog[1] /\ Len(backlog) \in Nat
      /\ backlog' \in Seq(Conns) /\ Len(backlog') = Len(backlog) - 1
      /\ \A i \in 1 .. Len(backlog') : backlog'[i] = backlog[i + 1]
      /\ Len(backlog) >= 1
  BY <1>1, HeadTailProperties, LenProperties, EmptySeq DEF Types
<1>3. \/ accept' = [stage |-> "reject", conn |-> h, count |-> 0]
      \/ active < MaxConnections /\ accept' = [stage |-> "acquire", conn |-> h, count |-> active]
  BY <1>1, IpcAssumption DEF Tried, Types
<1>4. Types'
  BY <1>1, <1>2, <1>3 DEF Types
<1>5. /\ accept'.conn = h /\ accept'.stage \in {"reject", "acquire"}
      /\ accept'.stage = "acquire" => accept'.count = active /\ active < MaxConnections
  BY <1>3
<1>6. \A i \in 1 .. Len(backlog') : i + 1 \in 1 .. Len(backlog) /\ i + 1 # 1
  BY <1>2
<1>7. \A i \in 1 .. Len(backlog') : backlog'[i] # h /\ conn'[backlog'[i]].at = "backlog"
  BY <1>1, <1>2, <1>6 DEF LimiterOK
<1>8. \A i, j \in 1 .. Len(backlog') : backlog'[i] = backlog'[j] => i = j
  BY <1>2, <1>6 DEF LimiterOK
<1>9. conn'[h].at = "backlog"
  BY <1>1, <1>2 DEF LimiterOK
<1>10. (/\ active = Cardinality({k \in Conns : Served(k)}) /\ active <= MaxConnections
        /\ ~daemon.up => \A k \in Conns : conn[k].at \in {"unused", "closed"})'
  BY <1>1 DEF LimiterOK, Served
<1>11. (accept.stage \in {"acquire", "reject"} =>
          /\ accept.conn \in Conns /\ conn[accept.conn].at = "backlog"
          /\ \A i \in 1 .. Len(backlog) : backlog[i] # accept.conn)'
  BY <1>2, <1>5, <1>7, <1>9
<1>12. LimiterOK'
  BY <1>5, <1>7, <1>8, <1>10, <1>11 DEF LimiterOK
<1> QED BY <1>4, <1>12

(* The connection in hand: the others keep where they are.                 *)
LEMMA AcquireTypes ==
  ASSUME Types, LimiterOK, Acquire
  PROVE  Types' /\ LimiterOK'
<1>1. /\ daemon.up /\ accept.stage = "acquire" /\ accept.conn \in Conns
      /\ conn[accept.conn].at = "backlog" /\ accept.count < MaxConnections
      /\ accept.count \in Nat /\ active \in Nat
      /\ UNCHANGED <<call, link, backlog, daemon, runs>>
  BY DEF Acquire, LimiterOK, Types, clientVars
<1>2. CASE active = accept.count
  <2>1. /\ active' = active + 1
        /\ accept' = [accept EXCEPT !.stage = "spawn", !.count = 0]
        /\ conn' = [conn EXCEPT ![accept.conn].at = "admitted"]
    BY <1>2 DEF Acquire
  <2>2. "admitted" \in Ats
    BY DEF Ats
  <2>3. PICK q \in Connection :
          conn' = [conn EXCEPT ![accept.conn] = q] /\ q.at = "admitted"
    BY ZenonT(30), <1>1, <2>1, <2>2, Moves
  <2>4. accept'.stage = "spawn" /\ accept'.conn = accept.conn
    BY <2>1 DEF Types
  <2>12. active' \in Nat /\ conn' \in [Conns -> Connection]
    <3>1. active' \in Nat
      BY <1>1, <2>1
    <3>2. conn' \in [Conns -> Connection]
      BY <2>3 DEF Types
    <3> QED BY <3>1, <3>2
  <2>13. accept' \in [stage : {"accept", "acquire", "reject", "spawn"}, conn : Conns \cup {NoConn},
                      count : Nat]
    BY <2>1 DEF Types
  <2>5. Types'
    BY <1>1, <2>12, <2>13 DEF Types
  <2>6. Cardinality({j \in Conns : Served(j)}') = Cardinality({j \in Conns : Served(j)}) + 1
    BY <1>1, <2>3, CountJoins DEF ServedAt
  <2>7. active' = Cardinality({j \in Conns : Served(j)}') /\ active' <= MaxConnections
    <3>1. active = Cardinality({j \in Conns : Served(j)})
      BY DEF LimiterOK
    <3>2. active' = Cardinality({j \in Conns : Served(j)}')
      BY <2>1, <2>6, <3>1, Zenon
    <3>3. active' <= MaxConnections
      BY <1>1, <1>2, <2>1, IpcAssumption
    <3> QED BY <3>2, <3>3
  <2>8. \A j \in Conns : conn'[j] = IF j = accept.conn THEN q ELSE conn[j]
    BY <2>3 DEF Types
  <2>9. \A i \in 1 .. Len(backlog) : backlog[i] # accept.conn /\ backlog[i] \in Conns
    BY <1>1 DEF LimiterOK, Types
  <2>10. (/\ \A i \in 1 .. Len(backlog) : conn[backlog[i]].at = "backlog"
          /\ \A i, j \in 1 .. Len(backlog) : backlog[i] = backlog[j] => i = j)'
    BY <1>1, <2>8, <2>9 DEF LimiterOK
  <2>11. LimiterOK'
    BY <1>1, <2>3, <2>4, <2>7, <2>8, <2>10 DEF LimiterOK
  <2> QED BY <2>5, <2>11
<1>3. CASE active # accept.count
  <2>1. accept' = Tried(accept.conn) /\ UNCHANGED <<active, conn>>
    BY <1>3 DEF Acquire
  <2>2. \/ accept' = [stage |-> "reject", conn |-> accept.conn, count |-> 0]
        \/ /\ active < MaxConnections
           /\ accept' = [stage |-> "acquire", conn |-> accept.conn, count |-> active]
    BY <2>1, <1>1, IpcAssumption DEF Tried
  <2>3. /\ accept'.conn = accept.conn /\ accept'.stage \in {"reject", "acquire"}
        /\ accept'.stage = "acquire" => accept'.count < MaxConnections
    BY <2>2
  <2>4. Types'
    BY <1>1, <2>1, <2>2 DEF Types
  <2>5. LimiterOK'
    BY <1>1, <2>1, <2>3 DEF LimiterOK, Served
  <2> QED BY <2>4, <2>5
<1> QED BY <1>2, <1>3

LEMMA ListeningIs ==
  /\ Listening \in [stage : {"accept", "acquire", "reject", "spawn"}, conn : Conns \cup {NoConn},
                    count : Nat]
  /\ Listening.stage = "accept"
<1> QED BY DEF Listening

LEMMA RejectTypes ==
  ASSUME Types, LimiterOK, Reject
  PROVE  Types' /\ LimiterOK'
<1>1. accept.conn \in Conns /\ conn[accept.conn].at = "backlog"
      /\ \A i \in 1 .. Len(backlog) : backlog[i] # accept.conn /\ backlog[i] \in Conns
  BY DEF Reject, LimiterOK, Types
<1>2. PICK r \in Connection, q \in Connection :
        /\ daemon.up /\ Shut(r, q) /\ conn' = [conn EXCEPT ![accept.conn] = q]
        /\ accept' = Listening
        /\ UNCHANGED <<call, link, backlog, active, daemon, runs>>
  BY <1>1, Rejects
<1>3. q \in Connection /\ q.at \in {"unused", "closed"}
  BY <1>2, ShutGoes
<1>4. Types'
  BY <1>1, <1>2, <1>3, ListeningIs DEF Types
<1>5. {j \in Conns : Served(j)}' = {j \in Conns : Served(j)}
  BY <1>1, <1>2, <1>3, CountKept DEF ServedAt
<1>6. active' = Cardinality({j \in Conns : Served(j)}') /\ active' <= MaxConnections
  <2>1. active = Cardinality({j \in Conns : Served(j)}) /\ active <= MaxConnections
    BY DEF LimiterOK
  <2> QED BY <1>2, <1>5, <2>1
<1>7. \A j \in Conns : conn'[j] = IF j = accept.conn THEN q ELSE conn[j]
  BY <1>1, <1>2 DEF Types
<1>8. LimiterOK'
  BY <1>1, <1>2, <1>6, <1>7, ListeningIs DEF LimiterOK
<1> QED BY <1>4, <1>8

LEMMA SpawnTypes ==
  ASSUME Types, LimiterOK, SpawnThread
  PROVE  Types' /\ LimiterOK'
<1>1. /\ accept.conn \in Conns /\ conn[accept.conn].at = "admitted" /\ daemon.up
      /\ accept' = Listening /\ active \in Nat
      /\ active = Cardinality({j \in Conns : Served(j)}) /\ active <= MaxConnections
      /\ UNCHANGED <<call, link, backlog, daemon, runs>>
  BY DEF SpawnThread, LimiterOK, Types, clientVars
<1>2. PICK q \in Connection :
        /\ conn' = [conn EXCEPT ![accept.conn] = q]
        /\ \/ q.at = "reading" /\ active' = active
           \/ q.at \in {"unused", "closed"} /\ active' = active - 1
  <2>1. CASE conn' = [conn EXCEPT ![accept.conn].at = "reading"] /\ UNCHANGED active
    <3>1. "reading" \in Ats
      BY DEF Ats
    <3>2. PICK q \in Connection :
            conn' = [conn EXCEPT ![accept.conn] = q] /\ q.at = "reading"
      BY ZenonT(30), <1>1, <2>1, <3>1, Moves
    <3> QED BY <2>1, <3>2
  <2>2. CASE Leave(accept.conn, conn[accept.conn])
    <3>1. conn[accept.conn] \in Connection
      BY <1>1 DEF Types
    <3>2. PICK q : /\ Shut(conn[accept.conn], q) /\ conn' = [conn EXCEPT ![accept.conn] = q]
                   /\ active' = active - 1
      BY <1>1, <2>2, <3>1, Leaves
    <3> QED BY <3>1, <3>2, ShutGoes
  <2> QED BY <2>1, <2>2 DEF SpawnThread
<1>3. active' = Cardinality({j \in Conns : Served(j)}') /\ active' <= MaxConnections
      /\ active' \in Nat
  <2>1. CASE q.at = "reading" /\ active' = active
    <3>1. {j \in Conns : Served(j)}' = {j \in Conns : Served(j)}
      BY <1>1, <1>2, <2>1, CountKept DEF ServedAt
    <3> QED BY <1>1, <2>1, <3>1
  <2>2. CASE q.at \in {"unused", "closed"} /\ active' = active - 1
    <3>1. Cardinality({j \in Conns : Served(j)}') = Cardinality({j \in Conns : Served(j)}) - 1
      BY <1>1, <1>2, <2>2, CountLeaves DEF ServedAt
    <3>2. accept.conn \in {j \in Conns : Served(j)}
      BY <1>1 DEF Served
    <3>3. Cardinality({j \in Conns : Served(j)}) # 0
      BY <3>2, ServedIsFinite, FS_EmptySet
    <3>4. active' = Cardinality({j \in Conns : Served(j)}')
      BY <1>1, <2>2, <3>1, Zenon
    <3>5. active' <= MaxConnections /\ active' \in Nat
      BY <1>1, <2>2, <3>3, IpcAssumption
    <3> QED BY <3>4, <3>5
  <2> QED BY <1>2, <2>1, <2>2
<1>4. Types'
  BY <1>1, <1>2, <1>3, ListeningIs DEF Types
<1>5. \A j \in Conns : conn'[j] = IF j = accept.conn THEN q ELSE conn[j]
  BY <1>1, <1>2 DEF Types
<1>6. \A i \in 1 .. Len(backlog) : backlog[i] # accept.conn /\ backlog[i] \in Conns
  BY <1>1 DEF LimiterOK, Types
<1>7. LimiterOK'
  BY <1>1, <1>3, <1>5, <1>6, ListeningIs DEF LimiterOK
<1> QED BY <1>4, <1>7

LEMMA DaemonTypes ==
  ASSUME Types, LimiterOK, DaemonEnds \/ DaemonStarts
  PROVE  Types' /\ LimiterOK'
<1>1. CASE DaemonStarts
  <2>1. /\ ~daemon.up /\ daemon' = [up |-> TRUE, starts |-> daemon.starts + 1]
        /\ UNCHANGED <<call, link, conn, backlog, accept, active, runs>>
    BY <1>1 DEF DaemonStarts, clientVars
  <2>2. daemon'.up /\ daemon' \in [up : BOOLEAN, starts : Nat]
    BY <2>1 DEF Types
  <2> QED BY <2>1, <2>2 DEF Types, LimiterOK, Served
<1>2. CASE DaemonEnds
  <2>1. /\ conn' = [k \in Conns |-> IF Free(k) THEN conn[k] ELSE Closed(conn[k])]
        /\ daemon' = [daemon EXCEPT !.up = FALSE]
        /\ backlog' = <<>> /\ accept' = Listening /\ active' = 0
        /\ UNCHANGED <<call, link, runs>>
    BY <1>2 DEF DaemonEnds, clientVars
  <2>2. \A k \in Conns : conn'[k] \in Connection /\ conn'[k].at \in {"unused", "closed"}
    <3> SUFFICES ASSUME NEW k \in Conns
                 PROVE  conn'[k] \in Connection /\ conn'[k].at \in {"unused", "closed"}
      OBVIOUS
    <3>1. conn[k] \in Connection
      BY DEF Types
    <3>2. Shut(conn[k], Closed(conn[k]))
      BY <3>1, ClosedIs
    <3>3. Closed(conn[k]) \in Connection /\ Closed(conn[k]).at \in {"unused", "closed"}
      BY <3>1, <3>2, ShutGoes
    <3> QED BY <2>1, <3>1, <3>3 DEF Free
  <2>3. conn' \in [Conns -> Connection]
    BY <2>1, <2>2
  <2>4. daemon' \in [up : BOOLEAN, starts : Nat]
    BY <2>1 DEF Types
  <2>5. Types'
    BY <2>1, <2>3, <2>4, ListeningIs, EmptySeq DEF Types
  <2>6. {j \in Conns : Served(j)}' = {}
    BY <2>2 DEF Served
  <2>7. active' = Cardinality({j \in Conns : Served(j)}') /\ active' <= MaxConnections
    <3>1. Cardinality({j \in Conns : Served(j)}') = 0
      BY <2>6, FS_EmptySet, Zenon
    <3> QED BY <2>1, <3>1, IpcAssumption
  <2>8. LimiterOK'
    BY <2>1, <2>2, <2>7, ListeningIs, EmptySeq DEF LimiterOK
  <2> QED BY <2>5, <2>8
<1> QED BY <1>1, <1>2

-----------------------------------------------------------------------------
(* The bytes of a connection.                                              *)

LEMMA Lengths ==
  ASSUME NEW r \in Connection
  PROVE  /\ r.line \in Seq(Bytes) /\ Len(r.line) \in Nat /\ (r.line = <<>> <=> Len(r.line) = 0)
         /\ r.up \in Seq(Bytes) /\ Len(r.up) \in Nat /\ (r.up = <<>> <=> Len(r.up) = 0)
         /\ r.down \in Seq(Answers) /\ Len(r.down) \in Nat /\ (r.down = <<>> <=> Len(r.down) = 0)
<1>1. r.line \in Seq(Bytes) /\ r.up \in Seq(Bytes) /\ r.down \in Seq(Answers)
  BY ConnectionFields
<1> QED BY <1>1, LenProperties, EmptySeq

LEMMA ByteFields ==
  ASSUME NEW e, NEW x, NEW i
  PROVE  Byte(e, x, i).event = e /\ Byte(e, x, i).kind = x /\ Byte(e, x, i).part = i
<1> QED BY DEF Byte

(* The sequence l is a and then b; r has l bytes in its line and u on the  *)
(* way.                                                                    *)
Glued(l, a, b)    == l = a \o b
Measures(r, l, u) == l = Len(r.line) /\ u = Len(r.up)

LEMMA Joined ==
  ASSUME NEW S, NEW a \in Seq(S), NEW b \in Seq(S), NEW n \in Nat, Len(b) = n, NEW l, Glued(l, a, b)
  PROVE  /\ Len(l) = Len(a) + n /\ Len(a) \in Nat
         /\ \A i \in 1 .. Len(a) : l[i] = a[i]
         /\ \A i \in 1 .. n : l[Len(a) + i] = b[i]
<1>1. Len(a) \in Nat
  BY LenProperties
<1>2. /\ Len(l) = Len(a) + n
      /\ \A i \in 1 .. Len(a) + n : l[i] = IF i <= Len(a) THEN a[i] ELSE b[i - Len(a)]
  BY ConcatProperties DEF Glued
<1>3. \A i \in 1 .. Len(a) : l[i] = a[i]
  BY <1>1, <1>2
<1>4. \A i \in 1 .. n : /\ Len(a) + i \in 1 .. Len(a) + n
                       /\ ~(Len(a) + i <= Len(a)) /\ Len(a) + i - Len(a) = i
  BY <1>1
<1>5. \A i \in 1 .. n : l[Len(a) + i] = b[i]
  BY <1>2, <1>4
<1> QED BY <1>1, <1>2, <1>3, <1>5

LEMMA Beyond ==
  ASSUME NEW a \in Nat, NEW n \in Nat, NEW i \in 1 .. (a + n)
  PROVE  i \in 1 .. a \/ \E j \in 1 .. n : i = a + j
<1>1. CASE i <= a
  BY <1>1
<1>2. CASE i > a
  <2>1. i - a \in 1 .. n /\ i = a + (i - a)
    BY <1>2
  <2> QED BY <2>1
<1> QED BY <1>1, <1>2

(* A part of them is read.                                                 *)
TakesPart(r, q, n) ==
  q.line = r.line \o SubSeq(r.up, 1, n) /\ q.up = SubSeq(r.up, n + 1, Len(r.up))

LEMMA StreamReads ==
  ASSUME NEW r \in Connection, NEW q \in Connection, NEW n \in 1 .. Len(r.up),
         TakesPart(r, q, n)
  PROVE  /\ Len(q.line) = Len(r.line) + n /\ Len(q.up) = Len(r.up) - n
         /\ \A i \in 1 .. Len(r.line) : q.line[i] = r.line[i]
         /\ \A i \in 1 .. n : q.line[Len(r.line) + i] = r.up[i]
         /\ \A i \in 1 .. Len(r.up) - n : q.up[i] = r.up[n + i]
         /\ Last(SubSeq(r.up, 1, n)) = r.up[n]
<1>1. /\ r.up \in Seq(Bytes) /\ r.line \in Seq(Bytes) /\ Len(r.up) \in Nat /\ Len(r.line) \in Nat
      /\ n \in Nat /\ n <= Len(r.up) /\ n >= 1
      /\ \A i \in 1 .. Len(r.up) : r.up[i] \in Bytes
  BY Lengths, LenProperties
<1> DEFINE p == SubSeq(r.up, 1, n)
<1>2. /\ p \in Seq(Bytes) /\ Len(p) = n /\ \A i \in 1 .. n : p[i] = r.up[i]
  <2>1. \A i \in 1 .. n : r.up[i] \in Bytes
    BY <1>1
  <2>2. /\ p \in Seq(Bytes) /\ Len(p) = (IF 1 <= n THEN n - 1 + 1 ELSE 0)
        /\ \A i \in 1 .. n - 1 + 1 : p[i] = r.up[1 + i - 1]
    BY <1>1, <2>1, SubSeqProperties
  <2>3. n - 1 + 1 = n /\ \A i \in 1 .. n : 1 + i - 1 = i
    BY <1>1
  <2> HIDE DEF p
  <2> QED BY <1>1, <2>2, <2>3
<1>3. /\ Len(q.up) = Len(r.up) - n
      /\ \A i \in 1 .. Len(r.up) - n : q.up[i] = r.up[n + i]
  <2>1. \A i \in n + 1 .. Len(r.up) : r.up[i] \in Bytes
    BY <1>1
  <2>2. /\ Len(q.up) = (IF n + 1 <= Len(r.up) THEN Len(r.up) - (n + 1) + 1 ELSE 0)
        /\ \A i \in 1 .. Len(r.up) - (n + 1) + 1 : q.up[i] = r.up[n + 1 + i - 1]
    BY <1>1, <2>1, SubSeqProperties DEF TakesPart
  <2>3. Len(r.up) - (n + 1) + 1 = Len(r.up) - n
        /\ \A i \in 1 .. Len(r.up) - n : n + 1 + i - 1 = n + i
    BY <1>1
  <2> QED BY <1>1, <2>2, <2>3
<1>7. Last(SubSeq(r.up, 1, n)) = r.up[n]
  <2>1. n \in 1 .. n /\ Last(p) = p[Len(p)]
    BY <1>1 DEF Last
  <2> HIDE DEF p
  <2>2. Last(p) = r.up[n]
    BY <1>2, <2>1
  <2> QED BY <2>2 DEF p
<1> HIDE DEF p
<1>4. q.line = r.line \o p
  BY DEF p, TakesPart
<1>5. /\ Len(q.line) = Len(r.line) + n
      /\ \A i \in 1 .. Len(r.line) : q.line[i] = r.line[i]
      /\ \A i \in 1 .. n : q.line[Len(r.line) + i] = p[i]
  <2>1. PICK a \in Seq(Bytes), b \in Seq(Bytes), l \in Seq(Bytes) : a = r.line /\ b = p /\ l = q.line
    BY <1>1, <1>2, Lengths
  <2>2. Len(b) = n /\ Glued(l, a, b) /\ n \in Nat
    BY <1>1, <1>2, <1>4, <2>1 DEF Glued
  <2>3. /\ Len(l) = Len(a) + n
        /\ \A i \in 1 .. Len(a) : l[i] = a[i]
        /\ \A i \in 1 .. n : l[Len(a) + i] = b[i]
    BY <2>2, Joined
  <2> QED BY <2>1, <2>3
<1>6. \A i \in 1 .. n : q.line[Len(r.line) + i] = r.up[i]
  BY <1>2, <1>5
<1> QED BY <1>3, <1>5, <1>6, <1>7

LEMMA StreamTaken ==
  ASSUME NEW r \in Connection, NEW q \in Connection, NEW n \in 1 .. Len(r.up),
         TakesPart(r, q, n),
         NEW e, NEW x, NEW o \in Nat, Stream(r, e, x, o)
  PROVE  Stream(q, e, x, o)
<1>1. PICK l \in Nat, u \in Nat : l = Len(r.line) /\ u = Len(r.up)
  BY Lengths
<1>2. /\ Len(q.line) = l + n /\ Len(q.up) = u - n /\ n \in 1 .. u
      /\ \A i \in 1 .. l : q.line[i] = r.line[i]
      /\ \A i \in 1 .. n : q.line[l + i] = r.up[i]
      /\ \A i \in 1 .. u - n : q.up[i] = r.up[n + i]
  BY <1>1, StreamReads
<1>3. /\ \A i \in 1 .. l : r.line[i] = Byte(e, x, o + i)
      /\ \A i \in 1 .. u : r.up[i] = Byte(e, x, o + l + i)
  BY <1>1 DEF Stream
<1>4. ASSUME NEW i \in 1 .. (l + n) PROVE q.line[i] = Byte(e, x, o + i)
  <2>1. CASE i \in 1 .. l
    BY <1>2, <1>3, <2>1
  <2>2. CASE \E j \in 1 .. n : i = l + j
    <3>1. PICK j \in 1 .. n : i = l + j
      BY <2>2
    <3>2. j \in 1 .. u /\ o + l + j = o + i
      BY <1>2, <3>1
    <3>3. q.line[i] = r.up[j] /\ r.up[j] = Byte(e, x, o + l + j)
      BY <1>2, <1>3, <3>1, <3>2
    <3> QED BY <3>2, <3>3, Zenon
  <2>3. n \in Nat
    BY <1>2
  <2> QED BY <2>1, <2>2, <2>3, Beyond
<1>5. ASSUME NEW i \in 1 .. (u - n) PROVE q.up[i] = Byte(e, x, o + (l + n) + i)
  <2>1. n + i \in 1 .. u /\ o + l + (n + i) = o + (l + n) + i
    BY <1>2
  <2>2. q.up[i] = r.up[n + i] /\ r.up[n + i] = Byte(e, x, o + l + (n + i))
    BY <1>2, <1>3, <2>1
  <2> QED BY <2>1, <2>2, Zenon
<1>6. /\ \A i \in 1 .. Len(q.line) : q.line[i] = Byte(e, x, o + i)
      /\ \A i \in 1 .. Len(q.up) : q.up[i] = Byte(e, x, o + Len(q.line) + i)
  BY <1>2, <1>4, <1>5, Zenon
<1> QED BY <1>6 DEF Stream

(* More of them are written.                                               *)
AddsPart(r, q, e, x, s, n) == q.up = r.up \o SubSeq(LineOf(e, x), s + 1, s + n)

LEMMA StreamWritten ==
  ASSUME NEW r \in Connection, NEW q \in Connection, NEW e \in Events, NEW x \in Kinds,
         NEW o \in Nat, NEW n \in Nat, Stream(r, e, x, o),
         NEW l \in Nat, NEW u \in Nat, Measures(r, l, u),
         NEW s \in Nat, s = o + l + u, s + n <= NewLine,
         q.line = r.line, AddsPart(r, q, e, x, s, n)
  PROVE  Stream(q, e, x, o) /\ Len(q.up) = Len(r.up) + n
<1>1. l = Len(r.line) /\ u = Len(r.up)
  BY DEF Measures
<1>2. s = o + l + u /\ r.up \in Seq(Bytes)
  BY Lengths
<1> DEFINE p == SubSeq(LineOf(e, x), s + 1, s + n)
<1>3. p \in Seq(Bytes) /\ Len(p) = n /\ \A i \in 1 .. n : p[i] = Byte(e, x, s + i)
  BY ZenonT(30), LinePart
<1>4. q.up = r.up \o p
  BY DEF AddsPart
<1> HIDE DEF p
<1>5. /\ Len(q.up) = u + n
      /\ \A i \in 1 .. u : q.up[i] = r.up[i]
      /\ \A i \in 1 .. n : q.up[u + i] = p[i]
  <2>1. PICK a \in Seq(Bytes), b \in Seq(Bytes), t \in Seq(Bytes) : a = r.up /\ b = p /\ t = q.up
    BY <1>2, <1>3, Lengths
  <2>2. Len(b) = n /\ Glued(t, a, b)
    BY <1>3, <1>4, <2>1 DEF Glued
  <2>3. /\ Len(t) = Len(a) + n
        /\ \A i \in 1 .. Len(a) : t[i] = a[i]
        /\ \A i \in 1 .. n : t[Len(a) + i] = b[i]
    BY <2>2, Joined
  <2> QED BY <1>1, <2>1, <2>3
<1>6. ASSUME NEW i \in 1 .. (u + n) PROVE q.up[i] = Byte(e, x, o + l + i)
  <2>1. CASE i \in 1 .. u
    BY <1>1, <1>5, <2>1 DEF Stream
  <2>2. CASE \E j \in 1 .. n : i = u + j
    <3>1. PICK j \in 1 .. n : i = u + j
      BY <2>2
    <3>2. s + j = o + l + i
      BY <1>2, <3>1
    <3>3. q.up[i] = Byte(e, x, s + j)
      BY <1>3, <1>5, <3>1
    <3> QED BY <3>2, <3>3, Zenon
  <2> QED BY <2>1, <2>2, Beyond
<1>7. /\ \A i \in 1 .. Len(q.line) : q.line[i] = Byte(e, x, o + i)
      /\ \A i \in 1 .. Len(q.up) : q.up[i] = Byte(e, x, o + Len(q.line) + i)
  <2>1. \A i \in 1 .. Len(q.line) : q.line[i] = Byte(e, x, o + i)
    BY DEF Stream
  <2>2. \A i \in 1 .. Len(q.up) : q.up[i] = Byte(e, x, o + Len(q.line) + i)
    BY <1>1, <1>5, <1>6, Zenon
  <2> QED BY <2>1, <2>2
<1> QED BY <1>1, <1>5, <1>7 DEF Stream

(* The line that was read is done with.                                    *)
LEMMA StreamGone ==
  ASSUME NEW r \in Connection, NEW q \in Connection, NEW e, NEW x, NEW o \in Nat,
         Stream(r, e, x, o), q.line = <<>>, q.up = r.up
  PROVE  Stream(q, e, x, o + Len(r.line))
<1>1. Len(r.line) \in Nat /\ Len(q.line) = 0 /\ Len(r.up) \in Nat
  BY Lengths
<1> QED BY <1>1 DEF Stream

LEMMA StreamSame ==
  ASSUME NEW r, NEW q, NEW e, NEW x, NEW o, Stream(r, e, x, o), q.line = r.line, q.up = r.up
  PROVE  Stream(q, e, x, o)
<1> QED BY DEF Stream

(* All bytes of a connection are of one event.                             *)
LEMMA CarriesOnly ==
  ASSUME NEW r \in Connection, NEW e, NEW x, NEW w, Carries(r, e, x, w), NEW f, Has(r, f)
  PROVE  f = e
<1>1. PICK o \in 0 .. NewLine : Stream(r, e, x, o)
  BY DEF Carries
<1>2. ASSUME NEW i \in 1 .. Len(r.line) PROVE r.line[i].event = e
  <2>1. r.line[i] = Byte(e, x, o + i)
    BY <1>1 DEF Stream
  <2> QED BY <2>1, ByteFields
<1>3. ASSUME NEW i \in 1 .. Len(r.up) PROVE r.up[i].event = e
  <2>1. r.up[i] = Byte(e, x, o + Len(r.line) + i)
    BY <1>1 DEF Stream
  <2> QED BY <2>1, ByteFields
<1> QED BY <1>2, <1>3 DEF Has

LEMMA CarriesParts ==
  ASSUME NEW r \in Connection, NEW e, NEW x, NEW w, Carries(r, e, x, w)
  PROVE  \E o \in 0 .. NewLine, l \in Nat, u \in Nat :
           /\ Stream(r, e, x, o) /\ Progress(r, x, o)
           /\ Measures(r, l, u) /\ w = o + l + u /\ w <= NewLine
<1> QED BY Lengths DEF Carries, Measures

LEMMA CarriesNew ==
  ASSUME NEW q \in Connection, NEW e, NEW x, NEW o \in 0 .. NewLine, NEW l \in Nat, NEW u \in Nat,
         NEW w, Stream(q, e, x, o), Progress(q, x, o), Measures(q, l, u), w = o + l + u,
         w <= NewLine
  PROVE  Carries(q, e, x, w)
<1> QED BY DEF Carries, Measures

(* A step of the daemon on a connection takes nothing away from what its   *)
(* program may rely on, and adds no bytes.                                 *)
Keeps(r, q) == \A e \in Events, x \in Kinds, w \in 0 .. NewLine :
                 Carries(r, e, x, w) => Carries(q, e, x, w)
Loses(r, q) == \A e \in Events : Has(q, e) => Has(r, e)

Evolves(r, q) ==
  /\ (q.open <=> r.open) /\ (Loose(r) => Loose(q)) /\ Loses(r, q)
  /\ \A c \in Clients, m \in Call, g \in Nat : Owned(c, m, r, g) => Owned(c, m, q, g)

LEMMA EvolvesNot ==
  ASSUME NEW r
  PROVE  Evolves(r, r)
<1> QED BY DEF Evolves, Loses

LEMMA GoesOn ==
  ASSUME NEW r \in Connection, NEW q \in Connection, q.open <=> r.open,
         r.at \notin {"unused", "closed"}, q.at \notin {"unused", "closed"},
         Keeps(r, q), Loses(r, q), q.down = r.down,
         ~(r.at = "reading" /\ r.line = <<>> /\ r.up = <<>> /\ r.open),
         q.at = "answering" => q.reply[1] = "error"
  PROVE  Evolves(r, q)
<1>1. Loose(r) => Loose(q)
  BY DEF Loose, Keeps
<1>2. ASSUME NEW c \in Clients, NEW m \in Call, NEW g \in Nat, Owned(c, m, r, g)
      PROVE  Owned(c, m, q, g)
  <2>1. m.stage # "idle" /\ r.down = <<>> /\ q.open /\ <<c, m.n>> \in Events
        /\ m.stage # "connect" /\ (m.stage = "write" => m.written < NewLine)
        /\ Carries(r, <<c, m.n>>, m.kind, m.written)
    BY <1>2 DEF Owned
  <2>2. Carries(q, <<c, m.n>>, m.kind, m.written)
    BY <2>1, CallFields DEF Keeps
  <2> QED BY <2>1, <2>2 DEF Owned
<1> QED BY <1>1, <1>2 DEF Evolves

LEMMA HasParts ==
  ASSUME NEW r \in Connection, NEW q \in Connection,
         q.line = r.line \/ q.line = <<>>, q.up = r.up \/ q.up = <<>>
  PROVE  Loses(r, q)
<1> QED BY EmptySeq DEF Loses, Has

(* The end of the daemon is closed.                                        *)
LEMMA ShutEvolves ==
  ASSUME NEW r \in Connection, NEW p \in Connection, NEW q, Shut(p, q), p.open <=> r.open,
         r.at # "unused",
         \/ p.down = r.down
         \/ /\ r.at \notin {"reading", "closed"} /\ Len(p.down) = 1
            /\ \/ p.down[1] = "error"
               \/ r.at = "answering" /\ p.down[1] = r.reply[1]
  PROVE  Evolves(r, q)
<1>1. CASE ~r.open
  <2>1. q = Unused
    BY <1>1 DEF Shut
  <2>2. Loose(q) /\ ~q.open
    BY <2>1, UnusedIsOne DEF Loose
  <2>3. Loses(r, q)
    BY <2>1, UnusedIsOne, EmptySeq DEF Loses, Has
  <2>4. \A c \in Clients, m \in Call, g \in Nat : ~Owned(c, m, r, g)
    BY <1>1 DEF Owned
  <2> QED BY <1>1, <2>2, <2>3, <2>4 DEF Evolves
<1>2. CASE r.open
  <2>1. /\ q.at = "closed" /\ q.open /\ q.down = p.down
        /\ q.up = <<>> /\ q.line = <<>> /\ q.reply = <<>>
    BY <1>2 DEF Shut
  <2>2. Loses(r, q)
    BY <2>1, EmptySeq DEF Loses, Has
  <2>3. ~Loose(r)
    BY <1>2 DEF Loose
  <2>4. ASSUME NEW c \in Clients, NEW m \in Call, NEW g \in Nat, Owned(c, m, r, g)
        PROVE  Owned(c, m, q, g)
    <3>1. <<c, m.n>> \in Events
      BY <2>4 DEF Owned
    <3>2. CASE p.down = r.down
      BY <2>1, <2>4, <3>1, <3>2 DEF Owned
    <3>3. CASE /\ r.at \notin {"reading", "closed"} /\ Len(p.down) = 1
               /\ \/ p.down[1] = "error"
                  \/ r.at = "answering" /\ p.down[1] = r.reply[1]
      BY <2>1, <2>4, <3>1, <3>3 DEF Owned
    <3> QED BY <3>2, <3>3
  <2> QED BY <1>2, <2>1, <2>2, <2>3, <2>4 DEF Evolves
<1> QED BY <1>1, <1>2

LEMMA MoveEvolves ==
  ASSUME NEW r \in Connection, NEW q \in Connection, q.open <=> r.open,
         q.up = r.up, q.line = r.line, q.down = r.down,
         \/ r.at = "backlog" /\ q.at = "admitted"
         \/ r.at = "admitted" /\ q.at = "reading"
         \/ r.at = "reading" /\ q.at = "handling" /\ r.up = <<>> /\ r.line # <<>> /\ ~r.open
  PROVE  Evolves(r, q)
<1>1. ASSUME NEW e \in Events, NEW x \in Kinds, NEW w \in 0 .. NewLine, Carries(r, e, x, w)
      PROVE  Carries(q, e, x, w)
  <2>1. PICK o \in 0 .. NewLine, l \in Nat, u \in Nat :
          /\ Stream(r, e, x, o) /\ Progress(r, x, o)
          /\ Measures(r, l, u) /\ w = o + l + u /\ w <= NewLine
    BY <1>1, CarriesParts
  <2>2. Stream(q, e, x, o) /\ Measures(q, l, u)
    BY <2>1, StreamSame DEF Measures
  <2>3. Progress(q, x, o)
    BY <2>1 DEF Progress
  <2> QED BY <2>1, <2>2, <2>3, CarriesNew
<1>2. Keeps(r, q)
  BY <1>1 DEF Keeps
<1>3. Loses(r, q)
  BY HasParts
<1> QED BY <1>2, <1>3, GoesOn

LEMMA TakeEvolves ==
  ASSUME NEW r \in Connection, NEW q \in Connection, q.open <=> r.open, q.down = r.down,
         r.at = "reading", r.up # <<>>, NEW n \in 1 .. Len(r.up), TakesPart(r, q, n),
         q.at = (IF Last(SubSeq(r.up, 1, n)).part = NewLine \/ q.line[1].kind = "huge"
                 THEN "handling" ELSE "reading")
  PROVE  Evolves(r, q)
<1>1. PICK l \in Nat, u \in Nat : Measures(r, l, u)
  BY Lengths DEF Measures
<1>2. /\ Len(q.line) = l + n /\ Len(q.up) = u - n /\ n \in 1 .. u
      /\ \A i \in 1 .. l : q.line[i] = r.line[i]
      /\ \A i \in 1 .. n : q.line[l + i] = r.up[i]
      /\ \A i \in 1 .. u - n : q.up[i] = r.up[n + i]
      /\ Last(SubSeq(r.up, 1, n)) = r.up[n]
  BY <1>1, StreamReads DEF Measures
<1>3. n \in Nat /\ l + n \in Nat /\ u - n \in Nat /\ n >= 1
  BY <1>2
<1>4. ASSUME NEW e \in Events, NEW x \in Kinds, NEW w \in 0 .. NewLine, Carries(r, e, x, w)
      PROVE  Carries(q, e, x, w)
  <2>1. PICK o \in 0 .. NewLine :
          /\ Stream(r, e, x, o) /\ Progress(r, x, o) /\ w = o + l + u
    BY <1>1, <1>4 DEF Carries, Measures
  <2>2. o = 0
    BY <2>1 DEF Progress
  <2>3. Stream(q, e, x, o)
    BY <2>1, StreamTaken
  <2>4. q.line # <<>> /\ 1 \in 1 .. Len(q.line)
    BY <1>2, <1>3, Lengths
  <2>5. q.line[1].kind = x
    <3>1. q.line[1] = Byte(e, x, o + 1)
      BY <2>3, <2>4 DEF Stream
    <3> QED BY <3>1, ByteFields
  <2>6. Last(SubSeq(r.up, 1, n)).part = l + n
    <3>1. r.up[n] = Byte(e, x, o + l + n)
      BY <1>1, <1>2, <2>1 DEF Stream, Measures
    <3>2. o + l + n = l + n
      BY <1>3, <2>2
    <3> QED BY <1>2, <3>1, <3>2, ByteFields
  <2>7. q.at = "reading" \/ (q.at = "handling" /\ (l + n = NewLine \/ x = "huge"))
    BY <2>5, <2>6
  <2>8. Progress(q, x, o)
    BY <1>2, <2>2, <2>4, <2>7 DEF Progress
  <2>9. w = o + (l + n) + (u - n) /\ w <= NewLine
    <3>1. NewLine = 2
      BY Sizes
    <3> QED BY <1>3, <2>1, <3>1
  <2>10. Measures(q, l + n, u - n)
    BY <1>2 DEF Measures
  <2> QED BY <1>3, <2>3, <2>8, <2>9, <2>10, CarriesNew
<1>5. Keeps(r, q)
  BY <1>4 DEF Keeps
<1>6. ASSUME NEW e \in Events, Has(q, e) PROVE Has(r, e)
  <2>1. CASE \E i \in 1 .. Len(q.line) : q.line[i].event = e
    <3>1. PICK i \in 1 .. (l + n) : q.line[i].event = e
      BY <1>2, <2>1
    <3>2. CASE i \in 1 .. l
      BY <1>1, <1>2, <3>1, <3>2 DEF Has, Measures
    <3>3. CASE \E j \in 1 .. n : i = l + j
      <4>1. PICK j \in 1 .. n : i = l + j
        BY <3>3
      <4>2. j \in 1 .. u /\ r.up[j].event = e
        BY <1>2, <3>1, <4>1
      <4> QED BY <1>1, <4>2 DEF Has, Measures
    <3> QED BY <1>3, <3>2, <3>3, Beyond
  <2>2. CASE \E i \in 1 .. Len(q.up) : q.up[i].event = e
    <3>1. PICK i \in 1 .. (u - n) : q.up[i].event = e
      BY <1>2, <2>2
    <3>2. n + i \in 1 .. u /\ r.up[n + i].event = e
      BY <1>2, <3>1
    <3> QED BY <1>1, <3>2 DEF Has, Measures
  <2> QED BY <1>6, <2>1, <2>2 DEF Has
<1>7. Loses(r, q)
  BY <1>6 DEF Loses
<1>8. q.at \in {"reading", "handling"}
  OBVIOUS
<1> QED BY <1>5, <1>7, <1>8, GoesOn

(* The line is done with, and nothing is left of it on its way unless it   *)
(* was too long.                                                           *)
LEMMA LineGone ==
  ASSUME NEW r \in Connection, NEW q \in Connection, q.open <=> r.open,
         r.at = "handling", q.line = <<>>, q.up = r.up,
         \/ q.at = "reading" /\ r.line[1].kind # "huge"
         \/ q.at = "answering" /\ q.reply # <<>> /\ q.reply[2] = r.line[1].kind
  PROVE  Keeps(r, q)
<1> SUFFICES ASSUME NEW e \in Events, NEW x \in Kinds, NEW w \in 0 .. NewLine,
                    Carries(r, e, x, w)
             PROVE  Carries(q, e, x, w)
  BY DEF Keeps
<1>1. PICK o \in 0 .. NewLine, l \in Nat, u \in Nat :
        /\ Stream(r, e, x, o) /\ Progress(r, x, o)
        /\ Measures(r, l, u) /\ w = o + l + u /\ w <= NewLine
  BY CarriesParts
<1>2. r.line[1].kind = x
  BY FirstByte
<1>3. /\ o = 0 /\ o + l = l /\ NewLine = 2
      /\ l = NewLine \/ x = "huge" \/ (~r.open /\ r.up = <<>>)
  BY <1>1, Sizes DEF Progress, Measures
<1>4. l = NewLine => u = 0
  BY <1>1, <1>3
<1>5. u = 0 => r.up = <<>>
  BY <1>1, Lengths DEF Measures
<1>6. Stream(q, e, x, l)
  BY <1>1, <1>3, StreamGone DEF Measures
<1>7. Progress(q, x, l)
  BY <1>2, <1>3, <1>4, <1>5 DEF Progress
<1>8. Measures(q, 0, u) /\ w = l + 0 + u /\ l \in 0 .. NewLine
  <2>1. Measures(q, 0, u)
    BY <1>1, EmptySeq DEF Measures
  <2>2. w = o + l + u /\ w <= NewLine
    BY <1>1
  <2> QED BY <2>1, <2>2, <1>3
<1> QED BY <1>1, <1>6, <1>7, <1>8, CarriesNew

LEMMA AnswerEvolves ==
  ASSUME NEW r \in Connection, NEW q \in Connection, r.open, q.open,
         r.at = "answering", q.at = "reading", q.up = r.up, q.line = r.line,
         r.reply # <<>>, r.reply[2] # "huge", q.down = Append(r.down, r.reply[1])
  PROVE  Evolves(r, q)
<1>1. ASSUME NEW e \in Events, NEW x \in Kinds, NEW w \in 0 .. NewLine, Carries(r, e, x, w)
      PROVE  Carries(q, e, x, w) /\ w = NewLine /\ r.line = <<>> /\ r.up = <<>>
  <2>1. PICK o \in 0 .. NewLine, l \in Nat, u \in Nat :
          /\ Stream(r, e, x, o) /\ Progress(r, x, o)
          /\ Measures(r, l, u) /\ w = o + l + u /\ w <= NewLine
    BY <1>1, CarriesParts
  <2>2. Stream(q, e, x, o) /\ Measures(q, l, u)
    BY <2>1, StreamSame DEF Measures
  <2>3. r.line = <<>> /\ r.up = <<>> /\ o = NewLine
    BY <2>1 DEF Progress
  <2>4. Progress(q, x, o)
    BY <2>3 DEF Progress
  <2>5. w = NewLine
    <3>1. l = 0 /\ u = 0
      BY <2>1, <2>3, EmptySeq DEF Measures
    <3> QED BY <2>1, <2>3, <3>1
  <2> QED BY <2>1, <2>2, <2>3, <2>4, <2>5, CarriesNew
<1>2. ~Loose(r)
  BY DEF Loose
<1>3. Loses(r, q)
  BY HasParts
<1>4. ASSUME NEW c \in Clients, NEW m \in Call, NEW g \in Nat, Owned(c, m, r, g)
      PROVE  Owned(c, m, q, g)
  <2>1. /\ m.stage # "idle" /\ m.stage # "connect" /\ (m.stage = "write" => m.written < NewLine)
        /\ r.down = <<>> /\ <<c, m.n>> \in Events
        /\ Carries(r, <<c, m.n>>, m.kind, m.written)
        /\ r.reply[1] = "error" \/ g = 1
    BY <1>4 DEF Owned
  <2>2. Carries(q, <<c, m.n>>, m.kind, m.written) /\ m.written = NewLine
        /\ r.line = <<>> /\ r.up = <<>>
    BY <1>1, <2>1, CallFields
  <2>3. m.stage = "read"
    BY <2>1, <2>2, CallFields, Sizes
  <2>4. Len(q.down) = 1 /\ q.down[1] = r.reply[1]
    <3>1. r.reply[1] \in Answers /\ r.down \in Seq(Answers)
      BY ConnectionFields
    <3> QED BY <2>1, <3>1
  <2> QED BY <2>1, <2>2, <2>3, <2>4 DEF Owned
<1> QED BY <1>2, <1>3, <1>4 DEF Evolves

-----------------------------------------------------------------------------
(* Steps of the daemon.                                                    *)

Bytewise == LinksOK /\ CallsOK /\ BytesOK /\ RunsOK

LEMMA DaemonKeeps ==
  ASSUME Types, Bytewise, UNCHANGED <<call, link, runs>>,
         \A k \in Conns : Evolves(conn[k], conn'[k])
  PROVE  Bytewise'
<1>1. LinksOK'
  BY DEF Bytewise, LinksOK, Evolves
<1>2. CallsOK'
  <2> SUFFICES ASSUME NEW c \in Clients
               PROVE  (/\ InCall(c, call[c], link[c])
                       /\ link[c] # NoConn =>
                            Owned(c, call[c], conn[link[c]], runs[<<c, call[c].n>>]))'
    BY DEF CallsOK
  <2>1. InCall(c, call[c], link[c])'
    BY DEF Bytewise, CallsOK, InCall
  <2>2. CASE link[c] # NoConn
    <3>1. Owned(c, call[c], conn[link[c]], runs[<<c, call[c].n>>])
      BY <2>2 DEF Bytewise, CallsOK
    <3>2. link[c] \in Conns /\ call[c] \in Call /\ runs[<<c, call[c].n>>] \in Nat
      BY <2>2, <3>1 DEF Types, Owned
    <3>3. Owned(c, call[c], conn'[link[c]], runs[<<c, call[c].n>>])
      BY <3>1, <3>2 DEF Evolves
    <3> QED BY <2>1, <3>3
  <2>3. CASE link[c] = NoConn
    BY <2>1, <2>3
  <2> QED BY <2>2, <2>3
<1>3. BytesOK'
  <2> SUFFICES ASSUME NEW k \in Conns, NEW e \in Events, Has(conn'[k], e)
               PROVE  (/\ runs[e] = 0
                       /\ \A j \in Conns : Has(conn[j], e) => j = k
                       /\ ~conn[k].open => Past(e))'
    BY DEF BytesOK
  <2>1. \A j \in Conns : Has(conn'[j], e) => Has(conn[j], e)
    BY DEF Evolves, Loses
  <2>2. /\ runs[e] = 0
        /\ \A j \in Conns : Has(conn[j], e) => j = k
        /\ ~conn[k].open => Past(e)
    BY <2>1 DEF Bytewise, BytesOK
  <2>3. conn'[k].open <=> conn[k].open
    BY DEF Evolves
  <2>4. Past(e)' <=> Past(e)
    BY DEF Past
  <2> QED BY <2>1, <2>2, <2>3, <2>4
<1>4. RunsOK'
  BY DEF Bytewise, RunsOK
<1> QED BY <1>1, <1>2, <1>3, <1>4 DEF Bytewise

(* The same, for a step on one connection.                                 *)
LEMMA DaemonKeepsOne ==
  ASSUME Types, Bytewise, UNCHANGED <<call, link, runs>>, NEW k \in Conns, NEW q,
         conn' = [conn EXCEPT ![k] = q], Evolves(conn[k], q)
  PROVE  Bytewise'
<1>1. \A j \in Conns : conn'[j] = (IF j = k THEN q ELSE conn[j])
  BY DEF Types
<1>2. \A j \in Conns : Evolves(conn[j], conn'[j])
  BY <1>1, EvolvesNot
<1> QED BY <1>2, DaemonKeeps

LEMMA LeaveKeeps ==
  ASSUME Types, Bytewise, UNCHANGED <<call, link, runs>>, NEW k \in Conns,
         conn[k].at # "unused", Leave(k, conn[k])
  PROVE  Bytewise'
<1>1. conn[k] \in Connection
  BY DEF Types
<1>2. PICK q : Shut(conn[k], q) /\ conn' = [conn EXCEPT ![k] = q]
  BY <1>1, Leaves
<1>3. Evolves(conn[k], q)
  BY <1>1, <1>2, ShutEvolves
<1> QED BY <1>2, <1>3, DaemonKeepsOne

(* The line of a handled event is all there is of it.                      *)
LEMMA NothingLeft ==
  ASSUME NEW r \in Connection, NEW e, NEW x, NEW w, Carries(r, e, x, w), r.at = "handling",
         r.line[1].kind # "huge"
  PROVE  r.up = <<>> /\ (r.open => w = NewLine)
<1>1. PICK o \in 0 .. NewLine, l \in Nat, u \in Nat :
        /\ Stream(r, e, x, o) /\ Progress(r, x, o)
        /\ Measures(r, l, u) /\ w = o + l + u /\ w <= NewLine
  BY CarriesParts
<1>2. x # "huge"
  BY FirstByte
<1>3. o = 0 /\ (l = NewLine \/ (~r.open /\ r.up = <<>>)) /\ NewLine = 2
  BY <1>1, <1>2, Sizes DEF Progress, Measures
<1>4. l = NewLine => u = 0 /\ w = NewLine
  BY <1>1, <1>3
<1>5. u = 0 => r.up = <<>>
  BY <1>1, Lengths DEF Measures
<1> QED BY <1>3, <1>4, <1>5

(* Once the event was run, any answer to it will do.                       *)
LEMMA OwnedRun ==
  ASSUME NEW c, NEW m, NEW r, NEW g, NEW h, Owned(c, m, r, g), h = g \/ h = 1
  PROVE  Owned(c, m, r, h)
<1> QED BY DEF Owned

LEMMA OwnedReplies ==
  ASSUME NEW c \in Clients, NEW m \in Call, NEW g, NEW r \in Connection, NEW q \in Connection,
         Owned(c, m, r, g), r.at = "handling", r.line[1].kind # "huge",
         Keeps(r, q), q.open <=> r.open, q.at = "answering", q.down = r.down
  PROVE  /\ r.line[1].event = <<c, m.n>> /\ m.stage = "read" /\ Owned(c, m, q, 1)
<1>1. /\ r.open /\ r.down = <<>> /\ <<c, m.n>> \in Events
      /\ m.stage \notin {"idle", "connect"} /\ (m.stage = "write" => m.written < NewLine)
      /\ Carries(r, <<c, m.n>>, m.kind, m.written)
  BY DEF Owned
<1>2. r.line[1].event = <<c, m.n>>
  BY <1>1, FirstByte
<1>3. m.written = NewLine
  BY <1>1, NothingLeft
<1>4. m.stage = "read"
  BY <1>1, <1>3, CallFields, Sizes
<1>5. Carries(q, <<c, m.n>>, m.kind, m.written)
  BY <1>1, CallFields DEF Keeps
<1> QED BY <1>1, <1>2, <1>4, <1>5 DEF Owned

(* The handler runs the event of the line: its bytes are gone with it, and *)
(* it was not run before.                                                  *)
LEMMA RunKeeps ==
  ASSUME Types, Bytewise, NEW k \in Conns, conn[k].at = "handling",
         Verdict(conn[k].line) \in DOMAIN Response, Verdict(conn[k].line) # "huge", RunsIt(k),
         UNCHANGED <<call, link>>
  PROVE  Bytewise'
<1> DEFINE r == conn[k]
           v == Verdict(r.line)
           e == r.line[1].event
<1>1. LinksOK /\ CallsOK /\ BytesOK /\ RunsOK
  BY DEF Bytewise
<1>2. r \in Connection /\ r.line # <<>> /\ v \in Kinds /\ e \in Events /\ v = r.line[1].kind
  BY <1>1, Handled DEF Types, Verdict
<1>3. Response[v] \in Answers /\ v # "huge"
  BY Responses
<1>4. conn' = Replying(k, Response[v], v) /\ runs' = [runs EXCEPT ![e] = @ + 1]
  BY DEF RunsIt
<1>5. r.at = "handling" /\ r = conn[k]
  OBVIOUS
<1> HIDE DEF v, r, e
<1>6. PICK q \in Connection :
        /\ conn' = [conn EXCEPT ![k] = q]
        /\ q.at = "answering" /\ q.line = <<>> /\ q.reply = <<Response[v], v>>
        /\ (q.open <=> r.open) /\ q.up = r.up /\ q.down = r.down
  <2>1. PICK a : a = Response[v]
    OBVIOUS
  <2>2. a \in Answers /\ v \in Kinds /\ conn' = Replying(k, a, v)
    BY <1>2, <1>3, <1>4, <2>1
  <2>3. \E q \in Connection :
          /\ conn' = [conn EXCEPT ![k] = q]
          /\ q.at = "answering" /\ q.line = <<>> /\ q.reply = <<a, v>>
          /\ (q.open <=> conn[k].open) /\ q.up = conn[k].up /\ q.down = conn[k].down
    BY <2>2, ReplyingIs
  <2> QED BY <1>5, <2>1, <2>3
<1>7. q.reply # <<>> /\ q.reply[2] = v
  BY <1>6
<1>8. Keeps(r, q) /\ Loses(r, q)
  BY <1>2, <1>5, <1>6, <1>7, LineGone, HasParts
<1>9. Has(r, e)
  <2>1. 1 \in 1 .. Len(r.line)
    BY <1>2, Lengths
  <2> QED BY <2>1 DEF Has, e
<1>10. runs[e] = 0 /\ (\A j \in Conns : Has(conn[j], e) => j = k) /\ (~r.open => Past(e))
  BY <1>1, <1>2, <1>5, <1>9 DEF BytesOK
<1>11. ~Has(q, e)
  <2>1. \E f \in Events, x \in Kinds, w \in 0 .. NewLine : Carries(r, f, x, w)
    BY <1>1, <1>5, Inside
  <2>2. r.up = <<>>
    BY <2>1, <1>2, <1>3, <1>5, NothingLeft
  <2> QED BY <2>2, <1>6, EmptySeq DEF Has
<1>12. \A j \in Conns : conn'[j] = (IF j = k THEN q ELSE conn[j])
  BY <1>6 DEF Types
<1>13. \A f \in Events : runs'[f] = (IF f = e THEN 1 ELSE runs[f])
  BY <1>2, <1>4, <1>10 DEF Types
<1>14. Loose(r) => Loose(q)
  BY <1>6, <1>8, <1>5 DEF Loose, Keeps
<1>15. ASSUME NEW c \in Clients, link[c] = k
       PROVE  e = <<c, call[c].n>> /\ call[c].stage = "read" /\ Owned(c, call[c], q, 1)
  <2>1. Owned(c, call[c], r, runs[<<c, call[c].n>>]) /\ call[c] \in Call
    BY <1>1, <1>5, <1>15, Sizes DEF CallsOK, Types
  <2> QED BY <2>1, <1>2, <1>3, <1>5, <1>6, <1>8, OwnedReplies DEF e
<1>16. LinksOK'
  BY <1>1, <1>5, <1>12, <1>14 DEF LinksOK
<1>17. CallsOK'
  <2> SUFFICES ASSUME NEW c \in Clients
               PROVE  (/\ InCall(c, call[c], link[c])
                       /\ link[c] # NoConn =>
                            Owned(c, call[c], conn[link[c]], runs[<<c, call[c].n>>]))'
    BY DEF CallsOK
  <2>1. InCall(c, call[c], link[c])'
    BY <1>1, <1>10, <1>13 DEF CallsOK, InCall
  <2>2. CASE link[c] = k
    <3>1. runs'[<<c, call[c].n>>] = 1
      BY <1>2, <1>13, <1>15, <2>2
    <3> QED BY <2>1, <2>2, <3>1, <1>12, <1>15
  <2>3. CASE link[c] # NoConn /\ link[c] # k
    <3>1. Owned(c, call[c], conn[link[c]], runs[<<c, call[c].n>>])
      BY <1>1, <2>3 DEF CallsOK
    <3>2. <<c, call[c].n>> \in Events /\ link[c] \in Conns
      BY <2>3, <3>1 DEF Owned, Types
    <3>3. runs'[<<c, call[c].n>>] = runs[<<c, call[c].n>>] \/ runs'[<<c, call[c].n>>] = 1
      BY <1>13, <3>2
    <3>4. Owned(c, call[c], conn[link[c]], runs'[<<c, call[c].n>>])
      BY <3>1, <3>3, OwnedRun
    <3>5. conn'[link[c]] = conn[link[c]]
      BY <1>12, <2>3, <3>2
    <3> QED BY <2>1, <3>4, <3>5
  <2> QED BY <2>1, <2>2, <2>3
<1>18. BytesOK'
  <2> SUFFICES ASSUME NEW j \in Conns, NEW f \in Events, Has(conn'[j], f)
               PROVE  (/\ runs[f] = 0
                       /\ \A i \in Conns : Has(conn[i], f) => i = j
                       /\ ~conn[j].open => Past(f))'
    BY DEF BytesOK
  <2>1. \A i \in Conns : Has(conn'[i], f) => Has(conn[i], f)
    BY <1>5, <1>8, <1>12 DEF Loses
  <2>2. f # e
    BY <1>10, <1>11, <1>12, <2>1
  <2>3. /\ runs[f] = 0
        /\ \A i \in Conns : Has(conn[i], f) => i = j
        /\ ~conn[j].open => Past(f)
    BY <1>1, <2>1 DEF BytesOK
  <2>4. (conn'[j].open <=> conn[j].open) /\ (Past(f)' <=> Past(f))
    BY <1>5, <1>6, <1>12 DEF Past
  <2> QED BY <1>13, <2>1, <2>2, <2>3, <2>4
<1>19. RunsOK'
  <2>1. ~(e[2] > call[e[1]].n)
        /\ ~(e[2] = call[e[1]].n /\ call[e[1]].stage \in {"connect", "write"})
    <3>1. CASE r.open
      <4>1. PICK c \in Clients : link[c] = k
        BY <1>1, <1>5, <3>1 DEF LinksOK, Loose
      <4>2. e[1] = c /\ e[2] = call[c].n /\ call[c].stage = "read" /\ call[c].n \in Nat
        BY <1>15, <4>1, CallFields DEF Types
      <4> QED BY <4>2
    <3>2. CASE ~r.open
      <4>1. e[1] \in Clients /\ e[2] \in Nat /\ Past(e)
        BY <1>2, <1>10, <3>2, EventsAre
      <4>2. call[e[1]].n \in Nat
        BY <4>1, CallFields DEF Types
      <4> QED BY <4>1, <4>2 DEF Past
    <3> QED BY <3>1, <3>2
  <2> QED BY <1>1, <1>13, <2>1 DEF RunsOK
<1> QED BY <1>16, <1>17, <1>18, <1>19 DEF Bytewise

LEMMA StillKeeps ==
  ASSUME Types, Bytewise, UNCHANGED <<call, link, conn, runs>>
  PROVE  Bytewise'
<1>1. \A k \in Conns : Evolves(conn[k], conn'[k])
  BY EvolvesNot
<1> QED BY <1>1, DaemonKeeps

(* No answer is on its way while a line is waited for or answered.         *)
LEMMA NoneYet ==
  ASSUME Types, LinksOK, CallsOK, NEW k \in Conns,
         conn[k].at \notin {"reading", "closed"} \/ ~conn[k].open
  PROVE  conn[k].down = <<>>
<1>1. CASE Loose(conn[k])
  BY <1>1 DEF Loose
<1>2. CASE ~Loose(conn[k])
  <2>1. PICK c \in Clients : link[c] = k
    BY <1>2 DEF LinksOK
  <2>2. Owned(c, call[c], conn[k], runs[<<c, call[c].n>>])
    BY <2>1, Sizes DEF CallsOK
  <2> QED BY <2>2 DEF Owned
<1> QED BY <1>1, <1>2

LEMMA RefuseKeeps ==
  ASSUME Types, Bytewise, NEW k \in Conns, conn[k].at = "handling", Refuses(k),
         UNCHANGED <<call, link, runs>>
  PROVE  Bytewise'
<1>1. LinksOK /\ CallsOK
  BY DEF Bytewise
<1>2. /\ Verdict(conn[k].line) \in Kinds /\ conn[k] \in Connection
      /\ Verdict(conn[k].line) = conn[k].line[1].kind
  BY <1>1, Handled DEF Types, Verdict
<1>3. PICK a \in Answers, x \in Kinds : a = "error" /\ x = Verdict(conn[k].line)
  BY <1>2, Responses
<1>4. conn' = Replying(k, a, x)
  BY <1>3 DEF Refuses
<1>5. PICK q \in Connection :
        /\ conn' = [conn EXCEPT ![k] = q]
        /\ q.at = "answering" /\ q.line = <<>> /\ q.reply = <<a, x>>
        /\ (q.open <=> conn[k].open) /\ q.up = conn[k].up /\ q.down = conn[k].down
  BY <1>4, ReplyingIs
<1>6. q.reply # <<>> /\ q.reply[2] = conn[k].line[1].kind /\ q.reply[1] = "error"
  BY <1>2, <1>3, <1>5
<1>7. Keeps(conn[k], q) /\ Loses(conn[k], q)
  BY <1>2, <1>5, <1>6, LineGone, HasParts
<1>8. Evolves(conn[k], q)
  BY <1>2, <1>5, <1>6, <1>7, GoesOn
<1> QED BY <1>5, <1>8, DaemonKeepsOne

LEMMA HandleKeeps ==
  ASSUME Types, Bytewise, NEW k \in Conns, HandleLine(k)
  PROVE  Bytewise'
<1> DEFINE x == Verdict(conn[k].line)
<1>1. LinksOK /\ CallsOK
  BY DEF Bytewise
<1>2. /\ conn[k].at = "handling"
      /\ \/ x = "blank" /\ Skips(k) /\ UNCHANGED <<active, runs>>
         \/ Leave(k, conn[k]) /\ UNCHANGED runs
         \/ Refuses(k) /\ UNCHANGED <<active, runs>>
         \/ x \in DOMAIN Response /\ x # "huge" /\ RunsIt(k) /\ UNCHANGED active
      /\ UNCHANGED <<call, link, backlog, accept, daemon>>
  BY <1>1, Handles
<1>3. x \in Kinds /\ x = conn[k].line[1].kind /\ conn[k] \in Connection
  BY <1>1, <1>2, Handled DEF Types, Verdict
<1>4. CASE x = "blank" /\ Skips(k) /\ UNCHANGED <<active, runs>>
  <2>1. PICK q \in Connection :
          /\ conn' = [conn EXCEPT ![k] = q]
          /\ q.at = "reading" /\ q.line = <<>> /\ (q.open <=> conn[k].open)
          /\ q.up = conn[k].up /\ q.reply = conn[k].reply /\ q.down = conn[k].down
    BY <1>4, BlankIs DEF Skips
  <2>2. Keeps(conn[k], q) /\ Loses(conn[k], q)
    BY <1>2, <1>3, <1>4, <2>1, LineGone, HasParts
  <2>3. Evolves(conn[k], q)
    BY <1>2, <1>3, <2>1, <2>2, GoesOn
  <2> QED BY <1>2, <1>4, <2>1, <2>3, DaemonKeepsOne
<1>5. CASE Leave(k, conn[k]) /\ UNCHANGED runs
  BY <1>2, <1>5, LeaveKeeps
<1>6. CASE Refuses(k) /\ UNCHANGED <<active, runs>>
  BY <1>2, <1>6, RefuseKeeps
<1>7. CASE x \in DOMAIN Response /\ x # "huge" /\ RunsIt(k) /\ UNCHANGED active
  BY <1>2, <1>7, RunKeeps
<1> QED BY <1>2, <1>4, <1>5, <1>6, <1>7

LEMMA AnswerKeeps ==
  ASSUME Types, Bytewise, NEW k \in Conns, Answer(k)
  PROVE  Bytewise'
<1>1. LinksOK /\ CallsOK /\ conn[k] \in Connection /\ conn[k].at = "answering"
  BY DEF Bytewise, Types, Answer
<1>2. conn[k].reply # <<>>
  BY <1>1, Inside DEF Carries, Progress
<1>3. PICK p \in Connection :
        /\ p.at = "reading" /\ p.reply = <<>> /\ p.down = Append(conn[k].down, conn[k].reply[1])
        /\ p.open /\ p.up = conn[k].up /\ p.line = conn[k].line
        /\ \/ conn[k].reply[2] = "huge" /\ Leave(k, p)
           \/ /\ conn[k].reply[2] # "huge"
              /\ conn' = [conn EXCEPT ![k] = p] /\ UNCHANGED active
  BY <1>2, AnswerLeaves
<1>4. conn[k].open /\ UNCHANGED <<call, link, backlog, accept, daemon, runs>>
  BY <1>2, AnswerLeaves
<1>5. CASE conn[k].reply[2] = "huge" /\ Leave(k, p)
  <2>1. PICK q : Shut(p, q) /\ conn' = [conn EXCEPT ![k] = q]
    BY <1>5, Leaves
  <2>2. Len(p.down) = 1 /\ p.down[1] = conn[k].reply[1]
    <3>1. conn[k].down = <<>>
      BY <1>1, NoneYet
    <3>2. p.down = Append(<<>>, conn[k].reply[1])
      BY <1>3, <3>1
    <3> QED BY <3>2
  <2>3. Evolves(conn[k], q)
    BY <1>1, <1>3, <1>4, <2>1, <2>2, ShutEvolves
  <2> QED BY <1>4, <2>1, <2>3, DaemonKeepsOne
<1>6. CASE conn[k].reply[2] # "huge" /\ conn' = [conn EXCEPT ![k] = p] /\ UNCHANGED active
  <2>1. Evolves(conn[k], p)
    BY <1>1, <1>2, <1>3, <1>4, <1>6, AnswerEvolves
  <2> QED BY <1>4, <1>6, <2>1, DaemonKeepsOne
<1> QED BY <1>3, <1>5, <1>6

LEMMA ThreadKeeps ==
  ASSUME Types, Bytewise, NEW k \in Conns, Thread(k)
  PROVE  Bytewise'
<1>1. LinksOK /\ CallsOK /\ conn[k] \in Connection
  BY DEF Bytewise, Types
<1>2. CASE ReadSome(k)
  <2>1. PICK q \in Connection, n \in 1 .. Len(conn[k].up) : TookSome(k, q, n)
    BY <1>2, ReadsSome
  <2>2. /\ conn[k].at = "reading" /\ conn[k].up # <<>> /\ conn' = [conn EXCEPT ![k] = q]
        /\ q.at = (IF Last(SubSeq(conn[k].up, 1, n)).part = NewLine \/ q.line[1].kind = "huge"
                   THEN "handling" ELSE "reading")
        /\ TakesPart(conn[k], q, n) /\ (q.open <=> conn[k].open) /\ q.down = conn[k].down
        /\ UNCHANGED <<call, link, runs>>
    BY <2>1 DEF TookSome, TakesPart
  <2>3. Evolves(conn[k], q)
    BY <1>1, <2>2, TakeEvolves
  <2> QED BY <2>2, <2>3, DaemonKeepsOne
<1>3. CASE ReadEnd(k)
  <2>1. /\ conn[k].at = "reading" /\ conn[k].up = <<>> /\ ~conn[k].open
        /\ UNCHANGED <<call, link, runs>>
    BY <1>3 DEF ReadEnd, threadVars, clientVars
  <2>2. CASE conn[k].line = <<>>
    BY <1>3, <2>1, <2>2, LeaveKeeps DEF ReadEnd
  <2>3. CASE conn[k].line # <<>>
    <3>1. conn' = [conn EXCEPT ![k].at = "handling"] /\ "handling" \in Ats
      BY <1>3, <2>3 DEF ReadEnd, Ats
    <3>2. PICK q \in Connection :
            /\ conn' = [conn EXCEPT ![k] = q]
            /\ q.at = "handling" /\ (q.open <=> conn[k].open) /\ q.up = conn[k].up
            /\ q.line = conn[k].line /\ q.reply = conn[k].reply /\ q.down = conn[k].down
      BY <3>1, Moves
    <3>3. Evolves(conn[k], q)
      BY <1>1, <2>1, <2>3, <3>2, MoveEvolves
    <3> QED BY <2>1, <3>2, <3>3, DaemonKeepsOne
  <2> QED BY <2>2, <2>3
<1>4. CASE ReadTimeout(k)
  BY <1>4, LeaveKeeps DEF ReadTimeout, threadVars, clientVars
<1>5. CASE AnswerFails(k)
  BY <1>5, LeaveKeeps DEF AnswerFails, threadVars, clientVars
<1> QED BY <1>2, <1>3, <1>4, <1>5, HandleKeeps, AnswerKeeps DEF Thread

LEMMA MainKeeps ==
  ASSUME Types, LimiterOK, Bytewise, MainThread \/ DaemonEnds \/ DaemonStarts
  PROVE  Bytewise'
<1>1. LinksOK /\ CallsOK
  BY DEF Bytewise
<1>2. CASE Accept \/ DaemonStarts
  BY <1>2, StillKeeps DEF Accept, DaemonStarts, clientVars
<1>3. CASE Acquire
  <2>1. accept.conn \in Conns /\ conn[accept.conn].at = "backlog"
        /\ UNCHANGED <<call, link, runs>>
    BY <1>3 DEF Acquire, LimiterOK, clientVars
  <2>2. CASE UNCHANGED conn
    BY <2>1, <2>2, StillKeeps
  <2>3. CASE conn' = [conn EXCEPT ![accept.conn].at = "admitted"]
    <3>1. PICK k \in Conns : k = accept.conn
      BY <2>1
    <3>2. conn' = [conn EXCEPT ![k].at = "admitted"] /\ "admitted" \in Ats
      BY <2>3, <3>1 DEF Ats
    <3>3. PICK q \in Connection :
            /\ conn' = [conn EXCEPT ![k] = q]
            /\ q.at = "admitted" /\ (q.open <=> conn[k].open) /\ q.up = conn[k].up
            /\ q.line = conn[k].line /\ q.reply = conn[k].reply /\ q.down = conn[k].down
      BY <3>2, Moves
    <3>4. Evolves(conn[k], q)
      BY <2>1, <3>1, <3>3, MoveEvolves DEF Types
    <3> QED BY <2>1, <3>3, <3>4, DaemonKeepsOne
  <2> QED BY <1>3, <2>2, <2>3 DEF Acquire
<1>4. CASE Reject
  <2>1. accept.conn \in Conns /\ conn[accept.conn].at = "backlog"
    BY <1>4 DEF Reject, LimiterOK
  <2>2. PICK k \in Conns : k = accept.conn
    BY <2>1
  <2>3. PICK p \in Connection, q \in Connection :
          /\ Shut(p, q) /\ conn' = [conn EXCEPT ![k] = q]
          /\ (p.open <=> conn[k].open)
          /\ p.down = (IF conn[k].open THEN <<"error">> ELSE <<>>)
          /\ UNCHANGED <<call, link, runs>>
    BY <1>4, <2>1, <2>2, Rejects
  <2>4. \/ p.down = conn[k].down
        \/ Len(p.down) = 1 /\ p.down[1] = "error"
    <3>1. CASE ~conn[k].open
      BY <1>1, <2>3, <3>1, NoneYet
    <3>2. CASE conn[k].open
      <4>1. p.down = <<"error">>
        BY <2>3, <3>2
      <4> QED BY <4>1
    <3> QED BY <3>1, <3>2
  <2>5. Evolves(conn[k], q)
    BY <2>1, <2>2, <2>3, <2>4, ShutEvolves DEF Types
  <2> QED BY <2>3, <2>5, DaemonKeepsOne
<1>5. CASE SpawnThread
  <2>1. accept.conn \in Conns /\ conn[accept.conn].at = "admitted"
        /\ UNCHANGED <<call, link, runs>>
    BY <1>5 DEF SpawnThread, LimiterOK, clientVars
  <2>2. PICK k \in Conns : k = accept.conn
    BY <2>1
  <2>3. CASE conn' = [conn EXCEPT ![accept.conn].at = "reading"]
    <3>1. conn' = [conn EXCEPT ![k].at = "reading"] /\ "reading" \in Ats
      BY <2>2, <2>3 DEF Ats
    <3>2. PICK q \in Connection :
            /\ conn' = [conn EXCEPT ![k] = q]
            /\ q.at = "reading" /\ (q.open <=> conn[k].open) /\ q.up = conn[k].up
            /\ q.line = conn[k].line /\ q.reply = conn[k].reply /\ q.down = conn[k].down
      BY <3>1, Moves
    <3>3. Evolves(conn[k], q)
      BY <2>1, <2>2, <3>2, MoveEvolves DEF Types
    <3> QED BY <2>1, <3>2, <3>3, DaemonKeepsOne
  <2>4. CASE Leave(accept.conn, conn[accept.conn])
    BY <2>1, <2>2, <2>4, LeaveKeeps
  <2> QED BY <1>5, <2>3, <2>4 DEF SpawnThread
<1>6. CASE DaemonEnds
  <2>1. UNCHANGED <<call, link, runs>>
    BY <1>6 DEF DaemonEnds, clientVars
  <2>2. ASSUME NEW k \in Conns
        PROVE  Evolves(conn[k], conn'[k])
    <3>1. conn[k] \in Connection /\ Shut(conn[k], Closed(conn[k]))
      BY ClosedIs DEF Types
    <3>2. conn'[k] = IF Free(k) THEN conn[k] ELSE Closed(conn[k])
      BY <1>6 DEF DaemonEnds
    <3>3. CASE Free(k)
      BY <3>2, <3>3, EvolvesNot
    <3>4. CASE ~Free(k)
      <4>1. Evolves(conn[k], Closed(conn[k]))
        BY <3>1, <3>4, ShutEvolves DEF Free
      <4> QED BY <3>2, <3>4, <4>1
    <3> QED BY <3>3, <3>4
  <2> QED BY <2>1, <2>2, DaemonKeeps
<1> QED BY <1>2, <1>3, <1>4, <1>5, <1>6 DEF MainThread

-----------------------------------------------------------------------------
(* Steps of the programs.                                                  *)

(* A step of the program c that changes its call, its connection and what  *)
(* is between the ends of it, k, and nothing else.                         *)
Frame(c, k) ==
  /\ \A d \in Clients \ {c} : /\ call'[d] = call[d] /\ link'[d] = link[d]
                              /\ k # NoConn => link[d] # k
  /\ \A j \in Conns : j # k => conn'[j] = conn[j]
  /\ link[c] \in {NoConn, k} /\ link'[c] \in {NoConn, k}
  /\ runs' = runs

(* The bytes it adds are of an event that has none yet and was not run;    *)
(* what it leaves behind is of calls that are over.                        *)
Adds(k) ==
  \A e \in Events : Has(conn'[k], e) =>
    \/ Has(conn[k], e)
    \/ runs[e] = 0 /\ \A j \in Conns : Has(conn[j], e) => j = k
Dates(k) ==
  /\ k # NoConn => \A e \in Events : Has(conn'[k], e) /\ ~conn'[k].open => Past(e)'
  /\ \A e \in Events : Past(e) => Past(e)'
Fresh(c) ==
  /\ call'[c].n >= call[c].n
  /\ call'[c].stage \in {"connect", "write"} /\ <<c, call'[c].n>> \in Events =>
       runs[<<c, call'[c].n>>] = 0

LEMMA ProgramKeeps ==
  ASSUME Types, Types', Bytewise, NEW c \in Clients, NEW k \in Conns \cup {NoConn}, Frame(c, k),
         k # NoConn => (Loose(conn'[k]) \/ link'[c] = k) /\ Adds(k), Dates(k), Fresh(c),
         InCall(c, call[c], link[c])',
         (link[c] # NoConn => Owned(c, call[c], conn[link[c]], runs[<<c, call[c].n>>]))'
  PROVE  Bytewise'
<1>1. LinksOK /\ CallsOK /\ BytesOK /\ RunsOK
  BY DEF Bytewise
<1>2. LinksOK'
  <2>1. ASSUME NEW j \in Conns
        PROVE  (Loose(conn[j]) \/ \E d \in Clients : link[d] = j)'
    <3>1. CASE j = k
      BY <3>1, Sizes
    <3>2. CASE j # k /\ Loose(conn[j])
      BY <3>2 DEF Frame
    <3>3. CASE j # k /\ ~Loose(conn[j])
      <4>1. PICK d \in Clients : link[d] = j
        BY <1>1, <3>3 DEF LinksOK
      <4>2. d # c
        BY <3>3, <4>1, Sizes DEF Frame
      <4> QED BY <4>1, <4>2 DEF Frame
    <3> QED BY <3>1, <3>2, <3>3
  <2>2. ASSUME NEW a \in Clients, NEW b \in Clients, link'[a] # NoConn, link'[a] = link'[b]
        PROVE  a = b
    BY <1>1, <2>2 DEF LinksOK, Frame
  <2> QED BY <2>1, <2>2 DEF LinksOK
<1>3. CallsOK'
  <2> SUFFICES ASSUME NEW d \in Clients
               PROVE  (/\ InCall(d, call[d], link[d])
                       /\ link[d] # NoConn =>
                            Owned(d, call[d], conn[link[d]], runs[<<d, call[d].n>>]))'
    BY DEF CallsOK
  <2>1. CASE d = c
    BY <2>1
  <2>2. CASE d # c
    <3>1. call'[d] = call[d] /\ link'[d] = link[d] /\ runs' = runs
      BY <2>2 DEF Frame
    <3>2. InCall(d, call[d], link[d])'
      BY <1>1, <3>1 DEF CallsOK, InCall
    <3>3. ASSUME link[d] # NoConn
          PROVE  Owned(d, call'[d], conn'[link'[d]], runs'[<<d, call'[d].n>>])
      <4>1. Owned(d, call[d], conn[link[d]], runs[<<d, call[d].n>>])
        BY <1>1, <3>3 DEF CallsOK
      <4>2. link[d] \in Conns /\ link[d] # k
        BY <2>2, <3>3 DEF Frame, Types
      <4>3. conn'[link[d]] = conn[link[d]]
        BY <4>2 DEF Frame
      <4> QED BY <3>1, <4>1, <4>3
    <3> QED BY <3>1, <3>2, <3>3
  <2> QED BY <2>1, <2>2
<1>4. BytesOK'
  <2> SUFFICES ASSUME NEW j \in Conns, NEW e \in Events, Has(conn'[j], e)
               PROVE  (/\ runs[e] = 0
                       /\ \A i \in Conns : Has(conn[i], e) => i = j
                       /\ ~conn[j].open => Past(e))'
    BY DEF BytesOK
  <2>1. runs'[e] = runs[e] /\ \A i \in Conns : i # k => conn'[i] = conn[i]
    BY DEF Frame
  <2>2. CASE Has(conn[j], e)
    <3>1. runs[e] = 0 /\ (\A i \in Conns : Has(conn[i], e) => i = j) /\ (~conn[j].open => Past(e))
      BY <1>1, <2>2 DEF BytesOK
    <3>2. \A i \in Conns : Has(conn'[i], e) => i = j
      BY <2>1, <2>2, <3>1, Sizes DEF Adds
    <3>3. ~conn'[j].open => Past(e)'
      BY <2>1, <3>1, Sizes DEF Dates
    <3> QED BY <2>1, <3>1, <3>2, <3>3
  <2>3. CASE ~Has(conn[j], e)
    <3>1. j = k /\ runs[e] = 0 /\ \A i \in Conns : Has(conn[i], e) => i = k
      BY <2>1, <2>3, Sizes DEF Adds
    <3> QED BY <2>1, <3>1, Sizes DEF Dates
  <2> QED BY <2>2, <2>3
<1>5. RunsOK'
  <2> SUFFICES ASSUME NEW e \in Events
               PROVE  (/\ runs[e] <= 1
                       /\ e[2] > call[e[1]].n => runs[e] = 0
                       /\ e[2] = call[e[1]].n /\ call[e[1]].stage \in {"connect", "write"}
                            => runs[e] = 0)'
    BY DEF RunsOK
  <2>1. /\ runs[e] <= 1
        /\ e[2] > call[e[1]].n => runs[e] = 0
        /\ e[2] = call[e[1]].n /\ call[e[1]].stage \in {"connect", "write"} => runs[e] = 0
    BY <1>1 DEF RunsOK
  <2>2. e[1] \in Clients /\ e[2] \in Nat /\ e = <<e[1], e[2]>> /\ runs'[e] = runs[e]
    BY EventsAre DEF Frame
  <2>3. CASE e[1] = c
    <3>1. call[c].n \in Nat /\ call'[c].n \in Nat
      BY CallFields DEF Types
    <3> QED BY <2>1, <2>2, <2>3, <3>1 DEF Fresh
  <2>4. CASE e[1] # c
    <3>1. call'[e[1]] = call[e[1]]
      BY <2>2, <2>4 DEF Frame
    <3> QED BY <2>1, <2>2, <3>1
  <2> QED BY <2>3, <2>4
<1> QED BY <1>2, <1>3, <1>4, <1>5 DEF Bytewise

(* The calls that are over stay so, unless the program begins its call     *)
(* anew under the same number.                                             *)
LEMMA PastStays ==
  ASSUME Types, Types', NEW c \in Clients,
         \A d \in Clients \ {c} : call'[d] = call[d],
         \/ call'[c].n = call[c].n /\ (call[c].stage = "idle" => call'[c].stage = "idle")
         \/ call'[c].n = call[c].n + 1,
         NEW e \in Events, Past(e)
  PROVE  Past(e)'
<1>1. e[1] \in Clients /\ e[2] \in Nat
  BY EventsAre
<1>2. call[c].n \in Nat /\ call'[c].n \in Nat
  BY CallFields DEF Types
<1>3. CASE e[1] = c
  BY <1>1, <1>2, <1>3 DEF Past
<1>4. CASE e[1] # c
  BY <1>1, <1>4 DEF Past
<1> QED BY <1>3, <1>4

(* A step that only touches its own connection.                            *)
LEMMA FrameOwn ==
  ASSUME Types, LinksOK, NEW c \in Clients, NEW m,
         call' = [call EXCEPT ![c] = m], link' = [link EXCEPT ![c] = NoConn] \/ link' = link,
         conn' = conn \/ \E q : conn' = [conn EXCEPT ![link[c]] = q], runs' = runs
  PROVE  Frame(c, link[c])
<1>1. \A d \in Clients \ {c} : link[c] # NoConn => link[d] # link[c]
  BY DEF LinksOK
<1>2. \A d \in Clients \ {c} : call'[d] = call[d] /\ link'[d] = link[d]
  BY DEF Types
<1>3. \A j \in Conns : j # link[c] => conn'[j] = conn[j]
  BY DEF Types
<1>4. link'[c] \in {NoConn, link[c]}
  BY DEF Types
<1> QED BY <1>1, <1>2, <1>3, <1>4 DEF Frame

(* All bytes of a connection are of the call its program is in.            *)
LEMMA OwnedBytes ==
  ASSUME NEW c, NEW m, NEW r \in Connection, NEW g, Owned(c, m, r, g), NEW e, Has(r, e)
  PROVE  e = <<c, m.n>> /\ m.stage # "idle" /\ r.at # "closed"
<1>1. r.line # <<>> \/ r.up # <<>>
  BY EmptySeq DEF Has
<1>2. m.stage # "idle" /\ r.at # "closed"
  BY <1>1 DEF Owned
<1>3. Carries(r, <<c, m.n>>, m.kind, m.written)
  BY <1>2 DEF Owned
<1> QED BY <1>2, <1>3, CarriesOnly

(* The end of a program is closed: what it wrote stays, and is of a call   *)
(* that is over.                                                           *)
LEMMA LeftLoose ==
  ASSUME NEW c \in Clients, NEW m \in Call, NEW r \in Connection, NEW g, Owned(c, m, r, g),
         NEW q, Left(r, q)
  PROVE  /\ q \in Connection /\ Loose(q)
         /\ \A e : Has(q, e) => Has(r, e) /\ e = <<c, m.n>> /\ m.stage # "idle"
         /\ m.stage = "write" /\ m.written = 0 => \A e : ~Has(q, e)
<1>1. q \in Connection
  BY DEF Left
<1>2. CASE r.at = "closed"
  <2>1. q = Unused
    BY <1>2 DEF Left
  <2> QED BY <1>1, <2>1, UnusedIsOne, EmptySeq DEF Loose, Has
<1>3. CASE r.at # "closed"
  <2>1. /\ q.at = r.at /\ ~q.open /\ q.up = r.up /\ q.line = r.line
        /\ q.reply = r.reply /\ q.down = <<>>
    BY <1>3 DEF Left
  <2>2. r.open /\ r.at # "unused" /\ <<c, m.n>> \in Events
    BY DEF Owned
  <2>3. ASSUME NEW e, Has(q, e)
        PROVE  Has(r, e) /\ e = <<c, m.n>> /\ m.stage # "idle"
    <3>1. Has(r, e)
      BY <2>1, <2>3 DEF Has
    <3> QED BY <3>1, OwnedBytes
  <2>4. CASE m.stage = "idle"
    <3>1. r.at = "reading" /\ r.line = <<>> /\ r.up = <<>>
      BY <1>3, <2>4 DEF Owned
    <3>2. PICK x \in Kinds : x = "send"
      BY Responses
    <3>3. Stream(q, <<c, m.n>>, x, 0) /\ Progress(q, x, 0) /\ Measures(q, 0, 0)
      BY <2>1, <3>1, EmptySeq DEF Stream, Progress, Measures
    <3>4. 0 \in 0 .. NewLine /\ 0 \in Nat
      BY Sizes
    <3>5. Carries(q, <<c, m.n>>, x, 0)
      BY <1>1, <3>3, <3>4, CarriesNew, Sizes
    <3>6. Loose(q)
      BY <1>3, <2>1, <2>2, <3>2, <3>4, <3>5 DEF Loose
    <3> QED BY <1>1, <2>3, <2>4, <3>6
  <2>5. CASE m.stage # "idle"
    <3>1. PICK o \in 0 .. NewLine, l \in Nat, u \in Nat :
            /\ Stream(r, <<c, m.n>>, m.kind, o) /\ Progress(r, m.kind, o)
            /\ Measures(r, l, u) /\ m.written = o + l + u /\ m.written <= NewLine
      BY <1>3, <2>5, CarriesParts DEF Owned
    <3>2. Stream(q, <<c, m.n>>, m.kind, o) /\ Measures(q, l, u)
      BY <2>1, <3>1, StreamSame DEF Measures
    <3>3. Progress(q, m.kind, o)
      BY <2>1, <2>2, <3>1 DEF Progress
    <3>4. Carries(q, <<c, m.n>>, m.kind, m.written)
      BY <1>1, <3>1, <3>2, <3>3, CarriesNew
    <3>5. Loose(q)
      BY <1>3, <2>1, <2>2, <3>4, CallFields DEF Loose
    <3>6. m.written = 0 => \A e : ~Has(q, e)
      <4> SUFFICES ASSUME m.written = 0
                   PROVE  \A e : ~Has(q, e)
        OBVIOUS
      <4>1. l = 0 /\ u = 0
        BY <3>1
      <4>2. q.line = <<>> /\ q.up = <<>>
        BY <1>1, <3>2, <4>1, Lengths DEF Measures
      <4> QED BY <4>2, EmptySeq DEF Has
    <3> QED BY <1>1, <2>3, <3>5, <3>6
  <2> QED BY <2>4, <2>5
<1> QED BY <1>2, <1>3

(* A program loses its connection: its call is over, or it begins anew,    *)
(* which it does only before the first byte.                               *)
LEMMA LosesKeeps ==
  ASSUME Types, Types', Bytewise, NEW c \in Clients, NEW m \in Call,
         call' = [call EXCEPT ![c] = m], link' = [link EXCEPT ![c] = NoConn], runs' = runs,
         link[c] = NoConn => conn' = conn,
         link[c] # NoConn =>
           \E q : Left(conn[link[c]], q) /\ conn' = [conn EXCEPT ![link[c]] = q],
         m.n = call[c].n, m.ok => call[c].ok,
         \/ m.stage = "idle" /\ ~m.late
         \/ /\ m.stage = "connect" /\ m.written = 0
            /\ call[c].stage = "write" /\ call[c].written = 0
  PROVE  Bytewise'
<1> DEFINE k == link[c]
<1>1. LinksOK /\ CallsOK /\ RunsOK
  BY DEF Bytewise
<1>2. k \in Conns \cup {NoConn} /\ call'[c] = m /\ link'[c] = NoConn /\ call[c] \in Call
      /\ call[c].n \in Nat
  BY CallFields DEF Types
<1>3. Frame(c, k)
  BY <1>1, FrameOwn
<1>4. InCall(c, call[c], link[c])
  BY <1>1 DEF CallsOK
<1>5. InCall(c, call[c], link[c])'
  BY <1>2, <1>4 DEF InCall
<1>6. \A e \in Events : Past(e) => Past(e)'
  BY <1>2, <1>3, PastStays DEF Frame
<1>7. Fresh(c)
  <2>1. m.stage = "connect" /\ <<c, m.n>> \in Events => runs[<<c, m.n>>] = 0
    BY <1>1, EventsAre DEF RunsOK
  <2> QED BY <1>2, <2>1 DEF Fresh
<1>8. ASSUME k # NoConn
      PROVE  /\ Loose(conn'[k]) /\ Adds(k)
             /\ \A e \in Events : Has(conn'[k], e) /\ ~conn'[k].open => Past(e)'
  <2>1. k \in Conns /\ conn[k] \in Connection
    BY <1>8 DEF Types
  <2>2. PICK q : Left(conn[k], q) /\ conn' = [conn EXCEPT ![k] = q]
    BY <1>8
  <2>3. conn'[k] = q
    BY <2>1, <2>2 DEF Types
  <2>4. Owned(c, call[c], conn[k], runs[<<c, call[c].n>>])
    BY <1>1, <1>8 DEF CallsOK
  <2>5. /\ Loose(q)
        /\ \A e : Has(q, e) => Has(conn[k], e) /\ e = <<c, call[c].n>> /\ call[c].stage # "idle"
        /\ call[c].stage = "write" /\ call[c].written = 0 => \A e : ~Has(q, e)
    BY <1>2, <2>1, <2>2, <2>4, LeftLoose
  <2>6. Adds(k)
    BY <2>3, <2>5 DEF Adds
  <2>7. ASSUME NEW e \in Events, Has(q, e)
        PROVE  Past(e)'
    <3>1. m.stage = "idle" /\ e[1] = c /\ e[2] = call[c].n
      BY <2>5, <2>7
    <3> QED BY <1>2, <3>1 DEF Past
  <2> QED BY <2>3, <2>5, <2>6, <2>7
<1>9. Dates(k)
  BY <1>6, <1>8 DEF Dates
<1> HIDE DEF k
<1> QED BY <1>2, <1>3, <1>5, <1>7, <1>8, <1>9, ProgramKeeps

LEMMA BeginKeeps ==
  ASSUME Types, Types', Bytewise, NEW c \in Clients, Send(c) \/ Command(c)
  PROVE  Bytewise'
<1> DEFINE k == link[c]
<1>1. LinksOK /\ CallsOK /\ RunsOK
  BY DEF Bytewise
<1>2. PICK m \in Call :
        /\ call' = [call EXCEPT ![c] = m]
        /\ call[c].stage = "idle" /\ m.n = call[c].n + 1 /\ <<c, m.n>> \in Events
        /\ m.stage = IF link[c] = NoConn THEN "connect" ELSE "write"
        /\ m.written = 0 /\ ~m.ok /\ ~m.late
        /\ UNCHANGED <<link, conn, backlog, accept, active, daemon, runs>>
  BY SendBegins
<1>3. k \in Conns \cup {NoConn} /\ call'[c] = m /\ call[c] \in Call /\ call[c].n \in Nat
      /\ link'[c] = k
  BY <1>2, CallFields DEF Types
<1>4. Frame(c, k)
  BY <1>1, <1>2, FrameOwn
<1>5. InCall(c, call[c], link[c])'
  BY <1>2, <1>3, Sizes DEF InCall
<1>6. Dates(k)
  <2>1. \A e \in Events : Past(e) => Past(e)'
    BY <1>2, <1>3, <1>4, PastStays DEF Frame
  <2>2. ASSUME k # NoConn
        PROVE  conn'[k].open
    BY <1>1, <1>2, <1>3, <2>2 DEF CallsOK, Owned
  <2> QED BY <2>1, <2>2 DEF Dates
<1>7. runs[<<c, m.n>>] = 0
  <2>1. m.n > call[c].n
    BY <1>2, <1>3
  <2> QED BY <1>1, <1>2, <2>1, EventsAre DEF RunsOK
<1>8. Fresh(c)
  BY <1>2, <1>3, <1>7 DEF Fresh
<1>9. k # NoConn => link'[c] = k /\ Adds(k)
  BY <1>2, <1>3 DEF Adds
<1>10. (link[c] # NoConn => Owned(c, call[c], conn[link[c]], runs[<<c, call[c].n>>]))'
  <2> SUFFICES ASSUME k # NoConn
               PROVE  Owned(c, m, conn[k], runs[<<c, m.n>>])
    BY <1>2, <1>3
  <2>1. /\ conn[k].open /\ conn[k].at \in {"reading", "closed"}
        /\ conn[k].line = <<>> /\ conn[k].up = <<>> /\ conn[k].down = <<>>
    BY <1>1, <1>2 DEF CallsOK, Owned
  <2>2. conn[k] \in Connection
    BY <1>3 DEF Types
  <2>3. conn[k].at = "reading" => Carries(conn[k], <<c, m.n>>, m.kind, 0)
    <3>1. Stream(conn[k], <<c, m.n>>, m.kind, 0) /\ Measures(conn[k], 0, 0)
          /\ (conn[k].at = "reading" => Progress(conn[k], m.kind, 0))
      BY <2>1, EmptySeq DEF Stream, Progress, Measures
    <3>2. 0 \in 0 .. NewLine /\ 0 \in Nat
      BY Sizes
    <3> QED BY <2>2, <3>1, <3>2, CarriesNew, Sizes
  <2>4. m.stage = "write" /\ m.written < NewLine
    BY <1>2, Sizes
  <2> QED BY <1>2, <2>1, <2>3, <2>4 DEF Owned
<1> HIDE DEF k
<1> QED BY <1>3, <1>4, <1>5, <1>6, <1>8, <1>9, <1>10, ProgramKeeps

LEMMA ExpireKeeps ==
  ASSUME Types, Types', Bytewise, NEW c \in Clients, Expire(c)
  PROVE  Bytewise'
<1> DEFINE k == link[c]
<1>1. LinksOK /\ CallsOK /\ RunsOK
  BY DEF Bytewise
<1>2. PICK m \in Call :
        /\ call[c].stage # "idle" /\ call' = [call EXCEPT ![c] = m]
        /\ m.stage = call[c].stage /\ m.n = call[c].n /\ (m.ok <=> call[c].ok)
        /\ m.kind = call[c].kind /\ m.written = call[c].written /\ m.late
        /\ UNCHANGED <<link, conn, backlog, accept, active, daemon, runs>>
  BY Expires
<1>3. k \in Conns \cup {NoConn} /\ call'[c] = m /\ call[c].n \in Nat /\ link'[c] = k
  BY <1>2, CallFields DEF Types
<1>4. Frame(c, k)
  BY <1>1, <1>2, FrameOwn
<1>5. InCall(c, call[c], link[c])'
  BY <1>1, <1>2, <1>3 DEF CallsOK, InCall
<1>6. Dates(k)
  <2>1. \A e \in Events : Past(e) => Past(e)'
    BY <1>2, <1>3, <1>4, PastStays DEF Frame
  <2>2. ASSUME k # NoConn
        PROVE  conn'[k].open
    BY <1>1, <1>2, <1>3, <2>2 DEF CallsOK, Owned
  <2> QED BY <2>1, <2>2 DEF Dates
<1>7. Fresh(c)
  BY <1>1, <1>2, <1>3, EventsAre DEF Fresh, RunsOK
<1>8. k # NoConn => link'[c] = k /\ Adds(k)
  BY <1>2, <1>3 DEF Adds
<1>9. (link[c] # NoConn => Owned(c, call[c], conn[link[c]], runs[<<c, call[c].n>>]))'
  BY <1>1, <1>2, <1>3 DEF CallsOK, Owned
<1> HIDE DEF k
<1> QED BY <1>3, <1>4, <1>5, <1>6, <1>7, <1>8, <1>9, ProgramKeeps

LEMMA ConnectKeeps ==
  ASSUME Types, Types', Bytewise, NEW c \in Clients, Connect(c)
  PROVE  Bytewise'
<1>1. LinksOK /\ CallsOK /\ RunsOK
  BY DEF Bytewise
<1>2. PICK k \in Conns, q \in Connection, m \in Call : Connected(c, k, q, m)
  BY Connects
<1>3. /\ call[c].stage = "connect" /\ conn[k].at = "unused"
      /\ conn' = [conn EXCEPT ![k] = q]
      /\ q.at = "backlog" /\ q.open
      /\ q.up = <<>> /\ q.line = <<>> /\ q.reply = <<>> /\ q.down = <<>>
      /\ call' = [call EXCEPT ![c] = m]
      /\ m.stage = "write" /\ m.n = call[c].n /\ m.written = call[c].written
      /\ (m.ok <=> call[c].ok)
      /\ link' = [link EXCEPT ![c] = k] /\ runs' = runs
  BY <1>2 DEF Connected
<1>4. InCall(c, call[c], link[c])
  BY <1>1 DEF CallsOK
<1>5. /\ call'[c] = m /\ call[c].n \in Nat /\ link'[c] = k /\ link[c] = NoConn
      /\ conn'[k] = q /\ m.written = 0 /\ <<c, m.n>> \in Events /\ k # NoConn /\ ~m.ok
  BY <1>3, <1>4, CallFields, Sizes DEF Types, InCall
<1>6. Frame(c, k)
  <2>1. \A d \in Clients : link[d] # k
    BY ZenonT(40), <1>1, <1>3, <1>5 DEF CallsOK, Owned
  <2>2. \A d \in Clients \ {c} : call'[d] = call[d] /\ link'[d] = link[d]
    BY <1>3 DEF Types
  <2>3. \A j \in Conns : j # k => conn'[j] = conn[j]
    BY <1>3 DEF Types
  <2> QED BY <1>3, <1>5, <2>1, <2>2, <2>3 DEF Frame
<1>7. InCall(c, call[c], link[c])'
  BY <1>3, <1>5, Sizes DEF InCall
<1>8. Dates(k)
  <2>1. \A e \in Events : Past(e) => Past(e)'
    BY <1>3, <1>5, <1>6, PastStays DEF Frame
  <2> QED BY <1>3, <1>5, <2>1 DEF Dates
<1>9. Fresh(c)
  BY <1>1, <1>3, <1>5, EventsAre DEF Fresh, RunsOK
<1>10. Adds(k)
  BY <1>3, <1>5, EmptySeq DEF Adds, Has
<1>11. (link[c] # NoConn => Owned(c, call[c], conn[link[c]], runs[<<c, call[c].n>>]))'
  <2>1. Stream(q, <<c, m.n>>, m.kind, 0) /\ Measures(q, 0, 0) /\ Progress(q, m.kind, 0)
    BY <1>3, EmptySeq DEF Stream, Progress, Measures
  <2>2. 0 \in 0 .. NewLine /\ 0 \in Nat
    BY Sizes
  <2>3. Carries(q, <<c, m.n>>, m.kind, 0)
    BY <2>1, <2>2, CarriesNew, Sizes
  <2>4. Owned(c, m, q, runs[<<c, m.n>>])
    BY <1>3, <1>5, <2>3, Sizes DEF Owned
  <2> QED BY <1>3, <1>5, <2>4
<1> QED BY <1>5, <1>6, <1>7, <1>8, <1>9, <1>10, <1>11, ProgramKeeps

LEMMA ReadKeeps ==
  ASSUME Types, Types', Bytewise, NEW c \in Clients, NEW q \in Connection, NEW m \in Call,
         GotAnswer(c, q, m)
  PROVE  Bytewise'
<1> DEFINE k == link[c]
           r == conn[k]
<1>1. LinksOK /\ CallsOK /\ RunsOK
  BY DEF Bytewise
<1>2. /\ call[c].stage = "read" /\ r.down # <<>>
      /\ conn' = [conn EXCEPT ![k] = q]
      /\ q.at = r.at /\ (q.open <=> r.open) /\ q.up = r.up /\ q.line = r.line
      /\ q.reply = r.reply /\ q.down = Tail(r.down)
      /\ call' = [call EXCEPT ![c] = m]
      /\ m.stage = "idle" /\ m.n = call[c].n /\ ~m.late
      /\ m.ok => Head(r.down) # "error"
      /\ UNCHANGED <<link, runs>>
  BY DEF GotAnswer
<1>3. InCall(c, call[c], k)
  BY <1>1 DEF CallsOK
<1>4. /\ k \in Conns /\ k # NoConn /\ call'[c] = m /\ call[c].n \in Nat /\ link'[c] = k
      /\ conn'[k] = q /\ r \in Connection /\ <<c, m.n>> \in Events
  BY <1>2, <1>3, CallFields DEF Types, InCall
<1>5. Owned(c, call[c], r, runs[<<c, m.n>>])
  BY <1>1, <1>2, <1>4 DEF CallsOK
<1>6. /\ r.open /\ r.at \in {"reading", "closed"} /\ r.line = <<>> /\ r.up = <<>>
      /\ Len(r.down) = 1 /\ (Head(r.down) = "error" \/ runs[<<c, m.n>>] = 1)
  BY <1>2, <1>5 DEF Owned
<1>7. q.down = <<>>
  <2>1. r.down \in Seq(Answers)
    BY <1>4, ConnectionFields
  <2>2. Len(Tail(r.down)) = 0 /\ Tail(r.down) \in Seq(Answers)
    BY <1>2, <1>6, <2>1
  <2> QED BY <1>2, <2>2, EmptySeq
<1>8. Frame(c, k)
  BY <1>1, <1>2, FrameOwn
<1>9. InCall(c, call[c], link[c])'
  BY <1>2, <1>4, <1>6 DEF InCall
<1>10. Dates(k)
  <2>1. \A e \in Events : Past(e) => Past(e)'
    BY <1>2, <1>4, <1>8, PastStays DEF Frame
  <2> QED BY <1>2, <1>4, <1>6, <2>1 DEF Dates
<1>11. Fresh(c)
  BY <1>2, <1>4 DEF Fresh
<1>12. Adds(k)
  BY <1>2, <1>4, <1>6, EmptySeq DEF Adds, Has
<1>13. (link[c] # NoConn => Owned(c, call[c], conn[link[c]], runs[<<c, call[c].n>>]))'
  <2>1. Owned(c, m, q, runs[<<c, m.n>>])
    BY <1>2, <1>4, <1>6, <1>7 DEF Owned
  <2> QED BY <1>2, <1>4, <2>1
<1> HIDE DEF k
<1> QED BY <1>4, <1>8, <1>9, <1>10, <1>11, <1>12, <1>13, ProgramKeeps

LEMMA WriteKeeps ==
  ASSUME Types, Types', Bytewise, NEW c \in Clients, Write(c)
  PROVE  Bytewise'
<1> DEFINE k == link[c]
           r == conn[k]
           w == call[c].written
           x == call[c].kind
           e == <<c, call[c].n>>
<1>1. LinksOK /\ CallsOK /\ BytesOK /\ RunsOK
  BY DEF Bytewise
<1>2. InCall(c, call[c], k) /\ call[c].stage = "write"
  BY <1>1 DEF CallsOK, Write
<1>3. k \in Conns /\ k # NoConn /\ e \in Events /\ r \in Connection /\ call[c].n \in Nat
      /\ w \in Nat /\ x \in Kinds
  <2>1. k # NoConn /\ e \in Events
    BY <1>2 DEF InCall
  <2>2. k \in Conns
    BY <2>1 DEF Types
  <2>3. r \in Connection
    BY <2>2 DEF Types
  <2>4. call[c] \in Call
    BY DEF Types
  <2>5. call[c].n \in Nat /\ w \in 0 .. NewLine /\ x \in Kinds
    BY <2>4, CallFields
  <2> QED BY <2>1, <2>2, <2>3, <2>5, Sizes
<1>4. PICK q \in Connection, m \in Call, n \in 1 .. (NewLine - w) : Wrote(c, q, m, n)
  BY <1>3, Writes
<1>5. /\ r.at # "closed" /\ r.open
      /\ conn' = [conn EXCEPT ![k] = q]
      /\ AddsPart(r, q, e, x, w, n)
      /\ q.at = r.at /\ (q.open <=> r.open) /\ q.line = r.line /\ q.reply = r.reply
      /\ q.down = r.down
      /\ call' = [call EXCEPT ![c] = m]
      /\ m.stage = (IF w + n = NewLine THEN "read" ELSE "write")
      /\ m.n = call[c].n /\ m.written = w + n
      /\ (m.ok <=> call[c].ok) /\ m.kind = x
      /\ UNCHANGED <<link, runs>>
  BY <1>4 DEF Wrote, AddsPart
<1>6. call'[c] = m /\ link'[c] = k /\ conn'[k] = q /\ ~m.ok
  BY <1>2, <1>3, <1>5 DEF Types, InCall
<1>7. n \in Nat /\ n >= 1 /\ w + n <= NewLine /\ NewLine = 2 /\ w < NewLine
  BY <1>3, Sizes
<1>8. Owned(c, call[c], r, runs[e])
  BY <1>1, <1>3 DEF CallsOK
<1>9. /\ r.at # "unused" /\ Carries(r, e, x, w) /\ r.down = <<>>
      /\ r.at = "answering" => r.reply[1] = "error" \/ runs[e] = 1
  BY <1>2, <1>5, <1>8 DEF Owned
<1> HIDE DEF k, r, w, x, e
<1>10. PICK o \in 0 .. NewLine, l \in Nat, u \in Nat :
         /\ Stream(r, e, x, o) /\ Progress(r, x, o)
         /\ Measures(r, l, u) /\ w = o + l + u /\ w <= NewLine
  BY <1>3, <1>9, CarriesParts
<1>11. o \in Nat /\ o # NewLine
  BY <1>7, <1>10
<1>12. Stream(q, e, x, o) /\ Len(q.up) = Len(r.up) + n
  BY <1>3, <1>5, <1>7, <1>10, <1>11, StreamWritten
<1>13. Measures(q, l, u + n)
  BY <1>5, <1>10, <1>12 DEF Measures
<1>14. Progress(q, x, o)
  BY <1>5, <1>10, <1>11 DEF Progress
<1>15. Carries(q, e, x, w + n)
  <2>1. w + n = o + l + (u + n) /\ u + n \in Nat
    BY <1>3, <1>7, <1>10, <1>11
  <2> QED BY <1>7, <1>12, <1>13, <1>14, <2>1, CarriesNew
<1>16. Frame(c, k)
  BY <1>1, <1>5, FrameOwn DEF k
<1>17. InCall(c, call[c], link[c])'
  BY <1>3, <1>5, <1>6, <1>7 DEF InCall, e
<1>18. Dates(k)
  <2>1. \A f \in Events : Past(f) => Past(f)'
    BY <1>2, <1>5, <1>6, <1>16, PastStays DEF Frame
  <2> QED BY <1>5, <1>6, <2>1 DEF Dates
<1>19. runs[e] = 0
  BY <1>1, <1>2, <1>3, EventsAre DEF RunsOK, e
<1>20. Fresh(c)
  BY <1>3, <1>5, <1>6, <1>19 DEF Fresh, e
<1>21. Adds(k)
  <2> SUFFICES ASSUME NEW f \in Events, Has(q, f)
               PROVE  runs[f] = 0 /\ \A j \in Conns : Has(conn[j], f) => j = k
    BY <1>6 DEF Adds
  <2>1. f = e
    BY <1>15, CarriesOnly
  <2>2. ASSUME NEW j \in Conns, Has(conn[j], e)
        PROVE  j = k
    <3>1. CASE conn[j].open
      <4>1. PICK d \in Clients : link[d] = j
        BY <1>1, <3>1 DEF LinksOK, Loose
      <4>2. Owned(d, call[d], conn[j], runs[<<d, call[d].n>>]) /\ conn[j] \in Connection
        BY <1>1, <4>1, Sizes DEF CallsOK, Types
      <4>3. e = <<d, call[d].n>>
        BY <2>2, <4>2, OwnedBytes
      <4> QED BY <4>1, <4>3 DEF e, k
    <3>2. CASE ~conn[j].open
      <4>1. Past(e)
        BY <1>1, <1>3, <2>2, <3>2 DEF BytesOK
      <4> QED BY <1>2, <1>3, <4>1 DEF Past, e
    <3> QED BY <3>1, <3>2
  <2> QED BY <1>19, <2>1, <2>2
<1>22. (link[c] # NoConn => Owned(c, call[c], conn[link[c]], runs[<<c, call[c].n>>]))'
  <2>1. Owned(c, m, q, runs[e])
    BY <1>3, <1>5, <1>7, <1>9, <1>15 DEF Owned, e
  <2> QED BY <1>5, <1>6, <2>1 DEF e
<1> QED BY <1>3, <1>6, <1>16, <1>17, <1>18, <1>20, <1>21, <1>22, ProgramKeeps

LEMMA ClientKeeps ==
  ASSUME Types, Types', Bytewise, NEW c \in Clients,
         Send(c) \/ Command(c) \/ ClientStep(c) \/ Expire(c) \/ Exit(c)
  PROVE  Bytewise'
<1>1. LinksOK /\ CallsOK
  BY DEF Bytewise
<1>2. CASE Fail(c)
  BY <1>2, Fails, LosesKeeps
<1>3. CASE RequestFails(c) /\ ~Fail(c)
  <2>1. InCall(c, call[c], link[c]) /\ call[c].stage = "write"
    BY <1>1, <1>3, Retries DEF CallsOK
  <2>2. link[c] \in Conns
    BY <2>1 DEF InCall, Types
  <2>3. /\ call[c].written = 0
        /\ link' = [link EXCEPT ![c] = NoConn] /\ runs' = runs
        /\ \E q : Left(conn[link[c]], q) /\ conn' = [conn EXCEPT ![link[c]] = q]
    BY <1>3, <2>2, Retries
  <2>4. PICK m \in Call :
          /\ call' = [call EXCEPT ![c] = m]
          /\ m.stage = "connect" /\ m.written = 0 /\ m.n = call[c].n
          /\ (m.ok <=> call[c].ok) /\ (m.late <=> call[c].late)
    BY <1>3, Retries
  <2> QED BY <2>1, <2>2, <2>3, <2>4, LosesKeeps, Sizes
<1>4. CASE ReadAnswer(c) /\ ~Fail(c)
  <2>1. link[c] \in Conns
    BY <1>1, <1>4 DEF CallsOK, InCall, ReadAnswer, Types
  <2> QED BY <1>4, <2>1, Reads, ReadKeeps
<1>5. CASE Exit(c)
  <2>1. InCall(c, call[c], link[c]) /\ call[c] \in Call
    BY <1>1 DEF CallsOK, Types
  <2>2. /\ call[c].stage = "idle" /\ link[c] # NoConn /\ call' = [call EXCEPT ![c] = call[c]]
        /\ link' = [link EXCEPT ![c] = NoConn] /\ runs' = runs
        /\ \E q : Left(conn[link[c]], q) /\ conn' = [conn EXCEPT ![link[c]] = q]
    BY <1>5, Exits DEF Types
  <2>3. ~call[c].late
    BY <2>1, <2>2 DEF InCall
  <2> QED BY <2>1, <2>2, <2>3, LosesKeeps
<1> QED BY <1>2, <1>3, <1>4, <1>5, BeginKeeps, ExpireKeeps, ConnectKeeps, WriteKeeps
        DEF ClientStep, ConnectFails

-----------------------------------------------------------------------------
(* The invariant holds, and what it is for.                                *)

LEMMA Initially ==
  ASSUME Init
  PROVE  IInv
<1>1. Types
  <2>1. call \in [Clients -> Call] /\ conn \in [Conns -> Connection]
    BY IdleIsOne, UnusedIsOne DEF Init
  <2>2. link \in [Clients -> Conns \cup {NoConn}] /\ runs \in [Events -> Nat] /\ active \in Nat
    BY DEF Init
  <2>3. accept \in [stage : {"accept", "acquire", "reject", "spawn"}, conn : Conns \cup {NoConn},
                    count : Nat]
    BY ListeningIs DEF Init, Listening
  <2>4. daemon \in [up : BOOLEAN, starts : Nat]
    BY DEF Init
  <2>5. backlog \in Seq(Conns)
    BY EmptySeq DEF Init
  <2> QED BY <2>1, <2>2, <2>3, <2>4, <2>5 DEF Types
<1>2. \A k \in Conns : conn[k] = Unused
  BY DEF Init
<1>3. \A c \in Clients : call[c] = Idle /\ link[c] = NoConn
  BY DEF Init
<1>4. LimiterOK
  <2>1. {k \in Conns : Served(k)} = {}
    BY <1>2, UnusedIsOne DEF Served
  <2>2. Cardinality({k \in Conns : Served(k)}) = Cardinality({})
    BY <2>1, Zenon
  <2>3. active = 0 /\ Cardinality({}) = 0
    BY FS_EmptySet DEF Init
  <2>4. active <= MaxConnections
    BY <2>3, IpcAssumption
  <2>5. backlog = <<>> /\ accept.stage = "accept" /\ daemon.up
    BY DEF Init
  <2> QED BY <2>2, <2>3, <2>4, <2>5, EmptySeq DEF LimiterOK
<1>5. LinksOK
  BY <1>2, <1>3, UnusedIsOne DEF LinksOK, Loose
<1>6. CallsOK
  BY <1>3, IdleIsOne DEF CallsOK, InCall
<1>7. BytesOK
  BY <1>2, UnusedIsOne, EmptySeq DEF BytesOK, Has
<1>8. RunsOK
  BY DEF Init, RunsOK
<1> QED BY <1>1, <1>4, <1>5, <1>6, <1>7, <1>8 DEF IInv

LEMMA Stays ==
  ASSUME IInv, [Next]_vars
  PROVE  IInv'
<1>1. Types /\ LimiterOK /\ LinksOK /\ CallsOK /\ Bytewise
  BY DEF IInv, Bytewise
<1>2. (Types /\ LimiterOK /\ Bytewise)' => IInv'
  BY DEF IInv, Bytewise
<1>3. ASSUME NEW c \in Clients,
             Send(c) \/ Command(c) \/ ClientStep(c) \/ Expire(c) \/ Exit(c)
      PROVE  IInv'
  <2>1. Types' /\ LimiterOK'
    BY <1>1, <1>3, ClientTypes
  <2> QED BY <1>1, <1>2, <1>3, <2>1, ClientKeeps
<1>4. ASSUME NEW k \in Conns, Thread(k)
      PROVE  IInv'
  BY <1>1, <1>2, <1>4, ThreadTypes, ThreadKeeps
<1>5. CASE MainThread
  BY <1>1, <1>2, <1>5, AcceptTypes, AcquireTypes, RejectTypes, SpawnTypes, MainKeeps
     DEF MainThread
<1>6. CASE DaemonEnds \/ DaemonStarts
  BY <1>1, <1>2, <1>6, DaemonTypes, MainKeeps
<1>7. CASE UNCHANGED vars
  <2>1. UNCHANGED <<call, link, conn, backlog, accept, active, daemon, runs>>
    BY <1>7 DEF vars
  <2>2. Types'
    BY <1>1, <2>1 DEF Types
  <2> QED BY <1>1, <1>2, <2>1, <2>2, LimiterStill, StillKeeps
<1> QED BY <1>3, <1>4, <1>5, <1>6, <1>7 DEF Next

LEMMA Invariant == Spec => []IInv
<1> QED BY Initially, Stays, PTL DEF Spec

(* The limiter counts the connections that are served, on every path into  *)
(* and out of a thread, and never more than the limit: a permit taken      *)
(* after a load that others overtook, a failed spawn, a thread that ends   *)
(* in the middle of a line or of an answer, and the end of the daemon all  *)
(* leave the count right (ConnectionLimiter, ConnectionPermit::drop).      *)
THEOREM Permits == Spec => []PermitsAgree
<1>1. IInv => PermitsAgree
  BY DEF IInv, LimiterOK, PermitsAgree
<1> QED BY <1>1, Invariant, PTL

(* No event is run twice, for any number of programs, connections and      *)
(* restarts: the one that is tried again was never on its way, and what    *)
(* was on its way in a connection that was given up is not sent again      *)
(* (ReconnectingClient::send's at-most-once promise).                      *)
THEOREM AtMostOnceHolds == Spec => []AtMostOnce
<1>1. IInv => AtMostOnce
  BY DEF IInv, RunsOK, AtMostOnce
<1> QED BY <1>1, Invariant, PTL

(* A call that returns Ok was run by the daemon, though an answer does not *)
(* say which line it is to: a connection on which an answer may still come *)
(* is never used for the next call (Client::request).                      *)
THEOREM OkIsTrue == Spec => []OkMeansRun
<1>1. IInv => OkMeansRun
  BY DEF IInv, CallsOK, InCall, OkMeansRun
<1> QED BY <1>1, Invariant, PTL

(* No byte of a request leaves after its deadline, and a second attempt    *)
(* goes on under the deadline of the first (ReconnectingClient::send).     *)
THEOREM NothingLate == Spec => NothingSentLate
<1>1. ASSUME IInv, [Next]_vars, NEW c \in Clients, call[c].late, call'[c].stage # "idle"
      PROVE  call'[c].late /\ call'[c].written <= call[c].written
  <2>1. Types /\ CallsOK /\ InCall(c, call[c], link[c]) /\ call[c].stage # "idle"
        /\ call[c].written \in Nat
    BY <1>1, CallFields, Sizes DEF IInv, CallsOK, InCall, Types
  <2>2. ASSUME NEW d \in Clients,
               Send(d) \/ Command(d) \/ ClientStep(d) \/ Expire(d) \/ Exit(d)
        PROVE  call'[c].late /\ call'[c].written <= call[c].written
    <3>1. ASSUME NEW m, call' = [call EXCEPT ![d] = m], d # c
          PROVE  call'[c].late /\ call'[c].written <= call[c].written
      BY <1>1, <2>1, <3>1 DEF Types
    <3>2. ASSUME NEW m, call' = [call EXCEPT ![d] = m], d = c
          PROVE  call'[c] = m
      BY <2>1, <3>2 DEF Types
    <3>3. CASE Send(d) \/ Command(d)
      <4>1. PICK m \in Call : call' = [call EXCEPT ![d] = m] /\ call[d].stage = "idle"
        BY <2>1, <3>3, SendBegins
      <4> QED BY <2>1, <3>1, <4>1
    <3>4. CASE Fail(d)
      <4>1. PICK m \in Call : call' = [call EXCEPT ![d] = m] /\ m.stage = "idle"
        BY <2>1, <3>4, Fails
      <4> QED BY <1>1, <3>1, <3>2, <4>1
    <3>5. CASE RequestFails(d) /\ ~Fail(d)
      <4>1. PICK m \in Call : /\ call' = [call EXCEPT ![d] = m]
                              /\ m.written = 0 /\ (m.late <=> call[d].late)
        BY <2>1, <3>5, Retries
      <4> QED BY <1>1, <2>1, <3>1, <3>2, <4>1
    <3>6. CASE Connect(d)
      <4>1. PICK m \in Call : /\ call' = [call EXCEPT ![d] = m]
                              /\ m.written = call[d].written /\ (m.late <=> call[d].late)
        BY <2>1, <3>6, Connects DEF Connected
      <4> QED BY <1>1, <2>1, <3>1, <3>2, <4>1
    <3>7. CASE Write(d)
      <4>1. InCall(d, call[d], link[d]) /\ call[d].stage = "write" /\ ~call[d].late
        BY <2>1, <3>7 DEF CallsOK, Write
      <4>2. link[d] \in Conns /\ <<d, call[d].n>> \in Events
        BY <2>1, <4>1 DEF InCall, Types
      <4>3. PICK m \in Call : call' = [call EXCEPT ![d] = m]
        BY <2>1, <3>7, <4>2, Writes DEF Wrote
      <4> QED BY <1>1, <3>1, <4>1, <4>3
    <3>8. CASE ReadAnswer(d) /\ ~Fail(d)
      <4>1. link[d] \in Conns
        BY <2>1, <3>8 DEF CallsOK, InCall, ReadAnswer, Types
      <4>2. PICK m \in Call : call' = [call EXCEPT ![d] = m] /\ m.stage = "idle"
        BY <2>1, <3>8, <4>1, Reads DEF GotAnswer
      <4> QED BY <1>1, <3>1, <3>2, <4>2
    <3>9. CASE Expire(d)
      <4>1. PICK m \in Call : /\ call' = [call EXCEPT ![d] = m]
                              /\ m.written = call[d].written /\ m.late
        BY <2>1, <3>9, Expires
      <4> QED BY <1>1, <2>1, <3>1, <3>2, <4>1
    <3>10. CASE Exit(d)
      BY <1>1, <2>1, <3>10 DEF Exit
    <3> QED BY <2>2, <3>3, <3>4, <3>5, <3>6, <3>7, <3>8, <3>9, <3>10
            DEF ClientStep, ConnectFails
  <2>3. CASE UNCHANGED call
    BY SMTT(30), <1>1, <2>1, <2>3
  <2>4. CASE MainThread \/ (\E k \in Conns : Thread(k)) \/ DaemonEnds \/ DaemonStarts
             \/ UNCHANGED vars
    BY <2>3, <2>4 DEF MainThread, Thread, Accept, Acquire, Reject, SpawnThread, ReadSome, ReadEnd,
       ReadTimeout, HandleLine, Answer, AnswerFails, DaemonEnds, DaemonStarts, threadVars,
       clientVars, vars
  <2> QED BY <1>1, <2>2, <2>4 DEF Next
<1>2. IInv /\ [Next]_vars
        => [\A c \in Clients : call[c].late /\ call'[c].stage # "idle"
              => call'[c].late /\ call'[c].written <= call[c].written]_vars
  BY <1>1
<1> QED BY <1>2, Invariant, PTL DEF Spec, NothingSentLate
=============================================================================
