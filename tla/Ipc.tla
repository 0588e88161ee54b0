-------------------------------- MODULE Ipc --------------------------------
(***************************************************************************)
(* The request path between the programs that send events and the daemon:  *)
(* the client library (awob-client: Client, ReconnectingClient and their   *)
(* bounded transport) on one side, the accept loop, the connection limiter *)
(* and the connection threads of the daemon (ipc.rs) on the other, and the *)
(* stream sockets between them.                                            *)
(*                                                                         *)
(* A line on the wire is cut in two parts, written and read separately:    *)
(* the JSON text and the newline; text cut short is a line that is not a   *)
(* request.  Any deadline may pass at any time (Expire, ReadTimeout,       *)
(* AnswerFails), each process may end at any time, and the daemon may be   *)
(* started again.                                                          *)
(***************************************************************************)
EXTENDS Integers, Sequences, FiniteSets, SequencesExt

CONSTANTS Listeners,        \* programs with a ReconnectingClient
          Tools,            \* programs with a Client, or with neither
          ToolLines,        \* what these send (a bound)
          MaxConns,         \* connections that may exist at a time (a bound)
          MaxConnections,   \* MAX_CONNECTIONS
          MaxEvents,        \* calls per program (a bound)
          MaxStarts         \* starts of the daemon (a bound)

Clients == Listeners \cup Tools
Conns   == 1..MaxConns
NoConn  == 0

\* The kind of response each request is answered with, in the wire protocol:
\* every request that changes something is answered with Ok.
Response == [hello |-> "hello", send |-> "ok", query |-> "query", set_theme |-> "ok",
             theme_list |-> "theme_list", set_force_palette |-> "ok",
             reload |-> "ok", version |-> "version"]

\* What a line is: the SDK always encodes a request, other programs may not.
LineKinds(c) == IF c \in Listeners THEN {"send"}
                ELSE ToolLines

\* An event: the program that sends it and the number of the call.
Events == UNION {{<<c, n>> : n \in 1..MaxEvents[c]} : c \in Clients}

ASSUME IpcAssumption == /\ ToolLines \subseteq DOMAIN Response \cup {"bad", "blank", "binary", "huge"}
                        /\ MaxConnections \in Nat \ {0}
                        /\ MaxConns \in Nat /\ MaxStarts \in Nat
                        /\ MaxEvents \in [Clients -> Nat]

VARIABLES
  call,       \* per program: the call in progress
  link,       \* per program: its connection (ReconnectingClient.client)
  conn,       \* per connection: both ends and the bytes between them
  backlog,    \* connections that wait in the listening socket
  accept,     \* the main thread in the accept loop
  active,     \* ConnectionLimiter.active
  daemon,     \* whether the process is up, and how often it was started
  runs        \* per event: how often the handler ran it

vars == <<call, link, conn, backlog, accept, active, daemon, runs>>

NewLine == 2                                  \* the parts of a line
LineOf(e, x) == [p \in 1..NewLine |-> [event |-> e, kind |-> x, part |-> p]]

\* A connection: the state of the daemon's end, whether the client's end is
\* open, the bytes on their way up and those of the line being read, the
\* answer being written and the answers on their way down.
Unused == [at |-> "unused", open |-> FALSE, up |-> <<>>, line |-> <<>>,
           reply |-> <<>>, down |-> <<>>]

Idle == [stage |-> "idle", n |-> 0, ok |-> FALSE, kind |-> "send", written |-> 0, late |-> FALSE, retried |-> FALSE]

Free(k)   == conn[k].at = "unused"
Served(k) == conn[k].at \in {"admitted", "reading", "handling", "answering"}

\* A connection is gone when both ends are closed.
Ended(r) == IF r.at = "closed" /\ ~r.open THEN Unused ELSE r

\* The client's end is shut down or dropped; what was written stays readable.
HangUp(k) == [conn EXCEPT ![k] = Ended([@ EXCEPT !.open = FALSE, !.down = <<>>])]

Init == /\ call = [c \in Clients |-> Idle]
        /\ link = [c \in Clients |-> NoConn]
        /\ conn = [k \in Conns |-> Unused]
        /\ backlog = <<>>
        /\ accept = [stage |-> "accept", conn |-> NoConn, count |-> 0]
        /\ active = 0
        /\ daemon = [up |-> TRUE, starts |-> 1]
        /\ runs = [e \in Events |-> 0]

-----------------------------------------------------------------------------
(* The client library.                                                     *)

daemonVars == <<backlog, accept, active, daemon, runs>>

\* A call begins, with its deadline.
Begin(c, x, stage) ==
  /\ call[c].stage = "idle" /\ call[c].n < MaxEvents[c]
  /\ call' = [call EXCEPT ![c] = [Idle EXCEPT !.n = call[c].n + 1, !.kind = x, !.stage = stage]]
  /\ UNCHANGED <<link, conn, daemonVars>>

\* ReconnectingClient::send: a connection left by an earlier event is used again.
Send(c) == c \in Listeners /\ Begin(c, "send", IF link[c] = NoConn THEN "connect" ELSE "write")

\* The awob command connects for each call; a program may call again.
Command(c) == /\ c \in Tools
              /\ \E x \in LineKinds(c) : Begin(c, x, IF link[c] = NoConn THEN "connect" ELSE "write")

\* What a failure leaves.  A ReconnectingClient forgets its connection after
\* every error.  A Client shuts its stream down, except after an error the
\* daemon reported: such a client is of no use and its program takes another.
Return(c, ok) == call' = [call EXCEPT ![c] = [Idle EXCEPT !.n = call[c].n, !.ok = ok]]

Fail_Keeps(c) == Return(c, FALSE) /\ UNCHANGED <<link, conn, daemonVars>>     \* mutant
Fail(c) ==
  /\ Return(c, FALSE)
  /\ conn' = IF link[c] = NoConn THEN conn ELSE HangUp(link[c])
  /\ link' = [link EXCEPT ![c] = NoConn]
  /\ UNCHANGED daemonVars

\* Client::connect_to.
Connect(c) ==
  /\ call[c].stage = "connect" /\ daemon.up
  /\ \E k \in Conns :
       /\ Free(k) /\ \A j \in 1..(k - 1) : ~Free(j)
       /\ conn' = [conn EXCEPT ![k] = [Unused EXCEPT !.at = "backlog", !.open = TRUE]]
       /\ link' = [link EXCEPT ![c] = k]
       /\ backlog' = Append(backlog, k)
  /\ call' = [call EXCEPT ![c].stage = "write"]
  /\ UNCHANGED <<accept, active, daemon, runs>>

ConnectFails(c) == call[c].stage = "connect" /\ ~daemon.up /\ Fail(c)

\* One write of the DeadlineWriter: some of the bytes, or all.
Write(c) ==
  LET k == link[c]
      sent == call[c].written
  IN /\ call[c].stage = "write" /\ ~call[c].late /\ conn[k].at # "closed" /\ conn[k].open
     /\ \E n \in 1..(NewLine - sent) :
          /\ conn' = [conn EXCEPT ![k].up = @ \o SubSeq(LineOf(<<c, call[c].n>>, call[c].kind), sent + 1, sent + n)]
          /\ call' = [call EXCEPT ![c].written = @ + n,
                                  ![c].stage = IF sent + n = NewLine THEN "read" ELSE "write"]
     /\ UNCHANGED <<link, daemonVars>>

RetrySafe_Always(c) == TRUE                \* mutant: a lost answer too
\* Only a failure before the first byte allows a second attempt.
RetrySafe(c) == call[c].stage = "write" /\ call[c].written = 0

Attempt_Fresh(c) == [call[c] EXCEPT !.stage = "connect", !.written = 0, !.retried = TRUE, !.late = FALSE] \* mutant
\* ReconnectingClient::send tries once more, under the deadline of the call.
Attempt(c) == [call[c] EXCEPT !.stage = "connect", !.written = 0, !.retried = TRUE]

\* A write or a read fails: the deadline is over, or the daemon's end is
\* closed and there is nothing left to read.
Broken(c) ==
  LET k == link[c] IN
  \/ call[c].late
  \/ conn[k].at = "closed" /\ (call[c].stage = "read" => conn[k].down = <<>>)

RequestFails(c) ==
  /\ call[c].stage \in {"write", "read"} /\ Broken(c)
  /\ IF c \in Listeners /\ RetrySafe(c) /\ ~call[c].retried
     THEN /\ call' = [call EXCEPT ![c] = Attempt(c)]
          /\ conn' = HangUp(link[c])
          /\ link' = [link EXCEPT ![c] = NoConn]
          /\ UNCHANGED daemonVars
     ELSE Fail(c)

\* What the operations of Client expect of an answer: the response of their
\* request and no other.
Expected(x, a) == x \in DOMAIN Response /\ a = Response[x]

\* A whole line is read.  An error of the daemon leaves a Client connected, and
\* so does an answer of the wrong kind.
ReadAnswer(c) ==
  LET k == link[c]
      a == Head(conn[k].down)
  IN /\ call[c].stage = "read" /\ ~call[c].late /\ conn[k].down # <<>>
     /\ IF Expected(call[c].kind, a) \/ c \notin Listeners
        THEN /\ Return(c, Expected(call[c].kind, a))
             /\ conn' = [conn EXCEPT ![k].down = Tail(@)]
             /\ UNCHANGED <<link, daemonVars>>
        ELSE Fail(c)

\* The deadline of a call passes.
Expire(c) ==
  /\ call[c].stage # "idle" /\ ~call[c].late
  /\ call' = [call EXCEPT ![c].late = TRUE]
  /\ UNCHANGED <<link, conn, daemonVars>>

\* A program ends between two calls; to the daemon one that ends in a call
\* looks like one whose deadline has passed.
Exit(c) ==
  /\ call[c].stage = "idle" /\ link[c] # NoConn
  /\ conn' = HangUp(link[c])
  /\ link' = [link EXCEPT ![c] = NoConn]
  /\ UNCHANGED <<call, daemonVars>>

-----------------------------------------------------------------------------
(* The daemon.                                                             *)

clientVars == <<call, link>>

\* The main thread: accept, then ConnectionLimiter::try_acquire, a load and
\* compare-exchanges until one succeeds or the limit is reached.
Tried(k) == IF active >= MaxConnections THEN [stage |-> "reject", conn |-> k, count |-> 0]
            ELSE [stage |-> "acquire", conn |-> k, count |-> active]

Accept ==
  /\ daemon.up /\ accept.stage = "accept" /\ backlog # <<>>
  /\ accept' = Tried(Head(backlog))
  /\ backlog' = Tail(backlog)
  /\ UNCHANGED <<clientVars, conn, active, daemon, runs>>

Acquire ==
  /\ daemon.up /\ accept.stage = "acquire"
  /\ IF active = accept.count
     THEN /\ active' = active + 1
          /\ accept' = [accept EXCEPT !.stage = "spawn", !.count = 0]
          /\ conn' = [conn EXCEPT ![accept.conn].at = "admitted"]
     ELSE /\ accept' = Tried(accept.conn)
          /\ UNCHANGED <<active, conn>>
  /\ UNCHANGED <<clientVars, backlog, daemon, runs>>

\* The daemon's end is dropped; a line the client had not read stays.
Closed(r) == Ended([r EXCEPT !.at = "closed", !.up = <<>>, !.line = <<>>, !.reply = <<>>])

Listening == [stage |-> "accept", conn |-> NoConn, count |-> 0]

\* reject_connection: one answer, tried for a tenth of a second.  A peer that
\* does not get it finds its connection closed, as after AnswerFails.
Reject ==
  /\ daemon.up /\ accept.stage = "reject"
  /\ conn' = [conn EXCEPT ![accept.conn] =
                Closed([@ EXCEPT !.down = IF conn[accept.conn].open THEN <<"error">> ELSE <<>>])]
  /\ accept' = Listening
  /\ UNCHANGED <<clientVars, backlog, active, daemon, runs>>

\* The thread that serves a connection ends: its permit is dropped with it.
Leave(k, r) == /\ conn' = [conn EXCEPT ![k] = Closed(r)]
               /\ active' = active - 1

SpawnThread_Leaks ==                     \* mutant: the permit of a failed spawn is lost
  /\ daemon.up /\ accept.stage = "spawn"
  /\ \/ conn' = [conn EXCEPT ![accept.conn].at = "reading"]
     \/ conn' = [conn EXCEPT ![accept.conn] = Closed(@)]
  /\ accept' = Listening
  /\ UNCHANGED <<clientVars, backlog, active, daemon, runs>>
SpawnThread ==
  /\ daemon.up /\ accept.stage = "spawn"
  /\ \/ conn' = [conn EXCEPT ![accept.conn].at = "reading"] /\ UNCHANGED active
     \/ Leave(accept.conn, conn[accept.conn])           \* the spawn fails
  /\ accept' = Listening
  /\ UNCHANGED <<clientVars, backlog, daemon, runs>>

threadVars == <<clientVars, backlog, accept, daemon>>

\* read_request: some bytes arrive, up to a newline.  Idle connections wait
\* without end; the deadline starts with the first byte.  A line that grows
\* beyond MAX_LINE_BYTES ends the read.
ReadSome(k) ==
  /\ conn[k].at = "reading" /\ conn[k].up # <<>>
  /\ \E n \in 1..Len(conn[k].up) :
       LET got  == SubSeq(conn[k].up, 1, n)
           line == conn[k].line \o got
       IN /\ \A i \in 1..(n - 1) : got[i].part # NewLine
          /\ conn' = [conn EXCEPT ![k].up = SubSeq(@, n + 1, Len(@)), ![k].line = line,
                ![k].at = IF Last(got).part = NewLine \/ line[1].kind = "huge"
                          THEN "handling" ELSE "reading"]
  /\ UNCHANGED <<active, runs, threadVars>>

\* The peer has hung up: what was read is taken for a line, without newline.
ReadEnd(k) ==
  /\ conn[k].at = "reading" /\ conn[k].up = <<>> /\ ~conn[k].open
  /\ IF conn[k].line = <<>> THEN Leave(k, conn[k])
     ELSE conn' = [conn EXCEPT ![k].at = "handling"] /\ UNCHANGED active
  /\ UNCHANGED <<runs, threadVars>>

ReadTimeout_Idle(k) == conn[k].at = "reading" /\ conn[k].line = <<>> /\ Leave(k, conn[k])   \* mutant
                       /\ UNCHANGED <<runs, threadVars>>
ReadTimeout(k) ==
  /\ conn[k].at = "reading" /\ conn[k].line # <<>>
  /\ Leave(k, conn[k])
  /\ UNCHANGED <<runs, threadVars>>

\* What serve_connection makes of a line; the newline is not part of it.
Verdict(line) == line[1].kind

Replying(k, a, v) == [conn EXCEPT ![k].at = "answering", ![k].line = <<>>, ![k].reply = <<a, v>>]

\* One line of a connection: the handler runs it, or it is refused.
HandleLine(k) ==
  LET line == conn[k].line
      v    == Verdict(line)
  IN /\ conn[k].at = "handling"
     /\ CASE v = "blank"  -> conn' = [conn EXCEPT ![k].at = "reading", ![k].line = <<>>] /\ UNCHANGED <<active, runs>>
          [] v = "binary" -> Leave(k, conn[k]) /\ UNCHANGED runs
          [] v \in {"bad", "huge"} -> /\ conn' = Replying(k, "error", v)
                                      /\ UNCHANGED <<active, runs>>
          [] OTHER -> /\ conn' = Replying(k, Response[v], v)
                      /\ runs' = [runs EXCEPT ![line[1].event] = @ + 1]
                      /\ UNCHANGED active
     /\ UNCHANGED threadVars

\* write_with_deadline succeeds.  After a line that was too long the
\* connection is closed all the same.
Answer(k) ==
  /\ conn[k].at = "answering" /\ conn[k].open
  /\ LET r == [conn[k] EXCEPT !.at = "reading", !.reply = <<>>, !.down = Append(@, conn[k].reply[1])]
     IN IF conn[k].reply[2] = "huge" THEN Leave(k, r)
        ELSE conn' = [conn EXCEPT ![k] = r] /\ UNCHANGED active
  /\ UNCHANGED <<runs, threadVars>>

\* It fails, the peer gone or slow.  A part of the line is for the peer what no
\* line is: the end of the connection.
AnswerFails(k) ==
  /\ conn[k].at = "answering"
  /\ Leave(k, conn[k])
  /\ UNCHANGED <<runs, threadVars>>

Thread(k) == /\ daemon.up
             /\ \/ ReadSome(k) \/ ReadEnd(k) \/ ReadTimeout(k)
                \/ HandleLine(k) \/ Answer(k) \/ AnswerFails(k)

\* The process ends, at any point, and is started again.
DaemonEnds ==
  /\ daemon.up /\ daemon.starts < MaxStarts
  /\ daemon' = [daemon EXCEPT !.up = FALSE]
  /\ conn' = [k \in Conns |-> IF Free(k) THEN conn[k] ELSE Closed(conn[k])]
  /\ backlog' = <<>> /\ accept' = Listening /\ active' = 0
  /\ UNCHANGED <<clientVars, runs>>

DaemonStarts ==
  /\ ~daemon.up
  /\ daemon' = [up |-> TRUE, starts |-> daemon.starts + 1]
  /\ UNCHANGED <<clientVars, conn, backlog, accept, active, runs>>

-----------------------------------------------------------------------------
ClientStep(c) == Connect(c) \/ ConnectFails(c) \/ Write(c) \/ RequestFails(c) \/ ReadAnswer(c)

MainThread == Accept \/ Acquire \/ Reject \/ SpawnThread

Next == \/ \E c \in Clients : Send(c) \/ Command(c) \/ ClientStep(c) \/ Expire(c) \/ Exit(c)
        \/ MainThread
        \/ \E k \in Conns : Thread(k)
        \/ DaemonEnds \/ DaemonStarts

\* The threads of the daemon run, and their timeouts end; no program need do
\* anything at all.
Fairness == \A k \in Conns : WF_vars(Thread(k))

Spec == Init /\ [][Next]_vars /\ Fairness

-----------------------------------------------------------------------------
\* No event is run twice, whatever is lost: not when the answer is late, the
\* daemon ends between the handler and the answer, or a line arrives without
\* its newline (ReconnectingClient::send's at-most-once promise).
AtMostOnce == \A e \in Events : runs[e] <= 1

\* Answers carry no number: a call that returns Ok must have read the answer
\* to its own line and no earlier one, so the daemon ran that event.
OkMeansRun == \A c \in Clients : call[c].ok => runs[<<c, call[c].n>>] = 1

\* The limiter counts the connections that are served, on every path out of
\* a thread, failed spawns included, and never more than the limit
\* (ConnectionLimiter, ConnectionPermit::drop).
PermitsAgree == /\ active = Cardinality({k \in Conns : Served(k)})
                /\ active <= MaxConnections

\* No byte of a request leaves after the deadline of its call, in a second
\* attempt neither (one deadline for both attempts in ReconnectingClient::send).
NothingSentLate ==
  [][\A c \in Clients : call[c].late /\ call'[c].stage # "idle"
       => call'[c].late /\ call'[c].written <= call[c].written]_vars

Stuck(k) == /\ conn[k].at \in {"reading", "handling", "answering"}
            /\ ~conn[k].open \/ conn[k].line # <<>>

\* The permit of a connection whose peer is gone, or stays in the middle of
\* a line, comes back (the deadline of read_request and of the answer).
PermitsReturn ==
  \A k \in Conns : Stuck(k) ~> ~Stuck(k)

=============================================================================
