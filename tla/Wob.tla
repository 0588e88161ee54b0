-------------------------------- MODULE Wob --------------------------------
(***************************************************************************)
(* The listener that takes wob's place: it reads lines from a FIFO, in     *)
(* whatever pieces the kernel hands it, while writers come and go, and     *)
(* sends each as an event.  Three bytes are enough: a digit, a space and   *)
(* the newline.                                                            *)
(***************************************************************************)
EXTENDS Integers, Sequences, SequencesExt

CONSTANTS MaxLineBytes,  \* MAX_LINE_BYTES
          MaxWritten     \* bytes written in all (a bound)

ASSUME WobAssumption == MaxLineBytes \in Nat

Digit == "1"
Blank == " "
Newline == "nl"
EOF == "eof"             \* in `stream`: a read found no writer
Fault == "fault"         \* in `stream`: a read failed

VARIABLES
  fifo,    \* what the path names, the bytes in it, whether a writer has it open
  reader,  \* the listener's file: none, or its buffer and the line so far
  lines,   \* the lines it has made events of
  stream,  \* all it has read (a note for the property)
  client   \* whether it has a connection to the daemon

wobVars == <<fifo, reader, lines, stream, client>>

Closed == [at |-> "open", available |-> <<>>, line |-> <<>>, oversized |-> FALSE]
Fresh == [Closed EXCEPT !.at = "read"]

WobInit == /\ fifo \in [is : {"absent", "fifo", "other"}, bytes : {<<>>}, open : {FALSE}]
           /\ reader = [Closed EXCEPT !.at = "ensure"]
           /\ lines = <<>> /\ stream = <<>> /\ client = FALSE

\* The bound; a failed read counts as a byte.
Room == Len(SelectSeq(stream, LAMBDA b : b # EOF)) + Len(reader.available) + Len(fifo.bytes)
          < MaxWritten

Writes(byte) ==
  /\ fifo.open /\ Room
  /\ fifo' = [fifo EXCEPT !.bytes = Append(@, byte)]
  /\ UNCHANGED <<reader, lines, stream, client>>

\* A writer opens the FIFO once the listener has it open, or closes it.  Where
\* the listener has closed it in between, the kernel drops what is left in it.
WriterComesOrGoes ==
  /\ reader.at # "ensure" /\ fifo.is = "fifo"
  /\ \E left \in {fifo.bytes} \cup (IF fifo.open /\ reader.at = "open" THEN {<<>>} ELSE {}) :
       fifo' = [fifo EXCEPT !.open = ~@, !.bytes = left]
  /\ UNCHANGED <<reader, lines, stream, client>>

\* ensure_fifo: a path that is something else, or not private, ends the start.
EnsureFifo ==
  /\ reader.at = "ensure" /\ fifo.is # "other"
  /\ fifo' = [fifo EXCEPT !.is = "fifo"]
  /\ reader' = Closed
  /\ UNCHANGED <<lines, stream, client>>

\* open_fifo waits until there is something to read, or a writer has gone.
OpenFifo ==
  /\ reader.at = "open" /\ (fifo.bytes # <<>> \/ fifo.open)
  /\ reader' = Fresh
  /\ UNCHANGED <<fifo, lines, stream, client>>

-----------------------------------------------------------------------------
(* read_bounded_line.                                                      *)

\* fill_buf of an empty buffer: any first part of what the pipe holds.
FillBuf ==
  /\ reader.at = "read" /\ reader.available = <<>> /\ fifo.bytes # <<>>
  /\ \E n \in 1..Len(fifo.bytes) :
       /\ reader' = [reader EXCEPT !.available = SubSeq(fifo.bytes, 1, n)]
       /\ fifo' = [fifo EXCEPT !.bytes = SubSeq(@, n + 1, Len(@))]
  /\ UNCHANGED <<lines, stream, client>>

\* What there is up to a newline is taken, unless the line gets too long.
Takes_Each(line, oversized, part) ==            \* mutant: the limit is that of a part
  IF oversized \/ Len(part) > MaxLineBytes THEN [line |-> <<>>, oversized |-> TRUE]
  ELSE [line |-> line \o part, oversized |-> FALSE]
Takes(line, oversized, part) ==
  IF oversized \/ Len(part) > MaxLineBytes - Len(line) THEN [line |-> <<>>, oversized |-> TRUE]
  ELSE [line |-> line \o part, oversized |-> FALSE]

\* A line that is not blank (trim, parse_line) is tried as one event; without
\* a connection one is made, and a failure loses the event and the connection.
Tried(line, oversized) ==
  IF ~oversized /\ Contains(line, Digit)
  THEN lines' = Append(lines, line) /\ client' \in BOOLEAN
  ELSE UNCHANGED <<lines, client>>

\* The buffer holds no newline: all of it is consumed and more is read.
ReadPart ==
  /\ reader.at = "read" /\ reader.available # <<>> /\ ~Contains(reader.available, Newline)
  /\ LET took == Takes(reader.line, reader.oversized, reader.available)
     IN reader' = [Fresh EXCEPT !.line = took.line, !.oversized = took.oversized]
  /\ stream' = stream \o reader.available
  /\ UNCHANGED <<fifo, lines, client>>

\* It holds one: the line is complete.
ReadLine ==
  /\ reader.at = "read" /\ Contains(reader.available, Newline)
  /\ LET all  == reader.available
         end  == SelectInSeq(all, LAMBDA b : b = Newline)
         took == Takes(reader.line, reader.oversized, SubSeq(all, 1, end - 1))
     IN /\ reader' = [Fresh EXCEPT !.available = SubSeq(all, end + 1, Len(all))]
        /\ stream' = stream \o SubSeq(all, 1, end)
        /\ Tried(took.line, took.oversized)
  /\ UNCHANGED fifo

\* No writer and nothing left: what there is of a line counts as one, and the
\* read after it ends the file; it is opened again.
ReadEnd ==
  /\ reader.at = "read" /\ reader.available = <<>> /\ fifo.bytes = <<>> /\ ~fifo.open
  /\ IF reader.oversized \/ reader.line # <<>>
     THEN /\ Tried(reader.line, reader.oversized)
          /\ reader' = Fresh /\ stream' = Append(stream, EOF)
     ELSE reader' = Closed /\ UNCHANGED <<lines, stream, client>>
  /\ UNCHANGED fifo

\* A read fails: the line so far is lost, and the FIFO is opened again.
ReadFails ==
  /\ reader.at = "read" /\ reader.available = <<>> /\ Room
  /\ reader' = Closed /\ stream' = Append(stream, Fault)
  /\ fifo' = [fifo EXCEPT !.bytes = IF fifo.open THEN @ ELSE <<>>]
  /\ UNCHANGED <<lines, client>>

WobNext == \/ \E byte \in {Digit, Blank, Newline} : Writes(byte)
           \/ WriterComesOrGoes \/ EnsureFifo \/ OpenFifo
           \/ FillBuf \/ ReadPart \/ ReadLine \/ ReadEnd \/ ReadFails

-----------------------------------------------------------------------------
\* The lines of what was read: an end of line stands for the text between it
\* and the end before it, if that is not too long and says something; what a
\* failed read ends is lost.
Ends(bytes) == {i \in DOMAIN bytes : bytes[i] \in {Newline, EOF, Fault}}
Begins(bytes, k, i) == /\ k = 1 \/ k - 1 \in Ends(bytes)
                       /\ \A j \in k..(i - 1) : j \notin Ends(bytes)
Text(bytes, i) == SubSeq(bytes, CHOOSE k \in 1..i : Begins(bytes, k, i), i - 1)
LinesOf(bytes) ==
  {i \in Ends(bytes) : bytes[i] # Fault /\ Len(Text(bytes, i)) <= MaxLineBytes /\ Contains(Text(bytes, i), Digit)}

\* However the kernel cuts the stream and whenever writers come and go, the
\* events are the lines of what was read, in order, none of them cut but where
\* a read fails, none joined or longer than the limit, and a long line takes
\* none of the next with it.
EventsAreLines ==
  LET all == LinesOf(stream)
  IN /\ Len(lines) = Cardinality(all)
     /\ \A i \in all : lines[Cardinality({j \in all : j <= i})] = Text(stream, i)
=============================================================================
