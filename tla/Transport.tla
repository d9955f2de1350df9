------------------------------ MODULE Transport -------------------------------
(***************************************************************************)
(* The USB transport of hot reload: USBTransporter, ClientImpl, ReaderImpl *)
(* with DecoderImpl, and WriterImpl.                                       *)
(*                                                                         *)
(* The plugin connects, sends commands and may disconnect at any time; the *)
(* accepting thread reads each connection to its end and accepts the next. *)
(* A connection brings a runnable that writes; the pool has one thread for *)
(* it, so the writer of the last connection runs before that of the next.  *)
(* Decoder and queue belong to the client and outlive the connections.     *)
(*                                                                         *)
(* Bytes are counted, not told apart: the commands are numbered, and the   *)
(* decoder holds the bytes between two points of the stream.               *)
(***************************************************************************)
EXTENDS Integers, Sequences, FiniteSets, FiniteSetsExt

CONSTANTS
  Kinds,            \* kinds of commands
  Size,             \* [Kinds -> Nat]: header, body and end mark, in bytes
  Pings,            \* kinds whose header is never read (MAGIC_PING, MAGIC_PONG)
  Unknown,          \* kinds PBMessageFactory knows no type for
  HeaderLength,     \* HEADER_LENGTH_MESSAGE (9)
  MaxCommands,      \* bound: commands sent
  MaxLogs,          \* bound: messages written
  MaxConnections    \* bound: connections accepted

ASSUME TransportAssumption ==
  /\ HeaderLength \in Nat \ {0}
  /\ Pings \subseteq Kinds /\ Unknown \subseteq Kinds /\ Pings \cap Unknown = {}
  /\ Size \in [Kinds -> Nat \ {0}]
  /\ \A k \in Kinds \ Pings : Size[k] > HeaderLength
  /\ MaxCommands \in Nat /\ MaxLogs \in Nat /\ MaxConnections \in Nat

VARIABLES
  sent,        \* commands of the stream: kind, and the byte they end at
  got,         \* bytes of the stream received
  consumed,    \* rawData begins behind this command
  delivered,   \* the commands handed to the listener
  reached,     \* the highest of them
  split,       \* a read ended inside the header of a command
  garbled,     \* rawData holds part of a command that was cut off
  stopped,     \* isStopped
  acceptor,    \* the thread of run(): "accept", "connected", "read", "ended"
  connection,  \* the number of the last connection
  up,          \* that connection is up
  output,      \* the connection output writes to, 0 for null
  pending,     \* writer runnables that wait for the pool's thread
  writer,      \* that thread: where it is, and the message it took
  queue,       \* msgQueue
  logs,        \* messages put into it
  arrived      \* messages the plugin received

decoder == <<got, consumed, delivered, reached, split>>
link == <<stopped, acceptor, connection, up>>
writing == <<output, pending, writer, queue, logs, arrived>>
vars == <<sent, decoder, garbled, link, writing>>

Commands == [kind : Kinds, end : Nat]
EndOf(k) == IF k = 0 THEN 0 ELSE sent[k].end

TypeOK ==
  /\ sent \in Seq(Commands) /\ got \in Nat /\ consumed \in 0 .. Len(sent)
  /\ delivered \in Seq(Nat) /\ reached \in 0 .. Len(sent)
  /\ split \in BOOLEAN /\ garbled \in BOOLEAN
  /\ stopped \in BOOLEAN /\ up \in BOOLEAN
  /\ acceptor \in {"accept", "connected", "read", "ended"}
  /\ connection \in 0 .. MaxConnections
  /\ output \in 0 .. connection /\ pending \in 0 .. MaxConnections
  /\ writer \in [at : {"idle", "take", "write", "end"}, data : 0 .. MaxLogs]
  /\ queue \in Seq(1 .. MaxLogs) /\ logs \in 0 .. MaxLogs /\ arrived \in Seq(1 .. MaxLogs)

Idle == [at |-> "idle", data |-> 0]

Init ==
  /\ sent = <<>> /\ got = 0 /\ consumed = 0 /\ delivered = <<>> /\ reached = 0
  /\ split = FALSE /\ garbled = FALSE
  /\ stopped = FALSE /\ acceptor = "accept" /\ connection = 0 /\ up = FALSE
  /\ output = 0 /\ pending = 0 /\ writer = Idle
  /\ queue = <<>> /\ logs = 0 /\ arrived = <<>>

-------------------------------------------------------------------------------
(* The accepting thread.                                                   *)

\* accept() returns.  A stopped transport notices after one more connection.
Accept ==
  /\ acceptor = "accept" /\ connection < MaxConnections
  /\ acceptor' = "connected" /\ connection' = connection + 1 /\ up' = TRUE
  /\ UNCHANGED <<sent, decoder, garbled, stopped, writing>>

\* output is set and the writer is handed to the pool.
Fault_Connected ==
  /\ acceptor = "connected"
  /\ output' = connection /\ pending' = pending - 1
  /\ acceptor' = "read"
  /\ UNCHANGED <<sent, decoder, garbled, stopped, connection, up, writer, queue, logs, arrived>>
Connected ==
  /\ acceptor = "connected"
  /\ output' = connection /\ pending' = pending + 1
  /\ acceptor' = "read"
  /\ UNCHANGED <<sent, decoder, garbled, stopped, connection, up, writer, queue, logs, arrived>>

\* read() returns at the end of the connection, or between two reads once the
\* transport is stopped; run() accepts again unless it is stopped.
EndOfConnection ==
  /\ acceptor = "read" /\ (~up \/ stopped)
  /\ acceptor' = IF stopped THEN "ended" ELSE "accept"
  /\ UNCHANGED <<sent, decoder, garbled, stopped, connection, up, writing>>

Stop == ~stopped /\ stopped' = TRUE
        /\ UNCHANGED <<sent, decoder, garbled, acceptor, connection, up, writing>>

-------------------------------------------------------------------------------
(* The plugin.                                                             *)

\* Of 1 .. m, how many come before the first in S.
Before(S, m) == Min(S \cup {m + 1}) - 1

\* Commands received in full once n bytes have been.
Complete(n) == Before({k \in DOMAIN sent : sent[k].end > n}, Len(sent))
Leftover == got > EndOf(Complete(got))

Send(kind) ==
  /\ up /\ Len(sent) < MaxCommands
  /\ sent' = Append(sent, [kind |-> kind, end |-> EndOf(Len(sent)) + Size[kind]])
  /\ UNCHANGED <<decoder, garbled, link, writing>>

\* The connection breaks.  What was under way is lost, and what the decoder
\* holds of a command stays in rawData.
Disconnect ==
  /\ up /\ up' = FALSE
  /\ sent' = SubSeq(sent, 1, Complete(got))
  /\ garbled' = (garbled \/ Leftover)
  /\ UNCHANGED <<decoder, stopped, acceptor, connection, writing>>

-------------------------------------------------------------------------------
(* A read: DecoderImpl.push.                                               *)

\* unpackInt reads behind the end of a header that has not arrived in full.
PartialHeader(k, bytes) ==
  bytes \in 1 .. (HeaderLength - 1) /\ sent[k].kind \notin Pings

\* The commands behind rawData's beginning that the factory rejects; the first
\* of them ends the decoding.
Rejected(m) == {k \in (consumed + 1) .. m : sent[k].kind \in Unknown}
LastDecoded(m) == Before(Rejected(m), m)

\* Whether decodeMessage throws: rawData then stays as it was merged.
Throws(m, n) ==
  \/ Rejected(m) # {}
  \/ n > EndOf(m) /\ PartialHeader(m + 1, n - EndOf(m))

\* (Fault_ operators are the plausible mistakes the properties are tried
\* against; no action uses them.)
Fault_HandOver(j) ==
  LET last == IF j > consumed THEN consumed + 1 ELSE j
  IN  /\ delivered' = delivered \o [k \in 1 .. (last - consumed) |-> consumed + k]
      /\ reached' = IF last > reached THEN last ELSE reached
\* The commands behind rawData's beginning, up to j, reach the listener.
HandOver(j) ==
  /\ delivered' = delivered \o [k \in 1 .. (j - consumed) |-> consumed + k]
  /\ reached' = IF j > reached THEN j ELSE reached

Fault_Rest(m, n) == IF n > EndOf(m) THEN m + 1 ELSE m
\* The commands rawData begins behind, after the bytes up to n are decoded.
Rest(m, n) == IF Throws(m, n) THEN consumed ELSE m

\* Once a command was cut off, the bytes of the next connection follow its
\* bytes and headers are read where there are none: from there on the decoder
\* is not followed.
Receive(bytes) ==
  LET n == got + bytes
      m == Complete(n)
  IN  /\ acceptor = "read" /\ up /\ ~garbled
      /\ n <= EndOf(Len(sent))
      /\ got' = n
      /\ HandOver(LastDecoded(m))
      /\ consumed' = Rest(m, n)
      /\ split' = (split \/ (Throws(m, n) /\ Rejected(m) = {}))
      /\ UNCHANGED <<sent, garbled, link, writing>>

-------------------------------------------------------------------------------
(* The writer.                                                             *)

\* writeData, from HotReloadServer.log, error and the bridge.
WriteLog ==
  /\ logs < MaxLogs
  /\ logs' = logs + 1 /\ queue' = Append(queue, logs + 1)
  /\ UNCHANGED <<sent, decoder, garbled, link, output, pending, writer, arrived>>

\* The loop condition of write(); past it, take() blocks.
Again == [at |-> IF stopped THEN "end" ELSE "take", data |-> 0]

WriterStart ==
  /\ writer.at = "idle" /\ pending > 0
  /\ pending' = pending - 1 /\ writer' = Again
  /\ UNCHANGED <<sent, decoder, garbled, link, output, queue, logs, arrived>>

WriterTake ==
  /\ writer.at = "take" /\ queue # <<>>
  /\ writer' = [at |-> "write", data |-> Head(queue)]
  /\ queue' = Tail(queue)
  /\ UNCHANGED <<sent, decoder, garbled, link, output, pending, logs, arrived>>

Fault_WriterWrites ==
  /\ writer.at = "write" /\ output = connection /\ output # 0 /\ up
  /\ arrived' = Append(arrived, writer.data)
  /\ writer' = [Idle EXCEPT !.at = "end"]
  /\ UNCHANGED <<sent, decoder, garbled, link, output, pending, queue, logs>>
\* Writing to the connection that is up.
WriterWrites ==
  /\ writer.at = "write" /\ output = connection /\ output # 0 /\ up
  /\ arrived' = Append(arrived, writer.data)
  /\ writer' = Again
  /\ UNCHANGED <<sent, decoder, garbled, link, output, pending, queue, logs>>

Fault_WriterLoses ==
  /\ writer.at = "write" /\ output # 0 /\ ~(output = connection /\ up)
  /\ writer' = [Idle EXCEPT !.at = "end"]
  /\ queue' = Append(queue, writer.data)
  /\ UNCHANGED <<sent, decoder, garbled, link, output, pending, logs, arrived>>
\* Writing to one that is not: the message is lost, and the write may fail.
WriterLoses ==
  /\ writer.at = "write" /\ output # 0 /\ ~(output = connection /\ up)
  /\ writer' \in {Again, [Idle EXCEPT !.at = "end"]}
  /\ UNCHANGED <<sent, decoder, garbled, link, output, pending, queue, logs, arrived>>

\* output is null: the runnable dies of it and the message is lost.
WriterDies ==
  /\ writer.at = "write" /\ output = 0
  /\ writer' = Idle
  /\ UNCHANGED <<sent, decoder, garbled, link, output, pending, queue, logs, arrived>>

\* write() has returned; output may be the next connection's by now.
WriterEnd ==
  /\ writer.at = "end"
  /\ output' = 0 /\ writer' = Idle
  /\ UNCHANGED <<sent, decoder, garbled, link, pending, queue, logs, arrived>>

-------------------------------------------------------------------------------
AcceptorStep == Connected \/ EndOfConnection
\* read() may block for as long as the connection is up, stopped or not.
AcceptorGoesOn == Connected \/ (~up /\ EndOfConnection)
Arrival == \E bytes \in 1 .. (EndOf(Len(sent)) - got) : Receive(bytes)
WriterStep == \/ WriterStart \/ WriterTake \/ WriterWrites \/ WriterLoses
              \/ WriterDies \/ WriterEnd

Next == \/ Accept \/ AcceptorStep \/ Stop
        \/ Disconnect \/ \E kind \in Kinds : Send(kind)
        \/ Arrival
        \/ WriteLog \/ WriterStep

Spec == Init /\ [][Next]_vars

\* The threads run, and what was sent arrives while the connection is up.
Fairness == WF_vars(AcceptorGoesOn) /\ WF_vars(WriterStep) /\ WF_vars(Arrival)
FairSpec == Spec /\ Fairness
-------------------------------------------------------------------------------
(* Properties                                                              *)

NoneRejected(k) == \A i \in 1 .. k : sent[i].kind \notin Unknown

\* However the bytes are cut into reads, and on whatever connection they come,
\* a command that has arrived in full has been handed to the listener, up to
\* the first one whose type is not known (DecoderImpl.java:38-74).
CompleteIsDelivered ==
  ~garbled => \A k \in 1 .. Complete(got) : NoneRejected(k) => k <= reached

\* Commands are handed over exactly once, in order, as long as no read ends
\* inside a header and every type is known: these are the two exceptions that
\* leave the decoded commands in rawData (DecoderImpl.java:45).
OnceUnlessSplit ==
  ~split /\ NoneRejected(Len(sent)) => delivered = [k \in 1 .. reached |-> k]

\* The plugin receives the messages in the order they were written and none
\* twice, through every disconnection (USBTransporter.java:102-127).
LogsInOrder ==
  \A i, j \in DOMAIN arrived : i < j => arrived[i] < arrived[j]

\* HotReloadServer.log prints to the remote console: what is written while
\* the first connection is up arrives, unless it breaks or is stopped.
LogsArrive ==
  \A n \in 1 .. MaxLogs :
    logs >= n /\ connection = 1 /\ up /\ ~stopped
      ~> (\E i \in DOMAIN arrived : arrived[i] = n) \/ ~up \/ stopped

\* Whatever is read again and again, the listener gets the commands as a
\* stream: in order and without a gap, replays apart.
Commands_ == INSTANCE Stream
ImplementsStream == Commands_!Spec
===============================================================================
