--------------------------- MODULE Transport_proofs ---------------------------
(***************************************************************************)
(* Safety of the transport for any number of commands, messages and        *)
(* connections, and whatever the sizes.                                    *)
(*                                                                         *)
(* The argument.  The two directions share no state but the connection.    *)
(* The messages that arrived, the one the writer took and the queue are    *)
(* one increasing sequence (Written), of which a connection that breaks    *)
(* only drops elements.  The decoder never is ahead of the stream: what it *)
(* consumed it handed over, and what it handed over has arrived in full    *)
(* (Behind), so a replay starts no later than where the listener stopped.  *)
(* Until the first connection breaks nothing of the first direction is     *)
(* dropped (NoneMissing) and its one writer is running or about to         *)
(* (WriterThere), so each message comes nearer.                            *)
(***************************************************************************)
EXTENDS Transport, SequenceTheorems, WellFoundedInduction, TLAPS

USE TransportAssumption

Increasing(s) == \A i, j \in DOMAIN s : i < j => s[i] < s[j]

WritingTypes ==
  /\ output \in 0 .. connection
  /\ pending \in Nat
  /\ pending + (IF acceptor = "connected" THEN 1 ELSE 0) <= connection
  /\ writer \in [at : {"idle", "take", "write", "end"}, data : 0 .. MaxLogs]
  /\ queue \in Seq(1 .. MaxLogs) /\ logs \in 0 .. MaxLogs /\ arrived \in Seq(1 .. MaxLogs)

LinkTypes ==
  /\ stopped \in BOOLEAN /\ up \in BOOLEAN
  /\ acceptor \in {"accept", "connected", "read", "ended"}
  /\ connection \in 0 .. MaxConnections

\* What arrived, what the writer took and what waits, up to the last message.
Written ==
  /\ Increasing(arrived) /\ Increasing(queue)
  /\ \A i \in DOMAIN arrived : arrived[i] <= logs
  /\ \A j \in DOMAIN queue : queue[j] <= logs
  /\ \A i \in DOMAIN arrived, j \in DOMAIN queue : arrived[i] < queue[j]
  /\ writer.at = "write" =>
       /\ writer.data \in 1 .. logs
       /\ \A i \in DOMAIN arrived : arrived[i] < writer.data
       /\ \A j \in DOMAIN queue : writer.data < queue[j]

WInv == LinkTypes /\ WritingTypes /\ Written

-------------------------------------------------------------------------------
(* The direction to the plugin.                                            *)

\* Nothing was written yet.
LEMMA WInvInit == Init => WInv
<1> SUFFICES ASSUME Init PROVE WInv
  OBVIOUS
<1>1. LinkTypes
  <2>1. stopped \in BOOLEAN /\ up \in BOOLEAN /\ acceptor = "accept" /\ connection = 0
    BY DEF Init
  <2> QED BY <2>1 DEF LinkTypes
<1>2. WritingTypes
  <2>1. queue \in Seq(1 .. MaxLogs) /\ arrived \in Seq(1 .. MaxLogs)
    BY DEF Init
  <2>2. writer \in [at : {"idle", "take", "write", "end"}, data : 0 .. MaxLogs]
    BY DEF Init, Idle
  <2>3. output \in 0 .. connection /\ pending \in Nat /\ logs \in 0 .. MaxLogs
        /\ acceptor # "connected" /\ pending <= connection
    BY DEF Init
  <2>4. pending + (IF acceptor = "connected" THEN 1 ELSE 0) <= connection
    BY <2>3 DEF Init
  <2> QED BY <2>1, <2>2, <2>3, <2>4 DEF WritingTypes
<1>3. DOMAIN queue = {} /\ DOMAIN arrived = {}
  BY DEF Init
<1>4. Written
  BY <1>3 DEF Init, Written, Increasing, Idle
<1> QED BY <1>1, <1>2, <1>4 DEF WInv

\* The steps of the other direction and of the connection.
LEMMA LinkStep ==
  WInv /\ (Accept \/ Connected \/ EndOfConnection \/ Stop \/ Disconnect \/ Arrival
           \/ \E kind \in Kinds : Send(kind)) => WInv'
<1> SUFFICES ASSUME WInv,
                    Accept \/ Connected \/ EndOfConnection \/ Stop \/ Disconnect \/ Arrival
                      \/ \E kind \in Kinds : Send(kind)
             PROVE  WInv'
  OBVIOUS
<1> USE DEF WInv, LinkTypes, WritingTypes
<1>1. UNCHANGED <<writer, queue, logs, arrived>>
  BY DEF Accept, Connected, EndOfConnection, Stop, Disconnect, Arrival, Receive, Send,
         writing, link
<1>2. Written'
  BY <1>1 DEF Written, Increasing
<1>3. (LinkTypes /\ WritingTypes)'
  <2>1. CASE Accept
    BY <2>1 DEF Accept, writing
  <2>2. CASE Connected
    BY <2>2 DEF Connected
  <2>3. CASE EndOfConnection
    BY <2>3 DEF EndOfConnection, writing
  <2>4. CASE Stop
    BY <2>4 DEF Stop, writing
  <2>5. CASE Disconnect
    BY <2>5 DEF Disconnect, writing
  <2>6. CASE Arrival \/ \E kind \in Kinds : Send(kind)
    BY <2>6 DEF Arrival, Receive, Send, writing, link
  <2> QED BY <2>1, <2>2, <2>3, <2>4, <2>5, <2>6
<1> QED BY <1>2, <1>3

\* A new message has a higher number than all before it.
LEMMA LogStep == WInv /\ WriteLog => WInv'
<1> SUFFICES ASSUME WInv, WriteLog PROVE WInv'
  OBVIOUS
<1> USE DEF WInv, LinkTypes, WritingTypes
<1>1. /\ logs + 1 \in 1 .. MaxLogs
      /\ logs' = logs + 1
      /\ queue' = Append(queue, logs + 1)
      /\ UNCHANGED <<link, output, pending, writer, arrived>>
  BY DEF WriteLog
<1>2. /\ queue' \in Seq(1 .. MaxLogs)
      /\ Len(queue') = Len(queue) + 1
      /\ \A i \in 1 .. Len(queue) : queue'[i] = queue[i]
      /\ queue'[Len(queue) + 1] = logs + 1
  BY <1>1, AppendProperties
<1>3. DOMAIN queue = 1 .. Len(queue) /\ DOMAIN queue' = 1 .. (Len(queue) + 1)
  BY <1>2, LenProperties
<1>4. \A i \in DOMAIN arrived : arrived[i] \in Nat
  BY ElementOfSeq, LenProperties
<1>5. \A i \in DOMAIN queue : queue[i] \in Nat
  BY ElementOfSeq, LenProperties
<1>6. Len(queue) \in Nat
  BY LenProperties
<1>7. Written'
  <2>1. Increasing(queue)'
    <3> SUFFICES ASSUME NEW i \in DOMAIN queue', NEW j \in DOMAIN queue', i < j
                 PROVE  queue'[i] < queue'[j]
      BY DEF Increasing
    <3>1. i \in DOMAIN queue /\ queue'[i] = queue[i]
      BY <1>2, <1>3, <1>6
    <3>2. CASE j \in DOMAIN queue
      BY <1>2, <1>3, <3>1, <3>2 DEF Written, Increasing
    <3>3. CASE j = Len(queue) + 1
      <4>1. queue[i] <= logs /\ queue[i] \in Nat
        BY <1>5, <3>1 DEF Written
      <4> QED BY <1>2, <3>1, <3>3, <4>1
    <3> QED BY <1>3, <1>6, <3>2, <3>3
  <2>2. (\A j \in DOMAIN queue : queue[j] <= logs)'
    BY <1>1, <1>2, <1>3, <1>5, <1>6 DEF Written
  <2>3. (\A i \in DOMAIN arrived : arrived[i] <= logs)'
    BY <1>1, <1>4 DEF Written
  <2>4. (\A i \in DOMAIN arrived, j \in DOMAIN queue : arrived[i] < queue[j])'
    BY <1>1, <1>2, <1>3, <1>4, <1>6 DEF Written
  <2>5. (writer.at = "write" =>
           /\ writer.data \in 1 .. logs
           /\ \A i \in DOMAIN arrived : arrived[i] < writer.data
           /\ \A j \in DOMAIN queue : writer.data < queue[j])'
    BY <1>1, <1>2, <1>3, <1>6 DEF Written
  <2>6. Increasing(arrived)'
    BY <1>1 DEF Written, Increasing
  <2> QED BY <2>1, <2>2, <2>3, <2>4, <2>5, <2>6 DEF Written
<1> QED BY <1>1, <1>2, <1>7 DEF link

\* The writer takes the lowest number of the queue.
LEMMA TakeStep == WInv /\ WriterTake => WInv'
<1> SUFFICES ASSUME WInv, WriterTake PROVE WInv'
  OBVIOUS
<1> USE DEF WInv, LinkTypes, WritingTypes
<1>1. /\ queue # <<>>
      /\ writer' = [at |-> "write", data |-> Head(queue)]
      /\ queue' = Tail(queue)
      /\ UNCHANGED <<link, output, pending, logs, arrived>>
  BY DEF WriterTake
<1>2. /\ Head(queue) = queue[1] /\ Head(queue) \in 1 .. MaxLogs
      /\ Tail(queue) \in Seq(1 .. MaxLogs)
      /\ Len(Tail(queue)) = Len(queue) - 1
      /\ \A i \in 1 .. Len(Tail(queue)) : Tail(queue)[i] = queue[i+1]
  BY <1>1, HeadTailProperties
<1>3. /\ Len(queue) \in Nat \ {0}
      /\ DOMAIN queue = 1 .. Len(queue) /\ DOMAIN queue' = 1 .. (Len(queue) - 1)
  BY <1>1, <1>2, LenProperties, EmptySeq
<1>4. 1 \in DOMAIN queue /\ \A i \in DOMAIN queue' : i + 1 \in DOMAIN queue /\ 1 < i + 1
  BY <1>3
<1>5. \A i \in DOMAIN queue' : queue'[i] = queue[i+1]
  BY <1>1, <1>2, <1>3
<1>6. Written'
  <2>1. Increasing(queue)'
    BY <1>3, <1>4, <1>5 DEF Written, Increasing
  <2>2. (\A j \in DOMAIN queue : queue[j] <= logs)'
    BY <1>1, <1>4, <1>5 DEF Written
  <2>3. (\A i \in DOMAIN arrived, j \in DOMAIN queue : arrived[i] < queue[j])'
    BY <1>1, <1>4, <1>5 DEF Written
  <2>4. queue[1] \in 1 .. logs
    <3>1. queue[1] \in 1 .. MaxLogs
      BY <1>2
    <3>2. queue[1] <= logs
      BY <1>4 DEF Written
    <3> QED BY <3>1, <3>2
  <2>5. \A j \in DOMAIN queue' : queue[1] < queue'[j]
    BY <1>4, <1>5 DEF Written, Increasing
  <2>6. (writer.at = "write" =>
           /\ writer.data \in 1 .. logs
           /\ \A i \in DOMAIN arrived : arrived[i] < writer.data
           /\ \A j \in DOMAIN queue : writer.data < queue[j])'
    BY <1>1, <1>2, <1>4, <2>4, <2>5 DEF Written
  <2> QED BY <1>1, <2>1, <2>2, <2>3, <2>6 DEF Written, Increasing
<1> QED BY <1>1, <1>2, <1>6 DEF link

\* What the writer holds is above all that arrived.
LEMMA WriteStep == WInv /\ WriterWrites => WInv'
<1> SUFFICES ASSUME WInv, WriterWrites PROVE WInv'
  OBVIOUS
<1> USE DEF WInv, LinkTypes, WritingTypes
<1>1. /\ writer.at = "write"
      /\ arrived' = Append(arrived, writer.data)
      /\ writer' = Again
      /\ UNCHANGED <<link, output, pending, queue, logs>>
  BY DEF WriterWrites
<1>2. writer.data \in 1 .. MaxLogs
  BY <1>1 DEF Written
<1>3. /\ arrived' \in Seq(1 .. MaxLogs)
      /\ Len(arrived') = Len(arrived) + 1
      /\ \A i \in 1 .. Len(arrived) : arrived'[i] = arrived[i]
      /\ arrived'[Len(arrived) + 1] = writer.data
  BY <1>1, <1>2, AppendProperties
<1>4. /\ Len(arrived) \in Nat
      /\ DOMAIN arrived = 1 .. Len(arrived) /\ DOMAIN arrived' = 1 .. (Len(arrived) + 1)
  BY <1>3, LenProperties
<1>5. writer'.at # "write" /\ writer' \in [at : {"idle", "take", "write", "end"}, data : 0 .. MaxLogs]
  BY <1>1 DEF Again
<1>6. Written'
  <2>1. Increasing(arrived)'
    BY <1>1, <1>3, <1>4 DEF Written, Increasing
  <2>2. (\A i \in DOMAIN arrived : arrived[i] <= logs)'
    BY <1>1, <1>3, <1>4 DEF Written
  <2>3. (\A i \in DOMAIN arrived, j \in DOMAIN queue : arrived[i] < queue[j])'
    BY <1>1, <1>3, <1>4 DEF Written
  <2> QED BY <1>1, <1>5, <2>1, <2>2, <2>3 DEF Written, Increasing
<1> QED BY <1>1, <1>3, <1>5, <1>6 DEF link

\* The other steps of the writer drop messages and move none.
LEMMA OtherWriterStep ==
  WInv /\ (WriterStart \/ WriterLoses \/ WriterDies \/ WriterEnd) => WInv'
<1> SUFFICES ASSUME WInv, WriterStart \/ WriterLoses \/ WriterDies \/ WriterEnd
             PROVE  WInv'
  OBVIOUS
<1> USE DEF WInv, LinkTypes, WritingTypes
<1>1. /\ UNCHANGED <<link, queue, logs, arrived>>
      /\ writer' \in {Again, Idle, [Idle EXCEPT !.at = "end"]}
  BY DEF WriterStart, WriterLoses, WriterDies, WriterEnd
<1>2. writer'.at # "write" /\ writer' \in [at : {"idle", "take", "write", "end"}, data : 0 .. MaxLogs]
  BY <1>1 DEF Again, Idle
<1>3. Written'
  BY <1>1, <1>2 DEF Written, Increasing
<1>4. (LinkTypes /\ WritingTypes)'
  BY <1>1, <1>2 DEF link, WriterStart, WriterLoses, WriterDies, WriterEnd
<1> QED BY <1>3, <1>4

\* Every step keeps the order.
LEMMA WInvStep == WInv /\ [Next]_vars => WInv'
<1> SUFFICES ASSUME WInv, [Next]_vars PROVE WInv'
  OBVIOUS
<1>1. CASE UNCHANGED vars
  BY <1>1 DEF vars, link, writing, WInv, LinkTypes, WritingTypes, Written, Increasing
<1>2. CASE Next
  BY <1>2, LinkStep, LogStep, TakeStep, WriteStep, OtherWriterStep
     DEF Next, AcceptorStep, WriterStep
<1> QED BY <1>1, <1>2

\* Arrived, taken and queued messages are one increasing sequence.
THEOREM WInvariance == Spec => []WInv
  BY WInvInit, WInvStep, PTL DEF Spec

\* The plugin receives the messages of the page in the order they were
\* written and none twice, through any number of disconnections: what the
\* writer takes and loses is dropped for good, and nothing overtakes it.
THEOREM MessagesKeepTheirOrder == Spec => []LogsInOrder
<1>1. WInv => LogsInOrder
  BY DEF WInv, Written, Increasing, LogsInOrder
<1> QED BY <1>1, WInvariance, PTL

-------------------------------------------------------------------------------
(* The first connection, for as long as it is up.                          *)

\* Up to the first break or stop.
First == connection <= 1 /\ (connection = 1 => up) /\ ~stopped

\* The writer has taken a message and not written it.
Taken == IF writer.at = "write" THEN 1 ELSE 0

\* Every message that was written is in its place of the one sequence.
NoneMissing ==
  /\ \A i \in DOMAIN arrived : arrived[i] = i
  /\ writer.at = "write" => writer.data = Len(arrived) + 1
  /\ \A j \in DOMAIN queue : queue[j] = Len(arrived) + Taken + j
  /\ Len(arrived) + Taken + Len(queue) = logs

\* The writer is on its way to the pool, waits there, or runs in its loop.
WriterThere ==
  \/ /\ connection = 0 /\ acceptor = "accept"
     /\ writer.at = "idle" /\ pending = 0 /\ output = 0
  \/ /\ connection = 1 /\ acceptor = "connected"
     /\ writer.at = "idle" /\ pending = 0 /\ output = 0
  \/ /\ connection = 1 /\ acceptor = "read" /\ output = 1
     /\ \/ pending = 1 /\ writer.at = "idle"
        \/ pending = 0 /\ writer.at \in {"take", "write"}

FInv == First => NoneMissing /\ WriterThere

\* What was not a first connection never becomes one.
LEMMA FirstBefore == WInv /\ Next /\ First' => First
<1> SUFFICES ASSUME WInv, Next, First' PROVE First
  OBVIOUS
<1>1. CASE Accept
  BY <1>1 DEF Accept, First, WInv, LinkTypes
<1>2. CASE Stop
  BY <1>2 DEF Stop, First
<1>3. CASE Disconnect
  BY <1>3 DEF Disconnect, First
<1>4. CASE ~Accept /\ ~Stop /\ ~Disconnect
  <2>1. UNCHANGED <<connection, up, stopped>>
    BY <1>4 DEF Next, AcceptorStep, Connected, EndOfConnection, Send, Arrival, Receive, WriteLog,
                WriterStep, WriterStart, WriterTake, WriterWrites, WriterLoses, WriterDies,
                WriterEnd, link
  <2> QED BY <2>1 DEF First
<1> QED BY <1>1, <1>2, <1>3, <1>4

\* The steps that can be taken while the first connection is up, by what they
\* do to the messages and to the writer.
LEMMA FirstSteps ==
  ASSUME WInv, NoneMissing, WriterThere, First, First', Next
  PROVE  \/ UNCHANGED <<writer, queue, logs, arrived>> /\ (Accept \/ Connected)
         \/ UNCHANGED <<writer, queue, logs, arrived, connection, acceptor, pending, output>>
            /\ ~WriterStep /\ ~Connected
         \/ WriteLog \/ WriterStart \/ WriterTake \/ WriterWrites
<1>1. CASE Accept \/ Connected
  BY <1>1 DEF Accept, Connected, writing
<1>2. CASE Stop
  BY <1>2 DEF Stop, First
<1>3. ~EndOfConnection
  BY DEF EndOfConnection, WriterThere, First
<1>4. ~WriterLoses /\ ~WriterDies /\ ~WriterEnd
  BY DEF WriterLoses, WriterDies, WriterEnd, WriterThere, First
<1>5. CASE Disconnect \/ Arrival \/ \E kind \in Kinds : Send(kind)
  <2>1. UNCHANGED <<writer, queue, logs, arrived, connection, acceptor, pending, output>>
    BY <1>5 DEF Disconnect, Arrival, Receive, Send, writing, link
  <2>2. ~Connected
    BY <2>1 DEF Connected
  <2>3. ~WriterTake /\ ~WriterWrites
    BY <1>4, <2>1 DEF WriterTake, WriterWrites, Again
  <2>4. ~WriterStart
    BY <2>1 DEF WriterStart, Again
  <2> QED BY <1>4, <2>1, <2>2, <2>3, <2>4 DEF WriterStep
<1> QED BY <1>1, <1>2, <1>3, <1>4, <1>5 DEF Next, AcceptorStep, WriterStep

\* Every step keeps the messages and the writer in their places.
LEMMA FInvStep == WInv /\ FInv /\ [Next]_vars => FInv'
<1> SUFFICES ASSUME WInv, FInv, [Next]_vars, First'
             PROVE  (NoneMissing /\ WriterThere)'
  BY DEF FInv
<1>0. CASE UNCHANGED vars
  <2>1. First /\ NoneMissing /\ WriterThere
    BY <1>0 DEF vars, link, First, FInv
  <2> QED BY <1>0, <2>1 DEF vars, link, writing, NoneMissing, Taken, WriterThere
<1> SUFFICES ASSUME Next PROVE (NoneMissing /\ WriterThere)'
  BY <1>0
<1>1. First /\ NoneMissing /\ WriterThere
  BY FirstBefore DEF FInv
<1>2. /\ queue \in Seq(1 .. MaxLogs) /\ arrived \in Seq(1 .. MaxLogs)
      /\ Len(queue) \in Nat /\ Len(arrived) \in Nat /\ logs \in 0 .. MaxLogs
      /\ DOMAIN queue = 1 .. Len(queue) /\ DOMAIN arrived = 1 .. Len(arrived)
  BY LenProperties DEF WInv, WritingTypes
<1>3. CASE UNCHANGED <<writer, queue, logs, arrived>> /\ (Accept \/ Connected)
  <2>1. NoneMissing'
    BY <1>1, <1>3 DEF NoneMissing, Taken
  <2>2. WriterThere'
    <3>1. CASE Accept
      BY <1>1, <3>1 DEF Accept, WriterThere, writing
    <3>2. CASE Connected
      BY <1>1, <3>2 DEF Connected, WriterThere
    <3> QED BY <1>3, <3>1, <3>2
  <2> QED BY <2>1, <2>2
<1>4. CASE UNCHANGED <<writer, queue, logs, arrived, connection, acceptor, pending, output>>
  BY <1>1, <1>4 DEF NoneMissing, Taken, WriterThere
<1>5. CASE WriteLog
  <2>1. /\ logs' = logs + 1 /\ queue' = Append(queue, logs + 1) /\ logs + 1 \in 1 .. MaxLogs
        /\ UNCHANGED <<writer, arrived, connection, acceptor, pending, output>>
    BY <1>2, <1>5 DEF WriteLog, link
  <2>2. /\ Len(queue') = Len(queue) + 1 /\ DOMAIN queue' = 1 .. (Len(queue) + 1)
        /\ \A j \in 1 .. Len(queue) : queue'[j] = queue[j]
        /\ queue'[Len(queue) + 1] = logs + 1
    BY <1>2, <2>1, AppendProperties
  <2>3. Taken' = Taken /\ Taken \in 0 .. 1
    BY <2>1 DEF Taken
  <2>4. \A j \in DOMAIN queue' : queue'[j] = Len(arrived) + Taken + j
    <3>1. /\ \A j \in 1 .. Len(queue) : queue[j] = Len(arrived) + Taken + j
          /\ Len(arrived) + Taken + Len(queue) = logs
      BY <1>1, <1>2 DEF NoneMissing
    <3>2. Len(arrived) + Taken + (Len(queue) + 1) = logs + 1
      BY <1>2, <2>3, <3>1
    <3>3. \A j \in 1 .. (Len(queue) + 1) : j \in 1 .. Len(queue) \/ j = Len(queue) + 1
      BY <1>2
    <3> QED BY <2>2, <3>1, <3>2, <3>3, Zenon
  <2>5. Len(arrived) + Taken + Len(queue') = logs'
    BY <1>1, <1>2, <2>1, <2>2, <2>3 DEF NoneMissing
  <2>6. NoneMissing'
    BY <1>1, <2>1, <2>3, <2>4, <2>5 DEF NoneMissing
  <2>7. WriterThere'
    BY <1>1, <2>1 DEF WriterThere
  <2> QED BY <2>6, <2>7
<1>6. CASE WriterStart
  <2>1. /\ writer.at = "idle" /\ pending > 0 /\ pending' = pending - 1
        /\ writer' = [at |-> "take", data |-> 0]
        /\ UNCHANGED <<queue, logs, arrived, connection, acceptor, output>>
    BY <1>1, <1>6 DEF WriterStart, Again, First, link
  <2>2. NoneMissing'
    BY <1>1, <2>1 DEF NoneMissing, Taken
  <2>3. WriterThere'
    BY <1>1, <2>1 DEF WriterThere
  <2> QED BY <2>2, <2>3
<1>7. CASE WriterTake
  <2>1. /\ writer.at = "take" /\ queue # <<>> /\ queue' = Tail(queue)
        /\ writer' = [at |-> "write", data |-> Head(queue)]
        /\ UNCHANGED <<logs, arrived, connection, acceptor, pending, output>>
    BY <1>7 DEF WriterTake, link
  <2>2. /\ Len(queue) \in Nat \ {0} /\ Head(queue) = queue[1]
        /\ Len(queue') = Len(queue) - 1 /\ DOMAIN queue' = 1 .. (Len(queue) - 1)
        /\ \A j \in 1 .. (Len(queue) - 1) : queue'[j] = queue[j + 1]
    BY <1>2, <2>1, HeadTailProperties, LenProperties, EmptySeq
  <2>3. Taken = 0 /\ Taken' = 1
    BY <2>1 DEF Taken
  <2>4. writer'.data = Len(arrived) + 1
    <3>1. 1 \in DOMAIN queue /\ writer'.data = queue[1]
      BY <1>2, <2>1, <2>2
    <3>2. queue[1] = Len(arrived) + Taken + 1
      BY <1>1, <3>1 DEF NoneMissing
    <3> QED BY <1>2, <2>3, <3>1, <3>2
  <2>5. \A j \in DOMAIN queue' : queue'[j] = Len(arrived) + 1 + j
    <3> SUFFICES ASSUME NEW j \in 1 .. (Len(queue) - 1)
                 PROVE  queue'[j] = Len(arrived) + 1 + j
      BY <2>2
    <3>1. queue'[j] = queue[j + 1] /\ j + 1 \in 1 .. Len(queue)
      BY <1>2, <2>2
    <3>2. queue[j + 1] = Len(arrived) + Taken + (j + 1)
      BY <1>1, <1>2, <3>1 DEF NoneMissing
    <3> QED BY <1>2, <2>3, <3>1, <3>2
  <2>6. Len(arrived) + 1 + Len(queue') = logs
    BY <1>1, <1>2, <2>2, <2>3 DEF NoneMissing
  <2>7. NoneMissing'
    BY <1>1, <2>1, <2>3, <2>4, <2>5, <2>6 DEF NoneMissing
  <2>8. WriterThere'
    BY <1>1, <2>1 DEF WriterThere
  <2> QED BY <2>7, <2>8
<1>8. CASE WriterWrites
  <2>1. /\ writer.at = "write" /\ arrived' = Append(arrived, writer.data)
        /\ writer' = [at |-> "take", data |-> 0]
        /\ UNCHANGED <<queue, logs, connection, acceptor, pending, output>>
    BY <1>1, <1>8 DEF WriterWrites, Again, First, link
  <2>2. writer.data \in 1 .. MaxLogs
    BY <2>1 DEF WInv, Written, WritingTypes
  <2>3. /\ Len(arrived') = Len(arrived) + 1 /\ DOMAIN arrived' = 1 .. (Len(arrived) + 1)
        /\ \A i \in 1 .. Len(arrived) : arrived'[i] = arrived[i]
        /\ arrived'[Len(arrived) + 1] = Len(arrived) + 1
    BY <1>1, <1>2, <2>1, <2>2, AppendProperties DEF NoneMissing
  <2>4. Taken = 1 /\ Taken' = 0
    BY <2>1 DEF Taken
  <2>5. NoneMissing'
    BY <1>1, <1>2, <2>1, <2>3, <2>4 DEF NoneMissing
  <2>6. WriterThere'
    BY <1>1, <2>1 DEF WriterThere
  <2> QED BY <2>5, <2>6
<1> QED BY <1>1, <1>3, <1>4, <1>5, <1>6, <1>7, <1>8, FirstSteps

\* They are there in every behaviour.
LEMMA FInvariance == Spec => []FInv
<1>1. Init => FInv
  <2> SUFFICES ASSUME Init PROVE NoneMissing /\ WriterThere
    BY DEF FInv
  <2>1. DOMAIN queue = {} /\ DOMAIN arrived = {} /\ Len(queue) = 0 /\ Len(arrived) = 0
    BY DEF Init
  <2> QED BY <2>1 DEF Init, Idle, NoneMissing, Taken, WriterThere
<1> QED BY <1>1, FInvStep, WInvariance, PTL DEF Spec

\* Nothing HotReloadServer.log has written is missing on the first connection
\* before it breaks: a message has arrived, is held by the writer or queued.
THEOREM NothingLostAtFirst ==
  Spec => [](First => \A n \in 1 .. logs :
                        \/ \E i \in DOMAIN arrived : arrived[i] = n
                        \/ writer.at = "write" /\ writer.data = n
                        \/ \E j \in DOMAIN queue : queue[j] = n)
<1>1. WInv /\ FInv => (First => \A n \in 1 .. logs :
                        \/ \E i \in DOMAIN arrived : arrived[i] = n
                        \/ writer.at = "write" /\ writer.data = n
                        \/ \E j \in DOMAIN queue : queue[j] = n)
  <2> SUFFICES ASSUME WInv, NoneMissing, NEW n \in 1 .. logs
               PROVE  \/ \E i \in DOMAIN arrived : arrived[i] = n
                      \/ writer.at = "write" /\ writer.data = n
                      \/ \E j \in DOMAIN queue : queue[j] = n
    BY DEF FInv
  <2>1. /\ Len(queue) \in Nat /\ Len(arrived) \in Nat /\ logs \in Nat
        /\ DOMAIN queue = 1 .. Len(queue) /\ DOMAIN arrived = 1 .. Len(arrived)
    BY LenProperties DEF WInv, WritingTypes
  <2>2. CASE n <= Len(arrived)
    BY <2>1, <2>2 DEF NoneMissing
  <2>3. CASE n = Len(arrived) + 1 /\ writer.at = "write"
    BY <2>3 DEF NoneMissing
  <2>4. CASE n > Len(arrived) + Taken
    <3>1. Taken \in 0 .. 1
      BY DEF Taken
    <3>2. n - (Len(arrived) + Taken) \in DOMAIN queue
      BY <2>1, <2>4, <3>1 DEF NoneMissing
    <3>3. queue[n - (Len(arrived) + Taken)] = n
      BY <2>1, <3>1, <3>2 DEF NoneMissing
    <3> QED BY <3>2, <3>3
  <2> QED BY <2>1, <2>2, <2>3, <2>4 DEF Taken
<1> QED BY <1>1, WInvariance, FInvariance, PTL

\* How many steps of the accepting thread and the writer a message is away from
\* the plugin.
Away(n) == 2 * (n - Len(arrived)) - Taken + pending
           + (IF acceptor = "accept" THEN 3 ELSE IF acceptor = "connected" THEN 2 ELSE 0)

\* While the first connection is up, a message that has not arrived comes no
\* farther from the plugin whatever happens, one of the accepting thread and
\* the writer has a step to take, and each of them brings it nearer.
THEOREM MessagesComeNearer ==
  Spec => [][\A n \in 1 .. logs :
               First /\ First' /\ connection = 1 /\ n > Len(arrived) =>
                 /\ Away(n) \in Nat
                 /\ \/ acceptor = "connected"
                    \/ writer.at = "idle" /\ pending > 0
                    \/ writer.at = "take" /\ queue # <<>>
                    \/ writer.at = "write" /\ output = connection /\ output # 0 /\ up
                 /\ Away(n)' <= Away(n)
                 /\ Connected \/ WriterStep => Away(n)' < Away(n)]_vars
<1>1. WInv /\ FInv /\ [Next]_vars =>
        [\A n \in 1 .. logs :
               First /\ First' /\ connection = 1 /\ n > Len(arrived) =>
                 /\ Away(n) \in Nat
                 /\ \/ acceptor = "connected"
                    \/ writer.at = "idle" /\ pending > 0
                    \/ writer.at = "take" /\ queue # <<>>
                    \/ writer.at = "write" /\ output = connection /\ output # 0 /\ up
                 /\ Away(n)' <= Away(n)
                 /\ Connected \/ WriterStep => Away(n)' < Away(n)]_vars
  <2> SUFFICES ASSUME WInv, NoneMissing, WriterThere, Next, NEW n \in 1 .. logs,
                      First, First', connection = 1, n > Len(arrived)
               PROVE  /\ Away(n) \in Nat
                      /\ \/ acceptor = "connected"
                         \/ writer.at = "idle" /\ pending > 0
                         \/ writer.at = "take" /\ queue # <<>>
                         \/ writer.at = "write" /\ output = connection /\ output # 0 /\ up
                      /\ Away(n)' <= Away(n)
                      /\ Connected \/ WriterStep => Away(n)' < Away(n)
    BY DEF FInv
  <2>1. /\ Len(queue) \in Nat /\ Len(arrived) \in Nat /\ logs \in Nat /\ pending \in Nat
        /\ Taken \in 0 .. 1 /\ n \in Nat /\ n - Len(arrived) \in Nat \ {0}
    BY LenProperties DEF WInv, WritingTypes, Taken
  <2>2. Away(n) \in Nat
    BY <2>1 DEF Away
  <2>3. \/ acceptor = "connected"
        \/ writer.at = "idle" /\ pending > 0
        \/ writer.at = "take" /\ queue # <<>>
        \/ writer.at = "write" /\ output = connection /\ output # 0 /\ up
    <3>1. writer.at = "take" => Len(queue) # 0
      BY <2>1 DEF NoneMissing, Taken
    <3>2. writer.at = "take" => queue # <<>>
      BY <3>1
    <3> QED BY <3>2 DEF WriterThere, First
  <2>4. CASE UNCHANGED <<writer, queue, logs, arrived, connection, acceptor, pending, output>>
             /\ ~WriterStep /\ ~Connected
    <3>1. Away(n)' = Away(n)
      BY <2>4 DEF Away, Taken
    <3> QED BY <2>2, <2>3, <2>4, <3>1
  <2>5. CASE Connected
    <3>1. /\ acceptor = "connected" /\ acceptor' = "read" /\ pending' = pending + 1
          /\ UNCHANGED <<writer, arrived>>
      BY <2>5 DEF Connected
    <3>2. Away(n)' = Away(n) - 1
      BY <2>1, <3>1 DEF Away, Taken
    <3> QED BY <2>2, <2>3, <3>2
  <2>6. ~Accept
    BY DEF Accept, First
  <2>7. CASE WriteLog
    <3>1. UNCHANGED <<writer, arrived, acceptor, pending>>
      BY <2>7 DEF WriteLog, link
    <3>2. Away(n)' = Away(n)
      BY <3>1 DEF Away, Taken
    <3>3. ~Connected /\ ~WriterStep
      <4>1. logs' # logs
        BY <2>1, <2>7 DEF WriteLog
      <4> QED BY <4>1 DEF Connected, WriterStep, WriterStart, WriterTake, WriterWrites,
                          WriterLoses, WriterDies, WriterEnd
    <3> QED BY <2>2, <2>3, <3>2, <3>3
  <2>8. CASE WriterStart
    <3>1. /\ pending' = pending - 1 /\ writer.at = "idle" /\ writer'.at = "take"
          /\ UNCHANGED <<arrived, acceptor>>
      BY <2>8 DEF WriterStart, Again, First, link
    <3>2. Away(n)' = Away(n) - 1
      BY <2>1, <3>1 DEF Away, Taken
    <3> QED BY <2>2, <2>3, <3>2
  <2>9. CASE WriterTake
    <3>1. /\ writer.at = "take" /\ writer'.at = "write" /\ UNCHANGED <<pending, arrived, acceptor>>
      BY <2>9 DEF WriterTake, link
    <3>2. Away(n)' = Away(n) - 1
      BY <2>1, <3>1 DEF Away, Taken
    <3> QED BY <2>2, <2>3, <3>2
  <2>10. CASE WriterWrites
    <3>1. /\ writer.at = "write" /\ writer'.at = "take" /\ UNCHANGED <<pending, acceptor>>
          /\ arrived' = Append(arrived, writer.data)
      BY <2>10 DEF WriterWrites, Again, First, link
    <3>2. writer.data \in 1 .. MaxLogs /\ arrived \in Seq(1 .. MaxLogs)
      BY <3>1 DEF WInv, Written, WritingTypes
    <3>3. Len(arrived') = Len(arrived) + 1
      BY <3>1, <3>2, AppendProperties
    <3>4. Away(n)' = Away(n) - 1
      BY <2>1, <3>1, <3>3 DEF Away, Taken
    <3> QED BY <2>2, <2>3, <3>4
  <2> QED BY <2>4, <2>5, <2>6, <2>7, <2>8, <2>9, <2>10, FirstSteps
<1> QED BY <1>1, WInvariance, FInvariance, PTL DEF Spec

-------------------------------------------------------------------------------
(* The first element of a set of positions, and the complete commands.     *)

\* Every set of naturals that is not empty has a least element.
LEMMA LeastElement ==
  ASSUME NEW S \in SUBSET Nat, S # {}
  PROVE  Min(S) \in S /\ \A k \in S : Min(S) <= k
<1>1. PICK x \in S : \A y \in S : ~(<<y, x>> \in OpToRel(<, Nat))
  BY WFMin, NatLessThanWellFounded
<1>2. ASSUME NEW y \in S PROVE x <= y
  <2>1. ~(<<y, x>> \in {ss \in Nat \X Nat : ss[1] < ss[2]})
    BY <1>1, Zenon DEF OpToRel
  <2>2. x \in Nat /\ y \in Nat
    OBVIOUS
  <2> QED BY <2>1, <2>2
<1> QED BY <1>1, <1>2 DEF Min

\* What Before means: all below the first of S, and no more.
LEMMA BeforeFirst ==
  ASSUME NEW m \in Nat, NEW S \in SUBSET (1 .. m)
  PROVE  /\ Before(S, m) \in 0 .. m
         /\ \A k \in 1 .. Before(S, m) : k \notin S
         /\ Before(S, m) < m => Before(S, m) + 1 \in S
         /\ S = {} => Before(S, m) = m
<1> DEFINE T == S \cup {m + 1}
<1>1. T \in SUBSET Nat /\ T # {} /\ T \subseteq 1 .. (m + 1)
  OBVIOUS
<1>2. Min(T) \in T /\ \A k \in T : Min(T) <= k
  BY <1>1, LeastElement
<1>3. Before(S, m) = Min(T) - 1
  BY DEF Before
<1> HIDE DEF T
<1>4. \A k \in S : k \in T
  BY DEF T
<1>5. Min(T) # m + 1 => Min(T) \in S
  BY <1>2 DEF T
<1>6. S = {} => Min(T) = m + 1
  BY <1>2 DEF T
<1> DEFINE f == Min(T)
<1>7. f \in 1 .. (m + 1) /\ (f # m + 1 => f \in S) /\ (S = {} => f = m + 1)
      /\ \A k \in S : f <= k
  BY <1>1, <1>2, <1>4, <1>5, <1>6
<1>8. Before(S, m) = f - 1
  BY <1>3
<1> HIDE DEF f
<1>9. f - 1 \in 0 .. m /\ (f - 1 < m => (f - 1) + 1 \in S) /\ (S = {} => f - 1 = m)
  BY <1>7
<1>10. ASSUME NEW k \in 1 .. (f - 1) PROVE k \notin S
  BY <1>7
<1> QED BY <1>8, <1>9, <1>10

CompleteOf(s, n) == Before({k \in DOMAIN s : s[k].end > n}, Len(s))

\* What Complete means: the commands that end within n bytes.
LEMMA CompleteProperties ==
  ASSUME NEW s \in Seq(Commands), NEW n \in Nat
  PROVE  /\ CompleteOf(s, n) \in 0 .. Len(s)
         /\ \A k \in 1 .. CompleteOf(s, n) : s[k].end <= n
         /\ CompleteOf(s, n) < Len(s) => s[CompleteOf(s, n) + 1].end > n
<1>1. Len(s) \in Nat /\ DOMAIN s = 1 .. Len(s) /\ \A k \in DOMAIN s : s[k] \in Commands
  BY LenProperties, ElementOfSeq
<1>2. \A k \in DOMAIN s : s[k].end \in Nat
  BY <1>1 DEF Commands
<1> DEFINE S == {k \in DOMAIN s : s[k].end > n}
<1>3. S \in SUBSET (1 .. Len(s))
  BY <1>1
<1>4. /\ Before(S, Len(s)) \in 0 .. Len(s)
      /\ \A k \in 1 .. Before(S, Len(s)) : k \notin S
      /\ Before(S, Len(s)) < Len(s) => Before(S, Len(s)) + 1 \in S
  BY <1>1, <1>3, BeforeFirst
<1>5. CompleteOf(s, n) = Before(S, Len(s))
  BY DEF CompleteOf
<1>6. \A k \in 1 .. Before(S, Len(s)) : k \in DOMAIN s
  BY <1>1, <1>4
<1> QED BY <1>2, <1>4, <1>5, <1>6

\* If the first j commands have arrived, at least j are complete.
LEMMA CompleteCovers ==
  ASSUME NEW s \in Seq(Commands), NEW n \in Nat, NEW j \in 0 .. Len(s),
         \A k \in 1 .. j : s[k].end <= n
  PROVE  j <= CompleteOf(s, n)
<1>1. Len(s) \in Nat /\ DOMAIN s = 1 .. Len(s) /\ \A k \in DOMAIN s : s[k] \in Commands
  BY LenProperties, ElementOfSeq
<1>2. \A k \in DOMAIN s : s[k].end \in Nat
  BY <1>1 DEF Commands
<1> DEFINE c == CompleteOf(s, n)
<1>3. c \in 0 .. Len(s) /\ (c < Len(s) => s[c + 1].end > n)
  BY CompleteProperties
<1> HIDE DEF c
<1>4. SUFFICES ASSUME c < j PROVE FALSE
  BY <1>1, <1>3 DEF c
<1>5. c + 1 \in 1 .. j /\ c + 1 \in DOMAIN s /\ c < Len(s)
  BY <1>1, <1>3, <1>4
<1> QED BY <1>2, <1>3, <1>5

-------------------------------------------------------------------------------
(* The direction from the plugin.                                          *)

DecoderTypes ==
  /\ sent \in Seq(Commands) /\ delivered \in Seq(Nat)
  /\ got \in Nat /\ consumed \in Nat /\ reached \in Nat
  /\ split \in BOOLEAN /\ garbled \in BOOLEAN

\* What was decoded was handed over, and what was handed over has arrived.
Behind ==
  /\ consumed <= reached /\ reached <= Len(sent)
  /\ \A k \in 1 .. reached : sent[k].end <= got

Within == ~garbled => got <= EndOf(Len(sent))

\* OnceUnlessSplit, for what is complete; the rest may be cut off.
Once ==
  ~split /\ NoneRejected(Complete(got)) =>
     consumed = reached /\ delivered = [k \in 1 .. reached |-> k]

DInv == DecoderTypes /\ Behind /\ Within /\ CompleteIsDelivered /\ Once

\* The ends of commands are numbers.
LEMMA SentFacts ==
  ASSUME NEW s \in Seq(Commands)
  PROVE  /\ Len(s) \in Nat /\ DOMAIN s = 1 .. Len(s)
         /\ \A k \in 1 .. Len(s) : s[k].end \in Nat
<1>1. Len(s) \in Nat /\ DOMAIN s = 1 .. Len(s) /\ \A k \in DOMAIN s : s[k] \in Commands
  BY LenProperties, ElementOfSeq
<1> QED BY <1>1 DEF Commands

\* Nothing was sent yet.
LEMMA DInvInit == Init => DInv
<1> SUFFICES ASSUME Init PROVE DInv
  OBVIOUS
<1>1. sent = <<>> /\ delivered = <<>> /\ got = 0 /\ consumed = 0 /\ reached = 0
      /\ split = FALSE /\ garbled = FALSE
  BY DEF Init
<1>2. sent \in Seq(Commands) /\ delivered \in Seq(Nat) /\ Len(sent) = 0
  BY <1>1
<1>3. Complete(got) = 0
  <2>1. Complete(got) = CompleteOf(sent, 0)
    BY <1>1 DEF Complete, CompleteOf
  <2>2. CompleteOf(sent, 0) \in 0 .. Len(sent)
    <3>1. sent \in Seq(Commands) /\ 0 \in Nat
      BY <1>2
    <3> QED BY ONLY <3>1, CompleteProperties, Zenon
  <2> QED BY <1>2, <2>1, <2>2
<1>4. delivered = [k \in 1 .. reached |-> k]
  BY <1>1
<1>5. DecoderTypes
  <2>1. split \in BOOLEAN /\ garbled \in BOOLEAN
    BY <1>1
  <2> QED BY <1>1, <1>2, <2>1 DEF DecoderTypes
<1>6. Behind
  BY <1>1, <1>2 DEF Behind
<1>7. Within
  BY <1>1, <1>2 DEF Within, EndOf
<1>8. CompleteIsDelivered
  BY <1>3 DEF CompleteIsDelivered
<1>9. Once
  BY <1>1, <1>4 DEF Once
<1> QED BY <1>5, <1>6, <1>7, <1>8, <1>9 DEF DInv

\* A step that touches neither the stream nor the decoder keeps the invariant.
LEMMA StillStep == DInv /\ UNCHANGED <<sent, decoder, garbled>> => DInv'
  BY DEF DInv, DecoderTypes, Behind, Within, EndOf, CompleteIsDelivered, Once,
         NoneRejected, Complete, decoder

\* A new command ends behind all others.
LEMMA SendStep == ASSUME NEW kind \in Kinds, DInv, Send(kind) PROVE DInv'
<1>1. /\ sent' = Append(sent, [kind |-> kind, end |-> EndOf(Len(sent)) + Size[kind]])
      /\ UNCHANGED <<got, consumed, delivered, reached, split, garbled>>
  BY DEF Send, decoder
<1>2. Len(sent) \in Nat /\ \A k \in 1 .. Len(sent) : sent[k].end \in Nat
  BY SentFacts DEF DInv, DecoderTypes
<1>3. EndOf(Len(sent)) \in Nat /\ Size[kind] \in Nat \ {0}
  BY <1>2 DEF EndOf
<1> DEFINE e == EndOf(Len(sent)) + Size[kind]
<1>4. e \in Nat /\ e > EndOf(Len(sent)) /\ [kind |-> kind, end |-> e] \in Commands
  BY <1>3 DEF Commands
<1> HIDE DEF e
<1>5. /\ sent' \in Seq(Commands) /\ Len(sent') = Len(sent) + 1
      /\ \A k \in 1 .. Len(sent) : sent'[k] = sent[k]
      /\ sent'[Len(sent) + 1].end = e
  BY <1>1, <1>4, AppendProperties DEF e, DInv, DecoderTypes
<1> DEFINE c == CompleteOf(sent, got)
           d == CompleteOf(sent', got)
<1>6. /\ c \in 0 .. Len(sent) /\ \A k \in 1 .. c : sent[k].end <= got
      /\ c < Len(sent) => sent[c + 1].end > got
  BY CompleteProperties DEF DInv, DecoderTypes
<1>7. d \in 0 .. (Len(sent) + 1) /\ \A k \in 1 .. d : sent'[k].end <= got
  BY <1>5, CompleteProperties DEF DInv, DecoderTypes
<1>8. c <= d
  <2> HIDE DEF c
  <2>1. c \in 0 .. Len(sent')
    BY <1>2, <1>5, <1>6
  <2>2. \A k \in 1 .. c : sent'[k].end <= got
    BY <1>2, <1>5, <1>6
  <2>3. got \in Nat
    BY DEF DInv, DecoderTypes
  <2> QED BY <1>5, <2>1, <2>2, <2>3, CompleteCovers
<1>9. Complete(got) = c /\ Complete(got)' = d
  BY <1>1 DEF Complete, CompleteOf
<1> HIDE DEF c, d
<1>10. got \in Nat
  BY DEF DInv, DecoderTypes
<1>11. ASSUME ~garbled PROVE c = d
  <2>1. got < e
    BY <1>3, <1>4, <1>10, <1>11 DEF DInv, Within
  <2>2. d <= Len(sent)
    BY <1>2, <1>4, <1>5, <1>7, <1>10, <2>1
  <2>3. SUFFICES ASSUME c < d PROVE FALSE
    BY <1>6, <1>7, <1>8
  <2>4. c + 1 \in 1 .. d /\ c + 1 \in 1 .. Len(sent) /\ c < Len(sent)
    BY <1>2, <1>6, <1>7, <2>2, <2>3
  <2> QED BY <1>2, <1>5, <1>6, <1>7, <1>10, <2>4
<1>12. ASSUME NEW k \in 0 .. Len(sent)
       PROVE  NoneRejected(k)' <=> NoneRejected(k)
  <2>1. \A i \in 1 .. k : sent'[i] = sent[i]
    BY <1>2, <1>5
  <2> QED BY <2>1 DEF NoneRejected
<1>13. DecoderTypes' /\ Behind'
  BY <1>1, <1>2, <1>5 DEF DInv, DecoderTypes, Behind
<1>14. Within'
  <2>1. EndOf(Len(sent))' = e
    BY <1>2, <1>5 DEF EndOf
  <2> QED BY <1>1, <1>3, <1>4, <1>10, <2>1 DEF DInv, Within
<1>15. CompleteIsDelivered'
  BY <1>1, <1>2, <1>6, <1>9, <1>11, <1>12 DEF DInv, CompleteIsDelivered
<1>16. Once'
  <2>1. \A i \in 1 .. c : i \in 1 .. d /\ sent'[i] = sent[i]
    BY <1>2, <1>5, <1>6, <1>7, <1>8
  <2>2. (\A i \in 1 .. d : sent'[i].kind \notin Unknown)
           => \A i \in 1 .. c : sent[i].kind \notin Unknown
    BY <2>1
  <2>3. NoneRejected(Complete(got))' <=> \A i \in 1 .. d : sent'[i].kind \notin Unknown
    BY <1>9 DEF NoneRejected
  <2>4. NoneRejected(Complete(got)) <=> \A i \in 1 .. c : sent[i].kind \notin Unknown
    BY <1>9 DEF NoneRejected
  <2> QED BY <1>1, <2>2, <2>3, <2>4 DEF DInv, Once
<1> QED BY <1>13, <1>14, <1>15, <1>16 DEF DInv

\* A command that was cut off leaves the stream.
LEMMA DisconnectStep == DInv /\ Disconnect => DInv'
<1> SUFFICES ASSUME DInv, Disconnect PROVE DInv'
  OBVIOUS
<1> DEFINE c == CompleteOf(sent, got)
           d == CompleteOf(sent', got)
<1>1. /\ sent' = SubSeq(sent, 1, c)
      /\ garbled' \in BOOLEAN
      /\ ~garbled' => ~garbled /\ ~(got > EndOf(c))
      /\ UNCHANGED <<got, consumed, delivered, reached, split>>
  BY Zenon DEF Disconnect, decoder, Complete, CompleteOf, Leftover
<1>2. /\ sent \in Seq(Commands) /\ got \in Nat /\ reached \in Nat
      /\ Len(sent) \in Nat /\ \A k \in 1 .. Len(sent) : sent[k].end \in Nat
  BY SentFacts DEF DInv, DecoderTypes
<1>3. c \in 0 .. Len(sent) /\ \A k \in 1 .. c : sent[k].end <= got
  BY <1>2, CompleteProperties
<1>4. reached <= c
  <2>1. reached \in 0 .. Len(sent) /\ \A k \in 1 .. reached : sent[k].end <= got
    BY <1>2 DEF DInv, Behind
  <2> QED BY <1>2, <2>1, CompleteCovers
<1> HIDE DEF c
<1>5. sent' \in Seq(Commands) /\ Len(sent') = c /\ \A k \in 1 .. c : sent'[k] = sent[k]
  <2>1. \A k \in 1 .. c : sent[k] \in Commands
    BY <1>2, <1>3, ElementOfSeq
  <2>2. /\ SubSeq(sent, 1, c) \in Seq(Commands)
        /\ Len(SubSeq(sent, 1, c)) = IF 1 <= c THEN c - 1 + 1 ELSE 0
        /\ \A k \in 1 .. (c - 1 + 1) : SubSeq(sent, 1, c)[k] = sent[1 + k - 1]
    BY <1>2, <1>3, <2>1, SubSeqProperties
  <2> QED BY <1>1, <1>2, <1>3, <2>2
<1>6. d = c
  <2>1. c \in 0 .. Len(sent') /\ \A k \in 1 .. c : sent'[k].end <= got
    BY <1>2, <1>3, <1>5
  <2>2. c <= d
    BY <1>2, <1>5, <2>1, CompleteCovers
  <2>3. d \in 0 .. c
    BY <1>2, <1>5, CompleteProperties
  <2> QED BY <1>2, <1>3, <2>2, <2>3
<1>7. Complete(got) = c /\ Complete(got)' = c
  BY <1>1, <1>6 DEF Complete, CompleteOf, c
<1> HIDE DEF d
<1>8. ASSUME NEW k \in 0 .. c PROVE NoneRejected(k)' <=> NoneRejected(k)
  <2>1. \A i \in 1 .. k : sent'[i] = sent[i]
    BY <1>3, <1>5
  <2> QED BY <2>1 DEF NoneRejected
<1>9. DecoderTypes'
  BY <1>1, <1>5 DEF DInv, DecoderTypes
<1>10. Behind'
  BY <1>1, <1>2, <1>3, <1>4, <1>5 DEF DInv, Behind
<1>11. Within'
  <2>1. EndOf(Len(sent))' = EndOf(c)
    BY <1>3, <1>5 DEF EndOf
  <2>2. EndOf(c) \in Nat
    BY <1>2, <1>3 DEF EndOf
  <2>3. ~garbled' => got <= EndOf(c)
    BY <1>1, <1>2, <2>2
  <2> QED BY <1>1, <2>1, <2>3 DEF Within
<1>12. CompleteIsDelivered'
  BY <1>1, <1>3, <1>7, <1>8 DEF DInv, CompleteIsDelivered
<1>13. Once'
  <2>1. NoneRejected(Complete(got))' <=> NoneRejected(Complete(got))
    BY <1>3, <1>7, <1>8
  <2> QED BY <1>1, <2>1 DEF DInv, Once
<1> QED BY <1>9, <1>10, <1>11, <1>12, <1>13 DEF DInv

\* What a read hands over: the commands behind rawData's beginning, up to the
\* first one that is rejected.
LEMMA ReadFacts ==
  ASSUME DInv, NEW bytes \in 1 .. (EndOf(Len(sent)) - got), Receive(bytes),
         NEW m, m = Complete(got + bytes), NEW l, l = LastDecoded(m)
  PROVE  /\ m \in 0 .. Len(sent) /\ l \in consumed .. m
         /\ reached <= m /\ Complete(got) <= m
         /\ got + bytes \in Nat /\ got + bytes <= EndOf(Len(sent))
         /\ \A k \in 1 .. m : sent[k].end <= got + bytes
         /\ l < m => l + 1 \in Rejected(m)
         /\ Rejected(m) = {} => l = m
         /\ consumed' \in {consumed, m}
         /\ consumed' = m \/ Throws(m, got + bytes)
         /\ ~Throws(m, got + bytes) => consumed' = m /\ l = m
<1>1. /\ sent \in Seq(Commands) /\ got \in Nat /\ reached \in Nat /\ consumed \in Nat
      /\ Len(sent) \in Nat /\ \A k \in 1 .. Len(sent) : sent[k].end \in Nat
  BY SentFacts DEF DInv, DecoderTypes
<1>2. EndOf(Len(sent)) \in Nat
  BY <1>1 DEF EndOf
<1>3. bytes \in Nat /\ got + bytes \in Nat /\ got + bytes <= EndOf(Len(sent))
  BY <1>1, <1>2
<1>4. m = CompleteOf(sent, got + bytes) /\ Complete(got) = CompleteOf(sent, got)
  BY DEF Complete, CompleteOf
<1>5. m \in 0 .. Len(sent) /\ \A k \in 1 .. m : sent[k].end <= got + bytes
  BY <1>1, <1>3, <1>4, CompleteProperties
<1>6. reached <= m
  <2>1. reached \in 0 .. Len(sent)
    BY <1>1 DEF DInv, Behind
  <2>2. ASSUME NEW k \in 1 .. reached PROVE sent[k].end <= got + bytes
    <3>1. sent[k].end <= got
      BY DEF DInv, Behind
    <3>2. sent[k].end \in Nat
      BY <1>1, <2>1
    <3> QED BY <1>1, <1>3, <3>1, <3>2
  <2> QED BY <1>1, <1>3, <1>4, <2>1, <2>2, CompleteCovers
<1>7. Complete(got) <= m
  <2>1. Complete(got) \in 0 .. Len(sent) /\ \A k \in 1 .. Complete(got) : sent[k].end <= got
    BY <1>1, <1>4, CompleteProperties
  <2>2. \A k \in 1 .. Complete(got) : sent[k].end <= got + bytes
    BY <1>1, <1>3, <2>1
  <2> QED BY <1>1, <1>3, <1>4, <2>1, <2>2, CompleteCovers
<1>8. consumed <= m
  BY <1>1, <1>5, <1>6 DEF DInv, Behind
<1>9. Rejected(m) \in SUBSET (1 .. m) /\ m \in Nat
      /\ \A k \in Rejected(m) : k \in (consumed + 1) .. m
  BY <1>1, <1>5 DEF Rejected
<1>10. /\ l \in 0 .. m
       /\ l < m => l + 1 \in Rejected(m)
       /\ Rejected(m) = {} => l = m
  BY <1>9, BeforeFirst DEF LastDecoded
<1>11. l \in consumed .. m
  BY <1>1, <1>5, <1>8, <1>9, <1>10
<1>12. consumed' = IF Throws(m, got + bytes) THEN consumed ELSE m
  BY DEF Receive, Rest
<1>13. ~Throws(m, got + bytes) => l = m
  BY <1>10 DEF Throws
<1> QED BY <1>3, <1>5, <1>6, <1>7, <1>10, <1>11, <1>12, <1>13

\* The numbers a read works with.
LEMMA Numbers ==
  ASSUME NEW i \in Nat, NEW j \in Nat
  PROVE  [k \in 1 .. j |-> i + k] \in Seq(Nat)
  OBVIOUS

\* Consecutive numbers, continued.
LEMMA Continued ==
  ASSUME NEW i \in Nat, NEW j \in Nat, i <= j
  PROVE  [k \in 1 .. i |-> k] \o [k \in 1 .. (j - i) |-> i + k] = [k \in 1 .. j |-> k]
<1> DEFINE s == [k \in 1 .. i |-> k]
           t == [k \in 1 .. (j - i) |-> i + k]
           u == [k \in 1 .. j |-> k]
<1>1. /\ s \in Seq(Nat) /\ Len(s) = i /\ \A k \in 1 .. i : s[k] = k
      /\ t \in Seq(Nat) /\ Len(t) = j - i /\ \A k \in 1 .. (j - i) : t[k] = i + k
      /\ u \in Seq(Nat) /\ Len(u) = j /\ \A k \in 1 .. j : u[k] = k
  OBVIOUS
<1> HIDE DEF s, t, u
<1>0. i + (j - i) = j
  OBVIOUS
<1>2. /\ s \o t \in Seq(Nat) /\ Len(s \o t) = j
      /\ \A k \in 1 .. j : (s \o t)[k] = IF k <= i THEN s[k] ELSE t[k - i]
  <2>1. /\ s \o t \in Seq(Nat) /\ Len(s \o t) = Len(s) + Len(t)
        /\ \A k \in 1 .. Len(s) + Len(t) :
              (s \o t)[k] = IF k <= Len(s) THEN s[k] ELSE t[k - Len(s)]
    <3>1. s \in Seq(Nat) /\ t \in Seq(Nat)
      BY <1>1
    <3> QED BY ONLY <3>1, ConcatProperties
  <2> QED BY <1>0, <1>1, <2>1
<1>3. \A k \in 1 .. j : (s \o t)[k] = u[k]
  BY <1>1, <1>2
<1>4. s \o t = u
  BY <1>1, <1>2, <1>3, SeqEqual
<1> QED BY <1>4 DEF s, t, u

\* A read, with all that DecoderImpl.push does, keeps the invariant.
LEMMA ReceiveStep ==
  ASSUME DInv, NEW bytes \in 1 .. (EndOf(Len(sent)) - got), Receive(bytes)
  PROVE  DInv'
<1> DEFINE n == got + bytes
           m == Complete(n)
           l == LastDecoded(m)
           handed == [k \in 1 .. (l - consumed) |-> consumed + k]
<1>1. /\ got' = n /\ UNCHANGED <<sent, garbled>> /\ ~garbled
      /\ delivered' = delivered \o handed
      /\ reached' = IF l > reached THEN l ELSE reached
      /\ split' = (split \/ (Throws(m, n) /\ Rejected(m) = {}))
  BY DEF Receive, HandOver
<1>2. /\ m \in 0 .. Len(sent) /\ l \in consumed .. m
      /\ reached <= m /\ Complete(got) <= m
      /\ n \in Nat /\ n <= EndOf(Len(sent))
      /\ \A k \in 1 .. m : sent[k].end <= n
      /\ l < m => l + 1 \in Rejected(m)
      /\ Rejected(m) = {} => l = m
      /\ consumed' \in {consumed, m}
      /\ consumed' = m \/ Throws(m, n)
      /\ ~Throws(m, n) => consumed' = m /\ l = m
  BY ReadFacts
<1>3. /\ sent \in Seq(Commands) /\ got \in Nat /\ reached \in Nat /\ consumed \in Nat
      /\ delivered \in Seq(Nat) /\ split \in BOOLEAN
      /\ Len(sent) \in Nat /\ \A k \in 1 .. Len(sent) : sent[k].end \in Nat
  BY SentFacts DEF DInv, DecoderTypes
<1>4. handed \in Seq(Nat)
  <2>1. l - consumed \in Nat
    BY <1>2, <1>3
  <2> QED BY <1>3, <2>1, Numbers
<1>5. Complete(got)' = m
  BY <1>1 DEF Complete
<1> HIDE DEF n, m, l, handed
<1>6. m \in Nat /\ l \in Nat /\ reached' \in Nat /\ reached' <= m /\ reached <= reached'
      /\ l <= reached'
  BY <1>1, <1>2, <1>3
<1>7. DecoderTypes'
  <2>1. delivered' \in Seq(Nat)
    BY <1>1, <1>3, <1>4, ConcatProperties
  <2>2. consumed' \in Nat
    BY <1>2, <1>3, <1>6
  <2>3. split' \in BOOLEAN
    BY <1>1, <1>3
  <2> QED BY <1>1, <1>2, <1>6, <2>1, <2>2, <2>3 DEF DInv, DecoderTypes
<1>8. Behind'
  <2>1. consumed <= reached
    BY DEF DInv, Behind
  <2>2. consumed' <= reached'
    <3>1. CASE consumed' = consumed
      BY <1>3, <1>6, <2>1, <3>1
    <3>2. CASE ~Throws(m, n)
      BY <1>2, <1>6, <3>2
    <3>3. CASE consumed' = m /\ Throws(m, n)
      <4>1. consumed' = consumed
        BY <3>3 DEF Receive, Rest, n, m
      <4> QED BY <3>1, <4>1
    <3> QED BY <1>2, <3>1, <3>2, <3>3
  <2>3. reached' <= Len(sent) /\ \A k \in 1 .. reached' : sent[k].end <= n
    BY <1>2, <1>3, <1>6
  <2> QED BY <1>1, <2>2, <2>3 DEF Behind
<1>9. Within'
  BY <1>1, <1>2 DEF Within, EndOf
<1>10. CompleteIsDelivered'
  <2> SUFFICES ASSUME NEW k \in 1 .. m, \A i \in 1 .. k : sent[i].kind \notin Unknown, k > l
               PROVE  FALSE
    BY <1>1, <1>5, <1>6 DEF CompleteIsDelivered, NoneRejected
  <2>1. l + 1 \in Rejected(m) /\ l + 1 \in 1 .. k
    BY <1>2, <1>6
  <2> QED BY <2>1 DEF Rejected
<1>11. Once'
  <2> SUFFICES ASSUME ~split', \A i \in 1 .. m : sent[i].kind \notin Unknown
               PROVE  consumed' = reached' /\ delivered' = [k \in 1 .. reached' |-> k]
    BY <1>1, <1>5 DEF Once, NoneRejected
  <2>1. Rejected(m) = {}
    BY <1>2, <1>3, <1>6 DEF Rejected
  <2>2. ~split /\ ~Throws(m, n)
    BY <1>1, <2>1
  <2>3. NoneRejected(Complete(got))
    <3>1. Complete(got) \in Int
      <4>1. Complete(got) = CompleteOf(sent, got)
        BY DEF Complete, CompleteOf
      <4> QED BY <1>3, <4>1, CompleteProperties
    <3> QED BY <1>2, <1>6, <3>1 DEF NoneRejected
  <2>4. consumed = reached /\ delivered = [k \in 1 .. reached |-> k]
    BY <2>2, <2>3 DEF DInv, Once
  <2>5. consumed' = m /\ l = m /\ reached' = m
    BY <1>1, <1>2, <1>3, <1>6, <2>2
  <2>6. delivered' = [k \in 1 .. reached |-> k] \o [k \in 1 .. (m - reached) |-> reached + k]
    BY <1>1, <2>4, <2>5 DEF handed
  <2> QED BY <1>2, <1>3, <1>6, <2>5, <2>6, Continued
<1> QED BY <1>7, <1>8, <1>9, <1>10, <1>11 DEF DInv

\* Every step keeps the invariant of the decoder.
LEMMA DInvStep == DInv /\ [Next]_vars => DInv'
<1> SUFFICES ASSUME DInv, [Next]_vars PROVE DInv'
  OBVIOUS
<1>1. CASE \E kind \in Kinds : Send(kind)
  BY <1>1, SendStep
<1>2. CASE Disconnect
  BY <1>2, DisconnectStep
<1>3. CASE Arrival
  BY <1>3, ReceiveStep DEF Arrival
<1>4. CASE Accept \/ AcceptorStep \/ Stop \/ WriteLog \/ WriterStep \/ UNCHANGED vars
  <2>1. UNCHANGED <<sent, decoder, garbled>>
    BY <1>4 DEF Accept, AcceptorStep, Connected, EndOfConnection, Stop, WriteLog, WriterStep,
                WriterStart, WriterTake, WriterWrites, WriterLoses, WriterDies, WriterEnd, vars
  <2> QED BY <2>1, StillStep
<1> QED BY <1>1, <1>2, <1>3, <1>4 DEF Next

\* The invariant of the decoder holds in every behaviour.
THEOREM DInvariance == Spec => []DInv
  BY DInvInit, DInvStep, PTL DEF Spec

-------------------------------------------------------------------------------

\* Every variable keeps its type, for any sizes and bounds.
THEOREM TypeCorrect == Spec => []TypeOK
<1>1. WInv /\ DInv => TypeOK
  <2> SUFFICES ASSUME WInv, DInv PROVE TypeOK
    OBVIOUS
  <2>1. Len(sent) \in Nat
    BY SentFacts DEF DInv, DecoderTypes
  <2>2. consumed \in 0 .. Len(sent) /\ reached \in 0 .. Len(sent)
    BY <2>1 DEF DInv, DecoderTypes, Behind
  <2>3. pending \in 0 .. MaxConnections
    BY DEF WInv, WritingTypes, LinkTypes
  <2> QED BY <2>2, <2>3 DEF WInv, DInv, WritingTypes, LinkTypes, DecoderTypes, TypeOK
<1> QED BY <1>1, WInvariance, DInvariance, PTL

\* A command that has arrived in full has been handed to the listener, however
\* the bytes were cut into reads, up to the first of an unknown type.
THEOREM CompleteCommandsAreDelivered == Spec => []CompleteIsDelivered
<1>1. DInv => CompleteIsDelivered
  BY DEF DInv
<1> QED BY <1>1, DInvariance, PTL

\* Unless a read ended inside a header or a type is unknown, the listener has
\* each command exactly once and in order.
THEOREM ReplaysAreExplained == Spec => []OnceUnlessSplit
<1>1. DInv => OnceUnlessSplit
  <2> SUFFICES ASSUME DInv, ~split, NoneRejected(Len(sent))
               PROVE  delivered = [k \in 1 .. reached |-> k]
    BY DEF OnceUnlessSplit
  <2>1. sent \in Seq(Commands) /\ got \in Nat /\ Len(sent) \in Nat
    BY SentFacts DEF DInv, DecoderTypes
  <2>2. Complete(got) = CompleteOf(sent, got)
    BY DEF Complete, CompleteOf
  <2>3. Complete(got) \in 0 .. Len(sent)
    BY <2>1, <2>2, CompleteProperties
  <2>4. NoneRejected(Complete(got))
    BY <2>1, <2>3 DEF NoneRejected
  <2> QED BY <2>4 DEF DInv, Once
<1> QED BY <1>1, DInvariance, PTL

\* The decoder, with its replays, its rejections and the connections that
\* break, hands the commands over as the abstract stream promises.
THEOREM DecoderImplementsStream == Spec => ImplementsStream
<1>1. Init => Commands_!Init
  BY DEF Init, Commands_!Init
<1>2. DInv /\ [Next]_vars => [Commands_!Next]_<<delivered, reached>>
  <2> SUFFICES ASSUME DInv, [Next]_vars
               PROVE  Commands_!Next \/ UNCHANGED <<delivered, reached>>
    OBVIOUS
  <2>1. CASE Arrival
    <3>1. PICK bytes \in 1 .. (EndOf(Len(sent)) - got) : Receive(bytes)
      BY <2>1 DEF Arrival
    <3> DEFINE m == Complete(got + bytes)
               l == LastDecoded(m)
               handed == [k \in 1 .. (l - consumed) |-> consumed + k]
    <3>2. /\ delivered' = delivered \o handed
          /\ reached' = IF l > reached THEN l ELSE reached
      BY <3>1 DEF Receive, HandOver
    <3>3. l \in consumed .. m /\ m \in 0 .. Len(sent)
      BY <3>1, ReadFacts
    <3>4. /\ consumed \in 0 .. reached /\ reached \in Nat /\ consumed \in Nat
          /\ delivered \in Seq(Nat) /\ Len(sent) \in Nat
      BY SentFacts DEF DInv, DecoderTypes, Behind
    <3> HIDE DEF m, l
    <3>5. l - consumed \in Nat /\ l \in Nat /\ consumed + (l - consumed) = l
      BY <3>3, <3>4
    <3>6. handed \in Seq(Nat) /\ Len(handed) = l - consumed
      <4>1. handed \in Seq(Nat)
        BY <3>4, <3>5, Numbers
      <4> QED BY <3>5, <4>1
    <3>7. CASE l = consumed
      <4>1. handed = <<>>
        BY <3>6, <3>7, <3>4, EmptySeq
      <4>2. delivered' = delivered
        BY <3>2, <3>4, <4>1, ConcatEmptySeq
      <4>3. reached' = reached
        BY <3>2, <3>4, <3>7
      <4> QED BY <4>2, <4>3
    <3>8. CASE l # consumed
      <4>1. Len(delivered') - Len(delivered) = l - consumed
        <5> HIDE DEF handed
        <5>1. Len(delivered') = Len(delivered) + Len(handed)
          BY <3>2, <3>4, <3>6, ConcatProperties
        <5>2. Len(delivered) \in Nat
          BY <3>4, LenProperties
        <5> QED BY <3>5, <3>6, <5>1, <5>2
      <4>2. l - consumed \in 1 .. (Len(delivered') - Len(delivered))
        BY <3>5, <3>3, <3>4, <3>8, <4>1
      <4>3. Commands_!HandOver(consumed, consumed + (l - consumed))
        BY <3>2, <3>3, <3>4, <3>5 DEF Commands_!HandOver
      <4> QED BY <3>4, <4>2, <4>3 DEF Commands_!Next
    <3> QED BY <3>7, <3>8
  <2>2. CASE ~Arrival
    <3>1. UNCHANGED decoder
      BY <2>2 DEF Next, Accept, AcceptorStep, Connected, EndOfConnection, Stop, WriteLog,
                  WriterStep, WriterStart, WriterTake, WriterWrites, WriterLoses, WriterDies,
                  WriterEnd, Send, Disconnect, vars
    <3> QED BY <3>1 DEF decoder
  <2> QED BY <2>1, <2>2
<1> QED BY <1>1, <1>2, DInvariance, PTL DEF Spec, ImplementsStream, Commands_!Spec
===============================================================================
