------------------------------- MODULE Broker -------------------------------
(***************************************************************************)
(* The server: the goroutine requestProcessor.Serve (server/processor.go)  *)
(* with the queues and topics it owns, and one goroutine processLoop for   *)
(* each connection (server/client/conn.go).  They share requestChannel     *)
(* (connections to processor) and the channels subChannel and writeChannel *)
(* of each connection (processor to connection).                           *)
(*                                                                         *)
(* A member of Subs is one Subscription object.  A member of Msgs is the   *)
(* frame of one SEND, turned into a MESSAGE.  What a client sends is the   *)
(* environment's choice, so readLoop and readChannel are not kept: a step  *)
(* of processLoop that handles a frame takes any frame a client may send.  *)
(* Frames outside of transactions only.  DISCONNECT is not an action: it    *)
(* is answered with a RECEIPT and changes nothing, like any receipt.       *)
(***************************************************************************)
EXTENDS Naturals, Sequences, FiniteSets

CONSTANTS
  Conns, Subs, Msgs,        \* connections, subscription objects, messages
  Ids,                      \* subscription ids that clients use
  Queues, Topics,           \* destinations with and without QueuePrefix
  AckModes,                 \* the ack modes this instance uses
  None,                     \* nil
  ReqCap, SubCap, WriteCap, \* capacities of the three channels
  Commands,                 \* bound: the frames that clients send
  FirstAckId,               \* bound: the least message-id in an ACK or NACK
  MaxMsgId,                 \* bound: frames written to one client
  Leaving                   \* bound: connections that may end

Dests == Queues \cup Topics
AllAckModes == {"auto", "client", "client-individual"}

ASSUME NoneAssumption == None \notin Subs \cup Msgs \cup Conns \cup Ids \cup Dests
ASSUME DestAssumption == Queues \cap Topics = {}
ASSUME AckAssumption  == AckModes \subseteq AllAckModes
ASSUME BrokerCaps ==
  /\ {ReqCap, SubCap, WriteCap} \subseteq Nat \ {0}
  /\ MaxMsgId \in Nat /\ FirstAckId \in Nat
ASSUME LeavingAssumption == Leaving \subseteq Conns

VARIABLES
  \* per connection
  phase,     \* "run", or how far cleanupConn is
  subs,      \* Conn.subs: the subscription object of an id
  subList,   \* Conn.subList: those with a frame to be acknowledged
  out,       \* requests that the running handler has still to send
  subCh, writeCh,  \* subChannel and writeChannel
  log,       \* what was written to the client; the message-id is the position
  \* per subscription object
  attr,      \* its connection, id, destination and ack mode
  frame,     \* Subscription.frame
  inList,    \* Subscription.subList # nil
  \* processor
  requestCh,
  procOut,   \* sends that the running request has still to do
  storage,   \* MemoryQueueStorage: the frames of a queue
  waiting,   \* Queue.subs and Topic.subs
  panicked,  \* the subscription whose handling made the server panic
  \* history
  dest,      \* the destination of a message that was sent
  settled,   \* messages given up after auto delivery or an ACK
  dropped,   \* queue messages whose write to the client failed
  owed       \* topic messages that were sent while a subscription was listed

connVars == <<phase, subs, subList, out, subCh, writeCh, log>>
subVars  == <<attr, frame, inList>>
procVars == <<requestCh, procOut, storage, waiting>>
histVars == <<dest, settled, dropped, owed>>
vars == <<connVars, subVars, procVars, histVars, panicked>>

NoAttr == [conn |-> None, id |-> None, dest |-> None, ack |-> None]
Requests == [op : {"Subscribe", "Unsubscribe"}, sub : Subs, msg : {None}]
       \cup [op : {"Enqueue", "Requeue"}, sub : {None}, msg : Msgs]
       \cup [op : {"Disconnected"}, sub : {None}, msg : {None}]
Deliveries == [sub : Subs, msg : Msgs]

TypeOK ==
  /\ phase \in [Conns -> {"run", "unsub", "drain1", "disc", "drain2", "closed"}]
  /\ subs \in [Conns -> [Ids -> Subs \cup {None}]]
  /\ subList \in [Conns -> Seq(Subs)]
  /\ out \in [Conns -> Seq(Requests)]
  /\ subCh \in [Conns -> Seq(Subs)]
  /\ writeCh \in [Conns -> Seq(Deliveries)]
  /\ log \in [Conns -> Seq(Deliveries)]
  /\ attr \in [Subs -> {NoAttr} \cup
                 [conn : Conns, id : Ids, dest : Dests, ack : AckModes]]
  /\ frame \in [Subs -> Msgs \cup {None}]
  /\ inList \in [Subs -> BOOLEAN]
  /\ requestCh \in Seq(Requests)
  /\ procOut \in Seq(Deliveries)
  /\ storage \in [Queues -> Seq(Msgs)]
  /\ waiting \in [Dests -> Seq(Subs)]
  /\ panicked \in Subs \cup {None}
  /\ dest \in [Msgs -> Dests \cup {None}]
  /\ settled \subseteq Msgs /\ dropped \subseteq Msgs
  /\ owed \in [Subs -> SUBSET Msgs]

\* The server runs and the connections are established.
Init ==
  /\ phase = [k \in Conns |-> "run"]
  /\ subs = [k \in Conns |-> [i \in Ids |-> None]]
  /\ subList = [k \in Conns |-> <<>>]
  /\ out = [k \in Conns |-> <<>>]
  /\ subCh = [k \in Conns |-> <<>>]
  /\ writeCh = [k \in Conns |-> <<>>]
  /\ log = [k \in Conns |-> <<>>]
  /\ attr = [s \in Subs |-> NoAttr]
  /\ frame = [s \in Subs |-> None]
  /\ inList = [s \in Subs |-> FALSE]
  /\ requestCh = <<>>
  /\ procOut = <<>>
  /\ storage = [q \in Queues |-> <<>>]
  /\ waiting = [d \in Dests |-> <<>>]
  /\ panicked = None
  /\ dest = [m \in Msgs |-> None]
  /\ settled = {} /\ dropped = {}
  /\ owed = [s \in Subs |-> {}]
-----------------------------------------------------------------------------
(***************************************************************************)
(* processLoop of a connection.  A handler computes the requests it makes; *)
(* they leave one by one as requestChannel has room, and nothing else of   *)
(* this goroutine happens meanwhile.                                       *)
(***************************************************************************)
SubscribeReq(s)   == [op |-> "Subscribe", sub |-> s, msg |-> None]
UnsubscribeReq(s) == [op |-> "Unsubscribe", sub |-> s, msg |-> None]
EnqueueReq(m)     == [op |-> "Enqueue", sub |-> None, msg |-> m]
RequeueReq(m)     == [op |-> "Requeue", sub |-> None, msg |-> m]
DisconnectedReq   == [op |-> "Disconnected", sub |-> None, msg |-> None]

\* A panic ends the whole process.
PanicIf(c, s) == panicked' = IF c THEN s ELSE None
Running(k) == panicked = None /\ phase[k] = "run" /\ out[k] = <<>>

PutRequest(k) ==
  /\ panicked = None /\ out[k] # <<>>
  /\ Len(requestCh) < ReqCap
  /\ requestCh' = Append(requestCh, Head(out[k]))
  /\ out' = [out EXCEPT ![k] = Tail(@)]
  /\ UNCHANGED <<phase, subs, subList, subCh, writeCh, log, subVars, procOut,
                 storage, waiting, histVars, panicked>>

\* SUBSCRIBE with an id that is not in use; a new Subscription object.
HandleSubscribe(k) ==
  /\ Running(k) /\ "SUBSCRIBE" \in Commands
  /\ \E s \in Subs, i \in Ids, d \in Dests, a \in AckModes :
       /\ attr[s] = NoAttr /\ subs[k][i] = None
       /\ attr' = [attr EXCEPT ![s] = [conn |-> k, id |-> i, dest |-> d, ack |-> a]]
       /\ subs' = [subs EXCEPT ![k][i] = s]
       /\ out' = [out EXCEPT ![k] = <<SubscribeReq(s)>>]
  /\ UNCHANGED <<phase, subList, subCh, writeCh, log, frame, inList,
                 procVars, histVars, panicked>>

HandleUnsubscribe(k) ==
  /\ Running(k) /\ "UNSUBSCRIBE" \in Commands
  /\ \E i \in Ids :
       /\ subs[k][i] # None
       /\ subs' = [subs EXCEPT ![k][i] = None]
       /\ out' = [out EXCEPT ![k] = <<UnsubscribeReq(subs[k][i])>>]
  /\ UNCHANGED <<phase, subList, subCh, writeCh, log, subVars, procVars,
                 histVars, panicked>>

HandleSend(k) ==
  /\ Running(k) /\ "SEND" \in Commands
  /\ \E m \in Msgs, d \in Dests :
       /\ dest[m] = None
       /\ dest' = [dest EXCEPT ![m] = d]
       /\ out' = [out EXCEPT ![k] = <<EnqueueReq(m)>>]
  /\ UNCHANGED <<phase, subs, subList, subCh, writeCh, log, subVars,
                 procVars, settled, dropped, owed, panicked>>

\* Subscription.msgId: nothing assigns it.  IsAckedBy panics on an ack header
\* with any other value; AckAssumption leaves such subscriptions out.
MsgId(s) == 0
IsAckedBy(s, n) == CASE attr[s].ack = "auto"   -> TRUE
                     [] attr[s].ack = "client" -> n >= MsgId(s)
                     [] OTHER                  -> n = MsgId(s)
IsNackedBy(s, n) == n = MsgId(s)

\* The requests of an ACK and of a NACK for the subscriptions in ss.
AckReqs(ss)  == [i \in DOMAIN ss |-> SubscribeReq(ss[i])]
NackReqs(ss) == [j \in 1 .. 2 * Len(ss) |->
                   LET s == ss[(j + 1) \div 2]
                   IN  IF j % 2 = 1 THEN RequeueReq(frame[s]) ELSE SubscribeReq(s)]

\* The positions in I from front to back, as a walk over the list meets them.
Ascending(I) == {f \in [1 .. Cardinality(I) -> I] :
                   /\ \A i, j \in DOMAIN f : i < j => f[i] < f[j]
                   /\ \A x \in I : \E i \in DOMAIN f : f[i] = x}
Pick(l, f) == [i \in DOMAIN f |-> l[f[i]]]

AckedAt(k, n)  == {i \in DOMAIN subList[k] : IsAckedBy(subList[k][i], n)}
NackedAt(k, n) == {i \in DOMAIN subList[k] : IsNackedBy(subList[k][i], n)}

\* ACK and NACK take the subscriptions at I out of subList and clear their
\* frames.  They do not clear Subscription.subList.
Taken(k, I) == {subList[k][i] : i \in I}
TakeOut(k, I) ==
  /\ \E g \in Ascending(DOMAIN subList[k] \ I) :
       subList' = [subList EXCEPT ![k] = Pick(@, g)]
  /\ frame' = [s \in Subs |-> IF s \in Taken(k, I) THEN None ELSE frame[s]]

HandleAck(k) ==
  /\ Running(k) /\ "ACK" \in Commands
  /\ \E n \in FirstAckId .. Len(log[k]) :
       /\ \E f \in Ascending(AckedAt(k, n)) :
            out' = [out EXCEPT ![k] = AckReqs(Pick(subList[k], f))]
       /\ TakeOut(k, AckedAt(k, n))
       /\ settled' = settled \cup {frame[s] : s \in Taken(k, AckedAt(k, n))}
  /\ UNCHANGED <<phase, subs, subCh, writeCh, log, attr, inList, procVars,
                 dest, dropped, owed, panicked>>

HandleNack(k) ==
  /\ Running(k) /\ "NACK" \in Commands
  /\ \E n \in FirstAckId .. Len(log[k]) :
       /\ \E f \in Ascending(NackedAt(k, n)) :
            out' = [out EXCEPT ![k] = NackReqs(Pick(subList[k], f))]
       /\ TakeOut(k, NackedAt(k, n))
  /\ UNCHANGED <<phase, subs, subCh, writeCh, log, attr, inList, procVars,
                 histVars, panicked>>

\* One subscription from subChannel is written to the client.  Only the id is
\* looked up: it may name another Subscription object by now.
Written(k, s, m) ==
  /\ Len(log[k]) < MaxMsgId
  /\ log' = [log EXCEPT ![k] = Append(@, [sub |-> s, msg |-> m])]

\* Mutant: the frame is not cleared.
WriteAutoKeepsFrame(k) ==
  /\ Running(k) /\ subCh[k] # <<>>
  /\ LET s == Head(subCh[k]) IN
       /\ subs[k][attr[s].id] # None /\ attr[s].ack = "auto"
       /\ Written(k, s, frame[s])
       /\ settled' = settled \cup {frame[s]}
       /\ out' = [out EXCEPT ![k] = <<SubscribeReq(s)>>]
  /\ subCh' = [subCh EXCEPT ![k] = Tail(@)]
  /\ UNCHANGED <<phase, subs, subList, writeCh, subVars, procVars,
                 dest, dropped, owed, panicked>>

\* Mutant: the subscription is not given back to the processor.
WriteAutoNoResubscribe(k) ==
  /\ Running(k) /\ subCh[k] # <<>>
  /\ LET s == Head(subCh[k]) IN
       /\ subs[k][attr[s].id] # None /\ attr[s].ack = "auto"
       /\ Written(k, s, frame[s])
       /\ settled' = settled \cup {frame[s]}
       /\ frame' = [frame EXCEPT ![s] = None]
  /\ subCh' = [subCh EXCEPT ![k] = Tail(@)]
  /\ UNCHANGED <<phase, subs, subList, out, writeCh, attr, inList, procVars,
                 dest, dropped, owed, panicked>>

WriteAuto(k) ==
  /\ Running(k) /\ subCh[k] # <<>>
  /\ LET s == Head(subCh[k]) IN
       /\ subs[k][attr[s].id] # None /\ attr[s].ack = "auto"
       /\ Written(k, s, frame[s])
       /\ settled' = settled \cup {frame[s]}
       /\ frame' = [frame EXCEPT ![s] = None]
       /\ out' = [out EXCEPT ![k] = <<SubscribeReq(s)>>]
  /\ subCh' = [subCh EXCEPT ![k] = Tail(@)]
  /\ UNCHANGED <<phase, subs, subList, writeCh, attr, inList, procVars,
                 dest, dropped, owed, panicked>>

WriteForAck(k) ==
  /\ Running(k) /\ subCh[k] # <<>>
  /\ LET s == Head(subCh[k]) IN
       /\ subs[k][attr[s].id] # None /\ attr[s].ack # "auto"
       /\ Written(k, s, frame[s])
       /\ subList' = [subList EXCEPT ![k] = Append(@, s)]
       /\ inList' = [inList EXCEPT ![s] = TRUE]
       /\ PanicIf(inList[s], s)
  /\ subCh' = [subCh EXCEPT ![k] = Tail(@)]
  /\ UNCHANGED <<phase, subs, out, writeCh, attr, frame, procVars, histVars>>

\* Mutant: the frame of an unsubscribed subscription is written and requeued.
SendBackWritten(k) ==
  /\ Running(k) /\ subCh[k] # <<>>
  /\ LET s == Head(subCh[k]) IN
       /\ subs[k][attr[s].id] = None
       /\ Written(k, s, frame[s])
       /\ settled' = settled \cup {frame[s]}
       /\ out' = [out EXCEPT ![k] = <<RequeueReq(frame[s])>>]
  /\ subCh' = [subCh EXCEPT ![k] = Tail(@)]
  /\ UNCHANGED <<phase, subs, subList, writeCh, subVars, procVars,
                 dest, dropped, owed, panicked>>

\* Mutant: the frame of an unsubscribed subscription is dropped.
SendBackDropped(k) ==
  /\ Running(k) /\ subCh[k] # <<>>
  /\ subs[k][attr[Head(subCh[k])].id] = None
  /\ subCh' = [subCh EXCEPT ![k] = Tail(@)]
  /\ UNCHANGED <<phase, subs, subList, out, writeCh, log, subVars, procVars,
                 histVars, panicked>>

\* The subscription has been unsubscribed meanwhile.
SendBack(k) ==
  /\ Running(k) /\ subCh[k] # <<>>
  /\ LET s == Head(subCh[k]) IN
       /\ subs[k][attr[s].id] = None
       /\ out' = [out EXCEPT ![k] = <<RequeueReq(frame[s])>>]
  /\ subCh' = [subCh EXCEPT ![k] = Tail(@)]
  /\ UNCHANGED <<phase, subs, subList, writeCh, log, subVars, procVars,
                 histVars, panicked>>

\* A topic frame from writeChannel is written to the client.
WriteTopic(k) ==
  /\ Running(k) /\ writeCh[k] # <<>>
  /\ Written(k, Head(writeCh[k]).sub, Head(writeCh[k]).msg)
  /\ writeCh' = [writeCh EXCEPT ![k] = Tail(@)]
  /\ UNCHANGED <<phase, subs, subList, out, subCh, subVars, procVars,
                 histVars, panicked>>
-----------------------------------------------------------------------------
(***************************************************************************)
(* cleanupConn.                                                            *)
(***************************************************************************)

\* The sequences in which the range over a map can visit the members of S.
Orders(S) == {o \in [1 .. Cardinality(S) -> S] :
                \A x \in S : \E i \in DOMAIN o : o[i] = x}

Known(k) == {subs[k][i] : i \in Ids} \ {None}
Acking(k) == {subList[k][i] : i \in DOMAIN subList[k]}

\* Mutant: the frames are requeued, the subscriptions stay with the queues.
CleanupConnSubscribed(k) ==
  /\ phase' = [phase EXCEPT ![k] = "unsub"]
  /\ out' = [out EXCEPT ![k] =
                 [i \in DOMAIN subList[k] |-> RequeueReq(frame[subList[k][i]])]]
  /\ subs' = [subs EXCEPT ![k] = [i \in Ids |-> None]]
  /\ inList' = [s \in Subs |-> inList[s] /\ s \notin Acking(k)]
  /\ subList' = [subList EXCEPT ![k] = <<>>]

\* cleanupConn up to its second discardWriteChannelFrames: unsubscribe all
\* that Conn.subs has, then requeue the frames of subList.
CleanupConn(k) ==
  /\ phase' = [phase EXCEPT ![k] = "unsub"]
  /\ \E o \in Orders(Known(k)) :
       out' = [out EXCEPT ![k] =
                 [i \in DOMAIN o |-> UnsubscribeReq(o[i])] \o
                 [i \in DOMAIN subList[k] |-> RequeueReq(frame[subList[k][i]])]]
  /\ subs' = [subs EXCEPT ![k] = [i \in Ids |-> None]]
  /\ inList' = [s \in Subs |-> inList[s] /\ s \notin Acking(k)]
  /\ subList' = [subList EXCEPT ![k] = <<>>]

\* readChannel is closed, a frame is invalid, a handler fails (an unknown id,
\* an id in use, an unknown command ...) or a heart-beat or a topic frame
\* cannot be written.
Leave(k) ==
  /\ Running(k) /\ k \in Leaving
  /\ CleanupConn(k)
  /\ writeCh' = [writeCh EXCEPT ![k] = <<>>]
  /\ UNCHANGED <<subCh, log, attr, frame, procVars, histVars, panicked>>

\* The frame of a subscription cannot be written: the subscription has left
\* subChannel and is not in subList.
WriteFail(k) ==
  /\ Running(k) /\ k \in Leaving
  /\ subCh[k] # <<>> /\ subs[k][attr[Head(subCh[k])].id] # None
  /\ CleanupConn(k)
  /\ subCh' = [subCh EXCEPT ![k] = Tail(@)]
  /\ writeCh' = [writeCh EXCEPT ![k] = <<>>]
  /\ dropped' = dropped \cup {frame[Head(subCh[k])]}
  /\ UNCHANGED <<log, attr, frame, procVars, dest, settled, owed, panicked>>

\* discardWriteChannelFrames before each cleanupSubChannel.
Discard(k) ==
  /\ panicked = None /\ phase[k] \in {"unsub", "disc"} /\ out[k] = <<>>
  /\ phase' = [phase EXCEPT ![k] = IF @ = "unsub" THEN "drain1" ELSE "drain2"]
  /\ writeCh' = [writeCh EXCEPT ![k] = <<>>]
  /\ UNCHANGED <<subs, subList, out, subCh, log, subVars, procVars, histVars,
                 panicked>>

\* Mutant: the request is made without its frame.
DrainOneCleared(k) ==
  /\ panicked = None /\ phase[k] \in {"drain1", "drain2"} /\ out[k] = <<>>
  /\ subCh[k] # <<>>
  /\ out' = [out EXCEPT ![k] = <<RequeueReq(None)>>]
  /\ subCh' = [subCh EXCEPT ![k] = Tail(@)]
  /\ UNCHANGED <<phase, subs, subList, writeCh, log, subVars, procVars,
                 histVars, panicked>>

\* cleanupSubChannel: requeue one, or go on when the channel is empty.
DrainOne(k) ==
  /\ panicked = None /\ phase[k] \in {"drain1", "drain2"} /\ out[k] = <<>>
  /\ subCh[k] # <<>>
  /\ out' = [out EXCEPT ![k] = <<RequeueReq(frame[Head(subCh[k])])>>]
  /\ subCh' = [subCh EXCEPT ![k] = Tail(@)]
  /\ UNCHANGED <<phase, subs, subList, writeCh, log, subVars, procVars,
                 histVars, panicked>>

DrainEnd(k) ==
  /\ panicked = None /\ phase[k] \in {"drain1", "drain2"} /\ out[k] = <<>>
  /\ subCh[k] = <<>>
  /\ phase' = [phase EXCEPT ![k] = IF @ = "drain1" THEN "disc" ELSE "closed"]
  /\ out' = [out EXCEPT ![k] =
               IF phase[k] = "drain1" THEN <<DisconnectedReq>> ELSE <<>>]
  /\ UNCHANGED <<subs, subList, subCh, writeCh, log, subVars, procVars,
                 histVars, panicked>>
-----------------------------------------------------------------------------
(***************************************************************************)
(* requestProcessor.Serve.  A request is handled when the sends of the one *)
(* before it are done.                                                     *)
(***************************************************************************)
Serve(op) ==
  /\ panicked = None /\ procOut = <<>> /\ requestCh # <<>> /\ Head(requestCh).op = op
  /\ requestCh' = Tail(requestCh)

\* SubscriptionList.Remove and Topic.Unsubscribe: the first occurrence of s.
Without(l, s) ==
  LET at == {i \in DOMAIN l : l[i] = s}
      first == CHOOSE i \in at : \A j \in at : i <= j
  IN  IF at = {} THEN l
      ELSE [i \in 1 .. Len(l) - 1 |-> IF i < first THEN l[i] ELSE l[i + 1]]

\* Mutant: the subscription is listed even when a frame is stored.
ServeSubscribeListed ==
  /\ Serve("Subscribe")
  /\ LET s == Head(requestCh).sub
         d == attr[s].dest
     IN  /\ waiting' = [waiting EXCEPT ![d] = Append(@, s)]
         /\ PanicIf(d \in Queues /\ inList[s], s)
         /\ inList' = [inList EXCEPT ![s] = d \in Queues]
  /\ UNCHANGED <<connVars, attr, frame, procOut, storage, histVars>>

\* SubscriptionList.Add panics when Subscription.subList is set.
ServeSubscribe ==
  /\ Serve("Subscribe")
  /\ LET s == Head(requestCh).sub
         d == attr[s].dest
     IN  \/ /\ d \in Topics
            /\ waiting' = [waiting EXCEPT ![d] = Append(@, s)]
            /\ UNCHANGED <<storage, inList, frame, procOut, panicked>>
         \/ /\ d \in Queues /\ storage[d] = <<>>
            /\ waiting' = [waiting EXCEPT ![d] = Append(@, s)]
            /\ PanicIf(inList[s], s)
            /\ inList' = [inList EXCEPT ![s] = TRUE]
            /\ UNCHANGED <<storage, frame, procOut>>
         \/ /\ d \in Queues /\ storage[d] # <<>>
            /\ storage' = [storage EXCEPT ![d] = Tail(@)]
            /\ PanicIf(frame[s] # None, s)
            /\ frame' = [frame EXCEPT ![s] = Head(storage[d])]
            /\ procOut' = <<[sub |-> s, msg |-> Head(storage[d])]>>
            /\ UNCHANGED <<waiting, inList>>
  /\ UNCHANGED <<connVars, attr, histVars>>

ServeUnsubscribe ==
  /\ Serve("Unsubscribe")
  /\ LET s == Head(requestCh).sub
         d == attr[s].dest
         listed == \E i \in DOMAIN waiting[d] : waiting[d][i] = s
     IN  /\ waiting' = [waiting EXCEPT ![d] = Without(@, s)]
         /\ inList' = IF d \in Queues /\ listed
                       THEN [inList EXCEPT ![s] = FALSE] ELSE inList
         /\ owed' = IF d \in Topics THEN [owed EXCEPT ![s] = {}] ELSE owed
  /\ UNCHANGED <<connVars, attr, frame, procOut, storage, dest, settled,
                 dropped, panicked>>

\* Queue.Enqueue and Queue.Requeue: to a waiting subscription, or stored.
ToQueue(m, stored) ==
  LET q == dest[m] IN
  \/ /\ waiting[q] = <<>>
     /\ storage' = [storage EXCEPT ![q] = stored]
     /\ UNCHANGED <<waiting, inList, frame, procOut, panicked>>
  \/ /\ waiting[q] # <<>>
     /\ LET s == Head(waiting[q]) IN
          /\ PanicIf(frame[s] # None, s)
          /\ frame' = [frame EXCEPT ![s] = m]
          /\ inList' = [inList EXCEPT ![s] = FALSE]
          /\ procOut' = <<[sub |-> s, msg |-> m]>>
     /\ waiting' = [waiting EXCEPT ![q] = Tail(@)]
     /\ UNCHANGED storage

ServeEnqueueQueue ==
  /\ Serve("Enqueue")
  /\ LET m == Head(requestCh).msg IN
       dest[m] \in Queues /\ ToQueue(m, Append(storage[dest[m]], m))
  /\ UNCHANGED <<connVars, attr, histVars>>

\* Mutant: the frame goes to the end of the queue.
ServeRequeueBehind ==
  /\ Serve("Requeue")
  /\ LET m == Head(requestCh).msg IN ToQueue(m, Append(storage[dest[m]], m))
  /\ UNCHANGED <<connVars, attr, histVars>>

ServeRequeue ==
  /\ Serve("Requeue")
  /\ LET m == Head(requestCh).msg IN ToQueue(m, <<m>> \o storage[dest[m]])
  /\ UNCHANGED <<connVars, attr, histVars>>

\* Topic.Enqueue: a copy for every subscription.
ServeEnqueueTopic ==
  /\ Serve("Enqueue")
  /\ LET m == Head(requestCh).msg
         l == waiting[dest[m]]
     IN  /\ dest[m] \in Topics
         /\ procOut' = [i \in DOMAIN l |-> [sub |-> l[i], msg |-> m]]
         /\ owed' = [s \in Subs |-> IF \E i \in DOMAIN l : l[i] = s
                                    THEN owed[s] \cup {m} ELSE owed[s]]
  /\ UNCHANGED <<connVars, subVars, storage, waiting, dest, settled,
                 dropped, panicked>>

ServeOther ==
  /\ Serve("Disconnected")
  /\ UNCHANGED <<connVars, subVars, procOut, storage, waiting, histVars, panicked>>

\* Mutant: a topic frame is dropped when the client's channel is full.
ProcSendDropping ==
  /\ panicked = None /\ procOut # <<>>
  /\ LET p == Head(procOut)
         k == attr[p.sub].conn
     IN  \/ /\ dest[p.msg] \in Queues /\ Len(subCh[k]) < SubCap
            /\ subCh' = [subCh EXCEPT ![k] = Append(@, p.sub)]
            /\ UNCHANGED writeCh
         \/ /\ dest[p.msg] \in Topics
            /\ writeCh' = [writeCh EXCEPT ![k] =
                             IF Len(@) < WriteCap THEN Append(@, p) ELSE @]
            /\ UNCHANGED subCh
  /\ procOut' = Tail(procOut)
  /\ UNCHANGED <<phase, subs, subList, out, log, subVars, requestCh, storage,
                 waiting, histVars, panicked>>

\* SendQueueFrame and SendTopicFrame: the send waits for room in the channel of
\* the connection, whatever that connection is doing.
ProcSend ==
  /\ panicked = None /\ procOut # <<>>
  /\ LET p == Head(procOut)
         k == attr[p.sub].conn
     IN  \/ /\ dest[p.msg] \in Queues /\ Len(subCh[k]) < SubCap
            /\ subCh' = [subCh EXCEPT ![k] = Append(@, p.sub)]
            /\ UNCHANGED writeCh
         \/ /\ dest[p.msg] \in Topics /\ Len(writeCh[k]) < WriteCap
            /\ writeCh' = [writeCh EXCEPT ![k] = Append(@, p)]
            /\ UNCHANGED subCh
  /\ procOut' = Tail(procOut)
  /\ UNCHANGED <<phase, subs, subList, out, log, subVars, requestCh, storage,
                 waiting, histVars, panicked>>
-----------------------------------------------------------------------------
\* The frames that a client may send.
Handle(k) == \/ HandleSubscribe(k) \/ HandleUnsubscribe(k) \/ HandleSend(k)
             \/ HandleAck(k) \/ HandleNack(k)
\* processLoop writing to the client.
WriteOut(k) == WriteAuto(k) \/ WriteForAck(k) \/ WriteTopic(k)
\* Steps of a connection that wait neither for the client nor for the network.
Internal(k) == PutRequest(k) \/ SendBack(k) \/ Discard(k) \/ DrainOne(k) \/ DrainEnd(k)
Proc == \/ ServeSubscribe \/ ServeUnsubscribe \/ ServeEnqueueQueue \/ ServeRequeue
        \/ ServeEnqueueTopic \/ ServeOther \/ ProcSend

Next ==
  \/ \E k \in Conns : \/ Handle(k) \/ WriteOut(k) \/ Internal(k)
                       \/ Leave(k) \/ WriteFail(k)
  \/ Proc

Spec == Init /\ [][Next]_vars

(***************************************************************************)
(* The goroutines run.  That clients read what is written to them is a     *)
(* separate assumption, which only ReadingSpec makes.                      *)
(***************************************************************************)
FairSpec == /\ Spec
            /\ \A k \in Conns : WF_vars(Internal(k))
            /\ WF_vars(Proc)
ReadingSpec == FairSpec /\ \A k \in Conns : WF_vars(WriteOut(k))
-----------------------------------------------------------------------------
(***************************************************************************)
(* Properties.                                                             *)
(***************************************************************************)

\* An auto subscription never makes the server panic, neither with "subscription
\* is already in a subscription list" nor with "subscription already has a frame
\* pending", whatever acknowledgements the other subscriptions use.
NoPanic == panicked # None => attr[panicked].ack # "auto"

\* The same of every subscription; the code does not keep it (BrokerAckPanic).
NeverPanics == panicked = None

\* A stored frame means that nobody waits: Queue.Subscribe, Enqueue and
\* Requeue never leave a frame and a ready subscription apart.
NobodyWaits == \A q \in Queues : storage[q] # <<>> => waiting[q] = <<>>

\* Where a queue message is: the storage, a request, or the Subscription
\* object that it is allocated to.
At(l, P(_)) == {i \in DOMAIN l : P(l[i])}
Owners(m) ==
  LET isM(x)   == x = m
      reqM(r)  == r.msg = m
      subM(s)  == frame[s] = m
  IN  ({<<"store", None>>} \X At(storage[dest[m]], isM))
        \cup ({<<"request", None>>} \X At(requestCh, reqM))
        \cup ({<<"proc", None>>} \X At(procOut, reqM))
        \cup UNION {({<<"out", k>>} \X At(out[k], reqM))
                      \cup ({<<"subCh", k>>} \X At(subCh[k], subM))
                      \cup ({<<"subList", k>>} \X At(subList[k], subM)) : k \in Conns}

\* A queue message is never in two places, and in none once it was written to
\* an auto subscription or acknowledged: it is not delivered twice, whatever
\* unsubscribes, disconnects and requeues happen on the way.
OneOwner ==
  \A m \in Msgs : dest[m] \in Queues =>
    /\ Cardinality(Owners(m)) <= 1
    /\ m \in settled => Owners(m) = {}

\* A connection that is closed, with no request about it outstanding, has no
\* subscription left in any queue or topic.  It is claimed of connections that
\* had only auto subscriptions and used no subscription id twice.
SubsOf(k) == {s \in Subs : attr[s].conn = k}
Plain(k) == \A s, t \in SubsOf(k) : /\ attr[s].ack = "auto"
                                    /\ s # t => attr[s].id # attr[t].id
NoGhost ==
  \A k \in Conns :
    /\ phase[k] = "closed" /\ Plain(k)
    /\ \A i \in DOMAIN requestCh : requestCh[i].sub \notin SubsOf(k)
    => \A d \in Dests : \A i \in DOMAIN waiting[d] : waiting[d][i] \notin SubsOf(k)

\* A message that a topic took while a subscription was listed reaches the
\* client exactly once as long as the connection runs.
Copies(s, m) ==
  LET k == attr[s].conn
      here(x) == x = [sub |-> s, msg |-> m]
  IN  ({"proc"} \X At(procOut, here)) \cup ({"writeCh"} \X At(writeCh[k], here))
        \cup ({"log"} \X At(log[k], here))
TopicExactlyOnce ==
  \A s \in Subs : \A m \in owed[s] :
    phase[attr[s].conn] = "run" => Cardinality(Copies(s, m)) = 1

\* A message sent to a queue with a subscription is delivered in the end, if
\* the connections stay and the clients read.
QueueServed ==
  \A m \in Msgs, s \in Subs :
    (dest[m] \in Queues /\ attr[s].dest = dest[m]) ~> m \in settled
-----------------------------------------------------------------------------
(***************************************************************************)
(* The queues keep the promises of MessageQueue.  A message is held by the *)
(* connection of the Subscription object it is allocated to, from the      *)
(* moment the processor picks that object.                                 *)
(***************************************************************************)
ToQueues(m) == dest[m] \in Queues
Requested == {requestCh[i] : i \in DOMAIN requestCh}
               \cup UNION {{out[k][i] : i \in DOMAIN out[k]} : k \in Conns}
Asked(op) == {r.msg : r \in {x \in Requested : x.op = op /\ ToQueues(x.msg)}}
HandedTo(k) ==
  LET mine(p) == attr[p.sub].conn = k /\ ToQueues(p.msg)
  IN  {procOut[i].msg : i \in At(procOut, mine)}
        \cup {frame[subCh[k][i]] : i \in DOMAIN subCh[k]}
HeldBy(k) == HandedTo(k) \cup {frame[subList[k][i]] : i \in DOMAIN subList[k]}

MQ == INSTANCE MessageQueue WITH
        up      <- panicked = None,
        to      <- [m \in Msgs |-> IF ToQueues(m) THEN dest[m] ELSE None],
        sent    <- Asked("Enqueue"),
        queue   <- storage,
        held    <- [k \in Conns |-> HeldBy(k)],
        back    <- Asked("Requeue"),
        settled <- settled,
        lost    <- dropped

\* Every step of the server is a step of MessageQueue or changes nothing of it:
\* a queue is served in order, a message that comes back comes back to the
\* front, and each message is settled or lost once.
QueueRefinement == MQ!Spec

\* While the server lives, a message sent to a queue is stored, requested of the
\* processor or held by a connection that has not closed, until it has been
\* delivered or acknowledged.  cleanupConn is documented as "re-queueing all
\* unacknowledged messages to the upper layer", and the code has two exceptions.
\* A message whose write to the client failed is in neither list that cleanupConn
\* goes through.  And a message that the processor hands to a connection after
\* its last cleanupSubChannel, before it comes to the Unsubscribe or because a
\* NACK had subscribed again, is stranded in a subChannel that nobody reads any
\* more.  What a client got and did not acknowledge is not lost with it.
Stranded(m) == \E k \in Conns : phase[k] = "closed" /\ m \in HandedTo(k)
Safe(m) == \/ \E i \in DOMAIN storage[dest[m]] : storage[dest[m]][i] = m
           \/ m \in Asked("Enqueue") \cup Asked("Requeue")
           \/ \E k \in Conns : phase[k] # "closed" /\ m \in HeldBy(k)
NoLoss ==
  \A m \in Msgs : panicked = None /\ ToQueues(m) =>
    m \in settled \cup dropped \/ Safe(m) \/ Stranded(m)
=============================================================================
