# TLA+ models of go-stomp

go-stomp is a STOMP client library (package `stomp`) and a small STOMP server
(package `server`, command `stompd`). Both are made of goroutines that share
channels. This directory models them in TLA+: what the goroutines do step by
step, what must hold in every interleaving (checked with TLC on small
instances) and, for everything but the frame codec, theorems that TLAPS proves
for every instance.

    tlc -config ClientConnSafety.cfg MCClientConn     # any run of PROJECT.json
    tlapm ClientConnProofs.tla                        # any module *Proofs

## The system

| Component | State | Operations | Talks to |
|---|---|---|---|
| Client connection (`conn.go`) | `closed` and `closeMutex`, `writeCh`, `readCh`, the map `channels` of processLoop, the socket | Send, Subscribe, sendFrame (Ack, Nack, Begin, transactions, Unsubscribe), Disconnect, MustDisconnect; goroutines readLoop and processLoop | calls push requests on `writeCh`; processLoop answers on one unbuffered channel per call and one per subscription |
| Client subscription (`subscription.go`) | `state`, `C`, `closeOnce`, `closeCond` | readLoop, Unsubscribe, waitWithTimeout, closeChannel, Read | processLoop hands it frames; the application reads `C` |
| Options and heart-beats (`conn_options.go`, `frame/heartbeat.go`, `server/client/frame.go`, `util.go`) | timeouts of both sides | CONNECT, CONNECTED, four timers | both processLoops and the server's readLoop |
| Client transactions, messages (`transaction.go`, `message.go`, `ack.go`) | `completed` | Send, Ack, Nack, Commit, Abort | sendFrame |
| Server connection (`server/client/conn.go`) | `subs`, `subList`, `subChannel`, `writeChannel`, `lastMsgId`, `txStore` | readLoop, processLoop, one handler per command, cleanupConn | requests to the processor over `requestChannel` |
| Subscription objects and lists (`server/client/subscription*.go`) | `frame`, `subList`, `msgId` | Add, Get, Remove, Ack, Nack, IsAckedBy, SendQueueFrame, SendTopicFrame | owned in turn by a connection and by a queue |
| Request processor (`server/processor.go`) | `ch`, the managers | Serve, Listen | sends to the channels of every connection |
| Queues, storage, topics (`server/queue`, `server/topic`) | stored frames, waiting subscriptions | Subscribe, Unsubscribe, Enqueue, Requeue | called by the processor only |
| Transaction store (`server/client/tx_store.go`) | frames by transaction | Begin, Add, Commit, Abort | handlers of the connection |
| Frame codec (`frame/`) | bytes of a stream, header entries | Read, Write, Header | both sides' goroutines |
| Versions, validator, ids, errors, logging | none or local | constants, formatting | - |

What is hard here, and what would make each part correct:

* **Client connection.** Every send on a response channel is unbuffered and made
  by the one goroutine that also reads, writes and keeps the heart-beats. Calls
  hold `closeMutex` across blocking steps. Shutdown comes from five sides
  (Disconnect, MustDisconnect, ERROR, a failed read or write, a heart-beat).
  Correct means: nobody sends on a closed channel, a receipt is reported only
  when it came, calls return, and processLoop cannot be wedged.
* **Client subscription.** Two goroutines may close `C`; a condition variable, a
  timer and an atomic state are combined without one lock. Correct means: `C`
  is closed once and after the last message, and Unsubscribe returns.
* **Server.** A queue message travels between storage, request channel,
  subscription object, connection and client. Connections break at any step.
  Correct means: a message is in exactly one place until it is delivered, a
  stored message never coexists with a waiting subscription, closed connections
  leave nothing behind, and the processor does not stop for one client.
* **Transactions.** Their calls may overlap, time out and be repeated, the flag
  `completed` is not synchronised, and the server answers before it acts. Correct
  means: all items of a transaction are processed in order or none is, and a
  receipt means that the server has taken the decision it was asked for.
* **Frames.** Streams end anywhere, and header entries and bodies hold any byte.
  Correct means: what arrives is what was sent, and a reader never loses step.
* **Heart-beats.** Two sides compute timers from the same two numbers, at
  different times, with truncation and margins. Correct means: a live
  connection is not given up and a dead one is.

`PROJECT.json` lists each such hazard at its line, with the properties that
cover it.

## Modules

| Module | Models | Runs from |
|---|---|---|
| `ClientConn` | `conn.go` from the moment CONNECTED has arrived | `MCClientConn` |
| `ClientSub` | one `Subscription` of `subscription.go` | `MCClientSub` |
| `Broker` | processor, queues, topics and the connections of the server | `MCBroker` |
| `MessageQueue` | abstract: what the server promises of a queue | refined by `Broker` |
| `Session` | one connection with both ends: handshake, calls, transactions | `MCSession` |
| `AtomicTx` | abstract: what a transaction promises | refined by `Session` |
| `FrameCodec` | `frame/`: headers, Writer, Reader, on the way of a message | `MCFrameCodec` |
| `HeartBeat` | the CONNECT handshake and all heart-beat timers | `MCHeartBeat` |
| `ClientConnProofs`, `ClientSubProofs`, `BrokerProofs`, `SessionProofs`, `HeartBeatProofs` | theorems about the modules they extend | tlapm |
| `SessionTxProofs` | theorems about transactions, on top of `SessionProofs` | tlapm |
| `BrokerMsgProofs` | theorems about the messages of the queues and the refinement of `MessageQueue`, on top of `BrokerProofs` | tlapm |
| `BrokerSubProofs` | theorems about topics and about what a closed connection leaves behind, on top of `BrokerMsgProofs` | tlapm |

A definition preceded by the comment "Mutant:" is a wrong variant of
the definition that follows it. It is used by no specification; putting it in
the place of the original makes a property fail and so shows that the property
depends on that piece of code.

### ClientConn

A member of `Calls` is one invocation of an API function together with what it
allocates: its id and its response channel. So `channels`, processLoop's map,
is a set of calls. `pc` follows a call through `lock` (waiting for
`closeMutex`), `push` (the send on `writeCh`), `wait` (for the receipt), `got`
and `done`; `mutex` is the call that keeps `closeMutex` across such a step.
Short critical sections are one action: `FindClosed` is "lock, see `closed`,
unlock". processLoop is `select`, `deliver` (in the middle of a loop of
unbuffered sends, `plRest` still to serve), `errLock`, `exit` and `done`.
`PLDeliver` is one rendezvous, so a receiver that has gone blocks it, as in Go.

`HandTo("SENDERR", S)` is `sendError`; the same operator with `"ERROR"` is the
loop of the ERROR case, after which the channels are closed and processLoop goes
through `PLErrLock` (lines 383-388) to the deferred MustDisconnect (`PLExit`).
`PLLocal` handles requests for a reply-to destination, which are not written.
Time is abstract: an armed timer may fire in any state. The server is the
operator `Incoming`: receipts that were asked for, messages for subscriptions,
errors and receipts without id at any time. Loss and reordering need no action
of their own, because nothing obliges the server to answer, or in which order.

### ClientSub

The steps are the atomic loads and stores of `state`, the operations on `C`,
and the registration in `cond.Wait`. `once` and `closing` are `closeOnce` and
the position in its function. `waiter` is `starting` from the test of the state
to the registration: a Broadcast meanwhile is lost. `closeMutex` is left out: only
Unsubscribe takes it, the compare-and-swap admits one, and the holder of
closeOnce calls Broadcast without it.

### Broker

One member of `Subs` is a Subscription object, of `Msgs` a SEND turned into a
MESSAGE. A handler of processLoop computes the requests it makes into `out[k]`,
and they enter `requestCh` one by one while the goroutine does nothing else:
that is how a blocking send in the middle of a handler is kept. In the same way
`procOut` holds the sends of the processor that are not done yet, and no other
request is served before they are. `phase` follows cleanupConn: unsubscribe
and requeue, first drain, DisconnectedOp, second drain, closed. `log[k]` is what
has been written to the client, and the position in it is the message-id that
`allocateMessageId` gives. ACK and NACK walk a list: `Ascending(I)` holds the one
enumeration of the positions in I from front to back, those that leave make their
requests in that order (`AckReqs`, `NackReqs`), and the others stay in it (`TakeOut`). `settled`, `owed` and `dest` are history.
`panicked` is set where `SubscriptionList.Add` and `setSubscriptionHeader` panic;
a panic ends the process.

What clients send is nondeterministic, so the server's readLoop and `readChannel`
are not kept (a longer buffer of frames that nobody chose yet adds nothing). A
frame that ends the connection (an error of a handler, a closed socket) is
`Leave`; a failed write of a queue message is `WriteFail`, because there the
position of the failure matters. DISCONNECT has no action: it is answered and
changes nothing. Transactions are in `Session`.

`QueueRefinement` says that `Broker` implements `MessageQueue`, an abstract
specification that knows only messages, queues and connections: a message is
sent, accepted behind those that are stored (or handed on when none is),
taken from the front, and settled or put back in front. The mapping: `sent` and
`back` are the messages of outstanding EnqueueOp and RequeueOp requests, `queue` is
the storage, and a connection holds the messages of its Subscription objects in
`procOut`, `subCh` and `subList`. So the way of a message over request channel,
processor, channel and list is a sequence of abstract steps and stutters, and a
message that is lost, doubled, overtaken or taken from the back is none.

### Session

A member of `Calls` is one call of the API that goes through sendFrame, and also
names the transaction, subscription, frame and receipt that it makes. The client
is the calls (`pc`: `push`, `wait` for the receipt, `mark` before `completed` is set)
and processLoop with `writeCh` and `channels`; the socket is the FIFOs `wire` and
`back`; the server is processLoop of its connection with `store`, which is
`txStore.transactions`. A RECEIPT is written before the effect, as in the handlers.
`CommitOne` is one turn of the loop in `txStore.Commit`. `Break` cuts both FIFOs
anywhere; a write on a broken connection fails or seems to succeed. `"stuck"` is
processLoop in a send to a call that has given up (`DeliveryEnds` above).
`closeMutex` and the room in `writeCh` are `ClientConn`'s subject and left out here.
`cause` is the call whose frame the server refused or the reason why it ended the
connection otherwise, so `ReasonsAssumption` keeps calls and reasons apart.

`accept` is the choice of accept-version and command. The empty set stands for a
frame without accept-version; this library always sends it, other clients do not.
`HasMsgId` and `BadHeader` are the header by which an ACK names its message in each
version, written by createAckNackFrame and read by handleAck.

`TxAtomic` says that `Session` implements `AtomicTx`: an item is asked for once, on its
own (`alone`) or in a transaction, when its frame enters `writeCh` before the COMMIT or
ABORT of that transaction does. An item of `alone` may be processed once; a COMMIT
processes all items asked for, in order and at once; nothing else is processed, so
neither an item of a transaction that is open or aborted nor one that came too late.
`decided` is the COMMIT or ABORT that the server has taken, which it does in the
handler that also writes the RECEIPT. The mapping takes the items
that `txStore.Commit` has still to go through as processed already: the goroutine
handles nothing else meanwhile. The error return in that loop has no action: the
frames in the store passed the checks of handleSend or handleAck before, and have no
transaction header when they are handled again. The promise ends at `requestChannel`, where
requests of other connections may come between those of a transaction.

### FrameCodec

A byte is a symbol, as is a command or a header name without special bytes.
`WriteBytes` and `Read` are Writer.Write and Reader.Read: `Read` returns a frame, a
heart-beat, an error or, where the code would block in the underlying Read,
`"more"`. A SEND built by createSendFrame, with SendOpt.NoContentLength and
SendOpt.Header, is written to `wire["up"]`, read and relayed by the server, and read
from `wire["down"]`. Either stream may end at any byte. When the subscriber's ends,
the message that is not acknowledged returns to the queue (cleanupConn) and is
written again, the same object with other header entries. The operators are
recursive over bytes; so nothing is proved about this module.

### HeartBeat

Client and server meet in CONNECT (`cx`, `cy`) and CONNECTED. The server derives
its read deadline in readLoop (`ServerRead`) and its write timer in
`HandleConnect`; the client derives both of its own in `ClientConnected`. A
direction has a writer with a timer, frames under way with their age, and a
reader with a limit. Time is discrete, `Ms` units to a millisecond, so that the
truncation to milliseconds is visible; `Tick` does not pass a moment at which a
timer or an arrival is due. `Rearm` is the stop of a write timer that no write
follows, and `skipped` remembers where it happened. The model leaves out processing time and a fractional multiplier.

## Runs

All passing runs are exhaustive. `CHECK_DEADLOCK` is off in all of them, because all
these systems may rest: an application that makes no more calls, an idle
server, a connection that has ended.

| Run | Checks | Instance | Shows |
|---|---|---|---|
| `ClientConnSafety` | TypeOK, NoPanic, LockDiscipline, ChannelDiscipline, ReceiptMeansAnswered, ShutdownComplete, NoStuckDelivery, ClosedRefuses | 3 calls of any of 9 kinds, channels of 1, 2 frames read, all timers on | the discipline of mutex and channels, receipts only when answered, shutdown from every side, a receiver for every frame except after a receipt timeout |
| `ClientConnLive` | CallsReturn, RegisteredReleased | 3 calls that wait for receipts or shut down, room in `writeCh`, 1 frame read | timers that fire break every wait for the server and for `closeMutex`; a broken connection releases all registered calls, timers or not, unless processLoop hangs on one that gave up |
| `ClientSub` | TypeOK, EndsClosed, OnlyUnsubscribePanics, AllPutBeforeClose, UnsubscribeCloses, TimeoutEndsWait | 3 messages, `C` of 2, with the timeout and a connection that may close | `C` is closed once and after the last message, except by the two paths of Unsubscribe named below; Unsubscribe returns while `C` is read |
| `BrokerQueue` | TypeOK, NoPanic, NobodyWaits, OneOwner, NoLoss, NoGhost, TopicExactlyOnce, QueueRefinement | 2 connections that may end, 2 subscriptions, 2 ids, 2 messages, a queue and a topic, modes auto and client, ACK and NACK of 0 and of every id written, failing writes | no panic over an auto subscription; no message lost (but by a failed write or by being handed to a closed connection), doubled or kept from a subscriber; topics deliver once to everyone listed; closed connections leave no subscription; the queue implements `MessageQueue` |
| `BrokerServed` | QueueServed | 2 connections that stay, clients that read | queue messages are delivered in the end |
| `HeartBeat` | TypeOK, NoFalseTimeout, SilenceDetected | 4 timeouts, 2 errors, 2 server settings, all combined; `Rearm` and silent deaths on both sides | compatible timers give up no live connection; silent deaths are detected |
| `Session` | TypeOK, OnlyRacesRefused, ReceiptMeansTaken, NobodyForgotten, VersionAgreed, TxAtomic | 4 calls of 8 kinds on transactions and subscriptions, all choices of accept-version, time-outs, a network that may break | both ends agree on the highest common version; transactions are atomic whatever overlaps, times out or is repeated; only overlapping or repeated calls are refused; nil from a call with receipt means that the decision was taken, and for which items; no receipt is forgotten |
| `FrameCodec` | TypeOK, EndToEnd, InStep | 128 first frames with special bytes in body, key and value and with an empty key, with and without content-length, a plain one behind, a heart-beat, an end at any byte of one stream, one redelivery | body and entries arrive as sent; entries of the server are those of this delivery; readers stay in step, and a badly delimited SEND never harms the subscriber's stream |

The bounds: three calls are enough for one that holds `closeMutex`, one that
waits for its answer and one that shuts down; channels of one element fill and
drain in one step each, so both limits are met; two frames from the server give
a late RECEIPT after a MESSAGE or an ERROR. Two connections with one
subscription each, or one with two, give every handover between connection,
processor and connection; two messages give a stored one behind a delivered
one. `MaxMsgId` bounds what is written to one client. The set `Timeouts` of
`HeartBeat` has 0, a value under a millisecond, one that is above the smaller of
the server's minima and below the larger, and one that getHeartBeat rejects; the
larger minimum is itself cut to `MaxHeartBeat`. `BrokerQueue` leaves out mode
client-individual: with `msgId` always 0, what it can do is a part of what mode
client does. Four calls of `Session` are BEGIN, an item, and two overlapping
or repeated COMMITs or ABORTs, or a subscription with an ACK in a transaction. The
two frames of `FrameCodec` show what a reader makes of the bytes behind a frame;
its values hold each of the four escaped bytes and a text that looks like an
escape.
Symmetry (over calls; over connections, subscriptions, ids and messages) is
used where no liveness is checked.

### Where code and comments disagree

Each of these runs checks one sentence of a comment and finds a behaviour of the
code that contradicts it; `findings` in PROJECT.json has the quotation.

| Run | Property | Behaviour |
|---|---|---|
| `ClientConnLateReceipt` | DeliveryEnds | a RECEIPT after RcvReceiptTimeout has no receiver, and processLoop blocks for ever in `ch <- f` |
| `ClientSubWakeup` | UnsubscribeReturns | the Broadcast comes between the test of the state and `cond.Wait` |
| `BrokerAckPanic` | NeverPanics | an ACK leaves `Subscription.subList` set, and the next Add panics |
| `SessionAck` | AckAccepted | with version 1.2 an ACK names the message in `id`, which the server does not look at: it answers ERROR and ends the connection |

The models also contain these behaviours, which comments or option names may not
lead one to expect. They are why some properties above carry a condition:

* Send waits for `closeMutex` outside of `MsgSendTimeout` (`conn.go:535`), behind a
  sendFrame that waits for room in `writeCh` without a timer. `CallsReturn` is
  checked with room in `writeCh`.
* After its timeout Unsubscribe sends on `C` (`subscription.go:109`): it blocks
  when `C` is full and nobody reads, and panics when readLoop has closed `C` since
  the test of the state. `TimeoutEndsWait` assumes a reader, and
  `OnlyUnsubscribePanics` names the path.
* Unsubscribe on a closed connection closes `C` (`subscription.go:90`) while readLoop
  may hold a message for it; that send panics. This is the other path that
  `OnlyUnsubscribePanics` and `AllPutBeforeClose` name.
* The processor can put a frame into `subChannel` after the last drain of a closed
  connection (`server/client/conn.go:366`), where nobody reads it any more. `NoLoss`
  names such a message as `Stranded`.
* A message whose write to the client fails is not requeued
  (`server/client/conn.go:289`), although cleanupConn is for "re-queueing all
  unacknowledged messages". `NoLoss` and `MessageQueue` except it. For `MessageQueue` a
  stranded message is held by its connection for ever.
* Messages that come back from one connection go to the front of the queue one by
  one (`server/client/conn.go:354`) and so end up in reverse order. `MessageQueue`
  allows it.
* SUBSCRIBE and UNSUBSCRIBE get no RECEIPT (`server/client/conn.go:611`), so against
  this server Unsubscribe always ends by its time-out, or not at all without one.
  `NobodyForgotten` excepts it.
* A COMMIT that timed out may have been done; repeated, it is refused and ends the
  connection (`transaction.go:95`). `OnlyRacesRefused` and `ReceiptMeansTaken` name
  such transactions. Atomicity is not affected.
* The RECEIPT of a COMMIT is written before `txStore.Commit` runs
  (`server/client/conn.go:583`). So CommitWithReceipt, documented as the way "to ensure
  the COMMIT is processed", may return nil when no item has been handed on yet, or when
  the COMMIT is refused next. `ReceiptMeansTaken` says what remains: the decision
  is taken, and each item has been handed on or is in the list that the server's
  goroutine is going through; if the server stops there, the rest is lost.
* A body with NUL and without content-length ends at the NUL (`send_options.go:42`);
  what follows is read as the next frame. An empty header name, which SendOpt.Header
  takes, is refused by Reader (`frame/reader.go:87`). `EndToEnd` and `InStep` are claimed of
  frames before such a one (`WellFormed`), and for the subscriber's stream always.
* DISCONNECT changes nothing in the server (`server/client/conn.go:553`), so messages
  are still written afterwards.
* `Subscription.msgId` is never assigned (`MsgId` in `Broker`): an ACK in mode
  client-individual settles nothing, and one in mode client also settles messages
  that were written later. `OneOwner` speaks of settled messages only.
* The processor blocks on the full channel of a slow client, who is not
  disconnected (`server/client/subscription.go:76`). `QueueServed` assumes clients
  that read.
* A subscription id used again revives the old object with that id
  (`server/client/conn.go:283`), which then outlives the connection. `NoGhost` is
  claimed of connections that reuse no id.
* A write timer can be stopped without a write: in the client by a reply-to request
  (`conn.go:403`), in the server by a subscription that is gone
  (`server/client/conn.go:276`). `NoFalseTimeout` excepts these directions.
* An interval not above HeartBeatError is not shortened by it (`conn.go:224`), and
  a receive timeout under a millisecond asks for no heart-beats and still expects
  them (`conn.go:212`). `Compatible` excludes both where they matter.

### Fairness

* `ClientConn!FairSpec`: goroutines run (weak fairness of each call and of
  processLoop), a Read on a socket that was closed on this side fails, and the
  application reads `C`. That a call's own timer fires in the end (`TimersFire`) is
  an assumption of `CallsReturn` only, and not of `RegisteredReleased`. The fairness of
  processLoop includes its writes: a Write on the socket returns, with or without an
  error. Nothing else is assumed of the network, and nothing of the server, the
  heart-beat timers or the application's calls.
* `ClientSub!FairSpec`: the goroutines and timer; `ReadingSpec` adds that the
  application reads `C`. No RECEIPT is assumed. TimeoutEndsWait needs that readLoop
  does not take every free place in `C` from a waiting Unsubscribe: Go serves
  blocked senders in order, and here the bound on messages stands for it.
* `Broker!FairSpec`: the processor and those steps of a connection that wait for
  nobody outside. `ReadingSpec` adds that clients read what is written to them;
  only QueueServed needs it.
* `HeartBeat!FairSpec`: time passes, due timers fire, what is written arrives.
* `Session` and `FrameCodec` have no fairness. `NobodyForgotten` and `InStep` state
  what would have to happen in the end as facts about states in which nothing is
  under way any more.

## Proofs

Every theorem is about `Spec`, for all values of the constants that satisfy the
assumptions of the module; these say that special values are no calls,
subscriptions or messages, that capacities are positive and flags Boolean, and that
a destination is not both a queue and a topic.

| Module | Theorems |
|---|---|
| `ClientConnProofs` | `TypeCorrect`, `LockCorrect`, `ChannelCorrect`, `NoPanicHolds`, `ClosedRefusesHolds`, `ShutdownCompleteHolds`, `ReceiptMeansAnsweredHolds`, `NoStuckDeliveryHolds` |
| `ClientSubProofs` | `TypeCorrect`, `OnlyUnsubscribePanicsHolds`, `AllPutBeforeCloseHolds`, `EndsClosedHolds` |
| `BrokerProofs` | `TypeCorrect`, `OnePlaceHolds`, `NoPanicHolds`, `NobodyWaitsHolds` |
| `BrokerMsgProofs` | `OneOwnerHolds`, `NoLossHolds`, `QueueRefinementHolds` |
| `BrokerSubProofs` | `NoGhostHolds`, `TopicExactlyOnceHolds` |
| `SessionProofs` | `TypeCorrect`, `VersionAgreedHolds`, `NobodyForgottenHolds` |
| `SessionTxProofs` | `ReceiptMeansTakenHolds`, `OnlyRacesRefusedHolds`, `TxAtomicHolds` |
| `HeartBeatProofs` | `TypeCorrect`, `NoFalseTimeoutHolds` |

`XHolds` proves the property `X` that a run checks; `LockCorrect` and
`ChannelCorrect` prove `LockDiscipline` and `ChannelDiscipline`. `OnePlace` is defined
in `BrokerProofs` and stated only there.

### The arguments

**Client connection.** `NoPanic` is not inductive, since nothing in it says why a
closed channel is not used. For `writeCh` the reason is `LockDiscipline`: whoever is
at `push` holds `closeMutex`, while it is held `closed` is false, and `writeCh` is
closed only together with `closed`. For the response channels it is
`ChannelDiscipline`: a request is in `writeCh` once and not registered yet, a
channel that processLoop closed has left the map or processLoop is on its way
out, and the channels still to be served by a running loop of sends are
registered, distinct and open. `TypeOK /\ LockDiscipline /\ ChannelDiscipline /\
NoPanic` is inductive. `ReceiptMeansAnswered` needs `ReceiptsReal`: every RECEIPT
between the server and a caller (in `readCh`, in the hands of processLoop, as a
result) was sent. `NoStuckDelivery` speaks of the moment of delivery only, so
`Receivers` says it of everyone that processLoop may have to send to later: the
calls whose requests are still in `writeCh` and all registered ones.

**Client subscription.** `Inv` ties together what no single lock protects: who runs
the function of closeOnce (`RunsOnce`), that state, `C` and closeOnce change in
that function only (`ClosedTogether`), and that closeChannel overtakes readLoop only
from an Unsubscribe that found the connection closed (`Culprit`).

**Broker.** `NoPanic` and `NobodyWaits` rest on `ObjInv`, an account of where
Subscription objects are. Connection and processor hand them to each other through
channels and never lock them. `OnePlace` says that an object is in at most one of
six places (a request that its connection makes, requestChannel, the list of its
queue or topic, the hands of the processor, subChannel, the list of unacknowledged
ones), and there once; `Framed`, that it has a frame in the last three and none in
the first three; `Homes`, that everything is with the connection and destination
that it belongs to; `Listed`, that `Subscription.subList` of an auto subscription is set
only while a queue lists it. Each part needs the others: an ACK asks once for every
object it takes because the list has nobody twice, and Unsubscribe removes an object
from a list by its first occurrence. `setSubscriptionHeader` cannot panic because an
object that asks has no frame, and `Add` cannot because an auto subscription that asks
is not listed. There is one lemma per action, built from lemmas about single
moves (`ReqAppend`, `SubTail`, `WaitWithout`, ...).

**Queue messages.** `OneOwner` counts positions in channels and lists and is far from
inductive: a frame is with an object, and the object moves. `MsgInv`, on top of
`ObjInv`, says where a message *sits* instead: asked for by an Enqueue or a Requeue
request (of requestChannel, or of the one connection that has still to send it), stored,
or held by one Subscription object. `Kept` says that a message of a queue has at most
one seat, that each list names it once, that a settled one has none, and that one
neither settled nor dropped has one. A step then does one of a few things to a message:
nothing (`Calm`), move it to another seat (`Goes`) or leave it without one, settled or
dropped. The steps of a connection that may give up messages (ACK, NACK, writes,
send-backs, drains, cleanup) have one form, `GivesUp(k, A, B, D)`: the objects in A settle theirs, those
in B ask for a Requeue, those in D drop theirs. `OwnersFew` turns seats back into the
positions that `Owners` counts: an object is in one place (`OnePlace`), so a seat is one
position. For `NoLoss` a seat must also be worth something: a held message is with a
connection that has not closed, or it is `Stranded`, because a connection that has begun
to close has an empty list of unacknowledged messages (`NoneAcking`).

**The refinement.** Under the mapping of `Broker` the abstract `sent`, `back` and `held`
are the sets of messages with that seat (`AskedIs`, `HeldIs`), so the lemmas about
seats give the abstract state after each step: `GivesUp` is an abstract Settle or
GiveBack of a set of messages that the connection holds, ServeSubscribe on a stored
frame a Take from the front, an Enqueue or Requeue an Accept or PutBack. When somebody
waits, these two hand the message on, which the abstract queue allows only when it is
empty; that is `NobodyWaits`. A step that panics is the abstract Panic, and what only
moves an object stutters.

**Closed connections.** For `NoGhost` one must look at Subscribe requests that are on
their way while cleanupConn runs. `GhostInv` says of an object that `Conn.subs` has no
more that its connection does not ask for it again and that either its Unsubscribe has
still to be sent, or it follows, in requestChannel, every Subscribe for the object and
the object's place in a list. It is claimed of connections with auto subscriptions and
distinct ids (`Plain`): otherwise an ACK, or an id used again, makes a new Subscribe.

**Topics.** `TopicInv`: a topic message is asked for by one Enqueue request at most
(`PostInv`); as long as it is asked for, or not sent at all, no copy of it exists anywhere
(`TraceInv`); and a subscription that is owed a copy, on a connection that runs, has it
in one of `procOut`, `writeChannel` and what was written, once (`Told`, in `OwedInv`). That the
processor makes one copy per subscription needs `OnePlace`: a topic lists nobody twice.

**Session.** `BaseInv` follows a call from start to return (`CallShape`), the
handshake (`Early`) and the version under way in CONNECTED (`Offered`), from which
`VersionAgreed` follows. `Pipe` is what the server will still read: the socket and,
while the network is up, `writeCh` behind it. `Remembered` says of every call
that waits that its frame is in `Pipe` or its RECEIPT is on the way back.

**Transactions.** `TxBase` adds that the frames in `Pipe` are of different calls, BEGIN
before the others, and that an entry of `txStore` and a decision come from frames
that were sent. For `ReceiptMeansTaken` a RECEIPT under way must mean what one that
arrived means (`Receipted`), and what a COMMIT has to hand on must go somewhere: every
item asked for by a committed transaction is in `stream` or in the list being gone
through (`Whole`). For `OnlyRacesRefused`: where calls do not overlap, COMMIT
or ABORT starts after the other calls returned (`Rivals`) and so is the last frame
of its transaction (`LastFrame`). For `TxAtomic` the invariant is `TxInv`: what the
server has stored of an open transaction is a prefix of what was asked for, the rest
is in `Pipe` in the order of the calls, and all of it before the first COMMIT or
ABORT. So a COMMIT that is served finds everything stored (`WholeAtCommit`). `Places`
says that an item is in one of `Pipe`, the list of its own transaction and `stream`, and
in `stream` only when it is alone or its transaction was committed: so what is
discarded stays discarded, and an item alone is processed once. Under the
refinement mapping Push is an abstract Ask or AskAlone, ServeItem outside of a transaction a
Single, ServeCommit the Commit, ServeAbort the Abort, and `CommitOne` and everything
else a stutter.

**Heart-beats.** The inductive invariant is `Inv`: `Negotiated` (in each phase of the
handshake the four timeouts are those derived from the options) and `Paced` (what a
reader has waited is at most the time its writer's timer has run, or the age of the
oldest frame under way plus one interval, plus one transmission). `ServerLimitFits`
and `ClientLimitFits` are the arithmetic of the negotiation: the interval and the
transmissions fit into the limit when the options are `Compatible`. `Paced` speaks of
directions in which no `Rearm` has happened; what a `Rearm` does to the pace of its
own direction is the exception that the property makes.

### Only model-checked

* All liveness: TLAPS does not reason about fairness and ENABLED here.
* `FrameCodec`: its operators are recursive over bytes, and what they compute for
  every input would take an induction over data.

Every other property of a passing run has its theorem.

## Not modelled

The failures of Dial and ConnectWithContext before a frame is read, the buffers of
bufio, options that set one header or one size, logging, statistics, `Listen`'s
back-off, errors of a queue storage other than the one in memory, `stompd`, test
helpers and examples. `allocateId` is taken to give distinct ids, and options that
set an `id` or a `receipt` header by hand are left out: a receipt on SUBSCRIBE
(one channel under two ids) and on UNSUBSCRIBE (overwritten at `conn.go:447`) would
be operations of `ClientConn`. Every SEND has a destination; without one the
processor panics (`server/processor.go:69`). The ack header of a SUBSCRIBE is one of the
three modes (`AckAssumption`); with another, which handleSubscribe takes, an ACK makes the
server panic in IsAckedBy (`server/client/subscription.go:50`).

## Plan

What is left:

1. Receipt headers set by hand on SUBSCRIBE and UNSUBSCRIBE as operations of
   `ClientConn`, and a SEND without destination in `Broker`; the hazards that have a note
   instead of a property in `PROJECT.json` are these and their like.
2. `FrameCodec` for every input, with a prover that does induction over sequences.
3. Liveness beyond the instances, with a prover that handles fairness.
