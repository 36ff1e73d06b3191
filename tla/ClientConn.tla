----------------------------- MODULE ClientConn -----------------------------
(***************************************************************************)
(* The client connection of conn.go: the API calls that share closeMutex,  *)
(* the goroutine readLoop that feeds readCh, and the goroutine processLoop *)
(* that owns the map of response channels and writes to the socket.        *)
(*                                                                         *)
(* A member of Calls is one invocation of an API function.  It stands also *)
(* for what that invocation allocates: the id it takes from allocateId     *)
(* (receipt id or subscription id) and the unbuffered channel it makes for *)
(* the response.  The map "channels" of processLoop is therefore the set   *)
(* of calls whose id is registered.                                        *)
(*                                                                         *)
(* Time is abstracted: a timer that is armed may fire at any moment.       *)
(* Heart-beats that are read or written only re-arm timers and leave this  *)
(* state unchanged.  Frames arrive when readLoop reads them, so bytes that *)
(* the server sent and that wait in the socket or in the bufio.Reader are  *)
(* not kept apart.                                                         *)
(***************************************************************************)
EXTENDS Naturals, Sequences

CONSTANTS
  Calls,                    \* invocations of the API
  Nobody,                   \* not a call: a free mutex, no delivery in progress
  Ops,                      \* the API functions that this instance uses
  WriteCap, ReadCap,        \* capacities of writeCh and readCh
  MaxReads,                 \* bound: frames read from the server
  MsgSendTimeout,           \* is the option of that name > 0 ?
  RcvReceiptTimeout,
  DisconnectReceiptTimeout,
  ReadTimeout, WriteTimeout \* are the negotiated heart-beats > 0 ?

(***************************************************************************)
(* Send and SendReceipt are Conn.Send without and with SendOpt.Receipt.    *)
(* Frame and FrameReceipt are the callers of sendFrame: Ack, Nack, Begin,  *)
(* Abort, Commit and Transaction.Send, without and with a receipt header.  *)
(* SubscribeReplyTo is Subscribe with the reply-to header of a temp queue. *)
(***************************************************************************)
SubscribeOps == {"Subscribe", "SubscribeReplyTo"}
ReceiptOps   == {"SendReceipt", "FrameReceipt", "Disconnect"}
FrameOps     == {"Frame", "FrameReceipt", "Unsubscribe"}
AllOps == SubscribeOps \cup ReceiptOps \cup FrameOps
            \cup {"Send", "MustDisconnect"}

\* Send and Disconnect keep closeMutex while they wait for the receipt.
LockedReceiptOps == {"SendReceipt", "Disconnect"}

ASSUME NobodyAssumption == Nobody \notin Calls
ASSUME OpsAssumption    == Ops \subseteq AllOps
ASSUME CapAssumption    == WriteCap \in Nat \ {0} /\ ReadCap \in Nat \ {0}
ASSUME BoundAssumption  == MaxReads \in Nat
ASSUME TimeoutAssumption ==
  {MsgSendTimeout, RcvReceiptTimeout, DisconnectReceiptTimeout,
   ReadTimeout, WriteTimeout} \subseteq BOOLEAN

VARIABLES
  pc,          \* where each call is
  op, target,  \* what it is, and the subscription an Unsubscribe is for
  ret,         \* what it returned
  mutex,       \* the call that holds closeMutex across a blocking step
  closed,      \* Conn.closed
  sockOpen,    \* the network connection has not been closed on this side
  writeCh, writeChClosed,
  readCh, readChClosed,
  reads,       \* number of frames read so far
  channels,    \* calls registered in processLoop's map of channels
  closedChs,   \* response channels that processLoop has closed
  subReader,   \* the goroutine Subscription.readLoop of a Subscribe call
  wire,        \* ids for which the server has been asked a RECEIPT
  answered,    \* ids for which it has sent one
  plAt,        \* where processLoop is
  plKind, plCur, plRest, \* the frame it hands out, to whom, to whom next
  panicked     \* a goroutine has panicked

callVars == <<pc, op, target, ret>>
connVars == <<mutex, closed, sockOpen>>
readVars == <<readCh, readChClosed, reads, answered>>
plVars   == <<plAt, plKind, plCur, plRest>>
chanVars == <<channels, closedChs, subReader>>
vars == <<callVars, connVars, writeCh, writeChClosed, readVars, wire,
          plVars, chanVars, panicked>>

Kinds == {"RECEIPT", "NOID", "MESSAGE", "ERROR"}
Frames == [kind : Kinds, id : Calls \cup {Nobody}]

TypeOK ==
  /\ pc \in [Calls -> {"idle", "lock", "push", "wait", "got", "done"}]
  /\ op \in [Calls -> AllOps \cup {"none"}]
  /\ target \in [Calls -> Calls \cup {Nobody}]
  /\ ret \in [Calls -> {"none", "nil", "error", "closed", "sendTimeout",
                        "receiptTimeout", "optionError"}]
  /\ mutex \in Calls \cup {Nobody}
  /\ closed \in BOOLEAN
  /\ sockOpen \in BOOLEAN
  /\ writeCh \in Seq(Calls)
  /\ writeChClosed \in BOOLEAN
  /\ readCh \in Seq(Frames)
  /\ readChClosed \in BOOLEAN
  /\ reads \in Nat
  /\ channels \subseteq Calls
  /\ closedChs \subseteq Calls
  /\ subReader \in [Calls -> {"none", "recv", "busy", "gone"}]
  /\ wire \subseteq Calls
  /\ answered \subseteq Calls
  /\ plAt \in {"select", "deliver", "errLock", "exit", "done"}
  /\ plKind \in Kinds \cup {"none", "SENDERR"}
  /\ plCur \in Calls \cup {Nobody}
  /\ plRest \subseteq Calls
  /\ panicked \in BOOLEAN
  /\ plAt = "deliver" => plCur \in Calls
  /\ \A c \in Calls : op[c] = "Unsubscribe" => target[c] \in Calls

\* ConnectWithContext has received CONNECTED and starts the two goroutines.
Init ==
  /\ pc = [c \in Calls |-> "idle"]
  /\ op = [c \in Calls |-> "none"]
  /\ target = [c \in Calls |-> Nobody]
  /\ ret = [c \in Calls |-> "none"]
  /\ mutex = Nobody
  /\ closed = FALSE
  /\ sockOpen = TRUE
  /\ writeCh = <<>>
  /\ writeChClosed = FALSE
  /\ readCh = <<>>
  /\ readChClosed = FALSE
  /\ reads = 0
  /\ channels = {}
  /\ closedChs = {}
  /\ subReader = [c \in Calls |-> "none"]
  /\ wire = {}
  /\ answered = {}
  /\ plAt = "select"
  /\ plKind = "none"
  /\ plCur = Nobody
  /\ plRest = {}
  /\ panicked = FALSE
-----------------------------------------------------------------------------
(***************************************************************************)
(* The API calls.                                                          *)
(***************************************************************************)

\* The application makes a call.  Unsubscribe is made once for a subscription
\* that Subscribe returned: a second one fails its compare-and-swap and never
\* reaches the connection.
Start(c) ==
  /\ pc[c] = "idle"
  /\ \E o \in Ops :
       /\ op' = [op EXCEPT ![c] = o]
       /\ IF o = "Unsubscribe"
          THEN \E s \in Calls :
                 /\ op[s] \in SubscribeOps /\ ret[s] = "nil"
                 /\ \A d \in Calls : target[d] # s
                 /\ target' = [target EXCEPT ![c] = s]
          ELSE UNCHANGED target
  /\ pc' = [pc EXCEPT ![c] = "lock"]
  /\ UNCHANGED <<ret, connVars, writeCh, writeChClosed, readVars, wire,
                 plVars, chanVars, panicked>>

Return(c, r) ==
  /\ pc' = [pc EXCEPT ![c] = "done"]
  /\ ret' = [ret EXCEPT ![c] = r]

\* closeMutex is taken, c.closed is found set, closeMutex is released.
\* Subscribe and sendFrame close the network connection once more.
FindClosed(c) ==
  /\ pc[c] = "lock" /\ mutex = Nobody
  /\ closed
  /\ Return(c, IF op[c] \in {"Disconnect", "MustDisconnect"} THEN "nil" ELSE "closed")
  /\ sockOpen' = IF op[c] \in SubscribeOps \cup FrameOps THEN FALSE ELSE sockOpen
  /\ UNCHANGED <<op, target, mutex, closed, writeCh, writeChClosed, readVars,
                 wire, plVars, chanVars, panicked>>

\* Mutant: the connection is marked closed only after the unlock.
CloseWriteChUnmarked ==
  /\ panicked' = (panicked \/ writeChClosed)
  /\ writeChClosed' = TRUE
  /\ sockOpen' = FALSE
  /\ UNCHANGED closed

\* The part of MustDisconnect that closes, shared with processLoop's defer.
CloseWriteCh ==
  /\ panicked' = (panicked \/ writeChClosed)
  /\ writeChClosed' = TRUE
  /\ closed' = TRUE
  /\ sockOpen' = FALSE

MustDisconnect(c) ==
  /\ pc[c] = "lock" /\ mutex = Nobody
  /\ op[c] = "MustDisconnect" /\ ~closed
  /\ CloseWriteCh
  /\ Return(c, "nil")
  /\ UNCHANGED <<op, target, mutex, writeCh, readVars, wire, plVars, chanVars>>

\* An option function of Send or Subscribe fails.
OptionError(c) ==
  /\ pc[c] = "lock" /\ mutex = Nobody
  /\ op[c] \in SubscribeOps \cup {"Send", "SendReceipt"} /\ ~closed
  /\ Return(c, "optionError")
  /\ UNCHANGED <<op, target, connVars, writeCh, writeChClosed, readVars, wire,
                 plVars, chanVars, panicked>>

\* Mutant: Subscribe does not look at c.closed.
AcquireUnchecked(c) ==
  /\ pc[c] = "lock" /\ mutex = Nobody
  /\ op[c] # "MustDisconnect" /\ (closed => op[c] \in SubscribeOps)
  /\ mutex' = c
  /\ pc' = [pc EXCEPT ![c] = "push"]
  /\ subReader' = IF op[c] \in SubscribeOps
                   THEN [subReader EXCEPT ![c] = "recv"] ELSE subReader
  /\ UNCHANGED <<op, target, ret, closed, sockOpen, writeCh, writeChClosed,
                 readVars, wire, plVars, channels, closedChs, panicked>>

\* closeMutex is taken and kept for the send on writeCh.  Subscribe starts the
\* goroutine that reads its channel first.
Acquire(c) ==
  /\ pc[c] = "lock" /\ mutex = Nobody
  /\ op[c] # "MustDisconnect" /\ ~closed
  /\ mutex' = c
  /\ pc' = [pc EXCEPT ![c] = "push"]
  /\ subReader' = IF op[c] \in SubscribeOps
                   THEN [subReader EXCEPT ![c] = "recv"] ELSE subReader
  /\ UNCHANGED <<op, target, ret, closed, sockOpen, writeCh, writeChClosed,
                 readVars, wire, plVars, channels, closedChs, panicked>>

\* The send on writeCh: a panic if it is closed, else it waits for room.
\* A call with a receipt then waits for it, sendFrame without closeMutex.
Push(c) ==
  /\ pc[c] = "push"
  /\ writeChClosed \/ Len(writeCh) < WriteCap
  /\ panicked' = (panicked \/ writeChClosed)
  /\ writeCh' = IF writeChClosed THEN writeCh ELSE Append(writeCh, c)
  /\ IF op[c] \in ReceiptOps
     THEN pc' = [pc EXCEPT ![c] = "wait"] /\ UNCHANGED ret
     ELSE Return(c, "nil")
  /\ mutex' = IF op[c] \in LockedReceiptOps THEN mutex ELSE Nobody
  /\ UNCHANGED <<op, target, closed, sockOpen, writeChClosed, readVars, wire,
                 plVars, chanVars>>

\* sendDataToWriteChWithTimeout gives up.
PushTimeout(c) ==
  /\ pc[c] = "push" /\ MsgSendTimeout
  /\ op[c] \in {"Send", "SendReceipt"}
  /\ Return(c, "sendTimeout")
  /\ mutex' = Nobody
  /\ UNCHANGED <<op, target, closed, sockOpen, writeCh, writeChClosed, readVars,
                 wire, plVars, chanVars, panicked>>

\* Mutant: Disconnect has no case for the timeout and goes on waiting.
WaitTimeoutNoDisconnect(c) ==
  /\ pc[c] = "wait"
  /\ \/ op[c] = "SendReceipt" /\ RcvReceiptTimeout
     \/ op[c] = "FrameReceipt" /\ WriteTimeout
  /\ Return(c, IF op[c] = "FrameReceipt" THEN "closed" ELSE "receiptTimeout")
  /\ mutex' = IF op[c] \in LockedReceiptOps THEN Nobody ELSE mutex
  /\ UNCHANGED <<op, target, closed, sockOpen, writeCh, writeChClosed, readVars,
                 wire, plVars, chanVars, panicked>>

\* The receipt did not come in time: readReceiptWithTimeout for Send and
\* Disconnect, the heart-beat interval for sendFrame.
WaitTimeout(c) ==
  /\ pc[c] = "wait"
  /\ \/ op[c] = "SendReceipt" /\ RcvReceiptTimeout
     \/ op[c] = "Disconnect" /\ DisconnectReceiptTimeout
     \/ op[c] = "FrameReceipt" /\ WriteTimeout
  /\ Return(c, IF op[c] = "FrameReceipt" THEN "closed" ELSE "receiptTimeout")
  /\ closed' = (closed \/ op[c] = "Disconnect")
  /\ sockOpen' = (sockOpen /\ op[c] # "Disconnect")
  /\ mutex' = IF op[c] \in LockedReceiptOps THEN Nobody ELSE mutex
  /\ UNCHANGED <<op, target, writeCh, writeChClosed, readVars, wire, plVars,
                 chanVars, panicked>>

\* The call has its response (PLDeliver set ret) and returns.
Finish(c) ==
  /\ pc[c] = "got"
  /\ pc' = [pc EXCEPT ![c] = "done"]
  /\ LET disconnected == op[c] = "Disconnect" /\ ret[c] = "nil" IN
       /\ closed' = (closed \/ disconnected)
       /\ sockOpen' = (sockOpen /\ ~disconnected)
  /\ mutex' = IF op[c] \in LockedReceiptOps THEN Nobody ELSE mutex
  /\ UNCHANGED <<op, target, ret, writeCh, writeChClosed, readVars, wire,
                 plVars, chanVars, panicked>>
-----------------------------------------------------------------------------
(***************************************************************************)
(* readLoop.                                                               *)
(***************************************************************************)

\* The frames the server may send now: a RECEIPT for an id it was asked one
\* for, a MESSAGE for a subscription, and at any time a RECEIPT without
\* receipt-id or an ERROR.
Incoming ==
  [kind : {"RECEIPT"}, id : wire]
    \cup [kind : {"MESSAGE"}, id : {c \in Calls : op[c] \in SubscribeOps}]
    \cup [kind : {"NOID", "ERROR"}, id : {Nobody}]

ReadFrame ==
  /\ ~readChClosed /\ reads < MaxReads
  /\ Len(readCh) < ReadCap
  /\ \E f \in Incoming :
       /\ readCh' = Append(readCh, f)
       /\ answered' = IF f.kind = "RECEIPT" THEN answered \cup {f.id} ELSE answered
       /\ wire' = IF f.kind = "RECEIPT" THEN wire \ {f.id} ELSE wire
  /\ reads' = reads + 1
  /\ UNCHANGED <<callVars, connVars, writeCh, writeChClosed, readChClosed,
                 plVars, chanVars, panicked>>

\* reader.Read fails: the peer closed, the network failed, or this side did.
ReadLoopFail ==
  /\ ~readChClosed
  /\ readChClosed' = TRUE
  /\ UNCHANGED <<callVars, connVars, writeCh, writeChClosed, readCh, reads,
                 answered, wire, plVars, chanVars, panicked>>
-----------------------------------------------------------------------------
(***************************************************************************)
(* processLoop.                                                            *)
(***************************************************************************)

\* Where processLoop goes when the frame has been handed to everyone.
After(kind) == CASE kind = "ERROR"   -> "errLock"
                 [] kind = "SENDERR" -> "exit"
                 [] OTHER            -> "select"

\* Mutant: sendError stops after the first channel.
HandToOne(kind, S) ==
  IF S = {}
  THEN /\ plAt' = After(kind)
       /\ plKind' = "none" /\ plCur' = Nobody /\ plRest' = {}
  ELSE \E c \in S :
         /\ plAt' = "deliver"
         /\ plKind' = kind /\ plCur' = c /\ plRest' = {}

\* Hand a frame to the channels of the calls in S, one after the other in the
\* order of the map's iteration.  A "SENDERR" is the function sendError.
HandTo(kind, S) ==
  IF S = {}
  THEN /\ plAt' = After(kind)
       /\ plKind' = "none" /\ plCur' = Nobody /\ plRest' = {}
  ELSE \E c \in S :
         /\ plAt' = "deliver"
         /\ plKind' = kind /\ plCur' = c /\ plRest' = S \ {c}

\* Mutant: the command of the response is not looked at.
ResultUnchecked(kind) == IF kind = "none" THEN "error" ELSE "nil"

\* What the caller makes of the frame that it receives.
Result(kind) == IF kind = "RECEIPT" THEN "nil" ELSE "error"

\* Mutant: the channel of a receipt is closed and stays in the map.
PLDeliverKept ==
  /\ plAt = "deliver"
  /\ \/ /\ pc[plCur] = "wait"
        /\ pc' = [pc EXCEPT ![plCur] = "got"]
        /\ ret' = [ret EXCEPT ![plCur] = Result(plKind)]
        /\ UNCHANGED subReader
     \/ /\ subReader[plCur] = "recv"
        /\ subReader' = [subReader EXCEPT
             ![plCur] = IF plKind = "MESSAGE" THEN "busy" ELSE "gone"]
        /\ UNCHANGED <<pc, ret>>
  /\ panicked' = (panicked \/ plCur \in closedChs)
  /\ closedChs' = IF plKind \in {"RECEIPT", "ERROR"}
                   THEN closedChs \cup {plCur} ELSE closedChs
  /\ HandTo(plKind, plRest)
  /\ UNCHANGED <<op, target, connVars, writeCh, writeChClosed, readVars, wire,
                 channels>>

\* One rendezvous on an unbuffered response channel, with the waiting call or
\* with the reader of a subscription; then delete and close as the case in
\* processLoop has it.
PLDeliver ==
  /\ plAt = "deliver"
  /\ \/ /\ pc[plCur] = "wait"
        /\ pc' = [pc EXCEPT ![plCur] = "got"]
        /\ ret' = [ret EXCEPT ![plCur] = Result(plKind)]
        /\ UNCHANGED subReader
     \/ /\ subReader[plCur] = "recv"
        /\ subReader' = [subReader EXCEPT
             ![plCur] = IF plKind = "MESSAGE" THEN "busy" ELSE "gone"]
        /\ UNCHANGED <<pc, ret>>
  /\ panicked' = (panicked \/ plCur \in closedChs)
  /\ channels' = IF plKind = "RECEIPT" THEN channels \ {plCur} ELSE channels
  /\ closedChs' = IF plKind \in {"RECEIPT", "ERROR"}
                   THEN closedChs \cup {plCur} ELSE closedChs
  /\ HandTo(plKind, plRest)
  /\ UNCHANGED <<op, target, connVars, writeCh, writeChClosed, readVars, wire>>

\* A frame from readCh.
PLRead ==
  /\ plAt = "select" /\ readCh # <<>>
  /\ LET f == Head(readCh) IN
       \/ f.kind = "NOID" /\ HandTo("SENDERR", channels)
       \/ f.kind = "ERROR" /\ HandTo("ERROR", channels)
       \/ f.kind \in {"RECEIPT", "MESSAGE"} /\ HandTo(f.kind, channels \cap {f.id})
  /\ readCh' = Tail(readCh)
  /\ UNCHANGED <<callVars, connVars, writeCh, writeChClosed, readChClosed, reads,
                 answered, wire, chanVars, panicked>>

\* readCh or writeCh is closed and empty: sendError to everyone and return.
PLClosed ==
  /\ plAt = "select"
  /\ \/ readChClosed /\ readCh = <<>>
     \/ writeChClosed /\ writeCh = <<>>
  /\ HandTo("SENDERR", channels)
  /\ UNCHANGED <<callVars, connVars, writeCh, writeChClosed, readVars, wire,
                 chanVars, panicked>>

\* No frame came in time, or the heart-beat could not be written: the same.
PLTimeout ==
  /\ plAt = "select"
  /\ ReadTimeout \/ WriteTimeout
  /\ HandTo("SENDERR", channels)
  /\ UNCHANGED <<callVars, connVars, writeCh, writeChClosed, readVars, wire,
                 chanVars, panicked>>

\* The map after the request of call c has been entered into it.
Registered(c) == IF op[c] \in ReceiptOps \cup SubscribeOps
                 THEN channels \cup {c} ELSE channels

\* Is the request for a reply-to pseudo destination, which is not sent?
Local(c) == \/ op[c] = "SubscribeReplyTo"
            \/ op[c] = "Unsubscribe" /\ op[target[c]] = "SubscribeReplyTo"

\* A request from writeCh that stays on this side.
PLLocal ==
  /\ plAt = "select" /\ writeCh # <<>> /\ Local(Head(writeCh))
  /\ LET c == Head(writeCh)
         ending == IF op[c] = "Unsubscribe" THEN channels \cap {target[c]} ELSE {}
     IN  /\ channels' = Registered(c) \ ending
         /\ closedChs' = closedChs \cup ending
         /\ panicked' = (panicked \/ ending \cap closedChs # {})
  /\ writeCh' = Tail(writeCh)
  /\ UNCHANGED <<callVars, connVars, writeChClosed, readVars, wire, plVars,
                 subReader>>

\* Mutant: every frame is given the id of a subscription, if it has one or not.
AskedAlways(c) == {target[c]}

\* The id for which the frame of call c asks a RECEIPT.  UNSUBSCRIBE is given
\* the id of its subscription here.
Asked(c) == CASE op[c] \in ReceiptOps     -> {c}
              [] op[c] = "Unsubscribe" -> {target[c]}
              [] OTHER                 -> {}

\* A request from writeCh is written to the socket.
PLWrite ==
  /\ plAt = "select" /\ writeCh # <<>> /\ ~Local(Head(writeCh))
  /\ sockOpen
  /\ channels' = Registered(Head(writeCh))
  /\ wire' = wire \cup Asked(Head(writeCh))
  /\ writeCh' = Tail(writeCh)
  /\ UNCHANGED <<callVars, connVars, writeChClosed, readVars, plVars, closedChs,
                 subReader, panicked>>

\* The write fails: sendError to everyone, the new request included.
PLWriteFail ==
  /\ plAt = "select" /\ writeCh # <<>> /\ ~Local(Head(writeCh))
  /\ channels' = Registered(Head(writeCh))
  /\ HandTo("SENDERR", channels')
  /\ writeCh' = Tail(writeCh)
  /\ UNCHANGED <<callVars, connVars, writeChClosed, readVars, wire, closedChs,
                 subReader, panicked>>

\* After an ERROR frame: mark the connection closed, under closeMutex.
PLErrLock ==
  /\ plAt = "errLock" /\ mutex = Nobody
  /\ closed' = TRUE
  /\ sockOpen' = FALSE
  /\ plAt' = "exit"
  /\ UNCHANGED <<callVars, mutex, writeCh, writeChClosed, readVars, wire, plKind,
                 plCur, plRest, chanVars, panicked>>

\* Mutant: processLoop closes without closeMutex.
PLExitUnlocked ==
  /\ plAt = "exit"
  /\ IF closed THEN UNCHANGED <<writeChClosed, closed, sockOpen, panicked>>
     ELSE CloseWriteCh
  /\ plAt' = "done"
  /\ UNCHANGED <<callVars, mutex, writeCh, readVars, wire, plKind, plCur, plRest,
                 chanVars>>

\* The deferred MustDisconnect.
PLExit ==
  /\ plAt = "exit" /\ mutex = Nobody
  /\ IF closed THEN UNCHANGED <<writeChClosed, closed, sockOpen, panicked>>
     ELSE CloseWriteCh
  /\ plAt' = "done"
  /\ UNCHANGED <<callVars, mutex, writeCh, readVars, wire, plKind, plCur, plRest,
                 chanVars>>
-----------------------------------------------------------------------------
(***************************************************************************)
(* Subscription.readLoop, as far as processLoop can tell: it waits on its  *)
(* channel, or it is busy with a MESSAGE that the application has not made *)
(* room for, or it has returned.                                           *)
(***************************************************************************)

SubReady(c) ==
  /\ subReader[c] = "busy"
  /\ subReader' = [subReader EXCEPT ![c] = "recv"]
  /\ UNCHANGED <<callVars, connVars, writeCh, writeChClosed, readVars, wire,
                 plVars, channels, closedChs, panicked>>

SubSeesClose(c) ==
  /\ subReader[c] = "recv" /\ c \in closedChs
  /\ subReader' = [subReader EXCEPT ![c] = "gone"]
  /\ UNCHANGED <<callVars, connVars, writeCh, writeChClosed, readVars, wire,
                 plVars, channels, closedChs, panicked>>
-----------------------------------------------------------------------------
CallNext(c) ==
  \/ FindClosed(c) \/ MustDisconnect(c) \/ OptionError(c) \/ Acquire(c)
  \/ Push(c) \/ PushTimeout(c) \/ WaitTimeout(c) \/ Finish(c)

PLNext ==
  \/ PLDeliver \/ PLRead \/ PLClosed \/ PLLocal \/ PLWrite \/ PLWriteFail
  \/ PLErrLock \/ PLExit

Next ==
  \/ \E c \in Calls : Start(c) \/ CallNext(c) \/ SubReady(c) \/ SubSeesClose(c)
  \/ ReadFrame
  \/ ReadLoopFail
  \/ PLNext
  \/ PLTimeout

Spec == Init /\ [][Next]_vars

(***************************************************************************)
(* The goroutines run, a Read on a socket that was closed fails, and the   *)
(* application goes on reading Subscription.C.  Nothing is assumed of the  *)
(* server, of the network, of the heart-beat timers, or of the application *)
(* making calls.  That the timer of a call fires in the end is an          *)
(* assumption apart, made only by the property that needs it.              *)
(***************************************************************************)
CallRuns(c) == \/ FindClosed(c) \/ MustDisconnect(c) \/ OptionError(c)
               \/ Acquire(c) \/ Push(c) \/ Finish(c)

Fairness ==
  /\ \A c \in Calls : WF_vars(CallRuns(c)) /\ WF_vars(SubReady(c))
                        /\ WF_vars(SubSeesClose(c))
  /\ WF_vars(PLNext)
  /\ WF_vars(~sockOpen /\ ReadLoopFail)

TimersFire == \A c \in Calls : WF_vars(PushTimeout(c) \/ WaitTimeout(c))

FairSpec == Spec /\ Fairness
-----------------------------------------------------------------------------
(***************************************************************************)
(* Properties.                                                             *)
(***************************************************************************)

\* No goroutine sends on a closed channel or closes one twice: neither the
\* sends on writeCh that do not look whether it is open (the TODO in
\* Subscribe) nor processLoop's sends on the response channels.
NoPanic == ~panicked

\* closeMutex is held across a blocking step exactly by the call that sends on
\* writeCh or, in Send and Disconnect, waits for its receipt; while somebody
\* holds it the connection is not marked closed, and writeCh is closed only
\* when it is.  So nobody ever sends on a closed writeCh.
HoldsMutex(c) == \/ pc[c] = "push"
                 \/ pc[c] \in {"wait", "got"} /\ op[c] \in LockedReceiptOps
LockDiscipline ==
  /\ \A c \in Calls : HoldsMutex(c) <=> mutex = c
  /\ mutex # Nobody => ~closed
  /\ writeChClosed => closed

\* A request is in writeCh at most once and enters the map of channels at most
\* once; while processLoop runs, a channel that it closed is neither in the
\* map, nor about to be entered, nor among those it still sends to.
Sent(c) == pc[c] \in {"wait", "got", "done"}
RegisteredSent == \A c \in channels \cup closedChs : Sent(c)
QueuedOnce ==
  \A i \in DOMAIN writeCh :
    /\ Sent(writeCh[i])
    /\ writeCh[i] \notin channels \cup closedChs
    /\ \A j \in DOMAIN writeCh : writeCh[i] = writeCh[j] => i = j
OpenWhenHanded ==
  /\ plAt = "select" => channels \cap closedChs = {}
  /\ plAt = "deliver" =>
       /\ plCur \in channels /\ plRest \subseteq channels \ {plCur}
       /\ plCur \notin closedChs /\ plRest \cap closedChs = {}
       /\ plKind \in {"RECEIPT", "MESSAGE", "ERROR", "SENDERR"}
       /\ plKind \in {"RECEIPT", "MESSAGE"} =>
            channels \cap closedChs = {} /\ plRest = {}
ChannelDiscipline == RegisteredSent /\ QueuedOnce /\ OpenWhenHanded

\* Send, or a frame of sendFrame, with a receipt returns nil only when the
\* server has sent the RECEIPT with that very id, whatever was lost, timed
\* out or failed meanwhile.
ReceiptMeansAnswered ==
  \A c \in Calls : op[c] \in ReceiptOps /\ pc[c] = "done" /\ ret[c] = "nil"
                     => c \in answered \/ (op[c] = "Disconnect" /\ closed)

\* Once Conn.closed is set no request enters writeCh any more, however the
\* connection was closed and whoever was about to send.
ClosedRefuses == [][closed => Len(writeCh') <= Len(writeCh)]_vars

\* When processLoop has returned, nobody serves writeCh: the connection is
\* marked closed by then, and a connection marked closed has no open socket.
ShutdownComplete == (plAt = "done" => closed) /\ (closed => ~sockOpen)

\* Whoever processLoop hands a frame to is there to take it, so its unbuffered
\* sends, and those of sendError, do not block for ever.  The one exception is
\* a call that has given up its wait for a receipt (see DeliveryEnds).
CanReceive(c) == pc[c] = "wait" \/ subReader[c] \in {"recv", "busy"}
GaveUp(c) == pc[c] = "done" /\ (\/ ret[c] = "receiptTimeout"
                                \/ op[c] = "FrameReceipt" /\ ret[c] = "closed")
NoStuckDelivery ==
  plAt = "deliver" => \A c \in plRest \cup {plCur} : CanReceive(c) \/ GaveUp(c)

\* A call that was made returns: the timeouts of the options and of the
\* heart-beat break every wait for the server or for closeMutex.
CallsReturn == TimersFire => \A c \in Calls : pc[c] = "lock" ~> pc[c] = "done"

\* With no help from the timers: when the connection breaks, processLoop's
\* sendError releases every call that it has entered into its map.  Only a call
\* that has given up its wait, and whose channel is still in the map, can hold
\* sendError up.
RegisteredReleased ==
  \A c \in Calls :
    (readChClosed /\ c \in channels /\ pc[c] = "wait")
      ~> (pc[c] = "done" \/ (plAt = "deliver" /\ GaveUp(plCur)))

\* RcvReceiptTimeout "helps avoid deadlocks": processLoop gets rid of every
\* frame it hands out.  It does not: the channel of a call that timed out
\* stays in the map, and the RECEIPT that comes late has no receiver.
DeliveryEnds == plAt = "deliver" ~> plAt # "deliver"
=============================================================================
