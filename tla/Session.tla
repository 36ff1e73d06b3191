------------------------------ MODULE Session -------------------------------
(***************************************************************************)
(* One connection, both ends: the client library's calls that go through   *)
(* sendFrame (conn.go, transaction.go), its processLoop, the two FIFOs of  *)
(* the socket, and processLoop of the server's connection with its store   *)
(* of transactions (server/client/conn.go, tx_store.go).                   *)
(*                                                                         *)
(* A member of Calls is one call of the API, made by some goroutine of the *)
(* application; calls run concurrently.  It also names what the call makes:*)
(* the Transaction of a Begin, the Subscription of a Subscribe, the frame  *)
(* on its way to the server, and the receipt id.  closeMutex and the       *)
(* capacity of writeCh are in ClientConn; here writeCh always has room.    *)
(* What the server does with an item after requestChannel is in Broker.    *)
(***************************************************************************)
EXTENDS Naturals, Sequences, FiniteSets

CONSTANTS
  Calls,        \* bound: the calls that are made
  Nobody,       \* nil
  Ops,          \* bound: the calls the application makes
  Timeouts,     \* is a heart-beat negotiated, so that waits time out ?
  Breaks        \* bound: may the network break ?

Versions == {10, 11, 12}    \* V10, V11, V12
ItemOps  == {"Send", "Ack", "Nack"}
EndOps   == {"Commit", "Abort"}
AllOps   == {"Begin", "Subscribe", "Unsubscribe"} \cup ItemOps \cup EndOps

\* The reasons for a refusal that are not a call.
Reasons == {"none", "version", "login", "header"}

ASSUME NobodyAssumption == Nobody \notin Calls
ASSUME ReasonsAssumption == Calls \cap Reasons = {}
ASSUME OpsAssumption == Ops \subseteq AllOps /\ {Timeouts, Breaks} \subseteq BOOLEAN

VARIABLES
  \* client
  cst,        \* the connection; "stuck": processLoop sends to nobody
  accept,     \* ConnOpt.AcceptVersion and UseStomp, until Connect has returned
  version,    \* Conn.version
  pc, op, on, rcpt, ret,  \* a call: where, which, on what, with receipt, result
  completed,  \* transactions with completed set, subscriptions not active
  writeCh, channels,      \* requests; the response channels of processLoop
  \* network
  link, wire, back,
  \* server
  sst, sversion,          \* stateFunc or closed, Conn.version
  store,      \* txStore.transactions: the items of a transaction
  ssubs,      \* Conn.subs
  committing, \* the transaction that txStore.Commit is going through
  stream,     \* items given to requestChannel
  \* history
  asked,      \* the items of a transaction sent before its COMMIT or ABORT
  decided,    \* the COMMIT or ABORT of a transaction that the server has taken
  cause,      \* why the server refused a frame
  raced       \* transactions with overlapping calls, or a COMMIT that failed

callVars == <<pc, op, on, rcpt, ret, completed>>
netVars  == <<link, wire, back>>
srvVars  == <<sst, sversion, store, ssubs, committing, stream, decided, cause>>
vars == <<cst, accept, version, callVars, writeCh, channels, netVars, srvVars,
          asked, raced>>

NoTx == <<Nobody>>          \* no entry in txStore.transactions
NoAccept == [cmd |-> "CONNECT", versions |-> {}]
Frames == [kind : {"CONNECTED"}, ver : Versions]
     \cup [kind : {"RECEIPT"}, id : Calls] \cup [kind : {"ERROR"}]

TypeOK ==
  /\ cst \in {"connecting", "open", "stuck", "closed", "failed"}
  /\ accept \in [cmd : {"CONNECT", "STOMP"}, versions : SUBSET Versions]
  /\ {version, sversion} \subseteq Versions \cup {0}
  /\ pc \in [Calls -> {"idle", "push", "wait", "mark", "done"}]
  /\ op \in [Calls -> AllOps \cup {"none"}]
  /\ on \in [Calls -> Calls \cup {Nobody}]
  /\ rcpt \in [Calls -> BOOLEAN]
  /\ ret \in [Calls -> {"none", "nil", "completed", "closed", "error", "timeout"}]
  /\ completed \subseteq Calls /\ channels \subseteq Calls /\ ssubs \subseteq Calls
  /\ writeCh \in Seq(Calls) /\ wire \in Seq(Calls) /\ back \in Seq(Frames)
  /\ link \in {"up", "down"}
  /\ sst \in {"connecting", "connected", "closed"}
  /\ store \in [Calls -> Seq(Calls) \cup {NoTx}]
  /\ committing \in Calls \cup {Nobody}
  /\ stream \in Seq(Calls)
  /\ asked \in [Calls -> Seq(Calls)]
  /\ decided \in [Calls -> {"open", "committed", "aborted"}]
  /\ cause \in Reasons \cup Calls
  /\ raced \subseteq Calls

\* The options are chosen.  A client other than this library may leave out
\* accept-version: that is the empty set.
Init ==
  /\ cst = "connecting"
  /\ accept \in [cmd : {"CONNECT", "STOMP"}, versions : SUBSET Versions]
  /\ version = 0 /\ sversion = 0
  /\ pc = [c \in Calls |-> "idle"] /\ op = [c \in Calls |-> "none"]
  /\ on = [c \in Calls |-> Nobody] /\ rcpt = [c \in Calls |-> FALSE]
  /\ ret = [c \in Calls |-> "none"]
  /\ completed = {} /\ channels = {} /\ ssubs = {}
  /\ writeCh = <<>> /\ wire = <<>> /\ back = <<>> /\ link = "up"
  /\ sst = "connecting"
  /\ store = [c \in Calls |-> NoTx] /\ committing = Nobody /\ stream = <<>>
  /\ asked = [c \in Calls |-> <<>>] /\ decided = [c \in Calls |-> "open"]
  /\ cause = "none" /\ raced = {}
-----------------------------------------------------------------------------
(***************************************************************************)
(* The handshake.  CONNECT is the one frame outside of wire.               *)
(***************************************************************************)
Highest(V) == CHOOSE v \in V : \A w \in V : w <= v

\* Mutant: the least version.
DetermineVersionLeast(a) ==
  IF a.versions # {} THEN CHOOSE v \in a.versions : \A w \in a.versions : v <= w
  ELSE IF a.cmd = "CONNECT" THEN 10 ELSE 0

\* determineVersion; 0 stands for its errors.
DetermineVersion(a) ==
  IF a.versions # {} THEN Highest(a.versions)
  ELSE IF a.cmd = "CONNECT" THEN 10 ELSE 0

\* An ERROR frame is written, processLoop returns and cleanupConn runs.
Refuse(replies, why) ==
  /\ back' = back \o replies \o <<[kind |-> "ERROR"]>>
  /\ sst' = "closed"
  /\ store' = [c \in Calls |-> NoTx] /\ ssubs' = {}
  /\ cause' = why

HandleConnect ==
  /\ sst = "connecting" /\ link = "up" /\ back = <<>>
  /\ LET v == DetermineVersion(accept) IN
       \/ /\ Refuse(<<>>, "login")
          /\ UNCHANGED sversion
       \/ /\ v \in {0, 10}
          /\ Refuse(<<>>, "version")
          /\ sversion' = v
       \/ /\ v \in {11, 12}
          /\ sversion' = v
          /\ sst' = "connected"
          /\ back' = <<[kind |-> "CONNECTED", ver |-> v]>>
          /\ UNCHANGED <<store, ssubs, cause>>
  /\ UNCHANGED <<cst, accept, version, callVars, writeCh, channels, link, wire,
                 committing, stream, decided, asked, raced>>

\* Connect reads one frame, or fails to.
Connect ==
  /\ cst = "connecting"
  /\ \/ /\ back # <<>> /\ Head(back).kind = "CONNECTED"
        /\ version' = Head(back).ver
        /\ cst' = "open"
     \/ /\ IF back # <<>> THEN Head(back).kind = "ERROR"
                           ELSE link = "down" \/ sst = "closed"
        /\ cst' = "failed"
        /\ UNCHANGED version
  /\ accept' = NoAccept
  /\ back' = IF back = <<>> THEN back ELSE Tail(back)
  /\ UNCHANGED <<callVars, writeCh, channels, link, wire, srvVars, asked, raced>>
-----------------------------------------------------------------------------
(***************************************************************************)
(* The calls.                                                              *)
(***************************************************************************)
Transactions == {c \in Calls : op[c] = "Begin" /\ pc[c] = "done"}
Subscribed   == {c \in Calls : op[c] = "Subscribe" /\ pc[c] = "done" /\ ret[c] = "nil"}

\* What call o can be made on, and with which receipt options.
Targets(o) == CASE o \in {"Begin", "Subscribe"} -> {Nobody}
                [] o = "Unsubscribe"            -> Subscribed
                [] o \in EndOps                 -> Transactions
                [] OTHER                        -> Transactions \cup {Nobody}
Receipts(o, x) == IF x # Nobody /\ o \in {"Send"} \cup EndOps
                    THEN BOOLEAN ELSE {FALSE}

InCall(c) == pc[c] \in {"push", "wait", "mark"}
\* A call on x that starts now meets a COMMIT or ABORT of x that is under way
\* or has failed, or is one and meets any other call on x.
Meets(x, o) == \E d \in Calls :
  /\ on[d] = x /\ op[d] \in ItemOps \cup EndOps
  /\ \/ InCall(d) /\ {o, op[d]} \cap EndOps # {}
     \/ op[d] \in EndOps /\ ret[d] \in {"timeout", "error"}

SupportsNack(v) == v \in {11, 12}

\* The call starts.  Methods of a Transaction read completed; Unsubscribe
\* swaps the state of the Subscription.  completed is not synchronised: a read
\* of an old value is a call that started before.
\* ACK and NACK need a message, so a subscription that is not auto.
Call(c) ==
  /\ pc[c] = "idle" /\ cst \notin {"connecting", "failed"}
  /\ \E o \in Ops : \E x \in Targets(o) : \E r \in Receipts(o, x) :
       /\ o \in {"Ack", "Nack"} => Subscribed # {}
       /\ o = "Nack" => SupportsNack(version)
       /\ op' = [op EXCEPT ![c] = o]
       /\ on' = [on EXCEPT ![c] = x]
       /\ rcpt' = [rcpt EXCEPT ![c] = r]
       /\ IF x \in completed
            THEN /\ pc' = [pc EXCEPT ![c] = "done"]
                 /\ ret' = [ret EXCEPT ![c] = "completed"]
                 /\ UNCHANGED <<completed, raced>>
            ELSE /\ pc' = [pc EXCEPT ![c] = "push"]
                 /\ completed' = IF o = "Unsubscribe" THEN completed \cup {x}
                                                      ELSE completed
                 /\ raced' = IF Meets(x, o) THEN raced \cup {x} ELSE raced
                 /\ UNCHANGED ret
  /\ UNCHANGED <<cst, accept, version, writeCh, channels, netVars, srvVars, asked>>

\* The call has put its frame on writeCh.
Pushed(c) == \/ pc[c] \in {"wait", "mark"}
             \/ pc[c] = "done" /\ ret[c] \notin {"completed", "closed"}
Sealed(t) == \E d \in Calls : on[d] = t /\ op[d] \in EndOps /\ Pushed(d)

\* sendFrame up to its wait for the receipt.  Unsubscribe waits after sendFrame
\* until the reader of its subscription has seen the receipt.
Push(c) ==
  /\ pc[c] = "push"
  /\ IF cst = "closed"
       THEN /\ pc' = [pc EXCEPT ![c] = "done"]
            /\ ret' = [ret EXCEPT ![c] = "closed"]
            /\ UNCHANGED <<writeCh, asked>>
       ELSE /\ writeCh' = Append(writeCh, c)
            /\ pc' = [pc EXCEPT ![c] =
                 IF rcpt[c] \/ op[c] = "Unsubscribe" THEN "wait"
                 ELSE IF op[c] \in EndOps THEN "mark" ELSE "done"]
            /\ ret' = [ret EXCEPT ![c] =
                 IF rcpt[c] \/ op[c] = "Unsubscribe" THEN @ ELSE "nil"]
            /\ asked' = IF op[c] \in ItemOps /\ on[c] # Nobody /\ ~Sealed(on[c])
                          THEN [asked EXCEPT ![on[c]] = Append(@, c)] ELSE asked
  /\ UNCHANGED <<cst, accept, version, op, on, rcpt, completed, channels, netVars,
                 srvVars, raced>>

\* The wait ends with the timer.
Timeout(c) ==
  /\ pc[c] = "wait" /\ Timeouts
  /\ pc' = [pc EXCEPT ![c] = "done"]
  /\ ret' = [ret EXCEPT ![c] = "timeout"]
  /\ UNCHANGED <<cst, accept, version, op, on, rcpt, completed, writeCh, channels,
                 netVars, srvVars, asked, raced>>

\* Mutant: completed is not set.
MarkNot(c) ==
  /\ pc[c] = "mark"
  /\ pc' = [pc EXCEPT ![c] = "done"]
  /\ UNCHANGED <<cst, accept, version, op, on, rcpt, ret, completed, writeCh,
                 channels, netVars, srvVars, asked, raced>>

\* tx.completed = true, after sendFrame has returned nil.
Mark(c) ==
  /\ pc[c] = "mark"
  /\ pc' = [pc EXCEPT ![c] = "done"]
  /\ completed' = completed \cup {on[c]}
  /\ UNCHANGED <<cst, accept, version, op, on, rcpt, ret, writeCh, channels,
                 netVars, srvVars, asked, raced>>
-----------------------------------------------------------------------------
(***************************************************************************)
(* The client's processLoop.                                               *)
(***************************************************************************)

\* A wait ends with result r; a COMMIT or ABORT that went well has still to set
\* completed.  Unsubscribe waits for the end of its subscription, whatever ends it.
WaitsOn(c) == IF op[c] = "Unsubscribe" THEN on[c] ELSE c
Answer(S, r) ==
  LET A == {c \in Calls : pc[c] = "wait" /\ WaitsOn(c) \in S}
  IN  /\ pc' = [c \in Calls |-> IF c \notin A THEN pc[c]
                                ELSE IF r = "nil" /\ op[c] \in EndOps
                                       THEN "mark" ELSE "done"]
      /\ ret' = [c \in Calls |-> IF c \notin A THEN ret[c]
                                 ELSE IF op[c] = "Unsubscribe" THEN "nil" ELSE r]

\* ERROR or sendError goes to the channels in ch one by one; the channel of a
\* call that has given up has no receiver.
EndAll(ch) ==
  LET gone == {c \in ch : op[c] # "Subscribe" /\ pc[c] # "wait"} IN
  \/ /\ gone = {}
     /\ Answer(ch, "error")
     /\ cst' = "closed"
  \/ /\ gone # {}
     /\ \E S \in SUBSET (ch \ gone) : Answer(S, "error")
     /\ cst' = "stuck"

PeerGone == link = "down" \/ sst = "closed"
Registered(c) == IF rcpt[c] \/ op[c] = "Subscribe" THEN channels \cup {c}
                                                  ELSE channels

\* A request is written.  On a broken connection it may be lost or fail.
PLWrite ==
  /\ cst = "open" /\ writeCh # <<>>
  /\ LET c == Head(writeCh) IN
       /\ writeCh' = Tail(writeCh)
       /\ channels' = Registered(c)
       /\ \/ /\ wire' = IF PeerGone THEN wire ELSE Append(wire, c)
             /\ UNCHANGED <<cst, pc, ret>>
          \/ /\ PeerGone /\ EndAll(Registered(c))
             /\ UNCHANGED wire
  /\ UNCHANGED <<accept, version, op, on, rcpt, completed, link, back, srvVars,
                 asked, raced>>

PLReceipt ==
  /\ cst = "open" /\ back # <<>> /\ Head(back).kind = "RECEIPT"
  /\ LET c == Head(back).id IN
       \/ /\ c \in channels /\ pc[c] = "wait"
          /\ Answer({c}, "nil")
          /\ channels' = channels \ {c}
          /\ UNCHANGED cst
       \/ /\ c \in channels /\ pc[c] # "wait"
          /\ cst' = "stuck"
          /\ UNCHANGED <<pc, ret, channels>>
  /\ back' = Tail(back)
  /\ UNCHANGED <<accept, version, op, on, rcpt, completed, writeCh, link, wire,
                 srvVars, asked, raced>>

\* An ERROR frame, or the end of the stream.
PLError ==
  /\ cst = "open"
  /\ IF back # <<>> THEN Head(back).kind = "ERROR" ELSE PeerGone
  /\ EndAll(channels)
  /\ back' = IF back = <<>> THEN back ELSE Tail(back)
  /\ UNCHANGED <<accept, version, op, on, rcpt, completed, writeCh, channels, link,
                 wire, srvVars, asked, raced>>
-----------------------------------------------------------------------------
(***************************************************************************)
(* The network breaks: a first part of what is under way still arrives.    *)
(***************************************************************************)
Break ==
  /\ Breaks /\ link = "up"
  /\ link' = "down"
  /\ \E i \in 0 .. Len(wire), j \in 0 .. Len(back) :
       wire' = SubSeq(wire, 1, i) /\ back' = SubSeq(back, 1, j)
  /\ UNCHANGED <<cst, accept, version, callVars, writeCh, channels, srvVars, asked,
                 raced>>
-----------------------------------------------------------------------------
(***************************************************************************)
(* The server's connection: readLoop hands the frames on in order and      *)
(* processLoop handles one after the other.  A RECEIPT is written before   *)
(* the frame takes effect; on a connection that the client has left the    *)
(* write fails, or seems to succeed.                                       *)
(***************************************************************************)
ClientGone == link = "down" \/ cst \in {"closed", "failed"}

Serving(c) ==
  /\ sst = "connected" /\ committing = Nobody
  /\ wire # <<>> /\ c = Head(wire)
  /\ wire' = Tail(wire)
Receipt(c) == IF rcpt[c] THEN <<[kind |-> "RECEIPT", id |-> c]>> ELSE <<>>
Reply(c) == back' = IF ClientGone THEN back ELSE back \o Receipt(c)

srvRest == <<cst, accept, version, callVars, writeCh, channels, link, sversion,
             asked, raced>>

\* handleAck and handleNack read "ack" and then "message-id".  The library sets
\* message-id in a frame for 1.0 and 1.1, and id in one for 1.2.
HasMsgId(c) == version \in {10, 11}
BadHeader(c) == op[c] \in {"Ack", "Nack"} /\ ~HasMsgId(c)

\* Mutant: txStore is not asked.
UnknownNever(c) == FALSE

\* txUnknown.
Unknown(c) == on[c] # Nobody /\ op[c] \in ItemOps \cup EndOps /\ store[on[c]] = NoTx

ServeBegin(c) ==
  /\ Serving(c) /\ op[c] = "Begin"
  /\ store' = [store EXCEPT ![c] = <<>>]
  /\ UNCHANGED <<srvRest, back, sst, ssubs, committing, stream, decided, cause>>

\* Mutant: an item of a transaction is handed on as well as stored.
ServeItemLeaks(c) ==
  /\ Serving(c) /\ op[c] \in ItemOps /\ ~BadHeader(c) /\ ~Unknown(c)
  /\ Reply(c)
  /\ store' = IF on[c] = Nobody THEN store ELSE [store EXCEPT ![on[c]] = Append(@, c)]
  /\ stream' = Append(stream, c)
  /\ UNCHANGED <<srvRest, sst, ssubs, committing, decided, cause>>

\* handleSend, handleAck and handleNack: to the store, or on.
ServeItem(c) ==
  /\ Serving(c) /\ op[c] \in ItemOps /\ ~BadHeader(c) /\ ~Unknown(c)
  /\ Reply(c)
  /\ IF on[c] # Nobody
       THEN /\ store' = [store EXCEPT ![on[c]] = Append(@, c)]
            /\ UNCHANGED stream
       ELSE stream' = Append(stream, c) /\ UNCHANGED store
  /\ UNCHANGED <<srvRest, sst, ssubs, committing, decided, cause>>

\* COMMIT is decided on and answered; CommitOne carries it out.
ServeCommit(c) ==
  /\ Serving(c) /\ op[c] = "Commit" /\ ~Unknown(c)
  /\ Reply(c)
  /\ committing' = on[c]
  /\ decided' = [decided EXCEPT ![on[c]] = "committed"]
  /\ UNCHANGED <<srvRest, sst, store, ssubs, stream, cause>>

\* Mutant: the last item stays behind.
CommitOneShort ==
  /\ committing # Nobody
  /\ LET l == store[committing] IN
       IF Len(l) > 1
         THEN /\ stream' = Append(stream, Head(l))
              /\ store' = [store EXCEPT ![committing] = Tail(l)]
              /\ UNCHANGED committing
         ELSE /\ store' = [store EXCEPT ![committing] = NoTx]
              /\ committing' = Nobody
              /\ UNCHANGED stream
  /\ UNCHANGED <<srvRest, wire, back, sst, ssubs, decided, cause>>

\* txStore.Commit: an item is taken off the list and handled without its
\* transaction header.  The error return of the loop is left out: a handler fails
\* on a missing header, which it has looked for before it stored the frame
\* (BadHeader), or on the receipt or the transaction, and neither header is left.
CommitOne ==
  /\ committing # Nobody
  /\ LET l == store[committing] IN
       IF l # <<>>
         THEN /\ stream' = Append(stream, Head(l))
              /\ store' = [store EXCEPT ![committing] = Tail(l)]
              /\ UNCHANGED committing
         ELSE /\ store' = [store EXCEPT ![committing] = NoTx]
              /\ committing' = Nobody
              /\ UNCHANGED stream
  /\ UNCHANGED <<srvRest, wire, back, sst, ssubs, decided, cause>>

\* Mutant: no receipt.
ServeAbortSilent(c) ==
  /\ Serving(c) /\ op[c] = "Abort" /\ ~Unknown(c)
  /\ store' = [store EXCEPT ![on[c]] = NoTx]
  /\ decided' = [decided EXCEPT ![on[c]] = "aborted"]
  /\ UNCHANGED <<srvRest, back, sst, ssubs, committing, stream, cause>>

ServeAbort(c) ==
  /\ Serving(c) /\ op[c] = "Abort" /\ ~Unknown(c)
  /\ Reply(c)
  /\ store' = [store EXCEPT ![on[c]] = NoTx]
  /\ decided' = [decided EXCEPT ![on[c]] = "aborted"]
  /\ UNCHANGED <<srvRest, sst, ssubs, committing, stream, cause>>

\* SUBSCRIBE and UNSUBSCRIBE are not answered, whatever receipt they ask for.
ServeSubs(c) ==
  /\ Serving(c)
  /\ \/ op[c] = "Subscribe" /\ ssubs' = ssubs \cup {c}
     \/ op[c] = "Unsubscribe" /\ ssubs' = ssubs \ {on[c]}
  /\ UNCHANGED <<srvRest, back, sst, store, committing, stream, decided, cause>>

\* The handler fails: before its receipt when a header is missing, after it
\* when the transaction is unknown.
ServeRefuse(c) ==
  /\ Serving(c)
  /\ \/ BadHeader(c) /\ Refuse(<<>>, "header")
     \/ ~BadHeader(c) /\ Unknown(c) /\ Refuse(Receipt(c), c)
  /\ UNCHANGED <<srvRest, committing, stream, decided>>

\* The RECEIPT cannot be written: nothing of the frame takes effect.
ServeNoReply(c) ==
  /\ Serving(c) /\ ClientGone /\ rcpt[c]
  /\ sst' = "closed"
  /\ store' = [d \in Calls |-> NoTx] /\ ssubs' = {}
  /\ UNCHANGED <<srvRest, back, committing, stream, decided, cause>>

\* The end of the stream.
ServerEof ==
  /\ sst # "closed" /\ committing = Nobody /\ ClientGone /\ wire = <<>>
  /\ sst' = "closed"
  /\ store' = [c \in Calls |-> NoTx] /\ ssubs' = {}
  /\ UNCHANGED <<srvRest, wire, back, committing, stream, decided, cause>>
-----------------------------------------------------------------------------
ClientStep == Connect \/ PLWrite \/ PLReceipt \/ PLError
ServerStep ==
  \/ HandleConnect \/ CommitOne \/ ServerEof
  \/ \E c \in Calls : \/ ServeBegin(c) \/ ServeItem(c) \/ ServeCommit(c)
                      \/ ServeAbort(c) \/ ServeSubs(c) \/ ServeRefuse(c)
                      \/ ServeNoReply(c)

Next ==
  \/ \E c \in Calls : Call(c) \/ Push(c) \/ Timeout(c) \/ Mark(c)
  \/ ClientStep
  \/ ServerStep
  \/ Break

Spec == Init /\ [][Next]_vars
-----------------------------------------------------------------------------
(***************************************************************************)
(* Properties.                                                             *)
(***************************************************************************)

\* Connect succeeds only with the highest version of those that the client
\* accepts, never with one that the server does not serve, and both ends work
\* with the same one.
VersionAgreed ==
  [][cst = "connecting" /\ cst' = "open" =>
       /\ version' = sversion /\ sst # "connecting"
       /\ version' \in accept.versions \ {10}
       /\ \A v \in accept.versions : v <= version']_vars

\* A COMMIT or ABORT that the server refuses, and an item for a transaction it
\* does not know, come only from calls that overlapped with the one that
\* completed the transaction, or from a COMMIT or ABORT that was repeated after
\* it had failed.  Calls on a transaction that are made one after the other never
\* end the connection in this way; AckAccepted is about another one.
OnlyRacesRefused == cause \in Calls => on[cause] \in raced

\* What nil means to a caller of CommitWithReceipt or AbortWithReceipt: the server
\* has taken this decision.  After COMMIT every item that was sent before it has
\* been handed on, or is in the list that txStore.Commit is going through, with
\* nothing handled in between; after ABORT none has been handed on.  The one
\* exception is a transaction whose opposite frame was sent too: the RECEIPT
\* precedes the effect, and so also the refusal.
\* It is less than "See CommitWithReceipt if you want to ensure the COMMIT is
\* processed" says: handleCommit writes the RECEIPT before it calls txStore.Commit,
\* and nil may come back while no item has been handed on.
Elements(s) == {s[i] : i \in DOMAIN s}
HandedOn(t) ==
  \A i \in Elements(asked[t]) : \/ i \in Elements(stream)
                                \/ committing = t /\ i \in Elements(store[t])
Discarded(t) == Elements(asked[t]) \cap Elements(stream) = {}
Opposite(o) == IF o = "Commit" THEN "Abort" ELSE "Commit"
Taken(o, t) ==
  \/ o = "Commit" /\ decided[t] = "committed" /\ HandedOn(t)
  \/ o = "Abort" /\ decided[t] = "aborted" /\ Discarded(t)
ReceiptMeansTaken ==
  \A c \in Calls :
    op[c] \in EndOps /\ rcpt[c] /\ ret[c] = "nil" =>
      \/ Taken(op[c], on[c])
      \/ \E d \in Calls : on[d] = on[c] /\ op[d] = Opposite(op[c]) /\ Pushed(d)

\* Every receipt that is waited for is sent: when all that was written has been
\* read and handled, at both ends of a healthy connection, nobody waits any more.
\* It is not claimed of Unsubscribe: the server sends no RECEIPT for it.
NobodyForgotten ==
  /\ cst = "open" /\ sst = "connected" /\ link = "up" /\ committing = Nobody
  /\ writeCh = <<>> /\ wire = <<>> /\ back = <<>>
  => \A c \in Calls : pc[c] = "wait" => op[c] = "Unsubscribe"

\* "Ack acknowledges a message received from the STOMP server": the server does
\* not refuse an ACK or NACK frame that the library has built.  It does, when
\* 1.2 was agreed on (SessionAck).
AckAccepted == cause # "header"

\* Transactions are atomic from the application to requestChannel: whatever
\* overlaps, times out, is repeated, refused or cut off, the items of a
\* transaction are processed all and in the order of the calls, or not at all,
\* and an item outside of transactions at most once.  An item that is sent after
\* the COMMIT or ABORT is never processed.
\* While txStore.Commit goes through its list, nothing else is handled.
ATx == INSTANCE AtomicTx WITH
         Txs       <- Calls,
         Items     <- Calls,
         alone     <- {c \in Calls : op[c] \in ItemOps /\ on[c] = Nobody /\ Pushed(c)},
         outcome   <- decided,
         processed <- IF committing = Nobody THEN stream
                      ELSE stream \o store[committing]
TxAtomic == ATx!Spec
=============================================================================
