---------------------------- MODULE SessionProofs ----------------------------
(***************************************************************************)
(* Proofs about Session for any set of calls, with and without time-outs   *)
(* and a network that breaks.                                              *)
(***************************************************************************)
EXTENDS Session, TLAPS

\* What the types rest on: a method of a transaction or subscription has one,
\* and txStore.Commit goes through a list that exists.
Shape ==
  /\ \A c \in Calls : op[c] \in EndOps \cup {"Unsubscribe"} => on[c] \in Calls
  /\ \A c \in Calls : pc[c] = "mark" => op[c] \in EndOps
  /\ committing # Nobody => sst = "connected" /\ store[committing] # NoTx

TypeInv == TypeOK /\ Shape

\* The effect of a call with its choices made.
CallWith(c, o, x, r) ==
  /\ op' = [op EXCEPT ![c] = o] /\ on' = [on EXCEPT ![c] = x]
  /\ rcpt' = [rcpt EXCEPT ![c] = r]
  /\ IF x \in completed
       THEN /\ pc' = [pc EXCEPT ![c] = "done"]
            /\ ret' = [ret EXCEPT ![c] = "completed"]
            /\ UNCHANGED <<completed, raced>>
       ELSE /\ pc' = [pc EXCEPT ![c] = "push"]
            /\ completed' = IF o = "Unsubscribe" THEN completed \cup {x} ELSE completed
            /\ raced' = IF Meets(x, o) THEN raced \cup {x} ELSE raced
            /\ UNCHANGED ret

\* Frames of the three kinds.
LEMMA FrameTypes ==
  ASSUME NEW f \in Frames
  PROVE  /\ f.kind = "CONNECTED" => f.ver \in Versions
         /\ f.kind = "RECEIPT" => f.id \in Calls
         /\ f.kind \in {"CONNECTED", "RECEIPT", "ERROR"}
BY DEF Frames

\* What the client finds in front of back is a frame.
LEMMA FrameIn ==
  /\ [kind |-> "ERROR"] \in Frames
  /\ \A c \in Calls : [kind |-> "RECEIPT", id |-> c] \in Frames
  /\ \A v \in Versions : [kind |-> "CONNECTED", ver |-> v] \in Frames
BY DEF Frames

\* The version that is determined is a version or 0.
LEMMA DetermineType ==
  ASSUME NEW a \in [cmd : {"CONNECT", "STOMP"}, versions : SUBSET Versions]
  PROVE  DetermineVersion(a) \in Versions \cup {0}
<1>1. CASE a.versions = {}
  BY <1>1 DEF DetermineVersion, Versions
<1>2. CASE a.versions # {}
  <2>1. \E v \in a.versions : \A w \in a.versions : w <= v
    BY <1>2 DEF Versions
  <2>2. Highest(a.versions) \in a.versions
    BY <2>1 DEF Highest
  <2> QED
    BY <1>2, <2>2 DEF DetermineVersion
<1> QED
  BY <1>1, <1>2

\* What Refuse leaves behind.
LEMMA RefuseType ==
  ASSUME TypeInv, NEW replies \in Seq(Frames), NEW why, Refuse(replies, why)
  PROVE  /\ back' \in Seq(Frames)
         /\ sst' = "closed" /\ ssubs' = {} /\ cause' = why
         /\ store' \in [Calls -> Seq(Calls) \cup {NoTx}]
<1>1. back \o replies \o <<[kind |-> "ERROR"]>> \in Seq(Frames)
  BY FrameIn DEF TypeInv, TypeOK
<1> QED
  BY <1>1 DEF Refuse

\* Answer and EndAll move calls only.
LEMMA AnswerType ==
  ASSUME TypeInv, NEW S, NEW r \in {"nil", "error"}, Answer(S, r)
  PROVE  /\ pc' \in [Calls -> {"idle", "push", "wait", "mark", "done"}]
         /\ \A c \in Calls : pc'[c] = "mark" => op[c] \in EndOps
         /\ ret' \in [Calls -> {"none", "nil", "completed", "closed", "error", "timeout"}]
BY DEF Answer, TypeInv, TypeOK, Shape

\* The end of processLoop keeps the types of the calls and the connection.
LEMMA EndAllType ==
  ASSUME TypeInv, NEW ch, EndAll(ch)
  PROVE  /\ pc' \in [Calls -> {"idle", "push", "wait", "mark", "done"}]
         /\ \A c \in Calls : pc'[c] = "mark" => op[c] \in EndOps
         /\ ret' \in [Calls -> {"none", "nil", "completed", "closed", "error", "timeout"}]
         /\ cst' \in {"closed", "stuck"}
<1>1. PICK S : Answer(S, "error")
  BY DEF EndAll
<1>2. cst' \in {"closed", "stuck"}
  BY DEF EndAll
<1> QED
  BY <1>1, <1>2, AnswerType

\* The server takes a frame off the wire.
LEMMA ServingType ==
  ASSUME TypeInv, NEW c \in Calls, Serving(c)
  PROVE  wire' \in Seq(Calls)
BY DEF Serving, TypeInv, TypeOK

\* A RECEIPT may be added.
LEMMA ReplyType ==
  ASSUME TypeInv, NEW c \in Calls, Reply(c)
  PROVE  back' \in Seq(Frames)
<1>1. Receipt(c) \in Seq(Frames)
  BY FrameIn DEF Receipt
<1> QED
  BY <1>1 DEF Reply, TypeInv, TypeOK

\* The mark of a missing transaction is not a list of items.
LEMMA NoTxNoList == NoTx \notin Seq(Calls)
<1>1. \A s \in Seq(Calls) : Len(s) = 1 => s[1] \in Calls
  OBVIOUS
<1> QED
  BY <1>1, NobodyAssumption DEF NoTx

\* Every step keeps the types.
LEMMA TypeStep == TypeInv /\ [Next]_vars => TypeInv'
<1> SUFFICES ASSUME TypeInv, [Next]_vars PROVE TypeInv'
  OBVIOUS
<1> USE NobodyAssumption DEF callVars, netVars, srvVars, srvRest
<1>1. CASE HandleConnect
  <2>1. DetermineVersion(accept) \in Versions \cup {0}
    BY DetermineType DEF TypeInv, TypeOK
  <2>2. sversion' \in Versions \cup {0}
    BY <1>1, <2>1 DEF HandleConnect, TypeInv, TypeOK
  <2>3. CASE \E why \in {"login", "version"} : Refuse(<<>>, why)
    <3>1. /\ back' \in Seq(Frames) /\ sst' = "closed" /\ ssubs' = {}
          /\ cause' \in {"login", "version"}
          /\ store' \in [Calls -> Seq(Calls) \cup {NoTx}]
      <4>1. <<>> \in Seq(Frames)
        OBVIOUS
      <4> QED
        BY <2>3, <4>1, RefuseType
    <3>2. committing = Nobody
      BY <1>1 DEF HandleConnect, TypeInv, Shape
    <3> QED
      BY <1>1, <2>2, <3>1, <3>2 DEF HandleConnect, TypeInv, TypeOK, Shape, Reasons
  <2>4. CASE ~\E why \in {"login", "version"} : Refuse(<<>>, why)
    <3>1. /\ UNCHANGED <<store, ssubs, cause>> /\ sst' = "connected"
          /\ DetermineVersion(accept) \in Versions
          /\ back' = <<[kind |-> "CONNECTED", ver |-> DetermineVersion(accept)]>>
      BY <1>1, <2>4 DEF HandleConnect, Versions
    <3>2. back' \in Seq(Frames)
      BY <3>1, FrameIn
    <3> QED
      BY <1>1, <2>2, <3>1, <3>2 DEF HandleConnect, TypeInv, TypeOK, Shape, Reasons
  <2> QED
    BY <1>1, <2>3, <2>4 DEF HandleConnect
<1>2. CASE Connect
  <2>1. back # <<>> => Head(back) \in Frames /\ Tail(back) \in Seq(Frames)
    BY DEF TypeInv, TypeOK
  <2>2. version' \in Versions \cup {0}
    BY <1>2, <2>1, FrameTypes DEF Connect, TypeInv, TypeOK
  <2>3. back' \in Seq(Frames) /\ cst' \in {"open", "failed"}
    BY <1>2, <2>1 DEF Connect, TypeInv, TypeOK
  <2> QED
    BY <1>2, <2>2, <2>3 DEF Connect, TypeInv, TypeOK, Shape, NoAccept
<1>3. ASSUME NEW c \in Calls, Call(c) PROVE TypeInv'
  <2>1. PICK o \in Ops : \E x \in Targets(o) : \E r \in Receipts(o, x) : CallWith(c, o, x, r)
    BY <1>3 DEF Call, CallWith
  <2>2. PICK x \in Targets(o) : \E r \in Receipts(o, x) : CallWith(c, o, x, r)
    BY <2>1
  <2>6. PICK r \in Receipts(o, x) : CallWith(c, o, x, r)
    BY <2>2
  <2>3. /\ o \in AllOps /\ r \in BOOLEAN /\ x \in Calls \cup {Nobody}
        /\ o \in EndOps \cup {"Unsubscribe"} => x \in Calls
    BY OpsAssumption
       DEF Targets, Receipts, Transactions, Subscribed, AllOps, EndOps, ItemOps
  <2>4. Meets(x, o) => x \in Calls
    BY <2>3 DEF Meets, TypeInv, TypeOK, Shape, ItemOps, EndOps
  <2>5. UNCHANGED <<cst, accept, version, writeCh, channels, netVars, srvVars, asked>>
    BY <1>3 DEF Call
  <2>7. /\ op' = [op EXCEPT ![c] = o] /\ on' = [on EXCEPT ![c] = x]
        /\ rcpt' = [rcpt EXCEPT ![c] = r]
    BY <2>6 DEF CallWith
  <2>8. /\ pc' \in [Calls -> {"idle", "push", "wait", "mark", "done"}]
        /\ ret' \in [Calls -> {"none", "nil", "completed", "closed", "error", "timeout"}]
        /\ completed' \subseteq Calls /\ raced' \subseteq Calls
        /\ \A d \in Calls : pc'[d] = "mark" => d # c /\ pc[d] = "mark"
    <3>1. CASE x \in completed
      BY <2>6, <3>1 DEF CallWith, TypeInv, TypeOK
    <3>2. CASE x \notin completed
      <4>1. /\ pc' = [pc EXCEPT ![c] = "push"] /\ UNCHANGED ret
            /\ completed' \in {completed, completed \cup {x}}
            /\ o # "Unsubscribe" => completed' = completed
            /\ raced' \in {raced, raced \cup {x}} /\ (~Meets(x, o) => raced' = raced)
        BY <2>6, <3>2 DEF CallWith
      <4> QED
        BY <2>3, <2>4, <4>1 DEF TypeInv, TypeOK
    <3> QED
      BY <3>1, <3>2
  <2>9. TypeOK'
    BY <2>3, <2>5, <2>7, <2>8 DEF TypeInv, TypeOK
  <2>10. \A d \in Calls : op'[d] \in EndOps \cup {"Unsubscribe"} => on'[d] \in Calls
    BY <2>3, <2>7 DEF TypeInv, TypeOK, Shape
  <2>11. \A d \in Calls : pc'[d] = "mark" => op'[d] \in EndOps
    BY <2>7, <2>8 DEF TypeInv, TypeOK, Shape
  <2> QED
    BY <2>5, <2>9, <2>10, <2>11 DEF TypeInv, Shape
<1>4. ASSUME NEW c \in Calls, Push(c) PROVE TypeInv'
  <2>1. Append(writeCh, c) \in Seq(Calls)
    BY DEF TypeInv, TypeOK
  <2>2. asked' \in [Calls -> Seq(Calls)]
    <3>1. on[c] # Nobody => on[c] \in Calls /\ Append(asked[on[c]], c) \in Seq(Calls)
      BY DEF TypeInv, TypeOK
    <3> QED
      BY <1>4, <3>1, ZenonT(30) DEF Push, TypeInv, TypeOK
  <2>3. /\ pc' \in [Calls -> {"idle", "push", "wait", "mark", "done"}]
        /\ ret' \in [Calls -> {"none", "nil", "completed", "closed", "error", "timeout"}]
        /\ \A d \in Calls : pc'[d] = "mark" => pc[d] = "mark" \/ op[d] \in EndOps
    BY <1>4, ZenonT(30) DEF Push, TypeInv, TypeOK
  <2>4. writeCh' \in Seq(Calls)
    BY <1>4, <2>1 DEF Push, TypeInv, TypeOK
  <2> QED
    BY <1>4, <2>2, <2>3, <2>4 DEF Push, TypeInv, TypeOK, Shape
<1>5. ASSUME NEW c \in Calls, Timeout(c) PROVE TypeInv'
  BY <1>5 DEF Timeout, TypeInv, TypeOK, Shape
<1>6. ASSUME NEW c \in Calls, Mark(c) PROVE TypeInv'
  <2>1. on[c] \in Calls
    BY <1>6 DEF Mark, TypeInv, Shape
  <2> QED
    BY <1>6, <2>1 DEF Mark, TypeInv, TypeOK, Shape
<1>7. CASE PLWrite
  <2>1. /\ Head(writeCh) \in Calls /\ Tail(writeCh) \in Seq(Calls)
        /\ Append(wire, Head(writeCh)) \in Seq(Calls)
    BY <1>7 DEF PLWrite, TypeInv, TypeOK
  <2>2. channels' \subseteq Calls
    BY <1>7, <2>1 DEF PLWrite, Registered, TypeInv, TypeOK
  <2>3. CASE UNCHANGED <<cst, pc, ret>>
    BY <1>7, <2>1, <2>2, <2>3 DEF PLWrite, TypeInv, TypeOK, Shape
  <2>4. CASE EndAll(Registered(Head(writeCh))) /\ UNCHANGED wire
    BY <1>7, <2>1, <2>2, <2>4, EndAllType DEF PLWrite, TypeInv, TypeOK, Shape
  <2> QED
    BY <1>7, <2>3, <2>4 DEF PLWrite
<1>8. CASE PLReceipt
  <2>1. Tail(back) \in Seq(Frames)
    BY <1>8 DEF PLReceipt, TypeInv, TypeOK
  <2>2. CASE UNCHANGED <<pc, ret>>
    BY <1>8, <2>1, <2>2 DEF PLReceipt, TypeInv, TypeOK, Shape
  <2>3. CASE Answer({Head(back).id}, "nil") /\ UNCHANGED cst
    BY <1>8, <2>1, <2>3, AnswerType DEF PLReceipt, TypeInv, TypeOK, Shape
  <2> QED
    BY <1>8, <2>2, <2>3 DEF PLReceipt
<1>9. CASE PLError
  <2>1. back' \in Seq(Frames)
    BY <1>9 DEF PLError, TypeInv, TypeOK
  <2> QED
    BY <1>9, <2>1, EndAllType DEF PLError, TypeInv, TypeOK, Shape
<1>10. CASE Break
  <2>1. wire' \in Seq(Calls) /\ back' \in Seq(Frames)
    BY <1>10 DEF Break, TypeInv, TypeOK
  <2> QED
    BY <1>10, <2>1 DEF Break, TypeInv, TypeOK, Shape
<1>11. ASSUME NEW c \in Calls, ServeBegin(c) PROVE TypeInv'
  BY <1>11, ServingType DEF ServeBegin, Serving, TypeInv, TypeOK, Shape
<1>12. ASSUME NEW c \in Calls, ServeItem(c) PROVE TypeInv'
  <2>1. stream' \in Seq(Calls) /\ store' \in [Calls -> Seq(Calls) \cup {NoTx}]
    <3>1. Append(stream, c) \in Seq(Calls)
      BY DEF TypeInv, TypeOK
    <3>2. on[c] # Nobody => on[c] \in Calls /\ Append(store[on[c]], c) \in Seq(Calls)
      BY <1>12 DEF ServeItem, Unknown, TypeInv, TypeOK
    <3>3. CASE on[c] # Nobody
      <4>1. UNCHANGED stream /\ store' = [store EXCEPT ![on[c]] = Append(store[on[c]], c)]
        BY <1>12, <3>3 DEF ServeItem
      <4> QED
        BY <3>2, <3>3, <4>1 DEF TypeInv, TypeOK
    <3>4. CASE on[c] = Nobody
      BY <1>12, <3>1, <3>4 DEF ServeItem, TypeInv, TypeOK
    <3> QED
      BY <3>3, <3>4
  <2> QED
    BY <1>12, <2>1, ServingType, ReplyType DEF ServeItem, Serving, TypeInv, TypeOK, Shape
<1>13. ASSUME NEW c \in Calls, ServeCommit(c) PROVE TypeInv'
  <2>1. on[c] \in Calls /\ store[on[c]] # NoTx
    BY <1>13 DEF ServeCommit, Unknown, TypeInv, Shape, EndOps
  <2> QED
    BY <1>13, <2>1, ServingType, ReplyType DEF ServeCommit, Serving, TypeInv, TypeOK, Shape
<1>14. CASE CommitOne
  <2>1. committing \in Calls /\ store[committing] \in Seq(Calls)
    BY <1>14 DEF CommitOne, TypeInv, TypeOK, Shape
  <2>2. CASE store[committing] # <<>>
    <3>1. /\ Head(store[committing]) \in Calls /\ Tail(store[committing]) \in Seq(Calls)
          /\ Tail(store[committing]) # NoTx
      BY <2>1, <2>2, NoTxNoList
    <3>2. Append(stream, Head(store[committing])) \in Seq(Calls)
      BY <3>1 DEF TypeInv, TypeOK
    <3>3. /\ stream' = Append(stream, Head(store[committing])) /\ UNCHANGED committing
          /\ store' = [store EXCEPT ![committing] = Tail(store[committing])]
      BY <1>14, <2>2 DEF CommitOne
    <3>4. store' \in [Calls -> Seq(Calls) \cup {NoTx}] /\ store'[committing] # NoTx
      BY <2>1, <3>1, <3>3 DEF TypeInv, TypeOK
    <3> QED
      BY <1>14, <3>2, <3>3, <3>4 DEF CommitOne, TypeInv, TypeOK, Shape
  <2>3. CASE store[committing] = <<>>
    BY <1>14, <2>1, <2>3 DEF CommitOne, TypeInv, TypeOK, Shape
  <2> QED
    BY <2>2, <2>3
<1>15. ASSUME NEW c \in Calls, ServeAbort(c) PROVE TypeInv'
  BY <1>15, ServingType, ReplyType DEF ServeAbort, Serving, TypeInv, TypeOK, Shape
<1>16. ASSUME NEW c \in Calls, ServeSubs(c) PROVE TypeInv'
  BY <1>16, ServingType DEF ServeSubs, Serving, TypeInv, TypeOK, Shape
<1>17. ASSUME NEW c \in Calls, ServeRefuse(c) PROVE TypeInv'
  <2>1. PICK replies \in Seq(Frames), why \in Calls \cup {"header"} : Refuse(replies, why)
    <3>1. <<>> \in Seq(Frames) /\ Receipt(c) \in Seq(Frames)
      BY FrameIn DEF Receipt
    <3> QED
      BY <1>17, <3>1 DEF ServeRefuse
  <2> QED
    BY <1>17, <2>1, RefuseType, ServingType
       DEF ServeRefuse, Serving, TypeInv, TypeOK, Shape, Reasons
<1>18. ASSUME NEW c \in Calls, ServeNoReply(c) PROVE TypeInv'
  BY <1>18, ServingType DEF ServeNoReply, Serving, TypeInv, TypeOK, Shape
<1>19. CASE ServerEof
  BY <1>19 DEF ServerEof, TypeInv, TypeOK, Shape
<1>20. CASE UNCHANGED vars
  BY <1>20 DEF vars, TypeInv, TypeOK, Shape
<1> QED
  BY <1>1, <1>2, <1>3, <1>4, <1>5, <1>6, <1>7, <1>8, <1>9, <1>10, <1>11, <1>12, <1>13,
     <1>14, <1>15, <1>16, <1>17, <1>18, <1>19, <1>20 DEF Next, ClientStep, ServerStep

\* The first state has its type.
LEMMA InitType ==
  ASSUME Init
  PROVE  TypeInv
<1>1. /\ <<>> \in Seq(Calls) /\ <<>> \in Seq(Frames) /\ "none" \in Reasons
      /\ accept \in [cmd : {"CONNECT", "STOMP"}, versions : SUBSET Versions]
  BY DEF Init, Reasons
<1>2. TypeOK
  BY <1>1 DEF Init, TypeOK
<1> QED
  BY <1>2 DEF Init, TypeInv, Shape, EndOps

\* The types hold in every state of every behaviour.
THEOREM TypeCorrect == Spec => []TypeOK
<1>1. Init => TypeInv
  BY InitType
<1> QED
  BY <1>1, TypeStep, PTL DEF Spec, TypeInv
-----------------------------------------------------------------------------
(***************************************************************************)
(* A call from its start to its return.                                    *)
(***************************************************************************)

\* What is known of a call by where it is.
CallShape ==
  \A c \in Calls :
    /\ pc[c] = "idle" => op[c] = "none" /\ on[c] = Nobody /\ ret[c] = "none" /\ ~rcpt[c]
    /\ pc[c] # "idle" => op[c] \in AllOps
    /\ pc[c] \in {"push", "wait"} => ret[c] = "none"
    /\ pc[c] = "wait" => rcpt[c] \/ op[c] = "Unsubscribe"
    /\ pc[c] = "mark" => ret[c] = "nil"
    /\ pc[c] = "done" => ret[c] # "none"
    /\ rcpt[c] => op[c] \in {"Send"} \cup EndOps
    /\ op[c] \in {"Begin", "Subscribe"} => on[c] = Nobody
    /\ op[c] \in ItemOps \cup EndOps /\ on[c] # Nobody => on[c] \in Transactions
    /\ ret[c] = "completed" => on[c] # Nobody
    /\ ret[c] = "closed" => cst = "closed"
    /\ op[c] \in EndOps /\ pc[c] = "done" /\ ret[c] = "nil" => on[c] \in completed

\* Nothing is asked for before the connection is open, and the server handles
\* CONNECT before it answers.
Early ==
  /\ cst \in {"connecting", "failed"} =>
       /\ \A c \in Calls : pc[c] = "idle"
       /\ wire = <<>> /\ writeCh = <<>>
  /\ sst = "connecting" => cst \in {"connecting", "failed"} /\ back = <<>>

\* A step that ends some of the waits, or none.
Settled ==
  /\ UNCHANGED <<op, on, rcpt, completed, asked, raced>>
  /\ \A c \in Calls :
       \/ pc'[c] = pc[c] /\ ret'[c] = ret[c]
       \/ /\ pc[c] = "wait"
          /\ \/ ret'[c] \in {"error", "timeout"} /\ pc'[c] = "done"
             \/ ret'[c] = "nil" /\ pc'[c] = IF op[c] \in EndOps THEN "mark" ELSE "done"

\* Answer and EndAll settle calls.
LEMMA AnswerSettles ==
  ASSUME TypeInv, NEW S, NEW r \in {"nil", "error"}, Answer(S, r),
         UNCHANGED <<op, on, rcpt, completed, asked, raced>>
  PROVE  Settled
BY DEF Answer, Settled, TypeInv, TypeOK, EndOps

\* ERROR and sendError only end waits, like a RECEIPT.
LEMMA EndAllSettles ==
  ASSUME TypeInv, NEW ch, EndAll(ch), UNCHANGED <<op, on, rcpt, completed, asked, raced>>
  PROVE  Settled
<1>1. PICK S : Answer(S, "error")
  BY DEF EndAll
<1> QED
  BY <1>1, AnswerSettles

\* What a step does to the calls: one starts, puts its frame on writeCh or sets
\* completed, or waits end.
LEMMA CallStep ==
  ASSUME TypeInv, [Next]_vars
  PROVE  (\E c \in Calls : Call(c) \/ Push(c) \/ Mark(c)) \/ Settled
<1> USE DEF callVars, srvRest
<1>1. ASSUME NEW c \in Calls, Timeout(c) PROVE Settled
  BY <1>1 DEF Timeout, Settled, TypeInv, TypeOK
<1>2. ASSUME UNCHANGED <<pc, op, on, rcpt, ret, completed, asked, raced>> PROVE Settled
  BY <1>2 DEF Settled
<1>3. CASE PLWrite
  <2>1. EndAll(Registered(Head(writeCh))) \/ UNCHANGED <<cst, pc, ret>>
    BY <1>3 DEF PLWrite
  <2> QED
    BY <1>3, <1>2, <2>1, EndAllSettles DEF PLWrite
<1>4. CASE PLReceipt
  <2>1. Answer({Head(back).id}, "nil") \/ UNCHANGED <<pc, ret>>
    BY <1>4 DEF PLReceipt
  <2> QED
    BY <1>4, <1>2, <2>1, AnswerSettles DEF PLReceipt
<1>5. CASE PLError
  BY <1>5, EndAllSettles DEF PLError
<1>6. CASE HandleConnect \/ Connect \/ Break \/ CommitOne \/ ServerEof \/ UNCHANGED vars
  BY <1>6, <1>2 DEF HandleConnect, Connect, Break, CommitOne, ServerEof, vars
<1>7. ASSUME NEW c \in Calls,
             \/ ServeBegin(c) \/ ServeItem(c) \/ ServeCommit(c) \/ ServeAbort(c)
             \/ ServeSubs(c) \/ ServeRefuse(c) \/ ServeNoReply(c)
      PROVE  Settled
  BY <1>7, <1>2 DEF ServeBegin, ServeItem, ServeCommit, ServeAbort, ServeSubs,
                    ServeRefuse, ServeNoReply
<1> QED
  BY <1>1, <1>3, <1>4, <1>5, <1>6, <1>7 DEF Next, ClientStep, ServerStep

\* The start of a call with its choices made.
LEMMA CallChoice ==
  ASSUME TypeInv, NEW c \in Calls, Call(c)
  PROVE  \E o \in AllOps, x \in Calls \cup {Nobody}, r \in BOOLEAN :
           /\ CallWith(c, o, x, r)
           /\ o \in {"Begin", "Subscribe"} => x = Nobody
           /\ o \in EndOps \cup {"Unsubscribe"} => x \in Calls
           /\ o \in ItemOps \cup EndOps /\ x # Nobody => x \in Transactions
           /\ r => o \in {"Send"} \cup EndOps
<1>1. PICK o \in Ops : \E x \in Targets(o) : \E r \in Receipts(o, x) : CallWith(c, o, x, r)
  BY DEF Call, CallWith
<1>2. PICK x \in Targets(o) : \E r \in Receipts(o, x) : CallWith(c, o, x, r)
  BY <1>1
<1>3. PICK r \in Receipts(o, x) : CallWith(c, o, x, r)
  BY <1>2
<1>4. /\ o \in AllOps /\ x \in Calls \cup {Nobody}
      /\ o \in {"Begin", "Subscribe"} => x = Nobody
      /\ o \in EndOps \cup {"Unsubscribe"} => x \in Calls
      /\ o \in ItemOps \cup EndOps /\ x # Nobody => x \in Transactions
  BY OpsAssumption DEF Targets, Transactions, Subscribed, AllOps, EndOps, ItemOps
<1>5. r \in BOOLEAN /\ (r => o \in {"Send"} \cup EndOps)
  BY DEF Receipts
<1> QED
  BY <1>3, <1>4, <1>5

\* A call that has started keeps what it was started with; one that has
\* returned keeps its result; a closed connection stays closed.
LEMMA Stable ==
  ASSUME TypeInv, [Next]_vars
  PROVE  /\ \A d \in Calls : pc[d] # "idle" =>
              pc'[d] # "idle" /\ op'[d] = op[d] /\ on'[d] = on[d] /\ rcpt'[d] = rcpt[d]
         /\ \A d \in Calls : pc[d] = "done" => pc'[d] = "done" /\ ret'[d] = ret[d]
         /\ completed \subseteq completed' /\ raced \subseteq raced'
<1>1. ASSUME NEW c \in Calls, Call(c)
      PROVE  /\ \A d \in Calls : d # c =>
                  /\ pc'[d] = pc[d] /\ ret'[d] = ret[d] /\ op'[d] = op[d]
                  /\ on'[d] = on[d] /\ rcpt'[d] = rcpt[d]
             /\ completed \subseteq completed' /\ raced \subseteq raced'
  <2>1. PICK o \in AllOps, x \in Calls \cup {Nobody}, r \in BOOLEAN : CallWith(c, o, x, r)
    BY <1>1, CallChoice
  <2> QED
    BY <2>1 DEF CallWith, TypeInv, TypeOK
<1>2. ASSUME NEW c \in Calls, Push(c)
      PROVE  /\ UNCHANGED <<op, on, rcpt, completed, raced>> /\ pc'[c] # "idle"
             /\ \A d \in Calls : d # c => pc'[d] = pc[d] /\ ret'[d] = ret[d]
  BY <1>2 DEF Push, TypeInv, TypeOK
<1>3. ASSUME NEW c \in Calls, Mark(c)
      PROVE  /\ UNCHANGED <<op, on, rcpt, ret, raced>> /\ pc' = [pc EXCEPT ![c] = "done"]
             /\ completed \subseteq completed'
  BY <1>3 DEF Mark
<1>4. ASSUME NEW c \in Calls, Call(c) PROVE pc[c] = "idle"
  BY <1>4 DEF Call
<1>5. ASSUME NEW c \in Calls, Push(c) PROVE pc[c] = "push"
  BY <1>5 DEF Push
<1>6. CASE \E c \in Calls : Call(c)
  BY <1>6, <1>1, <1>4
<1>7. CASE \E c \in Calls : Push(c)
  BY <1>7, <1>2, <1>5
<1>8. CASE \E c \in Calls : Mark(c)
  BY <1>8, <1>3 DEF TypeInv, TypeOK
<1>9. CASE Settled
  BY <1>9 DEF Settled
<1> QED
  BY <1>6, <1>7, <1>8, <1>9, CallStep

\* The connection of the client only goes forward.
LEMMA ConnForward ==
  ASSUME TypeInv, [Next]_vars
  PROVE  /\ cst = "closed" => cst' = "closed"
         /\ cst' \in {"connecting", "failed"} => cst \in {"connecting", "failed"}
         /\ sst' = "connecting" => sst = "connecting"
<1> USE DEF callVars, netVars, srvVars, srvRest
<1>1. ASSUME NEW c \in Calls, Call(c) \/ Push(c) \/ Timeout(c) \/ Mark(c)
      PROVE  UNCHANGED <<cst, sst>>
  BY <1>1 DEF Call, Push, Timeout, Mark
<1>2. CASE Connect \/ PLWrite \/ PLReceipt \/ PLError
  BY <1>2 DEF Connect, PLWrite, PLReceipt, PLError, EndAll
<1>3. CASE HandleConnect \/ CommitOne \/ ServerEof \/ Break \/ UNCHANGED vars
  BY <1>3 DEF HandleConnect, CommitOne, ServerEof, Break, vars, Refuse
<1>4. ASSUME NEW c \in Calls,
             \/ ServeBegin(c) \/ ServeItem(c) \/ ServeCommit(c) \/ ServeAbort(c)
             \/ ServeSubs(c) \/ ServeRefuse(c) \/ ServeNoReply(c)
      PROVE  UNCHANGED cst /\ sst' \in {sst, "closed"}
  BY <1>4 DEF ServeBegin, ServeItem, ServeCommit, ServeAbort, ServeSubs, ServeRefuse,
              ServeNoReply, Refuse
<1> QED
  BY <1>1, <1>2, <1>3, <1>4 DEF Next, ClientStep, ServerStep

\* Every step keeps the shape of the calls.
LEMMA CallShapeStep ==
  ASSUME TypeInv, CallShape, [Next]_vars
  PROVE  CallShape'
<1>1. Transactions \subseteq Transactions'
  BY Stable DEF Transactions
<1>2. cst = "closed" => cst' = "closed"
  BY ConnForward
<1>3. ASSUME NEW c \in Calls, Call(c) PROVE CallShape'
  <2>1. PICK o \in AllOps, x \in Calls \cup {Nobody}, r \in BOOLEAN :
           /\ CallWith(c, o, x, r)
           /\ o \in {"Begin", "Subscribe"} => x = Nobody
           /\ o \in ItemOps \cup EndOps /\ x # Nobody => x \in Transactions
           /\ r => o \in {"Send"} \cup EndOps
    BY <1>3, CallChoice
  <2>2. /\ op' = [op EXCEPT ![c] = o] /\ on' = [on EXCEPT ![c] = x]
        /\ rcpt' = [rcpt EXCEPT ![c] = r] /\ completed \subseteq completed'
        /\ \/ /\ pc' = [pc EXCEPT ![c] = "done"] /\ x \in completed
              /\ ret' = [ret EXCEPT ![c] = "completed"]
           \/ pc' = [pc EXCEPT ![c] = "push"] /\ UNCHANGED ret
    BY <2>1 DEF CallWith
  <2>3. pc[c] = "idle" /\ ret[c] = "none" /\ Nobody \notin completed
    BY <1>3, NobodyAssumption DEF Call, CallShape, TypeInv, TypeOK
  <2> QED
    BY <1>1, <1>2, <2>1, <2>2, <2>3 DEF CallShape, TypeInv, TypeOK
<1>4. ASSUME NEW c \in Calls, Push(c) PROVE CallShape'
  <2>1. /\ UNCHANGED <<op, on, rcpt, completed>> /\ pc[c] = "push"
        /\ \/ /\ cst = "closed" /\ pc' = [pc EXCEPT ![c] = "done"]
              /\ ret' = [ret EXCEPT ![c] = "closed"]
           \/ /\ rcpt[c] \/ op[c] = "Unsubscribe"
              /\ pc' = [pc EXCEPT ![c] = "wait"] /\ ret' = [ret EXCEPT ![c] = @]
           \/ /\ op[c] \in EndOps /\ pc' = [pc EXCEPT ![c] = "mark"]
              /\ ret' = [ret EXCEPT ![c] = "nil"]
           \/ /\ op[c] \notin EndOps /\ pc' = [pc EXCEPT ![c] = "done"]
              /\ ret' = [ret EXCEPT ![c] = "nil"]
    BY <1>4 DEF Push
  <2> QED
    BY <1>1, <1>2, <2>1 DEF CallShape, TypeInv, TypeOK
<1>5. ASSUME NEW c \in Calls, Mark(c) PROVE CallShape'
  BY <1>1, <1>2, <1>5 DEF Mark, CallShape, TypeInv, TypeOK
<1>6. CASE Settled
  <2>1. UNCHANGED <<op, on, rcpt, completed>>
    BY <1>6 DEF Settled
  <2>2. ASSUME NEW c \in Calls, pc'[c] = pc[c], ret'[c] = ret[c]
        PROVE  CallShape!(c)'
    BY <1>1, <1>2, <2>1, <2>2 DEF CallShape
  <2>3. ASSUME NEW c \in Calls, pc[c] = "wait",
               \/ ret'[c] \in {"error", "timeout"} /\ pc'[c] = "done"
               \/ ret'[c] = "nil" /\ pc'[c] = "mark"
               \/ ret'[c] = "nil" /\ pc'[c] = "done" /\ op[c] \notin EndOps
        PROVE  CallShape!(c)'
    BY <1>1, <2>1, <2>3 DEF CallShape
  <2> QED
    BY <1>6, <2>2, <2>3 DEF Settled, CallShape
<1> QED
  BY <1>3, <1>4, <1>5, <1>6, CallStep

\* Nothing is called or sent before the handshake has ended.
LEMMA EarlyStep ==
  ASSUME TypeInv, CallShape, Early, [Next]_vars
  PROVE  Early'
<1> USE DEF callVars, netVars, srvVars, srvRest
<1>1. ASSUME cst \in {"connecting", "failed"}, cst' \in {"connecting", "failed"}
      PROVE  /\ \A c \in Calls : pc'[c] = "idle"
             /\ wire' = <<>> /\ writeCh' = <<>>
  <2>1. wire = <<>> /\ writeCh = <<>> /\ \A c \in Calls : pc[c] = "idle"
    BY <1>1 DEF Early
  <2>2. ~\E c \in Calls : Call(c) \/ Push(c) \/ Timeout(c) \/ Mark(c)
    BY <1>1, <2>1 DEF Call, Push, Timeout, Mark
  <2>3. \A c \in Calls : pc'[c] = "idle"
    BY <2>1, <2>2, CallStep DEF Settled
  <2>4. CASE HandleConnect \/ CommitOne \/ ServerEof \/ UNCHANGED vars \/ Connect
    BY <2>1, <2>3, <2>4 DEF HandleConnect, CommitOne, ServerEof, vars, Connect
  <2>5. CASE Break
    <3>1. PICK i \in 0 .. Len(wire) : wire' = SubSeq(wire, 1, i)
      BY <2>5 DEF Break
    <3>2. wire' = <<>>
      BY <2>1, <3>1
    <3> QED
      BY <2>1, <2>3, <2>5, <3>2 DEF Break
  <2>6. ~(PLWrite \/ PLReceipt \/ PLError)
    BY <1>1 DEF PLWrite, PLReceipt, PLError
  <2>7. ~\E c \in Calls : Serving(c)
    BY <2>1 DEF Serving
  <2> QED
    BY <2>2, <2>4, <2>5, <2>6, <2>7 DEF Next, ClientStep, ServerStep, ServeBegin,
       ServeItem, ServeCommit, ServeAbort, ServeSubs, ServeRefuse, ServeNoReply
<1>2. ASSUME sst = "connecting", sst' = "connecting"
      PROVE  cst' \in {"connecting", "failed"} /\ back' = <<>>
  <2>1. cst \in {"connecting", "failed"} /\ back = <<>>
    BY <1>2 DEF Early
  <2>2. CASE UNCHANGED <<cst, back>>
    BY <2>1, <2>2
  <2>3. CASE Connect
    BY <2>1, <2>3 DEF Connect
  <2>4. CASE Break
    <3>1. PICK i \in 0 .. Len(back) : back' = SubSeq(back, 1, i)
      BY <2>4 DEF Break
    <3>2. back' = <<>>
      BY <2>1, <3>1
    <3> QED
      BY <2>1, <2>4, <3>2 DEF Break
  <2>5. ~(PLWrite \/ PLReceipt \/ PLError \/ HandleConnect) /\ ~\E c \in Calls : Serving(c)
    BY <1>2, <2>1 DEF PLWrite, PLReceipt, PLError, HandleConnect, Serving, Refuse
  <2>6. ASSUME NEW c \in Calls, Call(c) \/ Push(c) \/ Timeout(c) \/ Mark(c)
        PROVE  UNCHANGED <<cst, back>>
    BY <2>6 DEF Call, Push, Timeout, Mark
  <2>7. CASE CommitOne \/ ServerEof \/ UNCHANGED vars
    BY <2>2, <2>7 DEF CommitOne, ServerEof, vars
  <2> QED
    BY <2>2, <2>3, <2>4, <2>5, <2>6, <2>7 DEF Next, ClientStep, ServerStep, ServeBegin,
       ServeItem, ServeCommit, ServeAbort, ServeSubs, ServeRefuse, ServeNoReply
<1> QED
  BY <1>1, <1>2, ConnForward DEF Early
-----------------------------------------------------------------------------
(***************************************************************************)
(* The frames to the client, and the version.                              *)
(***************************************************************************)
Replying(c) == ServeItem(c) \/ ServeCommit(c) \/ ServeAbort(c) \/ ServeRefuse(c)

\* Where a frame on its way to the client comes from.
LEMMA NewFrame ==
  ASSUME TypeInv, [Next]_vars, NEW i \in 1 .. Len(back')
  PROVE  \/ \E j \in 1 .. Len(back) : back'[i] = back[j]
         \/ back'[i].kind = "ERROR"
         \/ /\ HandleConnect /\ sversion' = DetermineVersion(accept)
            /\ sversion' \in {11, 12} /\ sst' = "connected"
            /\ back'[i] = [kind |-> "CONNECTED", ver |-> sversion']
         \/ \E c \in Calls : /\ Replying(c) /\ rcpt[c]
                             /\ back'[i] = [kind |-> "RECEIPT", id |-> c]
<1> USE DEF callVars, netVars, srvVars, srvRest
<1>0. back \in Seq(Frames)
  BY DEF TypeInv, TypeOK
<1>1. CASE UNCHANGED back
  BY <1>1
<1>2. CASE back # <<>> /\ back' = Tail(back)
  <2>1. i + 1 \in 1 .. Len(back) /\ back'[i] = back[i + 1]
    BY <1>0, <1>2
  <2> QED
    BY <2>1
<1>3. CASE Break
  <2>1. PICK j \in 0 .. Len(back) : back' = SubSeq(back, 1, j)
    BY <1>3 DEF Break
  <2>2. i \in 1 .. Len(back) /\ back'[i] = back[i]
    BY <1>0, <2>1
  <2> QED
    BY <2>2
<1>4. ASSUME NEW replies \in Seq(Frames), NEW why, Refuse(replies, why)
      PROVE  \/ \E j \in 1 .. Len(back) : back'[i] = back[j]
             \/ back'[i].kind = "ERROR"
             \/ \E j \in 1 .. Len(replies) : back'[i] = replies[j]
  <2>1. back' = (back \o replies) \o <<[kind |-> "ERROR"]>>
    BY <1>4 DEF Refuse
  <2>2. \/ i \in 1 .. Len(back) /\ back'[i] = back[i]
        \/ i - Len(back) \in 1 .. Len(replies) /\ back'[i] = replies[i - Len(back)]
        \/ back'[i] = [kind |-> "ERROR"]
    BY <1>0, <2>1
  <2> QED
    BY <2>2
<1>5. CASE HandleConnect
  <2>1. CASE \E why : Refuse(<<>>, why)
    <3>1. PICK why : Refuse(<<>>, why)
      BY <2>1
    <3>2. <<>> \in Seq(Frames) /\ Len(<<>>) = 0
      OBVIOUS
    <3>3. \/ \E j \in 1 .. Len(back) : back'[i] = back[j]
          \/ back'[i].kind = "ERROR"
          \/ \E j \in 1 .. Len(<<>>) : back'[i] = <<>>[j]
      BY <3>1, <3>2, <1>4
    <3> QED
      BY <3>2, <3>3
  <2>2. CASE ~\E why : Refuse(<<>>, why)
    BY <1>5, <2>2 DEF HandleConnect
  <2> QED
    BY <2>1, <2>2
<1>6. ASSUME NEW c \in Calls, ServeItem(c) \/ ServeCommit(c) \/ ServeAbort(c)
      PROVE  \/ \E j \in 1 .. Len(back) : back'[i] = back[j]
             \/ rcpt[c] /\ back'[i] = [kind |-> "RECEIPT", id |-> c]
  <2>1. CASE UNCHANGED back
    BY <2>1
  <2>2. CASE back' = back \o <<[kind |-> "RECEIPT", id |-> c]>> /\ rcpt[c]
    <3>1. \/ i \in 1 .. Len(back) /\ back'[i] = back[i]
          \/ back'[i] = [kind |-> "RECEIPT", id |-> c]
      BY <1>0, <2>2
    <3> QED
      BY <2>2, <3>1
  <2>3. back \o <<>> = back
    BY <1>0
  <2> QED
    BY <1>6, <2>1, <2>2, <2>3 DEF ServeItem, ServeCommit, ServeAbort, Reply, Receipt
<1>7. ASSUME NEW c \in Calls, ServeRefuse(c)
      PROVE  \/ \E j \in 1 .. Len(back) : back'[i] = back[j]
             \/ back'[i].kind = "ERROR"
             \/ rcpt[c] /\ back'[i] = [kind |-> "RECEIPT", id |-> c]
  <2>1. CASE \E why : Refuse(<<>>, why)
    <3>1. PICK why : Refuse(<<>>, why)
      BY <2>1
    <3>2. <<>> \in Seq(Frames) /\ Len(<<>>) = 0
      OBVIOUS
    <3>3. \/ \E j \in 1 .. Len(back) : back'[i] = back[j]
          \/ back'[i].kind = "ERROR"
          \/ \E j \in 1 .. Len(<<>>) : back'[i] = <<>>[j]
      BY <3>1, <3>2, <1>4
    <3> QED
      BY <3>2, <3>3
  <2>2. CASE Refuse(<<[kind |-> "RECEIPT", id |-> c]>>, c) /\ rcpt[c]
    <3> DEFINE R == <<[kind |-> "RECEIPT", id |-> c]>>
    <3>1. R \in Seq(Frames) /\ \A j \in 1 .. Len(R) : R[j] = [kind |-> "RECEIPT", id |-> c]
      BY FrameIn
    <3>2. Refuse(R, c)
      BY <2>2
    <3> HIDE DEF R
    <3>3. \/ \E j \in 1 .. Len(back) : back'[i] = back[j]
          \/ back'[i].kind = "ERROR"
          \/ \E j \in 1 .. Len(R) : back'[i] = R[j]
      BY <3>1, <3>2, <1>4
    <3> QED
      BY <2>2, <3>1, <3>3
  <2> QED
    BY <1>7, <2>1, <2>2 DEF ServeRefuse, Receipt
<1>8. ASSUME NEW c \in Calls, \/ Call(c) \/ Push(c) \/ Timeout(c) \/ Mark(c)
                              \/ ServeBegin(c) \/ ServeSubs(c) \/ ServeNoReply(c)
      PROVE  UNCHANGED back
  BY <1>8 DEF Call, Push, Timeout, Mark, ServeBegin, ServeSubs, ServeNoReply
<1>9. CASE Connect \/ PLWrite \/ PLReceipt \/ PLError \/ CommitOne \/ ServerEof \/ UNCHANGED vars
  BY <1>9, <1>1, <1>2 DEF Connect, PLWrite, PLReceipt, PLError, CommitOne, ServerEof, vars
<1> QED
  BY <1>1, <1>3, <1>5, <1>6, <1>7, <1>8, <1>9 DEF Next, ClientStep, ServerStep, Replying

\* A CONNECTED frame that Connect has not read yet carries the version that the
\* server has chosen and works with.
Offered ==
  cst = "connecting" =>
    \A i \in 1 .. Len(back) : back[i].kind = "CONNECTED" =>
      /\ back[i].ver = sversion /\ sversion = DetermineVersion(accept)
      /\ sversion \in {11, 12} /\ sst # "connecting"

\* CONNECTED carries the version that was determined from what was offered.
LEMMA OfferedStep ==
  ASSUME TypeInv, Early, Offered, [Next]_vars
  PROVE  Offered'
<1> USE DEF callVars, netVars, srvVars, srvRest
<1> SUFFICES ASSUME cst' = "connecting", NEW i \in 1 .. Len(back'),
                    back'[i].kind = "CONNECTED"
             PROVE  /\ back'[i].ver = sversion' /\ sversion' = DetermineVersion(accept')
                    /\ sversion' \in {11, 12} /\ sst' # "connecting"
  BY DEF Offered
<1>1. cst = "connecting" /\ UNCHANGED accept
  <2>1. ~Connect
    BY DEF Connect
  <2>2. ASSUME NEW c \in Calls,
               \/ Call(c) \/ Push(c) \/ Timeout(c) \/ Mark(c)
               \/ ServeBegin(c) \/ ServeItem(c) \/ ServeCommit(c) \/ ServeAbort(c)
               \/ ServeSubs(c) \/ ServeRefuse(c) \/ ServeNoReply(c)
        PROVE  UNCHANGED <<cst, accept>>
    BY <2>2 DEF Call, Push, Timeout, Mark, ServeBegin, ServeItem, ServeCommit, ServeAbort,
                ServeSubs, ServeRefuse, ServeNoReply
  <2>3. CASE HandleConnect \/ CommitOne \/ ServerEof \/ Break \/ UNCHANGED vars
    BY <2>3 DEF HandleConnect, CommitOne, ServerEof, Break, vars
  <2>4. ~(PLWrite \/ PLReceipt \/ PLError)
    BY DEF PLWrite, PLReceipt, PLError, EndAll
  <2> QED
    BY <2>1, <2>2, <2>3, <2>4 DEF Next, ClientStep, ServerStep
<1>0. \/ \E j \in 1 .. Len(back) : back'[i] = back[j]
      \/ /\ HandleConnect /\ sversion' = DetermineVersion(accept)
         /\ sversion' \in {11, 12} /\ sst' = "connected"
         /\ back'[i] = [kind |-> "CONNECTED", ver |-> sversion']
  <2>1. \A c : back'[i] # [kind |-> "RECEIPT", id |-> c]
    OBVIOUS
  <2> QED
    BY <2>1, NewFrame
<1>2. CASE HandleConnect
  <2>1. Len(back) = 0
    BY <1>2 DEF HandleConnect
  <2> QED
    BY <1>0, <1>1, <2>1
<1>3. CASE ~HandleConnect
  <2>1. UNCHANGED sversion
    <3>1. ASSUME NEW c \in Calls,
                 \/ Call(c) \/ Push(c) \/ Timeout(c) \/ Mark(c)
                 \/ ServeBegin(c) \/ ServeItem(c) \/ ServeCommit(c) \/ ServeAbort(c)
                 \/ ServeSubs(c) \/ ServeRefuse(c) \/ ServeNoReply(c)
          PROVE  UNCHANGED sversion
      BY <3>1 DEF Call, Push, Timeout, Mark, ServeBegin, ServeItem, ServeCommit, ServeAbort,
                  ServeSubs, ServeRefuse, ServeNoReply
    <3>2. CASE \/ Connect \/ PLWrite \/ PLReceipt \/ PLError \/ CommitOne \/ ServerEof
               \/ Break \/ UNCHANGED vars
      BY <3>2 DEF Connect, PLWrite, PLReceipt, PLError, CommitOne, ServerEof, Break, vars
    <3> QED
      BY <1>3, <3>1, <3>2 DEF Next, ClientStep, ServerStep
  <2>2. PICK j \in 1 .. Len(back) : back'[i] = back[j]
    BY <1>3, <1>0
  <2> QED
    BY <1>1, <2>1, <2>2, ConnForward DEF Offered
<1> QED
  BY <1>2, <1>3

\* What holds of the calls, the handshake and the types together.
BaseInv == TypeInv /\ CallShape /\ Early /\ Offered

\* The first state satisfies the invariant.
LEMMA InitBase ==
  ASSUME Init
  PROVE  BaseInv
<1>1. TypeInv
  BY InitType
<1>2. CallShape
  BY DEF Init, CallShape, AllOps, ItemOps, EndOps
<1>3. Early /\ Offered
  BY DEF Init, Early, Offered
<1> QED
  BY <1>1, <1>2, <1>3 DEF BaseInv

\* Every step keeps the invariant.
LEMMA BaseStep == BaseInv /\ [Next]_vars => BaseInv'
BY TypeStep, CallShapeStep, EarlyStep, OfferedStep DEF BaseInv

\* What all the other proofs about Session rest on.
LEMMA BaseInvariant == Spec => []BaseInv
<1>1. Init => BaseInv
  BY InitBase
<1> QED
  BY <1>1, BaseStep, PTL DEF Spec

\* The version that is determined is the highest of those that are accepted.
LEMMA DetermineHighest ==
  ASSUME NEW a \in [cmd : {"CONNECT", "STOMP"}, versions : SUBSET Versions],
         DetermineVersion(a) \in {11, 12}
  PROVE  /\ DetermineVersion(a) \in a.versions
         /\ \A v \in a.versions : v <= DetermineVersion(a)
<1>1. a.versions # {}
  BY DEF DetermineVersion
<1>2. \E v \in a.versions : \A w \in a.versions : w <= v
  BY <1>1 DEF Versions
<1>3. Highest(a.versions) \in a.versions /\ \A w \in a.versions : w <= Highest(a.versions)
  BY <1>2 DEF Highest
<1> QED
  BY <1>1, <1>3 DEF DetermineVersion

\* Connect returns with the highest version that the client accepts and the
\* server serves, and both ends work with it (determineVersion, Connect).
THEOREM VersionAgreedHolds == Spec => VersionAgreed
<1>1. ASSUME BaseInv, [Next]_vars, cst = "connecting", cst' = "open"
      PROVE  /\ version' = sversion /\ sst # "connecting"
             /\ version' \in accept.versions \ {10}
             /\ \A v \in accept.versions : v <= version'
  <2> USE DEF callVars, netVars, srvVars, srvRest
  <2>1. Connect
    <3>1. ASSUME NEW c \in Calls,
                 \/ Call(c) \/ Push(c) \/ Timeout(c) \/ Mark(c)
                 \/ ServeBegin(c) \/ ServeItem(c) \/ ServeCommit(c) \/ ServeAbort(c)
                 \/ ServeSubs(c) \/ ServeRefuse(c) \/ ServeNoReply(c)
          PROVE  UNCHANGED cst
      BY <3>1 DEF Call, Push, Timeout, Mark, ServeBegin, ServeItem, ServeCommit, ServeAbort,
                  ServeSubs, ServeRefuse, ServeNoReply
    <3>2. ~\/ HandleConnect \/ CommitOne \/ ServerEof \/ Break \/ UNCHANGED vars
           \/ PLWrite \/ PLReceipt \/ PLError
      BY <1>1 DEF HandleConnect, CommitOne, ServerEof, Break, vars, PLWrite, PLReceipt, PLError
    <3> QED
      BY <1>1, <3>1, <3>2 DEF Next, ClientStep, ServerStep
  <2>2. /\ 1 \in 1 .. Len(back) /\ back[1].kind = "CONNECTED" /\ version' = back[1].ver
    BY <1>1, <2>1 DEF Connect, BaseInv, TypeInv, TypeOK
  <2>3. /\ version' = sversion /\ sst # "connecting"
        /\ sversion = DetermineVersion(accept) /\ sversion \in {11, 12}
    BY <1>1, <2>2 DEF BaseInv, Offered
  <2>4. accept \in [cmd : {"CONNECT", "STOMP"}, versions : SUBSET Versions]
    BY <1>1 DEF BaseInv, TypeInv, TypeOK
  <2> QED
    BY <2>3, <2>4, DetermineHighest
<1>2. BaseInv /\ [Next]_vars => [cst = "connecting" /\ cst' = "open" =>
        /\ version' = sversion /\ sst # "connecting"
        /\ version' \in accept.versions \ {10}
        /\ \A v \in accept.versions : v <= version']_vars
  BY <1>1
<1> QED
  BY <1>2, BaseInvariant, PTL DEF Spec, VersionAgreed
-----------------------------------------------------------------------------
(***************************************************************************)
(* The frames to the server.                                               *)
(***************************************************************************)

\* The frames that the server can still be given, in order: with the network
\* up they are those on the wire and in writeCh.
Pipe == IF link = "up" THEN wire \o writeCh ELSE wire

\* Frames on their way are calls.
LEMMA PipeType ==
  ASSUME TypeInv
  PROVE  Pipe \in Seq(Calls)
BY DEF Pipe, TypeInv, TypeOK

\* A frame that is put on writeCh is the last one.
LEMMA PushPipe ==
  ASSUME TypeInv, NEW c \in Calls, Push(c), cst # "closed"
  PROVE  /\ link' = link
         /\ Pipe' = IF link = "up" THEN Append(Pipe, c) ELSE Pipe
<1>1. wire \o Append(writeCh, c) = Append(wire \o writeCh, c)
  BY DEF TypeInv, TypeOK
<1> QED
  BY <1>1 DEF Push, Pipe, netVars

\* The server takes the first one.
LEMMA ServePipe ==
  ASSUME TypeInv, NEW c \in Calls, Serving(c), UNCHANGED <<link, writeCh>>
  PROVE  /\ Len(Pipe) \in Nat \ {0} /\ Pipe[1] = c
         /\ Len(Pipe') = Len(Pipe) - 1
         /\ \A i \in 1 .. Len(Pipe') : Pipe'[i] = Pipe[i + 1]
<1>1. /\ wire \in Seq(Calls) /\ writeCh \in Seq(Calls) /\ wire # <<>>
      /\ wire' = Tail(wire) /\ c = wire[1]
  BY DEF TypeInv, TypeOK, Serving
<1>2. CASE link = "up"
  BY <1>1, <1>2 DEF Pipe
<1>3. CASE link # "up"
  BY <1>1, <1>3 DEF Pipe
<1> QED
  BY <1>2, <1>3

\* processLoop of the client moves a frame on.
LEMMA WritePipe ==
  ASSUME TypeInv, PLWrite, sst = "connected"
  PROVE  Pipe' = Pipe
<1>1. CASE link = "up"
  <2>1. /\ writeCh \in Seq(Calls) /\ writeCh # <<>> /\ wire \in Seq(Calls)
        /\ writeCh' = Tail(writeCh) /\ wire' = Append(wire, Head(writeCh)) /\ link' = "up"
    BY <1>1 DEF PLWrite, PeerGone, TypeInv, TypeOK
  <2>2. Append(wire, Head(writeCh)) \o Tail(writeCh) = wire \o writeCh
    BY <2>1
  <2> QED
    BY <1>1, <2>1, <2>2 DEF Pipe
<1>2. CASE link # "up"
  BY <1>2 DEF PLWrite, PeerGone, Pipe, TypeInv, TypeOK
<1> QED
  BY <1>1, <1>2

\* A network that breaks cuts the frames off.
LEMMA BreakPipe ==
  ASSUME TypeInv, Break
  PROVE  /\ link' = "down" /\ Len(Pipe') <= Len(Pipe)
         /\ \A i \in 1 .. Len(Pipe') : i \in 1 .. Len(Pipe) /\ Pipe'[i] = Pipe[i]
<1>1. PICK n \in 0 .. Len(wire) : wire' = SubSeq(wire, 1, n)
  BY DEF Break
<1>2. /\ link = "up" /\ link' = "down" /\ wire \in Seq(Calls) /\ writeCh \in Seq(Calls)
  BY DEF Break, TypeInv, TypeOK
<1> QED
  BY <1>1, <1>2 DEF Pipe

\* The frame of a call is sent once: by its Push on a connection not closed.
LEMMA PushedStep ==
  ASSUME TypeInv, CallShape, [Next]_vars, NEW d \in Calls
  PROVE  /\ Pushed(d) => Pushed(d)'
         /\ Pushed(d)' => Pushed(d) \/ (Push(d) /\ cst # "closed")
<1>1. ASSUME NEW c \in Calls, Call(c)
      PROVE  Pushed(d)' <=> Pushed(d)
  <2>1. PICK o \in AllOps, x \in Calls \cup {Nobody}, r \in BOOLEAN : CallWith(c, o, x, r)
    BY <1>1, CallChoice
  <2>2. CASE c = d
    BY <1>1, <2>1, <2>2 DEF Call, CallWith, Pushed, TypeInv, TypeOK
  <2>3. CASE c # d
    BY <2>1, <2>3 DEF CallWith, Pushed, TypeInv, TypeOK
  <2> QED
    BY <2>2, <2>3
<1>2. ASSUME NEW c \in Calls, Push(c)
      PROVE  /\ c # d => (Pushed(d)' <=> Pushed(d))
             /\ c = d => ~Pushed(d) /\ (Pushed(d)' => cst # "closed")
  BY <1>2 DEF Push, Pushed, TypeInv, TypeOK
<1>3. ASSUME NEW c \in Calls, Mark(c)
      PROVE  Pushed(d)' <=> Pushed(d)
  BY <1>3 DEF Mark, Pushed, CallShape, TypeInv, TypeOK
<1>4. CASE Settled
  BY <1>4 DEF Settled, Pushed
<1> QED
  BY <1>1, <1>2, <1>3, <1>4, CallStep

\* The frame goes where Push puts it.
LEMMA PushDoes ==
  ASSUME TypeInv, CallShape, NEW c \in Calls, Push(c), cst # "closed"
  PROVE  /\ ~Pushed(c) /\ Pushed(c)' /\ pc[c] = "push"
         /\ \A d \in Calls : Pushed(d)' <=> Pushed(d) \/ d = c
         /\ UNCHANGED <<op, on, rcpt, link, sst, store, decided, committing, stream, raced, cst>>
         /\ asked' = IF op[c] \in ItemOps /\ on[c] # Nobody /\ ~Sealed(on[c])
                       THEN [asked EXCEPT ![on[c]] = Append(@, c)] ELSE asked
<1>1. /\ pc[c] = "push"
      /\ UNCHANGED <<op, on, rcpt, link, sst, store, decided, committing, stream, raced, cst>>
      /\ asked' = IF op[c] \in ItemOps /\ on[c] # Nobody /\ ~Sealed(on[c])
                    THEN [asked EXCEPT ![on[c]] = Append(@, c)] ELSE asked
  BY DEF Push, netVars, srvVars
<1>2. ~Pushed(c) /\ Pushed(c)'
  BY DEF Push, Pushed, CallShape, TypeInv, TypeOK
<1>3. ASSUME NEW d \in Calls, d # c PROVE Pushed(d)' <=> Pushed(d)
  BY <1>3 DEF Push, Pushed, TypeInv, TypeOK
<1> QED
  BY <1>1, <1>2, <1>3

\* A step of the client that sends nothing.
Quiet ==
  /\ UNCHANGED <<link, sst, store, decided, committing, stream, asked>>
  /\ Pipe' = Pipe
  /\ \A d \in Calls : Pushed(d)' <=> Pushed(d)

\* What a step does to a connection that the server serves after it.
LEMMA Kinds ==
  ASSUME TypeInv, CallShape, [Next]_vars, sst' = "connected"
  PROVE  \/ HandleConnect
         \/ /\ sst = "connected"
            /\ \/ Quiet \/ Break \/ CommitOne
               \/ \E c \in Calls : Push(c) /\ cst # "closed"
               \/ \E c \in Calls : \/ ServeBegin(c) \/ ServeItem(c) \/ ServeCommit(c)
                                   \/ ServeAbort(c) \/ ServeSubs(c)
<1> USE DEF callVars, netVars, srvVars, srvRest
<1>1. ASSUME NEW c \in Calls, Call(c) \/ Timeout(c) \/ Mark(c)
      PROVE  Quiet /\ sst = sst'
  <2>1. /\ UNCHANGED <<link, sst, store, decided, committing, stream, asked, wire, writeCh>>
        /\ pc[c] # "push"
    BY <1>1 DEF Call, Timeout, Mark
  <2>2. ASSUME NEW d \in Calls PROVE ~Push(d)
    BY <1>1 DEF Call, Timeout, Mark, Push, TypeInv, TypeOK
  <2> QED
    BY <2>1, <2>2, PushedStep DEF Quiet, Pipe
<1>2. ASSUME NEW c \in Calls, Push(c), cst = "closed"
      PROVE  Quiet /\ sst = sst'
  <2>1. UNCHANGED <<link, sst, store, decided, committing, stream, asked, wire, writeCh>>
    BY <1>2 DEF Push
  <2> QED
    BY <1>2, <2>1, PushedStep DEF Quiet, Pipe
<1>3. CASE Connect \/ PLReceipt \/ PLError \/ UNCHANGED vars
  <2>1. UNCHANGED <<link, sst, store, decided, committing, stream, asked, wire, writeCh>>
    BY <1>3 DEF Connect, PLReceipt, PLError, vars
  <2>2. ASSUME NEW d \in Calls PROVE ~(Push(d) /\ cst # "closed")
    BY <2>1 DEF Push, TypeInv, TypeOK
  <2> QED
    BY <2>1, <2>2, PushedStep DEF Quiet, Pipe
<1>4. CASE PLWrite
  <2>1. UNCHANGED <<link, sst, store, decided, committing, stream, asked>>
    BY <1>4 DEF PLWrite
  <2>2. ASSUME NEW d \in Calls PROVE ~(Push(d) /\ cst # "closed")
    <3>1. Len(writeCh') = Len(writeCh) - 1 /\ Len(writeCh) \in Nat
      BY <1>4 DEF PLWrite, TypeInv, TypeOK
    <3>2. Push(d) /\ cst # "closed" => Len(writeCh') = Len(writeCh) + 1
      BY DEF Push, TypeInv, TypeOK
    <3> QED
      BY <3>1, <3>2
  <2> QED
    BY <1>4, <2>1, <2>2, PushedStep, WritePipe DEF Quiet
<1>5. ASSUME NEW c \in Calls,
             \/ ServeBegin(c) \/ ServeItem(c) \/ ServeCommit(c) \/ ServeAbort(c) \/ ServeSubs(c)
      PROVE  sst = "connected"
  BY <1>5 DEF ServeBegin, ServeItem, ServeCommit, ServeAbort, ServeSubs, Serving
<1>6. ~ServerEof /\ ~\E c \in Calls : ServeRefuse(c) \/ ServeNoReply(c)
  BY DEF ServerEof, ServeRefuse, ServeNoReply, Refuse
<1>7. ASSUME NEW c \in Calls, Push(c) PROVE sst = sst'
  BY <1>7 DEF Push
<1>8. Break \/ CommitOne => sst = sst'
  BY DEF Break, CommitOne
<1> QED
  BY <1>1, <1>2, <1>3, <1>4, <1>5, <1>6, <1>7, <1>8 DEF Next, ClientStep, ServerStep

\* A frame to the client stays until it is read or the network breaks.
LEMMA FramesStay ==
  ASSUME TypeInv, [Next]_vars, ~(Connect \/ PLReceipt \/ PLError \/ Break)
  PROVE  \A i \in 1 .. Len(back) : i \in 1 .. Len(back') /\ back'[i] = back[i]
<1> USE DEF callVars, netVars, srvVars, srvRest
<1>0. back \in Seq(Frames)
  BY DEF TypeInv, TypeOK
<1>1. CASE UNCHANGED back
  BY <1>1
<1>2. ASSUME NEW more \in Seq(Frames), back' = back \o more
      PROVE  \A i \in 1 .. Len(back) : i \in 1 .. Len(back') /\ back'[i] = back[i]
  BY <1>0, <1>2
<1>3. CASE HandleConnect
  BY <1>3 DEF HandleConnect
<1>4. ASSUME NEW c \in Calls
      PROVE  Receipt(c) \in Seq(Frames)
  BY FrameIn DEF Receipt
<1>5. ASSUME NEW c \in Calls, ServeItem(c) \/ ServeCommit(c) \/ ServeAbort(c)
      PROVE  \A i \in 1 .. Len(back) : i \in 1 .. Len(back') /\ back'[i] = back[i]
  BY <1>1, <1>2, <1>4, <1>5 DEF ServeItem, ServeCommit, ServeAbort, Reply
<1>6. ASSUME NEW c \in Calls, ServeRefuse(c)
      PROVE  \A i \in 1 .. Len(back) : i \in 1 .. Len(back') /\ back'[i] = back[i]
  <2>1. PICK replies \in Seq(Frames) : back' = back \o replies \o <<[kind |-> "ERROR"]>>
    <3>1. <<>> \in Seq(Frames) /\ Receipt(c) \in Seq(Frames)
      BY <1>4
    <3> QED
      BY <1>6, <3>1 DEF ServeRefuse, Refuse
  <2> DEFINE b == back \o replies
  <2>2. /\ b \in Seq(Frames) /\ Len(b) = Len(back) + Len(replies)
        /\ \A i \in 1 .. Len(back) : b[i] = back[i]
    BY <1>0
  <2>3. back' = b \o <<[kind |-> "ERROR"]>>
    BY <2>1
  <2> HIDE DEF b
  <2>4. Len(back') = Len(b) + 1 /\ \A i \in 1 .. Len(b) : back'[i] = b[i]
    BY <2>2, <2>3
  <2> QED
    BY <1>0, <2>2, <2>4
<1>7. ASSUME NEW c \in Calls, \/ Call(c) \/ Push(c) \/ Timeout(c) \/ Mark(c)
                              \/ ServeBegin(c) \/ ServeSubs(c) \/ ServeNoReply(c)
      PROVE  UNCHANGED back
  BY <1>7 DEF Call, Push, Timeout, Mark, ServeBegin, ServeSubs, ServeNoReply
<1>8. CASE PLWrite \/ CommitOne \/ ServerEof \/ UNCHANGED vars
  BY <1>1, <1>8 DEF PLWrite, CommitOne, ServerEof, vars
<1> QED
  BY <1>1, <1>3, <1>5, <1>6, <1>7, <1>8 DEF Next, ClientStep, ServerStep

\* On a healthy connection the frame of a call that waits for a receipt is on
\* its way, or its RECEIPT is.
OnItsWay(c) == \/ \E i \in 1 .. Len(Pipe) : Pipe[i] = c
               \/ \E i \in 1 .. Len(back) : back[i] = [kind |-> "RECEIPT", id |-> c]
Remembered ==
  cst = "open" /\ sst = "connected" /\ link = "up" =>
    \A c \in Calls : pc[c] = "wait" /\ op[c] # "Unsubscribe" => OnItsWay(c)

\* A call that waits is remembered somewhere on the way of its receipt.
LEMMA RememberedStep ==
  ASSUME BaseInv, Remembered, [Next]_vars
  PROVE  Remembered'
<1> USE DEF BaseInv
<1> SUFFICES ASSUME cst' = "open", sst' = "connected", link' = "up",
                    NEW c \in Calls, pc'[c] = "wait", op'[c] # "Unsubscribe"
             PROVE  OnItsWay(c)'
  BY DEF Remembered
<1>0. pc[c] # "idle" /\ (pc[c] # "wait" => Push(c) /\ cst # "closed")
  <2>1. CASE \E d \in Calls : Call(d)
    <3>1. PICK d \in Calls : Call(d)
      BY <2>1
    <3>2. PICK o \in AllOps, x \in Calls \cup {Nobody}, r \in BOOLEAN : CallWith(d, o, x, r)
      BY <3>1, CallChoice
    <3>3. d # c => pc'[c] = pc[c]
      BY <3>2 DEF CallWith, TypeInv, TypeOK
    <3>4. d = c => pc'[c] # "wait"
      BY <3>2 DEF CallWith, TypeInv, TypeOK
    <3> QED
      BY <3>3, <3>4
  <2>2. CASE \E d \in Calls : Push(d)
    BY <2>2 DEF Push, TypeInv, TypeOK
  <2>3. CASE \E d \in Calls : Mark(d)
    BY <2>3 DEF Mark, TypeInv, TypeOK
  <2>4. CASE Settled
    BY <2>4 DEF Settled
  <2> QED
    BY <2>1, <2>2, <2>3, <2>4, CallStep
<1>1. cst = "open" /\ ~Connect
  <2>1. cst \notin {"connecting", "failed"}
    BY <1>0 DEF Early
  <2>2. ~Connect
    BY <2>1 DEF Connect
  <2>3. cst # "open" => UNCHANGED cst
    <3> USE DEF callVars, netVars, srvVars, srvRest
    <3>1. ASSUME NEW d \in Calls,
                 \/ Call(d) \/ Push(d) \/ Timeout(d) \/ Mark(d)
                 \/ ServeBegin(d) \/ ServeItem(d) \/ ServeCommit(d) \/ ServeAbort(d)
                 \/ ServeSubs(d) \/ ServeRefuse(d) \/ ServeNoReply(d)
          PROVE  UNCHANGED cst
      BY <3>1 DEF Call, Push, Timeout, Mark, ServeBegin, ServeItem, ServeCommit, ServeAbort,
                  ServeSubs, ServeRefuse, ServeNoReply
    <3>2. CASE HandleConnect \/ CommitOne \/ ServerEof \/ Break \/ UNCHANGED vars
      BY <3>2 DEF HandleConnect, CommitOne, ServerEof, Break, vars
    <3>3. PLWrite \/ PLReceipt \/ PLError => cst = "open"
      BY DEF PLWrite, PLReceipt, PLError
    <3> QED
      BY <2>2, <3>1, <3>2, <3>3 DEF Next, ClientStep, ServerStep
  <2> QED
    BY <2>2, <2>3
<1>2. ~HandleConnect /\ sst = "connected"
  <2>1. ~HandleConnect
    BY <1>1 DEF HandleConnect, Early
  <2> QED
    BY <2>1, Kinds
<1>3. ~Break /\ ~PLError
  BY <1>1 DEF Break, PLError, EndAll
<1>4. link = "up"
  BY <1>2, <1>3, Kinds DEF Quiet, CommitOne, Push, ServeBegin, ServeItem, ServeCommit,
     ServeAbort, ServeSubs, srvRest, netVars
<1>5. Pipe \in Seq(Calls) /\ back \in Seq(Frames)
  BY PipeType DEF TypeInv, TypeOK
<1>6. CASE pc[c] # "wait"
  <2>1. Pipe' = Append(Pipe, c)
    BY <1>0, <1>4, <1>6, PushPipe
  <2>2. Len(Pipe) + 1 \in 1 .. Len(Pipe') /\ Pipe'[Len(Pipe) + 1] = c
    BY <1>5, <2>1
  <2> QED
    BY <2>2 DEF OnItsWay
<1>7. CASE pc[c] = "wait"
  <2>0. op[c] # "Unsubscribe" /\ OnItsWay(c)
    BY <1>0, <1>1, <1>2, <1>4, <1>7, Stable DEF Remembered
  <2>1. CASE PLReceipt
    <3>1. Pipe' = Pipe
      BY <2>1 DEF PLReceipt, Pipe
    <3>2. /\ back # <<>> /\ back' = Tail(back)
          /\ Answer({Head(back).id}, "nil")
      BY <1>1, <2>1 DEF PLReceipt
    <3>3. Head(back).id # c
      BY <1>7, <2>0, <3>2 DEF Answer, WaitsOn
    <3>4. ASSUME NEW i \in 1 .. Len(back), back[i] = [kind |-> "RECEIPT", id |-> c]
          PROVE  i - 1 \in 1 .. Len(back') /\ back'[i - 1] = back[i]
      <4>1. i # 1
        BY <1>5, <3>2, <3>3, <3>4
      <4> QED
        BY <1>5, <3>2, <4>1
    <3> QED
      BY <2>0, <3>1, <3>4 DEF OnItsWay
  <2>2. CASE ~PLReceipt
    <3>1. \A i \in 1 .. Len(back) : i \in 1 .. Len(back') /\ back'[i] = back[i]
      BY <1>1, <1>3, <2>2, FramesStay
    <3>2. CASE \E i \in 1 .. Len(back) : back[i] = [kind |-> "RECEIPT", id |-> c]
      BY <3>1, <3>2 DEF OnItsWay
    <3>3. ASSUME NEW i \in 1 .. Len(Pipe), Pipe[i] = c PROVE OnItsWay(c)'
      <4>1. CASE Quiet
        BY <3>3, <4>1 DEF Quiet, OnItsWay
      <4>2. CASE CommitOne
        BY <3>3, <4>2 DEF CommitOne, Pipe, srvRest, OnItsWay
      <4>3. CASE \E d \in Calls : Push(d) /\ cst # "closed"
        <5>1. PICK d \in Calls : Pipe' = Append(Pipe, d)
          BY <1>4, <4>3, PushPipe
        <5>2. i \in 1 .. Len(Pipe') /\ Pipe'[i] = c
          BY <1>5, <3>3, <5>1
        <5> QED
          BY <5>2 DEF OnItsWay
      <4>4. ASSUME NEW d \in Calls,
                   \/ ServeBegin(d) \/ ServeItem(d) \/ ServeCommit(d) \/ ServeAbort(d)
                   \/ ServeSubs(d)
            PROVE  OnItsWay(c)'
        <5>1. Serving(d) /\ UNCHANGED <<link, writeCh, cst>>
          BY <4>4 DEF ServeBegin, ServeItem, ServeCommit, ServeAbort, ServeSubs, srvRest
        <5>2. /\ Pipe[1] = d /\ Len(Pipe') = Len(Pipe) - 1
              /\ \A j \in 1 .. Len(Pipe') : Pipe'[j] = Pipe[j + 1]
          BY <5>1, ServePipe
        <5>3. CASE i # 1
          <6>1. i - 1 \in 1 .. Len(Pipe') /\ Pipe'[i - 1] = c
            BY <1>5, <3>3, <5>2, <5>3
          <6> QED
            BY <6>1 DEF OnItsWay
        <5>4. CASE i = 1
          <6>1. rcpt[c] /\ op[c] \in {"Send"} \cup EndOps
            BY <1>7, <2>0 DEF CallShape
          <6>2. ServeItem(c) \/ ServeCommit(c) \/ ServeAbort(c)
            BY <3>3, <4>4, <5>2, <5>4, <6>1 DEF ServeBegin, ServeSubs, EndOps
          <6>3. back' = back \o <<[kind |-> "RECEIPT", id |-> c]>>
            BY <1>1, <1>4, <6>1, <6>2
               DEF ServeItem, ServeCommit, ServeAbort, Reply, Receipt, ClientGone
          <6>4. /\ Len(back) + 1 \in 1 .. Len(back')
                /\ back'[Len(back) + 1] = [kind |-> "RECEIPT", id |-> c]
            BY <1>5, <6>3
          <6> QED
            BY <6>4 DEF OnItsWay
        <5> QED
          BY <5>3, <5>4
      <4> QED
        BY <1>2, <1>3, <4>1, <4>2, <4>3, <4>4, Kinds
    <3> QED
      BY <2>0, <3>2, <3>3 DEF OnItsWay
  <2> QED
    BY <2>1, <2>2
<1> QED
  BY <1>6, <1>7

\* Every receipt that is waited for is sent: the RECEIPT is still on its way to
\* the client, or the frame to the server, as long as the call waits.
THEOREM NobodyForgottenHolds == Spec => []NobodyForgotten
<1>1. Init => Remembered
  BY DEF Init, Remembered
<1>2. BaseInv /\ Remembered => NobodyForgotten
  <2> SUFFICES ASSUME BaseInv, Remembered, cst = "open", sst = "connected", link = "up",
                      writeCh = <<>>, wire = <<>>, back = <<>>,
                      NEW c \in Calls, pc[c] = "wait", op[c] # "Unsubscribe"
               PROVE  FALSE
    BY DEF NobodyForgotten
  <2>1. Len(Pipe) = 0 /\ Len(back) = 0
    BY DEF Pipe
  <2> QED
    BY <2>1 DEF Remembered, OnItsWay
<1> QED
  BY <1>1, <1>2, BaseInvariant, RememberedStep, PTL DEF Spec
=============================================================================
