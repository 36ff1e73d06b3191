-------------------------- MODULE BrokerSubProofs --------------------------
(***************************************************************************)
(* Proofs about what a subscription gets and what it leaves behind: each   *)
(* message of a topic reaches it once, and a connection that has ended has *)
(* no subscription left in a queue or topic.                               *)
(***************************************************************************)
EXTENDS BrokerMsgProofs

(***************************************************************************)
(* A subscription that its connection has given up: Conn.subs has it no    *)
(* more.  The connection does not ask for it again, and where it is still  *)
(* listed, or about to be, its Unsubscribe comes later.                    *)
(***************************************************************************)
Parted(k, s) == attr[s].conn = k /\ subs[k][attr[s].id] # s
Starts(k, s) == Occ(out[k], SubscribeReq(s))
Ends(k, s)   == Occ(out[k], UnsubscribeReq(s))
Waits(s)     == attr[s].dest \in Dests /\ Occ(waiting[attr[s].dest], s)
Follows(s) ==
  /\ Waits(s) => Occ(requestCh, UnsubscribeReq(s))
  /\ \A i \in 1 .. Len(requestCh) : requestCh[i] = SubscribeReq(s) =>
       \E j \in 1 .. Len(requestCh) : i < j /\ requestCh[j] = UnsubscribeReq(s)
Quits(k, s) == ~Starts(k, s) /\ (Ends(k, s) \/ Follows(s))

GhostInv ==
  /\ \A k \in Conns : phase[k] # "run" => \A i \in Ids : subs[k][i] = None
  /\ \A k \in Conns : phase[k] = "closed" => out[k] = <<>>
  /\ \A k \in Conns : Plain(k) => \A s \in Subs : Parted(k, s) => Quits(k, s)
-----------------------------------------------------------------------------
\* The attributes of a Subscription object are set once.
LEMMA PlainWas ==
  ASSUME NEW h \in Conns, \A t \in Subs : attr'[t] = attr[t] \/ attr[t] = NoAttr, Plain(h)'
  PROVE  Plain(h)
<1>1. \A t \in Subs : attr[t].conn = h => attr'[t] = attr[t]
  BY NoneAssumption DEF NoAttr
<1>2. \A s, t \in Subs : attr'[s].conn = h /\ attr'[t].conn = h =>
                           attr'[s].ack = "auto" /\ (s # t => attr'[s].id # attr'[t].id)
  BY DEF Plain, SubsOf
<1>3. \A s, t \in Subs : attr[s].conn = h /\ attr[t].conn = h =>
                           attr[s].ack = "auto" /\ (s # t => attr[s].id # attr[t].id)
  BY <1>1, <1>2
<1> QED
  BY <1>3 DEF Plain, SubsOf

\* The requests in their two forms are different, after a step as before.
LEMMA SubReqs ==
  /\ \A s, t : SubscribeReq(s) # UnsubscribeReq(t)
  /\ \A s, t : SubscribeReq(s) = SubscribeReq(t) => s = t
  /\ \A s, t : UnsubscribeReq(s) = UnsubscribeReq(t) => s = t
  /\ \A s, m : /\ SubscribeReq(s) # EnqueueReq(m) /\ SubscribeReq(s) # RequeueReq(m)
               /\ UnsubscribeReq(s) # EnqueueReq(m) /\ UnsubscribeReq(s) # RequeueReq(m)
  /\ \A s : SubscribeReq(s) # DisconnectedReq /\ UnsubscribeReq(s) # DisconnectedReq
BY DEF SubscribeReq, UnsubscribeReq, EnqueueReq, RequeueReq, DisconnectedReq

\* A handler of a connection has run: it made requests, and changed what the
\* connection knows.
LEMMA GhostConn ==
  ASSUME ObjInv, GhostInv, NEW k \in Conns, out[k] = <<>>,
         requestCh' = requestCh, waiting' = waiting,
         \A h \in Conns : h # k => phase'[h] = phase[h] /\ subs'[h] = subs[h] /\ out'[h] = out[h],
         \A t \in Subs : attr'[t] = attr[t] \/ (attr[t] = NoAttr /\ attr'[t].conn = k),
         phase'[k] # "run" => \A i \in Ids : subs'[k][i] = None,
         phase'[k] = "closed" => out'[k] = <<>>,
         Plain(k)' => \A t \in Subs : Parted(k, t)' =>
           /\ ~Occ(out'[k], SubscribeReq(t))
           /\ Occ(out'[k], UnsubscribeReq(t)) \/ (attr'[t] = attr[t] /\ Parted(k, t))
  PROVE  GhostInv'
<1>1. \A h \in Conns : phase'[h] # "run" => \A i \in Ids : subs'[h][i] = None
  BY DEF GhostInv
<1>2. \A h \in Conns : phase'[h] = "closed" => out'[h] = <<>>
  BY DEF GhostInv
<1>3. ASSUME NEW h \in Conns, Plain(h)', NEW s \in Subs, Parted(h, s)' PROVE Quits(h, s)'
  <2>1. Plain(h)
    BY <1>3, PlainWas
  <2>2. PICK a, b : a = SubscribeReq(s) /\ b = UnsubscribeReq(s)
    OBVIOUS
  <2>3. a = SubscribeReq(s)' /\ b = UnsubscribeReq(s)'
    BY <2>2 DEF SubscribeReq, UnsubscribeReq
  <2>4. attr'[s].conn = h /\ subs'[h][attr'[s].id] # s
    BY <1>3 DEF Parted
  <2>5. ASSUME attr'[s] = attr[s], Follows(s) PROVE Follows(s)'
    <3>1. Waits(s)' <=> Waits(s)
      BY <2>5 DEF Waits
    <3> QED
      BY <2>2, <2>3, <2>5, <3>1 DEF Follows
  <2>6. CASE h # k
    <3>1. attr'[s] = attr[s]
      BY <2>4, <2>6
    <3>2. Parted(h, s)
      BY <2>4, <2>6, <3>1 DEF Parted
    <3>3. Quits(h, s)
      BY <2>1, <3>2 DEF GhostInv
    <3>4. out'[h] = out[h]
      BY <2>6
    <3> QED
      BY <2>2, <2>3, <2>5, <3>1, <3>3, <3>4 DEF Quits, Starts, Ends
  <2>7. CASE h = k
    <3>1. /\ ~Occ(out'[k], a)
          /\ Occ(out'[k], b) \/ (attr'[s] = attr[s] /\ Parted(k, s))
      BY <1>3, <2>2, <2>7
    <3>2. CASE Occ(out'[k], b)
      BY <2>3, <2>7, <3>1, <3>2 DEF Quits, Starts, Ends
    <3>3. CASE attr'[s] = attr[s] /\ Parted(k, s)
      <4>1. Quits(k, s)
        BY <2>1, <2>7, <3>3 DEF GhostInv
      <4>2. ~Occ(out[k], b)
        BY OccFew
      <4>3. Follows(s)
        BY <2>2, <4>1, <4>2 DEF Quits, Ends
      <4> QED
        BY <2>3, <2>5, <2>7, <3>1, <3>3, <4>3 DEF Quits, Starts
    <3> QED
      BY <3>1, <3>2, <3>3
  <2> QED
    BY <2>6, <2>7
<1> QED
  BY <1>1, <1>2, <1>3 DEF GhostInv

\* A request leaves its connection: an Unsubscribe is behind all Subscribes.
LEMMA GhostPut ==
  ASSUME ObjInv, GhostInv, NEW k \in Conns, PutRequest(k)
  PROVE  GhostInv'
<1>1. /\ UNCHANGED <<phase, subs, attr, waiting>> /\ out[k] # <<>>
      /\ requestCh' = Append(requestCh, Head(out[k])) /\ out' = [out EXCEPT ![k] = Tail(@)]
  BY DEF PutRequest, subVars
<1>2. PICK l \in Seq(Requests), u \in Seq(Requests), r \in Requests, n \in Nat :
        l = requestCh /\ u = out[k] /\ r = Head(u) /\ n = Len(l) /\ r = u[1] /\ 1 \in 1 .. Len(u)
  <2>1. PICK l \in Seq(Requests), u \in Seq(Requests) : l = requestCh /\ u = out[k]
    BY DEF ObjInv, TypeOK
  <2>2. Head(u) = u[1] /\ u[1] \in Requests /\ 1 \in 1 .. Len(u)
    BY <1>1, <2>1, HeadFacts
  <2>3. Len(l) \in Nat
    BY <2>1
  <2> QED
    BY <2>1, <2>2, <2>3
<1>3. out'[k] = Tail(u) /\ \A h \in Conns : h # k => out'[h] = out[h]
  BY <1>1, <1>2 DEF ObjInv, TypeOK
<1>4. PICK q \in Seq(Requests) : q = requestCh' /\ Len(q) = n + 1 /\ q[n + 1] = r
                                 /\ \A i \in 1 .. n : q[i] = l[i]
  <2>1. requestCh' = Append(l, r)
    BY <1>1, <1>2
  <2>2. /\ Append(l, r) \in Seq(Requests) /\ Len(Append(l, r)) = Len(l) + 1
        /\ Append(l, r)[Len(l) + 1] = r /\ \A i \in 1 .. Len(l) : Append(l, r)[i] = l[i]
    BY AppendProperties
  <2> QED
    BY <1>2, <2>1, <2>2
<1>5. \A h \in Conns : phase'[h] = "closed" => out'[h] = <<>>
  BY <1>1, <1>3 DEF GhostInv
<1>6. ASSUME NEW h \in Conns, Plain(h)', NEW s \in Subs, Parted(h, s)' PROVE Quits(h, s)'
  <2>1. PICK a, b : a = SubscribeReq(s) /\ b = UnsubscribeReq(s) /\ a # b
    BY SubReqs
  <2>2. a = SubscribeReq(s)' /\ b = UnsubscribeReq(s)'
    BY <2>1 DEF SubscribeReq, UnsubscribeReq
  <2>3. Plain(h) /\ Parted(h, s) /\ attr[s].conn = h
    BY <1>1, <1>6 DEF Plain, SubsOf, Parted
  <2>4. Quits(h, s)
    BY <2>3 DEF GhostInv
  <2>5. ~Occ(out[h], a) /\ (Occ(out[h], b) \/ Follows(s))
    BY <2>1, <2>4 DEF Quits, Starts, Ends
  <2>6. r # a
    <3>1. CASE h = k
      BY <1>2, <2>5, <3>1 DEF Occ
    <3>2. CASE h # k
      <4>1. r.op \in {"Subscribe", "Unsubscribe"} => attr[r.sub].conn = k
        BY <1>2 DEF ObjInv, Homes, HomeOut
      <4>2. a.op = "Subscribe" /\ a.sub = s
        BY <2>1 DEF SubscribeReq
      <4> QED
        BY <2>3, <3>2, <4>1, <4>2
    <3> QED
      BY <3>1, <3>2
  <2>7. Waits(s)' <=> Waits(s)
    BY <1>1 DEF Waits
  <2>8. \A i \in 1 .. n + 1 : i = n + 1 \/ i \in 1 .. n
    BY <1>2
  <2>9. Follows(s) <=> /\ Waits(s) => \E i \in 1 .. n : l[i] = b
                       /\ \A i \in 1 .. n : l[i] = a => \E j \in 1 .. n : i < j /\ l[j] = b
    BY <1>2, <2>1 DEF Follows, Occ
  <2>10. Follows(s)' <=> /\ Waits(s)' => \E i \in 1 .. n + 1 : q[i] = b
                         /\ \A i \in 1 .. n + 1 : q[i] = a => \E j \in 1 .. n + 1 : i < j /\ q[j] = b
    BY <1>4, <2>2 DEF Follows, Occ
  <2>11. Follows(s) => Follows(s)'
    <3> SUFFICES ASSUME Follows(s) PROVE Follows(s)'
      OBVIOUS
    <3>1. \A i \in 1 .. n : i \in 1 .. n + 1
      OBVIOUS
    <3>2. Waits(s)' => \E i \in 1 .. n + 1 : q[i] = b
      BY <1>4, <2>7, <2>9, <3>1
    <3>3. \A i \in 1 .. n + 1 : q[i] = a => \E j \in 1 .. n + 1 : i < j /\ q[j] = b
      BY <1>4, <2>6, <2>8, <2>9, <3>1
    <3> QED
      BY <2>10, <3>2, <3>3
  <2>12. CASE h # k
    BY <1>3, <2>2, <2>5, <2>11, <2>12 DEF Quits, Starts, Ends
  <2>13. CASE h = k
    <3>1. \A i \in 1 .. Len(Tail(u)) : i + 1 \in 1 .. Len(u) /\ Tail(u)[i] = u[i + 1]
      BY <1>1, <1>2, HeadFacts
    <3>2. ~Occ(Tail(u), a)
      BY <1>2, <2>5, <2>13, <3>1 DEF Occ
    <3>3. CASE Follows(s)
      BY <1>3, <2>2, <2>11, <2>13, <3>2, <3>3 DEF Quits, Starts
    <3>4. CASE r = b
      <4>1. n + 1 \in 1 .. n + 1 /\ \A i \in 1 .. n : i < n + 1
        OBVIOUS
      <4>2. Follows(s)'
        BY <1>4, <2>6, <2>8, <2>10, <3>4, <4>1
      <4> QED
        BY <1>3, <2>2, <2>13, <3>2, <4>2 DEF Quits, Starts
    <3>5. CASE r # b /\ Occ(u, b)
      <4>1. PICK i \in 1 .. Len(u) : u[i] = b
        BY <3>5 DEF Occ
      <4>2. Len(Tail(u)) = Len(u) - 1 /\ Len(u) \in Nat
        BY <1>1, <1>2, HeadFacts
      <4>3. i - 1 \in 1 .. Len(Tail(u)) /\ (i - 1) + 1 = i
        BY <1>2, <3>5, <4>1, <4>2
      <4>4. Tail(u)[i - 1] = b
        BY <3>1, <4>1, <4>3
      <4>5. Occ(Tail(u), b)
        BY <4>3, <4>4 DEF Occ
      <4> QED
        BY <1>3, <2>2, <2>13, <3>2, <4>5 DEF Quits, Starts, Ends
    <3> QED
      BY <1>2, <2>5, <2>13, <3>3, <3>4, <3>5
  <2> QED
    BY <2>12, <2>13
<1> QED
  BY <1>1, <1>5, <1>6 DEF GhostInv

\* The processor has served a request.
LEMMA GhostServe ==
  ASSUME ObjInv, GhostInv, UNCHANGED <<phase, subs, out, attr>>,
         requestCh # <<>>, requestCh' = Tail(requestCh),
         \A t \in Subs : Waits(t)' => /\ Waits(t) \/ Head(requestCh) = SubscribeReq(t)
                                      /\ Head(requestCh) # UnsubscribeReq(t)
  PROVE  GhostInv'
<1>1. PICK l \in Seq(Requests), n \in Nat \ {0} :
        l = requestCh /\ n = Len(l) /\ Head(l) = l[1] /\ l # <<>> /\ 1 \in 1 .. n
  BY HeadFacts DEF ObjInv, TypeOK
<1>2. PICK q \in Seq(Requests) : q = requestCh' /\ Len(q) = n - 1
                                 /\ \A i \in 1 .. n - 1 : i + 1 \in 1 .. n /\ q[i] = l[i + 1]
  BY <1>1, HeadFacts
<1>3. ASSUME NEW h \in Conns, Plain(h)', NEW s \in Subs, Parted(h, s)' PROVE Quits(h, s)'
  <2>1. PICK a, b : a = SubscribeReq(s) /\ b = UnsubscribeReq(s)
    OBVIOUS
  <2>2. a = SubscribeReq(s)' /\ b = UnsubscribeReq(s)'
    BY <2>1 DEF SubscribeReq, UnsubscribeReq
  <2>3. Plain(h) /\ Parted(h, s)
    BY <1>3 DEF Plain, SubsOf, Parted
  <2>4. ~Occ(out[h], a) /\ (Occ(out[h], b) \/ Follows(s))
    BY <2>1, <2>3 DEF GhostInv, Quits, Starts, Ends
  <2>5. ASSUME Follows(s) PROVE Follows(s)'
    <3>1. /\ Waits(s) => \E i \in 1 .. n : l[i] = b
          /\ \A i \in 1 .. n : l[i] = a => \E j \in 1 .. n : i < j /\ l[j] = b
      BY <1>1, <2>1, <2>5 DEF Follows, Occ
    <3>2. \A j \in 1 .. n : j # 1 => j - 1 \in 1 .. n - 1 /\ q[j - 1] = l[j]
      <4> SUFFICES ASSUME NEW j \in 1 .. n, j # 1 PROVE j - 1 \in 1 .. n - 1 /\ q[j - 1] = l[j]
        OBVIOUS
      <4>1. j - 1 \in 1 .. n - 1 /\ (j - 1) + 1 = j
        OBVIOUS
      <4> QED
        BY <1>2, <4>1
    <3>3. Waits(s)' => \E i \in 1 .. n - 1 : q[i] = b
      <4> SUFFICES ASSUME Waits(s)' PROVE \E i \in 1 .. n - 1 : q[i] = b
        OBVIOUS
      <4>1. (Waits(s) \/ l[1] = a) /\ l[1] # b
        BY <1>1, <2>1
      <4>2. PICK j \in 1 .. n : j # 1 /\ l[j] = b
        BY <1>1, <3>1, <4>1
      <4> QED
        BY <3>2, <4>2
    <3>4. ASSUME NEW i \in 1 .. n - 1, q[i] = a PROVE \E j \in 1 .. n - 1 : i < j /\ q[j] = b
      <4>1. i + 1 \in 1 .. n /\ l[i + 1] = a
        BY <1>2, <3>4
      <4>2. PICK j \in 1 .. n : i + 1 < j /\ l[j] = b
        BY <3>1, <4>1
      <4>3. j # 1 /\ i < j - 1
        BY <4>2
      <4> QED
        BY <3>2, <4>2, <4>3
    <3> QED
      BY <1>2, <2>2, <3>3, <3>4 DEF Follows, Occ
  <2> QED
    BY <2>2, <2>4, <2>5 DEF Quits, Starts, Ends
<1> QED
  BY <1>3 DEF GhostInv

\* A step that these do not notice.
LEMMA GhostSame ==
  ASSUME ObjInv, GhostInv, UNCHANGED <<phase, subs, out, attr, requestCh, waiting>>
  PROVE  GhostInv'
BY DEF GhostInv, Plain, SubsOf, Parted, Quits, Starts, Ends, Follows, Waits, Occ,
       SubscribeReq, UnsubscribeReq
-----------------------------------------------------------------------------
\* A step of a connection that knows the same subscriptions as before.
LEMMA GhostQuiet ==
  ASSUME ObjInv, GhostInv, NEW k \in Conns, out[k] = <<>>,
         UNCHANGED <<requestCh, waiting, subs, attr>>,
         \A h \in Conns : h # k => phase'[h] = phase[h] /\ out'[h] = out[h],
         phase'[k] # "run" => phase[k] # "run", phase'[k] = "closed" => out'[k] = <<>>,
         \A t \in Subs : Plain(k) /\ Parted(k, t) => ~Occ(out'[k], SubscribeReq(t))
  PROVE  GhostInv'
<1>1. \A t \in Subs : Parted(k, t)' <=> Parted(k, t)
  BY DEF Parted
<1>2. Plain(k)' <=> Plain(k)
  BY DEF Plain, SubsOf
<1>3. phase'[k] # "run" => \A i \in Ids : subs'[k][i] = None
  BY DEF GhostInv
<1> QED
  BY <1>1, <1>2, <1>3, GhostConn

\* The requests of these handlers do not subscribe.
LEMMA GhostNoSubscribe ==
  ASSUME ObjInv, GhostInv, NEW k \in Conns,
         \/ HandleSend(k) \/ SendBack(k) \/ DrainOne(k) \/ WriteTopic(k) \/ WriteForAck(k)
         \/ Discard(k) \/ DrainEnd(k)
  PROVE  GhostInv'
<1>1. UNCHANGED <<requestCh, waiting, subs, attr>> /\ out[k] = <<>>
  BY DEF HandleSend, SendBack, DrainOne, WriteTopic, WriteForAck, Discard, DrainEnd, Running,
         subVars, procVars
<1>2. PICK u : /\ u = <<>> \/ \E r : u = <<r>> /\ \A t : r # SubscribeReq(t)
               /\ out' = [out EXCEPT ![k] = u] \/ (out' = out /\ u = out[k])
               /\ phase' = [phase EXCEPT ![k] = "closed"] => u = <<>>
  <2>1. CASE HandleSend(k)
    <3>1. PICK m \in Msgs, d \in Dests :
            /\ dest[m] = None /\ dest' = [dest EXCEPT ![m] = d]
            /\ out' = [out EXCEPT ![k] = <<EnqueueReq(m)>>]
      BY <2>1 DEF HandleSend
    <3>2. phase' = phase /\ phase[k] = "run"
      BY <2>1 DEF HandleSend, Running
    <3>3. phase' # [phase EXCEPT ![k] = "closed"]
      BY <3>2 DEF ObjInv, TypeOK
    <3>4. \A t : EnqueueReq(m) # SubscribeReq(t)
      BY SubReqs
    <3> QED
      BY <3>1, <3>3, <3>4
  <2>2. CASE SendBack(k) \/ DrainOne(k)
    <3>0. PICK m : out' = [out EXCEPT ![k] = <<RequeueReq(m)>>]
      BY <2>2 DEF SendBack, DrainOne
    <3>1. \A t : RequeueReq(m) # SubscribeReq(t)
      BY SubReqs
    <3>2. phase' = phase /\ phase[k] # "closed"
      BY <2>2 DEF SendBack, DrainOne, Running
    <3>3. phase' # [phase EXCEPT ![k] = "closed"]
      BY <3>2 DEF ObjInv, TypeOK
    <3> QED
      BY <3>0, <3>1, <3>3
  <2>3. CASE WriteTopic(k) \/ WriteForAck(k) \/ Discard(k)
    <3>1. out' = out
      BY <2>3 DEF WriteTopic, WriteForAck, Discard
    <3> QED
      BY <1>1, <3>1
  <2>4. CASE DrainEnd(k) /\ phase[k] = "drain1"
    <3>1. phase' = [phase EXCEPT ![k] = "disc"] /\ out' = [out EXCEPT ![k] = <<DisconnectedReq>>]
      BY <2>4 DEF DrainEnd
    <3>2. phase' # [phase EXCEPT ![k] = "closed"]
      BY <3>1 DEF ObjInv, TypeOK
    <3> QED
      BY <3>1, <3>2, SubReqs
  <2>5. CASE DrainEnd(k) /\ phase[k] # "drain1"
    BY <2>5 DEF DrainEnd
  <2> QED
    BY <2>1, <2>2, <2>3, <2>4, <2>5
<1>3. out'[k] = u /\ \A h \in Conns : h # k => out'[h] = out[h]
  BY <1>1, <1>2 DEF ObjInv, TypeOK
<1>4. /\ \A h \in Conns : h # k => phase'[h] = phase[h]
      /\ phase'[k] # "run" => phase[k] # "run"
      /\ phase'[k] = "closed" => u = <<>>
  <2>1. CASE phase' = phase /\ phase[k] # "closed"
    BY <2>1
  <2>2. CASE Discard(k)
    <3>1. /\ phase[k] \in {"unsub", "disc"}
          /\ phase' = [phase EXCEPT ![k] = IF @ = "unsub" THEN "drain1" ELSE "drain2"]
      BY <2>2 DEF Discard
    <3> QED
      BY <3>1 DEF ObjInv, TypeOK
  <2>3. CASE DrainEnd(k)
    <3>1. /\ phase[k] \in {"drain1", "drain2"}
          /\ phase' = [phase EXCEPT ![k] = IF @ = "drain1" THEN "disc" ELSE "closed"]
      BY <2>3 DEF DrainEnd
    <3>2. phase[k] # "drain1" => phase' = [phase EXCEPT ![k] = "closed"]
      BY <3>1
    <3> QED
      BY <1>2, <3>1, <3>2 DEF ObjInv, TypeOK
  <2> QED
    BY <2>1, <2>2, <2>3 DEF HandleSend, SendBack, DrainOne, WriteTopic, WriteForAck, Running
<1>5. ASSUME NEW t PROVE ~Occ(u, SubscribeReq(t))
  <2>1. PICK a : a = SubscribeReq(t)
    OBVIOUS
  <2>2. CASE u = <<>>
    BY <2>2, OccFew
  <2>3. CASE \E r : u = <<r>> /\ \A x : r # SubscribeReq(x)
    <3>1. PICK r : u = <<r>> /\ r # a
      BY <2>1, <2>3
    <3>2. ~Occ(<<r>>, a)
      BY <3>1, OccFew
    <3> QED
      BY <2>1, <3>1, <3>2
  <2> QED
    BY <1>2, <2>2, <2>3
<1> QED
  BY <1>1, <1>3, <1>4, <1>5, GhostQuiet

\* An auto subscription is given back to the queue only while its id is in use;
\* of a plain connection no other subscription has that id.
LEMMA GhostAuto ==
  ASSUME ObjInv, GhostInv, NEW k \in Conns, WriteAuto(k)
  PROVE  GhostInv'
<1>1. /\ UNCHANGED <<requestCh, waiting, subs, attr, phase>>
      /\ out[k] = <<>> /\ phase[k] = "run" /\ subCh[k] # <<>>
  BY DEF WriteAuto, Running, procVars
<1>2. PICK s \in Subs : s = Head(subCh[k]) /\ attr[s].conn = k
  BY <1>1, HeadOfSub DEF ObjInv
<1>3. subs[k][attr[s].id] # None /\ out' = [out EXCEPT ![k] = <<SubscribeReq(s)>>]
  BY <1>2 DEF WriteAuto
<1>4. out'[k] = <<SubscribeReq(s)>> /\ \A h \in Conns : h # k => out'[h] = out[h]
  BY <1>3 DEF ObjInv, TypeOK
<1>5. attr[s].id \in Ids
  <2>1. attr[s] # NoAttr
    BY <1>2, NoneAssumption DEF NoAttr
  <2> QED
    BY <2>1 DEF ObjInv, TypeOK
<1>6. ASSUME Plain(k) PROVE subs[k][attr[s].id] = s
  <2>1. PICK t \in Subs : t = subs[k][attr[s].id]
    BY <1>3, <1>5 DEF ObjInv, TypeOK
  <2>2. attr[t].conn = k /\ attr[t].id = attr[s].id
    BY <1>3, <1>5, <2>1 DEF ObjInv, Homes, HomeSubs
  <2> QED
    BY <1>2, <1>6, <2>1, <2>2 DEF Plain, SubsOf
<1>7. ASSUME NEW t \in Subs, Plain(k), Parted(k, t) PROVE ~Occ(out'[k], SubscribeReq(t))
  <2>1. t # s
    BY <1>6, <1>7 DEF Parted
  <2> QED
    BY <1>4, <2>1, OccFew, SubReqs
<1> QED
  BY <1>1, <1>4, <1>7, GhostQuiet

\* The list of a plain connection is empty: it does not resubscribe what an ACK
\* or a NACK takes out of it.
LEMMA GhostAck ==
  ASSUME ObjInv, GhostInv, NEW k \in Conns, HandleAck(k) \/ HandleNack(k)
  PROVE  GhostInv'
<1>1. PICK ss, l1 \in Seq(Subs), u \in Seq(Requests) :
        /\ Distinct(ss) /\ Distinct(l1) /\ Elems(ss) \subseteq Elems(subList[k])
        /\ Elems(l1) = Elems(subList[k]) \ Elems(ss)
        /\ \A s \in Elems(ss) : s \in Subs /\ frame[s] \in Msgs /\ ToQueues(frame[s])
        /\ subList' = [subList EXCEPT ![k] = l1]
        /\ frame' = [s \in Subs |-> IF s \in Elems(ss) THEN None ELSE frame[s]]
        /\ out[k] = <<>> /\ out' = [out EXCEPT ![k] = u]
        /\ \/ u = AckReqs(ss) /\ settled' = settled \cup {frame[s] : s \in Elems(ss)}
           \/ u = NackReqs(ss) /\ settled' = settled
        /\ panicked = None /\ phase[k] = "run"
        /\ UNCHANGED <<phase, subs, subCh, writeCh, log, attr, inList, procVars,
                       dest, dropped, owed, panicked>>
  BY AckDoes DEF ObjInv
<1>2. UNCHANGED <<requestCh, waiting, subs, attr, phase>> /\ out[k] = <<>> /\ phase[k] = "run"
  BY <1>1 DEF procVars
<1>3. out'[k] = u /\ \A h \in Conns : h # k => out'[h] = out[h]
  BY <1>1 DEF ObjInv, TypeOK
<1>4. ASSUME NEW t \in Subs, Plain(k), Parted(k, t) PROVE ~Occ(u, SubscribeReq(t))
  <2>1. attr[t].ack = "auto"
    BY <1>4 DEF Plain, SubsOf, Parted
  <2>2. t \notin Elems(subList[k])
    BY <2>1 DEF Elems, ObjInv, Homes, HomeList
  <2>3. \A j \in 1 .. Len(ss) : ss[j] # t
    BY <1>1, <2>2 DEF Elems
  <2>4. CASE u = AckReqs(ss)
    <3>1. Len(u) = Len(ss) /\ \A j \in 1 .. Len(ss) : u[j] = SubscribeReq(ss[j])
      BY <2>4, AckReqsFacts
    <3>2. \A i \in 1 .. Len(u) : u[i] # SubscribeReq(t)
      BY <2>3, <3>1, SubReqs
    <3> QED
      BY <3>2 DEF Occ
  <2>5. CASE u = NackReqs(ss)
    <3>1. \A s \in Elems(ss) : frame[s] \in Msgs
      BY <1>1
    <3>2. /\ Len(u) = 2 * Len(ss)
          /\ \A j \in 1 .. Len(ss) : /\ u[2 * j - 1] = RequeueReq(frame[ss[j]])
                                     /\ u[2 * j] = SubscribeReq(ss[j])
          /\ \A i \in 1 .. 2 * Len(ss) : \E j \in 1 .. Len(ss) : i = 2 * j - 1 \/ i = 2 * j
      BY <2>5, <3>1, NackReqsFacts
    <3>3. ASSUME NEW i \in 1 .. Len(u) PROVE u[i] # SubscribeReq(t)
      <4>1. PICK j \in 1 .. Len(ss) : i = 2 * j - 1 \/ i = 2 * j
        BY <3>2, <3>3
      <4>2. u[i] = RequeueReq(frame[ss[j]]) \/ u[i] = SubscribeReq(ss[j])
        BY <3>2, <4>1
      <4> QED
        BY <2>3, <4>2, SubReqs
    <3> QED
      BY <3>3 DEF Occ
  <2> QED
    BY <1>1, <2>4, <2>5
<1> QED
  BY <1>2, <1>3, <1>4, GhostQuiet

\* A new subscription is known.
LEMMA GhostSubscribe ==
  ASSUME ObjInv, GhostInv, NEW k \in Conns, HandleSubscribe(k)
  PROVE  GhostInv'
<1>1. UNCHANGED <<requestCh, waiting, phase>> /\ out[k] = <<>> /\ phase[k] = "run"
  BY DEF HandleSubscribe, Running, procVars
<1>2. PICK s \in Subs, i \in Ids, d \in Dests, a \in AckModes :
        /\ attr[s] = NoAttr /\ subs[k][i] = None
        /\ attr' = [attr EXCEPT ![s] = [conn |-> k, id |-> i, dest |-> d, ack |-> a]]
        /\ subs' = [subs EXCEPT ![k][i] = s]
        /\ out' = [out EXCEPT ![k] = <<SubscribeReq(s)>>]
  BY DEF HandleSubscribe
<1>3. /\ out'[k] = <<SubscribeReq(s)>> /\ subs'[k][i] = s
      /\ \A j \in Ids : j # i => subs'[k][j] = subs[k][j]
      /\ \A h \in Conns : h # k => out'[h] = out[h] /\ subs'[h] = subs[h]
  BY <1>2 DEF ObjInv, TypeOK
<1>4. /\ attr'[s].conn = k /\ attr'[s].id = i
      /\ \A t \in Subs : t # s => attr'[t] = attr[t]
  BY <1>2 DEF ObjInv, TypeOK
<1>5. ASSUME NEW t \in Subs, Plain(k)', Parted(k, t)'
      PROVE  ~Occ(out'[k], SubscribeReq(t)) /\ attr'[t] = attr[t] /\ Parted(k, t)
  <2>1. attr'[t].conn = k /\ subs'[k][attr'[t].id] # t
    BY <1>5 DEF Parted
  <2>2. t # s
    BY <1>3, <1>4, <2>1
  <2>3. ~Occ(out'[k], SubscribeReq(t))
    BY <1>3, <2>2, OccFew, SubReqs
  <2>4. attr'[t] = attr[t]
    BY <1>4, <2>2
  <2>5. attr[t].id # i
    BY <1>4, <1>5, <2>1, <2>2, <2>4 DEF Plain, SubsOf
  <2>6. attr[t].id \in Ids
    <3>1. attr[t] # NoAttr
      BY <2>1, <2>4, NoneAssumption DEF NoAttr
    <3> QED
      BY <3>1 DEF ObjInv, TypeOK
  <2> QED
    BY <1>3, <2>1, <2>3, <2>4, <2>5, <2>6 DEF Parted
<1> QED
  BY <1>1, <1>2, <1>3, <1>4, <1>5, GhostConn

\* UNSUBSCRIBE asks for what it gives up.
LEMMA GhostUnsubscribe ==
  ASSUME ObjInv, GhostInv, NEW k \in Conns, HandleUnsubscribe(k)
  PROVE  GhostInv'
<1>1. UNCHANGED <<requestCh, waiting, phase, attr>> /\ out[k] = <<>> /\ phase[k] = "run"
  BY DEF HandleUnsubscribe, Running, procVars, subVars
<1>2. PICK i \in Ids : /\ subs[k][i] # None /\ subs' = [subs EXCEPT ![k][i] = None]
                       /\ out' = [out EXCEPT ![k] = <<UnsubscribeReq(subs[k][i])>>]
  BY DEF HandleUnsubscribe
<1>3. PICK s \in Subs : s = subs[k][i]
  BY <1>2 DEF ObjInv, TypeOK
<1>4. /\ out'[k] = <<UnsubscribeReq(s)>> /\ subs'[k][i] = None
      /\ \A j \in Ids : j # i => subs'[k][j] = subs[k][j]
      /\ \A h \in Conns : h # k => out'[h] = out[h] /\ subs'[h] = subs[h]
  BY <1>2, <1>3 DEF ObjInv, TypeOK
<1>5. ASSUME NEW t \in Subs, Parted(k, t)'
      PROVE  /\ ~Occ(out'[k], SubscribeReq(t))
             /\ Occ(out'[k], UnsubscribeReq(t)) \/ (attr'[t] = attr[t] /\ Parted(k, t))
  <2>1. ~Occ(out'[k], SubscribeReq(t))
    BY <1>4, OccFew, SubReqs
  <2>2. CASE t = s
    BY <1>4, <2>1, <2>2, OccFew
  <2>3. CASE t # s
    <3>1. attr[t].conn = k /\ subs'[k][attr[t].id] # t
      BY <1>1, <1>5 DEF Parted
    <3>2. attr[t].id \in Ids
      <4>1. attr[t] # NoAttr
        BY <3>1, NoneAssumption DEF NoAttr
      <4> QED
        BY <4>1 DEF ObjInv, TypeOK
    <3>3. subs[k][attr[t].id] # t
      BY <1>3, <1>4, <2>3, <3>1, <3>2
    <3> QED
      BY <1>1, <2>1, <3>1, <3>3 DEF Parted
  <2> QED
    BY <2>2, <2>3
<1> QED
  BY <1>1, <1>4, <1>5, GhostConn

\* cleanupConn asks for all that Conn.subs had.
LEMMA GhostLeave ==
  ASSUME ObjInv, GhostInv, NEW k \in Conns, Leave(k) \/ WriteFail(k)
  PROVE  GhostInv'
<1>1. UNCHANGED <<requestCh, waiting, attr>> /\ out[k] = <<>> /\ CleanupConn(k)
  BY DEF Leave, WriteFail, Running, procVars
<1>2. phase' = [phase EXCEPT ![k] = "unsub"] /\ subs' = [subs EXCEPT ![k] = [i \in Ids |-> None]]
  BY <1>1 DEF CleanupConn
<1>3. PICK u \in Seq(Requests), n \in Nat :
        /\ out' = [out EXCEPT ![k] = u] /\ Len(u) = n + Len(subList[k])
        /\ \A i \in 1 .. n : \E s \in Known(k) : u[i] = UnsubscribeReq(s)
        /\ \A s \in Known(k) : \E i \in 1 .. n : u[i] = UnsubscribeReq(s)
        /\ \A j \in 1 .. Len(subList[k]) :
             n + j \in 1 .. Len(u) /\ u[n + j] = RequeueReq(frame[subList[k][j]])
        /\ \A i \in 1 .. Len(u) :
             i \in 1 .. n \/ \E j \in 1 .. Len(subList[k]) : i = n + j
  BY <1>1, CleanupDoes DEF ObjInv
<1>4. /\ phase'[k] = "unsub" /\ out'[k] = u /\ \A i \in Ids : subs'[k][i] = None
      /\ \A h \in Conns : h # k => out'[h] = out[h] /\ subs'[h] = subs[h] /\ phase'[h] = phase[h]
  BY <1>2, <1>3 DEF ObjInv, TypeOK
<1>5. ASSUME NEW t \in Subs, Parted(k, t)'
      PROVE  /\ ~Occ(u, SubscribeReq(t))
             /\ Occ(u, UnsubscribeReq(t)) \/ (attr'[t] = attr[t] /\ Parted(k, t))
  <2>1. \A i \in 1 .. Len(u) : u[i] # SubscribeReq(t)
    <3> SUFFICES ASSUME NEW i \in 1 .. Len(u) PROVE u[i] # SubscribeReq(t)
      OBVIOUS
    <3>1. CASE i \in 1 .. n
      BY <1>3, <3>1, SubReqs
    <3>2. CASE \E j \in 1 .. Len(subList[k]) : i = n + j
      BY <1>3, <3>2, SubReqs
    <3> QED
      BY <1>3, <3>1, <3>2
  <2>2. attr[t].conn = k
    BY <1>1, <1>5 DEF Parted
  <2>3. attr[t].id \in Ids
    <3>1. attr[t] # NoAttr
      BY <2>2, NoneAssumption DEF NoAttr
    <3> QED
      BY <3>1 DEF ObjInv, TypeOK
  <2>4. ASSUME subs[k][attr[t].id] = t PROVE Occ(u, UnsubscribeReq(t))
    <3>1. t # None
      BY NoneAssumption
    <3>2. t \in Known(k)
      BY <2>3, <2>4, <3>1 DEF Known
    <3>3. PICK i \in 1 .. n : u[i] = UnsubscribeReq(t)
      BY <1>3, <3>2
    <3>4. Len(subList[k]) \in Nat
      BY DEF ObjInv, TypeOK
    <3>5. i \in 1 .. Len(u)
      BY <1>3, <3>4
    <3> QED
      BY <3>3, <3>5 DEF Occ
  <2>5. ~Occ(u, SubscribeReq(t))
    BY <2>1 DEF Occ
  <2> QED
    BY <1>1, <2>2, <2>4, <2>5 DEF Parted
<1> QED
  BY <1>1, <1>4, <1>5, GhostConn
-----------------------------------------------------------------------------
\* Where Waits is a place.
LEMMA WaitsIn == \A s : Waits(s) <=> In("wait", s)
<1> SUFFICES ASSUME NEW s PROVE Waits(s) <=> In("wait", s)
  OBVIOUS
<1>1. In("wait", s) <=> attr[s].dest \in Dests /\ \E i \in 1 .. Len(waiting[attr[s].dest]) :
                                                    waiting[attr[s].dest][i] = s
  BY PlaceIs DEF In, WaitAt
<1> QED
  BY <1>1 DEF Waits, Occ

\* The same after a step.
LEMMA WaitsInNext == (\A s : Waits(s) <=> In("wait", s))'
BY WaitsIn, PTL

\* Serve lists a subscription that asks for it, and takes it out of the list when
\* its Unsubscribe comes.
LEMMA GhostRequest ==
  ASSUME ObjInv, GhostInv,
         \/ ServeSubscribe \/ ServeUnsubscribe \/ ServeEnqueueQueue \/ ServeRequeue
         \/ ServeEnqueueTopic \/ ServeOther
  PROVE  GhostInv'
<1>1. UNCHANGED <<phase, subs, out, attr, dest>> /\ \E op : Serve(op)
  BY DEF ServeSubscribe, ServeUnsubscribe, ServeEnqueueQueue, ServeRequeue,
         ServeEnqueueTopic, ServeOther, connVars, subVars, histVars
<1>2. /\ requestCh # <<>> /\ requestCh' = Tail(requestCh) /\ Head(requestCh) = requestCh[1]
      /\ requestCh[1] \in Requests /\ GoodReq(requestCh[1])
  BY <1>1, ServeFacts
<1>3. PICK r \in Requests : r = Head(requestCh) /\ r = requestCh[1] /\ GoodReq(r)
  BY <1>2
<1>4. ASSUME NEW t \in Subs, In("wait", t)'
      PROVE  (In("wait", t) \/ r = SubscribeReq(t)) /\ r # UnsubscribeReq(t)
  <2>1. waiting' = waiting => In("wait", t)
    <3>1. waiting' = waiting => Same("wait", t)
      BY <1>1, Still DEF ObjInv
    <3> QED
      BY <1>4, <3>1 DEF Same
  <2>2. UnsubscribeReq(t).op = "Unsubscribe" /\ UnsubscribeReq(t).sub = t
    BY DEF UnsubscribeReq
  <2>3. CASE ServeSubscribe
    <3>1. r.op = "Subscribe" /\ r.sub \in Subs /\ r = SubscribeReq(r.sub) /\ attr[r.sub] # NoAttr
      BY <1>3, <2>3, ReqForm DEF ServeSubscribe, Serve, GoodReq
    <3>2. PICK d \in Dests : d = attr[r.sub].dest
      BY <3>1 DEF ObjInv, TypeOK
    <3>3. waiting' = waiting \/ waiting' = [waiting EXCEPT ![d] = Append(@, r.sub)]
      BY <1>3, <2>3, <3>2 DEF ServeSubscribe
    <3>4. CASE waiting' = [waiting EXCEPT ![d] = Append(@, r.sub)] /\ t # r.sub
      <4>1. Keeps("wait", t)
        BY <1>1, <3>1, <3>4, WaitAppend DEF ObjInv
      <4> QED
        BY <1>4, <2>2, <3>1, <4>1 DEF Keeps
    <3> QED
      BY <2>1, <2>2, <3>1, <3>3, <3>4
  <2>4. CASE ServeUnsubscribe
    <3>1. r.op = "Unsubscribe" /\ r.sub \in Subs /\ r = UnsubscribeReq(r.sub) /\ attr[r.sub] # NoAttr
      BY <1>3, <2>4, ReqForm DEF ServeUnsubscribe, Serve, GoodReq
    <3>2. PICK d \in Dests : d = attr[r.sub].dest
      BY <3>1 DEF ObjInv, TypeOK
    <3>3. waiting' = [waiting EXCEPT ![d] = Without(@, r.sub)]
      BY <1>3, <2>4, <3>2 DEF ServeUnsubscribe
    <3>4. Keeps("wait", t) /\ ~In("wait", r.sub)'
      BY <1>1, <3>1, <3>2, <3>3, WaitWithout DEF ObjInv
    <3> QED
      BY <1>4, <2>2, <3>4 DEF Keeps
  <2>5. CASE ServeEnqueueQueue \/ ServeRequeue
    <3>1. r.op # "Unsubscribe"
      BY <1>3, <2>5 DEF ServeEnqueueQueue, ServeRequeue, Serve
    <3>2. r.op \in {"Enqueue", "Requeue"} /\ r.msg \in Msgs
      BY <1>3, <2>5, ReqForm DEF ServeEnqueueQueue, ServeRequeue, Serve
    <3>3. PICK q \in Dests : q = dest[r.msg]
      BY <1>3, <2>5, <3>2 DEF ServeEnqueueQueue, ServeRequeue, Serve, GoodReq, ToQueues, Dests
    <3>4. waiting' = waiting \/ (waiting[q] # <<>> /\ waiting' = [waiting EXCEPT ![q] = Tail(@)])
      BY <1>3, <2>5, <3>3 DEF ServeEnqueueQueue, ServeRequeue, ToQueue
    <3>5. CASE waiting[q] # <<>> /\ waiting' = [waiting EXCEPT ![q] = Tail(@)]
      <4>1. Keeps("wait", t)
        BY <1>1, <3>5, WaitTail DEF ObjInv
      <4> QED
        BY <1>4, <2>2, <3>1, <4>1 DEF Keeps
    <3> QED
      BY <2>1, <2>2, <3>1, <3>4, <3>5
  <2>6. CASE ServeEnqueueTopic \/ ServeOther
    <3>1. r.op # "Unsubscribe" /\ waiting' = waiting
      BY <1>3, <2>6 DEF ServeEnqueueTopic, ServeOther, Serve
    <3> QED
      BY <2>1, <2>2, <3>1
  <2> QED
    BY <2>3, <2>4, <2>5, <2>6
<1> QED
  BY <1>1, <1>2, <1>3, <1>4, WaitsIn, WaitsInNext, GhostServe

\* GhostInv is inductive, relative to ObjInv.
LEMMA NextGhost ==
  ASSUME ObjInv, GhostInv, [Next]_vars
  PROVE  GhostInv'
<1>1. CASE UNCHANGED vars
  BY <1>1, GhostSame DEF vars, connVars, subVars, procVars
<1>2. ASSUME NEW k \in Conns, Handle(k) \/ WriteOut(k) \/ Internal(k) \/ Leave(k) \/ WriteFail(k)
      PROVE  GhostInv'
  <2>1. CASE Handle(k)
    BY <2>1, GhostSubscribe, GhostUnsubscribe, GhostNoSubscribe, GhostAck DEF Handle
  <2>2. CASE WriteOut(k)
    BY <2>2, GhostAuto, GhostNoSubscribe DEF WriteOut
  <2>3. CASE Internal(k)
    BY <2>3, GhostPut, GhostNoSubscribe DEF Internal
  <2>4. CASE Leave(k) \/ WriteFail(k)
    BY <2>4, GhostLeave
  <2> QED
    BY <1>2, <2>1, <2>2, <2>3, <2>4
<1>3. CASE Proc
  <2>1. CASE ProcSend
    BY <2>1, GhostSame DEF ProcSend, subVars
  <2> QED
    BY <1>3, <2>1, GhostRequest DEF Proc
<1> QED
  BY <1>1, <1>2, <1>3 DEF Next

\* In the beginning nothing is listed, and no connection has ended.
LEMMA InitGhost ==
  ASSUME Init
  PROVE  GhostInv
<1>1. \A k \in Conns : phase[k] = "run"
  BY DEF Init
<1>2. \A k \in Conns, s \in Subs : ~Parted(k, s)
  BY NoneAssumption DEF Init, Parted, NoAttr
<1> QED
  BY <1>1, <1>2 DEF GhostInv

\* A connection that is closed, with no request about it outstanding, has no
\* subscription left in any queue or topic, if it had only auto subscriptions and
\* used no id twice: whatever Subscribe requests were on their way when
\* cleanupConn ran, an Unsubscribe follows each of them.
THEOREM NoGhostHolds == Spec => []NoGhost
<1>1. ObjInv /\ GhostInv => NoGhost
  <2> SUFFICES ASSUME ObjInv, GhostInv, NEW k \in Conns, phase[k] = "closed", Plain(k),
                      \A i \in DOMAIN requestCh : requestCh[i].sub \notin SubsOf(k),
                      NEW d \in Dests, NEW i \in DOMAIN waiting[d], waiting[d][i] \in SubsOf(k)
               PROVE  FALSE
    BY DEF NoGhost
  <2>1. i \in 1 .. Len(waiting[d]) /\ DOMAIN requestCh = 1 .. Len(requestCh)
    BY DEF ObjInv, TypeOK
  <2>2. PICK s \in Subs : s = waiting[d][i] /\ attr[s].conn = k /\ attr[s].dest = d
    BY <2>1 DEF SubsOf, ObjInv, Homes, HomeWait
  <2>3. Waits(s)
    BY <2>1, <2>2 DEF Waits, Occ
  <2>4. Parted(k, s)
    <3>1. attr[s].id \in Ids
      <4>1. attr[s] # NoAttr
        BY <2>2, NoneAssumption DEF NoAttr
      <4> QED
        BY <4>1 DEF ObjInv, TypeOK
    <3>2. subs[k][attr[s].id] = None
      BY <3>1 DEF GhostInv
    <3> QED
      BY <2>2, <3>2, NoneAssumption DEF Parted
  <2>5. Quits(k, s) /\ out[k] = <<>>
    BY <2>4 DEF GhostInv
  <2>6. ~Ends(k, s)
    BY <2>5, OccFew DEF Ends
  <2>7. Occ(requestCh, UnsubscribeReq(s))
    BY <2>3, <2>5, <2>6 DEF Quits, Follows
  <2>8. UnsubscribeReq(s).sub = s
    BY DEF UnsubscribeReq
  <2> QED
    BY <2>1, <2>2, <2>7, <2>8 DEF Occ, SubsOf
<1>2. Init => GhostInv
  BY InitGhost
<1>3. ObjInv /\ GhostInv /\ [Next]_vars => GhostInv'
  BY NextGhost
<1> QED
  BY <1>1, <1>2, <1>3, ObjHolds, PTL DEF Spec
-----------------------------------------------------------------------------
(***************************************************************************)
(* The messages of the topics.  A message is asked for by one Enqueue      *)
(* request and is nowhere else until that one is served.  From then on the *)
(* copy for a subscription that was listed is in one place, as long as its *)
(* connection runs: with the processor, in writeChannel, or written.       *)
(***************************************************************************)
Posted(m)  == \E o : Asks(o, EnqueueReq(m))
OnePost(m) == /\ AskedOnce(EnqueueReq(m))
              /\ \A o, p : Asks(o, EnqueueReq(m)) /\ Asks(p, EnqueueReq(m)) => o = p
Seen(c)    == Occ(procOut, c) \/ \E k \in Conns : Occ(writeCh[k], c) \/ Occ(log[k], c)
NoTrace(m) == /\ \A s \in Subs : m \notin owed[s]
              /\ \A c \in Deliveries : c.msg = m => ~Seen(c)
Told(c, k) == /\ Once(procOut, c) /\ Once(writeCh[k], c) /\ Once(log[k], c)
              /\ \/ Occ(procOut, c) /\ ~Occ(writeCh[k], c) /\ ~Occ(log[k], c)
                 \/ ~Occ(procOut, c) /\ Occ(writeCh[k], c) /\ ~Occ(log[k], c)
                 \/ ~Occ(procOut, c) /\ ~Occ(writeCh[k], c) /\ Occ(log[k], c)

PostInv  == \A m \in Msgs : dest[m] \in Topics => OnePost(m)
Unheard(m) == dest[m] = None \/ (dest[m] \in Topics /\ Posted(m))
TraceInv == \A m \in Msgs : Unheard(m) => NoTrace(m)
OwedInv  ==
  \A c \in Deliveries : c.msg \in owed[c.sub] =>
    /\ attr[c.sub] # NoAttr /\ dest[c.msg] \in Topics
    /\ phase[attr[c.sub].conn] = "run" => Told(c, attr[c.sub].conn)
TopicInv == PostInv /\ TraceInv /\ OwedInv

\* What the two forms of a destination are not.
LEMMA TopicNot == \A d : d \in Topics => d # None /\ d \notin Queues
BY NoneAssumption, DestAssumption DEF Dests

\* Nobody has asked for a message that was not sent.
LEMMA NotPosted ==
  ASSUME ObjInv, NEW m \in Msgs, dest[m] = None
  PROVE  ~Posted(m) /\ AskedOnce(EnqueueReq(m))
<1>1. \A r : GoodReq(r) => r # EnqueueReq(m)
  BY NoneAssumption DEF GoodReq, EnqueueReq
<1>2. ~Occ(requestCh, EnqueueReq(m)) /\ \A k \in Conns : ~Occ(out[k], EnqueueReq(m))
  BY <1>1 DEF Occ, ObjInv, Homes, HomeReq, HomeOut
<1> QED
  BY <1>2 DEF Posted, Asks, AskedOnce, Once, Occ

\* A message has a destination once it was sent.
LEMMA DestStep ==
  ASSUME ObjInv, [Next]_vars
  PROVE  \A m \in Msgs : dest'[m] = dest[m] \/ dest[m] = None
<1>1. CASE UNCHANGED vars
  BY <1>1 DEF vars, histVars
<1>2. ASSUME NEW k \in Conns, Handle(k) PROVE \A m \in Msgs : dest'[m] = dest[m] \/ dest[m] = None
  <2>1. CASE HandleSend(k)
    <3>1. PICK m \in Msgs, d \in Dests : dest[m] = None /\ dest' = [dest EXCEPT ![m] = d]
      BY <2>1 DEF HandleSend
    <3> QED
      BY <3>1 DEF ObjInv, TypeOK
  <2>2. CASE ~HandleSend(k)
    BY <1>2, <2>2 DEF Handle, HandleSubscribe, HandleUnsubscribe, HandleAck, HandleNack, histVars
  <2> QED
    BY <2>1, <2>2
<1>3. ASSUME NEW k \in Conns, WriteOut(k) \/ Leave(k) \/ WriteFail(k) PROVE dest' = dest
  BY <1>3 DEF WriteOut, WriteAuto, WriteForAck, WriteTopic, Leave, WriteFail, histVars
<1>4. ASSUME NEW k \in Conns, Internal(k) PROVE dest' = dest
  BY <1>4 DEF Internal, PutRequest, SendBack, Discard, DrainOne, DrainEnd, histVars
<1>5. CASE Proc
  BY <1>5 DEF Proc, ServeSubscribe, ServeUnsubscribe, ServeEnqueueQueue, ServeRequeue,
              ServeEnqueueTopic, ServeOther, ProcSend, histVars
<1> QED
  BY <1>1, <1>2, <1>3, <1>4, <1>5 DEF Next

\* The Enqueue request of a message stays one, whatever a step does.
LEMMA PostConn ==
  ASSUME ObjInv, MsgInv, PostInv, NEW m \in Msgs, dest[m] \in Topics, dest'[m] = dest[m],
         NEW k \in Conns, Handle(k) \/ WriteOut(k) \/ Internal(k) \/ Leave(k) \/ WriteFail(k)
  PROVE  OnePost(m)' /\ (Posted(m)' => Posted(m))
<1>1. PICK e : e = EnqueueReq(m) /\ AskedOnce(e) /\ \A o, p : Asks(o, e) /\ Asks(p, e) => o = p
  BY DEF PostInv, OnePost
<1>2. e = EnqueueReq(m)'
  BY <1>1 DEF EnqueueReq
<1>3. SUFFICES /\ AskedOnce(e)' /\ (\A o, p : Asks(o, e)' /\ Asks(p, e)' => o = p)
               /\ (\E o : Asks(o, e)') => \E o : Asks(o, e)
  BY <1>1, <1>2 DEF OnePost, Posted
<1>4. CASE PutRequest(k)
  BY <1>1, <1>4, PutSits
<1>5. CASE ~PutRequest(k)
  <2>1. /\ requestCh' = requestCh /\ (\A h \in Conns : h # k => out'[h] = out[h])
        /\ ~Occ(out'[k], e)
    <3>1. CASE HandleSend(k)
      <4>1. requestCh' = requestCh
        BY <3>1 DEF HandleSend, procVars
      <4>2. PICK n \in Msgs, d \in Dests : /\ dest[n] = None /\ dest' = [dest EXCEPT ![n] = d]
                                           /\ out' = [out EXCEPT ![k] = <<EnqueueReq(n)>>]
        BY <3>1 DEF HandleSend
      <4>3. n # m
        BY <4>2, TopicNot
      <4>4. out'[k] = <<EnqueueReq(n)>> /\ \A h \in Conns : h # k => out'[h] = out[h]
        BY <4>2 DEF ObjInv, TypeOK
      <4>5. e # EnqueueReq(n)
        BY <1>1, <4>3, ReqDiffer
      <4> QED
        BY <4>1, <4>4, <4>5, OccFew
    <3>2. CASE ~HandleSend(k)
      <4>1. PICK S, x : \/ GivesUp(k, S, {}, {}) \/ GivesUp(k, {}, S, {})
                        \/ GivesUp(k, {}, S, {x})
        BY <1>5, <3>2, ConnGivesUp DEF Handle, Internal
      <4> QED
        BY <1>1, <4>1 DEF GivesUp
    <3> QED
      BY <3>1, <3>2
  <2>2. Once(out'[k], e)
    BY <2>1 DEF Occ, Once
  <2>3. AskedOnce(e)'
    BY <1>1, <2>1, <2>2 DEF AskedOnce
  <2>4. \A o : Asks(o, e)' => Asks(o, e)
    BY <2>1 DEF Asks
  <2> QED
    BY <1>1, <2>3, <2>4
<1> QED
  BY <1>4, <1>5

\* ... and is gone when it is served.
LEMMA PostServe ==
  ASSUME ObjInv, PostInv, NEW m \in Msgs, dest[m] \in Topics, Proc
  PROVE  /\ OnePost(m)' /\ (Posted(m)' => Posted(m))
         /\ Head(requestCh) = EnqueueReq(m) /\ ~ProcSend => Posted(m) /\ ~Posted(m)'
<1>1. PICK e : e = EnqueueReq(m) /\ AskedOnce(e) /\ \A o, p : Asks(o, e) /\ Asks(p, e) => o = p
  BY DEF PostInv, OnePost
<1>2. e = EnqueueReq(m)'
  BY <1>1 DEF EnqueueReq
<1>3. SUFFICES /\ AskedOnce(e)' /\ (\A o, p : Asks(o, e)' /\ Asks(p, e)' => o = p)
               /\ (\E o : Asks(o, e)') => \E o : Asks(o, e)
               /\ Head(requestCh) = e /\ ~ProcSend => (\E o : Asks(o, e)) /\ ~\E o : Asks(o, e)'
  BY <1>1, <1>2 DEF OnePost, Posted
<1>4. CASE ProcSend
  <2>1. requestCh' = requestCh /\ out' = out
    BY <1>4 DEF ProcSend
  <2> QED
    BY <1>1, <1>4, <2>1 DEF AskedOnce, Asks
<1>5. CASE ~ProcSend
  <2>1. out' = out /\ requestCh # <<>> /\ requestCh' = Tail(requestCh)
    BY <1>5 DEF Proc, ServeSubscribe, ServeUnsubscribe, ServeEnqueueQueue, ServeRequeue,
                ServeEnqueueTopic, ServeOther, Serve, connVars
  <2>2. /\ AskedOnce(e)' /\ (e = Head(requestCh) => Asks(None, e))
        /\ \A o : Asks(o, e)' <=> Asks(o, e) /\ ~(o = None /\ e = Head(requestCh))
    BY <1>1, <2>1, ServeSits
  <2> QED
    BY <1>1, <2>2
<1> QED
  BY <1>4, <1>5

\* PostInv is inductive; what was heard of stays so.
LEMMA PostStep ==
  ASSUME ObjInv, MsgInv, PostInv, [Next]_vars
  PROVE  PostInv' /\ \A m \in Msgs : Unheard(m)' => Unheard(m)
<1>1. \A m \in Msgs : dest'[m] = dest[m] \/ dest[m] = None
  BY DestStep
<1>2. ASSUME NEW m \in Msgs, dest[m] \in Topics
      PROVE  dest'[m] = dest[m] /\ OnePost(m)' /\ (Posted(m)' => Posted(m))
  <2>1. dest'[m] = dest[m]
    BY <1>1, <1>2, TopicNot
  <2>2. CASE UNCHANGED vars
    <3>1. requestCh' = requestCh /\ out' = out
      BY <2>2 DEF vars, connVars, procVars
    <3>2. OnePost(m)
      BY <1>2 DEF PostInv
    <3> QED
      BY <2>1, <3>1, <3>2 DEF OnePost, Posted, AskedOnce, Asks, EnqueueReq
  <2> QED
    BY <1>2, <2>1, <2>2, PostConn, PostServe DEF Next
<1>3. ASSUME NEW m \in Msgs, dest[m] = None, dest'[m] \in Topics PROVE OnePost(m)'
  <2>1. PICK k \in Conns : HandleSend(k)
    <3>1. dest' # dest
      BY <1>3, TopicNot
    <3>2. ASSUME NEW k \in Conns, WriteOut(k) \/ Leave(k) \/ WriteFail(k) PROVE dest' = dest
      BY <3>2 DEF WriteOut, WriteAuto, WriteForAck, WriteTopic, Leave, WriteFail, histVars
    <3>3. ASSUME NEW k \in Conns, Internal(k) PROVE dest' = dest
      BY <3>3 DEF Internal, PutRequest, SendBack, Discard, DrainOne, DrainEnd, histVars
    <3>4. ASSUME Proc PROVE dest' = dest
      BY <3>4 DEF Proc, ServeSubscribe, ServeUnsubscribe, ServeEnqueueQueue, ServeRequeue,
                  ServeEnqueueTopic, ServeOther, ProcSend, histVars
    <3>5. ASSUME NEW k \in Conns, Handle(k), ~HandleSend(k) PROVE dest' = dest
      BY <3>5 DEF Handle, HandleSubscribe, HandleUnsubscribe, HandleAck, HandleNack, histVars
    <3>6. UNCHANGED vars => dest' = dest
      BY DEF vars, histVars
    <3> QED
      BY <3>1, <3>2, <3>3, <3>4, <3>5, <3>6 DEF Next
  <2>2. requestCh' = requestCh /\ out[k] = <<>>
    BY <2>1 DEF HandleSend, procVars, Running
  <2>3. PICK n \in Msgs, d \in Dests : /\ dest[n] = None /\ dest' = [dest EXCEPT ![n] = d]
                                       /\ out' = [out EXCEPT ![k] = <<EnqueueReq(n)>>]
    BY <2>1 DEF HandleSend
  <2>4. out'[k] = <<EnqueueReq(n)>> /\ \A h \in Conns : h # k => out'[h] = out[h]
    BY <2>3 DEF ObjInv, TypeOK
  <2>5. PICK e : e = EnqueueReq(m) /\ AskedOnce(e) /\ \A o : ~Asks(o, e)
    BY <1>3, NotPosted DEF Posted
  <2>6. e = EnqueueReq(m)'
    BY <2>5 DEF EnqueueReq
  <2>7. Once(<<EnqueueReq(n)>>, e)
    BY OccFew
  <2>8. AskedOnce(e)'
    BY <2>2, <2>4, <2>5, <2>7 DEF AskedOnce
  <2>9. \A o : Asks(o, e)' => o = k
    BY <2>2, <2>4, <2>5 DEF Asks
  <2> QED
    BY <2>6, <2>8, <2>9 DEF OnePost
<1>4. PostInv'
  BY <1>1, <1>2, <1>3 DEF PostInv
<1>5. \A m \in Msgs : Unheard(m)' => Unheard(m)
  BY <1>1, <1>2 DEF Unheard
<1> QED
  BY <1>4, <1>5

\* What is left of a list without its first element.
LEMMA OccRest ==
  ASSUME NEW S, NEW l \in Seq(S), l # <<>>, NEW x
  PROVE  /\ x # Head(l) => (Occ(Tail(l), x) <=> Occ(l, x))
         /\ Occ(Tail(l), x) => Occ(l, x)
         /\ Occ(l, Head(l))
<1>1. PICK h, t : h = Head(l) /\ t = Tail(l)
  OBVIOUS
<1>2. /\ h = l[1] /\ Len(l) \in Nat \ {0} /\ 1 \in 1 .. Len(l) /\ Len(t) = Len(l) - 1
      /\ \A i \in 1 .. Len(t) : i + 1 \in 1 .. Len(l) /\ t[i] = l[i + 1]
  BY <1>1, HeadFacts
<1>3. Occ(t, x) => Occ(l, x)
  BY <1>2 DEF Occ
<1>4. Occ(l, h)
  BY <1>2 DEF Occ
<1>5. ASSUME x # h, Occ(l, x) PROVE Occ(t, x)
  <2>1. PICK i \in 1 .. Len(l) : l[i] = x
    BY <1>5 DEF Occ
  <2>2. i # 1
    BY <1>2, <1>5, <2>1
  <2>3. i - 1 \in 1 .. Len(t) /\ (i - 1) + 1 = i
    BY <1>2, <2>2
  <2>4. t[i - 1] = x
    BY <1>2, <2>1, <2>3
  <2> QED
    BY <2>3, <2>4 DEF Occ
<1> QED
  BY <1>1, <1>3, <1>4, <1>5

\* Topics are kept by a step that makes no new copy and loses none of a
\* connection that runs.
LEMMA TopicKeeps ==
  ASSUME ObjInv, TraceInv, OwedInv,
         \A m \in Msgs : Unheard(m)' => Unheard(m),
         \A m \in Msgs : dest'[m] = dest[m] \/ dest[m] = None,
         \A s \in Subs : attr[s] # NoAttr => attr'[s] = attr[s],
         \A s \in Subs : owed'[s] \subseteq owed[s],
         \A k \in Conns : phase'[k] = "run" => phase[k] = "run",
         \A c \in Deliveries : dest[c.msg] \notin Queues => (Seen(c)' => Seen(c)),
         \A c \in Deliveries, k \in Conns :
           dest[c.msg] \in Topics /\ attr[c.sub].conn = k /\ phase'[k] = "run" /\ Told(c, k)
             => Told(c, k)'
  PROVE  TraceInv' /\ OwedInv'
<1>1. ASSUME NEW m \in Msgs, Unheard(m)' PROVE NoTrace(m)'
  <2>1. Unheard(m) /\ NoTrace(m)
    BY <1>1 DEF TraceInv
  <2>2. dest[m] \notin Queues
    BY <2>1, TopicNot, NoneAssumption DEF Unheard, Dests
  <2> QED
    BY <2>1, <2>2 DEF NoTrace
<1>2. ASSUME NEW c \in Deliveries, c.msg \in owed'[c.sub]
      PROVE  (/\ attr[c.sub] # NoAttr /\ dest[c.msg] \in Topics
              /\ phase[attr[c.sub].conn] = "run" => Told(c, attr[c.sub].conn))'
  <2>1. c.sub \in Subs /\ c.msg \in Msgs
    BY DEF Deliveries
  <2>2. c.msg \in owed[c.sub]
    BY <1>2, <2>1
  <2>3. /\ attr[c.sub] # NoAttr /\ dest[c.msg] \in Topics
        /\ phase[attr[c.sub].conn] = "run" => Told(c, attr[c.sub].conn)
    BY <2>2 DEF OwedInv
  <2>4. attr'[c.sub] = attr[c.sub] /\ dest'[c.msg] = dest[c.msg]
    BY <2>1, <2>3, TopicNot
  <2>5. PICK k \in Conns : attr[c.sub].conn = k
    BY <2>1, <2>3 DEF ObjInv, TypeOK
  <2>6. phase'[k] = "run" => Told(c, k)'
    BY <2>3, <2>5
  <2> QED
    BY <2>3, <2>4, <2>5, <2>6 DEF Told
<1> QED
  BY <1>1, <1>2 DEF TraceInv, OwedInv

\* Two lists hold the same of x.
Alike(n, l, x) == (Occ(n, x) <=> Occ(l, x)) /\ (Once(l, x) => Once(n, x))

\* A step that only moves queue messages, or ends a connection.
LEMMA TopicSame ==
  ASSUME ObjInv, TraceInv, OwedInv,
         \A m \in Msgs : Unheard(m)' => Unheard(m),
         \A m \in Msgs : dest'[m] = dest[m] \/ dest[m] = None,
         \A s \in Subs : attr[s] # NoAttr => attr'[s] = attr[s],
         \A s \in Subs : owed'[s] \subseteq owed[s],
         \A k \in Conns : phase'[k] = "run" => phase[k] = "run",
         \A c \in Deliveries : dest[c.msg] \notin Queues =>
           /\ Alike(procOut', procOut, c)
           /\ \A k \in Conns : Alike(log'[k], log[k], c),
         \A k \in Conns : writeCh'[k] = writeCh[k] \/ (writeCh'[k] = <<>> /\ phase'[k] # "run")
  PROVE  TraceInv' /\ OwedInv'
<1>1. ASSUME NEW c \in Deliveries, dest[c.msg] \notin Queues, Seen(c)' PROVE Seen(c)
  <2>1. \A k \in Conns : Occ(writeCh'[k], c) => Occ(writeCh[k], c)
    BY OccFew
  <2> QED
    BY <1>1, <2>1 DEF Seen, Alike
<1>2. ASSUME NEW c \in Deliveries, NEW k \in Conns, dest[c.msg] \in Topics,
             attr[c.sub].conn = k, phase'[k] = "run", Told(c, k)
      PROVE  Told(c, k)'
  <2>1. writeCh'[k] = writeCh[k] /\ Alike(procOut', procOut, c) /\ Alike(log'[k], log[k], c)
    BY <1>2, TopicNot
  <2> QED
    BY <1>2, <2>1 DEF Told, Alike
<1> QED
  BY <1>1, <1>2, TopicKeeps

\* ... the steps of a connection that write nothing,
LEMMA TopicQuiet ==
  ASSUME ObjInv, TraceInv, OwedInv, NEW k \in Conns,
         \A m \in Msgs : Unheard(m)' => Unheard(m),
         \A m \in Msgs : dest'[m] = dest[m] \/ dest[m] = None,
         Handle(k) \/ Internal(k) \/ Leave(k) \/ WriteFail(k)
  PROVE  TraceInv' /\ OwedInv'
<1>1. procOut' = procOut /\ log' = log /\ owed' = owed
  <2>1. Handle(k) => procOut' = procOut /\ log' = log /\ owed' = owed
    BY DEF Handle, HandleSubscribe, HandleUnsubscribe, HandleSend, HandleAck, HandleNack,
           procVars, histVars
  <2>2. Internal(k) => procOut' = procOut /\ log' = log /\ owed' = owed
    BY DEF Internal, PutRequest, SendBack, Discard, DrainOne, DrainEnd, procVars, histVars
  <2>3. Leave(k) \/ WriteFail(k) => procOut' = procOut /\ log' = log /\ owed' = owed
    BY DEF Leave, WriteFail, procVars, histVars
  <2> QED
    BY <2>1, <2>2, <2>3
<1>2. \A s \in Subs : attr[s] # NoAttr => attr'[s] = attr[s]
  <2>1. CASE HandleSubscribe(k)
    <3>1. PICK s \in Subs, i \in Ids, d \in Dests, a \in AckModes :
            /\ attr[s] = NoAttr /\ subs[k][i] = None
            /\ attr' = [attr EXCEPT ![s] = [conn |-> k, id |-> i, dest |-> d, ack |-> a]]
            /\ subs' = [subs EXCEPT ![k][i] = s]
            /\ out' = [out EXCEPT ![k] = <<SubscribeReq(s)>>]
      BY <2>1 DEF HandleSubscribe
    <3>2. \A t \in Subs : t # s => attr'[t] = attr[t]
      BY <3>1 DEF ObjInv, TypeOK
    <3> QED
      BY <3>1, <3>2
  <2>2. CASE ~HandleSubscribe(k)
    <3>1. Handle(k) => attr' = attr
      BY <2>2 DEF Handle, HandleUnsubscribe, HandleSend, HandleAck, HandleNack, subVars
    <3>2. Internal(k) => attr' = attr
      BY DEF Internal, PutRequest, SendBack, Discard, DrainOne, DrainEnd, subVars
    <3>3. Leave(k) \/ WriteFail(k) => attr' = attr
      BY DEF Leave, WriteFail
    <3> QED
      BY <3>1, <3>2, <3>3
  <2> QED
    BY <2>1, <2>2
<1>3. /\ \A h \in Conns : phase'[h] = "run" => phase[h] = "run"
      /\ \A h \in Conns : writeCh'[h] = writeCh[h] \/ (writeCh'[h] = <<>> /\ phase'[h] # "run")
  <2>1. CASE Handle(k)
    BY <2>1 DEF Handle, HandleSubscribe, HandleUnsubscribe, HandleSend, HandleAck, HandleNack
  <2>2. CASE PutRequest(k) \/ SendBack(k) \/ DrainOne(k)
    BY <2>2 DEF PutRequest, SendBack, DrainOne
  <2>3. CASE DrainEnd(k)
    BY <2>3 DEF DrainEnd, ObjInv, TypeOK
  <2>4. CASE Discard(k)
    BY <2>4 DEF Discard, ObjInv, TypeOK
  <2>5. CASE Leave(k) \/ WriteFail(k)
    BY <2>5 DEF Leave, WriteFail, CleanupConn, Running, ObjInv, TypeOK
  <2> QED
    BY <2>1, <2>2, <2>3, <2>4, <2>5 DEF Internal
<1>4. \A c : Alike(procOut', procOut, c) /\ \A h \in Conns : Alike(log'[h], log[h], c)
  BY <1>1 DEF Alike
<1>5. \A s \in Subs : owed'[s] \subseteq owed[s]
  BY <1>1
<1> QED
  BY <1>2, <1>3, <1>4, <1>5, TopicSame

\* ... those that write a queue message,
LEMMA TopicWrites ==
  ASSUME ObjInv, TraceInv, OwedInv, NEW k \in Conns,
         \A m \in Msgs : Unheard(m)' => Unheard(m),
         \A m \in Msgs : dest'[m] = dest[m] \/ dest[m] = None,
         WriteAuto(k) \/ WriteForAck(k)
  PROVE  TraceInv' /\ OwedInv'
<1>1. UNCHANGED <<procOut, owed, attr, phase, writeCh>> /\ subCh[k] # <<>>
  BY DEF WriteAuto, WriteForAck, procVars, histVars
<1>2. PICK s : s = Head(subCh[k]) /\ Written(k, s, frame[s])
  BY DEF WriteAuto, WriteForAck
<1>3. s \in Subs /\ frame[s] \in Msgs /\ ToQueues(frame[s])
  BY <1>1, <1>2, HeadOfSub DEF ObjInv
<1>4. PICK y \in Deliveries : y = [sub |-> s, msg |-> frame[s]]
  BY <1>3 DEF Deliveries
<1>5. PICK l \in Seq(Deliveries) : l = log[k]
  BY DEF ObjInv, TypeOK
<1>6. log'[k] = Append(l, y) /\ \A h \in Conns : h # k => log'[h] = log[h]
  BY <1>2, <1>4, <1>5 DEF Written, ObjInv, TypeOK
<1>7. \A c \in Deliveries : dest[c.msg] \notin Queues => c # y
  BY <1>3, <1>4 DEF ToQueues
<1>8. ASSUME NEW c \in Deliveries, c # y PROVE Alike(log'[k], log[k], c)
  <2>1. (Occ(Append(l, y), c) <=> Occ(l, c) \/ c = y) /\ (Once(l, c) => Once(Append(l, y), c))
    BY <1>8, OccJoin
  <2> QED
    BY <1>5, <1>6, <1>8, <2>1 DEF Alike
<1>9. \A c, h : h \in Conns /\ h # k => Alike(log'[h], log[h], c)
  BY <1>6 DEF Alike
<1>10. \A c : Alike(procOut', procOut, c)
  BY <1>1 DEF Alike
<1>11. \A c \in Deliveries : dest[c.msg] \notin Queues =>
         Alike(procOut', procOut, c) /\ \A h \in Conns : Alike(log'[h], log[h], c)
  BY <1>7, <1>8, <1>9, <1>10
<1> QED
  BY <1>1, <1>11, TopicSame

\* ... the requests that concern no topic message,
LEMMA TopicServe ==
  ASSUME ObjInv, TraceInv, OwedInv,
         \A m \in Msgs : Unheard(m)' => Unheard(m),
         \A m \in Msgs : dest'[m] = dest[m] \/ dest[m] = None,
         \/ ServeSubscribe \/ ServeUnsubscribe \/ ServeEnqueueQueue \/ ServeRequeue \/ ServeOther
  PROVE  TraceInv' /\ OwedInv'
<1>1. UNCHANGED <<log, attr, phase, writeCh>>
  BY DEF ServeSubscribe, ServeUnsubscribe, ServeEnqueueQueue, ServeRequeue, ServeOther,
         connVars, subVars
<1>2. \A s \in Subs : owed'[s] \subseteq owed[s]
  <2>1. CASE ServeUnsubscribe
    <3>1. owed' = owed \/ \E s : owed' = [owed EXCEPT ![s] = {}]
      BY <2>1 DEF ServeUnsubscribe
    <3> QED
      BY <3>1 DEF ObjInv, TypeOK
  <2>2. CASE ~ServeUnsubscribe
    <3>1. owed' = owed
      BY <2>2 DEF ServeSubscribe, ServeEnqueueQueue, ServeRequeue, ServeOther, histVars
    <3> QED
      BY <3>1
  <2> QED
    BY <2>1, <2>2
<1>3. \/ procOut' = procOut
      \/ procOut = <<>> /\ \E x, n : procOut' = <<[sub |-> x, msg |-> n]>> /\ dest[n] \in Queues
  <2>1. CASE ServeSubscribe
    <3>1. \/ procOut' = procOut
          \/ LET s == Head(requestCh).sub
                 d == attr[s].dest
             IN  /\ d \in Queues /\ storage[d] # <<>>
                 /\ procOut' = <<[sub |-> s, msg |-> Head(storage[d])]>>
      BY <2>1 DEF ServeSubscribe
    <3>2. procOut = <<>>
      BY <2>1 DEF ServeSubscribe, Serve
    <3>3. ASSUME NEW d \in Queues, storage[d] # <<>> PROVE dest[Head(storage[d])] \in Queues
      <4>1. PICK l \in Seq(Msgs) : l = storage[d]
        BY DEF ObjInv, TypeOK
      <4>2. Head(l) = l[1] /\ 1 \in 1 .. Len(l)
        BY <3>3, <4>1, HeadFacts
      <4> QED
        BY <4>1, <4>2 DEF ObjInv, Homes, HomeStore
    <3> QED
      BY <3>1, <3>2, <3>3
  <2>2. CASE ServeUnsubscribe \/ ServeOther
    BY <2>2 DEF ServeUnsubscribe, ServeOther
  <2>3. ASSUME NEW m, NEW l, ToQueue(m, l), procOut = <<>>, dest[m] \in Queues
        PROVE  \/ procOut' = procOut
               \/ procOut = <<>> /\ \E x, n : procOut' = <<[sub |-> x, msg |-> n]>> /\ dest[n] \in Queues
    BY <2>3 DEF ToQueue
  <2>4. CASE ServeEnqueueQueue
    BY <2>3, <2>4 DEF ServeEnqueueQueue, Serve
  <2>5. CASE ServeRequeue
    <3>1. Serve("Requeue") /\ attr' = attr /\ dest' = dest
      BY <2>5 DEF ServeRequeue, histVars
    <3>2. Head(requestCh).op = "Requeue" /\ GoodReq(Head(requestCh)) /\ procOut = <<>>
      BY <3>1, ServeFacts
    <3>3. dest[Head(requestCh).msg] \in Queues
      BY <3>2 DEF GoodReq, ToQueues
    <3> QED
      BY <2>3, <2>5, <3>2, <3>3 DEF ServeRequeue
  <2> QED
    BY <2>1, <2>2, <2>4, <2>5
<1>4. \A c : dest[c.msg] \notin Queues => Alike(procOut', procOut, c)
  <2>1. CASE procOut' = procOut
    BY <2>1 DEF Alike
  <2>2. CASE procOut' # procOut
    <3>1. PICK x, n : procOut = <<>> /\ procOut' = <<[sub |-> x, msg |-> n]>> /\ dest[n] \in Queues
      BY <1>3, <2>2
    <3>2. PICK y : y = [sub |-> x, msg |-> n]
      OBVIOUS
    <3>3. y.msg = n
      BY <3>2
    <3>4. \A c : dest[c.msg] \notin Queues => c # y
      BY <3>1, <3>3
    <3>5. \A c : c # y => ~Occ(procOut, c) /\ ~Occ(procOut', c) /\ Once(procOut', c)
      BY <3>1, <3>2, OccFew
    <3> QED
      BY <3>4, <3>5 DEF Alike
  <2> QED
    BY <2>1, <2>2
<1>5. \A c : \A h \in Conns : Alike(log'[h], log[h], c)
  BY <1>1 DEF Alike
<1> QED
  BY <1>1, <1>2, <1>4, <1>5, TopicSame

\* The first element of one list goes to the end of another.
LEMMA OccMoves ==
  ASSUME NEW S, NEW l \in Seq(S), NEW g \in Seq(S), l # <<>>, NEW x, NEW y, y = Head(l)
  PROVE  /\ Occ(Tail(l), x) => Occ(l, x)
         /\ Occ(Append(g, y), x) => Occ(g, x) \/ Occ(l, x)
         /\ Once(l, x) /\ Once(g, x) /\ ~(Occ(l, x) /\ Occ(g, x)) =>
              /\ Once(Tail(l), x) /\ Once(Append(g, y), x)
              /\ ~(Occ(Tail(l), x) /\ Occ(Append(g, y), x))
              /\ Occ(Tail(l), x) \/ Occ(Append(g, y), x) <=> Occ(l, x) \/ Occ(g, x)
<1>1. Occ(Tail(l), x) => Occ(l, x)
  BY OccRest
<1>2. Occ(l, y) /\ y \in S
  BY OccRest, HeadFacts
<1>3. /\ Occ(Append(g, y), x) <=> Occ(g, x) \/ x = y
      /\ Once(g, x) /\ (x = y => ~Occ(g, x)) => Once(Append(g, y), x)
  <2>1. PICK z \in S : z = y
    BY <1>2
  <2>2. Occ(Append(g, z), x) <=> Occ(g, x) \/ x = z
    BY OccJoin
  <2>3. Once(g, x) /\ (x = z => ~Occ(g, x)) => Once(Append(g, z), x)
    BY OccJoin
  <2> QED
    BY <2>1, <2>2, <2>3
<1>4. Once(l, x) => Once(Tail(l), x) /\ (Occ(Tail(l), x) <=> Occ(l, x) /\ x # y)
  BY OccTail
<1> QED
  BY <1>1, <1>2, <1>3, <1>4

\* ... a topic message that is written,
LEMMA TopicWrite ==
  ASSUME ObjInv, TraceInv, OwedInv, NEW k \in Conns,
         \A m \in Msgs : Unheard(m)' => Unheard(m),
         WriteTopic(k)
  PROVE  TraceInv' /\ OwedInv'
<1>1. UNCHANGED <<procOut, owed, attr, phase, dest>> /\ writeCh[k] # <<>>
  BY DEF WriteTopic, procVars, subVars, histVars
<1>2. PICK l \in Seq(Deliveries) : l = writeCh[k]
  BY DEF ObjInv, TypeOK
<1>3. PICK g \in Seq(Deliveries) : g = log[k]
  BY DEF ObjInv, TypeOK
<1>4. PICK y \in Deliveries : y = Head(l)
  BY <1>1, <1>2, HeadFacts
<1>5. y = [sub |-> y.sub, msg |-> y.msg]
  BY DEF Deliveries
<1>6. log' = [log EXCEPT ![k] = Append(@, [sub |-> y.sub, msg |-> y.msg])]
  BY <1>2, <1>4 DEF WriteTopic, Written
<1>7. /\ log'[k] = Append(g, y) /\ \A h \in Conns : h # k => log'[h] = log[h]
      /\ writeCh'[k] = Tail(l) /\ \A h \in Conns : h # k => writeCh'[h] = writeCh[h]
  <2>1. log'[k] = Append(g, y) /\ \A h \in Conns : h # k => log'[h] = log[h]
    BY <1>3, <1>5, <1>6 DEF ObjInv, TypeOK
  <2>2. writeCh'[k] = Tail(l) /\ \A h \in Conns : h # k => writeCh'[h] = writeCh[h]
    BY <1>2 DEF WriteTopic, ObjInv, TypeOK
  <2> QED
    BY <2>1, <2>2
<1>8. ASSUME NEW c
      PROVE  /\ Occ(Tail(l), c) => Occ(l, c)
             /\ Occ(Append(g, y), c) => Occ(g, c) \/ Occ(l, c)
             /\ Once(l, c) /\ Once(g, c) /\ ~(Occ(l, c) /\ Occ(g, c)) =>
                  /\ Once(Tail(l), c) /\ Once(Append(g, y), c)
                  /\ ~(Occ(Tail(l), c) /\ Occ(Append(g, y), c))
                  /\ Occ(Tail(l), c) \/ Occ(Append(g, y), c) <=> Occ(l, c) \/ Occ(g, c)
  BY <1>1, <1>2, <1>4, OccMoves
<1>9. ASSUME NEW c \in Deliveries, Seen(c)' PROVE Seen(c)
  <2>1. CASE Occ(procOut', c)
    BY <1>1, <2>1 DEF Seen
  <2>2. ASSUME NEW h \in Conns, Occ(writeCh'[h], c) \/ Occ(log'[h], c) PROVE Seen(c)
    <3>1. CASE h = k
      BY <1>2, <1>3, <1>7, <1>8, <2>2, <3>1 DEF Seen
    <3>2. CASE h # k
      BY <1>7, <2>2, <3>2 DEF Seen
    <3> QED
      BY <3>1, <3>2
  <2> QED
    BY <1>9, <2>1, <2>2 DEF Seen
<1>10. ASSUME NEW c \in Deliveries, NEW h \in Conns, Told(c, h) PROVE Told(c, h)'
  <2>1. CASE h = k
    BY <1>1, <1>2, <1>3, <1>7, <1>8, <1>10, <2>1 DEF Told
  <2>2. CASE h # k
    BY <1>1, <1>7, <1>10, <2>2 DEF Told
  <2> QED
    BY <2>1, <2>2
<1> QED
  BY <1>1, <1>9, <1>10, TopicKeeps

\* ... and one that the processor sends to a connection.
LEMMA TopicSends ==
  ASSUME ObjInv, TraceInv, OwedInv,
         \A m \in Msgs : Unheard(m)' => Unheard(m),
         ProcSend
  PROVE  TraceInv' /\ OwedInv'
<1>1. UNCHANGED <<log, owed, attr, phase, dest>> /\ procOut # <<>> /\ procOut' = Tail(procOut)
  BY DEF ProcSend, subVars, histVars
<1>2. PICK l \in Seq(Deliveries) : l = procOut
  BY DEF ObjInv, TypeOK
<1>3. PICK y \in Deliveries : y = Head(l)
  BY <1>1, <1>2, HeadFacts
<1>4. CASE dest[y.msg] \in Queues
  <2>1. writeCh' = writeCh
    BY <1>2, <1>3, <1>4, TopicNot DEF ProcSend
  <2>2. ASSUME NEW c \in Deliveries, dest[c.msg] \notin Queues PROVE Alike(procOut', procOut, c)
    <3>1. c # Head(l)
      BY <1>3, <1>4, <2>2
    <3>2. Occ(Tail(l), c) <=> Occ(l, c)
      BY <1>1, <1>2, <3>1, OccRest
    <3>3. Once(l, c) => Once(Tail(l), c)
      BY <1>1, <1>2, OccTail
    <3> QED
      BY <1>1, <1>2, <3>2, <3>3 DEF Alike
  <2>3. \A c : \A h \in Conns : Alike(log'[h], log[h], c)
    BY <1>1 DEF Alike
  <2> QED
    BY <1>1, <2>1, <2>2, <2>3, TopicSame
<1>5. CASE dest[y.msg] \notin Queues
  <2>1. PICK k : k = attr[y.sub].conn
    OBVIOUS
  <2>2. writeCh' = [writeCh EXCEPT ![k] = Append(@, y)]
    BY <1>2, <1>3, <1>5, <2>1 DEF ProcSend
  <2>3. k \in Conns
    <3>1. l[1] = y /\ 1 \in 1 .. Len(l)
      BY <1>1, <1>2, <1>3, HeadFacts
    <3>2. attr[y.sub] # NoAttr
      BY <1>2, <3>1 DEF ObjInv, Homes, HomeProc
    <3>3. y.sub \in Subs
      BY DEF Deliveries
    <3> QED
      BY <2>1, <3>2, <3>3 DEF ObjInv, TypeOK
  <2>4. PICK g \in Seq(Deliveries) : g = writeCh[k]
    BY <2>3 DEF ObjInv, TypeOK
  <2>5. writeCh'[k] = Append(g, y) /\ \A h \in Conns : h # k => writeCh'[h] = writeCh[h]
    BY <2>2, <2>3, <2>4 DEF ObjInv, TypeOK
  <2>6. ASSUME NEW c
        PROVE  /\ Occ(Tail(l), c) => Occ(l, c)
               /\ Occ(Append(g, y), c) => Occ(g, c) \/ Occ(l, c)
               /\ Once(l, c) /\ Once(g, c) /\ ~(Occ(l, c) /\ Occ(g, c)) =>
                    /\ Once(Tail(l), c) /\ Once(Append(g, y), c)
                    /\ ~(Occ(Tail(l), c) /\ Occ(Append(g, y), c))
                    /\ Occ(Tail(l), c) \/ Occ(Append(g, y), c) <=> Occ(l, c) \/ Occ(g, c)
    BY <1>1, <1>2, <1>3, OccMoves
  <2>7. ASSUME NEW c \in Deliveries, Seen(c)' PROVE Seen(c)
    <3>1. CASE Occ(procOut', c)
      BY <1>1, <1>2, <2>6, <3>1 DEF Seen
    <3>2. ASSUME NEW h \in Conns, Occ(writeCh'[h], c) \/ Occ(log'[h], c) PROVE Seen(c)
      <4>1. CASE h = k
        BY <1>1, <1>2, <2>3, <2>4, <2>5, <2>6, <3>2, <4>1 DEF Seen
      <4>2. CASE h # k
        BY <1>1, <2>5, <3>2, <4>2 DEF Seen
      <4> QED
        BY <4>1, <4>2
    <3> QED
      BY <2>7, <3>1, <3>2 DEF Seen
  <2>8. ASSUME NEW c \in Deliveries, NEW h \in Conns, attr[c.sub].conn = h, Told(c, h)
        PROVE  Told(c, h)'
    <3>1. CASE h = k
      BY <1>1, <1>2, <2>4, <2>5, <2>6, <2>8, <3>1 DEF Told
    <3>2. CASE h # k
      <4>1. c # Head(l)
        BY <1>3, <2>1, <2>8, <3>2
      <4>2. Occ(Tail(l), c) <=> Occ(l, c)
        BY <1>1, <1>2, <4>1, OccRest
      <4>3. Once(l, c) => Once(Tail(l), c)
        BY <1>1, <1>2, OccTail
      <4> QED
        BY <1>1, <1>2, <2>5, <2>8, <3>2, <4>2, <4>3 DEF Told
    <3> QED
      BY <3>1, <3>2
  <2> QED
    BY <1>1, <2>7, <2>8, TopicKeeps
<1> QED
  BY <1>4, <1>5

\* The processor makes one copy for every subscription that is listed.
LEMMA TopicPosts ==
  ASSUME ObjInv, PostInv, TraceInv, OwedInv,
         \A m \in Msgs : Unheard(m)' => Unheard(m),
         ServeEnqueueTopic
  PROVE  TraceInv' /\ OwedInv'
<1>1. /\ UNCHANGED <<log, attr, phase, writeCh, dest>> /\ Serve("Enqueue") /\ procOut = <<>>
  BY DEF ServeEnqueueTopic, Serve, connVars, subVars
<1>2. PICK r \in Requests : r = Head(requestCh) /\ r.op = "Enqueue"
  BY <1>1, ServeFacts
<1>3. PICK m \in Msgs : m = r.msg /\ r = EnqueueReq(m)
  BY <1>2 DEF Requests, EnqueueReq
<1>4. PICK d \in Topics : d = dest[m] /\ d \in Dests
  BY <1>2, <1>3 DEF ServeEnqueueTopic, Dests
<1>5. PICK l \in Seq(Subs) : l = waiting[d] /\ Len(l) \in Nat /\ DOMAIN l = 1 .. Len(l)
  BY <1>4 DEF ObjInv, TypeOK
<1>6. /\ procOut' = [i \in 1 .. Len(l) |-> [sub |-> l[i], msg |-> m]]
      /\ owed' = [s \in Subs |-> IF \E i \in 1 .. Len(l) : l[i] = s
                                 THEN owed[s] \cup {m} ELSE owed[s]]
  BY <1>2, <1>3, <1>4, <1>5 DEF ServeEnqueueTopic
<1>7. Posted(m) /\ ~Posted(m)'
  <2>1. ~ProcSend /\ Proc
    BY <1>1 DEF Proc, ProcSend
  <2> QED
    BY <1>2, <1>3, <1>4, <2>1, PostServe
<1>8. NoTrace(m) /\ ~Unheard(m)'
  BY <1>1, <1>4, <1>7, TopicNot DEF TraceInv, Unheard
<1>9. PICK p : p = procOut'
  OBVIOUS
<1>10. Len(p) = Len(l) /\ \A i \in 1 .. Len(l) : p[i] = [sub |-> l[i], msg |-> m]
  BY <1>5, <1>6, <1>9
<1>11. ASSUME NEW c, c.msg # m PROVE ~Occ(p, c) /\ Once(p, c)
  <2>1. \A z : [sub |-> z, msg |-> m].msg = m
    OBVIOUS
  <2>2. \A i \in 1 .. Len(l) : p[i] # c
    BY <1>10, <1>11, <2>1
  <2> QED
    BY <1>10, <2>2 DEF Occ, Once
<1>12. ASSUME NEW n \in Msgs, Unheard(n)' PROVE NoTrace(n)'
  <2>1. n # m /\ NoTrace(n)
    BY <1>8, <1>12 DEF TraceInv
  <2>2. \A s \in Subs : n \notin owed'[s]
    BY <1>6, <2>1 DEF NoTrace
  <2>3. ASSUME NEW c \in Deliveries, c.msg = n PROVE ~Seen(c)'
    <3>1. ~Occ(procOut', c) /\ ~Seen(c)
      BY <1>9, <1>11, <2>1, <2>3 DEF NoTrace
    <3> QED
      BY <1>1, <3>1 DEF Seen
  <2> QED
    BY <2>2, <2>3 DEF NoTrace
<1>13. ASSUME NEW c \in Deliveries, c.msg \in owed'[c.sub]
       PROVE  (/\ attr[c.sub] # NoAttr /\ dest[c.msg] \in Topics
               /\ phase[attr[c.sub].conn] = "run" => Told(c, attr[c.sub].conn))'
  <2>1. c.sub \in Subs /\ c.msg \in Msgs /\ c = [sub |-> c.sub, msg |-> c.msg]
    BY DEF Deliveries
  <2>2. CASE c.msg # m
    <3>1. c.msg \in owed[c.sub]
      BY <1>6, <1>13, <2>1, <2>2
    <3>2. /\ attr[c.sub] # NoAttr /\ dest[c.msg] \in Topics
          /\ phase[attr[c.sub].conn] = "run" => Told(c, attr[c.sub].conn)
      BY <3>1 DEF OwedInv
    <3>3. ~Occ(procOut, c) /\ ~Occ(procOut', c) /\ Once(procOut', c)
      BY <1>1, <1>9, <1>11, <2>2, OccFew
    <3> QED
      BY <1>1, <3>2, <3>3 DEF Told
  <2>3. CASE c.msg = m
    <3>1. PICK i \in 1 .. Len(l) : l[i] = c.sub
      BY <1>6, <1>8, <1>13, <2>1, <2>3 DEF NoTrace
    <3>2. attr[c.sub].dest = d
      BY <1>4, <1>5, <3>1 DEF ObjInv, Homes, HomeWait
    <3>3. attr[c.sub] # NoAttr
      BY <1>4, <3>2, NoneAssumption DEF NoAttr
    <3>4. PICK k \in Conns : k = attr[c.sub].conn
      BY <2>1, <3>3 DEF ObjInv, TypeOK
    <3>5. Occ(p, c)
      BY <1>10, <2>1, <2>3, <3>1 DEF Occ
    <3>6. Once(p, c)
      <4>1. ASSUME NEW u \in 1 .. Len(l), NEW v \in 1 .. Len(l), p[u] = c, p[v] = c PROVE u = v
        <5>1. l[u] = c.sub /\ l[v] = c.sub
          <6>1. p[u] = [sub |-> l[u], msg |-> m] /\ p[v] = [sub |-> l[v], msg |-> m]
            BY <1>10
          <6>2. [sub |-> l[u], msg |-> m].sub = l[u] /\ [sub |-> l[v], msg |-> m].sub = l[v]
            OBVIOUS
          <6> QED
            BY <4>1, <6>1, <6>2
        <5> QED
          BY <1>4, <1>5, <2>1, <5>1, WaitOnce DEF ObjInv
      <4> QED
        BY <1>10, <4>1 DEF Once
    <3>7. ~Seen(c)
      BY <1>8, <2>3 DEF NoTrace
    <3>8. ~Occ(writeCh[k], c) /\ ~Occ(log[k], c)
      BY <3>7 DEF Seen
    <3>9. Once(writeCh[k], c) /\ Once(log[k], c)
      BY <3>8 DEF Occ, Once
    <3>10. Told(c, k)'
      BY <1>1, <1>9, <3>5, <3>6, <3>8, <3>9 DEF Told
    <3> QED
      BY <1>1, <1>4, <2>3, <3>3, <3>4, <3>10 DEF Told
  <2> QED
    BY <2>2, <2>3
<1> QED
  BY <1>12, <1>13 DEF TraceInv, OwedInv

\* TopicInv is inductive.
LEMMA NextTopic == ObjInv /\ MsgInv /\ TopicInv /\ [Next]_vars => TopicInv'
<1> SUFFICES ASSUME ObjInv, MsgInv, TopicInv, [Next]_vars PROVE TopicInv'
  OBVIOUS
<1>1. PostInv /\ TraceInv /\ OwedInv
  BY DEF TopicInv
<1>2. PostInv' /\ \A m \in Msgs : Unheard(m)' => Unheard(m)
  BY <1>1, PostStep
<1>3. \A m \in Msgs : dest'[m] = dest[m] \/ dest[m] = None
  BY DestStep
<1>4. ASSUME NEW k \in Conns,
             Handle(k) \/ WriteOut(k) \/ Internal(k) \/ Leave(k) \/ WriteFail(k)
      PROVE  TraceInv' /\ OwedInv'
  <2>1. CASE Handle(k) \/ Internal(k) \/ Leave(k) \/ WriteFail(k)
    BY <1>1, <1>2, <1>3, <2>1, TopicQuiet
  <2>2. CASE WriteAuto(k) \/ WriteForAck(k)
    BY <1>1, <1>2, <1>3, <2>2, TopicWrites
  <2>3. CASE WriteTopic(k)
    BY <1>1, <1>2, <2>3, TopicWrite
  <2> QED
    BY <1>4, <2>1, <2>2, <2>3 DEF WriteOut
<1>5. ASSUME Proc PROVE TraceInv' /\ OwedInv'
  <2>1. CASE ServeEnqueueTopic
    BY <1>1, <1>2, <2>1, TopicPosts
  <2>2. CASE ProcSend
    BY <1>1, <1>2, <2>2, TopicSends
  <2>3. CASE ~ServeEnqueueTopic /\ ~ProcSend
    BY <1>1, <1>2, <1>3, <1>5, <2>3, TopicServe DEF Proc
  <2> QED
    BY <2>1, <2>2, <2>3
<1>6. ASSUME UNCHANGED vars PROVE TraceInv' /\ OwedInv'
  <2>1. UNCHANGED <<procOut, log, owed, attr, phase, writeCh>>
    BY <1>6 DEF vars, connVars, subVars, procVars, histVars
  <2>2. \A c : Alike(procOut', procOut, c) /\ \A k \in Conns : Alike(log'[k], log[k], c)
    BY <2>1 DEF Alike
  <2> QED
    BY <1>1, <1>2, <1>3, <2>1, <2>2, TopicSame
<1> QED
  BY <1>2, <1>4, <1>5, <1>6 DEF Next, TopicInv

\* Nothing has been sent at the start.
LEMMA InitTopic == Init => TopicInv
<1> SUFFICES ASSUME Init PROVE TopicInv
  OBVIOUS
<1>1. /\ \A m \in Msgs : dest[m] = None
      /\ procOut = <<>> /\ \A k \in Conns : writeCh[k] = <<>> /\ log[k] = <<>>
      /\ \A s \in Subs : owed[s] = {}
  BY DEF Init
<1>2. \A c : ~Seen(c)
  BY <1>1, OccFew DEF Seen
<1>3. PostInv
  BY <1>1, TopicNot DEF PostInv
<1>4. TraceInv
  BY <1>1, <1>2 DEF TraceInv, NoTrace
<1>5. OwedInv
  BY <1>1 DEF OwedInv, Deliveries
<1> QED
  BY <1>3, <1>4, <1>5 DEF TopicInv

\* The processor copies a topic message to every subscription that is listed
\* when it serves the SEND, and each copy is with the processor, in writeChannel
\* or written, in exactly one place and once, as long as the connection runs.
THEOREM TopicExactlyOnceHolds == Spec => []TopicExactlyOnce
<1>1. ObjInv /\ TopicInv => TopicExactlyOnce
  <2> SUFFICES ASSUME ObjInv, TopicInv, NEW s \in Subs, NEW m \in owed[s],
                      phase[attr[s].conn] = "run"
               PROVE  Cardinality(Copies(s, m)) = 1
    BY DEF TopicExactlyOnce
  <2>1. m \in Msgs
    BY DEF ObjInv, TypeOK
  <2>2. PICK c \in Deliveries : c = [sub |-> s, msg |-> m]
    BY <2>1 DEF Deliveries
  <2>3. c.sub = s /\ c.msg = m
    BY <2>2
  <2>4. PICK k : k = attr[s].conn
    OBVIOUS
  <2>5. attr[s] # NoAttr /\ Told(c, k)
    BY <2>3, <2>4 DEF TopicInv, OwedInv
  <2>6. k \in Conns
    BY <2>4, <2>5 DEF ObjInv, TypeOK
  <2>7. PICK p \in Seq(Deliveries) : p = procOut
    BY DEF ObjInv, TypeOK
  <2>8. PICK w \in Seq(Deliveries) : w = writeCh[k]
    BY <2>6 DEF ObjInv, TypeOK
  <2>9. PICK g \in Seq(Deliveries) : g = log[k]
    BY <2>6 DEF ObjInv, TypeOK
  <2>10. Copies(s, m) = ({"proc"} \X {i \in 1 .. Len(p) : p[i] = c})
                          \cup ({"writeCh"} \X {i \in 1 .. Len(w) : w[i] = c})
                          \cup ({"log"} \X {i \in 1 .. Len(g) : g[i] = c})
    BY <2>2, <2>4, <2>7, <2>8, <2>9 DEF Copies, At
  <2>11. /\ Once(p, c) /\ Once(w, c) /\ Once(g, c)
         /\ \/ Occ(p, c) /\ ~Occ(w, c) /\ ~Occ(g, c)
            \/ ~Occ(p, c) /\ Occ(w, c) /\ ~Occ(g, c)
            \/ ~Occ(p, c) /\ ~Occ(w, c) /\ Occ(g, c)
    BY <2>5, <2>7, <2>8, <2>9 DEF Told
  <2>12. \A l : ~Occ(l, c) => {i \in 1 .. Len(l) : l[i] = c} = {}
    BY DEF Occ
  <2>13. ASSUME NEW l, Once(l, c), Occ(l, c)
         PROVE  \E i : {j \in 1 .. Len(l) : l[j] = c} = {i}
    <3>1. PICK i \in 1 .. Len(l) : l[i] = c
      BY <2>13 DEF Occ
    <3>2. \A j \in 1 .. Len(l) : l[j] = c => j = i
      BY <2>13, <3>1 DEF Once
    <3>3. {j \in 1 .. Len(l) : l[j] = c} = {i}
      BY <3>1, <3>2
    <3> QED
      BY <3>3
  <2>14. PICK P, W, G : /\ P = {i \in 1 .. Len(p) : p[i] = c}
                        /\ W = {i \in 1 .. Len(w) : w[i] = c}
                        /\ G = {i \in 1 .. Len(g) : g[i] = c}
    OBVIOUS
  <2>15. Copies(s, m) = ({"proc"} \X P) \cup ({"writeCh"} \X W) \cup ({"log"} \X G)
    BY <2>10, <2>14
  <2>16. \E i : \/ P = {i} /\ W = {} /\ G = {}
                \/ P = {} /\ W = {i} /\ G = {}
                \/ P = {} /\ W = {} /\ G = {i}
    BY <2>11, <2>12, <2>13, <2>14
  <2>17. \E z : Copies(s, m) = {z}
    <3>1. PICK i : \/ P = {i} /\ W = {} /\ G = {}
                   \/ P = {} /\ W = {i} /\ G = {}
                   \/ P = {} /\ W = {} /\ G = {i}
      BY <2>16
    <3>2. /\ P = {i} /\ W = {} /\ G = {} => Copies(s, m) = {<<"proc", i>>}
          /\ P = {} /\ W = {i} /\ G = {} => Copies(s, m) = {<<"writeCh", i>>}
          /\ P = {} /\ W = {} /\ G = {i} => Copies(s, m) = {<<"log", i>>}
      BY <2>15
    <3> QED
      BY <3>1, <3>2
  <2>18. \A z : Cardinality({z}) = 1
    BY FS_Singleton, Zenon
  <2> QED
    BY <2>17, <2>18
<1>2. Init => TopicInv
  BY InitTopic
<1>3. ObjInv /\ MsgInv /\ TopicInv /\ [Next]_vars => TopicInv'
  BY NextTopic
<1> QED
  BY <1>1, <1>2, <1>3, MsgHolds, PTL DEF Spec
=============================================================================
