---------------------------- MODULE BrokerProofs ----------------------------
(***************************************************************************)
(* Proofs about the Subscription objects of Broker, for any sets of        *)
(* connections, objects, messages and destinations and any capacities.     *)
(***************************************************************************)
EXTENDS Broker, FiniteSetTheorems, SequenceTheorems, TLAPS

(***************************************************************************)
(* A Subscription object that is not new is in at most one place, from     *)
(* which it is handed on: the Subscribe request that its connection makes, *)
(* requestChannel, the list of its queue or topic, the processor with a    *)
(* frame for it, subChannel, or the list of those to be acknowledged.      *)
(* i is the position there.                                                *)
(***************************************************************************)
OutAt(i, s)  == /\ attr[s].conn \in Conns /\ i \in 1 .. Len(out[attr[s].conn])
                /\ out[attr[s].conn][i] = SubscribeReq(s)
ReqAt(i, s)  == i \in 1 .. Len(requestCh) /\ requestCh[i] = SubscribeReq(s)
WaitAt(i, s) == /\ attr[s].dest \in Dests /\ i \in 1 .. Len(waiting[attr[s].dest])
                /\ waiting[attr[s].dest][i] = s
ProcAt(i, s) == i \in 1 .. Len(procOut) /\ procOut[i].sub = s /\ ToQueues(procOut[i].msg)
SubAt(i, s)  == /\ attr[s].conn \in Conns /\ i \in 1 .. Len(subCh[attr[s].conn])
                /\ subCh[attr[s].conn][i] = s
ListAt(i, s) == /\ attr[s].conn \in Conns /\ i \in 1 .. Len(subList[attr[s].conn])
                /\ subList[attr[s].conn][i] = s

Free == {"out", "req", "wait"}      \* without a frame
Busy == {"proc", "sub", "list"}     \* with one
Places == Free \cup Busy
Place(c, i, s) ==
  \/ c = "out" /\ OutAt(i, s)
  \/ c = "req" /\ ReqAt(i, s)
  \/ c = "wait" /\ WaitAt(i, s)
  \/ c = "proc" /\ ProcAt(i, s)
  \/ c = "sub" /\ SubAt(i, s)
  \/ c = "list" /\ ListAt(i, s)
In(c, s)     == \E i \in Nat : Place(c, i, s)
Single(c, s) == \A i, j \in Nat : Place(c, i, s) /\ Place(c, j, s) => i = j
Unique(s) == /\ \A c, e \in Places : In(c, s) /\ In(e, s) => c = e
             /\ \A c \in Places : Single(c, s)
OnePlace == \A s \in Subs : Unique(s)

\* A request is about an object of the connection, or a message that was sent.
GoodReq(r) == /\ r.op \in {"Subscribe", "Unsubscribe"} => attr[r.sub] # NoAttr
              /\ r.op = "Enqueue" => dest[r.msg] \in Dests
              /\ r.op = "Requeue" => ToQueues(r.msg)
HomeSubs == /\ \A k \in Conns, i \in Ids : subs[k][i] # None =>
                 attr[subs[k][i]].conn = k /\ attr[subs[k][i]].id = i
            /\ \A k \in Conns : IsFiniteSet(Known(k))
HomeOut ==
  \A k \in Conns : \A i \in 1 .. Len(out[k]) :
    /\ GoodReq(out[k][i])
    /\ out[k][i].op \in {"Subscribe", "Unsubscribe"} => attr[out[k][i].sub].conn = k
HomeReq   == \A i \in 1 .. Len(requestCh) : GoodReq(requestCh[i])
HomeWait  == \A d \in Dests : \A i \in 1 .. Len(waiting[d]) : attr[waiting[d][i]].dest = d
HomeStore == \A q \in Queues : \A i \in 1 .. Len(storage[q]) : dest[storage[q][i]] = q
HomeProc  == \A i \in 1 .. Len(procOut) : /\ attr[procOut[i].sub] # NoAttr
                                          /\ attr[procOut[i].sub].dest = dest[procOut[i].msg]
HomeSub   == \A k \in Conns : \A i \in 1 .. Len(subCh[k]) : attr[subCh[k][i]].conn = k
HomeList  == \A k \in Conns : \A i \in 1 .. Len(subList[k]) :
               attr[subList[k][i]].conn = k /\ attr[subList[k][i]].ack # "auto"
Homes == /\ HomeSubs /\ HomeOut /\ HomeReq /\ HomeWait /\ HomeStore
         /\ HomeProc /\ HomeSub /\ HomeList

\* An object has a frame exactly where it is with one.
FramedAs(s) == /\ attr[s] = NoAttr => frame[s] = None
               /\ \A c \in Free : In(c, s) => frame[s] = None
               /\ \A c \in Busy : In(c, s) =>
                    /\ frame[s] \in Msgs /\ dest[frame[s]] = attr[s].dest
                    /\ attr[s].dest \in Queues
ProcFramed == \A i \in 1 .. Len(procOut) :
                ToQueues(procOut[i].msg) => frame[procOut[i].sub] = procOut[i].msg
Framed == ProcFramed /\ \A s \in Subs : FramedAs(s)

\* Subscription.subList of an auto subscription is set only in the list of a queue.
Listed ==
  \A s \in Subs : inList[s] =>
    /\ attr[s] # NoAttr
    /\ attr[s].ack = "auto" => attr[s].dest \in Queues /\ In("wait", s)

ObjInv == TypeOK /\ Homes /\ OnePlace /\ Framed /\ Listed
-----------------------------------------------------------------------------
\* The requests are requests.
LEMMA ReqTypes ==
  /\ \A s \in Subs : SubscribeReq(s) \in Requests /\ UnsubscribeReq(s) \in Requests
  /\ \A m \in Msgs : EnqueueReq(m) \in Requests /\ RequeueReq(m) \in Requests
  /\ DisconnectedReq \in Requests
BY DEF Requests, SubscribeReq, UnsubscribeReq, EnqueueReq, RequeueReq, DisconnectedReq

\* The form of a request.
LEMMA ReqForm ==
  ASSUME NEW r \in Requests
  PROVE  /\ r.op \in {"Subscribe", "Unsubscribe"} => r.sub \in Subs
         /\ r.op \in {"Enqueue", "Requeue"} => r.msg \in Msgs
         /\ r.op = "Subscribe" => r = SubscribeReq(r.sub)
         /\ r.op = "Unsubscribe" => r = UnsubscribeReq(r.sub)
BY DEF Requests, SubscribeReq, UnsubscribeReq

\* A function on 1 .. n is a sequence.
LEMMA FunSeq ==
  ASSUME NEW S, NEW n \in Nat, NEW f \in [1 .. n -> S]
  PROVE  f \in Seq(S) /\ Len(f) = n /\ DOMAIN f = 1 .. n
BY SeqDef

\* What a walk over a list finds.
LEMMA AscendingFacts ==
  ASSUME NEW l \in Seq(Subs), NEW I \in SUBSET (1 .. Len(l)), NEW f \in Ascending(I)
  PROVE  /\ Cardinality(I) \in Nat /\ DOMAIN f = 1 .. Cardinality(I)
         /\ Pick(l, f) \in Seq(Subs) /\ Len(Pick(l, f)) = Cardinality(I)
         /\ \A i \in 1 .. Cardinality(I) : f[i] \in I /\ Pick(l, f)[i] = l[f[i]]
         /\ \A i, j \in 1 .. Cardinality(I) : i # j => f[i] # f[j]
         /\ \A x \in I : \E i \in 1 .. Cardinality(I) : f[i] = x
<1>1. IsFiniteSet(I) /\ Cardinality(I) \in Nat
  <2>1. Len(l) \in Nat
    OBVIOUS
  <2>2. IsFiniteSet(1 .. Len(l))
    BY <2>1, FS_Interval
  <2>3. IsFiniteSet(I)
    BY <2>2, FS_Subset
  <2> QED
    BY <2>3, FS_CardinalityType
<1>2. PICK n \in Nat : n = Cardinality(I)
  BY <1>1
<1>3. /\ f \in [1 .. n -> I] /\ \A i, j \in 1 .. n : i < j => f[i] < f[j]
      /\ \A x \in I : \E i \in 1 .. n : f[i] = x
  <2>1. f \in [1 .. n -> I]
    BY <1>2 DEF Ascending
  <2>2. DOMAIN f = 1 .. n
    BY <2>1
  <2> QED
    BY <2>1, <2>2 DEF Ascending
<1>4. \A i, j \in 1 .. n : i # j => f[i] # f[j]
  <2>1. \A i \in 1 .. n : f[i] \in Nat
    <3>1. \A x \in I : x \in Nat
      OBVIOUS
    <3> QED
      BY <1>3, <3>1
  <2>2. \A i, j \in 1 .. n : i # j => i < j \/ j < i
    OBVIOUS
  <2> QED
    BY <1>3, <2>1, <2>2
<1>5. Pick(l, f) \in [1 .. n -> Subs] /\ \A i \in 1 .. n : Pick(l, f)[i] = l[f[i]]
  <2>1. \A i \in 1 .. n : f[i] \in 1 .. Len(l) /\ l[f[i]] \in Subs
    <3>1. \A x \in I : x \in 1 .. Len(l)
      OBVIOUS
    <3>2. \A x \in 1 .. Len(l) : l[x] \in Subs
      OBVIOUS
    <3>3. \A i \in 1 .. n : f[i] \in I
      BY <1>3
    <3> QED
      BY <3>1, <3>2, <3>3
  <2>2. DOMAIN f = 1 .. n
    BY <1>3
  <2> QED
    BY <2>1, <2>2 DEF Pick
<1> QED
  BY <1>2, <1>3, <1>4, <1>5, FunSeq, SMTT(30)

Elems(l) == {l[i] : i \in 1 .. Len(l)}
Distinct(l) == \A i, j \in 1 .. Len(l) : i # j => l[i] # l[j]

\* A list is split in two: those at I, and the others.
LEMMA Split ==
  ASSUME NEW l \in Seq(Subs), Distinct(l), NEW I \in SUBSET (1 .. Len(l)),
         NEW f \in Ascending(I), NEW g \in Ascending((1 .. Len(l)) \ I)
  PROVE  /\ Pick(l, f) \in Seq(Subs) /\ Pick(l, g) \in Seq(Subs)
         /\ Distinct(Pick(l, f)) /\ Distinct(Pick(l, g))
         /\ Elems(Pick(l, f)) = {l[i] : i \in I}
         /\ Elems(Pick(l, g)) = Elems(l) \ {l[i] : i \in I}
<1>1. ASSUME NEW J \in SUBSET (1 .. Len(l)), NEW h \in Ascending(J)
      PROVE  /\ Pick(l, h) \in Seq(Subs) /\ Distinct(Pick(l, h))
             /\ Elems(Pick(l, h)) = {l[i] : i \in J}
  <2>0. /\ Cardinality(J) \in Nat /\ Pick(l, h) \in Seq(Subs)
        /\ Len(Pick(l, h)) = Cardinality(J)
        /\ \A i \in 1 .. Cardinality(J) : h[i] \in J /\ Pick(l, h)[i] = l[h[i]]
        /\ \A i, j \in 1 .. Cardinality(J) : i # j => h[i] # h[j]
        /\ \A x \in J : \E i \in 1 .. Cardinality(J) : h[i] = x
    BY <1>1, AscendingFacts
  <2>1. PICK n \in Nat : n = Cardinality(J)
    BY <2>0
  <2>2. PICK p \in Seq(Subs) : p = Pick(l, h)
    BY <2>0
  <2>3. /\ Len(p) = n /\ \A i \in 1 .. n : h[i] \in J /\ p[i] = l[h[i]]
        /\ \A i, j \in 1 .. n : i # j => h[i] # h[j]
        /\ \A x \in J : \E i \in 1 .. n : h[i] = x
    BY <2>0, <2>1, <2>2
  <2>4. \A x \in J : x \in 1 .. Len(l)
    OBVIOUS
  <2>5. Distinct(p)
    <3> SUFFICES ASSUME NEW i \in 1 .. n, NEW j \in 1 .. n, i # j PROVE p[i] # p[j]
      BY <2>3 DEF Distinct
    <3>1. h[i] \in 1 .. Len(l) /\ h[j] \in 1 .. Len(l) /\ h[i] # h[j]
      BY <2>3, <2>4
    <3>2. l[h[i]] # l[h[j]]
      BY <3>1 DEF Distinct
    <3>3. p[i] = l[h[i]] /\ p[j] = l[h[j]]
      BY <2>3
    <3> QED
      BY <3>2, <3>3
  <2>6. Elems(p) = {l[i] : i \in J}
    <3>1. \A x \in J : \E i \in 1 .. Len(p) : p[i] = l[x]
      BY <2>3
    <3>2. \A i \in 1 .. Len(p) : \E x \in J : p[i] = l[x]
      BY <2>3
    <3>3. ASSUME NEW y \in Elems(p) PROVE y \in {l[i] : i \in J}
      BY <3>2 DEF Elems
    <3>4. ASSUME NEW y \in {l[i] : i \in J} PROVE y \in Elems(p)
      BY <3>1 DEF Elems
    <3> QED
      BY <3>3, <3>4
  <2> QED
    BY <2>2, <2>5, <2>6
<1>2. {l[i] : i \in (1 .. Len(l)) \ I} = Elems(l) \ {l[i] : i \in I}
  <2>1. \A i \in 1 .. Len(l), j \in I : l[i] = l[j] => i = j
    <3>1. \A j \in I : j \in 1 .. Len(l)
      OBVIOUS
    <3> QED
      BY <3>1 DEF Distinct
  <2> QED
    BY <2>1 DEF Elems
<1> QED
  BY <1>1, <1>2

\* The requests of an ACK.
LEMMA AckReqsFacts ==
  ASSUME NEW ss \in Seq(Subs)
  PROVE  /\ AckReqs(ss) \in Seq(Requests) /\ Len(AckReqs(ss)) = Len(ss)
         /\ \A j \in 1 .. Len(ss) : AckReqs(ss)[j] = SubscribeReq(ss[j])
<1>1. Len(ss) \in Nat /\ DOMAIN ss = 1 .. Len(ss) /\ \A j \in 1 .. Len(ss) : ss[j] \in Subs
  OBVIOUS
<1>2. AckReqs(ss) \in [1 .. Len(ss) -> Requests]
  BY <1>1, ReqTypes DEF AckReqs
<1> QED
  BY <1>1, <1>2, FunSeq DEF AckReqs

\* The requests of a NACK.
LEMMA NackReqsFacts ==
  ASSUME NEW ss \in Seq(Subs), \A s \in Elems(ss) : frame[s] \in Msgs
  PROVE  /\ NackReqs(ss) \in Seq(Requests) /\ Len(NackReqs(ss)) = 2 * Len(ss)
         /\ \A j \in 1 .. Len(ss) : /\ 2 * j - 1 \in 1 .. 2 * Len(ss) /\ 2 * j \in 1 .. 2 * Len(ss)
                                    /\ NackReqs(ss)[2 * j - 1] = RequeueReq(frame[ss[j]])
                                    /\ NackReqs(ss)[2 * j] = SubscribeReq(ss[j])
         /\ \A i \in 1 .. 2 * Len(ss) : \E j \in 1 .. Len(ss) : i = 2 * j - 1 \/ i = 2 * j
<1>1. PICK n \in Nat : n = Len(ss)
  OBVIOUS
<1>2. \A j \in 1 .. n : ss[j] \in Subs /\ frame[ss[j]] \in Msgs
  BY <1>1 DEF Elems
<1>3. \A i \in 1 .. 2 * n : (i + 1) \div 2 \in 1 .. n
  OBVIOUS
<1>4. \A i \in 1 .. 2 * n : i = 2 * ((i + 1) \div 2) - 1 \/ i = 2 * ((i + 1) \div 2)
  OBVIOUS
<1>5. NackReqs(ss) = [i \in 1 .. 2 * n |->
        IF i % 2 = 1 THEN RequeueReq(frame[ss[(i + 1) \div 2]])
                     ELSE SubscribeReq(ss[(i + 1) \div 2])]
  BY <1>1 DEF NackReqs
<1>6. NackReqs(ss) \in [1 .. 2 * n -> Requests]
  BY <1>2, <1>3, <1>5, ReqTypes
<1>7. ASSUME NEW j \in 1 .. n
      PROVE  /\ 2 * j - 1 \in 1 .. 2 * n /\ 2 * j \in 1 .. 2 * n
             /\ NackReqs(ss)[2 * j - 1] = RequeueReq(frame[ss[j]])
             /\ NackReqs(ss)[2 * j] = SubscribeReq(ss[j])
  <2>1. /\ 2 * j - 1 \in 1 .. 2 * n /\ 2 * j \in 1 .. 2 * n
        /\ ((2 * j - 1) + 1) \div 2 = j /\ (2 * j + 1) \div 2 = j
        /\ (2 * j - 1) % 2 = 1 /\ (2 * j) % 2 = 0
    OBVIOUS
  <2> QED
    BY <1>5, <2>1
<1>8. \A i \in 1 .. 2 * n : \E j \in 1 .. n : i = 2 * j - 1 \/ i = 2 * j
  BY <1>3, <1>4
<1>9. 2 * n \in Nat
  OBVIOUS
<1> QED
  BY <1>1, <1>6, <1>7, <1>8, <1>9, FunSeq, ZenonT(30)

\* The order in which a map is visited.
LEMMA OrdersFacts ==
  ASSUME NEW S \in SUBSET Subs, IsFiniteSet(S), NEW o \in Orders(S)
  PROVE  o \in Seq(Subs) /\ Elems(o) = S /\ DOMAIN o = 1 .. Len(o)
<1>1. PICK n \in Nat : n = Cardinality(S)
  BY FS_CardinalityType
<1>2. o \in [1 .. n -> S]
  BY <1>1 DEF Orders
<1>3. DOMAIN o = 1 .. n /\ o \in [1 .. n -> Subs]
  BY <1>2
<1>4. o \in Seq(Subs) /\ Len(o) = n
  BY <1>3, FunSeq
<1>5. \A x \in S : \E i \in 1 .. n : o[i] = x
  BY <1>3 DEF Orders
<1> QED
  BY <1>2, <1>3, <1>4, <1>5 DEF Elems

\* The first element of a channel or list, and what is left.
LEMMA HeadFacts ==
  ASSUME NEW S, NEW l \in Seq(S), l # <<>>
  PROVE  /\ Head(l) = l[1] /\ l[1] \in S /\ Len(l) \in Nat \ {0} /\ 1 \in 1 .. Len(l)
         /\ Tail(l) \in Seq(S) /\ Len(Tail(l)) = Len(l) - 1
         /\ \A i \in 1 .. Len(Tail(l)) : i + 1 \in 1 .. Len(l) /\ Tail(l)[i] = l[i + 1]
BY HeadTailProperties, EmptySeq

\* What the places are called.
LEMMA PlaceIs ==
  ASSUME NEW i, NEW s
  PROVE  /\ Place("out", i, s) <=> OutAt(i, s)
         /\ Place("req", i, s) <=> ReqAt(i, s)
         /\ Place("wait", i, s) <=> WaitAt(i, s)
         /\ Place("proc", i, s) <=> ProcAt(i, s)
         /\ Place("sub", i, s) <=> SubAt(i, s)
         /\ Place("list", i, s) <=> ListAt(i, s)
BY DEF Place

\* Their names.
LEMMA PlaceNames ==
  /\ \A c : c \in Places <=> c \in Free \/ c \in Busy
  /\ \A c : c \in Free <=> c = "out" \/ c = "req" \/ c = "wait"
  /\ \A c : c \in Busy <=> c = "proc" \/ c = "sub" \/ c = "list"
BY DEF Places, Free, Busy

\* The objects on their way to the client, or back, have a frame of a queue.
LEMMA BusyFacts ==
  ASSUME TypeOK, Homes, Framed, NEW k \in Conns
  PROVE  /\ \A i \in 1 .. Len(subCh[k]) :
              /\ subCh[k][i] \in Subs /\ frame[subCh[k][i]] \in Msgs
              /\ ToQueues(frame[subCh[k][i]]) /\ attr[subCh[k][i]].dest \in Queues
              /\ dest[frame[subCh[k][i]]] = attr[subCh[k][i]].dest
         /\ \A i \in 1 .. Len(subList[k]) :
              /\ subList[k][i] \in Subs /\ frame[subList[k][i]] \in Msgs
              /\ ToQueues(frame[subList[k][i]]) /\ attr[subList[k][i]].dest \in Queues
              /\ dest[frame[subList[k][i]]] = attr[subList[k][i]].dest
<1>1. ASSUME NEW c \in Busy, NEW i \in Nat, NEW s \in Subs, Place(c, i, s)
      PROVE  /\ frame[s] \in Msgs /\ ToQueues(frame[s]) /\ attr[s].dest \in Queues
             /\ dest[frame[s]] = attr[s].dest
  BY <1>1 DEF Framed, FramedAs, In, ToQueues
<1>2. ASSUME NEW i \in 1 .. Len(subCh[k])
      PROVE  subCh[k][i] \in Subs /\ i \in Nat /\ Place("sub", i, subCh[k][i])
  <2>1. PICK s \in Subs : s = subCh[k][i]
    BY DEF TypeOK
  <2>2. attr[s].conn = k /\ i \in Nat
    BY <2>1 DEF Homes, HomeSubs, HomeSub, HomeList, HomeWait
  <2>3. SubAt(i, s)
    BY <2>1, <2>2 DEF SubAt
  <2> QED
    BY <2>1, <2>2, <2>3, PlaceIs
<1>3. ASSUME NEW i \in 1 .. Len(subList[k])
      PROVE  subList[k][i] \in Subs /\ i \in Nat /\ Place("list", i, subList[k][i])
  <2>1. PICK s \in Subs : s = subList[k][i]
    BY DEF TypeOK
  <2>2. attr[s].conn = k /\ i \in Nat
    BY <2>1 DEF Homes, HomeSubs, HomeSub, HomeList, HomeWait
  <2>3. ListAt(i, s)
    BY <2>1, <2>2 DEF ListAt
  <2> QED
    BY <2>1, <2>2, <2>3, PlaceIs
<1>4. "sub" \in Busy /\ "list" \in Busy
  BY DEF Busy
<1> QED
  BY <1>1, <1>2, <1>3, <1>4

\* The list of those to be acknowledged has nobody twice.
LEMMA ListDistinct ==
  ASSUME TypeOK, Homes, OnePlace, NEW k \in Conns
  PROVE  Distinct(subList[k])
<1> SUFFICES ASSUME NEW i \in 1 .. Len(subList[k]), NEW j \in 1 .. Len(subList[k]), i # j,
                    subList[k][i] = subList[k][j]
             PROVE  FALSE
  BY DEF Distinct
<1>1. PICK s \in Subs : s = subList[k][i]
  BY DEF TypeOK
<1>2. i \in Nat /\ j \in Nat /\ Place("list", i, s) /\ Place("list", j, s)
  <2>1. attr[s].conn = k /\ i \in Nat /\ j \in Nat
    BY <1>1 DEF Homes, HomeSubs, HomeSub, HomeList, HomeWait
  <2>2. ListAt(i, s) /\ ListAt(j, s)
    BY <1>1, <2>1 DEF ListAt
  <2> QED
    BY <2>1, <2>2, PlaceIs
<1> QED
  BY <1>2, PlaceNames DEF OnePlace, Unique, Single

\* ACK and NACK split the list.
LEMMA AckDoes ==
  ASSUME TypeOK, Homes, OnePlace, Framed, NEW k \in Conns, HandleAck(k) \/ HandleNack(k)
  PROVE  \E ss, l1 \in Seq(Subs), u \in Seq(Requests) :
           /\ Distinct(ss) /\ Distinct(l1) /\ Elems(ss) \subseteq Elems(subList[k])
           /\ Elems(l1) = Elems(subList[k]) \ Elems(ss)
           /\ \A s \in Elems(ss) : s \in Subs /\ frame[s] \in Msgs /\ ToQueues(frame[s])
           /\ subList' = [subList EXCEPT ![k] = l1]
           /\ frame' = [s \in Subs |-> IF s \in Elems(ss) THEN None ELSE frame[s]]
           /\ out[k] = <<>> /\ out' = [out EXCEPT ![k] = u]
           /\ \/ u = AckReqs(ss) /\ settled' = settled \cup {frame[s] : s \in Elems(ss)}
              \/ u = NackReqs(ss) /\ settled' = settled
           /\ panicked = None /\ phase[k] = "run"
           /\ UNCHANGED <<phase, subs, subCh, writeCh, log, attr, inList, procVars,
                          dest, dropped, owed, panicked>>
<1>1. PICK l \in Seq(Subs) : l = subList[k] /\ DOMAIN l = 1 .. Len(l)
  BY DEF TypeOK
<1>2. Distinct(l)
  BY <1>1, ListDistinct
<1>3. /\ out[k] = <<>> /\ panicked = None /\ phase[k] = "run"
      /\ UNCHANGED <<phase, subs, subCh, writeCh, log, attr, inList, procVars,
                     dest, dropped, owed, panicked>>
  BY DEF HandleAck, HandleNack, Running, histVars
<1>4. PICK I \in SUBSET (1 .. Len(l)) :
        /\ \E f \in Ascending(I) :
             \/ /\ out' = [out EXCEPT ![k] = AckReqs(Pick(l, f))]
                /\ settled' = settled \cup {frame[s] : s \in Taken(k, I)}
             \/ out' = [out EXCEPT ![k] = NackReqs(Pick(l, f))] /\ settled' = settled
        /\ TakeOut(k, I)
  <2>1. CASE HandleAck(k)
    <3>1. PICK n \in FirstAckId .. Len(log[k]) :
            /\ \E f \in Ascending(AckedAt(k, n)) :
                 out' = [out EXCEPT ![k] = AckReqs(Pick(subList[k], f))]
            /\ TakeOut(k, AckedAt(k, n))
            /\ settled' = settled \cup {frame[s] : s \in Taken(k, AckedAt(k, n))}
      BY <2>1 DEF HandleAck
    <3>2. AckedAt(k, n) \in SUBSET (1 .. Len(l))
      BY <1>1 DEF AckedAt
    <3> QED
      BY <1>1, <3>1, <3>2
  <2>2. CASE HandleNack(k)
    <3>1. PICK n \in FirstAckId .. Len(log[k]) :
            /\ \E f \in Ascending(NackedAt(k, n)) :
                 out' = [out EXCEPT ![k] = NackReqs(Pick(subList[k], f))]
            /\ TakeOut(k, NackedAt(k, n))
      BY <2>2 DEF HandleNack
    <3>2. NackedAt(k, n) \in SUBSET (1 .. Len(l)) /\ settled' = settled
      BY <1>1, <2>2 DEF NackedAt, HandleNack, histVars
    <3> QED
      BY <1>1, <3>1, <3>2
  <2> QED
    BY <2>1, <2>2
<1>5. PICK f \in Ascending(I) :
        \/ /\ out' = [out EXCEPT ![k] = AckReqs(Pick(l, f))]
           /\ settled' = settled \cup {frame[s] : s \in Taken(k, I)}
        \/ out' = [out EXCEPT ![k] = NackReqs(Pick(l, f))] /\ settled' = settled
  BY <1>4
<1>6. PICK g \in Ascending((1 .. Len(l)) \ I) : subList' = [subList EXCEPT ![k] = Pick(l, g)]
  BY <1>1, <1>4 DEF TakeOut
<1>7. frame' = [s \in Subs |-> IF s \in Taken(k, I) THEN None ELSE frame[s]]
  BY <1>4 DEF TakeOut
<1>8. /\ Pick(l, f) \in Seq(Subs) /\ Pick(l, g) \in Seq(Subs)
      /\ Distinct(Pick(l, f)) /\ Distinct(Pick(l, g))
      /\ Elems(Pick(l, f)) = {l[i] : i \in I}
      /\ Elems(Pick(l, g)) = Elems(l) \ {l[i] : i \in I}
  BY <1>2, Split
<1>9. PICK ss \in Seq(Subs), l1 \in Seq(Subs) : ss = Pick(l, f) /\ l1 = Pick(l, g)
  BY <1>8
<1>10. /\ Distinct(ss) /\ Distinct(l1) /\ Elems(ss) = Taken(k, I)
       /\ Elems(l1) = Elems(subList[k]) \ Elems(ss)
  BY <1>1, <1>8, <1>9 DEF Taken
<1>11. Elems(ss) \subseteq Elems(subList[k])
  BY <1>1, <1>10 DEF Taken, Elems
<1>12. \A s \in Elems(ss) : s \in Subs /\ frame[s] \in Msgs /\ ToQueues(frame[s])
  <2>1. \A s \in Elems(subList[k]) : s \in Subs /\ frame[s] \in Msgs /\ ToQueues(frame[s])
    BY BusyFacts DEF Elems
  <2> QED
    BY <1>11, <2>1
<1>13. AckReqs(ss) \in Seq(Requests) /\ NackReqs(ss) \in Seq(Requests)
  BY <1>12, AckReqsFacts, NackReqsFacts
<1>14. PICK u \in Seq(Requests) :
         /\ out' = [out EXCEPT ![k] = u]
         /\ \/ u = AckReqs(ss) /\ settled' = settled \cup {frame[s] : s \in Taken(k, I)}
            \/ u = NackReqs(ss) /\ settled' = settled
  BY <1>5, <1>9, <1>13
<1>15. subList' = [subList EXCEPT ![k] = l1]
  BY <1>6, <1>9
<1> QED
  BY <1>3, <1>7, <1>10, <1>11, <1>12, <1>14, <1>15

\* cleanupConn asks to unsubscribe all of Conn.subs, then to requeue all frames
\* that wait for an acknowledgement.
LEMMA CleanupDoes ==
  ASSUME TypeOK, Homes, Framed, NEW k \in Conns, CleanupConn(k)
  PROVE  \E u \in Seq(Requests), n \in Nat :
           /\ out' = [out EXCEPT ![k] = u] /\ Len(u) = n + Len(subList[k])
           /\ \A i \in 1 .. n : \E s \in Known(k) : u[i] = UnsubscribeReq(s)
           /\ \A s \in Known(k) : \E i \in 1 .. n : u[i] = UnsubscribeReq(s)
           /\ \A j \in 1 .. Len(subList[k]) :
                n + j \in 1 .. Len(u) /\ u[n + j] = RequeueReq(frame[subList[k][j]])
           /\ \A i \in 1 .. Len(u) :
                i \in 1 .. n \/ \E j \in 1 .. Len(subList[k]) : i = n + j
<1>1. PICK l \in Seq(Subs) : l = subList[k] /\ DOMAIN l = 1 .. Len(l) /\ Len(l) \in Nat
  BY DEF TypeOK
<1>2. PICK o \in Orders(Known(k)) :
        out' = [out EXCEPT ![k] = [i \in DOMAIN o |-> UnsubscribeReq(o[i])] \o
                                  [i \in DOMAIN l |-> RequeueReq(frame[l[i]])]]
  BY <1>1 DEF CleanupConn
<1>3. Known(k) \in SUBSET Subs /\ IsFiniteSet(Known(k))
  <2>1. IsFiniteSet(Known(k))
    BY DEF Homes, HomeSubs, HomeSub, HomeList, HomeWait
  <2>2. \A s \in Known(k) : s \in Subs
    BY DEF Known, TypeOK
  <2> QED
    BY <2>1, <2>2
<1>4. o \in Seq(Subs) /\ Elems(o) = Known(k) /\ DOMAIN o = 1 .. Len(o) /\ Len(o) \in Nat
  BY <1>3, OrdersFacts
<1>5. PICK n \in Nat : n = Len(o)
  BY <1>4
<1>6. PICK m \in Nat : m = Len(l)
  BY <1>1
<1>7. PICK a \in Seq(Requests) : /\ a = [i \in DOMAIN o |-> UnsubscribeReq(o[i])]
                                 /\ Len(a) = n
                                 /\ \A i \in 1 .. n : a[i] = UnsubscribeReq(o[i])
  <2>1. \A i \in 1 .. n : o[i] \in Subs
    BY <1>4, <1>5
  <2>2. [i \in DOMAIN o |-> UnsubscribeReq(o[i])] \in [1 .. n -> Requests]
    BY <1>4, <1>5, <2>1, ReqTypes
  <2>3. PICK a \in [1 .. n -> Requests] : a = [i \in DOMAIN o |-> UnsubscribeReq(o[i])]
    BY <2>2
  <2>4. a \in Seq(Requests) /\ Len(a) = n
    BY <2>3, FunSeq
  <2>5. \A i \in 1 .. n : a[i] = UnsubscribeReq(o[i])
    BY <1>4, <1>5, <2>3
  <2> QED
    BY <2>3, <2>4, <2>5
<1>8. PICK b \in Seq(Requests) : /\ b = [i \in DOMAIN l |-> RequeueReq(frame[l[i]])]
                                 /\ Len(b) = m
                                 /\ \A i \in 1 .. m : b[i] = RequeueReq(frame[l[i]])
  <2>1. \A i \in 1 .. m : frame[l[i]] \in Msgs
    BY <1>1, <1>6, BusyFacts
  <2>2. [i \in DOMAIN l |-> RequeueReq(frame[l[i]])] \in [1 .. m -> Requests]
    BY <1>1, <1>6, <2>1, ReqTypes
  <2>3. PICK b \in [1 .. m -> Requests] : b = [i \in DOMAIN l |-> RequeueReq(frame[l[i]])]
    BY <2>2
  <2>4. b \in Seq(Requests) /\ Len(b) = m
    BY <2>3, FunSeq
  <2>5. \A i \in 1 .. m : b[i] = RequeueReq(frame[l[i]])
    BY <1>1, <1>6, <2>3
  <2> QED
    BY <2>3, <2>4, <2>5
<1>9. PICK u \in Seq(Requests) : u = a \o b
  BY ConcatProperties
<1>10. /\ Len(u) = n + m
       /\ \A i \in 1 .. n : u[i] = a[i]
       /\ \A j \in 1 .. m : u[n + j] = b[j]
  BY <1>7, <1>8, <1>9, ConcatProperties
<1>11. \A i \in 1 .. n : u[i] = UnsubscribeReq(o[i])
  BY <1>7, <1>10
<1>12. \A j \in 1 .. m : u[n + j] = RequeueReq(frame[l[j]])
  BY <1>8, <1>10
<1>13. \A i \in 1 .. n : o[i] \in Known(k)
  BY <1>4, <1>5 DEF Elems
<1>14. \A s \in Known(k) : \E i \in 1 .. n : o[i] = s
  BY <1>4, <1>5 DEF Elems
<1>15. \A j \in 1 .. m : n + j \in 1 .. n + m
  OBVIOUS
<1>16. \A i \in 1 .. n + m : i \in 1 .. n \/ \E j \in 1 .. m : i = n + j
  <2> SUFFICES ASSUME NEW i \in 1 .. n + m, i \notin 1 .. n PROVE \E j \in 1 .. m : i = n + j
    OBVIOUS
  <2>1. i - n \in 1 .. m /\ i = n + (i - n)
    OBVIOUS
  <2> QED
    BY <2>1
<1>17. out' = [out EXCEPT ![k] = u]
  BY <1>2, <1>7, <1>8, <1>9
<1>18. /\ \A i \in 1 .. n : \E s \in Known(k) : u[i] = UnsubscribeReq(s)
       /\ \A s \in Known(k) : \E i \in 1 .. n : u[i] = UnsubscribeReq(s)
  BY <1>11, <1>13, <1>14
<1>19. m = Len(subList[k]) /\ \A j \in 1 .. m : u[n + j] = RequeueReq(frame[subList[k][j]])
  BY <1>1, <1>6, <1>12
<1>20. PICK ls : ls = Len(subList[k])
  OBVIOUS
<1>21. /\ Len(u) = n + ls
       /\ \A j \in 1 .. ls : n + j \in 1 .. Len(u) /\ u[n + j] = RequeueReq(frame[subList[k][j]])
       /\ \A i \in 1 .. Len(u) : i \in 1 .. n \/ \E j \in 1 .. ls : i = n + j
  BY <1>10, <1>15, <1>16, <1>19, <1>20
<1> QED
  BY <1>17, <1>18, <1>20, <1>21, ZenonT(30)
-----------------------------------------------------------------------------
(***************************************************************************)
(* A step takes an object out of one place and puts it into another.  The  *)
(* others move up at most.                                                 *)
(***************************************************************************)
Keeps(c, s) == (In(c, s)' => In(c, s)) /\ Single(c, s)'

\* An object that moves up by d in one place, if at all.
LEMMA MovesUp ==
  ASSUME NEW s \in Subs, Unique(s), NEW c \in Places, NEW d \in Nat,
         \A i \in Nat : Place(c, i, s)' => Place(c, i + d, s)
  PROVE  Keeps(c, s)
<1>1. In(c, s)' => In(c, s)
  <2> SUFFICES ASSUME NEW i \in Nat, Place(c, i, s)' PROVE In(c, s)
    BY DEF In
  <2> QED
    BY DEF In
<1>2. Single(c, s)'
  <2> SUFFICES ASSUME NEW i \in Nat, NEW j \in Nat, Place(c, i, s)', Place(c, j, s)' PROVE i = j
    BY DEF Single
  <2>1. Place(c, i + d, s) /\ Place(c, j + d, s) /\ i + d \in Nat /\ j + d \in Nat
    OBVIOUS
  <2>2. i + d = j + d
    BY <2>1 DEF Unique, Single
  <2> QED
    BY <2>2
<1> QED
  BY <1>1, <1>2 DEF Keeps

\* A place where an object is not any more, or never was.
LEMMA NotThere ==
  ASSUME NEW s, NEW c, \A i \in Nat : ~Place(c, i, s)'
  PROVE  ~In(c, s)' /\ Keeps(c, s)
BY DEF In, Keeps, Single

Same(c, s) == Keeps(c, s) /\ (In(c, s)' <=> In(c, s))

\* A place that an object keeps.
LEMMA SamePlace ==
  ASSUME NEW s, NEW c, Single(c, s), \A i \in Nat : Place(c, i, s)' <=> Place(c, i, s)
  PROVE  Same(c, s)
BY DEF Same, Keeps, In, Single

\* What is not touched stays.
LEMMA Still ==
  ASSUME OnePlace, attr' = attr, NEW s \in Subs
  PROVE  /\ out' = out => Same("out", s)
         /\ requestCh' = requestCh => Same("req", s)
         /\ waiting' = waiting => Same("wait", s)
         /\ procOut' = procOut /\ dest' = dest => Same("proc", s)
         /\ subCh' = subCh => Same("sub", s)
         /\ subList' = subList => Same("list", s)
<1>0. \A c \in Places : Single(c, s)
  BY DEF OnePlace, Unique
<1>1. ASSUME out' = out PROVE Same("out", s)
  <2>1. \A i \in Nat : Place("out", i, s)' <=> Place("out", i, s)
    BY <1>1 DEF Place, OutAt
  <2> QED
    BY <1>0, <2>1, PlaceNames, SamePlace
<1>2. ASSUME requestCh' = requestCh PROVE Same("req", s)
  <2>1. \A i \in Nat : Place("req", i, s)' <=> Place("req", i, s)
    BY <1>2 DEF Place, ReqAt
  <2> QED
    BY <1>0, <2>1, PlaceNames, SamePlace
<1>3. ASSUME waiting' = waiting PROVE Same("wait", s)
  <2>1. \A i \in Nat : Place("wait", i, s)' <=> Place("wait", i, s)
    BY <1>3 DEF Place, WaitAt
  <2> QED
    BY <1>0, <2>1, PlaceNames, SamePlace
<1>4. ASSUME procOut' = procOut /\ dest' = dest PROVE Same("proc", s)
  <2>1. \A i \in Nat : Place("proc", i, s)' <=> Place("proc", i, s)
    BY <1>4 DEF Place, ProcAt, ToQueues
  <2> QED
    BY <1>0, <2>1, PlaceNames, SamePlace
<1>5. ASSUME subCh' = subCh PROVE Same("sub", s)
  <2>1. \A i \in Nat : Place("sub", i, s)' <=> Place("sub", i, s)
    BY <1>5 DEF Place, SubAt
  <2> QED
    BY <1>0, <2>1, PlaceNames, SamePlace
<1>6. ASSUME subList' = subList PROVE Same("list", s)
  <2>1. \A i \in Nat : Place("list", i, s)' <=> Place("list", i, s)
    BY <1>6 DEF Place, ListAt
  <2> QED
    BY <1>0, <2>1, PlaceNames, SamePlace
<1> QED
  BY <1>1, <1>2, <1>3, <1>4, <1>5, <1>6

\* An object that was first and leaves.
LEMMA Leaves ==
  ASSUME NEW s \in Subs, Unique(s), NEW c \in Places, Place(c, 1, s),
         \A i \in Nat : Place(c, i, s)' => Place(c, i + 1, s) /\ i # 0
  PROVE  In(c, s) /\ ~In(c, s)'
<1>1. \A i \in Nat : Place(c, i, s) => i = 1
  BY DEF Unique, Single
<1>2. \A i \in Nat : ~Place(c, i, s)'
  <2> SUFFICES ASSUME NEW i \in Nat, Place(c, i, s)' PROVE FALSE
    OBVIOUS
  <2>1. Place(c, i + 1, s) /\ i # 0 /\ i + 1 \in Nat
    OBVIOUS
  <2>2. i + 1 = 1
    BY <1>1, <2>1
  <2> QED
    BY <2>1, <2>2
<1> QED
  BY <1>2, NotThere DEF In

\* An object that joins at the end, at n.
LEMMA Joins ==
  ASSUME NEW s, NEW c, NEW n, ~In(c, s),
         \A i \in Nat : Place(c, i, s)' => Place(c, i, s) \/ i = n
  PROVE  Single(c, s)'
BY DEF In, Single

\* The processor takes a request.
LEMMA ReqTail ==
  ASSUME TypeOK, OnePlace, requestCh # <<>>, requestCh' = Tail(requestCh), NEW s \in Subs
  PROVE  /\ Keeps("req", s)
         /\ requestCh[1] = SubscribeReq(s) => In("req", s) /\ ~In("req", s)'
<1>0. Unique(s)
  BY DEF OnePlace
<1>1. /\ 1 \in 1 .. Len(requestCh) /\ Len(requestCh) \in Nat
      /\ Len(Tail(requestCh)) = Len(requestCh) - 1
      /\ \A i \in 1 .. Len(Tail(requestCh)) :
           i + 1 \in 1 .. Len(requestCh) /\ Tail(requestCh)[i] = requestCh[i + 1]
  BY HeadFacts DEF TypeOK
<1>2. \A i \in Nat : Place("req", i, s)' => Place("req", i + 1, s) /\ i # 0
  BY <1>1, PlaceIs DEF Place, ReqAt
<1>3. Keeps("req", s)
  BY <1>0, <1>2, MovesUp, PlaceNames
<1>4. ASSUME requestCh[1] = SubscribeReq(s) PROVE In("req", s) /\ ~In("req", s)'
  <2>1. Place("req", 1, s)
    BY <1>1, <1>4, PlaceIs DEF ReqAt
  <2> QED
    BY <1>0, <1>2, <2>1, Leaves, PlaceNames
<1> QED
  BY <1>3, <1>4

\* A request is appended to requestChannel.
LEMMA ReqAppend ==
  ASSUME TypeOK, OnePlace, NEW r \in Requests, requestCh' = Append(requestCh, r), NEW s \in Subs
  PROVE  /\ r # SubscribeReq(s) => Keeps("req", s)
         /\ ~In("req", s) => Single("req", s)'
<1>0. Unique(s)
  BY DEF OnePlace
<1>1. PICK n \in Nat : n = Len(requestCh)
  BY DEF TypeOK
<1>2. /\ Len(requestCh') = n + 1 /\ requestCh'[n + 1] = r
      /\ \A i \in 1 .. n : requestCh'[i] = requestCh[i]
  BY <1>1, AppendProperties DEF TypeOK
<1>3. \A i \in Nat : Place("req", i, s)' => \/ Place("req", i, s)
                                            \/ i = n + 1 /\ r = SubscribeReq(s)
  <2> SUFFICES ASSUME NEW i \in Nat, Place("req", i, s)', ~(i = n + 1 /\ r = SubscribeReq(s))
               PROVE  Place("req", i, s)
    OBVIOUS
  <2>1. i \in 1 .. n + 1 /\ requestCh'[i] = SubscribeReq(s)
    BY <1>2 DEF Place, ReqAt
  <2>2. i \in 1 .. n /\ requestCh[i] = SubscribeReq(s)
    BY <1>2, <2>1
  <2> QED
    BY <1>1, <2>2, PlaceIs DEF ReqAt
<1>4. ASSUME r # SubscribeReq(s) PROVE Keeps("req", s)
  <2>1. \A i \in Nat : Place("req", i, s)' => Place("req", i + 0, s)
    BY <1>3, <1>4
  <2> QED
    BY <1>0, <2>1, MovesUp, PlaceNames
<1>5. ASSUME ~In("req", s) PROVE Single("req", s)'
  <2>1. PICK p : p = n + 1
    OBVIOUS
  <2>2. \A i \in Nat : Place("req", i, s)' => Place("req", i, s) \/ i = p
    BY <1>3, <2>1
  <2> QED
    BY <1>5, <2>2, Joins
<1> QED
  BY <1>4, <1>5

\* A connection puts its first request into requestChannel.
LEMMA OutTail ==
  ASSUME TypeOK, OnePlace, attr' = attr, NEW k \in Conns, out[k] # <<>>,
         out' = [out EXCEPT ![k] = Tail(@)], NEW s \in Subs
  PROVE  /\ Keeps("out", s)
         /\ out[k][1] = SubscribeReq(s) /\ attr[s].conn = k => In("out", s) /\ ~In("out", s)'
<1>0. Unique(s) /\ "out" \in Places
  BY PlaceNames DEF OnePlace
<1>1. PICK l \in Seq(Requests) : l = out[k]
  BY DEF TypeOK
<1>2. /\ 1 \in 1 .. Len(l) /\ Len(l) \in Nat /\ Len(Tail(l)) = Len(l) - 1
      /\ \A i \in 1 .. Len(Tail(l)) : i + 1 \in 1 .. Len(l) /\ Tail(l)[i] = l[i + 1]
  BY <1>1, HeadFacts
<1>3. out'[k] = Tail(l) /\ \A h \in Conns : h # k => out'[h] = out[h]
  BY <1>1 DEF TypeOK
<1>4. ASSUME attr[s].conn = k
      PROVE  \A i \in Nat : Place("out", i, s)' => Place("out", i + 1, s) /\ i # 0
  <2> SUFFICES ASSUME NEW i \in Nat, Place("out", i, s)'
               PROVE  Place("out", i + 1, s) /\ i # 0
    OBVIOUS
  <2>1. i \in 1 .. Len(Tail(l)) /\ Tail(l)[i] = SubscribeReq(s)
    BY <1>3, <1>4 DEF Place, OutAt
  <2>2. i + 1 \in 1 .. Len(l) /\ l[i + 1] = SubscribeReq(s) /\ i # 0
    BY <1>2, <2>1
  <2> QED
    BY <1>1, <1>4, <2>2, PlaceIs DEF OutAt
<1>5. ASSUME attr[s].conn # k
      PROVE  \A i \in Nat : Place("out", i, s)' => Place("out", i + 0, s)
  BY <1>3, <1>5 DEF Place, OutAt
<1>6. Keeps("out", s)
  <2>1. CASE attr[s].conn = k
    BY <1>0, <1>4, <2>1, MovesUp
  <2>2. CASE attr[s].conn # k
    BY <1>0, <1>5, <2>2, MovesUp
  <2> QED
    BY <2>1, <2>2
<1>7. ASSUME out[k][1] = SubscribeReq(s), attr[s].conn = k
      PROVE  In("out", s) /\ ~In("out", s)'
  <2>1. Place("out", 1, s)
    BY <1>1, <1>2, <1>7, PlaceIs DEF OutAt
  <2> QED
    BY <1>0, <1>4, <1>7, <2>1, Leaves
<1> QED
  BY <1>6, <1>7

\* A connection takes an object from subChannel.
LEMMA SubTail ==
  ASSUME TypeOK, OnePlace, attr' = attr, NEW k \in Conns, subCh[k] # <<>>,
         subCh' = [subCh EXCEPT ![k] = Tail(@)], NEW s \in Subs
  PROVE  /\ Keeps("sub", s)
         /\ subCh[k][1] = s /\ attr[s].conn = k => In("sub", s) /\ ~In("sub", s)'
<1>0. Unique(s) /\ "sub" \in Places
  BY PlaceNames DEF OnePlace
<1>1. PICK l \in Seq(Subs) : l = subCh[k]
  BY DEF TypeOK
<1>2. /\ 1 \in 1 .. Len(l) /\ Len(l) \in Nat /\ Len(Tail(l)) = Len(l) - 1
      /\ \A i \in 1 .. Len(Tail(l)) : i + 1 \in 1 .. Len(l) /\ Tail(l)[i] = l[i + 1]
  BY <1>1, HeadFacts
<1>3. subCh'[k] = Tail(l) /\ \A h \in Conns : h # k => subCh'[h] = subCh[h]
  BY <1>1 DEF TypeOK
<1>4. ASSUME attr[s].conn = k
      PROVE  \A i \in Nat : Place("sub", i, s)' => Place("sub", i + 1, s) /\ i # 0
  <2> SUFFICES ASSUME NEW i \in Nat, Place("sub", i, s)'
               PROVE  Place("sub", i + 1, s) /\ i # 0
    OBVIOUS
  <2>1. i \in 1 .. Len(Tail(l)) /\ Tail(l)[i] = s
    BY <1>3, <1>4 DEF Place, SubAt
  <2>2. i + 1 \in 1 .. Len(l) /\ l[i + 1] = s /\ i # 0
    BY <1>2, <2>1
  <2> QED
    BY <1>1, <1>4, <2>2, PlaceIs DEF SubAt
<1>5. ASSUME attr[s].conn # k
      PROVE  \A i \in Nat : Place("sub", i, s)' => Place("sub", i + 0, s)
  BY <1>3, <1>5 DEF Place, SubAt
<1>6. Keeps("sub", s)
  <2>1. CASE attr[s].conn = k
    BY <1>0, <1>4, <2>1, MovesUp
  <2>2. CASE attr[s].conn # k
    BY <1>0, <1>5, <2>2, MovesUp
  <2> QED
    BY <2>1, <2>2
<1>7. ASSUME subCh[k][1] = s, attr[s].conn = k
      PROVE  In("sub", s) /\ ~In("sub", s)'
  <2>1. Place("sub", 1, s)
    BY <1>1, <1>2, <1>7, PlaceIs DEF SubAt
  <2> QED
    BY <1>0, <1>4, <1>7, <2>1, Leaves
<1> QED
  BY <1>6, <1>7

\* The processor takes the first object that waits.
LEMMA WaitTail ==
  ASSUME TypeOK, OnePlace, attr' = attr, NEW k \in Dests, waiting[k] # <<>>,
         waiting' = [waiting EXCEPT ![k] = Tail(@)], NEW s \in Subs
  PROVE  /\ Keeps("wait", s)
         /\ waiting[k][1] = s /\ attr[s].dest = k => In("wait", s) /\ ~In("wait", s)'
<1>0. Unique(s) /\ "wait" \in Places
  BY PlaceNames DEF OnePlace
<1>1. PICK l \in Seq(Subs) : l = waiting[k]
  BY DEF TypeOK
<1>2. /\ 1 \in 1 .. Len(l) /\ Len(l) \in Nat /\ Len(Tail(l)) = Len(l) - 1
      /\ \A i \in 1 .. Len(Tail(l)) : i + 1 \in 1 .. Len(l) /\ Tail(l)[i] = l[i + 1]
  BY <1>1, HeadFacts
<1>3. waiting'[k] = Tail(l) /\ \A h \in Dests : h # k => waiting'[h] = waiting[h]
  BY <1>1 DEF TypeOK
<1>4. ASSUME attr[s].dest = k
      PROVE  \A i \in Nat : Place("wait", i, s)' => Place("wait", i + 1, s) /\ i # 0
  <2> SUFFICES ASSUME NEW i \in Nat, Place("wait", i, s)'
               PROVE  Place("wait", i + 1, s) /\ i # 0
    OBVIOUS
  <2>1. i \in 1 .. Len(Tail(l)) /\ Tail(l)[i] = s
    BY <1>3, <1>4 DEF Place, WaitAt
  <2>2. i + 1 \in 1 .. Len(l) /\ l[i + 1] = s /\ i # 0
    BY <1>2, <2>1
  <2> QED
    BY <1>1, <1>4, <2>2, PlaceIs DEF WaitAt
<1>5. ASSUME attr[s].dest # k
      PROVE  \A i \in Nat : Place("wait", i, s)' => Place("wait", i + 0, s)
  BY <1>3, <1>5 DEF Place, WaitAt
<1>6. Keeps("wait", s)
  <2>1. CASE attr[s].dest = k
    BY <1>0, <1>4, <2>1, MovesUp
  <2>2. CASE attr[s].dest # k
    BY <1>0, <1>5, <2>2, MovesUp
  <2> QED
    BY <2>1, <2>2
<1>7. ASSUME waiting[k][1] = s, attr[s].dest = k
      PROVE  In("wait", s) /\ ~In("wait", s)'
  <2>1. Place("wait", 1, s)
    BY <1>1, <1>2, <1>7, PlaceIs DEF WaitAt
  <2> QED
    BY <1>0, <1>4, <1>7, <2>1, Leaves
<1> QED
  BY <1>6, <1>7

\* An object is put into subChannel.
LEMMA SubAppend ==
  ASSUME TypeOK, OnePlace, attr' = attr, NEW k \in Conns, NEW x \in Subs,
         subCh' = [subCh EXCEPT ![k] = Append(@, x)], NEW s \in Subs
  PROVE  /\ s # x => Keeps("sub", s)
         /\ ~In("sub", s) => Single("sub", s)'
<1>0. Unique(s) /\ "sub" \in Places
  BY PlaceNames DEF OnePlace
<1>1. PICK l \in Seq(Subs) : l = subCh[k]
  BY DEF TypeOK
<1>2. PICK n \in Nat : n = Len(l)
  OBVIOUS
<1>3. PICK t \in Seq(Subs) : t = Append(l, x)
  BY AppendProperties
<1>4. Len(t) = n + 1 /\ t[n + 1] = x /\ \A i \in 1 .. n : t[i] = l[i]
  BY <1>2, <1>3, AppendProperties
<1>5. subCh'[k] = t /\ \A h \in Conns : h # k => subCh'[h] = subCh[h]
  BY <1>1, <1>3 DEF TypeOK
<1>6. \A i \in Nat : Place("sub", i, s)' => Place("sub", i, s) \/ (i = n + 1 /\ s = x)
  <2> SUFFICES ASSUME NEW i \in Nat, Place("sub", i, s)', ~(i = n + 1 /\ s = x)
               PROVE  Place("sub", i, s)
    OBVIOUS
  <2>1. CASE attr[s].conn = k
    <3>1. i \in 1 .. n + 1 /\ t[i] = s
      BY <1>4, <1>5, <2>1 DEF Place, SubAt
    <3>2. i \in 1 .. Len(l) /\ l[i] = s
      BY <1>2, <1>4, <3>1
    <3> QED
      BY <1>1, <2>1, <3>2, PlaceIs DEF SubAt
  <2>2. CASE attr[s].conn # k
    BY <1>5, <2>2 DEF Place, SubAt
  <2> QED
    BY <2>1, <2>2
<1>7. ASSUME s # x PROVE Keeps("sub", s)
  <2>1. \A i \in Nat : Place("sub", i, s)' => Place("sub", i + 0, s)
    BY <1>6, <1>7
  <2> QED
    BY <1>0, <2>1, MovesUp
<1>8. ASSUME ~In("sub", s) PROVE Single("sub", s)'
  <2>1. PICK p : p = n + 1
    OBVIOUS
  <2>2. \A i \in Nat : Place("sub", i, s)' => Place("sub", i, s) \/ i = p
    BY <1>6, <2>1
  <2> QED
    BY <1>8, <2>2, Joins
<1> QED
  BY <1>7, <1>8

\* An object is put into the list of those to be acknowledged.
LEMMA ListAppend ==
  ASSUME TypeOK, OnePlace, attr' = attr, NEW k \in Conns, NEW x \in Subs,
         subList' = [subList EXCEPT ![k] = Append(@, x)], NEW s \in Subs
  PROVE  /\ s # x => Keeps("list", s)
         /\ ~In("list", s) => Single("list", s)'
<1>0. Unique(s) /\ "list" \in Places
  BY PlaceNames DEF OnePlace
<1>1. PICK l \in Seq(Subs) : l = subList[k]
  BY DEF TypeOK
<1>2. PICK n \in Nat : n = Len(l)
  OBVIOUS
<1>3. PICK t \in Seq(Subs) : t = Append(l, x)
  BY AppendProperties
<1>4. Len(t) = n + 1 /\ t[n + 1] = x /\ \A i \in 1 .. n : t[i] = l[i]
  BY <1>2, <1>3, AppendProperties
<1>5. subList'[k] = t /\ \A h \in Conns : h # k => subList'[h] = subList[h]
  BY <1>1, <1>3 DEF TypeOK
<1>6. \A i \in Nat : Place("list", i, s)' => Place("list", i, s) \/ (i = n + 1 /\ s = x)
  <2> SUFFICES ASSUME NEW i \in Nat, Place("list", i, s)', ~(i = n + 1 /\ s = x)
               PROVE  Place("list", i, s)
    OBVIOUS
  <2>1. CASE attr[s].conn = k
    <3>1. i \in 1 .. n + 1 /\ t[i] = s
      BY <1>4, <1>5, <2>1 DEF Place, ListAt
    <3>2. i \in 1 .. Len(l) /\ l[i] = s
      BY <1>2, <1>4, <3>1
    <3> QED
      BY <1>1, <2>1, <3>2, PlaceIs DEF ListAt
  <2>2. CASE attr[s].conn # k
    BY <1>5, <2>2 DEF Place, ListAt
  <2> QED
    BY <2>1, <2>2
<1>7. ASSUME s # x PROVE Keeps("list", s)
  <2>1. \A i \in Nat : Place("list", i, s)' => Place("list", i + 0, s)
    BY <1>6, <1>7
  <2> QED
    BY <1>0, <2>1, MovesUp
<1>8. ASSUME ~In("list", s) PROVE Single("list", s)'
  <2>1. PICK p : p = n + 1
    OBVIOUS
  <2>2. \A i \in Nat : Place("list", i, s)' => Place("list", i, s) \/ i = p
    BY <1>6, <2>1
  <2> QED
    BY <1>8, <2>2, Joins
<1> QED
  BY <1>7, <1>8

\* An object is put into the list of a queue or topic.
LEMMA WaitAppend ==
  ASSUME TypeOK, OnePlace, attr' = attr, NEW k \in Dests, NEW x \in Subs,
         waiting' = [waiting EXCEPT ![k] = Append(@, x)], NEW s \in Subs
  PROVE  /\ s # x => Keeps("wait", s)
         /\ ~In("wait", s) => Single("wait", s)'
<1>0. Unique(s) /\ "wait" \in Places
  BY PlaceNames DEF OnePlace
<1>1. PICK l \in Seq(Subs) : l = waiting[k]
  BY DEF TypeOK
<1>2. PICK n \in Nat : n = Len(l)
  OBVIOUS
<1>3. PICK t \in Seq(Subs) : t = Append(l, x)
  BY AppendProperties
<1>4. Len(t) = n + 1 /\ t[n + 1] = x /\ \A i \in 1 .. n : t[i] = l[i]
  BY <1>2, <1>3, AppendProperties
<1>5. waiting'[k] = t /\ \A h \in Dests : h # k => waiting'[h] = waiting[h]
  BY <1>1, <1>3 DEF TypeOK
<1>6. \A i \in Nat : Place("wait", i, s)' => Place("wait", i, s) \/ (i = n + 1 /\ s = x)
  <2> SUFFICES ASSUME NEW i \in Nat, Place("wait", i, s)', ~(i = n + 1 /\ s = x)
               PROVE  Place("wait", i, s)
    OBVIOUS
  <2>1. CASE attr[s].dest = k
    <3>1. i \in 1 .. n + 1 /\ t[i] = s
      BY <1>4, <1>5, <2>1 DEF Place, WaitAt
    <3>2. i \in 1 .. Len(l) /\ l[i] = s
      BY <1>2, <1>4, <3>1
    <3> QED
      BY <1>1, <2>1, <3>2, PlaceIs DEF WaitAt
  <2>2. CASE attr[s].dest # k
    BY <1>5, <2>2 DEF Place, WaitAt
  <2> QED
    BY <2>1, <2>2
<1>7. ASSUME s # x PROVE Keeps("wait", s)
  <2>1. \A i \in Nat : Place("wait", i, s)' => Place("wait", i + 0, s)
    BY <1>6, <1>7
  <2> QED
    BY <1>0, <2>1, MovesUp
<1>8. ASSUME ~In("wait", s) PROVE Single("wait", s)'
  <2>1. PICK p : p = n + 1
    OBVIOUS
  <2>2. \A i \in Nat : Place("wait", i, s)' => Place("wait", i, s) \/ i = p
    BY <1>6, <2>1
  <2> QED
    BY <1>8, <2>2, Joins
<1> QED
  BY <1>7, <1>8

\* A handler computes its requests.
LEMMA OutSet ==
  ASSUME TypeOK, OnePlace, attr' = attr, NEW k \in Conns, NEW u \in Seq(Requests),
         out' = [out EXCEPT ![k] = u], NEW s \in Subs
  PROVE  /\ (\A i \in 1 .. Len(u) : u[i] # SubscribeReq(s)) => Keeps("out", s)
         /\ (\A i, j \in 1 .. Len(u) : u[i] = SubscribeReq(s) /\ u[j] = SubscribeReq(s) => i = j)
              => Single("out", s)'
<1>0. Unique(s) /\ "out" \in Places
  BY PlaceNames DEF OnePlace
<1>1. out'[k] = u /\ \A h \in Conns : h # k => out'[h] = out[h]
  BY DEF TypeOK
<1>2. \A i \in Nat : Place("out", i, s)' =>
        \/ attr[s].conn # k /\ Place("out", i + 0, s)
        \/ attr[s].conn = k /\ i \in 1 .. Len(u) /\ u[i] = SubscribeReq(s)
  BY <1>1 DEF Place, OutAt
<1>3. ASSUME \A i \in 1 .. Len(u) : u[i] # SubscribeReq(s) PROVE Keeps("out", s)
  <2>1. \A i \in Nat : Place("out", i, s)' => Place("out", i + 0, s)
    BY <1>2, <1>3
  <2> QED
    BY <1>0, <2>1, MovesUp
<1>4. ASSUME \A i, j \in 1 .. Len(u) : u[i] = SubscribeReq(s) /\ u[j] = SubscribeReq(s) => i = j
      PROVE  Single("out", s)'
  <2>1. CASE attr[s].conn = k
    BY <1>2, <1>4, <2>1 DEF Single
  <2>2. CASE attr[s].conn # k
    <3>1. \A i \in Nat : Place("out", i, s)' => Place("out", i + 0, s)
      BY <1>2, <2>2
    <3> QED
      BY <1>0, <3>1, MovesUp DEF Keeps
  <2> QED
    BY <2>1, <2>2
<1> QED
  BY <1>3, <1>4

\* The processor has picked x for the frame m.
LEMMA ProcSet ==
  ASSUME TypeOK, OnePlace, NEW x \in Subs, NEW m, procOut' = <<[sub |-> x, msg |-> m]>>,
         NEW s \in Subs
  PROVE  Single("proc", s)' /\ (s # x => Keeps("proc", s))
<1>1. Len(procOut') = 1 /\ procOut'[1] = [sub |-> x, msg |-> m]
  OBVIOUS
<1>2. \A i \in Nat : Place("proc", i, s)' => i = 1 /\ s = x
  BY <1>1 DEF Place, ProcAt
<1>3. Single("proc", s)'
  BY <1>2 DEF Single
<1>4. ASSUME s # x PROVE Keeps("proc", s)
  <2>1. \A i \in Nat : ~Place("proc", i, s)'
    BY <1>2, <1>4
  <2> QED
    BY <2>1, NotThere
<1> QED
  BY <1>3, <1>4

\* The processor has done one send.
LEMMA ProcTail ==
  ASSUME TypeOK, OnePlace, procOut # <<>>, procOut' = Tail(procOut), dest' = dest, NEW s \in Subs
  PROVE  /\ Keeps("proc", s)
         /\ procOut[1].sub = s /\ ToQueues(procOut[1].msg) => In("proc", s) /\ ~In("proc", s)'
<1>0. Unique(s) /\ "proc" \in Places
  BY PlaceNames DEF OnePlace
<1>1. /\ 1 \in 1 .. Len(procOut) /\ Len(procOut) \in Nat
      /\ Len(Tail(procOut)) = Len(procOut) - 1
      /\ \A i \in 1 .. Len(Tail(procOut)) :
           i + 1 \in 1 .. Len(procOut) /\ Tail(procOut)[i] = procOut[i + 1]
  BY HeadFacts DEF TypeOK
<1>2. \A i \in Nat : Place("proc", i, s)' => Place("proc", i + 1, s) /\ i # 0
  <2> SUFFICES ASSUME NEW i \in Nat, Place("proc", i, s)' PROVE Place("proc", i + 1, s) /\ i # 0
    OBVIOUS
  <2>1. /\ i \in 1 .. Len(Tail(procOut)) /\ Tail(procOut)[i].sub = s
        /\ dest[Tail(procOut)[i].msg] \in Queues
    BY DEF Place, ProcAt, ToQueues
  <2> QED
    BY <1>1, <2>1, PlaceIs DEF ProcAt, ToQueues
<1>3. Keeps("proc", s)
  BY <1>0, <1>2, MovesUp
<1>4. ASSUME procOut[1].sub = s, ToQueues(procOut[1].msg)
      PROVE  In("proc", s) /\ ~In("proc", s)'
  <2>1. Place("proc", 1, s)
    BY <1>1, <1>4, PlaceIs DEF ProcAt
  <2> QED
    BY <1>0, <1>2, <2>1, Leaves
<1> QED
  BY <1>3, <1>4

\* The list of those to be acknowledged gets shorter.
LEMMA ListLess ==
  ASSUME TypeOK, OnePlace, attr' = attr, NEW k \in Conns, NEW t \in Seq(Subs),
         subList' = [subList EXCEPT ![k] = t], Distinct(t),
         Elems(t) \subseteq Elems(subList[k]), NEW s \in Subs
  PROVE  /\ Keeps("list", s)
         /\ s \notin Elems(t) /\ attr[s].conn = k => ~In("list", s)'
<1>0. Unique(s) /\ "list" \in Places
  BY PlaceNames DEF OnePlace
<1>1. subList'[k] = t /\ \A h \in Conns : h # k => subList'[h] = subList[h]
  BY DEF TypeOK
<1>2. CASE attr[s].conn # k
  <2>1. \A i \in Nat : Place("list", i, s)' => Place("list", i + 0, s)
    BY <1>1, <1>2 DEF Place, ListAt
  <2> QED
    BY <1>0, <1>2, <2>1, MovesUp
<1>3. CASE attr[s].conn = k
  <2>1. \A i \in Nat : Place("list", i, s)' => i \in 1 .. Len(t) /\ t[i] = s
    BY <1>1, <1>3 DEF Place, ListAt
  <2>2. Single("list", s)'
    BY <2>1 DEF Single, Distinct
  <2>3. \A i \in Nat : Place("list", i, s)' => s \in Elems(t)
    BY <2>1 DEF Elems
  <2>4. ASSUME s \in Elems(t) PROVE In("list", s)
    <3>1. PICK j \in 1 .. Len(subList[k]) : subList[k][j] = s
      BY <2>4 DEF Elems
    <3>2. j \in Nat /\ Place("list", j, s)
      BY <1>3, <3>1, PlaceIs DEF ListAt
    <3> QED
      BY <3>2 DEF In
  <2>5. In("list", s)' => s \in Elems(t)
    BY <2>3 DEF In
  <2> QED
    BY <1>3, <2>2, <2>4, <2>5 DEF Keeps
<1> QED
  BY <1>2, <1>3

\* Removing x from a list in which it is at most once.
LEMMA WithoutFacts ==
  ASSUME NEW l \in Seq(Subs), NEW x \in Subs,
         \A i, j \in 1 .. Len(l) : l[i] = x /\ l[j] = x => i = j
  PROVE  /\ Without(l, x) \in Seq(Subs)
         /\ \/ Without(l, x) = l /\ \A i \in 1 .. Len(l) : l[i] # x
            \/ \E p \in 1 .. Len(l) :
                 /\ l[p] = x /\ Len(Without(l, x)) = Len(l) - 1
                 /\ \A i \in 1 .. Len(l) - 1 :
                      Without(l, x)[i] = IF i < p THEN l[i] ELSE l[i + 1]
<1>1. DOMAIN l = 1 .. Len(l) /\ Len(l) \in Nat
  OBVIOUS
<1>2. CASE \A i \in 1 .. Len(l) : l[i] # x
  <2>1. {i \in DOMAIN l : l[i] = x} = {}
    BY <1>1, <1>2
  <2>2. Without(l, x) = l
    BY <2>1 DEF Without
  <2> QED
    BY <1>2, <2>2
<1>3. CASE \E i \in 1 .. Len(l) : l[i] = x
  <2>1. PICK p \in 1 .. Len(l) : l[p] = x
    BY <1>3
  <2>2. {i \in DOMAIN l : l[i] = x} = {p}
    BY <1>1, <2>1
  <2>3. (CHOOSE i \in {p} : \A j \in {p} : i <= j) = p
    OBVIOUS
  <2>4. Without(l, x) = [i \in 1 .. Len(l) - 1 |-> IF i < p THEN l[i] ELSE l[i + 1]]
    BY <2>2, <2>3 DEF Without
  <2>5. PICK n \in Nat : n = Len(l) - 1
    <3>1. PICK z \in Nat : z = Len(l)
      BY <1>1
    <3>2. z - 1 \in Nat
      BY <2>1, <3>1
    <3> QED
      BY <3>1, <3>2
  <2>6. \A i \in 1 .. n : i \in 1 .. Len(l) /\ i + 1 \in 1 .. Len(l)
    BY <1>1, <2>5
  <2>7. \A i \in 1 .. Len(l) : l[i] \in Subs
    OBVIOUS
  <2>8. [i \in 1 .. n |-> IF i < p THEN l[i] ELSE l[i + 1]] \in [1 .. n -> Subs]
    BY <2>6, <2>7
  <2>9. PICK w \in [1 .. n -> Subs] : w = [i \in 1 .. n |-> IF i < p THEN l[i] ELSE l[i + 1]]
    BY <2>8
  <2>10. w \in Seq(Subs) /\ Len(w) = n
    BY <2>9, FunSeq
  <2>11. Without(l, x) = w /\ \A i \in 1 .. n : w[i] = IF i < p THEN l[i] ELSE l[i + 1]
    BY <2>4, <2>5, <2>9
  <2>12. \A i \in 1 .. Len(l) - 1 : w[i] = IF i < p THEN l[i] ELSE l[i + 1]
    BY <2>5, <2>11
  <2> QED
    BY <2>1, <2>5, <2>10, <2>11, <2>12
<1> QED
  BY <1>2, <1>3

\* The list of a queue or topic has nobody twice.
LEMMA WaitOnce ==
  ASSUME TypeOK, Homes, OnePlace, NEW d \in Dests, NEW s \in Subs,
         NEW i \in 1 .. Len(waiting[d]), NEW j \in 1 .. Len(waiting[d]),
         waiting[d][i] = s, waiting[d][j] = s
  PROVE  i = j
<1>1. attr[s].dest = d /\ i \in Nat /\ j \in Nat
  BY DEF Homes, HomeSubs, HomeSub, HomeList, HomeWait
<1>2. WaitAt(i, s) /\ WaitAt(j, s)
  BY <1>1 DEF WaitAt
<1> QED
  BY <1>1, <1>2, PlaceIs, PlaceNames DEF OnePlace, Unique, Single

\* Removing an object from the list of its queue or topic.
LEMMA WaitWithout ==
  ASSUME TypeOK, Homes, OnePlace, attr' = attr, NEW d \in Dests, NEW x \in Subs, attr[x].dest = d,
         waiting' = [waiting EXCEPT ![d] = Without(@, x)], NEW s \in Subs
  PROVE  /\ Keeps("wait", s) /\ waiting' \in [Dests -> Seq(Subs)]
         /\ s # x => (In("wait", s) => In("wait", s)')
         /\ ~In("wait", x)'
<1>0. Unique(s) /\ "wait" \in Places
  BY PlaceNames DEF OnePlace
<1>1. PICK l \in Seq(Subs) : l = waiting[d]
  BY DEF TypeOK
<1>2. \A i, j \in 1 .. Len(l) : l[i] = x /\ l[j] = x => i = j
  BY <1>1, WaitOnce
<1>3. PICK w \in Seq(Subs) :
         /\ w = Without(l, x)
         /\ \/ w = l /\ \A i \in 1 .. Len(l) : l[i] # x
            \/ \E p \in 1 .. Len(l) :
                 /\ l[p] = x /\ Len(w) = Len(l) - 1
                 /\ \A i \in 1 .. Len(l) - 1 : w[i] = IF i < p THEN l[i] ELSE l[i + 1]
  BY <1>2, WithoutFacts
<1>4. waiting'[d] = w /\ \A h \in Dests : h # d => waiting'[h] = waiting[h]
  BY <1>1, <1>3 DEF TypeOK
<1>5. waiting' \in [Dests -> Seq(Subs)]
  BY <1>1, <1>3 DEF TypeOK
<1>6. Len(l) \in Nat
  OBVIOUS
<1>7. \A i \in 1 .. Len(w) : w[i] # x
  <2>1. CASE w = l /\ \A i \in 1 .. Len(l) : l[i] # x
    BY <2>1
  <2>2. ASSUME NEW p \in 1 .. Len(l), l[p] = x, Len(w) = Len(l) - 1,
               \A i \in 1 .. Len(l) - 1 : w[i] = IF i < p THEN l[i] ELSE l[i + 1]
        PROVE  \A i \in 1 .. Len(w) : w[i] # x
    <3> SUFFICES ASSUME NEW i \in 1 .. Len(w), w[i] = x PROVE FALSE
      OBVIOUS
    <3>1. CASE i < p
      <4>1. i \in 1 .. Len(l) /\ l[i] = x
        BY <1>6, <2>2, <3>1
      <4> QED
        BY <1>2, <2>2, <3>1, <4>1
    <3>2. CASE ~(i < p)
      <4>1. i + 1 \in 1 .. Len(l) /\ l[i + 1] = x /\ i + 1 # p
        BY <1>6, <2>2, <3>2
      <4> QED
        BY <1>2, <2>2, <4>1
    <3> QED
      BY <3>1, <3>2
  <2> QED
    BY <1>3, <2>1, <2>2
<1>8. \A i \in Nat : ~Place("wait", i, x)'
  BY <1>4, <1>7 DEF Place, WaitAt
<1>9. CASE attr[s].dest # d
  <2>1. \A i \in Nat : Place("wait", i, s)' <=> Place("wait", i, s)
    BY <1>4, <1>9 DEF Place, WaitAt
  <2> QED
    BY <1>0, <1>5, <1>8, <2>1, SamePlace, NotThere DEF Same, Unique
<1>10. CASE attr[s].dest = d /\ s # x
  <2>1. \A i \in Nat : Place("wait", i, s)' <=> i \in 1 .. Len(w) /\ w[i] = s
    BY <1>4, <1>10 DEF Place, WaitAt
  <2>2. \A i \in Nat : Place("wait", i, s) <=> i \in 1 .. Len(l) /\ l[i] = s
    BY <1>1, <1>10 DEF Place, WaitAt
  <2>3. CASE w = l
    <3>1. \A i \in Nat : Place("wait", i, s)' <=> Place("wait", i, s)
      BY <2>1, <2>2, <2>3
    <3> QED
      BY <1>0, <1>5, <1>8, <3>1, SamePlace, NotThere DEF Same, Unique
  <2>4. ASSUME NEW p \in 1 .. Len(l), l[p] = x, Len(w) = Len(l) - 1,
               \A i \in 1 .. Len(l) - 1 : w[i] = IF i < p THEN l[i] ELSE l[i + 1]
        PROVE  Keeps("wait", s) /\ (In("wait", s) => In("wait", s)')
    <3>1. \A i \in Nat : Place("wait", i, s)' /\ i < p => Place("wait", i, s)
      BY <1>6, <2>1, <2>2, <2>4
    <3>2. \A i \in Nat : Place("wait", i, s)' /\ ~(i < p) => Place("wait", i + 1, s)
      <4> SUFFICES ASSUME NEW i \in Nat, Place("wait", i, s)', ~(i < p)
                   PROVE  Place("wait", i + 1, s)
        OBVIOUS
      <4>1. i \in 1 .. Len(l) - 1 /\ w[i] = s
        BY <2>1, <2>4
      <4>2. i + 1 \in 1 .. Len(l) /\ l[i + 1] = s /\ i + 1 \in Nat
        BY <1>6, <2>4, <4>1
      <4> QED
        BY <2>2, <4>2
    <3>3. \A i, j \in Nat : Place("wait", i, s) /\ Place("wait", j, s) => i = j
      BY <1>0 DEF Unique, Single
    <3>4. Single("wait", s)'
      <4> SUFFICES ASSUME NEW i \in Nat, NEW j \in Nat, Place("wait", i, s)', Place("wait", j, s)'
                   PROVE  i = j
        BY DEF Single
      <4>1. i + 1 \in Nat /\ j + 1 \in Nat
        OBVIOUS
      <4> QED
        BY <3>1, <3>2, <3>3, <4>1
    <3>5. In("wait", s)' => In("wait", s)
      <4> SUFFICES ASSUME NEW i \in Nat, Place("wait", i, s)' PROVE In("wait", s)
        BY DEF In
      <4>1. i + 1 \in Nat
        OBVIOUS
      <4> QED
        BY <3>1, <3>2, <4>1 DEF In
    <3>6. ASSUME NEW i \in Nat, Place("wait", i, s) PROVE \E j \in Nat : Place("wait", j, s)'
      <4>1. i \in 1 .. Len(l) /\ l[i] = s /\ i # p
        BY <1>10, <2>2, <2>4, <3>6
      <4>2. CASE i < p
        <5>1. i \in 1 .. Len(w) /\ w[i] = s
          BY <1>6, <2>4, <4>1, <4>2
        <5> QED
          BY <2>1, <5>1
      <4>3. CASE ~(i < p)
        <5>1. i - 1 \in 1 .. Len(w) /\ ~(i - 1 < p) /\ i - 1 \in Nat /\ (i - 1) + 1 = i
          BY <1>6, <2>4, <4>1, <4>3
        <5>2. w[i - 1] = s
          BY <2>4, <4>1, <5>1
        <5> QED
          BY <2>1, <5>1, <5>2
      <4> QED
        BY <4>2, <4>3
    <3>7. In("wait", s) => In("wait", s)'
      BY <3>6 DEF In
    <3> QED
      BY <3>4, <3>5, <3>7 DEF Keeps
  <2> QED
    BY <1>3, <1>5, <1>8, <2>3, <2>4, NotThere
<1>11. CASE s = x
  BY <1>5, <1>8, <1>11, NotThere
<1> QED
  BY <1>9, <1>10, <1>11
-----------------------------------------------------------------------------
(***************************************************************************)
(* One lemma for each action: it keeps ObjInv.                             *)
(***************************************************************************)
Rest(s) == \A c \in Places : Keeps(c, s)

\* An object that is not touched.
LEMMA Rests ==
  ASSUME NEW s \in Subs, Unique(s), Rest(s)
  PROVE  Unique(s)' /\ \A c \in Places : In(c, s)' => In(c, s)
BY DEF Unique, Rest, Keeps

\* Its frame is what it was.
LEMMA RestsFramed ==
  ASSUME NEW s \in Subs, FramedAs(s), \A c \in Places : In(c, s)' => In(c, s),
         frame'[s] = frame[s], attr' = attr, dest' = dest
  PROVE  FramedAs(s)'
<1>1. \A c \in Free : In(c, s)' => In(c, s)
  BY PlaceNames
<1>2. \A c \in Busy : In(c, s)' => In(c, s)
  BY PlaceNames
<1> QED
  BY <1>1, <1>2 DEF FramedAs

\* An object that goes from c to e.
LEMMA Moves ==
  ASSUME NEW s \in Subs, Unique(s), NEW c \in Places, NEW e \in Places,
         In(c, s), ~In(c, s)', Single(e, s)',
         \A x \in Places : x # c /\ x # e => Keeps(x, s)
  PROVE  Unique(s)' /\ \A x \in Places : In(x, s)' => x = e
<1>1. \A x \in Places : In(x, s)' => x = e
  BY DEF Unique, Keeps
<1>2. \A x \in Places : Single(x, s)'
  <2> SUFFICES ASSUME NEW x \in Places PROVE Single(x, s)'
    OBVIOUS
  <2>1. CASE x = c
    BY <2>1 DEF In, Single
  <2> QED
    BY <2>1 DEF Keeps
<1> QED
  BY <1>1, <1>2 DEF Unique

\* What is not touched stays where it belongs.
LEMMA HomesStay ==
  ASSUME Homes, attr' = attr, dest' = dest
  PROVE  /\ subs' = subs => HomeSubs'
         /\ out' = out => HomeOut'
         /\ requestCh' = requestCh => HomeReq'
         /\ waiting' = waiting => HomeWait'
         /\ storage' = storage => HomeStore'
         /\ procOut' = procOut => HomeProc'
         /\ subCh' = subCh => HomeSub'
         /\ subList' = subList => HomeList'
<1>1. ASSUME subs' = subs PROVE HomeSubs'
  BY <1>1 DEF Homes, HomeSubs, Known
<1>2. ASSUME out' = out PROVE HomeOut'
  BY <1>2 DEF Homes, HomeOut, GoodReq, ToQueues
<1>3. ASSUME requestCh' = requestCh PROVE HomeReq'
  BY <1>3 DEF Homes, HomeReq, GoodReq, ToQueues
<1>4. ASSUME waiting' = waiting PROVE HomeWait'
  BY <1>4 DEF Homes, HomeWait
<1>5. ASSUME storage' = storage PROVE HomeStore'
  BY <1>5 DEF Homes, HomeStore
<1>6. ASSUME procOut' = procOut PROVE HomeProc'
  BY <1>6 DEF Homes, HomeProc
<1>7. ASSUME subCh' = subCh PROVE HomeSub'
  BY <1>7 DEF Homes, HomeSub
<1>8. ASSUME subList' = subList PROVE HomeList'
  BY <1>8 DEF Homes, HomeList
<1> QED
  BY <1>1, <1>2, <1>3, <1>4, <1>5, <1>6, <1>7, <1>8

\* The lists of the queues and inList are not touched.
LEMMA ListedStays ==
  ASSUME OnePlace, Listed, attr' = attr, waiting' = waiting, inList' = inList
  PROVE  Listed'
<1>1. \A s \in Subs : In("wait", s)' <=> In("wait", s)
  BY Still DEF Same
<1> QED
  BY <1>1 DEF Listed

\* The objects that the processor is about to send keep their frame.
LEMMA ProcFramedStays ==
  ASSUME TypeOK, ProcFramed, procOut' = procOut, dest' = dest,
         \A s \in Subs : In("proc", s) => frame'[s] = frame[s]
  PROVE  ProcFramed'
<1> SUFFICES ASSUME NEW i \in 1 .. Len(procOut), ToQueues(procOut[i].msg)
             PROVE  frame'[procOut[i].sub] = procOut[i].msg
  BY DEF ProcFramed, ToQueues
<1>1. procOut[i].sub \in Subs /\ i \in Nat
  <2>1. procOut[i] \in Deliveries
    BY DEF TypeOK
  <2> QED
    BY <2>1 DEF Deliveries
<1>2. In("proc", procOut[i].sub)
  BY <1>1, PlaceIs DEF In, ProcAt
<1> QED
  BY <1>1, <1>2 DEF ProcFramed

\* PutRequest moves an object with its request.
LEMMA PutRequestStep ==
  ASSUME ObjInv, NEW k \in Conns, PutRequest(k)
  PROVE  ObjInv'
<1>1. /\ out[k] # <<>> /\ requestCh' = Append(requestCh, Head(out[k]))
      /\ out' = [out EXCEPT ![k] = Tail(@)]
      /\ UNCHANGED <<phase, subs, subList, subCh, writeCh, log, attr, frame, inList, procOut,
                     storage, waiting, dest, settled, dropped, owed, panicked>>
  BY DEF PutRequest, subVars, histVars
<1>2. PICK l \in Seq(Requests) : l = out[k]
  BY DEF ObjInv, TypeOK
<1>3. /\ Head(l) = l[1] /\ l[1] \in Requests /\ 1 \in 1 .. Len(l)
      /\ Tail(l) \in Seq(Requests) /\ Len(Tail(l)) = Len(l) - 1
      /\ \A i \in 1 .. Len(Tail(l)) : i + 1 \in 1 .. Len(l) /\ Tail(l)[i] = l[i + 1]
  BY <1>1, <1>2, HeadFacts
<1>4. PICK r \in Requests : r = Head(l)
  BY <1>3
<1>5. TypeOK'
  <2>1. out' \in [Conns -> Seq(Requests)]
    BY <1>1, <1>2, <1>3 DEF ObjInv, TypeOK
  <2>2. requestCh' \in Seq(Requests)
    BY <1>1, <1>2, <1>4, AppendProperties DEF ObjInv, TypeOK
  <2> QED
    BY <1>1, <2>1, <2>2 DEF ObjInv, TypeOK
<1>6. Homes'
  <2>0. out'[k] = Tail(l) /\ \A h \in Conns : h # k => out'[h] = out[h]
    BY <1>1, <1>2 DEF ObjInv, TypeOK
  <2>1. HomeOut'
    <3>1. ASSUME NEW h \in Conns, NEW i \in 1 .. Len(out'[h])
          PROVE  \E j \in 1 .. Len(out[h]) : out'[h][i] = out[h][j]
      <4>1. CASE h = k
        <5>1. i \in 1 .. Len(Tail(l)) /\ out'[h][i] = Tail(l)[i]
          BY <2>0, <4>1
        <5> QED
          BY <1>2, <1>3, <4>1, <5>1
      <4>2. CASE h # k
        BY <2>0, <4>2
      <4> QED
        BY <4>1, <4>2
    <3> QED
      BY <1>1, <3>1 DEF ObjInv, Homes, HomeOut, GoodReq, ToQueues
  <2>2. HomeReq'
    <3>1. GoodReq(r)
      BY <1>2, <1>3, <1>4 DEF ObjInv, Homes, HomeOut
    <3>2. ASSUME NEW i \in 1 .. Len(requestCh')
          PROVE  requestCh'[i] = r \/ \E j \in 1 .. Len(requestCh) : requestCh'[i] = requestCh[j]
      BY <1>1, <1>2, <1>4, AppendProperties DEF ObjInv, TypeOK
    <3> QED
      BY <1>1, <3>1, <3>2 DEF ObjInv, Homes, HomeReq, GoodReq, ToQueues
  <2> QED
    BY <1>1, <2>1, <2>2, HomesStay DEF ObjInv, Homes
<1>7. ASSUME NEW s \in Subs PROVE Unique(s)' /\ FramedAs(s)'
  <2>1. Unique(s) /\ FramedAs(s)
    BY DEF ObjInv, OnePlace, Framed
  <2>2. Keeps("wait", s) /\ Keeps("proc", s) /\ Keeps("sub", s) /\ Keeps("list", s)
    BY <1>1, Still DEF ObjInv, Same
  <2>3. CASE r # SubscribeReq(s)
    <3>1. Keeps("out", s) /\ Keeps("req", s)
      BY <1>1, <1>2, <1>4, <2>3, OutTail, ReqAppend DEF ObjInv
    <3>2. Rest(s)
      BY <2>2, <3>1, PlaceNames DEF Rest
    <3> QED
      BY <1>1, <2>1, <3>2, Rests, RestsFramed
  <2>4. CASE r = SubscribeReq(s)
    <3>1. attr[s].conn = k
      BY <1>2, <1>3, <1>4, <2>4 DEF ObjInv, Homes, HomeOut, SubscribeReq
    <3>2. In("out", s) /\ ~In("out", s)'
      BY <1>1, <1>2, <1>3, <1>4, <2>4, <3>1, OutTail DEF ObjInv
    <3>3. ~In("req", s)
      BY <2>1, <3>2, PlaceNames DEF Unique
    <3>4. Single("req", s)'
      BY <1>1, <1>2, <1>4, <3>3, ReqAppend DEF ObjInv
    <3>5. Unique(s)' /\ \A x \in Places : In(x, s)' => x = "req"
      BY <2>1, <2>2, <3>2, <3>4, Moves, PlaceNames
    <3>6. frame[s] = None
      BY <2>1, <3>2, PlaceNames DEF FramedAs
    <3> QED
      BY <1>1, <3>5, <3>6, PlaceNames DEF FramedAs
  <2> QED
    BY <2>3, <2>4
<1>8. OnePlace'
  BY <1>7 DEF OnePlace
<1>9. Framed'
  <2>1. ProcFramed'
    BY <1>1, ProcFramedStays DEF ObjInv, Framed
  <2> QED
    BY <1>7, <2>1 DEF Framed
<1>10. Listed'
  BY <1>1, ListedStays DEF ObjInv
<1> QED
  BY <1>5, <1>6, <1>8, <1>9, <1>10 DEF ObjInv

\* A request of a handler of connection k.
Proper(r, k) == GoodReq(r) /\ (r.op \in {"Subscribe", "Unsubscribe"} => attr[r.sub].conn = k)

\* A handler has computed its requests.
LEMMA HomeOutSet ==
  ASSUME TypeOK, Homes, attr' = attr, dest' = dest, NEW k \in Conns, NEW u \in Seq(Requests),
         \A i \in 1 .. Len(u) : Proper(u[i], k), out' = [out EXCEPT ![k] = u]
  PROVE  HomeOut' /\ out' \in [Conns -> Seq(Requests)]
<1>1. out'[k] = u /\ \A h \in Conns : h # k => out'[h] = out[h]
  BY DEF TypeOK
<1>2. out' \in [Conns -> Seq(Requests)]
  BY DEF TypeOK
<1>3. ASSUME NEW h \in Conns, NEW i \in 1 .. Len(out'[h]) PROVE Proper(out'[h][i], h)
  <2>1. CASE h = k
    BY <1>1, <2>1
  <2>2. CASE h # k
    BY <1>1, <2>2 DEF Homes, HomeOut, Proper
  <2> QED
    BY <2>1, <2>2
<1>4. HomeOut'
  BY <1>3 DEF HomeOut, Proper, GoodReq, ToQueues
<1> QED
  BY <1>2, <1>4

\* A connection takes an object from subChannel.
LEMMA HomeSubTail ==
  ASSUME TypeOK, Homes, attr' = attr, NEW k \in Conns, subCh[k] # <<>>,
         subCh' = [subCh EXCEPT ![k] = Tail(@)]
  PROVE  HomeSub' /\ subCh' \in [Conns -> Seq(Subs)]
<1>1. PICK l \in Seq(Subs) : l = subCh[k]
  BY DEF TypeOK
<1>2. /\ Tail(l) \in Seq(Subs)
      /\ \A i \in 1 .. Len(Tail(l)) : i + 1 \in 1 .. Len(l) /\ Tail(l)[i] = l[i + 1]
  BY <1>1, HeadFacts
<1>3. subCh'[k] = Tail(l) /\ \A h \in Conns : h # k => subCh'[h] = subCh[h]
  BY <1>1 DEF TypeOK
<1>4. subCh' \in [Conns -> Seq(Subs)]
  BY <1>1, <1>2 DEF TypeOK
<1>5. ASSUME NEW h \in Conns, NEW i \in 1 .. Len(subCh'[h]) PROVE attr[subCh'[h][i]].conn = h
  <2>1. CASE h = k
    <3>1. i \in 1 .. Len(Tail(l)) /\ subCh'[h][i] = Tail(l)[i]
      BY <1>3, <2>1
    <3>2. i + 1 \in 1 .. Len(l) /\ subCh'[h][i] = l[i + 1]
      BY <1>2, <3>1
    <3> QED
      BY <1>1, <2>1, <3>2 DEF Homes, HomeSub
  <2>2. CASE h # k
    BY <1>3, <2>2 DEF Homes, HomeSub
  <2> QED
    BY <2>1, <2>2
<1> QED
  BY <1>4, <1>5 DEF HomeSub

\* A list of one request.
LEMMA OneRequest ==
  ASSUME NEW r \in Requests
  PROVE  <<r>> \in Seq(Requests) /\ Len(<<r>>) = 1 /\ \A i \in 1 .. 1 : <<r>>[i] = r
OBVIOUS

\* The same, to be named.
LEMMA ListOfOne ==
  ASSUME NEW r \in Requests
  PROVE  \E u \in Seq(Requests) : u = <<r>> /\ Len(u) = 1 /\ \A i \in 1 .. Len(u) : u[i] = r
<1>1. PICK u \in Seq(Requests) : u = <<r>> /\ Len(u) = 1 /\ u[1] = r
  BY OneRequest
<1>2. \A j \in 1 .. Len(u) : u[j] = r
  BY <1>1
<1> QED
  BY <1>1, <1>2

\* A connection that gives up objects and asks for none.
Quiet(k) ==
  /\ attr' = attr /\ frame' = frame /\ dest' = dest
  /\ \E u \in Seq(Requests) :
       /\ out' = [out EXCEPT ![k] = u]
       /\ \A i \in 1 .. Len(u) : Proper(u[i], k) /\ u[i].op # "Subscribe"
  /\ subCh' = subCh \/ (subCh[k] # <<>> /\ subCh' = [subCh EXCEPT ![k] = Tail(@)])
  /\ subList' = subList \/ subList' = [subList EXCEPT ![k] = <<>>]
  /\ \A s \in Subs : inList'[s] => inList[s]
  /\ UNCHANGED <<requestCh, procOut, storage, waiting>>

\* Such a step keeps the invariant.
LEMMA QuietStep ==
  ASSUME ObjInv, NEW k \in Conns, Quiet(k), TypeOK', HomeSubs'
  PROVE  ObjInv'
<1>1. PICK u \in Seq(Requests) :
        /\ out' = [out EXCEPT ![k] = u]
        /\ \A i \in 1 .. Len(u) : Proper(u[i], k) /\ u[i].op # "Subscribe"
  BY DEF Quiet
<1>2. /\ attr' = attr /\ frame' = frame /\ dest' = dest /\ waiting' = waiting
      /\ procOut' = procOut /\ requestCh' = requestCh /\ storage' = storage
  BY DEF Quiet
<1>3. <<>> \in Seq(Subs) /\ Distinct(<<>>) /\ Elems(<<>>) \subseteq Elems(subList[k])
  BY DEF Distinct, Elems
<1>4. Homes'
  <2>1. HomeOut'
    BY <1>1, <1>2, HomeOutSet DEF ObjInv
  <2>2. HomeSub'
    BY <1>2, HomeSubTail, HomesStay DEF ObjInv, Quiet
  <2>3. HomeList'
    <3>1. CASE subList' = subList
      BY <1>2, <3>1, HomesStay DEF ObjInv
    <3>2. CASE subList' = [subList EXCEPT ![k] = <<>>]
      <4>1. subList'[k] = <<>> /\ \A h \in Conns : h # k => subList'[h] = subList[h]
        BY <3>2 DEF ObjInv, TypeOK
      <4> QED
        BY <1>2, <4>1 DEF ObjInv, Homes, HomeList
    <3> QED
      BY <3>1, <3>2 DEF Quiet
  <2> QED
    BY <1>2, <2>1, <2>2, <2>3, HomesStay DEF ObjInv, Homes
<1>5. ASSUME NEW s \in Subs PROVE Unique(s)' /\ FramedAs(s)'
  <2>1. Unique(s) /\ FramedAs(s)
    BY DEF ObjInv, OnePlace, Framed
  <2>2. Keeps("wait", s) /\ Keeps("proc", s) /\ Keeps("req", s)
    BY <1>2, Still DEF ObjInv, Same
  <2>3. Keeps("sub", s)
    BY <1>2, Still, SubTail DEF ObjInv, Same, Quiet
  <2>4. Keeps("list", s)
    BY <1>2, <1>3, Still, ListLess DEF ObjInv, Same, Quiet
  <2>5. Keeps("out", s)
    <3>1. \A i \in 1 .. Len(u) : u[i] # SubscribeReq(s)
      BY <1>1 DEF SubscribeReq
    <3> QED
      BY <1>1, <1>2, <3>1, OutSet DEF ObjInv
  <2>6. Rest(s)
    BY <2>2, <2>3, <2>4, <2>5, PlaceNames DEF Rest
  <2> QED
    BY <1>2, <2>1, <2>6, Rests, RestsFramed
<1>6. OnePlace'
  BY <1>5 DEF OnePlace
<1>7. Framed'
  <2>1. ProcFramed'
    BY <1>2, ProcFramedStays DEF ObjInv, Framed
  <2> QED
    BY <1>5, <2>1 DEF Framed
<1>8. Listed'
  <2>1. \A s \in Subs : In("wait", s)' <=> In("wait", s)
    BY <1>2, Still DEF ObjInv, Same
  <2> QED
    BY <1>2, <2>1 DEF ObjInv, Listed, Quiet
<1> QED
  BY <1>4, <1>6, <1>7, <1>8 DEF ObjInv

\* Requests that are proper.
LEMMA ProperReqs ==
  ASSUME NEW k \in Conns
  PROVE  /\ \A m \in Msgs : ToQueues(m) => /\ Proper(RequeueReq(m), k)
                                           /\ RequeueReq(m).op # "Subscribe"
         /\ \A s \in Subs : attr[s].conn = k => /\ Proper(UnsubscribeReq(s), k)
                                                /\ UnsubscribeReq(s).op # "Subscribe"
                                                /\ Proper(SubscribeReq(s), k)
         /\ Proper(DisconnectedReq, k) /\ DisconnectedReq.op # "Subscribe"
<1>1. \A s \in Subs : attr[s].conn = k => attr[s] # NoAttr
  BY NoneAssumption DEF NoAttr
<1> QED
  BY <1>1 DEF Proper, GoodReq, RequeueReq, UnsubscribeReq, SubscribeReq, DisconnectedReq

\* A list of one such request.
LEMMA OneProper ==
  ASSUME NEW k, NEW r \in Requests, Proper(r, k), r.op # "Subscribe"
  PROVE  \E u \in Seq(Requests) :
           u = <<r>> /\ \A j \in 1 .. Len(u) : Proper(u[j], k) /\ u[j].op # "Subscribe"
BY ListOfOne

\* The object that a connection takes from subChannel.
LEMMA HeadOfSub ==
  ASSUME TypeOK, Homes, Framed, NEW k \in Conns, subCh[k] # <<>>
  PROVE  LET s == Head(subCh[k])
         IN  /\ s \in Subs /\ s = subCh[k][1] /\ attr[s].conn = k
             /\ frame[s] \in Msgs /\ ToQueues(frame[s])
             /\ attr[s].dest \in Queues /\ dest[frame[s]] = attr[s].dest
<1>1. 1 \in 1 .. Len(subCh[k]) /\ Head(subCh[k]) = subCh[k][1]
  BY HeadFacts DEF TypeOK
<1>2. attr[subCh[k][1]].conn = k
  BY <1>1 DEF Homes, HomeSub
<1> QED
  BY <1>1, <1>2, BusyFacts

\* An UNSUBSCRIBE forgets the id.
LEMMA HandleUnsubscribeStep ==
  ASSUME ObjInv, NEW k \in Conns, HandleUnsubscribe(k)
  PROVE  ObjInv'
<1>1. PICK i \in Ids : /\ subs[k][i] # None
                       /\ subs' = [subs EXCEPT ![k][i] = None]
                       /\ out' = [out EXCEPT ![k] = <<UnsubscribeReq(subs[k][i])>>]
  BY DEF HandleUnsubscribe
<1>2. UNCHANGED <<phase, subList, subCh, writeCh, log, attr, frame, inList, requestCh, procOut,
                  storage, waiting, dest, settled, dropped, owed, panicked>>
  BY DEF HandleUnsubscribe, subVars, procVars, histVars
<1>3. PICK s \in Subs : s = subs[k][i]
  BY <1>1 DEF ObjInv, TypeOK
<1>4. attr[s].conn = k
  BY <1>1, <1>3 DEF ObjInv, Homes, HomeSubs
<1>5. PICK u \in Seq(Requests) : /\ u = <<UnsubscribeReq(s)>>
                                 /\ \A j \in 1 .. Len(u) : Proper(u[j], k) /\ u[j].op # "Subscribe"
  <2>1. PICK r \in Requests : r = UnsubscribeReq(s)
    BY ReqTypes
  <2>2. Proper(r, k) /\ r.op # "Subscribe"
    BY <1>4, <2>1, ProperReqs
  <2> QED
    BY <2>1, <2>2, OneProper
<1>6. Quiet(k)
  BY <1>1, <1>2, <1>3, <1>5 DEF Quiet
<1>7. TypeOK'
  <2>1. subs' \in [Conns -> [Ids -> Subs \cup {None}]]
    BY <1>1 DEF ObjInv, TypeOK
  <2>2. out' \in [Conns -> Seq(Requests)]
    BY <1>1, <1>3, <1>5 DEF ObjInv, TypeOK
  <2> QED
    BY <1>2, <2>1, <2>2 DEF ObjInv, TypeOK
<1>8. HomeSubs'
  <2>1. \A h \in Conns, j \in Ids : subs'[h][j] = subs[h][j] \/ subs'[h][j] = None
    BY <1>1 DEF ObjInv, TypeOK
  <2>2. ASSUME NEW h \in Conns PROVE IsFiniteSet(Known(h)')
    <3>1. Known(h)' \subseteq Known(h)
      BY <2>1 DEF Known
    <3>2. IsFiniteSet(Known(h))
      BY DEF ObjInv, Homes, HomeSubs
    <3> QED
      BY <3>1, <3>2, FS_Subset
  <2> QED
    BY <1>2, <2>1, <2>2 DEF ObjInv, Homes, HomeSubs
<1> QED
  BY <1>6, <1>7, <1>8, QuietStep

\* The frame of an object that was unsubscribed goes back, or of one that is
\* drained from subChannel.
LEMMA SendBackStep ==
  ASSUME ObjInv, NEW k \in Conns, SendBack(k) \/ DrainOne(k)
  PROVE  ObjInv'
<1>1. /\ subCh[k] # <<>> /\ subCh' = [subCh EXCEPT ![k] = Tail(@)]
      /\ out' = [out EXCEPT ![k] = <<RequeueReq(frame[Head(subCh[k])])>>]
      /\ UNCHANGED <<phase, subs, subList, writeCh, log, attr, frame, inList, requestCh, procOut,
                     storage, waiting, dest, settled, dropped, owed, panicked>>
  BY DEF SendBack, DrainOne, subVars, procVars, histVars
<1>2. PICK m \in Msgs : m = frame[Head(subCh[k])] /\ ToQueues(m)
  BY <1>1, HeadOfSub DEF ObjInv
<1>3. PICK u \in Seq(Requests) : /\ u = <<RequeueReq(m)>>
                                 /\ \A j \in 1 .. Len(u) : Proper(u[j], k) /\ u[j].op # "Subscribe"
  <2>1. PICK r \in Requests : r = RequeueReq(m)
    BY ReqTypes
  <2>2. Proper(r, k) /\ r.op # "Subscribe"
    BY <1>2, <2>1, ProperReqs
  <2> QED
    BY <2>1, <2>2, OneProper
<1>4. Quiet(k)
  BY <1>1, <1>2, <1>3 DEF Quiet
<1>5. TypeOK'
  <2>1. out' \in [Conns -> Seq(Requests)]
    BY <1>1, <1>2, <1>3 DEF ObjInv, TypeOK
  <2>2. subCh' \in [Conns -> Seq(Subs)]
    BY <1>1, HomeSubTail DEF ObjInv
  <2> QED
    BY <1>1, <2>1, <2>2 DEF ObjInv, TypeOK
<1>6. HomeSubs'
  BY <1>1, HomesStay DEF ObjInv
<1> QED
  BY <1>4, <1>5, <1>6, QuietStep

\* The steps of cleanupConn between its requests, and a topic frame written.
LEMMA NoRequestStep ==
  ASSUME ObjInv, NEW k \in Conns, Discard(k) \/ DrainEnd(k) \/ WriteTopic(k)
  PROVE  ObjInv'
<1>1. /\ out[k] = <<>>
      /\ out' = [out EXCEPT ![k] = <<>>] \/ out' = [out EXCEPT ![k] = <<DisconnectedReq>>]
  <2>1. out[k] = <<>> => out = [out EXCEPT ![k] = <<>>]
    BY DEF ObjInv, TypeOK
  <2> QED
    BY <2>1 DEF Discard, DrainEnd, WriteTopic, Running
<1>2. UNCHANGED <<subs, subList, subCh, attr, frame, inList, requestCh, procOut,
                  storage, waiting, dest, settled, dropped, owed, panicked>>
  BY DEF Discard, DrainEnd, WriteTopic, subVars, procVars, histVars
<1>3. PICK u \in Seq(Requests) :
        /\ out' = [out EXCEPT ![k] = u]
        /\ \A j \in 1 .. Len(u) : Proper(u[j], k) /\ u[j].op # "Subscribe"
  <2>1. CASE out' = [out EXCEPT ![k] = <<>>]
    <3>1. <<>> \in Seq(Requests) /\ Len(<<>>) = 0
      BY EmptySeq
    <3>2. PICK u \in Seq(Requests) : u = <<>>
      BY <3>1
    <3>3. \A j \in 1 .. Len(u) : FALSE
      BY <3>1, <3>2
    <3> QED
      BY <2>1, <3>2, <3>3
  <2>2. CASE out' = [out EXCEPT ![k] = <<DisconnectedReq>>]
    <3>1. PICK r \in Requests : r = DisconnectedReq
      BY ReqTypes
    <3>2. Proper(r, k) /\ r.op # "Subscribe"
      BY <3>1, ProperReqs
    <3> QED
      BY <2>2, <3>1, <3>2, OneProper
  <2> QED
    BY <1>1, <2>1, <2>2
<1>4. Quiet(k)
  BY <1>2, <1>3 DEF Quiet
<1>5. TypeOK'
  <2>1. out' \in [Conns -> Seq(Requests)]
    BY <1>3 DEF ObjInv, TypeOK
  <2>2. phase' \in [Conns -> {"run", "unsub", "drain1", "disc", "drain2", "closed"}]
    BY DEF ObjInv, TypeOK, Discard, DrainEnd, WriteTopic
  <2>3. writeCh' \in [Conns -> Seq(Deliveries)] /\ log' \in [Conns -> Seq(Deliveries)]
    <3>1. CASE Discard(k)
      BY <3>1 DEF ObjInv, TypeOK, Discard
    <3>2. CASE DrainEnd(k)
      BY <3>2 DEF ObjInv, TypeOK, DrainEnd
    <3>3. CASE WriteTopic(k)
      <4>1. PICK l \in Seq(Deliveries) : l = writeCh[k] /\ l # <<>>
        BY <3>3 DEF ObjInv, TypeOK, WriteTopic
      <4>2. Head(l) \in Deliveries /\ Tail(l) \in Seq(Deliveries)
        BY <4>1, HeadFacts
      <4>3. [sub |-> Head(l).sub, msg |-> Head(l).msg] \in Deliveries
        BY <4>2 DEF Deliveries
      <4>4. /\ log' = [log EXCEPT ![k] = Append(@, [sub |-> Head(l).sub, msg |-> Head(l).msg])]
            /\ writeCh' = [writeCh EXCEPT ![k] = Tail(l)]
        BY <3>3, <4>1 DEF WriteTopic, Written
      <4>5. Append(log[k], [sub |-> Head(l).sub, msg |-> Head(l).msg]) \in Seq(Deliveries)
        BY <4>3, AppendProperties DEF ObjInv, TypeOK
      <4> QED
        BY <4>2, <4>4, <4>5 DEF ObjInv, TypeOK
    <3> QED
      BY <3>1, <3>2, <3>3
  <2> QED
    BY <1>2, <2>1, <2>2, <2>3 DEF ObjInv, TypeOK
<1>6. HomeSubs'
  BY <1>2, HomesStay DEF ObjInv
<1> QED
  BY <1>4, <1>5, <1>6, QuietStep

\* A connection ends: its objects are unsubscribed, their frames go back.
LEMMA LeaveStep ==
  ASSUME ObjInv, NEW k \in Conns, Leave(k) \/ WriteFail(k)
  PROVE  ObjInv'
<1>1. /\ CleanupConn(k) /\ writeCh' = [writeCh EXCEPT ![k] = <<>>]
      /\ subCh' = subCh \/ (subCh[k] # <<>> /\ subCh' = [subCh EXCEPT ![k] = Tail(@)])
      /\ UNCHANGED <<log, attr, frame, requestCh, procOut, storage, waiting,
                     dest, settled, owed, panicked>>
  BY DEF Leave, WriteFail, procVars, histVars
<1>2. PICK u \in Seq(Requests), n \in Nat :
        /\ out' = [out EXCEPT ![k] = u] /\ Len(u) = n + Len(subList[k])
        /\ \A i \in 1 .. n : \E s \in Known(k) : u[i] = UnsubscribeReq(s)
        /\ \A s \in Known(k) : \E i \in 1 .. n : u[i] = UnsubscribeReq(s)
        /\ \A j \in 1 .. Len(subList[k]) :
             n + j \in 1 .. Len(u) /\ u[n + j] = RequeueReq(frame[subList[k][j]])
        /\ \A i \in 1 .. Len(u) : i \in 1 .. n \/ \E j \in 1 .. Len(subList[k]) : i = n + j
  BY <1>1, CleanupDoes DEF ObjInv
<1>3. \A i \in 1 .. Len(u) : Proper(u[i], k) /\ u[i].op # "Subscribe"
  <2>1. \A s \in Known(k) : s \in Subs /\ attr[s].conn = k
    BY DEF Known, ObjInv, TypeOK, Homes, HomeSubs
  <2>2. \A j \in 1 .. Len(subList[k]) : /\ frame[subList[k][j]] \in Msgs
                                        /\ ToQueues(frame[subList[k][j]])
    BY BusyFacts DEF ObjInv
  <2>3. \A i \in 1 .. n : Proper(u[i], k) /\ u[i].op # "Subscribe"
    BY <1>2, <2>1, ProperReqs
  <2>4. \A j \in 1 .. Len(subList[k]) : Proper(u[n + j], k) /\ u[n + j].op # "Subscribe"
    BY <1>2, <2>2, ProperReqs
  <2> QED
    BY <1>2, <2>3, <2>4
<1>4. Quiet(k)
  <2>1. /\ subList' = [subList EXCEPT ![k] = <<>>]
        /\ \A s \in Subs : inList'[s] => inList[s]
    BY <1>1 DEF CleanupConn
  <2> QED
    BY <1>1, <1>2, <1>3, <2>1 DEF Quiet
<1>5. TypeOK'
  <2>1. out' \in [Conns -> Seq(Requests)]
    BY <1>2 DEF ObjInv, TypeOK
  <2>2. subCh' \in [Conns -> Seq(Subs)]
    BY <1>1, HomeSubTail DEF ObjInv, TypeOK
  <2>3. /\ phase' \in [Conns -> {"run", "unsub", "drain1", "disc", "drain2", "closed"}]
        /\ subs' \in [Conns -> [Ids -> Subs \cup {None}]]
        /\ subList' \in [Conns -> Seq(Subs)]
        /\ inList' \in [Subs -> BOOLEAN]
    BY <1>1 DEF ObjInv, TypeOK, CleanupConn
  <2>4. writeCh' \in [Conns -> Seq(Deliveries)]
    BY <1>1 DEF ObjInv, TypeOK
  <2>5. dropped' \subseteq Msgs
    <3>1. CASE Leave(k)
      BY <3>1 DEF ObjInv, TypeOK, Leave, histVars
    <3>2. CASE WriteFail(k)
      <4>1. frame[Head(subCh[k])] \in Msgs
        BY <3>2, HeadOfSub DEF ObjInv, WriteFail
      <4> QED
        BY <3>2, <4>1 DEF ObjInv, TypeOK, WriteFail
    <3> QED
      BY <3>1, <3>2
  <2> QED
    BY <1>1, <2>1, <2>2, <2>3, <2>4, <2>5 DEF ObjInv, TypeOK
<1>6. HomeSubs'
  <2>1. \A h \in Conns, j \in Ids : subs'[h][j] = subs[h][j] \/ subs'[h][j] = None
    BY <1>1 DEF ObjInv, TypeOK, CleanupConn
  <2>2. ASSUME NEW h \in Conns PROVE IsFiniteSet(Known(h)')
    <3>1. Known(h)' \subseteq Known(h)
      BY <2>1 DEF Known
    <3>2. IsFiniteSet(Known(h))
      BY DEF ObjInv, Homes, HomeSubs
    <3> QED
      BY <3>1, <3>2, FS_Subset
  <2> QED
    BY <1>1, <2>1, <2>2 DEF ObjInv, Homes, HomeSubs
<1> QED
  BY <1>4, <1>5, <1>6, QuietStep

\* A SEND gives a message its destination: nothing was about it before.
LEMMA HandleSendStep ==
  ASSUME ObjInv, NEW k \in Conns, HandleSend(k)
  PROVE  ObjInv'
<1>1. PICK m \in Msgs, d \in Dests : /\ dest[m] = None
                                     /\ dest' = [dest EXCEPT ![m] = d]
                                     /\ out' = [out EXCEPT ![k] = <<EnqueueReq(m)>>]
  BY DEF HandleSend
<1>2. UNCHANGED <<phase, subs, subList, subCh, writeCh, log, attr, frame, inList, requestCh,
                  procOut, storage, waiting, settled, dropped, owed, panicked>>
  BY DEF HandleSend, subVars, procVars
<1>3. PICK u \in Seq(Requests) : /\ u = <<EnqueueReq(m)>>
                                 /\ \A i \in 1 .. Len(u) : u[i] = EnqueueReq(m)
  <2>1. PICK r \in Requests : r = EnqueueReq(m)
    BY ReqTypes
  <2> QED
    BY <2>1, ListOfOne
<1>4. dest'[m] = d /\ \A x \in Msgs : dest[x] \in Dests => dest'[x] = dest[x]
  BY <1>1, NoneAssumption DEF ObjInv, TypeOK
<1>5. TypeOK'
  <2>1. dest' \in [Msgs -> Dests \cup {None}]
    BY <1>1 DEF ObjInv, TypeOK
  <2>2. out' \in [Conns -> Seq(Requests)]
    BY <1>1, <1>3 DEF ObjInv, TypeOK
  <2> QED
    BY <1>2, <2>1, <2>2 DEF ObjInv, TypeOK
<1>6. ASSUME NEW r \in Requests, GoodReq(r) PROVE GoodReq(r)'
  BY <1>2, <1>4, <1>6, ReqForm DEF GoodReq, ToQueues, Dests
<1>7. GoodReq(EnqueueReq(m))'
  BY <1>1, <1>4 DEF GoodReq, EnqueueReq
<1>8. out'[k] = u /\ \A h \in Conns : h # k => out'[h] = out[h]
  BY <1>1, <1>3 DEF ObjInv, TypeOK
<1>9. ASSUME NEW i \in 1 .. Len(procOut)
      PROVE  /\ procOut[i].msg \in Msgs /\ procOut[i].sub \in Subs
             /\ dest[procOut[i].msg] \in Dests /\ dest'[procOut[i].msg] = dest[procOut[i].msg]
  <2>1. procOut[i] \in Deliveries
    BY DEF ObjInv, TypeOK
  <2>2. procOut[i].msg \in Msgs /\ procOut[i].sub \in Subs
    BY <2>1 DEF Deliveries
  <2>3. /\ attr[procOut[i].sub] # NoAttr
        /\ attr[procOut[i].sub].dest = dest[procOut[i].msg]
    BY DEF ObjInv, Homes, HomeProc
  <2>4. attr[procOut[i].sub].dest \in Dests
    BY <2>2, <2>3 DEF ObjInv, TypeOK
  <2> QED
    BY <1>4, <2>2, <2>3, <2>4
<1>10. Homes'
  <2>1. HomeOut'
    <3> SUFFICES ASSUME NEW h \in Conns, NEW i \in 1 .. Len(out'[h])
                 PROVE  \A r : r = out'[h][i] =>
                          /\ GoodReq(r)'
                          /\ r.op \in {"Subscribe", "Unsubscribe"} => attr[r.sub].conn = h
      BY <1>2 DEF HomeOut, GoodReq, ToQueues
    <3>1. CASE h = k
      <4>1. out'[h][i] = EnqueueReq(m)
        BY <1>3, <1>8, <3>1
      <4>2. EnqueueReq(m).op \notin {"Subscribe", "Unsubscribe"}
        BY DEF EnqueueReq
      <4> QED
        BY <1>7, <4>1, <4>2
    <3>2. CASE h # k
      <4>1. /\ out'[h][i] = out[h][i] /\ GoodReq(out[h][i]) /\ out[h][i] \in Requests
            /\ out[h][i].op \in {"Subscribe", "Unsubscribe"} => attr[out[h][i].sub].conn = h
        BY <1>8, <3>2 DEF ObjInv, TypeOK, Homes, HomeOut
      <4> QED
        BY <1>6, <4>1
    <3> QED
      BY <3>1, <3>2
  <2>2. HomeReq'
    <3> SUFFICES ASSUME NEW i \in 1 .. Len(requestCh) PROVE GoodReq(requestCh[i])'
      BY <1>2 DEF HomeReq
    <3>1. PICK r \in Requests : r = requestCh[i] /\ GoodReq(r)
      BY DEF ObjInv, TypeOK, Homes, HomeReq
    <3>2. GoodReq(r)'
      BY <1>6, <3>1
    <3> QED
      BY <1>2, <3>1, <3>2 DEF GoodReq, ToQueues
  <2>3. HomeStore'
    BY <1>2, <1>4 DEF ObjInv, TypeOK, Homes, HomeStore, Dests
  <2>4. HomeProc'
    BY <1>2, <1>9 DEF ObjInv, Homes, HomeProc
  <2>5. HomeSubs' /\ HomeWait' /\ HomeSub' /\ HomeList'
    BY <1>2 DEF ObjInv, Homes, HomeSubs, HomeWait, HomeSub, HomeList, Known
  <2> QED
    BY <2>1, <2>2, <2>3, <2>4, <2>5 DEF Homes
<1>11. ASSUME NEW s \in Subs PROVE Unique(s)' /\ FramedAs(s)'
  <2>1. Unique(s) /\ FramedAs(s)
    BY DEF ObjInv, OnePlace, Framed
  <2>2. Keeps("wait", s) /\ Keeps("req", s) /\ Keeps("sub", s) /\ Keeps("list", s)
    BY <1>2, Still DEF ObjInv, Same
  <2>3. Keeps("proc", s)
    <3>1. \A i \in Nat : Place("proc", i, s)' => Place("proc", i + 0, s)
      BY <1>2, <1>9 DEF Place, ProcAt, ToQueues
    <3> QED
      BY <2>1, <3>1, MovesUp, PlaceNames
  <2>4. Keeps("out", s)
    <3>1. \A i \in 1 .. Len(u) : u[i] # SubscribeReq(s)
      BY <1>3 DEF SubscribeReq, EnqueueReq
    <3> QED
      BY <1>1, <1>2, <1>3, <3>1, OutSet DEF ObjInv
  <2>5. Unique(s)' /\ \A c \in Places : In(c, s)' => In(c, s)
    BY <2>1, <2>2, <2>3, <2>4, Rests, PlaceNames DEF Rest
  <2>6. \A c \in Busy : In(c, s) => frame[s] \in Msgs /\ dest'[frame[s]] = dest[frame[s]]
    BY <1>4, <2>1 DEF FramedAs, Dests
  <2>7. FramedAs(s)'
    <3>1. \A c \in Free : In(c, s)' => In(c, s)
      BY <2>5, PlaceNames
    <3>2. \A c \in Busy : In(c, s)' => In(c, s)
      BY <2>5, PlaceNames
    <3> QED
      BY <1>2, <2>1, <2>6, <3>1, <3>2 DEF FramedAs
  <2> QED
    BY <2>5, <2>7
<1>12. ProcFramed'
  BY <1>2, <1>9 DEF ObjInv, Framed, ProcFramed, ToQueues
<1>13. Listed'
  BY <1>2, ListedStays DEF ObjInv
<1> QED
  BY <1>5, <1>10, <1>11, <1>12, <1>13 DEF ObjInv, OnePlace, Framed

\* A SUBSCRIBE makes a new object: nothing was about it before.
LEMMA HandleSubscribeStep ==
  ASSUME ObjInv, NEW k \in Conns, HandleSubscribe(k)
  PROVE  ObjInv'
<1>1. PICK x \in Subs, n \in Ids, d \in Dests, a \in AckModes :
        /\ attr[x] = NoAttr /\ subs[k][n] = None
        /\ attr' = [attr EXCEPT ![x] = [conn |-> k, id |-> n, dest |-> d, ack |-> a]]
        /\ subs' = [subs EXCEPT ![k][n] = x]
        /\ out' = [out EXCEPT ![k] = <<SubscribeReq(x)>>]
  BY DEF HandleSubscribe
<1>2. /\ out[k] = <<>>
      /\ UNCHANGED <<phase, subList, subCh, writeCh, log, frame, inList, requestCh, procOut,
                     storage, waiting, dest, settled, dropped, owed, panicked>>
  BY DEF HandleSubscribe, procVars, histVars, Running
<1>3. PICK u \in Seq(Requests) : /\ u = <<SubscribeReq(x)>> /\ Len(u) = 1
                                 /\ \A i \in 1 .. Len(u) : u[i] = SubscribeReq(x)
  <2>1. PICK r \in Requests : r = SubscribeReq(x)
    BY ReqTypes
  <2> QED
    BY <2>1, ListOfOne
<1>4. /\ attr'[x].conn = k /\ attr'[x].id = n /\ attr'[x].dest = d /\ attr'[x] # NoAttr
      /\ \A s \in Subs : s # x => attr'[s] = attr[s]
  BY <1>1, NoneAssumption DEF ObjInv, TypeOK, NoAttr
<1>5. /\ ~(attr[x].conn \in Conns) /\ ~(attr[x].dest \in Dests)
  BY <1>1, NoneAssumption DEF NoAttr
<1>6. TypeOK'
  <2>1. attr' \in [Subs -> {NoAttr} \cup [conn : Conns, id : Ids, dest : Dests, ack : AckModes]]
    BY <1>1 DEF ObjInv, TypeOK
  <2>2. subs' \in [Conns -> [Ids -> Subs \cup {None}]]
    BY <1>1 DEF ObjInv, TypeOK
  <2>3. out' \in [Conns -> Seq(Requests)]
    BY <1>1, <1>3 DEF ObjInv, TypeOK
  <2> QED
    BY <1>2, <2>1, <2>2, <2>3 DEF ObjInv, TypeOK
<1>7. out'[k] = u /\ \A h \in Conns : h # k => out'[h] = out[h]
  BY <1>1, <1>3 DEF ObjInv, TypeOK
<1>8. ASSUME NEW r \in Requests, GoodReq(r)
      PROVE  /\ GoodReq(r)'
             /\ r.op \in {"Subscribe", "Unsubscribe"} => r.sub \in Subs /\ r.sub # x
  BY <1>1, <1>2, <1>4, <1>8, ReqForm DEF GoodReq, ToQueues
<1>9. ASSUME NEW i \in 1 .. Len(procOut)
      PROVE  procOut[i].sub \in Subs /\ procOut[i].sub # x
  <2>1. procOut[i] \in Deliveries
    BY DEF ObjInv, TypeOK
  <2>2. attr[procOut[i].sub] # NoAttr
    BY DEF ObjInv, Homes, HomeProc
  <2> QED
    BY <1>1, <2>1, <2>2 DEF Deliveries
<1>10. ASSUME NEW h \in Conns
       PROVE  /\ \A i \in 1 .. Len(subCh[h]) : subCh[h][i] \in Subs /\ subCh[h][i] # x
              /\ \A i \in 1 .. Len(subList[h]) : subList[h][i] \in Subs /\ subList[h][i] # x
  <2>1. subCh[h] \in Seq(Subs) /\ subList[h] \in Seq(Subs)
    BY DEF ObjInv, TypeOK
  <2>2. /\ \A i \in 1 .. Len(subCh[h]) : attr[subCh[h][i]].conn = h
        /\ \A i \in 1 .. Len(subList[h]) : attr[subList[h][i]].conn = h
    BY DEF ObjInv, Homes, HomeSub, HomeList
  <2> QED
    BY <1>5, <2>1, <2>2
<1>11. \A e \in Dests : \A i \in 1 .. Len(waiting[e]) :
         waiting[e][i] \in Subs /\ waiting[e][i] # x
  BY <1>5 DEF ObjInv, TypeOK, Homes, HomeWait
<1>12. ASSUME NEW i \in 1 .. Len(requestCh) PROVE requestCh[i] # SubscribeReq(x)
  <2>1. requestCh[i] \in Requests /\ GoodReq(requestCh[i])
    BY DEF ObjInv, TypeOK, Homes, HomeReq
  <2>2. SubscribeReq(x).op = "Subscribe" /\ SubscribeReq(x).sub = x
    BY DEF SubscribeReq
  <2> QED
    BY <1>8, <2>1, <2>2
<1>13. Homes'
  <2>1. HomeOut'
    <3> SUFFICES ASSUME NEW h \in Conns, NEW i \in 1 .. Len(out'[h])
                 PROVE  \A r : r = out'[h][i] =>
                          /\ GoodReq(r)'
                          /\ r.op \in {"Subscribe", "Unsubscribe"} => attr'[r.sub].conn = h
      BY <1>2 DEF HomeOut, GoodReq, ToQueues
    <3>1. CASE h = k
      <4>1. out'[h][i] = SubscribeReq(x)
        BY <1>3, <1>7, <3>1
      <4>2. SubscribeReq(x).op = "Subscribe" /\ SubscribeReq(x).sub = x
        BY DEF SubscribeReq
      <4>3. GoodReq(SubscribeReq(x))'
        BY <1>4, <4>2 DEF GoodReq, SubscribeReq
      <4> QED
        BY <1>4, <3>1, <4>1, <4>2, <4>3
    <3>2. CASE h # k
      <4>1. /\ out'[h][i] = out[h][i] /\ GoodReq(out[h][i]) /\ out[h][i] \in Requests
            /\ out[h][i].op \in {"Subscribe", "Unsubscribe"} => attr[out[h][i].sub].conn = h
        BY <1>7, <3>2 DEF ObjInv, TypeOK, Homes, HomeOut
      <4> QED
        BY <1>4, <1>8, <4>1
    <3> QED
      BY <3>1, <3>2
  <2>2. HomeReq'
    <3> SUFFICES ASSUME NEW i \in 1 .. Len(requestCh) PROVE GoodReq(requestCh[i])'
      BY <1>2 DEF HomeReq
    <3>1. PICK r \in Requests : r = requestCh[i] /\ GoodReq(r)
      BY DEF ObjInv, TypeOK, Homes, HomeReq
    <3>2. GoodReq(r)'
      BY <1>8, <3>1
    <3> QED
      BY <1>2, <3>1, <3>2 DEF GoodReq, ToQueues
  <2>3. HomeStore'
    BY <1>2 DEF ObjInv, Homes, HomeStore
  <2>4. HomeProc'
    BY <1>2, <1>4, <1>9 DEF ObjInv, Homes, HomeProc
  <2>5. HomeWait'
    BY <1>2, <1>4, <1>11 DEF ObjInv, Homes, HomeWait
  <2>6. HomeSub' /\ HomeList'
    BY <1>2, <1>4, <1>10 DEF ObjInv, Homes, HomeSub, HomeList
  <2>7. HomeSubs'
    <3>1. \A h \in Conns, j \in Ids :
            \/ h = k /\ j = n /\ subs'[h][j] = x
            \/ subs'[h][j] = subs[h][j]
      BY <1>1 DEF ObjInv, TypeOK
    <3>2. ASSUME NEW h \in Conns PROVE IsFiniteSet(Known(h)')
      <4>1. Known(h)' \subseteq Known(h) \cup {x}
        BY <3>1 DEF Known
      <4>2. IsFiniteSet(Known(h))
        BY DEF ObjInv, Homes, HomeSubs
      <4>3. IsFiniteSet(Known(h) \cup {x})
        BY <4>2, FS_AddElement
      <4> QED
        BY <4>1, <4>3, FS_Subset
    <3>3. ASSUME NEW h \in Conns, NEW j \in Ids, subs'[h][j] # None
          PROVE  attr'[subs'[h][j]].conn = h /\ attr'[subs'[h][j]].id = j
      <4>1. CASE h = k /\ j = n /\ subs'[h][j] = x
        BY <1>4, <4>1
      <4>2. CASE subs'[h][j] = subs[h][j]
        <5>1. attr[subs[h][j]].conn = h /\ attr[subs[h][j]].id = j /\ subs[h][j] \in Subs
          BY <3>3, <4>2 DEF ObjInv, TypeOK, Homes, HomeSubs
        <5> QED
          BY <1>4, <1>5, <4>2, <5>1
      <4> QED
        BY <3>1, <4>1, <4>2
    <3> QED
      BY <3>2, <3>3 DEF HomeSubs
  <2> QED
    BY <2>1, <2>2, <2>3, <2>4, <2>5, <2>6, <2>7 DEF Homes
<1>14. ASSUME NEW s \in Subs, s # x PROVE Unique(s)' /\ FramedAs(s)' /\ (In("wait", s) => In("wait", s)')
  <2>1. Unique(s) /\ FramedAs(s) /\ attr'[s] = attr[s]
    BY <1>4, <1>14 DEF ObjInv, OnePlace, Framed
  <2>2. \A i \in Nat : /\ Place("wait", i, s)' <=> Place("wait", i + 0, s)
                       /\ Place("req", i, s)' => Place("req", i + 0, s)
    BY <1>2, <2>1 DEF Place, WaitAt, ReqAt
  <2>3. \A i \in Nat : /\ Place("proc", i, s)' => Place("proc", i + 0, s)
                       /\ Place("sub", i, s)' => Place("sub", i + 0, s)
                       /\ Place("list", i, s)' => Place("list", i + 0, s)
    BY <1>2, <2>1 DEF Place, ProcAt, SubAt, ListAt, ToQueues
  <2>4. \A i \in Nat : Place("out", i, s)' => Place("out", i + 0, s)
    <3>1. \A i \in 1 .. Len(u) : u[i] # SubscribeReq(s)
      BY <1>3, <1>14 DEF SubscribeReq
    <3> QED
      BY <1>7, <2>1, <3>1 DEF Place, OutAt
  <2>5. Rest(s)
    BY <2>1, <2>2, <2>3, <2>4, MovesUp, PlaceNames DEF Rest
  <2>6. Unique(s)' /\ \A c \in Places : In(c, s)' => In(c, s)
    BY <2>1, <2>5, Rests
  <2>7. FramedAs(s)'
    <3>1. \A c \in Free : In(c, s)' => In(c, s)
      BY <2>6, PlaceNames
    <3>2. \A c \in Busy : In(c, s)' => In(c, s)
      BY <2>6, PlaceNames
    <3> QED
      BY <1>2, <2>1, <3>1, <3>2 DEF FramedAs
  <2>8. In("wait", s) => In("wait", s)'
    BY <2>2 DEF In
  <2> QED
    BY <2>6, <2>7, <2>8
<1>15. Unique(x)' /\ FramedAs(x)'
  <2>1. \A i \in Nat : Place("out", i, x)' => i = 1
    BY <1>3, <1>4, <1>7 DEF Place, OutAt
  <2>2. \A i \in Nat : ~Place("req", i, x)'
    BY <1>2, <1>12 DEF Place, ReqAt
  <2>3. \A i \in Nat : ~Place("wait", i, x)'
    BY <1>2, <1>4, <1>11 DEF Place, WaitAt
  <2>4. \A i \in Nat : ~Place("proc", i, x)'
    BY <1>2, <1>9 DEF Place, ProcAt
  <2>5. \A i \in Nat : ~Place("sub", i, x)' /\ ~Place("list", i, x)'
    BY <1>2, <1>4, <1>10 DEF Place, SubAt, ListAt
  <2>6. \A c \in Places : In(c, x)' => c = "out"
    BY <2>2, <2>3, <2>4, <2>5, PlaceNames DEF In
  <2>7. \A c \in Places : Single(c, x)'
    BY <2>1, <2>2, <2>3, <2>4, <2>5, PlaceNames DEF Single
  <2>8. frame'[x] = None
    BY <1>1, <1>2 DEF ObjInv, Framed, FramedAs
  <2>9. \A c \in Busy : ~In(c, x)'
    BY <2>6, PlaceNames
  <2> QED
    BY <2>6, <2>7, <2>8, <2>9 DEF Unique, FramedAs
<1>16. ProcFramed'
  BY <1>2 DEF ObjInv, Framed, ProcFramed, ToQueues
<1>17. Listed'
  <2>1. ~inList[x]
    BY <1>1 DEF ObjInv, Listed
  <2> QED
    BY <1>2, <1>4, <1>14, <2>1 DEF ObjInv, Listed
<1> QED
  BY <1>6, <1>13, <1>14, <1>15, <1>16, <1>17 DEF ObjInv, OnePlace, Framed

\* What is written to a client is a delivery.
LEMMA WrittenType ==
  ASSUME TypeOK, NEW k \in Conns, NEW s \in Subs, NEW m \in Msgs, Written(k, s, m)
  PROVE  log' \in [Conns -> Seq(Deliveries)]
<1>1. PICK p \in Deliveries : p = [sub |-> s, msg |-> m]
  BY DEF Deliveries
<1>2. Append(log[k], p) \in Seq(Deliveries)
  BY AppendProperties DEF TypeOK
<1>3. log' = [log EXCEPT ![k] = Append(log[k], p)]
  BY <1>1 DEF Written
<1> QED
  BY <1>2, <1>3 DEF TypeOK

\* An auto subscription asks for the next frame when one is written.
LEMMA WriteAutoStep ==
  ASSUME ObjInv, NEW k \in Conns, WriteAuto(k)
  PROVE  ObjInv'
<1>1. PICK x : x = Head(subCh[k])
  OBVIOUS
<1>2. /\ subCh[k] # <<>> /\ Written(k, x, frame[x]) /\ settled' = settled \cup {frame[x]}
      /\ frame' = [frame EXCEPT ![x] = None] /\ out' = [out EXCEPT ![k] = <<SubscribeReq(x)>>]
      /\ subCh' = [subCh EXCEPT ![k] = Tail(@)]
      /\ UNCHANGED <<phase, subs, subList, writeCh, attr, inList, requestCh, procOut, storage,
                     waiting, dest, dropped, owed, panicked>>
  BY <1>1 DEF WriteAuto, procVars
<1>3. x \in Subs /\ x = subCh[k][1] /\ attr[x].conn = k /\ frame[x] \in Msgs
  BY <1>1, <1>2, HeadOfSub DEF ObjInv
<1>4. PICK u \in Seq(Requests) : /\ u = <<SubscribeReq(x)>> /\ Len(u) = 1
                                 /\ \A i \in 1 .. Len(u) : u[i] = SubscribeReq(x)
  <2>1. PICK r \in Requests : r = SubscribeReq(x)
    BY <1>3, ReqTypes
  <2> QED
    BY <2>1, ListOfOne
<1>5. HomeOut' /\ out' \in [Conns -> Seq(Requests)]
  <2>1. \A i \in 1 .. Len(u) : Proper(u[i], k)
    BY <1>3, <1>4, ProperReqs
  <2> QED
    BY <1>2, <1>4, <2>1, HomeOutSet DEF ObjInv
<1>6. HomeSub' /\ subCh' \in [Conns -> Seq(Subs)]
  BY <1>2, HomeSubTail DEF ObjInv
<1>7. TypeOK'
  <2>1. log' \in [Conns -> Seq(Deliveries)]
    BY <1>2, <1>3, WrittenType DEF ObjInv
  <2>2. frame' \in [Subs -> Msgs \cup {None}] /\ settled' \subseteq Msgs
    BY <1>2, <1>3 DEF ObjInv, TypeOK
  <2> QED
    BY <1>2, <1>5, <1>6, <2>1, <2>2 DEF ObjInv, TypeOK
<1>8. Homes'
  BY <1>2, <1>5, <1>6, HomesStay DEF ObjInv, Homes
<1>9. ASSUME NEW s \in Subs
      PROVE  /\ Unique(s) /\ FramedAs(s) /\ Keeps("req", s) /\ Keeps("wait", s)
             /\ Keeps("proc", s) /\ Keeps("list", s) /\ Keeps("sub", s) /\ Single("out", s)'
  <2>0. \A i, j \in 1 .. Len(u) : i = j
    BY <1>4
  <2>1. Single("out", s)'
    BY <1>2, <1>4, <2>0, OutSet DEF ObjInv
  <2> QED
    BY <1>2, <2>1, Still, SubTail DEF ObjInv, OnePlace, Framed, Same
<1>10. ASSUME NEW s \in Subs, s # x PROVE Unique(s)' /\ FramedAs(s)'
  <2>1. frame'[s] = frame[s]
    BY <1>2, <1>10 DEF ObjInv, TypeOK
  <2>2. \A i \in 1 .. Len(u) : u[i] # SubscribeReq(s)
    BY <1>4, <1>10 DEF SubscribeReq
  <2>3. Keeps("out", s)
    BY <1>2, <1>4, <2>2, OutSet DEF ObjInv
  <2>4. Rest(s)
    BY <1>9, <2>3, PlaceNames DEF Rest
  <2> QED
    BY <1>2, <1>9, <2>1, <2>4, Rests, RestsFramed
<1>11. In("sub", x) /\ ~In("sub", x)'
  BY <1>2, <1>3, SubTail DEF ObjInv
<1>12. Unique(x)' /\ FramedAs(x)'
  <2>1. Unique(x)' /\ \A c \in Places : In(c, x)' => c = "out"
    BY <1>3, <1>9, <1>11, Moves, PlaceNames
  <2>2. frame'[x] = None
    BY <1>2, <1>3 DEF ObjInv, TypeOK
  <2>3. \A c \in Busy : ~In(c, x)'
    BY <2>1, PlaceNames
  <2> QED
    BY <2>1, <2>2, <2>3 DEF FramedAs
<1>13. ProcFramed'
  <2>1. ~In("proc", x)
    BY <1>3, <1>9, <1>11, PlaceNames DEF Unique
  <2>2. \A s \in Subs : In("proc", s) => frame'[s] = frame[s]
    BY <1>2, <2>1 DEF ObjInv, TypeOK
  <2> QED
    BY <1>2, <2>2, ProcFramedStays DEF ObjInv, Framed
<1>14. Listed'
  BY <1>2, ListedStays DEF ObjInv
<1> QED
  BY <1>7, <1>8, <1>10, <1>12, <1>13, <1>14 DEF ObjInv, OnePlace, Framed

\* Another subscription waits for an acknowledgement of what is written.
LEMMA WriteForAckStep ==
  ASSUME ObjInv, NEW k \in Conns, WriteForAck(k)
  PROVE  ObjInv'
<1>1. PICK x : x = Head(subCh[k])
  OBVIOUS
<1>2. /\ subCh[k] # <<>> /\ Written(k, x, frame[x]) /\ attr[x].ack # "auto"
      /\ subList' = [subList EXCEPT ![k] = Append(@, x)]
      /\ inList' = [inList EXCEPT ![x] = TRUE] /\ PanicIf(inList[x], x)
      /\ subCh' = [subCh EXCEPT ![k] = Tail(@)]
      /\ UNCHANGED <<phase, subs, out, writeCh, attr, frame, requestCh, procOut, storage,
                     waiting, dest, settled, dropped, owed>>
  BY <1>1 DEF WriteForAck, procVars, histVars
<1>3. x \in Subs /\ x = subCh[k][1] /\ attr[x].conn = k /\ frame[x] \in Msgs
  BY <1>1, <1>2, HeadOfSub DEF ObjInv
<1>4. PICK l \in Seq(Subs) : l = subList[k]
  BY DEF ObjInv, TypeOK
<1>5. PICK t \in Seq(Subs) : /\ t = Append(l, x) /\ Len(t) = Len(l) + 1 /\ t[Len(l) + 1] = x
                             /\ \A i \in 1 .. Len(l) : t[i] = l[i]
  <2>1. PICK t \in Seq(Subs) : t = Append(l, x)
    BY <1>3, AppendProperties
  <2>2. Len(t) = Len(l) + 1 /\ t[Len(l) + 1] = x /\ \A i \in 1 .. Len(l) : t[i] = l[i]
    BY <1>3, <2>1, AppendProperties
  <2> QED
    BY <2>1, <2>2
<1>6. subList'[k] = t /\ \A h \in Conns : h # k => subList'[h] = subList[h]
  BY <1>2, <1>4, <1>5 DEF ObjInv, TypeOK
<1>7. HomeSub' /\ subCh' \in [Conns -> Seq(Subs)]
  BY <1>2, HomeSubTail DEF ObjInv
<1>8. TypeOK'
  <2>1. log' \in [Conns -> Seq(Deliveries)]
    BY <1>2, <1>3, WrittenType DEF ObjInv
  <2>2. subList' \in [Conns -> Seq(Subs)]
    BY <1>2, <1>4, <1>5 DEF ObjInv, TypeOK
  <2>3. inList' \in [Subs -> BOOLEAN] /\ panicked' \in Subs \cup {None}
    BY <1>2, <1>3 DEF ObjInv, TypeOK, PanicIf
  <2> QED
    BY <1>2, <1>7, <2>1, <2>2, <2>3 DEF ObjInv, TypeOK
<1>9. Homes'
  <2>1. HomeList'
    <3> SUFFICES ASSUME NEW h \in Conns, NEW i \in 1 .. Len(subList'[h])
                 PROVE  attr[subList'[h][i]].conn = h /\ attr[subList'[h][i]].ack # "auto"
      BY <1>2 DEF HomeList
    <3>1. CASE h = k
      <4>1. i \in 1 .. Len(l) + 1 /\ Len(l) \in Nat /\ subList'[h][i] = t[i]
        BY <1>5, <1>6, <3>1
      <4>2. CASE i = Len(l) + 1
        BY <1>2, <1>3, <1>5, <3>1, <4>1, <4>2
      <4>3. CASE i \in 1 .. Len(l)
        BY <1>4, <1>5, <3>1, <4>1, <4>3 DEF ObjInv, Homes, HomeList
      <4> QED
        BY <4>1, <4>2, <4>3
    <3>2. CASE h # k
      BY <1>6, <3>2 DEF ObjInv, Homes, HomeList
    <3> QED
      BY <3>1, <3>2
  <2> QED
    BY <1>2, <1>7, <2>1, HomesStay DEF ObjInv, Homes
<1>10. ASSUME NEW s \in Subs
       PROVE  /\ Unique(s) /\ FramedAs(s) /\ Keeps("out", s) /\ Keeps("req", s)
              /\ Keeps("wait", s) /\ Keeps("proc", s) /\ Keeps("sub", s)
              /\ (In("wait", s)' <=> In("wait", s))
  BY <1>2, Still, SubTail DEF ObjInv, OnePlace, Framed, Same
<1>11. ASSUME NEW s \in Subs, s # x PROVE Unique(s)' /\ FramedAs(s)'
  <2>1. Keeps("list", s)
    BY <1>2, <1>3, <1>11, ListAppend DEF ObjInv
  <2>2. Rest(s)
    BY <1>10, <2>1, PlaceNames DEF Rest
  <2> QED
    BY <1>2, <1>10, <2>2, Rests, RestsFramed
<1>12. Unique(x)' /\ FramedAs(x)'
  <2>1. In("sub", x) /\ ~In("sub", x)'
    BY <1>2, <1>3, SubTail DEF ObjInv
  <2>2. ~In("list", x)
    BY <1>3, <1>10, <2>1, PlaceNames DEF Unique
  <2>3. Single("list", x)'
    BY <1>2, <1>3, <2>2, ListAppend DEF ObjInv
  <2>4. Unique(x)' /\ \A c \in Places : In(c, x)' => c = "list"
    BY <1>3, <1>10, <2>1, <2>3, Moves, PlaceNames
  <2>5. \A c \in Free : ~In(c, x)'
    BY <2>4, PlaceNames
  <2>6. dest[frame[x]] = attr[x].dest /\ attr[x].dest \in Queues /\ attr[x] # NoAttr
    BY <1>3, <1>10, <2>1, PlaceNames, NoneAssumption DEF FramedAs, NoAttr
  <2> QED
    BY <1>2, <1>3, <2>4, <2>5, <2>6 DEF FramedAs
<1>13. ProcFramed'
  BY <1>2, ProcFramedStays DEF ObjInv, Framed
<1>14. Listed'
  <2>1. attr[x] # NoAttr
    BY <1>3, NoneAssumption DEF NoAttr
  <2>2. \A s \in Subs : s # x => inList'[s] = inList[s]
    BY <1>2 DEF ObjInv, TypeOK
  <2> QED
    BY <1>2, <1>10, <2>1, <2>2 DEF ObjInv, Listed
<1> QED
  BY <1>8, <1>9, <1>11, <1>12, <1>13, <1>14 DEF ObjInv, OnePlace, Framed

\* An ACK or a NACK asks once for each object that it takes from the list.
LEMMA AckRequests ==
  ASSUME NEW k \in Conns, NEW ss \in Seq(Subs), Distinct(ss),
         \A s \in Elems(ss) : /\ s \in Subs /\ attr[s].conn = k
                              /\ frame[s] \in Msgs /\ ToQueues(frame[s]),
         NEW u \in Seq(Requests), u = AckReqs(ss) \/ u = NackReqs(ss)
  PROVE  /\ \A i \in 1 .. Len(u) : Proper(u[i], k)
         /\ \A s \in Subs : s \notin Elems(ss) => \A i \in 1 .. Len(u) : u[i] # SubscribeReq(s)
         /\ \A s \in Subs : \A i, j \in 1 .. Len(u) :
              u[i] = SubscribeReq(s) /\ u[j] = SubscribeReq(s) => i = j
<1>0. \A s, t \in Subs : SubscribeReq(s) = SubscribeReq(t) => s = t
  BY DEF SubscribeReq
<1>1. PICK n \in Nat : n = Len(ss)
  OBVIOUS
<1>2. \A j \in 1 .. n : /\ ss[j] \in Subs /\ ss[j] \in Elems(ss) /\ attr[ss[j]].conn = k
                        /\ frame[ss[j]] \in Msgs /\ ToQueues(frame[ss[j]])
  BY <1>1 DEF Elems
<1>3. \A i, j \in 1 .. n : ss[i] = ss[j] => i = j
  BY <1>1 DEF Distinct
<1>4. CASE u = AckReqs(ss)
  <2>1. Len(u) = n /\ \A j \in 1 .. n : u[j] = SubscribeReq(ss[j])
    BY <1>1, <1>4, AckReqsFacts
  <2>2. \A i \in 1 .. n : Proper(u[i], k)
    BY <1>2, <2>1, ProperReqs
  <2>3. \A s \in Subs : s \notin Elems(ss) => \A i \in 1 .. n : u[i] # SubscribeReq(s)
    BY <1>0, <1>2, <2>1
  <2>4. \A s \in Subs : \A i, j \in 1 .. n :
          u[i] = SubscribeReq(s) /\ u[j] = SubscribeReq(s) => i = j
    BY <1>0, <1>2, <1>3, <2>1
  <2> QED
    BY <2>1, <2>2, <2>3, <2>4
<1>5. CASE u = NackReqs(ss)
  <2>0. \A s \in Elems(ss) : frame[s] \in Msgs
    OBVIOUS
  <2>1. /\ Len(u) = 2 * n
        /\ \A j \in 1 .. n : /\ u[2 * j - 1] = RequeueReq(frame[ss[j]])
                             /\ u[2 * j] = SubscribeReq(ss[j])
        /\ \A i \in 1 .. 2 * n : \E j \in 1 .. n : i = 2 * j - 1 \/ i = 2 * j
    BY <1>1, <1>5, <2>0, NackReqsFacts
  <2>2. \A m, s : RequeueReq(m) # SubscribeReq(s)
    BY DEF RequeueReq, SubscribeReq
  <2>3. \A j \in 1 .. n : Proper(u[2 * j - 1], k) /\ Proper(u[2 * j], k)
    <3> SUFFICES ASSUME NEW j \in 1 .. n PROVE Proper(u[2 * j - 1], k) /\ Proper(u[2 * j], k)
      OBVIOUS
    <3>1. /\ ss[j] \in Subs /\ attr[ss[j]].conn = k /\ frame[ss[j]] \in Msgs
          /\ ToQueues(frame[ss[j]])
      BY <1>2
    <3>2. Proper(RequeueReq(frame[ss[j]]), k) /\ Proper(SubscribeReq(ss[j]), k)
      BY <3>1, ProperReqs
    <3> QED
      BY <2>1, <3>2
  <2>4. \A i \in 1 .. 2 * n : Proper(u[i], k)
    BY <2>1, <2>3
  <2>5. \A s \in Subs : \A i \in 1 .. 2 * n : u[i] = SubscribeReq(s) =>
          \E j \in 1 .. n : i = 2 * j /\ ss[j] = s
    <3> SUFFICES ASSUME NEW s \in Subs, NEW i \in 1 .. 2 * n, u[i] = SubscribeReq(s)
                 PROVE  \E j \in 1 .. n : i = 2 * j /\ ss[j] = s
      OBVIOUS
    <3>1. PICK j \in 1 .. n : i = 2 * j - 1 \/ i = 2 * j
      BY <2>1
    <3>2. u[2 * j - 1] # SubscribeReq(s)
      BY <2>1, <2>2
    <3>3. i = 2 * j /\ u[2 * j] = SubscribeReq(s)
      BY <3>1, <3>2
    <3> QED
      BY <1>0, <1>2, <2>1, <3>3
  <2>6. \A s \in Subs : s \notin Elems(ss) => \A i \in 1 .. 2 * n : u[i] # SubscribeReq(s)
    BY <1>2, <2>5
  <2>7. \A s \in Subs : \A i, j \in 1 .. 2 * n :
          u[i] = SubscribeReq(s) /\ u[j] = SubscribeReq(s) => i = j
    <3> SUFFICES ASSUME NEW s \in Subs, NEW i \in 1 .. 2 * n, NEW j \in 1 .. 2 * n,
                        u[i] = SubscribeReq(s), u[j] = SubscribeReq(s)
                 PROVE  i = j
      OBVIOUS
    <3>1. PICK a \in 1 .. n : i = 2 * a /\ ss[a] = s
      BY <2>5
    <3>2. PICK b \in 1 .. n : j = 2 * b /\ ss[b] = s
      BY <2>5
    <3> QED
      BY <1>3, <3>1, <3>2
  <2> QED
    BY <2>1, <2>4, <2>6, <2>7
<1> QED
  BY <1>4, <1>5

\* An ACK or a NACK: the objects that it takes from the list ask for a frame.
LEMMA AckStep ==
  ASSUME ObjInv, NEW k \in Conns, HandleAck(k) \/ HandleNack(k)
  PROVE  ObjInv'
<1>1. PICK ss \in Seq(Subs), l1 \in Seq(Subs), u \in Seq(Requests) :
        /\ Distinct(ss) /\ Distinct(l1) /\ Elems(ss) \subseteq Elems(subList[k])
        /\ Elems(l1) = Elems(subList[k]) \ Elems(ss)
        /\ \A s \in Elems(ss) : s \in Subs /\ frame[s] \in Msgs /\ ToQueues(frame[s])
        /\ subList' = [subList EXCEPT ![k] = l1]
        /\ frame' = [s \in Subs |-> IF s \in Elems(ss) THEN None ELSE frame[s]]
        /\ out[k] = <<>> /\ out' = [out EXCEPT ![k] = u]
        /\ \/ u = AckReqs(ss) /\ settled' = settled \cup {frame[s] : s \in Elems(ss)}
           \/ u = NackReqs(ss) /\ settled' = settled
        /\ panicked = None /\ phase[k] = "run"
        /\ UNCHANGED <<phase, subs, subCh, writeCh, log, attr, inList, procVars,
                       dest, dropped, owed, panicked>>
  BY AckDoes DEF ObjInv
<1>2. UNCHANGED <<phase, subs, subCh, writeCh, log, attr, inList, requestCh, procOut, storage,
                  waiting, dest, dropped, owed, panicked>>
  BY <1>1 DEF procVars
<1>3. \A s \in Elems(subList[k]) : /\ s \in Subs /\ attr[s].conn = k /\ In("list", s)
                                   /\ attr[s].ack # "auto"
  <2> SUFFICES ASSUME NEW i \in 1 .. Len(subList[k])
               PROVE  LET s == subList[k][i]
                      IN  /\ s \in Subs /\ attr[s].conn = k /\ In("list", s)
                          /\ attr[s].ack # "auto"
    BY DEF Elems
  <2>1. PICK s \in Subs : s = subList[k][i]
    BY DEF ObjInv, TypeOK
  <2>2. attr[s].conn = k /\ attr[s].ack # "auto" /\ i \in Nat
    BY <2>1 DEF ObjInv, Homes, HomeList
  <2>3. ListAt(i, s)
    BY <2>1, <2>2 DEF ListAt
  <2> QED
    BY <2>1, <2>2, <2>3, PlaceIs DEF In
<1>4. /\ \A i \in 1 .. Len(u) : Proper(u[i], k)
      /\ \A s \in Subs : s \notin Elems(ss) => \A i \in 1 .. Len(u) : u[i] # SubscribeReq(s)
      /\ \A s \in Subs : \A i, j \in 1 .. Len(u) :
           u[i] = SubscribeReq(s) /\ u[j] = SubscribeReq(s) => i = j
  <2>1. \A s \in Elems(ss) : /\ s \in Subs /\ attr[s].conn = k
                             /\ frame[s] \in Msgs /\ ToQueues(frame[s])
    BY <1>1, <1>3
  <2>2. u = AckReqs(ss) \/ u = NackReqs(ss)
    BY <1>1
  <2> QED
    BY <1>1, <2>1, <2>2, AckRequests
<1>5. HomeOut' /\ out' \in [Conns -> Seq(Requests)]
  BY <1>1, <1>2, <1>4, HomeOutSet DEF ObjInv
<1>6. TypeOK'
  <2>1. subList' \in [Conns -> Seq(Subs)]
    BY <1>1 DEF ObjInv, TypeOK
  <2>2. frame' \in [Subs -> Msgs \cup {None}]
    BY <1>1 DEF ObjInv, TypeOK
  <2>3. settled' \subseteq Msgs
    BY <1>1 DEF ObjInv, TypeOK
  <2> QED
    BY <1>2, <1>5, <2>1, <2>2, <2>3 DEF ObjInv, TypeOK
<1>7. Homes'
  <2>1. subList'[k] = l1 /\ \A h \in Conns : h # k => subList'[h] = subList[h]
    BY <1>1 DEF ObjInv, TypeOK
  <2>2. HomeList'
    <3> SUFFICES ASSUME NEW h \in Conns, NEW i \in 1 .. Len(subList'[h])
                 PROVE  attr[subList'[h][i]].conn = h /\ attr[subList'[h][i]].ack # "auto"
      BY <1>2 DEF HomeList
    <3>1. CASE h = k
      <4>1. subList'[h][i] \in Elems(l1)
        BY <2>1, <3>1 DEF Elems
      <4> QED
        BY <1>1, <1>3, <3>1, <4>1
    <3>2. CASE h # k
      BY <2>1, <3>2 DEF ObjInv, Homes, HomeList
    <3> QED
      BY <3>1, <3>2
  <2> QED
    BY <1>2, <1>5, <2>2, HomesStay DEF ObjInv, Homes
<1>8. ASSUME NEW s \in Subs
      PROVE  /\ Unique(s) /\ FramedAs(s) /\ Keeps("req", s) /\ Keeps("wait", s)
             /\ Keeps("proc", s) /\ Keeps("sub", s) /\ Keeps("list", s) /\ Single("out", s)'
  <2>1. Single("out", s)'
    BY <1>1, <1>2, <1>4, OutSet DEF ObjInv
  <2>2. Elems(l1) \subseteq Elems(subList[k])
    BY <1>1
  <2>3. Keeps("list", s)
    BY <1>1, <1>2, <2>2, ListLess DEF ObjInv
  <2> QED
    BY <1>2, <2>1, <2>3, Still DEF ObjInv, OnePlace, Framed, Same
<1>9. ASSUME NEW s \in Subs, s \notin Elems(ss) PROVE Unique(s)' /\ FramedAs(s)'
  <2>1. frame'[s] = frame[s]
    BY <1>1, <1>9
  <2>2. Keeps("out", s)
    BY <1>1, <1>2, <1>4, <1>9, OutSet DEF ObjInv
  <2>3. Rest(s)
    BY <1>8, <2>2, PlaceNames DEF Rest
  <2> QED
    BY <1>2, <1>8, <2>1, <2>3, Rests, RestsFramed
<1>10. ASSUME NEW s \in Subs, s \in Elems(ss) PROVE Unique(s)' /\ FramedAs(s)' /\ ~In("proc", s)
  <2>1. In("list", s) /\ attr[s].conn = k /\ s \notin Elems(l1)
    BY <1>1, <1>3, <1>10
  <2>2. Elems(l1) \subseteq Elems(subList[k])
    BY <1>1
  <2>3. ~In("list", s)'
    BY <1>1, <1>2, <2>1, <2>2, ListLess DEF ObjInv
  <2>4. Unique(s)' /\ \A c \in Places : In(c, s)' => c = "out"
    BY <1>8, <2>1, <2>3, Moves, PlaceNames, SMTT(30)
  <2>5. frame'[s] = None
    BY <1>1, <1>10
  <2>6. \A c \in Busy : ~In(c, s)'
    BY <2>4, PlaceNames
  <2>7. ~In("proc", s)
    BY <1>8, <2>1, PlaceNames DEF Unique
  <2> QED
    BY <2>4, <2>5, <2>6, <2>7 DEF FramedAs
<1>11. ProcFramed'
  <2>1. \A s \in Subs : In("proc", s) => frame'[s] = frame[s]
    BY <1>1, <1>10
  <2> QED
    BY <1>2, <2>1, ProcFramedStays DEF ObjInv, Framed
<1>12. Listed'
  BY <1>2, ListedStays DEF ObjInv
<1> QED
  BY <1>6, <1>7, <1>9, <1>10, <1>11, <1>12 DEF ObjInv, OnePlace, Framed

\* The request that the processor takes.
LEMMA ServeFacts ==
  ASSUME ObjInv, NEW op, Serve(op), attr' = attr, dest' = dest
  PROVE  /\ panicked = None /\ procOut = <<>> /\ requestCh # <<>>
         /\ Head(requestCh) = requestCh[1] /\ requestCh[1] \in Requests
         /\ requestCh[1].op = op /\ GoodReq(requestCh[1])
         /\ requestCh' = Tail(requestCh) /\ requestCh' \in Seq(Requests) /\ HomeReq'
<1>1. /\ panicked = None /\ procOut = <<>> /\ requestCh # <<>> /\ Head(requestCh).op = op
      /\ requestCh' = Tail(requestCh)
  BY DEF Serve
<1>2. /\ Head(requestCh) = requestCh[1] /\ requestCh[1] \in Requests /\ 1 \in 1 .. Len(requestCh)
      /\ Tail(requestCh) \in Seq(Requests)
      /\ \A i \in 1 .. Len(Tail(requestCh)) :
           i + 1 \in 1 .. Len(requestCh) /\ Tail(requestCh)[i] = requestCh[i + 1]
  BY <1>1, HeadFacts DEF ObjInv, TypeOK
<1>3. GoodReq(requestCh[1])
  BY <1>2 DEF ObjInv, Homes, HomeReq
<1>4. HomeReq'
  <2> SUFFICES ASSUME NEW i \in 1 .. Len(Tail(requestCh))
               PROVE  \A r : r = Tail(requestCh)[i] => GoodReq(r)
    BY <1>1 DEF HomeReq, GoodReq, ToQueues
  <2> QED
    BY <1>2 DEF ObjInv, Homes, HomeReq
<1> QED
  BY <1>1, <1>2, <1>3, <1>4

\* A request that is not about a subscription moves no object out of requestChannel.
LEMMA ReqLeft ==
  ASSUME ObjInv, requestCh # <<>>, requestCh' = Tail(requestCh), NEW s \in Subs
  PROVE  Keeps("req", s)
BY ReqTail DEF ObjInv

\* The other requests change nothing.
LEMMA ServeOtherStep ==
  ASSUME ObjInv, ServeOther
  PROVE  ObjInv'
<1>1. /\ Serve("Disconnected")
      /\ UNCHANGED <<phase, subs, subList, out, subCh, writeCh, log, attr, frame, inList, procOut,
                     storage, waiting, dest, settled, dropped, owed, panicked>>
  BY DEF ServeOther, connVars, subVars, histVars
<1>2. requestCh # <<>> /\ requestCh' = Tail(requestCh) /\ requestCh' \in Seq(Requests) /\ HomeReq'
  BY <1>1, ServeFacts
<1>3. TypeOK'
  BY <1>1, <1>2 DEF ObjInv, TypeOK
<1>4. Homes'
  BY <1>1, <1>2, HomesStay DEF ObjInv, Homes
<1>5. ASSUME NEW s \in Subs PROVE Unique(s)' /\ FramedAs(s)'
  <2>1. /\ Unique(s) /\ FramedAs(s) /\ Keeps("out", s) /\ Keeps("wait", s)
        /\ Keeps("proc", s) /\ Keeps("sub", s) /\ Keeps("list", s)
    BY <1>1, Still DEF ObjInv, OnePlace, Framed, Same
  <2>2. Keeps("req", s)
    BY <1>2, ReqLeft
  <2>3. Rest(s)
    BY <2>1, <2>2, PlaceNames DEF Rest
  <2> QED
    BY <1>1, <2>1, <2>3, Rests, RestsFramed
<1>6. ProcFramed' /\ Listed'
  BY <1>1, ProcFramedStays, ListedStays DEF ObjInv, Framed
<1> QED
  BY <1>3, <1>4, <1>5, <1>6 DEF ObjInv, OnePlace, Framed

\* A topic hands copies of a frame to the processor; its objects stay listed.
LEMMA ServeEnqueueTopicStep ==
  ASSUME ObjInv, ServeEnqueueTopic
  PROVE  ObjInv'
<1>1. PICK m : m = Head(requestCh).msg
  OBVIOUS
<1>2. /\ Serve("Enqueue") /\ dest[m] \in Topics
      /\ procOut' = [i \in DOMAIN waiting[dest[m]] |-> [sub |-> waiting[dest[m]][i], msg |-> m]]
      /\ owed' = [s \in Subs |->
                    IF \E i \in DOMAIN waiting[dest[m]] : waiting[dest[m]][i] = s
                    THEN owed[s] \cup {m} ELSE owed[s]]
      /\ UNCHANGED <<phase, subs, subList, out, subCh, writeCh, log, attr, frame, inList,
                     storage, waiting, dest, settled, dropped, panicked>>
  BY <1>1 DEF ServeEnqueueTopic, connVars, subVars
<1>3. /\ requestCh # <<>> /\ requestCh' = Tail(requestCh) /\ requestCh' \in Seq(Requests)
      /\ HomeReq' /\ Head(requestCh) = requestCh[1] /\ requestCh[1] \in Requests
      /\ requestCh[1].op = "Enqueue"
  BY <1>2, ServeFacts
<1>4. m \in Msgs /\ dest[m] \in Dests
  BY <1>1, <1>2, <1>3, ReqForm DEF Dests
<1>5. PICK l \in Seq(Subs) : l = waiting[dest[m]] /\ DOMAIN l = 1 .. Len(l) /\ Len(l) \in Nat
  BY <1>4 DEF ObjInv, TypeOK
<1>6. PICK p \in Seq(Deliveries) :
        /\ p = procOut' /\ Len(p) = Len(l)
        /\ \A i \in 1 .. Len(l) : p[i] = [sub |-> l[i], msg |-> m]
  <2>1. PICK n \in Nat : n = Len(l)
    BY <1>5
  <2>2. \A i \in 1 .. n : [sub |-> l[i], msg |-> m] \in Deliveries
    BY <1>4, <1>5, <2>1 DEF Deliveries
  <2>3. PICK p \in [1 .. n -> Deliveries] : p = [i \in 1 .. n |-> [sub |-> l[i], msg |-> m]]
    BY <2>2
  <2>4. p \in Seq(Deliveries) /\ Len(p) = n
    BY <2>3, FunSeq
  <2>5. p = procOut'
    BY <1>2, <1>5, <2>1, <2>3
  <2> QED
    BY <2>1, <2>3, <2>4, <2>5
<1>6a. \A i \in 1 .. Len(p) : p[i].sub = l[i] /\ p[i].msg = m
  <2> SUFFICES ASSUME NEW i \in 1 .. Len(p) PROVE p[i].sub = l[i] /\ p[i].msg = m
    OBVIOUS
  <2>1. p[i] = [sub |-> l[i], msg |-> m]
    BY <1>6
  <2>2. [sub |-> l[i], msg |-> m].sub = l[i] /\ [sub |-> l[i], msg |-> m].msg = m
    OBVIOUS
  <2> QED
    BY <2>1, <2>2, Zenon
<1>7. TypeOK'
  <2>1. owed' \in [Subs -> SUBSET Msgs]
    BY <1>2, <1>4 DEF ObjInv, TypeOK
  <2> QED
    BY <1>2, <1>3, <1>6, <2>1 DEF ObjInv, TypeOK
<1>8. ~ToQueues(m)
  BY <1>2, DestAssumption DEF ToQueues
<1>9. Homes'
  <2>1. HomeProc'
    <3> SUFFICES ASSUME NEW i \in 1 .. Len(l)
                 PROVE  attr[p[i].sub] # NoAttr /\ attr[p[i].sub].dest = dest[p[i].msg]
      BY <1>2, <1>6, ZenonT(30) DEF HomeProc
    <3>1. attr[l[i]].dest = dest[m]
      BY <1>4, <1>5 DEF ObjInv, Homes, HomeWait
    <3>2. attr[l[i]] # NoAttr
      BY <1>4, <3>1, NoneAssumption DEF NoAttr
    <3>3. p[i].sub = l[i] /\ p[i].msg = m
      BY <1>6, <1>6a
    <3> QED
      BY <3>1, <3>2, <3>3
  <2> QED
    BY <1>2, <1>3, <2>1, HomesStay DEF ObjInv, Homes
<1>11. ASSUME NEW s \in Subs PROVE Unique(s)' /\ FramedAs(s)'
  <2>1. /\ Unique(s) /\ FramedAs(s) /\ Keeps("out", s) /\ Keeps("wait", s)
        /\ Keeps("sub", s) /\ Keeps("list", s)
    BY <1>2, Still DEF ObjInv, OnePlace, Framed, Same
  <2>2. Keeps("req", s)
    BY <1>3, ReqLeft
  <2>3. \A i \in Nat : ~Place("proc", i, s)'
    BY <1>2, <1>6, <1>8, <1>6a DEF Place, ProcAt, ToQueues
  <2>4. Rest(s)
    BY <2>1, <2>2, <2>3, NotThere, PlaceNames DEF Rest
  <2> QED
    BY <1>2, <2>1, <2>4, Rests, RestsFramed
<1>12. ProcFramed'
  BY <1>2, <1>6, <1>8, <1>6a DEF ProcFramed, ToQueues
<1>13. Listed'
  BY <1>2, ListedStays DEF ObjInv
<1> QED
  BY <1>7, <1>9, <1>11, <1>12, <1>13 DEF ObjInv, OnePlace, Framed

\* An Unsubscribe takes the object from the list of its queue or topic.
LEMMA ServeUnsubscribeStep ==
  ASSUME ObjInv, ServeUnsubscribe
  PROVE  ObjInv'
<1>1. PICK x : x = Head(requestCh).sub
  OBVIOUS
<1>2. PICK d : d = attr[x].dest
  OBVIOUS
<1>3. /\ Serve("Unsubscribe")
      /\ waiting' = [waiting EXCEPT ![d] = Without(@, x)]
      /\ inList' = IF d \in Queues /\ \E i \in DOMAIN waiting[d] : waiting[d][i] = x
                    THEN [inList EXCEPT ![x] = FALSE] ELSE inList
      /\ owed' = IF d \in Topics THEN [owed EXCEPT ![x] = {}] ELSE owed
      /\ UNCHANGED <<phase, subs, subList, out, subCh, writeCh, log, attr, frame, procOut, storage,
                     dest, settled, dropped, panicked>>
  BY <1>1, <1>2 DEF ServeUnsubscribe, connVars
<1>4. /\ requestCh # <<>> /\ requestCh' = Tail(requestCh) /\ requestCh' \in Seq(Requests)
      /\ HomeReq' /\ Head(requestCh) = requestCh[1] /\ requestCh[1] \in Requests
      /\ requestCh[1].op = "Unsubscribe" /\ GoodReq(requestCh[1])
  BY <1>3, ServeFacts
<1>5. x \in Subs /\ attr[x] # NoAttr
  BY <1>1, <1>4, ReqForm DEF GoodReq
<1>6. d \in Dests /\ attr[x].dest = d
  BY <1>2, <1>5 DEF ObjInv, TypeOK
<1>7. ASSUME NEW s \in Subs
      PROVE  /\ Keeps("wait", s) /\ waiting' \in [Dests -> Seq(Subs)]
             /\ s # x => (In("wait", s) => In("wait", s)')
             /\ ~In("wait", x)'
  BY <1>3, <1>5, <1>6, WaitWithout DEF ObjInv
<1>8. TypeOK'
  <2>1. waiting' \in [Dests -> Seq(Subs)]
    BY <1>5, <1>7
  <2>2. inList' \in [Subs -> BOOLEAN]
    BY <1>3 DEF ObjInv, TypeOK
  <2>3. owed' \in [Subs -> SUBSET Msgs]
    BY <1>3 DEF ObjInv, TypeOK
  <2> QED
    BY <1>3, <1>4, <2>1, <2>2, <2>3 DEF ObjInv, TypeOK
<1>9. PICK l \in Seq(Subs) : l = waiting[d] /\ DOMAIN l = 1 .. Len(l) /\ Len(l) \in Nat
  BY <1>6 DEF ObjInv, TypeOK
<1>10. Homes'
  <2>1. \A i, j \in 1 .. Len(l) : l[i] = x /\ l[j] = x => i = j
    BY <1>5, <1>6, <1>9, WaitOnce DEF ObjInv
  <2>2. PICK w \in Seq(Subs) :
          /\ w = Without(l, x)
          /\ \/ w = l /\ \A i \in 1 .. Len(l) : l[i] # x
             \/ \E p \in 1 .. Len(l) :
                  /\ l[p] = x /\ Len(w) = Len(l) - 1
                  /\ \A i \in 1 .. Len(l) - 1 : w[i] = IF i < p THEN l[i] ELSE l[i + 1]
    BY <1>5, <2>1, WithoutFacts
  <2>3. \A i \in 1 .. Len(w) : \E j \in 1 .. Len(l) : w[i] = l[j]
    <3>1. \A i \in 1 .. Len(l) - 1 : i \in 1 .. Len(l) /\ i + 1 \in 1 .. Len(l)
      BY <1>9
    <3> QED
      BY <2>2, <3>1
  <2>4. waiting'[d] = w /\ \A e \in Dests : e # d => waiting'[e] = waiting[e]
    BY <1>3, <1>6, <1>9, <2>2 DEF ObjInv, TypeOK
  <2>5. HomeWait'
    <3> SUFFICES ASSUME NEW e \in Dests, NEW i \in 1 .. Len(waiting'[e])
                 PROVE  attr[waiting'[e][i]].dest = e
      BY <1>3 DEF HomeWait
    <3>1. CASE e = d
      <4>1. PICK j \in 1 .. Len(l) : waiting'[e][i] = l[j]
        BY <2>3, <2>4, <3>1
      <4> QED
        BY <1>6, <1>9, <3>1, <4>1 DEF ObjInv, Homes, HomeWait
    <3>2. CASE e # d
      BY <2>4, <3>2 DEF ObjInv, Homes, HomeWait
    <3> QED
      BY <3>1, <3>2
  <2> QED
    BY <1>3, <1>4, <2>5, HomesStay DEF ObjInv, Homes
<1>11. ASSUME NEW s \in Subs PROVE Unique(s)' /\ FramedAs(s)'
  <2>1. /\ Unique(s) /\ FramedAs(s) /\ Keeps("out", s) /\ Keeps("proc", s)
        /\ Keeps("sub", s) /\ Keeps("list", s)
    BY <1>3, Still DEF ObjInv, OnePlace, Framed, Same
  <2>2. Keeps("req", s)
    BY <1>4, ReqLeft
  <2>3. Rest(s)
    BY <1>7, <2>1, <2>2, PlaceNames DEF Rest
  <2> QED
    BY <1>3, <2>1, <2>3, Rests, RestsFramed
<1>12. ProcFramed'
  BY <1>3, ProcFramedStays DEF ObjInv, Framed
<1>13. Listed'
  <2> SUFFICES ASSUME NEW s \in Subs, inList'[s]
               PROVE  /\ attr[s] # NoAttr
                      /\ attr[s].ack = "auto" => attr[s].dest \in Queues /\ In("wait", s)'
    BY <1>3 DEF Listed
  <2>1. inList[s]
    BY <1>3 DEF ObjInv, TypeOK
  <2>2. /\ attr[s] # NoAttr
        /\ attr[s].ack = "auto" => attr[s].dest \in Queues /\ In("wait", s)
    BY <2>1 DEF ObjInv, Listed
  <2>3. CASE s # x
    BY <1>7, <2>2, <2>3
  <2>4. CASE s = x
    <3>1. ASSUME attr[s].ack = "auto" PROVE FALSE
      <4>1. PICK i \in Nat : WaitAt(i, x) /\ d \in Queues
        BY <1>6, <2>2, <2>4, <3>1, PlaceIs DEF In
      <4>2. i \in DOMAIN waiting[d] /\ waiting[d][i] = x
        BY <1>6, <1>9, <4>1 DEF WaitAt
      <4>3. inList' = [inList EXCEPT ![x] = FALSE]
        BY <1>3, <4>1, <4>2
      <4> QED
        BY <1>5, <2>4, <4>3 DEF ObjInv, TypeOK
    <3> QED
      BY <2>2, <3>1
  <2> QED
    BY <2>3, <2>4
<1> QED
  BY <1>8, <1>10, <1>11, <1>12, <1>13 DEF ObjInv, OnePlace, Framed

\* Those in the list of a queue or topic stay when another is appended.
LEMMA WaitMore ==
  ASSUME TypeOK, attr' = attr, NEW d \in Dests, NEW x \in Subs, attr[x].dest = d,
         waiting' = [waiting EXCEPT ![d] = Append(@, x)]
  PROVE  /\ waiting' \in [Dests -> Seq(Subs)] /\ In("wait", x)'
         /\ \A s \in Subs : In("wait", s) => In("wait", s)'
         /\ HomeWait => HomeWait'
<1>1. PICK l \in Seq(Subs) : l = waiting[d]
  BY DEF TypeOK
<1>2. PICK n \in Nat : n = Len(l)
  OBVIOUS
<1>3. PICK t \in Seq(Subs) : t = Append(l, x)
  BY AppendProperties
<1>4. Len(t) = n + 1 /\ t[n + 1] = x /\ \A i \in 1 .. n : t[i] = l[i]
  BY <1>2, <1>3, AppendProperties
<1>5. waiting'[d] = t /\ \A h \in Dests : h # d => waiting'[h] = waiting[h]
  BY <1>1, <1>3 DEF TypeOK
<1>6. waiting' \in [Dests -> Seq(Subs)]
  BY <1>1, <1>3 DEF TypeOK
<1>7. In("wait", x)'
  <2>1. Place("wait", n + 1, x)' /\ n + 1 \in Nat
    BY <1>4, <1>5 DEF Place, WaitAt
  <2> QED
    BY <2>1 DEF In
<1>8. ASSUME NEW s \in Subs, In("wait", s) PROVE In("wait", s)'
  <2>1. PICK i \in Nat : Place("wait", i, s)
    BY <1>8 DEF In
  <2>2. CASE attr[s].dest = d
    <3>1. i \in 1 .. n /\ l[i] = s
      BY <1>1, <1>2, <2>1, <2>2 DEF Place, WaitAt
    <3>2. i \in 1 .. Len(t) /\ t[i] = s
      BY <1>4, <3>1
    <3>3. Place("wait", i, s)'
      BY <1>5, <2>2, <3>2 DEF Place, WaitAt
    <3> QED
      BY <3>3 DEF In
  <2>3. CASE attr[s].dest # d
    <3>1. Place("wait", i, s)'
      BY <1>5, <2>1, <2>3 DEF Place, WaitAt
    <3> QED
      BY <3>1 DEF In
  <2> QED
    BY <2>2, <2>3
<1>9. ASSUME HomeWait PROVE HomeWait'
  <2> SUFFICES ASSUME NEW e \in Dests, NEW i \in 1 .. Len(waiting'[e])
               PROVE  attr[waiting'[e][i]].dest = e
    BY DEF HomeWait
  <2>1. CASE e = d
    <3>1. i \in 1 .. n + 1 /\ waiting'[e][i] = t[i]
      BY <1>4, <1>5, <2>1
    <3>2. i = n + 1 \/ i \in 1 .. n
      BY <3>1
    <3> QED
      BY <1>1, <1>2, <1>4, <1>9, <2>1, <3>1, <3>2 DEF HomeWait
  <2>2. CASE e # d
    BY <1>5, <1>9, <2>2 DEF HomeWait
  <2> QED
    BY <2>1, <2>2
<1> QED
  BY <1>6, <1>7, <1>8, <1>9

\* Those behind the first one stay when it is taken.
LEMMA WaitLess ==
  ASSUME TypeOK, attr' = attr, NEW d \in Dests, waiting[d] # <<>>,
         waiting' = [waiting EXCEPT ![d] = Tail(@)]
  PROVE  /\ waiting' \in [Dests -> Seq(Subs)]
         /\ \A s \in Subs : s # waiting[d][1] /\ In("wait", s) => In("wait", s)'
         /\ HomeWait => HomeWait'
<1>1. PICK l \in Seq(Subs) : l = waiting[d]
  BY DEF TypeOK
<1>2. /\ Len(l) \in Nat /\ Tail(l) \in Seq(Subs) /\ Len(Tail(l)) = Len(l) - 1
      /\ \A i \in 1 .. Len(Tail(l)) : i + 1 \in 1 .. Len(l) /\ Tail(l)[i] = l[i + 1]
  BY <1>1, HeadFacts
<1>3. waiting'[d] = Tail(l) /\ \A h \in Dests : h # d => waiting'[h] = waiting[h]
  BY <1>1 DEF TypeOK
<1>4. waiting' \in [Dests -> Seq(Subs)]
  BY <1>1, <1>2 DEF TypeOK
<1>5. ASSUME NEW s \in Subs, s # waiting[d][1], In("wait", s) PROVE In("wait", s)'
  <2>1. PICK i \in Nat : Place("wait", i, s)
    BY <1>5 DEF In
  <2>2. CASE attr[s].dest = d
    <3>1. i \in 1 .. Len(l) /\ l[i] = s /\ i # 1
      BY <1>1, <1>5, <2>1, <2>2 DEF Place, WaitAt
    <3>2. i - 1 \in 1 .. Len(Tail(l)) /\ i - 1 \in Nat /\ (i - 1) + 1 = i
      BY <1>2, <3>1
    <3>3. Tail(l)[i - 1] = s
      BY <1>2, <3>1, <3>2
    <3>4. Place("wait", i - 1, s)'
      BY <1>3, <2>2, <3>2, <3>3 DEF Place, WaitAt
    <3> QED
      BY <3>2, <3>4 DEF In
  <2>3. CASE attr[s].dest # d
    <3>1. Place("wait", i, s)'
      BY <1>3, <2>1, <2>3 DEF Place, WaitAt
    <3> QED
      BY <3>1 DEF In
  <2> QED
    BY <2>2, <2>3
<1>6. ASSUME HomeWait PROVE HomeWait'
  <2> SUFFICES ASSUME NEW e \in Dests, NEW i \in 1 .. Len(waiting'[e])
               PROVE  attr[waiting'[e][i]].dest = e
    BY DEF HomeWait
  <2>1. CASE e = d
    <3>1. i \in 1 .. Len(Tail(l)) /\ waiting'[e][i] = Tail(l)[i]
      BY <1>3, <2>1
    <3> QED
      BY <1>1, <1>2, <1>6, <2>1, <3>1 DEF HomeWait
  <2>2. CASE e # d
    BY <1>3, <1>6, <2>2 DEF HomeWait
  <2> QED
    BY <2>1, <2>2
<1> QED
  BY <1>4, <1>5, <1>6

\* A frame of a queue is handed to x, which was at c: the part that the two ways
\* to do it share.
LEMMA HandOver ==
  ASSUME ObjInv, attr' = attr, dest' = dest, NEW x \in Subs, NEW m \in Msgs,
         ToQueues(m), dest[m] = attr[x].dest, attr[x] # NoAttr,
         NEW c \in Free, In(c, x), ~In(c, x)',
         \A s \in Subs, e \in Places : e # "proc" => Keeps(e, s),
         procOut = <<>>, procOut' = <<[sub |-> x, msg |-> m]>>,
         frame' = [frame EXCEPT ![x] = m]
  PROVE  /\ OnePlace' /\ Framed' /\ HomeProc' /\ procOut' \in Seq(Deliveries)
         /\ frame' \in [Subs -> Msgs \cup {None}]
<1>1. PICK p \in Deliveries : p = [sub |-> x, msg |-> m] /\ p.sub = x /\ p.msg = m
  BY DEF Deliveries
<1>2. procOut' = <<p>> /\ Len(procOut') = 1 /\ procOut'[1] = p /\ procOut' \in Seq(Deliveries)
  BY <1>1
<1>3. \A s \in Subs : Unique(s) /\ FramedAs(s) /\ Single("proc", s)'
  BY ProcSet DEF ObjInv, OnePlace, Framed
<1>4. ASSUME NEW s \in Subs, s # x PROVE Unique(s)' /\ FramedAs(s)'
  <2>1. Keeps("proc", s)
    BY <1>4, ProcSet DEF ObjInv
  <2>2. Rest(s)
    BY <2>1 DEF Rest
  <2>3. frame'[s] = frame[s]
    BY <1>4 DEF ObjInv, TypeOK
  <2> QED
    BY <1>3, <2>2, <2>3, Rests, RestsFramed
<1>5. frame'[x] = m /\ frame' \in [Subs -> Msgs \cup {None}]
  BY DEF ObjInv, TypeOK
<1>6. Unique(x)' /\ FramedAs(x)'
  <2>1. Unique(x)' /\ \A e \in Places : In(e, x)' => e = "proc"
    BY <1>3, Moves, PlaceNames
  <2>2. \A e \in Free : ~In(e, x)'
    BY <2>1, PlaceNames
  <2> QED
    BY <1>5, <2>1, <2>2 DEF FramedAs, ToQueues
<1>7. ProcFramed' /\ HomeProc'
  BY <1>1, <1>2, <1>5 DEF ProcFramed, HomeProc
<1> QED
  BY <1>2, <1>4, <1>5, <1>6, <1>7 DEF OnePlace, Framed

\* A Subscribe lists the object, or hands it a stored frame.
LEMMA ServeSubscribeStep ==
  ASSUME ObjInv, ServeSubscribe
  PROVE  ObjInv'
<1>1. PICK x : x = Head(requestCh).sub
  OBVIOUS
<1>2. PICK d : d = attr[x].dest
  OBVIOUS
<1>3. /\ Serve("Subscribe")
      /\ UNCHANGED <<phase, subs, subList, out, subCh, writeCh, log, attr,
                     dest, settled, dropped, owed>>
  BY DEF ServeSubscribe, connVars, histVars
<1>4. /\ requestCh # <<>> /\ requestCh' = Tail(requestCh) /\ requestCh' \in Seq(Requests)
      /\ HomeReq' /\ Head(requestCh) = requestCh[1] /\ requestCh[1] \in Requests
      /\ requestCh[1].op = "Subscribe" /\ GoodReq(requestCh[1]) /\ procOut = <<>>
  BY <1>3, ServeFacts
<1>5. x \in Subs /\ attr[x] # NoAttr /\ requestCh[1] = SubscribeReq(x)
  BY <1>1, <1>4, ReqForm DEF GoodReq
<1>6. d \in Dests /\ attr[x].dest = d
  BY <1>2, <1>5 DEF ObjInv, TypeOK
<1>7. In("req", x) /\ ~In("req", x)'
  BY <1>4, <1>5, ReqTail DEF ObjInv
<1>8. ASSUME NEW s \in Subs
      PROVE  /\ Unique(s) /\ FramedAs(s) /\ Keeps("out", s) /\ Keeps("req", s)
             /\ Keeps("sub", s) /\ Keeps("list", s)
             /\ procOut' = procOut => Keeps("proc", s)
             /\ waiting' = waiting => Keeps("wait", s)
  BY <1>3, <1>4, ReqLeft, Still DEF ObjInv, OnePlace, Framed, Same
<1>9. ~In("wait", x) /\ frame[x] = None
  BY <1>5, <1>7, <1>8, PlaceNames DEF Unique, FramedAs
<1>10. CASE /\ waiting' = [waiting EXCEPT ![d] = Append(@, x)]
            /\ \/ inList' = inList /\ panicked' = panicked
               \/ /\ d \in Queues /\ inList' = [inList EXCEPT ![x] = TRUE]
                  /\ PanicIf(inList[x], x)
            /\ UNCHANGED <<storage, frame, procOut>>
  <2>1. /\ waiting' \in [Dests -> Seq(Subs)] /\ In("wait", x)' /\ HomeWait'
        /\ \A s \in Subs : In("wait", s) => In("wait", s)'
    BY <1>3, <1>5, <1>6, <1>10, WaitMore DEF ObjInv, Homes
  <2>2. TypeOK'
    <3>1. inList' \in [Subs -> BOOLEAN] /\ panicked' \in Subs \cup {None}
      BY <1>5, <1>10 DEF ObjInv, TypeOK, PanicIf
    <3> QED
      BY <1>3, <1>4, <1>10, <2>1, <3>1 DEF ObjInv, TypeOK
  <2>3. Homes'
    BY <1>3, <1>4, <1>10, <2>1, HomesStay DEF ObjInv, Homes
  <2>4. ASSUME NEW s \in Subs, s # x PROVE Unique(s)' /\ FramedAs(s)'
    <3>1. Keeps("wait", s)
      BY <1>3, <1>5, <1>6, <1>10, <2>4, WaitAppend DEF ObjInv
    <3>2. Rest(s)
      BY <1>8, <1>10, <3>1, PlaceNames DEF Rest
    <3> QED
      BY <1>3, <1>8, <1>10, <3>2, Rests, RestsFramed
  <2>5. Unique(x)' /\ FramedAs(x)'
    <3>1. Single("wait", x)'
      BY <1>3, <1>5, <1>6, <1>9, <1>10, WaitAppend DEF ObjInv
    <3>2. Keeps("proc", x)
      BY <1>5, <1>8, <1>10
    <3>3. Unique(x)' /\ \A c \in Places : In(c, x)' => c = "wait"
      BY <1>5, <1>7, <1>8, <3>1, <3>2, Moves, PlaceNames
    <3>4. \A c \in Busy : ~In(c, x)'
      BY <3>3, PlaceNames
    <3> QED
      BY <1>9, <1>10, <3>3, <3>4 DEF FramedAs
  <2>6. ProcFramed'
    BY <1>3, <1>10, ProcFramedStays DEF ObjInv, Framed
  <2>7. Listed'
    <3>1. \A s \in Subs : inList'[s] => inList[s] \/ (s = x /\ d \in Queues)
      BY <1>10 DEF ObjInv, TypeOK
    <3> QED
      BY <1>3, <1>5, <1>6, <2>1, <3>1 DEF ObjInv, Listed
  <2> QED
    BY <2>2, <2>3, <2>4, <2>5, <2>6, <2>7 DEF ObjInv, OnePlace, Framed
<1>11. CASE /\ d \in Queues /\ storage[d] # <<>>
            /\ storage' = [storage EXCEPT ![d] = Tail(@)]
            /\ PanicIf(frame[x] # None, x)
            /\ frame' = [frame EXCEPT ![x] = Head(storage[d])]
            /\ procOut' = <<[sub |-> x, msg |-> Head(storage[d])]>>
            /\ UNCHANGED <<waiting, inList>>
  <2>1. PICK l \in Seq(Msgs) : l = storage[d]
    BY <1>11 DEF ObjInv, TypeOK
  <2>2. /\ Head(l) = l[1] /\ l[1] \in Msgs /\ 1 \in 1 .. Len(l) /\ Tail(l) \in Seq(Msgs)
        /\ \A i \in 1 .. Len(Tail(l)) : i + 1 \in 1 .. Len(l) /\ Tail(l)[i] = l[i + 1]
    BY <1>11, <2>1, HeadFacts
  <2>3. PICK m \in Msgs : m = Head(storage[d]) /\ dest[m] = d
    BY <1>11, <2>1, <2>2 DEF ObjInv, Homes, HomeStore
  <2>4. /\ ToQueues(m) /\ dest[m] = attr[x].dest
        /\ procOut' = <<[sub |-> x, msg |-> m]>> /\ frame' = [frame EXCEPT ![x] = m]
    BY <1>6, <1>11, <2>3 DEF ToQueues
  <2>5. \A s \in Subs, e \in Places : e # "proc" => Keeps(e, s)
    BY <1>8, <1>11, PlaceNames
  <2>6. "req" \in Free
    BY PlaceNames
  <2>7. /\ OnePlace' /\ Framed' /\ HomeProc' /\ procOut' \in Seq(Deliveries)
        /\ frame' \in [Subs -> Msgs \cup {None}]
    BY <1>3, <1>4, <1>5, <1>7, <2>4, <2>5, <2>6, HandOver
  <2>8. TypeOK'
    <3>1. storage' \in [Queues -> Seq(Msgs)] /\ panicked' \in Subs \cup {None}
      BY <1>5, <1>11, <2>1, <2>2 DEF ObjInv, TypeOK, PanicIf
    <3> QED
      BY <1>3, <1>4, <1>11, <2>7, <3>1 DEF ObjInv, TypeOK
  <2>9. Homes'
    <3>1. storage'[d] = Tail(l) /\ \A q \in Queues : q # d => storage'[q] = storage[q]
      BY <1>11, <2>1 DEF ObjInv, TypeOK
    <3>2. HomeStore'
      <4> SUFFICES ASSUME NEW q \in Queues, NEW i \in 1 .. Len(storage'[q])
                   PROVE  dest[storage'[q][i]] = q
        BY <1>3 DEF HomeStore
      <4>1. CASE q = d
        <5>1. i \in 1 .. Len(Tail(l)) /\ storage'[q][i] = Tail(l)[i]
          BY <3>1, <4>1
        <5> QED
          BY <2>1, <2>2, <4>1, <5>1 DEF ObjInv, Homes, HomeStore
      <4>2. CASE q # d
        BY <3>1, <4>2 DEF ObjInv, Homes, HomeStore
      <4> QED
        BY <4>1, <4>2
    <3> QED
      BY <1>3, <1>4, <1>11, <2>7, <3>2, HomesStay DEF ObjInv, Homes
  <2>10. Listed'
    BY <1>3, <1>11, ListedStays DEF ObjInv
  <2> QED
    BY <2>7, <2>8, <2>9, <2>10 DEF ObjInv
<1> QED
  BY <1>1, <1>2, <1>10, <1>11 DEF ServeSubscribe

\* A frame for a queue, new or returned: stored, or handed to the first that waits.
LEMMA ToQueueStep ==
  ASSUME ObjInv, ServeEnqueueQueue \/ ServeRequeue
  PROVE  ObjInv'
<1>1. PICK m : m = Head(requestCh).msg
  OBVIOUS
<1>2. /\ Serve("Enqueue") \/ Serve("Requeue")
      /\ UNCHANGED <<phase, subs, subList, out, subCh, writeCh, log, attr,
                     dest, settled, dropped, owed>>
  BY DEF ServeEnqueueQueue, ServeRequeue, connVars, histVars
<1>3. /\ requestCh # <<>> /\ requestCh' = Tail(requestCh) /\ requestCh' \in Seq(Requests)
      /\ HomeReq' /\ Head(requestCh) = requestCh[1] /\ requestCh[1] \in Requests
      /\ requestCh[1].op \in {"Enqueue", "Requeue"} /\ GoodReq(requestCh[1]) /\ procOut = <<>>
  BY <1>2, ServeFacts
<1>4. m \in Msgs /\ ToQueues(m)
  <2>1. CASE ServeEnqueueQueue
    BY <1>1, <1>3, <2>1, ReqForm DEF ServeEnqueueQueue, ToQueues
  <2>2. CASE ServeRequeue
    BY <1>1, <1>3, <2>2, ReqForm DEF ServeRequeue, Serve, GoodReq
  <2> QED
    BY <2>1, <2>2
<1>5. PICK q \in Queues : q = dest[m]
  BY <1>4 DEF ToQueues
<1>6. q \in Dests
  BY DEF Dests
<1>7. PICK t \in Seq(Msgs) :
        /\ ToQueue(m, t)
        /\ \A i \in 1 .. Len(t) : t[i] = m \/ \E j \in 1 .. Len(storage[q]) : t[i] = storage[q][j]
  <2>1. PICK l \in Seq(Msgs) : l = storage[q]
    BY DEF ObjInv, TypeOK
  <2>2. CASE ServeEnqueueQueue
    <3>1. ToQueue(m, Append(l, m))
      BY <1>1, <1>5, <2>1, <2>2 DEF ServeEnqueueQueue
    <3>2. PICK t \in Seq(Msgs) : t = Append(l, m)
      BY <1>4, AppendProperties
    <3>3. Len(t) = Len(l) + 1 /\ t[Len(l) + 1] = m /\ \A i \in 1 .. Len(l) : t[i] = l[i]
      BY <1>4, <3>2, AppendProperties
    <3>4. \A i \in 1 .. Len(t) : i = Len(l) + 1 \/ i \in 1 .. Len(l)
      BY <3>3
    <3> QED
      BY <2>1, <3>1, <3>2, <3>3, <3>4
  <2>3. CASE ServeRequeue
    <3>1. ToQueue(m, <<m>> \o l)
      BY <1>1, <1>5, <2>1, <2>3 DEF ServeRequeue
    <3>2. <<m>> \in Seq(Msgs) /\ Len(<<m>>) = 1 /\ <<m>>[1] = m
      BY <1>4
    <3>3. PICK t \in Seq(Msgs) : t = <<m>> \o l
      BY <3>2, ConcatProperties
    <3>4. Len(t) = 1 + Len(l) /\ \A i \in 1 .. Len(t) : t[i] = m \/ \E j \in 1 .. Len(l) : t[i] = l[j]
      <4>1. Len(t) = 1 + Len(l) /\ t[1] = m /\ \A j \in 1 .. Len(l) : t[1 + j] = l[j]
        BY <3>2, <3>3, ConcatProperties
      <4>2. ASSUME NEW i \in 1 .. Len(t), i # 1 PROVE i - 1 \in 1 .. Len(l) /\ t[i] = l[i - 1]
        <5>1. i - 1 \in 1 .. Len(l) /\ 1 + (i - 1) = i
          BY <4>1, <4>2
        <5> QED
          BY <4>1, <5>1
      <4> QED
        BY <4>1, <4>2
    <3> QED
      BY <2>1, <3>1, <3>3, <3>4
  <2> QED
    BY <2>2, <2>3
<1>8. ASSUME NEW s \in Subs
      PROVE  /\ Unique(s) /\ FramedAs(s) /\ Keeps("out", s) /\ Keeps("req", s)
             /\ Keeps("sub", s) /\ Keeps("list", s)
             /\ procOut' = procOut => Keeps("proc", s)
             /\ waiting' = waiting => Keeps("wait", s)
  BY <1>2, <1>3, ReqLeft, Still DEF ObjInv, OnePlace, Framed, Same
<1>9. CASE /\ waiting[q] = <<>> /\ storage' = [storage EXCEPT ![q] = t]
           /\ UNCHANGED <<waiting, inList, frame, procOut, panicked>>
  <2>1. TypeOK'
    <3>1. storage' \in [Queues -> Seq(Msgs)]
      BY <1>9 DEF ObjInv, TypeOK
    <3> QED
      BY <1>2, <1>3, <1>9, <3>1 DEF ObjInv, TypeOK
  <2>2. Homes'
    <3>1. storage'[q] = t /\ \A p \in Queues : p # q => storage'[p] = storage[p]
      BY <1>9 DEF ObjInv, TypeOK
    <3>2. \A i \in 1 .. Len(t) : dest[t[i]] = q
      BY <1>5, <1>7 DEF ObjInv, Homes, HomeStore
    <3>3. HomeStore'
      <4> SUFFICES ASSUME NEW p \in Queues, NEW i \in 1 .. Len(storage'[p])
                   PROVE  dest[storage'[p][i]] = p
        BY <1>2 DEF HomeStore
      <4>1. CASE p = q
        BY <3>1, <3>2, <4>1
      <4>2. CASE p # q
        BY <3>1, <4>2 DEF ObjInv, Homes, HomeStore
      <4> QED
        BY <4>1, <4>2
    <3> QED
      BY <1>2, <1>3, <1>9, <3>3, HomesStay DEF ObjInv, Homes
  <2>3. ASSUME NEW s \in Subs PROVE Unique(s)' /\ FramedAs(s)'
    <3>1. Rest(s)
      BY <1>8, <1>9, PlaceNames DEF Rest
    <3> QED
      BY <1>2, <1>8, <1>9, <3>1, Rests, RestsFramed
  <2>4. ProcFramed' /\ Listed'
    BY <1>2, <1>9, ProcFramedStays, ListedStays DEF ObjInv, Framed
  <2> QED
    BY <2>1, <2>2, <2>3, <2>4 DEF ObjInv, OnePlace, Framed
<1>10. ASSUME waiting[q] # <<>>, NEW x, x = Head(waiting[q]), PanicIf(frame[x] # None, x),
              frame' = [frame EXCEPT ![x] = m], inList' = [inList EXCEPT ![x] = FALSE],
              procOut' = <<[sub |-> x, msg |-> m]>>, waiting' = [waiting EXCEPT ![q] = Tail(@)],
              storage' = storage
       PROVE  ObjInv'
  <2>1. x \in Subs /\ x = waiting[q][1] /\ 1 \in 1 .. Len(waiting[q])
    BY <1>6, <1>10, HeadFacts DEF ObjInv, TypeOK
  <2>2. attr[x].dest = q
    BY <1>6, <2>1 DEF ObjInv, Homes, HomeWait
  <2>3. attr[x] # NoAttr
    BY <1>6, <2>2, NoneAssumption DEF NoAttr
  <2>4. In("wait", x) /\ ~In("wait", x)'
    BY <1>2, <1>6, <1>10, <2>1, <2>2, WaitTail DEF ObjInv
  <2>5. \A s \in Subs : Keeps("wait", s)
    BY <1>2, <1>6, <1>10, WaitTail DEF ObjInv
  <2>6. \A s \in Subs, e \in Places : e # "proc" => Keeps(e, s)
    BY <1>8, <2>5, PlaceNames
  <2>7. "wait" \in Free
    BY PlaceNames
  <2>8. /\ OnePlace' /\ Framed' /\ HomeProc' /\ procOut' \in Seq(Deliveries)
        /\ frame' \in [Subs -> Msgs \cup {None}]
    <3>1. dest[m] = attr[x].dest
      BY <1>5, <2>2
    <3> QED
      BY <1>2, <1>3, <1>4, <1>10, <2>1, <2>3, <2>4, <2>6, <2>7, <3>1, HandOver
  <2>9. /\ waiting' \in [Dests -> Seq(Subs)] /\ HomeWait'
        /\ \A s \in Subs : s # x /\ In("wait", s) => In("wait", s)'
    BY <1>2, <1>6, <1>10, <2>1, WaitLess DEF ObjInv, Homes
  <2>10. TypeOK'
    <3>1. inList' \in [Subs -> BOOLEAN] /\ panicked' \in Subs \cup {None}
      BY <1>10, <2>1 DEF ObjInv, TypeOK, PanicIf
    <3> QED
      BY <1>2, <1>3, <1>10, <2>8, <2>9, <3>1 DEF ObjInv, TypeOK
  <2>11. Homes'
    BY <1>2, <1>3, <1>10, <2>8, <2>9, HomesStay DEF ObjInv, Homes
  <2>12. Listed'
    <3>1. \A s \in Subs : inList'[s] => inList[s] /\ s # x
      BY <1>10, <2>1 DEF ObjInv, TypeOK
    <3> QED
      BY <1>2, <2>9, <3>1 DEF ObjInv, Listed
  <2> QED
    BY <2>8, <2>10, <2>11, <2>12 DEF ObjInv
<1> QED
  BY <1>5, <1>7, <1>9, <1>10 DEF ToQueue

\* The processor puts an object into subChannel, or a topic frame into writeChannel.
LEMMA ProcSendStep ==
  ASSUME ObjInv, ProcSend
  PROVE  ObjInv'
<1>1. /\ procOut # <<>> /\ procOut' = Tail(procOut)
      /\ UNCHANGED <<phase, subs, subList, out, log, attr, frame, inList, requestCh, storage,
                     waiting, dest, settled, dropped, owed, panicked>>
  BY DEF ProcSend, subVars, histVars
<1>2. /\ Head(procOut) = procOut[1] /\ procOut[1] \in Deliveries /\ 1 \in 1 .. Len(procOut)
      /\ Tail(procOut) \in Seq(Deliveries)
      /\ \A i \in 1 .. Len(Tail(procOut)) :
           i + 1 \in 1 .. Len(procOut) /\ Tail(procOut)[i] = procOut[i + 1]
  BY <1>1, HeadFacts DEF ObjInv, TypeOK
<1>3. PICK p \in Deliveries : p = procOut[1]
  BY <1>2
<1>4. PICK x \in Subs : x = p.sub
  BY DEF Deliveries
<1>5. p.msg \in Msgs /\ attr[x] # NoAttr /\ attr[x].dest = dest[p.msg]
  BY <1>2, <1>3, <1>4 DEF ObjInv, Homes, HomeProc, Deliveries
<1>6. PICK k \in Conns : k = attr[x].conn
  BY <1>5 DEF ObjInv, TypeOK
<1>7. \/ /\ dest[p.msg] \in Queues /\ subCh' = [subCh EXCEPT ![k] = Append(@, x)]
         /\ writeCh' = writeCh
      \/ /\ dest[p.msg] \in Topics /\ writeCh' = [writeCh EXCEPT ![k] = Append(@, p)]
         /\ subCh' = subCh
  BY <1>2, <1>3, <1>4, <1>6 DEF ProcSend
<1>8. HomeProc' /\ ProcFramed'
  <2>1. \A i \in 1 .. Len(procOut') : \E j \in 1 .. Len(procOut) : procOut'[i] = procOut[j]
    BY <1>1, <1>2
  <2>2. HomeProc'
    BY <1>1, <2>1 DEF ObjInv, Homes, HomeProc
  <2>3. ProcFramed'
    BY <1>1, <2>1 DEF ObjInv, Framed, ProcFramed, ToQueues
  <2> QED
    BY <2>2, <2>3
<1>9. Listed'
  BY <1>1, ListedStays DEF ObjInv
<1>10. ASSUME NEW s \in Subs
       PROVE  /\ Unique(s) /\ FramedAs(s) /\ Keeps("out", s) /\ Keeps("req", s)
              /\ Keeps("wait", s) /\ Keeps("list", s) /\ Keeps("proc", s)
              /\ subCh' = subCh => Keeps("sub", s)
  BY <1>1, ProcTail, Still DEF ObjInv, OnePlace, Framed, Same
<1>11. CASE dest[p.msg] \in Queues /\ subCh' = [subCh EXCEPT ![k] = Append(@, x)] /\ writeCh' = writeCh
  <2>1. PICK l \in Seq(Subs) : l = subCh[k]
    BY DEF ObjInv, TypeOK
  <2>2. PICK t \in Seq(Subs) : t = Append(l, x)
    BY AppendProperties
  <2>3. Len(t) = Len(l) + 1 /\ t[Len(l) + 1] = x /\ \A i \in 1 .. Len(l) : t[i] = l[i]
    BY <2>2, AppendProperties
  <2>4. subCh'[k] = t /\ \A h \in Conns : h # k => subCh'[h] = subCh[h]
    BY <1>11, <2>1, <2>2 DEF ObjInv, TypeOK
  <2>5. TypeOK'
    <3>1. subCh' \in [Conns -> Seq(Subs)]
      BY <1>11, <2>1, <2>2 DEF ObjInv, TypeOK
    <3> QED
      BY <1>1, <1>2, <1>11, <3>1 DEF ObjInv, TypeOK
  <2>6. Homes'
    <3>1. HomeSub'
      <4> SUFFICES ASSUME NEW h \in Conns, NEW i \in 1 .. Len(subCh'[h])
                   PROVE  attr[subCh'[h][i]].conn = h
        BY <1>1 DEF HomeSub
      <4>1. CASE h = k
        <5>1. i \in 1 .. Len(l) + 1 /\ Len(l) \in Nat /\ subCh'[h][i] = t[i]
          BY <2>3, <2>4, <4>1
        <5>2. i = Len(l) + 1 \/ i \in 1 .. Len(l)
          BY <5>1
        <5>3. CASE i = Len(l) + 1
          BY <1>6, <2>3, <4>1, <5>1, <5>3
        <5>4. CASE i \in 1 .. Len(l)
          BY <2>1, <2>3, <4>1, <5>1, <5>4 DEF ObjInv, Homes, HomeSub
        <5> QED
          BY <5>2, <5>3, <5>4
      <4>2. CASE h # k
        BY <2>4, <4>2 DEF ObjInv, Homes, HomeSub
      <4> QED
        BY <4>1, <4>2
    <3> QED
      BY <1>1, <1>8, <3>1, HomesStay DEF ObjInv, Homes
  <2>7. ASSUME NEW s \in Subs, s # x PROVE Unique(s)' /\ FramedAs(s)'
    <3>1. Keeps("sub", s)
      BY <1>1, <1>11, <2>7, SubAppend DEF ObjInv
    <3>2. Rest(s)
      BY <1>10, <3>1, PlaceNames DEF Rest
    <3> QED
      BY <1>1, <1>10, <3>2, Rests, RestsFramed
  <2>8. Unique(x)' /\ FramedAs(x)'
    <3>1. ToQueues(procOut[1].msg) /\ procOut[1].sub = x
      BY <1>3, <1>4, <1>11 DEF ToQueues
    <3>2. In("proc", x) /\ ~In("proc", x)'
      BY <1>1, <3>1, ProcTail DEF ObjInv
    <3>3. ~In("sub", x)
      BY <1>10, <3>2, PlaceNames DEF Unique
    <3>4. Single("sub", x)'
      BY <1>1, <1>11, <3>3, SubAppend DEF ObjInv
    <3>5. Unique(x)' /\ \A c \in Places : In(c, x)' => c = "sub"
      BY <1>10, <3>2, <3>4, Moves, PlaceNames
    <3>6. \A c \in Free : ~In(c, x)'
      BY <3>5, PlaceNames
    <3>7. frame[x] \in Msgs /\ dest[frame[x]] = attr[x].dest /\ attr[x].dest \in Queues
      BY <1>10, <3>2, PlaceNames DEF FramedAs
    <3> QED
      BY <1>1, <1>5, <3>5, <3>6, <3>7 DEF FramedAs
  <2> QED
    BY <1>8, <1>9, <2>5, <2>6, <2>7, <2>8 DEF ObjInv, OnePlace, Framed
<1>12. CASE writeCh' = [writeCh EXCEPT ![k] = Append(@, p)] /\ subCh' = subCh
  <2>1. TypeOK'
    <3>1. Append(writeCh[k], p) \in Seq(Deliveries)
      BY AppendProperties DEF ObjInv, TypeOK
    <3>2. writeCh' \in [Conns -> Seq(Deliveries)]
      BY <1>12, <3>1 DEF ObjInv, TypeOK
    <3> QED
      BY <1>1, <1>2, <1>12, <3>2 DEF ObjInv, TypeOK
  <2>2. Homes'
    BY <1>1, <1>8, <1>12, HomesStay DEF ObjInv, Homes
  <2>3. ASSUME NEW s \in Subs PROVE Unique(s)' /\ FramedAs(s)'
    <3>1. Rest(s)
      BY <1>10, <1>12, PlaceNames DEF Rest
    <3> QED
      BY <1>1, <1>10, <3>1, Rests, RestsFramed
  <2> QED
    BY <1>8, <1>9, <2>1, <2>2, <2>3 DEF ObjInv, OnePlace, Framed
<1> QED
  BY <1>7, <1>11, <1>12
-----------------------------------------------------------------------------
\* Nothing is anywhere in the beginning.
LEMMA InitObj ==
  ASSUME Init
  PROVE  ObjInv
<1>1. TypeOK
  BY DEF Init, TypeOK
<1>2. \A s \in Subs : attr[s].conn \notin Conns /\ attr[s].dest \notin Dests
  BY NoneAssumption DEF Init, NoAttr
<1>3. Homes
  <2>1. \A k \in Conns : Known(k) = {}
    BY DEF Init, Known
  <2>2. HomeSubs
    BY <2>1, FS_EmptySet DEF Init, HomeSubs
  <2>3. HomeOut /\ HomeReq /\ HomeWait /\ HomeStore /\ HomeProc /\ HomeSub /\ HomeList
    BY DEF Init, HomeOut, HomeReq, HomeWait, HomeStore, HomeProc, HomeSub, HomeList
  <2> QED
    BY <2>2, <2>3 DEF Homes
<1>4. \A s \in Subs, c \in Places, i \in Nat : ~Place(c, i, s)
  <2> SUFFICES ASSUME NEW s \in Subs, NEW c, NEW i \in Nat PROVE ~Place(c, i, s)
    OBVIOUS
  <2>1. requestCh = <<>> /\ procOut = <<>>
    BY DEF Init
  <2>2. ~ReqAt(i, s) /\ ~ProcAt(i, s)
    BY <2>1 DEF ReqAt, ProcAt
  <2>3. ~OutAt(i, s) /\ ~WaitAt(i, s) /\ ~SubAt(i, s) /\ ~ListAt(i, s)
    BY <1>2 DEF OutAt, WaitAt, SubAt, ListAt
  <2> QED
    BY <2>2, <2>3 DEF Place
<1>5. \A s \in Subs, c \in Places : ~In(c, s)
  BY <1>4 DEF In
<1>6. OnePlace
  BY <1>4, <1>5 DEF OnePlace, Unique, Single
<1>7. Framed
  <2>1. \A s \in Subs : frame[s] = None
    BY DEF Init
  <2>2. \A s \in Subs, c \in Busy : ~In(c, s)
    BY <1>5, PlaceNames
  <2>3. \A s \in Subs : FramedAs(s)
    BY <2>1, <2>2 DEF FramedAs
  <2>4. ProcFramed
    BY DEF Init, ProcFramed
  <2> QED
    BY <2>3, <2>4 DEF Framed
<1>8. Listed
  BY DEF Init, Listed
<1> QED
  BY <1>1, <1>3, <1>6, <1>7, <1>8 DEF ObjInv

\* A step that changes nothing.
LEMMA StutterObj ==
  ASSUME ObjInv, UNCHANGED vars
  PROVE  ObjInv'
<1>1. UNCHANGED <<phase, subs, subList, out, subCh, writeCh, log, attr, frame, inList, requestCh,
                  procOut, storage, waiting, panicked, dest, settled, dropped, owed>>
  BY DEF vars, connVars, subVars, procVars, histVars
<1>2. TypeOK'
  BY <1>1 DEF ObjInv, TypeOK
<1>3. Homes'
  BY <1>1, HomesStay DEF ObjInv, Homes
<1>4. ASSUME NEW s \in Subs PROVE Unique(s)' /\ FramedAs(s)'
  <2>1. Unique(s) /\ FramedAs(s) /\ Rest(s)
    BY <1>1, Still, PlaceNames DEF ObjInv, OnePlace, Framed, Same, Rest
  <2> QED
    BY <1>1, <2>1, Rests, RestsFramed
<1>5. ProcFramed' /\ Listed'
  BY <1>1, ProcFramedStays, ListedStays DEF ObjInv, Framed
<1> QED
  BY <1>2, <1>3, <1>4, <1>5 DEF ObjInv, OnePlace, Framed

\* ObjInv is inductive.
LEMMA NextObj ==
  ASSUME ObjInv, [Next]_vars
  PROVE  ObjInv'
<1>1. CASE UNCHANGED vars
  BY <1>1, StutterObj
<1>2. ASSUME NEW k \in Conns, Handle(k) \/ WriteOut(k) \/ Internal(k) \/ Leave(k) \/ WriteFail(k)
      PROVE  ObjInv'
  <2>1. CASE Handle(k)
    BY <2>1, HandleSubscribeStep, HandleUnsubscribeStep, HandleSendStep, AckStep DEF Handle
  <2>2. CASE WriteOut(k)
    BY <2>2, WriteAutoStep, WriteForAckStep, NoRequestStep DEF WriteOut
  <2>3. CASE Internal(k)
    BY <2>3, PutRequestStep, SendBackStep, NoRequestStep DEF Internal
  <2>4. CASE Leave(k) \/ WriteFail(k)
    BY <2>4, LeaveStep
  <2> QED
    BY <1>2, <2>1, <2>2, <2>3, <2>4
<1>3. CASE Proc
  BY <1>3, ServeSubscribeStep, ServeUnsubscribeStep, ToQueueStep, ServeEnqueueTopicStep,
     ServeOtherStep, ProcSendStep DEF Proc
<1> QED
  BY <1>1, <1>2, <1>3 DEF Next

\* ObjInv holds in every state of the server.
LEMMA ObjHolds == Spec => []ObjInv
BY InitObj, NextObj, PTL DEF Spec

\* The state of the server is of its types.
THEOREM TypeCorrect == Spec => []TypeOK
<1>1. ObjInv => TypeOK
  BY DEF ObjInv
<1> QED
  BY <1>1, ObjHolds, PTL

\* A Subscription object is never in two places: not in two lists of the server,
\* not twice in subChannel, not listed and with a frame under way.
THEOREM OnePlaceHolds == Spec => []OnePlace
<1>1. ObjInv => OnePlace
  BY DEF ObjInv
<1> QED
  BY <1>1, ObjHolds, PTL

\* A panic is about a subscription that is not an auto subscription: an auto one
\* that asks for a frame is in no list and has no frame.
LEMMA NoPanicStep ==
  ASSUME ObjInv, NoPanic, [Next]_vars
  PROVE  NoPanic'
<1>1. CASE UNCHANGED vars
  BY <1>1 DEF vars, connVars, subVars, NoPanic
<1>2. ASSUME NEW k \in Conns, Handle(k) \/ WriteOut(k) \/ Internal(k) \/ Leave(k) \/ WriteFail(k)
      PROVE  NoPanic'
  <2>1. CASE WriteForAck(k)
    <3>1. PICK x : x = Head(subCh[k])
      OBVIOUS
    <3>2. attr' = attr /\ attr[x].ack # "auto" /\ PanicIf(inList[x], x)
      BY <2>1, <3>1 DEF WriteForAck
    <3> QED
      BY <3>2 DEF NoPanic, PanicIf
  <2>2. CASE ~WriteForAck(k)
    <3>1. CASE Handle(k)
      BY <3>1 DEF Handle, HandleSubscribe, HandleUnsubscribe, HandleSend, HandleAck, HandleNack,
                  Running, NoPanic
    <3>2. CASE WriteOut(k)
      BY <2>2, <3>2 DEF WriteOut, WriteAuto, WriteTopic, Running, NoPanic
    <3>3. CASE Internal(k)
      BY <3>3 DEF Internal, PutRequest, SendBack, Discard, DrainOne, DrainEnd, Running, NoPanic
    <3>4. CASE Leave(k) \/ WriteFail(k)
      BY <3>4 DEF Leave, WriteFail, Running, NoPanic
    <3> QED
      BY <1>2, <3>1, <3>2, <3>3, <3>4
  <2> QED
    BY <2>1, <2>2
<1>3. CASE ServeSubscribe
  <2>1. PICK x : x = Head(requestCh).sub
    OBVIOUS
  <2>2. Serve("Subscribe") /\ attr' = attr /\ dest' = dest
    BY <1>3 DEF ServeSubscribe, histVars
  <2>3. /\ requestCh # <<>> /\ requestCh' = Tail(requestCh)
        /\ Head(requestCh) = requestCh[1] /\ requestCh[1] \in Requests
        /\ requestCh[1].op = "Subscribe" /\ panicked = None
    BY <2>2, ServeFacts
  <2>4. x \in Subs /\ requestCh[1] = SubscribeReq(x)
    BY <2>1, <2>3, ReqForm
  <2>5. In("req", x) /\ Unique(x) /\ FramedAs(x)
    BY <2>3, <2>4, ReqTail DEF ObjInv, OnePlace, Framed
  <2>6. frame[x] = None /\ ~In("wait", x)
    BY <2>5, PlaceNames DEF Unique, FramedAs
  <2>7. inList[x] => attr[x].ack # "auto"
    BY <2>4, <2>6 DEF ObjInv, Listed
  <2>8. panicked' = panicked \/ PanicIf(inList[x], x) \/ PanicIf(frame[x] # None, x)
    BY <1>3, <2>1 DEF ServeSubscribe
  <2> QED
    BY <2>2, <2>3, <2>6, <2>7, <2>8 DEF NoPanic, PanicIf
<1>4. CASE ServeEnqueueQueue \/ ServeRequeue
  <2>1. PICK m : m = Head(requestCh).msg
    OBVIOUS
  <2>2. (Serve("Enqueue") \/ Serve("Requeue")) /\ attr' = attr /\ dest' = dest
    BY <1>4 DEF ServeEnqueueQueue, ServeRequeue, histVars
  <2>3. /\ Head(requestCh) = requestCh[1] /\ requestCh[1] \in Requests /\ panicked = None
        /\ requestCh[1].op \in {"Enqueue", "Requeue"} /\ GoodReq(requestCh[1])
    BY <2>2, ServeFacts
  <2>4. dest[m] \in Dests /\ (Serve("Requeue") => ToQueues(m))
    BY <2>1, <2>3 DEF GoodReq, ToQueues, Dests, Serve
  <2>5. PICK q : q = dest[m]
    OBVIOUS
  <2>6. panicked' = panicked \/ (waiting[q] # <<>> /\ LET x == Head(waiting[q])
                                                      IN  PanicIf(frame[x] # None, x))
    BY <1>4, <2>1, <2>5 DEF ServeEnqueueQueue, ServeRequeue, ToQueue
  <2>7. CASE panicked' = panicked
    BY <2>2, <2>7 DEF NoPanic
  <2>8. CASE waiting[q] # <<>> /\ LET x == Head(waiting[q]) IN PanicIf(frame[x] # None, x)
    <3>1. PICK x \in Subs : x = Head(waiting[q]) /\ x = waiting[q][1] /\ 1 \in 1 .. Len(waiting[q])
      BY <2>4, <2>5, <2>8, HeadFacts DEF ObjInv, TypeOK
    <3>2. attr[x].dest = q
      BY <2>4, <2>5, <3>1 DEF ObjInv, Homes, HomeWait
    <3>3. WaitAt(1, x)
      BY <2>4, <2>5, <3>1, <3>2 DEF WaitAt
    <3>4. In("wait", x)
      BY <3>3, PlaceIs DEF In
    <3>5. frame[x] = None
      BY <3>4, PlaceNames DEF ObjInv, Framed, FramedAs
    <3> QED
      BY <2>8, <3>1, <3>5 DEF NoPanic, PanicIf
  <2> QED
    BY <2>6, <2>7, <2>8
<1>5. CASE ServeUnsubscribe \/ ServeEnqueueTopic \/ ServeOther \/ ProcSend
  BY <1>5 DEF ServeUnsubscribe, ServeEnqueueTopic, ServeOther, ProcSend, subVars, NoPanic
<1> QED
  BY <1>1, <1>2, <1>3, <1>4, <1>5 DEF Next, Proc

\* An auto subscription never makes the server panic (server/client/
\* subscription_list.go and server/queue/queue.go), whatever the others do.
THEOREM NoPanicHolds == Spec => []NoPanic
<1>1. Init => NoPanic
  BY DEF Init, NoPanic
<1>2. ObjInv /\ NoPanic /\ [Next]_vars => NoPanic'
  BY NoPanicStep
<1> QED
  BY <1>1, <1>2, ObjHolds, PTL DEF Spec

\* A stored frame and a ready subscription do not stay apart.
LEMMA NobodyWaitsStep ==
  ASSUME ObjInv, NobodyWaits, [Next]_vars
  PROVE  NobodyWaits'
<1>1. CASE UNCHANGED vars
  BY <1>1 DEF vars, procVars, NobodyWaits
<1>2. ASSUME NEW k \in Conns, Handle(k) \/ WriteOut(k) \/ Internal(k) \/ Leave(k) \/ WriteFail(k)
      PROVE  NobodyWaits'
  <2>1. storage' = storage /\ waiting' = waiting
    <3>1. CASE Handle(k)
      BY <3>1 DEF Handle, HandleSubscribe, HandleUnsubscribe, HandleSend, HandleAck, HandleNack,
                  procVars
    <3>2. CASE WriteOut(k)
      BY <3>2 DEF WriteOut, WriteAuto, WriteForAck, WriteTopic, procVars
    <3>3. CASE Internal(k)
      BY <3>3 DEF Internal, PutRequest, SendBack, Discard, DrainOne, DrainEnd, procVars
    <3>4. CASE Leave(k) \/ WriteFail(k)
      BY <3>4 DEF Leave, WriteFail, procVars
    <3> QED
      BY <1>2, <3>1, <3>2, <3>3, <3>4
  <2> QED
    BY <2>1 DEF NobodyWaits
<1>3. CASE ServeSubscribe
  <2>1. PICK d : d = attr[Head(requestCh).sub].dest
    OBVIOUS
  <2>2. PICK x : x = Head(requestCh).sub
    OBVIOUS
  <2>3. CASE d \in Topics /\ waiting' = [waiting EXCEPT ![d] = Append(@, x)] /\ storage' = storage
    <3>1. \A q \in Queues : q # d /\ q \in Dests
      BY <2>3, DestAssumption DEF Dests
    <3>2. \A q \in Queues : waiting'[q] = waiting[q]
      BY <2>3, <3>1 DEF ObjInv, TypeOK
    <3> QED
      BY <2>3, <3>2 DEF NobodyWaits
  <2>4. CASE storage[d] = <<>> /\ waiting' = [waiting EXCEPT ![d] = Append(@, x)] /\ storage' = storage
    <3>1. \A q \in Queues : q \in Dests
      BY DEF Dests
    <3>2. \A q \in Queues : q # d => waiting'[q] = waiting[q]
      BY <2>4, <3>1 DEF ObjInv, TypeOK
    <3> QED
      BY <2>4, <3>2 DEF NobodyWaits
  <2>5. CASE d \in Queues /\ storage[d] # <<>> /\ storage' = [storage EXCEPT ![d] = Tail(@)]
             /\ waiting' = waiting
    <3>1. \A q \in Queues : q # d => storage'[q] = storage[q]
      BY <2>5 DEF ObjInv, TypeOK
    <3> QED
      BY <2>5, <3>1 DEF NobodyWaits
  <2> QED
    BY <1>3, <2>1, <2>2, <2>3, <2>4, <2>5 DEF ServeSubscribe
<1>4. CASE ServeUnsubscribe
  <2>1. PICK x, d : /\ waiting' = [waiting EXCEPT ![d] = Without(@, x)]
    BY <1>4 DEF ServeUnsubscribe
  <2>2. Without(<<>>, x) = <<>>
    BY DEF Without
  <2>3. \A q \in Queues : q \in Dests
    BY DEF Dests
  <2>4. \A q \in Queues : waiting[q] = <<>> => waiting'[q] = <<>>
    BY <2>1, <2>2, <2>3 DEF ObjInv, TypeOK
  <2>5. storage' = storage
    BY <1>4 DEF ServeUnsubscribe
  <2> QED
    BY <2>4, <2>5 DEF NobodyWaits
<1>5. CASE ServeEnqueueQueue \/ ServeRequeue
  <2>1. PICK m, t : ToQueue(m, t)
    BY <1>5 DEF ServeEnqueueQueue, ServeRequeue
  <2>2. PICK q : q = dest[m]
    OBVIOUS
  <2>3. CASE waiting[q] = <<>> /\ storage' = [storage EXCEPT ![q] = t] /\ waiting' = waiting
    <3>1. \A p \in Queues : p # q => storage'[p] = storage[p]
      BY <2>3 DEF ObjInv, TypeOK
    <3> QED
      BY <2>3, <3>1 DEF NobodyWaits
  <2>4. CASE waiting[q] # <<>> /\ waiting' = [waiting EXCEPT ![q] = Tail(@)] /\ storage' = storage
    <3>1. \A p \in Queues : p \in Dests
      BY DEF Dests
    <3>2. \A p \in Queues : p # q => waiting'[p] = waiting[p]
      BY <2>4, <3>1 DEF ObjInv, TypeOK
    <3> QED
      BY <2>4, <3>2 DEF NobodyWaits
  <2> QED
    BY <2>1, <2>2, <2>3, <2>4 DEF ToQueue
<1>6. CASE ServeEnqueueTopic \/ ServeOther \/ ProcSend
  BY <1>6 DEF ServeEnqueueTopic, ServeOther, ProcSend, NobodyWaits
<1> QED
  BY <1>1, <1>2, <1>3, <1>4, <1>5, <1>6 DEF Next, Proc

\* A queue with a stored frame has no subscription that waits (server/queue/queue.go).
THEOREM NobodyWaitsHolds == Spec => []NobodyWaits
<1>1. Init => NobodyWaits
  BY DEF Init, NobodyWaits
<1>2. ObjInv /\ NobodyWaits /\ [Next]_vars => NobodyWaits'
  BY NobodyWaitsStep
<1> QED
  BY <1>1, <1>2, ObjHolds, PTL DEF Spec
=============================================================================
