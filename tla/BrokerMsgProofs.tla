--------------------------- MODULE BrokerMsgProofs ---------------------------
(***************************************************************************)
(* Proofs about the messages of the queues: none is in two places, none is *)
(* lost, and the server implements MessageQueue.                           *)
(***************************************************************************)
EXTENDS BrokerProofs

(***************************************************************************)
(* Where a queue message is: asked for by an Enqueue or a Requeue request  *)
(* of requestChannel (o is None) or of a connection o that has still to    *)
(* send it, stored, or held by the Subscription object o, from the moment  *)
(* the processor picks that object until the object leaves subChannel or   *)
(* the list of those to be acknowledged.                                   *)
(***************************************************************************)
Occ(l, x)  == \E i \in 1 .. Len(l) : l[i] = x
Once(l, x) == \A i, j \in 1 .. Len(l) : l[i] = x /\ l[j] = x => i = j

Bears(s) == \/ \E i \in 1 .. Len(procOut) : procOut[i].sub = s /\ ToQueues(procOut[i].msg)
            \/ /\ attr[s].conn \in Conns
               /\ Occ(subCh[attr[s].conn], s) \/ Occ(subList[attr[s].conn], s)
Has(s, m)  == s \in Subs /\ frame[s] = m /\ Bears(s)
Asks(o, r) == \/ o = None /\ Occ(requestCh, r)
              \/ o \in Conns /\ Occ(out[o], r)
AskedOnce(r) == Once(requestCh, r) /\ \A k \in Conns : Once(out[k], r)

Sits(c, o, m) == \/ c = "sent" /\ Asks(o, EnqueueReq(m))
                 \/ c = "back" /\ Asks(o, RequeueReq(m))
                 \/ c = "store" /\ o = None /\ Occ(storage[dest[m]], m)
                 \/ c = "held" /\ Has(o, m)
Counted(m)  == /\ AskedOnce(EnqueueReq(m)) /\ AskedOnce(RequeueReq(m))
               /\ Once(storage[dest[m]], m)
OneSeat(m)  == \A c, o, e, p : Sits(c, o, m) /\ Sits(e, p, m) => c = e /\ o = p
NoSeat(m)   == \A c, o : ~Sits(c, o, m)
Kept(m) == /\ Counted(m) /\ OneSeat(m)
           /\ m \in settled => NoSeat(m)
           /\ m \notin settled \cup dropped => \E c, o : Sits(c, o, m)
MsgInv == /\ \A m \in Msgs : ToQueues(m) => Kept(m)
          /\ \A m \in settled \cup dropped : ToQueues(m)
-----------------------------------------------------------------------------
\* What a channel holds when its first element is taken.
LEMMA OccTail ==
  ASSUME NEW S, NEW l \in Seq(S), l # <<>>, NEW x, Once(l, x)
  PROVE  Once(Tail(l), x) /\ (Occ(Tail(l), x) <=> Occ(l, x) /\ x # Head(l))
<1>1. PICK n \in Nat \ {0} : n = Len(l)
  BY HeadFacts
<1>2. PICK t \in Seq(S) : t = Tail(l)
  BY HeadFacts
<1>3. /\ Head(l) = l[1] /\ Len(t) = n - 1
      /\ \A i \in 1 .. n - 1 : t[i] = l[i + 1]
  BY <1>1, <1>2, HeadFacts
<1>4. \A i, j \in 1 .. n : l[i] = x /\ l[j] = x => i = j
  BY <1>1 DEF Once
<1>5. Once(t, x)
  <2> SUFFICES ASSUME NEW i \in 1 .. n - 1, NEW j \in 1 .. n - 1, t[i] = x, t[j] = x PROVE i = j
    BY <1>3 DEF Once
  <2>1. i + 1 \in 1 .. n /\ j + 1 \in 1 .. n /\ l[i + 1] = x /\ l[j + 1] = x
    BY <1>3
  <2>2. i + 1 = j + 1
    BY <1>4, <2>1
  <2> QED
    BY <2>2
<1>6. ASSUME Occ(t, x) PROVE Occ(l, x) /\ x # Head(l)
  <2>1. PICK i \in 1 .. n - 1 : t[i] = x
    BY <1>3, <1>6 DEF Occ
  <2>2. i + 1 \in 1 .. n /\ l[i + 1] = x /\ i + 1 # 1 /\ 1 \in 1 .. n
    BY <1>3, <2>1
  <2>3. l[1] # x
    BY <1>4, <2>2
  <2> QED
    BY <1>1, <1>3, <2>2, <2>3 DEF Occ
<1>7. ASSUME Occ(l, x), x # Head(l) PROVE Occ(t, x)
  <2>1. PICK i \in 1 .. n : l[i] = x
    BY <1>1, <1>7 DEF Occ
  <2>2. i # 1
    BY <1>3, <1>7, <2>1
  <2>3. i - 1 \in 1 .. n - 1 /\ (i - 1) + 1 = i
    BY <2>2
  <2>4. t[i - 1] = x
    BY <1>3, <2>1, <2>3
  <2> QED
    BY <1>3, <2>3, <2>4 DEF Occ
<1> QED
  BY <1>2, <1>5, <1>6, <1>7

\* ... and when an element joins at the end, or at the front.
LEMMA OccJoin ==
  ASSUME NEW S, NEW l \in Seq(S), NEW y \in S, NEW x
  PROVE  /\ Occ(Append(l, y), x) <=> Occ(l, x) \/ x = y
         /\ Once(l, x) /\ (x = y => ~Occ(l, x)) => Once(Append(l, y), x)
         /\ Occ(<<y>> \o l, x) <=> Occ(l, x) \/ x = y
         /\ Once(l, x) /\ (x = y => ~Occ(l, x)) => Once(<<y>> \o l, x)
<1>1. PICK n \in Nat : n = Len(l)
  OBVIOUS
<1>2. PICK a \in Seq(S) : a = Append(l, y)
  BY AppendProperties
<1>3. Len(a) = n + 1 /\ a[n + 1] = y /\ \A i \in 1 .. n : a[i] = l[i]
  BY <1>1, <1>2, AppendProperties
<1>4. \A i \in 1 .. n + 1 : i = n + 1 \/ i \in 1 .. n
  OBVIOUS
<1>5. /\ Occ(a, x) <=> Occ(l, x) \/ x = y
      /\ Once(l, x) /\ (x = y => ~Occ(l, x)) => Once(a, x)
  <2>1. Occ(a, x) => Occ(l, x) \/ x = y
    BY <1>1, <1>3, <1>4 DEF Occ
  <2>2. Occ(l, x) \/ x = y => Occ(a, x)
    BY <1>1, <1>3 DEF Occ
  <2>3. Once(l, x) /\ (x = y => ~Occ(l, x)) => Once(a, x)
    BY <1>1, <1>3, <1>4 DEF Occ, Once
  <2> QED
    BY <2>1, <2>2, <2>3
<1>6. <<y>> \in Seq(S) /\ Len(<<y>>) = 1 /\ <<y>>[1] = y
  OBVIOUS
<1>7. PICK b \in Seq(S) : b = <<y>> \o l
  BY <1>6, ConcatProperties
<1>8. Len(b) = n + 1 /\ b[1] = y /\ \A i \in 1 .. n : b[i + 1] = l[i]
  <2>1. Len(b) = 1 + n /\ (\A i \in 1 .. 1 : b[i] = <<y>>[i]) /\ \A i \in 1 .. n : b[1 + i] = l[i]
    BY <1>1, <1>6, <1>7, ConcatProperties
  <2> QED
    BY <1>6, <2>1
<1>9. \A i \in 1 .. n + 1 : i = 1 \/ (i - 1 \in 1 .. n /\ b[i] = l[i - 1])
  BY <1>8
<1>10. /\ Occ(b, x) <=> Occ(l, x) \/ x = y
       /\ Once(l, x) /\ (x = y => ~Occ(l, x)) => Once(b, x)
  <2>1. Occ(b, x) => Occ(l, x) \/ x = y
    BY <1>1, <1>8, <1>9 DEF Occ
  <2>2. Occ(l, x) \/ x = y => Occ(b, x)
    <3>1. \A i \in 1 .. n : i + 1 \in 1 .. n + 1
      OBVIOUS
    <3> QED
      BY <1>1, <1>8, <3>1 DEF Occ
  <2>3. ASSUME Once(l, x), x = y => ~Occ(l, x) PROVE Once(b, x)
    <3> SUFFICES ASSUME NEW i \in 1 .. n + 1, NEW j \in 1 .. n + 1, b[i] = x, b[j] = x PROVE i = j
      BY <1>8 DEF Once
    <3>1. CASE i = 1 \/ j = 1
      BY <1>1, <1>8, <1>9, <2>3, <3>1 DEF Occ
    <3>2. CASE i # 1 /\ j # 1
      <4>1. i - 1 \in 1 .. n /\ j - 1 \in 1 .. n /\ l[i - 1] = x /\ l[j - 1] = x
        BY <1>9, <3>2
      <4>2. i - 1 = j - 1
        BY <1>1, <2>3, <4>1 DEF Once
      <4> QED
        BY <4>2
    <3> QED
      BY <3>1, <3>2
  <2> QED
    BY <2>1, <2>2, <2>3
<1> QED
  BY <1>2, <1>5, <1>7, <1>10

\* What a list has.
LEMMA ElemsOcc == \A l, x : x \in Elems(l) <=> Occ(l, x)
BY DEF Elems, Occ

\* A list of one, and none.
LEMMA OccFew ==
  ASSUME NEW x, NEW y
  PROVE  /\ ~Occ(<<>>, x) /\ Once(<<>>, x)
         /\ (Occ(<<y>>, x) <=> x = y) /\ Once(<<y>>, x)
<1>1. Len(<<>>) = 0 /\ Len(<<y>>) = 1 /\ <<y>>[1] = y
  OBVIOUS
<1>2. \A i \in 1 .. 0 : FALSE
  OBVIOUS
<1>3. \A i : i \in 1 .. 1 <=> i = 1
  OBVIOUS
<1> QED
  BY <1>1, <1>2, <1>3 DEF Occ, Once

\* Different requests are different.
LEMMA ReqDiffer ==
  \A m, n : /\ EnqueueReq(m) = EnqueueReq(n) <=> m = n
            /\ RequeueReq(m) = RequeueReq(n) <=> m = n
            /\ EnqueueReq(m) # RequeueReq(n)
            /\ EnqueueReq(m).op = "Enqueue" /\ RequeueReq(m).op = "Requeue"
            /\ EnqueueReq(m).msg = m /\ RequeueReq(m).msg = m
BY DEF EnqueueReq, RequeueReq
-----------------------------------------------------------------------------
\* An object bears a message exactly where it is with a frame.
LEMMA BearsIs ==
  ASSUME NEW s
  PROVE  Bears(s) <=> In("proc", s) \/ In("sub", s) \/ In("list", s)
<1>1. In("proc", s) <=> \E i \in 1 .. Len(procOut) : procOut[i].sub = s /\ ToQueues(procOut[i].msg)
  BY PlaceIs DEF In, ProcAt
<1>2. In("sub", s) <=> attr[s].conn \in Conns /\ Occ(subCh[attr[s].conn], s)
  BY PlaceIs DEF In, SubAt, Occ
<1>3. In("list", s) <=> attr[s].conn \in Conns /\ Occ(subList[attr[s].conn], s)
  BY PlaceIs DEF In, ListAt, Occ
<1> QED
  BY <1>1, <1>2, <1>3 DEF Bears

\* What it bears is a queue message, for a connection.
LEMMA Bearer ==
  ASSUME ObjInv, NEW s \in Subs, Bears(s)
  PROVE  /\ frame[s] \in Msgs /\ ToQueues(frame[s]) /\ attr[s].conn \in Conns
         /\ attr[s] # NoAttr
<1>1. frame[s] \in Msgs /\ ToQueues(frame[s])
  <2>1. PICK c \in Busy : In(c, s)
    BY BearsIs, PlaceNames
  <2> QED
    BY <2>1 DEF ObjInv, Framed, FramedAs, ToQueues
<1>2. attr[s].conn \in Conns /\ attr[s] # NoAttr
  <2>1. attr[s] # NoAttr => attr[s].conn \in Conns
    BY DEF ObjInv, TypeOK
  <2>2. attr[s].conn \in Conns => attr[s] # NoAttr
    BY NoneAssumption DEF NoAttr
  <2>3. attr[s].conn \in Conns \/ attr[s] # NoAttr
    BY DEF Bears, ObjInv, Homes, HomeProc
  <2> QED
    BY <2>1, <2>2, <2>3
<1> QED
  BY <1>1, <1>2

\* An object of subChannel or of the list is there once, and bears a message of
\* this connection.
LEMMA Carried ==
  ASSUME ObjInv, NEW k \in Conns, NEW s \in Subs, Occ(subCh[k], s) \/ Occ(subList[k], s)
  PROVE  /\ attr[s].conn = k /\ Bears(s) /\ ~In("proc", s)
         /\ Occ(subCh[k], s) <=> ~Occ(subList[k], s)
<1>1. attr[s].conn = k
  BY DEF Occ, ObjInv, Homes, HomeSub, HomeList
<1>2. Occ(subCh[k], s) <=> In("sub", s)
  BY <1>1, PlaceIs DEF In, SubAt, Occ
<1>3. Occ(subList[k], s) <=> In("list", s)
  BY <1>1, PlaceIs DEF In, ListAt, Occ
<1>4. \A c, e \in Places : In(c, s) /\ In(e, s) => c = e
  BY DEF ObjInv, OnePlace, Unique
<1>5. "proc" # "sub" /\ "proc" # "list" /\ "sub" # "list"
  OBVIOUS
<1> QED
  BY <1>1, <1>2, <1>3, <1>4, <1>5, PlaceNames, BearsIs

\* An object is in subChannel once.
LEMMA SubOnce ==
  ASSUME ObjInv, NEW k \in Conns, NEW s \in Subs
  PROVE  Once(subCh[k], s) /\ Once(subList[k], s)
<1>1. \A c \in Places : Single(c, s)
  BY DEF ObjInv, OnePlace, Unique
<1>2. Once(subCh[k], s)
  <2> SUFFICES ASSUME NEW i \in 1 .. Len(subCh[k]), NEW j \in 1 .. Len(subCh[k]),
                      subCh[k][i] = s, subCh[k][j] = s
               PROVE  i = j
    BY DEF Once
  <2>1. attr[s].conn = k /\ i \in Nat /\ j \in Nat
    BY DEF ObjInv, Homes, HomeSub
  <2>2. Place("sub", i, s) /\ Place("sub", j, s)
    BY <2>1, PlaceIs DEF SubAt
  <2> QED
    BY <1>1, <2>1, <2>2, PlaceNames DEF Single
<1>3. Once(subList[k], s)
  <2> SUFFICES ASSUME NEW i \in 1 .. Len(subList[k]), NEW j \in 1 .. Len(subList[k]),
                      subList[k][i] = s, subList[k][j] = s
               PROVE  i = j
    BY DEF Once
  <2>1. attr[s].conn = k /\ i \in Nat /\ j \in Nat
    BY DEF ObjInv, Homes, HomeList
  <2>2. Place("list", i, s) /\ Place("list", j, s)
    BY <2>1, PlaceIs DEF ListAt
  <2> QED
    BY <1>1, <2>1, <2>2, PlaceNames DEF Single
<1> QED
  BY <1>2, <1>3

\* The objects of G leave subChannel and the list of a connection.
LEMMA BearsLess ==
  ASSUME ObjInv, NEW k \in Conns, NEW G \in SUBSET Subs,
         attr' = attr, dest' = dest, procOut' = procOut,
         \A h \in Conns : h # k => subCh'[h] = subCh[h] /\ subList'[h] = subList[h],
         \A s \in G : Occ(subCh[k], s) \/ Occ(subList[k], s),
         \A s \in Subs : Occ(subCh'[k], s) \/ Occ(subList'[k], s) <=>
                           (Occ(subCh[k], s) \/ Occ(subList[k], s)) /\ s \notin G
  PROVE  /\ \A s \in G : Bears(s) /\ attr[s].conn = k
         /\ \A s \in Subs : Bears(s)' <=> Bears(s) /\ s \notin G
<1>1. ASSUME NEW s \in G PROVE Bears(s) /\ attr[s].conn = k /\ ~In("proc", s)
  BY Carried
<1>2. ASSUME NEW s \in Subs
      PROVE  /\ In("proc", s) <=> \E i \in 1 .. Len(procOut) :
                                    procOut[i].sub = s /\ dest[procOut[i].msg] \in Queues
             /\ In("proc", s) <=> \E i \in 1 .. Len(procOut') :
                                    procOut'[i].sub = s /\ dest'[procOut'[i].msg] \in Queues
  <2>1. In("proc", s) <=> \E i \in 1 .. Len(procOut) :
                            procOut[i].sub = s /\ dest[procOut[i].msg] \in Queues
    BY PlaceIs DEF In, ProcAt, ToQueues
  <2> QED
    BY <2>1
<1>3. ASSUME NEW s \in Subs, attr[s].conn # k PROVE Bears(s)' <=> Bears(s) /\ s \notin G
  <2>1. s \notin G
    BY <1>1, <1>3
  <2>2. Bears(s)' <=> Bears(s)
    BY <1>3 DEF Bears, ToQueues
  <2> QED
    BY <2>1, <2>2
<1>4. ASSUME NEW s \in Subs, attr[s].conn = k PROVE Bears(s)' <=> Bears(s) /\ s \notin G
  <2>1. Bears(s)' <=> In("proc", s) \/ Occ(subCh'[k], s) \/ Occ(subList'[k], s)
    BY <1>2, <1>4 DEF Bears, ToQueues
  <2>2. Bears(s) <=> In("proc", s) \/ Occ(subCh[k], s) \/ Occ(subList[k], s)
    BY <1>2, <1>4 DEF Bears, ToQueues
  <2>3. In("proc", s) => s \notin G
    BY <1>1
  <2> QED
    BY <2>1, <2>2, <2>3
<1> QED
  BY <1>1, <1>3, <1>4
-----------------------------------------------------------------------------
\* What the places of a message are called.
LEMMA SitsIs ==
  ASSUME NEW o, NEW m
  PROVE  /\ Sits("sent", o, m) <=> Asks(o, EnqueueReq(m))
         /\ Sits("back", o, m) <=> Asks(o, RequeueReq(m))
         /\ Sits("store", o, m) <=> o = None /\ Occ(storage[dest[m]], m)
         /\ Sits("held", o, m) <=> Has(o, m)
         /\ \A c : Sits(c, o, m) => c = "sent" \/ c = "back" \/ c = "store" \/ c = "held"
BY DEF Sits

\* A message stays, moves from one place to another, or is settled or dropped.
Calm(m)           == \A c, o : Sits(c, o, m)' <=> Sits(c, o, m)
Goes(m, e, p)     == \A c, o : Sits(c, o, m)' <=> c = e /\ o = p

\* A message that stays.
LEMMA KeptCalm ==
  ASSUME NEW m, Kept(m), Counted(m)', Calm(m),
         m \in settled' <=> m \in settled, m \in dropped => m \in dropped'
  PROVE  Kept(m)'
BY DEF Kept, Calm, OneSeat, NoSeat

\* A message that moves.
LEMMA KeptGoes ==
  ASSUME NEW m, Counted(m)', NEW e, NEW p, Goes(m, e, p), m \notin settled'
  PROVE  Kept(m)'
BY DEF Kept, Goes, OneSeat, NoSeat

\* A message that is settled or dropped.
LEMMA KeptEnds ==
  ASSUME NEW m, Counted(m)', NoSeat(m)', m \in settled' \cup dropped'
  PROVE  Kept(m)'
BY DEF Kept, OneSeat, NoSeat

(***************************************************************************)
(* A step of connection k that settles the messages of the objects A,      *)
(* requeues those of B and drops those of D.                               *)
(***************************************************************************)
GivesUp(k, A, B, D) ==
  /\ \A s \in A \cup B \cup D : s \in Subs /\ Bears(s) /\ attr[s].conn = k
  /\ A \cap B = {} /\ A \cap D = {} /\ B \cap D = {}
  /\ \A s \in Subs : /\ Bears(s)' <=> Bears(s) /\ s \notin A \cup B \cup D
                     /\ Bears(s)' => frame'[s] = frame[s] /\ attr'[s] = attr[s]
  /\ settled' = settled \cup {frame[s] : s \in A}
  /\ dropped' = dropped \cup {frame[s] : s \in D}
  /\ out[k] = <<>> /\ \A h \in Conns : h # k => out'[h] = out[h]
  /\ \A m \in Msgs : /\ ~Occ(out'[k], EnqueueReq(m))
                     /\ Occ(out'[k], RequeueReq(m)) <=> \E s \in B : frame[s] = m
                     /\ Once(out'[k], RequeueReq(m))
  /\ requestCh' = requestCh /\ storage' = storage /\ dest' = dest

\* Where a message is after it.
LEMMA GivesUpSits ==
  ASSUME ObjInv, NEW k \in Conns, NEW A, NEW B, NEW D, GivesUp(k, A, B, D), NEW m \in Msgs, NEW o
  PROVE  /\ Sits("sent", o, m)' <=> Sits("sent", o, m)
         /\ Sits("back", o, m)' <=> Sits("back", o, m) \/ (o = k /\ \E s \in B : frame[s] = m)
         /\ Sits("store", o, m)' <=> Sits("store", o, m)
         /\ Sits("held", o, m)' <=> Sits("held", o, m) /\ o \notin A \cup B \cup D
         /\ ~Sits("sent", k, m) /\ ~Sits("back", k, m)
<1>1. ~Occ(out[k], EnqueueReq(m)) /\ ~Occ(out[k], RequeueReq(m)) /\ k # None
  <2>1. out[k] = <<>>
    BY DEF GivesUp
  <2>2. ~Occ(<<>>, EnqueueReq(m)) /\ ~Occ(<<>>, RequeueReq(m))
    BY OccFew
  <2>3. k # None
    BY NoneAssumption
  <2> QED
    BY <2>1, <2>2, <2>3
<1>2. /\ requestCh' = requestCh /\ storage' = storage /\ dest' = dest
      /\ \A h \in Conns : h # k => out'[h] = out[h]
      /\ ~Occ(out'[k], EnqueueReq(m))
      /\ Occ(out'[k], RequeueReq(m)) <=> \E s \in B : frame[s] = m
  BY DEF GivesUp
<1>3. /\ Sits("sent", o, m)' <=> Asks(o, EnqueueReq(m))'
      /\ Sits("back", o, m)' <=> Asks(o, RequeueReq(m))'
      /\ Sits("store", o, m)' <=> o = None /\ Occ(storage'[dest'[m]], m)
      /\ Sits("held", o, m)' <=> Has(o, m)'
  BY DEF Sits
<1>0. EnqueueReq(m)' = EnqueueReq(m) /\ RequeueReq(m)' = RequeueReq(m)
  BY DEF EnqueueReq, RequeueReq
<1>4. Asks(o, EnqueueReq(m))' <=> Asks(o, EnqueueReq(m))
  BY <1>0, <1>1, <1>2 DEF Asks
<1>5. Asks(o, RequeueReq(m))' <=> Asks(o, RequeueReq(m)) \/ (o = k /\ \E s \in B : frame[s] = m)
  BY <1>0, <1>1, <1>2 DEF Asks
<1>6. Has(o, m)' <=> Has(o, m) /\ o \notin A \cup B \cup D
  <2>1. CASE o \notin Subs
    BY <2>1 DEF Has
  <2>2. CASE o \in Subs
    BY <2>2 DEF Has, GivesUp
  <2> QED
    BY <2>1, <2>2
<1>7. ~Asks(k, EnqueueReq(m)) /\ ~Asks(k, RequeueReq(m))
  BY <1>1 DEF Asks
<1> QED
  BY <1>2, <1>3, <1>4, <1>5, <1>6, <1>7, SitsIs

\* It keeps every message.
LEMMA GivesUpKeeps ==
  ASSUME ObjInv, MsgInv, NEW k \in Conns, NEW A, NEW B, NEW D, GivesUp(k, A, B, D)
  PROVE  MsgInv'
<1>1. ASSUME NEW s \in A \cup B \cup D
      PROVE  /\ s \in Subs /\ frame[s] \in Msgs /\ ToQueues(frame[s]) /\ Has(s, frame[s])
  BY Bearer DEF GivesUp, Has
<1>2. \A m \in settled' \cup dropped' : ToQueues(m)'
  BY <1>1 DEF GivesUp, MsgInv, ToQueues
<1>3. ASSUME NEW m \in Msgs, ToQueues(m)' PROVE Kept(m)'
  <2>1. Kept(m)
    BY <1>3 DEF MsgInv, GivesUp, ToQueues
  <2>2. Counted(m)'
    <3>1. \A h \in Conns : Once(out'[h], EnqueueReq(m)) /\ Once(out'[h], RequeueReq(m))
      <4>1. Once(out'[k], EnqueueReq(m)) /\ Once(out'[k], RequeueReq(m))
        BY DEF GivesUp, Once, Occ
      <4> QED
        BY <2>1, <4>1 DEF GivesUp, Kept, Counted, AskedOnce
    <3> QED
      BY <2>1, <3>1 DEF GivesUp, Kept, Counted, AskedOnce, EnqueueReq, RequeueReq
  <2>3. \A c, o : Sits(c, o, m)' => c = "sent" \/ c = "back" \/ c = "store" \/ c = "held"
    BY DEF Sits
  <2>4. CASE ~\E s \in A \cup B \cup D : frame[s] = m
    <3>1. Calm(m)
      <4> SUFFICES ASSUME NEW c, NEW o PROVE Sits(c, o, m)' <=> Sits(c, o, m)
        BY DEF Calm
      <4>1. Sits("held", o, m) => o \notin A \cup B \cup D
        BY <2>4, SitsIs DEF Has
      <4> QED
        BY <2>3, <2>4, <4>1, GivesUpSits, SitsIs
    <3>2. m \in settled' <=> m \in settled
      BY <2>4 DEF GivesUp
    <3>3. m \in dropped => m \in dropped'
      BY DEF GivesUp
    <3> QED
      BY <2>1, <2>2, <3>1, <3>2, <3>3, KeptCalm
  <2>5. CASE \E s \in A \cup B \cup D : frame[s] = m
    <3>1. PICK x \in A \cup B \cup D : frame[x] = m
      BY <2>5
    <3>2. Sits("held", x, m)
      BY <1>1, <3>1, SitsIs
    <3>3. \A c, o : Sits(c, o, m) => c = "held" /\ o = x
      BY <2>1, <3>2 DEF Kept, OneSeat
    <3>4. m \notin settled
      BY <2>1, <3>2 DEF Kept, NoSeat
    <3>5. \A s \in A \cup B \cup D : frame[s] = m => s = x
      BY <1>1, <3>3, SitsIs
    <3>6. \A o : /\ ~Sits("sent", o, m)' /\ ~Sits("store", o, m)' /\ ~Sits("held", o, m)'
                 /\ Sits("back", o, m)' <=> o = k /\ x \in B
      <4> SUFFICES ASSUME NEW o
                   PROVE  /\ ~Sits("sent", o, m)' /\ ~Sits("store", o, m)' /\ ~Sits("held", o, m)'
                          /\ Sits("back", o, m)' <=> o = k /\ x \in B
        OBVIOUS
      <4>1. ~Sits("sent", o, m) /\ ~Sits("store", o, m) /\ ~Sits("back", o, m)
        BY <3>3
      <4>2. Sits("held", o, m) => o = x
        BY <3>3
      <4>3. (\E s \in B : frame[s] = m) <=> x \in B
        BY <3>1, <3>5
      <4> QED
        BY <3>1, <4>1, <4>2, <4>3, GivesUpSits
    <3>7. CASE x \in B
      <4>1. x \notin A
        BY <3>7 DEF GivesUp
      <4>2. \A s \in A : frame[s] # m
        BY <3>5, <4>1
      <4>3. m \notin settled'
        BY <3>4, <4>2 DEF GivesUp
      <4>4. Goes(m, "back", k)
        BY <2>3, <3>6, <3>7 DEF Goes
      <4> QED
        BY <2>2, <4>3, <4>4, KeptGoes
    <3>8. CASE x \notin B
      <4>1. NoSeat(m)'
        BY <2>3, <3>6, <3>8 DEF NoSeat
      <4>2. m \in settled' \cup dropped'
        BY <3>1, <3>8 DEF GivesUp
      <4> QED
        BY <2>2, <4>1, <4>2, KeptEnds
    <3> QED
      BY <3>7, <3>8
  <2> QED
    BY <2>4, <2>5
<1> QED
  BY <1>2, <1>3 DEF MsgInv

\* The other requests are about no message.
LEMMA NoMessage ==
  \A m, s : /\ SubscribeReq(s) # EnqueueReq(m) /\ SubscribeReq(s) # RequeueReq(m)
            /\ UnsubscribeReq(s) # EnqueueReq(m) /\ UnsubscribeReq(s) # RequeueReq(m)
            /\ DisconnectedReq # EnqueueReq(m) /\ DisconnectedReq # RequeueReq(m)
BY DEF EnqueueReq, RequeueReq, SubscribeReq, UnsubscribeReq, DisconnectedReq

\* A handler that makes no request about a message.
LEMMA AsksNothing ==
  ASSUME ObjInv, NEW k \in Conns, NEW r,
         (out' = out /\ out[k] = <<>>) \/ out' = [out EXCEPT ![k] = <<r>>],
         \A m : r # EnqueueReq(m) /\ r # RequeueReq(m)
  PROVE  /\ \A h \in Conns : h # k => out'[h] = out[h]
         /\ \A m : /\ ~Occ(out'[k], EnqueueReq(m)) /\ ~Occ(out'[k], RequeueReq(m))
                   /\ Once(out'[k], RequeueReq(m))
<1>1. /\ \A h \in Conns : h # k => out'[h] = out[h]
      /\ out'[k] = <<>> \/ out'[k] = <<r>>
  BY DEF ObjInv, TypeOK
<1>2. \A x : ~Occ(<<>>, x) /\ Once(<<>>, x) /\ (Occ(<<r>>, x) <=> x = r) /\ Once(<<r>>, x)
  BY OccFew
<1> QED
  BY <1>1, <1>2

\* A handler that requeues the message of one object.
LEMMA AsksBack ==
  ASSUME ObjInv, NEW k \in Conns, NEW n, out' = [out EXCEPT ![k] = <<RequeueReq(n)>>]
  PROVE  /\ \A h \in Conns : h # k => out'[h] = out[h]
         /\ \A m : /\ ~Occ(out'[k], EnqueueReq(m)) /\ (Occ(out'[k], RequeueReq(m)) <=> m = n)
                   /\ Once(out'[k], RequeueReq(m))
<1>1. /\ \A h \in Conns : h # k => out'[h] = out[h]
      /\ out'[k] = <<RequeueReq(n)>>
  BY DEF ObjInv, TypeOK
<1>2. \A x : (Occ(<<RequeueReq(n)>>, x) <=> x = RequeueReq(n)) /\ Once(<<RequeueReq(n)>>, x)
  BY OccFew
<1>3. \A m : EnqueueReq(m) # RequeueReq(n) /\ (RequeueReq(m) = RequeueReq(n) <=> m = n)
  BY ReqDiffer
<1> QED
  BY <1>1, <1>2, <1>3

\* Steps that move no message: an UNSUBSCRIBE, the steps of cleanupConn between
\* its requests, a topic frame written.
LEMMA QuietGivesUp ==
  ASSUME ObjInv, NEW k \in Conns,
         HandleUnsubscribe(k) \/ Discard(k) \/ DrainEnd(k) \/ WriteTopic(k)
  PROVE  GivesUp(k, {}, {}, {})
<1>1. UNCHANGED <<subList, subCh, attr, frame, requestCh, procOut, storage, dest, settled, dropped>>
  BY DEF HandleUnsubscribe, Discard, DrainEnd, WriteTopic, subVars, procVars, histVars
<1>2. out[k] = <<>>
  BY DEF HandleUnsubscribe, Discard, DrainEnd, WriteTopic, Running
<1>3. PICK r : /\ out' = out \/ out' = [out EXCEPT ![k] = <<r>>]
               /\ \A m : r # EnqueueReq(m) /\ r # RequeueReq(m)
  <2>1. CASE HandleUnsubscribe(k)
    <3>1. PICK i \in Ids : out' = [out EXCEPT ![k] = <<UnsubscribeReq(subs[k][i])>>]
      BY <2>1 DEF HandleUnsubscribe
    <3> QED
      BY <3>1, NoMessage
  <2>2. CASE Discard(k) \/ WriteTopic(k)
    <3>1. out' = out
      BY <2>2 DEF Discard, WriteTopic
    <3> QED
      BY <3>1, NoMessage
  <2>3. CASE DrainEnd(k)
    <3>1. out[k] = <<>> => out = [out EXCEPT ![k] = <<>>]
      BY DEF ObjInv, TypeOK
    <3>2. out' = out \/ out' = [out EXCEPT ![k] = <<DisconnectedReq>>]
      BY <1>2, <2>3, <3>1 DEF DrainEnd
    <3> QED
      BY <3>2, NoMessage
  <2> QED
    BY <2>1, <2>2, <2>3
<1>4. /\ \A h \in Conns : h # k => out'[h] = out[h]
      /\ \A m : /\ ~Occ(out'[k], EnqueueReq(m)) /\ ~Occ(out'[k], RequeueReq(m))
                /\ Once(out'[k], RequeueReq(m))
  BY <1>2, <1>3, AsksNothing
<1>5. \A s \in Subs : Bears(s)' <=> Bears(s)
  BY <1>1 DEF Bears, ToQueues
<1> QED
  BY <1>1, <1>2, <1>4, <1>5 DEF GivesUp

\* A SUBSCRIBE makes an object that bears nothing.
LEMMA SubscribeGivesUp ==
  ASSUME ObjInv, NEW k \in Conns, HandleSubscribe(k)
  PROVE  GivesUp(k, {}, {}, {})
<1>1. UNCHANGED <<subList, subCh, frame, requestCh, procOut, storage, dest, settled, dropped>>
  BY DEF HandleSubscribe, subVars, procVars, histVars
<1>2. out[k] = <<>>
  BY DEF HandleSubscribe, Running
<1>3. PICK x \in Subs, i \in Ids, d \in Dests, a \in AckModes :
        /\ attr[x] = NoAttr /\ subs[k][i] = None
        /\ attr' = [attr EXCEPT ![x] = [conn |-> k, id |-> i, dest |-> d, ack |-> a]]
        /\ subs' = [subs EXCEPT ![k][i] = x]
        /\ out' = [out EXCEPT ![k] = <<SubscribeReq(x)>>]
  BY DEF HandleSubscribe
<1>4. /\ \A h \in Conns : h # k => out'[h] = out[h]
      /\ \A m : /\ ~Occ(out'[k], EnqueueReq(m)) /\ ~Occ(out'[k], RequeueReq(m))
                /\ Once(out'[k], RequeueReq(m))
  <2>1. \A m : SubscribeReq(x) # EnqueueReq(m) /\ SubscribeReq(x) # RequeueReq(m)
    BY NoMessage
  <2> QED
    BY <1>3, <2>1, AsksNothing
<1>5. attr'[x].conn = k /\ \A s \in Subs : s # x => attr'[s] = attr[s]
  BY <1>3 DEF ObjInv, TypeOK
<1>6. ~Bears(x)
  <2> SUFFICES ASSUME Bears(x) PROVE attr[x] # NoAttr
    BY <1>3
  <2> QED
    BY Bearer
<1>7. ~Bears(x)'
  <2>1. attr[x].conn # k
    BY <1>3, NoneAssumption DEF NoAttr
  <2>2. ~Occ(subCh[k], x) /\ ~Occ(subList[k], x)
    BY <2>1, Carried
  <2>3. ~\E j \in 1 .. Len(procOut) : procOut[j].sub = x
    BY <1>3 DEF ObjInv, Homes, HomeProc
  <2> QED
    BY <1>1, <1>5, <2>2, <2>3 DEF Bears
<1>8. \A s \in Subs : s # x => (Bears(s)' <=> Bears(s))
  BY <1>1, <1>5 DEF Bears, ToQueues
<1> QED
  BY <1>1, <1>2, <1>4, <1>5, <1>6, <1>7, <1>8 DEF GivesUp

\* The first object of subChannel leaves it.
LEMMA HeadLeaves ==
  ASSUME ObjInv, NEW k \in Conns, subCh[k] # <<>>, subCh' = [subCh EXCEPT ![k] = Tail(@)]
  PROVE  /\ Head(subCh[k]) \in Subs /\ Occ(subCh[k], Head(subCh[k]))
         /\ \A h \in Conns : h # k => subCh'[h] = subCh[h]
         /\ \A s \in Subs : Occ(subCh'[k], s) <=> Occ(subCh[k], s) /\ s # Head(subCh[k])
<1>1. PICK l \in Seq(Subs) : l = subCh[k]
  BY DEF ObjInv, TypeOK
<1>2. subCh'[k] = Tail(l) /\ \A h \in Conns : h # k => subCh'[h] = subCh[h]
  BY <1>1 DEF ObjInv, TypeOK
<1>3. l # <<>> /\ Head(l) = l[1] /\ l[1] \in Subs /\ 1 \in 1 .. Len(l)
  BY <1>1, HeadFacts
<1>4. Occ(l, Head(l))
  BY <1>3 DEF Occ
<1>5. ASSUME NEW s \in Subs PROVE Occ(Tail(l), s) <=> Occ(l, s) /\ s # Head(l)
  <2>1. Once(l, s)
    BY <1>1, SubOnce
  <2> QED
    BY <1>3, <2>1, OccTail
<1> QED
  BY <1>1, <1>2, <1>3, <1>4, <1>5

\* A frame is written to an auto subscription and settled, or goes back.
LEMMA HeadGivesUp ==
  ASSUME ObjInv, NEW k \in Conns, WriteAuto(k) \/ SendBack(k) \/ DrainOne(k)
  PROVE  LET s == Head(subCh[k])
         IN  /\ WriteAuto(k) => GivesUp(k, {s}, {}, {})
             /\ SendBack(k) \/ DrainOne(k) => GivesUp(k, {}, {s}, {})
<1>1. /\ UNCHANGED <<subList, attr, requestCh, procOut, storage, dest, dropped>>
      /\ subCh[k] # <<>> /\ subCh' = [subCh EXCEPT ![k] = Tail(@)] /\ out[k] = <<>>
  BY DEF WriteAuto, SendBack, DrainOne, Running, subVars, procVars, histVars
<1>2. PICK x \in Subs : x = Head(subCh[k])
  BY <1>1, HeadLeaves
<1>3. /\ Occ(subCh[k], x) /\ \A h \in Conns : h # k => subCh'[h] = subCh[h]
      /\ \A s \in Subs : Occ(subCh'[k], s) <=> Occ(subCh[k], s) /\ s # x
  BY <1>1, <1>2, HeadLeaves
<1>4. ~Occ(subList[k], x)
  BY <1>3, Carried
<1>5. /\ Bears(x) /\ attr[x].conn = k
      /\ \A s \in Subs : Bears(s)' <=> Bears(s) /\ s # x
  <2>1. \A s \in Subs : Occ(subCh'[k], s) \/ Occ(subList'[k], s) <=>
                          (Occ(subCh[k], s) \/ Occ(subList[k], s)) /\ s \notin {x}
    BY <1>1, <1>3, <1>4
  <2>2. {x} \in SUBSET Subs /\ \A s \in {x} : Occ(subCh[k], s) \/ Occ(subList[k], s)
    BY <1>3
  <2>3. /\ \A s \in {x} : Bears(s) /\ attr[s].conn = k
        /\ \A s \in Subs : Bears(s)' <=> Bears(s) /\ s \notin {x}
    BY <1>1, <1>3, <2>1, <2>2, BearsLess
  <2> QED
    BY <2>3
<1>6. ASSUME WriteAuto(k) PROVE GivesUp(k, {x}, {}, {})
  <2>1. /\ settled' = settled \cup {frame[x]} /\ frame' = [frame EXCEPT ![x] = None]
        /\ out' = [out EXCEPT ![k] = <<SubscribeReq(x)>>]
    BY <1>2, <1>6 DEF WriteAuto
  <2>2. /\ \A h \in Conns : h # k => out'[h] = out[h]
        /\ \A m : /\ ~Occ(out'[k], EnqueueReq(m)) /\ ~Occ(out'[k], RequeueReq(m))
                  /\ Once(out'[k], RequeueReq(m))
    <3>1. \A m : SubscribeReq(x) # EnqueueReq(m) /\ SubscribeReq(x) # RequeueReq(m)
      BY NoMessage
    <3> QED
      BY <2>1, <3>1, AsksNothing
  <2>3. \A s \in Subs : s # x => frame'[s] = frame[s]
    BY <2>1 DEF ObjInv, TypeOK
  <2>4. settled' = settled \cup {frame[s] : s \in {x}} /\ dropped' = dropped \cup {frame[s] : s \in {}}
    BY <1>1, <2>1
  <2> QED
    BY <1>1, <1>5, <2>2, <2>3, <2>4 DEF GivesUp
<1>7. ASSUME SendBack(k) \/ DrainOne(k) PROVE GivesUp(k, {}, {x}, {})
  <2>1. settled' = settled /\ frame' = frame /\ out' = [out EXCEPT ![k] = <<RequeueReq(frame[x])>>]
    BY <1>2, <1>7 DEF SendBack, DrainOne, histVars, subVars
  <2>2. /\ \A h \in Conns : h # k => out'[h] = out[h]
        /\ \A m : /\ ~Occ(out'[k], EnqueueReq(m)) /\ (Occ(out'[k], RequeueReq(m)) <=> m = frame[x])
                  /\ Once(out'[k], RequeueReq(m))
    BY <2>1, AsksBack
  <2>3. settled' = settled \cup {frame[s] : s \in {}} /\ dropped' = dropped \cup {frame[s] : s \in {}}
    BY <1>1, <2>1
  <2> QED
    BY <1>1, <1>5, <2>1, <2>2, <2>3 DEF GivesUp
<1> QED
  BY <1>2, <1>6, <1>7

\* A frame is written to be acknowledged: its object moves to the list.
LEMMA WriteForAckGivesUp ==
  ASSUME ObjInv, NEW k \in Conns, WriteForAck(k)
  PROVE  GivesUp(k, {}, {}, {})
<1>1. /\ UNCHANGED <<out, attr, frame, requestCh, procOut, storage, dest, settled, dropped>>
      /\ subCh[k] # <<>> /\ subCh' = [subCh EXCEPT ![k] = Tail(@)] /\ out[k] = <<>>
      /\ subList' = [subList EXCEPT ![k] = Append(@, Head(subCh[k]))]
  BY DEF WriteForAck, Running, procVars, histVars
<1>2. PICK x \in Subs : x = Head(subCh[k])
  BY <1>1, HeadLeaves
<1>3. /\ Occ(subCh[k], x) /\ \A h \in Conns : h # k => subCh'[h] = subCh[h]
      /\ \A s \in Subs : Occ(subCh'[k], s) <=> Occ(subCh[k], s) /\ s # x
  BY <1>1, <1>2, HeadLeaves
<1>4. PICK l \in Seq(Subs) : l = subList[k]
  BY DEF ObjInv, TypeOK
<1>5. subList'[k] = Append(l, x) /\ \A h \in Conns : h # k => subList'[h] = subList[h]
  BY <1>1, <1>2, <1>4 DEF ObjInv, TypeOK
<1>6. \A s \in Subs : Occ(Append(l, x), s) <=> Occ(l, s) \/ s = x
  BY OccJoin
<1>7. \A s \in Subs : Occ(subCh'[k], s) \/ Occ(subList'[k], s) <=>
                        Occ(subCh[k], s) \/ Occ(subList[k], s)
  BY <1>3, <1>4, <1>5, <1>6
<1>8. \A s \in Subs : Bears(s)' <=> Bears(s)
  <2>1. PICK G \in SUBSET Subs : G = {}
    OBVIOUS
  <2>2. \A s \in G : Occ(subCh[k], s) \/ Occ(subList[k], s)
    BY <2>1
  <2>3. \A s \in Subs : Occ(subCh'[k], s) \/ Occ(subList'[k], s) <=>
                          (Occ(subCh[k], s) \/ Occ(subList[k], s)) /\ s \notin G
    BY <1>7, <2>1
  <2>4. \A s \in Subs : Bears(s)' <=> Bears(s) /\ s \notin G
    BY <1>1, <1>3, <1>5, <2>2, <2>3, BearsLess
  <2> QED
    BY <2>1, <2>4
<1>9. /\ \A h \in Conns : h # k => out'[h] = out[h]
      /\ \A m : /\ ~Occ(out'[k], EnqueueReq(m)) /\ ~Occ(out'[k], RequeueReq(m))
                /\ Once(out'[k], RequeueReq(m))
  BY <1>1, OccFew
<1> QED
  BY <1>1, <1>8, <1>9 DEF GivesUp

\* No two objects bear the same message.
LEMMA FramesDiffer ==
  ASSUME ObjInv, MsgInv, NEW s \in Subs, NEW t \in Subs, Bears(s), Bears(t), frame[s] = frame[t]
  PROVE  s = t
<1>1. PICK m \in Msgs : m = frame[s] /\ ToQueues(m)
  BY Bearer
<1>2. Sits("held", s, m) /\ Sits("held", t, m)
  BY <1>1, SitsIs DEF Has
<1> QED
  BY <1>1, <1>2 DEF MsgInv, Kept, OneSeat

\* The objects of the list, and of subChannel, bear a message each.
LEMMA ListBears ==
  ASSUME ObjInv, NEW k \in Conns, NEW s \in Elems(subList[k])
  PROVE  s \in Subs /\ Occ(subList[k], s) /\ Bears(s)
<1>1. s \in Subs /\ Occ(subList[k], s)
  BY DEF Elems, Occ, ObjInv, TypeOK
<1> QED
  BY <1>1, Carried

\* An ACK settles the messages that it takes out of the list; a NACK requeues
\* them.
LEMMA AckGivesUp ==
  ASSUME ObjInv, MsgInv, NEW k \in Conns, HandleAck(k) \/ HandleNack(k)
  PROVE  \E ss \in SUBSET Subs : GivesUp(k, ss, {}, {}) \/ GivesUp(k, {}, ss, {})
<1>1. PICK ss \in Seq(Subs), l1 \in Seq(Subs), u \in Seq(Requests) :
           /\ Distinct(ss) /\ Distinct(l1) /\ Elems(ss) \subseteq Elems(subList[k])
           /\ Elems(l1) = Elems(subList[k]) \ Elems(ss)
           /\ \A s \in Elems(ss) : s \in Subs /\ frame[s] \in Msgs /\ ToQueues(frame[s])
           /\ subList' = [subList EXCEPT ![k] = l1]
           /\ frame' = [s \in Subs |-> IF s \in Elems(ss) THEN None ELSE frame[s]]
           /\ out[k] = <<>> /\ out' = [out EXCEPT ![k] = u]
           /\ \/ u = AckReqs(ss) /\ settled' = settled \cup {frame[s] : s \in Elems(ss)}
              \/ u = NackReqs(ss) /\ settled' = settled
           /\ panicked = None /\ phase[k] = "run"
           /\ UNCHANGED <<phase, subs, subCh, writeCh, log, attr, inList, procVars,
                          dest, dropped, owed, panicked>>
  BY AckDoes DEF ObjInv
<1>2. UNCHANGED <<subCh, attr, requestCh, procOut, storage, dest, dropped>>
  BY <1>1 DEF procVars
<1>3. subList'[k] = l1 /\ \A h \in Conns : h # k => subList'[h] = subList[h]
  BY <1>1 DEF ObjInv, TypeOK
<1>4. out'[k] = u /\ \A h \in Conns : h # k => out'[h] = out[h]
  BY <1>1 DEF ObjInv, TypeOK
<1>5. \A s \in Subs : s \notin Elems(ss) => frame'[s] = frame[s]
  BY <1>1
<1>6. PICK G \in SUBSET Subs : G = Elems(ss)
  BY <1>1
<1>7. \A s \in G : Occ(subList[k], s) /\ ~Occ(subCh[k], s) /\ Bears(s)
  <2>1. \A s \in G : s \in Subs /\ Occ(subList[k], s) /\ Bears(s)
    BY <1>1, <1>6, ListBears
  <2> QED
    BY <2>1, Carried
<1>8. \A s \in Subs : Occ(subList'[k], s) <=> Occ(subList[k], s) /\ s \notin G
  BY <1>1, <1>3, <1>6, ElemsOcc
<1>9. /\ \A s \in G : Bears(s) /\ attr[s].conn = k
      /\ \A s \in Subs : Bears(s)' <=> Bears(s) /\ s \notin G
  BY <1>2, <1>3, <1>7, <1>8, BearsLess
<1>10. CASE u = AckReqs(ss) /\ settled' = settled \cup {frame[s] : s \in Elems(ss)}
  <2>1. Len(u) = Len(ss) /\ \A j \in 1 .. Len(u) : u[j] = SubscribeReq(ss[j])
    BY <1>10, AckReqsFacts
  <2>2. \A m : ~Occ(u, EnqueueReq(m)) /\ ~Occ(u, RequeueReq(m)) /\ Once(u, RequeueReq(m))
    BY <2>1, NoMessage DEF Occ, Once
  <2>3. settled' = settled \cup {frame[s] : s \in G} /\ dropped' = dropped \cup {frame[s] : s \in {}}
    BY <1>2, <1>6, <1>10
  <2>4. GivesUp(k, G, {}, {})
    BY <1>1, <1>2, <1>4, <1>5, <1>6, <1>9, <2>2, <2>3 DEF GivesUp
  <2> QED
    BY <2>4
<1>11. CASE u = NackReqs(ss) /\ settled' = settled
  <2>1. PICK n \in Nat : n = Len(ss) /\ \A j \in 1 .. n : ss[j] \in G
    BY <1>6 DEF Elems
  <2>2. /\ Len(u) = 2 * n
        /\ \A j \in 1 .. n : /\ 2 * j - 1 \in 1 .. 2 * n
                             /\ u[2 * j - 1] = RequeueReq(frame[ss[j]])
                             /\ u[2 * j] = SubscribeReq(ss[j])
        /\ \A i \in 1 .. 2 * n : \E j \in 1 .. n : i = 2 * j - 1 \/ i = 2 * j
    BY <1>1, <1>11, <2>1, NackReqsFacts
  <2>3. ASSUME NEW m, NEW i \in 1 .. 2 * n, u[i] = RequeueReq(m)
        PROVE  \E j \in 1 .. n : i = 2 * j - 1 /\ frame[ss[j]] = m
    <3>1. PICK j \in 1 .. n : i = 2 * j - 1 \/ i = 2 * j
      BY <2>2
    <3>2. i # 2 * j
      BY <2>2, <2>3, <3>1, NoMessage
    <3>3. u[i] = RequeueReq(frame[ss[j]])
      BY <2>2, <3>1, <3>2
    <3>4. frame[ss[j]] = m
      BY <2>3, <3>3, ReqDiffer
    <3>5. i = 2 * j - 1
      BY <3>1, <3>2
    <3> QED
      BY <3>4, <3>5
  <2>4. ASSUME NEW m
        PROVE  /\ ~Occ(u, EnqueueReq(m)) /\ Once(u, RequeueReq(m))
               /\ Occ(u, RequeueReq(m)) <=> \E s \in G : frame[s] = m
    <3>1. ~Occ(u, EnqueueReq(m))
      <4> SUFFICES ASSUME NEW i \in 1 .. 2 * n, u[i] = EnqueueReq(m) PROVE FALSE
        BY <2>2 DEF Occ
      <4>1. PICK j \in 1 .. n : i = 2 * j - 1 \/ i = 2 * j
        BY <2>2
      <4>2. u[i] = RequeueReq(frame[ss[j]]) \/ u[i] = SubscribeReq(ss[j])
        BY <2>2, <4>1
      <4> QED
        BY <4>2, NoMessage, ReqDiffer
    <3>2. Occ(u, RequeueReq(m)) => \E s \in G : frame[s] = m
      BY <2>1, <2>2, <2>3 DEF Occ
    <3>3. ASSUME NEW s \in G, frame[s] = m PROVE Occ(u, RequeueReq(m))
      <4>1. PICK j \in 1 .. n : ss[j] = s
        BY <1>6, <2>1 DEF Elems
      <4>2. 2 * j - 1 \in 1 .. 2 * n /\ u[2 * j - 1] = RequeueReq(m)
        BY <2>2, <3>3, <4>1
      <4> QED
        BY <2>2, <4>2 DEF Occ
    <3>4. Once(u, RequeueReq(m))
      <4> SUFFICES ASSUME NEW i \in 1 .. 2 * n, NEW j \in 1 .. 2 * n,
                          u[i] = RequeueReq(m), u[j] = RequeueReq(m)
                   PROVE  i = j
        BY <2>2 DEF Once
      <4>1. PICK a \in 1 .. n : i = 2 * a - 1 /\ frame[ss[a]] = m
        BY <2>3
      <4>2. PICK b \in 1 .. n : j = 2 * b - 1 /\ frame[ss[b]] = m
        BY <2>3
      <4>3. ss[a] = ss[b]
        BY <1>7, <2>1, <4>1, <4>2, FramesDiffer
      <4>4. a = b
        BY <1>1, <2>1, <4>3 DEF Distinct
      <4> QED
        BY <4>1, <4>2, <4>4
    <3> QED
      BY <3>1, <3>2, <3>3, <3>4
  <2>5. settled' = settled \cup {frame[s] : s \in {}} /\ dropped' = dropped \cup {frame[s] : s \in {}}
    BY <1>2, <1>11
  <2>6. GivesUp(k, {}, G, {})
    BY <1>1, <1>2, <1>4, <1>5, <1>6, <1>9, <2>4, <2>5 DEF GivesUp
  <2> QED
    BY <2>6
<1> QED
  BY <1>1, <1>10, <1>11

\* A connection that ends requeues the messages of its list.  When a write has
\* failed, the message that was to be written is dropped.
LEMMA LeaveGivesUp ==
  ASSUME ObjInv, MsgInv, NEW k \in Conns, Leave(k) \/ WriteFail(k)
  PROVE  /\ Leave(k) => GivesUp(k, {}, Elems(subList[k]), {})
         /\ WriteFail(k) => GivesUp(k, {}, Elems(subList[k]), {Head(subCh[k])})
<1>1. /\ CleanupConn(k) /\ out[k] = <<>>
      /\ UNCHANGED <<attr, frame, requestCh, procOut, storage, dest, settled>>
  BY DEF Leave, WriteFail, Running, procVars, histVars
<1>2. PICK l \in Seq(Subs) : l = subList[k] /\ Distinct(l)
  BY ListDistinct DEF ObjInv, TypeOK
<1>3. PICK G \in SUBSET Subs : G = Elems(l)
  <2>1. \A i \in 1 .. Len(l) : l[i] \in Subs
    OBVIOUS
  <2> QED
    BY <2>1 DEF Elems
<1>4. \A s \in G : Occ(subList[k], s) /\ ~Occ(subCh[k], s) /\ Bears(s)
  <2>1. \A s \in G : s \in Subs /\ Occ(subList[k], s) /\ Bears(s)
    BY <1>2, <1>3, ListBears
  <2> QED
    BY <2>1, Carried
<1>5. subList' = [subList EXCEPT ![k] = <<>>]
  BY <1>1 DEF CleanupConn
<1>6. \A h \in Conns : h # k => subList'[h] = subList[h]
  BY <1>5 DEF ObjInv, TypeOK
<1>7. \A s \in Subs : ~Occ(subList'[k], s)
  <2>1. subList'[k] = <<>>
    BY <1>5 DEF ObjInv, TypeOK
  <2> QED
    BY <2>1, OccFew
<1>8. PICK u \in Seq(Requests), n \in Nat :
           /\ out' = [out EXCEPT ![k] = u] /\ Len(u) = n + Len(subList[k])
           /\ \A i \in 1 .. n : \E s \in Known(k) : u[i] = UnsubscribeReq(s)
           /\ \A s \in Known(k) : \E i \in 1 .. n : u[i] = UnsubscribeReq(s)
           /\ \A j \in 1 .. Len(subList[k]) :
                n + j \in 1 .. Len(u) /\ u[n + j] = RequeueReq(frame[subList[k][j]])
           /\ \A i \in 1 .. Len(u) :
                i \in 1 .. n \/ \E j \in 1 .. Len(subList[k]) : i = n + j
  BY <1>1, CleanupDoes DEF ObjInv
<1>9. PICK b \in Nat : b = Len(l)
  OBVIOUS
<1>10. /\ Len(u) = n + b
       /\ \A i \in 1 .. n : \E s : u[i] = UnsubscribeReq(s)
       /\ \A j \in 1 .. b : n + j \in 1 .. n + b /\ u[n + j] = RequeueReq(frame[l[j]])
       /\ \A i \in 1 .. n + b : i \in 1 .. n \/ \E j \in 1 .. b : i = n + j
  BY <1>2, <1>8, <1>9
<1>11. out'[k] = u /\ \A h \in Conns : h # k => out'[h] = out[h]
  BY <1>8 DEF ObjInv, TypeOK
<1>12. \A j \in 1 .. b : l[j] \in G
  BY <1>3, <1>9 DEF Elems
<1>13. ASSUME NEW m, NEW i \in 1 .. n + b, u[i] = RequeueReq(m)
       PROVE  \E j \in 1 .. b : i = n + j /\ frame[l[j]] = m
  <2>1. i \notin 1 .. n
    BY <1>10, <1>13, NoMessage
  <2>2. PICK j \in 1 .. b : i = n + j
    BY <1>10, <2>1
  <2>3. u[i] = RequeueReq(frame[l[j]])
    BY <1>10, <2>2
  <2>4. frame[l[j]] = m
    BY <1>13, <2>3, ReqDiffer
  <2> QED
    BY <2>2, <2>4
<1>14. ASSUME NEW m
       PROVE  /\ ~Occ(u, EnqueueReq(m)) /\ Once(u, RequeueReq(m))
              /\ Occ(u, RequeueReq(m)) <=> \E s \in G : frame[s] = m
  <2>1. ~Occ(u, EnqueueReq(m))
    <3> SUFFICES ASSUME NEW i \in 1 .. n + b, u[i] = EnqueueReq(m) PROVE FALSE
      BY <1>10 DEF Occ
    <3>1. i \notin 1 .. n
      BY <1>10, NoMessage
    <3>2. PICK j \in 1 .. b : i = n + j
      BY <1>10, <3>1
    <3>3. u[i] = RequeueReq(frame[l[j]])
      BY <1>10, <3>2
    <3> QED
      BY <3>3, ReqDiffer
  <2>2. Occ(u, RequeueReq(m)) => \E s \in G : frame[s] = m
    BY <1>10, <1>12, <1>13 DEF Occ
  <2>3. ASSUME NEW s \in G, frame[s] = m PROVE Occ(u, RequeueReq(m))
    <3>1. PICK j \in 1 .. b : l[j] = s
      BY <1>3, <1>9 DEF Elems
    <3>2. n + j \in 1 .. n + b /\ u[n + j] = RequeueReq(m)
      BY <1>10, <2>3, <3>1
    <3> QED
      BY <1>10, <3>2 DEF Occ
  <2>4. Once(u, RequeueReq(m))
    <3> SUFFICES ASSUME NEW i \in 1 .. n + b, NEW j \in 1 .. n + b,
                        u[i] = RequeueReq(m), u[j] = RequeueReq(m)
                 PROVE  i = j
      BY <1>10 DEF Once
    <3>1. PICK x \in 1 .. b : i = n + x /\ frame[l[x]] = m
      BY <1>13
    <3>2. PICK y \in 1 .. b : j = n + y /\ frame[l[y]] = m
      BY <1>13
    <3>3. l[x] = l[y]
      BY <1>4, <1>12, <3>1, <3>2, FramesDiffer
    <3>4. x = y
      BY <1>2, <1>9, <3>3 DEF Distinct
    <3> QED
      BY <3>1, <3>2, <3>4
  <2> QED
    BY <2>1, <2>2, <2>3, <2>4
<1>15. settled' = settled \cup {frame[s] : s \in {}}
  BY <1>1
<1>16. ASSUME Leave(k) PROVE GivesUp(k, {}, G, {})
  <2>1. subCh' = subCh /\ dropped' = dropped \cup {frame[s] : s \in {}}
    BY <1>16 DEF Leave, histVars
  <2>2. /\ \A s \in G : Bears(s) /\ attr[s].conn = k
        /\ \A s \in Subs : Bears(s)' <=> Bears(s) /\ s \notin G
    <3>1. \A s \in Subs : Occ(subCh'[k], s) \/ Occ(subList'[k], s) <=>
                            (Occ(subCh[k], s) \/ Occ(subList[k], s)) /\ s \notin G
      BY <1>2, <1>3, <1>4, <1>7, <2>1, ElemsOcc
    <3> QED
      BY <1>1, <1>4, <1>6, <2>1, <3>1, BearsLess
  <2> QED
    BY <1>1, <1>11, <1>14, <1>15, <2>1, <2>2 DEF GivesUp
<1>17. ASSUME WriteFail(k) PROVE GivesUp(k, {}, G, {Head(subCh[k])})
  <2>1. /\ subCh[k] # <<>> /\ subCh' = [subCh EXCEPT ![k] = Tail(@)]
        /\ dropped' = dropped \cup {frame[Head(subCh[k])]}
    BY <1>17 DEF WriteFail
  <2>2. PICK x \in Subs : x = Head(subCh[k])
    BY <2>1, HeadLeaves
  <2>3. /\ Occ(subCh[k], x) /\ \A h \in Conns : h # k => subCh'[h] = subCh[h]
        /\ \A s \in Subs : Occ(subCh'[k], s) <=> Occ(subCh[k], s) /\ s # x
    BY <2>1, <2>2, HeadLeaves
  <2>4. x \notin G
    BY <1>4, <2>3
  <2>5. PICK H \in SUBSET Subs : H = G \cup {x}
    OBVIOUS
  <2>6. /\ \A s \in H : Bears(s) /\ attr[s].conn = k
        /\ \A s \in Subs : Bears(s)' <=> Bears(s) /\ s \notin H
    <3>1. \A s \in Subs : Occ(subCh'[k], s) \/ Occ(subList'[k], s) <=>
                            (Occ(subCh[k], s) \/ Occ(subList[k], s)) /\ s \notin H
      BY <1>2, <1>3, <1>4, <1>7, <2>3, <2>5, ElemsOcc
    <3>2. \A s \in H : Occ(subCh[k], s) \/ Occ(subList[k], s)
      BY <1>4, <2>3, <2>5
    <3> QED
      BY <1>1, <1>6, <2>3, <3>1, <3>2, BearsLess
  <2>7. dropped' = dropped \cup {frame[s] : s \in {x}}
    BY <2>1, <2>2
  <2>8. GivesUp(k, {}, G, {x})
    <3>1. \A s \in {} \cup G \cup {x} : s \in Subs /\ Bears(s) /\ attr[s].conn = k
      BY <2>5, <2>6
    <3>2. \A s \in Subs : /\ Bears(s)' <=> Bears(s) /\ s \notin {} \cup G \cup {x}
                          /\ Bears(s)' => frame'[s] = frame[s] /\ attr'[s] = attr[s]
      BY <1>1, <2>5, <2>6
    <3> QED
      BY <1>1, <1>11, <1>14, <1>15, <2>4, <2>7, <3>1, <3>2 DEF GivesUp
  <2> QED
    BY <2>2, <2>8
<1> QED
  BY <1>2, <1>3, <1>16, <1>17
-----------------------------------------------------------------------------
\* A connection sends its first request.
LEMMA PutSits ==
  ASSUME ObjInv, NEW k \in Conns, PutRequest(k), NEW r, AskedOnce(r),
         \A o, p : Asks(o, r) /\ Asks(p, r) => o = p
  PROVE  /\ AskedOnce(r)'
         /\ r # Head(out[k]) => \A o : Asks(o, r)' <=> Asks(o, r)
         /\ r = Head(out[k]) => Asks(k, r) /\ \A o : Asks(o, r)' <=> o = None
<1>1. /\ out[k] # <<>> /\ requestCh' = Append(requestCh, Head(out[k]))
      /\ out' = [out EXCEPT ![k] = Tail(@)]
  BY DEF PutRequest
<1>2. PICK l \in Seq(Requests) : l = out[k]
  BY DEF ObjInv, TypeOK
<1>3. out'[k] = Tail(l) /\ \A h \in Conns : h # k => out'[h] = out[h]
  BY <1>1, <1>2 DEF ObjInv, TypeOK
<1>4. PICK y \in Requests : y = Head(l) /\ Occ(l, y)
  BY <1>1, <1>2, HeadFacts DEF Occ
<1>5. Once(requestCh, r) /\ \A h \in Conns : Once(out[h], r)
  BY DEF AskedOnce
<1>6. Once(Tail(l), r) /\ (Occ(Tail(l), r) <=> Occ(l, r) /\ r # y)
  BY <1>1, <1>2, <1>4, <1>5, OccTail
<1>7. /\ Occ(requestCh', r) <=> Occ(requestCh, r) \/ r = y
      /\ (r = y => ~Occ(requestCh, r)) => Once(requestCh', r)
  <2>1. requestCh \in Seq(Requests) /\ requestCh' = Append(requestCh, y)
    BY <1>1, <1>2, <1>4 DEF ObjInv, TypeOK
  <2>2. /\ Occ(Append(requestCh, y), r) <=> Occ(requestCh, r) \/ r = y
        /\ Once(requestCh, r) /\ (r = y => ~Occ(requestCh, r)) => Once(Append(requestCh, y), r)
    BY <2>1, OccJoin
  <2> QED
    BY <1>5, <2>1, <2>2
<1>8. k # None
  BY NoneAssumption
<1>9. r = y => Asks(k, r)
  BY <1>2, <1>4 DEF Asks
<1>10. r = y => ~Occ(requestCh, r) /\ \A h \in Conns : h # k => ~Occ(out[h], r)
  <2> SUFFICES ASSUME r = y PROVE ~Occ(requestCh, r) /\ \A h \in Conns : h # k => ~Occ(out[h], r)
    OBVIOUS
  <2>1. \A o : Asks(o, r) => o = k
    BY <1>9
  <2> QED
    BY <1>8, <2>1 DEF Asks
<1>11. AskedOnce(r)'
  BY <1>3, <1>5, <1>6, <1>7, <1>10 DEF AskedOnce
<1>12. ASSUME NEW o, r # y PROVE Asks(o, r)' <=> Asks(o, r)
  BY <1>2, <1>3, <1>6, <1>7, <1>12 DEF Asks
<1>13. ASSUME NEW o, r = y PROVE Asks(o, r)' <=> o = None
  BY <1>2, <1>3, <1>6, <1>7, <1>8, <1>10, <1>13, NoneAssumption DEF Asks
<1> QED
  BY <1>2, <1>4, <1>9, <1>11, <1>12, <1>13

\* A message is asked for in one place.
LEMMA AskedFrom ==
  ASSUME NEW m, Kept(m)
  PROVE  /\ AskedOnce(EnqueueReq(m)) /\ AskedOnce(RequeueReq(m))
         /\ \A o, p : Asks(o, EnqueueReq(m)) /\ Asks(p, EnqueueReq(m)) => o = p
         /\ \A o, p : Asks(o, RequeueReq(m)) /\ Asks(p, RequeueReq(m)) => o = p
<1>1. \A o : /\ Sits("sent", o, m) <=> Asks(o, EnqueueReq(m))
             /\ Sits("back", o, m) <=> Asks(o, RequeueReq(m))
  BY SitsIs
<1>2. \A c, o, e, p : Sits(c, o, m) /\ Sits(e, p, m) => c = e /\ o = p
  BY DEF Kept, OneSeat
<1>3. AskedOnce(EnqueueReq(m)) /\ AskedOnce(RequeueReq(m))
  BY DEF Kept, Counted
<1> QED
  BY <1>1, <1>2, <1>3

\* A message moves with its request.
LEMMA PutKeeps ==
  ASSUME ObjInv, MsgInv, NEW k \in Conns, PutRequest(k)
  PROVE  MsgInv' /\ \A m \in Msgs : ToQueues(m) =>
           \/ Calm(m)
           \/ Sits("sent", k, m) /\ Goes(m, "sent", None)
           \/ Sits("back", k, m) /\ Goes(m, "back", None)
<1>1. UNCHANGED <<subList, subCh, attr, frame, procOut, storage, dest, settled, dropped>>
  BY DEF PutRequest, subVars, histVars
<1>2. ASSUME NEW m \in Msgs, ToQueues(m)
      PROVE  /\ Kept(m)'
             /\ \/ Calm(m)
                \/ Sits("sent", k, m) /\ Goes(m, "sent", None)
                \/ Sits("back", k, m) /\ Goes(m, "back", None)
  <2>1. Kept(m)
    BY <1>2 DEF MsgInv
  <2>2. PICK e, b : e = EnqueueReq(m) /\ b = RequeueReq(m) /\ e # b
    BY ReqDiffer
  <2>3. /\ AskedOnce(e) /\ AskedOnce(b)
        /\ \A o, p : Asks(o, e) /\ Asks(p, e) => o = p
        /\ \A o, p : Asks(o, b) /\ Asks(p, b) => o = p
    BY <2>1, <2>2, AskedFrom
  <2>4. AskedOnce(e)' /\ AskedOnce(b)'
    BY <2>3, PutSits
  <2>5. Counted(m)'
    BY <1>1, <2>1, <2>2, <2>4 DEF Kept, Counted, EnqueueReq, RequeueReq
  <2>6. \A o : /\ Sits("sent", o, m) <=> Asks(o, e)
               /\ Sits("back", o, m) <=> Asks(o, b)
               /\ Sits("sent", o, m)' <=> Asks(o, e)'
               /\ Sits("back", o, m)' <=> Asks(o, b)'
    <3>1. e = EnqueueReq(m)' /\ b = RequeueReq(m)'
      BY <2>2 DEF EnqueueReq, RequeueReq
    <3> QED
      BY <2>2, <3>1 DEF Sits
  <2>7. \A o : /\ Sits("store", o, m)' <=> Sits("store", o, m)
               /\ Sits("held", o, m)' <=> Sits("held", o, m)
    BY <1>1, SitsIs DEF Sits, Has, Bears, ToQueues
  <2>8. \A c, o : Sits(c, o, m) \/ Sits(c, o, m)' =>
                    c = "sent" \/ c = "back" \/ c = "store" \/ c = "held"
    BY DEF Sits
  <2>9. (m \in settled' <=> m \in settled) /\ (m \in dropped => m \in dropped')
    BY <1>1
  <2>10. CASE e # Head(out[k]) /\ b # Head(out[k])
    <3>1. \A o : (Asks(o, e)' <=> Asks(o, e)) /\ (Asks(o, b)' <=> Asks(o, b))
      BY <2>3, <2>10, PutSits
    <3>2. Calm(m)
      BY <2>6, <2>7, <2>8, <3>1 DEF Calm
    <3> QED
      BY <2>1, <2>5, <2>9, <3>2, KeptCalm
  <2>11. CASE e = Head(out[k])
    <3>1. /\ Asks(k, e) /\ \A o : Asks(o, e)' <=> o = None
          /\ \A o : Asks(o, b)' <=> Asks(o, b)
      BY <2>2, <2>3, <2>11, PutSits
    <3>2. Sits("sent", k, m)
      BY <2>6, <3>1
    <3>3. m \notin settled' /\ \A c, o : Sits(c, o, m) => c = "sent"
      BY <2>1, <2>9, <3>2 DEF Kept, OneSeat, NoSeat
    <3>4. Goes(m, "sent", None)
      BY <2>6, <2>7, <2>8, <3>1, <3>3 DEF Goes
    <3> QED
      BY <2>5, <3>2, <3>3, <3>4, KeptGoes
  <2>12. CASE b = Head(out[k])
    <3>1. /\ Asks(k, b) /\ \A o : Asks(o, b)' <=> o = None
          /\ \A o : Asks(o, e)' <=> Asks(o, e)
      BY <2>2, <2>3, <2>12, PutSits
    <3>2. Sits("back", k, m)
      BY <2>6, <3>1
    <3>3. m \notin settled' /\ \A c, o : Sits(c, o, m) => c = "back"
      BY <2>1, <2>9, <3>2 DEF Kept, OneSeat, NoSeat
    <3>4. Goes(m, "back", None)
      BY <2>6, <2>7, <2>8, <3>1, <3>3 DEF Goes
    <3> QED
      BY <2>5, <3>2, <3>3, <3>4, KeptGoes
  <2> QED
    BY <2>10, <2>11, <2>12
<1>3. \A m \in settled' \cup dropped' : ToQueues(m)'
  BY <1>1 DEF MsgInv, ToQueues
<1> QED
  BY <1>1, <1>2, <1>3 DEF MsgInv, ToQueues

\* A SEND to a queue: nothing was known of the message.
LEMMA SendKeeps ==
  ASSUME ObjInv, MsgInv, NEW k \in Conns, HandleSend(k)
  PROVE  /\ MsgInv'
         /\ \E m \in Msgs, d \in Dests :
              /\ dest[m] = None /\ dest' = [dest EXCEPT ![m] = d]
              /\ d \in Queues => Goes(m, "sent", k)
              /\ \A n \in Msgs \ {m} : ToQueues(n) => Calm(n)
              /\ \A s \in Subs : ~Has(s, m) /\ (Bears(s)' <=> Bears(s))
<1>1. UNCHANGED <<subList, subCh, attr, frame, requestCh, procOut, storage, settled, dropped>>
  BY DEF HandleSend, subVars, procVars
<1>2. out[k] = <<>>
  BY DEF HandleSend, Running
<1>3. PICK m \in Msgs, d \in Dests : /\ dest[m] = None /\ dest' = [dest EXCEPT ![m] = d]
                                     /\ out' = [out EXCEPT ![k] = <<EnqueueReq(m)>>]
  BY DEF HandleSend
<1>4. dest'[m] = d /\ \A n \in Msgs : n # m => dest'[n] = dest[n]
  BY <1>3 DEF ObjInv, TypeOK
<1>5. out'[k] = <<EnqueueReq(m)>> /\ \A h \in Conns : h # k => out'[h] = out[h]
  BY <1>3 DEF ObjInv, TypeOK
<1>6. None \notin Dests /\ ~ToQueues(m)
  BY <1>3, NoneAssumption DEF Dests, ToQueues
<1>7. \A i \in 1 .. Len(procOut) : procOut[i].msg # m /\ procOut[i].msg \in Msgs
  <2>1. \A i \in 1 .. Len(procOut) : procOut[i] \in Deliveries
    BY DEF ObjInv, TypeOK
  <2>2. \A i \in 1 .. Len(procOut) : /\ procOut[i].sub \in Subs /\ procOut[i].msg \in Msgs
                                     /\ attr[procOut[i].sub] # NoAttr
                                     /\ dest[procOut[i].msg] = attr[procOut[i].sub].dest
    BY <2>1 DEF Deliveries, ObjInv, Homes, HomeProc
  <2>3. \A s \in Subs : attr[s] # NoAttr => attr[s].dest \in Dests
    BY DEF ObjInv, TypeOK
  <2> QED
    BY <1>3, <1>6, <2>2, <2>3
<1>8. \A s \in Subs : Bears(s)' <=> Bears(s)
  <2>1. \A i \in 1 .. Len(procOut) : ToQueues(procOut[i].msg)' <=> ToQueues(procOut[i].msg)
    BY <1>1, <1>4, <1>7 DEF ToQueues
  <2> QED
    BY <1>1, <2>1 DEF Bears
<1>9. \A s \in Subs : ~Has(s, m)
  BY <1>6, Bearer DEF Has
<1>10. \A n, o : Has(o, n)' <=> Has(o, n)
  BY <1>1, <1>8 DEF Has
<1>11. \A x : ~Occ(<<>>, x) /\ (Occ(<<EnqueueReq(m)>>, x) <=> x = EnqueueReq(m))
               /\ Once(<<EnqueueReq(m)>>, x)
  BY OccFew
<1>12. k # None
  BY NoneAssumption
<1>13. ASSUME NEW n \in Msgs
       PROVE  /\ \A o : Asks(o, EnqueueReq(n))' <=> Asks(o, EnqueueReq(n)) \/ (o = k /\ n = m)
              /\ \A o : Asks(o, RequeueReq(n))' <=> Asks(o, RequeueReq(n))
              /\ AskedOnce(EnqueueReq(n)) => AskedOnce(EnqueueReq(n))'
              /\ AskedOnce(RequeueReq(n)) => AskedOnce(RequeueReq(n))'
  <2>1. PICK e, b : e = EnqueueReq(n) /\ b = RequeueReq(n)
    OBVIOUS
  <2>2. /\ e = EnqueueReq(n)' /\ b = RequeueReq(n)' /\ (e = EnqueueReq(m) <=> n = m)
        /\ b # EnqueueReq(m)
    BY <2>1 DEF EnqueueReq, RequeueReq
  <2>3. \A o : Asks(o, e)' <=> Asks(o, e) \/ (o = k /\ n = m)
    BY <1>1, <1>2, <1>5, <1>11, <1>12, <2>2 DEF Asks
  <2>4. \A o : Asks(o, b)' <=> Asks(o, b)
    BY <1>1, <1>2, <1>5, <1>11, <1>12, <2>2 DEF Asks
  <2>5. (AskedOnce(e) => AskedOnce(e)') /\ (AskedOnce(b) => AskedOnce(b)')
    BY <1>1, <1>5, <1>11 DEF AskedOnce
  <2> QED
    BY <2>1, <2>2, <2>3, <2>4, <2>5
<1>14. \A c, o, n : Sits(c, o, n)' => c = "sent" \/ c = "back" \/ c = "store" \/ c = "held"
  BY DEF Sits
<1>15. ASSUME NEW n \in Msgs
       PROVE  \A o : /\ Sits("sent", o, n)' <=> Asks(o, EnqueueReq(n))'
                     /\ Sits("back", o, n)' <=> Asks(o, RequeueReq(n))'
                     /\ Sits("store", o, n)' <=> o = None /\ Occ(storage[dest'[n]], n)
                     /\ Sits("held", o, n)' <=> Has(o, n)
  <2>1. \A o : /\ Sits("sent", o, n)' <=> Asks(o, EnqueueReq(n))'
               /\ Sits("back", o, n)' <=> Asks(o, RequeueReq(n))'
               /\ Sits("store", o, n)' <=> o = None /\ Occ(storage'[dest'[n]], n)
               /\ Sits("held", o, n)' <=> Has(o, n)'
    BY DEF Sits
  <2> QED
    BY <1>1, <1>10, <2>1
<1>16. ASSUME NEW n \in Msgs, n # m, ToQueues(n) PROVE Calm(n) /\ Kept(n)'
  <2>1. Kept(n)
    BY <1>16 DEF MsgInv
  <2>2. Calm(n)
    BY <1>4, <1>13, <1>14, <1>15, <1>16, SitsIs DEF Calm
  <2>3. Counted(n)'
    BY <1>1, <1>4, <1>13, <1>16, <2>1 DEF Kept, Counted
  <2> QED
    BY <1>1, <2>1, <2>2, <2>3, KeptCalm
<1>17. ASSUME d \in Queues PROVE Goes(m, "sent", k) /\ Kept(m)'
  <2>1. ~Occ(requestCh, EnqueueReq(m)) /\ ~Occ(requestCh, RequeueReq(m))
    <3>1. \A i \in 1 .. Len(requestCh) : GoodReq(requestCh[i])
      BY DEF ObjInv, Homes, HomeReq
    <3> QED
      BY <1>3, <1>6, <3>1, ReqDiffer DEF Occ, GoodReq
  <2>2. ASSUME NEW h \in Conns PROVE ~Occ(out[h], EnqueueReq(m)) /\ ~Occ(out[h], RequeueReq(m))
    <3>1. \A i \in 1 .. Len(out[h]) : GoodReq(out[h][i])
      BY DEF ObjInv, Homes, HomeOut
    <3> QED
      BY <1>3, <1>6, <3>1, ReqDiffer DEF Occ, GoodReq
  <2>3. ~Occ(storage[d], m)
    BY <1>6, <1>17 DEF Occ, ToQueues, ObjInv, Homes, HomeStore
  <2>4. \A o : ~Asks(o, EnqueueReq(m)) /\ ~Asks(o, RequeueReq(m)) /\ ~Has(o, m)
    BY <1>9, <2>1, <2>2 DEF Asks, Has
  <2>5. Goes(m, "sent", k)
    BY <1>4, <1>13, <1>14, <1>15, <2>3, <2>4 DEF Goes
  <2>6. Counted(m)'
    <3>1. AskedOnce(EnqueueReq(m)) /\ AskedOnce(RequeueReq(m)) /\ Once(storage[d], m)
      BY <2>1, <2>2, <2>3 DEF AskedOnce, Once, Occ
    <3> QED
      BY <1>1, <1>4, <1>13, <3>1 DEF Counted
  <2>7. m \notin settled'
    BY <1>1, <1>6 DEF MsgInv
  <2> QED
    BY <2>5, <2>6, <2>7, KeptGoes
<1>18. \A n \in Msgs : ToQueues(n)' => Kept(n)'
  BY <1>4, <1>16, <1>17 DEF ToQueues
<1>19. \A n \in settled' \cup dropped' : ToQueues(n)'
  <2>1. \A n \in settled \cup dropped : n \in Msgs /\ ToQueues(n) /\ n # m
    BY <1>6 DEF MsgInv, ObjInv, TypeOK
  <2> QED
    BY <1>1, <1>4, <2>1 DEF ToQueues
<1>20. MsgInv'
  BY <1>18, <1>19 DEF MsgInv
<1> QED
  BY <1>3, <1>8, <1>9, <1>16, <1>17, <1>20
-----------------------------------------------------------------------------
\* The processor takes the first request.
LEMMA ServeSits ==
  ASSUME ObjInv, requestCh # <<>>, requestCh' = Tail(requestCh), out' = out, NEW r, AskedOnce(r)
  PROVE  /\ AskedOnce(r)' /\ (r = Head(requestCh) => Asks(None, r))
         /\ \A o : Asks(o, r)' <=> Asks(o, r) /\ ~(o = None /\ r = Head(requestCh))
<1>1. PICK l \in Seq(Requests) : l = requestCh
  BY DEF ObjInv, TypeOK
<1>2. Once(l, r) /\ l # <<>>
  BY <1>1 DEF AskedOnce
<1>3. Once(Tail(l), r) /\ (Occ(Tail(l), r) <=> Occ(l, r) /\ r # Head(l))
  BY <1>2, OccTail
<1>4. Head(l) = l[1] /\ 1 \in 1 .. Len(l)
  BY <1>2, HeadFacts
<1>5. Occ(l, Head(l))
  BY <1>4 DEF Occ
<1>6. AskedOnce(r)'
  BY <1>1, <1>3 DEF AskedOnce
<1>7. None \notin Conns
  BY NoneAssumption
<1>8. \A o : Asks(o, r)' <=> Asks(o, r) /\ ~(o = None /\ r = Head(requestCh))
  BY <1>1, <1>3, <1>7 DEF Asks
<1> QED
  BY <1>1, <1>5, <1>6, <1>8 DEF Asks

\* A step of the processor that moves no message of a queue.
Idle == /\ UNCHANGED <<out, dest, attr, frame, storage, settled, dropped>>
        /\ \/ requestCh' = requestCh
           \/ /\ requestCh # <<>> /\ requestCh' = Tail(requestCh)
              /\ \A m \in Msgs : ToQueues(m) => /\ Head(requestCh) # EnqueueReq(m)
                                                /\ Head(requestCh) # RequeueReq(m)
        /\ \A s \in Subs : Bears(s)' <=> Bears(s)

\* It keeps every message where it is.
LEMMA IdleKeeps ==
  ASSUME ObjInv, MsgInv, Idle
  PROVE  MsgInv' /\ \A m \in Msgs : ToQueues(m) => Calm(m)
<1>1. ASSUME NEW m \in Msgs, ToQueues(m) PROVE Calm(m) /\ Kept(m)'
  <2>1. Kept(m)
    BY <1>1 DEF MsgInv
  <2>2. PICK e, b : e = EnqueueReq(m) /\ b = RequeueReq(m)
    OBVIOUS
  <2>3. AskedOnce(e) /\ AskedOnce(b)
    BY <2>1, <2>2, AskedFrom
  <2>4. e = EnqueueReq(m)' /\ b = RequeueReq(m)'
    BY <2>2 DEF EnqueueReq, RequeueReq
  <2>5. /\ AskedOnce(e)' /\ AskedOnce(b)'
        /\ \A o : (Asks(o, e)' <=> Asks(o, e)) /\ (Asks(o, b)' <=> Asks(o, b))
    <3>1. CASE requestCh' = requestCh
      BY <2>3, <3>1 DEF Idle, Asks, AskedOnce
    <3>2. CASE /\ requestCh # <<>> /\ requestCh' = Tail(requestCh)
               /\ e # Head(requestCh) /\ b # Head(requestCh)
      <4>1. out' = out
        BY DEF Idle
      <4> QED
        BY <2>3, <3>2, <4>1, ServeSits
    <3> QED
      BY <1>1, <2>2, <3>1, <3>2 DEF Idle
  <2>6. \A o : Has(o, m)' <=> Has(o, m)
    BY DEF Has, Idle
  <2>7. \A o : /\ Sits("sent", o, m) <=> Asks(o, e)
               /\ Sits("back", o, m) <=> Asks(o, b)
               /\ Sits("sent", o, m)' <=> Asks(o, e)'
               /\ Sits("back", o, m)' <=> Asks(o, b)'
    BY <2>2, <2>4 DEF Sits
  <2>8. \A o : /\ Sits("store", o, m)' <=> Sits("store", o, m)
               /\ Sits("held", o, m)' <=> Sits("held", o, m)
    BY <2>6 DEF Sits, Idle
  <2>9. \A c, o : Sits(c, o, m) \/ Sits(c, o, m)' =>
                    c = "sent" \/ c = "back" \/ c = "store" \/ c = "held"
    BY DEF Sits
  <2>10. Calm(m)
    BY <2>5, <2>7, <2>8, <2>9 DEF Calm
  <2>11. Counted(m)'
    BY <2>1, <2>4, <2>5 DEF Kept, Counted, Idle
  <2> QED
    BY <2>1, <2>10, <2>11, KeptCalm DEF Idle
<1>2. \A m \in settled' \cup dropped' : ToQueues(m)'
  BY DEF MsgInv, ToQueues, Idle
<1> QED
  BY <1>1, <1>2 DEF MsgInv, ToQueues, Idle

\* Requests about no message of a queue, and objects that are listed.
LEMMA ServeIdle ==
  ASSUME ObjInv, ServeOther \/ ServeUnsubscribe \/ ServeEnqueueTopic
                 \/ (ServeSubscribe /\ UNCHANGED <<storage, frame, procOut>>)
  PROVE  Idle
<1>1. /\ UNCHANGED <<out, dest, attr, frame, storage, settled, dropped, subCh, subList>>
      /\ Serve("Disconnected") \/ Serve("Unsubscribe") \/ Serve("Enqueue") \/ Serve("Subscribe")
      /\ ServeOther => Serve("Disconnected") /\ procOut' = procOut
      /\ ServeUnsubscribe => Serve("Unsubscribe") /\ procOut' = procOut
      /\ ServeEnqueueTopic => Serve("Enqueue")
      /\ ServeSubscribe => Serve("Subscribe")
  BY DEF ServeOther, ServeUnsubscribe, ServeEnqueueTopic, ServeSubscribe, connVars, subVars, histVars
<1>2. /\ requestCh # <<>> /\ requestCh' = Tail(requestCh) /\ procOut = <<>>
      /\ requestCh[1] \in Requests /\ Head(requestCh) = requestCh[1]
  BY <1>1, ServeFacts
<1>3. ASSUME NEW m \in Msgs, ToQueues(m)
      PROVE  Head(requestCh) # EnqueueReq(m) /\ Head(requestCh) # RequeueReq(m)
  <2>1. CASE ServeEnqueueTopic
    <3>1. dest[Head(requestCh).msg] \in Topics /\ Head(requestCh).op = "Enqueue"
      BY <2>1 DEF ServeEnqueueTopic, Serve
    <3> QED
      BY <1>3, <3>1, ReqDiffer, DestAssumption DEF ToQueues
  <2>2. CASE ~ServeEnqueueTopic
    <3>1. Head(requestCh).op \in {"Disconnected", "Unsubscribe", "Subscribe"}
      BY <1>1, <2>2 DEF Serve
    <3> QED
      BY <3>1, ReqDiffer
  <2> QED
    BY <2>1, <2>2
<1>4. ~\E i \in 1 .. Len(procOut) : TRUE
  <2>1. Len(procOut) = 0
    BY <1>2
  <2> QED
    BY <2>1
<1>5. ~\E i \in 1 .. Len(procOut') : dest'[procOut'[i].msg] \in Queues
  <2>1. CASE ServeEnqueueTopic
    <3>1. PICK m : m = Head(requestCh).msg /\ dest[m] \in Topics
      BY <2>1 DEF ServeEnqueueTopic
    <3>2. PICK m1 \in Msgs : m1 = m
      BY <1>1, <1>2, <2>1, <3>1, ReqForm DEF Serve
    <3>3. PICK l \in Seq(Subs) : l = waiting[dest[m]] /\ DOMAIN l = 1 .. Len(l)
      BY <3>1 DEF ObjInv, TypeOK, Dests
    <3>4. procOut' = [i \in 1 .. Len(l) |-> [sub |-> l[i], msg |-> m]]
      BY <2>1, <3>1, <3>3 DEF ServeEnqueueTopic
    <3>5. PICK n \in Nat : n = Len(l) /\ \A i \in 1 .. n : l[i] \in Subs
      BY <3>3
    <3>6. procOut' \in [1 .. n -> Deliveries]
      BY <3>2, <3>4, <3>5 DEF Deliveries
    <3>7. Len(procOut') = n
      BY <3>6, FunSeq
    <3>8. \A i \in 1 .. n : procOut'[i].msg = m
      BY <3>4, <3>5
    <3> QED
      BY <1>1, <3>1, <3>7, <3>8, DestAssumption
  <2>2. CASE ~ServeEnqueueTopic
    BY <1>1, <1>4, <2>2
  <2> QED
    BY <2>1, <2>2
<1>6. \A s \in Subs : Bears(s)' <=> Bears(s)
  BY <1>1, <1>4, <1>5 DEF Bears, ToQueues
<1> QED
  BY <1>1, <1>2, <1>3, <1>6 DEF Idle

\* The processor sends what it has: an object goes from it to subChannel.
LEMMA ProcSendIdle ==
  ASSUME ObjInv, ProcSend
  PROVE  Idle
<1>1. /\ procOut # <<>> /\ procOut' = Tail(procOut)
      /\ UNCHANGED <<subList, out, attr, frame, requestCh, storage, dest, settled, dropped>>
  BY DEF ProcSend, subVars, histVars
<1>2. PICK n \in Nat \ {0} : n = Len(procOut)
  BY <1>1, HeadFacts DEF ObjInv, TypeOK
<1>3. /\ Head(procOut) = procOut[1] /\ procOut[1] \in Deliveries /\ Len(procOut') = n - 1
      /\ \A i \in 1 .. n - 1 : procOut'[i] = procOut[i + 1]
  BY <1>1, <1>2, HeadFacts DEF ObjInv, TypeOK
<1>4. PICK p \in Deliveries : p = procOut[1]
  BY <1>3
<1>5. PICK x \in Subs : x = p.sub
  BY DEF Deliveries
<1>6. attr[x] # NoAttr
  BY <1>2, <1>4, <1>5 DEF ObjInv, Homes, HomeProc
<1>7. PICK k \in Conns : k = attr[x].conn
  BY <1>6 DEF ObjInv, TypeOK
<1>8. \/ dest[p.msg] \in Queues /\ subCh' = [subCh EXCEPT ![k] = Append(@, x)]
      \/ dest[p.msg] \in Topics /\ subCh' = subCh
  BY <1>3, <1>4, <1>5, <1>7 DEF ProcSend
<1>9. ASSUME NEW s
      PROVE  (\E i \in 1 .. n : procOut[i].sub = s /\ dest[procOut[i].msg] \in Queues) <=>
               \/ \E i \in 1 .. n - 1 : procOut'[i].sub = s /\ dest[procOut'[i].msg] \in Queues
               \/ x = s /\ dest[p.msg] \in Queues
  <2>1. \A i \in 1 .. n : i = 1 \/ (i - 1 \in 1 .. n - 1 /\ procOut'[i - 1] = procOut[i])
    BY <1>3
  <2>2. \A i \in 1 .. n - 1 : i + 1 \in 1 .. n /\ procOut'[i] = procOut[i + 1]
    BY <1>3
  <2>3. 1 \in 1 .. n /\ procOut[1].sub = x /\ procOut[1].msg = p.msg
    BY <1>4, <1>5
  <2>4. ASSUME NEW i \in 1 .. n, procOut[i].sub = s, dest[procOut[i].msg] \in Queues
        PROVE  \/ \E j \in 1 .. n - 1 : procOut'[j].sub = s /\ dest[procOut'[j].msg] \in Queues
               \/ x = s /\ dest[p.msg] \in Queues
    <3>1. CASE i = 1
      BY <2>3, <2>4, <3>1
    <3>2. CASE i # 1
      <4>1. i - 1 \in 1 .. n - 1 /\ procOut'[i - 1] = procOut[i]
        BY <2>1, <3>2
      <4> QED
        BY <2>4, <4>1
    <3> QED
      BY <3>1, <3>2
  <2>5. ASSUME NEW i \in 1 .. n - 1, procOut'[i].sub = s, dest[procOut'[i].msg] \in Queues
        PROVE  \E j \in 1 .. n : procOut[j].sub = s /\ dest[procOut[j].msg] \in Queues
    BY <2>2, <2>5
  <2>6. x = s /\ dest[p.msg] \in Queues =>
          \E j \in 1 .. n : procOut[j].sub = s /\ dest[procOut[j].msg] \in Queues
    BY <2>3
  <2> QED
    BY <2>4, <2>5, <2>6
<1>10. CASE dest[p.msg] \in Topics /\ subCh' = subCh
  <2>1. dest[p.msg] \notin Queues
    BY <1>10, DestAssumption
  <2>2. \A s \in Subs : Bears(s)' <=> Bears(s)
    BY <1>1, <1>2, <1>3, <1>9, <1>10, <2>1 DEF Bears, ToQueues
  <2> QED
    BY <1>1, <2>2 DEF Idle
<1>11. CASE dest[p.msg] \in Queues /\ subCh' = [subCh EXCEPT ![k] = Append(@, x)]
  <2>1. PICK l \in Seq(Subs) : l = subCh[k]
    BY DEF ObjInv, TypeOK
  <2>2. subCh'[k] = Append(l, x) /\ \A h \in Conns : h # k => subCh'[h] = subCh[h]
    BY <1>11, <2>1 DEF ObjInv, TypeOK
  <2>3. \A s : Occ(Append(l, x), s) <=> Occ(l, s) \/ s = x
    BY OccJoin
  <2>4. ASSUME NEW s \in Subs PROVE Bears(s)' <=> Bears(s)
    <3>1. Bears(s) <=> \/ \E i \in 1 .. n - 1 : procOut'[i].sub = s /\ dest[procOut'[i].msg] \in Queues
                       \/ x = s
                       \/ /\ attr[s].conn \in Conns
                          /\ Occ(subCh[attr[s].conn], s) \/ Occ(subList[attr[s].conn], s)
      BY <1>2, <1>9, <1>11 DEF Bears, ToQueues
    <3>2. Bears(s)' <=> \/ \E i \in 1 .. n - 1 : procOut'[i].sub = s /\ dest[procOut'[i].msg] \in Queues
                        \/ /\ attr[s].conn \in Conns
                           /\ Occ(subCh'[attr[s].conn], s) \/ Occ(subList[attr[s].conn], s)
      BY <1>1, <1>3 DEF Bears, ToQueues
    <3>3. attr[s].conn \in Conns =>
            (Occ(subCh'[attr[s].conn], s) <=> Occ(subCh[attr[s].conn], s) \/ s = x)
      BY <1>7, <2>1, <2>2, <2>3
    <3> QED
      BY <1>7, <3>1, <3>2, <3>3
  <2> QED
    BY <1>1, <2>4 DEF Idle
<1> QED
  BY <1>8, <1>10, <1>11
-----------------------------------------------------------------------------
\* The processor hands the message n to the object x, which was free.
LEMMA HandsTo ==
  ASSUME ObjInv, attr' = attr, dest' = dest, subCh' = subCh, subList' = subList,
         NEW x \in Subs, NEW n \in Msgs, ToQueues(n), NEW c \in Free, In(c, x),
         procOut = <<>>, procOut' = <<[sub |-> x, msg |-> n]>>, frame' = [frame EXCEPT ![x] = n]
  PROVE  /\ ~Bears(x) /\ \A s \in Subs : Bears(s)' <=> Bears(s) \/ s = x
         /\ \A m, o : Has(o, m)' <=> Has(o, m) \/ (o = x /\ m = n)
<1>1. ~Bears(x)
  <2>1. \A e \in Places : In(e, x) => e = c
    BY PlaceNames DEF ObjInv, OnePlace, Unique
  <2>2. c # "proc" /\ c # "sub" /\ c # "list"
    BY PlaceNames
  <2> QED
    BY <2>1, <2>2, PlaceNames, BearsIs
<1>2. PICK p : p = [sub |-> x, msg |-> n] /\ p.sub = x /\ p.msg = n
  OBVIOUS
<1>3. Len(procOut) = 0 /\ Len(procOut') = 1 /\ procOut'[1] = p
  BY <1>2
<1>4. \A s : /\ ~\E i \in 1 .. Len(procOut) : procOut[i].sub = s
             /\ (\E i \in 1 .. Len(procOut') : procOut'[i].sub = s /\ dest'[procOut'[i].msg] \in Queues)
                  <=> s = x
  BY <1>2, <1>3 DEF ToQueues
<1>5. \A s \in Subs : Bears(s)' <=> Bears(s) \/ s = x
  BY <1>4 DEF Bears, ToQueues
<1>6. frame'[x] = n /\ \A s \in Subs : s # x => frame'[s] = frame[s]
  BY DEF ObjInv, TypeOK
<1>7. \A m, o : Has(o, m)' <=> Has(o, m) \/ (o = x /\ m = n)
  BY <1>1, <1>5, <1>6 DEF Has
<1> QED
  BY <1>1, <1>5, <1>7

\* A Subscribe that is served with the first frame of the queue.
Hands(x, q) ==
  /\ x \in Subs /\ q \in Queues /\ attr[x].dest = q /\ attr[x].conn \in Conns
  /\ storage[q] # <<>> /\ storage' = [storage EXCEPT ![q] = Tail(@)]
  /\ frame' = [frame EXCEPT ![x] = Head(storage[q])]

\* The request takes an object out of requestChannel, the storage loses its first frame.
LEMMA HandsKeeps ==
  ASSUME ObjInv, MsgInv, ServeSubscribe, ~UNCHANGED <<storage, frame, procOut>>
  PROVE  /\ MsgInv' /\ UNCHANGED <<out, dest, attr, settled, dropped>>
         /\ \E x, q : /\ Hands(x, q) /\ Goes(Head(storage[q]), "held", x)
                      /\ Head(storage[q]) \in Msgs /\ ToQueues(Head(storage[q]))
                      /\ \A m \in Msgs : ToQueues(m) /\ m # Head(storage[q]) => Calm(m)
                      /\ \A m, o : Has(o, m)' <=> Has(o, m) \/ (o = x /\ m = Head(storage[q]))
<1>1. /\ Serve("Subscribe")
      /\ UNCHANGED <<subList, out, subCh, attr, dest, settled, dropped>>
  BY DEF ServeSubscribe, connVars, histVars
<1>2. /\ procOut = <<>> /\ requestCh # <<>> /\ requestCh' = Tail(requestCh)
      /\ Head(requestCh) = requestCh[1] /\ requestCh[1] \in Requests
      /\ requestCh[1].op = "Subscribe" /\ GoodReq(requestCh[1])
  BY <1>1, ServeFacts
<1>3. PICK x \in Subs : x = requestCh[1].sub /\ requestCh[1] = SubscribeReq(x) /\ attr[x] # NoAttr
  BY <1>2, ReqForm DEF GoodReq
<1>4. PICK q \in Queues :
        /\ q = attr[x].dest /\ storage[q] # <<>> /\ storage' = [storage EXCEPT ![q] = Tail(@)]
        /\ frame' = [frame EXCEPT ![x] = Head(storage[q])]
        /\ procOut' = <<[sub |-> x, msg |-> Head(storage[q])]>>
  BY <1>2, <1>3 DEF ServeSubscribe
<1>5. attr[x].conn \in Conns
  BY <1>3 DEF ObjInv, TypeOK
<1>6. PICK l \in Seq(Msgs) : l = storage[q] /\ l # <<>>
  BY <1>4 DEF ObjInv, TypeOK
<1>7. PICK n \in Msgs : n = Head(l) /\ dest[n] = q /\ ToQueues(n) /\ Occ(l, n)
  <2>1. Head(l) = l[1] /\ l[1] \in Msgs /\ 1 \in 1 .. Len(l)
    BY <1>6, HeadFacts
  <2>2. dest[l[1]] = q /\ Occ(l, l[1])
    BY <1>6, <2>1 DEF ObjInv, Homes, HomeStore, Occ
  <2> QED
    BY <2>1, <2>2 DEF ToQueues
<1>8. In("req", x)
  <2>1. 1 \in 1 .. Len(requestCh)
    BY <1>2, HeadFacts DEF ObjInv, TypeOK
  <2> QED
    BY <1>3, <2>1, PlaceIs DEF In, ReqAt
<1>9. \A m, o : Has(o, m)' <=> Has(o, m) \/ (o = x /\ m = n)
  BY <1>1, <1>2, <1>4, <1>6, <1>7, <1>8, HandsTo, PlaceNames
<1>10. storage'[q] = Tail(l) /\ \A r \in Queues : r # q => storage'[r] = storage[r]
  BY <1>4, <1>6 DEF ObjInv, TypeOK
<1>11. ASSUME NEW m \in Msgs, ToQueues(m)
       PROVE  /\ Kept(m)' /\ (m # n => Calm(m)) /\ (m = n => Goes(m, "held", x))
  <2>1. Kept(m)
    BY <1>11 DEF MsgInv
  <2>2. PICK e, b : e = EnqueueReq(m) /\ b = RequeueReq(m)
    OBVIOUS
  <2>3. AskedOnce(e) /\ AskedOnce(b)
    BY <2>1, <2>2, AskedFrom
  <2>4. e = EnqueueReq(m)' /\ b = RequeueReq(m)'
    BY <2>2 DEF EnqueueReq, RequeueReq
  <2>5. e # Head(requestCh) /\ b # Head(requestCh)
    BY <1>2, <1>3, <2>2, NoMessage
  <2>6. /\ AskedOnce(e)' /\ AskedOnce(b)'
        /\ \A o : (Asks(o, e)' <=> Asks(o, e)) /\ (Asks(o, b)' <=> Asks(o, b))
    BY <1>1, <1>2, <2>3, <2>5, ServeSits
  <2>7. PICK r \in Queues : r = dest[m] /\ Once(storage[r], m)
    BY <1>11, <2>1 DEF ToQueues, Kept, Counted
  <2>8. Once(storage'[r], m) /\ (Occ(storage'[r], m) <=> Occ(storage[r], m) /\ m # n)
    <3>1. CASE r = q
      BY <1>6, <1>7, <1>10, <2>7, <3>1, OccTail
    <3>2. CASE r # q
      BY <1>7, <1>10, <2>7, <3>2
    <3> QED
      BY <3>1, <3>2
  <2>9. Counted(m)'
    BY <1>1, <2>4, <2>6, <2>7, <2>8 DEF Counted
  <2>10. \A o : /\ Sits("sent", o, m) <=> Asks(o, e)
                /\ Sits("back", o, m) <=> Asks(o, b)
                /\ Sits("sent", o, m)' <=> Asks(o, e)'
                /\ Sits("back", o, m)' <=> Asks(o, b)'
    BY <2>2, <2>4 DEF Sits
  <2>11. \A o : /\ Sits("store", o, m) <=> o = None /\ Occ(storage[r], m)
                /\ Sits("store", o, m)' <=> o = None /\ Occ(storage'[r], m)
                /\ Sits("held", o, m) <=> Has(o, m)
                /\ Sits("held", o, m)' <=> Has(o, m)'
    BY <1>1, <2>7 DEF Sits
  <2>12. \A c, o : Sits(c, o, m) \/ Sits(c, o, m)' =>
                     c = "sent" \/ c = "back" \/ c = "store" \/ c = "held"
    BY DEF Sits
  <2>13. CASE m # n
    <3>1. Calm(m)
      BY <1>9, <2>6, <2>8, <2>10, <2>11, <2>12, <2>13 DEF Calm
    <3> QED
      BY <1>1, <2>1, <2>9, <2>13, <3>1, KeptCalm
  <2>14. CASE m = n
    <3>1. Sits("store", None, m)
      BY <1>6, <1>7, <2>7, <2>11, <2>14
    <3>2. m \notin settled' /\ \A c, o : Sits(c, o, m) => c = "store"
      BY <1>1, <2>1, <3>1 DEF Kept, OneSeat, NoSeat
    <3>3. \A o : ~Has(o, m) /\ ~Asks(o, e) /\ ~Asks(o, b)
      BY <2>10, <2>11, <3>2
    <3>4. Goes(m, "held", x)
      BY <1>9, <2>6, <2>8, <2>10, <2>11, <2>12, <2>14, <3>3 DEF Goes
    <3> QED
      BY <2>9, <2>14, <3>2, <3>4, KeptGoes
  <2> QED
    BY <2>13, <2>14
<1>12. MsgInv'
  BY <1>1, <1>11 DEF MsgInv, ToQueues
<1>13. Hands(x, q)
  BY <1>4, <1>5 DEF Hands
<1> QED
  BY <1>1, <1>6, <1>7, <1>9, <1>11, <1>12, <1>13

\* A frame comes to its queue, at the end or at the front: it is stored, or
\* handed to a waiting object.
Behind(m) == Append(storage[dest[m]], m)
Before(m) == <<m>> \o storage[dest[m]]
Stored(m) == /\ \/ ServeEnqueueQueue /\ storage' = [storage EXCEPT ![dest[m]] = Behind(m)]
                \/ ServeRequeue /\ storage' = [storage EXCEPT ![dest[m]] = Before(m)]
             /\ Goes(m, "store", None)
             /\ \A n, o : Has(o, n)' <=> Has(o, n)
Passed(m, x) == /\ x \in Subs /\ attr[x].conn \in Conns /\ waiting[dest[m]] # <<>>
                /\ storage' = storage /\ Goes(m, "held", x)
                /\ \A n, o : Has(o, n)' <=> Has(o, n) \/ (o = x /\ n = m)

\* The request leaves requestChannel.
LEMMA ToQueueKeeps ==
  ASSUME ObjInv, MsgInv, ServeEnqueueQueue \/ ServeRequeue
  PROVE  /\ MsgInv' /\ UNCHANGED <<out, dest, attr, settled, dropped>>
         /\ \E m \in Msgs : /\ ToQueues(m)
                            /\ ServeEnqueueQueue => Sits("sent", None, m)
                            /\ ServeRequeue => Sits("back", None, m)
                            /\ Stored(m) \/ \E x : Passed(m, x)
                            /\ \A n \in Msgs : ToQueues(n) /\ n # m => Calm(n)
<1>1. /\ ServeEnqueueQueue => Serve("Enqueue")
      /\ ServeRequeue => Serve("Requeue")
      /\ UNCHANGED <<subList, out, subCh, attr, dest, settled, dropped>>
  BY DEF ServeEnqueueQueue, ServeRequeue, connVars, histVars
<1>2. /\ requestCh # <<>> /\ requestCh' = Tail(requestCh)
      /\ Head(requestCh) = requestCh[1] /\ requestCh[1] \in Requests
      /\ requestCh[1].op \in {"Enqueue", "Requeue"} /\ GoodReq(requestCh[1]) /\ procOut = <<>>
      /\ ServeEnqueueQueue => requestCh[1].op = "Enqueue"
      /\ ServeRequeue => requestCh[1].op = "Requeue"
  BY <1>1, ServeFacts
<1>3. PICK m \in Msgs : m = Head(requestCh).msg /\ ToQueues(m)
  <2>1. requestCh[1].msg \in Msgs
    BY <1>2, ReqForm
  <2>2. CASE ServeEnqueueQueue
    BY <1>2, <2>1, <2>2 DEF ServeEnqueueQueue, ToQueues
  <2>3. CASE ServeRequeue
    BY <1>2, <2>1, <2>3 DEF GoodReq
  <2> QED
    BY <2>2, <2>3
<1>4. PICK q \in Queues : q = dest[m]
  BY <1>3 DEF ToQueues
<1>5. /\ ServeEnqueueQueue => Head(requestCh) = EnqueueReq(m)
      /\ ServeRequeue => Head(requestCh) = RequeueReq(m)
  <2>1. \A r \in Requests : /\ r.op = "Enqueue" => r = EnqueueReq(r.msg)
                            /\ r.op = "Requeue" => r = RequeueReq(r.msg)
    BY DEF Requests, EnqueueReq, RequeueReq
  <2> QED
    BY <1>2, <1>3, <2>1
<1>6. Kept(m)
  BY <1>3 DEF MsgInv
<1>7. /\ ServeEnqueueQueue => Sits("sent", None, m)
      /\ ServeRequeue => Sits("back", None, m)
  <2>1. AskedOnce(EnqueueReq(m)) /\ AskedOnce(RequeueReq(m))
    BY <1>6, AskedFrom
  <2>2. ASSUME ServeEnqueueQueue PROVE Sits("sent", None, m)
    <3>1. Asks(None, EnqueueReq(m))
      BY <1>1, <1>2, <1>5, <2>1, <2>2, ServeSits
    <3> QED
      BY <3>1, SitsIs
  <2>3. ASSUME ServeRequeue PROVE Sits("back", None, m)
    <3>1. Asks(None, RequeueReq(m))
      BY <1>1, <1>2, <1>5, <2>1, <2>3, ServeSits
    <3> QED
      BY <3>1, SitsIs
  <2> QED
    BY <2>2, <2>3
<1>8. /\ m \notin settled
      /\ \A c, o : Sits(c, o, m) => o = None /\ (ServeEnqueueQueue => c = "sent")
                                             /\ (ServeRequeue => c = "back")
  BY <1>6, <1>7 DEF Kept, OneSeat, NoSeat
<1>9. ASSUME NEW n \in Msgs, ToQueues(n), NEW r
      PROVE  r = EnqueueReq(n) \/ r = RequeueReq(n) =>
               AskedOnce(r)' /\ \A o : Asks(o, r)' <=> Asks(o, r) /\ n # m
  <2> SUFFICES ASSUME r = EnqueueReq(n) \/ r = RequeueReq(n)
               PROVE  AskedOnce(r)' /\ \A o : Asks(o, r)' <=> Asks(o, r) /\ n # m
    OBVIOUS
  <2>1. AskedOnce(r)
    BY <1>9, AskedFrom DEF MsgInv
  <2>2. /\ AskedOnce(r)'
        /\ \A o : Asks(o, r)' <=> Asks(o, r) /\ ~(o = None /\ r = Head(requestCh))
    BY <1>1, <1>2, <2>1, ServeSits
  <2>3. CASE n # m
    <3>1. r # Head(requestCh)
      BY <1>5, <2>3, ReqDiffer
    <3> QED
      BY <2>2, <2>3, <3>1
  <2>4. CASE n = m
    <3>1. \A o : Asks(o, r) => \/ Sits("sent", o, m) /\ r = EnqueueReq(m)
                               \/ Sits("back", o, m) /\ r = RequeueReq(m)
      <4>1. \A o : /\ Sits("sent", o, m) <=> Asks(o, EnqueueReq(m))
                   /\ Sits("back", o, m) <=> Asks(o, RequeueReq(m))
        BY SitsIs
      <4>2. r = EnqueueReq(m) \/ r = RequeueReq(m)
        BY <2>4
      <4> QED
        BY <4>1, <4>2
    <3>2. ASSUME NEW o, Asks(o, r) PROVE o = None /\ r = Head(requestCh)
      <4>1. o = None
        BY <1>8, <3>1, <3>2
      <4>2. CASE ServeEnqueueQueue
        <5>1. ~Sits("back", o, m)
          BY <1>8, <4>2
        <5> QED
          BY <1>5, <3>1, <3>2, <4>1, <4>2, <5>1
      <4>3. CASE ServeRequeue
        <5>1. ~Sits("sent", o, m)
          BY <1>8, <4>3
        <5> QED
          BY <1>5, <3>1, <3>2, <4>1, <4>3, <5>1
      <4> QED
        BY <4>2, <4>3
    <3> QED
      BY <2>2, <2>4, <3>2
  <2> QED
    BY <2>3, <2>4
<1>10. ASSUME NEW n \in Msgs
       PROVE  /\ EnqueueReq(n)' = EnqueueReq(n) /\ RequeueReq(n)' = RequeueReq(n)
              /\ \A o : /\ Sits("sent", o, n) <=> Asks(o, EnqueueReq(n))
                        /\ Sits("back", o, n) <=> Asks(o, RequeueReq(n))
                        /\ Sits("store", o, n) <=> o = None /\ Occ(storage[dest[n]], n)
                        /\ Sits("held", o, n) <=> Has(o, n)
                        /\ Sits("sent", o, n)' <=> Asks(o, EnqueueReq(n))'
                        /\ Sits("back", o, n)' <=> Asks(o, RequeueReq(n))'
                        /\ Sits("store", o, n)' <=> o = None /\ Occ(storage'[dest[n]], n)
                        /\ Sits("held", o, n)' <=> Has(o, n)'
  BY <1>1 DEF Sits, EnqueueReq, RequeueReq
<1>11. \A c, o, n : Sits(c, o, n) \/ Sits(c, o, n)' =>
                      c = "sent" \/ c = "back" \/ c = "store" \/ c = "held"
  BY DEF Sits
<1>12. ~Occ(storage[q], m) /\ \A o : ~Has(o, m)
  BY <1>4, <1>8, <1>10
<1>13. ASSUME \A n \in Msgs : ToQueues(n) => Once(storage'[dest[n]], n)
       PROVE  \A n \in Msgs : ToQueues(n) => Counted(n)'
  BY <1>1, <1>9, <1>10, <1>13 DEF Counted
<1>14. ASSUME \A n \in Msgs : ToQueues(n) =>
                /\ Kept(n)' /\ (n # m => Calm(n))
                /\ n = m => Stored(m) \/ \E x : Passed(m, x)
       PROVE  /\ MsgInv' /\ UNCHANGED <<out, dest, attr, settled, dropped>>
              /\ \E n \in Msgs : /\ ToQueues(n)
                                 /\ ServeEnqueueQueue => Sits("sent", None, n)
                                 /\ ServeRequeue => Sits("back", None, n)
                                 /\ Stored(n) \/ \E x : Passed(n, x)
                                 /\ \A z \in Msgs : ToQueues(z) /\ z # n => Calm(z)
  <2>1. MsgInv'
    BY <1>1, <1>14 DEF MsgInv, ToQueues
  <2> QED
    BY <1>1, <1>3, <1>7, <1>14, <2>1
<1>15. PICK t \in Seq(Msgs) :
         /\ ToQueue(m, t)
         /\ \/ ServeEnqueueQueue /\ t = Behind(m)
            \/ ServeRequeue /\ t = Before(m)
         /\ \A n : (Occ(t, n) <=> Occ(storage[q], n) \/ n = m)
         /\ \A n : Once(storage[q], n) => Once(t, n)
  <2>1. PICK l \in Seq(Msgs) : l = storage[q]
    BY DEF ObjInv, TypeOK
  <2>2. \A n : /\ (Occ(Append(l, m), n) <=> Occ(l, n) \/ n = m)
               /\ (Occ(<<m>> \o l, n) <=> Occ(l, n) \/ n = m)
               /\ Once(l, n) => Once(Append(l, m), n) /\ Once(<<m>> \o l, n)
    BY <1>12, <2>1, OccJoin
  <2>3. Append(l, m) \in Seq(Msgs) /\ <<m>> \o l \in Seq(Msgs)
    BY AppendProperties, ConcatProperties
  <2>4. CASE ServeEnqueueQueue
    BY <1>3, <1>4, <2>1, <2>2, <2>3, <2>4 DEF ServeEnqueueQueue, Behind
  <2>5. CASE ServeRequeue
    BY <1>3, <1>4, <2>1, <2>2, <2>3, <2>5 DEF ServeRequeue, Before
  <2> QED
    BY <2>4, <2>5
<1>16. CASE /\ waiting[q] = <<>> /\ storage' = [storage EXCEPT ![q] = t]
            /\ UNCHANGED <<waiting, inList, frame, procOut, panicked>>
  <2>1. storage'[q] = t /\ \A r \in Queues : r # q => storage'[r] = storage[r]
    BY <1>16 DEF ObjInv, TypeOK
  <2>2. \A n, o : Has(o, n)' <=> Has(o, n)
    BY <1>1, <1>16 DEF Has, Bears, ToQueues
  <2>3. ASSUME NEW n \in Msgs, ToQueues(n)
        PROVE  /\ Once(storage'[dest[n]], n)
               /\ Occ(storage'[dest[n]], n) <=> Occ(storage[dest[n]], n) \/ n = m
    <3>1. Once(storage[dest[n]], n) /\ dest[n] \in Queues
      BY <2>3 DEF MsgInv, Kept, Counted, ToQueues
    <3> QED
      BY <1>4, <1>15, <2>1, <3>1
  <2>4. ASSUME NEW n \in Msgs, ToQueues(n)
        PROVE  /\ Kept(n)' /\ (n # m => Calm(n))
               /\ n = m => Stored(m) \/ \E x : Passed(m, x)
    <3>1. Counted(n)' /\ Kept(n)
      BY <1>13, <2>3, <2>4 DEF MsgInv
    <3>2. CASE n # m
      <4>1. Calm(n)
        BY <1>9, <1>10, <1>11, <2>2, <2>3, <2>4, <3>2 DEF Calm
      <4> QED
        BY <1>1, <3>1, <3>2, <4>1, KeptCalm
    <3>3. CASE n = m
      <4>1. Goes(m, "store", None)
        BY <1>9, <1>10, <1>11, <1>12, <2>2, <2>3, <2>4, <3>3 DEF Goes
      <4>2. Stored(m)
        BY <1>4, <1>15, <1>16, <2>2, <4>1 DEF Stored
      <4> QED
        BY <1>1, <1>8, <3>1, <3>3, <4>1, <4>2, KeptGoes
    <3> QED
      BY <3>2, <3>3
  <2> QED
    BY <1>14, <2>4
<1>17. CASE /\ waiting[q] # <<>> /\ storage' = storage
            /\ frame' = [frame EXCEPT ![Head(waiting[q])] = m]
            /\ procOut' = <<[sub |-> Head(waiting[q]), msg |-> m]>>
  <2>1. PICK x \in Subs : x = Head(waiting[q]) /\ In("wait", x) /\ attr[x].dest = q
    <3>1. waiting[q] \in Seq(Subs) /\ q \in Dests
      BY DEF ObjInv, TypeOK, Dests
    <3>2. Head(waiting[q]) = waiting[q][1] /\ waiting[q][1] \in Subs /\ 1 \in 1 .. Len(waiting[q])
      BY <1>17, <3>1, HeadFacts
    <3>3. attr[waiting[q][1]].dest = q
      BY <3>1, <3>2 DEF ObjInv, Homes, HomeWait
    <3>4. WaitAt(1, waiting[q][1])
      BY <3>1, <3>2, <3>3 DEF WaitAt
    <3> QED
      BY <3>2, <3>3, <3>4, PlaceIs DEF In
  <2>2. \A n, o : Has(o, n)' <=> Has(o, n) \/ (o = x /\ n = m)
    BY <1>1, <1>2, <1>3, <1>17, <2>1, HandsTo, PlaceNames
  <2>3. attr[x].conn \in Conns
    <3>1. attr[x] # NoAttr
      BY <2>1, NoneAssumption DEF NoAttr, Dests
    <3> QED
      BY <3>1 DEF ObjInv, TypeOK
  <2>4. ASSUME NEW n \in Msgs, ToQueues(n)
        PROVE  /\ Kept(n)' /\ (n # m => Calm(n))
               /\ n = m => Stored(m) \/ \E y : Passed(m, y)
    <3>1. Counted(n)' /\ Kept(n)
      BY <1>13, <1>17, <2>4 DEF MsgInv, Kept, Counted
    <3>2. CASE n # m
      <4>1. Calm(n)
        BY <1>9, <1>10, <1>11, <1>17, <2>2, <2>4, <3>2 DEF Calm
      <4> QED
        BY <1>1, <3>1, <3>2, <4>1, KeptCalm
    <3>3. CASE n = m
      <4>1. Goes(m, "held", x)
        BY <1>4, <1>9, <1>10, <1>11, <1>12, <1>17, <2>2, <2>4, <3>3, SMTT(40) DEF Goes
      <4>2. Passed(m, x)
        BY <1>4, <1>17, <2>2, <2>3, <4>1 DEF Passed
      <4> QED
        BY <1>1, <1>8, <3>1, <3>3, <4>1, <4>2, KeptGoes
    <3> QED
      BY <3>2, <3>3
  <2> QED
    BY <1>14, <2>4
<1> QED
  BY <1>4, <1>15, <1>16, <1>17 DEF ToQueue
-----------------------------------------------------------------------------
\* There are no messages in the beginning.
LEMMA InitMsg ==
  ASSUME Init
  PROVE  MsgInv
<1>1. settled = {} /\ dropped = {} /\ \A m \in Msgs : dest[m] = None
  BY DEF Init
<1>2. \A m \in Msgs : ~ToQueues(m)
  BY <1>1, NoneAssumption DEF ToQueues, Dests
<1> QED
  BY <1>1, <1>2 DEF MsgInv

\* A step that changes nothing.
LEMMA StutterMsg ==
  ASSUME ObjInv, MsgInv, UNCHANGED vars
  PROVE  MsgInv'
<1>1. UNCHANGED <<out, dest, attr, frame, storage, settled, dropped, requestCh, procOut, subCh, subList>>
  BY DEF vars, connVars, subVars, procVars, histVars
<1>2. Idle
  BY <1>1 DEF Idle, Bears, ToQueues
<1> QED
  BY <1>2, IdleKeeps

\* The steps of a connection that take or give no new message.
LEMMA ConnGivesUp ==
  ASSUME ObjInv, MsgInv, NEW k \in Conns,
         \/ HandleSubscribe(k) \/ HandleUnsubscribe(k) \/ HandleAck(k) \/ HandleNack(k)
         \/ WriteOut(k) \/ SendBack(k) \/ Discard(k) \/ DrainOne(k) \/ DrainEnd(k)
         \/ Leave(k) \/ WriteFail(k)
  PROVE  \E S, x : \/ GivesUp(k, S, {}, {}) \/ GivesUp(k, {}, S, {})
                   \/ GivesUp(k, {}, S, {x})
<1>1. CASE \/ HandleSubscribe(k) \/ HandleUnsubscribe(k) \/ Discard(k) \/ DrainEnd(k)
           \/ WriteTopic(k) \/ WriteForAck(k)
  BY <1>1, SubscribeGivesUp, QuietGivesUp, WriteForAckGivesUp
<1>2. CASE HandleAck(k) \/ HandleNack(k)
  BY <1>2, AckGivesUp
<1>3. CASE WriteAuto(k) \/ SendBack(k) \/ DrainOne(k)
  BY <1>3, HeadGivesUp
<1>4. CASE Leave(k) \/ WriteFail(k)
  BY <1>4, LeaveGivesUp
<1> QED
  BY <1>1, <1>2, <1>3, <1>4 DEF WriteOut

\* MsgInv is inductive, relative to ObjInv.
LEMMA NextMsg ==
  ASSUME ObjInv, MsgInv, [Next]_vars
  PROVE  MsgInv'
<1>1. CASE UNCHANGED vars
  BY <1>1, StutterMsg
<1>2. ASSUME NEW k \in Conns, Handle(k) \/ WriteOut(k) \/ Internal(k) \/ Leave(k) \/ WriteFail(k)
      PROVE  MsgInv'
  <2>1. CASE HandleSend(k)
    BY <2>1, SendKeeps
  <2>2. CASE PutRequest(k)
    BY <2>2, PutKeeps
  <2>3. CASE ~HandleSend(k) /\ ~PutRequest(k)
    <3>1. PICK S, x : \/ GivesUp(k, S, {}, {}) \/ GivesUp(k, {}, S, {})
                      \/ GivesUp(k, {}, S, {x})
      BY <1>2, <2>3, ConnGivesUp DEF Handle, Internal
    <3> QED
      BY <3>1, GivesUpKeeps
  <2> QED
    BY <2>1, <2>2, <2>3
<1>3. CASE Proc
  <2>1. CASE ServeSubscribe /\ ~UNCHANGED <<storage, frame, procOut>>
    BY <2>1, HandsKeeps
  <2>2. CASE ServeEnqueueQueue \/ ServeRequeue
    BY <2>2, ToQueueKeeps
  <2>3. CASE \/ ServeSubscribe /\ UNCHANGED <<storage, frame, procOut>>
             \/ ServeOther \/ ServeUnsubscribe \/ ServeEnqueueTopic \/ ProcSend
    <3>1. Idle
      BY <2>3, ServeIdle, ProcSendIdle
    <3> QED
      BY <3>1, IdleKeeps
  <2> QED
    BY <1>3, <2>1, <2>2, <2>3 DEF Proc
<1> QED
  BY <1>1, <1>2, <1>3 DEF Next

\* MsgInv holds in every state of the server.
LEMMA MsgHolds == Spec => [](ObjInv /\ MsgInv)
<1>1. Init => ObjInv /\ MsgInv
  BY InitObj, InitMsg
<1>2. ObjInv /\ MsgInv /\ [Next]_vars => (ObjInv /\ MsgInv)'
  BY NextObj, NextMsg
<1> QED
  BY <1>1, <1>2, PTL DEF Spec
-----------------------------------------------------------------------------
(***************************************************************************)
(* The owners of a message, which OneOwner counts, are where it sits.      *)
(***************************************************************************)
OwnAt(c, k, i, m) ==
  \/ c = "store" /\ k = None /\ i \in DOMAIN storage[dest[m]] /\ storage[dest[m]][i] = m
  \/ c = "request" /\ k = None /\ i \in DOMAIN requestCh /\ requestCh[i].msg = m
  \/ c = "proc" /\ k = None /\ i \in DOMAIN procOut /\ procOut[i].msg = m
  \/ /\ k \in Conns
     /\ \/ c = "out" /\ i \in DOMAIN out[k] /\ out[k][i].msg = m
        \/ c = "subCh" /\ i \in DOMAIN subCh[k] /\ frame[subCh[k][i]] = m
        \/ c = "subList" /\ i \in DOMAIN subList[k] /\ frame[subList[k][i]] = m

\* What an owner is.
LEMMA OwnersAre ==
  ASSUME NEW m
  PROVE  \A z : z \in Owners(m) <=> \E c, k, i : z = <<<<c, k>>, i>> /\ OwnAt(c, k, i, m)
<1>1. ASSUME NEW z, z \in Owners(m)
      PROVE  \E c, k, i : z = <<<<c, k>>, i>> /\ OwnAt(c, k, i, m)
  <2>1. \/ \E i \in DOMAIN storage[dest[m]] : /\ storage[dest[m]][i] = m
                                              /\ z = <<<<"store", None>>, i>>
        \/ \E i \in DOMAIN requestCh : requestCh[i].msg = m /\ z = <<<<"request", None>>, i>>
        \/ \E i \in DOMAIN procOut : procOut[i].msg = m /\ z = <<<<"proc", None>>, i>>
        \/ \E k \in Conns :
             \/ \E i \in DOMAIN out[k] : out[k][i].msg = m /\ z = <<<<"out", k>>, i>>
             \/ \E i \in DOMAIN subCh[k] : frame[subCh[k][i]] = m /\ z = <<<<"subCh", k>>, i>>
             \/ \E i \in DOMAIN subList[k] : frame[subList[k][i]] = m /\ z = <<<<"subList", k>>, i>>
    BY <1>1 DEF Owners, At
  <2> QED
    BY <2>1 DEF OwnAt
<1>2. ASSUME NEW c, NEW k, NEW i, OwnAt(c, k, i, m) PROVE <<<<c, k>>, i>> \in Owners(m)
  <2>1. CASE c = "store" /\ k = None /\ i \in DOMAIN storage[dest[m]] /\ storage[dest[m]][i] = m
    BY <2>1 DEF Owners, At
  <2>2. CASE c = "request" /\ k = None /\ i \in DOMAIN requestCh /\ requestCh[i].msg = m
    BY <2>2 DEF Owners, At
  <2>3. CASE c = "proc" /\ k = None /\ i \in DOMAIN procOut /\ procOut[i].msg = m
    BY <2>3 DEF Owners, At
  <2>4. CASE k \in Conns /\ c = "out" /\ i \in DOMAIN out[k] /\ out[k][i].msg = m
    BY <2>4 DEF Owners, At
  <2>5. CASE k \in Conns /\ c = "subCh" /\ i \in DOMAIN subCh[k] /\ frame[subCh[k][i]] = m
    BY <2>5 DEF Owners, At
  <2>6. CASE k \in Conns /\ c = "subList" /\ i \in DOMAIN subList[k] /\ frame[subList[k][i]] = m
    BY <2>6 DEF Owners, At
  <2> QED
    BY <1>2, <2>1, <2>2, <2>3, <2>4, <2>5, <2>6 DEF OwnAt
<1> QED
  BY <1>1, <1>2

\* The place e, o where the message sits that the owner has.
Fits(c, k, i, e, o, m) ==
  \/ c = "store" /\ k = None /\ e = "store" /\ i \in 1 .. Len(storage[dest[m]])
     /\ storage[dest[m]][i] = m
  \/ c = "request" /\ k = None /\ o = None /\ i \in 1 .. Len(requestCh)
     /\ (\/ e = "sent" /\ requestCh[i] = EnqueueReq(m)
         \/ e = "back" /\ requestCh[i] = RequeueReq(m))
  \/ c = "out" /\ k \in Conns /\ o = k /\ i \in 1 .. Len(out[k])
     /\ (\/ e = "sent" /\ out[k][i] = EnqueueReq(m)
         \/ e = "back" /\ out[k][i] = RequeueReq(m))
  \/ e = "held" /\ o \in Subs /\ i \in Nat
     /\ (\/ c = "proc" /\ k = None /\ Place("proc", i, o)
         \/ c = "subCh" /\ k = attr[o].conn /\ Place("sub", i, o)
         \/ c = "subList" /\ k = attr[o].conn /\ Place("list", i, o))

\* A request about a message.
LEMMA ReqOfMsg ==
  ASSUME NEW r \in Requests, NEW m \in Msgs, r.msg = m
  PROVE  r = EnqueueReq(m) \/ r = RequeueReq(m)
BY NoneAssumption DEF Requests, EnqueueReq, RequeueReq

\* An owner is a place where the message sits.
LEMMA OwnSits ==
  ASSUME ObjInv, NEW m \in Msgs, ToQueues(m), NEW c, NEW k, NEW i, OwnAt(c, k, i, m)
  PROVE  \E e, o : Sits(e, o, m) /\ Fits(c, k, i, e, o, m)
<1>0. \A o : /\ Sits("sent", o, m) <=> Asks(o, EnqueueReq(m))
             /\ Sits("back", o, m) <=> Asks(o, RequeueReq(m))
             /\ Sits("store", o, m) <=> o = None /\ Occ(storage[dest[m]], m)
             /\ Sits("held", o, m) <=> Has(o, m)
  BY SitsIs
<1>1. CASE c = "store" /\ k = None /\ i \in DOMAIN storage[dest[m]] /\ storage[dest[m]][i] = m
  <2>1. PICK l \in Seq(Msgs) : l = storage[dest[m]] /\ DOMAIN l = 1 .. Len(l)
    BY DEF ObjInv, TypeOK, ToQueues
  <2>2. i \in 1 .. Len(l) /\ l[i] = m
    BY <1>1, <2>1
  <2>3. Occ(l, m)
    BY <2>2 DEF Occ
  <2>4. Fits(c, k, i, "store", None, m)
    BY <1>1, <2>1, <2>2 DEF Fits
  <2> QED
    BY <1>0, <2>1, <2>3, <2>4
<1>2. CASE c = "request" /\ k = None /\ i \in DOMAIN requestCh /\ requestCh[i].msg = m
  <2>1. i \in 1 .. Len(requestCh) /\ requestCh[i] \in Requests
    BY <1>2 DEF ObjInv, TypeOK
  <2>2. PICK r \in Requests : r = requestCh[i] /\ (r = EnqueueReq(m) \/ r = RequeueReq(m))
    BY <1>2, <2>1, ReqOfMsg
  <2>3. Asks(None, r)
    BY <2>1, <2>2 DEF Asks, Occ
  <2>4. CASE r = EnqueueReq(m)
    <3>1. Fits(c, k, i, "sent", None, m)
      BY <1>2, <2>1, <2>2, <2>4 DEF Fits
    <3> QED
      BY <1>0, <2>3, <2>4, <3>1
  <2>5. CASE r = RequeueReq(m)
    <3>1. Fits(c, k, i, "back", None, m)
      BY <1>2, <2>1, <2>2, <2>5 DEF Fits
    <3> QED
      BY <1>0, <2>3, <2>5, <3>1
  <2> QED
    BY <2>2, <2>4, <2>5
<1>3. CASE c = "proc" /\ k = None /\ i \in DOMAIN procOut /\ procOut[i].msg = m
  <2>1. i \in 1 .. Len(procOut) /\ i \in Nat /\ procOut[i] \in Deliveries
    BY <1>3 DEF ObjInv, TypeOK
  <2>2. PICK s \in Subs : s = procOut[i].sub
    BY <2>1 DEF Deliveries
  <2>3. ProcAt(i, s) /\ Bears(s)
    BY <1>3, <2>1, <2>2 DEF ProcAt, Bears
  <2>4. frame[s] = m
    BY <1>3, <2>1, <2>2 DEF ObjInv, Framed, ProcFramed
  <2>5. Fits(c, k, i, "held", s, m)
    BY <1>3, <2>1, <2>3, PlaceIs DEF Fits
  <2> QED
    BY <1>0, <2>3, <2>4, <2>5 DEF Has
<1>4. CASE k \in Conns /\ c = "out" /\ i \in DOMAIN out[k] /\ out[k][i].msg = m
  <2>1. i \in 1 .. Len(out[k]) /\ out[k][i] \in Requests
    BY <1>4 DEF ObjInv, TypeOK
  <2>2. PICK r \in Requests : r = out[k][i] /\ (r = EnqueueReq(m) \/ r = RequeueReq(m))
    BY <1>4, <2>1, ReqOfMsg
  <2>3. Asks(k, r)
    BY <1>4, <2>1, <2>2 DEF Asks, Occ
  <2>4. CASE r = EnqueueReq(m)
    <3>1. Fits(c, k, i, "sent", k, m)
      BY <1>4, <2>1, <2>2, <2>4 DEF Fits
    <3> QED
      BY <1>0, <2>3, <2>4, <3>1
  <2>5. CASE r = RequeueReq(m)
    <3>1. Fits(c, k, i, "back", k, m)
      BY <1>4, <2>1, <2>2, <2>5 DEF Fits
    <3> QED
      BY <1>0, <2>3, <2>5, <3>1
  <2> QED
    BY <2>2, <2>4, <2>5
<1>5. CASE k \in Conns /\ c = "subCh" /\ i \in DOMAIN subCh[k] /\ frame[subCh[k][i]] = m
  <2>1. i \in 1 .. Len(subCh[k]) /\ i \in Nat /\ subCh[k][i] \in Subs
    BY <1>5 DEF ObjInv, TypeOK
  <2>2. PICK s \in Subs : s = subCh[k][i] /\ Occ(subCh[k], s)
    BY <2>1 DEF Occ
  <2>3. attr[s].conn = k /\ Bears(s)
    BY <1>5, <2>2, Carried
  <2>4. SubAt(i, s)
    BY <1>5, <2>1, <2>2, <2>3 DEF SubAt
  <2>5. Fits(c, k, i, "held", s, m)
    BY <1>5, <2>1, <2>3, <2>4, PlaceIs DEF Fits
  <2> QED
    BY <1>0, <1>5, <2>2, <2>3, <2>5 DEF Has
<1>6. CASE k \in Conns /\ c = "subList" /\ i \in DOMAIN subList[k] /\ frame[subList[k][i]] = m
  <2>1. i \in 1 .. Len(subList[k]) /\ i \in Nat /\ subList[k][i] \in Subs
    BY <1>6 DEF ObjInv, TypeOK
  <2>2. PICK s \in Subs : s = subList[k][i] /\ Occ(subList[k], s)
    BY <2>1 DEF Occ
  <2>3. attr[s].conn = k /\ Bears(s)
    BY <1>6, <2>2, Carried
  <2>4. ListAt(i, s)
    BY <1>6, <2>1, <2>2, <2>3 DEF ListAt
  <2>5. Fits(c, k, i, "held", s, m)
    BY <1>6, <2>1, <2>3, <2>4, PlaceIs DEF Fits
  <2> QED
    BY <1>0, <1>6, <2>2, <2>3, <2>5 DEF Has
<1> QED
  BY <1>1, <1>2, <1>3, <1>4, <1>5, <1>6 DEF OwnAt

\* The place determines the owner.
LEMMA FitsOne ==
  ASSUME ObjInv, NEW m \in Msgs, Kept(m), NEW e, NEW o, NEW c, NEW k, NEW i, NEW d, NEW h, NEW j,
         Fits(c, k, i, e, o, m), Fits(d, h, j, e, o, m)
  PROVE  c = d /\ k = h /\ i = j
<1>1. CASE e = "store"
  <2>1. Once(storage[dest[m]], m)
    BY DEF Kept, Counted
  <2> QED
    BY <1>1, <2>1 DEF Fits, Once
<1>2. CASE e = "sent" \/ e = "back"
  <2>1. PICK r : /\ e = "sent" => r = EnqueueReq(m)
                 /\ e = "back" => r = RequeueReq(m)
    BY <1>2
  <2>2. Once(requestCh, r) /\ \A x \in Conns : Once(out[x], r)
    BY <1>2, <2>1 DEF Kept, Counted, AskedOnce
  <2>3. None \notin Conns
    BY NoneAssumption
  <2>4. CASE o = None
    <3>1. /\ c = "request" /\ k = None /\ i \in 1 .. Len(requestCh) /\ requestCh[i] = r
          /\ d = "request" /\ h = None /\ j \in 1 .. Len(requestCh) /\ requestCh[j] = r
      BY <1>2, <2>1, <2>3, <2>4 DEF Fits
    <3> QED
      BY <2>2, <3>1 DEF Once
  <2>5. CASE o # None
    <3>1. /\ c = "out" /\ k = o /\ o \in Conns /\ i \in 1 .. Len(out[o]) /\ out[o][i] = r
          /\ d = "out" /\ h = o /\ j \in 1 .. Len(out[o]) /\ out[o][j] = r
      BY <1>2, <2>1, <2>3, <2>5 DEF Fits
    <3> QED
      BY <2>2, <3>1 DEF Once
  <2> QED
    BY <2>4, <2>5
<1>3. CASE e = "held"
  <2>1. o \in Subs /\ Unique(o)
    BY <1>3 DEF Fits, ObjInv, OnePlace
  <2>2. /\ i \in Nat /\ j \in Nat
        /\ \/ c = "proc" /\ k = None /\ Place("proc", i, o)
           \/ c = "subCh" /\ k = attr[o].conn /\ Place("sub", i, o)
           \/ c = "subList" /\ k = attr[o].conn /\ Place("list", i, o)
        /\ \/ d = "proc" /\ h = None /\ Place("proc", j, o)
           \/ d = "subCh" /\ h = attr[o].conn /\ Place("sub", j, o)
           \/ d = "subList" /\ h = attr[o].conn /\ Place("list", j, o)
    BY <1>3 DEF Fits
  <2>3. \A x, y \in Places, n, p \in Nat : Place(x, n, o) /\ Place(y, p, o) => x = y /\ n = p
    <3> SUFFICES ASSUME NEW x \in Places, NEW y \in Places, NEW n \in Nat, NEW p \in Nat,
                        Place(x, n, o), Place(y, p, o)
                 PROVE  x = y /\ n = p
      OBVIOUS
    <3>1. x = y
      BY <2>1 DEF Unique, In
    <3> QED
      BY <2>1, <3>1 DEF Unique, Single
  <2> QED
    BY <2>2, <2>3, PlaceNames
<1> QED
  BY <1>1, <1>2, <1>3 DEF Fits

\* A message has at most one owner, and none once it is settled.
LEMMA OwnersFew ==
  ASSUME ObjInv, NEW m \in Msgs, ToQueues(m), Kept(m)
  PROVE  Cardinality(Owners(m)) <= 1 /\ (m \in settled => Owners(m) = {})
<1>1. ASSUME NEW z \in Owners(m)
      PROVE  \E c, k, i, e, o : z = <<<<c, k>>, i>> /\ Sits(e, o, m) /\ Fits(c, k, i, e, o, m)
  <2>1. PICK c, k, i : z = <<<<c, k>>, i>> /\ OwnAt(c, k, i, m)
    BY OwnersAre
  <2> QED
    BY <2>1, OwnSits
<1>2. ASSUME NEW y \in Owners(m), NEW z \in Owners(m) PROVE y = z
  <2>1. PICK c, k, i, e, o : y = <<<<c, k>>, i>> /\ Sits(e, o, m) /\ Fits(c, k, i, e, o, m)
    BY <1>1
  <2>2. PICK d, h, j, g, p : z = <<<<d, h>>, j>> /\ Sits(g, p, m) /\ Fits(d, h, j, g, p, m)
    BY <1>1
  <2>3. e = g /\ o = p
    BY <2>1, <2>2 DEF Kept, OneSeat
  <2>4. Fits(c, k, i, e, o, m) /\ Fits(d, h, j, e, o, m)
    BY <2>1, <2>2, <2>3
  <2>5. c = d /\ k = h /\ i = j
    BY <2>4, FitsOne
  <2> QED
    BY <2>1, <2>2, <2>5
<1>3. Cardinality(Owners(m)) <= 1
  <2>1. CASE Owners(m) = {}
    BY <2>1, FS_EmptySet
  <2>2. CASE Owners(m) # {}
    <3>1. PICK z : z \in Owners(m)
      BY <2>2
    <3>2. Owners(m) = {z}
      BY <1>2, <3>1
    <3>3. Cardinality({z}) = 1
      BY FS_Singleton, Zenon
    <3> QED
      BY <3>2, <3>3
  <2> QED
    BY <2>1, <2>2
<1>4. m \in settled => Owners(m) = {}
  BY <1>1 DEF Kept, NoSeat
<1> QED
  BY <1>3, <1>4

\* A queue message is never in two places, and in none once it was written to an
\* auto subscription or acknowledged: no unsubscribe, ACK, NACK, failed write or
\* end of a connection, in any order with the processor, duplicates it.
THEOREM OneOwnerHolds == Spec => []OneOwner
<1>1. ObjInv /\ MsgInv => OneOwner
  BY OwnersFew DEF MsgInv, OneOwner, ToQueues
<1> QED
  BY <1>1, MsgHolds, PTL
-----------------------------------------------------------------------------
(***************************************************************************)
(* The server implements MessageQueue.  What the refinement mapping calls  *)
(* sent, back and held is where a message sits; a step of the server that  *)
(* moves no message is a stuttering step.                                  *)
(***************************************************************************)
Seated(c, m) == \E o : Sits(c, o, m)
InHands(k, m) == \E s \in Subs : attr[s].conn = k /\ Has(s, m)

\* The requests that are outstanding.
LEMMA RequestedAre ==
  ObjInv => \A r : r \in Requested <=> r \in Requests /\ \E o : Asks(o, r)
<1> SUFFICES ASSUME ObjInv, NEW r PROVE r \in Requested <=> r \in Requests /\ \E o : Asks(o, r)
  OBVIOUS
<1>1. /\ DOMAIN requestCh = 1 .. Len(requestCh)
      /\ \A k \in Conns : DOMAIN out[k] = 1 .. Len(out[k])
  BY DEF ObjInv, TypeOK
<1>2. /\ \A i \in 1 .. Len(requestCh) : requestCh[i] \in Requests
      /\ \A k \in Conns : \A i \in 1 .. Len(out[k]) : out[k][i] \in Requests
  BY DEF ObjInv, TypeOK
<1>3. r \in Requested <=> \/ \E i \in 1 .. Len(requestCh) : requestCh[i] = r
                          \/ \E k \in Conns : \E i \in 1 .. Len(out[k]) : out[k][i] = r
  <2>1. r \in Requested <=> \/ \E i \in DOMAIN requestCh : requestCh[i] = r
                            \/ \E k \in Conns : \E i \in DOMAIN out[k] : out[k][i] = r
    BY DEF Requested
  <2> QED
    BY <1>1, <2>1
<1>4. (\E o : Asks(o, r)) <=> \/ \E i \in 1 .. Len(requestCh) : requestCh[i] = r
                              \/ \E k \in Conns : \E i \in 1 .. Len(out[k]) : out[k][i] = r
  BY Zenon DEF Asks, Occ
<1> QED
  BY <1>2, <1>3, <1>4

\* The messages that an Enqueue or a Requeue asks a queue to take.
LEMMA AskedIs ==
  ObjInv => /\ \A m : m \in Asked("Enqueue") <=> m \in Msgs /\ ToQueues(m) /\ Seated("sent", m)
            /\ \A m : m \in Asked("Requeue") <=> m \in Msgs /\ ToQueues(m) /\ Seated("back", m)
<1> SUFFICES ASSUME ObjInv, NEW m
             PROVE  /\ m \in Asked("Enqueue") <=> m \in Msgs /\ ToQueues(m) /\ Seated("sent", m)
                    /\ m \in Asked("Requeue") <=> m \in Msgs /\ ToQueues(m) /\ Seated("back", m)
  OBVIOUS
<1>1. \A op : m \in Asked(op) <=> \E r \in Requested : r.op = op /\ r.msg = m /\ ToQueues(m)
  BY Zenon DEF Asked
<1>2. \A r \in Requests : /\ r.op = "Enqueue" /\ r.msg = m <=> m \in Msgs /\ r = EnqueueReq(m)
                          /\ r.op = "Requeue" /\ r.msg = m <=> m \in Msgs /\ r = RequeueReq(m)
  BY DEF Requests, EnqueueReq, RequeueReq
<1>3. m \in Msgs => EnqueueReq(m) \in Requests /\ RequeueReq(m) \in Requests
  BY ReqTypes
<1>4. \A r : r \in Requested <=> r \in Requests /\ \E o : Asks(o, r)
  BY RequestedAre
<1>5. /\ Seated("sent", m) <=> \E o : Asks(o, EnqueueReq(m))
      /\ Seated("back", m) <=> \E o : Asks(o, RequeueReq(m))
  BY SitsIs DEF Seated
<1>6. m \in Asked("Enqueue") <=> m \in Msgs /\ ToQueues(m) /\ EnqueueReq(m) \in Requested
  BY <1>1, <1>2, <1>3, <1>4
<1>7. m \in Asked("Requeue") <=> m \in Msgs /\ ToQueues(m) /\ RequeueReq(m) \in Requested
  BY <1>1, <1>2, <1>3, <1>4
<1> QED
  BY <1>3, <1>4, <1>5, <1>6, <1>7

\* The messages that a connection holds are borne by its objects.
LEMMA HeldIs ==
  ObjInv => \A k \in Conns : \A m : m \in HeldBy(k) <=> InHands(k, m)
<1> SUFFICES ASSUME ObjInv, NEW k \in Conns, NEW m PROVE m \in HeldBy(k) <=> InHands(k, m)
  OBVIOUS
<1>1. /\ DOMAIN procOut = 1 .. Len(procOut) /\ DOMAIN subCh[k] = 1 .. Len(subCh[k])
      /\ DOMAIN subList[k] = 1 .. Len(subList[k])
      /\ \A i \in 1 .. Len(procOut) : procOut[i].sub \in Subs
      /\ \A i \in 1 .. Len(subCh[k]) : subCh[k][i] \in Subs
      /\ \A i \in 1 .. Len(subList[k]) : subList[k][i] \in Subs
  <2>1. subCh[k] \in Seq(Subs) /\ subList[k] \in Seq(Subs) /\ procOut \in Seq(Deliveries)
    BY DEF ObjInv, TypeOK
  <2>2. \A i \in 1 .. Len(procOut) : procOut[i] \in Deliveries
    BY <2>1
  <2>3. \A p \in Deliveries : p.sub \in Subs
    BY DEF Deliveries
  <2>4. \A l \in Seq(Subs) : DOMAIN l = 1 .. Len(l) /\ \A i \in 1 .. Len(l) : l[i] \in Subs
    OBVIOUS
  <2>5. DOMAIN procOut = 1 .. Len(procOut)
    BY <2>1
  <2> QED
    BY <2>1, <2>2, <2>3, <2>4, <2>5
<1>2. m \in HeldBy(k) <=>
        \/ \E i \in 1 .. Len(procOut) : /\ attr[procOut[i].sub].conn = k
                                        /\ ToQueues(procOut[i].msg) /\ procOut[i].msg = m
        \/ \E i \in 1 .. Len(subCh[k]) : frame[subCh[k][i]] = m
        \/ \E i \in 1 .. Len(subList[k]) : frame[subList[k][i]] = m
  <2>1. m \in HeldBy(k) <=>
          \/ \E i \in DOMAIN procOut : /\ attr[procOut[i].sub].conn = k
                                       /\ ToQueues(procOut[i].msg) /\ procOut[i].msg = m
          \/ \E i \in DOMAIN subCh[k] : frame[subCh[k][i]] = m
          \/ \E i \in DOMAIN subList[k] : frame[subList[k][i]] = m
    BY Zenon DEF HeldBy, HandedTo, At
  <2> QED
    BY <1>1, <2>1
<1>3. \A i \in 1 .. Len(procOut) : ToQueues(procOut[i].msg) => frame[procOut[i].sub] = procOut[i].msg
  BY DEF ObjInv, Framed, ProcFramed, TypeOK
<1>4. ASSUME m \in HeldBy(k) PROVE InHands(k, m)
  <2>1. CASE \E i \in 1 .. Len(procOut) : /\ attr[procOut[i].sub].conn = k
                                          /\ ToQueues(procOut[i].msg) /\ procOut[i].msg = m
    <3>1. PICK i \in 1 .. Len(procOut) : /\ attr[procOut[i].sub].conn = k
                                         /\ ToQueues(procOut[i].msg) /\ procOut[i].msg = m
      BY <2>1
    <3>2. PICK s \in Subs : s = procOut[i].sub
      BY <1>1
    <3>3. Bears(s) /\ frame[s] = m
      BY <1>3, <3>1, <3>2 DEF Bears
    <3> QED
      BY <3>1, <3>2, <3>3 DEF InHands, Has
  <2>2. CASE \/ \E i \in 1 .. Len(subCh[k]) : frame[subCh[k][i]] = m
             \/ \E i \in 1 .. Len(subList[k]) : frame[subList[k][i]] = m
    <3>1. PICK s \in Subs : (Occ(subCh[k], s) \/ Occ(subList[k], s)) /\ frame[s] = m
      BY <1>1, <2>2 DEF Occ
    <3>2. attr[s].conn = k /\ Bears(s)
      BY <3>1, Carried
    <3> QED
      BY <3>1, <3>2 DEF InHands, Has
  <2> QED
    BY <1>2, <1>4, <2>1, <2>2
<1>5. ASSUME InHands(k, m) PROVE m \in HeldBy(k)
  <2>1. PICK s \in Subs : attr[s].conn = k /\ frame[s] = m /\ Bears(s)
    BY <1>5 DEF InHands, Has
  <2>2. CASE \E i \in 1 .. Len(procOut) : procOut[i].sub = s /\ ToQueues(procOut[i].msg)
    BY <1>2, <1>3, <2>1, <2>2
  <2>3. CASE Occ(subCh[k], s) \/ Occ(subList[k], s)
    BY <1>2, <2>1, <2>3 DEF Occ
  <2> QED
    BY <2>1, <2>2, <2>3 DEF Bears
<1> QED
  BY <1>4, <1>5

\* The same of the state after a step.
LEMMA MappedNext ==
  ObjInv' =>
    /\ (\A m : m \in Asked("Enqueue") <=> m \in Msgs /\ ToQueues(m) /\ Seated("sent", m))'
    /\ (\A m : m \in Asked("Requeue") <=> m \in Msgs /\ ToQueues(m) /\ Seated("back", m))'
    /\ (\A k \in Conns : \A m : m \in HeldBy(k) <=> InHands(k, m))'
BY AskedIs, HeldIs, PTL

FramesOf(S) == {frame[s] : s \in S}

\* What giving up does to the places that MessageQueue knows.
LEMMA GivesUpMaps ==
  ASSUME ObjInv, MsgInv, ObjInv', NEW k \in Conns, NEW A, NEW B, NEW D, GivesUp(k, A, B, D)
  PROVE  /\ dest' = dest /\ storage' = storage
         /\ settled' = settled \cup FramesOf(A) /\ dropped' = dropped \cup FramesOf(D)
         /\ Asked("Enqueue")' = Asked("Enqueue")
         /\ Asked("Requeue")' = Asked("Requeue") \cup FramesOf(B)
         /\ HeldBy(k)' = HeldBy(k) \ FramesOf(A \cup B \cup D)
         /\ \A h \in Conns : h # k => HeldBy(h)' = HeldBy(h)
         /\ FramesOf(A \cup B \cup D) \subseteq HeldBy(k)
         /\ FramesOf(B) \cap FramesOf(D) = {}
<1>1. /\ dest' = dest /\ storage' = storage
      /\ settled' = settled \cup FramesOf(A) /\ dropped' = dropped \cup FramesOf(D)
  BY DEF GivesUp, FramesOf
<1>2. \A s \in A \cup B \cup D : s \in Subs /\ Bears(s) /\ attr[s].conn = k
  BY DEF GivesUp
<1>3. \A s \in A \cup B \cup D : frame[s] \in Msgs /\ ToQueues(frame[s])
  BY <1>2, Bearer
<1>4. \A m \in Msgs : ToQueues(m)' <=> ToQueues(m)
  BY <1>1 DEF ToQueues
<1>5. \A m \in Msgs : /\ Seated("sent", m)' <=> Seated("sent", m)
                      /\ Seated("back", m)' <=> Seated("back", m) \/ m \in FramesOf(B)
  <2> SUFFICES ASSUME NEW m \in Msgs
               PROVE  /\ Seated("sent", m)' <=> Seated("sent", m)
                      /\ Seated("back", m)' <=> Seated("back", m) \/ m \in FramesOf(B)
    OBVIOUS
  <2>1. \A o : /\ Sits("sent", o, m)' <=> Sits("sent", o, m)
               /\ Sits("back", o, m)' <=> Sits("back", o, m) \/ (o = k /\ \E s \in B : frame[s] = m)
    BY GivesUpSits
  <2>2. m \in FramesOf(B) <=> \E s \in B : frame[s] = m
    BY DEF FramesOf
  <2> QED
    BY <2>1, <2>2 DEF Seated
<1>6. Asked("Enqueue")' = Asked("Enqueue")
  <2>1. \A m : m \in Asked("Enqueue")' <=> m \in Asked("Enqueue")
    BY <1>4, <1>5, AskedIs, MappedNext
  <2> QED
    BY <2>1
<1>7. Asked("Requeue")' = Asked("Requeue") \cup FramesOf(B)
  <2>1. \A m \in FramesOf(B) : m \in Msgs /\ ToQueues(m)
    BY <1>3 DEF FramesOf
  <2>2. \A m : m \in Asked("Requeue")' <=> m \in Asked("Requeue") \cup FramesOf(B)
    BY <1>4, <1>5, <2>1, AskedIs, MappedNext
  <2> QED
    BY <2>2
<1>8. \A s \in Subs : /\ Bears(s)' <=> Bears(s) /\ s \notin A \cup B \cup D
                      /\ Bears(s)' => frame'[s] = frame[s] /\ attr'[s] = attr[s]
  BY DEF GivesUp
<1>9. ASSUME NEW h \in Conns, NEW m
      PROVE  m \in HeldBy(h)' <=> \E s \in Subs : /\ attr[s].conn = h /\ frame[s] = m /\ Bears(s)
                                                  /\ s \notin A \cup B \cup D
  <2>1. m \in HeldBy(h)' <=> InHands(h, m)'
    BY MappedNext
  <2>2. InHands(h, m)' <=> \E s \in Subs : attr'[s].conn = h /\ frame'[s] = m /\ Bears(s)'
    BY DEF InHands, Has
  <2> QED
    BY <1>8, <2>1, <2>2
<1>10. ASSUME NEW h \in Conns, NEW m
       PROVE  m \in HeldBy(h) <=> \E s \in Subs : attr[s].conn = h /\ frame[s] = m /\ Bears(s)
  BY HeldIs DEF InHands, Has
<1>11. \A m : m \in FramesOf(A \cup B \cup D) <=> \E s \in A \cup B \cup D : frame[s] = m
  BY DEF FramesOf
<1>12. HeldBy(k)' = HeldBy(k) \ FramesOf(A \cup B \cup D)
  <2> SUFFICES ASSUME NEW m
               PROVE  m \in HeldBy(k)' <=> m \in HeldBy(k) /\ m \notin FramesOf(A \cup B \cup D)
    OBVIOUS
  <2>1. ASSUME m \in HeldBy(k)' PROVE m \in HeldBy(k) /\ m \notin FramesOf(A \cup B \cup D)
    <3>1. PICK s \in Subs : /\ attr[s].conn = k /\ frame[s] = m /\ Bears(s)
                            /\ s \notin A \cup B \cup D
      BY <1>9, <2>1
    <3>2. \A t \in A \cup B \cup D : frame[t] # m
      BY <1>2, <3>1, FramesDiffer
    <3> QED
      BY <1>10, <1>11, <3>1, <3>2
  <2>2. ASSUME m \in HeldBy(k), m \notin FramesOf(A \cup B \cup D) PROVE m \in HeldBy(k)'
    BY <1>9, <1>10, <1>11, <2>2
  <2> QED
    BY <2>1, <2>2
<1>13. ASSUME NEW h \in Conns, h # k PROVE HeldBy(h)' = HeldBy(h)
  <2>1. \A m : m \in HeldBy(h)' <=> m \in HeldBy(h)
    BY <1>2, <1>9, <1>10, <1>13
  <2> QED
    BY <2>1
<1>14. FramesOf(A \cup B \cup D) \subseteq HeldBy(k)
  BY <1>2, <1>10, <1>11
<1>15. FramesOf(B) \cap FramesOf(D) = {}
  <2> SUFFICES ASSUME NEW s \in B, NEW t \in D, frame[s] = frame[t] PROVE FALSE
    BY DEF FramesOf
  <2>1. s = t
    BY <1>2, FramesDiffer
  <2> QED
    BY <2>1 DEF GivesUp
<1> QED
  BY <1>1, <1>6, <1>7, <1>12, <1>13, <1>14, <1>15

\* What MessageQueue counts with.
LEMMA SameCardinality == \A L : MQ!Cardinality(L) = Cardinality(L)
BY Zenon DEF MQ!Cardinality, Cardinality

\* The connection settles what it gives up, or gives it back, at most one lost.
LEMMA GivesUpRefines ==
  ASSUME ObjInv, MsgInv, ObjInv', NEW k \in Conns, NEW S, NEW x,
         GivesUp(k, S, {}, {}) \/ GivesUp(k, {}, S, {}) \/ GivesUp(k, {}, S, {x}),
         panicked' = panicked
  PROVE  MQ!Next
<1>0. FramesOf({}) = {} /\ Cardinality({}) = 0 /\ {} \in SUBSET HeldBy(k)
  BY FS_EmptySet DEF FramesOf
<1>1. CASE GivesUp(k, S, {}, {})
  <2>1. /\ dest' = dest /\ storage' = storage
        /\ settled' = settled \cup FramesOf(S) /\ dropped' = dropped \cup FramesOf({})
        /\ Asked("Enqueue")' = Asked("Enqueue")
        /\ Asked("Requeue")' = Asked("Requeue") \cup FramesOf({})
        /\ HeldBy(k)' = HeldBy(k) \ FramesOf(S \cup {} \cup {})
        /\ \A h \in Conns : h # k => HeldBy(h)' = HeldBy(h)
        /\ FramesOf(S \cup {} \cup {}) \subseteq HeldBy(k)
    BY <1>1, GivesUpMaps
  <2>2. S \cup {} \cup {} = S
    OBVIOUS
  <2>3. MQ!Settle(k, FramesOf(S))
    BY <1>0, <2>1, <2>2 DEF MQ!Settle, ToQueues
  <2>4. FramesOf(S) \in SUBSET HeldBy(k)
    BY <2>1, <2>2
  <2> QED
    BY <2>3, <2>4 DEF MQ!Next
<1>2. CASE GivesUp(k, {}, S, {})
  <2>1. /\ dest' = dest /\ storage' = storage
        /\ settled' = settled \cup FramesOf({}) /\ dropped' = dropped \cup FramesOf({})
        /\ Asked("Enqueue")' = Asked("Enqueue")
        /\ Asked("Requeue")' = Asked("Requeue") \cup FramesOf(S)
        /\ HeldBy(k)' = HeldBy(k) \ FramesOf({} \cup S \cup {})
        /\ \A h \in Conns : h # k => HeldBy(h)' = HeldBy(h)
        /\ FramesOf({} \cup S \cup {}) \subseteq HeldBy(k)
    BY <1>2, GivesUpMaps
  <2>2. {} \cup S \cup {} = S /\ FramesOf(S) \cup {} = FramesOf(S)
    OBVIOUS
  <2>3. MQ!GiveBack(k, FramesOf(S), {})
    BY <1>0, <2>1, <2>2 DEF MQ!GiveBack, ToQueues
  <2>4. FramesOf(S) \in SUBSET HeldBy(k) /\ FramesOf(S) \cap {} = {} /\ MQ!Cardinality({}) <= 1
    BY <1>0, <2>1, <2>2, SameCardinality
  <2> QED
    BY <1>0, <2>3, <2>4 DEF MQ!Next
<1>3. CASE GivesUp(k, {}, S, {x})
  <2>1. /\ dest' = dest /\ storage' = storage
        /\ settled' = settled \cup FramesOf({}) /\ dropped' = dropped \cup FramesOf({x})
        /\ Asked("Enqueue")' = Asked("Enqueue")
        /\ Asked("Requeue")' = Asked("Requeue") \cup FramesOf(S)
        /\ HeldBy(k)' = HeldBy(k) \ FramesOf({} \cup S \cup {x})
        /\ \A h \in Conns : h # k => HeldBy(h)' = HeldBy(h)
        /\ FramesOf({} \cup S \cup {x}) \subseteq HeldBy(k)
        /\ FramesOf(S) \cap FramesOf({x}) = {}
    BY <1>3, GivesUpMaps
  <2>2. FramesOf({} \cup S \cup {x}) = FramesOf(S) \cup FramesOf({x})
    BY DEF FramesOf
  <2>3. MQ!GiveBack(k, FramesOf(S), FramesOf({x}))
    BY <1>0, <2>1, <2>2 DEF MQ!GiveBack, ToQueues
  <2>4. FramesOf({x}) = {frame[x]}
    BY DEF FramesOf
  <2>5. Cardinality({frame[x]}) = 1
    BY FS_Singleton, Zenon
  <2>6. FramesOf(S) \in SUBSET HeldBy(k) /\ FramesOf({x}) \in SUBSET HeldBy(k)
    BY <2>1, <2>2
  <2>7. MQ!Cardinality(FramesOf({x})) <= 1
    BY <2>4, <2>5, SameCardinality
  <2> QED
    BY <2>1, <2>3, <2>6, <2>7 DEF MQ!Next
<1> QED
  BY <1>1, <1>2, <1>3

\* The places of a message that stays.
LEMMA SeatCalm ==
  ASSUME NEW m, Calm(m)
  PROVE  \A d : Seated(d, m)' <=> Seated(d, m)
BY DEF Calm, Seated

\* The places of a message that moves.
LEMMA SeatGoes ==
  ASSUME NEW m, Kept(m), NEW c, NEW o, Sits(c, o, m), NEW e, NEW p, Goes(m, e, p)
  PROVE  \A d : (Seated(d, m) <=> d = c) /\ (Seated(d, m)' <=> d = e)
BY DEF Kept, OneSeat, Goes, Seated

\* What the requests and the connections have when the places of the messages
\* do not change.
LEMMA SameMaps ==
  ASSUME ObjInv, ObjInv', dest' = dest
  PROVE  /\ (\A m \in Msgs : ToQueues(m) => (Seated("sent", m)' <=> Seated("sent", m)))
              => Asked("Enqueue")' = Asked("Enqueue")
         /\ (\A m \in Msgs : ToQueues(m) => (Seated("back", m)' <=> Seated("back", m)))
              => Asked("Requeue")' = Asked("Requeue")
         /\ attr' = attr /\ (\A m, s : Has(s, m)' <=> Has(s, m))
              => \A k \in Conns : HeldBy(k)' = HeldBy(k)
<1>1. \A m \in Msgs : ToQueues(m)' <=> ToQueues(m)
  BY DEF ToQueues
<1>2. ASSUME \A m \in Msgs : ToQueues(m) => (Seated("sent", m)' <=> Seated("sent", m))
      PROVE  Asked("Enqueue")' = Asked("Enqueue")
  <2>1. \A m : m \in Asked("Enqueue")' <=> m \in Asked("Enqueue")
    BY <1>1, <1>2, AskedIs, MappedNext
  <2> QED
    BY <2>1
<1>3. ASSUME \A m \in Msgs : ToQueues(m) => (Seated("back", m)' <=> Seated("back", m))
      PROVE  Asked("Requeue")' = Asked("Requeue")
  <2>1. \A m : m \in Asked("Requeue")' <=> m \in Asked("Requeue")
    BY <1>1, <1>3, AskedIs, MappedNext
  <2> QED
    BY <2>1
<1>4. ASSUME attr' = attr, \A m, s : Has(s, m)' <=> Has(s, m), NEW k \in Conns
      PROVE  HeldBy(k)' = HeldBy(k)
  <2>1. \A m : InHands(k, m)' <=> InHands(k, m)
    BY <1>4 DEF InHands
  <2>2. \A m : m \in HeldBy(k)' <=> m \in HeldBy(k)
    BY <2>1, HeldIs, MappedNext
  <2> QED
    BY <2>2
<1> QED
  BY <1>2, <1>3, <1>4

\* A connection that is handed a message holds that one more.
LEMMA HandedMaps ==
  ASSUME ObjInv, ObjInv', attr' = attr, NEW x \in Subs, attr[x].conn \in Conns, NEW n,
         \A m, o : Has(o, m)' <=> Has(o, m) \/ (o = x /\ m = n)
  PROVE  \A k \in Conns : HeldBy(k)' = IF k = attr[x].conn THEN HeldBy(k) \cup {n} ELSE HeldBy(k)
<1> SUFFICES ASSUME NEW k \in Conns, NEW m
             PROVE  m \in HeldBy(k)' <=> m \in HeldBy(k) \/ (k = attr[x].conn /\ m = n)
  OBVIOUS
<1>1. InHands(k, m)' <=> InHands(k, m) \/ (k = attr[x].conn /\ m = n)
  BY DEF InHands
<1> QED
  BY <1>1, HeldIs, MappedNext

\* A step that moves no message between the places that MessageQueue knows.
LEMMA SameRefines ==
  ASSUME ObjInv, ObjInv', UNCHANGED <<dest, storage, settled, dropped, panicked, attr>>,
         \A m \in Msgs : ToQueues(m) => /\ Seated("sent", m)' <=> Seated("sent", m)
                                        /\ Seated("back", m)' <=> Seated("back", m),
         \A m, s : Has(s, m)' <=> Has(s, m)
  PROVE  UNCHANGED MQ!qvars
<1>1. /\ Asked("Enqueue")' = Asked("Enqueue") /\ Asked("Requeue")' = Asked("Requeue")
      /\ \A k \in Conns : HeldBy(k)' = HeldBy(k)
  BY SameMaps
<1>2. \A m \in Msgs : ToQueues(m)' <=> ToQueues(m)
  BY DEF ToQueues
<1> QED
  BY <1>1, <1>2 DEF MQ!qvars

\* A request moves from a connection to requestChannel.
LEMMA PutRefines ==
  ASSUME ObjInv, MsgInv, ObjInv', NEW k \in Conns, PutRequest(k)
  PROVE  UNCHANGED MQ!qvars
<1>1. UNCHANGED <<dest, storage, settled, dropped, panicked, attr, frame, procOut, subCh, subList>>
  BY DEF PutRequest, subVars, histVars
<1>2. \A m, s : Has(s, m)' <=> Has(s, m)
  BY <1>1 DEF Has, Bears, ToQueues
<1>3. ASSUME NEW m \in Msgs, ToQueues(m)
      PROVE  \A d : Seated(d, m)' <=> Seated(d, m)
  <2>1. Kept(m)
    BY <1>3 DEF MsgInv
  <2>2. \/ Calm(m)
        \/ Sits("sent", k, m) /\ Goes(m, "sent", None)
        \/ Sits("back", k, m) /\ Goes(m, "back", None)
    BY <1>3, PutKeeps
  <2> QED
    BY <2>1, <2>2, SeatCalm, SeatGoes
<1> QED
  BY <1>1, <1>2, <1>3, SameRefines

\* A step of the processor that neither takes a frame from a queue nor gives it one.
LEMMA IdleRefines ==
  ASSUME ObjInv, MsgInv, ObjInv', Idle, panicked' = panicked
  PROVE  UNCHANGED MQ!qvars
<1>1. UNCHANGED <<dest, storage, settled, dropped, attr, frame>> /\ \A s \in Subs : Bears(s)' <=> Bears(s)
  BY DEF Idle
<1>2. \A m, s : Has(s, m)' <=> Has(s, m)
  BY <1>1 DEF Has
<1>3. \A m \in Msgs : ToQueues(m) => \A d : Seated(d, m)' <=> Seated(d, m)
  BY IdleKeeps, SeatCalm
<1> QED
  BY <1>1, <1>2, <1>3, SameRefines

\* SEND to a queue is MessageQueue's Send; SEND to a topic does not concern it.
LEMMA SendRefines ==
  ASSUME ObjInv, MsgInv, ObjInv', NEW k \in Conns, HandleSend(k)
  PROVE  MQ!Next \/ UNCHANGED MQ!qvars
<1>1. UNCHANGED <<storage, settled, dropped, panicked, attr, frame>>
  BY DEF HandleSend, subVars, procVars
<1>2. PICK m \in Msgs, d \in Dests :
        /\ dest[m] = None /\ dest' = [dest EXCEPT ![m] = d]
        /\ d \in Queues => Goes(m, "sent", k)
        /\ \A n \in Msgs \ {m} : ToQueues(n) => Calm(n)
        /\ \A s \in Subs : ~Has(s, m) /\ (Bears(s)' <=> Bears(s))
  BY SendKeeps
<1>3. dest'[m] = d /\ \A n \in Msgs : n # m => dest'[n] = dest[n]
  BY <1>2 DEF ObjInv, TypeOK
<1>4. ~ToQueues(m)
  BY <1>2, NoneAssumption DEF ToQueues, Dests
<1>5. (ToQueues(m)' <=> d \in Queues) /\ \A n \in Msgs : n # m => (ToQueues(n)' <=> ToQueues(n))
  BY <1>3 DEF ToQueues
<1>6. \A h \in Conns : HeldBy(h)' = HeldBy(h)
  <2>1. \A n, s : Has(s, n)' <=> Has(s, n)
    BY <1>1, <1>2 DEF Has
  <2> SUFFICES ASSUME NEW h \in Conns, NEW n PROVE n \in HeldBy(h)' <=> n \in HeldBy(h)
    OBVIOUS
  <2>2. InHands(h, n)' <=> InHands(h, n)
    BY <1>1, <2>1 DEF InHands
  <2> QED
    BY <2>2, HeldIs, MappedNext
<1>7. \A n \in Msgs : n # m /\ ToQueues(n) => \A c : Seated(c, n)' <=> Seated(c, n)
  BY <1>2, SeatCalm
<1>8. d \in Queues => Seated("sent", m)' /\ ~Seated("back", m)'
  BY <1>2 DEF Goes, Seated
<1>9. Asked("Requeue")' = Asked("Requeue")
  <2>1. \A n : n \in Asked("Requeue")' <=> n \in Asked("Requeue")
    BY <1>4, <1>5, <1>7, <1>8, AskedIs, MappedNext
  <2> QED
    BY <2>1
<1>10. CASE d \in Queues
  <2>1. \A n : n \in Asked("Enqueue")' <=> n \in Asked("Enqueue") \cup {m}
    BY <1>5, <1>7, <1>8, <1>10, AskedIs, MappedNext
  <2>2. Asked("Enqueue")' = Asked("Enqueue") \cup {m}
    BY <2>1
  <2>3. \A n \in Msgs : (IF ToQueues(n)' THEN dest'[n] ELSE None) =
                        IF n = m THEN d ELSE IF ToQueues(n) THEN dest[n] ELSE None
    BY <1>3, <1>5, <1>10
  <2>4. MQ!Send(m, d)
    BY <1>1, <1>4, <1>6, <1>9, <2>2, <2>3 DEF MQ!Send
  <2> QED
    BY <1>10, <2>4 DEF MQ!Next
<1>11. CASE d \notin Queues
  <2>1. \A n : n \in Asked("Enqueue")' <=> n \in Asked("Enqueue")
    BY <1>4, <1>5, <1>7, <1>11, AskedIs, MappedNext
  <2>2. Asked("Enqueue")' = Asked("Enqueue")
    BY <2>1
  <2>3. \A n \in Msgs : (IF ToQueues(n)' THEN dest'[n] ELSE None) =
                        IF ToQueues(n) THEN dest[n] ELSE None
    BY <1>3, <1>4, <1>5, <1>11
  <2> QED
    BY <1>1, <1>6, <1>9, <2>2, <2>3 DEF MQ!qvars
<1> QED
  BY <1>10, <1>11

\* SUBSCRIBE that finds a stored frame is Take.
LEMMA HandsRefines ==
  ASSUME ObjInv, MsgInv, ObjInv', ServeSubscribe, ~UNCHANGED <<storage, frame, procOut>>,
         panicked' = panicked
  PROVE  MQ!Next
<1>1. UNCHANGED <<out, dest, attr, settled, dropped>>
  BY HandsKeeps
<1>2. PICK x, q : /\ Hands(x, q) /\ Goes(Head(storage[q]), "held", x)
                  /\ Head(storage[q]) \in Msgs /\ ToQueues(Head(storage[q]))
                  /\ \A m \in Msgs : ToQueues(m) /\ m # Head(storage[q]) => Calm(m)
                  /\ \A m, o : Has(o, m)' <=> Has(o, m) \/ (o = x /\ m = Head(storage[q]))
  BY HandsKeeps
<1>3. /\ x \in Subs /\ q \in Queues /\ attr[x].conn \in Conns
      /\ storage[q] # <<>> /\ storage' = [storage EXCEPT ![q] = Tail(@)]
  BY <1>2 DEF Hands
<1>4. PICK n \in Msgs : n = Head(storage[q]) /\ ToQueues(n)
  BY <1>2
<1>5. Sits("store", None, n)
  <2>1. PICK l \in Seq(Msgs) : l = storage[q]
    BY <1>3 DEF ObjInv, TypeOK
  <2>2. Head(l) = l[1] /\ 1 \in 1 .. Len(l)
    BY <1>3, <2>1, HeadFacts
  <2>3. dest[n] = q /\ Occ(l, n)
    BY <1>3, <1>4, <2>1, <2>2 DEF ObjInv, Homes, HomeStore, Occ
  <2> QED
    BY <2>1, <2>3 DEF Sits
<1>6. Kept(n)
  BY <1>4 DEF MsgInv
<1>7. \A m \in Msgs : ToQueues(m) => /\ Seated("sent", m)' <=> Seated("sent", m)
                                     /\ Seated("back", m)' <=> Seated("back", m)
  <2>1. \A d : (Seated(d, n) <=> d = "store") /\ (Seated(d, n)' <=> d = "held")
    BY <1>2, <1>4, <1>5, <1>6, SeatGoes
  <2>2. "sent" # "store" /\ "sent" # "held" /\ "back" # "store" /\ "back" # "held"
    OBVIOUS
  <2> QED
    BY <1>2, <1>4, <2>1, <2>2, SeatCalm
<1>8. Asked("Enqueue")' = Asked("Enqueue") /\ Asked("Requeue")' = Asked("Requeue")
  BY <1>1, <1>7, SameMaps
<1>9. \A k \in Conns : HeldBy(k)' = IF k = attr[x].conn THEN HeldBy(k) \cup {n} ELSE HeldBy(k)
  BY <1>1, <1>2, <1>3, <1>4, HandedMaps
<1>10. \A m \in Msgs : ToQueues(m)' <=> ToQueues(m)
  BY <1>1 DEF ToQueues
<1>11. MQ!Take(attr[x].conn, q)
  BY <1>1, <1>3, <1>4, <1>8, <1>9, <1>10 DEF MQ!Take
<1> QED
  BY <1>3, <1>11 DEF MQ!Next

\* A frame that comes to its queue is accepted or put back: stored, or handed on
\* past an empty queue.
LEMMA ToQueueRefines ==
  ASSUME ObjInv, MsgInv, NobodyWaits, ObjInv', ServeEnqueueQueue \/ ServeRequeue,
         panicked' = panicked
  PROVE  MQ!Next
<1>1. UNCHANGED <<out, dest, attr, settled, dropped>>
  BY ToQueueKeeps
<1>2. PICK m \in Msgs : /\ ToQueues(m)
                        /\ ServeEnqueueQueue => Sits("sent", None, m)
                        /\ ServeRequeue => Sits("back", None, m)
                        /\ Stored(m) \/ \E x : Passed(m, x)
                        /\ \A n \in Msgs : ToQueues(n) /\ n # m => Calm(n)
  BY ToQueueKeeps
<1>3. PICK q \in Queues : q = dest[m]
  BY <1>2 DEF ToQueues
<1>4. Kept(m)
  BY <1>2 DEF MsgInv
<1>5. \A n \in Msgs : ToQueues(n)' <=> ToQueues(n)
  BY <1>1 DEF ToQueues
<1>6. PICK e : (e = "store" \/ e = "held") /\ \E p : Goes(m, e, p)
  BY <1>2 DEF Stored, Passed
<1>7. \A n \in Msgs : ToQueues(n) /\ n # m => \A d : Seated(d, n)' <=> Seated(d, n)
  BY <1>2, SeatCalm
<1>8. "sent" # "store" /\ "sent" # "held" /\ "back" # "store" /\ "back" # "held" /\ "sent" # "back"
  OBVIOUS
<1>9. \/ storage' = [storage EXCEPT ![q] = IF ServeEnqueueQueue THEN Append(storage[q], m)
                                                               ELSE <<m>> \o storage[q]]
         /\ \A k \in Conns : HeldBy(k)' = HeldBy(k)
      \/ storage[q] = <<>> /\ storage' = storage
         /\ \E h \in Conns : \A k \in Conns :
              HeldBy(k)' = IF k = h THEN HeldBy(k) \cup {m} ELSE HeldBy(k)
  <2>1. CASE Stored(m)
    <3>1. ~(ServeEnqueueQueue /\ ServeRequeue)
      BY DEF ServeEnqueueQueue, ServeRequeue, Serve
    <3>2. \A k \in Conns : HeldBy(k)' = HeldBy(k)
      BY <1>1, <2>1, SameMaps DEF Stored
    <3> QED
      BY <1>3, <2>1, <3>1, <3>2 DEF Stored, Behind, Before
  <2>2. ASSUME NEW x, Passed(m, x)
        PROVE  /\ storage[q] = <<>> /\ storage' = storage
               /\ \E h \in Conns : \A k \in Conns :
                    HeldBy(k)' = IF k = h THEN HeldBy(k) \cup {m} ELSE HeldBy(k)
    <3>1. /\ x \in Subs /\ attr[x].conn \in Conns /\ waiting[q] # <<>> /\ storage' = storage
          /\ \A n, o : Has(o, n)' <=> Has(o, n) \/ (o = x /\ n = m)
      BY <1>3, <2>2 DEF Passed
    <3>2. storage[q] = <<>>
      BY <3>1 DEF NobodyWaits
    <3>3. \A k \in Conns : HeldBy(k)' = IF k = attr[x].conn THEN HeldBy(k) \cup {m} ELSE HeldBy(k)
      BY <1>1, <3>1, HandedMaps
    <3> QED
      BY <3>1, <3>2, <3>3
  <2> QED
    BY <1>2, <2>1, <2>2
<1>10. CASE ServeEnqueueQueue
  <2>1. \A d : (Seated(d, m) <=> d = "sent") /\ (Seated(d, m)' <=> d = e)
    BY <1>2, <1>4, <1>6, <1>10, SeatGoes
  <2>2. \A n : n \in Asked("Enqueue")' <=> n \in Asked("Enqueue") \ {m}
    BY <1>5, <1>6, <1>7, <1>8, <2>1, AskedIs, MappedNext
  <2>3. Asked("Enqueue")' = Asked("Enqueue") \ {m} /\ m \in Asked("Enqueue")
    BY <1>2, <2>1, <2>2, AskedIs
  <2>4. Asked("Requeue")' = Asked("Requeue")
    BY <1>1, <1>6, <1>7, <1>8, <2>1, SameMaps
  <2>5. MQ!Store(m, Append(storage[q], m))
    BY <1>2, <1>3, <1>9, <1>10 DEF MQ!Store
  <2>6. MQ!Accept(m)
    BY <1>1, <1>2, <1>3, <1>5, <2>3, <2>4, <2>5 DEF MQ!Accept
  <2> QED
    BY <2>3, <2>6 DEF MQ!Next
<1>11. CASE ~ServeEnqueueQueue
  <2>1. \A d : (Seated(d, m) <=> d = "back") /\ (Seated(d, m)' <=> d = e)
    BY <1>2, <1>4, <1>6, <1>11, SeatGoes
  <2>2. \A n : n \in Asked("Requeue")' <=> n \in Asked("Requeue") \ {m}
    BY <1>5, <1>6, <1>7, <1>8, <2>1, AskedIs, MappedNext
  <2>3. Asked("Requeue")' = Asked("Requeue") \ {m} /\ m \in Asked("Requeue")
    BY <1>2, <2>1, <2>2, AskedIs
  <2>4. Asked("Enqueue")' = Asked("Enqueue")
    BY <1>1, <1>6, <1>7, <1>8, <2>1, SameMaps
  <2>5. MQ!Store(m, <<m>> \o storage[q])
    BY <1>2, <1>3, <1>9, <1>11 DEF MQ!Store
  <2>6. MQ!PutBack(m)
    BY <1>1, <1>2, <1>3, <1>5, <2>3, <2>4, <2>5 DEF MQ!PutBack
  <2> QED
    BY <2>3, <2>6 DEF MQ!Next
<1> QED
  BY <1>10, <1>11

\* Every step of the server is one of MessageQueue, or changes nothing of it.
LEMMA NextRefines ==
  ASSUME ObjInv, MsgInv, NobodyWaits, ObjInv', [Next]_vars
  PROVE  MQ!Next \/ UNCHANGED MQ!qvars
<1>1. CASE UNCHANGED vars
  <2>1. UNCHANGED <<out, dest, attr, frame, storage, settled, dropped, requestCh, procOut,
                    subCh, subList, panicked>>
    BY <1>1 DEF vars, connVars, subVars, procVars, histVars
  <2>2. Idle
    BY <2>1 DEF Idle, Bears, ToQueues
  <2> QED
    BY <2>1, <2>2, IdleRefines
<1>2. CASE Next /\ panicked' # panicked
  <2>1. panicked = None
    <3>1. ASSUME NEW k \in Conns,
                 Handle(k) \/ WriteOut(k) \/ Internal(k) \/ Leave(k) \/ WriteFail(k)
          PROVE  panicked = None
      <4>1. CASE Handle(k)
        BY <4>1 DEF Handle, HandleSubscribe, HandleUnsubscribe, HandleSend, HandleAck, HandleNack,
                    Running
      <4>2. CASE WriteOut(k) \/ Leave(k) \/ WriteFail(k)
        BY <4>2 DEF WriteOut, WriteAuto, WriteForAck, WriteTopic, Leave, WriteFail, Running
      <4>3. CASE Internal(k)
        BY <4>3 DEF Internal, PutRequest, SendBack, Discard, DrainOne, DrainEnd, Running
      <4> QED
        BY <3>1, <4>1, <4>2, <4>3
    <3>2. CASE Proc
      BY <3>2 DEF Proc, ServeSubscribe, ServeUnsubscribe, ServeEnqueueQueue, ServeRequeue,
                  ServeEnqueueTopic, ServeOther, ProcSend, Serve
    <3> QED
      BY <1>2, <3>1, <3>2 DEF Next
  <2>2. MQ!Panic
    BY <1>2, <2>1 DEF MQ!Panic
  <2> QED
    BY <2>2 DEF MQ!Next
<1>3. ASSUME panicked' = panicked, NEW k \in Conns,
             Handle(k) \/ WriteOut(k) \/ Internal(k) \/ Leave(k) \/ WriteFail(k)
      PROVE  MQ!Next \/ UNCHANGED MQ!qvars
  <2>1. CASE HandleSend(k)
    BY <2>1, SendRefines
  <2>2. CASE PutRequest(k)
    BY <2>2, PutRefines
  <2>3. CASE ~HandleSend(k) /\ ~PutRequest(k)
    <3>1. PICK S, x : \/ GivesUp(k, S, {}, {}) \/ GivesUp(k, {}, S, {})
                      \/ GivesUp(k, {}, S, {x})
      BY <1>3, <2>3, ConnGivesUp DEF Handle, Internal
    <3> QED
      BY <1>3, <3>1, GivesUpRefines
  <2> QED
    BY <2>1, <2>2, <2>3
<1>4. CASE panicked' = panicked /\ Proc
  <2>1. CASE ServeSubscribe /\ ~UNCHANGED <<storage, frame, procOut>>
    BY <1>4, <2>1, HandsRefines
  <2>2. CASE ServeEnqueueQueue \/ ServeRequeue
    BY <1>4, <2>2, ToQueueRefines
  <2>3. CASE \/ ServeSubscribe /\ UNCHANGED <<storage, frame, procOut>>
             \/ ServeOther \/ ServeUnsubscribe \/ ServeEnqueueTopic \/ ProcSend
    <3>1. Idle
      BY <2>3, ServeIdle, ProcSendIdle
    <3> QED
      BY <1>4, <3>1, IdleRefines
  <2> QED
    BY <1>4, <2>1, <2>2, <2>3 DEF Proc
<1> QED
  BY <1>1, <1>2, <1>3, <1>4 DEF Next

\* In the beginning there is no message.
LEMMA InitRefines ==
  ASSUME Init, ObjInv
  PROVE  MQ!Init
<1>1. /\ panicked = None /\ settled = {} /\ dropped = {} /\ requestCh = <<>> /\ procOut = <<>>
      /\ storage = [q \in Queues |-> <<>>]
      /\ \A k \in Conns : out[k] = <<>> /\ subCh[k] = <<>> /\ subList[k] = <<>>
      /\ \A m \in Msgs : dest[m] = None
  BY DEF Init
<1>2. \A m \in Msgs : ~ToQueues(m)
  BY <1>1, NoneAssumption DEF ToQueues, Dests
<1>3. Asked("Enqueue") = {} /\ Asked("Requeue") = {}
  BY <1>2, AskedIs
<1>4. ASSUME NEW k \in Conns PROVE HeldBy(k) = {}
  <2>1. \A m : ~InHands(k, m)
    BY <1>1 DEF InHands, Has, Bears, Occ
  <2> QED
    BY <2>1, HeldIs
<1> QED
  BY <1>1, <1>2, <1>3, <1>4 DEF MQ!Init

\* The server implements MessageQueue: a queue is served in order, what comes
\* back goes to the front, nothing is handed on past a stored frame, and each
\* message is settled or lost once, whatever the connections do.
THEOREM QueueRefinementHolds == Spec => QueueRefinement
<1>1. Init => MQ!Init
  BY InitObj, InitRefines
<1>2. ObjInv /\ MsgInv /\ NobodyWaits /\ ObjInv' /\ [Next]_vars => [MQ!Next]_(MQ!qvars)
  BY NextRefines
<1> QED
  BY <1>1, <1>2, MsgHolds, NobodyWaitsHolds, PTL DEF Spec, QueueRefinement, MQ!Spec
-----------------------------------------------------------------------------
(***************************************************************************)
(* No message is lost but in the two ways that NoLoss names.  A connection *)
(* that has begun to close waits for no acknowledgement any more.          *)
(***************************************************************************)
NoneAcking == \A k \in Conns : phase[k] # "run" => subList[k] = <<>>

\* A connection empties its list when it leaves processLoop, and adds to it only
\* while it runs.
LEMMA NoneAckingStep ==
  ASSUME ObjInv, NoneAcking, [Next]_vars
  PROVE  NoneAcking'
<1>1. CASE UNCHANGED <<phase, subList>>
  BY <1>1 DEF NoneAcking
<1>2. ASSUME NEW k \in Conns, Running(k), phase' = phase,
             \E l : subList' = [subList EXCEPT ![k] = l]
      PROVE  NoneAcking'
  <2>1. phase[k] = "run" /\ \A h \in Conns : h # k => subList'[h] = subList[h]
    BY <1>2 DEF Running, ObjInv, TypeOK
  <2> QED
    BY <1>2, <2>1 DEF NoneAcking
<1>3. ASSUME NEW k \in Conns, CleanupConn(k) PROVE NoneAcking'
  <2>1. /\ subList'[k] = <<>>
        /\ \A h \in Conns : h # k => subList'[h] = subList[h] /\ phase'[h] = phase[h]
    BY <1>3 DEF CleanupConn, ObjInv, TypeOK
  <2> QED
    BY <2>1 DEF NoneAcking
<1>4. ASSUME NEW k \in Conns, phase[k] # "run", subList' = subList,
             \E p : phase' = [phase EXCEPT ![k] = p]
      PROVE  NoneAcking'
  <2>1. \A h \in Conns : h # k => phase'[h] = phase[h]
    BY <1>4 DEF ObjInv, TypeOK
  <2> QED
    BY <1>4, <2>1 DEF NoneAcking
<1>5. ASSUME NEW k \in Conns, HandleAck(k) \/ HandleNack(k) \/ WriteForAck(k) PROVE NoneAcking'
  <2>1. Running(k) /\ phase' = phase
    BY <1>5 DEF HandleAck, HandleNack, WriteForAck
  <2>2. CASE WriteForAck(k)
    <3>1. \E l : subList' = [subList EXCEPT ![k] = l]
      BY <2>2 DEF WriteForAck
    <3> QED
      BY <1>2, <2>1, <3>1
  <2>3. CASE HandleAck(k) \/ HandleNack(k)
    <3>1. PICK I : TakeOut(k, I)
      BY <2>3 DEF HandleAck, HandleNack
    <3>2. \E l : subList' = [subList EXCEPT ![k] = l]
      BY <3>1 DEF TakeOut
    <3> QED
      BY <1>2, <2>1, <3>2
  <2> QED
    BY <1>5, <2>2, <2>3
<1>6. ASSUME NEW k \in Conns, Leave(k) \/ WriteFail(k) PROVE NoneAcking'
  BY <1>3, <1>6 DEF Leave, WriteFail
<1>7. ASSUME NEW k \in Conns, Discard(k) \/ DrainEnd(k) PROVE NoneAcking'
  <2>1. phase[k] # "run" /\ subList' = subList
    BY <1>7 DEF Discard, DrainEnd
  <2>2. \E p : phase' = [phase EXCEPT ![k] = p]
    BY <1>7 DEF Discard, DrainEnd
  <2> QED
    BY <1>4, <2>1, <2>2
<1>8. ASSUME NEW k \in Conns,
             \/ HandleSubscribe(k) \/ HandleUnsubscribe(k) \/ HandleSend(k) \/ WriteAuto(k)
             \/ WriteTopic(k) \/ PutRequest(k) \/ SendBack(k) \/ DrainOne(k)
      PROVE  UNCHANGED <<phase, subList>>
  BY <1>8 DEF HandleSubscribe, HandleUnsubscribe, HandleSend, WriteAuto, WriteTopic, PutRequest,
              SendBack, DrainOne
<1>9. ASSUME Proc PROVE UNCHANGED <<phase, subList>>
  BY <1>9 DEF Proc, ServeSubscribe, ServeUnsubscribe, ServeEnqueueQueue, ServeRequeue,
              ServeEnqueueTopic, ServeOther, ProcSend, connVars
<1>10. CASE UNCHANGED vars
  BY <1>1, <1>10 DEF vars, connVars
<1> QED
  BY <1>1, <1>5, <1>6, <1>7, <1>8, <1>9, <1>10 DEF Next, Handle, WriteOut, Internal

\* While the server lives a queue message is stored, requested or held by a
\* connection that has not closed, until it has been delivered or acknowledged,
\* its write to the client has failed, or the processor has handed it to a
\* connection that had closed.
THEOREM NoLossHolds == Spec => []NoLoss
<1>1. ASSUME ObjInv, MsgInv, NoneAcking, NEW m \in Msgs, ToQueues(m), m \notin settled \cup dropped
      PROVE  Safe(m) \/ Stranded(m)
  <2>1. PICK e, o : Sits(e, o, m)
    BY <1>1 DEF MsgInv, Kept
  <2>2. CASE e = "sent" \/ e = "back"
    BY <1>1, <2>1, <2>2, AskedIs DEF Seated, Safe
  <2>3. CASE e = "store"
    <3>1. PICK l \in Seq(Msgs) : l = storage[dest[m]] /\ DOMAIN l = 1 .. Len(l)
      BY <1>1 DEF ObjInv, TypeOK, ToQueues
    <3>2. Occ(l, m)
      BY <2>1, <2>3, <3>1, SitsIs
    <3> QED
      BY <3>1, <3>2 DEF Occ, Safe
  <2>4. CASE e = "held"
    <3>1. o \in Subs /\ frame[o] = m /\ Bears(o)
      BY <2>1, <2>4, SitsIs DEF Has
    <3>2. PICK k : k = attr[o].conn
      OBVIOUS
    <3>3. k \in Conns
      BY <1>1, <3>1, <3>2, Bearer
    <3>4. m \in HeldBy(k)
      BY <1>1, <3>1, <3>2, <3>3, HeldIs DEF InHands, Has
    <3>5. CASE phase[k] # "closed"
      BY <3>3, <3>4, <3>5 DEF Safe
    <3>6. CASE phase[k] = "closed"
      <4>1. DOMAIN subList[k] = {}
        BY <1>1, <3>3, <3>6 DEF NoneAcking
      <4>2. m \in HandedTo(k)
        BY <3>4, <4>1 DEF HeldBy
      <4> QED
        BY <3>3, <3>6, <4>2 DEF Stranded
    <3> QED
      BY <3>5, <3>6
  <2> QED
    BY <2>1, <2>2, <2>3, <2>4, SitsIs
<1>2. ObjInv /\ MsgInv /\ NoneAcking => NoLoss
  BY <1>1 DEF NoLoss
<1>3. Init => NoneAcking
  BY DEF Init, NoneAcking
<1>4. ObjInv /\ NoneAcking /\ [Next]_vars => NoneAcking'
  BY NoneAckingStep
<1> QED
  BY <1>2, <1>3, <1>4, MsgHolds, PTL DEF Spec
=============================================================================
