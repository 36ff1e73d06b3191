-------------------------- MODULE ClientConnProofs --------------------------
(***************************************************************************)
(* Proofs about ClientConn for any set of calls, any capacities and any    *)
(* choice of timeouts.                                                     *)
(***************************************************************************)
EXTENDS ClientConn, TLAPS

\* The primed part of TypeOK that HandTo determines.
LEMMA HandToType ==
  ASSUME TypeOK, NEW kind \in (Kinds \cup {"SENDERR"}), NEW S \in SUBSET Calls,
         HandTo(kind, S)
  PROVE  /\ plAt' \in {"select", "deliver", "errLock", "exit", "done"}
         /\ plKind' \in Kinds \cup {"none", "SENDERR"}
         /\ plCur' \in Calls \cup {Nobody}
         /\ plRest' \subseteq Calls
         /\ plAt' = "deliver" => plCur' \in Calls
BY DEF HandTo, After, Kinds

\* Every step of the calls, of readLoop and of processLoop keeps the types.
LEMMA TypeStep == TypeOK /\ [Next]_vars => TypeOK'
<1> SUFFICES ASSUME TypeOK, [Next]_vars PROVE TypeOK'
  OBVIOUS
<1> USE DEF callVars, connVars, readVars, plVars, chanVars
<1>1. ASSUME NEW c \in Calls, Start(c) PROVE TypeOK'
  BY <1>1, OpsAssumption DEF TypeOK, Start
<1>2. ASSUME NEW c \in Calls, FindClosed(c) PROVE TypeOK'
  BY <1>2 DEF TypeOK, FindClosed, Return
<1>3. ASSUME NEW c \in Calls, MustDisconnect(c) PROVE TypeOK'
  BY <1>3 DEF TypeOK, MustDisconnect, Return, CloseWriteCh
<1>4. ASSUME NEW c \in Calls, OptionError(c) PROVE TypeOK'
  BY <1>4 DEF TypeOK, OptionError, Return
<1>5. ASSUME NEW c \in Calls, Acquire(c) PROVE TypeOK'
  BY <1>5 DEF TypeOK, Acquire
<1>6. ASSUME NEW c \in Calls, Push(c) PROVE TypeOK'
  BY <1>6 DEF TypeOK, Push, Return
<1>7. ASSUME NEW c \in Calls, PushTimeout(c) PROVE TypeOK'
  BY <1>7 DEF TypeOK, PushTimeout, Return
<1>8. ASSUME NEW c \in Calls, WaitTimeout(c) PROVE TypeOK'
  BY <1>8 DEF TypeOK, WaitTimeout, Return
<1>9. ASSUME NEW c \in Calls, Finish(c) PROVE TypeOK'
  BY <1>9 DEF TypeOK, Finish
<1>10. CASE ReadFrame
  <2>1. PICK f \in Incoming : readCh' = Append(readCh, f)
    BY <1>10 DEF ReadFrame
  <2>2. f \in Frames
    BY DEF Incoming, Frames, Kinds, TypeOK
  <2> QED
    BY <1>10, <2>1, <2>2 DEF ReadFrame, Incoming, TypeOK
<1>11. CASE ReadLoopFail
  BY <1>11 DEF TypeOK, ReadLoopFail
<1>12. CASE PLDeliver
  <2>1. /\ plAt' \in {"select", "deliver", "errLock", "exit", "done"}
        /\ plKind' \in Kinds \cup {"none", "SENDERR"}
        /\ plCur' \in Calls \cup {Nobody}
        /\ plRest' \subseteq Calls
        /\ plAt' = "deliver" => plCur' \in Calls
    BY <1>12 DEF TypeOK, PLDeliver, HandTo, After, Kinds
  <2>2. /\ channels' \subseteq Calls
        /\ closedChs' \subseteq Calls
    BY <1>12 DEF TypeOK, PLDeliver
  <2>3. /\ pc' \in [Calls -> {"idle", "lock", "push", "wait", "got", "done"}]
        /\ ret' \in [Calls -> {"none", "nil", "error", "closed", "sendTimeout",
                              "receiptTimeout", "optionError"}]
        /\ subReader' \in [Calls -> {"none", "recv", "busy", "gone"}]
        /\ panicked' \in BOOLEAN
    BY <1>12 DEF TypeOK, PLDeliver, Result
  <2> QED
    BY <1>12, <2>1, <2>2, <2>3 DEF TypeOK, PLDeliver
<1>13. CASE PLRead
  <2>1. Head(readCh) \in Frames /\ Tail(readCh) \in Seq(Frames)
    BY <1>13 DEF PLRead, TypeOK
  <2>2. \E kind \in Kinds \cup {"SENDERR"}, S \in SUBSET Calls : HandTo(kind, S)
    BY <1>13, <2>1 DEF PLRead, Frames, Kinds, TypeOK
  <2> QED
    BY <1>13, <2>1, <2>2, HandToType DEF TypeOK, PLRead
<1>14. CASE PLClosed
  BY <1>14, HandToType DEF TypeOK, PLClosed
<1>15. CASE PLTimeout
  BY <1>15, HandToType DEF TypeOK, PLTimeout
<1>16. CASE PLLocal
  BY <1>16 DEF TypeOK, PLLocal, Registered
<1>17. CASE PLWrite
  <2>1. Head(writeCh) \in Calls /\ Tail(writeCh) \in Seq(Calls)
    BY <1>17 DEF PLWrite, TypeOK
  <2>2. Asked(Head(writeCh)) \subseteq Calls
    BY <2>1, <1>17 DEF Asked, TypeOK
  <2> QED
    BY <1>17, <2>1, <2>2 DEF TypeOK, PLWrite, Registered
<1>18. CASE PLWriteFail
  <2>1. Head(writeCh) \in Calls /\ Tail(writeCh) \in Seq(Calls)
    BY <1>18 DEF PLWriteFail, TypeOK
  <2>2. channels' \in SUBSET Calls
    BY <1>18, <2>1 DEF PLWriteFail, Registered, TypeOK
  <2> QED
    BY <1>18, <2>1, <2>2, HandToType DEF TypeOK, PLWriteFail
<1>19. CASE PLErrLock
  BY <1>19 DEF TypeOK, PLErrLock
<1>20. CASE PLExit
  BY <1>20 DEF TypeOK, PLExit, CloseWriteCh
<1>21. ASSUME NEW c \in Calls, SubReady(c) PROVE TypeOK'
  BY <1>21 DEF TypeOK, SubReady
<1>22. ASSUME NEW c \in Calls, SubSeesClose(c) PROVE TypeOK'
  BY <1>22 DEF TypeOK, SubSeesClose
<1>23. CASE UNCHANGED vars
  BY <1>23 DEF TypeOK, vars
<1> QED
  BY <1>1, <1>2, <1>3, <1>4, <1>5, <1>6, <1>7, <1>8, <1>9, <1>10, <1>11, <1>12,
     <1>13, <1>14, <1>15, <1>16, <1>17, <1>18, <1>19, <1>20, <1>21, <1>22, <1>23
  DEF Next, CallNext, PLNext

\* The state of the connection, of its goroutines and of every call stays in
\* its type.
THEOREM TypeCorrect == Spec => []TypeOK
<1>1. Init => TypeOK
  <2> SUFFICES ASSUME Init PROVE TypeOK
    OBVIOUS
  <2>1. writeCh \in Seq(Calls) /\ readCh \in Seq(Frames)
    BY DEF Init
  <2>2. channels = {} /\ closedChs = {} /\ wire = {} /\ answered = {} /\ plRest = {}
    BY DEF Init
  <2> QED
    BY <2>1, <2>2 DEF Init, TypeOK
<1> QED
  BY <1>1, TypeStep, PTL DEF Spec
-----------------------------------------------------------------------------
(***************************************************************************)
(* closeMutex.                                                             *)
(***************************************************************************)

\* Every action keeps LockDiscipline.
LEMMA LockStep ==
  TypeOK /\ LockDiscipline /\ [Next]_vars => LockDiscipline'
<1> SUFFICES ASSUME TypeOK, LockDiscipline, [Next]_vars PROVE LockDiscipline'
  OBVIOUS
<1> USE NobodyAssumption DEF callVars, connVars, LockDiscipline, HoldsMutex
<1>1. ASSUME NEW c \in Calls, Start(c) PROVE LockDiscipline'
  BY <1>1 DEF TypeOK, Start
<1>2. ASSUME NEW c \in Calls, FindClosed(c) PROVE LockDiscipline'
  BY <1>2 DEF TypeOK, FindClosed, Return
<1>3. ASSUME NEW c \in Calls, MustDisconnect(c) PROVE LockDiscipline'
  BY <1>3 DEF TypeOK, MustDisconnect, Return, CloseWriteCh
<1>4. ASSUME NEW c \in Calls, OptionError(c) PROVE LockDiscipline'
  BY <1>4 DEF TypeOK, OptionError, Return
<1>5. ASSUME NEW c \in Calls, Acquire(c) PROVE LockDiscipline'
  BY <1>5 DEF TypeOK, Acquire
<1>6. ASSUME NEW c \in Calls, Push(c) PROVE LockDiscipline'
  BY <1>6 DEF TypeOK, Push, Return, LockedReceiptOps, ReceiptOps
<1>7. ASSUME NEW c \in Calls, PushTimeout(c) PROVE LockDiscipline'
  BY <1>7 DEF TypeOK, PushTimeout, Return
<1>8. ASSUME NEW c \in Calls, WaitTimeout(c) PROVE LockDiscipline'
  BY <1>8 DEF TypeOK, WaitTimeout, Return, LockedReceiptOps
<1>9. ASSUME NEW c \in Calls, Finish(c) PROVE LockDiscipline'
  BY <1>9 DEF TypeOK, Finish, LockedReceiptOps
<1>10. CASE PLDeliver
  BY <1>10 DEF TypeOK, PLDeliver
<1>11. CASE PLErrLock
  BY <1>11 DEF TypeOK, PLErrLock
<1>12. CASE PLExit
  BY <1>12 DEF TypeOK, PLExit, CloseWriteCh
<1>13. CASE UNCHANGED <<pc, op, mutex, closed, writeChClosed>>
  BY <1>13
<1>14. ASSUME ReadFrame \/ ReadLoopFail \/ PLRead \/ PLClosed \/ PLTimeout
              \/ PLLocal \/ PLWrite \/ PLWriteFail \/ UNCHANGED vars
              \/ \E c \in Calls : SubReady(c) \/ SubSeesClose(c)
       PROVE  UNCHANGED <<pc, op, mutex, closed, writeChClosed>>
  BY <1>14 DEF ReadFrame, ReadLoopFail, PLRead, PLClosed, PLTimeout, PLLocal,
               PLWrite, PLWriteFail, vars, SubReady, SubSeesClose
<1> QED
  BY <1>1, <1>2, <1>3, <1>4, <1>5, <1>6, <1>7, <1>8, <1>9, <1>10, <1>11, <1>12,
     <1>13, <1>14 DEF Next, CallNext, PLNext

\* closeMutex is held as LockDiscipline says in every reachable state.
THEOREM LockCorrect == Spec => []LockDiscipline
<1>1. Init => LockDiscipline
  BY NobodyAssumption DEF Init, LockDiscipline, HoldsMutex
<1> QED
  BY <1>1, TypeCorrect, LockStep, PTL DEF Spec

\* Nothing is put into writeCh once the connection is marked closed.
THEOREM ClosedRefusesHolds == Spec => ClosedRefuses
<1>1. ASSUME TypeOK, LockDiscipline, [Next]_vars, closed
      PROVE  Len(writeCh') <= Len(writeCh)
  <2> USE <1>1
  <2>1. Len(writeCh) \in Nat
    BY DEF TypeOK
  <2>2. ASSUME NEW c \in Calls, Push(c) PROVE FALSE
    BY <2>2, NobodyAssumption DEF LockDiscipline, HoldsMutex, Push
  <2>3. CASE UNCHANGED writeCh
    BY <2>1, <2>3
  <2>4. CASE PLLocal \/ PLWrite \/ PLWriteFail
    <3>1. writeCh # <<>> /\ writeCh' = Tail(writeCh)
      BY <2>4 DEF PLLocal, PLWrite, PLWriteFail
    <3> QED
      BY <3>1 DEF TypeOK
  <2> QED
    BY <2>2, <2>3, <2>4 DEF Next, CallNext, PLNext, vars, callVars, Start,
       FindClosed, MustDisconnect, OptionError, Acquire, PushTimeout, WaitTimeout,
       Finish, SubReady, SubSeesClose, ReadFrame, ReadLoopFail, PLDeliver, PLRead,
       PLClosed, PLTimeout, PLErrLock, PLExit
<1> QED
  BY <1>1, TypeCorrect, LockCorrect, PTL DEF Spec, ClosedRefuses
-----------------------------------------------------------------------------
(***************************************************************************)
(* The response channels.                                                  *)
(***************************************************************************)

\* The part of ChannelDiscipline that holds when processLoop takes a request.
LEMMA TailFacts ==
  ASSUME NEW s \in Seq(Calls), s # <<>>
  PROVE  /\ Head(s) = s[1] /\ 1 \in DOMAIN s
         /\ Tail(s) \in Seq(Calls)
         /\ \A i \in DOMAIN Tail(s) : /\ i + 1 \in DOMAIN s /\ i + 1 # 1
                                      /\ Tail(s)[i] = s[i + 1]
         /\ \A i, j \in DOMAIN Tail(s) : i + 1 = j + 1 => i = j
OBVIOUS

\* What a call that sends on writeCh does to the channel.
LEMMA AppendFacts ==
  ASSUME NEW s \in Seq(Calls), NEW c \in Calls
  PROVE  \A i \in DOMAIN Append(s, c) :
           \/ i \in DOMAIN s /\ Append(s, c)[i] = s[i]
           \/ i = Len(s) + 1 /\ Append(s, c)[i] = c
OBVIOUS

\* Sent is stable: a call that has sent its request never goes back.
LEMMA SentStable ==
  ASSUME TypeOK, [Next]_vars, NEW d \in Calls, Sent(d)
  PROVE  Sent(d)'
<1> USE DEF Sent, callVars
<1>1. ASSUME NEW c \in Calls, Start(c) \/ CallNext(c) PROVE Sent(d)'
  BY <1>1 DEF TypeOK, CallNext, Start, FindClosed, MustDisconnect, OptionError,
     Acquire, Push, PushTimeout, WaitTimeout, Finish, Return
<1>2. CASE PLDeliver
  BY <1>2 DEF TypeOK, PLDeliver
<1>3. CASE UNCHANGED pc
  BY <1>3
<1> QED
  BY <1>1, <1>2, <1>3 DEF Next, PLNext, vars, SubReady, SubSeesClose, ReadFrame,
     ReadLoopFail, PLRead, PLClosed, PLTimeout, PLLocal, PLWrite, PLWriteFail,
     PLErrLock, PLExit

\* OpenWhenHanded in the next state when processLoop starts to hand a frame to
\* some of the registered channels.
LEMMA HandToChannels ==
  ASSUME NEW kind \in {"RECEIPT", "MESSAGE", "ERROR", "SENDERR"},
         NEW S, S \subseteq channels', S \cap closedChs' = {},
         kind \in {"RECEIPT", "MESSAGE"} =>
           channels' \cap closedChs' = {} /\ \A c, d \in S : c = d,
         HandTo(kind, S)
  PROVE  OpenWhenHanded'
<1>1. CASE S = {}
  BY <1>1 DEF HandTo, After, OpenWhenHanded
<1>2. CASE S # {}
  <2>1. PICK c \in S : /\ plAt' = "deliver" /\ plKind' = kind
                        /\ plCur' = c /\ plRest' = S \ {c}
    BY <1>2 DEF HandTo
  <2> QED
    BY <2>1 DEF OpenWhenHanded
<1> QED
  BY <1>1, <1>2

\* The three parts of ChannelDiscipline, for the steps that take a request c
\* from writeCh and enter it into the map.
LEMMA TakeRequest ==
  ASSUME TypeOK, ChannelDiscipline, [Next]_vars, writeCh # <<>>,
         writeCh' = Tail(writeCh),
         channels' \subseteq channels \cup {Head(writeCh)},
         closedChs' \subseteq closedChs \cup channels
  PROVE  RegisteredSent' /\ QueuedOnce'
<1> DEFINE c == Head(writeCh)
<1>1. /\ c = writeCh[1] /\ 1 \in DOMAIN writeCh /\ c \in Calls
      /\ \A i \in DOMAIN writeCh' : /\ i + 1 \in DOMAIN writeCh /\ i + 1 # 1
                                    /\ writeCh'[i] = writeCh[i + 1]
                                    /\ writeCh[i + 1] \in Calls
      /\ \A i, j \in DOMAIN writeCh' : i + 1 = j + 1 => i = j
  BY TailFacts DEF TypeOK
<1>2. Sent(c) /\ c \notin channels \cup closedChs
  BY <1>1 DEF ChannelDiscipline, QueuedOnce
<1>3. \A d \in Calls : Sent(d) => Sent(d)'
  BY SentStable
<1>4. RegisteredSent'
  BY <1>1, <1>2, <1>3 DEF ChannelDiscipline, RegisteredSent, TypeOK
<1>5. ASSUME NEW i \in DOMAIN writeCh' PROVE writeCh'[i] # c
  BY <1>1, <1>5 DEF ChannelDiscipline, QueuedOnce
<1>6. QueuedOnce'
  BY <1>1, <1>3, <1>5 DEF ChannelDiscipline, QueuedOnce
<1> QED
  BY <1>4, <1>6

\* Every action keeps ChannelDiscipline.
LEMMA ChannelStep ==
  TypeOK /\ LockDiscipline /\ ChannelDiscipline /\ [Next]_vars
    => ChannelDiscipline'
<1> SUFFICES ASSUME TypeOK, LockDiscipline, ChannelDiscipline, [Next]_vars
             PROVE  ChannelDiscipline'
  OBVIOUS
<1> USE DEF callVars, plVars, chanVars
<1>a. \A d \in Calls : Sent(d) => Sent(d)'
  BY SentStable
<1>b. \A i \in DOMAIN writeCh : writeCh[i] \in Calls
  BY DEF TypeOK
<1>1. ASSUME NEW c \in Calls, Push(c) PROVE ChannelDiscipline'
  <2>1. ~writeChClosed
    BY <1>1, NobodyAssumption DEF LockDiscipline, HoldsMutex, Push
  <2>2. writeCh' = Append(writeCh, c) /\ UNCHANGED <<plVars, chanVars>>
    BY <1>1, <2>1 DEF Push
  <2>3. ~Sent(c) /\ Sent(c)'
    BY <1>1 DEF Sent, Push, Return, TypeOK
  <2>4. c \notin channels \cup closedChs /\ \A i \in DOMAIN writeCh : writeCh[i] # c
    BY <2>3 DEF ChannelDiscipline, RegisteredSent, QueuedOnce
  <2>5. \A i \in DOMAIN writeCh' :
           \/ i \in DOMAIN writeCh /\ writeCh'[i] = writeCh[i]
           \/ i = Len(writeCh) + 1 /\ writeCh'[i] = c
    BY <2>2, AppendFacts DEF TypeOK
  <2>6. QueuedOnce'
    BY <1>a, <1>b, <2>2, <2>3, <2>4, <2>5 DEF ChannelDiscipline, QueuedOnce
  <2>7. RegisteredSent'
    BY <1>a, <2>2 DEF ChannelDiscipline, RegisteredSent, TypeOK
  <2> QED
    BY <2>2, <2>6, <2>7 DEF ChannelDiscipline, OpenWhenHanded
<1>2. CASE UNCHANGED <<writeCh, channels, closedChs>>
  <2>1. RegisteredSent' /\ QueuedOnce'
    BY <1>a, <1>b, <1>2
       DEF ChannelDiscipline, RegisteredSent, QueuedOnce, TypeOK
  <2>2. CASE UNCHANGED <<plAt, plKind, plCur, plRest>>
    BY <1>2, <2>1, <2>2 DEF ChannelDiscipline, OpenWhenHanded
  <2>3. CASE PLClosed \/ PLTimeout
    <3>1. plAt = "select" /\ HandTo("SENDERR", channels)
      BY <2>3 DEF PLClosed, PLTimeout
    <3>2. channels \cap closedChs = {}
      BY <3>1 DEF ChannelDiscipline, OpenWhenHanded
    <3>3. OpenWhenHanded'
      BY <1>2, <3>1, <3>2, HandToChannels
    <3> QED
      BY <2>1, <3>3 DEF ChannelDiscipline
  <2>4. CASE PLRead
    <3>1. channels \cap closedChs = {}
      BY <2>4 DEF PLRead, ChannelDiscipline, OpenWhenHanded
    <3>2. PICK kind \in {"RECEIPT", "MESSAGE", "ERROR", "SENDERR"},
               S \in SUBSET channels :
             /\ HandTo(kind, S)
             /\ kind \in {"RECEIPT", "MESSAGE"} => \A c, d \in S : c = d
      BY <2>4 DEF PLRead
    <3>3. OpenWhenHanded'
      BY <1>2, <3>1, <3>2, HandToChannels
    <3> QED
      BY <2>1, <3>3 DEF ChannelDiscipline
  <2>5. CASE PLErrLock \/ PLExit
    <3>1. plAt' \in {"exit", "done"}
      BY <2>5 DEF PLErrLock, PLExit
    <3> QED
      BY <2>1, <3>1 DEF ChannelDiscipline, OpenWhenHanded
  <2>6. CASE PLDeliver
    <3>1. plAt = "deliver" /\ HandTo(plKind, plRest)
      BY <2>6 DEF PLDeliver
    <3>2. OpenWhenHanded'
      BY <1>2, <3>1, HandToChannels DEF ChannelDiscipline, OpenWhenHanded
    <3> QED
      BY <2>1, <3>2 DEF ChannelDiscipline
  <2>7. CASE PLLocal \/ PLWrite \/ PLWriteFail
    <3>1. writeCh # <<>> /\ writeCh' = Tail(writeCh) /\ Len(writeCh) \in Nat
      BY <2>7 DEF PLLocal, PLWrite, PLWriteFail, TypeOK
    <3>2. FALSE
      BY <1>2, <3>1 DEF TypeOK
    <3> QED
      BY <3>2
  <2> QED
    BY <1>1, <2>2, <2>3, <2>4, <2>5, <2>6, <2>7 DEF Next, CallNext, PLNext, vars,
       Start, FindClosed, MustDisconnect, OptionError, Acquire, PushTimeout,
       WaitTimeout, Finish, SubReady, SubSeesClose, ReadFrame, ReadLoopFail
<1>3. CASE PLDeliver
  <2>1. /\ plAt = "deliver" /\ HandTo(plKind, plRest) /\ UNCHANGED writeCh
        /\ channels' = IF plKind = "RECEIPT" THEN channels \ {plCur} ELSE channels
        /\ closedChs' = IF plKind \in {"RECEIPT", "ERROR"}
                         THEN closedChs \cup {plCur} ELSE closedChs
    BY <1>3 DEF PLDeliver
  <2>2. /\ plCur \in channels /\ plRest \subseteq channels \ {plCur}
        /\ plCur \notin closedChs /\ plRest \cap closedChs = {}
        /\ plKind \in {"RECEIPT", "MESSAGE", "ERROR", "SENDERR"}
        /\ plKind \in {"RECEIPT", "MESSAGE"} =>
             channels \cap closedChs = {} /\ plRest = {}
    BY <2>1 DEF ChannelDiscipline, OpenWhenHanded
  <2>3. RegisteredSent' /\ QueuedOnce'
    BY <1>a, <1>b, <2>1, <2>2
       DEF ChannelDiscipline, RegisteredSent, QueuedOnce, TypeOK
  <2>4. /\ plRest \subseteq channels' /\ plRest \cap closedChs' = {}
        /\ plKind \in {"RECEIPT", "MESSAGE"} =>
             channels' \cap closedChs' = {} /\ \A c, d \in plRest : c = d
    BY <2>1, <2>2
  <2>5. OpenWhenHanded'
    BY <2>1, <2>2, <2>4, HandToChannels
  <2> QED
    BY <2>3, <2>5 DEF ChannelDiscipline
<1>4. CASE PLLocal
  <2> DEFINE c == Head(writeCh)
             ending == IF op[c] = "Unsubscribe" THEN channels \cap {target[c]} ELSE {}
  <2>1. /\ plAt = "select" /\ writeCh # <<>> /\ writeCh' = Tail(writeCh)
        /\ channels' = Registered(c) \ ending /\ closedChs' = closedChs \cup ending
        /\ UNCHANGED plVars
    BY <1>4 DEF PLLocal
  <2>2. c = writeCh[1] /\ 1 \in DOMAIN writeCh
    BY <2>1, TailFacts DEF TypeOK
  <2>3. channels \cap closedChs = {} /\ c \notin channels \cup closedChs
    BY <2>1, <2>2 DEF ChannelDiscipline, OpenWhenHanded, QueuedOnce
  <2>4. Registered(c) \subseteq channels \cup {c} /\ ending \subseteq channels
    BY DEF Registered
  <2> HIDE DEF ending
  <2>5. channels' \cap closedChs' = {}
    BY <2>1, <2>3, <2>4
  <2>6. RegisteredSent' /\ QueuedOnce'
    BY <2>1, <2>4, TakeRequest
  <2> QED
    BY <2>1, <2>5, <2>6 DEF ChannelDiscipline, OpenWhenHanded
<1>5. CASE PLWrite \/ PLWriteFail
  <2> DEFINE c == Head(writeCh)
  <2>1. /\ plAt = "select" /\ writeCh # <<>> /\ writeCh' = Tail(writeCh)
        /\ channels' = Registered(c) /\ UNCHANGED closedChs
        /\ UNCHANGED plVars \/ HandTo("SENDERR", channels')
    BY <1>5 DEF PLWrite, PLWriteFail
  <2>2. c = writeCh[1] /\ 1 \in DOMAIN writeCh
    BY <2>1, TailFacts DEF TypeOK
  <2>3. channels \cap closedChs = {} /\ c \notin channels \cup closedChs
    BY <2>1, <2>2 DEF ChannelDiscipline, OpenWhenHanded, QueuedOnce
  <2>4. Registered(c) \subseteq channels \cup {c}
    BY DEF Registered
  <2>5. channels' \cap closedChs' = {}
    BY <2>1, <2>3, <2>4
  <2>6. RegisteredSent' /\ QueuedOnce'
    BY <2>1, <2>4, TakeRequest
  <2>7. OpenWhenHanded'
    <3>1. CASE UNCHANGED plVars
      BY <2>1, <2>5, <3>1 DEF OpenWhenHanded
    <3>2. CASE HandTo("SENDERR", channels')
      BY <2>5, <3>2, HandToChannels
    <3> QED
      BY <2>1, <3>1, <3>2
  <2> QED
    BY <2>6, <2>7 DEF ChannelDiscipline
<1>6. ASSUME NEW c \in Calls, Start(c) \/ (CallNext(c) /\ ~Push(c))
                                \/ SubReady(c) \/ SubSeesClose(c)
      PROVE  UNCHANGED <<writeCh, channels, closedChs>>
  BY <1>6 DEF CallNext, Start, FindClosed, MustDisconnect, OptionError, Acquire,
     PushTimeout, WaitTimeout, Finish, SubReady, SubSeesClose
<1>7. ASSUME ReadFrame \/ ReadLoopFail \/ PLRead \/ PLClosed \/ PLTimeout
             \/ PLErrLock \/ PLExit \/ UNCHANGED vars
      PROVE  UNCHANGED <<writeCh, channels, closedChs>>
  BY <1>7 DEF ReadFrame, ReadLoopFail, PLRead, PLClosed, PLTimeout, PLErrLock,
     PLExit, vars
<1> QED
  BY <1>1, <1>2, <1>3, <1>4, <1>5, <1>6, <1>7 DEF Next, PLNext

\* processLoop's channels are used as ChannelDiscipline says.
THEOREM ChannelCorrect == Spec => []ChannelDiscipline
<1>1. Init => ChannelDiscipline
  BY DEF Init, ChannelDiscipline, RegisteredSent, QueuedOnce, OpenWhenHanded
<1> QED
  BY <1>1, TypeCorrect, LockCorrect, ChannelStep, PTL DEF Spec

\* No send on a closed channel and no second close, in any behaviour.
THEOREM NoPanicHolds == Spec => []NoPanic
<1>1. Init => NoPanic
  BY DEF Init, NoPanic
<1>2. TypeOK /\ LockDiscipline /\ ChannelDiscipline /\ NoPanic /\ [Next]_vars
        => NoPanic'
  <2> SUFFICES ASSUME TypeOK, LockDiscipline, ChannelDiscipline, ~panicked,
                      [Next]_vars
               PROVE  ~panicked'
    BY DEF NoPanic
  <2>1. ASSUME NEW c \in Calls, Push(c) PROVE ~panicked'
    BY <2>1, NobodyAssumption DEF LockDiscipline, HoldsMutex, Push
  <2>2. ASSUME NEW c \in Calls, MustDisconnect(c) PROVE ~panicked'
    BY <2>2 DEF LockDiscipline, MustDisconnect, CloseWriteCh
  <2>3. CASE PLExit
    BY <2>3 DEF LockDiscipline, PLExit, CloseWriteCh
  <2>4. CASE PLDeliver
    BY <2>4 DEF ChannelDiscipline, OpenWhenHanded, PLDeliver
  <2>5. CASE PLLocal
    BY <2>5 DEF ChannelDiscipline, OpenWhenHanded, PLLocal
  <2>6. CASE UNCHANGED panicked
    BY <2>6
  <2> QED
    BY <2>1, <2>2, <2>3, <2>4, <2>5, <2>6 DEF Next, CallNext, PLNext, vars, Start,
       FindClosed, OptionError, Acquire, PushTimeout, WaitTimeout, Finish, SubReady,
       SubSeesClose, ReadFrame, ReadLoopFail, PLRead, PLClosed, PLTimeout, PLWrite,
       PLWriteFail, PLErrLock
<1> QED
  BY <1>1, <1>2, TypeCorrect, LockCorrect, ChannelCorrect, PTL DEF Spec
-----------------------------------------------------------------------------
(***************************************************************************)
(* Shutdown.                                                               *)
(***************************************************************************)

\* Conn.closed is never reset.
LEMMA ClosedStable ==
  ASSUME TypeOK, [Next]_vars, closed
  PROVE  closed'
BY DEF TypeOK, Next, CallNext, PLNext, vars, connVars, Start, FindClosed, MustDisconnect,
   CloseWriteCh, OptionError, Acquire, Push, PushTimeout, WaitTimeout, Finish,
   SubReady, SubSeesClose, ReadFrame, ReadLoopFail, PLDeliver, PLRead, PLClosed,
   PLTimeout, PLLocal, PLWrite, PLWriteFail, PLErrLock, PLExit

\* processLoop returns only after the connection was marked closed, and a
\* connection that is marked closed has closed its socket.
THEOREM ShutdownCompleteHolds == Spec => []ShutdownComplete
<1>1. Init => ShutdownComplete
  BY DEF Init, ShutdownComplete
<1>2. TypeOK /\ ShutdownComplete /\ [Next]_vars => ShutdownComplete'
  <2> SUFFICES ASSUME TypeOK, ShutdownComplete, [Next]_vars
               PROVE  ShutdownComplete'
    OBVIOUS
  <2> USE DEF ShutdownComplete, connVars, plVars
  <2>1. ASSUME NEW c \in Calls, CallNext(c) PROVE ShutdownComplete'
    <3>1. UNCHANGED plAt
      BY <2>1 DEF CallNext, FindClosed, MustDisconnect, OptionError, Acquire, Push,
         PushTimeout, WaitTimeout, Finish
    <3>2. closed => closed'
      BY ClosedStable
    <3>3. closed' => ~sockOpen'
      BY <2>1 DEF TypeOK, CallNext, FindClosed, MustDisconnect, CloseWriteCh,
         OptionError, Acquire, Push, PushTimeout, WaitTimeout, Finish
    <3> QED
      BY <3>1, <3>2, <3>3
  <2>2. CASE PLErrLock \/ PLExit
    BY <2>2 DEF PLErrLock, PLExit, CloseWriteCh
  <2>3. CASE PLDeliver \/ PLRead \/ PLClosed \/ PLTimeout \/ PLWriteFail
    <3>1. UNCHANGED <<closed, sockOpen>>
      BY <2>3 DEF PLDeliver, PLRead, PLClosed, PLTimeout, PLWriteFail
    <3>2. plAt' # "done"
      BY <2>3 DEF PLDeliver, PLRead, PLClosed, PLTimeout, PLWriteFail, HandTo, After
    <3> QED
      BY <3>1, <3>2
  <2>4. CASE UNCHANGED <<closed, sockOpen, plAt>>
    BY <2>4
  <2> QED
    BY <2>1, <2>2, <2>3, <2>4 DEF Next, PLNext, vars, Start, SubReady, SubSeesClose,
       ReadFrame, ReadLoopFail, PLLocal, PLWrite
<1> QED
  BY <1>1, <1>2, TypeCorrect, PTL DEF Spec
-----------------------------------------------------------------------------
(***************************************************************************)
(* Receipts.                                                               *)
(***************************************************************************)

\* Every RECEIPT between the server and the caller is one that was sent: in
\* readCh, in the hands of processLoop, and as the result of a call.
ReceiptsReal ==
  /\ \A i \in DOMAIN readCh : readCh[i].kind = "RECEIPT" => readCh[i].id \in answered
  /\ plAt = "deliver" /\ plKind = "RECEIPT" => plCur \in answered
  /\ \A c \in Calls :
       op[c] \in ReceiptOps /\ pc[c] \in {"got", "done"} /\ ret[c] = "nil" =>
         c \in answered \/ (op[c] = "Disconnect" /\ pc[c] = "done" /\ closed)

\* What HandTo makes of a set with the property of ReceiptsReal.
LEMMA HandToReal ==
  ASSUME NEW kind, NEW S, HandTo(kind, S),
         kind = "RECEIPT" => S \subseteq answered'
  PROVE  plAt' = "deliver" /\ plKind' = "RECEIPT" => plCur' \in answered'
BY DEF HandTo, After

\* Every action keeps ReceiptsReal.
LEMMA ReceiptStep ==
  TypeOK /\ ChannelDiscipline /\ ReceiptsReal /\ [Next]_vars => ReceiptsReal'
<1> SUFFICES ASSUME TypeOK, ChannelDiscipline, ReceiptsReal, [Next]_vars
             PROVE  ReceiptsReal'
  OBVIOUS
<1> USE DEF callVars, connVars, readVars, plVars, chanVars
<1>1. closed => closed'
  BY ClosedStable
<1>2. ASSUME NEW c \in Calls, Start(c) \/ CallNext(c) PROVE ReceiptsReal'
  <2>1. UNCHANGED <<readCh, answered, plAt, plKind, plCur>>
    BY <1>2 DEF CallNext, Start, FindClosed, MustDisconnect, OptionError, Acquire,
       Push, PushTimeout, WaitTimeout, Finish
  <2>2. ASSUME NEW d \in Calls, op'[d] \in ReceiptOps, pc'[d] \in {"got", "done"},
               ret'[d] = "nil"
        PROVE  d \in answered' \/ (op'[d] = "Disconnect" /\ pc'[d] = "done" /\ closed')
    <3>1. CASE d # c
      <4>1. op'[d] = op[d] /\ pc'[d] = pc[d] /\ ret'[d] = ret[d]
        BY <1>2, <3>1 DEF TypeOK, CallNext, Start, FindClosed, MustDisconnect,
           OptionError, Acquire, Push, PushTimeout, WaitTimeout, Finish, Return
      <4> QED
        BY <1>1, <2>1, <2>2, <4>1 DEF ReceiptsReal
    <3>2. CASE d = c /\ Finish(c)
      <4>1. op'[d] = op[d] /\ pc[d] = "got" /\ ret'[d] = ret[d]
        BY <3>2 DEF TypeOK, Finish
      <4> QED
        BY <2>1, <2>2, <4>1 DEF ReceiptsReal
    <3>3. CASE d = c /\ FindClosed(c)
      BY <2>2, <3>3 DEF TypeOK, FindClosed, Return, ReceiptOps
    <3>4. CASE d = c /\ (Start(c) \/ CallNext(c)) /\ ~Finish(c) /\ ~FindClosed(c)
      BY <2>2, <3>4 DEF TypeOK, CallNext, Start, MustDisconnect, OptionError, Acquire,
         Push, PushTimeout, WaitTimeout, Return, ReceiptOps, SubscribeOps
    <3> QED
      BY <1>2, <3>1, <3>2, <3>3, <3>4
  <2> QED
    BY <2>1, <2>2 DEF ReceiptsReal
<1>3. CASE ReadFrame
  <2>1. PICK f \in Incoming :
          /\ readCh' = Append(readCh, f)
          /\ answered' = IF f.kind = "RECEIPT" THEN answered \cup {f.id} ELSE answered
    BY <1>3 DEF ReadFrame
  <2>2. \A i \in DOMAIN readCh' : \/ i \in DOMAIN readCh /\ readCh'[i] = readCh[i]
                                 \/ readCh'[i] = f
    BY <2>1 DEF TypeOK
  <2> QED
    BY <1>3, <2>1, <2>2 DEF ReadFrame, ReceiptsReal
<1>4. CASE PLDeliver
  <2>1. plAt = "deliver" /\ HandTo(plKind, plRest) /\ UNCHANGED <<op, closed, readCh, answered>>
    BY <1>4 DEF PLDeliver
  <2>2. plKind = "RECEIPT" => plRest = {}
    BY <2>1 DEF ChannelDiscipline, OpenWhenHanded
  <2>3. plAt' = "deliver" /\ plKind' = "RECEIPT" => plCur' \in answered'
    BY <2>1, <2>2, HandToReal
  <2>4. ASSUME NEW d \in Calls, op[d] \in ReceiptOps, pc'[d] \in {"got", "done"},
               ret'[d] = "nil"
        PROVE  d \in answered \/ (op[d] = "Disconnect" /\ pc'[d] = "done" /\ closed)
    <3>1. CASE pc'[d] = pc[d] /\ ret'[d] = ret[d]
      BY <2>4, <3>1 DEF ReceiptsReal
    <3>2. CASE d = plCur /\ ret'[d] = Result(plKind)
      BY <2>1, <2>4, <3>2 DEF ReceiptsReal, Result
    <3> QED
      BY <1>4, <3>1, <3>2 DEF PLDeliver, TypeOK
  <2> QED
    BY <2>1, <2>3, <2>4 DEF ReceiptsReal
<1>5. CASE PLRead
  <2>1. /\ Head(readCh) = readCh[1] /\ 1 \in DOMAIN readCh
        /\ \A i \in DOMAIN Tail(readCh) : /\ i + 1 \in DOMAIN readCh
                                          /\ Tail(readCh)[i] = readCh[i + 1]
    BY <1>5 DEF PLRead, TypeOK
  <2>2. PICK kind, S : /\ HandTo(kind, S)
                       /\ kind = "RECEIPT" => S \subseteq answered
    BY <1>5, <2>1 DEF PLRead, ReceiptsReal
  <2>3. readCh' = Tail(readCh) /\ UNCHANGED <<op, pc, ret, closed, answered>>
    BY <1>5 DEF PLRead
  <2>4. plAt' = "deliver" /\ plKind' = "RECEIPT" => plCur' \in answered'
    BY <2>2, <2>3, HandToReal
  <2>5. \A i \in DOMAIN readCh' : readCh'[i].kind = "RECEIPT" => readCh'[i].id \in answered'
    BY <2>1, <2>3 DEF ReceiptsReal
  <2> QED
    BY <2>3, <2>4, <2>5 DEF ReceiptsReal
<1>6. CASE PLClosed \/ PLTimeout \/ PLWriteFail
  <2>1. UNCHANGED <<op, pc, ret, closed, readCh, answered>>
    BY <1>6 DEF PLClosed, PLTimeout, PLWriteFail
  <2>2. plAt' = "deliver" /\ plKind' = "RECEIPT" => plCur' \in answered'
    BY <1>6, HandToReal DEF PLClosed, PLTimeout, PLWriteFail
  <2> QED
    BY <2>1, <2>2 DEF ReceiptsReal
<1>7. CASE PLErrLock \/ PLExit
  <2>1. UNCHANGED <<op, pc, ret, readCh, answered>> /\ plAt' # "deliver"
    BY <1>7 DEF PLErrLock, PLExit
  <2> QED
    BY <1>1, <2>1 DEF ReceiptsReal
<1>8. CASE UNCHANGED <<op, pc, ret, closed, readCh, answered, plAt, plKind, plCur>>
  BY <1>8 DEF ReceiptsReal
<1> QED
  BY <1>2, <1>3, <1>4, <1>5, <1>6, <1>7, <1>8 DEF Next, PLNext, vars, SubReady,
     SubSeesClose, ReadLoopFail, PLLocal, PLWrite

\* A call with a receipt that returns nil has got the server's RECEIPT.
THEOREM ReceiptMeansAnsweredHolds == Spec => []ReceiptMeansAnswered
<1>1. Init => ReceiptsReal
  BY DEF Init, ReceiptsReal
<1>2. ReceiptsReal => ReceiptMeansAnswered
  BY DEF ReceiptsReal, ReceiptMeansAnswered
<1> QED
  BY <1>1, <1>2, TypeCorrect, ChannelCorrect, ReceiptStep, PTL DEF Spec
-----------------------------------------------------------------------------
(***************************************************************************)
(* Receivers for what processLoop hands out.                               *)
(***************************************************************************)

\* Only calls with a receipt wait, and a subscription has its reader before its
\* request is in writeCh.
CallShape ==
  \A c \in Calls :
    /\ pc[c] \in {"wait", "got"} => op[c] \in ReceiptOps
    /\ pc[c] = "idle" => op[c] = "none"
    /\ pc[c] = "push" /\ op[c] \in SubscribeOps => subReader[c] \in {"recv", "busy"}

\* A MESSAGE is for a subscription.
MessageShape ==
  /\ \A i \in DOMAIN readCh :
       readCh[i].kind = "MESSAGE" =>
         readCh[i].id \in Calls /\ op[readCh[i].id] \in SubscribeOps
  /\ plAt = "deliver" /\ plKind = "MESSAGE" => op[plCur] \in SubscribeOps

\* Everyone that processLoop may have to send to, now or when it is back in its
\* select, can receive or has given up.
Served(c) == CanReceive(c) \/ GaveUp(c)
AllServed ==
  /\ \A i \in DOMAIN writeCh :
       op[writeCh[i]] \in ReceiptOps \cup SubscribeOps => Served(writeCh[i])
  /\ plAt = "select" => \A c \in channels : Served(c)
  /\ plAt = "deliver" =>
       /\ \A c \in plRest \cup {plCur} : Served(c)
       /\ plKind \in {"RECEIPT", "MESSAGE"} => \A c \in channels : Served(c)
Receivers == CallShape /\ MessageShape /\ AllServed

\* A call that has been made stays what it is.
LEMMA OpStable ==
  ASSUME TypeOK, [Next]_vars, NEW d \in Calls, pc[d] # "idle"
  PROVE  op'[d] = op[d]
<1>1. ASSUME NEW c \in Calls, Start(c) PROVE op'[d] = op[d]
  BY <1>1 DEF Start, TypeOK
<1>2. CASE UNCHANGED op
  BY <1>2
<1> QED
  BY <1>1, <1>2 DEF Next, CallNext, PLNext, vars, callVars, FindClosed,
     MustDisconnect, OptionError, Acquire, Push, PushTimeout, WaitTimeout, Finish,
     SubReady, SubSeesClose, ReadFrame, ReadLoopFail, PLDeliver, PLRead, PLClosed,
     PLTimeout, PLLocal, PLWrite, PLWriteFail, PLErrLock, PLExit

\* The steps that move calls keep CallShape.
LEMMA CallShapeStep ==
  TypeOK /\ ChannelDiscipline /\ CallShape /\ [Next]_vars => CallShape'
<1> SUFFICES ASSUME TypeOK, ChannelDiscipline, CallShape, [Next]_vars, NEW d \in Calls
             PROVE  /\ pc'[d] \in {"wait", "got"} => op'[d] \in ReceiptOps
                    /\ pc'[d] = "idle" => op'[d] = "none"
                    /\ pc'[d] = "push" /\ op'[d] \in SubscribeOps =>
                         subReader'[d] \in {"recv", "busy"}
  BY DEF CallShape
<1> USE DEF callVars, connVars, readVars, plVars, chanVars
<1>1. ASSUME NEW c \in Calls, Start(c) PROVE
        /\ pc'[d] \in {"wait", "got"} => op'[d] \in ReceiptOps
        /\ pc'[d] = "idle" => op'[d] = "none"
        /\ pc'[d] = "push" /\ op'[d] \in SubscribeOps =>
             subReader'[d] \in {"recv", "busy"}
  BY <1>1 DEF TypeOK, CallShape, Start
<1>2. ASSUME NEW c \in Calls, CallNext(c) PROVE
        /\ pc'[d] \in {"wait", "got"} => op'[d] \in ReceiptOps
        /\ pc'[d] = "idle" => op'[d] = "none"
        /\ pc'[d] = "push" /\ op'[d] \in SubscribeOps =>
             subReader'[d] \in {"recv", "busy"}
  BY <1>2, ZenonT(30) DEF TypeOK, CallShape, CallNext, FindClosed, MustDisconnect, OptionError,
     Acquire, Push, PushTimeout, WaitTimeout, Finish, Return
<1>3. CASE PLDeliver
  <2>1. plCur \in Calls /\ Sent(plCur)
    BY <1>3 DEF PLDeliver, ChannelDiscipline, OpenWhenHanded, RegisteredSent, TypeOK
  <2> QED
    BY <1>3, <2>1 DEF PLDeliver, TypeOK, CallShape, Sent
<1>4. ASSUME NEW c \in Calls, SubReady(c) \/ SubSeesClose(c)
      PROVE  /\ UNCHANGED <<pc, op>>
             /\ pc[d] = "push" => subReader'[d] = subReader[d] \/ subReader'[d] = "recv"
  BY <1>4 DEF SubReady, SubSeesClose, ChannelDiscipline, RegisteredSent, Sent, TypeOK
<1>5. ASSUME NEW c \in Calls, SubReady(c) \/ SubSeesClose(c) PROVE
        /\ pc'[d] \in {"wait", "got"} => op'[d] \in ReceiptOps
        /\ pc'[d] = "idle" => op'[d] = "none"
        /\ pc'[d] = "push" /\ op'[d] \in SubscribeOps =>
             subReader'[d] \in {"recv", "busy"}
  BY <1>4, <1>5 DEF CallShape
<1>6. CASE UNCHANGED <<pc, op, subReader>>
  BY <1>6 DEF CallShape
<1> QED
  BY <1>1, <1>2, <1>3, <1>5, <1>6 DEF Next, PLNext, vars, ReadFrame, ReadLoopFail,
     PLRead, PLClosed, PLTimeout, PLLocal, PLWrite, PLWriteFail, PLErrLock, PLExit

\* A MESSAGE goes to one subscription only.
LEMMA MessageShapeStep ==
  TypeOK /\ ChannelDiscipline /\ CallShape /\ MessageShape /\ [Next]_vars
    => MessageShape'
<1> SUFFICES ASSUME TypeOK, ChannelDiscipline, CallShape, MessageShape, [Next]_vars
             PROVE  MessageShape'
  OBVIOUS
<1> USE DEF callVars, connVars, readVars, plVars, chanVars
<1>1. \A d \in Calls : op[d] \in SubscribeOps => op'[d] \in SubscribeOps
  BY OpStable DEF CallShape, SubscribeOps
<1>2. plAt = "deliver" => plCur \in Calls
  BY DEF TypeOK
<1>3. CASE ReadFrame
  <2>1. PICK f \in Incoming : readCh' = Append(readCh, f)
    BY <1>3 DEF ReadFrame
  <2>2. f.kind = "MESSAGE" => f.id \in Calls /\ op[f.id] \in SubscribeOps
    BY DEF Incoming
  <2>3. \A i \in DOMAIN readCh' : \/ i \in DOMAIN readCh /\ readCh'[i] = readCh[i]
                                 \/ readCh'[i] = f
    BY <2>1 DEF TypeOK
  <2> QED
    BY <1>3, <2>2, <2>3 DEF ReadFrame, MessageShape
<1>4. CASE PLRead
  <2>1. /\ Head(readCh) = readCh[1] /\ 1 \in DOMAIN readCh
        /\ \A i \in DOMAIN Tail(readCh) : /\ i + 1 \in DOMAIN readCh
                                          /\ Tail(readCh)[i] = readCh[i + 1]
    BY <1>4 DEF PLRead, TypeOK
  <2>2. PICK kind, S : /\ HandTo(kind, S)
                       /\ kind = "MESSAGE" => \A c \in S : op[c] \in SubscribeOps
    BY <1>4, <2>1 DEF PLRead, MessageShape
  <2>3. readCh' = Tail(readCh) /\ UNCHANGED op
    BY <1>4 DEF PLRead
  <2>4. plAt' = "deliver" /\ plKind' = "MESSAGE" => op'[plCur'] \in SubscribeOps
    BY <2>2, <2>3 DEF HandTo, After
  <2> QED
    BY <2>1, <2>3, <2>4 DEF MessageShape
<1>5. CASE PLDeliver
  <2>1. plAt = "deliver" /\ HandTo(plKind, plRest) /\ UNCHANGED <<op, readCh>>
    BY <1>5 DEF PLDeliver
  <2>2. plKind = "MESSAGE" => plRest = {}
    BY <2>1 DEF ChannelDiscipline, OpenWhenHanded
  <2>3. plAt' = "deliver" => plKind' # "MESSAGE"
    BY <2>1, <2>2 DEF HandTo, After
  <2> QED
    BY <2>1, <2>3 DEF MessageShape
<1>6. CASE PLClosed \/ PLTimeout \/ PLWriteFail
  <2>1. HandTo("SENDERR", channels) \/ HandTo("SENDERR", channels')
    BY <1>6 DEF PLClosed, PLTimeout, PLWriteFail
  <2>2. plAt' = "deliver" => plKind' # "MESSAGE"
    BY <2>1 DEF HandTo, After
  <2>3. UNCHANGED <<op, readCh>>
    BY <1>6 DEF PLClosed, PLTimeout, PLWriteFail
  <2> QED
    BY <2>2, <2>3 DEF MessageShape
<1>7. CASE PLErrLock \/ PLExit
  BY <1>7 DEF PLErrLock, PLExit, MessageShape
<1>8. CASE UNCHANGED <<readCh, plAt, plKind, plCur>>
  BY <1>1, <1>2, <1>8 DEF MessageShape
<1>9. ASSUME NEW c \in Calls, Start(c) \/ CallNext(c) \/ SubReady(c) \/ SubSeesClose(c)
      PROVE  UNCHANGED <<readCh, plAt, plKind, plCur>>
  BY <1>9 DEF CallNext, Start, FindClosed, MustDisconnect, OptionError, Acquire, Push,
     PushTimeout, WaitTimeout, Finish, SubReady, SubSeesClose
<1> QED
  BY <1>3, <1>4, <1>5, <1>6, <1>7, <1>8, <1>9 DEF Next, PLNext, vars, ReadLoopFail,
     PLLocal, PLWrite

\* Who can receive or has given up loses that only by receiving, or by the close
\* of its channel.
LEMMA ServedStable ==
  ASSUME TypeOK, CallShape, [Next]_vars, NEW d \in Calls, Served(d),
         d \notin closedChs, ~(PLDeliver /\ plCur = d)
  PROVE  Served(d)'
<1> USE DEF Served, CanReceive, GaveUp, callVars, connVars, readVars, plVars, chanVars
<1>1. ASSUME NEW c \in Calls, Start(c) \/ FindClosed(c) \/ MustDisconnect(c)
                               \/ OptionError(c) \/ Push(c) \/ PushTimeout(c)
      PROVE  Served(d)'
  BY <1>1 DEF TypeOK, Start, FindClosed, MustDisconnect, OptionError, Push,
     PushTimeout, Return
<1>2. ASSUME NEW c \in Calls, Acquire(c) PROVE Served(d)'
  BY <1>2 DEF TypeOK, Acquire
<1>3. ASSUME NEW c \in Calls, WaitTimeout(c) PROVE Served(d)'
  BY <1>3 DEF TypeOK, WaitTimeout, Return
<1>4. ASSUME NEW c \in Calls, Finish(c) PROVE Served(d)'
  BY <1>4 DEF TypeOK, Finish
<1>5. CASE PLDeliver
  <2>1. plCur # d /\ UNCHANGED op
    BY <1>5 DEF PLDeliver
  <2>2. pc'[d] = pc[d] /\ ret'[d] = ret[d] /\ subReader'[d] = subReader[d]
    BY <1>5, <2>1 DEF PLDeliver, TypeOK
  <2> QED
    BY <2>1, <2>2
<1>6. ASSUME NEW c \in Calls, SubReady(c) \/ SubSeesClose(c) PROVE Served(d)'
  BY <1>6 DEF TypeOK, SubReady, SubSeesClose
<1>7. CASE UNCHANGED <<pc, op, ret, subReader>>
  BY <1>7
<1> QED
  BY <1>1, <1>2, <1>3, <1>4, <1>5, <1>6, <1>7 DEF Next, CallNext, PLNext, vars,
     ReadFrame, ReadLoopFail, PLRead, PLClosed, PLTimeout, PLLocal, PLWrite,
     PLWriteFail, PLErrLock, PLExit

\* When processLoop hands a frame to members of S, who are served.
LEMMA HandToServed ==
  ASSUME NEW kind, NEW S, HandTo(kind, S), \A c \in S : Served(c)',
         kind \in {"RECEIPT", "MESSAGE"} => \A c \in channels' : Served(c)',
         kind \in {"RECEIPT", "MESSAGE", "ERROR", "SENDERR"}
  PROVE  /\ plAt' = "select" => \A c \in channels' : Served(c)'
         /\ plAt' = "deliver" =>
              /\ \A c \in plRest' \cup {plCur'} : Served(c)'
              /\ plKind' \in {"RECEIPT", "MESSAGE"} => \A c \in channels' : Served(c)'
<1>1. CASE S = {}
  BY <1>1 DEF HandTo, After
<1>2. CASE S # {}
  <2>1. PICK c \in S : /\ plAt' = "deliver" /\ plKind' = kind
                        /\ plCur' = c /\ plRest' = S \ {c}
    BY <1>2 DEF HandTo
  <2> QED
    BY <2>1
<1> QED
  BY <1>1, <1>2

\* Every action keeps AllServed.
LEMMA ServedStep ==
  TypeOK /\ LockDiscipline /\ ChannelDiscipline /\ Receivers /\ [Next]_vars
    => AllServed'
<1> SUFFICES ASSUME TypeOK, LockDiscipline, ChannelDiscipline, Receivers, [Next]_vars
             PROVE  AllServed'
  OBVIOUS
<1> USE DEF callVars, connVars, readVars, plVars, chanVars
<1>a. TypeOK' /\ CallShape /\ MessageShape /\ AllServed
  BY TypeStep DEF Receivers
<1>b. \A d \in Calls : Served(d) /\ d \notin closedChs /\ ~(PLDeliver /\ plCur = d)
                        => Served(d)'
  BY <1>a, ServedStable
<1>c. \A d \in Calls : Sent(d) => op'[d] = op[d]
  BY OpStable DEF Sent
<1>d. ASSUME NEW i \in DOMAIN writeCh, NEW d, d = writeCh[i],
             op'[d] \in ReceiptOps \cup SubscribeOps
      PROVE  Served(d)'
  <2>1. d \in Calls /\ Sent(d) /\ d \notin channels \cup closedChs
    BY <1>d DEF TypeOK, ChannelDiscipline, QueuedOnce
  <2>2. Served(d)
    BY <1>a, <1>c, <1>d, <2>1 DEF AllServed
  <2>3. PLDeliver => plCur \in channels
    BY DEF PLDeliver, ChannelDiscipline, OpenWhenHanded
  <2> QED
    BY <1>b, <2>1, <2>2, <2>3
<1>e. ASSUME writeCh # <<>>, writeCh' = Tail(writeCh)
      PROVE  /\ \A i \in DOMAIN writeCh' : \A d :
                   d = writeCh'[i] /\ op'[d] \in ReceiptOps \cup SubscribeOps => Served(d)'
             /\ Head(writeCh) = writeCh[1] /\ 1 \in DOMAIN writeCh
  <2>1. /\ Head(writeCh) = writeCh[1] /\ 1 \in DOMAIN writeCh
        /\ \A i \in DOMAIN writeCh' : i + 1 \in DOMAIN writeCh
                                     /\ writeCh'[i] = writeCh[i + 1]
    BY <1>e, TailFacts DEF TypeOK
  <2> QED
    BY <1>d, <2>1
<1>f. plAt = "select" => /\ channels \cap closedChs = {}
                         /\ ~PLDeliver
                         /\ \A d \in channels : Served(d)'
  BY <1>a, <1>b DEF TypeOK, AllServed, ChannelDiscipline, OpenWhenHanded, PLDeliver
<1>1. ASSUME NEW c \in Calls, Push(c) PROVE AllServed'
  <2>1. ~writeChClosed
    BY <1>1, NobodyAssumption DEF LockDiscipline, HoldsMutex, Push
  <2>2. writeCh' = Append(writeCh, c) /\ UNCHANGED <<op, plVars, chanVars>>
    BY <1>1, <2>1 DEF Push
  <2>3. \A i \in DOMAIN writeCh' :
           \/ i \in DOMAIN writeCh /\ writeCh'[i] = writeCh[i]
           \/ i = Len(writeCh) + 1 /\ writeCh'[i] = c
    BY <2>2, AppendFacts DEF TypeOK
  <2>4. op[c] \in ReceiptOps \cup SubscribeOps => Served(c)'
    BY <1>1, <1>a, <2>2 DEF Push, Return, CallShape, Served, CanReceive, TypeOK
  <2>5. ~PLDeliver
    <3>1. Len(writeCh') = Len(writeCh) + 1 /\ Len(writeCh) \in Nat
      BY <2>2 DEF TypeOK
    <3> QED
      BY <3>1 DEF PLDeliver
  <2>6. plAt = "deliver" => /\ plCur \in channels /\ plRest \subseteq channels
                            /\ (plRest \cup {plCur}) \cap closedChs = {}
                            /\ plKind \in {"RECEIPT", "MESSAGE"} => channels \cap closedChs = {}
    BY DEF ChannelDiscipline, OpenWhenHanded
  <2>7. plAt' = "deliver" =>
       /\ \A d \in plRest' \cup {plCur'} : Served(d)'
       /\ plKind' \in {"RECEIPT", "MESSAGE"} => \A d \in channels' : Served(d)'
    BY <1>a, <1>b, <2>2, <2>5, <2>6 DEF AllServed, TypeOK
  <2>8. plAt' = "select" => \A d \in channels' : Served(d)'
    BY <1>f, <2>2
  <2>9. \A i \in DOMAIN writeCh' : \A d :
          d = writeCh'[i] /\ op'[d] \in ReceiptOps \cup SubscribeOps => Served(d)'
    BY <1>d, <2>2, <2>3, <2>4
  <2> QED
    BY <2>7, <2>8, <2>9 DEF AllServed
<1>2. CASE PLDeliver
  <2>1. /\ plAt = "deliver" /\ HandTo(plKind, plRest) /\ UNCHANGED <<op, writeCh>>
        /\ channels' = IF plKind = "RECEIPT" THEN channels \ {plCur} ELSE channels
    BY <1>2 DEF PLDeliver
  <2>2. /\ plCur \in channels /\ plRest \subseteq channels \ {plCur}
        /\ plCur \notin closedChs /\ plRest \cap closedChs = {}
        /\ plKind \in {"RECEIPT", "MESSAGE", "ERROR", "SENDERR"}
        /\ plKind \in {"RECEIPT", "MESSAGE"} => channels \cap closedChs = {}
    BY <2>1 DEF ChannelDiscipline, OpenWhenHanded
  <2>3. \A c \in plRest : Served(c)'
    BY <1>a, <1>b, <2>1, <2>2 DEF AllServed, TypeOK
  <2>4. ASSUME NEW c, c = plCur, plKind = "MESSAGE" PROVE Served(c)'
    <3> USE <2>4
    <3>1. op[plCur] \in SubscribeOps
      BY <1>a, <2>1 DEF MessageShape
    <3>2. pc[plCur] # "wait"
      BY <1>a, <2>1, <3>1 DEF CallShape, SubscribeOps, ReceiptOps, TypeOK
    <3>3. subReader'[plCur] = "busy"
      BY <1>2, <2>1, <3>2 DEF PLDeliver, TypeOK
    <3> QED
      BY <3>3, <2>4 DEF Served, CanReceive
  <2>5. plKind \in {"RECEIPT", "MESSAGE"} => \A c \in channels' : Served(c)'
    BY <1>a, <1>b, <2>1, <2>2, <2>4 DEF AllServed, TypeOK
  <2>6. /\ plAt' = "select" => \A c \in channels' : Served(c)'
        /\ plAt' = "deliver" =>
             /\ \A c \in plRest' \cup {plCur'} : Served(c)'
             /\ plKind' \in {"RECEIPT", "MESSAGE"} => \A c \in channels' : Served(c)'
    BY <2>1, <2>2, <2>3, <2>5, HandToServed
  <2> QED
    BY <1>d, <2>1, <2>6 DEF AllServed
<1>3. CASE PLRead \/ PLClosed \/ PLTimeout
  <2>1. plAt = "select" /\ UNCHANGED <<op, writeCh, channels>>
    BY <1>3 DEF PLRead, PLClosed, PLTimeout
  <2>2. PICK kind \in {"RECEIPT", "MESSAGE", "ERROR", "SENDERR"}, S \in SUBSET channels :
          HandTo(kind, S)
    BY <1>3 DEF PLRead, PLClosed, PLTimeout
  <2>3. /\ plAt' = "select" => \A c \in channels' : Served(c)'
        /\ plAt' = "deliver" =>
             /\ \A c \in plRest' \cup {plCur'} : Served(c)'
             /\ plKind' \in {"RECEIPT", "MESSAGE"} => \A c \in channels' : Served(c)'
    BY <1>f, <2>1, <2>2, HandToServed
  <2> QED
    BY <1>d, <2>1, <2>3 DEF AllServed
<1>4. CASE PLLocal \/ PLWrite \/ PLWriteFail
  <2> DEFINE c == Head(writeCh)
  <2>1. /\ plAt = "select" /\ writeCh # <<>> /\ writeCh' = Tail(writeCh)
        /\ channels' \subseteq Registered(c) /\ UNCHANGED op
        /\ UNCHANGED plVars \/ HandTo("SENDERR", channels')
    BY <1>4 DEF PLLocal, PLWrite, PLWriteFail
  <2>2. \A d \in channels' : Served(d)'
    BY <1>d, <1>e, <1>f, <2>1 DEF Registered
  <2>3. /\ plAt' = "select" => \A d \in channels' : Served(d)'
        /\ plAt' = "deliver" =>
             /\ \A d \in plRest' \cup {plCur'} : Served(d)'
             /\ plKind' \in {"RECEIPT", "MESSAGE"} => \A d \in channels' : Served(d)'
    BY <2>1, <2>2, HandToServed
  <2> QED
    BY <1>e, <2>1, <2>3 DEF AllServed
<1>5. CASE PLErrLock \/ PLExit
  <2>1. plAt' \in {"exit", "done"} /\ UNCHANGED writeCh
    BY <1>5 DEF PLErrLock, PLExit
  <2> QED
    BY <1>d, <2>1 DEF AllServed
<1>6. CASE ~PLDeliver /\ UNCHANGED <<writeCh, channels, plAt, plKind, plCur, plRest>>
  <2>1. plAt = "deliver" => /\ plCur \in channels /\ plRest \subseteq channels
                            /\ (plRest \cup {plCur}) \cap closedChs = {}
                            /\ plKind \in {"RECEIPT", "MESSAGE"} => channels \cap closedChs = {}
    BY DEF ChannelDiscipline, OpenWhenHanded
  <2>2. plAt' = "deliver" =>
       /\ \A d \in plRest' \cup {plCur'} : Served(d)'
       /\ plKind' \in {"RECEIPT", "MESSAGE"} => \A d \in channels' : Served(d)'
    BY <1>6, <1>a, <1>b, <2>1 DEF AllServed, TypeOK
  <2> QED
    BY <1>6, <1>d, <1>f, <2>2 DEF AllServed
<1>7. ASSUME NEW c \in Calls, Start(c) \/ (CallNext(c) /\ ~Push(c)) \/ SubReady(c)
                                 \/ SubSeesClose(c)
      PROVE  UNCHANGED <<writeCh, channels, plAt, plKind, plCur, plRest>>
  BY <1>7 DEF CallNext, Start, FindClosed, MustDisconnect, OptionError, Acquire,
     PushTimeout, WaitTimeout, Finish, SubReady, SubSeesClose
<1> QED
  BY <1>1, <1>2, <1>3, <1>4, <1>5, <1>6, <1>7 DEF Next, PLNext, vars, ReadFrame,
     ReadLoopFail

\* Whoever processLoop hands a frame to can receive it, or has given up its wait
\* for a receipt.
THEOREM NoStuckDeliveryHolds == Spec => []NoStuckDelivery
<1>1. Init => Receivers
  BY DEF Init, Receivers, CallShape, MessageShape, AllServed
<1>2. TypeOK /\ LockDiscipline /\ ChannelDiscipline /\ Receivers /\ [Next]_vars
        => Receivers'
  BY CallShapeStep, MessageShapeStep, ServedStep DEF Receivers
<1>3. Receivers => NoStuckDelivery
  BY DEF Receivers, AllServed, Served, NoStuckDelivery
<1> QED
  BY <1>1, <1>2, <1>3, TypeCorrect, LockCorrect, ChannelCorrect, PTL DEF Spec
=============================================================================
