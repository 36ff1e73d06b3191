--------------------------- MODULE ClientSubProofs ---------------------------
(***************************************************************************)
(* Proofs about ClientSub for any capacity of C, any number of messages,   *)
(* with and without the timeout and closing connections.                   *)
(***************************************************************************)
EXTENDS ClientSub, TLAPS

\* A send on C and the application's receive keep the type of C.
LEMMA SendCType ==
  ASSUME TypeOK, NEW x \in {"msg", "err"}, SendC(x)
  PROVE  /\ C' \in Seq({"msg", "err"}) /\ Len(C') <= Cap
         /\ panicked' \in BOOLEAN
<1>1. CASE cClosed
  BY <1>1 DEF SendC, TypeOK
<1>2. CASE ~cClosed
  <2>1. C' = Append(C, x) /\ Len(C) < Cap /\ Len(C) \in Nat /\ Cap \in Nat
    BY <1>2, SubBounds DEF SendC, TypeOK
  <2>2. C' \in Seq({"msg", "err"}) /\ Len(C') = Len(C) + 1
    BY <2>1 DEF TypeOK
  <2> QED
    BY <2>1, <2>2 DEF SendC, TypeOK
<1> QED
  BY <1>1, <1>2

\* Every step of the goroutines keeps the types.
LEMMA TypeStep == TypeOK /\ [Next]_vars => TypeOK'
<1> SUFFICES ASSUME TypeOK, [Next]_vars PROVE TypeOK'
  OBVIOUS
<1> USE DEF Callers
<1>1. CASE CloseTell
  BY <1>1, SendCType DEF CloseTell, TypeOK
<1>2. CASE CloseStore \/ CloseC \/ CloseBroadcast
  BY <1>2 DEF CloseStore, CloseC, CloseBroadcast, TypeOK
<1>3. CASE Recv
  BY <1>3, SubBounds DEF Recv, TypeOK
<1>4. CASE ReaderPut
  BY <1>4, SendCType DEF ReaderPut, TypeOK
<1>5. CASE ReaderLast \/ ReaderGone
  BY <1>5 DEF ReaderLast, ReaderGone, CallClose, TypeOK
<1>6. CASE Unsubscribe
  BY <1>6 DEF Unsubscribe, UnsubReturn, TypeOK
<1>7. CASE SendFrame
  <2>1. once' \in {"free", "done"} \cup Callers
        /\ closing' \in {"none", "tell", "store", "close", "broadcast"}
    BY <1>7 DEF SendFrame, CallClose, TypeOK
  <2>2. asked' \in BOOLEAN /\ unsub' \in {"check", "once"}
    BY <1>7 DEF SendFrame, TypeOK
  <2> QED
    BY <1>7, <2>1, <2>2 DEF SendFrame, TypeOK
<1>8. CASE UnsubClosed \/ UnsubCheck \/ Register \/ UnsubWoken \/ UnsubTimeout \/ UnsubLate
  BY <1>8 DEF UnsubClosed, UnsubCheck, Register, UnsubWoken, UnsubTimeout, UnsubLate,
     UnsubReturn, TypeOK
<1>9. CASE UnsubPut
  BY <1>9, SendCType DEF UnsubPut, UnsubReturn, TypeOK
<1>10. CASE AppRead
  <2>1. Tail(C) \in Seq({"msg", "err"}) /\ Len(Tail(C)) = Len(C) - 1 /\ Len(C) \in Nat
    BY <1>10 DEF AppRead, TypeOK
  <2> QED
    BY <1>10, <2>1, SubBounds DEF AppRead, TypeOK
<1>11. CASE UNCHANGED vars
  BY <1>11 DEF vars, TypeOK
<1> QED
  BY <1>1, <1>2, <1>3, <1>4, <1>5, <1>6, <1>7, <1>8, <1>9, <1>10, <1>11
  DEF Next, ReaderNext, UnsubNext, CloseNext

\* The Subscription and its goroutines stay in their types; C never holds more
\* than its capacity.
THEOREM TypeCorrect == Spec => []TypeOK
<1>1. Init => TypeOK
  <2> SUFFICES ASSUME Init PROVE TypeOK
    OBVIOUS
  <2>1. C \in Seq({"msg", "err"}) /\ Len(C) <= Cap
    BY SubBounds DEF Init
  <2>2. msgs \in 0 .. MaxMsgs
    BY SubBounds DEF Init
  <2> QED
    BY <2>1, <2>2 DEF Init, TypeOK, Callers
<1> QED
  BY <1>1, TypeStep, PTL DEF Spec
-----------------------------------------------------------------------------
(***************************************************************************)
(* closeOnce: the goroutine that runs the function is the one that waits   *)
(* at "once", and the state, C and closeOnce go together.                  *)
(***************************************************************************)
RunsOnce ==
  /\ closing = "none" <=> once \notin Callers
  /\ once = "reader" => reader = "once"
  /\ once = "unsub" => unsub = "once"
  /\ reader = "once" => once # "free"
  /\ unsub = "once" => once # "free"

ClosedTogether ==
  /\ state = "closed" <=> closing \in {"close", "broadcast"} \/ once = "done"
  /\ cClosed <=> closing = "broadcast" \/ once = "done"
  /\ reader = "gone" => state = "closed"

\* Who ran closeChannel while readLoop is still at work: an Unsubscribe that
\* found the connection closed.
Culprit ==
  /\ once \in {"unsub", "done"} /\ reader \notin {"once", "gone"}
       => unsub = "once" \/ result = "closed"
  /\ result # "none" => unsub = "done"
  /\ result = "closed" => once = "done"

Inv == RunsOnce /\ ClosedTogether /\ Culprit /\ OnlyUnsubscribePanics

\* Every step keeps Inv.
LEMMA InvStep == TypeOK /\ Inv /\ [Next]_vars => Inv'
<1> SUFFICES ASSUME TypeOK, Inv, [Next]_vars PROVE Inv'
  OBVIOUS
<1> USE DEF Inv, RunsOnce, ClosedTogether, Culprit, OnlyUnsubscribePanics, Callers
<1>1. CASE CloseTell
  BY <1>1 DEF CloseTell, SendC, TypeOK
<1>2. CASE CloseStore
  BY <1>2 DEF CloseStore, TypeOK
<1>3. CASE CloseC
  BY <1>3 DEF CloseC, TypeOK
<1>4. CASE CloseBroadcast
  BY <1>4 DEF CloseBroadcast, TypeOK
<1>5. CASE Recv
  BY <1>5 DEF Recv, TypeOK
<1>6. CASE ReaderPut
  BY <1>6 DEF ReaderPut, SendC, TypeOK
<1>7. CASE ReaderLast
  BY <1>7 DEF ReaderLast, CallClose, TypeOK
<1>8. CASE ReaderGone
  BY <1>8 DEF ReaderGone, TypeOK
<1>9. CASE Unsubscribe
  BY <1>9 DEF Unsubscribe, UnsubReturn, TypeOK
<1>10. CASE SendFrame
  BY <1>10 DEF SendFrame, CallClose, TypeOK
<1>11. CASE UnsubClosed
  BY <1>11 DEF UnsubClosed, UnsubReturn, TypeOK
<1>12. CASE UnsubCheck
  BY <1>12 DEF UnsubCheck, UnsubReturn, TypeOK
<1>13. CASE Register \/ UnsubWoken \/ UnsubTimeout
  BY <1>13 DEF Register, UnsubWoken, UnsubTimeout, TypeOK
<1>14. CASE UnsubLate
  BY <1>14 DEF UnsubLate, UnsubReturn, TypeOK
<1>15. CASE UnsubPut
  BY <1>15 DEF UnsubPut, UnsubReturn, SendC, TypeOK
<1>16. CASE AppRead
  BY <1>16 DEF AppRead
<1>17. CASE UNCHANGED vars
  BY <1>17 DEF vars
<1> QED
  BY <1>1, <1>2, <1>3, <1>4, <1>5, <1>6, <1>7, <1>8, <1>9, <1>10, <1>11, <1>12,
     <1>13, <1>14, <1>15, <1>16, <1>17 DEF Next, ReaderNext, UnsubNext, CloseNext

\* Inv holds in every reachable state.
LEMMA InvCorrect == Spec => []Inv
<1>1. Init => Inv
  BY DEF Init, Inv, RunsOnce, ClosedTogether, Culprit, OnlyUnsubscribePanics, Callers
<1> QED
  BY <1>1, InvStep, TypeCorrect, PTL DEF Spec

\* A panic on C takes an Unsubscribe that timed out or met a closed connection.
THEOREM OnlyUnsubscribePanicsHolds == Spec => []OnlyUnsubscribePanics
<1>1. Inv => OnlyUnsubscribePanics
  BY DEF Inv
<1> QED
  BY <1>1, InvCorrect, PTL

\* No message is left in the hands of readLoop when C is closed, but by an
\* Unsubscribe that met a closed connection.
THEOREM AllPutBeforeCloseHolds == Spec => []AllPutBeforeClose
<1>1. TypeOK /\ Inv => AllPutBeforeClose
  BY DEF TypeOK, Inv, RunsOnce, ClosedTogether, Culprit, AllPutBeforeClose, Callers
<1> QED
  BY <1>1, InvCorrect, TypeCorrect, PTL

\* readLoop and Unsubscribe end on a closed subscription.
THEOREM EndsClosedHolds == Spec => []EndsClosed
<1>1. Inv => EndsClosed
  BY DEF Inv, ClosedTogether, Culprit, EndsClosed
<1> QED
  BY <1>1, InvCorrect, PTL
=============================================================================
