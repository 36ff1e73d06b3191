------------------------------ MODULE ClientSub ------------------------------
(***************************************************************************)
(* One Subscription of the client (subscription.go): its goroutine         *)
(* readLoop, a call of Unsubscribe with waitWithTimeout, closeChannel which *)
(* both may run under closeOnce, and the application that reads C.         *)
(*                                                                         *)
(* processLoop of the connection is the environment.  It hands readLoop    *)
(* MESSAGE frames, and at last an ERROR, or a RECEIPT or the close of the  *)
(* channel once UNSUBSCRIBE was sent (see ClientConn).  Steps are the      *)
(* atomic loads and stores of state, the channel operations, and the       *)
(* registration with the condition variable.  closeMutex is left out: only *)
(* Unsubscribe takes it, and the compare-and-swap admits one Unsubscribe.  *)
(***************************************************************************)
EXTENDS Naturals, Sequences

CONSTANTS
  Cap,         \* capacity of Subscription.C
  MaxMsgs,     \* bound: MESSAGE frames handed to the subscription
  Timeout,     \* is UnsubscribeReceiptTimeout > 0 ?
  ConnMayClose \* may sendFrame return ErrClosedUnexpectedly ?

ASSUME SubBounds == Cap \in Nat \ {0} /\ MaxMsgs \in Nat
ASSUME SubFlags  == Timeout \in BOOLEAN /\ ConnMayClose \in BOOLEAN

VARIABLES
  state,     \* Subscription.state
  msgs,      \* MESSAGE frames handed out so far
  asked,     \* UNSUBSCRIBE has been sent
  reader,    \* where readLoop is
  unsub,     \* where Unsubscribe is
  result,    \* what it returned
  waiter,    \* the goroutine in cond.Wait
  once,      \* closeOnce: who runs it
  closing,   \* how far the function under closeOnce is
  C, cClosed,
  panicked

vars == <<state, msgs, asked, reader, unsub, result, waiter, once, closing,
          C, cClosed, panicked>>

Callers == {"reader", "unsub"}

TypeOK ==
  /\ state \in {"active", "closing", "closed"}
  /\ msgs \in 0 .. MaxMsgs
  /\ asked \in BOOLEAN
  /\ reader \in {"recv", "put", "ERROR", "RECEIPT", "CLOSE", "once", "gone"}
  /\ unsub \in {"idle", "frame", "once", "check", "select", "late", "put", "done"}
  /\ result \in {"none", "nil", "completed", "optionError", "closed", "timeout"}
  /\ waiter \in {"none", "starting", "waiting", "woken"}
  /\ once \in {"free", "done"} \cup Callers
  /\ closing \in {"none", "tell", "store", "close", "broadcast"}
  /\ C \in Seq({"msg", "err"}) /\ Len(C) <= Cap
  /\ cClosed \in BOOLEAN
  /\ panicked \in BOOLEAN

Init ==
  /\ state = "active" /\ msgs = 0 /\ asked = FALSE
  /\ reader = "recv" /\ unsub = "idle" /\ result = "none" /\ waiter = "none"
  /\ once = "free" /\ closing = "none"
  /\ C = <<>> /\ cClosed = FALSE /\ panicked = FALSE

\* Mutant: C has no capacity.
SendCUnbounded(x) ==
  /\ panicked' = cClosed
  /\ C' = IF cClosed THEN C ELSE Append(C, x)

\* A send on C: a panic when it is closed, else it waits for room.
SendC(x) ==
  /\ cClosed \/ Len(C) < Cap
  /\ panicked' = cClosed
  /\ C' = IF cClosed THEN C ELSE Append(C, x)
-----------------------------------------------------------------------------
(***************************************************************************)
(* closeChannel.  who is the goroutine that called it.                     *)
(***************************************************************************)

\* closeOnce.Do: the first caller runs the function, the other waits for it.
\* All calls but that for a RECEIPT have a message for C.
CallClose(who, tell) ==
  IF once = "free"
  THEN /\ once' = who
       /\ closing' = IF tell THEN "tell" ELSE "store"
  ELSE UNCHANGED <<once, closing>>

CloseTell ==
  /\ ~panicked /\ closing = "tell"
  /\ SendC("err")
  /\ closing' = "store"
  /\ UNCHANGED <<state, msgs, asked, reader, unsub, result, waiter, once, cClosed>>

\* Mutant: C is not closed.
CloseStoreNoClose ==
  /\ ~panicked /\ closing = "store"
  /\ state' = "closed"
  /\ closing' = "broadcast"
  /\ UNCHANGED <<msgs, asked, reader, unsub, result, waiter, once, C, cClosed, panicked>>

CloseStore ==
  /\ ~panicked /\ closing = "store"
  /\ state' = "closed"
  /\ closing' = "close"
  /\ UNCHANGED <<msgs, asked, reader, unsub, result, waiter, once, C, cClosed, panicked>>

CloseC ==
  /\ ~panicked /\ closing = "close"
  /\ panicked' = cClosed
  /\ cClosed' = TRUE
  /\ closing' = "broadcast"
  /\ UNCHANGED <<state, msgs, asked, reader, unsub, result, waiter, once, C>>

\* Broadcast wakes the waiter only if it has registered; then Do returns.
CloseBroadcast ==
  /\ ~panicked /\ closing = "broadcast"
  /\ waiter' = IF waiter = "waiting" THEN "woken" ELSE waiter
  /\ closing' = "none" /\ once' = "done"
  /\ UNCHANGED <<state, msgs, asked, reader, unsub, result, C, cClosed, panicked>>

CloseNext == CloseTell \/ CloseStore \/ CloseC \/ CloseBroadcast
-----------------------------------------------------------------------------
(***************************************************************************)
(* readLoop.                                                               *)
(***************************************************************************)
Recv ==
  /\ ~panicked /\ reader = "recv"
  /\ \/ msgs < MaxMsgs /\ reader' = "put" /\ msgs' = msgs + 1
     \/ reader' = "ERROR" /\ UNCHANGED msgs
     \/ asked /\ reader' \in {"RECEIPT", "CLOSE"} /\ UNCHANGED msgs
  /\ UNCHANGED <<state, asked, unsub, result, waiter, once, closing, C, cClosed,
                 panicked>>

ReaderPut ==
  /\ ~panicked /\ reader = "put"
  /\ SendC("msg")
  /\ reader' = "recv"
  /\ UNCHANGED <<state, msgs, asked, unsub, result, waiter, once, closing, cClosed>>

\* The last frame: closeChannel unless the state is closed already.
ReaderLast ==
  /\ ~panicked /\ reader \in {"ERROR", "RECEIPT", "CLOSE"}
  /\ IF state = "closed"
     THEN reader' = "gone" /\ UNCHANGED <<once, closing>>
     ELSE reader' = "once" /\ CallClose("reader", reader # "RECEIPT")
  /\ UNCHANGED <<state, msgs, asked, unsub, result, waiter, C, cClosed, panicked>>

\* Mutant: readLoop goes on after the last frame.
ReaderGoneContinues ==
  /\ ~panicked /\ reader = "once" /\ once = "done"
  /\ reader' = "recv"
  /\ UNCHANGED <<state, msgs, asked, unsub, result, waiter, once, closing, C, cClosed,
                 panicked>>

ReaderGone ==
  /\ ~panicked /\ reader = "once" /\ once = "done"
  /\ reader' = "gone"
  /\ UNCHANGED <<state, msgs, asked, unsub, result, waiter, once, closing, C, cClosed,
                 panicked>>

ReaderNext == ReaderPut \/ ReaderLast \/ ReaderGone
-----------------------------------------------------------------------------
(***************************************************************************)
(* Unsubscribe.                                                            *)
(***************************************************************************)
UnsubReturn(r) == unsub' = "done" /\ result' = r

\* The compare-and-swap, and a nil or failing option.
Unsubscribe ==
  /\ ~panicked /\ unsub = "idle"
  /\ \/ state # "active" /\ UnsubReturn("completed") /\ UNCHANGED state
     \/ state = "active" /\ state' = "closing" /\ unsub' = "frame" /\ UNCHANGED result
     \/ state = "active" /\ state' = "closing" /\ UnsubReturn("optionError")
  /\ UNCHANGED <<msgs, asked, reader, waiter, once, closing, C, cClosed, panicked>>

SendFrame ==
  /\ ~panicked /\ unsub = "frame"
  /\ \/ asked' = TRUE /\ unsub' = "check" /\ UNCHANGED <<once, closing>>
     \/ ConnMayClose /\ unsub' = "once" /\ CallClose("unsub", TRUE) /\ UNCHANGED asked
  /\ UNCHANGED <<state, msgs, reader, result, waiter, C, cClosed, panicked>>

\* Mutant: Unsubscribe does not wait for the one that runs closeChannel.
UnsubClosedEarly ==
  /\ ~panicked /\ unsub = "once" /\ once # "unsub"
  /\ UnsubReturn("closed")
  /\ UNCHANGED <<state, msgs, asked, reader, waiter, once, closing, C, cClosed, panicked>>

UnsubClosed ==
  /\ ~panicked /\ unsub = "once" /\ once = "done"
  /\ UnsubReturn("closed")
  /\ UNCHANGED <<state, msgs, asked, reader, waiter, once, closing, C, cClosed, panicked>>

\* The loop's test of the state, then waitWithTimeout.
UnsubCheck ==
  /\ ~panicked /\ unsub = "check"
  /\ \/ state = "closed" /\ UnsubReturn("nil") /\ UNCHANGED waiter
     \/ state # "closed" /\ unsub' = "select" /\ waiter' = "starting" /\ UNCHANGED result
  /\ UNCHANGED <<state, msgs, asked, reader, once, closing, C, cClosed, panicked>>

\* cond.Wait puts itself on the list that Broadcast wakes.
Register ==
  /\ ~panicked /\ waiter = "starting"
  /\ waiter' = "waiting"
  /\ UNCHANGED <<state, msgs, asked, reader, unsub, result, once, closing, C, cClosed,
                 panicked>>

UnsubWoken ==
  /\ ~panicked /\ unsub = "select" /\ waiter = "woken"
  /\ unsub' = "check"
  /\ UNCHANGED <<state, msgs, asked, reader, result, waiter, once, closing, C, cClosed,
                 panicked>>

\* Mutant: the timer is looked at only after a wake-up.
UnsubTimeoutAfterWake ==
  /\ ~panicked /\ unsub = "select" /\ Timeout /\ waiter = "woken"
  /\ unsub' = "late"
  /\ UNCHANGED <<state, msgs, asked, reader, result, waiter, once, closing, C, cClosed,
                 panicked>>

\* The timer fires; the state is tested once more, and C is told.
UnsubTimeout ==
  /\ ~panicked /\ unsub = "select" /\ Timeout
  /\ unsub' = "late"
  /\ UNCHANGED <<state, msgs, asked, reader, result, waiter, once, closing, C, cClosed,
                 panicked>>

UnsubLate ==
  /\ ~panicked /\ unsub = "late"
  /\ \/ state = "closed" /\ UnsubReturn("timeout")
     \/ state # "closed" /\ unsub' = "put" /\ UNCHANGED result
  /\ UNCHANGED <<state, msgs, asked, reader, waiter, once, closing, C, cClosed, panicked>>

UnsubPut ==
  /\ ~panicked /\ unsub = "put"
  /\ SendC("err")
  /\ UnsubReturn("timeout")
  /\ UNCHANGED <<state, msgs, asked, reader, waiter, once, closing, cClosed>>

UnsubNext == SendFrame \/ UnsubClosed \/ UnsubCheck \/ Register \/ UnsubWoken
               \/ UnsubTimeout \/ UnsubLate \/ UnsubPut
-----------------------------------------------------------------------------
\* The application receives from C.
AppRead ==
  /\ ~panicked /\ C # <<>>
  /\ C' = Tail(C)
  /\ UNCHANGED <<state, msgs, asked, reader, unsub, result, waiter, once, closing,
                 cClosed, panicked>>

Next == \/ Recv \/ ReaderNext \/ Unsubscribe \/ UnsubNext \/ CloseNext \/ AppRead

Spec == Init /\ [][Next]_vars

\* The goroutines run and the timer fires.  The server's RECEIPT and the
\* application's call of Unsubscribe are not assumed.
FairSpec == Spec /\ WF_vars(ReaderNext) /\ WF_vars(UnsubNext) /\ WF_vars(CloseNext)
                 /\ WF_vars(Register)
ReadingSpec == FairSpec /\ WF_vars(AppRead)
-----------------------------------------------------------------------------
\* A send on a closed C, or a second close of it, needs an Unsubscribe that
\* sends on C after its timeout, or one that closes C itself because the
\* connection is closed, while readLoop may still hold a message.  Nothing else
\* panics: readLoop closes C once and after all its sends.
OnlyUnsubscribePanics ==
  panicked => unsub = "once" \/ result \in {"closed", "timeout"}

\* C is closed only when readLoop has put there all it received: no message
\* that came before the RECEIPT or the ERROR is left behind, unless it was
\* Unsubscribe that closed C because the connection is closed.
AllPutBeforeClose == cClosed /\ reader = "put" => unsub = "once" \/ result = "closed"

\* readLoop returns, and Unsubscribe returns ErrClosedUnexpectedly, only on a
\* subscription that is closed, whichever of the two ran closeChannel.
EndsClosed ==
  /\ reader = "gone" => state = "closed"
  /\ result = "closed" => cClosed

\* "Unsubscribes and closes the channel C": when Unsubscribe has returned nil
\* then C gets closed, although the state that it waits for is stored before.
UnsubscribeCloses == result = "nil" ~> cClosed

\* UnsubscribeReceiptTimeout "helps avoid deadlocks": with it Unsubscribe
\* returns as long as the application reads C, whatever the server does.
TimeoutEndsWait == unsub = "select" ~> (unsub = "done" \/ panicked)

\* "use a sync.Cond to wait for the terminal state transition": when readLoop
\* has finished, Unsubscribe returns.  Not so without the timeout: the
\* Broadcast can come between the test of the state and cond.Wait.
UnsubscribeReturns == (unsub = "select" /\ reader = "gone") ~> unsub = "done"
=============================================================================
