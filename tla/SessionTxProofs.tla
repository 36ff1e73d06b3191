--------------------------- MODULE SessionTxProofs ---------------------------
(***************************************************************************)
(* Proofs about the transactions of Session: what a receipt means, which   *)
(* frames the server refuses, and that Session implements AtomicTx.  All   *)
(* rest on the order of the frames in Pipe.                                *)
(***************************************************************************)
EXTENDS SessionProofs, SequenceTheorems

ItemOn(c, t) == op[c] \in ItemOps /\ on[c] = t
EndOn(c, t)  == op[c] \in EndOps /\ on[c] = t

\* What the server decides on a COMMIT or ABORT.
Done(o) == IF o = "Commit" THEN "committed" ELSE "aborted"

\* The server has handled BEGIN.
Begun(t) == store[t] # NoTx \/ decided[t] # "open"

\* The transactions of the server: an entry is open or is being committed, and
\* an decided comes from a COMMIT or ABORT frame.
Outcomes ==
  \A t \in Calls :
    /\ ~Pushed(t) => ~Begun(t)
    /\ store[t] # NoTx => decided[t] = IF committing = t THEN "committed" ELSE "open"
    /\ decided[t] # "open" =>
         \E d \in Calls : EndOn(d, t) /\ Pushed(d) /\ Done(op[d]) = decided[t]

\* The frames on their way: of different calls, and BEGIN before the others.
PipeShape ==
  sst = "connected" =>
    /\ \A i \in 1 .. Len(Pipe) : Pushed(Pipe[i])
    /\ \A i, j \in 1 .. Len(Pipe) : i # j => Pipe[i] # Pipe[j]
    /\ \A i \in 1 .. Len(Pipe) : op[Pipe[i]] = "Begin" => ~Begun(Pipe[i])
    /\ \A t \in Calls, j \in 1 .. Len(Pipe) : ItemOn(Pipe[j], t) \/ EndOn(Pipe[j], t) =>
         Begun(t) \/ \E i \in 1 .. j - 1 : Pipe[i] = t
    /\ link = "up" => \A t \in Calls : op[t] = "Begin" /\ Pushed(t) =>
         Begun(t) \/ \E i \in 1 .. Len(Pipe) : Pipe[i] = t

Handled(c) == ServeBegin(c) \/ ServeItem(c) \/ ServeCommit(c) \/ ServeAbort(c) \/ ServeSubs(c)

\* A frame that is handled without an error leaves the calls alone.
LEMMA HandledFacts ==
  ASSUME TypeInv, NEW c \in Calls, Handled(c)
  PROVE  /\ Serving(c) /\ committing = Nobody /\ sst = "connected"
         /\ UNCHANGED <<pc, op, on, rcpt, ret, completed, link, asked, raced, cst, sst>>
         /\ \A d \in Calls : Pushed(d)' <=> Pushed(d)
         /\ op[c] = "Begin" => ServeBegin(c)
         /\ Len(Pipe) \in Nat \ {0} /\ Pipe[1] = c
         /\ Len(Pipe') = Len(Pipe) - 1
         /\ \A i \in 1 .. Len(Pipe') : Pipe'[i] = Pipe[i + 1]
<1>1. /\ Serving(c) /\ UNCHANGED <<writeCh, link, sst>>
      /\ UNCHANGED <<pc, op, on, rcpt, ret, completed, link, asked, raced, cst>>
  BY DEF Handled, ServeBegin, ServeItem, ServeCommit, ServeAbort, ServeSubs, srvRest, callVars
<1>2. committing = Nobody /\ sst = "connected"
  BY <1>1 DEF Serving
<1>3. \A d \in Calls : Pushed(d)' <=> Pushed(d)
  BY <1>1 DEF Pushed
<1>4. op[c] = "Begin" => ServeBegin(c)
  BY DEF Handled, ServeItem, ServeCommit, ServeAbort, ServeSubs, ItemOps
<1> QED
  BY <1>1, <1>2, <1>3, <1>4, ServePipe

\* The effect of each kind of step on the transactions of the server.
LEMMA Effects ==
  ASSUME TypeInv
  PROVE  /\ \A c \in Calls : ServeBegin(c) =>
              /\ store' = [store EXCEPT ![c] = <<>>] /\ op[c] = "Begin"
              /\ UNCHANGED <<decided, committing, stream>>
         /\ \A c \in Calls : ServeItem(c) =>
              /\ op[c] \in ItemOps /\ UNCHANGED <<decided, committing>>
              /\ on[c] = Nobody => UNCHANGED store /\ stream' = Append(stream, c)
              /\ on[c] # Nobody =>
                   /\ on[c] \in Calls /\ store[on[c]] \in Seq(Calls) /\ store[on[c]] # NoTx
                   /\ store' = [store EXCEPT ![on[c]] = Append(store[on[c]], c)]
                   /\ Append(store[on[c]], c) # NoTx /\ UNCHANGED stream
         /\ \A c \in Calls : ServeCommit(c) =>
              /\ op[c] = "Commit" /\ on[c] \in Calls /\ store[on[c]] \in Seq(Calls)
              /\ store[on[c]] # NoTx
              /\ committing' = on[c] /\ UNCHANGED <<store, stream>>
              /\ decided' = [decided EXCEPT ![on[c]] = "committed"]
         /\ \A c \in Calls : ServeAbort(c) =>
              /\ op[c] = "Abort" /\ on[c] \in Calls /\ store[on[c]] # NoTx
              /\ store' = [store EXCEPT ![on[c]] = NoTx] /\ UNCHANGED <<committing, stream>>
              /\ decided' = [decided EXCEPT ![on[c]] = "aborted"]
         /\ \A c \in Calls : ServeSubs(c) =>
              UNCHANGED <<store, decided, committing, stream>>
<1>1. ASSUME NEW c \in Calls, ServeItem(c), on[c] # Nobody
      PROVE  /\ on[c] \in Calls /\ store[on[c]] \in Seq(Calls) /\ store[on[c]] # NoTx
             /\ Append(store[on[c]], c) # NoTx
  <2>1. on[c] \in Calls /\ store[on[c]] \in Seq(Calls) /\ store[on[c]] # NoTx
    BY <1>1 DEF ServeItem, Unknown, TypeInv, TypeOK
  <2>2. Append(store[on[c]], c) \in Seq(Calls)
    BY <2>1
  <2> QED
    BY <2>1, <2>2, NoTxNoList
<1>2. ASSUME NEW c \in Calls, ServeCommit(c) \/ ServeAbort(c)
      PROVE  on[c] \in Calls /\ store[on[c]] \in Seq(Calls) /\ store[on[c]] # NoTx
  BY <1>2, NobodyAssumption
     DEF ServeCommit, ServeAbort, Unknown, TypeInv, TypeOK, Shape, EndOps
<1>3. \A c \in Calls : ServeBegin(c) =>
        /\ store' = [store EXCEPT ![c] = <<>>] /\ op[c] = "Begin"
        /\ UNCHANGED <<decided, committing, stream>>
  BY DEF ServeBegin
<1>4. \A c \in Calls : ServeItem(c) =>
        /\ op[c] \in ItemOps /\ UNCHANGED <<decided, committing>>
        /\ on[c] = Nobody => UNCHANGED store /\ stream' = Append(stream, c)
        /\ on[c] # Nobody => /\ store' = [store EXCEPT ![on[c]] = Append(store[on[c]], c)]
                             /\ UNCHANGED stream
  BY DEF ServeItem
<1>5. \A c \in Calls : ServeCommit(c) =>
        /\ op[c] = "Commit" /\ committing' = on[c] /\ UNCHANGED <<store, stream>>
        /\ decided' = [decided EXCEPT ![on[c]] = "committed"]
  BY DEF ServeCommit
<1>6. \A c \in Calls : ServeAbort(c) =>
        /\ op[c] = "Abort" /\ store' = [store EXCEPT ![on[c]] = NoTx]
        /\ decided' = [decided EXCEPT ![on[c]] = "aborted"] /\ UNCHANGED <<committing, stream>>
  BY DEF ServeAbort
<1>7. \A c \in Calls : ServeSubs(c) => UNCHANGED <<store, decided, committing, stream>>
  BY DEF ServeSubs
<1> QED
  BY <1>1, <1>2, <1>3, <1>4, <1>5, <1>6, <1>7

\* txStore.Commit takes one item off, or ends.
LEMMA CommitOneFacts ==
  ASSUME TypeInv, CommitOne
  PROVE  /\ committing \in Calls /\ store[committing] \in Seq(Calls)
         /\ UNCHANGED <<pc, op, on, rcpt, ret, completed, link, asked, raced, cst, sst, decided>>
         /\ Pipe' = Pipe /\ \A d \in Calls : Pushed(d)' <=> Pushed(d)
         /\ \A t \in Calls : t # committing => store'[t] = store[t]
         /\ \/ /\ store[committing] # <<>> /\ committing' = committing
               /\ store'[committing] = Tail(store[committing]) /\ store'[committing] # NoTx
               /\ stream' = Append(stream, Head(store[committing]))
            \/ /\ store[committing] = <<>> /\ committing' = Nobody
               /\ store'[committing] = NoTx /\ UNCHANGED stream
<1>1. committing \in Calls /\ store[committing] \in Seq(Calls)
  BY DEF CommitOne, TypeInv, TypeOK, Shape
<1>2. /\ UNCHANGED <<pc, op, on, rcpt, ret, completed, link, asked, raced, cst, sst, decided>>
      /\ UNCHANGED <<wire, writeCh>>
  BY DEF CommitOne, srvRest, callVars
<1>3. Pipe' = Pipe /\ \A d \in Calls : Pushed(d)' <=> Pushed(d)
  BY <1>2 DEF Pipe, Pushed
<1>4. store[committing] # <<>> => Tail(store[committing]) # NoTx
  <2>1. store[committing] # <<>> => Tail(store[committing]) \in Seq(Calls)
    BY <1>1
  <2> QED
    BY <2>1, NoTxNoList
<1> QED
  BY <1>1, <1>2, <1>3, <1>4 DEF CommitOne, TypeInv, TypeOK

\* A connection that is not served, or no longer, forgets its transactions.
LEMMA Elsewhere ==
  ASSUME TypeInv, [Next]_vars, sst' # "connected"
  PROVE  /\ UNCHANGED <<decided, committing, stream>>
         /\ \A t \in Calls : store'[t] \in {store[t], NoTx}
<1> USE DEF callVars, netVars, srvVars, srvRest
<1>1. ASSUME NEW c \in Calls,
             Call(c) \/ Push(c) \/ Timeout(c) \/ Mark(c) \/ ServeRefuse(c) \/ ServeNoReply(c)
      PROVE  /\ UNCHANGED <<decided, committing, stream>>
             /\ \A t \in Calls : store'[t] \in {store[t], NoTx}
  BY <1>1 DEF Call, Push, Timeout, Mark, ServeRefuse, Refuse, ServeNoReply
<1>2. ~\E c \in Calls : Handled(c)
  BY HandledFacts
<1>3. CASE \/ Connect \/ PLWrite \/ PLReceipt \/ PLError \/ HandleConnect \/ ServerEof
           \/ Break \/ UNCHANGED vars
  BY <1>3 DEF Connect, PLWrite, PLReceipt, PLError, HandleConnect, Refuse, ServerEof,
              Break, vars
<1>4. ~CommitOne
  BY DEF CommitOne, TypeInv, Shape
<1> QED
  BY <1>1, <1>2, <1>3, <1>4 DEF Next, ClientStep, ServerStep, Handled

\* An decided is final.
LEMMA OutcomeFinal ==
  ASSUME BaseInv, Outcomes, [Next]_vars, NEW t \in Calls, decided[t] # "open"
  PROVE  decided'[t] = decided[t]
<1> USE DEF BaseInv
<1>1. CASE sst' # "connected"
  BY <1>1, Elsewhere
<1>2. CASE HandleConnect
  BY <1>2 DEF HandleConnect
<1>3. CASE Quiet \/ CommitOne \/ Break
  BY <1>3, CommitOneFacts DEF Quiet, Break, srvVars
<1>4. CASE \E c \in Calls : Push(c) /\ cst # "closed"
  BY <1>4, PushDoes
<1>5. ASSUME NEW c \in Calls, Handled(c) PROVE decided'[t] = decided[t]
  <2>1. committing = Nobody /\ t # Nobody
    BY <1>5, HandledFacts, NobodyAssumption
  <2>2. store[t] = NoTx
    BY <2>1 DEF Outcomes
  <2> QED
    BY <1>5, <2>2, Effects DEF Handled, TypeInv, TypeOK
<1> QED
  BY <1>1, <1>2, <1>3, <1>4, <1>5, Kinds DEF Handled

\* While the connection is served, BEGIN is handled once and not forgotten.
LEMMA BegunStep ==
  ASSUME BaseInv, Outcomes, [Next]_vars, sst' = "connected", NEW t \in Calls
  PROVE  /\ Begun(t) => Begun(t)'
         /\ Begun(t)' => Begun(t) \/ ServeBegin(t)
<1> USE DEF BaseInv
<1>1. CASE HandleConnect
  BY <1>1 DEF HandleConnect, Refuse, Begun
<1>2. CASE Quiet \/ Break
  BY <1>2 DEF Quiet, Break, srvVars, Begun
<1>3. CASE CommitOne
  <2>1. t = committing => decided[t] = "committed" /\ store[t] # NoTx
    BY <1>3 DEF CommitOne, Outcomes, TypeInv, Shape
  <2>2. t # committing => store'[t] = store[t]
    BY <1>3, CommitOneFacts
  <2>3. decided' = decided
    BY <1>3, CommitOneFacts
  <2> QED
    BY <2>1, <2>2, <2>3 DEF Begun
<1>4. CASE \E c \in Calls : Push(c) /\ cst # "closed"
  BY <1>4, PushDoes DEF Begun
<1>5. ASSUME NEW c \in Calls, ServeBegin(c)
      PROVE  /\ Begun(t) => Begun(t)'
             /\ Begun(t)' => Begun(t) \/ t = c
  <2>1. store' = [store EXCEPT ![c] = <<>>] /\ decided' = decided
    BY <1>5, Effects
  <2>2. <<>> # NoTx
    BY DEF NoTx
  <2> QED
    BY <2>1, <2>2 DEF Begun, TypeInv, TypeOK
<1>6. ASSUME NEW c \in Calls, ServeItem(c) \/ ServeCommit(c) \/ ServeAbort(c) \/ ServeSubs(c)
      PROVE  Begun(t)' <=> Begun(t)
  <2>1. CASE ServeItem(c)
    <3>1. UNCHANGED decided
      BY <2>1, Effects
    <3>2. CASE on[c] = Nobody
      BY <2>1, <3>1, <3>2, Effects DEF Begun
    <3>3. CASE on[c] # Nobody
      <4>1. /\ store[on[c]] # NoTx /\ Append(store[on[c]], c) # NoTx
            /\ store' = [store EXCEPT ![on[c]] = Append(store[on[c]], c)]
        BY <2>1, <3>3, Effects
      <4>2. store'[t] = IF t = on[c] THEN Append(store[on[c]], c) ELSE store[t]
        BY <4>1 DEF TypeInv, TypeOK
      <4> QED
        BY <3>1, <4>1, <4>2 DEF Begun
    <3> QED
      BY <3>2, <3>3
  <2>2. CASE ServeCommit(c)
    BY <2>2, Effects DEF Begun, TypeInv, TypeOK
  <2>3. CASE ServeAbort(c)
    BY <2>3, Effects DEF Begun, TypeInv, TypeOK
  <2>4. CASE ServeSubs(c)
    BY <2>4, Effects DEF Begun
  <2> QED
    BY <1>6, <2>1, <2>2, <2>3, <2>4
<1> QED
  BY <1>1, <1>2, <1>3, <1>4, <1>5, <1>6, Kinds

\* Every step keeps the transactions of the server in shape.
LEMMA OutcomesStep ==
  ASSUME BaseInv, Outcomes, PipeShape, [Next]_vars
  PROVE  Outcomes'
<1> USE DEF BaseInv
<1> SUFFICES ASSUME NEW t \in Calls
             PROVE  /\ ~Pushed(t)' => ~Begun(t)'
                    /\ store'[t] # NoTx =>
                         decided'[t] = IF committing' = t THEN "committed" ELSE "open"
                    /\ decided'[t] # "open" => \E d \in Calls :
                         EndOn(d, t)' /\ Pushed(d)' /\ Done(op'[d]) = decided'[t]
  BY DEF Outcomes
<1>1. ASSUME NEW d \in Calls, EndOn(d, t), Pushed(d)
      PROVE  EndOn(d, t)' /\ Pushed(d)' /\ op'[d] = op[d]
  BY <1>1, Stable, PushedStep DEF EndOn, Pushed
<1>2. decided'[t] = decided[t] => (decided'[t] # "open" => \E d \in Calls :
                         EndOn(d, t)' /\ Pushed(d)' /\ Done(op'[d]) = decided'[t])
  BY <1>1 DEF Outcomes
<1>3. ~Pushed(t)' => ~Begun(t)
  BY PushedStep DEF Outcomes
<1>4. CASE sst' # "connected"
  <2>1. decided' = decided /\ committing' = committing /\ store'[t] \in {store[t], NoTx}
    BY <1>4, Elsewhere
  <2> QED
    BY <1>2, <1>3, <2>1 DEF Begun, Outcomes
<1>5. CASE UNCHANGED <<store, decided, committing>>
  BY <1>2, <1>3, <1>5 DEF Begun, Outcomes
<1>6. CASE CommitOne
  <2>1. decided' = decided /\ (~Pushed(t)' => t # committing)
    BY <1>6, <1>3, CommitOneFacts DEF Begun, CommitOne, TypeInv, Shape
  <2>2. t # committing => store'[t] = store[t] /\ committing' # t
    BY <1>6, CommitOneFacts, NobodyAssumption
  <2>3. t = committing => store'[t] = NoTx \/ committing' = t
    BY <1>6, CommitOneFacts
  <2>4. t = committing => decided[t] = "committed"
    BY <1>6 DEF Outcomes, CommitOne, TypeInv, Shape
  <2> QED
    BY <1>2, <1>3, <2>1, <2>2, <2>3, <2>4 DEF Begun, Outcomes
<1>7. ASSUME NEW c \in Calls, Handled(c), sst' = "connected"
      PROVE  /\ ~Pushed(t)' => ~Begun(t)'
             /\ store'[t] # NoTx =>
                  decided'[t] = IF committing' = t THEN "committed" ELSE "open"
             /\ decided'[t] # "open" => \E d \in Calls :
                  EndOn(d, t)' /\ Pushed(d)' /\ Done(op'[d]) = decided'[t]
  <2>0. /\ Pipe[1] = c /\ 1 \in 1 .. Len(Pipe) /\ sst = "connected"
        /\ committing = Nobody /\ t # Nobody
    BY <1>7, HandledFacts, NobodyAssumption
  <2>1. Pushed(c) /\ (op[c] = "Begin" => ~Begun(c))
    BY <2>0 DEF PipeShape
  <2>2. Pushed(c)' /\ UNCHANGED <<op, on>>
    BY <1>7, <2>1, HandledFacts
  <2>3. ~Pushed(t)' => ~Begun(t)'
    <3>1. ServeBegin(t) => t = c
      BY <2>0, HandledFacts DEF Handled
    <3> QED
      BY <1>3, <1>7, <2>2, <3>1, BegunStep
  <2>4. CASE ServeBegin(c)
    <3>1. UNCHANGED <<decided, committing>> /\ (t # c => store'[t] = store[t]) /\ op[c] = "Begin"
      BY <2>4, Effects DEF TypeInv, TypeOK
    <3> QED
      BY <1>2, <2>0, <2>1, <2>3, <3>1 DEF Outcomes, Begun
  <2>5. CASE ServeItem(c)
    <3>1. UNCHANGED <<decided, committing>> /\ (store'[t] # NoTx => store[t] # NoTx)
      BY <2>5, Effects, ZenonT(30) DEF TypeInv, TypeOK
    <3> QED
      BY <1>2, <2>3, <3>1 DEF Outcomes
  <2>6. CASE ServeCommit(c)
    <3>1. /\ UNCHANGED store /\ committing' = on[c] /\ op[c] = "Commit" /\ on[c] \in Calls
          /\ decided'[t] = IF t = on[c] THEN "committed" ELSE decided[t]
      BY <2>6, Effects DEF TypeInv, TypeOK
    <3>2. t = on[c] => EndOn(c, t)' /\ Done(op'[c]) = "committed"
      BY <2>2, <3>1 DEF EndOn, EndOps, Done
    <3> QED
      BY <1>2, <2>0, <2>2, <2>3, <3>1, <3>2 DEF Outcomes
  <2>7. CASE ServeAbort(c)
    <3>1. /\ UNCHANGED committing /\ op[c] = "Abort" /\ on[c] \in Calls
          /\ decided'[t] = IF t = on[c] THEN "aborted" ELSE decided[t]
          /\ store'[t] = IF t = on[c] THEN NoTx ELSE store[t]
      BY <2>7, Effects DEF TypeInv, TypeOK
    <3>2. t = on[c] => EndOn(c, t)' /\ Done(op'[c]) = "aborted"
      BY <2>2, <3>1 DEF EndOn, EndOps, Done
    <3> QED
      BY <1>2, <2>0, <2>2, <2>3, <3>1, <3>2 DEF Outcomes
  <2>8. CASE ServeSubs(c)
    <3>1. UNCHANGED <<store, decided, committing>>
      BY <2>8, Effects
    <3> QED
      BY <1>5, <3>1
  <2> QED
    BY <1>7, <2>4, <2>5, <2>6, <2>7, <2>8 DEF Handled
<1>8. CASE sst' = "connected" /\ HandleConnect
  BY <1>5, <1>8 DEF HandleConnect, Refuse
<1>9. CASE Quiet \/ Break
  BY <1>5, <1>9 DEF Quiet, Break, srvVars
<1>10. CASE \E c \in Calls : Push(c) /\ cst # "closed"
  BY <1>5, <1>10, PushDoes
<1> QED
  BY <1>4, <1>6, <1>7, <1>8, <1>9, <1>10, Kinds DEF Handled

\* Every step keeps the frames to the server in shape.
LEMMA PipeShapeStep ==
  ASSUME BaseInv, Outcomes, PipeShape, [Next]_vars
  PROVE  PipeShape'
<1> USE DEF BaseInv
<1> SUFFICES ASSUME sst' = "connected" PROVE PipeShape'
  BY DEF PipeShape
<1> DEFINE Frame(d, t) == ItemOn(d, t) \/ EndOn(d, t)
<1>0. Pipe \in Seq(Calls) /\ Pipe' \in Seq(Calls)
  <2>1. TypeInv'
    BY TypeStep
  <2> QED
    BY <2>1, PipeType DEF Pipe, TypeInv, TypeOK
<1>1. CASE HandleConnect
  <2>1. Pipe' = <<>> /\ \A t \in Calls : ~Pushed(t)'
    BY <1>1 DEF HandleConnect, Early, Pipe, Pushed, callVars
  <2> QED
    BY <2>1 DEF PipeShape
<1> SUFFICES ASSUME sst = "connected" PROVE PipeShape'
  BY <1>1, Kinds
<1> DEFINE s == Pipe
<1>2. /\ s \in Seq(Calls)
      /\ \A i \in 1 .. Len(s) : s[i] \in Calls /\ Pushed(s[i])
      /\ \A i, j \in 1 .. Len(s) : i # j => s[i] # s[j]
      /\ \A i \in 1 .. Len(s) : op[s[i]] = "Begin" => ~Begun(s[i])
      /\ \A t \in Calls, j \in 1 .. Len(s) : Frame(s[j], t) =>
           Begun(t) \/ \E i \in 1 .. j - 1 : s[i] = t
      /\ link = "up" => \A t \in Calls : op[t] = "Begin" /\ Pushed(t) =>
           Begun(t) \/ \E i \in 1 .. Len(s) : s[i] = t
  BY <1>0 DEF PipeShape
<1>3. ASSUME NEW d \in Calls, Pushed(d)
      PROVE  Pushed(d)' /\ op'[d] = op[d] /\ on'[d] = on[d]
  BY <1>3, Stable, PushedStep DEF Pushed
<1>4. ASSUME NEW d \in Calls, Pushed(d), NEW t \in Calls
      PROVE  (Frame(d, t))' => Frame(d, t)
  BY <1>3, <1>4 DEF ItemOn, EndOn
<1>5. ASSUME Pipe' = s, UNCHANGED link,
             \A d \in Calls : Pushed(d)' => Pushed(d),
             \A d \in Calls : Begun(d)' <=> Begun(d)
      PROVE  PipeShape'
  BY <1>2, <1>3, <1>4, <1>5 DEF PipeShape
<1>6. CASE Quiet
  <2>1. \A d \in Calls : Begun(d)' <=> Begun(d)
    BY <1>6 DEF Quiet, Begun
  <2> QED
    BY <1>5, <1>6, <2>1 DEF Quiet
<1>7. CASE CommitOne
  <2>1. ~\E d \in Calls : ServeBegin(d)
    BY <1>7 DEF CommitOne, ServeBegin, Serving
  <2>2. \A d \in Calls : Begun(d)' <=> Begun(d)
    BY <2>1, BegunStep
  <2> QED
    BY <1>5, <1>7, <2>2, CommitOneFacts
<1>8. CASE Break
  <2>1. /\ \A d \in Calls : Begun(d)' <=> Begun(d)
        /\ \A d \in Calls : Pushed(d)' => Pushed(d)
    BY <1>8 DEF Break, srvVars, callVars, Begun, Pushed
  <2>2. /\ link' = "down" /\ Len(Pipe') <= Len(s)
        /\ \A i \in 1 .. Len(Pipe') : i \in 1 .. Len(s) /\ Pipe'[i] = s[i]
    BY <1>8, BreakPipe
  <2> HIDE DEF s
  <2>3. \A i \in 1 .. Len(Pipe') : op'[Pipe'[i]] = op[s[i]]
    BY <1>2, <1>3, <2>2
  <2>4. \A t \in Calls, j \in 1 .. Len(Pipe') : (Frame(Pipe[j], t))' =>
          Begun(t)' \/ \E i \in 1 .. j - 1 : Pipe'[i] = t
    <3> SUFFICES ASSUME NEW t \in Calls, NEW j \in 1 .. Len(Pipe'), NEW d \in Calls,
                        d = Pipe'[j], (Frame(d, t))'
                 PROVE  Begun(t)' \/ \E i \in 1 .. j - 1 : Pipe'[i] = t
      BY <1>0
    <3>1. j \in 1 .. Len(s) /\ d = s[j] /\ Frame(s[j], t)
      BY <1>2, <1>4, <2>2
    <3>2. Begun(t) \/ \E i \in 1 .. j - 1 : s[i] = t
      BY <1>2, <3>1
    <3>3. \A i \in 1 .. j - 1 : i \in 1 .. Len(Pipe')
      BY <1>0
    <3> QED
      BY <2>1, <2>2, <3>2, <3>3
  <2> QED
    BY <1>2, <1>3, <2>1, <2>2, <2>3, <2>4 DEF PipeShape
<1>9. ASSUME NEW c \in Calls, Push(c), cst # "closed" PROVE PipeShape'
  <2>1. /\ ~Pushed(c) /\ Pushed(c)' /\ \A d \in Calls : Pushed(d)' <=> Pushed(d) \/ d = c
        /\ UNCHANGED <<op, on, link>>
        /\ Pipe' = IF link = "up" THEN Append(s, c) ELSE s
    BY <1>9, PushDoes, PushPipe
  <2>2. \A d \in Calls : Begun(d)' <=> Begun(d)
    BY <1>9, PushDoes DEF Begun
  <2>3. ~Begun(c)
    BY <2>1 DEF Outcomes
  <2>4. ASSUME link = "up", NEW t \in Calls, Frame(c, t)
        PROVE  Begun(t) \/ \E i \in 1 .. Len(s) : s[i] = t
    <3>1. t \in Transactions
      BY <2>4, NobodyAssumption DEF CallShape, ItemOn, EndOn
    <3>2. op[t] = "Begin" /\ pc[t] = "done" /\ on[t] = Nobody
      BY <3>1 DEF Transactions, CallShape
    <3>3. Pushed(t)
      BY <1>9, <3>2 DEF Pushed, CallShape
    <3> QED
      BY <1>2, <2>4, <3>2, <3>3
  <2> HIDE DEF s
  <2>5. CASE link = "up"
    <3>0. /\ Len(Pipe') = Len(s) + 1 /\ Pipe'[Len(s) + 1] = c /\ Len(s) \in Nat
          /\ \A i \in 1 .. Len(s) : Pipe'[i] = s[i]
      BY <1>2, <2>1, <2>5
    <3>1. \A i \in 1 .. Len(Pipe') : Pushed(Pipe[i])'
      <4> SUFFICES ASSUME NEW i \in 1 .. Len(Pipe'), NEW d \in Calls, d = Pipe'[i]
                   PROVE  Pushed(d)'
        BY <1>0
      <4> QED
        BY <1>2, <2>1, <3>0
    <3>2. \A i, j \in 1 .. Len(Pipe') : i # j => Pipe'[i] # Pipe'[j]
      BY <1>2, <2>1, <3>0
    <3>3. \A i \in 1 .. Len(Pipe') : op'[Pipe'[i]] = "Begin" => ~Begun(Pipe[i])'
      <4> SUFFICES ASSUME NEW i \in 1 .. Len(Pipe'), NEW d \in Calls, d = Pipe'[i],
                          op[d] = "Begin"
                   PROVE  ~Begun(d)'
        BY <1>0, <2>1
      <4> QED
        BY <1>2, <2>2, <2>3, <3>0
    <3>4. \A t \in Calls, j \in 1 .. Len(Pipe') : (Frame(Pipe[j], t))' =>
            Begun(t)' \/ \E i \in 1 .. j - 1 : Pipe'[i] = t
      <4> SUFFICES ASSUME NEW t \in Calls, NEW j \in 1 .. Len(Pipe'), NEW d \in Calls,
                          d = Pipe'[j], (Frame(d, t))'
                   PROVE  Begun(t)' \/ \E i \in 1 .. j - 1 : Pipe'[i] = t
        BY <1>0
      <4>1. Frame(d, t)
        BY <2>1 DEF ItemOn, EndOn
      <4>2. CASE j = Len(s) + 1
        <5>1. Begun(t) \/ \E i \in 1 .. Len(s) : s[i] = t
          BY <2>4, <2>5, <3>0, <4>1, <4>2
        <5> QED
          BY <2>2, <3>0, <4>2, <5>1
      <4>3. CASE j # Len(s) + 1
        <5>1. j \in 1 .. Len(s) /\ d = s[j]
          BY <3>0, <4>3
        <5>2. Begun(t) \/ \E i \in 1 .. j - 1 : s[i] = t
          BY <1>2, <4>1, <5>1
        <5>3. \A i \in 1 .. j - 1 : i \in 1 .. Len(s)
          BY <3>0, <5>1
        <5> QED
          BY <2>2, <3>0, <5>2, <5>3
      <4> QED
        BY <4>2, <4>3
    <3>5. \A t \in Calls : op'[t] = "Begin" /\ Pushed(t)' =>
            Begun(t)' \/ \E i \in 1 .. Len(Pipe') : Pipe'[i] = t
      <4> SUFFICES ASSUME NEW t \in Calls, op[t] = "Begin", Pushed(t) \/ t = c
                   PROVE  Begun(t)' \/ \E i \in 1 .. Len(Pipe') : Pipe'[i] = t
        BY <2>1
      <4>1. CASE t = c
        BY <3>0, <4>1
      <4>2. CASE t # c
        <5>1. Begun(t) \/ \E i \in 1 .. Len(s) : s[i] = t
          BY <1>2, <2>5, <4>2
        <5>2. \A i \in 1 .. Len(s) : i \in 1 .. Len(Pipe')
          BY <3>0
        <5> QED
          BY <2>2, <3>0, <5>1, <5>2
      <4> QED
        BY <4>1, <4>2
    <3> QED
      BY <3>1, <3>2, <3>3, <3>4, <3>5 DEF PipeShape
  <2>6. CASE link # "up"
    BY <1>2, <1>3, <1>4, <2>1, <2>2, <2>6 DEF PipeShape
  <2> QED
    BY <2>5, <2>6
<1>10. ASSUME NEW c \in Calls, Handled(c) PROVE PipeShape'
  <2>1. /\ UNCHANGED <<op, on, link>> /\ Len(s) \in Nat \ {0} /\ s[1] = c
        /\ Len(Pipe') = Len(s) - 1 /\ \A i \in 1 .. Len(Pipe') : Pipe'[i] = s[i + 1]
        /\ \A d \in Calls : Pushed(d)' <=> Pushed(d)
    BY <1>10, HandledFacts
  <2>2. \A d \in Calls : (Begun(d) => Begun(d)') /\ (Begun(d)' => Begun(d) \/ d = c)
    <3>1. ASSUME NEW d \in Calls, ServeBegin(d) PROVE d = c
      BY <3>1, <2>1, HandledFacts DEF Handled
    <3> QED
      BY <3>1, BegunStep
  <2>3. op[c] = "Begin" => Begun(c)'
    <3>1. op[c] = "Begin" => store' = [store EXCEPT ![c] = <<>>]
      BY <1>10, HandledFacts, Effects
    <3>2. <<>> # NoTx
      BY DEF NoTx
    <3> QED
      BY <3>1, <3>2 DEF Begun, TypeInv, TypeOK
  <2> HIDE DEF s
  <2>4. \A i \in 1 .. Len(Pipe') : i + 1 \in 1 .. Len(s) /\ i + 1 # 1
    BY <2>1
  <2>5. \A i \in 1 .. Len(Pipe') : Pushed(Pipe[i])'
    <3> SUFFICES ASSUME NEW i \in 1 .. Len(Pipe'), NEW d \in Calls, d = Pipe'[i]
                 PROVE  Pushed(d)'
      BY <1>0
    <3> QED
      BY <1>2, <2>1, <2>4
  <2>6. \A i, j \in 1 .. Len(Pipe') : i # j => Pipe'[i] # Pipe'[j]
    BY <1>2, <2>1, <2>4
  <2>7. \A i \in 1 .. Len(Pipe') : op'[Pipe'[i]] = "Begin" => ~Begun(Pipe[i])'
    <3> SUFFICES ASSUME NEW i \in 1 .. Len(Pipe'), NEW d \in Calls, d = Pipe'[i],
                        op[d] = "Begin"
                 PROVE  ~Begun(d)'
      BY <1>0, <2>1
    <3>0. i + 1 \in 1 .. Len(s) /\ i + 1 # 1 /\ 1 \in 1 .. Len(s) /\ d = s[i + 1]
      BY <2>1, <2>4
    <3>1. d = s[i + 1] /\ d # c
      BY <1>2, <2>1, <3>0
    <3> QED
      BY <1>2, <2>2, <2>4, <3>1
  <2>8. ASSUME NEW t \in Calls, NEW j \in 1 .. Len(s), j # 1, s[j] = t, op[t] = "Begin"
        PROVE  j - 1 \in 1 .. Len(Pipe') /\ Pipe'[j - 1] = t
    BY <2>1, <2>8
  <2>9. \A t \in Calls, j \in 1 .. Len(Pipe') : (Frame(Pipe[j], t))' =>
          Begun(t)' \/ \E i \in 1 .. j - 1 : Pipe'[i] = t
    <3> SUFFICES ASSUME NEW t \in Calls, NEW j \in 1 .. Len(Pipe'), NEW d \in Calls,
                        d = Pipe'[j], (Frame(d, t))'
                 PROVE  Begun(t)' \/ \E i \in 1 .. j - 1 : Pipe'[i] = t
      BY <1>0
    <3>1. Frame(d, t) /\ d = s[j + 1] /\ j + 1 \in 1 .. Len(s)
      BY <2>1, <2>4 DEF ItemOn, EndOn
    <3>2. op[t] = "Begin"
      BY <3>1, NobodyAssumption DEF CallShape, Transactions, ItemOn, EndOn
    <3>3. Begun(t) \/ \E i \in 1 .. j : s[i] = t
      <4>1. Begun(t) \/ \E i \in 1 .. (j + 1) - 1 : s[i] = t
        BY <1>2, <3>1
      <4> QED
        BY <4>1
    <3>4. ASSUME NEW i \in 1 .. j, s[i] = t PROVE Begun(t)' \/ \E k \in 1 .. j - 1 : Pipe'[k] = t
      <4>1. CASE i = 1
        BY <2>1, <2>3, <3>2, <3>4, <4>1
      <4>2. CASE i # 1
        <5>1. i - 1 \in 1 .. j - 1 /\ Pipe'[i - 1] = t
          BY <2>1, <3>4, <4>2
        <5> QED
          BY <5>1
      <4> QED
        BY <4>1, <4>2
    <3> QED
      BY <2>2, <3>3, <3>4
  <2>10. ASSUME link = "up", NEW t \in Calls, op[t] = "Begin", Pushed(t)
         PROVE  Begun(t)' \/ \E i \in 1 .. Len(Pipe') : Pipe'[i] = t
    <3>1. Begun(t) \/ \E i \in 1 .. Len(s) : s[i] = t
      BY <1>2, <2>10
    <3>2. ASSUME s[1] = t PROVE Begun(t)'
      BY <2>1, <2>3, <2>10, <3>2
    <3> QED
      BY <2>2, <2>8, <2>10, <3>1, <3>2
  <2> QED
    BY <2>1, <2>5, <2>6, <2>7, <2>9, <2>10 DEF PipeShape
<1> QED
  BY <1>1, <1>6, <1>7, <1>8, <1>9, <1>10, Kinds DEF Handled

\* What holds of the transactions of the server and of the frames to it.
TxBase == BaseInv /\ Outcomes /\ PipeShape

\* The first state satisfies the invariant.
LEMMA TxBaseInit == Init => TxBase
<1> SUFFICES ASSUME Init PROVE TxBase
  OBVIOUS
<1>1. BaseInv
  BY InitBase
<1>2. Outcomes /\ PipeShape
  BY DEF Init, Outcomes, PipeShape, Begun
<1> QED
  BY <1>1, <1>2 DEF TxBase

\* Every step keeps the invariant.
LEMMA TxBaseStep == TxBase /\ [Next]_vars => TxBase'
BY BaseStep, OutcomesStep, PipeShapeStep DEF TxBase

\* The frame that the server has in its hands is the first of Pipe; when it is
\* one of a transaction, its BEGIN has been handled.
LEMMA FirstFrame ==
  ASSUME TxBase, NEW c \in Calls, Serving(c), UNCHANGED <<link, writeCh>>
  PROVE  /\ Pushed(c) /\ 1 \in 1 .. Len(Pipe) /\ Pipe[1] = c
         /\ \A t \in Calls : ItemOn(c, t) \/ EndOn(c, t) => Begun(t)
<1>1. sst = "connected"
  BY DEF Serving
<1>2. 1 \in 1 .. Len(Pipe) /\ Pipe[1] = c
  BY ServePipe DEF TxBase, BaseInv
<1> QED
  BY <1>1, <1>2 DEF TxBase, PipeShape
-----------------------------------------------------------------------------
(***************************************************************************)
(* What a receipt says of the decision of the server.                      *)
(***************************************************************************)
Fulfilled(c) ==
  \/ decided[on[c]] = Done(op[c])
  \/ \E d \in Calls : on[d] = on[c] /\ op[d] = Opposite(op[c]) /\ Pushed(d)

\* A RECEIPT on its way says the same as one that was read.
Receipted ==
  /\ \A c \in Calls, i \in 1 .. Len(back) : back[i] = [kind |-> "RECEIPT", id |-> c] =>
       Pushed(c) /\ (op[c] \in EndOps => Fulfilled(c))
  /\ \A c \in Calls : op[c] \in EndOps /\ rcpt[c] /\ ret[c] = "nil" => Fulfilled(c)

\* What a receipt promised stays done.
LEMMA FulfilledStays ==
  ASSUME TxBase, [Next]_vars, NEW c \in Calls, pc[c] # "idle", op[c] \in EndOps, Fulfilled(c)
  PROVE  Fulfilled(c)'
<1> USE DEF TxBase, BaseInv
<1>1. op'[c] = op[c] /\ on'[c] = on[c] /\ on[c] \in Calls
  BY Stable DEF TypeInv, Shape
<1>2. CASE decided[on[c]] = Done(op[c])
  <2>1. decided[on[c]] # "open"
    BY <1>2 DEF Done
  <2> QED
    BY <1>1, <1>2, <2>1, OutcomeFinal DEF Fulfilled
<1>3. ASSUME NEW d \in Calls, on[d] = on[c], op[d] = Opposite(op[c]), Pushed(d)
      PROVE  on'[d] = on'[c] /\ op'[d] = Opposite(op'[c]) /\ Pushed(d)'
  BY <1>1, <1>3, Stable, PushedStep DEF Pushed
<1> QED
  BY <1>2, <1>3 DEF Fulfilled

\* When a call of COMMIT or ABORT with a receipt returns nil, its RECEIPT has
\* been read.
LEMMA NilNew ==
  ASSUME BaseInv, [Next]_vars, NEW c \in Calls, op[c] \in EndOps, rcpt[c],
         ret'[c] = "nil", ret[c] # "nil"
  PROVE  /\ 1 \in 1 .. Len(back) /\ back[1] = [kind |-> "RECEIPT", id |-> c]
         /\ pc[c] # "idle"
<1> USE DEF BaseInv, callVars, netVars, srvVars, srvRest
<1>1. PLReceipt
  <2>1. ASSUME NEW d \in Calls, Call(d) PROVE FALSE
    <3>1. PICK o \in AllOps, x \in Calls \cup {Nobody}, r \in BOOLEAN : CallWith(d, o, x, r)
      BY <2>1, CallChoice
    <3> QED
      BY <3>1 DEF CallWith, TypeInv, TypeOK
  <2>2. ASSUME NEW d \in Calls, Push(d) \/ Timeout(d) \/ Mark(d) PROVE FALSE
    BY <2>2 DEF Push, Timeout, Mark, TypeInv, TypeOK
  <2>3. ASSUME NEW d \in Calls,
               \/ ServeBegin(d) \/ ServeItem(d) \/ ServeCommit(d) \/ ServeAbort(d)
               \/ ServeSubs(d) \/ ServeRefuse(d) \/ ServeNoReply(d)
        PROVE  FALSE
    BY <2>3 DEF ServeBegin, ServeItem, ServeCommit, ServeAbort, ServeSubs, ServeRefuse,
                ServeNoReply
  <2>4. ~\/ HandleConnect \/ Connect \/ CommitOne \/ ServerEof \/ Break \/ UNCHANGED vars
    BY DEF HandleConnect, Connect, CommitOne, ServerEof, Break, vars
  <2>5. ASSUME NEW S, Answer(S, "error") PROVE FALSE
    BY <2>5 DEF Answer, EndOps
  <2>6. ~PLError /\ ~PLWrite
    <3>1. ASSUME NEW ch, EndAll(ch) PROVE FALSE
      BY <2>5, <3>1 DEF EndAll
    <3> QED
      BY <3>1 DEF PLError, PLWrite
  <2> QED
    BY <2>1, <2>2, <2>3, <2>4, <2>6 DEF Next, ClientStep, ServerStep
<1>2. /\ back # <<>> /\ Head(back).kind = "RECEIPT" /\ Answer({Head(back).id}, "nil")
  BY <1>1 DEF PLReceipt
<1>3. pc[c] = "wait" /\ Head(back).id = c
  BY <1>2 DEF Answer, WaitsOn, EndOps
<1>4. 1 \in 1 .. Len(back) /\ back[1] = Head(back) /\ back[1] \in Frames
  BY <1>2 DEF TypeInv, TypeOK
<1>5. back[1] = [kind |-> "RECEIPT", id |-> c]
  BY <1>2, <1>3, <1>4 DEF Frames
<1> QED
  BY <1>3, <1>4, <1>5

\* A RECEIPT of a COMMIT or ABORT is written only when it is fulfilled with it.
LEMMA ReceiptedStep ==
  ASSUME TxBase, Receipted, [Next]_vars
  PROVE  Receipted'
<1> USE DEF TxBase, BaseInv
<1>1. ASSUME NEW c \in Calls, NEW i \in 1 .. Len(back'),
             back'[i] = [kind |-> "RECEIPT", id |-> c]
      PROVE  Pushed(c)' /\ (op'[c] \in EndOps => Fulfilled(c)')
  <2>1. ASSUME Pushed(c), op[c] \in EndOps => Fulfilled(c) \/ Fulfilled(c)'
        PROVE  Pushed(c)' /\ (op'[c] \in EndOps => Fulfilled(c)')
    <3>1. pc[c] # "idle"
      BY <2>1 DEF Pushed
    <3> QED
      BY <2>1, <3>1, Stable, PushedStep, FulfilledStays
  <2>2. CASE \E j \in 1 .. Len(back) : back'[i] = back[j]
    BY <1>1, <2>1, <2>2 DEF Receipted
  <2>3. CASE Replying(c)
    <3>1. Serving(c) /\ UNCHANGED <<link, writeCh, op, on>>
      BY <2>3 DEF Replying, ServeItem, ServeCommit, ServeAbort, ServeRefuse, srvRest, callVars
    <3>2. Pushed(c) /\ \A t \in Calls : ItemOn(c, t) \/ EndOn(c, t) => Begun(t)
      BY <3>1, FirstFrame
    <3>3. CASE ServeItem(c)
      BY <2>1, <3>2, <3>3 DEF ServeItem, ItemOps, EndOps
    <3>4. CASE ServeCommit(c)
      <4>1. /\ decided' = [decided EXCEPT ![on[c]] = "committed"] /\ op[c] = "Commit"
            /\ on[c] \in Calls
        BY <3>4, Effects
      <4>2. decided'[on'[c]] = Done(op'[c])
        BY <3>1, <4>1 DEF Done, TypeInv, TypeOK
      <4> QED
        BY <2>1, <3>2, <4>2 DEF Fulfilled
    <3>5. CASE ServeAbort(c)
      <4>1. /\ decided' = [decided EXCEPT ![on[c]] = "aborted"] /\ op[c] = "Abort"
            /\ on[c] \in Calls
        BY <3>5, Effects
      <4>2. decided'[on'[c]] = Done(op'[c])
        BY <3>1, <4>1 DEF Done, TypeInv, TypeOK
      <4> QED
        BY <2>1, <3>2, <4>2 DEF Fulfilled
    <3>6. ASSUME ServeRefuse(c), op[c] \in EndOps PROVE Fulfilled(c)
      <4>1. on[c] \in Calls /\ EndOn(c, on[c])
        BY <3>6 DEF TypeInv, Shape, EndOn
      <4>2. Unknown(c)
        BY <3>6 DEF ServeRefuse, BadHeader, EndOps
      <4>3. decided[on[c]] # "open"
        BY <3>2, <4>1, <4>2 DEF Unknown, Begun
      <4>4. PICK d \in Calls : EndOn(d, on[c]) /\ Pushed(d) /\ Done(op[d]) = decided[on[c]]
        BY <4>1, <4>3 DEF Outcomes
      <4>5. op[d] = op[c] \/ op[d] = Opposite(op[c])
        BY <3>6, <4>4 DEF EndOn, EndOps, Opposite
      <4> QED
        BY <4>4, <4>5 DEF Fulfilled, EndOn
    <3> QED
      BY <2>1, <2>3, <3>2, <3>3, <3>4, <3>5, <3>6 DEF Replying
  <2>4. \/ \E j \in 1 .. Len(back) : back'[i] = back[j]
        \/ Replying(c)
    <3>1. back'[i].kind = "RECEIPT" /\ \A d : back'[i] = [kind |-> "RECEIPT", id |-> d] => d = c
      BY <1>1
    <3>2. back'[i] # [kind |-> "CONNECTED", ver |-> sversion']
      BY <3>1
    <3> QED
      BY <3>1, <3>2, NewFrame
  <2> QED
    BY <2>2, <2>3, <2>4
<1>2. ASSUME NEW c \in Calls, op'[c] \in EndOps, rcpt'[c], ret'[c] = "nil"
      PROVE  Fulfilled(c)'
  <2>1. pc[c] # "idle"
    <3>1. ASSUME Call(c) PROVE ret'[c] # "nil"
      <4>1. PICK o \in AllOps, x \in Calls \cup {Nobody}, r \in BOOLEAN : CallWith(c, o, x, r)
        BY <3>1, CallChoice
      <4>2. ret[c] = "none"
        BY <3>1 DEF Call, CallShape
      <4> QED
        BY <4>1, <4>2 DEF CallWith, TypeInv, TypeOK
    <3>2. ASSUME pc[c] = "idle", NEW d \in Calls, d # c, Call(d) PROVE ret'[c] = ret[c]
      <4>1. PICK o \in AllOps, x \in Calls \cup {Nobody}, r \in BOOLEAN : CallWith(d, o, x, r)
        BY <3>2, CallChoice
      <4> QED
        BY <3>2, <4>1 DEF CallWith, TypeInv, TypeOK
    <3>3. ASSUME pc[c] = "idle", NEW d \in Calls, Push(d) \/ Mark(d) PROVE ret'[c] = ret[c]
      BY <3>3 DEF Push, Mark, TypeInv, TypeOK
    <3>4. ASSUME pc[c] = "idle", Settled PROVE ret'[c] = ret[c]
      BY <3>4 DEF Settled
    <3>5. pc[c] = "idle" => ret[c] = "none"
      BY DEF CallShape
    <3> QED
      BY <1>2, <3>1, <3>2, <3>3, <3>4, <3>5, CallStep
  <2>2. op[c] \in EndOps /\ rcpt[c]
    BY <1>2, <2>1, Stable
  <2>3. Fulfilled(c)
    BY <1>2, <2>2, NilNew DEF Receipted
  <2> QED
    BY <2>1, <2>2, <2>3, FulfilledStays
<1> QED
  BY <1>1, <1>2 DEF Receipted
-----------------------------------------------------------------------------
(***************************************************************************)
(* Which frames are refused.                                               *)
(***************************************************************************)
OnTx(c, t) == ItemOn(c, t) \/ EndOn(c, t)

\* Where calls on a transaction do not overlap, a COMMIT or ABORT starts when
\* the calls before it have returned, and the next call after it finds completed.
Rivals ==
  \A t \in Calls \ raced : \A d, e \in Calls :
    EndOn(d, t) /\ (InCall(d) \/ Pushed(d)) /\ e # d /\ OnTx(e, t) => pc[e] = "done"

\* So the COMMIT or ABORT is the last frame of its transaction.
LastFrame ==
  sst = "connected" =>
    \A t \in Calls \ raced :
      /\ \A i, j \in 1 .. Len(Pipe) : i < j /\ EndOn(Pipe[i], t) => ~OnTx(Pipe[j], t)
      /\ decided[t] # "open" => \A i \in 1 .. Len(Pipe) : ~OnTx(Pipe[i], t)

\* The call whose frame was refused.
Caused == cause \in Calls => Pushed(cause) /\ on[cause] \in raced

\* Calls on a transaction overlap only where raced says so.
LEMMA RivalsStep ==
  ASSUME BaseInv, Rivals, [Next]_vars
  PROVE  Rivals'
<1> USE DEF BaseInv
<1> SUFFICES ASSUME NEW t \in Calls \ raced', NEW d \in Calls, NEW e \in Calls, e # d,
                    EndOn(d, t)', InCall(d)' \/ Pushed(d)', OnTx(e, t)'
             PROVE  pc'[e] = "done"
  BY DEF Rivals
<1>1. t \in Calls \ raced
  BY Stable
<1>2. ASSUME EndOn(d, t), InCall(d) \/ Pushed(d), OnTx(e, t)
      PROVE  pc'[e] = "done"
  BY <1>1, <1>2, Stable DEF Rivals
<1>3. ASSUME NEW c \in Calls, pc[c] # "idle"
      PROVE  (EndOn(c, t)' => EndOn(c, t)) /\ (OnTx(c, t)' => OnTx(c, t))
  BY <1>3, Stable DEF EndOn, ItemOn, OnTx
<1>4. ASSUME NEW c \in Calls, pc[c] = "idle", ~Call(c)
      PROVE  pc'[c] = "idle" /\ UNCHANGED <<op[c], on[c]>>
  <2>1. ASSUME NEW x \in Calls, Call(x) PROVE pc'[c] = "idle" /\ UNCHANGED <<op[c], on[c]>>
    <3>1. PICK o \in AllOps, y \in Calls \cup {Nobody}, r \in BOOLEAN : CallWith(x, o, y, r)
      BY <2>1, CallChoice
    <3>2. x # c
      BY <1>4, <2>1
    <3> QED
      BY <1>4, <3>1, <3>2 DEF CallWith, TypeInv, TypeOK
  <2>2. ASSUME NEW x \in Calls, Push(x) \/ Mark(x) PROVE pc'[c] = "idle" /\ UNCHANGED <<op[c], on[c]>>
    BY <1>4, <2>2 DEF Push, Mark, TypeInv, TypeOK
  <2>3. CASE Settled
    BY <1>4, <2>3 DEF Settled
  <2> QED
    BY <2>1, <2>2, <2>3, CallStep
<1>5. ASSUME NEW c \in Calls, pc[c] = "idle", OnTx(c, t)' PROVE Call(c)
  <2>1. op[c] = "none"
    BY <1>5 DEF CallShape
  <2> QED
    BY <1>4, <1>5, <2>1 DEF OnTx, ItemOn, EndOn, ItemOps, EndOps
<1>6. ASSUME ~Call(d) PROVE InCall(d) \/ Pushed(d)
  <2>1. CASE Pushed(d)'
    BY <2>1, PushedStep DEF InCall, Push
  <2>2. CASE InCall(d)'
    <3>1. ASSUME NEW x \in Calls, Call(x) PROVE pc'[d] = pc[d]
      <4>1. PICK o \in AllOps, y \in Calls \cup {Nobody}, r \in BOOLEAN : CallWith(x, o, y, r)
        BY <3>1, CallChoice
      <4>2. x # d
        BY <1>6, <3>1
      <4> QED
        BY <4>1, <4>2 DEF CallWith, TypeInv, TypeOK
    <3>2. ASSUME NEW x \in Calls, Push(x) \/ Mark(x) PROVE pc'[d] = pc[d] \/ pc[d] \in {"push", "mark"}
      BY <3>2 DEF Push, Mark, TypeInv, TypeOK
    <3>3. CASE Settled
      BY <2>2, <3>3 DEF Settled, InCall
    <3> QED
      BY <2>2, <3>1, <3>2, <3>3, CallStep DEF InCall
  <2> QED
    BY <2>1, <2>2
\* The choices of a call that starts on t and is not turned away.
<1>7. ASSUME NEW c \in Calls, Call(c), OnTx(c, t)', pc'[c] # "done"
      PROVE  /\ t \notin completed
             /\ \A x \in Calls : on[x] = t /\ op[x] \in ItemOps \cup EndOps =>
                  /\ ~(InCall(x) /\ {op'[c], op[x]} \cap EndOps # {})
                  /\ ~(op[x] \in EndOps /\ ret[x] \in {"timeout", "error"})
  <2>1. PICK o \in AllOps, y \in Calls \cup {Nobody}, r \in BOOLEAN : CallWith(c, o, y, r)
    BY <1>7, CallChoice
  <2>2. op'[c] = o /\ y = t
    BY <1>7, <2>1 DEF CallWith, TypeInv, TypeOK, OnTx, ItemOn, EndOn
  <2>3. t \notin completed
    BY <1>7, <2>1, <2>2 DEF CallWith, TypeInv, TypeOK
  <2>4. ~Meets(t, o)
    BY <2>1, <2>2, <2>3 DEF CallWith
  <2> QED
    BY <2>2, <2>3, <2>4 DEF Meets
<1>8. CASE Call(e)
  <2> SUFFICES ASSUME pc'[e] # "done" PROVE FALSE
    OBVIOUS
  <2>1. pc[e] = "idle" /\ ~Call(d)
    <3>1. PICK o \in AllOps, y \in Calls \cup {Nobody}, r \in BOOLEAN : CallWith(e, o, y, r)
      BY <1>8, CallChoice
    <3>2. pc'[d] = pc[d]
      BY <3>1 DEF CallWith, TypeInv, TypeOK
    <3>3. ~Call(d)
      <4> SUFFICES ASSUME Call(d) PROVE FALSE
        OBVIOUS
      <4>1. PICK oo \in AllOps, z \in Calls \cup {Nobody}, q \in BOOLEAN : CallWith(d, oo, z, q)
        BY CallChoice
      <4> QED
        BY <3>2, <4>1 DEF Call, CallWith, TypeInv, TypeOK
    <3> QED
      BY <1>8, <3>3 DEF Call
  <2>2. EndOn(d, t) /\ (InCall(d) \/ Pushed(d))
    BY <1>3, <1>5, <1>6, <2>1 DEF OnTx
  <2>3. /\ t \notin completed /\ ~InCall(d) /\ ret[d] \notin {"timeout", "error"}
    BY <1>7, <1>8, <2>2 DEF EndOn
  <2>4. pc[d] = "done" /\ ret[d] \notin {"completed", "closed", "none"}
    BY <2>2, <2>3 DEF Pushed, InCall, CallShape
  <2>5. ret[d] = "nil"
    BY <2>3, <2>4 DEF TypeInv, TypeOK
  <2> QED
    BY <2>2, <2>3, <2>4, <2>5 DEF CallShape, EndOn
<1>9. CASE Call(d) /\ ~Call(e)
  <2>1. PICK o \in AllOps, y \in Calls \cup {Nobody}, r \in BOOLEAN : CallWith(d, o, y, r)
    BY <1>9, CallChoice
  <2>2. pc'[d] # "done"
    BY <2>1 DEF CallWith, TypeInv, TypeOK, InCall, Pushed
  <2>3. pc[e] # "idle" /\ OnTx(e, t) /\ pc'[e] = pc[e]
    BY <1>3, <1>5, <1>9, <2>1 DEF CallWith, TypeInv, TypeOK
  <2>4. ~InCall(e)
    BY <1>7, <1>9, <2>2, <2>3 DEF OnTx, EndOn, ItemOn
  <2> QED
    BY <2>3, <2>4 DEF InCall, TypeInv, TypeOK
<1>10. CASE ~Call(d) /\ ~Call(e)
  <2>1. EndOn(d, t) /\ OnTx(e, t)
    BY <1>3, <1>5, <1>10 DEF OnTx
  <2> QED
    BY <1>2, <1>6, <1>10, <2>1
<1> QED
  BY <1>8, <1>9, <1>10

\* Where a frame of Pipe was one step before.
LEMMA PipeMove ==
  ASSUME BaseInv, [Next]_vars, sst = "connected", sst' = "connected"
  PROVE  \E off \in {0, 1} :
           /\ off = 1 => 1 \in 1 .. Len(Pipe) /\ Handled(Pipe[1])
           /\ off = 0 => UNCHANGED decided
           /\ \A i \in 1 .. Len(Pipe') :
                \/ i + off \in 1 .. Len(Pipe) /\ Pipe'[i] = Pipe[i + off]
                \/ /\ off = 0 /\ link = "up" /\ i = Len(Pipe) + 1 /\ Pipe'[i] \in Calls
                   /\ Push(Pipe'[i]) /\ cst # "closed"
<1> USE DEF BaseInv
<1>0. Pipe \in Seq(Calls)
  BY PipeType
<1>1. CASE Quiet \/ CommitOne
  <2>1. Pipe' = Pipe /\ UNCHANGED decided
    BY <1>1, CommitOneFacts DEF Quiet
  <2>2. \A i \in 1 .. Len(Pipe') : i + 0 \in 1 .. Len(Pipe) /\ Pipe'[i] = Pipe[i + 0]
    BY <2>1
  <2> QED
    BY <2>1, <2>2
<1>2. CASE Break
  <2>1. \A i \in 1 .. Len(Pipe') : i + 0 \in 1 .. Len(Pipe) /\ Pipe'[i] = Pipe[i + 0]
    BY <1>2, BreakPipe
  <2> QED
    BY <1>2, <2>1 DEF Break, srvVars
<1>3. ASSUME NEW c \in Calls, Push(c), cst # "closed"
      PROVE  /\ UNCHANGED decided
             /\ \A i \in 1 .. Len(Pipe') :
                  \/ i + 0 \in 1 .. Len(Pipe) /\ Pipe'[i] = Pipe[i + 0]
                  \/ link = "up" /\ i = Len(Pipe) + 1 /\ Pipe'[i] = c
  <2>1. UNCHANGED decided
    BY <1>3, PushDoes
  <2>2. Pipe' = IF link = "up" THEN Append(Pipe, c) ELSE Pipe
    BY <1>3, PushPipe
  <2> QED
    BY <1>0, <2>1, <2>2
<1>4. ASSUME NEW c \in Calls, Handled(c)
      PROVE  /\ 1 \in 1 .. Len(Pipe) /\ Handled(Pipe[1])
             /\ \A i \in 1 .. Len(Pipe') : i + 1 \in 1 .. Len(Pipe) /\ Pipe'[i] = Pipe[i + 1]
  <2>1. /\ Len(Pipe) \in Nat \ {0} /\ Pipe[1] = c /\ Len(Pipe') = Len(Pipe) - 1
        /\ \A i \in 1 .. Len(Pipe') : Pipe'[i] = Pipe[i + 1]
    BY <1>4, HandledFacts
  <2> QED
    BY <1>4, <2>1
<1>5. ~HandleConnect
  BY DEF HandleConnect
<1>6. CASE \E c \in Calls : Push(c) /\ cst # "closed"
  BY <1>3, <1>6
<1>7. CASE \E c \in Calls : Handled(c)
  BY <1>4, <1>7
<1> QED
  BY <1>1, <1>2, <1>5, <1>6, <1>7, Kinds DEF Handled

\* Without overlaps COMMIT or ABORT is the last frame of its transaction.
LEMMA LastFrameStep ==
  ASSUME TxBase, Rivals, LastFrame, [Next]_vars
  PROVE  LastFrame'
<1> USE DEF TxBase, BaseInv
<1> SUFFICES ASSUME sst' = "connected" PROVE LastFrame'
  BY DEF LastFrame
<1>1. CASE HandleConnect
  <2>1. Pipe' = <<>>
    BY <1>1 DEF HandleConnect, Early, Pipe
  <2> QED
    BY <2>1 DEF LastFrame
<1> SUFFICES ASSUME sst = "connected" PROVE LastFrame'
  BY <1>1, Kinds
<1> SUFFICES ASSUME NEW t \in Calls \ raced'
             PROVE  /\ \A i, j \in 1 .. Len(Pipe') :
                         i < j /\ EndOn(Pipe[i], t)' => ~OnTx(Pipe[j], t)'
                    /\ decided'[t] # "open" => \A i \in 1 .. Len(Pipe') : ~OnTx(Pipe[i], t)'
  BY DEF LastFrame
<1>2. t \in Calls \ raced /\ t \in Calls
  BY Stable
<1>3. Pipe \in Seq(Calls) /\ Pipe' \in Seq(Calls)
  <2>1. TypeInv'
    BY TypeStep
  <2> QED
    BY <2>1, PipeType DEF Pipe, TypeInv, TypeOK
<1>4. PICK off \in {0, 1} :
        /\ off = 1 => 1 \in 1 .. Len(Pipe) /\ Handled(Pipe[1])
        /\ off = 0 => UNCHANGED decided
        /\ \A i \in 1 .. Len(Pipe') :
             \/ i + off \in 1 .. Len(Pipe) /\ Pipe'[i] = Pipe[i + off]
             \/ /\ off = 0 /\ link = "up" /\ i = Len(Pipe) + 1 /\ Pipe'[i] \in Calls
                /\ Push(Pipe'[i]) /\ cst # "closed"
  BY PipeMove
<1>5. ASSUME NEW d \in Calls, pc[d] # "idle"
      PROVE  (OnTx(d, t)' => OnTx(d, t)) /\ (EndOn(d, t)' => EndOn(d, t))
  BY <1>5, Stable DEF OnTx, ItemOn, EndOn
<1>6. \A i \in 1 .. Len(Pipe) : Pipe[i] \in Calls /\ Pushed(Pipe[i]) /\ pc[Pipe[i]] # "idle"
  BY <1>3 DEF PipeShape, Pushed
<1>7. ASSUME NEW c \in Calls, Push(c), cst # "closed", OnTx(c, t),
             NEW d \in Calls, EndOn(d, t), Pushed(d)
      PROVE  FALSE
  <2>1. pc[c] = "push" /\ ~Pushed(c)
    BY <1>7, PushDoes
  <2> QED
    BY <1>2, <1>7, <2>1 DEF Rivals
<1>8. ASSUME NEW c \in Calls, Push(c), OnTx(c, t)' PROVE OnTx(c, t)
  BY <1>5, <1>8 DEF Push
<1>9. ASSUME NEW i \in 1 .. Len(Pipe'), NEW j \in 1 .. Len(Pipe'), i < j,
             NEW d \in Calls, NEW e \in Calls, d = Pipe'[i], e = Pipe'[j],
             EndOn(d, t)', OnTx(e, t)'
      PROVE  FALSE
  <2>1. i + off \in 1 .. Len(Pipe) /\ d = Pipe[i + off]
    BY <1>3, <1>4, <1>9
  <2>2. EndOn(d, t) /\ Pushed(d)
    BY <1>5, <1>6, <1>9, <2>1
  <2>3. CASE j + off \in 1 .. Len(Pipe) /\ e = Pipe[j + off]
    <3>1. OnTx(e, t)
      BY <1>5, <1>6, <1>9, <2>3
    <3>2. i + off < j + off
      BY <1>9
    <3> QED
      BY <1>2, <2>1, <2>2, <2>3, <3>1, <3>2 DEF LastFrame
  <2>4. CASE Push(e) /\ cst # "closed"
    BY <1>7, <1>8, <1>9, <2>2, <2>4
  <2> QED
    BY <1>4, <1>9, <2>3, <2>4
<1>10. ASSUME decided'[t] # "open", NEW i \in 1 .. Len(Pipe'),
              NEW e \in Calls, e = Pipe'[i], OnTx(e, t)'
       PROVE  FALSE
  <2>1. CASE decided[t] # "open"
    <3>1. CASE i + off \in 1 .. Len(Pipe) /\ e = Pipe[i + off]
      <4>1. OnTx(e, t)
        BY <1>5, <1>6, <1>10, <3>1
      <4> QED
        BY <1>2, <2>1, <3>1, <4>1 DEF LastFrame
    <3>2. CASE Push(e) /\ cst # "closed"
      <4>1. PICK d \in Calls : EndOn(d, t) /\ Pushed(d)
        BY <1>2, <2>1 DEF Outcomes
      <4> QED
        BY <1>7, <1>8, <1>10, <3>2, <4>1
    <3> QED
      BY <1>4, <1>10, <3>1, <3>2
  <2>2. CASE decided[t] = "open"
    <3>1. off = 1
      BY <1>4, <1>10, <2>2
    <3>2. /\ 1 \in 1 .. Len(Pipe) /\ Handled(Pipe[1]) /\ i + 1 \in 1 .. Len(Pipe)
          /\ e = Pipe[i + 1]
      BY <1>4, <1>10, <3>1
    <3>3. EndOn(Pipe[1], t)
      <4>1. PICK c \in Calls : c = Pipe[1] /\ Handled(c)
        BY <1>6, <3>2
      <4>2. (ServeCommit(c) \/ ServeAbort(c)) /\ on[c] = t
        BY <1>2, <1>10, <2>2, <4>1, Effects DEF Handled, TypeInv, TypeOK
      <4> QED
        BY <4>1, <4>2 DEF EndOn, ServeCommit, ServeAbort, EndOps
    <3>4. OnTx(e, t) /\ 1 < i + 1
      BY <1>5, <1>6, <1>10, <3>2
    <3> QED
      BY <1>2, <3>2, <3>3, <3>4 DEF LastFrame
  <2> QED
    BY <2>1, <2>2
<1>11. \A i \in 1 .. Len(Pipe') : Pipe'[i] \in Calls
  BY <1>3
<1> QED
  BY <1>9, <1>10, <1>11

\* A frame that the server refuses is one of overlapping calls.
LEMMA CausedStep ==
  ASSUME TxBase, LastFrame, Caused, [Next]_vars
  PROVE  Caused'
<1> USE DEF TxBase, BaseInv
<1>1. ASSUME UNCHANGED cause PROVE Caused'
  <2> SUFFICES ASSUME NEW c \in Calls, c = cause, Pushed(c), on[c] \in raced
               PROVE  Pushed(c)' /\ on'[c] \in raced'
    BY <1>1 DEF Caused
  <2> QED
    BY Stable, PushedStep DEF Pushed
<1>2. ASSUME cause' \in Reasons PROVE Caused'
  BY <1>2, ReasonsAssumption DEF Caused
<1>3. ASSUME NEW c \in Calls, ServeRefuse(c) PROVE Caused'
  <2>1. CASE Refuse(<<>>, "header")
    BY <1>2, <2>1 DEF Refuse, Reasons
  <2>2. CASE Unknown(c) /\ Refuse(Receipt(c), c)
    <3>1. Serving(c) /\ UNCHANGED <<link, writeCh, pc, ret, on, raced>>
      BY <1>3 DEF ServeRefuse, srvRest, callVars
    <3>2. /\ Pushed(c) /\ 1 \in 1 .. Len(Pipe) /\ Pipe[1] = c
          /\ \A t \in Calls : ItemOn(c, t) \/ EndOn(c, t) => Begun(t)
      BY <3>1, FirstFrame
    <3>3. on[c] \in Calls /\ OnTx(c, on[c]) /\ store[on[c]] = NoTx
      BY <2>2 DEF Unknown, OnTx, ItemOn, EndOn, TypeInv, TypeOK
    <3>4. decided[on[c]] # "open"
      BY <3>2, <3>3 DEF Begun, OnTx
    <3>5. on[c] \in raced
      BY <3>1, <3>2, <3>3, <3>4 DEF LastFrame, Serving
    <3>6. cause' = c /\ Pushed(c)' /\ on'[c] \in raced'
      BY <2>2, <3>1, <3>2, <3>5 DEF Refuse, Pushed
    <3> QED
      BY <3>6 DEF Caused
  <2> QED
    BY <1>3, <2>1, <2>2 DEF ServeRefuse
<1>4. CASE HandleConnect
  BY <1>1, <1>2, <1>4 DEF HandleConnect, Refuse, Reasons
<1>5. ASSUME NEW c \in Calls,
             \/ Call(c) \/ Push(c) \/ Timeout(c) \/ Mark(c) \/ ServeBegin(c) \/ ServeItem(c)
             \/ ServeCommit(c) \/ ServeAbort(c) \/ ServeSubs(c) \/ ServeNoReply(c)
      PROVE  UNCHANGED cause
  BY <1>5 DEF Call, Push, Timeout, Mark, ServeBegin, ServeItem, ServeCommit, ServeAbort,
              ServeSubs, ServeNoReply, srvVars
<1>6. CASE \/ Connect \/ PLWrite \/ PLReceipt \/ PLError \/ CommitOne \/ ServerEof \/ Break
           \/ UNCHANGED vars
  BY <1>1, <1>6 DEF Connect, PLWrite, PLReceipt, PLError, CommitOne, ServerEof, Break, vars,
                    srvVars
<1> QED
  BY <1>1, <1>3, <1>4, <1>5, <1>6 DEF Next, ClientStep, ServerStep

\* Calls that are made one after the other are never refused: the server ends
\* the connection over a transaction only when calls on it overlapped, or one
\* was made after a COMMIT or ABORT that had failed.
THEOREM OnlyRacesRefusedHolds == Spec => []OnlyRacesRefused
<1> DEFINE J == TxBase /\ Rivals /\ LastFrame /\ Caused
<1>1. Init => J
  <2>1. Init => Rivals /\ LastFrame
    BY DEF Init, Rivals, LastFrame, EndOn, EndOps
  <2>2. Init => Caused
    BY ReasonsAssumption DEF Init, Caused, Reasons
  <2> QED
    BY <2>1, <2>2, TxBaseInit
<1>2. J /\ [Next]_vars => J'
  BY TxBaseStep, RivalsStep, LastFrameStep, CausedStep DEF TxBase
<1>3. J => OnlyRacesRefused
  BY DEF Caused, OnlyRacesRefused
<1> QED
  BY <1>1, <1>2, <1>3, PTL DEF Spec
-----------------------------------------------------------------------------
(***************************************************************************)
(* Transactions are atomic.                                                *)
(***************************************************************************)

\* The items that are asked for on a transaction are those of different calls
\* on it that have sent their frames.
AskedShape ==
  \A t \in Calls :
    /\ \A j \in 1 .. Len(asked[t]) : ItemOn(asked[t][j], t) /\ Pushed(asked[t][j])
    /\ \A j, k \in 1 .. Len(asked[t]) : j # k => asked[t][j] # asked[t][k]

\* The items that the server has for a transaction.
Kept(t) == IF store[t] = NoTx THEN <<>> ELSE store[t]

\* COMMIT or ABORT of t comes before position p of s.
Ended(s, p, t) == \E q \in 1 .. p - 1 : EndOn(s[q], t)

\* The server has the first n of the items in a; the others are met in s in the
\* order of a, and all of them before COMMIT or ABORT.
InOrder(t, s, a, n) ==
  \A p \in 1 .. Len(s) : ItemOn(s[p], t) /\ ~Ended(s, p, t) =>
    \E j \in n + 1 .. Len(a) :
      a[j] = s[p] /\ \A k \in n + 1 .. j - 1 : \E q \in 1 .. p - 1 : s[q] = a[k]
AllBefore(t, s, a, n) ==
  \A p \in 1 .. Len(s) : EndOn(s[p], t) /\ ~Ended(s, p, t) =>
    \A k \in n + 1 .. Len(a) : \E q \in 1 .. p - 1 : s[q] = a[k]
Coming(t, s, a, n) ==
  /\ \A k \in n + 1 .. Len(a) : \E q \in 1 .. Len(s) : s[q] = a[k]
  /\ Sealed(t) => Ended(s, Len(s) + 1, t)

\* What the server has, and will be given, of an open transaction.
OpenTx(t, s, a, k) ==
  /\ Len(k) <= Len(a) /\ \A j \in 1 .. Len(k) : k[j] = a[j]
  /\ InOrder(t, s, a, Len(k)) /\ AllBefore(t, s, a, Len(k))
  /\ link = "up" => Coming(t, s, a, Len(k))

TxInv ==
  sst = "connected" =>
    \A t \in Calls : decided[t] = "open" =>
      \A s, a, k \in Seq(Calls) :
        s = Pipe /\ a = asked[t] /\ k = Kept(t) => OpenTx(t, s, a, k)

\* asked changes with Push only.
LEMMA AskedStep ==
  ASSUME BaseInv, [Next]_vars
  PROVE  UNCHANGED asked \/ \E c \in Calls : Push(c) /\ cst # "closed"
BY CallStep DEF BaseInv, Call, Mark, Settled, Push

\* Every step keeps the shape of asked.
LEMMA AskedShapeStep ==
  ASSUME BaseInv, AskedShape, [Next]_vars
  PROVE  AskedShape'
<1> USE DEF BaseInv
<1>0. asked \in [Calls -> Seq(Calls)]
  BY DEF TypeInv, TypeOK
<1>1. ASSUME NEW d \in Calls, Pushed(d), NEW t \in Calls, ItemOn(d, t)
      PROVE  Pushed(d)' /\ ItemOn(d, t)'
  BY <1>1, Stable, PushedStep DEF Pushed, ItemOn
<1>2. ASSUME NEW t \in Calls, asked'[t] = asked[t]
      PROVE  /\ \A j \in 1 .. Len(asked'[t]) : ItemOn(asked[t][j], t)' /\ Pushed(asked[t][j])'
             /\ \A j, k \in 1 .. Len(asked'[t]) : j # k => asked'[t][j] # asked'[t][k]
  <2>1. ASSUME NEW j \in 1 .. Len(asked'[t]), NEW d \in Calls, d = asked'[t][j]
        PROVE  ItemOn(d, t)' /\ Pushed(d)'
    BY <1>1, <1>2, <2>1 DEF AskedShape
  <2>2. \A j \in 1 .. Len(asked'[t]) : asked'[t][j] \in Calls
    BY <1>0, <1>2
  <2> QED
    BY <1>2, <2>1, <2>2 DEF AskedShape
<1>3. CASE UNCHANGED asked
  BY <1>2, <1>3 DEF AskedShape
<1>4. ASSUME NEW c \in Calls, Push(c), cst # "closed" PROVE AskedShape'
  <2>1. /\ ~Pushed(c) /\ Pushed(c)' /\ UNCHANGED <<op, on>>
        /\ asked' = IF op[c] \in ItemOps /\ on[c] # Nobody /\ ~Sealed(on[c])
                      THEN [asked EXCEPT ![on[c]] = Append(@, c)] ELSE asked
    BY <1>4, PushDoes
  <2>2. CASE op[c] \in ItemOps /\ on[c] # Nobody /\ ~Sealed(on[c])
    <3>1. PICK t \in Calls : t = on[c]
      BY <2>2 DEF TypeInv, TypeOK
    <3>2. PICK a \in Seq(Calls) : a = asked[t]
      BY <1>0
    <3>3. /\ \A u \in Calls : u # t => asked'[u] = asked[u]
          /\ asked'[t] = Append(a, c)
      BY <1>0, <2>1, <2>2, <3>1, <3>2
    <3>4. /\ Len(asked'[t]) = Len(a) + 1 /\ asked'[t][Len(a) + 1] = c
          /\ \A j \in 1 .. Len(a) : asked'[t][j] = a[j]
      BY <3>3
    <3>5. /\ \A j \in 1 .. Len(a) : a[j] \in Calls /\ ItemOn(a[j], t) /\ Pushed(a[j])
          /\ \A j, k \in 1 .. Len(a) : j # k => a[j] # a[k]
      BY <3>2 DEF AskedShape
    <3>6. ASSUME NEW j \in 1 .. Len(asked'[t]), NEW d \in Calls, d = asked'[t][j]
          PROVE  ItemOn(d, t)' /\ Pushed(d)'
      <4>1. CASE j = Len(a) + 1
        BY <2>1, <2>2, <3>1, <3>4, <3>6, <4>1 DEF ItemOn
      <4>2. CASE j # Len(a) + 1
        <5>1. j \in 1 .. Len(a)
          BY <3>4, <4>2
        <5> QED
          BY <1>1, <3>4, <3>5, <3>6, <5>1
      <4> QED
        BY <4>1, <4>2
    <3>7. \A j \in 1 .. Len(asked'[t]) : asked'[t][j] \in Calls
      BY <3>4, <3>5
    <3>8. \A j, k \in 1 .. Len(asked'[t]) : j # k => asked'[t][j] # asked'[t][k]
      BY <2>1, <3>4, <3>5
    <3>9. /\ \A j \in 1 .. Len(asked'[t]) : ItemOn(asked[t][j], t)' /\ Pushed(asked[t][j])'
      BY <3>6, <3>7
    <3> QED
      BY <1>2, <3>3, <3>8, <3>9 DEF AskedShape
  <2>3. CASE ~(op[c] \in ItemOps /\ on[c] # Nobody /\ ~Sealed(on[c]))
    BY <1>3, <2>1, <2>3
  <2> QED
    BY <2>2, <2>3
<1> QED
  BY <1>3, <1>4, AskedStep

\* The first frame of s is taken; it is the next item, or none of t's.
LEMMA Shift ==
  ASSUME NEW t \in Calls, NEW s \in Seq(Calls), NEW s1 \in Seq(Calls), NEW a \in Seq(Calls),
         NEW n \in Nat, NEW n1 \in Nat,
         Len(s) # 0, Len(s1) = Len(s) - 1, \A i \in 1 .. Len(s1) : s1[i] = s[i + 1],
         \A i, j \in 1 .. Len(s) : i # j => s[i] # s[j],
         \A j, k \in 1 .. Len(a) : j # k => a[j] # a[k],
         ~EndOn(s[1], t),
         \/ n1 = n /\ \A k \in 1 .. Len(a) : a[k] # s[1]
         \/ n1 = n + 1 /\ n1 \in 1 .. Len(a) /\ a[n1] = s[1],
         InOrder(t, s, a, n), AllBefore(t, s, a, n)
  PROVE  /\ InOrder(t, s1, a, n1) /\ AllBefore(t, s1, a, n1)
         /\ Coming(t, s, a, n) => Coming(t, s1, a, n1)
<1>1. \A k \in n1 + 1 .. Len(a) : k \in n + 1 .. Len(a) /\ a[k] # s[1]
  OBVIOUS
<1>2. ASSUME NEW p \in 1 .. Len(s1) + 1, NEW k \in n1 + 1 .. Len(a),
             NEW q \in 1 .. p, s[q] = a[k]
      PROVE  \E r \in 1 .. p - 1 : s1[r] = a[k]
  <2>1. q # 1
    BY <1>1, <1>2
  <2>2. q - 1 \in 1 .. p - 1 /\ q - 1 \in 1 .. Len(s1) /\ s1[q - 1] = s[(q - 1) + 1]
    BY <2>1
  <2>3. s1[q - 1] = a[k]
    BY <1>2, <2>2
  <2> QED
    BY <2>2, <2>3
<1>3. ASSUME NEW p \in 1 .. Len(s1) + 1, ~Ended(s1, p, t)
      PROVE  ~Ended(s, p + 1, t)
  <2> SUFFICES ASSUME NEW q \in 1 .. (p + 1) - 1, EndOn(s[q], t) PROVE FALSE
    BY DEF Ended
  <2>1. q # 1
    OBVIOUS
  <2>2. q - 1 \in 1 .. p - 1 /\ q - 1 \in 1 .. Len(s1) /\ s1[q - 1] = s[(q - 1) + 1]
    BY <2>1
  <2>3. s1[q - 1] = s[q]
    BY <2>2
  <2> QED
    BY <1>3, <2>2, <2>3 DEF Ended
<1>4. InOrder(t, s1, a, n1)
  <2> SUFFICES ASSUME NEW p \in 1 .. Len(s1), ItemOn(s1[p], t), ~Ended(s1, p, t)
               PROVE  \E j \in n1 + 1 .. Len(a) : /\ a[j] = s1[p]
                        /\ \A k \in n1 + 1 .. j - 1 : \E q \in 1 .. p - 1 : s1[q] = a[k]
    BY DEF InOrder
  <2>1. p + 1 \in 1 .. Len(s) /\ s1[p] = s[p + 1] /\ s[p + 1] # s[1] /\ ~Ended(s, p + 1, t)
    BY <1>3
  <2>2. PICK j \in n + 1 .. Len(a) : /\ a[j] = s[p + 1]
               /\ \A k \in n + 1 .. j - 1 : \E q \in 1 .. (p + 1) - 1 : s[q] = a[k]
    BY <2>1 DEF InOrder
  <2>3. j \in n1 + 1 .. Len(a)
    BY <2>1, <2>2
  <2>4. ASSUME NEW k \in n1 + 1 .. j - 1 PROVE \E q \in 1 .. p - 1 : s1[q] = a[k]
    <3>1. k \in n + 1 .. j - 1 /\ k \in n1 + 1 .. Len(a)
      OBVIOUS
    <3>2. PICK q \in 1 .. (p + 1) - 1 : s[q] = a[k]
      BY <2>2, <3>1
    <3>3. q \in 1 .. p /\ p \in 1 .. Len(s1) + 1
      OBVIOUS
    <3> QED
      BY <1>2, <3>1, <3>2, <3>3
  <2> QED
    BY <2>1, <2>2, <2>3, <2>4
<1>5. AllBefore(t, s1, a, n1)
  <2> SUFFICES ASSUME NEW p \in 1 .. Len(s1), EndOn(s1[p], t), ~Ended(s1, p, t),
                      NEW k \in n1 + 1 .. Len(a)
               PROVE  \E q \in 1 .. p - 1 : s1[q] = a[k]
    BY DEF AllBefore
  <2>1. p + 1 \in 1 .. Len(s) /\ s1[p] = s[p + 1] /\ ~Ended(s, p + 1, t) /\ k \in n + 1 .. Len(a)
    BY <1>1, <1>3
  <2>2. PICK q \in 1 .. (p + 1) - 1 : s[q] = a[k]
    BY <2>1 DEF AllBefore
  <2>3. q \in 1 .. p /\ p \in 1 .. Len(s1) + 1
    OBVIOUS
  <2> QED
    BY <1>2, <2>2, <2>3
<1>6. ASSUME Coming(t, s, a, n) PROVE Coming(t, s1, a, n1)
  <2>1. ASSUME NEW k \in n1 + 1 .. Len(a) PROVE \E q \in 1 .. Len(s1) : s1[q] = a[k]
    <3>1. PICK q \in 1 .. Len(s) : s[q] = a[k]
      BY <1>1, <1>6 DEF Coming
    <3>2. Len(s1) + 1 \in 1 .. Len(s1) + 1 /\ q \in 1 .. Len(s1) + 1
      OBVIOUS
    <3>3. PICK r \in 1 .. (Len(s1) + 1) - 1 : s1[r] = a[k]
      BY <1>2, <3>1, <3>2
    <3>4. r \in 1 .. Len(s1)
      OBVIOUS
    <3> QED
      BY <3>3, <3>4
  <2>2. ASSUME Sealed(t) PROVE Ended(s1, Len(s1) + 1, t)
    <3>1. Ended(s, Len(s) + 1, t) /\ Len(s) + 1 = (Len(s1) + 1) + 1
      BY <1>6, <2>2 DEF Coming
    <3>2. Len(s1) + 1 \in 1 .. Len(s1) + 1
      OBVIOUS
    <3> QED
      BY <1>3, <3>1, <3>2
  <2> QED
    BY <2>1, <2>2 DEF Coming
<1> QED
  BY <1>4, <1>5, <1>6

\* The frames are cut off.
LEMMA Cut ==
  ASSUME NEW t \in Calls, NEW s \in Seq(Calls), NEW s1 \in Seq(Calls), NEW a \in Seq(Calls),
         NEW n \in Nat,
         \A i \in 1 .. Len(s1) : i \in 1 .. Len(s) /\ s1[i] = s[i],
         InOrder(t, s, a, n), AllBefore(t, s, a, n)
  PROVE  InOrder(t, s1, a, n) /\ AllBefore(t, s1, a, n)
<1>1. ASSUME NEW p \in 1 .. Len(s1), NEW q \in 1 .. p - 1
      PROVE  s1[q] = s[q]
  OBVIOUS
<1>2. ASSUME NEW p \in 1 .. Len(s1), ~Ended(s1, p, t)
      PROVE  ~Ended(s, p, t)
  BY <1>1, <1>2 DEF Ended
<1>3. ASSUME NEW p \in 1 .. Len(s1), NEW x, \E q \in 1 .. p - 1 : s[q] = x
      PROVE  \E q \in 1 .. p - 1 : s1[q] = x
  BY <1>1, <1>3
<1>4. InOrder(t, s1, a, n)
  <2> SUFFICES ASSUME NEW p \in 1 .. Len(s1), ItemOn(s1[p], t), ~Ended(s1, p, t)
               PROVE  \E j \in n + 1 .. Len(a) : /\ a[j] = s1[p]
                        /\ \A k \in n + 1 .. j - 1 : \E q \in 1 .. p - 1 : s1[q] = a[k]
    BY DEF InOrder
  <2>1. PICK j \in n + 1 .. Len(a) : /\ a[j] = s[p]
               /\ \A k \in n + 1 .. j - 1 : \E q \in 1 .. p - 1 : s[q] = a[k]
    BY <1>2 DEF InOrder
  <2> QED
    BY <1>3, <2>1
<1>5. AllBefore(t, s1, a, n)
  <2> SUFFICES ASSUME NEW p \in 1 .. Len(s1), EndOn(s1[p], t), ~Ended(s1, p, t),
                      NEW k \in n + 1 .. Len(a)
               PROVE  \E q \in 1 .. p - 1 : s1[q] = a[k]
    BY DEF AllBefore
  <2>1. \E q \in 1 .. p - 1 : s[q] = a[k]
    BY <1>2 DEF AllBefore
  <2> QED
    BY <1>3, <2>1
<1> QED
  BY <1>4, <1>5

\* Frame c is added at the end of s; a is extended by c, or it is left.
Longer(s, s1, c) == /\ Len(s1) = Len(s) + 1 /\ s1[Len(s) + 1] = c
                    /\ \A i \in 1 .. Len(s) : s1[i] = s[i]
AsksFor(t, a, a1, c) == \/ a1 = a /\ (ItemOn(c, t) => Sealed(t))
                        \/ a1 = Append(a, c) /\ ItemOn(c, t) /\ ~Sealed(t)
Unsealed(t, s) == ~Sealed(t) => \A i \in 1 .. Len(s) : ~EndOn(s[i], t)
ComesNow(t, s, a, n, c) ==
  /\ \A k \in n + 1 .. Len(a) : \E q \in 1 .. Len(s) : s[q] = a[k]
  /\ Sealed(t) \/ EndOn(c, t) => Ended(s, Len(s) + 1, t)

\* A call puts its frame on the way.
LEMMA Extend ==
  ASSUME NEW t \in Calls, NEW s \in Seq(Calls), NEW s1 \in Seq(Calls),
         NEW a \in Seq(Calls), NEW a1 \in Seq(Calls), NEW c \in Calls, NEW n \in Nat,
         n <= Len(a),
         Longer(s, s1, c), AsksFor(t, a, a1, c),
         Unsealed(t, s), InOrder(t, s, a, n), AllBefore(t, s, a, n), Coming(t, s, a, n)
  PROVE  /\ InOrder(t, s1, a1, n) /\ AllBefore(t, s1, a1, n)
         /\ ComesNow(t, s1, a1, n, c)
<1> USE DEF Longer, AsksFor, Unsealed
<1>0. /\ Len(a) <= Len(a1) /\ \A j \in 1 .. Len(a) : a1[j] = a[j]
      /\ Len(a1) # Len(a) => /\ Len(a1) = Len(a) + 1 /\ a1[Len(a) + 1] = c /\ ItemOn(c, t)
                             /\ ~Sealed(t)
  OBVIOUS
<1>1. ASSUME NEW p \in 1 .. Len(s) + 1, ~Ended(s1, p, t)
      PROVE  ~Ended(s, p, t)
  BY <1>1 DEF Ended
<1>2. ASSUME NEW p \in 1 .. Len(s) + 1, NEW x, \E q \in 1 .. p - 1 : s[q] = x
      PROVE  \E q \in 1 .. p - 1 : s1[q] = x
  <2>1. PICK q \in 1 .. p - 1 : s[q] = x
    BY <1>2
  <2>2. q \in 1 .. Len(s) /\ s1[q] = x
    BY <2>1
  <2> QED
    BY <2>2
<1>3. \A k \in n + 1 .. Len(a) : /\ k \in 1 .. Len(a) /\ k \in n + 1 .. Len(a1)
                                 /\ \E q \in 1 .. (Len(s) + 1) - 1 : s1[q] = a1[k]
  BY <1>0 DEF Coming
<1>4. InOrder(t, s1, a1, n)
  <2> SUFFICES ASSUME NEW p \in 1 .. Len(s1), ItemOn(s1[p], t), ~Ended(s1, p, t)
               PROVE  \E j \in n + 1 .. Len(a1) : /\ a1[j] = s1[p]
                        /\ \A k \in n + 1 .. j - 1 : \E q \in 1 .. p - 1 : s1[q] = a1[k]
    BY DEF InOrder
  <2>1. CASE p # Len(s) + 1
    <3>1. p \in 1 .. Len(s) /\ s1[p] = s[p] /\ p \in 1 .. Len(s) + 1
      BY <2>1
    <3>2. PICK j \in n + 1 .. Len(a) : /\ a[j] = s[p]
                 /\ \A k \in n + 1 .. j - 1 : \E q \in 1 .. p - 1 : s[q] = a[k]
      BY <1>1, <3>1 DEF InOrder
    <3>3. j \in n + 1 .. Len(a1) /\ a1[j] = s1[p]
      BY <1>0, <1>3, <3>1, <3>2
    <3>4. ASSUME NEW k \in n + 1 .. j - 1 PROVE \E q \in 1 .. p - 1 : s1[q] = a1[k]
      <4>1. k \in 1 .. Len(a) /\ a1[k] = a[k]
        BY <1>0
      <4> QED
        BY <1>2, <3>1, <3>2, <4>1
    <3> QED
      BY <3>3, <3>4
  <2>2. CASE p = Len(s) + 1
    <3>1. ~Sealed(t)
      BY <2>2 DEF Coming, Ended
    <3>2. /\ Len(a1) = Len(a) + 1 /\ a1[Len(a) + 1] = c
      BY <2>2, <3>1
    <3>3. Len(a) + 1 \in n + 1 .. Len(a1) /\ a1[Len(a) + 1] = s1[p]
      BY <2>2, <3>2
    <3>4. \A k \in n + 1 .. (Len(a) + 1) - 1 : \E q \in 1 .. p - 1 : s1[q] = a1[k]
      BY <1>3, <2>2
    <3> QED
      BY <3>3, <3>4
  <2> QED
    BY <2>1, <2>2
<1>5. AllBefore(t, s1, a1, n)
  <2> SUFFICES ASSUME NEW p \in 1 .. Len(s1), EndOn(s1[p], t), ~Ended(s1, p, t),
                      NEW k \in n + 1 .. Len(a1)
               PROVE  \E q \in 1 .. p - 1 : s1[q] = a1[k]
    BY DEF AllBefore
  <2>1. ~ItemOn(c, t) \/ p # Len(s) + 1
    BY DEF ItemOn, EndOn, ItemOps, EndOps
  <2>2. a1 = a
    <3>1. p # Len(s) + 1 => p \in 1 .. Len(s) /\ EndOn(s[p], t)
      OBVIOUS
    <3> QED
      BY <2>1, <3>1
  <2>3. CASE p # Len(s) + 1
    <3>1. p \in 1 .. Len(s) /\ s1[p] = s[p] /\ p \in 1 .. Len(s) + 1
      BY <2>3
    <3>2. \E q \in 1 .. p - 1 : s[q] = a[k]
      BY <1>1, <2>2, <3>1 DEF AllBefore
    <3> QED
      BY <1>2, <2>2, <3>1, <3>2
  <2>4. CASE p = Len(s) + 1
    BY <1>3, <2>2, <2>4
  <2> QED
    BY <2>3, <2>4
<1>6. ASSUME NEW k \in n + 1 .. Len(a1) PROVE \E q \in 1 .. Len(s1) : s1[q] = a1[k]
  <2>1. CASE k \in n + 1 .. Len(a)
    BY <1>3, <2>1
  <2>2. CASE k \notin n + 1 .. Len(a)
    <3>1. a1[k] = s1[Len(s) + 1]
      BY <1>0, <2>2
    <3> QED
      BY <3>1
  <2> QED
    BY <2>1, <2>2
<1>7. ASSUME Sealed(t) \/ EndOn(c, t) PROVE Ended(s1, Len(s1) + 1, t)
  <2>1. CASE EndOn(c, t)
    BY <2>1 DEF Ended
  <2>2. CASE Sealed(t)
    <3>1. PICK q \in 1 .. (Len(s) + 1) - 1 : EndOn(s[q], t)
      BY <2>2 DEF Coming, Ended
    <3>2. q \in 1 .. (Len(s1) + 1) - 1 /\ s1[q] = s[q]
      OBVIOUS
    <3> QED
      BY <3>1, <3>2 DEF Ended
  <2> QED
    BY <1>7, <2>1, <2>2
<1> QED
  BY <1>4, <1>5, <1>6, <1>7 DEF ComesNow

\* An item is asked for whose frame is lost.
LEMMA Lost ==
  ASSUME NEW t \in Calls, NEW s \in Seq(Calls), NEW a \in Seq(Calls), NEW c \in Calls,
         NEW n \in Nat, \A i \in 1 .. Len(s) : ~EndOn(s[i], t),
         InOrder(t, s, a, n)
  PROVE  InOrder(t, s, Append(a, c), n) /\ AllBefore(t, s, Append(a, c), n)
<1> DEFINE a1 == Append(a, c)
<1>1. /\ a1 \in Seq(Calls) /\ Len(a1) = Len(a) + 1
      /\ \A j \in 1 .. Len(a) : a1[j] = a[j]
  OBVIOUS
<1> HIDE DEF a1
<1>2. ASSUME NEW p \in 1 .. Len(s), ItemOn(s[p], t), ~Ended(s, p, t)
      PROVE  \E j \in n + 1 .. Len(a1) : /\ a1[j] = s[p]
               /\ \A k \in n + 1 .. j - 1 : \E q \in 1 .. p - 1 : s[q] = a1[k]
  <2>1. PICK j \in n + 1 .. Len(a) : /\ a[j] = s[p]
               /\ \A k \in n + 1 .. j - 1 : \E q \in 1 .. p - 1 : s[q] = a[k]
    BY <1>2 DEF InOrder
  <2>2. j \in n + 1 .. Len(a1) /\ a1[j] = s[p]
    BY <1>1, <2>1
  <2>3. \A k \in n + 1 .. j - 1 : a1[k] = a[k]
    BY <1>1
  <2> QED
    BY <2>1, <2>2, <2>3
<1>3. InOrder(t, s, a1, n) /\ AllBefore(t, s, a1, n)
  BY <1>2 DEF InOrder, AllBefore
<1> QED
  BY <1>3 DEF a1

\* A step that leaves the calls in s alone.
LEMMA OrderStable ==
  ASSUME TypeInv, [Next]_vars, NEW t \in Calls, NEW s \in Seq(Calls), NEW a \in Seq(Calls),
         NEW n \in Nat, \A i \in 1 .. Len(s) : pc[s[i]] # "idle",
         InOrder(t, s, a, n), AllBefore(t, s, a, n)
  PROVE  /\ InOrder(t, s, a, n)' /\ AllBefore(t, s, a, n)'
         /\ \A p \in 1 .. Len(s) + 1 : Ended(s, p, t)' <=> Ended(s, p, t)
<1>1. ASSUME NEW i \in 1 .. Len(s)
      PROVE  (ItemOn(s[i], t)' <=> ItemOn(s[i], t)) /\ (EndOn(s[i], t)' <=> EndOn(s[i], t))
  BY Stable DEF ItemOn, EndOn
<1>2. \A p \in 1 .. Len(s) + 1 : Ended(s, p, t)' <=> Ended(s, p, t)
  BY <1>1 DEF Ended
<1>3. \A p \in 1 .. Len(s) : p \in 1 .. Len(s) + 1
  OBVIOUS
<1> QED
  BY <1>1, <1>2, <1>3 DEF InOrder, AllBefore

\* Every step keeps what is known of the open transactions.
LEMMA TxInvStep ==
  ASSUME TxBase, AskedShape, TxInv, [Next]_vars
  PROVE  TxInv'
<1> USE DEF TxBase, BaseInv
<1> SUFFICES ASSUME sst' = "connected", NEW t \in Calls, decided'[t] = "open",
                    NEW s1 \in Seq(Calls), s1 = Pipe', NEW a1 \in Seq(Calls), a1 = asked'[t],
                    NEW k1 \in Seq(Calls), k1 = Kept(t)'
             PROVE  OpenTx(t, s1, a1, k1)'
  BY DEF TxInv
<1>0. PICK s \in Seq(Calls), a \in Seq(Calls), k \in Seq(Calls) :
        s = Pipe /\ a = asked[t] /\ k = Kept(t)
  <2>1. Pipe \in Seq(Calls) /\ asked[t] \in Seq(Calls) /\ Kept(t) \in Seq(Calls)
    BY PipeType DEF Kept, TypeInv, TypeOK
  <2> QED
    BY <2>1
<1>1. decided[t] = "open"
  BY OutcomeFinal
<1>2. CASE HandleConnect
  <2>1. wire = <<>> /\ writeCh = <<>> /\ \A c \in Calls : pc[c] = "idle"
    BY <1>2 DEF HandleConnect, Early
  <2>2. Len(s1) = 0
    BY <1>2, <2>1 DEF HandleConnect, Pipe
  <2>3. \A d \in Calls : ~Pushed(d) /\ ~Pushed(d)'
    BY <1>2, <2>1 DEF HandleConnect, Pushed, callVars
  <2>4. Len(a) = 0
    <3>1. Len(a) # 0 => 1 \in 1 .. Len(a) /\ a[1] \in Calls
      OBVIOUS
    <3> QED
      BY <1>0, <2>3, <3>1 DEF AskedShape
  <2>5. a1 = a
    BY <1>0, <1>2 DEF HandleConnect
  <2>6. k1 = <<>>
    BY <1>2, <2>3 DEF Outcomes, Begun, Kept, HandleConnect, Refuse
  <2>7. ~Sealed(t)'
    BY <2>3 DEF Sealed
  <2> QED
    BY <2>2, <2>4, <2>5, <2>6, <2>7 DEF OpenTx, InOrder, AllBefore, Coming
<1> SUFFICES ASSUME sst = "connected" PROVE OpenTx(t, s1, a1, k1)'
  BY <1>2, Kinds
<1>3. /\ Len(k) <= Len(a) /\ \A j \in 1 .. Len(k) : k[j] = a[j]
      /\ InOrder(t, s, a, Len(k)) /\ AllBefore(t, s, a, Len(k))
      /\ link = "up" => Coming(t, s, a, Len(k))
  <2>1. OpenTx(t, s, a, k)
    BY <1>0, <1>1 DEF TxInv
  <2> QED
    BY <2>1 DEF OpenTx
<1>4. /\ \A i \in 1 .. Len(s) : s[i] \in Calls /\ Pushed(s[i]) /\ pc[s[i]] # "idle"
      /\ \A i, j \in 1 .. Len(s) : i # j => s[i] # s[j]
  BY <1>0 DEF PipeShape, Pushed
<1>5. /\ \A j \in 1 .. Len(a) : a[j] \in Calls /\ ItemOn(a[j], t) /\ Pushed(a[j])
      /\ \A i, j \in 1 .. Len(a) : i # j => a[i] # a[j]
  BY <1>0 DEF AskedShape
<1>6. ASSUME s1 = s, a1 = a, k1 = k, UNCHANGED link, \A d \in Calls : Pushed(d)' => Pushed(d)
      PROVE  OpenTx(t, s1, a1, k1)'
  <2>1. /\ InOrder(t, s, a, Len(k))' /\ AllBefore(t, s, a, Len(k))'
        /\ \A p \in 1 .. Len(s) + 1 : Ended(s, p, t)' <=> Ended(s, p, t)
    BY <1>3, <1>4, OrderStable
  <2>2. Sealed(t)' => Sealed(t)
    <3>1. ASSUME NEW d \in Calls, EndOn(d, t)', Pushed(d)' PROVE EndOn(d, t) /\ Pushed(d)
      BY <1>6, <3>1, Stable DEF EndOn, Pushed
    <3> QED
      BY <3>1 DEF Sealed, EndOn
  <2>3. Len(s) + 1 \in 1 .. Len(s) + 1
    OBVIOUS
  <2> QED
    BY <1>3, <1>6, <2>1, <2>2, <2>3 DEF OpenTx, Coming
<1>7. CASE Quiet
  BY <1>0, <1>6, <1>7 DEF Quiet, Kept
<1>8. CASE CommitOne
  <2>1. t # committing
    BY <1>1, <1>8 DEF CommitOne, Outcomes, TypeInv, Shape
  <2> QED
    BY <1>0, <1>6, <1>8, <2>1, CommitOneFacts DEF Kept
<1>9. CASE Break
  <2>1. /\ link' = "down" /\ \A i \in 1 .. Len(s1) : i \in 1 .. Len(s) /\ s1[i] = s[i]
    BY <1>0, <1>9, BreakPipe
  <2>2. a1 = a /\ k1 = k /\ UNCHANGED <<op, on>>
    BY <1>0, <1>9 DEF Break, srvVars, callVars, Kept
  <2>3. InOrder(t, s1, a, Len(k)) /\ AllBefore(t, s1, a, Len(k))
    BY <1>3, <2>1, Cut
  <2>4. InOrder(t, s1, a, Len(k))' /\ AllBefore(t, s1, a, Len(k))'
    BY <2>2, <2>3 DEF InOrder, AllBefore, Ended, ItemOn, EndOn
  <2> QED
    BY <1>3, <2>1, <2>2, <2>4 DEF OpenTx
<1>10. ASSUME NEW c \in Calls, Push(c), cst # "closed" PROVE OpenTx(t, s1, a1, k1)'
  <2>1. /\ ~Pushed(c) /\ Pushed(c)' /\ \A d \in Calls : Pushed(d)' <=> Pushed(d) \/ d = c
        /\ UNCHANGED <<op, on, link, store>>
        /\ asked' = IF op[c] \in ItemOps /\ on[c] # Nobody /\ ~Sealed(on[c])
                      THEN [asked EXCEPT ![on[c]] = Append(@, c)] ELSE asked
    BY <1>10, PushDoes
  <2>2. k1 = k
    BY <1>0, <2>1 DEF Kept
  <2>3. \/ a1 = a /\ (ItemOn(c, t) => Sealed(t))
        \/ a1 = Append(a, c) /\ ItemOn(c, t) /\ ~Sealed(t)
    <3>1. CASE ItemOn(c, t) /\ ~Sealed(t)
      <4>1. op[c] \in ItemOps /\ on[c] # Nobody /\ on[c] = t
        BY <3>1, NobodyAssumption DEF ItemOn
      <4>2. asked' = [asked EXCEPT ![t] = Append(asked[t], c)]
        BY <2>1, <3>1, <4>1
      <4> QED
        BY <1>0, <3>1, <4>2 DEF TypeInv, TypeOK
    <3>2. CASE ~(ItemOn(c, t) /\ ~Sealed(t))
      <4>1. CASE UNCHANGED asked
        BY <1>0, <3>2, <4>1
      <4>2. CASE /\ op[c] \in ItemOps /\ on[c] # t
                 /\ asked' = [asked EXCEPT ![on[c]] = Append(@, c)]
        BY <1>0, <3>2, <4>2 DEF TypeInv, TypeOK
      <4>3. op[c] \in ItemOps /\ ~Sealed(on[c]) => on[c] # t
        BY <3>2 DEF ItemOn
      <4> QED
        BY <2>1, <4>1, <4>2, <4>3
    <3> QED
      BY <3>1, <3>2
  <2>4. ~Sealed(t) => \A i \in 1 .. Len(s) : ~EndOn(s[i], t)
    BY <1>4 DEF Sealed, EndOn
  <2>5. Sealed(t)' => Sealed(t) \/ EndOn(c, t)
    BY <2>1 DEF Sealed, EndOn
  <2>6. Len(k1) <= Len(a1) /\ \A j \in 1 .. Len(k1) : k1[j] = a1[j]
    <3>1. Len(a) <= Len(a1) /\ \A j \in 1 .. Len(a) : a1[j] = a[j]
      <4>1. CASE a1 = a
        BY <4>1
      <4>2. CASE a1 = Append(a, c)
        BY <4>2
      <4> QED
        BY <2>3, <4>1, <4>2
    <3>2. \A j \in 1 .. Len(k) : j \in 1 .. Len(a)
      BY <1>3
    <3> QED
      BY <1>3, <2>2, <3>1, <3>2
  <2>7. CASE link = "up"
    <3>1. s1 = Append(s, c)
      BY <1>0, <1>10, <2>7, PushPipe
    <3>2. /\ Len(s1) = Len(s) + 1 /\ s1[Len(s) + 1] = c
          /\ \A i \in 1 .. Len(s) : s1[i] = s[i]
      BY <3>1
    <3>3. PICK n \in Nat : n = Len(k)
      <4>1. Len(k) \in Nat
        OBVIOUS
      <4> QED
        BY <4>1
    <3>4. /\ n <= Len(a) /\ InOrder(t, s, a, n) /\ AllBefore(t, s, a, n)
          /\ Coming(t, s, a, n)
      BY <1>3, <2>7, <3>3
    <3>5. /\ InOrder(t, s1, a1, n) /\ AllBefore(t, s1, a1, n)
          /\ \A j \in n + 1 .. Len(a1) : \E q \in 1 .. Len(s1) : s1[q] = a1[j]
          /\ Sealed(t) \/ EndOn(c, t) => Ended(s1, Len(s1) + 1, t)
      <4>1. Longer(s, s1, c) /\ AsksFor(t, a, a1, c) /\ Unsealed(t, s)
        BY <2>3, <2>4, <3>2 DEF Longer, AsksFor, Unsealed
      <4>2. /\ InOrder(t, s1, a1, n) /\ AllBefore(t, s1, a1, n)
            /\ ComesNow(t, s1, a1, n, c)
        BY <3>4, <4>1, Extend
      <4> QED
        BY <4>2 DEF ComesNow
    <3>6. \A i \in 1 .. Len(s1) : pc[s1[i]] # "idle"
      <4>1. \A i \in 1 .. Len(s1) : i = Len(s) + 1 \/ i \in 1 .. Len(s)
        BY <3>2
      <4>2. pc[c] # "idle"
        BY <1>10 DEF Push
      <4> QED
        BY <1>4, <3>2, <4>1, <4>2
    <3>7. /\ InOrder(t, s1, a1, n)' /\ AllBefore(t, s1, a1, n)'
          /\ \A p \in 1 .. Len(s1) + 1 : Ended(s1, p, t)' <=> Ended(s1, p, t)
      BY <3>5, <3>6, OrderStable
    <3>8. Len(s1) + 1 \in 1 .. Len(s1) + 1
      OBVIOUS
    <3> QED
      BY <2>2, <2>5, <2>6, <3>3, <3>5, <3>7, <3>8 DEF OpenTx, Coming
  <2>8. CASE link # "up"
    <3>1. s1 = s
      BY <1>0, <1>10, <2>8, PushPipe
    <3>2. InOrder(t, s, a1, Len(k)) /\ AllBefore(t, s, a1, Len(k))
      <4>1. CASE a1 = a
        BY <1>3, <4>1
      <4>2. CASE a1 = Append(a, c) /\ ~Sealed(t)
        BY <1>3, <2>4, <4>2, Lost
      <4> QED
        BY <2>3, <4>1, <4>2
    <3>3. InOrder(t, s, a1, Len(k))' /\ AllBefore(t, s, a1, Len(k))'
      BY <2>1, <3>2, ZenonT(30) DEF InOrder, AllBefore, Ended, ItemOn, EndOn
    <3> QED
      BY <2>1, <2>2, <2>6, <2>8, <3>1, <3>3 DEF OpenTx
  <2> QED
    BY <2>7, <2>8
<1>11. ASSUME NEW c \in Calls, Handled(c) PROVE OpenTx(t, s1, a1, k1)'
  <2>1. /\ UNCHANGED <<op, on, link>> /\ a1 = a /\ Len(s) # 0 /\ s[1] = c /\ 1 \in 1 .. Len(s)
        /\ Len(s1) = Len(s) - 1 /\ \A i \in 1 .. Len(s1) : s1[i] = s[i + 1]
        /\ \A d \in Calls : Pushed(d)' <=> Pushed(d)
        /\ committing = Nobody
    BY <1>0, <1>11, HandledFacts
  <2>2. ~EndOn(c, t)
    <3>1. ASSUME EndOn(c, t) PROVE decided'[t] # "open"
      <4>1. ServeCommit(c) \/ ServeAbort(c)
        BY <1>11, <3>1 DEF Handled, EndOn, EndOps, ServeBegin, ServeItem, ServeSubs, ItemOps
      <4> QED
        BY <3>1, <4>1, Effects, SMTT(30) DEF EndOn, TypeInv, TypeOK
    <3> QED
      BY <3>1
  <2>3. /\ Len(k1) <= Len(a) /\ \A j \in 1 .. Len(k1) : k1[j] = a[j]
        /\ \/ Len(k1) = Len(k) /\ \A j \in 1 .. Len(a) : a[j] # s[1]
           \/ Len(k1) = Len(k) + 1 /\ Len(k1) \in 1 .. Len(a) /\ a[Len(k1)] = s[1]
    <3>1. CASE ItemOn(c, t)
      <4>1. ServeItem(c) /\ on[c] = t /\ t # Nobody
        BY <1>11, <3>1, NobodyAssumption DEF Handled, ItemOn, ServeBegin, ServeCommit,
           ServeAbort, ServeSubs, ItemOps
      <4>2. /\ store[t] # NoTx /\ store' = [store EXCEPT ![t] = Append(store[t], c)]
            /\ Append(store[t], c) # NoTx
        BY <4>1, Effects
      <4>3. k = store[t] /\ k1 = Append(k, c)
        BY <1>0, <4>2 DEF Kept, TypeInv, TypeOK
      <4>4. ItemOn(s[1], t) /\ ~Ended(s, 1, t)
        BY <2>1, <3>1 DEF Ended
      <4>5. PICK j \in Len(k) + 1 .. Len(a) : /\ a[j] = s[1]
               /\ \A i \in Len(k) + 1 .. j - 1 : \E q \in 1 .. 1 - 1 : s[q] = a[i]
        BY <1>3, <2>1, <4>4 DEF InOrder
      <4>6. j = Len(k) + 1
        <5>1. Len(k) + 1 \notin Len(k) + 1 .. j - 1
          BY <4>5
        <5> QED
          BY <5>1
      <4>7. /\ Len(k1) = Len(k) + 1 /\ k1[Len(k) + 1] = c
            /\ \A i \in 1 .. Len(k) : k1[i] = k[i]
        BY <4>3
      <4>8. \A i \in 1 .. Len(k1) : i = Len(k) + 1 \/ i \in 1 .. Len(k)
        BY <4>7
      <4>9. Len(k) + 1 \in 1 .. Len(a) /\ a[Len(k) + 1] = s[1]
        BY <4>5, <4>6
      <4>10. \A i \in 1 .. Len(k1) : k1[i] = a[i]
        BY <1>3, <2>1, <4>7, <4>8, <4>9
      <4> QED
        BY <4>7, <4>9, <4>10
    <3>2. CASE ~ItemOn(c, t)
      <4>1. \A j \in 1 .. Len(a) : a[j] # s[1]
        BY <1>5, <2>1, <3>2
      <4>2. k1 = k
        <5>1. CASE ServeBegin(c)
          <6>1. store' = [store EXCEPT ![c] = <<>>] /\ op[c] = "Begin"
            BY <5>1, Effects
          <6>2. store[c] = NoTx
            BY <1>0, <2>1, <6>1 DEF PipeShape, Begun
          <6> QED
            BY <1>0, <6>1, <6>2 DEF Kept, TypeInv, TypeOK
        <5>2. CASE ServeItem(c)
          <6>1. on[c] # t
            BY <3>2, <5>2 DEF ItemOn, ServeItem
          <6>2. CASE on[c] = Nobody
            BY <1>0, <5>2, <6>2, Effects DEF Kept
          <6>3. CASE on[c] # Nobody
            <7>1. /\ on[c] \in Calls /\ store[on[c]] \in Seq(Calls)
                  /\ store' = [store EXCEPT ![on[c]] = Append(store[on[c]], c)]
              BY <5>2, <6>3, Effects
            <7>2. store'[t] = store[t]
              BY <6>1, <7>1 DEF TypeInv, TypeOK
            <7> QED
              BY <1>0, <7>2 DEF Kept
          <6> QED
            BY <6>2, <6>3
        <5>3. CASE ServeCommit(c)
          BY <1>0, <5>3, Effects DEF Kept
        <5>4. CASE ServeAbort(c)
          <6>1. on[c] # t
            BY <2>2, <5>4 DEF EndOn, EndOps, ServeAbort
          <6>2. store'[t] = store[t]
            BY <5>4, <6>1, Effects DEF TypeInv, TypeOK
          <6> QED
            BY <1>0, <6>2 DEF Kept
        <5>5. CASE ServeSubs(c)
          BY <1>0, <5>5, Effects DEF Kept
        <5> QED
          BY <1>11, <5>1, <5>2, <5>3, <5>4, <5>5 DEF Handled
      <4> QED
        BY <1>3, <4>1, <4>2
    <3> QED
      BY <3>1, <3>2
  <2>4. /\ InOrder(t, s1, a, Len(k1)) /\ AllBefore(t, s1, a, Len(k1))
        /\ Coming(t, s, a, Len(k)) => Coming(t, s1, a, Len(k1))
    <3>1. Len(k) \in Nat /\ Len(k1) \in Nat /\ ~EndOn(s[1], t)
      BY <2>1, <2>2
    <3> QED
      BY <1>3, <1>4, <1>5, <2>1, <2>3, <3>1, Shift
  <2>5. InOrder(t, s1, a, Len(k1))' /\ AllBefore(t, s1, a, Len(k1))'
    BY <2>1, <2>4 DEF InOrder, AllBefore, Ended, ItemOn, EndOn
  <2>6. Coming(t, s1, a, Len(k1)) => Coming(t, s1, a, Len(k1))'
    BY <2>1 DEF Coming, Ended, Sealed, EndOn
  <2> QED
    BY <1>3, <2>1, <2>3, <2>4, <2>5, <2>6 DEF OpenTx
<1> QED
  BY <1>2, <1>7, <1>8, <1>9, <1>10, <1>11, Kinds DEF Handled
-----------------------------------------------------------------------------
(***************************************************************************)
(* Transactions are atomic: Session implements AtomicTx.                   *)
(***************************************************************************)

\* The items that requestChannel has been given, with those that txStore.Commit
\* is going to give it before anything else.
Processed == IF committing = Nobody THEN stream ELSE stream \o store[committing]

\* An item that goes from the list of the transaction to the stream.
LEMMA TakeOne ==
  ASSUME NEW s \in Seq(Calls), NEW l \in Seq(Calls), l # <<>>
  PROVE  Append(s, Head(l)) \o Tail(l) = s \o l
<1>1. /\ Head(l) \in Calls /\ Tail(l) \in Seq(Calls) /\ Len(Tail(l)) = Len(l) - 1
      /\ \A i \in 1 .. Len(Tail(l)) : Tail(l)[i] = l[i + 1]
      /\ Len(l) \in Nat \ {0} /\ Head(l) = l[1]
  BY HeadTailProperties, EmptySeq
<1>2. PICK p \in Seq(Calls) : p = Append(s, Head(l))
  BY <1>1, AppendProperties
<1>3. /\ Len(p) = Len(s) + 1 /\ p[Len(s) + 1] = l[1] /\ \A i \in 1 .. Len(s) : p[i] = s[i]
  BY <1>1, <1>2
<1>4. PICK u \in Seq(Calls) : u = Tail(l)
  BY <1>1
<1>5. PICK x \in Seq(Calls) : x = p \o u
  BY ConcatProperties
<1>6. PICK y \in Seq(Calls) : y = s \o l
  BY ConcatProperties
<1>7. /\ Len(x) = Len(p) + Len(u)
      /\ \A i \in 1 .. Len(p) + Len(u) : x[i] = IF i <= Len(p) THEN p[i] ELSE u[i - Len(p)]
  BY <1>5, ConcatProperties
<1>8. /\ Len(y) = Len(s) + Len(l)
      /\ \A i \in 1 .. Len(s) + Len(l) : y[i] = IF i <= Len(s) THEN s[i] ELSE l[i - Len(s)]
  BY <1>6, ConcatProperties
<1>9. Len(x) = Len(y)
  BY <1>1, <1>3, <1>4, <1>7, <1>8
<1>10. ASSUME NEW i \in 1 .. Len(x) PROVE x[i] = y[i]
  <2>1. CASE i <= Len(s)
    <3>1. i \in 1 .. Len(s) /\ i <= Len(p) /\ i \in 1 .. Len(p) + Len(u)
          /\ i \in 1 .. Len(s) + Len(l)
      BY <1>3, <1>7, <1>8, <1>9, <2>1
    <3> QED
      BY <1>3, <1>7, <1>8, <2>1, <3>1
  <2>2. CASE i = Len(s) + 1
    <3>1. i <= Len(p) /\ ~(i <= Len(s)) /\ i - Len(s) = 1 /\ i \in 1 .. Len(p) + Len(u)
          /\ i \in 1 .. Len(s) + Len(l)
      BY <1>3, <1>7, <1>8, <1>9, <2>2
    <3> QED
      BY <1>3, <1>7, <1>8, <2>2, <3>1
  <2>3. CASE i > Len(s) + 1
    <3>1. /\ ~(i <= Len(p)) /\ ~(i <= Len(s)) /\ i \in 1 .. Len(p) + Len(u)
          /\ i \in 1 .. Len(s) + Len(l) /\ i - Len(p) \in 1 .. Len(u)
          /\ (i - Len(p)) + 1 = i - Len(s)
      BY <1>3, <1>7, <1>8, <1>9, <2>3
    <3>2. u[i - Len(p)] = l[(i - Len(p)) + 1]
      BY <1>1, <1>4, <3>1
    <3> QED
      BY <1>7, <1>8, <3>1, <3>2
  <2> QED
    BY <2>1, <2>2, <2>3
<1>11. x = y
  BY <1>9, <1>10, SeqEqual
<1> QED
  BY <1>2, <1>4, <1>5, <1>6, <1>11

\* COMMIT is the first frame: the server has all the items that were asked for.
LEMMA WholeAtCommit ==
  ASSUME TxBase, AskedShape, TxInv, NEW c \in Calls, ServeCommit(c)
  PROVE  decided[on[c]] = "open" /\ store[on[c]] = asked[on[c]]
<1> USE DEF TxBase, BaseInv
<1>1. Handled(c)
  BY DEF Handled
<1>2. PICK t \in Calls : t = on[c]
  BY Effects
<1>3. /\ op[c] = "Commit" /\ store[t] \in Seq(Calls) /\ store[t] # NoTx
  BY <1>2, Effects
<1>4. sst = "connected" /\ committing = Nobody /\ Len(Pipe) \in Nat \ {0} /\ Pipe[1] = c
  BY <1>1, HandledFacts
<1>5. decided[t] = "open"
  BY <1>3, <1>4, NobodyAssumption DEF Outcomes
<1>6. PICK s \in Seq(Calls), a \in Seq(Calls), k \in Seq(Calls) :
        s = Pipe /\ a = asked[t] /\ k = Kept(t)
  <2>1. Pipe \in Seq(Calls) /\ asked[t] \in Seq(Calls) /\ Kept(t) \in Seq(Calls)
    BY PipeType DEF Kept, TypeInv, TypeOK
  <2> QED
    BY <2>1
<1>7. k = store[t]
  BY <1>3, <1>6 DEF Kept
<1>8. OpenTx(t, s, a, k)
  BY <1>4, <1>5, <1>6 DEF TxInv
<1>9. 1 \in 1 .. Len(s) /\ EndOn(s[1], t) /\ ~Ended(s, 1, t)
  BY <1>2, <1>3, <1>4, <1>6 DEF EndOn, EndOps, Ended
<1>10. \A i \in Len(k) + 1 .. Len(a) : \E q \in 1 .. 1 - 1 : s[q] = a[i]
  BY <1>8, <1>9 DEF OpenTx, AllBefore
<1>11. Len(k) = Len(a)
  <2>1. Len(k) <= Len(a)
    BY <1>8 DEF OpenTx
  <2>2. Len(k) < Len(a) => Len(k) + 1 \in Len(k) + 1 .. Len(a)
    OBVIOUS
  <2> QED
    BY <1>10, <2>1, <2>2
<1>12. k = a
  BY <1>8, <1>11, SeqEqual DEF OpenTx
<1> QED
  BY <1>2, <1>5, <1>6, <1>7, <1>12

\* The elements of a list.
LEMMA ElementsIn ==
  ASSUME NEW s \in Seq(Calls)
  PROVE  /\ Elements(s) \subseteq Calls
         /\ \A x : x \in Elements(s) <=> \E i \in 1 .. Len(s) : s[i] = x
BY DEF Elements

\* The empty list has none.
LEMMA ElementsNone == Elements(<<>>) = {}
BY DEF Elements

\* The elements of a list that is cut off.
LEMMA ElementsCut ==
  ASSUME NEW s \in Seq(Calls), NEW r \in Seq(Calls),
         \A i \in 1 .. Len(r) : i \in 1 .. Len(s) /\ r[i] = s[i]
  PROVE  Elements(r) \subseteq Elements(s)
BY DEF Elements

\* The elements of a list that grows.
LEMMA ElementsAppend ==
  ASSUME NEW s \in Seq(Calls), NEW x \in Calls
  PROVE  Elements(Append(s, x)) = Elements(s) \cup {x}
<1>1. PICK r \in Seq(Calls) : r = Append(s, x)
  BY AppendProperties
<1>2. /\ Len(r) = Len(s) + 1 /\ r[Len(s) + 1] = x
      /\ \A i \in 1 .. Len(s) : r[i] = s[i]
  BY <1>1
<1>3. \A i \in 1 .. Len(r) : i = Len(s) + 1 \/ i \in 1 .. Len(s)
  BY <1>2
<1>4. Len(s) + 1 \in 1 .. Len(r) /\ \A i \in 1 .. Len(s) : i \in 1 .. Len(r)
  BY <1>2
<1>5. \A y : y \in Elements(r) <=> y \in Elements(s) \cup {x}
  BY <1>2, <1>3, <1>4, ElementsIn
<1> QED
  BY <1>1, <1>5

\* The elements of a list that shrinks.
LEMMA ElementsTail ==
  ASSUME NEW s \in Seq(Calls), s # <<>>
  PROVE  /\ Elements(s) = Elements(Tail(s)) \cup {Head(s)}
         /\ Head(s) \in Calls /\ Tail(s) \in Seq(Calls)
<1>1. PICK r \in Seq(Calls) : r = Tail(s)
  BY HeadTailProperties
<1>2. /\ Len(r) = Len(s) - 1 /\ Head(s) = s[1] /\ Len(s) \in Nat \ {0} /\ Head(s) \in Calls
      /\ \A i \in 1 .. Len(r) : r[i] = s[i + 1]
  BY <1>1, HeadTailProperties, EmptySeq
<1>3. \A i \in 1 .. Len(r) : i + 1 \in 1 .. Len(s)
  BY <1>2
<1>4. ASSUME NEW i \in 1 .. Len(s), i # 1
      PROVE  i - 1 \in 1 .. Len(r) /\ r[i - 1] = s[i]
  <2>1. i - 1 \in 1 .. Len(r) /\ (i - 1) + 1 = i
    BY <1>2, <1>4
  <2> QED
    BY <1>2, <2>1
<1>5. 1 \in 1 .. Len(s)
  BY <1>2
<1>6. ASSUME NEW y \in Elements(s) PROVE y \in Elements(r) \cup {Head(s)}
  <2>1. PICK i \in 1 .. Len(s) : s[i] = y
    BY ElementsIn
  <2>2. i # 1 => y \in Elements(r)
    BY <1>4, <2>1, ElementsIn
  <2> QED
    BY <1>2, <2>1, <2>2
<1>7. ASSUME NEW y \in Elements(r) PROVE y \in Elements(s)
  <2>1. PICK i \in 1 .. Len(r) : r[i] = y
    BY ElementsIn
  <2>2. i + 1 \in 1 .. Len(s) /\ s[i + 1] = y
    BY <1>2, <1>3, <2>1
  <2> QED
    BY <2>2, ElementsIn
<1>8. Head(s) \in Elements(s)
  BY <1>2, <1>5, ElementsIn
<1> QED
  BY <1>1, <1>2, <1>6, <1>7, <1>8

\* An item is in one place only: on its way to the server, in the list of its
\* transaction, or handed on; and it is handed on only alone or by a COMMIT.
Places ==
  /\ \A x \in Elements(stream) :
       /\ Pushed(x) /\ op[x] \in ItemOps
       /\ on[x] = Nobody \/ decided[on[x]] = "committed"
  /\ \A t \in Calls : \A x \in Elements(Kept(t)) : Pushed(x) /\ ItemOn(x, t)
  /\ sst = "connected" => \A x \in Elements(Pipe) :
       x \notin Elements(stream) /\ \A t \in Calls : x \notin Elements(Kept(t))

\* Every step keeps the items in their places.
LEMMA PlacesStep ==
  ASSUME TxBase, Places, [Next]_vars
  PROVE  Places'
<1> USE DEF TxBase, BaseInv
<1>0. /\ TypeInv' /\ stream \in Seq(Calls) /\ Pipe \in Seq(Calls)
      /\ \A t \in Calls : Kept(t) \in Seq(Calls)
  <2>1. TypeInv'
    BY TypeStep
  <2>2. Pipe \in Seq(Calls)
    BY PipeType
  <2>3. stream \in Seq(Calls) /\ \A t \in Calls : Kept(t) \in Seq(Calls)
    BY DEF TypeInv, TypeOK, Kept
  <2> QED
    BY <2>1, <2>2, <2>3
<1>00. /\ stream' \in Seq(Calls) /\ Pipe' \in Seq(Calls)
       /\ \A t \in Calls : Kept(t)' \in Seq(Calls)
  BY <1>0 DEF TypeInv, TypeOK, Kept, Pipe
<1>1. ASSUME NEW x \in Calls, Pushed(x)
      PROVE  Pushed(x)' /\ op'[x] = op[x] /\ on'[x] = on[x]
  BY <1>1, Stable, PushedStep DEF Pushed
<1>2. ASSUME NEW x \in Calls, on[x] = Nobody \/ decided[on[x]] = "committed"
      PROVE  on[x] = Nobody \/ decided'[on[x]] = "committed"
  BY <1>2, OutcomeFinal DEF TypeInv, TypeOK
\* What a step may do to the three places.
<1>3. ASSUME \A x \in Elements(stream') :
               \/ x \in Elements(stream)
               \/ /\ Pushed(x) /\ op[x] \in ItemOps
                  /\ on[x] = Nobody \/ decided'[on[x]] = "committed"
                  /\ sst' = "connected" => x \notin Elements(Pipe'),
             \A t \in Calls : \A x \in Elements(Kept(t)') :
               \/ x \in Elements(Kept(t))
               \/ Pushed(x) /\ ItemOn(x, t) /\ (sst' = "connected" => x \notin Elements(Pipe')),
             sst' = "connected" => \A x \in Elements(Pipe') :
               ~Pushed(x) \/ (sst = "connected" /\ x \in Elements(Pipe))
      PROVE  Places'
  <2>1. ASSUME NEW x \in Elements(stream')
        PROVE  /\ x \in Calls /\ Pushed(x) /\ Pushed(x)' /\ op'[x] \in ItemOps
               /\ on'[x] = Nobody \/ decided'[on'[x]] = "committed"
    <3>1. x \in Calls
      BY <1>00, ElementsIn
    <3>2. /\ Pushed(x) /\ op[x] \in ItemOps
          /\ on[x] = Nobody \/ decided'[on[x]] = "committed"
      BY <1>2, <1>3, <3>1 DEF Places
    <3> QED
      BY <1>1, <3>1, <3>2
  <2>2. ASSUME NEW t \in Calls, NEW x \in Elements(Kept(t)')
        PROVE  x \in Calls /\ Pushed(x) /\ Pushed(x)' /\ ItemOn(x, t)'
    <3>1. x \in Calls
      BY <1>00, ElementsIn
    <3>2. Pushed(x) /\ ItemOn(x, t)
      BY <1>3 DEF Places
    <3> QED
      BY <1>1, <3>1, <3>2 DEF ItemOn
  <2>3. ASSUME sst' = "connected", NEW x \in Elements(Pipe'), x \in Elements(stream')
        PROVE  FALSE
    BY <1>3, <2>1, <2>3 DEF Places
  <2>4. ASSUME sst' = "connected", NEW x \in Elements(Pipe'), NEW t \in Calls,
               x \in Elements(Kept(t)')
        PROVE  FALSE
    BY <1>3, <2>2, <2>4 DEF Places
  <2> QED
    BY <2>1, <2>2, <2>3, <2>4 DEF Places
<1>4. ASSUME UNCHANGED <<store, stream>>,
             sst' = "connected" => sst = "connected" /\ Elements(Pipe') \subseteq Elements(Pipe)
      PROVE  Places'
  BY <1>3, <1>4 DEF Kept
<1>5. CASE sst' # "connected"
  <2>1. stream' = stream /\ \A t \in Calls : store'[t] \in {store[t], NoTx}
    BY <1>5, Elsewhere
  <2>2. \A t \in Calls : Elements(Kept(t)') \subseteq Elements(Kept(t))
    BY <2>1, ElementsNone DEF Kept
  <2> QED
    BY <1>3, <1>5, <2>1, <2>2
<1>6. CASE HandleConnect /\ sst' = "connected"
  <2>1. UNCHANGED <<store, stream>> /\ Pipe' = <<>>
    BY <1>6 DEF HandleConnect, Early, Pipe, Refuse
  <2> QED
    BY <1>3, <2>1, ElementsNone DEF Kept
<1>7. CASE Quiet /\ sst = "connected"
  BY <1>4, <1>7 DEF Quiet
<1>8. CASE Break /\ sst = "connected"
  <2>1. UNCHANGED <<store, stream>>
    BY <1>8 DEF Break, srvVars
  <2>2. \A i \in 1 .. Len(Pipe') : i \in 1 .. Len(Pipe) /\ Pipe'[i] = Pipe[i]
    BY <1>8, BreakPipe
  <2>3. Elements(Pipe') \subseteq Elements(Pipe)
    BY <1>0, <1>00, <2>2, ElementsCut
  <2> QED
    BY <1>4, <1>8, <2>1, <2>3
<1>9. ASSUME NEW c \in Calls, Push(c), cst # "closed", sst = "connected" PROVE Places'
  <2>1. UNCHANGED <<store, stream>> /\ ~Pushed(c)
    BY <1>9, PushDoes
  <2>2. Pipe' \in {Pipe, Append(Pipe, c)}
    BY <1>9, PushPipe
  <2>3. Elements(Pipe') \subseteq Elements(Pipe) \cup {c}
    BY <1>0, <2>2, ElementsAppend
  <2> QED
    BY <1>3, <1>9, <2>1, <2>3 DEF Kept
<1>10. CASE CommitOne
  <2>1. /\ committing \in Calls /\ Pipe' = Pipe /\ sst' = sst
        /\ \A t \in Calls : t # committing => store'[t] = store[t]
        /\ store[committing] \in Seq(Calls) /\ store[committing] # NoTx
    BY <1>10, CommitOneFacts, NoTxNoList
  <2>2. sst = "connected" /\ decided[committing] = "committed" /\ UNCHANGED decided
    BY <1>10, <2>1, CommitOneFacts, NobodyAssumption DEF TypeInv, Shape, Outcomes
  <2>3. CASE store[committing] # <<>>
    <3>1. PICK h \in Calls : h = Head(store[committing])
      BY <2>1, <2>3, ElementsTail
    <3>2. /\ stream' = Append(stream, h) /\ store'[committing] = Tail(store[committing])
          /\ store'[committing] # NoTx
      BY <1>10, <2>3, <3>1, CommitOneFacts
    <3>3. Elements(stream') = Elements(stream) \cup {h} /\ h \in Elements(Kept(committing))
      <4>1. Elements(stream') = Elements(stream) \cup {h}
        BY <1>0, <3>2, ElementsAppend
      <4>2. Kept(committing) = store[committing]
        BY <2>1 DEF Kept
      <4> QED
        BY <2>1, <2>3, <3>1, <4>1, <4>2, ElementsTail
    <3>4. \A t \in Calls : t # committing => Kept(t)' = Kept(t)
      BY <2>1 DEF Kept
    <3>5. /\ Pushed(h) /\ op[h] \in ItemOps /\ on[h] = committing
          /\ h \notin Elements(Pipe)
      BY <2>1, <2>2, <3>3 DEF Places, ItemOn
    <3>6. \A t \in Calls : Elements(Kept(t)') \subseteq Elements(Kept(t))
      <4> SUFFICES ASSUME NEW t \in Calls PROVE Elements(Kept(t)') \subseteq Elements(Kept(t))
        OBVIOUS
      <4>1. CASE t # committing
        BY <3>4, <4>1
      <4>2. CASE t = committing
        <5>1. Kept(t)' = store'[t] /\ Kept(t) = store[t]
          BY <2>1, <3>2, <4>2 DEF Kept
        <5> QED
          BY <2>1, <2>3, <3>2, <4>2, <5>1, ElementsTail
      <4> QED
        BY <4>1, <4>2
    <3> QED
      BY <1>3, <2>1, <2>2, <3>3, <3>5, <3>6
  <2>4. CASE store[committing] = <<>>
    <3>1. stream' = stream /\ store'[committing] = NoTx
      BY <1>10, <2>4, CommitOneFacts
    <3>2. \A t \in Calls : Elements(Kept(t)') \subseteq Elements(Kept(t))
      BY <2>1, <3>1, ElementsNone DEF Kept
    <3> QED
      BY <1>3, <2>1, <2>2, <3>1, <3>2
  <2> QED
    BY <2>3, <2>4
<1>11. ASSUME NEW c \in Calls, Handled(c) PROVE Places'
  <2>1. /\ sst = "connected" /\ Len(Pipe) \in Nat \ {0} /\ Pipe[1] = c
        /\ Len(Pipe') = Len(Pipe) - 1 /\ \A i \in 1 .. Len(Pipe') : Pipe'[i] = Pipe[i + 1]
    BY <1>11, HandledFacts
  <2>2. c \in Elements(Pipe) /\ Pushed(c)
    <3>1. 1 \in 1 .. Len(Pipe)
      BY <2>1
    <3> QED
      BY <1>0, <2>1, <3>1, ElementsIn DEF PipeShape
  <2>3. Elements(Pipe') \subseteq Elements(Pipe) \ {c}
    <3> SUFFICES ASSUME NEW x, x \in Elements(Pipe') PROVE x \in Elements(Pipe) /\ x # c
      OBVIOUS
    <3>1. PICK i \in 1 .. Len(Pipe') : Pipe'[i] = x
      BY <1>00, ElementsIn
    <3>2. i + 1 \in 1 .. Len(Pipe) /\ 1 \in 1 .. Len(Pipe) /\ i + 1 # 1 /\ Pipe[i + 1] = x
      BY <2>1, <3>1
    <3>3. x # c
      BY <2>1, <3>2 DEF PipeShape
    <3> QED
      BY <1>0, <3>2, <3>3, ElementsIn
  <2>4. CASE ServeBegin(c)
    <3>1. store' = [store EXCEPT ![c] = <<>>] /\ UNCHANGED stream
      BY <2>4, Effects
    <3>2. \A t \in Calls : Kept(t)' = <<>> \/ Kept(t)' = Kept(t)
      BY <3>1 DEF Kept, TypeInv, TypeOK
    <3> QED
      BY <1>3, <2>1, <2>3, <3>1, <3>2, ElementsNone
  <2>5. CASE ServeItem(c)
    <3>1. op[c] \in ItemOps
      BY <2>5, Effects
    <3>2. CASE on[c] = Nobody
      <4>1. UNCHANGED store /\ stream' = Append(stream, c)
        BY <2>5, <3>2, Effects
      <4>2. Elements(stream') = Elements(stream) \cup {c}
        BY <1>0, <4>1, ElementsAppend
      <4> QED
        BY <1>3, <2>1, <2>2, <2>3, <3>1, <3>2, <4>1, <4>2 DEF Kept
    <3>3. CASE on[c] # Nobody
      <4>1. /\ on[c] \in Calls /\ store[on[c]] \in Seq(Calls) /\ store[on[c]] # NoTx
            /\ store' = [store EXCEPT ![on[c]] = Append(store[on[c]], c)]
            /\ Append(store[on[c]], c) # NoTx /\ UNCHANGED stream
        BY <2>5, <3>3, Effects
      <4>2. PICK t \in Calls : t = on[c]
        BY <4>1
      <4>3. Kept(t)' = Append(Kept(t), c) /\ \A u \in Calls : u # t => Kept(u)' = Kept(u)
        BY <4>1, <4>2 DEF Kept, TypeInv, TypeOK
      <4>4. Elements(Kept(t)') = Elements(Kept(t)) \cup {c} /\ ItemOn(c, t)
        BY <1>0, <3>1, <4>2, <4>3, ElementsAppend DEF ItemOn
      <4> QED
        BY <1>3, <2>1, <2>2, <2>3, <4>1, <4>3, <4>4
    <3> QED
      BY <3>2, <3>3
  <2>6. CASE ServeCommit(c) \/ ServeSubs(c)
    BY <1>4, <2>1, <2>3, <2>6, Effects
  <2>7. CASE ServeAbort(c)
    <3>1. store' = [store EXCEPT ![on[c]] = NoTx] /\ UNCHANGED stream
      BY <2>7, Effects
    <3>2. \A t \in Calls : Kept(t)' = <<>> \/ Kept(t)' = Kept(t)
      BY <3>1 DEF Kept, TypeInv, TypeOK
    <3> QED
      BY <1>3, <2>1, <2>3, <3>1, <3>2, ElementsNone
  <2> QED
    BY <1>11, <2>4, <2>5, <2>6, <2>7 DEF Handled
<1> QED
  BY <1>5, <1>6, <1>7, <1>8, <1>9, <1>10, <1>11, Kinds DEF Handled

\* The items that are asked for outside of transactions.
Alone == {c \in Calls : op[c] \in ItemOps /\ on[c] = Nobody /\ Pushed(c)}

\* They become more with Push only.
LEMMA AloneStep ==
  ASSUME BaseInv, [Next]_vars
  PROVE  \A x \in Calls : x \in Alone' <=>
           \/ x \in Alone
           \/ op[x] \in ItemOps /\ on[x] = Nobody /\ Push(x) /\ cst # "closed"
<1> USE DEF BaseInv
<1>1. ASSUME NEW x \in Calls, Pushed(x)
      PROVE  Pushed(x)' /\ op'[x] = op[x] /\ on'[x] = on[x]
  BY <1>1, Stable, PushedStep DEF Pushed
<1>2. ASSUME NEW x \in Calls, Push(x), cst # "closed"
      PROVE  Pushed(x)' /\ op'[x] = op[x] /\ on'[x] = on[x]
  BY <1>2, PushDoes
<1>3. ASSUME NEW x \in Calls, Pushed(x)' PROVE Pushed(x) \/ (Push(x) /\ cst # "closed")
  BY <1>3, PushedStep
<1> QED
  BY <1>1, <1>2, <1>3 DEF Alone

\* Every step of Session is a step of AtomicTx, or none.
LEMMA TxStep ==
  ASSUME TxBase, AskedShape, TxInv, Places, [Next]_vars
  PROVE  [ATx!Next]_(ATx!txVars)
<1> USE DEF TxBase, BaseInv
<1>0. TypeInv'
  BY TypeStep
<1>1. ASSUME UNCHANGED <<asked, decided>>, Processed' = Processed, Alone' = Alone
      PROVE  [ATx!Next]_(ATx!txVars)
  BY <1>1 DEF ATx!txVars, Processed, Alone
<1>2. ASSUME NEW c \in Calls, Push(c), cst # "closed" PROVE [ATx!Next]_(ATx!txVars)
  <2>1. /\ UNCHANGED <<store, decided, committing, stream>> /\ ~Pushed(c)
        /\ asked' = IF op[c] \in ItemOps /\ on[c] # Nobody /\ ~Sealed(on[c])
                      THEN [asked EXCEPT ![on[c]] = Append(@, c)] ELSE asked
    BY <1>2, PushDoes
  <2>2. Processed' = Processed
    BY <2>1 DEF Processed
  <2>3. Alone' = IF op[c] \in ItemOps /\ on[c] = Nobody THEN Alone \cup {c} ELSE Alone
    <3>1. ASSUME NEW x \in Calls, Push(x), cst # "closed" PROVE x = c
      <4>1. Pushed(x)' /\ ~Pushed(x)
        BY <3>1, PushDoes
      <4> QED
        BY <1>2, <4>1, PushDoes
    <3>2. \A x \in Calls : x \in Alone' <=> x \in Alone \/ (op[c] \in ItemOps /\ on[c] = Nobody /\ x = c)
      BY <1>2, <3>1, AloneStep
    <3>3. Alone \subseteq Calls /\ Alone' \subseteq Calls
      BY DEF Alone
    <3> QED
      BY <3>2, <3>3
  <2>4. ATx!New(c)
    <3>1. c \notin Alone
      BY <2>1 DEF Alone
    <3>2. \A t \in Calls : \A k \in 1 .. Len(asked[t]) : asked[t][k] # c
      BY <2>1 DEF AskedShape
    <3> QED
      BY <3>1, <3>2 DEF ATx!New, ATx!In, Alone
  <2>5. CASE op[c] \in ItemOps /\ on[c] # Nobody /\ ~Sealed(on[c])
    <3>1. PICK t \in Calls : t = on[c]
      BY <2>5 DEF TypeInv, TypeOK
    <3>2. decided[t] = "open"
      BY <2>5, <3>1 DEF Outcomes, Sealed, EndOn
    <3>3. asked' = [asked EXCEPT ![t] = Append(@, c)] /\ Alone' = Alone
      BY <2>1, <2>3, <2>5, <3>1
    <3>4. ATx!Ask(t, c)
      BY <2>1, <2>2, <2>4, <3>2, <3>3 DEF ATx!Ask, Processed, Alone
    <3> QED
      BY <3>4 DEF ATx!Next
  <2>6. CASE op[c] \in ItemOps /\ on[c] = Nobody
    <3>1. UNCHANGED asked /\ Alone' = Alone \cup {c}
      BY <2>1, <2>3, <2>6
    <3>2. ATx!AskAlone(c)
      BY <2>1, <2>2, <2>4, <3>1 DEF ATx!AskAlone, Processed, Alone
    <3> QED
      BY <3>2 DEF ATx!Next
  <2>7. CASE ~(op[c] \in ItemOps) \/ (on[c] # Nobody /\ Sealed(on[c]))
    <3>1. UNCHANGED asked /\ Alone' = Alone
      BY <2>1, <2>3, <2>7
    <3> QED
      BY <1>1, <2>1, <2>2, <3>1
  <2> QED
    BY <2>5, <2>6, <2>7
<1> SUFFICES ASSUME UNCHANGED asked, Alone' = Alone PROVE [ATx!Next]_(ATx!txVars)
  <2>1. CASE \E c \in Calls : Push(c) /\ cst # "closed"
    BY <1>2, <2>1
  <2>2. CASE ~\E c \in Calls : Push(c) /\ cst # "closed"
    <3>1. \A x \in Calls : x \in Alone' <=> x \in Alone
      BY <2>2, AloneStep
    <3>2. Alone \subseteq Calls /\ Alone' \subseteq Calls
      BY DEF Alone
    <3> QED
      BY <2>2, <3>1, <3>2, AskedStep
  <2> QED
    BY <2>1, <2>2
<1>3. CASE sst' # "connected"
  <2>1. UNCHANGED <<decided, committing, stream>>
    BY <1>3, Elsewhere
  <2>2. committing' = Nobody
    BY <1>0, <1>3 DEF TypeInv, Shape
  <2> QED
    BY <1>1, <2>1, <2>2 DEF Processed
<1>4. CASE HandleConnect \/ Quiet \/ Break
  <2>1. /\ UNCHANGED <<decided, committing, stream>>
        /\ committing # Nobody => UNCHANGED store
    BY <1>4 DEF HandleConnect, Quiet, Break, srvVars, Refuse, TypeInv, Shape
  <2> QED
    BY <1>1, <2>1 DEF Processed
<1>5. CASE CommitOne
  <2>1. committing \in Calls /\ committing # Nobody
    BY <1>5, CommitOneFacts, NobodyAssumption
  <2>2. PICK l \in Seq(Calls) : l = store[committing]
    BY <1>5, CommitOneFacts
  <2>3. UNCHANGED decided /\ stream \in Seq(Calls)
    BY <1>5, CommitOneFacts DEF TypeInv, TypeOK
  <2>4. CASE /\ l # <<>> /\ committing' = committing /\ store'[committing] = Tail(l)
             /\ stream' = Append(stream, Head(l))
    <3>1. Processed' = Append(stream, Head(l)) \o Tail(l)
      BY <2>1, <2>4 DEF Processed
    <3>2. Processed = stream \o l
      BY <2>1, <2>2 DEF Processed
    <3> QED
      BY <1>1, <2>3, <2>4, <3>1, <3>2, TakeOne
  <2>5. CASE l = <<>> /\ committing' = Nobody /\ UNCHANGED stream
    <3>1. stream \o l = stream
      BY <2>3, <2>5, ConcatEmptySeq
    <3> QED
      BY <1>1, <2>1, <2>2, <2>3, <2>5, <3>1 DEF Processed
  <2> QED
    BY <1>5, <2>2, <2>4, <2>5, CommitOneFacts
<1>6. ASSUME NEW c \in Calls, Handled(c) PROVE [ATx!Next]_(ATx!txVars)
  <2>1. committing = Nobody
    BY <1>6, HandledFacts
  <2>2. CASE ServeBegin(c) \/ ServeSubs(c)
    BY <1>1, <2>1, <2>2, Effects DEF Processed
  <2>3. CASE ServeItem(c)
    <3>1. UNCHANGED <<decided, committing>>
      BY <2>3, Effects
    <3>2. CASE on[c] = Nobody
      <4>1. stream' = Append(stream, c)
        BY <2>3, <3>2, Effects
      <4>2. c \in Alone /\ ~ATx!In(c, stream)
        <5>1. /\ sst = "connected" /\ 1 \in 1 .. Len(Pipe) /\ Pipe[1] = c /\ op[c] \in ItemOps
              /\ Pipe \in Seq(Calls) /\ stream \in Seq(Calls)
          BY <1>6, <2>3, HandledFacts, PipeType, Effects DEF TypeInv, TypeOK
        <5>2. Pushed(c)
          BY <5>1 DEF PipeShape
        <5>3. c \in Elements(Pipe)
          BY <5>1, ElementsIn
        <5>4. c \notin Elements(stream)
          BY <5>1, <5>3 DEF Places
        <5>5. ~ATx!In(c, stream)
          BY <5>1, <5>4, ElementsIn DEF ATx!In
        <5> QED
          BY <3>2, <5>1, <5>2, <5>5 DEF Alone
      <4>3. ATx!Single(c)
        BY <2>1, <3>1, <4>1, <4>2 DEF ATx!Single, Alone
      <4> QED
        BY <4>3 DEF ATx!Next
    <3>3. CASE on[c] # Nobody
      <4>1. UNCHANGED stream
        BY <2>3, <3>3, Effects
      <4> QED
        BY <1>1, <2>1, <3>1, <4>1 DEF Processed
    <3> QED
      BY <3>2, <3>3
  <2>4. CASE ServeCommit(c)
    <3>1. PICK t \in Calls : t = on[c]
      BY <2>4, Effects
    <3>2. /\ committing' = t /\ UNCHANGED <<store, stream>>
          /\ decided' = [decided EXCEPT ![t] = "committed"]
      BY <2>4, <3>1, Effects
    <3>3. decided[t] = "open" /\ store[t] = asked[t]
      BY <2>4, <3>1, WholeAtCommit
    <3>4. ATx!Commit(t)
      BY <2>1, <3>2, <3>3, NobodyAssumption DEF ATx!Commit, Alone
    <3> QED
      BY <3>4 DEF ATx!Next
  <2>5. CASE ServeAbort(c)
    <3>1. PICK t \in Calls : t = on[c]
      BY <2>5, Effects
    <3>2. /\ UNCHANGED <<committing, stream>> /\ store[t] # NoTx
          /\ decided' = [decided EXCEPT ![t] = "aborted"]
      BY <2>5, <3>1, Effects
    <3>3. decided[t] = "open"
      BY <2>1, <3>2, NobodyAssumption DEF Outcomes
    <3>4. ATx!Abort(t)
      BY <2>1, <3>2, <3>3 DEF ATx!Abort, Alone
    <3> QED
      BY <3>4 DEF ATx!Next
  <2> QED
    BY <1>6, <2>2, <2>3, <2>4, <2>5 DEF Handled
<1> QED
  BY <1>2, <1>3, <1>4, <1>5, <1>6, Kinds DEF Handled

\* What holds of the items of the transactions, and of where they are.
TxAll == TxBase /\ AskedShape /\ TxInv /\ Places

\* The first state satisfies the invariant.
LEMMA TxAllInit == Init => TxAll
<1> SUFFICES ASSUME Init PROVE TxAll
  OBVIOUS
<1>1. TxBase
  BY TxBaseInit
<1>2. AskedShape
  BY DEF Init, AskedShape
<1>3. TxInv
  BY DEF Init, TxInv
<1>4. Places
  <2>1. stream = <<>> /\ sst # "connected" /\ \A t \in Calls : Kept(t) = <<>>
    BY DEF Init, Kept
  <2> QED
    BY <2>1, ElementsNone DEF Places
<1> QED
  BY <1>1, <1>2, <1>3, <1>4 DEF TxAll

\* Every step keeps the invariant.
LEMMA TxAllStep == TxAll /\ [Next]_vars => TxAll'
BY TxBaseStep, AskedShapeStep, TxInvStep, PlacesStep DEF TxAll, TxBase

\* "All messages sent and and acknowledged in the context of a transaction are
\* processed atomically": whatever the calls, the network and the server do, the
\* items of a transaction reach requestChannel all, in the order of the calls
\* and with nothing in between, or not at all; an item outside of transactions
\* reaches it at most once.
THEOREM TxAtomicHolds == Spec => TxAtomic
<1>1. Init => ATx!Init
  <2> SUFFICES ASSUME Init PROVE ATx!Init
    OBVIOUS
  <2>1. Alone = {}
    BY DEF Init, Alone, ItemOps
  <2> QED
    BY <2>1 DEF Init, ATx!Init, Alone
<1>2. TxAll /\ [Next]_vars => [ATx!Next]_(ATx!txVars)
  BY TxStep DEF TxAll
<1> QED
  BY <1>1, <1>2, TxAllInit, TxAllStep, PTL DEF Spec, TxAtomic, ATx!Spec
-----------------------------------------------------------------------------
(***************************************************************************)
(* What a receipt says of the items.                                       *)
(***************************************************************************)

\* A COMMIT that was decided on is carried out: no item gets lost on its way.
Whole == \A t \in Calls : decided[t] = "committed" => HandedOn(t)

\* What has been handed on stays so.
LEMMA StreamGrows ==
  ASSUME TypeInv, CallShape, [Next]_vars
  PROVE  Elements(stream) \subseteq Elements(stream')
<1>0. stream \in Seq(Calls)
  BY DEF TypeInv, TypeOK
<1>1. ASSUME NEW x \in Calls, stream' = Append(stream, x)
      PROVE  Elements(stream) \subseteq Elements(stream')
  BY <1>0, <1>1, ElementsAppend
<1>2. CASE sst' # "connected"
  BY <1>2, Elsewhere
<1>3. CASE HandleConnect
  BY <1>3 DEF HandleConnect
<1>4. CASE Quiet \/ Break
  BY <1>4 DEF Quiet, Break, srvVars
<1>5. CASE CommitOne
  <2>1. store[committing] # <<>> => Head(store[committing]) \in Calls
    BY <1>5, CommitOneFacts, ElementsTail
  <2> QED
    BY <1>1, <1>5, <2>1, CommitOneFacts
<1>6. CASE \E c \in Calls : Push(c) /\ cst # "closed"
  BY <1>6, PushDoes
<1>7. ASSUME NEW c \in Calls, Handled(c) PROVE Elements(stream) \subseteq Elements(stream')
  BY <1>1, <1>7, Effects DEF Handled
<1> QED
  BY <1>2, <1>3, <1>4, <1>5, <1>6, <1>7, Kinds DEF Handled

\* Every step keeps the items of a COMMIT together.
LEMMA WholeStep ==
  ASSUME TxAll, Whole, [Next]_vars
  PROVE  Whole'
<1> USE DEF TxAll, TxBase, BaseInv
<1> SUFFICES ASSUME NEW t \in Calls, decided'[t] = "committed", NEW x \in Elements(asked'[t])
             PROVE  \/ x \in Elements(stream')
                    \/ committing' = t /\ x \in Elements(store'[t])
  BY DEF Whole, HandedOn
<1>1. CASE decided[t] = "committed"
  <2>1. Sealed(t)
    BY <1>1 DEF Outcomes, Sealed, EndOn
  <2>2. asked'[t] = asked[t]
    <3>1. ASSUME NEW c \in Calls, Push(c), cst # "closed" PROVE asked'[t] = asked[t]
      <4>1. asked' = IF op[c] \in ItemOps /\ on[c] # Nobody /\ ~Sealed(on[c])
                       THEN [asked EXCEPT ![on[c]] = Append(@, c)] ELSE asked
        BY <3>1, PushDoes
      <4> QED
        BY <2>1, <4>1 DEF TypeInv, TypeOK
    <3> QED
      BY <3>1, AskedStep
  <2>3. x \in Elements(stream) \/ (committing = t /\ x \in Elements(store[t]))
    BY <1>1, <2>2 DEF Whole, HandedOn
  <2>4. CASE x \in Elements(stream)
    BY <2>4, StreamGrows
  <2>5. CASE committing = t /\ x \in Elements(store[t])
    <3>0. t # Nobody /\ store[t] \in Seq(Calls) /\ stream \in Seq(Calls)
      BY <2>5, NobodyAssumption DEF TypeInv, TypeOK, Shape
    <3>1. CASE CommitOne
      <4>1. store[t] # <<>>
        BY <2>5, ElementsNone
      <4>2. /\ committing' = t /\ store'[t] = Tail(store[t])
            /\ stream' = Append(stream, Head(store[t]))
        BY <2>5, <3>1, <4>1, CommitOneFacts
      <4>3. x \in Elements(Tail(store[t])) \/ x = Head(store[t])
        BY <2>5, <3>0, <4>1, ElementsTail
      <4>4. Elements(stream') = Elements(stream) \cup {Head(store[t])}
        BY <3>0, <4>1, <4>2, ElementsAppend, ElementsTail
      <4> QED
        BY <4>2, <4>3, <4>4
    <3>2. CASE UNCHANGED <<store, committing>>
      BY <2>5, <3>2
    <3>3. sst' = "connected"
      <4>1. TypeInv'
        BY TypeStep
      <4>2. sst' # "connected" => committing' = committing
        BY Elsewhere
      <4> QED
        BY <2>5, <3>0, <4>1, <4>2 DEF TypeInv, Shape
    <3>4. ~HandleConnect /\ ~\E c \in Calls : Handled(c)
      BY <2>5, <3>0, HandledFacts DEF HandleConnect, TypeInv, Shape
    <3>5. CASE Quiet \/ Break \/ \E c \in Calls : Push(c) /\ cst # "closed"
      <4>1. UNCHANGED <<store, committing>>
        BY <3>5, PushDoes DEF Quiet, Break, srvVars
      <4> QED
        BY <3>2, <4>1
    <3> QED
      BY <3>1, <3>3, <3>4, <3>5, Kinds DEF Handled
  <2> QED
    BY <2>3, <2>4, <2>5
<1>2. CASE decided[t] # "committed"
  <2>1. sst' = "connected" /\ ~HandleConnect
    BY <1>2, Elsewhere DEF HandleConnect
  <2>2. ~(Quiet \/ Break \/ CommitOne \/ \E c \in Calls : Push(c) /\ cst # "closed")
    BY <1>2, PushDoes, CommitOneFacts DEF Quiet, Break, srvVars
  <2>3. PICK c \in Calls : Handled(c)
    BY <2>1, <2>2, Kinds DEF Handled
  <2>4. ServeCommit(c) /\ on[c] = t
    BY <1>2, <2>3, Effects DEF Handled, TypeInv, TypeOK
  <2>5. committing' = t /\ store'[t] = asked[t]
    BY <2>4, Effects, WholeAtCommit
  <2>6. asked' = asked
    BY <2>3, HandledFacts
  <2> QED
    BY <2>5, <2>6
<1> QED
  BY <1>1, <1>2

\* A COMMIT or ABORT with a receipt that returned nil was decided on by the
\* server, or the opposite frame was sent too.  After COMMIT every item that was
\* sent before it is handed on or in the list that txStore.Commit goes through;
\* after ABORT none is handed on.
THEOREM ReceiptMeansTakenHolds == Spec => []ReceiptMeansTaken
<1> DEFINE J == TxAll /\ Whole /\ Receipted
<1>1. Init => J
  BY TxAllInit DEF Init, Receipted, EndOps, Whole
<1>2. J /\ [Next]_vars => J'
  BY TxAllStep, WholeStep, ReceiptedStep DEF TxAll
<1>3. J => ReceiptMeansTaken
  <2> SUFFICES ASSUME TxAll, Whole, Receipted, NEW c \in Calls,
                      op[c] \in EndOps, rcpt[c], ret[c] = "nil",
                      decided[on[c]] = Done(op[c])
               PROVE  Taken(op[c], on[c])
    BY DEF Receipted, ReceiptMeansTaken, Fulfilled
  <2>1. PICK t \in Calls : t = on[c]
    BY DEF TxAll, TxBase, BaseInv, TypeInv, Shape
  <2>2. CASE op[c] = "Commit"
    BY <2>1, <2>2 DEF Taken, Done, Whole
  <2>3. CASE op[c] = "Abort"
    <3>1. decided[t] = "aborted"
      BY <2>1, <2>3 DEF Done
    <3>2. asked[t] \in Seq(Calls)
      BY DEF TxAll, TxBase, BaseInv, TypeInv, TypeOK
    <3>3. \A x \in Elements(asked[t]) : ItemOn(x, t)
      BY <3>2, ElementsIn DEF TxAll, AskedShape
    <3>4. \A x \in Elements(stream) : on[x] = Nobody \/ decided[on[x]] = "committed"
      BY DEF TxAll, Places
    <3>5. Discarded(t)
      BY <3>1, <3>3, <3>4, NobodyAssumption DEF Discarded, ItemOn
    <3> QED
      BY <2>1, <2>3, <3>1, <3>5 DEF Taken
  <2> QED
    BY <2>2, <2>3 DEF EndOps
<1> QED
  BY <1>1, <1>2, <1>3, PTL DEF Spec
=============================================================================
