---------------------------- MODULE MessageQueue ----------------------------
(***************************************************************************)
(* What the server promises of the queues, with nothing said of channels,  *)
(* requests or Subscription objects.  A message is sent, accepted by its   *)
(* queue behind all that are stored, taken from the front by a connection, *)
(* and is then settled, or goes back to the front of its queue.  A message *)
(* is handed on without being stored only when nothing is stored.  The one *)
(* way to lose a message is a failed write at the end of a connection.     *)
(* The queues are in memory: a panic ends all promises.                    *)
(*                                                                         *)
(* Broker implements this specification (Broker!QueueRefinement).          *)
(***************************************************************************)
EXTENDS Naturals, Sequences, FiniteSets

CONSTANTS Conns, Msgs, Queues, None

VARIABLES
  up,       \* the server process lives
  to,       \* the queue that a message was sent to
  sent,     \* sent, not accepted yet
  queue,    \* stored, front first
  held,     \* taken by a connection
  back,     \* on the way back to the queue
  settled,  \* delivered for good
  lost      \* gone with a failed write

qvars == <<up, to, sent, queue, held, back, settled, lost>>

Init ==
  /\ up = TRUE
  /\ to = [m \in Msgs |-> None]
  /\ sent = {} /\ back = {} /\ settled = {} /\ lost = {}
  /\ queue = [q \in Queues |-> <<>>]
  /\ held = [k \in Conns |-> {}]

Send(m, q) ==
  /\ to[m] = None
  /\ to' = [to EXCEPT ![m] = q]
  /\ sent' = sent \cup {m}
  /\ UNCHANGED <<up, queue, held, back, settled, lost>>

\* m goes to the end e of its queue, or past an empty queue to a connection.
Store(m, e) ==
  \/ /\ queue' = [queue EXCEPT ![to[m]] = e]
     /\ UNCHANGED held
  \/ /\ queue[to[m]] = <<>>
     /\ \E k \in Conns : held' = [held EXCEPT ![k] = @ \cup {m}]
     /\ UNCHANGED queue

Accept(m) ==
  /\ m \in sent
  /\ sent' = sent \ {m}
  /\ Store(m, Append(queue[to[m]], m))
  /\ UNCHANGED <<up, to, back, settled, lost>>

PutBack(m) ==
  /\ m \in back
  /\ back' = back \ {m}
  /\ Store(m, <<m>> \o queue[to[m]])
  /\ UNCHANGED <<up, to, sent, settled, lost>>

Take(k, q) ==
  /\ queue[q] # <<>>
  /\ held' = [held EXCEPT ![k] = @ \cup {Head(queue[q])}]
  /\ queue' = [queue EXCEPT ![q] = Tail(@)]
  /\ UNCHANGED <<up, to, sent, back, settled, lost>>

\* An ACK may settle several messages, a NACK or the end of a connection give
\* several back.
Settle(k, S) ==
  /\ held' = [held EXCEPT ![k] = @ \ S]
  /\ settled' = settled \cup S
  /\ UNCHANGED <<up, to, sent, queue, back, lost>>

GiveBack(k, S, L) ==
  /\ held' = [held EXCEPT ![k] = @ \ (S \cup L)]
  /\ back' = back \cup S
  /\ lost' = lost \cup L
  /\ UNCHANGED <<up, to, sent, queue, settled>>

\* Nothing is said of the contents of the memory of a process that has ended.
Panic == up /\ up' = FALSE

Next ==
  \/ \E m \in Msgs, q \in Queues : Send(m, q)
  \/ \E m \in sent : Accept(m)
  \/ \E m \in back : PutBack(m)
  \/ \E k \in Conns, q \in Queues : Take(k, q)
  \/ \E k \in Conns : \E S \in SUBSET held[k] : Settle(k, S)
  \/ \E k \in Conns : \E S, L \in SUBSET held[k] :
       S \cap L = {} /\ Cardinality(L) <= 1 /\ GiveBack(k, S, L)
  \/ Panic

Spec == Init /\ [][Next]_qvars
=============================================================================
