------------------------------ MODULE AtomicTx ------------------------------
(***************************************************************************)
(* What a transaction promises: "All messages sent and and acknowledged in *)
(* the context of a transaction are processed atomically" (transaction.go).*)
(* An item is asked for once, on its own or in a transaction.  One asked   *)
(* for on its own may be processed, once.  A transaction is committed or   *)
(* aborted once; a commit processes all of its items, in the order in      *)
(* which they were asked for, and with nothing in between; those of a      *)
(* transaction that is aborted or never completed are not processed, and   *)
(* neither is anything that nobody asked for.                              *)
(*                                                                         *)
(* Session implements this specification (Session!TxAtomic).               *)
(***************************************************************************)
EXTENDS Naturals, Sequences

CONSTANTS Txs, Items

VARIABLES
  alone,     \* the items that were asked for on their own
  asked,     \* the items of a transaction, in order
  outcome,   \* of a transaction
  processed  \* all items that were processed, in order

txVars == <<alone, asked, outcome, processed>>

Init ==
  /\ alone = {}
  /\ asked = [t \in Txs |-> <<>>]
  /\ outcome = [t \in Txs |-> "open"]
  /\ processed = <<>>

In(i, s) == \E k \in 1 .. Len(s) : s[k] = i
New(i) == i \notin alone /\ \A t \in Txs : ~In(i, asked[t])

AskAlone(i) ==
  /\ UNCHANGED <<asked, outcome, processed>>
  /\ New(i)
  /\ alone' = alone \cup {i}

Ask(t, i) ==
  /\ asked' = [asked EXCEPT ![t] = Append(@, i)]
  /\ New(i) /\ outcome[t] = "open"
  /\ UNCHANGED <<alone, outcome, processed>>

Single(i) ==
  /\ processed' = Append(processed, i)
  /\ i \in alone /\ ~In(i, processed)
  /\ UNCHANGED <<alone, asked, outcome>>

Commit(t) ==
  /\ outcome[t] = "open"
  /\ outcome' = [outcome EXCEPT ![t] = "committed"]
  /\ processed' = processed \o asked[t]
  /\ UNCHANGED <<alone, asked>>

Abort(t) ==
  /\ outcome[t] = "open"
  /\ outcome' = [outcome EXCEPT ![t] = "aborted"]
  /\ UNCHANGED <<alone, asked, processed>>

Next == \/ \E t \in Txs : Commit(t) \/ Abort(t)
        \/ \E t \in Txs, i \in Items : Ask(t, i)
        \/ \E i \in Items : AskAlone(i) \/ Single(i)

Spec == Init /\ [][Next]_txVars
=============================================================================
