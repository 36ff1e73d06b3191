----------------------------- MODULE HeartBeat ------------------------------
(***************************************************************************)
(* Heart-beats between a client (conn.go, conn_options.go) and the server  *)
(* (server/client/conn.go, frame.go, util.go): how CONNECT and CONNECTED   *)
(* negotiate them, and the timers that keep them.                          *)
(*                                                                         *)
(* A direction is one half of the connection.  Its writer has a timer of   *)
(* interval[d] that makes it write a heart-beat; its reader gives the      *)
(* connection up when it has heard nothing for limit[d].  Zero means that  *)
(* there is no timer.  Time is discrete, in a unit of which a millisecond  *)
(* has Ms; everything except the wait for a timer and the transmission     *)
(* takes no time.                                                          *)
(***************************************************************************)
EXTENDS Integers, Sequences

CONSTANTS
  Ms,               \* units of time in a millisecond
  Timeouts,         \* what the option HeartBeat may be given
  HeartBeatErrors,  \* what the option HeartBeatError may be given
  ServerHeartBeats, \* what Server.HeartBeat may be
  Grace,            \* HeartBeatGracePeriodMultiplier, a whole number
  MaxHeartBeat,     \* maxHeartBeat, in milliseconds
  Delay,            \* the longest that a transmission takes
  MaxInFlight,      \* bound: frames under way while another is written
  Skips,            \* bound: directions in which Rearm happens
  CanStop           \* bound: directions whose writer may stop

Dirs == {"toServer", "toClient"}

ASSUME HeartBeatAssumption ==
  /\ Ms \in Nat \ {0} /\ Grace \in Nat \ {0}
  /\ MaxHeartBeat \in Nat /\ Delay \in Nat /\ MaxInFlight \in Nat
  /\ Timeouts \subseteq Nat /\ HeartBeatErrors \subseteq Nat
  /\ ServerHeartBeats \subseteq Nat
  /\ Skips \subseteq Dirs /\ CanStop \subseteq Dirs

VARIABLES
  opt,       \* the client's options
  server,    \* the server's config.HeartBeat()
  phase,     \* how far the handshake is
  interval, limit,
  timer,     \* time since the write timer was armed
  flight,    \* ages of the frames and heart-beats under way
  heard,     \* time since the read timer was armed
  skipped,   \* directions whose write timer was armed again without a write
  stopped,   \* directions whose writer is gone without a word
  expired    \* directions whose reader has given up

vars == <<opt, server, phase, interval, limit, timer, flight, heard, skipped,
          stopped, expired>>

TypeOK ==
  /\ opt \in [write : Timeouts, read : Timeouts, error : HeartBeatErrors]
  /\ server \in ServerHeartBeats
  /\ phase \in {"connect", "read", "replied", "up", "refused"}
  /\ interval \in [Dirs -> Nat]
  /\ limit \in [Dirs -> Nat]
  /\ timer \in [Dirs -> Nat]
  /\ flight \in [Dirs -> Seq(0 .. Delay)]
  /\ heard \in [Dirs -> Nat]
  /\ skipped \subseteq Dirs
  /\ stopped \subseteq Dirs
  /\ expired \subseteq Dirs

\* The client has written its CONNECT frame.
Init ==
  /\ opt \in [write : Timeouts, read : Timeouts, error : HeartBeatErrors]
  /\ server \in ServerHeartBeats
  /\ phase = "connect"
  /\ interval = [d \in Dirs |-> 0] /\ limit = [d \in Dirs |-> 0]
  /\ timer = [d \in Dirs |-> 0] /\ heard = [d \in Dirs |-> 0]
  /\ flight = [d \in Dirs |-> <<>>]
  /\ skipped = {} /\ stopped = {} /\ expired = {}
-----------------------------------------------------------------------------
(***************************************************************************)
(* Negotiation.  cx and cy are the numbers of the CONNECT frame: what the  *)
(* client offers to send and would like to receive, in milliseconds.       *)
(***************************************************************************)
cx == opt.write \div Ms
cy == opt.read \div Ms

\* asMilliseconds.
AsMilliseconds(t, max) == IF t \div Ms > max THEN max ELSE t \div Ms

\* A value of 0 stays 0, the others are raised to the server's minimum.
ApplyMin(x) == LET min == AsMilliseconds(server, MaxHeartBeat)
               IN  IF x > 0 /\ x < min THEN min ELSE x

\* getHeartBeat accepts numbers of up to nine digits.
ValidHeartBeat == cx <= MaxHeartBeat /\ cy <= MaxHeartBeat

\* Mutant: readLoop does not apply the minimum that handleConnect applies.
ServerReadNoMin ==
  /\ phase = "connect"
  /\ phase' = "read"
  /\ limit' = [limit EXCEPT !["toServer"] =
                 IF ValidHeartBeat THEN 2 * (cx * Ms) ELSE 0]
  /\ UNCHANGED <<opt, server, interval, timer, flight, heard, skipped, stopped,
                 expired>>

\* readLoop of the server reads CONNECT and sets its own deadline.
ServerRead ==
  /\ phase = "connect"
  /\ phase' = "read"
  /\ limit' = [limit EXCEPT !["toServer"] =
                 IF ValidHeartBeat THEN 2 * (ApplyMin(cx) * Ms) ELSE 0]
  /\ UNCHANGED <<opt, server, interval, timer, flight, heard, skipped, stopped,
                 expired>>

\* handleConnect: CONNECTED is under way and the server's timer is armed.
HandleConnect ==
  /\ phase = "read" /\ ValidHeartBeat
  /\ phase' = "replied"
  /\ interval' = [interval EXCEPT !["toClient"] = ApplyMin(cy) * Ms]
  /\ flight' = [flight EXCEPT !["toClient"] = <<0>>]
  /\ UNCHANGED <<opt, server, limit, timer, heard, skipped, stopped, expired>>

\* handleConnect fails: the heart-beat header, the credentials, the version.
Refuse ==
  /\ phase = "read"
  /\ phase' = "refused"
  /\ UNCHANGED <<opt, server, interval, limit, timer, flight, heard, skipped,
                 stopped, expired>>

\* The client's timeouts, from the numbers sy and sx in CONNECTED.
ReadLimit(sy) ==
  LET agreed == IF sy * Ms < opt.read THEN opt.read ELSE sy * Ms
  IN  IF agreed > 0 THEN (agreed + opt.error) * Grace ELSE 0

\* Mutant: HeartBeatError is taken off whatever the interval is.
WriteIntervalUnguarded(sx) == sx * Ms - opt.error

WriteInterval(sx) ==
  IF sx * Ms > opt.error THEN sx * Ms - opt.error ELSE sx * Ms

\* The client receives CONNECTED and starts processLoop.
ClientConnected ==
  /\ phase = "replied" /\ flight["toClient"] # <<>>
  /\ phase' = "up"
  /\ limit' = [limit EXCEPT !["toClient"] = ReadLimit(ApplyMin(cy))]
  /\ interval' = [interval EXCEPT !["toServer"] = WriteInterval(ApplyMin(cx))]
  /\ flight' = [flight EXCEPT !["toClient"] = Tail(@)]
  /\ UNCHANGED <<opt, server, timer, heard, skipped, stopped, expired>>
-----------------------------------------------------------------------------
(***************************************************************************)
(* The timers of both processLoops and the deadline of the server's        *)
(* readLoop.                                                               *)
(***************************************************************************)
Alive(d) == expired = {} /\ d \notin stopped

\* Something is written, which stops the timer; the loop arms it again.  Where the
\* server writes a RECEIPT from a handler its timer runs on, and it beats earlier.
Put(d) ==
  /\ flight' = [flight EXCEPT ![d] = Append(@, 0)]
  /\ timer' = [timer EXCEPT ![d] = 0]
  /\ UNCHANGED <<opt, server, phase, interval, limit, heard, skipped, stopped,
                 expired>>

\* The timer fires: a heart-beat.
Beat(d) == Alive(d) /\ interval[d] > 0 /\ timer[d] >= interval[d] /\ Put(d)

\* A frame.
Traffic(d) == Alive(d) /\ phase = "up" /\ Len(flight[d]) < MaxInFlight /\ Put(d)

\* The timer is stopped and armed again although nothing is written: a
\* reply-to subscription of the client, a subscription that the server finds
\* unsubscribed.
Rearm(d) ==
  /\ Alive(d) /\ phase = "up" /\ d \in Skips /\ interval[d] > 0
  /\ timer' = [timer EXCEPT ![d] = 0]
  /\ skipped' = skipped \cup {d}
  /\ UNCHANGED <<opt, server, phase, interval, limit, flight, heard, stopped,
                 expired>>

\* A frame or a heart-beat is read, which arms the read timer again.
Receive(d) ==
  /\ expired = {} /\ phase = "up" /\ flight[d] # <<>>
  /\ flight' = [flight EXCEPT ![d] = Tail(@)]
  /\ heard' = [heard EXCEPT ![d] = 0]
  /\ UNCHANGED <<opt, server, phase, interval, limit, timer, skipped, stopped,
                 expired>>

\* Mutant: processLoop of the client has no case for its read timer.
ExpireServerOnly(d) ==
  /\ d = "toServer"
  /\ expired = {} /\ limit[d] > 0 /\ heard[d] >= limit[d]
  /\ expired' = {d}
  /\ UNCHANGED <<opt, server, phase, interval, limit, timer, flight, heard,
                 skipped, stopped>>

\* The read timer fires: the reader closes the connection.
Expire(d) ==
  /\ expired = {} /\ limit[d] > 0 /\ heard[d] >= limit[d]
  /\ expired' = {d}
  /\ UNCHANGED <<opt, server, phase, interval, limit, timer, flight, heard,
                 skipped, stopped>>

\* The writer dies, and the network does not tell.
Stop(d) ==
  /\ Alive(d) /\ phase = "up" /\ d \in CanStop
  /\ stopped' = stopped \cup {d}
  /\ UNCHANGED <<opt, server, phase, interval, limit, timer, flight, heard,
                 skipped, expired>>

\* One unit of time passes, unless something is due.
Tick ==
  /\ phase \in {"replied", "up"} /\ expired = {}
  /\ \A d \in Dirs :
       /\ d \notin stopped /\ interval[d] > 0 => timer[d] < interval[d]
       /\ limit[d] > 0 => heard[d] < limit[d]
       /\ \A i \in DOMAIN flight[d] : flight[d][i] < Delay
  /\ timer' = [d \in Dirs |->
                 IF d \notin stopped /\ interval[d] > 0 THEN timer[d] + 1 ELSE timer[d]]
  /\ heard' = [d \in Dirs |-> IF limit[d] > 0 THEN heard[d] + 1 ELSE heard[d]]
  /\ flight' = [d \in Dirs |-> [i \in DOMAIN flight[d] |-> flight[d][i] + 1]]
  /\ UNCHANGED <<opt, server, phase, interval, limit, skipped, stopped,
                 expired>>
-----------------------------------------------------------------------------
Handshake == ServerRead \/ HandleConnect \/ Refuse \/ ClientConnected

Next ==
  \/ Handshake
  \/ \E d \in Dirs : \/ Beat(d) \/ Traffic(d) \/ Rearm(d) \/ Receive(d)
                      \/ Expire(d) \/ Stop(d)
  \/ Tick

Spec == Init /\ [][Next]_vars

\* Time passes, timers fire, and what was written arrives.
FairSpec ==
  /\ Spec
  /\ WF_vars(Tick)
  /\ \A d \in Dirs : WF_vars(Beat(d)) /\ WF_vars(Receive(d)) /\ WF_vars(Expire(d))
-----------------------------------------------------------------------------
(***************************************************************************)
(* Properties.                                                             *)
(***************************************************************************)

\* What the options must be for the timers to be compatible: a transmission
\* takes less than HeartBeatError; an interval that is not longer than it, and
\* so not shortened by it, is longer than two transmissions; and the client
\* asks for heart-beats in whole milliseconds.
Compatible(d) ==
  /\ Delay < opt.error
  /\ d = "toServer" => \/ ApplyMin(cx) * Ms > opt.error
                       \/ 2 * Delay < ApplyMin(cx) * Ms
  /\ d = "toClient" => opt.read = 0 \/ opt.read >= Ms

\* With compatible options no reader gives up a connection whose writer is
\* alive, from the deadline that the server sets before CONNECTED has arrived
\* to idle connections: what the two sides derive from the negotiation fits.
\* The exception is a writer that has armed its timer again without a write,
\* which can be silent for up to two intervals.
NoFalseTimeout ==
  \A d \in expired : Compatible(d) => d \in stopped \cup skipped

\* A reader that expects heart-beats gives up a connection whose writer has
\* died silently.
SilenceDetected ==
  \A d \in Dirs : (d \in stopped /\ limit[d] > 0) ~> expired # {}
=============================================================================
