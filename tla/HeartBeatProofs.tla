-------------------------- MODULE HeartBeatProofs ---------------------------
(***************************************************************************)
(* No reader of a heart-beat gives up a connection whose writer is alive,  *)
(* for all options of the client, all settings of the server and all       *)
(* transmission delays that are compatible with them.                      *)
(***************************************************************************)
EXTENDS HeartBeat, TLAPS

-----------------------------------------------------------------------------
(***************************************************************************)
(* Types.                                                                  *)
(***************************************************************************)

\* The options are natural numbers.
LEMMA OptionTypes ==
  ASSUME TypeOK
  PROVE  /\ opt.write \in Nat /\ opt.read \in Nat /\ opt.error \in Nat
         /\ server \in Nat /\ Delay \in Nat /\ MaxHeartBeat \in Nat
         /\ Ms \in Nat /\ Ms > 0 /\ Grace \in Nat /\ Grace > 0
  <1>1. opt.write \in Timeouts /\ opt.read \in Timeouts /\ opt.error \in HeartBeatErrors
    BY DEF TypeOK
  <1>2. Timeouts \subseteq Nat /\ HeartBeatErrors \subseteq Nat
    BY HeartBeatAssumption
  <1>3. server \in Nat BY HeartBeatAssumption DEF TypeOK
  <1>4. /\ Delay \in Nat /\ MaxHeartBeat \in Nat
        /\ Ms \in Nat /\ Ms > 0 /\ Grace \in Nat /\ Grace > 0
    BY HeartBeatAssumption
  <1> QED BY <1>1, <1>2, <1>3, <1>4

\* The numbers in CONNECT and CONNECTED and the timeouts derived from them are
\* natural numbers.
LEMMA NegotiatedNat ==
  ASSUME TypeOK
  PROVE  /\ cx \in Nat /\ cy \in Nat
         /\ \A x \in Nat : ApplyMin(x) \in Nat /\ ReadLimit(x) \in Nat
                             /\ WriteInterval(x) \in Nat /\ x * Ms \in Nat
  <1>1. opt.write \in Nat /\ opt.read \in Nat /\ opt.error \in Nat /\ server \in Nat
        /\ Ms \in Nat /\ Ms > 0 /\ Grace \in Nat /\ MaxHeartBeat \in Nat
    BY OptionTypes
  <1>2. cx \in Nat /\ cy \in Nat
    BY <1>1 DEF cx, cy
  <1>3. \A x \in Nat : x * Ms \in Nat
    BY <1>1
  <1>4. \A x \in Nat : ApplyMin(x) \in Nat
    BY <1>1 DEF ApplyMin, AsMilliseconds
  <1>5. \A x \in Nat : WriteInterval(x) \in Nat
    BY <1>1, <1>3 DEF WriteInterval
  <1>6. \A x \in Nat : x * Grace \in Nat
    BY <1>1
  <1>7. \A x \in Nat : ReadLimit(x) \in Nat
    BY <1>1, <1>3, <1>6 DEF ReadLimit
  <1> QED BY <1>2, <1>3, <1>4, <1>5, <1>7

\* An element of a sequence over S is in S.
LEMMA ElementType ==
  ASSUME NEW S, NEW s \in Seq(S), NEW i \in 1 .. Len(s)
  PROVE  s[i] \in S
  OBVIOUS

\* So is the first one of a sequence that is not empty.
LEMMA FirstType ==
  ASSUME NEW S, NEW s \in Seq(S), s # <<>>
  PROVE  1 \in DOMAIN s /\ s[1] \in S
  <1>1. 1 \in 1 .. Len(s) /\ DOMAIN s = 1 .. Len(s) OBVIOUS
  <1> QED BY <1>1, ElementType

\* Appending does not change the first element.
LEMMA AppendFirst ==
  ASSUME NEW S, NEW s \in Seq(S), s # <<>>, NEW x \in S
  PROVE  Append(s, x) # <<>> /\ Append(s, x)[1] = s[1]
  <1>1. Len(s) \in Nat /\ Len(s) > 0 OBVIOUS
  <1>2. Len(Append(s, x)) = Len(s) + 1 OBVIOUS
  <1>3. \A i \in 1 .. Len(s) : Append(s, x)[i] = s[i] OBVIOUS
  <1>4. Append(s, x) # <<>> BY <1>1, <1>2
  <1> QED BY <1>1, <1>3, <1>4

\* Every step of the handshake and of the timers keeps the types.
LEMMA TypeStep == TypeOK /\ [Next]_vars => TypeOK'
  <1> SUFFICES ASSUME TypeOK, [Next]_vars PROVE TypeOK'
    OBVIOUS
  <1> USE DEF TypeOK
  <1>0. Delay \in Nat BY HeartBeatAssumption
  <1>1. CASE ServerRead
    <2>1. ApplyMin(cx) * Ms \in Nat BY NegotiatedNat
    <2>2. \A n \in Nat : 2 * n \in Nat OBVIOUS
    <2>3. limit' \in [Dirs -> Nat]
      <3>1. (IF ValidHeartBeat THEN 2 * (ApplyMin(cx) * Ms) ELSE 0) \in Nat
        BY <2>1, <2>2
      <3> QED BY <1>1, <3>1 DEF ServerRead
    <2> QED BY <1>1, <2>3 DEF ServerRead
  <1>2. CASE HandleConnect
    <2>1. ApplyMin(cy) * Ms \in Nat BY NegotiatedNat
    <2>2. <<0>> \in Seq(0 .. Delay) BY <1>0
    <2> QED BY <1>2, <2>1, <2>2 DEF HandleConnect
  <1>3. CASE Refuse BY <1>3 DEF Refuse
  <1>4. CASE ClientConnected
    <2>1. ReadLimit(ApplyMin(cy)) \in Nat /\ WriteInterval(ApplyMin(cx)) \in Nat
      BY NegotiatedNat
    <2>2. Tail(flight["toClient"]) \in Seq(0 .. Delay)
      BY <1>4 DEF ClientConnected, Dirs
    <2> QED BY <1>4, <2>1, <2>2 DEF ClientConnected
  <1>5. ASSUME NEW d \in Dirs, Beat(d) \/ Traffic(d) PROVE TypeOK'
    <2>1. Append(flight[d], 0) \in Seq(0 .. Delay) BY <1>0
    <2>2. Put(d) BY <1>5 DEF Beat, Traffic
    <2> QED BY <2>1, <2>2 DEF Put
  <1>6. ASSUME NEW d \in Dirs, Rearm(d) PROVE TypeOK' BY <1>6 DEF Rearm
  <1>7. ASSUME NEW d \in Dirs, Receive(d) PROVE TypeOK'
    <2>1. Tail(flight[d]) \in Seq(0 .. Delay) BY <1>7 DEF Receive
    <2> QED BY <1>7, <2>1 DEF Receive
  <1>8. ASSUME NEW d \in Dirs, Expire(d) PROVE TypeOK' BY <1>8 DEF Expire
  <1>9. ASSUME NEW d \in Dirs, Stop(d) PROVE TypeOK' BY <1>9 DEF Stop
  <1>10. CASE Tick
    <2>1. \A d \in Dirs : [i \in DOMAIN flight[d] |-> flight[d][i] + 1] \in Seq(0 .. Delay)
      <3> TAKE d \in Dirs
      <3>1. flight[d] \in Seq(0 .. Delay) OBVIOUS
      <3>2. \A i \in DOMAIN flight[d] : flight[d][i] < Delay
        BY <1>10 DEF Tick
      <3>3. DOMAIN flight[d] = 1 .. Len(flight[d]) /\ Len(flight[d]) \in Nat BY <3>1
      <3>4. \A i \in 1 .. Len(flight[d]) : flight[d][i] + 1 \in 0 .. Delay
        <4> SUFFICES ASSUME NEW i \in 1 .. Len(flight[d])
                     PROVE  flight[d][i] + 1 \in 0 .. Delay
          OBVIOUS
        <4>1. flight[d][i] \in 0 .. Delay BY <3>1, ElementType
        <4>2. flight[d][i] < Delay BY <3>2, <3>3
        <4> HIDE DEF TypeOK
        <4> QED BY <1>0, <4>1, <4>2
      <3> QED BY <3>3, <3>4
    <2> QED BY <1>10, <2>1 DEF Tick
  <1>11. CASE UNCHANGED vars BY <1>11 DEF vars
  <1> QED BY <1>1, <1>2, <1>3, <1>4, <1>5, <1>6, <1>7, <1>8, <1>9, <1>10, <1>11
          DEF Next, Handshake

\* The handshake and the timers are type-correct.
THEOREM TypeCorrect == Spec => []TypeOK
  <1>1. Init => TypeOK BY HeartBeatAssumption DEF Init, TypeOK
  <1> QED BY <1>1, TypeStep, PTL DEF Spec
-----------------------------------------------------------------------------
(***************************************************************************)
(* The timeouts fit.                                                       *)
(***************************************************************************)

\* What the timers are in each phase: those that have not been negotiated are
\* off, the others are what the handshake computes.
Negotiated ==
  /\ phase # "up" => /\ stopped = {} /\ limit["toClient"] = 0
                     /\ interval["toServer"] = 0 /\ timer["toServer"] = 0
                     /\ heard["toClient"] = 0 /\ flight["toServer"] = <<>>
  /\ phase \in {"connect", "read", "refused"} =>
       /\ heard["toServer"] = 0 /\ interval["toClient"] = 0
       /\ timer["toClient"] = 0 /\ flight["toClient"] = <<>>
  /\ phase = "connect" => limit["toServer"] = 0
  /\ limit["toServer"] > 0 => limit["toServer"] = 2 * (ApplyMin(cx) * Ms)
  /\ phase \in {"replied", "up"} => interval["toClient"] = ApplyMin(cy) * Ms
  /\ phase = "up" => /\ limit["toClient"] = ReadLimit(ApplyMin(cy))
                     /\ interval["toServer"] = WriteInterval(ApplyMin(cx))

\* The time that a reader's timer may have run when the writer's is armed: the
\* server sets its deadline at CONNECT, the client's timer starts at CONNECTED.
Allow(d) == IF d = "toServer" THEN Delay ELSE 0

\* How long a reader has heard nothing, from what is under way.
Paced ==
  /\ \A d \in Dirs : timer[d] <= interval[d]
  /\ phase = "replied" => /\ flight["toClient"] # <<>>
                          /\ heard["toServer"] <= flight["toClient"][1]
  /\ phase = "up" =>
       \A d \in Dirs : d \notin stopped \cup skipped /\ interval[d] > 0 =>
         heard[d] <= Allow(d) + IF flight[d] = <<>> THEN timer[d]
                                ELSE flight[d][1] + interval[d]

\* The inductive invariant.
Inv == TypeOK /\ Negotiated /\ Paced /\ NoFalseTimeout

\* The options, and what the handshake makes of them, do not change.
LEMMA OptionsStable ==
  ASSUME opt' = opt, server' = server
  PROVE  /\ cx' = cx /\ cy' = cy
         /\ \A x : ApplyMin(x)' = ApplyMin(x) /\ ReadLimit(x)' = ReadLimit(x)
                     /\ WriteInterval(x)' = WriteInterval(x)
         /\ \A d : Compatible(d)' = Compatible(d)
  <1>1. cx' = cx /\ cy' = cy BY DEF cx, cy
  <1>2. \A x : ApplyMin(x)' = ApplyMin(x) BY DEF ApplyMin, AsMilliseconds
  <1>3. \A x : ReadLimit(x)' = ReadLimit(x) /\ WriteInterval(x)' = WriteInterval(x)
    BY DEF ReadLimit, WriteInterval
  <1>4. \A d : Compatible(d)' = Compatible(d) BY <1>1, <1>2 DEF Compatible
  <1> QED BY <1>1, <1>2, <1>3, <1>4

\* The client's heart-beats reach the server before its deadline of twice the
\* interval, the first one included, which is late by the time CONNECTED takes.
LEMMA ServerLimitFits ==
  ASSUME TypeOK, Compatible("toServer"), ApplyMin(cx) * Ms > 0
  PROVE  LET w == WriteInterval(ApplyMin(cx))
         IN  w > 0 /\ w + 2 * Delay < 2 * (ApplyMin(cx) * Ms)
  <1> DEFINE t == ApplyMin(cx) * Ms
  <1>1. t \in Nat BY NegotiatedNat
  <1>2. opt.error \in Nat /\ Delay \in Nat BY OptionTypes
  <1>3. Delay < opt.error /\ (t > opt.error \/ 2 * Delay < t)
    BY DEF Compatible
  <1>4. WriteInterval(ApplyMin(cx)) = IF t > opt.error THEN t - opt.error ELSE t
    BY DEF WriteInterval
  <1>5. t > 0 OBVIOUS
  <1> HIDE DEF t
  <1>6. WriteInterval(ApplyMin(cx)) > 0 /\ WriteInterval(ApplyMin(cx)) + 2 * Delay < 2 * t
    BY <1>1, <1>2, <1>3, <1>4, <1>5
  <1> QED BY <1>6 DEF t

\* When the client has a read timeout the server sends heart-beats, and they
\* reach the client in time.
LEMMA ClientLimitFits ==
  ASSUME TypeOK, Compatible("toClient"), ReadLimit(ApplyMin(cy)) > 0
  PROVE  LET w == ApplyMin(cy) * Ms
         IN  w > 0 /\ w + Delay < ReadLimit(ApplyMin(cy))
  <1> DEFINE t == ApplyMin(cy) * Ms
  <1>1. t \in Nat /\ cy \in Nat /\ ApplyMin(cy) \in Nat BY NegotiatedNat
  <1>2. opt.error \in Nat /\ opt.read \in Nat /\ Delay \in Nat
        /\ Ms \in Nat /\ Ms > 0 /\ Grace \in Nat /\ Grace > 0
    BY OptionTypes
  <1>3. Delay < opt.error /\ (opt.read = 0 \/ opt.read >= Ms)
    BY DEF Compatible
  <1>4. opt.read = 0 => cy = 0 BY <1>2 DEF cy
  <1>5. opt.read >= Ms => cy > 0 BY <1>2 DEF cy
  <1>6. ApplyMin(0) = 0 BY DEF ApplyMin
  <1>7. cy > 0 => ApplyMin(cy) > 0
    BY <1>1 DEF ApplyMin
  <1>8. ApplyMin(cy) > 0 => t > 0
    <2>1. \A a, b \in Nat : a > 0 /\ b > 0 => a * b > 0 OBVIOUS
    <2> QED BY <1>1, <1>2, <2>1
  <1>9. CASE opt.read = 0
    <2>1. t = 0 BY <1>2, <1>4, <1>6, <1>9
    <2>2. ReadLimit(ApplyMin(cy)) = 0 BY <2>1, <1>9 DEF ReadLimit
    <2> QED BY <2>2
  <1>10. CASE opt.read >= Ms
    <2> DEFINE agreed == IF t < opt.read THEN opt.read ELSE t
    <2>1. t > 0 BY <1>5, <1>7, <1>8, <1>10
    <2>2. agreed \in Nat /\ agreed >= t /\ agreed > 0 BY <1>1, <1>2, <2>1
    <2>3. ReadLimit(ApplyMin(cy)) = (agreed + opt.error) * Grace
      BY <2>2 DEF ReadLimit
    <2> HIDE DEF agreed
    <2>4. \A a, g \in Nat : g > 0 => a * g >= a OBVIOUS
    <2>5. (agreed + opt.error) * Grace >= agreed + opt.error BY <1>2, <2>2, <2>4
    <2>6. (agreed + opt.error) * Grace \in Nat BY <1>2, <2>2
    <2> HIDE DEF t
    <2>7. t > 0 /\ t + Delay < ReadLimit(ApplyMin(cy))
      BY <1>1, <1>2, <1>3, <2>1, <2>2, <2>3, <2>5, <2>6
    <2> QED BY <2>7 DEF t
  <1> QED BY <1>3, <1>9, <1>10
-----------------------------------------------------------------------------
(***************************************************************************)
(* The invariant is inductive.                                             *)
(***************************************************************************)

\* The timers stay what the handshake has made of them.
LEMMA NegotiatedStep == TypeOK /\ Negotiated /\ [Next]_vars => Negotiated'
  <1> SUFFICES ASSUME TypeOK, Negotiated, [Next]_vars PROVE Negotiated'
    OBVIOUS
  <1>0. opt' = opt /\ server' = server
    BY DEF Next, Handshake, ServerRead, HandleConnect, Refuse, ClientConnected,
           Beat, Traffic, Put, Rearm, Receive, Expire, Stop, Tick, vars
  <1>00. /\ cx' = cx /\ cy' = cy
         /\ \A x : ApplyMin(x)' = ApplyMin(x) /\ ReadLimit(x)' = ReadLimit(x)
                     /\ WriteInterval(x)' = WriteInterval(x)
    BY <1>0, OptionsStable
  <1> DEFINE sx == ApplyMin(cx) * Ms
             sy == ApplyMin(cy) * Ms
             rl == ReadLimit(ApplyMin(cy))
             wi == WriteInterval(ApplyMin(cx))
  <1>a. sx' = sx /\ sy' = sy /\ rl' = rl /\ wi' = wi
    BY <1>00
  <1>b. sx \in Nat BY NegotiatedNat
  <1> HIDE DEF sx, sy, rl, wi
  <1> USE DEF TypeOK, Dirs
  <1>c. Negotiated <=>
          /\ phase # "up" => /\ stopped = {} /\ limit["toClient"] = 0
                             /\ interval["toServer"] = 0 /\ timer["toServer"] = 0
                             /\ heard["toClient"] = 0 /\ flight["toServer"] = <<>>
          /\ phase \in {"connect", "read", "refused"} =>
               /\ heard["toServer"] = 0 /\ interval["toClient"] = 0
               /\ timer["toClient"] = 0 /\ flight["toClient"] = <<>>
          /\ phase = "connect" => limit["toServer"] = 0
          /\ limit["toServer"] > 0 => limit["toServer"] = 2 * sx
          /\ phase \in {"replied", "up"} => interval["toClient"] = sy
          /\ phase = "up" => limit["toClient"] = rl /\ interval["toServer"] = wi
    BY DEF Negotiated, sx, sy, rl, wi
  <1>d. Negotiated' <=>
          /\ phase' # "up" => /\ stopped' = {} /\ limit'["toClient"] = 0
                              /\ interval'["toServer"] = 0 /\ timer'["toServer"] = 0
                              /\ heard'["toClient"] = 0 /\ flight'["toServer"] = <<>>
          /\ phase' \in {"connect", "read", "refused"} =>
               /\ heard'["toServer"] = 0 /\ interval'["toClient"] = 0
               /\ timer'["toClient"] = 0 /\ flight'["toClient"] = <<>>
          /\ phase' = "connect" => limit'["toServer"] = 0
          /\ limit'["toServer"] > 0 => limit'["toServer"] = 2 * sx
          /\ phase' \in {"replied", "up"} => interval'["toClient"] = sy
          /\ phase' = "up" => limit'["toClient"] = rl /\ interval'["toServer"] = wi
    BY <1>a DEF Negotiated, sx, sy, rl, wi
  <1>1. CASE ServerRead
    <2>1. limit' = [limit EXCEPT !["toServer"] = IF ValidHeartBeat THEN 2 * sx ELSE 0]
      BY <1>1 DEF ServerRead, sx
    <2> QED BY <1>1, <1>b, <1>c, <1>d, <2>1 DEF ServerRead
  <1>2. CASE HandleConnect
    <2>1. interval' = [interval EXCEPT !["toClient"] = sy]
      BY <1>2 DEF HandleConnect, sy
    <2> QED BY <1>2, <1>c, <1>d, <2>1 DEF HandleConnect
  <1>3. CASE Refuse BY <1>3, <1>c, <1>d DEF Refuse
  <1>4. CASE ClientConnected
    <2>1. /\ limit' = [limit EXCEPT !["toClient"] = rl]
          /\ interval' = [interval EXCEPT !["toServer"] = wi]
      BY <1>4 DEF ClientConnected, rl, wi
    <2>2. rl \in Nat /\ wi \in Nat
      BY NegotiatedNat DEF rl, wi
    <2>3. /\ limit'["toClient"] = rl /\ limit'["toServer"] = limit["toServer"]
          /\ interval'["toServer"] = wi /\ interval'["toClient"] = interval["toClient"]
      BY <2>1
    <2>4. phase = "replied" /\ phase' = "up"
      BY <1>4 DEF ClientConnected
    <2>5. interval["toClient"] = sy
      BY <2>4, <1>c
    <2> QED BY <1>c, <1>d, <2>3, <2>4, <2>5
  <1>5. ASSUME NEW d \in Dirs, Beat(d) \/ Traffic(d) PROVE Negotiated'
    <2>1. Put(d) BY <1>5 DEF Beat, Traffic
    <2>2. phase = "up" \/ interval[d] > 0 BY <1>5 DEF Beat, Traffic
    <2>3. phase # "up" => d = "toClient" /\ phase = "replied" BY <1>c, <2>2
    <2> QED BY <1>c, <1>d, <2>1, <2>3 DEF Put
  <1>6. ASSUME NEW d \in Dirs, Rearm(d) PROVE Negotiated'
    BY <1>6, <1>c, <1>d DEF Rearm
  <1>7. ASSUME NEW d \in Dirs, Receive(d) PROVE Negotiated'
    BY <1>7, <1>c, <1>d DEF Receive
  <1>8. ASSUME NEW d \in Dirs, Expire(d) PROVE Negotiated'
    BY <1>8, <1>c, <1>d DEF Expire
  <1>9. ASSUME NEW d \in Dirs, Stop(d) PROVE Negotiated'
    BY <1>9, <1>c, <1>d DEF Stop
  <1>10. CASE Tick
    <2>1. phase # "up" => flight'["toServer"] = <<>>
      <3>1. flight'["toServer"] = [i \in DOMAIN flight["toServer"] |->
                                     flight["toServer"][i] + 1]
        BY <1>10 DEF Tick
      <3>2. ASSUME flight["toServer"] = <<>> PROVE flight'["toServer"] = <<>>
        BY <3>1, <3>2
      <3> QED BY <3>2, <1>c
    <2>2. /\ phase' = phase /\ phase \in {"replied", "up"} /\ interval' = interval
          /\ limit' = limit /\ stopped' = stopped
      BY <1>10 DEF Tick
    <2>3. phase # "up" => timer'["toServer"] = 0 /\ heard'["toClient"] = 0
      BY <1>10, <1>c DEF Tick
    <2> QED BY <1>c, <1>d, <2>1, <2>2, <2>3
  <1>11. CASE UNCHANGED vars BY <1>11, <1>c, <1>d DEF vars
  <1> QED BY <1>1, <1>2, <1>3, <1>4, <1>5, <1>6, <1>7, <1>8, <1>9, <1>10, <1>11
          DEF Next, Handshake

\* How long a reader has heard nothing stays bounded by what is under way, in
\* directions whose timer was never armed again without a write.
LEMMA PacedStep ==
  ASSUME TypeOK, TypeOK', Negotiated, Paced, [Next]_vars
  PROVE  Paced'
  <1> USE DEF Dirs
  <1>0. Delay \in Nat BY OptionTypes
  <1>a. \A d \in Dirs : /\ interval[d] \in Nat /\ timer[d] \in Nat /\ heard[d] \in Nat
                        /\ interval'[d] \in Nat /\ timer'[d] \in Nat /\ heard'[d] \in Nat
                        /\ Allow(d) \in Nat
    BY <1>0 DEF TypeOK, Allow
  <1>b. \A d \in Dirs : flight[d] \in Seq(0 .. Delay) /\ flight'[d] \in Seq(0 .. Delay)
    BY DEF TypeOK
  <1>c. \A d \in Dirs : flight[d] # <<>> =>
          flight[d][1] \in Nat /\ flight[d][1] <= Delay
    <2> SUFFICES ASSUME NEW d \in Dirs, flight[d] # <<>>
                 PROVE  flight[d][1] \in Nat /\ flight[d][1] <= Delay
      OBVIOUS
    <2>1. flight[d][1] \in 0 .. Delay BY <1>b, FirstType
    <2> QED BY <1>0, <2>1
  <1>d. \A d \in Dirs : flight'[d] # <<>> => flight'[d][1] \in Nat
    <2> SUFFICES ASSUME NEW d \in Dirs, flight'[d] # <<>> PROVE flight'[d][1] \in Nat
      OBVIOUS
    <2>1. flight'[d][1] \in 0 .. Delay BY <1>b, FirstType
    <2> QED BY <1>0, <2>1
  <1>1. CASE ServerRead
    BY <1>1 DEF ServerRead, Negotiated, Paced
  <1>2. CASE HandleConnect
    <2>1. interval'["toClient"] \in Nat /\ interval'["toServer"] = interval["toServer"]
      BY <1>2, <1>a DEF HandleConnect, TypeOK
    <2>2. timer' = timer /\ heard' = heard /\ phase' = "replied"
          /\ flight'["toClient"] = <<0>>
      BY <1>2 DEF HandleConnect, TypeOK
    <2>3. timer["toClient"] = 0 /\ heard["toServer"] = 0 /\ timer["toServer"] = 0
      BY <1>2 DEF HandleConnect, Negotiated
    <2> QED BY <2>1, <2>2, <2>3 DEF Paced
  <1>3. CASE Refuse BY <1>3 DEF Refuse, Paced
  <1>4. CASE ClientConnected
    <2>1. /\ phase = "replied" /\ phase' = "up" /\ timer' = timer /\ heard' = heard
          /\ interval'["toClient"] = interval["toClient"]
          /\ flight'["toServer"] = flight["toServer"]
          /\ flight["toClient"] # <<>>
      BY <1>4 DEF ClientConnected
    <2>2. /\ timer["toServer"] = 0 /\ heard["toClient"] = 0
          /\ flight["toServer"] = <<>>
      BY <2>1 DEF Negotiated
    <2>3. heard["toServer"] <= flight["toClient"][1] BY <2>1 DEF Paced
    <2>5. heard["toServer"] <= Delay BY <1>0, <1>a, <1>c, <2>1, <2>3
    <2>8. \A d \in Dirs : timer'[d] <= interval'[d]
      BY <1>a, <2>1, <2>2 DEF Paced
    <2>9. heard'["toServer"] <= Delay + timer'["toServer"] BY <1>0, <1>a, <2>1, <2>2, <2>5
    <2>10. heard'["toClient"] = 0 BY <2>1, <2>2
    <2>11. heard'["toClient"] <= 0 + IF flight'["toClient"] = <<>> THEN timer'["toClient"]
                                     ELSE flight'["toClient"][1] + interval'["toClient"]
      BY <1>a, <1>d, <2>10
    <2> QED BY <2>1, <2>2, <2>8, <2>9, <2>11 DEF Paced, Allow
  <1>5. ASSUME NEW e \in Dirs, Beat(e) \/ Traffic(e) PROVE Paced'
    <2>1. Put(e) BY <1>5 DEF Beat, Traffic
    <2>2. /\ phase' = phase /\ interval' = interval /\ heard' = heard
          /\ stopped' = stopped /\ skipped' = skipped
          /\ timer' = [timer EXCEPT ![e] = 0]
          /\ flight' = [flight EXCEPT ![e] = Append(@, 0)]
          /\ timer \in [Dirs -> Nat] /\ flight \in [Dirs -> Seq(0 .. Delay)]
      BY <2>1 DEF Put, TypeOK
    <2>3. \A d \in Dirs : timer'[d] <= interval'[d] BY <1>a, <2>2 DEF Paced
    <2>4. ASSUME NEW d \in Dirs, flight[d] # <<>>
          PROVE  flight'[d] # <<>> /\ flight'[d][1] = flight[d][1]
      <3>1. flight'[d] = flight[d] \/ flight'[d] = Append(flight[d], 0) BY <2>2
      <3>2. /\ Append(flight[d], 0) # <<>>
            /\ Append(flight[d], 0)[1] = flight[d][1]
        <4>1. 0 \in 0 .. Delay /\ flight[d] \in Seq(0 .. Delay) BY <1>0, <1>b
        <4> HIDE DEF Dirs
        <4> QED BY <2>4, <4>1, AppendFirst
      <3> QED BY <2>4, <3>1, <3>2
    <2>5. phase = "replied" => /\ flight'["toClient"] # <<>>
                               /\ heard'["toServer"] <= flight'["toClient"][1]
      BY <2>2, <2>4 DEF Paced
    <2>6. ASSUME phase = "up", NEW d \in Dirs, d \notin stopped \cup skipped,
                 interval[d] > 0
          PROVE  heard'[d] <= Allow(d) + IF flight'[d] = <<>> THEN timer'[d]
                                         ELSE flight'[d][1] + interval'[d]
      <3>1. CASE d # e
        <4>1. flight'[d] = flight[d] /\ timer'[d] = timer[d] BY <2>2, <3>1
        <4> QED BY <2>2, <2>6, <4>1 DEF Paced
      <3>2. CASE d = e /\ flight[d] # <<>>
        <4>1. heard[d] <= Allow(d) + (flight[d][1] + interval[d])
          BY <2>6, <3>2 DEF Paced
        <4> QED BY <2>2, <2>4, <3>2, <4>1
      <3>3. CASE d = e /\ flight[d] = <<>>
        <4>1. heard[d] <= Allow(d) + timer[d] /\ timer[d] <= interval[d]
          BY <2>6, <3>3 DEF Paced
        <4>2. flight'[d] = <<0>> BY <2>2, <3>3
        <4>3. flight'[d] # <<>> /\ flight'[d][1] = 0 BY <4>2
        <4>4. heard[d] <= Allow(d) + (0 + interval[d])
          BY <1>a, <4>1
        <4> QED BY <2>2, <4>3, <4>4
      <3> QED BY <3>1, <3>2, <3>3
    <2> QED BY <2>2, <2>3, <2>5, <2>6 DEF Paced
  <1>6. ASSUME NEW e \in Dirs, Rearm(e) PROVE Paced'
    <2>1. /\ phase' = phase /\ interval' = interval /\ heard' = heard
          /\ flight' = flight /\ stopped' = stopped
          /\ skipped' = skipped \cup {e}
          /\ timer' = [timer EXCEPT ![e] = 0]
          /\ timer \in [Dirs -> Nat]
      BY <1>6 DEF Rearm, TypeOK
    <2>2. \A d \in Dirs : timer'[d] <= interval'[d] BY <1>a, <2>1 DEF Paced
    <2>3. \A d \in Dirs : d \notin skipped' => d \notin skipped /\ timer'[d] = timer[d]
      BY <2>1
    <2> QED BY <2>1, <2>2, <2>3 DEF Paced
  <1>7. ASSUME NEW e \in Dirs, Receive(e) PROVE Paced'
    <2>1. /\ phase = "up" /\ phase' = phase /\ interval' = interval
          /\ timer' = timer /\ stopped' = stopped /\ skipped' = skipped
          /\ heard' = [heard EXCEPT ![e] = 0]
          /\ flight' = [flight EXCEPT ![e] = Tail(@)]
          /\ heard \in [Dirs -> Nat] /\ flight \in [Dirs -> Seq(0 .. Delay)]
      BY <1>7 DEF Receive, TypeOK
    <2>2. ASSUME NEW d \in Dirs, d \notin stopped \cup skipped, interval[d] > 0
          PROVE  heard'[d] <= Allow(d) + IF flight'[d] = <<>> THEN timer'[d]
                                         ELSE flight'[d][1] + interval'[d]
      <3>1. CASE d # e
        <4>1. flight'[d] = flight[d] /\ heard'[d] = heard[d] BY <2>1, <3>1
        <4> QED BY <2>1, <2>2, <4>1 DEF Paced
      <3>2. CASE d = e
        <4>1. heard'[d] = 0 BY <2>1, <3>2
        <4>2. (IF flight'[d] = <<>> THEN timer'[d]
               ELSE flight'[d][1] + interval'[d]) \in Nat
          BY <1>a, <1>d, SMTT(30)
        <4>3. Allow(d) \in Nat BY <1>a
        <4> QED BY <4>1, <4>2, <4>3
      <3> QED BY <3>1, <3>2
    <2> QED BY <2>1, <2>2 DEF Paced
  <1>8. ASSUME NEW e \in Dirs, Expire(e) PROVE Paced'
    BY <1>8 DEF Expire, Paced
  <1>9. ASSUME NEW e \in Dirs, Stop(e) PROVE Paced'
    BY <1>9 DEF Stop, Paced
  <1>10. CASE Tick
    <2>1. /\ phase' = phase /\ interval' = interval /\ limit' = limit
          /\ stopped' = stopped /\ skipped' = skipped
      BY <1>10 DEF Tick
    <2>2. \A d \in Dirs : /\ heard'[d] <= heard[d] + 1
                          /\ timer'[d] = IF d \notin stopped /\ interval[d] > 0
                                         THEN timer[d] + 1 ELSE timer[d]
                          /\ (d \notin stopped /\ interval[d] > 0 => timer[d] < interval[d])
      BY <1>10, <1>a DEF Tick
    <2>3. ASSUME NEW d \in Dirs
          PROVE  /\ flight[d] = <<>> => flight'[d] = <<>>
                 /\ flight[d] # <<>> => /\ flight'[d] # <<>>
                                        /\ flight'[d][1] = flight[d][1] + 1
      <3>1. flight'[d] = [i \in DOMAIN flight[d] |-> flight[d][i] + 1]
        BY <1>10 DEF Tick
      <3>3. CASE flight[d] = <<>> BY <3>1, <3>3
      <3>4. CASE flight[d] # <<>>
        <4>1. 1 \in DOMAIN flight[d] BY <1>b, <3>4, FirstType
        <4>2. 1 \in DOMAIN flight'[d] /\ flight'[d][1] = flight[d][1] + 1
          BY <3>1, <4>1
        <4>3. flight'[d] # <<>> BY <4>2
        <4> QED BY <3>4, <4>2, <4>3
      <3> QED BY <3>3, <3>4
    <2>4. \A d \in Dirs : timer'[d] <= interval'[d] BY <1>a, <2>1, <2>2 DEF Paced
    <2>6. phase = "replied" => /\ flight'["toClient"] # <<>>
                               /\ heard'["toServer"] <= flight'["toClient"][1]
      <3> SUFFICES ASSUME phase = "replied"
                   PROVE  /\ flight'["toClient"] # <<>>
                          /\ heard'["toServer"] <= flight'["toClient"][1]
        OBVIOUS
      <3>1. /\ flight["toClient"] # <<>>
            /\ heard["toServer"] <= flight["toClient"][1]
        BY DEF Paced
      <3>2. flight'["toClient"] # <<>> /\ flight'["toClient"][1] = flight["toClient"][1] + 1
        BY <2>3, <3>1
      <3>3. heard'["toServer"] <= heard["toServer"] + 1 BY <2>2
      <3>4. /\ heard["toServer"] \in Nat /\ heard'["toServer"] \in Nat
            /\ flight["toClient"][1] \in Nat
        BY <1>a, <1>c, <3>1
      <3> QED BY <3>1, <3>2, <3>3, <3>4
    <2>7. ASSUME phase = "up", NEW d \in Dirs, d \notin stopped \cup skipped,
                 interval[d] > 0
          PROVE  heard'[d] <= Allow(d) + IF flight'[d] = <<>> THEN timer'[d]
                                         ELSE flight'[d][1] + interval'[d]
      <3>1. heard[d] <= Allow(d) + IF flight[d] = <<>> THEN timer[d]
                                   ELSE flight[d][1] + interval[d]
        BY <2>7 DEF Paced
      <3>0. /\ heard[d] \in Nat /\ heard'[d] \in Nat /\ timer[d] \in Nat
            /\ interval[d] \in Nat /\ Allow(d) \in Nat
        BY <1>a
      <3>2. timer'[d] = timer[d] + 1 /\ heard'[d] <= heard[d] + 1 BY <2>2, <2>7
      <3>3. CASE flight[d] = <<>>
        <4>1. flight'[d] = <<>> /\ heard[d] <= Allow(d) + timer[d] BY <2>3, <3>1, <3>3
        <4>2. heard'[d] <= Allow(d) + timer'[d] BY <3>0, <3>2, <4>1
        <4> QED BY <4>1, <4>2
      <3>4. CASE flight[d] # <<>>
        <4>1. /\ flight'[d] # <<>> /\ flight'[d][1] = flight[d][1] + 1
              /\ heard[d] <= Allow(d) + (flight[d][1] + interval[d])
          BY <2>3, <3>1, <3>4
        <4>2. heard'[d] <= Allow(d) + (flight'[d][1] + interval'[d])
          <5>1. flight[d][1] \in Nat BY <1>c, <3>4
          <5>2. interval'[d] = interval[d] BY <2>1
          <5>3. heard'[d] <= heard[d] + 1 BY <3>2
          <5>4. /\ flight'[d][1] = flight[d][1] + 1
                /\ heard[d] <= Allow(d) + (flight[d][1] + interval[d])
            BY <4>1
          <5> QED BY <3>0, <5>1, <5>2, <5>3, <5>4
        <4> QED BY <4>1, <4>2
      <3> QED BY <3>3, <3>4
    <2> QED BY <2>1, <2>4, <2>6, <2>7 DEF Paced
  <1>11. CASE UNCHANGED vars BY <1>11 DEF vars, Paced
  <1> QED BY <1>1, <1>2, <1>3, <1>4, <1>5, <1>6, <1>7, <1>8, <1>9, <1>10, <1>11
          DEF Next, Handshake

\* A reader that gives up has heard nothing for longer than a living writer and
\* the network allow.
LEMMA NoFalseTimeoutStep ==
  ASSUME Inv, [Next]_vars
  PROVE  NoFalseTimeout'
  <1>0. opt' = opt /\ server' = server
    BY DEF Next, Handshake, ServerRead, HandleConnect, Refuse, ClientConnected,
           Beat, Traffic, Put, Rearm, Receive, Expire, Stop, Tick, vars
  <1>1. \A d : Compatible(d)' = Compatible(d) BY <1>0, OptionsStable
  <1>2. stopped \subseteq stopped' /\ skipped \subseteq skipped'
    BY DEF Next, Handshake, ServerRead, HandleConnect, Refuse, ClientConnected,
           Beat, Traffic, Put, Rearm, Receive, Expire, Stop, Tick, vars
  <1>3. ASSUME NEW d \in Dirs, Expire(d) PROVE NoFalseTimeout'
    <2>1. expired' = {d} /\ limit[d] > 0 /\ heard[d] >= limit[d] BY <1>3 DEF Expire
    <2> SUFFICES ASSUME Compatible(d), d \notin stopped \cup skipped PROVE FALSE
      BY <1>1, <1>2, <2>1 DEF NoFalseTimeout
    <2>2. /\ interval[d] \in Nat /\ timer[d] \in Nat /\ heard[d] \in Nat
          /\ limit[d] \in Nat /\ flight[d] \in Seq(0 .. Delay) /\ Delay \in Nat
          /\ flight["toClient"] \in Seq(0 .. Delay)
      BY OptionTypes DEF Inv, TypeOK, Dirs
    <2>3. Allow(d) \in Nat BY <2>2 DEF Allow
    <2>4. CASE phase = "up"
      <3>1. interval[d] > 0 /\ interval[d] + Allow(d) + Delay < limit[d]
        <4>1. CASE d = "toServer"
          <5>1. limit[d] = 2 * (ApplyMin(cx) * Ms)
                /\ interval[d] = WriteInterval(ApplyMin(cx))
            BY <2>1, <2>4, <4>1 DEF Inv, Negotiated
          <5>2. ApplyMin(cx) * Ms \in Nat BY NegotiatedNat DEF Inv
          <5>3. ApplyMin(cx) * Ms > 0 BY <2>1, <5>1, <5>2
          <5>4. interval[d] > 0 /\ interval[d] + 2 * Delay < limit[d]
            BY <4>1, <5>1, <5>3, ServerLimitFits DEF Inv
          <5> QED BY <2>2, <4>1, <5>4 DEF Allow
        <4>2. CASE d = "toClient"
          <5>1. limit[d] = ReadLimit(ApplyMin(cy)) /\ interval[d] = ApplyMin(cy) * Ms
            BY <2>4, <4>2 DEF Inv, Negotiated
          <5>2. interval[d] > 0 /\ interval[d] + Delay < limit[d]
            BY <2>1, <4>2, <5>1, ClientLimitFits DEF Inv
          <5> QED BY <2>2, <4>2, <5>2 DEF Allow
        <4> QED BY <4>1, <4>2 DEF Dirs
      <3>2. /\ timer[d] <= interval[d]
            /\ heard[d] <= Allow(d) + IF flight[d] = <<>> THEN timer[d]
                                      ELSE flight[d][1] + interval[d]
        BY <2>4, <3>1 DEF Inv, Paced
      <3>3. CASE flight[d] = <<>>
        <4>1. heard[d] <= Allow(d) + timer[d] BY <3>2, <3>3
        <4> QED BY <2>1, <2>2, <2>3, <3>1, <3>2, <4>1
      <3>4. CASE flight[d] # <<>>
        <4>1. heard[d] <= Allow(d) + (flight[d][1] + interval[d]) BY <3>2, <3>4
        <4>2. flight[d][1] \in 0 .. Delay BY <2>2, <3>4, FirstType
        <4> QED BY <2>1, <2>2, <2>3, <3>1, <4>1, <4>2, SMTT(30)
      <3> QED BY <3>3, <3>4
    <2>5. CASE phase = "replied"
      <3>1. d = "toServer"
        BY <2>1, <2>5 DEF Inv, Negotiated, Dirs
      <3>2. flight["toClient"] # <<>> /\ heard[d] <= flight["toClient"][1]
        BY <2>5, <3>1 DEF Inv, Paced
      <3>3. flight["toClient"][1] \in 0 .. Delay BY <2>2, <3>2, FirstType
      <3>4. limit[d] = 2 * (ApplyMin(cx) * Ms)
        BY <2>1, <3>1 DEF Inv, Negotiated
      <3>5. ApplyMin(cx) * Ms \in Nat /\ WriteInterval(ApplyMin(cx)) \in Nat
        BY NegotiatedNat DEF Inv
      <3>6. ApplyMin(cx) * Ms > 0 BY <2>1, <3>4, <3>5
      <3>7. WriteInterval(ApplyMin(cx)) + 2 * Delay < limit[d]
        BY <3>1, <3>4, <3>6, ServerLimitFits DEF Inv
      <3> QED BY <2>1, <2>2, <3>2, <3>3, <3>5, <3>7
    <2>6. CASE phase \in {"connect", "read", "refused"}
      <3>1. heard[d] = 0 BY <2>6 DEF Inv, Negotiated, Dirs
      <3> QED BY <2>1, <2>2, <3>1
    <2> QED BY <2>4, <2>5, <2>6 DEF Inv, TypeOK
  <1>4. CASE expired' = expired
    BY <1>1, <1>2, <1>4 DEF Inv, NoFalseTimeout
  <1>5. expired' = expired \/ \E d \in Dirs : Expire(d)
    BY DEF Next, Handshake, ServerRead, HandleConnect, Refuse, ClientConnected,
           Beat, Traffic, Put, Rearm, Receive, Stop, Tick, vars
  <1> QED BY <1>3, <1>4, <1>5

\* For all options, all server settings and all delays: a reader whose options
\* are compatible gives up only a connection whose writer is gone or has armed
\* its timer again without a write.
THEOREM NoFalseTimeoutHolds == Spec => []NoFalseTimeout
  <1>1. Init => Inv
    <2> SUFFICES ASSUME Init PROVE Inv
      OBVIOUS
    <2>1. TypeOK BY HeartBeatAssumption DEF Init, TypeOK
    <2>2. Negotiated BY DEF Init, Negotiated, Dirs
    <2>3. Paced BY DEF Init, Paced, Dirs
    <2>4. NoFalseTimeout BY DEF Init, NoFalseTimeout
    <2> QED BY <2>1, <2>2, <2>3, <2>4 DEF Inv
  <1>2. Inv /\ [Next]_vars => Inv'
    <2> SUFFICES ASSUME Inv, [Next]_vars PROVE Inv'
      OBVIOUS
    <2>1. TypeOK' BY TypeStep DEF Inv
    <2>2. Negotiated' BY NegotiatedStep DEF Inv
    <2>3. Paced' BY <2>1, PacedStep DEF Inv
    <2>4. NoFalseTimeout' BY NoFalseTimeoutStep
    <2> QED BY <2>1, <2>2, <2>3, <2>4 DEF Inv
  <1>3. Inv => NoFalseTimeout BY DEF Inv
  <1> QED BY <1>1, <1>2, <1>3, PTL DEF Spec
=============================================================================
