----------------------------- MODULE FrameCodec -----------------------------
(***************************************************************************)
(* Frames as bytes: Header, Writer and Reader of package frame, on the way *)
(* of a message from one application to another.  A SEND built by          *)
(* createSendFrame is written by the client, read by the server, relayed   *)
(* as a MESSAGE with the headers that the server sets, written, and read   *)
(* by the subscriber.  Heart-beats go between the frames, and each of the  *)
(* two byte streams may end at any byte.                                   *)
(*                                                                         *)
(* A byte is a symbol.  A command or a header name without special bytes   *)
(* is one symbol; lengths are below ten.  Recursion is over the bytes.     *)
(***************************************************************************)
EXTENDS Naturals, Sequences, FiniteSets, SequencesExt

CONSTANTS
  Bodies,     \* bound: message bodies
  Keys,       \* bound: names of the header entry that the application adds
  Values,     \* bound: its values
  MaxFrames,  \* bound: frames that the sender writes
  MaxBeats    \* bound: heart-beats

Digits == <<"0", "1", "2", "3", "4", "5", "6", "7", "8", "9">>
Byte == {Digits[i] : i \in 1 .. 10}
          \cup {"LF", "CR", "NUL", ":", "\\", "r", "n", "c", "x"}
          \cup {"SEND", "MESSAGE", "content-length", "destination", "subscription",
                "message-id", "id", "ack", "receipt"}
Text == Seq(Byte)

ASSUME CodecAssumption ==
  /\ Bodies \subseteq Text /\ Values \subseteq Text
  /\ Keys \subseteq Text
  /\ \A b \in Bodies : Len(b) < 10
  /\ MaxFrames \in Nat /\ MaxBeats \in Nat
-----------------------------------------------------------------------------
(***************************************************************************)
(* Header: entries in order.  The first entry of a key counts.             *)
(***************************************************************************)
Entry(k, v) == [key |-> k, value |-> v]
Has(h, k) == \E i \in DOMAIN h : h[i].key = k
Index(h, k) == CHOOSE i \in DOMAIN h : h[i].key = k /\ \A j \in 1 .. i - 1 : h[j].key # k
Get(h, k) == h[Index(h, k)].value
Add(h, k, v) == Append(h, Entry(k, v))

Set(h, k, v) == IF Has(h, k) THEN [h EXCEPT ![Index(h, k)].value = v]
                ELSE Add(h, k, v)
Del(h, k) == SelectSeq(h, LAMBDA e : e.key # k)

\* strconv.Itoa and ParseUint.
Itoa(n) == <<Digits[n + 1]>>
IsNumber(t) == t # <<>> /\ \A i \in DOMAIN t : t[i] \in Range(Digits)
ParseUint(t) == FoldLeft(LAMBDA n, d : 10 * n + SelectInSeq(Digits, LAMBDA x : x = d) - 1,
                         0, t)
-----------------------------------------------------------------------------
(***************************************************************************)
(* Writer.  A heart-beat is a frame that is nil.                           *)
(***************************************************************************)
HeartBeat == <<>>

Escape(b) == CASE b = "\\" -> <<"\\", "\\">>
               [] b = "CR" -> <<"\\", "r">>
               [] b = "LF" -> <<"\\", "n">>
               [] b = ":"  -> <<"\\", "c">>
               [] OTHER    -> <<b>>
Encode(t) == FlattenSeq([i \in DOMAIN t |-> Escape(t[i])])

WriteEntry(e) == Encode(e.key) \o <<":">> \o Encode(e.value) \o <<"LF">>
WriteBytes(f) ==
  IF f = HeartBeat THEN <<"LF">>
  ELSE <<f.command, "LF">> \o FlattenSeq([i \in DOMAIN f.header |-> WriteEntry(f.header[i])])
         \o <<"LF">> \o f.body \o <<"NUL">>
-----------------------------------------------------------------------------
(***************************************************************************)
(* Reader.  A result is a frame, a heart-beat, an error, or "more" when    *)
(* the bytes end before the frame does, with the bytes that are left.      *)
(***************************************************************************)
Result(k, f, rest) == [kind |-> k, frame |-> f, rest |-> rest]
More == Result("more", HeartBeat, <<>>)
Bad  == Result("error", HeartBeat, <<>>)

After(s, n) == SubSeq(s, n + 1, Len(s))
\* IndexByte, from 1; 0 when there is none.
First(s, b) == IF b \in Range(s)
                 THEN CHOOSE i \in DOMAIN s : s[i] = b /\ \A j \in 1 .. i - 1 : s[j] # b
                 ELSE 0

\* readLine: up to the first LF, without LF or CR LF.
Line(s) == LET n == First(s, "LF")
           IN  IF n > 1 /\ s[n - 1] = "CR" THEN SubSeq(s, 1, n - 2)
                                           ELSE SubSeq(s, 1, n - 1)
Rest(s) == After(s, First(s, "LF"))

\* unencodeValue, from left to right; an unknown escape stays as it is.
RECURSIVE Unencode(_)
Unencode(t) ==
  LET pair == IF Len(t) < 2 \/ t[1] # "\\" THEN "none" ELSE t[2]
      byte == CASE pair = "r" -> "CR" [] pair = "n" -> "LF" [] pair = "c" -> ":"
                [] pair = "\\" -> "\\" [] OTHER -> "none"
  IN  IF t = <<>> THEN <<>>
      ELSE IF byte # "none" THEN <<byte>> \o Unencode(After(t, 2))
      ELSE <<t[1]>> \o Unencode(After(t, 1))

\* Mutant: the NUL behind a body with content-length is not read.
ReadBodyOpenEnded(cmd, h, s) ==
  LET end(n, rest) == Result("frame",
                             [command |-> cmd, header |-> h, body |-> SubSeq(s, 1, n)], rest)
      text == Get(h, <<"content-length">>)
  IN  IF Has(h, <<"content-length">>)
        THEN IF ~IsNumber(text) THEN Bad
             ELSE IF Len(s) < ParseUint(text) THEN More
             ELSE end(ParseUint(text), After(s, ParseUint(text)))
        ELSE IF First(s, "NUL") = 0 THEN More
             ELSE end(First(s, "NUL") - 1, After(s, First(s, "NUL")))

\* By content-length, with NUL behind, or up to the first NUL.
ReadBody(cmd, h, s) ==
  LET end(n) == Result("frame",
                       [command |-> cmd, header |-> h, body |-> SubSeq(s, 1, n)],
                       After(s, n + 1))
      text == Get(h, <<"content-length">>)
  IN  IF Has(h, <<"content-length">>)
        THEN IF ~IsNumber(text) THEN Bad
             ELSE IF Len(s) <= ParseUint(text) THEN More
             ELSE IF s[ParseUint(text) + 1] # "NUL" THEN Bad
             ELSE end(ParseUint(text))
        ELSE IF First(s, "NUL") = 0 THEN More ELSE end(First(s, "NUL") - 1)

RECURSIVE ReadHeader(_, _, _)
ReadHeader(cmd, h, s) ==
  LET l == Line(s)
      n == First(l, ":")
  IN  IF First(s, "LF") = 0 THEN More
      ELSE IF l = <<>> THEN ReadBody(cmd, h, Rest(s))
      ELSE IF n <= 1 THEN Bad
      ELSE ReadHeader(cmd, Add(h, Unencode(SubSeq(l, 1, n - 1)), Unencode(After(l, n))),
                      Rest(s))

Read(s) ==
  LET l == Line(s) IN
  IF First(s, "LF") = 0 THEN More
  ELSE IF l = <<>> THEN Result("heart-beat", HeartBeat, Rest(s))
  ELSE IF l \notin {<<"SEND">>, <<"MESSAGE">>} THEN Bad
  ELSE ReadHeader(l[1], <<>>, Rest(s))
-----------------------------------------------------------------------------
(***************************************************************************)
(* The way of a message.  The subscriber's connection has two              *)
(* subscriptions to the queue: "1" acknowledges, "2" does not.  When the   *)
(* connection ends, a message that "1" has not acknowledged goes back to   *)
(* the queue, and out again on the subscriber's next connection.           *)
(***************************************************************************)
VARIABLES
  wire,       \* stream -> its bytes: "up" to the server, "down" to the subscriber
  cut,        \* the streams that have ended: no byte follows
  reader,     \* stream -> "reading", "eof" or "invalid": what Read returned last
  beats,      \* heart-beats written
  again,      \* the subscriber has connected again
  lastMsgId,  \* the counter of the server's connection to the subscriber
  subList,    \* the message that waits for the subscriber's ACK, with its origin
  queue,      \* the message that came back
  sent,       \* history: the frames that the sender wrote
  relayed,    \* history: how many of them the server read
  relays,     \* history: origin and subscription of each MESSAGE on this connection
  got         \* history: the messages on the subscriptions' channels

upVars   == <<sent, relayed>>
downVars == <<again, lastMsgId, subList, queue, relays, got>>
vars == <<wire, cut, reader, beats, upVars, downVars>>

Streams == {"up", "down"}
Subs    == {<<"1">>, <<"2">>}

\* createSendFrame, with SendOpt.NoContentLength before SendOpt.Header.
SendFrame(b, k, v, noLength) ==
  LET h == <<Entry(<<"content-length">>, Itoa(Len(b))), Entry(<<"destination">>, <<"x">>)>>
  IN  [command |-> "SEND", body |-> b,
       header |-> Add(IF noLength THEN Del(h, <<"content-length">>) ELSE h, k, v)]

\* With SendOpt.Receipt.
ReceiptFrame ==
  LET f == SendFrame(<<"x">>, <<"x">>, <<>>, FALSE)
  IN  [f EXCEPT !.header = Set(@, <<"receipt">>, <<"x">>)]

Frames == {SendFrame(b, k, v, n) : b \in Bodies, k \in Keys, v \in Values, n \in BOOLEAN}

\* A reader accepts the entries and finds the end of the frame where the writer
\* put it.
WellFormed(f) ==
  /\ ~Has(f.header, <<>>)
  /\ IF Has(f.header, <<"content-length">>)
       THEN Get(f.header, <<"content-length">>) = Itoa(Len(f.body))
       ELSE First(f.body, "NUL") = 0
AllWellFormed == \A i \in DOMAIN sent : WellFormed(sent[i])

Init ==
  /\ wire = [s \in Streams |-> <<>>] /\ cut = {}
  /\ reader = [s \in Streams |-> "reading"]
  /\ beats = 0 /\ again = FALSE /\ lastMsgId = 0
  /\ subList = {} /\ queue = {}
  /\ sent = <<>> /\ relayed = 0 /\ relays = <<>> /\ got = <<>>
-----------------------------------------------------------------------------
Put(s, f) == [wire EXCEPT ![s] = @ \o WriteBytes(f)]

\* The sender writes a frame.
Send(f) ==
  /\ Len(sent) < MaxFrames
  /\ "up" \notin cut
  /\ wire' = Put("up", f)
  /\ sent' = Append(sent, f)
  /\ UNCHANGED <<cut, reader, beats, relayed, downVars>>

\* A write timer fires on either side.  Bound: while both connections stand.
Beat(s) ==
  /\ cut = {} /\ beats < MaxBeats
  /\ wire' = Put(s, HeartBeat)
  /\ beats' = beats + 1
  /\ UNCHANGED <<cut, reader, upVars, downVars>>

\* A connection breaks: the stream ends after some of its bytes.  Bound: one
\* connection.  It ends in the frame that is read next, or right behind it; an
\* end in a later frame is the same as one after this frame is read.
Cut(s) ==
  /\ cut = {} /\ ~again
  /\ cut' = {s}
  /\ \E n \in 0 .. Len(wire[s]) - Len(Read(wire[s]).rest) :
       wire' = [wire EXCEPT ![s] = SubSeq(@, 1, n)]
  /\ UNCHANGED <<reader, beats, upVars, downVars>>

\* A readLoop gets a heart-beat and goes on.
ReadBeat(s) ==
  LET r == Read(wire[s]) IN
  /\ reader[s] = "reading" /\ r.kind = "heart-beat"
  /\ wire' = [wire EXCEPT ![s] = r.rest]
  /\ UNCHANGED <<cut, reader, beats, upVars, downVars>>

\* A readLoop gets an error and ends.
ReadFails(s) ==
  LET r == Read(wire[s]) IN
  /\ reader[s] = "reading"
  /\ \/ r.kind = "error" /\ reader' = [reader EXCEPT ![s] = "invalid"]
     \/ r.kind = "more" /\ s \in cut /\ reader' = [reader EXCEPT ![s] = "eof"]
  /\ UNCHANGED <<wire, cut, beats, upVars, downVars>>

\* Mutant: the ack header of an earlier delivery stays.
AllocateMessageIdKeepsAck(h, sub) ==
  LET id == Itoa(lastMsgId + 1)
      g  == Set(Set(h, <<"message-id">>, id), <<"id">>, id)
  IN  IF sub = <<"2">> THEN g ELSE Set(g, <<"ack">>, id)

AllocateMessageId(h, sub) ==
  LET id == Itoa(lastMsgId + 1)
      g  == Set(Set(h, <<"message-id">>, id), <<"id">>, id)
  IN  IF sub = <<"2">> THEN Del(g, <<"ack">>) ELSE Set(g, <<"ack">>, id)

\* Mutant: a frame is written as a SEND.
ToSubAsSend(bytes, m, sub) ==
  LET h == AllocateMessageId(Set(m.frame.header, <<"subscription">>, sub), sub)
      n == [frame |-> [command |-> "SEND", header |-> h, body |-> m.frame.body],
            origin |-> m.origin]
  IN  /\ sub = <<"1">> => subList = {}
      /\ wire' = [bytes EXCEPT !["down"] = @ \o WriteBytes(n.frame)]
      /\ subList' = IF sub = <<"2">> THEN subList ELSE {n}
      /\ lastMsgId' = lastMsgId + 1
      /\ relays' = Append(relays, [origin |-> m.origin, sub |-> sub])

\* SendQueueFrame and the connection's processLoop.  The frame is changed in
\* place; a subscription that acknowledges has one frame at a time.
ToSub(bytes, m, sub) ==
  LET h == AllocateMessageId(Set(m.frame.header, <<"subscription">>, sub), sub)
      n == [frame |-> [command |-> "MESSAGE", header |-> h, body |-> m.frame.body],
            origin |-> m.origin]
  IN  /\ sub = <<"1">> => subList = {}
      /\ wire' = [bytes EXCEPT !["down"] = @ \o WriteBytes(n.frame)]
      /\ subList' = IF sub = <<"2">> THEN subList ELSE {n}
      /\ lastMsgId' = lastMsgId + 1
      /\ relays' = Append(relays, [origin |-> m.origin, sub |-> sub])

\* The server reads a SEND and relays it.
Relay(sub) ==
  LET r == Read(wire["up"]) IN
  /\ reader["up"] = "reading" /\ r.kind = "frame"
  /\ "down" \notin cut /\ queue = {}
  /\ relayed' = relayed + 1
  /\ ToSub([wire EXCEPT !["up"] = r.rest],
           [frame |-> [r.frame EXCEPT !.header = Del(@, <<"receipt">>)],
            origin |-> relayed + 1], sub)
  /\ UNCHANGED <<cut, reader, beats, sent, again, queue, got>>

\* The server's connection to the subscriber has ended and cleanupConn has put
\* the message back; the subscriber connects and subscribes again.
Reconnect ==
  /\ "down" \in cut
  /\ again' = TRUE
  /\ wire' = [wire EXCEPT !["down"] = <<>>]
  /\ cut' = cut \ {"down"}
  /\ reader' = [reader EXCEPT !["down"] = "reading"]
  /\ lastMsgId' = 0 /\ subList' = {} /\ queue' = subList
  /\ relays' = <<>> /\ got' = <<>>
  /\ UNCHANGED <<beats, upVars>>

\* The queue gives the message to a subscription.
Redeliver(m, sub) ==
  /\ ToSub(wire, m, sub)
  /\ queue' = queue \ {m}
  /\ UNCHANGED <<cut, reader, beats, upVars, again, got>>

\* The subscriber reads a frame, which goes to its subscription's channel.
Deliver ==
  LET r == Read(wire["down"]) IN
  /\ reader["down"] = "reading" /\ r.kind = "frame"
  /\ wire' = [wire EXCEPT !["down"] = r.rest]
  /\ got' = Append(got, r.frame)
  /\ UNCHANGED <<cut, reader, beats, upVars, again, lastMsgId, subList, queue, relays>>

Next ==
  \/ \E f \in IF sent = <<>> THEN Frames ELSE {ReceiptFrame} : Send(f)
  \/ \E s \in Streams : Beat(s) \/ Cut(s) \/ ReadBeat(s) \/ ReadFails(s)
  \/ \E sub \in Subs : Relay(sub) \/ \E m \in queue : Redeliver(m, sub)
  \/ Reconnect
  \/ Deliver

Spec == Init /\ [][Next]_vars
-----------------------------------------------------------------------------
\* Types; the subscriber gets MESSAGE frames only, which is what a
\* subscription puts on its channel.
TypeOK ==
  /\ DOMAIN wire = Streams /\ \A s \in Streams : Range(wire[s]) \subseteq Byte
  /\ cut \subseteq Streams
  /\ reader \in [Streams -> {"reading", "eof", "invalid"}]
  /\ beats \in 0 .. MaxBeats
  /\ again \in BOOLEAN
  /\ lastMsgId \in 0 .. 9 /\ lastMsgId = Len(relays)
  /\ Len(sent) <= MaxFrames /\ relayed \in 0 .. 9
  /\ \A m \in subList \cup queue : m.origin \in 1 .. relayed
  /\ \A i \in DOMAIN got : got[i].command = "MESSAGE"

\* The header entries that the server sets (setSubscriptionHeader,
\* allocateMessageId), as the subscriber reads them.
ServerKeys == {<<"subscription">>, <<"message-id">>, <<"id">>, <<"ack">>, <<"receipt">>}
ServerEntries(h, id, sub) ==
  /\ Has(h, <<"subscription">>) /\ Get(h, <<"subscription">>) = sub
  /\ Has(h, <<"message-id">>) /\ Get(h, <<"message-id">>) = Itoa(id)
  /\ Has(h, <<"ack">>) <=> sub = <<"1">>
  /\ Has(h, <<"ack">>) => Get(h, <<"ack">>) = Itoa(id)
  /\ ~Has(h, <<"receipt">>)

\* The body and the application's header entries are those of the SEND, with
\* the first entry of a key counting, and the entries of the server are those
\* of this delivery, not of an earlier one: whatever bytes the body, the keys
\* and the values hold, and wherever the connections break.
EndToEnd ==
  \A i \in DOMAIN got :
    /\ ServerEntries(got[i].header, i, relays[i].sub)
    /\ (\A n \in 1 .. relays[i].origin : n \in DOMAIN sent /\ WellFormed(sent[n])) =>
         LET f == sent[relays[i].origin] IN
         /\ got[i].body = f.body
         /\ \A k \in (Keys \ ServerKeys) \cup {<<"content-length">>, <<"destination">>} :
              /\ Has(got[i].header, k) <=> Has(f.header, k)
              /\ Has(f.header, k) => Get(got[i].header, k) = Get(f.header, k)

\* A reader stays in step with its writer: it fails only on or behind a frame
\* with an empty header name, which SendOpt.Header takes and Reader refuses, with
\* NUL in its body and no content-length, or with a content-length that the
\* application wrote, and with all bytes there it leaves none behind.
\* The subscriber's reader never fails, whatever the sender wrote.
InStep ==
  /\ reader["up"] = "invalid" => ~AllWellFormed
  /\ reader["down"] # "invalid"
  /\ AllWellFormed /\ "up" \notin cut /\ Read(wire["up"]).kind = "more" =>
       wire["up"] = <<>> /\ relayed = Len(sent)
  /\ "down" \notin cut /\ Read(wire["down"]).kind = "more" =>
       wire["down"] = <<>> /\ Len(got) = Len(relays)
=============================================================================
