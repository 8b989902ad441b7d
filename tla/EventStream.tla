----------------------------- MODULE EventStream -----------------------------
(* One question over an event stream: sendEventStream() of analyst/sse.ts,  *)
(* a connection that delivers bytes in pieces or breaks, and streamChat()   *)
(* of the phone's lib/api.ts with its decoder, its parser and its timer.    *)
(* What an event says is its number, in one character of two bytes; time is *)
(* counted in KEEPALIVE_MS. Plain JSON answers are left out.                *)
EXTENDS Integers, Sequences, SequencesExt

CONSTANTS MaxEvents, \* events emitted before the last one
          MaxChunk,  \* bytes of one read
          IdleTicks  \* STREAM_IDLE_MS, in KEEPALIVE_MS

BoundsAssumption == {MaxEvents, MaxChunk, IdleTicks} \subseteq Nat \ {0}

VARIABLES serving, \* the server's run, and whether its signal is aborted
          emitted, \* the events written
          status,  \* of the error event or of the refusal
          wire,    \* bytes under way
          conn,    \* of the connection
          streams, \* the client's runtime can read a body in pieces
          pending, \* utf8Decoder()'s
          buffer,  \* sseParser()'s
          handled, \* the events the client was given
          outcome, \* of streamChat()
          idle,    \* ticks since the timer was armed
          silent   \* ticks since bytes came

serverVars == <<serving, emitted, status>>
parseVars == <<pending, buffer, handled>>
clientVars == <<parseVars, outcome, idle, silent>>
vars == <<serverVars, wire, conn, streams, clientVars>>

Done == MaxEvents + 1
Error == MaxEvents + 2
Statuses == {400, 401, 422, 429, 500, 502, 503}
\* Bytes: of the lines "event: ...", "data: ...", ": ..." and of an event's character.
NL == 0
EventLine == 1
DataLine == 2
Comment == 3
First(e) == 10 + e
Second(e) == 30 + e
Char(e) == 50 + e
IsFirst(b) == b \in 10 .. 29
IsSecond(b) == b \in 30 .. 49

messageFor(code) ==
    CASE code = 401 -> "auth" [] code = 429 -> "rate_limit" [] code \in {400, 422} -> "query"
      [] code \in {502, 503} -> "unavailable" [] OTHER -> "server"

TypeOK ==
    /\ serving \in {"no", "running", "aborted", "over"}
    /\ emitted \in Seq(1 .. Error) /\ Len(emitted) <= Error
    /\ status \in Statuses \cup {200}
    /\ \A i \in DOMAIN wire : wire[i] \in 0 .. Second(Error)
    /\ conn \in {"none", "open", "ended", "closed"}
    /\ streams \in BOOLEAN
    /\ Len(pending) <= 1 /\ \A i \in DOMAIN buffer : buffer[i] \in 0 .. Char(Error)
    /\ outcome \in {"none", "done", "cut off", "network", "timeout", "aborted"}
                   \cup {messageFor(s) : s \in Statuses}
    /\ idle \in 0 .. IdleTicks /\ silent \in 0 .. IdleTicks * (MaxEvents + 2)

Init == /\ serving = "no" /\ emitted = <<>> /\ status = 200
        /\ wire = <<>> /\ conn = "none" /\ streams \in BOOLEAN
        /\ pending = <<>> /\ buffer = <<>> /\ handled = <<>>
        /\ outcome = "none" /\ idle = 0 /\ silent = 0
-----------------------------------------------------------------------------
(* The server *)

Written(e) == <<EventLine, NL, DataLine, First(e), Second(e), NL, NL>>
Quietly == <<Comment, NL, NL>>
\* Not to a response that ended or whose connection is gone.
write(bytes) == wire' = IF conn = "open" THEN wire \o bytes ELSE wire

Serve == /\ conn = "none" /\ outcome = "none"
         /\ serving' = "running" /\ conn' = "open" /\ wire' = Quietly
         /\ UNCHANGED <<emitted, status, streams, clientVars>>

\* A request the server does not begin to stream: refused, or never there.
Refuse == /\ conn = "none" /\ outcome = "none"
          /\ conn' = "closed"
          /\ \/ \E s \in Statuses : status' = s /\ outcome' = messageFor(s)
             \/ outcome' = "network" /\ UNCHANGED status
          /\ UNCHANGED <<serving, emitted, wire, streams, parseVars, idle, silent>>

Emit == /\ serving \in {"running", "aborted"} /\ Len(emitted) < MaxEvents
        /\ emitted' = IF conn = "open" THEN Append(emitted, Len(emitted) + 1) ELSE emitted
        /\ write(Written(Len(emitted) + 1))
        /\ UNCHANGED <<serving, status, conn, streams, clientVars>>

\* run() returns or throws; what an aborted run throws is not told.
RunEnds ==
    /\ serving \in {"running", "aborted"}
    /\ serving' = "over"
    /\ \/ /\ emitted' = IF conn = "open" THEN Append(emitted, Done) ELSE emitted
          /\ write(Written(Done)) /\ UNCHANGED status
       \/ /\ serving = "running"
          /\ emitted' = IF conn = "open" THEN Append(emitted, Error) ELSE emitted
          /\ write(Written(Error))
          /\ status' \in Statuses
       \/ serving = "aborted" /\ UNCHANGED <<emitted, wire, status>>
    /\ conn' = IF conn = "open" THEN "ended" ELSE conn
    /\ UNCHANGED <<streams, clientVars>>

\* res.on('close')
Closed == /\ conn = "closed" /\ serving = "running"
          /\ serving' = "aborted"
          /\ UNCHANGED <<emitted, status, wire, conn, streams, clientVars>>
-----------------------------------------------------------------------------
(* The client *)

\* What pending and the bytes are in characters, and the byte whose other is to come.
utf8Decoder(bytes) ==
    LET all == pending \o bytes
        whole == IF all # <<>> /\ IsFirst(Last(all)) THEN Front(all) ELSE all
        chars == SelectSeq(whole, LAMBDA b : ~IsSecond(b))
    IN  [text |-> [i \in DOMAIN chars |-> IF IsFirst(chars[i]) THEN Char(chars[i] - 10) ELSE chars[i]],
         pending |-> SubSeq(all, Len(whole) + 1, Len(all))]

\* The payload of a block's data lines.
dataOf(block) == LET at == {i \in DOMAIN block : block[i] = DataLine /\ (i = 1 \/ block[i - 1] = NL)}
                 IN  IF at = {} THEN <<>> ELSE <<block[(CHOOSE i \in at : TRUE) + 1] - 50>>

\* Each character is appended, and a block ends with an empty line.
sseParser(text) ==
    FoldLeft(LAMBDA acc, ch :
                 LET b == Append(acc.buffer, ch)
                 IN  IF Len(b) >= 2 /\ SubSeq(b, Len(b) - 1, Len(b)) = <<NL, NL>>
                     THEN [buffer |-> <<>>, events |-> acc.events \o dataOf(b)]
                     ELSE [acc EXCEPT !.buffer = b],
             [buffer |-> buffer, events |-> <<>>], text)

\* handle() of each event: the timer is armed again. The read that brings the
\* last event is the last one.
Read(bytes) ==
    LET decoded == utf8Decoder(bytes)
        parsed == sseParser(decoded.text)
    IN  /\ pending' = decoded.pending /\ buffer' = parsed.buffer
        /\ handled' = handled \o parsed.events
        /\ idle' = IF parsed.events = <<>> THEN idle ELSE 0
        /\ IF Error \in Range(parsed.events) THEN outcome' = messageFor(status) /\ conn' = "closed"
           ELSE IF Done \in Range(parsed.events) THEN outcome' = "done" /\ conn' = "closed"
           ELSE UNCHANGED <<outcome, conn>>

Receive(n) == /\ outcome = "none" /\ streams /\ wire # <<>>
              /\ Read(SubSeq(wire, 1, n))
              /\ wire' = SubSeq(wire, n + 1, Len(wire))
              /\ silent' = 0
              /\ UNCHANGED <<serverVars, streams>>

\* res.text(): all of it, when it is complete.
ReceiveAll == /\ outcome = "none" /\ ~streams /\ conn = "ended" /\ wire # <<>>
              /\ Read(wire)
              /\ wire' = <<>> /\ silent' = 0
              /\ UNCHANGED <<serverVars, streams>>

EndOfStream == /\ outcome = "none" /\ conn = "ended" /\ wire = <<>>
               /\ outcome' = "cut off" /\ conn' = "closed"
               /\ UNCHANGED <<serverVars, wire, streams, parseVars, idle, silent>>

\* What was under way is lost.
Gone(why) == /\ outcome = "none"
             /\ outcome' = why /\ conn' = "closed" /\ wire' = <<>>
             /\ UNCHANGED <<serverVars, streams, parseVars>>

Break == conn \in {"open", "ended"} /\ Gone("network") /\ UNCHANGED <<idle, silent>>
Stop == Gone("aborted") /\ UNCHANGED <<idle, silent>>

\* Mutant: the timer is armed when the response has begun.
TickOnceOpen == /\ outcome = "none" /\ conn # "none"
                /\ idle' = idle + 1 /\ silent' = silent + 1
                /\ \/ idle + 1 = IdleTicks /\ Gone("timeout")
                   \/ /\ idle + 1 < IdleTicks
                      /\ write(Quietly)
                      /\ UNCHANGED <<serverVars, conn, streams, parseVars, outcome>>

\* KEEPALIVE_MS pass: the server's interval writes, and the timer may fire.
Tick == /\ outcome = "none"
        /\ idle' = idle + 1 /\ silent' = silent + 1
        /\ \/ idle + 1 = IdleTicks /\ Gone("timeout")
           \/ /\ idle + 1 < IdleTicks
              /\ write(Quietly)
              /\ UNCHANGED <<serverVars, conn, streams, parseVars, outcome>>

Next == \/ Serve \/ Refuse \/ Emit \/ RunEnds \/ Closed
        \/ \E n \in 1 .. MaxChunk : n <= Len(wire) /\ Receive(n)
        \/ ReceiveAll \/ EndOfStream \/ Break \/ Stop \/ Tick

Spec == Init /\ [][Next]_vars
\* Of the clock and of the server's socket; of no run and of no delivery.
Fairness == WF_vars(Tick) /\ WF_vars(Closed)
-----------------------------------------------------------------------------
(* However the connection cuts the stream, also inside a character, the     *)
(* client is given the events that were written, in order and none twice;   *)
(* and the answer only behind all of them.                                  *)
EventsArrive == /\ IsPrefix(handled, emitted)
                /\ outcome = "done" => handled = emitted /\ Last(emitted) = Done

(* Every question ends though the server and the network fall silent, and   *)
(* "an abandoned agent run stops spending": its signal is aborted.          *)
StreamEnded == outcome # "none" /\ serving # "running"

(* "A quiet stream this long means the connection is gone (the server pings *)
(* every 15 s)": the timer ends a question only when nothing came.          *)
QuietMeansGone == outcome = "timeout" => silent >= IdleTicks
=============================================================================
