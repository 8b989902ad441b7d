----------------------------- MODULE ServerSetup -----------------------------
(* config/env.ts, common/api-key.guard.ts and query/query.dto.ts, with the   *)
(* side of the phone that meets them (lib/api.ts, contextFor): which servers *)
(* start, whom they answer, what a connection test may say of it and whether *)
(* a conversation's next request is accepted. A setting is unset or a text,  *)
(* with spaces around it or not; other settings are of the same kinds. A     *)
(* text of a request is its length, 0 for none.                              *)
EXTENDS Integers, Sequences

PROVIDERS == <<"openai", "openrouter">>
ToProviders == {PROVIDERS[i] : i \in DOMAIN PROVIDERS}
-----------------------------------------------------------------------------
(* validateEnv *)

Unset == [set |-> FALSE, text |-> "", padded |-> FALSE]
Set(text, padded) == [set |-> TRUE, text |-> text, padded |-> padded]

\* `KEY=` is unset; a blank is not.
present(v) == IF v = Set("", FALSE) THEN Unset ELSE v
optionalString(v) == v.text

Flags == {"true", "false", "1", "0"}
BoolOk(v) == present(v).set => ~v.padded /\ v.text \in Flags
bool(v, fallback) == IF present(v).set THEN v.text \in {"true", "1"} ELSE fallback

ModeOk(v) == present(v).set => ~v.padded /\ v.text \in {"development", "production", "test"}
NodeEnv(v) == IF present(v).set THEN v.text ELSE "development"

\* The items between the commas, trimmed; the empty ones do not count.
csv(items) == SelectSeq(items, LAMBDA item : item # "")
DefaultDeny == <<"*password*", "*passwd*", "*pwd*", "*secret*", "*token*", "*cnic*", "*ssn*">>
DenyColumns(items) == IF csv(items) = <<>> THEN DefaultDeny ELSE csv(items)
FallbackOrder(items) == IF items = <<>> THEN PROVIDERS ELSE csv(items)
OrderOk(items) == \A i \in DOMAIN FallbackOrder(items) : FallbackOrder(items)[i] \in ToProviders

Refused == [starts |-> FALSE]

validateEnv(raw) ==
    LET key == optionalString(present(raw.API_KEY))
        open == bool(raw.ALLOW_NO_API_KEY, FALSE)
    IN  IF \/ ~ModeOk(raw.NODE_ENV) \/ ~BoolOk(raw.ALLOW_NO_API_KEY) \/ ~OrderOk(raw.LLM_FALLBACK_ORDER)
           \/ NodeEnv(raw.NODE_ENV) = "production" /\ key = "" /\ ~open
        THEN Refused
        ELSE [starts |-> TRUE, mode |-> NodeEnv(raw.NODE_ENV), key |-> key,
              deny |-> DenyColumns(raw.DB_DENY_COLUMNS), order |-> FallbackOrder(raw.LLM_FALLBACK_ORDER)]
-----------------------------------------------------------------------------
(* The guards of a route, and what the phone makes of an answer; "" is no    *)
(* header.                                                                   *)

canActivate(env, public, header) == env.key = "" \/ public \/ header = env.key

\* The public route asked here, /health, is not throttled either.
answer(env, public, header, busy) ==
    IF ~canActivate(env, public, header) THEN 401 ELSE IF busy /\ ~public THEN 429 ELSE 200

messageFor(status) ==
    CASE status = 401 -> "auth" [] status = 429 -> "rate_limit" [] status \in {400, 422} -> "query"
      [] status \in {502, 503} -> "unavailable" [] OTHER -> "server"

\* What became of the fetch: an answer, a failure, or the timer or the user first.
request(cfg, net, status) ==
    IF cfg.url = "" THEN "unconfigured"
    ELSE IF net = "stopped" THEN "aborted"
    ELSE IF net = "late" THEN "timeout"
    ELSE IF net = "fails" THEN "network"
    ELSE IF status = 200 THEN "ok" ELSE messageFor(status)

\* /health is open to all; whether the key is taken is asked of /llm.
checkConnection(cfg, env, nets, busy) ==
    LET health == request(cfg, nets[1], answer(env, TRUE, cfg.key, busy))
        llm == request(cfg, nets[2], answer(env, FALSE, cfg.key, busy))
    IN  IF health # "ok" THEN [kind |-> health]
        ELSE IF llm \notin {"ok", "auth"} THEN [kind |-> llm]
        ELSE [kind |-> "ok", authorized |-> llm = "ok"]
-----------------------------------------------------------------------------
(* query.dto.ts, and the context the phone sends *)

question(n) == n \in 3 .. 2000
message(n) == n \in 1 .. 2000
sql(n) == n \in 1 .. 20000
context(turns) == Len(turns) <= 4 /\ \A i \in DOMAIN turns : message(turns[i].question) /\ sql(turns[i].sql)
chatContext(turns) ==
    /\ Len(turns) <= 12
    /\ \A i \in DOMAIN turns : /\ message(turns[i].question) /\ turns[i].answer <= 4000
                               /\ turns[i].sql # 0 => sql(turns[i].sql)
askSchema(n, turns) == question(n) /\ context(turns)
chatSchema(n, turns) == message(n) /\ chatContext(turns)
chatMediaFieldsSchema(n, turns) == n <= 2000 /\ chatContext(turns)

CONTEXT_ANSWER_CHARS == 1500
Least(a, b) == IF a < b THEN a ELSE b
Turn(m) == [question |-> m.question, answer |-> Least(m.answer, CONTEXT_ANSWER_CHARS), sql |-> m.sql]

contextFor(messages, limit) ==
    LET turns == SelectSeq(messages, LAMBDA m : m.done /\ m.question # 0)
        first == IF Len(turns) > limit THEN Len(turns) - limit ELSE 0
    IN  [i \in 1 .. Len(turns) - first |-> Turn(turns[first + i])]
-----------------------------------------------------------------------------
(* What a reader relies on *)

\* A production server that starts answers its own key only, unless it was
\* opened by name; a setting left empty is as if it were not there, a key of
\* spaces is no key, and there are always columns that are never read (env.ts,
\* api-key.guard.ts).
SetupHolds(raw, header) ==
    LET env == validateEnv(raw)
        without == [raw EXCEPT !.API_KEY = present(@), !.ALLOW_NO_API_KEY = present(@), !.NODE_ENV = present(@)]
    IN  /\ validateEnv(without) = env
        /\ env.starts =>
             /\ env.deny # <<>> /\ \A i \in DOMAIN env.deny : env.deny[i] # ""
             /\ env.mode = "production" /\ raw.API_KEY.text = "" => raw.ALLOW_NO_API_KEY.text \in {"true", "1"}
             /\ answer(env, FALSE, header, FALSE) = 200 => header = raw.API_KEY.text \/ raw.API_KEY.text = ""
             /\ answer(env, TRUE, header, TRUE) = 200

\* The test of a connection blames the key only if the key is wrong and praises
\* it only if requests with it are answered, however busy the server and however
\* bad the line is; a server that is reached and not busy is always judged
\* (api.ts).
ConnectionHolds(cfg, env, nets, busy) ==
    LET c == checkConnection(cfg, env, nets, busy)
    IN  /\ c.kind = "ok" => c.authorized = canActivate(env, FALSE, cfg.key)
        /\ c.kind = "auth" => FALSE
        /\ cfg.url # "" /\ nets = <<"answers", "answers">> /\ ~busy => c.kind = "ok"

\* A question that is accepted keeps its conversation usable: with whatever was
\* answered before it, cut short or not, the next request is accepted too, as
\* text and with a recording (chat-reducer.ts, query.dto.ts). Questions heard
\* and SQL written are within the limits of a typed one.
FollowUpAccepted(messages, n) ==
    LET turns == contextFor(messages, 6)
    IN  /\ \A i \in DOMAIN messages : message(messages[i].question) \/ messages[i].question = 0
        /\ message(n)
        => chatSchema(n, turns) /\ chatMediaFieldsSchema(n, turns) /\ chatMediaFieldsSchema(0, turns)
=============================================================================
