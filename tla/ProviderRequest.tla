--------------------------- MODULE ProviderRequest ---------------------------
(* llm/llm.service.ts and agent-model.ts, what LlmFailover leaves out: the   *)
(* parameters a request to a provider carries, one-shot and of an agent run, *)
(* what is learned from a refusal and what is then left out, and what a call *)
(* is booked as. A parameter is its name in the request; an effort may be    *)
(* unset.                                                                    *)
EXTENDS Integers, Sequences, FiniteSets

DROPPABLE_PARAMS == {"temperature", "reasoning_effort", "reasoning", "prompt_cache_key", "provider", "include",
                     "store", "parallel_tool_calls"}
-----------------------------------------------------------------------------
(* A refusal: the parameter it names (a path is its first part), whether its *)
(* words say that it is not supported, and whether it asks for tools without *)
(* reasoning.                                                                *)

rejectedParam(err) == IF err.status = 400 /\ err.param \in DROPPABLE_PARAMS /\ err.unsupported THEN {err.param} ELSE {}
toolsNeedNoReasoning(err) == err.status = 400 /\ err.tools

Learned == [none |-> FALSE, unsupported |-> {}]

\* What is known after it, and whether another try can help.
learn(known, err, withTools) ==
    IF withTools /\ toolsNeedNoReasoning(err) THEN [known |-> [known EXCEPT !.none = TRUE], again |-> TRUE]
    ELSE [known |-> [known EXCEPT !.unsupported = @ \cup rejectedParam(err)], again |-> rejectedParam(err) # {}]
-----------------------------------------------------------------------------
(* The body of chat(), and the settings of an agent's turn *)

Given(condition, param) == IF condition THEN {param} ELSE {}

send(provider, req, known) ==
    LET own == IF provider = "openai"
               THEN Given(req.cacheKey, "prompt_cache_key") \cup Given(req.effort # "unset", "reasoning_effort")
               ELSE {"usage"} \cup Given(req.sort, "provider") \cup Given(req.effort # "unset", "reasoning")
        body == {"max_tokens"} \cup Given(req.tools, "tools") \cup Given(req.temperature, "temperature") \cup own
    IN  (body \cup Given(req.tools /\ known.none, "reasoning_effort")) \ known.unsupported

\* An effort that is refused goes under both of its names.
withoutParams(settings, drop) ==
    settings \ (IF drop \cap {"reasoning", "reasoning_effort"} = {} THEN drop ELSE drop \cup {"reasoning", "reasoning_effort"})

agentRoute(provider, req) ==
    LET own == IF provider = "openai"
               THEN Given(req.cacheKey, "prompt_cache_key") \cup (IF req.responses THEN {"store", "include"} ELSE {})
               ELSE {"usage"} \cup Given(req.sort, "provider")
    IN  {"max_tokens"} \cup Given(req.effort # "unset", "reasoning") \cup own

Settings(provider, req) == agentRoute(provider, req) \cup {"parallel_tool_calls"}
WithoutReasoning(settings) == withoutParams(settings, {"reasoning"}) \cup {"reasoning_effort"}

\* The agent's own settings and the route's, the fix for tools, and without what
\* is refused.
prepareAgentRequest(provider, req, known) ==
    LET all == Settings(provider, req)
    IN  withoutParams(IF req.tools /\ known.none THEN WithoutReasoning(all) ELSE all, known.unsupported)
-----------------------------------------------------------------------------
(* Booking: a call fails, or is counted with the provider's own price, else  *)
(* an estimate, else none; a price is known or {}.                           *)

cost(call) == IF call.reported # {} THEN call.reported ELSE call.estimated
Amount(price) == IF price = {} THEN 0 ELSE CHOOSE n \in price : TRUE

NoStats == [calls |-> 0, failures |-> 0, tokens |-> 0, cost |-> 0]
bump(s, call) == IF call.fails THEN [s EXCEPT !.failures = @ + 1]
                 ELSE [s EXCEPT !.calls = @ + 1, !.tokens = @ + call.tokens, !.cost = @ + Amount(cost(call))]

getState(calls, provider) ==
    LET own == SelectSeq(calls, LAMBDA c : c.provider = provider)
        stats[n \in 0 .. Len(own)] == IF n = 0 THEN NoStats ELSE bump(stats[n - 1], own[n])
    IN  stats[Len(own)]
-----------------------------------------------------------------------------
(* What a reader relies on *)

\* What a model refused is not sent to it again, by an agent under no name at
\* all, and a request still says what it must: its room, its tools and, where
\* tools forbid reasoning, no effort but "none" (llm.service.ts,
\* agent-model.ts).
FixesHold(provider, req, known) ==
    LET body == send(provider, req, known)
        turn == prepareAgentRequest(provider, req, known)
    IN  /\ body \cap known.unsupported = {} /\ turn \cap known.unsupported = {}
        /\ known.unsupported \cap {"reasoning", "reasoning_effort"} # {} => turn \cap {"reasoning", "reasoning_effort"} = {}
        /\ "max_tokens" \in body \cap turn /\ (req.tools => "tools" \in body)
        /\ req.tools /\ known.none => "reasoning" \notin turn
        /\ Cardinality(turn \cap {"reasoning", "reasoning_effort"}) <= 1

\* Whatever a model refuses, one parameter at a time, is learned in as many
\* tries as it refuses parameters, and then it answers: a retry follows only
\* what can help, and a chat's cap of tries is never what ends it
\* (llm.service.ts, agent-model.ts).
LearningEnds(provider, req, refuses) ==
    LET bad(known) == prepareAgentRequest(provider, req, known) \cap refuses
        First(known) == CHOOSE p \in bad(known) : TRUE
        After(known) == learn(known, [status |-> 400, param |-> First(known), unsupported |-> TRUE, tools |-> FALSE], req.tools)
        known[n \in 0 .. Cardinality(refuses)] ==
            IF n = 0 THEN Learned ELSE IF bad(known[n - 1]) = {} THEN known[n - 1] ELSE After(known[n - 1]).known
        last == known[Cardinality(refuses)]
    IN  /\ bad(last) = {} /\ last.unsupported \subseteq refuses /\ Cardinality(refuses) <= 8
        /\ \A n \in DOMAIN known : bad(known[n]) # {} => After(known[n]).again

\* What the providers' statistics say was spent is what the calls came to, those
\* with no known price aside, and a failed call counts for nothing but a
\* failure, though several providers are tried for one answer (llm.service.ts).
BookedHolds(calls) ==
    LET Count(Is(_)) == Cardinality({i \in DOMAIN calls : Is(calls[i])})
        total(f) == getState(calls, "openai")[f] + getState(calls, "openrouter")[f]
        spent[n \in 0 .. Len(calls)] ==
            IF n = 0 THEN 0 ELSE spent[n - 1] + (IF calls[n].fails THEN 0 ELSE Amount(cost(calls[n])))
    IN  /\ total("calls") = Count(LAMBDA c : ~c.fails) /\ total("failures") = Count(LAMBDA c : c.fails)
        /\ total("cost") = spent[Len(calls)]
=============================================================================
