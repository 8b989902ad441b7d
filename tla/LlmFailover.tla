---------------------------- MODULE LlmFailover ----------------------------
(* llm/: one-shot chat() and the agent's FailoverAgentModel over the same  *)
(* providers: routes in order, a circuit breaker per provider, parameters  *)
(* a model rejects learned and dropped, and a mode switchable at runtime.  *)
(*                                                                         *)
(* A call to a provider is one Send and one answer; what the provider will *)
(* do is open: it answers, is down (an error worth failing over for),      *)
(* refuses the request, or refuses a droppable parameter. Each provider's  *)
(* model refuses a fixed set of parameters when it is sent one of them; a  *)
(* stubborn one refuses parameters whether they are sent or not. The fix   *)
(* "reasoning_effort none with tools", learned and applied in the same way *)
(* beside the droppable parameters, is left out; the SDK's own retries are *)
(* part of a call.                                                         *)
EXTENDS Integers, Sequences, FiniteSets, SequencesExt

CONSTANTS Configured,     \* the providers with a key, in the order of the map
          Params,         \* DROPPABLE_PARAMS
          AgentAttempts,  \* MAX_ATTEMPTS_PER_ROUTE
          Refuses,        \* parameters the model of each provider refuses when sent
          Stubborn,       \* providers that refuse parameters they were not sent
          Chats,          \* calls of chat()
          Agents,         \* agent runs, over a FailoverAgentModel
          Threshold,      \* LLM_BREAKER_THRESHOLD
          Cooldown,       \* LLM_BREAKER_COOLDOWN_MS
          MaxTime,        \* bound on the clock
          MaxTurns,       \* bound on the model calls of one agent run
          MaxSwitches     \* bound on mode switches

Providers == ToSet(Configured)
Requests == Chats \cup Agents

\* The sequences of providers a request may go through.
Routes == UNION {[1 .. n -> Providers] : n \in 1 .. Len(Configured)}

ASSUME BreakerAssumption == Threshold \in Nat \ {0} /\ Cooldown \in Nat \ {0}
ASSUME ProvidersAssumption == /\ Configured \in Seq(ToSet(Configured)) /\ Configured # <<>>
                              /\ "auto" \notin ToSet(Configured)
                              /\ Stubborn \subseteq Providers
ASSUME ParamsAssumption == /\ IsFiniteSet(Params)
                           /\ AgentAttempts \in Nat \ {0}
                           /\ Refuses \in [Providers -> SUBSET Params]
ASSUME RequestsAssumption == Chats \cap Agents = {}
ASSUME BoundsAssumption == MaxTime \in Nat

VARIABLES clock,
          mode, order,  \* LLM_PROVIDER and LLM_FALLBACK_ORDER, as switched
          breaker,      \* CircuitBreaker of each provider
          unsupported,  \* parameters learned to be refused, by provider
          req,          \* what each request is doing
          spoke,        \* history: providers whose output reached the client this turn
          switches

vars == <<clock, mode, order, breaker, unsupported, req, spoke, switches>>

Live == {"ready", "sent", "streaming"}
Ended == {"ok", "unavailable", "refused", "refusedParam", "aborted", "interrupted"}
Stages == {"idle"} \cup Live \cup Ended

Reqs == [stage : Stages, routes : Routes \cup {<<>>}, at : 1 .. Len(Configured),
         attempt : Nat, omitted : SUBSET Params, probe : BOOLEAN, turn : Nat]

TypeOK == /\ clock \in 0 .. MaxTime
          /\ mode \in Providers \cup {"auto"}
          /\ order \in Seq(Providers) \ {<<>>}
          /\ breaker \in [Providers -> [failures : Nat, openedAt : Nat]]
          /\ unsupported \in [Providers -> SUBSET Params]
          /\ req \in [Requests -> Reqs]
          /\ spoke \in [Requests -> SUBSET Providers]
          /\ switches \in Nat

Init == /\ clock = 0
        /\ mode = "auto"
        /\ order = Configured
        /\ breaker = [p \in Providers |-> [failures |-> 0, openedAt |-> 0]]
        /\ unsupported = [p \in Providers |-> {}]
        /\ req = [r \in Requests |-> [stage |-> "idle", routes |-> <<>>, at |-> 1,
                                      attempt |-> 0, omitted |-> {}, probe |-> FALSE, turn |-> 0]]
        /\ spoke = [r \in Requests |-> {}]
        /\ switches = 0
-----------------------------------------------------------------------------
(* CircuitBreaker *)

Tripped(p) == breaker[p].failures >= Threshold
CooledDown(p) == clock - breaker[p].openedAt >= Cooldown
IsOpen(p) == Tripped(p) /\ ~CooledDown(p)
HalfOpen(p) == Tripped(p) /\ CooledDown(p)

Success(p) == breaker' = [breaker EXCEPT ![p].failures = 0]

\* Failures are counted up to the threshold: beyond it more make no difference.
Failure(p) ==
    LET failures == IF Tripped(p) THEN Threshold ELSE breaker[p].failures + 1
    IN  breaker' = [breaker EXCEPT ![p].failures = failures,
                                   ![p].openedAt = IF failures = Threshold THEN clock ELSE @]
-----------------------------------------------------------------------------
(* candidates() and the start of a request *)

\* p comes before q: the order, then the configured providers it does not
\* name as they are configured.
Earlier(seq, p, q) == \E i, j \in DOMAIN seq : i < j /\ seq[i] = p /\ seq[j] = q

Before(p, q) == \/ Earlier(order, p, q)
                \/ p \in ToSet(order) /\ q \notin ToSet(order)
                \/ {p, q} \cap ToSet(order) = {} /\ Earlier(Configured, p, q)

\* Outside auto the one provider; in auto those whose breaker is not open,
\* and all of them when every one is.
Healthy == {p \in Providers : ~IsOpen(p)}
Eligible == IF mode # "auto" THEN {mode} ELSE IF Healthy = {} THEN Providers ELSE Healthy

\* candidates(): the eligible providers, in order.
Candidates == {s \in Routes : /\ ToSet(s) = Eligible
                              /\ Len(s) = Cardinality(Eligible)
                              /\ \A j, k \in DOMAIN s : j < k => Before(s[j], s[k])}

\* chat() and agentModel(): the routes are settled here, once for a whole run.
Start(r) == /\ req[r].stage = "idle"
            /\ \E s \in Candidates :
                  req' = [req EXCEPT ![r].stage = "ready", ![r].turn = 1, ![r].routes = s]
            /\ UNCHANGED <<clock, mode, order, breaker, unsupported, spoke, switches>>

\* The agent calls the model again (after its tools): the same routes, from
\* the first.
NextTurn(r) == /\ r \in Agents
               /\ req[r].stage = "ok"
               /\ req[r].turn < MaxTurns
               /\ req' = [req EXCEPT ![r].stage = "ready", ![r].at = 1, ![r].turn = @ + 1]
               /\ spoke' = [spoke EXCEPT ![r] = {}]
               /\ UNCHANGED <<clock, mode, order, breaker, unsupported, switches>>

Route(r) == req[r].routes[req[r].at]

\* send() / the adapter, without the parameters known to be refused.
Send(r) == /\ req[r].stage = "ready"
           /\ req' = [req EXCEPT ![r].stage = "sent",
                                 ![r].omitted = unsupported[Route(r)],
                                 ![r].probe = HalfOpen(Route(r))]
           /\ UNCHANGED <<clock, mode, order, breaker, unsupported, spoke, switches>>
-----------------------------------------------------------------------------
(* What comes back *)

Accepts(r) == Refuses[Route(r)] \subseteq req[r].omitted

\* The call is over; what was particular to its attempts is forgotten.
End(r, stage) == req' = [req EXCEPT ![r].stage = stage, ![r].attempt = 0,
                                    ![r].omitted = {}, ![r].probe = FALSE]

\* A streamed answer begins to reach the client.
Chunk(r) == /\ req[r].stage = "sent"
            /\ r \in Agents
            /\ Accepts(r)
            /\ req' = [req EXCEPT ![r].stage = "streaming"]
            /\ spoke' = [spoke EXCEPT ![r] = @ \cup {Route(r)}]
            /\ UNCHANGED <<clock, mode, order, breaker, unsupported, switches>>

\* The whole answer: the breaker closes, the caller goes on.
Answer(r) == /\ req[r].stage \in {"sent", "streaming"}
             /\ Accepts(r)
             /\ End(r, "ok")
             /\ Success(Route(r))
             /\ UNCHANGED <<clock, mode, order, unsupported, spoke, switches>>

\* Mutant: the failover runs off the end of the routes.
FailOverPastEnd(r) ==
    req' = [req EXCEPT ![r].stage = "ready", ![r].at = @ + 1,
                       ![r].attempt = 0, ![r].omitted = {}, ![r].probe = FALSE]

\* The next route, or the end of them.
FailOver(r) ==
    req' = [req EXCEPT ![r].stage = IF req[r].at < Len(req[r].routes) THEN "ready" ELSE "unavailable",
                       ![r].at = IF req[r].at < Len(req[r].routes) THEN @ + 1 ELSE @,
                       ![r].attempt = 0, ![r].omitted = {}, ![r].probe = FALSE]

\* Mutant: an answer that broke off half-way is asked of the next provider.
DownReplayed(r) == /\ req[r].stage \in {"sent", "streaming"}
                   /\ FailOver(r)
                   /\ Failure(Route(r))
                   /\ UNCHANGED <<clock, mode, order, unsupported, spoke, switches>>

\* Connection lost, timed out, 401, 429, 5xx: counted, and the next route.
Down(r) == /\ req[r].stage = "sent"
           /\ FailOver(r)
           /\ Failure(Route(r))
           /\ UNCHANGED <<clock, mode, order, unsupported, spoke, switches>>

\* The stream breaks after output: too late for another route. It counts
\* against the provider when the error is one worth failing over for.
BreaksOff(r) == /\ req[r].stage = "streaming"
                /\ End(r, "interrupted")
                /\ Failure(Route(r)) \/ UNCHANGED breaker
                /\ UNCHANGED <<clock, mode, order, unsupported, spoke, switches>>

\* Any other 4xx: the request is wrong, no other provider is tried.
Refuse(r) == /\ req[r].stage = "sent"
             /\ End(r, "refused")
             /\ UNCHANGED <<clock, mode, order, breaker, unsupported, spoke, switches>>

\* How many attempts after the first may follow a refused parameter.
Retries(r) == IF r \in Chats THEN Cardinality(Params) ELSE AgentAttempts - 1

\* Mutant: learn() says yes only when it learned something new.
MayRetryIfNew(r, x) == /\ req[r].attempt < Retries(r)
                       /\ x \notin unsupported[Route(r)]

\* Mutant: the count starts over with the request that leaves the parameter out.
AttemptsUncounted(r) == 0

AttemptsAfter(r) == req[r].attempt + 1

\* learn(): yes for a fix that is known already too, since a parallel call may
\* have learned it while this one was in flight. The cap is what stops.
MayRetry(r, x) == req[r].attempt < Retries(r)

\* A 400 that names a droppable parameter: recorded, and the same route again
\* without it. At the cap chat() gives up as on any 400 (and learns nothing).
RefuseParam(r) ==
    /\ req[r].stage = "sent"
    /\ \E x \in Params :
          /\ x \in Refuses[Route(r)] \ req[r].omitted \/ Route(r) \in Stubborn
          /\ IF MayRetry(r, x)
             THEN /\ req' = [req EXCEPT ![r].stage = "ready", ![r].attempt = AttemptsAfter(r),
                                         ![r].omitted = {}, ![r].probe = FALSE]
                  /\ unsupported' = [unsupported EXCEPT ![Route(r)] = @ \cup {x}]
             ELSE /\ End(r, "refusedParam")
                  /\ UNCHANGED unsupported
    /\ UNCHANGED <<clock, mode, order, breaker, spoke, switches>>

\* The client goes away: no provider is blamed.
Abort(r) == /\ r \in Agents
            /\ req[r].stage \in {"sent", "streaming"}
            /\ End(r, "aborted")
            /\ UNCHANGED <<clock, mode, order, breaker, unsupported, spoke, switches>>
-----------------------------------------------------------------------------
\* PUT of the mode, with or without a new order (which may name only some).
SetMode == /\ switches < MaxSwitches
           /\ switches' = switches + 1
           /\ mode' \in Providers \cup {"auto"}
           /\ order' \in {order, <<Last(order)>>}
           /\ UNCHANGED <<clock, breaker, unsupported, req, spoke>>

Advance == /\ clock < MaxTime
           /\ clock' = clock + 1
           /\ UNCHANGED <<mode, order, breaker, unsupported, req, spoke, switches>>

Response(r) == \/ Answer(r)
               \/ Down(r)
               \/ BreaksOff(r)
               \/ Refuse(r)
               \/ RefuseParam(r)

RequestStep(r) == Send(r) \/ Response(r)

Next == \/ \E r \in Requests : Start(r) \/ NextTurn(r) \/ RequestStep(r) \/ Chunk(r) \/ Abort(r)
        \/ SetMode
        \/ Advance

Spec == Init /\ [][Next]_vars

\* A call to a provider ends: with an answer, an error or LLM_TIMEOUT_MS.
Fairness == \A r \in Requests : WF_vars(RequestStep(r))

FairSpec == Spec /\ Fairness
-----------------------------------------------------------------------------
(* Properties *)

\* A model turn never mixes the output of two providers: once a streamed
\* answer has started, replaying it elsewhere would duplicate text.
OneVoice == \A r \in Requests : Cardinality(spoke[r]) <= 1

\* A request a provider would take without its droppable parameters is never
\* lost to one of them, however many requests learn the same fix at once.
\* (The agent's cap allows one parameter less than there are.)
DroppableIsNeverFatal ==
    \A r \in Requests :
        req[r].stage = "refusedParam" =>
            \/ Route(r) \in Stubborn
            \/ r \in Agents /\ Cardinality(Refuses[Route(r)]) >= AgentAttempts

\* Every request comes to an end, even with a provider that keeps refusing a
\* parameter it is no longer sent.
Settles == \A r \in Requests : req[r].stage = "ready" ~> req[r].stage \in Ended

\* "Half-open after cooldown: let one request probe the provider."
OneProbe ==
    \A p \in Providers :
        Cardinality({r \in Requests : req[r].stage = "sent" /\ req[r].probe /\ Route(r) = p}) <= 1

\* "While open, the provider is skipped in auto mode so a dead upstream does
\* not add its timeout to every request": a model call does not begin with a
\* provider whose breaker is open while another one's is closed.
OpenIsSkipped ==
    [][\A r \in Requests :
          /\ mode = "auto"
          /\ req[r].stage = "ready" /\ req'[r].stage = "sent"
          /\ req[r].at = 1 /\ req[r].attempt = 0
          => ~IsOpen(Route(r)) \/ \A p \in Providers : Tripped(p)]_vars
=============================================================================
