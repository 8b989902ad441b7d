------------------------- MODULE LlmFailoverProofs -------------------------
(* Proofs about llm/, for any providers and order of them, any droppable   *)
(* parameters, thresholds and cooldowns, and any number of requests.       *)
EXTENDS LlmFailover, TLAPS, FiniteSetTheorems

\* A provider whose model is not stubborn is only ever learned to refuse
\* what it refuses.
Learned == \A p \in Providers \ Stubborn : unsupported[p] \subseteq Refuses[p]

\* A request that has begun stands on one of its routes.
Routed(r) == req[r].stage # "idle" => req[r].routes \in Routes /\ req[r].at <= Len(req[r].routes)

\* Attempts are counted within a call, from zero.
Fresh(r) == /\ req[r].stage = "idle" => req[r].at = 1
            /\ req[r].stage \notin Live => req[r].attempt = 0

\* Nothing is said before an answer begins, and then by the route's provider.
Spoken(r) == IF req[r].stage \in {"idle", "ready", "sent"}
             THEN spoke[r] = {}
             ELSE spoke[r] \subseteq {Route(r)}

\* Every attempt after the first has taught a parameter of its own, and the
\* request goes out without all of them.
Counted(r) ==
    req[r].stage \in {"ready", "sent"} /\ Route(r) \notin Stubborn =>
       /\ req[r].stage = "ready" => req[r].attempt <= Cardinality(unsupported[Route(r)])
       /\ req[r].stage = "sent" => /\ req[r].omitted \subseteq unsupported[Route(r)]
                                   /\ req[r].attempt <= Cardinality(req[r].omitted)

NotFatal(r) ==
    req[r].stage = "refusedParam" =>
        \/ Route(r) \in Stubborn
        \/ r \in Agents /\ Cardinality(Refuses[Route(r)]) >= AgentAttempts

Local(r) == Routed(r) /\ Fresh(r) /\ Spoken(r) /\ Counted(r) /\ NotFatal(r)

Inv == TypeOK /\ Learned /\ \A r \in Requests : Local(r)
-----------------------------------------------------------------------------
(* Routes and parameters *)

LEMMA ConfiguredType == Configured \in Seq(Providers) /\ Len(Configured) \in Nat \ {0}
BY ProvidersAssumption DEF Providers

LEMMA RoutesType ==
    ASSUME NEW s \in Routes
    PROVE  Len(s) \in 1 .. Len(Configured) /\ s \in [1 .. Len(s) -> Providers]
BY ConfiguredType DEF Routes

LEMMA RouteType ==
    ASSUME TypeOK, NEW r \in Requests, Routed(r), req[r].stage # "idle"
    PROVE  Route(r) \in Providers
<1>1. req[r].at \in 1 .. Len(req[r].routes)
  BY ConfiguredType, RoutesType DEF TypeOK, Reqs, Routed
<1> QED
  BY <1>1, RoutesType DEF Route, Routed

\* Sets of parameters are finite, so they can be counted and compared.
LEMMA ParamsCount ==
    ASSUME NEW S \in SUBSET Params
    PROVE  /\ IsFiniteSet(S) /\ Cardinality(S) \in Nat
           /\ \A T \in SUBSET S : Cardinality(T) <= Cardinality(S)
           /\ \A x \in Params \ S : Cardinality(S \cup {x}) = Cardinality(S) + 1
<1>1. IsFiniteSet(S)
  BY FS_Subset, ParamsAssumption
<1>2. Cardinality(S) \in Nat
  BY <1>1, FS_CardinalityType
<1>3. \A T \in SUBSET S : Cardinality(T) <= Cardinality(S)
  BY <1>1, FS_Subset
<1>4. \A x \in Params \ S : Cardinality(S \cup {x}) = Cardinality(S) + 1
  BY <1>1, FS_AddElement
<1> QED
  BY <1>1, <1>2, <1>3, <1>4

LEMMA RetriesType == \A r \in Requests : Retries(r) \in Nat
<1>1. Cardinality(Params) \in Nat
  BY ParamsCount
<1> QED
  BY <1>1, ParamsAssumption DEF Retries

LEMMA StagesType == /\ "idle" \in Stages /\ Live \subseteq Stages /\ Ended \subseteq Stages
                    /\ {"ready", "sent", "streaming"} \subseteq Stages
BY DEF Stages, Live

\* A request that takes other values of its fields is still a request.
LEMMA ReqType ==
    ASSUME req \in [Requests -> Reqs], NEW r \in Requests, NEW e \in Reqs,
           req' = [req EXCEPT ![r] = e]
    PROVE  req' \in [Requests -> Reqs] /\ req'[r] = e /\ \A q \in Requests \ {r} : req'[q] = req[q]
OBVIOUS
-----------------------------------------------------------------------------
(* A step of one request leaves the others where they were: what they have *)
(* learned can only have grown.                                            *)

LEMMA Others ==
    ASSUME TypeOK, TypeOK', NEW q \in Requests, Local(q),
           req'[q] = req[q], spoke'[q] = spoke[q],
           \A p \in Providers : unsupported[p] \subseteq unsupported'[p]
    PROVE  Local(q)'
<1>1. Route(q)' = Route(q)
  BY DEF Route
<1>2. Routed(q)' /\ Fresh(q)' /\ Spoken(q)' /\ NotFatal(q)'
  BY <1>1 DEF Local, Routed, Fresh, Spoken, NotFatal
<1>3. Counted(q)'
  <2> SUFFICES ASSUME req[q].stage \in {"ready", "sent"}, Route(q) \notin Stubborn
               PROVE  Counted(q)'
    BY <1>1 DEF Counted
  <2>1. Route(q) \in Providers
    BY RouteType DEF Local
  <2> DEFINE U == unsupported[Route(q)]
             V == unsupported'[Route(q)]
  <2>2. U \in SUBSET Params /\ V \in SUBSET Params /\ U \subseteq V
    BY <2>1 DEF TypeOK
  <2>3. Cardinality(U) \in Nat /\ Cardinality(V) \in Nat /\ Cardinality(U) <= Cardinality(V)
    BY <2>2, ParamsCount
  <2>4. req[q].attempt \in Nat
    BY DEF TypeOK, Reqs
  <2>5. req[q].stage = "ready" => req[q].attempt <= Cardinality(V)
    BY <2>3, <2>4 DEF Local, Counted
  <2>6. req[q].stage = "sent" => /\ req[q].omitted \subseteq V
                                 /\ req[q].attempt <= Cardinality(req[q].omitted)
    BY <2>2 DEF Local, Counted
  <2> QED
    BY <1>1, <2>5, <2>6 DEF Counted
<1> QED
  BY <1>2, <1>3 DEF Local

LEMMA OneRequest ==
    ASSUME Inv, TypeOK', NEW r \in Requests,
           \A q \in Requests \ {r} : req'[q] = req[q] /\ spoke'[q] = spoke[q],
           \A p \in Providers : unsupported[p] \subseteq unsupported'[p],
           Learned', Local(r)'
    PROVE  Inv'
<1>1. ASSUME NEW q \in Requests \ {r}
      PROVE  Local(q)'
  BY <1>1, Others DEF Inv
<1> QED
  BY <1>1 DEF Inv
-----------------------------------------------------------------------------
(* The actions *)

LEMMA InitInv == Init => Inv
<1> SUFFICES ASSUME Init PROVE Inv
  OBVIOUS
<1>1. TypeOK
  BY ConfiguredType, BoundsAssumption, StagesType DEF Init, TypeOK, Reqs
<1>2. Learned
  BY DEF Init, Learned
<1>3. ASSUME NEW r \in Requests
      PROVE  Local(r)
  BY <1>3 DEF Init, Local, Routed, Fresh, Spoken, Counted, NotFatal, Live
<1> QED
  BY <1>1, <1>2, <1>3 DEF Inv

LEMMA StartInv ==
    ASSUME Inv, NEW r \in Requests, Start(r)
    PROVE  Inv'
<1>1. PICK s \in Routes :
         req' = [req EXCEPT ![r].stage = "ready", ![r].turn = 1, ![r].routes = s]
  BY DEF Start, Candidates
<1>2. req[r].stage = "idle" /\ req[r].attempt = 0 /\ req[r].at = 1
  BY DEF Start, Inv, Local, Fresh, Live
<1>3. TypeOK'
  <2> DEFINE e == [req[r] EXCEPT !.stage = "ready", !.turn = 1, !.routes = s]
  <2>1. req' = [req EXCEPT ![r] = e]
    BY <1>1
  <2>2. e \in Reqs
    BY StagesType DEF Inv, TypeOK, Reqs
  <2>3. req' \in [Requests -> Reqs]
    BY <2>1, <2>2, ReqType DEF Inv, TypeOK
  <2> QED
    BY <2>3 DEF Start, Inv, TypeOK
<1>4. Learned'
  BY DEF Start, Inv, Learned
<1>5. /\ req'[r].stage = "ready" /\ req'[r].attempt = 0
      /\ req'[r].at = 1 /\ req'[r].routes = s
  BY <1>1, <1>2 DEF Inv, TypeOK
<1>6. Routed(r)' /\ Fresh(r)'
  BY <1>1, <1>5, RoutesType DEF Routed, Fresh, Live
<1>7. Spoken(r)' /\ NotFatal(r)'
  BY <1>2, <1>5 DEF Start, Inv, Local, Spoken, NotFatal
<1>8. Counted(r)'
  <2>1. Route(r)' \in Providers
    BY <1>1, <1>5, RoutesType DEF Route
  <2>2. Cardinality(unsupported'[Route(r)']) \in Nat
    BY <1>3, <2>1, ParamsCount DEF TypeOK
  <2> QED
    BY <1>5, <2>2 DEF Counted
<1>9. Local(r)'
  BY <1>6, <1>7, <1>8 DEF Local
<1> QED
  BY <1>1, <1>3, <1>4, <1>9, OneRequest DEF Start, Inv, TypeOK

LEMMA NextTurnInv ==
    ASSUME Inv, NEW r \in Requests, NextTurn(r)
    PROVE  Inv'
<1>1. req[r].stage = "ok" /\ req[r].attempt = 0 /\ req[r].routes \in Routes
  BY DEF NextTurn, Inv, Local, Fresh, Routed, Live
<1>2. TypeOK'
  <2> DEFINE e == [req[r] EXCEPT !.stage = "ready", !.at = 1, !.turn = @ + 1]
  <2>1. req' = [req EXCEPT ![r] = e]
    BY DEF NextTurn, Inv, TypeOK
  <2>2. e \in Reqs
    <3>1. req[r].turn + 1 \in Nat /\ 1 \in 1 .. Len(Configured)
      BY ConfiguredType DEF Inv, TypeOK, Reqs
    <3> QED
      BY <3>1, StagesType DEF Inv, TypeOK, Reqs
  <2>3. req' \in [Requests -> Reqs]
    BY <2>1, <2>2, ReqType DEF Inv, TypeOK
  <2> QED
    BY <2>3 DEF NextTurn, Inv, TypeOK
<1>3. Learned'
  BY DEF NextTurn, Inv, Learned
<1>4. /\ req'[r].stage = "ready" /\ req'[r].attempt = 0 /\ req'[r].at = 1
      /\ req'[r].routes = req[r].routes /\ spoke'[r] = {}
  BY <1>1 DEF NextTurn, Inv, TypeOK
<1>5. Routed(r)' /\ Fresh(r)' /\ Spoken(r)' /\ NotFatal(r)'
  BY <1>1, <1>4, RoutesType DEF Routed, Fresh, Spoken, NotFatal, Live
<1>6. Counted(r)'
  <2>1. Route(r)' \in Providers
    BY <1>1, <1>4, RoutesType DEF Route
  <2>2. Cardinality(unsupported'[Route(r)']) \in Nat
    BY <1>2, <2>1, ParamsCount DEF TypeOK
  <2> QED
    BY <1>4, <2>2 DEF Counted
<1>7. Local(r)'
  BY <1>5, <1>6 DEF Local
<1> QED
  BY <1>2, <1>3, <1>7, OneRequest DEF NextTurn, Inv, TypeOK

LEMMA SendInv ==
    ASSUME Inv, NEW r \in Requests, Send(r)
    PROVE  Inv'
<1>1. Route(r) \in Providers
  BY RouteType DEF Send, Inv, Local
<1>2. TypeOK'
  <2> DEFINE e == [req[r] EXCEPT !.stage = "sent", !.omitted = unsupported[Route(r)],
                                 !.probe = HalfOpen(Route(r))]
  <2>1. req' = [req EXCEPT ![r] = e]
    BY DEF Send, Inv, TypeOK
  <2>2. HalfOpen(Route(r)) \in BOOLEAN /\ unsupported[Route(r)] \in SUBSET Params
    BY <1>1 DEF HalfOpen, Tripped, CooledDown, Inv, TypeOK
  <2>3. e \in Reqs
    BY <2>2, StagesType DEF Inv, TypeOK, Reqs
  <2>4. req' \in [Requests -> Reqs]
    BY <2>1, <2>3, ReqType DEF Inv, TypeOK
  <2> QED
    BY <2>4 DEF Send, Inv, TypeOK
<1>3. Learned'
  BY DEF Send, Inv, Learned
<1>4. /\ req[r].stage = "ready" /\ req'[r].stage = "sent"
      /\ req'[r].omitted = unsupported[Route(r)]
      /\ req'[r].attempt = req[r].attempt
      /\ req'[r].at = req[r].at /\ req'[r].routes = req[r].routes
  BY DEF Send, Inv, TypeOK
<1>5. Route(r)' = Route(r)
  BY <1>4 DEF Route
<1>6. Routed(r)' /\ Fresh(r)' /\ Spoken(r)' /\ NotFatal(r)'
  BY <1>4 DEF Send, Inv, Local, Routed, Fresh, Spoken, NotFatal, Live
<1>7. Counted(r)'
  BY <1>4, <1>5 DEF Send, Inv, Local, Counted
<1>8. Local(r)'
  BY <1>6, <1>7 DEF Local
<1> QED
  BY <1>2, <1>3, <1>8, OneRequest DEF Send, Inv, TypeOK
-----------------------------------------------------------------------------
(* What comes back                                                         *)

LEMMA SuccessType ==
    ASSUME TypeOK, NEW p \in Providers, Success(p)
    PROVE  breaker' \in [Providers -> [failures : Nat, openedAt : Nat]]
BY DEF Success, TypeOK

LEMMA FailureType ==
    ASSUME TypeOK, NEW p \in Providers, Failure(p)
    PROVE  breaker' \in [Providers -> [failures : Nat, openedAt : Nat]]
<1> DEFINE n == IF Tripped(p) THEN Threshold ELSE breaker[p].failures + 1
           t == IF n = Threshold THEN clock ELSE breaker[p].openedAt
           b == [[breaker[p] EXCEPT !.failures = n] EXCEPT !.openedAt = t]
<1>1. n \in Nat
  BY BreakerAssumption DEF TypeOK
<1>2. clock \in Nat /\ breaker[p].openedAt \in Nat
  BY BoundsAssumption DEF TypeOK
<1>3. t \in Nat
  BY <1>2
<1>4. b \in [failures : Nat, openedAt : Nat]
  BY <1>1, <1>3 DEF TypeOK
<1>5. breaker' = [breaker EXCEPT ![p] = b]
  BY DEF Failure, TypeOK
<1> QED
  BY <1>4, <1>5 DEF TypeOK

\* A call that is over: nothing is left to count, and what was said stays said.
LEMMA EndLocal ==
    ASSUME Inv, NEW r \in Requests, NEW stage \in Ended, End(r, stage),
           req[r].stage \in {"sent", "streaming"}, spoke' = spoke,
           stage = "refusedParam" =>
               \/ Route(r) \in Stubborn
               \/ r \in Agents /\ Cardinality(Refuses[Route(r)]) >= AgentAttempts
    PROVE  /\ req' \in [Requests -> Reqs] /\ Local(r)'
           /\ \A q \in Requests \ {r} : req'[q] = req[q]
<1> DEFINE e == [req[r] EXCEPT !.stage = stage, !.attempt = 0, !.omitted = {}, !.probe = FALSE]
<1>1. req' = [req EXCEPT ![r] = e]
  BY DEF End, Inv, TypeOK
<1>2. e \in Reqs
  BY StagesType DEF Inv, TypeOK, Reqs
<1>3. /\ req' \in [Requests -> Reqs] /\ req'[r] = e
      /\ \A q \in Requests \ {r} : req'[q] = req[q]
  BY <1>1, <1>2, ReqType DEF Inv, TypeOK
<1>4. /\ req'[r].stage = stage /\ req'[r].attempt = 0
      /\ req'[r].at = req[r].at /\ req'[r].routes = req[r].routes
  BY <1>3 DEF Inv, TypeOK, Reqs
<1>5. Route(r)' = Route(r)
  BY <1>4 DEF Route
<1>6. Routed(r)' /\ Fresh(r)'
  BY <1>4 DEF Inv, Local, Routed, Fresh, Ended
<1>7. Spoken(r)'
  BY <1>4, <1>5 DEF Inv, Local, Spoken, Ended
<1>8. Counted(r)' /\ NotFatal(r)'
  BY <1>4, <1>5 DEF Counted, NotFatal, Ended
<1> QED
  BY <1>3, <1>6, <1>7, <1>8 DEF Local

LEMMA ChunkInv ==
    ASSUME Inv, NEW r \in Requests, Chunk(r)
    PROVE  Inv'
<1>1. Route(r) \in Providers
  BY RouteType DEF Chunk, Inv, Local
<1> DEFINE e == [req[r] EXCEPT !.stage = "streaming"]
<1>2. req' = [req EXCEPT ![r] = e] /\ e \in Reqs
  BY StagesType DEF Chunk, Inv, TypeOK, Reqs
<1>3. req' \in [Requests -> Reqs] /\ req'[r] = e
  BY <1>2, ReqType DEF Inv, TypeOK
<1>4. TypeOK'
  BY <1>1, <1>3 DEF Chunk, Inv, TypeOK
<1>5. Learned'
  BY DEF Chunk, Inv, Learned
<1>6. /\ req[r].stage = "sent" /\ req'[r].stage = "streaming"
      /\ req'[r].at = req[r].at /\ req'[r].routes = req[r].routes
  BY <1>3 DEF Chunk, Inv, TypeOK, Reqs
<1>7. spoke[r] = {} /\ spoke'[r] = spoke[r] \cup {Route(r)}
  BY DEF Chunk, Inv, TypeOK, Local, Spoken
<1>8. Local(r)'
  <2>1. Route(r)' = Route(r)
    BY <1>6 DEF Route
  <2>2. Routed(r)' /\ Fresh(r)'
    BY <1>6 DEF Inv, Local, Routed, Fresh, Live
  <2>3. Spoken(r)' /\ Counted(r)' /\ NotFatal(r)'
    BY <1>6, <1>7, <2>1 DEF Spoken, Counted, NotFatal
  <2> QED
    BY <2>2, <2>3 DEF Local
<1> QED
  BY <1>4, <1>5, <1>8, OneRequest DEF Chunk, Inv, TypeOK

LEMMA AnswerInv ==
    ASSUME Inv, NEW r \in Requests, Answer(r)
    PROVE  Inv'
<1>1. req[r].stage \in {"sent", "streaming"} /\ End(r, "ok") /\ Success(Route(r))
  BY DEF Answer
<1>2. Route(r) \in Providers
  BY <1>1, RouteType DEF Inv, Local
<1>3. /\ req' \in [Requests -> Reqs] /\ Local(r)'
      /\ \A q \in Requests \ {r} : req'[q] = req[q]
  BY <1>1, EndLocal DEF Answer, Ended
<1>4. TypeOK'
  BY <1>1, <1>2, <1>3, SuccessType DEF Answer, Inv, TypeOK
<1>5. Learned'
  BY DEF Answer, Inv, Learned
<1> QED
  BY <1>3, <1>4, <1>5, OneRequest DEF Answer, Inv, TypeOK

LEMMA BreaksOffInv ==
    ASSUME Inv, NEW r \in Requests, BreaksOff(r)
    PROVE  Inv'
<1>1. req[r].stage = "streaming" /\ End(r, "interrupted")
  BY DEF BreaksOff
<1>2. Route(r) \in Providers
  BY <1>1, RouteType DEF Inv, Local
<1>3. /\ req' \in [Requests -> Reqs] /\ Local(r)'
      /\ \A q \in Requests \ {r} : req'[q] = req[q]
  BY <1>1, EndLocal DEF BreaksOff, Ended
<1>4. breaker' \in [Providers -> [failures : Nat, openedAt : Nat]]
  BY <1>2, FailureType DEF BreaksOff, Inv, TypeOK
<1>5. TypeOK'
  BY <1>3, <1>4 DEF BreaksOff, Inv, TypeOK
<1>6. Learned'
  BY DEF BreaksOff, Inv, Learned
<1> QED
  BY <1>3, <1>5, <1>6, OneRequest DEF BreaksOff, Inv, TypeOK

\* Refused for good, or the client gone: the call is over, nothing else changes.
LEMMA OverInv ==
    ASSUME Inv, NEW r \in Requests, Refuse(r) \/ Abort(r)
    PROVE  Inv'
<1>1. /\ req[r].stage \in {"sent", "streaming"}
      /\ UNCHANGED <<clock, mode, order, breaker, unsupported, spoke, switches>>
  BY DEF Refuse, Abort
<1>2. PICK stage \in {"refused", "aborted"} : End(r, stage)
  BY DEF Refuse, Abort
<1>3. /\ req' \in [Requests -> Reqs] /\ Local(r)'
      /\ \A q \in Requests \ {r} : req'[q] = req[q]
  BY <1>1, <1>2, EndLocal DEF Ended
<1>4. TypeOK'
  BY <1>1, <1>3 DEF Inv, TypeOK
<1>5. Learned'
  BY <1>1 DEF Inv, Learned
<1> QED
  BY <1>1, <1>3, <1>4, <1>5, OneRequest DEF Inv, TypeOK

\* The provider is down: the next route from its first attempt, or the end.
LEMMA DownInv ==
    ASSUME Inv, NEW r \in Requests, Down(r)
    PROVE  Inv'
<1>1. req[r].stage = "sent" /\ FailOver(r) /\ Failure(Route(r)) /\ spoke[r] = {}
  BY DEF Down, Inv, Local, Spoken
<1>2. Route(r) \in Providers
  BY <1>1, RouteType DEF Inv, Local
<1> DEFINE more == req[r].at < Len(req[r].routes)
           stage == IF more THEN "ready" ELSE "unavailable"
           at == IF more THEN req[r].at + 1 ELSE req[r].at
           e == [req[r] EXCEPT !.stage = stage, !.at = at,
                               !.attempt = 0, !.omitted = {}, !.probe = FALSE]
<1>3. /\ req[r].routes \in Routes /\ at \in 1 .. Len(Configured)
      /\ at \in 1 .. Len(req[r].routes)
  <2>1. req[r].routes \in Routes /\ req[r].at <= Len(req[r].routes)
    BY <1>1 DEF Inv, Local, Routed
  <2>2. Len(req[r].routes) \in 1 .. Len(Configured)
    BY <2>1, RoutesType
  <2>3. req[r].at \in 1 .. Len(Configured)
    BY DEF Inv, TypeOK, Reqs
  <2> QED
    BY <2>1, <2>2, <2>3, ConfiguredType
<1>4. stage \in Stages
  BY StagesType DEF Ended
<1>5. req' = [req EXCEPT ![r] = e]
  BY <1>1 DEF FailOver, Inv, TypeOK
<1> HIDE DEF at, stage
<1>6. e \in Reqs
  BY <1>3, <1>4 DEF Inv, TypeOK, Reqs
<1>7. /\ req' \in [Requests -> Reqs] /\ req'[r] = e
      /\ \A q \in Requests \ {r} : req'[q] = req[q]
  BY <1>5, <1>6, ReqType DEF Inv, TypeOK
<1>8. breaker' \in [Providers -> [failures : Nat, openedAt : Nat]]
  BY <1>1, <1>2, FailureType DEF Inv
<1>9. TypeOK'
  BY <1>7, <1>8 DEF Down, Inv, TypeOK
<1>10. Learned'
  BY DEF Down, Inv, Learned
<1>11. /\ req'[r].stage = stage /\ req'[r].attempt = 0
       /\ req'[r].at = at /\ req'[r].routes = req[r].routes
  BY <1>7 DEF Inv, TypeOK, Reqs
<1>12. stage \in {"ready", "unavailable"} /\ spoke'[r] = {}
  BY <1>1 DEF Down, stage
<1>13. Routed(r)' /\ Fresh(r)' /\ Spoken(r)' /\ NotFatal(r)'
  BY <1>3, <1>11, <1>12 DEF Routed, Fresh, Spoken, NotFatal
<1>14. Counted(r)'
  <2>1. Route(r)' \in Providers
    BY <1>3, <1>11, RoutesType DEF Route
  <2>2. Cardinality(unsupported'[Route(r)']) \in Nat
    BY <1>9, <2>1, ParamsCount DEF TypeOK
  <2> QED
    BY <1>11, <1>12, <2>2 DEF Counted
<1>15. Local(r)'
  BY <1>13, <1>14 DEF Local
<1> QED
  BY <1>7, <1>9, <1>10, <1>15, OneRequest DEF Down, Inv, TypeOK

\* The attempts already made plus this one are as many as the parameters it
\* went out without, and the one just refused.
LEMMA RefusedCount ==
    ASSUME Inv, NEW r \in Requests, req[r].stage = "sent", Route(r) \notin Stubborn,
           NEW x \in Refuses[Route(r)] \ req[r].omitted
    PROVE  /\ Route(r) \in Providers
           /\ req[r].omitted \cup {x} \subseteq unsupported[Route(r)] \cup {x}
           /\ req[r].omitted \cup {x} \subseteq Refuses[Route(r)]
           /\ req[r].attempt + 1 <= Cardinality(req[r].omitted \cup {x})
           /\ Cardinality(req[r].omitted \cup {x}) \in Nat
<1>1. Route(r) \in Providers
  BY RouteType DEF Inv, Local
<1> DEFINE O == req[r].omitted
<1>2. O \subseteq unsupported[Route(r)] /\ req[r].attempt <= Cardinality(O)
  BY DEF Inv, Local, Counted
<1>3. O \subseteq Refuses[Route(r)]
  BY <1>1, <1>2 DEF Inv, Learned
<1>4. O \in SUBSET Params /\ x \in Params \ O
  BY <1>1, <1>3, ParamsAssumption
<1>5. Cardinality(O) \in Nat /\ Cardinality(O \cup {x}) = Cardinality(O) + 1
  BY <1>4, ParamsCount
<1>6. req[r].attempt \in Nat
  BY DEF Inv, TypeOK, Reqs
<1> QED
  BY <1>1, <1>2, <1>3, <1>5, <1>6

\* Once more without the parameter.
LEMMA RetryInv ==
    ASSUME Inv, NEW r \in Requests, NEW x \in Params,
           req[r].stage = "sent",
           x \in Refuses[Route(r)] \ req[r].omitted \/ Route(r) \in Stubborn,
           req' = [req EXCEPT ![r].stage = "ready", ![r].attempt = AttemptsAfter(r),
                              ![r].omitted = {}, ![r].probe = FALSE],
           unsupported' = [unsupported EXCEPT ![Route(r)] = @ \cup {x}],
           UNCHANGED <<clock, mode, order, breaker, spoke, switches>>
    PROVE  Inv'
<1>1. Route(r) \in Providers
  BY RouteType DEF Inv, Local
<1> DEFINE e == [req[r] EXCEPT !.stage = "ready", !.attempt = AttemptsAfter(r),
                               !.omitted = {}, !.probe = FALSE]
<1>2. req' = [req EXCEPT ![r] = e]
  BY DEF Inv, TypeOK
<1>3. AttemptsAfter(r) = req[r].attempt + 1 /\ AttemptsAfter(r) \in Nat
  BY DEF AttemptsAfter, Inv, TypeOK, Reqs
<1>4. e \in Reqs
  BY <1>3, StagesType DEF Inv, TypeOK, Reqs
<1>5. /\ req' \in [Requests -> Reqs] /\ req'[r] = e
      /\ \A q \in Requests \ {r} : req'[q] = req[q]
  BY <1>2, <1>4, ReqType DEF Inv, TypeOK
<1>6. /\ unsupported' \in [Providers -> SUBSET Params]
      /\ \A p \in Providers : unsupported[p] \subseteq unsupported'[p]
      /\ unsupported'[Route(r)] = unsupported[Route(r)] \cup {x}
      /\ \A p \in Providers \ {Route(r)} : unsupported'[p] = unsupported[p]
  BY <1>1 DEF Inv, TypeOK
<1>7. TypeOK'
  BY <1>5, <1>6 DEF Inv, TypeOK
<1>8. Learned'
  BY <1>6 DEF Inv, Learned
<1>9. /\ req'[r].stage = "ready" /\ req'[r].attempt = req[r].attempt + 1
      /\ req'[r].at = req[r].at /\ req'[r].routes = req[r].routes
  BY <1>3, <1>5 DEF Inv, TypeOK, Reqs
<1>10. Route(r)' = Route(r)
  BY <1>9 DEF Route
<1>11. Routed(r)' /\ Fresh(r)' /\ Spoken(r)' /\ NotFatal(r)'
  BY <1>9 DEF Inv, Local, Routed, Fresh, Spoken, NotFatal, Live
<1>12. Counted(r)'
  <2> SUFFICES ASSUME Route(r) \notin Stubborn
               PROVE  req[r].attempt + 1 <= Cardinality(unsupported'[Route(r)])
    BY <1>9, <1>10 DEF Counted
  <2> DEFINE U == unsupported'[Route(r)]
             O == req[r].omitted \cup {x}
  <2>1. O \subseteq U /\ req[r].attempt + 1 <= Cardinality(O) /\ Cardinality(O) \in Nat
    BY <1>6, RefusedCount
  <2>2. U \in SUBSET Params
    BY <1>1, <1>6
  <2>3. Cardinality(O) <= Cardinality(U) /\ Cardinality(U) \in Nat
    BY <2>1, <2>2, ParamsCount
  <2>4. req[r].attempt \in Nat
    BY DEF Inv, TypeOK, Reqs
  <2> QED
    BY <2>1, <2>3, <2>4
<1>13. Local(r)'
  BY <1>11, <1>12 DEF Local
<1> QED
  BY <1>5, <1>6, <1>7, <1>8, <1>13, OneRequest

\* At the cap: a chat has then been refused more parameters than there are,
\* and an agent run as many as its cap.
LEMMA GiveUpInv ==
    ASSUME Inv, NEW r \in Requests, NEW x \in Params,
           req[r].stage = "sent",
           x \in Refuses[Route(r)] \ req[r].omitted \/ Route(r) \in Stubborn,
           ~MayRetry(r, x), End(r, "refusedParam"),
           UNCHANGED <<clock, mode, order, breaker, unsupported, spoke, switches>>
    PROVE  Inv'
<1>1. ASSUME Route(r) \notin Stubborn
      PROVE  r \in Agents /\ Cardinality(Refuses[Route(r)]) >= AgentAttempts
  <2> DEFINE O == req[r].omitted \cup {x}
             C == Refuses[Route(r)]
  <2>1. /\ Route(r) \in Providers /\ O \subseteq C
        /\ req[r].attempt + 1 <= Cardinality(O) /\ Cardinality(O) \in Nat
    BY <1>1, RefusedCount
  <2>2. C \in SUBSET Params
    BY <2>1, ParamsAssumption
  <2>3. Cardinality(O) <= Cardinality(C) /\ Cardinality(C) \in Nat
    BY <2>1, <2>2, ParamsCount
  <2>4. Cardinality(C) <= Cardinality(Params) /\ Cardinality(Params) \in Nat
    BY <2>2, ParamsCount
  <2>5. req[r].attempt \in Nat /\ Retries(r) \in Nat /\ req[r].attempt >= Retries(r)
    BY RetriesType DEF MayRetry, Inv, TypeOK, Reqs
  <2>6. Cardinality(C) >= Retries(r) + 1
    BY <2>1, <2>3, <2>5
  <2>7. r \notin Chats
    BY <2>3, <2>4, <2>6 DEF Retries
  <2>8. Retries(r) = AgentAttempts - 1
    BY <2>7 DEF Retries
  <2> QED
    BY <2>3, <2>6, <2>7, <2>8, ParamsAssumption DEF Requests
<1>2. /\ req' \in [Requests -> Reqs] /\ Local(r)'
      /\ \A q \in Requests \ {r} : req'[q] = req[q]
  BY <1>1, EndLocal DEF Ended
<1>3. TypeOK'
  BY <1>2 DEF Inv, TypeOK
<1>4. Learned'
  BY DEF Inv, Learned
<1> QED
  BY <1>2, <1>3, <1>4, OneRequest DEF Inv, TypeOK

LEMMA RefuseParamInv ==
    ASSUME Inv, NEW r \in Requests, RefuseParam(r)
    PROVE  Inv'
<1>1. PICK x \in Params :
         /\ x \in Refuses[Route(r)] \ req[r].omitted \/ Route(r) \in Stubborn
         /\ IF MayRetry(r, x)
            THEN /\ req' = [req EXCEPT ![r].stage = "ready", ![r].attempt = AttemptsAfter(r),
                                        ![r].omitted = {}, ![r].probe = FALSE]
                 /\ unsupported' = [unsupported EXCEPT ![Route(r)] = @ \cup {x}]
            ELSE /\ End(r, "refusedParam")
                 /\ UNCHANGED unsupported
  BY DEF RefuseParam
<1>2. req[r].stage = "sent" /\ UNCHANGED <<clock, mode, order, breaker, spoke, switches>>
  BY DEF RefuseParam
<1>3. CASE MayRetry(r, x)
  BY <1>1, <1>2, <1>3, RetryInv
<1>4. CASE ~MayRetry(r, x)
  BY <1>1, <1>2, <1>4, GiveUpInv
<1> QED
  BY <1>3, <1>4
-----------------------------------------------------------------------------
(* The invariant and what follows from it *)

\* Nothing a request depends on changes with the clock or the mode.
LEMMA AsideInv ==
    ASSUME Inv, SetMode \/ Advance \/ UNCHANGED vars
    PROVE  Inv'
<1>1. UNCHANGED <<breaker, unsupported, req, spoke>>
  BY DEF SetMode, Advance, vars
<1>2. TypeOK'
  <2>1. CASE SetMode
    <3>1. Len(order) \in 1 .. Len(order)
      BY DEF Inv, TypeOK
    <3>2. Last(order) \in Providers
      BY <3>1 DEF Last, Inv, TypeOK
    <3>3. <<Last(order)>> \in Seq(Providers) /\ Len(<<Last(order)>>) = 1
      BY <3>2
    <3>4. <<Last(order)>> # <<>>
      BY <3>3
    <3>5. order' \in Seq(Providers) \ {<<>>}
      BY <2>1, <3>3, <3>4 DEF SetMode, Inv, TypeOK
    <3> QED
      BY <2>1, <3>5 DEF SetMode, Inv, TypeOK
  <2>2. CASE Advance
    BY <2>2, BoundsAssumption DEF Advance, Inv, TypeOK
  <2>3. CASE UNCHANGED vars
    BY <2>3 DEF vars, Inv, TypeOK
  <2> QED
    BY <2>1, <2>2, <2>3
<1>3. Learned'
  BY <1>1 DEF Inv, Learned
<1>4. ASSUME NEW r \in Requests
      PROVE  Local(r)'
  BY <1>1, <1>2, <1>4, Others DEF Inv
<1> QED
  BY <1>2, <1>3, <1>4 DEF Inv

LEMMA StepInv == Inv /\ [Next]_vars => Inv'
<1> SUFFICES ASSUME Inv, [Next]_vars
             PROVE  Inv'
  OBVIOUS
<1>1. ASSUME NEW r \in Requests, Start(r)
      PROVE  Inv'
  BY <1>1, StartInv
<1>2. ASSUME NEW r \in Requests, NextTurn(r)
      PROVE  Inv'
  BY <1>2, NextTurnInv
<1>3. ASSUME NEW r \in Requests, Send(r)
      PROVE  Inv'
  BY <1>3, SendInv
<1>4. ASSUME NEW r \in Requests, Response(r)
      PROVE  Inv'
  BY <1>4, AnswerInv, DownInv, BreaksOffInv, OverInv, RefuseParamInv DEF Response
<1>5. ASSUME NEW r \in Requests, Chunk(r)
      PROVE  Inv'
  BY <1>5, ChunkInv
<1>6. ASSUME NEW r \in Requests, Abort(r)
      PROVE  Inv'
  BY <1>6, OverInv
<1> QED
  BY <1>1, <1>2, <1>3, <1>4, <1>5, <1>6, AsideInv DEF Next, RequestStep

\* The inductive invariant holds of every behaviour.
THEOREM Invariant == Spec => []Inv
BY InitInv, StepInv, PTL DEF Spec

\* Every variable keeps its type: a failover never leaves the routes.
THEOREM TypeCorrect == Spec => []TypeOK
<1>1. Inv => TypeOK
  BY DEF Inv
<1> QED
  BY <1>1, Invariant, PTL

\* No turn of an agent run mixes the output of two providers: a break is only
\* failed over when nothing of the answer has gone out.
THEOREM OneVoiceHolds == Spec => []OneVoice
<1>1. Inv => OneVoice
  <2> SUFFICES ASSUME Inv, NEW r \in Requests
               PROVE  Cardinality(spoke[r]) <= 1
    BY DEF OneVoice
  <2>1. spoke[r] = {} \/ spoke[r] = {Route(r)}
    BY DEF Inv, Local, Spoken
  <2>2. Cardinality({}) = 0
    BY FS_EmptySet
  <2>3. Cardinality({Route(r)}) = 1
    BY FS_Singleton
  <2> QED
    BY <2>1, <2>2, <2>3
<1> QED
  BY <1>1, Invariant, PTL

\* However many requests learn at once, none is lost to a parameter its
\* provider would do without: each refusal costs an attempt and settles one
\* parameter, and a chat's cap has room for all of them, an agent's for one
\* less than the cap.
THEOREM DroppableHolds == Spec => []DroppableIsNeverFatal
<1>1. Inv => DroppableIsNeverFatal
  BY DEF Inv, Local, NotFatal, DroppableIsNeverFatal
<1> QED
  BY <1>1, Invariant, PTL
=============================================================================
