---------------------------- MODULE ModelPrices ----------------------------
(* llm/model-pricing.service.ts, llm.types.ts, bench/models.service.ts and  *)
(* bench.dto.ts: the price list every call is priced with, the models a     *)
(* bench can compare and the names it gives them. Time passes in refresh    *)
(* intervals of a day; a price list is known by the day it was read on, and *)
(* may be without a price for the model of the calls (a new model, an entry *)
(* that is no number, an empty catalog).                                    *)
EXTENDS Integers, Sequences, FiniteSets, TLC
LOCAL INSTANCE SequencesExt

CONSTANTS MaxDay, MaxCalls  \* bounds: days, calls

PriceAssumption == MaxDay \in Nat

Never == -1

VARIABLES day,
          loadedAt,      \* when the last load began, or Never
          inflight,      \* a load is under way
          prices,        \* the day of the price list, or Never
          lacking,       \* the days whose list has no price for the model
          failed,        \* the days whose load failed
          calls          \* of each call: the day it ended, how far its price is, whether it did
                         \* not wait for a load under way, and the list it was priced by

priceVars == <<day, loadedAt, inflight, prices, lacking, failed, calls>>
-----------------------------------------------------------------------------
(* The price of a call, and the sum of a request's calls *)

\* A model with a date is priced as its alias; without a price for cached tokens
\* they cost in full.
estimate(priceOf, model, alias, tokens) ==
    LET price == IF priceOf[model].known THEN priceOf[model] ELSE priceOf[alias]
        cached == IF price.cacheKnown THEN price.cacheRead ELSE price.prompt
    IN  [known |-> price.known,
         cost |-> IF ~price.known THEN 0
                  ELSE (tokens.prompt - tokens.cached) * price.prompt + tokens.cached * cached
                       + tokens.completion * price.completion]

summary(used) ==
    [llmCalls |-> Len(used),
     costUsd |-> FoldSeq(LAMBDA c, sum : IF c.known THEN sum + c.cost ELSE sum, 0, used),
     costComplete |-> \A i \in DOMAIN used : used[i].known]

mergeUsage(a, b) == [llmCalls |-> a.llmCalls + b.llmCalls, costUsd |-> a.costUsd + b.costUsd,
                     costComplete |-> a.costComplete /\ b.costComplete]
-----------------------------------------------------------------------------
(* The models: OpenRouter's are [id, text, prompt, completion], a price     *)
(* being a number or -1; the account's are [id, chat, alias], "" for none.  *)

priceStatus(m) == IF m.prompt < 0 \/ m.completion < 0 THEN "unknown"
                  ELSE IF m.prompt = 0 /\ m.completion = 0 THEN "free" ELSE "paid"
tier(chosen, provider, id) == IF id = chosen[provider][1] THEN "fast"
                              ELSE IF id = chosen[provider][2] THEN "smart" ELSE "no"

\* With a key, what the server uses is listed even if the account does not list it.
openAiIds(account, keys, chosen) ==
    LET chat == {m \in account : m.chat}
    IN  {m.id : m \in {x \in chat : x.alias \notin {y.id : y \in chat}}}
        \cup (IF "openai" \in keys THEN {chosen["openai"][1], chosen["openai"][2]} ELSE {})

\* The routed name of an OpenAI model is its entry in the other catalog.
listed(router, account, routed, keys, chosen) ==
    {LET m == {r \in router : r.id = routed[id]}
     IN  [id |-> id, provider |-> "openai", available |-> "openai" \in keys, current |-> tier(chosen, "openai", id),
          priceStatus |-> IF m = {} THEN "unknown" ELSE priceStatus(CHOOSE r \in m : TRUE)]
        : id \in openAiIds(account, keys, chosen)}
    \cup {[id |-> r.id, provider |-> "openrouter", available |-> "openrouter" \in keys,
           current |-> tier(chosen, "openrouter", r.id), priceStatus |-> priceStatus(r)] : r \in {x \in router : x.text}}

\* What can be run comes first, of that what is in use.
Rank(m) == (IF m.available THEN 0 ELSE 2) + (IF m.current # "no" THEN 0 ELSE 1)
-----------------------------------------------------------------------------
(* A bench's variants: a model with an effort and perhaps a label *)

Base(m) == IF m.label # "" THEN <<m.label>> ELSE IF m.effort # "" THEN <<m.model, m.effort>> ELSE <<m.model>>
\* A name is <<base, number>>, the number shown from 2 on.
variantNames(models) ==
    [i \in DOMAIN models |-> <<Base(models[i]), Cardinality({j \in 1 .. i : Base(models[j]) = Base(models[i])})>>]

modelOverrides(m, features) ==
    [k \in {"provider", "fast", "smart"} |-> IF k = "provider" THEN m.provider ELSE m.model]
    @@ (IF m.effort = "" THEN <<>> ELSE [k \in {"effort", "agentEffort"} |-> m.effort])
    @@ features
-----------------------------------------------------------------------------
(* The price list *)

Init == /\ day = 0 /\ loadedAt = Never /\ inflight = FALSE /\ prices = Never
        /\ lacking = {} /\ failed = {} /\ calls = <<>>

Fresh == loadedAt # Never /\ day - loadedAt < 1

\* A call that ends asks for a price: with a list of today it looks at once,
\* also while that list is still being read.
Estimate == /\ Len(calls) < MaxCalls
            /\ calls' = Append(calls, [on |-> day, st |-> IF Fresh THEN "looks" ELSE "waits",
                                       early |-> Fresh /\ inflight, by |-> Never])
            /\ IF Fresh \/ inflight THEN UNCHANGED <<loadedAt, inflight>>
               ELSE loadedAt' = day /\ inflight' = TRUE
            /\ UNCHANGED <<day, prices, lacking, failed>>

Price(i) == /\ calls[i].st = "looks"
            /\ calls' = [calls EXCEPT ![i].st = IF prices = Never \/ prices \in lacking THEN "none" ELSE "priced",
                                      ![i].by = prices]
            /\ UNCHANGED <<day, loadedAt, inflight, prices, lacking, failed>>

Woken == [i \in DOMAIN calls |-> IF calls[i].st = "waits" THEN [calls[i] EXCEPT !.st = "looks"] ELSE calls[i]]

\* The list is replaced by what was read, whatever it lacks.
Loaded == /\ inflight /\ inflight' = FALSE
          /\ prices' = day /\ lacking' \in {lacking, lacking \cup {day}}
          /\ calls' = Woken
          /\ UNCHANGED <<day, loadedAt, failed>>

\* The list stays what it was, and is asked for again tomorrow.
LoadFails == /\ inflight /\ inflight' = FALSE
             /\ failed' = failed \cup {day}
             /\ calls' = Woken
             /\ UNCHANGED <<day, loadedAt, prices, lacking>>

\* A load takes seconds at most, so no day passes meanwhile.
DayPasses == /\ day < MaxDay /\ ~inflight /\ day' = day + 1
             /\ UNCHANGED <<loadedAt, inflight, prices, lacking, failed, calls>>

Next == Estimate \/ (\E i \in DOMAIN calls : Price(i)) \/ Loaded \/ LoadFails \/ DayPasses
-----------------------------------------------------------------------------
TypeOK == /\ day \in 0 .. MaxDay /\ loadedAt \in Never .. MaxDay /\ inflight \in BOOLEAN
          /\ prices \in Never .. MaxDay /\ lacking \subseteq 0 .. MaxDay /\ failed \subseteq 0 .. MaxDay
          /\ \A i \in DOMAIN calls : calls[i] \in [on : 0 .. MaxDay, st : {"looks", "waits", "none", "priced"},
                                                  early : BOOLEAN, by : Never .. MaxDay]

\* A call is priced by a list read on the day it ended or later, so at most a
\* refresh interval old, unless the list of that day could not be read or was
\* still being read and the call did not wait; and it is without a price only if
\* the list has none for its model or none was ever read. A call waits only for
\* a load that is under way (model-pricing.service.ts).
PricesStay ==
    \A i \in DOMAIN calls :
        /\ calls[i].st \in {"none", "priced"} =>
              calls[i].by >= calls[i].on \/ calls[i].early \/ calls[i].on \in failed
        /\ calls[i].st = "none" => calls[i].by = Never \/ calls[i].by \in lacking
        /\ calls[i].st = "waits" => inflight /\ loadedAt = day

\* Every model is listed once for each provider; none that cannot be run stands
\* before one that can; what the server uses is always there when it has the
\* key, and a dated snapshot never beside its alias (models.service.ts).
ListHolds(router, account, routed, keys, chosen) ==
    LET models == listed(router, account, routed, keys, chosen)
    IN  /\ \A a, b \in models : a.id = b.id /\ a.provider = b.provider => a = b
        /\ \A a, b \in models : Rank(a) < Rank(b) => a.available \/ ~b.available
        /\ "openai" \in keys => \A k \in 1 .. 2 : \E m \in models : m.id = chosen["openai"][k] /\ m.current # "no"
        /\ \A s \in account : s.chat /\ s.alias \in {a.id : a \in {x \in account : x.chat}} /\ s.id \notin {chosen["openai"][1], chosen["openai"][2]}
              => ~\E m \in models : m.id = s.id /\ m.provider = "openai"

\* The parts of a request (the recording, the photo, the questions) cost
\* together what all their calls cost, and the sum is called complete only if
\* each call had a price (llm.types.ts, media.service.ts).
UsageHolds(a, b) == /\ mergeUsage(summary(a), summary(b)) = summary(a \o b)
                    /\ summary(a).costComplete <=> Len(SelectSeq(a, LAMBDA c : ~c.known)) = 0

\* Models without labels have names of their own whatever is picked twice, and
\* each runs as itself in both tiers (bench.dto.ts).
NamesHold(models, features) ==
    /\ (\A i \in DOMAIN models : models[i].label = "") =>
          \A i, j \in DOMAIN models : variantNames(models)[i] = variantNames(models)[j] => i = j
    /\ \A i \in DOMAIN models : LET o == modelOverrides(models[i], features)
                                IN  o["fast"] = models[i].model /\ o["smart"] = models[i].model
=============================================================================
