------------------------------ MODULE WebBench ------------------------------
(* The bench's web page around the run it shows (BenchRuns): App.tsx loads  *)
(* what the server offers, NewRun.tsx puts a run together, ModelPicker.tsx  *)
(* refreshes the models, Playground.tsx asks one question of several,       *)
(* History.tsx lists and deletes. Every answer of lib/api.ts may come late, *)
(* in another order, or as an error; lib/hooks.ts and the effects decide    *)
(* which still counts. Layout, estimates of time and texts are left out.    *)
EXTENDS Integers, Sequences, FiniteSets

CONSTANTS Files,      \* the datasets
          CasesOf,    \* of each dataset: its cases
          Tagged,     \* the cases that have the topic that can be chosen
          First,      \* the first dataset the server can run
          Earlier,    \* the dataset and the cases of a run to repeat
          Cap,        \* BENCH_MAX_CASE_RUNS
          MaxModels,  \* MAX_MODELS
          MaxCalls,   \* bound: requests of one kind
          MaxSent     \* bound: different runs started

VARIABLES form,    \* NewRun: what is chosen and what was loaded for it
          loads,   \* dataset requests under way: [file, live]
          usages,  \* requests for the latest run's use, by dataset and live
          sent,    \* the runs that were started
          picker,  \* the models' list: the latest request, the ones under way, what is shown
          play,    \* the playground: questions under way, shown, busy
          list     \* the history: the latest request, the ones under way, shown, the runs there are

webVars == <<form, loads, usages, sent, picker, play, list>>

Nowhere == "none"

WebAssumption == /\ {First, Earlier.file} \subseteq Files /\ \A f \in Files : IsFiniteSet(CasesOf[f])
                 /\ {MaxModels, MaxCalls} \subseteq Nat
Blank(prefill) == [file |-> IF prefill THEN Earlier.file ELSE First, prefill |-> prefill, cases |-> Nowhere, topic |-> FALSE, subset |-> {}, models |-> 0, repeats |-> 1,
                   starting |-> FALSE, error |-> FALSE, usageFrom |-> Nowhere]
Request(file) == [file |-> file, live |-> TRUE]
Dead(requests) == {[r EXCEPT !.live = FALSE] : r \in requests}
-----------------------------------------------------------------------------
(* api.ts: what a response means *)

\* status, whether the body is JSON, and whether it names issues.
outcome(status, json, issues) ==
    IF status = 204 THEN [ok |-> TRUE, says |-> "nothing"]
    ELSE IF ~json THEN [ok |-> FALSE, says |-> IF status \in 200 .. 299 THEN "not JSON" ELSE "status"]
    ELSE IF status \in 200 .. 299 THEN [ok |-> TRUE, says |-> "body"]
    ELSE [ok |-> FALSE, says |-> IF issues THEN "issues" ELSE "message"]
\* What the page shows instead of itself.
Gate(status) == IF status = 401 THEN "key" ELSE IF status = 404 THEN "off" ELSE "unreachable"
-----------------------------------------------------------------------------
(* The new run *)

Init == /\ form = Blank(FALSE)
        /\ loads = {Request(First)} /\ usages = {Request(First)} /\ sent = {}
        /\ picker = [latest |-> 0, open |-> {}, shown |-> 0]
        /\ play = [asked |-> 0, open |-> {}, shown |-> 0, busy |-> FALSE]
        /\ list = [latest |-> 1, open |-> {1}, shown |-> 0, loading |-> TRUE]

selected == IF form.cases = Nowhere THEN {}
            ELSE IF form.subset # {} THEN CasesOf[form.cases] \cap form.subset
            ELSE IF form.topic THEN CasesOf[form.cases] \cap Tagged ELSE CasesOf[form.cases]
Runs == Cardinality(selected) * form.repeats * form.models
Rest == UNCHANGED <<picker, play, list>>

\* The effect of a change of the dataset; answers for the one before no longer count.
ChooseFile(f) == /\ f # form.file /\ Cardinality(loads) < MaxCalls /\ Cardinality(usages) < MaxCalls
                 /\ form' = [form EXCEPT !.file = f, !.cases = Nowhere, !.topic = FALSE, !.usageFrom = Nowhere]
                 /\ loads' = Dead(loads) \cup {Request(f)} /\ usages' = Dead(usages) \cup {Request(f)}
                 /\ UNCHANGED sent /\ Rest

CasesAnswer(r) == /\ r \in loads /\ loads' = loads \ {r}
                  /\ form' = IF r.live THEN [form EXCEPT !.cases = r.file,
                                                         !.subset = IF form.prefill /\ Earlier.file = r.file THEN Earlier.cases ELSE {}]
                             ELSE form
                  /\ UNCHANGED <<usages, sent>> /\ Rest

CasesFail(r) == /\ r \in loads /\ loads' = loads \ {r}
                /\ form' = IF r.live THEN [form EXCEPT !.error = TRUE] ELSE form
                /\ UNCHANGED <<usages, sent>> /\ Rest

\* The list of runs and then the run itself: both must still be wanted.
UsageAnswers(r) == /\ r \in usages /\ usages' = usages \ {r}
                   /\ form' \in {form} \cup (IF r.live THEN {[form EXCEPT !.usageFrom = r.file]} ELSE {})
                   /\ UNCHANGED <<loads, sent>> /\ Rest

Edit == /\ form' \in {[form EXCEPT !.topic = ~@], [form EXCEPT !.subset = {}], [form EXCEPT !.repeats = 3 - @]}
                     \cup {[form EXCEPT !.models = n] : n \in {form.models - 1, form.models + 1} \cap (0 .. MaxModels)}
        /\ UNCHANGED <<loads, usages, sent>> /\ Rest

\* Without a filter no case is named: the server takes the whole dataset.
Start == /\ form.models > 0 /\ selected # {} /\ Runs <= Cap /\ ~form.starting /\ Cardinality(sent) < MaxSent
         /\ form' = [form EXCEPT !.starting = TRUE, !.error = FALSE]
         /\ sent' = sent \cup {[dataset |-> form.file, models |-> form.models, repeats |-> form.repeats, shown |-> Runs,
                                caseIds |-> IF form.subset # {} \/ form.topic THEN selected ELSE {}]}
         /\ UNCHANGED <<loads, usages>> /\ Rest

\* The form is left and come back to, for another run or to repeat one; what was
\* asked for it no longer counts.
Anew(prefill) == LET new == Blank(prefill)
                 IN  /\ form' = new /\ Cardinality(loads) < MaxCalls /\ Cardinality(usages) < MaxCalls
                     /\ loads' = Dead(loads) \cup {Request(new.file)} /\ usages' = Dead(usages) \cup {Request(new.file)}
                     /\ UNCHANGED sent /\ Rest
Started == form.starting /\ Anew(FALSE)
Rerun == ~form.starting /\ Anew(TRUE)
StartRefused == /\ form.starting /\ form' = [form EXCEPT !.starting = FALSE, !.error = TRUE]
                /\ UNCHANGED <<loads, usages, sent>> /\ Rest
-----------------------------------------------------------------------------
(* The models' list, the history and the playground *)

Aside == UNCHANGED <<form, loads, usages, sent>>
refreshModels == /\ picker.latest < MaxCalls
                 /\ picker' = [picker EXCEPT !.latest = @ + 1, !.open = @ \cup {picker.latest + 1}]
                 /\ Aside /\ UNCHANGED <<play, list>>
ModelsAnswer(i) == /\ i \in picker.open
                   /\ \E shown \in {i, picker.shown} :  \* an error leaves the list
                        picker' = [picker EXCEPT !.open = @ \ {i}, !.shown = IF i = picker.latest THEN shown ELSE @]
                   /\ Aside /\ UNCHANGED <<play, list>>

reload == /\ list.latest < MaxCalls
          /\ list' = [list EXCEPT !.latest = @ + 1, !.open = @ \cup {list.latest + 1}, !.loading = TRUE]
          /\ Aside /\ UNCHANGED <<picker, play>>
useAsync(i) == /\ i \in list.open
               /\ \E shown \in {i, list.shown} :
                    list' = IF i = list.latest THEN [list EXCEPT !.open = @ \ {i}, !.shown = shown, !.loading = FALSE]
                            ELSE [list EXCEPT !.open = @ \ {i}]
               /\ Aside /\ UNCHANGED <<picker, play>>

\* The button is off while a question is under way; the keys are not.
ask(keys) == /\ keys \/ ~play.busy
             /\ play.asked < MaxCalls
             /\ play' = [play EXCEPT !.asked = @ + 1, !.open = @ \cup {play.asked + 1}, !.busy = TRUE]
             /\ Aside /\ UNCHANGED <<picker, list>>
PlayAnswers(i) == /\ i \in play.open
                  /\ \E shown \in {i, play.shown} : play' = [play EXCEPT !.open = @ \ {i}, !.shown = shown, !.busy = FALSE]
                  /\ Aside /\ UNCHANGED <<picker, list>>

FormNext == \/ \E f \in Files : ChooseFile(f)
            \/ \E r \in loads : CasesAnswer(r) \/ CasesFail(r)
            \/ \E r \in usages : UsageAnswers(r)
            \/ Edit \/ Start \/ Started \/ Rerun \/ StartRefused
ListsNext == \/ refreshModels \/ reload \/ \E keys \in BOOLEAN : ask(keys)
             \/ \E i \in picker.open : ModelsAnswer(i)
             \/ \E i \in list.open : useAsync(i)
             \/ \E i \in play.open : PlayAnswers(i)
\* The form and the lists share nothing.
Next == FormNext \/ ListsNext
-----------------------------------------------------------------------------
TypeOK == /\ form.file \in Files /\ form.cases \in Files \cup {Nowhere} /\ form.models \in 0 .. MaxModels
          /\ \A r \in loads \cup usages : r.file \in Files
          /\ picker.shown \in 0 .. picker.latest /\ list.shown \in 0 .. list.latest /\ play.shown \in 0 .. play.asked

\* A run is what its page said when it was started: cases of the dataset it
\* names, as many as were shown and never over the server's limit; the cases and
\* the token use on the page are the chosen dataset's, however late the others
\* answer; and the history says that it loads exactly while its latest request
\* is under way (NewRun.tsx, hooks.ts).
RunsAsShown ==
    /\ \A s \in sent : /\ s.caseIds \subseteq CasesOf[s.dataset]
                       /\ s.shown <= Cap
                       /\ s.shown = s.models * s.repeats * Cardinality(IF s.caseIds = {} THEN CasesOf[s.dataset] ELSE s.caseIds)
    /\ form.cases \in {Nowhere, form.file} /\ form.usageFrom \in {Nowhere, form.file}
    /\ list.loading <=> list.latest \in list.open
=============================================================================
