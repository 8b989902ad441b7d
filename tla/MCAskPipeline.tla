--------------------------- MODULE MCAskPipeline ---------------------------
(* In scope "requests", the same question twice, once past the caches, over *)
(* one replacement of the data by data of another schema, one refresh and   *)
(* one fault, where the data is exchanged only while nothing is being opened *)
(* or introspected. In scope "reloads", the data's side without requests but *)
(* for ping(), in every interleaving of its own.                            *)
EXTENDS AskPipeline
CONSTANTS a1, r1, r2
VARIABLE scope

MCQuestionOf == [a \in Asks |-> "revenue"]
MCSchemaOf == [v \in 0 .. MaxVersion |-> IF v = 0 THEN "before" ELSE "after"]
MCTexts == {"good", "empty", "wrong"}

Quiet == \A i \in Promises : open[i].st \notin InOpen /\ load[i].st \notin InLoad
\* The bounds of scope "requests".
Calm == /\ mdf' # mdf \/ (\E r \in Refreshes : refresh[r].st = "idle" /\ refresh'[r].st # "idle") => Quiet
        /\ mdf' <= 1 /\ faults' <= 1

Bounded == (scope = "requests" => Calm) /\ UNCHANGED scope

mcvars == <<vars, scope>>
MCInit == Init /\ scope \in {"requests", "reloads"}
MCNext == /\ \/ scope = "requests" /\ Next
             \/ scope = "reloads" /\ SourceStep({}) /\ UNCHANGED askVars
          /\ Bounded
\* The fairness of FairSpec, within the bounds.
MCSpec == /\ MCInit /\ [][MCNext]_mcvars
          /\ WF_mcvars(SourceProgress /\ UNCHANGED askVars /\ Bounded)
          /\ \A a \in Asks : WF_mcvars(AskStep(a) /\ Bounded)
=============================================================================
