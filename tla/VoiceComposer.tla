---------------------------- MODULE VoiceComposer ----------------------------
(* lib/useVoice.ts and components/Composer.tsx of the phone app: a voice     *)
(* question beside a typed draft. Every await of start(), finish() and       *)
(* cancel() ends a step; a take is one recording, a draft is text or photo,  *)
(* known by its number. A recording that is prepared is a file of its own,   *)
(* which the recorder then names. Levels, sounds and layout are left out.    *)
EXTENDS Integers, Sequences, FiniteSets

CONSTANTS MaxStarts, MaxDrafts, MaxEnds \* calls of start(), drafts, calls of finish() and cancel()

BoundsAssumption == {MaxStarts, MaxDrafts, MaxEnds} \subseteq Nat \ {0}

VARIABLES mic,       \* state
          starts,    \* of each call of start(): its step, and whether it overlapped no
                     \* other and prepared its take with no finish() under way
          ends,      \* the calls of finish() and cancel(): step, take, whether it was long
                     \* enough, the draft they saw, and whether they clear the draft
          take, on,  \* the recorder's: the start() that prepared its file, is it recording
          long,      \* the take has half a second, and may have MAX_RECORDING_MS
          finishing,
          draft, drafts,
          picking,   \* attach() waits for a photo
          busy,      \* an answer is pending
          sent,      \* given to onSend: a take (0: none), the one finish() was called of,
                     \* and a draft
          dropped    \* takes cancelled while they were recorded, before finish() was called

voiceVars == <<mic, starts, ends, take, on, long, finishing>>
draftVars == <<draft, drafts, picking, busy>>
vars == <<voiceVars, draftVars, sent, dropped>>

NoDraft == 0
Recording == mic \in {"starting", "recording"}
Ended(how) == [how : {how}, st : {"stopping", "releasing", "over"}, take : 0 .. MaxStarts,
               long : BOOLEAN, draft : 0 .. MaxDrafts, clears : BOOLEAN]

TypeOK ==
    /\ mic \in {"idle", "starting", "recording", "denied"}
    /\ starts \in Seq([st : {"permission", "preparing", "prepared", "over"}, own : BOOLEAN]) /\ Len(starts) <= MaxStarts
    /\ ends \in Seq(Ended("finish") \cup Ended("cancel")) /\ Len(ends) <= MaxEnds
    /\ take \in 0 .. MaxStarts /\ {on, long, finishing, picking, busy} \subseteq BOOLEAN
    /\ draft \in 0 .. MaxDrafts /\ drafts \in 0 .. MaxDrafts
    /\ sent \in Seq([take : 0 .. MaxStarts, of : 0 .. MaxStarts, draft : 0 .. MaxDrafts])
    /\ dropped \subseteq 1 .. MaxStarts

Init == /\ mic = "idle" /\ starts = <<>> /\ ends = <<>> /\ take = 0 /\ on = FALSE /\ long = FALSE
        /\ finishing = FALSE /\ draft = NoDraft /\ drafts = 0 /\ picking = FALSE /\ busy = FALSE
        /\ sent = <<>> /\ dropped = {}
-----------------------------------------------------------------------------
(* start() *)

UnderWay(c) == starts[c].st # "over"
StartStep(c, st) == starts' = [starts EXCEPT ![c].st = st]

Mic == /\ ~Recording /\ ~busy /\ draft = NoDraft /\ Len(starts) < MaxStarts
       /\ starts' = Append([c \in DOMAIN starts |-> [starts[c] EXCEPT !.own = @ /\ ~UnderWay(c)]],
                           [st |-> "permission", own |-> \A c \in DOMAIN starts : ~UnderWay(c)])
       /\ UNCHANGED <<mic, ends, take, on, long, finishing, draftVars, sent, dropped>>

Asked(c) == /\ starts[c].st = "permission"
            /\ \/ mic' = "denied" /\ StartStep(c, "over")
               \/ mic' = "starting" /\ StartStep(c, "preparing")
            /\ UNCHANGED <<ends, take, on, long, finishing, draftVars, sent, dropped>>

Finishing == \E e \in DOMAIN ends : ends[e].how = "finish" /\ ends[e].st # "over"

\* prepareToRecordAsync(): a new file; the start chirp is waited for.
Prepared(c) == /\ starts[c].st = "preparing"
               /\ starts' = [starts EXCEPT ![c] = [st |-> "prepared", own |-> @.own /\ ~Finishing]]
               /\ take' = c /\ on' = FALSE /\ long' = FALSE
               /\ UNCHANGED <<mic, ends, finishing, draftVars, sent, dropped>>

\* A cancel() meanwhile does not stop it.
Record(c) == /\ starts[c].st = "prepared" /\ StartStep(c, "over")
             /\ mic' = "recording" /\ on' = TRUE /\ finishing' = FALSE
             /\ UNCHANGED <<ends, take, long, draftVars, sent, dropped>>

\* The recorder cannot be prepared or started: the screen stays as it is.
CannotRecord(c) == /\ starts[c].st \in {"preparing", "prepared"} /\ StartStep(c, "over")
                   /\ UNCHANGED <<mic, ends, take, on, long, finishing, draftVars, sent, dropped>>

TimePasses == /\ on /\ ~long
              /\ long' = TRUE
              /\ UNCHANGED <<mic, starts, ends, take, on, finishing, draftVars, sent, dropped>>

DismissDenied == /\ mic = "denied" /\ mic' = "idle"
                 /\ UNCHANGED <<starts, ends, take, on, long, finishing, draftVars, sent, dropped>>
-----------------------------------------------------------------------------
(* finish() and cancel() *)

Call(how, clears) == [how |-> how, st |-> "stopping", take |-> take, long |-> long, draft |-> draft, clears |-> clears]

\* Mutant: finish() relies on the state of the last render.
FinishAnyway(clears) == /\ ends' = Append(ends, Call("finish", clears))
                        /\ finishing' = TRUE
                        /\ UNCHANGED draft

\* A call that finds another one returns at once, to a caller that may clear the draft.
Finish(clears) == /\ finishing' = TRUE
                  /\ IF finishing
                     THEN draft' = (IF clears THEN NoDraft ELSE draft) /\ UNCHANGED ends
                     ELSE ends' = Append(ends, Call("finish", clears)) /\ UNCHANGED draft

\* The send button, and the effect that ends a recording of MAX_RECORDING_MS.
SendRecording == /\ mic = "recording" /\ ~busy /\ Len(ends) < MaxEnds
                 /\ Finish(TRUE)
                 /\ UNCHANGED <<mic, starts, take, on, long, drafts, picking, busy, sent, dropped>>

TooLong == /\ mic = "recording" /\ long /\ Len(ends) < MaxEnds
           /\ Finish(FALSE)
           /\ UNCHANGED <<mic, starts, take, on, long, drafts, picking, busy, sent, dropped>>

Cancel == /\ Recording /\ Len(ends) < MaxEnds
          /\ ends' = Append(ends, Call("cancel", FALSE))
          /\ dropped' = IF on /\ ~finishing THEN dropped \cup {take} ELSE dropped
          /\ finishing' = TRUE
          /\ UNCHANGED <<mic, starts, take, on, long, draftVars, sent>>

\* recorder.stop() is over, or failed, which only cancel() accepts. A recording
\* that began after the call may have been stopped by it or not.
Stopped(e) == /\ ends[e].st = "stopping"
              /\ on' \in {FALSE, on /\ take # ends[e].take}
              /\ \/ ends' = [ends EXCEPT ![e].st = "releasing"] /\ mic' = "idle"
                 \/ /\ ends[e].how = "finish"
                    /\ ends' = [ends EXCEPT ![e].st = "over"] /\ UNCHANGED mic
              /\ UNCHANGED <<starts, take, long, finishing, draftVars, sent, dropped>>

\* onFinished(), with the recorder's file of now, and the draft and the length of
\* the render that finish() is of.
Released(e) == /\ ends[e].st = "releasing"
               /\ ends' = [ends EXCEPT ![e].st = "over"]
               /\ IF ends[e].how = "finish" /\ ends[e].long /\ take # 0
                  THEN sent' = Append(sent, [take |-> take, of |-> ends[e].take, draft |-> ends[e].draft]) /\ busy' = TRUE
                  ELSE UNCHANGED <<sent, busy>>
               /\ draft' = IF ends[e].clears THEN NoDraft ELSE draft
               /\ UNCHANGED <<mic, starts, take, on, long, finishing, drafts, picking, dropped>>
-----------------------------------------------------------------------------
(* The draft *)

\* Drafts count with the starts (bound).
Type == /\ ~Recording /\ drafts < MaxDrafts /\ drafts + Len(starts) < MaxStarts
        /\ drafts' = drafts + 1 /\ draft' = drafts + 1
        /\ UNCHANGED <<voiceVars, picking, busy, sent, dropped>>

Attach == /\ ~Recording /\ ~busy /\ ~picking /\ drafts < MaxDrafts /\ drafts + Len(starts) < MaxStarts
          /\ picking' = TRUE
          /\ UNCHANGED <<voiceVars, draft, drafts, busy, sent, dropped>>

Picked == /\ picking
          /\ picking' = FALSE
          /\ \/ drafts < MaxDrafts /\ drafts' = drafts + 1 /\ draft' = drafts + 1
             \/ UNCHANGED <<draft, drafts>>
          /\ UNCHANGED <<voiceVars, busy, sent, dropped>>

Send == /\ ~Recording /\ draft # NoDraft /\ ~busy
        /\ sent' = Append(sent, [take |-> 0, of |-> 0, draft |-> draft]) /\ draft' = NoDraft /\ busy' = TRUE
        /\ UNCHANGED <<voiceVars, drafts, picking, dropped>>

Answered == /\ busy /\ busy' = FALSE
            /\ UNCHANGED <<voiceVars, draft, drafts, picking, sent, dropped>>

Next == \/ Mic \/ TimePasses \/ DismissDenied \/ SendRecording \/ TooLong \/ Cancel
        \/ Type \/ Attach \/ Picked \/ Send \/ Answered
        \/ \E c \in DOMAIN starts : Asked(c) \/ Prepared(c) \/ Record(c) \/ CannotRecord(c)
        \/ \E e \in DOMAIN ends : Stopped(e) \/ Released(e)

Spec == Init /\ [][Next]_vars
-----------------------------------------------------------------------------
(* A recording is sent once, although the button and the two-minute limit   *)
(* may end it at the same time, by the call that ended it, and never after it *)
(* was thrown away, unless a second press of the microphone overlapped its   *)
(* own or it was prepared while the one before was still being ended: the    *)
(* file sent is then the recorder's, which may be another take (useVoice.ts, *)
(* finish).                                                                  *)
TakesSentOnce ==
    \A i \in DOMAIN sent :
        LET t == sent[i].take
        IN  t # 0 /\ starts[t].own =>
                /\ sent[i].of = t /\ t \notin dropped
                /\ \A j \in DOMAIN sent : sent[j].take = t => i = j
=============================================================================
