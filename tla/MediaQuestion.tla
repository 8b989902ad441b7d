--------------------------- MODULE MediaQuestion ---------------------------
(* query/media.service.ts with transcriber.ts and language.ts: a request    *)
(* with a recording and/or a photo becomes the question that is asked. What *)
(* is typed, heard or read is a text: a name and its language; "none" is no *)
(* text. The providers' replies are part of the input; prices and waiting   *)
(* are left out, tokens are kept.                                           *)
EXTENDS Integers, Sequences, FiniteSets

NoText == [says |-> "none", in |-> "en"]
Silent == [says |-> "silence", in |-> "en"]
Has(text) == text.says \notin {"none", "silence"}
Langs == {"en", "ur", "ur-Latn"}
-----------------------------------------------------------------------------
(* The language of a text: its letters, those of the Arabic script, and its *)
(* Latin words as <<length, begins with a capital, in ROMAN_URDU>>.         *)

detectLanguage(letters, arabic, words) ==
    LET counted == {i \in DOMAIN words : words[i][1] > 1 /\ ~words[i][2]}
        hits == {i \in counted : words[i][3]}
    IN  IF letters > 0 /\ 10 * arabic >= 3 * letters THEN "ur"
        ELSE IF Cardinality(hits) >= 2 /\ 5 * Cardinality(hits) >= Cardinality(counted) THEN "ur-Latn" ELSE "en"
-----------------------------------------------------------------------------
(* Hearing: a provider's reply is "error", "refused" (a 400 about thinking)  *)
(* or [text, tokens]; each call is <<provider, the reply>>.                  *)

Reply(text, tokens) == [kind |-> "ok", text |-> text, tokens |-> tokens]
Fault(kind) == [kind |-> kind, text |-> NoText, tokens |-> 0]
Devanagari(reply) == reply.text.in = "hi"

\* A model that takes no thinking level is asked once more without it.
gemini(replies) ==
    LET calls == IF replies[1].kind = "refused" THEN <<replies[1], replies[2]>> ELSE <<replies[1]>>
        last == calls[Len(calls)]
    IN  [ok |-> last.kind = "ok", text |-> last.text, tokens |-> last.tokens, calls |-> calls]

\* Urdu written in Devanagari is asked for again, pinned to Urdu.
openai(replies) ==
    LET again == replies[1].kind = "ok" /\ Devanagari(replies[1])
        calls == IF again THEN <<replies[1], replies[2]>> ELSE <<replies[1]>>
        last == calls[Len(calls)]
    IN  [ok |-> last.kind = "ok", text |-> last.text, calls |-> calls,
         tokens |-> IF again THEN replies[1].tokens + last.tokens ELSE last.tokens]

transcribers(keys, mode) ==
    SelectSeq(IF mode = "openai" THEN <<"openai", "gemini">> ELSE <<"gemini", "openai">>, LAMBDA p : p \in keys)

hear(provider, replies) == IF provider = "gemini" THEN gemini(replies.gemini) ELSE openai(replies.openai)

\* The first that succeeds; what it heard may be nothing, and that is final.
transcribe(order, replies) ==
    LET good == {i \in DOMAIN order : hear(order[i], replies).ok}
        first == CHOOSE i \in good : \A j \in good : i <= j
        h == hear(order[first], replies)
    IN  IF good = {} THEN [code |-> "LLM_UNAVAILABLE", text |-> NoText, tokens |-> 0, by |-> Len(order)]
        ELSE [code |-> IF Has(h.text) THEN "ok" ELSE "EMPTY_AUDIO", text |-> h.text, tokens |-> h.tokens, by |-> first]
-----------------------------------------------------------------------------
(* Seeing: the vision model's reply is readable or not, with its question,  *)
(* the question to display and the one written in the image.                *)

readImage(reply) ==
    IF ~reply.readable \/ ~Has(reply.question) THEN [code |-> "IMAGE_UNCLEAR"]
    ELSE [code |-> "ok", question |-> reply.question, written |-> reply.written,
          display |-> IF Has(reply.display) THEN reply.display ELSE reply.question,
          language |-> IF reply.language \in {"ur", "ur-Latn"} THEN reply.language ELSE "en"]
-----------------------------------------------------------------------------
(* The question: the texts asked, the English one, and what it cost.        *)

Failed(code) == [code |-> code]
NoImage == [code |-> "ok", question |-> NoText, written |-> NoText, display |-> NoText, language |-> "en"]

\* The language of the first text stands for that of all the user sent.
AsUnderstood(typed, language, audio, image, heard, read, visionTokens) ==
    LET userText == SelectSeq(<<typed, heard.text>>, Has)
        written == IF userText = <<>> THEN read.written ELSE NoText
        lang == IF language # "auto" THEN language
                ELSE IF userText # <<>> THEN userText[1].in
                ELSE IF Has(written) THEN written.in
                ELSE IF image THEN read.language ELSE "en"
    IN  IF ~audio /\ ~image /\ ~Has(typed) THEN Failed("BAD_REQUEST")
        ELSE IF heard.code # "ok" THEN Failed(heard.code)
        ELSE IF read.code # "ok" THEN Failed(read.code)
        ELSE [code |-> "ok", language |-> lang,
              question |-> IF Has(written) THEN <<written>>
                           ELSE IF userText # <<>> THEN userText ELSE <<read.display>>,
              english |-> IF Has(written) THEN NoText ELSE read.question,
              noCache |-> image /\ ~Has(written),
              tokens |-> heard.tokens + (IF image THEN visionTokens ELSE 0)]

understand(typed, language, audio, image, replies, order) ==
    AsUnderstood(typed, language, audio, image,
                 IF audio THEN transcribe(order, replies) ELSE [code |-> "ok", text |-> NoText, tokens |-> 0, by |-> 0],
                 IF image THEN readImage(replies.vision) ELSE NoImage, replies.vision.tokens)

\* A part of the request is taken, or refused with its status.
readPart(field, type, types, size, limit) ==
    IF field \notin {"audio", "image"} THEN 400
    ELSE IF type \notin types[field] THEN 415
    ELSE IF size > limit[field] THEN 413 ELSE 200
-----------------------------------------------------------------------------
(* What a reader relies on *)

\* What is answered is the user's: everything typed and heard is asked, in that
\* order, and nothing read from the photo takes its place; a question is kept
\* from the caches exactly if the model's reading of a photo is part of it; once
\* a recording was heard, no other provider gets it, and what is reported as
\* used is all that the provider that heard it and the vision model took
\* (media.service.ts).
MediaHolds(typed, language, audio, image, replies, order) ==
    \A q \in {understand(typed, language, audio, image, replies, order)}, heard \in {transcribe(order, replies)} :
    LET calls == hear(order[heard.by], replies).calls
        paid == (IF audio THEN calls[1].tokens + (IF Len(calls) = 2 THEN calls[2].tokens ELSE 0) ELSE 0)
                + (IF image THEN replies.vision.tokens ELSE 0)
    IN  /\ q.code = "ok" =>
             /\ Has(typed) => q.question[1] = typed
             /\ audio => q.question[Len(q.question)] = heard.text
             /\ \A i \in DOMAIN q.question : Has(q.question[i])
             /\ (\E i \in DOMAIN q.question : q.question[i] \notin {typed, heard.text}) => ~Has(typed) /\ ~audio
             /\ q.noCache <=> Has(q.english)
             /\ q.language \in Langs
             /\ q.tokens = paid
        /\ q.code = "EMPTY_AUDIO" => audio /\ hear(order[heard.by], replies).text \in {Silent, NoText}
        /\ q.code = "LLM_UNAVAILABLE" => \A p \in {order[i] : i \in DOMAIN order} : ~hear(p, replies).ok

\* A language is told from ordinary words only: names, single letters and
\* figures, however many, never make a question Roman Urdu, and a mostly
\* Urdu-script text is Urdu whatever Latin words stand in it (language.ts).
LanguageHolds(letters, arabic, words) ==
    LET ordinary == SelectSeq(words, LAMBDA w : w[1] > 1 /\ ~w[2])
    IN  /\ detectLanguage(letters, arabic, words) \in Langs
        /\ 2 * arabic > letters => detectLanguage(letters, arabic, words) = "ur"
        /\ detectLanguage(letters, 0, words) = detectLanguage(letters, 0, ordinary)
        /\ (\A i \in DOMAIN ordinary : ordinary[i][3]) /\ Len(ordinary) > 1 => detectLanguage(letters, arabic, words) # "en"
=============================================================================
