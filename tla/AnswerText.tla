------------------------------ MODULE AnswerText ------------------------------
(* lib/markdown.ts: how the phone reads an answer's Markdown while it       *)
(* streams in. A text is a sequence of the characters "star", "low" (_),    *)
(* "tick", "slash" (the escape), "bar", " ", and "a" for all that mark      *)
(* nothing; a line is the set of its traits.                                *)
EXTENDS Integers, Sequences, SequencesExt, FiniteSetsExt

Marks == {"star", "low"}
At(text, i) == IF i \in DOMAIN text THEN text[i] ELSE " "
\* Where c is next from place i on, or 0.
IndexOf(text, c, i) == LET at == {j \in i .. Len(text) : text[j] = c} IN IF at = {} THEN 0 ELSE Min(at)
-----------------------------------------------------------------------------
(* Spans *)

isItalicMarker(text, i, open) ==
    LET before == At(text, i - 1)
        after == At(text, i + 1)
    IN  /\ ~(text[i] = "low" /\ before \in {"a", "low"} /\ after \in {"a", "low"})
        /\ IF open THEN before # " " ELSE after # " " /\ IndexOf(text, text[i], i + 1) # 0

flush(s) == IF s.buf = <<>> THEN s
            ELSE [s EXCEPT !.buf = <<>>, !.out = Append(@, [text |-> s.buf, bold |-> s.bold, italic |-> s.italic, code |-> FALSE])]

\* One character, unless an earlier one took it with it.
Scan(text, s, i) ==
    LET c == text[i]
        end == IndexOf(text, "tick", i + 1)
        after(t, k) == [t EXCEPT !.next = i + k]
        taken(k) == after([s EXCEPT !.buf = Append(@, text[i + k - 1])], k)
    IN  IF i < s.next THEN s
        ELSE IF c = "slash" /\ At(text, i + 1) \in {"slash", "tick", "bar"} \cup Marks THEN taken(2)
        ELSE IF c = "tick" /\ end # 0
             THEN [flush(s) EXCEPT !.next = end + 1,
                                   !.out = Append(@, [text |-> SubSeq(text, i + 1, end - 1), bold |-> FALSE, italic |-> FALSE, code |-> TRUE])]
        ELSE IF c \in Marks /\ At(text, i + 1) = c THEN after([flush(s) EXCEPT !.bold = ~@], 2)
        ELSE IF c \in Marks /\ isItalicMarker(text, i, s.italic) THEN after([flush(s) EXCEPT !.italic = ~@], 1)
        ELSE taken(1)

merge(spans) ==
    FoldLeft(LAMBDA out, s : IF out # <<>> /\ [Last(out) EXCEPT !.text = <<>>] = [s EXCEPT !.text = <<>>] /\ ~s.code
                             THEN Append(Front(out), [s EXCEPT !.text = Last(out).text \o @])
                             ELSE Append(out, s), <<>>, spans)

parseInline(text) ==
    LET start == [next |-> 1, buf |-> <<>>, bold |-> FALSE, italic |-> FALSE, out |-> <<>>]
    IN  merge(flush(FoldLeftDomain(LAMBDA s, i : Scan(text, s, i), start, text)).out)
-----------------------------------------------------------------------------
(* A text that ends inside a span *)

Ends(text, tail) == IsSuffix(tail, text)
Without(text, n) == SubSeq(text, 1, Len(text) - n)
Odd(text, c) == Cardinality({i \in DOMAIN text : text[i] = c}) % 2 = 1

\* The text without its code spans, and the pairs of asterisks in it.
WithoutCode(text) ==
    FoldLeft(LAMBDA s, c : IF c = "tick" THEN [s EXCEPT !.code = ~@]
                           ELSE IF s.code THEN s ELSE [s EXCEPT !.out = Append(@, c)], [code |-> FALSE, out |-> <<>>], text).out
OpenBold(text) ==
    FoldLeft(LAMBDA s, c : IF c # "star" THEN [s EXCEPT !.half = FALSE]
                           ELSE [half |-> ~s.half, odd |-> IF s.half THEN ~s.odd ELSE s.odd], [half |-> FALSE, odd |-> FALSE], text).odd

closeOpenSpans(text) ==
    LET lone == IF Ends(text, <<"star">>) /\ ~Ends(text, <<"star", "star">>) THEN Without(text, 1) ELSE text
        code == IF ~Odd(lone, "tick") THEN lone ELSE IF Ends(lone, <<"tick">>) THEN Without(lone, 1) ELSE Append(lone, "tick")
    IN  IF ~OpenBold(WithoutCode(code)) THEN code
        ELSE IF Ends(code, <<"star", "star">>) THEN Without(code, 2) ELSE code \o <<"star", "star">>
-----------------------------------------------------------------------------
(* Blocks. A line's traits: "fence", "heading", "rule", "pipe" (has a |),   *)
(* "delimiter" (of a table), "bullet" or "number" of a list, "indented",    *)
(* "words"; a blank line has none.                                          *)

Starts(lines, i) ==
    LET has(t) == t \in lines[i] IN
    IF lines[i] = {} THEN "blank"
    ELSE IF has("fence") THEN "code"
    ELSE IF has("heading") THEN "heading"
    ELSE IF has("rule") THEN "rule"
    ELSE IF has("pipe") /\ i < Len(lines) /\ (i < Len(lines) => "delimiter" \in lines[i + 1]) THEN "table"
    ELSE IF has("bullet") THEN "bullets"
    ELSE IF has("number") THEN "numbers"
    ELSE "paragraph"

\* The last of the lines from i on that all belong to what began before.
Through(lines, i, belongs(_)) == Max({j \in i - 1 .. Len(lines) : \A k \in i .. j : belongs(k)})
LastLine(lines, i) ==
    LET item(kind) == Through(lines, i + 1, LAMBDA k : kind \in lines[k] \/ "indented" \in lines[k])
        type == Starts(lines, i)
    IN  CASE type = "code" -> Min({Len(lines), Through(lines, i + 1, LAMBDA k : "fence" \notin lines[k]) + 1})
          [] type = "table" -> Through(lines, i + 2, LAMBDA k : "pipe" \in lines[k])
          [] type = "bullets" -> item("bullet")
          [] type = "numbers" -> item("number")
          [] type = "paragraph" -> Through(lines, i + 1, LAMBDA k : Starts(lines, k) = "paragraph")
          [] OTHER -> i

parseMarkdown(lines) ==
    LET from[i \in 1 .. Len(lines) + 1] ==
            IF i > Len(lines) THEN <<>>
            ELSE LET rest == from[LastLine(lines, i) + 1]
                     type == Starts(lines, i)
                 IN  IF type = "blank" THEN rest ELSE <<[type |-> type, from |-> i, to |-> LastLine(lines, i)]>> \o rest
    IN  from[1]
-----------------------------------------------------------------------------
(* "close it ... so raw markers never flash": wherever a text of bold and   *)
(* code spans without escapes is cut while it streams in, neither two       *)
(* asterisks nor a backtick are seen outside of code.                       *)
Raw(text) == \E s \in Range(parseInline(text)) :
                ~s.code /\ \E i \in DOMAIN s.text : s.text[i] = "tick" \/ (s.text[i] = "star" /\ At(s.text, i + 1) = "star")
SpansHold(text) == ~Raw(closeOpenSpans(text))

(* Every line of an answer is shown, in one block; and while it streams in  *)
(* line by line only the last block may still change.                       *)
BlocksHold(lines) ==
    LET whole == parseMarkdown(lines)
    IN  /\ \A i \in DOMAIN lines : lines[i] # {} => Cardinality({b \in DOMAIN whole : i \in whole[b].from .. whole[b].to}) = 1
        /\ \A n \in DOMAIN lines : LET part == parseMarkdown(SubSeq(lines, 1, n)) IN
              part # <<>> => IsPrefix(Front(part), whole)
=============================================================================
