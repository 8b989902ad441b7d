--------------------------- MODULE WhatsAppMessages ---------------------------
(* What the bot sends: the report menu and deliveries of                    *)
(* whatsapp.service.ts, the calls of whatsapp.client.ts and the messages of *)
(* format.ts. A text is its length; texts that take no part in a choice are *)
(* left out, as is the markup.                                              *)
EXTENDS Integers, Sequences, SequencesExt, FiniteSetsExt

CONSTANTS PAGE,      \* reports of one menu page
          MaxText,   \* characters WhatsApp takes
          CutAt      \* characters answerMessage() lets a text have
-----------------------------------------------------------------------------
(* whatsapp.client.ts: a reply is "ok", "outside" (the 24-hour window),     *)
(* "refused", or "nothing" in time                                          *)

Replies == {"ok", "outside", "refused", "nothing"}
\* An error of the API, also one in a reply of status 200, or of fetch() itself.
post(reply) == IF reply = "ok" THEN [sent |-> TRUE] ELSE [sent |-> FALSE, whatsapp |-> reply # "nothing", outside |-> reply = "outside"]

sendText(chars, reply) == [post(reply) EXCEPT !.sent = @ /\ chars > 0] @@ [chars |-> Min({chars, MaxText})]
\* A list of one to ten rows.
sendList(rows, reply) == post(IF Len(rows) \in 1 .. 10 THEN reply ELSE "refused")

\* meta: the media's declared size, 0 when it does not say, or -1 when the
\* lookup fails; file: the size it has, or -1.
download(meta, file, maxBytes) ==
    IF meta = -1 \/ meta > maxBytes THEN [ok |-> FALSE, fetched |-> FALSE]
    ELSE [ok |-> file # -1 /\ file <= maxBytes, fetched |-> TRUE]
-----------------------------------------------------------------------------
(* The menu *)

\* The rows of a page of the reports there are.
sendMenu(all, page) ==
    LET from == page * PAGE
        slice == SubSeq(all, from + 1, Min({from + PAGE, Len(all)}))
        reports == [k \in DOMAIN slice |-> <<"tpl", slice[k]>>]
    IN  IF Len(all) > (page + 1) * PAGE THEN Append(reports, <<"page", page + 1>>) ELSE reports

\* What a tap on a row asks for: a report or another page.
Tapped(row) == IF row[1] = "page" THEN [page |-> row[2]] ELSE [report |-> row[2]]

\* Pages one gets to from the first, the reports being those.
PagesOf(all) == LET next(p) == {r[2] : r \in {x \in Range(sendMenu(all, p)) : x[1] = "page"}}
                IN  FoldLeft(LAMBDA pages, k : pages \cup UNION {next(p) : p \in pages}, {0}, all)
-----------------------------------------------------------------------------
(* Deliveries of scheduled reports *)

sendReport(configured, chars, text, template, reply) ==
    IF ~configured THEN [sent |-> FALSE, by |-> <<>>]
    ELSE IF sendText(chars, text).sent THEN [sent |-> TRUE, by |-> <<"text">>]
    ELSE IF text # "outside" \/ ~template THEN [sent |-> FALSE, by |-> <<"text">>]
    ELSE [sent |-> post(reply).sent, by |-> <<"text", "template">>]
-----------------------------------------------------------------------------
(* Messages. A result is [rowCount, columns, chars] of its block.           *)

tableBlock(r) == [columns |-> Min({4, r.columns}), rows |-> Min({10, r.rowCount}), more |-> r.rowCount - Min({10, r.rowCount})]

\* A single number is already in the sentence.
Shown(r, answer) == r.rowCount > 0 /\ ~(r.rowCount = 1 /\ r.columns <= 2 /\ answer > 0)

NoRows == 8
Separator == 2
answerMessage(title, note, answer, tables) ==
    LET lengths == <<title, note, answer>> \o
            [k \in DOMAIN tables |-> IF Shown(tables[k], answer) THEN tables[k].chars
                                     ELSE IF tables[k].rowCount = 0 /\ answer = 0 THEN NoRows ELSE 0]
        parts == SelectSeq(lengths, LAMBDA n : n > 0)
        whole == FoldLeft(LAMBDA a, n : a + n, 0, parts) + Separator * Max({0, Len(parts) - 1})
    IN  [chars |-> IF whole > CutAt THEN CutAt - 10 + 1 ELSE whole, cut |-> whole > CutAt, parts |-> Len(parts)]
-----------------------------------------------------------------------------
(* From the first page of the menu every report is reached, on one page     *)
(* only, and WhatsApp takes each page; though not one that a list which     *)
(* became shorter no longer has.                                            *)
MenuHolds(all) ==
    LET reports(p) == {r[2] : r \in {x \in Range(sendMenu(all, p)) : x[1] = "tpl"}}
    IN  all # <<>> =>
          /\ \A p \in PagesOf(all) : sendList(sendMenu(all, p), "ok").sent
          /\ UNION {reports(p) : p \in PagesOf(all)} = Range(all)
          /\ \A p, q \in PagesOf(all) : p # q => reports(p) \cap reports(q) = {}
          /\ \A p \in PagesOf(all) : \A row \in Range(sendMenu(all, p)) :
                LET t == Tapped(row) IN "page" \in DOMAIN t => t.page \in PagesOf(all)

(* "Free-form messages are only allowed within 24 hours of the user's last  *)
(* message": the approved template carries a report only when that was why  *)
(* the text did not go, so nobody is sent a report twice, and a report that *)
(* was not sent is an error. A media file is kept only as large as allowed, *)
(* whatever it was said to be.                                              *)
DeliveryHolds(configured, chars, text, template, reply, meta, file, maxBytes) ==
    \A report \in {sendReport(configured, chars, text, template, reply)} :
        /\ report.sent <=> Last(<<"none">> \o report.by) \in {"text", "template"}
                           /\ (IF Last(report.by) = "text" THEN chars > 0 /\ text = "ok" ELSE reply = "ok")
        /\ "template" \in Range(report.by) => text = "outside"
        /\ download(meta, file, maxBytes).ok => file \in 0 .. maxBytes
        /\ meta > maxBytes => ~download(meta, file, maxBytes).fetched

(* No message is longer than WhatsApp takes, so that nothing is lost without*)
(* the ellipsis that says so; a table accounts for every row; and a message *)
(* that has anything to say is not empty.                                   *)
MessageHolds(title, note, answer, tables) ==
    LET m == answerMessage(title, note, answer, tables)
    IN  /\ sendText(m.chars, "ok").chars = m.chars
        /\ \A k \in DOMAIN tables : tableBlock(tables[k]).rows + tableBlock(tables[k]).more = tables[k].rowCount
        /\ m.chars > 0 <=> title + note + answer > 0 \/ tables # <<>>
        /\ ~m.cut => m.chars >= title + note + answer
=============================================================================
