----------------------------- MODULE ScheduleForm -----------------------------
(* app/schedules/edit.tsx of the phone app with the fields of                *)
(* components/ReportParts.tsx, reports/schedule.ts and what the schedules    *)
(* controller and scheduler.service.ts do with what it sends: a form, the    *)
(* input it becomes, what the server accepts, when it runs, and the form a   *)
(* schedule is opened in. A text is its trimmed length, a time is            *)
(* <<hour, minute>>, a phone number its digits (0: not a number).            *)
EXTENDS Integers, Sequences, FiniteSets, FiniteSetsExt

Calendar == INSTANCE ReportTemplates

Unset == "unset"
Last == 99
TimeOk(time) == time[1] \in 0 .. 23 /\ time[2] \in 0 .. 59
PhoneOk(digits) == digits \in 8 .. 15
-----------------------------------------------------------------------------
(* The fields of a parameter *)

Clamp(param, n) == IF n < param.min THEN param.min ELSE IF n > param.max THEN param.max ELSE n
\* A step, a typed number (what is no digit is dropped, nothing is 0), a preset
\* or a typed date.
NumberFields(param, n, typed) == {Clamp(param, n - 1), Clamp(param, n + 1), Clamp(param, typed)}
DateField(typed, before) == IF typed.kind = "iso" /\ Calendar!validIso(typed.date) THEN typed ELSE before
-----------------------------------------------------------------------------
(* The form *)

Blank == [name |-> 0, mode |-> "report", template |-> "", params |-> "", question |-> 0, kind |-> "daily", time |-> <<9, 0>>,
          weekdays |-> {1}, day |-> 1, language |-> Unset, app |-> TRUE, phones |-> <<>>, rows |-> Unset, enabled |-> TRUE]

\* A picked report names the schedule, unless a name was typed, and brings its defaults.
pick(form, t, ownName) == [form EXCEPT !.name = IF ownName THEN @ ELSE t.title, !.template = t.id, !.params = "default", !.rows = Unset]

toggled(weekdays, d) == IF d \in weekdays THEN weekdays \ {d} ELSE weekdays \cup {d}

Known(form, templates) == {t \in templates : t.id = form.template}
ShownName(form, templates, editing) ==
    IF form.name # 0 THEN form.name
    ELSE IF editing \/ Known(form, templates) = {} THEN 0
    ELSE (CHOOSE t \in Known(form, templates) : TRUE).title
ShownLanguage(form, reply, lang) == IF form.language # Unset THEN form.language ELSE IF reply = "auto" THEN lang ELSE reply

canSave(form, templates, editing) ==
    /\ ShownName(form, templates, editing) > 0 /\ TimeOk(form.time)
    /\ \A i \in DOMAIN form.phones : PhoneOk(form.phones[i])
    /\ form.app \/ form.phones # <<>>
    /\ IF form.mode = "report" THEN Known(form, templates) # {} ELSE form.question >= 3
    /\ form.kind = "weekly" => form.weekdays # {}

Frequency(form) ==
    [type |-> form.kind, time |-> form.time, weekdays |-> IF form.kind = "weekly" THEN form.weekdays ELSE {},
     day |-> IF form.kind = "monthly" THEN form.day ELSE 0]
Target(form) == IF form.mode = "report" THEN [template |-> form.template, params |-> form.params, question |-> 0]
                ELSE [template |-> "", params |-> "", question |-> form.question]

input(form, templates, editing, reply, lang) ==
    [name |-> ShownName(form, templates, editing), target |-> Target(form), frequency |-> Frequency(form),
     language |-> ShownLanguage(form, reply, lang), app |-> form.app, phones |-> form.phones, rows |-> form.rows, enabled |-> form.enabled]
-----------------------------------------------------------------------------
(* The server *)

frequencySchema(f) == \/ f.type = "cron"
                      \/ /\ TimeOk(f.time)
                         /\ f.type = "weekly" => f.weekdays # {} /\ f.weekdays \subseteq 0 .. 6
                         /\ f.type = "monthly" => f.day \in (1 .. 31) \cup {Last}

\* Of the input: why it is refused, "" when it is not.
scheduleInputSchema(in) ==
    IF in.name \notin 1 .. 80 THEN "name"
    ELSE IF in.target.template = "" /\ in.target.question \notin 3 .. 2000 THEN "target"
    ELSE IF ~frequencySchema(in.frequency) THEN "frequency"
    ELSE IF in.language \notin {"en", "ur", "ur-Latn"} THEN "language"
    ELSE IF Len(in.phones) > 20 \/ \E i \in DOMAIN in.phones : ~PhoneOk(in.phones[i]) THEN "phones"
    ELSE ""

validate(in, templates, whatsapp) ==
    IF scheduleInputSchema(in) # "" THEN scheduleInputSchema(in)
    ELSE IF in.target.template # "" /\ {t \in templates : t.id = in.target.template} = {} THEN "template"
    ELSE IF in.phones # <<>> /\ ~whatsapp THEN "whatsapp"
    ELSE IF ~in.app /\ in.phones = <<>> THEN "nowhere"
    ELSE ""

\* What is stored: only rows is filled in.
Stored(in, templates) ==
    LET alert == \E t \in templates : t.id = in.target.template /\ t.alert
    IN  [in EXCEPT !.rows = IF @ = Unset THEN (IF alert THEN "yes" ELSE "no") ELSE @]

toCron(f) == [minute |-> f.time[2], hour |-> f.time[1],
              weekdays |-> IF f.type = "weekly" THEN f.weekdays ELSE 0 .. 6,
              days |-> IF f.type = "monthly" THEN {f.day} ELSE 1 .. 31]

\* A date as in ReportTemplates; its minute of the day. External: croner.
Fires(cron, date) == /\ (Calendar!Weekday(date) + 1) % 7 \in cron.weekdays
                     /\ \/ date[3] \in cron.days
                        \/ Last \in cron.days /\ date[3] = Calendar!DaysIn(date[1], date[2])
nextRun(f, date, minute) ==
    LET cron == toCron(f)  at == 60 * cron.hour + cron.minute  now == Calendar!DayNumber(date)
        days == {n \in now .. now + 62 : Fires(cron, Calendar!DateOf(n)) /\ (n = now => at > minute)}
    IN  IF days = {} THEN <<>> ELSE <<Calendar!DateOf(Min(days)), at>>
-----------------------------------------------------------------------------
(* Opening a schedule: a cron pattern leaves the fields of a new one *)

Opened(s) ==
    LET f == s.frequency
        base == [Blank EXCEPT !.name = s.name, !.mode = IF s.target.template # "" THEN "report" ELSE "question",
                              !.template = s.target.template, !.params = s.target.params, !.question = s.target.question,
                              !.language = s.language, !.app = s.app, !.phones = s.phones, !.rows = s.rows, !.enabled = s.enabled]
    IN  IF f.type = "cron" THEN base
        ELSE [base EXCEPT !.kind = f.type, !.time = f.time,
                          !.weekdays = IF f.type = "weekly" THEN f.weekdays ELSE @,
                          !.day = IF f.type = "monthly" THEN f.day ELSE @]
-----------------------------------------------------------------------------
(* What the form lets through the server accepts, but for the limits the     *)
(* form does not know: the length of a name or question, the count of        *)
(* numbers, and numbers kept since WhatsApp was switched off. What is stored *)
(* opens in a form that saves it again as it is, cron patterns excepted.     *)
FormHolds(form, templates, editing, reply, lang, whatsapp) ==
    LET in == input(form, templates, editing, reply, lang)
        refused == validate(in, templates, whatsapp)
        again == Opened(Stored(in, templates))
    IN  canSave(form, templates, editing) =>
        /\ \/ refused = ""
           \/ refused = "name" /\ in.name > 80
           \/ refused = "target" /\ in.target.question > 2000
           \/ refused = "phones" /\ Len(in.phones) > 20
           \/ refused = "whatsapp" /\ ~whatsapp
        /\ canSave(again, templates, TRUE)
        /\ input(again, templates, TRUE, reply, lang) = Stored(in, templates)

(* A schedule runs at the first time after now that its words name: every    *)
(* day, on its weekdays, on its day of each month or on the last; the days   *)
(* the form offers come in every month.                                      *)
RunsWhenSaid(f, date, minute) ==
    LET next == nextRun(f, date, minute)
        days == Calendar!DayNumber(next[1]) - Calendar!DayNumber(date)
    IN  /\ next # <<>> /\ days >= 0 /\ (days = 0 => next[2] > minute)
        /\ f.type = "daily" => days <= 1
        /\ f.type = "weekly" => days <= 7 /\ (Calendar!Weekday(next[1]) + 1) % 7 \in f.weekdays
        /\ f.type = "monthly" => /\ days <= 31
                                 /\ f.day = Last => Calendar!addDays(next[1], 1)[3] = 1
                                 /\ f.day # Last => next[1][3] = f.day
        /\ \A f2 \in {[f EXCEPT !.weekdays = toggled(@, d)] : d \in 0 .. 6} :
               f.type = "weekly" /\ f.weekdays \subseteq f2.weekdays =>
               Calendar!DayNumber(nextRun(f2, date, minute)[1]) <= Calendar!DayNumber(next[1])

(* Whatever is stepped or typed, a number parameter stays in its range and a *)
(* date one a date the server resolves.                                      *)
FieldsHold(param, n, typed, date, before) ==
    /\ n \in param.min .. param.max => NumberFields(param, n, typed) \subseteq param.min .. param.max
    /\ Calendar!resolveDate(before, <<2024, 3, 1>>).type = "date" => Calendar!resolveDate(DateField(date, before), <<2024, 3, 1>>).type = "date"
=============================================================================
