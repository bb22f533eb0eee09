----------------------------- MODULE CalendarFields -----------------------------
(***************************************************************************)
(* What an event says, and what becomes of it at the online calendar.      *)
(*                                                                         *)
(* The contents that ToDoch and a provider exchange (title, description,   *)
(* location, times, zone, rule, exceptions, status, transparency) are one  *)
(* record.  "text" stands for title, description, location and times       *)
(* together; the other fields are the ones a conversion can change.        *)
(* "padded" says that the description begins or ends with white space.     *)
(* "past" says that the event ends before the 90-day line; the line does   *)
(* not move while a behaviour lasts.                                       *)
(***************************************************************************)
EXTENDS Naturals

CONSTANTS
    Providers,    \* the kinds of provider to look at
    Texts,        \* titles, descriptions, locations and times
    Occurrences   \* occurrences of a series that can be cancelled on their own

ASSUME ProviderAssumption == Providers \subseteq {"google", "microsoft", "caldav"}

VARIABLE provider   \* the connection's provider: which client _client() builds

(* Rules ToDoch stores: "dated" says all that a pattern of Outlook says    *)
(* (FREQ=WEEKLY;BYDAY=MO), "short" leaves something to the start or says   *)
(* it in other words (FREQ=WEEKLY, as the web app writes it, or an UNTIL   *)
(* with a time), "odd" (FREQ=MONTHLY;BYDAY=MO) has no pattern.  "foreign"  *)
(* is a rule of the provider that normalize_event_rule() refuses.          *)
Rules == {"none", "short", "dated", "odd"}
Statuses == {"tentative", "confirmed", "cancelled"}

Fields == [text: Texts, padded: BOOLEAN, past: BOOLEAN, zone: {"own", "other"}, rule: Rules,
           exdates: SUBSET Occurrences, status: Statuses,
           transparency: {"opaque", "transparent"}]

(* An item at the provider.  "readable" is FALSE when the fields_from_...  *)
(* conversion fails.  "mine" is not stored anywhere: it records that the   *)
(* last writer was ToDoch, for the properties to speak about.              *)
Items == [text: Texts, padded: BOOLEAN, past: BOOLEAN, zone: {"own", "other"},
          rule: Rules \cup {"foreign"}, exdates: SUBSET Occurrences,
          status: Statuses, transparency: {"opaque", "transparent"},
          readable: BOOLEAN, mine: BOOLEAN]

(* Google reports changes since a sync token, the others their whole list. *)
Complete == provider # "google"

(* Can the provider take over the exceptions of a series?                  *)
Exdates == provider # "microsoft"

(* The stored fingerprint: the contents themselves, a hash being as good   *)
(* as injective; without the exceptions where the provider has none.       *)
Digest(f) == IF Exdates THEN f ELSE [f EXCEPT !.exdates = {}]

(***************************************************************************)
(* ToDoch -> provider.                                                     *)
(***************************************************************************)
AsItem(f, rule, exdates, status) ==
    [text |-> f.text, padded |-> f.padded, past |-> f.past, zone |-> f.zone, rule |-> rule,
     exdates |-> exdates, status |-> status, transparency |-> f.transparency,
     readable |-> TRUE, mine |-> TRUE]

TentativeOrConfirmed(f) == IF f.status = "tentative" THEN "tentative" ELSE "confirmed"

(* Exceptions travel only with a rule; "cancelled" is sent as "confirmed". *)
ToGoogle(f) ==
    AsItem(f, f.rule, IF f.rule = "none" THEN {} ELSE f.exdates, TentativeOrConfirmed(f))

(* graph_recurrence: a pattern names its days, if there is one.            *)
PatternOf(f) ==
    CASE f.rule \in {"none", "odd"} -> "none" [] f.rule \in {"short", "dated"} -> "dated"

(* Graph has one field showAs: "free" leaves no room for "tentative".      *)
ToGraph(f) ==
    AsItem(f, PatternOf(f), {},
           IF f.transparency = "transparent" THEN "confirmed" ELSE TentativeOrConfirmed(f))

ToIcs(f) == AsItem(f, f.rule, IF f.rule = "none" THEN {} ELSE f.exdates, f.status)

Sent(f) == CASE provider = "google"    -> ToGoogle(f)
             [] provider = "microsoft" -> ToGraph(f)
             [] OTHER                  -> ToIcs(f)

(***************************************************************************)
(* Provider -> ToDoch.                                                     *)
(***************************************************************************)
KnownRule(i) == IF i.rule = "foreign" THEN "none" ELSE i.rule

(* Mutant: the days of a pattern are dropped. *)
RuleWithoutDays(i) == IF i.rule = "dated" THEN "short" ELSE "none"

(* Patterns of Outlook that ToDoch can write as a rule.                    *)
RuleFromGraph(i) == IF i.rule = "dated" THEN "dated" ELSE "none"

AsFields(i, padded, rule, zone, exdates, status) ==
    [text |-> i.text, padded |-> padded, past |-> i.past, zone |-> zone, rule |-> rule,
     exdates |-> IF rule = "none" THEN {} ELSE exdates,
     status |-> status, transparency |-> i.transparency]

FromGoogle(i) ==
    AsFields(i, i.padded, KnownRule(i), i.zone, i.exdates, TentativeOrConfirmed(i))

(* The description is stripped, here and in parse_ics.                     *)
FromGraph(i) ==
    AsFields(i, FALSE, RuleFromGraph(i), i.zone, {},
             IF i.transparency = "transparent" THEN "confirmed" ELSE TentativeOrConfirmed(i))

(* A CalDAV event always comes back in the zone of the owner.              *)
FromIcs(i) == AsFields(i, FALSE, KnownRule(i), "own", i.exdates, i.status)

Received(i) == CASE provider = "google"    -> FromGoogle(i)
                 [] provider = "microsoft" -> FromGraph(i)
                 [] OTHER                  -> FromIcs(i)

(* The contents after a change at the provider: exceptions stay as they    *)
(* are in ToDoch where the provider has none.                              *)
Adopted(f, i) ==
    IF Exdates THEN Received(i) ELSE [Received(i) EXCEPT !.exdates = f.exdates]

(* What a provider has room for, as ToDoch writes it; all else comes back  *)
(* in other words, or not at all.                                          *)
Expressible(f) ==
    /\ f.rule = "none" => f.exdates = {} \/ ~Exdates
    /\ provider = "caldav" \/ f.status # "cancelled"
    /\ provider = "caldav" => f.zone = "own"
    /\ provider = "microsoft" => /\ f.rule \in {"none", "dated"}
                                 /\ f.transparency = "transparent" => f.status = "confirmed"
    /\ provider = "google" \/ ~f.padded

(* Single events over before the 90-day line are left where they are.      *)
Old(f) == f.rule = "none" /\ f.past
=============================================================================
