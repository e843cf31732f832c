------------------------------- MODULE Alerts -------------------------------
(***************************************************************************)
(* Dispatcher.Notify: what each notification channel is told of the runs   *)
(* of a site.  Webhooks are told every routed event; every other channel   *)
(* is told an incident once a day and its recovery once, from a delivery   *)
(* state that the history database keeps for each scope and channel.       *)
(*                                                                         *)
(* A channel's service only accepts a message or does not.  The caller     *)
(* holds the site lock, so that notices of a site follow one another.      *)
(***************************************************************************)
EXTENDS Naturals

CONSTANTS
    Channel,        \* configured channels, by name
    Webhook,        \* those of type webhook
    Scope,          \* full and database_only
    Reason,         \* error category and message
    DayTicks        \* clock ticks in 24 hours

Nobody == "nobody"

ASSUME AlertsAssumption ==
    /\ Webhook \subseteq Channel
    /\ Nobody \notin Channel
    /\ DayTicks \in Nat \ {0}

VARIABLES
    routes,         \* the configured routes
    print,          \* print[s][c]: the fingerprint saved for scope and channel
    sent,           \* sent[s][c]: last_sent saved with it
    notice,         \* the notice being dispatched, or NoNotice
    untold,         \* channels it has not come to
    unsaved,        \* the channel that got it, its state not saved yet
    blind,          \* channels whose state could not be loaded
    inbox,          \* (auxiliary) inbox[s][c]: what c was last told of s, and when
    latest,         \* (auxiliary) the last notice about s, without the skips
    apart,          \* (auxiliary) <<s, c>> whose state and inbox may differ
    missed          \* (auxiliary) <<s, c>> that the last notice may not have reached

alertVars == <<routes, print, sent, notice, untold, unsaved, blind, inbox,
               latest, apart, missed>>

Healthy == {"backup_succeeded", "backup_no_change"}
Problem == {"backup_failed", "backup_partial", "backup_cancelled"}
Event == Healthy \cup Problem \cup {"backup_skipped"}
Routable == Event \cup {"all", "daily_report", "monthly_report"}
Route == [name : STRING, events : SUBSET Routable, channels : SUBSET Channel]

\* Event, category and message: what a fingerprint is the hash of.
Incident == [event : Problem, reason : Reason]
NoPrint == [event |-> "none"]
Recovery == [event |-> "recovered"]
NoNotice == [event |-> "no notice"]
Notice == [event : Event, reason : Reason, scope : Scope]

AlertsTypeOK ==
    /\ \A r \in routes : r.events \subseteq Routable /\ r.channels \subseteq Channel
    /\ print \in [Scope -> [Channel -> Incident \cup {NoPrint}]]
    /\ sent \in [Scope -> [Channel -> Nat]]
    /\ notice \in Notice \cup {NoNotice}
    /\ untold \subseteq Channel /\ blind \subseteq Channel
    /\ unsaved \in Channel \cup {Nobody}
    /\ inbox \in [Scope -> [Channel -> [what : Incident \cup {NoPrint, Recovery}, at : Nat]]]
    /\ latest \in [Scope -> [event : Event, reason : Reason] \cup {NoPrint}]
    /\ apart \subseteq Scope \X Channel
    /\ missed \subseteq Scope \X Channel

AlertsInit ==
    /\ routes = {}
    /\ print = [s \in Scope |-> [c \in Channel |-> NoPrint]]
    /\ sent = [s \in Scope |-> [c \in Channel |-> 0]]
    /\ notice = NoNotice /\ untold = {} /\ unsaved = Nobody /\ blind = {}
    /\ inbox = [s \in Scope |-> [c \in Channel |-> [what |-> NoPrint, at |-> 0]]]
    /\ latest = [s \in Scope |-> NoPrint]
    /\ apart = {} /\ missed = {}

-----------------------------------------------------------------------------
(* Routing.                                                                *)

\* channelsFor.
ChannelsFor(event) ==
    UNION {r.channels : r \in {q \in routes : q.events \cap {event, "all"} # {}}}

\* (Mutant of Recipients: a channel hears of the recovery only when it is
\* routed.)
RecipientsOfRoutes(event) ==
    IF event = "backup_skipped" THEN ChannelsFor(event) \cap Webhook
    ELSE ChannelsFor(event)

\* A success also goes to the channels that may know of an incident.
Recipients(event) ==
    CASE event = "backup_skipped" -> ChannelsFor(event) \cap Webhook
      [] event \in Healthy ->
            ChannelsFor(event) \cup ((UNION {ChannelsFor(e) : e \in Problem}) \ Webhook)
      [] OTHER -> ChannelsFor(event)

\* Bound: the routes are configured before the first notice and stay.
ConfigureRoutes(rs) ==
    /\ routes = {} /\ latest = [s \in Scope |-> NoPrint]
    /\ routes' = rs
    /\ UNCHANGED <<print, sent, notice, untold, unsaved, blind, inbox, latest, apart, missed>>

IncidentOf(n) == [event |-> n.event, reason |-> n.reason]

-----------------------------------------------------------------------------
(* Notify.                                                                 *)

NotifyBegin(n) ==
    /\ notice = NoNotice
    /\ notice' = n
    /\ untold' = Recipients(n.event)
    /\ IF n.event \in Healthy \cup Problem
       THEN /\ latest' = [latest EXCEPT ![n.scope] = IncidentOf(n)]
            /\ missed' = missed \ ({n.scope} \X Channel)
       ELSE UNCHANGED <<latest, missed>>
    /\ UNCHANGED <<routes, print, sent, unsaved, blind, inbox, apart>>

Scoped(c) == <<notice.scope, c>>
Comes(c) == notice # NoNotice /\ unsaved = Nobody /\ c \in untold

\* A webhook is sent the event itself, accepted or not; no state is kept.
SendWebhook(c) ==
    /\ Comes(c) /\ c \in Webhook
    /\ untold' = untold \ {c}
    /\ UNCHANGED <<routes, print, sent, notice, unsaved, blind, inbox, latest, apart, missed>>

\* A state that cannot be loaded counts as none.
LoadFails(c) ==
    /\ Comes(c) /\ c \notin Webhook \cup blind
    /\ blind' = blind \cup {c}
    /\ UNCHANGED <<routes, print, sent, notice, untold, unsaved, inbox, latest, apart, missed>>

State(c) == IF c \in blind THEN NoPrint ELSE print[notice.scope][c]

\* (Mutant of KeepsQuiet: a new day begins at midnight.)
KeepsQuietTillMidnight(c, now) ==
    IF notice.event \in Healthy THEN State(c) = NoPrint
    ELSE /\ State(c) = IncidentOf(notice)
         /\ now \div DayTicks = sent[notice.scope][c] \div DayTicks

\* Whether the notice is no news to the channel.
KeepsQuiet(c, now) ==
    IF notice.event \in Healthy THEN State(c) = NoPrint
    ELSE State(c) = IncidentOf(notice) /\ now - sent[notice.scope][c] < DayTicks

Suppress(c, now) ==
    /\ Comes(c) /\ c \notin Webhook
    /\ KeepsQuiet(c, now)
    /\ untold' = untold \ {c}
    /\ missed' = IF c \in blind THEN missed \cup {Scoped(c)} ELSE missed
    /\ UNCHANGED <<routes, print, sent, notice, unsaved, blind, inbox, latest, apart>>

News(now) ==
    [what |-> IF notice.event \in Healthy THEN Recovery ELSE IncidentOf(notice), at |-> now]

\* From here until Save the channel knows more than the state says.
Send(c, now) ==
    /\ Comes(c) /\ c \notin Webhook
    /\ ~KeepsQuiet(c, now)
    /\ inbox' = [inbox EXCEPT ![notice.scope][c] = News(now)]
    /\ unsaved' = c
    /\ apart' = apart \cup {Scoped(c)}
    /\ UNCHANGED <<routes, print, sent, notice, untold, blind, latest, missed>>

\* Nothing is saved, and the next channel is tried.
SendFails(c, now) ==
    /\ Comes(c) /\ c \notin Webhook
    /\ ~KeepsQuiet(c, now)
    /\ untold' = untold \ {c}
    /\ missed' = missed \cup {Scoped(c)}
    /\ UNCHANGED <<routes, print, sent, notice, unsaved, blind, inbox, latest, apart>>

Save(now) ==
    /\ unsaved # Nobody
    /\ print' = [print EXCEPT ![notice.scope][unsaved] =
                     IF notice.event \in Healthy THEN NoPrint ELSE IncidentOf(notice)]
    /\ sent' = [sent EXCEPT ![notice.scope][unsaved] = now]
    /\ apart' = apart \ {Scoped(unsaved)}
    /\ untold' = untold \ {unsaved} /\ unsaved' = Nobody
    /\ UNCHANGED <<routes, notice, blind, inbox, latest, missed>>

SaveFails ==
    /\ unsaved # Nobody
    /\ untold' = untold \ {unsaved} /\ unsaved' = Nobody
    /\ UNCHANGED <<routes, print, sent, notice, blind, inbox, latest, apart, missed>>

NotifyEnd ==
    /\ notice # NoNotice /\ untold = {}
    /\ notice' = NoNotice /\ blind' = {}
    /\ UNCHANGED <<routes, print, sent, untold, unsaved, inbox, latest, apart, missed>>

\* The process ends; what it had not sent is never sent.
NotifyCrash ==
    /\ notice' = NoNotice /\ untold' = {} /\ unsaved' = Nobody /\ blind' = {}
    /\ missed' = IF notice = NoNotice THEN missed
                 ELSE missed \cup {Scoped(c) : c \in untold \ ({unsaved} \cup Webhook)}
    /\ UNCHANGED <<routes, print, sent, inbox, latest, apart>>

AlertSteps(now) ==
    \/ \E c \in Channel : SendWebhook(c) \/ Suppress(c, now) \/ Send(c, now)
    \/ Save(now)

AlertFaults(now) ==
    \/ \E c \in Channel : LoadFails(c) \/ SendFails(c, now)
    \/ SaveFails

AlertsNext(now) ==
    \/ \E rs \in SUBSET Route : ConfigureRoutes(rs)
    \/ \E n \in Notice : NotifyBegin(n)
    \/ AlertSteps(now) \/ AlertFaults(now)
    \/ NotifyEnd \/ NotifyCrash

\* No message is from the future: clocks do not go back.
Later(now) == \A s \in Scope, c \in Channel : inbox[s][c].at <= now

AlertsSpec ==
    AlertsInit /\ [][\E now \in Nat : Later(now) /\ AlertsNext(now)]_alertVars

-----------------------------------------------------------------------------
(* Properties.                                                             *)

\* Where nothing came between a message and its record, the record is what
\* the channel knows.
RecordsMatch ==
    \A s \in Scope, c \in Channel \ Webhook :
        <<s, c>> \notin apart =>
            IF print[s][c] = NoPrint THEN inbox[s][c].what \in {NoPrint, Recovery}
            ELSE /\ inbox[s][c].what = print[s][c]
                 /\ inbox[s][c].at <= sent[s][c]

\* "a subsequent run ... sends one recovery to channels with an open incident,
\* even when their route only selects failures": once a notice is dispatched a
\* channel it did not miss believes of each scope what its last notice said: no
\* incident is open for it after a success, and the one it is routed for is after
\* a failure.
ChannelsKnow ==
    notice = NoNotice =>
        \A s \in Scope, c \in Channel \ Webhook :
            latest[s] = NoPrint \/ <<s, c>> \in apart \cup missed \/
            IF latest[s].event \in Healthy THEN inbox[s][c].what \notin Incident
            ELSE c \in ChannelsFor(latest[s].event) => inbox[s][c].what = latest[s]

\* "at most one reminder per 24 hours" and "one recovery": a channel is told a
\* recovery only when it was told the incident, and what it knows already only a
\* day later, unless the record of what it knows was lost or not read.
NoNoise ==
    \A s \in Scope, c \in Channel \ Webhook :
        inbox'[s][c] # inbox[s][c] =>
            \/ <<s, c>> \in apart \/ c \in blind
            \/ IF inbox'[s][c].what = Recovery THEN inbox[s][c].what \in Incident
               ELSE \/ inbox'[s][c].what # inbox[s][c].what
                    \/ inbox'[s][c].at - inbox[s][c].at >= DayTicks
=============================================================================
