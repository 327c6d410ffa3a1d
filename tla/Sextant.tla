------------------------------- MODULE Sextant -------------------------------
(***************************************************************************)
(* sextant against a server: the router and its two screens                *)
(* (internal/ui/router.go, fleet.go), the fleet's remote source            *)
(* (internal/remote/source.go) and the start of the program                *)
(* (internal/app/server.go).                                               *)
(*                                                                         *)
(* The terminal library runs commands in goroutines of their own and hands *)
(* their messages to Update one at a time, in any order; View follows      *)
(* every Update.  The router gives a message to the screen that is shown   *)
(* when the message is handled, which need not be the one whose command    *)
(* sent it.  The fleet's list is a version number, a cluster's store only  *)
(* current or not: module FleetFeed is about the events that announce the  *)
(* former, module ClusterStream about the stream that fills the latter.    *)
(* Left out are window sizes, the keys that move, sort and filter,         *)
(* quitting, and Source.problem, which no screen shows.                    *)
(***************************************************************************)
EXTENDS Naturals, Functions

CONSTANTS
    Direct,      \* whether --server-cluster is given
    Nothing,     \* an empty list: none was read, or the server was out of reach
    MaxNews,     \* bound: changes of the fleet's list
    MaxScreen,   \* bound: cluster screens built
    MaxRead,     \* bound: fetchFleet commands run and not yet handled
    MaxDrill     \* bound: drill-downs under way together

ASSUME SextantAssumption ==
    /\ Direct \in BOOLEAN
    /\ {MaxNews, MaxScreen, MaxRead, MaxDrill} \subseteq Nat \ {0}
    /\ Nothing \notin Nat

VARIABLES
    news,        \* the version of the fleet's list at the server
    reachable,   \* whether the server answers
    subscribed,  \* whether Source.Run is reading events; otherwise it asks and waits in turn
    changed,     \* whether Source.changed holds a tick
    fetching,    \* how many fetchFleet commands have still to read
    answers,     \* how many of their messages are on their way to Update, by list
    waits,       \* waitForChanged commands that are blocked
    inbox,       \* how many of each other message are on their way to Update
    listed,      \* what the fleet screen lists
    cluster,     \* the cluster screen shown; 0 for the fleet's
    screens,     \* how many cluster screens have been built
    cleanup,     \* the screen whose cleanup the router holds, or 0
    live,        \* the screens whose stream has not been canceled
    update,      \* per cluster screen, whether its subscription holds a tick
    armed,       \* per cluster screen, its waitForUpdate commands that are blocked
    behind,      \* whether the store of the cluster screen shown has changed since it
                 \* was drawn
    overtaken    \* history: the screens a second drill-down has replaced

source == <<news, reachable, subscribed, changed>>
screen == <<listed, cluster, screens, cleanup>>
streams == <<live, update>>
vars == <<source, fetching, answers, waits, inbox, screen, streams, armed, behind, overtaken>>

Screen == 1..MaxScreen
List == 0..MaxNews \cup {Nothing}
Message == {"changed", "update", "drill"}
TypeOK ==
    /\ news \in 0..MaxNews
    /\ reachable \in BOOLEAN
    /\ subscribed \in BOOLEAN
    /\ changed \in BOOLEAN
    /\ fetching \in Nat
    /\ answers \in [List -> Nat]
    /\ waits \in Nat
    /\ inbox \in [Message -> Nat]
    /\ listed \in List
    /\ screens \in 0..MaxScreen
    /\ cluster \in 0..screens
    /\ cleanup \in 0..screens
    /\ live \subseteq 1..screens
    /\ update \in [Screen -> BOOLEAN]
    /\ armed \in [Screen -> Nat]
    /\ behind \in BOOLEAN
    /\ overtaken \subseteq 1..screens

(* RunServer: with --server-cluster the cluster screen is built before the   *)
(* program runs, and the command that waits for its store is dropped.  Init  *)
(* reads the fleet and waits for it.                                        *)
Init ==
    /\ news = 0
    /\ reachable = TRUE
    /\ subscribed = FALSE
    /\ changed = FALSE
    /\ fetching = 1
    /\ answers = [l \in List |-> 0]
    /\ waits = 1
    /\ inbox = [m \in Message |-> 0]
    /\ listed = Nothing
    /\ screens \in IF Direct THEN {0, 1} ELSE {0}
    /\ cluster = screens
    /\ cleanup = screens
    /\ live = 1..screens
    /\ update = [s \in Screen |-> FALSE]
    /\ armed = [s \in Screen |-> 0]
    /\ behind = FALSE
    /\ overtaken = {}

-------------------------------------------------------------------------------
(* The server.                                                               *)
Change ==
    /\ news < MaxNews
    /\ news' = news + 1
    /\ UNCHANGED <<reachable, subscribed, changed, fetching, answers, waits, inbox, screen, streams,
                   armed, behind, overtaken>>

Outage ==
    /\ reachable
    /\ reachable' = FALSE
    /\ UNCHANGED <<news, subscribed, changed, fetching, answers, waits, inbox, screen, streams,
                   armed, behind, overtaken>>

Recover ==
    /\ ~reachable
    /\ reachable' = TRUE
    /\ UNCHANGED <<news, subscribed, changed, fetching, answers, waits, inbox, screen, streams,
                   armed, behind, overtaken>>

(* The stream of a cluster screen puts something new into its store. *)
Put(s) ==
    /\ s \in live
    /\ reachable
    /\ behind' = (behind \/ s = cluster)
    /\ update' = [update EXCEPT ![s] = TRUE]
    /\ UNCHANGED <<source, fetching, answers, waits, inbox, screen, live, armed, overtaken>>

-------------------------------------------------------------------------------
(* Source.Run.                                                               *)

(* A subscription ticks at once, so that what was missed is read.  One that  *)
(* fails is tried again after the backoff.                                   *)
Subscribe ==
    /\ ~subscribed
    /\ reachable
    /\ subscribed' = TRUE
    /\ changed' = TRUE
    /\ UNCHANGED <<news, reachable, fetching, answers, waits, inbox, screen, streams, armed, behind,
                   overtaken>>

(* An event line arrives.  The server sends one for every tick of its own,   *)
(* and its timer ticks ever again.                                           *)
FeedEvent ==
    /\ subscribed
    /\ reachable
    /\ changed' = TRUE
    /\ UNCHANGED <<news, reachable, subscribed, fetching, answers, waits, inbox, screen, streams,
                   armed, behind, overtaken>>

Broken ==
    /\ subscribed
    /\ ~reachable
    /\ subscribed' = FALSE
    /\ UNCHANGED <<news, reachable, changed, fetching, answers, waits, inbox, screen, streams,
                   armed, behind, overtaken>>

-------------------------------------------------------------------------------
(* The commands, each in its goroutine.                                      *)
Sent(m) == inbox' = [inbox EXCEPT ![m] = @ + 1]

(* fetchFleet calls View, which has nothing to return for a server that does *)
(* not answer.  The message it makes carries no problem.                     *)
ReadFleet ==
    /\ fetching > 0
    /\ fetching' = fetching - 1
    /\ answers' = [answers EXCEPT ![IF reachable THEN news ELSE Nothing] = @ + 1]
    /\ UNCHANGED <<source, waits, inbox, screen, streams, armed, behind, overtaken>>

(* waitForChanged returns. *)
FleetChanged ==
    /\ waits > 0
    /\ changed
    /\ changed' = FALSE
    /\ waits' = waits - 1
    /\ Sent("changed")
    /\ UNCHANGED <<news, reachable, subscribed, fetching, answers, screen, streams, armed, behind,
                   overtaken>>

(* waitForUpdate returns. *)
ClusterUpdated(s) ==
    /\ armed[s] > 0
    /\ update[s]
    /\ update' = [update EXCEPT ![s] = FALSE]
    /\ armed' = [armed EXCEPT ![s] = @ - 1]
    /\ Sent("update")
    /\ UNCHANGED <<source, fetching, answers, waits, screen, live, behind, overtaken>>

-------------------------------------------------------------------------------
(* Update, one message at a time.                                            *)
Take(m) ==
    /\ inbox[m] > 0
    /\ inbox' = [inbox EXCEPT ![m] = @ - 1]

(* A cluster screen is drawn after every message it is given. *)
Draw == behind' = FALSE

(* FleetModel takes a list; the cluster screen ignores it. *)
HandleList(l) ==
    /\ answers[l] > 0
    /\ answers' = [answers EXCEPT ![l] = @ - 1]
    /\ listed' = IF cluster = 0 THEN l ELSE listed
    /\ Draw
    /\ UNCHANGED <<source, fetching, waits, inbox, cluster, screens, cleanup, streams, armed,
                   overtaken>>

(* A new fetchFleet is run. *)
Ask ==
    /\ fetching + SumFunction(answers) < MaxRead
    /\ fetching' = fetching + 1

(* FleetModel reads again and waits again; the cluster screen does neither.  *)
HandleChanged ==
    /\ Take("changed")
    /\ IF cluster = 0
       THEN Ask /\ waits' = waits + 1
       ELSE UNCHANGED <<fetching, waits>>
    /\ Draw
    /\ UNCHANGED <<source, answers, screen, streams, armed, overtaken>>

(* Model waits again, whichever screen's wait the message came from. *)
HandleUpdate ==
    /\ Take("update")
    /\ armed' = IF cluster = 0 THEN armed ELSE [armed EXCEPT ![cluster] = @ + 1]
    /\ Draw
    /\ UNCHANGED <<source, fetching, answers, waits, screen, streams, overtaken>>

(* Faulty variant of HandleDrill: the new screen's wait is dropped, as at    *)
(* the start of the program.                                                 *)
HandleDrillUnarmed ==
    /\ Take("drill")
    /\ screens < MaxScreen
    /\ IF reachable
       THEN LET s == screens + 1
            IN  /\ screens' = s
                /\ cluster' = s
                /\ cleanup' = s
                /\ live' = live \cup {s}
                /\ Draw
                /\ overtaken' = IF cluster = 0 THEN overtaken ELSE overtaken \cup {cluster}
       ELSE Draw /\ UNCHANGED <<cluster, screens, cleanup, live, overtaken>>
    /\ UNCHANGED <<armed, source, fetching, answers, waits, listed, update>>

(* The router builds a cluster screen, whatever is shown.  The builder asks  *)
(* the server first; if it gets no answer everything stays as it is.         *)
HandleDrill ==
    /\ Take("drill")
    /\ screens < MaxScreen
    /\ IF reachable
       THEN LET s == screens + 1
            IN  /\ screens' = s
                /\ cluster' = s
                /\ cleanup' = s
                /\ live' = live \cup {s}
                /\ armed' = [armed EXCEPT ![s] = @ + 1]
                /\ Draw
                /\ overtaken' = IF cluster = 0 THEN overtaken ELSE overtaken \cup {cluster}
       ELSE Draw /\ UNCHANGED <<cluster, screens, cleanup, live, armed, overtaken>>
    /\ UNCHANGED <<source, fetching, answers, waits, listed, update>>

-------------------------------------------------------------------------------
(* The operator.                                                             *)

(* Enter on the fleet's list sends a message to drill down. *)
Enter ==
    /\ cluster = 0
    /\ listed # Nothing
    /\ inbox["drill"] < MaxDrill
    /\ Sent("drill")
    /\ UNCHANGED <<source, fetching, answers, waits, screen, streams, armed, behind, overtaken>>

(* Faulty variant of Esc: the fleet screen is started afresh. *)
EscAndInit ==
    /\ cluster # 0
    /\ live' = live \ {cleanup}
    /\ cluster' = 0
    /\ cleanup' = 0
    /\ Ask
    /\ waits' = waits + 1
    /\ UNCHANGED <<source, answers, inbox, listed, screens, update, armed, behind, overtaken>>

(* Esc on a cluster screen cancels its stream and shows the fleet again. *)
Esc ==
    /\ cluster # 0
    /\ live' = live \ {cleanup}
    /\ cluster' = 0
    /\ cleanup' = 0
    /\ UNCHANGED <<source, fetching, answers, waits, inbox, listed, screens, update,
                   armed, behind, overtaken>>

Next ==
    \/ Change \/ Outage \/ Recover
    \/ \E s \in Screen : Put(s)
    \/ Subscribe \/ FeedEvent \/ Broken
    \/ ReadFleet \/ FleetChanged
    \/ \E l \in List : HandleList(l)
    \/ \E s \in Screen : ClusterUpdated(s)
    \/ HandleChanged \/ HandleUpdate \/ HandleDrill
    \/ Enter \/ Esc

(* Commands run, messages are handled, the source goes on.  The operator     *)
(* need do nothing.                                                          *)
Fairness ==
    /\ WF_vars(Subscribe) /\ WF_vars(FeedEvent) /\ WF_vars(Broken)
    /\ WF_vars(ReadFleet) /\ WF_vars(FleetChanged)
    /\ \A l \in List : WF_vars(HandleList(l))
    /\ \A s \in Screen : WF_vars(ClusterUpdated(s))
    /\ WF_vars(HandleChanged) /\ WF_vars(HandleUpdate)
    /\ WF_vars(HandleDrill)

SafeSpec == Init /\ [][Next]_vars
Spec == SafeSpec /\ Fairness

-------------------------------------------------------------------------------
(* The fleet's channel has at most one command waiting on it, or its message *)
(* under way: two would share the ticks.                                     *)
SingleWait == waits + inbox["changed"] <= 1

(* A stream goes on only while the router can cancel it, or because a second *)
(* drill-down has replaced its screen.                                       *)
LeakedOnlyWhenOvertaken == \A s \in live : s = cleanup \/ s \in overtaken

(* As long as no cluster is opened, the list follows the server's, whatever  *)
(* the order in which reads come back.  (Its changes are bounded.)           *)
ListFollows == [](cluster = 0) /\ <>[]reachable => <>[](listed = news)

(* A cluster screen that stays follows its store, although messages of other *)
(* screens reach it and some of its own went to others.                      *)
ScreenFollows ==
    \A s \in Screen : (cluster = s /\ behind) ~> (~behind \/ cluster # s)

(* Neither the list nor a cluster screen is left behind (Update, DrillDown). *)
ScreensFollow == ListFollows /\ ScreenFollows

===============================================================================
