----------------------------- MODULE EventWatch -----------------------------
(***************************************************************************)
(* The events key of the workload watcher (internal/core/workload).  Three *)
(* things write it besides each other: Run says once what it waits for,    *)
(* the watch-error handlers report failures until there has been a result, *)
(* and publishEvents writes the result, from the coalescer and, when all   *)
(* informers have synced, from waitThenPublish.  publishEvents raises the  *)
(* eventsPublished flag before its Put, and a handler looks at the flag    *)
(* before its own.                                                         *)
(*                                                                         *)
(* What a result holds is not told apart here.  The collector runs on; how *)
(* a canceled one ends is in module Watcher.                               *)
(***************************************************************************)
CONSTANTS
    Namespace,   \* the namespaces a profile may ask for
    All          \* the one informer for all of them, which the pane is told about

ASSUME EventWatchAssumption == All \notin Namespace

Watch == Namespace \cup {All}
Publisher == {"coalesce", "initial"}

VARIABLES
    watches,   \* the event informers Run has made
    served,    \* the informers the API server serves
    listed,      \* the informers whose first list is complete
    stale,       \* the coalescer's flag
    noted,       \* whether Run is past its note
    first,     \* whether waitThenPublish is still "waiting", or "over"
    publishing,        \* per publisher: "idle", "listing" or "putting"
    published,   \* eventsPublished
    reporting,   \* the informers whose error handler is past its look at the flag
    pane        \* what the key holds: "absent", "note", "error" or "events"

eventVars == <<watches, served, listed, stale, noted, first, publishing, published, reporting, pane>>

EventsTypeOK ==
    /\ watches \subseteq Watch
    /\ served \subseteq Watch
    /\ listed \subseteq Watch
    /\ stale \in BOOLEAN
    /\ noted \in BOOLEAN
    /\ first \in {"waiting", "over"}
    /\ publishing \in [Publisher -> {"idle", "listing", "putting"}]
    /\ published \in BOOLEAN
    /\ reporting \subseteq Watch
    /\ pane \in {"absent", "note", "error", "events"}

EventsInit ==
    /\ watches \in (SUBSET Namespace) \cup {{All}}
    /\ served \in SUBSET watches
    /\ listed = {}
    /\ stale = FALSE
    /\ noted = FALSE
    /\ first = "waiting"
    /\ publishing = [p \in Publisher |-> "idle"]
    /\ published = FALSE
    /\ reporting = {}
    /\ pane = "absent"

-------------------------------------------------------------------------------
(* The API server begins or ceases to serve a watch: a permission, an outage *)
(* or an expired resource version.                                           *)
Begins(w) ==
    /\ w \in watches \ served
    /\ served' = served \cup {w}
    /\ UNCHANGED <<watches, listed, stale, noted, first, publishing, published, reporting, pane>>

Ceases(w) ==
    /\ w \in served
    /\ served' = served \ {w}
    /\ UNCHANGED <<watches, listed, stale, noted, first, publishing, published, reporting, pane>>

(* The first list; it calls a handler only if there is an event in it. *)
FirstEventList(w) ==
    /\ w \in served \ listed
    /\ listed' = listed \cup {w}
    /\ stale' \in {stale, TRUE}
    /\ UNCHANGED <<watches, served, noted, first, publishing, published, reporting, pane>>

(* A later event, or the resync of one. *)
EventArrives(w) ==
    /\ w \in served \cap listed
    /\ stale' = TRUE
    /\ UNCHANGED <<watches, served, listed, noted, first, publishing, published, reporting, pane>>

(* Faulty variant of WatchFails: a note keeps the handlers quiet, too. *)
WatchFailsUnnoted(w) ==
    /\ w \in watches \ served
    /\ ~published /\ pane # "note"
    /\ reporting' = reporting \cup {w}
    /\ UNCHANGED <<watches, served, listed, stale, noted, first, publishing, published, pane>>

(* The error handler of an informer that is not served: unless there has     *)
(* been a result, it is going to report.                                     *)
WatchFails(w) ==
    /\ w \in watches \ served
    /\ ~published
    /\ reporting' = reporting \cup {w}
    /\ UNCHANGED <<watches, served, listed, stale, noted, first, publishing, published, pane>>

ReportFailure(w) ==
    /\ w \in reporting
    /\ reporting' = reporting \ {w}
    /\ pane' = "error"
    /\ UNCHANGED <<watches, served, listed, stale, noted, first, publishing, published>>

-------------------------------------------------------------------------------
(* Run: the watches have been started; say what the pane waits for, if it  *)
(* is going to take long.                                                    *)
SayNote ==
    /\ ~noted
    /\ noted' = TRUE
    /\ pane' = IF watches = {All} THEN "note" ELSE pane
    /\ UNCHANGED <<watches, served, listed, stale, first, publishing, published, reporting>>

EventsTick ==
    /\ publishing["coalesce"] = "idle"
    /\ stale
    /\ stale' = FALSE
    /\ publishing' = [publishing EXCEPT !["coalesce"] = "listing"]
    /\ UNCHANGED <<watches, served, listed, noted, first, published, reporting, pane>>

(* waitThenPublish: every informer has synced. *)
InitialEvents ==
    /\ noted
    /\ first = "waiting"
    /\ listed = watches
    /\ first' = "over"
    /\ publishing' = [publishing EXCEPT !["initial"] = "listing"]
    /\ UNCHANGED <<watches, served, listed, stale, noted, published, reporting, pane>>

(* publishEvents: the lists are made; from here on errors are not news. *)
Flag(p) ==
    /\ publishing[p] = "listing"
    /\ publishing' = [publishing EXCEPT ![p] = "putting"]
    /\ published' = TRUE
    /\ UNCHANGED <<watches, served, listed, stale, noted, first, reporting, pane>>

PutEvents(p) ==
    /\ publishing[p] = "putting"
    /\ publishing' = [publishing EXCEPT ![p] = "idle"]
    /\ pane' = "events"
    /\ UNCHANGED <<watches, served, listed, stale, noted, first, published, reporting>>

EventsNext ==
    \/ \E w \in Watch :
          \/ Begins(w) \/ Ceases(w)
          \/ FirstEventList(w) \/ EventArrives(w)
          \/ WatchFails(w) \/ ReportFailure(w)
    \/ SayNote
    \/ EventsTick
    \/ InitialEvents
    \/ \E p \in Publisher : Flag(p) \/ PutEvents(p)

(* The goroutines run and the watches try again for ever. *)
EventsFairness ==
    /\ \A w \in Watch : WF_eventVars(FirstEventList(w)) /\ WF_eventVars(WatchFails(w)) /\ WF_eventVars(ReportFailure(w))
    /\ WF_eventVars(SayNote) /\ WF_eventVars(EventsTick) /\ WF_eventVars(InitialEvents)
    /\ \A p \in Publisher : WF_eventVars(Flag(p)) /\ WF_eventVars(PutEvents(p))

EventsSafeSpec == EventsInit /\ [][EventsNext]_eventVars
EventsSpec == EventsSafeSpec /\ EventsFairness

-------------------------------------------------------------------------------
(* A watch that is not served at all ends up in the pane as an error, and    *)
(* stays there, although the note is said after the informers have started.  *)
FailureIsNotSilence ==
    [](served = {} /\ watches # {}) => <>[](pane = "error")

(* Once every watch is served, a result is shown, although there may be no   *)
(* event at all and the handlers may have reported errors before.            *)
ResultArrives == <>[](served = watches) => <>(pane = "events")

(* The events pane is answered either way, whoever writes its key last:      *)
(* publishEvents, the error handlers or Run's note.                          *)
EventsAreAnswered == FailureIsNotSilence /\ ResultArrives

===============================================================================
