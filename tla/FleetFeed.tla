------------------------------ MODULE FleetFeed ------------------------------
(***************************************************************************)
(* How a change in one cluster's store reaches the pages: the relay loop   *)
(* at the end of a collector's goroutine (Fleet.start in                   *)
(* internal/fleet/fleet.go), the fleet's one Changed channel, and the      *)
(* event streams that wait on it (stream in internal/web/server.go,        *)
(* handleAPIEvents and handleAPIClusterEvents in internal/web/api.go).     *)
(*                                                                         *)
(* A store is a version number that Put raises; module Store is about the  *)
(* Put itself and its tick.  The Changed channel holds one tick and is     *)
(* shared: whichever stream receives a tick has taken it from the others.  *)
(***************************************************************************)
EXTENDS Naturals

CONSTANTS
    Cluster,     \* the clusters with a running collector
    Stream,      \* the connections that may be open at the same time
    MaxVersion   \* bound: Puts per cluster

ASSUME FleetFeedAssumption == MaxVersion \in Nat

VARIABLES
    version,      \* per cluster, how many Puts its store has seen
    subscribed,   \* per cluster, whether its collector has come to its relay loop
    tick,         \* per cluster, whether its relay's channel holds a tick
    window,       \* per cluster, whether CoalesceWindow has passed since its last notify
    changed,      \* whether the Changed channel holds a tick
    state,        \* per stream: "closed", "waiting" on the channel or "rendering"
    toRead,       \* per stream, the clusters the frame under way has still to read
    page,         \* per stream, the version of each cluster its page shows
    announced,    \* history: the versions as of the last notify
    deprived      \* history: the streams that have lost a tick to another one
                  \* since they started their last frame

feedVars == <<version, subscribed, tick, window, changed, state, toRead, page, announced, deprived>>

store == <<version, subscribed, tick>>
stream == <<state, toRead, page, deprived>>

Version == 0..MaxVersion

FeedTypeOK ==
    /\ version \in [Cluster -> Version]
    /\ subscribed \in [Cluster -> BOOLEAN]
    /\ tick \in [Cluster -> BOOLEAN]
    /\ window \in [Cluster -> {"passed", "running"}]
    /\ changed \in BOOLEAN
    /\ state \in [Stream -> {"closed", "waiting", "rendering"}]
    /\ toRead \in [Stream -> SUBSET Cluster]
    /\ \A s \in Stream : toRead[s] # {} => state[s] = "rendering"
    /\ page \in [Stream -> [Cluster -> Version]]
    /\ announced \in [Cluster -> Version]
    /\ deprived \subseteq Stream

FeedInit ==
    /\ version = [c \in Cluster |-> 0]
    /\ subscribed = [c \in Cluster |-> FALSE]
    /\ tick = [c \in Cluster |-> FALSE]
    /\ window = [c \in Cluster |-> "passed"]
    /\ changed = FALSE
    /\ state = [s \in Stream |-> "closed"]
    /\ toRead = [s \in Stream |-> {}]
    /\ page = [s \in Stream |-> [c \in Cluster |-> 0]]
    /\ announced = [c \in Cluster |-> 0]
    /\ deprived = {}

-------------------------------------------------------------------------------
(* A collector publishes: the store changes and ticks its subscriber, if it  *)
(* has one already.                                                          *)
FeedPut(c) ==
    /\ version[c] < MaxVersion
    /\ version' = [version EXCEPT ![c] = @ + 1]
    /\ tick' = IF subscribed[c] THEN [tick EXCEPT ![c] = TRUE] ELSE tick
    /\ UNCHANGED <<subscribed, window, changed, stream, announced>>

(* Watch and Activate are through; the relay subscribes.  The watchers have  *)
(* been publishing since Watch.                                              *)
Subscribe(c) ==
    /\ ~subscribed[c]
    /\ subscribed' = [subscribed EXCEPT ![c] = TRUE]
    /\ UNCHANGED <<version, tick, window, changed, stream, announced>>

(* notify: a send that is dropped when the channel already holds a tick. *)
Notify ==
    /\ changed' = TRUE
    /\ announced' = version

(* The relay takes a tick.  Within CoalesceWindow of its last notify it      *)
(* drops it, and no later step makes up for that.                            *)
Relay(c) ==
    /\ tick[c]
    /\ tick' = [tick EXCEPT ![c] = FALSE]
    /\ IF window[c] = "running"
       THEN UNCHANGED <<window, changed, announced>>
       ELSE /\ window' = [window EXCEPT ![c] = "running"]
            /\ Notify
    /\ UNCHANGED <<version, subscribed, stream>>

WindowPasses(c) ==
    /\ window[c] = "running"
    /\ window' = [window EXCEPT ![c] = "passed"]
    /\ UNCHANGED <<store, changed, stream, announced>>

(* Faulty variant of Rediscover: notify only when the list has changed. *)
RediscoverQuiet == UNCHANGED feedVars

(* reconcile, on its timer, notifies whatever it found.  (So do the probes   *)
(* and the reachability callback, once each.)                                *)
Rediscover ==
    /\ Notify
    /\ UNCHANGED <<store, window, stream>>

-------------------------------------------------------------------------------
(* A browser connects; the first frame goes out at once. *)
Open(s) ==
    /\ state[s] = "closed"
    /\ state' = [state EXCEPT ![s] = "rendering"]
    /\ toRead' = [toRead EXCEPT ![s] = Cluster]
    /\ deprived' = deprived \ {s}
    /\ UNCHANGED <<store, window, changed, page, announced>>

(* The stream receives a tick and starts its next frame. *)
Receive(s) ==
    /\ state[s] = "waiting"
    /\ changed
    /\ changed' = FALSE
    /\ state' = [state EXCEPT ![s] = "rendering"]
    /\ toRead' = [toRead EXCEPT ![s] = Cluster]
    /\ deprived' = Stream \ {s}
    /\ UNCHANGED <<store, window, page, announced>>

(* View reads one store after the other. *)
Read(s, c) ==
    /\ c \in toRead[s]
    /\ page' = [page EXCEPT ![s][c] = version[c]]
    /\ toRead' = [toRead EXCEPT ![s] = @ \ {c}]
    /\ UNCHANGED <<store, window, changed, state, deprived, announced>>

(* Faulty variant of Send: a tick that came while rendering is thrown away. *)
SendAndDrain(s) ==
    /\ state[s] = "rendering"
    /\ toRead[s] = {}
    /\ state' = [state EXCEPT ![s] = "waiting"]
    /\ changed' = FALSE
    /\ UNCHANGED <<store, window, toRead, page, deprived, announced>>

(* The frame is flushed and the stream waits again. *)
Send(s) ==
    /\ state[s] = "rendering"
    /\ toRead[s] = {}
    /\ state' = [state EXCEPT ![s] = "waiting"]
    /\ UNCHANGED <<store, window, changed, toRead, page, deprived, announced>>

(* The browser goes away, with whatever tick the stream has taken. *)
Close(s) ==
    /\ state[s] # "closed"
    /\ state' = [state EXCEPT ![s] = "closed"]
    /\ toRead' = [toRead EXCEPT ![s] = {}]
    /\ UNCHANGED <<store, window, changed, page, deprived, announced>>

FeedNext ==
    \/ \E c \in Cluster : FeedPut(c) \/ Subscribe(c) \/ Relay(c) \/ WindowPasses(c)
    \/ Rediscover
    \/ \E s \in Stream : Open(s) \/ Receive(s) \/ Send(s) \/ Close(s)
    \/ \E s \in Stream, c \in Cluster : Read(s, c)

(* The goroutines run and the timers fire; nobody need publish, connect or   *)
(* disconnect.  Receive is strongly fair because Go hands a value to the     *)
(* receiver that has waited longest: a stream that has just been served      *)
(* queues behind the others.                                                 *)
FeedFairness ==
    /\ \A c \in Cluster : WF_feedVars(Subscribe(c)) /\ WF_feedVars(Relay(c)) /\ WF_feedVars(WindowPasses(c))
    /\ WF_feedVars(Rediscover)
    /\ \A s \in Stream : SF_feedVars(Receive(s)) /\ WF_feedVars(Send(s))
    /\ \A s \in Stream, c \in Cluster : WF_feedVars(Read(s, c))

FeedSafeSpec == FeedInit /\ [][FeedNext]_feedVars
FeedSpec == FeedSafeSpec /\ FeedFairness

-------------------------------------------------------------------------------
(* A notify is only lost to another stream.  If a stream waits, the channel  *)
(* is empty and no other stream has taken a tick since this one started its  *)
(* frame, its page shows what the last notify announced, or something newer, *)
(* although sends are dropped and View reads the clusters one by one while   *)
(* they change.                                                              *)
LostOnlyToOthers ==
    \A s \in Stream :
        state[s] = "waiting" /\ ~changed /\ s \notin deprived =>
            \A c \in Cluster : page[s][c] >= announced[c]

(* Every stream that stays open catches up with a fleet that has come to     *)
(* rest, whatever ticks it lost to a window, to other streams or to a late   *)
(* Subscribe.  The rediscovery timer sees to that.                           *)
EventuallyFresh ==
    \A s \in Stream, c \in Cluster, v \in Version :
        <>[](version[c] = v /\ state[s] # "closed") => <>[](page[s][c] = v)

===============================================================================
