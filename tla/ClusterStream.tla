---------------------------- MODULE ClusterStream ----------------------------
(***************************************************************************)
(* One cluster's stream to a terminal client: the handler that dumps the   *)
(* cluster's store (handleAPIClusterStream in internal/web/api.go, Dump in *)
(* internal/wire), the connection, and the ClusterSource that fills the    *)
(* client's store from it (internal/remote/cluster_source.go, Load).       *)
(*                                                                         *)
(* A snapshot is the number of the Put it came from and the paths of the   *)
(* errors in it, which travel beside the data.  The client decodes every   *)
(* frame into the slice it decoded the last one into: the decoder reuses   *)
(* its elements, overwrites key and data, and merges an entry's errors     *)
(* into the map that is there, or leaves the map alone when the entry has  *)
(* none.  Load is one step: module Store is about a reader that looks      *)
(* while Puts go on.                                                       *)
(***************************************************************************)
EXTENDS Naturals, Sequences

CONSTANTS
    Key,        \* the store's keys, numbered in the order sort.Strings gives them
    Path,       \* where in a snapshot an error can sit
    Absent,     \* no snapshot under a key
    MaxPut,     \* bound: snapshots collected
    MaxStore,   \* bound: collectors started for this cluster
    MaxFlight   \* bound: frames the connection holds

Snapshot == [data : 1..MaxPut, errs : SUBSET Path]

ASSUME ClusterStreamAssumption ==
    /\ Key \subseteq Nat
    /\ Absent \notin Snapshot
    /\ MaxPut \in Nat
    /\ MaxStore \in Nat \ {0}
    /\ MaxFlight \in Nat \ {0}

VARIABLES
    stores,     \* the stores of this cluster's collectors, the latest last
    tracked,    \* whether the fleet's map has the latest
    puts,       \* the Puts so far
    tick,       \* whether the fleet's Changed channel holds a tick
    reachable,  \* whether a connection can be made and holds
    handler,    \* the handler of the client's request
    conn,       \* where ClusterSource.Run is; "off" before it is started
    flight,     \* frames sent and not yet read
    ended,      \* how the response ended, once flight is read
    slots,      \* the error paths left in the elements of the client's slice
    shown,      \* the client's store
    problem,    \* whether ClusterSource.problem is set
    delivered   \* history: whether this response has brought a frame

vars == <<stores, tracked, puts, tick, reachable, handler, conn, flight, ended,
          slots, shown, problem, delivered>>

server == <<stores, tracked, puts>>
client == <<slots, shown, problem, delivered>>

Contents == [Key -> Snapshot \cup {Absent}]
Entry == [key : Key, data : 1..MaxPut, errs : SUBSET Path]
Frame == Seq(Entry)

(* "asked": the request has arrived.  "dumping": Dump has taken Keys of      *)
(* store "of" and has yet to read those unread.                              *)
Handler ==
    [step : {"none", "asked", "waiting"}]
        \cup [step : {"dumping"}, of : 1..MaxStore, unread : SUBSET Key, frame : Frame]

NoHandler == [step |-> "none"]

Domains ==
    /\ stores \in Seq(Contents) /\ Len(stores) \in 1..MaxStore
    /\ tracked \in BOOLEAN
    /\ puts \in 0..MaxPut
    /\ tick \in BOOLEAN
    /\ reachable \in BOOLEAN
    /\ handler \in Handler
    /\ handler.step = "dumping" => handler.of <= Len(stores)
    /\ conn \in {"off", "idle", "asking", "reading", "backoff"}
    /\ flight \in Seq(Frame) /\ Len(flight) <= MaxFlight
    /\ ended \in {"no", "eof", "error"}
    /\ slots \in Seq(SUBSET Path)
    /\ shown \in Contents
    /\ problem \in BOOLEAN
    /\ delivered \in BOOLEAN

(* A handler works for a request that is open. *)
TypeOK ==
    /\ Domains
    /\ handler.step # "none" => conn \in {"asking", "reading"}

Empty == [k \in Key |-> Absent]

Init ==
    /\ stores = <<Empty>>
    /\ tracked = TRUE
    /\ puts = 0
    /\ tick = FALSE
    /\ reachable = TRUE
    /\ handler = NoHandler
    /\ conn = "off"
    /\ flight = <<>>
    /\ ended = "no"
    /\ slots = <<>>
    /\ shown = Empty
    /\ problem = FALSE
    /\ delivered = FALSE

-------------------------------------------------------------------------------
(* The fleet.                                                                *)

(* A watcher or plugin of the running collector publishes. *)
Collect(k, errs) ==
    /\ tracked
    /\ puts < MaxPut
    /\ puts' = puts + 1
    /\ stores' = [stores EXCEPT ![Len(stores)][k] = [data |-> puts + 1, errs |-> errs]]
    /\ UNCHANGED <<tracked, tick, reachable, handler, conn, flight, ended, client>>

(* The cluster leaves the map: it is gone, or its credentials have changed. *)
Vanish ==
    /\ tracked
    /\ tracked' = FALSE
    /\ UNCHANGED <<stores, puts, tick, reachable, handler, conn, flight, ended, client>>

(* A new collector has a new store. *)
Return ==
    /\ ~tracked
    /\ Len(stores) < MaxStore
    /\ tracked' = TRUE
    /\ stores' = Append(stores, Empty)
    /\ UNCHANGED <<puts, tick, reachable, handler, conn, flight, ended, client>>

(* notify.  Module FleetFeed is about when; here it may be at any time, and  *)
(* the rediscovery timer does it ever again.                                 *)
Notify ==
    /\ tick' = TRUE
    /\ UNCHANGED <<server, reachable, handler, conn, flight, ended, client>>

(* Another stream takes the tick. *)
Deprive ==
    /\ tick
    /\ tick' = FALSE
    /\ UNCHANGED <<server, reachable, handler, conn, flight, ended, client>>

-------------------------------------------------------------------------------
(* The network.  A connection that has broken may deliver what has arrived,  *)
(* or some of it, and then ends in an error, never in an EOF.                *)
Outage ==
    /\ reachable
    /\ reachable' = FALSE
    /\ UNCHANGED <<server, tick, handler, conn, flight, ended, client>>

Recover ==
    /\ ~reachable
    /\ reachable' = TRUE
    /\ UNCHANGED <<server, tick, handler, conn, flight, ended, client>>

Break ==
    /\ ~reachable
    /\ conn \in {"asking", "reading"}
    /\ ended = "no"
    /\ ended' = "error"
    /\ handler' = NoHandler
    /\ \E n \in 0..Len(flight) : flight' = SubSeq(flight, 1, n)
    /\ UNCHANGED <<server, tick, reachable, conn, client>>

-------------------------------------------------------------------------------
(* The handler.                                                              *)

(* Faulty variant of Look: a store that is gone ends the response without a  *)
(* status of its own.                                                        *)
LookSilent ==
    IF tracked
    THEN /\ handler' = [step |-> "dumping", of |-> Len(stores), frame |-> <<>>,
                        unread |-> {k \in Key : stores[Len(stores)][k] # Absent}]
         /\ UNCHANGED ended
    ELSE handler' = NoHandler /\ ended' = "eof"

(* send looks the cluster up.  Without it the first send answers "not found" *)
(* and a later one ends the response.                                        *)
Look ==
    IF tracked
    THEN /\ handler' = [step |-> "dumping", of |-> Len(stores), frame |-> <<>>,
                        unread |-> {k \in Key : stores[Len(stores)][k] # Absent}]
         /\ UNCHANGED ended
    ELSE /\ handler' = NoHandler
         /\ ended' = IF conn = "asking" THEN "error" ELSE "eof"

FirstLook ==
    /\ handler.step = "asked"
    /\ Look
    /\ UNCHANGED <<server, tick, reachable, conn, flight, client>>

(* The handler takes a tick and sends again. *)
TakeTick ==
    /\ handler.step = "waiting"
    /\ tick
    /\ tick' = FALSE
    /\ Look
    /\ UNCHANGED <<server, reachable, conn, flight, client>>

(* Dump reads the next key with Raw.  Errors are collected beside the data.  *)
DumpKey ==
    /\ handler.step = "dumping"
    /\ \E k \in handler.unread :
          /\ \A l \in handler.unread : k <= l
          /\ LET v == stores[handler.of][k]
             IN  handler' = [handler EXCEPT
                    !.unread = @ \ {k},
                    !.frame = Append(@, [key |-> k, data |-> v.data, errs |-> v.errs])]
    /\ UNCHANGED <<server, tick, reachable, conn, flight, ended, client>>

(* The frame is flushed, with the status if it is the first. *)
Send ==
    /\ handler.step = "dumping"
    /\ handler.unread = {}
    /\ Len(flight) < MaxFlight
    /\ flight' = Append(flight, handler.frame)
    /\ handler' = [step |-> "waiting"]
    /\ conn' = "reading"
    /\ UNCHANGED <<server, tick, reachable, ended, client>>

-------------------------------------------------------------------------------
(* The client.                                                               *)

(* BuildServerClusterModel: Detect has found the cluster; Run starts on a    *)
(* store of its own.                                                         *)
Open ==
    /\ conn = "off"
    /\ reachable /\ tracked
    /\ conn' = "idle"
    /\ shown' = Empty
    /\ problem' = FALSE
    /\ UNCHANGED <<server, tick, reachable, handler, flight, ended, slots, delivered>>

(* The cleanup cancels Run, and with it the request. *)
Close ==
    /\ conn # "off"
    /\ conn' = "off"
    /\ handler' = NoHandler
    /\ flight' = <<>>
    /\ ended' = "no"
    /\ UNCHANGED <<server, tick, reachable, client>>

(* stream makes its request. *)
Request ==
    /\ conn = "idle"
    /\ slots' = <<>>
    /\ delivered' = FALSE
    /\ IF reachable
       THEN conn' = "asking" /\ handler' = [step |-> "asked"] /\ UNCHANGED problem
       ELSE conn' = "backoff" /\ problem' = TRUE /\ UNCHANGED handler
    /\ UNCHANGED <<server, tick, reachable, flight, ended, shown>>

(* Run waits before it tries again. *)
Retry ==
    /\ conn = "backoff"
    /\ conn' = "idle"
    /\ UNCHANGED <<server, tick, reachable, handler, flight, ended, client>>

(* Faulty variant of Decode: the errors beside the data are not put back. *)
DecodePlain(f) == [i \in 1..Len(f) |-> [f[i] EXCEPT !.errs = {}]]

(* What Unmarshal leaves in the slice: the elements of the frame, each with  *)
(* the errors of the element that was there before.                          *)
Decode(f) ==
    [i \in 1..Len(f) |->
        IF i <= Len(slots) THEN [f[i] EXCEPT !.errs = @ \cup slots[i]] ELSE f[i]]

(* The elements beyond a shorter frame stay in the slice's array; an empty   *)
(* store is dumped as null, which lets go of it.                             *)
Kept(f) ==
    IF f = <<>> THEN <<>>
    ELSE [i \in 1..(IF Len(f) < Len(slots) THEN Len(slots) ELSE Len(f)) |->
             IF i <= Len(f) THEN Decode(f)[i].errs ELSE slots[i]]

(* One frame is decoded and loaded. *)
Load ==
    /\ conn = "reading"
    /\ flight # <<>>
    /\ flight' = Tail(flight)
    /\ LET f == Head(flight)
           entries == Decode(f)
       IN  /\ slots' = Kept(f)
           /\ shown' = [k \in Key |->
                 IF \E i \in DOMAIN entries : entries[i].key = k
                 THEN LET i == CHOOSE i \in DOMAIN entries : entries[i].key = k
                      IN  [data |-> entries[i].data, errs |-> entries[i].errs]
                 ELSE shown[k]]
    /\ problem' = FALSE
    /\ delivered' = TRUE
    /\ UNCHANGED <<server, tick, reachable, handler, conn, ended>>

(* The response ends.  Run goes round at once after an EOF; anything else is *)
(* recorded and waited out.                                                  *)
EndResponse ==
    /\ conn \in {"asking", "reading"}
    /\ ended # "no"
    /\ flight = <<>>
    /\ ended' = "no"
    /\ IF ended = "eof"
       THEN conn' = "idle" /\ UNCHANGED problem
       ELSE conn' = "backoff" /\ problem' = TRUE
    /\ UNCHANGED <<server, tick, reachable, handler, flight, slots, shown, delivered>>

-------------------------------------------------------------------------------
Next ==
    \/ \E k \in Key, errs \in SUBSET Path : Collect(k, errs)
    \/ Vanish \/ Return \/ Notify \/ Deprive
    \/ Outage \/ Recover \/ Break
    \/ FirstLook \/ TakeTick \/ DumpKey \/ Send
    \/ Open \/ Close \/ Request \/ Retry \/ Load \/ EndResponse

(* The goroutines on both sides run, the backoff passes, and a connection    *)
(* over a dead network is given up in the end (the dialer's keepalive).  The *)
(* timer notifies, and a handler that waits for a tick is served in its turn *)
(* with the other streams.                                                   *)
Fairness ==
    /\ WF_vars(Notify) /\ SF_vars(TakeTick)
    /\ WF_vars(FirstLook) /\ WF_vars(DumpKey) /\ WF_vars(Send)
    /\ WF_vars(Request) /\ WF_vars(Retry) /\ WF_vars(Load) /\ WF_vars(EndResponse)
    /\ WF_vars(Break)

SafeSpec == Init /\ [][Next]_vars
Spec == SafeSpec /\ Fairness

-------------------------------------------------------------------------------
Held == stores[Len(stores)]
Served == conn # "off" /\ reachable /\ tracked

(* The client has the data, and no failure less, of what is held. *)
Current(k) ==
    IF Absent \in {Held[k], shown[k]} THEN Held[k] = Absent
    ELSE shown[k].data = Held[k].data /\ Held[k].errs \subseteq shown[k].errs

(* What the collector holds reaches the client: once the Puts are over (they *)
(* are bounded) its data is shown for good, and a failure in it is never     *)
(* shown as health, through lost ticks, torn dumps, restarted collectors and *)
(* broken connections.  (The head of errfields.go is about this.)            *)
Follows ==
    \A k \in Key :
        <>[](Served /\ Held[k] # Absent)
            => <>[]Current(k)

(* A stream that can no longer be had is a problem in the end, and stays     *)
(* one; it is not taken for a stream with nothing to say.                    *)
RefusalIsReported == <>[](conn # "off" /\ ~(reachable /\ tracked)) => <>[]problem

(* Once the server answers again, the problem goes. *)
ProblemClears == <>[]Served => <>[]~problem

(* The header's problem follows the server, whether it refuses, is out of    *)
(* reach or lets go of the cluster's store (Run, stream, Look).              *)
ProblemFollows == RefusalIsReported /\ ProblemClears

(* What a frame has for a key is what a Load puts there, and no failure in   *)
(* it is lost.  (That it may add some is shown below.)                       *)
NoFailureLost ==
    [][Load => \A i \in DOMAIN Head(flight) :
                  LET e == Head(flight)[i]
                  IN  /\ shown'[e.key].data = e.data
                      /\ e.errs \subseteq shown'[e.key].errs]_vars

(* Run goes round without waiting only after a response that has brought     *)
(* something, so a server that refuses is never asked again at once.         *)
NoHotRetry ==
    [][(conn \in {"asking", "reading"} /\ conn' = "idle") => delivered]_vars

-------------------------------------------------------------------------------
(* What the comments of the source say and the code does not do.             *)

(* "The client decodes each entry independently" (handleAPIClusterStream):   *)
(* what a Load puts under a key is what the frame has for it.                *)
EntriesIndependent ==
    [][Load => \A i \in DOMAIN Head(flight) :
                  LET e == Head(flight)[i]
                  IN  shown'[e.key] = [data |-> e.data, errs |-> e.errs]]_vars

===============================================================================
