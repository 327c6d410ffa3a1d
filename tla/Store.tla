-------------------------------- MODULE Store --------------------------------
(***************************************************************************)
(* The snapshot store (pkg/store) and the redraw loop that reads it        *)
(* (internal/ui/app.go).                                                   *)
(*                                                                         *)
(* A publisher replaces the snapshot of one key and then ticks every       *)
(* subscriber.  Put does this in two parts: the write and the copy of the  *)
(* subscriber list are made under the lock, the sends after it, one        *)
(* channel at a time, so other publishers, readers and subscribers run     *)
(* between any two sends.  A subscription is a channel with room for one   *)
(* tick; a send to a full channel is dropped.                              *)
(*                                                                         *)
(* A reader is the dashboard's loop: waitForUpdate takes a tick and turns  *)
(* it into a message, Update handles the message by arming waitForUpdate   *)
(* again, and View then reads the keys one Get at a time.  The next tick   *)
(* can be taken while View is still reading.  Redraws that the terminal    *)
(* causes by itself (a key, a resize) only read more often and are left    *)
(* out.                                                                    *)
(***************************************************************************)
CONSTANTS
    Key,         \* the snapshot keys
    Value,       \* the snapshots a publisher may store
    Typed,       \* those whose type is the one the reader asks for
    None,        \* what a reader gets for a key it cannot read
    Publisher,   \* the goroutines that call Put
    Subscriber   \* the channels Subscribe hands out, each with its reader

ASSUME StoreAssumption ==
    /\ Typed \subseteq Value
    /\ None \notin Value

VARIABLES
    snapshots,   \* Store.snapshots; None where the map has no entry
    subs,        \* Store.subs, as a set
    sending,     \* per publisher, the channels its Put has still to send to
    tick,        \* per channel, whether its buffer holds a tick
    waiter,      \* per reader, where its waitForUpdate command is
    unread,      \* per reader, the keys the current View has still to read
    seen         \* per reader, what it last read from each key

storeVars == <<snapshots, subs, sending, tick, waiter, unread, seen>>

(* "new" before Subscribe, "armed" while blocked on the channel, "message"   *)
(* while a dataUpdateMsg is on its way to Update.                            *)
WaiterState == {"new", "armed", "message"}

StoreTypeOK ==
    /\ snapshots \in [Key -> Value \cup {None}]
    /\ subs \subseteq Subscriber
    /\ sending \in [Publisher -> SUBSET Subscriber]
    /\ tick \in [Subscriber -> BOOLEAN]
    /\ waiter \in [Subscriber -> WaiterState]
    /\ unread \in [Subscriber -> SUBSET Key]
    /\ seen \in [Subscriber -> [Key -> Typed \cup {None}]]

StoreInit ==
    /\ snapshots = [k \in Key |-> None]
    /\ subs = {}
    /\ sending = [p \in Publisher |-> {}]
    /\ tick = [s \in Subscriber |-> FALSE]
    /\ waiter = [s \in Subscriber |-> "new"]
    /\ unread = [s \in Subscriber |-> {}]
    /\ seen = [s \in Subscriber |-> [k \in Key |-> None]]

(* Get: a missing key and a snapshot of another type both read as not ok. *)
Get(k) == IF snapshots[k] \in Typed THEN snapshots[k] ELSE None

-------------------------------------------------------------------------------
(* Put, under the lock: store the snapshot, copy the subscriber list. *)
Put(p, k, v) ==
    /\ sending[p] = {}
    /\ snapshots' = [snapshots EXCEPT ![k] = v]
    /\ sending' = [sending EXCEPT ![p] = subs]
    /\ UNCHANGED <<subs, tick, waiter, unread, seen>>

(* Put, after the lock: one non-blocking send.  A full buffer stays full. *)
Notify(p, s) ==
    /\ s \in sending[p]
    /\ sending' = [sending EXCEPT ![p] = @ \ {s}]
    /\ tick' = [tick EXCEPT ![s] = TRUE]
    /\ UNCHANGED <<snapshots, subs, waiter, unread, seen>>

(* Subscribe gives no initial tick: the program arms waitForUpdate and draws *)
(* its first View by itself.                                                 *)
Subscribe(s) ==
    /\ waiter[s] = "new"
    /\ subs' = subs \cup {s}
    /\ waiter' = [waiter EXCEPT ![s] = "armed"]
    /\ unread' = [unread EXCEPT ![s] = Key]
    /\ UNCHANGED <<snapshots, sending, tick, seen>>

(* Unsubscribe does not close the channel, and does not recall the sends of  *)
(* a Put that copied the list before.                                        *)
Unsubscribe(s) ==
    /\ s \in subs
    /\ subs' = subs \ {s}
    /\ UNCHANGED <<snapshots, sending, tick, waiter, unread, seen>>

(* waitForUpdate receives the tick and returns a dataUpdateMsg. *)
Receive(s) ==
    /\ waiter[s] = "armed"
    /\ tick[s]
    /\ tick' = [tick EXCEPT ![s] = FALSE]
    /\ waiter' = [waiter EXCEPT ![s] = "message"]
    /\ UNCHANGED <<snapshots, subs, sending, unread, seen>>

(* Faulty variant of Update: a message that arrives during a View is folded   *)
(* into it instead of drawing again.                                         *)
UpdateFolded(s) ==
    /\ waiter[s] = "message"
    /\ waiter' = [waiter EXCEPT ![s] = "armed"]
    /\ unread' = [unread EXCEPT ![s] = IF @ = {} THEN Key ELSE @]
    /\ UNCHANGED <<snapshots, subs, sending, tick, seen>>

(* Update handles it: waitForUpdate is armed again and View starts.  The     *)
(* event loop draws one View at a time.                                      *)
Update(s) ==
    /\ waiter[s] = "message"
    /\ unread[s] = {}
    /\ waiter' = [waiter EXCEPT ![s] = "armed"]
    /\ unread' = [unread EXCEPT ![s] = Key]
    /\ UNCHANGED <<snapshots, subs, sending, tick, seen>>

(* View reads one key, under the read lock. *)
Read(s, k) ==
    /\ k \in unread[s]
    /\ unread' = [unread EXCEPT ![s] = @ \ {k}]
    /\ seen' = [seen EXCEPT ![s][k] = Get(k)]
    /\ UNCHANGED <<snapshots, subs, sending, tick, waiter>>

StoreNext ==
    \/ \E p \in Publisher, k \in Key, v \in Value : Put(p, k, v)
    \/ \E p \in Publisher, s \in Subscriber : Notify(p, s)
    \/ \E s \in Subscriber :
          \/ Subscribe(s)
          \/ Unsubscribe(s)
          \/ Receive(s)
          \/ Update(s)
    \/ \E s \in Subscriber, k \in Key : Read(s, k)

(* Goroutines that can run do run.  Nobody has to publish, subscribe or      *)
(* unsubscribe.                                                              *)
StoreFairness ==
    /\ \A p \in Publisher, s \in Subscriber : WF_storeVars(Notify(p, s))
    /\ \A s \in Subscriber : WF_storeVars(Receive(s)) /\ WF_storeVars(Update(s))
    /\ \A s \in Subscriber, k \in Key : WF_storeVars(Read(s, k))

StoreSafeSpec == StoreInit /\ [][StoreNext]_storeVars
StoreSpec == StoreSafeSpec /\ StoreFairness

-------------------------------------------------------------------------------
(* Something has yet to happen that makes reader s read key k again: this    *)
(* View has not reached it, a message or a tick is waiting, or a Put has     *)
(* still to send.                                                            *)
WillRead(s, k) ==
    \/ k \in unread[s]
    \/ waiter[s] = "message"
    \/ tick[s]
    \/ \E p \in Publisher : s \in sending[p]

(* Dropping ticks loses no change.  Whatever the interleaving of publishers, *)
(* of the sends of one Put and of a View that reads while both go on, a      *)
(* subscribed reader that is out of date on a key has a re-read coming.      *)
(* This is the promise of the comment on Put: a subscriber that misses a     *)
(* tick catches up on the next one.                                          *)
NoLostWakeup ==
    \A s \in subs, k \in Key : seen[s][k] # Get(k) => WillRead(s, k)

(* The store implements ChangeFeed: the source is what Get returns, the      *)
(* readers' copies are what they last read.  Liveness is included: a reader  *)
(* that stays subscribed keeps refreshing whatever is out of date.           *)
Feed == INSTANCE ChangeFeed WITH
            Reader <- Subscriber,
            Value <- Typed,
            current <- [k \in Key |-> Get(k)],
            view <- seen,
            listening <- subs

ImplementsChangeFeed == Feed!Spec

===============================================================================
