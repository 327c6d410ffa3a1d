------------------------------ MODULE ChangeFeed ------------------------------
(***************************************************************************)
(* What a snapshot store with lossy change ticks promises its readers: a   *)
(* source changes, every reader keeps its own copy, and a reader that is   *)
(* listening brings each key of its copy up to date again and again, for   *)
(* as long as it differs from the source.  There are no ticks, channels or *)
(* locks here; module Store implements this specification.                 *)
(***************************************************************************)
CONSTANTS
    Key,      \* the snapshot keys
    Reader,   \* the readers
    Value,    \* what a key can read as
    None      \* what a key that holds nothing reads as

VARIABLES
    current,    \* what each key reads as now
    view,       \* what each reader last read, key by key
    listening   \* the readers the promise is made to

vars == <<current, view, listening>>

TypeOK ==
    /\ current \in [Key -> Value \cup {None}]
    /\ view \in [Reader -> [Key -> Value \cup {None}]]
    /\ listening \subseteq Reader

Init ==
    /\ current = [k \in Key |-> None]
    /\ view = [r \in Reader |-> [k \in Key |-> None]]
    /\ listening = {}

(* The source replaces one key. *)
Change(k, v) ==
    /\ current' = [current EXCEPT ![k] = v]
    /\ UNCHANGED <<view, listening>>

(* A reader reads one key. *)
Refresh(r, k) ==
    /\ view' = [view EXCEPT ![r][k] = current[k]]
    /\ UNCHANGED <<current, listening>>

Join(r) ==
    /\ listening' = listening \cup {r}
    /\ UNCHANGED <<current, view>>

Leave(r) ==
    /\ listening' = listening \ {r}
    /\ UNCHANGED <<current, view>>

Next ==
    \/ \E k \in Key, v \in Value \cup {None} : Change(k, v)
    \/ \E r \in Reader, k \in Key : Refresh(r, k)
    \/ \E r \in Reader : Join(r) \/ Leave(r)

(* A listening reader whose copy of a key is out of date refreshes it. *)
Fairness ==
    \A r \in Reader, k \in Key : WF_vars(r \in listening /\ Refresh(r, k))

SafeSpec == Init /\ [][Next]_vars
Spec == SafeSpec /\ Fairness

===============================================================================
