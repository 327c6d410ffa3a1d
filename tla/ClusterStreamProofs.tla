------------------------- MODULE ClusterStreamProofs -------------------------
(***************************************************************************)
(* Proofs about module ClusterStream, for every set of keys and error      *)
(* paths and all bounds: the state keeps its type, Load loses no failure,  *)
(* and Run never asks a refusing server again without waiting.             *)
(***************************************************************************)
EXTENDS ClusterStream, TLAPS

(* A frame names every key at most once, in sorted order. *)
Ordered(f) == \A i, j \in DOMAIN f : i < j => f[i].key < f[j].key

DumpOK ==
    handler.step = "dumping" =>
        /\ Ordered(handler.frame)
        /\ \A k \in handler.unread :
              /\ \A i \in DOMAIN handler.frame : handler.frame[i].key < k
              /\ stores[handler.of][k] # Absent

FlightOK == \A n \in DOMAIN flight : Ordered(flight[n])

(* How the connection, the handler and the end of the response go together.  *)
ConnOK ==
    /\ handler.step # "none" => ended = "no"
    /\ handler.step = "asked" => conn = "asking"
    /\ handler.step = "waiting" => conn = "reading"
    /\ handler.step = "dumping" => conn \in {"asking", "reading"}
    /\ conn \in {"off", "idle", "backoff"} =>
          handler.step = "none" /\ flight = <<>> /\ ended = "no"
    /\ conn = "asking" => flight = <<>>
    /\ ended = "eof" => conn = "reading"
    /\ conn = "reading" /\ ended # "error" => delivered \/ flight # <<>>

Consistent == Domains /\ DumpOK /\ FlightOK /\ ConnOK

-------------------------------------------------------------------------------
(* The handlers there are, one kind of step after the other.                 *)
LEMMA HandlerShape ==
    /\ NoHandler \in Handler /\ NoHandler.step = "none"
    /\ \A s \in {"none", "asked", "waiting"} : [step |-> s] \in Handler
    /\ \A h \in Handler :
          /\ h.step \in {"none", "asked", "waiting", "dumping"}
          /\ h.step = "dumping" =>
                /\ h = [step |-> "dumping", of |-> h.of, unread |-> h.unread, frame |-> h.frame]
                /\ h.of \in 1..MaxStore /\ h.unread \in SUBSET Key /\ h.frame \in Seq(Entry)
    /\ \A o \in 1..MaxStore, u \in SUBSET Key, f \in Seq(Entry) :
          [step |-> "dumping", of |-> o, unread |-> u, frame |-> f] \in Handler
  BY DEF Handler, NoHandler, Frame

(* The parts of the invariant hold on while their variables do. *)
LEMMA Unmoved ==
    /\ DumpOK /\ UNCHANGED <<handler, stores>> => DumpOK'
    /\ FlightOK /\ UNCHANGED flight => FlightOK'
    /\ ConnOK /\ UNCHANGED <<handler, ended, conn, flight, delivered>> => ConnOK'
  BY DEF DumpOK, FlightOK, ConnOK, Ordered

(* The invariant holds at first, and every action keeps it.                  *)
LEMMA InitConsistent == Init => Consistent
<1> SUFFICES ASSUME Init PROVE Consistent
  OBVIOUS
<1>1. Empty \in Contents
  BY DEF Empty, Contents
<1>2. Domains
  <2>1. stores \in Seq(Contents) /\ Len(stores) = 1
    BY <1>1 DEF Init
  <2>2. flight \in Seq(Frame) /\ Len(flight) = 0 /\ slots \in Seq(SUBSET Path)
    BY DEF Init
  <2>3. handler \in Handler /\ handler.step = "none"
    BY HandlerShape DEF Init
  <2>4. 1 \in 1..MaxStore /\ 0 <= MaxFlight /\ 0 \in 0..MaxPut
    BY ClusterStreamAssumption
  <2>5. /\ tracked \in BOOLEAN /\ tick \in BOOLEAN /\ reachable \in BOOLEAN
        /\ problem \in BOOLEAN /\ delivered \in BOOLEAN
    BY DEF Init
  <2> QED
    BY <1>1, <2>1, <2>2, <2>3, <2>4, <2>5 DEF Init, Domains
<1>3. DumpOK /\ FlightOK /\ ConnOK
  BY HandlerShape DEF Init, DumpOK, FlightOK, ConnOK, Ordered
<1> QED
  BY <1>2, <1>3 DEF Consistent

-------------------------------------------------------------------------------
(* The fleet and the network. *)
LEMMA CollectStep ==
    ASSUME Consistent, NEW k \in Key, NEW errs \in SUBSET Path, Collect(k, errs)
    PROVE  Consistent'
<1> DEFINE v == [data |-> puts + 1, errs |-> errs]
<1> DEFINE n == Len(stores)
<1>1. stores \in Seq(Contents) /\ n \in DOMAIN stores /\ n \in 1..MaxStore
  BY DEF Consistent, Domains
<1>2. puts' \in 0..MaxPut /\ v \in Snapshot
  BY ClusterStreamAssumption DEF Collect, Consistent, Domains, Snapshot
<1>3. stores[n] \in Contents
  BY <1>1
<1>4. [stores[n] EXCEPT ![k] = v] \in Contents
  BY <1>2, <1>3 DEF Contents
<1>5. stores' = [stores EXCEPT ![n] = [stores[n] EXCEPT ![k] = v]]
  BY <1>1 DEF Collect
<1> HIDE DEF v
<1>6. stores' \in Seq(Contents) /\ Len(stores') = n /\ DOMAIN stores' = DOMAIN stores
  BY <1>1, <1>4, <1>5
<1>7. UNCHANGED <<tracked, tick, reachable, handler, conn, flight, ended, slots, shown, problem, delivered>>
  BY DEF Collect, client
<1>8. Domains'
  BY <1>1, <1>2, <1>6, <1>7 DEF Consistent, Domains
<1>9. DumpOK'
  <2> SUFFICES ASSUME handler.step = "dumping", NEW l \in handler.unread
               PROVE  stores'[handler.of][l] # Absent
    BY <1>7 DEF DumpOK, Ordered, Consistent
  <2>1. stores[handler.of][l] # Absent /\ handler.of \in DOMAIN stores
    BY <1>1, HandlerShape DEF Consistent, DumpOK, Domains
  <2>2. v # Absent
    BY <1>2, ClusterStreamAssumption
  <2> QED
    BY <1>1, <1>3, <1>5, <2>1, <2>2 DEF Contents
<1> QED
  BY <1>7, <1>8, <1>9, Unmoved DEF Consistent

LEMMA ReturnStep ==
    ASSUME Consistent, Return
    PROVE  Consistent'
<1>1. stores \in Seq(Contents) /\ Empty \in Contents
  BY DEF Consistent, Domains, Empty, Contents
<1>2. /\ stores' \in Seq(Contents) /\ Len(stores') = Len(stores) + 1
      /\ \A i \in DOMAIN stores : i \in DOMAIN stores' /\ stores'[i] = stores[i]
  BY <1>1 DEF Return
<1>3. UNCHANGED <<puts, tick, reachable, handler, conn, flight, ended, slots, shown, problem, delivered>>
  BY DEF Return, client
<1>4. Len(stores') \in 1..MaxStore /\ tracked' \in BOOLEAN
  BY <1>1, <1>2, ClusterStreamAssumption DEF Return, Consistent, Domains
<1>5. handler.step = "dumping" => handler.of \in DOMAIN stores
  BY <1>1, HandlerShape DEF Consistent, Domains
<1>6. Domains'
  <2>1. handler.step = "dumping" => handler.of <= Len(stores')
    BY <1>1, <1>2, <1>5
  <2> QED
    BY <1>2, <1>3, <1>4, <2>1 DEF Consistent, Domains
<1>7. DumpOK'
  BY <1>2, <1>3, <1>5 DEF Consistent, DumpOK, Ordered
<1> QED
  BY <1>3, <1>6, <1>7, Unmoved DEF Consistent

LEMMA WorldStep ==
    ASSUME Consistent, Vanish \/ Notify \/ Deprive \/ Outage \/ Recover \/ UNCHANGED vars
    PROVE  Consistent'
<1>1. UNCHANGED <<stores, puts, handler, conn, flight, ended, slots, shown, problem, delivered>>
  BY DEF Vanish, Notify, Deprive, Outage, Recover, vars, server, client
<1>2. tracked' \in BOOLEAN /\ tick' \in BOOLEAN /\ reachable' \in BOOLEAN
  BY DEF Vanish, Notify, Deprive, Outage, Recover, vars, server, Consistent, Domains
<1>3. Domains'
  BY <1>1, <1>2 DEF Consistent, Domains
<1> QED
  BY <1>1, <1>3, Unmoved DEF Consistent

LEMMA BreakStep ==
    ASSUME Consistent, Break
    PROVE  Consistent'
<1>1. PICK n \in 0..Len(flight) : flight' = SubSeq(flight, 1, n)
  BY DEF Break
<1>2. flight \in Seq(Frame) /\ Len(flight) <= MaxFlight
  BY DEF Consistent, Domains
<1>3. /\ flight' \in Seq(Frame) /\ Len(flight') <= MaxFlight
      /\ \A i \in DOMAIN flight' : i \in DOMAIN flight /\ flight'[i] = flight[i]
  BY <1>1, <1>2, ClusterStreamAssumption
<1>4. /\ UNCHANGED <<stores, tracked, puts, tick, reachable, conn, slots, shown, problem, delivered>>
      /\ ended' = "error" /\ handler' = NoHandler /\ conn \in {"asking", "reading"}
  BY DEF Break, server, client
<1>5. Domains'
  BY <1>3, <1>4, HandlerShape DEF Consistent, Domains
<1>6. DumpOK' /\ FlightOK'
  BY <1>3, <1>4, HandlerShape DEF Consistent, DumpOK, FlightOK, Ordered
<1>7. conn = "asking" => flight' = <<>>
  <2>1. conn = "asking" => Len(flight') = 0
    BY <1>1, <1>2 DEF Consistent, ConnOK
  <2> QED
    BY <1>3, <2>1
<1>8. ConnOK'
  BY <1>4, <1>7, HandlerShape DEF Consistent, ConnOK
<1> QED
  BY <1>5, <1>6, <1>8 DEF Consistent

-------------------------------------------------------------------------------
(* The handler. *)
LEMMA LookStep ==
    ASSUME Consistent, FirstLook \/ TakeTick
    PROVE  Consistent'
<1> DEFINE d == [step |-> "dumping", of |-> Len(stores), frame |-> <<>>,
                 unread |-> {k \in Key : stores[Len(stores)][k] # Absent}]
<1>1. /\ UNCHANGED <<stores, tracked, puts, reachable, conn, flight, slots, shown, problem, delivered>>
      /\ Look
      /\ handler.step \in {"asked", "waiting"}
  BY DEF FirstLook, TakeTick, server, client
<1>2. tick' \in BOOLEAN
  BY DEF FirstLook, TakeTick, Consistent, Domains
<1>3. /\ ended = "no"
      /\ handler.step = "asked" => conn = "asking"
      /\ handler.step = "waiting" => conn = "reading"
      /\ conn = "asking" => flight = <<>>
      /\ conn = "reading" => delivered \/ flight # <<>>
  BY <1>1 DEF Consistent, ConnOK
<1>4. d \in Handler /\ Len(stores) \in 1..MaxStore
  <2>1. Len(stores) \in 1..MaxStore /\ d.frame \in Seq(Entry) /\ d.unread \in SUBSET Key
    BY DEF Consistent, Domains
  <2> QED
    BY <2>1, HandlerShape
<1>5. CASE tracked
  <2>1. handler' = d /\ ended' = ended
    BY <1>1, <1>5 DEF Look
  <2>2. d.step = "dumping" /\ d.of = Len(stores) /\ d.frame = <<>>
        /\ \A k \in d.unread : stores[d.of][k] # Absent
    OBVIOUS
  <2> HIDE DEF d
  <2>3. Domains'
    BY <1>1, <1>2, <1>4, <2>1, <2>2 DEF Consistent, Domains
  <2>4. DumpOK'
    BY <1>1, <2>1, <2>2 DEF DumpOK, Ordered
  <2>5. ConnOK'
    BY <1>1, <1>3, <2>1, <2>2 DEF ConnOK, Consistent
  <2> QED
    BY <1>1, <2>3, <2>4, <2>5, Unmoved DEF Consistent
<1>6. CASE ~tracked
  <2>1. handler' = NoHandler /\ ended' \in {"error", "eof"}
        /\ (ended' = "eof" => conn # "asking")
    BY <1>1, <1>6 DEF Look
  <2>2. Domains'
    BY <1>1, <1>2, <2>1, HandlerShape DEF Consistent, Domains
  <2>3. DumpOK'
    BY <2>1, HandlerShape DEF DumpOK
  <2>4. ConnOK'
    BY <1>1, <1>3, <2>1, HandlerShape DEF ConnOK, Consistent
  <2> QED
    BY <1>1, <2>2, <2>3, <2>4, Unmoved DEF Consistent
<1> QED
  BY <1>5, <1>6

LEMMA DumpKeyStep ==
    ASSUME Consistent, DumpKey
    PROVE  Consistent'
<1>1. PICK k \in handler.unread :
          /\ \A l \in handler.unread : k <= l
          /\ handler' = [handler EXCEPT
                !.unread = @ \ {k},
                !.frame = Append(@, [key |-> k, data |-> stores[handler.of][k].data,
                                     errs |-> stores[handler.of][k].errs])]
  BY DEF DumpKey
<1> DEFINE e == [key |-> k, data |-> stores[handler.of][k].data, errs |-> stores[handler.of][k].errs]
<1>2. /\ UNCHANGED <<stores, tracked, puts, tick, reachable, conn, flight, ended, slots, shown,
                     problem, delivered>>
      /\ handler.step = "dumping"
  BY DEF DumpKey, server, client
<1>3. /\ handler.of \in 1..MaxStore /\ handler.of \in DOMAIN stores
      /\ handler.unread \in SUBSET Key /\ handler.frame \in Seq(Entry)
      /\ handler = [step |-> "dumping", of |-> handler.of, unread |-> handler.unread,
                    frame |-> handler.frame]
  BY <1>2, HandlerShape DEF Consistent, Domains
<1>4. e \in Entry
  <2>1. stores[handler.of] \in Contents
    BY <1>3 DEF Consistent, Domains
  <2>2. stores[handler.of][k] \in Snapshot
    BY <1>2, <1>3, <2>1 DEF Contents, Consistent, DumpOK
  <2> QED
    BY <1>3, <2>2 DEF Snapshot, Entry
<1> HIDE DEF e
<1> DEFINE u == handler.unread \ {k}
<1> DEFINE f == Append(handler.frame, e)
<1>5. handler' = [step |-> "dumping", of |-> handler.of, unread |-> u, frame |-> f]
  <2>1. handler' = [handler EXCEPT !.unread = u, !.frame = f]
    BY <1>1 DEF e
  <2> HIDE DEF u, f
  <2>2. DOMAIN handler = {"step", "of", "unread", "frame"} /\ handler.step = "dumping"
    BY <1>3
  <2> QED
    BY <2>1, <2>2
<1>6. f \in Seq(Entry) /\ u \in SUBSET Key
  BY <1>3, <1>4
<1>7. handler' \in Handler
  BY <1>3, <1>5, <1>6, HandlerShape
<1>8. Domains'
  <2>1. handler'.step = "dumping" /\ handler'.of = handler.of
    BY <1>5
  <2> QED
    BY <1>2, <1>7, <2>1 DEF Consistent, Domains
<1>9. \A i \in DOMAIN f : \/ i \in DOMAIN handler.frame /\ f[i] = handler.frame[i]
                          \/ i = Len(handler.frame) + 1 /\ f[i] = e
  BY <1>3, <1>4
<1>10. e.key = k /\ k \in Nat /\ \A l \in u : l \in Nat /\ k < l
  BY <1>1, <1>3, ClusterStreamAssumption DEF e
<1>11. \A i \in DOMAIN handler.frame :
          handler.frame[i].key \in Nat /\ i \in Nat /\ i <= Len(handler.frame)
  <2> SUFFICES ASSUME NEW i \in DOMAIN handler.frame
               PROVE  handler.frame[i].key \in Nat /\ i \in Nat /\ i <= Len(handler.frame)
    OBVIOUS
  <2> HIDE DEF u, f
  <2>1. handler.frame[i] \in Entry /\ i \in 1..Len(handler.frame) /\ Len(handler.frame) \in Nat
    BY <1>3
  <2>2. handler.frame[i].key \in Nat
    BY <2>1, ClusterStreamAssumption DEF Entry
  <2> QED
    BY <2>1, <2>2
<1>12. /\ Ordered(handler.frame)
       /\ \A l \in handler.unread :
             /\ \A i \in DOMAIN handler.frame : handler.frame[i].key < l
             /\ stores[handler.of][l] # Absent
  BY <1>2 DEF Consistent, DumpOK
<1> HIDE DEF f, u
<1>13. Ordered(f)
  BY <1>3, <1>9, <1>10, <1>11, <1>12 DEF Ordered
<1>14. \A l \in u : \A i \in DOMAIN f : f[i].key < l
  BY <1>9, <1>10, <1>12 DEF u
<1>15. DumpOK'
  <2>1. handler'.unread = u /\ handler'.frame = f /\ handler'.of = handler.of
    BY <1>5
  <2>2. \A l \in u : stores'[handler.of][l] # Absent
    BY <1>2, <1>12 DEF u
  <2> QED
    BY <1>13, <1>14, <2>1, <2>2 DEF DumpOK, Ordered
<1>16. ConnOK'
  <2>1. handler'.step = "dumping"
    BY <1>5
  <2> QED
    BY <1>2, <2>1 DEF Consistent, ConnOK
<1> QED
  BY <1>2, <1>8, <1>15, <1>16, Unmoved DEF Consistent

LEMMA SendStep ==
    ASSUME Consistent, Send
    PROVE  Consistent'
<1>1. /\ UNCHANGED <<stores, tracked, puts, tick, reachable, ended, slots, shown, problem, delivered>>
      /\ handler.step = "dumping" /\ handler' = [step |-> "waiting"] /\ conn' = "reading"
      /\ flight' = Append(flight, handler.frame)
      /\ Len(flight) < MaxFlight
  BY DEF Send, server, client
<1>2. handler.frame \in Frame /\ Ordered(handler.frame)
  BY <1>1, HandlerShape DEF Consistent, Domains, DumpOK, Frame
<1>3. /\ flight' \in Seq(Frame) /\ Len(flight') <= MaxFlight /\ flight' # <<>>
      /\ \A i \in DOMAIN flight' :
            \/ i \in DOMAIN flight /\ flight'[i] = flight[i]
            \/ flight'[i] = handler.frame
  BY <1>1, <1>2, ClusterStreamAssumption DEF Consistent, Domains
<1>4. handler' \in Handler /\ handler'.step = "waiting"
  BY <1>1, HandlerShape
<1>5. Domains'
  BY <1>1, <1>3, <1>4 DEF Consistent, Domains
<1>6. FlightOK'
  BY <1>2, <1>3 DEF Consistent, FlightOK, Ordered
<1>7. DumpOK'
  BY <1>4 DEF DumpOK
<1>8. ConnOK'
  BY <1>1, <1>3, <1>4 DEF Consistent, ConnOK
<1> QED
  BY <1>5, <1>6, <1>7, <1>8 DEF Consistent

-------------------------------------------------------------------------------
(* The client. *)
LEMMA ControlStep ==
    ASSUME Consistent, Open \/ Close \/ Request \/ Retry \/ EndResponse
    PROVE  Consistent'
<1>1. UNCHANGED <<stores, tracked, puts, tick, reachable>>
  BY DEF Open, Close, Request, Retry, EndResponse, server
<1>2. handler' = handler \/ handler' = NoHandler \/ handler' = [step |-> "asked"]
  BY DEF Open, Close, Request, Retry, EndResponse
<1>3. flight' = flight \/ flight' = <<>>
  BY DEF Open, Close, Request, Retry, EndResponse
<1>4. slots' \in Seq(SUBSET Path)
  <2>1. slots' = slots \/ slots' = <<>>
    BY DEF Open, Close, Request, Retry, EndResponse, client
  <2>2. slots \in Seq(SUBSET Path)
    BY DEF Consistent, Domains
  <2>3. <<>> \in Seq(SUBSET Path)
    OBVIOUS
  <2> QED
    BY <2>1, <2>2, <2>3
<1>5. Empty \in Contents
  BY DEF Empty, Contents
<1>6. shown' \in Contents
  BY <1>5 DEF Open, Close, Request, Retry, EndResponse, client, Consistent, Domains
<1>7. problem' \in BOOLEAN /\ delivered' \in BOOLEAN
  BY DEF Open, Close, Request, Retry, EndResponse, client, Consistent, Domains
<1>8. conn' \in {"off", "idle", "asking", "reading", "backoff"} /\ ended' \in {"no", "eof", "error"}
  BY DEF Open, Close, Request, Retry, EndResponse, Consistent, Domains
<1>9. flight' \in Seq(Frame) /\ Len(flight') <= MaxFlight
  <2>1. flight \in Seq(Frame) /\ Len(flight) <= MaxFlight
    BY DEF Consistent, Domains
  <2>2. <<>> \in Seq(Frame) /\ Len(<<>>) <= MaxFlight
    BY ClusterStreamAssumption
  <2> QED
    BY <1>3, <2>1, <2>2
<1>10. handler' \in Handler /\ (handler'.step = "dumping" => handler' = handler)
  BY <1>2, HandlerShape DEF Consistent, Domains
<1>11. Domains'
  BY <1>1, <1>4, <1>6, <1>7, <1>8, <1>9, <1>10 DEF Consistent, Domains
<1>12. DumpOK'
  BY <1>1, <1>10 DEF Consistent, DumpOK, Ordered
<1>13. FlightOK'
  BY <1>3 DEF Consistent, FlightOK, Ordered
<1>14. ConnOK'
  BY HandlerShape DEF Consistent, ConnOK, Open, Close, Request, Retry, EndResponse, client
<1> QED
  BY <1>11, <1>12, <1>13, <1>14 DEF Consistent

(* The decoder keeps the keys and the data of a frame, and adds to its       *)
(* errors at most.                                                           *)
LEMMA Decoded ==
    ASSUME slots \in Seq(SUBSET Path), NEW f \in Frame
    PROVE  /\ DOMAIN Decode(f) = DOMAIN f
           /\ \A i \in DOMAIN f :
                 /\ f[i] \in Entry /\ Decode(f)[i] \in Entry
                 /\ Decode(f)[i].key = f[i].key
                 /\ Decode(f)[i].data = f[i].data
                 /\ f[i].errs \subseteq Decode(f)[i].errs
<1>1. f \in Seq(Entry) /\ Len(f) \in Nat /\ DOMAIN f = 1..Len(f)
  BY DEF Frame
<1>2. DOMAIN Decode(f) = DOMAIN f
  BY <1>1 DEF Decode
<1> SUFFICES ASSUME NEW i \in DOMAIN f
             PROVE  /\ f[i] \in Entry /\ Decode(f)[i] \in Entry
                    /\ Decode(f)[i].key = f[i].key
                    /\ Decode(f)[i].data = f[i].data
                    /\ f[i].errs \subseteq Decode(f)[i].errs
  BY <1>2
<1>3. f[i] \in Entry
  BY <1>1
<1>4. CASE i <= Len(slots)
  <2>1. slots[i] \in SUBSET Path
    BY <1>1, <1>4
  <2>2. Decode(f)[i] = [f[i] EXCEPT !.errs = @ \cup slots[i]]
    BY <1>1, <1>4 DEF Decode
  <2> QED
    BY <1>3, <2>1, <2>2 DEF Entry
<1>5. CASE ~(i <= Len(slots))
  <2>1. Decode(f)[i] = f[i]
    BY <1>1, <1>5 DEF Decode
  <2> QED
    BY <1>3, <2>1
<1> QED
  BY <1>4, <1>5

LEMMA KeptType ==
    ASSUME slots \in Seq(SUBSET Path), NEW f \in Frame
    PROVE  Kept(f) \in Seq(SUBSET Path)
<1>1. f \in Seq(Entry) /\ Len(f) \in Nat /\ DOMAIN f = 1..Len(f) /\ Len(slots) \in Nat
  BY DEF Frame
<1>2. \A i \in DOMAIN f : Decode(f)[i].errs \in SUBSET Path
  BY Decoded DEF Entry
<1> DEFINE n == IF Len(f) < Len(slots) THEN Len(slots) ELSE Len(f)
<1>3. n \in Nat
  BY <1>1
<1>4. \A i \in 1..n : (IF i <= Len(f) THEN Decode(f)[i].errs ELSE slots[i]) \in SUBSET Path
  BY <1>1, <1>2
<1>5. [i \in 1..n |-> IF i <= Len(f) THEN Decode(f)[i].errs ELSE slots[i]] \in Seq(SUBSET Path)
  <2> HIDE DEF n
  <2> QED
    BY <1>3, <1>4
<1> QED
  BY <1>5 DEF Kept

LEMMA HeadOfFlight ==
    ASSUME Consistent, Load
    PROVE  /\ Head(flight) \in Frame /\ Ordered(Head(flight))
           /\ slots \in Seq(SUBSET Path)
<1>1. flight \in Seq(Frame) /\ flight # <<>>
  BY DEF Load, Consistent, Domains
<1>2. 1 \in DOMAIN flight /\ Head(flight) = flight[1] /\ flight[1] \in Frame
  BY <1>1
<1> QED
  BY <1>2 DEF Consistent, Domains, FlightOK

LEMMA LoadStep ==
    ASSUME Consistent, Load
    PROVE  Consistent'
<1> DEFINE f == Head(flight)
<1> DEFINE entries == Decode(f)
<1>1. f \in Frame /\ slots \in Seq(SUBSET Path)
  BY HeadOfFlight
<1>2. /\ UNCHANGED <<stores, tracked, puts, tick, reachable, handler, conn, ended>>
      /\ problem' = FALSE /\ delivered' = TRUE
      /\ flight' = Tail(flight) /\ flight # <<>> /\ conn = "reading"
      /\ slots' = Kept(f)
      /\ shown' = [k \in Key |->
            IF \E i \in DOMAIN entries : entries[i].key = k
            THEN LET i == CHOOSE i \in DOMAIN entries : entries[i].key = k
                 IN  [data |-> entries[i].data, errs |-> entries[i].errs]
            ELSE shown[k]]
  BY DEF Load, server
<1>3. \A i \in DOMAIN entries :
          [data |-> entries[i].data, errs |-> entries[i].errs] \in Snapshot
  BY <1>1, Decoded DEF Entry, Snapshot
<1>4. shown \in [Key -> Snapshot \cup {Absent}]
  BY DEF Consistent, Domains, Contents
<1>5. shown' \in Contents
  <2> HIDE DEF entries
  <2>1. ASSUME NEW k \in Key
        PROVE  (IF \E i \in DOMAIN entries : entries[i].key = k
                THEN LET i == CHOOSE i \in DOMAIN entries : entries[i].key = k
                     IN  [data |-> entries[i].data, errs |-> entries[i].errs]
                ELSE shown[k]) \in Snapshot \cup {Absent}
    BY <1>3, <1>4
  <2> QED
    BY <1>2, <2>1 DEF Contents
<1>6. slots' \in Seq(SUBSET Path)
  BY <1>1, <1>2, KeptType
<1>7. /\ flight' \in Seq(Frame) /\ Len(flight') <= MaxFlight
      /\ \A i \in DOMAIN flight' : i + 1 \in DOMAIN flight /\ flight'[i] = flight[i + 1]
  BY <1>2, ClusterStreamAssumption DEF Consistent, Domains
<1>8. Domains'
  BY <1>2, <1>5, <1>6, <1>7 DEF Consistent, Domains
<1>9. FlightOK'
  BY <1>7 DEF Consistent, FlightOK, Ordered
<1>10. ConnOK'
  BY <1>2 DEF Consistent, ConnOK
<1> QED
  BY <1>2, <1>8, <1>9, <1>10, Unmoved DEF Consistent

-------------------------------------------------------------------------------
LEMMA StepConsistent == Consistent /\ [Next]_vars => Consistent'
<1> SUFFICES ASSUME Consistent, [Next]_vars PROVE Consistent'
  OBVIOUS
<1>1. CASE \E k \in Key, errs \in SUBSET Path : Collect(k, errs)
  BY <1>1, CollectStep
<1>2. CASE Vanish \/ Notify \/ Deprive \/ Outage \/ Recover \/ UNCHANGED vars
  BY <1>2, WorldStep
<1>3. CASE Return
  BY <1>3, ReturnStep
<1>4. CASE Break
  BY <1>4, BreakStep
<1>5. CASE FirstLook \/ TakeTick
  BY <1>5, LookStep
<1>6. CASE DumpKey
  BY <1>6, DumpKeyStep
<1>7. CASE Send
  BY <1>7, SendStep
<1>8. CASE Open \/ Close \/ Request \/ Retry \/ EndResponse
  BY <1>8, ControlStep
<1>9. CASE Load
  BY <1>9, LoadStep
<1> QED
  BY <1>1, <1>2, <1>3, <1>4, <1>5, <1>6, <1>7, <1>8, <1>9 DEF Next

(* The inductive invariant.                                                  *)
LEMMA AlwaysConsistent == SafeSpec => []Consistent
<1> QED
  BY InitConsistent, StepConsistent, PTL DEF SafeSpec

(* The state of the handler, the connection and both stores keeps its type,  *)
(* for any keys and any bounds.                                              *)
THEOREM TypeCorrect == SafeSpec => []TypeOK
<1>1. Consistent => TypeOK
  <2>1. Consistent => handler.step \in {"none", "asked", "waiting", "dumping"}
    BY HandlerShape DEF Consistent, Domains
  <2> QED
    BY <2>1 DEF Consistent, ConnOK, TypeOK
<1> QED
  BY <1>1, AlwaysConsistent, PTL

(* Whatever a frame says about a key, Load puts its data and at least its    *)
(* errors there: a frame names a key once, as Dump walks the sorted keys.    *)
THEOREM LosesNoFailure == SafeSpec => NoFailureLost
<1> DEFINE Puts == Load => \A i \in DOMAIN Head(flight) :
                              LET e == Head(flight)[i]
                              IN  /\ shown'[e.key].data = e.data
                                  /\ e.errs \subseteq shown'[e.key].errs
<1>1. Consistent /\ Consistent' /\ [Next]_vars => [Puts]_vars
  <2> SUFFICES ASSUME Consistent, Load, NEW i \in DOMAIN Head(flight)
               PROVE  LET e == Head(flight)[i]
                      IN  /\ shown'[e.key].data = e.data
                          /\ e.errs \subseteq shown'[e.key].errs
    OBVIOUS
  <2> DEFINE f == Head(flight)
  <2> DEFINE entries == Decode(f)
  <2>1. f \in Frame /\ Ordered(f) /\ slots \in Seq(SUBSET Path)
    BY HeadOfFlight
  <2>2. /\ DOMAIN entries = DOMAIN f
        /\ \A j \in DOMAIN f :
              /\ f[j] \in Entry
              /\ entries[j].key = f[j].key
              /\ entries[j].data = f[j].data
              /\ f[j].errs \subseteq entries[j].errs
    BY <2>1, Decoded
  <2>3. \A j \in DOMAIN f : j \in Nat /\ f[j].key \in Nat
    <3>1. DOMAIN f = 1..Len(f) /\ Len(f) \in Nat
      BY <2>1 DEF Frame
    <3>2. \A j \in DOMAIN f : f[j].key \in Key
      BY <2>2 DEF Entry
    <3> HIDE DEF f, entries
    <3>3. \A j \in DOMAIN f : j \in Nat
      BY <3>1
    <3>4. \A j \in DOMAIN f : f[j].key \in Nat
      BY <3>2, ClusterStreamAssumption
    <3> QED
      BY <3>3, <3>4
  <2>4. f[i].key \in Key
    BY <2>2 DEF Entry
  <2>5. shown'[f[i].key] =
            (IF \E j \in DOMAIN entries : entries[j].key = f[i].key
             THEN LET j == CHOOSE j \in DOMAIN entries : entries[j].key = f[i].key
                  IN  [data |-> entries[j].data, errs |-> entries[j].errs]
             ELSE shown[f[i].key])
    BY <2>4 DEF Load
  <2> HIDE DEF entries, f
  <2>6. \A j \in DOMAIN entries : entries[j].key = f[i].key => j = i
    BY <2>1, <2>2, <2>3 DEF Ordered, f
  <2>7. (CHOOSE j \in DOMAIN entries : entries[j].key = f[i].key) = i
    BY <2>2, <2>6 DEF f
  <2>8. shown'[f[i].key] = [data |-> entries[i].data, errs |-> entries[i].errs]
    BY <2>2, <2>5, <2>7 DEF f
  <2> QED
    BY <2>2, <2>8 DEF f
<1> QED
  BY <1>1, AlwaysConsistent, PTL DEF SafeSpec, NoFailureLost

(* Run asks again at once only after a response that brought a frame: one    *)
(* that ends in an EOF has flushed its first frame, and it is read before.   *)
THEOREM NeverRetriesHot == SafeSpec => NoHotRetry
<1>1. Consistent /\ [Next]_vars =>
          [(conn \in {"asking", "reading"} /\ conn' = "idle") => delivered]_vars
  <2> SUFFICES ASSUME Consistent, Next, conn \in {"asking", "reading"}, conn' = "idle"
               PROVE  delivered
    BY DEF vars
  <2>1. EndResponse
    BY DEF Next, Collect, Vanish, Return, Notify, Deprive, Outage, Recover, Break, FirstLook,
           TakeTick, DumpKey, Send, Open, Close, Request, Retry, Load, EndResponse
  <2> QED
    BY <2>1 DEF EndResponse, Consistent, ConnOK
<1> QED
  BY <1>1, AlwaysConsistent, PTL DEF SafeSpec, NoHotRetry

===============================================================================
