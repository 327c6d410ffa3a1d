---------------------------- MODULE AccessProofs -----------------------------
(***************************************************************************)
(* Proofs about modules Serve, WebAccess, MetalLB and Tokens, whatever     *)
(* users, groups, scopes, tabs, command lines, pools, services, sextants   *)
(* and servers there are: what is served is served to those it is meant    *)
(* for, MetalLB's OK is earned, what the cache of sign-ins holds is true   *)
(* and whole, and a session renews by the refresh token that is live.      *)
(***************************************************************************)
EXTENDS Serve, MetalLB, Tokens, FiniteSetTheorems, TLAPS

(* Who may be shown a route keeps its type.                                  *)
LEMMA SeenIsATab ==
    ASSUME NEW t \in Tab, NEW r \in Route, WebTypeOK, SignedIn
    PROVE  Seen(t, r) \in TabState
<1>1. tab[t] \in TabState /\ session.who \in User /\ 0 \in 0..MaxNonce
  BY WebAssumption DEF WebTypeOK, SignedIn, Session
<1> QED
  BY <1>1 DEF Seen, TabState

(* The cookies, tabs and streams keep their type.                            *)
THEOREM WebTypeCorrect == WebSpec => []WebTypeOK
<1>1. /\ StateLife \in Nat /\ SessionLife \in Nat /\ MaxClock \in Nat
      /\ MaxNonce \in Nat /\ MaxStart \in Nat
  BY WebAssumption
<1>2. WebInit => WebTypeOK
  BY <1>1 DEF WebInit, WebTypeOK, Blank, Closed, Route, Fleet, TabState, Feed
<1>3. WebTypeOK /\ [WebNext]_webVars => WebTypeOK'
  <2> SUFFICES ASSUME WebTypeOK, [WebNext]_webVars
               PROVE  WebTypeOK'
    OBVIOUS
  <2>0. Fleet \in Route /\ Nobody \in User \cup {Nobody} /\ 0 \in 0..MaxNonce
    BY <1>1 DEF Route
  <2>1. ASSUME NEW t \in Tab, NEW r \in Route, Navigate(t, r)
        PROVE  WebTypeOK'
    <3>1. Closed \in Feed
      BY <2>0 DEF Closed, Feed
    <3>2. CASE SignedIn
      BY <2>1, <3>1, <3>2, SeenIsATab DEF Navigate, Middleware, WebTypeOK
    <3>3. CASE ~SignedIn
      <4>1. [at |-> "redirected", asks |-> r, nonce |-> 0, sees |-> Nobody] \in TabState
        BY <2>0 DEF TabState
      <4> QED
        BY <2>1, <3>1, <3>3, <4>1 DEF Navigate, Middleware, IsNavigation, WebTypeOK
    <3> QED
      BY <3>2, <3>3
  <2>2. ASSUME NEW t \in Tab, NEW u \in User, NEW x \in BOOLEAN, HandleCallback(t, u, x)
        PROVE  WebTypeOK'
    <3>1. tab[t] \in TabState /\ Key \in Nat
      BY <1>1 DEF WebTypeOK, Key
    <3>2. ASSUME NEW why \in {"expired", "no match"}, Refused(t, why)
          PROVE  WebTypeOK'
      <4>1. [tab[t] EXCEPT !.at = why] \in TabState
        BY <3>1 DEF TabState
      <4> QED
        BY <2>2, <3>2, <4>1 DEF HandleCallback, Refused, WebTypeOK
    <3>3. CASE pending # NoCookie /\ pending' = NoCookie /\ x
      <4>1. CASE Refused(t, "expired") \/ Refused(t, "no match")
        BY <3>2, <4>1
      <4>2. CASE ~(Refused(t, "expired") \/ Refused(t, "no match"))
        <5>1. /\ session' = [who |-> u, groups |-> GroupsOf[u], until |-> clock + SessionLife, key |-> Key]
              /\ tab' = [tab EXCEPT ![t] = [@ EXCEPT !.at = "landing", !.asks = pending.next]]
          BY <2>2, <3>3, <4>2 DEF HandleCallback
        <5>2. session' \in Session
          BY <1>1, <3>1, <5>1 DEF WebTypeOK, Session
        <5>3. [tab[t] EXCEPT !.at = "landing", !.asks = pending.next] \in TabState
          BY <3>1, <3>3 DEF WebTypeOK, Pending, TabState
        <5> QED
          BY <2>2, <3>3, <5>1, <5>2, <5>3 DEF HandleCallback, WebTypeOK
      <4> QED
        BY <4>1, <4>2
    <3>4. CASE pending # NoCookie /\ pending' = NoCookie /\ ~x
      <4>1. [tab[t] EXCEPT !.at = "bad gateway"] \in TabState
        BY <3>1 DEF TabState
      <4>2. CASE Refused(t, "expired") \/ Refused(t, "no match")
        BY <3>2, <4>2
      <4>3. CASE ~(Refused(t, "expired") \/ Refused(t, "no match"))
        BY <2>2, <3>4, <4>1, <4>3 DEF HandleCallback, WebTypeOK
      <4> QED
        BY <4>2, <4>3
    <3> QED
      BY <2>2, <3>2, <3>3, <3>4 DEF HandleCallback
  <2>3. ASSUME NEW t \in Tab, HandleLogin(t)
        PROVE  WebTypeOK'
    <3>0. nonces + 1 \in 0..MaxNonce
      BY <1>1, <2>3 DEF HandleLogin, BeginSignIn, WebTypeOK
    <3>1. tab[t] \in TabState /\ tab[t].asks \in Route /\ nonces + 1 \in 0..MaxNonce
      BY <3>0 DEF WebTypeOK, TabState
    <3>2. [[tab[t] EXCEPT !.at = "provider"] EXCEPT !.nonce = nonces + 1] \in TabState
      BY <3>1 DEF TabState
    <3>3. pending' \in Pending
      BY <1>1, <2>3, <3>1 DEF HandleLogin, BeginSignIn, WebTypeOK, Pending
    <3>4. tab' \in [Tab -> TabState]
      BY <2>3, <3>2 DEF HandleLogin, WebTypeOK
    <3> QED
      BY <2>3, <3>1, <3>3, <3>4 DEF HandleLogin, BeginSignIn, WebTypeOK
  <2>4. ASSUME NEW t \in Tab, Land(t)
        PROVE  WebTypeOK'
    <3>1. tab[t] \in TabState /\ tab[t].asks \in Route
      BY DEF WebTypeOK, TabState
    <3>2. CASE SignedIn
      BY <2>4, <3>1, <3>2, SeenIsATab DEF Land, Middleware, WebTypeOK
    <3>3. CASE ~SignedIn
      <4>1. [tab[t] EXCEPT !.at = "redirected", !.nonce = 0] \in TabState
        BY <2>0, <3>1 DEF TabState
      <4> QED
        BY <2>4, <3>3, <4>1 DEF Land, Middleware, IsNavigation, WebTypeOK
    <3> QED
      BY <3>2, <3>3
  <2>5. ASSUME NEW t \in Tab, Logout(t)
        PROVE  WebTypeOK'
    <3>1. /\ Closed \in Feed
          /\ [at |-> "redirected", asks |-> Fleet, nonce |-> 0, sees |-> Nobody] \in TabState
      BY <2>0 DEF Closed, Feed, TabState
    <3> QED
      BY <2>5, <3>1 DEF Logout, WebTypeOK
  <2>6. ASSUME NEW t \in Tab, Connect(t)
        PROVE  WebTypeOK'
    <3>1. [is |-> "lost", who |-> Nobody] \in Feed
      BY DEF Feed
    <3>2. CASE SignedIn
      <4>1. [is |-> "open", who |-> session.who] \in Feed
        BY <3>2 DEF Feed, WebTypeOK, Session, SignedIn
      <4> QED
        BY <2>6, <3>2, <4>1 DEF Connect, Middleware, WebTypeOK
    <3>3. CASE ~SignedIn
      BY <2>6, <3>1, <3>3 DEF Connect, Middleware, IsNavigation, WebTypeOK
    <3> QED
      BY <3>2, <3>3
  <2>7. ASSUME NEW t \in Tab, StreamDrops(t)
        PROVE  WebTypeOK'
    <3>1. [is |-> "dropped", who |-> Nobody] \in Feed
      BY DEF Feed
    <3> QED
      BY <2>7, <3>1 DEF StreamDrops, WebTypeOK
  <2>8. CASE Restart
    <3>1. [is |-> "dropped", who |-> Nobody] \in Feed
      BY DEF Feed
    <3> QED
      BY <1>1, <2>8, <3>1 DEF Restart, WebTypeOK
  <2>9. CASE WebTick \/ UNCHANGED webVars
    BY <1>1, <2>9 DEF WebTick, webVars, WebTypeOK
  <2> QED
    BY <2>1, <2>2, <2>3, <2>4, <2>5, <2>6, <2>7, <2>8, <2>9 DEF WebNext
<1> QED
  BY <1>2, <1>3, PTL DEF WebSpec

(* Storage is narrowed as the cards are: a reader who is shown a storage     *)
(* cluster that anybody reports is shown a card of one of its reporters.     *)
LEMMA StorageHasACard ==
    ASSUME NEW groups, NEW s \in Answer(groups, Fleet).storage, s.by # {}
    PROVE  s.by \cap Answer(groups, Fleet).clusters # {}
<1>1. /\ Answer(groups, Fleet).storage = Storage(groups)
      /\ Answer(groups, Fleet).clusters = Views(groups)
  BY DEF Answer, Fleet
<1>2. s \in StorageLayer /\ s.by \subseteq ScopedCluster
  BY <1>1, WebAssumption DEF Storage
<1>3. CASE Everything(groups)
  <2>1. Scope(groups) = {c.ns : c \in ScopedCluster}
    BY <1>3 DEF Everything, Scope
  <2> QED
    BY <1>1, <1>2, <2>1 DEF Views
<1>4. CASE ~Everything(groups)
  BY <1>1, <1>2, <1>4 DEF Storage, Views
<1> QED
  BY <1>3, <1>4

(* A cluster whose page is served is one whose card is.                      *)
LEMMA PageHasACard ==
    ASSUME NEW groups, NEW r \in Route, r.route = "cluster", Answer(groups, r).clusters # {}
    PROVE  r.of \in Answer(groups, Fleet).clusters
<1>1. r.of \in ScopedCluster
  BY DEF Route, Fleet, Management
<1>2. r.of.ns \in Scope(groups)
  BY DEF Answer
<1> QED
  BY <1>1, <1>2 DEF Answer, Fleet, Views

(* What makes OneScope inductive: a session is given its user's groups, and  *)
(* a page was served to the one it names.                                    *)
SessionIsOwn == session # NoCookie => session.groups = GroupsOf[session.who]
PagesAreTheirs ==
    \A t \in Tab :
        tab[t].at = "page" /\ tab[t].asks.route = "cluster"
            => tab[t].asks.of \in Answer(GroupsOf[tab[t].sees], Fleet).clusters

(* The page of a cluster is shown to those whose answer has the cluster.     *)
LEMMA SeenIsTheirs ==
    ASSUME NEW t \in Tab, NEW r \in Route, WebTypeOK, SessionIsOwn, SignedIn,
           Seen(t, r).at = "page", Seen(t, r).asks.route = "cluster"
    PROVE  Seen(t, r).asks.of \in Answer(GroupsOf[Seen(t, r).sees], Fleet).clusters
<1>1. ~(Answer(session.groups, r).clusters = {} /\ r.route = "cluster")
  BY DEF Seen, WebTypeOK, TabState
<1>2. Seen(t, r) = [at |-> "page", asks |-> r, nonce |-> 0, sees |-> session.who]
  BY <1>1 DEF Seen
<1>3. r.route = "cluster" /\ Answer(session.groups, r).clusters # {}
  BY <1>1, <1>2
<1>4. r.of \in Answer(session.groups, Fleet).clusters
  BY <1>3, PageHasACard
<1> QED
  BY <1>2, <1>4 DEF SessionIsOwn, SignedIn

(* OneScope: cards, storage and pages are narrowed alike, whoever signs in   *)
(* to whichever tab in between.                                              *)
THEOREM ShowsOneScope == WebSpec => []OneScope
<1>1. WebInit => SessionIsOwn /\ PagesAreTheirs
  BY DEF WebInit, SessionIsOwn, PagesAreTheirs, Blank
<1>2. WebTypeOK /\ SessionIsOwn /\ PagesAreTheirs /\ [WebNext]_webVars => SessionIsOwn' /\ PagesAreTheirs'
  <2> SUFFICES ASSUME WebTypeOK, SessionIsOwn, PagesAreTheirs, [WebNext]_webVars
               PROVE  SessionIsOwn' /\ PagesAreTheirs'
    OBVIOUS
  <2>1. ASSUME NEW t \in Tab, NEW r \in Route, Navigate(t, r)
        PROVE  SessionIsOwn' /\ PagesAreTheirs'
    <3>1. SessionIsOwn'
      BY <2>1 DEF Navigate, SessionIsOwn
    <3>2. CASE SignedIn
      <4>1. tab' = [tab EXCEPT ![t] = Seen(t, r)]
        BY <2>1, <3>2 DEF Navigate, Middleware
      <4> QED
        BY <3>1, <3>2, <4>1, SeenIsTheirs DEF PagesAreTheirs, WebTypeOK
    <3>3. CASE ~SignedIn
      BY <2>1, <3>1, <3>3 DEF Navigate, Middleware, IsNavigation, PagesAreTheirs, WebTypeOK
    <3> QED
      BY <3>2, <3>3
  <2>2. ASSUME NEW t \in Tab, NEW u \in User, NEW x \in BOOLEAN, HandleCallback(t, u, x)
        PROVE  SessionIsOwn' /\ PagesAreTheirs'
    <3>1. SessionIsOwn'
      <4>1. \/ session' = session
            \/ session' = [who |-> u, groups |-> GroupsOf[u], until |-> clock + SessionLife, key |-> Key]
        BY <2>2, Zenon DEF HandleCallback, Refused
      <4> QED
        BY <4>1 DEF SessionIsOwn
    <3>2. tab' = [tab EXCEPT ![t] = tab'[t]] /\ tab'[t].at # "page"
      <4>1. tab[t] \in TabState
        BY DEF WebTypeOK
      <4> QED
        BY <2>2, <4>1 DEF HandleCallback, Refused, WebTypeOK, TabState
    <3> QED
      BY <3>1, <3>2 DEF PagesAreTheirs, WebTypeOK
  <2>3. ASSUME NEW t \in Tab, HandleLogin(t)
        PROVE  SessionIsOwn' /\ PagesAreTheirs'
    BY <2>3 DEF HandleLogin, SessionIsOwn, PagesAreTheirs, WebTypeOK
  <2>4. ASSUME NEW t \in Tab, Land(t)
        PROVE  SessionIsOwn' /\ PagesAreTheirs'
    <3>1. SessionIsOwn' /\ tab[t].asks \in Route
      BY <2>4 DEF Land, SessionIsOwn, WebTypeOK, TabState
    <3>2. CASE SignedIn
      <4>1. tab' = [tab EXCEPT ![t] = Seen(t, tab[t].asks)]
        BY <2>4, <3>2 DEF Land, Middleware
      <4> QED
        BY <3>1, <3>2, <4>1, SeenIsTheirs DEF PagesAreTheirs, WebTypeOK
    <3>3. CASE ~SignedIn
      BY <2>4, <3>1, <3>3 DEF Land, Middleware, IsNavigation, PagesAreTheirs, WebTypeOK
    <3> QED
      BY <3>2, <3>3
  <2>5. ASSUME NEW t \in Tab, Logout(t)
        PROVE  SessionIsOwn' /\ PagesAreTheirs'
    BY <2>5 DEF Logout, SessionIsOwn, PagesAreTheirs, WebTypeOK
  <2>6. ASSUME NEW t \in Tab, Connect(t) \/ StreamDrops(t)
        PROVE  SessionIsOwn' /\ PagesAreTheirs'
    BY <2>6 DEF Connect, StreamDrops, SessionIsOwn, PagesAreTheirs
  <2>7. CASE Restart \/ WebTick \/ UNCHANGED webVars
    BY <2>7 DEF Restart, WebTick, webVars, SessionIsOwn, PagesAreTheirs
  <2> QED
    BY <2>1, <2>2, <2>3, <2>4, <2>5, <2>6, <2>7 DEF WebNext
<1>3. PagesAreTheirs => OneScope
  BY StorageHasACard DEF PagesAreTheirs, OneScope
<1> QED
  BY <1>1, <1>2, <1>3, WebTypeCorrect, PTL DEF WebSpec

(* What makes SignInsLand inductive: sign-ins are numbered as tabs begin     *)
(* them, no stream begins one, the state cookie is the last one's, and it    *)
(* says where the tab that began it was going.                               *)
Overtaken == overtaken = 1..(nonces - 1)
SignInsAreNumbered ==
    /\ pending # NoCookie => pending.nonce = nonces
    /\ \A t \in Tab : tab[t].at = "provider" =>
          /\ tab[t].nonce \in 1..nonces
          /\ pending # NoCookie /\ pending.nonce = tab[t].nonce => pending.next = tab[t].asks
SignInInv == Overtaken /\ SignInsAreNumbered /\ OnlyTabsCollide

(* SignInsLand: a tab that has signed in lands where its user was going, and *)
(* is refused for not matching only if another tab began a sign-in after its *)
(* own, for any tabs, users and clusters. Only a callback lands a tab, and   *)
(* it matches the one sign-in that the state cookie is of.                   *)
THEOREM LandsItsSignIns == WebSpec => SignInsLand
<1> DEFINE Land1 == \A t \in Tab : tab[t].at = "provider" /\ tab'[t].at = "landing" => tab'[t].asks = tab[t].asks
<1>1. ASSUME WebInit PROVE SignInInv
  <2>1. 1..(0 - 1) = {}
    OBVIOUS
  <2>2. Overtaken
    BY <1>1, <2>1 DEF WebInit, Overtaken
  <2>3. \A t \in Tab : tab[t] = Blank
    BY <1>1 DEF WebInit
  <2>4. \A t \in Tab : tab[t].at = "blank"
    BY <2>3 DEF Blank
  <2> QED BY <1>1, <2>2, <2>4 DEF WebInit, SignInInv, SignInsAreNumbered, OnlyTabsCollide
<1>2. WebTypeOK /\ SignInInv /\ [WebNext]_webVars => SignInInv' /\ Land1
  <2> SUFFICES ASSUME WebTypeOK, SignInInv, [WebNext]_webVars
               PROVE  SignInInv' /\ Land1
    OBVIOUS
  <2>0. nonces \in Nat /\ \A t \in Tab : tab[t] \in TabState
    BY WebAssumption DEF WebTypeOK
  <2>1. ASSUME UNCHANGED <<pending, nonces, overtaken>>, NEW t \in Tab, NEW new,
               tab' = [tab EXCEPT ![t] = new], new.at \notin {"provider", "landing", "no match"}
        PROVE  SignInInv' /\ Land1
    BY <2>0, <2>1 DEF SignInInv, Overtaken, SignInsAreNumbered, OnlyTabsCollide, WebTypeOK
  <2>2. ASSUME UNCHANGED <<pending, nonces, overtaken, tab>> PROVE SignInInv' /\ Land1
    BY <2>2 DEF SignInInv, Overtaken, SignInsAreNumbered, OnlyTabsCollide
  <2>3. \A t \in Tab, r \in Route : Seen(t, r).at \in {"page", "not found"}
    BY <2>0 DEF Seen, TabState
  <2>4. ASSUME NEW t \in Tab, NEW r \in Route, Navigate(t, r)
        PROVE  SignInInv' /\ Land1
    BY <2>1, <2>3, <2>4 DEF Navigate
  <2>5. ASSUME NEW t \in Tab, NEW u \in User, NEW x \in BOOLEAN, HandleCallback(t, u, x)
        PROVE  SignInInv' /\ Land1
    <3>1. /\ tab[t].at = "provider" /\ tab[t].nonce \in 1..nonces
          /\ UNCHANGED <<nonces, overtaken>>
          /\ pending' \in {pending, NoCookie}
      BY <2>5 DEF HandleCallback, Refused, SignInInv, SignInsAreNumbered
    <3>2. CASE Refused(t, "expired")
      <4>1. [tab[t] EXCEPT !.at = "expired"].at = "expired"
        BY <2>0 DEF TabState
      <4> QED BY <2>1, <3>1, <3>2, <4>1 DEF Refused
    <3>3. CASE pending # NoCookie /\ ~Matches(t) /\ Refused(t, "no match")
      <4>1. tab[t].nonce \in overtaken
        <5>1. PICK n \in Nat, k \in Nat : n = nonces /\ k = tab[t].nonce
          BY <2>0, <3>1
        <5>2. k \in 1..n /\ pending.nonce = n
          BY <3>1, <3>3, <5>1 DEF SignInInv, SignInsAreNumbered
        <5>3. k # n
          BY <3>3, <5>1, <5>2 DEF Matches
        <5>4. k \in 1..(n - 1)
          BY <5>2, <5>3
        <5> QED BY <5>1, <5>4 DEF SignInInv, Overtaken
      <4>2. tab' = [tab EXCEPT ![t].at = "no match"] /\ UNCHANGED pending
        BY <3>3 DEF Refused
      <4>3. tab'[t].at = "no match" /\ tab'[t].nonce = tab[t].nonce /\ \A s \in Tab \ {t} : tab'[s] = tab[s]
        BY <2>0, <4>2 DEF WebTypeOK, TabState
      <4> QED BY <3>1, <4>1, <4>2, <4>3 DEF SignInInv, Overtaken, SignInsAreNumbered, OnlyTabsCollide
    <3>4. CASE Matches(t) /\ pending # NoCookie /\ pending' = NoCookie /\ tab' = [tab EXCEPT ![t] = [@ EXCEPT !.at = "landing", !.asks = pending.next]]
      <4>1. /\ tab'[t].at = "landing" /\ tab'[t].asks = pending.next
            /\ \A s \in Tab \ {t} : tab'[s] = tab[s]
        BY <2>0, <3>4 DEF WebTypeOK, TabState
      <4>2. pending.next = tab[t].asks
        BY <3>1, <3>4 DEF Matches, SignInInv, SignInsAreNumbered
      <4> QED BY <3>1, <3>4, <4>1, <4>2 DEF SignInInv, Overtaken, SignInsAreNumbered, OnlyTabsCollide
    <3>5. CASE pending' = NoCookie /\ tab' = [tab EXCEPT ![t].at = "bad gateway"]
      <4>1. /\ tab'[t].at = "bad gateway" /\ \A s \in Tab \ {t} : tab'[s] = tab[s]
        BY <2>0, <3>5 DEF WebTypeOK, TabState
      <4> QED BY <3>1, <3>5, <4>1 DEF SignInInv, Overtaken, SignInsAreNumbered, OnlyTabsCollide
    <3> QED BY <2>5, <3>2, <3>3, <3>4, <3>5 DEF HandleCallback
  <2>6. ASSUME NEW t \in Tab, HandleLogin(t) PROVE SignInInv' /\ Land1
    <3>1. /\ nonces' = nonces + 1 /\ overtaken' = 1..nonces
          /\ pending'.nonce = nonces' /\ pending'.next = tab[t].asks
      BY <2>0, <2>6 DEF HandleLogin, BeginSignIn, SignInInv, Overtaken
    <3>2. /\ tab'[t].at = "provider" /\ tab'[t].nonce = nonces' /\ tab'[t].asks = tab[t].asks
          /\ \A s \in Tab \ {t} : tab'[s] = tab[s]
      BY <2>0, <2>6, <3>1 DEF HandleLogin, WebTypeOK, TabState
    <3>3. Overtaken'
      BY <2>0, <3>1 DEF Overtaken
    <3>4. SignInsAreNumbered'
      BY <2>0, <3>1, <3>2 DEF SignInInv, SignInsAreNumbered
    <3>5. OnlyTabsCollide' /\ Land1
      <4>1. overtaken \subseteq overtaken'
        BY <2>0, <3>1 DEF SignInInv, Overtaken
      <4>2. ASSUME NEW s \in Tab, tab'[s].at = "no match" PROVE tab'[s].nonce \in overtaken'
        BY <3>2, <4>1, <4>2 DEF SignInInv, OnlyTabsCollide
      <4>3. \A s \in Tab : tab'[s].at # "landing" \/ tab'[s] = tab[s]
        BY <3>2
      <4>4. Land1
        BY <4>3
      <4> QED BY <4>2, <4>4 DEF OnlyTabsCollide
    <3> QED BY <3>3, <3>4, <3>5 DEF SignInInv
  <2>7. ASSUME NEW t \in Tab, Land(t) PROVE SignInInv' /\ Land1
    <3>1. tab[t].asks \in Route /\ [tab[t] EXCEPT !.at = "redirected", !.nonce = 0].at = "redirected"
      BY <2>0 DEF TabState
    <3> QED BY <2>1, <2>3, <2>7, <3>1 DEF Land
  <2>8. ASSUME NEW t \in Tab, Logout(t) PROVE SignInInv' /\ Land1
    BY <2>1, <2>8 DEF Logout
  <2>9. ASSUME NEW t \in Tab, Connect(t) PROVE SignInInv' /\ Land1
    BY <2>2, <2>9 DEF Connect, Middleware, IsNavigation
  <2>10. ASSUME NEW t \in Tab, StreamDrops(t) PROVE SignInInv' /\ Land1
    BY <2>2, <2>10 DEF StreamDrops
  <2>11. CASE Restart \/ WebTick \/ UNCHANGED webVars
    BY <2>2, <2>11 DEF Restart, WebTick, webVars
  <2> QED
    BY <2>4, <2>5, <2>6, <2>7, <2>8, <2>9, <2>10, <2>11 DEF WebNext
<1>3. SignInInv => OnlyTabsCollide
  BY DEF SignInInv
<1> QED
  BY <1>1, <1>2, <1>3, WebTypeCorrect, PTL DEF WebSpec, SignInsLand, LandsWhereAsked

-------------------------------------------------------------------------------
(* The start keeps the type of its state.                                    *)
THEOREM ServeTypeCorrect == ServeSpec => []ServeTypeOK
<1>1. ServeInit => ServeTypeOK
  BY DEF ServeInit, ServeTypeOK
<1>2. ServeTypeOK /\ [ServeNext]_serveVars => ServeTypeOK'
  <2> SUFFICES ASSUME ServeTypeOK, [ServeNext]_serveVars
               PROVE  ServeTypeOK'
    OBVIOUS
  <2> USE DEF ServeTypeOK, Return, Goes
  <2>1. CASE ParseServe
    BY <2>1 DEF ParseServe
  <2>2. CASE BuildAuth
    BY <2>2 DEF BuildAuth, NewOIDC, SessionKey
  <2>3. CASE Guard
    BY <2>3 DEF Guard
  <2>4. CASE BuildSource
    BY <2>4 DEF BuildSource
  <2>5. CASE LoadScopes
    BY <2>5 DEF LoadScopes
  <2>6. CASE Listen \/ ServerCloses
    BY <2>6 DEF Listen, ServerCloses
  <2>7. CASE DiscoveryStops \/ Signal \/ UNCHANGED serveVars
    BY <2>7 DEF DiscoveryStops, Signal, serveVars
  <2> QED
    BY <2>1, <2>2, <2>3, <2>4, <2>5, <2>6, <2>7 DEF ServeNext
<1> QED
  BY <1>1, <1>2, PTL DEF ServeSpec

(* What makes ServedAsAsked inductive: what each check of the start has      *)
(* established by the time the next one is made, up to the listener.         *)
Reached(places) == at \in places \/ listened
Checked ==
    /\ at # "over" => end = ""
    /\ listened => at = "serving" \/ (at = "over" /\ end = "done")
    /\ at \in {"parse", "auth"} => contacted = {} /\ scheme = "none" /\ key = "none"
    /\ Reached({"guard", "source", "scopes", "listen", "serving"}) =>
          /\ asked.issuer => scheme = "oidc" /\ key # "none" /\ "issuer" \in contacted
          /\ key = "given" => MinKey <= asked.text \/ MinKey <= asked.bytes
    /\ at = "guard" /\ ~asked.issuer => scheme = "open"
    /\ Reached({"source", "scopes", "listen", "serving"}) /\ ~asked.issuer =>
          IF asked.allow THEN scheme = "unauthenticated" ELSE asked.addr = "loopback"
    /\ Reached({"scopes", "listen", "serving"}) => source # "none"
    /\ Reached({"listen", "serving"}) => (scopes = "groups" <=> asked.scopeFile = "good")
    /\ asked.demo => contacted \subseteq {"issuer"}

(* A server that listens has been through the checks of its start.           *)
LEMMA StartIsChecked == ServeSpec => []Checked
<1> USE ServeAssumption
<1>1. ServeInit => Checked
  BY DEF ServeInit, Checked, Reached
<1>2. ServeTypeOK /\ Checked /\ [ServeNext]_serveVars => Checked'
  <2> SUFFICES ASSUME ServeTypeOK, Checked, [ServeNext]_serveVars
               PROVE  Checked'
    OBVIOUS
  <2>0. asked \in AskedType /\ MinKey \in Nat \ {0}
    BY DEF ServeTypeOK
  <2> USE DEF Checked, Reached, Return, Goes
  <2>1. CASE ParseServe
    BY <2>1 DEF ParseServe
  <2>2. CASE BuildAuth
    <3>1. SessionKey = "given" => MinKey <= asked.text \/ MinKey <= asked.bytes
      BY <2>0 DEF SessionKey, AskedType
    <3>2. SessionKey # "none"
      BY DEF SessionKey
    <3>3. CASE ~asked.issuer
      BY <2>2, <3>3 DEF BuildAuth
    <3>4. CASE asked.issuer /\ SessionKey = "refused"
      BY <2>2, <3>4 DEF BuildAuth
    <3>5. CASE asked.issuer /\ SessionKey # "refused"
      <4>1. key' = SessionKey /\ NewOIDC /\ UNCHANGED <<asked, source, scopes, canceled, listened>> /\ at = "auth"
        BY <2>2, <3>5 DEF BuildAuth
      <4>2. ~listened /\ contacted = {}
        BY <4>1
      <4>3. at' = "over" \/ (at' = "guard" /\ end' = "" /\ scheme' = "oidc" /\ "issuer" \in contacted')
        BY <4>1 DEF NewOIDC
      <4>4. contacted' \subseteq {"issuer"}
        BY <4>1, <4>2 DEF NewOIDC
      <4> QED
        BY <3>1, <3>2, <3>5, <4>1, <4>2, <4>3, <4>4
    <3> QED
      BY <3>3, <3>4, <3>5
  <2>3. CASE Guard
    BY <2>0, <2>3 DEF Guard, Guarded, AskedType
  <2>4. CASE BuildSource
    BY <2>4 DEF BuildSource
  <2>5. CASE LoadScopes
    BY <2>0, <2>5 DEF LoadScopes, AskedType
  <2>6. CASE Listen
    <3>1. at = "listen" /\ ~listened /\ UNCHANGED <<asked, scheme, key, source, scopes, contacted, canceled>>
      BY <2>6 DEF Listen
    <3>2. CASE at' = "over" /\ end' = "listen" /\ listened' = listened
      BY <3>1, <3>2
    <3>3. CASE listened' = TRUE /\ at' = "serving" /\ end' = ""
      BY <3>1, <3>3
    <3> QED
      BY <2>6, <3>2, <3>3 DEF Listen
  <2>7. CASE ServerCloses
    BY <2>7 DEF ServerCloses
  <2>8. CASE DiscoveryStops
    BY <2>8 DEF DiscoveryStops
  <2>9. CASE Signal \/ UNCHANGED serveVars
    <3>1. UNCHANGED <<asked, at, scheme, key, source, scopes, contacted, listened, end>>
      BY <2>9 DEF Signal, serveVars
    <3> QED
      BY <3>1
  <2> QED
    BY <2>1, <2>2, <2>3, <2>4, <2>5, <2>6, <2>7, <2>8, <2>9 DEF ServeNext
<1> QED
  BY <1>1, <1>2, ServeTypeCorrect, PTL DEF ServeSpec

(* ServedToThoseMeant: binnacle listens only after every check, in whatever  *)
(* moment a signal comes, and whoever reads its pages reads one scope.       *)
THEOREM ServesThoseMeant == ServeSpec /\ WebSpec => []ServedToThoseMeant
<1>1. ServeTypeOK /\ Checked => ServedAsAsked
  <2> SUFFICES ASSUME ServeTypeOK, Checked
               PROVE  ServedAsAsked
    OBVIOUS
  <2>1. asked \in AskedType
    BY ServeAssumption DEF ServeTypeOK
  <2>2. asked.demo => contacted \subseteq {"issuer"}
    BY DEF Checked
  <2>3. end \notin {"", "done"} => ~listened
    BY DEF Checked
  <2>4. ASSUME listened
        PROVE  /\ ~asked.issuer /\ asked.addr \in {"every", "other"} => scheme = "unauthenticated" /\ asked.allow
               /\ ~asked.issuer /\ asked.allow => scheme = "unauthenticated"
               /\ asked.issuer =>
                     /\ scheme = "oidc" /\ key # "none" /\ "issuer" \in contacted
                     /\ key = "given" => MinKey <= asked.text \/ MinKey <= asked.bytes
               /\ (scopes = "groups") <=> (asked.scopeFile = "good")
               /\ source # "none"
    BY <2>1, <2>4 DEF Checked, Reached, AskedType
  <2> QED
    BY <2>2, <2>3, <2>4 DEF ServedAsAsked
<1> QED
  BY <1>1, ServeTypeCorrect, StartIsChecked, ShowsOneScope, PTL DEF ServedToThoseMeant

-------------------------------------------------------------------------------
(* No pool gives out more addresses than it has.                             *)
UsedFits == \A p \in Pool : Used(p) \in Nat /\ Used(p) <= p.size

(* Giving an address out of a pool with one free keeps within the pool.      *)
LEMMA AllocateFits ==
    ASSUME LbTypeOK, UsedFits, NEW s \in LbService, NEW p \in Pool, Allocate(s, p)
    PROVE  UsedFits'
<1> SUFFICES ASSUME NEW q \in Pool
             PROVE  Used(q)' \in Nat /\ Used(q)' <= q.size
  BY DEF UsedFits
<1> DEFINE H == {t \in LbService : holds[t] = q}
<1>1. IsFiniteSet(H) /\ Used(q) = Cardinality(H) /\ q.size \in Nat
  BY FS_Subset, MetalLBAssumption DEF Used
<1>2. CASE q = p
  <2>1. {t \in LbService : holds'[t] = q} = H \cup {s} /\ s \notin H
    BY <1>2, MetalLBAssumption DEF Allocate, LbTypeOK
  <2>2. Used(q)' = Used(q) + 1
    BY <1>1, <2>1, FS_AddElement DEF Used
  <2>3. Used(q) < q.size
    BY <1>2 DEF Allocate
  <2> QED
    BY <1>1, <2>2, <2>3 DEF UsedFits
<1>3. CASE q # p
  <2>1. {t \in LbService : holds'[t] = q} = H
    BY <1>3, MetalLBAssumption DEF Allocate, LbTypeOK
  <2> QED
    BY <2>1 DEF Used, UsedFits
<1> QED
  BY <1>2, <1>3

(* Taking an address back keeps within the pool.                             *)
LEMMA ReleaseFits ==
    ASSUME LbTypeOK, UsedFits, NEW s \in LbService, Release(s)
    PROVE  UsedFits'
<1> SUFFICES ASSUME NEW q \in Pool
             PROVE  Used(q)' \in Nat /\ Used(q)' <= q.size
  BY DEF UsedFits
<1> DEFINE H == {t \in LbService : holds[t] = q}
           G == {t \in LbService : holds'[t] = q}
<1>1. IsFiniteSet(H) /\ Used(q) = Cardinality(H) /\ Used(q)' = Cardinality(G)
  BY FS_Subset, MetalLBAssumption DEF Used
<1>2. G \subseteq H
  BY MetalLBAssumption DEF Release, LbTypeOK
<1>3. Cardinality(G) \in Nat /\ Cardinality(H) \in Nat /\ Cardinality(G) <= Cardinality(H)
  BY <1>1, <1>2, FS_Subset, FS_CardinalityType
<1> HIDE DEF H, G
<1> QED
  BY <1>1, <1>3, MetalLBAssumption DEF UsedFits

(* A finding that another read is entered in is a finding.                   *)
LEMMA FindingsStay ==
    ASSUME NEW f, IsFinding(f), NEW x
    PROVE  /\ IsFinding([f EXCEPT !.pools = x]) /\ IsFinding([f EXCEPT !.services = x])
           /\ IsFinding([f EXCEPT !.adverts = x]) /\ IsFinding([f EXCEPT !.speaker = x])
           /\ x \in BOOLEAN => IsFinding([f EXCEPT !.error = x])
<1>1. f = [pools |-> f.pools, services |-> f.services, adverts |-> f.adverts, speaker |-> f.speaker, error |-> f.error]
  BY DEF IsFinding
<1>2. [f EXCEPT !.pools = x] =
        [pools |-> x, services |-> f.services, adverts |-> f.adverts, speaker |-> f.speaker, error |-> f.error]
  BY <1>1
<1>3. [f EXCEPT !.services = x] =
        [pools |-> f.pools, services |-> x, adverts |-> f.adverts, speaker |-> f.speaker, error |-> f.error]
  BY <1>1
<1>4. [f EXCEPT !.adverts = x] =
        [pools |-> f.pools, services |-> f.services, adverts |-> x, speaker |-> f.speaker, error |-> f.error]
  BY <1>1
<1>5. [f EXCEPT !.speaker = x] =
        [pools |-> f.pools, services |-> f.services, adverts |-> f.adverts, speaker |-> x, error |-> f.error]
  BY <1>1
<1>6. [f EXCEPT !.error = x] =
        [pools |-> f.pools, services |-> f.services, adverts |-> f.adverts, speaker |-> f.speaker, error |-> x]
  BY <1>1
<1> QED
  BY <1>2, <1>3, <1>4, <1>5, <1>6 DEF IsFinding

(* To have found nothing is a finding.                                       *)
LEMMA NothingIsAFinding == IsFinding(NoFindings)
  BY DEF IsFinding, NoFindings

(* The state of the poll and of the cluster keeps its type.                  *)
THEOREM LbTypeCorrect == LbSpec => [](LbTypeOK /\ UsedFits)
<1>1. LbInit => LbTypeOK /\ UsedFits
  <2> SUFFICES ASSUME LbInit
               PROVE  LbTypeOK /\ UsedFits
    OBVIOUS
  <2>1. LbTypeOK
    <3>1. /\ reading = [step |-> 0, found |-> NoFindings] /\ speakers \in Speakers
          /\ holds = [s \in LbService |-> Waiting] /\ stirred \in BOOLEAN
      BY DEF LbInit, Resting
    <3>2. reading.step = 0 /\ reading.found = NoFindings
      BY <3>1
    <3>3. IsFinding(reading.found)
      BY <3>2, NothingIsAFinding
    <3> QED
      BY <3>1, <3>2, <3>3 DEF LbTypeOK
  <2>2. ASSUME NEW p \in Pool
        PROVE  Used(p) = 0
    <3>1. {s \in LbService : holds[s] = p} = {}
      BY MetalLBAssumption DEF LbInit
    <3> QED
      BY <3>1, FS_EmptySet DEF Used
  <2> QED
    BY <2>1, <2>2, MetalLBAssumption DEF UsedFits
<1>2. LbTypeOK /\ UsedFits /\ [LbNext]_lbVars => LbTypeOK' /\ UsedFits'
  <2> SUFFICES ASSUME LbTypeOK, UsedFits, [LbNext]_lbVars
               PROVE  LbTypeOK' /\ UsedFits'
    OBVIOUS
  <2>0. IsFinding(reading.found) /\ IsFinding(Noted)
    <3>1. IsFinding(reading.found)
      BY DEF LbTypeOK
    <3>2. \A x : x \in BOOLEAN => IsFinding([reading.found EXCEPT !.error = x])
      BY <3>1, FindingsStay
    <3> QED
      BY <3>1, <3>2, Zenon DEF Noted
  <2>1. ASSUME NEW s \in LbService, Release(s)
        PROVE  LbTypeOK' /\ UsedFits'
    BY <2>1, ReleaseFits DEF Release, Moves, LbTypeOK
  <2>2. ASSUME NEW s \in LbService, NEW p \in Pool, Allocate(s, p)
        PROVE  LbTypeOK' /\ UsedFits'
    BY <2>2, AllocateFits DEF Allocate, Moves, LbTypeOK
  <2>3. ASSUME NEW all, Advertise(all)
        PROVE  LbTypeOK' /\ UsedFits'
    BY <2>3 DEF Advertise, Moves, LbTypeOK, UsedFits, Used
  <2>4. CASE SpeakerMoves
    <3>1. speakers' \in Speakers
      BY <2>4 DEF SpeakerMoves, LbTypeOK, Speakers
    <3> QED
      BY <2>4, <3>1 DEF SpeakerMoves, Moves, LbTypeOK, UsedFits, Used
  <2>5. ASSUME NEW found, IsFinding(found), Reads(found) \/ Misses(found), reading.step \in 1..5,
               UNCHANGED <<clusterNow, stirred>>
        PROVE  LbTypeOK' /\ UsedFits'
    <3>1. reading' = [step |-> reading.step + 1, found |-> found]
      BY <2>5 DEF Reads, Misses
    <3> QED
      BY <2>5, <3>1 DEF clusterNow, LbTypeOK, UsedFits, Used
  <2>6. CASE Poll
    <3>1. reading' = [step |-> 1, found |-> NoFindings] /\ stirred' \in BOOLEAN /\ UNCHANGED clusterNow
      BY <2>6 DEF Poll, Resting
    <3>2. reading'.step = 1 /\ reading'.found = NoFindings
      BY <3>1
    <3>3. IsFinding(reading'.found)
      BY <3>2, NothingIsAFinding
    <3> QED
      BY <3>1, <3>2, <3>3 DEF clusterNow, LbTypeOK, UsedFits, Used
  <2>7. CASE ListPools
    <3>1. IsFinding([reading.found EXCEPT !.pools = {PoolUsage(p) : p \in Pool}])
      BY <2>0, FindingsStay
    <3> QED
      BY <2>0, <2>5, <2>7, <3>1 DEF ListPools
  <2>8. CASE ListServices
    <3>1. IsFinding([reading.found EXCEPT !.services = {[of |-> s, pool |-> holds[s]] : s \in LbService}])
      BY <2>0, FindingsStay
    <3> QED
      BY <2>0, <2>5, <2>8, <3>1 DEF ListServices
  <2>9. CASE ListAdvertisements
    <3>1. \A mode : IsFinding([reading.found EXCEPT !.adverts = @ \cup {a \in adverts : a.mode = mode}])
      BY <2>0, FindingsStay
    <3>2. reading.step \in 1..5 /\ UNCHANGED <<clusterNow, stirred>>
      BY <2>9 DEF ListAdvertisements
    <3>3. PICK mode : \/ Reads([reading.found EXCEPT !.adverts = @ \cup {a \in adverts : a.mode = mode}])
                      \/ Misses(reading.found)
      BY <2>9, Zenon DEF ListAdvertisements
    <3> QED
      BY <2>0, <2>5, <3>1, <3>2, <3>3
  <2>10. CASE Speaker
    <3>1. IsFinding([reading.found EXCEPT !.speaker = speakers]) /\ IsFinding(reading.found)
      BY <2>0, FindingsStay
    <3> QED
      BY <2>0, <2>5, <2>10, <3>1 DEF Speaker
  <2>11. CASE PublishFindings
    BY <2>11, NothingIsAFinding DEF PublishFindings, Resting, clusterNow, LbTypeOK, UsedFits, Used
  <2>12. CASE UNCHANGED lbVars
    BY <2>12 DEF lbVars, LbTypeOK, UsedFits, Used
  <2> QED
    BY <2>1, <2>2, <2>3, <2>4, <2>6, <2>7, <2>8, <2>9, <2>10, <2>11, <2>12 DEF LbNext, Reading
<1> QED
  BY <1>1, <1>2, PTL DEF LbSpec

(* What makes OkIsEarned inductive: unless the cluster has changed since,    *)
(* what a poll has read so far is so, or it has noted an error; and so is    *)
(* what it published.                                                        *)
PollIsTrue ==
    LET f == reading.found
    IN /\ reading.step \in 2..6 => f.error \/ f.pools = {PoolUsage(p) : p \in Pool}
       /\ reading.step \in 3..6 => f.error \/ f.services = {[of |-> s, pool |-> holds[s]] : s \in LbService}
       /\ reading.step \in 1..6 => f.adverts \subseteq adverts
       /\ reading.step = 6 => f.error \/ f.speaker = speakers
FindingIsTrue(f) ==
    \/ f.error
    \/ /\ \A s \in LbService : \E r \in f.services : r.pool = holds[s]
       /\ \A p \in Pool : \E r \in f.pools : r.of = p /\ (p.counts => r = PoolUsage(p))
       /\ f.adverts \subseteq adverts
       /\ f.speaker = speakers
TrueToTheCluster ==
    ~stirred => PollIsTrue /\ (reading.step = 0 /\ finding # Waiting => FindingIsTrue(finding))

(* OkIsEarned, of a cluster with a pool: without one, and without a pinned   *)
(* namespace, the speakers are not looked for, and OK says nothing of them.  *)
THEOREM EarnsOk == Pool # {} => (LbSpec => []OkIsEarned)
<1> SUFFICES ASSUME Pool # {}
             PROVE  LbSpec => []OkIsEarned
  OBVIOUS
<1>1. LbInit => TrueToTheCluster
  BY DEF LbInit, TrueToTheCluster, PollIsTrue, Resting
<1>2. LbTypeOK /\ TrueToTheCluster /\ [LbNext]_lbVars => TrueToTheCluster'
  <2> SUFFICES ASSUME LbTypeOK, TrueToTheCluster, [LbNext]_lbVars
               PROVE  TrueToTheCluster'
    OBVIOUS
  <2>1. CASE Moves
    BY <2>1 DEF Moves, TrueToTheCluster
  <2>2. ASSUME UNCHANGED clusterNow
        PROVE  /\ {PoolUsage(p) : p \in Pool}' = {PoolUsage(p) : p \in Pool}
               /\ \A f : FindingIsTrue(f)' <=> FindingIsTrue(f)
    BY <2>2 DEF clusterNow, PoolUsage, Used, FindingIsTrue
  <2>3. CASE Poll
    BY <2>3 DEF Poll, Resting, NoFindings, TrueToTheCluster, PollIsTrue
  <2>4. CASE ListPools
    <3>1. /\ reading.step = 1 /\ reading'.step = 2 /\ reading'.found.adverts = reading.found.adverts
          /\ reading'.found.error \/ reading'.found.pools = {PoolUsage(p) : p \in Pool}
      BY <2>4 DEF ListPools, Reads, Misses, Noted, LbTypeOK, IsFinding
    <3> QED
      BY <2>2, <2>4, <3>1 DEF ListPools, TrueToTheCluster, PollIsTrue, clusterNow
  <2>5. CASE ListServices
    <3>1. /\ reading.step = 2 /\ reading'.step = 3
          /\ reading'.found.adverts = reading.found.adverts /\ reading'.found.pools = reading.found.pools
          /\ reading.found.error => reading'.found.error
          /\ \/ reading'.found.error
             \/ reading'.found.services = {[of |-> s, pool |-> holds[s]] : s \in LbService}
      BY <2>5 DEF ListServices, Reads, Misses, Noted, LbTypeOK, IsFinding
    <3> QED
      BY <2>2, <2>5, <3>1 DEF ListServices, TrueToTheCluster, PollIsTrue, clusterNow
  <2>6. CASE ListAdvertisements
    <3>1. /\ reading.step \in {3, 4} /\ reading'.step = reading.step + 1
          /\ reading'.found.pools = reading.found.pools /\ reading'.found.services = reading.found.services
          /\ reading'.found.error = reading.found.error
          /\ reading'.found.adverts \subseteq reading.found.adverts \cup adverts
      BY <2>6 DEF ListAdvertisements, Reads, Misses, LbTypeOK, IsFinding
    <3> QED
      BY <2>2, <2>6, <3>1 DEF ListAdvertisements, TrueToTheCluster, PollIsTrue, clusterNow
  <2>7. CASE Speaker
    <3>1. /\ reading.step = 5 /\ reading'.step = 6
          /\ reading'.found.pools = reading.found.pools /\ reading'.found.services = reading.found.services
          /\ reading'.found.adverts = reading.found.adverts
          /\ reading.found.error => reading'.found.error
          /\ \/ Namespaces(reading.found.pools) = {}
             \/ reading'.found.error
             \/ reading'.found.speaker = speakers
      BY <2>7 DEF Speaker, Reads, Misses, Noted, LbTypeOK, IsFinding
    <3>2. reading.found.pools = {PoolUsage(p) : p \in Pool} => Namespaces(reading.found.pools) # {}
      BY DEF Namespaces
    <3> QED
      BY <2>2, <2>7, <3>1, <3>2 DEF Speaker, TrueToTheCluster, PollIsTrue, clusterNow
  <2>8. CASE PublishFindings
    <3> DEFINE f == reading.found
    <3>1. /\ reading.step = 6 /\ reading'.step = 0 /\ UNCHANGED <<clusterNow, stirred>>
          /\ finding' = [f EXCEPT !.pools = {WithServices(p, f.services) : p \in @}]
      BY <2>8 DEF PublishFindings, Resting
    <3>2. /\ finding'.error = f.error /\ finding'.services = f.services /\ finding'.adverts = f.adverts
          /\ finding'.speaker = f.speaker
          /\ finding'.pools = {WithServices(p, f.services) : p \in f.pools}
      BY <3>1 DEF LbTypeOK, IsFinding
    <3>3. ASSUME NEW p \in Pool
          PROVE  LET r == WithServices(PoolUsage(p), f.services)
                 IN r.of = p /\ (p.counts => r = PoolUsage(p))
      BY MetalLBAssumption DEF WithServices, PoolUsage
    <3>4. ASSUME ~stirred
          PROVE  FindingIsTrue(finding')
      <4>1. CASE f.error
        BY <3>2, <4>1 DEF FindingIsTrue
      <4>2. CASE ~f.error
        <5>1. /\ f.pools = {PoolUsage(p) : p \in Pool}
              /\ f.services = {[of |-> s, pool |-> holds[s]] : s \in LbService}
              /\ f.adverts \subseteq adverts /\ f.speaker = speakers
          BY <3>1, <3>4, <4>2 DEF TrueToTheCluster, PollIsTrue
        <5>2. \A s \in LbService : \E r \in f.services : r.pool = holds[s]
          <6> SUFFICES ASSUME NEW s \in LbService
                       PROVE  \E r \in f.services : r.pool = holds[s]
            OBVIOUS
          <6>1. [of |-> s, pool |-> holds[s]] \in f.services
            BY <5>1
          <6> QED
            BY <6>1
        <5>3. \A p \in Pool : WithServices(PoolUsage(p), f.services) \in finding'.pools
          BY <3>2, <5>1
        <5> QED
          BY <3>2, <3>3, <5>1, <5>2, <5>3 DEF FindingIsTrue
      <4> QED
        BY <4>1, <4>2
    <3> QED
      BY <2>2, <3>1, <3>4 DEF TrueToTheCluster, PollIsTrue
  <2>9. CASE UNCHANGED lbVars
    BY <2>2, <2>9 DEF lbVars, clusterNow, TrueToTheCluster, PollIsTrue
  <2> QED
    BY <2>1, <2>3, <2>4, <2>5, <2>6, <2>7, <2>8, <2>9
       DEF LbNext, Reading, Release, Allocate, Advertise, SpeakerMoves
<1>3. LbTypeOK /\ UsedFits /\ TrueToTheCluster => OkIsEarned
  <2> SUFFICES ASSUME LbTypeOK, UsedFits, TrueToTheCluster,
                      finding # Waiting, reading.step = 0, ~stirred, Cell(finding) = "ok"
               PROVE  /\ \A s \in LbService : holds[s] # Waiting
                      /\ \A p \in Pool : p.counts => Used(p) < p.size \/ p.size = 0
                      /\ \A p \in Pool : \E a \in adverts : a.pools = {} \/ p.name \in a.pools
                      /\ speakers.ready = speakers.desired
    BY DEF OkIsEarned
  <2>1. /\ ~finding.error
        /\ ~(finding.speaker.desired > 0 /\ finding.speaker.ready < finding.speaker.desired)
        /\ \A s \in finding.services : s.pool # Waiting
        /\ \A p \in finding.pools : ~Exhausted(p)
        /\ \A p \in finding.pools : Advertised(p.of.name, finding.adverts)
    BY DEF Cell
  <2>2. /\ \A s \in LbService : \E r \in finding.services : r.pool = holds[s]
        /\ \A p \in Pool : \E r \in finding.pools : r.of = p /\ (p.counts => r = PoolUsage(p))
        /\ finding.adverts \subseteq adverts /\ finding.speaker = speakers
    BY <2>1 DEF TrueToTheCluster, FindingIsTrue
  <2>3. ASSUME NEW p \in Pool, p.counts
        PROVE  Used(p) < p.size \/ p.size = 0
    <3>1. ~Exhausted(PoolUsage(p))
      BY <2>1, <2>2, <2>3
    <3>2. Used(p) \in Nat /\ p.size \in Nat /\ Used(p) <= p.size
      BY MetalLBAssumption DEF UsedFits
    <3> QED
      BY <2>3, <3>1, <3>2 DEF Exhausted, PoolUsage
  <2>4. \A p \in Pool : \E a \in adverts : a.pools = {} \/ p.name \in a.pools
    BY <2>1, <2>2 DEF Advertised
  <2>5. speakers.ready = speakers.desired
    BY <2>1, <2>2 DEF LbTypeOK, Speakers
  <2> QED
    BY <2>1, <2>2, <2>3, <2>4, <2>5
<1> QED
  BY <1>1, <1>2, <1>3, LbTypeCorrect, PTL DEF LbSpec

-------------------------------------------------------------------------------
(* What a refresh token, a process and an entry of server s are, when the    *)
(* tokens g have been granted.                                               *)
Grant == [server : Server, start : 0..MaxNow, live : BOOLEAN]
EntryFor(g, s) ==
    {e \in Entry : e.grant \in 1..Len(g) /\ e.started = g[e.grant].start /\ g[e.grant].server = s}
MapFor(g) == {m \in Map : \A s \in DOMAIN m : m[s] \in EntryFor(g, s)}

Putting == {"load", "open", "write", "rename"}
Writes == {"forget", "open", "write", "rename", "truncate", "rewrite"}
State == [server : Server \cup {NoServer},
          at : Putting \cup Writes \cup {"off", "discover", "signin", "device", "on", "refresh", "remove", "revoke"},
          then : {"none", "device", "on", "revoke"}, fresh : Nat,
          entry : Entry \cup {NoEntry}, map : Map, fd : {"none", "tmp", "file"}]

(* A process holds an entry of its own server when it needs one. *)
Held(g, r) ==
    /\ IF r.at = "off" THEN r.entry = NoEntry ELSE r.server \in Server
    /\ r.entry # NoEntry => r.entry \in EntryFor(g, r.server)
    /\ r.at \in Putting \cup {"refresh", "revoke"} => r.entry # NoEntry
    /\ r.at \in {"forget", "truncate", "rewrite"} => r.then = "device" \/ (r.then = "revoke" /\ r.entry # NoEntry)
    /\ r.at = "refresh" => r.then \in {"device", "on"}
    /\ r.map \in MapFor(g)

Typed ==
    /\ now \in 0..MaxNow /\ grants \in Seq(Grant) /\ Len(grants) <= MaxGrant
    /\ file \in {Torn, NoFile} \cup MapFor(grants) /\ tmp \in {Torn, NoFile} \cup MapFor(grants)
    /\ saved \in MapFor(grants)
    /\ proc \in [Process -> State]
    /\ overlapped \in BOOLEAN /\ lost \in BOOLEAN
    /\ \A p \in Process : Held(grants, proc[p]) /\ (proc[p].at = "remove" => lost)

(* While nothing has overlapped one process at most is writing. *)
OneWrites ==
    ~overlapped => \A p, q \in Process : proc[p].at \in Writes /\ proc[q].at \in Writes => p = q

(* How far the process that writes has got. *)
Midway(r) ==
    /\ r.at \in {"open", "write", "rename"} => r.map = With(saved, r.server, r.entry)
    /\ r.at = "write" => r.fd = "tmp"
    /\ r.at = "rename" => tmp = r.map
    /\ r.at \in {"truncate", "rewrite"} => r.map = Without(saved, r.server)
    /\ r.at = "rewrite" => r.fd = "file" /\ file = Torn

CacheKept ==
    ~overlapped /\ ~lost =>
        /\ (\A p \in Process : proc[p].at # "rewrite") => Load = saved
        /\ \A p \in Process : Midway(proc[p])

(* The refresh token of an entry that is being put is live and nobody else's,*)
(* and the token of a saved entry is live unless another is being put.       *)
Own(p) ==
    /\ proc[p].at \in Putting =>
         /\ grants[proc[p].entry.grant].live
         /\ \A q \in Process \ {p} : proc[q].entry # NoEntry => proc[q].entry.grant # proc[p].entry.grant
    /\ proc[p].at \in Putting \cup {"revoke"} => \A s \in DOMAIN saved : saved[s].grant # proc[p].entry.grant
Live(s) ==
    (\A p \in Process : ~(proc[p].at \in Putting /\ proc[p].server = s)) => grants[saved[s].grant].live
TokensKept ==
    ~overlapped /\ ~lost => (\A p \in Process : Own(p)) /\ \A s \in DOMAIN saved : Live(s)

TokensInv == Typed /\ OneWrites /\ CacheKept /\ TokensKept

(* Entries stay entries as more refresh tokens are granted. *)
Grown(g, h) ==
    /\ g \in Seq(Grant) /\ h \in Seq(Grant) /\ Len(g) <= Len(h)
    /\ \A i \in 1..Len(g) : h[i].start = g[i].start /\ h[i].server = g[i].server

(* What is true of an entry stays true when tokens are granted, or revoked.  *)
LEMMA EntriesStay ==
    ASSUME NEW g, NEW h, Grown(g, h)
    PROVE  /\ \A s : EntryFor(g, s) \subseteq EntryFor(h, s)
           /\ MapFor(g) \subseteq MapFor(h)
           /\ \A r : Held(g, r) => Held(h, r)
<1>1. \A s : EntryFor(g, s) \subseteq EntryFor(h, s)
  BY DEF Grown, EntryFor
<1>2. MapFor(g) \subseteq MapFor(h)
  BY <1>1 DEF MapFor
<1> QED BY <1>1, <1>2 DEF Held

(* The assumptions on the constants, one by one.                             *)
LEMMA Constants == /\ TokenLife \in Nat /\ MaxSession \in Nat /\ MaxNow \in Nat /\ MaxGrant \in Nat /\ MaxKill \in Nat
                   /\ NoEntry \notin Entry /\ NoFile \notin Map /\ Torn \notin Map /\ IsFiniteSet(Process)
                   /\ NoServer \notin Server
BY TokensAssumption

(* The empty map holds no entry that could be wrong.                         *)
LEMMA NothingIsAMap == \A g : Nothing \in MapFor(g) /\ DOMAIN Nothing = {}
<1>1. Nothing \in [{} -> Entry] /\ DOMAIN Nothing = {}
  BY DEF Nothing
<1> QED BY <1>1 DEF Map, MapFor

(* A map with an entry of its server put in is a map.                        *)
LEMMA MapWith ==
    ASSUME NEW g, NEW m \in MapFor(g), NEW s \in Server, NEW e \in EntryFor(g, s)
    PROVE  With(m, s, e) \in MapFor(g)
<1>1. PICK S \in SUBSET Server : m \in [S -> Entry]
  BY DEF MapFor, Map
<1>2. With(m, s, e) \in [S \cup {s} -> Entry] /\ S \cup {s} \in SUBSET Server
  BY <1>1 DEF With, EntryFor
<1>3. With(m, s, e) \in Map
  BY <1>2 DEF Map
<1>4. ASSUME NEW t \in DOMAIN With(m, s, e) PROVE With(m, s, e)[t] \in EntryFor(g, t)
  BY <1>1, <1>2 DEF With, MapFor
<1> QED BY <1>3, <1>4 DEF MapFor

(* A map without a server's entry is a map, and otherwise unchanged.         *)
LEMMA MapWithout ==
    ASSUME NEW g, NEW m \in MapFor(g), NEW s
    PROVE  /\ Without(m, s) \in MapFor(g) /\ DOMAIN Without(m, s) = DOMAIN m \ {s}
           /\ \A t \in DOMAIN m \ {s} : Without(m, s)[t] = m[t]
<1>1. PICK S \in SUBSET Server : m \in [S -> Entry]
  BY DEF MapFor, Map
<1>2. Without(m, s) \in [S \ {s} -> Entry] /\ S \ {s} \in SUBSET Server
  BY <1>1 DEF Without, Restrict
<1>3. Without(m, s) \in Map
  BY <1>2 DEF Map
<1>4. \A t \in DOMAIN m \ {s} : Without(m, s)[t] = m[t]
  BY DEF Without, Restrict
<1> QED BY <1>1, <1>2, <1>3, <1>4 DEF MapFor

(* What is loaded is a map, and what is saved when it is not empty. *)
LEMMA LoadIsAMap == ASSUME TokensInv PROVE Load \in MapFor(grants)
BY NothingIsAMap DEF TokensInv, Typed, Load

(* An entry that is read while nothing overlaps was saved.                   *)
LEMMA LoadIsSaved ==
    ASSUME TokensInv, ~overlapped, ~lost, NEW s \in DOMAIN Load
    PROVE  Load = saved
<1>1. CASE \E p \in Process : proc[p].at = "rewrite"
  <2>1. file = Torn
    BY <1>1 DEF TokensInv, CacheKept, Midway
  <2> QED BY <2>1, NothingIsAMap DEF Load
<1>2. CASE \A p \in Process : proc[p].at # "rewrite"
  BY <1>2 DEF TokensInv, CacheKept
<1> QED BY <1>1, <1>2

(* The actor changes to r, and the others at most in what they have open. *)
Others(p, r) ==
    /\ proc' \in [Process -> State] /\ proc'[p] = r
    /\ \A q \in Process \ {p} :
         /\ proc'[q].server = proc[q].server /\ proc'[q].at = proc[q].at /\ proc'[q].then = proc[q].then
         /\ proc'[q].entry = proc[q].entry /\ proc'[q].map = proc[q].map

(* What Step changes: the actor, and whether writers have overlapped.        *)
LEMMA StepIs ==
    ASSUME Typed, NEW p \in Process, NEW changed, Step(p, changed), Changed(proc[p], changed) \in State
    PROVE  /\ Others(p, Changed(proc[p], changed))
           /\ \A q \in Process \ {p} : proc'[q] = proc[q]
           /\ overlapped' \in BOOLEAN /\ (overlapped => overlapped')
           /\ ~overlapped' => ~(Cardinality(Writing(proc')) > 1)
BY DEF Typed, Step, Others

(* The type is kept by whoever keeps the actor's and the files'.             *)
LEMMA TypedStays ==
    ASSUME Typed, NEW p \in Process, NEW r, Others(p, r),
           now' \in 0..MaxNow, Grown(grants, grants'), Len(grants') <= MaxGrant,
           file' \in {Torn, NoFile} \cup MapFor(grants'), tmp' \in {Torn, NoFile} \cup MapFor(grants'),
           saved' \in MapFor(grants'), overlapped' \in BOOLEAN, lost' \in BOOLEAN, lost => lost',
           Held(grants', r), r.at = "remove" => lost'
    PROVE  Typed'
<1>1. grants' \in Seq(Grant)
  BY DEF Grown
<1>2. ASSUME NEW q \in Process, q # p PROVE Held(grants', proc'[q]) /\ (proc'[q].at = "remove" => lost')
  <2>1. Held(grants', proc[q])
    BY <1>2, EntriesStay DEF Typed
  <2> QED BY <1>2, <2>1 DEF Others, Held, Typed
<1>3. \A q \in Process : Held(grants', proc'[q]) /\ (proc'[q].at = "remove" => lost')
  BY <1>2 DEF Others
<1> QED BY <1>1, <1>3 DEF Typed, Others

(* Two that write are more than one. *)
LEMMA TwoAreMany ==
    ASSUME NEW S \in SUBSET Process, NEW a \in S, NEW b \in S, a # b
    PROVE  Cardinality(S) > 1
<1>1. IsFiniteSet(S)
  BY Constants, FS_Subset
<1>2. IsFiniteSet({a}) /\ Cardinality({a}) = 1
  BY FS_Singleton
<1>3. {a} \cup {b} \subseteq S /\ b \notin {a}
  OBVIOUS
<1>4. IsFiniteSet({a} \cup {b}) /\ Cardinality({a} \cup {b}) = 2
  BY <1>2, <1>3, FS_AddElement
<1>5. Cardinality({a} \cup {b}) <= Cardinality(S)
  BY <1>1, <1>3, FS_Subset
<1> QED BY <1>1, <1>4, <1>5, FS_CardinalityType

(* Step records two writers, so that when it records none there is one at    *)
(* most.                                                                     *)
LEMMA OneWritesStep ==
    ASSUME ~overlapped' => ~(Cardinality(Writing(proc')) > 1)
    PROVE  OneWrites'
<1> SUFFICES ASSUME ~overlapped', NEW a \in Process, NEW b \in Process,
                    proc'[a].at \in Writes, proc'[b].at \in Writes, a # b
             PROVE FALSE
  BY DEF OneWrites
<1>1. a \in Writing(proc') /\ b \in Writing(proc') /\ Writing(proc') \in SUBSET Process
  BY DEF Writing, Writes
<1> QED BY <1>1, TwoAreMany

(* A process that stops writing leaves one writer at most.                   *)
LEMMA OneWritesFewer ==
    ASSUME OneWrites, NEW p \in Process, NEW r, Others(p, r), r.at \notin Writes, overlapped' = overlapped
    PROVE  OneWrites'
BY DEF OneWrites, Others

(* Who does not write has nothing half done. *)
LEMMA IdleIsMidway == ASSUME NEW r, r.at \notin Writes \/ r.at = "forget" PROVE Midway(r)'
BY DEF Midway, Writes

(* No other process is writing beside one that is. *)
LEMMA NoOtherWrites ==
    ASSUME NEW p \in Process, NEW q \in Process \ {p}, OneWrites, ~overlapped, proc[p].at \in Writes
    PROVE  proc[q].at \notin Writes
BY DEF OneWrites

(* A step that touches no file and does not end a rewrite keeps the cache.   *)
LEMMA CacheStays ==
    ASSUME CacheKept, NEW p \in Process, NEW r, Others(p, r), UNCHANGED <<file, tmp, saved>>,
           \A q \in Process \ {p} : proc'[q] = proc[q],
           overlapped => overlapped', lost => lost', overlapped \in BOOLEAN, lost \in BOOLEAN,
           proc[p].at # "rewrite", r.at # "rewrite", ~overlapped' /\ ~lost' => Midway(r)'
    PROVE  CacheKept'
<1> SUFFICES ASSUME ~overlapped', ~lost' PROVE CacheKept'
  BY DEF CacheKept
<1>1. ~overlapped /\ ~lost
  OBVIOUS
<1>2. \A q \in Process \ {p} : Midway(proc[q])' = Midway(proc[q])
  BY DEF Midway
<1>3. \A q \in Process : Midway(proc[q])'
  BY <1>1, <1>2 DEF CacheKept, Others
<1>4. (\A q \in Process : proc'[q].at # "rewrite") => \A q \in Process : proc[q].at # "rewrite"
  BY DEF Others
<1>5. Load' = Load
  BY DEF Load
<1> QED BY <1>1, <1>3, <1>4, <1>5 DEF CacheKept

(* A step that grants and saves nothing keeps the tokens live.               *)
LEMMA TokensStay ==
    ASSUME TokensKept, Typed, NEW p \in Process, NEW r, Others(p, r), UNCHANGED <<grants, saved>>,
           overlapped => overlapped', lost => lost',
           proc[p].at \in Putting => r.at \in Putting /\ r.server = proc[p].server,
           r.at \in Putting => proc[p].at \in Putting /\ r.entry = proc[p].entry,
           r.at = "revoke" => proc[p].at = "revoke" /\ r.entry = proc[p].entry,
           ~overlapped' /\ ~lost' /\ r.entry \notin {NoEntry, proc[p].entry} =>
               \E s \in DOMAIN saved : r.entry = saved[s]
    PROVE  TokensKept'
<1> SUFFICES ASSUME ~overlapped', ~lost' PROVE TokensKept'
  BY DEF TokensKept
<1>1. ~overlapped /\ ~lost
  BY DEF Typed
<1>2. (\A q \in Process : Own(q)) /\ \A s \in DOMAIN saved : Live(s)
  BY <1>1 DEF TokensKept
<1>3. \A q \in Process : proc'[q].at \in Putting => proc[q].at \in Putting /\ proc'[q].entry = proc[q].entry
  BY DEF Others
<1>4. \A q \in Process : proc'[q].at = "revoke" => proc[q].at = "revoke" /\ proc'[q].entry = proc[q].entry
  BY DEF Others
<1>5. \A q \in Process : proc[q].at \in Putting => proc'[q].at \in Putting /\ proc'[q].server = proc[q].server
  BY DEF Others
<1>6. ASSUME NEW q \in Process, proc'[q].at \in Putting, NEW o \in Process \ {q}, proc'[o].entry # NoEntry
      PROVE  proc'[o].entry.grant # proc'[q].entry.grant
  <2>1. CASE proc'[o].entry = proc[o].entry
    BY <1>2, <1>3, <1>6, <2>1 DEF Own
  <2>2. CASE proc'[o].entry # proc[o].entry
    <3>1. PICK s \in DOMAIN saved : proc'[o].entry = saved[s]
      BY <1>6, <2>2 DEF Others
    <3> QED BY <1>2, <1>3, <1>6, <3>1 DEF Own
  <2> QED BY <2>1, <2>2
<1>7. ASSUME NEW q \in Process PROVE Own(q)'
  BY <1>2, <1>3, <1>4, <1>6 DEF Own
<1>8. \A s \in DOMAIN saved' : Live(s)'
  BY <1>2, <1>5 DEF Live
<1> QED BY <1>7, <1>8 DEF TokensKept
(* A step that changes no file, no token and no saved entry. *)
LEMMA QuietKeeps ==
    ASSUME TokensInv, NEW p \in Process, NEW changed, Step(p, changed),
           UNCHANGED <<now, grants, file, tmp, saved, lost>>,
           NEW r \in State, r = Changed(proc[p], changed), Held(grants, r), r.at = "remove" => lost,
           proc[p].at # "rewrite", r.at # "rewrite", ~overlapped' /\ ~lost => Midway(r),
           proc[p].at \in Putting => r.at \in Putting /\ r.server = proc[p].server,
           r.at \in Putting => proc[p].at \in Putting /\ r.entry = proc[p].entry,
           r.at = "revoke" => proc[p].at = "revoke" /\ r.entry = proc[p].entry,
           ~overlapped' /\ ~lost' /\ r.entry \notin {NoEntry, proc[p].entry} =>
               \E s \in DOMAIN saved : r.entry = saved[s]
    PROVE  TokensInv'
<1>1. Typed /\ OneWrites /\ CacheKept /\ TokensKept
  BY DEF TokensInv
<1>2. /\ Others(p, r) /\ \A q \in Process \ {p} : proc'[q] = proc[q]
      /\ overlapped' \in BOOLEAN /\ (overlapped => overlapped')
      /\ ~overlapped' => ~(Cardinality(Writing(proc')) > 1)
  BY <1>1, StepIs
<1>3. Typed'
  <2>1. Grown(grants, grants')
    BY <1>1 DEF Typed, Grown
  <2> QED BY <1>1, <1>2, <2>1, TypedStays DEF Typed
<1>4. OneWrites'
  BY <1>2, OneWritesStep
<1>5. CacheKept'
  <2>1. ~overlapped' /\ ~lost' => Midway(r)'
    BY DEF Midway
  <2> QED BY <1>1, <1>2, <2>1, CacheStays DEF Typed
<1>6. TokensKept'
  BY <1>1, <1>2, TokensStay
<1> QED BY <1>3, <1>4, <1>5, <1>6 DEF TokensInv

(* What is loaded for a server is an entry of it. *)
LEMMA LoadedIs ==
    ASSUME TokensInv, NEW s \in DOMAIN Load
    PROVE  /\ Load[s] \in EntryFor(grants, s) /\ Load[s] \in Entry /\ Load[s] # NoEntry /\ s \in Server
           /\ Load[s].fresh \in Nat
           /\ ~overlapped /\ ~lost => s \in DOMAIN saved /\ Load[s] = saved[s]
<1>1. PICK S \in SUBSET Server : Load \in [S -> Entry]
  BY LoadIsAMap DEF MapFor, Map
<1>2. Load[s] \in EntryFor(grants, s) /\ s \in Server /\ Load[s] \in Entry
  BY <1>1, LoadIsAMap DEF MapFor
<1>3. Load[s].fresh \in Nat
  BY <1>2, Constants DEF Entry
<1> QED BY <1>2, <1>3, Constants, LoadIsSaved

(* The process a step starts from. *)
LEMMA ProcessIs == ASSUME TokensInv, NEW p \in Process PROVE proc[p] \in State /\ Held(grants, proc[p])
BY DEF TokensInv, Typed

StateFields(r) ==
    /\ r.server \in Server \cup {NoServer} /\ r.then \in {"none", "device", "on", "revoke"} /\ r.fresh \in Nat
    /\ r.entry \in Entry \cup {NoEntry} /\ r.map \in Map /\ r.fd \in {"none", "tmp", "file"}
    /\ r.at \in Putting \cup Writes \cup {"off", "discover", "signin", "device", "on", "refresh", "remove", "revoke"}

(* The fields of a process.                                                  *)
LEMMA StateIs == ASSUME NEW o \in State PROVE StateFields(o)
BY DEF State, StateFields

(* A process whose fields are right is one.                                  *)
LEMMA ChangedIsState == ASSUME NEW o \in State, NEW c, StateFields(Changed(o, c)) PROVE Changed(o, c) \in State
<1>1. DOMAIN o = {"server", "at", "then", "fresh", "entry", "map", "fd"}
  BY DEF State
<1> QED BY <1>1 DEF Changed, State, StateFields

(* The fields that change, and those that do not.                            *)
LEMMA ChangedIs ==
    ASSUME NEW o \in State, NEW c
    PROVE  LET r == Changed(o, c)
               field(f) == IF f \in DOMAIN c THEN c[f] ELSE o[f]
           IN /\ r.server = field("server") /\ r.at = field("at") /\ r.then = field("then")
              /\ r.fresh = field("fresh") /\ r.entry = field("entry") /\ r.map = field("map") /\ r.fd = field("fd")
<1>1. DOMAIN o = {"server", "at", "then", "fresh", "entry", "map", "fd"}
  BY DEF State
<1> QED BY <1>1 DEF Changed, State

(* Each action, and each way one goes, keeps the invariant.                  *)
LEMMA StartKeeps == ASSUME TokensInv, NEW p \in Process, NEW s \in Server, Start(p, s) PROVE TokensInv'
<1> DEFINE c == [server |-> s, at |-> "discover"]
           o == proc[p]
           r == Changed(o, c)
<1>1. o \in State /\ o.at = "off" /\ Held(grants, o) /\ o.entry = NoEntry
  BY ProcessIs DEF Start, Held, Putting
<1>2. /\ r.server = s /\ r.at = "discover" /\ r.then = o.then
      /\ r.fresh = o.fresh /\ r.entry = o.entry /\ r.map = o.map /\ r.fd = o.fd
      /\ r \in State
  <2>1. DOMAIN c = {"server", "at"} /\ c.server = s /\ c.at = "discover"
    OBVIOUS
  <2> HIDE DEF c, o
  <2>2. /\ r.server = s /\ r.at = "discover" /\ r.then = o.then
        /\ r.fresh = o.fresh /\ r.entry = o.entry /\ r.map = o.map /\ r.fd = o.fd
    BY <1>1, <2>1, ChangedIs
  <2>3. StateFields(o)
    BY <1>1, StateIs
  <2> HIDE DEF r
  <2>4. StateFields(r)
    BY <1>1, <2>2, <2>3 DEF StateFields, Writes, Putting
  <2> QED BY <1>1, <2>2, <2>4, ChangedIsState DEF r
<1>3. Step(p, c) /\ UNCHANGED <<now, grants, file, tmp, saved, lost>>
  BY DEF Start
<1> HIDE DEF c, r
<1>4. Held(grants, r) /\ (~overlapped' /\ ~lost => Midway(r))
  BY <1>1, <1>2 DEF Held, Midway, State, Putting
<1> QED BY <1>1, <1>2, <1>3, <1>4, QuietKeeps DEF Putting, r

(* A process ends with nothing half done. *)
LEMMA EndKeeps == ASSUME TokensInv, NEW p \in Process,
        proc[p].at \in {"discover", "device"}, Step(p, Idle), UNCHANGED <<now, grants, file, tmp, saved, lost>> PROVE TokensInv'
<1> DEFINE o == proc[p]
           r == Changed(o, Idle)
<1>1. o \in State
  BY ProcessIs
<1>0. Nothing \in MapFor(grants) /\ Nothing \in Map
  BY NothingIsAMap DEF MapFor
<1>2. /\ r.server = NoServer /\ r.at = "off" /\ r.then = "none"
      /\ r.fresh = 0 /\ r.entry = NoEntry /\ r.map = Nothing /\ r.fd = "none"
      /\ r \in State
  <2>1. DOMAIN Idle = {"server", "at", "then", "fresh", "entry", "map", "fd"} /\ Idle.server = NoServer /\ Idle.at = "off" /\ Idle.then = "none" /\ Idle.fresh = 0 /\ Idle.entry = NoEntry /\ Idle.map = Nothing /\ Idle.fd = "none"
    BY DEF Idle
  <2> HIDE DEF o
  <2>2. /\ r.server = NoServer /\ r.at = "off" /\ r.then = "none"
        /\ r.fresh = 0 /\ r.entry = NoEntry /\ r.map = Nothing /\ r.fd = "none"
    BY <1>1, <2>1, ChangedIs
  <2>3. StateFields(o)
    BY <1>1, StateIs
  <2> HIDE DEF r
  <2>4. StateFields(r)
    BY <1>1, <1>0, <2>2, <2>3 DEF StateFields, Writes, Putting
  <2> QED BY <1>1, <2>2, <2>4, ChangedIsState DEF r
<1> HIDE DEF r
<1>3. Held(grants, r) /\ Midway(r)
  BY <1>0, <1>1, <1>2 DEF Held, Midway, Putting
<1> QED BY <1>1, <1>2, <1>3, QuietKeeps DEF Putting, r

LEMMA AskedForToken == ASSUME TokensInv, NEW p \in Process, proc[p].at = "discover", Step(p, [at |-> "signin"]),
    UNCHANGED <<now, grants, file, tmp, saved, lost>> PROVE TokensInv'
<1> DEFINE c == [at |-> "signin"]
           o == proc[p]
           r == Changed(o, c)
<1>1. o \in State /\ o.at = "discover" /\ Held(grants, o)
  BY ProcessIs DEF Held
<1>2. /\ r.server = o.server /\ r.at = "signin" /\ r.then = o.then
      /\ r.fresh = o.fresh /\ r.entry = o.entry /\ r.map = o.map /\ r.fd = o.fd
      /\ r \in State
  <2>1. DOMAIN c = {"at"} /\ c.at = "signin"
    OBVIOUS
  <2> HIDE DEF c, o
  <2>2. /\ r.server = o.server /\ r.at = "signin" /\ r.then = o.then
        /\ r.fresh = o.fresh /\ r.entry = o.entry /\ r.map = o.map /\ r.fd = o.fd
    BY <1>1, <2>1, ChangedIs
  <2>3. StateFields(o)
    BY <1>1, StateIs
  <2> HIDE DEF r
  <2>4. StateFields(r)
    BY <1>1, <2>2, <2>3 DEF StateFields, Writes, Putting
  <2> QED BY <1>1, <2>2, <2>4, ChangedIsState DEF r
<1>3. Step(p, c) /\ UNCHANGED <<now, grants, file, tmp, saved, lost>>
  BY DEF Held
<1> HIDE DEF c, r
<1>4. Held(grants, r) /\ (~overlapped' /\ ~lost => Midway(r))
  BY <1>1, <1>2 DEF Held, Midway, State, Putting
<1> QED BY <1>1, <1>2, <1>3, <1>4, QuietKeeps DEF Putting, r

LEMMA DiscoverKeeps == ASSUME TokensInv, NEW p \in Process, Discover(p) PROVE TokensInv'
BY EndKeeps, AskedForToken DEF Discover

(* SignIn, by what the file holds: nothing, an entry that is too old, one    *)
(* whose token is fresh, one to renew.                                       *)
LEMMA GoesToDevice == ASSUME TokensInv, NEW p \in Process, proc[p].at = "signin", Step(p, [at |-> "device"]),
    UNCHANGED <<now, grants, file, tmp, saved, lost>> PROVE TokensInv'
<1> DEFINE c == [at |-> "device"]
           o == proc[p]
           r == Changed(o, c)
<1>1. o \in State /\ o.at = "signin" /\ Held(grants, o)
  BY ProcessIs DEF Held
<1>2. /\ r.server = o.server /\ r.at = "device" /\ r.then = o.then
      /\ r.fresh = o.fresh /\ r.entry = o.entry /\ r.map = o.map /\ r.fd = o.fd
      /\ r \in State
  <2>1. DOMAIN c = {"at"} /\ c.at = "device"
    OBVIOUS
  <2> HIDE DEF c, o
  <2>2. /\ r.server = o.server /\ r.at = "device" /\ r.then = o.then
        /\ r.fresh = o.fresh /\ r.entry = o.entry /\ r.map = o.map /\ r.fd = o.fd
    BY <1>1, <2>1, ChangedIs
  <2>3. StateFields(o)
    BY <1>1, StateIs
  <2> HIDE DEF r
  <2>4. StateFields(r)
    BY <1>1, <2>2, <2>3 DEF StateFields, Writes, Putting
  <2> QED BY <1>1, <2>2, <2>4, ChangedIsState DEF r
<1>3. Step(p, c) /\ UNCHANGED <<now, grants, file, tmp, saved, lost>>
  BY DEF Held
<1> HIDE DEF c, r
<1>4. Held(grants, r) /\ (~overlapped' /\ ~lost => Midway(r))
  BY <1>1, <1>2 DEF Held, Midway, State, Putting
<1> QED BY <1>1, <1>2, <1>3, <1>4, QuietKeeps DEF Putting, r

LEMMA ForgetsFirst == ASSUME TokensInv, NEW p \in Process, proc[p].at = "signin",
    Step(p, [at |-> "forget", then |-> "device"]), UNCHANGED <<now, grants, file, tmp, saved, lost>> PROVE TokensInv'
<1> DEFINE c == [at |-> "forget", then |-> "device"]
           o == proc[p]
           r == Changed(o, c)
<1>1. o \in State /\ o.at = "signin" /\ Held(grants, o)
  BY ProcessIs DEF Held
<1>2. /\ r.server = o.server /\ r.at = "forget" /\ r.then = "device"
      /\ r.fresh = o.fresh /\ r.entry = o.entry /\ r.map = o.map /\ r.fd = o.fd
      /\ r \in State
  <2>1. DOMAIN c = {"at", "then"} /\ c.at = "forget" /\ c.then = "device"
    OBVIOUS
  <2> HIDE DEF c, o
  <2>2. /\ r.server = o.server /\ r.at = "forget" /\ r.then = "device"
        /\ r.fresh = o.fresh /\ r.entry = o.entry /\ r.map = o.map /\ r.fd = o.fd
    BY <1>1, <2>1, ChangedIs
  <2>3. StateFields(o)
    BY <1>1, StateIs
  <2> HIDE DEF r
  <2>4. StateFields(r)
    BY <1>1, <2>2, <2>3 DEF StateFields, Writes, Putting
  <2> QED BY <1>1, <2>2, <2>4, ChangedIsState DEF r
<1>3. Step(p, c) /\ UNCHANGED <<now, grants, file, tmp, saved, lost>>
  BY DEF Held
<1> HIDE DEF c, r
<1>4. Held(grants, r) /\ (~overlapped' /\ ~lost => Midway(r))
  BY <1>1, <1>2 DEF Held, Midway, State, Putting
<1> QED BY <1>1, <1>2, <1>3, <1>4, QuietKeeps DEF Putting, r

LEMMA IsSignedIn == ASSUME TokensInv, NEW p \in Process, NEW n \in Nat, proc[p].at = "signin", Step(p, [at |-> "on", fresh |-> n]),
    UNCHANGED <<now, grants, file, tmp, saved, lost>> PROVE TokensInv'
<1> DEFINE c == [at |-> "on", fresh |-> n]
           o == proc[p]
           r == Changed(o, c)
<1>1. o \in State /\ o.at = "signin" /\ Held(grants, o)
  BY ProcessIs DEF Held
<1>2. /\ r.server = o.server /\ r.at = "on" /\ r.then = o.then
      /\ r.fresh = n /\ r.entry = o.entry /\ r.map = o.map /\ r.fd = o.fd
      /\ r \in State
  <2>1. DOMAIN c = {"at", "fresh"} /\ c.at = "on" /\ c.fresh = n
    OBVIOUS
  <2> HIDE DEF c, o
  <2>2. /\ r.server = o.server /\ r.at = "on" /\ r.then = o.then
        /\ r.fresh = n /\ r.entry = o.entry /\ r.map = o.map /\ r.fd = o.fd
    BY <1>1, <2>1, ChangedIs
  <2>3. StateFields(o)
    BY <1>1, StateIs
  <2> HIDE DEF r
  <2>4. StateFields(r)
    BY <1>1, <2>2, <2>3 DEF StateFields, Writes, Putting
  <2> QED BY <1>1, <2>2, <2>4, ChangedIsState DEF r
<1>3. Step(p, c) /\ UNCHANGED <<now, grants, file, tmp, saved, lost>>
  BY DEF Held
<1> HIDE DEF c, r
<1>4. Held(grants, r) /\ (~overlapped' /\ ~lost => Midway(r))
  BY <1>1, <1>2 DEF Held, Midway, State, Putting
<1> QED BY <1>1, <1>2, <1>3, <1>4, QuietKeeps DEF Putting, r

LEMMA SignInRenews == ASSUME TokensInv, NEW p \in Process, NEW s \in DOMAIN Load, proc[p].server = s, proc[p].at = "signin",
    Step(p, [at |-> "refresh", entry |-> Load[s], then |-> "device"]), UNCHANGED <<now, grants, file, tmp, saved, lost>> PROVE TokensInv'
<1> DEFINE c == [at |-> "refresh", entry |-> Load[s], then |-> "device"]
           o == proc[p]
           r == Changed(o, c)
<1>1. o \in State /\ o.at = "signin" /\ Held(grants, o)
  BY ProcessIs DEF Held
<1>6. Load[s] \in EntryFor(grants, s) /\ Load[s] \in Entry /\ Load[s] # NoEntry /\ s \in Server
      /\ (~overlapped /\ ~lost => s \in DOMAIN saved /\ Load[s] = saved[s])
  BY <1>1, LoadedIs
<1>2. /\ r.server = o.server /\ r.at = "refresh" /\ r.then = "device"
      /\ r.fresh = o.fresh /\ r.entry = Load[s] /\ r.map = o.map /\ r.fd = o.fd
      /\ r \in State
  <2>1. DOMAIN c = {"at", "entry", "then"} /\ c.at = "refresh" /\ c.entry = Load[s] /\ c.then = "device"
    OBVIOUS
  <2> HIDE DEF c, o
  <2>2. /\ r.server = o.server /\ r.at = "refresh" /\ r.then = "device"
        /\ r.fresh = o.fresh /\ r.entry = Load[s] /\ r.map = o.map /\ r.fd = o.fd
    BY <1>1, <2>1, ChangedIs
  <2>3. StateFields(o)
    BY <1>1, StateIs
  <2> HIDE DEF r
  <2>4. StateFields(r)
    BY <1>1, <1>6, <2>2, <2>3 DEF StateFields, Writes, Putting
  <2> QED BY <1>1, <2>2, <2>4, ChangedIsState DEF r
<1>3. Step(p, c) /\ UNCHANGED <<now, grants, file, tmp, saved, lost>>
  BY DEF Held
<1>7. overlapped => overlapped'
  BY <1>3 DEF Step
<1> HIDE DEF c, r
<1>4. Held(grants, r) /\ (~overlapped' /\ ~lost => Midway(r))
  BY <1>1, <1>2, <1>6 DEF Held, Midway, State, Putting
<1>8. ~overlapped' /\ ~lost' => \E t \in DOMAIN saved : r.entry = saved[t]
  BY <1>2, <1>3, <1>6, <1>7
<1> QED BY <1>1, <1>2, <1>3, <1>4, QuietKeeps, <1>8 DEF Putting, r

(* Token takes the file's entry.                                             *)
LEMMA TokenRenews == ASSUME TokensInv, NEW p \in Process, NEW s \in DOMAIN Load, proc[p].server = s, proc[p].at = "on",
    Step(p, [at |-> "refresh", entry |-> Load[s], then |-> "on"]), UNCHANGED <<now, grants, file, tmp, saved, lost>> PROVE TokensInv'
<1> DEFINE c == [at |-> "refresh", entry |-> Load[s], then |-> "on"]
           o == proc[p]
           r == Changed(o, c)
<1>1. o \in State /\ o.at = "on" /\ Held(grants, o)
  BY ProcessIs DEF Held
<1>6. Load[s] \in EntryFor(grants, s) /\ Load[s] \in Entry /\ Load[s] # NoEntry /\ s \in Server
      /\ (~overlapped /\ ~lost => s \in DOMAIN saved /\ Load[s] = saved[s])
  BY <1>1, LoadedIs
<1>2. /\ r.server = o.server /\ r.at = "refresh" /\ r.then = "on"
      /\ r.fresh = o.fresh /\ r.entry = Load[s] /\ r.map = o.map /\ r.fd = o.fd
      /\ r \in State
  <2>1. DOMAIN c = {"at", "entry", "then"} /\ c.at = "refresh" /\ c.entry = Load[s] /\ c.then = "on"
    OBVIOUS
  <2> HIDE DEF c, o
  <2>2. /\ r.server = o.server /\ r.at = "refresh" /\ r.then = "on"
        /\ r.fresh = o.fresh /\ r.entry = Load[s] /\ r.map = o.map /\ r.fd = o.fd
    BY <1>1, <2>1, ChangedIs
  <2>3. StateFields(o)
    BY <1>1, StateIs
  <2> HIDE DEF r
  <2>4. StateFields(r)
    BY <1>1, <1>6, <2>2, <2>3 DEF StateFields, Writes, Putting
  <2> QED BY <1>1, <2>2, <2>4, ChangedIsState DEF r
<1>3. Step(p, c) /\ UNCHANGED <<now, grants, file, tmp, saved, lost>>
  BY DEF Held
<1>7. overlapped => overlapped'
  BY <1>3 DEF Step
<1> HIDE DEF c, r
<1>4. Held(grants, r) /\ (~overlapped' /\ ~lost => Midway(r))
  BY <1>1, <1>2, <1>6 DEF Held, Midway, State, Putting
<1>8. ~overlapped' /\ ~lost' => \E t \in DOMAIN saved : r.entry = saved[t]
  BY <1>2, <1>3, <1>6, <1>7
<1> QED BY <1>1, <1>2, <1>3, <1>4, QuietKeeps, <1>8 DEF Putting, r

LEMMA SignInKeeps == ASSUME TokensInv, NEW p \in Process, SignIn(p) PROVE TokensInv'
<1> DEFINE s == proc[p].server
<1>1. proc[p].at = "signin" /\ UNCHANGED <<now, grants, file, tmp, saved, lost>>
  BY DEF SignIn
<1>2. CASE Step(p, [at |-> "device"])
  BY <1>1, <1>2, GoesToDevice
<1>3. CASE Step(p, [at |-> "forget", then |-> "device"])
  BY <1>1, <1>3, ForgetsFirst
<1>4. CASE s \in DOMAIN Load /\ Step(p, [at |-> "on", fresh |-> Load[s].fresh])
  <2>1. Load[s].fresh \in Nat
    BY <1>4, LoadedIs
  <2> QED BY <1>1, <1>4, <2>1, IsSignedIn
<1>5. CASE s \in DOMAIN Load /\ Step(p, [at |-> "refresh", entry |-> Load[s], then |-> "device"])
  BY <1>1, <1>5, SignInRenews
<1> QED BY <1>2, <1>3, <1>4, <1>5 DEF SignIn

LEMMA TokenKeeps == ASSUME TokensInv, NEW p \in Process, Token(p) PROVE TokensInv'
BY TokenRenews DEF Token

LEMMA SignOutKeeps == ASSUME TokensInv, NEW p \in Process, NEW s \in Server, SignOut(p, s) PROVE TokensInv'
<1> DEFINE c == [server |-> s, at |-> "forget", then |-> "revoke", entry |-> Load[s]]
           o == proc[p]
           r == Changed(o, c)
<1>1. o \in State /\ o.at = "off" /\ Held(grants, o) /\ s \in DOMAIN Load
  BY ProcessIs DEF SignOut, Held, Putting
<1>6. Load[s] \in EntryFor(grants, s) /\ Load[s] \in Entry /\ Load[s] # NoEntry /\ s \in Server
      /\ (~overlapped /\ ~lost => s \in DOMAIN saved /\ Load[s] = saved[s])
  BY <1>1, LoadedIs
<1>2. /\ r.server = s /\ r.at = "forget" /\ r.then = "revoke"
      /\ r.fresh = o.fresh /\ r.entry = Load[s] /\ r.map = o.map /\ r.fd = o.fd
      /\ r \in State
  <2>1. DOMAIN c = {"server", "at", "then", "entry"} /\ c.server = s /\ c.at = "forget" /\ c.then = "revoke" /\ c.entry = Load[s]
    OBVIOUS
  <2> HIDE DEF c, o
  <2>2. /\ r.server = s /\ r.at = "forget" /\ r.then = "revoke"
        /\ r.fresh = o.fresh /\ r.entry = Load[s] /\ r.map = o.map /\ r.fd = o.fd
    BY <1>1, <2>1, ChangedIs
  <2>3. StateFields(o)
    BY <1>1, StateIs
  <2> HIDE DEF r
  <2>4. StateFields(r)
    BY <1>1, <1>6, <2>2, <2>3 DEF StateFields, Writes, Putting
  <2> QED BY <1>1, <2>2, <2>4, ChangedIsState DEF r
<1>3. Step(p, c) /\ UNCHANGED <<now, grants, file, tmp, saved, lost>>
  BY DEF SignOut
<1>7. overlapped => overlapped'
  BY <1>3 DEF Step
<1> HIDE DEF c, r
<1>4. Held(grants, r) /\ (~overlapped' /\ ~lost => Midway(r))
  BY <1>1, <1>2, <1>6 DEF Held, Midway, State, Putting
<1>8. ~overlapped' /\ ~lost' => \E t \in DOMAIN saved : r.entry = saved[t]
  BY <1>2, <1>3, <1>6, <1>7
<1> QED BY <1>1, <1>2, <1>3, <1>4, QuietKeeps, <1>8 DEF Putting, r

(* Only one process writes, and what it has done is right. *)
LEMMA WriterCache ==
    ASSUME Typed, OneWrites, NEW p \in Process, NEW r, Others(p, r), proc[p].at \in Writes,
           overlapped' \in BOOLEAN, overlapped => overlapped',
           ~overlapped' /\ ~lost' => Midway(r)' /\ (r.at # "rewrite" => Load' = saved')
    PROVE  CacheKept'
<1> SUFFICES ASSUME ~overlapped', ~lost' PROVE CacheKept'
  BY DEF CacheKept
<1>1. \A q \in Process \ {p} : proc[q].at \notin Writes
  BY NoOtherWrites
<1>2. ASSUME NEW q \in Process \ {p} PROVE proc'[q].at \notin Writes
  BY <1>1 DEF Others
<1>3. ASSUME NEW q \in Process PROVE Midway(proc[q])'
  <2>1. CASE q = p
    BY <2>1 DEF Others
  <2>2. CASE q # p
    BY <1>2, <2>2 DEF Midway, Writes
  <2> QED BY <2>1, <2>2
<1>4. (\A q \in Process : proc'[q].at # "rewrite") => Load' = saved'
  BY DEF Others
<1> QED BY <1>3, <1>4 DEF CacheKept

(* A step of p that writes, when what is left to see is that it writes right. *)
LEMMA WriteKeeps ==
    ASSUME TokensInv, NEW p \in Process, NEW changed, Step(p, changed), UNCHANGED <<now, grants, lost>>,
           NEW r \in State, r = Changed(proc[p], changed), Held(grants, r), r.at # "remove",
           file' \in {Torn, NoFile} \cup MapFor(grants), tmp' \in {Torn, NoFile} \cup MapFor(grants),
           saved' \in MapFor(grants), proc[p].at \in Writes,
           ~overlapped' /\ ~lost => Midway(r)' /\ (r.at # "rewrite" => Load' = saved'),
           TokensKept'
    PROVE  TokensInv'
<1>1. Typed /\ OneWrites
  BY DEF TokensInv
<1>2. /\ Others(p, r) /\ overlapped' \in BOOLEAN /\ (overlapped => overlapped')
      /\ ~overlapped' => ~(Cardinality(Writing(proc')) > 1)
  BY <1>1, StepIs
<1>3. Typed'
  <2>1. Grown(grants, grants')
    BY <1>1 DEF Typed, Grown
  <2> QED BY <1>1, <1>2, <2>1, TypedStays DEF Typed
<1>4. OneWrites'
  BY <1>2, OneWritesStep
<1>5. CacheKept'
  BY <1>1, <1>2, WriterCache
<1> QED BY <1>3, <1>4, <1>5 DEF TokensInv

(* A process that has a token granted holds one nobody else does. *)
LEMMA GrantedKeeps ==
    ASSUME TokensInv, NEW p \in Process, NEW changed, Step(p, changed),
           UNCHANGED <<now, file, tmp, saved, lost>>,
           NEW r \in State, r = Changed(proc[p], changed), r.at = "load", r.entry # NoEntry,
           r.server = proc[p].server, proc[p].at \in {"device", "refresh"}, Held(grants', r),
           Grown(grants, grants'), Len(grants') = Len(grants) + 1, Len(grants') <= MaxGrant,
           r.entry.grant = Len(grants) + 1, grants'[Len(grants) + 1].live,
           \A i \in 1..Len(grants) :
               grants'[i].live = grants[i].live \/ (proc[p].at = "refresh" /\ i = proc[p].entry.grant)
    PROVE  TokensInv'
<1>1. Typed /\ OneWrites /\ CacheKept /\ TokensKept
  BY DEF TokensInv
<1>2. /\ Others(p, r) /\ \A q \in Process \ {p} : proc'[q] = proc[q]
      /\ overlapped' \in BOOLEAN /\ (overlapped => overlapped')
      /\ ~overlapped' => ~(Cardinality(Writing(proc')) > 1)
  BY <1>1, StepIs
<1>3. Typed'
  <2>1. file' \in {Torn, NoFile} \cup MapFor(grants') /\ tmp' \in {Torn, NoFile} \cup MapFor(grants') /\ saved' \in MapFor(grants')
    BY <1>1, EntriesStay DEF Typed
  <2> QED BY <1>1, <1>2, <2>1, TypedStays DEF Typed
<1>4. OneWrites'
  BY <1>2, OneWritesStep
<1>5. CacheKept'
  <2>1. Midway(r)'
    BY DEF Midway
  <2> QED BY <1>1, <1>2, <2>1, CacheStays DEF Typed
<1>6. TokensKept'
  <2> SUFFICES ASSUME ~overlapped', ~lost' PROVE TokensKept'
    BY DEF TokensKept
  <2>1. (\A q \in Process : Own(q)) /\ (\A s \in DOMAIN saved : Live(s)) /\ Len(grants) \in Nat
    BY <1>1, <1>2 DEF TokensKept, Typed
  <2>2. \A q \in Process : Held(grants, proc[q])
    BY <1>1 DEF Typed
  <2>3. \A q \in Process : proc[q].entry # NoEntry =>
            proc[q].entry.grant \in 1..Len(grants) /\ grants[proc[q].entry.grant].server = proc[q].server
    BY <2>2 DEF Held, EntryFor
  <2>4. \A s \in DOMAIN saved : saved[s].grant \in 1..Len(grants) /\ grants[saved[s].grant].server = s
    BY <1>1 DEF Typed, MapFor, EntryFor
  <2>5. proc[p].at = "refresh" => proc[p].entry # NoEntry
    BY <2>2 DEF Held
  <2>6. ASSUME NEW q \in Process \ {p} PROVE Own(q)'
    <3>1. proc'[q] = proc[q] /\ proc'[p] = r
      BY <1>2 DEF Others
    <3>2. proc[q].at \in Putting => grants'[proc[q].entry.grant].live
      <4> SUFFICES ASSUME proc[q].at \in Putting PROVE grants'[proc[q].entry.grant].live
        OBVIOUS
      <4>1. proc[q].entry # NoEntry
        BY <2>2 DEF Held
      <4> QED BY <2>1, <2>3, <2>5, <4>1 DEF Own
    <3>3. proc[q].at \in Putting => proc'[p].entry.grant # proc[q].entry.grant
      <4> SUFFICES ASSUME proc[q].at \in Putting PROVE proc'[p].entry.grant # proc[q].entry.grant
        OBVIOUS
      <4>1. proc[q].entry # NoEntry
        BY <2>2 DEF Held
      <4> QED BY <2>1, <2>3, <3>1, <4>1
    <3>4. proc[q].at \in Putting => \A o \in Process \ {q} : proc'[o].entry # NoEntry => proc'[o].entry.grant # proc'[q].entry.grant
      BY <1>2, <2>1, <3>1, <3>3 DEF Own
    <3> QED BY <2>1, <3>1, <3>2, <3>4 DEF Own
  <2>7. Own(p)'
    <3>1. proc'[p] = r
      BY <1>2 DEF Others
    <3>2. \A o \in Process \ {p} : proc'[o].entry # NoEntry => proc'[o].entry.grant # r.entry.grant
      BY <1>2, <2>1, <2>3
    <3>3. \A s \in DOMAIN saved : saved[s].grant # r.entry.grant
      BY <2>1, <2>4
    <3> QED BY <3>1, <3>2, <3>3 DEF Own
  <2>8. ASSUME NEW s \in DOMAIN saved PROVE Live(s)'
    <3> SUFFICES ASSUME \A q \in Process : ~(proc'[q].at \in Putting /\ proc'[q].server = s)
                 PROVE  grants'[saved[s].grant].live
      BY DEF Live
    <3>1. r.at \in Putting /\ proc[p].at \notin Putting
      BY DEF Putting
    <3>2. s # proc[p].server
      BY <1>2, <3>1 DEF Others
    <3>3. grants[saved[s].grant].live
      BY <1>2, <2>1, <3>1 DEF Live
    <3> QED BY <2>3, <2>4, <2>5, <3>2, <3>3
  <2> QED BY <2>6, <2>7, <2>8 DEF TokensKept
<1> QED BY <1>3, <1>4, <1>5, <1>6 DEF TokensInv

(* The process has taken the server's entry out of the file, or found none.  *)
LEMMA ForgottenTokens ==
    ASSUME TokensKept, Typed, NEW p \in Process, NEW r, Others(p, r), UNCHANGED grants,
           overlapped => overlapped', lost => lost', proc[p].at \notin Putting,
           r.at \in {"device", "revoke"}, r.entry = proc[p].entry, r.server = proc[p].server,
           r.at = "revoke" => r.entry # NoEntry,
           ~overlapped' /\ ~lost' => /\ DOMAIN saved' \subseteq DOMAIN saved \ {r.server}
                                     /\ \A s \in DOMAIN saved' : saved'[s] = saved[s]
    PROVE  TokensKept'
<1> SUFFICES ASSUME ~overlapped', ~lost' PROVE TokensKept'
  BY DEF TokensKept
<1>1. (\A q \in Process : Own(q)) /\ (\A s \in DOMAIN saved : Live(s))
  BY DEF TokensKept, Typed
<1>2. \A q \in Process : proc'[q].entry = proc[q].entry /\ proc'[q].server = proc[q].server
                         /\ (q # p => proc'[q].at = proc[q].at)
  BY DEF Others
<1>3. r.at = "revoke" => \A s \in DOMAIN saved' : saved'[s].grant # r.entry.grant
  <2> SUFFICES ASSUME r.at = "revoke", NEW s \in DOMAIN saved' PROVE saved'[s].grant # r.entry.grant
    OBVIOUS
  <2>1. grants[r.entry.grant].server = r.server
    BY DEF Typed, Held, EntryFor
  <2>2. grants[saved[s].grant].server = s /\ s # r.server /\ saved'[s] = saved[s]
    BY DEF Typed, MapFor, EntryFor
  <2> QED BY <2>1, <2>2
<1>4. ASSUME NEW q \in Process PROVE Own(q)'
  <2>1. CASE q = p
    BY <1>3, <2>1 DEF Own, Others, Putting
  <2>2. CASE q # p
    BY <1>1, <1>2, <2>2 DEF Own
  <2> QED BY <2>1, <2>2
<1>5. ASSUME NEW s \in DOMAIN saved' PROVE Live(s)'
  BY <1>1, <1>2 DEF Live
<1> QED BY <1>4, <1>5 DEF TokensKept

(* A new session's entry is true, and its refresh token is nobody's yet.     *)
LEMMA UserSignsIn == ASSUME TokensInv, NEW p \in Process, proc[p].at = "device", Len(grants) < MaxGrant,
    grants' = Append(grants, [server |-> proc[p].server, start |-> now, live |-> TRUE]),
    Step(p, [at |-> "load", then |-> "none", entry |-> Issued(now), fresh |-> now + TokenLife]),
    UNCHANGED <<now, file, tmp, saved, lost>> PROVE TokensInv'
<1> DEFINE c == [at |-> "load", then |-> "none", entry |-> Issued(now), fresh |-> now + TokenLife]
           o == proc[p]
           r == Changed(o, c)
<1>1. o \in State /\ Held(grants, o) /\ o.at = "device" /\ o.server \in Server
  BY ProcessIs DEF Held, Putting
<1>5. /\ grants \in Seq(Grant) /\ now \in 0..MaxNow /\ Len(grants) \in Nat /\ Len(grants) + 1 \in 1..MaxGrant
  BY Constants DEF TokensInv, Typed
<1>6. /\ Grown(grants, grants') /\ Len(grants') = Len(grants) + 1 /\ \A i \in 1..Len(grants) : grants'[i] = grants[i]
      /\ grants'[Len(grants) + 1] = [server |-> o.server, start |-> now, live |-> TRUE]
  <2>1. [server |-> o.server, start |-> now, live |-> TRUE] \in Grant
    BY <1>1, <1>5 DEF Grant
  <2> QED BY <1>5, <2>1 DEF Grown
<1> DEFINE e == Issued(now)
           until == now + TokenLife
<1>8. e \in EntryFor(grants', o.server) /\ e \in Entry /\ e # NoEntry /\ e.grant = Len(grants) + 1
  <2>1. now \in 0..MaxNow
    BY <1>1, <1>5 DEF EntryFor, Entry
  <2>2. now + TokenLife \in 0..(MaxNow + TokenLife)
    BY <1>5, Constants
  <2>3. e \in Entry /\ e.grant = Len(grants) + 1 /\ e.started = now
    BY <1>5, <2>1, <2>2 DEF Issued, Entry
  <2> HIDE DEF e
  <2> QED BY <1>5, <1>6, <2>3, Constants DEF EntryFor
<1>9. until \in Nat /\ e \in Entry
  BY <1>5, <1>8, Constants
<1> HIDE DEF e, until
<1>2. /\ r.server = o.server /\ r.at = "load" /\ r.then = "none"
      /\ r.fresh = until /\ r.entry = e /\ r.map = o.map /\ r.fd = o.fd
      /\ r \in State
  <2>1. DOMAIN c = {"at", "then", "entry", "fresh"} /\ c.at = "load" /\ c.then = "none" /\ c.entry = e /\ c.fresh = until
    BY DEF e, until
  <2> HIDE DEF c, o
  <2>2. /\ r.server = o.server /\ r.at = "load" /\ r.then = "none"
        /\ r.fresh = until /\ r.entry = e /\ r.map = o.map /\ r.fd = o.fd
    BY <1>1, <2>1, ChangedIs
  <2>3. StateFields(o)
    BY <1>1, StateIs
  <2> HIDE DEF r
  <2>4. StateFields(r)
    BY <1>9, <2>2, <2>3 DEF StateFields, Writes, Putting
  <2> QED BY <1>1, <2>2, <2>4, ChangedIsState DEF r
<1>3. Step(p, c)
  OBVIOUS
<1> HIDE DEF c, r
<1>4. Held(grants', r)
  <2>1. o.map \in MapFor(grants')
    BY <1>1, <1>6, EntriesStay DEF Held
  <2> HIDE DEF o
  <2> QED BY <1>1, <1>2, <1>8, <2>1 DEF Held, Putting
<1>10. /\ Len(grants') = Len(grants) + 1 /\ Len(grants') <= MaxGrant /\ grants'[Len(grants) + 1].live
       /\ \A i \in 1..Len(grants) : grants'[i].live = grants[i].live \/ (o.at = "refresh" /\ i = o.entry.grant)
  BY <1>1, <1>5, <1>6
<1>11. r.entry # NoEntry /\ r.entry.grant = Len(grants) + 1 /\ r.server = o.server /\ r.at = "load" /\ r \in State
  BY <1>2, <1>8
<1>12. Grown(grants, grants') /\ o.at \in {"device", "refresh"}
  BY <1>1, <1>6
<1>13. r = Changed(proc[p], c)
  BY DEF r
<1> QED BY <1>3, <1>4, <1>10, <1>11, <1>12, <1>13, GrantedKeeps

(* An exchanged entry is as true as the one it came from, and the new        *)
(* refresh token is nobody's yet.                                            *)
LEMMA TokenIsExchanged == ASSUME TokensInv, NEW p \in Process, proc[p].at = "refresh", Len(grants) < MaxGrant,
    grants[proc[p].entry.grant].live, grants' = Exchange(proc[p].entry.grant),
    Step(p, [at |-> "load", then |-> "none", entry |-> Issued(proc[p].entry.started), fresh |-> now + TokenLife]),
    UNCHANGED <<now, file, tmp, saved, lost>> PROVE TokensInv'
<1> DEFINE c == [at |-> "load", then |-> "none", entry |-> Issued(proc[p].entry.started), fresh |-> now + TokenLife]
           o == proc[p]
           r == Changed(o, c)
<1>1. o \in State /\ Held(grants, o) /\ o.at = "refresh" /\ o.server \in Server /\ o.entry \in EntryFor(grants, o.server)
  BY ProcessIs DEF Held, Putting
<1>5. /\ grants \in Seq(Grant) /\ now \in 0..MaxNow /\ Len(grants) \in Nat /\ Len(grants) + 1 \in 1..MaxGrant
  BY Constants DEF TokensInv, Typed
<1>6. /\ Grown(grants, grants') /\ Len(grants') = Len(grants) + 1
      /\ \A i \in 1..Len(grants) : i # o.entry.grant => grants'[i] = grants[i]
      /\ grants'[Len(grants) + 1] = [server |-> o.server, start |-> o.entry.started, live |-> TRUE]
  <2> DEFINE g == o.entry.grant
             n == Len(grants)
             new == [server |-> o.server, start |-> o.entry.started, live |-> TRUE]
             old == [grants[g] EXCEPT !.live = FALSE]
  <2>1. g \in 1..n /\ grants[g].server = o.server /\ grants[g].start = o.entry.started
    BY <1>1 DEF EntryFor
  <2>2. grants[g] \in Grant /\ \A i \in 1..n : grants[i] \in Grant
    BY <1>5, <2>1
  <2>3. new \in Grant /\ old \in Grant /\ old.start = grants[g].start /\ old.server = grants[g].server
    BY <1>1, <2>1, <2>2 DEF Grant
  <2>4. grants' = [i \in 1..(n + 1) |-> IF i = n + 1 THEN new ELSE IF i = g THEN old ELSE grants[i]]
    BY <2>1 DEF Exchange
  <2> HIDE DEF g, new, old, n
  <2>0. n \in Nat /\ \A i \in 1..(n + 1) : i = n + 1 \/ i \in 1..n
    BY <1>5 DEF n
  <2>5. grants' \in [1..(n + 1) -> Grant] /\ n + 1 \in Nat
    BY <2>0, <2>2, <2>3, <2>4
  <2>6. grants' \in Seq(Grant) /\ Len(grants') = n + 1
    BY <2>5
  <2>7. \A i \in 1..n : grants'[i].start = grants[i].start /\ grants'[i].server = grants[i].server
    BY <2>0, <2>1, <2>3, <2>4
  <2>8. (\A i \in 1..n : i # g => grants'[i] = grants[i]) /\ grants'[n + 1] = new
    BY <2>0, <2>4
  <2> QED BY <1>5, <2>0, <2>6, <2>7, <2>8 DEF Grown, g, new, n
<1> DEFINE e == Issued(o.entry.started)
           until == now + TokenLife
<1>8. e \in EntryFor(grants', o.server) /\ e \in Entry /\ e # NoEntry /\ e.grant = Len(grants) + 1
  <2>1. o.entry.started \in 0..MaxNow
    BY <1>1, <1>5 DEF EntryFor, Entry
  <2>2. now + TokenLife \in 0..(MaxNow + TokenLife)
    BY <1>5, Constants
  <2>3. e \in Entry /\ e.grant = Len(grants) + 1 /\ e.started = o.entry.started
    BY <1>5, <2>1, <2>2 DEF Issued, Entry
  <2> HIDE DEF e
  <2> QED BY <1>5, <1>6, <2>3, Constants DEF EntryFor
<1>9. until \in Nat /\ e \in Entry
  BY <1>5, <1>8, Constants
<1> HIDE DEF e, until
<1>2. /\ r.server = o.server /\ r.at = "load" /\ r.then = "none"
      /\ r.fresh = until /\ r.entry = e /\ r.map = o.map /\ r.fd = o.fd
      /\ r \in State
  <2>1. DOMAIN c = {"at", "then", "entry", "fresh"} /\ c.at = "load" /\ c.then = "none" /\ c.entry = e /\ c.fresh = until
    BY DEF e, until
  <2> HIDE DEF c, o
  <2>2. /\ r.server = o.server /\ r.at = "load" /\ r.then = "none"
        /\ r.fresh = until /\ r.entry = e /\ r.map = o.map /\ r.fd = o.fd
    BY <1>1, <2>1, ChangedIs
  <2>3. StateFields(o)
    BY <1>1, StateIs
  <2> HIDE DEF r
  <2>4. StateFields(r)
    BY <1>9, <2>2, <2>3 DEF StateFields, Writes, Putting
  <2> QED BY <1>1, <2>2, <2>4, ChangedIsState DEF r
<1>3. Step(p, c)
  OBVIOUS
<1> HIDE DEF c, r
<1>4. Held(grants', r)
  <2>1. o.map \in MapFor(grants')
    BY <1>1, <1>6, EntriesStay DEF Held
  <2> HIDE DEF o
  <2> QED BY <1>1, <1>2, <1>8, <2>1 DEF Held, Putting
<1>10. /\ Len(grants') = Len(grants) + 1 /\ Len(grants') <= MaxGrant /\ grants'[Len(grants) + 1].live
       /\ \A i \in 1..Len(grants) : grants'[i].live = grants[i].live \/ (o.at = "refresh" /\ i = o.entry.grant)
  BY <1>1, <1>5, <1>6
<1>11. r.entry # NoEntry /\ r.entry.grant = Len(grants) + 1 /\ r.server = o.server /\ r.at = "load" /\ r \in State
  BY <1>2, <1>8
<1>12. Grown(grants, grants') /\ o.at \in {"device", "refresh"}
  BY <1>1, <1>6
<1>13. r = Changed(proc[p], c)
  BY DEF r
<1> QED BY <1>3, <1>4, <1>10, <1>11, <1>12, <1>13, GrantedKeeps

LEMMA DeviceSignInKeeps == ASSUME TokensInv, NEW p \in Process, DeviceSignIn(p) PROVE TokensInv'
<1>1. CASE /\ Len(grants) < MaxGrant
           /\ grants' = Append(grants, [server |-> proc[p].server, start |-> now, live |-> TRUE])
           /\ Step(p, [at |-> "load", then |-> "none", entry |-> Issued(now), fresh |-> now + TokenLife])
  BY <1>1, UserSignsIn DEF DeviceSignIn
<1>2. CASE Step(p, Idle) /\ UNCHANGED grants
  BY <1>2, EndKeeps DEF DeviceSignIn
<1> QED BY <1>1, <1>2 DEF DeviceSignIn

(* A renewal that fails leaves the process where it came from.               *)
LEMMA RenewalFails == ASSUME TokensInv, NEW p \in Process, proc[p].at = "refresh",
    Step(p, [at |-> proc[p].then]), UNCHANGED <<now, grants, file, tmp, saved, lost>> PROVE TokensInv'
<1> DEFINE c == [at |-> proc[p].then]
           o == proc[p]
           r == Changed(o, c)
<1>1. o \in State /\ o.at = "refresh" /\ Held(grants, o) /\ o.then \in {"device", "on"}
  BY ProcessIs DEF Held, Putting
<1>2. /\ r.server = o.server /\ r.at = o.then /\ r.then = o.then
      /\ r.fresh = o.fresh /\ r.entry = o.entry /\ r.map = o.map /\ r.fd = o.fd
      /\ r \in State
  <2>1. DOMAIN c = {"at"} /\ c.at = o.then
    OBVIOUS
  <2> HIDE DEF c, o
  <2>2. /\ r.server = o.server /\ r.at = o.then /\ r.then = o.then
        /\ r.fresh = o.fresh /\ r.entry = o.entry /\ r.map = o.map /\ r.fd = o.fd
    BY <1>1, <2>1, ChangedIs
  <2>3. StateFields(o)
    BY <1>1, StateIs
  <2> HIDE DEF r
  <2>4. StateFields(r)
    BY <1>1, <2>2, <2>3 DEF StateFields, Writes, Putting
  <2> QED BY <1>1, <2>2, <2>4, ChangedIsState DEF r
<1>3. Step(p, c) /\ UNCHANGED <<now, grants, file, tmp, saved, lost>>
  BY DEF Held
<1> HIDE DEF c, r
<1>4. Held(grants, r) /\ (~overlapped' /\ ~lost => Midway(r))
  BY <1>1, <1>2 DEF Held, Midway, State, Putting
<1> QED BY <1>1, <1>2, <1>3, <1>4, QuietKeeps DEF Putting, r

LEMMA RefreshKeeps == ASSUME TokensInv, NEW p \in Process, Refresh(p) PROVE TokensInv'
BY TokenIsExchanged, RenewalFails DEF Refresh

LEMMA PutLoadKeeps == ASSUME TokensInv, NEW p \in Process, PutLoad(p) PROVE TokensInv'
<1> DEFINE c == [at |-> "open", map |-> With(Load, proc[p].server, proc[p].entry)]
           o == proc[p]
           r == Changed(o, c)
<1>1. o \in State /\ o.at = "load" /\ Held(grants, o) /\ o.server \in Server /\ o.entry \in EntryFor(grants, o.server)
  BY ProcessIs DEF PutLoad, Held, Putting
<1>6. With(Load, o.server, o.entry) \in MapFor(grants) /\ With(Load, o.server, o.entry) \in Map
  <2>1. With(Load, o.server, o.entry) \in MapFor(grants)
    BY <1>1, LoadIsAMap, MapWith
  <2> QED BY <2>1 DEF MapFor
<1>2. /\ r.server = o.server /\ r.at = "open" /\ r.then = o.then
      /\ r.fresh = o.fresh /\ r.entry = o.entry /\ r.map = With(Load, o.server, o.entry) /\ r.fd = o.fd
      /\ r \in State
  <2>1. DOMAIN c = {"at", "map"} /\ c.at = "open" /\ c.map = With(Load, o.server, o.entry)
    OBVIOUS
  <2> HIDE DEF c, o
  <2>2. /\ r.server = o.server /\ r.at = "open" /\ r.then = o.then
        /\ r.fresh = o.fresh /\ r.entry = o.entry /\ r.map = With(Load, o.server, o.entry) /\ r.fd = o.fd
    BY <1>1, <2>1, ChangedIs
  <2>3. StateFields(o)
    BY <1>1, StateIs
  <2> HIDE DEF r
  <2>4. StateFields(r)
    BY <1>6, <2>2, <2>3 DEF StateFields, Writes, Putting
  <2> QED BY <1>1, <2>2, <2>4, ChangedIsState DEF r
<1>3. Step(p, c) /\ UNCHANGED <<now, grants, file, tmp, saved, lost>>
  BY DEF PutLoad
<1>8. ~overlapped' /\ ~lost => Load = saved
  <2> SUFFICES ASSUME ~overlapped', ~lost PROVE Load = saved
    OBVIOUS
  <2>1. /\ Others(p, r) /\ (\A q \in Process \ {p} : proc'[q] = proc[q]) /\ (overlapped => overlapped')
        /\ ~overlapped' => ~(Cardinality(Writing(proc')) > 1)
    BY <1>2, <1>3, StepIs DEF TokensInv
  <2>2. OneWrites'
    BY <2>1, OneWritesStep
  <2>3. ASSUME NEW q \in Process PROVE proc[q].at # "rewrite"
    BY <1>1, <1>2, <2>1, <2>2 DEF OneWrites, Others, Writes
  <2> QED BY <2>1, <2>3 DEF TokensInv, CacheKept, Typed
<1> HIDE DEF c, r
<1>4. Held(grants, r) /\ (~overlapped' /\ ~lost => Midway(r))
  BY <1>1, <1>2, <1>6, <1>8 DEF Held, Midway, State, Putting
<1> QED BY <1>1, <1>2, <1>3, <1>4, QuietKeeps DEF Putting, r

(* Put: the temporary file is truncated, written, and renamed over the       *)
(* other.                                                                    *)
LEMMA PutOpenKeeps == ASSUME TokensInv, NEW p \in Process, PutOpen(p) PROVE TokensInv'
<1> DEFINE c == [at |-> "write", fd |-> "tmp"]
           o == proc[p]
           new == Changed(o, c)
<1>1. o \in State /\ o.at = "open" /\ Held(grants, o)
  BY ProcessIs DEF PutOpen, Held, Putting
<1>0. /\ new.server = o.server /\ new.at = "write" /\ new.then = o.then
      /\ new.fresh = o.fresh /\ new.entry = o.entry /\ new.map = o.map /\ new.fd = "tmp"
      /\ new \in State
  <2>1. DOMAIN c = {"at", "fd"} /\ c.at = "write" /\ c.fd = "tmp"
    OBVIOUS
  <2> HIDE DEF c, o
  <2>2. /\ new.server = o.server /\ new.at = "write" /\ new.then = o.then
        /\ new.fresh = o.fresh /\ new.entry = o.entry /\ new.map = o.map /\ new.fd = "tmp"
    BY <1>1, <2>1, ChangedIs
  <2>3. StateFields(o)
    BY <1>1, StateIs
  <2> HIDE DEF new
  <2>4. StateFields(new)
    BY <1>1, <2>2, <2>3 DEF StateFields, Writes, Putting
  <2> QED BY <1>1, <2>2, <2>4, ChangedIsState DEF new
<1>2. PICK r \in State :
         /\ r.server = o.server /\ r.at = "write" /\ r.then = o.then
         /\ r.fresh = o.fresh /\ r.entry = o.entry /\ r.map = o.map /\ r.fd = "tmp"
         /\ r = new
  BY <1>0
<1> HIDE DEF new
<1>3. Step(p, c) /\ UNCHANGED <<now, grants, lost>>
  BY DEF PutOpen
<1>4. Typed /\ OneWrites /\ CacheKept /\ TokensKept /\ Others(p, r) /\ (overlapped => overlapped') /\ overlapped \in BOOLEAN /\ lost \in BOOLEAN
  BY <1>2, <1>3, StepIs DEF TokensInv, Typed, new
<1>5. ~overlapped' /\ ~lost => Midway(o) /\ \A q \in Process \ {p} : proc[q].at \notin Writes
  BY <1>1, <1>4, NoOtherWrites DEF CacheKept, Writes
<1>7. Held(grants, r) /\ r.at # "remove"
  <2> HIDE DEF c
  <2> QED BY <1>1, <1>2 DEF Held, Putting
<1>9. /\ file' \in {Torn, NoFile} \cup MapFor(grants) /\ tmp' \in {Torn, NoFile} \cup MapFor(grants)
      /\ saved' \in MapFor(grants)
  BY <1>4 DEF PutOpen, Typed
<1>8. r = Changed(proc[p], c)
  BY <1>2 DEF new
<1> HIDE DEF c
<1>10. TokensKept'
  <2>1. UNCHANGED saved
    BY DEF PutOpen
  <2> QED BY <1>1, <1>2, <1>3, <1>4, <2>1, TokensStay DEF Putting
<1>11. ~overlapped' /\ ~lost => Midway(r)' /\ (r.at # "rewrite" => Load' = saved')
  <2>1. UNCHANGED <<file, saved>>
    BY DEF PutOpen
  <2>2. ~overlapped' /\ ~lost => Load = saved
    BY <1>1, <1>4, <1>5 DEF CacheKept, Writes
  <2>3. Load' = Load
    BY <2>1 DEF Load
  <2>4. ~overlapped' /\ ~lost => Midway(r)'
    BY <1>1, <1>2, <1>5, <2>1 DEF Midway
  <2> QED BY <2>1, <2>2, <2>3, <2>4
<1> QED BY <1>1, <1>2, <1>3, <1>7, <1>8, <1>9, <1>10, <1>11, WriteKeeps DEF Writes

LEMMA PutWriteKeeps == ASSUME TokensInv, NEW p \in Process, PutWrite(p) PROVE TokensInv'
<1> DEFINE c == [at |-> "rename"]
           o == proc[p]
           new == Changed(o, c)
<1>1. o \in State /\ o.at = "write" /\ Held(grants, o)
  BY ProcessIs DEF PutWrite, Held, Putting
<1>0. /\ new.server = o.server /\ new.at = "rename" /\ new.then = o.then
      /\ new.fresh = o.fresh /\ new.entry = o.entry /\ new.map = o.map /\ new.fd = o.fd
      /\ new \in State
  <2>1. DOMAIN c = {"at"} /\ c.at = "rename"
    OBVIOUS
  <2> HIDE DEF c, o
  <2>2. /\ new.server = o.server /\ new.at = "rename" /\ new.then = o.then
        /\ new.fresh = o.fresh /\ new.entry = o.entry /\ new.map = o.map /\ new.fd = o.fd
    BY <1>1, <2>1, ChangedIs
  <2>3. StateFields(o)
    BY <1>1, StateIs
  <2> HIDE DEF new
  <2>4. StateFields(new)
    BY <1>1, <2>2, <2>3 DEF StateFields, Writes, Putting
  <2> QED BY <1>1, <2>2, <2>4, ChangedIsState DEF new
<1>2. PICK r \in State :
         /\ r.server = o.server /\ r.at = "rename" /\ r.then = o.then
         /\ r.fresh = o.fresh /\ r.entry = o.entry /\ r.map = o.map /\ r.fd = o.fd
         /\ r = new
  BY <1>0
<1> HIDE DEF new
<1>3. Step(p, c) /\ UNCHANGED <<now, grants, lost>>
  BY DEF PutWrite
<1>4. Typed /\ OneWrites /\ CacheKept /\ TokensKept /\ Others(p, r) /\ (overlapped => overlapped') /\ overlapped \in BOOLEAN /\ lost \in BOOLEAN
  BY <1>2, <1>3, StepIs DEF TokensInv, Typed, new
<1>5. ~overlapped' /\ ~lost => Midway(o) /\ \A q \in Process \ {p} : proc[q].at \notin Writes
  BY <1>1, <1>4, NoOtherWrites DEF CacheKept, Writes
<1>7. Held(grants, r) /\ r.at # "remove"
  <2> HIDE DEF c
  <2> QED BY <1>1, <1>2 DEF Held, Putting
<1>9. /\ file' \in {Torn, NoFile} \cup MapFor(grants) /\ tmp' \in {Torn, NoFile} \cup MapFor(grants)
      /\ saved' \in MapFor(grants)
  <2>1. PICK bytes \in {proc[p].map} \cup (IF overlapped THEN {Torn} ELSE {}) :
           /\ tmp' = IF proc[p].fd = "tmp" THEN bytes ELSE tmp
           /\ file' = IF proc[p].fd = "file" THEN bytes ELSE file
    BY DEF PutWrite, WriteTo
  <2>2. bytes \in {Torn, NoFile} \cup MapFor(grants)
    BY <1>1, <2>1 DEF Held
  <2> QED BY <1>4, <2>1, <2>2 DEF PutWrite, Typed
<1>8. r = Changed(proc[p], c)
  BY <1>2 DEF new
<1> HIDE DEF c
<1>10. TokensKept'
  <2>1. UNCHANGED saved
    BY DEF PutWrite
  <2> QED BY <1>1, <1>2, <1>3, <1>4, <2>1, TokensStay DEF Putting
<1>12. ~overlapped => /\ o.fd = "tmp" => tmp' = o.map /\ file' = file
                      /\ o.fd = "file" => file' = o.map /\ tmp' = tmp
  BY DEF PutWrite, WriteTo
<1>11. ~overlapped' /\ ~lost => Midway(r)' /\ (r.at # "rewrite" => Load' = saved')
  <2> SUFFICES ASSUME ~overlapped', ~lost PROVE Midway(r)' /\ Load' = saved'
    OBVIOUS
  <2>1. UNCHANGED saved /\ ~overlapped
    BY <1>4 DEF PutWrite
  <2>2. o.fd = "tmp" /\ o.map = With(saved, o.server, o.entry)
    BY <1>1, <1>5 DEF Midway
  <2>3. tmp' = o.map /\ file' = file
    BY <1>12, <2>1, <2>2
  <2>4. Load = saved
    BY <1>1, <1>4, <1>5, <2>1 DEF CacheKept, Writes
  <2>5. Load' = Load
    BY <2>3 DEF Load
  <2>6. Midway(r)'
    BY <1>2, <2>1, <2>2, <2>3 DEF Midway
  <2> QED BY <2>1, <2>4, <2>5, <2>6
<1> QED BY <1>1, <1>2, <1>3, <1>7, <1>8, <1>9, <1>10, <1>11, WriteKeeps DEF Writes

(* Forget: the file is truncated and written in place.                       *)
LEMMA TruncateKeeps == ASSUME TokensInv, NEW p \in Process, Truncate(p) PROVE TokensInv'
<1> DEFINE c == [at |-> "rewrite", fd |-> "file"]
           o == proc[p]
           new == Changed(o, c)
<1>1. o \in State /\ o.at = "truncate" /\ Held(grants, o)
  BY ProcessIs DEF Truncate, Held, Putting
<1>0. /\ new.server = o.server /\ new.at = "rewrite" /\ new.then = o.then
      /\ new.fresh = o.fresh /\ new.entry = o.entry /\ new.map = o.map /\ new.fd = "file"
      /\ new \in State
  <2>1. DOMAIN c = {"at", "fd"} /\ c.at = "rewrite" /\ c.fd = "file"
    OBVIOUS
  <2> HIDE DEF c, o
  <2>2. /\ new.server = o.server /\ new.at = "rewrite" /\ new.then = o.then
        /\ new.fresh = o.fresh /\ new.entry = o.entry /\ new.map = o.map /\ new.fd = "file"
    BY <1>1, <2>1, ChangedIs
  <2>3. StateFields(o)
    BY <1>1, StateIs
  <2> HIDE DEF new
  <2>4. StateFields(new)
    BY <1>1, <2>2, <2>3 DEF StateFields, Writes, Putting
  <2> QED BY <1>1, <2>2, <2>4, ChangedIsState DEF new
<1>2. PICK r \in State :
         /\ r.server = o.server /\ r.at = "rewrite" /\ r.then = o.then
         /\ r.fresh = o.fresh /\ r.entry = o.entry /\ r.map = o.map /\ r.fd = "file"
         /\ r = new
  BY <1>0
<1> HIDE DEF new
<1>3. Step(p, c) /\ UNCHANGED <<now, grants, lost>>
  BY DEF Truncate
<1>4. Typed /\ OneWrites /\ CacheKept /\ TokensKept /\ Others(p, r) /\ (overlapped => overlapped') /\ overlapped \in BOOLEAN /\ lost \in BOOLEAN
  BY <1>2, <1>3, StepIs DEF TokensInv, Typed, new
<1>5. ~overlapped' /\ ~lost => Midway(o) /\ \A q \in Process \ {p} : proc[q].at \notin Writes
  BY <1>1, <1>4, NoOtherWrites DEF CacheKept, Writes
<1>7. Held(grants, r) /\ r.at # "remove"
  <2> HIDE DEF c
  <2> QED BY <1>1, <1>2 DEF Held, Putting
<1>9. /\ file' \in {Torn, NoFile} \cup MapFor(grants) /\ tmp' \in {Torn, NoFile} \cup MapFor(grants)
      /\ saved' \in MapFor(grants)
  BY <1>4 DEF Truncate, Typed
<1>8. r = Changed(proc[p], c)
  BY <1>2 DEF new
<1> HIDE DEF c
<1>10. TokensKept'
  <2>1. UNCHANGED saved
    BY DEF Truncate
  <2> QED BY <1>1, <1>2, <1>3, <1>4, <2>1, TokensStay DEF Putting
<1>11. ~overlapped' /\ ~lost => Midway(r)' /\ (r.at # "rewrite" => Load' = saved')
  <2>1. UNCHANGED saved /\ file' = Torn
    BY DEF Truncate
  <2> QED BY <1>1, <1>2, <1>5, <2>1 DEF Midway
<1> QED BY <1>1, <1>2, <1>3, <1>7, <1>8, <1>9, <1>10, <1>11, WriteKeeps DEF Writes

LEMMA RewriteKeeps == ASSUME TokensInv, NEW p \in Process, Rewrite(p) PROVE TokensInv'
<1> DEFINE c == [at |-> proc[p].then, map |-> Nothing, fd |-> "none"]
           o == proc[p]
           new == Changed(o, c)
<1>1. o \in State /\ o.at = "rewrite" /\ Held(grants, o) /\ o.server \in Server /\ o.then \in {"device", "revoke"} /\ (o.then = "revoke" => o.entry # NoEntry)
  BY ProcessIs DEF Rewrite, Held, Putting
<1>6. Nothing \in MapFor(grants) /\ Nothing \in Map
  BY NothingIsAMap DEF MapFor
<1>0. /\ new.server = o.server /\ new.at = o.then /\ new.then = o.then
      /\ new.fresh = o.fresh /\ new.entry = o.entry /\ new.map = Nothing /\ new.fd = "none"
      /\ new \in State
  <2>1. DOMAIN c = {"at", "map", "fd"} /\ c.at = o.then /\ c.map = Nothing /\ c.fd = "none"
    OBVIOUS
  <2> HIDE DEF c, o
  <2>2. /\ new.server = o.server /\ new.at = o.then /\ new.then = o.then
        /\ new.fresh = o.fresh /\ new.entry = o.entry /\ new.map = Nothing /\ new.fd = "none"
    BY <1>1, <2>1, ChangedIs
  <2>3. StateFields(o)
    BY <1>1, StateIs
  <2> HIDE DEF new
  <2>4. StateFields(new)
    BY <1>1, <1>6, <2>2, <2>3 DEF StateFields, Writes, Putting
  <2> QED BY <1>1, <2>2, <2>4, ChangedIsState DEF new
<1>2. PICK r \in State :
         /\ r.server = o.server /\ r.at = o.then /\ r.then = o.then
         /\ r.fresh = o.fresh /\ r.entry = o.entry /\ r.map = Nothing /\ r.fd = "none"
         /\ r = new
  BY <1>0
<1> HIDE DEF new
<1>3. Step(p, c) /\ UNCHANGED <<now, grants, lost>>
  BY DEF Rewrite
<1>4. Typed /\ OneWrites /\ CacheKept /\ TokensKept /\ Others(p, r) /\ (overlapped => overlapped') /\ overlapped \in BOOLEAN /\ lost \in BOOLEAN
  BY <1>2, <1>3, StepIs DEF TokensInv, Typed, new
<1>5. ~overlapped' /\ ~lost => Midway(o) /\ \A q \in Process \ {p} : proc[q].at \notin Writes
  BY <1>1, <1>4, NoOtherWrites DEF CacheKept, Writes
<1>7. Held(grants, r) /\ r.at # "remove"
  <2> HIDE DEF c
  <2> QED BY <1>1, <1>2, <1>6 DEF Held, Putting
<1>9. /\ file' \in {Torn, NoFile} \cup MapFor(grants) /\ tmp' \in {Torn, NoFile} \cup MapFor(grants)
      /\ saved' \in MapFor(grants)
  <2>1. PICK bytes \in {proc[p].map} \cup (IF overlapped THEN {Torn} ELSE {}) :
           /\ tmp' = IF proc[p].fd = "tmp" THEN bytes ELSE tmp
           /\ file' = IF proc[p].fd = "file" THEN bytes ELSE file
    BY DEF Rewrite, WriteTo
  <2>2. bytes \in {Torn, NoFile} \cup MapFor(grants)
    BY <1>1, <2>1 DEF Held
  <2>3. saved' \in {saved, Without(saved, o.server)}
    BY DEF Rewrite
  <2>4. saved \in MapFor(grants) /\ Without(saved, o.server) \in MapFor(grants)
    BY <1>4, MapWithout DEF Typed
  <2> QED BY <1>4, <2>1, <2>2, <2>3, <2>4 DEF Typed
<1>8. r = Changed(proc[p], c)
  BY <1>2 DEF new
<1> HIDE DEF c
<1>12. ~overlapped => /\ o.fd = "tmp" => tmp' = o.map /\ file' = file
                      /\ o.fd = "file" => file' = o.map /\ tmp' = tmp
  BY DEF Rewrite, WriteTo
<1>13. ~overlapped' /\ ~lost => /\ saved' = Without(saved, o.server) /\ file' = saved' /\ file' \in MapFor(grants)
                                /\ DOMAIN saved' = DOMAIN saved \ {o.server}
                                /\ \A s \in DOMAIN saved' : saved'[s] = saved[s]
  <2> SUFFICES ASSUME ~overlapped', ~lost
               PROVE  /\ saved' = Without(saved, o.server) /\ file' = saved' /\ file' \in MapFor(grants)
                      /\ DOMAIN saved' = DOMAIN saved \ {o.server}
                      /\ \A s \in DOMAIN saved' : saved'[s] = saved[s]
    OBVIOUS
  <2>1. o.map = Without(saved, o.server) /\ o.fd = "file" /\ ~overlapped
    BY <1>1, <1>4, <1>5 DEF Midway
  <2>2. Without(saved, o.server) \in MapFor(grants) /\ DOMAIN Without(saved, o.server) = DOMAIN saved \ {o.server}
        /\ \A s \in DOMAIN saved \ {o.server} : Without(saved, o.server)[s] = saved[s]
    BY <1>4, MapWithout DEF Typed
  <2>3. saved' = Without(saved, o.server)
    BY <2>1, <2>2 DEF Rewrite
  <2> QED BY <1>12, <2>1, <2>2, <2>3
<1>10. TokensKept'
  <2>1. r.at \in {"device", "revoke"} /\ o.at \notin Putting /\ (r.at = "revoke" => r.entry # NoEntry)
    BY <1>1, <1>2 DEF Putting
  <2> QED BY <1>2, <1>3, <1>4, <1>13, <2>1, ForgottenTokens
<1>11. ~overlapped' /\ ~lost => Midway(r)' /\ (r.at # "rewrite" => Load' = saved')
  <2>1. Midway(r)'
    BY <1>1, <1>2 DEF Midway
  <2>2. ~overlapped' /\ ~lost => Load' = saved'
    BY <1>13, Constants DEF Load, MapFor
  <2> QED BY <2>1, <2>2
<1> QED BY <1>1, <1>2, <1>3, <1>7, <1>8, <1>9, <1>10, <1>11, WriteKeeps DEF Writes

(* Forget, when there is an entry to take out and when there is none.        *)
LEMMA ForgetsAnEntry == ASSUME TokensInv, NEW p \in Process, proc[p].at = "forget",
    Step(p, [at |-> "truncate", map |-> Without(Load, proc[p].server)]), UNCHANGED <<now, grants, file, tmp, saved, lost>> PROVE TokensInv'
<1> DEFINE c == [at |-> "truncate", map |-> Without(Load, proc[p].server)]
           o == proc[p]
           r == Changed(o, c)
<1>1. o \in State /\ o.at = "forget" /\ Held(grants, o)
  BY ProcessIs DEF Held
<1>6. Without(Load, o.server) \in MapFor(grants) /\ Without(Load, o.server) \in Map
  <2>1. Without(Load, o.server) \in MapFor(grants)
    BY LoadIsAMap, MapWithout
  <2> QED BY <2>1 DEF MapFor
<1>2. /\ r.server = o.server /\ r.at = "truncate" /\ r.then = o.then
      /\ r.fresh = o.fresh /\ r.entry = o.entry /\ r.map = Without(Load, o.server) /\ r.fd = o.fd
      /\ r \in State
  <2>1. DOMAIN c = {"at", "map"} /\ c.at = "truncate" /\ c.map = Without(Load, o.server)
    OBVIOUS
  <2> HIDE DEF c, o
  <2>2. /\ r.server = o.server /\ r.at = "truncate" /\ r.then = o.then
        /\ r.fresh = o.fresh /\ r.entry = o.entry /\ r.map = Without(Load, o.server) /\ r.fd = o.fd
    BY <1>1, <2>1, ChangedIs
  <2>3. StateFields(o)
    BY <1>1, StateIs
  <2> HIDE DEF r
  <2>4. StateFields(r)
    BY <1>6, <2>2, <2>3 DEF StateFields, Writes, Putting
  <2> QED BY <1>1, <2>2, <2>4, ChangedIsState DEF r
<1>3. Step(p, c) /\ UNCHANGED <<now, grants, file, tmp, saved, lost>>
  BY DEF Held
<1>7. overlapped => overlapped'
  BY <1>3 DEF Step
<1>8. ~overlapped' /\ ~lost => Load = saved
  BY <1>1, <1>7, NoOtherWrites DEF TokensInv, CacheKept, Writes, Typed
<1> HIDE DEF c, r
<1>4. Held(grants, r) /\ (~overlapped' /\ ~lost => Midway(r))
  BY <1>1, <1>2, <1>6, <1>8 DEF Held, Midway, State, Putting
<1> QED BY <1>1, <1>2, <1>3, <1>4, QuietKeeps DEF Putting, r

LEMMA ForgetsNothing == ASSUME TokensInv, NEW p \in Process, proc[p].at = "forget", proc[p].server \notin DOMAIN Load,
    Step(p, [at |-> proc[p].then]), UNCHANGED <<now, grants, file, tmp, saved, lost>> PROVE TokensInv'
<1> DEFINE c == [at |-> proc[p].then]
           o == proc[p]
           new == Changed(o, c)
<1>1. o \in State /\ o.at = "forget" /\ Held(grants, o) /\ o.server \in Server /\ o.then \in {"device", "revoke"} /\ (o.then = "revoke" => o.entry # NoEntry)
  BY ProcessIs DEF Held, Putting
<1>0. /\ new.server = o.server /\ new.at = o.then /\ new.then = o.then
      /\ new.fresh = o.fresh /\ new.entry = o.entry /\ new.map = o.map /\ new.fd = o.fd
      /\ new \in State
  <2>1. DOMAIN c = {"at"} /\ c.at = o.then
    OBVIOUS
  <2> HIDE DEF c, o
  <2>2. /\ new.server = o.server /\ new.at = o.then /\ new.then = o.then
        /\ new.fresh = o.fresh /\ new.entry = o.entry /\ new.map = o.map /\ new.fd = o.fd
    BY <1>1, <2>1, ChangedIs
  <2>3. StateFields(o)
    BY <1>1, StateIs
  <2> HIDE DEF new
  <2>4. StateFields(new)
    BY <1>1, <2>2, <2>3 DEF StateFields, Writes, Putting
  <2> QED BY <1>1, <2>2, <2>4, ChangedIsState DEF new
<1>2. PICK r \in State :
         /\ r.server = o.server /\ r.at = o.then /\ r.then = o.then
         /\ r.fresh = o.fresh /\ r.entry = o.entry /\ r.map = o.map /\ r.fd = o.fd
         /\ r = new
  BY <1>0
<1> HIDE DEF new
<1>3. Step(p, c)
  OBVIOUS
<1>4. Typed /\ OneWrites /\ CacheKept /\ TokensKept /\ Others(p, r) /\ (overlapped => overlapped') /\ overlapped \in BOOLEAN /\ lost \in BOOLEAN
  BY <1>2, <1>3, StepIs DEF TokensInv, Typed, new
<1>5. ~overlapped' /\ ~lost => Load = saved
  BY <1>1, <1>4, NoOtherWrites DEF CacheKept, Writes
<1>7. Held(grants, r) /\ r.at # "remove" /\ r.at \in {"device", "revoke"} /\ (r.at = "revoke" => r.entry # NoEntry) /\ o.at \notin Putting
  <2> HIDE DEF c
  <2> QED BY <1>1, <1>2 DEF Held, Putting
<1>8. r = Changed(proc[p], c)
  BY <1>2 DEF new
<1> HIDE DEF c
<1>9. TokensKept'
  <2>1. ~overlapped' /\ ~lost' => DOMAIN saved \subseteq DOMAIN saved \ {r.server}
    BY <1>2, <1>5
  <2> QED BY <1>2, <1>4, <1>7, <2>1, ForgottenTokens
<1>10. file \in {Torn, NoFile} \cup MapFor(grants) /\ tmp \in {Torn, NoFile} \cup MapFor(grants) /\ saved \in MapFor(grants)
  BY <1>4 DEF Typed
<1>11. ~overlapped' /\ ~lost => Midway(r)' /\ (r.at # "rewrite" => Load' = saved')
  BY <1>5, <1>7 DEF Midway, Load
<1> QED BY <1>1, <1>2, <1>3, <1>7, <1>8, <1>9, <1>10, <1>11, WriteKeeps DEF Writes

LEMMA ForgetKeeps == ASSUME TokensInv, NEW p \in Process, Forget(p) PROVE TokensInv'
<1>1. CASE proc[p].server \in DOMAIN Load
  BY <1>1, ForgetsAnEntry DEF Forget
<1>2. CASE proc[p].server \notin DOMAIN Load
  BY <1>2, ForgetsNothing DEF Forget
<1> QED BY <1>1, <1>2

(* The refresh token that is revoked is of an entry that has been forgotten. *)
LEMMA RevokeKeeps == ASSUME TokensInv, NEW p \in Process, Revoke(p) PROVE TokensInv'
<1> DEFINE o == proc[p]
           new == Changed(o, Idle)
<1>1. o \in State /\ o.at = "revoke" /\ Held(grants, o) /\ o.entry # NoEntry /\ o.entry \in EntryFor(grants, o.server)
  BY ProcessIs DEF Revoke, Held, Putting
<1>6. Nothing \in MapFor(grants) /\ Nothing \in Map
  BY NothingIsAMap DEF MapFor
<1>0. /\ new.server = NoServer /\ new.at = "off" /\ new.then = "none"
      /\ new.fresh = 0 /\ new.entry = NoEntry /\ new.map = Nothing /\ new.fd = "none"
      /\ new \in State
  <2>1. DOMAIN Idle = {"server", "at", "then", "fresh", "entry", "map", "fd"} /\ Idle.server = NoServer /\ Idle.at = "off" /\ Idle.then = "none" /\ Idle.fresh = 0 /\ Idle.entry = NoEntry /\ Idle.map = Nothing /\ Idle.fd = "none"
    BY DEF Idle
  <2> HIDE DEF o
  <2>2. /\ new.server = NoServer /\ new.at = "off" /\ new.then = "none"
        /\ new.fresh = 0 /\ new.entry = NoEntry /\ new.map = Nothing /\ new.fd = "none"
    BY <1>1, <2>1, ChangedIs
  <2>3. StateFields(o)
    BY <1>1, StateIs
  <2> HIDE DEF new
  <2>4. StateFields(new)
    BY <1>1, <1>6, <2>2, <2>3 DEF StateFields, Writes, Putting
  <2> QED BY <1>1, <2>2, <2>4, ChangedIsState DEF new
<1>2. PICK r \in State :
         /\ r.server = NoServer /\ r.at = "off" /\ r.then = "none"
         /\ r.fresh = 0 /\ r.entry = NoEntry /\ r.map = Nothing /\ r.fd = "none"
         /\ r = new
  BY <1>0
<1> HIDE DEF new
<1>3. Step(p, Idle) /\ UNCHANGED <<now, file, tmp, saved, lost>>
  BY DEF Revoke
<1>4. /\ Typed /\ OneWrites /\ CacheKept /\ TokensKept /\ Others(p, r) /\ (overlapped => overlapped') /\ overlapped' \in BOOLEAN
      /\ (\A q \in Process \ {p} : proc'[q] = proc[q]) /\ (~overlapped' => ~(Cardinality(Writing(proc')) > 1))
  BY <1>2, <1>3, StepIs DEF TokensInv, new
<1>5. /\ Grown(grants, grants') /\ Len(grants') = Len(grants)
      /\ \A i \in 1..Len(grants) : i # o.entry.grant => grants'[i] = grants[i]
  <2> DEFINE g == o.entry.grant
  <2>1. g \in 1..Len(grants) /\ grants \in Seq(Grant) /\ grants[g] \in Grant
    BY <1>1, <1>4 DEF EntryFor, Typed
  <2>2. grants' = grants \/ grants' = [grants EXCEPT ![g] = [grants[g] EXCEPT !.live = FALSE]]
    BY DEF Revoke
  <2>3. [grants[g] EXCEPT !.live = FALSE] \in Grant
    BY <2>1 DEF Grant
  <2> HIDE DEF g
  <2>4. CASE grants' = grants
    BY <2>1, <2>4 DEF Grown
  <2>5. CASE grants' = [grants EXCEPT ![g] = [grants[g] EXCEPT !.live = FALSE]]
    <3> DEFINE spent == [grants[g] EXCEPT !.live = FALSE]
    <3>1. spent \in Grant /\ spent.start = grants[g].start /\ spent.server = grants[g].server
      BY <2>1, <2>3 DEF Grant
    <3>2. grants' = [grants EXCEPT ![g] = spent]
      BY <2>5
    <3> HIDE DEF spent
    <3>3. DOMAIN grants = 1..Len(grants) /\ Len(grants) \in Nat /\ \A i \in 1..Len(grants) : grants[i] \in Grant
      BY <2>1
    <3>4. \A i \in 1..Len(grants) : grants'[i] = IF i = g THEN spent ELSE grants[i]
      BY <3>2, <3>3
    <3>5. grants' \in Seq(Grant) /\ Len(grants') = Len(grants)
      BY <2>1, <3>1, <3>2
    <3>6. \A i \in 1..Len(grants) : i # g => grants'[i] = grants[i]
      BY <3>4
    <3>7. \A i \in 1..Len(grants) : grants'[i].start = grants[i].start /\ grants'[i].server = grants[i].server
      BY <3>1, <3>4
    <3>8. Grown(grants, grants')
      BY <2>1, <3>3, <3>5, <3>7 DEF Grown
    <3> QED BY <3>5, <3>6, <3>8 DEF g
  <2> QED BY <2>2, <2>4, <2>5 DEF g
<1>7. Held(grants', r) /\ r.at # "remove"
  <2>1. Nothing \in MapFor(grants')
    BY NothingIsAMap
  <2> QED BY <1>2, <2>1 DEF Held, Putting
<1>8. Typed'
  <2>1. file' \in {Torn, NoFile} \cup MapFor(grants') /\ tmp' \in {Torn, NoFile} \cup MapFor(grants') /\ saved' \in MapFor(grants')
    BY <1>3, <1>4, <1>5, EntriesStay DEF Typed
  <2> QED BY <1>3, <1>4, <1>5, <1>7, <2>1, TypedStays DEF Typed
<1>9. OneWrites'
  BY <1>4, OneWritesStep
<1>10. CacheKept'
  <2>1. Midway(r)'
    BY <1>2 DEF Midway
  <2> QED BY <1>1, <1>2, <1>3, <1>4, <2>1, CacheStays DEF Typed
<1>11. TokensKept'
  <2> SUFFICES ASSUME ~overlapped', ~lost' PROVE TokensKept'
    BY DEF TokensKept
  <2>1. (\A q \in Process : Own(q)) /\ (\A s \in DOMAIN saved : Live(s))
    BY <1>3, <1>4 DEF TokensKept, Typed
  <2>2. \A q \in Process : proc[q].at \in Putting => proc[q].entry # NoEntry /\ proc[q].entry.grant \in 1..Len(grants)
    BY <1>4 DEF Typed, Held, EntryFor
  <2>3. \A s \in DOMAIN saved : saved[s].grant \in 1..Len(grants) /\ saved[s].grant # o.entry.grant
    BY <1>1, <1>4, <2>1 DEF Typed, MapFor, EntryFor, Own
  <2>4. proc'[p] = r /\ r.at \notin Putting \cup {"revoke"} /\ r.entry = NoEntry
    BY <1>2, <1>4 DEF Others, Putting
  <2>5. ASSUME NEW q \in Process \ {p} PROVE Own(q)'
    BY <1>1, <1>3, <1>4, <1>5, <2>1, <2>2, <2>4, <2>5 DEF Own
  <2>6. Own(p)'
    BY <2>4 DEF Own
  <2>7. ASSUME NEW s \in DOMAIN saved' PROVE Live(s)'
    BY <1>1, <1>3, <1>4, <1>5, <2>1, <2>3, <2>4 DEF Live, Putting
  <2> QED BY <2>5, <2>6, <2>7 DEF TokensKept
<1> QED BY <1>8, <1>9, <1>10, <1>11 DEF TokensInv

(* A rename or a removal moves what others have open, and nothing else. *)
LEMMA MovedIs ==
    ASSUME Typed, NEW p \in Process, NEW r \in State, NEW to \in {"file", "none"},
           proc' = [Moved("tmp", to) EXCEPT ![p] = r]
    PROVE  Others(p, r)
<1>1. ASSUME NEW q \in Process
      PROVE  /\ Moved("tmp", to)[q] \in State
             /\ Moved("tmp", to)[q].server = proc[q].server /\ Moved("tmp", to)[q].at = proc[q].at
             /\ Moved("tmp", to)[q].then = proc[q].then /\ Moved("tmp", to)[q].entry = proc[q].entry
             /\ Moved("tmp", to)[q].map = proc[q].map
  <2> DEFINE d == IF proc[q].fd = to THEN "none" ELSE IF proc[q].fd = "tmp" THEN to ELSE proc[q].fd
  <2>1. Moved("tmp", to)[q] = [proc[q] EXCEPT !.fd = d]
    BY DEF Moved
  <2>2. proc[q] \in State
    BY DEF Typed
  <2>3. d \in {"none", "tmp", "file"}
    BY <2>2, StateIs DEF StateFields
  <2> HIDE DEF d
  <2> QED BY <2>1, <2>2, <2>3 DEF State
<1>2. DOMAIN Moved("tmp", to) = Process
  BY DEF Moved
<1>3. proc' \in [Process -> State]
  BY <1>1, <1>2 DEF Moved
<1> QED BY <1>1, <1>2, <1>3 DEF Others

(* A rename that finds no temporary file loses what was put; one that finds  *)
(* it saves it.                                                              *)
LEMMA PutRenameLoses == ASSUME TokensInv, NEW p \in Process, PutRename(p), tmp = NoFile PROVE TokensInv'
<1> DEFINE c == [at |-> "remove", map |-> Nothing, fd |-> "none"]
           o == proc[p]
           new == Changed(o, c)
<1>1. o \in State /\ o.at = "rename" /\ Held(grants, o) /\ o.server \in Server /\ o.entry \in EntryFor(grants, o.server)
  BY ProcessIs DEF PutRename, Held, Putting
<1>6. Nothing \in MapFor(grants) /\ Nothing \in Map
  BY NothingIsAMap DEF MapFor
<1>0. /\ new.server = o.server /\ new.at = "remove" /\ new.then = o.then
      /\ new.fresh = o.fresh /\ new.entry = o.entry /\ new.map = Nothing /\ new.fd = "none"
      /\ new \in State
  <2>1. DOMAIN c = {"at", "map", "fd"} /\ c.at = "remove" /\ c.map = Nothing /\ c.fd = "none"
    OBVIOUS
  <2> HIDE DEF c, o
  <2>2. /\ new.server = o.server /\ new.at = "remove" /\ new.then = o.then
        /\ new.fresh = o.fresh /\ new.entry = o.entry /\ new.map = Nothing /\ new.fd = "none"
    BY <1>1, <2>1, ChangedIs
  <2>3. StateFields(o)
    BY <1>1, StateIs
  <2> HIDE DEF new
  <2>4. StateFields(new)
    BY <1>1, <1>6, <2>2, <2>3 DEF StateFields, Writes, Putting
  <2> QED BY <1>1, <2>2, <2>4, ChangedIsState DEF new
<1>2. PICK r \in State :
         /\ r.server = o.server /\ r.at = "remove" /\ r.then = o.then
         /\ r.fresh = o.fresh /\ r.entry = o.entry /\ r.map = Nothing /\ r.fd = "none"
         /\ r = new
  BY <1>0
<1> HIDE DEF new
<1>3. Step(p, c) /\ UNCHANGED <<now, grants, file, tmp>> /\ lost' = TRUE /\ saved' = With(saved, o.server, o.entry)
  BY DEF PutRename
<1>4. Typed /\ Others(p, r) /\ (overlapped => overlapped') /\ overlapped' \in BOOLEAN /\ (~overlapped' => ~(Cardinality(Writing(proc')) > 1))
  BY <1>2, <1>3, StepIs DEF TokensInv, new
<1> HIDE DEF c
<1>5. Typed'
  <2>1. Held(grants, r)
    BY <1>1, <1>2, <1>6 DEF Held, Putting
  <2>2. saved' \in MapFor(grants)
    BY <1>1, <1>3, <1>4, MapWith DEF Typed
  <2>3. Grown(grants, grants')
    BY <1>3, <1>4 DEF Typed, Grown
  <2> QED BY <1>3, <1>4, <2>1, <2>2, <2>3, TypedStays DEF Typed
<1>7. OneWrites'
  BY <1>4, OneWritesStep
<1> QED BY <1>3, <1>5, <1>7 DEF TokensInv, CacheKept, TokensKept

LEMMA PutRenameMoves == ASSUME TokensInv, NEW p \in Process, PutRename(p), tmp # NoFile PROVE TokensInv'
<1> DEFINE c == [at |-> "on", map |-> Nothing, fd |-> "none"]
           o == proc[p]
           new == Changed(o, c)
<1>1. o \in State /\ o.at = "rename" /\ Held(grants, o) /\ o.server \in Server /\ o.entry \in EntryFor(grants, o.server) /\ o.entry # NoEntry
  BY ProcessIs DEF PutRename, Held, Putting
<1>6. Nothing \in MapFor(grants) /\ Nothing \in Map
  BY NothingIsAMap DEF MapFor
<1>0. /\ new.server = o.server /\ new.at = "on" /\ new.then = o.then
      /\ new.fresh = o.fresh /\ new.entry = o.entry /\ new.map = Nothing /\ new.fd = "none"
      /\ new \in State
  <2>1. DOMAIN c = {"at", "map", "fd"} /\ c.at = "on" /\ c.map = Nothing /\ c.fd = "none"
    OBVIOUS
  <2> HIDE DEF c, o
  <2>2. /\ new.server = o.server /\ new.at = "on" /\ new.then = o.then
        /\ new.fresh = o.fresh /\ new.entry = o.entry /\ new.map = Nothing /\ new.fd = "none"
    BY <1>1, <2>1, ChangedIs
  <2>3. StateFields(o)
    BY <1>1, StateIs
  <2> HIDE DEF new
  <2>4. StateFields(new)
    BY <1>1, <1>6, <2>2, <2>3 DEF StateFields, Writes, Putting
  <2> QED BY <1>1, <2>2, <2>4, ChangedIsState DEF new
<1>2. PICK r \in State :
         /\ r.server = o.server /\ r.at = "on" /\ r.then = o.then
         /\ r.fresh = o.fresh /\ r.entry = o.entry /\ r.map = Nothing /\ r.fd = "none"
         /\ r = new
  BY <1>0
<1> HIDE DEF new
<1>3. /\ proc' = [Moved("tmp", "file") EXCEPT ![p] = r]
      /\ file' = tmp /\ tmp' = NoFile /\ UNCHANGED <<now, grants, overlapped, lost>>
      /\ saved' = With(saved, o.server, o.entry)
  BY <1>2 DEF PutRename, new
<1> HIDE DEF c
<1>4. Typed /\ OneWrites /\ CacheKept /\ TokensKept /\ Others(p, r) /\ overlapped \in BOOLEAN /\ lost \in BOOLEAN
  BY <1>2, <1>3, MovedIs DEF TokensInv, Typed
<1>5. saved' \in MapFor(grants)
  BY <1>1, <1>3, <1>4, MapWith DEF Typed
<1>7. Typed'
  <2>1. Held(grants, r) /\ r.at # "remove"
    BY <1>1, <1>2, <1>6 DEF Held, Putting
  <2>2. Grown(grants, grants')
    BY <1>3, <1>4 DEF Typed, Grown
  <2> QED BY <1>3, <1>4, <1>5, <2>1, <2>2, TypedStays DEF Typed
<1>8. OneWrites'
  BY <1>2, <1>3, <1>4, OneWritesFewer DEF Writes
<1>9. CacheKept'
  <2>1. ~overlapped' /\ ~lost' => Midway(r)' /\ (r.at # "rewrite" => Load' = saved')
    <3> SUFFICES ASSUME ~overlapped, ~lost PROVE Midway(r)' /\ Load' = saved'
      BY <1>3
    <3>1. tmp = o.map /\ o.map = With(saved, o.server, o.entry)
      BY <1>1, <1>4 DEF CacheKept, Midway
    <3>2. file' = saved'
      BY <1>3, <3>1
    <3>3. Load' = saved'
      BY <1>5, <3>2, Constants DEF Load, MapFor
    <3>4. Midway(r)'
      BY <1>2 DEF Midway
    <3> QED BY <3>3, <3>4
  <2> QED BY <1>1, <1>3, <1>4, <2>1, WriterCache DEF Writes
<1>10. TokensKept'
  <2> SUFFICES ASSUME ~overlapped, ~lost PROVE TokensKept'
    BY <1>3 DEF TokensKept
  <2>1. (\A q \in Process : Own(q)) /\ (\A s \in DOMAIN saved : Live(s))
    BY <1>4 DEF TokensKept
  <2>2. /\ proc'[p] = r /\ r.entry = o.entry /\ r.at \notin Putting \cup {"revoke"} /\ o.at \in Putting
        /\ \A q \in Process \ {p} : proc'[q].at = proc[q].at /\ proc'[q].entry = proc[q].entry /\ proc'[q].server = proc[q].server
    BY <1>1, <1>2, <1>4 DEF Others, Putting
  <2>3. /\ DOMAIN saved' = DOMAIN saved \cup {o.server} /\ saved'[o.server] = o.entry
        /\ \A s \in DOMAIN saved \ {o.server} : saved'[s] = saved[s]
    BY <1>3 DEF With
  <2>4. \A q \in Process : proc[q].at \in Putting \cup {"revoke"} => proc[q].entry # NoEntry
    BY <1>4 DEF Typed, Held
  <2>5. ASSUME NEW q \in Process \ {p} PROVE Own(q)'
    <3>1. proc[q].at \in Putting \cup {"revoke"} => \A s \in DOMAIN saved' : saved'[s].grant # proc[q].entry.grant
      BY <2>1, <2>2, <2>3, <2>4 DEF Own
    <3>2. proc[q].at \in Putting => \A x \in Process \ {q} : proc'[x].entry # NoEntry => proc'[x].entry.grant # proc[q].entry.grant
      BY <2>1, <2>2 DEF Own
    <3> QED BY <1>3, <2>1, <2>2, <3>1, <3>2 DEF Own
  <2>6. Own(p)'
    BY <2>2 DEF Own
  <2>7. ASSUME NEW s \in DOMAIN saved' PROVE Live(s)'
    <3>1. CASE s = o.server
      BY <1>3, <2>1, <2>2, <2>3, <3>1 DEF Own, Live
    <3>2. CASE s # o.server
      BY <1>3, <2>1, <2>2, <2>3, <3>2 DEF Live
    <3> QED BY <3>1, <3>2
  <2> QED BY <2>5, <2>6, <2>7 DEF TokensKept
<1> QED BY <1>7, <1>8, <1>9, <1>10 DEF TokensInv

LEMMA PutRenameKeeps == ASSUME TokensInv, NEW p \in Process, PutRename(p) PROVE TokensInv'
BY PutRenameLoses, PutRenameMoves

LEMMA PutRemoveKeeps == ASSUME TokensInv, NEW p \in Process, PutRemove(p) PROVE TokensInv'
<1> DEFINE c == [at |-> "on"]
           o == proc[p]
           new == Changed(o, c)
<1>1. o \in State /\ o.at = "remove" /\ Held(grants, o) /\ lost
  BY ProcessIs DEF PutRemove, TokensInv, Typed
<1>0. /\ new.server = o.server /\ new.at = "on" /\ new.then = o.then
      /\ new.fresh = o.fresh /\ new.entry = o.entry /\ new.map = o.map /\ new.fd = o.fd
      /\ new \in State
  <2>1. DOMAIN c = {"at"} /\ c.at = "on"
    OBVIOUS
  <2> HIDE DEF c, o
  <2>2. /\ new.server = o.server /\ new.at = "on" /\ new.then = o.then
        /\ new.fresh = o.fresh /\ new.entry = o.entry /\ new.map = o.map /\ new.fd = o.fd
    BY <1>1, <2>1, ChangedIs
  <2>3. StateFields(o)
    BY <1>1, StateIs
  <2> HIDE DEF new
  <2>4. StateFields(new)
    BY <1>1, <2>2, <2>3 DEF StateFields, Writes, Putting
  <2> QED BY <1>1, <2>2, <2>4, ChangedIsState DEF new
<1>2. PICK r \in State :
         /\ r.server = o.server /\ r.at = "on" /\ r.then = o.then
         /\ r.fresh = o.fresh /\ r.entry = o.entry /\ r.map = o.map /\ r.fd = o.fd
         /\ r = new
  BY <1>0
<1> HIDE DEF new
<1>3. proc' = [Moved("tmp", "none") EXCEPT ![p] = r] /\ tmp' = NoFile /\ UNCHANGED <<now, grants, file, saved, overlapped, lost>>
  BY <1>2 DEF PutRemove, new, history
<1>4. Typed /\ OneWrites /\ CacheKept /\ TokensKept /\ Others(p, r) /\ overlapped \in BOOLEAN /\ lost \in BOOLEAN
  BY <1>2, <1>3, MovedIs DEF TokensInv, Typed
<1> HIDE DEF c
<1>7. Typed'
  <2>1. Held(grants, r) /\ r.at # "remove"
    BY <1>1, <1>2 DEF Held, Putting
  <2>2. Grown(grants, grants')
    BY <1>3, <1>4 DEF Typed, Grown
  <2> QED BY <1>3, <1>4, <2>1, <2>2, TypedStays DEF Typed
<1>8. OneWrites'
  BY <1>2, <1>3, <1>4, OneWritesFewer DEF Writes, TokensInv
<1> QED BY <1>1, <1>3, <1>7, <1>8 DEF TokensInv, CacheKept, TokensKept

LEMMA QuitKeeps == ASSUME TokensInv, NEW p \in Process, Quit(p) PROVE TokensInv'
<1> DEFINE o == proc[p]
           new == Changed(o, Idle)
<1>1. o \in State /\ o.at = "on" /\ Held(grants, o)
  BY ProcessIs DEF Quit, Held, Putting
<1>6. Nothing \in MapFor(grants) /\ Nothing \in Map
  BY NothingIsAMap DEF MapFor
<1>0. /\ new.server = NoServer /\ new.at = "off" /\ new.then = "none"
      /\ new.fresh = 0 /\ new.entry = NoEntry /\ new.map = Nothing /\ new.fd = "none"
      /\ new \in State
  <2>1. DOMAIN Idle = {"server", "at", "then", "fresh", "entry", "map", "fd"} /\ Idle.server = NoServer /\ Idle.at = "off" /\ Idle.then = "none" /\ Idle.fresh = 0 /\ Idle.entry = NoEntry /\ Idle.map = Nothing /\ Idle.fd = "none"
    BY DEF Idle
  <2> HIDE DEF o
  <2>2. /\ new.server = NoServer /\ new.at = "off" /\ new.then = "none"
        /\ new.fresh = 0 /\ new.entry = NoEntry /\ new.map = Nothing /\ new.fd = "none"
    BY <1>1, <2>1, ChangedIs
  <2>3. StateFields(o)
    BY <1>1, StateIs
  <2> HIDE DEF new
  <2>4. StateFields(new)
    BY <1>1, <1>6, <2>2, <2>3 DEF StateFields, Writes, Putting
  <2> QED BY <1>1, <2>2, <2>4, ChangedIsState DEF new
<1>2. PICK r \in State :
         /\ r.server = NoServer /\ r.at = "off" /\ r.then = "none"
         /\ r.fresh = 0 /\ r.entry = NoEntry /\ r.map = Nothing /\ r.fd = "none"
         /\ r = new
  BY <1>0
<1> HIDE DEF new
<1>3. proc' = [proc EXCEPT ![p] = r] /\ UNCHANGED <<now, grants, file, tmp, saved, overlapped, lost>>
  <2>1. new = Idle
    BY <1>1, StateIs DEF new, Changed, Idle, State
  <2> QED BY <1>2, <2>1 DEF Quit, history
<1>4. Typed /\ OneWrites /\ CacheKept /\ TokensKept /\ Others(p, r) /\ overlapped \in BOOLEAN /\ lost \in BOOLEAN
  BY <1>2, <1>3 DEF TokensInv, Typed, Others
<1>7. Typed'
  <2>1. Held(grants, r) /\ r.at # "remove"
    BY <1>1, <1>2, <1>6 DEF Held, Putting
  <2>2. Grown(grants, grants')
    BY <1>3, <1>4 DEF Typed, Grown
  <2> QED BY <1>3, <1>4, <2>1, <2>2, TypedStays DEF Typed
<1>8. OneWrites'
  BY <1>2, <1>3, <1>4, OneWritesFewer DEF Writes, TokensInv
<1>9. CacheKept'
  <2>1. Midway(r)'
    BY <1>2 DEF Midway
  <2> QED BY <1>1, <1>2, <1>3, <1>4, <2>1, CacheStays DEF Typed
<1>10. TokensKept'
  BY <1>1, <1>2, <1>3, <1>4, TokensStay DEF Putting
<1> QED BY <1>7, <1>8, <1>9, <1>10 DEF TokensInv

LEMMA KillKeeps == ASSUME TokensInv, NEW p \in Process, Kill(p) PROVE TokensInv'
<1>1. Idle \in State /\ Held(grants, Idle) /\ Idle.at = "off"
  BY NothingIsAMap DEF Idle, State, Held, MapFor, Putting
<1>2. proc' = [proc EXCEPT ![p] = Idle] /\ lost' = TRUE /\ UNCHANGED <<now, grants, file, tmp, saved, overlapped>>
  BY DEF Kill
<1>3. Typed /\ OneWrites /\ Others(p, Idle)
  BY <1>1, <1>2 DEF TokensInv, Typed, Others
<1>4. Typed'
  <2>1. Grown(grants, grants')
    BY <1>2, <1>3 DEF Typed, Grown
  <2> QED BY <1>1, <1>2, <1>3, <2>1, TypedStays DEF Typed
<1>5. OneWrites'
  BY <1>1, <1>2, <1>3, OneWritesFewer DEF Writes
<1> QED BY <1>2, <1>4, <1>5 DEF TokensInv, CacheKept, TokensKept

(* Nothing is lost as time passes. *)
LEMMA TimeKeeps ==
    ASSUME TokensInv, UNCHANGED <<grants, file, tmp, proc, history>>, now' \in 0..MaxNow
    PROVE  TokensInv'
<1>1. UNCHANGED <<saved, overlapped, lost>> /\ Typed /\ OneWrites /\ CacheKept /\ TokensKept
  BY DEF history, TokensInv
<1>2. Typed' /\ OneWrites'
  BY <1>1 DEF Typed, OneWrites
<1>3. CacheKept'
  <2>1. Load' = Load /\ \A p \in Process : Midway(proc[p])' = Midway(proc[p])
    BY <1>1 DEF Load, Midway
  <2> QED BY <1>1, <2>1 DEF CacheKept
<1>4. TokensKept'
  <2>1. (\A p \in Process : Own(p)' <=> Own(p)) /\ \A s : Live(s)' <=> Live(s)
    BY <1>1 DEF Own, Live
  <2> QED BY <1>1, <2>1 DEF TokensKept
<1> QED BY <1>2, <1>3, <1>4 DEF TokensInv

(* The inductive invariant.                                                  *)
LEMMA TokensInvHolds == TokensSpec => []TokensInv
<1>1. TokensInit => TokensInv
  <2> SUFFICES ASSUME TokensInit PROVE TokensInv
    OBVIOUS
  <2>1. /\ Idle \in State /\ Held(grants, Idle) /\ Idle.at = "off" /\ Idle.entry = NoEntry
        /\ Nothing \in MapFor(grants) /\ DOMAIN Nothing = {}
    BY NothingIsAMap DEF Idle, State, Held, MapFor, Putting
  <2>2. grants \in Seq(Grant) /\ Len(grants) = 0 /\ now \in 0..MaxNow /\ MaxGrant >= 0
    BY Constants DEF TokensInit
  <2>3. \A p \in Process : proc[p] = Idle
    BY DEF TokensInit
  <2>4. Typed
    BY <2>1, <2>2, <2>3 DEF TokensInit, Typed
  <2>5. OneWrites
    BY <2>1, <2>3 DEF OneWrites, Writes
  <2>6. CacheKept
    BY <2>1, <2>3 DEF TokensInit, CacheKept, Load, Midway
  <2>7. TokensKept
    BY <2>1, <2>3 DEF TokensInit, TokensKept, Own, Putting
  <2> QED BY <2>4, <2>5, <2>6, <2>7 DEF TokensInv
<1>2. TokensInv /\ [TokensNext]_tokenVars => TokensInv'
  <2> SUFFICES ASSUME TokensInv, [TokensNext]_tokenVars PROVE TokensInv'
    OBVIOUS
  <2>1. CASE Tick
    <3>1. now' \in 0..MaxNow
      BY <2>1, Constants DEF Tick, TokensInv, Typed
    <3> QED BY <2>1, <3>1, TimeKeeps DEF Tick
  <2>2. ASSUME NEW p \in Process, Acts(p) PROVE TokensInv'
    BY <2>2, DiscoverKeeps, SignInKeeps, DeviceSignInKeeps, TokenKeeps, RefreshKeeps, PutLoadKeeps, PutOpenKeeps,
       PutWriteKeeps, PutRenameKeeps, PutRemoveKeeps, ForgetKeeps, TruncateKeeps, RewriteKeeps, RevokeKeeps DEF Acts
  <2>3. ASSUME NEW p \in Process, Quit(p) \/ Kill(p) PROVE TokensInv'
    BY <2>3, QuitKeeps, KillKeeps
  <2>4. ASSUME NEW p \in Process, NEW s \in Server, Start(p, s) \/ SignOut(p, s) PROVE TokensInv'
    BY <2>4, StartKeeps, SignOutKeeps
  <2>5. CASE UNCHANGED tokenVars
    <3>1. now' \in 0..MaxNow
      BY <2>5 DEF tokenVars, TokensInv, Typed
    <3> QED BY <2>5, <3>1, TimeKeeps DEF tokenVars
  <2> QED BY <2>1, <2>2, <2>3, <2>4, <2>5 DEF TokensNext
<1> QED BY <1>1, <1>2, PTL DEF TokensSpec

(* However many sextants, servers and sign-ins there are, an entry's ceiling *)
(* is counted from when the user last signed in, and while nothing has       *)
(* overlapped and nobody was killed half way the file says what was last put *)
(* for every server (Cache.Put, Cache.Forget, refresh, store).               *)
THEOREM CacheIsTrueAndWhole == TokensSpec => [](TokensTypeOK /\ CacheHolds)
<1>1. TokensInv => TokensTypeOK /\ CacheHolds
  <2> SUFFICES ASSUME TokensInv PROVE TokensTypeOK /\ CacheHolds
    OBVIOUS
  <2>1. TokensTypeOK
    BY DEF TokensInv, Typed, TokensTypeOK, MapFor, State
  <2>2. CeilingIsFromSignIn
    <3>1. \A s \in DOMAIN Load : Load[s].started = grants[Load[s].grant].start
      BY LoadedIs DEF EntryFor
    <3>2. \A p \in Process : proc[p].entry # NoEntry => proc[p].entry.started = grants[proc[p].entry.grant].start
      BY DEF TokensInv, Typed, Held, EntryFor
    <3> QED BY <3>1, <3>2 DEF CeilingIsFromSignIn
  <2>3. CacheIsAMap
    BY DEF TokensInv, CacheKept, CacheIsAMap
  <2> QED BY <2>1, <2>2, <2>3 DEF CacheHolds
<1> QED BY <1>1, TokensInvHolds, PTL

(* A process that is signed in begins to renew by Token alone: what others   *)
(* do leaves it where it is, and what else it may do then is end.            *)
LEMMA OnlyTokenRenews ==
    ASSUME TokensInv, TokensNext, NEW p \in Process, proc[p].at = "on", proc'[p].at = "refresh"
    PROVE  Token(p)
<1>1. proc \in [Process -> State]
  BY DEF TokensInv, Typed
<1>2. ASSUME NEW q \in Process, q # p, \E c : Step(q, c) PROVE FALSE
  BY <1>1, <1>2 DEF Step
<1>3. ASSUME NEW q \in Process, q # p, NEW r, NEW to, proc' = [Moved("tmp", to) EXCEPT ![q] = r] PROVE FALSE
  <2>1. PICK d : Moved("tmp", to)[p] = [proc[p] EXCEPT !.fd = d]
    BY DEF Moved
  <2>2. proc'[p] = Moved("tmp", to)[p]
    BY <1>3 DEF Moved
  <2> QED BY <1>1, <2>1, <2>2 DEF State
<1>4. ASSUME NEW q \in Process, q # p, PutRename(q) \/ PutRemove(q) PROVE FALSE
  <2>1. CASE PutRename(q) /\ tmp = NoFile
    BY <1>2, <1>4, <2>1 DEF PutRename
  <2>2. CASE PutRename(q) /\ tmp # NoFile
    BY <1>3, <1>4, <2>2 DEF PutRename
  <2>3. CASE PutRemove(q)
    BY <1>3, <1>4, <2>3 DEF PutRemove
  <2> QED BY <1>4, <2>1, <2>2, <2>3
<1>5. ASSUME NEW q \in Process, q # p, Quit(q) \/ Kill(q) PROVE FALSE
  BY <1>1, <1>5 DEF Quit, Kill
<1>6. ASSUME NEW q \in Process, q # p, NEW s \in Server, Start(q, s) \/ SignOut(q, s) PROVE FALSE
  BY <1>2, <1>6 DEF Start, SignOut
<1>7. ASSUME NEW q \in Process, q # p, Acts(q) PROVE FALSE
  <2>1. CASE Discover(q) \/ DeviceSignIn(q) \/ Token(q) \/ Refresh(q)
    BY <1>2, <1>7, <2>1 DEF Discover, DeviceSignIn, Token, Refresh
  <2>2. CASE SignIn(q)
    BY <1>2, <1>7, <2>2 DEF SignIn
  <2>3. CASE PutLoad(q) \/ PutOpen(q) \/ PutWrite(q)
    BY <1>2, <1>7, <2>3 DEF PutLoad, PutOpen, PutWrite
  <2>4. CASE Forget(q) \/ Truncate(q) \/ Rewrite(q) \/ Revoke(q)
    BY <1>2, <1>7, <2>4 DEF Forget, Truncate, Rewrite, Revoke
  <2> QED BY <1>4, <1>7, <2>1, <2>2, <2>3, <2>4 DEF Acts
<1>8. ASSUME Acts(p) PROVE Token(p)
  BY <1>8 DEF Acts, Discover, SignIn, DeviceSignIn, Refresh, PutLoad, PutOpen, PutWrite, PutRename, PutRemove,
     Forget, Truncate, Rewrite, Revoke
<1>9. ~Quit(p) /\ ~Kill(p) /\ ~Tick /\ \A s \in Server : ~Start(p, s) /\ ~SignOut(p, s)
  BY <1>1 DEF Quit, Kill, Tick, Start, SignOut, Idle
<1> QED BY <1>5, <1>6, <1>7, <1>8, <1>9 DEF TokensNext

(* Whoever renews presents a refresh token that is still live, unless it is  *)
(* being renewed by another, or what a process was saving was lost (renew).  *)
THEOREM RenewsTheLiveToken == TokensSpec => RenewsByTheFile
<1> DEFINE A == \A p \in Process :
                  /\ proc[p].at = "on" /\ proc'[p].at = "refresh"
                  /\ ~overlapped /\ ~lost /\ Saving(proc[p].server) = {}
                  => grants[proc'[p].entry.grant].live
<1>1. TokensInv /\ [TokensNext]_tokenVars => [A]_tokenVars
  <2> SUFFICES ASSUME TokensInv, TokensNext, NEW p \in Process, proc[p].at = "on", proc'[p].at = "refresh",
                      ~overlapped, ~lost, Saving(proc[p].server) = {}
               PROVE  grants[proc'[p].entry.grant].live
    OBVIOUS
  <2>1. Token(p)
    BY OnlyTokenRenews
  <2>2. PICK s : s = proc[p].server /\ s \in DOMAIN Load /\ Step(p, [at |-> "refresh", entry |-> Load[s], then |-> "on"])
    BY <2>1 DEF Token
  <2> DEFINE e == Load[s]
             c == [at |-> "refresh", entry |-> e, then |-> "on"]
  <2>3. proc[p] \in State /\ proc' = [proc EXCEPT ![p] = Changed(proc[p], c)] /\ proc \in [Process -> State]
    BY <2>2 DEF Step, TokensInv, Typed
  <2>4. DOMAIN c = {"at", "entry", "then"} /\ c.entry = e
    OBVIOUS
  <2>5. e = saved[s] /\ s \in DOMAIN saved
    BY <2>2, LoadedIs
  <2> HIDE DEF e, c
  <2>6. proc'[p].entry = e
    BY <2>3, <2>4, ChangedIs
  <2> QED BY <2>2, <2>5, <2>6 DEF TokensInv, TokensKept, Live, Saving, Putting
<1> QED BY <1>1, TokensInvHolds, PTL DEF RenewsByTheFile, TokensSpec

=============================================================================
