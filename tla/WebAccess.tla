------------------------------ MODULE WebAccess -------------------------------
(***************************************************************************)
(* Who is served what (internal/auth/auth.go, internal/web/scope.go and    *)
(* the handlers of server.go): the tabs of one browser share its two       *)
(* cookies, the session and the state of a sign-in under way; every page     *)
(* opens an event stream that reconnects by itself; groups are given         *)
(* namespaces.                                                             *)
(***************************************************************************)
EXTENDS Integers, Sequences, FiniteSets

CONSTANTS
    Tab, User,
    ScopedCluster,        \* [ns, name]
    StorageLayer,   \* [by: the clusters that report it]: what Fleet.Storage has
    GroupsOf,       \* User -> set of groups
    GroupScopes,    \* group -> namespaces, or "*" among them; empty: no scopes
    Stable,         \* the signing key is configured, not generated at start
    StateLife, SessionLife,     \* the cookies' lives, in ticks
    MaxClock, MaxNonce, MaxStart, \* bounds: ticks, sign-ins begun, starts of the server
    Nobody, NoCookie

ASSUME WebAssumption ==
    /\ {StateLife, SessionLife, MaxClock, MaxNonce, MaxStart} \subseteq Nat
    /\ Stable \in BOOLEAN
    /\ \A s \in StorageLayer : s.by \subseteq ScopedCluster

VARIABLES
    session,    \* the session cookie: [who, groups, until, key], or NoCookie
    pending,    \* the state cookie: [nonce, next, until], or NoCookie
    tab,        \* Tab -> [at, asks, nonce, sees]
    feed,       \* its stream; Tab -> [is: "none", "open", "dropped" or "lost", who]
    nonces,     \* sign-ins begun
    starts,     \* starts of the server: what a generated key depends on
    overtaken,  \* sign-ins another tab has begun one after
    clock

webVars == <<session, pending, tab, feed, nonces, starts, overtaken, clock>>

Fleet == [route |-> "fleet"]
Management == [route |-> "management"]
Route == {Fleet, Management} \cup [route : {"cluster"}, of : ScopedCluster]
Key == IF Stable THEN 0 ELSE starts
Blank == [at |-> "blank", asks |-> Fleet, nonce |-> 0, sees |-> Nobody]
Closed == [is |-> "none", who |-> Nobody]

-------------------------------------------------------------------------------
(* ResolveScope: no scopes, or a group given everything, is everything. *)
Scope(groups) ==
    LET mine == UNION {GroupScopes[g] : g \in groups \cap DOMAIN GroupScopes}
    IN IF DOMAIN GroupScopes = {} \/ "*" \in mine THEN {c.ns : c \in ScopedCluster} ELSE mine

Everything(groups) == DOMAIN GroupScopes = {} \/ \E g \in groups \cap DOMAIN GroupScopes : "*" \in GroupScopes[g]

(* filterViews. *)
Views(groups) == {c \in ScopedCluster : c.ns \in Scope(groups)}

(* filterStorage: a storage cluster is shown for one reporter in scope. *)
Storage(groups) ==
    IF Everything(groups) THEN StorageLayer
    ELSE {s \in StorageLayer : \E c \in s.by : c.ns \in Scope(groups)}

(* page, cluster and management: what a request for a route is answered. *)
Answer(groups, r) ==
    CASE r.route = "management" -> [clusters |-> {}, storage |-> {}]
      [] r.route = "fleet" -> [clusters |-> Views(groups), storage |-> Storage(groups)]
      [] OTHER -> [clusters |-> IF r.of.ns \in Scope(groups) THEN {r.of} ELSE {}, storage |-> {}]

(* session: the cookie, if it has not expired and this server signed it. *)
SignedIn == session # NoCookie /\ session.key = Key /\ clock <= session.until

(* Faulty variant of IsNavigation: every request is sent to sign in. *)
AlwaysNavigation(request) == TRUE
IsNavigation(request) == request = "page"

(* Middleware: a request is served, sent to sign in, or refused. *)
Middleware(request) ==
    IF SignedIn THEN "serve" ELSE IF IsNavigation(request) THEN "login" ELSE "refuse"

-------------------------------------------------------------------------------
WebInit ==
    /\ session = NoCookie /\ pending = NoCookie
    /\ tab = [t \in Tab |-> Blank]
    /\ feed = [t \in Tab |-> Closed]
    /\ nonces = 0 /\ starts = 0 /\ overtaken = {} /\ clock = 0

Seen(t, r) ==
    IF Answer(session.groups, r).clusters = {} /\ r.route = "cluster"
    THEN [tab[t] EXCEPT !.at = "not found", !.asks = r]
    ELSE [at |-> "page", asks |-> r, nonce |-> 0, sees |-> session.who]

(* A user follows a link; the page before it takes its stream along. *)
Navigate(t, r) ==
    /\ tab[t].at # "landing"
    /\ tab' = [tab EXCEPT ![t] = IF Middleware("page") = "serve" THEN Seen(t, r)
                                 ELSE [at |-> "redirected", asks |-> r, nonce |-> 0, sees |-> Nobody]]
    /\ feed' = [feed EXCEPT ![t] = Closed]
    /\ UNCHANGED <<session, pending, nonces, starts, overtaken, clock>>

BeginSignIn(r) ==
    /\ nonces < MaxNonce
    /\ nonces' = nonces + 1
    /\ pending' = [nonce |-> nonces + 1, next |-> r, until |-> clock + StateLife]

(* handleLogin: the redirect of the middleware arrives. *)
HandleLogin(t) ==
    /\ tab[t].at = "redirected"
    /\ BeginSignIn(tab[t].asks)
    /\ tab' = [tab EXCEPT ![t].at = "provider", ![t].nonce = nonces + 1]
    /\ overtaken' = overtaken \cup 1..nonces
    /\ UNCHANGED <<session, feed, starts, clock>>

Refused(t, why) == tab' = [tab EXCEPT ![t].at = why] /\ UNCHANGED <<session, pending>>

Matches(t) == pending.nonce = tab[t].nonce

(* handleCallback: the provider sends the browser back, the user having      *)
(* signed in there as u, or with a code that cannot be exchanged.            *)
HandleCallback(t, u, exchanged) ==
    /\ tab[t].at = "provider"
    /\ IF pending = NoCookie \/ (pending # NoCookie /\ clock > pending.until) THEN Refused(t, "expired")
       ELSE IF ~Matches(t) THEN Refused(t, "no match")
       ELSE /\ pending' = NoCookie
            /\ IF exchanged
               THEN /\ session' = [who |-> u, groups |-> GroupsOf[u], until |-> clock + SessionLife, key |-> Key]
                    /\ tab' = [tab EXCEPT ![t] = [@ EXCEPT !.at = "landing", !.asks = pending.next]]
               ELSE /\ tab' = [tab EXCEPT ![t].at = "bad gateway"]
                    /\ UNCHANGED session
    /\ UNCHANGED <<feed, nonces, starts, overtaken, clock>>

(* The redirect at its end, a request like any other. *)
Land(t) ==
    /\ tab[t].at = "landing"
    /\ tab' = [tab EXCEPT ![t] = IF Middleware("page") = "serve" THEN Seen(t, tab[t].asks)
                                 ELSE [@ EXCEPT !.at = "redirected", !.nonce = 0]]
    /\ UNCHANGED <<session, pending, feed, nonces, starts, overtaken, clock>>

(* handleLogout. *)
Logout(t) ==
    /\ tab[t].at = "page"
    /\ session' = NoCookie
    /\ tab' = [tab EXCEPT ![t] = [at |-> "redirected", asks |-> Fleet, nonce |-> 0, sees |-> Nobody]]
    /\ feed' = [feed EXCEPT ![t] = Closed]
    /\ UNCHANGED <<pending, nonces, starts, overtaken, clock>>

(* A page's stream connects, or connects again: it is open, as whoever the   *)
(* request was by until it ends, or it is lost and the page says so.         *)
Connect(t) ==
    /\ tab[t].at = "page" /\ feed[t].is \in {"none", "dropped"}
    /\ CASE Middleware("feed") = "serve" ->
              /\ feed' = [feed EXCEPT ![t] = [is |-> "open", who |-> session.who]]
              /\ UNCHANGED <<pending, nonces>>
         [] Middleware("feed") = "refuse" ->
              /\ feed' = [feed EXCEPT ![t] = [is |-> "lost", who |-> Nobody]]
              /\ UNCHANGED <<pending, nonces>>
         [] OTHER ->
              /\ feed' = [feed EXCEPT ![t] = [is |-> "lost", who |-> Nobody]]
              /\ BeginSignIn(Fleet)
    /\ UNCHANGED <<session, tab, starts, overtaken, clock>>

StreamDrops(t) ==
    /\ feed[t].is = "open"
    /\ feed' = [feed EXCEPT ![t] = [is |-> "dropped", who |-> Nobody]]
    /\ UNCHANGED <<session, pending, tab, nonces, starts, overtaken, clock>>

(* The server is started again: its streams end, and with a generated key    *)
(* every session (sessionKey).                                               *)
Restart ==
    /\ starts < MaxStart
    /\ starts' = starts + 1
    /\ feed' = [t \in Tab |-> IF feed[t].is = "open" THEN [is |-> "dropped", who |-> Nobody] ELSE feed[t]]
    /\ UNCHANGED <<session, pending, tab, nonces, overtaken, clock>>

WebTick ==
    /\ clock < MaxClock /\ clock' = clock + 1
    /\ UNCHANGED <<session, pending, tab, feed, nonces, starts, overtaken>>

WebNext ==
    \/ \E t \in Tab :
          \/ \E r \in Route : Navigate(t, r)
          \/ \E u \in User, x \in BOOLEAN : HandleCallback(t, u, x)
          \/ HandleLogin(t) \/ Land(t) \/ Logout(t) \/ Connect(t) \/ StreamDrops(t)
    \/ Restart \/ WebTick

WebSpec == WebInit /\ [][WebNext]_webVars

-------------------------------------------------------------------------------
Session == [who : User, groups : {GroupsOf[u] : u \in User}, until : Nat, key : Nat]
Pending == [nonce : Nat, next : Route, until : Nat]

TabState == [at : {"blank", "redirected", "provider", "landing", "page", "not found", "expired",
                   "no match", "bad gateway"},
             asks : Route, nonce : 0..MaxNonce, sees : User \cup {Nobody}]
Feed == [is : {"none", "open", "dropped", "lost"}, who : User \cup {Nobody}]

WebTypeOK ==
    /\ session \in Session \cup {NoCookie}
    /\ pending \in Pending \cup {NoCookie}
    /\ tab \in [Tab -> TabState]
    /\ feed \in [Tab -> Feed]
    /\ nonces \in 0..MaxNonce /\ starts \in 0..MaxStart /\ clock \in 0..MaxClock

(* A sign-in is refused for not matching only because another tab has begun  *)
(* one after it: no stream of a signed-out page, however often it connects,  *)
(* is in the way of it (isNavigation, handleCallback).                       *)
OnlyTabsCollide == \A t \in Tab : tab[t].at = "no match" => tab[t].nonce \in overtaken

(* Whichever tab comes back first, one that has signed in lands where its    *)
(* user was going, not where another tab was.                                *)
LandsWhereAsked ==
    [][\A t \in Tab : tab[t].at = "provider" /\ tab'[t].at = "landing" => tab'[t].asks = tab[t].asks]_webVars

(* All that is shown is of one scope: what a tab or a stream shows of        *)
(* storage is reported by a cluster whose card its reader is shown, and a    *)
(* cluster has a page for exactly those who have its card.                   *)
OneScope ==
    \A u \in {tab[t].sees : t \in Tab} \cup {feed[t].who : t \in Tab} : u # Nobody =>
        LET groups == GroupsOf[u]
            fleet == Answer(groups, Fleet)
        IN /\ \A s \in fleet.storage : s.by # {} => s.by \cap fleet.clusters # {}
           /\ \A t \in Tab : tab[t].sees = u /\ tab[t].at = "page" /\ tab[t].asks.route = "cluster"
                 => tab[t].asks.of \in fleet.clusters

(* Signing in gets a tab where its user was going, or it was another tab's   *)
(* sign-in that was in the way (Middleware, handleLogin, handleCallback).    *)
SignInsLand == [][OnlyTabsCollide']_webVars /\ LandsWhereAsked

===============================================================================
