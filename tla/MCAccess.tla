-------------------------------- MODULE MCAccess --------------------------------
(***************************************************************************)
(* Instances of WebAccess, Tokens, Serve and MetalLB for TLC, none of which*)
(* needs fairness: how the server starts, who is served the pages in a     *)
(* browser, how a terminal client proves who it is for, and what access to *)
(* a cluster's services is said to be like.  They share nothing; a         *)
(* behaviour is of one of them.                                            *)
(***************************************************************************)
EXTENDS Tokens, MetalLB, Serve

CONSTANTS ann, bob, t1, t2, v1, v2

(* The browser: two clusters, one user's group is given everything, the      *)
(* other's one namespace.                                                    *)
X == [ns |-> "a", name |-> "x"]
Y == [ns |-> "b", name |-> "y"]
MCScopedCluster == {X, Y}
MCStorage == {[by |-> {X}], [by |-> {X, Y}], [by |-> {}]}
MCGroups == ann :> {"ops"} @@ bob :> {"a-ops", "guests"}
MCScopes == [g \in {"ops", "a-ops"} |-> IF g = "ops" THEN {"*"} ELSE {"b"}]

(* Two pools of one namespace, one of which has no counts of its own. *)
MCPool == {[name |-> "a", ns |-> "lb", size |-> 1, counts |-> TRUE],
           [name |-> "b", ns |-> "lb", size |-> 2, counts |-> FALSE]}

(* Command lines without an issuer, and with one: keys that are not there,   *)
(* too short, long enough as text only, and as either.                       *)
CommandLine(issuer, client, redirect, addr, allow, cliScopes, keyed, scopeFile, demo) ==
    [version |-> FALSE, demo |-> demo, allow |-> allow, addr |-> addr, issuer |-> issuer,
     client |-> client, redirect |-> redirect, cliScopes |-> cliScopes,
     text |-> keyed[1], bytes |-> keyed[2], scopeFile |-> scopeFile]
MCAsked ==
    {CommandLine(FALSE, FALSE, FALSE, addr, allow, {}, <<0, 0>>, f, d) :
        addr \in {"loopback", "every", "other", "malformed"}, allow \in BOOLEAN,
        f \in {"none", "good", "bad"}, d \in BOOLEAN}
    \cup {CommandLine(TRUE, c, r, addr, FALSE, s, k, f, d) :
        c \in BOOLEAN, r \in BOOLEAN, addr \in {"every", "malformed"}, s \in SUBSET {"openid", "offline_access"},
        k \in {<<0, 0>>, <<10, 0>>, <<32, 24>>, <<32, 0>>, <<44, 32>>}, f \in {"none", "bad"}, d \in BOOLEAN}
    \cup {[CommandLine(FALSE, FALSE, FALSE, "loopback", FALSE, {}, <<0, 0>>, "none", FALSE) EXCEPT !.version = TRUE]}

(* Tabs, sextants, servers and services are interchangeable. *)
Symmetry ==
    UNION {Permutations(Tab), Permutations(Process), Permutations(Server), Permutations(LbService)}

VARIABLE part

NoServe ==
    /\ asked = CommandLine(FALSE, FALSE, FALSE, "loopback", FALSE, {}, <<0, 0>>, "none", TRUE)
    /\ at = "over" /\ scheme = "none" /\ key = "none" /\ source = "none" /\ scopes = "none"
    /\ contacted = {} /\ canceled = FALSE /\ listened = FALSE /\ end = "version"

AccessInit ==
    /\ part \in {"web", "tokens", "balancer", "serve"}
    /\ WebInit /\ TokensInit /\ LbInit
    /\ IF part = "serve" THEN ServeInit ELSE NoServe
    /\ part # "balancer" => adverts = {} /\ speakers.desired = 0

AccessNext ==
    /\ UNCHANGED part
    /\ \/ part = "web" /\ WebNext /\ UNCHANGED <<tokenVars, lbVars, serveVars>>
       \/ part = "tokens" /\ TokensNext /\ UNCHANGED <<webVars, lbVars, serveVars>>
       \/ part = "balancer" /\ LbNext /\ UNCHANGED <<webVars, tokenVars, serveVars>>
       \/ part = "serve" /\ ServeNext /\ UNCHANGED <<webVars, tokenVars, lbVars>>

AccessSpec == AccessInit /\ [][AccessNext]_<<part, webVars, tokenVars, lbVars, serveVars>>

===============================================================================
