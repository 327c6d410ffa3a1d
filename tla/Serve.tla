-------------------------------- MODULE Serve ---------------------------------
(***************************************************************************)
(* How binnacle starts and ends (cmd/binnacle, with NewOIDC and the guard  *)
(* of internal/auth): the scheme of authentication, the guard on the       *)
(* address, the source, the scopes, the listener, and the signal that may  *)
(* come at any moment in between.  Once it listens, module WebAccess says  *)
(* who is shown what.                                                      *)
(***************************************************************************)
EXTENDS WebAccess

CONSTANTS
    Asked,      \* the command lines and environments, see AskedType
    MinKey      \* minSessionKey

(* A key is what its text and, if it is base64, its bytes are long; 0: unset *)
(* or not base64.  CLI scopes: none, or a set of them.                       *)
AskedType ==
    [version : BOOLEAN, demo : BOOLEAN, allow : BOOLEAN,
     addr : {"loopback", "every", "other", "malformed"},
     issuer : BOOLEAN, client : BOOLEAN, redirect : BOOLEAN, cliScopes : SUBSET {"openid", "offline_access"},
     text : Nat, bytes : Nat, scopeFile : {"none", "good", "bad"}]

ASSUME ServeAssumption == MinKey \in Nat \ {0} /\ Asked \subseteq AskedType

VARIABLES
    asked,      \* the command line
    at,         \* where run is
    scheme,     \* the authenticator: "none" before, "open", "unauthenticated", "oidc"
    key,        \* its signing key: "none", "made up", "given"
    source,     \* "none", "demo", "fleet", or "stopped" when discovery has given up
    scopes,     \* what LoadGroupScopes returned: "none", "everyone", "groups"
    contacted,  \* what the start has talked to or read: "issuer", "management", "profile"
    canceled,   \* a signal has come
    listened,   \* the listener has been open
    end         \* what run returned; "" while it runs

serveVars == <<asked, at, scheme, key, source, scopes, contacted, canceled, listened, end>>

ServeInit ==
    /\ asked \in Asked
    /\ at = "parse"
    /\ scheme = "none" /\ key = "none" /\ source = "none" /\ scopes = "none"
    /\ contacted = {} /\ canceled = FALSE /\ listened = FALSE
    /\ end = ""

-------------------------------------------------------------------------------
(* run returns, and the process is over with all that runs in it. *)
Return(what) == at' = "over" /\ end' = what
Goes(where) == at' = where /\ end' = ""

ParseServe ==
    /\ at = "parse"
    /\ IF asked.version THEN Return("version") ELSE Goes("auth")
    /\ UNCHANGED <<asked, scheme, key, source, scopes, contacted, canceled, listened>>

(* sessionKey: the bytes if they are enough, else the text. *)
SessionKey ==
    IF asked.text = 0 THEN "made up"
    ELSE IF asked.bytes >= MinKey \/ asked.text >= MinKey THEN "given" ELSE "refused"

(* NewOIDC: what must be said, then the issuer's own document, which a       *)
(* signal cuts short, then the scopes a terminal is to ask for: with none    *)
(* the browser's, which hold openid.                                         *)
NewOIDC ==
    IF ~asked.client \/ ~asked.redirect
    THEN Return("oidc") /\ UNCHANGED <<scheme, contacted>>
    ELSE /\ contacted' = contacted \cup {"issuer"}
         /\ \E found \in BOOLEAN :
              /\ canceled => ~found
              /\ IF ~found THEN Return("discover") /\ UNCHANGED scheme
                 ELSE IF asked.cliScopes # {} /\ "openid" \notin asked.cliScopes
                      THEN Return("scopes") /\ UNCHANGED scheme
                      ELSE scheme' = "oidc" /\ Goes("guard")

(* buildAuth: an issuer turns authentication on. *)
BuildAuth ==
    /\ at = "auth"
    /\ IF ~asked.issuer
       THEN scheme' = "open" /\ Goes("guard") /\ UNCHANGED <<key, contacted>>
       ELSE IF SessionKey = "refused" THEN Return("key") /\ UNCHANGED <<scheme, key, contacted>>
       ELSE key' = SessionKey /\ NewOIDC
    /\ UNCHANGED <<asked, source, scopes, canceled, listened>>

(* Faulty variant: an address that names no interface is taken for local. *)
GuardedUnlessOther == asked.allow \/ asked.addr \in {"loopback", "every"}

(* RequireOIDCOffLoopback, of one who is not authenticated. *)
Guarded == asked.allow \/ asked.addr = "loopback"

Guard ==
    /\ at = "guard"
    /\ IF scheme = "open" /\ ~Guarded
       THEN Return("guard") /\ UNCHANGED scheme
       ELSE /\ scheme' = IF scheme = "open" /\ asked.allow THEN "unauthenticated" ELSE scheme
            /\ Goes("source")
    /\ UNCHANGED <<asked, key, source, scopes, contacted, canceled, listened>>

(* buildSource: the demo touches no cluster; else the credentials, the       *)
(* profile, and discovery is left running.                                   *)
BuildSource ==
    /\ at = "source"
    /\ IF asked.demo
       THEN source' = "demo" /\ Goes("scopes") /\ UNCHANGED contacted
       ELSE \/ contacted' = contacted \cup {"management"} /\ Return("management") /\ UNCHANGED source
            \/ contacted' = contacted \cup {"management", "profile"} /\ Return("profile") /\ UNCHANGED source
            \/ contacted' = contacted \cup {"management", "profile"} /\ source' = "fleet" /\ Goes("scopes")
    /\ UNCHANGED <<asked, scheme, key, scopes, canceled, listened>>

(* LoadGroupScopes. *)
LoadScopes ==
    /\ at = "scopes"
    /\ IF asked.scopeFile = "bad" THEN Return("scope file") /\ UNCHANGED scopes
       ELSE scopes' = (IF asked.scopeFile = "good" THEN "groups" ELSE "everyone") /\ Goes("listen")
    /\ UNCHANGED <<asked, scheme, key, source, contacted, canceled, listened>>

(* ServeContext: the listener opens, or cannot; a malformed address is found *)
(* out here at the latest.                                                   *)
Listen ==
    /\ at = "listen"
    /\ \/ Return("listen") /\ UNCHANGED listened
       \/ asked.addr # "malformed" /\ listened' = TRUE /\ Goes("serving")
    /\ UNCHANGED <<asked, scheme, key, source, scopes, contacted, canceled>>

(* The signal closes the listener, and run returns without waiting for the   *)
(* requests still open or for discovery to put its collectors away.          *)
ServerCloses ==
    /\ at = "serving" /\ canceled
    /\ Return("done")
    /\ UNCHANGED <<asked, scheme, key, source, scopes, contacted, canceled, listened>>

(* Fleet.Run returns: its first list failed, and it is not tried again.      *)
DiscoveryStops ==
    /\ at # "over" /\ source = "fleet"
    /\ source' = "stopped"
    /\ UNCHANGED <<asked, at, scheme, key, scopes, contacted, canceled, listened, end>>

Signal ==
    /\ at \notin {"parse", "over"} /\ ~canceled
    /\ canceled' = TRUE
    /\ UNCHANGED <<asked, at, scheme, key, source, scopes, contacted, listened, end>>

ServeNext ==
    \/ ParseServe \/ BuildAuth \/ Guard \/ BuildSource \/ LoadScopes \/ Listen
    \/ ServerCloses \/ DiscoveryStops \/ Signal

ServeSpec == ServeInit /\ [][ServeNext]_serveVars

ServeTypeOK ==
    /\ asked \in Asked
    /\ at \in {"parse", "auth", "guard", "source", "scopes", "listen", "serving", "over"}
    /\ scheme \in {"none", "open", "unauthenticated", "oidc"}
    /\ key \in {"none", "made up", "given"} /\ source \in {"none", "demo", "fleet", "stopped"}
    /\ scopes \in {"none", "everyone", "groups"}
    /\ contacted \subseteq {"issuer", "management", "profile"}
    /\ canceled \in BOOLEAN /\ listened \in BOOLEAN

-------------------------------------------------------------------------------
(* Nothing is ever served that was not asked for in full: not the pages      *)
(* without sign-in off this machine unless that was said, in which case the  *)
(* pages say so too; not, where an issuer was named, without it and a key    *)
(* long enough, of the given text or of the bytes it stands for; not without *)
(* the scopes of the file that was named.  The demo reaches for no cluster,  *)
(* and a start that was refused has not listened (run, buildAuth, NewOIDC,   *)
(* RequireOIDCOffLoopback, buildSource).                                     *)
ServedAsAsked ==
    /\ listened =>
          /\ ~asked.issuer /\ asked.addr \in {"every", "other"} => scheme = "unauthenticated" /\ asked.allow
          /\ ~asked.issuer /\ asked.allow => scheme = "unauthenticated"
          /\ asked.issuer =>
                /\ scheme = "oidc" /\ key # "none" /\ "issuer" \in contacted
                /\ key = "given" => MinKey <= asked.text \/ MinKey <= asked.bytes
          /\ (scopes = "groups") <=> (asked.scopeFile = "good")
          /\ source # "none"
    /\ asked.demo => contacted \subseteq {"issuer"}
    /\ end \notin {"", "done"} => ~listened

(* What is served is served to those it is meant for: by the start, and by   *)
(* the scope of each reader.                                                 *)
ServedToThoseMeant == ServedAsAsked /\ OneScope

===============================================================================
