-------------------------------- MODULE Tokens --------------------------------
(***************************************************************************)
(* Signing sextant in to binnacle servers, staying signed in and signing   *)
(* out (internal/clientauth).  Every sextant of a user shares one file of  *)
(* credentials, an entry per server, which nothing locks: it is read       *)
(* whole, and written through a temporary file of one fixed name (Put) or  *)
(* in place (Forget).  A refresh token is exchanged for a new one, and the *)
(* old one is then worth nothing.                                          *)
(*                                                                         *)
(* Opening a file for writing truncates it, so an open and its write are   *)
(* two steps; a process may be killed between any two steps.  Time passes  *)
(* in ticks.                                                               *)
(***************************************************************************)
EXTENDS Naturals, FiniteSets, Sequences, Functions, TLC

CONSTANTS
    Process,      \* the sextants
    Server,       \* the binnacle servers
    TokenLife,    \* ticks an ID token is fresh for
    MaxSession,   \* ticks a sign-in may be extended for (12 h in the code)
    MaxNow,       \* bound: ticks
    MaxGrant,     \* bound: refresh tokens issued
    MaxKill,      \* bound: processes killed
    NoServer,     \* of a process that has not been started
    NoEntry,
    NoFile,
    Torn          \* what cannot be decoded

(* An entry: until when its ID token is fresh, its refresh token as an index *)
(* of grants, and FirstSignIn.                                               *)
Entry == [fresh : 0..(MaxNow + TokenLife), grant : 1..MaxGrant, started : 0..MaxNow]
Nothing == <<>>
Map == UNION {[S -> Entry] : S \in SUBSET Server}

ASSUME TokensAssumption ==
    /\ {TokenLife, MaxSession, MaxNow, MaxGrant, MaxKill} \subseteq Nat
    /\ TokenLife > 0
    /\ NoServer \notin Server
    /\ IsFiniteSet(Process)
    /\ NoEntry \notin Entry /\ {NoFile, Torn} \cap Map = {}

VARIABLES
    now,
    grants,     \* the provider's refresh tokens: server, when the user signed in, live
    file,       \* the entries of tokens.json; Torn when truncated and not yet written
    tmp,        \* the same of tokens.json.tmp, or NoFile
    proc,       \* the processes
    kills,
    saved,      \* history: the entry each server should have, as if nothing overlapped
    overlapped, \* history: whether two processes were writing at once
    lost        \* history: whether a process was killed, or failed to rename, halfway

history == <<saved, overlapped, lost>>
tokenVars == <<now, grants, file, tmp, proc, kills, history>>

Idle == [server |-> NoServer, at |-> "off", then |-> "none", fresh |-> 0,
         entry |-> NoEntry, map |-> Nothing, fd |-> "none"]

TokensInit ==
    /\ now = 0
    /\ grants = <<>>
    /\ file = NoFile /\ tmp = NoFile
    /\ proc = [p \in Process |-> Idle]
    /\ kills = 0
    /\ saved = Nothing
    /\ overlapped = FALSE /\ lost = FALSE

-------------------------------------------------------------------------------
(* Cache.load: no entries when there is no file or none that can be decoded. *)
Load == IF file \in {Torn, NoFile} THEN Nothing ELSE file

(* fresh: a stale token is one about to be; expired: the ceiling since the   *)
(* user last signed in.                                                      *)
Fresh(until) == now < until
Expired(e) == now - e.started > MaxSession

Without(m, s) == Restrict(m, DOMAIN m \ {s})
With(m, s, e) == [t \in DOMAIN m \cup {s} |-> IF t = s THEN e ELSE m[t]]

(* The processes that are about to write the file, or to forget an entry of  *)
(* it, and have not done so.                                                 *)
Writing(ps) == {p \in Process : ps[p].at \in {"forget", "open", "write", "rename", "truncate", "rewrite"}}

Changed(o, changed) == [f \in DOMAIN o |-> IF f \in DOMAIN changed THEN changed[f] ELSE o[f]]

Step(p, changed) ==
    /\ proc' = [proc EXCEPT ![p] = Changed(proc[p], changed)]
    /\ overlapped' = (overlapped \/ Cardinality(Writing(proc')) > 1)

-------------------------------------------------------------------------------
(* The provider.  A sign-in by the user, or a refresh token's exchange.    *)

Exchange(g) == [i \in 1..(Len(grants) + 1) |->
    IF i = Len(grants) + 1 THEN [server |-> grants[g].server, start |-> grants[g].start, live |-> TRUE]
    ELSE IF i = g THEN [grants[i] EXCEPT !.live = FALSE] ELSE grants[i]]

(* Faulty variant of Issued: every new token is a new session. *)
IssuedAfresh(first) == [fresh |-> now + TokenLife, grant |-> Len(grants) + 1, started |-> now]

(* store: the entry for the token just issued, of a session that began first. *)
Issued(first) == [fresh |-> now + TokenLife, grant |-> Len(grants) + 1, started |-> first]

-------------------------------------------------------------------------------
(* Start for server s. *)
Start(p, s) ==
    /\ proc[p].at = "off"
    /\ Step(p, [server |-> s, at |-> "discover"])
    /\ UNCHANGED <<now, grants, file, tmp, kills, saved, lost>>

(* Discover and fetchWith: the server may not answer, may not ask for a      *)
(* token, and may get one that was supplied or a command's; only otherwise   *)
(* does the user's provider come into it.                                    *)
Discover(p) ==
    /\ proc[p].at = "discover"
    /\ Step(p, Idle) \/ Step(p, [at |-> "signin"])
    /\ UNCHANGED <<now, grants, file, tmp, kills, saved, lost>>

(* signIn: by what the file holds for the server. *)
SignIn(p) ==
    /\ proc[p].at = "signin"
    /\ LET s == proc[p].server IN
       IF s \notin DOMAIN Load THEN Step(p, [at |-> "device"])
       ELSE \/ Expired(Load[s]) /\ Step(p, [at |-> "forget", then |-> "device"])
            \/ ~Expired(Load[s]) /\ Fresh(Load[s].fresh) /\ Step(p, [at |-> "on", fresh |-> Load[s].fresh])
            \/ ~Expired(Load[s]) /\ ~Fresh(Load[s].fresh)
               /\ Step(p, [at |-> "refresh", entry |-> Load[s], then |-> "device"])
    /\ UNCHANGED <<now, grants, file, tmp, kills, saved, lost>>

(* deviceSignIn: the user signs in, if asked to and willing. *)
DeviceSignIn(p) ==
    /\ proc[p].at = "device"
    /\ \/ /\ Len(grants) < MaxGrant
          /\ grants' = Append(grants, [server |-> proc[p].server, start |-> now, live |-> TRUE])
          /\ Step(p, [at |-> "load", then |-> "none", entry |-> Issued(now), fresh |-> now + TokenLife])
       \/ /\ Step(p, Idle)
          /\ UNCHANGED grants
    /\ UNCHANGED <<now, file, tmp, kills, saved, lost>>

(* Faulty variant of Token: renew goes by the entry the process has in       *)
(* memory, not by the file's.                                                *)
TokenByMemory(p) ==
    /\ proc[p].at = "on"
    /\ ~Fresh(proc[p].fresh)
    /\ proc[p].entry # NoEntry /\ ~Expired(proc[p].entry)
    /\ Step(p, [at |-> "refresh", then |-> "on"])
    /\ UNCHANGED <<now, grants, file, tmp, kills, saved, lost>>

(* Session.Token with a stale token: renew reads the file's entry, which     *)
(* another process may have renewed meanwhile, and never asks the user.  The *)
(* ceiling is not looked at while the token in memory is fresh.              *)
Token(p) ==
    /\ proc[p].at = "on"
    /\ ~Fresh(proc[p].fresh)
    /\ LET s == proc[p].server IN
         /\ s \in DOMAIN Load /\ ~Expired(Load[s])
         /\ Step(p, [at |-> "refresh", entry |-> Load[s], then |-> "on"])
    /\ UNCHANGED <<now, grants, file, tmp, kills, saved, lost>>

(* refresh: the exchange succeeds if the provider answers and the refresh    *)
(* token is still live.                                                      *)
Refresh(p) ==
    /\ proc[p].at = "refresh"
    /\ LET e == proc[p].entry IN
       \/ /\ grants[e.grant].live /\ Len(grants) < MaxGrant
          /\ grants' = Exchange(e.grant)
          /\ Step(p, [at |-> "load", then |-> "none", entry |-> Issued(e.started), fresh |-> now + TokenLife])
       \/ Step(p, [at |-> proc[p].then]) /\ UNCHANGED grants
    /\ UNCHANGED <<now, file, tmp, kills, saved, lost>>

-------------------------------------------------------------------------------
(* Put: load, write the temporary file, rename it over the other.          *)

PutLoad(p) ==
    /\ proc[p].at = "load"
    /\ Step(p, [at |-> "open", map |-> With(Load, proc[p].server, proc[p].entry)])
    /\ UNCHANGED <<now, grants, file, tmp, kills, saved, lost>>

PutOpen(p) ==
    /\ proc[p].at = "open"
    /\ tmp' = Torn
    /\ Step(p, [at |-> "write", fd |-> "tmp"])
    /\ UNCHANGED <<now, grants, file, kills, saved, lost>>

(* The bytes go to the file that was opened, wherever a rename has put it    *)
(* since; two who write to one file at once may leave half of each.          *)
WriteTo(p) ==
    \E bytes \in {proc[p].map} \cup (IF overlapped THEN {Torn} ELSE {}) :
        /\ tmp' = IF proc[p].fd = "tmp" THEN bytes ELSE tmp
        /\ file' = IF proc[p].fd = "file" THEN bytes ELSE file

PutWrite(p) ==
    /\ proc[p].at = "write"
    /\ WriteTo(p)
    /\ Step(p, [at |-> "rename"])
    /\ UNCHANGED <<now, grants, kills, saved, lost>>

(* The rename fails when another process has renamed the temporary file away;*)
(* the token is used without having been saved, and whatever the temporary   *)
(* file is by then is removed.                                               *)
Moved(from, to) == [q \in Process |->
    [proc[q] EXCEPT !.fd = IF @ = to THEN "none" ELSE IF @ = from THEN to ELSE @]]

PutRename(p) ==
    /\ proc[p].at = "rename"
    /\ IF tmp = NoFile
       THEN /\ Step(p, [at |-> "remove", map |-> Nothing, fd |-> "none"])
            /\ lost' = TRUE
            /\ UNCHANGED <<file, tmp>>
       ELSE /\ file' = tmp
            /\ tmp' = NoFile
            /\ proc' = [Moved("tmp", "file") EXCEPT
                         ![p] = Changed(proc[p], [at |-> "on", map |-> Nothing, fd |-> "none"])]
            /\ UNCHANGED <<overlapped, lost>>
    /\ saved' = With(saved, proc[p].server, proc[p].entry)
    /\ UNCHANGED <<now, grants, kills>>

PutRemove(p) ==
    /\ proc[p].at = "remove"
    /\ tmp' = NoFile
    /\ proc' = [Moved("tmp", "none") EXCEPT ![p] = Changed(proc[p], [at |-> "on"])]
    /\ UNCHANGED <<now, grants, file, kills, history>>

-------------------------------------------------------------------------------
(* Forget, before a sign-in or for a sign-out: load, and write in place.   *)

Forget(p) ==
    /\ proc[p].at = "forget"
    /\ Step(p, IF proc[p].server \in DOMAIN Load
               THEN [at |-> "truncate", map |-> Without(Load, proc[p].server)]
               ELSE [at |-> proc[p].then])
    /\ UNCHANGED <<now, grants, file, tmp, kills, saved, lost>>

Truncate(p) ==
    /\ proc[p].at = "truncate"
    /\ file' = Torn
    /\ Step(p, [at |-> "rewrite", fd |-> "file"])
    /\ UNCHANGED <<now, grants, tmp, kills, saved, lost>>

Rewrite(p) ==
    /\ proc[p].at = "rewrite"
    /\ WriteTo(p)
    /\ saved' = IF proc[p].server \in DOMAIN proc[p].map THEN saved
                ELSE Without(saved, proc[p].server)
    /\ Step(p, [at |-> proc[p].then, map |-> Nothing, fd |-> "none"])
    /\ UNCHANGED <<now, grants, kills, lost>>

(* SignOut: the entry is looked up, forgotten, and its refresh token revoked *)
(* if the provider can be asked to; then the process ends.                   *)
SignOut(p, s) ==
    /\ proc[p].at = "off"
    /\ s \in DOMAIN Load
    /\ Step(p, [server |-> s, at |-> "forget", then |-> "revoke", entry |-> Load[s]])
    /\ UNCHANGED <<now, grants, file, tmp, kills, saved, lost>>

Revoke(p) ==
    /\ proc[p].at = "revoke"
    /\ grants' \in {grants, [grants EXCEPT ![proc[p].entry.grant].live = FALSE]}
    /\ Step(p, Idle)
    /\ UNCHANGED <<now, file, tmp, kills, saved, lost>>

Quit(p) ==
    /\ proc[p].at = "on"
    /\ proc' = [proc EXCEPT ![p] = Idle]
    /\ UNCHANGED <<now, grants, file, tmp, kills, history>>

Kill(p) ==
    /\ kills < MaxKill
    /\ proc[p].at \notin {"off", "on"}
    /\ kills' = kills + 1
    /\ proc' = [proc EXCEPT ![p] = Idle]
    /\ lost' = TRUE
    /\ UNCHANGED <<now, grants, file, tmp, saved, overlapped>>

Tick ==
    /\ now < MaxNow
    /\ now' = now + 1
    /\ UNCHANGED <<grants, file, tmp, proc, kills, history>>

Acts(p) ==
    \/ Discover(p) \/ SignIn(p) \/ DeviceSignIn(p) \/ Token(p) \/ Refresh(p)
    \/ PutLoad(p) \/ PutOpen(p) \/ PutWrite(p) \/ PutRename(p) \/ PutRemove(p)
    \/ Forget(p) \/ Truncate(p) \/ Rewrite(p) \/ Revoke(p)

TokensNext ==
    \/ Tick
    \/ \E p \in Process : Acts(p) \/ Quit(p) \/ Kill(p)
    \/ \E p \in Process, s \in Server : Start(p, s) \/ SignOut(p, s)

TokensSpec == TokensInit /\ [][TokensNext]_tokenVars

-------------------------------------------------------------------------------
(* The entry a process holds between the provider's answer and the rename. *)
Saving(s) == {p \in Process : proc[p].server = s
                    /\ proc[p].at \in {"refresh", "load", "open", "write", "rename"}}

TokensTypeOK ==
    /\ now \in 0..MaxNow
    /\ file \in {Torn, NoFile} \cup Map /\ tmp \in {Torn, NoFile} \cup Map
    /\ \A p \in Process : /\ proc[p].server \in Server \cup {NoServer}
                          /\ proc[p].entry = NoEntry \/ proc[p].entry \in Entry

(* However often it is refreshed, and by whichever process, an entry's       *)
(* ceiling is counted from when the user last signed in: what the file holds *)
(* and what is about to be put there say when the refresh token's first      *)
(* ancestor was granted (refresh carries FirstSignIn over, store saves it).  *)
CeilingIsFromSignIn ==
    LET True(e) == e.started = grants[e.grant].start IN
    /\ \A s \in DOMAIN Load : True(Load[s])
    /\ \A p \in Process : proc[p].entry # NoEntry => True(proc[p].entry)

(* The file is a map that is saved whole: while no two processes have written*)
(* at once and none has been killed half way, whoever reads it reads the     *)
(* last entry put for every server, but in the moment that Forget, which     *)
(* writes in place, has truncated it.                                        *)
CacheIsAMap ==
    ~overlapped /\ ~lost /\ (\A p \in Process : proc[p].at # "rewrite") => Load = saved

(* What the cache holds is true and whole. *)
CacheHolds == CeilingIsFromSignIn /\ CacheIsAMap

(* A session that renews goes by the token on disk, not by the one it was    *)
(* started with: unless another process is at that very moment renewing the  *)
(* same server's, or one was interrupted, the refresh token it presents has  *)
(* not been used up by another process.                                      *)
RenewsByTheFile ==
    [][\A p \in Process :
         /\ proc[p].at = "on" /\ proc'[p].at = "refresh"
         /\ ~overlapped /\ ~lost /\ Saving(proc[p].server) = {}
         => grants[proc'[p].entry.grant].live]_tokenVars

===============================================================================
