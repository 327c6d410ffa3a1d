-------------------------------- MODULE Launch --------------------------------
(***************************************************************************)
(* How sextant starts: which of its modes the command line asks for, the   *)
(* layered settings, the choice of kubeconfig contexts and the question    *)
(* put to the operator when a pattern is ambiguous, the watchers, the      *)
(* detection of plugins and the start of their polling                     *)
(* (cmd/sextant, internal/config, internal/kube, internal/app,             *)
(* pkg/collect, pkg/plugin).                                               *)
(*                                                                         *)
(* A context is a number, in the order of the names.  A pattern is the set *)
(* of contexts it matches.  An answer at the prompt is a number, a text    *)
(* that may be a name in full and occurs in some names, or the refusal to  *)
(* choose.                                                                 *)
(***************************************************************************)
EXTENDS Integers, Sequences, FiniteSets, SequencesExt, FiniteSetsExt, Functions

CONSTANTS
    Context,        \* the contexts there may be, numbers from 1
    Settings,       \* what flags, environment or file may set
    Site,           \* what profiles say: [management, workload: Selector]
    Kubeconfig,     \* the kubeconfigs: [known: contexts, current: the name it gives]
    Plugin,         \* the sequence of plugins, in registration order
    CoreKeys, PluginKeys,   \* the store's keys the diagnostic report goes through
    Attempts,       \* how often a malformed answer is asked again
    Unset

(* A name no context has stands for a typing error. *)
Missing == 0
NoContext == -1
NoPattern == {NoContext}
Blank == [management |-> NoContext, workload |-> NoContext, theme |-> "", server |-> ""]
Plugins == {Plugin[i] : i \in DOMAIN Plugin}

(* The names of plugins and the keys of the store are fixed in the code, and *)
(* a registry refuses a name it has; pluginRows has a part for each plugin.  *)
ASSUME LaunchAssumption ==
    /\ Context \subseteq Nat \ {0} /\ IsFiniteSet(Context)
    /\ \A k \in Kubeconfig : k.known \subseteq Context
    /\ \A s \in Settings : DOMAIN s = DOMAIN Blank
    /\ Attempts \in Nat \ {0}
    /\ {Plugin, PluginKeys} \subseteq Seq(Plugins) /\ CoreKeys \in Seq(ToSet(CoreKeys))
    /\ IsInjective(PluginKeys) /\ ToSet(PluginKeys) = Plugins
    /\ IsInjective(CoreKeys) /\ ToSet(CoreKeys) \cap Plugins = {}
    /\ Plugins \cap {"management", "workload", "fleet"} = {}

VARIABLES
    options,    \* the mode flags given
    flags, env, file,   \* the three layers
    config,     \* what they come to
    site,       \* the profile: one of Site, or BadSite when it does not load
    kube,       \* the kubeconfig read; none against a server
    stage,      \* where the start is
    mode,       \* what was asked for
    choice,     \* role -> the context chosen
    question,   \* the open prompt: [role, among: candidates by name, left: attempts]
    humans,     \* what was asked of the operator: "prompt", "sign-in"
    answers,    \* plugin -> what its probe said
    registry,   \* plugin -> [active, err], as far as detection has recorded
    running,    \* goroutines that write the store
    stored,     \* what each key of the store holds when the report is written
    report,     \* the rows of the diagnostic report
    outcome     \* why it ended; "" while it runs

launchVars == <<options, flags, env, file, config, site, kube, stage, mode, choice,
                question, humans, answers, registry, running, stored, report, outcome>>

given == <<options, flags, env, file, kube>>

BadSite == [bad |-> TRUE]
NoQuestion == [none |-> TRUE]
NoChoice == [management |-> Missing, workload |-> Missing]
Unprobed == [probed |-> FALSE]
Idle == [p \in Plugins |-> Unprobed]

LaunchInit ==
    /\ options = {} /\ flags = Unset /\ env = Unset /\ file = Unset
    /\ config = Unset /\ site = Unset /\ kube = Unset
    /\ stage = "parse" /\ mode = ""
    /\ choice = NoChoice
    /\ question = NoQuestion
    /\ humans = {}
    /\ answers = Idle /\ registry = Idle
    /\ running = {}
    /\ stored = Unset /\ report = <<>>
    /\ outcome = ""

-------------------------------------------------------------------------------
(* The command line. *)

Option == {"version", "init", "themes", "profiles", "contexts", "sign-out",
           "demo-fleet", "demo", "render", "snapshot", "dry-run"}

(* run: the first mode in this order that was asked for; a server setting    *)
(* from any layer outranks the demos and every kubeconfig mode.              *)
Early(opts) ==
    IF "version" \in opts THEN "version" ELSE IF "init" \in opts THEN "init" ELSE ""

ModeOf(opts, server) ==
    IF "themes" \in opts THEN "themes"
    ELSE IF "profiles" \in opts THEN "profiles"
    ELSE IF "contexts" \in opts THEN "contexts"
    ELSE IF "sign-out" \in opts THEN IF server = "" THEN "refused" ELSE "sign-out"
    ELSE IF server # "" THEN "server"
    ELSE IF "demo-fleet" \in opts THEN "demo-fleet"
    ELSE IF "demo" \in opts THEN "demo"
    ELSE IF "render" \in opts THEN "refused"
    ELSE IF "snapshot" \in opts THEN "snapshot"
    ELSE IF "dry-run" \in opts THEN "dry-run"
    ELSE "dashboard"

End(why) ==
    /\ outcome' = why
    /\ stage' = "ended"
    /\ running' = {}

(* parseFlags and the modes that need no configuration. *)
Parse ==
    /\ stage = "parse"
    /\ \E opts \in SUBSET Option, f \in Settings :
         /\ Cardinality(opts) <= 2
         /\ options' = opts /\ flags' = f
         /\ IF Early(opts) # ""
            THEN mode' = Early(opts) /\ End("done")
            ELSE /\ stage' = "layer"
                 /\ UNCHANGED <<mode, outcome, running>>
    /\ UNCHANGED <<env, file, config, site, kube, choice, question, humans, answers, registry, stored, report>>

(* Faulty variant: what comes later wins. *)
LayerFileFirst(top, under) == [k \in DOMAIN top |-> IF under[k] = Blank[k] THEN top[k] ELSE under[k]]

(* setIfEmpty, for every setting. *)
FillUnset(top, under) == [k \in DOMAIN top |-> IF top[k] = Blank[k] THEN under[k] ELSE top[k]]

(* LoadFile, MergeFile: a missing file sets nothing, an unreadable or        *)
(* malformed one ends the start.  MergeEnv goes over it.                     *)
Layer ==
    /\ stage = "layer"
    /\ \E e, f \in Settings, broken \in BOOLEAN :
         /\ env' = e /\ file' = f
         /\ IF broken
            THEN End("config") /\ UNCHANGED <<config, mode>>
            ELSE LET c == FillUnset(FillUnset(flags, e), f)
                     m == ModeOf(options, c.server)
                 IN /\ config' = c
                    /\ mode' = m
                    /\ IF m \in {"themes", "profiles", "contexts", "sign-out"} THEN End("done")
                       ELSE IF m = "refused" THEN End("refused")
                       ELSE /\ stage' = IF m \in {"demo", "demo-fleet"} THEN "theme" ELSE "load"
                            /\ UNCHANGED <<outcome, running>>
    /\ UNCHANGED <<options, flags, site, kube, choice, question, humans, answers, registry, stored, report>>

(* The demos read a theme and nothing else. *)
ShowDemo ==
    /\ stage = "theme"
    /\ End(IF config.theme = "wrong" THEN "theme" ELSE "done")
    /\ UNCHANGED <<given, config, site, mode, choice, question, humans, answers, registry, stored, report>>

-------------------------------------------------------------------------------
(* Contexts. *)

Selector(context, pattern) == [context |-> context, pattern |-> pattern]
NoPreference(sel) == sel.context = NoContext /\ sel.pattern = NoPattern

SelectorFor(role) ==
    Selector(IF config[role] # NoContext THEN config[role] ELSE site[role].context, site[role].pattern)

(* Find: a context named outright, else those the pattern matches, else the *)
(* current one, as far as the kubeconfig has them.                           *)
Find(sel) ==
    IF sel.context # NoContext THEN {sel.context} \cap kube.known
    ELSE IF sel.pattern # NoPattern THEN sel.pattern \cap kube.known
    ELSE {kube.current} \cap kube.known

(* Prepare: the kubeconfig, then the profile, then Resolve, which looks at   *)
(* the theme first; either file may fail to load.  Against a server the      *)
(* kubeconfig is not read, and the credential comes after profile and theme. *)
Prepare ==
    /\ stage = "load"
    /\ \E s \in Site \cup {BadSite}, k \in Kubeconfig \cup {Unset} :
         /\ k = Unset => mode = "server" \/ s = BadSite
         /\ mode = "server" => k = Unset
         /\ kube' = k
         /\ site' = s
         /\ CASE s = BadSite -> End("profile") /\ UNCHANGED humans
              [] s # BadSite /\ config.theme = "wrong" -> End("theme") /\ UNCHANGED humans
              [] s # BadSite /\ config.theme # "wrong" /\ mode = "server" ->
                   /\ humans' = {"sign-in"}
                   /\ stage' = "up"
                   /\ running' = {"fleet"}
                   /\ UNCHANGED outcome
              [] OTHER ->
                   /\ stage' = "management"
                   /\ UNCHANGED <<humans, running, outcome>>
    /\ UNCHANGED <<options, flags, env, file, config, mode, choice, question, answers, registry, stored, report>>

After(role) == IF role = "management" THEN "workload" ELSE "watch"

Chosen(role, c) ==
    /\ choice' = [choice EXCEPT ![role] = c]
    /\ question' = NoQuestion
    /\ stage' = After(role)

(* The candidates, by name. *)
ByName(found) ==
    CHOOSE s \in [1 .. Cardinality(found) -> found] : \A i, j \in DOMAIN s : i < j => s[i] < s[j]

(* kube.Resolve: one candidate is taken, several are asked about when        *)
(* someone is there to ask.                                                  *)
ResolveContext(role, someone) ==
    LET found == Find(SelectorFor(role))
    IN CASE found = {} -> End("not found") /\ UNCHANGED <<choice, question, humans>>
         [] Cardinality(found) = 1 ->
              Chosen(role, CHOOSE c \in found : TRUE) /\ UNCHANGED <<humans, running, outcome>>
         [] Cardinality(found) > 1 /\ ~someone -> End("ambiguous") /\ UNCHANGED <<choice, question, humans>>
         [] OTHER ->
              /\ question' = [role |-> role, among |-> ByName(found), left |-> Attempts]
              /\ humans' = humans \cup {"prompt"}
              /\ stage' = "asking"
              /\ UNCHANGED <<choice, running, outcome>>

(* Config.Resolve: a workload cluster is looked for only when one is asked   *)
(* for; else it is the management cluster.                                   *)
Resolve ==
    /\ stage \in {"management", "workload"}
    /\ IF stage = "workload" /\ NoPreference(SelectorFor("workload"))
       THEN Chosen("workload", choice.management) /\ UNCHANGED <<humans, running, outcome>>
       ELSE \E someone \in BOOLEAN : ResolveContext(stage, someone)
    /\ UNCHANGED <<given, config, site, mode, answers, registry, stored, report>>

(* match: a number is a row of the prompt, whatever a context is called;     *)
(* then a name in full; then a text that occurs in one name only.            *)
Match(answer, among) ==
    IF answer.number > 0
    THEN IF answer.number <= Len(among) THEN {among[answer.number]} ELSE {}
    ELSE IF answer.exact \in ToSet(among) THEN {answer.exact}
    ELSE LET within == answer.within \cap ToSet(among)
         IN IF Cardinality(within) = 1 THEN within ELSE {}

Answer ==
    [number : 1 .. Cardinality(Context) + 1, exact : {Missing}, within : {{}}]
    \cup {a \in [number : {0}, exact : Context \cup {Missing}, within : SUBSET Context] :
            a.exact # Missing => a.exact \in a.within}

(* TerminalPicker: a refusal or the end of the input gives up, and so does   *)
(* the last malformed answer.                                                *)
Ask ==
    /\ stage = "asking"
    /\ \/ End("declined") /\ question' = NoQuestion /\ UNCHANGED choice
       \/ \E answer \in Answer :
            LET m == Match(answer, question.among)
            IN IF m # {}
               THEN Chosen(question.role, CHOOSE c \in m : TRUE) /\ UNCHANGED <<running, outcome>>
               ELSE IF question.left = 1
                    THEN End("declined") /\ question' = NoQuestion /\ UNCHANGED choice
                    ELSE /\ question' = [question EXCEPT !.left = @ - 1]
                         /\ UNCHANGED <<choice, stage, running, outcome>>
    /\ UNCHANGED <<given, config, site, mode, humans, answers, registry, stored, report>>

-------------------------------------------------------------------------------
(* The watchers and the plugins. *)

(* StartWatchers and Watch: the management watcher runs before the workload  *)
(* watcher is built; an error from there on is returned, and the caller's    *)
(* deferred cancel stops what runs.  --dry-run stops here, the report when   *)
(* the management cluster does not answer.                                   *)
StartWatchers ==
    /\ stage = "watch"
    /\ \/ mode = "dry-run" /\ End("done")
       \/ mode # "dry-run" /\ End("watch")
       \/ /\ mode # "dry-run"
          /\ \E reachable \in BOOLEAN :
               IF mode = "snapshot" /\ ~reachable THEN End("unreachable")
               ELSE /\ running' = {"management", "workload"}
                    /\ stage' = "detect" /\ outcome' = outcome
    /\ UNCHANGED <<given, config, site, mode, choice, question, humans, answers, registry, stored, report>>

(* A plugin's own probe: present, absent, present but not readable now, or   *)
(* absent with a reason.  The probes run at the same time.                   *)
ProbePlugin(p) ==
    /\ stage = "detect"
    /\ ~answers[p].probed
    /\ \E active, failed \in BOOLEAN :
         answers' = [answers EXCEPT ![p] = [probed |-> TRUE, active |-> active, err |-> failed]]
    /\ UNCHANGED <<given, config, site, stage, mode, choice, question, humans, registry, running, stored, report, outcome>>

(* Registry.Detect: once every probe is back their outcomes are recorded in  *)
(* the order of registration, one lock at a time.                            *)
Record(i) ==
    /\ stage = "detect"
    /\ \A p \in Plugins : answers[p].probed
    /\ ~registry[Plugin[i]].probed
    /\ \A j \in 1 .. i - 1 : registry[Plugin[j]].probed
    /\ registry' = [registry EXCEPT ![Plugin[i]] = answers[Plugin[i]]]
    /\ UNCHANGED <<given, config, site, stage, mode, choice, question, humans, answers, running, stored, report, outcome>>

(* activePlugins, which the banner, the summaries and the panes go by. *)
Active == {p \in Plugins : registry[p].probed /\ registry[p].active}

(* Activate: every source detection found is run, and no other. *)
Activate ==
    /\ stage = "detect"
    /\ \A p \in Plugins : registry[p].probed
    /\ running' = running \cup Active
    /\ stage' = IF mode = "snapshot" THEN "warming" ELSE "up"
    /\ UNCHANGED <<given, config, site, mode, choice, question, humans, answers, registry, stored, report, outcome>>

-------------------------------------------------------------------------------
(* The diagnostic report. *)

(* What a key may hold: nothing, items, an empty list with a note, a typed   *)
(* error, an error of no type, or a plugin's limited tier.                   *)
Held == {"nothing", "items", "note", "error", "untyped error", "limited"}

(* describe: a core source always has a row. *)
CoreRow(key, held) ==
    [key |-> key, says |-> CASE held[key] = "error" -> "error"
                             [] held[key] = "note" -> "not ready"
                             [] held[key] = "items" -> "items"
                             [] held[key] = "untyped error" -> "unavailable"
                             [] OTHER -> "pending"]

(* pluginRows: a row for each plugin snapshot there is, in a fixed order:    *)
(* its error, else the tier it is limited to, else its summary.              *)
PluginRow(key, held) ==
    [key |-> key, says |-> CASE held[key] = "error" -> "error"
                             [] held[key] = "limited" -> "tier"
                             [] OTHER -> "items"]

PluginRows(held) ==
    LET upTo[i \in 0 .. Len(PluginKeys)] ==
            IF i = 0 THEN <<>>
            ELSE IF held[PluginKeys[i]] = "nothing" THEN upTo[i - 1]
            ELSE Append(upTo[i - 1], PluginRow(PluginKeys[i], held))
    IN upTo[Len(PluginKeys)]

ReportRows(held) == [i \in DOMAIN CoreKeys |-> CoreRow(CoreKeys[i], held)] \o PluginRows(held)

(* The lines on detection: one that came with an error reads "not available" *)
(* even when the plugin is active and is polled.                             *)
DetectLine(p) ==
    [key |-> p, says |-> IF registry[p].err THEN "not available"
                         ELSE IF registry[p].active THEN "detected" ELSE "absent"]

(* What the store may hold when the wait is over: each key is put by one     *)
(* source only, which may have put nothing yet.                              *)
Holdings ==
    {h \in [ToSet(CoreKeys) \cup Plugins -> Held] :
        /\ \A k \in ToSet(CoreKeys) : h[k] # "limited"
        /\ \A p \in Plugins : h[p] \in {"nothing", "items", "error", "limited"} /\ (p \notin running => h[p] = "nothing")}

(* DebugSnapshot: once the wait for the caches is over, the detection and    *)
(* then what every source has come to.                                       *)
DebugSnapshot ==
    /\ stage = "warming"
    /\ stored' \in Holdings
    /\ report' = [i \in DOMAIN Plugin |-> DetectLine(Plugin[i])] \o ReportRows(stored')
    /\ End("done")
    /\ UNCHANGED <<given, config, site, mode, choice, question, humans, answers, registry>>

(* Quitting, or a signal. *)
Quit ==
    /\ stage = "up"
    /\ End("done")
    /\ UNCHANGED <<given, config, site, mode, choice, question, humans, answers, registry, stored, report>>

LaunchNext ==
    \/ Parse \/ Layer \/ ShowDemo \/ Prepare \/ Resolve \/ Ask \/ StartWatchers
    \/ \E p \in Plugins : ProbePlugin(p)
    \/ \E i \in DOMAIN Plugin : Record(i)
    \/ Activate \/ DebugSnapshot \/ Quit

LaunchSpec == LaunchInit /\ [][LaunchNext]_launchVars

-------------------------------------------------------------------------------
(* Properties. *)

(* The setting the operator gave most directly, read off the layers. *)
Given(k) ==
    IF flags[k] # Blank[k] THEN flags[k] ELSE IF env[k] # Blank[k] THEN env[k] ELSE file[k]

(* The contexts a role may be given when nothing is guessed: the one named   *)
(* by the nearest of flag, environment, file and profile; else those the     *)
(* profile's pattern matches; else, for the management cluster, the current  *)
(* one, and for the workload cluster the management cluster's own.           *)
Wanted(role) ==
    LET named == IF Given(role) # NoContext THEN Given(role) ELSE site[role].context
    IN IF named # NoContext THEN {named}
       ELSE IF site[role].pattern # NoPattern THEN site[role].pattern
       ELSE IF role = "workload" THEN {choice.management} ELSE {kube.current}

(* The clusters watched are the ones asked for, each a context that exists;  *)
(* a typing error is never replaced by another cluster, and an answer at the *)
(* prompt picks among what the pattern matched (Config.Resolve,              *)
(* kube.Resolve, TerminalPicker).                                            *)
WatchesWhatWasAsked ==
    "management" \in running =>
        /\ mode \in {"dashboard", "snapshot"}
        /\ \A role \in {"management", "workload"} :
             choice[role] \in kube.known \cap Wanted(role)

(* Nobody is asked to choose a context or to sign in for a start whose theme *)
(* or profile is wrong, or whose command wanted neither                      *)
(* (internal/config/config.go:247, cmd/sextant/main.go:141).                 *)
NothingAskedInVain ==
    humans # {} =>
        /\ config.theme # "wrong" /\ site # BadSite
        /\ mode \in {"server", "dashboard", "snapshot", "dry-run"}
        /\ "prompt" \in humans => Given("server") = ""

(* While detection records its outcomes no plugin is shown that said it is   *)
(* absent; once the dashboard is up the plugins shown are the ones that      *)
(* said they are there, and each of them is polled; a start that failed, or  *)
(* ended, leaves nothing running (Registry.Detect, Activate, app.Run).       *)
DetectedIsPolled ==
    /\ \A p \in Active : answers[p].active
    /\ stage \in {"up", "warming"} /\ mode # "server" =>
         Active = {p \in Plugins : answers[p].active} /\ Active = running \cap Plugins
    /\ outcome # "" => running = {}
    /\ running \cap Plugins # {} => {"management", "workload"} \subseteq running

(* The report has a row for every core source and for every plugin that has *)
(* published, none for another; a source that failed never reads as one      *)
(* with items or one still pending (DebugSnapshot).                          *)
ReportTellsAll ==
    report # <<>> =>
        LET rows == ToSet(SubSeq(report, Len(Plugin) + 1, Len(report)))
        IN /\ {r.key : r \in rows} = ToSet(CoreKeys) \cup {p \in Plugins : stored[p] # "nothing"}
           /\ Cardinality(rows) = Len(report) - Len(Plugin)
           /\ \A r \in rows : stored[r.key] \in {"error", "untyped error"} <=> r.says \in {"error", "unavailable"}

(* From the command line to the report, sextant does what it was asked and   *)
(* shows what it found: its clusters, its questions, its plugins, its rows.  *)
StartIsAsAsked == WatchesWhatWasAsked /\ NothingAskedInVain /\ DetectedIsPolled /\ ReportTellsAll

===============================================================================
